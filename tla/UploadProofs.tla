---------------------------- MODULE UploadProofs ----------------------------
(***************************************************************************)
(* Upload.tla, for any number of versions, chunks and packets in the       *)
(* buffers: OK means that the device holds the whole file with its date,   *)
(* an existing file is only overwritten on request, and the source of a    *)
(* move is unlinked last.                                                  *)
(***************************************************************************)
EXTENDS Upload, SequenceTheorems, TLAPS

Remotes   == [there : BOOLEAN, parts : Seq(0..MaxVersion), date : Unset..(Wrap - 1)]
Packets   == [id : {"SEND", "DATA", "DONE"}, val : 0..(MaxVersion + Wrap)]

Listening == adbd \in {"idle", "open"}
Ended     == chan # <<>> /\ chan[Len(chan)].id = "DONE"

\* Until the request is written adbd knows nothing of the call.
BeforeRequest ==
    pc \in {"idle", "stat", "remoteStat", "open", "connect", "request"} =>
        /\ chan = <<>> /\ sent = 0 /\ reply = "none" /\ code = "none" /\ notice = "none"
        /\ adbd \in (IF pc = "request" THEN {"idle", "gone"} ELSE {"idle"})

\* The local version only grows, and the call sees it from stat() on.
Versions == seen <= local.ver /\ (pc = "data" => chunk \in seen..local.ver)

\* SEND is the first packet, DONE the last, and between them are the chunks.
PacketsInOrder ==
    Listening =>
        \A i \in 1..Len(chan) :
            /\ chan[i].id = "SEND" <=> adbd = "idle" /\ i = 1
            /\ chan[i].id = "DATA" => chan[i].val \in seen..local.ver
            /\ chan[i].id = "DONE" => i = Len(chan) /\ chan[i].val = MtimeArg

\* No chunk is lost between the client and the file.
Queued == IF Ended THEN Len(chan) - 1 ELSE Len(chan)
NoneLost ==
    /\ adbd = "open" => sent = Len(remote.parts) + Queued
    /\ adbd = "idle" => sent = IF chan = <<>> THEN 0 ELSE Queued - 1
    /\ Listening /\ Ended => sent = Size

\* What the client has come to.
Progress ==
    /\ pc \in {"read", "data", "done"} => adbd # "done" /\ (adbd = "idle" => chan # <<>>)
    /\ pc \in Writing \cup {"read"} => ~Listening \/ ~Ended
    /\ pc = "data" => sent < Size
    /\ pc = "done" => sent = Size
    /\ pc = "unlink" => reply = "OKAY" /\ flags.move
    /\ pc = "failBody" => reply = "FAIL"

\* What adbd has come to.
RemoteFile ==
    /\ adbd \in {"open", "done"} =>
         remote.there /\ \A i \in 1..Len(remote.parts) : remote.parts[i] \in seen..local.ver
    /\ adbd = "open" => remote.date = Unset
    /\ adbd = "done" => /\ chan = <<>> /\ Len(remote.parts) = sent /\ sent = Size
                        /\ remote.date = MtimeArg
    /\ adbd = "done" <=> reply = "OKAY"
    /\ reply = "FAIL" => adbd = "gone"

\* Who passes the remote STAT may overwrite, or has nothing to overwrite.
MayWrite ==
    adbd = "idle" /\ (chan # <<>> \/ pc \in {"open", "connect", "request"}) =>
        flags.overwrite \/ ~remote.there

Outcome ==
    /\ code = "OK" => reply = "OKAY"
    /\ code = "USERABORT" => cancel
    /\ notice = "adbd" => reply = "FAIL"

IInv ==
    /\ TypeOK /\ remote \in Remotes /\ BeforeRequest /\ Versions /\ PacketsInOrder /\ NoneLost
    /\ Progress /\ RemoteFile /\ MayWrite /\ Outcome

-----------------------------------------------------------------------------
(* Packets in the buffers.                                                 *)

LEMMA Sizes == \A v \in 1..MaxVersion : Chunks[v] \in Nat /\ Dates[v] \in Int
BY UploadAssumption DEF UploadAssumption

\* The date on the wire is one of the 32 bits, and the date itself if it fits.
LEMMA WireDate ==
    ASSUME seen \in 1..MaxVersion
    PROVE  /\ MtimeArg \in 0..(Wrap - 1)
           /\ Dates[seen] \in 0..(Wrap - 1) => MtimeArg = Dates[seen]
<1>1. ASSUME NEW d \in Int, NEW w \in Nat \ {0}
      PROVE  d % w \in 0..(w - 1) /\ (d \in 0..(w - 1) => d % w = d)
  OBVIOUS
<1> QED
  BY <1>1, Sizes, UploadAssumption DEF MtimeArg, UploadAssumption

\* What is left when adbd takes a packet, and what a written one adds.
LEMMA PacketTaken ==
    ASSUME NEW P, NEW s \in Seq(P), s # <<>>
    PROVE  /\ Head(s) = s[1] /\ s[1] \in P /\ Len(s) \in Nat \ {0}
           /\ Tail(s) \in Seq(P) /\ Len(Tail(s)) = Len(s) - 1
           /\ \A i \in 1..(Len(s) - 1) : Tail(s)[i] = s[i + 1]
BY HeadTailProperties, LenProperties, ElementOfSeq, EmptySeq

LEMMA PacketAdded ==
    ASSUME NEW P, NEW s \in Seq(P), NEW p \in P
    PROVE  /\ Append(s, p) \in Seq(P) /\ Len(Append(s, p)) = Len(s) + 1
           /\ \A i \in 1..Len(s) : Append(s, p)[i] = s[i]
           /\ Append(s, p)[Len(s) + 1] = p /\ Append(s, p) # <<>>
BY AppendProperties, LenProperties

-----------------------------------------------------------------------------
(* The invariant.                                                          *)

LEMMA Initially == Init => IInv
<1> SUFFICES ASSUME Init PROVE IInv
  OBVIOUS
<1> USE UploadAssumption DEF Init
<1>1. seen \in 1..MaxVersion /\ 1 \in 1..MaxVersion /\ Size \in Nat
  BY Sizes DEF UploadAssumption, Size
<1>2. remote \in Remotes
  <2>1. <<>> \in Seq(0..MaxVersion) /\ <<0>> \in Seq(0..MaxVersion)
    BY EmptySeq DEF UploadAssumption
  <2>2. -1 \in Unset..(Wrap - 1) /\ 0 \in Unset..(Wrap - 1)
    BY DEF Unset, UploadAssumption
  <2>3. NoRemote \in Remotes /\ [there |-> TRUE, parts |-> <<0>>, date |-> 0] \in Remotes
    BY <2>1, <2>2 DEF Remotes, NoRemote, Unset
  <2> QED
    BY <2>3
<1>3. TypeOK
  <2>1. chan \in Seq(Packets) /\ Len(chan) <= Window
    BY EmptySeq DEF UploadAssumption
  <2>2. remote.there \in BOOLEAN /\ remote.parts \in Seq(0..MaxVersion)
        /\ remote.date \in Unset..(Wrap - 1)
    BY <1>2 DEF Remotes
  <2>3. chunk \in 0..MaxVersion /\ sent \in 0..Size /\ local \in [there : BOOLEAN, ver : 1..MaxVersion]
    BY <1>1 DEF UploadAssumption
  <2> QED
    BY <1>1, <2>1, <2>2, <2>3 DEF TypeOK, Stages, Packets
<1>4. Len(chan) = 0
  OBVIOUS
<1>5. Versions /\ PacketsInOrder /\ NoneLost /\ BeforeRequest
  BY <1>4 DEF Versions, PacketsInOrder, NoneLost, Ended, Listening, BeforeRequest
<1>6. Progress /\ RemoteFile /\ MayWrite /\ Outcome
  BY DEF Progress, Writing, RemoteFile, MayWrite, Outcome
<1> QED
  BY <1>2, <1>3, <1>5, <1>6 DEF IInv

\* Most steps change neither the files nor the buffers nor what the client has sent.
Quiet  == UNCHANGED <<seen, sent, chunk, local, chan, adbd, reply, remote>>
Aloud  ==
    \/ Stat \/ ReadLocal \/ SendRequest \/ WriteData \/ WriteDone \/ Unlink \/ LocalEdited
    \/ AdbdOpens \/ AdbdWrites \/ AdbdFinishes \/ AdbdRefuses \/ AdbdLeaves

Softly ==
    \/ \E overwrite, move \in BOOLEAN : Start(overwrite, move)
    \/ LocalFails \/ RemoteStat \/ Open \/ Connect \/ SessionRefused \/ AllSent \/ ReadLocalFails
    \/ WriteBreaks \/ Pending \/ FinalOkay \/ FinalFail \/ ReadFailBody \/ FinalBreaks
    \/ StallCancelled \/ UnlinkFails \/ UserCancels \/ SleepsOrWakes

LEMMA Steps == [Next]_vars => Aloud \/ Softly \/ UNCHANGED vars
BY DEF Next, ThreadRuns, Aloud, Softly

LEMMA Quietly == Softly \/ UNCHANGED vars => Quiet
BY DEF Softly, vars, call, link, Quiet, Start, LocalFails, RemoteStat, Open, Connect, SessionRefused,
       AllSent, ReadLocalFails, WriteBreaks, Pending, FinalOkay, FinalFail, ReadFailBody, FinalBreaks,
       StallCancelled, UnlinkFails, UserCancels, SleepsOrWakes

\* The device holds a file with its chunks and a date, or with none yet.
LEMMA RemoteTyped == IInv /\ [Next]_vars => remote' \in Remotes
<1> SUFFICES ASSUME IInv, [Next]_vars PROVE remote' \in Remotes
  OBVIOUS
<1> USE DEF IInv
<1>0. NoRemote \in Remotes
  BY EmptySeq, UploadAssumption DEF NoRemote, Remotes, Unset, UploadAssumption
<1>1. CASE Quiet
  BY <1>1 DEF Quiet
<1>2. CASE \/ Stat \/ ReadLocal \/ SendRequest \/ WriteData \/ WriteDone \/ Unlink \/ LocalEdited
           \/ AdbdRefuses \/ AdbdLeaves
  BY <1>0, <1>2 DEF Stat, ReadLocal, SendRequest, WriteData, WriteDone, Writes, Unlink, LocalEdited,
                    AdbdRefuses, AdbdLeaves, link
<1>3. CASE AdbdOpens
  BY <1>3, EmptySeq, UploadAssumption DEF AdbdOpens, Remotes, Unset, UploadAssumption
<1>4. CASE AdbdWrites
  <2>1. chan # <<>> /\ Head(chan).id = "DATA" /\ Listening
    BY <1>4 DEF AdbdWrites, AdbdTakes, Listening
  <2>2. Head(chan) = chan[1] /\ 1 \in 1..Len(chan)
    BY <2>1, PacketTaken DEF TypeOK, Packets
  <2>3. Head(chan).val \in 0..MaxVersion
    <3>1. Head(chan).val \in seen..local.ver
      BY <2>1, <2>2 DEF PacketsInOrder
    <3>2. seen \in 1..MaxVersion /\ local.ver \in 1..MaxVersion
      BY DEF TypeOK
    <3> QED
      BY <3>1, <3>2, UploadAssumption DEF UploadAssumption
  <2>4. Append(remote.parts, Head(chan).val) \in Seq(0..MaxVersion)
    BY <2>3, AppendProperties DEF TypeOK
  <2> QED
    BY <1>4, <2>4 DEF AdbdWrites, Remotes
<1>5. CASE AdbdFinishes
  <2>1. chan # <<>> /\ Head(chan).id = "DONE" /\ Listening
    BY <1>5 DEF AdbdFinishes, AdbdTakes, Listening
  <2>2. Head(chan) = chan[1] /\ 1 \in 1..Len(chan)
    BY <2>1, PacketTaken DEF TypeOK, Packets
  <2>3. Head(chan).val = MtimeArg
    BY <2>1, <2>2 DEF PacketsInOrder
  <2>4. Head(chan).val \in Unset..(Wrap - 1)
    BY <2>3, WireDate DEF TypeOK, Unset
  <2> QED
    BY <1>5, <2>4 DEF AdbdFinishes, Remotes
<1> QED
  BY <1>1, <1>2, <1>3, <1>4, <1>5, Steps, Quietly DEF Aloud

LEMMA TypedStep == IInv /\ [Next]_vars => TypeOK'
<1> SUFFICES ASSUME IInv, [Next]_vars PROVE TypeOK'
  OBVIOUS
<1> USE UploadAssumption DEF UploadAssumption
<1>0. TypeOK
  BY DEF IInv
<1>1. remote'.there \in BOOLEAN /\ remote'.parts \in Seq(0..MaxVersion)
      /\ remote'.date \in Unset..(Wrap - 1)
  BY RemoteTyped DEF Remotes
<1>2a. pc' \in Stages
  <2>1. CASE Aloud
    BY <1>0, <2>1
       DEF Aloud, Stat, ReadLocal, SendRequest, WriteData, WriteDone, Unlink, LocalEdited, AdbdOpens,
           AdbdWrites, AdbdFinishes, AdbdRefuses, AdbdLeaves, AdbdTakes, Client, GoTo,
           Return, call, TypeOK, Stages, Hooked, Writing
  <2>2. CASE Softly
    BY <1>0, <2>2
       DEF Softly, Start, LocalFails, RemoteStat, Open, Connect, SessionRefused, AllSent,
           ReadLocalFails, WriteBreaks, Pending, FinalOkay, FinalFail, ReadFailBody, FinalBreaks,
           StallCancelled, UnlinkFails, UserCancels, SleepsOrWakes, GoTo,
           Return, call, TypeOK, Stages, Hooked, Writing
  <2>3. CASE UNCHANGED vars
    BY <1>0, <2>3 DEF TypeOK, vars, call, link
  <2> QED
    BY <2>1, <2>2, <2>3, Steps
<1>2b. code' \in {"none", "OK", "EXISTS", "READERROR", "WRITEERROR", "USERABORT"}
        /\ notice' \in {"none", "errno", "adbd"}
  <2>1. CASE Aloud
    BY <1>0, <2>1
       DEF Aloud, Stat, ReadLocal, SendRequest, WriteData, WriteDone, Unlink, LocalEdited, AdbdOpens,
           AdbdWrites, AdbdFinishes, AdbdRefuses, AdbdLeaves, AdbdTakes, Client, GoTo,
           Return, call, TypeOK
  <2>2. CASE Softly
    BY <1>0, <2>2
       DEF Softly, Start, LocalFails, RemoteStat, Open, Connect, SessionRefused, AllSent,
           ReadLocalFails, WriteBreaks, Pending, FinalOkay, FinalFail, ReadFailBody, FinalBreaks,
           StallCancelled, UnlinkFails, UserCancels, SleepsOrWakes, GoTo,
           Return, call, TypeOK
  <2>3. CASE UNCHANGED vars
    BY <1>0, <2>3 DEF TypeOK, vars, call, link
  <2> QED
    BY <2>1, <2>2, <2>3, Steps
<1>2c. flags' \in [overwrite : BOOLEAN, move : BOOLEAN] /\ cancel' \in BOOLEAN
  <2>1. CASE Aloud
    BY <1>0, <2>1
       DEF Aloud, Stat, ReadLocal, SendRequest, WriteData, WriteDone, Unlink, LocalEdited, AdbdOpens,
           AdbdWrites, AdbdFinishes, AdbdRefuses, AdbdLeaves, AdbdTakes, Client, call,
           TypeOK
  <2>2. ASSUME NEW overwrite \in BOOLEAN, NEW move \in BOOLEAN, Start(overwrite, move)
        PROVE  flags' \in [overwrite : BOOLEAN, move : BOOLEAN] /\ cancel' \in BOOLEAN
    BY <1>0, <2>2 DEF Start, TypeOK
  <2>4. CASE Softly /\ ~\E overwrite, move \in BOOLEAN : Start(overwrite, move)
    BY <1>0, <2>4
       DEF Softly, LocalFails, RemoteStat, Open, Connect, SessionRefused, AllSent,
           ReadLocalFails, WriteBreaks, Pending, FinalOkay, FinalFail, ReadFailBody, FinalBreaks,
           StallCancelled, UnlinkFails, UserCancels, SleepsOrWakes, call,
           TypeOK
  <2>3. CASE UNCHANGED vars
    BY <1>0, <2>3 DEF TypeOK, vars, call, link
  <2> QED
    BY <2>1, <2>2, <2>3, <2>4, Steps DEF Softly
<1>2d. /\ asleep' \in BOOLEAN /\ adbd' \in {"idle", "open", "done", "gone"}
       /\ reply' \in {"none", "OKAY", "FAIL"}
  <2>1. CASE Aloud
    BY <1>0, <2>1
       DEF Aloud, Stat, ReadLocal, SendRequest, WriteData, WriteDone, Unlink, LocalEdited, AdbdOpens,
           AdbdWrites, AdbdFinishes, AdbdRefuses, AdbdLeaves, AdbdTakes, Client, call,
           link, Writes, TypeOK
  <2>2. CASE Softly
    BY <1>0, <2>2
       DEF Softly, Start, LocalFails, RemoteStat, Open, Connect, SessionRefused, AllSent,
           ReadLocalFails, WriteBreaks, Pending, FinalOkay, FinalFail, ReadFailBody, FinalBreaks,
           StallCancelled, UnlinkFails, UserCancels, SleepsOrWakes, call,
           link, Writes, TypeOK
  <2>3. CASE UNCHANGED vars
    BY <1>0, <2>3 DEF TypeOK, vars, call, link
  <2> QED
    BY <2>1, <2>2, <2>3, Steps
<1>3. /\ seen' \in 1..MaxVersion /\ local' \in [there : BOOLEAN, ver : 1..MaxVersion]
      /\ chunk' \in 0..MaxVersion
  <2>1. CASE Quiet
    BY <1>0, <2>1 DEF Quiet, TypeOK
  <2>2. CASE Aloud
    <3>1. seen' \in 1..MaxVersion /\ chunk' \in 0..MaxVersion
      BY <1>0, <2>2
         DEF Aloud, Stat, ReadLocal, SendRequest, WriteData, WriteDone, Unlink, LocalEdited, AdbdOpens,
             AdbdWrites, AdbdFinishes, AdbdRefuses, AdbdLeaves, AdbdTakes, Client, call, TypeOK
    <3>2. local' \in [there : BOOLEAN, ver : 1..MaxVersion]
      <4>1. CASE LocalEdited
        <5>1. local.ver + 1 \in 1..MaxVersion /\ local' = [local EXCEPT !.ver = local.ver + 1]
          BY <1>0, <4>1 DEF LocalEdited, TypeOK
        <5> QED
          BY <1>0, <5>1 DEF TypeOK
      <4>2. CASE Unlink
        BY <1>0, <4>2 DEF Unlink, TypeOK
      <4>3. CASE Aloud /\ ~LocalEdited /\ ~Unlink
        BY <1>0, <4>3
           DEF Aloud, Stat, ReadLocal, SendRequest, WriteData, WriteDone, AdbdOpens, AdbdWrites,
               AdbdFinishes, AdbdRefuses, AdbdLeaves, AdbdTakes, Client, TypeOK
      <4> QED
        BY <2>2, <4>1, <4>2, <4>3
    <3> QED
      BY <3>1, <3>2
  <2> QED
    BY <2>1, <2>2, Quietly, Steps
<1>4. sent' \in 0..Size'
  <2>0. Size \in Nat /\ Size' \in Nat
    BY <1>0, <1>3, Sizes DEF TypeOK, Size
  <2>1. CASE Quiet
    BY <1>0, <2>1 DEF Quiet, TypeOK, Size
  <2>2. CASE Stat
    BY <2>0, <2>2 DEF Stat, IInv, BeforeRequest
  <2>3. CASE WriteData
    BY <1>0, <2>0, <2>3 DEF WriteData, IInv, Progress, TypeOK, Size, call
  <2>4. CASE Aloud /\ ~Stat /\ ~WriteData
    <3>1. sent' = sent /\ seen' = seen
      BY <2>4 DEF Aloud, ReadLocal, SendRequest, WriteDone, Unlink, LocalEdited, AdbdOpens,
                  AdbdWrites, AdbdFinishes, AdbdRefuses, AdbdLeaves, AdbdTakes, Client, call
    <3> QED
      BY <1>0, <3>1 DEF TypeOK, Size
  <2> QED
    BY <2>1, <2>2, <2>3, <2>4, Quietly, Steps
<1>5. chan' \in Seq(Packets) /\ Len(chan') <= Window
  <2>0. chan \in Seq(Packets) /\ Len(chan) <= Window
    BY <1>0 DEF TypeOK, Packets
  <2>1. CASE chan' = chan
    BY <2>0, <2>1
  <2>2. CASE chan # <<>> /\ chan' = Tail(chan)
    BY <2>0, <2>2, PacketTaken
  <2>3. ASSUME NEW p \in Packets, Writes(p) PROVE chan' \in Seq(Packets) /\ Len(chan') <= Window
    BY <2>0, <2>3, PacketAdded DEF Writes, Accepts
  <2>4. Packet("SEND", 0) \in Packets
    BY DEF Packet, Packets
  <2>5. Packet("DATA", chunk) \in Packets
    BY <1>0 DEF Packet, Packets, TypeOK
  <2>6. Packet("DONE", MtimeArg) \in Packets
    BY <1>0, WireDate DEF Packet, Packets, TypeOK
  <2>7. CASE Aloud
    BY <2>1, <2>2, <2>3, <2>4, <2>5, <2>6, <2>7
       DEF Aloud, Stat, ReadLocal, SendRequest, WriteData, WriteDone, Unlink, LocalEdited, AdbdOpens,
           AdbdWrites, AdbdFinishes, AdbdRefuses, AdbdLeaves, AdbdTakes, link
  <2> QED
    BY <2>1, <2>7, Quietly, Steps DEF Quiet
<1> QED
  BY <1>1, <1>2a, <1>2b, <1>2c, <1>2d, <1>3, <1>4, <1>5 DEF TypeOK, Packets

\* What adbd finds at the head of the buffers, and what is left in them.
LEMMA Taking ==
    ASSUME IInv, NEW id, AdbdTakes(id)
    PROVE  /\ Listening /\ Len(chan) \in Nat \ {0} /\ Len(chan') = Len(chan) - 1
           /\ Head(chan) = chan[1] /\ chan[1].id = id
           /\ \A i \in 1..Len(chan') : chan'[i] = chan[i + 1]
           /\ Ended <=> chan[Len(chan)].id = "DONE"
           /\ Ended' <=> Len(chan) > 1 /\ Ended
           /\ UNCHANGED <<pc, flags, seen, sent, chunk, code, notice, cancel, local>>
           /\ MtimeArg' = MtimeArg /\ Size' = Size
<1>1. chan # <<>> /\ chan' = Tail(chan) /\ Head(chan).id = id /\ adbd \in {"idle", "open"}
  BY DEF AdbdTakes
<1>2. chan \in Seq(Packets)
  BY DEF IInv, TypeOK, Packets
<1>3. /\ Head(chan) = chan[1] /\ Len(chan) \in Nat \ {0}
      /\ chan' \in Seq(Packets) /\ Len(chan') = Len(chan) - 1
      /\ \A i \in 1..(Len(chan) - 1) : chan'[i] = chan[i + 1]
  BY <1>1, <1>2, PacketTaken
<1>4. chan' # <<>> <=> Len(chan) > 1
  BY <1>3, EmptySeq
<1>5. Len(chan) > 1 => chan'[Len(chan')] = chan[Len(chan)]
  BY <1>3
<1>6. UNCHANGED <<pc, flags, seen, sent, chunk, code, notice, cancel, local>>
  BY DEF AdbdTakes, Client, call
<1> QED
  BY <1>1, <1>3, <1>4, <1>5, <1>6 DEF Listening, Ended, MtimeArg, Size

\* What the client's write of a packet makes of the buffers, if adbd is there.
LEMMA Putting ==
    ASSUME IInv, NEW p \in Packets, Writes(p), Listening
    PROVE  /\ Len(chan) \in Nat /\ Len(chan') = Len(chan) + 1
           /\ \A i \in 1..Len(chan) : chan'[i] = chan[i]
           /\ chan'[Len(chan')] = p /\ chan' # <<>>
           /\ Ended' <=> p.id = "DONE"
           /\ UNCHANGED <<asleep, adbd, reply, remote>>
<1>1. chan \in Seq(Packets)
  BY DEF IInv, TypeOK, Packets
<1>2. chan' = Append(chan, p) /\ UNCHANGED <<asleep, adbd, reply, remote>>
  BY DEF Writes, Listening
<1>3. /\ Len(chan) \in Nat /\ Len(chan') = Len(chan) + 1
      /\ \A i \in 1..Len(chan) : chan'[i] = chan[i]
      /\ chan'[Len(chan) + 1] = p /\ chan' # <<>>
  BY <1>1, <1>2, PacketAdded, LenProperties
<1> QED
  BY <1>2, <1>3 DEF Ended

\* The packets the client writes.
LEMMA Written ==
    ASSUME IInv
    PROVE  /\ Packet("SEND", 0) \in Packets /\ Packet("DATA", chunk) \in Packets
           /\ Packet("DONE", MtimeArg) \in Packets
           /\ \A i, v : Packet(i, v).id = i /\ Packet(i, v).val = v
<1>1. Packet("SEND", 0) \in Packets
  BY UploadAssumption DEF Packet, Packets, UploadAssumption
<1>2. Packet("DATA", chunk) \in Packets
  BY UploadAssumption DEF Packet, Packets, IInv, TypeOK, UploadAssumption
<1>3. Packet("DONE", MtimeArg) \in Packets
  BY UploadAssumption, WireDate DEF Packet, Packets, IInv, TypeOK, UploadAssumption
<1> QED
  BY <1>1, <1>2, <1>3 DEF Packet

LEMMA BeforeRequestStep == IInv /\ [Next]_vars => BeforeRequest'
<1> SUFFICES ASSUME IInv, [Next]_vars PROVE BeforeRequest'
  OBVIOUS
<1> USE DEF IInv, BeforeRequest, GoTo, Return, call, link
<1>1. CASE Softly
  BY <1>1 DEF Softly, Start, LocalFails, RemoteStat, Open, Connect, SessionRefused, AllSent,
           ReadLocalFails, WriteBreaks, Pending, FinalOkay, FinalFail, ReadFailBody, FinalBreaks,
           StallCancelled, UnlinkFails, UserCancels, SleepsOrWakes
<1>2. CASE Stat \/ ReadLocal \/ SendRequest \/ WriteData \/ WriteDone \/ Unlink \/ LocalEdited
  BY <1>2 DEF Stat, ReadLocal, SendRequest, WriteData, WriteDone, Unlink, LocalEdited
<1>3. CASE AdbdOpens \/ AdbdWrites \/ AdbdFinishes \/ AdbdRefuses
  BY <1>3 DEF AdbdOpens, AdbdWrites, AdbdFinishes, AdbdRefuses, AdbdTakes, Client
<1>4. CASE AdbdLeaves
  BY <1>4 DEF AdbdLeaves, BeforeSession, Client
<1>5. CASE UNCHANGED vars
  BY <1>5 DEF vars
<1> QED
  BY <1>1, <1>2, <1>3, <1>4, <1>5, Steps DEF Aloud

LEMMA VersionsStep == IInv /\ [Next]_vars => Versions'
<1> SUFFICES ASSUME IInv, [Next]_vars PROVE Versions'
  OBVIOUS
<1>0. Versions /\ seen \in Int /\ local.ver \in Int
  BY UploadAssumption DEF IInv, TypeOK, UploadAssumption
<1> USE DEF Versions, GoTo, Return
<1>1. CASE Softly
  <2>1. pc' = "data" => pc = "data"
    BY <1>1 DEF Softly, Start, LocalFails, RemoteStat, Open, Connect, SessionRefused, AllSent,
           ReadLocalFails, WriteBreaks, Pending, FinalOkay, FinalFail, ReadFailBody, FinalBreaks,
           StallCancelled, UnlinkFails, UserCancels, SleepsOrWakes
  <2> QED
    BY <1>0, <1>1, <2>1, Quietly DEF Quiet
<1>2. CASE Stat
  BY <1>0, <1>2 DEF Stat
<1>3. CASE ReadLocal
  BY <1>0, <1>3 DEF ReadLocal, call
<1>4. CASE LocalEdited
  <2>1. local'.ver = local.ver + 1 /\ UNCHANGED <<pc, seen, chunk>>
    BY <1>0, <1>4 DEF LocalEdited, call, IInv, TypeOK
  <2> QED
    BY <1>0, <2>1
<1>5. CASE Unlink
  <2>1. local'.ver = local.ver /\ pc' = "returned" /\ seen' = seen
    BY <1>5 DEF Unlink, call, IInv, TypeOK
  <2> QED
    BY <1>0, <2>1
<1>6. CASE SendRequest \/ WriteData \/ WriteDone \/ AdbdOpens \/ AdbdWrites \/ AdbdFinishes
           \/ AdbdRefuses \/ AdbdLeaves \/ UNCHANGED vars
  BY <1>0, <1>6 DEF SendRequest, WriteData, WriteDone, AdbdOpens, AdbdWrites, AdbdFinishes, AdbdRefuses,
              AdbdLeaves, AdbdTakes, Client, call, vars
<1> QED
  BY <1>1, <1>2, <1>3, <1>4, <1>5, <1>6, Steps DEF Aloud

\* Nothing of what a step may do to the versions upsets the packets on their way.
LEMMA SameOrder ==
    ASSUME IInv, UNCHANGED <<seen, chan, adbd>>, local'.ver \in Int, local'.ver >= local.ver
    PROVE  PacketsInOrder'
<1>1. MtimeArg' = MtimeArg
  BY DEF MtimeArg
<1>2. seen \in Int /\ local.ver \in Int
  BY UploadAssumption DEF IInv, TypeOK, UploadAssumption
<1> QED
  BY <1>1, <1>2 DEF IInv, PacketsInOrder, Listening

LEMMA PacketsInOrderStep == IInv /\ [Next]_vars => PacketsInOrder'
<1> SUFFICES ASSUME IInv, [Next]_vars PROVE PacketsInOrder'
  OBVIOUS
<1> USE DEF GoTo, Return
<1>0. /\ PacketsInOrder /\ local.ver \in Int /\ seen \in Int /\ Len(chan) \in Nat
      /\ local.ver + 1 >= local.ver /\ local.ver >= local.ver
  BY UploadAssumption, LenProperties DEF IInv, TypeOK, UploadAssumption
<1>1. CASE Quiet
  BY <1>0, <1>1, SameOrder DEF Quiet
<1>2. CASE LocalEdited
  <2>1. local'.ver = local.ver + 1 /\ UNCHANGED <<seen, chan, adbd>>
    BY <1>2 DEF LocalEdited, call, link, IInv, TypeOK
  <2> QED
    BY <1>0, <2>1, SameOrder
<1>3. CASE Unlink
  <2>1. local'.ver = local.ver /\ UNCHANGED <<seen, chan, adbd>>
    BY <1>3 DEF Unlink, call, link, IInv, TypeOK
  <2> QED
    BY <1>0, <2>1, SameOrder
<1>4. CASE Stat
  <2>1. chan = <<>> /\ chan' = chan
    BY <1>4 DEF Stat, link, IInv, BeforeRequest
  <2> QED
    BY <2>1, EmptySeq DEF PacketsInOrder
<1>5. CASE ReadLocal
  BY <1>0, <1>5, SameOrder DEF ReadLocal, call, link
<1>6. ASSUME NEW p \in Packets, Writes(p), UNCHANGED <<seen, local>>,
             p.id = "SEND" <=> adbd = "idle" /\ chan = <<>>,
             p.id = "DATA" => p.val \in seen..local.ver,
             p.id = "DONE" => p.val = MtimeArg,
             Listening => ~Ended
      PROVE  PacketsInOrder'
  <2> SUFFICES ASSUME Listening', NEW i \in 1..Len(chan')
               PROVE  /\ chan'[i].id = "SEND" <=> adbd' = "idle" /\ i = 1
                      /\ chan'[i].id = "DATA" => chan'[i].val \in (seen..local.ver)'
                      /\ chan'[i].id = "DONE" => i = Len(chan') /\ chan'[i].val = MtimeArg'
    BY DEF PacketsInOrder
  <2>1. adbd' = adbd /\ Listening /\ MtimeArg' = MtimeArg
    BY <1>6 DEF Writes, Listening, MtimeArg
  <2>2. /\ Len(chan') = Len(chan) + 1 /\ chan'[Len(chan')] = p
        /\ \A k \in 1..Len(chan) : chan'[k] = chan[k]
    BY <1>6, <2>1, Putting
  <2>3. CASE i = Len(chan')
    <3>1. i = 1 <=> chan = <<>>
      BY <1>0, <2>2, <2>3, EmptySeq DEF IInv, TypeOK
    <3> QED
      BY <1>6, <2>1, <2>2, <2>3, <3>1
  <2>4. CASE i # Len(chan')
    <3>1. i \in 1..Len(chan) /\ chan'[i] = chan[i]
      BY <1>0, <2>2, <2>4
    <3>2. chan[i].id # "DONE"
      <4>1. chan[i].id = "DONE" => i = Len(chan) /\ chan # <<>>
        BY <1>0, <2>1, <3>1, EmptySeq DEF PacketsInOrder
      <4> QED
        BY <1>6, <2>1, <4>1 DEF Ended
    <3> QED
      BY <1>0, <1>6, <2>1, <3>1, <3>2 DEF PacketsInOrder
  <2> QED
    BY <2>3, <2>4
<1>7. CASE SendRequest
  <2>1. Writes(Packet("SEND", 0)) /\ UNCHANGED <<seen, local>> /\ chan = <<>>
    BY <1>7 DEF SendRequest, call, IInv, BeforeRequest
  <2>2. CASE adbd = "idle"
    BY <1>6, <2>1, <2>2, Written DEF Ended
  <2>3. CASE adbd # "idle"
    <3>1. adbd' = "gone"
      BY <1>7, <2>1, <2>3 DEF SendRequest, IInv, BeforeRequest, Writes
    <3> QED
      BY <3>1 DEF PacketsInOrder, Listening
  <2> QED
    BY <2>2, <2>3
<1>8. CASE WriteData
  <2>1. Writes(Packet("DATA", chunk)) /\ UNCHANGED <<seen, local>> /\ pc = "data"
    BY <1>8 DEF WriteData, call
  <2>2. (adbd = "idle" => chan # <<>>) /\ (Listening => ~Ended) /\ chunk \in seen..local.ver
    BY <2>1 DEF IInv, Progress, Versions, Writing
  <2> QED
    BY <1>6, <2>1, <2>2, Written
<1>9. CASE WriteDone
  <2>1. Writes(Packet("DONE", MtimeArg)) /\ UNCHANGED <<seen, local>> /\ pc = "done"
    BY <1>9 DEF WriteDone, call
  <2>2. (adbd = "idle" => chan # <<>>) /\ (Listening => ~Ended)
    BY <2>1 DEF IInv, Progress, Writing
  <2> QED
    BY <1>6, <2>1, <2>2, Written
<1>10. CASE AdbdOpens
  <2>1. AdbdTakes("SEND") /\ adbd' = "open"
    BY <1>10 DEF AdbdOpens
  <2> SUFFICES ASSUME NEW i \in 1..Len(chan')
               PROVE  /\ chan'[i].id # "SEND"
                      /\ chan'[i].id = "DATA" => chan'[i].val \in (seen..local.ver)'
                      /\ chan'[i].id = "DONE" => i = Len(chan') /\ chan'[i].val = MtimeArg'
    BY <2>1 DEF PacketsInOrder
  <2>2. /\ chan'[i] = chan[i + 1] /\ Len(chan') = Len(chan) - 1 /\ Listening
        /\ UNCHANGED <<seen, local>> /\ MtimeArg' = MtimeArg
    BY <2>1, Taking
  <2>3. i + 1 \in 1..Len(chan) /\ i + 1 # 1
    BY <1>0, <2>2
  <2> QED
    BY <1>0, <2>2, <2>3 DEF PacketsInOrder
<1>11. CASE AdbdWrites
  <2>1. AdbdTakes("DATA") /\ adbd' = adbd
    BY <1>11 DEF AdbdWrites
  <2>2. chan[1].id = "DATA" /\ Listening /\ 1 \in 1..Len(chan)
    BY <2>1, Taking
  <2>3. adbd = "open"
    BY <1>0, <2>2 DEF PacketsInOrder, Listening
  <2> SUFFICES ASSUME NEW i \in 1..Len(chan')
               PROVE  /\ chan'[i].id # "SEND"
                      /\ chan'[i].id = "DATA" => chan'[i].val \in (seen..local.ver)'
                      /\ chan'[i].id = "DONE" => i = Len(chan') /\ chan'[i].val = MtimeArg'
    BY <2>1, <2>3 DEF PacketsInOrder
  <2>4. /\ chan'[i] = chan[i + 1] /\ Len(chan') = Len(chan) - 1
        /\ UNCHANGED <<seen, local>> /\ MtimeArg' = MtimeArg
    BY <2>1, Taking
  <2>5. i + 1 \in 1..Len(chan) /\ i + 1 # 1
    BY <1>0, <2>4
  <2> QED
    BY <1>0, <2>2, <2>3, <2>4, <2>5 DEF PacketsInOrder
<1>12. CASE AdbdFinishes \/ AdbdRefuses \/ AdbdLeaves
  <2>1. adbd' \in {"done", "gone"}
    BY <1>12 DEF AdbdFinishes, AdbdRefuses, AdbdLeaves
  <2> QED
    BY <2>1 DEF PacketsInOrder, Listening
<1> QED
  BY <1>1, <1>2, <1>3, <1>4, <1>5, <1>7, <1>8, <1>9, <1>10, <1>11, <1>12, Steps, Quietly DEF Aloud

LEMMA NoneLostStep == IInv /\ [Next]_vars => NoneLost'
<1> SUFFICES ASSUME IInv, [Next]_vars PROVE NoneLost'
  OBVIOUS
<1>0. /\ NoneLost /\ sent \in Int /\ Len(chan) \in Nat /\ Len(remote.parts) \in Nat
      /\ chan = <<>> <=> Len(chan) = 0
      /\ Queued \in Int
  BY UploadAssumption, LenProperties, Sizes, EmptySeq
     DEF IInv, TypeOK, UploadAssumption, Size, Queued
<1>1. CASE Quiet
  BY <1>0, <1>1 DEF Quiet, NoneLost, Listening, Queued, Ended, Size
<1>2. CASE Stat
  BY <1>0, <1>2 DEF Stat, link, IInv, BeforeRequest, NoneLost, Queued, Ended, Listening
<1>3. CASE LocalEdited \/ Unlink \/ ReadLocal
  <2>1. UNCHANGED <<sent, seen, chan, adbd, remote>>
    BY <1>3 DEF LocalEdited, Unlink, ReadLocal, call, link
  <2> QED
    BY <1>0, <2>1 DEF NoneLost, Listening, Queued, Ended, Size
<1>4. CASE SendRequest
  <2>1. /\ Writes(Packet("SEND", 0)) /\ UNCHANGED <<sent, seen>>
        /\ chan = <<>> /\ sent = 0 /\ adbd \in {"idle", "gone"}
    BY <1>4 DEF SendRequest, call, IInv, BeforeRequest
  <2>2. CASE adbd = "gone"
    BY <2>1, <2>2 DEF Writes, NoneLost, Listening
  <2>3. CASE adbd = "idle"
    <3>1. Queued' = 1 /\ chan' # <<>> /\ ~Ended' /\ adbd' = "idle"
      BY <1>0, <2>1, <2>3, Putting, Written DEF Listening, Queued
    <3> QED
      BY <2>1, <3>1 DEF NoneLost
  <2> QED
    BY <2>1, <2>2, <2>3
<1>5. CASE WriteData
  <2>1. /\ Writes(Packet("DATA", chunk)) /\ sent' = sent + 1 /\ seen' = seen
        /\ adbd = "idle" => chan # <<>>
        /\ Listening => ~Ended
    BY <1>5 DEF WriteData, call, IInv, Progress, Writing
  <2>2. CASE ~Listening
    BY <2>1, <2>2 DEF Writes, NoneLost, Listening
  <2>3. CASE Listening
    <3>1. /\ Queued' = Queued + 1 /\ chan' # <<>> /\ ~Ended'
          /\ adbd' = adbd /\ remote' = remote
      BY <2>1, <2>3, Putting, Written DEF Queued
    <3>2. CASE adbd = "open"
      <4>1. PICK length \in Int : length = Len(remote.parts)
        BY <1>0
      <4>2. sent = length + Queued
        BY <1>0, <3>2, <4>1 DEF NoneLost
      <4>3. sent' = length + Queued'
        BY <1>0, <2>1, <3>1, <4>2
      <4> QED
        BY <2>1, <3>1, <3>2, <4>1, <4>3 DEF NoneLost
    <3>3. CASE adbd = "idle"
      BY <1>0, <2>1, <3>1, <3>3 DEF NoneLost
    <3> QED
      BY <2>3, <3>2, <3>3 DEF Listening
  <2> QED
    BY <2>2, <2>3
<1>6. CASE WriteDone
  <2>1. /\ Writes(Packet("DONE", MtimeArg)) /\ sent' = sent /\ seen' = seen
        /\ adbd = "idle" => chan # <<>>
        /\ Listening => ~Ended
        /\ sent = Size
    BY <1>6 DEF WriteDone, call, IInv, Progress, Writing
  <2>2. CASE ~Listening
    BY <2>1, <2>2 DEF Writes, NoneLost, Listening
  <2>3. CASE Listening
    <3>1. /\ Queued' = Queued /\ chan' # <<>> /\ Ended'
          /\ adbd' = adbd /\ remote' = remote /\ Size' = Size
      BY <2>1, <2>3, Putting, Written DEF Queued, Size
    <3> QED
      BY <1>0, <2>1, <2>3, <3>1 DEF NoneLost, Listening
  <2> QED
    BY <2>2, <2>3
<1>7. CASE AdbdOpens
  <2>1. AdbdTakes("SEND") /\ adbd' = "open" /\ remote'.parts = <<>>
    BY <1>7 DEF AdbdOpens
  <2>2. /\ Len(chan) > 0 /\ Len(chan') = Len(chan) - 1 /\ sent' = sent /\ Size' = Size
        /\ Listening /\ chan[1].id = "SEND" /\ (Ended' <=> Len(chan) > 1 /\ Ended)
        /\ Ended <=> chan[Len(chan)].id = "DONE"
    BY <2>1, Taking
  <2>3. adbd = "idle"
    BY <1>0, <2>2 DEF IInv, PacketsInOrder
  <2>4. Len(chan) = 1 => ~Ended
    BY <2>2
  <2>5. Len(remote'.parts) = 0 /\ Queued' = Queued - 1 /\ (Ended' => Ended)
    BY <1>0, <2>1, <2>2, <2>4 DEF Queued
  <2> QED
    BY <1>0, <2>1, <2>2, <2>3, <2>5 DEF NoneLost
<1>8. CASE AdbdWrites
  <2>1. AdbdTakes("DATA") /\ adbd' = adbd /\ remote' = [remote EXCEPT !.parts = Append(@, Head(chan).val)]
    BY <1>8 DEF AdbdWrites
  <2>2. /\ Len(chan) > 0 /\ Len(chan') = Len(chan) - 1 /\ sent' = sent /\ Size' = Size
        /\ Listening /\ chan[1].id = "DATA" /\ (Ended' <=> Len(chan) > 1 /\ Ended)
        /\ Ended <=> chan[Len(chan)].id = "DONE"
    BY <2>1, Taking
  <2>3. adbd = "open"
    BY <1>0, <2>2 DEF IInv, PacketsInOrder, Listening
  <2>4. Len(chan) = 1 => ~Ended
    BY <2>2
  <2>5. Len(remote'.parts) = Len(remote.parts) + 1
    <3>1. remote'.parts = Append(remote.parts, Head(chan).val) /\ remote'.parts \in Seq(0..MaxVersion)
      BY <2>1, RemoteTyped DEF IInv, Remotes
    <3>2. remote.parts \in Seq(0..MaxVersion)
      BY DEF IInv, TypeOK
    <3> QED
      BY <3>1, <3>2
  <2>6. Queued' = Queued - 1 /\ (Ended' => Ended)
    BY <1>0, <2>2, <2>4 DEF Queued
  <2> QED
    BY <1>0, <2>1, <2>2, <2>3, <2>5, <2>6 DEF NoneLost
<1>9. CASE AdbdFinishes \/ AdbdRefuses \/ AdbdLeaves
  <2>1. adbd' \in {"done", "gone"}
    BY <1>9 DEF AdbdFinishes, AdbdRefuses, AdbdLeaves
  <2> QED
    BY <2>1 DEF NoneLost, Listening
<1> QED
  BY <1>1, <1>2, <1>3, <1>4, <1>5, <1>6, <1>7, <1>8, <1>9, Steps, Quietly DEF Aloud

LEMMA ProgressStep == IInv /\ [Next]_vars => Progress'
<1> SUFFICES ASSUME IInv, [Next]_vars PROVE Progress'
  OBVIOUS
<1> USE DEF GoTo, Return
<1>0. Progress /\ RemoteFile /\ BeforeRequest /\ sent \in 0..Size /\ Size \in Nat
  BY UploadAssumption, Sizes DEF IInv, TypeOK, UploadAssumption, Size
<1>1. CASE Softly
  <2>1. UNCHANGED <<sent, seen, chan, adbd, reply>> /\ Size' = Size /\ (Ended' <=> Ended)
        /\ (Listening' <=> Listening)
    BY <1>1, Quietly DEF Quiet, Size, Ended, Listening
  <2>a. (\E overwrite, move \in BOOLEAN : Start(overwrite, move)) => pc' = "stat"
    BY DEF Start
  <2>b. Open \/ RemoteStat \/ FinalFail \/ WriteBreaks \/ FinalOkay =>
          pc' \in {"open", "connect", "failBody", "pending", "unlink", "returned"}
    BY DEF Open, RemoteStat, FinalFail, WriteBreaks, FinalOkay
  <2>c. LocalFails \/ SessionRefused \/ ReadLocalFails \/ Pending \/ ReadFailBody \/ FinalBreaks
             \/ StallCancelled \/ UnlinkFails => pc' = "returned"
    BY DEF LocalFails, SessionRefused, ReadLocalFails, Pending, ReadFailBody, FinalBreaks,
           StallCancelled, UnlinkFails
  <2>d. UserCancels \/ SleepsOrWakes => pc' = pc
    BY DEF UserCancels, SleepsOrWakes
  <2>e. /\ Connect => pc = "connect" /\ pc' = "request"
        /\ AllSent => pc = "read" /\ sent = Size /\ pc' = "done"
    BY DEF Connect, AllSent
  <2>2. \/ pc' = pc
        \/ pc = "connect" /\ pc' = "request"
        \/ pc = "read" /\ sent = Size /\ pc' = "done"
        \/ pc' \in {"stat", "open", "connect", "pending", "failBody", "unlink", "returned"}
    BY <1>1, <2>a, <2>b, <2>c, <2>d, <2>e DEF Softly
  <2>3. pc = "connect" => ~Ended
    BY <1>0 DEF BeforeRequest, Ended
  <2>4. pc' = "unlink" => reply' = "OKAY" /\ flags'.move
    <3>1. CASE FinalOkay
      BY <3>1 DEF FinalOkay, Acknowledged, call, link
    <3>2. CASE pc' = "unlink" /\ ~FinalOkay
      <4>1. pc = "unlink" /\ flags' = flags
        BY <1>1, <3>2 DEF call, Softly, Start, LocalFails, RemoteStat, Open, Connect, SessionRefused, AllSent,
           ReadLocalFails, WriteBreaks, Pending, FinalOkay, FinalFail, ReadFailBody, FinalBreaks,
           StallCancelled, UnlinkFails, UserCancels, SleepsOrWakes
      <4> QED
        BY <1>0, <2>1, <4>1 DEF Progress
    <3> QED
      BY <3>1, <3>2
  <2>5. pc' = "failBody" => pc = "failBody" \/ reply = "FAIL"
    <3>1. FinalFail => reply = "FAIL"
      BY DEF FinalFail
    <3> QED
      BY <1>1, <2>a, <2>b, <2>c, <2>d, <2>e, <3>1 DEF Softly, Open, RemoteStat, WriteBreaks, FinalOkay
  <2> QED
    BY <1>0, <2>1, <2>2, <2>3, <2>4, <2>5 DEF Progress, Writing
<1>2. CASE Stat \/ Unlink \/ LocalEdited
  <2>1. CASE Stat
    BY <1>0, <2>1 DEF Stat, Progress, Writing
  <2>2. CASE Unlink
    BY <1>0, <2>2 DEF Unlink, Progress, Writing
  <2>3. CASE LocalEdited
    BY <1>0, <2>3 DEF LocalEdited, Progress, Writing, Ended, Listening, Size, call, link
  <2> QED
    BY <1>2, <2>1, <2>2, <2>3
<1>3. CASE ReadLocal
  BY <1>0, <1>3 DEF ReadLocal, Progress, Writing, Ended, Listening, Size, call, link
<1>4. CASE SendRequest \/ WriteData \/ WriteDone
  <2>1. pc \in Writing /\ adbd' = adbd /\ seen' = seen /\ Size' = Size /\ (Listening' <=> Listening)
    BY <1>4 DEF SendRequest, WriteData, WriteDone, Writes, Writing, call, Size, Listening
  <2>2. PICK p \in Packets : /\ Writes(p)
                             /\ pc' \in {"read", "returned"} => p.id # "DONE"
                             /\ pc' \in {"read", "returned", "final"}
    BY <1>4, Written DEF SendRequest, WriteData, WriteDone
  <2>3. Listening => chan' # <<>> /\ (pc' = "read" => ~Ended')
    BY <2>2, Putting
  <2>4. adbd # "done"
    BY <1>0, <1>4 DEF SendRequest, WriteData, WriteDone, Progress, BeforeRequest
  <2> QED
    BY <2>1, <2>2, <2>3, <2>4 DEF Progress, Writing, Listening
<1>5. CASE AdbdOpens \/ AdbdWrites \/ AdbdFinishes
  <2>1. PICK id : AdbdTakes(id) /\ (AdbdFinishes => id = "DONE")
    BY <1>5 DEF AdbdOpens, AdbdWrites, AdbdFinishes
  <2>2. /\ pc' = pc /\ sent' = sent /\ Size' = Size /\ flags' = flags
        /\ Ended' => Ended
        /\ Listening /\ Len(chan) # 0 /\ chan[1].id = id
        /\ Ended <=> chan[Len(chan)].id = "DONE"
    BY <2>1, Taking
  <2>3. AdbdFinishes => Ended
    <3>1. 1 \in 1..Len(chan)
      BY <2>1, Taking
    <3>2. ASSUME AdbdFinishes PROVE 1 = Len(chan)
      BY <2>1, <2>2, <3>1, <3>2 DEF IInv, PacketsInOrder
    <3> QED
      BY <2>1, <2>2, <3>2
  <2>4. reply # "OKAY" /\ reply # "FAIL"
    BY <1>0, <2>2 DEF RemoteFile, Listening
  <2>5. adbd' \in {"idle", "done"} => adbd' = adbd \/ AdbdFinishes
    BY <1>5 DEF AdbdOpens, AdbdWrites, AdbdFinishes
  <2>6. adbd' = "idle" => Len(chan') # 0
    <3>1. ASSUME adbd' = "idle" PROVE FALSE
      <4>1. adbd = "idle" /\ AdbdWrites
        BY <1>5, <2>2, <3>1 DEF AdbdOpens, AdbdWrites, AdbdFinishes, Listening
      <4>2. chan[1].id = "DATA" /\ 1 \in 1..Len(chan)
        BY <4>1, Taking DEF AdbdWrites
      <4> QED
        BY <2>2, <4>1, <4>2 DEF IInv, PacketsInOrder
    <3> QED
      BY <3>1
  <2> QED
    BY <1>0, <2>2, <2>3, <2>4, <2>5, <2>6, EmptySeq DEF Progress, Writing
<1>6. CASE AdbdRefuses \/ AdbdLeaves
  <2>1. adbd' = "gone" /\ UNCHANGED <<pc, flags, sent, seen>> /\ adbd \in {"idle", "open"}
    BY <1>6 DEF AdbdRefuses, AdbdLeaves, AdbdTakes, Client, call
  <2>2. reply # "OKAY" /\ reply # "FAIL"
    BY <1>0, <2>1 DEF RemoteFile
  <2> QED
    BY <1>0, <2>1, <2>2 DEF Progress, Writing, Listening, Size
<1>7. CASE UNCHANGED vars
  BY <1>0, <1>7 DEF vars, call, link, Progress, Writing, Ended, Listening, Size
<1> QED
  BY <1>1, <1>2, <1>3, <1>4, <1>5, <1>6, <1>7, Steps DEF Aloud

LEMMA RemoteFileStep == IInv /\ [Next]_vars => RemoteFile'
<1> SUFFICES ASSUME IInv, [Next]_vars PROVE RemoteFile'
  OBVIOUS
<1>0. /\ RemoteFile /\ remote.parts \in Seq(0..MaxVersion) /\ Len(remote.parts) \in Nat
      /\ seen \in Int /\ local.ver \in Int
  BY UploadAssumption, LenProperties DEF IInv, TypeOK, UploadAssumption
<1>1. CASE Quiet
  BY <1>0, <1>1 DEF Quiet, RemoteFile, MtimeArg, Size
<1>2. CASE Stat
  BY <1>2 DEF Stat, link, RemoteFile, IInv, BeforeRequest
<1>3. CASE ReadLocal
  BY <1>0, <1>3 DEF ReadLocal, call, link, RemoteFile, MtimeArg, Size
<1>4. CASE LocalEdited \/ Unlink
  <2>1. local'.ver \in Int /\ local'.ver >= local.ver
    BY <1>0, <1>4 DEF LocalEdited, Unlink, IInv, TypeOK
  <2>2. UNCHANGED <<seen, sent, chan, adbd, reply, remote>> /\ MtimeArg' = MtimeArg /\ Size' = Size
    BY <1>4 DEF LocalEdited, Unlink, call, link, MtimeArg, Size
  <2> QED
    BY <1>0, <2>1, <2>2 DEF RemoteFile
<1>5. CASE SendRequest \/ WriteData \/ WriteDone
  <2>1. adbd # "done"
    BY <1>5 DEF SendRequest, WriteData, WriteDone, IInv, Progress, BeforeRequest
  <2>2. UNCHANGED <<seen, local, adbd, reply, remote>>
    BY <1>5 DEF SendRequest, WriteData, WriteDone, Writes, call
  <2> QED
    BY <1>0, <2>1, <2>2 DEF RemoteFile
<1>6. CASE AdbdOpens
  <2>1. adbd' = "open" /\ remote' = [there |-> TRUE, parts |-> <<>>, date |-> Unset] /\ reply' = reply
    BY <1>6 DEF AdbdOpens
  <2>2. AdbdTakes("SEND")
    BY <1>6 DEF AdbdOpens
  <2>3. reply # "OKAY" /\ reply # "FAIL"
    BY <1>0, <2>2 DEF AdbdTakes, RemoteFile
  <2>4. Len(remote'.parts) = 0 /\ remote'.there /\ remote'.date = Unset
    BY <2>1
  <2> QED
    BY <2>1, <2>3, <2>4 DEF RemoteFile
<1>7. CASE AdbdWrites
  <2>1. AdbdTakes("DATA") /\ adbd' = adbd /\ reply' = reply
    BY <1>7 DEF AdbdWrites
  <2>2. /\ Listening /\ 1 \in 1..Len(chan) /\ Head(chan) = chan[1] /\ chan[1].id = "DATA"
        /\ UNCHANGED <<seen, local>>
    BY <2>1, Taking
  <2>3. adbd = "open" /\ Head(chan).val \in seen..local.ver
    BY <2>2 DEF IInv, PacketsInOrder, Listening
  <2>4. remote'.there = remote.there /\ remote'.parts = Append(remote.parts, Head(chan).val)
        /\ remote'.date = remote.date
    BY <1>7 DEF AdbdWrites, IInv, Remotes
  <2>5. ASSUME NEW i \in 1..Len(remote'.parts) PROVE remote'.parts[i] \in seen..local.ver
    BY <1>0, <2>3, <2>4 DEF RemoteFile
  <2>6. reply # "OKAY" /\ reply # "FAIL"
    BY <1>0, <2>3 DEF RemoteFile
  <2> QED
    BY <1>0, <2>1, <2>2, <2>3, <2>4, <2>5, <2>6 DEF RemoteFile
<1>8. CASE AdbdFinishes
  <2>1. AdbdTakes("DONE") /\ adbd' = "done" /\ reply' = "OKAY"
    BY <1>8 DEF AdbdFinishes
  <2>2. /\ Listening /\ Len(chan) \in Nat \ {0} /\ Head(chan) = chan[1] /\ chan[1].id = "DONE"
        /\ UNCHANGED <<seen, local, sent>> /\ Len(chan') = Len(chan) - 1
        /\ MtimeArg' = MtimeArg /\ Size' = Size /\ (Ended <=> chan[Len(chan)].id = "DONE")
    BY <2>1, Taking
  <2>3. adbd = "open" /\ Len(chan) = 1 /\ Head(chan).val = MtimeArg
    BY <2>2 DEF IInv, PacketsInOrder, Listening
  <2>4. Ended /\ Queued = 0
    BY <2>2, <2>3 DEF Queued
  <2>5. Len(remote.parts) = sent /\ sent = Size
    BY <1>0, <2>2, <2>3, <2>4 DEF IInv, NoneLost
  <2>6. chan' = <<>>
    <3>1. chan' \in Seq(Packets) /\ Len(chan') = 0
      BY <2>2, <2>3, TypedStep DEF TypeOK, Packets
    <3> QED
      BY <3>1, EmptySeq
  <2>7. remote'.there = remote.there /\ remote'.parts = remote.parts /\ remote'.date = MtimeArg
    BY <1>8, <2>3 DEF AdbdFinishes, IInv, Remotes
  <2> QED
    BY <1>0, <2>1, <2>2, <2>3, <2>5, <2>6, <2>7 DEF RemoteFile
<1>9. CASE AdbdRefuses \/ AdbdLeaves
  <2>1. adbd' = "gone" /\ adbd \in {"idle", "open"} /\ reply' \in {reply, "FAIL"}
    BY <1>9 DEF AdbdRefuses, AdbdLeaves, AdbdTakes
  <2>2. reply # "OKAY"
    BY <1>0, <2>1 DEF RemoteFile
  <2> QED
    BY <2>1, <2>2 DEF RemoteFile
<1> QED
  BY <1>1, <1>2, <1>3, <1>4, <1>5, <1>6, <1>7, <1>8, <1>9, Steps, Quietly DEF Aloud

LEMMA MayWriteStep == IInv /\ [Next]_vars => MayWrite'
<1> SUFFICES ASSUME IInv, [Next]_vars PROVE MayWrite'
  OBVIOUS
<1> USE DEF GoTo, Return
<1>0. MayWrite /\ BeforeRequest
  BY DEF IInv
<1>1. CASE Softly
  <2>1. UNCHANGED <<chan, adbd, remote>>
    BY <1>1, Quietly DEF Quiet
  <2>2. CASE \E overwrite, move \in BOOLEAN : Start(overwrite, move)
    BY <1>0, <2>1, <2>2 DEF Start, BeforeRequest, MayWrite
  <2>3. CASE RemoteStat
    BY <1>0, <2>1, <2>3 DEF RemoteStat, call, BeforeRequest, MayWrite
  <2>4. CASE Softly /\ ~RemoteStat /\ ~\E overwrite, move \in BOOLEAN : Start(overwrite, move)
    <3>1. flags' = flags
      BY <2>4 DEF Softly, call, LocalFails, Open, Connect, SessionRefused, AllSent, ReadLocalFails,
                  WriteBreaks, Pending, FinalOkay, FinalFail, ReadFailBody, FinalBreaks,
                  StallCancelled, UnlinkFails, UserCancels, SleepsOrWakes
    <3>2. pc' \in {"open", "connect", "request"} => pc \in {"open", "connect", "request"}
      BY <2>4 DEF Softly, LocalFails, Open, Connect, SessionRefused, AllSent, ReadLocalFails,
                  WriteBreaks, Pending, FinalOkay, FinalFail, ReadFailBody, FinalBreaks,
                  StallCancelled, UnlinkFails, UserCancels, SleepsOrWakes
    <3> QED
      BY <1>0, <2>1, <3>1, <3>2 DEF MayWrite
  <2> QED
    BY <1>1, <2>2, <2>3, <2>4
<1>2. CASE Stat
  BY <1>0, <1>2 DEF Stat, link, BeforeRequest, MayWrite
<1>3. CASE LocalEdited \/ ReadLocal \/ Unlink
  BY <1>0, <1>3 DEF LocalEdited, ReadLocal, Unlink, call, link, MayWrite
<1>4. CASE SendRequest
  BY <1>0, <1>4 DEF SendRequest, Writes, call, MayWrite
<1>5. CASE WriteData \/ WriteDone
  BY <1>0, <1>5 DEF WriteData, WriteDone, Writes, call, MayWrite, IInv, Progress
<1>6. CASE AdbdOpens \/ AdbdFinishes \/ AdbdRefuses \/ AdbdLeaves
  BY <1>6 DEF AdbdOpens, AdbdFinishes, AdbdRefuses, AdbdLeaves, MayWrite
<1>7. CASE AdbdWrites
  <2>1. adbd # "idle"
    <3>1. AdbdTakes("DATA")
      BY <1>7 DEF AdbdWrites
    <3>2. chan[1].id = "DATA" /\ 1 \in 1..Len(chan) /\ Listening
      BY <3>1, Taking
    <3> QED
      BY <3>2 DEF IInv, PacketsInOrder
  <2> QED
    BY <1>7, <2>1 DEF AdbdWrites, MayWrite
<1>8. CASE UNCHANGED vars
  BY <1>0, <1>8 DEF vars, call, link, MayWrite
<1> QED
  BY <1>1, <1>2, <1>3, <1>4, <1>5, <1>6, <1>7, <1>8, Steps DEF Aloud

LEMMA OutcomeStep == IInv /\ [Next]_vars => Outcome'
<1> SUFFICES ASSUME IInv, [Next]_vars PROVE Outcome'
  OBVIOUS
<1> USE DEF GoTo, Return
<1>0. /\ code = "OK" => reply = "OKAY"
      /\ code = "USERABORT" => cancel
      /\ notice = "adbd" => reply = "FAIL"
      /\ pc = "unlink" => reply = "OKAY"
      /\ pc = "failBody" => reply = "FAIL"
      /\ cancel \in BOOLEAN
  BY DEF IInv, Outcome, Progress, TypeOK
<1>1. /\ reply = "OKAY" => reply' = "OKAY"
      /\ reply = "FAIL" => reply' = "FAIL"
      /\ cancel => cancel'
  <2>1. CASE Softly
    BY <2>1 DEF link, Softly, Start, LocalFails, RemoteStat, Open, Connect, SessionRefused, AllSent,
           ReadLocalFails, WriteBreaks, Pending, FinalOkay, FinalFail, ReadFailBody, FinalBreaks,
           StallCancelled, UnlinkFails, UserCancels, SleepsOrWakes
  <2>2. CASE Stat \/ ReadLocal \/ SendRequest \/ WriteData \/ WriteDone \/ Unlink \/ LocalEdited
    BY <2>2 DEF Stat, ReadLocal, SendRequest, WriteData, WriteDone, Unlink, LocalEdited, Writes, link
  <2>3. CASE AdbdOpens \/ AdbdWrites \/ AdbdFinishes \/ AdbdRefuses \/ AdbdLeaves
    <3>1. adbd \in {"idle", "open"} /\ cancel' = cancel
      BY <2>3 DEF AdbdOpens, AdbdWrites, AdbdFinishes, AdbdRefuses, AdbdLeaves, AdbdTakes, Client
    <3>2. reply # "OKAY" /\ reply # "FAIL"
      BY <3>1 DEF IInv, RemoteFile
    <3> QED
      BY <3>1, <3>2
  <2>4. CASE UNCHANGED vars
    BY <2>4 DEF vars, link
  <2> QED
    BY <2>1, <2>2, <2>3, <2>4, Steps DEF Aloud
<1>2. CASE UNCHANGED <<code, notice>>
  BY <1>0, <1>1, <1>2 DEF Outcome
<1>3. CASE FinalOkay
  BY <1>0, <1>1, <1>3 DEF FinalOkay, Acknowledged, Outcome
<1>4. CASE Pending
  BY <1>0, <1>1, <1>4 DEF Pending, Outcome
<1>5. CASE ReadFailBody
  BY <1>0, <1>1, <1>5 DEF ReadFailBody, Outcome
<1>6. CASE StallCancelled \/ WriteData
  BY <1>0, <1>1, <1>6 DEF StallCancelled, WriteData, Outcome
<1>7. CASE Unlink \/ UnlinkFails
  BY <1>0, <1>1, <1>7 DEF Unlink, UnlinkFails, Outcome
<1>8. CASE \/ LocalFails \/ SessionRefused \/ ReadLocalFails \/ FinalBreaks \/ RemoteStat \/ WriteBreaks
  BY <1>0, <1>1, <1>8 DEF LocalFails, SessionRefused, ReadLocalFails, FinalBreaks, RemoteStat,
              WriteBreaks, Outcome
<1>9. CASE \/ \E overwrite, move \in BOOLEAN : Start(overwrite, move)
           \/ Open \/ Connect \/ AllSent \/ FinalFail \/ UserCancels \/ SleepsOrWakes \/ Stat \/ ReadLocal
           \/ SendRequest \/ WriteDone \/ LocalEdited
           \/ AdbdOpens \/ AdbdWrites \/ AdbdFinishes \/ AdbdRefuses \/ AdbdLeaves \/ UNCHANGED vars
  BY <1>2, <1>9 DEF Start, Open, Connect, AllSent, FinalFail, UserCancels, SleepsOrWakes, Stat, ReadLocal,
              SendRequest, WriteDone, LocalEdited, AdbdOpens, AdbdWrites, AdbdFinishes, AdbdRefuses,
              AdbdLeaves, AdbdTakes, Client, vars
<1> QED
  BY <1>3, <1>4, <1>5, <1>6, <1>7, <1>8, <1>9, Steps DEF Softly, Aloud

LEMMA Invariance == Spec => []IInv
<1>1. IInv /\ [Next]_vars => IInv'
  BY TypedStep, RemoteTyped, BeforeRequestStep, VersionsStep, PacketsInOrderStep, NoneLostStep,
     ProgressStep, RemoteFileStep, MayWriteStep, OutcomeStep DEF IInv
<1> QED
  BY Initially, <1>1, PTL DEF Spec

\* When adbd has said OKAY it holds the whole file.
LEMMA OkayMeansWhole == IInv /\ reply = "OKAY" => HoldsTheFile /\ remote.date = MtimeArg
<1> SUFFICES ASSUME IInv, reply = "OKAY" PROVE HoldsTheFile /\ remote.date = MtimeArg
  OBVIOUS
<1>1. adbd = "done"
  BY DEF IInv, RemoteFile
<1>2. /\ remote.there /\ Len(remote.parts) = Size /\ remote.date = MtimeArg
      /\ \A i \in 1..Len(remote.parts) : remote.parts[i] \in seen..local.ver
  BY <1>1 DEF IInv, RemoteFile
<1>3. MtimeArg # Unset
  BY WireDate, UploadAssumption DEF IInv, TypeOK, Unset, UploadAssumption
<1> QED
  BY <1>2, <1>3 DEF HoldsTheFile

-----------------------------------------------------------------------------
(* The theorems.                                                           *)

(* Every variable of putFile, syncSend and adbd stays in its range, and    *)
(* the buffers never hold more packets than they have room for.            *)
THEOREM TypeCorrect == Spec => []TypeOK
<1>1. IInv => TypeOK
  BY DEF IInv
<1> QED
  BY <1>1, Invariance, PTL

(* putFile says OK only when adbd holds the whole file, as stat() saw it   *)
(* or edited since, and whatever broke on the way.                         *)
THEOREM OkMeansWholeUpload == Spec => []OkIsWhole
<1>1. IInv => OkIsWhole
  BY OkayMeansWhole DEF IInv, Outcome, OkIsWhole
<1> QED
  BY <1>1, Invariance, PTL

(* With OK the local file's date has arrived, for every date that fits the *)
(* 32 bits of a DONE packet.                                               *)
THEOREM UploadKeepsDate == Spec => []DateArrives
<1>1. IInv => DateArrives
  <2> SUFFICES ASSUME IInv, code = "OK", Dates[seen] \in 0..(Wrap - 1)
               PROVE  remote.date = Dates[seen]
    BY DEF DateArrives
  <2>1. remote.date = MtimeArg
    BY OkayMeansWhole DEF IInv, Outcome
  <2> QED
    BY <2>1, WireDate DEF IInv, TypeOK
<1> QED
  BY <1>1, Invariance, PTL

(* USERABORT only after a Cancel, adbd's words only when adbd refused, and *)
(* no refusal is reported as a success.                                    *)
THEOREM UploadAnswersAreTrue == Spec => []AnswerIsHonest
<1>1. IInv => AnswerIsHonest
  BY DEF IInv, Outcome, AnswerIsHonest
<1> QED
  BY <1>1, Invariance, PTL

(* Without OVERWRITE no step of the call, and no packet adbd takes after   *)
(* it, touches a file that was on the device.                              *)
THEOREM UploadKeepsExisting == Spec => ExistingIsKept
<1>1. IInv /\ [Next]_vars =>
        [remote.there /\ remote.date = 0 /\ remote' # remote => flags.overwrite]_vars
  <2> SUFFICES ASSUME IInv, [Next]_vars, remote.there, remote.date = 0, remote' # remote
               PROVE  flags.overwrite
    OBVIOUS
  <2>1. adbd # "open"
    BY DEF IInv, RemoteFile, Unset
  <2>2. CASE Quiet
    BY <2>2 DEF Quiet
  <2>3. CASE AdbdOpens
    BY <2>1, <2>3 DEF AdbdOpens, AdbdTakes, IInv, MayWrite
  <2>4. CASE AdbdWrites \/ AdbdFinishes
    <3>1. PICK id \in {"DATA", "DONE"} : AdbdTakes(id)
      BY <2>4 DEF AdbdWrites, AdbdFinishes
    <3>2. Listening /\ 1 \in 1..Len(chan) /\ chan[1].id # "SEND"
      BY <3>1, Taking
    <3>3. adbd = "open"
      BY <3>2 DEF IInv, PacketsInOrder, Listening
    <3> QED
      BY <2>1, <3>3
  <2>5. CASE AdbdRefuses \/ AdbdLeaves
    BY <2>1, <2>5 DEF AdbdRefuses, AdbdLeaves
  <2>6. CASE Stat \/ ReadLocal \/ SendRequest \/ WriteData \/ WriteDone \/ Unlink \/ LocalEdited
    BY <2>6 DEF Stat, ReadLocal, SendRequest, WriteData, WriteDone, Unlink, LocalEdited, Writes, link
  <2> QED
    BY <2>2, <2>3, <2>4, <2>5, <2>6, Steps, Quietly DEF Aloud
<1> QED
  BY <1>1, Invariance, PTL DEF Spec, ExistingIsKept

(* putFile unlinks the local source of a move when the device holds it     *)
(* whole, and never otherwise.                                             *)
THEOREM SourceIsUnlinkedLast == Spec => SourceGoesLast
<1>1. IInv /\ [Next]_vars => [local.there /\ ~local'.there => flags.move /\ HoldsTheFile]_vars
  <2> SUFFICES ASSUME IInv, [Next]_vars, local.there, ~local'.there
               PROVE  flags.move /\ HoldsTheFile
    OBVIOUS
  <2>1. CASE Unlink
    BY <2>1, OkayMeansWhole DEF Unlink, IInv, Progress
  <2>2. CASE LocalEdited
    BY <2>2 DEF LocalEdited, IInv, TypeOK
  <2>3. CASE Quiet
    BY <2>3 DEF Quiet
  <2>4. CASE \/ Stat \/ ReadLocal \/ SendRequest \/ WriteData \/ WriteDone
             \/ AdbdOpens \/ AdbdWrites \/ AdbdFinishes \/ AdbdRefuses \/ AdbdLeaves
    BY <2>4 DEF Stat, ReadLocal, SendRequest, WriteData, WriteDone, AdbdOpens, AdbdWrites,
                AdbdFinishes, AdbdRefuses, AdbdLeaves, AdbdTakes, Client
  <2> QED
    BY <2>1, <2>2, <2>3, <2>4, Steps, Quietly DEF Aloud
<1> QED
  BY <1>1, Invariance, PTL DEF Spec, SourceGoesLast
=============================================================================
