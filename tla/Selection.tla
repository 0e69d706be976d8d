----------------------------- MODULE Selection -----------------------------
(***************************************************************************)
(* The members of a list that are in a set, in their order: what the loops *)
(* that keep some elements of a list leave, in a form that can be unfolded *)
(* in a proof.                                                             *)
(***************************************************************************)
EXTENDS Naturals, Sequences

\* s without the elements that are not in S: kept[i] is what the first i leave.
Only(s, S) ==
    LET kept[i \in 0..Len(s)] ==
            IF i = 0 THEN <<>>
            ELSE IF s[i] \in S THEN Append(kept[i - 1], s[i]) ELSE kept[i - 1]
    IN  kept[Len(s)]
=============================================================================
