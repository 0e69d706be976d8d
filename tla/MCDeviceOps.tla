----------------------------- MODULE MCDeviceOps -----------------------------
(* Two files on one device, one of them under two names, and a file on another. *)
EXTENDS DeviceOps, TLC
CONSTANTS a, alias, b, far, fa, fb, ff
MCFileOf == (a :> fa) @@ (alias :> fa) @@ (b :> fb) @@ (far :> ff)
MCDevice == (a :> 1) @@ (alias :> 1) @@ (b :> 1) @@ (far :> 2)
MCDates  == <<1, 9>>    \* the second out of reach of touch -t
=============================================================================
