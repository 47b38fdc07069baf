------------------------------- MODULE MCMeta -------------------------------
(***************************************************************************)
(* Two torrents of the same name (the result of a repack and its source)   *)
(* and a third whose own name is that of the second with its suffix.       *)
(***************************************************************************)
EXTENDS Meta, TLC

CONSTANTS t1, t2, t3, x, x1, x2, x23

MCNameOf == t1 :> x @@ t2 :> x @@ t3 :> x2
MCSuffixed == t1 :> x1 @@ t2 :> x2 @@ t3 :> x23
=============================================================================
