------------------------------ MODULE MCBucket ------------------------------
(* t1 and t2 share a piece; t3 is t1 repacked into bigger pieces, and t2 is
   repacked into the layout it already has.  The two jobs can be swapped. *)
EXTENDS Bucket, TLC

CONSTANTS t1, t2, t3, h1, h2, h3

MCPiecesOf == t1 :> {h1, h2} @@ t2 :> {h2} @@ t3 :> {h3}
MCRepackOf == {<<t1, t3>>, <<t2, t2>>}
MCSymmetry == Permutations(Jobs)
=============================================================================
