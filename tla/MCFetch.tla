------------------------------ MODULE MCFetch -------------------------------
(* A torrent of two pieces with different bytes. *)
EXTENDS Fetch, TLC

CONSTANTS p1, p2, h1, h2

MCHashOf == p1 :> h1 @@ p2 :> h2
=============================================================================
