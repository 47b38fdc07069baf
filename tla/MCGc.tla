-------------------------------- MODULE MCGc --------------------------------
(* Two torrents that share a piece. *)
EXTENDS Gc, TLC

CONSTANTS t1, t2, h1, h2

MCPiecesOf == t1 :> {h1, h2} @@ t2 :> {h2}
=============================================================================
