--------------------------- MODULE MCPieceReader ----------------------------
(* A file of three pieces, the third with the bytes of the first.            *)
EXTENDS PieceReader

CONSTANTS h1, h2

MCHashOf == <<h1, h2, h1>>
=============================================================================
