------------------------------ MODULE MCRepack ------------------------------
(* Five bytes: pieces of two, the first twice, and a short last one.         *)
EXTENDS Repack, TLC

MCContent == <<1, 2, 1, 2, 3>>
=============================================================================
