----------------------------- MODULE MCLruCache -----------------------------
(* Every size from a negative one up to more than there are keys. *)
EXTENDS LruCache

MCCaps == {-1, 0, 1, 2, 3, 5}
=============================================================================
