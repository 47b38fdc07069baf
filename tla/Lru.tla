-------------------------------- MODULE Lru ---------------------------------
(***************************************************************************)
(* The list operations of container/list that the piece cache (cache.go)   *)
(* is built from, on a sequence of keys whose first element was used last. *)
(* A key occurs at most once in such a sequence.                           *)
(***************************************************************************)
EXTENDS Sequences, Integers

Elements(s) == {s[i] : i \in DOMAIN s}

NoRepeats(s) == \A i, j \in DOMAIN s : s[i] = s[j] => i = j

\* Everything before k moves one place back.
MoveToFront(s, k) ==
    LET at == CHOOSE i \in DOMAIN s : s[i] = k
    IN [i \in DOMAIN s |-> IF i = 1 THEN k
                           ELSE IF i <= at THEN s[i - 1] ELSE s[i]]

PushFront(s, k) == <<k>> \o s

RemoveBack(s) == SubSeq(s, 1, Len(s) - 1)

\* What Put leaves of the list: the entry goes to the front, a new one may
\* push the last one out.  With cap <= 0 that is the new entry itself.
PutFront(s, k, cap) ==
    IF k \in Elements(s) THEN MoveToFront(s, k)
    ELSE IF Len(s) + 1 > cap THEN RemoveBack(PushFront(s, k))
    ELSE PushFront(s, k)
=============================================================================
