------------------------------ MODULE LruCache ------------------------------
(***************************************************************************)
(* The piece cache of serve, get and repack (cache.go).  Get and Put hold  *)
(* the mutex from end to end, so each is one action, whichever goroutine   *)
(* calls it.  cap comes from --lru, which config.go does not validate: it  *)
(* may be zero or negative.                                                *)
(***************************************************************************)
EXTENDS Lru

CONSTANTS Keys, Values, Caps

ASSUME LruAssumption == Caps \subseteq Int

VARIABLES
    cap,
    ll,         \* the keys of the list's elements, front first
    m,          \* the map: from a key to the value of its element
    used,       \* history: the keys ever put, the last used first
    put         \* history: the value last put for each of them

cacheVars == <<cap, ll, m>>
vars == <<cap, ll, m, used, put>>

Init ==
    /\ cap \in Caps
    /\ ll = <<>> /\ m = <<>>
    /\ used = <<>> /\ put = <<>>

\* The history of a use of k.
Use(k) == used' = IF k \in Elements(used) THEN MoveToFront(used, k)
                  ELSE PushFront(used, k)

-----------------------------------------------------------------------------

\* Mutant: a hit leaves the entry where it is (first in, first out).
GetInPlace(k) ==
    /\ k \in DOMAIN m
    /\ Use(k)
    /\ UNCHANGED <<cap, ll, m, put>>

Get(k) ==
    /\ k \in DOMAIN m
    /\ ll' = MoveToFront(ll, k)
    /\ Use(k)
    /\ UNCHANGED <<cap, m, put>>

\* A Get that misses changes nothing.
PutAgain(k, v) ==
    /\ k \in DOMAIN m
    /\ ll' = MoveToFront(ll, k)
    /\ m' = [m EXCEPT ![k] = v]
    /\ Use(k) /\ put' = [put EXCEPT ![k] = v]
    /\ UNCHANGED cap

\* Mutant: the element leaves the list but its key stays in the map.
EvictedKept(k) == {}

\* The key that goes when k is new: the last one of the longer list.
Evicted(k) ==
    LET s == PushFront(ll, k)
    IN IF Len(s) > cap THEN {s[Len(s)]} ELSE {}

PutNew(k, v) ==
    /\ k \notin DOMAIN m
    /\ ll' = PutFront(ll, k, cap)
    /\ m' = [x \in (DOMAIN m \cup {k}) \ Evicted(k) |->
                IF x = k THEN v ELSE m[x]]
    /\ Use(k)
    /\ put' = [x \in DOMAIN put \cup {k} |-> IF x = k THEN v ELSE put[x]]
    /\ UNCHANGED cap

Next ==
    \E k \in Keys :
        \/ Get(k)
        \/ \E v \in Values : PutAgain(k, v) \/ PutNew(k, v)

Spec == Init /\ [][Next]_vars

-----------------------------------------------------------------------------

Limit == IF cap > 0 THEN cap ELSE 0

TypeOK ==
    /\ cap \in Caps
    /\ ll \in Seq(Keys) /\ used \in Seq(Keys)
    /\ DOMAIN m \subseteq Keys /\ \A k \in DOMAIN m : m[k] \in Values
    /\ put \in [Elements(used) -> Values]

\* cache.go:8-9: the cache is bounded by its count and the list and the map
\* agree: an entry evicted from one is gone from the other, no key has two
\* elements, and a cache of size zero or less holds nothing.
Consistent ==
    /\ DOMAIN m = Elements(ll)
    /\ NoRepeats(ll)
    /\ Len(ll) <= Limit

\* What makes it an LRU: after any sequence of calls it holds exactly the
\* Limit keys used last, in that order, each with the value last put.
HoldsMostRecent ==
    /\ Len(ll) = IF Len(used) < Limit THEN Len(used) ELSE Limit
    /\ \A i \in DOMAIN ll : ll[i] = used[i] /\ m[ll[i]] = put[ll[i]]

\* The inductive invariant.
LruInv ==
    /\ TypeOK /\ Consistent /\ HoldsMostRecent
    /\ NoRepeats(used)
=============================================================================
