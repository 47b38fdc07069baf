-------------------------------- MODULE Meta --------------------------------
(***************************************************************************)
(* The directory that `samogon serve` shows (meta.go:35-151): the torrents *)
(* loaded from the bucket, and the name under which each is reached.  One  *)
(* goroutine reloads it for ever (serve.go:26-34, 57-70) while fetch jobs  *)
(* and the operator add and remove .torrents; SFTP sessions only look      *)
(* names up.  A .torrent is known by its infohash, a name by its value.    *)
(***************************************************************************)
EXTENDS Integers

CONSTANTS
    Torrents,     \* infohashes
    Names,
    NameOf,       \* NameOf[t]: the sanitized name inside the .torrent
    Suffixed,     \* Suffixed[t]: that name, "-" and eight digits of t
    MaxFailures   \* bound: failing S3 requests and restarts of the daemon

ASSUME MetaAssumption ==
    /\ NameOf \in [Torrents -> Names]
    /\ Suffixed \in [Torrents -> Names]
    /\ MaxFailures \in Nat

VARIABLES
    markers,      \* the .torrents in the bucket
    byHash,       \* the DisplayName of each loaded torrent
    byName,       \* the torrent that a name leads to
    reload,       \* where Reload is
    failures

metaVars == <<markers, byHash, byName, reload, failures>>

Idle == [at |-> "idle", keys |-> {}, seen |-> {}]

TypeOK ==
    /\ markers \in SUBSET Torrents
    /\ DOMAIN byHash \subseteq Torrents
    /\ \A t \in DOMAIN byHash : byHash[t] \in Names
    /\ DOMAIN byName \subseteq Names
    /\ \A n \in DOMAIN byName : byName[n] \in Torrents
    /\ reload \in [at : {"idle", "load"}, keys : SUBSET Torrents,
                   seen : SUBSET Torrents]
    /\ failures \in 0 .. MaxFailures

Without(f, S) == [x \in DOMAIN f \ S |-> f[x]]
With(f, x, v) == [y \in DOMAIN f \cup {x} |-> IF y = x THEN v ELSE f[y]]
Fault == failures < MaxFailures /\ failures' = failures + 1
Visit(t) == reload' = [reload EXCEPT !.keys = @ \ {t}, !.seen = @ \cup {t}]

-----------------------------------------------------------------------------
(* The bucket, seen from the daemon *)

Publish(t) ==
    /\ t \notin markers
    /\ markers' = markers \cup {t}
    /\ UNCHANGED <<byHash, byName, reload, failures>>

Withdraw(t) ==
    /\ t \in markers
    /\ markers' = markers \ {t}
    /\ UNCHANGED <<byHash, byName, reload, failures>>

-----------------------------------------------------------------------------
(* Reload *)

ListMarkers ==
    /\ reload.at = "idle"
    /\ reload' = [at |-> "load", keys |-> markers, seen |-> {}]
    /\ UNCHANGED <<markers, byHash, byName, failures>>

\* An answer "not found" is taken for an empty listing: Reload goes on, and
\* with nothing seen pruneGone will drop all that is loaded.
ListNotFound ==
    /\ reload.at = "idle"
    /\ Fault
    /\ reload' = [at |-> "load", keys |-> {}, seen |-> {}]
    /\ UNCHANGED <<markers, byHash, byName>>

\* Any other failure throws.  The exception ends this Reload; the directory
\* stays as it is.
ListFails ==
    /\ reload.at = "idle"
    /\ Fault
    /\ UNCHANGED <<markers, byHash, byName, reload>>

\* Mutant: only what had to be loaded counts as seen.
AlreadyNotSeen(t) ==
    /\ t \in reload.keys /\ t \in DOMAIN byHash
    /\ reload' = [reload EXCEPT !.keys = @ \ {t}]
    /\ UNCHANGED <<markers, byHash, byName, failures>>

Already(t) ==
    /\ t \in reload.keys /\ t \in DOMAIN byHash
    /\ Visit(t)
    /\ UNCHANGED <<markers, byHash, byName, failures>>

\* Mutant: same-name torrents share the name.
NoSuffix(t) == NameOf[t]

\* The suffixed name is not looked up again.
UniqueName(t) == IF NameOf[t] \in DOMAIN byName THEN Suffixed[t] ELSE NameOf[t]

LoadOne(t) ==
    /\ t \in reload.keys /\ t \notin DOMAIN byHash
    /\ t \in markers
    /\ Visit(t)
    /\ byHash' = With(byHash, t, UniqueName(t))
    /\ byName' = With(byName, UniqueName(t), t)
    /\ UNCHANGED <<markers, failures>>

\* A .torrent that went after the listing.
LoadGone(t) ==
    /\ t \in reload.keys /\ t \notin DOMAIN byHash
    /\ t \notin markers
    /\ Visit(t)
    /\ UNCHANGED <<markers, byHash, byName, failures>>

\* One that cannot be read now is skipped and tried again by the next Reload.
LoadFails(t) ==
    /\ t \in reload.keys /\ t \notin DOMAIN byHash
    /\ Fault
    /\ Visit(t)
    /\ UNCHANGED <<markers, byHash, byName>>

PruneGone ==
    LET gone == DOMAIN byHash \ reload.seen
    IN /\ reload.at = "load" /\ reload.keys = {}
       /\ byHash' = Without(byHash, gone)
       /\ byName' = Without(byName, {byHash[t] : t \in gone})
       /\ reload' = Idle
       /\ UNCHANGED <<markers, failures>>

\* The daemon is started again: it remembers nothing.
Restart ==
    /\ Fault
    /\ byHash' = <<>> /\ byName' = <<>> /\ reload' = Idle
    /\ UNCHANGED markers

-----------------------------------------------------------------------------

MetaInit ==
    /\ markers \in SUBSET Torrents
    /\ byHash = <<>> /\ byName = <<>>
    /\ reload = Idle
    /\ failures = 0

Load(t) == Already(t) \/ LoadOne(t) \/ LoadGone(t)

Reload == ListMarkers \/ PruneGone \/ \E t \in Torrents : Load(t)

MetaNext ==
    \/ \E t \in Torrents : Publish(t) \/ Withdraw(t) \/ LoadFails(t)
    \/ Reload
    \/ ListNotFound \/ ListFails \/ Restart

MetaSpec == MetaInit /\ [][MetaNext]_metaVars

\* The ticker fires for ever and S3 requests end; failures are bounded.
FairMetaSpec == MetaSpec /\ WF_metaVars(Reload)

-----------------------------------------------------------------------------

\* Somebody's suffixed name, and a name of somebody else.
Contested(n) ==
    \E t, u \in Torrents :
        t # u /\ n = Suffixed[t] /\ n \in {NameOf[u], Suffixed[u]}

\* meta.go:28, "byName key - unique across the root", and meta.go:94: no two
\* loaded torrents have one DisplayName.
NamesAreUnique == \A t, u \in DOMAIN byHash : byHash[t] = byHash[u] => t = u

\* meta.go:80-129: a name always leads to a loaded torrent that is shown under
\* that name, and a loaded torrent is what its DisplayName leads to unless a
\* suffix has made it the name of two.
NamesLeadHome ==
    /\ \A n \in DOMAIN byName :
          byName[n] \in DOMAIN byHash /\ byHash[byName[n]] = n
    /\ \A t \in DOMAIN byHash : ~Contested(byHash[t]) =>
          byHash[t] \in DOMAIN byName /\ byName[byHash[t]] = t

\* The inductive invariant: a display name is one of two.
MetaInv ==
    /\ TypeOK
    /\ NamesLeadHome
    /\ \A t \in DOMAIN byHash : byHash[t] \in {NameOf[t], Suffixed[t]}

\* meta.go:80-129: an open path keeps its meaning.  While the daemon runs and
\* a torrent stays loaded its name does not change, nor is it given to another,
\* unless a suffix has made it the name of two.
NamesAreStable ==
    [][ \A t \in DOMAIN byHash :
           t \in DOMAIN byHash' =>
               /\ byHash'[t] = byHash[t]
               /\ ~Contested(byHash[t]) =>
                     byName'[byHash[t]] = byName[byHash[t]] ]_metaVars

\* meta.go:52-129, serve.go:57-70: the directory follows the bucket, also after
\* a listing that failed or came out empty.  A .torrent that stays there is
\* loaded in the end and for ever, and one that stays away is loaded no more.
FollowsBucket ==
    \A t \in Torrents :
        /\ <>[](t \in markers) => <>[](t \in DOMAIN byHash)
        /\ <>[](t \notin markers) => <>[](t \notin DOMAIN byHash)
=============================================================================
