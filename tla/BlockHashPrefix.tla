-------------------------- MODULE BlockHashPrefix ---------------------------
(***************************************************************************)
(* The block-hash prefix cache of the native engine: BlockHashPrefixCache  *)
(* of native_mlx/prefix_cache.py, driven by NativeCacheCoordinator.  Each  *)
(* entry keeps a forked snapshot of the rows of a prefix of full pages.    *)
(*                                                                         *)
(* Data: a block hash stands for the tokens of its prefix (SHA-256 taken   *)
(* as injective, and one compatibility digest per process), so entries are *)
(* named by their prefix, and so are leases.  Only the order of the clock  *)
(* values matters: a time stamp is its rank among those of the entries.    *)
(***************************************************************************)
EXTENDS CacheCoordinator

VARIABLES
    entries,   \* keys of _entries, as prefixes
    used       \* last_used of each entry

vars == <<entries, used, pins, prompt, length, lease, snaps>>

Init ==
    /\ entries = {}
    /\ used = [p \in PagedPrefixes |-> 0]
    /\ pins = [p \in PagedPrefixes |-> 0]
    /\ prompt = [r \in Slots |-> None]
    /\ length = [r \in Slots |-> 0]
    /\ lease = [r \in Slots |-> None]
    /\ snaps = [p \in PagedPrefixes |-> 0]

(* The longest member of a set of prefixes of one prompt, None if empty. *)
Longest(ps) ==
    IF ps = {} THEN None
    ELSE CHOOSE p \in ps : \A q \in ps : Len(q) <= Len(p)

(***************************************************************************)
(* _lookup: the last entry of the chain before the first gap.  The last    *)
(* token of the prompt is never taken from the cache.                      *)
(***************************************************************************)
Lookup(t) ==
    LET reusable == PagePrefixes(t, Len(t) - 1)
    IN Longest({p \in reusable :
                  \A q \in reusable : Len(q) <= Len(p) => q \in entries})

(* _tick for the members of now: the newest of all, the others in order. *)
Stamped(es, now) ==
    [p \in PagedPrefixes |->
        IF p \in es \ now
        THEN Cardinality({used[q] : q \in {e \in es \ now : used[e] < used[p]}})
        ELSE IF p \in es
        THEN Cardinality({used[q] : q \in es \ now})
        ELSE 0]

(***************************************************************************)
(* acquire: on a hit the entry is pinned and forked for the request, else  *)
(* the coordinator creates an empty cache.                                 *)
(***************************************************************************)
Acquire(r, t) ==
    LET p == Lookup(t) IN
    /\ prompt[r] = None
    /\ prompt' = [prompt EXCEPT ![r] = t]
    /\ lease' = [lease EXCEPT ![r] = p]
    /\ length' = [length EXCEPT ![r] = Len(p)]
    /\ IF p = None THEN UNCHANGED <<pins, used>>
       ELSE /\ pins' = [pins EXCEPT ![p] = pins[p] + 1]
            /\ used' = Stamped(entries, {p})
    /\ UNCHANGED <<entries, snaps>>

-----------------------------------------------------------------------------
(* Mutant: one entry too many is kept. *)
ExcessLess(es) == Cardinality(es) - Limit - 1

(* How many entries are too many. *)
Excess(es) == Cardinality(es) - Limit

(* Mutant: a pinned entry is as good a victim as any. *)
EvictableIfPinned(es, pinned, protected) == es \ {protected}

Evictable(es, pinned, protected) == {e \in es \ {protected} : pinned[e] = 0}

(* min by (last_used, -pages): the oldest, the longest among equals. *)
Sooner(d, e, stamp) ==
    stamp[d] < stamp[e] \/ (stamp[d] = stamp[e] /\ Len(d) > Len(e))

(***************************************************************************)
(* _evict_until_within_limits: of the evictable entries, as many as are    *)
(* too many, in the order of Sooner.                                       *)
(***************************************************************************)
Victims(es, pinned, stamp, protected) ==
    LET candidates == Evictable(es, pinned, protected)
    IN {e \in candidates :
          Cardinality({d \in candidates : Sooner(d, e, stamp)}) < Excess(es)}

(* Mutant: the snapshot of a victim is not released. *)
SnapshotsKept(forked, released) ==
    [p \in PagedPrefixes |-> snaps[p] + (IF p \in forked THEN 1 ELSE 0)]

(* backend.fork and backend.release of the entries' snapshots. *)
Snapshots(forked, released) ==
    [p \in PagedPrefixes |-> snaps[p] + (IF p \in forked THEN 1 ELSE 0)
                                 - (IF p \in released THEN 1 ELSE 0)]

(***************************************************************************)
(* A prefill step commits the rows up to n, then publish: the pages of the *)
(* chain that are not there yet are added and the limits enforced; the     *)
(* last page of the chain is protected.                                    *)
(***************************************************************************)
Publish(r, n) ==
    LET chain == {p \in PagePrefixes(prompt[r], n) : Len(p) <= PageSize * Publishable}
        new == chain \ entries
        all == entries \union new
        stamp == Stamped(all, new)
        victims == Victims(all, pins, stamp, Longest(chain))
    IN
    /\ prompt[r] # None
    /\ n \in length[r] + 1 .. Len(prompt[r])
    /\ length' = [length EXCEPT ![r] = n]
    /\ IF chain = {} THEN UNCHANGED <<entries, used, snaps>>
       ELSE /\ entries' = all \ victims
            /\ used' = [p \in PagedPrefixes |-> IF p \in victims THEN 0 ELSE stamp[p]]
            /\ snaps' = Snapshots(new, victims)
    /\ UNCHANGED <<pins, prompt, lease>>

(***************************************************************************)
(* release: the request leaves and its handle goes back.  If it held a     *)
(* lease the pin is removed and the limits are enforced.                   *)
(***************************************************************************)
Release(r) ==
    /\ prompt[r] # None
    /\ prompt' = [prompt EXCEPT ![r] = None]
    /\ length' = [length EXCEPT ![r] = 0]
    /\ lease' = [lease EXCEPT ![r] = None]
    /\ IF lease[r] = None THEN UNCHANGED <<entries, used, pins, snaps>>
       ELSE LET victims == Victims(entries, Unpinned(lease[r]), used, None) IN
            /\ pins' = Unpinned(lease[r])
            /\ entries' = entries \ victims
            /\ used' = [p \in PagedPrefixes |-> IF p \in victims THEN 0 ELSE used[p]]
            /\ snaps' = Snapshots({}, victims)

(* reset with clear_cache, which the scheduler allows only when it is idle. *)
Reset ==
    /\ \A r \in Slots : prompt[r] = None
    /\ entries' = {}
    /\ used' = [p \in PagedPrefixes |-> 0]
    /\ pins' = [p \in PagedPrefixes |-> 0]
    /\ snaps' = Snapshots({}, entries)
    /\ UNCHANGED <<prompt, length, lease>>

Next ==
    \/ \E r \in Slots :
         \/ \E t \in Prompts : Acquire(r, t)
         \/ \E n \in 1 .. Len(prompt[r]) : Publish(r, n)
         \/ Release(r)
    \/ Reset

Spec == Init /\ [][Next]_vars

-----------------------------------------------------------------------------
(* Type invariant. *)
TypeOK ==
    /\ entries \subseteq PagedPrefixes
    /\ used \in [PagedPrefixes -> Nat]
    /\ pins \in [PagedPrefixes -> Nat]
    /\ prompt \in [Slots -> Prompts \union {None}]
    /\ length \in [Slots -> Nat]
    /\ lease \in [Slots -> PagedPrefixes \union {None}]
    /\ snaps \in [PagedPrefixes -> Nat]

(* The requests that hold a lease on p. *)
Holders(p) == {r \in Slots : lease[r] = p}

(***************************************************************************)
(* The pins of an entry are the requests that hold a lease on it, and a    *)
(* lease is always on an entry: an entry evicted and published again while *)
(* a request still held the old one would have its pins given back twice.  *)
(***************************************************************************)
PinsExact ==
    /\ \A p \in PagedPrefixes : pins[p] = Cardinality(Holders(p))
    /\ \A r \in Slots : lease[r] # None => lease[r] \in entries

(***************************************************************************)
(* The backend holds one snapshot for each entry and none besides: no page *)
(* stays referenced by a snapshot that nobody can evict any more.          *)
(***************************************************************************)
SnapshotsExact ==
    \A p \in PagedPrefixes : snaps[p] = IF p \in entries THEN 1 ELSE 0

(***************************************************************************)
(* The limits give way only to leases: above them at most one entry, the   *)
(* one publish protected last, is not pinned.                              *)
(***************************************************************************)
LimitsYieldToPins ==
    Cardinality(entries) > Limit => Cardinality({e \in entries : pins[e] = 0}) <= 1

(***************************************************************************)
(* The cache implements PrefixIndex: what it lends is a true prefix of the *)
(* prompt, published before, and it stays while it is lent.                *)
(***************************************************************************)
Index == INSTANCE PrefixIndex WITH stored <- entries

KeepsIndex == Index!Spec

=============================================================================
