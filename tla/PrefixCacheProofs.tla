-------------------------- MODULE PrefixCacheProofs -------------------------
(***************************************************************************)
(* Proofs about the two prefix caches of the native engine: the invariants *)
(* of BlockHashPrefix and RadixPrefix for every set of prompts, page size  *)
(* and pair of limits, and that both implement PrefixIndex.                *)
(***************************************************************************)
EXTENDS BlockHashPrefix, RadixPrefix, FiniteSetTheorems, SequenceTheorems,
        WellFoundedInduction, TLAPS

(* Every set of natural numbers that is not empty has a least element. *)
LEMMA LeastNatural ==
    ASSUME NEW T \in SUBSET Nat, T # {}
    PROVE  \E m \in T : \A n \in T : m <= n
<1> DEFINE R == OpToRel(<, Nat)
<1>1. \A m, n \in T : n < m => <<n, m>> \in R
  BY DEF OpToRel
<1>2. IsWellFoundedOn(R, Nat)
  BY NatLessThanWellFounded
<1> HIDE DEF R
<1>3. PICK m \in T : \A n \in T : ~ (<<n, m>> \in R)
  BY <1>2, WFMin
<1>4. ASSUME NEW n \in T PROVE m <= n
  <2>1. ~ (n < m)
    BY <1>1, <1>3
  <2>2. m \in Nat /\ n \in Nat
    OBVIOUS
  <2> QED
    BY <2>1, <2>2
<1> QED
  BY <1>4

-----------------------------------------------------------------------------
(* BlockHashPrefix. *)

(* A page prefix of a prompt is a sequence of at least one token. *)
LEMMA PagePrefixType ==
    ASSUME NEW t \in Prompts, NEW n \in Int, NEW p \in PagePrefixes(t, n)
    PROVE  /\ p \in Seq(Nat) /\ Len(p) \in 1 .. Len(t) /\ Len(p) <= n
           /\ p # None /\ p \in PagedPrefixes
           /\ p \in PagePrefixes(t, Len(t))
<1>1. t \in Seq(Nat)
  BY PromptsAssumption
<1>2. PICK k \in 1 .. Len(t) : k <= n /\ k % PageSize = 0 /\ p = SubSeq(t, 1, k)
  BY DEF PagePrefixes
<1>3. p \in Seq(Nat) /\ Len(p) = k
  BY <1>1, <1>2, SubSeqProperties
<1>4. p \in PagePrefixes(t, Len(t))
  BY <1>1, <1>2 DEF PagePrefixes
<1>5. p # None
  BY <1>2, <1>3 DEF None
<1> QED
  BY <1>2, <1>3, <1>4, <1>5 DEF PagedPrefixes

LEMMA NoneIsNoPrefix == None \notin PagedPrefixes
<1> SUFFICES ASSUME NEW t \in Prompts, None \in PagePrefixes(t, Len(t)) PROVE FALSE
  BY DEF PagedPrefixes
<1>1. Len(t) \in Int
  BY PromptsAssumption
<1> QED
  BY <1>1, PagePrefixType

(* There are finitely many prefixes. *)
LEMMA PrefixesFinite == IsFiniteSet(PagedPrefixes)
<1>1. ASSUME NEW t \in Prompts PROVE IsFiniteSet(PagePrefixes(t, Len(t)))
  <2> DEFINE ks == {j \in 1 .. Len(t) : j <= Len(t) /\ j % PageSize = 0}
             f == [k \in ks |-> SubSeq(t, 1, k)]
  <2>1. IsFiniteSet(1 .. Len(t))
    BY PromptsAssumption, FS_Interval
  <2>2. IsFiniteSet(ks)
    BY <2>1, FS_Subset
  <2>3. f \in Surjection(ks, PagePrefixes(t, Len(t)))
    BY DEF Surjection, PagePrefixes
  <2> QED
    BY <2>2, <2>3, FS_Surjection
<1>2. IsFiniteSet({PagePrefixes(t, Len(t)) : t \in Prompts})
  <2> DEFINE g == [t \in Prompts |-> PagePrefixes(t, Len(t))]
  <2>1. g \in Surjection(Prompts, {PagePrefixes(t, Len(t)) : t \in Prompts})
    BY DEF Surjection
  <2> QED
    BY <2>1, PromptsAssumption, FS_Surjection
<1> QED
  BY <1>1, <1>2, FS_UNION DEF PagedPrefixes

(* The number of values a function takes on a set of prefixes. *)
LEMMA ImageCounted ==
    ASSUME NEW f, NEW es \in SUBSET PagedPrefixes
    PROVE  Cardinality({f[q] : q \in es}) \in Nat
<1> DEFINE g == [q \in es |-> f[q]]
<1>1. IsFiniteSet(es)
  BY PrefixesFinite, FS_Subset
<1>2. g \in Surjection(es, {f[q] : q \in es})
  BY DEF Surjection
<1>3. IsFiniteSet({f[q] : q \in es})
  BY <1>1, <1>2, FS_Surjection
<1> QED
  BY <1>3, FS_CardinalityType

LEMMA StampedType ==
    ASSUME NEW es \in SUBSET PagedPrefixes, NEW now \in SUBSET PagedPrefixes
    PROVE  Stamped(es, now) \in [PagedPrefixes -> Nat]
<1>1. \A p \in PagedPrefixes :
        Cardinality({used[q] : q \in {e \in es \ now : used[e] < used[p]}}) \in Nat
  <2> TAKE p \in PagedPrefixes
  <2> DEFINE older == {e \in es \ now : used[e] < used[p]}
  <2>1. older \in SUBSET PagedPrefixes
    OBVIOUS
  <2> QED
    BY <2>1, ImageCounted
<1>2. Cardinality({used[q] : q \in es \ now}) \in Nat
  BY ImageCounted
<1> QED
  BY <1>1, <1>2 DEF Stamped

(* Longest takes a member of the set, if it has any. *)
LEMMA LongestMember ==
    ASSUME NEW t \in Prompts, NEW n \in Int, NEW ps \in SUBSET PagePrefixes(t, n), ps # {}
    PROVE  Longest(ps) \in ps
<1> DEFINE T == {Len(t) - Len(p) : p \in ps}
<1>1. \A p \in ps : Len(p) \in 1 .. Len(t)
  BY PagePrefixType
<1>2. Len(t) \in Nat
  BY PromptsAssumption
<1>3. T \in SUBSET Nat /\ T # {}
  BY <1>1, <1>2
<1>4. PICK m \in T : \A k \in T : m <= k
  BY <1>3, LeastNatural
<1>5. PICK p \in ps : m = Len(t) - Len(p)
  BY <1>4
<1>6. ASSUME NEW q \in ps PROVE Len(q) <= Len(p)
  <2>1. Len(t) - Len(q) \in T
    OBVIOUS
  <2>2. m <= Len(t) - Len(q)
    BY <1>4, <2>1
  <2> QED
    BY <1>1, <1>2, <1>5, <2>2
<1> QED
  BY <1>6 DEF Longest

(***************************************************************************)
(* What _lookup finds is an entry, a true prefix of the prompt that leaves *)
(* a token to compute.                                                     *)
(***************************************************************************)
LEMMA LookupSound ==
    ASSUME NEW t \in Prompts, Lookup(t) # None
    PROVE  Lookup(t) \in entries \intersect PagePrefixes(t, Len(t) - 1)
<1> DEFINE reusable == PagePrefixes(t, Len(t) - 1)
           found == {p \in reusable : \A q \in reusable : Len(q) <= Len(p) => q \in entries}
<1>1. found # {}
  BY DEF Lookup, Longest
<1>2. Len(t) - 1 \in Int
  BY PromptsAssumption
<1>3. Longest(found) \in found
  <2>1. found \in SUBSET PagePrefixes(t, Len(t) - 1)
    OBVIOUS
  <2> HIDE DEF found, reusable
  <2> QED
    BY <1>1, <1>2, <2>1, LongestMember
<1>4. Lookup(t) \in found
  BY <1>3 DEF Lookup
<1>5. Len(Lookup(t)) \in Int
  BY <1>2, <1>4, PagePrefixType
<1> QED
  BY <1>4, <1>5

-----------------------------------------------------------------------------
(* The requests that hold a lease. *)

LEMMA HoldersCounted ==
    ASSUME NEW p
    PROVE  /\ IsFiniteSet(Holders(p)) /\ Cardinality(Holders(p)) \in Nat
           /\ \A r \in Slots : lease[r] = p => Cardinality(Holders(p)) > 0
<1>1. IsFiniteSet(Holders(p))
  BY SlotsAssumption, FS_Subset DEF Holders
<1>2. Cardinality(Holders(p)) \in Nat
  BY <1>1, FS_CardinalityType
<1>3. Cardinality(Holders(p)) = 0 => Holders(p) = {}
  BY <1>1, FS_EmptySet
<1>4. \A r \in Slots : lease[r] = p => r \in Holders(p)
  BY DEF Holders
<1> QED
  BY <1>1, <1>2, <1>3, <1>4

(* One request goes from no lease to a lease on p, or the other way. *)
LEMMA HoldersGain ==
    ASSUME NEW Values, lease \in [Slots -> Values], NEW r \in Slots, NEW p, NEW q,
           lease[r] # q, lease' = [lease EXCEPT ![r] = p]
    PROVE  Cardinality(Holders(q)') =
             IF p = q THEN Cardinality(Holders(q)) + 1 ELSE Cardinality(Holders(q))
<1>1. r \notin Holders(q)
  BY DEF Holders
<1>2. CASE p = q
  <2>1. Holders(q)' = Holders(q) \union {r}
    BY <1>2 DEF Holders
  <2> QED
    BY <1>1, <1>2, <2>1, HoldersCounted, FS_AddElement
<1>3. CASE p # q
  <2>1. Holders(q)' = Holders(q)
    BY <1>3 DEF Holders
  <2> QED
    BY <1>3, <2>1
<1> QED
  BY <1>2, <1>3

LEMMA HoldersLose ==
    ASSUME NEW Values, lease \in [Slots -> Values], NEW r \in Slots, NEW p, NEW q,
           p # q, lease' = [lease EXCEPT ![r] = p]
    PROVE  Cardinality(Holders(q)') =
             IF lease[r] = q THEN Cardinality(Holders(q)) - 1 ELSE Cardinality(Holders(q))
<1>1. CASE lease[r] = q
  <2>1. Holders(q)' = Holders(q) \ {r} /\ r \in Holders(q)
    BY <1>1 DEF Holders
  <2> QED
    BY <1>1, <2>1, HoldersCounted, FS_RemoveElement
<1>2. CASE lease[r] # q
  <2>1. Holders(q)' = Holders(q)
    BY <1>2 DEF Holders
  <2> QED
    BY <1>2, <2>1
<1> QED
  BY <1>1, <1>2

(* Eviction takes entries that are not pinned. *)
LEMMA VictimsUnpinned ==
    ASSUME NEW es, NEW pinned, NEW stamp, NEW protected
    PROVE  /\ Victims(es, pinned, stamp, protected) \subseteq es
           /\ \A e \in Victims(es, pinned, stamp, protected) : pinned[e] = 0
BY DEF Victims, Evictable

-----------------------------------------------------------------------------
(***************************************************************************)
(* The inductive invariant: besides the two exact counts, a slot without a *)
(* request holds no lease.                                                 *)
(***************************************************************************)
Sound ==
    /\ TypeOK /\ PinsExact /\ SnapshotsExact
    /\ \A r \in Slots : prompt[r] = None => lease[r] = None

LEMMA InitSound == Init => Sound
<1> SUFFICES ASSUME Init PROVE Sound
  OBVIOUS
<1>1. TypeOK
  BY DEF Init, TypeOK
<1>2. \A p \in PagedPrefixes : Holders(p) = {}
  BY NoneIsNoPrefix DEF Init, Holders
<1>3. PinsExact
  BY <1>2, FS_EmptySet DEF Init, PinsExact
<1> QED
  BY <1>1, <1>3 DEF Init, Sound, SnapshotsExact

(* A leased entry is pinned. *)
LEMMA LeasedPinned ==
    ASSUME Sound, NEW r \in Slots, lease[r] # None
    PROVE  lease[r] \in entries /\ lease[r] \in PagedPrefixes /\ pins[lease[r]] > 0
<1>1. lease[r] \in entries /\ lease[r] \in PagedPrefixes
  BY DEF Sound, PinsExact, TypeOK
<1> QED
  BY <1>1, HoldersCounted DEF Sound, PinsExact

LEMMA AcquireSound ==
    ASSUME Sound, NEW r \in Slots, NEW t \in Prompts, Acquire(r, t)
    PROVE  Sound'
<1> DEFINE p == Lookup(t)
<1>1. /\ lease \in [Slots -> PagedPrefixes \union {None}]
      /\ lease[r] = None /\ lease' = [lease EXCEPT ![r] = p]
  BY DEF Acquire, Sound, TypeOK
<1>2. p # None => p \in entries /\ p \in PagedPrefixes /\ p \in Seq(Nat)
  <2>1. Len(t) - 1 \in Int
    BY PromptsAssumption
  <2> QED
    BY <2>1, LookupSound, PagePrefixType
<1>3. Len(p) \in Nat
  BY <1>2 DEF None
<1>4. t # None
  BY PromptsAssumption DEF None
<1>5. \A q \in PagedPrefixes : Cardinality(Holders(q)') =
        IF p = q THEN Cardinality(Holders(q)) + 1 ELSE Cardinality(Holders(q))
  BY <1>1, NoneIsNoPrefix, HoldersGain
<1>6. TypeOK'
  <2>1. p # None => Stamped(entries, {p}) \in [PagedPrefixes -> Nat]
    BY <1>2, StampedType DEF Sound, TypeOK
  <2> HIDE DEF p
  <2>2. /\ lease' \in [Slots -> PagedPrefixes \union {None}]
        /\ length' \in [Slots -> Nat] /\ prompt' \in [Slots -> Prompts \union {None}]
    BY <1>2, <1>3 DEF Acquire, Sound, TypeOK, p
  <2>3. pins' \in [PagedPrefixes -> Nat] /\ used' \in [PagedPrefixes -> Nat]
    <3>1. IF p = None THEN UNCHANGED <<pins, used>>
          ELSE pins' = [pins EXCEPT ![p] = pins[p] + 1] /\ used' = Stamped(entries, {p})
      BY DEF Acquire, p
    <3>2. pins \in [PagedPrefixes -> Nat] /\ used \in [PagedPrefixes -> Nat]
      BY DEF Sound, TypeOK
    <3>3. CASE p = None
      BY <3>1, <3>2, <3>3
    <3>4. CASE p # None
      <4>1. p \in PagedPrefixes /\ pins[p] + 1 \in Nat
        BY <1>2, <3>2, <3>4
      <4>2. pins' = [pins EXCEPT ![p] = pins[p] + 1] /\ used' = Stamped(entries, {p})
        BY <3>1, <3>4
      <4> QED
        BY <2>1, <3>2, <3>4, <4>1, <4>2
    <3> QED
      BY <3>3, <3>4
  <2> QED
    BY <2>2, <2>3 DEF Acquire, Sound, TypeOK
<1>7. PinsExact'
  <2>1. ASSUME NEW q \in PagedPrefixes PROVE pins'[q] = Cardinality(Holders(q)')
    <3>1. pins \in [PagedPrefixes -> Nat] /\ pins[q] = Cardinality(Holders(q))
      BY DEF Sound, TypeOK, PinsExact
    <3>2. pins'[q] = IF p = q THEN pins[q] + 1 ELSE pins[q]
      BY <1>2, <3>1, NoneIsNoPrefix DEF Acquire
    <3> QED
      BY <1>5, <3>1, <3>2
  <2>2. ASSUME NEW q \in Slots, lease'[q] # None PROVE lease'[q] \in entries'
    BY <1>1, <1>2, <2>2 DEF Acquire, Sound, PinsExact
  <2> QED
    BY <2>1, <2>2 DEF PinsExact
<1> QED
  BY <1>1, <1>4, <1>6, <1>7 DEF Acquire, Sound, SnapshotsExact, TypeOK

LEMMA PublishSound ==
    ASSUME Sound, NEW r \in Slots, NEW n \in 1 .. Len(prompt[r]), Publish(r, n)
    PROVE  /\ Sound'
           /\ entries' \subseteq entries \union PagePrefixes(prompt[r], Len(prompt[r]))
<1> DEFINE chain == {p \in PagePrefixes(prompt[r], n) : Len(p) <= PageSize * Publishable}
           new == chain \ entries
           all == entries \union new
           stamp == Stamped(all, new)
           victims == Victims(all, pins, stamp, Longest(chain))
<1>1. prompt[r] \in Prompts /\ prompt[r] \in Seq(Nat) /\ n \in Nat
  BY PromptsAssumption DEF Publish, Sound, TypeOK
<1>2. chain \subseteq PagedPrefixes /\ chain \subseteq PagePrefixes(prompt[r], Len(prompt[r]))
  <2>1. \A p \in chain : p \in PagedPrefixes /\ p \in PagePrefixes(prompt[r], Len(prompt[r]))
    BY <1>1, PagePrefixType
  <2> QED
    BY <2>1
<1>3. all \subseteq PagedPrefixes /\ new \subseteq PagedPrefixes /\ new \intersect entries = {}
  BY <1>2 DEF Sound, TypeOK
<1>4. stamp \in [PagedPrefixes -> Nat]
  BY <1>3, StampedType
<1>5. victims \subseteq all /\ \A e \in victims : pins[e] = 0
  BY VictimsUnpinned
<1>6. \/ UNCHANGED <<entries, used, snaps>>
      \/ /\ entries' = all \ victims
         /\ used' = [p \in PagedPrefixes |-> IF p \in victims THEN 0 ELSE stamp[p]]
         /\ snaps' = Snapshots(new, victims)
  BY DEF Publish
<1>7. /\ length' = [length EXCEPT ![r] = n]
      /\ UNCHANGED <<pins, prompt, lease>>
  BY DEF Publish
<1> HIDE DEF chain, new, all, stamp, victims
<1>8. all = entries \union new /\ new \subseteq chain
  BY DEF all, new
<1>9. SnapshotsExact'
  <2>1. CASE UNCHANGED <<entries, used, snaps>>
    BY <2>1 DEF Sound, SnapshotsExact
  <2>2. CASE entries' = all \ victims /\ snaps' = Snapshots(new, victims)
    <3> SUFFICES ASSUME NEW p \in PagedPrefixes
                 PROVE  snaps'[p] = IF p \in entries' THEN 1 ELSE 0
      BY DEF SnapshotsExact
    <3>1. snaps'[p] = snaps[p] + (IF p \in new THEN 1 ELSE 0) - (IF p \in victims THEN 1 ELSE 0)
      BY <2>2 DEF Snapshots
    <3>2. snaps[p] = IF p \in entries THEN 1 ELSE 0
      BY DEF Sound, SnapshotsExact
    <3> QED
      BY <1>3, <1>5, <1>8, <2>2, <3>1, <3>2
  <2> QED
    BY <1>6, <2>1, <2>2
<1>10. TypeOK'
  <2>1. entries' \subseteq PagedPrefixes /\ used' \in [PagedPrefixes -> Nat]
    BY <1>3, <1>4, <1>6 DEF Sound, TypeOK
  <2>2. length' \in [Slots -> Nat]
    BY <1>1, <1>7 DEF Sound, TypeOK
  <2>3. snaps' \in [PagedPrefixes -> Nat]
    <3>1. DOMAIN snaps' = PagedPrefixes /\ snaps' = [p \in PagedPrefixes |-> snaps'[p]]
      BY <1>6 DEF Sound, TypeOK, Snapshots
    <3>2. \A p \in PagedPrefixes : snaps'[p] \in Nat
      BY <1>9 DEF SnapshotsExact
    <3> QED
      BY <3>1, <3>2
  <2> QED
    BY <1>7, <2>1, <2>2, <2>3 DEF Sound, TypeOK
<1>11. PinsExact'
  <2>1. ASSUME NEW q \in Slots, lease[q] # None PROVE lease[q] \in entries'
    BY <1>5, <1>6, <1>8, <2>1, LeasedPinned
  <2>2. \A p \in PagedPrefixes : Holders(p)' = Holders(p)
    BY <1>7 DEF Holders
  <2> QED
    BY <1>7, <2>1, <2>2 DEF Sound, PinsExact
<1>12. entries' \subseteq entries \union PagePrefixes(prompt[r], Len(prompt[r]))
  BY <1>2, <1>6, <1>8
<1> QED
  BY <1>7, <1>9, <1>10, <1>11, <1>12 DEF Sound

LEMMA ReleaseSound ==
    ASSUME Sound, NEW r \in Slots, Release(r)
    PROVE  Sound' /\ entries' \subseteq entries
<1> DEFINE p == lease[r]
           victims == Victims(entries, Unpinned(p), used, None)
<1>1. /\ prompt' = [prompt EXCEPT ![r] = None]
      /\ length' = [length EXCEPT ![r] = 0]
      /\ lease' = [lease EXCEPT ![r] = None]
  BY DEF Release
<1>2. /\ lease \in [Slots -> PagedPrefixes \union {None}] /\ pins \in [PagedPrefixes -> Nat]
      /\ entries \subseteq PagedPrefixes /\ used \in [PagedPrefixes -> Nat] /\ snaps \in [PagedPrefixes -> Nat]
  BY DEF Sound, TypeOK
<1>3. IF p = None THEN UNCHANGED <<entries, used, pins, snaps>>
      ELSE /\ pins' = Unpinned(p)
           /\ entries' = entries \ victims
           /\ used' = [q \in PagedPrefixes |-> IF q \in victims THEN 0 ELSE used[q]]
           /\ snaps' = Snapshots({}, victims)
  BY DEF Release
<1>4. victims \subseteq entries /\ \A e \in victims : Unpinned(p)[e] = 0
  BY VictimsUnpinned
<1>5. p # None => p \in PagedPrefixes /\ pins[p] > 0
  BY LeasedPinned
<1>6. p # None => Unpinned(p) = [pins EXCEPT ![p] = pins[p] - 1]
  BY <1>2, <1>5 DEF Unpinned
<1> HIDE DEF p, victims
<1>7. \A q \in PagedPrefixes : Cardinality(Holders(q)') =
        IF p = q THEN Cardinality(Holders(q)) - 1 ELSE Cardinality(Holders(q))
  BY <1>1, <1>2, NoneIsNoPrefix, HoldersLose DEF p
<1>8. \A q \in PagedPrefixes : pins'[q] = Cardinality(Holders(q)')
  <2> TAKE q \in PagedPrefixes
  <2>1. pins[q] = Cardinality(Holders(q)) /\ pins[q] \in Nat
    BY <1>2 DEF Sound, PinsExact
  <2>2. pins'[q] = IF p = q THEN pins[q] - 1 ELSE pins[q]
    BY <1>2, <1>3, <1>5, <1>6, NoneIsNoPrefix
  <2> QED
    BY <1>7, <2>1, <2>2
<1>9. ASSUME NEW s \in Slots, lease'[s] # None PROVE lease'[s] \in entries'
  <2>1. lease'[s] = lease[s] /\ lease[s] \in entries /\ lease[s] \in PagedPrefixes
    BY <1>1, <1>2, <1>9, LeasedPinned
  <2>2. CASE p = None
    BY <1>3, <2>1, <2>2
  <2>3. CASE p # None
    <3>1. pins'[lease[s]] = Cardinality(Holders(lease[s])')
      BY <1>8, <2>1
    <3>2. s \in Holders(lease[s])' /\ IsFiniteSet(Holders(lease[s])')
      <4>1. Holders(lease[s])' = {x \in Slots : lease'[x] = lease[s]'}
        BY DEF Holders
      <4> QED
        BY <2>1, <4>1, SlotsAssumption, FS_Subset
    <3> QED
      BY <1>3, <1>4, <2>1, <2>3, <3>1, <3>2, FS_EmptySet
  <2> QED
    BY <2>2, <2>3
<1>10. SnapshotsExact'
  <2>1. CASE p = None
    BY <1>3, <2>1 DEF Sound, SnapshotsExact
  <2>2. CASE p # None
    <3> SUFFICES ASSUME NEW q \in PagedPrefixes
                 PROVE  snaps'[q] = IF q \in entries' THEN 1 ELSE 0
      BY DEF SnapshotsExact
    <3>1. snaps'[q] = snaps[q] - (IF q \in victims THEN 1 ELSE 0)
      BY <1>2, <1>3, <2>2 DEF Snapshots
    <3>2. snaps[q] = IF q \in entries THEN 1 ELSE 0
      BY DEF Sound, SnapshotsExact
    <3> QED
      BY <1>3, <1>4, <2>2, <3>1, <3>2
  <2> QED
    BY <2>1, <2>2
<1>11. TypeOK'
  <2>1. entries' \subseteq PagedPrefixes /\ used' \in [PagedPrefixes -> Nat]
    BY <1>2, <1>3
  <2>2. pins' \in [PagedPrefixes -> Nat]
    <3>1. CASE p = None
      BY <1>2, <1>3, <3>1
    <3>2. CASE p # None
      BY <1>2, <1>3, <1>5, <1>6, <3>2
    <3> QED
      BY <3>1, <3>2
  <2>3. snaps' \in [PagedPrefixes -> Nat]
    <3>1. snaps' = [q \in PagedPrefixes |-> snaps'[q]]
      BY <1>2, <1>3 DEF Snapshots
    <3>2. \A q \in PagedPrefixes : snaps'[q] \in Nat
      BY <1>10 DEF SnapshotsExact
    <3> QED
      BY <3>1, <3>2
  <2>4. /\ length' \in [Slots -> Nat] /\ lease' \in [Slots -> PagedPrefixes \union {None}]
        /\ prompt' \in [Slots -> Prompts \union {None}]
    BY <1>1 DEF Sound, TypeOK
  <2> QED
    BY <2>1, <2>2, <2>3, <2>4 DEF TypeOK
<1>12. PinsExact'
  BY <1>8, <1>9 DEF PinsExact
<1>13. \A s \in Slots : prompt'[s] = None => lease'[s] = None
  BY <1>1, <1>2 DEF Sound, TypeOK
<1>14. entries' \subseteq entries
  BY <1>3
<1> QED
  BY <1>10, <1>11, <1>12, <1>13, <1>14 DEF Sound

LEMMA ResetSound ==
    ASSUME Sound, Reset
    PROVE  Sound'
<1>1. \A r \in Slots : lease[r] = None
  BY DEF Sound, Reset
<1>2. \A p \in PagedPrefixes : Holders(p)' = {}
  BY <1>1, NoneIsNoPrefix DEF Reset, Holders
<1>3. PinsExact'
  BY <1>1, <1>2, FS_EmptySet DEF Reset, PinsExact
<1>4. \A p \in PagedPrefixes : snaps'[p] = 0
  BY DEF Sound, SnapshotsExact, Reset, Snapshots
<1>5. SnapshotsExact'
  BY <1>4 DEF Reset, SnapshotsExact
<1>6. snaps' \in [PagedPrefixes -> Nat]
  BY <1>4 DEF Reset, Snapshots
<1> QED
  BY <1>1, <1>3, <1>5, <1>6 DEF Sound, TypeOK, Reset

LEMMA NextSound == Sound /\ [Next]_vars => Sound'
<1> SUFFICES ASSUME Sound, [Next]_vars PROVE Sound'
  OBVIOUS
<1>1. ASSUME NEW r \in Slots, NEW t \in Prompts, Acquire(r, t) PROVE Sound'
  BY <1>1, AcquireSound
<1>2. ASSUME NEW r \in Slots, NEW n \in 1 .. Len(prompt[r]), Publish(r, n) PROVE Sound'
  BY <1>2, PublishSound
<1>3. ASSUME NEW r \in Slots, Release(r) PROVE Sound'
  BY <1>3, ReleaseSound
<1>4. CASE Reset
  BY <1>4, ResetSound
<1>5. CASE UNCHANGED vars
  <2>1. \A p : Holders(p)' = Holders(p)
    BY <1>5 DEF Holders, vars
  <2> QED
    BY <1>5, <2>1 DEF Sound, TypeOK, PinsExact, SnapshotsExact, vars
<1> QED
  BY <1>1, <1>2, <1>3, <1>4, <1>5 DEF Next

(* The type invariant holds for every choice of the constants. *)
THEOREM BlockTypes == Spec => []TypeOK
<1>1. Sound => TypeOK
  BY DEF Sound
<1> QED
  BY <1>1, InitSound, NextSound, PTL DEF Spec

(***************************************************************************)
(* The pins of every entry are its leases, and no leased entry is evicted, *)
(* however publish, release and acquire follow each other.                 *)
(***************************************************************************)
THEOREM LeasesPinned == Spec => []PinsExact
<1>1. Sound => PinsExact
  BY DEF Sound
<1> QED
  BY <1>1, InitSound, NextSound, PTL DEF Spec

(* No snapshot is leaked, and none is released twice. *)
THEOREM SnapshotsOwned == Spec => []SnapshotsExact
<1>1. Sound => SnapshotsExact
  BY DEF Sound
<1> QED
  BY <1>1, InitSound, NextSound, PTL DEF Spec

(***************************************************************************)
(* The block-hash cache implements PrefixIndex: the promise on which the   *)
(* coordinator relies when it gives a request rows it did not compute.     *)
(***************************************************************************)
THEOREM ImplementsIndex == Spec => KeepsIndex
<1>1. Init => Index!Init
  BY DEF Init, Index!Init, None, Index!None
<1>2. Sound /\ Sound' /\ [Next]_vars => [Index!Next]_(Index!vars)
  <2> SUFFICES ASSUME Sound, Sound', [Next]_vars PROVE [Index!Next]_(Index!vars)
    OBVIOUS
  <2>0. Index!None = None /\ \A t, n : Index!PagePrefixes(t, n) = PagePrefixes(t, n)
    BY DEF Index!None, None, Index!PagePrefixes, PagePrefixes
  <2>1. Index!Lent \subseteq entries /\ Index!Lent' \subseteq entries'
    BY <2>0 DEF Sound, PinsExact, Index!Lent
  <2>2. ASSUME NEW r \in Slots, NEW t \in Prompts, Acquire(r, t) PROVE Index!Acquire(r, t)
    <3>1. Lookup(t) \in {None} \union (entries \intersect PagePrefixes(t, Len(t) - 1))
      BY LookupSound
    <3> QED
      BY <2>0, <2>2, <3>1 DEF Acquire, Index!Acquire
  <2>3. ASSUME NEW r \in Slots, NEW n \in 1 .. Len(prompt[r]), Publish(r, n)
        PROVE  Index!Publish(r)
    <3>1. entries' \subseteq entries \union PagePrefixes(prompt[r], Len(prompt[r]))
      BY <2>3, PublishSound
    <3>2. Index!Lent' = Index!Lent
      BY <2>0, <2>3 DEF Publish, Index!Lent
    <3> QED
      BY <2>0, <2>1, <2>3, <3>1, <3>2 DEF Publish, Index!Publish
  <2>4. ASSUME NEW r \in Slots, Release(r) PROVE Index!Release(r)
    <3>1. entries' \subseteq entries
      BY <2>4, ReleaseSound
    <3> QED
      BY <2>0, <2>1, <2>4, <3>1 DEF Release, Index!Release
  <2>5. CASE Reset
    BY <2>0, <2>5 DEF Reset, Index!Reset, Index!Next
  <2>6. CASE UNCHANGED vars
    BY <2>6 DEF vars, Index!vars
  <2> QED
    BY <2>2, <2>3, <2>4, <2>5, <2>6 DEF Next, Index!Next
<1> QED
  BY <1>1, <1>2, InitSound, NextSound, PTL DEF Spec, KeepsIndex, Index!Spec

-----------------------------------------------------------------------------
(* Eviction and the limits. *)

LEMMA LimitType == Limit \in Nat
BY LimitsAssumption DEF Limit

LEMMA PrefixLength == \A p \in PagedPrefixes : Len(p) \in Nat
<1> SUFFICES ASSUME NEW t \in Prompts, NEW p \in PagePrefixes(t, Len(t))
             PROVE  Len(p) \in Nat
  BY DEF PagedPrefixes
<1>1. Len(t) \in Int
  BY PromptsAssumption
<1>2. p \in Seq(Nat)
  BY <1>1, PagePrefixType
<1> QED
  BY <1>2, LenProperties

(***************************************************************************)
(* _evict_until_within_limits stops above the limits only when nothing     *)
(* evictable is left: the first entry in the order of Sooner that it       *)
(* spared would have had as many victims before it as are too many.        *)
(***************************************************************************)
LEMMA EvictsEnough ==
    ASSUME NEW es \in SUBSET PagedPrefixes, NEW pinned,
           NEW stamp \in [PagedPrefixes -> Nat], NEW protected,
           Cardinality(es \ Victims(es, pinned, stamp, protected)) > Limit
    PROVE  \A e \in es \ Victims(es, pinned, stamp, protected) :
             e = protected \/ pinned[e] # 0
<1> DEFINE C == Evictable(es, pinned, protected)
           V == Victims(es, pinned, stamp, protected)
           Before(e) == {d \in C : Sooner(d, e, stamp)}
           Rank(e) == Cardinality(Before(e))
<1>1. /\ C \subseteq es /\ es \subseteq PagedPrefixes
      /\ \A e \in es \ C : e = protected \/ pinned[e] # 0
  BY DEF Evictable
<1>2. IsFiniteSet(es) /\ IsFiniteSet(C)
  BY <1>1, PrefixesFinite, FS_Subset
<1>3. V = {e \in C : Rank(e) < Excess(es)}
  BY DEF Victims
<1>4. \A e : Before(e) \subseteq C /\ IsFiniteSet(Before(e)) /\ Rank(e) \in Nat
  <2> TAKE e
  <2>1. Before(e) \subseteq C
    OBVIOUS
  <2> QED
    BY <1>2, <2>1, FS_Subset, FS_CardinalityType
<1>5. \A d, e \in C : d \in Before(e) =>
          d \notin Before(d) /\ Before(d) \subseteq Before(e)
  <2> SUFFICES ASSUME NEW d \in C, NEW e \in C, Sooner(d, e, stamp)
               PROVE  /\ ~Sooner(d, d, stamp)
                      /\ \A c \in C : Sooner(c, d, stamp) => Sooner(c, e, stamp)
    OBVIOUS
  <2>1. \A c \in C : stamp[c] \in Nat /\ Len(c) \in Nat
    BY <1>1, PrefixLength
  <2> QED
    BY <2>1 DEF Sooner
<1>6. \A d, e \in C : d \in Before(e) => Rank(d) < Rank(e)
  <2> SUFFICES ASSUME NEW d \in C, NEW e \in C, d \in Before(e)
               PROVE  Rank(d) < Rank(e)
    OBVIOUS
  <2>1. Before(d) \subseteq Before(e) /\ d \notin Before(d)
    BY <1>5
  <2>2. Before(d) # Before(e)
    BY <2>1
  <2>3. Rank(d) <= Rank(e) /\ (Rank(e) = Rank(d) => Before(e) = Before(d))
    BY <1>4, <2>1, FS_Subset
  <2>4. Rank(d) \in Nat /\ Rank(e) \in Nat
    BY <1>4
  <2> HIDE DEF Before, Rank
  <2> QED
    BY <2>2, <2>3, <2>4
<1> HIDE DEF C, V, Before
<1>7. V \subseteq C /\ V \subseteq es
  BY <1>1, <1>3
<1>8. SUFFICES ASSUME C \ V # {} PROVE FALSE
  <2>1. V = Victims(es, pinned, stamp, protected)
    BY DEF V
  <2> QED
    BY <1>1, <1>8, <2>1
<1>9. PICK e \in C \ V : \A d \in C \ V : Rank(e) <= Rank(d)
  <2> DEFINE T == {Rank(d) : d \in C \ V}
  <2>1. T \in SUBSET Nat /\ T # {}
    BY <1>4, <1>8
  <2>2. PICK m \in T : \A n \in T : m <= n
    BY <2>1, LeastNatural
  <2> QED
    BY <2>2
<1>10. Before(e) \subseteq V
  <2> SUFFICES ASSUME NEW d \in Before(e), d \notin V PROVE FALSE
    OBVIOUS
  <2>1. d \in C \ V
    BY <1>4
  <2>2. Rank(d) < Rank(e) /\ Rank(e) <= Rank(d)
    BY <1>6, <1>9, <2>1
  <2> QED
    BY <1>4, <2>2
<1>11. IsFiniteSet(V) /\ Cardinality(V) \in Nat /\ Rank(e) <= Cardinality(V)
  BY <1>2, <1>7, <1>10, FS_Subset, FS_CardinalityType
<1>12. Cardinality(es) \in Nat
  BY <1>2, FS_CardinalityType
<1>13. ~(Rank(e) < Cardinality(es) - Limit)
  BY <1>3, <1>9 DEF Excess
<1>14. Cardinality(es \ V) = Cardinality(es) - Cardinality(V)
  <2>1. es \intersect V = V
    BY <1>7
  <2>2. Cardinality(es \ V) = Cardinality(es) - Cardinality(es \intersect V)
    BY <1>2, FS_Difference
  <2> QED
    BY <2>1, <2>2
<1>15. Cardinality(es \ V) > Limit
  BY DEF V
<1> QED
  BY <1>4, <1>11, <1>12, <1>13, <1>14, <1>15, LimitType

(* If all entries but p are pinned, at most one is not. *)
LEMMA AtMostOne ==
    ASSUME NEW es \in SUBSET PagedPrefixes, NEW pinned, NEW p,
           \A e \in es : e = p \/ pinned[e] # 0
    PROVE  Cardinality({e \in es : pinned[e] = 0}) <= 1
<1> DEFINE S == {e \in es : pinned[e] = 0}
<1>1. S \subseteq {p}
  OBVIOUS
<1> HIDE DEF S
<1>2. IsFiniteSet({p}) /\ Cardinality({p}) = 1
  BY FS_Singleton
<1>3. Cardinality(S) <= 1
  BY <1>1, <1>2, FS_Subset
<1> QED
  BY <1>3 DEF S

LEMMA StepLimits == Sound /\ LimitsYieldToPins /\ [Next]_vars => LimitsYieldToPins'
<1> SUFFICES ASSUME Sound, LimitsYieldToPins, [Next]_vars
             PROVE  LimitsYieldToPins'
  OBVIOUS
<1>0. /\ entries \subseteq PagedPrefixes /\ pins \in [PagedPrefixes -> Nat]
      /\ used \in [PagedPrefixes -> Nat]
  BY DEF Sound, TypeOK
<1>u. ASSUME entries' = entries, \A e \in entries : pins'[e] = 0 => pins[e] = 0
      PROVE  LimitsYieldToPins'
  <2> DEFINE S == {e \in entries : pins[e] = 0}
             T == {e \in entries : pins'[e] = 0}
  <2>1. T \subseteq S /\ S \subseteq entries
    BY <1>u
  <2>2. T = {e \in entries' : pins'[e] = 0}
    BY <1>u
  <2> HIDE DEF T
  <2>3. IsFiniteSet(S)
    BY <1>0, <2>1, PrefixesFinite, FS_Subset
  <2>4. Cardinality(T) <= Cardinality(S) /\ Cardinality(T) \in Nat /\ Cardinality(S) \in Nat
    BY <2>1, <2>3, FS_Subset, FS_CardinalityType
  <2>5. Cardinality(entries) > Limit => Cardinality(S) <= 1
    BY DEF LimitsYieldToPins
  <2> HIDE DEF S
  <2>6. Cardinality(entries) > Limit => Cardinality(T) <= 1
    BY <2>4, <2>5
  <2> QED
    BY <1>u, <2>2, <2>6 DEF LimitsYieldToPins
<1>e. ASSUME NEW es \in SUBSET PagedPrefixes, NEW stamp \in [PagedPrefixes -> Nat], NEW p,
             entries' = es \ Victims(es, pins', stamp, p)
      PROVE  LimitsYieldToPins'
  <2> SUFFICES ASSUME Cardinality(entries') > Limit
               PROVE  Cardinality({e \in entries' : pins'[e] = 0}) <= 1
    BY DEF LimitsYieldToPins
  <2>1. \A e \in entries' : e = p \/ pins'[e] # 0
    BY <1>e, EvictsEnough
  <2>2. entries' \in SUBSET PagedPrefixes
    BY <1>e
  <2> QED
    BY <2>1, <2>2, AtMostOne
<1>1. ASSUME NEW r \in Slots, NEW t \in Prompts, Acquire(r, t)
      PROVE  LimitsYieldToPins'
  <2>1. entries' = entries
    BY <1>1 DEF Acquire
  <2>2. pins' = pins \/ pins' = [pins EXCEPT ![Lookup(t)] = pins[Lookup(t)] + 1]
    BY <1>1 DEF Acquire
  <2>3. \A e \in entries : pins'[e] = 0 => pins[e] = 0
    BY <1>0, <2>2
  <2> QED
    BY <2>1, <2>3, <1>u
<1>2. ASSUME NEW r \in Slots, NEW n \in 1 .. Len(prompt[r]), Publish(r, n)
      PROVE  LimitsYieldToPins'
  <2> DEFINE chain == {p \in PagePrefixes(prompt[r], n) : Len(p) <= PageSize * Publishable}
             new == chain \ entries
             all == entries \union new
             stamp == Stamped(all, new)
  <2>1. /\ pins' = pins
        /\ \/ entries' = entries
           \/ entries' = all \ Victims(all, pins, stamp, Longest(chain))
    BY <1>2 DEF Publish
  <2>2. prompt[r] \in Prompts /\ n \in Int
    BY <1>2 DEF Publish, Sound, TypeOK
  <2>3. chain \subseteq PagedPrefixes
    BY <2>2, PagePrefixType
  <2>4. all \in SUBSET PagedPrefixes /\ new \in SUBSET PagedPrefixes
    BY <1>0, <2>3
  <2>5. stamp \in [PagedPrefixes -> Nat]
    BY <2>4, StampedType
  <2> HIDE DEF chain, new, all, stamp
  <2>6. CASE entries' = entries
    BY <1>u, <2>1, <2>6
  <2>7. CASE entries' = all \ Victims(all, pins, stamp, Longest(chain))
    <3>1. entries' = all \ Victims(all, pins', stamp, Longest(chain))
      BY <2>1, <2>7
    <3> QED
      BY <1>e, <2>4, <2>5, <3>1
  <2> QED
    BY <2>1, <2>6, <2>7
<1>3. ASSUME NEW r \in Slots, Release(r) PROVE LimitsYieldToPins'
  <2>1. \/ entries' = entries /\ pins' = pins
        \/ entries' = entries \ Victims(entries, pins', used, None)
    BY <1>3 DEF Release
  <2> QED
    BY <1>0, <1>e, <1>u, <2>1
<1>4. CASE Reset
  <2>1. Cardinality(entries') = 0
    BY <1>4, FS_EmptySet DEF Reset
  <2> QED
    BY <2>1, LimitType DEF LimitsYieldToPins
<1>5. CASE UNCHANGED vars
  BY <1>5, <1>u DEF vars
<1> QED
  BY <1>1, <1>2, <1>3, <1>4, <1>5 DEF Next

(***************************************************************************)
(* The limits give way only to leases: whatever publish adds and whenever  *)
(* release takes a pin away, above max_entries or max_bytes everything but *)
(* at most one entry is pinned.                                            *)
(***************************************************************************)
THEOREM LimitsEnforced == Spec => []LimitsYieldToPins
<1>1. Init => LimitsYieldToPins
  <2> SUFFICES ASSUME Init PROVE LimitsYieldToPins
    OBVIOUS
  <2>1. Cardinality(entries) = 0
    BY FS_EmptySet DEF Init
  <2> QED
    BY <2>1, LimitType DEF LimitsYieldToPins
<1> QED
  BY <1>1, InitSound, NextSound, StepLimits, PTL DEF Spec

-----------------------------------------------------------------------------
(* Least members, greatest members and loops. *)

LEMMA MinOfNaturals ==
    ASSUME NEW T \in SUBSET Nat, T # {}
    PROVE  Min(T) \in T /\ \A n \in T : Min(T) <= n
  BY LeastNatural DEF Min

(* A bounded set of natural numbers has a greatest member. *)
LEMMA MaxOfBounded ==
    ASSUME NEW b \in Nat, NEW T \in SUBSET (0..b), T # {}
    PROVE  Max(T) \in T /\ \A n \in T : n <= Max(T)
<1> DEFINE U == {b - n : n \in T}
<1>1. U \in SUBSET Nat /\ U # {}
  <2>1. \A n \in T : b - n \in Nat
    OBVIOUS
  <2> QED
    BY <2>1
<1>2. PICK m \in U : \A n \in U : m <= n
  BY <1>1, LeastNatural
<1>3. PICK k \in T : m = b - k
  BY <1>2
<1>4. ASSUME NEW n \in T PROVE k >= n
  <2>1. b - n \in U /\ n \in 0..b /\ k \in 0..b
    OBVIOUS
  <2>2. b - k <= b - n
    BY <2>1, <1>2, <1>3
  <2> QED
    BY <2>1, <2>2
<1>5. \E x \in T : \A y \in T : x >= y
  BY <1>4
<1>6. Max(T) \in T /\ \A y \in T : Max(T) >= y
  BY <1>5 DEF Max
<1> HIDE DEF Max
<1>7. Max(T) \in Nat /\ \A y \in T : y \in Nat
  <2>1. \A y \in T : y \in Nat
    OBVIOUS
  <2> QED
    BY <2>1, <1>6
<1>8. ASSUME NEW n \in T PROVE n <= Max(T)
  BY <1>6, <1>7
<1> QED
  BY <1>6, <1>8

(* A set of numbers that has 0 and with a number the next has them all. *)
LEMMA UpTo ==
    ASSUME NEW N \in Nat, NEW B, 0 \in B, \A n \in 1..N : n - 1 \in B => n \in B
    PROVE  \A n \in 0..N : n \in B
<1> DEFINE T == {n \in 0..N : n \notin B}
<1>1. SUFFICES ASSUME T # {} PROVE FALSE
  OBVIOUS
<1>2. PICK m \in T : \A n \in T : m <= n
  <2>1. T \in SUBSET Nat
    OBVIOUS
  <2> QED
    BY <1>1, <2>1, LeastNatural
<1>3. m \in 1..N /\ m - 1 \in 0..N /\ ~ (m <= m - 1)
  BY <1>2
<1>4. m - 1 \in B
  BY <1>2, <1>3
<1> QED
  BY <1>2, <1>3, <1>4

(* The partial results of a loop of N turns. *)
IsLoop(g, N, A, base, turn) ==
    /\ g \in [0..N -> A]
    /\ g[0] = base /\ \A k \in 1..N : g[k] = turn[k][g[k - 1]]

(***************************************************************************)
(* A loop of N turns over states in A: its partial results exist, whatever *)
(* a turn does, as long as it stays in A.                                  *)
(***************************************************************************)
LEMMA LoopExists ==
    ASSUME NEW N \in Nat, NEW A, NEW base \in A, NEW turn \in [1..N -> [A -> A]]
    PROVE  \E g : IsLoop(g, N, A, base, turn)
<1> DEFINE Good(n, g) == g[0] = base /\ \A k \in 1..n : g[k] = turn[k][g[k - 1]]
           B == {n \in 0..N : \E g \in [0..n -> A] : Good(n, g)}
<1>1. 0 \in B
  <2> DEFINE g == [k \in 0..0 |-> base]
  <2>1. g \in [0..0 -> A] /\ g[0] = base
    OBVIOUS
  <2> HIDE DEF g
  <2>2. Good(0, g) /\ 0 \in 0..N
    BY <2>1
  <2> QED
    BY <2>1, <2>2
<1>2. ASSUME NEW n \in 1..N, n - 1 \in B PROVE n \in B
  <2>1. PICK g \in [0..(n - 1) -> A] : Good(n - 1, g)
    BY <1>2
  <2> DEFINE h == [k \in 0..n |-> IF k = n THEN turn[n][g[n - 1]] ELSE g[k]]
  <2>2. n \in 0..N /\ n - 1 \in 0..(n - 1) /\ n # 0 /\ 0 \in 0..n
    BY <1>2
  <2>3. turn[n][g[n - 1]] \in A
    BY <2>1, <2>2
  <2>4. h \in [0..n -> A]
    <3>1. ASSUME NEW k \in 0..n, k # n PROVE g[k] \in A
      BY <3>1, <2>1, <2>2
    <3> QED
      BY <3>1, <2>3
  <2>5. h[0] = base
    BY <2>1, <2>2
  <2>6. ASSUME NEW k \in 1..n PROVE h[k] = turn[k][h[k - 1]]
    <3>1. k \in 0..n /\ k - 1 \in 0..n /\ k - 1 # n
      BY <2>2
    <3>2. CASE k = n
      BY <3>1, <3>2
    <3>3. CASE k # n
      <4>1. k \in 1..(n - 1)
        BY <3>3, <2>2
      <4>2. g[k] = turn[k][g[k - 1]]
        BY <4>1, <2>1
      <4> QED
        BY <4>2, <3>1, <3>3
    <3> QED
      BY <3>2, <3>3
  <2> HIDE DEF h
  <2> QED
    BY <2>2, <2>4, <2>5, <2>6
<1>3. N \in 0..N
  OBVIOUS
<1> HIDE DEF B
<1>4. N \in B
  BY <1>1, <1>2, <1>3, UpTo
<1> QED
  BY <1>4 DEF B, IsLoop

-----------------------------------------------------------------------------
(* Prefixes of sequences of tokens. *)

(* Token by token, t begins with s. *)
Starts(s, t) == Len(s) <= Len(t) /\ \A i \in 1..Len(s) : s[i] = t[i]

(* The first k tokens. *)
LEMMA FirstTokens ==
    ASSUME NEW t \in Seq(Nat), NEW k \in 0..Len(t)
    PROVE  /\ SubSeq(t, 1, k) \in Seq(Nat) /\ Len(SubSeq(t, 1, k)) = k
           /\ \A i \in 1..k : SubSeq(t, 1, k)[i] = t[i]
  BY SubSeqProperties

LEMMA PrefixMeans ==
    ASSUME NEW s \in Seq(Nat), NEW t \in Seq(Nat)
    PROVE  IsPrefix(s, t) <=> Starts(s, t)
<1>1. SubSeq(s, 1, Len(s)) = s /\ Len(s) \in Nat /\ Len(t) \in Nat
  BY SubSeqFull
<1>2. CASE Len(s) <= Len(t)
  <2>1. Len(s) \in 0..Len(t)
    BY <1>1, <1>2
  <2>2. /\ SubSeq(t, 1, Len(s)) \in Seq(Nat) /\ Len(SubSeq(t, 1, Len(s))) = Len(s)
        /\ \A i \in 1..Len(s) : SubSeq(t, 1, Len(s))[i] = t[i]
    BY <2>1, FirstTokens
  <2>3. Starts(s, t) => s = SubSeq(t, 1, Len(s))
    BY <2>2, SeqEqual DEF Starts
  <2>4. s = SubSeq(t, 1, Len(s)) => Starts(s, t)
    BY <2>2, <1>2 DEF Starts
  <2> QED
    BY <2>3, <2>4, <1>1, <1>2 DEF IsPrefix
<1>3. CASE ~ (Len(s) <= Len(t))
  BY <1>3 DEF IsPrefix, Starts
<1> QED
  BY <1>2, <1>3

LEMMA StartsTransitive ==
    ASSUME NEW a \in Seq(Nat), NEW b \in Seq(Nat), NEW c \in Seq(Nat),
           Starts(a, b), Starts(b, c)
    PROVE  Starts(a, c)
<1>1. Len(a) \in Nat /\ Len(b) \in Nat /\ Len(c) \in Nat
  OBVIOUS
<1>2. \A i \in 1..Len(a) : i \in 1..Len(b)
  BY <1>1 DEF Starts
<1> QED
  BY <1>1, <1>2 DEF Starts

(* Of two that a sequence begins with, the longer begins with the shorter. *)
LEMMA StartsBoth ==
    ASSUME NEW a \in Seq(Nat), NEW b \in Seq(Nat), NEW c \in Seq(Nat),
           Starts(a, c), Starts(b, c), Len(a) <= Len(b)
    PROVE  Starts(a, b)
<1>1. Len(a) \in Nat /\ Len(b) \in Nat /\ Len(c) \in Nat
  OBVIOUS
<1>2. \A i \in 1..Len(a) : i \in 1..Len(b)
  BY <1>1
<1> QED
  BY <1>2 DEF Starts

LEMMA StartsEqual ==
    ASSUME NEW a \in Seq(Nat), NEW b \in Seq(Nat), Starts(a, b), Len(b) <= Len(a)
    PROVE  a = b
<1>1. Len(a) \in Nat /\ Len(b) \in Nat
  OBVIOUS
<1>2. Len(a) = Len(b)
  BY <1>1 DEF Starts
<1> QED
  BY <1>2, SeqEqual DEF Starts

(* What the first k tokens of a sequence begin with. *)
LEMMA StartsFirst ==
    ASSUME NEW a \in Seq(Nat), NEW t \in Seq(Nat), NEW k \in 0..Len(t)
    PROVE  Starts(a, SubSeq(t, 1, k)) <=> Starts(a, t) /\ Len(a) <= k
<1>1. /\ Len(SubSeq(t, 1, k)) = k
      /\ \A i \in 1..k : SubSeq(t, 1, k)[i] = t[i]
  BY FirstTokens
<1>2. Len(a) \in Nat /\ k \in Nat /\ Len(t) \in Nat /\ k <= Len(t)
  OBVIOUS
<1>3. CASE Len(a) <= k
  <2>1. \A i \in 1..Len(a) : i \in 1..k
    BY <1>2, <1>3
  <2> QED
    BY <1>1, <1>2, <1>3, <2>1 DEF Starts
<1>4. CASE ~ (Len(a) <= k)
  BY <1>1, <1>4 DEF Starts
<1> QED
  BY <1>3, <1>4

LEMMA StartsSelf == \A t \in Seq(Nat) : Starts(t, t) /\ Starts(<<>>, t)
  BY DEF Starts

-----------------------------------------------------------------------------
(* The tree. *)

(* The tokens that a node, or the root, stands for. *)
TokensOf(t, n) == IF n = Root THEN None ELSE t.prefix[n]

Trees ==
    [nodes : SUBSET Ids, parent : [Ids -> Ids \union {Root}], edge : [Ids -> Seq(Nat)],
     prefix : [Ids -> Seq(Nat)], rows : [Ids -> Seq(Nat)], used : [Ids -> Nat]]

(***************************************************************************)
(* The shape of a compressed trie: a node stands for the tokens of its     *)
(* parent and then those of its edge, and siblings part at once.           *)
(***************************************************************************)
Shape(t) ==
    /\ \A n \in t.nodes :
         /\ t.parent[n] \in t.nodes \union {Root}
         /\ t.edge[n] # None
         /\ t.prefix[n] = TokensOf(t, t.parent[n]) \o t.edge[n]
         /\ t.prefix[n] \in PromptPrefixes
    /\ \A m, n \in t.nodes :
         m # n /\ t.parent[m] = t.parent[n] => t.edge[m][1] # t.edge[n][1]

(* Snapshots are of full pages, on the nodes that stand for them. *)
Filled(t) ==
    \A n \in Ids :
        /\ t.rows[n] \in PagedPrefixes \union {None}
        /\ IF n \in t.nodes THEN t.rows[n] \in {None, t.prefix[n]} ELSE t.rows[n] = None

Tries == {t \in Trees : Shape(t) /\ Filled(t)}

(* A node is longer than its parent, and begins with it. *)
LEMMA NodeAndParent ==
    ASSUME NEW t \in Trees, Shape(t), NEW n \in t.nodes
    PROVE  LET p == TokensOf(t, t.parent[n])
               w == t.prefix[n]
           IN /\ n \in Ids /\ n # Root /\ t.parent[n] \in t.nodes \union {Root}
              /\ p \in Seq(Nat) /\ w \in Seq(Nat) /\ t.edge[n] \in Seq(Nat)
              /\ TokensOf(t, n) = w
              /\ Len(w) = Len(p) + Len(t.edge[n]) /\ Len(t.edge[n]) >= 1
              /\ Len(p) < Len(w)
              /\ Starts(p, w)
              /\ \A i \in 1..Len(t.edge[n]) : w[Len(p) + i] = t.edge[n][i]
<1> DEFINE p == TokensOf(t, t.parent[n])
           w == t.prefix[n]
           e == t.edge[n]
<1>1. n \in Ids /\ n # Root
  BY DEF Trees, Ids, Root
<1>2. t.parent[n] \in t.nodes \union {Root} /\ e # None /\ w = p \o e
  BY DEF Shape
<1>3. w \in Seq(Nat) /\ e \in Seq(Nat)
  BY <1>1 DEF Trees
<1>4. p \in Seq(Nat)
  BY <1>2 DEF TokensOf, Trees, None
<1>5. TokensOf(t, n) = w
  BY <1>1 DEF TokensOf
<1> HIDE DEF p, w, e
<1>6. Len(w) = Len(p) + Len(e)
  BY <1>2, <1>3, <1>4, ConcatProperties
<1>7. Len(e) \in Nat /\ Len(p) \in Nat /\ Len(e) >= 1
  BY <1>2, <1>3, <1>4 DEF None
<1>8. \A i \in 1..Len(p) : w[i] = p[i]
  BY <1>2, <1>3, <1>4, ConcatProperties
<1>9. \A i \in 1..Len(e) : w[Len(p) + i] = e[i]
  BY <1>2, <1>3, <1>4, ConcatProperties
<1>10. Len(p) < Len(w) /\ Starts(p, w)
  BY <1>6, <1>7, <1>8 DEF Starts
<1> QED
  BY <1>1, <1>2, <1>3, <1>4, <1>5, <1>6, <1>7, <1>9, <1>10 DEF p, w, e

LEMMA TokensType ==
    ASSUME NEW t \in Trees, NEW n \in t.nodes \union {Root}
    PROVE  TokensOf(t, n) \in Seq(Nat) /\ Len(TokensOf(t, n)) \in Nat
<1>1. n # Root => n \in Ids
  BY DEF Trees
<1>2. TokensOf(t, n) \in Seq(Nat)
  BY <1>1 DEF TokensOf, Trees, None
<1> QED
  BY <1>2

(***************************************************************************)
(* No node stands inside the edge of another: what comes before a node     *)
(* comes before its parent or is the parent.  By the least counterexample  *)
(* in the lengths of the two; its nodes would be siblings.                 *)
(***************************************************************************)
LEMMA NothingBetween ==
    ASSUME NEW t \in Trees, Shape(t)
    PROVE  \A m \in t.nodes \union {Root}, n \in t.nodes :
             m # n /\ Starts(TokensOf(t, m), TokensOf(t, n))
               => Starts(TokensOf(t, m), TokensOf(t, t.parent[n]))
<1> DEFINE all == t.nodes \union {Root}
           P(n) == TokensOf(t, n)
           Q(n) == TokensOf(t, t.parent[n])
           Bad(m, n) == m # n /\ Starts(P(m), P(n)) /\ ~ Starts(P(m), Q(n))
           T == {Len(P(x[1])) + Len(P(x[2])) : x \in {y \in all \X t.nodes : Bad(y[1], y[2])}}
<1>1. \A n \in all : P(n) \in Seq(Nat) /\ Len(P(n)) \in Nat
  BY TokensType
<1>2. \A n \in t.nodes :
        /\ n # Root /\ n \in all /\ t.parent[n] \in all
        /\ Q(n) = P(t.parent[n]) /\ P(n) = t.prefix[n]
        /\ Len(Q(n)) < Len(P(n)) /\ Starts(Q(n), P(n))
        /\ P(n)[Len(Q(n)) + 1] = t.edge[n][1]
  <2> SUFFICES ASSUME NEW n \in t.nodes
               PROVE  /\ n # Root /\ n \in all /\ t.parent[n] \in all
                      /\ Q(n) = P(t.parent[n]) /\ P(n) = t.prefix[n]
                      /\ Len(Q(n)) < Len(P(n)) /\ Starts(Q(n), P(n))
                      /\ P(n)[Len(Q(n)) + 1] = t.edge[n][1]
    OBVIOUS
  <2>1. /\ n # Root /\ t.parent[n] \in all /\ P(n) = t.prefix[n]
        /\ Len(Q(n)) < Len(P(n)) /\ Starts(Q(n), P(n))
        /\ t.edge[n] \in Seq(Nat) /\ Len(t.edge[n]) >= 1
        /\ \A i \in 1..Len(t.edge[n]) : t.prefix[n][Len(Q(n)) + i] = t.edge[n][i]
    BY NodeAndParent
  <2>2. 1 \in 1..Len(t.edge[n])
    BY <2>1
  <2> QED
    BY <2>1, <2>2
<1>3. P(Root) = <<>>
  BY DEF TokensOf, None
<1>4. \A m, n \in t.nodes : m # n /\ t.parent[m] = t.parent[n] => t.edge[m][1] # t.edge[n][1]
  BY DEF Shape
<1>5. \A m \in all, n \in t.nodes : Bad(m, n) => Len(P(m)) + Len(P(n)) \in T
  <2> SUFFICES ASSUME NEW m \in all, NEW n \in t.nodes, Bad(m, n)
               PROVE  Len(P(m)) + Len(P(n)) \in T
    OBVIOUS
  <2>1. <<m, n>> \in {y \in all \X t.nodes : Bad(y[1], y[2])}
    OBVIOUS
  <2> QED
    BY <2>1
<1>6. T \in SUBSET Nat
  BY <1>1, <1>2
<1>7. \A k \in T : \E m \in all, n \in t.nodes : Bad(m, n) /\ k = Len(P(m)) + Len(P(n))
  OBVIOUS
<1> HIDE DEF T, P, Q, all
<1>8. SUFFICES ASSUME T # {} PROVE FALSE
  BY <1>5 DEF P, Q, all
<1>9. PICK k \in T : \A j \in T : k <= j
  BY <1>6, <1>8, LeastNatural
<1>10. PICK m \in all, n \in t.nodes : Bad(m, n) /\ k = Len(P(m)) + Len(P(n))
  BY <1>7, <1>9
<1>11. ASSUME NEW a \in all, NEW b \in t.nodes, a # b, Starts(P(a), P(b)),
              Len(P(a)) + Len(P(b)) < Len(P(m)) + Len(P(n))
       PROVE  Starts(P(a), Q(b))
  <2> SUFFICES ASSUME Bad(a, b) PROVE FALSE
    BY <1>11
  <2>1. Len(P(a)) + Len(P(b)) \in T
    BY <1>5
  <2>2. k <= Len(P(a)) + Len(P(b))
    BY <2>1, <1>9
  <2> QED
    BY <2>2, <1>10, <1>11, <1>1, <1>2
<1>12. m # Root
  <2> SUFFICES ASSUME m = Root PROVE FALSE
    OBVIOUS
  <2>1. Q(n) \in Seq(Nat)
    BY <1>1, <1>2
  <2> QED
    BY <2>1, <1>3, <1>10, StartsSelf
<1>13. m \in t.nodes
  BY <1>12 DEF all
<1> DEFINE p == t.parent[m]
           q == t.parent[n]
<1>14. /\ p \in all /\ q \in all /\ Q(m) = P(p) /\ Q(n) = P(q)
       /\ Len(P(p)) < Len(P(m)) /\ Len(P(q)) < Len(P(n))
       /\ Starts(P(p), P(m)) /\ Starts(P(q), P(n))
       /\ P(m)[Len(P(p)) + 1] = t.edge[m][1] /\ P(n)[Len(P(q)) + 1] = t.edge[n][1]
       /\ n \in all
  BY <1>2, <1>13
<1>15. /\ P(m) \in Seq(Nat) /\ P(n) \in Seq(Nat) /\ P(p) \in Seq(Nat) /\ P(q) \in Seq(Nat)
       /\ Len(P(m)) \in Nat /\ Len(P(n)) \in Nat /\ Len(P(p)) \in Nat /\ Len(P(q)) \in Nat
  BY <1>1, <1>14
<1>16. Starts(P(m), P(n)) /\ ~ Starts(P(m), P(q)) /\ m # n
  BY <1>10, <1>14
<1>17. Len(P(m)) <= Len(P(n))
  BY <1>16 DEF Starts
<1>18. Len(P(q)) < Len(P(m)) /\ Starts(P(q), P(m))
  <2>1. ~ (Len(P(m)) <= Len(P(q)))
    BY <1>14, <1>15, <1>16, StartsBoth
  <2>2. Len(P(q)) < Len(P(m))
    BY <2>1, <1>15
  <2> QED
    BY <2>2, <1>14, <1>15, <1>16, StartsBoth
<1>19. Starts(P(q), P(p))
  <2>1. q # m
    BY <1>18, <1>15
  <2>2. Len(P(q)) + Len(P(m)) < Len(P(m)) + Len(P(n))
    BY <1>14, <1>15
  <2> QED
    BY <2>1, <2>2, <1>11, <1>13, <1>14, <1>18
<1>20. Starts(P(p), P(q))
  <2>1. Starts(P(p), P(n))
    BY <1>14, <1>15, <1>16, StartsTransitive
  <2>2. p # n
    BY <1>14, <1>15, <1>17
  <2>3. Len(P(p)) + Len(P(n)) < Len(P(m)) + Len(P(n))
    BY <1>14, <1>15
  <2> QED
    BY <2>1, <2>2, <2>3, <1>11, <1>14
<1>21. P(p) = P(q) /\ Len(P(p)) = Len(P(q))
  <2>1. Len(P(q)) <= Len(P(p))
    BY <1>19 DEF Starts
  <2> QED
    BY <2>1, <1>15, <1>20, StartsEqual
<1>22. p = q
  <2> SUFFICES ASSUME p # q PROVE FALSE
    OBVIOUS
  <2>1. ASSUME NEW a \in all, NEW b \in t.nodes, a # b, P(a) = P(b),
               Len(P(a)) + Len(P(b)) < Len(P(m)) + Len(P(n))
        PROVE  FALSE
    <3>1. Starts(P(a), P(b))
      BY <2>1, <1>1, StartsSelf
    <3>2. Starts(P(a), Q(b))
      BY <3>1, <2>1, <1>11
    <3>3. Len(P(a)) <= Len(Q(b)) /\ Len(Q(b)) < Len(P(b)) /\ Q(b) = P(t.parent[b])
      BY <3>2, <1>2 DEF Starts
    <3>4. Len(P(a)) = Len(P(b)) /\ Len(P(b)) \in Nat /\ Len(Q(b)) \in Nat
      BY <2>1, <1>1, <1>2
    <3> QED
      BY <3>3, <3>4
  <2>2. /\ Len(P(p)) + Len(P(q)) < Len(P(m)) + Len(P(n))
        /\ Len(P(q)) + Len(P(p)) < Len(P(m)) + Len(P(n))
    BY <1>14, <1>15
  <2>3. p \in t.nodes \/ q \in t.nodes
    BY <1>14 DEF all
  <2> QED
    BY <2>1, <2>2, <2>3, <1>14, <1>21
<1>23. t.edge[m][1] = t.edge[n][1]
  <2>1. Len(P(p)) + 1 \in 1..Len(P(m))
    BY <1>14, <1>15
  <2>2. P(m)[Len(P(p)) + 1] = P(n)[Len(P(p)) + 1]
    BY <2>1, <1>16 DEF Starts
  <2> QED
    BY <2>2, <1>14, <1>21
<1> QED
  BY <1>4, <1>13, <1>16, <1>22, <1>23

(* Different nodes stand for different tokens, and none for no token. *)
LEMMA NodesDiffer ==
    ASSUME NEW t \in Trees, Shape(t), NEW m \in t.nodes \union {Root},
           NEW n \in t.nodes \union {Root}, TokensOf(t, m) = TokensOf(t, n)
    PROVE  m = n
<1>1. ASSUME NEW a \in t.nodes \union {Root}, NEW b \in t.nodes, a # b,
             TokensOf(t, a) = TokensOf(t, b)
      PROVE  FALSE
  <2>1. TokensOf(t, a) \in Seq(Nat) /\ Len(TokensOf(t, a)) \in Nat
    BY TokensType
  <2>2. Starts(TokensOf(t, a), TokensOf(t, b))
    BY <2>1, <1>1, StartsSelf
  <2>3. Starts(TokensOf(t, a), TokensOf(t, t.parent[b]))
    BY <2>2, <1>1, NothingBetween
  <2>4. /\ Len(TokensOf(t, t.parent[b])) < Len(TokensOf(t, b))
        /\ t.parent[b] \in t.nodes \union {Root}
    BY NodeAndParent
  <2>5. Len(TokensOf(t, t.parent[b])) \in Nat
    BY <2>4, TokensType
  <2>6. Len(TokensOf(t, a)) <= Len(TokensOf(t, t.parent[b]))
    BY <2>3 DEF Starts
  <2> QED
    BY <2>1, <2>4, <2>5, <2>6, <1>1
<1> QED
  BY <1>1

LEMMA ConcatThree ==
    ASSUME NEW a \in Seq(Nat), NEW b \in Seq(Nat), NEW c \in Seq(Nat)
    PROVE  (a \o b) \o c = a \o (b \o c)
  BY ConcatAssociative

(* The path that the edges spell is what the node stands for. *)
LEMMA PathIs ==
    ASSUME NEW t \in Trees, Shape(t), NEW n \in t.nodes \union {Root}
    PROVE  Path(t, n) = TokensOf(t, n)
<1> DEFINE all == t.nodes \union {Root}
           g == [m \in all |-> TokensOf(t, m)]
           Solves(f) == f = [m \in all |-> IF m = Root THEN <<>>
                                           ELSE f[t.parent[m]] \o t.edge[m]]
           f == CHOOSE h : Solves(h)
<1>1. ASSUME NEW m \in t.nodes
      PROVE  /\ m # Root /\ t.parent[m] \in all /\ TokensOf(t, m) = t.prefix[m]
             /\ t.prefix[m] = TokensOf(t, t.parent[m]) \o t.edge[m]
             /\ Len(TokensOf(t, t.parent[m])) < Len(TokensOf(t, m))
             /\ Len(TokensOf(t, m)) \in Nat
  <2>1. m \in all
    OBVIOUS
  <2> QED
    BY <2>1, NodeAndParent, TokensType DEF Shape
<1>2. Solves(g)
  <2>1. ASSUME NEW m \in all
        PROVE  TokensOf(t, m) = IF m = Root THEN <<>> ELSE g[t.parent[m]] \o t.edge[m]
    <3>1. CASE m = Root
      BY <3>1 DEF TokensOf, None
    <3>2. CASE m # Root
      BY <3>2, <1>1
    <3> QED
      BY <3>1, <3>2
  <2> QED
    BY <2>1
<1>3. Path(t, n) = f[n]
  BY DEF Path
<1> HIDE DEF g
<1>4. Solves(f)
  BY <1>2
<1> HIDE DEF f
<1>5. \A m \in all : f[m] = IF m = Root THEN <<>> ELSE f[t.parent[m]] \o t.edge[m]
  BY <1>4
<1> DEFINE T == {Len(TokensOf(t, m)) : m \in {x \in all : f[x] # TokensOf(t, x)}}
<1>6. SUFFICES ASSUME T # {} PROVE FALSE
  BY <1>3
<1>7. T \in SUBSET Nat
  BY TokensType
<1>8. PICK m \in all : f[m] # TokensOf(t, m) /\ \A k \in T : Len(TokensOf(t, m)) <= k
  <2>1. PICK k \in T : \A j \in T : k <= j
    BY <1>6, <1>7, LeastNatural
  <2> QED
    BY <2>1
<1>9. m # Root
  BY <1>5, <1>8 DEF TokensOf, None
<1>10. t.parent[m] \in all /\ f[t.parent[m]] = TokensOf(t, t.parent[m])
  <2>1. m \in t.nodes
    BY <1>9
  <2>2. /\ t.parent[m] \in all
        /\ Len(TokensOf(t, t.parent[m])) < Len(TokensOf(t, m))
        /\ Len(TokensOf(t, m)) \in Nat
    BY <2>1, <1>1
  <2>3. Len(TokensOf(t, t.parent[m])) \in Nat
    BY <2>2, TokensType
  <2>4. Len(TokensOf(t, t.parent[m])) \notin T
    BY <2>2, <2>3, <1>8
  <2> QED
    BY <2>2, <2>4
<1>11. f[m] = TokensOf(t, m)
  BY <1>1, <1>5, <1>9, <1>10
<1> QED
  BY <1>8, <1>11

(* The walk along tokens comes to the nodes whose tokens they begin with. *)
LEMMA VisitedMembers ==
    ASSUME NEW t \in Trees, Shape(t), NEW s \in Seq(Nat), NEW n
    PROVE  n \in Visited(t, s) <=> n \in t.nodes \union {Root} /\ Starts(TokensOf(t, n), s)
<1>1. ASSUME n \in t.nodes \union {Root}
      PROVE  IsPrefix(Path(t, n), s) <=> Starts(TokensOf(t, n), s)
  <2>1. Path(t, n) = TokensOf(t, n) /\ TokensOf(t, n) \in Seq(Nat)
    BY <1>1, PathIs, TokensType
  <2> QED
    BY <2>1, PrefixMeans
<1> QED
  BY <1>1 DEF Visited

(* Of nodes that one walk comes to there is a last one. *)
LEMMA DeepestMember ==
    ASSUME NEW t \in Trees, Shape(t), NEW b \in Nat,
           NEW ns \in SUBSET (t.nodes \union {Root}), ns # {},
           \A n \in ns : Len(TokensOf(t, n)) <= b
    PROVE  /\ Deepest(t, ns) \in ns
           /\ \A n \in ns : Len(TokensOf(t, n)) <= Len(TokensOf(t, Deepest(t, ns)))
<1> DEFINE T == {Len(TokensOf(t, n)) : n \in ns}
<1>1. \A n \in ns : Path(t, n) = TokensOf(t, n)
  BY PathIs
<1>2. T \in SUBSET (0..b) /\ T # {}
  <2>1. \A n \in ns : Len(TokensOf(t, n)) \in 0..b
    BY TokensType
  <2> QED
    BY <2>1
<1>3. Max(T) \in T /\ \A k \in T : k <= Max(T)
  BY <1>2, MaxOfBounded
<1>4. PICK d \in ns : Max(T) = Len(TokensOf(t, d))
  BY <1>3
<1>5. \A n \in ns : Len(TokensOf(t, n)) <= Len(TokensOf(t, d))
  BY <1>3, <1>4
<1>6. \E x \in ns : \A y \in ns : Len(Path(t, y)) <= Len(Path(t, x))
  BY <1>1, <1>5
<1>7. /\ Deepest(t, ns) \in ns
      /\ \A y \in ns : Len(Path(t, y)) <= Len(Path(t, Deepest(t, ns)))
  BY <1>6 DEF Deepest
<1> QED
  BY <1>1, <1>7

-----------------------------------------------------------------------------
(* Prefixes of the prompts, and numbers for their nodes. *)

LEMMA PromptPrefix ==
    ASSUME NEW t \in Prompts, NEW k \in 1..Len(t)
    PROVE  SubSeq(t, 1, k) \in PromptPrefixes /\ t \in Seq(Nat)
<1>1. t \in Seq(Nat)
  BY PromptsAssumption
<1>2. k \in 0..Len(t) /\ k # 0
  BY <1>1
<1>3. Len(SubSeq(t, 1, k)) = k
  BY <1>1, <1>2, FirstTokens
<1>4. SubSeq(t, 1, k) # None
  BY <1>2, <1>3 DEF None
<1>5. SubSeq(t, 1, k) \in Prefixes(t)
  BY <1>2 DEF Prefixes
<1> QED
  BY <1>1, <1>4, <1>5 DEF PromptPrefixes

LEMMA PromptPrefixOf ==
    ASSUME NEW w \in PromptPrefixes
    PROVE  /\ w \in Seq(Nat) /\ Len(w) \in Nat /\ Len(w) >= 1
           /\ \E t \in Prompts : Len(w) \in 1..Len(t) /\ w = SubSeq(t, 1, Len(w))
<1>1. PICK t \in Prompts : w \in Prefixes(t) /\ w # None
  BY DEF PromptPrefixes
<1>2. PICK k \in 0..Len(t) : w = SubSeq(t, 1, k)
  BY <1>1 DEF Prefixes
<1>3. t \in Seq(Nat)
  BY PromptsAssumption
<1>4. w \in Seq(Nat) /\ Len(w) = k
  BY <1>2, <1>3, FirstTokens
<1>5. k # 0
  BY <1>1, <1>4 DEF None
<1> QED
  BY <1>2, <1>3, <1>4, <1>5

(* What a prefix of a prompt begins with is one. *)
LEMMA PrefixOfPrefix ==
    ASSUME NEW w \in PromptPrefixes, NEW v \in Seq(Nat), v # <<>>, Starts(v, w)
    PROVE  v \in PromptPrefixes
<1>1. PICK t \in Prompts : Len(w) \in 1..Len(t) /\ w = SubSeq(t, 1, Len(w))
  BY PromptPrefixOf
<1>2. t \in Seq(Nat) /\ w \in Seq(Nat)
  BY PromptsAssumption, PromptPrefixOf
<1>3. Starts(v, t) /\ Len(v) \in 1..Len(t)
  <2>1. Len(w) \in 0..Len(t)
    BY <1>1, <1>2
  <2>2. Starts(v, t) /\ Len(v) <= Len(w)
    BY <2>1, <1>1, <1>2, StartsFirst DEF Starts
  <2> QED
    BY <2>1, <2>2, <1>2
<1>4. SubSeq(t, 1, Len(v)) \in Seq(Nat) /\ v = SubSeq(t, 1, Len(v))
  <2>1. Len(v) \in 0..Len(t)
    BY <1>2, <1>3
  <2>2. /\ SubSeq(t, 1, Len(v)) \in Seq(Nat) /\ Len(SubSeq(t, 1, Len(v))) = Len(v)
        /\ \A i \in 1..Len(v) : SubSeq(t, 1, Len(v))[i] = t[i]
    BY <2>1, <1>2, FirstTokens
  <2> QED
    BY <2>2, <1>3, SeqEqual DEF Starts
<1> QED
  BY <1>3, <1>4, PromptPrefix

LEMMA PromptPrefixesFinite == IsFiniteSet(PromptPrefixes)
<1>1. ASSUME NEW t \in Prompts PROVE IsFiniteSet(Prefixes(t))
  <2> DEFINE f == [k \in 0..Len(t) |-> SubSeq(t, 1, k)]
  <2>1. IsFiniteSet(0..Len(t))
    BY PromptsAssumption, FS_Interval
  <2>2. f \in Surjection(0..Len(t), Prefixes(t))
    BY DEF Surjection, Prefixes
  <2> QED
    BY <2>1, <2>2, FS_Surjection
<1>2. IsFiniteSet({Prefixes(t) : t \in Prompts})
  <2> DEFINE g == [t \in Prompts |-> Prefixes(t)]
  <2>1. g \in Surjection(Prompts, {Prefixes(t) : t \in Prompts})
    BY DEF Surjection
  <2> QED
    BY <2>1, PromptsAssumption, FS_Surjection
<1>3. IsFiniteSet(UNION {Prefixes(t) : t \in Prompts})
  BY <1>1, <1>2, FS_UNION
<1> QED
  BY <1>3, FS_Subset DEF PromptPrefixes

LEMMA IdsFinite ==
    /\ IsFiniteSet(Ids) /\ Cardinality(Ids) = MaxNodes /\ Root \notin Ids
    /\ \A S \in SUBSET Ids : IsFiniteSet(S) /\ Cardinality(S) \in Nat /\ Cardinality(S) <= MaxNodes
<1>1. MaxNodes \in Nat
  BY NodesAssumption
<1>2. IsFiniteSet(Ids) /\ Cardinality(Ids) = MaxNodes /\ Root \notin Ids
  <2>1. IsFiniteSet(1..MaxNodes) /\ Cardinality(1..MaxNodes) = MaxNodes
    BY <1>1, FS_Interval
  <2> QED
    BY <2>1 DEF Ids, Root
<1>3. ASSUME NEW S \in SUBSET Ids
      PROVE  IsFiniteSet(S) /\ Cardinality(S) \in Nat /\ Cardinality(S) <= MaxNodes
  BY <1>2, FS_Subset, FS_CardinalityType
<1> QED
  BY <1>2, <1>3

(***************************************************************************)
(* There is a number for the node of a prefix that has none: the nodes     *)
(* stand for different prefixes.                                           *)
(***************************************************************************)
LEMMA FreshId ==
    ASSUME NEW t \in Trees, Shape(t), NEW w \in PromptPrefixes,
           \A n \in t.nodes : t.prefix[n] # w
    PROVE  NewId(t) \in Ids /\ NewId(t) \notin t.nodes
<1> DEFINE rest == PromptPrefixes \ {w}
           f == [n \in t.nodes |-> t.prefix[n]]
<1>1. IsFiniteSet(PromptPrefixes) /\ Cardinality(PromptPrefixes) \in Nat
  BY PromptPrefixesFinite, FS_CardinalityType
<1>2. IsFiniteSet(rest) /\ Cardinality(rest) = Cardinality(PromptPrefixes) - 1
  BY <1>1, FS_RemoveElement
<1>3. t.nodes \subseteq Ids
  BY DEF Trees
<1>4. f \in Injection(t.nodes, rest)
  <2>1. f \in [t.nodes -> rest]
    BY DEF Shape
  <2>2. ASSUME NEW m \in t.nodes, NEW n \in t.nodes, f[m] = f[n] PROVE m = n
    <3>1. m # Root /\ n # Root
      BY <1>3 DEF Ids, Root
    <3>2. TokensOf(t, m) = TokensOf(t, n)
      BY <2>2, <3>1 DEF TokensOf
    <3> QED
      BY <3>2, NodesDiffer
  <2> HIDE DEF f
  <2> QED
    BY <2>1, <2>2 DEF Injection, IsInjective
<1>5. Cardinality(t.nodes) <= Cardinality(rest)
  <2> HIDE DEF f, rest
  <2> QED
    BY <1>2, <1>4, FS_Injection
<1>6. Ids \ t.nodes # {}
  <2> SUFFICES ASSUME Ids \ t.nodes = {} PROVE FALSE
    OBVIOUS
  <2>1. t.nodes = Ids
    BY <1>3
  <2>2. Cardinality(t.nodes) = MaxNodes /\ MaxNodes \in Nat
    BY <2>1, IdsFinite, NodesAssumption
  <2> QED
    BY <2>2, <1>1, <1>2, <1>5, NodesAssumption
<1>7. Ids \ t.nodes \in SUBSET Nat
  BY DEF Ids
<1> QED
  BY <1>6, <1>7, MinOfNaturals DEF NewId

-----------------------------------------------------------------------------
(* _insert_prefix *)

(* v is t with the node n and its fields. *)
Added(t, v, n, p, e, w) ==
    /\ v \in Trees /\ v.nodes = t.nodes \union {n}
    /\ v.rows = t.rows /\ v.used = t.used
    /\ \A m \in Ids :
         /\ v.parent[m] = IF m = n THEN p ELSE t.parent[m]
         /\ v.edge[m] = IF m = n THEN e ELSE t.edge[m]
         /\ v.prefix[m] = IF m = n THEN w ELSE t.prefix[m]

LEMMA NewNodeFields ==
    ASSUME NEW t \in Trees, NewId(t) \in Ids, NEW p \in Ids \union {Root},
           NEW e \in Seq(Nat), NEW w \in Seq(Nat)
    PROVE  Added(t, NewNode(t, p, e, w), NewId(t), p, e, w)
<1> DEFINE n == NewId(t)
<1> HIDE DEF n
<1>1. n \in Ids
  BY DEF n
<1>2. NewNode(t, p, e, w) =
        [t EXCEPT !.nodes = t.nodes \union {n}, !.parent[n] = p,
                  !.edge[n] = e, !.prefix[n] = w]
  BY DEF NewNode, n
<1>3. /\ t.parent \in [Ids -> Ids \union {Root}] /\ t.edge \in [Ids -> Seq(Nat)]
      /\ t.prefix \in [Ids -> Seq(Nat)] /\ t.nodes \in SUBSET Ids
      /\ t.rows \in [Ids -> Seq(Nat)] /\ t.used \in [Ids -> Nat]
  BY DEF Trees
<1> DEFINE v == NewNode(t, p, e, w)
<1>4. /\ v.nodes = t.nodes \union {n} /\ v.rows = t.rows /\ v.used = t.used
      /\ v.parent = [t.parent EXCEPT ![n] = p] /\ v.edge = [t.edge EXCEPT ![n] = e]
      /\ v.prefix = [t.prefix EXCEPT ![n] = w]
      /\ v = [nodes |-> v.nodes, parent |-> v.parent, edge |-> v.edge,
              prefix |-> v.prefix, rows |-> v.rows, used |-> v.used]
  BY <1>2 DEF Trees
<1> HIDE DEF v
<1>5. v \in Trees
  <2>1. /\ v.nodes \in SUBSET Ids /\ v.rows \in [Ids -> Seq(Nat)] /\ v.used \in [Ids -> Nat]
        /\ v.parent \in [Ids -> Ids \union {Root}]
        /\ v.edge \in [Ids -> Seq(Nat)] /\ v.prefix \in [Ids -> Seq(Nat)]
    BY <1>1, <1>3, <1>4
  <2> QED
    BY <2>1, <1>4 DEF Trees
<1>6. \A m \in Ids :
        /\ v.parent[m] = IF m = n THEN p ELSE t.parent[m]
        /\ v.edge[m] = IF m = n THEN e ELSE t.edge[m]
        /\ v.prefix[m] = IF m = n THEN w ELSE t.prefix[m]
  BY <1>1, <1>3, <1>4
<1> QED
  BY <1>4, <1>5, <1>6 DEF v, n, Added

(* What an insertion leaves as it was. *)
Grown(t, v) ==
    /\ v \in Tries /\ t.nodes \subseteq v.nodes
    /\ v.rows = t.rows
    /\ \A m \in t.nodes : v.prefix[m] = t.prefix[m]

Bare(t) == {n \in t.nodes : t.rows[n] = None /\ Children(t, n) = {}}

(* v is t with a node n for the tokens w, and no new bare leaf but n. *)
Gains(t, v, n, w) ==
    /\ Grown(t, v)
    /\ n \in v.nodes /\ v.prefix[n] = w
    /\ \A m \in Bare(v) : m \in Bare(t) \/ v.prefix[m] = w

(* A leaf or a branch is added below a node that has none for its token. *)
LEMMA NewNodeGrows ==
    ASSUME NEW t \in Tries, NEW p \in t.nodes \union {Root}, NEW e \in Seq(Nat),
           e # <<>>, NEW w \in PromptPrefixes, w = TokensOf(t, p) \o e,
           \A m \in t.nodes : t.prefix[m] # w,
           \A m \in t.nodes : t.parent[m] = p => t.edge[m][1] # e[1]
    PROVE  Gains(t, NewNode(t, p, e, w), NewId(t), w)
<1> DEFINE n == NewId(t)
           v == NewNode(t, p, e, w)
<1>1. t \in Trees /\ Shape(t) /\ Filled(t) /\ t.nodes \subseteq Ids
  BY DEF Tries, Trees
<1>2. n \in Ids /\ n \notin t.nodes /\ n # Root
  BY <1>1, FreshId, IdsFinite
<1>3. w \in Seq(Nat) /\ p \in Ids \union {Root} /\ e \in Seq(Nat)
  BY <1>1, PromptPrefixOf
<1>4. /\ v \in Trees /\ v.nodes = t.nodes \union {n}
      /\ v.rows = t.rows /\ v.used = t.used
      /\ \A m \in Ids :
           /\ v.parent[m] = IF m = n THEN p ELSE t.parent[m]
           /\ v.edge[m] = IF m = n THEN e ELSE t.edge[m]
           /\ v.prefix[m] = IF m = n THEN w ELSE t.prefix[m]
  <2>1. Added(t, v, n, p, e, w)
    BY <1>1, <1>2, <1>3, NewNodeFields
  <2> QED
    BY <2>1 DEF Added
<1> HIDE DEF v, n
<1>5. \A m \in t.nodes : /\ m \in Ids /\ m # n /\ v.parent[m] = t.parent[m]
                         /\ v.edge[m] = t.edge[m] /\ v.prefix[m] = t.prefix[m]
  BY <1>1, <1>2, <1>4
<1>6. v.parent[n] = p /\ v.edge[n] = e /\ v.prefix[n] = w
  BY <1>2, <1>4
<1>7. \A m \in t.nodes \union {Root} : TokensOf(v, m) = TokensOf(t, m)
  BY <1>5 DEF TokensOf
<1>8. Shape(v)
  <2>1. ASSUME NEW m \in v.nodes
        PROVE  /\ v.parent[m] \in v.nodes \union {Root}
               /\ v.edge[m] # None
               /\ v.prefix[m] = TokensOf(v, v.parent[m]) \o v.edge[m]
               /\ v.prefix[m] \in PromptPrefixes
    <3>1. CASE m = n
      BY <3>1, <1>4, <1>6, <1>7 DEF None
    <3>2. CASE m \in t.nodes
      <4>1. /\ t.parent[m] \in t.nodes \union {Root}
            /\ t.edge[m] # None
            /\ t.prefix[m] = TokensOf(t, t.parent[m]) \o t.edge[m]
            /\ t.prefix[m] \in PromptPrefixes
        BY <3>2, <1>1 DEF Shape
      <4> QED
        BY <4>1, <3>2, <1>4, <1>5, <1>7
    <3> QED
      BY <3>1, <3>2, <1>4
  <2>2. ASSUME NEW m \in v.nodes, NEW k \in v.nodes, m # k, v.parent[m] = v.parent[k]
        PROVE  v.edge[m][1] # v.edge[k][1]
    <3>1. CASE m = n
      BY <3>1, <2>2, <1>4, <1>5, <1>6
    <3>2. CASE k = n
      BY <3>2, <2>2, <1>4, <1>5, <1>6
    <3>3. CASE m \in t.nodes /\ k \in t.nodes
      <4>1. t.parent[m] = t.parent[k] /\ v.edge[m] = t.edge[m] /\ v.edge[k] = t.edge[k]
        BY <3>3, <2>2, <1>5
      <4>2. t.edge[m][1] # t.edge[k][1]
        BY <3>3, <4>1, <2>2, <1>1 DEF Shape
      <4> QED
        BY <4>1, <4>2
    <3> QED
      BY <3>1, <3>2, <3>3, <1>4
  <2> QED
    BY <2>1, <2>2 DEF Shape
<1>9. Filled(v)
  BY <1>1, <1>2, <1>4, <1>5 DEF Filled
<1>10. Grown(t, v)
  BY <1>4, <1>5, <1>8, <1>9 DEF Grown, Tries
<1>11. ASSUME NEW m \in Bare(v) PROVE m \in Bare(t) \/ v.prefix[m] = w
  <2>1. m \in v.nodes /\ v.rows[m] = None /\ Children(v, m) = {}
    BY DEF Bare
  <2>2. CASE m \in t.nodes
    <3>1. ASSUME NEW c \in Children(t, m) PROVE FALSE
      <4>1. c \in t.nodes /\ t.parent[c] = m
        BY DEF Children
      <4>2. c \in Children(v, m)
        BY <4>1, <1>4, <1>5 DEF Children
      <4> QED
        BY <4>2, <2>1
    <3> QED
      BY <3>1, <2>1, <2>2, <1>4 DEF Bare
  <2> QED
    BY <2>1, <2>2, <1>4, <1>6
<1> QED
  BY <1>4, <1>6, <1>10, <1>11 DEF v, n, Gains

(* v is t with the edge of c split after k tokens, at s that stands for w. *)
SplitAt(t, v, c, k, s, w) ==
    /\ Grown(t, v)
    /\ v.nodes = t.nodes \union {s} /\ v.prefix[s] = w /\ s # Root
    /\ Len(w) = Len(TokensOf(t, t.parent[c])) + k
    /\ Starts(w, t.prefix[c])
    /\ \A m \in v.nodes : v.parent[m] = s => m = c
    /\ v.edge[c][1] = t.edge[c][k + 1]
    /\ Bare(v) \subseteq Bare(t)

(***************************************************************************)
(* The edge of a child is split inside: the new node takes its place, and  *)
(* it keeps what is left of its edge.                                      *)
(***************************************************************************)
LEMMA SplitGrows ==
    ASSUME NEW t \in Tries, NEW c \in t.nodes, NEW k \in 1..(Len(t.edge[c]) - 1)
    PROVE  SplitAt(t, Split(t, c, k), c, k, NewId(t),
                   TokensOf(t, t.parent[c]) \o SubSeq(t.edge[c], 1, k))
<1> DEFINE s == NewId(t)
           p == t.parent[c]
           e == t.edge[c]
           a == SubSeq(e, 1, k)
           b == From(e, k)
           P == TokensOf(t, p)
           w == P \o a
           v == Split(t, c, k)
<1>1. t \in Trees /\ Shape(t) /\ Filled(t) /\ t.nodes \subseteq Ids
  BY DEF Tries, Trees
<1>2. /\ c \in Ids /\ c # Root /\ p \in t.nodes \union {Root}
      /\ P \in Seq(Nat) /\ e \in Seq(Nat) /\ Len(P) \in Nat
      /\ Len(t.prefix[c]) = Len(P) + Len(e)
      /\ t.prefix[c] = P \o e
      /\ t.prefix[c] \in Seq(Nat) /\ t.prefix[c] \in PromptPrefixes
      /\ Starts(P, t.prefix[c])
      /\ \A i \in 1..Len(e) : t.prefix[c][Len(P) + i] = e[i]
  <2>1. t.prefix[c] = P \o e /\ t.prefix[c] \in PromptPrefixes
    BY <1>1 DEF Shape
  <2>2. /\ c \in Ids /\ c # Root /\ p \in t.nodes \union {Root}
        /\ P \in Seq(Nat) /\ t.prefix[c] \in Seq(Nat) /\ e \in Seq(Nat)
        /\ Len(t.prefix[c]) = Len(P) + Len(e)
        /\ Starts(P, t.prefix[c])
        /\ \A i \in 1..Len(e) : t.prefix[c][Len(P) + i] = e[i]
    BY <1>1, NodeAndParent, Zenon
  <2> HIDE DEF P, e, p
  <2>3. Len(P) \in Nat
    BY <2>2
  <2> QED
    BY <2>1, <2>2, <2>3
<1>3. Len(e) \in Nat /\ k \in 1..Len(e) /\ k \in 0..Len(e) /\ k + 1 \in 1..Len(e) /\ k < Len(e)
  BY <1>2
<1> HIDE DEF e, P, p
<1>4. /\ a \in Seq(Nat) /\ Len(a) = k /\ \A i \in 1..k : a[i] = e[i]
  BY <1>2, <1>3, FirstTokens
<1>5. /\ b \in Seq(Nat) /\ Len(b) = Len(e) - k
      /\ \A i \in 1..(Len(e) - k) : b[i] = e[k + i]
  <2>1. \A i \in (k + 1)..Len(e) : e[i] \in Nat
    BY <1>2, <1>3, ElementOfSeq
  <2> QED
    BY <2>1, <1>3, SubSeqProperties DEF From
<1>6. a \o b = e
  <2>1. SubSeq(e, 1, k) \o SubSeq(e, k + 1, Len(e)) = SubSeq(e, 1, Len(e))
    BY <1>2, <1>3, ConcatAdjacentSubSeq
  <2>2. SubSeq(e, 1, Len(e)) = e
    BY <1>2, SubSeqFull
  <2> QED
    BY <2>1, <2>2 DEF From
<1> HIDE DEF a, b, e, P, p
<1>7. /\ w \in Seq(Nat) /\ Len(w) = Len(P) + k
      /\ \A i \in 1..Len(P) : w[i] = P[i]
      /\ \A i \in 1..k : w[Len(P) + i] = a[i]
  <2>1. w \in Seq(Nat) /\ Len(w) = Len(P) + Len(a)
    BY <1>2, <1>4, ConcatProperties
  <2>2. \A i \in 1..Len(P) : w[i] = P[i]
    BY <1>2, <1>4, ConcatProperties
  <2>3. \A i \in 1..Len(a) : w[Len(P) + i] = a[i]
    BY <1>2, <1>4, ConcatProperties
  <2> QED
    BY <2>1, <2>2, <2>3, <1>4
<1> HIDE DEF w
<1>8. Starts(w, t.prefix[c]) /\ w # <<>> /\ Len(w) < Len(t.prefix[c])
  <2>1. ASSUME NEW i \in 1..Len(w) PROVE w[i] = t.prefix[c][i]
    <3>1. CASE i \in 1..Len(P)
      BY <3>1, <1>2, <1>7 DEF Starts
    <3>2. CASE i \notin 1..Len(P)
      <4>1. i - Len(P) \in 1..k /\ i = Len(P) + (i - Len(P))
        BY <3>2, <1>2, <1>3, <1>7
      <4>2. w[Len(P) + (i - Len(P))] = a[i - Len(P)]
        BY <4>1, <1>7
      <4>3. a[i - Len(P)] = e[i - Len(P)] /\ i - Len(P) \in 1..Len(e)
        BY <4>1, <1>3, <1>4
      <4>4. t.prefix[c][Len(P) + (i - Len(P))] = e[i - Len(P)]
        BY <4>3, <1>2
      <4> QED
        BY <4>1, <4>2, <4>3, <4>4
    <3> QED
      BY <3>1, <3>2
  <2>2. Len(w) < Len(t.prefix[c]) /\ Len(w) # 0
    <3>1. /\ Len(w) = Len(P) + k /\ Len(t.prefix[c]) = Len(P) + Len(e)
          /\ Len(P) \in Nat /\ Len(e) \in Nat
      BY <1>2, <1>3, <1>7
    <3>2. k \in Nat /\ 1 <= k /\ k < Len(e)
      BY <1>2, <1>3, <3>1
    <3> QED
      BY <3>1, <3>2
  <2> QED
    BY <2>1, <2>2, <1>2, <1>7 DEF Starts
<1>9. w \in PromptPrefixes
  BY <1>2, <1>7, <1>8, PrefixOfPrefix
<1>10. \A m \in t.nodes : t.prefix[m] # w
  <2> SUFFICES ASSUME NEW m \in t.nodes, t.prefix[m] = w PROVE FALSE
    OBVIOUS
  <2>1. m # Root /\ TokensOf(t, m) = w /\ TokensOf(t, c) = t.prefix[c]
    BY <1>1, <1>2, IdsFinite DEF TokensOf
  <2>2. m # c
    BY <1>8, <1>7, <1>2
  <2>3. Starts(w, P)
    BY <2>1, <2>2, <1>1, <1>8, NothingBetween DEF P, p
  <2> QED
    BY <2>3, <1>2, <1>3, <1>7 DEF Starts
<1>11. s \in Ids /\ s \notin t.nodes /\ s # Root /\ s # c
  BY <1>1, <1>9, <1>10, FreshId, IdsFinite
<1>12. /\ v \in Trees /\ v.nodes = t.nodes \union {s}
       /\ v.rows = t.rows /\ v.used = t.used
       /\ \A m \in Ids :
            /\ v.parent[m] = IF m = c THEN s ELSE IF m = s THEN p ELSE t.parent[m]
            /\ v.edge[m] = IF m = c THEN b ELSE IF m = s THEN a ELSE t.edge[m]
            /\ v.prefix[m] = IF m = s THEN w ELSE t.prefix[m]
  <2> DEFINE u == NewNode(t, p, a, w)
  <2>1. /\ u \in Trees /\ u.nodes = t.nodes \union {s}
        /\ u.rows = t.rows /\ u.used = t.used
        /\ \A m \in Ids :
             /\ u.parent[m] = IF m = s THEN p ELSE t.parent[m]
             /\ u.edge[m] = IF m = s THEN a ELSE t.edge[m]
             /\ u.prefix[m] = IF m = s THEN w ELSE t.prefix[m]
    <3>1. p \in Ids \union {Root}
      BY <1>1, <1>2
    <3>2. Added(t, u, s, p, a, w)
      BY <3>1, <1>1, <1>4, <1>7, <1>11, NewNodeFields
    <3> QED
      BY <3>2 DEF Added
  <2>2. Path(t, p) = P
    BY <1>1, <1>2, PathIs DEF P
  <2>3. v = [u EXCEPT !.parent[c] = s, !.edge[c] = b]
    BY <2>2 DEF Split, w, a, b, e, p
  <2> HIDE DEF u, v, s
  <2> QED
    BY <2>1, <2>3, <1>2, <1>5, <1>11 DEF Trees
<1> HIDE DEF v, s
<1>13. /\ v.parent[c] = s /\ v.edge[c] = b /\ v.prefix[c] = t.prefix[c]
       /\ v.parent[s] = p /\ v.edge[s] = a /\ v.prefix[s] = w
  BY <1>2, <1>11, <1>12
<1>14. \A m \in t.nodes : /\ m \in Ids /\ m # s /\ v.prefix[m] = t.prefix[m]
                          /\ m # c => v.parent[m] = t.parent[m] /\ v.edge[m] = t.edge[m]
  BY <1>1, <1>11, <1>12
<1>15. \A m \in t.nodes \union {Root} : TokensOf(v, m) = TokensOf(t, m)
  BY <1>14 DEF TokensOf
<1>16. TokensOf(v, s) = w
  BY <1>11, <1>13 DEF TokensOf
<1>17. \A m \in t.nodes : t.parent[m] # s
  BY <1>1, <1>11 DEF Shape
<1>18. a[1] = e[1] /\ b[1] = e[k + 1] /\ a # None /\ b # None
  <2>1. 1 \in 1..k /\ 1 \in 1..(Len(e) - k) /\ Len(a) # 0 /\ Len(b) # 0
    BY <1>3, <1>4, <1>5
  <2> QED
    BY <2>1, <1>4, <1>5 DEF None
<1>19. Shape(v)
  <2>1. ASSUME NEW m \in v.nodes
        PROVE  /\ v.parent[m] \in v.nodes \union {Root}
               /\ v.edge[m] # None
               /\ v.prefix[m] = TokensOf(v, v.parent[m]) \o v.edge[m]
               /\ v.prefix[m] \in PromptPrefixes
    <3>1. CASE m = s
      BY <3>1, <1>2, <1>9, <1>12, <1>13, <1>15, <1>18 DEF w, P
    <3>2. CASE m = c
      <4>1. w \o b = P \o e
        <5>1. (P \o a) \o b = P \o (a \o b)
          BY <1>2, <1>4, <1>5, ConcatThree
        <5> QED
          BY <5>1, <1>6 DEF w
      <4> QED
        BY <4>1, <3>2, <1>2, <1>12, <1>13, <1>16, <1>18
    <3>3. CASE m \in t.nodes /\ m # c
      <4>1. /\ t.parent[m] \in t.nodes \union {Root}
            /\ t.edge[m] # None
            /\ t.prefix[m] = TokensOf(t, t.parent[m]) \o t.edge[m]
            /\ t.prefix[m] \in PromptPrefixes
        BY <3>3, <1>1 DEF Shape
      <4> QED
        BY <4>1, <3>3, <1>12, <1>14, <1>15
    <3> QED
      BY <3>1, <3>2, <3>3, <1>12
  <2>2. ASSUME NEW m \in v.nodes, NEW j \in v.nodes, m # j, v.parent[m] = v.parent[j]
        PROVE  v.edge[m][1] # v.edge[j][1]
    <3>1. \A x \in t.nodes : x # c /\ t.parent[x] = p => t.edge[x][1] # e[1]
      BY <1>1 DEF Shape, p, e
    <3>2. ASSUME NEW x \in v.nodes, x # c PROVE v.parent[x] # s
      BY <3>2, <1>2, <1>11, <1>12, <1>13, <1>14, <1>17
    <3>3. m # c /\ j # c
      BY <3>2, <2>2, <1>13
    <3>4. CASE m = s
      BY <3>1, <3>3, <3>4, <2>2, <1>12, <1>13, <1>14, <1>18
    <3>5. CASE j = s
      BY <3>1, <3>3, <3>5, <2>2, <1>12, <1>13, <1>14, <1>18
    <3>6. CASE m \in t.nodes /\ j \in t.nodes
      BY <3>3, <3>6, <2>2, <1>1, <1>14 DEF Shape
    <3> QED
      BY <3>4, <3>5, <3>6, <1>12
  <2> QED
    BY <2>1, <2>2 DEF Shape
<1>20. Filled(v)
  BY <1>1, <1>11, <1>12, <1>14 DEF Filled
<1>21. Grown(t, v)
  BY <1>12, <1>14, <1>19, <1>20 DEF Grown, Tries
<1>22. \A m \in v.nodes : v.parent[m] = s => m = c
  BY <1>2, <1>11, <1>12, <1>13, <1>14, <1>17
<1>23. ASSUME NEW m \in Bare(v) PROVE m \in Bare(t)
  <2>1. m \in v.nodes /\ v.rows[m] = None /\ Children(v, m) = {}
    BY DEF Bare
  <2>2. c \in Children(v, s) /\ s \in Children(v, p)
    BY <1>12, <1>13 DEF Children
  <2>3. m \in t.nodes /\ m # p
    BY <2>1, <2>2, <1>12
  <2>4. ASSUME NEW x \in Children(t, m) PROVE FALSE
    <3>1. x \in t.nodes /\ t.parent[x] = m /\ x # c
      BY <2>3 DEF Children, p
    <3>2. x \in Children(v, m)
      BY <3>1, <1>12, <1>14 DEF Children
    <3> QED
      BY <3>2, <2>1
  <2> QED
    BY <2>1, <2>3, <2>4, <1>12 DEF Bare
<1> QED
  BY <1>7, <1>8, <1>11, <1>12, <1>13, <1>18, <1>21, <1>22, <1>23
     DEF v, s, w, a, e, P, p, SplitAt

(* What is left of a sequence after its first k tokens. *)
LEMMA RestOf ==
    ASSUME NEW t \in Seq(Nat), NEW k \in 0..Len(t)
    PROVE  /\ From(t, k) \in Seq(Nat) /\ Len(From(t, k)) = Len(t) - k
           /\ \A i \in 1..(Len(t) - k) : From(t, k)[i] = t[k + i]
           /\ \A v \in Seq(Nat) : Starts(v, t) /\ Len(v) = k => t = v \o From(t, k)
<1> DEFINE b == From(t, k)
<1>1. Len(t) \in Nat /\ k \in Nat /\ k <= Len(t)
  OBVIOUS
<1>2. /\ b \in Seq(Nat) /\ Len(b) = Len(t) - k
      /\ \A i \in 1..(Len(t) - k) : b[i] = t[k + i]
  <2>1. \A i \in (k + 1)..Len(t) : t[i] \in Nat
    BY <1>1, ElementOfSeq
  <2>2. b \in Seq(Nat)
    BY <2>1, <1>1, SubSeqProperties DEF From
  <2>3. Len(b) = Len(t) - k
    BY <2>1, <1>1, SubSeqProperties DEF From
  <2>4. \A i \in 1..(Len(t) - k) : b[i] = t[k + i]
    BY <2>1, <1>1, SubSeqProperties DEF From
  <2> QED
    BY <2>2, <2>3, <2>4
<1> HIDE DEF b
<1>3. ASSUME NEW v \in Seq(Nat), Starts(v, t), Len(v) = k PROVE t = v \o b
  <2>1. v \o b \in Seq(Nat) /\ Len(v \o b) = Len(t)
    <3>1. v \o b \in Seq(Nat) /\ Len(v \o b) = Len(v) + Len(b)
      BY <1>2, ConcatProperties
    <3> QED
      BY <3>1, <1>1, <1>2, <1>3
  <2>2. \A i \in 1..Len(v) : (v \o b)[i] = v[i]
    BY <1>2, ConcatProperties
  <2>3. \A i \in 1..Len(b) : (v \o b)[Len(v) + i] = b[i]
    BY <1>2, ConcatProperties
  <2>4. ASSUME NEW i \in 1..Len(t) PROVE t[i] = (v \o b)[i]
    <3>1. CASE i \in 1..k
      BY <3>1, <1>3, <2>2 DEF Starts
    <3>2. CASE i \notin 1..k
      <4>1. i - k \in 1..(Len(t) - k) /\ i = k + (i - k)
        BY <3>2, <1>1
      <4> QED
        BY <4>1, <1>2, <1>3, <2>3
    <3> QED
      BY <3>1, <3>2
  <2> QED
    BY <2>1, <2>4, SeqEqual
<1> QED
  BY <1>2, <1>3 DEF b

(* How far two sequences agree. *)
LEMMA CommonIs ==
    ASSUME NEW s \in Seq(Nat), NEW t \in Seq(Nat)
    PROVE  /\ Common(s, t) \in 0..Len(s) /\ Common(s, t) <= Len(t)
           /\ \A i \in 1..Common(s, t) : s[i] = t[i]
           /\ Common(s, t) < Len(s) /\ Common(s, t) < Len(t)
                => s[Common(s, t) + 1] # t[Common(s, t) + 1]
<1> DEFINE T == {j \in 0..Len(s) : IsPrefix(SubSeq(s, 1, j), t)}
           k == Common(s, t)
<1>1. Len(s) \in Nat /\ Len(t) \in Nat
  OBVIOUS
<1>2. ASSUME NEW j \in 0..Len(s)
      PROVE  j \in T <=> j <= Len(t) /\ \A i \in 1..j : s[i] = t[i]
  <2>1. /\ SubSeq(s, 1, j) \in Seq(Nat) /\ Len(SubSeq(s, 1, j)) = j
        /\ \A i \in 1..j : SubSeq(s, 1, j)[i] = s[i]
    BY FirstTokens
  <2>2. IsPrefix(SubSeq(s, 1, j), t) <=> Starts(SubSeq(s, 1, j), t)
    BY <2>1, PrefixMeans
  <2> QED
    BY <2>1, <2>2 DEF Starts
<1>3. 0 \in T /\ T \in SUBSET (0..Len(s))
  <2>1. 0 \in 0..Len(s)
    BY <1>1
  <2> QED
    BY <2>1, <1>1, <1>2
<1>4. k = Max(T)
  BY DEF Common
<1> HIDE DEF k, T
<1>5. k \in T /\ \A j \in T : j <= k
  BY <1>1, <1>3, <1>4, MaxOfBounded
<1>6. k \in 0..Len(s) /\ k <= Len(t) /\ \A i \in 1..k : s[i] = t[i]
  BY <1>2, <1>3, <1>5
<1>7. ASSUME k < Len(s), k < Len(t), s[k + 1] = t[k + 1] PROVE FALSE
  <2>1. k + 1 \in 0..Len(s) /\ k + 1 <= Len(t) /\ ~ (k + 1 <= k)
    BY <1>1, <1>6, <1>7
  <2>2. \A i \in 1..(k + 1) : i \in 1..k \/ i = k + 1
    BY <1>6
  <2>3. k + 1 \in T
    BY <2>1, <2>2, <1>2, <1>6, <1>7
  <2> QED
    BY <2>1, <2>3, <1>5
<1> QED
  BY <1>6, <1>7 DEF k

(***************************************************************************)
(* _insert_prefix makes a node for a prefix that has none, and leaves the  *)
(* tree a trie with the nodes it had.  Nothing that was not a bare leaf    *)
(* becomes one, but for the node that is returned.                         *)
(***************************************************************************)
LEMMA InsertGrows ==
    ASSUME NEW t \in Tries, NEW w \in PromptPrefixes
    PROVE  LET v == Insert(t, w)
           IN /\ Grown(t, v)
              /\ \E n \in v.nodes : v.prefix[n] = w
              /\ \A m \in Bare(v) : m \in Bare(t) \/ v.prefix[m] = w
<1> DEFINE d == Deepest(t, Visited(t, w))
           at == Len(Path(t, d))
           next == {c \in Children(t, d) : t.edge[c][1] = w[at + 1]}
           rest == From(w, at)
           v == Insert(t, w)
<1>1. t \in Trees /\ Shape(t) /\ Filled(t) /\ t.nodes \subseteq Ids
  BY DEF Tries, Trees
<1>2. w \in Seq(Nat) /\ Len(w) \in Nat /\ Len(w) >= 1
  BY PromptPrefixOf
<1>3. \A n : n \in Visited(t, w) <=> n \in t.nodes \union {Root} /\ Starts(TokensOf(t, n), w)
  BY <1>1, <1>2, VisitedMembers
<1>4. Root \in Visited(t, w)
  BY <1>2, <1>3, StartsSelf DEF TokensOf, None
<1>5. /\ d \in t.nodes \union {Root} /\ Starts(TokensOf(t, d), w)
      /\ \A n \in Visited(t, w) : Len(TokensOf(t, n)) <= Len(TokensOf(t, d))
  <2>1. \A n \in Visited(t, w) : Len(TokensOf(t, n)) <= Len(w)
    BY <1>3 DEF Starts
  <2>2. Visited(t, w) \in SUBSET (t.nodes \union {Root})
    BY <1>3
  <2>3. /\ d \in Visited(t, w)
        /\ \A n \in Visited(t, w) : Len(TokensOf(t, n)) <= Len(TokensOf(t, d))
    BY <2>1, <2>2, <1>1, <1>2, <1>4, DeepestMember
  <2> QED
    BY <2>3, <1>3
<1> DEFINE P == TokensOf(t, d)
<1>6. /\ P \in Seq(Nat) /\ at = Len(P) /\ Len(P) \in Nat /\ Len(P) <= Len(w)
      /\ \A i \in 1..Len(P) : P[i] = w[i]
  <2>1. Path(t, d) = P /\ P \in Seq(Nat) /\ Len(P) \in Nat
    BY <1>1, <1>5, PathIs, TokensType
  <2> QED
    BY <2>1, <1>5 DEF Starts
<1>7. v = IF at = Len(w) THEN t
          ELSE IF next = {} THEN NewNode(t, d, rest, w)
          ELSE LET c == CHOOSE n \in next : TRUE
                   k == Common(t.edge[c], rest)
                   s == Split(t, c, k)
               IN IF at + k = Len(w) THEN s
                  ELSE NewNode(s, NewId(t), From(w, at + k), w)
  BY DEF Insert
<1> HIDE DEF v, d, at
<1>8. CASE at = Len(w)
  <2>1. v = t
    BY <1>7, <1>8
  <2>2. P = w
    BY <1>2, <1>5, <1>6, <1>8, StartsEqual
  <2>3. d # Root /\ d \in t.nodes /\ t.prefix[d] = w
    BY <2>2, <1>2, <1>5 DEF TokensOf, None
  <2>4. Grown(t, t)
    BY DEF Grown
  <2> QED
    BY <2>1, <2>3, <2>4 DEF v
<1>9. CASE at # Len(w)
  <2>1. at < Len(w) /\ at \in 0..Len(w) /\ at \in Nat
    BY <1>2, <1>6, <1>9
  <2>2. /\ rest \in Seq(Nat) /\ Len(rest) = Len(w) - at
        /\ \A i \in 1..(Len(w) - at) : rest[i] = w[at + i]
        /\ w = P \o rest
    <3>1. /\ rest \in Seq(Nat) /\ Len(rest) = Len(w) - at
          /\ \A i \in 1..(Len(w) - at) : rest[i] = w[at + i]
          /\ \A x \in Seq(Nat) : Starts(x, w) /\ Len(x) = at => w = x \o rest
      BY <2>1, <1>2, RestOf
    <3> HIDE DEF rest, P
    <3> QED
      BY <3>1, <1>5, <1>6 DEF P
  <2> HIDE DEF rest
  <2>3. rest # <<>> /\ rest[1] = w[at + 1] /\ 1 \in 1..Len(rest)
    <3>1. 1 \in 1..(Len(w) - at) /\ Len(rest) # 0
      BY <2>1, <2>2, <1>2
    <3> QED
      BY <3>1, <2>2
  <2>4. \A m \in t.nodes : t.prefix[m] # w
    <3> SUFFICES ASSUME NEW m \in t.nodes, t.prefix[m] = w PROVE FALSE
      OBVIOUS
    <3>1. TokensOf(t, m) = w
      BY <1>1, IdsFinite DEF TokensOf
    <3>2. m \in Visited(t, w)
      BY <3>1, <1>2, <1>3, StartsSelf
    <3> QED
      BY <3>1, <3>2, <2>1, <1>2, <1>5, <1>6
  <2>5. CASE next = {}
    <3>1. v = NewNode(t, d, rest, w)
      BY <2>5, <1>7, <1>9
    <3>2. \A m \in t.nodes : t.parent[m] = d => t.edge[m][1] # rest[1]
      BY <2>3, <2>5 DEF Children
    <3>3. Gains(t, v, NewId(t), w)
      BY <3>1, <3>2, <2>2, <2>3, <2>4, <1>5, NewNodeGrows
    <3> QED
      BY <3>3 DEF v, Gains
  <2>6. CASE next # {}
    <3> DEFINE c == CHOOSE n \in next : TRUE
               e == t.edge[c]
               k == Common(e, rest)
               s == NewId(t)
               u == Split(t, c, k)
    <3>1. c \in t.nodes /\ t.parent[c] = d /\ e[1] = w[at + 1]
      <4>1. c \in next
        BY <2>6
      <4> QED
        BY <4>1 DEF Children
    <3>2. v = IF at + k = Len(w) THEN u ELSE NewNode(u, s, From(w, at + k), w)
      BY <2>6, <1>7, <1>9
    <3> HIDE DEF c
    <3>3. /\ e \in Seq(Nat) /\ Len(e) >= 1 /\ Len(e) \in Nat
          /\ t.prefix[c] \in Seq(Nat) /\ TokensOf(t, c) = t.prefix[c]
          /\ Len(t.prefix[c]) = Len(P) + Len(e)
          /\ Starts(P, t.prefix[c])
          /\ \A i \in 1..Len(e) : t.prefix[c][Len(P) + i] = e[i]
      <4>1. LET p == TokensOf(t, t.parent[c])
            IN /\ e \in Seq(Nat) /\ Len(e) >= 1
               /\ t.prefix[c] \in Seq(Nat) /\ TokensOf(t, c) = t.prefix[c]
               /\ Len(t.prefix[c]) = Len(p) + Len(e)
               /\ Starts(p, t.prefix[c])
               /\ \A i \in 1..Len(e) : t.prefix[c][Len(p) + i] = e[i]
        BY <3>1, <1>1, NodeAndParent
      <4> HIDE DEF e
      <4>2. Len(e) \in Nat
        BY <4>1
      <4> QED
        BY <4>1, <4>2, <3>1
    <3> HIDE DEF e
    <3>4. /\ k \in 0..Len(e) /\ k <= Len(rest)
          /\ \A i \in 1..k : e[i] = rest[i]
          /\ k < Len(e) /\ k < Len(rest) => e[k + 1] # rest[k + 1]
      BY <2>2, <3>3, CommonIs
    <3> HIDE DEF k
    <3>5. k # 0
      <4> SUFFICES ASSUME k = 0 PROVE FALSE
        OBVIOUS
      <4>1. k < Len(e) /\ k < Len(rest) /\ k + 1 = 1
        BY <2>1, <2>2, <3>3, <1>2
      <4> QED
        BY <4>1, <3>1, <3>4, <2>3
    <3>6. \A i \in 1..k : e[i] = w[at + i] /\ i \in 1..Len(e)
      <4>0. k \in Nat /\ k <= Len(w) - at /\ k <= Len(e) /\ Len(w) - at \in Nat
        BY <3>4, <3>3, <2>1, <2>2, <1>2
      <4>1. \A i \in 1..k : i \in 1..Len(e)
        BY <4>0, <3>3
      <4>2. \A i \in 1..k : i \in 1..(Len(w) - at)
        BY <4>0
      <4> QED
        BY <4>1, <4>2, <3>4, <2>2
    <3>7. k # Len(e)
      <4> SUFFICES ASSUME k = Len(e) PROVE FALSE
        OBVIOUS
      <4>1. ASSUME NEW i \in 1..Len(t.prefix[c]) PROVE t.prefix[c][i] = w[i]
        <5>1. CASE i \in 1..Len(P)
          BY <5>1, <3>3, <1>6 DEF Starts
        <5>2. CASE i \notin 1..Len(P)
          <6>1. i - Len(P) \in 1..Len(e) /\ i = Len(P) + (i - Len(P))
            BY <5>2, <3>3, <1>6
          <6>2. t.prefix[c][Len(P) + (i - Len(P))] = e[i - Len(P)]
            BY <6>1, <3>3
          <6>3. e[i - Len(P)] = w[at + (i - Len(P))]
            BY <6>1, <3>6
          <6> QED
            BY <6>1, <6>2, <6>3, <1>6
        <5> QED
          BY <5>1, <5>2
      <4>2. Len(t.prefix[c]) <= Len(w)
        BY <3>3, <3>4, <2>1, <2>2, <1>2, <1>6
      <4>3. Starts(t.prefix[c], w)
        BY <4>1, <4>2 DEF Starts
      <4>4. c \in Visited(t, w)
        BY <4>3, <3>1, <3>3, <1>3
      <4>5. Len(t.prefix[c]) <= Len(P)
        BY <4>4, <3>3, <1>5
      <4> QED
        BY <4>5, <3>3, <1>6
    <3>8. k \in 1..(Len(e) - 1) /\ k \in Nat
      BY <3>3, <3>4, <3>5, <3>7
    <3> DEFINE x == P \o SubSeq(e, 1, k)
    <3>9. /\ Grown(t, u)
          /\ u.nodes = t.nodes \union {s} /\ u.prefix[s] = x /\ s # Root
          /\ Len(x) = Len(P) + k
          /\ Starts(x, t.prefix[c])
          /\ \A m \in u.nodes : u.parent[m] = s => m = c
          /\ u.edge[c][1] = e[k + 1]
          /\ Bare(u) \subseteq Bare(t)
      <4>1. SplitAt(t, u, c, k, s, TokensOf(t, t.parent[c]) \o SubSeq(t.edge[c], 1, k))
        BY <3>1, <3>8, SplitGrows DEF e
      <4>2. SplitAt(t, u, c, k, s, x)
        BY <4>1, <3>1 DEF e
      <4> QED
        BY <4>2, <3>1 DEF SplitAt, e
    <3> HIDE DEF s, u, x
    <3>10. u \in Tries /\ u \in Trees /\ s \in u.nodes /\ TokensOf(u, s) = x /\ x \in Seq(Nat)
      <4>1. u \in Tries /\ u \in Trees /\ s \in u.nodes
        BY <3>9 DEF Grown, Tries
      <4>2. TokensOf(u, s) = x
        BY <3>9 DEF TokensOf
      <4> QED
        BY <4>1, <4>2, TokensType
    <3>11. Starts(x, w) /\ Len(x) = at + k /\ at + k \in 0..Len(w)
      <4>1. Len(x) = at + k /\ at + k <= Len(w) /\ at + k \in 0..Len(w)
        BY <3>9, <3>4, <3>8, <2>1, <2>2, <1>2, <1>6
      <4>2. ASSUME NEW i \in 1..Len(x) PROVE x[i] = w[i]
        <5>1. x[i] = t.prefix[c][i]
          BY <3>9 DEF Starts
        <5>2. CASE i \in 1..Len(P)
          BY <5>1, <5>2, <3>3, <1>6 DEF Starts
        <5>3. CASE i \notin 1..Len(P)
          <6>1. i - Len(P) \in 1..k /\ i = Len(P) + (i - Len(P))
            BY <5>3, <3>8, <3>9, <1>6
          <6>2. t.prefix[c][Len(P) + (i - Len(P))] = e[i - Len(P)]
            BY <6>1, <3>3, <3>6
          <6>3. e[i - Len(P)] = w[at + (i - Len(P))]
            BY <6>1, <3>6
          <6> QED
            BY <5>1, <6>1, <6>2, <6>3, <1>6
        <5> QED
          BY <5>2, <5>3
      <4> QED
        BY <4>1, <4>2 DEF Starts
    <3>12. CASE at + k = Len(w)
      <4>1. v = u
        BY <3>12, <3>2
      <4>2. x = w
        BY <3>10, <3>11, <3>12, <1>2, StartsEqual
      <4> QED
        BY <4>1, <4>2, <3>9, <3>10 DEF v
    <3>13. CASE at + k # Len(w)
      <4> DEFINE y == From(w, at + k)
      <4>1. v = NewNode(u, s, y, w)
        BY <3>13, <3>2
      <4>2. /\ y \in Seq(Nat) /\ Len(y) = Len(w) - (at + k)
            /\ \A i \in 1..(Len(w) - (at + k)) : y[i] = w[at + k + i]
            /\ w = x \o y
        <5>1. /\ y \in Seq(Nat) /\ Len(y) = Len(w) - (at + k)
              /\ \A i \in 1..(Len(w) - (at + k)) : y[i] = w[at + k + i]
              /\ \A z \in Seq(Nat) : Starts(z, w) /\ Len(z) = at + k => w = z \o y
          BY <3>11, <1>2, RestOf
        <5> HIDE DEF y
        <5> QED
          BY <5>1, <3>10, <3>11
      <4> HIDE DEF y
      <4>3. at + k < Len(w)
        BY <3>11, <3>13, <1>2
      <4>4. y # <<>> /\ y[1] = rest[k + 1] /\ e[k + 1] # rest[k + 1]
        <5>1. 1 \in 1..(Len(w) - (at + k)) /\ k + 1 \in 1..(Len(w) - at) /\ Len(y) # 0
          BY <4>2, <4>3, <3>8, <2>1, <1>2
        <5>2. y[1] = w[at + k + 1] /\ rest[k + 1] = w[at + (k + 1)]
          BY <5>1, <4>2, <2>2
        <5>3. at + k + 1 = at + (k + 1) /\ k < Len(rest)
          BY <4>3, <3>8, <2>1, <2>2, <1>2
        <5>4. k < Len(e)
          BY <3>8, <3>3
        <5> QED
          BY <5>1, <5>2, <5>3, <5>4, <3>4
      <4>5. \A m \in u.nodes : u.prefix[m] # w
        <5>1. x # w
          BY <4>3, <3>11
        <5> QED
          BY <5>1, <2>4, <3>9 DEF Grown
      <4>6. \A m \in u.nodes : u.parent[m] = s => u.edge[m][1] # y[1]
        BY <4>4, <3>9
      <4>7. Gains(u, v, NewId(u), w)
        <5>1. s \in u.nodes \union {Root} /\ w = TokensOf(u, s) \o y
          BY <3>10, <4>2
        <5> QED
          BY <5>1, <4>1, <4>2, <4>4, <4>5, <4>6, <3>10, NewNodeGrows
      <4>8. Grown(t, v)
        BY <4>7, <3>9 DEF Grown, Gains
      <4> QED
        BY <4>7, <4>8, <3>9 DEF v, Gains
    <3> QED
      BY <3>12, <3>13
  <2> QED
    BY <2>5, <2>6
<1> QED
  BY <1>8, <1>9

-----------------------------------------------------------------------------
(* publish *)

(* The same nodes on the same edges. *)
SameNodes(t, v) ==
    v.nodes = t.nodes /\ v.parent = t.parent /\ v.edge = t.edge /\ v.prefix = t.prefix

LEMMA SameNodesSame ==
    ASSUME NEW t, NEW v, SameNodes(t, v)
    PROVE  /\ Shape(t) => Shape(v)
           /\ \A n : Children(v, n) = Children(t, n)
  BY DEF SameNodes, Shape, TokensOf, Children

LEMMA EntriesAre ==
    ASSUME NEW t \in Tries
    PROVE  /\ Entries(t) = {n \in Ids : t.rows[n] # None}
           /\ Entries(t) \subseteq t.nodes /\ t.nodes \subseteq Ids
           /\ \A n \in Entries(t) : t.rows[n] = t.prefix[n] /\ t.rows[n] \in PagedPrefixes
<1>1. t \in Trees /\ Filled(t) /\ t.nodes \subseteq Ids
  BY DEF Tries, Trees
<1> QED
  BY <1>1 DEF Entries, Filled

(* A clock value is a number, and setting one changes nothing else. *)
LEMMA StampKeeps ==
    ASSUME NEW t \in Tries, NEW n
    PROVE  /\ Stamp(t, n) \in Tries /\ SameNodes(t, Stamp(t, n))
           /\ Stamp(t, n).rows = t.rows
<1> DEFINE others == Entries(t) \ {n}
           rank(m) == Cardinality({t.used[k] : k \in {o \in others : t.used[o] < t.used[m]}})
           g == [m \in Ids |->
                  IF m \in others THEN rank(m)
                  ELSE IF m = n THEN Cardinality({t.used[k] : k \in others}) ELSE 0]
           v == Stamp(t, n)
<1>1. t \in Trees /\ Shape(t) /\ Filled(t)
  BY DEF Tries
<1>2. ASSUME NEW S \in SUBSET Ids PROVE Cardinality({t.used[k] : k \in S}) \in Nat
  <2> DEFINE f == [k \in S |-> t.used[k]]
  <2>1. f \in Surjection(S, {t.used[k] : k \in S})
    BY DEF Surjection
  <2>2. IsFiniteSet(S)
    BY IdsFinite
  <2>3. IsFiniteSet({t.used[k] : k \in S})
    BY <2>1, <2>2, FS_Surjection
  <2> QED
    BY <2>3, FS_CardinalityType
<1>3. others \in SUBSET Ids
  BY EntriesAre
<1> HIDE DEF others
<1>4. ASSUME NEW m \in Ids PROVE rank(m) \in Nat
  <2>1. {o \in others : t.used[o] < t.used[m]} \in SUBSET Ids
    BY <1>3
  <2> QED
    BY <2>1, <1>2
<1>5. Cardinality({t.used[k] : k \in others}) \in Nat
  BY <1>2, <1>3
<1>6. v = [t EXCEPT !.used = g]
  BY DEF Stamp, others
<1> HIDE DEF rank
<1>7. g \in [Ids -> Nat]
  BY <1>4, <1>5
<1> HIDE DEF g, v
<1>8. SameNodes(t, v) /\ v.rows = t.rows /\ v \in Trees
  BY <1>1, <1>6, <1>7 DEF Trees, SameNodes
<1>9. Shape(v)
  BY <1>1, <1>8, SameNodesSame
<1>10. Filled(v)
  BY <1>1, <1>8 DEF Filled, SameNodes
<1> QED
  BY <1>8, <1>9, <1>10 DEF Tries, v

(* The node that _insert_prefix returns is the one for the prefix. *)
LEMMA NodeOfIs ==
    ASSUME NEW t \in Tries, NEW w \in PromptPrefixes, NEW n \in t.nodes, t.prefix[n] = w
    PROVE  NodeOf(t, w) = n
<1> DEFINE d == NodeOf(t, w)
<1>1. t \in Trees /\ Shape(t) /\ t.nodes \subseteq Ids
  BY DEF Tries, Trees
<1>2. w \in Seq(Nat) /\ Len(w) \in Nat
  BY PromptPrefixOf
<1>3. \A m : m \in Visited(t, w) <=> m \in t.nodes \union {Root} /\ Starts(TokensOf(t, m), w)
  BY <1>1, <1>2, VisitedMembers
<1>4. TokensOf(t, n) = w
  BY <1>1, IdsFinite DEF TokensOf
<1>5. n \in Visited(t, w)
  BY <1>2, <1>3, <1>4, StartsSelf
<1>6. /\ d \in Visited(t, w)
      /\ \A m \in Visited(t, w) : Len(TokensOf(t, m)) <= Len(TokensOf(t, d))
  <2>1. \A m \in Visited(t, w) : Len(TokensOf(t, m)) <= Len(w)
    BY <1>3 DEF Starts
  <2>2. Visited(t, w) \in SUBSET (t.nodes \union {Root})
    BY <1>3
  <2> QED
    BY <2>1, <2>2, <1>1, <1>2, <1>5, DeepestMember DEF NodeOf
<1> HIDE DEF d
<1>7. d \in t.nodes \union {Root} /\ TokensOf(t, d) \in Seq(Nat)
  BY <1>1, <1>3, <1>6, TokensType
<1>8. TokensOf(t, d) = w
  BY <1>2, <1>3, <1>4, <1>5, <1>6, <1>7, StartsEqual
<1> QED
  BY <1>1, <1>4, <1>7, <1>8, NodesDiffer DEF d

(***************************************************************************)
(* v is a later tree in a publication that began at t: it has the          *)
(* snapshots of t, besides some of prefixes in ps, and no new bare leaf.   *)
(***************************************************************************)
Filling(t, v, ps) ==
    /\ v \in Tries
    /\ \A m \in Entries(t) : m \in Entries(v) /\ v.rows[m] = t.rows[m]
    /\ \A m \in Entries(v) : m \in Entries(t) \/ v.rows[m] \in ps
    /\ Bare(v) \subseteq Bare(t)

LEMMA FillingOn ==
    ASSUME NEW t, NEW u, NEW v, NEW ps, Filling(t, u, ps), Filling(u, v, ps)
    PROVE  Filling(t, v, ps)
  BY DEF Filling

LEMMA WithPageFills ==
    ASSUME NEW t \in Tries, NEW w \in PromptPrefixes, w \in PagedPrefixes
    PROVE  Filling(t, WithPage(t, w), {w})
<1> DEFINE v == Insert(t, w)
           n == NodeOf(v, w)
           u == IF v.rows[n] = None THEN [v EXCEPT !.rows[n] = w] ELSE v
           x == WithPage(t, w)
<1>1. /\ Grown(t, v) /\ \E m \in v.nodes : v.prefix[m] = w
      /\ \A m \in Bare(v) : m \in Bare(t) \/ v.prefix[m] = w
  BY InsertGrows
<1> HIDE DEF v
<1>2. v \in Tries /\ v \in Trees /\ Shape(v) /\ Filled(v) /\ v.nodes \subseteq Ids
  BY <1>1 DEF Grown, Tries, Trees
<1>3. n \in v.nodes /\ v.prefix[n] = w /\ n \in Ids /\ w \in Seq(Nat) /\ w # None
  <2>1. w # None
    BY DEF PromptPrefixes
  <2>2. w \in Seq(Nat)
    BY PromptPrefixOf
  <2> QED
    BY <2>1, <2>2, <1>1, <1>2, NodeOfIs
<1> HIDE DEF n
<1>4. x = Stamp(u, n)
  BY DEF WithPage, v, n
<1> HIDE DEF x
<1>5. SameNodes(v, u) /\ u.rows = [v.rows EXCEPT ![n] = w] /\ u \in Trees
  <2>1. v.rows[n] \in {None, w} /\ v.rows \in [Ids -> Seq(Nat)]
    BY <1>2, <1>3 DEF Filled, Trees
  <2>2. CASE v.rows[n] = None
    BY <2>1, <2>2, <1>2, <1>3 DEF Trees, SameNodes
  <2>3. CASE v.rows[n] = w
    <3>1. u = v /\ [v.rows EXCEPT ![n] = w] = v.rows
      BY <2>1, <2>3, <1>3
    <3> QED
      BY <3>1, <1>2 DEF SameNodes
  <2> QED
    BY <2>1, <2>2, <2>3
<1> HIDE DEF u
<1>6. \A m \in Ids : u.rows[m] = IF m = n THEN w ELSE v.rows[m]
  BY <1>2, <1>3, <1>5 DEF Trees
<1>7. u \in Tries
  <2>1. Shape(u)
    BY <1>2, <1>5, SameNodesSame
  <2>2. Filled(u)
    BY <1>2, <1>3, <1>5, <1>6 DEF Filled, SameNodes
  <2> QED
    BY <2>1, <2>2, <1>5 DEF Tries
<1>8. x \in Tries /\ SameNodes(u, x) /\ x.rows = u.rows
  BY <1>4, <1>7, StampKeeps
<1>9. \A m \in Ids : x.rows[m] = IF m = n THEN w ELSE t.rows[m]
  BY <1>1, <1>6, <1>8 DEF Grown
<1>10. /\ Entries(x) = {m \in Ids : x.rows[m] # None}
       /\ Entries(t) = {m \in Ids : t.rows[m] # None}
  BY <1>8, EntriesAre
<1>11. ASSUME NEW m \in Entries(t) PROVE m \in Entries(x) /\ x.rows[m] = t.rows[m]
  <2>1. m \in Ids /\ t.rows[m] # None
    BY <1>10
  <2>2. CASE m = n
    <3>1. v.rows[n] = t.rows[n] /\ v.rows[n] \in {None, w}
      BY <1>1, <1>2, <1>3 DEF Grown, Filled
    <3> QED
      BY <3>1, <2>1, <2>2, <1>3, <1>9, <1>10
  <2>3. CASE m # n
    BY <2>1, <2>3, <1>9, <1>10
  <2> QED
    BY <2>2, <2>3
<1>12. \A m \in Entries(x) : m \in Entries(t) \/ x.rows[m] \in {w}
  BY <1>9, <1>10
<1>13. ASSUME NEW m \in Bare(x) PROVE m \in Bare(t)
  <2>1. m \in v.nodes /\ x.rows[m] = None /\ Children(x, m) = {} /\ m \in Ids
    BY <1>2, <1>5, <1>8 DEF Bare, SameNodes
  <2>2. Children(v, m) = {}
    BY <2>1, <1>5, <1>8, SameNodesSame
  <2>3. m # n /\ v.rows[m] = None
    BY <2>1, <1>1, <1>3, <1>9 DEF Grown
  <2>4. m \in Bare(v)
    BY <2>1, <2>2, <2>3 DEF Bare
  <2>5. v.prefix[m] # w
    <3> SUFFICES ASSUME v.prefix[m] = w PROVE FALSE
      OBVIOUS
    <3>1. TokensOf(v, m) = TokensOf(v, n)
      BY <2>1, <1>3, IdsFinite DEF TokensOf
    <3> QED
      BY <3>1, <2>1, <2>3, <1>2, <1>3, NodesDiffer
  <2> QED
    BY <2>4, <2>5, <1>1
<1> QED
  BY <1>8, <1>11, <1>12, <1>13 DEF Filling, x

LEMMA DivisionNat ==
    ASSUME NEW n \in Nat, NEW d \in Nat \ {0}
    PROVE  /\ n \div d \in Nat /\ n % d \in Nat /\ n % d < d
           /\ n = d * (n \div d) + (n % d)
  OBVIOUS

LEMMA TimesMonotone ==
    ASSUME NEW d \in Nat \ {0}, NEW j \in Nat, NEW k \in Nat, j < k
    PROVE  /\ j * d \in Nat /\ k * d \in Nat /\ j * d + d <= k * d
<1>1. PICK x \in Nat : k = j + 1 + x
  <2>1. k - j - 1 \in Nat /\ k = j + 1 + (k - j - 1)
    OBVIOUS
  <2> QED
    BY <2>1
<1>2. k * d = j * d + d + x * d
  BY <1>1
<1>3. x * d \in Nat /\ j * d \in Nat /\ k * d \in Nat
  OBVIOUS
<1> QED
  BY <1>2, <1>3

LEMMA MultipleMod ==
    ASSUME NEW d \in Nat \ {0}, NEW k \in Nat
    PROVE  k * d \in Nat /\ (k * d) % d = 0 /\ (k * d) \div d = k
<1> DEFINE n == k * d
           q == n \div d
           r == n % d
<1>1. n \in Nat
  OBVIOUS
<1>2. q \in Nat /\ r \in Nat /\ r < d /\ n = d * q + r
  BY <1>1, DivisionNat
<1> HIDE DEF q, r
<1>3. d * q = q * d /\ n = q * d + r
  BY <1>2
<1>4. ~ (q < k)
  <2> SUFFICES ASSUME q < k PROVE FALSE
    OBVIOUS
  <2>1. q * d + d <= k * d /\ q * d \in Nat
    BY <1>2, TimesMonotone
  <2> HIDE DEF n
  <2>2. q * d + d <= n
    BY <2>1 DEF n
  <2> QED
    BY <2>1, <2>2, <1>1, <1>2, <1>3
<1>5. ~ (k < q)
  <2> SUFFICES ASSUME k < q PROVE FALSE
    OBVIOUS
  <2>1. k * d + d <= q * d /\ q * d \in Nat
    BY <1>2, TimesMonotone
  <2> HIDE DEF n
  <2>2. n + d <= q * d
    BY <2>1 DEF n
  <2> QED
    BY <2>1, <2>2, <1>1, <1>2, <1>3
<1>6. q = k
  BY <1>2, <1>4, <1>5
<1>7. r = 0
  BY <1>2, <1>3, <1>6
<1> QED
  BY <1>1, <1>6, <1>7 DEF q, r

(* The first pages of a prompt. *)
LEMMA PageOfPrompt ==
    ASSUME NEW s \in Prompts, NEW k \in Nat \ {0}, k * PageSize <= Len(s)
    PROVE  LET w == SubSeq(s, 1, k * PageSize)
           IN /\ w \in PromptPrefixes /\ w \in PagedPrefixes
              /\ w \in PagePrefixes(s, Len(s))
<1>1. s \in Seq(Nat) /\ Len(s) \in Nat /\ PageSize \in Nat \ {0}
  BY PromptsAssumption, LimitsAssumption
<1>2. k * PageSize \in Nat /\ (k * PageSize) % PageSize = 0 /\ PageSize <= k * PageSize
  <2>1. k * PageSize \in Nat /\ (k * PageSize) % PageSize = 0
    BY <1>1, MultipleMod
  <2>2. 0 * PageSize + PageSize <= k * PageSize
    BY <1>1, TimesMonotone
  <2> QED
    BY <2>1, <2>2, <1>1
<1> DEFINE j == k * PageSize
<1>3. j \in 1..Len(s) /\ j <= Len(s) /\ j % PageSize = 0
  <2>1. j \in Nat /\ j <= Len(s) /\ PageSize <= j /\ j % PageSize = 0
    BY <1>2
  <2> HIDE DEF j
  <2> QED
    BY <2>1, <1>1
<1> HIDE DEF j
<1>4. SubSeq(s, 1, j) \in PromptPrefixes
  BY <1>3, PromptPrefix
<1>5. SubSeq(s, 1, j) \in PagePrefixes(s, Len(s))
  BY <1>3 DEF PagePrefixes
<1> QED
  BY <1>4, <1>5 DEF PagedPrefixes, j

LEMMA WithPagesFills ==
    ASSUME NEW t \in Tries, NEW s \in Prompts, NEW first \in Nat, NEW last \in Nat,
           last * PageSize <= Len(s)
    PROVE  Filling(t, WithPages(t, s, first, last), PagePrefixes(s, Len(s)))
<1> DEFINE ps == PagePrefixes(s, Len(s))
           A == {u \in Tries : Filling(t, u, ps)}
           w(k) == SubSeq(s, 1, k * PageSize)
           turn == [k \in 1..last |-> [u \in A |-> IF k <= first THEN t ELSE WithPage(u, w(k))]]
           Solves(h) == h = [k \in 0..last |->
                              IF k <= first THEN t ELSE WithPage(h[k - 1], w(k))]
           f == CHOOSE h : Solves(h)
<1>1. t \in A
  BY DEF Filling
<1>2. ASSUME NEW k \in 1..last, NEW u \in A PROVE WithPage(u, w(k)) \in A
  <2>1. k \in Nat \ {0} /\ PageSize \in Nat \ {0} /\ Len(s) \in Nat
    BY LimitsAssumption, PromptsAssumption
  <2>2. k * PageSize <= Len(s)
    <3>1. k = last \/ k * PageSize + PageSize <= last * PageSize
      BY <2>1, TimesMonotone
    <3>2. k * PageSize \in Nat /\ last * PageSize \in Nat
      BY <2>1
    <3> HIDE DEF w
    <3> QED
      BY <3>1, <3>2, <2>1
  <2>3. w(k) \in PromptPrefixes /\ w(k) \in PagedPrefixes /\ w(k) \in ps
    BY <2>1, <2>2, PageOfPrompt
  <2> HIDE DEF w, ps
  <2>4. Filling(u, WithPage(u, w(k)), {w(k)})
    BY <2>3, WithPageFills
  <2>5. Filling(u, WithPage(u, w(k)), ps)
    BY <2>3, <2>4 DEF Filling
  <2>6. Filling(t, WithPage(u, w(k)), ps)
    BY <2>5, FillingOn
  <2> QED
    BY <2>6 DEF Filling
<1> HIDE DEF w, ps, A
<1>3. turn \in [1..last -> [A -> A]]
  BY <1>1, <1>2
<1> HIDE DEF turn
<1>4. PICK g : IsLoop(g, last, A, t, turn)
  BY <1>1, <1>3, LoopExists
<1>5. Solves(g)
  <2>1. ASSUME NEW k \in 0..last
        PROVE  g[k] = IF k <= first THEN t ELSE WithPage(g[k - 1], w(k))
    <3>1. CASE k = 0
      BY <3>1, <1>4 DEF IsLoop
    <3>2. CASE k # 0
      <4>1. k \in 1..last /\ k - 1 \in 0..last
        BY <3>2
      <4>2. g[k - 1] \in A /\ g[k] = turn[k][g[k - 1]]
        BY <4>1, <1>4 DEF IsLoop
      <4> QED
        BY <4>1, <4>2 DEF turn
    <3> QED
      BY <3>1, <3>2
  <2>2. g \in [0..last -> A]
    BY <1>4 DEF IsLoop
  <2> QED
    BY <2>1, <2>2
<1>6. WithPages(t, s, first, last) = f[last]
  BY DEF WithPages, w
<1>7. Solves(f)
  BY <1>5
<1> HIDE DEF f
<1>8. \A k \in 0..last : f[k] = IF k <= first THEN t ELSE WithPage(f[k - 1], w(k))
  BY <1>7
<1> DEFINE B == {k \in 0..last : f[k] \in A}
<1>9. 0 \in B
  BY <1>1, <1>8
<1>10. ASSUME NEW k \in 1..last, k - 1 \in B PROVE k \in B
  <2>1. k \in 0..last /\ f[k - 1] \in A
    BY <1>10
  <2> QED
    BY <2>1, <1>1, <1>2, <1>8
<1>11. last \in 0..last
  OBVIOUS
<1> HIDE DEF B
<1>12. last \in B
  BY <1>9, <1>10, <1>11, UpTo
<1> QED
  BY <1>6, <1>12 DEF B, A, ps

-----------------------------------------------------------------------------
(* _prune_empty_ancestors *)

(* A bare leaf is taken off the tree. *)
LEMMA RemovedKeeps ==
    ASSUME NEW t \in Tries, NEW n \in t.nodes, t.rows[n] = None, Children(t, n) = {}
    PROVE  LET v == Removed(t, n)
           IN /\ v \in Tries /\ v.nodes = t.nodes \ {n} /\ v.rows = t.rows
              /\ t.parent[n] \in v.nodes \union {Root}
              /\ Bare(v) \subseteq (Bare(t) \ {n}) \union {t.parent[n]}
<1> DEFINE v == Removed(t, n)
           p == t.parent[n]
<1>1. t \in Trees /\ Shape(t) /\ Filled(t) /\ t.nodes \subseteq Ids
  BY DEF Tries, Trees
<1>2. n \in Ids /\ n # Root
  BY <1>1, IdsFinite
<1>3. /\ t.parent \in [Ids -> Ids \union {Root}] /\ t.edge \in [Ids -> Seq(Nat)]
      /\ t.prefix \in [Ids -> Seq(Nat)] /\ t.nodes \in SUBSET Ids
      /\ t.rows \in [Ids -> Seq(Nat)] /\ t.used \in [Ids -> Nat]
  BY <1>1 DEF Trees
<1>4. /\ v.nodes = t.nodes \ {n} /\ v.rows = t.rows
      /\ v.parent = [t.parent EXCEPT ![n] = Root] /\ v.edge = [t.edge EXCEPT ![n] = None]
      /\ v.prefix = [t.prefix EXCEPT ![n] = None] /\ v.used = [t.used EXCEPT ![n] = 0]
      /\ v = [nodes |-> v.nodes, parent |-> v.parent, edge |-> v.edge,
              prefix |-> v.prefix, rows |-> v.rows, used |-> v.used]
  <2>1. v = [t EXCEPT !.nodes = t.nodes \ {n}, !.parent[n] = Root, !.edge[n] = None,
                      !.prefix[n] = None, !.used[n] = 0]
    BY DEF Removed
  <2> HIDE DEF v
  <2> QED
    BY <2>1, <1>1 DEF Trees
<1> HIDE DEF v
<1>5. v \in Trees
  <2>1. /\ v.nodes \in SUBSET Ids /\ v.rows \in [Ids -> Seq(Nat)] /\ v.used \in [Ids -> Nat]
        /\ v.parent \in [Ids -> Ids \union {Root}]
        /\ v.edge \in [Ids -> Seq(Nat)] /\ v.prefix \in [Ids -> Seq(Nat)]
    BY <1>2, <1>3, <1>4 DEF None
  <2> QED
    BY <2>1, <1>4 DEF Trees
<1>6. \A m \in v.nodes : /\ m \in t.nodes /\ m # n /\ m \in Ids
                         /\ v.parent[m] = t.parent[m] /\ v.edge[m] = t.edge[m]
                         /\ v.prefix[m] = t.prefix[m]
  BY <1>1, <1>3, <1>4
<1>7. \A m \in t.nodes : t.parent[m] # n
  BY DEF Children
<1>8. \A m \in v.nodes \union {Root} : TokensOf(v, m) = TokensOf(t, m)
  BY <1>6 DEF TokensOf
<1>9. Shape(v)
  <2>1. ASSUME NEW m \in v.nodes
        PROVE  /\ v.parent[m] \in v.nodes \union {Root}
               /\ v.edge[m] # None
               /\ v.prefix[m] = TokensOf(v, v.parent[m]) \o v.edge[m]
               /\ v.prefix[m] \in PromptPrefixes
    <3>1. /\ t.parent[m] \in t.nodes \union {Root}
          /\ t.edge[m] # None
          /\ t.prefix[m] = TokensOf(t, t.parent[m]) \o t.edge[m]
          /\ t.prefix[m] \in PromptPrefixes
      BY <1>1, <1>6 DEF Shape
    <3>2. t.parent[m] \in v.nodes \union {Root}
      BY <3>1, <1>4, <1>6, <1>7
    <3> QED
      BY <3>1, <3>2, <1>6, <1>8
  <2>2. ASSUME NEW m \in v.nodes, NEW k \in v.nodes, m # k, v.parent[m] = v.parent[k]
        PROVE  v.edge[m][1] # v.edge[k][1]
    <3>1. /\ t.parent[m] = t.parent[k] /\ v.edge[m] = t.edge[m] /\ v.edge[k] = t.edge[k]
          /\ m \in t.nodes /\ k \in t.nodes
      BY <2>2, <1>6
    <3>2. t.edge[m][1] # t.edge[k][1]
      BY <3>1, <2>2, <1>1 DEF Shape
    <3> QED
      BY <3>1, <3>2
  <2> QED
    BY <2>1, <2>2 DEF Shape
<1>10. Filled(v)
  BY <1>1, <1>2, <1>4, <1>6 DEF Filled
<1>11. p \in v.nodes \union {Root}
  <2>1. p \in t.nodes \union {Root} /\ p # n
    BY <1>1, <1>7 DEF Shape
  <2> QED
    BY <2>1, <1>4
<1>12. ASSUME NEW m \in Bare(v), m # p PROVE m \in Bare(t) \ {n}
  <2>1. m \in v.nodes /\ v.rows[m] = None /\ Children(v, m) = {}
    BY DEF Bare
  <2>2. ASSUME NEW x \in Children(t, m) PROVE FALSE
    <3>1. x \in t.nodes /\ t.parent[x] = m /\ x # n
      BY <1>12 DEF Children
    <3>2. x \in Children(v, m)
      BY <3>1, <1>4, <1>6 DEF Children
    <3> QED
      BY <3>2, <2>1
  <2> QED
    BY <2>1, <2>2, <1>4, <1>6 DEF Bare
<1> QED
  BY <1>4, <1>5, <1>9, <1>10, <1>11, <1>12 DEF Tries, v, p

(* Where the pruning goes on. *)
Prunable(u, m, pinned) ==
    m # Root /\ u.rows[m] = None /\ Children(u, m) = {} /\ pinned[m] = 0

(***************************************************************************)
(* Pruning from the only bare leaf leaves none.  It ends because each turn *)
(* takes a node.                                                           *)
(***************************************************************************)
LEMMA PrunedKeeps ==
    ASSUME NEW t \in Tries, NEW n \in t.nodes, NEW pinned \in [Ids -> Nat],
           \A x \in Ids : pinned[x] > 0 => t.rows[x] # None, Bare(t) \subseteq {n}
    PROVE  /\ Pruned(t, n, pinned) \in Tries
           /\ Pruned(t, n, pinned).rows = t.rows
           /\ Bare(Pruned(t, n, pinned)) = {}
<1> DEFINE N == MaxNodes
           A == {x \in Tries \X (Ids \union {Root}) :
                   /\ x[2] \in x[1].nodes \union {Root} /\ x[1].rows = t.rows
                   /\ Bare(x[1]) \subseteq {x[2]}}
           Turn(x) == IF Prunable(x[1], x[2], pinned)
                      THEN <<Removed(x[1], x[2]), x[1].parent[x[2]]>> ELSE <<x[1], x[2]>>
           turn == [k \in 1..N |-> [x \in A |-> Turn(x)]]
           Solves(h) == h = [k \in 0..N |-> IF k = 0 THEN <<t, n>> ELSE Turn(h[k - 1])]
           f == CHOOSE h : Solves(h)
<1>1. N \in Nat
  BY NodesAssumption
<1>2. <<t, n>> \in A
  <2>1. n \in Ids
    BY DEF Tries, Trees
  <2> QED
    BY <2>1
<1>3. ASSUME NEW x \in A
      PROVE  /\ Turn(x) \in A
             /\ ~ Prunable(x[1], x[2], pinned) => Turn(x) = x
             /\ Prunable(x[1], x[2], pinned) =>
                  Turn(x)[1].nodes = x[1].nodes \ {x[2]} /\ x[2] \in x[1].nodes
  <2>1. /\ x[1] \in Tries /\ x[2] \in x[1].nodes \union {Root} /\ x[1].rows = t.rows
        /\ Bare(x[1]) \subseteq {x[2]} /\ x = <<x[1], x[2]>>
    OBVIOUS
  <2>2. CASE ~ Prunable(x[1], x[2], pinned)
    BY <2>1, <2>2
  <2>3. CASE Prunable(x[1], x[2], pinned)
    <3> DEFINE u == x[1]
               m == x[2]
               v == Removed(u, m)
    <3>1. /\ u \in Tries /\ m \in u.nodes /\ u.rows[m] = None /\ Children(u, m) = {}
          /\ u.rows = t.rows /\ Bare(u) \subseteq {m}
      BY <2>1, <2>3 DEF Prunable
    <3>2. Turn(x) = <<v, u.parent[m]>>
      BY <2>3
    <3> HIDE DEF u, m, v, Turn
    <3>3. /\ v \in Tries /\ v.nodes = u.nodes \ {m} /\ v.rows = u.rows
          /\ u.parent[m] \in v.nodes \union {Root}
          /\ Bare(v) \subseteq (Bare(u) \ {m}) \union {u.parent[m]}
      BY <3>1, RemovedKeeps DEF v
    <3>4. v.nodes \subseteq Ids
      BY <3>3 DEF Tries, Trees
    <3>5. Turn(x) \in A
      BY <3>1, <3>2, <3>3, <3>4
    <3> QED
      BY <2>3, <3>1, <3>2, <3>3, <3>5 DEF u, m
  <2> QED
    BY <2>2, <2>3
<1> HIDE DEF A, Turn
<1>4. turn \in [1..N -> [A -> A]]
  BY <1>3
<1> HIDE DEF turn
<1>5. PICK g : IsLoop(g, N, A, <<t, n>>, turn)
  BY <1>1, <1>2, <1>4, LoopExists
<1>6. Solves(g)
  <2>1. ASSUME NEW k \in 0..N
        PROVE  g[k] = IF k = 0 THEN <<t, n>> ELSE Turn(g[k - 1])
    <3>1. CASE k = 0
      BY <3>1, <1>5 DEF IsLoop
    <3>2. CASE k # 0
      <4>1. k \in 1..N /\ k - 1 \in 0..N
        BY <3>2, <1>1
      <4>2. g[k - 1] \in A /\ g[k] = turn[k][g[k - 1]]
        BY <4>1, <1>5 DEF IsLoop
      <4> QED
        BY <3>2, <4>1, <4>2 DEF turn
    <3> QED
      BY <3>1, <3>2
  <2>2. g \in [0..N -> A]
    BY <1>5 DEF IsLoop
  <2> QED
    BY <2>1, <2>2
<1>7. Pruned(t, n, pinned) = f[N][1]
  BY DEF Pruned, Turn, Prunable
<1>8. Solves(f)
  BY <1>6
<1> HIDE DEF f
<1>9. \A k \in 0..N : f[k] = IF k = 0 THEN <<t, n>> ELSE Turn(f[k - 1])
  BY <1>8
<1> DEFINE B == {k \in 0..N :
                   /\ f[k] \in A
                   /\ \/ ~ Prunable(f[k][1], f[k][2], pinned)
                      \/ Cardinality(f[k][1].nodes) + k <= N}
<1>10. \A x \in A : /\ x[1] \in Tries /\ IsFiniteSet(x[1].nodes)
                    /\ Cardinality(x[1].nodes) \in Nat /\ Cardinality(x[1].nodes) <= N
                    /\ x[1].rows = t.rows /\ Bare(x[1]) \subseteq {x[2]}
                    /\ x[2] \in x[1].nodes \union {Root}
  <2> SUFFICES ASSUME NEW x \in A
               PROVE  /\ x[1] \in Tries /\ IsFiniteSet(x[1].nodes)
                      /\ Cardinality(x[1].nodes) \in Nat /\ Cardinality(x[1].nodes) <= N
                      /\ x[1].rows = t.rows /\ Bare(x[1]) \subseteq {x[2]}
                      /\ x[2] \in x[1].nodes \union {Root}
    OBVIOUS
  <2>1. /\ x[1] \in Tries /\ x[1].rows = t.rows /\ Bare(x[1]) \subseteq {x[2]}
        /\ x[2] \in x[1].nodes \union {Root}
    BY DEF A
  <2>2. x[1].nodes \in SUBSET Ids
    BY <2>1 DEF Tries, Trees
  <2> QED
    BY <2>1, <2>2, IdsFinite
<1>11. 0 \in B
  <2>1. 0 \in 0..N /\ f[0] = <<t, n>>
    BY <1>1, <1>9
  <2>2. f[0] \in A
    BY <2>1, <1>2
  <2>3. Cardinality(f[0][1].nodes) + 0 <= N
    BY <2>2, <1>1, <1>10
  <2> QED
    BY <2>1, <2>2, <2>3
<1>12. ASSUME NEW k \in 1..N, k - 1 \in B PROVE k \in B
  <2> DEFINE x == f[k - 1]
             y == f[k]
  <2>1. /\ k \in 0..N /\ k \in Nat /\ x \in A /\ y = Turn(x)
        /\ \/ ~ Prunable(x[1], x[2], pinned)
           \/ Cardinality(x[1].nodes) + (k - 1) <= N
    BY <1>1, <1>9, <1>12
  <2> HIDE DEF x, y
  <2>2. y \in A
    BY <2>1, <1>3
  <2>3. CASE ~ Prunable(x[1], x[2], pinned)
    <3>1. y = x
      BY <2>1, <2>3, <1>3
    <3> QED
      BY <3>1, <2>1, <2>2, <2>3 DEF y
  <2>4. CASE Prunable(x[1], x[2], pinned)
    <3>1. y[1].nodes = x[1].nodes \ {x[2]} /\ x[2] \in x[1].nodes
      BY <2>1, <2>4, <1>3
    <3>2. IsFiniteSet(x[1].nodes) /\ Cardinality(x[1].nodes) \in Nat
      BY <2>1, <1>10
    <3>3. Cardinality(y[1].nodes) = Cardinality(x[1].nodes) - 1
      <4> DEFINE S == x[1].nodes
                 e == x[2]
      <4>1. IsFiniteSet(S) /\ e \in S
        BY <3>1, <3>2
      <4> HIDE DEF S, e
      <4>2. Cardinality(S \ {e}) = Cardinality(S) - 1
        BY <4>1, FS_RemoveElement
      <4> QED
        BY <3>1, <4>2 DEF S, e
    <3>4. Cardinality(y[1].nodes) + k <= N
      BY <3>2, <3>3, <2>1, <2>4, <1>1
    <3> QED
      BY <3>4, <2>1, <2>2 DEF y
  <2> QED
    BY <2>3, <2>4
<1>13. N \in 0..N
  BY <1>1
<1> HIDE DEF B
<1>14. N \in B
  BY <1>1, <1>11, <1>12, <1>13, UpTo
<1> DEFINE u == f[N][1]
           m == f[N][2]
<1>15. f[N] \in A /\ (~ Prunable(u, m, pinned) \/ Cardinality(u.nodes) + N <= N)
  BY <1>14 DEF B
<1> HIDE DEF u, m
<1>16. /\ u \in Tries /\ IsFiniteSet(u.nodes) /\ Cardinality(u.nodes) \in Nat
       /\ u.rows = t.rows /\ Bare(u) \subseteq {m} /\ m \in u.nodes \union {Root}
  BY <1>10, <1>15 DEF u, m
<1>17. ~ Prunable(u, m, pinned)
  <2>1. CASE Cardinality(u.nodes) + N <= N
    <3>1. Cardinality(u.nodes) = 0
      BY <2>1, <1>1, <1>16
    <3>2. u.nodes = {}
      BY <3>1, <1>16, FS_EmptySet
    <3> QED
      BY <3>2, <1>16 DEF Prunable
  <2> QED
    BY <2>1, <1>15
<1>18. Bare(u) = {}
  <2> SUFFICES ASSUME NEW x \in Bare(u) PROVE FALSE
    OBVIOUS
  <2>1. x = m /\ x \in u.nodes /\ u.rows[x] = None /\ Children(u, x) = {}
    BY <1>16 DEF Bare
  <2>2. x \in Ids /\ x # Root
    BY <2>1, <1>16, IdsFinite DEF Tries, Trees
  <2>3. pinned[x] = 0
    BY <2>1, <2>2, <1>16
  <2> QED
    BY <2>1, <2>2, <2>3, <1>17 DEF Prunable
<1> QED
  BY <1>7, <1>16, <1>18 DEF u

-----------------------------------------------------------------------------
(* _evict_until_within_limits *)

LEMMA Bounded ==
    ASSUME NEW N \in Nat, NEW g \in [1..N -> Nat]
    PROVE  \E b \in Nat : \A i \in 1..N : g[i] <= b
<1> DEFINE B == {n \in 0..N : \E b \in Nat : \A i \in 1..n : g[i] <= b}
<1>1. 0 \in B
  <2>1. \A i \in 1..0 : g[i] <= 0
    OBVIOUS
  <2> QED
    BY <2>1
<1>2. ASSUME NEW n \in 1..N, n - 1 \in B PROVE n \in B
  <2>1. PICK b \in Nat : \A i \in 1..(n - 1) : g[i] <= b
    BY <1>2
  <2> DEFINE c == IF g[n] <= b THEN b ELSE g[n]
  <2>2. c \in Nat /\ b <= c /\ g[n] <= c
    OBVIOUS
  <2> HIDE DEF c
  <2>3. ASSUME NEW i \in 1..n PROVE g[i] <= c
    <3>1. CASE i = n
      BY <3>1, <2>2
    <3>2. CASE i # n
      <4>1. i \in 1..(n - 1) /\ g[i] \in Nat
        BY <3>2
      <4> QED
        BY <4>1, <2>1, <2>2
    <3> QED
      BY <3>1, <3>2
  <2> QED
    BY <2>2, <2>3
<1>3. N \in 0..N
  OBVIOUS
<1> HIDE DEF B
<1>4. N \in B
  BY <1>1, <1>2, <1>3, UpTo
<1> QED
  BY <1>4 DEF B

(* min finds an entry if there is a candidate. *)
LEMMA VictimIs ==
    ASSUME NEW t \in Tries, NEW pinned \in [Ids -> Nat], Candidates(t, pinned) # {}
    PROVE  Victim(t, pinned) \in Candidates(t, pinned)
<1> DEFINE C == Candidates(t, pinned)
           U == {t.used[n] : n \in C}
<1>1. C \subseteq Ids
  BY EntriesAre DEF Candidates
<1>2. /\ t.used \in [Ids -> Nat] /\ t.rows \in [Ids -> Seq(Nat)]
  BY DEF Tries, Trees
<1>3. MaxNodes \in Nat
  BY NodesAssumption
<1>4. \A v : v = Victim(t, pinned) =>
        ((\E x \in C : \A n \in C : \/ t.used[x] < t.used[n]
                                    \/ t.used[x] = t.used[n] /\ Len(t.rows[x]) >= Len(t.rows[n]))
           => v \in C)
  BY DEF Victim
<1> HIDE DEF C
<1>5. PICK u \in U : \A k \in U : u <= k
  <2>1. U \in SUBSET Nat /\ U # {}
    BY <1>1, <1>2 DEF C
  <2> QED
    BY <2>1, LeastNatural
<1> DEFINE D == {n \in C : t.used[n] = u}
           g == [n \in 1..MaxNodes |-> Len(t.rows[n])]
           L == {g[n] : n \in D}
<1>6. D \subseteq 1..MaxNodes /\ D # {}
  BY <1>1, <1>5 DEF Ids
<1>7. g \in [1..MaxNodes -> Nat]
  BY <1>2 DEF Ids
<1>8. PICK b \in Nat : \A n \in 1..MaxNodes : g[n] <= b
  <2> HIDE DEF g
  <2> QED
    BY <1>3, <1>7, Bounded
<1>9. L \in SUBSET (0..b) /\ L # {}
  <2>1. ASSUME NEW n \in D PROVE g[n] \in 0..b
    <3>1. g[n] \in Nat /\ g[n] <= b
      BY <1>6, <1>7, <1>8
    <3> HIDE DEF g
    <3> QED
      BY <3>1
  <2> HIDE DEF g, D
  <2> QED
    BY <2>1, <1>6
<1>10. PICK x \in D : \A n \in D : g[n] <= g[x]
  <2>1. Max(L) \in L /\ \A k \in L : k <= Max(L)
    <3> HIDE DEF L
    <3> QED
      BY <1>9, MaxOfBounded
  <2> HIDE DEF g, D
  <2> QED
    BY <2>1
<1>11. ASSUME NEW n \in C
       PROVE  \/ t.used[x] < t.used[n]
              \/ t.used[x] = t.used[n] /\ Len(t.rows[x]) >= Len(t.rows[n])
  <2>1. /\ t.used[x] = u /\ u <= t.used[n] /\ u \in Nat /\ t.used[n] \in Nat
        /\ x \in 1..MaxNodes /\ n \in 1..MaxNodes
    BY <1>1, <1>2, <1>5, <1>6 DEF Ids
  <2>2. CASE t.used[n] = u
    <3>1. g[n] <= g[x] /\ g[n] \in Nat /\ g[x] \in Nat
      BY <2>1, <2>2, <1>7, <1>10
    <3>2. g[n] = Len(t.rows[n]) /\ g[x] = Len(t.rows[x])
      BY <2>1
    <3> HIDE DEF g
    <3> QED
      BY <2>1, <2>2, <3>1, <3>2
  <2> QED
    BY <2>1, <2>2
<1> HIDE DEF D
<1>12. x \in C
  BY <1>10 DEF D
<1> QED
  BY <1>4, <1>11, <1>12 DEF C

(***************************************************************************)
(* v is a later tree in an eviction that began at t: some snapshots of t   *)
(* are gone, none of them of a pinned node, and no bare leaf is left.      *)
(***************************************************************************)
Emptied(t, v, pinned) ==
    /\ v \in Tries /\ Bare(v) = {}
    /\ \A n \in Entries(v) : n \in Entries(t) /\ v.rows[n] = t.rows[n]
    /\ \A n \in Entries(t) : pinned[n] > 0 => n \in Entries(v)

LEMMA EmptiedOn ==
    ASSUME NEW t, NEW u, NEW v, NEW pinned, Emptied(t, u, pinned), Emptied(u, v, pinned)
    PROVE  Emptied(t, v, pinned)
  BY DEF Emptied

(* No node that is not an entry is pinned. *)
PinsOnEntries(t, pinned) == \A n \in Ids : pinned[n] > 0 => n \in Entries(t)

(* One turn of the loop: an entry goes, and the bare nodes it leaves. *)
LEMMA OneEvicted ==
    ASSUME NEW t \in Tries, NEW pinned \in [Ids -> Nat], Bare(t) = {},
           PinsOnEntries(t, pinned), NEW n \in Candidates(t, pinned)
    PROVE  LET v == Pruned([t EXCEPT !.rows[n] = None], n, pinned)
           IN Emptied(t, v, pinned) /\ Entries(v) = Entries(t) \ {n}
<1> DEFINE u == [t EXCEPT !.rows[n] = None]
           v == Pruned(u, n, pinned)
<1>1. t \in Trees /\ Shape(t) /\ Filled(t) /\ t.nodes \subseteq Ids
  BY DEF Tries, Trees
<1>2. n \in t.nodes /\ n \in Ids /\ t.rows[n] # None /\ pinned[n] = 0 /\ Children(t, n) = {}
  BY <1>1 DEF Candidates, Entries
<1>3. SameNodes(t, u) /\ u.rows = [t.rows EXCEPT ![n] = None] /\ u \in Trees
  <2>1. [t.rows EXCEPT ![n] = None] \in [Ids -> Seq(Nat)]
    BY <1>1, <1>2 DEF Trees, None
  <2>2. u = [t EXCEPT !.rows = [t.rows EXCEPT ![n] = None]]
    BY <1>1 DEF Trees
  <2> HIDE DEF u
  <2> QED
    BY <1>1, <2>1, <2>2 DEF Trees, SameNodes
<1> HIDE DEF u
<1>4. /\ \A m \in Ids : u.rows[m] = IF m = n THEN None ELSE t.rows[m]
      /\ u.nodes = t.nodes /\ u.prefix = t.prefix
  BY <1>1, <1>3 DEF Trees, SameNodes
<1>5. Shape(u) /\ \A m : Children(u, m) = Children(t, m)
  BY <1>1, <1>3, SameNodesSame
<1>6. Filled(u)
  BY <1>1, <1>2, <1>4 DEF Filled
<1>7. u \in Tries
  BY <1>3, <1>5, <1>6 DEF Tries
<1>8. Bare(u) \subseteq {n}
  BY <1>1, <1>4, <1>5 DEF Bare
<1>9. \A m \in Ids : pinned[m] > 0 => u.rows[m] # None
  <2> SUFFICES ASSUME NEW m \in Ids, pinned[m] > 0 PROVE u.rows[m] # None
    OBVIOUS
  <2>1. m # n
    BY <1>2
  <2>2. t.rows[m] # None
    BY DEF PinsOnEntries, Entries
  <2> QED
    BY <2>1, <2>2, <1>4
<1>10. v \in Tries /\ v.rows = u.rows /\ Bare(v) = {}
  BY <1>2, <1>4, <1>7, <1>8, <1>9, PrunedKeeps
<1> HIDE DEF v
<1>11. /\ Entries(t) = {m \in Ids : t.rows[m] # None}
       /\ Entries(v) = {m \in Ids : v.rows[m] # None}
  BY <1>10, EntriesAre
<1>12. Entries(v) = Entries(t) \ {n}
  BY <1>4, <1>10, <1>11
<1>13. \A m \in Entries(v) : v.rows[m] = t.rows[m]
  BY <1>4, <1>10, <1>11, <1>12
<1>14. \A m \in Entries(t) : pinned[m] > 0 => m \in Entries(v)
  BY <1>2, <1>12
<1> QED
  BY <1>10, <1>12, <1>13, <1>14 DEF Emptied, u, v

(***************************************************************************)
(* Enforcing the limits takes unpinned snapshots until there are few       *)
(* enough or no candidate is left.  It ends because each turn takes one.   *)
(***************************************************************************)
LEMMA EvictedKeeps ==
    ASSUME NEW t \in Tries, NEW pinned \in [Ids -> Nat], Bare(t) = {},
           PinsOnEntries(t, pinned)
    PROVE  /\ Emptied(t, Evicted(t, pinned), pinned)
           /\ \/ ~ OverLimit(Evicted(t, pinned))
              \/ Candidates(Evicted(t, pinned), pinned) = {}
<1> DEFINE N == MaxNodes
           A == {u \in Tries : Emptied(t, u, pinned)}
           Goes(u) == OverLimit(u) /\ Candidates(u, pinned) # {}
           Turn(u) == IF Goes(u)
                      THEN LET v == Victim(u, pinned)
                           IN Pruned([u EXCEPT !.rows[v] = None], v, pinned)
                      ELSE u
           turn == [k \in 1..N |-> [u \in A |-> Turn(u)]]
           Solves(h) == h = [k \in 0..N |-> IF k = 0 THEN t ELSE Turn(h[k - 1])]
           f == CHOOSE h : Solves(h)
<1>1. N \in Nat
  BY NodesAssumption
<1>2. t \in A
  BY DEF Emptied
<1>3. ASSUME NEW u \in A
      PROVE  /\ Turn(u) \in A
             /\ ~ Goes(u) => Turn(u) = u
             /\ Goes(u) => \E n \in Entries(u) : Entries(Turn(u)) = Entries(u) \ {n}
  <2>1. CASE ~ Goes(u)
    BY <2>1
  <2>2. CASE Goes(u)
    <3> DEFINE n == Victim(u, pinned)
    <3>1. u \in Tries /\ Bare(u) = {} /\ Emptied(t, u, pinned)
      BY DEF Emptied
    <3>2. n \in Candidates(u, pinned)
      BY <2>2, <3>1, VictimIs
    <3>3. PinsOnEntries(u, pinned)
      BY <3>1 DEF PinsOnEntries, Emptied
    <3>4. Turn(u) = Pruned([u EXCEPT !.rows[n] = None], n, pinned)
      BY <2>2
    <3> HIDE DEF n, Turn
    <3>5. Emptied(u, Turn(u), pinned) /\ Entries(Turn(u)) = Entries(u) \ {n}
      BY <3>1, <3>2, <3>3, <3>4, OneEvicted
    <3>6. Turn(u) \in Tries /\ Emptied(t, Turn(u), pinned)
      BY <3>1, <3>5, EmptiedOn DEF Emptied
    <3>7. n \in Entries(u)
      BY <3>2 DEF Candidates
    <3> QED
      BY <2>2, <3>5, <3>6, <3>7
  <2> QED
    BY <2>1, <2>2
<1> HIDE DEF A, Turn
<1>4. turn \in [1..N -> [A -> A]]
  BY <1>3
<1> HIDE DEF turn
<1>5. PICK g : IsLoop(g, N, A, t, turn)
  BY <1>1, <1>2, <1>4, LoopExists
<1>6. Solves(g)
  <2>1. ASSUME NEW k \in 0..N
        PROVE  g[k] = IF k = 0 THEN t ELSE Turn(g[k - 1])
    <3>1. CASE k = 0
      BY <3>1, <1>5 DEF IsLoop
    <3>2. CASE k # 0
      <4>1. k \in 1..N /\ k - 1 \in 0..N
        BY <3>2, <1>1
      <4>2. g[k - 1] \in A /\ g[k] = turn[k][g[k - 1]]
        BY <4>1, <1>5 DEF IsLoop
      <4> QED
        BY <3>2, <4>1, <4>2 DEF turn
    <3> QED
      BY <3>1, <3>2
  <2>2. g \in [0..N -> A]
    BY <1>5 DEF IsLoop
  <2> QED
    BY <2>1, <2>2
<1>7. Evicted(t, pinned) = f[N]
  BY DEF Evicted, Turn
<1>8. Solves(f)
  BY <1>6
<1> HIDE DEF f
<1>9. \A k \in 0..N : f[k] = IF k = 0 THEN t ELSE Turn(f[k - 1])
  BY <1>8
<1>10. \A u \in A : /\ IsFiniteSet(Entries(u)) /\ Cardinality(Entries(u)) \in Nat
                    /\ Cardinality(Entries(u)) <= N
  <2> SUFFICES ASSUME NEW u \in A
               PROVE  /\ IsFiniteSet(Entries(u)) /\ Cardinality(Entries(u)) \in Nat
                      /\ Cardinality(Entries(u)) <= N
    OBVIOUS
  <2>1. u \in Tries
    BY DEF A
  <2>2. Entries(u) \in SUBSET Ids
    BY <2>1, EntriesAre
  <2> QED
    BY <2>2, IdsFinite
<1> DEFINE B == {k \in 0..N :
                   /\ f[k] \in A
                   /\ ~ Goes(f[k]) \/ Cardinality(Entries(f[k])) + k <= N}
<1> HIDE DEF Goes
<1>11. 0 \in B
  <2>1. 0 \in 0..N /\ f[0] = t
    BY <1>1, <1>9
  <2>2. f[0] \in A
    BY <2>1, <1>2
  <2>3. Cardinality(Entries(f[0])) + 0 <= N
    BY <2>2, <1>1, <1>10
  <2> QED
    BY <2>1, <2>2, <2>3
<1>12. ASSUME NEW k \in 1..N, k - 1 \in B PROVE k \in B
  <2> DEFINE x == f[k - 1]
             y == f[k]
  <2>1. /\ k \in 0..N /\ k \in Nat /\ x \in A /\ y = Turn(x)
        /\ ~ Goes(x) \/ Cardinality(Entries(x)) + (k - 1) <= N
    BY <1>1, <1>9, <1>12
  <2> HIDE DEF x, y
  <2>2. y \in A
    BY <2>1, <1>3
  <2>3. CASE ~ Goes(x)
    BY <2>1, <2>2, <2>3, <1>3 DEF y
  <2>4. CASE Goes(x)
    <3>1. PICK n \in Entries(x) : Entries(y) = Entries(x) \ {n}
      BY <2>1, <2>4, <1>3
    <3>2. IsFiniteSet(Entries(x)) /\ Cardinality(Entries(x)) \in Nat
      BY <2>1, <1>10
    <3>3. Cardinality(Entries(y)) = Cardinality(Entries(x)) - 1
      BY <3>1, <3>2, FS_RemoveElement
    <3>4. Cardinality(Entries(y)) + k <= N
      BY <3>2, <3>3, <2>1, <2>4, <1>1
    <3> QED
      BY <3>4, <2>1, <2>2 DEF y
  <2> QED
    BY <2>3, <2>4
<1>13. N \in 0..N
  BY <1>1
<1> HIDE DEF B
<1>14. N \in B
  BY <1>1, <1>11, <1>12, <1>13, UpTo
<1> DEFINE u == f[N]
<1>15. u \in A /\ (~ Goes(u) \/ Cardinality(Entries(u)) + N <= N)
  BY <1>14 DEF B
<1> HIDE DEF u
<1>16. ~ Goes(u)
  <2>1. CASE Cardinality(Entries(u)) + N <= N
    <3>1. Cardinality(Entries(u)) = 0
      BY <2>1, <1>1, <1>10, <1>15
    <3>2. ~ OverLimit(u)
      BY <3>1, LimitsAssumption DEF OverLimit, Limit
    <3> QED
      BY <3>2 DEF Goes
  <2> QED
    BY <2>1, <1>15
<1> QED
  BY <1>7, <1>15, <1>16 DEF u, A, Goes

-----------------------------------------------------------------------------
(* The snapshots, and the limits after an eviction. *)

LEMMA PartCounted ==
    ASSUME NEW S, IsFiniteSet(S), NEW T \in SUBSET S
    PROVE  /\ Cardinality(S) \in Nat /\ Cardinality(T) \in Nat
           /\ Cardinality(S \ T) = Cardinality(S) - Cardinality(T)
<1>1. S \intersect T = T
  OBVIOUS
<1>2. IsFiniteSet(T) /\ Cardinality(T) \in Nat /\ Cardinality(S) \in Nat
  BY FS_Subset, FS_CardinalityType
<1>3. Cardinality(S \ T) = Cardinality(S) - Cardinality(S \intersect T)
  BY FS_Difference
<1> QED
  BY <1>1, <1>2, <1>3

(* The nodes with a snapshot of p. *)
With(t, p) == {n \in Entries(t) : t.rows[n] = p}

Besides(full, t, p) == {n \in Entries(full) \ Entries(t) : full.rows[n] = p}

(***************************************************************************)
(* What publish forks and eviction releases is what the entries change by: *)
(* from before to full only pages are added, from full to after only taken.*)
(***************************************************************************)
LEMMA EntriesCounted ==
    ASSUME NEW before \in Tries, NEW full \in Tries, NEW after \in Tries, NEW p,
           \A n \in Entries(before) : n \in Entries(full) /\ full.rows[n] = before.rows[n],
           \A n \in Entries(after) : n \in Entries(full) /\ after.rows[n] = full.rows[n]
    PROVE  /\ Cardinality(With(before, p)) \in Nat /\ Cardinality(With(after, p)) \in Nat
           /\ Cardinality(With(before, p))
                + Cardinality(Besides(full, before, p)) - Cardinality(Besides(full, after, p))
              = Cardinality(With(after, p))
<1> DEFINE S == With(full, p)
           A == With(before, p)
           B == With(after, p)
           X == Besides(full, before, p)
           Y == Besides(full, after, p)
<1>1. IsFiniteSet(S)
  <2>1. S \in SUBSET Ids
    BY EntriesAre DEF With
  <2> QED
    BY <2>1, IdsFinite
<1>2. A \in SUBSET S /\ B \in SUBSET S /\ X = S \ A /\ Y = S \ B
  BY DEF With, Besides
<1> HIDE DEF S, A, B, X, Y
<1>3. /\ Cardinality(S) \in Nat /\ Cardinality(A) \in Nat
      /\ Cardinality(S \ A) = Cardinality(S) - Cardinality(A)
  BY <1>1, <1>2, PartCounted
<1>4. /\ Cardinality(B) \in Nat
      /\ Cardinality(S \ B) = Cardinality(S) - Cardinality(B)
  BY <1>1, <1>2, PartCounted
<1>5. Cardinality(A) + Cardinality(X) - Cardinality(Y) = Cardinality(B)
  BY <1>2, <1>3, <1>4
<1> QED
  BY <1>3, <1>4, <1>5 DEF A, B, X, Y

(* Above the limits every leaf of t is pinned. *)
Yields(t, pinned) ==
    Cardinality(Entries(t)) > Limit =>
        \A n \in t.nodes : Children(t, n) = {} => pinned[n] > 0

(***************************************************************************)
(* Pages are added to the tree, giving full, and the limits enforced: the  *)
(* steps of publish and of release that change the tree.                   *)
(***************************************************************************)
Refilled(full, pinned, ps) ==
    /\ tree' \in Tries /\ Bare(tree') = {}
    /\ \A n \in Entries(tree') : \/ n \in Entries(tree) /\ tree'.rows[n] = tree.rows[n]
                                 \/ tree'.rows[n] \in ps
    /\ \A n \in Entries(tree) : pinned[n] > 0 =>
         n \in Entries(tree') /\ tree'.rows[n] = tree.rows[n]
    /\ Yields(tree', pinned)
    /\ snaps' \in [PagedPrefixes -> Nat] /\ SnapshotsAreEntries'

LEMMA RefilledIs ==
    ASSUME tree \in Tries, Bare(tree) = {}, SnapshotsAreEntries,
           NEW full, NEW ps, Filling(tree, full, ps),
           NEW pinned \in [Ids -> Nat], PinsOnEntries(full, pinned),
           tree' = Evicted(full, pinned), snaps' = NodeSnapshots(tree, full, tree')
    PROVE  Refilled(full, pinned, ps)
<1>1. full \in Tries /\ Bare(full) = {}
  BY DEF Filling
<1>2. /\ Emptied(full, tree', pinned)
      /\ ~ OverLimit(tree') \/ Candidates(tree', pinned) = {}
  BY <1>1, EvictedKeeps
<1>3. tree' \in Tries /\ Bare(tree') = {}
  BY <1>2 DEF Emptied
<1>4. /\ \A n \in Entries(tree) : n \in Entries(full) /\ full.rows[n] = tree.rows[n]
      /\ \A n \in Entries(full) : n \in Entries(tree) \/ full.rows[n] \in ps
      /\ \A n \in Entries(tree') : n \in Entries(full) /\ tree'.rows[n] = full.rows[n]
      /\ \A n \in Entries(full) : pinned[n] > 0 => n \in Entries(tree')
  BY <1>2 DEF Filling, Emptied
<1>5. Yields(tree', pinned)
  <2> SUFFICES ASSUME Cardinality(Entries(tree')) > Limit,
                      NEW n \in tree'.nodes, Children(tree', n) = {}
               PROVE  pinned[n] > 0
    BY DEF Yields
  <2>1. Candidates(tree', pinned) = {}
    BY <1>2 DEF OverLimit
  <2>2. n \in Entries(tree')
    BY <1>3 DEF Bare, Entries
  <2>3. n \in Ids
    BY <1>3, <2>2, EntriesAre
  <2>4. pinned[n] # 0
    BY <2>1, <2>2 DEF Candidates
  <2> QED
    BY <2>3, <2>4
<1>6. ASSUME NEW p \in PagedPrefixes
      PROVE  snaps'[p] = Cardinality(With(tree', p)) /\ Cardinality(With(tree', p)) \in Nat
  <2>1. snaps[p] = Cardinality(With(tree, p))
    BY DEF SnapshotsAreEntries, With
  <2>2. snaps'[p] = snaps[p]
          + Cardinality(Besides(full, tree, p)) - Cardinality(Besides(full, tree', p))
    BY DEF NodeSnapshots, Besides
  <2> DEFINE after == tree'
  <2>3. /\ Cardinality(With(after, p)) \in Nat
        /\ Cardinality(With(tree, p))
             + Cardinality(Besides(full, tree, p)) - Cardinality(Besides(full, after, p))
           = Cardinality(With(after, p))
    <3>1. after \in Tries /\ tree \in Tries
      BY <1>3
    <3>2. \A n \in Entries(after) : n \in Entries(full) /\ after.rows[n] = full.rows[n]
      BY <1>4
    <3> HIDE DEF after
    <3> QED
      BY <1>1, <1>4, <3>1, <3>2, EntriesCounted
  <2> QED
    BY <2>1, <2>2, <2>3
<1>7. SnapshotsAreEntries'
  BY <1>6 DEF SnapshotsAreEntries, With
<1>8. snaps' \in [PagedPrefixes -> Nat]
  <2>1. snaps' = [p \in PagedPrefixes |-> snaps'[p]]
    BY DEF NodeSnapshots
  <2>2. \A p \in PagedPrefixes : snaps'[p] \in Nat
    BY <1>6
  <2> QED
    BY <2>1, <2>2
<1> QED
  BY <1>3, <1>4, <1>5, <1>7, <1>8 DEF Refilled

-----------------------------------------------------------------------------
(* _lookup *)

(* The full pages that leave a token to compute. *)
LEMMA ReusablePages ==
    ASSUME NEW L \in Nat, L >= 1
    PROVE  LET m == ((L - 1) \div PageSize) * PageSize
           IN /\ m \in Nat /\ m < L
              /\ \A k \in Nat : k < L /\ k % PageSize = 0 => k <= m
<1> DEFINE P == PageSize
           q == (L - 1) \div P
<1>1. P \in Nat \ {0} /\ L - 1 \in Nat
  BY LimitsAssumption
<1> HIDE DEF P
<1>2. q \in Nat /\ q * P \in Nat /\ q * P <= L - 1 /\ L - 1 < q * P + P
  <2>1. /\ q \in Nat /\ (L - 1) % P \in Nat /\ (L - 1) % P < P
        /\ L - 1 = P * q + ((L - 1) % P)
    BY <1>1, DivisionNat
  <2> HIDE DEF q
  <2>2. P * q = q * P /\ q * P \in Nat
    BY <2>1, <1>1
  <2> QED
    BY <2>1, <2>2, <1>1
<1> HIDE DEF q
<1>3. ASSUME NEW k \in Nat, k < L, k % P = 0 PROVE k <= q * P
  <2> DEFINE j == k \div P
  <2>1. j \in Nat /\ k = P * j + (k % P)
    BY <1>1, DivisionNat
  <2> HIDE DEF j
  <2>2. k = j * P
    BY <2>1, <1>1, <1>3
  <2>3. ~ (q < j)
    <3> SUFFICES ASSUME q < j PROVE FALSE
      OBVIOUS
    <3>1. q * P + P <= j * P
      BY <2>1, <1>1, <1>2, TimesMonotone
    <3> QED
      BY <3>1, <2>2, <1>1, <1>2, <1>3
  <2>4. j = q \/ j * P + P <= q * P
    BY <2>1, <2>3, <1>1, <1>2, TimesMonotone
  <2> QED
    BY <2>2, <2>4, <1>1, <1>2
<1>4. q * P < L
  BY <1>2
<1> QED
  BY <1>2, <1>3, <1>4 DEF q, P

(* A snapshot holds full pages of some prompt. *)
LEMMA PagedPrefix ==
    ASSUME NEW p \in PagedPrefixes
    PROVE  /\ p \in PromptPrefixes /\ p \in Seq(Nat) /\ p # None
           /\ Len(p) \in Nat /\ Len(p) % PageSize = 0
<1>1. PICK t \in Prompts : p \in PagePrefixes(t, Len(t))
  BY DEF PagedPrefixes
<1>2. PICK k \in 1..Len(t) : k % PageSize = 0 /\ p = SubSeq(t, 1, k)
  BY <1>1 DEF PagePrefixes
<1>3. t \in Seq(Nat) /\ Len(t) \in Nat /\ k \in 0..Len(t) /\ k \in Nat
  BY PromptsAssumption
<1>4. p \in PromptPrefixes
  BY <1>2, PromptPrefix
<1>5. p \in Seq(Nat) /\ Len(p) = k
  BY <1>2, <1>3, FirstTokens
<1> QED
  BY <1>2, <1>3, <1>4, <1>5 DEF PromptPrefixes

(* The snapshots that could serve a prompt. *)
Useful(t, s) == {m \in Entries(t) : IsStrictPrefix(t.rows[m], s)}

Longer(t, s, n) ==
    IF Useful(t, s) = {} THEN n = Root
    ELSE n \in Useful(t, s) /\ \A m \in Useful(t, s) : Len(t.rows[m]) <= Len(t.rows[n])

LEMMA LookupFinds ==
    ASSUME NEW t \in Tries, NEW s \in Prompts
    PROVE  Longer(t, s, RadixLookup(t, s))
<1> DEFINE m == Reusable(s)
           w == SubSeq(s, 1, m)
           W == {Root} \union {n \in Visited(t, w) \ {Root} : t.rows[n] # None}
           d == RadixLookup(t, s)
<1>1. t \in Trees /\ Shape(t) /\ t.nodes \subseteq Ids
  BY DEF Tries, Trees
<1>2. s \in Seq(Nat) /\ Len(s) \in Nat /\ Len(s) >= 1
  BY PromptsAssumption
<1>3. /\ m \in Nat /\ m < Len(s)
      /\ \A k \in Nat : k < Len(s) /\ k % PageSize = 0 => k <= m
  BY <1>2, ReusablePages DEF Reusable
<1>4. d = Deepest(t, W)
  BY DEF RadixLookup
<1> HIDE DEF m, d
<1>5. m \in 0..Len(s) /\ w \in Seq(Nat) /\ Len(w) = m
  BY <1>2, <1>3, FirstTokens
<1>6. \A n : n \in Visited(t, w) <=> n \in t.nodes \union {Root} /\ Starts(TokensOf(t, n), w)
  BY <1>1, <1>5, VisitedMembers
<1>7. \A n \in Entries(t) : /\ n \in t.nodes /\ n # Root /\ t.rows[n] = t.prefix[n]
                            /\ TokensOf(t, n) = t.rows[n] /\ t.rows[n] \in PagedPrefixes
                            /\ t.rows[n] # None
  BY EntriesAre, IdsFinite DEF TokensOf, Entries
<1>8. ASSUME NEW n \in Entries(t)
      PROVE  Starts(t.rows[n], w) <=> IsStrictPrefix(t.rows[n], s)
  <2> DEFINE p == t.rows[n]
  <2>1. p \in Seq(Nat) /\ Len(p) \in Nat /\ Len(p) % PageSize = 0
    BY <1>7, PagedPrefix
  <2> HIDE DEF p
  <2>2. Starts(p, w) <=> Starts(p, s) /\ Len(p) <= m
    BY <2>1, <1>2, <1>5, StartsFirst
  <2>3. IsPrefix(p, s) <=> Starts(p, s)
    BY <2>1, <1>2, PrefixMeans
  <2>4. Len(p) <= m => p # s
    BY <1>2, <1>3
  <2>5. Starts(p, s) /\ p # s => Len(p) < Len(s)
    <3> SUFFICES ASSUME Starts(p, s), ~ (Len(p) < Len(s)) PROVE p = s
      OBVIOUS
    <3>1. Len(s) <= Len(p)
      BY <2>1, <1>2
    <3> QED
      BY <3>1, <2>1, <1>2, StartsEqual
  <2> QED
    BY <2>1, <2>2, <2>3, <2>4, <2>5, <1>3 DEF IsStrictPrefix, p
<1>9. \A n : n \in W /\ n # Root <=> n \in Useful(t, s)
  <2>1. ASSUME NEW n \in W, n # Root PROVE n \in Useful(t, s)
    <3>1. n \in Visited(t, w) /\ t.rows[n] # None
      BY <2>1
    <3>2. n \in Entries(t) /\ Starts(t.rows[n], w)
      BY <3>1, <2>1, <1>6, <1>7 DEF Entries
    <3> QED
      BY <3>2, <1>8 DEF Useful
  <2>2. ASSUME NEW n \in Useful(t, s) PROVE n \in W /\ n # Root
    <3>1. n \in Entries(t) /\ Starts(TokensOf(t, n), w)
      BY <1>7, <1>8 DEF Useful
    <3> QED
      BY <3>1, <1>6, <1>7
  <2> QED
    BY <2>1, <2>2
<1>10. Root \in W /\ Len(TokensOf(t, Root)) = 0
  BY DEF TokensOf, None
<1>11. W \in SUBSET (t.nodes \union {Root})
  BY <1>6
<1> HIDE DEF w
<1>12. \A n \in W : Len(TokensOf(t, n)) <= m
  <2>1. \A n \in W : n = Root \/ Starts(TokensOf(t, n), w)
    BY <1>6
  <2> QED
    BY <2>1, <1>3, <1>5, <1>10 DEF Starts
<1> HIDE DEF W
<1>13. /\ d \in W
       /\ \A n \in W : Len(TokensOf(t, n)) <= Len(TokensOf(t, d))
  BY <1>1, <1>3, <1>4, <1>10, <1>11, <1>12, DeepestMember
<1>14. CASE Useful(t, s) = {}
  <2>1. d = Root
    BY <1>9, <1>13, <1>14
  <2> QED
    BY <2>1, <1>14 DEF Longer, d
<1>15. CASE Useful(t, s) # {}
  <2>1. \A n \in Useful(t, s) :
           n \in W /\ TokensOf(t, n) = t.rows[n] /\ Len(t.rows[n]) \in Nat /\ Len(t.rows[n]) >= 1
    <3> TAKE n \in Useful(t, s)
    <3>1. n \in Entries(t)
      BY DEF Useful
    <3>2. t.rows[n] \in Seq(Nat) /\ t.rows[n] # None /\ TokensOf(t, n) = t.rows[n]
      BY <3>1, <1>7, PagedPrefix
    <3>3. Len(t.rows[n]) \in Nat /\ Len(t.rows[n]) >= 1
      BY <3>2 DEF None
    <3> QED
      BY <3>2, <3>3, <1>9
  <2>2. d # Root
    <3> SUFFICES ASSUME d = Root PROVE FALSE
      OBVIOUS
    <3>1. PICK n \in Useful(t, s) : TRUE
      BY <1>15
    <3>2. Len(TokensOf(t, n)) <= Len(TokensOf(t, d))
      BY <3>1, <2>1, <1>13
    <3> QED
      BY <3>2, <2>1, <1>10
  <2>3. d \in Useful(t, s)
    BY <2>2, <1>9, <1>13
  <2>4. \A n \in Useful(t, s) : Len(t.rows[n]) <= Len(t.rows[d])
    BY <2>1, <2>3, <1>13
  <2> QED
    BY <2>3, <2>4, <1>15 DEF Longer, d
<1> QED
  BY <1>14, <1>15

-----------------------------------------------------------------------------
(***************************************************************************)
(* The inductive invariant of RadixPrefix: the tree is a trie without bare *)
(* leaves, what is held is accounted for, and a slot without a request     *)
(* holds no lease.                                                         *)
(***************************************************************************)
RadixSound ==
    /\ tree \in Tries /\ Bare(tree) = {}
    /\ pins \in [Ids -> Nat]
    /\ prompt \in [Slots -> Prompts \union {None}]
    /\ length \in [Slots -> Nat] /\ published \in [Slots -> Nat]
    /\ lease \in [Slots -> Ids \union {Root}]
    /\ snaps \in [PagedPrefixes -> Nat]
    /\ PinsAreLeases /\ SnapshotsAreEntries /\ Yields(tree, pins)
    /\ \A r \in Slots : prompt[r] = None => lease[r] = Root

LEMMA SoundIsTree == RadixSound => TreeSound
<1> SUFFICES ASSUME RadixSound PROVE TreeSound
  OBVIOUS
<1>1. /\ tree \in Tries /\ tree \in Trees /\ Shape(tree) /\ Filled(tree)
      /\ tree.nodes \subseteq Ids /\ Bare(tree) = {}
  BY DEF RadixSound, Tries, Trees
<1>2. RadixTypeOK
  <2>1. \A n \in Ids : tree.rows[n] \in PromptPrefixes \union {None}
    BY <1>1, PagedPrefix DEF Filled
  <2>2. tree.parent \in [Ids -> Ids \union {Root}] /\ tree.used \in [Ids -> Nat]
    BY <1>1 DEF Trees
  <2> QED
    BY <2>1, <2>2, <1>1 DEF RadixTypeOK, RadixSound
<1>3. CompressedTrie
  <2>1. ASSUME NEW n \in tree.nodes
        PROVE  /\ Path(tree, n) = tree.prefix[n]
               /\ tree.rows[n] \in {None, tree.prefix[n]}
               /\ Children(tree, n) = {} => tree.rows[n] # None
    <3>1. n \in Ids /\ n # Root
      BY <1>1, IdsFinite
    <3>2. Path(tree, n) = tree.prefix[n]
      BY <3>1, <1>1, PathIs DEF TokensOf
    <3>3. tree.rows[n] \in {None, tree.prefix[n]}
      BY <3>1, <1>1 DEF Filled
    <3>4. Children(tree, n) = {} => tree.rows[n] # None
      BY <1>1 DEF Bare
    <3> QED
      BY <3>2, <3>3, <3>4
  <2> QED
    BY <2>1, <1>1 DEF CompressedTrie, Shape
<1>4. FindsLongest
  <2> SUFFICES ASSUME NEW t \in Prompts
               PROVE  LET n == RadixLookup(tree, t)
                          useful == {m \in Entries(tree) : IsStrictPrefix(tree.rows[m], t)}
                      IN IF useful = {} THEN n = Root
                         ELSE n \in useful /\ \A m \in useful : Len(tree.rows[m]) <= Len(tree.rows[n])
    BY DEF FindsLongest
  <2>1. Longer(tree, t, RadixLookup(tree, t))
    BY <1>1, LookupFinds
  <2> QED
    BY <2>1 DEF Longer, Useful
<1> QED
  BY <1>2, <1>3, <1>4 DEF TreeSound

LEMMA SoundIsExact == RadixSound => HoldingsExact
  BY DEF RadixSound, HoldingsExact, LimitsYieldToLeases, Yields

(* Only entries are pinned, and the entries that are leased are. *)
LEMMA PinnedEntries ==
    ASSUME RadixSound
    PROVE  /\ PinsOnEntries(tree, pins)
           /\ \A r \in Slots : lease[r] # Root =>
                /\ lease[r] \in Ids /\ lease[r] \in Entries(tree) /\ pins[lease[r]] > 0
<1>1. ASSUME NEW n \in Ids, pins[n] > 0 PROVE n \in Entries(tree)
  <2>1. Cardinality(Holders(n)) > 0
    BY <1>1 DEF RadixSound, PinsAreLeases, Holders
  <2>2. Holders(n) # {}
    BY <2>1, FS_EmptySet
  <2>3. PICK r \in Slots : lease[r] = n
    BY <2>2 DEF Holders
  <2> QED
    BY <2>3, IdsFinite DEF RadixSound, PinsAreLeases
<1>2. ASSUME NEW r \in Slots, lease[r] # Root
      PROVE  lease[r] \in Ids /\ lease[r] \in Entries(tree) /\ pins[lease[r]] > 0
  <2>1. lease[r] \in Ids /\ lease[r] \in Entries(tree)
    BY <1>2 DEF RadixSound, PinsAreLeases
  <2>2. pins[lease[r]] = Cardinality(Holders(lease[r]))
    BY <2>1 DEF RadixSound, PinsAreLeases, Holders
  <2> QED
    BY <2>1, <2>2, HoldersCounted
<1> QED
  BY <1>1, <1>2 DEF PinsOnEntries

LEMMA EmptyTreeIs ==
    EmptyTree \in Tries /\ Entries(EmptyTree) = {} /\ Bare(EmptyTree) = {} /\ EmptyTree.nodes = {}
<1>1. EmptyTree \in Trees /\ EmptyTree.nodes = {}
  BY IdsFinite DEF EmptyTree, Trees, None
<1>2. Shape(EmptyTree)
  BY <1>1 DEF Shape
<1>3. \A n \in Ids : EmptyTree.rows[n] = None
  BY DEF EmptyTree
<1>4. Filled(EmptyTree)
  BY <1>1, <1>3 DEF Filled
<1> QED
  BY <1>1, <1>2, <1>4 DEF Tries, Entries, Bare

LEMMA RadixInitSound == RadixInit => RadixSound
<1> SUFFICES ASSUME RadixInit PROVE RadixSound
  OBVIOUS
<1>1. tree = EmptyTree /\ tree \in Tries /\ Entries(tree) = {} /\ Bare(tree) = {}
  BY EmptyTreeIs DEF RadixInit
<1>2. PinsAreLeases
  <2>1. \A n \in Ids : {r \in Slots : lease[r] = n} = {}
    BY IdsFinite DEF RadixInit
  <2> QED
    BY <2>1, FS_EmptySet DEF RadixInit, PinsAreLeases
<1>3. SnapshotsAreEntries
  <2>1. \A p \in PagedPrefixes : {n \in Entries(tree) : tree.rows[n] = p} = {}
    BY <1>1
  <2> QED
    BY <2>1, FS_EmptySet DEF RadixInit, SnapshotsAreEntries
<1>4. Yields(tree, pins)
  BY <1>1, FS_EmptySet, LimitType DEF Yields
<1>5. /\ pins \in [Ids -> Nat] /\ prompt \in [Slots -> Prompts \union {None}]
      /\ length \in [Slots -> Nat] /\ published \in [Slots -> Nat]
      /\ lease \in [Slots -> Ids \union {Root}] /\ snaps \in [PagedPrefixes -> Nat]
  BY DEF RadixInit
<1> QED
  BY <1>1, <1>2, <1>3, <1>4, <1>5 DEF RadixSound, RadixInit

(* What a lookup lends is an entry, a true prefix of the prompt. *)
LEMMA RadixLookupSound ==
    ASSUME RadixSound, NEW t \in Prompts, RadixLookup(tree, t) # Root
    PROVE  LET n == RadixLookup(tree, t)
           IN /\ n \in Entries(tree) /\ n \in Ids /\ tree.rows[n] \in PagedPrefixes
              /\ tree.rows[n] \in PagePrefixes(t, Len(t) - 1)
<1> DEFINE n == RadixLookup(tree, t)
           p == tree.rows[n]
<1>1. tree \in Tries
  BY DEF RadixSound
<1>2. Longer(tree, t, n)
  BY <1>1, LookupFinds
<1> HIDE DEF n
<1>3. n # Root
  BY DEF n
<1>4. n \in Entries(tree) /\ IsStrictPrefix(p, t)
  BY <1>2, <1>3 DEF Longer, Useful
<1>5. n \in Ids /\ p \in PagedPrefixes
  BY <1>1, <1>4, EntriesAre
<1> HIDE DEF p
<1>6. p \in Seq(Nat) /\ p # None /\ Len(p) \in Nat /\ Len(p) % PageSize = 0
  BY <1>5, PagedPrefix
<1>7. t \in Seq(Nat) /\ Len(t) \in Nat
  BY PromptsAssumption
<1>8. Starts(p, t) /\ p # t
  BY <1>4, <1>6, <1>7, PrefixMeans DEF IsStrictPrefix
<1>9. Len(p) \in 1..Len(t) /\ Len(p) <= Len(t) - 1
  <2>1. Len(p) >= 1
    BY <1>6 DEF None
  <2>2. ~ (Len(t) <= Len(p))
    BY <1>6, <1>7, <1>8, StartsEqual
  <2> QED
    BY <2>1, <2>2, <1>6, <1>7
<1>10. p = SubSeq(t, 1, Len(p))
  <2>1. SubSeq(p, 1, Len(p)) = p
    BY <1>6, SubSeqFull
  <2> QED
    BY <2>1, <1>4 DEF IsStrictPrefix, IsPrefix
<1>11. p \in PagePrefixes(t, Len(t) - 1)
  BY <1>6, <1>9, <1>10 DEF PagePrefixes
<1> QED
  BY <1>4, <1>5, <1>11 DEF n, p

LEMMA RadixAcquireSound ==
    ASSUME RadixSound, NEW r \in Slots, NEW t \in Prompts, RadixAcquire(r, t)
    PROVE  RadixSound' /\ tree'.rows = tree.rows /\ Entries(tree') = Entries(tree)
<1> DEFINE n == RadixLookup(tree, t)
<1>1. /\ prompt[r] = None /\ lease[r] = Root
      /\ prompt' = [prompt EXCEPT ![r] = t] /\ lease' = [lease EXCEPT ![r] = n]
      /\ snaps' = snaps
      /\ IF n = Root THEN UNCHANGED <<length, published, pins, tree>>
         ELSE /\ length' = [length EXCEPT ![r] = Len(tree.rows[n])]
              /\ published' = [published EXCEPT ![r] = Len(tree.rows[n])]
              /\ pins' = [pins EXCEPT ![n] = pins[n] + 1]
              /\ tree' = Stamp(tree, n)
  BY DEF RadixAcquire, RadixSound
<1>2. n # Root => n \in Entries(tree) /\ n \in Ids /\ tree.rows[n] \in PagedPrefixes
  BY RadixLookupSound
<1> HIDE DEF n
<1>3. n # Root => Len(tree.rows[n]) \in Nat
  BY <1>2, PagedPrefix
<1>4. /\ tree \in Tries /\ Bare(tree) = {} /\ pins \in [Ids -> Nat]
      /\ lease \in [Slots -> Ids \union {Root}] /\ t # None
  BY PromptsAssumption DEF RadixSound, None
<1>5. tree' \in Tries /\ SameNodes(tree, tree') /\ tree'.rows = tree.rows
  <2>1. CASE n = Root
    BY <2>1, <1>1, <1>4 DEF SameNodes
  <2>2. CASE n # Root
    BY <2>2, <1>1, <1>4, StampKeeps
  <2> QED
    BY <2>1, <2>2
<1>6. /\ Entries(tree') = Entries(tree) /\ tree'.nodes = tree.nodes
      /\ \A m : Children(tree', m) = Children(tree, m)
      /\ Bare(tree') = {}
  BY <1>4, <1>5 DEF SameNodes, Entries, Children, Bare
<1>7. \A q \in Ids : Cardinality(Holders(q)') =
        IF n = q THEN Cardinality(Holders(q)) + 1 ELSE Cardinality(Holders(q))
  BY <1>1, <1>4, IdsFinite, HoldersGain
<1>8. \A q \in Ids : pins'[q] = IF n = q THEN pins[q] + 1 ELSE pins[q]
  BY <1>1, <1>2, <1>4, IdsFinite
<1>9. PinsAreLeases'
  <2>1. ASSUME NEW q \in Ids PROVE pins'[q] = Cardinality(Holders(q)')
    <3>1. pins[q] = Cardinality(Holders(q)) /\ pins[q] \in Nat
      BY <1>4 DEF RadixSound, PinsAreLeases, Holders
    <3> QED
      BY <3>1, <1>7, <1>8
  <2>2. ASSUME NEW q \in Slots, lease'[q] # Root PROVE lease'[q] \in Entries(tree')
    BY <2>2, <1>1, <1>2, <1>4, <1>6 DEF RadixSound, PinsAreLeases
  <2> QED
    BY <2>1, <2>2 DEF PinsAreLeases, Holders
<1>10. Yields(tree', pins')
  <2> SUFFICES ASSUME Cardinality(Entries(tree)) > Limit,
                      NEW m \in tree.nodes, Children(tree, m) = {}
               PROVE  pins'[m] > 0
    BY <1>6 DEF Yields
  <2>1. pins[m] > 0 /\ m \in Ids
    BY <1>4 DEF RadixSound, Yields, Tries, Trees
  <2> QED
    BY <2>1, <1>4, <1>8
<1>11. SnapshotsAreEntries'
  BY <1>1, <1>5, <1>6 DEF RadixSound, SnapshotsAreEntries
<1>12. /\ pins' \in [Ids -> Nat] /\ length' \in [Slots -> Nat] /\ published' \in [Slots -> Nat]
  <2>1. CASE n = Root
    BY <2>1, <1>1 DEF RadixSound
  <2>2. CASE n # Root
    <3>1. pins[n] + 1 \in Nat /\ pins' = [pins EXCEPT ![n] = pins[n] + 1]
      BY <2>2, <1>1, <1>2, <1>4
    <3>2. pins' \in [Ids -> Nat]
      BY <3>1, <1>4
    <3> DEFINE k == Len(tree.rows[n])
    <3>3. /\ k \in Nat /\ length' = [length EXCEPT ![r] = k]
          /\ published' = [published EXCEPT ![r] = k]
      BY <2>2, <1>1, <1>3
    <3> HIDE DEF k
    <3> QED
      BY <3>2, <3>3 DEF RadixSound
  <2> QED
    BY <2>1, <2>2
<1>13. /\ prompt' \in [Slots -> Prompts \union {None}]
       /\ lease' \in [Slots -> Ids \union {Root}]
  BY <1>1, <1>2, <1>4 DEF RadixSound
<1>14. \A s \in Slots : prompt'[s] = None => lease'[s] = Root
  BY <1>1, <1>4 DEF RadixSound
<1>15. RadixSound'
  <2>1. snaps' \in [PagedPrefixes -> Nat]
    BY <1>1 DEF RadixSound
  <2> QED
    BY <2>1, <1>5, <1>6, <1>9, <1>10, <1>11, <1>12, <1>13, <1>14 DEF RadixSound
<1> QED
  BY <1>5, <1>6, <1>15

LEMMA RadixPublishSound ==
    ASSUME RadixSound, NEW r \in Slots, NEW n \in 1..Len(prompt[r]), RadixPublish(r, n)
    PROVE  /\ RadixSound'
           /\ \A m \in Entries(tree') : \/ m \in Entries(tree) /\ tree'.rows[m] = tree.rows[m]
                                        \/ tree'.rows[m] \in PagePrefixes(prompt[r], Len(prompt[r]))
           /\ \A q \in Slots : lease[q] # Root => tree'.rows[lease[q]] = tree.rows[lease[q]]
<1> DEFINE first == published[r] \div PageSize
           end == n \div PageSize
           last == IF end < Publishable THEN end ELSE Publishable
           full == WithPages(tree, prompt[r], first, last)
           ps == PagePrefixes(prompt[r], Len(prompt[r]))
<1>1. /\ prompt[r] \in Prompts /\ prompt[r] \in Seq(Nat) /\ Len(prompt[r]) \in Nat /\ n \in Nat
      /\ length' = [length EXCEPT ![r] = n]
      /\ UNCHANGED <<pins, prompt, lease>>
      /\ IF end <= first THEN UNCHANGED <<tree, published, snaps>>
         ELSE /\ tree' = Evicted(full, pins)
              /\ snaps' = NodeSnapshots(tree, full, tree')
              /\ published' = IF last <= first THEN published
                              ELSE [published EXCEPT ![r] = last * PageSize]
  <2>1. prompt[r] \in Prompts
    BY DEF RadixPublish, RadixSound
  <2>2. prompt[r] \in Seq(Nat) /\ Len(prompt[r]) \in Nat /\ n \in Nat
    BY <2>1, PromptsAssumption
  <2>3. /\ length' = [length EXCEPT ![r] = n]
        /\ UNCHANGED <<pins, prompt, lease>>
    BY DEF RadixPublish
  <2>4. IF end <= first THEN UNCHANGED <<tree, published, snaps>>
        ELSE /\ tree' = Evicted(full, pins)
             /\ snaps' = NodeSnapshots(tree, full, tree')
             /\ published' = IF last <= first THEN published
                             ELSE [published EXCEPT ![r] = last * PageSize]
    BY DEF RadixPublish
  <2> QED
    BY <2>1, <2>2, <2>3, <2>4
<1>2. /\ tree \in Tries /\ Bare(tree) = {} /\ pins \in [Ids -> Nat] /\ published[r] \in Nat
      /\ lease \in [Slots -> Ids \union {Root}]
  BY DEF RadixSound
<1>3. /\ first \in Nat /\ end \in Nat /\ last \in Nat /\ last <= end
      /\ PageSize \in Nat \ {0} /\ end * PageSize <= n
  <2>1. PageSize \in Nat \ {0} /\ Publishable \in Nat
    BY LimitsAssumption, LimitType DEF Publishable
  <2>2. /\ end \in Nat /\ n % PageSize \in Nat /\ n = PageSize * end + (n % PageSize)
        /\ first \in Nat
    BY <2>1, <1>1, <1>2, DivisionNat
  <2> HIDE DEF first, end
  <2>3. PageSize * end = end * PageSize /\ end * PageSize \in Nat
    BY <2>1, <2>2
  <2>4. end * PageSize <= n
    BY <2>2, <2>3, <1>1
  <2> QED
    BY <2>1, <2>2, <2>4
<1> HIDE DEF first, end, last
<1>4. last * PageSize \in Nat /\ last * PageSize <= Len(prompt[r])
  <2>1. last = end \/ last * PageSize + PageSize <= end * PageSize
    BY <1>3, TimesMonotone
  <2>2. last * PageSize \in Nat /\ end * PageSize \in Nat
    BY <1>3
  <2>3. last * PageSize <= end * PageSize
    BY <2>1, <2>2, <1>3
  <2>4. n <= Len(prompt[r]) /\ n \in Nat /\ Len(prompt[r]) \in Nat
    BY <1>1
  <2> DEFINE a == last * PageSize
             b == end * PageSize
             L == Len(prompt[r])
  <2>5. a \in Nat /\ b \in Nat /\ a <= b /\ b <= n /\ n <= L /\ n \in Nat /\ L \in Nat
    BY <2>2, <2>3, <2>4, <1>3
  <2> HIDE DEF a, b, L
  <2>6. a \in Nat /\ a <= L
    BY <2>5
  <2> QED
    BY <2>6 DEF a, L
<1>5. Filling(tree, full, ps)
  BY <1>1, <1>2, <1>3, <1>4, WithPagesFills
<1> HIDE DEF full, ps
<1>6. PinsOnEntries(full, pins)
  BY <1>5, PinnedEntries DEF PinsOnEntries, Filling
<1>7. CASE end <= first
  <2>1. UNCHANGED <<tree, published, snaps, pins, prompt, lease>>
    BY <1>1, <1>7
  <2>2. length' \in [Slots -> Nat]
    BY <1>1 DEF RadixSound
  <2>3. RadixSound'
    BY <2>1, <2>2 DEF RadixSound, PinsAreLeases, SnapshotsAreEntries
  <2> QED
    BY <2>1, <2>3
<1>8. CASE ~ (end <= first)
  <2>1. Refilled(full, pins, ps)
    <3>1. tree' = Evicted(full, pins) /\ snaps' = NodeSnapshots(tree, full, tree')
      BY <1>1, <1>8
    <3>2. SnapshotsAreEntries
      BY DEF RadixSound
    <3> QED
      BY <3>1, <3>2, <1>2, <1>5, <1>6, RefilledIs
  <2>2. length' \in [Slots -> Nat] /\ published' \in [Slots -> Nat]
    BY <1>1, <1>4, <1>8 DEF RadixSound
  <2>3. ASSUME NEW q \in Slots, lease[q] # Root
        PROVE  lease[q] \in Entries(tree') /\ tree'.rows[lease[q]] = tree.rows[lease[q]]
    BY <2>1, <2>3, PinnedEntries DEF Refilled
  <2>4. PinsAreLeases'
    BY <2>3, <1>1 DEF RadixSound, PinsAreLeases
  <2>5. RadixSound'
    BY <2>1, <2>2, <2>4, <1>1 DEF RadixSound, Refilled
  <2> QED
    BY <2>1, <2>3, <2>5 DEF Refilled, ps
<1> QED
  BY <1>7, <1>8

LEMMA RadixReleaseSound ==
    ASSUME RadixSound, NEW r \in Slots, RadixRelease(r)
    PROVE  /\ RadixSound'
           /\ \A m \in Entries(tree') : m \in Entries(tree) /\ tree'.rows[m] = tree.rows[m]
           /\ \A q \in Slots : lease'[q] # Root =>
                lease'[q] = lease[q] /\ tree'.rows[lease[q]] = tree.rows[lease[q]]
<1> DEFINE n == lease[r]
           pinned == Unpinned(n)
<1>1. /\ prompt' = [prompt EXCEPT ![r] = None] /\ length' = [length EXCEPT ![r] = 0]
      /\ published' = [published EXCEPT ![r] = 0] /\ lease' = [lease EXCEPT ![r] = Root]
      /\ IF n = Root THEN UNCHANGED <<tree, pins, snaps>>
         ELSE /\ pins' = pinned /\ tree' = Evicted(tree, pinned)
              /\ snaps' = NodeSnapshots(tree, tree, tree')
  BY DEF RadixRelease
<1>2. /\ tree \in Tries /\ Bare(tree) = {} /\ pins \in [Ids -> Nat]
      /\ lease \in [Slots -> Ids \union {Root}]
  BY DEF RadixSound
<1>3. n # Root => n \in Ids /\ pins[n] > 0
  BY PinnedEntries
<1>4. n # Root => pinned \in [Ids -> Nat]
                  /\ \A q \in Ids : pinned[q] = IF n = q THEN pins[q] - 1 ELSE pins[q]
  <2> SUFFICES ASSUME n # Root
               PROVE  pinned \in [Ids -> Nat]
                      /\ \A q \in Ids : pinned[q] = IF n = q THEN pins[q] - 1 ELSE pins[q]
    OBVIOUS
  <2>1. n \in Ids /\ pins[n] \in Nat /\ pins[n] > 0
    BY <1>2, <1>3
  <2>2. pinned = [pins EXCEPT ![n] = pins[n] - 1] /\ pins[n] - 1 \in Nat
    <3> HIDE DEF n
    <3>1. Unpinned(n) = [pins EXCEPT ![n] = pins[n] - 1]
      BY <2>1 DEF Unpinned
    <3>2. pins[n] - 1 \in Nat
      BY <2>1
    <3> QED
      BY <3>1, <3>2
  <2> HIDE DEF n, pinned
  <2> QED
    BY <2>1, <2>2, <1>2
<1> HIDE DEF n, pinned
<1>5. \A q \in Ids : Cardinality(Holders(q)') =
        IF n = q THEN Cardinality(Holders(q)) - 1 ELSE Cardinality(Holders(q))
  BY <1>1, <1>2, IdsFinite, HoldersLose DEF n
<1>6. pins' \in [Ids -> Nat] /\ \A q \in Ids : pins'[q] = Cardinality(Holders(q)')
  <2>1. \A q \in Ids : pins[q] = Cardinality(Holders(q)) /\ pins[q] \in Nat
    BY <1>2 DEF RadixSound, PinsAreLeases, Holders
  <2>2. CASE n = Root
    BY <2>1, <2>2, <1>1, <1>2, <1>5, IdsFinite
  <2>3. CASE n # Root
    BY <2>1, <2>3, <1>1, <1>4, <1>5
  <2> QED
    BY <2>2, <2>3
<1>7. ASSUME NEW q \in Slots, lease'[q] # Root
      PROVE  /\ lease'[q] = lease[q] /\ lease[q] \in Ids /\ lease[q] \in Entries(tree)
             /\ pins'[lease[q]] > 0
  <2>1. lease'[q] = lease[q] /\ lease[q] # Root
    BY <1>1, <1>2, <1>7
  <2>2. lease[q] \in Ids /\ lease[q] \in Entries(tree)
    BY <2>1, PinnedEntries
  <2>7. PICK m \in Ids : m = lease[q]
    BY <2>2
  <2>3. pins'[m] = Cardinality(Holders(m)')
    BY <1>6
  <2>4. Cardinality(Holders(m)') > 0
    <3> DEFINE H == {x \in Slots : lease'[x] = m}
    <3>1. Holders(m)' = H
      BY DEF Holders
    <3>2. q \in H /\ H \subseteq Slots
      BY <2>1, <2>7
    <3> HIDE DEF H
    <3>3. IsFiniteSet(H) /\ H # {}
      BY <3>2, SlotsAssumption, FS_Subset
    <3>4. Cardinality(H) \in Nat /\ Cardinality(H) # 0
      BY <3>3, FS_CardinalityType, FS_EmptySet
    <3> QED
      BY <3>1, <3>4
  <2> QED
    BY <2>1, <2>2, <2>7, <2>3, <2>4
<1>8. /\ prompt' \in [Slots -> Prompts \union {None}] /\ length' \in [Slots -> Nat]
      /\ published' \in [Slots -> Nat] /\ lease' \in [Slots -> Ids \union {Root}]
      /\ \A s \in Slots : prompt'[s] = None => lease'[s] = Root
  BY <1>1, <1>2 DEF RadixSound
<1>9. CASE n = Root
  <2>1. UNCHANGED <<tree, pins, snaps>>
    BY <1>1, <1>9
  <2>2. PinsAreLeases'
    BY <2>1, <1>6, <1>7 DEF PinsAreLeases, Holders
  <2>3. RadixSound'
    BY <2>1, <2>2, <1>8 DEF RadixSound, SnapshotsAreEntries
  <2> QED
    BY <2>1, <2>3, <1>7
<1>10. CASE n # Root
  <2>1. Filling(tree, tree, {})
    BY <1>2 DEF Filling
  <2>2. PinsOnEntries(tree, pinned)
    <3>1. PinsOnEntries(tree, pins)
      BY PinnedEntries
    <3>2. \A q \in Ids : pinned[q] > 0 => pins[q] > 0
      BY <1>2, <1>4, <1>10
    <3> QED
      BY <3>1, <3>2 DEF PinsOnEntries
  <2>3. pins' = pinned /\ Refilled(tree, pinned, {})
    <3>1. /\ pins' = pinned /\ tree' = Evicted(tree, pinned)
          /\ snaps' = NodeSnapshots(tree, tree, tree')
      BY <1>1, <1>10
    <3>2. SnapshotsAreEntries
      BY DEF RadixSound
    <3> QED
      BY <2>1, <2>2, <3>1, <3>2, <1>2, <1>4, <1>10, RefilledIs
  <2>4. ASSUME NEW q \in Slots, lease'[q] # Root
        PROVE  /\ lease'[q] = lease[q] /\ lease'[q] \in Entries(tree')
               /\ tree'.rows[lease[q]] = tree.rows[lease[q]]
    BY <2>3, <2>4, <1>7 DEF Refilled
  <2>5. PinsAreLeases'
    BY <2>4, <1>6 DEF PinsAreLeases, Holders
  <2>6. RadixSound'
    BY <2>3, <2>5, <1>6, <1>8 DEF RadixSound, Refilled
  <2> QED
    BY <2>3, <2>4, <2>6 DEF Refilled
<1> QED
  BY <1>9, <1>10

LEMMA RadixResetSound ==
    ASSUME RadixSound, RadixReset
    PROVE  RadixSound' /\ Entries(tree') = {} /\ \A r \in Slots : lease[r] = Root
<1>1. \A r \in Slots : lease[r] = Root
  BY DEF RadixSound, RadixReset
<1>2. tree' = EmptyTree /\ tree' \in Tries /\ Entries(tree') = {} /\ Bare(tree') = {}
  BY EmptyTreeIs DEF RadixReset
<1>3. UNCHANGED <<prompt, length, lease, published>> /\ pins' = [n \in Ids |-> 0]
  BY DEF RadixReset
<1>4. PinsAreLeases'
  <2>1. \A n \in Ids : {r \in Slots : lease'[r] = n} = {}
    BY <1>1, <1>3, IdsFinite
  <2>2. \A n \in Ids : pins'[n] = Cardinality({r \in Slots : lease'[r] = n})
    BY <2>1, <1>3, FS_EmptySet
  <2>3. \A r \in Slots : lease'[r] = Root
    BY <1>1, <1>3
  <2> QED
    BY <2>2, <2>3 DEF PinsAreLeases
<1>5. ASSUME NEW p \in PagedPrefixes
      PROVE  snaps'[p] = 0 /\ {n \in Entries(tree') : tree'.rows[n] = p} = {}
  <2>1. snaps' = NodeSnapshots(tree, tree, EmptyTree)
    BY DEF RadixReset
  <2>2. snaps'[p] = snaps[p] + Cardinality(Besides(tree, tree, p))
                             - Cardinality(Besides(tree, EmptyTree, p))
    BY <2>1 DEF NodeSnapshots, Besides
  <2>3. snaps[p] = Cardinality(With(tree, p))
    BY DEF RadixSound, SnapshotsAreEntries, With
  <2>4. tree \in Tries /\ EmptyTree \in Tries
    BY EmptyTreeIs DEF RadixSound
  <2>5. \A n \in Entries(EmptyTree) : n \in Entries(tree) /\ EmptyTree.rows[n] = tree.rows[n]
    BY EmptyTreeIs
  <2>6. Cardinality(With(tree, p)) + Cardinality(Besides(tree, tree, p))
          - Cardinality(Besides(tree, EmptyTree, p)) = Cardinality(With(EmptyTree, p))
    BY <2>4, <2>5, EntriesCounted
  <2>7. With(EmptyTree, p) = {}
    BY EmptyTreeIs DEF With
  <2>8. Cardinality(With(EmptyTree, p)) = 0
    BY <2>7, FS_EmptySet
  <2>9. snaps'[p] = 0
    BY <2>2, <2>3, <2>6, <2>8
  <2> QED
    BY <2>9, <1>2
<1>6. SnapshotsAreEntries'
  BY <1>5, FS_EmptySet DEF SnapshotsAreEntries
<1>7. snaps' \in [PagedPrefixes -> Nat]
  <2>1. snaps' = [p \in PagedPrefixes |-> snaps'[p]]
    BY DEF RadixReset, NodeSnapshots
  <2>2. \A p \in PagedPrefixes : snaps'[p] \in Nat
    BY <1>5
  <2> QED
    BY <2>1, <2>2
<1>8. Yields(tree', pins')
  BY <1>2, FS_EmptySet, LimitType DEF Yields
<1>9. pins' \in [Ids -> Nat]
  BY <1>3
<1> QED
  BY <1>1, <1>2, <1>3, <1>4, <1>6, <1>7, <1>8, <1>9 DEF RadixSound

LEMMA RadixNextSound == RadixSound /\ [RadixNext]_radixVars => RadixSound'
<1> SUFFICES ASSUME RadixSound, [RadixNext]_radixVars PROVE RadixSound'
  OBVIOUS
<1>1. ASSUME NEW r \in Slots, NEW t \in Prompts, RadixAcquire(r, t) PROVE RadixSound'
  BY <1>1, RadixAcquireSound
<1>2. ASSUME NEW r \in Slots, NEW n \in 1..Len(prompt[r]), RadixPublish(r, n)
      PROVE  RadixSound'
  BY <1>2, RadixPublishSound
<1>3. ASSUME NEW r \in Slots, RadixRelease(r) PROVE RadixSound'
  BY <1>3, RadixReleaseSound
<1>4. CASE RadixReset
  BY <1>4, RadixResetSound
<1>5. CASE UNCHANGED radixVars
  BY <1>5 DEF radixVars, RadixSound, PinsAreLeases, SnapshotsAreEntries
<1> QED
  BY <1>1, <1>2, <1>3, <1>4, <1>5 DEF RadixNext

(***************************************************************************)
(* However acquisitions, publications, splits and evictions follow each    *)
(* other, the tree of RadixPrefixCache is a compressed trie without bare   *)
(* leaves, and the walk of _lookup down its edges finds for every prompt   *)
(* the longest snapshot that leaves a token to compute.                    *)
(***************************************************************************)
THEOREM RadixTreeSound == RadixSpec => []TreeSound
  BY RadixInitSound, RadixNextSound, SoundIsTree, PTL DEF RadixSpec

(***************************************************************************)
(* The pins of every node are its leases and a leased node keeps its       *)
(* snapshot, the backend holds the snapshots of the entries and no other,  *)
(* and above max_entries or max_bytes every leaf is pinned, so that        *)
(* _evict_until_within_limits could not have gone on.                      *)
(***************************************************************************)
THEOREM RadixHoldingsExact == RadixSpec => []HoldingsExact
  BY RadixInitSound, RadixNextSound, SoundIsExact, PTL DEF RadixSpec

(***************************************************************************)
(* The radix cache implements PrefixIndex: what it lends is a true prefix  *)
(* of the prompt that was published, and neither a split nor an eviction   *)
(* takes it away while it is lent.                                         *)
(***************************************************************************)
THEOREM RadixImplementsIndex == RadixSpec => RadixKeepsIndex
<1> DEFINE stored == {tree.rows[n] : n \in Entries(tree)}
           lent == [r \in Slots |-> IF lease[r] = Root THEN None ELSE tree.rows[lease[r]]]
<1>0. RadixIndex!None = None /\ \A t, n : RadixIndex!PagePrefixes(t, n) = PagePrefixes(t, n)
  BY DEF RadixIndex!None, None, RadixIndex!PagePrefixes, PagePrefixes
<1>1. RadixInit => RadixIndex!Init
  <2> SUFFICES ASSUME RadixInit PROVE RadixIndex!Init
    OBVIOUS
  <2>1. stored = {}
    BY EmptyTreeIs DEF RadixInit
  <2>2. lent = [r \in Slots |-> None]
    BY DEF RadixInit
  <2> QED
    BY <2>1, <2>2, <1>0 DEF RadixInit, RadixIndex!Init
<1>2. RadixSound /\ RadixSound' /\ [RadixNext]_radixVars => [RadixIndex!Next]_(RadixIndex!vars)
  <2> SUFFICES ASSUME RadixSound, RadixSound', [RadixNext]_radixVars
               PROVE  [RadixIndex!Next]_(RadixIndex!vars)
    OBVIOUS
  <2>1. RadixIndex!Lent \subseteq stored /\ RadixIndex!Lent' \subseteq stored'
    <3>1. ASSUME RadixSound PROVE RadixIndex!Lent \subseteq stored
      BY <3>1, <1>0, PinnedEntries DEF RadixIndex!Lent
    <3>2. ASSUME RadixSound' PROVE RadixIndex!Lent' \subseteq stored'
      BY <3>2, <1>0 DEF RadixIndex!Lent, RadixSound, PinsAreLeases
    <3> QED
      BY <3>1, <3>2
  <2>2. \A r \in Slots : /\ lent[r] = IF lease[r] = Root THEN None ELSE tree.rows[lease[r]]
                         /\ lent'[r] = IF lease'[r] = Root THEN None ELSE tree'.rows[lease'[r]]
    OBVIOUS
  <2>3. ASSUME NEW r \in Slots, NEW t \in Prompts, RadixAcquire(r, t)
        PROVE  RadixIndex!Acquire(r, t)
    <3> DEFINE n == RadixLookup(tree, t)
               p == IF n = Root THEN None ELSE tree.rows[n]
    <3>1. /\ prompt[r] = None /\ prompt' = [prompt EXCEPT ![r] = t]
          /\ lease' = [lease EXCEPT ![r] = n]
      BY <2>3 DEF RadixAcquire
    <3>2. tree'.rows = tree.rows /\ Entries(tree') = Entries(tree)
      BY <2>3, RadixAcquireSound
    <3>3. n # Root => n \in Entries(tree) /\ tree.rows[n] \in PagePrefixes(t, Len(t) - 1)
      BY RadixLookupSound
    <3>4. p \in {None} \union (stored \intersect PagePrefixes(t, Len(t) - 1))
      BY <3>3
    <3> HIDE DEF n
    <3>5. lent' = [lent EXCEPT ![r] = p]
      <4>1. \A q \in Slots : lease'[q] = IF q = r THEN n ELSE lease[q]
        BY <3>1 DEF RadixSound
      <4> QED
        BY <4>1, <3>2
    <3>6. stored' = stored
      BY <3>2
    <3> QED
      BY <3>1, <3>4, <3>5, <3>6, <1>0 DEF RadixIndex!Acquire
  <2>4. ASSUME NEW r \in Slots, NEW n \in 1..Len(prompt[r]), RadixPublish(r, n)
        PROVE  RadixIndex!Publish(r)
    <3>1. /\ \A m \in Entries(tree') :
               \/ m \in Entries(tree) /\ tree'.rows[m] = tree.rows[m]
               \/ tree'.rows[m] \in PagePrefixes(prompt[r], Len(prompt[r]))
          /\ \A q \in Slots : lease[q] # Root => tree'.rows[lease[q]] = tree.rows[lease[q]]
      BY <2>4, RadixPublishSound
    <3>2. prompt[r] # None /\ prompt' = prompt /\ lease' = lease
      BY <2>4 DEF RadixPublish
    <3>3. lent' = lent
      BY <3>1, <3>2
    <3>4. stored' \subseteq stored \union PagePrefixes(prompt[r], Len(prompt[r]))
      BY <3>1
    <3>5. RadixIndex!Lent' = RadixIndex!Lent
      BY <3>3 DEF RadixIndex!Lent
    <3> QED
      BY <3>2, <3>3, <3>4, <3>5, <2>1, <1>0 DEF RadixIndex!Publish
  <2>5. ASSUME NEW r \in Slots, RadixRelease(r) PROVE RadixIndex!Release(r)
    <3>1. /\ \A m \in Entries(tree') : m \in Entries(tree) /\ tree'.rows[m] = tree.rows[m]
          /\ \A q \in Slots : lease'[q] # Root =>
               lease'[q] = lease[q] /\ tree'.rows[lease[q]] = tree.rows[lease[q]]
      BY <2>5, RadixReleaseSound
    <3>2. /\ prompt[r] # None /\ prompt' = [prompt EXCEPT ![r] = None]
          /\ lease' = [lease EXCEPT ![r] = Root]
      BY <2>5 DEF RadixRelease
    <3>3. lent' = [lent EXCEPT ![r] = None]
      <4>1. \A q \in Slots : lease'[q] = IF q = r THEN Root ELSE lease[q]
        BY <3>2 DEF RadixSound
      <4> QED
        BY <4>1, <3>1
    <3>4. stored' \subseteq stored
      BY <3>1
    <3> QED
      BY <3>2, <3>3, <3>4, <2>1, <1>0 DEF RadixIndex!Release
  <2>6. CASE RadixReset
    <3>1. /\ \A r \in Slots : prompt[r] = None /\ lease[r] = Root
          /\ prompt' = prompt /\ lease' = lease /\ Entries(tree') = {}
      BY <2>6, RadixResetSound DEF RadixReset
    <3>2. stored' = {} /\ lent' = lent
      BY <3>1
    <3>3. RadixIndex!Reset
      BY <3>1, <3>2, <1>0 DEF RadixIndex!Reset
    <3> QED
      BY <3>3 DEF RadixIndex!Next
  <2>7. CASE UNCHANGED radixVars
    BY <2>7 DEF radixVars, RadixIndex!vars, Entries
  <2> QED
    BY <2>3, <2>4, <2>5, <2>6, <2>7 DEF RadixNext, RadixIndex!Next
<1> QED
  BY <1>1, <1>2, RadixInitSound, RadixNextSound, PTL DEF RadixSpec, RadixKeepsIndex, RadixIndex!Spec

=============================================================================
