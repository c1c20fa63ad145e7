---------------------------- MODULE KVCacheProofs ----------------------------
(***************************************************************************)
(* Proofs about PagedKVCache and about HybridKVCache, which is a paged     *)
(* cache with more state: what is shown of the pages carries over.  For    *)
(* every pool, page size, window and set of handles.                       *)
(***************************************************************************)
EXTENDS HybridKVCache, FiniteSetTheorems, SequenceTheorems, NaturalsInduction,
        WellFoundedInduction, TLAPS

-----------------------------------------------------------------------------
(* Arithmetic of pages. *)

(* The pages for n rows are a natural number, and positive if n is. *)
LEMMA PagesForType ==
    ASSUME NEW n \in Nat
    PROVE  PagesFor(n) \in Nat /\ (n > 0 => PagesFor(n) >= 1)
BY PageSizeAssumption DEF PagesFor

(* More rows never need fewer pages. *)
LEMMA PagesForMonotone ==
    ASSUME NEW m \in Nat, NEW n \in Nat, m <= n
    PROVE  PagesFor(m) <= PagesFor(n)
BY PageSizeAssumption DEF PagesFor

LEMMA MaxPagesType == MaxPages \in Nat
BY PagesForType, BoundsAssumption DEF MaxPages

(* No rows need no page. *)
LEMMA PagesForZero == PagesFor(0) = 0
BY PageSizeAssumption DEF PagesFor

(* The positions of a appended rows stay within the bound. *)
LEMMA AppendWithin ==
    ASSUME NEW n \in Nat, NEW a \in Nat, NEW m \in Nat, n + a <= m, NEW i \in 1 .. a
    PROVE  n + i - 1 \in 0 .. m
OBVIOUS

(* The first n elements of a sequence. *)
LEMMA Prefix ==
    ASSUME NEW S, NEW s \in Seq(S), NEW n \in 0 .. Len(s)
    PROVE  /\ SubSeq(s, 1, n) \in Seq(S)
           /\ Len(SubSeq(s, 1, n)) = n
           /\ \A i \in 1 .. n : SubSeq(s, 1, n)[i] = s[i]
<1>1. \A i \in 1 .. n : s[i] \in S
  OBVIOUS
<1> QED
  BY <1>1, SubSeqProperties

(* Two sequences joined. *)
LEMMA Joined ==
    ASSUME NEW S, NEW s \in Seq(S), NEW t \in Seq(S)
    PROVE  s \o t \in Seq(S) /\ Len(s \o t) = Len(s) + Len(t)
OBVIOUS

-----------------------------------------------------------------------------
(* Counting the places of a page in block tables. *)

(* There are finitely many places, so their number is a natural number. *)
LEMMA OccurrencesFinite ==
    ASSUME NEW hs \in SUBSET Handles, NEW tbl, NEW p
    PROVE  /\ IsFiniteSet(Occurrences(hs, tbl, p))
           /\ Count(hs, tbl, p) \in Nat
           /\ Count(hs, tbl, p) = 0 <=> Occurrences(hs, tbl, p) = {}
<1>1. IsFiniteSet(1 .. MaxPages)
  BY MaxPagesType, FS_Interval
<1>2. IsFiniteSet(hs)
  BY HandlesAssumption, FS_Subset
<1>3. IsFiniteSet(hs \X (1 .. MaxPages))
  BY <1>1, <1>2, FS_Product
<1>4. Occurrences(hs, tbl, p) \in SUBSET (hs \X (1 .. MaxPages))
  BY DEF Occurrences
<1>5. IsFiniteSet(Occurrences(hs, tbl, p))
  BY <1>3, <1>4, FS_Subset
<1> QED
  BY <1>5, FS_CardinalityType, FS_EmptySet DEF Count

(* Counts depend on the counted tables only. *)
LEMMA CountSame ==
    ASSUME NEW hs, NEW t, NEW u, NEW p, \A h \in hs : t[h] = u[h]
    PROVE  /\ Occurrences(hs, t, p) = Occurrences(hs, u, p)
           /\ Count(hs, t, p) = Count(hs, u, p)
BY DEF Occurrences, Count

(* The count over a set of handles splits into those of its parts. *)
LEMMA CountSplit ==
    ASSUME NEW hs \in SUBSET Handles, NEW part \in SUBSET hs, NEW tbl, NEW p
    PROVE  Count(hs, tbl, p) = Count(hs \ part, tbl, p) + Count(part, tbl, p)
<1> DEFINE A == Occurrences(hs \ part, tbl, p)
           B == Occurrences(part, tbl, p)
<1>1. IsFiniteSet(A) /\ IsFiniteSet(B)
  BY OccurrencesFinite
<1>2. A \intersect B = {}
  BY DEF Occurrences
<1>3. Occurrences(hs, tbl, p) = A \union B
  BY DEF Occurrences
<1> HIDE DEF A, B
<1>4. Cardinality(A \union B) = Cardinality(A) + Cardinality(B) - Cardinality({})
  BY <1>1, <1>2, FS_Union
<1>5. Cardinality(A) \in Nat /\ Cardinality(B) \in Nat
  BY <1>1, FS_CardinalityType
<1> QED
  BY <1>3, <1>4, <1>5, FS_EmptySet DEF Count, A, B

-----------------------------------------------------------------------------
(***************************************************************************)
(* The inductive invariant.  RefCountsExact and FreePagesUnused need what  *)
(* ReservationSound says of the outstanding reservation: that its granted  *)
(* pages are still free and that its new block tables hold no other page   *)
(* than these and the old ones.                                            *)
(***************************************************************************)
Bookkeeping == TypeOK /\ RefCountsExact /\ FreePagesUnused /\ ReservationSound

(* The empty pool satisfies it. *)
LEMMA InitBookkeeping == Init => Bookkeeping
<1> SUFFICES ASSUME Init PROVE Bookkeeping
  OBVIOUS
<1>1. \A p \in Pages : Occurrences({}, table, p) = {} /\ Count({}, table, p) = 0
  BY FS_EmptySet DEF Occurrences, Count
<1>2. TypeOK
  <2>1. kv \in Pool
    BY DEF Init, Pool, Rows
  <2>2. length \in [Handles -> 0 .. MaxLength]
    BY BoundsAssumption DEF Init
  <2> QED
    BY <2>1, <2>2 DEF Init, TypeOK, ReservationOK
<1>3. RefCountsExact
  BY <1>1 DEF Init, RefCountsExact
<1>4. FreePagesUnused
  BY <1>1 DEF Init, FreePagesUnused
<1>5. ReservationSound
  BY <1>1, PagesForZero DEF Init, ReservationSound, NoReservation, TablesFit,
                            PagesOf, Occurrences
<1> QED
  BY <1>2, <1>3, <1>4, <1>5 DEF Bookkeeping

(* create *)
LEMMA CreateBookkeeping ==
    ASSUME Bookkeeping, NEW h \in Handles, Create(h)
    PROVE  Bookkeeping'
<1> USE DEF Bookkeeping
<1>1. TypeOK'
  <2>1. resv.batch \subseteq live
    BY DEF TypeOK, ReservationOK, NoReservation
  <2> QED
    BY <2>1, BoundsAssumption DEF Create, TypeOK, ReservationOK
<1>2. \A p \in Pages : /\ Occurrences(live', table', p) = Occurrences(live, table, p)
                       /\ Count(live', table', p) = Count(live, table, p)
  <2>1. DOMAIN table'[h] = {} /\ \A g \in live : table'[g] = table[g]
    BY DEF Create, TypeOK
  <2>2. \A p \in Pages : Occurrences(live', table', p) = Occurrences(live, table', p)
    BY <2>1 DEF Create, Occurrences
  <2> QED
    BY <2>1, <2>2, CountSame DEF Count
<1>3. RefCountsExact'
  BY <1>2 DEF Create, RefCountsExact
<1>4. FreePagesUnused'
  BY <1>2 DEF Create, FreePagesUnused, TypeOK
<1>5. ReservationSound'
  <2>1. resv.batch \subseteq Handles /\ \A b \in resv.batch : table'[b] = table[b]
    BY DEF Create, TypeOK, ReservationOK, NoReservation
  <2>2. PagesOf(resv.batch, table') = PagesOf(resv.batch, table)
    BY <2>1, CountSame DEF PagesOf
  <2>3. TablesFit'
    BY PagesForZero DEF Create, TablesFit, ReservationSound, TypeOK
  <2>4. \A b \in resv.batch : length'[b] = length[b]
    BY DEF Create, TypeOK
  <2> QED
    BY <2>1, <2>2, <2>3, <2>4 DEF Create, ReservationSound
<1> QED
  BY <1>1, <1>3, <1>4, <1>5

(* fork *)
LEMMA ForkBookkeeping ==
    ASSUME Bookkeeping, NEW src \in Handles, NEW h \in Handles, NEW n \in Nat,
           Fork(src, h, n)
    PROVE  Bookkeeping'
<1> USE DEF Bookkeeping
<1>1. /\ resv.batch \subseteq live
      /\ live \subseteq Handles /\ live' = live \union {h} /\ h \notin live
      /\ \A g \in live : table'[g] = table[g] /\ length'[g] = length[g]
  BY DEF Fork, TypeOK, ReservationOK, NoReservation
<1>2. /\ n <= length[src] /\ length[src] \in 0 .. MaxLength
      /\ PagesFor(n) \in Nat /\ PagesFor(n) <= Len(table[src])
  BY PagesForType, PagesForMonotone, BoundsAssumption
     DEF Fork, TypeOK, ReservationSound, TablesFit
<1>3. /\ table'[h] \in Seq(Pages) /\ Len(table'[h]) = PagesFor(n)
      /\ \A j \in DOMAIN table'[h] : /\ j \in DOMAIN table[src]
                                     /\ table'[h][j] = table[src][j]
  <2>1. table'[h] = SubSeq(table[src], 1, PagesFor(n)) /\ table[src] \in Seq(Pages)
    BY DEF Fork, TypeOK
  <2>2. PagesFor(n) \in 0 .. Len(table[src])
    BY <1>2, <2>1
  <2> HIDE DEF Bookkeeping
  <2> QED
    BY <2>1, <2>2, Prefix
<1>4. TypeOK'
  <2>1. ref' \in [Pages -> Nat]
    <3>1. \A p \in Pages : Count({h}, table', p) \in Nat
      BY OccurrencesFinite
    <3>2. /\ ref \in [Pages -> Nat]
          /\ ref' = [p \in Pages |-> ref[p] + Count({h}, table', p)]
      BY DEF Fork, TypeOK
    <3> HIDE DEF Bookkeeping
    <3> QED
      BY <3>1, <3>2
  <2>2. written' \in [Handles -> Seq(Rows)]
    <3>1. written[src] \in Seq(Rows) /\ n \in 0 .. Len(written[src])
      BY <1>2 DEF TypeOK, ReservationSound, TablesFit
    <3>2. SubSeq(written[src], 1, n) \in Seq(Rows)
      BY <3>1, Prefix
    <3> QED
      BY <3>2 DEF Fork, TypeOK
  <2>3. length' \in [Handles -> 0 .. MaxLength]
    BY <1>2, BoundsAssumption DEF Fork, TypeOK
  <2> QED
    BY <1>1, <1>3, <2>1, <2>2, <2>3 DEF Fork, TypeOK, ReservationOK
<1>5. RefCountsExact'
  <2> SUFFICES ASSUME NEW p \in Pages
               PROVE  ref'[p] = Count(live', table', p)
    BY DEF RefCountsExact
  <2>1. Count(live', table', p) = Count(live' \ {h}, table', p) + Count({h}, table', p)
    BY <1>1, CountSplit
  <2>2. live' \ {h} = live /\ Count(live, table', p) = Count(live, table, p)
    BY <1>1, CountSame
  <2> QED
    BY <2>1, <2>2 DEF Fork, RefCountsExact
<1>6. FreePagesUnused'
  <2> SUFFICES ASSUME NEW p \in free
               PROVE  Occurrences(live', table', p) = {}
    BY DEF Fork, FreePagesUnused
  <2>1. Occurrences(live, table, p) = {} /\ Occurrences(live, table', p) = {}
    BY <1>1, CountSame DEF FreePagesUnused
  <2>2. src \in live
    BY DEF Fork
  <2>3. ASSUME NEW j \in 1 .. MaxPages, j \in DOMAIN table'[h], table'[h][j] = p
        PROVE  FALSE
    <3>1. <<src, j>> \in Occurrences(live, table, p)
      BY <1>3, <2>2, <2>3 DEF Occurrences
    <3> QED
      BY <2>1, <3>1
  <2> QED
    BY <1>1, <2>1, <2>3 DEF Occurrences
<1>7. ReservationSound'
  <2>1. PagesOf(resv.batch, table') = PagesOf(resv.batch, table)
    BY <1>1, CountSame DEF PagesOf
  <2>2. Len(written'[h]) = n /\ length'[h] = n
    <3>1. written[src] \in Seq(Rows) /\ n \in 0 .. Len(written[src])
      BY <1>2 DEF TypeOK, ReservationSound, TablesFit
    <3> QED
      BY <3>1, Prefix DEF Fork, TypeOK
  <2>3. TablesFit'
    BY <1>3, <2>2 DEF Fork, TablesFit, ReservationSound, TypeOK
  <2> QED
    BY <1>1, <2>1, <2>3 DEF Fork, ReservationSound
<1> QED
  BY <1>4, <1>5, <1>6, <1>7

(* release, of a handle that is not in the outstanding reservation *)
LEMMA ReleaseBookkeeping ==
    ASSUME Bookkeeping, NEW h \in Handles, h \notin resv.batch, Release(h)
    PROVE  Bookkeeping'
<1> USE DEF Bookkeeping
<1>1. /\ resv.batch \subseteq live /\ live \subseteq Handles
      /\ live' = live \ {h} /\ h \in live
      /\ resv.batch \subseteq live'
  BY DEF Release, TypeOK, ReservationOK, NoReservation
<1>a. \A g \in live' : table'[g] = table[g] /\ length'[g] = length[g]
  BY DEF Release, TypeOK
<1>b. /\ length' = [length EXCEPT ![h] = 0]
      /\ table' = [table EXCEPT ![h] = <<>>]
      /\ written' = [written EXCEPT ![h] = <<>>]
  BY DEF Release
<1>2. \A p \in Pages :
        /\ Count(live, table, p) = Count(live', table, p) + Count({h}, table, p)
        /\ Count(live', table', p) = Count(live', table, p)
        /\ Count(live', table, p) \in Nat /\ Count({h}, table, p) \in Nat
  <2> TAKE p \in Pages
  <2>1. Count(live, table, p) = Count(live \ {h}, table, p) + Count({h}, table, p)
    BY <1>1, CountSplit
  <2>2. Count(live', table', p) = Count(live', table, p)
    BY <1>a, CountSame
  <2>3. live' \in SUBSET Handles /\ {h} \in SUBSET Handles
    BY <1>1
  <2> HIDE DEF Bookkeeping
  <2>4. Count(live', table, p) \in Nat /\ Count({h}, table, p) \in Nat
    BY <2>3, OccurrencesFinite
  <2> QED
    BY <1>1, <2>1, <2>2, <2>4
<1>3. \A p \in Pages : ref'[p] = Count(live', table', p) /\ ref'[p] \in Nat
  <2>1. \A p \in Pages : ref[p] = Count(live, table, p)
    BY DEF RefCountsExact
  <2>2. ref' = [p \in Pages |-> ref[p] - Count({h}, table, p)]
    BY DEF Release
  <2> TAKE p \in Pages
  <2>3. ref'[p] = Count(live, table, p) - Count({h}, table, p)
    BY <2>1, <2>2
  <2>4. /\ Count(live, table, p) = Count(live', table', p) + Count({h}, table, p)
        /\ Count(live', table', p) \in Nat /\ Count({h}, table, p) \in Nat
    BY <1>2
  <2> HIDE DEF Bookkeeping
  <2> QED
    BY <2>3, <2>4
<1>4. TypeOK'
  <2>1. ref' \in [Pages -> Nat]
    BY <1>3 DEF Release
  <2>3. /\ length' \in [Handles -> 0 .. MaxLength]
        /\ table' \in [Handles -> Seq(Pages)]
        /\ written' \in [Handles -> Seq(Rows)]
    BY <1>b, BoundsAssumption DEF TypeOK
  <2>4. ReservationOK'
    BY <1>1 DEF Release, TypeOK, ReservationOK
  <2> QED
    BY <1>1, <2>1, <2>3, <2>4 DEF Release, FreedBy, TypeOK, PagesOf
<1>5. RefCountsExact'
  BY <1>3 DEF RefCountsExact
<1>6. FreePagesUnused'
  <2>1. ASSUME NEW p \in free'
        PROVE  pin[p] = 0 /\ Occurrences(live', table', p) = {}
    <3>1. CASE p \in free
      <4>1. Occurrences(live, table, p) = {} /\ pin[p] = 0
        BY <3>1 DEF FreePagesUnused
      <4>2. Occurrences(live', table', p) = Occurrences(live', table, p)
        BY <1>a, CountSame
      <4> QED
        BY <1>1, <4>1, <4>2 DEF Occurrences
    <3>2. CASE p \notin free
      <4>1. p \in Pages /\ ref'[p] = 0 /\ pin[p] = 0
        BY <2>1, <3>2 DEF Release, FreedBy, PagesOf
      <4> QED
        BY <1>1, <1>3, <4>1, OccurrencesFinite
    <3> QED
      BY <3>1, <3>2
  <2> QED
    BY <2>1 DEF Release, FreePagesUnused
<1>7. ReservationSound'
  <2>1. PagesOf(resv.batch, table') = PagesOf(resv.batch, table)
    <3>1. \A b \in resv.batch : table'[b] = table[b]
      BY <1>1, <1>a
    <3> QED
      BY <3>1, CountSame DEF PagesOf
  <2>2. TablesFit'
    BY <1>b, PagesForZero DEF TablesFit, ReservationSound, TypeOK
  <2> QED
    BY <1>1, <1>a, <2>1, <2>2 DEF Release, ReservationSound
<1> QED
  BY <1>4, <1>5, <1>6, <1>7

(* What reserve_batch puts into the reservation. *)
LEMMA ReserveFacts ==
    ASSUME Bookkeeping, NEW batch \in SUBSET live, NEW add \in [batch -> 1 .. MaxAppend],
           NEW h \in batch, length[h] + add[h] <= MaxLength
    PROVE  /\ length[h] \in Nat /\ add[h] \in Nat /\ add[h] > 0
           /\ table[h] \in Seq(Pages)
           /\ Len(table[h]) = PagesFor(length[h])
           /\ PagesFor(length[h] + add[h]) \in Nat
           /\ PagesFor(length[h] + add[h]) >= 1
           /\ Len(table[h]) <= PagesFor(length[h] + add[h])
           /\ PagesFor(length[h] + add[h]) <= MaxPages
           /\ MaxPages \in Nat
<1>1. /\ h \in Handles /\ length[h] \in Nat /\ add[h] \in Nat /\ add[h] > 0
      /\ table[h] \in Seq(Pages) /\ Len(table[h]) = PagesFor(length[h])
  BY BoundsAssumption DEF Bookkeeping, TypeOK, ReservationSound, TablesFit
<1>a. length[h] + add[h] \in Nat /\ length[h] + add[h] > 0
  BY <1>1
<1>2. /\ PagesFor(length[h] + add[h]) \in Nat
      /\ PagesFor(length[h] + add[h]) >= 1
  BY <1>a, PagesForType
<1>3. PagesFor(length[h]) <= PagesFor(length[h] + add[h])
  BY <1>1, PagesForMonotone
<1>4. PagesFor(length[h] + add[h]) <= MaxPages
  BY <1>1, PagesForMonotone, BoundsAssumption DEF MaxPages
<1> QED
  BY <1>1, <1>2, <1>3, <1>4, MaxPagesType

(* reserve_batch *)
LEMMA ReserveBookkeeping ==
    ASSUME Bookkeeping, NEW batch \in SUBSET live, NEW add \in [batch -> 1 .. MaxAppend],
           Reserve(batch, add)
    PROVE  Bookkeeping'
<1> DEFINE slots == NewSlots(batch, add)
<1>1. PICK g \in Grants(batch, add) :
        /\ reserved' = reserved \union {g[s] : s \in slots}
        /\ resv' = [batch   |-> batch,
                    add     |-> add,
                    cand    |-> Candidates(batch, add, g),
                    granted |-> {g[s] : s \in slots},
                    copy    |-> {<<LastPage(h), g[<<h, Len(table[h])>>]>> :
                                    h \in {b \in batch : CopyOnWrite(b)}},
                    pinned  |-> PagesOf(batch, table),
                    staged  |-> NoPool]
  BY DEF Reserve
<1>2. /\ batch # {} /\ \A h \in batch : length[h] + add[h] <= MaxLength
      /\ reserved = {} /\ \A p \in Pages : pin[p] = 0
      /\ live \subseteq Handles /\ free \subseteq Pages
  BY DEF Reserve, Bookkeeping, TypeOK, ReservationSound, NoReservation, PagesOf,
         Occurrences
<1>3. \A s \in slots : g[s] \in free /\ g[s] \in Pages
  BY <1>2 DEF Grants, Available
<1>4. \A h \in batch : \A j \in 1 .. PagesFor(length[h] + add[h]) :
        \/ <<h, j>> \in slots
        \/ <<h, j>> \notin slots /\ j \in 1 .. Len(table[h])
  <2> TAKE h \in batch
  <2> TAKE j \in 1 .. PagesFor(length[h] + add[h])
  <2>1. j \in 1 .. MaxPages
    BY <1>2, ReserveFacts
  <2> QED
    BY <1>2, <2>1, ReserveFacts DEF NewSlots
<1> DEFINE cand == Candidates(batch, add, g)
<1>5. ASSUME NEW h \in batch
      PROVE  /\ cand[h] \in Seq(Pages)
             /\ Len(cand[h]) = PagesFor(length[h] + add[h])
             /\ \A j \in 1 .. Len(cand[h]) :
                  \/ cand[h][j] \in {g[s] : s \in slots}
                  \/ j <= Len(table[h]) /\ cand[h][j] = table[h][j]
  <2> DEFINE k == PagesFor(length[h] + add[h])
  <2>1. cand[h] = [j \in 1 .. k |-> IF <<h, j>> \in slots THEN g[<<h, j>>]
                                                          ELSE table[h][j]]
    BY DEF Candidates
  <2>2. k \in Nat /\ table[h] \in Seq(Pages)
    BY <1>2, ReserveFacts
  <2> HIDE DEF cand, k, slots
  <2>3. ASSUME NEW j \in 1 .. k
        PROVE  /\ cand[h][j] \in Pages
               /\ \/ cand[h][j] \in {g[s] : s \in slots}
                  \/ j <= Len(table[h]) /\ cand[h][j] = table[h][j]
    <3>1. CASE <<h, j>> \in slots
      BY <1>3, <2>1, <3>1
    <3>2. CASE <<h, j>> \notin slots
      <4>1. j \in 1 .. Len(table[h]) /\ cand[h][j] = table[h][j]
        BY <1>4, <2>1, <3>2 DEF k
      <4> QED
        BY <2>2, <4>1
    <3> QED
      BY <3>1, <3>2
  <2>4. cand[h] \in [1 .. k -> Pages]
    BY <2>1, <2>3
  <2>5. cand[h] \in Seq(Pages) /\ Len(cand[h]) = k
    BY <2>2, <2>4
  <2> QED
    BY <2>3, <2>5 DEF k
<1>6. cand \in [batch -> Seq(Pages)]
  BY <1>5 DEF Candidates
<1>7. {g[s] : s \in slots} \subseteq free /\ PagesOf(batch, table) \subseteq Pages
  BY <1>3 DEF PagesOf
<1>8. {<<LastPage(h), g[<<h, Len(table[h])>>]>> : h \in {b \in batch : CopyOnWrite(b)}}
        \subseteq Pages \X Pages
  <2>1. ASSUME NEW h \in batch, CopyOnWrite(h)
        PROVE  LastPage(h) \in Pages /\ g[<<h, Len(table[h])>>] \in Pages
    <3>1. /\ table[h] \in Seq(Pages) /\ Len(table[h]) \in 1 .. MaxPages
          /\ Len(table[h]) <= PagesFor(length[h] + add[h])
      BY <1>2, <2>1, ReserveFacts DEF CopyOnWrite
    <3>2. <<h, Len(table[h])>> \in slots
      BY <2>1, <3>1 DEF NewSlots
    <3> QED
      BY <1>3, <3>1, <3>2 DEF LastPage
  <2> DEFINE Pair(h) == <<LastPage(h), g[<<h, Len(table[h])>>]>>
  <2>2. \A h \in {b \in batch : CopyOnWrite(b)} : Pair(h) \in Pages \X Pages
    BY <2>1
  <2> HIDE DEF Pair
  <2>3. {Pair(h) : h \in {b \in batch : CopyOnWrite(b)}} \subseteq Pages \X Pages
    BY <2>2
  <2> QED
    BY <2>3 DEF Pair
<1>9. {g[s] : s \in slots} \union PagesOf(batch, table) # {}
  <2>1. PICK h \in batch : TRUE
    BY <1>2
  <2>2. /\ 1 \in 1 .. PagesFor(length[h] + add[h]) /\ 1 \in 1 .. MaxPages
        /\ table[h] \in Seq(Pages)
    BY <1>2, ReserveFacts
  <2>3. CASE <<h, 1>> \in slots
    BY <2>3
  <2>4. CASE <<h, 1>> \notin slots
    <3>1. 1 \in 1 .. Len(table[h])
      BY <1>4, <2>2, <2>4
    <3>2. table[h][1] \in Pages /\ 1 \in DOMAIN table[h]
      BY <2>2, <3>1
    <3>3. <<h, 1>> \in Occurrences(batch, table, table[h][1])
      BY <2>2, <3>2 DEF Occurrences
    <3> QED
      BY <3>2, <3>3 DEF PagesOf
  <2> QED
    BY <2>3, <2>4
<1> HIDE DEF cand, slots
<1>10. /\ resv'.batch = batch /\ resv'.add = add /\ resv'.cand = cand
       /\ resv'.granted = {g[s] : s \in slots}
       /\ resv'.pinned = PagesOf(batch, table)
       /\ resv'.copy \subseteq Pages \X Pages /\ resv'.staged = NoPool
  BY <1>1, <1>8 DEF cand
<1>11. /\ UNCHANGED <<live, table, length, ref, free, kv, written>>
       /\ pin' = [p \in Pages |-> IF p \in PagesOf(batch, table) THEN pin[p] + 1
                                                                 ELSE pin[p]]
       /\ reserved' = {g[s] : s \in slots}
  BY <1>1, <1>2 DEF Reserve
<1>12. TypeOK'
  <2>1. pin' \in [Pages -> Nat]
    BY <1>2, <1>11
  <2>2. ReservationOK'
    <3>1. resv'.batch \in (SUBSET live') \ {{}}
      BY <1>2, <1>10, <1>11
    <3>2. /\ resv'.add \in [resv'.batch -> 1 .. MaxAppend]
          /\ resv'.cand \in [resv'.batch -> Seq(Pages)]
      BY <1>6, <1>10
    <3>3. /\ resv'.granted \subseteq Pages /\ resv'.pinned \subseteq Pages
          /\ resv'.staged \in Pool \union {NoPool}
      BY <1>2, <1>7, <1>10
    <3> QED
      BY <1>10, <3>1, <3>2, <3>3 DEF ReservationOK
  <2> QED
    BY <1>2, <1>7, <1>11, <2>1, <2>2 DEF Bookkeeping, TypeOK
<1>13. RefCountsExact'
  BY <1>11 DEF Bookkeeping, RefCountsExact
<1>14. FreePagesUnused'
  <2>1. ASSUME NEW p \in free
        PROVE  pin'[p] = 0 /\ Occurrences(live, table, p) = {}
    <3>1. Occurrences(live, table, p) = {} /\ p \in Pages
      BY <1>2 DEF Bookkeeping, FreePagesUnused
    <3>2. p \notin PagesOf(batch, table)
      BY <3>1 DEF PagesOf, Occurrences
    <3> QED
      BY <1>2, <1>11, <3>1, <3>2
  <2> QED
    BY <1>7, <1>11, <2>1 DEF FreePagesUnused
<1>15. ReservationSound'
  <2>1. TablesFit'
    BY <1>11 DEF Bookkeeping, ReservationSound, TablesFit
  <2>2. \A p \in Pages : pin'[p] = IF p \in resv'.pinned THEN 1 ELSE 0
    BY <1>2, <1>10, <1>11
  <2>3. resv'.pinned = PagesOf(resv'.batch, table')
    BY <1>10, <1>11
  <2>4. \A h \in resv'.batch :
         /\ length'[h] + resv'.add[h] <= MaxLength
         /\ Len(resv'.cand[h]) = PagesFor(length'[h] + resv'.add[h])
         /\ \A j \in 1 .. Len(resv'.cand[h]) :
              \/ resv'.cand[h][j] \in resv'.granted
              \/ j <= Len(table'[h]) /\ resv'.cand[h][j] = table'[h][j]
    BY <1>2, <1>5, <1>10, <1>11
  <2> QED
    BY <1>9, <1>10, <1>11, <2>1, <2>2, <2>3, <2>4 DEF ReservationSound
<1> QED
  BY <1>12, <1>13, <1>14, <1>15 DEF Bookkeeping

-----------------------------------------------------------------------------
(* What the type invariant says of an outstanding reservation. *)
LEMMA OutstandingType ==
    ASSUME Bookkeeping, resv.batch # {}
    PROVE  /\ resv.batch \subseteq live /\ live \subseteq Handles
           /\ resv.add \in [resv.batch -> 1 .. MaxAppend]
           /\ resv.cand \in [resv.batch -> Seq(Pages)]
           /\ resv.granted \subseteq Pages
           /\ resv.copy \subseteq Pages \X Pages
           /\ resv.pinned \subseteq Pages
           /\ resv.staged \in Pool \union {NoPool}
<1>1. resv # NoReservation
  BY DEF NoReservation
<1> QED
  BY <1>1 DEF Bookkeeping, TypeOK, ReservationOK

(* The pool after stage_layer's copies is a pool. *)
LEMMA CopiedType == ASSUME Bookkeeping, resv.batch # {} PROVE Copied \in Pool
<1>1. kv \in [Pages -> [Offsets -> Rows]] /\ resv.copy \subseteq Pages \X Pages
  BY OutstandingType DEF Bookkeeping, TypeOK, Pool
<1>2. ASSUME NEW p \in Pages, \E c \in resv.copy : c[2] = p
      PROVE  kv[(CHOOSE c \in resv.copy : c[2] = p)[1]] \in [Offsets -> Rows]
  <2>1. (CHOOSE c \in resv.copy : c[2] = p) \in resv.copy
    BY <1>2
  <2> QED
    BY <1>1, <2>1
<1> QED
  BY <1>1, <1>2 DEF Copied, Pool

(* So is the pool after its writes. *)
LEMMA WrittenType ==
    ASSUME Bookkeeping, resv.batch # {}, NEW pool \in Pool
    PROVE  Written(pool) \in Pool
<1>1. ASSUME NEW h \in resv.batch, NEW pos \in Appended(h)
      PROVE  <<h, pos>> \in Rows
  <2>1. h \in Handles /\ length[h] \in 0 .. MaxLength /\ resv.add[h] \in 1 .. MaxAppend
    BY OutstandingType DEF Bookkeeping, TypeOK
  <2>2. length[h] + resv.add[h] <= MaxLength
    BY DEF Bookkeeping, ReservationSound
  <2>3. pos \in 0 .. MaxLength
    BY <2>1, <2>2, BoundsAssumption DEF Appended
  <2> QED
    BY <2>1, <2>3 DEF Rows
<1> DEFINE Into(p, o, row) == \E h \in resv.batch : \E pos \in Appended(h) :
                                WritesAt(h, pos, p, o) /\ row = <<h, pos>>
<1>2. ASSUME NEW p \in Pages, NEW o \in Offsets,
             \E h \in resv.batch : \E pos \in Appended(h) : WritesAt(h, pos, p, o)
      PROVE  (CHOOSE row \in Rows : Into(p, o, row)) \in Rows
  <2>1. \E row \in Rows : Into(p, o, row)
    BY <1>1, <1>2
  <2> HIDE DEF Into
  <2> QED
    BY <2>1
<1>3. pool \in [Pages -> [Offsets -> Rows]]
  BY DEF Pool
<1> QED
  BY <1>2, <1>3 DEF Written, Pool

(* stage_layer *)
LEMMA StageBookkeeping == ASSUME Bookkeeping, Stage PROVE Bookkeeping'
<1>1. /\ resv.batch # {} /\ kv' = Copied
      /\ resv' = [resv EXCEPT !.staged = Written(Copied)]
      /\ UNCHANGED <<live, table, length, ref, pin, free, reserved, written>>
  BY DEF Stage
<1>2. Copied \in Pool /\ Written(Copied) \in Pool
  BY <1>1, CopiedType, WrittenType
<1>3. /\ resv'.batch = resv.batch /\ resv'.add = resv.add /\ resv'.cand = resv.cand
      /\ resv'.granted = resv.granted /\ resv'.copy = resv.copy
      /\ resv'.pinned = resv.pinned
  BY <1>1
<1>4. resv'.staged \in Pool
  <2>1. CASE resv = NoReservation
    BY <1>1, <2>1 DEF NoReservation
  <2>2. CASE resv # NoReservation
    BY <1>1, <1>2, <2>2 DEF Bookkeeping, TypeOK, ReservationOK
  <2> QED
    BY <2>1, <2>2
<1>5. TypeOK'
  <2>1. ReservationOK'
    BY <1>1, <1>3, <1>4, OutstandingType DEF ReservationOK
  <2> QED
    BY <1>1, <1>2, <2>1 DEF Bookkeeping, TypeOK
<1>6. RefCountsExact' /\ FreePagesUnused'
  BY <1>1 DEF Bookkeeping, RefCountsExact, FreePagesUnused
<1>7. ReservationSound'
  BY <1>1, <1>3 DEF Bookkeeping, ReservationSound, TablesFit
<1> QED
  BY <1>5, <1>6, <1>7 DEF Bookkeeping

(* abort *)
LEMMA AbortBookkeeping == ASSUME Bookkeeping, Abort PROVE Bookkeeping'
<1>1. /\ resv' = NoReservation /\ reserved' = reserved \ resv.granted
      /\ pin' = [p \in Pages |-> IF p \in resv.pinned THEN pin[p] - 1 ELSE pin[p]]
      /\ UNCHANGED <<live, table, length, ref, free, kv, written>>
  BY DEF Abort, FinishReservation
<1>2. reserved' = {} /\ \A p \in Pages : pin'[p] = 0
  BY <1>1 DEF Bookkeeping, ReservationSound
<1>3. TypeOK'
  <2>1. pin' \in [Pages -> Nat]
    BY <1>1, <1>2
  <2> QED
    BY <1>1, <1>2, <2>1 DEF Bookkeeping, TypeOK, ReservationOK
<1>4. RefCountsExact'
  BY <1>1 DEF Bookkeeping, RefCountsExact
<1>5. FreePagesUnused'
  BY <1>1, <1>2 DEF Bookkeeping, FreePagesUnused, TypeOK
<1>6. ReservationSound'
  <2>1. PagesOf({}, table) = {}
    BY DEF PagesOf, Occurrences
  <2> QED
    BY <1>1, <1>2, <2>1 DEF Bookkeeping, ReservationSound, TablesFit, NoReservation
<1> QED
  BY <1>3, <1>4, <1>5, <1>6 DEF Bookkeeping

(* reset, which an outstanding reservation keeps from running *)
LEMMA ResetBookkeeping == ASSUME Bookkeeping, Reset PROVE Bookkeeping'
<1>1. /\ reserved = {} /\ \A p \in Pages : pin[p] = 0
      /\ live' = {} /\ free' = Pages
      /\ table' = [h \in Handles |-> <<>>] /\ length' = [h \in Handles |-> 0]
      /\ written' = [h \in Handles |-> <<>>] /\ ref' = [p \in Pages |-> 0]
      /\ UNCHANGED <<pin, reserved, resv, kv>>
  BY DEF Reset
<1>2. resv.batch = {}
  <2> SUFFICES ASSUME resv.batch # {} PROVE FALSE
    OBVIOUS
  <2>1. resv.granted = {} /\ resv.pinned = {}
    BY <1>1, OutstandingType DEF Bookkeeping, ReservationSound
  <2> QED
    BY <2>1 DEF Bookkeeping, ReservationSound
<1>3. resv = NoReservation
  BY <1>2 DEF Bookkeeping, TypeOK, ReservationOK
<1>4. \A p \in Pages : /\ Occurrences({}, table', p) = {}
                       /\ Count({}, table', p) = 0
  BY FS_EmptySet DEF Occurrences, Count
<1>5. TypeOK'
  BY <1>1, <1>3, BoundsAssumption DEF Bookkeeping, TypeOK, ReservationOK
<1>6. RefCountsExact' /\ FreePagesUnused'
  BY <1>1, <1>4 DEF RefCountsExact, FreePagesUnused
<1>7. ReservationSound'
  <2>1. PagesOf({}, table') = {}
    BY <1>4 DEF PagesOf
  <2>2. TablesFit'
    BY <1>1, PagesForZero DEF TablesFit
  <2> QED
    BY <1>1, <1>3, <2>1, <2>2 DEF ReservationSound, NoReservation
<1> QED
  BY <1>5, <1>6, <1>7 DEF Bookkeeping

(* commit *)
LEMMA CommitBookkeeping == ASSUME Bookkeeping, Commit PROVE Bookkeeping'
<1> DEFINE batch == resv.batch
           cand  == resv.cand
<1>1. /\ batch # {} /\ resv.staged # NoPool
      /\ kv' = resv.staged /\ live' = live
      /\ resv' = NoReservation /\ reserved' = reserved \ resv.granted
      /\ pin' = [p \in Pages |-> IF p \in resv.pinned THEN pin[p] - 1 ELSE pin[p]]
  BY DEF Commit, FinishReservation
<1>2. /\ ref' = [p \in Pages |-> ref[p] - Count(batch, table, p) + Count(batch, cand, p)]
      /\ table' = [h \in Handles |-> IF h \in batch THEN cand[h] ELSE table[h]]
      /\ length' = [h \in Handles |-> IF h \in batch THEN length[h] + resv.add[h]
                                                     ELSE length[h]]
      /\ written' = [h \in Handles |->
                       IF h \in batch
                       THEN written[h] \o [i \in 1 .. resv.add[h] |->
                                             <<h, length[h] + i - 1>>]
                       ELSE written[h]]
      /\ free' = (free \ resv.granted) \union
                   {p \in Pages \ resv.granted : ref'[p] = 0 /\ pin[p] = 0}
  BY DEF Commit, Swept
<1>3. /\ batch \in SUBSET live /\ live \in SUBSET Handles /\ batch \in SUBSET Handles
      /\ live \ batch \in SUBSET Handles
      /\ resv.add \in [batch -> 1 .. MaxAppend]
      /\ cand \in [batch -> Seq(Pages)]
      /\ resv.staged \in Pool
  BY <1>1, OutstandingType
<1>4. /\ \A h \in batch : table'[h] = cand[h]
      /\ \A h \in live \ batch : table'[h] = table[h]
  BY <1>2, <1>3
<1>5. reserved' = {} /\ \A p \in Pages : pin'[p] = 0
  BY <1>1 DEF Bookkeeping, ReservationSound
<1>6. ASSUME NEW p \in Pages
      PROVE  ref'[p] = Count(live', table', p) /\ ref'[p] \in Nat
  <2>1. Count(live, table, p) = Count(live \ batch, table, p) + Count(batch, table, p)
    BY <1>3, CountSplit
  <2>2. Count(live, table', p) = Count(live \ batch, table', p) + Count(batch, table', p)
    BY <1>3, CountSplit
  <2>3. Count(live \ batch, table', p) = Count(live \ batch, table, p)
    BY <1>4, CountSame
  <2>4. Count(batch, table', p) = Count(batch, cand, p)
    BY <1>4, CountSame
  <2>5. ref'[p] = Count(live, table, p) - Count(batch, table, p) + Count(batch, cand, p)
    BY <1>2 DEF Bookkeeping, RefCountsExact
  <2>6. /\ Count(live \ batch, table, p) \in Nat /\ Count(batch, table, p) \in Nat
        /\ Count(batch, cand, p) \in Nat
    BY <1>3, OccurrencesFinite
  <2> HIDE DEF batch, cand
  <2> QED
    BY <1>1, <2>1, <2>2, <2>3, <2>4, <2>5, <2>6
<1>7. ASSUME NEW h \in batch
      PROVE  /\ length'[h] = length[h] + resv.add[h]
             /\ length'[h] \in 0 .. MaxLength
             /\ table'[h] \in Seq(Pages) /\ Len(table'[h]) = PagesFor(length'[h])
             /\ written'[h] \in Seq(Rows) /\ Len(written'[h]) = length'[h]
  <2>1. /\ h \in Handles /\ length[h] \in Nat /\ resv.add[h] \in 1 .. MaxAppend
        /\ length[h] + resv.add[h] <= MaxLength
        /\ Len(cand[h]) = PagesFor(length[h] + resv.add[h])
        /\ cand[h] \in Seq(Pages)
        /\ written[h] \in Seq(Rows) /\ Len(written[h]) = length[h]
    BY <1>3, BoundsAssumption DEF Bookkeeping, TypeOK, ReservationSound, TablesFit
  <2> DEFINE new == [i \in 1 .. resv.add[h] |-> <<h, length[h] + i - 1>>]
  <2>2. \A i \in 1 .. resv.add[h] : <<h, length[h] + i - 1>> \in Rows
    <3> TAKE i \in 1 .. resv.add[h]
    <3>a. resv.add[h] \in Nat /\ MaxLength \in Nat
      BY <2>1, BoundsAssumption
    <3>1. length[h] + i - 1 \in 0 .. MaxLength
      BY <2>1, <3>a, AppendWithin
    <3> QED
      BY <2>1, <3>1 DEF Rows
  <2>3. new \in [1 .. resv.add[h] -> Rows] /\ resv.add[h] \in Nat
    BY <2>1, <2>2, BoundsAssumption
  <2>4. written'[h] = written[h] \o new
    BY <1>2, <2>1
  <2> HIDE DEF new, batch, cand
  <2>5. new \in Seq(Rows) /\ Len(new) = resv.add[h]
    BY <2>3
  <2>6. written'[h] \in Seq(Rows) /\ Len(written'[h]) = length[h] + resv.add[h]
    <3>1. written[h] \in Seq(Rows) /\ Len(written[h]) = length[h]
      BY <2>1
    <3>2. /\ written[h] \o new \in Seq(Rows)
          /\ Len(written[h] \o new) = Len(written[h]) + Len(new)
      BY <2>5, <3>1, Joined
    <3> QED
      BY <2>4, <2>5, <3>1, <3>2
  <2>7. length'[h] = length[h] + resv.add[h] /\ length'[h] \in 0 .. MaxLength
    BY <1>2, <2>1, <2>3, BoundsAssumption
  <2> QED
    BY <1>4, <2>1, <2>6, <2>7
<1>8. ASSUME NEW h \in Handles, h \notin batch
      PROVE  table'[h] = table[h] /\ length'[h] = length[h] /\ written'[h] = written[h]
  BY <1>2, <1>8
<1>9. TypeOK'
  <2>a. DOMAIN ref' = Pages /\ ref' = [p \in Pages |-> ref'[p]]
    BY <1>2
  <2>1. ref' \in [Pages -> Nat] /\ pin' \in [Pages -> Nat]
    <3>1. ref' \in [Pages -> Nat]
      BY <1>6, <2>a
    <3>2. pin' \in [Pages -> Nat]
      BY <1>1, <1>5
    <3> QED
      BY <3>1, <3>2
  <2>2. \A h \in Handles : /\ table'[h] \in Seq(Pages) /\ length'[h] \in 0 .. MaxLength
                           /\ written'[h] \in Seq(Rows)
    BY <1>7, <1>8 DEF Bookkeeping, TypeOK
  <2>3. /\ table' \in [Handles -> Seq(Pages)] /\ length' \in [Handles -> 0 .. MaxLength]
        /\ written' \in [Handles -> Seq(Rows)]
    BY <1>2, <2>2
  <2>4. free' \subseteq Pages
    BY <1>2 DEF Bookkeeping, TypeOK
  <2> QED
    BY <1>1, <1>3, <1>5, <2>1, <2>3, <2>4 DEF Bookkeeping, TypeOK, ReservationOK
<1>10. RefCountsExact'
  BY <1>6 DEF RefCountsExact
<1>11. FreePagesUnused'
  <2>1. ASSUME NEW p \in free' PROVE Occurrences(live', table', p) = {}
    <3>0. p \in Pages
      BY <1>2 DEF Bookkeeping, TypeOK
    <3>1. CASE p \in free \ resv.granted
      <4>1. Occurrences(live, table, p) = {}
        BY <3>1 DEF Bookkeeping, FreePagesUnused
      <4>2. ASSUME NEW h \in live, NEW j \in 1 .. MaxPages, j \in DOMAIN table'[h],
                   table'[h][j] = p
            PROVE  FALSE
        <5>1. ASSUME h \in batch
              PROVE  j \in DOMAIN table[h] /\ table[h][j] = p
          <6>1. /\ j \in 1 .. Len(cand[h]) /\ cand[h][j] = p /\ cand[h] \in Seq(Pages)
            BY <1>3, <1>4, <4>2, <5>1
          <6>2. j <= Len(table[h]) /\ table[h][j] = p
            BY <3>1, <5>1, <6>1 DEF Bookkeeping, ReservationSound
          <6>3. j \in DOMAIN table[h]
            BY <1>3, <6>2 DEF Bookkeeping, TypeOK
          <6> QED
            BY <6>2, <6>3
        <5>2. ASSUME h \notin batch
              PROVE  j \in DOMAIN table[h] /\ table[h][j] = p
          BY <1>4, <4>2, <5>2
        <5>3. <<h, j>> \in Occurrences(live, table, p)
          BY <5>1, <5>2 DEF Occurrences
        <5> QED
          BY <4>1, <5>3
      <4> QED
        BY <1>1, <4>2 DEF Occurrences
    <3>2. CASE p \notin free \ resv.granted
      <4>1. ref'[p] = 0
        BY <1>2, <2>1, <3>2
      <4> QED
        BY <1>1, <1>3, <1>6, <3>0, <4>1, OccurrencesFinite
    <3> QED
      BY <3>1, <3>2
  <2>2. free' \subseteq Pages
    BY <1>2 DEF Bookkeeping, TypeOK
  <2> QED
    BY <1>5, <2>1, <2>2 DEF FreePagesUnused
<1>12. ReservationSound'
  <2>1. PagesOf({}, table') = {}
    BY DEF PagesOf, Occurrences
  <2>2. TablesFit'
    BY <1>7, <1>8 DEF Bookkeeping, ReservationSound, TablesFit
  <2> QED
    BY <1>1, <1>5, <2>1, <2>2 DEF ReservationSound, NoReservation
<1> QED
  BY <1>9, <1>10, <1>11, <1>12 DEF Bookkeeping

(* Every step preserves it. *)
LEMMA NextBookkeeping == Bookkeeping /\ [Next]_vars => Bookkeeping'
<1> SUFFICES ASSUME Bookkeeping, [Next]_vars PROVE Bookkeeping'
  OBVIOUS
<1>1. CASE \E h \in Handles : Create(h)
  BY <1>1, CreateBookkeeping
<1>2. CASE \E src, h \in Handles : \E n \in 0 .. MaxLength : Fork(src, h, n)
  BY <1>2, ForkBookkeeping, BoundsAssumption
<1>3. CASE \E h \in Handles : h \notin resv.batch /\ Release(h)
  BY <1>3, ReleaseBookkeeping
<1>4. CASE \E batch \in SUBSET live : \E add \in [batch -> 1 .. MaxAppend] :
             Reserve(batch, add)
  BY <1>4, ReserveBookkeeping
<1>5. CASE Stage
  BY <1>5, StageBookkeeping
<1>6. CASE Commit
  BY <1>6, CommitBookkeeping
<1>7. CASE Abort
  BY <1>7, AbortBookkeeping
<1>8. CASE Reset
  BY <1>8, ResetBookkeeping
<1>9. CASE UNCHANGED vars
  <2>1. UNCHANGED <<live, table, length, ref, pin, free, reserved, resv, kv, written>>
    BY <1>9 DEF vars
  <2>2. TypeOK'
    BY <2>1 DEF Bookkeeping, TypeOK, ReservationOK
  <2>3. RefCountsExact' /\ FreePagesUnused'
    BY <2>1 DEF Bookkeeping, RefCountsExact, FreePagesUnused
  <2>4. ReservationSound'
    BY <2>1 DEF Bookkeeping, ReservationSound, TablesFit
  <2> QED
    BY <2>2, <2>3, <2>4 DEF Bookkeeping
<1> QED
  BY <1>1, <1>2, <1>3, <1>4, <1>5, <1>6, <1>7, <1>8, <1>9 DEF Next

-----------------------------------------------------------------------------
(***************************************************************************)
(* The paged backend keeps its bookkeeping for every pool, page size and   *)
(* set of handles: whatever sequence of create, fork, release,             *)
(* reserve_batch, stage_layer, commit, abort and reset runs.               *)
(***************************************************************************)
THEOREM BookkeepingInvariant == Spec => []Bookkeeping
BY InitBookkeeping, NextBookkeeping, PTL DEF Spec

(* The state of the backend is always well typed. *)
THEOREM TypeCorrect == Spec => []TypeOK
<1>1. Bookkeeping => TypeOK
  BY DEF Bookkeeping
<1> QED
  BY <1>1, BookkeepingInvariant, PTL

(***************************************************************************)
(* _ref_counts is exact: every page is counted once for each place at      *)
(* which a live block table holds it.                                      *)
(***************************************************************************)
THEOREM ReferenceCounting == Spec => []RefCountsExact
<1>1. Bookkeeping => RefCountsExact
  BY DEF Bookkeeping
<1> QED
  BY <1>1, BookkeepingInvariant, PTL

(***************************************************************************)
(* No page on the free list is in a block table or pinned, and the pages   *)
(* promised to a reservation stay on it until the reservation ends.        *)
(***************************************************************************)
THEOREM FreeListSafe == Spec => []FreePagesUnused
<1>1. Bookkeeping => FreePagesUnused
  BY DEF Bookkeeping
<1> QED
  BY <1>1, BookkeepingInvariant, PTL

(***************************************************************************)
(* The outstanding reservation stays consistent with the block tables it   *)
(* was computed from, whatever forks and releases other handles do between *)
(* reserve_batch and commit.                                               *)
(***************************************************************************)
THEOREM ReservationStaysSound == Spec => []ReservationSound
<1>1. Bookkeeping => ReservationSound
  BY DEF Bookkeeping
<1> QED
  BY <1>1, BookkeepingInvariant, PTL

-----------------------------------------------------------------------------
(***************************************************************************)
(* What commit's sweep needs besides the bookkeeping: every page granted   *)
(* to the reservation stands in one of its new block tables, so none is    *)
(* left unreferenced by the commit that skips it in the sweep.             *)
(***************************************************************************)
GrantedUsed ==
    \A p \in resv.granted : Occurrences(resv.batch, resv.cand, p) # {}

(* reserve_batch puts every page it takes into a block table. *)
LEMMA ReserveUsesGrants ==
    ASSUME Bookkeeping, NEW batch \in SUBSET live, NEW add \in [batch -> 1 .. MaxAppend],
           Reserve(batch, add)
    PROVE  GrantedUsed'
<1> DEFINE slots == NewSlots(batch, add)
<1>1. PICK g \in Grants(batch, add) :
        /\ resv'.batch = batch /\ resv'.cand = Candidates(batch, add, g)
        /\ resv'.granted = {g[s] : s \in slots}
  BY DEF Reserve
<1>2. \A h \in batch : length[h] + add[h] <= MaxLength
  BY DEF Reserve
<1> SUFFICES ASSUME NEW s \in slots
             PROVE  Occurrences(batch, Candidates(batch, add, g), g[s]) # {}
  BY <1>1 DEF GrantedUsed
<1>3. PICK h \in batch, j \in 1 .. MaxPages : s = <<h, j>>
  BY DEF NewSlots
<1>4. j <= PagesFor(length[h] + add[h])
  BY <1>3 DEF NewSlots
<1>5. PagesFor(length[h] + add[h]) \in Nat /\ MaxPages \in Nat
  BY <1>2, ReserveFacts
<1>6. j \in 1 .. PagesFor(length[h] + add[h])
  BY <1>4, <1>5
<1>7. Candidates(batch, add, g)[h]
        = [i \in 1 .. PagesFor(length[h] + add[h]) |->
             IF <<h, i>> \in slots THEN g[<<h, i>>] ELSE table[h][i]]
  BY DEF Candidates
<1>8. /\ j \in DOMAIN Candidates(batch, add, g)[h]
      /\ Candidates(batch, add, g)[h][j] = g[s]
  BY <1>3, <1>6, <1>7
<1>9. <<h, j>> \in Occurrences(batch, Candidates(batch, add, g), g[s])
  BY <1>8 DEF Occurrences
<1> QED
  BY <1>9

(* Every step keeps the granted pages in use. *)
LEMMA NextGrantedUsed ==
    ASSUME Bookkeeping, GrantedUsed, [Next]_vars PROVE GrantedUsed'
<1>1. ASSUME UNCHANGED resv PROVE GrantedUsed'
  BY <1>1 DEF GrantedUsed
<1>2. ASSUME resv' = NoReservation PROVE GrantedUsed'
  BY <1>2 DEF GrantedUsed, NoReservation
<1>3. CASE \E h \in Handles : Create(h)
  BY <1>1, <1>3 DEF Create
<1>4. CASE \E src, h \in Handles : \E n \in 0 .. MaxLength : Fork(src, h, n)
  BY <1>1, <1>4 DEF Fork
<1>5. CASE \E h \in Handles : h \notin resv.batch /\ Release(h)
  BY <1>1, <1>5 DEF Release
<1>6. CASE \E batch \in SUBSET live : \E add \in [batch -> 1 .. MaxAppend] :
             Reserve(batch, add)
  BY <1>6, ReserveUsesGrants
<1>7. CASE Stage
  <2>1. resv' = [resv EXCEPT !.staged = Written(Copied)]
    BY <1>7 DEF Stage
  <2>2. /\ resv'.batch = resv.batch /\ resv'.cand = resv.cand
        /\ resv'.granted = resv.granted
    BY <2>1
  <2> QED
    BY <2>2 DEF GrantedUsed
<1>8. CASE Commit
  BY <1>2, <1>8 DEF Commit, FinishReservation
<1>9. CASE Abort
  BY <1>2, <1>9 DEF Abort, FinishReservation
<1>10. CASE Reset
  BY <1>1, <1>10 DEF Reset
<1>11. CASE UNCHANGED vars
  BY <1>1, <1>11 DEF vars
<1> QED
  BY <1>3, <1>4, <1>5, <1>6, <1>7, <1>8, <1>9, <1>10, <1>11 DEF Next

(* A page that commit leaves stranded is one the reservation pinned. *)
LEMMA CommitStrandsPinned ==
    ASSUME Bookkeeping, GrantedUsed, Commit
    PROVE  Stranded' \subseteq resv.pinned
<1> SUFFICES ASSUME NEW p \in Stranded', p \notin resv.pinned PROVE FALSE
  OBVIOUS
<1>1. p \in Pages /\ p \notin free' /\ ref'[p] = 0 /\ pin'[p] = 0
  BY DEF Stranded
<1>2. pin[p] = 0
  BY <1>1 DEF Commit, FinishReservation
<1>3. CASE p \notin resv.granted
  BY <1>1, <1>2, <1>3 DEF Commit, Swept
<1>4. CASE p \in resv.granted
  <2>1. resv.batch # {} /\ live' = live
        /\ table' = [h \in Handles |-> IF h \in resv.batch THEN resv.cand[h]
                                                           ELSE table[h]]
    BY DEF Commit
  <2>2. resv.batch \subseteq live /\ live \subseteq Handles
    BY <2>1, OutstandingType
  <2>3. PICK hj \in Occurrences(resv.batch, resv.cand, p) : TRUE
    BY <1>4 DEF GrantedUsed
  <2>4. hj \in Occurrences(live', table', p)
    BY <2>1, <2>2, <2>3 DEF Occurrences
  <2>5. Count(live', table', p) = 0
    <3>1. RefCountsExact'
      BY CommitBookkeeping DEF Bookkeeping
    <3> QED
      BY <1>1, <3>1 DEF RefCountsExact
  <2>6. Occurrences(live', table', p) = {}
    BY <2>1, <2>2, <2>5, OccurrencesFinite
  <2> QED
    BY <2>4, <2>6
<1> QED
  BY <1>3, <1>4

(***************************************************************************)
(* A commit reclaims what earlier steps stranded: after it, a page that is *)
(* neither referenced nor pinned and yet not on the free list is one that  *)
(* this reservation itself pinned, for its sweep runs before               *)
(* _finish_reservation.                                                    *)
(***************************************************************************)
THEOREM CommitsReclaim == Spec => CommitReclaims
<1>1. Init => GrantedUsed
  BY DEF Init, NoReservation, GrantedUsed
<1>2. Bookkeeping /\ GrantedUsed /\ [Next]_vars => GrantedUsed'
  BY NextGrantedUsed
<1>3. Bookkeeping /\ GrantedUsed /\ [Next]_vars
        => [Commit => Stranded' \subseteq resv.pinned]_vars
  BY CommitStrandsPinned
<1> QED
  BY <1>1, <1>2, <1>3, BookkeepingInvariant, PTL DEF Spec, CommitReclaims

-----------------------------------------------------------------------------
(* preflight against reserve_batch. *)

(* The free pages not promised to a reservation are finitely many. *)
LEMMA AvailableFinite ==
    ASSUME Bookkeeping
    PROVE  IsFiniteSet(Available) /\ Cardinality(Available) \in Nat
<1>1. Available \in SUBSET Pages
  BY DEF Available, Bookkeeping, TypeOK
<1>2. IsFiniteSet(Available)
  BY <1>1, PagesAssumption, FS_Subset
<1> QED
  BY <1>2, FS_CardinalityType

(***************************************************************************)
(* The places that reserve_batch fills for one handle: from the shared     *)
(* last page, or behind it, to the end of the new block table.  Their      *)
(* number is the cost that preflight computes for that handle.             *)
(***************************************************************************)
LEMMA CostOfSlots ==
    ASSUME Bookkeeping, NEW batch \in SUBSET live, NEW add \in [batch -> 1 .. MaxAppend],
           NEW h \in batch, length[h] + add[h] <= MaxLength
    PROVE  /\ IsFiniteSet(NewSlots({h}, add))
           /\ Cardinality(NewSlots({h}, add)) = PreflightCost(h, add[h])
           /\ PreflightCost(h, add[h]) \in Nat
<1> DEFINE hi  == PagesFor(length[h] + add[h])
           len == Len(table[h])
           lo  == IF CopyOnWrite(h) THEN len ELSE len + 1
<1>1. /\ hi \in Nat /\ len \in Nat /\ len <= hi /\ hi <= MaxPages
      /\ MaxPages \in Nat /\ table[h] \in Seq(Pages)
  BY ReserveFacts
<1>2. CopyOnWrite(h) => len >= 1
  BY <1>1 DEF CopyOnWrite
<1>3. lo \in Nat /\ lo >= 1 /\ lo <= hi + 1
  <2>1. CASE CopyOnWrite(h)
    BY <1>1, <1>2, <2>1
  <2>2. CASE ~CopyOnWrite(h)
    BY <1>1, <2>2
  <2> QED
    BY <2>1, <2>2
<1>4. PreflightCost(h, add[h]) = hi - lo + 1
  <2>1. CASE CopyOnWrite(h)
    BY <1>1, <2>1 DEF PreflightCost
  <2>2. CASE ~CopyOnWrite(h)
    BY <1>1, <2>2 DEF PreflightCost
  <2> QED
    BY <2>1, <2>2
<1>5. NewSlots({h}, add) = {h} \X (lo .. hi)
  <2>1. ASSUME NEW j \in 1 .. MaxPages
        PROVE  (j <= hi /\ (j > len \/ (j = len /\ CopyOnWrite(h)))) <=> j \in lo .. hi
    <3>a. len \in Nat /\ hi \in Nat /\ j \in Nat
      BY <1>1
    <3> HIDE DEF len, hi
    <3>1. CASE CopyOnWrite(h)
      <4>1. lo = len
        BY <3>1
      <4> HIDE DEF lo
      <4> QED
        BY <3>a, <3>1, <4>1
    <3>2. CASE ~CopyOnWrite(h)
      <4>1. lo = len + 1
        BY <3>2
      <4> HIDE DEF lo
      <4> QED
        BY <3>a, <3>2, <4>1 DEF CopyOnWrite
    <3> QED
      BY <3>1, <3>2
  <2>2. lo .. hi \subseteq 1 .. MaxPages
    BY <1>1, <1>3
  <2>3. NewSlots({h}, add) = {hj \in {h} \X (1 .. MaxPages) : hj[2] \in lo .. hi}
    <3>1. ASSUME NEW hj \in {h} \X (1 .. MaxPages)
          PROVE  (/\ hj[2] <= PagesFor(length[hj[1]] + add[hj[1]])
                  /\ \/ hj[2] > Len(table[hj[1]])
                     \/ hj[2] = Len(table[hj[1]]) /\ CopyOnWrite(hj[1]))
                 <=> hj[2] \in lo .. hi
      <4>1. hj[1] = h /\ hj[2] \in 1 .. MaxPages
        OBVIOUS
      <4>2. PagesFor(length[hj[1]] + add[hj[1]]) = hi /\ Len(table[hj[1]]) = len
        BY <4>1
      <4> HIDE DEF lo, hi, len
      <4>3. (hj[2] <= hi /\ (hj[2] > len \/ (hj[2] = len /\ CopyOnWrite(h))))
              <=> hj[2] \in lo .. hi
        BY <2>1, <4>1
      <4> QED
        BY <4>1, <4>2, <4>3 DEF CopyOnWrite
    <3> HIDE DEF lo, hi
    <3> QED
      BY <3>1 DEF NewSlots
  <2> HIDE DEF lo, hi
  <2> QED
    BY <2>2, <2>3
<1> HIDE DEF lo, hi, len
<1>6. IsFiniteSet(lo .. hi) /\ Cardinality(lo .. hi) = hi - lo + 1
  <2>1. lo \in Int /\ hi \in Int
    BY <1>1, <1>3
  <2>2. /\ IsFiniteSet(lo .. hi)
        /\ Cardinality(lo .. hi) = IF lo > hi THEN 0 ELSE hi - lo + 1
    BY <2>1, FS_Interval
  <2> QED
    BY <1>1, <1>3, <2>2
<1>7. IsFiniteSet({h}) /\ Cardinality({h}) = 1
  BY FS_Singleton
<1>8. /\ IsFiniteSet({h} \X (lo .. hi))
      /\ Cardinality({h} \X (lo .. hi)) = Cardinality({h}) * Cardinality(lo .. hi)
  BY <1>6, <1>7, FS_Product
<1>9. hi - lo + 1 \in Nat /\ Cardinality({h} \X (lo .. hi)) = hi - lo + 1
  BY <1>1, <1>3, <1>6, <1>7, <1>8
<1> QED
  BY <1>4, <1>5, <1>8, <1>9

(* Two handles take different places, so their costs add up. *)
LEMMA CostOfPair ==
    ASSUME Bookkeeping, NEW i \in live, NEW j \in live, i # j,
           NEW add \in [{i, j} -> 1 .. MaxAppend],
           length[i] + add[i] <= MaxLength, length[j] + add[j] <= MaxLength
    PROVE  Cardinality(NewSlots({i, j}, add))
             = PreflightCost(i, add[i]) + PreflightCost(j, add[j])
<1> DEFINE A == NewSlots({i}, add)
           B == NewSlots({j}, add)
<1>1. {i, j} \in SUBSET live /\ i \in {i, j} /\ j \in {i, j}
  OBVIOUS
<1>2. /\ IsFiniteSet(A) /\ Cardinality(A) = PreflightCost(i, add[i])
      /\ PreflightCost(i, add[i]) \in Nat
  BY <1>1, CostOfSlots
<1>3. /\ IsFiniteSet(B) /\ Cardinality(B) = PreflightCost(j, add[j])
      /\ PreflightCost(j, add[j]) \in Nat
  BY <1>1, CostOfSlots
<1>4. A \intersect B = {}
  BY DEF NewSlots
<1>5. NewSlots({i, j}, add) = A \union B
  BY DEF NewSlots
<1> HIDE DEF A, B
<1>6. Cardinality(A \union B) = Cardinality(A) + Cardinality(B) - Cardinality({})
  BY <1>2, <1>3, <1>4, FS_Union
<1>7. Cardinality({}) = 0
  BY FS_EmptySet
<1>8. Cardinality(A) \in Nat /\ Cardinality(B) \in Nat
  BY <1>2, <1>3, FS_CardinalityType
<1>9. Cardinality(A \union B) = Cardinality(A) + Cardinality(B)
  BY <1>6, <1>7, <1>8
<1> QED
  BY <1>2, <1>3, <1>5, <1>9

(***************************************************************************)
(* preflight on two requests: the second is judged by what the first left, *)
(* or by everything when the first was turned down.                        *)
(***************************************************************************)
LEMMA PreflightPair ==
    ASSUME NEW i, NEW j, NEW add
    PROVE  LET avail == Cardinality(Available)
               ci    == PreflightCost(i, add[i])
               cj    == PreflightCost(j, add[j])
               rest  == IF ci > avail THEN avail ELSE avail - ci
           IN Preflight(<<i, j>>, add)
                = {<<i, j>>[k] : k \in {l \in 1 .. 2 :
                     IF l = 1 THEN ci <= avail ELSE cj <= rest}}
<1> DEFINE avail == Cardinality(Available)
           order == <<i, j>>
           Cost(k) == PreflightCost(order[k], add[order[k]])
           Take(l, k) == IF Cost(k) > l THEN l ELSE l - Cost(k)
           left[k \in 0 .. Len(order)] ==
             IF k = 0 THEN avail
             ELSE LET cost == PreflightCost(order[k], add[order[k]])
                  IN IF cost > left[k - 1] THEN left[k - 1] ELSE left[k - 1] - cost
<1>1. left = [k \in 0 .. 2 |-> IF k = 0 THEN avail ELSE Take(left[k - 1], k)]
  <2> DEFINE F(f) == [k \in 0 .. 2 |-> IF k = 0 THEN avail ELSE Take(f[k - 1], k)]
             w == [k \in 0 .. 2 |->
                     IF k = 0 THEN avail
                     ELSE IF k = 1 THEN Take(avail, 1) ELSE Take(Take(avail, 1), 2)]
  <2>1. left = CHOOSE f : f = F(f)
    OBVIOUS
  <2> HIDE DEF left, avail, Take
  <2>2. w = F(w)
    <3>1. \A k \in 0 .. 2 : w[k] = F(w)[k]
      OBVIOUS
    <3> QED
      BY <3>1
  <2> HIDE DEF F
  <2>3. \E f : f = F(f)
    BY <2>2
  <2>4. left = F(left)
    BY <2>1, <2>3
  <2> QED
    BY <2>4 DEF F
<1>2. Preflight(<<i, j>>, add)
        = {order[k] : k \in {l \in 1 .. Len(order) : Cost(l) <= left[l - 1]}}
  BY DEF Preflight
<1> HIDE DEF left
<1>3. left[0] = avail /\ left[1] = Take(avail, 1)
  BY <1>1
<1>4. Len(order) = 2 /\ Cost(1) = PreflightCost(i, add[i]) /\ Cost(2) = PreflightCost(j, add[j])
  OBVIOUS
<1> QED
  BY <1>2, <1>3, <1>4

(* What the bookkeeping says of two requests that preflight judges. *)
LEMMA PairAgrees ==
    ASSUME Bookkeeping, NEW i \in live, NEW j \in live, i # j,
           NEW add \in [{i, j} -> 1 .. MaxAppend],
           length[i] + add[i] <= MaxLength, length[j] + add[j] <= MaxLength
    PROVE  LET kept == Preflight(<<i, j>>, add)
           IN /\ CanReserve(kept, add)
              /\ \A h \in {i, j} \ kept : ~CanReserve(kept \union {h}, add)
<1> DEFINE avail == Cardinality(Available)
           ci    == PreflightCost(i, add[i])
           cj    == PreflightCost(j, add[j])
           rest  == IF ci > avail THEN avail ELSE avail - ci
           kept  == Preflight(<<i, j>>, add)
<1>1. avail \in Nat
  BY AvailableFinite
<1>2. {i, j} \in SUBSET live /\ i \in {i, j} /\ j \in {i, j}
  OBVIOUS
<1>3. ci \in Nat /\ Cardinality(NewSlots({i}, add)) = ci
  BY <1>2, CostOfSlots
<1>4. cj \in Nat /\ Cardinality(NewSlots({j}, add)) = cj
  BY <1>2, CostOfSlots
<1>5. Cardinality(NewSlots({i, j}, add)) = ci + cj
  BY CostOfPair
<1>6. Cardinality(NewSlots({}, add)) = 0
  <2>1. NewSlots({}, add) = {}
    BY DEF NewSlots
  <2> QED
    BY <2>1, FS_EmptySet
<1>7. /\ CanReserve({}, add)
      /\ CanReserve({i}, add) = (ci <= avail)
      /\ CanReserve({j}, add) = (cj <= avail)
      /\ CanReserve({i, j}, add) = (ci + cj <= avail)
  <2> HIDE DEF ci, cj
  <2> QED
    BY <1>1, <1>3, <1>4, <1>5, <1>6 DEF CanReserve
<1>8. kept = {<<i, j>>[k] : k \in {l \in 1 .. 2 :
                IF l = 1 THEN ci <= avail ELSE cj <= rest}}
  BY PreflightPair
<1>9. /\ i \in kept <=> ci <= avail
      /\ j \in kept <=> cj <= rest
      /\ kept \subseteq {i, j}
  <2> HIDE DEF kept, ci, cj, avail, rest
  <2> QED
    BY <1>8
<1> HIDE DEF kept, ci, cj, avail
<1>10. CASE ci <= avail /\ cj <= rest
  <2>1. kept = {i, j} /\ ci + cj <= avail
    BY <1>1, <1>3, <1>4, <1>9, <1>10
  <2> QED
    BY <1>7, <2>1 DEF kept
<1>11. CASE ci <= avail /\ ~(cj <= rest)
  <2>1. kept = {i} /\ {i, j} \ kept = {j} /\ ~(ci + cj <= avail)
    BY <1>1, <1>3, <1>4, <1>9, <1>11
  <2>2. kept \union {j} = {i, j}
    BY <2>1
  <2>3. CanReserve(kept, add) /\ ~CanReserve(kept \union {j}, add)
    BY <1>7, <1>11, <2>1, <2>2
  <2> QED
    BY <2>1, <2>3 DEF kept
<1>12. CASE ~(ci <= avail) /\ cj <= rest
  <2>1. kept = {j} /\ {i, j} \ kept = {i} /\ ~(ci + cj <= avail) /\ cj <= avail
    BY <1>1, <1>3, <1>4, <1>9, <1>12
  <2>2. kept \union {i} = {i, j}
    BY <2>1
  <2>3. CanReserve(kept, add) /\ ~CanReserve(kept \union {i}, add)
    BY <1>7, <2>1, <2>2
  <2> QED
    BY <2>1, <2>3 DEF kept
<1>13. CASE ~(ci <= avail) /\ ~(cj <= rest)
  <2>1. kept = {} /\ ~(cj <= avail)
    BY <1>1, <1>3, <1>4, <1>9, <1>13
  <2>2. kept \union {i} = {i} /\ kept \union {j} = {j}
    BY <2>1
  <2>3. /\ CanReserve(kept, add)
        /\ ~CanReserve(kept \union {i}, add) /\ ~CanReserve(kept \union {j}, add)
    BY <1>7, <1>13, <2>1, <2>2
  <2> QED
    BY <2>3 DEF kept
<1> QED
  BY <1>10, <1>11, <1>12, <1>13

(***************************************************************************)
(* preflight and reserve_batch agree in every state of the backend: the    *)
(* two compute the need for pages separately, preflight by arithmetic and  *)
(* reserve_batch page by page, yet what preflight lets through can always  *)
(* be reserved and what it turns down could not have joined.               *)
(***************************************************************************)
THEOREM PreflightIsRight == Spec => []PreflightAgrees
<1>1. Bookkeeping => PreflightAgrees
  <2> SUFFICES ASSUME Bookkeeping PROVE PreflightAgrees
    OBVIOUS
  <2> USE DEF PreflightAgrees
  <2> TAKE i, j \in live
  <2> TAKE m, n \in 1 .. MaxAppend
  <2> HAVE i # j /\ length[i] + m <= MaxLength /\ length[j] + n <= MaxLength
  <2> DEFINE add == [h \in {i, j} |-> IF h = i THEN m ELSE n]
  <2>1. add \in [{i, j} -> 1 .. MaxAppend] /\ add[i] = m /\ add[j] = n
    OBVIOUS
  <2> HIDE DEF add
  <2>2. length[i] + add[i] <= MaxLength /\ length[j] + add[j] <= MaxLength
    BY <2>1
  <2>3. LET kept == Preflight(<<i, j>>, add)
        IN /\ CanReserve(kept, add)
           /\ \A h \in {i, j} \ kept : ~CanReserve(kept \union {h}, add)
    BY <2>1, <2>2, PairAgrees
  <2> QED
    BY <2>3 DEF add
<1> QED
  BY <1>1, BookkeepingInvariant, PTL

-----------------------------------------------------------------------------
(* Where a row stands. *)

(* The place in a block table of the page that holds position pos. *)
PageNo(pos) == (pos \div PageSize) + 1

(* The rows of n positions stand on the pages for n rows. *)
LEMMA PageNoRange ==
    ASSUME NEW n \in Nat, NEW q \in 0 .. n - 1
    PROVE  PageNo(q) \in 1 .. PagesFor(n) /\ q % PageSize \in Offsets
<1>1. q \in Nat /\ q + 1 <= n /\ n >= 1
  OBVIOUS
<1>2. PagesFor(q + 1) = PageNo(q)
  BY <1>1, PageSizeAssumption DEF PagesFor, PageNo
<1>3. PagesFor(q + 1) <= PagesFor(n) /\ PagesFor(n) \in Nat
  BY <1>1, PagesForMonotone, PagesForType
<1>4. PageNo(q) \in Nat /\ PageNo(q) >= 1
  BY <1>1, <1>2, PagesForType
<1>5. q % PageSize \in Offsets
  BY <1>1, PageSizeAssumption DEF Offsets
<1> QED
  BY <1>2, <1>3, <1>4, <1>5

(* A position behind n is a position. *)
LEMMA PositionsBehind ==
    ASSUME NEW n \in Nat, NEW e \in Nat, NEW q \in n .. e - 1
    PROVE  q \in 0 .. e - 1 /\ q \in Nat /\ n <= q
OBVIOUS

LEMMA PositionsAppended ==
    ASSUME NEW n \in Nat, NEW a \in Nat, NEW q \in n .. n + a - 1
    PROVE  q \in 0 .. n + a - 1
OBVIOUS

(* A position among the first n is one among more. *)
LEMMA PositionsBefore ==
    ASSUME NEW n \in Nat, NEW a \in Nat, NEW q \in 0 .. n - 1
    PROVE  q \in 0 .. n + a - 1 /\ q \in Nat /\ q < n
OBVIOUS

(* Page and offset determine the position. *)
LEMMA PlaceUnique ==
    ASSUME NEW p \in Nat, NEW q \in Nat, PageNo(p) = PageNo(q),
           p % PageSize = q % PageSize
    PROVE  p = q
<1>1. p \div PageSize = q \div PageSize
  BY PageSizeAssumption DEF PageNo
<1>2. \A n \in Nat : \A d \in Nat \ {0} : n = d * (n \div d) + (n % d)
  OBVIOUS
<1>3. /\ p = PageSize * (p \div PageSize) + (p % PageSize)
      /\ q = PageSize * (q \div PageSize) + (q % PageSize)
  BY <1>2, PageSizeAssumption
<1> QED
  BY <1>1, <1>3

(* An append goes to new pages, or to the last page if that is not full. *)
LEMMA AppendPlace ==
    ASSUME NEW n \in Nat, NEW pos \in Nat, n <= pos
    PROVE  /\ PageNo(pos) >= PagesFor(n)
           /\ PageNo(pos) = PagesFor(n) => n % PageSize # 0 /\ n > 0
<1>1. PageNo(pos) \in Nat /\ PagesFor(n) \in Nat
  BY PagesForType, PageSizeAssumption DEF PageNo
<1>2. PageNo(n) <= PageNo(pos)
  BY PageSizeAssumption DEF PageNo
<1>3. PagesFor(n) <= PageNo(n) /\ PageNo(n) \in Nat
  BY PageSizeAssumption DEF PagesFor, PageNo
<1>4. ASSUME n % PageSize = 0 PROVE PagesFor(n) < PageNo(n)
  BY <1>4, PageSizeAssumption DEF PagesFor, PageNo
<1>5. 0 % PageSize = 0
  BY PageSizeAssumption
<1> QED
  BY <1>1, <1>2, <1>3, <1>4, <1>5

-----------------------------------------------------------------------------
(***************************************************************************)
(* What keeps the rows of the handles apart.                               *)
(***************************************************************************)

(* Position pos of block table t and position q of u are one place. *)
SameCell(t, pos, u, q) ==
    t[PageNo(pos)] = u[PageNo(q)] /\ pos % PageSize = q % PageSize

(* A handle that does not exist has no rows. *)
Idle == \A h \in Handles \ live : length[h] = 0

(* What the batch appends goes to places that hold no row of any handle. *)
Fresh ==
    \A h \in resv.batch, g \in live :
        \A pos \in Appended(h), q \in 0 .. length[g] - 1 :
            ~SameCell(resv.cand[h], pos, table[g], q)

(* ... and no two rows of the batch's new block tables share a place. *)
Apart ==
    \A h, g \in resv.batch :
        \A pos \in 0 .. length[h] + resv.add[h] - 1, q \in Appended(g) :
            SameCell(resv.cand[h], pos, resv.cand[g], q) => h = g /\ pos = q

(* A row of the batch keeps its page, or its page is copied. *)
Copies ==
    /\ \A c \in resv.copy : c[2] \in resv.granted
    /\ \A c, d \in resv.copy : c[2] = d[2] => c = d
    /\ \A h \in resv.batch : \A q \in 0 .. length[h] - 1 :
         \/ /\ resv.cand[h][PageNo(q)] = table[h][PageNo(q)]
            /\ resv.cand[h][PageNo(q)] \notin resv.granted
         \/ <<table[h][PageNo(q)], resv.cand[h][PageNo(q)]>> \in resv.copy

(* The staged pool agrees with the pool on the rows of every handle. *)
StagedRight ==
    resv.staged # NoPool =>
        \A g \in live : \A q \in 0 .. length[g] - 1 :
            RowAt(resv.staged, table[g], q) = RowAt(kv, table[g], q)

Content == Idle /\ Fresh /\ Apart /\ Copies /\ StagedRight

(* Two members of a set that has at most one are the same. *)
LEMMA AtMostOnePlace ==
    ASSUME NEW S, IsFiniteSet(S), Cardinality(S) <= 1, NEW x \in S, NEW y \in S
    PROVE  x = y
<1> SUFFICES ASSUME x # y PROVE FALSE
  OBVIOUS
<1>1. IsFiniteSet(S \ {x}) /\ Cardinality(S \ {x}) = Cardinality(S) - 1
  BY FS_RemoveElement
<1>2. Cardinality(S) \in Nat /\ Cardinality(S \ {x}) \in Nat
  BY <1>1, FS_CardinalityType
<1>3. Cardinality(S \ {x}) = 0
  BY <1>1, <1>2
<1>4. S \ {x} = {}
  BY <1>1, <1>3, FS_EmptySet
<1> QED
  BY <1>4

(* The block table of a handle. *)
LEMMA TablePlaces ==
    ASSUME Bookkeeping, NEW k \in Handles
    PROVE  /\ length[k] \in 0 .. MaxLength /\ length[k] \in Nat
           /\ table[k] \in Seq(Pages)
           /\ Len(table[k]) = PagesFor(length[k])
           /\ Len(table[k]) \in Nat /\ Len(table[k]) <= MaxPages
           /\ \A q \in 0 .. length[k] - 1 :
                /\ PageNo(q) \in 1 .. Len(table[k])
                /\ table[k][PageNo(q)] \in Pages
                /\ q % PageSize \in Offsets
<1>1. /\ length[k] \in 0 .. MaxLength /\ table[k] \in Seq(Pages)
      /\ Len(table[k]) = PagesFor(length[k])
  BY DEF Bookkeeping, TypeOK, ReservationSound, TablesFit
<1>2. length[k] \in Nat /\ length[k] <= MaxLength /\ MaxLength \in Nat
  BY <1>1, BoundsAssumption
<1>3. PagesFor(length[k]) <= MaxPages
  BY <1>2, PagesForMonotone DEF MaxPages
<1>4. ASSUME NEW q \in 0 .. length[k] - 1
      PROVE  /\ PageNo(q) \in 1 .. Len(table[k])
             /\ table[k][PageNo(q)] \in Pages
             /\ q % PageSize \in Offsets
  <2>1. PageNo(q) \in 1 .. Len(table[k]) /\ q % PageSize \in Offsets
    BY <1>1, <1>2, PageNoRange
  <2> HIDE DEF PageNo
  <2> QED
    BY <1>1, <2>1
<1> QED
  BY <1>1, <1>2, <1>3, <1>4

(* A free page stands in no block table. *)
LEMMA FreeNowhere ==
    ASSUME Bookkeeping, NEW p \in free, NEW k \in live, NEW i \in 1 .. Len(table[k])
    PROVE  table[k][i] # p
<1> SUFFICES ASSUME table[k][i] = p PROVE FALSE
  OBVIOUS
<1>1. k \in Handles
  BY DEF Bookkeeping, TypeOK
<1>2. /\ table[k] \in Seq(Pages) /\ Len(table[k]) \in Nat
      /\ Len(table[k]) <= MaxPages /\ MaxPages \in Nat
  BY <1>1, TablePlaces, MaxPagesType
<1>3. i \in 1 .. MaxPages /\ i \in DOMAIN table[k]
  BY <1>2
<1>4. <<k, i>> \in Occurrences(live, table, p)
  BY <1>3 DEF Occurrences
<1> QED
  BY <1>4 DEF Bookkeeping, FreePagesUnused

(* A page that is counted once stands in one place. *)
LEMMA CountedOnce ==
    ASSUME Bookkeeping, NEW p \in Pages, ~(ref[p] > 1),
           NEW h \in live, NEW j \in 1 .. Len(table[h]), table[h][j] = p,
           NEW k \in live, NEW i \in 1 .. Len(table[k]), table[k][i] = p
    PROVE  k = h /\ i = j
<1>1. live \in SUBSET Handles
  BY DEF Bookkeeping, TypeOK
<1>2. \A x \in live : /\ table[x] \in Seq(Pages) /\ Len(table[x]) \in Nat
                      /\ Len(table[x]) <= MaxPages /\ MaxPages \in Nat
  BY <1>1, TablePlaces, MaxPagesType
<1>3. /\ j \in 1 .. MaxPages /\ j \in DOMAIN table[h]
      /\ i \in 1 .. MaxPages /\ i \in DOMAIN table[k]
  BY <1>2
<1> DEFINE S == Occurrences(live, table, p)
<1>4. <<h, j>> \in S /\ <<k, i>> \in S
  BY <1>3 DEF Occurrences
<1>5. IsFiniteSet(S) /\ Cardinality(S) \in Nat
  BY <1>1, OccurrencesFinite DEF Count
<1>6. ref[p] = Cardinality(S)
  BY DEF Bookkeeping, RefCountsExact, Count
<1> HIDE DEF S
<1>7. Cardinality(S) <= 1
  BY <1>5, <1>6
<1>8. <<h, j>> = <<k, i>>
  BY <1>4, <1>5, <1>7, AtMostOnePlace
<1> QED
  BY <1>8

(***************************************************************************)
(* reserve_batch: a place of a new block table is either a granted page of *)
(* its own or the old page; the old page an append goes to is the last one *)
(* and nobody else's, or it would have been copied.                        *)
(***************************************************************************)
LEMMA ReserveContent ==
    ASSUME Bookkeeping, Content, NEW batch \in SUBSET live,
           NEW add \in [batch -> 1 .. MaxAppend], Reserve(batch, add)
    PROVE  Content'
<1> DEFINE slots == NewSlots(batch, add)
           Slot(h, pos) == <<h, PageNo(pos)>>
           end(h) == length[h] + add[h]
<1>0. PICK g \in Grants(batch, add) :
        resv' = [batch   |-> batch,
                 add     |-> add,
                 cand    |-> Candidates(batch, add, g),
                 granted |-> {g[s] : s \in slots},
                 copy    |-> {<<LastPage(h), g[<<h, Len(table[h])>>]>> :
                                h \in {b \in batch : CopyOnWrite(b)}},
                 pinned  |-> PagesOf(batch, table),
                 staged  |-> NoPool]
  BY DEF Reserve
<1>1. /\ resv'.batch = batch /\ resv'.add = add
      /\ resv'.cand = Candidates(batch, add, g)
      /\ resv'.granted = {g[s] : s \in slots}
      /\ resv'.copy = {<<LastPage(h), g[<<h, Len(table[h])>>]>> :
                         h \in {b \in batch : CopyOnWrite(b)}}
      /\ resv'.staged = NoPool
  BY <1>0
<1>2. /\ \A h \in batch : length[h] + add[h] <= MaxLength
      /\ UNCHANGED <<live, table, length, kv>>
      /\ live \subseteq Handles
  BY DEF Reserve, Bookkeeping, TypeOK
<1> DEFINE cand == resv'.cand
<1>3. \A s \in slots : g[s] \in free
  BY DEF Grants, Available
<1>4. \A s, t \in slots : g[s] = g[t] => s = t
  BY DEF Grants
<1>5. ASSUME NEW h \in batch
      PROVE  /\ h \in Handles /\ h \in live /\ length[h] \in Nat /\ end(h) \in Nat
             /\ length[h] < end(h)
             /\ Len(table[h]) = PagesFor(length[h]) /\ Len(table[h]) \in Nat
             /\ PagesFor(end(h)) \in Nat /\ PagesFor(end(h)) <= MaxPages
             /\ Len(table[h]) <= PagesFor(end(h)) /\ MaxPages \in Nat
  <2>1. length[h] + add[h] <= MaxLength
    BY <1>2
  <2> QED
    BY <1>2, <2>1, ReserveFacts
<1>6. ASSUME NEW h \in batch, NEW j \in 1 .. PagesFor(end(h))
      PROVE  \/ <<h, j>> \in slots /\ cand[h][j] = g[<<h, j>>]
             \/ /\ <<h, j>> \notin slots /\ cand[h][j] = table[h][j]
                /\ j \in 1 .. Len(table[h])
  <2>1. j \in 1 .. MaxPages
    BY <1>5
  <2>2. cand[h] = [i \in 1 .. PagesFor(end(h)) |->
                     IF <<h, i>> \in slots THEN g[<<h, i>>] ELSE table[h][i]]
    BY <1>1 DEF Candidates
  <2>3. <<h, j>> \notin slots => j \in 1 .. Len(table[h])
    BY <1>5, <2>1 DEF NewSlots
  <2> HIDE DEF slots, cand
  <2> QED
    BY <2>2, <2>3
<1>7. ASSUME NEW h \in batch, NEW j \in 1 .. Len(table[h]), <<h, j>> \in slots
      PROVE  j = Len(table[h]) /\ CopyOnWrite(h)
  BY <1>5, <1>7 DEF NewSlots
<1>8. ASSUME NEW h \in batch, CopyOnWrite(h)
      PROVE  <<h, Len(table[h])>> \in slots /\ Len(table[h]) \in 1 .. Len(table[h])
  <2>1. table[h] # <<>> /\ table[h] \in Seq(Pages)
    BY <1>5, <1>8, TablePlaces DEF CopyOnWrite
  <2>2. Len(table[h]) \in 1 .. MaxPages /\ Len(table[h]) <= PagesFor(end(h))
    BY <1>5, <2>1
  <2> QED
    BY <1>8, <2>2 DEF NewSlots
<1>9. ASSUME NEW h \in batch, NEW pos \in 0 .. end(h) - 1
      PROVE  PageNo(pos) \in 1 .. PagesFor(end(h)) /\ pos \in Nat
  BY <1>5, PageNoRange
<1>10. ASSUME NEW h \in batch, NEW pos \in length[h] .. end(h) - 1,
              Slot(h, pos) \notin slots
       PROVE  /\ PageNo(pos) = Len(table[h]) /\ Len(table[h]) \in 1 .. Len(table[h])
              /\ ~(ref[table[h][PageNo(pos)]] > 1)
              /\ table[h][PageNo(pos)] \in Pages
  <2>1. pos \in 0 .. end(h) - 1 /\ pos \in Nat /\ length[h] <= pos
    BY <1>5
  <2>2. PageNo(pos) \in 1 .. PagesFor(end(h))
    BY <1>9, <2>1
  <2>3. PageNo(pos) \in 1 .. Len(table[h])
    BY <1>6, <1>10, <2>2
  <2>4. /\ PageNo(pos) >= PagesFor(length[h])
        /\ PageNo(pos) = PagesFor(length[h]) => length[h] % PageSize # 0
    BY <1>5, <2>1, AppendPlace
  <2>5. PageNo(pos) = Len(table[h]) /\ length[h] % PageSize # 0
    BY <1>5, <2>3, <2>4
  <2>6. ~CopyOnWrite(h)
    BY <1>8, <1>10, <2>5
  <2>7. table[h] \in Seq(Pages)
    BY <1>5, TablePlaces
  <2>8. table[h] # <<>> /\ LastPage(h) \in Pages
    BY <2>3, <2>5, <2>7 DEF LastPage
  <2>9. ~(ref[LastPage(h)] > 1)
    BY <2>5, <2>6, <2>8 DEF CopyOnWrite
  <2> QED
    BY <2>3, <2>5, <2>8, <2>9 DEF LastPage
<1>11. ASSUME NEW h \in batch, NEW pos \in length[h] .. end(h) - 1,
              NEW k \in live, NEW i \in 1 .. Len(table[k]),
              cand[h][PageNo(pos)] = table[k][i]
       PROVE  Slot(h, pos) \notin slots /\ k = h /\ i = PageNo(pos)
  <2>1. pos \in 0 .. end(h) - 1
    BY <1>5
  <2>2. PageNo(pos) \in 1 .. PagesFor(end(h))
    BY <1>9, <2>1
  <2>3. CASE Slot(h, pos) \in slots
    <3>1. cand[h][PageNo(pos)] \in free
      BY <1>3, <1>6, <2>2, <2>3
    <3> QED
      BY <1>11, <3>1, FreeNowhere
  <2>4. CASE Slot(h, pos) \notin slots
    <3>1. cand[h][PageNo(pos)] = table[h][PageNo(pos)]
      BY <1>6, <2>2, <2>4
    <3>2. /\ PageNo(pos) \in 1 .. Len(table[h])
          /\ ~(ref[table[h][PageNo(pos)]] > 1)
          /\ table[h][PageNo(pos)] \in Pages
      BY <1>10, <2>4
    <3>3. h \in live
      BY <1>5
    <3> DEFINE p == table[h][PageNo(pos)]
               j == PageNo(pos)
    <3>4. table[h][j] = p /\ table[k][i] = p
      BY <1>11, <3>1
    <3>5. p \in Pages /\ ~(ref[p] > 1) /\ j \in 1 .. Len(table[h])
      BY <3>2
    <3> HIDE DEF p, j
    <3>6. k = h /\ i = j
      BY <3>3, <3>4, <3>5, CountedOnce
    <3> QED
      BY <2>4, <3>6 DEF j
  <2> QED
    BY <2>3, <2>4
<1>12. Idle' /\ StagedRight'
  BY <1>1, <1>2 DEF Content, Idle, StagedRight
<1>13. Fresh'
  <2>1. ASSUME NEW h \in batch, NEW k \in live, NEW pos \in length[h] .. end(h) - 1,
               NEW q \in 0 .. length[k] - 1, SameCell(cand[h], pos, table[k], q)
        PROVE  FALSE
    <3>1. PageNo(q) \in 1 .. Len(table[k]) /\ length[k] \in Nat
      BY <1>2, TablePlaces
    <3>2. cand[h][PageNo(pos)] = table[k][PageNo(q)] /\ pos % PageSize = q % PageSize
      BY <2>1 DEF SameCell
    <3>3. k = h /\ PageNo(q) = PageNo(pos)
      <4> DEFINE i == PageNo(q)
      <4>1. i \in 1 .. Len(table[k]) /\ cand[h][PageNo(pos)] = table[k][i]
        BY <3>1, <3>2
      <4> HIDE DEF i, cand, slots, end
      <4>2. k = h /\ i = PageNo(pos)
        BY <1>11, <4>1
      <4> QED
        BY <4>2 DEF i
    <3>4. q \in Nat /\ pos \in Nat /\ q < length[k] /\ length[h] <= pos
      <4>1. length[h] \in Nat /\ end(h) \in Nat
        BY <1>5
      <4>2. q \in Nat /\ q < length[k]
        BY <3>1, PositionsBefore
      <4> HIDE DEF end
      <4> QED
        BY <4>1, <4>2, PositionsBehind
    <3>5. pos = q
      BY <3>2, <3>3, <3>4, PlaceUnique
    <3> QED
      BY <3>1, <3>3, <3>4, <3>5
  <2> SUFFICES ASSUME NEW h \in resv'.batch, NEW k \in live',
                      NEW pos \in length'[h] .. length'[h] + resv'.add[h] - 1,
                      NEW q \in 0 .. length'[k] - 1,
                      SameCell(resv'.cand[h], pos, table'[k], q)
               PROVE  FALSE
    BY DEF Fresh, Appended, SameCell, PageNo
  <2>2. h \in batch /\ k \in live /\ table'[k] = table[k]
    BY <1>1, <1>2
  <2>a. length' = length /\ resv'.add = add
    BY <1>1, <1>2
  <2>c. length[h] \in Nat /\ end(h) \in Nat /\ length[k] \in Nat
    BY <1>2, <1>5, <2>2, TablePlaces
  <2>d. /\ length'[h] = length[h] /\ length'[k] = length[k]
        /\ length'[h] + resv'.add[h] = end(h)
    BY <2>a
  <2> HIDE DEF end
  <2>e. length'[h] \in Nat /\ resv'.add[h] \in Nat /\ length'[k] \in Nat
    BY <2>a, <2>c, <2>2, BoundsAssumption
  <2>3. pos \in length[h] .. end(h) - 1 /\ q \in 0 .. length[k] - 1
    BY <2>c, <2>d, <2>e
  <2> QED
    BY <2>1, <2>2, <2>3
<1>14. Apart'
  <2>1. ASSUME NEW h \in batch, NEW k \in batch, NEW pos \in 0 .. end(h) - 1,
               NEW q \in length[k] .. end(k) - 1, SameCell(cand[h], pos, cand[k], q)
        PROVE  h = k /\ pos = q
    <3>1. cand[h][PageNo(pos)] = cand[k][PageNo(q)] /\ pos % PageSize = q % PageSize
      BY <2>1 DEF SameCell
    <3>2. q \in 0 .. end(k) - 1
      BY <1>5
    <3>3. /\ PageNo(pos) \in 1 .. PagesFor(end(h)) /\ pos \in Nat
          /\ PageNo(q) \in 1 .. PagesFor(end(k)) /\ q \in Nat
      BY <1>9, <3>2
    <3>4. h = k /\ PageNo(pos) = PageNo(q)
      <4>1. CASE Slot(h, pos) \notin slots
        <5>1. /\ cand[k][PageNo(q)] = table[h][PageNo(pos)]
              /\ PageNo(pos) \in 1 .. Len(table[h]) /\ h \in live
          BY <1>5, <1>6, <3>1, <3>3, <4>1
        <5> DEFINE i == PageNo(pos)
        <5>2. i \in 1 .. Len(table[h]) /\ cand[k][PageNo(q)] = table[h][i] /\ h \in live
          BY <5>1
        <5> HIDE DEF i, cand, slots, end
        <5>3. h = k /\ i = PageNo(q)
          BY <1>11, <5>2
        <5> QED
          BY <5>3 DEF i
      <4>2. CASE Slot(h, pos) \in slots
        <5>1. cand[h][PageNo(pos)] = g[Slot(h, pos)] /\ g[Slot(h, pos)] \in free
          BY <1>3, <1>6, <3>3, <4>2
        <5>2. CASE Slot(k, q) \in slots
          <6>1. cand[k][PageNo(q)] = g[Slot(k, q)]
            BY <1>6, <3>3, <5>2
          <6>2. g[Slot(h, pos)] = g[Slot(k, q)]
            BY <3>1, <5>1, <6>1
          <6>3. Slot(h, pos) = Slot(k, q)
            BY <1>4, <4>2, <5>2, <6>2
          <6> QED
            BY <6>3
        <5>3. CASE Slot(k, q) \notin slots
          <6>1. /\ cand[k][PageNo(q)] = table[k][PageNo(q)]
                /\ PageNo(q) \in 1 .. Len(table[k]) /\ k \in live
            BY <1>5, <1>6, <3>3, <5>3
          <6>2. table[k][PageNo(q)] = g[Slot(h, pos)]
            BY <3>1, <5>1, <6>1
          <6> QED
            BY <5>1, <6>1, <6>2, FreeNowhere
        <5> QED
          BY <5>2, <5>3
      <4> QED
        BY <4>1, <4>2
    <3> QED
      BY <3>1, <3>3, <3>4, PlaceUnique
  <2> SUFFICES ASSUME NEW h \in resv'.batch, NEW k \in resv'.batch,
                      NEW pos \in 0 .. length'[h] + resv'.add[h] - 1,
                      NEW q \in length'[k] .. length'[k] + resv'.add[k] - 1,
                      SameCell(resv'.cand[h], pos, resv'.cand[k], q)
               PROVE  h = k /\ pos = q
    BY DEF Apart, Appended, SameCell, PageNo
  <2>2. h \in batch /\ k \in batch
    BY <1>1, <1>2
  <2>a. length' = length /\ resv'.add = add
    BY <1>1, <1>2
  <2>c. length[k] \in Nat /\ end(h) \in Nat /\ end(k) \in Nat
    BY <1>5, <2>2
  <2>d. /\ length'[k] = length[k] /\ length'[h] + resv'.add[h] = end(h)
        /\ length'[k] + resv'.add[k] = end(k)
    BY <2>a
  <2> HIDE DEF end
  <2>e. /\ length'[h] \in Nat /\ resv'.add[h] \in Nat
        /\ length'[k] \in Nat /\ resv'.add[k] \in Nat
    <3>1. length[h] \in Nat /\ length[k] \in Nat
      BY <1>5, <2>2
    <3>2. add[h] \in 1 .. MaxAppend /\ add[k] \in 1 .. MaxAppend
      BY <2>2
    <3>3. add[h] \in Nat /\ add[k] \in Nat
      BY <3>2, BoundsAssumption
    <3> QED
      BY <2>a, <3>1, <3>3
  <2>3. pos \in 0 .. end(h) - 1 /\ q \in length[k] .. end(k) - 1
    BY <2>c, <2>d, <2>e
  <2> QED
    BY <2>1, <2>2, <2>3
<1>15. Copies'
  <2> DEFINE Pair(h) == <<LastPage(h), g[<<h, Len(table[h])>>]>>
  <2>1. ASSUME NEW c \in resv'.copy
        PROVE  \E h \in batch : CopyOnWrite(h) /\ c = Pair(h)
    BY <1>1
  <2>2. \A c \in resv'.copy : c[2] \in resv'.granted
    <3> TAKE c \in resv'.copy
    <3>1. PICK h \in batch : CopyOnWrite(h) /\ c = Pair(h)
      BY <2>1
    <3>2. <<h, Len(table[h])>> \in slots /\ c[2] = g[<<h, Len(table[h])>>]
      BY <1>8, <3>1
    <3> QED
      BY <1>1, <3>2
  <2>3. \A c, d \in resv'.copy : c[2] = d[2] => c = d
    <3> TAKE c, d \in resv'.copy
    <3> HAVE c[2] = d[2]
    <3>1. PICK h \in batch : CopyOnWrite(h) /\ c = Pair(h)
      BY <2>1
    <3>2. PICK k \in batch : CopyOnWrite(k) /\ d = Pair(k)
      BY <2>1
    <3>3. <<h, Len(table[h])>> \in slots /\ c[2] = g[<<h, Len(table[h])>>]
      BY <1>8, <3>1
    <3>4. <<k, Len(table[k])>> \in slots /\ d[2] = g[<<k, Len(table[k])>>]
      BY <1>8, <3>2
    <3>5. <<h, Len(table[h])>> = <<k, Len(table[k])>>
      BY <1>4, <3>3, <3>4
    <3> QED
      BY <3>1, <3>2, <3>5
  <2>4. ASSUME NEW h \in batch, NEW q \in 0 .. length[h] - 1
        PROVE  \/ /\ cand[h][PageNo(q)] = table[h][PageNo(q)]
                  /\ cand[h][PageNo(q)] \notin resv'.granted
               \/ <<table[h][PageNo(q)], cand[h][PageNo(q)]>> \in resv'.copy
    <3>1. PageNo(q) \in 1 .. Len(table[h]) /\ PageNo(q) \in 1 .. PagesFor(end(h))
      BY <1>5, TablePlaces
    <3>2. CASE <<h, PageNo(q)>> \in slots
      <4>1. PageNo(q) = Len(table[h]) /\ CopyOnWrite(h)
        BY <1>7, <3>1, <3>2
      <4>2. cand[h][PageNo(q)] = g[<<h, Len(table[h])>>]
        BY <1>6, <3>1, <3>2, <4>1
      <4>3. table[h][PageNo(q)] = LastPage(h)
        BY <4>1 DEF LastPage
      <4> QED
        BY <1>1, <4>1, <4>2, <4>3
    <3>3. CASE <<h, PageNo(q)>> \notin slots
      <4>1. cand[h][PageNo(q)] = table[h][PageNo(q)]
        BY <1>6, <3>1, <3>3
      <4>2. \A s \in slots : g[s] # table[h][PageNo(q)]
        BY <1>3, <1>5, <3>1, FreeNowhere
      <4> QED
        BY <1>1, <4>1, <4>2
    <3> QED
      BY <3>2, <3>3
  <2> HIDE DEF cand
  <2> QED
    BY <1>1, <1>2, <2>2, <2>3, <2>4 DEF Copies, cand
<1> QED
  BY <1>12, <1>13, <1>14, <1>15 DEF Content

(***************************************************************************)
(* A step that leaves the pool and the reservation alone, and gives no     *)
(* handle a row that was nobody's, keeps the rows apart.                   *)
(***************************************************************************)
LEMMA ContentKept ==
    ASSUME Bookkeeping, Content, resv' = resv, kv' = kv, Idle',
           \A h \in resv.batch : length'[h] = length[h] /\ table'[h] = table[h],
           \A g \in live' : \A q \in 0 .. length'[g] - 1 :
             \E k \in live : /\ q \in 0 .. length[k] - 1
                             /\ table'[g][PageNo(q)] = table[k][PageNo(q)]
    PROVE  Content'
<1>1. Fresh'
  <2> SUFFICES ASSUME NEW h \in resv.batch, NEW g \in live', NEW pos \in Appended(h),
                      NEW q \in 0 .. length'[g] - 1,
                      SameCell(resv.cand[h], pos, table'[g], q)
               PROVE  FALSE
    BY DEF Fresh, Appended, SameCell, PageNo
  <2>1. PICK k \in live : /\ q \in 0 .. length[k] - 1
                          /\ table'[g][PageNo(q)] = table[k][PageNo(q)]
    OBVIOUS
  <2>2. SameCell(resv.cand[h], pos, table[k], q)
    BY <2>1 DEF SameCell
  <2> QED
    BY <2>1, <2>2 DEF Content, Fresh
<1>2. Apart'
  <2> SUFFICES ASSUME NEW h \in resv.batch, NEW g \in resv.batch,
                      NEW pos \in 0 .. length[h] + resv.add[h] - 1, NEW q \in Appended(g),
                      SameCell(resv.cand[h], pos, resv.cand[g], q)
               PROVE  h = g /\ pos = q
    BY DEF Apart, Appended, SameCell, PageNo
  <2> QED
    BY DEF Content, Apart
<1>3. Copies'
  BY DEF Content, Copies, PageNo
<1>4. StagedRight'
  <2> SUFFICES ASSUME resv.staged # NoPool, NEW g \in live', NEW q \in 0 .. length'[g] - 1
               PROVE  RowAt(resv.staged, table'[g], q) = RowAt(kv, table'[g], q)
    BY DEF StagedRight, RowAt
  <2>1. PICK k \in live : /\ q \in 0 .. length[k] - 1
                          /\ table'[g][PageNo(q)] = table[k][PageNo(q)]
    OBVIOUS
  <2>2. RowAt(resv.staged, table[k], q) = RowAt(kv, table[k], q)
    BY <2>1 DEF Content, StagedRight
  <2> QED
    BY <2>1, <2>2 DEF RowAt, PageNo
<1> QED
  BY <1>1, <1>2, <1>3, <1>4 DEF Content

(* stage_layer's copies go to pages that no handle reads. *)
LEMMA CopiedRows ==
    ASSUME Bookkeeping, Content, NEW g \in live, NEW q \in 0 .. length[g] - 1
    PROVE  RowAt(Copied, table[g], q) = RowAt(kv, table[g], q)
<1> DEFINE p == table[g][PageNo(q)]
<1>1. g \in Handles
  BY DEF Bookkeeping, TypeOK
<1>2. PageNo(q) \in 1 .. Len(table[g]) /\ p \in Pages
  BY <1>1, TablePlaces
<1>3. p \notin resv.granted
  <2>1. resv.granted \subseteq free
    BY DEF Bookkeeping, ReservationSound, FreePagesUnused
  <2>2. \A f \in free : p # f
    BY <1>2, FreeNowhere
  <2> QED
    BY <2>1, <2>2
<1>4. ~ \E c \in resv.copy : c[2] = p
  BY <1>3 DEF Content, Copies
<1> HIDE DEF p
<1>5. Copied[p] = IF \E c \in resv.copy : c[2] = p
                  THEN kv[(CHOOSE c \in resv.copy : c[2] = p)[1]]
                  ELSE kv[p]
  BY <1>2 DEF Copied
<1>6. Copied[p] = kv[p]
  BY <1>4, <1>5
<1> QED
  BY <1>6 DEF RowAt, PageNo, p

(* A row of the batch is read back from the place it was written to. *)
LEMMA WrittenHere ==
    ASSUME Bookkeeping, Content, resv.batch # {}, NEW pool,
           NEW h \in resv.batch, NEW pos \in Appended(h)
    PROVE  RowAt(Written(pool), resv.cand[h], pos) = <<h, pos>>
<1> DEFINE p == resv.cand[h][PageNo(pos)]
           o == pos % PageSize
           end == length[h] + resv.add[h]
           Into(row) == \E g \in resv.batch : \E q \in Appended(g) :
                          WritesAt(g, q, p, o) /\ row = <<g, q>>
<1>0. /\ h \in Handles /\ resv.add[h] \in 1 .. MaxAppend
      /\ resv.cand[h] \in Seq(Pages)
  BY OutstandingType
<1>1. /\ h \in Handles /\ length[h] \in Nat /\ resv.add[h] \in Nat
      /\ end \in Nat /\ resv.cand[h] \in Seq(Pages)
  BY <1>0, TablePlaces, BoundsAssumption
<1>2. end <= MaxLength /\ Len(resv.cand[h]) = PagesFor(end)
  BY DEF Bookkeeping, ReservationSound
<1>a. Appended(h) = length[h] .. end - 1
  BY <1>1 DEF Appended
<1>3. pos \in 0 .. end - 1 /\ pos \in Nat
  <2> HIDE DEF end
  <2> QED
    BY <1>1, <1>a, PositionsBehind
<1>4. PageNo(pos) \in 1 .. Len(resv.cand[h]) /\ o \in Offsets
  <2> HIDE DEF end
  <2> QED
    BY <1>1, <1>2, <1>3, PageNoRange
<1>5. p \in Pages
  BY <1>1, <1>4
<1>6. <<h, pos>> \in Rows
  <2> HIDE DEF end
  <2>1. pos \in 0 .. MaxLength
    BY <1>1, <1>2, <1>3, BoundsAssumption
  <2> QED
    BY <1>1, <2>1 DEF Rows
<1>7. WritesAt(h, pos, p, o) /\ Into(<<h, pos>>)
  BY DEF WritesAt, PageNo
<1>8. ASSUME NEW row \in Rows, Into(row) PROVE row = <<h, pos>>
  <2>0. PICK g \in resv.batch :
          \E q \in Appended(g) : WritesAt(g, q, p, o) /\ row = <<g, q>>
    BY <1>8
  <2>1. PICK q \in Appended(g) : WritesAt(g, q, p, o) /\ row = <<g, q>>
    BY <2>0
  <2>2. SameCell(resv.cand[h], pos, resv.cand[g], q)
    BY <2>1 DEF WritesAt, SameCell, PageNo
  <2>3. h = g /\ pos = q
    <3>1. pos \in 0 .. length[h] + resv.add[h] - 1
      <4>1. pos \in length[h] .. length[h] + resv.add[h] - 1
        BY DEF Appended
      <4> QED
        BY <1>1, <4>1, PositionsAppended
    <3>2. Apart
      BY DEF Content
    <3> HIDE DEF p, o, end, Into
    <3>3. \A x \in 0 .. length[h] + resv.add[h] - 1, y \in Appended(g) :
            SameCell(resv.cand[h], x, resv.cand[g], y) => h = g /\ x = y
      BY <3>2, Zenon DEF Apart
    <3> QED
      BY <2>2, <3>1, <3>3, Zenon
  <2> QED
    BY <2>1, <2>3
<1>9. (CHOOSE row \in Rows : Into(row)) = <<h, pos>>
  <2> HIDE DEF Into
  <2> QED
    BY <1>6, <1>7, <1>8
<1>10. Written(pool)[p][o] = <<h, pos>>
  <2>1. Written(pool)[p][o] = CHOOSE row \in Rows : Into(row)
    BY <1>4, <1>5, <1>7 DEF Written
  <2> HIDE DEF p, o, Into
  <2> QED
    BY <1>9, <2>1
<1> QED
  BY <1>10 DEF RowAt, PageNo

(* Where the batch writes no row, the pool stays as it was. *)
LEMMA WrittenElsewhere ==
    ASSUME NEW pool, NEW t, NEW q, t[PageNo(q)] \in Pages, q % PageSize \in Offsets,
           \A h \in resv.batch : \A pos \in Appended(h) : ~SameCell(resv.cand[h], pos, t, q)
    PROVE  RowAt(Written(pool), t, q) = RowAt(pool, t, q)
<1> DEFINE p == t[PageNo(q)]
           o == q % PageSize
<1>1. ~ \E h \in resv.batch : \E pos \in Appended(h) : WritesAt(h, pos, p, o)
  BY DEF WritesAt, SameCell, PageNo
<1>2. p \in Pages /\ o \in Offsets
  OBVIOUS
<1> HIDE DEF p, o
<1>3. Written(pool)[p][o] = pool[p][o]
  BY <1>1, <1>2 DEF Written
<1> QED
  BY <1>3 DEF RowAt, PageNo, p, o

(***************************************************************************)
(* What the staged pool shows through the new block tables of the batch:   *)
(* the rows the handle had, from a kept or a copied page, then its new     *)
(* ones.                                                                   *)
(***************************************************************************)
LEMMA StagedRows ==
    ASSUME Bookkeeping, Content, resv.batch # {}, NEW h \in resv.batch,
           NEW q \in 0 .. length[h] - 1
    PROVE  RowAt(Written(Copied), resv.cand[h], q) = RowAt(kv, table[h], q)
<1> DEFINE new == resv.cand[h][PageNo(q)]
           old == table[h][PageNo(q)]
           end == length[h] + resv.add[h]
<1>0. /\ h \in Handles /\ h \in live
      /\ resv.add[h] \in 1 .. MaxAppend /\ resv.cand[h] \in Seq(Pages)
  BY OutstandingType
<1>1. /\ h \in Handles /\ h \in live /\ length[h] \in Nat
      /\ resv.add[h] \in 1 .. MaxAppend /\ resv.cand[h] \in Seq(Pages)
  BY <1>0, TablePlaces
<1>2. Len(resv.cand[h]) = PagesFor(end)
  BY DEF Bookkeeping, ReservationSound
<1>a. resv.add[h] \in Nat /\ end \in Nat
  BY <1>1, BoundsAssumption
<1>3. /\ q \in 0 .. end - 1 /\ q \in Nat /\ q < length[h]
      /\ q \in 0 .. length[h] + resv.add[h] - 1
  <2>1. /\ q \in 0 .. length[h] + resv.add[h] - 1
        /\ q \in Nat /\ q < length[h]
    BY <1>1, <1>a, PositionsBefore
  <2> QED
    BY <1>1, <1>a, <2>1
<1>4. PageNo(q) \in 1 .. Len(resv.cand[h]) /\ q % PageSize \in Offsets
  <2> HIDE DEF end
  <2> QED
    BY <1>2, <1>3, <1>a, PageNoRange
<1>5. new \in Pages
  BY <1>1, <1>4
<1>6. ASSUME NEW g \in resv.batch, NEW pos \in Appended(g),
             SameCell(resv.cand[g], pos, resv.cand[h], q)
      PROVE  FALSE
  <2>1. SameCell(resv.cand[h], q, resv.cand[g], pos)
    BY <1>6 DEF SameCell
  <2>2. Apart
    BY DEF Content
  <2> HIDE DEF new, old, end
  <2>3. \A x \in 0 .. length[h] + resv.add[h] - 1, y \in Appended(g) :
          SameCell(resv.cand[h], x, resv.cand[g], y) => h = g /\ x = y
    BY <2>2, Zenon DEF Apart
  <2>4. h = g /\ q = pos
    BY <1>3, <2>1, <2>3, Zenon
  <2> QED
    BY <1>1, <1>3, <2>4 DEF Appended
<1>7. RowAt(Written(Copied), resv.cand[h], q) = RowAt(Copied, resv.cand[h], q)
  BY <1>4, <1>5, <1>6, WrittenElsewhere
<1>8. Copied[new] = kv[old]
  <2>1. CASE new = old /\ new \notin resv.granted
    <3>1. ~ \E c \in resv.copy : c[2] = new
      BY <2>1 DEF Content, Copies
    <3> QED
      BY <1>5, <2>1, <3>1 DEF Copied
  <2>2. CASE <<old, new>> \in resv.copy
    <3> HIDE DEF new, old
    <3>1. \A c \in resv.copy : c[2] = new => c = <<old, new>>
      BY <2>2 DEF Content, Copies
    <3>2. (CHOOSE c \in resv.copy : c[2] = new) = <<old, new>>
      BY <2>2, <3>1
    <3>3. Copied[new] = kv[(CHOOSE c \in resv.copy : c[2] = new)[1]]
      BY <1>5, <2>2 DEF Copied
    <3>4. <<old, new>>[1] = old
      OBVIOUS
    <3> QED
      BY <3>2, <3>3, <3>4
  <2> QED
    BY <2>1, <2>2 DEF Content, Copies
<1> QED
  BY <1>7, <1>8 DEF RowAt, PageNo

(* stage_layer *)
LEMMA StageContent == ASSUME Bookkeeping, Content, Stage PROVE Content'
<1>1. /\ resv.batch # {} /\ kv' = Copied
      /\ resv' = [resv EXCEPT !.staged = Written(Copied)]
      /\ UNCHANGED <<live, table, length>>
  BY DEF Stage
<1>2. /\ resv'.batch = resv.batch /\ resv'.add = resv.add /\ resv'.cand = resv.cand
      /\ resv'.granted = resv.granted /\ resv'.copy = resv.copy
  BY <1>1
<1>3. resv'.staged = Written(Copied)
  BY <1>1
<1>4. Idle' /\ Fresh' /\ Apart' /\ Copies'
  <2>1. Idle'
    BY <1>1 DEF Content, Idle
  <2>2. Fresh'
    BY <1>1, <1>2 DEF Content, Fresh, Appended, SameCell, PageNo
  <2>3. Apart'
    BY <1>1, <1>2 DEF Content, Apart, Appended, SameCell, PageNo
  <2>4. Copies'
    BY <1>1, <1>2 DEF Content, Copies, PageNo
  <2> QED
    BY <2>1, <2>2, <2>3, <2>4
<1>5. StagedRight'
  <2>1. ASSUME NEW g \in live, NEW q \in 0 .. length[g] - 1
        PROVE  RowAt(Written(Copied), table[g], q) = RowAt(Copied, table[g], q)
    <3>1. g \in Handles
      BY DEF Bookkeeping, TypeOK
    <3>2. table[g][PageNo(q)] \in Pages /\ q % PageSize \in Offsets
      BY <3>1, TablePlaces
    <3>3. \A h \in resv.batch : \A pos \in Appended(h) :
            ~SameCell(resv.cand[h], pos, table[g], q)
      BY DEF Content, Fresh
    <3> QED
      BY <3>2, <3>3, WrittenElsewhere
  <2> QED
    BY <1>1, <1>3, <2>1 DEF StagedRight, RowAt
<1> QED
  BY <1>4, <1>5 DEF Content

(* Every step keeps the rows of the handles apart. *)
LEMMA NextContent == Bookkeeping /\ Content /\ [Next]_vars => Content'
<1> SUFFICES ASSUME Bookkeeping, Content, [Next]_vars PROVE Content'
  OBVIOUS
<1>0. resv.batch \subseteq live /\ live \subseteq Handles
  BY DEF Bookkeeping, TypeOK, ReservationOK, NoReservation
<1>a. ASSUME resv' = NoReservation, Idle' PROVE Content'
  BY <1>a DEF Content, Fresh, Apart, Copies, StagedRight, NoReservation
<1>1. ASSUME NEW h \in Handles, Create(h) PROVE Content'
  <2>1. /\ resv' = resv /\ kv' = kv /\ live' = live \union {h} /\ h \notin live
        /\ length'[h] = 0
        /\ \A g \in Handles \ {h} : length'[g] = length[g] /\ table'[g] = table[g]
    BY <1>1 DEF Create, Bookkeeping, TypeOK
  <2>2. Idle'
    BY <2>1 DEF Content, Idle
  <2>3. \A g \in resv.batch : length'[g] = length[g] /\ table'[g] = table[g]
    BY <1>0, <2>1
  <2>4. ASSUME NEW g \in live', NEW q \in 0 .. length'[g] - 1
        PROVE  /\ g \in live /\ q \in 0 .. length[g] - 1
               /\ table'[g][PageNo(q)] = table[g][PageNo(q)]
    BY <1>0, <2>1
  <2> QED
    BY <2>1, <2>2, <2>3, <2>4, ContentKept
<1>2. ASSUME NEW src \in Handles, NEW h \in Handles, NEW n \in 0 .. MaxLength,
             Fork(src, h, n)
      PROVE  Content'
  <2>1. /\ resv' = resv /\ kv' = kv /\ live' = live \union {h} /\ h \notin live
        /\ src \in live /\ n \in 0 .. length[src]
        /\ length'[h] = n /\ table'[h] = SubSeq(table[src], 1, PagesFor(n))
        /\ \A g \in Handles \ {h} : length'[g] = length[g] /\ table'[g] = table[g]
    BY <1>2 DEF Fork, Bookkeeping, TypeOK
  <2>2. Idle'
    BY <2>1 DEF Content, Idle
  <2>3. \A g \in resv.batch : length'[g] = length[g] /\ table'[g] = table[g]
    BY <1>0, <2>1
  <2>4. ASSUME NEW q \in 0 .. n - 1
        PROVE  /\ q \in 0 .. length[src] - 1
               /\ table'[h][PageNo(q)] = table[src][PageNo(q)]
    <3>1. /\ length[src] \in Nat /\ table[src] \in Seq(Pages)
          /\ Len(table[src]) = PagesFor(length[src])
      BY TablePlaces
    <3>2. n \in Nat /\ n <= length[src] /\ q \in 0 .. length[src] - 1
      BY <2>1, <3>1
    <3>3. PagesFor(n) \in Nat /\ PagesFor(n) <= Len(table[src])
      BY <3>1, <3>2, PagesForType, PagesForMonotone
    <3>4. PageNo(q) \in 1 .. PagesFor(n)
      BY <3>2, PageNoRange
    <3>5. \A i \in 1 .. PagesFor(n) : SubSeq(table[src], 1, PagesFor(n))[i] = table[src][i]
      BY <3>1, <3>3, Prefix
    <3> QED
      BY <2>1, <3>2, <3>4, <3>5
  <2>5. ASSUME NEW g \in live', NEW q \in 0 .. length'[g] - 1
        PROVE  \E k \in live : /\ q \in 0 .. length[k] - 1
                               /\ table'[g][PageNo(q)] = table[k][PageNo(q)]
    <3>1. CASE g = h
      BY <2>1, <2>4, <3>1
    <3>2. CASE g # h
      BY <1>0, <2>1, <3>2
    <3> QED
      BY <3>1, <3>2
  <2> QED
    BY <2>1, <2>2, <2>3, <2>5, ContentKept
<1>3. ASSUME NEW h \in Handles, h \notin resv.batch, Release(h) PROVE Content'
  <2>1. /\ resv' = resv /\ kv' = kv /\ live' = live \ {h} /\ length'[h] = 0
        /\ \A g \in Handles \ {h} : length'[g] = length[g] /\ table'[g] = table[g]
    BY <1>3 DEF Release, Bookkeeping, TypeOK
  <2>2. Idle'
    BY <2>1 DEF Content, Idle
  <2>3. \A g \in resv.batch : length'[g] = length[g] /\ table'[g] = table[g]
    BY <1>0, <1>3, <2>1
  <2>4. ASSUME NEW g \in live', NEW q \in 0 .. length'[g] - 1
        PROVE  /\ g \in live /\ q \in 0 .. length[g] - 1
               /\ table'[g][PageNo(q)] = table[g][PageNo(q)]
    BY <1>0, <2>1
  <2> QED
    BY <2>1, <2>2, <2>3, <2>4, ContentKept
<1>4. CASE \E batch \in SUBSET live : \E add \in [batch -> 1 .. MaxAppend] :
             Reserve(batch, add)
  BY <1>4, ReserveContent
<1>5. CASE Stage
  BY <1>5, StageContent
<1>6. CASE Commit
  <2>1. resv.batch # {} /\ resv' = NoReservation /\ live' = live
    BY <1>6 DEF Commit, FinishReservation
  <2>2. \A h \in Handles \ live : length'[h] = length[h]
    BY <1>0, <1>6 DEF Commit
  <2> QED
    BY <1>a, <2>1, <2>2 DEF Content, Idle
<1>7. CASE Abort
  BY <1>7, <1>a DEF Abort, FinishReservation, Content, Idle
<1>8. CASE Reset
  <2>1. resv' = resv /\ kv' = kv /\ live' = {} /\ length' = [h \in Handles |-> 0]
    BY <1>8 DEF Reset
  <2>2. resv.batch = {}
    <3> SUFFICES ASSUME resv.batch # {} PROVE FALSE
      OBVIOUS
    <3>1. resv.granted = {} /\ resv.pinned = {}
      BY <1>8, OutstandingType DEF Reset, Bookkeeping, ReservationSound
    <3> QED
      BY <3>1 DEF Bookkeeping, ReservationSound
  <2>3. Idle'
    BY <2>1 DEF Idle
  <2> QED
    BY <2>1, <2>2, <2>3, ContentKept
<1>9. CASE UNCHANGED vars
  <2>1. resv' = resv /\ kv' = kv /\ UNCHANGED <<live, length, table>>
    BY <1>9 DEF vars
  <2>2. Idle'
    BY <2>1 DEF Content, Idle
  <2> QED
    BY <2>1, <2>2, ContentKept
<1> QED
  BY <1>1, <1>2, <1>3, <1>4, <1>5, <1>6, <1>7, <1>8, <1>9 DEF Next

(***************************************************************************)
(* The rows of the handles stay apart: what a step appends never lands on  *)
(* a row that some handle reads, although handles share pages, forks come  *)
(* between reserve_batch and commit, and aborted steps leave their copies  *)
(* in the pool.                                                            *)
(***************************************************************************)
THEOREM RowsStayApart == Spec => []Content
<1>1. Init => Content
  BY DEF Init, Content, Idle, Fresh, Apart, Copies, StagedRight, NoReservation
<1> QED
  BY <1>1, NextContent, BookkeepingInvariant, PTL DEF Spec

-----------------------------------------------------------------------------
(***************************************************************************)
(* What commit installs: through its new block table a handle of the batch *)
(* reads the rows it had and, behind them, the ones it computed.           *)
(***************************************************************************)
StagedComplete ==
    resv.staged # NoPool =>
        \A h \in resv.batch :
            /\ \A q \in 0 .. length[h] - 1 :
                 RowAt(resv.staged, resv.cand[h], q) = RowAt(kv, table[h], q)
            /\ \A q \in Appended(h) : RowAt(resv.staged, resv.cand[h], q) = <<h, q>>

(* A step that leaves pool, reservation and its batch alone. *)
LEMMA StagedKept ==
    ASSUME StagedComplete, resv' = resv, kv' = kv,
           \A h \in resv.batch : length'[h] = length[h] /\ table'[h] = table[h]
    PROVE  StagedComplete'
  BY DEF StagedComplete, Appended, RowAt

LEMMA NextStaged ==
    Bookkeeping /\ Content /\ StagedComplete /\ [Next]_vars => StagedComplete'
<1> SUFFICES ASSUME Bookkeeping, Content, StagedComplete, [Next]_vars
             PROVE  StagedComplete'
  OBVIOUS
<1>0. /\ resv.batch \subseteq live /\ live \subseteq Handles
      /\ table \in [Handles -> Seq(Pages)] /\ length \in [Handles -> 0 .. MaxLength]
  BY DEF Bookkeeping, TypeOK, ReservationOK, NoReservation
<1>a. ASSUME resv'.staged = NoPool PROVE StagedComplete'
  BY <1>a DEF StagedComplete
<1>1. ASSUME NEW h \in Handles, Create(h) PROVE StagedComplete'
  BY <1>0, <1>1, StagedKept DEF Create
<1>2. ASSUME NEW src \in Handles, NEW h \in Handles, NEW n \in 0 .. MaxLength,
             Fork(src, h, n)
      PROVE  StagedComplete'
  BY <1>0, <1>2, StagedKept DEF Fork
<1>3. ASSUME NEW h \in Handles, h \notin resv.batch, Release(h) PROVE StagedComplete'
  BY <1>0, <1>3, StagedKept DEF Release
<1>4. CASE \E batch \in SUBSET live : \E add \in [batch -> 1 .. MaxAppend] :
             Reserve(batch, add)
  BY <1>4, <1>a DEF Reserve
<1>5. CASE Stage
  <2>1. /\ resv.batch # {} /\ kv' = Copied /\ UNCHANGED <<live, table, length>>
        /\ resv'.batch = resv.batch /\ resv'.add = resv.add /\ resv'.cand = resv.cand
        /\ resv'.staged = Written(Copied)
    BY <1>5 DEF Stage
  <2>2. ASSUME NEW h \in resv.batch, NEW q \in 0 .. length[h] - 1
        PROVE  RowAt(Written(Copied), resv.cand[h], q) = RowAt(Copied, table[h], q)
    BY <1>0, <2>1, StagedRows, CopiedRows
  <2>3. ASSUME NEW h \in resv.batch, NEW q \in Appended(h)
        PROVE  RowAt(Written(Copied), resv.cand[h], q) = <<h, q>>
    BY <2>1, WrittenHere
  <2>4. ASSUME NEW h \in resv.batch, NEW q \in 0 .. length[h] - 1
        PROVE  RowAt(resv'.staged, resv'.cand[h], q) = RowAt(kv', table'[h], q)
    BY <2>1, <2>2
  <2>5. ASSUME NEW h \in resv.batch, NEW q \in Appended(h)
        PROVE  RowAt(resv'.staged, resv'.cand[h], q) = <<h, q>>
    BY <2>1, <2>3
  <2>6. \A h \in resv.batch : length'[h] = length[h] /\ Appended(h)' = Appended(h)
    BY <2>1 DEF Appended
  <2>7. /\ \A h \in resv'.batch : \A q \in 0 .. length'[h] - 1 :
             RowAt(resv'.staged, resv'.cand[h], q) = RowAt(kv', table'[h], q)
        /\ \A h \in resv'.batch : \A q \in Appended(h)' :
             RowAt(resv'.staged, resv'.cand[h], q) = <<h, q>>
    BY <2>1, <2>4, <2>5, <2>6
  <2> QED
    BY <2>7 DEF StagedComplete
<1>6. CASE Commit
  BY <1>6, <1>a DEF Commit, FinishReservation, NoReservation
<1>7. CASE Abort
  BY <1>7, <1>a DEF Abort, FinishReservation, NoReservation
<1>8. CASE Reset
  <2>1. resv' = resv /\ kv' = kv
    BY <1>8 DEF Reset
  <2>2. resv.batch = {}
    <3> SUFFICES ASSUME resv.batch # {} PROVE FALSE
      OBVIOUS
    <3>1. resv.granted = {} /\ resv.pinned = {}
      BY <1>8, OutstandingType DEF Reset, Bookkeeping, ReservationSound
    <3> QED
      BY <3>1 DEF Bookkeeping, ReservationSound
  <2> QED
    BY <2>1, <2>2, StagedKept
<1>9. CASE UNCHANGED vars
  BY <1>9, StagedKept DEF vars
<1> QED
  BY <1>1, <1>2, <1>3, <1>4, <1>5, <1>6, <1>7, <1>8, <1>9 DEF Next

(* The rows of fork's new handle are the first ones of its source. *)
LEMMA ForkIntact ==
    ASSUME Bookkeeping, ContentIntact, NEW src \in Handles, NEW h \in Handles,
           NEW n \in 0 .. MaxLength, Fork(src, h, n)
    PROVE  ContentIntact'
<1>1. /\ kv' = kv /\ live' = live \union {h} /\ h \notin live
      /\ src \in live /\ n \in 0 .. length[src]
      /\ length'[h] = n /\ table'[h] = SubSeq(table[src], 1, PagesFor(n))
      /\ written'[h] = SubSeq(written[src], 1, n)
      /\ \A g \in Handles \ {h} : /\ length'[g] = length[g] /\ table'[g] = table[g]
                                  /\ written'[g] = written[g]
  BY DEF Fork, Bookkeeping, TypeOK
<1>2. /\ length[src] \in Nat /\ table[src] \in Seq(Pages)
      /\ Len(table[src]) = PagesFor(length[src])
  BY TablePlaces
<1>3. written[src] \in Seq(Rows) /\ Len(written[src]) = length[src]
  BY DEF Bookkeeping, TypeOK, ReservationSound, TablesFit
<1>4. n \in Nat /\ n <= length[src] /\ PagesFor(n) \in 0 .. Len(table[src])
  BY <1>1, <1>2, PagesForType, PagesForMonotone
<1>5. /\ \A i \in 1 .. PagesFor(n) : table'[h][i] = table[src][i]
      /\ \A i \in 1 .. n : written'[h][i] = written[src][i]
  BY <1>1, <1>2, <1>3, <1>4, Prefix
<1>6. ASSUME NEW q \in 0 .. n - 1
      PROVE  RowAt(kv', table'[h], q) = written'[h][q + 1]
  <2>1. q \in 0 .. length[src] - 1 /\ q + 1 \in 1 .. n
    BY <1>2, <1>4
  <2>2. PageNo(q) \in 1 .. PagesFor(n)
    BY <1>4, PageNoRange
  <2>3. RowAt(kv', table'[h], q) = RowAt(kv, table[src], q)
    BY <1>1, <1>5, <2>2 DEF RowAt, PageNo
  <2>4. RowAt(kv, table[src], q) = written[src][q + 1]
    BY <1>1, <2>1 DEF ContentIntact
  <2> QED
    BY <1>5, <2>1, <2>3, <2>4
<1>7. live \subseteq Handles
  BY DEF Bookkeeping, TypeOK
<1>8. ASSUME NEW g \in live, NEW q \in 0 .. length'[g] - 1
      PROVE  RowAt(kv', table'[g], q) = written'[g][q + 1]
  BY <1>1, <1>7 DEF ContentIntact
<1>9. ASSUME NEW g \in live', NEW q \in 0 .. length'[g] - 1
      PROVE  RowAt(kv', table'[g], q) = written'[g][q + 1]
  BY <1>1, <1>6, <1>8
<1> QED
  BY <1>9 DEF ContentIntact, RowAt

(* commit *)
LEMMA CommitIntact ==
    ASSUME Bookkeeping, Content, StagedComplete, ContentIntact, Commit
    PROVE  ContentIntact'
<1>1. /\ resv.batch # {} /\ resv.staged # NoPool /\ kv' = resv.staged /\ live' = live
      /\ table' = [h \in Handles |-> IF h \in resv.batch THEN resv.cand[h] ELSE table[h]]
      /\ length' = [h \in Handles |-> IF h \in resv.batch THEN length[h] + resv.add[h]
                                                          ELSE length[h]]
      /\ written' = [h \in Handles |->
                       IF h \in resv.batch
                       THEN written[h] \o [i \in 1 .. resv.add[h] |->
                                             <<h, length[h] + i - 1>>]
                       ELSE written[h]]
  BY DEF Commit
<1>2. /\ resv.batch \subseteq live /\ live \subseteq Handles
      /\ resv.add \in [resv.batch -> 1 .. MaxAppend]
  BY <1>1, OutstandingType
<1>3. ASSUME NEW h \in live \ resv.batch, NEW q \in 0 .. length'[h] - 1
      PROVE  RowAt(kv', table'[h], q) = written'[h][q + 1]
  <2>1. h \in Handles
    BY <1>2
  <2>2. length'[h] = length[h] /\ table'[h] = table[h] /\ written'[h] = written[h]
    BY <1>1, <2>1
  <2>3. RowAt(resv.staged, table[h], q) = RowAt(kv, table[h], q)
    BY <1>1, <2>2 DEF Content, StagedRight
  <2> QED
    BY <1>1, <2>2, <2>3 DEF ContentIntact
<1>4. ASSUME NEW h \in resv.batch, NEW q \in 0 .. length'[h] - 1
      PROVE  RowAt(kv', table'[h], q) = written'[h][q + 1]
  <2> DEFINE n == length[h]
             a == resv.add[h]
             old == written[h]
             new == [i \in 1 .. a |-> <<h, n + i - 1>>]
  <2>1. /\ h \in Handles /\ n \in Nat /\ a \in Nat
        /\ old \in Seq(Rows) /\ Len(old) = n
    BY <1>2, TablePlaces, BoundsAssumption
       DEF Bookkeeping, TypeOK, ReservationSound, TablesFit
  <2>2. length'[h] = n + a /\ table'[h] = resv.cand[h] /\ written'[h] = old \o new
    BY <1>1, <2>1
  <2>3. RowAt(kv', table'[h], q) = RowAt(resv.staged, resv.cand[h], q)
    BY <1>1, <2>2
  <2>4. /\ \A p \in 0 .. n - 1 : RowAt(resv.staged, resv.cand[h], p) = old[p + 1]
        /\ \A p \in n .. n + a - 1 : RowAt(resv.staged, resv.cand[h], p) = <<h, p>>
    BY <1>1, <1>2 DEF StagedComplete, ContentIntact, Appended
  <2>5. \A i \in 1 .. a : new[i] = <<h, n + i - 1>>
    OBVIOUS
  <2> DEFINE S == Rows \union {<<h, n + i - 1>> : i \in 1 .. a}
  <2>a. new \in [1 .. a -> S] /\ Rows \subseteq S
    OBVIOUS
  <2> HIDE DEF n, a, old, new, S
  <2>6. new \in Seq(S) /\ Len(new) = a /\ old \in Seq(S)
    BY <2>1, <2>a
  <2>7. q \in 0 .. n + a - 1
    BY <2>1, <2>2
  <2>8. \A i \in 1 .. n + a : (old \o new)[i] = IF i <= n THEN old[i] ELSE new[i - n]
    BY <2>1, <2>6, ConcatProperties
  <2>9. CASE q < n
    <3>1. q \in 0 .. n - 1 /\ q + 1 \in 1 .. n + a /\ q + 1 <= n
      BY <2>1, <2>7, <2>9
    <3> QED
      BY <2>2, <2>3, <2>4, <2>8, <3>1
  <2>10. CASE ~(q < n)
    <3> DEFINE j == (q + 1) - n
    <3>1. /\ q \in n .. n + a - 1 /\ q + 1 \in 1 .. n + a /\ ~(q + 1 <= n)
          /\ j \in 1 .. a /\ n + j - 1 = q
      BY <2>1, <2>7, <2>10
    <3>2. (old \o new)[q + 1] = new[j]
      BY <2>8, <3>1
    <3> HIDE DEF j
    <3>3. new[j] = <<h, q>>
      BY <2>5, <3>1
    <3> QED
      BY <2>2, <2>3, <2>4, <3>1, <3>2, <3>3
  <2> QED
    BY <2>9, <2>10
<1>5. ASSUME NEW h \in live', NEW q \in 0 .. length'[h] - 1
      PROVE  RowAt(kv', table'[h], q) = written'[h][q + 1]
  <2>1. CASE h \in resv.batch
    BY <1>4, <2>1
  <2>2. CASE h \notin resv.batch
    BY <1>1, <1>3, <2>2
  <2> QED
    BY <2>1, <2>2
<1> QED
  BY <1>5 DEF ContentIntact, RowAt

LEMMA NextIntact ==
    Bookkeeping /\ Content /\ StagedComplete /\ ContentIntact /\ [Next]_vars
      => ContentIntact'
<1> SUFFICES ASSUME Bookkeeping, Content, StagedComplete, ContentIntact, [Next]_vars
             PROVE  ContentIntact'
  OBVIOUS
<1>0. /\ live \subseteq Handles /\ table \in [Handles -> Seq(Pages)]
      /\ length \in [Handles -> 0 .. MaxLength] /\ written \in [Handles -> Seq(Rows)]
  BY DEF Bookkeeping, TypeOK
<1>1. ASSUME NEW h \in Handles, Create(h) PROVE ContentIntact'
  BY <1>0, <1>1 DEF Create, ContentIntact, RowAt
<1>2. ASSUME NEW src \in Handles, NEW h \in Handles, NEW n \in 0 .. MaxLength,
             Fork(src, h, n)
      PROVE  ContentIntact'
  BY <1>2, ForkIntact
<1>3. ASSUME NEW h \in Handles, h \notin resv.batch, Release(h) PROVE ContentIntact'
  BY <1>0, <1>3 DEF Release, ContentIntact, RowAt
<1>4. CASE \E batch \in SUBSET live : \E add \in [batch -> 1 .. MaxAppend] :
             Reserve(batch, add)
  BY <1>4 DEF Reserve, ContentIntact, RowAt
<1>5. CASE Stage
  <2>1. kv' = Copied /\ UNCHANGED <<live, table, length, written>>
    BY <1>5 DEF Stage
  <2>2. ASSUME NEW h \in live, NEW q \in 0 .. length[h] - 1
        PROVE  RowAt(Copied, table[h], q) = written[h][q + 1]
    BY CopiedRows DEF ContentIntact
  <2> QED
    BY <2>1, <2>2 DEF ContentIntact, RowAt
<1>6. CASE Commit
  BY <1>6, CommitIntact
<1>7. CASE Abort
  BY <1>7 DEF Abort, ContentIntact, RowAt
<1>8. CASE Reset
  BY <1>8 DEF Reset, ContentIntact
<1>9. CASE UNCHANGED vars
  BY <1>9 DEF vars, ContentIntact, RowAt
<1> QED
  BY <1>1, <1>2, <1>3, <1>4, <1>5, <1>6, <1>7, <1>8, <1>9 DEF Next

(***************************************************************************)
(* Whatever was forked, shared, copied on write, aborted, released and     *)
(* reused in between, every live handle of PagedKVCacheBackend reads back  *)
(* through its block table exactly the rows it and the handles it was      *)
(* forked from wrote.                                                      *)
(***************************************************************************)
THEOREM RowsIntact == Spec => []ContentIntact
<1>1. Init => StagedComplete /\ ContentIntact
  BY DEF Init, StagedComplete, ContentIntact, NoReservation
<1> QED
  BY <1>1, NextStaged, NextIntact, RowsStayApart, BookkeepingInvariant, PTL DEF Spec

-----------------------------------------------------------------------------
(* The hybrid cache. *)

(* Every step of the hybrid cache is a step of the paged one or none of it. *)
LEMMA HybridStep == [HybridNext]_hybridVars => [Next]_vars
<1> SUFFICES ASSUME [HybridNext]_hybridVars PROVE [Next]_vars
  OBVIOUS
<1>1. ASSUME NEW h \in Handles, HybridCreate(h) PROVE Next
  BY <1>1 DEF HybridCreate, Next
<1>2. ASSUME NEW src \in Handles, NEW h \in Handles, NEW n \in 0 .. MaxLength,
             HybridFork(src, h, n)
      PROVE  Next
  BY <1>2 DEF HybridFork, Next
<1>3. ASSUME NEW h \in Handles, HybridRelease(h) PROVE Next
  BY <1>3 DEF HybridRelease, Next
<1>4. ASSUME NEW batch \in SUBSET live, NEW add \in [batch -> 1 .. MaxAppend],
             HybridReserve(batch, add)
      PROVE  Next
  BY <1>4 DEF HybridReserve, Next
<1>5. CASE HybridStage
  BY <1>5 DEF HybridStage, Next
<1>6. CASE StageConv
  BY <1>6 DEF StageConv
<1>7. CASE HybridCommit
  BY <1>7 DEF HybridCommit, Next
<1>8. CASE HybridAbort
  BY <1>8 DEF HybridAbort, Next
<1>9. CASE HybridReset
  BY <1>9 DEF HybridReset, Next
<1>10. CASE UNCHANGED hybridVars
  BY <1>10 DEF hybridVars
<1> QED
  BY <1>1, <1>2, <1>3, <1>4, <1>5, <1>6, <1>7, <1>8, <1>9, <1>10 DEF HybridNext

(***************************************************************************)
(* HybridPagedKVCacheBackend implements PagedKVCacheBackend: overriding    *)
(* create, fork, the reservation and its commit adds the convolution       *)
(* states and changes nothing about the pages.                             *)
(***************************************************************************)
THEOREM HybridImplementsPaged == HybridSpec => Spec
<1>1. HybridInit => Init
  BY DEF HybridInit
<1> QED
  BY <1>1, HybridStep, PTL DEF HybridSpec, Spec

(***************************************************************************)
(* The pages of the hybrid cache are counted, freed and reserved as        *)
(* exactly as those of the paged cache.                                    *)
(***************************************************************************)
THEOREM HybridPagesSafe ==
    HybridSpec => [](RefCountsExact /\ FreePagesUnused /\ ReservationSound)
BY HybridImplementsPaged, ReferenceCounting, FreeListSafe,
   ReservationStaysSound, PTL

-----------------------------------------------------------------------------
(***************************************************************************)
(* The hybrid cache implements the dense one.  What it takes beyond the    *)
(* paged cache's invariants is that a convolution state always has the     *)
(* size of the window, a staged one too.                                   *)
(***************************************************************************)
Windows ==
    /\ conv \in [Handles -> Seq(Rows)]
    /\ \A h \in Handles : Len(conv[h]) = Window
    /\ staged # Unstaged =>
         /\ resv.batch # {}
         /\ \A h \in resv.batch : staged[h] \in Seq(Rows) /\ Len(staged[h]) = Window

(* The zeros that stand for a missing state fill the window. *)
LEMMA ZerosFill == Zeros \in Seq(Rows) /\ Len(Zeros) = Window
<1>1. Zeros \in [1 .. Window -> Rows]
  BY DEF Zeros, Rows
<1> QED
  BY <1>1, WindowAssumption DEF Zeros

(* The longest append of the batch exists, so rows are padded to it. *)
LEMMA WidthIsLongest ==
    ASSUME Bookkeeping, resv.batch # {}
    PROVE  Width \in 1 .. MaxAppend /\ \A h \in resv.batch : resv.add[h] <= Width
<1>1. resv.add \in [resv.batch -> 1 .. MaxAppend]
  BY OutstandingType
<1> DEFINE T == {MaxAppend - resv.add[h] : h \in resv.batch}
           R == OpToRel(<, Nat)
<1>2. T \in SUBSET Nat /\ T # {}
  BY <1>1, BoundsAssumption
<1>3. \A m, n \in T : n < m => <<n, m>> \in R
  BY <1>2 DEF OpToRel
<1>4. IsWellFoundedOn(R, Nat)
  BY NatLessThanWellFounded
<1>5. PICK m \in T : \A n \in T : ~ (<<n, m>> \in R)
  <2> HIDE DEF R, T
  <2> QED
    BY <1>2, <1>4, WFMin
<1>6. PICK h \in resv.batch : m = MaxAppend - resv.add[h]
  BY <1>5
<1>7. \A g \in resv.batch : resv.add[g] <= resv.add[h]
  <2> TAKE g \in resv.batch
  <2>1. ~ (MaxAppend - resv.add[g] < m)
    BY <1>3, <1>5
  <2>2. resv.add[g] \in 1 .. MaxAppend /\ resv.add[h] \in 1 .. MaxAppend
    BY <1>1
  <2> HIDE DEF T, R
  <2> QED
    BY <1>6, <2>1, <2>2, BoundsAssumption
<1>8. \E n \in 1 .. MaxAppend : /\ \A g \in resv.batch : resv.add[g] <= n
                                /\ \E g \in resv.batch : resv.add[g] = n
  BY <1>1, <1>7
<1> HIDE DEF T, R
<1> QED
  BY <1>8 DEF Width

(* A window taken behind a items does not see what follows them. *)
LEMMA WindowBehind ==
    ASSUME NEW S, NEW c \in Seq(S), NEW x \in Seq(S), NEW y \in Seq(S), NEW a \in Nat,
           a <= Len(x), a <= Len(y), \A i \in 1 .. a : x[i] = y[i]
    PROVE  LET w == Len(c)
           IN /\ SubSeq(c \o x, a + 1, a + w) \in Seq(S)
              /\ Len(SubSeq(c \o x, a + 1, a + w)) = w
              /\ SubSeq(c \o x, a + 1, a + w) = SubSeq(c \o y, a + 1, a + w)
<1> DEFINE w == Len(c)
           s == c \o x
           t == c \o y
           m == a + 1
           n == a + w
           u == SubSeq(s, m, n)
           v == SubSeq(t, m, n)
<1>1. w \in Nat /\ Len(x) \in Nat /\ Len(y) \in Nat
  OBVIOUS
<1>2. /\ s \in Seq(S) /\ Len(s) = w + Len(x)
      /\ \A i \in 1 .. w + Len(x) : s[i] = IF i <= w THEN c[i] ELSE x[i - w]
  BY ConcatProperties
<1>3. /\ t \in Seq(S) /\ Len(t) = w + Len(y)
      /\ \A i \in 1 .. w + Len(y) : t[i] = IF i <= w THEN c[i] ELSE y[i - w]
  BY ConcatProperties
<1> HIDE DEF w, s, t
<1>4. ASSUME NEW i \in m .. n
      PROVE  s[i] \in S /\ t[i] \in S /\ s[i] = t[i]
  <2>1. i \in 1 .. w + Len(x) /\ i \in 1 .. w + Len(y)
    BY <1>1
  <2>2. s[i] \in S /\ t[i] \in S
    BY <1>2, <1>3, <2>1
  <2>3. CASE i <= w
    BY <1>2, <1>3, <2>1, <2>2, <2>3
  <2>4. CASE ~(i <= w)
    <3>1. i - w \in 1 .. a
      BY <1>1, <2>4
    <3> QED
      BY <1>2, <1>3, <2>1, <2>2, <2>4, <3>1
  <2> QED
    BY <2>3, <2>4
<1>5. /\ m \in Int /\ n \in Int /\ n - m + 1 = w
      /\ (IF m <= n THEN n - m + 1 ELSE 0) = w
      /\ \A i \in 1 .. w : m + i - 1 \in m .. n
  BY <1>1
<1> HIDE DEF m, n
<1>6. /\ u \in Seq(S) /\ Len(u) = (IF m <= n THEN n - m + 1 ELSE 0)
      /\ \A i \in 1 .. n - m + 1 : u[i] = s[m + i - 1]
  BY <1>4, <1>5, SubSeqProperties
<1>7. /\ v \in Seq(S) /\ Len(v) = (IF m <= n THEN n - m + 1 ELSE 0)
      /\ \A i \in 1 .. n - m + 1 : v[i] = t[m + i - 1]
  BY <1>4, <1>5, SubSeqProperties
<1> HIDE DEF u, v
<1>8. Len(u) = w /\ Len(v) = w
  BY <1>5, <1>6, <1>7
<1>9. \A i \in 1 .. Len(u) : u[i] = v[i]
  <2> TAKE i \in 1 .. Len(u)
  <2>1. i \in 1 .. n - m + 1 /\ m + i - 1 \in m .. n
    BY <1>5, <1>8
  <2>2. s[m + i - 1] = t[m + i - 1]
    BY <1>4, <2>1
  <2> QED
    BY <1>6, <1>7, <2>1, <2>2
<1>10. u = v
  BY <1>6, <1>7, <1>8, <1>9, SeqEqual
<1> QED
  BY <1>6, <1>8, <1>10 DEF u, v, w, s, t, m, n

(* What the model computes for handle h in the outstanding step. *)
NewRows(h) == [i \in 1 .. resv.add[h] |-> <<h, length[h] + i - 1>>]

LEMMA NewRowsType ==
    ASSUME Bookkeeping, resv.batch # {}, NEW h \in resv.batch
    PROVE  /\ h \in Handles /\ h \in live /\ length[h] \in Nat
           /\ resv.add[h] \in Nat /\ resv.add[h] \in 1 .. MaxAppend
           /\ NewRows(h) \in Seq(Rows) /\ Len(NewRows(h)) = resv.add[h]
           /\ \A i \in 1 .. resv.add[h] : NewRows(h)[i] = <<h, length[h] + i - 1>>
<1>1. h \in Handles /\ h \in live /\ resv.add[h] \in 1 .. MaxAppend
  BY OutstandingType
<1>2. length[h] \in Nat /\ resv.add[h] \in Nat
  BY <1>1, TablePlaces, BoundsAssumption
<1>3. length[h] + resv.add[h] <= MaxLength
  BY DEF Bookkeeping, ReservationSound
<1>4. \A i \in 1 .. resv.add[h] : <<h, length[h] + i - 1>> \in Rows
  <2> TAKE i \in 1 .. resv.add[h]
  <2>1. length[h] + i - 1 \in 0 .. MaxLength
    BY <1>2, <1>3, BoundsAssumption
  <2> QED
    BY <1>1, <2>1 DEF Rows
<1>5. NewRows(h) \in [1 .. resv.add[h] -> Rows]
  BY <1>4 DEF NewRows
<1>6. NewRows(h) \in Seq(Rows) /\ Len(NewRows(h)) = resv.add[h]
  BY <1>2, <1>5
<1> QED
  BY <1>1, <1>2, <1>6 DEF NewRows

(***************************************************************************)
(* stage_conv_state keeps the latest inputs: the padding of a batch whose  *)
(* appends differ in length never gets into a state.                       *)
(***************************************************************************)
LEMMA KeptLatest ==
    ASSUME Bookkeeping, Windows, resv.batch # {}, NEW h \in resv.batch
    PROVE  /\ Kept(h) = SubSeq(conv[h] \o NewRows(h), resv.add[h] + 1,
                               resv.add[h] + Window)
           /\ Kept(h) \in Seq(Rows) /\ Len(Kept(h)) = Window
<1> DEFINE a == resv.add[h]
           x == [i \in 1 .. Width |-> IF i <= a THEN <<h, length[h] + i - 1>> ELSE Blank]
           y == NewRows(h)
           c == conv[h]
<1>1. /\ h \in Handles /\ a \in Nat /\ y \in Seq(Rows) /\ Len(y) = a
      /\ \A i \in 1 .. a : y[i] = <<h, length[h] + i - 1>>
  BY NewRowsType
<1>2. Width \in 1 .. MaxAppend /\ a <= Width /\ Width \in Nat
  BY WidthIsLongest, BoundsAssumption
<1>3. c \in Seq(Rows) /\ Len(c) = Window
  BY <1>1 DEF Windows
<1>4. x \in [1 .. Width -> Rows]
  <2>1. ASSUME NEW i \in 1 .. Width
        PROVE  (IF i <= a THEN <<h, length[h] + i - 1>> ELSE Blank) \in Rows
    <3>1. CASE i <= a
      <4>1. i \in 1 .. a
        BY <1>1, <1>2, <3>1
      <4>2. y[i] \in Rows /\ y[i] = <<h, length[h] + i - 1>>
        BY <1>1, <4>1
      <4> QED
        BY <3>1, <4>2
    <3>2. CASE ~(i <= a)
      BY <3>2 DEF Rows
    <3> QED
      BY <3>1, <3>2
  <2> QED
    BY <2>1
<1>5. \A i \in 1 .. a : x[i] = y[i]
  <2> TAKE i \in 1 .. a
  <2>1. i \in 1 .. Width /\ i <= a
    BY <1>1, <1>2
  <2> QED
    BY <1>1, <2>1
<1>6. Kept(h) = SubSeq(c \o x, a + 1, a + Window)
  BY DEF Kept, Combined
<1> HIDE DEF x, y, c, a
<1>7. x \in Seq(Rows) /\ Len(x) = Width
  BY <1>2, <1>4
<1>8. /\ SubSeq(c \o x, a + 1, a + Len(c)) \in Seq(Rows)
      /\ Len(SubSeq(c \o x, a + 1, a + Len(c))) = Len(c)
      /\ SubSeq(c \o x, a + 1, a + Len(c)) = SubSeq(c \o y, a + 1, a + Len(c))
  <2>1. a <= Len(x) /\ a <= Len(y) /\ a \in Nat
    BY <1>1, <1>2, <1>7
  <2>2. c \in Seq(Rows) /\ x \in Seq(Rows) /\ y \in Seq(Rows)
    BY <1>1, <1>3, <1>7
  <2> QED
    BY <1>5, <2>1, <2>2, WindowBehind
<1> QED
  BY <1>3, <1>6, <1>8 DEF y, c, a

(* Every step keeps the states at the size of the window. *)
LEMMA NextWindows ==
    Bookkeeping /\ Windows /\ [HybridNext]_hybridVars => Windows'
<1> SUFFICES ASSUME Bookkeeping, Windows, [HybridNext]_hybridVars PROVE Windows'
  OBVIOUS
<1>0. resv.batch \subseteq Handles
  BY DEF Bookkeeping, TypeOK, ReservationOK, NoReservation
<1>a. ASSUME UNCHANGED <<resv, staged>>, NEW h \in Handles, NEW s \in Seq(Rows),
             Len(s) = Window, conv' = [conv EXCEPT ![h] = s]
      PROVE  Windows'
  BY <1>a DEF Windows
<1>1. ASSUME NEW h \in Handles, HybridCreate(h) PROVE Windows'
  BY <1>1, <1>a, ZerosFill DEF HybridCreate, Create
<1>2. ASSUME NEW src \in Handles, NEW h \in Handles, NEW n \in 0 .. MaxLength,
             HybridFork(src, h, n)
      PROVE  Windows'
  <2>1. conv[src] \in Seq(Rows) /\ Len(conv[src]) = Window
    BY DEF Windows
  <2>2. UNCHANGED <<resv, staged>> /\ conv' = [conv EXCEPT ![h] = conv[src]]
    BY <1>2 DEF HybridFork, Fork
  <2> QED
    BY <1>a, <2>1, <2>2
<1>3. ASSUME NEW h \in Handles, HybridRelease(h) PROVE Windows'
  BY <1>3, <1>a, ZerosFill DEF HybridRelease, Release
<1>4. ASSUME NEW batch \in SUBSET live, NEW add \in [batch -> 1 .. MaxAppend],
             HybridReserve(batch, add)
      PROVE  Windows'
  <2>1. UNCHANGED <<conv, staged>> /\ resv = NoReservation
    BY <1>4 DEF HybridReserve, Reserve
  <2>2. staged = Unstaged
    BY <2>1 DEF Windows, NoReservation
  <2> QED
    BY <2>1, <2>2 DEF Windows
<1>5. CASE HybridStage
  <2>1. UNCHANGED <<conv, staged>> /\ resv' = [resv EXCEPT !.staged = Written(Copied)]
    BY <1>5 DEF HybridStage, Stage
  <2>2. resv'.batch = resv.batch
    BY <2>1
  <2> QED
    BY <2>1, <2>2 DEF Windows
<1>6. CASE StageConv
  <2>1. /\ resv.batch # {} /\ staged' = [h \in resv.batch |-> Kept(h)]
        /\ UNCHANGED conv /\ resv' = resv
    BY <1>6 DEF StageConv, vars
  <2>2. \A h \in resv.batch : Kept(h) \in Seq(Rows) /\ Len(Kept(h)) = Window
    BY <2>1, KeptLatest
  <2> QED
    BY <2>1, <2>2 DEF Windows
<1>7. CASE HybridCommit
  <2>1. /\ staged # Unstaged /\ staged' = Unstaged
        /\ conv' = [h \in Handles |-> IF h \in resv.batch THEN staged[h] ELSE conv[h]]
    BY <1>7 DEF HybridCommit
  <2>2. \A h \in Handles : conv'[h] \in Seq(Rows) /\ Len(conv'[h]) = Window
    BY <2>1 DEF Windows
  <2> QED
    BY <2>1, <2>2 DEF Windows
<1>8. CASE HybridAbort
  BY <1>8 DEF HybridAbort, Windows
<1>9. CASE HybridReset
  BY <1>9, ZerosFill DEF HybridReset, Reset, Windows
<1>10. CASE UNCHANGED hybridVars
  BY <1>10 DEF hybridVars, vars, Windows
<1> QED
  BY <1>1, <1>2, <1>3, <1>4, <1>5, <1>6, <1>7, <1>8, <1>9, <1>10 DEF HybridNext

-----------------------------------------------------------------------------
(* Reading rows. *)

(* No row is read of an empty block table. *)
LEMMA ReadNone == ASSUME NEW pool, NEW t PROVE ReadBack(pool, t, 0) = <<>>
BY DEF ReadBack

(* What is read depends on the rows that are read only. *)
LEMMA ReadSame ==
    ASSUME NEW n \in Nat, NEW a, NEW b, NEW t, NEW u,
           \A q \in 0 .. n - 1 : RowAt(a, t, q) = RowAt(b, u, q)
    PROVE  ReadBack(a, t, n) = ReadBack(b, u, n)
<1>1. \A i \in 1 .. n : RowAt(a, t, i - 1) = RowAt(b, u, i - 1)
  <2> TAKE i \in 1 .. n
  <2> DEFINE q == i - 1
  <2>1. q \in 0 .. n - 1
    OBVIOUS
  <2> HIDE DEF q
  <2>2. RowAt(a, t, q) = RowAt(b, u, q)
    BY <2>1
  <2> QED
    BY <2>2 DEF q
<1> QED
  BY <1>1 DEF ReadBack

(* A handle reads a sequence of as many rows as it has. *)
LEMMA HeldType ==
    ASSUME Bookkeeping, NEW h \in Handles
    PROVE  /\ HeldRows[h] = ReadBack(kv, table[h], length[h])
           /\ HeldRows[h] \in Seq(Rows) /\ Len(HeldRows[h]) = length[h]
           /\ \A i \in 1 .. length[h] : HeldRows[h][i] = RowAt(kv, table[h], i - 1)
<1>1. HeldRows[h] = [i \in 1 .. length[h] |-> RowAt(kv, table[h], i - 1)]
  BY DEF HeldRows, ReadBack
<1>2. length[h] \in Nat
  BY TablePlaces
<1>3. ASSUME NEW i \in 1 .. length[h] PROVE RowAt(kv, table[h], i - 1) \in Rows
  <2> DEFINE q == i - 1
  <2>1. q \in 0 .. length[h] - 1
    BY <1>2
  <2> HIDE DEF q
  <2>2. table[h][PageNo(q)] \in Pages /\ q % PageSize \in Offsets
    BY <2>1, TablePlaces
  <2>3. kv \in [Pages -> [Offsets -> Rows]]
    BY DEF Bookkeeping, TypeOK, Pool
  <2>4. RowAt(kv, table[h], q) \in Rows
    BY <2>2, <2>3 DEF RowAt, PageNo
  <2> QED
    BY <2>4 DEF q
<1>4. HeldRows[h] \in [1 .. length[h] -> Rows]
  BY <1>1, <1>3
<1>5. HeldRows[h] \in Seq(Rows) /\ Len(HeldRows[h]) = length[h]
  <2> DEFINE held == HeldRows[h]
             n == length[h]
  <2>1. n \in Nat /\ held \in [1 .. n -> Rows]
    BY <1>2, <1>4
  <2> HIDE DEF held, n
  <2>2. held \in Seq(Rows) /\ Len(held) = n
    BY <2>1
  <2> QED
    BY <2>2 DEF held, n
<1> QED
  BY <1>1, <1>5 DEF HeldRows

(* A step that leaves the reservation and its batch alone shows the same rows. *)
LEMMA ShownSame ==
    ASSUME resv' = resv, \A h \in resv.batch : length'[h] = length[h]
    PROVE  ShownRows' = ShownRows
BY Zenon DEF ShownRows, ReadBack, RowAt

-----------------------------------------------------------------------------
(* One step of the dense cache for every step of the hybrid one. *)

(* create and release: the handle has no row and a state of zeros. *)
LEMMA EmptiedRows ==
    ASSUME Bookkeeping, NEW h \in Handles, kv' = kv,
           table' = [table EXCEPT ![h] = <<>>], length' = [length EXCEPT ![h] = 0]
    PROVE  HeldRows' = [HeldRows EXCEPT ![h] = <<>>]
<1>1. table \in [Handles -> Seq(Pages)] /\ length \in [Handles -> 0 .. MaxLength]
  BY DEF Bookkeeping, TypeOK
<1>2. ReadBack(kv', table'[h], length'[h]) = <<>>
  BY <1>1, ReadNone
<1>3. \A g \in Handles \ {h} :
        ReadBack(kv', table'[g], length'[g]) = ReadBack(kv, table[g], length[g])
  BY <1>1
<1>4. HeldRows' = [g \in Handles |-> ReadBack(kv', table'[g], length'[g])]
  BY DEF HeldRows, ReadBack, RowAt
<1>5. HeldRows = [g \in Handles |-> ReadBack(kv, table[g], length[g])]
  BY DEF HeldRows
<1> QED
  BY <1>2, <1>3, <1>4, <1>5

LEMMA CreateDense ==
    ASSUME Bookkeeping, NEW h \in Handles, HybridCreate(h)
    PROVE  Dense!Create(h)
<1>1. /\ h \notin live \union resv.batch /\ live' = live \union {h}
      /\ table' = [table EXCEPT ![h] = <<>>] /\ length' = [length EXCEPT ![h] = 0]
      /\ conv' = [conv EXCEPT ![h] = Zeros]
      /\ kv' = kv /\ resv' = resv /\ staged' = staged
  BY DEF HybridCreate, Create
<1>2. HeldRows' = [HeldRows EXCEPT ![h] = <<>>]
  BY <1>1, EmptiedRows
<1>3. ShownRows' = ShownRows
  <2>1. \A g \in resv.batch : length'[g] = length[g]
    BY <1>1 DEF Bookkeeping, TypeOK
  <2> QED
    BY <1>1, <2>1, ShownSame
<1>4. Dense!Zeros = Zeros
  BY DEF Dense!Zeros, Dense!Blank, Zeros, Blank
<1> QED
  BY <1>1, <1>2, <1>3, <1>4 DEF Dense!Create

LEMMA ReleaseDense ==
    ASSUME Bookkeeping, NEW h \in Handles, HybridRelease(h)
    PROVE  Dense!Release(h)
<1>1. /\ h \in live \ resv.batch /\ live' = live \ {h}
      /\ table' = [table EXCEPT ![h] = <<>>] /\ length' = [length EXCEPT ![h] = 0]
      /\ conv' = [conv EXCEPT ![h] = Zeros]
      /\ kv' = kv /\ resv' = resv /\ staged' = staged
  BY DEF HybridRelease, Release
<1>2. HeldRows' = [HeldRows EXCEPT ![h] = <<>>]
  BY <1>1, EmptiedRows
<1>3. ShownRows' = ShownRows
  <2>1. \A g \in resv.batch : length'[g] = length[g]
    BY <1>1 DEF Bookkeeping, TypeOK
  <2> QED
    BY <1>1, <2>1, ShownSame
<1>4. Dense!Zeros = Zeros
  BY DEF Dense!Zeros, Dense!Blank, Zeros, Blank
<1> QED
  BY <1>1, <1>2, <1>3, <1>4 DEF Dense!Release

(* fork: the shared pages read as a copy of the first n rows. *)
LEMMA ForkDense ==
    ASSUME Bookkeeping, NEW src \in Handles, NEW h \in Handles, NEW n \in 0 .. MaxLength,
           HybridFork(src, h, n)
    PROVE  Dense!Fork(src, h, n)
<1>1. /\ src \in live /\ h \notin live \union resv.batch /\ n \in 0 .. length[src]
      /\ live' = live \union {h}
      /\ table' = [table EXCEPT ![h] = SubSeq(table[src], 1, PagesFor(n))]
      /\ length' = [length EXCEPT ![h] = n]
      /\ conv' = [conv EXCEPT ![h] = conv[src]]
      /\ kv' = kv /\ resv' = resv /\ staged' = staged
  BY DEF HybridFork, Fork
<1>2. table \in [Handles -> Seq(Pages)] /\ length \in [Handles -> 0 .. MaxLength]
  BY DEF Bookkeeping, TypeOK
<1>3. /\ length[src] \in Nat /\ table[src] \in Seq(Pages)
      /\ Len(table[src]) = PagesFor(length[src])
  BY TablePlaces
<1>4. n \in Nat /\ n <= length[src]
  BY <1>1, <1>3
<1>5. PagesFor(n) \in Nat /\ PagesFor(n) <= Len(table[src])
  BY <1>3, <1>4, PagesForType, PagesForMonotone
<1>6. \A i \in 1 .. PagesFor(n) : SubSeq(table[src], 1, PagesFor(n))[i] = table[src][i]
  BY <1>3, <1>5, Prefix
<1> DEFINE old == HeldRows[src]
           cut == SubSeq(old, 1, n)
           got == ReadBack(kv, SubSeq(table[src], 1, PagesFor(n)), n)
<1>7. /\ old \in Seq(Rows) /\ Len(old) = length[src]
      /\ \A i \in 1 .. length[src] : old[i] = RowAt(kv, table[src], i - 1)
  BY HeldType
<1>8. cut = got
  <2>1. cut \in Seq(Rows) /\ Len(cut) = n /\ \A i \in 1 .. n : cut[i] = old[i]
    <3> HIDE DEF old
    <3> QED
      BY <1>3, <1>4, <1>7, Prefix
  <2>2. \A i \in 1 .. n : got[i] = old[i]
    <3> TAKE i \in 1 .. n
    <3> DEFINE q == i - 1
    <3>1. q \in 0 .. n - 1 /\ i \in 1 .. length[src]
      BY <1>3, <1>4
    <3> HIDE DEF q
    <3>2. PageNo(q) \in 1 .. PagesFor(n)
      BY <1>4, <3>1, PageNoRange
    <3>3. RowAt(kv, SubSeq(table[src], 1, PagesFor(n)), q) = RowAt(kv, table[src], q)
      BY <1>6, <3>2 DEF RowAt, PageNo
    <3>4. got[i] = RowAt(kv, SubSeq(table[src], 1, PagesFor(n)), q)
      BY DEF ReadBack, q
    <3>5. old[i] = RowAt(kv, table[src], q)
      BY <1>7, <3>1 DEF q
    <3> QED
      BY <3>3, <3>4, <3>5
  <2>3. got = [i \in 1 .. n |-> got[i]]
    BY DEF ReadBack
  <2> HIDE DEF old, cut, got
  <2>4. cut = [i \in 1 .. n |-> cut[i]]
    BY <1>4, <2>1
  <2>5. \A i \in 1 .. n : got[i] = cut[i]
    BY <2>1, <2>2
  <2> QED
    BY <2>3, <2>4, <2>5
<1>9. HeldRows' = [HeldRows EXCEPT ![h] = cut]
  <2>1. table'[h] = SubSeq(table[src], 1, PagesFor(n)) /\ length'[h] = n
    BY <1>1, <1>2
  <2>2. ReadBack(kv', table'[h], length'[h]) = cut
    BY <1>1, <1>8, <2>1
  <2>3. \A g \in Handles \ {h} :
          ReadBack(kv', table'[g], length'[g]) = ReadBack(kv, table[g], length[g])
    BY <1>1, <1>2
  <2>4. HeldRows' = [g \in Handles |-> ReadBack(kv', table'[g], length'[g])]
    BY DEF HeldRows, ReadBack, RowAt
  <2>5. HeldRows = [g \in Handles |-> ReadBack(kv, table[g], length[g])]
    BY DEF HeldRows
  <2> HIDE DEF cut
  <2> QED
    BY <2>2, <2>3, <2>4, <2>5
<1>10. ShownRows' = ShownRows
  <2>1. \A g \in resv.batch : length'[g] = length[g]
    BY <1>1, <1>2
  <2> QED
    BY <1>1, <2>1, ShownSame
<1>11. n \in 0 .. Len(HeldRows[src])
  BY <1>1, <1>7
<1> QED
  BY <1>1, <1>9, <1>10, <1>11 DEF Dense!Fork

(* reserve_batch *)
LEMMA ReserveDense ==
    ASSUME Bookkeeping, Windows, NEW batch \in SUBSET live,
           NEW add \in [batch -> 1 .. MaxAppend], HybridReserve(batch, add)
    PROVE  Dense!Reserve(batch, add)
<1>1. /\ resv = NoReservation /\ batch # {}
      /\ \A h \in batch : length[h] + add[h] <= MaxLength
      /\ UNCHANGED <<live, table, length, kv, conv, staged>>
  BY DEF HybridReserve, Reserve
<1>2. resv'.batch = batch /\ resv'.add = add /\ resv'.staged = NoPool
  BY DEF HybridReserve, Reserve
<1>3. staged = Unstaged
  BY <1>1 DEF Windows, NoReservation
<1>4. ShownRows = Unstaged /\ ShownRows' = Unstaged
  BY <1>1, <1>2 DEF ShownRows, NoReservation
<1>5. HeldRows' = HeldRows
  BY <1>1 DEF HeldRows, ReadBack, RowAt
<1>6. \A h \in batch : Len(HeldRows[h]) + add[h] <= MaxLength
  <2> TAKE h \in batch
  <2>1. h \in Handles
    BY DEF Bookkeeping, TypeOK
  <2> QED
    BY <1>1, <2>1, HeldType
<1>7. Dense!NoReservation
  BY <1>1, <1>3, <1>4 DEF Dense!NoReservation, Dense!Unstaged, NoReservation, Unstaged
<1> QED
  BY <1>1, <1>2, <1>4, <1>5, <1>6, <1>7 DEF Dense!Reserve

(***************************************************************************)
(* stage_layer: the copies show in no handle's rows, and the staged pool   *)
(* shows each handle of the batch its rows with the new ones behind them.  *)
(***************************************************************************)
LEMMA StageDense ==
    ASSUME Bookkeeping, Content, HybridStage
    PROVE  Dense!Stage
<1>1. /\ resv.batch # {} /\ resv.staged = NoPool /\ kv' = Copied
      /\ resv' = [resv EXCEPT !.staged = Written(Copied)]
      /\ UNCHANGED <<live, table, length, conv, staged>>
  BY DEF HybridStage, Stage
<1>2. /\ resv'.batch = resv.batch /\ resv'.add = resv.add /\ resv'.cand = resv.cand
      /\ resv'.staged = Written(Copied)
  BY <1>1
<1>3. Written(Copied) # NoPool
  <2>1. DOMAIN Written(Copied) = Pages
    BY DEF Written
  <2>2. DOMAIN NoPool = {}
    BY DEF NoPool
  <2> QED
    BY <2>1, <2>2, PagesAssumption
<1>4. HeldRows' = HeldRows
  <2>1. \A h \in Handles :
          ReadBack(Copied, table[h], length[h]) = ReadBack(kv, table[h], length[h])
    <3> TAKE h \in Handles
    <3>1. length[h] \in Nat
      BY TablePlaces
    <3>2. \A q \in 0 .. length[h] - 1 : RowAt(Copied, table[h], q) = RowAt(kv, table[h], q)
      <4>1. CASE h \in live
        BY <4>1, CopiedRows
      <4>2. CASE h \notin live
        BY <4>2 DEF Content, Idle
      <4> QED
        BY <4>1, <4>2
    <3> QED
      BY <3>1, <3>2, ReadSame
  <2>2. HeldRows' = [h \in Handles |-> ReadBack(kv', table'[h], length'[h])]
    BY DEF HeldRows, ReadBack, RowAt
  <2> QED
    BY <1>1, <2>1, <2>2 DEF HeldRows
<1>5. ASSUME NEW h \in resv.batch
      PROVE  ReadBack(Written(Copied), resv.cand[h], length[h] + resv.add[h])
               = HeldRows[h] \o Dense!Computed(h)
  <2> DEFINE n == length[h]
             a == resv.add[h]
             old == HeldRows[h]
             new == NewRows(h)
             got == ReadBack(Written(Copied), resv.cand[h], n + a)
             all == old \o new
  <2>1. /\ h \in Handles /\ h \in live /\ n \in Nat /\ a \in Nat
        /\ new \in Seq(Rows) /\ Len(new) = a
        /\ \A i \in 1 .. a : new[i] = <<h, n + i - 1>>
    BY <1>1, NewRowsType
  <2>2. /\ old \in Seq(Rows) /\ Len(old) = n
        /\ \A i \in 1 .. n : old[i] = RowAt(kv, table[h], i - 1)
    BY <2>1, HeldType
  <2>3. Dense!Computed(h) = new
    BY <2>2 DEF Dense!Computed, NewRows
  <2>4. \A q \in 0 .. n - 1 :
          RowAt(Written(Copied), resv.cand[h], q) = RowAt(kv, table[h], q)
    BY <1>1, StagedRows
  <2>5. \A q \in Appended(h) : RowAt(Written(Copied), resv.cand[h], q) = <<h, q>>
    BY <1>1, WrittenHere
  <2>6. got = [i \in 1 .. n + a |-> RowAt(Written(Copied), resv.cand[h], i - 1)]
    BY DEF ReadBack
  <2>7. Appended(h) = n .. n + a - 1
    BY DEF Appended
  <2> HIDE DEF n, a, old, new, got
  <2>8. /\ all \in Seq(Rows) /\ Len(all) = n + a
        /\ \A i \in 1 .. n + a : all[i] = IF i <= n THEN old[i] ELSE new[i - n]
    BY <2>1, <2>2, ConcatProperties
  <2> HIDE DEF all
  <2>9. ASSUME NEW i \in 1 .. n + a PROVE got[i] = all[i]
    <3> DEFINE q == i - 1
    <3>1. got[i] = RowAt(Written(Copied), resv.cand[h], q)
      BY <2>6
    <3>2. CASE i <= n
      <4>1. q \in 0 .. n - 1 /\ i \in 1 .. n
        BY <2>1, <3>2
      <4>2. all[i] = RowAt(kv, table[h], q)
        BY <2>2, <2>8, <3>2, <4>1
      <4> HIDE DEF q
      <4> QED
        BY <2>4, <3>1, <4>1, <4>2
    <3>3. CASE ~(i <= n)
      <4>1. q \in n .. n + a - 1 /\ i - n \in 1 .. a /\ n + (i - n) - 1 = q
        BY <2>1, <3>3
      <4>2. all[i] = new[i - n]
        BY <2>8, <3>3
      <4> DEFINE j == i - n
      <4>3. j \in 1 .. a /\ n + j - 1 = q
        BY <2>1, <3>3
      <4> HIDE DEF j
      <4>4. new[j] = <<h, q>>
        BY <2>1, <4>3
      <4> HIDE DEF q
      <4>5. RowAt(Written(Copied), resv.cand[h], q) = <<h, q>>
        BY <2>5, <2>7, <4>1
      <4> QED
        BY <3>1, <4>2, <4>4, <4>5 DEF j
    <3> QED
      BY <3>2, <3>3
  <2>10. all = [i \in 1 .. n + a |-> all[i]]
    BY <2>1, <2>8
  <2>11. got = [i \in 1 .. n + a |-> got[i]]
    BY <2>6
  <2>12. got = all
    BY <2>9, <2>10, <2>11
  <2> QED
    BY <2>3, <2>12 DEF got, all, old, n, a
<1>6. ShownRows = Unstaged
  BY <1>1 DEF ShownRows
<1>7. ShownRows' = [h \in resv.batch |-> HeldRows[h] \o Dense!Computed(h)]
  <2>1. ShownRows' = [h \in resv.batch |->
                        ReadBack(Written(Copied), resv.cand[h], length[h] + resv.add[h])]
    BY <1>1, <1>2, <1>3 DEF ShownRows, ReadBack, RowAt
  <2> QED
    BY <1>5, <2>1
<1> QED
  BY <1>1, <1>2, <1>4, <1>6, <1>7 DEF Dense!Stage, Dense!Unstaged, Unstaged

(* prepare_conv_state and stage_conv_state *)
LEMMA StageConvDense ==
    ASSUME Bookkeeping, Windows, StageConv
    PROVE  Dense!StageConv
<1>1. /\ resv.batch # {} /\ staged = Unstaged
      /\ staged' = [h \in resv.batch |-> Kept(h)]
      /\ UNCHANGED <<live, table, length, kv, resv, conv>>
  BY DEF StageConv, vars
<1>2. HeldRows' = HeldRows
  BY <1>1 DEF HeldRows, ReadBack, RowAt
<1>3. ShownRows' = ShownRows
  BY <1>1, ShownSame
<1>4. ASSUME NEW h \in resv.batch
      PROVE  Kept(h) = SubSeq(conv[h] \o Dense!Computed(h), resv.add[h] + 1,
                              resv.add[h] + Window)
  <2>1. h \in Handles
    BY <1>1, NewRowsType
  <2>2. Len(HeldRows[h]) = length[h]
    BY <2>1, HeldType
  <2>3. Dense!Computed(h) = NewRows(h)
    BY <2>2 DEF Dense!Computed, NewRows
  <2> QED
    BY <1>1, <2>3, KeptLatest
<1> QED
  BY <1>1, <1>2, <1>3, <1>4 DEF Dense!StageConv, Dense!Unstaged, Unstaged

(* commit: the batch now has the rows it was shown, the others theirs. *)
LEMMA CommitDense ==
    ASSUME Bookkeeping, Content, Windows, HybridCommit
    PROVE  Dense!Commit
<1>1. /\ resv.batch # {} /\ resv.staged # NoPool /\ staged # Unstaged
      /\ kv' = resv.staged /\ live' = live /\ resv' = NoReservation
      /\ table' = [h \in Handles |-> IF h \in resv.batch THEN resv.cand[h] ELSE table[h]]
      /\ length' = [h \in Handles |-> IF h \in resv.batch THEN length[h] + resv.add[h]
                                                          ELSE length[h]]
      /\ conv' = [h \in Handles |-> IF h \in resv.batch THEN staged[h] ELSE conv[h]]
      /\ staged' = Unstaged
  BY DEF HybridCommit, Commit, FinishReservation
<1>2. resv.batch \subseteq Handles
  BY <1>1, OutstandingType
<1>3. ShownRows = [h \in resv.batch |->
                     ReadBack(resv.staged, resv.cand[h], length[h] + resv.add[h])]
  BY <1>1 DEF ShownRows
<1>4. ShownRows # Unstaged
  <2>1. DOMAIN ShownRows = resv.batch
    BY <1>3
  <2>2. DOMAIN Unstaged = {}
    BY DEF Unstaged
  <2> QED
    BY <1>1, <2>1, <2>2
<1>5. ASSUME NEW h \in Handles
      PROVE  ReadBack(kv', table'[h], length'[h])
               = IF h \in resv.batch THEN ShownRows[h] ELSE HeldRows[h]
  <2>1. CASE h \in resv.batch
    BY <1>1, <1>3, <2>1
  <2>2. CASE h \notin resv.batch
    <3>1. length[h] \in Nat
      BY TablePlaces
    <3>2. \A q \in 0 .. length[h] - 1 :
            RowAt(resv.staged, table[h], q) = RowAt(kv, table[h], q)
      <4>1. CASE h \in live
        BY <1>1, <4>1 DEF Content, StagedRight
      <4>2. CASE h \notin live
        BY <4>2 DEF Content, Idle
      <4> QED
        BY <4>1, <4>2
    <3>3. ReadBack(resv.staged, table[h], length[h]) = ReadBack(kv, table[h], length[h])
      BY <3>1, <3>2, ReadSame
    <3> QED
      BY <1>1, <2>2, <3>3 DEF HeldRows
  <2> QED
    BY <2>1, <2>2
<1>6. HeldRows' = [h \in Handles |-> IF h \in resv.batch THEN ShownRows[h]
                                                         ELSE HeldRows[h]]
  <2>1. HeldRows' = [h \in Handles |-> ReadBack(kv', table'[h], length'[h])]
    BY DEF HeldRows, ReadBack, RowAt
  <2> QED
    BY <1>5, <2>1
<1>7. Dense!Finish
  BY <1>1 DEF Dense!Finish, Dense!Unstaged, Unstaged, ShownRows, NoReservation
<1> QED
  BY <1>1, <1>4, <1>6, <1>7 DEF Dense!Commit, Dense!Unstaged, Unstaged

(* abort *)
LEMMA AbortDense == ASSUME HybridAbort PROVE Dense!Abort
<1>1. /\ resv.batch # {} /\ resv' = NoReservation /\ staged' = Unstaged
      /\ UNCHANGED <<live, table, length, kv, conv>>
  BY DEF HybridAbort, Abort, FinishReservation
<1>2. HeldRows' = HeldRows
  BY <1>1 DEF HeldRows, ReadBack, RowAt
<1>3. Dense!Finish
  BY <1>1 DEF Dense!Finish, Dense!Unstaged, Unstaged, ShownRows, NoReservation
<1> QED
  BY <1>1, <1>2, <1>3 DEF Dense!Abort

(* reset, which runs under no reservation *)
LEMMA ResetDense == ASSUME Bookkeeping, HybridReset PROVE Dense!Reset
<1>1. /\ reserved = {} /\ \A p \in Pages : pin[p] = 0
      /\ live' = {} /\ table' = [h \in Handles |-> <<>>]
      /\ length' = [h \in Handles |-> 0] /\ conv' = [h \in Handles |-> Zeros]
      /\ kv' = kv /\ resv' = resv /\ staged' = staged
  BY DEF HybridReset, Reset
<1>2. resv.batch = {}
  <2> SUFFICES ASSUME resv.batch # {} PROVE FALSE
    OBVIOUS
  <2>1. resv.granted = {} /\ resv.pinned = {}
    BY <1>1, OutstandingType DEF Bookkeeping, ReservationSound
  <2> QED
    BY <2>1 DEF Bookkeeping, ReservationSound
<1>3. HeldRows' = [h \in Handles |-> <<>>]
  <2>1. HeldRows' = [h \in Handles |-> ReadBack(kv', table'[h], length'[h])]
    BY DEF HeldRows, ReadBack, RowAt
  <2>2. \A h \in Handles : ReadBack(kv', table'[h], length'[h]) = <<>>
    BY <1>1, ReadNone
  <2> QED
    BY <2>1, <2>2
<1>4. ShownRows' = ShownRows
  BY <1>1, <1>2, ShownSame
<1>5. Dense!Zeros = Zeros
  BY DEF Dense!Zeros, Dense!Blank, Zeros, Blank
<1> QED
  BY <1>1, <1>3, <1>4, <1>5 DEF Dense!Reset

(* Every step of the hybrid cache is a step of the dense one. *)
LEMMA StepDense ==
    Bookkeeping /\ Content /\ Windows /\ [HybridNext]_hybridVars
      => [Dense!Next]_(Dense!vars)
<1> SUFFICES ASSUME Bookkeeping, Content, Windows, [HybridNext]_hybridVars
             PROVE  Dense!Next \/ UNCHANGED Dense!vars
  OBVIOUS
<1>1. ASSUME NEW h \in Handles, HybridCreate(h) PROVE Dense!Next
  BY <1>1, CreateDense DEF Dense!Next
<1>2. ASSUME NEW src \in Handles, NEW h \in Handles, NEW n \in 0 .. MaxLength,
             HybridFork(src, h, n)
      PROVE  Dense!Next
  BY <1>2, ForkDense DEF Dense!Next
<1>3. ASSUME NEW h \in Handles, HybridRelease(h) PROVE Dense!Next
  BY <1>3, ReleaseDense DEF Dense!Next
<1>4. ASSUME NEW batch \in SUBSET live, NEW add \in [batch -> 1 .. MaxAppend],
             HybridReserve(batch, add)
      PROVE  Dense!Next
  BY <1>4, ReserveDense DEF Dense!Next
<1>5. CASE HybridStage
  BY <1>5, StageDense DEF Dense!Next
<1>6. CASE StageConv
  BY <1>6, StageConvDense DEF Dense!Next
<1>7. CASE HybridCommit
  BY <1>7, CommitDense DEF Dense!Next
<1>8. CASE HybridAbort
  BY <1>8, AbortDense DEF Dense!Next
<1>9. CASE HybridReset
  BY <1>9, ResetDense DEF Dense!Next
<1>10. CASE UNCHANGED hybridVars
  <2>1. UNCHANGED <<live, table, length, kv, resv, conv, staged>>
    BY <1>10 DEF hybridVars, vars
  <2>2. HeldRows' = HeldRows
    BY <2>1 DEF HeldRows, ReadBack, RowAt
  <2>3. ShownRows' = ShownRows
    BY <2>1, ShownSame
  <2> QED
    BY <2>1, <2>2, <2>3 DEF Dense!vars
<1> QED
  BY <1>1, <1>2, <1>3, <1>4, <1>5, <1>6, <1>7, <1>8, <1>9, <1>10 DEF HybridNext

(***************************************************************************)
(* HybridPagedKVCacheBackend, and with it PagedKVCacheBackend, implements  *)
(* DenseKVCacheBackend for every pool, page size, window and set of        *)
(* handles: read through its block table every handle always has exactly   *)
(* the rows, and every staged step shows exactly the rows, that a private  *)
(* contiguous array would hold.                                            *)
(***************************************************************************)
THEOREM PagedImplementsDense == HybridSpec => KeepsDense
<1>1. HybridInit => Windows /\ Dense!Init
  <2> SUFFICES ASSUME HybridInit PROVE Windows /\ Dense!Init
    OBVIOUS
  <2>1. /\ live = {} /\ table = [h \in Handles |-> <<>>] /\ length = [h \in Handles |-> 0]
        /\ resv = NoReservation /\ conv = [h \in Handles |-> Zeros] /\ staged = Unstaged
    BY DEF HybridInit, Init
  <2>2. Windows
    BY <2>1, ZerosFill DEF Windows
  <2>3. HeldRows = [h \in Handles |-> <<>>]
    BY <2>1, ReadNone DEF HeldRows
  <2>4. ShownRows = Unstaged
    BY <2>1 DEF ShownRows, NoReservation
  <2>5. Dense!Zeros = Zeros
    BY DEF Dense!Zeros, Dense!Blank, Zeros, Blank
  <2>6. Dense!Init
    BY <2>1, <2>3, <2>4, <2>5 DEF Dense!Init, Dense!Unstaged, Unstaged, NoReservation
  <2> QED
    BY <2>2, <2>6
<1>2. HybridSpec => []Bookkeeping /\ []Content
  BY HybridImplementsPaged, BookkeepingInvariant, RowsStayApart, PTL
<1>3. HybridSpec => []Windows
  BY <1>1, <1>2, NextWindows, PTL DEF HybridSpec
<1> QED
  BY <1>1, <1>2, <1>3, StepDense, PTL DEF HybridSpec, KeepsDense, Dense!Spec

=============================================================================
