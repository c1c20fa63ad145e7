---------------------------- MODULE PagedKVCache ----------------------------
(***************************************************************************)
(* The paged key/value cache of the native MLX engine: PagedKVCacheBackend *)
(* and PagedBatchReservation of native_mlx/cache.py.                       *)
(*                                                                         *)
(* A fixed pool of pages holds the K/V rows of every request.  A handle    *)
(* owns a block table (the pages of its rows, in order) and a length.      *)
(* Handles share pages: fork copies a block table and counts the new       *)
(* references.  Rows are appended by a two-phase reservation that pins the *)
(* pages it reads, takes its new pages from the free list, writes into a   *)
(* staged copy of the pool and installs that copy when it commits.         *)
(*                                                                         *)
(* Data: the K/V vectors of a row are abstracted to the tag <<handle that  *)
(* computed the row, position>>; the transformer layers, which all go      *)
(* through the same steps, are one layer.  Which free page an allocation   *)
(* takes (the code pops the lowest) is left open.                          *)
(***************************************************************************)
EXTENDS Integers, Sequences, FiniteSets

CONSTANTS
    Pages,      \* the pool, range(num_pages)
    PageSize,   \* rows per page
    Handles,    \* the handles that can exist at the same time
    MaxLength,  \* bound: rows of one handle
    MaxAppend   \* bound: rows one reservation appends to one handle

ASSUME PagesAssumption    == IsFiniteSet(Pages) /\ Pages # {}
ASSUME PageSizeAssumption == PageSize \in Nat \ {0}
ASSUME HandlesAssumption  == IsFiniteSet(Handles)
ASSUME BoundsAssumption   == MaxLength \in Nat /\ MaxAppend \in Nat

VARIABLES
    live,      \* keys of _caches
    table,     \* block_table of every handle's PagedRequestCache
    length,    \* length of every handle's PagedRequestCache
    ref,       \* _ref_counts
    pin,       \* _pin_counts
    free,      \* _free_pages (kept sorted and duplicate-free by the code)
    reserved,  \* _reserved_pages
    resv,      \* the outstanding PagedBatchReservation
    kv,        \* key_pages / value_pages: page -> offset -> row
    written    \* history: the rows each handle must read back, in order

vars == <<live, table, length, ref, pin, free, reserved, resv, kv, written>>

-----------------------------------------------------------------------------
(* Pages needed for n rows: math.ceil(n / page_size). *)
PagesFor(n) == (n + PageSize - 1) \div PageSize

MaxPages == PagesFor(MaxLength)

Offsets == 0 .. PageSize - 1

(* No row: the zeros the pool is created with. *)
Blank == <<>>

Rows == (Handles \X (0 .. MaxLength)) \union {Blank}

Pool == [Pages -> [Offsets -> Rows]]

(* The row that position pos (from 0) of a block table t denotes in pool. *)
RowAt(pool, t, pos) == pool[t[(pos \div PageSize) + 1]][pos % PageSize]

(* The places of p in the block tables tbl of the handles hs. *)
Occurrences(hs, tbl, p) ==
    {hj \in hs \X (1 .. MaxPages) :
        hj[2] \in DOMAIN tbl[hj[1]] /\ tbl[hj[1]][hj[2]] = p}

Count(hs, tbl, p) == Cardinality(Occurrences(hs, tbl, p))

(* All pages of the block tables tbl of the handles hs. *)
PagesOf(hs, tbl) == {p \in Pages : Occurrences(hs, tbl, p) # {}}

-----------------------------------------------------------------------------
NoPool == <<>>

NoReservation ==
    [batch |-> {}, add |-> <<>>, cand |-> <<>>, granted |-> {},
     copy |-> {}, pinned |-> {}, staged |-> NoPool]

Init ==
    /\ live = {}
    /\ table = [h \in Handles |-> <<>>]
    /\ length = [h \in Handles |-> 0]
    /\ ref = [p \in Pages |-> 0]
    /\ pin = [p \in Pages |-> 0]
    /\ free = Pages
    /\ reserved = {}
    /\ resv = NoReservation
    /\ kv = [p \in Pages |-> [o \in Offsets |-> Blank]]
    /\ written = [h \in Handles |-> <<>>]

(***************************************************************************)
(* create: an empty cache under a new handle.  Handles carry a uuid, so a  *)
(* new one is neither live nor known to the outstanding reservation.       *)
(***************************************************************************)
Create(h) ==
    /\ h \notin live \union resv.batch
    /\ live' = live \union {h}
    /\ table' = [table EXCEPT ![h] = <<>>]
    /\ length' = [length EXCEPT ![h] = 0]
    /\ written' = [written EXCEPT ![h] = <<>>]
    /\ UNCHANGED <<ref, pin, free, reserved, resv, kv>>

(* Mutant: fork counts the whole table of src, not the part it shares. *)
ForkCountsWholeTable(src, h, n) ==
    /\ src \in live
    /\ h \notin live \union resv.batch
    /\ n \in 0 .. length[src]
    /\ live' = live \union {h}
    /\ table' = [table EXCEPT ![h] = SubSeq(table[src], 1, PagesFor(n))]
    /\ length' = [length EXCEPT ![h] = n]
    /\ ref' = [p \in Pages |-> ref[p] + Count({src}, table, p)]
    /\ written' = [written EXCEPT ![h] = SubSeq(written[src], 1, n)]
    /\ UNCHANGED <<pin, free, reserved, resv, kv>>

(***************************************************************************)
(* fork: handle h gets the first n rows of src by sharing their pages.     *)
(***************************************************************************)
Fork(src, h, n) ==
    /\ src \in live
    /\ h \notin live \union resv.batch
    /\ n \in 0 .. length[src]
    /\ live' = live \union {h}
    /\ table' = [table EXCEPT ![h] = SubSeq(table[src], 1, PagesFor(n))]
    /\ length' = [length EXCEPT ![h] = n]
    /\ ref' = [p \in Pages |-> ref[p] + Count({h}, table', p)]
    /\ written' = [written EXCEPT ![h] = SubSeq(written[src], 1, n)]
    /\ UNCHANGED <<pin, free, reserved, resv, kv>>

(* Mutant: release returns every page, shared or not. *)
FreesShared(h, counts) == PagesOf({h}, table)

(* The pages of h that a release returns, given the new counts. *)
FreedBy(h, counts) ==
    {p \in PagesOf({h}, table) : counts[p] = 0 /\ pin[p] = 0}

(***************************************************************************)
(* release: drop a handle's references; a page nobody references or pins   *)
(* goes back to the free list.  A reservation keeps the cache objects of   *)
(* its batch alive, hence their tables survive a release.                  *)
(***************************************************************************)
Release(h) ==
    /\ h \in live
    /\ live' = live \ {h}
    /\ ref' = [p \in Pages |-> ref[p] - Count({h}, table, p)]
    /\ free' = free \union FreedBy(h, ref')
    /\ IF h \in resv.batch
         THEN UNCHANGED <<table, length, written>>
         ELSE /\ table' = [table EXCEPT ![h] = <<>>]
              /\ length' = [length EXCEPT ![h] = 0]
              /\ written' = [written EXCEPT ![h] = <<>>]
    /\ UNCHANGED <<pin, reserved, resv, kv>>

-----------------------------------------------------------------------------
LastPage(h) == table[h][Len(table[h])]

(* The handle's last page is partly filled and shared: copy on write. *)
CopyOnWrite(h) ==
    /\ length[h] % PageSize # 0
    /\ table[h] # <<>>
    /\ ref[LastPage(h)] > 1

(* Places of the batch's new block tables that need a page of the pool. *)
NewSlots(batch, add) ==
    {hj \in batch \X (1 .. MaxPages) :
        /\ hj[2] <= PagesFor(length[hj[1]] + add[hj[1]])
        /\ \/ hj[2] > Len(table[hj[1]])
           \/ hj[2] = Len(table[hj[1]]) /\ CopyOnWrite(hj[1])}

Available == free \ reserved

(* All ways to hand out distinct available pages to those places. *)
Grants(batch, add) ==
    {g \in [NewSlots(batch, add) -> Available] :
        \A s, t \in NewSlots(batch, add) : g[s] = g[t] => s = t}

(* reserve_batch finds a page for every place. *)
CanReserve(batch, add) ==
    Cardinality(NewSlots(batch, add)) <= Cardinality(Available)

(* The block tables after the append, with the granted pages. *)
Candidates(batch, add, g) ==
    [h \in batch |->
        [j \in 1 .. PagesFor(length[h] + add[h]) |->
            IF <<h, j>> \in NewSlots(batch, add) THEN g[<<h, j>>]
                                                 ELSE table[h][j]]]

(* Mutant: preflight forgets the page of a copy-on-write. *)
PreflightIgnoresCopies(h, n) ==
    LET grow == PagesFor(length[h] + n) - Len(table[h])
    IN IF grow > 0 THEN grow ELSE 0

(* preflight's own estimate of the pages that appending n rows to h takes. *)
PreflightCost(h, n) ==
    LET grow == PagesFor(length[h] + n) - Len(table[h])
    IN (IF grow > 0 THEN grow ELSE 0) + (IF CopyOnWrite(h) THEN 1 ELSE 0)

(***************************************************************************)
(* preflight: goes through the requests in order and turns down each one   *)
(* that does not fit into what the accepted ones before it left over.      *)
(***************************************************************************)
Preflight(order, add) ==
    LET left[i \in 0 .. Len(order)] ==
          IF i = 0 THEN Cardinality(Available)
          ELSE LET cost == PreflightCost(order[i], add[order[i]])
               IN IF cost > left[i - 1] THEN left[i - 1] ELSE left[i - 1] - cost
    IN {order[i] : i \in {j \in 1 .. Len(order) :
                            PreflightCost(order[j], add[order[j]]) <= left[j - 1]}}

(***************************************************************************)
(* reserve_batch: every page is found before anything changes, so a batch  *)
(* that does not fit (CanReserve false) changes no state.  The caller has  *)
(* one reservation outstanding at a time (PhaseAwareScheduler._in_flight). *)
(***************************************************************************)
Reserve(batch, add) ==
    /\ resv = NoReservation
    /\ batch # {} /\ batch \subseteq live
    /\ add \in [batch -> 1 .. MaxAppend]
    /\ \A h \in batch : length[h] + add[h] <= MaxLength
    /\ CanReserve(batch, add)
    /\ \E g \in Grants(batch, add) :
         /\ reserved' = reserved \union {g[s] : s \in NewSlots(batch, add)}
         /\ resv' = [batch   |-> batch,
                     add     |-> add,
                     cand    |-> Candidates(batch, add, g),
                     granted |-> {g[s] : s \in NewSlots(batch, add)},
                     copy    |-> {<<LastPage(h), g[<<h, Len(table[h])>>]>> :
                                    h \in {b \in batch : CopyOnWrite(b)}},
                     pinned  |-> PagesOf(batch, table),
                     staged  |-> NoPool]
    /\ pin' = [p \in Pages |->
                 IF p \in PagesOf(batch, table) THEN pin[p] + 1 ELSE pin[p]]
    /\ UNCHANGED <<live, table, length, ref, free, kv, written>>

(* The pool after the copies of stage_layer. *)
Copied ==
    [p \in Pages |->
        IF \E c \in resv.copy : c[2] = p
        THEN kv[(CHOOSE c \in resv.copy : c[2] = p)[1]]
        ELSE kv[p]]

(* The positions that handle h of the reservation appends. *)
Appended(h) == length[h] .. length[h] + resv.add[h] - 1

(* Position pos of handle h is offset o of page p in the new block table. *)
WritesAt(h, pos, p, o) ==
    resv.cand[h][(pos \div PageSize) + 1] = p /\ pos % PageSize = o

(* A pool with the batch's new rows written through slot_array. *)
Written(pool) ==
    [p \in Pages |-> [o \in Offsets |->
        IF \E h \in resv.batch : \E pos \in Appended(h) : WritesAt(h, pos, p, o)
        THEN CHOOSE row \in Rows :
               \E h \in resv.batch : \E pos \in Appended(h) :
                 WritesAt(h, pos, p, o) /\ row = <<h, pos>>
        ELSE pool[p][o]]]

(***************************************************************************)
(* stage_layer: the copies of copy-on-write pages go into the live pool    *)
(* (MLX item assignment updates the array the backend holds), the new rows *)
(* only into the staged copy.                                              *)
(***************************************************************************)
Stage ==
    /\ resv.batch # {} /\ resv.staged = NoPool
    /\ kv' = Copied
    /\ resv' = [resv EXCEPT !.staged = Written(Copied)]
    /\ UNCHANGED <<live, table, length, ref, pin, free, reserved, written>>

(* _finish_reservation: give back what the reservation holds. *)
FinishReservation ==
    /\ reserved' = reserved \ resv.granted
    /\ pin' = [p \in Pages |->
                 IF p \in resv.pinned THEN pin[p] - 1 ELSE pin[p]]
    /\ resv' = NoReservation

(* abort: the batch keeps its old block tables. *)
Abort ==
    /\ resv.batch # {}
    /\ FinishReservation
    /\ UNCHANGED <<live, table, length, ref, free, kv, written>>

(* Mutant: commit looks only at the pages of its own batch. *)
SweepsBatchOnly(counts) ==
    {p \in PagesOf(resv.batch, table) \ resv.granted : counts[p] = 0 /\ pin[p] = 0}

(* The unreferenced pages that commit's sweep finds. *)
Swept(counts) == {p \in Pages \ resv.granted : counts[p] = 0 /\ pin[p] = 0}

(***************************************************************************)
(* commit: move the batch to its new block tables, install the staged pool *)
(* and sweep unreferenced pages into the free list.  The sweep runs before *)
(* _finish_reservation, so it passes over the pages this reservation pins. *)
(***************************************************************************)
Commit ==
    /\ resv.batch # {} /\ resv.staged # NoPool
    /\ ref' = [p \in Pages |-> ref[p] - Count(resv.batch, table, p)
                                      + Count(resv.batch, resv.cand, p)]
    /\ kv' = resv.staged
    /\ table' = [h \in Handles |->
                   IF h \in resv.batch THEN resv.cand[h] ELSE table[h]]
    /\ length' = [h \in Handles |->
                   IF h \in resv.batch THEN length[h] + resv.add[h]
                                       ELSE length[h]]
    /\ written' = [h \in Handles |->
                   IF h \in resv.batch
                   THEN written[h] \o [i \in 1 .. resv.add[h] |->
                                         <<h, length[h] + i - 1>>]
                   ELSE written[h]]
    /\ free' = (free \ resv.granted) \union Swept(ref')
    /\ FinishReservation
    /\ UNCHANGED live

(* Mutant: reset does not look for an outstanding reservation. *)
ResetUnguarded ==
    /\ live' = {}
    /\ table' = [h \in Handles |-> <<>>]
    /\ length' = [h \in Handles |-> 0]
    /\ written' = [h \in Handles |-> <<>>]
    /\ free' = Pages
    /\ ref' = [p \in Pages |-> 0]
    /\ UNCHANGED <<pin, reserved, resv, kv>>

(* reset: refused while pages are reserved or pinned. *)
Reset ==
    /\ reserved = {} /\ \A p \in Pages : pin[p] = 0
    /\ live' = {}
    /\ table' = [h \in Handles |-> <<>>]
    /\ length' = [h \in Handles |-> 0]
    /\ written' = [h \in Handles |-> <<>>]
    /\ free' = Pages
    /\ ref' = [p \in Pages |-> 0]
    /\ UNCHANGED <<pin, reserved, resv, kv>>

-----------------------------------------------------------------------------
(***************************************************************************)
(* What the users of the backend may do: they release a handle only while  *)
(* no outstanding reservation has it in its batch.                         *)
(***************************************************************************)
Next ==
    \/ \E h \in Handles : Create(h)
    \/ \E src, h \in Handles : \E n \in 0 .. MaxLength : Fork(src, h, n)
    \/ \E h \in Handles : h \notin resv.batch /\ Release(h)
    \/ \E batch \in SUBSET live : \E add \in [batch -> 1 .. MaxAppend] :
         Reserve(batch, add)
    \/ Stage
    \/ Commit
    \/ Abort
    \/ Reset

Spec == Init /\ [][Next]_vars

-----------------------------------------------------------------------------
(* Type invariant. *)
ReservationOK ==
    \/ resv = NoReservation
    \/ /\ resv.batch \in (SUBSET live) \ {{}}
       /\ resv.add \in [resv.batch -> 1 .. MaxAppend]
       /\ resv.cand \in [resv.batch -> Seq(Pages)]
       /\ resv.granted \subseteq Pages
       /\ resv.copy \subseteq Pages \X Pages
       /\ resv.pinned \subseteq Pages
       /\ resv.staged \in Pool \union {NoPool}

TypeOK ==
    /\ live \subseteq Handles
    /\ table \in [Handles -> Seq(Pages)]
    /\ length \in [Handles -> 0 .. MaxLength]
    /\ ref \in [Pages -> Nat]
    /\ pin \in [Pages -> Nat]
    /\ free \subseteq Pages
    /\ reserved \subseteq Pages
    /\ ReservationOK
    /\ kv \in Pool
    /\ written \in [Handles -> Seq(Rows)]

(***************************************************************************)
(* Reference counts are exact: _ref_counts[p] is the number of places at   *)
(* which p stands in the block tables of the live handles, so no page is   *)
(* freed while a handle still reads it and none is kept after the last.    *)
(***************************************************************************)
RefCountsExact == \A p \in Pages : ref[p] = Count(live, table, p)

(***************************************************************************)
(* A page on the free list belongs to nobody: no block table holds it and  *)
(* no reservation reads it; the pages promised to a reservation are still  *)
(* on that list.                                                           *)
(***************************************************************************)
FreePagesUnused ==
    /\ \A p \in free : pin[p] = 0 /\ Occurrences(live, table, p) = {}
    /\ reserved \subseteq free

(* A block table has exactly the pages its rows need. *)
TablesFit ==
    \A h \in Handles : /\ Len(table[h]) = PagesFor(length[h])
                       /\ Len(written[h]) = length[h]

(***************************************************************************)
(* What holds of the outstanding reservation until it is finished: it pins *)
(* exactly the pages of its batch, its new block tables extend the old     *)
(* ones by pages granted from the free list, and it holds some page, so    *)
(* that reset refuses to run under it.                                     *)
(***************************************************************************)
ReservationSound ==
    /\ TablesFit
    /\ reserved = resv.granted
    /\ resv.pinned = PagesOf(resv.batch, table)
    /\ \A p \in Pages : pin[p] = IF p \in resv.pinned THEN 1 ELSE 0
    /\ resv.batch # {} => resv.granted \union resv.pinned # {}
    /\ \A h \in resv.batch :
         /\ length[h] + resv.add[h] <= MaxLength
         /\ Len(resv.cand[h]) = PagesFor(length[h] + resv.add[h])
         /\ \A j \in 1 .. Len(resv.cand[h]) :
              \/ resv.cand[h][j] \in resv.granted
              \/ j <= Len(table[h]) /\ resv.cand[h][j] = table[h][j]

(***************************************************************************)
(* Every live handle reads back, through its block table, exactly the rows *)
(* it and the handles it was forked from wrote: no append of a handle that *)
(* shares pages, no abort and no reuse of a page disturbs another handle.  *)
(* It is what KeepsDense of HybridKVCache says of the rows, stated with    *)
(* the history variable.                                                   *)
(***************************************************************************)
ContentIntact ==
    \A h \in live : \A pos \in 0 .. length[h] - 1 :
        RowAt(kv, table[h], pos) = written[h][pos + 1]

(***************************************************************************)
(* preflight and reserve_batch agree: the requests that preflight lets     *)
(* through can always be reserved together (KV_RESERVATION_FAILED does not *)
(* happen), and one that it turns down could not have joined them.         *)
(***************************************************************************)
PreflightAgrees ==
    \A i, j \in live : \A m, n \in 1 .. MaxAppend :
        i # j /\ length[i] + m <= MaxLength /\ length[j] + n <= MaxLength =>
          LET add == [h \in {i, j} |-> IF h = i THEN m ELSE n]
              kept == Preflight(<<i, j>>, add)
          IN /\ CanReserve(kept, add)
             /\ \A h \in {i, j} \ kept : ~CanReserve(kept \union {h}, add)

(* Pages that no handle uses and no allocation can find. *)
Stranded == {p \in Pages \ free : ref[p] = 0 /\ pin[p] = 0}

(***************************************************************************)
(* A commit leaves no page stranded except one that it pinned itself (the  *)
(* shared last page that every sharer in the batch copied away from): what *)
(* earlier steps stranded is back on the free list.                        *)
(***************************************************************************)
CommitReclaims == [][Commit => Stranded' \subseteq resv.pinned]_vars

=============================================================================
