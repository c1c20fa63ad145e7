---------------------------- MODULE HybridKVCache ---------------------------
(***************************************************************************)
(* The paged cache of a model that mixes attention with convolution layers *)
(* (LFM2): HybridPagedKVCacheBackend and HybridBatchReservation of         *)
(* native_mlx/cache.py.  It is PagedKVCache plus, for every handle, the    *)
(* window of inputs a convolution keeps; every step here is a step of      *)
(* PagedKVCache or leaves its variables alone, so a model without such     *)
(* layers is the same thing with conv never read.                          *)
(***************************************************************************)
EXTENDS PagedKVCache

CONSTANT Window  \* inputs a convolution state keeps, cache_size - 1

ASSUME WindowAssumption == Window \in Nat

VARIABLES
    conv,    \* HybridRequestCache.conv_states of every handle
    staged   \* HybridBatchReservation.staged_states

hybridVars == <<vars, conv, staged>>

(* A missing state is read as zeros. *)
Zeros == [i \in 1 .. Window |-> Blank]

Unstaged == <<>>

HybridInit ==
    /\ Init
    /\ conv = [h \in Handles |-> Zeros]
    /\ staged = Unstaged

HybridCreate(h) ==
    /\ Create(h)
    /\ conv' = [conv EXCEPT ![h] = Zeros]
    /\ UNCHANGED staged

(* fork copies the state as it stands, whatever the length of the fork. *)
HybridFork(src, h, n) ==
    /\ Fork(src, h, n)
    /\ conv' = [conv EXCEPT ![h] = conv[src]]
    /\ UNCHANGED staged

HybridRelease(h) ==
    /\ h \notin resv.batch
    /\ Release(h)
    /\ conv' = [conv EXCEPT ![h] = Zeros]
    /\ UNCHANGED staged

(* _build_reservation: staged_states starts as [None] * num_layers. *)
HybridReserve(batch, add) ==
    /\ Reserve(batch, add)
    /\ UNCHANGED <<conv, staged>>

HybridStage ==
    /\ Stage
    /\ UNCHANGED <<conv, staged>>

(***************************************************************************)
(* prepare_conv_state: the rows of the batch are as wide as the longest    *)
(* append; what lies beyond a handle's own append is set to zero.          *)
(***************************************************************************)
Width ==
    CHOOSE n \in 1 .. MaxAppend :
        /\ \A h \in resv.batch : resv.add[h] <= n
        /\ \E h \in resv.batch : resv.add[h] = n

Combined(h) ==
    conv[h] \o [i \in 1 .. Width |->
                  IF i <= resv.add[h] THEN <<h, length[h] + i - 1>> ELSE Blank]

(* Mutant: the state is taken from the end of the padded row. *)
KeptFromTheEnd(h) == SubSeq(Combined(h), Width + 1, Width + Window)

(* stage_conv_state: combined[append_length : append_length + window]. *)
Kept(h) == SubSeq(Combined(h), resv.add[h] + 1, resv.add[h] + Window)

StageConv ==
    /\ resv.batch # {} /\ staged = Unstaged
    /\ staged' = [h \in resv.batch |-> Kept(h)]
    /\ UNCHANGED <<vars, conv>>

(***************************************************************************)
(* commit: refused until every layer has staged its one kind of state; the *)
(* pages are committed first, then the states.                             *)
(***************************************************************************)
HybridCommit ==
    /\ staged # Unstaged
    /\ Commit
    /\ conv' = [h \in Handles |-> IF h \in resv.batch THEN staged[h] ELSE conv[h]]
    /\ staged' = Unstaged

HybridAbort ==
    /\ Abort
    /\ staged' = Unstaged
    /\ UNCHANGED conv

HybridReset ==
    /\ Reset
    /\ conv' = [h \in Handles |-> Zeros]
    /\ UNCHANGED staged

HybridNext ==
    \/ \E h \in Handles : HybridCreate(h)
    \/ \E src, h \in Handles : \E n \in 0 .. MaxLength : HybridFork(src, h, n)
    \/ \E h \in Handles : HybridRelease(h)
    \/ \E batch \in SUBSET live : \E add \in [batch -> 1 .. MaxAppend] :
         HybridReserve(batch, add)
    \/ HybridStage
    \/ StageConv
    \/ HybridCommit
    \/ HybridAbort
    \/ HybridReset

HybridSpec == HybridInit /\ [][HybridNext]_hybridVars

-----------------------------------------------------------------------------
(* The first n rows that block table t denotes in pool. *)
ReadBack(pool, t, n) == [i \in 1 .. n |-> RowAt(pool, t, i - 1)]

(* The rows every handle has, and those the staged step shows the batch. *)
HeldRows == [h \in Handles |-> ReadBack(kv, table[h], length[h])]

ShownRows ==
    IF resv.staged = NoPool THEN Unstaged
    ELSE [h \in resv.batch |->
            ReadBack(resv.staged, resv.cand[h], length[h] + resv.add[h])]

Dense ==
    INSTANCE DenseKVCache WITH
        rows    <- HeldRows,
        batch   <- resv.batch,
        add     <- resv.add,
        newRows <- ShownRows,
        newConv <- staged

(***************************************************************************)
(* The paged backends implement the dense one: read through its block      *)
(* table, every handle has at all times exactly the rows, and the staged   *)
(* step shows the attention kernel exactly the rows, that one private      *)
(* contiguous array per handle would hold.  No append of a handle that     *)
(* shares pages, no copy made by a step that is then aborted, no padding   *)
(* and no reuse of a page ever shows.                                      *)
(***************************************************************************)
KeepsDense == Dense!Spec
=============================================================================
