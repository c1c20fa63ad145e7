---------------------------- MODULE DenseKVCache ----------------------------
(***************************************************************************)
(* The dense key/value cache of native_mlx/cache.py: DenseKVCacheBackend,  *)
(* "retained only for diagnostics and test parity".  Every handle owns one *)
(* contiguous array of rows and, for a model with convolution layers, a    *)
(* window of its latest inputs.  Nothing is shared and nothing runs out,   *)
(* so this is also what the paged backends promise: HybridKVCache shows    *)
(* that they implement it.                                                 *)
(*                                                                         *)
(* Data: a row, or one input of a convolution, is the tag <<handle that    *)
(* computed it, position>>.  One layer of each kind stands for all.        *)
(***************************************************************************)
EXTENDS Integers, Sequences

CONSTANTS
    Handles,    \* the handles that can exist at the same time
    MaxLength,  \* bound: rows of one handle
    MaxAppend,  \* bound: rows one reservation appends to one handle
    Window      \* inputs a convolution state keeps, cache_size - 1

VARIABLES
    live,       \* keys of _caches
    rows,       \* DenseLayerCache.keys / values of every handle
    conv,       \* DenseLayerCache.conv_state of every handle
    batch,      \* request_caches of the outstanding DenseBatchReservation
    add,        \* its append_lengths
    newRows,    \* its _committed_keys / _committed_values
    newConv     \* its _committed_conv_states

vars == <<live, rows, conv, batch, add, newRows, newConv>>

(* No input yet: the zeros that stand for a missing convolution state. *)
Blank == <<>>
Zeros == [i \in 1 .. Window |-> Blank]

(* A layer of the reservation that has not been staged. *)
Unstaged == <<>>

Init ==
    /\ live = {}
    /\ rows = [h \in Handles |-> <<>>]
    /\ conv = [h \in Handles |-> Zeros]
    /\ batch = {} /\ add = <<>> /\ newRows = Unstaged /\ newConv = Unstaged

NoReservation == batch = {} /\ add = <<>> /\ newRows = Unstaged /\ newConv = Unstaged

Create(h) ==
    /\ h \notin live \union batch
    /\ live' = live \union {h}
    /\ rows' = [rows EXCEPT ![h] = <<>>]
    /\ conv' = [conv EXCEPT ![h] = Zeros]
    /\ UNCHANGED <<batch, add, newRows, newConv>>

(***************************************************************************)
(* fork copies the first n rows.  The convolution state is copied as it    *)
(* stands, also when n is shorter than the source.                         *)
(***************************************************************************)
Fork(src, h, n) ==
    /\ src \in live
    /\ h \notin live \union batch
    /\ n \in 0 .. Len(rows[src])
    /\ live' = live \union {h}
    /\ rows' = [rows EXCEPT ![h] = SubSeq(rows[src], 1, n)]
    /\ conv' = [conv EXCEPT ![h] = conv[src]]
    /\ UNCHANGED <<batch, add, newRows, newConv>>

Release(h) ==
    /\ h \in live \ batch
    /\ live' = live \ {h}
    /\ rows' = [rows EXCEPT ![h] = <<>>]
    /\ conv' = [conv EXCEPT ![h] = Zeros]
    /\ UNCHANGED <<batch, add, newRows, newConv>>

(* reserve_batch: preflight and reserve_batch never turn a batch down. *)
Reserve(hs, n) ==
    /\ NoReservation
    /\ hs \in (SUBSET live) \ {{}}
    /\ \A h \in hs : Len(rows[h]) + n[h] <= MaxLength
    /\ batch' = hs
    /\ add' = n
    /\ UNCHANGED <<live, rows, conv, newRows, newConv>>

(* What the model computes for handle h in this step. *)
Computed(h) == [i \in 1 .. add[h] |-> <<h, Len(rows[h]) + i - 1>>]

(* DenseBatchLayerCache.update_and_fetch *)
Stage ==
    /\ batch # {} /\ newRows = Unstaged
    /\ newRows' = [h \in batch |-> rows[h] \o Computed(h)]
    /\ UNCHANGED <<live, rows, conv, batch, add, newConv>>

(* prepare_conv_state and stage_conv_state: keep the latest inputs. *)
StageConv ==
    /\ batch # {} /\ newConv = Unstaged
    /\ newConv' = [h \in batch |->
                     SubSeq(conv[h] \o Computed(h), add[h] + 1, add[h] + Window)]
    /\ UNCHANGED <<live, rows, conv, batch, add, newRows>>

Finish ==
    batch' = {} /\ add' = <<>> /\ newRows' = Unstaged /\ newConv' = Unstaged

(* commit: every layer has been staged; all of them are installed. *)
Commit ==
    /\ batch # {} /\ newRows # Unstaged /\ newConv # Unstaged
    /\ rows' = [h \in Handles |-> IF h \in batch THEN newRows[h] ELSE rows[h]]
    /\ conv' = [h \in Handles |-> IF h \in batch THEN newConv[h] ELSE conv[h]]
    /\ Finish
    /\ UNCHANGED live

Abort ==
    /\ batch # {}
    /\ Finish
    /\ UNCHANGED <<live, rows, conv>>

(* reset; the paged backends refuse it while a reservation is outstanding. *)
Reset ==
    /\ live' = {}
    /\ rows' = [h \in Handles |-> <<>>]
    /\ conv' = [h \in Handles |-> Zeros]
    /\ UNCHANGED <<batch, add, newRows, newConv>>

Next ==
    \/ \E h \in Handles : Create(h) \/ Release(h)
    \/ \E src, h \in Handles : \E n \in 0 .. MaxLength : Fork(src, h, n)
    \/ \E hs \in SUBSET live : \E n \in [hs -> 1 .. MaxAppend] : Reserve(hs, n)
    \/ Stage
    \/ StageConv
    \/ Commit
    \/ Abort
    \/ Reset

Spec == Init /\ [][Next]_vars
=============================================================================
