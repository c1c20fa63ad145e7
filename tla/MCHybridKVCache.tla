--------------------------- MODULE MCHybridKVCache --------------------------
EXTENDS HybridKVCache, TLC

(* Pages are interchangeable, and so are handles. *)
Symmetry == Permutations(Pages) \union Permutations(Handles)

(***************************************************************************)
(* States that differ only in the old rows of unallocated pages are one    *)
(* state: a page is read only through a block table or a reservation.      *)
(***************************************************************************)
InUse == PagesOf(live \union resv.batch, table) \union resv.granted

Visible(pool) ==
    IF pool = NoPool THEN NoPool
                     ELSE [p \in Pages |-> IF p \in InUse THEN pool[p] ELSE Blank]

View ==
    <<live, table, length, ref, pin, free, reserved, conv, staged,
      [resv EXCEPT !.staged = Visible(resv.staged)], Visible(kv), written>>
=============================================================================
