-------------------------- MODULE MCBlockHashPrefix -------------------------
EXTENDS BlockHashPrefix, TLC

(* Two full pages, two of them with a token more; they share no or one page. *)
PromptSet == {<<1, 1, 1, 1>>, <<1, 1, 1, 2, 9>>, <<2, 1, 1, 1, 9>>}

Symmetry == Permutations(Slots)
=============================================================================
