---------------------------- MODULE MCRadixPrefix ---------------------------
EXTENDS RadixPrefix

(* Two full pages, mostly with a token more; they part in the second or fourth. *)
PromptSet == {<<1, 1, 1, 1>>, <<1, 1, 1, 2, 9>>, <<1, 2, 1, 1, 9>>}

Symmetry == Permutations(Slots)

(***************************************************************************)
(* Which number a node has does not matter: states are told apart by the   *)
(* prefixes of their nodes.                                                *)
(***************************************************************************)
NameOf(n) == IF n = Root THEN None ELSE <<tree.prefix[n], tree.edge[n]>>

View ==
    <<{<<NameOf(n), NameOf(tree.parent[n]), tree.rows[n], tree.used[n], pins[n]>> :
         n \in tree.nodes},
      \A n \in Ids \ tree.nodes : pins[n] = 0,
      [r \in Slots |-> NameOf(lease[r])], prompt, length, published, snaps>>
=============================================================================
