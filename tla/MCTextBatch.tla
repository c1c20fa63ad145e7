---------------------------- MODULE MCTextBatch ----------------------------
EXTENDS TextBatch

CONSTANTS r1, r2, r3

(* Prompts that are, extend and part from one another, and one too long. *)
SmallPrompts == {<<"a">>, <<"a", "b">>, <<"a", "a">>, <<"b", "b", "b">>}

=============================================================================
