----------------------------- MODULE MCVlmBatch -----------------------------
(***************************************************************************)
(* Three requests: two with the same image and different prompts and       *)
(* sampling keys, and one without an image that shares the first's key.    *)
(***************************************************************************)
EXTENDS VlmBatch

MCPrompt(r) == CASE r = "r1" -> <<"a", "b">>
                 [] r = "r2" -> <<"c">>
                 [] r = "r3" -> <<"d">>
MCImage(r) == IF r = "r3" THEN "" ELSE "x"
MCSamplingKey(r) == IF r = "r2" THEN "warm" ELSE "greedy"

=============================================================================
