--------------------------- MODULE MCNativeEngine ---------------------------
EXTENDS NativeEngine, TLC

CONSTANTS r1, r2, r3

(* A prompt of two chunks, answered by up to three tokens, beside shorter ones. *)
Prompts == (r1 :> 2) @@ (r2 :> 1) @@ (r3 :> 1)
Limits == (r1 :> 3) @@ (r2 :> 2) @@ (r3 :> 1)

(* Overlapped with decodes first; serial with batches of prefills, by priority. *)
BothModes ==
    {[overlap |-> TRUE, prioritize_decode |-> TRUE, policy |-> "fcfs"],
     [overlap |-> FALSE, prioritize_decode |-> FALSE, policy |-> "priority"]}

(* The longest prompt has the lowest priority. *)
Priorities == (r1 :> 0) @@ (r2 :> 1) @@ (r3 :> 2)

=============================================================================
