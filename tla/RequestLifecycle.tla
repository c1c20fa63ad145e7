-------------------------- MODULE RequestLifecycle --------------------------
(***************************************************************************)
(* What a worker promises the gateway about every chat request (the worker *)
(* protocol of docs/reference/protocol.md as native_mlx/runtime.py keeps   *)
(* it): a request is answered by at most max_tokens tokens and then by     *)
(* exactly one terminal message, nothing follows that message, and as long *)
(* as the connection lasts every open request gets it.                     *)
(***************************************************************************)
EXTENDS Integers

CONSTANTS Requests, MaxTokens

VARIABLES
    up,      \* the gateway is connected
    open,    \* requests accepted and not answered
    count,   \* tokens sent for each request
    asked,   \* requests whose cancellation was asked for
    reason   \* terminal message of each request, or "none"

vars == <<up, open, count, asked, reason>>

Init ==
    /\ up = TRUE
    /\ open = {} /\ asked = {}
    /\ count = [r \in Requests |-> 0]
    /\ reason = [r \in Requests |-> "none"]

Fresh(r) == up /\ r \notin open /\ reason[r] = "none" /\ count[r] = 0

Open(r) ==
    /\ Fresh(r)
    /\ open' = open \union {r}
    /\ UNCHANGED <<up, count, asked, reason>>

Refuse(r) ==
    /\ Fresh(r)
    /\ reason' = [reason EXCEPT ![r] = "error"]
    /\ UNCHANGED <<up, open, count, asked>>

Ask(r) ==
    /\ up = TRUE
    /\ asked' = asked \union {r}
    /\ UNCHANGED <<up, open, count, reason>>

(* One more token; the request stays open. *)
Token(r) ==
    /\ up /\ r \in open
    /\ count[r] + 1 < MaxTokens[r]
    /\ count' = [count EXCEPT ![r] = count[r] + 1]
    /\ UNCHANGED <<up, open, asked, reason>>

(* The last token ends the request, at the latest the one numbered max_tokens. *)
LastToken(r, why) ==
    /\ up /\ r \in open
    /\ why \in {"stop", "length"}
    /\ count[r] + 1 <= MaxTokens[r]
    /\ why = "length" => count[r] + 1 = MaxTokens[r]
    /\ count' = [count EXCEPT ![r] = count[r] + 1]
    /\ open' = open \ {r}
    /\ reason' = [reason EXCEPT ![r] = why]
    /\ UNCHANGED <<up, asked>>

(* The request ends without a further token. *)
End(r, why) ==
    /\ up /\ r \in open
    /\ \/ why = "error"
       \/ why = "cancelled" /\ r \in asked
    /\ open' = open \ {r}
    /\ reason' = [reason EXCEPT ![r] = why]
    /\ UNCHANGED <<up, count, asked>>

(* The gateway disconnects: open requests are dropped without an answer. *)
Disconnect ==
    /\ up = TRUE
    /\ up' = FALSE
    /\ open' = {}
    /\ UNCHANGED <<count, asked, reason>>

Serve(r) ==
    \/ Token(r)
    \/ \E why \in {"stop", "length"} : LastToken(r, why)
    \/ \E why \in {"error", "cancelled"} : End(r, why)

Next ==
    \/ Disconnect
    \/ \E r \in Requests : Open(r) \/ Refuse(r) \/ Ask(r) \/ Serve(r)

Safety == Init /\ [][Next]_vars

Spec == Safety /\ \A r \in Requests : WF_vars(Serve(r))

=============================================================================
