---------------------------- MODULE PrefixIndex -----------------------------
(***************************************************************************)
(* What a prefix cache of the native engine promises its user, the cache   *)
(* coordinator (the PrefixCache protocol of cache_coordinator.py): it      *)
(* lends out only true prefixes of the prompt that were published before,  *)
(* and a prefix that is lent out stays until it is given back.  Which      *)
(* entries it keeps beyond that is its own business.                       *)
(***************************************************************************)
EXTENDS Integers, Sequences

CONSTANTS
    Slots,     \* requests that can be in the engine at the same time
    Prompts,   \* the prompts they may have
    PageSize   \* tokens per page

VARIABLES
    stored,    \* the prefixes of which the cache has a snapshot
    prompt,    \* the prompt of each request, or None
    lease      \* the prefix lent to each request, or None

vars == <<stored, prompt, lease>>

None == <<>>

(* The prefixes of t that consist of full pages and have at most n tokens. *)
PagePrefixes(t, n) ==
    {SubSeq(t, 1, k) : k \in {j \in 1 .. Len(t) : j <= n /\ j % PageSize = 0}}

Lent == {lease[r] : r \in Slots} \ {None}

Init ==
    /\ stored = {}
    /\ prompt = [r \in Slots |-> None]
    /\ lease = [r \in Slots |-> None]

(* A hit lends a prefix that leaves at least one token to compute. *)
Acquire(r, t) ==
    /\ prompt[r] = None
    /\ prompt' = [prompt EXCEPT ![r] = t]
    /\ \E p \in {None} \union (stored \intersect PagePrefixes(t, Len(t) - 1)) :
         lease' = [lease EXCEPT ![r] = p]
    /\ UNCHANGED stored

(* Full pages of the prompt may be added, and anything not lent may go. *)
Publish(r) ==
    /\ prompt[r] # None
    /\ stored' \subseteq stored \union PagePrefixes(prompt[r], Len(prompt[r]))
    /\ Lent \subseteq stored'
    /\ UNCHANGED <<prompt, lease>>

Release(r) ==
    /\ prompt[r] # None
    /\ prompt' = [prompt EXCEPT ![r] = None]
    /\ lease' = [lease EXCEPT ![r] = None]
    /\ stored' \subseteq stored
    /\ Lent' \subseteq stored'

Reset ==
    /\ \A r \in Slots : prompt[r] = None
    /\ stored' = {}
    /\ UNCHANGED <<prompt, lease>>

Next ==
    \/ \E r \in Slots : (\E t \in Prompts : Acquire(r, t)) \/ Publish(r) \/ Release(r)
    \/ Reset

Spec == Init /\ [][Next]_vars

=============================================================================
