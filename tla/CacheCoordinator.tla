-------------------------- MODULE CacheCoordinator --------------------------
(***************************************************************************)
(* What the two prefix caches of the native engine have in common: the     *)
(* requests that NativeCacheCoordinator (cache_coordinator.py) opens       *)
(* caches for, and the limits, pins and snapshots of a cache that          *)
(* implements its PrefixCache protocol.  The cache itself is modelled by   *)
(* BlockHashPrefix and RadixPrefix.  An entry costs one page, so both      *)
(* limits are numbers of entries.                                          *)
(***************************************************************************)
EXTENDS Integers, Sequences, FiniteSets

CONSTANTS
    Slots,       \* requests that can be in the engine at the same time
    Prompts,     \* the prompts they may have
    PageSize,    \* tokens per page
    MaxEntries,  \* max_entries
    MaxPages     \* max_bytes in pages

ASSUME SlotsAssumption == IsFiniteSet(Slots)
ASSUME PromptsAssumption == IsFiniteSet(Prompts) /\ Prompts \subseteq Seq(Nat) \ {<<>>}
ASSUME LimitsAssumption == PageSize \in Nat \ {0} /\ MaxEntries \in Nat /\ MaxPages \in Nat

VARIABLES
    prompt,    \* the prompt of each request, or None
    length,    \* rows committed to its cache handle
    lease,     \* _active_handles: what its handle was forked from
    pins,      \* pins of each entry
    snaps      \* history: snapshots of each prefix that the backend holds

None == <<>>

(* The prefixes of full pages among the first n tokens of t. *)
PagePrefixes(t, n) ==
    {SubSeq(t, 1, k) : k \in {j \in 1 .. Len(t) : j <= n /\ j % PageSize = 0}}

PagedPrefixes == UNION {PagePrefixes(t, Len(t)) : t \in Prompts}

Limit == IF MaxEntries < MaxPages THEN MaxEntries ELSE MaxPages

(* _publishable_chain_pages *)
Publishable == IF Limit < 1 THEN 1 ELSE Limit

(* Mutant: the pin is not given back. *)
UnpinnedNever(e) == pins

Unpinned(e) == [pins EXCEPT ![e] = IF pins[e] > 0 THEN pins[e] - 1 ELSE 0]

=============================================================================
