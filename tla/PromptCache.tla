---------------------------- MODULE PromptCache ----------------------------
(***************************************************************************)
(* PromptCacheStore and CacheBudgetManager of mlx_worker.batching: prompt  *)
(* caches of finished requests, kept for requests that begin with the same *)
(* tokens.  A store is a sequence of entries, oldest first, and every      *)
(* operator here maps a store to the store a method leaves behind.  An     *)
(* entry's rows are the tokens its cache was really computed from, one     *)
(* byte each: the code never looks at them.                                *)
(***************************************************************************)
EXTENDS Naturals, Sequences, SequencesExt, FiniteSetsExt

CONSTANTS
    MaxEntries, \* max_entries
    MaxBytes,   \* max_bytes
    CanTrim     \* mlx_lm's trim_prompt_cache accepts this model's caches

ASSUME PromptCacheAssumption ==
    MaxEntries \in Nat /\ MaxBytes \in Nat /\ CanTrim \in BOOLEAN

NoMatch == [kind |-> "none", tokens |-> <<>>, rows |-> <<>>]
Entry(ns, tokens, rows) == [ns |-> ns, tokens |-> tokens, rows |-> rows]
Entries(N, T, R) == [ns : N, tokens : T, rows : R]

Total(sizes) == FoldLeft(LAMBDA n, size : n + size, 0, sizes)
Bytes(store) == Total([i \in 1..Len(store) |-> Len(store[i].rows)])

(* trim_prompt_cache on a copy: the last n rows go. *)
Trim(rows, n) == SubSeq(rows, 1, Len(rows) - n)

CommonPrefix(s, t) ==
    Max({n \in 0..Min({Len(s), Len(t)}) : SubSeq(s, 1, n) = SubSeq(t, 1, n)})

(* A trimmed cache leaves at least one token of the prompt to run. *)
Reusable(common, prompt) == Min({common, Len(prompt) - 1})

(***************************************************************************)
(* What lookup may reuse of one entry: all of it if it is the prompt or a  *)
(* prefix of it, else what is left when its tail is trimmed away.          *)
(***************************************************************************)
Candidate(e, ns, prompt) ==
    LET common == CommonPrefix(e.tokens, prompt)
        n == Reusable(common, prompt) IN
    IF e.ns # ns THEN NoMatch
    ELSE IF e.tokens = prompt
    THEN [kind |-> "exact", tokens |-> prompt, rows |-> e.rows]
    ELSE IF Len(e.tokens) < Len(prompt) /\ common = Len(e.tokens)
    THEN [kind |-> "shorter", tokens |-> e.tokens, rows |-> e.rows]
    ELSE IF n > 0 /\ CanTrim
    THEN [kind |-> "trimmed", tokens |-> SubSeq(prompt, 1, n),
          rows |-> Trim(e.rows, Len(e.tokens) - n)]
    ELSE NoMatch

(* Newest first; an older candidate wins only if it is longer. *)
Lookup(store, ns, prompt) ==
    FoldLeft(LAMBDA best, e :
               LET c == Candidate(e, ns, prompt) IN
               IF c.kind # "none"
                  /\ (best.kind = "none" \/ Len(c.tokens) > Len(best.tokens))
               THEN c ELSE best,
             NoMatch, Reverse(store))

Within(store) == Len(store) <= MaxEntries /\ Bytes(store) <= MaxBytes

(* remember's loop: the fewest oldest entries that have to go. *)
Fitted(store) ==
    LET n == Min({k \in 0..Len(store) :
                    Within(SubSeq(store, k + 1, Len(store)))})
    IN SubSeq(store, n + 1, Len(store))

(* Mutant: an entry for the same tokens is kept beside the new one. *)
RememberTwice(store, ns, tokens, rows) ==
    IF rows = <<>> \/ Len(rows) > MaxBytes THEN store
    ELSE Fitted(Append(store, Entry(ns, tokens, rows)))

(* remember: no empty and no oversized cache; the entry of the key, if     *)
(* there is one, is popped before the new one goes to the end.             *)
Remember(store, ns, tokens, rows) ==
    LET others == RemoveFirstMatch(store,
                    LAMBDA e : e.ns = ns /\ e.tokens = tokens) IN
    IF rows = <<>> \/ Len(rows) > MaxBytes THEN store
    ELSE Fitted(Append(others, Entry(ns, tokens, rows)))

(* _prompt_cache_for_prompt_tokens: the cache cut back to its prompt. *)
ForPrompt(rows, sequence, prompt) ==
    LET generated == Len(sequence) - Len(prompt) IN
    IF Len(sequence) < Len(prompt) THEN <<>>
    ELSE IF generated = 0 THEN rows
    ELSE IF CanTrim THEN Trim(rows, generated) ELSE <<>>

=============================================================================
