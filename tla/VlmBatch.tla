------------------------------ MODULE VlmBatch ------------------------------
(***************************************************************************)
(* The v1 vision worker: VlmContinuousBatchScheduler, which keeps one      *)
(* mlx_vlm BatchGenerator busy, its two caches (prompt caches by exact     *)
(* prompt and images, "apc", and prompt embeddings by image, "vision") and *)
(* CacheBudgetManager, which makes both give way to the running batches of *)
(* the text and the vision scheduler.  The generator is external.          *)
(*                                                                         *)
(* A request id of the model stands for one request after another: the     *)
(* gateway never repeats an id.  One byte is one token's row.              *)
(***************************************************************************)
EXTENDS PromptCache

CONSTANTS
    Requests,          \* request ids
    Prompt(_),         \* full_prompt_tokens of a request
    Image(_),          \* its image, "" if it has none
    SamplingKey(_),    \* (temperature, top_p) of a request
    MaxTokens,         \* max_tokens of every request
    PromptConcurrency, \* prompt_concurrency
    DecodeConcurrency, \* decode_concurrency
    Budget,            \* total_budget_bytes of the manager
    VisionEntries,     \* vision_feature_cache_max_entries
    VisionBytes,       \* vision_feature_cache_max_bytes
    SequenceBytes,     \* what one sequence adds to prompt_cache_nbytes
    TextBytes          \* what the text scheduler may report for its batch

(* _generator_sampling_key without a generator: None, which is no key. *)
NoKey == "none"

ASSUME VlmBatchAssumption ==
    /\ \A r \in Requests : Len(Prompt(r)) \in Nat /\ SamplingKey(r) # NoKey
    /\ MaxTokens \in Nat \ {0} /\ VisionEntries \in Nat \ {0}
    /\ PromptConcurrency \in Nat \ {0} /\ DecodeConcurrency \in Nat \ {0}
    /\ {Budget, VisionBytes, SequenceBytes} \subseteq Nat
    /\ TextBytes \subseteq Nat /\ 0 \in TextBytes

VARIABLES
    up,        \* the worker process runs
    pending,   \* _pending
    active,    \* requests in _active (a request is its own uid)
    genKey,    \* _generator_sampling_key, NoKey without a generator
    holds,     \* requests the generator works for (external)
    count,     \* generated_tokens, their number
    kept,      \* [apc, vision]: the two stores, oldest entry first
    charged,   \* [text, vlm]: _active_batch_bytes of the manager
    marked,    \* cancelled_request_ids of open requests (reader thread)
    answered   \* requests with their one terminal message (history)

vars == <<up, pending, active, genKey, holds, count, kept, charged, marked,
          answered>>

Queued == ToSet(pending)
Open == Queued \union active
Keys == {SamplingKey(r) : r \in Requests}

Init ==
    /\ up = TRUE
    /\ pending = <<>> /\ active = {} /\ genKey = NoKey /\ holds = {}
    /\ count = [r \in Requests |-> 0]
    /\ kept = [apc |-> <<>>, vision |-> <<>>]
    /\ charged = [text |-> 0, vlm |-> 0]
    /\ marked = {}
    /\ answered = {}

-----------------------------------------------------------------------------
(* The caches and their budget. *)

(* What a loop over s that passes over what is not in S is left with. *)
Only(s, S) ==
    FoldLeft(LAMBDA t, x : IF x \in S THEN Append(t, x) ELSE t, <<>>, s)

(* _vlm_apc_cache_key: an entry serves the same prompt and images only. *)
ApcKey(r) == <<Prompt(r), Image(r)>>

(* A vision entry: the embedded prompt of a request with an image. *)
Snapshot(r) == [image |-> Image(r), prompt |-> Prompt(r)]
VisionUsed(vision) == Total([i \in 1..Len(vision) |-> Len(vision[i].prompt)])

Used(k) == Bytes(k.apc) + VisionUsed(k.vision)
(* Mutant: the caches may fill what the text batch already uses. *)
TargetForgetsText(c) == Max({0, Budget - c.vlm})
Target(c) == Max({0, Budget - c.text - c.vlm})

(* n evictions, one store after the other as long as both have entries. *)
Evicted(k, n) ==
    LET a == Len(k.apc)
        v == Len(k.vision)
        i == IF n <= 2 * Min({a, v}) THEN (n + 1) \div 2
             ELSE IF a > v THEN n - v ELSE a IN
    [apc |-> SubSeq(k.apc, i + 1, a), vision |-> SubSeq(k.vision, n - i + 1, v)]

(* enforce: no more evictions than the target asks for. *)
Enforce(k, c) ==
    LET all == Len(k.apc) + Len(k.vision)
        enough == {n \in 0..all : Used(Evicted(k, n)) <= Target(c)}
    IN Evicted(k, IF enough = {} THEN all ELSE Min(enough))

(* _VlmVisionFeatureCache.get: same image and same prompt. *)
Hits(vision, r) ==
    {i \in 1..Len(vision) :
       vision[i].image = Image(r) /\ vision[i].prompt = Prompt(r)}

(* put: the image's entry is replaced, the oldest goes when it is full. *)
Put(vision, r) ==
    LET others == Only(vision, {e \in ToSet(vision) : e.image # Image(r)})
        room == IF Len(others) < VisionEntries THEN others ELSE Tail(others) IN
    IF Len(Prompt(r)) > VisionBytes THEN vision
    ELSE Append(room, Snapshot(r))

(* A get that hits makes the entry the youngest (external). *)
Touch(vision, i) == Append(RemoveAt(vision, i), vision[i])

(***************************************************************************)
(* _prepare_request up to the job it returns: what becomes of the caches.  *)
(***************************************************************************)
Prepared(k, c, r) ==
    LET hits == Hits(k.vision, r) IN
    IF Image(r) = "" THEN k
    ELSE IF hits # {}
    THEN [k EXCEPT !.vision = Touch(k.vision, CHOOSE i \in hits : TRUE)]
    ELSE Enforce([k EXCEPT !.vision = Put(k.vision, r)], c)

(* _finish: the cache of the prompt is remembered, within the budget. *)
Remembered(k, c, r) ==
    Enforce([k EXCEPT !.apc = Remember(k.apc, ApcKey(r), Prompt(r), Prompt(r))],
            c)

(* prompt_cache_nbytes of a generator that works for these (external). *)
GeneratorBytes(rs) == SequenceBytes * Cardinality(rs)

-----------------------------------------------------------------------------
(* submit: always queued, whatever its sampling parameters. *)
Submit(r) ==
    /\ up /\ r \notin Open
    /\ pending' = Append(pending, r)
    /\ answered' = answered \ {r}
    /\ UNCHANGED <<up, active, genKey, holds, count, kept, charged, marked>>

(* The reader thread sees a cancel and notes it before the loop does. *)
Mark(r) ==
    /\ up /\ r \in Open \ marked
    /\ marked' = marked \union {r}
    /\ UNCHANGED <<up, pending, active, genKey, holds, count, kept, charged,
                   answered>>

(* The job of an answered request is dropped. *)
Leave(rs) ==
    /\ answered' = answered \union rs
    /\ count' = [r \in Requests |-> IF r \in rs THEN 0 ELSE count[r]]
    /\ marked' = marked \ rs

(* Mutant: cancel forgets the request but not its sequence in the generator. *)
CancelKeepsSequence(r) ==
    /\ up /\ r \in Open \intersect marked
    /\ pending' = RemoveFirst(pending, r)
    /\ active' = active \ {r}
    /\ Leave({r})
    /\ UNCHANGED <<up, genKey, holds, kept, charged>>

(* cancel, called by the loop: the generator stays, even an empty one, and *)
(* the bytes charged for the batch stay until the next tick.               *)
Cancel(r) ==
    /\ up /\ r \in Open \intersect marked
    /\ pending' = RemoveFirst(pending, r)
    /\ active' = active \ {r}
    /\ holds' = holds \ {r}
    /\ Leave({r})
    /\ UNCHANGED <<up, genKey, kept, charged>>

(* The text scheduler reports its batch, and stored caches give way. *)
TextBatch(n) ==
    /\ up /\ n # charged.text
    /\ charged' = [charged EXCEPT !.text = n]
    /\ kept' = Enforce(kept, charged')
    /\ UNCHANGED <<up, pending, active, genKey, holds, count, marked, answered>>

-----------------------------------------------------------------------------
(* The batch being formed runs under the key of the generator there is,    *)
(* else under the oldest request's.                                        *)
BatchKey == IF genKey # NoKey THEN genKey ELSE SamplingKey(Head(pending))

(***************************************************************************)
(* _admit_pending goes on: nothing is admitted while a batch runs under    *)
(* another sampling key than the oldest request's.                         *)
(***************************************************************************)
Admits(running) ==
    /\ pending # <<>>
    /\ Cardinality(running) < DecodeConcurrency
    /\ running # {} => SamplingKey(Head(pending)) = BatchKey

(* The requests of that key, whatever stands before them in the queue;     *)
(* _prepare_request gives up on a cancelled and raises for a bad one.      *)
Matching == Only(pending, {r \in Requests : SamplingKey(r) = BatchKey})
Sound(bad) == Only(Matching, Requests \ (marked \union bad))
Limit(running) ==
    Min({PromptConcurrency, DecodeConcurrency - Cardinality(running)})

Batch(running, bad) ==
    IF Admits(running)
    THEN SubSeq(Sound(bad), 1, Min({Limit(running), Len(Sound(bad))}))
    ELSE <<>>

(* What the loop has taken from the queue when the batch is complete. *)
Taken(running, bad) ==
    LET batch == Batch(running, bad) IN
    IF ~Admits(running) THEN {}
    ELSE IF Len(batch) < Limit(running) THEN ToSet(Matching)
    ELSE ToSet(SubSeq(Matching, 1, SelectInSeq(Matching,
                                     LAMBDA r : r = Last(batch))))

(* Mutant: only the requests that were passed over are kept. *)
RestOnlySkipped(taken) ==
    LET seen == {i \in 1..Len(pending) : pending[i] \in taken} IN
    IF seen = {} THEN pending
    ELSE Only(SubSeq(pending, 1, Max(seen)), Requests \ taken)

(* The requests passed over, and behind them those the loop never reached. *)
Rest(taken) == Only(pending, Requests \ taken)

(***************************************************************************)
(* tick.  _step_generator: responses of the generator, in order; one that  *)
(* is last finishes its request.  Then an idle generator is closed, and    *)
(* requests are admitted; an empty batch closes the generator too if       *)
(* nothing runs.  The budget is enforced at each change.                   *)
(***************************************************************************)
Tick(responses, bad) ==
    LET gone == {x.uid : x \in {y \in ToSet(responses) : y.last}}
        running == active \ gone
        stepped == IF active = {} THEN charged
                   ELSE [charged EXCEPT !.vlm = GeneratorBytes(running)]
        batch == Batch(running, bad)
        taken == Taken(running, bad)
        now == running \union ToSet(batch)
        moved == IF now = {} \/ batch # <<>>
                 THEN [stepped EXCEPT !.vlm = GeneratorBytes(now)] ELSE stepped
        left == (gone \union taken) \ now IN
    /\ up
    /\ genKey # NoKey \/ pending # <<>>
    /\ pending' = Rest(taken)
    /\ active' = now
    /\ holds' = (holds \ gone) \union ToSet(batch)
    /\ genKey' = IF now = {} THEN NoKey ELSE BatchKey
    /\ charged' = moved
    /\ kept' = Enforce(FoldLeft(LAMBDA k, r : Prepared(k, stepped, r),
                         FoldLeft(LAMBDA k, x :
                                    IF x.cache THEN Remembered(k, stepped, x.uid)
                                    ELSE k,
                                  Enforce(kept, stepped), responses),
                         batch), moved)
    /\ answered' = answered \union left
    /\ marked' = marked \ left
    /\ count' = [r \in Requests |->
                   IF r \in left THEN 0
                   ELSE IF \E x \in ToSet(responses) : x.uid = r THEN count[r] + 1
                   ELSE count[r]]
    /\ UNCHANGED up

(* The model does not load, or a call of the generator raises. *)
GeneratorRaises ==
    /\ up
    /\ genKey # NoKey \/ pending # <<>>
    /\ up' = FALSE
    /\ UNCHANGED <<pending, active, genKey, holds, count, kept, charged,
                   marked, answered>>

(* A benchmark reset of an idle worker clears the prompt caches only. *)
Reset ==
    /\ up /\ Open = {} /\ kept.apc # <<>>
    /\ kept' = [kept EXCEPT !.apc = <<>>]
    /\ UNCHANGED <<up, pending, active, genKey, holds, count, charged, marked,
                   answered>>

Response(r) == {x \in [uid : {r}, last : BOOLEAN, cache : BOOLEAN] :
                  /\ count[r] + 1 = MaxTokens => x.last
                  /\ x.cache => x.last}
Responses ==
    {s \in SeqOf(UNION {Response(r) : r \in active \intersect holds},
                 Cardinality(active)) :
       \A i, j \in 1..Len(s) : i # j => s[i].uid # s[j].uid}

(* At most one of the requests prepared in a tick is bad. *)
Bad == {{}} \union {{r} : r \in Queued}

Next ==
    \/ \E r \in Requests : Submit(r) \/ Mark(r) \/ Cancel(r)
    \/ \E responses \in Responses, bad \in Bad : Tick(responses, bad)
    \/ \E n \in TextBytes : TextBatch(n)
    \/ GeneratorRaises
    \/ Reset

Spec == Init /\ [][Next]_vars

(***************************************************************************)
(* The worker goes on ticking, and now and then the generator has a token  *)
(* for every sequence it holds: weak fairness of such a tick, written out  *)
(* with its enabling condition.  A tick without a batch counts when it     *)
(* forms one, closes the generator or answers a bad request.               *)
(***************************************************************************)
TickDue == up /\ Open # {}
FullTick ==
    /\ \A r \in active : count'[r] = count[r] + 1 \/ r \in answered' \ marked
    /\ active = {} => \/ active' # {} \/ genKey' # genKey
                      \/ (answered' \ answered) \ marked # {}
FairSpec == Spec /\ ([]<>~TickDue \/ []<><<FullTick>>_vars)

-----------------------------------------------------------------------------
TypeOK ==
    /\ up \in BOOLEAN
    /\ pending \in Seq(Requests) /\ {active, holds, marked} \subseteq SUBSET Requests
    /\ genKey \in Keys \union {NoKey}
    /\ count \in [Requests -> 0..MaxTokens]
    /\ \A e \in ToSet(kept.apc) : \E r \in Requests :
         e.ns = ApcKey(r) /\ e.tokens = Prompt(r)
    /\ \A e \in ToSet(kept.vision) : \E r \in Requests : e = Snapshot(r)
    /\ charged.text \in TextBytes /\ charged.vlm \in Nat
    /\ answered \subseteq Requests

(***************************************************************************)
(* The generator works for exactly the requests in _active, all of them    *)
(* under its one sampling key and at most decode_concurrency; there is no  *)
(* batch without a generator; a request is queued or active, once, until   *)
(* it has been answered.                                                   *)
(***************************************************************************)
GeneratorAgrees ==
    /\ TypeOK
    /\ holds = active
    /\ Cardinality(active) <= DecodeConcurrency
    /\ \A r \in active : SamplingKey(r) = genKey
    /\ Queued \intersect active = {} /\ Cardinality(Queued) = Len(pending)
    /\ Open \intersect answered = {}

(***************************************************************************)
(* The budget holds for what is really in memory: stored caches together   *)
(* with the batches that run stay within it, or nothing is stored.  The    *)
(* stores keep their own limits as well.                                   *)
(***************************************************************************)
BudgetKept ==
    /\ \/ Used(kept) + charged.text + GeneratorBytes(holds) <= Budget
       \/ Used(kept) = 0
    /\ Within(kept.apc)
    /\ Len(kept.vision) <= VisionEntries
    /\ \A i, j \in 1..Len(kept.vision) :
         kept.vision[i].image = kept.vision[j].image => i = j

(***************************************************************************)
(* A request waits for ever only if requests behind the head of the queue  *)
(* keep being admitted before it, those of the generator's sampling key.   *)
(***************************************************************************)
Overtakes ==
    /\ pending # <<>> /\ pending' # <<>>
    /\ Head(pending') = Head(pending)
    /\ active' \ active # {}
ServedUnlessOvertaken ==
    \/ []<><<Overtakes>>_vars
    \/ \A r \in Requests : r \in Open ~> (r \in answered \/ ~up)

=============================================================================
