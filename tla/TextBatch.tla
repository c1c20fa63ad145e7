----------------------------- MODULE TextBatch -----------------------------
(***************************************************************************)
(* The v1 text worker: MlxWorkerEngine, its one-shot batch backend         *)
(* (MlxBatchCompletionBackend) and ContinuousBatchScheduler, which keeps   *)
(* one mlx_lm BatchGenerator full.  The generator is external: a call of   *)
(* next_generated returns a token for some of the sequences it holds, or   *)
(* for none, or it raises, which ends the worker.                          *)
(*                                                                         *)
(* Prompts and answers are token sequences because the prompt cache keys   *)
(* on them.  A token of HalfTokens is the first part of a character that   *)
(* the next token completes: until then it decodes to a replacement sign.  *)
(***************************************************************************)
EXTENDS PromptCache

CONSTANTS
    Requests,          \* request ids
    Streaming,         \* the requests that ask for a stream
    Prompts,           \* the tokenized prompts
    Tokens,            \* what the model may sample
    HalfTokens,        \* tokens that do not decode on their own
    MaxTokens,         \* max_tokens of every request
    MaxPromptTokens,   \* max_prompt_tokens of every request
    PromptConcurrency, \* prompt_concurrency
    DecodeConcurrency, \* decode_concurrency
    AllTokens          \* the generator's responses have all_tokens

ASSUME TextBatchAssumption ==
    /\ Streaming \subseteq Requests /\ HalfTokens \subseteq Tokens
    /\ Prompts \subseteq Seq(Tokens) \ {<<>>}
    /\ MaxTokens \in Nat \ {0} /\ MaxPromptTokens \in Nat
    /\ PromptConcurrency \in Nat \ {0} /\ DecodeConcurrency \in Nat \ {0}
    /\ AllTokens \in BOOLEAN

VARIABLES
    continuous, \* the scheduler serves, not the one-shot backend
    up,         \* the worker process runs
    store,      \* entries of the engine's PromptCacheStore
    pending,    \* _pending
    active,     \* requests in _active (a request is its own uid)
    generator,  \* _generator exists
    holds,      \* requests the generator works for (external)
    prompt,     \* prompt_tokens of each queued or active request
    hit,        \* cached_prompt of each queued or active request
    out,        \* generated_tokens
    rendered,   \* rendered_text
    sent,       \* the text streamed to each request (history)
    answer      \* the terminal message of each request (history)

vars == <<continuous, up, store, pending, active, generator, holds, prompt,
          hit, out, rendered, sent, answer>>
jobVars == <<prompt, hit>>
textVars == <<out, rendered, sent>>

Answers == {"stop", "length", "cancelled", "error"}
Eos == "eos"
Queued == ToSet(pending)
Open == Queued \union active
Fresh == {r \in Requests : r \notin Open /\ answer[r] = "none"}

(* MlxWorkerEngine.__post_init__ and the scheduler's __init__. *)
Init ==
    /\ continuous \in BOOLEAN
    /\ up = TRUE
    /\ store = <<>>
    /\ pending = <<>> /\ active = {} /\ generator = FALSE /\ holds = {}
    /\ prompt = [r \in Requests |-> <<>>]
    /\ hit = [r \in Requests |-> NoMatch]
    /\ out = [r \in Requests |-> <<>>]
    /\ rendered = [r \in Requests |-> <<>>]
    /\ sent = [r \in Requests |-> <<>>]
    /\ answer = [r \in Requests |-> "none"]

(* _validate_token_limits. *)
Acceptable(p) == Len(p) <= MaxPromptTokens

(* A hit on the whole prompt leaves nothing to run, so it is not used. *)
Usable(match, p) == IF match.tokens = p THEN NoMatch ELSE match

(* tokenizer.decode *)
Decode(tokens) ==
    [i \in 1..Len(tokens) |->
       IF i = Len(tokens) /\ tokens[i] \in HalfTokens THEN "?" ELSE tokens[i]]

(* The rows in a finished sequence's cache: what was reused, then the rest *)
(* of the prompt and every sampled token (external).                       *)
CacheRows(match, p, sampled) ==
    match.rows \o SubSeq(p, Len(match.tokens) + 1, Len(p)) \o sampled

(***************************************************************************)
(* complete_many with one request, the one-shot path: look the prompt up,  *)
(* generate to the end, remember the cache under the prompt.  Text comes   *)
(* with the answer; nothing is streamed.                                   *)
(***************************************************************************)
CompleteMany(r, p, sampled) ==
    LET stopped == Last(sampled) = Eos
        match == Usable(Lookup(store, <<>>, p), p)
        generated == IF stopped THEN Front(sampled) ELSE sampled
        sequence == p \o (IF AllTokens THEN sampled ELSE generated)
        value == ForPrompt(CacheRows(match, p, sampled), sequence, p) IN
    /\ up /\ ~continuous
    /\ r \in Fresh /\ Acceptable(p)
    /\ stopped \/ Len(sampled) = MaxTokens
    /\ Eos \notin ToSet(Front(sampled))
    /\ store' = Remember(store, <<>>, p, value)
    /\ answer' = [answer EXCEPT ![r] = IF stopped THEN "stop" ELSE "length"]
    /\ UNCHANGED <<continuous, up, pending, active, generator, holds, jobVars,
                   textVars>>

(* The request is invalid or the generator stalls (three empty polls): the *)
(* worker answers with an error and remembers nothing.                     *)
CompleteFails(r) ==
    /\ up /\ ~continuous
    /\ r \in Fresh
    /\ answer' = [answer EXCEPT ![r] = "error"]
    /\ UNCHANGED <<continuous, up, store, pending, active, generator, holds,
                   jobVars, textVars>>

(***************************************************************************)
(* submit: an invalid request is answered, any other is queued.  The cache *)
(* is looked up now, not when the request is admitted.                     *)
(***************************************************************************)
Submit(r, p) ==
    /\ up /\ continuous
    /\ r \in Fresh
    /\ IF Acceptable(p)
       THEN /\ pending' = Append(pending, r)
            /\ prompt' = [prompt EXCEPT ![r] = p]
            /\ hit' = [hit EXCEPT ![r] = Lookup(store, <<>>, p)]
            /\ UNCHANGED answer
       ELSE /\ answer' = [answer EXCEPT ![r] = "error"]
            /\ UNCHANGED <<pending, jobVars>>
    /\ UNCHANGED <<continuous, up, store, active, generator, holds, textVars>>

(* The job of an answered request is dropped. *)
Forget(rs) ==
    /\ prompt' = [r \in Requests |-> IF r \in rs THEN <<>> ELSE prompt[r]]
    /\ hit' = [r \in Requests |-> IF r \in rs THEN NoMatch ELSE hit[r]]

(* Mutant: cancel forgets the request but not its sequence in the generator. *)
CancelKeepsRunning(r) ==
    /\ up /\ r \in Open
    /\ pending' = RemoveFirst(pending, r)
    /\ active' = active \ {r}
    /\ answer' = [answer EXCEPT ![r] = "cancelled"]
    /\ Forget({r})
    /\ UNCHANGED <<continuous, up, store, generator, holds, textVars>>

(* cancel: the request leaves the queue, or _active and the generator. *)
Cancel(r) ==
    /\ up /\ r \in Open
    /\ pending' = RemoveFirst(pending, r)
    /\ active' = active \ {r}
    /\ holds' = holds \ {r}
    /\ answer' = [answer EXCEPT ![r] = "cancelled"]
    /\ Forget({r})
    /\ UNCHANGED <<continuous, up, store, generator, textVars>>

(* Mutant: the whole text is sent each time. *)
DeltaAlways(old, decoded) == decoded

(* _emit_delta: what is new, or everything if the old text changed. *)
Delta(old, decoded) ==
    IF IsPrefix(old, decoded) THEN SubSeq(decoded, Len(old) + 1, Len(decoded))
    ELSE decoded

(***************************************************************************)
(* The end of _finish: the key is the tokens of the reused prefix followed *)
(* by the whole prompt; rows beyond the length of the key are trimmed.     *)
(***************************************************************************)
Remembered(s, r, sampled) ==
    LET reused == Usable(hit[r], prompt[r])
        key == reused.tokens \o prompt[r]
        sequence == IF AllTokens THEN prompt[r] \o sampled ELSE key
        rows == CacheRows(reused, prompt[r], sampled)
    IN Remember(s, <<>>, key, ForPrompt(rows, sequence, key))

Finishes(x) == x.token = Eos \/ Len(out[x.uid]) + 1 = MaxTokens
(* A stop token is not part of the text. *)
Generated(x) ==
    IF x.token = Eos THEN out[x.uid] ELSE Append(out[x.uid], x.token)

(* _step_generator: responses of the generator, in its order. *)
StepGenerator(responses) ==
    LET all == ToSet(responses)
        ending == {x \in all : Finishes(x)}
        gone == {x.uid : x \in ending}
        Of(r) == CHOOSE x \in all : x.uid = r
        uids == {x.uid : x \in all}
        texts == {r \in uids : Of(r).token # Eos} IN
    /\ out' = [r \in Requests |-> IF r \in uids THEN Generated(Of(r)) ELSE out[r]]
    /\ rendered' = [r \in Requests |->
                      IF r \in texts \/ r \in gone \ Streaming
                      THEN Decode(out'[r]) ELSE rendered[r]]
    /\ sent' = [r \in Requests |->
                  IF r \in texts \intersect Streaming
                  THEN sent[r] \o Delta(rendered[r], Decode(out'[r]))
                  ELSE sent[r]]
    /\ store' = FoldLeft(LAMBDA s, x :
                           IF Finishes(x)
                           THEN Remembered(s, x.uid, Append(out[x.uid], x.token))
                           ELSE s,
                         store, responses)
    /\ answer' = [r \in Requests |->
                    IF r \notin gone THEN answer[r]
                    ELSE IF Of(r).token = Eos THEN "stop" ELSE "length"]
    /\ Forget(gone)

(* Free places once the requests in gone have left _active. *)
Room(gone) == DecodeConcurrency - Cardinality(active \ gone)

(* Mutant: the first request that does not fit leaves the queue as well. *)
AdmitPopsFirst(gone) ==
    LET n == Min({Len(pending), PromptConcurrency, Room(gone)})
        batch == ToSet(SubSeq(pending, 1, n)) IN
    /\ generator' = (generator \/ pending # <<>>)
    /\ pending' = SubSeq(pending, n + 2, Len(pending))
    /\ active' = (active \ gone) \union batch
    /\ holds' = (holds \ gone) \union batch

(***************************************************************************)
(* _admit_pending after the requests in gone have left: a generator if     *)
(* there is none, then the oldest requests that fit.                       *)
(***************************************************************************)
AdmitPending(gone) ==
    LET n == Min({Len(pending), PromptConcurrency, Room(gone)})
        batch == ToSet(SubSeq(pending, 1, n)) IN
    /\ generator' = (generator \/ pending # <<>>)
    /\ pending' = SubSeq(pending, n + 1, Len(pending))
    /\ active' = (active \ gone) \union batch
    /\ holds' = (holds \ gone) \union batch

(* tick: what the generator has, then admission. *)
Tick(responses) ==
    LET gone == {x.uid : x \in {y \in ToSet(responses) : Finishes(y)}} IN
    /\ up /\ continuous
    /\ generator \/ pending # <<>>
    /\ StepGenerator(responses)
    /\ AdmitPending(gone)
    /\ UNCHANGED <<continuous, up>>

(* next_generated, insert or a check of its result raises: the loop ends. *)
GeneratorRaises ==
    /\ up /\ continuous
    /\ generator \/ pending # <<>>
    /\ up' = FALSE
    /\ UNCHANGED <<continuous, store, pending, active, generator, holds,
                   jobVars, textVars, answer>>

(* A benchmark reset clears the store of an idle worker. *)
Reset ==
    /\ up /\ Open = {} /\ store # <<>>
    /\ store' = <<>>
    /\ UNCHANGED <<continuous, up, pending, active, generator, holds, jobVars,
                   textVars, answer>>

Samples == UNION {[1..n -> Tokens] : n \in 1..MaxTokens}
Responses == {s \in SeqOf([uid : active \intersect holds, token : Tokens],
                          DecodeConcurrency) :
                \A i, j \in 1..Len(s) : i # j => s[i].uid # s[j].uid}

Next ==
    \/ \E r \in Requests :
         \/ \E p \in Prompts :
              Submit(r, p) \/ \E s \in Samples : CompleteMany(r, p, s)
         \/ CompleteFails(r)
         \/ Cancel(r)
    \/ \E responses \in Responses : Tick(responses)
    \/ GeneratorRaises
    \/ Reset

Spec == Init /\ [][Next]_vars

(***************************************************************************)
(* The worker goes on ticking, and now and then the generator has a token  *)
(* for every sequence it holds: weak fairness of such a tick, written out  *)
(* with its enabling condition RoundDue.                                   *)
(***************************************************************************)
RoundDue == up /\ continuous /\ Open # {}
Round ==
    IF active = {} THEN active' # {}
    ELSE \A r \in active : out'[r] # out[r] \/ answer'[r] # "none"

FairSpec == Spec /\ ([]<>~RoundDue \/ []<><<Round>>_vars)

-----------------------------------------------------------------------------
Texts == Tokens \union {"?"}
TypeOK ==
    /\ {continuous, up, generator} \subseteq BOOLEAN
    /\ store \in Seq(Entries({<<>>}, Seq(Tokens), Seq(Tokens)))
    /\ pending \in Seq(Requests)
    /\ active \subseteq Requests /\ holds \subseteq Requests
    /\ prompt \in [Requests -> Prompts \union {<<>>}]
    /\ \A r \in Requests : hit[r].tokens \in Seq(Tokens)
    /\ out \in [Requests -> Seq(Tokens \ {Eos})]
    /\ rendered \in [Requests -> Seq(Texts)] /\ sent \in [Requests -> Seq(Texts)]
    /\ answer \in [Requests -> Answers \union {"none"}]

(***************************************************************************)
(* Scheduler and generator agree: the generator works for exactly the      *)
(* requests in _active, so that no cancelled or finished request keeps a   *)
(* place in the batch; a request is queued or active, once, until it has   *)
(* been answered; and no more than decode_concurrency are active.          *)
(***************************************************************************)
GeneratorAgrees ==
    /\ TypeOK
    /\ holds = active
    /\ Cardinality(active) <= DecodeConcurrency
    /\ Queued \intersect active = {} /\ Cardinality(Queued) = Len(pending)
    /\ \A r \in Open : answer[r] = "none"

(***************************************************************************)
(* A streaming client holds the text: what was sent ends with the text     *)
(* rendered so far.  Nothing else was sent before it unless a token stood  *)
(* for half a character, and the text begins anew only right after such a  *)
(* half, never after a character that was whole.                           *)
(***************************************************************************)
StreamSound ==
    \A r \in Streaming :
      LET before == Len(sent[r]) - Len(rendered[r]) IN
      /\ IsSuffix(rendered[r], sent[r])
      /\ before # 0 => sent[r][before] = "?"
      /\ ToSet(out[r]) \intersect HalfTokens = {} => sent[r] = rendered[r]

(***************************************************************************)
(* The store stays within its limits, holds no key twice, and every entry  *)
(* has as many rows as tokens in its key.  What a request was given when   *)
(* it was submitted stays right while it waits, whatever the store evicts, *)
(* replaces or drops: a prefix of its prompt, with a row for every token.  *)
(***************************************************************************)
StoreSound ==
    /\ Within(store)
    /\ \A i, j \in 1..Len(store) : store[i].tokens = store[j].tokens => i = j
    /\ AllTokens => \A i \in 1..Len(store) :
                      Len(store[i].rows) = Len(store[i].tokens)
    /\ \A r \in Open :
         /\ IsPrefix(hit[r].tokens, prompt[r])
         /\ AllTokens => Len(hit[r].rows) = Len(hit[r].tokens)

(***************************************************************************)
(* A cached prompt is the cache of its key: what a later request reuses    *)
(* was computed from the tokens it stands for.                             *)
(***************************************************************************)
CacheOfKey == \A i \in 1..Len(store) : store[i].rows = store[i].tokens

(***************************************************************************)
(* Every queued or active request is answered, as long as the worker runs  *)
(* and the generator serves what it holds.                                 *)
(***************************************************************************)
EveryRequestAnswered ==
    \A r \in Requests : r \in Open ~> (answer[r] # "none" \/ ~up)

=============================================================================
