---------------------------- MODULE NativeEngine ----------------------------
(***************************************************************************)
(* The request life cycle of the native MLX worker: the command loop of    *)
(* native_mlx/worker.py, NativeRuntime (runtime.py), the continuous        *)
(* scheduler (scheduler.py) in both execution modes, and the executor's    *)
(* dispatch / resolve / discard (executor.py), on one owner thread.        *)
(*                                                                         *)
(* The thread reads every pending command, then runs one tick.  A tick is  *)
(* a fixed sequence of steps (pc); in overlap mode it resolves the step    *)
(* dispatched by the previous tick, dispatches the next one and only then  *)
(* emits the events of the first.                                          *)
(*                                                                         *)
(* Data: a sampled token is "eos" (a terminal token id, which scheduler    *)
(* and runtime both know), "stop" (completes a stop string, which only the *)
(* runtime sees) or "text".  The KV cache is PagedKVCache; here a request  *)
(* has a cache handle or not, and the outstanding reservation is the set   *)
(* of requests whose pages it pins.  Capacity errors are nondeterministic. *)
(***************************************************************************)
EXTENDS Integers, Sequences, FiniteSets

CONSTANTS
    Requests,         \* request ids; the gateway never reuses one
    PromptLength,     \* len(prompt_token_ids) of each request
    MaxTokens,        \* max_tokens of each request
    Priority,         \* priority of each request
    PrefillStep,      \* prefill_step_size
    PrefillBatch,     \* prefill_batch_size
    Modes,            \* execution_mode, prioritize_decode and policy, as configured
    AsyncEvalFails    \* mx.async_eval may raise in the overlap executor

ASSUME RequestsAssumption == IsFiniteSet(Requests)
ASSUME WorkAssumption ==
    /\ PromptLength \in [Requests -> Nat \ {0}]
    /\ MaxTokens \in [Requests -> Nat \ {0}]
    /\ Priority \in [Requests -> Int]
ASSUME ConfigAssumption ==
    /\ PrefillStep \in Nat \ {0}
    /\ PrefillBatch \in Nat \ {0}
    /\ Modes \subseteq [overlap : BOOLEAN, prioritize_decode : BOOLEAN,
                        policy : {"fcfs", "lpm", "lof", "priority"}]
    /\ AsyncEvalFails \in BOOLEAN

VARIABLES
    mode,      \* the mode the worker was started in
    pc,        \* where the owner thread is
    \* NativeContinuousScheduler
    waiting,   \* keys of _waiting
    running,   \* keys of _running
    arrival,   \* arrival_order (0: not submitted)
    round,     \* _scheduler_round, counted as far as a policy can tell
    cursor,    \* prompt_cursor
    generated, \* generated_tokens
    started,   \* requests whose last_token_id is set
    complete,  \* requests with generation_complete
    cancelled, \* requests with cancel_requested
    finished,  \* requests with finish_requested
    held,      \* requests whose cache_handle is allocated and not released
    position,  \* cache_length of the scheduler's state
    inflight,  \* _in_flight: the selected batch, or NoBatch
    batch,     \* the batch this tick selected
    resolved,  \* results of the resolved step that are not emitted yet
    events,    \* this tick's events, per request
    \* MlxGenerationExecutor
    pinned,    \* requests in an outstanding cache reservation
    leaked,    \* those of them whose reservation nobody will end (history)
    rows,      \* rows committed to each request's cache
    \* NativeRuntime
    known,     \* keys of _requests
    accepted,  \* len(completion_token_ids)
    \* history
    outcome    \* the terminal message sent for each request

queueVars == <<waiting, running, held>>
orderVars == <<arrival, round>>
workVars == <<cursor, position, generated, started, complete>>
flagVars == <<cancelled, finished>>
cacheVars == <<pinned, leaked, rows>>
runtimeVars == <<known, accepted, outcome>>
vars == <<mode, pc, queueVars, orderVars, workVars, flagVars, inflight, batch,
          resolved, events, cacheVars, runtimeVars>>

-----------------------------------------------------------------------------
Tokens == {"text", "eos", "stop"}
Outcomes == {"stop", "length", "cancelled", "error"}

(***************************************************************************)
(* A selected batch: the phase of every selected request, the requests the *)
(* executor's preflight turned down, and the tokens sampled for the rest   *)
(* once the batch is executed.                                             *)
(***************************************************************************)
NoBatch == [work |-> <<>>, bad |-> {}, token |-> <<>>]
Selected(b) == DOMAIN b.work
Executed(b) == Selected(b) \ b.bad
Ids == waiting \union running
Overlap == mode.overlap

Init ==
    /\ mode \in Modes
    /\ pc = "read"
    /\ waiting = {} /\ running = {}
    /\ arrival = [r \in Requests |-> 0]
    /\ round = 0
    /\ cursor = [r \in Requests |-> 0]
    /\ generated = [r \in Requests |-> 0]
    /\ started = {} /\ complete = {} /\ cancelled = {} /\ finished = {}
    /\ held = {}
    /\ inflight = NoBatch /\ batch = NoBatch
    /\ resolved = <<>>
    /\ events = [r \in Requests |-> <<>>]
    /\ pinned = {} /\ leaked = {}
    /\ position = [r \in Requests |-> 0]
    /\ rows = [r \in Requests |-> 0]
    /\ known = {}
    /\ accepted = [r \in Requests |-> 0]
    /\ outcome = [r \in Requests |-> "none"]

(* idle: nothing waiting, running or in flight. *)
Idle == Ids = {} /\ inflight = NoBatch

(* The step in flight ends: its reservation is committed or aborted. *)
EndStep ==
    /\ inflight' = NoBatch
    /\ pinned' = pinned \ Executed(inflight)
    /\ UNCHANGED leaked

-----------------------------------------------------------------------------
(* Commands, read between ticks. *)

(* A chat request: runtime.submit, then scheduler.submit. *)
Submit(r) ==
    /\ pc = "read"
    /\ r \notin known /\ outcome[r] = "none"
    /\ known' = known \union {r}
    /\ waiting' = waiting \union {r}
    /\ arrival' = [arrival EXCEPT
                     ![r] = Cardinality({q \in Requests : arrival[q] > 0}) + 1]
    /\ UNCHANGED <<mode, pc, round, running, held, workVars, flagVars, inflight, batch,
                   resolved, events, cacheVars, accepted, outcome>>

(* A chat request that runtime.submit refuses: answered with an error. *)
Refuse(r) ==
    /\ pc = "read"
    /\ r \notin known /\ outcome[r] = "none"
    /\ outcome' = [outcome EXCEPT ![r] = "error"]
    /\ UNCHANGED <<pc, queueVars, mode, orderVars, workVars, flagVars, inflight, batch,
                   resolved, events, cacheVars, known, accepted>>

(* A cancel command: the flag is all that changes until the next tick. *)
Cancel(r) ==
    /\ pc = "read"
    /\ r \in Ids \ cancelled
    /\ cancelled' = cancelled \union {r}
    /\ UNCHANGED <<pc, queueVars, mode, orderVars, workVars, finished, inflight, batch,
                   resolved, events, cacheVars, runtimeVars>>

(***************************************************************************)
(* A benchmark reset with reset_counters: refused, with no effect, unless  *)
(* the engine is idle.  Order of arrival and rounds are counted anew.      *)
(***************************************************************************)
BenchmarkReset ==
    /\ pc = "read"
    /\ Idle /\ known = {}
    /\ arrival' = [r \in Requests |-> 0]
    /\ round' = 0
    /\ UNCHANGED <<mode, pc, queueVars, workVars, flagVars, inflight, batch,
                   resolved, events, cacheVars, runtimeVars>>

(***************************************************************************)
(* The gateway closes the socket: runtime.close discards the step in       *)
(* flight (its reservation is aborted), releases every handle and forgets  *)
(* every request.                                                          *)
(***************************************************************************)
Close ==
    /\ pc = "read"
    /\ pc' = "closed"
    /\ EndStep
    /\ waiting' = {} /\ running' = {}
    /\ held' = held \ Ids
    /\ known' = {}
    /\ UNCHANGED <<mode, orderVars, workVars, flagVars, batch, resolved, events, rows,
                   accepted, outcome>>

-----------------------------------------------------------------------------
(* Steps of a tick. *)

(* The flagged requests that leave the scheduler. *)
Reaped(ids, flagged, protected) == (ids \intersect flagged) \ protected

(* Remove the requests gone from the scheduler and release their handles. *)
Drop(gone) ==
    /\ waiting' = waiting \ gone
    /\ running' = running \ gone
    /\ held' = held \ gone

Token(r) == [kind |-> "token", token |-> resolved[r], nth |-> generated[r]]
Failure == [kind |-> "error"]
Cancellation == [kind |-> "cancelled"]

(* ev with event e appended for the requests rs. *)
AddEvent(ev, rs, e) ==
    [r \in Requests |-> IF r \in rs THEN Append(ev[r], e) ELSE ev[r]]

(* starvation_rounds *)
StarvationRounds == 3

(***************************************************************************)
(* One more round.  Only a scored policy reads the number, and only to see *)
(* whether it is StarvationRounds past some order of arrival: from         *)
(* LastRound on every answer is yes, and counting stops.                   *)
(***************************************************************************)
LastRound == Cardinality(Requests) + StarvationRounds
CountRound ==
    round' = IF mode.policy # "fcfs" /\ round < LastRound THEN round + 1 ELSE round

(***************************************************************************)
(* The start of a tick: requests cancelled (in overlap mode also finished) *)
(* since the last one leave, unless the step in flight still uses them.    *)
(***************************************************************************)
StartTick ==
    /\ pc = "read" /\ ~Idle
    /\ LET protected == Selected(inflight)
           gone == Reaped(Ids, cancelled, protected)
       IN /\ events' = AddEvent([r \in Requests |-> <<>>], gone, Cancellation)
          /\ Drop(gone \union (IF Overlap
                               THEN Reaped(Ids, finished, protected)
                               ELSE {}))
    /\ CountRound
    /\ pc' = "resolve"
    /\ UNCHANGED <<mode, arrival, workVars, flagVars, inflight, batch, resolved,
                   cacheVars, runtimeVars>>

(***************************************************************************)
(* _advance_step_state for an executed batch b.  The requests cancelled or *)
(* finished meanwhile are passed over.                                     *)
(***************************************************************************)
Applied(b) == Selected(b) \ (cancelled \union finished)
Succeeded(b) == Applied(b) \ b.bad
Chunk(r) == IF cursor[r] + PrefillStep < PromptLength[r]
            THEN PrefillStep ELSE PromptLength[r] - cursor[r]
Yields(b) == {r \in Succeeded(b) :
                b.work[r] = "decode" \/ cursor[r] + Chunk(r) = PromptLength[r]}

(* The caches after b is committed, the passed-over requests' included. *)
Committed(b) ==
    [r \in Requests |->
        IF r \notin Executed(b) THEN rows[r]
        ELSE rows[r] + (IF b.work[r] = "prefill" THEN Chunk(r) ELSE 1)]

(* Mutant: one decode too many is scheduled. *)
CompletesLate(r, count, token) == count > MaxTokens[r] \/ token = "eos"

(* _mark_generated: the scheduler knows that no further token is needed. *)
Completes(r, count, token) == count >= MaxTokens[r] \/ token = "eos"

Advance(b) ==
    /\ position' = [r \in Requests |->
                      IF r \in Succeeded(b) THEN rows'[r] ELSE position[r]]
    /\ cursor' = [r \in Requests |->
                    IF r \in Succeeded(b) /\ b.work[r] = "prefill"
                    THEN cursor[r] + Chunk(r) ELSE cursor[r]]
    /\ generated' = [r \in Requests |->
                       IF r \in Yields(b) THEN generated[r] + 1
                                          ELSE generated[r]]
    /\ started' = started \union Yields(b)
    /\ complete' = IF Overlap
                   THEN complete \union
                          {r \in Yields(b) : Completes(r, generated'[r], b.token[r])}
                   ELSE complete
    /\ finished' = finished \union (Applied(b) \intersect b.bad)

(* No step in flight: always so in serial mode. *)
NothingToResolve ==
    /\ pc = "resolve" /\ inflight = NoBatch
    /\ pc' = "select"
    /\ UNCHANGED <<queueVars, mode, orderVars, workVars, flagVars, inflight, batch,
                   resolved, events, cacheVars, runtimeVars>>

(***************************************************************************)
(* resolve_batch commits the step in flight; then cancelled and finished   *)
(* requests leave, the step no longer protecting them.                     *)
(***************************************************************************)
Resolve(token) ==
    LET b == [inflight EXCEPT !.token = token] IN
    /\ pc = "resolve" /\ inflight # NoBatch
    /\ rows' = Committed(b)
    /\ Advance(b)
    /\ resolved' = [r \in Succeeded(b) |->
                      IF r \in Yields(b) THEN token[r] ELSE "none"]
    /\ events' = AddEvent(AddEvent(events, Applied(b) \intersect b.bad, Failure),
                          Ids \intersect cancelled, Cancellation)
    /\ Drop(Ids \intersect (cancelled \union finished'))
    /\ EndStep
    /\ pc' = "select"
    /\ UNCHANGED <<mode, orderVars, cancelled, batch, runtimeVars>>

(* resolve_batch raises: evaluation or commit failed, the step is aborted. *)
ResolveFails ==
    /\ pc = "resolve" /\ inflight # NoBatch
    /\ finished' = finished \union Selected(inflight)
    /\ events' = AddEvent(AddEvent(events, Selected(inflight), Failure),
                          Ids \intersect cancelled, Cancellation)
    /\ Drop(Ids \intersect (cancelled \union finished'))
    /\ EndStep
    /\ pc' = "select"
    /\ UNCHANGED <<mode, orderVars, workVars, cancelled, batch, resolved, rows,
                   runtimeVars>>

-----------------------------------------------------------------------------
(* _select_work *)
Selectable == Ids \ (cancelled \union finished)
Decodes == (Selectable \intersect running \intersect started) \ complete
Prefills == {r \in Selectable : r \in waiting \/ cursor[r] < PromptLength[r]}
PrefillLimit == IF Decodes # {} /\ mode.prioritize_decode THEN 1 ELSE PrefillBatch

(***************************************************************************)
(* The prompt rows the prefix cache matches for each prefill: never the    *)
(* whole prompt.                                                           *)
(***************************************************************************)
Probes ==
    {f \in [Prefills -> UNION {0 .. PromptLength[r] - 1 : r \in Requests}] :
        \A r \in DOMAIN f : f[r] < PromptLength[r]}

(* FCFS: running requests first, each dictionary in order of arrival. *)
Before(q, r) ==
    \/ q \in running /\ r \in waiting
    \/ (q \in running <=> r \in running) /\ arrival[q] < arrival[r]

(* The scored policies' starvation boost and value of a request. *)
Boosted(r) == round - arrival[r] >= StarvationRounds
PolicyValue(r, probe) ==
    CASE mode.policy = "lpm" -> probe[r]
      [] mode.policy = "lof" -> MaxTokens[r]
      [] mode.policy = "priority" -> Priority[r]

(***************************************************************************)
(* The score of q is the greater: by boost, then value, then age in rounds *)
(* and order of arrival, of which the last alone decides: the earlier      *)
(* request is never the younger one.                                       *)
(***************************************************************************)
Outscores(q, r, probe) ==
    \/ Boosted(q) /\ ~Boosted(r)
    \/ /\ Boosted(q) <=> Boosted(r)
       /\ \/ PolicyValue(q, probe) > PolicyValue(r, probe)
          \/ /\ PolicyValue(q, probe) = PolicyValue(r, probe)
             /\ arrival[q] < arrival[r]

(* The first PrefillLimit prefills in the order of the policy. *)
Picked(probe) ==
    {r \in Prefills :
       Cardinality({q \in Prefills :
                      IF mode.policy = "fcfs" THEN Before(q, r)
                      ELSE Outscores(q, r, probe)}) < PrefillLimit}

(***************************************************************************)
(* Every running decode and the first prefills.  A request that leaves the *)
(* waiting queue acquires its cache, which holds the rows that were        *)
(* matched.                                                                *)
(***************************************************************************)
Select(probe) ==
    LET picked == Picked(probe)
        Supplied(f) == [r \in Requests |-> IF r \in picked \intersect waiting
                                           THEN probe[r] ELSE f[r]]
    IN
    /\ pc = "select"
    /\ waiting' = waiting \ picked
    /\ running' = running \union picked
    /\ held' = held \union picked
    /\ cursor' = Supplied(cursor)
    /\ position' = Supplied(position)
    /\ rows' = Supplied(rows)
    /\ batch' = [NoBatch EXCEPT
                   !.work = [r \in Decodes \union picked |->
                               IF r \in Decodes THEN "decode" ELSE "prefill"]]
    /\ pc' = "dispatch"
    /\ UNCHANGED <<mode, orderVars, generated, started, complete, flagVars, inflight,
                   resolved, events, pinned, leaked, runtimeVars>>

-----------------------------------------------------------------------------
(* Execution of the selected batch. *)

(* The batch is executed to the end within the tick. *)
Synchronous(b) ==
    \/ ~Overlap
    \/ Executed(b) = {}
    \/ \A r \in Selected(b) : b.work[r] = "prefill"

(* Mutant: with nothing to select the tick returns without emitting. *)
NothingSelectedReturns ==
    /\ pc = "dispatch" /\ Selected(batch) = {}
    /\ pc' = "emit"
    /\ resolved' = <<>>
    /\ UNCHANGED <<queueVars, mode, orderVars, workVars, flagVars, inflight, batch,
                   events, cacheVars, runtimeVars>>

(* No work was selected: the tick only emits what was resolved. *)
NothingSelected ==
    /\ pc = "dispatch" /\ Selected(batch) = {}
    /\ pc' = "emit"
    /\ UNCHANGED <<queueVars, mode, orderVars, workVars, flagVars, inflight, batch,
                   resolved, events, cacheVars, runtimeVars>>

(***************************************************************************)
(* Reserve, run, evaluate and commit (or answer preflight errors only):    *)
(* the results wait in batch until those of the resolved step are emitted. *)
(***************************************************************************)
Execute(bad, token) ==
    LET b == [batch EXCEPT !.bad = bad, !.token = token] IN
    /\ pc = "dispatch" /\ Selected(batch) # {}
    /\ Synchronous(b)
    /\ batch' = b
    /\ rows' = Committed(b)
    /\ pc' = "emit"
    /\ UNCHANGED <<queueVars, mode, orderVars, workVars, flagVars, inflight, resolved,
                   events, pinned, leaked, runtimeVars>>

(* dispatch_batch: the step stays in flight until the next tick. *)
Dispatch(bad) ==
    LET b == [batch EXCEPT !.bad = bad] IN
    /\ pc = "dispatch" /\ Selected(batch) # {}
    /\ ~Synchronous(b)
    /\ inflight' = b
    /\ pinned' = pinned \union Executed(b)
    /\ batch' = NoBatch
    /\ pc' = "emit"
    /\ UNCHANGED <<queueVars, mode, orderVars, workVars, flagVars, resolved, events,
                   leaked, rows, runtimeVars>>

(* Every selected request fails; only overlap mode marks it finished. *)
FailBatch ==
    /\ events' = AddEvent(events, Selected(batch), Failure)
    /\ finished' = IF Overlap THEN finished \union Selected(batch) ELSE finished
    /\ batch' = NoBatch
    /\ pc' = "emit"
    /\ UNCHANGED <<queueVars, mode, orderVars, workVars, cancelled, inflight, resolved,
                   rows, runtimeVars>>

(* Reservation, model, evaluation or commit failed; nothing stays reserved. *)
ExecuteFails ==
    /\ pc = "dispatch" /\ Selected(batch) # {}
    /\ FailBatch
    /\ UNCHANGED <<pinned, leaked>>

(* mx.async_eval raises after the reservation was made: nobody aborts it. *)
AsyncEvalRaises(bad) ==
    LET b == [batch EXCEPT !.bad = bad] IN
    /\ AsyncEvalFails
    /\ pc = "dispatch" /\ Selected(batch) # {}
    /\ ~Synchronous(b)
    /\ pinned' = pinned \union Executed(b)
    /\ leaked' = leaked \union Executed(b)
    /\ FailBatch

(***************************************************************************)
(* Events of the resolved step, then those of the batch executed in this   *)
(* tick; then the requests that overlap mode knows to be finished leave.   *)
(***************************************************************************)
Emit ==
    /\ pc = "emit"
    /\ UNCHANGED cacheVars
    /\ Advance(batch)
    /\ events' =
         [r \in Requests |->
            events[r]
              \o (IF r \in DOMAIN resolved /\ resolved[r] # "none"
                  THEN <<Token(r)>> ELSE <<>>)
              \o (IF r \in Applied(batch) \intersect batch.bad
                  THEN <<Failure>> ELSE <<>>)
              \o (IF r \in Yields(batch)
                  THEN <<[kind |-> "token", token |-> batch.token[r],
                          nth |-> generated'[r]]>>
                  ELSE <<>>)]
    /\ Drop(IF Overlap THEN Reaped(Ids, finished', Selected(inflight)) ELSE {})
    /\ resolved' = <<>>
    /\ batch' = NoBatch
    /\ pc' = "deliver"
    /\ UNCHANGED <<mode, orderVars, cancelled, inflight, runtimeVars>>

-----------------------------------------------------------------------------
(* NativeRuntime turns the events into messages. *)

(* Mutant: a finish during the step in flight is ignored. *)
FinishForgets(r) ==
    IF r \in Selected(inflight)
    THEN UNCHANGED <<queueVars, finished>>
    ELSE Drop({r}) /\ UNCHANGED finished

(* scheduler.finish: deferred while the step in flight uses the request. *)
Finish(r) ==
    IF r \in Selected(inflight)
    THEN /\ finished' = finished \union {r}
         /\ UNCHANGED queueVars
    ELSE /\ Drop({r})
         /\ UNCHANGED finished

(* The terminal message of request r (_finish and _fail). *)
Terminate(r, reason) ==
    /\ Finish(r)
    /\ known' = known \ {r}
    /\ outcome' = [outcome EXCEPT ![r] = reason]

NoMessage == UNCHANGED <<queueVars, finished, known, outcome>>

(* Mutant: one token too many. *)
AcceptTokenLate(r, token) ==
    /\ accepted' = [accepted EXCEPT ![r] = accepted[r] + 1]
    /\ IF token \in {"eos", "stop"} THEN Terminate(r, "stop")
       ELSE IF accepted[r] + 1 > MaxTokens[r] THEN Terminate(r, "length")
       ELSE NoMessage

(* _accept_token *)
AcceptToken(r, token) ==
    /\ accepted' = [accepted EXCEPT ![r] = accepted[r] + 1]
    /\ IF token \in {"eos", "stop"} THEN Terminate(r, "stop")
       ELSE IF accepted[r] + 1 >= MaxTokens[r] THEN Terminate(r, "length")
       ELSE NoMessage

(* _apply_scheduler_event; an event of an unknown request is dropped. *)
Deliver(r) ==
    /\ pc = "deliver" /\ events[r] # <<>>
    /\ LET e == Head(events[r]) IN
         CASE r \notin known ->
                NoMessage /\ UNCHANGED accepted
           [] r \in known /\ e.kind = "token" -> AcceptToken(r, e.token)
           [] r \in known /\ e.kind = "cancelled" ->
                Terminate(r, "cancelled") /\ UNCHANGED accepted
           [] r \in known /\ e.kind = "error" ->
                Terminate(r, "error") /\ UNCHANGED accepted
    /\ events' = [events EXCEPT ![r] = Tail(events[r])]
    /\ UNCHANGED <<pc, mode, orderVars, workVars, cancelled, inflight, batch, resolved,
                   cacheVars>>

EndTick ==
    /\ pc = "deliver" /\ \A r \in Requests : events[r] = <<>>
    /\ pc' = "read"
    /\ UNCHANGED <<queueVars, mode, orderVars, workVars, flagVars, inflight, batch,
                   resolved, events, cacheVars, runtimeVars>>

-----------------------------------------------------------------------------
Command ==
    \/ \E r \in Requests : Submit(r) \/ Refuse(r) \/ Cancel(r)
    \/ BenchmarkReset
    \/ Close

Tick ==
    \/ StartTick
    \/ NothingToResolve
    \/ \E token \in [Executed(inflight) -> Tokens] : Resolve(token)
    \/ ResolveFails
    \/ \E probe \in Probes : Select(probe)
    \/ NothingSelected
    \/ \E bad \in SUBSET Selected(batch) :
         \/ \E token \in [Selected(batch) \ bad -> Tokens] : Execute(bad, token)
         \/ Dispatch(bad)
         \/ AsyncEvalRaises(bad)
    \/ ExecuteFails
    \/ Emit
    \/ \E r \in Requests : Deliver(r)
    \/ EndTick

Next == Command \/ Tick

Spec == Init /\ [][Next]_vars

(* The worker loop never rests while there is work: it ticks until idle. *)
FairSpec == Spec /\ WF_vars(Tick)

-----------------------------------------------------------------------------
(* Type invariant. *)
Steps == {"read", "resolve", "select", "dispatch", "emit", "deliver", "closed"}

BatchOK(b) ==
    /\ Selected(b) \subseteq running
    /\ \A r \in Selected(b) : b.work[r] \in {"prefill", "decode"}
    /\ b.bad \subseteq Selected(b)

TypeOK ==
    /\ mode \in Modes
    /\ pc \in Steps
    /\ {waiting, running, started, complete, cancelled, finished, held,
        pinned, leaked, known} \subseteq SUBSET Requests
    /\ round \in 0 .. LastRound
    /\ {arrival, cursor, position, generated, rows, accepted}
         \subseteq [Requests -> Nat]
    /\ BatchOK(inflight) /\ BatchOK(batch)
    /\ DOMAIN resolved \subseteq Requests
    /\ \A r \in Requests : \A i \in DOMAIN events[r] :
         events[r][i].kind \in {"token", "error", "cancelled"}
    /\ outcome \in [Requests -> Outcomes \union {"none"}]

(***************************************************************************)
(* The outstanding cache reservation is the one of the step in flight, and *)
(* it is gone before the next batch is dispatched: reserve_batch never     *)
(* meets another reservation's staged pages.                               *)
(***************************************************************************)
OneReservation ==
    /\ pinned = leaked \union Executed(inflight)
    /\ pc \in {"select", "dispatch"} => inflight = NoBatch

(***************************************************************************)
(* No handle is released while something still uses it: not while the step *)
(* in flight reads and writes its pages, not while the prefix cache is     *)
(* still to publish the rows of a resolved step.                           *)
(***************************************************************************)
UsedHandlesHeld ==
    Selected(inflight) \union DOMAIN resolved \union Selected(batch)
        \subseteq held

(***************************************************************************)
(* Between ticks runtime and scheduler agree: the runtime waits for a      *)
(* request exactly if the scheduler will go on working for it.             *)
(***************************************************************************)
RuntimeAgrees == pc = "read" => known = Ids \ finished

(***************************************************************************)
(* Between ticks an open request has been sent every token the scheduler   *)
(* generated for it and is still short of max_tokens: no result of a step  *)
(* is lost, repeated or overtaken.                                         *)
(***************************************************************************)
StreamExact ==
    /\ pc = "read" => \A r \in known : /\ accepted[r] = generated[r]
                                       /\ accepted[r] < MaxTokens[r]
    /\ \A r \in known : \A i \in DOMAIN events[r] :
         events[r][i].kind = "token" => events[r][i].nth = accepted[r] + 1

(***************************************************************************)
(* The positions the scheduler puts into a batch continue the committed    *)
(* cache exactly, so that _preflight_cache never turns work down, and no   *)
(* request outgrows prompt + max_tokens - 1 rows, the space _validate      *)
(* bounds, although overlap mode runs ahead of the runtime.                *)
(***************************************************************************)
PositionsMatch ==
    /\ pc = "dispatch" => \A r \in Selected(batch) :
         rows[r] = IF batch.work[r] = "prefill" THEN cursor[r] ELSE position[r]
    /\ \A r \in Requests : rows[r] < PromptLength[r] + MaxTokens[r]

(***************************************************************************)
(* Scheduler, executor and runtime agree about every request, in both      *)
(* execution modes: on the one reservation, on the handles in use, on who  *)
(* is still open and on the rows of every cache.                           *)
(***************************************************************************)
EngineAgrees ==
    /\ TypeOK
    /\ OneReservation
    /\ UsedHandlesHeld
    /\ RuntimeAgrees
    /\ PositionsMatch

(***************************************************************************)
(* The worker keeps the promise of RequestLifecycle.                       *)
(***************************************************************************)
Lifecycle == INSTANCE RequestLifecycle WITH
    up <- pc # "closed", open <- known, count <- accepted,
    asked <- cancelled, reason <- outcome

(* Safety and liveness of the promise, under the fairness of FairSpec. *)
KeepsLifecycle == Lifecycle!Spec

(***************************************************************************)
(* The scheduler drains: whatever it holds, and after it the step in       *)
(* flight, is gone in the end, so that a worker with no open request does  *)
(* not tick forever.                                                       *)
(***************************************************************************)
Drains == []<>(Idle \/ pc = "closed")

=============================================================================
