------------------------- MODULE NativeEngineProofs -------------------------
(***************************************************************************)
(* Proofs about NativeEngine, for every set of requests, every length of   *)
(* their prompts and answers, both execution modes and every policy.       *)
(***************************************************************************)
EXTENDS NativeEngine, FiniteSetTheorems, SequenceTheorems, TLAPS

-----------------------------------------------------------------------------
(* The inductive invariant *)

EventSet == [kind : {"token"}, token : Tokens, nth : Nat]
              \union [kind : {"error", "cancelled"}]

BatchType(b) ==
    /\ DOMAIN b = {"work", "bad", "token"}
    /\ \A r \in Selected(b) : b.work[r] \in {"prefill", "decode"}
    /\ Selected(b) \subseteq Requests
    /\ b.bad \subseteq Selected(b)

Typed ==
    /\ mode \in Modes /\ pc \in Steps
    /\ waiting \subseteq Requests /\ running \subseteq Requests /\ held \subseteq Requests
    /\ started \subseteq Requests /\ complete \subseteq Requests
    /\ cancelled \subseteq Requests /\ finished \subseteq Requests
    /\ pinned \subseteq Requests /\ leaked \subseteq Requests /\ known \subseteq Requests
    /\ round \in 0 .. LastRound
    /\ arrival \in [Requests -> Nat] /\ cursor \in [Requests -> Nat]
    /\ position \in [Requests -> Nat] /\ generated \in [Requests -> Nat]
    /\ rows \in [Requests -> Nat] /\ accepted \in [Requests -> Nat]
    /\ BatchType(inflight) /\ BatchType(batch)
    /\ DOMAIN resolved \subseteq Requests
    /\ \A r \in DOMAIN resolved : resolved[r] \in Tokens \union {"none"}
    /\ events \in [Requests -> Seq(EventSet)]
    /\ outcome \in [Requests -> Outcomes \union {"none"}]

(***************************************************************************)
(* Where a batch can be: selected and executed within a tick, in flight    *)
(* only from one tick to the next and in overlap mode; results wait only   *)
(* until they are emitted and events until they are delivered.             *)
(***************************************************************************)
Control ==
    /\ pc \notin {"dispatch", "emit"} => batch = NoBatch
    /\ pc \in {"select", "dispatch", "closed"} => inflight = NoBatch
    /\ batch = NoBatch \/ inflight = NoBatch
    /\ pc \notin {"select", "dispatch", "emit"} => DOMAIN resolved = {}
    /\ ~mode.overlap => inflight = NoBatch /\ DOMAIN resolved = {}
    /\ pc = "emit" => \A r \in Executed(batch) : batch.token[r] \in Tokens
    /\ pc = "emit" /\ mode.overlap => \A r \in Executed(batch) : batch.work[r] = "prefill"
    /\ pc \in {"read", "closed"} => \A r \in Requests : events[r] = <<>>

(***************************************************************************)
(* Whatever a batch in use refers to is running and holds its cache; only  *)
(* a request in no batch is dropped.  A reservation nobody ends belongs to *)
(* requests that are never selected again.                                 *)
(***************************************************************************)
Holding ==
    /\ waiting \intersect running = {}
    /\ running \subseteq held
    /\ Selected(inflight) \subseteq running /\ Selected(batch) \subseteq running
    /\ DOMAIN resolved \subseteq running
    /\ pc \in {"dispatch", "emit"} => Selected(batch) \intersect (cancelled \union finished) = {}
    /\ pinned = leaked \union Executed(inflight)
    /\ leaked \subseteq finished
    /\ leaked \intersect Selected(inflight) = {}

(* A terminal event for r that the runtime has not seen. *)
Ending(r) == \E i \in DOMAIN events[r] : events[r][i].kind # "token"

(***************************************************************************)
(* Runtime and scheduler: whoever the scheduler will work for is known to  *)
(* the runtime, and the runtime waits for nobody else, unless the event    *)
(* that tells it so is on the way.                                         *)
(***************************************************************************)
Agreement ==
    /\ Ids \ finished \subseteq known
    /\ \A r \in known : r \in Ids \ finished \/ Ending(r)
    /\ \A r \in known : outcome[r] = "none" /\ accepted[r] < MaxTokens[r]
    /\ \A r \in Requests : \A i \in DOMAIN events[r] :
         events[r][i].kind = "cancelled" => r \in cancelled
    /\ pc # "closed" => \A r \in Requests \ known : outcome[r] = "none" =>
         /\ accepted[r] = 0 /\ generated[r] = 0
         /\ r \notin Ids \union started \union cancelled \union finished
    /\ \A r \in waiting : generated[r] = 0 /\ r \notin started

(***************************************************************************)
(* The work on a request: rows of the prompt up to the cursor, or the      *)
(* whole prompt and all generated tokens but the last.                     *)
(***************************************************************************)
Prefilling(r) ==
    /\ r \notin started /\ generated[r] = 0
    /\ cursor[r] < PromptLength[r] /\ position[r] = cursor[r]
Decoding(r) ==
    /\ r \in started /\ generated[r] > 0
    /\ cursor[r] = PromptLength[r] /\ position[r] = PromptLength[r] + generated[r] - 1

Fits(b) ==
    \A r \in Selected(b) : IF b.work[r] = "prefill" THEN Prefilling(r)
                           ELSE Decoding(r) /\ generated[r] < MaxTokens[r]

(* Rows the executed batch has added to the cache of r. *)
Grown(r) ==
    IF pc = "emit" /\ r \in Executed(batch)
    THEN IF batch.work[r] = "prefill" THEN Chunk(r) ELSE 1
    ELSE 0

Progress ==
    /\ \A r \in running : /\ Prefilling(r) \/ Decoding(r)
                          /\ rows[r] = position[r] + Grown(r)
    /\ Fits(inflight) /\ Fits(batch)
    /\ \A r \in Requests : rows[r] < PromptLength[r] + MaxTokens[r]
    /\ mode.overlap => \A r \in Requests : generated[r] >= MaxTokens[r] => r \in complete

(***************************************************************************)
(* A token is generated once for every token the runtime has accepted, and *)
(* at most one is on the way: resolved and not emitted, or an event.       *)
(***************************************************************************)
Yielded(r) == r \in DOMAIN resolved /\ resolved[r] # "none"
TokenAt(r, i) == i \in DOMAIN events[r] /\ events[r][i].kind = "token"
OneToken(r) ==
    /\ Yielded(r) => generated[r] = accepted[r] + 1 /\ r \in started
    /\ \A i \in DOMAIN events[r] :
         TokenAt(r, i) => /\ events[r][i].nth = accepted[r] + 1
                          /\ generated[r] = accepted[r] + 1
                          /\ \A j \in DOMAIN events[r] : TokenAt(r, j) => j = i
    /\ ~Yielded(r) /\ (\A i \in DOMAIN events[r] : ~TokenAt(r, i)) =>
         generated[r] = accepted[r]

Streams ==
    /\ \A r \in known : OneToken(r)
    /\ pc # "deliver" => \A r \in Requests : \A i \in DOMAIN events[r] : ~TokenAt(r, i)

IInv == Typed /\ Control /\ Holding /\ Agreement /\ Progress /\ Streams

-----------------------------------------------------------------------------
(* Batches, events and tokens *)

LEMMA EmptyBatch ==
    /\ Selected(NoBatch) = {} /\ Executed(NoBatch) = {} /\ NoBatch.bad = {}
    /\ BatchType(NoBatch) /\ Fits(NoBatch)
    /\ Applied(NoBatch) = {} /\ Succeeded(NoBatch) = {} /\ Yields(NoBatch) = {}
<1>1. NoBatch.work = <<>> /\ DOMAIN NoBatch.work = {} /\ NoBatch.bad = {}
      /\ DOMAIN NoBatch = {"work", "bad", "token"}
  BY DEF NoBatch
<1> QED
  BY <1>1 DEF Selected, Executed, BatchType, Fits, Applied, Succeeded, Yields

LEMMA EventTypes ==
    /\ Failure \in EventSet /\ Cancellation \in EventSet
    /\ \A t \in Tokens, n \in Nat : [kind |-> "token", token |-> t, nth |-> n] \in EventSet
    /\ Failure.kind = "error" /\ Cancellation.kind = "cancelled"
    /\ \A e \in EventSet : e.kind \in {"token", "error", "cancelled"}
    /\ \A e \in EventSet : e.kind = "token" => e.token \in Tokens /\ e.nth \in Nat
  BY DEF Failure, Cancellation, EventSet

(* The events of one request after one more. *)
LEMMA OneMore ==
    ASSUME NEW s \in Seq(EventSet), NEW e \in EventSet
    PROVE  /\ Append(s, e) \in Seq(EventSet)
           /\ DOMAIN s = 1 .. Len(s) /\ Len(s) \in Nat
           /\ DOMAIN Append(s, e) = 1 .. Len(s) + 1
           /\ \A i \in DOMAIN s : Append(s, e)[i] = s[i]
           /\ Append(s, e)[Len(s) + 1] = e
           /\ s \o <<e>> = Append(s, e) /\ s \o <<>> = s
  BY AppendProperties, AppendIsConcat, ConcatEmptySeq, LenProperties

LEMMA Added ==
    ASSUME NEW ev \in [Requests -> Seq(EventSet)], NEW rs, NEW e \in EventSet
    PROVE  /\ AddEvent(ev, rs, e) \in [Requests -> Seq(EventSet)]
           /\ \A r \in Requests : /\ r \in rs => AddEvent(ev, rs, e)[r] = Append(ev[r], e)
                                  /\ r \notin rs => AddEvent(ev, rs, e)[r] = ev[r]
  BY DEF AddEvent

LEMMA Rounds == LastRound \in Nat
  BY RequestsAssumption, FS_CardinalityType DEF LastRound, StarvationRounds

LEMMA InitIInv == Init => IInv
<1> SUFFICES ASSUME Init PROVE IInv
  OBVIOUS
<1> USE DEF Init
<1>0. /\ inflight = NoBatch /\ batch = NoBatch /\ DOMAIN resolved = {}
      /\ \A r \in Requests : events[r] = <<>> /\ DOMAIN events[r] = {}
  OBVIOUS
<1>1. Typed
  <2>1. events \in [Requests -> Seq(EventSet)]
    BY DEF EventSet
  <2> QED
    BY <1>0, <2>1, Rounds, EmptyBatch DEF Typed, Steps, Outcomes
<1>2. Control
  BY <1>0, EmptyBatch DEF Control
<1>3. Holding
  BY <1>0, EmptyBatch DEF Holding
<1>4. Agreement
  BY <1>0 DEF Agreement, Ids
<1>5. Progress
  BY <1>0, EmptyBatch, WorkAssumption DEF Progress
<1>6. Streams
  BY <1>0 DEF Streams
<1> QED
  BY <1>1, <1>2, <1>3, <1>4, <1>5, <1>6 DEF IInv

(***************************************************************************)
(* What the parts of the invariant speak about: a step that changes none   *)
(* of it keeps the part.                                                   *)
(***************************************************************************)
LEMMA ControlFrame ==
    ASSUME Control, UNCHANGED <<mode, pc, inflight, batch, resolved, events>>
    PROVE  Control'
  BY DEF Control, Executed, Selected

LEMMA HoldingFrame ==
    ASSUME Holding, UNCHANGED <<waiting, running, held, inflight, batch, resolved, pinned, leaked>>,
           cancelled' = cancelled /\ finished' = finished,
           pc' \in {"dispatch", "emit"} => pc \in {"dispatch", "emit"}
    PROVE  Holding'
  BY DEF Holding, Executed, Selected

LEMMA AgreementFrame ==
    ASSUME Agreement, UNCHANGED <<queueVars, known, accepted, outcome, events, generated, started,
                                  cancelled, finished>>, pc' # "closed"  => pc # "closed"
    PROVE  Agreement'
  BY DEF Agreement, Ids, Ending, queueVars

LEMMA ProgressFrame ==
    ASSUME Progress, UNCHANGED <<mode, running, workVars, rows, inflight, batch>>,
           pc = "emit" <=> pc' = "emit"
    PROVE  Progress'
  BY DEF Progress, workVars, Prefilling, Decoding, Fits, Grown, Selected, Executed, Chunk

LEMMA StreamsFrame ==
    ASSUME Streams, UNCHANGED <<known, accepted, generated, started, resolved, events>>,
           pc = "deliver" => pc' = "deliver" \/ \A r \in Requests : events[r] = <<>>
    PROVE  Streams'
  BY DEF Streams, OneToken, Yielded, TokenAt

-----------------------------------------------------------------------------
(* Commands *)

LEMMA SubmitStep == ASSUME IInv, NEW r \in Requests, Submit(r) PROVE IInv'
<1>0. /\ Typed /\ Control /\ Holding /\ Agreement /\ Progress /\ Streams
      /\ pc = "read" /\ r \notin known /\ outcome[r] = "none"
  BY DEF IInv, Submit
<1>1. /\ r \notin Ids \union started \union cancelled \union finished
      /\ accepted[r] = 0 /\ generated[r] = 0 /\ events[r] = <<>> /\ DOMAIN resolved = {}
  BY <1>0 DEF Agreement, Control
<1>2. UNCHANGED <<mode, pc, round, running, held, workVars, flagVars, inflight, batch,
                  resolved, events, cacheVars, accepted, outcome>>
  BY DEF Submit
<1> USE DEF workVars, flagVars, cacheVars
<1>3. Typed'
  <2>1. arrival' \in [Requests -> Nat]
    <3>1. Cardinality({q \in Requests : arrival[q] > 0}) + 1 \in Nat
      BY RequestsAssumption, FS_Subset, FS_CardinalityType
    <3> QED
      BY <1>0, <3>1 DEF Submit, Typed
  <2>2. known' \subseteq Requests /\ waiting' \subseteq Requests
    BY <1>0 DEF Submit, Typed
  <2> QED
    BY <1>0, <1>2, <2>1, <2>2 DEF Typed, BatchType, Selected, LastRound
<1>4. Control'
  BY <1>0, <1>2, ControlFrame
<1>5. Holding'
  BY <1>0, <1>1, <1>2 DEF Submit, Holding, Ids, Executed, Selected
<1>6. Agreement'
  BY <1>0, <1>1, <1>2, WorkAssumption DEF Submit, Typed, Agreement, Ids, Ending
<1>7. Progress'
  BY <1>0, <1>2, ProgressFrame
<1>8. Streams'
  BY <1>0, <1>1, <1>2 DEF Submit, Streams, OneToken, Yielded, TokenAt
<1> QED
  BY <1>3, <1>4, <1>5, <1>6, <1>7, <1>8 DEF IInv

LEMMA RefuseStep == ASSUME IInv, NEW r \in Requests, Refuse(r) PROVE IInv'
<1>0. /\ Typed /\ Control /\ Holding /\ Agreement /\ Progress /\ Streams
      /\ UNCHANGED <<pc, queueVars, mode, orderVars, workVars, flagVars, inflight, batch,
                     resolved, events, cacheVars, known, accepted>>
  BY DEF IInv, Refuse
<1> USE DEF queueVars, orderVars, workVars, flagVars, cacheVars
<1>1. Typed'
  BY <1>0 DEF Refuse, Typed, Outcomes, BatchType, Selected, LastRound
<1>2. Agreement'
  BY <1>0 DEF Refuse, Typed, Agreement, Ids, Ending
<1> QED
  BY <1>0, <1>1, <1>2, ControlFrame, HoldingFrame, ProgressFrame, StreamsFrame DEF IInv

LEMMA CancelStep == ASSUME IInv, NEW r \in Requests, Cancel(r) PROVE IInv'
<1>0. /\ Typed /\ Control /\ Holding /\ Agreement /\ Progress /\ Streams
      /\ UNCHANGED <<pc, queueVars, mode, orderVars, workVars, finished, inflight, batch,
                     resolved, events, cacheVars, runtimeVars>>
      /\ pc = "read" /\ r \in Ids /\ cancelled' = cancelled \union {r}
  BY DEF IInv, Cancel
<1> USE DEF queueVars, orderVars, workVars, cacheVars, runtimeVars
<1>1. Typed'
  BY <1>0 DEF Typed, BatchType, Selected, LastRound
<1>2. Holding'
  BY <1>0 DEF Holding, Executed, Selected
<1>3. Agreement'
  <2>1. \A q \in Requests \ known : outcome[q] = "none" => q # r
    BY <1>0 DEF Agreement
  <2> QED
    BY <1>0, <2>1 DEF Agreement, Ids, Ending
<1> QED
  BY <1>0, <1>1, <1>2, <1>3, ControlFrame, ProgressFrame, StreamsFrame DEF IInv

LEMMA ResetStep == ASSUME IInv, BenchmarkReset PROVE IInv'
<1>0. /\ Typed /\ Control /\ Holding /\ Agreement /\ Progress /\ Streams
      /\ UNCHANGED <<mode, pc, queueVars, workVars, flagVars, inflight, batch,
                     resolved, events, cacheVars, runtimeVars>>
      /\ arrival' = [r \in Requests |-> 0] /\ round' = 0
  BY DEF IInv, BenchmarkReset
<1> USE DEF queueVars, workVars, flagVars, cacheVars, runtimeVars
<1>1. Typed'
  <2>1. 0 \in 0 .. LastRound /\ UNCHANGED LastRound
    BY Rounds DEF LastRound
  <2> QED
    BY <1>0, <2>1 DEF Typed, BatchType, Selected
<1> QED
  BY <1>0, <1>1, ControlFrame, HoldingFrame, AgreementFrame, ProgressFrame, StreamsFrame DEF IInv

LEMMA CloseStep == ASSUME IInv, Close PROVE IInv'
<1>0. /\ Typed /\ Control /\ Holding /\ Agreement /\ Progress /\ Streams
      /\ UNCHANGED <<mode, orderVars, workVars, flagVars, batch, resolved, events, rows,
                     accepted, outcome, leaked>>
      /\ pc = "read" /\ pc' = "closed" /\ waiting' = {} /\ running' = {} /\ known' = {}
      /\ held' = held \ Ids /\ inflight' = NoBatch /\ pinned' = pinned \ Executed(inflight)
  BY DEF IInv, Close, EndStep
<1> USE DEF orderVars, workVars, flagVars
<1>1. batch = NoBatch /\ DOMAIN resolved = {}
  BY <1>0 DEF Control
<1>2. Typed'
  BY <1>0, EmptyBatch DEF Typed, BatchType, Selected, LastRound, Steps
<1>3. Control'
  BY <1>0, <1>1, EmptyBatch DEF Control, Executed, Selected
<1>4. Holding'
  BY <1>0, <1>1, EmptyBatch DEF Holding, Executed, Selected
<1>5. Agreement'
  BY <1>0 DEF Agreement, Ids, Ending
<1>6. Progress'
  BY <1>0, <1>1, EmptyBatch DEF Progress, Fits, Selected
<1>7. Streams'
  BY <1>0, StreamsFrame DEF Streams, OneToken, Yielded, TokenAt
<1> QED
  BY <1>2, <1>3, <1>4, <1>5, <1>6, <1>7 DEF IInv

LEMMA IdleStep ==
    ASSUME IInv, NothingToResolve \/ NothingSelected \/ EndTick PROVE IInv'
<1>0. /\ Typed /\ Control /\ Holding /\ Agreement /\ Progress /\ Streams
      /\ UNCHANGED <<queueVars, mode, orderVars, workVars, flagVars, inflight, batch,
                     resolved, events, cacheVars, runtimeVars>>
      /\ \/ pc = "resolve" /\ pc' = "select" /\ inflight = NoBatch
         \/ pc = "dispatch" /\ pc' = "emit" /\ Selected(batch) = {}
         \/ pc = "deliver" /\ pc' = "read" /\ \A r \in Requests : events[r] = <<>>
  BY DEF IInv, NothingToResolve, NothingSelected, EndTick
<1> USE DEF queueVars, orderVars, workVars, flagVars, cacheVars, runtimeVars
<1>1. Typed'
  BY <1>0 DEF Typed, BatchType, Selected, LastRound, Steps
<1>2. Control'
  BY <1>0, EmptyBatch DEF Control, Executed, Selected
<1>3. Holding'
  BY <1>0, HoldingFrame
<1>4. Agreement'
  BY <1>0, AgreementFrame
<1>5. Progress'
  BY <1>0, EmptyBatch DEF Progress, Prefilling, Decoding, Fits, Grown, Selected, Executed, Chunk
<1>6. Streams'
  BY <1>0, StreamsFrame
<1> QED
  BY <1>1, <1>2, <1>3, <1>4, <1>5, <1>6 DEF IInv

-----------------------------------------------------------------------------
(* Steps of a tick *)

(* A request in no batch and with no result that waits may be dropped. *)
LEMMA DropHolds ==
    ASSUME Holding, NEW gone, Drop(gone), UNCHANGED <<inflight, batch, resolved, pinned, leaked>>,
           cancelled' = cancelled /\ finished' = finished,
           pc' \in {"dispatch", "emit"} => pc \in {"dispatch", "emit"},
           gone \intersect (Selected(inflight) \union Selected(batch) \union DOMAIN resolved) = {}
    PROVE  Holding'
  BY DEF Holding, Drop, Executed, Selected

LEMMA StartTickStep == ASSUME IInv, StartTick PROVE IInv'
<1> DEFINE gone == Reaped(Ids, cancelled, Selected(inflight))
           over == gone \union (IF Overlap THEN Reaped(Ids, finished, Selected(inflight)) ELSE {})
<1>0. /\ Typed /\ Control /\ Holding /\ Agreement /\ Progress /\ Streams
      /\ UNCHANGED <<mode, arrival, workVars, flagVars, inflight, batch, resolved,
                     cacheVars, runtimeVars>>
      /\ pc = "read" /\ pc' = "resolve" /\ CountRound
      /\ events' = AddEvent([r \in Requests |-> <<>>], gone, Cancellation)
      /\ Drop(over)
  BY DEF IInv, StartTick
<1> USE DEF workVars, flagVars, cacheVars, runtimeVars
<1>1. /\ gone = (Ids \intersect cancelled) \ Selected(inflight)
      /\ gone \subseteq over /\ over \subseteq gone \union (Ids \intersect finished)
      /\ over \intersect Selected(inflight) = {}
  BY DEF Reaped
<1> HIDE DEF gone, over
<1>2. /\ batch = NoBatch /\ DOMAIN resolved = {} /\ Selected(batch) = {}
      /\ \A r \in Requests : events[r] = <<>> /\ DOMAIN events[r] = {}
  BY <1>0, EmptyBatch DEF Control
<1>3. /\ events' \in [Requests -> Seq(EventSet)]
      /\ \A r \in Requests : /\ r \in gone => DOMAIN events'[r] = 1 .. 1 /\ events'[r][1] = Cancellation
                             /\ r \notin gone => DOMAIN events'[r] = {}
  <2>2. <<>> \in Seq(EventSet) /\ Len(<<>>) = 0 /\ DOMAIN <<>> = {}
    OBVIOUS
  <2>3. /\ DOMAIN Append(<<>>, Cancellation) = 1 .. 1
        /\ Append(<<>>, Cancellation)[1] = Cancellation
    BY <2>2, EventTypes, OneMore
  <2>4. /\ events' \in [Requests -> Seq(EventSet)]
        /\ \A r \in Requests : /\ r \in gone => events'[r] = Append(<<>>, Cancellation)
                               /\ r \notin gone => events'[r] = <<>>
    BY <1>0, <2>2, EventTypes DEF AddEvent
  <2> QED
    BY <2>2, <2>3, <2>4
<1>4. Typed'
  <2>1. round' \in 0 .. LastRound /\ UNCHANGED LastRound
    BY <1>0, Rounds DEF CountRound, Typed, LastRound
  <2> QED
    BY <1>0, <1>3, <2>1 DEF Typed, BatchType, Selected, Drop, Steps
<1>5. Control'
  BY <1>0, <1>2, EmptyBatch DEF Control, Executed, Selected
<1>6. Holding'
  BY <1>0, <1>1, <1>2, DropHolds
<1>7. Agreement'
  <2>1. Ids' = Ids \ over
    BY <1>0 DEF Ids, Drop
  <2>2. \A r \in known : r \in Ids \ finished
    BY <1>0, <1>2 DEF Agreement, Ending, Typed
  <2>3. \A r \in gone : r \in Requests => Ending(r)'
    BY <1>3, EventTypes DEF Ending
  <2>4. \A r \in known : r \in Ids' \ finished' \/ Ending(r)'
    BY <1>0, <1>1, <2>1, <2>2, <2>3 DEF Typed
  <2>5. \A r \in Requests : \A i \in DOMAIN events'[r] :
          events'[r][i].kind = "cancelled" => r \in cancelled'
    BY <1>0, <1>1, <1>3
  <2> QED
    BY <1>0, <2>1, <2>4, <2>5 DEF Agreement, Ids, Drop
<1>8. Progress'
  BY <1>0, <1>2 DEF Progress, Prefilling, Decoding, Fits, Grown, Selected, Executed, Chunk, Drop
<1>9. Streams'
  <2>1. \A r \in Requests : \A i \in DOMAIN events'[r] : ~TokenAt(r, i)'
    BY <1>3, EventTypes DEF TokenAt
  <2>2. \A r \in known : generated[r] = accepted[r]
    BY <1>0, <1>2 DEF Streams, OneToken, Yielded, TokenAt, Typed
  <2> QED
    BY <1>0, <1>2, <2>1, <2>2 DEF Streams, OneToken, Yielded, Typed
<1> QED
  BY <1>4, <1>5, <1>6, <1>7, <1>8, <1>9 DEF IInv

(***************************************************************************)
(* Events after terminal events were added for the requests rs: what was   *)
(* there is still there, and only terminal events are new.                 *)
(***************************************************************************)
Kept(s, t) == \A i \in DOMAIN s : i \in DOMAIN t /\ t[i] = s[i]
Ended(s, t, kinds) ==
    \A i \in DOMAIN t : (i \in DOMAIN s /\ t[i] = s[i]) \/ t[i].kind \in kinds

LEMMA TerminalAdded ==
    ASSUME NEW ev \in [Requests -> Seq(EventSet)], NEW rs, NEW e \in EventSet, e.kind # "token",
           NEW r \in Requests
    PROVE  /\ AddEvent(ev, rs, e) \in [Requests -> Seq(EventSet)]
           /\ Kept(ev[r], AddEvent(ev, rs, e)[r])
           /\ r \in rs => \E i \in DOMAIN AddEvent(ev, rs, e)[r] :
                            AddEvent(ev, rs, e)[r][i].kind = e.kind
           /\ Ended(ev[r], AddEvent(ev, rs, e)[r], IF r \in rs THEN {e.kind} ELSE {})
<1>1. AddEvent(ev, rs, e) \in [Requests -> Seq(EventSet)]
  BY Added
<1>2. CASE r \in rs
  <2> DEFINE s == ev[r]
             t == AddEvent(ev, rs, e)[r]
  <2>1. t = Append(s, e) /\ s \in Seq(EventSet)
    BY <1>2, Added
  <2> HIDE DEF s, t
  <2>2. /\ DOMAIN s = 1 .. Len(s) /\ Len(s) \in Nat /\ DOMAIN t = 1 .. Len(s) + 1
        /\ \A i \in DOMAIN s : t[i] = s[i]
        /\ t[Len(s) + 1] = e
    BY <2>1, OneMore
  <2>3. Kept(s, t)
    BY <2>2 DEF Kept
  <2>4. \E i \in DOMAIN t : t[i].kind = e.kind
    <3>1. Len(s) + 1 \in DOMAIN t
      BY <2>2
    <3> QED
      BY <2>2, <3>1
  <2>5. Ended(s, t, {e.kind})
    <3> SUFFICES ASSUME NEW i \in DOMAIN t
                 PROVE  (i \in DOMAIN s /\ t[i] = s[i]) \/ t[i].kind \in {e.kind}
      BY DEF Ended
    <3>1. i \in DOMAIN s \/ i = Len(s) + 1
      BY <2>2
    <3> QED
      BY <2>2, <3>1
  <2> QED
    BY <1>1, <1>2, <2>3, <2>4, <2>5 DEF s, t
<1>3. CASE r \notin rs
  <2>1. AddEvent(ev, rs, e)[r] = ev[r]
    BY <1>3, Added
  <2> QED
    BY <1>1, <1>3, <2>1 DEF Kept, Ended
<1> QED
  BY <1>2, <1>3

(* Failures only. *)
Failed(ev, ev2, rs) ==
    /\ ev2 \in [Requests -> Seq(EventSet)]
    /\ \A r \in Requests :
         /\ Kept(ev[r], ev2[r])
         /\ r \in rs => \E i \in DOMAIN ev2[r] : ev2[r][i].kind = "error"
         /\ Ended(ev[r], ev2[r], {"error"})

LEMMA FailuresAdded ==
    ASSUME NEW ev \in [Requests -> Seq(EventSet)], NEW rs
    PROVE  Failed(ev, AddEvent(ev, rs, Failure), rs)
<1> DEFINE ev2 == AddEvent(ev, rs, Failure)
<1>1. Failure \in EventSet /\ Failure.kind = "error"
  BY EventTypes
<1>2. Failure.kind # "token"
  BY <1>1
<1>3. ASSUME NEW r \in Requests
      PROVE  /\ Kept(ev[r], ev2[r])
             /\ r \in rs => \E i \in DOMAIN ev2[r] : ev2[r][i].kind = Failure.kind
             /\ Ended(ev[r], ev2[r], IF r \in rs THEN {Failure.kind} ELSE {})
  BY <1>1, <1>2, TerminalAdded, ZenonT(60)
<1>4. ev2 \in [Requests -> Seq(EventSet)]
  BY <1>1, Added
<1> HIDE DEF ev2
<1>5. Failed(ev, ev2, rs)
  BY <1>1, <1>3, <1>4 DEF Failed, Ended
<1> QED
  BY <1>5 DEF ev2

(* Failures and then cancellations. *)
Both(ev, ev2, failing, gone) ==
    /\ ev2 \in [Requests -> Seq(EventSet)]
    /\ \A r \in Requests :
         /\ Kept(ev[r], ev2[r])
         /\ r \in failing \union gone => \E i \in DOMAIN ev2[r] : ev2[r][i].kind # "token"
         /\ Ended(ev[r], ev2[r], IF r \in gone THEN {"error", "cancelled"} ELSE {"error"})

LEMMA BothAdded ==
    ASSUME NEW ev \in [Requests -> Seq(EventSet)], NEW failing, NEW gone
    PROVE  Both(ev, AddEvent(AddEvent(ev, failing, Failure), gone, Cancellation), failing, gone)
<1> DEFINE mid == AddEvent(ev, failing, Failure)
           ev2 == AddEvent(mid, gone, Cancellation)
<1>1. mid \in [Requests -> Seq(EventSet)]
  BY EventTypes, Added
<1>2. /\ Failure \in EventSet /\ Failure.kind = "error"
      /\ Cancellation \in EventSet /\ Cancellation.kind = "cancelled"
  BY EventTypes
<1>3. ASSUME NEW r \in Requests
      PROVE  /\ Kept(ev[r], mid[r])
             /\ r \in failing => \E i \in DOMAIN mid[r] : mid[r][i].kind = "error"
             /\ Ended(ev[r], mid[r], IF r \in failing THEN {"error"} ELSE {})
  <2>1. /\ Kept(ev[r], mid[r])
        /\ r \in failing => \E i \in DOMAIN mid[r] : mid[r][i].kind = Failure.kind
        /\ Ended(ev[r], mid[r], IF r \in failing THEN {Failure.kind} ELSE {})
    BY <1>2, TerminalAdded, Zenon
  <2> QED
    BY <1>2, <2>1
<1>4. ev2 \in [Requests -> Seq(EventSet)]
  BY <1>1, <1>2, Added
<1> HIDE DEF mid
<1>5. ASSUME NEW r \in Requests
      PROVE  /\ Kept(mid[r], ev2[r])
             /\ r \in gone => \E i \in DOMAIN ev2[r] : ev2[r][i].kind = "cancelled"
             /\ Ended(mid[r], ev2[r], IF r \in gone THEN {"cancelled"} ELSE {})
  <2>1. /\ Kept(mid[r], ev2[r])
        /\ r \in gone => \E i \in DOMAIN ev2[r] : ev2[r][i].kind = Cancellation.kind
        /\ Ended(mid[r], ev2[r], IF r \in gone THEN {Cancellation.kind} ELSE {})
    <3>1. Cancellation \in EventSet /\ Cancellation.kind # "token"
      BY <1>2
    <3> QED
      BY <1>1, <3>1, TerminalAdded, ZenonT(60)
  <2> QED
    BY <1>2, <2>1
<1> HIDE DEF ev2
<1>6. ASSUME NEW r \in Requests
      PROVE  /\ Kept(ev[r], ev2[r])
             /\ r \in failing \union gone => \E i \in DOMAIN ev2[r] : ev2[r][i].kind # "token"
             /\ Ended(ev[r], ev2[r], IF r \in gone THEN {"error", "cancelled"} ELSE {"error"})
  <2> DEFINE s == ev[r]
             t == mid[r]
             u == ev2[r]
  <2>1. /\ Kept(s, t) /\ (r \in failing => \E i \in DOMAIN t : t[i].kind = "error")
        /\ Ended(s, t, IF r \in failing THEN {"error"} ELSE {})
        /\ Kept(t, u) /\ (r \in gone => \E i \in DOMAIN u : u[i].kind = "cancelled")
        /\ Ended(t, u, IF r \in gone THEN {"cancelled"} ELSE {})
    BY <1>3, <1>5
  <2> HIDE DEF s, t, u
  <2>2. Kept(s, u)
    BY <2>1 DEF Kept
  <2>3. ASSUME r \in failing \union gone PROVE \E i \in DOMAIN u : u[i].kind # "token"
    <3>1. CASE r \in failing
      <4>1. PICK i \in DOMAIN t : t[i].kind = "error"
        BY <2>1, <3>1
      <4>2. i \in DOMAIN u /\ u[i] = t[i]
        BY <2>1 DEF Kept
      <4> QED
        BY <4>1, <4>2
    <3> QED
      BY <2>1, <2>3, <3>1
  <2>4. Ended(s, u, IF r \in gone THEN {"error", "cancelled"} ELSE {"error"})
    <3> SUFFICES ASSUME NEW i \in DOMAIN u, ~(i \in DOMAIN s /\ u[i] = s[i])
                 PROVE  u[i].kind \in IF r \in gone THEN {"error", "cancelled"} ELSE {"error"}
      BY DEF Ended
    <3>1. (i \in DOMAIN t /\ u[i] = t[i]) \/ (r \in gone /\ u[i].kind = "cancelled")
      BY <2>1 DEF Ended
    <3>2. i \in DOMAIN t => (i \in DOMAIN s /\ t[i] = s[i]) \/ t[i].kind = "error"
      BY <2>1 DEF Ended
    <3> QED
      BY <3>1, <3>2
  <2> QED
    BY <2>2, <2>3, <2>4 DEF s, u
<1>7. Both(ev, ev2, failing, gone)
  BY <1>4, <1>6 DEF Both
<1> QED
  BY <1>7 DEF ev2, mid

(***************************************************************************)
(* _advance_step_state carries a request of the batch on: further into the *)
(* prompt, from the prompt into the answer, or by a token of the answer.   *)
(***************************************************************************)
LEMMA Advanced ==
    ASSUME Typed, NEW b, BatchType(b), Fits(b), Advance(b), NEW r \in Succeeded(b),
           rows'[r] = position[r] + (IF b.work[r] = "prefill" THEN Chunk(r) ELSE 1)
    PROVE  /\ Prefilling(r)' \/ Decoding(r)'
           /\ position'[r] = rows'[r]
           /\ r \in Yields(b) <=> r \in started'
           /\ r \in Yields(b) => generated'[r] = generated[r] + 1
           /\ r \notin Yields(b) => generated'[r] = generated[r]
<1>1. /\ r \in Requests /\ r \in Selected(b) /\ b.work[r] \in {"prefill", "decode"}
      /\ cursor[r] \in Nat /\ generated[r] \in Nat /\ position[r] \in Nat
      /\ PromptLength[r] \in Nat \ {0} /\ PrefillStep \in Nat \ {0}
      /\ IF b.work[r] = "prefill" THEN Prefilling(r) ELSE Decoding(r)
  BY WorkAssumption, ConfigAssumption DEF Succeeded, Applied, BatchType, Typed, Fits
<1>2. /\ position'[r] = rows'[r]
      /\ cursor'[r] = IF b.work[r] = "prefill" THEN cursor[r] + Chunk(r) ELSE cursor[r]
      /\ generated'[r] = IF r \in Yields(b) THEN generated[r] + 1 ELSE generated[r]
      /\ started' = started \union Yields(b)
  BY <1>1 DEF Advance
<1>3. r \in Yields(b) <=> b.work[r] = "decode" \/ cursor[r] + Chunk(r) = PromptLength[r]
  BY DEF Yields
<1>4. CASE b.work[r] = "prefill"
  <2>1. Chunk(r) \in Nat /\ cursor[r] + Chunk(r) <= PromptLength[r]
    BY <1>1, <1>4 DEF Chunk, Prefilling
  <2> QED
    BY <1>1, <1>2, <1>3, <1>4, <2>1 DEF Prefilling, Decoding
<1>5. CASE b.work[r] = "decode"
  BY <1>1, <1>2, <1>3, <1>5 DEF Decoding
<1> QED
  BY <1>1, <1>4, <1>5

(* It leaves every other request where it is. *)
LEMMA NotAdvanced ==
    ASSUME NEW b, Advance(b), NEW r \in Requests, r \notin Succeeded(b)
    PROVE  /\ position'[r] = position[r] /\ generated'[r] = generated[r]
           /\ r \in started' <=> r \in started
           /\ Prefilling(r) <=> Prefilling(r)'
           /\ Decoding(r) <=> Decoding(r)'
<1>1. r \notin Yields(b)
  BY DEF Yields
<1> QED
  BY <1>1 DEF Advance, Prefilling, Decoding

LEMMA AdvanceTypes ==
    ASSUME Typed, NEW b, BatchType(b), Fits(b), Advance(b), rows' \in [Requests -> Nat]
    PROVE  /\ cursor' \in [Requests -> Nat] /\ position' \in [Requests -> Nat]
           /\ generated' \in [Requests -> Nat] /\ started' \subseteq Requests
           /\ complete' \subseteq Requests /\ finished' \subseteq Requests
<1>1. /\ Yields(b) \subseteq Requests /\ Succeeded(b) \subseteq Selected(b)
      /\ Selected(b) \subseteq Requests /\ Applied(b) \subseteq Requests
  BY DEF BatchType, Yields, Succeeded, Applied
<1>2. started' \subseteq Requests /\ complete' \subseteq Requests /\ finished' \subseteq Requests
  BY <1>1 DEF Advance, Typed
<1>3. position' \in [Requests -> Nat] /\ generated' \in [Requests -> Nat]
  BY DEF Advance, Typed
<1>4. ASSUME NEW r \in Succeeded(b), b.work[r] = "prefill" PROVE cursor[r] + Chunk(r) \in Nat
  <2>1. Prefilling(r) /\ cursor[r] \in Nat /\ PromptLength[r] \in Nat /\ PrefillStep \in Nat
    BY <1>1, <1>4, WorkAssumption, ConfigAssumption DEF Fits, Typed
  <2> QED
    BY <2>1 DEF Chunk
<1>5. cursor' \in [Requests -> Nat]
  BY <1>4 DEF Advance, Typed
<1> QED
  BY <1>2, <1>3, <1>5

(* Overlap mode marks a request complete with its last token. *)
LEMMA AdvanceCompletes ==
    ASSUME Progress, NEW b, Advance(b), mode.overlap
    PROVE  \A r \in Requests : generated'[r] >= MaxTokens[r] => r \in complete'
<1> SUFFICES ASSUME NEW r \in Requests, generated'[r] >= MaxTokens[r] PROVE r \in complete'
  OBVIOUS
<1>1. complete' = complete \union {q \in Yields(b) : Completes(q, generated'[q], b.token[q])}
  BY DEF Advance, Overlap
<1>2. CASE r \in Yields(b)
  BY <1>1, <1>2 DEF Completes
<1>3. CASE r \notin Yields(b)
  BY <1>1, <1>3 DEF Progress, Advance
<1> QED
  BY <1>2, <1>3

(* The rows of an executed batch stay within the space the request has. *)
LEMMA RowsBound ==
    ASSUME Typed, Progress, NEW b, BatchType(b), Fits(b), Selected(b) \subseteq running,
           pc # "emit", rows' = Committed(b)
    PROVE  /\ rows' \in [Requests -> Nat]
           /\ \A r \in Requests : rows'[r] < PromptLength[r] + MaxTokens[r]
           /\ \A r \in Executed(b) :
                rows'[r] = position[r] + (IF b.work[r] = "prefill" THEN Chunk(r) ELSE 1)
           /\ \A r \in Requests \ Executed(b) : rows'[r] = rows[r]
<1>1. ASSUME NEW r \in Executed(b)
      PROVE  /\ r \in Requests /\ rows'[r] \in Nat /\ rows'[r] < PromptLength[r] + MaxTokens[r]
             /\ rows'[r] = position[r] + (IF b.work[r] = "prefill" THEN Chunk(r) ELSE 1)
  <2>1. /\ r \in Requests /\ r \in running /\ b.work[r] \in {"prefill", "decode"}
        /\ cursor[r] \in Nat /\ generated[r] \in Nat /\ position[r] \in Nat
        /\ PromptLength[r] \in Nat \ {0} /\ MaxTokens[r] \in Nat \ {0} /\ PrefillStep \in Nat \ {0}
        /\ IF b.work[r] = "prefill" THEN Prefilling(r) ELSE Decoding(r) /\ generated[r] < MaxTokens[r]
    BY <1>1, WorkAssumption, ConfigAssumption DEF Executed, BatchType, Typed, Fits
  <2>2. rows[r] = position[r]
    BY <2>1 DEF Progress, Grown
  <2>3. rows'[r] = position[r] + (IF b.work[r] = "prefill" THEN Chunk(r) ELSE 1)
    BY <1>1, <2>1, <2>2 DEF Committed
  <2> QED
    BY <2>1, <2>3 DEF Chunk, Prefilling, Decoding
<1>2. \A r \in Requests \ Executed(b) : rows'[r] = rows[r]
  BY DEF Committed
<1>3. rows' = [r \in Requests |-> rows'[r]]
  BY DEF Committed
<1> QED
  BY <1>1, <1>2, <1>3 DEF Typed, Progress

(***************************************************************************)
(* What both ends of the step in flight share: the requests failing get an *)
(* error event and are finished, cancelled and finished ones are dropped.  *)
(***************************************************************************)
LEMMA StepEnds ==
    ASSUME IInv, pc = "resolve", pc' = "select", inflight # NoBatch,
           NEW failing \in SUBSET Selected(inflight),
           finished' = finished \union failing,
           events' = AddEvent(AddEvent(events, failing, Failure),
                              Ids \intersect cancelled, Cancellation),
           Drop(Ids \intersect (cancelled \union finished')),
           EndStep, UNCHANGED <<mode, cancelled, batch, runtimeVars>>,
           DOMAIN resolved' \subseteq Selected(inflight) \ (cancelled \union finished'),
           \A r \in Requests \ Selected(inflight) :
             generated'[r] = generated[r] /\ (r \in started' <=> r \in started)
    PROVE  /\ events' \in [Requests -> Seq(EventSet)]
           /\ \A r \in Requests : \A i \in DOMAIN events'[r] : ~TokenAt(r, i)'
           /\ Control' /\ Holding' /\ Agreement'
<1>0. /\ Typed /\ Control /\ Holding /\ Agreement /\ Progress /\ Streams
      /\ inflight' = NoBatch /\ pinned' = pinned \ Executed(inflight) /\ leaked' = leaked
      /\ batch = NoBatch /\ mode.overlap /\ Selected(batch) = {} /\ batch' = NoBatch
      /\ known' = known /\ accepted' = accepted /\ outcome' = outcome
      /\ failing \subseteq Requests /\ Selected(inflight) \subseteq running
  BY EmptyBatch DEF IInv, EndStep, Control, runtimeVars, Typed, Holding
<1>1. events \in [Requests -> Seq(EventSet)]
  BY <1>0 DEF Typed
<1>3. /\ events' \in [Requests -> Seq(EventSet)]
      /\ \A r \in Requests :
           /\ Kept(events[r], events'[r])
           /\ r \in failing \union (Ids \intersect cancelled) =>
                \E i \in DOMAIN events'[r] : events'[r][i].kind # "token"
           /\ Ended(events[r], events'[r], IF r \in Ids \intersect cancelled
                                           THEN {"error", "cancelled"} ELSE {"error"})
  <2>1. Both(events, events', failing, Ids \intersect cancelled)
    BY <1>1, BothAdded
  <2> QED
    BY <2>1 DEF Both
<1>4. \A r \in Requests : \A i \in DOMAIN events'[r] : ~TokenAt(r, i)'
  <2> SUFFICES ASSUME NEW r \in Requests, NEW i \in DOMAIN events'[r]
               PROVE  events'[r][i].kind # "token"
    BY DEF TokenAt
  <2>1. \A j \in DOMAIN events[r] : events[r][j].kind # "token"
    BY <1>0 DEF Streams, TokenAt
  <2>2. (i \in DOMAIN events[r] /\ events'[r][i] = events[r][i])
          \/ events'[r][i].kind \in {"error", "cancelled"}
    BY <1>3 DEF Ended
  <2> QED
    BY <2>1, <2>2
<1>5. Control'
  BY <1>0, EmptyBatch DEF Control, Executed, Selected
<1>6. /\ waiting' = waiting \ (cancelled \union finished')
      /\ running' = running \ (cancelled \union finished')
      /\ Ids' = Ids \ (cancelled \union finished')
      /\ held' = held \ (Ids \intersect (cancelled \union finished'))
  BY DEF Drop, Ids
<1>7. Holding'
  <2>1. Selected(inflight') = {} /\ Selected(batch') = {} /\ Executed(inflight') = {}
    BY <1>0, EmptyBatch
  <2>2. waiting' \intersect running' = {} /\ running' \subseteq held'
    BY <1>0, <1>6 DEF Holding
  <2>3. DOMAIN resolved' \subseteq running'
    BY <1>0, <1>6 DEF Holding
  <2>4. pinned' = leaked' \union Executed(inflight')
    BY <1>0, <2>1 DEF Holding, Executed
  <2>5. leaked' \subseteq finished' /\ leaked' \intersect Selected(inflight') = {}
    BY <1>0, <2>1 DEF Holding
  <2> QED
    BY <2>1, <2>2, <2>3, <2>4, <2>5, <1>0 DEF Holding
<1>8. Agreement'
  <2>1. Ids' \ finished' \subseteq known'
    BY <1>0, <1>6 DEF Agreement
  <2>2. \A r \in known' : r \in Ids' \ finished' \/ Ending(r)'
    <3> SUFFICES ASSUME NEW r \in known, r \notin Ids' \ finished' PROVE Ending(r)'
      BY <1>0
    <3>1. r \in Requests
      BY <1>0 DEF Typed
    <3>2. CASE Ending(r)
      <4>1. PICK i \in DOMAIN events[r] : events[r][i].kind # "token"
        BY <3>2 DEF Ending
      <4>2. i \in DOMAIN events'[r] /\ events'[r][i] = events[r][i]
        BY <1>3, <3>1 DEF Kept
      <4> QED
        BY <4>1, <4>2 DEF Ending
    <3>3. CASE r \in Ids /\ r \in cancelled
      BY <1>3, <3>1, <3>3 DEF Ending
    <3>4. CASE r \in failing
      BY <1>3, <3>1, <3>4 DEF Ending
    <3> QED
      BY <1>0, <1>6, <3>2, <3>3, <3>4 DEF Agreement
  <2>3. \A r \in known' : outcome'[r] = "none" /\ accepted'[r] < MaxTokens[r]
    BY <1>0 DEF Agreement
  <2>4. \A r \in Requests : \A i \in DOMAIN events'[r] :
           events'[r][i].kind = "cancelled" => r \in cancelled'
    <3> SUFFICES ASSUME NEW r \in Requests, NEW i \in DOMAIN events'[r],
                        events'[r][i].kind = "cancelled", r \notin cancelled
                 PROVE  FALSE
      BY <1>0
    <3>1. i \in DOMAIN events[r] /\ events'[r][i] = events[r][i]
      BY <1>3 DEF Ended
    <3> QED
      BY <1>0, <3>1 DEF Agreement
  <2>5. \A r \in Requests \ known' : outcome'[r] = "none" =>
         /\ accepted'[r] = 0 /\ generated'[r] = 0
         /\ r \notin Ids' \union started' \union cancelled' \union finished'
    <3> SUFFICES ASSUME NEW r \in Requests \ known, outcome[r] = "none"
                 PROVE  /\ accepted'[r] = 0 /\ generated'[r] = 0
                        /\ r \notin Ids' \union started' \union cancelled' \union finished'
      BY <1>0
    <3>1. /\ accepted[r] = 0 /\ generated[r] = 0
          /\ r \notin Ids \union started \union cancelled \union finished
      BY <1>0 DEF Agreement
    <3>2. r \notin Selected(inflight)
      BY <1>0, <3>1 DEF Ids
    <3> QED
      BY <1>0, <1>6, <3>1, <3>2
  <2>6. \A r \in waiting' : generated'[r] = 0 /\ r \notin started'
    <3>1. \A r \in waiting' : r \in Requests \ Selected(inflight) /\ r \in waiting
      BY <1>0, <1>6 DEF Holding, Typed
    <3> QED
      BY <1>0, <3>1 DEF Agreement
  <2> QED
    BY <2>1, <2>2, <2>3, <2>4, <2>5, <2>6 DEF Agreement
<1> QED
  BY <1>3, <1>4, <1>5, <1>7, <1>8

LEMMA ResolveFailsStep == ASSUME IInv, ResolveFails PROVE IInv'
<1>0. /\ Typed /\ Control /\ Holding /\ Agreement /\ Progress /\ Streams
      /\ pc = "resolve" /\ pc' = "select" /\ inflight # NoBatch
      /\ finished' = finished \union Selected(inflight)
      /\ Drop(Ids \intersect (cancelled \union finished')) /\ EndStep
      /\ UNCHANGED <<mode, orderVars, workVars, cancelled, batch, resolved, rows, runtimeVars>>
  BY DEF IInv, ResolveFails
<1> USE DEF orderVars, workVars, runtimeVars
<1>1. DOMAIN resolved = {} /\ DOMAIN resolved' = {}
  BY <1>0 DEF Control
<1>2. /\ events' \in [Requests -> Seq(EventSet)]
      /\ \A r \in Requests : \A i \in DOMAIN events'[r] : ~TokenAt(r, i)'
      /\ Control' /\ Holding' /\ Agreement'
  BY <1>0, <1>1, StepEnds DEF ResolveFails
<1>3. Typed'
  <2>1. Selected(inflight) \subseteq Requests
    BY <1>0 DEF Typed, BatchType
  <2> QED
    BY <1>0, <1>2, <2>1, EmptyBatch DEF Typed, BatchType, Selected, LastRound, Steps, Drop, EndStep
<1>4. Progress'
  BY <1>0, <1>2, EmptyBatch
     DEF Progress, Prefilling, Decoding, Fits, Grown, Selected, Executed, Chunk, Drop, EndStep
<1>5. Streams'
  <2>1. \A r \in known : generated[r] = accepted[r]
    BY <1>0, <1>1 DEF Streams, OneToken, Yielded, TokenAt, Typed
  <2> QED
    BY <1>0, <1>1, <1>2, <2>1 DEF Streams, OneToken, Yielded, Typed
<1> QED
  BY <1>2, <1>3, <1>4, <1>5 DEF IInv

LEMMA ResolveStep ==
    ASSUME IInv, NEW token \in [Executed(inflight) -> Tokens], Resolve(token) PROVE IInv'
<1> DEFINE b == [inflight EXCEPT !.token = token]
<1>0. /\ Typed /\ Control /\ Holding /\ Agreement /\ Progress /\ Streams
      /\ pc = "resolve" /\ pc' = "select" /\ inflight # NoBatch
      /\ rows' = Committed(b) /\ Advance(b)
      /\ resolved' = [r \in Succeeded(b) |-> IF r \in Yields(b) THEN token[r] ELSE "none"]
      /\ events' = AddEvent(AddEvent(events, Applied(b) \intersect b.bad, Failure),
                            Ids \intersect cancelled, Cancellation)
      /\ Drop(Ids \intersect (cancelled \union finished')) /\ EndStep
      /\ UNCHANGED <<mode, orderVars, cancelled, batch, runtimeVars>>
  BY DEF IInv, Resolve
<1>1. /\ BatchType(b) /\ b.work = inflight.work /\ b.bad = inflight.bad /\ b.token = token
      /\ b.bad \subseteq Selected(inflight)
  <2>1. BatchType(inflight) /\ inflight.bad \in SUBSET Selected(inflight)
    BY <1>0 DEF Typed, BatchType
  <2> QED
    BY <2>1 DEF BatchType, Selected
<1> HIDE DEF b
<1>2. /\ Selected(b) = Selected(inflight) /\ Executed(b) = Executed(inflight)
      /\ Fits(b) /\ Selected(b) \subseteq running /\ Selected(b) \subseteq Requests
  BY <1>0, <1>1 DEF Selected, Executed, Progress, Fits, Holding, Typed
<1>3. /\ Succeeded(b) = Executed(b) \ (cancelled \union finished)
      /\ Succeeded(b) \subseteq Executed(b) /\ Succeeded(b) \subseteq Selected(b)
      /\ Yields(b) \subseteq Succeeded(b) /\ finished' = finished \union (Applied(b) \intersect b.bad)
      /\ Applied(b) \intersect b.bad \subseteq Selected(inflight)
  BY <1>0, <1>2 DEF Succeeded, Executed, Applied, Yields, Advance
<1>4. \A r \in Succeeded(b) :
        /\ Prefilling(r)' \/ Decoding(r)'
        /\ position'[r] = rows'[r]
        /\ r \in Yields(b) <=> r \in started'
        /\ r \in Yields(b) => generated'[r] = generated[r] + 1
        /\ r \notin Yields(b) => generated'[r] = generated[r]
  <2>1. \A r \in Succeeded(b) :
          rows'[r] = position[r] + (IF b.work[r] = "prefill" THEN Chunk(r) ELSE 1)
    BY <1>0, <1>1, <1>2, <1>3, RowsBound
  <2> QED
    BY <1>0, <1>1, <1>2, <2>1, Advanced
<1>5. \A r \in Requests \ Succeeded(b) :
        /\ position'[r] = position[r] /\ generated'[r] = generated[r]
        /\ r \in started' <=> r \in started
        /\ Prefilling(r) <=> Prefilling(r)'
        /\ Decoding(r) <=> Decoding(r)'
  BY <1>0, NotAdvanced
<1>6. DOMAIN resolved = {} /\ DOMAIN resolved' = Succeeded(b) /\ mode.overlap
  BY <1>0 DEF Control
<1>7. /\ events' \in [Requests -> Seq(EventSet)]
      /\ \A r \in Requests : \A i \in DOMAIN events'[r] : ~TokenAt(r, i)'
      /\ Control' /\ Holding' /\ Agreement'
  <2>1. DOMAIN resolved' \subseteq Selected(inflight) \ (cancelled \union finished')
    BY <1>2, <1>3, <1>6 DEF Executed
  <2>2. \A r \in Requests \ Selected(inflight) :
             generated'[r] = generated[r] /\ (r \in started' <=> r \in started)
    BY <1>2, <1>3, <1>5
  <2>3. Applied(b) \intersect b.bad \in SUBSET Selected(inflight)
    BY <1>3
  <2> QED
    BY <1>0, <1>3, <2>1, <2>2, <2>3, StepEnds
<1>8. Typed'
  <2>1. rows' \in [Requests -> Nat]
    BY <1>0, <1>1, <1>2, RowsBound
  <2>2. /\ cursor' \in [Requests -> Nat] /\ position' \in [Requests -> Nat]
        /\ generated' \in [Requests -> Nat] /\ started' \subseteq Requests
        /\ complete' \subseteq Requests /\ finished' \subseteq Requests
    BY <1>0, <1>1, <1>2, <2>1, AdvanceTypes
  <2>4. /\ DOMAIN resolved' \subseteq Requests
        /\ \A r \in DOMAIN resolved' : resolved'[r] \in Tokens \union {"none"}
    BY <1>0, <1>2, <1>3, <1>6
  <2> USE DEF orderVars, runtimeVars
  <2>5. waiting' \subseteq Requests /\ running' \subseteq Requests /\ held' \subseteq Requests
    BY <1>0 DEF Typed, Drop
  <2>6. /\ pinned' \subseteq Requests /\ leaked' \subseteq Requests
        /\ BatchType(inflight') /\ BatchType(batch)
    BY <1>0, EmptyBatch DEF Typed, EndStep
  <2> QED
    BY <1>0, <1>7, <2>1, <2>2, <2>4, <2>5, <2>6
       DEF Typed, BatchType, Selected, LastRound, Steps
<1>9. Progress'
  <2>1. \A r \in running' : /\ Prefilling(r)' \/ Decoding(r)'
                            /\ rows'[r] = position'[r] + Grown(r)'
    <3> SUFFICES ASSUME NEW r \in running'
                 PROVE  /\ Prefilling(r)' \/ Decoding(r)'
                        /\ rows'[r] = position'[r] + Grown(r)'
      OBVIOUS
    <3>1. /\ r \in running /\ r \notin cancelled /\ r \notin finished' /\ r \in Requests
          /\ Grown(r)' = 0 /\ rows'[r] \in Nat /\ position'[r] \in Nat
      BY <1>0, <1>8 DEF Drop, Ids, Grown, Typed
    <3>2. CASE r \in Succeeded(b)
      BY <1>4, <3>1, <3>2
    <3>3. CASE r \notin Succeeded(b)
      <4>1. r \notin Executed(b)
        BY <1>2, <1>3, <3>1, <3>3
      <4>2. rows'[r] = rows[r]
        BY <1>0, <1>1, <1>2, <3>1, <4>1, RowsBound
      <4>3. rows[r] = position[r] /\ position'[r] = position[r]
        BY <1>0, <1>5, <3>1, <3>3 DEF Progress, Grown, Typed
      <4> QED
        BY <1>0, <1>5, <3>1, <3>3, <4>2, <4>3 DEF Progress
    <3> QED
      BY <3>2, <3>3
  <2>2. Fits(inflight)' /\ Fits(batch)'
    <3>1. Selected(inflight') = {} /\ Selected(batch') = {}
      BY <1>0, EmptyBatch DEF EndStep, Control
    <3> QED
      BY <3>1 DEF Fits
  <2>3. \A r \in Requests : rows'[r] < PromptLength[r] + MaxTokens[r]
    BY <1>0, <1>1, <1>2, RowsBound
  <2>4. \A r \in Requests : generated'[r] >= MaxTokens[r] => r \in complete'
    BY <1>0, <1>6, AdvanceCompletes
  <2> QED
    BY <2>1, <2>2, <2>3, <2>4 DEF Progress
<1>10. Streams'
  <2>1. \A r \in known : generated[r] = accepted[r]
    BY <1>0, <1>6 DEF Streams, OneToken, Yielded, TokenAt, Typed
  <2>2. known' = known /\ accepted' = accepted
    BY <1>0 DEF runtimeVars
  <2>3. ASSUME NEW r \in known PROVE OneToken(r)'
    <3>1. r \in Requests /\ accepted[r] \in Nat /\ generated[r] = accepted[r]
      BY <1>0, <2>1 DEF Typed
    <3>2. Yielded(r)' <=> r \in Yields(b)
      <4>1. r \in Yields(b) => r \in Succeeded(b) /\ token[r] \in Tokens
        BY <1>2, <1>3
      <4> QED
        BY <1>0, <1>6, <4>1 DEF Yielded, Tokens
    <3>3. r \in Yields(b) => generated'[r] = accepted[r] + 1 /\ r \in started'
      BY <1>3, <1>4, <3>1
    <3>4. r \notin Yields(b) => generated'[r] = accepted[r]
      BY <1>4, <1>5, <3>1
    <3> QED
      BY <1>7, <2>2, <3>1, <3>2, <3>3, <3>4 DEF OneToken
  <2> QED
    BY <1>7, <2>2, <2>3 DEF Streams
<1> QED
  BY <1>7, <1>8, <1>9, <1>10 DEF IInv

-----------------------------------------------------------------------------
(* Selection *)

(* What the scheduler decodes still wants a token, in either mode. *)
LEMMA DecodesWant ==
    ASSUME IInv, pc = "select"
    PROVE  \A r \in Decodes : r \in running /\ Decoding(r) /\ generated[r] < MaxTokens[r]
<1>0. Typed /\ Control /\ Holding /\ Agreement /\ Progress /\ Streams
  BY DEF IInv
<1> SUFFICES ASSUME NEW r \in Decodes
             PROVE  r \in running /\ Decoding(r) /\ generated[r] < MaxTokens[r]
  OBVIOUS
<1>1. /\ r \in running /\ r \in started /\ r \notin complete /\ r \in Ids \ finished
      /\ r \in Requests /\ generated[r] \in Nat /\ MaxTokens[r] \in Nat
  BY <1>0, WorkAssumption DEF Decodes, Selectable, Typed
<1>2. Decoding(r)
  BY <1>0, <1>1 DEF Progress, Prefilling
<1>3. CASE mode.overlap
  BY <1>0, <1>1, <1>2, <1>3 DEF Progress
<1>4. CASE ~mode.overlap
  <2>1. r \in known /\ DOMAIN resolved = {} /\ accepted[r] < MaxTokens[r]
    BY <1>0, <1>1, <1>4 DEF Agreement, Control
  <2>2. generated[r] = accepted[r]
    BY <1>0, <1>1, <2>1 DEF Streams, OneToken, Yielded
  <2> QED
    BY <1>1, <1>2, <2>1, <2>2
<1> QED
  BY <1>3, <1>4

LEMMA SelectStep == ASSUME IInv, NEW probe \in Probes, Select(probe) PROVE IInv'
<1> DEFINE picked == Picked(probe)
           Supplied(f) == [r \in Requests |-> IF r \in picked \intersect waiting
                                              THEN probe[r] ELSE f[r]]
<1>0. /\ Typed /\ Control /\ Holding /\ Agreement /\ Progress /\ Streams
      /\ pc = "select" /\ pc' = "dispatch"
      /\ waiting' = waiting \ picked /\ running' = running \union picked
      /\ held' = held \union picked
      /\ cursor' = Supplied(cursor) /\ position' = Supplied(position) /\ rows' = Supplied(rows)
      /\ batch' = [NoBatch EXCEPT
                   !.work = [r \in Decodes \union picked |->
                               IF r \in Decodes THEN "decode" ELSE "prefill"]]
      /\ UNCHANGED <<mode, orderVars, generated, started, complete, flagVars, inflight,
                     resolved, events, pinned, leaked, runtimeVars>>
  BY DEF IInv, Select
<1>1. \A r \in picked : /\ r \in Ids /\ r \notin cancelled \union finished
                        /\ r \in waiting \/ cursor[r] < PromptLength[r]
                        /\ probe[r] \in Nat /\ probe[r] < PromptLength[r]
  <2>1. picked \subseteq Prefills
    BY DEF Picked
  <2>2. \A r \in Prefills : probe[r] \in Nat /\ probe[r] < PromptLength[r]
    <3>1. /\ probe \in [Prefills -> UNION {0 .. PromptLength[r] - 1 : r \in Requests}]
          /\ \A r \in DOMAIN probe : probe[r] < PromptLength[r]
      BY DEF Probes
    <3>2. \A n \in UNION {0 .. PromptLength[r] - 1 : r \in Requests} : n \in Nat
      BY WorkAssumption
    <3> QED
      BY <3>1, <3>2
  <2> QED
    BY <2>1, <2>2 DEF Prefills, Selectable
<1> HIDE DEF picked
<1> USE DEF orderVars, flagVars, runtimeVars
<1>2. /\ \A r \in picked : r \in Requests /\ PromptLength[r] \in Nat
      /\ inflight = NoBatch /\ batch = NoBatch /\ Ids \subseteq Requests
      /\ Ids' = Ids /\ picked \subseteq Ids
  BY <1>0, <1>1, WorkAssumption DEF Typed, Control, Ids
<1>3. /\ DOMAIN batch' = {"work", "bad", "token"} /\ batch'.bad = {}
      /\ Selected(batch') = Decodes \union picked
      /\ \A r \in Decodes : batch'.work[r] = "decode"
      /\ \A r \in picked \ Decodes : batch'.work[r] = "prefill"
  BY <1>0 DEF NoBatch, Selected
<1>4. \A r \in Decodes : r \in running /\ Decoding(r) /\ generated[r] < MaxTokens[r]
  BY <1>0, DecodesWant
<1>5. \A r \in Decodes : r \notin waiting /\ r \notin cancelled \union finished /\ r \in Requests
  BY <1>0, <1>4 DEF Holding, Decodes, Selectable, Typed
<1>6. ASSUME NEW r \in picked
      PROVE  Prefilling(r)' /\ rows'[r] = position'[r] /\ rows'[r] < PromptLength[r]
             /\ rows'[r] \in Nat /\ r \notin Decodes
  <2>1. CASE r \in waiting
    <3>1. /\ cursor'[r] = probe[r] /\ position'[r] = probe[r] /\ rows'[r] = probe[r]
          /\ generated'[r] = 0 /\ r \notin started'
      BY <1>0, <1>2, <2>1 DEF Agreement
    <3> QED
      BY <1>1, <1>5, <2>1, <3>1 DEF Prefilling
  <2>2. CASE r \notin waiting
    <3>1. /\ cursor'[r] = cursor[r] /\ position'[r] = position[r] /\ rows'[r] = rows[r]
          /\ generated'[r] = generated[r] /\ started' = started
      BY <1>0, <1>2, <2>2
    <3>2. r \in running /\ cursor[r] < PromptLength[r] /\ rows[r] \in Nat /\ position[r] \in Nat
          /\ PromptLength[r] \in Nat /\ cursor[r] \in Nat
      BY <1>0, <1>1, <1>2, <2>2 DEF Ids, Typed
    <3>3. Prefilling(r) /\ rows[r] = position[r] /\ r \notin Decodes
      BY <1>0, <1>4, <3>2 DEF Progress, Decoding, Grown
    <3> QED
      BY <3>1, <3>2, <3>3 DEF Prefilling
  <2> QED
    BY <2>1, <2>2
<1>7. ASSUME NEW r \in Requests, r \notin picked
      PROVE  /\ Prefilling(r) <=> Prefilling(r)'
             /\ Decoding(r) <=> Decoding(r)'
             /\ rows'[r] = rows[r] /\ position'[r] = position[r]
  BY <1>0, <1>7 DEF Prefilling, Decoding
<1>8. Typed'
  <2>1. /\ cursor' \in [Requests -> Nat] /\ position' \in [Requests -> Nat]
        /\ rows' \in [Requests -> Nat]
    BY <1>0, <1>1 DEF Typed
  <2>2. BatchType(batch')
    BY <1>2, <1>3, <1>5 DEF BatchType, Selected
  <2>3. waiting' \subseteq Requests /\ running' \subseteq Requests /\ held' \subseteq Requests
    BY <1>0, <1>2 DEF Typed
  <2> QED
    BY <1>0, <2>1, <2>2, <2>3 DEF Typed, BatchType, Selected, LastRound, Steps
<1>9. Control'
  BY <1>0, <1>2 DEF Control
<1>10. Holding'
  <2>1. Selected(batch') \subseteq running'
    BY <1>0, <1>3, <1>4
  <2>2. Selected(batch') \intersect (cancelled' \union finished') = {}
    BY <1>0, <1>1, <1>3, <1>5
  <2>3. UNCHANGED <<Selected(inflight), Executed(inflight)>>
    BY <1>0 DEF Selected, Executed
  <2>4. waiting' \intersect running' = {} /\ running' \subseteq held' /\ running \subseteq running'
    BY <1>0 DEF Holding
  <2> QED
    BY <1>0, <2>1, <2>2, <2>3, <2>4 DEF Holding
<1>11. Agreement'
  BY <1>0, <1>2 DEF Agreement, Ending
<1>12. Progress'
  <2>1. \A r \in running' : /\ Prefilling(r)' \/ Decoding(r)'
                            /\ rows'[r] = position'[r] + Grown(r)'
    <3> SUFFICES ASSUME NEW r \in running'
                 PROVE  /\ Prefilling(r)' \/ Decoding(r)'
                        /\ rows'[r] = position'[r] + Grown(r)'
      OBVIOUS
    <3>1. Grown(r)' = 0 /\ Grown(r) = 0 /\ r \in Requests /\ position'[r] \in Nat
      BY <1>0, <1>8 DEF Grown, Typed
    <3>2. CASE r \in picked
      BY <1>6, <3>1, <3>2
    <3>3. CASE r \notin picked
      <4>1. r \in running
        BY <1>0, <3>3
      <4> QED
        BY <1>0, <1>7, <3>1, <3>3, <4>1 DEF Progress
    <3> QED
      BY <3>2, <3>3
  <2>2. Fits(batch)'
    <3> SUFFICES ASSUME NEW r \in Selected(batch')
                 PROVE  IF batch'.work[r] = "prefill" THEN Prefilling(r)'
                        ELSE Decoding(r)' /\ generated'[r] < MaxTokens[r]
      BY DEF Fits
    <3>1. CASE r \in Decodes
      <4>1. r \notin picked /\ r \in Requests /\ generated' = generated
        BY <1>0, <1>5, <1>6, <3>1
      <4> QED
        BY <1>3, <1>4, <1>7, <3>1, <4>1
    <3>2. CASE r \notin Decodes
      BY <1>3, <1>6, <3>2
    <3> QED
      BY <3>1, <3>2
  <2>3. Fits(inflight)'
    <3>1. Selected(inflight') = {}
      BY <1>0, <1>2, EmptyBatch
    <3> QED
      BY <3>1 DEF Fits
  <2>4. \A r \in Requests : rows'[r] < PromptLength[r] + MaxTokens[r]
    <3> SUFFICES ASSUME NEW r \in Requests PROVE rows'[r] < PromptLength[r] + MaxTokens[r]
      OBVIOUS
    <3>1. PromptLength[r] \in Nat /\ MaxTokens[r] \in Nat
      BY WorkAssumption
    <3>2. CASE r \in picked
      BY <1>6, <3>1, <3>2
    <3> QED
      BY <1>0, <1>7, <3>2 DEF Progress
  <2>5. mode'.overlap => \A r \in Requests : generated'[r] >= MaxTokens[r] => r \in complete'
    BY <1>0 DEF Progress
  <2> QED
    BY <2>1, <2>2, <2>3, <2>4, <2>5 DEF Progress
<1>13. Streams'
  BY <1>0, StreamsFrame
<1> QED
  BY <1>8, <1>9, <1>10, <1>11, <1>12, <1>13 DEF IInv

-----------------------------------------------------------------------------
(* Execution *)

LEMMA ExecuteStep ==
    ASSUME IInv, NEW bad \in SUBSET Selected(batch),
           NEW token \in [Selected(batch) \ bad -> Tokens], Execute(bad, token)
    PROVE  IInv'
<1> DEFINE b == [batch EXCEPT !.bad = bad, !.token = token]
<1>0. /\ Typed /\ Control /\ Holding /\ Agreement /\ Progress /\ Streams
      /\ pc = "dispatch" /\ pc' = "emit" /\ Synchronous(b) /\ batch' = b /\ rows' = Committed(b)
      /\ UNCHANGED <<queueVars, mode, orderVars, workVars, flagVars, inflight, resolved,
                     events, pinned, leaked, runtimeVars>>
  BY DEF IInv, Execute
<1>1. BatchType(b) /\ b.work = batch.work /\ b.bad = bad /\ b.token = token
  <2>1. BatchType(batch)
    BY <1>0 DEF Typed
  <2> QED
    BY <2>1 DEF BatchType, Selected
<1> HIDE DEF b
<1>2. /\ Selected(b) = Selected(batch) /\ Executed(b) = Selected(batch) \ bad
      /\ Fits(b) /\ Selected(b) \subseteq running /\ Selected(b) \subseteq Requests
      /\ inflight = NoBatch
  BY <1>0, <1>1 DEF Selected, Executed, Progress, Fits, Holding, BatchType, Control
<1> USE DEF queueVars, orderVars, workVars, flagVars, runtimeVars
<1>3. /\ rows' \in [Requests -> Nat]
      /\ \A r \in Requests : rows'[r] < PromptLength[r] + MaxTokens[r]
      /\ \A r \in Executed(b) :
           rows'[r] = position[r] + (IF b.work[r] = "prefill" THEN Chunk(r) ELSE 1)
      /\ \A r \in Requests \ Executed(b) : rows'[r] = rows[r]
  BY <1>0, <1>1, <1>2, RowsBound
<1>4. Typed'
  BY <1>0, <1>1, <1>3 DEF Typed, BatchType, Selected, LastRound, Steps
<1>5. Control'
  <2>1. \A r \in Executed(batch') : batch'.token[r] \in Tokens
    BY <1>0, <1>1, <1>2
  <2>2. mode.overlap => \A r \in Executed(batch') : batch'.work[r] = "prefill"
    BY <1>0, <1>1, <1>2 DEF Synchronous, Overlap
  <2> QED
    BY <1>0, <1>2, <2>1, <2>2 DEF Control
<1>6. Holding'
  <2>1. UNCHANGED <<Selected(inflight), Executed(inflight)>> /\ Selected(batch') = Selected(batch)
    BY <1>0, <1>2 DEF Selected, Executed
  <2> QED
    BY <1>0, <2>1 DEF Holding
<1>7. Agreement'
  BY <1>0, AgreementFrame
<1>8. Progress'
  <2>1. \A r \in Requests : /\ Prefilling(r) <=> Prefilling(r)'
                            /\ Decoding(r) <=> Decoding(r)'
                            /\ Chunk(r)' = Chunk(r)
    BY <1>0 DEF Prefilling, Decoding, Chunk
  <2>2. \A r \in running' : /\ Prefilling(r)' \/ Decoding(r)'
                            /\ rows'[r] = position'[r] + Grown(r)'
    <3> SUFFICES ASSUME NEW r \in running
                 PROVE  /\ Prefilling(r)' \/ Decoding(r)'
                        /\ rows'[r] = position'[r] + Grown(r)'
      BY <1>0
    <3>1. r \in Requests /\ position'[r] = position[r]
      BY <1>0 DEF Typed
    <3>2. r \in Executed(b) => rows'[r] = position'[r] + Grown(r)'
      BY <1>0, <1>3, <2>1, <3>1 DEF Grown
    <3>3. r \notin Executed(b) => rows'[r] = position'[r] + Grown(r)'
      BY <1>0, <1>3, <3>1 DEF Grown, Progress
    <3> QED
      BY <1>0, <2>1, <3>1, <3>2, <3>3 DEF Progress
  <2>3. Fits(inflight)' /\ Fits(batch)'
    <3>1. Selected(inflight') = {}
      BY <1>0, <1>2, EmptyBatch
    <3> QED
      BY <1>0, <1>2, <2>1, <3>1 DEF Fits
  <2> QED
    BY <1>0, <1>3, <2>2, <2>3 DEF Progress
<1>9. Streams'
  BY <1>0, StreamsFrame
<1> QED
  BY <1>4, <1>5, <1>6, <1>7, <1>8, <1>9 DEF IInv

LEMMA DispatchStep ==
    ASSUME IInv, NEW bad \in SUBSET Selected(batch), Dispatch(bad) PROVE IInv'
<1> DEFINE b == [batch EXCEPT !.bad = bad]
<1>0. /\ Typed /\ Control /\ Holding /\ Agreement /\ Progress /\ Streams
      /\ pc = "dispatch" /\ pc' = "emit" /\ ~Synchronous(b) /\ inflight' = b /\ batch' = NoBatch
      /\ pinned' = pinned \union Executed(b)
      /\ UNCHANGED <<queueVars, mode, orderVars, workVars, flagVars, resolved, events,
                     leaked, rows, runtimeVars>>
  BY DEF IInv, Dispatch
<1>1. BatchType(b) /\ b.work = batch.work /\ b.bad = bad
  <2>1. BatchType(batch)
    BY <1>0 DEF Typed
  <2> QED
    BY <2>1 DEF BatchType, Selected
<1> HIDE DEF b
<1>2. /\ Selected(b) = Selected(batch) /\ Executed(b) \subseteq Selected(b)
      /\ Fits(b) /\ Selected(b) \subseteq running /\ Selected(b) \subseteq Requests
      /\ inflight = NoBatch /\ mode.overlap
  BY <1>0, <1>1 DEF Selected, Executed, Progress, Fits, Holding, BatchType, Control, Synchronous, Overlap
<1>3. /\ Selected(batch') = {} /\ Executed(batch') = {} /\ Selected(inflight) = {}
      /\ Executed(inflight) = {}
  BY <1>0, <1>2, EmptyBatch
<1> USE DEF queueVars, orderVars, workVars, flagVars, runtimeVars
<1>4. Typed'
  BY <1>0, <1>1, <1>2, EmptyBatch DEF Typed, BatchType, Selected, LastRound, Steps
<1>5. Control'
  BY <1>0, <1>2, <1>3 DEF Control
<1>6. Holding'
  BY <1>0, <1>2, <1>3 DEF Holding
<1>7. Agreement'
  BY <1>0, AgreementFrame
<1>8. Progress'
  <2>1. \A r \in Requests : /\ Prefilling(r) <=> Prefilling(r)'
                            /\ Decoding(r) <=> Decoding(r)'
                            /\ Grown(r)' = Grown(r)
    BY <1>0, <1>3 DEF Prefilling, Decoding, Grown
  <2>2. \A r \in running' : /\ Prefilling(r)' \/ Decoding(r)'
                            /\ rows'[r] = position'[r] + Grown(r)'
    BY <1>0, <2>1 DEF Progress, Typed
  <2>3. Fits(inflight)' /\ Fits(batch)'
    BY <1>0, <1>2, <1>3, <2>1 DEF Fits
  <2> QED
    BY <1>0, <2>2, <2>3 DEF Progress
<1>9. Streams'
  BY <1>0, StreamsFrame
<1> QED
  BY <1>4, <1>5, <1>6, <1>7, <1>8, <1>9 DEF IInv

(***************************************************************************)
(* The batch fails.  A reservation that mx.async_eval leaves behind        *)
(* belongs to requests that are finished with it.                          *)
(***************************************************************************)
LEMMA FailStep ==
    ASSUME IInv, pc = "dispatch", FailBatch, NEW left \in SUBSET Selected(batch),
           left = {} \/ mode.overlap,
           pinned' = pinned \union left, leaked' = leaked \union left
    PROVE  IInv'
<1>0. /\ Typed /\ Control /\ Holding /\ Agreement /\ Progress /\ Streams
      /\ events' = AddEvent(events, Selected(batch), Failure)
      /\ finished' = IF Overlap THEN finished \union Selected(batch) ELSE finished
      /\ batch' = NoBatch /\ pc' = "emit"
      /\ UNCHANGED <<queueVars, mode, orderVars, workVars, cancelled, inflight, resolved,
                     rows, runtimeVars>>
  BY DEF IInv, FailBatch
<1> USE DEF queueVars, orderVars, workVars, runtimeVars
<1>1. /\ inflight = NoBatch /\ Selected(inflight) = {} /\ Executed(inflight) = {}
      /\ Selected(batch') = {} /\ Executed(batch') = {}
      /\ Selected(batch) \subseteq Requests /\ Selected(batch) \subseteq running
      /\ UNCHANGED <<Selected(inflight), Executed(inflight)>>
  BY <1>0, EmptyBatch DEF Control, Typed, BatchType, Holding
<1>2. /\ events' \in [Requests -> Seq(EventSet)]
      /\ \A r \in Requests :
           /\ Kept(events[r], events'[r])
           /\ r \in Selected(batch) => \E i \in DOMAIN events'[r] : events'[r][i].kind = "error"
           /\ Ended(events[r], events'[r], {"error"})
  <2>1. events \in [Requests -> Seq(EventSet)]
    BY <1>0 DEF Typed
  <2>2. Failed(events, events', Selected(batch))
    BY <1>0, <2>1, FailuresAdded
  <2> QED
    BY <2>2 DEF Failed
<1>3. \A r \in Requests : \A i \in DOMAIN events'[r] :
        (i \in DOMAIN events[r] /\ events'[r][i] = events[r][i]) \/ events'[r][i].kind = "error"
  BY <1>2 DEF Ended
<1>4. \A r \in Requests : \A i \in DOMAIN events'[r] : ~TokenAt(r, i)'
  <2> SUFFICES ASSUME NEW r \in Requests, NEW i \in DOMAIN events'[r]
               PROVE  events'[r][i].kind # "token"
    BY DEF TokenAt
  <2>1. \A j \in DOMAIN events[r] : events[r][j].kind # "token"
    BY <1>0 DEF Streams, TokenAt
  <2> QED
    BY <1>3, <2>1
<1>5. Typed'
  BY <1>0, <1>1, <1>2, EmptyBatch DEF Typed, BatchType, Selected, LastRound, Steps
<1>6. Control'
  BY <1>0, <1>1 DEF Control
<1>7. Holding'
  <2>1. leaked' \subseteq finished'
    BY <1>0 DEF Holding, Overlap
  <2>2. pinned' = leaked' \union Executed(inflight')
    BY <1>0, <1>1 DEF Holding
  <2> QED
    BY <1>0, <1>1, <2>1, <2>2 DEF Holding
<1>8. Agreement'
  <2>1. UNCHANGED Ids /\ finished \subseteq finished' /\ finished' \subseteq finished \union Selected(batch)
    BY <1>0 DEF Ids
  <2>2. \A r \in known' : r \in Ids' \ finished' \/ Ending(r)'
    <3> SUFFICES ASSUME NEW r \in known, r \notin Ids' \ finished' PROVE Ending(r)'
      BY <1>0
    <3>1. r \in Requests
      BY <1>0 DEF Typed
    <3>2. CASE Ending(r)
      <4>1. PICK i \in DOMAIN events[r] : events[r][i].kind # "token"
        BY <3>2 DEF Ending
      <4>2. i \in DOMAIN events'[r] /\ events'[r][i] = events[r][i]
        BY <1>2, <3>1 DEF Kept
      <4> QED
        BY <4>1, <4>2 DEF Ending
    <3>3. CASE r \in Selected(batch)
      BY <1>2, <3>1, <3>3 DEF Ending
    <3> QED
      BY <1>0, <2>1, <3>2, <3>3 DEF Agreement
  <2>3. \A r \in Requests : \A i \in DOMAIN events'[r] :
           events'[r][i].kind = "cancelled" => r \in cancelled'
    <3> SUFFICES ASSUME NEW r \in Requests, NEW i \in DOMAIN events'[r],
                        events'[r][i].kind = "cancelled"
                 PROVE  r \in cancelled
      BY <1>0
    <3>1. i \in DOMAIN events[r] /\ events'[r][i] = events[r][i]
      BY <1>3
    <3> QED
      BY <1>0, <3>1 DEF Agreement
  <2>4. \A r \in Requests \ known : outcome[r] = "none" => r \notin Selected(batch)
    BY <1>0, <1>1 DEF Agreement, Ids
  <2> QED
    BY <1>0, <2>1, <2>2, <2>3, <2>4 DEF Agreement
<1>9. Progress'
  <2>1. \A r \in Requests : /\ Prefilling(r) <=> Prefilling(r)'
                            /\ Decoding(r) <=> Decoding(r)'
                            /\ Grown(r)' = Grown(r)
    BY <1>0, <1>1 DEF Prefilling, Decoding, Grown
  <2>2. \A r \in running' : /\ Prefilling(r)' \/ Decoding(r)'
                            /\ rows'[r] = position'[r] + Grown(r)'
    BY <1>0, <2>1 DEF Progress, Typed
  <2>3. Fits(inflight)' /\ Fits(batch)'
    BY <1>1 DEF Fits
  <2> QED
    BY <1>0, <2>2, <2>3 DEF Progress
<1>10. Streams'
  <2>1. UNCHANGED <<known, accepted, generated, started, resolved>>
    BY <1>0
  <2>2. \A r \in Requests : \A i \in DOMAIN events[r] : ~TokenAt(r, i)
    BY <1>0 DEF Streams
  <2>3. \A r \in Requests : Yielded(r)' <=> Yielded(r)
    BY <2>1 DEF Yielded
  <2>4. known \subseteq Requests
    BY <1>0 DEF Typed
  <2>5. \A r \in known : OneToken(r)'
    <3> SUFFICES ASSUME NEW r \in known PROVE OneToken(r)'
      OBVIOUS
    <3>1. /\ Yielded(r)' => generated'[r] = accepted'[r] + 1 /\ r \in started'
          /\ ~Yielded(r)' => generated'[r] = accepted'[r]
      BY <1>0, <2>1, <2>2, <2>3, <2>4 DEF Streams, OneToken
    <3> QED
      BY <1>4, <2>4, <3>1 DEF OneToken
  <2> QED
    BY <1>4, <2>1, <2>5 DEF Streams
<1> QED
  BY <1>5, <1>6, <1>7, <1>8, <1>9, <1>10 DEF IInv

LEMMA FailedStep ==
    ASSUME IInv, ExecuteFails \/ \E bad \in SUBSET Selected(batch) : AsyncEvalRaises(bad)
    PROVE  IInv'
<1>1. CASE ExecuteFails
  <2>1. pc = "dispatch" /\ FailBatch /\ pinned' = pinned \union {} /\ leaked' = leaked \union {}
    BY <1>1 DEF ExecuteFails
  <2> QED
    BY <2>1, FailStep
<1>2. ASSUME NEW bad \in SUBSET Selected(batch), AsyncEvalRaises(bad) PROVE IInv'
  <2> DEFINE b == [batch EXCEPT !.bad = bad]
  <2>1. /\ pc = "dispatch" /\ FailBatch /\ mode.overlap
        /\ pinned' = pinned \union Executed(b) /\ leaked' = leaked \union Executed(b)
    BY <1>2 DEF AsyncEvalRaises, Synchronous, Overlap
  <2>2. BatchType(batch)
    BY DEF IInv, Typed
  <2>3. Executed(b) \in SUBSET Selected(batch)
    BY <2>2 DEF BatchType, Executed, Selected
  <2> HIDE DEF b
  <2> QED
    BY <2>1, <2>3, FailStep
<1> QED
  BY <1>1, <1>2

-----------------------------------------------------------------------------
(* Emission *)

(***************************************************************************)
(* The events of a request whose list had no token: at most one token is   *)
(* in it now, and a failure if it failed.                                  *)
(***************************************************************************)
Told(s, t, tokens, failed) ==
    /\ t \in Seq(EventSet) /\ Kept(s, t)
    /\ failed => \E i \in DOMAIN t : t[i].kind = "error"
    /\ \A i \in DOMAIN t : t[i].kind = "cancelled" => i \in DOMAIN s /\ t[i] = s[i]
    /\ \A i \in DOMAIN t : t[i].kind = "token" => t[i] \in tokens
    /\ \A i, j \in DOMAIN t : t[i].kind = "token" /\ t[j].kind = "token" => i = j
    /\ tokens # {} => \E i \in DOMAIN t : t[i].kind = "token"

LEMMA ToldOne ==
    ASSUME NEW s \in Seq(EventSet), \A i \in DOMAIN s : s[i].kind # "token",
           NEW e \in EventSet, e.kind = "token"
    PROVE  /\ Told(s, s, {}, FALSE) /\ Told(s, Append(s, e), {e}, FALSE)
           /\ Told(s, Append(s, Failure), {}, TRUE)
           /\ Told(s, Append(Append(s, e), Failure), {e}, TRUE)
<1>1. Told(s, s, {}, FALSE)
  BY DEF Told, Kept
<1>2. ASSUME NEW t, t = Append(s, e) PROVE Told(s, t, {e}, FALSE)
  BY <1>2, OneMore DEF Told, Kept
<1>3. ASSUME NEW t, t = Append(s, Failure) PROVE Told(s, t, {}, TRUE)
  BY <1>3, OneMore, EventTypes DEF Told, Kept
<1>4. ASSUME NEW t, t = Append(s, e), NEW u, u = Append(t, Failure) PROVE Told(s, u, {e}, TRUE)
  <2>1. /\ t \in Seq(EventSet) /\ DOMAIN t = 1 .. Len(s) + 1 /\ DOMAIN s = 1 .. Len(s)
        /\ Len(s) \in Nat /\ (\A i \in DOMAIN s : t[i] = s[i]) /\ t[Len(s) + 1] = e
    BY <1>4, OneMore
  <2>2. /\ u \in Seq(EventSet) /\ DOMAIN u = 1 .. Len(t) + 1 /\ DOMAIN t = 1 .. Len(t)
        /\ Len(t) \in Nat /\ (\A i \in DOMAIN t : u[i] = t[i]) /\ u[Len(t) + 1] = Failure
    BY <1>4, <2>1, OneMore, EventTypes
  <2>3. Len(t) = Len(s) + 1
    BY <1>4, AppendProperties
  <2>4. /\ \A i \in DOMAIN s : i \in DOMAIN u /\ u[i] = s[i]
        /\ u[Len(s) + 1] = e /\ u[Len(s) + 2] = Failure /\ DOMAIN u = 1 .. Len(s) + 2
    BY <2>1, <2>2, <2>3
  <2>5. \A i \in DOMAIN u : i \in DOMAIN s \/ i = Len(s) + 1 \/ i = Len(s) + 2
    BY <2>1, <2>4
  <2>6. u[Len(s) + 2].kind = "error" /\ Len(s) + 2 \in DOMAIN u /\ Len(s) + 1 \in DOMAIN u
    BY <2>1, <2>4, EventTypes
  <2>7. /\ \A i \in DOMAIN u : u[i].kind = "token" => i = Len(s) + 1
        /\ \A i \in DOMAIN u : u[i].kind = "cancelled" => i \in DOMAIN s /\ u[i] = s[i]
    BY <2>4, <2>5, <2>6
  <2> QED
    BY <2>2, <2>4, <2>6, <2>7 DEF Told, Kept
<1> QED
  BY <1>1, <1>2, <1>3, <1>4

(* The token of the batch executed in this tick. *)
Sampled(r) == [kind |-> "token", token |-> batch.token[r], nth |-> generated'[r]]
Tell(r) == IF Yielded(r) THEN {Token(r)} ELSE IF r \in Yields(batch) THEN {Sampled(r)} ELSE {}

LEMMA EmitStep == ASSUME IInv, Emit PROVE IInv'
<1>0. /\ Typed /\ Control /\ Holding /\ Agreement /\ Progress /\ Streams
      /\ pc = "emit" /\ pc' = "deliver" /\ Advance(batch)
      /\ Drop(IF Overlap THEN Reaped(Ids, finished', Selected(inflight)) ELSE {})
      /\ resolved' = <<>> /\ batch' = NoBatch
      /\ UNCHANGED <<cacheVars, mode, orderVars, cancelled, inflight, runtimeVars>>
  BY DEF IInv, Emit
<1> USE DEF cacheVars, orderVars, runtimeVars
<1>1. /\ BatchType(batch) /\ Fits(batch) /\ Selected(batch) \subseteq running
      /\ Selected(batch) \subseteq Requests /\ batch.bad \subseteq Selected(batch)
      /\ Applied(batch) = Selected(batch) /\ Succeeded(batch) = Executed(batch)
      /\ Applied(batch) \intersect batch.bad = batch.bad
      /\ Yields(batch) \subseteq Executed(batch) /\ Executed(batch) = Selected(batch) \ batch.bad
      /\ finished' = finished \union batch.bad
      /\ DOMAIN resolved' = {} /\ Selected(batch') = {} /\ Executed(batch') = {}
  BY <1>0, EmptyBatch DEF Typed, BatchType, Progress, Holding, Applied, Succeeded, Executed, Yields, Advance
<1>2. \A r \in Selected(batch) : r \in Ids \ finished /\ r \in known
  BY <1>0, <1>1 DEF Holding, Agreement, Ids
<1>3. rows' = rows /\ rows \in [Requests -> Nat]
  BY <1>0 DEF Typed
<1>4. \A r \in Executed(batch) :
        /\ Prefilling(r)' \/ Decoding(r)'
        /\ position'[r] = rows'[r]
        /\ r \in Yields(batch) <=> r \in started'
        /\ r \in Yields(batch) => generated'[r] = generated[r] + 1
        /\ r \notin Yields(batch) => generated'[r] = generated[r]
  <2>1. \A r \in Executed(batch) :
          rows'[r] = position[r] + (IF batch.work[r] = "prefill" THEN Chunk(r) ELSE 1)
    BY <1>0, <1>1, <1>3 DEF Progress, Grown
  <2> QED
    BY <1>0, <1>1, <2>1, Advanced
<1>5. \A r \in Requests \ Executed(batch) :
        /\ position'[r] = position[r] /\ generated'[r] = generated[r]
        /\ r \in started' <=> r \in started
        /\ Prefilling(r) <=> Prefilling(r)'
        /\ Decoding(r) <=> Decoding(r)'
  BY <1>0, <1>1, NotAdvanced
<1>6. /\ cursor' \in [Requests -> Nat] /\ position' \in [Requests -> Nat]
      /\ generated' \in [Requests -> Nat] /\ started' \subseteq Requests
      /\ complete' \subseteq Requests /\ finished' \subseteq Requests
  BY <1>0, <1>1, <1>3, AdvanceTypes
<1>7. \A r \in Yields(batch) : ~Yielded(r)
  <2> SUFFICES ASSUME NEW r \in Yields(batch), Yielded(r) PROVE FALSE
    OBVIOUS
  <2>1. r \in Executed(batch) /\ r \in Selected(batch) /\ mode.overlap
    BY <1>0, <1>1 DEF Control, Yielded
  <2>2. batch.work[r] = "prefill" /\ Prefilling(r)
    BY <1>0, <1>1, <2>1 DEF Control, Fits
  <2> QED
    BY <1>0, <1>2, <2>1, <2>2 DEF Streams, OneToken, Prefilling
<1>8. ASSUME NEW r \in Requests
      PROVE  Told(events[r], events'[r], Tell(r), r \in batch.bad)
  <2> DEFINE s == events[r]
  <2>1. s \in Seq(EventSet) /\ \A i \in DOMAIN s : s[i].kind # "token"
    BY <1>0 DEF Typed, Streams, TokenAt
  <2>2. events'[r] = s \o (IF Yielded(r) THEN <<Token(r)>> ELSE <<>>)
                       \o (IF r \in batch.bad THEN <<Failure>> ELSE <<>>)
                       \o (IF r \in Yields(batch) THEN <<Sampled(r)>> ELSE <<>>)
    BY <1>1 DEF Emit, Yielded, Sampled
  <2>3. Yielded(r) => Token(r) \in EventSet /\ Token(r).kind = "token"
    <3>1. Yielded(r) => resolved[r] \in Tokens /\ generated[r] \in Nat
      BY <1>0 DEF Typed, Yielded
    <3> QED
      BY <3>1, EventTypes DEF Token
  <2>4. r \in Yields(batch) => Sampled(r) \in EventSet /\ Sampled(r).kind = "token"
    <3>1. r \in Yields(batch) => batch.token[r] \in Tokens /\ generated'[r] \in Nat
      BY <1>0, <1>1, <1>6 DEF Control
    <3> QED
      BY <3>1, EventTypes DEF Sampled
  <2>5. r \in Yields(batch) => ~Yielded(r) /\ r \notin batch.bad
    BY <1>1, <1>7
  <2> HIDE DEF s
  <2>6. CASE Yielded(r) /\ r \in batch.bad
    <3>1. events'[r] = Append(Append(s, Token(r)), Failure) /\ Tell(r) = {Token(r)}
      BY <2>1, <2>2, <2>3, <2>5, <2>6, OneMore, EventTypes DEF Tell
    <3> QED
      BY <2>1, <2>3, <2>6, <3>1, ToldOne DEF s
  <2>7. CASE Yielded(r) /\ r \notin batch.bad
    <3>1. events'[r] = Append(s, Token(r)) /\ Tell(r) = {Token(r)}
      BY <2>1, <2>2, <2>3, <2>5, <2>7, OneMore, EventTypes DEF Tell
    <3> QED
      <4>1. Told(s, Append(s, Token(r)), {Token(r)}, FALSE)
        BY <2>1, <2>3, <2>7, ToldOne
      <4> QED
        BY <2>7, <3>1, <4>1 DEF s, Told
  <2>8. CASE ~Yielded(r) /\ r \in batch.bad
    <3>1. events'[r] = Append(s, Failure) /\ Tell(r) = {}
      BY <2>1, <2>2, <2>5, <2>8, OneMore, EventTypes DEF Tell
    <3>2. \E e \in EventSet : e.kind = "token"
      <4>1. [kind |-> "token", token |-> "text", nth |-> 0] \in EventSet
        BY DEF EventSet, Tokens
      <4> QED
        BY <4>1
    <3> QED
      BY <2>1, <2>8, <3>1, <3>2, ToldOne DEF s
  <2>9. CASE ~Yielded(r) /\ r \in Yields(batch)
    <3>1. events'[r] = Append(s, Sampled(r)) /\ Tell(r) = {Sampled(r)}
      BY <2>1, <2>2, <2>4, <2>5, <2>9, OneMore, EventTypes DEF Tell
    <3> QED
      <4>1. Told(s, Append(s, Sampled(r)), {Sampled(r)}, FALSE)
        BY <2>1, <2>4, <2>9, ToldOne
      <4> QED
        BY <2>5, <2>9, <3>1, <4>1 DEF s, Told
  <2>10. CASE ~Yielded(r) /\ r \notin batch.bad /\ r \notin Yields(batch)
    <3>1. events'[r] = s /\ Tell(r) = {}
      BY <2>1, <2>2, <2>10, OneMore, EventTypes DEF Tell
    <3> QED
      BY <2>1, <2>10, <3>1 DEF s, Told, Kept
  <2> QED
    BY <2>6, <2>7, <2>8, <2>9, <2>10
<1>9. events' \in [Requests -> Seq(EventSet)]
  <2>1. events' = [r \in Requests |-> events'[r]]
    BY DEF Emit
  <2>2. \A r \in Requests : events'[r] \in Seq(EventSet)
    BY <1>8 DEF Told
  <2> QED
    BY <2>1, <2>2
<1>10. /\ running' \subseteq running /\ waiting' \subseteq waiting /\ held' \subseteq held
       /\ Ids' \subseteq Ids /\ Ids' \ finished' = Ids \ finished'
       /\ waiting' \intersect running' = {} /\ running' \subseteq held'
       /\ Selected(inflight') \subseteq running' /\ Selected(inflight') = Selected(inflight)
       /\ Executed(inflight') = Executed(inflight)
  BY <1>0 DEF Holding, Drop, Ids, Reaped, Selected, Executed
<1>11. Typed'
  <2>1. BatchType(inflight') /\ BatchType(batch')
    BY <1>0, EmptyBatch DEF Typed
  <2> QED
    BY <1>0, <1>1, <1>3, <1>6, <1>9, <1>10, <2>1 DEF Typed, LastRound, Steps
<1>12. Control'
  BY <1>0, <1>1 DEF Control
<1>13. Holding'
  BY <1>0, <1>1, <1>10 DEF Holding
<1>14. Agreement'
  <2>1. \A r \in known' : r \in Ids' \ finished' \/ Ending(r)'
    <3> SUFFICES ASSUME NEW r \in known, r \notin Ids' \ finished' PROVE Ending(r)'
      BY <1>0
    <3>1. r \in Requests
      BY <1>0 DEF Typed
    <3>2. CASE Ending(r)
      <4>1. PICK i \in DOMAIN events[r] : events[r][i].kind # "token"
        BY <3>2 DEF Ending
      <4>2. i \in DOMAIN events'[r] /\ events'[r][i] = events[r][i]
        BY <1>8, <3>1 DEF Told, Kept
      <4> QED
        BY <4>1, <4>2 DEF Ending
    <3>3. CASE r \in batch.bad
      BY <1>8, <3>1, <3>3 DEF Ending, Told
    <3> QED
      BY <1>0, <1>1, <1>10, <3>2, <3>3 DEF Agreement
  <2>2. \A r \in Requests : \A i \in DOMAIN events'[r] :
           events'[r][i].kind = "cancelled" => r \in cancelled'
    <3> SUFFICES ASSUME NEW r \in Requests, NEW i \in DOMAIN events'[r],
                        events'[r][i].kind = "cancelled"
                 PROVE  r \in cancelled
      BY <1>0
    <3>1. i \in DOMAIN events[r] /\ events'[r][i] = events[r][i]
      BY <1>8 DEF Told
    <3> QED
      BY <1>0, <3>1 DEF Agreement
  <2>3. \A r \in Requests \ known : outcome[r] = "none" =>
         /\ accepted[r] = 0 /\ generated'[r] = 0
         /\ r \notin Ids' \union started' \union cancelled \union finished'
    <3> SUFFICES ASSUME NEW r \in Requests \ known, outcome[r] = "none"
                 PROVE  /\ accepted[r] = 0 /\ generated'[r] = 0
                        /\ r \notin Ids' \union started' \union cancelled \union finished'
      OBVIOUS
    <3>1. /\ accepted[r] = 0 /\ generated[r] = 0
          /\ r \notin Ids \union started \union cancelled \union finished
      BY <1>0 DEF Agreement
    <3>2. r \notin Selected(batch)
      BY <1>2
    <3> QED
      BY <1>1, <1>5, <1>10, <3>1, <3>2
  <2>4. \A r \in waiting' : generated'[r] = 0 /\ r \notin started'
    <3>1. \A r \in waiting' : r \in Requests \ Selected(batch) /\ r \in waiting
      BY <1>0, <1>1, <1>10 DEF Holding, Typed
    <3> QED
      BY <1>0, <1>1, <1>5, <3>1 DEF Agreement
  <2>5. Ids' \ finished' \subseteq known
    BY <1>0, <1>1, <1>10 DEF Agreement
  <2>6. \A r \in known : outcome[r] = "none" /\ accepted[r] < MaxTokens[r]
    BY <1>0 DEF Agreement
  <2>7. known' = known /\ outcome' = outcome /\ accepted' = accepted /\ cancelled' = cancelled
    BY <1>0
  <2> QED
    BY <2>1, <2>2, <2>3, <2>4, <2>5, <2>6, <2>7 DEF Agreement
<1>15. Progress'
  <2>1. \A r \in running' : /\ Prefilling(r)' \/ Decoding(r)'
                            /\ rows'[r] = position'[r] + Grown(r)'
    <3> SUFFICES ASSUME NEW r \in running'
                 PROVE  /\ Prefilling(r)' \/ Decoding(r)'
                        /\ rows'[r] = position'[r] + Grown(r)'
      OBVIOUS
    <3>1. /\ r \in running /\ r \in Requests
          /\ Grown(r)' = 0 /\ rows'[r] \in Nat /\ position'[r] \in Nat
      BY <1>0, <1>10, <1>11 DEF Grown, Typed
    <3>2. CASE r \in Executed(batch)
      BY <1>4, <3>1, <3>2
    <3>3. CASE r \notin Executed(batch)
      <4>1. rows[r] = position[r] /\ position'[r] = position[r]
        BY <1>0, <1>5, <3>1, <3>3 DEF Progress, Grown, Typed
      <4> QED
        BY <1>0, <1>3, <1>5, <3>1, <3>3, <4>1 DEF Progress
    <3> QED
      BY <3>2, <3>3
  <2>2. Fits(batch)'
    BY <1>1 DEF Fits
  <2>3. Fits(inflight)'
    <3>1. CASE inflight = NoBatch
      BY <1>0, <3>1, EmptyBatch DEF Fits
    <3>2. CASE inflight # NoBatch
      <4>1. batch = NoBatch /\ Executed(batch) = {}
        BY <1>0, <3>2, EmptyBatch DEF Control
      <4>2. Selected(inflight) \subseteq Requests
        BY <1>0 DEF Typed, BatchType
      <4> QED
        BY <1>0, <1>5, <1>10, <4>1, <4>2 DEF Fits, Progress
    <3> QED
      BY <3>1, <3>2
  <2>4. mode.overlap => \A r \in Requests : generated'[r] >= MaxTokens[r] => r \in complete'
    BY <1>0, AdvanceCompletes
  <2> QED
    BY <1>0, <1>3, <2>1, <2>2, <2>3, <2>4 DEF Progress
<1>16. Streams'
  <2>1. ASSUME NEW r \in known PROVE OneToken(r)'
    <3>1. /\ r \in Requests /\ accepted'[r] = accepted[r] /\ ~Yielded(r)'
          /\ accepted[r] \in Nat /\ generated[r] \in Nat
      BY <1>0, <1>1 DEF Typed, Yielded
    <3>2. /\ Yielded(r) => generated[r] = accepted[r] + 1
          /\ ~Yielded(r) => generated[r] = accepted[r]
      BY <1>0, <3>1 DEF Streams, OneToken
    <3>3. /\ Yielded(r) => generated'[r] = accepted[r] + 1
          /\ r \in Yields(batch) => generated'[r] = accepted[r] + 1
          /\ ~Yielded(r) /\ r \notin Yields(batch) => generated'[r] = accepted[r]
      BY <1>1, <1>4, <1>5, <1>7, <3>1, <3>2
    <3>4. \A e \in Tell(r) : e.nth = accepted[r] + 1
      BY <3>2, <3>3 DEF Tell, Token, Sampled
    <3>5. Tell(r) # {} <=> Yielded(r) \/ r \in Yields(batch)
      BY DEF Tell
    <3>6. Told(events[r], events'[r], Tell(r), r \in batch.bad)
      BY <1>8, <3>1
    <3>7. \A i \in DOMAIN events'[r] :
            TokenAt(r, i)' => /\ events'[r][i].nth = accepted'[r] + 1
                              /\ generated'[r] = accepted'[r] + 1
                              /\ \A j \in DOMAIN events'[r] : TokenAt(r, j)' => j = i
      <4> SUFFICES ASSUME NEW i \in DOMAIN events'[r], events'[r][i].kind = "token"
                   PROVE  /\ events'[r][i].nth = accepted'[r] + 1
                          /\ generated'[r] = accepted'[r] + 1
                          /\ \A j \in DOMAIN events'[r] : TokenAt(r, j)' => j = i
        BY DEF TokenAt
      <4>1. events'[r][i] \in Tell(r)
        BY <3>6 DEF Told
      <4>2. \A j \in DOMAIN events'[r] : TokenAt(r, j)' => j = i
        BY <3>6 DEF Told, TokenAt
      <4> QED
        BY <3>1, <3>3, <3>4, <3>5, <4>1, <4>2
    <3>8. (\A i \in DOMAIN events'[r] : ~TokenAt(r, i)') => generated'[r] = accepted'[r]
      BY <3>1, <3>3, <3>5, <3>6 DEF Told, TokenAt
    <3> QED
      BY <3>1, <3>7, <3>8 DEF OneToken
  <2> QED
    BY <1>0, <2>1 DEF Streams
<1> QED
  BY <1>11, <1>12, <1>13, <1>14, <1>15, <1>16 DEF IInv

-----------------------------------------------------------------------------
(* Delivery *)

LEMMA TailOf ==
    ASSUME NEW s \in Seq(EventSet), s # <<>>
    PROVE  /\ Tail(s) \in Seq(EventSet) /\ Head(s) = s[1] /\ s[1] \in EventSet /\ 1 \in DOMAIN s
           /\ \A i \in DOMAIN Tail(s) : /\ i + 1 \in DOMAIN s /\ i + 1 # 1
                                        /\ Tail(s)[i] = s[i + 1]
           /\ \A i \in DOMAIN s : i # 1 => i - 1 \in DOMAIN Tail(s) /\ Tail(s)[i - 1] = s[i]
  BY HeadTailProperties, EmptySeq, LenProperties

(* What the runtime does about one event: nothing, a token or an end. *)
Ignored(r) == r \notin known /\ NoMessage /\ UNCHANGED accepted
Continued(r) ==
    /\ r \in known /\ events[r][1].kind = "token" /\ events[r][1].token = "text"
    /\ accepted' = [accepted EXCEPT ![r] = accepted[r] + 1]
    /\ accepted[r] + 1 < MaxTokens[r] /\ NoMessage
Stopped(r) ==
    /\ r \in known /\ events[r][1].kind = "token"
    /\ accepted' = [accepted EXCEPT ![r] = accepted[r] + 1]
    /\ \/ Terminate(r, "stop")
       \/ accepted[r] + 1 >= MaxTokens[r] /\ Terminate(r, "length")
Aborted(r) ==
    /\ r \in known /\ UNCHANGED accepted
    /\ \/ events[r][1].kind = "cancelled" /\ Terminate(r, "cancelled")
       \/ events[r][1].kind = "error" /\ Terminate(r, "error")

LEMMA Delivered ==
    ASSUME IInv, NEW r \in Requests, Deliver(r)
    PROVE  /\ Ignored(r) \/ Continued(r) \/ Stopped(r) \/ Aborted(r)
           /\ events[r] \in Seq(EventSet) /\ events[r] # <<>>
<1>1. events[r] \in Seq(EventSet) /\ events[r] # <<>> /\ accepted \in [Requests -> Nat]
      /\ MaxTokens[r] \in Nat
  BY WorkAssumption DEF IInv, Typed, Deliver
<1>2. Head(events[r]) = events[r][1] /\ events[r][1] \in EventSet
  BY <1>1, TailOf
<1> DEFINE e == events[r][1]
<1>3. e.kind \in {"token", "error", "cancelled"} /\ (e.kind = "token" => e.token \in Tokens)
  BY <1>2, EventTypes
<1>4. CASE r \notin known
  <2>1. NoMessage /\ UNCHANGED accepted
    BY <1>2, <1>4 DEF Deliver
  <2> QED
    BY <1>1, <1>4, <2>1 DEF Ignored
<1>5. CASE r \in known /\ e.kind = "token"
  <2>1. AcceptToken(r, e.token)
    BY <1>2, <1>5 DEF Deliver
  <2>2. e.token = "text" \/ e.token \in {"eos", "stop"}
    BY <1>3, <1>5 DEF Tokens
  <2> QED
    BY <1>1, <1>5, <2>1, <2>2 DEF AcceptToken, Continued, Stopped
<1>6. CASE r \in known /\ e.kind = "cancelled"
  <2>1. Terminate(r, "cancelled") /\ UNCHANGED accepted
    BY <1>2, <1>6 DEF Deliver
  <2> QED
    BY <1>1, <1>6, <2>1 DEF Aborted
<1>7. CASE r \in known /\ e.kind = "error"
  <2>1. Terminate(r, "error") /\ UNCHANGED accepted
    BY <1>2, <1>7 DEF Deliver
  <2> QED
    BY <1>1, <1>7, <2>1 DEF Aborted
<1> QED
  BY <1>1, <1>3, <1>4, <1>5, <1>6, <1>7

(* The end of a request changes nothing else. *)
LEMMA Ends ==
    ASSUME IInv, pc = "deliver", NEW r \in Requests, NEW reason \in Outcomes, Terminate(r, reason),
           UNCHANGED <<pc, cancelled, inflight, batch, resolved, cacheVars>>
    PROVE  /\ known' = known \ {r} /\ outcome' = [outcome EXCEPT ![r] = reason] /\ reason # "none"
           /\ waiting' \subseteq waiting /\ running' \subseteq running /\ held' \subseteq held
           /\ Ids' \subseteq Ids /\ Ids' \ finished' = (Ids \ finished) \ {r}
           /\ finished' \subseteq finished \union {r} /\ finished \subseteq finished'
           /\ Holding'
<1>1. /\ Holding /\ batch = NoBatch /\ Selected(batch) = {} /\ DOMAIN resolved = {}
      /\ known' = known \ {r} /\ outcome' = [outcome EXCEPT ![r] = reason] /\ reason # "none"
  BY EmptyBatch DEF IInv, Control, Terminate, Outcomes
<1>2. CASE r \in Selected(inflight)
  <2>1. finished' = finished \union {r} /\ UNCHANGED queueVars
    BY <1>2 DEF Terminate, Finish
  <2>2. Holding'
    BY <1>1, <2>1 DEF Holding, queueVars, cacheVars, Selected, Executed
  <2> QED
    BY <1>1, <2>1, <2>2 DEF queueVars, Ids
<1>3. CASE r \notin Selected(inflight)
  <2>1. Drop({r}) /\ finished' = finished
    BY <1>3 DEF Terminate, Finish
  <2>2. Holding'
    BY <1>1, <1>3, <2>1, DropHolds DEF cacheVars
  <2> QED
    BY <1>1, <2>1, <2>2 DEF Drop, Ids
<1> QED
  BY <1>2, <1>3

LEMMA DeliverStep == ASSUME IInv, NEW r \in Requests, Deliver(r) PROVE IInv'
<1>0. /\ Typed /\ Control /\ Holding /\ Agreement /\ Progress /\ Streams
      /\ pc = "deliver" /\ events' = [events EXCEPT ![r] = Tail(events[r])]
      /\ UNCHANGED <<pc, mode, orderVars, workVars, cancelled, inflight, batch, resolved,
                     cacheVars>>
  BY DEF IInv, Deliver
<1> USE DEF orderVars, workVars, cacheVars
<1>1. /\ Ignored(r) \/ Continued(r) \/ Stopped(r) \/ Aborted(r)
      /\ events[r] \in Seq(EventSet) /\ events[r] # <<>>
  BY Delivered
<1> DEFINE s == events[r]
           t == events'[r]
<1>2. /\ events \in [Requests -> Seq(EventSet)] /\ t = Tail(s)
      /\ \A q \in Requests \ {r} : events'[q] = events[q]
  BY <1>0 DEF Typed
<1>3. /\ t \in Seq(EventSet) /\ 1 \in DOMAIN s
      /\ \A i \in DOMAIN t : i + 1 \in DOMAIN s /\ i + 1 # 1 /\ t[i] = s[i + 1]
      /\ \A i \in DOMAIN s : i # 1 => i - 1 \in DOMAIN t /\ t[i - 1] = s[i]
  BY <1>1, <1>2, TailOf
<1>4. events' \in [Requests -> Seq(EventSet)]
  BY <1>0, <1>2, <1>3
<1>5. /\ batch = NoBatch /\ DOMAIN resolved = {} /\ DOMAIN resolved' = {}
      /\ accepted \in [Requests -> Nat] /\ outcome \in [Requests -> Outcomes \union {"none"}]
  BY <1>0 DEF Control, Typed
<1>6. ASSUME NoMessage
      PROVE  UNCHANGED <<waiting, running, held, finished, known, outcome>> /\ UNCHANGED Ids /\ Holding'
  <2>1. UNCHANGED <<waiting, running, held, finished, known, outcome>>
    BY <1>6 DEF NoMessage, queueVars
  <2> QED
    BY <1>0, <2>1, HoldingFrame DEF Ids
<1>7. \/ /\ NoMessage /\ (r \in known => Continued(r)) /\ (r \notin known => Ignored(r))
      \/ /\ r \in known /\ known' = known \ {r}
         /\ outcome' \in [Requests -> Outcomes \union {"none"}] /\ outcome'[r] # "none"
         /\ \A q \in Requests \ {r} : outcome'[q] = outcome[q] /\ accepted'[q] = accepted[q]
         /\ waiting' \subseteq waiting /\ running' \subseteq running /\ held' \subseteq held
         /\ Ids' \subseteq Ids /\ Ids' \ finished' = (Ids \ finished) \ {r}
         /\ finished' \subseteq finished \union {r} /\ finished \subseteq finished'
         /\ Holding'
  <2>1. CASE Ignored(r) \/ Continued(r)
    BY <2>1 DEF Ignored, Continued
  <2>2. CASE Stopped(r) \/ Aborted(r)
    <3>1. PICK reason \in Outcomes : Terminate(r, reason)
      BY <2>2 DEF Stopped, Aborted, Outcomes
    <3>2. r \in known /\ \A q \in Requests \ {r} : accepted'[q] = accepted[q]
      BY <1>5, <2>2 DEF Stopped, Aborted
    <3>3. /\ known' = known \ {r} /\ outcome' = [outcome EXCEPT ![r] = reason] /\ reason # "none"
          /\ waiting' \subseteq waiting /\ running' \subseteq running /\ held' \subseteq held
          /\ Ids' \subseteq Ids /\ Ids' \ finished' = (Ids \ finished) \ {r}
          /\ finished' \subseteq finished \union {r} /\ finished \subseteq finished'
          /\ Holding'
      BY <1>0, <3>1, Ends
    <3> QED
      BY <1>5, <3>2, <3>3
  <2> QED
    BY <1>1, <2>1, <2>2
<1>8. /\ waiting' \subseteq waiting /\ running' \subseteq running /\ held' \subseteq held
      /\ known' \subseteq known /\ finished' \subseteq Requests
      /\ outcome' \in [Requests -> Outcomes \union {"none"}] /\ Holding'
  BY <1>0, <1>5, <1>6, <1>7 DEF Typed
<1>9. accepted' \in [Requests -> Nat]
  BY <1>1, <1>5 DEF Ignored, Continued, Stopped, Aborted
<1>10. Typed'
  BY <1>0, <1>4, <1>8, <1>9 DEF Typed, BatchType, Selected, LastRound
<1>11. Control'
  BY <1>0, <1>5 DEF Control, Executed, Selected
<1>12. Progress'
  BY <1>0, <1>8 DEF Progress, Prefilling, Decoding, Fits, Grown, Selected, Executed, Chunk
<1>13. Agreement'
  <2>1. \A q \in Requests : \A i \in DOMAIN events'[q] :
         events'[q][i].kind = "cancelled" => q \in cancelled'
    <3> SUFFICES ASSUME NEW q \in Requests, NEW i \in DOMAIN events'[q],
                        events'[q][i].kind = "cancelled"
                 PROVE  q \in cancelled
      BY <1>0
    <3>1. CASE q = r
      <4>1. i + 1 \in DOMAIN s /\ t[i] = s[i + 1]
        BY <1>3, <3>1
      <4> QED
        BY <1>0, <3>1, <4>1 DEF Agreement
    <3>2. CASE q # r
      BY <1>0, <1>2, <3>2 DEF Agreement
    <3> QED
      BY <3>1, <3>2
  <2>2. \A q \in known \ {r} : Ending(q)' <=> Ending(q)
    BY <1>0, <1>2 DEF Ending, Typed
  <2>3. CASE NoMessage /\ r \in known
    <3>1. /\ UNCHANGED <<waiting, finished, known, outcome, Ids>>
          /\ Continued(r)
      BY <1>6, <1>7, <2>3
    <3>2. Ending(r) => Ending(r)'
      <4> SUFFICES ASSUME Ending(r) PROVE Ending(r)'
        OBVIOUS
      <4>1. PICK i \in DOMAIN s : s[i].kind # "token"
        BY DEF Ending
      <4>2. i # 1
        BY <3>1, <4>1 DEF Continued
      <4>3. i - 1 \in DOMAIN t /\ t[i - 1] = s[i]
        BY <1>3, <4>1, <4>2
      <4> QED
        BY <4>1, <4>3 DEF Ending
    <3>3. \A q \in known : q \in Ids' \ finished' \/ Ending(q)'
      BY <1>0, <2>2, <3>1, <3>2 DEF Agreement
    <3>4. /\ \A q \in known : accepted'[q] < MaxTokens[q]
          /\ \A q \in Requests \ known : accepted'[q] = accepted[q]
      BY <1>0, <1>5, <3>1 DEF Continued, Agreement, Typed
    <3> QED
      BY <1>0, <2>1, <3>1, <3>3, <3>4 DEF Agreement
  <2>4. CASE NoMessage /\ r \notin known
    <3>1. UNCHANGED <<waiting, finished, known, outcome, Ids, accepted>>
      BY <1>6, <1>7, <2>4 DEF Ignored
    <3>2. \A q \in known : q \in Ids' \ finished' \/ Ending(q)'
      BY <1>0, <2>2, <2>4, <3>1 DEF Agreement
    <3> QED
      BY <1>0, <2>1, <3>1, <3>2 DEF Agreement
  <2>5. CASE ~NoMessage
    <3>1. /\ r \in known /\ known' = known \ {r} /\ outcome'[r] # "none"
          /\ \A q \in Requests \ {r} : outcome'[q] = outcome[q] /\ accepted'[q] = accepted[q]
          /\ waiting' \subseteq waiting
          /\ Ids' \subseteq Ids /\ Ids' \ finished' = (Ids \ finished) \ {r}
          /\ finished' \subseteq finished \union {r}
      BY <1>7, <2>5
    <3>2. Ids' \ finished' \subseteq known'
      BY <1>0, <3>1 DEF Agreement
    <3>3. \A q \in known' : q \in Ids' \ finished' \/ Ending(q)'
      BY <1>0, <2>2, <3>1 DEF Agreement
    <3>4. \A q \in known' : outcome'[q] = "none" /\ accepted'[q] < MaxTokens[q]
      BY <1>0, <3>1 DEF Agreement, Typed
    <3>5. \A q \in Requests \ known' : outcome'[q] = "none" =>
            /\ accepted'[q] = 0 /\ generated'[q] = 0
            /\ q \notin Ids' \union started' \union cancelled' \union finished'
      <4> SUFFICES ASSUME NEW q \in Requests \ known', outcome'[q] = "none"
                   PROVE  /\ accepted'[q] = 0 /\ generated'[q] = 0
                          /\ q \notin Ids' \union started' \union cancelled' \union finished'
        OBVIOUS
      <4>1. q # r /\ q \notin known /\ outcome[q] = "none" /\ accepted'[q] = accepted[q]
        BY <3>1
      <4>2. /\ accepted[q] = 0 /\ generated[q] = 0
            /\ q \notin Ids \union started \union cancelled \union finished
        BY <1>0, <4>1 DEF Agreement
      <4> QED
        BY <1>0, <3>1, <4>1, <4>2
    <3>6. \A q \in waiting' : generated'[q] = 0 /\ q \notin started'
      BY <1>0, <3>1 DEF Agreement
    <3> QED
      BY <2>1, <3>2, <3>3, <3>4, <3>5, <3>6 DEF Agreement
  <2> QED
    BY <2>3, <2>4, <2>5
<1>14. Streams'
  <2>1. ASSUME NEW q \in known', q # r PROVE OneToken(q)'
    <3>1. q \in known /\ q \in Requests
      BY <1>0, <1>8, <2>1 DEF Typed
    <3>2. UNCHANGED <<accepted[q], events[q], generated, started, resolved>>
      BY <1>0, <1>2, <1>5, <1>7, <2>1, <3>1 DEF Continued, Ignored
    <3> QED
      <4>1. OneToken(q)
        BY <1>0, <3>1 DEF Streams
      <4>2. (Yielded(q)' <=> Yielded(q)) /\ \A i : TokenAt(q, i)' <=> TokenAt(q, i)
        BY <3>2 DEF Yielded, TokenAt
      <4> QED
        BY <3>2, <4>1, <4>2 DEF OneToken
  <2>2. ASSUME r \in known' PROVE OneToken(r)'
    <3>1. Continued(r) /\ r \in known
      BY <1>7, <2>2, <1>8
    <3>2. /\ s[1].kind = "token" /\ accepted'[r] = accepted[r] + 1
          /\ generated'[r] = generated[r] /\ ~Yielded(r)'
      BY <1>0, <1>5, <3>1 DEF Continued, Yielded
    <3>3. generated[r] = accepted[r] + 1 /\ \A j \in DOMAIN s : s[j].kind = "token" => j = 1
      BY <1>0, <1>3, <3>1, <3>2 DEF Streams, OneToken, TokenAt
    <3>4. \A i \in DOMAIN t : ~TokenAt(r, i)'
      BY <1>3, <3>3 DEF TokenAt
    <3> QED
      BY <3>2, <3>3, <3>4 DEF OneToken
  <2> QED
    BY <1>0, <2>1, <2>2 DEF Streams
<1> QED
  BY <1>8, <1>10, <1>11, <1>12, <1>13, <1>14 DEF IInv

-----------------------------------------------------------------------------
(* The invariant *)

LEMMA NextIInv == IInv /\ [Next]_vars => IInv'
<1> SUFFICES ASSUME IInv, [Next]_vars PROVE IInv'
  OBVIOUS
<1>1. CASE Command
  <2>1. CASE \E r \in Requests : Submit(r) \/ Refuse(r) \/ Cancel(r)
    BY <2>1, SubmitStep, RefuseStep, CancelStep
  <2> QED
    BY <1>1, <2>1, ResetStep, CloseStep DEF Command
<1>2. CASE Tick
  <2>1. CASE \E token \in [Executed(inflight) -> Tokens] : Resolve(token)
    BY <2>1, ResolveStep
  <2>2. CASE \E probe \in Probes : Select(probe)
    BY <2>2, SelectStep
  <2>3. CASE \E bad \in SUBSET Selected(batch) :
               \/ \E token \in [Selected(batch) \ bad -> Tokens] : Execute(bad, token)
               \/ Dispatch(bad)
               \/ AsyncEvalRaises(bad)
    <3>1. PICK bad \in SUBSET Selected(batch) :
               \/ \E token \in [Selected(batch) \ bad -> Tokens] : Execute(bad, token)
               \/ Dispatch(bad)
               \/ AsyncEvalRaises(bad)
      BY <2>3
    <3>2. CASE \E token \in [Selected(batch) \ bad -> Tokens] : Execute(bad, token)
      BY <3>2, ExecuteStep
    <3> QED
      BY <3>1, <3>2, DispatchStep, FailedStep
  <2>4. CASE \E r \in Requests : Deliver(r)
    BY <2>4, DeliverStep
  <2> QED
    BY <1>2, <2>1, <2>2, <2>3, <2>4, StartTickStep, IdleStep, ResolveFailsStep, FailedStep, EmitStep
       DEF Tick
<1>3. CASE UNCHANGED vars
  <2> USE <1>3 DEF vars, queueVars, orderVars, workVars, flagVars, cacheVars, runtimeVars
  <2>1. Typed'
    BY DEF IInv, Typed, BatchType, Selected, LastRound
  <2> QED
    BY <2>1, ControlFrame, HoldingFrame, AgreementFrame, ProgressFrame, StreamsFrame DEF IInv
<1> QED
  BY <1>1, <1>2, <1>3 DEF Next

LEMMA Invariant == Spec => []IInv
  BY InitIInv, NextIInv, PTL DEF Spec

LEMMA Agrees == IInv => EngineAgrees
<1> SUFFICES ASSUME IInv PROVE EngineAgrees
  OBVIOUS
<1>0. Typed /\ Control /\ Holding /\ Agreement /\ Progress /\ Streams
  BY DEF IInv
<1>1. TypeOK
  <2>1. BatchOK(inflight) /\ BatchOK(batch)
    BY <1>0 DEF Typed, BatchType, Holding, BatchOK
  <2>2. \A r \in Requests : \A i \in DOMAIN events[r] :
          events[r][i].kind \in {"token", "error", "cancelled"}
    <3> SUFFICES ASSUME NEW r \in Requests, NEW i \in DOMAIN events[r]
                 PROVE  events[r][i].kind \in {"token", "error", "cancelled"}
      OBVIOUS
    <3>1. events[r] \in Seq(EventSet)
      BY <1>0 DEF Typed
    <3>2. events[r][i] \in EventSet
      BY <3>1, ElementOfSeq, LenProperties
    <3> QED
      BY <3>2, EventTypes
  <2>3. /\ {waiting, running, started, complete, cancelled, finished, held,
            pinned, leaked, known} \subseteq SUBSET Requests
        /\ {arrival, cursor, position, generated, rows, accepted} \subseteq [Requests -> Nat]
    BY <1>0 DEF Typed
  <2> QED
    BY <1>0, <2>1, <2>2, <2>3 DEF Typed, TypeOK
<1>2. OneReservation
  BY <1>0 DEF OneReservation, Holding, Control
<1>3. UsedHandlesHeld
  BY <1>0 DEF UsedHandlesHeld, Holding
<1>4. RuntimeAgrees
  BY <1>0 DEF RuntimeAgrees, Agreement, Control, Ending, Typed
<1>5. PositionsMatch
  <2> SUFFICES ASSUME pc = "dispatch", NEW r \in Selected(batch)
               PROVE  rows[r] = IF batch.work[r] = "prefill" THEN cursor[r] ELSE position[r]
    BY <1>0 DEF PositionsMatch, Progress
  <2>1. r \in running /\ r \in Requests /\ position[r] \in Nat
    BY <1>0 DEF Holding, Typed
  <2>2. rows[r] = position[r]
    BY <1>0, <2>1 DEF Progress, Grown
  <2> QED
    BY <1>0, <2>2 DEF Progress, Fits, Prefilling
<1> QED
  BY <1>1, <1>2, <1>3, <1>4, <1>5 DEF EngineAgrees

(***************************************************************************)
(* Scheduler, executor and runtime agree in every reachable state: on the  *)
(* one outstanding reservation, on the handles in use, between ticks on    *)
(* the open requests, and on the rows of every cache, which the positions  *)
(* the scheduler puts into a batch continue and which never outgrow the    *)
(* space _validate checked.                                                *)
(***************************************************************************)
THEOREM AlwaysAgrees == Spec => []EngineAgrees
  BY Invariant, Agrees, PTL

(***************************************************************************)
(* The runtime is told every token the scheduler generated exactly once    *)
(* and in order, and no open request has max_tokens of them, although      *)
(* overlap mode dispatches a step before the results of the one before are *)
(* emitted.                                                                *)
(***************************************************************************)
THEOREM StreamsAreExact == Spec => []StreamExact
<1>1. IInv => StreamExact
  <2> SUFFICES ASSUME IInv PROVE StreamExact
    OBVIOUS
  <2>0. Typed /\ Control /\ Agreement /\ Streams
    BY DEF IInv
  <2>1. ASSUME pc = "read", NEW r \in known
        PROVE  accepted[r] = generated[r] /\ accepted[r] < MaxTokens[r]
    BY <2>0, <2>1 DEF Typed, Control, Agreement, Streams, OneToken, Yielded
  <2>2. ASSUME NEW r \in known, NEW i \in DOMAIN events[r], events[r][i].kind = "token"
        PROVE  events[r][i].nth = accepted[r] + 1
    BY <2>0, <2>2 DEF Streams, OneToken, TokenAt
  <2> QED
    BY <2>1, <2>2 DEF StreamExact
<1> QED
  BY <1>1, Invariant, PTL

-----------------------------------------------------------------------------
(* The promise to the gateway *)

(* Every step of the engine is a step of RequestLifecycle or changes nothing it sees. *)
LEMMA LifecycleStep ==
    ASSUME IInv, [Next]_vars PROVE [Lifecycle!Next]_(Lifecycle!vars)
<1> DEFINE Same == UNCHANGED <<pc # "closed", known, accepted, cancelled, outcome>>
<1>0. Typed /\ Agreement
  BY DEF IInv
<1> SUFFICES Lifecycle!Next \/ Same
  BY DEF Lifecycle!vars
<1> USE DEF queueVars, orderVars, workVars, flagVars, cacheVars, runtimeVars
<1>1. ASSUME NEW r \in Requests, Submit(r) PROVE Lifecycle!Next
  <2>1. Lifecycle!Open(r)
    BY <1>0, <1>1 DEF Submit, Agreement, Lifecycle!Open, Lifecycle!Fresh
  <2> QED
    BY <2>1 DEF Lifecycle!Next
<1>2. ASSUME NEW r \in Requests, Refuse(r) PROVE Lifecycle!Next
  <2>1. Lifecycle!Refuse(r)
    BY <1>0, <1>2 DEF Refuse, Agreement, Lifecycle!Refuse, Lifecycle!Fresh
  <2> QED
    BY <2>1 DEF Lifecycle!Next
<1>3. ASSUME NEW r \in Requests, Cancel(r) PROVE Lifecycle!Next
  <2>1. Lifecycle!Ask(r)
    BY <1>3 DEF Cancel, Lifecycle!Ask
  <2> QED
    BY <2>1 DEF Lifecycle!Next
<1>4. ASSUME Close PROVE Lifecycle!Next
  <2>1. Lifecycle!Disconnect
    BY <1>4 DEF Close, Lifecycle!Disconnect
  <2> QED
    BY <2>1 DEF Lifecycle!Next
<1>5. ASSUME NEW r \in Requests, Deliver(r) PROVE Lifecycle!Next \/ Same
  <2>0. /\ pc = "deliver" /\ pc' = "deliver" /\ cancelled' = cancelled
        /\ accepted[r] \in Nat /\ MaxTokens[r] \in Nat
    BY <1>0, <1>5, WorkAssumption DEF Deliver, Typed
  <2>1. CASE Ignored(r)
    BY <2>0, <2>1 DEF Ignored, NoMessage
  <2>2. CASE Continued(r)
    <3>1. Lifecycle!Token(r)
      BY <2>0, <2>2 DEF Continued, NoMessage, Lifecycle!Token
    <3> QED
      BY <3>1 DEF Lifecycle!Next, Lifecycle!Serve
  <2>3. CASE Stopped(r)
    <3>0. accepted[r] < MaxTokens[r] /\ r \in known
      BY <1>0, <2>3 DEF Agreement, Stopped
    <3>1. Lifecycle!LastToken(r, "stop") \/ Lifecycle!LastToken(r, "length")
      BY <2>0, <2>3, <3>0 DEF Stopped, Terminate, Lifecycle!LastToken
    <3> QED
      BY <3>1 DEF Lifecycle!Next, Lifecycle!Serve
  <2>4. CASE Aborted(r)
    <3>1. events[r][1].kind = "cancelled" => r \in cancelled
      <4>1. events[r] \in Seq(EventSet) /\ events[r] # <<>>
        BY <1>5, Delivered
      <4>2. 1 \in DOMAIN events[r]
        BY <4>1, TailOf
      <4> QED
        BY <1>0, <4>2 DEF Agreement
    <3>2. Lifecycle!End(r, "error") \/ Lifecycle!End(r, "cancelled")
      BY <2>0, <2>4, <3>1 DEF Aborted, Terminate, Lifecycle!End
    <3> QED
      BY <3>2 DEF Lifecycle!Next, Lifecycle!Serve
  <2> QED
    BY <1>5, <2>1, <2>2, <2>3, <2>4, Delivered
<1>6. ASSUME BenchmarkReset PROVE Same
  BY <1>6 DEF BenchmarkReset
<1>7. ASSUME Tick, ~\E r \in Requests : Deliver(r) PROVE Same
  <2> DEFINE Unseen == /\ known' = known /\ accepted' = accepted
                       /\ cancelled' = cancelled /\ outcome' = outcome
                       /\ pc # "closed" /\ pc' # "closed"
  <2>1. StartTick \/ NothingToResolve \/ NothingSelected \/ EndTick => Unseen
    BY DEF StartTick, NothingToResolve, NothingSelected, EndTick
  <2>2. ASSUME NEW token, Resolve(token) PROVE Unseen
    BY <2>2 DEF Resolve
  <2>3. ASSUME NEW probe, Select(probe) PROVE Unseen
    BY <2>3 DEF Select
  <2>4. ASSUME NEW bad, NEW token, Execute(bad, token) PROVE Unseen
    BY <2>4 DEF Execute
  <2>5. ASSUME NEW bad, Dispatch(bad) \/ AsyncEvalRaises(bad) PROVE Unseen
    BY <2>5 DEF Dispatch, AsyncEvalRaises, FailBatch
  <2>6. ResolveFails \/ ExecuteFails \/ Emit => Unseen
    BY DEF ResolveFails, ExecuteFails, FailBatch, Emit
  <2>7. Unseen
    BY <1>7, <2>1, <2>2, <2>3, <2>4, <2>5, <2>6 DEF Tick
  <2>8. UNCHANGED (pc # "closed")
    BY <2>7
  <2> QED
    BY <2>7, <2>8
<1>8. ASSUME UNCHANGED vars PROVE Same
  BY <1>8 DEF vars
<1> QED
  BY <1>1, <1>2, <1>3, <1>4, <1>5, <1>6, <1>7, <1>8 DEF Next, Command

(***************************************************************************)
(* The safety of what the worker promises the gateway (RequestLifecycle):  *)
(* an open request gets tokens, at most max_tokens of them, then exactly   *)
(* one terminal message and nothing after it, "length" only with the last  *)
(* token it may have and "cancelled" only if asked for.  That the message  *)
(* always comes is a matter of fairness.                                   *)
(***************************************************************************)
THEOREM KeepsLifecycleSafety == Spec => Lifecycle!Safety
<1>1. Init => Lifecycle!Init
  BY DEF Init, Lifecycle!Init
<1> QED
  BY <1>1, Invariant, LifecycleStep, PTL DEF Spec, Lifecycle!Safety

=============================================================================
