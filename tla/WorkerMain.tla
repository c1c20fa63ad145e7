----------------------------- MODULE WorkerMain -----------------------------
(***************************************************************************)
(* The v1 worker process: bootstrap, and one of its two command loops.     *)
(*                                                                         *)
(* The sequential loop runs one request at a time and looks for a cancel   *)
(* between the stages of its work (should_cancel), reading the socket      *)
(* itself: what it reads and does not want goes to pending_lines.  The     *)
(* continuous loop takes commands from a queue that a reader thread fills, *)
(* hands requests to the text and the vision scheduler and ticks both      *)
(* after every command.  TextBatch and VlmBatch model the schedulers; here *)
(* a scheduler is the set of its open requests, and a tick answers some.   *)
(* A line that is no command is answered with an error, changes nothing    *)
(* and is left out.                                                        *)
(***************************************************************************)
EXTENDS Naturals, Sequences, SequencesExt, FiniteSets

CONSTANTS
    Requests,    \* request ids
    Model(_),    \* "text", "vlm" or "other": the model a request names
    HasImages,   \* requests with images
    Streaming,   \* requests that ask for a stream
    Cancellable, \* requests whose clients may go away
    TickMax,     \* tick_max_consecutive
    MaxWire      \* bound: commands in the socket at a time

None == "none"

ASSUME WorkerMainAssumption ==
    /\ None \notin Requests
    /\ {HasImages, Streaming, Cancellable} \subseteq SUBSET Requests
    /\ TickMax \in Nat \ {0} /\ MaxWire \in Nat \ {0}

VARIABLES
    mode,        \* "sequential" or "continuous"
    phase,       \* bootstrap status, "serving", or how the process ended
    stop,        \* main's stop flag, set by SIGTERM and SIGINT
    wire,        \* commands in the socket, oldest first
    closed,      \* the gateway has closed its end
    lines,       \* pending_lines
    pc,          \* where the loop is
    cur,         \* the request the sequential loop runs, or None
    stage,       \* how far it is
    seen,        \* its should_cancel has returned True
    loaded,      \* MlxVlmEngine._initialized
    queue,       \* command_queue
    reader,      \* the reader thread lives
    vlmUp,       \* the VLM engine exists, and its scheduler
    open,        \* requests the schedulers have not answered
    pendingStop, \* pending_stop
    textFirst,   \* tick_text_first
    rounds,      \* tick_consecutive
    order,       \* requests in the order they were sent (history)
    answered,    \* requests in the order they were answered (history)
    before,      \* requests sent before the reset (history)
    dirty,       \* of those, the unanswered when it was acknowledged (history)
    late,        \* requests whose cancel was sent after them (history)
    settled      \* of those, the ones whose cancel was dealt with (history)

bootVars == <<mode, stop>>
seqVars == <<lines, cur, stage, seen, loaded>>
contVars == <<queue, reader, vlmUp, open, pendingStop, textFirst, rounds>>
sendVars == <<closed, order, before, late>>
vars == <<mode, phase, stop, wire, closed, lines, pc, cur, stage, seen, loaded,
          queue, reader, vlmUp, open, pendingStop, textFirst, rounds, order,
          answered, before, dirty, late, settled>>

Chat(r) == <<"chat", r>>
CancelOf(r) == <<"cancel", r>>
ResetCommand == <<"reset", None>>
Eof == <<"eof", None>>
Commands == {ResetCommand} \union
            {Chat(r) : r \in Requests} \union {CancelOf(r) : r \in Cancellable}

Ended == {"failed", "clean", "raised"}
Serving(m) == phase = "serving" /\ mode = m

Init ==
    /\ mode \in {"sequential", "continuous"}
    /\ phase = "loading_weights" /\ stop = FALSE
    /\ wire = <<>> /\ closed = FALSE
    /\ lines = <<>> /\ pc = "start" /\ cur = None /\ stage = "none"
    /\ seen = FALSE /\ loaded = FALSE
    /\ queue = <<>> /\ reader = FALSE /\ vlmUp = FALSE /\ open = {}
    /\ pendingStop = FALSE /\ textFirst = TRUE /\ rounds = 0
    /\ order = <<>> /\ answered = <<>> /\ before = {} /\ dirty = {}
    /\ late = {} /\ settled = {}

-----------------------------------------------------------------------------
(* The gateway. *)

(* A command is sent once the worker has said that it is ready; cancels    *)
(* come before or after their requests.                                    *)
GatewaySends(c) ==
    LET r == c[2] IN
    /\ phase = "serving" /\ ~closed /\ Len(wire) < MaxWire
    /\ c \notin ToSet(wire) \union ToSet(lines) \union ToSet(queue)
    /\ c[1] = "chat" => r \notin ToSet(order)
    /\ c[1] = "cancel" => r \notin late \union settled
    /\ c = ResetCommand => before = {}
    /\ wire' = Append(wire, c)
    /\ order' = IF c[1] = "chat" THEN Append(order, r) ELSE order
    /\ late' = IF c[1] = "cancel" /\ r \in ToSet(order) THEN late \union {r}
               ELSE late
    /\ before' = IF c = ResetCommand THEN ToSet(order) ELSE before
    /\ UNCHANGED <<phase, closed, pc, answered, dirty, settled, bootVars,
                   seqVars, contVars>>

GatewayCloses ==
    /\ ~closed
    /\ closed' = TRUE
    /\ UNCHANGED <<phase, wire, pc, order, answered, before, dirty, late,
                   settled, bootVars, seqVars, contVars>>

(* A signal only sets the flag, and only the sequential loop looks at it. *)
Sigterm ==
    /\ Serving("sequential") /\ ~stop
    /\ stop' = TRUE
    /\ UNCHANGED <<mode, phase, wire, pc, answered, dirty, settled, sendVars,
                   seqVars, contVars>>

-----------------------------------------------------------------------------
(* main: the bootstrap. *)

NextStatus == [loading_weights |-> "initializing_runtime",
               initializing_runtime |-> "warming_up", warming_up |-> "serving"]

(* Each status is sent; to a closed socket that raises. *)
BootStep ==
    /\ phase \in DOMAIN NextStatus
    /\ phase' = IF closed THEN "raised" ELSE NextStatus[phase]
    /\ pc' = IF phase' # "serving" THEN pc
             ELSE IF mode = "sequential" THEN "top" ELSE "get"
    /\ reader' = (phase' = "serving" /\ mode = "continuous")
    /\ UNCHANGED <<wire, answered, dirty, settled, sendVars, bootVars, seqVars,
                   queue, vlmUp, open, pendingStop, textFirst, rounds>>

(* The model does not load or warm up, or batching is not available. *)
BootFails ==
    /\ phase \in DOMAIN NextStatus
    /\ phase' = IF closed THEN "raised" ELSE "failed"
    /\ UNCHANGED <<wire, pc, answered, dirty, settled, sendVars, bootVars,
                   seqVars, contVars>>

-----------------------------------------------------------------------------
(* Events to the gateway; sendall to a closed socket ends the process. *)

Emit(event, next) ==
    /\ phase' = IF closed THEN "raised" ELSE phase
    /\ answered' = IF closed \/ event[2] \notin Requests THEN answered
                   ELSE Append(answered, event[2])
    /\ dirty' = IF closed \/ event # <<"reset_done", None>> THEN dirty
                ELSE before \ ToSet(answered)
    /\ pc' = next

Quiet(next) == pc' = next /\ UNCHANGED <<phase, answered, dirty>>

(* A cancel sent after its request has been dealt with. *)
Settle(r) == settled' = settled \union ({r} \intersect late)

Refused(r) == Model(r) = "other" \/ (Model(r) = "text" /\ r \in HasImages)

-----------------------------------------------------------------------------
(* The sequential loop. *)

SequentialTop ==
    /\ Serving("sequential") /\ pc = "top"
    /\ IF stop
       THEN phase' = "clean" /\ UNCHANGED pc
       ELSE pc' = "read" /\ UNCHANGED phase
    /\ UNCHANGED <<wire, answered, dirty, settled, sendVars, bootVars, seqVars,
                   contVars>>

(* Mutant: the line read last is handled first. *)
TakeNewestFirst(line) ==
    IF lines # <<>> THEN /\ line = Last(lines)
                         /\ lines' = Front(lines) /\ UNCHANGED wire
    ELSE /\ wire # <<>> /\ line = Head(wire)
         /\ wire' = Tail(wire) /\ UNCHANGED lines

(* Lines that should_cancel set aside come before new ones. *)
Take(line) ==
    IF lines # <<>> THEN /\ line = Head(lines)
                         /\ lines' = Tail(lines) /\ UNCHANGED wire
    ELSE /\ wire # <<>> /\ line = Head(wire)
         /\ wire' = Tail(wire) /\ UNCHANGED lines

(***************************************************************************)
(* One command; a cancel that gets here is for no running request and is   *)
(* dropped.  The VLM engine is made for the first request that needs it.   *)
(***************************************************************************)
SequentialRead(line) ==
    /\ Serving("sequential") /\ pc = "read"
    /\ Take(line)
    /\ \/ /\ line[1] = "chat" /\ ~Refused(line[2])
          /\ cur' = line[2] /\ seen' = FALSE
          /\ stage' = IF Model(line[2]) = "vlm" THEN "enter" ELSE "run"
          /\ vlmUp' = (vlmUp \/ Model(line[2]) = "vlm")
          /\ Quiet("run") /\ UNCHANGED settled
       \/ /\ line[1] = "chat"
          /\ Refused(line[2]) \/ (Model(line[2]) = "vlm" /\ ~vlmUp)
          /\ Emit(<<"error", line[2]>>, "top")
          /\ UNCHANGED <<cur, seen, stage, settled, vlmUp>>
       \/ /\ line[1] = "cancel"
          /\ Settle(line[2]) /\ Quiet("top")
          /\ UNCHANGED <<cur, seen, stage, vlmUp>>
       \/ /\ line = ResetCommand /\ Emit(<<"reset_done", None>>, "top")
          /\ UNCHANGED <<cur, seen, stage, settled, vlmUp>>
    /\ UNCHANGED <<loaded, sendVars, bootVars, queue, reader, open, pendingStop,
                   textFirst, rounds>>

(* Mutant: the end of the socket is taken for an empty line. *)
SequentialEofRetries ==
    /\ Serving("sequential") /\ pc = "read"
    /\ lines = <<>> /\ wire = <<>> /\ closed
    /\ pc' = "top"
    /\ UNCHANGED <<phase, wire, answered, dirty, settled, sendVars, bootVars,
                   seqVars, contVars>>

SequentialEof ==
    /\ Serving("sequential") /\ pc = "read"
    /\ lines = <<>> /\ wire = <<>> /\ closed
    /\ phase' = "clean"
    /\ UNCHANGED <<wire, pc, answered, dirty, settled, sendVars, bootVars,
                   seqVars, contVars>>

(* should_cancel: one line of the socket, if there is one. *)
Matches == wire # <<>> /\ Head(wire) = CancelOf(cur)
ShouldCancel == seen \/ Matches \/ (wire = <<>> /\ closed)
Poll ==
    /\ seen' = ShouldCancel
    /\ wire' = IF seen \/ wire = <<>> THEN wire ELSE Tail(wire)
    /\ lines' = IF seen \/ wire = <<>> \/ Matches THEN lines
                ELSE Append(lines, Head(wire))
    /\ IF ~seen /\ Matches THEN Settle(cur) ELSE UNCHANGED settled

Answer(kind) ==
    /\ Emit(<<kind, cur>>, "top")
    /\ cur' = None /\ stage' = "none"

Stages == {"enter", "load", "fresh", "loaded", "opened", "extract", "prompt"}
(* The looks for a cancel before generation, each with the one after it.   *)
(* "load" and "fresh" are those of initialize, which does nothing once the *)
(* model is loaded; "opened" is there in _stream_vlm alone.                *)
NextStage == [enter |-> IF loaded THEN "loaded" ELSE "load",
              load |-> "fresh", fresh |-> "loaded",
              loaded |-> IF cur \in Streaming THEN "opened" ELSE "extract",
              opened |-> "extract", extract |-> "prompt", prompt |-> "run"]

(***************************************************************************)
(* _generate_vlm and _stream_vlm up to generation, and initialize: a       *)
(* request cancelled before the load does not load the model, and one      *)
(* cancelled after it leaves the model loaded.                             *)
(***************************************************************************)
Prepare ==
    /\ Serving("sequential") /\ pc = "run" /\ stage \in Stages
    /\ Poll
    /\ IF ShouldCancel
       THEN Answer("cancelled") /\ UNCHANGED loaded
       ELSE /\ stage' = NextStage[stage] /\ Quiet("run")
            /\ loaded' = (loaded \/ stage = "load")
            /\ UNCHANGED cur
    /\ UNCHANGED <<sendVars, bootVars, contVars>>

(* A token of a stream: a cancel is looked for, then the delta is sent. *)
StreamToken ==
    /\ Serving("sequential") /\ pc = "run" /\ stage = "run"
    /\ cur \in Streaming
    /\ Poll
    /\ IF ShouldCancel THEN Answer("cancelled")
       ELSE /\ phase' = IF closed THEN "raised" ELSE phase
            /\ UNCHANGED <<pc, answered, dirty, cur, stage>>
    /\ UNCHANGED <<loaded, sendVars, bootVars, contVars>>

(* The engine returns or raises; without a stream nothing stops it. *)
EngineReturns ==
    /\ Serving("sequential") /\ pc = "run"
    /\ \/ stage = "run" /\ Answer("finished")
       \/ Answer("error")
    /\ UNCHANGED <<wire, lines, seen, loaded, settled, sendVars, bootVars,
                   contVars>>

-----------------------------------------------------------------------------
(* The continuous loop. *)

(* The reader thread: at the end of the socket it queues the end twice. *)
ReaderReads ==
    /\ Serving("continuous") /\ reader
    /\ IF wire # <<>>
       THEN /\ queue' = Append(queue, Head(wire)) /\ wire' = Tail(wire)
            /\ UNCHANGED reader
       ELSE /\ closed
            /\ queue' = queue \o <<Eof, Eof>> /\ reader' = FALSE
            /\ UNCHANGED wire
    /\ UNCHANGED <<phase, pc, answered, dirty, settled, sendVars, bootVars,
                   seqVars, vlmUp, open, pendingStop, textFirst, rounds>>

(* Mutant: a cancel command is given to the text scheduler only. *)
CancelTextOnly(r) ==
    /\ Settle(r)
    /\ IF r \in open /\ Model(r) = "text"
       THEN Emit(<<"cancelled", r>>, "tick") /\ open' = open \ {r}
       ELSE Quiet("tick") /\ UNCHANGED open

(* First the text scheduler, then the other: whoever has the request. *)
CancelOpen(r) ==
    /\ Settle(r)
    /\ IF r \in open
       THEN Emit(<<"cancelled", r>>, "tick") /\ open' = open \ {r}
       ELSE Quiet("tick") /\ UNCHANGED open

(* A reset is refused while a scheduler has work. *)
ResetCaches ==
    /\ Emit(IF open = {} THEN <<"reset_done", None>> ELSE <<"busy", None>>,
            "tick")
    /\ UNCHANGED <<open, settled>>

(* A request goes to the scheduler of its model; text may be too long. *)
SubmitChat(r) ==
    /\ \/ ~Refused(r) /\ open' = open \union {r} /\ Quiet("tick")
       \/ /\ Refused(r) \/ Model(r) = "text"
          /\ Emit(<<"error", r>>, "tick") /\ UNCHANGED open
    /\ UNCHANGED settled

(* The head of the queue is handled. *)
LoopGet ==
    /\ Serving("continuous") /\ pc = "get" /\ queue # <<>>
    /\ queue' = Tail(queue)
    /\ LET c == Head(queue) IN
       /\ \/ /\ c = Eof /\ Quiet("tick") /\ UNCHANGED <<open, settled>>
          \/ c = ResetCommand /\ ResetCaches
          \/ c[1] = "cancel" /\ CancelOpen(c[2])
          \/ c[1] = "chat" /\ SubmitChat(c[2])
       /\ pendingStop' = (pendingStop \/ c = Eof)
       /\ vlmUp' = (vlmUp \/ \E r \in open' : Model(r) = "vlm")
    /\ UNCHANGED <<wire, sendVars, bootVars, seqVars, reader, textFirst, rounds>>

(* The queue is empty, and only then is the reader looked at: it may have  *)
(* queued commands and ended in between.                                   *)
LoopFindsNothing ==
    /\ Serving("continuous") /\ pc = "get" /\ queue = <<>>
    /\ pc' = "empty"
    /\ UNCHANGED <<phase, wire, answered, dirty, settled, sendVars, bootVars,
                   seqVars, contVars>>

LoopLooksAtReader ==
    /\ Serving("continuous") /\ pc = "empty"
    /\ pendingStop' = (pendingStop \/ ~reader)
    /\ pc' = "tick"
    /\ UNCHANGED <<phase, wire, answered, dirty, settled, sendVars, bootVars,
                   seqVars, queue, reader, vlmUp, open, textFirst, rounds>>

(***************************************************************************)
(* tick_schedulers: both tick, in an order that changes every round, or    *)
(* after tick_max_consecutive rounds if both have work.  The requests in   *)
(* done are answered.  Then the loop ends if it is to stop and is idle.    *)
(***************************************************************************)
Ready(model) == \E r \in open : Model(r) = model
LoopTick(done) ==
    LET text == {r \in done : Model(r) = "text"}
        first == IF textFirst THEN text ELSE done \ text
        both == Ready("text") /\ Ready("vlm")
        flips == ~both \/ rounds + 1 >= TickMax IN
    /\ Serving("continuous") /\ pc = "tick"
    /\ done \subseteq open
    /\ open' = open \ done
    /\ textFirst' = (textFirst # flips)
    /\ rounds' = IF flips THEN 0 ELSE rounds + 1
    /\ IF closed /\ done # {}
       THEN phase' = "raised" /\ UNCHANGED <<pc, answered>>
       ELSE /\ answered' = answered \o SetToSeq(first) \o SetToSeq(done \ first)
            /\ phase' = IF pendingStop /\ open' = {} THEN "clean" ELSE phase
            /\ pc' = "get"
    /\ UNCHANGED <<wire, dirty, settled, sendVars, bootVars, seqVars, queue,
                   reader, vlmUp, pendingStop>>

(* The VLM engine cannot be made, or a scheduler raises. *)
LoopRaises ==
    /\ Serving("continuous")
    /\ \/ pc = "get" /\ ~vlmUp /\ \E r \in Requests :
            Model(r) = "vlm" /\ queue # <<>> /\ Head(queue) = Chat(r)
       \/ pc = "tick" /\ open # {}
    /\ phase' = "raised"
    /\ UNCHANGED <<wire, pc, answered, dirty, settled, sendVars, bootVars,
                   seqVars, contVars>>

-----------------------------------------------------------------------------
SequentialStep ==
    \/ SequentialTop \/ SequentialEof \/ Prepare \/ EngineReturns
    \/ \E line \in Commands : SequentialRead(line)
LoopStep ==
    \/ LoopGet \/ LoopFindsNothing \/ LoopLooksAtReader
    \/ \E done \in SUBSET open : LoopTick(done)

(* An ended process is left alone. *)
Next ==
    \/ \E c \in Commands : GatewaySends(c)
    \/ GatewayCloses \/ Sigterm
    \/ BootStep \/ BootFails
    \/ SequentialStep \/ StreamToken
    \/ ReaderReads \/ LoopStep \/ LoopRaises
    \/ phase \in Ended /\ closed /\ UNCHANGED vars

Spec == Init /\ [][Next]_vars

(***************************************************************************)
(* The process and its threads are scheduled, an engine call returns, and  *)
(* a scheduler with open requests answers one sooner or later.             *)
(***************************************************************************)
FairSpec ==
    /\ Spec
    /\ WF_vars(BootStep)
    /\ WF_vars(SequentialStep)
    /\ WF_vars(ReaderReads)
    /\ WF_vars(LoopStep)
    /\ SF_vars(\E done \in SUBSET open : done # {} /\ LoopTick(done))

-----------------------------------------------------------------------------
TypeOK ==
    /\ mode \in {"sequential", "continuous"}
    /\ phase \in DOMAIN NextStatus \union {"serving"} \union Ended
    /\ wire \in Seq(Commands) /\ lines \in Seq(Commands)
    /\ queue \in Seq(Commands \union {Eof})
    /\ pc \in {"start", "top", "read", "run", "get", "empty", "tick"}
    /\ cur \in Requests \union {None}
    /\ stage \in Stages \union {"none", "run"}
    /\ {stop, closed, seen, loaded, reader, vlmUp, pendingStop, textFirst}
         \subseteq BOOLEAN
    /\ open \subseteq Requests /\ rounds \in 0..TickMax - 1

(***************************************************************************)
(* Every request is answered at most once, and only when it is no longer   *)
(* worked on; the sequential loop answers in the order of arrival, even    *)
(* though should_cancel reads ahead.                                       *)
(***************************************************************************)
AnsweredOnce ==
    /\ TypeOK
    /\ Cardinality(ToSet(answered)) = Len(answered)
    /\ ToSet(answered) \subseteq ToSet(order) \ (open \union {cur})
    /\ mode = "sequential" => IsPrefix(answered, order)

(***************************************************************************)
(* A benchmark reset is acknowledged only when every request sent before   *)
(* it has been answered: no run warms the caches that it cleared.          *)
(***************************************************************************)
ResetAfterAnswers == dirty = {}

(***************************************************************************)
(* Answers are given once, in order, and before a reset is acknowledged.   *)
(***************************************************************************)
AnswersSound == AnsweredOnce /\ ResetAfterAnswers

(***************************************************************************)
(* When a cancel sent after its request has been dealt with, the request   *)
(* is no longer worked on.                                                 *)
(***************************************************************************)
CancelSettles == settled \intersect (open \union {cur}) = {}

(***************************************************************************)
(* A process that ends cleanly leaves no open request behind, and when the *)
(* gateway has closed the connection the process ends.                     *)
(***************************************************************************)
EndsWithGateway ==
    /\ [](phase = "clean" => open = {} /\ cur = None)
    /\ closed ~> phase \in Ended

=============================================================================
