---------------------------- MODULE ChatDispatch ----------------------------
(***************************************************************************)
(* A chat request in the gateway, from the moment its connection thread    *)
(* has a permit (RequestAdmission) until its handler returns:              *)
(* handle_chat_completion and stream_chat_completion of gateway/http.rs,   *)
(* WorkerClient of gateway/ipc.rs with its reader thread, the              *)
(* DisconnectCancellation thread of each request, RequestTracker of        *)
(* gateway/telemetry.rs and the monitor_worker thread of supervisor.rs.    *)
(*                                                                         *)
(* The socket carries commands down to the worker and events up from it.   *)
(* The worker is the promise of RequestLifecycle: it serves the requests   *)
(* it has read, in any order, and answers each of them once.               *)
(***************************************************************************)
EXTENDS Integers, Sequences, FiniteSets, SequencesExt

CONSTANTS
    Requests,         \* chat requests that hold a permit
    Streaming,        \* those with "stream": true
    MaxDown,          \* commands the socket holds before a write blocks
    MaxDeltas         \* bound: deltas of a request that are on the way

ASSUME DispatchRequests == IsFiniteSet(Requests) /\ Streaming \subseteq Requests
ASSUME DispatchBounds == MaxDown \in Nat \ {0} /\ MaxDeltas \in Nat

VARIABLES
    pc,        \* where the handler of each request is
    flag,      \* requests whose disconnect flag is set
    canceller, \* the DisconnectCancellation thread of each request
    got,       \* what execute_chat returned: "ok", "err" or, before, "none"
    tracker,   \* RequestTracker: "new", "open", or how it was closed
    gauge,     \* mlx_requests_active
    client,    \* RuntimeState.worker_client is Some
    closed,    \* WorkerClient.closed
    inflight,  \* keys of WorkerClient.inflight
    chan,      \* the channel of each request
    reader,    \* the reader thread: "reading", "closing" or "ended"
    down,      \* socket, gateway to worker
    up,        \* socket, worker to gateway
    alive,     \* the worker process runs
    serving,   \* requests the worker works on
    asked,     \* those it was asked to cancel
    garbled    \* history: the worker has sent a line that does not decode

handlers == <<pc, got, tracker, gauge>>
worker == <<alive, serving, asked, garbled>>
vars == <<pc, flag, canceller, got, tracker, gauge, client, closed, inflight,
          chan, reader, down, up, alive, serving, asked, garbled>>

Chat(r) == [type |-> "chat", id |-> r]
Cancel(r) == [type |-> "cancel", id |-> r]
Event(r, kind) == [type |-> kind, id |-> r]
Malformed == [type |-> "malformed"]
Terminal == {"response", "cancelled", "error"}

Init ==
    /\ pc = [r \in Requests |-> "permit"]
    /\ flag = {}
    /\ canceller = [r \in Requests |-> "none"]
    /\ got = [r \in Requests |-> "none"]
    /\ tracker = [r \in Requests |-> "new"]
    /\ gauge = 0
    /\ client = TRUE /\ closed = FALSE
    /\ inflight = {}
    /\ chan = [r \in Requests |-> <<>>]
    /\ reader = "reading"
    /\ down = <<>> /\ up = <<>>
    /\ alive = TRUE /\ serving = {} /\ asked = {} /\ garbled = FALSE

Goto(r, place) == pc' = [pc EXCEPT ![r] = place]

-----------------------------------------------------------------------------
(* RequestTracker *)

(* Mutant: finish does not look at the finished flag. *)
FinishAgain(r, how) ==
    /\ tracker' = [tracker EXCEPT ![r] = how]
    /\ gauge' = gauge - 1

(* RequestTracker.finish: only the first call counts. *)
FinishTracker(r, how) ==
    IF tracker[r] = "open"
    THEN tracker' = [tracker EXCEPT ![r] = how] /\ gauge' = gauge - 1
    ELSE UNCHANGED <<tracker, gauge>>

-----------------------------------------------------------------------------
(* The handler, up to the call of WorkerClient. *)

(***************************************************************************)
(* The tracker is made and the worker client looked up.  Without a client  *)
(* the request ends with 503; with one its canceller thread starts.        *)
(***************************************************************************)
GetBackend(r) ==
    /\ pc[r] = "permit"
    /\ IF client
       THEN /\ Goto(r, "check")
            /\ tracker' = [tracker EXCEPT ![r] = "open"]
            /\ gauge' = gauge + 1
            /\ canceller' = [canceller EXCEPT ![r] = "watching"]
       ELSE /\ Goto(r, "done")
            /\ tracker' = [tracker EXCEPT ![r] = "failed"]
            /\ UNCHANGED <<gauge, canceller>>
    /\ UNCHANGED <<flag, got, client, closed, inflight, chan, reader, down, up, worker>>

(* DisconnectMonitor sees the end of the client's connection. *)
Disconnect(r) ==
    /\ pc[r] # "done" /\ r \notin flag
    /\ flag' = flag \union {r}
    /\ UNCHANGED <<handlers, canceller, client, closed, inflight, chan, reader,
                   down, up, worker>>

-----------------------------------------------------------------------------
(* WorkerClient.execute_chat *)

(* register_request reads closed before it takes the lock of inflight. *)
CheckOpen(r) ==
    /\ pc[r] = "check"
    /\ Goto(r, IF closed THEN "returned" ELSE "insert")
    /\ got' = IF closed THEN [got EXCEPT ![r] = "err"] ELSE got
    /\ UNCHANGED <<flag, canceller, tracker, gauge, client, closed, inflight,
                   chan, reader, down, up, worker>>

Insert(r) ==
    /\ pc[r] = "insert"
    /\ inflight' = inflight \union {r}
    /\ Goto(r, "send")
    /\ UNCHANGED <<flag, canceller, got, tracker, gauge, client, closed, chan,
                   reader, down, up, worker>>

(* A write blocks while the socket is full, with the writer's lock held;   *)
(* to a dead worker it fails.                                              *)
Send(command) ==
    /\ alive => Len(down) < MaxDown
    /\ down' = IF alive THEN Append(down, command) ELSE down

(* When the write fails execute_chat returns and leaves the entry behind. *)
SendChat(r) ==
    /\ pc[r] = "send"
    /\ Send(Chat(r))
    /\ Goto(r, IF alive THEN "recv" ELSE "returned")
    /\ got' = IF alive THEN got ELSE [got EXCEPT ![r] = "err"]
    /\ UNCHANGED <<flag, canceller, tracker, gauge, client, closed, inflight,
                   chan, reader, up, worker>>

(* unregister_request, and execute_chat returns. *)
Returns(r, result) ==
    /\ Goto(r, "returned")
    /\ got' = [got EXCEPT ![r] = result]
    /\ inflight' = inflight \ {r}
    /\ UNCHANGED flag

(***************************************************************************)
(* One turn of the receive loop.  A delta is written to the client; when   *)
(* the write fails on_delta sets the disconnect flag and goes on.          *)
(***************************************************************************)
Receive(r) ==
    /\ pc[r] = "recv" /\ chan[r] # <<>>
    /\ chan' = [chan EXCEPT ![r] = Tail(@)]
    /\ \/ /\ Head(chan[r]) \in {"failure", "error"}
          /\ Returns(r, "err")
       \/ /\ Head(chan[r]) \in {"response", "cancelled"}
          /\ Returns(r, "ok")
       \/ /\ Head(chan[r]) = "delta" /\ r \in Streaming
          /\ flag' \in {flag, flag \union {r}}
          /\ UNCHANGED <<pc, got, inflight>>
    /\ UNCHANGED <<canceller, tracker, gauge, client, closed, reader, down, up, worker>>

-----------------------------------------------------------------------------
(* The handler, after the call. *)

Outcome(r) == IF got[r] = "ok" THEN "ok" ELSE "failed"

(***************************************************************************)
(* The canceller is told to stop and joined.  A non-streaming handler has  *)
(* already finished its tracker by then.                                   *)
(***************************************************************************)
StopCanceller(r) ==
    /\ pc[r] = "returned"
    /\ Goto(r, "joining")
    /\ IF r \in Streaming THEN UNCHANGED <<tracker, gauge>>
       ELSE FinishTracker(r, Outcome(r))
    /\ UNCHANGED <<flag, canceller, got, client, closed, inflight, chan, reader,
                   down, up, worker>>

(***************************************************************************)
(* The canceller polls the disconnect flag, sends one cancel command and   *)
(* ends.  Its stop flag may have been set since it last looked; once in    *)
(* the write it looks no more.                                             *)
(***************************************************************************)
SeesDisconnect(r) ==
    /\ canceller[r] = "watching" /\ r \in flag
    /\ canceller' = [canceller EXCEPT ![r] = "sending"]
    /\ UNCHANGED <<handlers, flag, client, closed, inflight, chan, reader, down, up, worker>>
CancelOnDisconnect(r) ==
    /\ canceller[r] = "sending"
    /\ canceller' = [canceller EXCEPT ![r] = "sent"]
    /\ Send(Cancel(r))
    /\ UNCHANGED <<handlers, flag, client, closed, inflight, chan, reader, up, worker>>

(* Mutant: the canceller is joined without having been told to stop. *)
JoinsUnstopped(r) == canceller[r] = "sent" /\ UNCHANGED canceller

(* The canceller saw its stop flag, or was done, and has been joined. *)
Joined(r) ==
    /\ canceller[r] # "sending"
    /\ canceller' = [canceller EXCEPT ![r] = IF @ = "sent" THEN @ ELSE "stopped"]

(* The non-streaming handler calls finish a second time if the client left. *)
EndCompletion(r) ==
    /\ pc[r] = "joining" /\ r \notin Streaming
    /\ Joined(r)
    /\ IF r \in flag THEN FinishTracker(r, "cancelled") ELSE UNCHANGED <<tracker, gauge>>
    /\ Goto(r, "done")
    /\ UNCHANGED <<flag, got, client, closed, inflight, chan, reader, down, up, worker>>

(* After an error a streaming handler always sends a cancel command. *)
EndStreamError(r) ==
    /\ pc[r] = "joining" /\ r \in Streaming /\ got[r] = "err"
    /\ Joined(r)
    /\ Send(Cancel(r))
    /\ FinishTracker(r, IF r \in flag THEN "cancelled" ELSE "failed")
    /\ Goto(r, "done")
    /\ UNCHANGED <<flag, got, client, closed, inflight, chan, reader, up, worker>>

(***************************************************************************)
(* A stream that got its response.  When the response headers cannot be    *)
(* written the handler returns and the tracker is only dropped.            *)
(***************************************************************************)
EndStream(r) ==
    /\ pc[r] = "joining" /\ r \in Streaming /\ got[r] = "ok"
    /\ Joined(r)
    /\ \E how \in IF r \in flag THEN {"cancelled"} ELSE {"ok", "dropped"} :
         FinishTracker(r, how)
    /\ Goto(r, "done")
    /\ UNCHANGED <<flag, got, client, closed, inflight, chan, reader, down, up, worker>>

-----------------------------------------------------------------------------
(* The reader thread of WorkerClient *)

(* An event goes to the channel of its request, if that is still there. *)
Route ==
    /\ reader = "reading" /\ up # <<>>
    /\ LET event == Head(up) IN
       /\ event # Malformed
       /\ chan' = IF event.id \in inflight
                  THEN [chan EXCEPT ![event.id] = Append(@, event.type)] ELSE chan
    /\ up' = Tail(up)
    /\ UNCHANGED <<handlers, flag, canceller, client, closed, inflight, reader,
                   down, worker>>

(* Mutant: the reader thread ends and tells nobody. *)
FailsNobody == UNCHANGED <<chan, inflight>>

(* Every registered request gets a failure and the table is emptied. *)
FailAll ==
    /\ chan' = [r \in Requests |->
                  IF r \in inflight THEN Append(chan[r], "failure") ELSE chan[r]]
    /\ inflight' = {}

(***************************************************************************)
(* The worker closed the socket, or sent a line that does not decode.      *)
(* What the socket holds, and what comes, will be read by nobody.          *)
(***************************************************************************)
ReaderFails ==
    /\ reader = "reading"
    /\ \/ up = <<>> /\ ~alive
       \/ up # <<>> /\ Head(up) = Malformed
    /\ up' = <<>>
    /\ FailAll
    /\ reader' = "closing"
    /\ UNCHANGED <<handlers, flag, canceller, client, closed, down, worker>>

(* closed is set after the table was emptied, not under its lock. *)
ReaderCloses ==
    /\ reader = "closing"
    /\ closed' = TRUE
    /\ reader' = "ended"
    /\ UNCHANGED <<handlers, flag, canceller, client, inflight, chan, down, up, worker>>

-----------------------------------------------------------------------------
(* The supervisor, and the worker *)

(* monitor_worker sees the exit, or shutdown lets go of the client. *)
DropClient ==
    /\ client
    /\ client' = FALSE
    /\ UNCHANGED <<handlers, flag, canceller, closed, inflight, chan, reader,
                   down, up, worker>>

(* A chat command starts a request; a cancel for an unknown id does nothing. *)
WorkerReads ==
    /\ alive /\ down # <<>>
    /\ LET command == Head(down) IN
       /\ serving' = IF command.type = "chat" THEN serving \union {command.id} ELSE serving
       /\ asked' = IF command.type = "cancel" THEN asked \union ({command.id} \intersect serving)
                   ELSE asked
    /\ down' = Tail(down)
    /\ UNCHANGED <<handlers, flag, canceller, client, closed, inflight, chan,
                   reader, up, alive, garbled>>

(* Deltas the worker has sent for r and the handler has not taken. *)
DeltasOnWay(r) ==
    Len(SelectSeq(up, LAMBDA e : e = Event(r, "delta"))) + Len(chan[r])

(* A line for the reader thread, lost if that has ended. *)
SendUp(event) == up' = IF reader = "reading" THEN Append(up, event) ELSE up

WorkerDelta(r) ==
    /\ alive /\ r \in serving \ asked /\ r \in Streaming
    /\ DeltasOnWay(r) < MaxDeltas
    /\ SendUp(Event(r, "delta"))
    /\ UNCHANGED <<handlers, flag, canceller, client, closed, inflight, chan,
                   reader, down, worker>>

WorkerAnswers(r) ==
    /\ alive /\ r \in serving
    /\ \E kind \in IF r \in asked THEN {"cancelled"} ELSE {"response", "error"} :
         SendUp(Event(r, kind))
    /\ serving' = serving \ {r} /\ asked' = asked \ {r}
    /\ UNCHANGED <<handlers, flag, canceller, client, closed, inflight, chan,
                   reader, down, alive, garbled>>

(* A line decode_worker_event refuses; one is enough, the reader ends. *)
WorkerMalformed ==
    /\ alive /\ ~garbled
    /\ garbled' = TRUE
    /\ SendUp(Malformed)
    /\ UNCHANGED <<handlers, flag, canceller, client, closed, inflight, chan,
                   reader, down, alive, serving, asked>>

(* The worker process dies; what it has written can still be read. *)
WorkerExits ==
    /\ alive
    /\ alive' = FALSE /\ serving' = {} /\ asked' = {} /\ down' = <<>>
    /\ UNCHANGED <<handlers, flag, canceller, client, closed, inflight, chan,
                   reader, up, garbled>>

-----------------------------------------------------------------------------
Handler(r) ==
    \/ GetBackend(r) \/ CheckOpen(r) \/ Insert(r) \/ SendChat(r) \/ Receive(r)
    \/ StopCanceller(r) \/ EndCompletion(r) \/ EndStreamError(r) \/ EndStream(r)

Canceller(r) == SeesDisconnect(r) \/ CancelOnDisconnect(r)

Reader == Route \/ ReaderFails \/ ReaderCloses

Next ==
    \/ \E r \in Requests :
         \/ Handler(r) \/ Disconnect(r) \/ Canceller(r)
         \/ WorkerDelta(r) \/ WorkerAnswers(r)
    \/ Reader \/ DropClient \/ WorkerReads \/ WorkerMalformed \/ WorkerExits

Spec == Init /\ [][Next]_vars

(***************************************************************************)
(* Threads keep running, and a worker that is up reads its commands and    *)
(* answers what it serves (what Drains shows of the engine).               *)
(***************************************************************************)
FairSpec ==
    /\ Spec
    /\ \A r \in Requests :
         WF_vars(Handler(r)) /\ WF_vars(Canceller(r)) /\ WF_vars(WorkerAnswers(r))
    /\ WF_vars(Reader) /\ WF_vars(WorkerReads)

-----------------------------------------------------------------------------
(* Type invariant. *)
Places == {"permit", "check", "insert", "send", "recv", "returned", "joining", "done"}

TypeOK ==
    /\ pc \in [Requests -> Places]
    /\ flag \subseteq Requests
    /\ canceller \in [Requests -> {"none", "watching", "sending", "sent", "stopped"}]
    /\ got \in [Requests -> {"none", "ok", "err"}]
    /\ tracker \in [Requests -> {"new", "open", "ok", "failed", "cancelled", "dropped"}]
    /\ gauge \in Nat
    /\ {client, closed, alive, garbled} \subseteq BOOLEAN
    /\ reader \in {"reading", "closing", "ended"}
    /\ inflight \subseteq Requests /\ asked \subseteq serving /\ serving \subseteq Requests
    /\ chan \in [Requests -> Seq(Terminal \union {"delta", "failure"})]
    /\ Len(down) <= MaxDown /\ down \in Seq([type : {"chat", "cancel"}, id : Requests])
    /\ up \in Seq([type : Terminal \union {"delta"}, id : Requests] \union {Malformed})

(***************************************************************************)
(* mlx_requests_active is exact at every moment: each tracker gives back   *)
(* its one, whether it is finished, finished twice or only dropped.        *)
(***************************************************************************)
GaugeExact == gauge = Cardinality({r \in Requests : tracker[r] = "open"})

(***************************************************************************)
(* An entry of the table of in-flight requests outlives its handler only   *)
(* once the worker is gone: no event of a live worker is routed to a       *)
(* channel nobody reads.                                                   *)
(***************************************************************************)
InflightOwned == alive => \A r \in inflight : pc[r] \in {"send", "recv"}

(***************************************************************************)
(* The gateway's books of its requests are right at every moment: the      *)
(* gauge counts the open trackers and the table the requests in flight.    *)
(***************************************************************************)
BooksExact == TypeOK /\ GaugeExact /\ InflightOwned

(***************************************************************************)
(* A handler that blocks in recv has something coming, however the steps   *)
(* of its registration fall between those of a dying worker and of the     *)
(* reader: its command is on the way, the worker has it, its last event is *)
(* on the way, or the reader is about to fail all requests.  It holds      *)
(* because a request is registered before it is sent.  After a line that   *)
(* does not decode it does not: the reader ends and the worker lives on.   *)
(***************************************************************************)
AnswerComing ==
    ~garbled => \A r \in Requests : pc[r] = "recv" =>
        \/ chan[r] # <<>>
        \/ r \in inflight /\ reader = "reading" /\
             (\/ ~alive \/ r \in serving \/ Contains(down, Chat(r))
              \/ \E kind \in Terminal : Contains(up, Event(r, kind)))

(***************************************************************************)
(* Every request that was given a permit ends, so the permit comes back,   *)
(* even if the worker dies, the client leaves or the gateway shuts down,   *)
(* and although its handler joins a canceller whose write may block, as    *)
(* long as the worker sends only lines that decode.                        *)
(***************************************************************************)
EveryRequestEnds == \A r \in Requests : pc[r] = "permit" ~> pc[r] = "done" \/ garbled

=============================================================================
