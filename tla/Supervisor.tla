----------------------------- MODULE Supervisor -----------------------------
(***************************************************************************)
(* The life of one gateway process: foreground.rs (run_with) on the main   *)
(* thread, the bootstrap and monitor thread of supervisor.rs, the thread   *)
(* that warms up the VLM model, the worker process, and SIGTERM or SIGINT. *)
(*                                                                         *)
(* Each access to the shutdown flag, the child, the model status, the      *)
(* client or the socket file is a step; accesses are taken as sequentially *)
(* consistent.  child is None exactly when the worker has been reaped, and *)
(* mlx_worker_up is 1 exactly when the model state is ready: the code sets *)
(* both in the same critical section.                                      *)
(***************************************************************************)
EXTENDS Naturals, Sequences

CONSTANT Vlm     \* whether a VLM model is configured

ASSUME VlmAssumption == Vlm \in BOOLEAN

VARIABLES
    at,          \* where the threads "main", "boot" and "warmup" are
    child,       \* the process: running, zombie (it exited) or reaped
    sent,        \* how far the worker has come in its start-up
    wire,        \* bootstrap messages sent and not yet read
    shutdown,    \* the flag shared by the threads and the signal handler
    signalled,   \* history: a signal arrived
    state,       \* model_status
    vlm,         \* vlm_status
    connected,   \* worker_client is Some
    socket,      \* the socket file exists
    interrupted, \* the bootstrap thread's local variable of that name
    result       \* what run_with returns

process == <<child, sent, wire>>
flags == <<shutdown, signalled>>
models == <<state, vlm, connected>>
ending == <<socket, interrupted, result>>
supervisorVars == <<at, process, flags, models, ending>>

(* The state right after Supervisor::start: socket bound, worker spawned. *)
SupervisorInit ==
    /\ at = [main |-> "bind", boot |-> "accept", warmup |-> "none"]
    /\ child = "running" /\ sent = "nothing" /\ wire = <<>>
    /\ shutdown = FALSE /\ signalled = FALSE
    /\ state = "loading" /\ vlm = "not_loaded"
    /\ connected = FALSE /\ socket = TRUE
    /\ interrupted = FALSE /\ result = "none"

Go(t, from, to) == at[t] = from /\ at' = [at EXCEPT ![t] = to]

Signal ==
    /\ ~signalled
    /\ shutdown' = TRUE /\ signalled' = TRUE
    /\ UNCHANGED <<at, process, models, ending>>

-----------------------------------------------------------------------------
(* The worker *)

(* It connects, reports STATUS, and ends its start-up by READY or ERROR. *)
Startup ==
    [nothing |-> {"loading"}, loading |-> {"status_ready", "status_failed"},
     status_ready |-> {"READY"}, status_failed |-> {"ERROR"}, READY |-> {}, ERROR |-> {}]

WorkerSends ==
    /\ child = "running"
    /\ \E m \in Startup[sent] : sent' = m /\ wire' = Append(wire, m)
    /\ UNCHANGED <<at, child, flags, models, ending>>

(* It may exit at any time: on its own, by a signal, or by a crash. *)
ChildExits ==
    /\ child = "running"
    /\ child' = "zombie"
    /\ UNCHANGED <<at, sent, wire, flags, models, ending>>

-----------------------------------------------------------------------------
(* terminate_worker, which both threads may run at the same time. *)

After(t) == IF t = "main" THEN "join" ELSE "unlink"

ReadPid(t) ==
    /\ Go(t, "pid", IF child = "reaped" THEN After(t) ELSE "kill")
    /\ UNCHANGED <<process, flags, models, ending>>

(* libc::kill(pid, SIGTERM), with the lock released. *)
Kill(t) ==
    /\ Go(t, "kill", "reap")
    /\ UNCHANGED <<process, flags, models, ending>>

(* Mutant: after the deadline the worker is left alone. *)
ReapNoKill(t) ==
    /\ Go(t, "reap", After(t))
    /\ child' = IF child = "running" THEN "running" ELSE "reaped"
    /\ UNCHANGED <<sent, wire, flags, models, ending>>

(* The loop: it ends when the worker has exited, or by SIGKILL at the deadline. *)
Reap(t) ==
    /\ Go(t, "reap", After(t))
    /\ child' = "reaped"
    /\ UNCHANGED <<sent, wire, flags, models, ending>>

(* fs::remove_file; that the file is gone already is no error. *)
Unlink(t) ==
    /\ Go(t, "unlink", "done")
    /\ socket' = FALSE
    /\ UNCHANGED <<process, flags, models, interrupted, result>>

-----------------------------------------------------------------------------
(* bootstrap_worker *)

(* The top of either loop: the flag is read. *)
CheckFlag ==
    /\ \/ Go("boot", "accept", IF shutdown THEN "fail" ELSE "try_accept")
       \/ Go("boot", "read", IF shutdown THEN "fail" ELSE "try_read")
    /\ UNCHANGED <<process, flags, models, ending>>

Accept ==
    /\ sent # "nothing"
    /\ Go("boot", "try_accept", "read")
    /\ UNCHANGED <<process, flags, models, ending>>

(* Nothing to accept or read yet, and ensure_worker_running is content. *)
Poll ==
    /\ child = "running"
    /\ \/ sent = "nothing" /\ Go("boot", "try_accept", "accept")
       \/ wire = <<>> /\ Go("boot", "try_read", "read")
    /\ UNCHANGED <<process, flags, models, ending>>

(* ensure_worker_running finds that the worker is gone, and reaps it. *)
WorkerGone ==
    /\ child # "running"
    /\ \/ sent = "nothing" /\ Go("boot", "try_accept", "fail")
       \/ Go("boot", "try_read", "fail")
    /\ child' = "reaped"
    /\ UNCHANGED <<sent, wire, flags, models, ending>>

(* The start-up time-out, or the end of the stream. *)
Timeout ==
    /\ \/ sent = "nothing" /\ Go("boot", "try_accept", "fail")
       \/ Go("boot", "try_read", "fail")
    /\ UNCHANGED <<process, flags, models, ending>>

(* set_status *)
ReadStatus ==
    /\ child = "running" /\ wire # <<>>
    /\ Go("boot", "try_read", "read")
    /\ \/ Head(wire) = "loading" /\ state' = "loading"
       \/ Head(wire) = "status_ready" /\ state' = "ready"
       \/ Head(wire) = "status_failed" /\ state' = "failed"
    /\ wire' = Tail(wire)
    /\ UNCHANGED <<child, sent, flags, vlm, connected, ending>>

ReadError ==
    /\ child = "running" /\ wire # <<>> /\ Head(wire) = "ERROR"
    /\ Go("boot", "try_read", "fail")
    /\ state' = "failed" /\ wire' = Tail(wire)
    /\ UNCHANGED <<child, sent, flags, vlm, connected, ending>>

ReadReady ==
    /\ child = "running" /\ wire # <<>> /\ Head(wire) = "READY"
    /\ Go("boot", "try_read", "handshake")
    /\ wire' = Tail(wire)
    /\ UNCHANGED <<child, sent, flags, models, ending>>

(* With worker_client locked: the client, the warm-up thread, mark_ready. *)
Handshake ==
    /\ at.boot = "handshake"
    /\ at' = [at EXCEPT !.boot = "monitor", !.warmup = IF Vlm THEN "start" ELSE @]
    /\ connected' = TRUE /\ state' = "ready"
    /\ UNCHANGED <<process, flags, vlm, ending>>

(* The thread's error path. *)
Fail ==
    /\ Go("boot", "fail", "mark")
    /\ interrupted' = shutdown /\ connected' = FALSE
    /\ UNCHANGED <<process, flags, state, vlm, socket, result>>

MarkFailed ==
    /\ Go("boot", "mark", "pid")
    /\ state' = IF interrupted THEN state ELSE "failed"
    /\ UNCHANGED <<process, flags, vlm, connected, ending>>

-----------------------------------------------------------------------------
(* monitor_worker *)

(* Mutant: the flag is not looked at. *)
MonitorUnstoppable ==
    /\ Go("boot", "monitor", "watch")
    /\ UNCHANGED <<process, flags, models, ending>>

Monitor ==
    /\ Go("boot", "monitor", IF shutdown THEN "done" ELSE "watch")
    /\ UNCHANGED <<process, flags, models, ending>>

(* try_wait, unless somebody else has reaped the worker. *)
Watch ==
    /\ Go("boot", "watch", IF child = "zombie" THEN "lost" ELSE "monitor")
    /\ child' = IF child = "zombie" THEN "reaped" ELSE child
    /\ UNCHANGED <<sent, wire, flags, models, ending>>

(* Mutant: the flag is set first, then the model is marked. *)
LostFlagFirst ==
    /\ \/ Go("boot", "lost", "lost_text") /\ shutdown' = TRUE /\ UNCHANGED models
       \/ /\ Go("boot", "lost_text", "lost_vlm")
          /\ connected' = FALSE /\ state' = "failed"
          /\ UNCHANGED <<shutdown, vlm>>
       \/ Go("boot", "lost_vlm", "done") /\ UNCHANGED <<shutdown, models>>
    /\ UNCHANGED <<process, signalled, ending>>

(* The client is dropped, both models are marked, then the flag is set. *)
Lost ==
    /\ \/ /\ Go("boot", "lost", "lost_text")
          /\ connected' = FALSE /\ UNCHANGED <<shutdown, state, vlm>>
       \/ /\ Go("boot", "lost_text", "lost_vlm")
          /\ state' = "failed" /\ UNCHANGED <<shutdown, vlm, connected>>
       \/ /\ Go("boot", "lost_vlm", "lost_flag")
          /\ vlm' = IF Vlm THEN "failed" ELSE vlm
          /\ UNCHANGED <<shutdown, state, connected>>
       \/ Go("boot", "lost_flag", "done") /\ shutdown' = TRUE /\ UNCHANGED models
    /\ UNCHANGED <<process, signalled, ending>>

-----------------------------------------------------------------------------
(* warmup_vlm_model *)
WarmupStarts ==
    /\ Go("warmup", "start", "call")
    /\ vlm' = "warming_up"
    /\ UNCHANGED <<process, flags, state, connected, ending>>

(* complete_chat returns: an answer, or an error (always when the worker is gone). *)
WarmupReturns ==
    /\ \/ child = "running" /\ Go("warmup", "call", "succeeded")
       \/ Go("warmup", "call", "failed")
    /\ UNCHANGED <<process, flags, models, ending>>

WarmupMarks ==
    /\ \/ Go("warmup", "succeeded", "done") /\ vlm' = "ready"
       \/ Go("warmup", "failed", "done") /\ vlm' = "failed"
    /\ UNCHANGED <<process, flags, state, connected, ending>>

-----------------------------------------------------------------------------
(* run_with *)

(* HttpServer::bind may fail; nobody has waited for the worker by then. *)
Bind ==
    /\ \/ Go("main", "bind", "wait") /\ UNCHANGED result
       \/ Go("main", "bind", "stop") /\ result' = "error"
    /\ UNCHANGED <<process, flags, models, socket, interrupted>>

(* wait_until_ready: first the status, then the flag. *)
WaitStatus ==
    /\ \/ state = "ready" /\ Go("main", "wait", "serve") /\ UNCHANGED result
       \/ state = "failed" /\ Go("main", "wait", "stop") /\ result' = "error"
       \/ state = "loading" /\ Go("main", "wait", "wait_flag") /\ UNCHANGED result
    /\ UNCHANGED <<process, flags, models, socket, interrupted>>

WaitFlag ==
    /\ \/ shutdown /\ Go("main", "wait_flag", "stop") /\ result' = "ok"
       \/ ~shutdown /\ Go("main", "wait_flag", "wait") /\ UNCHANGED result
    /\ UNCHANGED <<process, flags, models, socket, interrupted>>

(* serve_until ends, having drained its connections for a bounded time. *)
Serve ==
    /\ shutdown
    /\ Go("main", "serve", "final_status")
    /\ UNCHANGED <<process, flags, models, ending>>

(* The listener fails. *)
ServeFails ==
    /\ Go("main", "serve", "final_status")
    /\ result' = "error"
    /\ UNCHANGED <<process, flags, models, socket, interrupted>>

FinalStatus ==
    /\ Go("main", "final_status", "stop")
    /\ result' = IF result = "error" \/ state = "failed" THEN "error" ELSE "ok"
    /\ UNCHANGED <<process, flags, models, socket, interrupted>>

(* Supervisor::shutdown; the second one, in its Drop, finds nothing to do. *)
Stop ==
    /\ \/ Go("main", "stop", "drop") /\ shutdown' = TRUE /\ UNCHANGED connected
       \/ Go("main", "drop", "pid") /\ connected' = FALSE /\ UNCHANGED shutdown
    /\ UNCHANGED <<process, signalled, state, vlm, ending>>

Join ==
    /\ at.boot = "done"
    /\ Go("main", "join", "unlink")
    /\ UNCHANGED <<process, flags, models, ending>>

-----------------------------------------------------------------------------
Terminate(t) == ReadPid(t) \/ Kill(t) \/ Reap(t) \/ Unlink(t)

Boot ==
    \/ CheckFlag \/ Accept \/ Poll \/ WorkerGone \/ Timeout
    \/ ReadStatus \/ ReadError \/ ReadReady \/ Handshake \/ Fail \/ MarkFailed
    \/ Monitor \/ Watch \/ Lost \/ Terminate("boot")

Warmup == WarmupStarts \/ WarmupReturns \/ WarmupMarks

Main ==
    \/ Bind \/ WaitStatus \/ WaitFlag \/ Serve \/ FinalStatus \/ Stop \/ Join
    \/ Terminate("main")

SupervisorNext ==
    Signal \/ WorkerSends \/ ChildExits \/ Boot \/ Warmup \/ Main \/ ServeFails

(* The gateway's threads are scheduled; the worker promises nothing. *)
SupervisorSpec ==
    /\ SupervisorInit /\ [][SupervisorNext]_supervisorVars
    /\ WF_supervisorVars(Boot) /\ WF_supervisorVars(Main)

-----------------------------------------------------------------------------
Positions ==
    [main |-> {"bind", "wait", "wait_flag", "serve", "final_status", "stop", "drop",
               "pid", "kill", "reap", "join", "unlink", "done"},
     boot |-> {"accept", "try_accept", "read", "try_read", "handshake", "monitor", "watch",
               "lost", "lost_text", "lost_vlm", "lost_flag", "fail", "mark",
               "pid", "kill", "reap", "unlink", "done"},
     warmup |-> {"none", "start", "call", "succeeded", "failed", "done"}]

(* Type invariant. *)
SupervisorTypeOK ==
    /\ DOMAIN at = DOMAIN Positions /\ \A t \in DOMAIN Positions : at[t] \in Positions[t]
    /\ child \in {"running", "zombie", "reaped"}
    /\ sent \in DOMAIN Startup /\ wire \in Seq(DOMAIN Startup)
    /\ {shutdown, signalled, connected, socket, interrupted} \subseteq BOOLEAN
    /\ state \in {"loading", "ready", "failed"}
    /\ vlm \in {"not_loaded", "warming_up", "ready", "failed"}
    /\ result \in {"none", "ok", "error"}

(***************************************************************************)
(* When run_with has returned, the worker process has been reaped, its     *)
(* socket file is gone and the bootstrap thread has ended, whichever       *)
(* thread terminated the worker and however far its start-up had come.     *)
(***************************************************************************)
CleanedUp ==
    /\ SupervisorTypeOK
    /\ at.main = "done" =>
        child = "reaped" /\ ~socket /\ at.boot = "done" /\ result # "none"

(***************************************************************************)
(* A gateway that has served returns normally only after a signal: if the  *)
(* monitor stopped it because the worker was lost, the final status says   *)
(* so by the time the main thread looks.                                   *)
(***************************************************************************)
LossReported ==
    [][at.main = "final_status" /\ result' = "ok" => signalled]_supervisorVars

(***************************************************************************)
(* After a signal the gateway stops, also when the worker ignores SIGTERM, *)
(* sends nothing or is still starting: no thread waits for ever.           *)
(***************************************************************************)
StopsOnSignal == signalled ~> at.main = "done"

=============================================================================
