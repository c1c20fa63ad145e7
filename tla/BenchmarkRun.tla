---------------------------- MODULE BenchmarkRun ----------------------------
(***************************************************************************)
(* The benchmark commands (runner.py): run measures the selected workloads *)
(* on servers it starts itself or on an external one, and may collect      *)
(* diagnostics afterwards; calibrate repeats run; diagnose collects        *)
(* diagnostics for a result that succeeded.  Every state of the results is *)
(* written to results.json, and SIGINT and SIGTERM are raised as an        *)
(* exception wherever the command happens to be.                           *)
(*                                                                         *)
(* Left out: failing writes, signals outside _interrupts_raise (they have  *)
(* their default effect) and a second signal for the same command.         *)
(***************************************************************************)
EXTENDS LoadGen

CONSTANTS Models, Workloads, Runtimes,  \* the names a suite may use
          Suites, Focuses,  \* what the user may ask for
          Trials,           \* trials of a workload
          Repetitions,      \* of a calibration
          Routes,           \* diagnostic_routing: the families, in order
          MaxDiagnose       \* bound on the diagnose commands

(* What the schema of the configuration makes sure of. *)
ASSUME SuitesAssumption ==
    /\ Suites \subseteq
         [models : SUBSET Models, workloads : SUBSET Workloads,
          runtimes : SUBSET Runtimes,
          orders : Seq([model : Models, runtimes : Seq(Runtimes)]),
          coverage : SUBSET [model : Models, workloads : SUBSET Workloads]]
    /\ IsFiniteSet(Models) /\ IsFiniteSet(Workloads) /\ NoLoad \notin Workloads
    /\ \A w \in Workloads :
         /\ Mode(w) \in {"sequential", "burst", "closed-loop"}
         /\ Count(w) \in Nat /\ Concurrency(w) \in Nat
ASSUME BenchmarkAssumption ==
    /\ Trials \in Nat \ {0} /\ Repetitions \in Nat \ {0} /\ MaxDiagnose \in Nat
    /\ Routes \in Seq([name : STRING, models : SUBSET Models,
                      workloads : SUBSET Workloads])
(* There is always a connection to be opened. *)
ASSUME ConnectionsAssumption ==
    /\ Connections \subseteq Nat /\ IsFiniteSet(Connections)
    /\ \A w \in Workloads : Concurrency(w) <= Cardinality(Connections)

VARIABLES
    cmd,       \* [kind, mode, profile]: the command and its options
    plan,      \* _execution_plan of the selection
    asked,     \* the <<model, workload>> pairs selected (history)
    pc,        \* where the command is
    pos,       \* [run, work, trial]: execution, workload and trial
    child,     \* the server process: "none", "running" or "gone"
    held,      \* server is not None
    window,    \* what a signal hit between two statements (history)
    status,    \* results["status"]
    exit,      \* exit status, -1 before there is one
    trials,    \* results["trials"]
    applied,   \* results["applied_order"]
    alarms,    \* codes of results["validation_failures"]
    diag,      \* [status, request, attempts, dirs] of the diagnostics
    todo,      \* diagnostic targets still to be tried
    signals,   \* signals sent to this command
    more       \* [reps, diagnoses]: commands still to come

resultVars == <<status, trials, applied, alarms>>
serverVars == <<child, held, window>>
vars == <<loadVars, cmd, plan, asked, pc, pos, serverVars, resultVars, exit,
          diag, todo, signals, more>>

NoDiagnostics == [status |-> "none", request |-> "none", attempts |-> <<>>,
                  dirs |-> {}]
Here == plan[pos.run]
Work == Here.workloads[pos.work]
Self == cmd.mode = "self"
Serves == ~Self \/ child = "running"

(* _diagnostic_targets: a workload of the route once for each of its models. *)
Targets(route) ==
    {t \in route.models \X route.workloads :
       \E k \in 1..Len(plan) : plan[k].model = t[1] /\ t[2] \in ToSet(plan[k].workloads)}
(* The route of each attempt; a route without a target has one that fails. *)
AllTargets ==
    FlattenSeq([i \in 1..Len(Routes) |->
       [j \in 1..Max({1, Cardinality(Targets(Routes[i]))}) |-> Routes[i]]])

Init ==
    /\ cmd \in {c \in [kind : {"run", "calibrate"}, mode : {"self", "external"},
                       profile : {"none", "all"}] :
                  c.kind = "calibrate" => c.mode = "self" /\ c.profile = "none"}
    /\ plan = <<>> /\ asked = {}
    /\ pc = "select" /\ pos = [run |-> 1, work |-> 1, trial |-> 0]
    /\ child = "none" /\ held = FALSE /\ window = {}
    /\ status = "none" /\ exit = -1
    /\ trials = <<>> /\ applied = <<>> /\ alarms = {}
    /\ diag = NoDiagnostics /\ todo = <<>>
    /\ signals = 0
    /\ more = [reps |-> IF cmd.kind = "run" THEN 0 ELSE Repetitions - 1,
               diagnoses |-> MaxDiagnose]
    /\ NoTrial /\ limit = 0 /\ idle = <<>>

(* A step of the command that changes where it is and nothing else of      *)
(* what the later actions list.                                            *)
Goto(here, next) == pc = here /\ pc' = next

(***************************************************************************)
(* The configuration is loaded, validated and narrowed; a bad one ends the *)
(* command before anything is written.  Then the results are written as    *)
(* running, and the prompts are generated and checked.                     *)
(***************************************************************************)
SelectConfiguration(suite, focus) ==
    LET c == Select(suite, focus)
        p == ExecutionPlan(c)
        ok == /\ ValidSuite(suite) /\ Selectable(c)
              /\ Self \/ Len(p) = 1 IN
    /\ pc = "select"
    /\ plan' = IF ok THEN p ELSE <<>>
    /\ asked' = IF ok THEN Asked(c) ELSE {}
    /\ status' = IF ok THEN "running" ELSE "none"
    /\ exit' = IF ok THEN -1 ELSE 50
    /\ pc' = IF ok THEN "prompts" ELSE "ended"
    /\ UNCHANGED <<loadVars, cmd, pos, serverVars, trials, applied, alarms,
                   diag, todo, signals, more>>

PromptsDone ==
    /\ Goto("prompts", "plan")
    /\ UNCHANGED <<loadVars, cmd, plan, asked, pos, serverVars, resultVars,
                   exit, diag, todo, signals, more>>

(* The next execution; one without workloads is passed over. *)
NextExecution ==
    /\ pc = "plan"
    /\ IF pos.run > Len(plan) THEN pc' = "final" /\ UNCHANGED pos
       ELSE IF Here.workloads = <<>>
       THEN pos' = [pos EXCEPT !.run = @ + 1] /\ UNCHANGED pc
       ELSE /\ pos' = [pos EXCEPT !.work = 1, !.trial = 0]
            /\ pc' = IF Self THEN "launch" ELSE "ready"
    /\ UNCHANGED <<loadVars, cmd, plan, asked, serverVars, resultVars, exit,
                   diag, todo, signals, more>>

-----------------------------------------------------------------------------
(* The server. *)

(* _start_server creates the process; the caller's variable is assigned    *)
(* only when the function has returned.                                    *)
Launch ==
    /\ pc \in {"launch", "d_launch"}
    /\ child' = "running"
    /\ pc' = IF pc = "launch" THEN "launched" ELSE "d_launched"
    /\ UNCHANGED <<loadVars, cmd, plan, asked, pos, held, window, resultVars,
                   exit, diag, todo, signals, more>>
Launched ==
    /\ pc \in {"launched", "d_launched"}
    /\ held' = TRUE
    /\ pc' = IF pc = "launched" THEN "ready" ELSE "d_measure"
    /\ UNCHANGED <<loadVars, cmd, plan, asked, pos, child, window, resultVars,
                   exit, diag, todo, signals, more>>

ChildDies ==
    /\ child = "running" /\ pc # "ended"
    /\ child' = "gone"
    /\ UNCHANGED <<loadVars, cmd, plan, asked, pc, pos, held, window,
                   resultVars, exit, diag, todo, signals, more>>

(* _wait_for_readiness and _record_server_identity. *)
BecomesReady ==
    /\ Goto("ready", "warmup") /\ Serves
    /\ applied' = Append(applied, pos.run)
    /\ UNCHANGED <<loadVars, cmd, plan, asked, pos, serverVars, status, trials,
                   alarms, exit, diag, todo, signals, more>>

(* server.stop() and, in the next statement, server = None. *)
StopServer ==
    /\ Goto("stop", "stopped")
    /\ child' = IF Self THEN "gone" ELSE child
    /\ UNCHANGED <<loadVars, cmd, plan, asked, pos, held, window, resultVars,
                   exit, diag, todo, signals, more>>
Stopped ==
    /\ Goto("stopped", "plan")
    /\ held' = FALSE
    /\ pos' = [pos EXCEPT !.run = @ + 1]
    /\ UNCHANGED <<loadVars, cmd, plan, asked, child, window, resultVars, exit,
                   diag, todo, signals, more>>

-----------------------------------------------------------------------------
(* The measurement. *)

(* _execute_phase8_state: the warm-ups, then one pool for all trials. *)
WarmedUp ==
    /\ Goto("warmup", "before") /\ Serves
    /\ limit' = Max({Concurrency(w) : w \in ToSet(Here.workloads)})
    /\ idle' = <<>>
    /\ UNCHANGED <<load, trialVars, cmd, plan, asked, pos, serverVars,
                   resultVars, exit, diag, todo, signals, more>>

(* before_trial: reset, priming and the counters; then the trial begins. *)
BeginTrial ==
    /\ Goto("before", "trial") /\ Serves
    /\ StartTrial(Work)
    /\ UNCHANGED <<limit, idle, cmd, plan, asked, pos, serverVars, resultVars,
                   exit, diag, todo, signals, more>>

TrialStep ==
    /\ pc = "trial"
    /\ \/ Collect
       \/ \E i \in DOMAIN task :
            \/ Post(i)
            \/ Break(i)
            \/ Serves /\ \E s \in {"succeeded", "failed"}, reusable \in BOOLEAN :
                           Respond(i, s, reusable)
    /\ UNCHANGED <<cmd, plan, asked, pc, pos, serverVars, resultVars, exit,
                   diag, todo, signals, more>>

(* request_order of the first request of the next trial. *)
NextOrder == FoldLeft(LAMBDA n, t : n + t.count, 0, trials)

(* _validate_completed_trial, as far as the tool itself decides it. *)
TrialAlarms ==
    (IF Cardinality(collected) # Count(Work) THEN {"request_count"} ELSE {})
    \union (IF peak # ExpectedPeak(Work) THEN {"load_concurrency"} ELSE {})

(* after_trial and completed_trial: the record is kept, checked, written.  *)
FinishTrial ==
    LET last == pos.trial + 1 = Trials
        done == last /\ pos.work = Len(Here.workloads) IN
    /\ pc = "trial" /\ TrialDone
    /\ trials' = Append(trials, [run |-> pos.run, work |-> Work,
                                 trial |-> pos.trial, first |-> NextOrder,
                                 count |-> Cardinality(collected),
                                 errors |-> Errors # {}])
    /\ alarms' = alarms \union TrialAlarms
    /\ pos' = IF ~last THEN [pos EXCEPT !.trial = @ + 1]
              ELSE [pos EXCEPT !.work = @ + 1, !.trial = 0]
    /\ pc' = IF done THEN "stop" ELSE "before"
    /\ EndTrial
    /\ idle' = IF done THEN <<>> ELSE idle
    /\ limit' = IF done THEN 0 ELSE limit
    /\ UNCHANGED <<cmd, plan, asked, serverVars, status, applied, exit, diag,
                   todo, signals, more>>

(* The pool is closed and the tasks are cancelled. *)
LeaveTrial == EndTrial /\ idle' = <<>> /\ limit' = 0

(* _validate_final_results, as far as the tool itself decides it. *)
FinalAlarms ==
    (IF \E k \in 2..Len(trials) :
          trials[k].first # trials[k-1].first + trials[k-1].count
     THEN {"request_order"} ELSE {})
    \union (IF applied # [k \in 1..Len(plan) |-> k]
            THEN {"configuration_order"} ELSE {})

(* The last checks; a request that failed fails the run. *)
Finalize ==
    /\ Goto("final", "succeed")
    /\ \A k \in 1..Len(trials) : ~trials[k].errors
    /\ alarms' = alarms \union FinalAlarms
    /\ UNCHANGED <<loadVars, cmd, plan, asked, pos, serverVars, status, trials,
                   applied, exit, diag, todo, signals, more>>
Succeed ==
    /\ pc = "succeed"
    /\ status' = "succeeded"
    /\ pc' = IF cmd.profile = "none" THEN "return" ELSE "d_start"
    /\ UNCHANGED <<loadVars, cmd, plan, asked, pos, serverVars, trials, applied,
                   alarms, exit, diag, todo, signals, more>>

-----------------------------------------------------------------------------
(* The diagnostics. *)

(* _run_configured_diagnostics begins. *)
StartDiagnostics ==
    /\ Goto("d_start", "d_next")
    /\ diag' = [diag EXCEPT !.status = "running", !.request = "running"]
    /\ todo' = AllTargets
    /\ UNCHANGED <<loadVars, cmd, plan, asked, pos, serverVars, resultVars,
                   exit, signals, more>>

Attempt(s) == [family |-> Head(todo).name, status |-> s]
OfFamily(f) == {k \in 1..Len(diag.attempts) : diag.attempts[k].family = f}
Directory == <<Head(todo).name, Cardinality(OfFamily(Head(todo).name)) + 1>>
LastAttempt(s) ==
    [diag EXCEPT !.attempts[Len(diag.attempts)].status = s]

(* The next target, in the directory that its number gives. *)
NextTarget ==
    /\ pc = "d_next" /\ todo # <<>>
    /\ IF Targets(Head(todo)) = {}
       THEN /\ diag' = [diag EXCEPT !.attempts = Append(@, Attempt("failed"))]
            /\ todo' = Tail(todo) /\ UNCHANGED pc
       ELSE /\ Directory \notin diag.dirs
            /\ diag' = [diag EXCEPT !.dirs = @ \union {Directory}]
            /\ pc' = "d_append" /\ UNCHANGED todo
    /\ UNCHANGED <<loadVars, cmd, plan, asked, pos, serverVars, resultVars,
                   exit, signals, more>>
AppendAttempt ==
    /\ Goto("d_append", "d_prepare")
    /\ diag' = [diag EXCEPT !.attempts = Append(@, Attempt("running"))]
    /\ UNCHANGED <<loadVars, cmd, plan, asked, pos, serverVars, resultVars,
                   exit, todo, signals, more>>
PrepareAttempt ==
    /\ Goto("d_prepare", "d_launch")
    /\ UNCHANGED <<loadVars, cmd, plan, asked, pos, serverVars, resultVars,
                   exit, diag, todo, signals, more>>

(* Readiness, reset, one request and the metrics: all succeed, or one of   *)
(* them (or the launch) does not.                                          *)
Measure(s) ==
    /\ s = "running" => pc = "d_measure" /\ child = "running"
    /\ pc \in {"d_launch", "d_measure"} /\ pc' = "d_stop"
    /\ diag' = LastAttempt(s)
    /\ UNCHANGED <<loadVars, cmd, plan, asked, pos, serverVars, resultVars,
                   exit, todo, signals, more>>

(* The finally of an attempt: the server first, then the artifacts. *)
StopAttempt ==
    /\ Goto("d_stop", "d_close")
    /\ child' = IF held THEN "gone" ELSE child
    /\ held' = FALSE
    /\ UNCHANGED <<loadVars, cmd, plan, asked, pos, window, resultVars, exit,
                   diag, todo, signals, more>>
CloseAttempt(complete) ==
    LET now == Last(diag.attempts).status IN
    /\ Goto("d_close", "d_next")
    /\ diag' = LastAttempt(IF now # "running" THEN now
                           ELSE IF complete THEN "succeeded" ELSE "failed")
    /\ todo' = Tail(todo)
    /\ UNCHANGED <<loadVars, cmd, plan, asked, pos, serverVars, resultVars,
                   exit, signals, more>>

(* The attempts of this request are the last ones.  They decide the exit   *)
(* status, but the command is still in _interrupts_raise.                  *)
EndDiagnostics ==
    LET all == [k \in 1..Len(diag.attempts) |-> diag.attempts[k].status]
        mine == {all[k] : k \in (Len(all) - Len(AllTargets) + 1)..Len(all)}
        ok == mine = {"succeeded"} IN
    /\ pc = "d_next" /\ todo = <<>>
    /\ diag' = [diag EXCEPT
                  !.request = IF ok THEN "succeeded" ELSE "failed",
                  !.status = IF ToSet(all) = {"succeeded"} THEN "succeeded"
                             ELSE IF "succeeded" \in ToSet(all) THEN "partial"
                             ELSE "failed"]
    /\ exit' = IF ok THEN 0 ELSE 50
    /\ pc' = "return"
    /\ UNCHANGED <<loadVars, cmd, plan, asked, pos, serverVars, resultVars,
                   todo, signals, more>>

(* The directory is there already: run records the failure, diagnose ends  *)
(* with an exception nobody catches.                                       *)
DirectoryExists ==
    /\ pc = "d_next" /\ todo # <<>> /\ Targets(Head(todo)) # {}
    /\ Directory \in diag.dirs
    /\ exit' = IF cmd.kind = "diagnose" THEN 1 ELSE 50
    /\ diag' = IF cmd.kind = "diagnose" THEN diag
               ELSE [diag EXCEPT !.status = "failed", !.request = "failed"]
    /\ pc' = IF cmd.kind = "diagnose" THEN "finally" ELSE "return"
    /\ UNCHANGED <<loadVars, cmd, plan, asked, pos, serverVars, resultVars,
                   todo, signals, more>>

-----------------------------------------------------------------------------
(* The ends of a command. *)

Measuring == {"prompts", "plan", "launch", "launched", "ready", "warmup",
              "before", "trial", "stop", "stopped", "final", "succeed",
              "return"}
Diagnosing == {"d_start", "d_next", "d_append", "d_prepare", "d_launch",
               "d_launched", "d_measure", "d_stop", "d_close"}
(* The places whose work is done in an event loop. *)
Looping == {"warmup", "before", "trial", "d_measure"}
InDiagnostics ==
    \/ pc \in Diagnosing
    \/ pc = "return" /\ cmd.kind = "diagnose"

(* A step of the measurement fails: prompts that overlap, a server that    *)
(* does not start, become ready, reset or tell its counters (after a trial *)
(* and before it is stopped), a failed warm-up or request.                 *)
RunFails ==
    /\ \/ pc \in {"prompts", "launch", "ready", "warmup", "before", "stop"}
       \/ pc = "trial" /\ TrialDone
       \/ pc = "final" /\ \E k \in 1..Len(trials) : trials[k].errors
    /\ status' = "failed" /\ exit' = 50 /\ pc' = "finally"
    /\ alarms' = IF pc = "final" THEN alarms \union FinalAlarms ELSE alarms
    /\ LeaveTrial
    /\ UNCHANGED <<cmd, plan, asked, pos, serverVars, trials, applied, diag,
                   todo, signals, more>>

(* Mutant: the interrupted state is not written. *)
InterruptedUnwritten ==
    /\ pc \in Measuring /\ ~InDiagnostics /\ signals = 0
    /\ signals' = 1
    /\ window' = window \union (IF pc = "launched" THEN {"server"} ELSE {})
    /\ exit' = 130 /\ pc' = "finally"
    /\ LeaveTrial
    /\ UNCHANGED <<cmd, plan, asked, pos, child, held, resultVars, diag, todo,
                   more>>

(* The signal is raised in the measurement: the run is interrupted, even   *)
(* when it has just been written as succeeded.                             *)
RunInterrupted ==
    /\ pc \in Measuring /\ ~InDiagnostics /\ signals = 0
    /\ signals' = 1
    /\ window' = window \union (IF pc = "launched" THEN {"server"} ELSE {})
    /\ status' = "interrupted" /\ exit' = 130 /\ pc' = "finally"
    /\ LeaveTrial
    /\ UNCHANGED <<cmd, plan, asked, pos, child, held, trials, applied, alarms,
                   diag, todo, more>>

(* ... in a callback of the event loop, which logs and drops it. *)
InterruptDropped ==
    /\ pc \in Looping /\ signals = 0
    /\ signals' = 1
    /\ UNCHANGED <<loadVars, cmd, plan, asked, pc, pos, serverVars, resultVars,
                   exit, diag, todo, more>>

(***************************************************************************)
(* ... or in the diagnostics, which leave the result as it is.  Inside the *)
(* try of an attempt the attempt is marked and its server is stopped; in   *)
(* its finally, or before the try, neither happens.                        *)
(***************************************************************************)
DiagnosticsInterrupted ==
    LET tried == pc \in {"d_launch", "d_launched", "d_measure"}
        stops == tried /\ held IN
    /\ InDiagnostics /\ signals = 0
    /\ signals' = 1
    /\ window' = window \union CASE pc \in {"d_launched", "d_stop"} -> {"server"}
                               [] pc = "d_append" -> {"directory"}
                               [] OTHER -> {}
    /\ child' = IF stops THEN "gone" ELSE child
    /\ held' = FALSE
    /\ diag' = [IF tried THEN LastAttempt("interrupted") ELSE diag
                  EXCEPT !.status = "interrupted",
                         !.request = IF @ = "none" THEN @ ELSE "interrupted"]
    /\ exit' = 130 /\ pc' = "finally"
    /\ UNCHANGED <<loadVars, cmd, plan, asked, pos, resultVars, todo, more>>

(* The status of the diagnostics, if there were any. *)
Return ==
    /\ Goto("return", "finally")
    /\ exit' = IF cmd.profile = "none" THEN 0 ELSE exit
    /\ UNCHANGED <<loadVars, cmd, plan, asked, pos, serverVars, resultVars,
                   diag, todo, signals, more>>

(* Mutant: the server is let go without being stopped. *)
FinallyKeepsServer ==
    /\ Goto("finally", "ended")
    /\ held' = FALSE
    /\ UNCHANGED <<loadVars, cmd, plan, asked, pos, child, window, resultVars,
                   exit, diag, todo, signals, more>>

(* The finally of run_benchmark. *)
Finally ==
    /\ Goto("finally", "ended")
    /\ child' = IF held THEN "gone" ELSE child
    /\ held' = FALSE
    /\ UNCHANGED <<loadVars, cmd, plan, asked, pos, window, resultVars, exit,
                   diag, todo, signals, more>>

(* run_calibration goes on with a fresh directory as long as runs succeed. *)
Repeat ==
    /\ pc = "ended" /\ exit = 0 /\ more.reps > 0
    /\ more' = [more EXCEPT !.reps = @ - 1]
    /\ pc' = "prompts" /\ pos' = [run |-> 1, work |-> 1, trial |-> 0]
    /\ status' = "running" /\ exit' = -1
    /\ trials' = <<>> /\ applied' = <<>> /\ alarms' = {}
    /\ UNCHANGED <<loadVars, cmd, plan, asked, serverVars, diag, todo, signals>>

(* diagnose on a result that succeeded. *)
Diagnose ==
    /\ pc = "ended" /\ status = "succeeded" /\ more.reps = 0
    /\ more.diagnoses > 0
    /\ more' = [more EXCEPT !.diagnoses = @ - 1]
    /\ cmd' = [kind |-> "diagnose", mode |-> "self", profile |-> "all"]
    /\ pc' = "d_start" /\ exit' = -1 /\ signals' = 0
    /\ UNCHANGED <<loadVars, plan, asked, pos, serverVars, resultVars, diag,
                   todo>>

Over == pc = "ended" /\ UNCHANGED vars

Steps ==
    \/ \E s \in Suites, f \in Focuses : SelectConfiguration(s, f)
    \/ PromptsDone \/ NextExecution \/ Launch \/ Launched \/ BecomesReady
    \/ StopServer \/ Stopped
    \/ WarmedUp \/ BeginTrial \/ TrialStep \/ FinishTrial \/ Finalize \/ Succeed
    \/ StartDiagnostics \/ NextTarget \/ AppendAttempt \/ PrepareAttempt
    \/ \E s \in {"running", "failed"} : Measure(s)
    \/ StopAttempt \/ (\E complete \in BOOLEAN : CloseAttempt(complete))
    \/ EndDiagnostics \/ DirectoryExists
    \/ RunFails \/ Return \/ Finally \/ Repeat

Next ==
    \/ Steps
    \/ ChildDies \/ RunInterrupted \/ InterruptDropped \/ DiagnosticsInterrupted
    \/ Diagnose \/ Over

Spec == Init /\ [][Next]_vars

(* Every wait of the command has a time limit, so it goes on; closing a    *)
(* connection has none (wait_closed), and the server is taken to have read *)
(* what was written or to close the connection.                            *)
FairSpec == Spec /\ WF_vars(Steps)

-----------------------------------------------------------------------------
TypeOK ==
    /\ pc \in Measuring \union Diagnosing \union {"select", "finally", "ended"}
    /\ \A i \in DOMAIN task : task[i] \in TaskStates
    /\ child \in {"none", "running", "gone"} /\ held \in BOOLEAN
    /\ window \subseteq {"server", "directory"}
    /\ status \in {"none", "running", "succeeded", "failed", "interrupted"}
    /\ exit \in {-1, 0, 1, 50, 130}
    /\ ToSet(idle) \subseteq Connections /\ Cardinality(Busy) <= limit

(***************************************************************************)
(* The load generator puts on the server exactly the load that was asked   *)
(* for.  Whatever requests fail, time out or overlap: a request never      *)
(* waits for a place in the pool (which would be measured as the server's  *)
(* latency), no connection is used twice at a time or given back with an   *)
(* answer unread, every request that succeeds was given its own answer,    *)
(* and _validate_completed_trial and _validate_final_results never raise   *)
(* an alarm about the tool's own doing, except that executions left empty  *)
(* by a focus are reported as a wrong configuration order.                 *)
(***************************************************************************)
TrialSound ==
    /\ TypeOK
    /\ \A i \in DOMAIN task :
         /\ task[i] = "submitted" => Cardinality(Busy) < limit
         /\ task[i] = "succeeded" => got[i] = i
         /\ task[i] = "sent" => due[conn[i]] = <<i>>
    /\ \A k \in 1..Len(idle) : due[idle[k]] = <<>> /\ idle[k] \notin Busy
    /\ IsInjective(idle)
    /\ alarms \subseteq {"configuration_order"}
    /\ alarms # {} => \E k \in 1..Len(plan) : plan[k].workloads = <<>>

(* The trials a complete run has, in any order. *)
AllTrials ==
    UNION {{[run |-> k, work |-> w, trial |-> t] :
              w \in ToSet(plan[k].workloads), t \in 0..(Trials - 1)} :
           k \in 1..Len(plan)}

(***************************************************************************)
(* The results file and the exit status of a finished command tell what    *)
(* happened, whenever a signal, a failure or the death of the server came: *)
(* the file never says running, a run that exits with 0 is recorded as     *)
(* succeeded, its diagnostics too, and succeeded means that every trial of *)
(* every workload that was selected is there once, on each model that is   *)
(* to cover it, without a failed request.                                  *)
(***************************************************************************)
EndsAsRecorded ==
    pc = "ended" =>
      /\ status # "running"
      /\ exit = 0 => /\ status = "succeeded"
                     /\ cmd.profile = "all" => diag.request = "succeeded"
      /\ exit # 0 /\ cmd.profile = "none" => status # "succeeded"
      /\ status = "succeeded" =>
           /\ {[run |-> t.run, work |-> t.work, trial |-> t.trial] :
                  t \in ToSet(trials)} = AllTrials
           /\ Len(trials) = Cardinality(AllTrials)
           /\ \A k \in 1..Len(trials) : ~trials[k].errors
           /\ {<<plan[t.run].model, t.work>> : t \in ToSet(trials)} = asked

(***************************************************************************)
(* A command leaves a server behind only when a signal hit between the     *)
(* creation of the process and the assignment of the variable that will    *)
(* stop it, or at the first statement of an attempt's finally; and an      *)
(* attempt finds its directory taken only when one hit between a directory *)
(* of a former attempt and its record.  No other signal, failure or death  *)
(* of a server does either.                                                *)
(***************************************************************************)
NothingLeftBehind ==
    /\ pc = "ended" /\ child = "running" => "server" \in window
    /\ pc = "d_next" /\ todo # <<>> /\ Directory \in diag.dirs
         => "directory" \in window

(* Every command ends: no failed request, dead server, empty execution or  *)
(* signal makes it wait for ever.                                          *)
CommandEnds == pc # "ended" ~> pc = "ended"
=============================================================================
