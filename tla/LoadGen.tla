------------------------------ MODULE LoadGen ------------------------------
(***************************************************************************)
(* One trial of the load generator (loadgen.py): request_count requests    *)
(* submitted one after the other, all at once, or so that each completed   *)
(* one is replaced, over a pool of keep-alive HTTP connections.  Everything*)
(* runs on one asyncio loop; a step is what happens between two awaits.    *)
(* A request whose transport fails is never sent again.                    *)
(***************************************************************************)
EXTENDS BenchmarkPlan, FiniteSetsExt

CONSTANT Connections  \* the HTTP connections there can be at a time

VARIABLES
    load,       \* the workload of the trial
    limit,      \* maximum_connections, the pool's semaphore
    task,       \* the task of each request index, see TaskStates
    conn,       \* the connection of a task that was sent
    idle,       \* _available: connections to take again, youngest last
    due,        \* per connection the requests with an answer to come
    got,        \* whose answer a request was given (history)
    collected,  \* indexes whose record the trial has
    peak        \* maximum_in_flight

trialVars == <<task, conn, due, got, collected, peak>>
loadVars == <<load, limit, idle, trialVars>>

TaskStates == {"none", "submitted", "sent", "succeeded", "failed"}
NoLoad == "none"
Indexes(w) == IF w = NoLoad THEN {} ELSE 0..(Count(w) - 1)
Done == {i \in DOMAIN task : task[i] \in {"succeeded", "failed"}}
InFlight == {i \in DOMAIN task : task[i] \in {"submitted", "sent"}}
Busy == {conn[i] : i \in {j \in DOMAIN task : task[j] = "sent"}}

NoTrial ==
    /\ load = NoLoad /\ task = <<>> /\ conn = <<>> /\ got = <<>>
    /\ due = [c \in Connections |-> <<>>]
    /\ collected = {} /\ peak = 0

(* The trial is over: nothing of it is left but the pool. *)
EndTrial ==
    /\ load' = NoLoad /\ task' = <<>> /\ conn' = <<>> /\ got' = <<>>
    /\ due' = [c \in Connections |-> <<>>]
    /\ collected' = {} /\ peak' = 0

(* The first n requests without a task are submitted. *)
SubmitNext(t, n) ==
    LET next == Cardinality({i \in DOMAIN t : t[i] # "none"}) IN
    [i \in DOMAIN t |-> IF i \in next..(next + n - 1) THEN "submitted" ELSE t[i]]

(* Mutant: one request more than the concurrency is submitted. *)
AtOnceOneMore(w) ==
    CASE Mode(w) = "sequential" -> 1
      [] Mode(w) = "burst" -> Count(w)
      [] Mode(w) = "closed-loop" -> Min({Concurrency(w) + 1, Count(w)})

(* How many requests are submitted before the first answer. *)
AtOnce(w) ==
    CASE Mode(w) = "sequential" -> 1
      [] Mode(w) = "burst" -> Count(w)
      [] Mode(w) = "closed-loop" -> Min({Concurrency(w), Count(w)})

(* _execute_trial begins. *)
StartTrial(w) ==
    /\ load' = w
    /\ task' = SubmitNext([i \in Indexes(w) |-> "none"], AtOnce(w))
    /\ conn' = [i \in Indexes(w) |-> 0]
    /\ got' = [i \in Indexes(w) |-> i]
    /\ collected' = {}
    /\ peak' = AtOnce(w)
    /\ UNCHANGED due

(* _acquire: the connection given back last, or a new one. *)
NextConnection ==
    IF idle # <<>> THEN Last(idle)
    ELSE Min(Connections \ (Busy \union ToSet(idle)))

(***************************************************************************)
(* _AsyncHttpPool.post_json up to the written request: a place in the pool *)
(* and a connection.                                                       *)
(***************************************************************************)
Post(i) ==
    /\ i \in DOMAIN task /\ task[i] = "submitted"
    /\ Cardinality(Busy) < limit
    /\ conn' = [conn EXCEPT ![i] = NextConnection]
    /\ due' = [due EXCEPT ![NextConnection] = Append(@, i)]
    /\ idle' = IF idle # <<>> THEN Front(idle) ELSE idle
    /\ task' = [task EXCEPT ![i] = "sent"]
    /\ UNCHANGED <<load, limit, got, collected, peak>>

(* Back to the pool, or closed with what was still to come. *)
GiveBack(c) ==
    /\ idle' = Append(idle, c)
    /\ due' = [due EXCEPT ![c] = Tail(@)]
Close(c) ==
    /\ idle' = idle
    /\ due' = [due EXCEPT ![c] = <<>>]

(* A whole response is read; the server may not keep the connection, and   *)
(* the usage it reports may be unsound.                                    *)
Respond(i, status, reusable) ==
    /\ i \in DOMAIN task /\ task[i] = "sent"
    /\ got' = [got EXCEPT ![i] = Head(due[conn[i]])]
    /\ IF reusable THEN GiveBack(conn[i]) ELSE Close(conn[i])
    /\ task' = [task EXCEPT ![i] = status]
    /\ UNCHANGED <<load, limit, conn, collected, peak>>

(* Mutant: a request whose transport fails is sent again. *)
BreakRetries(i) ==
    /\ i \in DOMAIN task /\ task[i] = "sent"
    /\ Close(conn[i])
    /\ task' = [task EXCEPT ![i] = "submitted"]
    /\ UNCHANGED <<load, limit, conn, got, collected, peak>>

(* No connection, a refused or malformed response, a broken one, or the    *)
(* timeout: part of the response may be unread, the connection is closed.  *)
Break(i) ==
    /\ i \in DOMAIN task /\ task[i] = "sent"
    /\ Close(conn[i])
    /\ task' = [task EXCEPT ![i] = "failed"]
    /\ UNCHANGED <<load, limit, conn, got, collected, peak>>

(* The trial takes the records of all tasks that are done and, unless it   *)
(* is a burst, submits as many requests again.                             *)
Collect ==
    LET new == Done \ collected
        waits == IF Mode(load) = "burst" THEN DOMAIN task ELSE {}
        fresh == SubmitNext(task, Cardinality(new)) IN
    /\ new # {} /\ waits \subseteq Done
    /\ collected' = collected \union new
    /\ task' = fresh
    /\ peak' = Max({peak, Cardinality({i \in DOMAIN fresh :
                                         fresh[i] \in {"submitted", "sent"}})})
    /\ UNCHANGED <<load, limit, conn, idle, due, got>>

TrialDone == load # NoLoad /\ collected = DOMAIN task

(* The requests of a trial that failed. *)
Errors == {i \in DOMAIN task : task[i] = "failed"}

(* _validate_completed_trial: the concurrency that was to be reached. *)
ExpectedPeak(w) == IF Mode(w) = "sequential" THEN 1 ELSE Concurrency(w)
=============================================================================
