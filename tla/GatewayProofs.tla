---------------------------- MODULE GatewayProofs ----------------------------
(***************************************************************************)
(* Proofs about the three parts of the gateway: RequestAdmission, for      *)
(* every number of requests and every pair of limits, Supervisor, with and *)
(* without a VLM model, and ChatDispatch, for every set of requests.       *)
(***************************************************************************)
EXTENDS RequestAdmission, Supervisor, ChatDispatch, FiniteSetTheorems,
        SequenceTheorems, TLAPS

-----------------------------------------------------------------------------
(* Admission control. *)

(***************************************************************************)
(* How many requests are at a place after the thread of r moved from one   *)
(* place to another.                                                       *)
(***************************************************************************)
LEMMA MoveCounts ==
    ASSUME stage \in [Threads -> Stages], NEW r \in Threads, NEW to,
           stage' = [stage EXCEPT ![r] = to], NEW place
    PROVE  /\ Cardinality(At(place)) \in Nat
           /\ stage[r] = place => Cardinality(At(place)) > 0
           /\ Cardinality(At(place)') =
                IF stage[r] = place /\ to # place THEN Cardinality(At(place)) - 1
                ELSE IF stage[r] # place /\ to = place THEN Cardinality(At(place)) + 1
                ELSE Cardinality(At(place))
<1>1. IsFiniteSet(At(place)) /\ Cardinality(At(place)) \in Nat
  BY AdmissionRequests, FS_Subset, FS_CardinalityType DEF At
<1>2. stage[r] = place => Cardinality(At(place)) > 0
  <2>1. stage[r] = place => r \in At(place)
    BY DEF At
  <2> QED
    BY <1>1, <2>1, FS_EmptySet
<1>3. ASSUME stage[r] = place, to # place
      PROVE  Cardinality(At(place)') = Cardinality(At(place)) - 1
  <2>1. At(place)' = At(place) \ {r} /\ r \in At(place)
    BY <1>3 DEF At
  <2> QED
    BY <1>1, <2>1, FS_RemoveElement
<1>4. ASSUME stage[r] # place, to = place
      PROVE  Cardinality(At(place)') = Cardinality(At(place)) + 1
  <2>1. At(place)' = At(place) \union {r} /\ r \notin At(place)
    BY <1>4 DEF At
  <2> QED
    BY <1>1, <2>1, FS_AddElement
<1>5. ASSUME stage[r] = place <=> to = place
      PROVE  At(place)' = At(place)
  BY <1>5 DEF At
<1> QED
  BY <1>1, <1>2, <1>3, <1>4, <1>5

Counted == AdmissionTypeOK /\ CountsExact

LEMMA InitCounted == AdmissionInit => Counted
<1> SUFFICES ASSUME AdmissionInit PROVE Counted
  OBVIOUS
<1>1. At("active") = {} /\ At("waiting") = {}
  BY DEF AdmissionInit, At
<1>2. AdmissionTypeOK
  BY DEF AdmissionInit, AdmissionTypeOK, Stages
<1>3. CountsExact
  BY <1>1, FS_EmptySet, AdmissionLimits DEF AdmissionInit, CountsExact
<1> QED
  BY <1>2, <1>3 DEF Counted

(* The numbers of active and of waiting requests when r moves to a place. *)
LEMMA Moved ==
    ASSUME Counted, NEW r \in Threads, NEW to \in Stages,
           stage' = [stage EXCEPT ![r] = to]
    PROVE  /\ stage' \in [Threads -> Stages]
           /\ active \in Nat /\ waiting \in Nat
           /\ stage[r] = "active" => active > 0
           /\ stage[r] = "waiting" => waiting > 0
           /\ Cardinality(At("active")') =
                IF stage[r] = "active" /\ to # "active" THEN active - 1
                ELSE IF stage[r] # "active" /\ to = "active" THEN active + 1
                ELSE active
           /\ Cardinality(At("waiting")') =
                IF stage[r] = "waiting" /\ to # "waiting" THEN waiting - 1
                ELSE IF stage[r] # "waiting" /\ to = "waiting" THEN waiting + 1
                ELSE waiting
<1>1. /\ stage \in [Threads -> Stages] /\ active \in Nat /\ waiting \in Nat
      /\ active = Cardinality(At("active"))
      /\ waiting = Cardinality(At("waiting"))
  BY DEF Counted, AdmissionTypeOK, CountsExact
<1>2. /\ stage[r] = "active" => Cardinality(At("active")) > 0
      /\ Cardinality(At("active")') =
           IF stage[r] = "active" /\ to # "active" THEN Cardinality(At("active")) - 1
           ELSE IF stage[r] # "active" /\ to = "active" THEN Cardinality(At("active")) + 1
           ELSE Cardinality(At("active"))
  BY <1>1, MoveCounts
<1>3. /\ stage[r] = "waiting" => Cardinality(At("waiting")) > 0
      /\ Cardinality(At("waiting")') =
           IF stage[r] = "waiting" /\ to # "waiting" THEN Cardinality(At("waiting")) - 1
           ELSE IF stage[r] # "waiting" /\ to = "waiting" THEN Cardinality(At("waiting")) + 1
           ELSE Cardinality(At("waiting"))
  BY <1>1, MoveCounts
<1> QED
  BY <1>1, <1>2, <1>3

(* A turn of acquire_until, by a new request or by one that waits. *)
LEMMA TurnCounted ==
    ASSUME Counted, NEW r \in Threads, NEW others, UNCHANGED left, Turn(r, others),
           \/ stage[r] = "new" /\ others = waiting
           \/ stage[r] = "waiting" /\ others = waiting - 1
    PROVE  Counted'
<1>0. /\ left \subseteq Threads
      /\ active <= MaxActive /\ waiting <= MaxPending
  BY DEF Counted, AdmissionTypeOK, CountsExact
<1>1. PICK to \in {"gone", "active", "queue_full", "waiting"} :
        /\ stage' = [stage EXCEPT ![r] = to]
        /\ to = "active" => active < MaxActive
        /\ active' = IF to = "active" THEN active + 1 ELSE active
        /\ waiting' = IF to = "waiting" THEN others + 1 ELSE others
        /\ to = "waiting" => ~(others >= MaxPending)
  BY DEF Turn, Return, PermitFree
<1>2. to \in Stages
  BY DEF Stages, Refusals
<1>3. /\ stage' \in [Threads -> Stages]
      /\ active \in Nat /\ waiting \in Nat
      /\ stage[r] = "waiting" => waiting > 0
      /\ Cardinality(At("active")') = IF to = "active" THEN active + 1 ELSE active
      /\ Cardinality(At("waiting")') =
           IF stage[r] = "waiting" /\ to # "waiting" THEN waiting - 1
           ELSE IF stage[r] # "waiting" /\ to = "waiting" THEN waiting + 1
           ELSE waiting
  BY <1>1, <1>2, Moved
<1>4. others \in Nat /\ others <= MaxPending
  BY <1>0, <1>3, AdmissionLimits
<1>5. AdmissionTypeOK'
  BY <1>0, <1>1, <1>3, <1>4 DEF AdmissionTypeOK
<1>6. active' = Cardinality(At("active")') /\ active' <= MaxActive
  BY <1>0, <1>1, <1>3, AdmissionLimits
<1>7. waiting' = Cardinality(At("waiting")') /\ waiting' <= MaxPending
  BY <1>0, <1>1, <1>3, <1>4, AdmissionLimits
<1> QED
  BY <1>5, <1>6, <1>7 DEF Counted, CountsExact

LEMMA NextCounted == Counted /\ [AdmissionNext]_admissionVars => Counted'
<1> SUFFICES ASSUME Counted, [AdmissionNext]_admissionVars PROVE Counted'
  OBVIOUS
<1>0. /\ left \subseteq Threads
      /\ active \in Nat /\ waiting \in Nat
      /\ active <= MaxActive /\ waiting <= MaxPending
  BY DEF Counted, AdmissionTypeOK, CountsExact
<1>1. ASSUME NEW r \in Threads, ClientLeaves(r) PROVE Counted'
  <2>1. UNCHANGED <<active, waiting, stage>> /\ left' = left \union {r}
    BY <1>1 DEF ClientLeaves
  <2> QED
    BY <2>1 DEF Counted, AdmissionTypeOK, CountsExact, At
<1>2. ASSUME NEW r \in Threads, Enter(r) PROVE Counted'
  BY <1>2, TurnCounted DEF Enter
<1>3. ASSUME NEW r \in Threads, Wake(r) PROVE Counted'
  <2>1. stage[r] = "waiting" /\ "waiting" \in Stages /\ stage = [stage EXCEPT ![r] = "waiting"]
    BY <1>3 DEF Wake, Counted, AdmissionTypeOK, Stages
  <2>2. waiting > 0
    <3>1. r \in At("waiting") /\ IsFiniteSet(At("waiting"))
      BY <2>1, AdmissionRequests, FS_Subset DEF At
    <3> QED
      BY <3>1, FS_EmptySet, <1>0 DEF Counted, CountsExact
  <2> QED
    BY <1>3, <2>1, <2>2, TurnCounted DEF Wake
<1>4. ASSUME NEW r \in Threads, Expire(r) PROVE Counted'
  <2>1. /\ stage[r] = "waiting" /\ stage' = [stage EXCEPT ![r] = "queue_timeout"]
        /\ "queue_timeout" \in Stages /\ UNCHANGED <<active, left>>
        /\ waiting' = IF waiting > 0 THEN waiting - 1 ELSE waiting
    BY <1>0, <1>4 DEF Expire, Return, Stages, Refusals
  <2>2. /\ stage' \in [Threads -> Stages] /\ waiting > 0
        /\ Cardinality(At("active")') = active
        /\ Cardinality(At("waiting")') = waiting - 1
    BY <2>1, Moved
  <2> QED
    BY <1>0, <2>1, <2>2, AdmissionLimits DEF Counted, AdmissionTypeOK, CountsExact
<1>5. ASSUME NEW r \in Threads, Release(r) PROVE Counted'
  <2>1. /\ stage[r] = "active" /\ stage' = [stage EXCEPT ![r] = "done"]
        /\ "done" \in Stages /\ UNCHANGED <<waiting, left>>
        /\ active' = IF active > 0 THEN active - 1 ELSE active
    BY <1>5 DEF Release, Stages
  <2>2. /\ stage' \in [Threads -> Stages] /\ active > 0
        /\ Cardinality(At("active")') = active - 1
        /\ Cardinality(At("waiting")') = waiting
    BY <2>1, Moved
  <2> QED
    BY <1>0, <2>1, <2>2, AdmissionLimits DEF Counted, AdmissionTypeOK, CountsExact
<1>6. CASE UNCHANGED admissionVars
  BY <1>6 DEF admissionVars, Counted, AdmissionTypeOK, CountsExact, At
<1> QED
  BY <1>1, <1>2, <1>3, <1>4, <1>5, <1>6 DEF AdmissionNext

(***************************************************************************)
(* The admission counters are exact and within max_active_requests and     *)
(* max_pending_requests, however many connection threads there are.        *)
(***************************************************************************)
THEOREM AdmissionCounts == AdmissionSpec => []CountsExact
<1>1. Counted => CountsExact
  BY DEF Counted
<1> QED
  BY <1>1, InitCounted, NextCounted, PTL DEF AdmissionSpec

(***************************************************************************)
(* A queued request is never refused as "queue full" when its thread wakes *)
(* up: it has left the count before it is tested against the limit.        *)
(***************************************************************************)
THEOREM QueuedRequestStays == AdmissionSpec => QueuedStays
<1>1. Counted /\ [AdmissionNext]_admissionVars =>
        [\A r \in Threads : stage[r] = "waiting" => stage'[r] # "queue_full"]_admissionVars
  <2> SUFFICES ASSUME Counted, [AdmissionNext]_admissionVars,
                      NEW r \in Threads, stage[r] = "waiting"
               PROVE  stage'[r] # "queue_full"
    OBVIOUS
  <2>0. stage \in [Threads -> Stages] /\ waiting \in Nat /\ waiting <= MaxPending
    BY DEF Counted, AdmissionTypeOK, CountsExact
  <2>1. waiting > 0
    <3>1. r \in At("waiting") /\ IsFiniteSet(At("waiting"))
      BY AdmissionRequests, FS_Subset DEF At
    <3> QED
      BY <2>0, <3>1, FS_EmptySet DEF Counted, CountsExact
  <2>2. CASE UNCHANGED admissionVars
    BY <2>2 DEF admissionVars
  <2>3. CASE \E q \in Threads : ClientLeaves(q) \/ Release(q) \/ Expire(q)
    BY <2>0, <2>3 DEF ClientLeaves, Release, Expire, Return
  <2>4. CASE \E q \in Threads : Enter(q)
    BY <2>0, <2>4 DEF Enter, Turn, Return
  <2>5. CASE \E q \in Threads : Wake(q)
    <3>1. PICK q \in Threads : Wake(q)
      BY <2>5
    <3>2. Turn(q, waiting - 1) /\ ~(waiting - 1 >= MaxPending)
      BY <2>0, <2>1, <3>1, AdmissionLimits DEF Wake
    <3>3. stage' = [stage EXCEPT ![q] = stage'[q]] /\ stage'[q] # "queue_full"
      BY <2>0, <3>2 DEF Turn, Return
    <3> QED
      BY <2>0, <3>3
  <2> QED
    BY <2>2, <2>3, <2>4, <2>5 DEF AdmissionNext
<1> QED
  BY <1>1, InitCounted, NextCounted, PTL DEF AdmissionSpec, QueuedStays

-----------------------------------------------------------------------------
(* The supervisor. *)

(* The main thread has not begun to stop. *)
Early == {"bind", "wait", "wait_flag", "serve", "final_status"}

(***************************************************************************)
(* What is left to be cleaned up at each place of the main thread, which   *)
(* no step of another thread undoes.                                       *)
(***************************************************************************)
Cleaning ==
    /\ at["main"] \notin Early => result # "none"
    /\ at["main"] \in {"join", "unlink", "done"} => child = "reaped"
    /\ at["main"] \in {"unlink", "done"} => at["boot"] = "done"
    /\ at["main"] = "done" => ~socket

(***************************************************************************)
(* Where the shutdown flag may come from before the main thread itself     *)
(* sets it: a signal, or the monitor, which marks the model first.         *)
(***************************************************************************)
Blame ==
    /\ at["boot"] \in {"lost_vlm", "lost_flag"} => state = "failed"
    /\ shutdown /\ ~signalled /\ at["main"] \in Early =>
         at["boot"] = "done" /\ state = "failed"
    /\ at["main"] = "final_status" => shutdown \/ result = "error"
    /\ at["main"] \in Early => result # "ok"

MainPlaces == {"bind", "wait", "wait_flag", "serve", "final_status", "stop", "drop",
               "pid", "kill", "reap", "join", "unlink", "done"}
BootPlaces == {"accept", "try_accept", "read", "try_read", "handshake", "monitor", "watch",
               "lost", "lost_text", "lost_vlm", "lost_flag", "fail", "mark",
               "pid", "kill", "reap", "unlink", "done"}
WarmupPlaces == {"none", "start", "call", "succeeded", "failed", "done"}
Messages == {"nothing", "loading", "status_ready", "status_failed", "READY", "ERROR"}

(* The type invariant, one thread and one variable at a time. *)
PlacesOK ==
    /\ DOMAIN at = {"main", "boot", "warmup"}
    /\ at["main"] \in MainPlaces
    /\ at["boot"] \in BootPlaces
    /\ at["warmup"] \in WarmupPlaces

ValuesOK ==
    /\ child \in {"running", "zombie", "reaped"}
    /\ sent \in Messages /\ wire \in Seq(Messages)
    /\ state \in {"loading", "ready", "failed"}
    /\ vlm \in {"not_loaded", "warming_up", "ready", "failed"}
    /\ result \in {"none", "ok", "error"}

FlagsOK ==
    /\ shutdown \in BOOLEAN /\ signalled \in BOOLEAN
    /\ connected \in BOOLEAN /\ socket \in BOOLEAN /\ interrupted \in BOOLEAN

LEMMA Unfolded == SupervisorTypeOK <=> PlacesOK /\ ValuesOK /\ FlagsOK
<1>1. /\ DOMAIN Positions = {"main", "boot", "warmup"}
      /\ Positions["main"] = MainPlaces
      /\ Positions["boot"] = BootPlaces
      /\ Positions["warmup"] = WarmupPlaces
  BY DEF Positions, MainPlaces, BootPlaces, WarmupPlaces
<1>2. DOMAIN Startup = Messages
  BY DEF Startup, Messages
<1>3. (DOMAIN at = DOMAIN Positions /\ \A t \in DOMAIN Positions : at[t] \in Positions[t])
        <=> PlacesOK
  BY <1>1 DEF PlacesOK
<1>4. {shutdown, signalled, connected, socket, interrupted} \subseteq BOOLEAN <=> FlagsOK
  BY Zenon DEF FlagsOK
<1> QED
  BY <1>2, <1>3, <1>4, Zenon DEF SupervisorTypeOK, ValuesOK

(* The inductive invariant. *)
SupervisorInv == PlacesOK /\ ValuesOK /\ FlagsOK /\ Cleaning /\ Blame

LEMMA InitSupervisorInv == SupervisorInit => SupervisorInv
<1> SUFFICES ASSUME SupervisorInit PROVE SupervisorInv
  OBVIOUS
<1>1. FlagsOK
  BY Zenon DEF SupervisorInit, FlagsOK
<1>2. PlacesOK /\ ValuesOK /\ Cleaning /\ Blame
  BY DEF SupervisorInit, PlacesOK, ValuesOK, Cleaning, Blame, Early, MainPlaces, BootPlaces,
         WarmupPlaces, Messages
<1> QED
  BY <1>1, <1>2 DEF SupervisorInv

LEMMA NextSupervisorInv == SupervisorInv /\ [SupervisorNext]_supervisorVars => SupervisorInv'
<1> SUFFICES ASSUME SupervisorInv, [SupervisorNext]_supervisorVars PROVE SupervisorInv'
  OBVIOUS
<1> USE DEF SupervisorInv, Cleaning, Blame, Early, Go, process, flags, models, ending
<1> USE DEF PlacesOK, ValuesOK, FlagsOK, MainPlaces, BootPlaces, WarmupPlaces, Messages
<1>1. CASE Signal
  BY <1>1 DEF Signal
<1>2. CASE WorkerSends
  BY <1>2 DEF WorkerSends, Startup
<1>3. CASE ChildExits
  BY <1>3 DEF ChildExits
<1>4. ASSUME NEW t \in {"main", "boot"}, Terminate(t)
      PROVE  SupervisorInv'
  <2>1. CASE ReadPid(t)
    BY <1>4, <2>1 DEF ReadPid, After
  <2>2. CASE Kill(t)
    BY <1>4, <2>2 DEF Kill
  <2>3. CASE Reap(t)
    BY <1>4, <2>3 DEF Reap, After
  <2>4. CASE Unlink(t)
    <3>1. FlagsOK'
      BY <1>4, <2>4, Zenon DEF Unlink
    <3>2. (PlacesOK /\ ValuesOK /\ Cleaning /\ Blame)'
      BY <1>4, <2>4 DEF Unlink
    <3> QED
      BY <3>1, <3>2
  <2> QED
    BY <1>4, <2>1, <2>2, <2>3, <2>4 DEF Terminate
<1>5. CASE Boot
  <2>1. CASE CheckFlag
    BY <2>1 DEF CheckFlag
  <2>2. CASE Accept
    BY <2>2 DEF Accept
  <2>3. CASE Poll
    BY <2>3 DEF Poll
  <2>4. CASE WorkerGone
    BY <2>4 DEF WorkerGone
  <2>5. CASE Timeout
    BY <2>5 DEF Timeout
  <2>6. CASE ReadStatus
    BY <2>6 DEF ReadStatus
  <2>7. CASE ReadError
    BY <2>7 DEF ReadError
  <2>8. CASE ReadReady
    BY <2>8 DEF ReadReady
  <2>9. CASE Handshake
    BY <2>9 DEF Handshake
  <2>10. CASE Fail
    <3>1. FlagsOK'
      BY <2>10, Zenon DEF Fail
    <3>2. (PlacesOK /\ ValuesOK /\ Cleaning /\ Blame)'
      BY <2>10 DEF Fail
    <3> QED
      BY <3>1, <3>2
  <2>11. CASE MarkFailed
    BY <2>11 DEF MarkFailed
  <2>12. CASE Monitor
    BY <2>12 DEF Monitor
  <2>13. CASE Watch
    BY <2>13 DEF Watch
  <2>14. CASE Lost
    <3>1. FlagsOK'
      BY <2>14, Zenon DEF Lost
    <3>2. (PlacesOK /\ ValuesOK /\ Cleaning /\ Blame)'
      BY <2>14 DEF Lost
    <3> QED
      BY <3>1, <3>2
  <2> QED
    BY <1>4, <1>5, <2>1, <2>2, <2>3, <2>4, <2>5, <2>6, <2>7, <2>8, <2>9, <2>10, <2>11,
       <2>12, <2>13, <2>14 DEF Boot
<1>6. CASE Warmup
  BY <1>6 DEF Warmup, WarmupStarts, WarmupReturns, WarmupMarks
<1>7. CASE Main \/ ServeFails
  <2>1. CASE Bind
    BY <2>1 DEF Bind
  <2>2. CASE WaitStatus
    BY <2>2 DEF WaitStatus
  <2>3. CASE WaitFlag
    BY <2>3 DEF WaitFlag
  <2>4. CASE Serve
    BY <2>4 DEF Serve
  <2>5. CASE FinalStatus
    BY <2>5 DEF FinalStatus
  <2>6. CASE Stop
    <3>1. FlagsOK'
      BY <2>6, Zenon DEF Stop
    <3>2. (PlacesOK /\ ValuesOK /\ Cleaning /\ Blame)'
      BY <2>6 DEF Stop
    <3> QED
      BY <3>1, <3>2
  <2>7. CASE Join
    BY <2>7 DEF Join
  <2>8. CASE ServeFails
    BY <2>8 DEF ServeFails
  <2> QED
    BY <1>4, <1>7, <2>1, <2>2, <2>3, <2>4, <2>5, <2>6, <2>7, <2>8 DEF Main
<1>8. CASE UNCHANGED supervisorVars
  BY <1>8 DEF supervisorVars
<1> QED
  BY <1>1, <1>2, <1>3, <1>5, <1>6, <1>7, <1>8 DEF SupervisorNext

LEMMA SupervisorInvariant == SupervisorSpec => []SupervisorInv
  BY InitSupervisorInv, NextSupervisorInv, PTL DEF SupervisorSpec

(***************************************************************************)
(* CleanedUp: when run_with has returned, the worker has been reaped, the  *)
(* socket file removed and the bootstrap thread joined, however the steps  *)
(* of both threads and the worker's start-up or death fell.                *)
(***************************************************************************)
THEOREM ShutdownCleansUp == SupervisorSpec => []CleanedUp
<1>1. SupervisorInv => CleanedUp
  <2> SUFFICES ASSUME SupervisorInv PROVE CleanedUp
    OBVIOUS
  <2>1. SupervisorTypeOK
    BY Unfolded DEF SupervisorInv
  <2>2. at.main = "done" =>
          child = "reaped" /\ ~socket /\ at.boot = "done" /\ result # "none"
    BY DEF SupervisorInv, Cleaning, Early
  <2> QED
    BY <2>1, <2>2 DEF CleanedUp
<1> QED
  BY <1>1, SupervisorInvariant, PTL

(***************************************************************************)
(* LossReported: the main thread turns its final status into a normal exit *)
(* only if a signal arrived; a lost worker was marked before the monitor   *)
(* set the flag that ended serve_until.                                    *)
(***************************************************************************)
THEOREM LossIsReported == SupervisorSpec => LossReported
<1>1. SupervisorInv /\ [SupervisorNext]_supervisorVars =>
        [at.main = "final_status" /\ result' = "ok" => signalled]_supervisorVars
  <2> SUFFICES ASSUME SupervisorInv, SupervisorNext, at.main = "final_status", result' = "ok",
                      ~signalled
               PROVE  FALSE
    BY DEF supervisorVars
  <2>1. /\ at["main"] = "final_status" /\ result # "ok"
        /\ result = "error" \/ state = "failed"
    BY DEF SupervisorInv, Blame, Early
  <2> USE DEF Go, process, flags, models, ending
  <2>2. result' = result \/ FinalStatus
    <3>1. CASE Boot
      BY <2>1, <3>1 DEF Boot, CheckFlag, Accept, Poll, WorkerGone, Timeout, ReadStatus,
         ReadError, ReadReady, Handshake, Fail, MarkFailed, Monitor, Watch, Lost,
         Terminate, ReadPid, Kill, Reap, Unlink
    <3>2. CASE Main \/ ServeFails
      BY <2>1, <3>2 DEF Main, ServeFails, Bind, WaitStatus, WaitFlag, Serve, Stop, Join,
         Terminate, ReadPid, Kill, Reap, Unlink
    <3>3. CASE Signal \/ WorkerSends \/ ChildExits \/ Warmup
      BY <3>3 DEF Signal, WorkerSends, ChildExits, Warmup, WarmupStarts, WarmupReturns,
         WarmupMarks
    <3> QED
      BY <3>1, <3>2, <3>3 DEF SupervisorNext
  <2>3. ~FinalStatus
    BY <2>1 DEF FinalStatus
  <2> QED
    BY <2>1, <2>2, <2>3
<1> QED
  BY <1>1, SupervisorInvariant, PTL DEF SupervisorSpec, LossReported

-----------------------------------------------------------------------------
(* The dispatch of chat requests. *)

Kinds == Terminal \union {"delta", "failure"}
DownMsgs == [type : {"chat", "cancel"}, id : Requests]
UpMsgs == [type : Terminal \union {"delta"}, id : Requests] \union {Malformed}

-----------------------------------------------------------------------------
(* Queues *)

(* What a queue holds after something was appended to it. *)
LEMMA ContainsAppend ==
    ASSUME NEW S, NEW q \in Seq(S), NEW e \in S, NEW x
    PROVE  /\ Append(q, e) \in Seq(S)
           /\ Contains(Append(q, e), x) <=> Contains(q, x) \/ x = e
<1> DEFINE a == Append(q, e)
<1>1. /\ Len(q) \in Nat /\ a \in Seq(S) /\ Len(a) = Len(q) + 1
      /\ \A i \in 1..Len(q) : a[i] = q[i]
      /\ a[Len(q) + 1] = e
  OBVIOUS
<1> HIDE DEF a
<1>2. Contains(a, x) <=> \E i \in 1..Len(a) : a[i] = x
  BY DEF Contains
<1>3. Contains(q, x) <=> \E i \in 1..Len(q) : q[i] = x
  BY DEF Contains
<1>4. 1..Len(a) = (1..Len(q)) \union {Len(q) + 1}
  BY <1>1
<1>5. Contains(a, x) <=> Contains(q, x) \/ x = e
  BY <1>1, <1>2, <1>3, <1>4
<1> QED
  BY <1>1, <1>5 DEF a

(* What a queue holds after its head was taken. *)
LEMMA ContainsTail ==
    ASSUME NEW S, NEW q \in Seq(S), q # <<>>, NEW x
    PROVE  /\ Head(q) \in S /\ Tail(q) \in Seq(S)
           /\ Contains(q, x) <=> x = Head(q) \/ Contains(Tail(q), x)
<1>1. /\ Len(q) \in Nat \ {0} /\ Head(q) = q[1] /\ Head(q) \in S
      /\ Tail(q) \in Seq(S) /\ Len(Tail(q)) = Len(q) - 1
      /\ \A i \in 1 .. Len(q) - 1 : Tail(q)[i] = q[i + 1]
  BY HeadTailProperties, EmptySeq
<1>2. ASSUME Contains(q, x), x # Head(q)
      PROVE  Contains(Tail(q), x)
  <2>1. PICK i \in 1 .. Len(q) : q[i] = x
    BY <1>2 DEF Contains
  <2>2. i - 1 \in 1 .. Len(Tail(q)) /\ Tail(q)[i - 1] = q[i - 1 + 1]
    BY <1>1, <1>2, <2>1
  <2> QED
    BY <2>1, <2>2 DEF Contains
<1>3. ASSUME Contains(Tail(q), x)
      PROVE  Contains(q, x)
  <2>1. PICK i \in 1 .. Len(q) - 1 : Tail(q)[i] = x
    BY <1>1, <1>3 DEF Contains
  <2>2. i + 1 \in 1 .. Len(q) /\ q[i + 1] = x
    BY <1>1, <2>1
  <2> QED
    BY <2>2 DEF Contains
<1>4. Contains(q, Head(q))
  BY <1>1 DEF Contains
<1> QED
  BY <1>1, <1>2, <1>3, <1>4

LEMMA ContainsEmpty == \A x : ~Contains(<<>>, x)
  BY DEF Contains

-----------------------------------------------------------------------------
(* The inductive invariant *)

DisconnectsOK == /\ client \in BOOLEAN /\ closed \in BOOLEAN
           /\ alive \in BOOLEAN /\ garbled \in BOOLEAN

HandlersOK ==
    /\ pc \in [Requests -> Places]
    /\ flag \subseteq Requests
    /\ canceller \in [Requests -> {"none", "watching", "sending", "sent", "stopped"}]
    /\ got \in [Requests -> {"none", "ok", "err"}]
    /\ tracker \in [Requests -> {"new", "open", "ok", "failed", "cancelled", "dropped"}]

WiresOK ==
    /\ reader \in {"reading", "closing", "ended"}
    /\ inflight \subseteq Requests /\ asked \subseteq serving /\ serving \subseteq Requests
    /\ chan \in [Requests -> Seq(Kinds)]
    /\ down \in Seq(DownMsgs) /\ Len(down) <= MaxDown
    /\ up \in Seq(UpMsgs)

(* The gauge counts the open trackers, and a tracker is opened once. *)
Opened == {r \in Requests : tracker[r] = "open"}
Gauged ==
    /\ gauge = Cardinality(Opened)
    /\ \A r \in Requests : pc[r] = "permit" => tracker[r] = "new"

(***************************************************************************)
(* While the reader reads, a request that is about to be sent or waits for *)
(* its answer is in the table: only its own handler takes it out.          *)
(***************************************************************************)
Registered ==
    reader = "reading" => \A r \in Requests : pc[r] \in {"send", "recv"} => r \in inflight

(* As long as every line decodes the reader outlives the worker. *)
ReaderLives ==
    ~garbled => ~Contains(up, Malformed) /\ (alive => reader = "reading")

(***************************************************************************)
(* AnswerComing, about the last event instead of any: a delta in the       *)
(* channel is taken and the handler waits again.                           *)
(***************************************************************************)
OnTheWay(r) ==
    /\ r \in inflight /\ reader = "reading"
    /\ \/ ~alive \/ r \in serving \/ Contains(down, Chat(r))
       \/ \E kind \in Terminal : Contains(up, Event(r, kind))

Due(r) == (\E kind \in Terminal \union {"failure"} : Contains(chan[r], kind)) \/ OnTheWay(r)

AnswerDue == ~garbled => \A r \in Requests : pc[r] = "recv" => Due(r)

DispatchInv == DisconnectsOK /\ HandlersOK /\ WiresOK /\ Gauged /\ InflightOwned /\ Registered
        /\ ReaderLives /\ AnswerDue

LEMMA InitDispatchInv == Init => DispatchInv
<1> SUFFICES ASSUME Init PROVE DispatchInv
  OBVIOUS
<1>1. DisconnectsOK
  BY Zenon DEF Init, DisconnectsOK
<1>2. HandlersOK
  BY DEF Init, HandlersOK, Places
<1>3. WiresOK
  <2>1. Len(<<>>) = 0 /\ 0 <= MaxDown
    BY DispatchBounds
  <2> QED
    BY <2>1 DEF Init, WiresOK
<1>4. Gauged
  <2>1. Opened = {}
    BY DEF Init, Opened
  <2> QED
    BY <2>1, FS_EmptySet DEF Init, Gauged
<1>5. InflightOwned /\ Registered /\ ReaderLives /\ AnswerDue
  BY ContainsEmpty DEF Init, InflightOwned, Registered, ReaderLives, AnswerDue
<1> QED
  BY <1>1, <1>2, <1>3, <1>4, <1>5 DEF DispatchInv

(* No step takes a flag out of its type. *)
LEMMA DisconnectsStep == DisconnectsOK /\ [Next]_vars => DisconnectsOK'
<1> SUFFICES ASSUME DisconnectsOK, [Next]_vars PROVE DisconnectsOK'
  OBVIOUS
<1> USE DEF worker, handlers
<1>1. ASSUME NEW r \in Requests, Handler(r)
      PROVE  UNCHANGED <<client, closed, alive, garbled>>
  BY <1>1 DEF Handler, GetBackend, CheckOpen, Insert, SendChat, Receive, StopCanceller,
     EndCompletion, EndStreamError, EndStream
<1>2. ASSUME NEW r \in Requests,
             Disconnect(r) \/ Canceller(r) \/ WorkerDelta(r) \/ WorkerAnswers(r)
      PROVE  UNCHANGED <<client, closed, alive, garbled>>
  BY <1>2 DEF Disconnect, Canceller, SeesDisconnect, CancelOnDisconnect, WorkerDelta, WorkerAnswers
<1>3. CASE Route \/ ReaderFails \/ WorkerReads
  BY <1>3 DEF Route, ReaderFails, WorkerReads, DisconnectsOK
<1>4. CASE ReaderCloses
  BY <1>4, Zenon DEF ReaderCloses, DisconnectsOK
<1>5. CASE DropClient
  BY <1>5, Zenon DEF DropClient, DisconnectsOK
<1>6. CASE WorkerMalformed
  BY <1>6, Zenon DEF WorkerMalformed, DisconnectsOK
<1>7. CASE WorkerExits
  BY <1>7, Zenon DEF WorkerExits, DisconnectsOK
<1>8. CASE UNCHANGED vars
  BY <1>8 DEF vars, DisconnectsOK
<1>9. UNCHANGED <<client, closed, alive, garbled>> => DisconnectsOK'
  BY DEF DisconnectsOK
<1> QED
  BY <1>1, <1>2, <1>3, <1>4, <1>5, <1>6, <1>7, <1>8, <1>9 DEF Next, Reader

LEMMA HandlersStep == HandlersOK /\ [Next]_vars => HandlersOK'
<1> SUFFICES ASSUME HandlersOK, [Next]_vars PROVE HandlersOK'
  OBVIOUS
<1> USE DEF worker, handlers, HandlersOK
<1>1. ASSUME NEW r \in Requests, Handler(r)
      PROVE  HandlersOK'
  <2> USE DEF Goto, Places
  <2>1. CASE GetBackend(r)
    BY <2>1 DEF GetBackend
  <2>2. CASE CheckOpen(r)
    BY <2>2 DEF CheckOpen
  <2>3. CASE Insert(r) \/ SendChat(r)
    BY <2>3 DEF Insert, SendChat
  <2>4. CASE Receive(r)
    BY <2>4 DEF Receive, Returns
  <2>5. CASE StopCanceller(r)
    BY <2>5 DEF StopCanceller, FinishTracker, Outcome
  <2>6. CASE EndCompletion(r)
    BY <2>6 DEF EndCompletion, FinishTracker, Joined
  <2>7. CASE EndStreamError(r)
    BY <2>7 DEF EndStreamError, FinishTracker, Joined
  <2>8. CASE EndStream(r)
    BY <2>8 DEF EndStream, FinishTracker, Joined
  <2> QED
    BY <1>1, <2>1, <2>2, <2>3, <2>4, <2>5, <2>6, <2>7, <2>8 DEF Handler
<1>2. ASSUME NEW r \in Requests,
             Disconnect(r) \/ Canceller(r) \/ WorkerDelta(r) \/ WorkerAnswers(r)
      PROVE  HandlersOK'
  BY <1>2 DEF Disconnect, Canceller, SeesDisconnect, CancelOnDisconnect, WorkerDelta, WorkerAnswers
<1>3. CASE Reader \/ DropClient \/ WorkerReads \/ WorkerMalformed \/ WorkerExits
  BY <1>3 DEF Reader, Route, ReaderFails, ReaderCloses, DropClient, WorkerReads,
     WorkerMalformed, WorkerExits
<1>4. CASE UNCHANGED vars
  BY <1>4 DEF vars
<1> QED
  BY <1>1, <1>2, <1>3, <1>4 DEF Next

(* A write to a socket keeps it a queue of messages. *)
LEMMA Sends ==
    ASSUME WiresOK
    PROVE  /\ \A command \in DownMsgs :
                Send(command) => down' \in Seq(DownMsgs) /\ Len(down') <= MaxDown
           /\ \A event \in UpMsgs : SendUp(event) => up' \in Seq(UpMsgs)
           /\ \A r \in Requests : Chat(r) \in DownMsgs /\ Cancel(r) \in DownMsgs
           /\ \A r \in Requests : \A kind \in Terminal \union {"delta"} :
                Event(r, kind) \in UpMsgs
           /\ Malformed \in UpMsgs
           /\ \A e \in UpMsgs \ {Malformed} : e.id \in Requests /\ e.type \in Kinds
<1>1. \A r \in Requests : Chat(r) \in DownMsgs /\ Cancel(r) \in DownMsgs
  BY DEF Chat, Cancel, DownMsgs
<1>2. \A r \in Requests : \A kind \in Terminal \union {"delta"} : Event(r, kind) \in UpMsgs
  BY DEF Event, UpMsgs
<1>3. Malformed \in UpMsgs
  BY DEF UpMsgs
<1>4. \A e \in UpMsgs \ {Malformed} : e.id \in Requests /\ e.type \in Kinds
  BY DEF UpMsgs, Kinds
<1>5. \A command \in DownMsgs :
         Send(command) => down' \in Seq(DownMsgs) /\ Len(down') <= MaxDown
  <2>1. MaxDown \in Nat /\ down \in Seq(DownMsgs) /\ Len(down) <= MaxDown
    BY DispatchBounds DEF WiresOK
  <2>2. \A command \in DownMsgs : /\ Append(down, command) \in Seq(DownMsgs)
                                 /\ Len(Append(down, command)) = Len(down) + 1
    BY <2>1
  <2> QED
    BY <2>1, <2>2 DEF Send
<1>6. \A event \in UpMsgs : SendUp(event) => up' \in Seq(UpMsgs)
  BY DEF WiresOK, SendUp
<1> QED
  BY <1>1, <1>2, <1>3, <1>4, <1>5, <1>6

LEMMA WiresStep == WiresOK /\ [Next]_vars => WiresOK'
<1> SUFFICES ASSUME WiresOK, [Next]_vars PROVE WiresOK'
  OBVIOUS
<1> USE DEF worker, handlers
<1>1. ASSUME NEW r \in Requests, Handler(r)
      PROVE  WiresOK'
  <2>1. CASE GetBackend(r) \/ CheckOpen(r) \/ StopCanceller(r) \/ EndCompletion(r) \/ EndStream(r)
    BY <2>1 DEF GetBackend, CheckOpen, StopCanceller, EndCompletion, EndStream, WiresOK
  <2>2. CASE Insert(r)
    BY <2>2 DEF Insert, WiresOK
  <2>3. CASE SendChat(r)
    BY <2>3, Sends DEF SendChat, WiresOK
  <2>4. CASE Receive(r)
    BY <2>4 DEF Receive, Returns, WiresOK
  <2>5. CASE EndStreamError(r)
    BY <2>5, Sends DEF EndStreamError, WiresOK
  <2> QED
    BY <1>1, <2>1, <2>2, <2>3, <2>4, <2>5 DEF Handler
<1>2. ASSUME NEW r \in Requests,
             Disconnect(r) \/ Canceller(r) \/ WorkerDelta(r) \/ WorkerAnswers(r)
      PROVE  WiresOK'
  <2>1. CASE Disconnect(r)
    BY <2>1 DEF Disconnect, WiresOK
  <2>2. CASE Canceller(r)
    <3>1. CASE SeesDisconnect(r)
      BY <3>1 DEF SeesDisconnect, WiresOK
    <3>2. CASE CancelOnDisconnect(r)
      BY <3>2, Sends DEF CancelOnDisconnect, WiresOK
    <3> QED
      BY <2>2, <3>1, <3>2 DEF Canceller
  <2>3. CASE WorkerDelta(r)
    BY <2>3, Sends DEF WorkerDelta, WiresOK
  <2>4. CASE WorkerAnswers(r)
    <3>1. PICK kind \in Terminal : SendUp(Event(r, kind))
      BY <2>4 DEF WorkerAnswers, Terminal
    <3> QED
      BY <2>4, <3>1, Sends DEF WorkerAnswers, WiresOK
  <2> QED
    BY <1>2, <2>1, <2>2, <2>3, <2>4
<1>3. CASE Route
  <2>1. Head(up) \in UpMsgs \ {Malformed} /\ Tail(up) \in Seq(UpMsgs)
    BY <1>3, ContainsTail DEF Route, WiresOK
  <2> QED
    BY <1>3, <2>1, Sends DEF Route, WiresOK
<1>4. CASE ReaderFails
  BY <1>4 DEF ReaderFails, FailAll, WiresOK, Kinds
<1>5. CASE ReaderCloses \/ DropClient \/ WorkerExits
  <2>1. CASE ReaderCloses
    BY <2>1 DEF ReaderCloses, WiresOK
  <2>2. CASE DropClient
    BY <2>2 DEF DropClient, WiresOK
  <2>3. CASE WorkerExits
    <3>1. Len(<<>>) = 0 /\ 0 <= MaxDown
      BY DispatchBounds
    <3> QED
      BY <2>3, <3>1 DEF WorkerExits, WiresOK
  <2> QED
    BY <1>5, <2>1, <2>2, <2>3
<1>6. CASE WorkerReads
  <2>1. Head(down) \in DownMsgs /\ Tail(down) \in Seq(DownMsgs)
    BY <1>6, ContainsTail DEF WorkerReads, WiresOK
  <2>2. Head(down).id \in Requests
    BY <2>1 DEF DownMsgs
  <2>3. Len(down') <= MaxDown
    <3>1. down # <<>> /\ down' = Tail(down) /\ down \in Seq(DownMsgs)
          /\ Len(down) <= MaxDown /\ MaxDown \in Nat
      BY <1>6, DispatchBounds DEF WorkerReads, WiresOK
    <3> QED
      BY <3>1
  <2> QED
    BY <1>6, <2>1, <2>2, <2>3 DEF WorkerReads, WiresOK
<1>7. CASE WorkerMalformed
  BY <1>7, Sends DEF WorkerMalformed, WiresOK
<1>8. CASE UNCHANGED vars
  BY <1>8 DEF vars, WiresOK
<1> QED
  BY <1>1, <1>2, <1>3, <1>4, <1>5, <1>6, <1>7, <1>8 DEF Next, Reader

-----------------------------------------------------------------------------
(* The gauge *)

LEMMA OpenedFinite == IsFiniteSet(Opened) /\ Cardinality(Opened) \in Nat
  BY DispatchRequests, FS_Subset, FS_CardinalityType DEF Opened

(* RequestTracker.finish takes its one from the gauge, or changes nothing. *)
LEMMA FinishCounts ==
    ASSUME HandlersOK, Gauged, NEW r \in Requests, NEW how \in {"ok", "failed", "cancelled", "dropped"},
           FinishTracker(r, how)
    PROVE  gauge' = Cardinality(Opened')
<1>1. CASE tracker[r] = "open"
  <2>1. Opened' = Opened \ {r} /\ r \in Opened
    BY <1>1 DEF FinishTracker, Opened, HandlersOK
  <2>2. gauge' = gauge - 1
    BY <1>1 DEF FinishTracker
  <2> QED
    BY <2>1, <2>2, OpenedFinite, FS_RemoveElement DEF Gauged
<1>2. CASE tracker[r] # "open"
  BY <1>2 DEF FinishTracker, Opened, Gauged
<1> QED
  BY <1>1, <1>2

LEMMA GaugeStep == HandlersOK /\ Gauged /\ [Next]_vars => Gauged'
<1> SUFFICES ASSUME HandlersOK, Gauged, [Next]_vars PROVE Gauged'
  OBVIOUS
<1> USE DEF worker, handlers
<1>0. UNCHANGED <<pc, tracker, gauge>> => Gauged'
  BY DEF Gauged, Opened
<1>1. ASSUME NEW r \in Requests, Handler(r)
      PROVE  Gauged'
  <2>1. CASE GetBackend(r)
    <3>1. tracker[r] = "new" /\ pc[r] = "permit" /\ pc'[r] # "permit"
          /\ \A q \in Requests \ {r} : pc'[q] = pc[q] /\ tracker'[q] = tracker[q]
      BY <2>1 DEF GetBackend, Goto, Gauged, HandlersOK
    <3>2. gauge' = Cardinality(Opened')
      <4>1. CASE client
        <5>1. Opened' = Opened \union {r} /\ r \notin Opened
          BY <2>1, <3>1, <4>1 DEF GetBackend, Opened, HandlersOK
        <5>2. gauge' = gauge + 1
          BY <2>1, <4>1 DEF GetBackend
        <5> QED
          BY <5>1, <5>2, OpenedFinite, FS_AddElement DEF Gauged
      <4>2. CASE ~client
        <5>1. Opened' = Opened /\ gauge' = gauge
          BY <2>1, <3>1, <4>2 DEF GetBackend, Opened, HandlersOK
        <5> QED
          BY <5>1 DEF Gauged
      <4> QED
        BY <4>1, <4>2
    <3> QED
      BY <3>1, <3>2 DEF Gauged
  <2>2. CASE CheckOpen(r) \/ Insert(r) \/ SendChat(r)
    BY <2>2 DEF CheckOpen, Insert, SendChat, Goto, Gauged, Opened, HandlersOK
  <2>3. CASE Receive(r)
    BY <2>3 DEF Receive, Returns, Goto, Gauged, Opened, HandlersOK
  <2>4. CASE StopCanceller(r) \/ EndCompletion(r) \/ EndStreamError(r) \/ EndStream(r)
    <3>1. \/ UNCHANGED <<tracker, gauge>>
          \/ \E how \in {"ok", "failed", "cancelled", "dropped"} : FinishTracker(r, how)
      BY <2>4 DEF StopCanceller, EndCompletion, EndStreamError, EndStream, Outcome
    <3>2. gauge' = Cardinality(Opened')
      BY <3>1, FinishCounts DEF Gauged, Opened
    <3>3. \A q \in Requests : pc'[q] = "permit" => pc[q] = "permit" /\ q # r
      BY <2>4 DEF StopCanceller, EndCompletion, EndStreamError, EndStream, Goto, HandlersOK
    <3>4. \A q \in Requests \ {r} : tracker'[q] = tracker[q]
      BY <3>1 DEF FinishTracker, HandlersOK
    <3> QED
      BY <3>2, <3>3, <3>4 DEF Gauged
  <2> QED
    BY <1>1, <2>1, <2>2, <2>3, <2>4 DEF Handler
<1>2. ASSUME NEW r \in Requests,
             Disconnect(r) \/ Canceller(r) \/ WorkerDelta(r) \/ WorkerAnswers(r)
      PROVE  Gauged'
  BY <1>0, <1>2 DEF Disconnect, Canceller, SeesDisconnect, CancelOnDisconnect, WorkerDelta, WorkerAnswers
<1>3. CASE Reader \/ DropClient \/ WorkerReads \/ WorkerMalformed \/ WorkerExits
  BY <1>0, <1>3 DEF Reader, Route, ReaderFails, ReaderCloses, DropClient, WorkerReads,
     WorkerMalformed, WorkerExits
<1>4. CASE UNCHANGED vars
  BY <1>0, <1>4 DEF vars
<1> QED
  BY <1>1, <1>2, <1>3, <1>4 DEF Next

-----------------------------------------------------------------------------
(* The table of requests in flight *)

LEMMA TableStep ==
    HandlersOK /\ WiresOK /\ InflightOwned /\ Registered /\ [Next]_vars
      => InflightOwned' /\ Registered'
<1> SUFFICES ASSUME HandlersOK, WiresOK, InflightOwned, Registered, [Next]_vars
             PROVE  InflightOwned' /\ Registered'
  OBVIOUS
<1>0. inflight \subseteq Requests
  BY DEF WiresOK
<1> USE <1>0 DEF worker, handlers, HandlersOK, InflightOwned, Registered
<1>1. ASSUME NEW r \in Requests, Handler(r)
      PROVE  InflightOwned' /\ Registered'
  <2> USE DEF Goto
  <2>1. CASE GetBackend(r)
    BY <2>1 DEF GetBackend
  <2>2. CASE CheckOpen(r)
    BY <2>2 DEF CheckOpen
  <2>3. CASE Insert(r)
    BY <2>3 DEF Insert
  <2>4. CASE SendChat(r)
    BY <2>4 DEF SendChat
  <2>5. CASE Receive(r)
    BY <2>5 DEF Receive, Returns
  <2>6. CASE StopCanceller(r) \/ EndCompletion(r) \/ EndStreamError(r) \/ EndStream(r)
    BY <2>6 DEF StopCanceller, EndCompletion, EndStreamError, EndStream
  <2> QED
    BY <1>1, <2>1, <2>2, <2>3, <2>4, <2>5, <2>6 DEF Handler
<1>2. ASSUME NEW r \in Requests,
             Disconnect(r) \/ Canceller(r) \/ WorkerDelta(r) \/ WorkerAnswers(r)
      PROVE  InflightOwned' /\ Registered'
  BY <1>2 DEF Disconnect, Canceller, SeesDisconnect, CancelOnDisconnect, WorkerDelta, WorkerAnswers
<1>3. CASE Route \/ DropClient \/ WorkerReads \/ WorkerMalformed
  BY <1>3 DEF Route, DropClient, WorkerReads, WorkerMalformed
<1>4. CASE ReaderFails \/ ReaderCloses
  BY <1>4 DEF ReaderFails, FailAll, ReaderCloses
<1>5. CASE WorkerExits
  BY <1>5 DEF WorkerExits
<1>6. CASE UNCHANGED vars
  BY <1>6 DEF vars
<1> QED
  BY <1>1, <1>2, <1>3, <1>4, <1>5, <1>6 DEF Next, Reader

-----------------------------------------------------------------------------
(* The answer that is due *)

LEMMA Distinct ==
    /\ \A q, r : Chat(q) # Cancel(r) /\ (Chat(q) = Chat(r) <=> q = r)
    /\ \A q, r : \A k \in Terminal : Event(q, k) # Event(r, "delta") /\ Event(q, k) # Malformed
    /\ \A q, r : \A k, l : Event(q, k) = Event(r, l) <=> q = r /\ k = l
    /\ \A r : Event(r, "delta") # Malformed
<1>1. \A q, r : Chat(q) # Cancel(r) /\ (Chat(q) = Chat(r) <=> q = r)
  BY DEF Chat, Cancel
<1>2. \A q, r : \A k, l : Event(q, k) = Event(r, l) <=> q = r /\ k = l
  BY DEF Event
<1>3. \A r, k : k # "malformed" => Event(r, k) # Malformed
  <2> SUFFICES ASSUME NEW r, NEW k, k # "malformed", Event(r, k) = Malformed
               PROVE  FALSE
    OBVIOUS
  <2>1. Event(r, k).type = k /\ Malformed.type = "malformed"
    BY DEF Event, Malformed
  <2> QED
    BY <2>1
<1> QED
  BY <1>1, <1>2, <1>3 DEF Terminal

(***************************************************************************)
(* What is due to q stays due in a step that lets its channel and its      *)
(* entry alone and at most moves it along: from the socket to the worker,  *)
(* and from there to the socket again.                                     *)
(***************************************************************************)
LEMMA DueKept ==
    ASSUME NEW q \in Requests, Due(q),
           chan'[q] = chan[q], reader' = reader,
           ~alive => ~alive',
           q \in inflight => q \in inflight',
           Contains(down, Chat(q)) => Contains(down', Chat(q)) \/ q \in serving' \/ ~alive',
           q \in serving => \/ q \in serving' \/ ~alive'
                            \/ \E kind \in Terminal : Contains(up', Event(q, kind)),
           \A kind \in Terminal : Contains(up, Event(q, kind)) => Contains(up', Event(q, kind))
    PROVE  Due(q)'
  BY Zenon DEF Due, OnTheWay

LEMMA ReaderStep == WiresOK /\ ReaderLives /\ [Next]_vars => ReaderLives'
<1> SUFFICES ASSUME WiresOK, ReaderLives, [Next]_vars, ~garbled'
             PROVE  ~Contains(up', Malformed) /\ (alive' => reader' = "reading")
  BY DEF ReaderLives
<1> USE DEF worker, handlers
<1>0. up \in Seq(UpMsgs)
  BY DEF WiresOK
<1>1. UNCHANGED <<up, alive, reader, garbled>> =>
        ~Contains(up', Malformed) /\ (alive' => reader' = "reading")
  BY DEF ReaderLives
<1>2. ASSUME NEW r \in Requests,
             \/ Handler(r) \/ Disconnect(r) \/ Canceller(r)
             \/ WorkerDelta(r) \/ WorkerAnswers(r)
      PROVE  ~Contains(up', Malformed) /\ (alive' => reader' = "reading")
  <2>1. CASE Handler(r) \/ Disconnect(r) \/ Canceller(r)
    <3>1. UNCHANGED <<up, alive, reader, garbled>>
      BY <2>1 DEF Handler, GetBackend, CheckOpen, Insert, SendChat, Receive, StopCanceller,
         EndCompletion, EndStreamError, EndStream, Disconnect, Canceller, SeesDisconnect, CancelOnDisconnect
    <3> QED
      BY <1>1, <3>1
  <2>2. CASE WorkerDelta(r) \/ WorkerAnswers(r)
    <3>1. UNCHANGED <<alive, reader, garbled>>
          /\ \E kind \in Terminal \union {"delta"} : SendUp(Event(r, kind))
      BY <2>2 DEF WorkerDelta, WorkerAnswers, Terminal
    <3>2. PICK kind \in Terminal \union {"delta"} : SendUp(Event(r, kind))
      BY <3>1
    <3>3. Event(r, kind) \in UpMsgs /\ Event(r, kind) # Malformed
      BY Sends, Distinct
    <3>4. ~Contains(up', Malformed)
      BY <1>0, <3>1, <3>2, <3>3, ContainsAppend DEF SendUp, ReaderLives
    <3> QED
      BY <3>1, <3>4 DEF ReaderLives
  <2> QED
    BY <1>2, <2>1, <2>2
<1>3. CASE Route
  <2>1. up # <<>> /\ up' = Tail(up) /\ UNCHANGED <<alive, reader, garbled>>
    BY <1>3 DEF Route
  <2> QED
    BY <1>0, <2>1, ContainsTail DEF ReaderLives
<1>4. CASE ReaderFails
  <2>1. ~garbled /\ up' = <<>> /\ UNCHANGED alive
    BY <1>4 DEF ReaderFails
  <2>2. ~(up # <<>> /\ Head(up) = Malformed)
    BY <1>0, <2>1, ContainsTail DEF ReaderLives
  <2>3. ~alive
    BY <1>4, <2>2 DEF ReaderFails
  <2> QED
    BY <2>1, <2>3, ContainsEmpty
<1>5. CASE ReaderCloses
  BY <1>5 DEF ReaderCloses, ReaderLives
<1>6. CASE DropClient \/ WorkerReads
  BY <1>1, <1>6 DEF DropClient, WorkerReads
<1>7. CASE WorkerMalformed
  BY <1>7 DEF WorkerMalformed
<1>8. CASE WorkerExits
  BY <1>8 DEF WorkerExits, ReaderLives
<1>9. CASE UNCHANGED vars
  BY <1>1, <1>9 DEF vars
<1> QED
  BY <1>2, <1>3, <1>4, <1>5, <1>6, <1>7, <1>8, <1>9 DEF Next, Reader

(* A step of the handler of r, of another request or of the one that waits. *)
LEMMA HandlerDue ==
    ASSUME HandlersOK, WiresOK, Registered, ReaderLives, AnswerDue, ~garbled,
           NEW r \in Requests, Handler(r), NEW q \in Requests, pc'[q] = "recv"
    PROVE  Due(q)'
<1> USE DEF worker, handlers
<1>0. /\ UNCHANGED <<reader, alive, serving, up>>
      /\ q # r => pc'[q] = pc[q]
      /\ q # r => chan'[q] = chan[q] /\ (q \in inflight => q \in inflight')
  BY DEF Handler, GetBackend, CheckOpen, Insert, SendChat, Receive, Returns, StopCanceller,
     EndCompletion, EndStreamError, EndStream, Goto, HandlersOK, WiresOK
<1>1. Contains(down, Chat(q)) => Contains(down', Chat(q))
  <2>1. \/ down' = down
        \/ \E command \in DownMsgs : down' = Append(down, command)
    BY Sends DEF Handler, GetBackend, CheckOpen, Insert, SendChat, Receive, StopCanceller,
       EndCompletion, EndStreamError, EndStream, Send
  <2>2. down \in Seq(DownMsgs)
    BY DEF WiresOK
  <2>3. ASSUME NEW command \in DownMsgs, Contains(down, Chat(q))
        PROVE  Contains(Append(down, command), Chat(q))
    BY <2>2, <2>3, ContainsAppend
  <2> QED
    BY <2>1, <2>3
<1>2. CASE q # r
  BY <1>0, <1>1, <1>2, DueKept DEF AnswerDue
<1>3. CASE q = r
  <2>1. SendChat(r) \/ (Receive(r) /\ Head(chan[r]) = "delta")
    BY <1>3 DEF Handler, GetBackend, CheckOpen, Insert, Receive, Returns, StopCanceller,
       EndCompletion, EndStreamError, EndStream, Goto, HandlersOK
  <2>2. CASE SendChat(r)
    <3>1. pc[r] = "send" /\ alive /\ down' = Append(down, Chat(r)) /\ UNCHANGED inflight
      BY <1>3, <2>2 DEF SendChat, Send, Goto, HandlersOK
    <3>2. Contains(down', Chat(r))
      BY <3>1, Sends, ContainsAppend DEF WiresOK
    <3>3. reader = "reading" /\ r \in inflight
      BY <3>1 DEF ReaderLives, Registered
    <3> QED
      BY <1>0, <1>3, <3>1, <3>2, <3>3 DEF Due, OnTheWay
  <2>3. CASE Receive(r) /\ Head(chan[r]) = "delta"
    <3>1. /\ pc[r] = "recv" /\ chan[r] # <<>> /\ chan'[r] = Tail(chan[r])
          /\ UNCHANGED <<inflight, down>>
      BY <2>3 DEF Receive, WiresOK
    <3>2. \A kind \in Terminal \union {"failure"} :
            Contains(chan[r], kind) => Contains(chan'[r], kind)
      BY <2>3, <3>1, ContainsTail DEF WiresOK, Terminal
    <3> QED
      BY <1>0, <1>3, <3>1, <3>2 DEF AnswerDue, Due, OnTheWay
  <2> QED
    BY <2>1, <2>2, <2>3
<1> QED
  BY <1>2, <1>3

LEMMA AnswerStep ==
    HandlersOK /\ WiresOK /\ Registered /\ ReaderLives /\ AnswerDue /\ [Next]_vars
      => AnswerDue'
<1> SUFFICES ASSUME HandlersOK, WiresOK, Registered, ReaderLives, AnswerDue, [Next]_vars,
                    ~garbled', NEW q \in Requests, pc'[q] = "recv"
             PROVE  Due(q)'
  BY DEF AnswerDue
<1> USE DEF worker, handlers
<1>1. ASSUME NEW r \in Requests, Handler(r)
      PROVE  Due(q)'
  <2>1. ~garbled
    BY <1>1 DEF Handler, GetBackend, CheckOpen, Insert, SendChat, Receive, StopCanceller,
       EndCompletion, EndStreamError, EndStream
  <2> QED
    BY <1>1, <2>1, HandlerDue
<1>2. ASSUME NEW r \in Requests, Disconnect(r) \/ Canceller(r)
      PROVE  Due(q)'
  <2>1. /\ UNCHANGED <<pc, chan, inflight, reader, alive, serving, up, garbled>>
        /\ down' = down \/ down' = Append(down, Cancel(r))
    BY <1>2 DEF Disconnect, Canceller, SeesDisconnect, CancelOnDisconnect, Send
  <2>2. down \in Seq(DownMsgs) /\ Cancel(r) \in DownMsgs
    BY Sends DEF WiresOK
  <2>3. Contains(down, Chat(q)) => Contains(Append(down, Cancel(r)), Chat(q))
    BY <2>2, ContainsAppend
  <2> QED
    BY <2>1, <2>3, DueKept DEF AnswerDue
<1>3. ASSUME NEW r \in Requests, WorkerDelta(r) \/ WorkerAnswers(r)
      PROVE  Due(q)'
  <2>1. /\ UNCHANGED <<pc, chan, inflight, reader, alive, down, garbled>>
        /\ \E kind \in Terminal \union {"delta"} : SendUp(Event(r, kind))
        /\ q # r => (q \in serving => q \in serving')
        /\ WorkerDelta(r) => UNCHANGED serving
        /\ WorkerAnswers(r) => \E kind \in Terminal : SendUp(Event(r, kind))
    BY <1>3 DEF WorkerDelta, WorkerAnswers, Terminal
  <2>2. \A kind \in Terminal : Contains(up, Event(q, kind)) => Contains(up', Event(q, kind))
    BY <2>1, Sends, ContainsAppend DEF WiresOK, SendUp
  <2>3. Due(q) /\ ~garbled
    BY <2>1 DEF AnswerDue
  <2>4. CASE reader # "reading"
    BY <2>1, <2>3, <2>4 DEF Due, OnTheWay
  <2>5. CASE reader = "reading" /\ q = r /\ WorkerAnswers(r)
    <3>1. PICK kind \in Terminal : SendUp(Event(q, kind))
      BY <2>1, <2>5
    <3>2. Contains(up', Event(q, kind))
      BY <2>1, <2>5, <3>1, Sends, ContainsAppend DEF WiresOK, SendUp
    <3> QED
      BY <2>1, <2>3, <2>5, <3>2, Zenon DEF Due, OnTheWay
  <2>6. CASE q # r \/ WorkerDelta(r)
    BY <2>1, <2>2, <2>3, <2>6, DueKept
  <2> QED
    BY <1>3, <2>4, <2>5, <2>6
<1>4. CASE Route
  <2>1. /\ UNCHANGED <<pc, inflight, reader, alive, serving, down, garbled>>
        /\ up # <<>> /\ up' = Tail(up) /\ Head(up) # Malformed /\ reader = "reading"
    BY <1>4 DEF Route
  <2>2. Due(q) /\ q \in inflight
    BY <2>1 DEF AnswerDue, Registered
  <2>3. Head(up) \in UpMsgs \ {Malformed} /\ up \in Seq(UpMsgs)
    BY <2>1, HeadTailProperties DEF WiresOK
  <2>4. Head(up).id \in Requests /\ Head(up).type \in Kinds
    BY <2>3, Sends
  <2>5. chan'[q] = IF Head(up).id = q THEN Append(chan[q], Head(up).type) ELSE chan[q]
    BY <1>4, <2>2, <2>4 DEF Route, WiresOK
  <2>6. \A kind : Contains(chan[q], kind) => Contains(chan'[q], kind)
    BY <2>4, <2>5, ContainsAppend DEF WiresOK
  <2>7. ASSUME NEW kind \in Terminal, Contains(up, Event(q, kind))
        PROVE  Contains(up', Event(q, kind)) \/ Contains(chan'[q], kind)
    <3>1. CASE Head(up) = Event(q, kind)
      <4>1. Head(up).id = q /\ Head(up).type = kind
        BY <3>1 DEF Event
      <4> QED
        BY <2>4, <2>5, <4>1, ContainsAppend DEF WiresOK
    <3>2. CASE Head(up) # Event(q, kind)
      BY <2>1, <2>3, <2>7, <3>2, ContainsTail
    <3> QED
      BY <3>1, <3>2
  <2> QED
    BY <2>1, <2>2, <2>6, <2>7, Zenon DEF Due, OnTheWay
<1>5. CASE ReaderFails
  <2>1. UNCHANGED pc /\ reader = "reading"
    BY <1>5 DEF ReaderFails
  <2>2. q \in inflight
    BY <2>1 DEF Registered
  <2>3. chan'[q] = Append(chan[q], "failure")
    BY <1>5, <2>2 DEF ReaderFails, FailAll
  <2>4. Contains(chan'[q], "failure")
    <3>1. chan[q] \in Seq(Kinds) /\ "failure" \in Kinds
      BY DEF WiresOK, Kinds
    <3> QED
      BY <2>3, <3>1, ContainsAppend
  <2> QED
    BY <2>4 DEF Due
<1>6. CASE ReaderCloses
  BY <1>6 DEF ReaderCloses, AnswerDue, Due, OnTheWay
<1>7. CASE DropClient
  BY <1>7 DEF DropClient, AnswerDue, Due, OnTheWay
<1>8. CASE WorkerReads
  <2>1. /\ UNCHANGED <<pc, chan, inflight, reader, alive, up, garbled>>
        /\ down # <<>> /\ down' = Tail(down)
        /\ serving \subseteq serving'
        /\ Head(down) = Chat(q) => q \in serving'
    BY <1>8 DEF WorkerReads, Chat
  <2>2. Contains(down, Chat(q)) => Contains(down', Chat(q)) \/ q \in serving'
    BY <2>1, ContainsTail DEF WiresOK
  <2> QED
    BY <2>1, <2>2, DueKept DEF AnswerDue
<1>9. CASE WorkerMalformed
  BY <1>9 DEF WorkerMalformed
<1>10. CASE WorkerExits
  <2>1. UNCHANGED <<pc, chan, inflight, reader, garbled>> /\ ~alive'
    BY <1>10 DEF WorkerExits
  <2> QED
    BY <2>1, Zenon DEF AnswerDue, Due, OnTheWay
<1>11. CASE UNCHANGED vars
  BY <1>11 DEF vars, AnswerDue, Due, OnTheWay
<1> QED
  BY <1>1, <1>2, <1>3, <1>4, <1>5, <1>6, <1>7, <1>8, <1>9, <1>10, <1>11 DEF Next, Reader

-----------------------------------------------------------------------------
(* The theorems *)

LEMMA NextDispatchInv == DispatchInv /\ [Next]_vars => DispatchInv'
<1> SUFFICES ASSUME DispatchInv, [Next]_vars PROVE DispatchInv'
  OBVIOUS
<1>0. DisconnectsOK /\ HandlersOK /\ WiresOK /\ Gauged /\ InflightOwned /\ Registered
      /\ ReaderLives /\ AnswerDue
  BY DEF DispatchInv
<1>1. DisconnectsOK' /\ HandlersOK' /\ WiresOK'
  BY <1>0, DisconnectsStep, HandlersStep, WiresStep
<1>2. Gauged' /\ InflightOwned' /\ Registered'
  BY <1>0, GaugeStep, TableStep
<1>3. ReaderLives' /\ AnswerDue'
  BY <1>0, ReaderStep, AnswerStep
<1> QED
  BY <1>1, <1>2, <1>3 DEF DispatchInv

LEMMA DispatchInvariant == Spec => []DispatchInv
  BY InitDispatchInv, NextDispatchInv, PTL DEF Spec

(***************************************************************************)
(* BooksExact: mlx_requests_active counts the open trackers, and while the *)
(* worker lives every entry of WorkerClient.inflight belongs to a handler  *)
(* inside execute_chat, for any number of concurrent requests.             *)
(***************************************************************************)
THEOREM BooksAreExact == Spec => []BooksExact
<1>1. DispatchInv => BooksExact
  <2> SUFFICES ASSUME DispatchInv PROVE BooksExact
    OBVIOUS
  <2>1. {client, closed, alive, garbled} \subseteq BOOLEAN
    BY Zenon DEF DispatchInv, DisconnectsOK
  <2>2. gauge \in Nat /\ GaugeExact
    BY OpenedFinite DEF DispatchInv, Gauged, GaugeExact, Opened
  <2>3. TypeOK
    BY <2>1, <2>2 DEF DispatchInv, HandlersOK, WiresOK, TypeOK, Kinds, DownMsgs, UpMsgs
  <2> QED
    BY <2>2, <2>3 DEF BooksExact, DispatchInv
<1> QED
  BY <1>1, DispatchInvariant, PTL

(***************************************************************************)
(* AnswerComing: as long as the worker sends only lines that decode, no    *)
(* handler blocks in recv with nothing on the way to it, wherever a death  *)
(* of the worker falls between registration, sending and the reader's      *)
(* clean-up.                                                               *)
(***************************************************************************)
THEOREM AnswerIsComing == Spec => []AnswerComing
<1>1. DispatchInv => AnswerComing
  <2> SUFFICES ASSUME DispatchInv, ~garbled, NEW r \in Requests, pc[r] = "recv", chan[r] = <<>>
               PROVE  OnTheWay(r)
    BY DEF AnswerComing, OnTheWay
  <2>1. Due(r)
    BY DEF DispatchInv, AnswerDue
  <2> QED
    BY <2>1, ContainsEmpty DEF Due
<1> QED
  BY <1>1, DispatchInvariant, PTL

=============================================================================
