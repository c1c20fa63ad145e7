-------------------------- MODULE RequestAdmission --------------------------
(***************************************************************************)
(* The gateway's admission control: RequestAdmission and RequestPermit of  *)
(* gateway/src/http.rs.  Connection threads share two counters under a     *)
(* mutex and wait on a condition variable for one of max_active_requests   *)
(* permits.                                                                *)
(*                                                                         *)
(* A thread holds the mutex from one wait_timeout to the next, so one turn *)
(* of the loop in acquire_until is one step.  Every connection has a       *)
(* disconnect flag, hence no wait is longer than 50 ms and a waiter may    *)
(* take its next turn at any time: notify_one only makes it come sooner.   *)
(***************************************************************************)
EXTENDS Integers, FiniteSets

CONSTANTS
    Threads,     \* the chat requests, one connection thread each
    MaxActive,   \* max_active_requests
    MaxPending   \* max_pending_requests

ASSUME AdmissionRequests == IsFiniteSet(Threads)
ASSUME AdmissionLimits == MaxActive \in Nat /\ MaxPending \in Nat

VARIABLES
    active,      \* AdmissionState.active
    waiting,     \* AdmissionState.waiting
    stage,       \* where the thread of each request is
    left         \* requests whose disconnect flag is set

admissionVars == <<active, waiting, stage, left>>

(* A request is refused with 429 or, its client gone, dropped with 499. *)
Refusals == {"queue_full", "queue_timeout", "gone"}

AdmissionInit ==
    /\ active = 0 /\ waiting = 0
    /\ stage = [r \in Threads |-> "new"]
    /\ left = {}

(* DisconnectMonitor, or a failed write, sees that the client is gone. *)
ClientLeaves(r) ==
    /\ stage[r] \in {"new", "waiting", "active"}
    /\ left' = left \union {r}
    /\ UNCHANGED <<active, waiting, stage>>

At(place) == {r \in Threads : stage[r] = place}

(* The thread leaves acquire_until with a refusal or a permit. *)
Return(r, with) == stage' = [stage EXCEPT ![r] = with]

(* Mutant: the last permit is never given out. *)
SparesOne == active + 1 < MaxActive

(* A permit is to be had. *)
PermitFree == active < MaxActive

(***************************************************************************)
(* One turn of the loop of acquire_until, when others is the number of     *)
(* waiting requests the thread sees.                                       *)
(***************************************************************************)
Turn(r, others) ==
    IF r \in left
    THEN Return(r, "gone") /\ waiting' = others /\ UNCHANGED active
    ELSE IF PermitFree
    THEN Return(r, "active") /\ waiting' = others /\ active' = active + 1
    ELSE IF others >= MaxPending
    THEN Return(r, "queue_full") /\ waiting' = others /\ UNCHANGED active
    ELSE /\ stage' = [stage EXCEPT ![r] = "waiting"]
         /\ waiting' = others + 1
         /\ UNCHANGED active

(* The request passed validation and asks for a permit. *)
Enter(r) ==
    /\ stage[r] = "new"
    /\ Turn(r, waiting)
    /\ UNCHANGED left

(* Mutant: the waiter goes round the loop and counts itself as another. *)
WakeCountsItself(r) ==
    /\ stage[r] = "waiting"
    /\ Turn(r, waiting)
    /\ UNCHANGED left

(* The wait ends, by notify_one or after 50 ms, before the deadline. *)
Wake(r) ==
    /\ stage[r] = "waiting"
    /\ Turn(r, IF waiting > 0 THEN waiting - 1 ELSE waiting)
    /\ UNCHANGED left

(* Mutant: a request that gives up waiting is still counted. *)
ExpireStaysCounted(r) ==
    /\ stage[r] = "waiting"
    /\ Return(r, "queue_timeout")
    /\ UNCHANGED <<active, waiting, left>>

(* The wait times out at the deadline, request_timeout_seconds after Enter. *)
Expire(r) ==
    /\ stage[r] = "waiting"
    /\ waiting' = IF waiting > 0 THEN waiting - 1 ELSE waiting
    /\ Return(r, "queue_timeout")
    /\ UNCHANGED <<active, left>>

(* The handler ends and its RequestPermit is dropped. *)
Release(r) ==
    /\ stage[r] = "active"
    /\ active' = IF active > 0 THEN active - 1 ELSE active
    /\ stage' = [stage EXCEPT ![r] = "done"]
    /\ UNCHANGED <<waiting, left>>

AdmissionNext ==
    \E r \in Threads :
        ClientLeaves(r) \/ Enter(r) \/ Wake(r) \/ Expire(r) \/ Release(r)

AdmissionSpec == AdmissionInit /\ [][AdmissionNext]_admissionVars

(* Waiters come round every 50 ms, and a handler that has a permit ends. *)
AdmissionFairSpec ==
    /\ AdmissionSpec
    /\ \A r \in Threads : WF_admissionVars(Wake(r)) /\ WF_admissionVars(Release(r))

-----------------------------------------------------------------------------
(* Type invariant. *)
Stages == {"new", "waiting", "active", "done"} \union Refusals

AdmissionTypeOK ==
    /\ active \in Nat /\ waiting \in Nat
    /\ stage \in [Threads -> Stages]
    /\ left \subseteq Threads

(***************************************************************************)
(* The two counters are exact and within their limits, through refusals,   *)
(* time-outs, disconnects and dropped permits: no permit is lost and none  *)
(* is given twice.  The guards "if state.active > 0" and                   *)
(* "if guard.waiting > 0" never hide a miscount.                           *)
(***************************************************************************)
CountsExact ==
    /\ active = Cardinality(At("active")) /\ active <= MaxActive
    /\ waiting = Cardinality(At("waiting")) /\ waiting <= MaxPending

(***************************************************************************)
(* A request that was let into the queue is not turned away as             *)
(* "queue full" later, although its thread goes through the same check     *)
(* again each time it wakes up.                                            *)
(***************************************************************************)
QueuedStays ==
    [][\A r \in Threads :
          stage[r] = "waiting" => stage'[r] # "queue_full"]_admissionVars

(***************************************************************************)
(* A free permit does not stay free while a request waits for it: the      *)
(* wake-up of notify_one may go to a thread that drops out as "gone", and  *)
(* the slot is taken all the same.                                         *)
(***************************************************************************)
SlotsGetUsed ==
    (active < MaxActive /\ waiting > 0) ~> (active = MaxActive \/ waiting = 0)

=============================================================================
