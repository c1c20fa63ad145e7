--------------------------- MODULE BenchmarkPlan ---------------------------
(***************************************************************************)
(* How the benchmark tool decides what it measures (configuration.py and   *)
(* the plan of runner.py).  A suite names models, workloads and runtime    *)
(* configurations, orders in which the models are started and, per model,  *)
(* the workloads that cover it; a focus narrows models and workloads.      *)
(*                                                                         *)
(* A suite is a record                                                     *)
(*   models, workloads, runtimes   sets of names                           *)
(*   orders                        sequence of [model, runtimes (sequence)]*)
(*   coverage                      set of [model, workloads (set)]         *)
(* and a focus a record [models, workloads].  The order of names and of    *)
(* coverage entries only decides the order of rows and is left out.        *)
(***************************************************************************)
EXTENDS Integers, Sequences, FiniteSets, SequencesExt

CONSTANTS Mode(_),         \* load_mode of a workload
          Concurrency(_),  \* its concurrency
          Count(_),        \* its requests_per_trial
          RunsOn(_)        \* its runtime_configurations

(* The rules that tie the concurrency of a workload to its load mode. *)
ValidWorkload(w) ==
    /\ Count(w) >= 1 /\ Concurrency(w) >= 1
    /\ Mode(w) = "sequential" => Concurrency(w) = 1
    /\ Mode(w) = "burst" => Concurrency(w) = Count(w)
    /\ Mode(w) = "closed-loop" => Concurrency(w) <= Count(w)

(* The runtime configurations that some order starts for the model. *)
ModelRuntimes(suite, model) ==
    UNION {ToSet(order.runtimes) :
             order \in {o \in ToSet(suite.orders) : o.model = model}}

(* The orders schedule exactly the suite's models and runtimes. *)
OrdersValid(suite) ==
    /\ {o.model : o \in ToSet(suite.orders)} = suite.models
    /\ UNION {ToSet(o.runtimes) : o \in ToSet(suite.orders)} = suite.runtimes

(* Each entry assigns workloads that can run to every runtime started.     *)
CoverageValid(suite) ==
    /\ suite.coverage # {}
    /\ {e.model : e \in suite.coverage} = suite.models
    /\ UNION {e.workloads : e \in suite.coverage} = suite.workloads
    /\ \A e \in suite.coverage :
         LET started == ModelRuntimes(suite, e.model) IN
         /\ \A w \in e.workloads : started \intersect RunsOn(w) # {}
         /\ \A r \in started : \E w \in e.workloads : r \in RunsOn(w)

ValidSuite(suite) ==
    /\ \A w \in suite.workloads : ValidWorkload(w)
    /\ OrdersValid(suite)
    /\ CoverageValid(suite)

(* _select_configuration: what is left of a suite under a focus. *)
Select(suite, focus) ==
    LET models == suite.models \intersect focus.models
        workloads == suite.workloads \intersect focus.workloads
        orders == suite.orders
        narrowed == {[e EXCEPT !.workloads = @ \intersect workloads] :
                       e \in suite.coverage} IN
    [models    |-> models,
     workloads |-> workloads,
     orders    |-> FlattenSeq([i \in 1..Len(orders) |->
                     IF orders[i].model \in models THEN <<orders[i]>> ELSE <<>>]),
     coverage  |-> {e \in narrowed : e.model \in models /\ e.workloads # {}},
     runtimes  |-> suite.runtimes]

(* The checks of _select_configuration on the selection. *)
Selectable(c) ==
    /\ c.models # {} /\ c.workloads # {}
    /\ \A w \in c.workloads : RunsOn(w) \intersect c.runtimes # {}
    /\ {e.model : e \in c.coverage} = c.models
    /\ UNION {e.workloads : e \in c.coverage} = c.workloads

(* _configuration_for_execution: the workloads of one start of a model. *)
WorkloadsFor(c, model, runtime) ==
    {w \in c.workloads :
       /\ runtime \in RunsOn(w)
       /\ \E e \in c.coverage : e.model = model /\ w \in e.workloads}

(* _execution_plan: one start per order and runtime configuration. *)
ExecutionPlan(c) ==
    FlattenSeq([i \in 1..Len(c.orders) |->
       [j \in 1..Len(c.orders[i].runtimes) |->
          LET model == c.orders[i].model
              runtime == c.orders[i].runtimes[j] IN
          [model |-> model, runtime |-> runtime,
           workloads |-> SetToSeq(WorkloadsFor(c, model, runtime))]]])

(* What the selection asks for: a workload on a model that covers it. *)
Asked(c) == UNION {{e.model} \X e.workloads : e \in c.coverage}
=============================================================================
