--------------------------- MODULE MCBenchmarkRun ---------------------------
(* Three workloads, one of each load mode, on one or two runtimes.          *)
EXTENDS BenchmarkRun

Modes == [single |-> "sequential", rush |-> "burst", steady |-> "closed-loop"]
MCMode(w) == Modes[w]
MCConcurrency(w) == IF w = "single" THEN 1 ELSE 2
MCCount(w) == IF w = "steady" THEN 3 ELSE 2
MCRunsOn(w) == IF w = "steady" THEN {"a"} ELSE {"a", "b"}
MCConnections == 1..2

Order(m, rs) == [model |-> m, runtimes |-> rs]
Covers(m, ws) == [model |-> m, workloads |-> ws]
Suite(ws, rs) ==
    [models |-> {"m"}, workloads |-> ws, runtimes |-> ToSet(rs),
     orders |-> <<Order("m", rs)>>, coverage |-> {Covers("m", ws)}]

(* Some of these are refused: nothing runs "steady" on runtime b. *)
MCSuites ==
    {Suite(ws, rs) : ws \in {{"single"}, {"steady"}},
                     rs \in {<<"a">>, <<"b">>, <<"a", "b">>}}
    \union
    {Suite({"rush", "steady"}, <<"a", "b">>),
     [models |-> {"m", "n"}, workloads |-> {"single", "rush"},
      runtimes |-> {"b"}, orders |-> <<Order("m", <<"b">>), Order("n", <<"b">>)>>,
      coverage |-> {Covers("m", {"single"}), Covers("n", {"rush"})}]}

(* Only the suite with two models has a target for every family, three in   *)
(* all; with "steady" alone no family has one.                              *)
MCRoutes ==
    <<[name |-> "graph", models |-> {"m", "n"}, workloads |-> {"single", "rush"}],
      [name |-> "pipeline", models |-> {"n"}, workloads |-> {"rush"}]>>

(* The second focus leaves runtime b without work for "rush", "steady". *)
MCFocuses == {[models |-> {"m", "n"}, workloads |-> {"single", "rush", "steady"}],
              [models |-> {"m"}, workloads |-> {"single", "steady"}]}
=============================================================================
