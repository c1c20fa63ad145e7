---------------------------- MODULE MCWorkerMain ----------------------------
(***************************************************************************)
(* Two requests of the vision model, one of them streaming, and a text one.*)
(***************************************************************************)
EXTENDS WorkerMain

MCModel(r) == IF r \in {"v1", "v2"} THEN "vlm" ELSE "text"

=============================================================================
