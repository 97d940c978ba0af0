---------------------------- MODULE MCScheduler -----------------------------
(***************************************************************************)
(* Small instances of Scheduler.                                           *)
(***************************************************************************)
EXTENDS Scheduler

(* Pipelines of at most two jobs. *)
MCPipelineOf == [j \in Jobs |-> IF j <= 2 THEN "p1" ELSE "p2"]

MCRequired == [j \in Jobs |-> FALSE]

MCAllowed == [j \in Jobs |-> TRUE]
=============================================================================
