---------------------------- MODULE MCRunnerJobs ----------------------------
(***************************************************************************)
(* Small instances of RunnerJobs.                                          *)
(***************************************************************************)
EXTENDS RunnerJobs, TLC

(* One manifest of each mode; an instance has those it names. *)
MCConcurrency ==
    [n \in Names |-> CASE n = "deploy" -> "global_exclusive"
                       [] n = "build"  -> "job_exclusive"
                       [] n = "test"   -> "parallel"]

Symmetry == Permutations(Keys) \cup Permutations(Creators) \cup Permutations(Cancelers)
=============================================================================
