---------------------------- MODULE StateMachine ----------------------------
(***************************************************************************)
(* janus-server/src/state_machine.rs: the two pure functions that decide   *)
(* whether a job may start and what the status of a pipeline is.           *)
(*                                                                         *)
(* Both receive (status, can_fail) pairs and ask only any() and all() of   *)
(* them, so the iterator is the set of its pairs.                          *)
(***************************************************************************)

ActiveStatuses == {"running", "cancel_requested", "canceling"}

FinalStatuses == {"success", "failed", "canceled", "blocked", "skipped"}

JobStatuses == {"pending"} \cup ActiveStatuses \cup FinalStatuses

PipelineStatuses == ActiveStatuses \cup {"success", "failed", "canceled", "blocked"}

Outcomes(pairs) == {pair[1] : pair \in pairs}

RequiredFailed(pairs) == <<"failed", FALSE>> \in pairs

(* The status a pending job takes ("pending": it may be dispatched), or    *)
(* "none" while it has to wait.                                            *)
next_ready_job_status(previous) ==
    IF RequiredFailed(previous) THEN "blocked"
    ELSE IF Outcomes(previous) \cap ({"pending"} \cup ActiveStatuses) # {} THEN "none"
    ELSE IF "canceled" \in Outcomes(previous) THEN "blocked"
    ELSE "pending"

(* Mutant: any() where all() is meant. *)
terminal_pipeline_status_AnySuccess(pairs) ==
    CASE "success" \in Outcomes(pairs) -> "success"
      [] "success" \notin Outcomes(pairs) /\ RequiredFailed(pairs) -> "failed"
      [] OTHER -> "running"

terminal_pipeline_status(pairs) ==
    CASE pairs # {} /\ Outcomes(pairs) \subseteq {"success", "skipped"} -> "success"
      [] RequiredFailed(pairs) -> "failed"
      [] ~RequiredFailed(pairs) /\ "blocked" \in Outcomes(pairs) -> "blocked"
      [] pairs # {} /\ Outcomes(pairs) = {"canceled"} -> "canceled"
      [] OTHER ->
            IF "canceling" \in Outcomes(pairs) THEN "canceling"
            ELSE IF "cancel_requested" \in Outcomes(pairs) THEN "cancel_requested"
            ELSE "running"
=============================================================================
