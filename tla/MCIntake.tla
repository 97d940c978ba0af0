------------------------------ MODULE MCIntake ------------------------------
(***************************************************************************)
(* Small instances of Intake.                                              *)
(***************************************************************************)
EXTENDS Intake

MCRefs == [k \in Pushes |-> {"main"}]

Build == [enabled |-> TRUE, kind |-> "push", branches |-> {}, jobs |-> 2,
          uses |-> TRUE, promoted |-> FALSE]

Paused == [Build EXCEPT !.enabled = FALSE]

Unbound == [Build EXCEPT !.uses = FALSE]

Deploy == [enabled |-> TRUE, kind |-> "manual", branches |-> {}, jobs |-> 1,
           uses |-> FALSE, promoted |-> TRUE]

MCDefinitions == {Build, Paused, Unbound, Deploy}

(* The build workflow may be switched off or lose a binding. *)
MCEdits == {<<1, Paused>>, <<1, Unbound>>}

MCFirst == [w \in Workflows |-> IF w = 1 THEN Build ELSE Deploy]
=============================================================================
