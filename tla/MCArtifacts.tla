---------------------------- MODULE MCArtifacts -----------------------------
(***************************************************************************)
(* Small instances of Artifacts.                                           *)
(***************************************************************************)
EXTENDS Artifacts
=============================================================================
