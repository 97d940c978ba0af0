---------------------------- MODULE MCRequestGate ----------------------------
(***************************************************************************)
(* A small instance of RequestGate: a server with a key and the one it is  *)
(* rotated to, each under a name of its own as print_runner_trust_toml     *)
(* prints their entries.  Four requests run jobs, which both keys may; one *)
(* uploads an artifact, which they may not.  The server's clock is exact.  *)
(***************************************************************************)
EXTENDS RequestGate, TLC

CONSTANT Upload

MCScopeOf == [r \in Requests |-> IF r = Upload THEN "artifacts_write" ELSE "jobs_run"]

MCPermissions == [k \in Keys |-> {"jobs_run"}]

MCNameOf == [k \in Keys |-> k]

Symmetry == Permutations(Requests \ {Upload})
=============================================================================
