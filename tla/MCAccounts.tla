----------------------------- MODULE MCAccounts -----------------------------
(***************************************************************************)
(* A small instance of Accounts.                                           *)
(***************************************************************************)
EXTENDS Accounts, TLC

Symmetry == Permutations(Bootstraps) \cup Permutations(Logins)
            \cup Permutations(Creators) \cup Permutations(Names)
=============================================================================
