------------------------------ MODULE MCCatalog ------------------------------
(***************************************************************************)
(* A small instance of Catalog: a builder and a deployer at two URLs, and  *)
(* workflows that build and deploy, or deploy what was built before and    *)
(* then an output without a name.                                          *)
(***************************************************************************)
EXTENDS Catalog, TLC

Builder == 1

Deployer == 2

Out(kind) == [out |-> [kind |-> kind, required |-> FALSE]]

In(kind, required) == [in |-> [kind |-> kind, required |-> required, short |-> FALSE]]

Build(outputs) == [inputs |-> << >>, outputs |-> outputs]

Deploy(inputs) == [inputs |-> inputs, outputs |-> << >>]

Full == [build |-> Build(Out("artifact")), deploy |-> Deploy(In("artifact", FALSE))]

(* The output is of another kind; the build is gone and an input is new.   *)
MCManifests ==
    {Full, [Full EXCEPT !.build = Build(Out("string"))],
     [deploy |-> Deploy(In("artifact", FALSE) @@ [key |-> In("string", TRUE).in])]}

MCFirstManifest == [u \in Urls |-> Full]

MCRegistered == [r \in Runners |-> IF r = Builder THEN "u1" ELSE NoUrl]

BuildJob == [runner |-> Builder, name |-> "build", inputs |-> << >>]

DeployJob(binding) == [runner |-> Deployer, name |-> "deploy", inputs |-> [in |-> binding]]

FromBuild == [type |-> "job_output", job |-> 1, output |-> "out"]

FromUnnamed == [type |-> "job_output", job |-> 2, output |-> ""]

Promoted == [type |-> "promoted_artifact", runner |-> Builder, name |-> "build", output |-> "out"]

MCDrafts ==
    {[trigger |-> "push", def |-> <<BuildJob, DeployJob(FromBuild)>>],
     [trigger |-> "manual", def |-> <<DeployJob(Promoted), DeployJob(FromUnnamed)>>]}
=============================================================================
