--------------------------- MODULE WorkflowSchema ---------------------------
(***************************************************************************)
(* What a workflow may ask of the jobs its runners advertise: the          *)
(* validation of a saved workflow (web/routes.rs, models.rs) and the       *)
(* comparison of its schema snapshot with what is advertised now           *)
(* (schema_diff.rs).                                                       *)
(*                                                                         *)
(* A definition is a sequence of jobs [runner, name, inputs]; inputs maps  *)
(* the names of bound inputs to bindings.  A schema is what a runner says  *)
(* of a job: its inputs and outputs by name, each with its kind and        *)
(* whether it is required; short says that an input has a length limit a   *)
(* long text exceeds.  A catalogue maps runners to their jobs' schemas by  *)
(* name.  Jobs are numbered from 1, job_index in the code from 0.          *)
(***************************************************************************)
EXTENDS Naturals, Sequences

Kinds == {"string", "integer", "boolean", "json", "artifact"}

Literals == {"text", "long", "blank", "number", "flag", "null"}

Texts == {"text", "long", "blank"}

InputSchema == [kind : Kinds, required : BOOLEAN, short : BOOLEAN]

OutputSchema == [kind : Kinds, required : BOOLEAN]

-----------------------------------------------------------------------------
(* Validation *)

ValueMatches(value, kind) ==
    \/ kind \in {"string", "artifact"} /\ value \in Texts
    \/ kind = "integer" /\ value = "number"
    \/ kind = "boolean" /\ value = "flag"
    \/ kind = "json" /\ value # "null"

(* Whether the binding of an input of job j passes for one of its kind.    *)
(* parse_job_output_binding makes nothing of an output without a name, so  *)
(* that nothing of such a binding is looked at, not even which job it is   *)
(* an output of.                                                           *)
BindingAccepted(schemas, j, b, kind) ==
    \/ b.type \in {"commit", "branch"} /\ kind = "string"
    \/ b.type \in {"source_artifact", "promoted_artifact"} /\ kind = "artifact"
    \/ b.type = "literal" /\ ValueMatches(b.value, kind)
    \/ b.type = "job_output" /\ b.output = ""
    \/ /\ b.type = "job_output" /\ b.output # ""
       /\ b.job \in 1..(j - 1) /\ b.job \in DOMAIN schemas
       /\ b.output \in DOMAIN schemas[b.job].outputs
       /\ schemas[b.job].outputs[b.output].kind = kind

(* workflow_input_binding_is_empty *)
BindingIsEmpty(b) ==
    \/ b.type = "literal" /\ b.value \in {"null", "blank"}
    \/ b.type = "job_output" /\ b.output = ""

(* Every binding names an input of its job and passes for it. *)
BindingsAccepted(def, schemas) ==
    \A j \in DOMAIN def : \A i \in DOMAIN def[j].inputs :
        /\ i \in DOMAIN schemas[j].inputs
        /\ BindingAccepted(schemas, j, def[j].inputs[i], schemas[j].inputs[i].kind)

(* validate_required_workflow_inputs of every job. *)
RequiredBound(def, schemas) ==
    \A j \in DOMAIN def : \A i \in DOMAIN schemas[j].inputs :
        schemas[j].inputs[i].required =>
            i \in DOMAIN def[j].inputs /\ ~BindingIsEmpty(def[j].inputs[i])

(* What the definition and the schemas of its jobs must agree on.          *)
Accepted(def, schemas) ==
    /\ DOMAIN schemas = DOMAIN def
    /\ BindingsAccepted(def, schemas)
    /\ RequiredBound(def, schemas)

(* validate_literal_input_constraints. *)
LiteralsFit(def, schemas) ==
    \A j \in DOMAIN def : \A i \in DOMAIN def[j].inputs :
        LET b == def[j].inputs[i]
        IN b.type = "literal" /\ b.value = "long" => ~schemas[j].inputs[i].short

(* The artifacts to be selected at run time name an artifact output of a   *)
(* job that its runner advertises.                                         *)
PromotedExist(def, catalogue) ==
    \A j \in DOMAIN def : \A i \in DOMAIN def[j].inputs :
        LET b == def[j].inputs[i]
        IN b.type = "promoted_artifact" =>
            /\ b.runner \in DOMAIN catalogue /\ b.name \in DOMAIN catalogue[b.runner]
            /\ b.output \in DOMAIN catalogue[b.runner][b.name].outputs
            /\ catalogue[b.runner][b.name].outputs[b.output].kind = "artifact"

HasPromoted(def) ==
    \E j \in DOMAIN def : \E i \in DOMAIN def[j].inputs :
        def[j].inputs[i].type = "promoted_artifact"

(* The checks of a submitted workflow that read no table. *)
FormAccepted(trigger, def) ==
    /\ trigger \in {"push", "manual"} /\ def # << >>
    /\ HasPromoted(def) => trigger = "manual"

-----------------------------------------------------------------------------
(* Comparison of a snapshot with the schemas advertised now *)

Diff(kind, j, field, incompatible) ==
    [kind |-> kind, job |-> j, field |-> field, incompatible |-> incompatible]

JobRemoved(j) == Diff("job_removed", j, "", TRUE)

InputDiffs(j, saved, current, bound) ==
    LET was == saved.inputs
        now == current.inputs
        both == DOMAIN was \cap DOMAIN now
        needed(i) == was[i].required \/ i \in bound
    IN  {Diff("input_added", j, i, now[i].required) : i \in DOMAIN now \ DOMAIN was}
        \cup {Diff("input_removed", j, i, needed(i)) : i \in DOMAIN was \ DOMAIN now}
        \cup {Diff("input_type_changed", j, i, needed(i)) :
                i \in {i \in both : was[i].kind # now[i].kind}}
        \cup {Diff("input_requiredness_changed", j, i, now[i].required /\ ~was[i].required) :
                i \in {i \in both : was[i].required # now[i].required}}

OutputDiffs(j, saved, current, referenced) ==
    LET was == saved.outputs
        now == current.outputs
        both == DOMAIN was \cap DOMAIN now
        needed(o) == was[o].required \/ o \in referenced
    IN  {Diff("output_added", j, o, FALSE) : o \in DOMAIN now \ DOMAIN was}
        \cup {Diff("output_removed", j, o, needed(o)) : o \in DOMAIN was \ DOMAIN now}
        \cup {Diff("output_type_changed", j, o, needed(o)) :
                o \in {o \in both : was[o].kind # now[o].kind}}
        \cup {Diff("output_requiredness_changed", j, o, was[o].required /\ ~now[o].required) :
                o \in {o \in both : was[o].required # now[o].required}}

BoundInputs(def, j) == DOMAIN def[j].inputs

(* The outputs of job j that inputs of job k are bound to. *)
OutputsReadBy(def, k, j) ==
    {def[k].inputs[i].output : i \in {i \in DOMAIN def[k].inputs :
        def[k].inputs[i].type = "job_output" /\ def[k].inputs[i].job = j}}

(* Mutant: only the bindings of the job itself are looked at. *)
ReferencedOutputs_OwnOnly(def, j) == OutputsReadBy(def, j, j)

(* workflow_referenced_outputs: what any job of the workflow reads of j.   *)
ReferencedOutputs(def, j) == UNION {OutputsReadBy(def, k, j) : k \in DOMAIN def}

Advertises(catalogue, job) ==
    job.runner \in DOMAIN catalogue /\ job.name \in DOMAIN catalogue[job.runner]

JobDiffs(def, saved, catalogue, j) ==
    IF j \in DOMAIN saved /\ Advertises(catalogue, def[j])
    THEN LET current == catalogue[def[j].runner][def[j].name]
         IN  InputDiffs(j, saved[j], current, BoundInputs(def, j))
             \cup OutputDiffs(j, saved[j], current, ReferencedOutputs(def, j))
    ELSE {JobRemoved(j)}

Diffs(def, saved, catalogue) ==
    UNION {JobDiffs(def, saved, catalogue, j) : j \in DOMAIN def}
    \cup {JobRemoved(j) : j \in DOMAIN saved \ DOMAIN def}

IsStale(d) == ~d.incompatible /\ d.kind \notin {"input_added", "output_added"}

(* workflow_schema_report: the status of a saved workflow.                 *)
Report(def, saved, catalogue) ==
    LET diffs == Diffs(def, saved, catalogue)
    IN  IF \E d \in diffs : d.incompatible THEN "incompatible"
        ELSE IF \E d \in diffs : IsStale(d) THEN "stale"
        ELSE "current"

(* The schemas advertised now for the jobs of a definition. *)
Now(def, catalogue) == [j \in DOMAIN def |-> catalogue[def[j].runner][def[j].name]]
=============================================================================
