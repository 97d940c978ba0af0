------------------------------- MODULE Intake -------------------------------
(***************************************************************************)
(* How work enters janus-server: push events (control.rs, git.rs, db.rs),  *)
(* the tick that turns them into pipelines (scheduler.rs), and the web     *)
(* requests that run a workflow, run a pipeline again or save a workflow   *)
(* (web/routes.rs), for one repository.                                    *)
(*                                                                         *)
(* enqueue_workflow_run_with_artifacts makes a pipeline by a series of     *)
(* calls of db.rs, each its own transaction.  The scheduler's task and the *)
(* web handlers run it on different threads: between any two calls another *)
(* task may act, or the server may crash.  The dispatch and poll phases    *)
(* are here as far as they read what enqueueing wrote; Scheduler has them  *)
(* in full.  Statuses are those of StateMachine; every job is required.    *)
(***************************************************************************)
EXTENDS Naturals, Sequences, FiniteSets, StateMachine

CONSTANTS
    Pushes,         \* event keys: a push is its repository, refs and revisions
    Refs,           \* the refs each push moves
    Workflows,
    Definitions,    \* what a saved workflow may say
    First,          \* the definition each workflow starts with
    Edits,          \* the changes users may save: <<workflow, definition>>
    Drifting,       \* the workflows whose runners may change their schemas
    Reports,        \* the schema reports that may occur
    Callers,        \* concurrent run and rerun requests
    Loop,           \* the scheduler's task
    NoPush,         \* origin of a pipeline that no push caused
    MaxVersions,    \* of a workflow
    MaxRequests,    \* pipelines made by callers
    MaxChanges,     \* saved workflows and changed schemas
    MaxFaults       \* crashes and database errors

(* jobs: how many; uses: the last one reads an output of the one before;   *)
(* promoted: the first one reads an artifact selected at run time.         *)
(* branches are the refs its patterns match; no pattern matches every ref. *)
DefinitionType ==
    [enabled : BOOLEAN, kind : {"push", "manual"}, branches : SUBSET UNION {Refs[k] : k \in Pushes},
     jobs : {1, 2}, uses : BOOLEAN, promoted : BOOLEAN]

ASSUME RefsAssumption == \A k \in Pushes : Refs[k] # {}
ASSUME DefinitionsAssumption ==
    /\ Definitions \subseteq DefinitionType
    /\ First \in [Workflows -> Definitions]
    /\ Drifting \subseteq Workflows
    /\ Edits \subseteq Workflows \X Definitions
    /\ Reports \subseteq {"current", "stale", "incompatible"}
ASSUME ReportsAssumption == "current" \in Reports
ASSUME TasksAssumption == Loop \notin Callers
ASSUME PromotedIsManual == \A d \in Definitions : d.promoted => d.kind = "manual"
ASSUME IntakeBounds ==
    /\ MaxVersions \in Nat /\ MaxRequests \in Nat /\ MaxChanges \in Nat
    /\ MaxFaults \in Nat

VARIABLES
    event,      \* push_events: "none", "received" or "processed"
    received,   \* those not processed yet, in the order of received_at
    versions,   \* workflow_versions of each workflow
    schema,     \* what workflow_schema_report says of each version now
    pipeline,   \* pipeline_runs with their job_runs, in the order of creation
    skipped,    \* the pushes the log says were skipped: <<key, workflow, ref>>
    pc,         \* where the tick stands
    events,     \* events still to process, as listed
    runs,       \* pipelines still to make for the first of them
    snap,       \* jobs still to dispatch or poll, as listed
    enq,        \* where each task stands in enqueue_workflow_run_with_artifacts
    changes,    \* saved workflows and changed schemas so far
    faults      \* crashes and database errors so far

tables == <<event, received, versions, schema, pipeline>>
tick == <<pc, events, runs, snap>>
vars == <<tables, skipped, tick, enq, changes, faults>>

Tasks == Callers \cup {Loop}

Latest(w) == Len(versions[w])

Def(w, v) == versions[w][v]

Job == [status : JobStatuses, prev : BOOLEAN]

JobIds == {j \in (DOMAIN pipeline) \X {1, 2} : j[2] \in DOMAIN pipeline[j[1]].rows}

Row(j) == pipeline[j[1]].rows[j[2]]

WithStatus(statuses) == {j \in JobIds : Row(j).status \in statuses}

Idle == [pc |-> "idle"]

-----------------------------------------------------------------------------
(* Push events and workflows *)

(* post_receive of the control socket, hook_post_receive and trigger_repo: *)
(* INSERT OR IGNORE, so a key that is known changes nothing.               *)
create_push_event(k) ==
    /\ event[k] = "none"
    /\ event' = [event EXCEPT ![k] = "received"]
    /\ received' = Append(received, k)
    /\ UNCHANGED <<versions, schema, pipeline, skipped, tick, enq, changes, faults>>

(* Mutant: no schema snapshot is stored with a new version. *)
update_workflow_NoSnapshot(w, d) ==
    /\ Latest(w) < MaxVersions /\ changes < MaxChanges
    /\ changes' = changes + 1
    /\ versions' = [versions EXCEPT ![w] = Append(@, d)]
    /\ UNCHANGED <<event, received, schema, pipeline, skipped, tick, enq, faults>>

(* update_workflow: a new version whose snapshot is the current catalogue. *)
update_workflow(w, d) ==
    /\ Latest(w) < MaxVersions /\ changes < MaxChanges
    /\ changes' = changes + 1
    /\ d # Def(w, Latest(w))
    /\ versions' = [versions EXCEPT ![w] = Append(@, d)]
    /\ schema' = [schema EXCEPT ![w] = Append(@, "current")]
    /\ UNCHANGED <<event, received, pipeline, skipped, tick, enq, faults>>

(* A runner advertises other job schemas than those saved with a version   *)
(* (module Catalog).                                                       *)
SchemaChanges(w, v, report) ==
    /\ v \in DOMAIN schema[w]
    /\ schema[w][v] # report /\ changes < MaxChanges
    /\ changes' = changes + 1
    /\ schema' = [schema EXCEPT ![w][v] = report]
    /\ UNCHANGED <<event, received, versions, pipeline, skipped, tick, enq, faults>>

(* Patterns of the trigger against the name of the ref. *)
matches_branch(d, ref) == d.branches = {} \/ ref \in d.branches

Triggers(d, ref) == d.enabled /\ d.kind = "push" /\ matches_branch(d, ref)

-----------------------------------------------------------------------------
(* enqueue_workflow_run_with_artifacts, by any task *)

Enqueue(w, v, trigger, push, ref, sel) ==
    [pc |-> "report", w |-> w, v |-> v, trigger |-> trigger, push |-> push, ref |-> ref,
     sel |-> sel, p |-> 0]

(* Pipelines whose artifacts list_recent_promotable_artifacts offers: the  *)
(* pipeline and the job (its first one) are successful.                    *)
Promotable == {p \in DOMAIN pipeline :
                  /\ pipeline[p].status = "success"
                  /\ \E i \in DOMAIN pipeline[p].rows : pipeline[p].rows[i].status = "success"}

(* The selections a run of d may be started with: none is needed, or one   *)
(* of those offered (validate_manual_artifact_selections).                 *)
Selections(d) == IF d.promoted THEN Promotable ELSE {0}

(* Mutant: an incompatible workflow ends the tick as other errors do. *)
EnqueueIncompatible_Aborts(t) ==
    /\ enq[t].pc = "report"
    /\ schema[enq[t].w][enq[t].v] = "incompatible"
    /\ enq' = [enq EXCEPT ![t] = Idle]
    /\ IF t = Loop THEN pc' = "idle" /\ events' = <<>> /\ runs' = {} /\ snap' = {}
                   ELSE UNCHANGED tick
    /\ UNCHANGED <<tables, skipped, changes, faults>>

(* workflow_schema_report: an incompatible workflow is not run.  A push is *)
(* skipped with a warning, a request answered with an error.               *)
EnqueueIncompatible(t) ==
    /\ enq[t].pc = "report"
    /\ schema[enq[t].w][enq[t].v] = "incompatible"
    /\ enq' = [enq EXCEPT ![t] = Idle]
    /\ skipped' = IF t = Loop THEN skipped \cup {<<enq[t].push, enq[t].w, enq[t].ref>>}
                              ELSE skipped
    /\ UNCHANGED <<tables, tick, changes, faults>>

EnqueueReport(t) ==
    /\ enq[t].pc = "report"
    /\ schema[enq[t].w][enq[t].v] # "incompatible"
    /\ enq' = [enq EXCEPT ![t].pc = "pipeline"]
    /\ UNCHANGED <<tables, skipped, tick, changes, faults>>

create_pipeline_run(t) ==
    /\ enq[t].pc = "pipeline"
    /\ pipeline' = Append(pipeline,
           [w |-> enq[t].w, v |-> enq[t].v, trigger |-> enq[t].trigger, push |-> enq[t].push,
            ref |-> enq[t].ref, sel |-> 0, status |-> "running", rows |-> <<>>])
    /\ enq' = [enq EXCEPT ![t].pc = "selections", ![t].p = Len(pipeline) + 1]
    /\ UNCHANGED <<event, received, versions, schema, skipped, tick, changes, faults>>

add_workflow_run_artifact_selections(t) ==
    /\ enq[t].pc = "selections"
    /\ pipeline' = [pipeline EXCEPT ![enq[t].p].sel = enq[t].sel]
    /\ enq' = [enq EXCEPT ![t].pc = "job"]
    /\ UNCHANGED <<event, received, versions, schema, skipped, tick, changes, faults>>

NewJob == [status |-> "pending", prev |-> FALSE]

JobsOf(p) == Def(pipeline[p].w, pipeline[p].v).jobs

create_job_run(t) ==
    LET p == enq[t].p IN
    /\ enq[t].pc = "job"
    /\ Len(pipeline[p].rows) < JobsOf(p)
    /\ pipeline' = [pipeline EXCEPT ![p].rows = Append(@, NewJob)]
    /\ enq' = [enq EXCEPT ![t].pc = IF pipeline[p].rows = <<>> THEN "job" ELSE "previous"]
    /\ UNCHANGED <<event, received, versions, schema, skipped, tick, changes, faults>>

add_previous_job(t) ==
    LET p == enq[t].p IN
    /\ enq[t].pc = "previous"
    /\ pipeline' = [pipeline EXCEPT ![p].rows[Len(pipeline[p].rows)].prev = TRUE]
    /\ enq' = [enq EXCEPT ![t].pc = "job"]
    /\ UNCHANGED <<event, received, versions, schema, skipped, tick, changes, faults>>

(* The request is answered; the tick goes on. *)
EnqueueDone(t) ==
    /\ enq[t].pc = "job"
    /\ Len(pipeline[enq[t].p].rows) = JobsOf(enq[t].p)
    /\ enq' = [enq EXCEPT ![t] = Idle]
    /\ UNCHANGED <<tables, skipped, tick, changes, faults>>

EnqueueStep(t) ==
    \/ EnqueueIncompatible(t) \/ EnqueueReport(t)
    \/ create_pipeline_run(t) \/ add_workflow_run_artifact_selections(t)
    \/ create_job_run(t) \/ add_previous_job(t) \/ EnqueueDone(t)

-----------------------------------------------------------------------------
(* Web requests *)

(* The bound on requests. *)
MayRequest(c) ==
    /\ enq[c] = Idle
    /\ Cardinality({p \in DOMAIN pipeline : pipeline[p].trigger # "push"})
         + Cardinality({t \in Callers : enq[t] # Idle}) < MaxRequests

(* The latest version, if its trigger is manual; enabled is not asked. *)
run_workflow(c, w) ==
    /\ MayRequest(c)
    /\ Def(w, Latest(w)).kind = "manual"
    /\ \E s \in Selections(Def(w, Latest(w))) :
          enq' = [enq EXCEPT ![c] = Enqueue(w, Latest(w), "manual", NoPush, "none", s)]
    /\ UNCHANGED <<tables, skipped, tick, changes, faults>>

(* The version and the selections of the pipeline that is run again. *)
rerun_pipeline(c, p) ==
    /\ MayRequest(c)
    /\ enq' = [enq EXCEPT ![c] = Enqueue(pipeline[p].w, pipeline[p].v, "rerun", NoPush,
                                         pipeline[p].ref, pipeline[p].sel)]
    /\ UNCHANGED <<tables, skipped, tick, changes, faults>>

-----------------------------------------------------------------------------
(* The tick *)

requires_recovery(p) ==
    \/ pipeline[p].status \in ActiveStatuses
    \/ \E i \in DOMAIN pipeline[p].rows :
          pipeline[p].rows[i].status \in {"pending"} \cup ActiveStatuses

(* recover_incomplete_pipelines, then list_unprocessed_push_events. *)
TickBegins ==
    /\ pc = "idle"
    /\ pipeline' = [p \in DOMAIN pipeline |->
                       IF requires_recovery(p) THEN [pipeline[p] EXCEPT !.status = "running"]
                                               ELSE pipeline[p]]
    /\ events' = received
    /\ pc' = "events"
    /\ UNCHANGED <<event, received, versions, schema, skipped, runs, snap, enq, changes, faults>>

(* workflows_for_repo: the latest version of every workflow, read once for *)
(* an event, and of those the ones its refs trigger.                       *)
ReadWorkflows ==
    /\ pc = "events" /\ events # <<>>
    /\ runs' = {<<r[1], Latest(r[1]), r[2]>> :
                    r \in {q \in Workflows \X Refs[Head(events)] :
                              Triggers(Def(q[1], Latest(q[1])), q[2])}}
    /\ pc' = "enqueue"
    /\ UNCHANGED <<tables, skipped, events, snap, enq, changes, faults>>

EnqueueForPush ==
    /\ pc = "enqueue" /\ enq[Loop] = Idle
    /\ \E r \in runs :
          /\ runs' = runs \ {r}
          /\ enq' = [enq EXCEPT ![Loop] =
                        Enqueue(r[1], r[2], "push", Head(events), r[3], 0)]
    /\ UNCHANGED <<tables, skipped, pc, events, snap, changes, faults>>

Without(s, i) == [j \in 1..(Len(s) - 1) |-> IF j < i THEN s[j] ELSE s[j + 1]]

mark_push_event_processed ==
    /\ pc = "enqueue" /\ enq[Loop] = Idle /\ runs = {}
    /\ event' = [event EXCEPT ![Head(events)] = "processed"]
    /\ \E i \in DOMAIN received :
          received[i] = Head(events) /\ received' = Without(received, i)
    /\ events' = Tail(events)
    /\ pc' = "events"
    /\ UNCHANGED <<versions, schema, pipeline, skipped, runs, snap, enq, changes, faults>>

DispatchList ==
    /\ pc = "events" /\ events = <<>>
    /\ pc' = "dispatch"
    /\ snap' = WithStatus({"pending"})
    /\ UNCHANGED <<tables, skipped, events, runs, enq, changes, faults>>

(* Mutant: the previous job is taken for one that may fail. *)
Previous_MayFail(j) == IF Row(j).prev THEN {<<Row(<<j[1], j[2] - 1>>).status, TRUE>>} ELSE {}

(* previous_jobs_for_job_run: what is recorded, not what will be. *)
Previous(j) == IF Row(j).prev THEN {<<Row(<<j[1], j[2] - 1>>).status, FALSE>>} ELSE {}

SetStatus(j, status) ==
    LET rows == [pipeline[j[1]].rows EXCEPT ![j[2]].status = status]
    IN  [pipeline EXCEPT ![j[1]].rows = rows]

(* finalize_pipeline_status after the status of job j changed. *)
Finalized(j, status) ==
    LET next == SetStatus(j, status)
        all == {<<next[j[1]].rows[i].status, FALSE>> : i \in DOMAIN next[j[1]].rows}
    IN  [next EXCEPT ![j[1]].status = terminal_pipeline_status(all)]

(* resolve_job_inputs finds all that the job's bindings name. *)
InputsResolve(j) ==
    LET d == Def(pipeline[j[1]].w, pipeline[j[1]].v) IN
    /\ d.uses /\ j[2] = 2 => Row(<<j[1], 1>>).status = "success"
    /\ d.promoted /\ j[2] = 1 => pipeline[j[1]].sel # 0

(* A job that may not start yet waits for the next tick. *)
DispatchWait(j) ==
    /\ pc = "dispatch" /\ j \in snap
    /\ next_ready_job_status(Previous(j)) = "none"
    /\ snap' = snap \ {j}
    /\ UNCHANGED <<tables, skipped, pc, events, runs, enq, changes, faults>>

(* Mutant: the status is not stored. *)
DispatchBlocked_NotStored(j) ==
    /\ pc = "dispatch" /\ j \in snap
    /\ next_ready_job_status(Previous(j)) = "blocked"
    /\ snap' = snap \ {j}
    /\ UNCHANGED <<tables, skipped, pc, events, runs, enq, changes, faults>>

DispatchBlocked(j) ==
    /\ pc = "dispatch" /\ j \in snap
    /\ next_ready_job_status(Previous(j)) = "blocked"
    /\ snap' = snap \ {j}
    /\ pipeline' = Finalized(j, "blocked")
    /\ UNCHANGED <<event, received, versions, schema, skipped, pc, events, runs, enq, changes, faults>>

DispatchReady(j) ==
    /\ pc = "dispatch" /\ j \in snap
    /\ next_ready_job_status(Previous(j)) = "pending"
    /\ InputsResolve(j)
    /\ snap' = snap \ {j}
    /\ pipeline' = SetStatus(j, "running")
    /\ UNCHANGED <<event, received, versions, schema, skipped, pc, events, runs, enq, changes, faults>>

(* An input that is missing is no transfer error: it ends the tick. *)
DispatchAborts(j) ==
    /\ pc = "dispatch" /\ j \in snap
    /\ next_ready_job_status(Previous(j)) = "pending"
    /\ ~InputsResolve(j)
    /\ pc' = "idle" /\ snap' = {}
    /\ UNCHANGED <<tables, skipped, events, runs, enq, changes, faults>>

PollList ==
    /\ pc = "dispatch" /\ snap = {}
    /\ pc' = "poll"
    /\ snap' = WithStatus({"running"})
    /\ UNCHANGED <<tables, skipped, events, runs, enq, changes, faults>>

(* The runner's answer: the job is still running, or how it ended. *)
PollRunning(j) ==
    /\ pc = "poll" /\ j \in snap
    /\ snap' = snap \ {j}
    /\ UNCHANGED <<tables, skipped, pc, events, runs, enq, changes, faults>>

PollEnded(j) ==
    /\ pc = "poll" /\ j \in snap
    /\ snap' = snap \ {j}
    /\ \E status \in {"success", "failed"} : pipeline' = Finalized(j, status)
    /\ UNCHANGED <<event, received, versions, schema, skipped, pc, events, runs, enq, changes, faults>>

TickEnds ==
    /\ pc = "poll" /\ snap = {}
    /\ pc' = "idle"
    /\ UNCHANGED <<tables, skipped, events, runs, snap, enq, changes, faults>>

-----------------------------------------------------------------------------
(* Failures *)

(* Mutant: every error of an enqueue is only logged. *)
EnqueueFails_Logged(t) ==
    /\ enq[t] # Idle
    /\ faults < MaxFaults
    /\ faults' = faults + 1
    /\ enq' = [enq EXCEPT ![t] = Idle]
    /\ UNCHANGED <<tables, skipped, tick, changes>>

(* A database error in an enqueue: `?` ends the tick, or the request. *)
EnqueueFails(t) ==
    /\ enq[t] # Idle
    /\ faults < MaxFaults
    /\ faults' = faults + 1
    /\ enq' = [enq EXCEPT ![t] = Idle]
    /\ IF t = Loop THEN pc' = "idle" /\ events' = <<>> /\ runs' = {} /\ snap' = {}
                   ELSE UNCHANGED tick
    /\ UNCHANGED <<tables, skipped, changes>>

(* The server is killed and started again: only the tables are left. *)
Crash ==
    /\ faults < MaxFaults
    /\ faults' = faults + 1
    /\ pc' = "idle" /\ events' = <<>> /\ runs' = {} /\ snap' = {}
    /\ enq' = [t \in Tasks |-> Idle]
    /\ UNCHANGED <<tables, skipped, changes>>

-----------------------------------------------------------------------------
Init ==
    /\ event = [k \in Pushes |-> "none"]
    /\ received = <<>>
    /\ versions = [w \in Workflows |-> <<First[w]>>]
    /\ schema = [w \in Workflows |-> <<"current">>]
    /\ pipeline = <<>>
    /\ skipped = {}
    /\ pc = "idle" /\ events = <<>> /\ runs = {} /\ snap = {}
    /\ enq = [t \in Tasks |-> Idle]
    /\ changes = 0
    /\ faults = 0

TickStep ==
    \/ TickBegins \/ ReadWorkflows \/ EnqueueForPush \/ EnqueueStep(Loop)
    \/ mark_push_event_processed
    \/ DispatchList \/ PollList \/ TickEnds
    \/ \E j \in JobIds : \/ DispatchWait(j) \/ DispatchBlocked(j) \/ DispatchReady(j)
                         \/ DispatchAborts(j) \/ PollRunning(j) \/ PollEnded(j)

Next ==
    \/ \E k \in Pushes : create_push_event(k)
    \/ \E e \in Edits : update_workflow(e[1], e[2])
    \/ \E w \in Drifting, v \in 1..MaxVersions, r \in Reports : SchemaChanges(w, v, r)
    \/ \E c \in Callers : \/ \E w \in Workflows : run_workflow(c, w)
                          \/ \E p \in DOMAIN pipeline : rerun_pipeline(c, p)
                          \/ EnqueueStep(c)
    \/ TickStep
    \/ \E t \in Tasks : EnqueueFails(t)
    \/ Crash

Spec == Init /\ [][Next]_vars

(* The job runs whose end is followed: those of the first pipeline. *)
ObservedJobs == {1} \X {1, 2}

(* The scheduler's interval ticks for ever, a handler that runs ends, and  *)
(* a job that is polled again and again is over some day (jobs have a      *)
(* timeout).  Nobody need push or ask.                                     *)
FairSpec ==
    /\ Spec
    /\ WF_vars(TickStep)
    /\ \A c \in Callers : WF_vars(EnqueueStep(c))
    /\ \A j \in ObservedJobs : SF_vars(PollEnded(j))

-----------------------------------------------------------------------------
(* Properties *)

EnqueueStates ==
    {Idle} \cup
    [pc : {"report", "pipeline", "selections", "job", "previous"}, w : Workflows, v : Nat,
     trigger : {"push", "manual", "rerun"}, push : Pushes \cup {NoPush},
     ref : (UNION {Refs[k] : k \in Pushes}) \cup {"none"}, sel : Nat, p : Nat]

IntakeTypeOK ==
    /\ event \in [Pushes -> {"none", "received", "processed"}]
    /\ \A w \in Workflows : /\ versions[w] \in Seq(Definitions)
                            /\ schema[w] \in Seq(Reports)
                            /\ Len(schema[w]) = Len(versions[w])
    /\ \A p \in DOMAIN pipeline : /\ pipeline[p].rows \in Seq(Job)
                                  /\ pipeline[p].status \in PipelineStatuses
                                  /\ pipeline[p].v \in 1..Latest(pipeline[p].w)
    /\ pc \in {"idle", "events", "enqueue", "dispatch", "poll"}
    /\ snap \subseteq JobIds
    /\ enq \in [Tasks -> EnqueueStates]
    /\ changes \in 0..MaxChanges
    /\ faults \in 0..MaxFaults

(* All its jobs are there, in their order. *)
Whole(p) ==
    /\ Len(pipeline[p].rows) = JobsOf(p)
    /\ \A i \in DOMAIN pipeline[p].rows : pipeline[p].rows[i].prev = (i > 1)

MadeFor(k, w, ref) ==
    {p \in DOMAIN pipeline : /\ pipeline[p].trigger = "push"
                             /\ pipeline[p].push = k
                             /\ pipeline[p].w = w
                             /\ pipeline[p].ref = ref}

(* process_push_events: a push makes one pipeline for each workflow and    *)
(* ref it triggers, however often its hook reports it; each crash or error *)
(* before mark_push_event_processed may repeat it once.                    *)
OncePerPush ==
    \A k \in Pushes, w \in Workflows : \A ref \in Refs[k] :
        Cardinality(MadeFor(k, w, ref)) <= 1 + faults

(* process_push_events: a push is marked as processed only when every      *)
(* workflow that it triggers, whichever version counts, has a complete     *)
(* pipeline for it, or the log says that it was skipped; also when the     *)
(* tick that began with it was cut off.                                    *)
NoPushLost ==
    \A k \in Pushes, w \in Workflows : \A ref \in Refs[k] :
        /\ event[k] = "processed"
        /\ \A v \in DOMAIN versions[w] : Triggers(Def(w, v), ref)
        => <<k, w, ref>> \in skipped \/ \E p \in MadeFor(k, w, ref) : Whole(p)

(* A push makes its pipelines, and makes them once, unless a crash or an   *)
(* error comes between them and mark_push_event_processed.                 *)
PushesDelivered == OncePerPush /\ NoPushLost

(* add_previous_job: in a pipeline made by the tick, no job is started     *)
(* before the one ahead of it has succeeded, since the tick that makes it  *)
(* dispatches only afterwards.  (A pipeline made by a request has its jobs *)
(* dispatched while they are inserted.)                                    *)
PushOrder ==
    \A p \in DOMAIN pipeline :
        (pipeline[p].trigger = "push" /\ Whole(p)) =>
            \A i \in DOMAIN pipeline[p].rows :
                (i > 1 /\ pipeline[p].rows[i].status \notin {"pending", "blocked"}) =>
                    pipeline[p].rows[i - 1].status = "success"

(* finalize_pipeline_status: while nothing has failed, a pipeline of the   *)
(* tick that is shown as a success has all the jobs of its version and     *)
(* they succeeded: it was not judged by the jobs inserted so far.          *)
PushSuccessIsWhole ==
    faults = 0 =>
        \A p \in DOMAIN pipeline :
            (pipeline[p].trigger = "push" /\ pipeline[p].status = "success") =>
                /\ Whole(p)
                /\ \A i \in DOMAIN pipeline[p].rows : pipeline[p].rows[i].status = "success"

(* add_workflow_run_artifact_selections comes before the first job: in a   *)
(* pipeline that run_workflow started, a job that needs a selection has    *)
(* it, also after a crash, so its dispatch does not end every tick.        *)
(* (rerun_pipeline copies the selections it finds and validates nothing:   *)
(* a rerun of a pipeline that was cut off, or is still being made, by then *)
(* has none.)                                                              *)
SelectionsFirst ==
    \A p \in DOMAIN pipeline :
        (/\ pipeline[p].trigger # "rerun" /\ pipeline[p].rows # <<>>
         /\ Def(pipeline[p].w, pipeline[p].v).promoted) => pipeline[p].sel # 0

(* A pipeline that is inserted step by step is never worked on as if it    *)
(* were complete: not its order, its result, nor what its jobs need.       *)
InsertedInOrder == PushOrder /\ PushSuccessIsWhole /\ SelectionsFirst

(* process_push_events: a push that was received is processed some day,    *)
(* through crashes, errors and ticks that end early.                       *)
PushesProcessed ==
    \A k \in Pushes : event[k] = "received" ~> event[k] = "processed"

(* dispatch_pending_jobs: a job of the first pipeline ends some day, unless*)
(* an enqueue was cut off: a tick that ends early because some pipeline is *)
(* still being made is made up for.                                        *)
EnqueuedJobsEnd ==
    \/ <>(faults > 0)
    \/ \A j \in ObservedJobs :
          (j \in JobIds /\ j \in WithStatus({"pending", "running"}))
              ~> (j \in WithStatus(FinalStatuses))
=============================================================================
