---------------------------- MODULE IntakeProofs ----------------------------
(***************************************************************************)
(* Proofs about how work enters the server, for any pushes, workflows,     *)
(* requests, changed schemas, crashes and errors.                          *)
(***************************************************************************)
EXTENDS Intake, FiniteSetTheorems, TLAPS

-----------------------------------------------------------------------------
(* The inductive invariant *)

(* No element twice. *)
Distinct(s) == \A i, j \in DOMAIN s : s[i] = s[j] => i = j

RefNames == UNION {Refs[k] : k \in Pushes}

Reasons == {"push", "manual", "rerun"}

PipelineRow ==
    [w : Workflows, v : Nat, trigger : Reasons, push : Pushes \cup {NoPush},
     ref : RefNames \cup {"none"}, sel : Nat, status : PipelineStatuses, rows : Seq(Job)]

(* The states of a task whose pipeline has been inserted. *)
Making(t) == enq[t].pc \in {"selections", "job", "previous"}

(* Push events: what is listed has been received and not been processed. *)
EventsInv ==
    /\ event \in [Pushes -> {"none", "received", "processed"}]
    /\ received \in Seq(Pushes) /\ Distinct(received)
    /\ \A i \in DOMAIN received : event[received[i]] = "received"
    /\ events \in Seq(Pushes) /\ Distinct(events)
    /\ \A i \in DOMAIN events : event[events[i]] = "received"
    /\ pc \in {"idle", "events", "enqueue", "dispatch", "poll"}
    /\ pc = "enqueue" => events # <<>>

(* Workflows: at least one version each, and a report on every version. *)
VersionsInv ==
    /\ versions \in [Workflows -> Seq(Definitions)]
    /\ schema \in [Workflows -> Seq(Reports)]
    /\ \A w \in Workflows : Len(schema[w]) = Len(versions[w]) /\ Len(versions[w]) >= 1

(* A pipeline has at most the jobs of its version, the first one without a *)
(* previous job; one a push made is of a workflow that pushes trigger and  *)
(* runs in order; one a user started has the selection it needs.           *)
PipelineSound(p) ==
    LET row == pipeline[p] IN
    /\ row.v \in 1..Latest(row.w)
    /\ Len(row.rows) <= JobsOf(p)
    /\ 1 \in DOMAIN row.rows => ~row.rows[1].prev /\ row.rows[1].status # "blocked"
    /\ \A i \in DOMAIN row.rows : row.rows[i].status # "skipped"
    /\ row.trigger = "push" => Def(row.w, row.v).kind = "push"
    /\ (row.trigger # "rerun" /\ row.rows # <<>> /\ Def(row.w, row.v).promoted) => row.sel # 0
    /\ (row.trigger = "push" /\ 2 \in DOMAIN row.rows) =>
          (row.rows[2].prev /\ row.rows[2].status \notin {"pending", "blocked"}
              => row.rows[1].status = "success")

PipelinesInv ==
    /\ pipeline \in Seq(PipelineRow)
    /\ \A p \in DOMAIN pipeline : PipelineSound(p)

(* What a task inserts is what it was asked for, and no job of a push's    *)
(* pipeline has started before the tick goes on.                           *)
TaskSound(t) ==
    enq[t] # Idle =>
        /\ enq[t].v \in 1..Latest(enq[t].w)
        /\ t # Loop => enq[t].trigger # "push"
        /\ t = Loop => /\ pc = "enqueue"
                       /\ enq[t].trigger = "push" /\ enq[t].push = Head(events)
                       /\ Def(enq[t].w, enq[t].v).kind = "push"
        /\ (enq[t].trigger = "manual" /\ Def(enq[t].w, enq[t].v).promoted) => enq[t].sel # 0

MakingSound(t) ==
    Making(t) =>
        LET row == pipeline[enq[t].p] IN
        /\ enq[t].p \in DOMAIN pipeline
        /\ row.w = enq[t].w /\ row.v = enq[t].v /\ row.trigger = enq[t].trigger
        /\ row.push = enq[t].push /\ row.ref = enq[t].ref
        /\ enq[t].pc = "selections" => row.rows = <<>>
        /\ enq[t].pc # "selections" => row.sel = enq[t].sel
        /\ enq[t].pc = "job" => (2 \in DOMAIN row.rows => row.rows[2].prev)
        /\ enq[t].pc = "previous" => Len(row.rows) = 2
        /\ t = Loop => /\ row.status = "running"
                       /\ \A i \in DOMAIN row.rows : row.rows[i].status = "pending"

TasksInv ==
    /\ enq \in [Tasks -> EnqueueStates]
    /\ \A t \in Tasks : TaskSound(t) /\ MakingSound(t)
    /\ \A t, u \in Tasks : Making(t) /\ Making(u) /\ enq[t].p = enq[u].p => t = u

(* The lists of the tick: jobs as they were listed, since nobody else      *)
(* changes a status, and one run for each workflow and ref.                *)
ListsInv ==
    /\ snap \subseteq JobIds
    /\ pc = "dispatch" => \A j \in snap : Row(j).status = "pending"
    /\ pc = "poll" => \A j \in snap : Row(j).status = "running"
    /\ pc = "enqueue" =>
          /\ runs \subseteq Workflows \X Nat \X Refs[Head(events)]
          /\ \A r \in runs : r[2] \in 1..Latest(r[1]) /\ Triggers(Def(r[1], r[2]), r[3])
          /\ \A r, q \in runs : r[1] = q[1] /\ r[3] = q[3] => r = q
          /\ enq[Loop] # Idle => \A r \in runs : r[1] # enq[Loop].w \/ r[3] # enq[Loop].ref

BoundsInv == changes \in 0..MaxChanges /\ faults \in 0..MaxFaults

(* While nothing has failed, a push's pipeline is whole or in the making,  *)
(* and it is not taken for a success before that.                          *)
WholeInv ==
    faults = 0 => \A p \in DOMAIN pipeline : pipeline[p].trigger = "push" =>
        /\ Whole(p) \/ (Making(Loop) /\ enq[Loop].p = p)
        /\ pipeline[p].status = "success" =>
              Whole(p) /\ \A i \in DOMAIN pipeline[p].rows : pipeline[p].rows[i].status = "success"

(* Delivered(k, w, ref): what NoPushLost asks for. *)
Delivered(k, w, ref) == <<k, w, ref>> \in skipped \/ \E p \in MadeFor(k, w, ref) : Whole(p)

AlwaysTriggers(w, ref) == \A v \in DOMAIN versions[w] : Triggers(Def(w, v), ref)

(* A run is listed, in the making, or has been made. *)
DeliveryInv ==
    /\ \A k \in Pushes, w \in Workflows : \A ref \in Refs[k] :
          event[k] = "processed" /\ AlwaysTriggers(w, ref) => Delivered(k, w, ref)
    /\ pc = "enqueue" =>
          \A w \in Workflows : \A ref \in Refs[Head(events)] :
              AlwaysTriggers(w, ref) =>
                  \/ Delivered(Head(events), w, ref)
                  \/ \E r \in runs : r[1] = w /\ r[3] = ref
                  \/ enq[Loop] # Idle /\ enq[Loop].w = w /\ enq[Loop].ref = ref

(* Some tick may still make a pipeline for the push. *)
ToMake(k, w, ref) ==
    /\ event[k] # "processed"
    /\ (pc = "enqueue" /\ k = Head(events)) =>
          \/ \E r \in runs : r[1] = w /\ r[3] = ref
          \/ /\ enq[Loop].pc \in {"report", "pipeline"}
             /\ enq[Loop].w = w /\ enq[Loop].ref = ref

CountInv ==
    \A k \in Pushes, w \in Workflows : \A ref \in Refs[k] :
        Cardinality(MadeFor(k, w, ref)) <= faults + (IF ToMake(k, w, ref) THEN 0 ELSE 1)

IntakeInv ==
    /\ EventsInv /\ VersionsInv /\ PipelinesInv /\ TasksInv /\ ListsInv /\ BoundsInv
    /\ WholeInv /\ DeliveryInv /\ CountInv

-----------------------------------------------------------------------------
(* Tasks *)

(* A task that is not idle has the fields of an enqueue. *)
LEMMA TaskFields ==
    ASSUME TasksInv, NEW t \in Tasks
    PROVE  /\ enq[t].pc = "idle" <=> enq[t] = Idle
           /\ enq[t] # Idle =>
                /\ enq[t].pc \in {"report", "pipeline", "selections", "job", "previous"}
                /\ enq[t].w \in Workflows /\ enq[t].v \in Nat
                /\ enq[t].trigger \in Reasons /\ enq[t].push \in Pushes \cup {NoPush}
                /\ enq[t].ref \in RefNames \cup {"none"}
                /\ enq[t].sel \in Nat /\ enq[t].p \in Nat
  <1>1. enq[t] \in EnqueueStates
    BY DEF TasksInv
  <1>2. Idle.pc = "idle"
    BY DEF Idle
  <1>3. QED BY <1>1, <1>2 DEF EnqueueStates, RefNames, Reasons

(* What an enqueue does to the entry of its task. *)
LEMMA TaskMoves ==
    ASSUME TasksInv, NEW t \in Tasks, enq[t] # Idle, NEW e,
           NEW x \in {"report", "pipeline", "selections", "job", "previous"}, NEW n \in Nat,
           enq' = [enq EXCEPT ![t] = e], e = [enq[t] EXCEPT !.pc = x, !.p = n]
    PROVE  /\ enq' \in [Tasks -> EnqueueStates] /\ enq'[t] # Idle
           /\ enq'[t].pc = x /\ enq'[t].p = n
           /\ enq'[t].w = enq[t].w /\ enq'[t].v = enq[t].v /\ enq'[t].trigger = enq[t].trigger
           /\ enq'[t].push = enq[t].push /\ enq'[t].ref = enq[t].ref
           /\ enq'[t].sel = enq[t].sel
           /\ \A u \in Tasks \ {t} : enq'[u] = enq[u]
  <1>1. enq \in [Tasks -> EnqueueStates]
    BY DEF TasksInv
  <1>2. enq[t] \in EnqueueStates \ {Idle}
    BY <1>1
  <1>3. e \in EnqueueStates /\ e.pc = x /\ e.p = n /\ e.w = enq[t].w /\ e.v = enq[t].v
        /\ e.trigger = enq[t].trigger /\ e.push = enq[t].push /\ e.ref = enq[t].ref
        /\ e.sel = enq[t].sel
    BY <1>2 DEF EnqueueStates
  <1>4. e # Idle
    BY <1>3 DEF Idle
  <1>5. enq' \in [Tasks -> EnqueueStates] /\ enq'[t] = e /\ \A u \in Tasks \ {t} : enq'[u] = enq[u]
    BY <1>1, <1>3
  <1>6. QED BY <1>3, <1>4, <1>5

(* A task that ends is idle. *)
LEMMA TaskEnds ==
    ASSUME TasksInv, NEW t \in Tasks, enq' = [enq EXCEPT ![t] = Idle]
    PROVE  /\ enq' \in [Tasks -> EnqueueStates] /\ enq'[t] = Idle
           /\ \A u \in Tasks \ {t} : enq'[u] = enq[u]
  BY DEF TasksInv, EnqueueStates

(* A task that starts has the fields of a new enqueue. *)
LEMMA TaskStarts ==
    ASSUME TasksInv, NEW t \in Tasks, NEW w \in Workflows, NEW v \in Nat, NEW trigger \in Reasons,
           NEW k \in Pushes \cup {NoPush}, NEW ref \in RefNames \cup {"none"}, NEW s \in Nat,
           enq' = [enq EXCEPT ![t] = Enqueue(w, v, trigger, k, ref, s)]
    PROVE  /\ enq' \in [Tasks -> EnqueueStates] /\ enq'[t] # Idle
           /\ enq'[t] = [pc |-> "report", w |-> w, v |-> v, trigger |-> trigger, push |-> k,
                         ref |-> ref, sel |-> s, p |-> 0]
           /\ \A u \in Tasks \ {t} : enq'[u] = enq[u]
  <1> DEFINE e == [pc |-> "report", w |-> w, v |-> v, trigger |-> trigger, push |-> k,
                   ref |-> ref, sel |-> s, p |-> 0]
  <1>1. e \in EnqueueStates /\ e.pc = "report"
    <2>1. /\ e \in [pc : {"report", "pipeline", "selections", "job", "previous"}, w : Workflows,
                    v : Nat, trigger : Reasons, push : Pushes \cup {NoPush},
                    ref : RefNames \cup {"none"}, sel : Nat, p : Nat]
          /\ e.pc = "report"
      OBVIOUS
    <2>2. QED BY <2>1 DEF EnqueueStates, RefNames, Reasons
  <1>2. e # Idle
    BY <1>1 DEF Idle
  <1>3. enq' = [enq EXCEPT ![t] = e]
    BY DEF Enqueue
  <1> HIDE DEF e
  <1>4. enq' \in [Tasks -> EnqueueStates] /\ enq'[t] = e /\ \A u \in Tasks \ {t} : enq'[u] = enq[u]
    BY <1>1, <1>3 DEF TasksInv
  <1>5. QED BY <1>2, <1>4 DEF e

-----------------------------------------------------------------------------
(* Pipelines *)

(* The fields of a pipeline. *)
LEMMA RowFields ==
    ASSUME PipelinesInv, NEW p \in DOMAIN pipeline
    PROVE  /\ pipeline[p].w \in Workflows /\ pipeline[p].v \in Nat
           /\ pipeline[p].trigger \in Reasons /\ pipeline[p].push \in Pushes \cup {NoPush}
           /\ pipeline[p].ref \in RefNames \cup {"none"} /\ pipeline[p].sel \in Nat
           /\ pipeline[p].status \in PipelineStatuses
           /\ pipeline[p].rows \in Seq(Job)
  <1>1. pipeline[p] \in PipelineRow
    BY DEF PipelinesInv
  <1>2. QED BY <1>1 DEF PipelineRow

(* Every version up to the latest has a definition. *)
LEMMA Versions ==
    ASSUME VersionsInv, NEW w \in Workflows, NEW v \in 1..Latest(w)
    PROVE  Def(w, v) \in DefinitionType /\ Def(w, v).jobs \in {1, 2}
  <1>1. Def(w, v) \in Definitions
    BY DEF VersionsInv, Def, Latest
  <1>2. QED BY <1>1, DefinitionsAssumption DEF DefinitionType

(* Every workflow has a latest version. *)
LEMMA NextVersion ==
    ASSUME VersionsInv
    PROVE  \A w \in Workflows : Latest(w) \in Nat /\ Latest(w) >= 1 /\ Latest(w) \in 1..Latest(w)
  BY DEF VersionsInv, Latest

(* A pipeline has at most two jobs. *)
LEMMA FewRows ==
    ASSUME VersionsInv, PipelinesInv, NEW p \in DOMAIN pipeline
    PROVE  /\ JobsOf(p) \in {1, 2} /\ Len(pipeline[p].rows) \in 0..JobsOf(p)
           /\ DOMAIN pipeline[p].rows = 1..Len(pipeline[p].rows)
           /\ \A i \in DOMAIN pipeline[p].rows : pipeline[p].rows[i] \in Job /\ i \in {1, 2}
  <1>1. pipeline[p].w \in Workflows /\ pipeline[p].rows \in Seq(Job)
    BY RowFields
  <1>2. PipelineSound(p)
    BY DEF PipelinesInv
  <1>3. JobsOf(p) \in {1, 2} /\ Len(pipeline[p].rows) <= JobsOf(p)
    BY <1>1, <1>2, Versions DEF PipelineSound, JobsOf
  <1>4. QED BY <1>1, <1>3

(* The pipelines of a step: one that changes has the same cause.           *)
SameCause(a, b) ==
    /\ b.w = a.w /\ b.v = a.v /\ b.trigger = a.trigger /\ b.push = a.push /\ b.ref = a.ref

ChangedRow(p, row) ==
    /\ p \in DOMAIN pipeline /\ row \in PipelineRow
    /\ pipeline' = [pipeline EXCEPT ![p] = row]
    /\ SameCause(pipeline[p], row)

(* Only one pipeline changes. *)
LEMMA RowChange ==
    ASSUME PipelinesInv, NEW p, NEW row, ChangedRow(p, row)
    PROVE  /\ pipeline' \in Seq(PipelineRow) /\ Len(pipeline') = Len(pipeline)
           /\ DOMAIN pipeline' = DOMAIN pipeline
           /\ pipeline'[p] = row /\ \A q \in DOMAIN pipeline \ {p} : pipeline'[q] = pipeline[q]
  BY DEF PipelinesInv, ChangedRow

(* add_workflow_run_artifact_selections *)
LEMMA SelectionsChange ==
    ASSUME VersionsInv, PipelinesInv, TasksInv, NEW t \in Tasks,
           add_workflow_run_artifact_selections(t)
    PROVE  \E row : /\ ChangedRow(enq[t].p, row) /\ row.sel = enq[t].sel
                    /\ row.status = pipeline[enq[t].p].status
                    /\ row.rows = pipeline[enq[t].p].rows
  <1> DEFINE p == enq[t].p
             row == [pipeline[p] EXCEPT !.sel = enq[t].sel]
  <1>1. p \in DOMAIN pipeline /\ enq[t] # Idle
    BY TaskFields DEF TasksInv, MakingSound, Making, add_workflow_run_artifact_selections
  <1>2. pipeline[p] \in PipelineRow /\ enq[t].sel \in Nat
    BY <1>1, TaskFields DEF PipelinesInv
  <1>3. pipeline' = [pipeline EXCEPT ![p] = row]
    BY DEF add_workflow_run_artifact_selections
  <1>4. row \in PipelineRow /\ SameCause(pipeline[p], row) /\ row.sel = enq[t].sel
        /\ row.status = pipeline[p].status /\ row.rows = pipeline[p].rows
    BY <1>2 DEF PipelineRow, SameCause
  <1> HIDE DEF row
  <1>5. QED BY <1>1, <1>3, <1>4 DEF ChangedRow

(* create_job_run *)
LEMMA JobChange ==
    ASSUME VersionsInv, PipelinesInv, TasksInv, NEW t \in Tasks, create_job_run(t)
    PROVE  \E row : /\ ChangedRow(enq[t].p, row) /\ row.sel = pipeline[enq[t].p].sel
                    /\ row.status = pipeline[enq[t].p].status
                    /\ row.rows = Append(pipeline[enq[t].p].rows, NewJob)
  <1> DEFINE p == enq[t].p
             rows == Append(pipeline[p].rows, NewJob)
             row == [pipeline[p] EXCEPT !.rows = rows]
  <1>1. p \in DOMAIN pipeline
    BY DEF TasksInv, MakingSound, Making, create_job_run
  <1>2. pipeline[p] \in PipelineRow /\ NewJob \in Job
    BY <1>1 DEF PipelinesInv, NewJob, Job, JobStatuses
  <1>3. pipeline' = [pipeline EXCEPT ![p] = row]
    BY DEF create_job_run
  <1>4. rows \in Seq(Job)
    BY <1>1, <1>2, RowFields
  <1> HIDE DEF rows
  <1>5. row \in PipelineRow /\ SameCause(pipeline[p], row) /\ row.sel = pipeline[p].sel
        /\ row.status = pipeline[p].status /\ row.rows = rows
    BY <1>2, <1>4 DEF PipelineRow, SameCause
  <1> HIDE DEF row
  <1>6. QED BY <1>1, <1>3, <1>5 DEF ChangedRow, rows

(* add_previous_job *)
LEMMA PreviousChange ==
    ASSUME VersionsInv, PipelinesInv, TasksInv, NEW t \in Tasks, add_previous_job(t)
    PROVE  \E row : /\ ChangedRow(enq[t].p, row) /\ row.sel = pipeline[enq[t].p].sel
                    /\ row.status = pipeline[enq[t].p].status
                    /\ Len(pipeline[enq[t].p].rows) = 2 /\ Len(row.rows) = 2
                    /\ row.rows[1] = pipeline[enq[t].p].rows[1]
                    /\ row.rows[2] = [pipeline[enq[t].p].rows[2] EXCEPT !.prev = TRUE]
                    /\ row.rows[2].prev
                    /\ row.rows[2].status = pipeline[enq[t].p].rows[2].status
  <1> DEFINE p == enq[t].p
             job == [pipeline[p].rows[2] EXCEPT !.prev = TRUE]
             rows == [pipeline[p].rows EXCEPT ![2] = job]
             row == [pipeline[p] EXCEPT !.rows = rows]
  <1>1. p \in DOMAIN pipeline /\ Len(pipeline[p].rows) = 2
    BY DEF TasksInv, MakingSound, Making, add_previous_job
  <1>2. pipeline[p] \in PipelineRow /\ pipeline[p].rows \in Seq(Job)
    BY <1>1, RowFields DEF PipelinesInv
  <1>3. pipeline' = [pipeline EXCEPT ![p] = row]
    BY <1>1 DEF add_previous_job
  <1>4. pipeline[p].rows[2] \in Job /\ 2 \in DOMAIN pipeline[p].rows
    BY <1>1, <1>2
  <1>5. job \in Job /\ job.prev /\ job.status = pipeline[p].rows[2].status
    BY <1>4 DEF Job
  <1> HIDE DEF job
  <1>6. rows \in Seq(Job) /\ Len(rows) = 2 /\ rows[1] = pipeline[p].rows[1] /\ rows[2] = job
    BY <1>1, <1>2, <1>4, <1>5
  <1> HIDE DEF rows
  <1>7. row \in PipelineRow /\ SameCause(pipeline[p], row) /\ row.sel = pipeline[p].sel
        /\ row.status = pipeline[p].status /\ row.rows = rows
    BY <1>2, <1>6 DEF PipelineRow, SameCause
  <1> HIDE DEF row
  <1>8. QED BY <1>1, <1>3, <1>5, <1>6, <1>7, ZenonT(40) DEF ChangedRow, job

(* The same jobs, with other statuses. *)
SameJobs(a, b) ==
    /\ Len(b.rows) = Len(a.rows) /\ DOMAIN b.rows = DOMAIN a.rows
    /\ \A i \in DOMAIN a.rows : b.rows[i].prev = a.rows[i].prev

(* terminal_pipeline_status says a success only of jobs that all succeeded.*)
LEMMA TerminalSuccess ==
    ASSUME NEW rows \in Seq(Job), \A i \in DOMAIN rows : rows[i].status # "skipped"
    PROVE  LET status == terminal_pipeline_status({<<rows[i].status, FALSE>> : i \in DOMAIN rows})
           IN  /\ status \in PipelineStatuses
               /\ status = "success" => \A i \in DOMAIN rows : rows[i].status = "success"
  <1> DEFINE pairs == {<<rows[i].status, FALSE>> : i \in DOMAIN rows}
             status == terminal_pipeline_status(pairs)
  <1>1. status \in PipelineStatuses
    BY DEF terminal_pipeline_status, PipelineStatuses, ActiveStatuses
  <1>2. ASSUME status = "success"
        PROVE  pairs # {} /\ Outcomes(pairs) \subseteq {"success", "skipped"}
    BY <1>2 DEF terminal_pipeline_status
  <1>3. ASSUME NEW i \in DOMAIN rows, Outcomes(pairs) \subseteq {"success", "skipped"}
        PROVE  rows[i].status \in {"success", "skipped"}
    <2>1. <<rows[i].status, FALSE>> \in pairs
      OBVIOUS
    <2>2. <<rows[i].status, FALSE>>[1] \in Outcomes(pairs)
      BY <2>1 DEF Outcomes
    <2>3. QED BY <2>2, <1>3
  <1>4. QED BY <1>1, <1>2, <1>3

(* SetStatus and Finalized: one job has the new status, all else about the *)
(* jobs stays, and a pipeline that is finalized is judged by all its jobs. *)
LEMMA StatusChange ==
    ASSUME VersionsInv, PipelinesInv, NEW j \in JobIds,
           NEW s \in JobStatuses \ {"skipped"},
           pipeline' = SetStatus(j, s) \/ pipeline' = Finalized(j, s)
    PROVE  \E row : /\ ChangedRow(j[1], row) /\ row.sel = pipeline[j[1]].sel
                    /\ SameJobs(pipeline[j[1]], row)
                    /\ row.rows[j[2]].status = s
                    /\ \A i \in DOMAIN row.rows : i # j[2] => row.rows[i] = pipeline[j[1]].rows[i]
                    /\ \A i \in DOMAIN row.rows : row.rows[i].status # "skipped"
                    /\ \/ pipeline' = SetStatus(j, s) /\ row.status = pipeline[j[1]].status
                       \/ row.status = "success" =>
                             \A i \in DOMAIN row.rows : row.rows[i].status = "success"
  <1> DEFINE p == j[1]
             job == [pipeline[p].rows[j[2]] EXCEPT !.status = s]
             rows == [pipeline[p].rows EXCEPT ![j[2]] = job]
             next == [pipeline EXCEPT ![p] = [pipeline[p] EXCEPT !.rows = rows]]
             all == {<<rows[i].status, FALSE>> : i \in DOMAIN rows}
  <1>1. p \in DOMAIN pipeline /\ j[2] \in DOMAIN pipeline[p].rows
    BY DEF JobIds
  <1>2. pipeline[p] \in PipelineRow /\ pipeline[p].rows \in Seq(Job) /\ pipeline \in Seq(PipelineRow)
    BY <1>1, RowFields DEF PipelinesInv
  <1>3. pipeline[p].rows[j[2]] \in Job
    BY <1>1, <1>2
  <1>4. job \in Job /\ job.status = s /\ job.prev = pipeline[p].rows[j[2]].prev
    BY <1>3 DEF Job
  <1>5. next = SetStatus(j, s)
    BY <1>1, <1>2 DEF SetStatus
  <1> HIDE DEF job
  <1>6. /\ rows \in Seq(Job) /\ Len(rows) = Len(pipeline[p].rows)
        /\ DOMAIN rows = DOMAIN pipeline[p].rows /\ rows[j[2]] = job
        /\ \A i \in DOMAIN rows : i # j[2] => rows[i] = pipeline[p].rows[i]
    BY <1>1, <1>2, <1>4
  <1>7. \A i \in DOMAIN rows : rows[i].status # "skipped"
    BY <1>1, <1>4, <1>6 DEF PipelinesInv, PipelineSound
  <1> HIDE DEF rows
  <1>8. PICK a : a = [pipeline[p] EXCEPT !.rows = rows]
    OBVIOUS
  <1>9. /\ a \in PipelineRow /\ SameCause(pipeline[p], a) /\ a.sel = pipeline[p].sel
        /\ a.status = pipeline[p].status /\ a.rows = rows
    BY <1>2, <1>6, <1>8 DEF PipelineRow, SameCause
  <1>10. /\ SameJobs(pipeline[p], a)
         /\ a.rows[j[2]].status = s
         /\ \A i \in DOMAIN a.rows : i # j[2] => a.rows[i] = pipeline[p].rows[i]
         /\ \A i \in DOMAIN a.rows : a.rows[i].status # "skipped"
    BY <1>4, <1>6, <1>7, <1>9 DEF SameJobs
  <1>11. next = [pipeline EXCEPT ![p] = a]
    BY <1>8
  <1>12. CASE pipeline' = SetStatus(j, s)
    BY <1>1, <1>5, <1>9, <1>10, <1>11, <1>12 DEF ChangedRow
  <1>13. CASE pipeline' = Finalized(j, s)
    <2>1. terminal_pipeline_status(all) \in PipelineStatuses
          /\ (terminal_pipeline_status(all) = "success" =>
                 \A i \in DOMAIN rows : rows[i].status = "success")
      BY <1>6, <1>7, TerminalSuccess
    <2>2. PICK b : b = [a EXCEPT !.status = terminal_pipeline_status(all)]
      OBVIOUS
    <2>3. /\ b \in PipelineRow /\ SameCause(pipeline[p], b) /\ b.sel = pipeline[p].sel
          /\ b.status = terminal_pipeline_status(all) /\ b.rows = rows
      BY <1>9, <2>1, <2>2 DEF PipelineRow, SameCause
    <2>4. next[p] = a /\ p \in DOMAIN next
      BY <1>1, <1>2, <1>11
    <2> HIDE DEF next
    <2>5. pipeline' = LET every == {<<next[p].rows[i].status, FALSE>> : i \in DOMAIN next[p].rows}
                      IN  [next EXCEPT ![p].status = terminal_pipeline_status(every)]
      BY <1>5, <1>13 DEF Finalized
    <2>6. pipeline' = [next EXCEPT ![p].status = terminal_pipeline_status(all)]
      BY <1>9, <2>4, <2>5
    <2>7. pipeline' = [pipeline EXCEPT ![p] = b]
      BY <1>1, <1>2, <1>11, <2>2, <2>4, <2>6
    <2>8. SameJobs(pipeline[p], b) /\ b.rows = a.rows
      BY <1>9, <1>10, <2>3 DEF SameJobs
    <2>9. b.status = "success" => \A i \in DOMAIN b.rows : b.rows[i].status = "success"
      BY <2>1, <2>3
    <2>10. ChangedRow(p, b)
      BY <1>1, <2>3, <2>7 DEF ChangedRow
    <2>11. QED BY <1>10, <2>3, <2>8, <2>9, <2>10
  <1>14. QED BY <1>12, <1>13

(* TickBegins *)
LEMMA RecoverChange ==
    ASSUME PipelinesInv, TickBegins
    PROVE  /\ pipeline' \in Seq(PipelineRow) /\ Len(pipeline') = Len(pipeline)
           /\ DOMAIN pipeline' = DOMAIN pipeline
           /\ \A p \in DOMAIN pipeline :
                 /\ SameCause(pipeline[p], pipeline'[p]) /\ pipeline'[p].sel = pipeline[p].sel
                 /\ pipeline'[p].rows = pipeline[p].rows
                 /\ pipeline'[p].status \in {"running", pipeline[p].status}
  <1>1. ASSUME NEW p \in DOMAIN pipeline
        PROVE  LET row == IF requires_recovery(p) THEN [pipeline[p] EXCEPT !.status = "running"]
                                                  ELSE pipeline[p]
               IN  /\ row \in PipelineRow /\ SameCause(pipeline[p], row)
                   /\ row.sel = pipeline[p].sel /\ row.rows = pipeline[p].rows
                   /\ row.status \in {"running", pipeline[p].status}
    <2>1. pipeline[p] \in PipelineRow
      BY DEF PipelinesInv
    <2>2. PICK row : row = [pipeline[p] EXCEPT !.status = "running"]
      OBVIOUS
    <2>3. /\ row \in PipelineRow /\ SameCause(pipeline[p], row)
          /\ row.sel = pipeline[p].sel /\ row.rows = pipeline[p].rows
          /\ row.status = "running"
      BY <2>1, <2>2 DEF PipelineRow, SameCause, PipelineStatuses, ActiveStatuses
    <2>4. SameCause(pipeline[p], pipeline[p])
      BY DEF SameCause
    <2>5. QED BY <2>1, <2>2, <2>3, <2>4
  <1> DEFINE row(p) == IF requires_recovery(p) THEN [pipeline[p] EXCEPT !.status = "running"]
                                               ELSE pipeline[p]
  <1>2. pipeline' = [p \in DOMAIN pipeline |-> row(p)]
    BY DEF TickBegins
  <1>3. \A p \in DOMAIN pipeline :
           /\ row(p) \in PipelineRow /\ SameCause(pipeline[p], row(p))
           /\ row(p).sel = pipeline[p].sel /\ row(p).rows = pipeline[p].rows
           /\ row(p).status \in {"running", pipeline[p].status}
    BY <1>1
  <1> HIDE DEF row
  <1>4. pipeline \in Seq(PipelineRow)
    BY DEF PipelinesInv
  <1>5. QED BY <1>2, <1>3, <1>4

-----------------------------------------------------------------------------
(* Steps *)

(* The actions of Next, those of enqueueing by any task. *)
LEMMA Steps ==
    ASSUME [Next]_vars
    PROVE  \/ \E k \in Pushes : create_push_event(k)
           \/ \E e \in Edits : update_workflow(e[1], e[2])
           \/ \E w \in Drifting, v \in 1..MaxVersions, r \in Reports : SchemaChanges(w, v, r)
           \/ \E c \in Callers, w \in Workflows : run_workflow(c, w)
           \/ \E c \in Callers, p \in DOMAIN pipeline : rerun_pipeline(c, p)
           \/ \E t \in Tasks : EnqueueStep(t)
           \/ TickBegins \/ ReadWorkflows \/ EnqueueForPush \/ mark_push_event_processed
           \/ DispatchList \/ PollList \/ TickEnds
           \/ \E j \in JobIds : \/ DispatchWait(j) \/ DispatchBlocked(j) \/ DispatchReady(j)
                                \/ DispatchAborts(j) \/ PollRunning(j) \/ PollEnded(j)
           \/ \E t \in Tasks : EnqueueFails(t)
           \/ Crash
           \/ UNCHANGED vars
  BY DEF Next, TickStep, Tasks

-----------------------------------------------------------------------------
(* Events, versions and bounds *)

(* Events are listed once, and only while they are received. *)
LEMMA EventsStep ==
    ASSUME EventsInv, [Next]_vars
    PROVE  EventsInv'
  <1>1. CASE UNCHANGED <<event, received, pc, events>>
    BY <1>1 DEF Distinct, EventsInv
  <1>2. ASSUME NEW k \in Pushes, create_push_event(k)
        PROVE  EventsInv'
    <2>1. received' = Append(received, k) /\ event[k] = "none" /\ UNCHANGED <<pc, events>>
          /\ event' = [event EXCEPT ![k] = "received"]
      BY <1>2 DEF create_push_event, tick
    <2>2. \A l \in Pushes : event'[l] = IF l = k THEN "received" ELSE event[l]
      BY <2>1 DEF EventsInv
    <2>3. received' \in Seq(Pushes) /\ Distinct(received')
          /\ \A i \in DOMAIN received' : event'[received'[i]] = "received"
      BY <2>1, <2>2 DEF Distinct, EventsInv
    <2>4. \A i \in DOMAIN events : event'[events[i]] = "received"
      BY <2>2 DEF EventsInv
    <2>5. event' \in [Pushes -> {"none", "received", "processed"}]
      BY <2>1 DEF EventsInv
    <2>6. QED BY <2>1, <2>3, <2>4, <2>5 DEF Distinct, EventsInv
  <1>3. CASE TickBegins
    BY <1>3 DEF TickBegins, Distinct, EventsInv
  <1>4. CASE ReadWorkflows
    BY <1>4 DEF ReadWorkflows, tables, Distinct, EventsInv
  <1>5. CASE mark_push_event_processed
    <2>1. PICK i \in DOMAIN received :
              received[i] = Head(events) /\ received' = Without(received, i)
      BY <1>5 DEF mark_push_event_processed
    <2>2. events # <<>> /\ event' = [event EXCEPT ![Head(events)] = "processed"]
          /\ events' = Tail(events) /\ pc' = "events"
      BY <1>5 DEF mark_push_event_processed, EventsInv
    <2>3. Head(events) \in Pushes /\ Head(events) = events[1]
      BY <2>2 DEF EventsInv
    <2>4. \A l \in Pushes : event'[l] = IF l = Head(events) THEN "processed" ELSE event[l]
      BY <2>2, <2>3 DEF EventsInv
    <2>5. event' \in [Pushes -> {"none", "received", "processed"}]
      BY <2>2 DEF EventsInv
    <2>6. \A j \in DOMAIN received : received[j] = Head(events) => j = i
      BY <2>1 DEF Distinct, EventsInv
    <2>7. received' \in Seq(Pushes) /\ DOMAIN received' = 1..(Len(received) - 1)
          /\ \A j \in DOMAIN received' :
                received'[j] = IF j < i THEN received[j] ELSE received[j + 1]
      BY <2>1 DEF Without, EventsInv
    <2>8. \A j \in DOMAIN received' :
             \E l \in DOMAIN received \ {i} : received'[j] = received[l]
                                              /\ l = IF j < i THEN j ELSE j + 1
      BY <2>7
    <2>9. Distinct(received') /\ \A j \in DOMAIN received' : event'[received'[j]] = "received"
      <3>1. Distinct(received')
        BY <2>7, <2>8 DEF Distinct, EventsInv
      <3>2. ASSUME NEW j \in DOMAIN received'
            PROVE  event'[received'[j]] = "received"
        BY <2>4, <2>6, <2>8 DEF EventsInv
      <3>3. QED BY <3>1, <3>2
    <2>10. events' \in Seq(Pushes) /\ DOMAIN events' = 1..(Len(events) - 1)
           /\ \A j \in DOMAIN events' : events'[j] = events[j + 1] /\ j + 1 \in DOMAIN events
      BY <2>2 DEF EventsInv
    <2>11. Distinct(events') /\ \A j \in DOMAIN events' : event'[events'[j]] = "received"
      <3>1. Distinct(events')
        BY <2>10 DEF Distinct, EventsInv
      <3>2. ASSUME NEW j \in DOMAIN events'
            PROVE  event'[events'[j]] = "received"
        <4>1. events[j + 1] # Head(events) /\ event[events[j + 1]] = "received"
          BY <2>2, <2>3, <2>10 DEF Distinct, EventsInv
        <4>2. QED BY <2>4, <2>10, <4>1 DEF EventsInv
      <3>3. QED BY <3>1, <3>2
    <2>12. QED BY <2>2, <2>5, <2>7, <2>9, <2>10, <2>11 DEF EventsInv
  <1>6. CASE UNCHANGED <<event, received>> /\ events' \in {events, <<>>}
             /\ pc' \in {"idle", "events", "dispatch", "poll"}
    <2>1. <<>> \in Seq(Pushes) /\ Distinct(<<>>)
      BY DEF Distinct
    <2>2. CASE events' = events
      BY <1>6, <2>2 DEF Distinct, EventsInv
    <2>3. CASE events' = <<>>
      <3>1. \A i \in DOMAIN events' : event'[events'[i]] = "received"
        BY <2>3
      <3>2. Distinct(received) /\ Distinct(received)' /\ Distinct(events)'
        BY <1>6, <2>1, <2>3 DEF EventsInv, Distinct
      <3>3. QED BY <1>6, <2>1, <2>3, <3>1, <3>2 DEF EventsInv
    <2>4. QED BY <1>6, <2>2, <2>3
  <1>7. ASSUME NEW t \in Tasks, EnqueueStep(t)
        PROVE  UNCHANGED <<event, received, pc, events>>
    BY <1>7 DEF EnqueueStep, EnqueueIncompatible, EnqueueReport, create_pipeline_run,
       add_workflow_run_artifact_selections, create_job_run, add_previous_job, EnqueueDone,
       tables, tick
  <1>8. ASSUME NEW j \in JobIds,
               \/ DispatchWait(j) \/ DispatchBlocked(j) \/ DispatchReady(j)
               \/ PollRunning(j) \/ PollEnded(j)
        PROVE  UNCHANGED <<event, received, pc, events>>
    BY <1>8 DEF DispatchWait, DispatchBlocked, DispatchReady, PollRunning, PollEnded, tables
  <1>9. CASE DispatchList \/ PollList \/ TickEnds \/ \E j \in JobIds : DispatchAborts(j)
    BY <1>6, <1>9 DEF DispatchList, PollList, TickEnds, DispatchAborts, tables
  <1>10. CASE Crash \/ \E t \in Tasks : EnqueueFails(t)
    BY <1>1, <1>6, <1>10 DEF Crash, EnqueueFails, tables, tick
  <1>11. ASSUME \/ \E e \in Edits : update_workflow(e[1], e[2])
                \/ \E w \in Drifting, v \in 1..MaxVersions, r \in Reports : SchemaChanges(w, v, r)
                \/ \E c \in Callers, w \in Workflows : run_workflow(c, w)
                \/ \E c \in Callers, p \in DOMAIN pipeline : rerun_pipeline(c, p)
                \/ EnqueueForPush
                \/ UNCHANGED vars
         PROVE  UNCHANGED <<event, received, pc, events>>
    BY <1>11 DEF update_workflow, SchemaChanges, run_workflow, rerun_pipeline, EnqueueForPush,
       tables, tick, vars
  <1>12. QED
    BY <1>1, <1>2, <1>3, <1>4, <1>5, <1>7, <1>8, <1>9, <1>10, <1>11, Steps, ZenonT(30)

(* The versions of a workflow and their definitions stay. *)
LEMMA VersionsStep ==
    ASSUME VersionsInv, [Next]_vars
    PROVE  /\ VersionsInv'
           /\ \A w \in Workflows : /\ 1..Latest(w) \subseteq 1..Latest(w)'
                                   /\ \A v \in 1..Latest(w) : Def(w, v)' = Def(w, v)
  <1> DEFINE Goal == /\ VersionsInv'
                     /\ \A w \in Workflows : /\ 1..Latest(w) \subseteq 1..Latest(w)'
                                             /\ \A v \in 1..Latest(w) : Def(w, v)' = Def(w, v)
  <1>1. CASE UNCHANGED <<versions, schema>>
    BY <1>1 DEF VersionsInv, Latest, Def
  <1>2. ASSUME NEW e \in Edits, update_workflow(e[1], e[2])
        PROVE  Goal
    <2>1. e[1] \in Workflows /\ e[2] \in Definitions
      BY DefinitionsAssumption
    <2>2. versions' = [versions EXCEPT ![e[1]] = Append(@, e[2])]
          /\ schema' = [schema EXCEPT ![e[1]] = Append(@, "current")]
      BY <1>2 DEF update_workflow
    <2>3. \A w \in Workflows :
             /\ versions'[w] = IF w = e[1] THEN Append(versions[w], e[2]) ELSE versions[w]
             /\ schema'[w] = IF w = e[1] THEN Append(schema[w], "current") ELSE schema[w]
      BY <2>1, <2>2 DEF VersionsInv
    <2>4. ASSUME NEW w \in Workflows
          PROVE  /\ versions'[w] \in Seq(Definitions) /\ schema'[w] \in Seq(Reports)
                 /\ Len(schema'[w]) = Len(versions'[w]) /\ Len(versions'[w]) >= Len(versions[w])
                 /\ \A v \in 1..Len(versions[w]) : versions'[w][v] = versions[w][v]
      <3>1. versions[w] \in Seq(Definitions) /\ schema[w] \in Seq(Reports)
            /\ Len(schema[w]) = Len(versions[w])
        BY DEF VersionsInv
      <3>2. CASE w = e[1]
        <4>1. versions'[w] = Append(versions[w], e[2]) /\ schema'[w] = Append(schema[w], "current")
          BY <2>3, <3>2
        <4>2. e[2] \in Definitions /\ "current" \in Reports
          BY <2>1, ReportsAssumption
        <4>3. schema'[w] \in Seq(Reports) /\ Len(schema'[w]) = Len(schema[w]) + 1
          BY <3>1, <4>1, <4>2
        <4>4. versions'[w] \in Seq(Definitions) /\ Len(versions'[w]) = Len(versions[w]) + 1
              /\ \A v \in 1..Len(versions[w]) : versions'[w][v] = versions[w][v]
          BY <3>1, <4>1, <4>2
        <4>5. QED BY <3>1, <4>3, <4>4
      <3>3. CASE w # e[1]
        BY <2>3, <3>1, <3>3
      <3>4. QED BY <3>2, <3>3
    <2>5. versions' \in [Workflows -> Seq(Definitions)] /\ schema' \in [Workflows -> Seq(Reports)]
      BY <2>2, <2>4 DEF VersionsInv
    <2>6. QED BY <2>4, <2>5 DEF VersionsInv, Latest, Def
  <1>3. ASSUME NEW w \in Drifting, NEW v \in 1..MaxVersions, NEW r \in Reports, SchemaChanges(w, v, r)
        PROVE  Goal
    <2>1. w \in Workflows /\ v \in DOMAIN schema[w] /\ UNCHANGED versions
          /\ schema' = [schema EXCEPT ![w][v] = r]
      BY <1>3, DefinitionsAssumption DEF SchemaChanges
    <2>2. PICK s : s = [schema[w] EXCEPT ![v] = r]
      OBVIOUS
    <2>3. s \in Seq(Reports) /\ Len(s) = Len(schema[w])
      BY <2>1, <2>2 DEF VersionsInv
    <2>4. schema' = [schema EXCEPT ![w] = s]
      BY <2>1, <2>2
    <2>5. QED BY <2>1, <2>3, <2>4 DEF VersionsInv, Latest, Def
  <1>4. ASSUME NEW t \in Tasks, EnqueueStep(t)
        PROVE  UNCHANGED <<versions, schema>>
    BY <1>4 DEF EnqueueStep, EnqueueIncompatible, EnqueueReport, create_pipeline_run,
       add_workflow_run_artifact_selections, create_job_run, add_previous_job, EnqueueDone,
       tables, tick
  <1>5. ASSUME NEW j \in JobIds,
               \/ DispatchWait(j) \/ DispatchBlocked(j) \/ DispatchReady(j) \/ DispatchAborts(j)
               \/ PollRunning(j) \/ PollEnded(j)
        PROVE  UNCHANGED <<versions, schema>>
    BY <1>5 DEF DispatchWait, DispatchBlocked, DispatchReady, DispatchAborts, PollRunning,
       PollEnded, tables
  <1>6. ASSUME \/ TickBegins \/ ReadWorkflows \/ EnqueueForPush \/ mark_push_event_processed
               \/ DispatchList \/ PollList \/ TickEnds
               \/ \E k \in Pushes : create_push_event(k)
        PROVE  UNCHANGED <<versions, schema>>
    BY <1>6 DEF TickBegins, ReadWorkflows, EnqueueForPush, mark_push_event_processed,
       DispatchList, PollList, TickEnds, create_push_event, tables
  <1>7. ASSUME \/ Crash \/ \E t \in Tasks : EnqueueFails(t)
               \/ \E c \in Callers, w \in Workflows : run_workflow(c, w)
               \/ \E c \in Callers, p \in DOMAIN pipeline : rerun_pipeline(c, p)
               \/ UNCHANGED vars
        PROVE  UNCHANGED <<versions, schema>>
    BY <1>7 DEF Crash, EnqueueFails, run_workflow, rerun_pipeline, tables, vars
  <1>8. QED
    BY <1>1, <1>2, <1>3, <1>4, <1>5, <1>6, <1>7, Steps, ZenonT(30)

-----------------------------------------------------------------------------
(* Pipelines stay sound *)

(* next_ready_job_status: a second job may start once the first succeeded. *)
LEMMA MayStart ==
    ASSUME VersionsInv, PipelinesInv, NEW j \in JobIds, j[2] = 2, Row(j).prev,
           next_ready_job_status(Previous(j)) = "pending"
    PROVE  pipeline[j[1]].rows[1].status = "success"
  <1> DEFINE s == pipeline[j[1]].rows[1].status
  <1>1. j[1] \in DOMAIN pipeline /\ 2 \in DOMAIN pipeline[j[1]].rows
    BY DEF JobIds
  <1>2. 1 \in DOMAIN pipeline[j[1]].rows /\ pipeline[j[1]].rows[1] \in Job
    BY <1>1, FewRows
  <1>3. s \in JobStatuses \ {"blocked", "skipped"}
    BY <1>1, <1>2 DEF PipelinesInv, PipelineSound, Job
  <1>4. Row(<<j[1], j[2] - 1>>).status = s
    BY DEF Row
  <1> HIDE DEF s
  <1>5. Previous(j) = {<<s, FALSE>>}
    BY <1>4 DEF Previous
  <1>6. s # "failed"
    BY <1>5 DEF next_ready_job_status, RequiredFailed
  <1>7. <<s, FALSE>>[1] \in Outcomes(Previous(j))
    BY <1>5 DEF Outcomes
  <1>8. s \notin {"pending"} \cup ActiveStatuses /\ s # "canceled"
    BY <1>7 DEF next_ready_job_status
  <1>9. QED BY <1>3, <1>6, <1>8 DEF s, JobStatuses, FinalStatuses

(* The first job is never blocked. *)
LEMMA NoneBefore ==
    ASSUME VersionsInv, PipelinesInv, NEW j \in JobIds,
           next_ready_job_status(Previous(j)) = "blocked"
    PROVE  j[2] = 2
  <1>1. j[1] \in DOMAIN pipeline /\ j[2] \in {1, 2} /\ j[2] \in DOMAIN pipeline[j[1]].rows
    BY DEF JobIds
  <1>2. ASSUME j[2] = 1
        PROVE  Previous(j) = {}
    <2>1. ~pipeline[j[1]].rows[1].prev
      BY <1>1, <1>2 DEF PipelinesInv, PipelineSound
    <2>2. ~Row(j).prev
      BY <1>2, <2>1 DEF Row
    <2>3. QED BY <2>2 DEF Previous
  <1>3. next_ready_job_status({}) = "pending"
    BY DEF next_ready_job_status, RequiredFailed, Outcomes
  <1>4. QED BY <1>1, <1>2, <1>3

(* A row that is not touched stays sound: its version is still the same.   *)
LEMMA SoundStays ==
    ASSUME VersionsInv, PipelinesInv, [Next]_vars, NEW p \in DOMAIN pipeline,
           SameCause(pipeline[p], pipeline'[p]), pipeline'[p].sel = pipeline[p].sel,
           pipeline'[p].rows = pipeline[p].rows
    PROVE  PipelineSound(p)'
  <1>1. PipelineSound(p) /\ pipeline[p].w \in Workflows
    BY RowFields DEF PipelinesInv
  <1>2. PICK w, v : w = pipeline[p].w /\ v = pipeline[p].v
    OBVIOUS
  <1>3. pipeline'[p].w = w /\ pipeline'[p].v = v
    BY <1>2 DEF SameCause
  <1>4. w \in Workflows /\ v \in 1..Latest(w)
    BY <1>1, <1>2 DEF PipelineSound
  <1>5. v \in 1..Latest(w)' /\ Def(w, v)' = Def(w, v)
    BY <1>4, VersionsStep
  <1>6. JobsOf(p)' = JobsOf(p)
    BY <1>2, <1>3, <1>5 DEF JobsOf, Def
  <1>7. QED BY <1>1, <1>2, <1>3, <1>5, <1>6 DEF PipelineSound, SameCause, Def, Latest

(* A row that changes is sound if its jobs are. *)
LEMMA SoundChange ==
    ASSUME VersionsInv, PipelinesInv, [Next]_vars, NEW p, NEW row, ChangedRow(p, row),
           Len(row.rows) <= JobsOf(p),
           1 \in DOMAIN row.rows => ~row.rows[1].prev /\ row.rows[1].status # "blocked",
           \A i \in DOMAIN row.rows : row.rows[i].status # "skipped",
           (row.trigger # "rerun" /\ row.rows # <<>> /\ Def(row.w, row.v).promoted) => row.sel # 0,
           (row.trigger = "push" /\ 2 \in DOMAIN row.rows) =>
              (row.rows[2].prev /\ row.rows[2].status \notin {"pending", "blocked"}
                  => row.rows[1].status = "success")
    PROVE  PipelinesInv'
  <1>1. /\ pipeline' \in Seq(PipelineRow) /\ DOMAIN pipeline' = DOMAIN pipeline
        /\ p \in DOMAIN pipeline
        /\ pipeline'[p] = row /\ \A q \in DOMAIN pipeline \ {p} : pipeline'[q] = pipeline[q]
    BY RowChange DEF ChangedRow
  <1>2. ASSUME NEW q \in DOMAIN pipeline \ {p}
        PROVE  PipelineSound(q)'
    <2>1. SameCause(pipeline[q], pipeline'[q]) /\ pipeline'[q] = pipeline[q]
      BY <1>1 DEF SameCause
    <2>2. QED BY <2>1, SoundStays
  <1>3. PipelineSound(p)'
    <2>1. PipelineSound(p) /\ pipeline[p].w \in Workflows
      BY <1>1, RowFields DEF PipelinesInv
    <2>2. row.w = pipeline[p].w /\ row.v = pipeline[p].v /\ row.trigger = pipeline[p].trigger
      BY DEF ChangedRow, SameCause
    <2>3. row.v \in 1..Latest(row.w)' /\ Def(row.w, row.v)' = Def(row.w, row.v)
      BY <2>1, <2>2, VersionsStep DEF PipelineSound
    <2>4. row.trigger = "push" => Def(row.w, row.v).kind = "push"
      BY <2>1, <2>2 DEF PipelineSound
    <2>5. JobsOf(p)' = JobsOf(p)
      BY <1>1, <2>2, <2>3 DEF JobsOf, Def
    <2>6. QED BY <1>1, <2>3, <2>4, <2>5 DEF PipelineSound, Def, Latest
  <1>4. QED BY <1>1, <1>2, <1>3 DEF PipelinesInv

(* What Append returns. *)
LEMMA Appended ==
    ASSUME NEW S, NEW s \in Seq(S), NEW x \in S
    PROVE  /\ Append(s, x) \in Seq(S) /\ Len(Append(s, x)) = Len(s) + 1
           /\ DOMAIN Append(s, x) = 1..Len(Append(s, x))
           /\ Append(s, x)[Len(Append(s, x))] = x
           /\ \A i \in DOMAIN s : Append(s, x)[i] = s[i]
  OBVIOUS

(* The steps of an enqueue that change tables. *)
LEMMA EnqueueKeepsSound ==
    ASSUME VersionsInv, PipelinesInv, TasksInv, [Next]_vars, NEW t \in Tasks,
           \/ create_pipeline_run(t) \/ add_workflow_run_artifact_selections(t)
           \/ create_job_run(t) \/ add_previous_job(t)
    PROVE  PipelinesInv'
  <1> DEFINE p == enq[t].p
  <1>1. TaskSound(t) /\ MakingSound(t) /\ enq[t] # Idle
    BY TaskFields DEF TasksInv, create_pipeline_run, add_workflow_run_artifact_selections,
       create_job_run, add_previous_job
  <1>2. CASE create_pipeline_run(t)
    <2>1. PICK row : row = [w |-> enq[t].w, v |-> enq[t].v, trigger |-> enq[t].trigger,
                            push |-> enq[t].push, ref |-> enq[t].ref, sel |-> 0,
                            status |-> "running", rows |-> <<>>]
      OBVIOUS
    <2>2. pipeline' = Append(pipeline, row) /\ pipeline \in Seq(PipelineRow)
      BY <1>2, <2>1 DEF create_pipeline_run, PipelinesInv
    <2>3. /\ row.w = enq[t].w /\ row.v = enq[t].v /\ row.trigger = enq[t].trigger
          /\ row.rows = <<>> /\ row \in PipelineRow
      BY <1>1, <2>1, TaskFields DEF PipelineRow, PipelineStatuses, ActiveStatuses
    <2>4. /\ pipeline' \in Seq(PipelineRow) /\ DOMAIN pipeline' = 1..(Len(pipeline) + 1)
          /\ pipeline'[Len(pipeline) + 1] = row
          /\ \A q \in DOMAIN pipeline : pipeline'[q] = pipeline[q]
      BY <2>2, <2>3
    <2>5. ASSUME NEW q \in DOMAIN pipeline
          PROVE  PipelineSound(q)'
      <3>1. SameCause(pipeline[q], pipeline'[q]) /\ pipeline'[q] = pipeline[q]
        BY <2>4 DEF SameCause
      <3>2. QED BY <3>1, SoundStays
    <2>6. ASSUME NEW q, q = Len(pipeline) + 1
          PROVE  PipelineSound(q)'
      <3>1. row.w \in Workflows /\ row.v \in 1..Latest(row.w)
        BY <1>1, <2>3, TaskFields DEF TaskSound
      <3>2. row.v \in 1..Latest(row.w)' /\ Def(row.w, row.v)' = Def(row.w, row.v)
        BY <3>1, VersionsStep
      <3>3. Def(row.w, row.v).jobs \in {1, 2}
        BY <3>1, Versions
      <3>4. row.trigger = "push" => Def(row.w, row.v).kind = "push"
        BY <1>1, <2>3 DEF TaskSound
      <3>5. pipeline'[q] = row /\ Len(row.rows) = 0 /\ DOMAIN row.rows = {}
        BY <2>3, <2>4, <2>6
      <3>6. Len(row.rows) <= JobsOf(q)'
        BY <3>2, <3>3, <3>5 DEF JobsOf, Def
      <3>7. row.rows = <<>>
        BY <2>3
      <3>8. QED BY <3>2, <3>4, <3>5, <3>6, <3>7 DEF PipelineSound, Def, Latest
    <2>7. DOMAIN pipeline = 1..Len(pipeline) /\ Len(pipeline) \in Nat
      BY <2>2
    <2>8. QED BY <2>4, <2>5, <2>6, <2>7 DEF PipelinesInv
  <1>3. ASSUME ~create_pipeline_run(t)
        PROVE  /\ p \in DOMAIN pipeline /\ PipelineSound(p) /\ Making(t)
               /\ JobsOf(p) \in {1, 2} /\ Len(pipeline[p].rows) \in 0..JobsOf(p)
               /\ DOMAIN pipeline[p].rows = 1..Len(pipeline[p].rows)
               /\ pipeline[p].rows \in Seq(Job)
    <2>1. Making(t)
      BY <1>3 DEF Making, add_workflow_run_artifact_selections, create_job_run, add_previous_job
    <2>2. p \in DOMAIN pipeline
      BY <1>1, <2>1 DEF MakingSound
    <2>3. QED BY <2>1, <2>2, FewRows, RowFields DEF PipelinesInv
  <1>4. CASE add_workflow_run_artifact_selections(t)
    <2>1. PICK row : ChangedRow(p, row) /\ row.rows = pipeline[p].rows
      BY <1>4, SelectionsChange
    <2>2. pipeline[p].rows = <<>>
      BY <1>1, <1>3, <1>4 DEF MakingSound, add_workflow_run_artifact_selections,
         create_pipeline_run
    <2>3. DOMAIN row.rows = {} /\ Len(row.rows) = 0
      BY <2>1, <2>2
    <2>4. ~create_pipeline_run(t)
      BY <1>4 DEF add_workflow_run_artifact_selections, create_pipeline_run
    <2>5. Len(row.rows) <= JobsOf(p)
      BY <1>3, <2>3, <2>4
    <2>6. QED BY <2>1, <2>2, <2>3, <2>5, SoundChange
  <1>5. CASE create_job_run(t)
    <2>1. PICK row : /\ ChangedRow(p, row) /\ row.sel = pipeline[p].sel
                     /\ row.rows = Append(pipeline[p].rows, NewJob)
      BY <1>5, JobChange
    <2>2. ~create_pipeline_run(t) /\ Len(pipeline[p].rows) < JobsOf(p) /\ enq[t].pc = "job"
      BY <1>5 DEF create_job_run, create_pipeline_run
    <2>3. NewJob \in Job /\ ~NewJob.prev /\ NewJob.status = "pending"
      BY DEF NewJob, Job, JobStatuses
    <2>4. /\ Len(row.rows) = Len(pipeline[p].rows) + 1 /\ Len(row.rows) <= JobsOf(p)
          /\ DOMAIN row.rows = 1..Len(row.rows)
          /\ row.rows[Len(row.rows)] = NewJob
          /\ \A i \in DOMAIN pipeline[p].rows : row.rows[i] = pipeline[p].rows[i]
      <3>1. PICK rows : rows = pipeline[p].rows /\ rows \in Seq(Job)
        BY <1>3, <2>2
      <3>2. row.rows = Append(rows, NewJob)
        BY <2>1, <3>1
      <3>3. Len(rows) < JobsOf(p) /\ JobsOf(p) \in Nat
        BY <1>3, <2>2, <3>1
      <3>4. /\ Len(row.rows) = Len(rows) + 1 /\ DOMAIN row.rows = 1..Len(row.rows)
            /\ row.rows[Len(row.rows)] = NewJob /\ \A i \in DOMAIN rows : row.rows[i] = rows[i]
        <4>1. NewJob \in Job /\ rows \in Seq(Job)
          BY <2>3, <3>1
        <4>2. /\ Len(Append(rows, NewJob)) = Len(rows) + 1
              /\ DOMAIN Append(rows, NewJob) = 1..Len(Append(rows, NewJob))
              /\ Append(rows, NewJob)[Len(Append(rows, NewJob))] = NewJob
              /\ \A i \in DOMAIN rows : Append(rows, NewJob)[i] = rows[i]
          BY <4>1, Appended
        <4>3. QED BY <3>2, <4>2
      <3>5. Len(row.rows) <= JobsOf(p)
        BY <3>1, <3>3, <3>4
      <3>6. QED BY <3>1, <3>4, <3>5
    <2>5. 1 \in DOMAIN row.rows => ~row.rows[1].prev /\ row.rows[1].status # "blocked"
      BY <1>3, <2>2, <2>3, <2>4, SMTT(30) DEF PipelineSound
    <2>6. \A i \in DOMAIN row.rows : row.rows[i].status # "skipped"
      BY <1>3, <2>2, <2>3, <2>4 DEF PipelineSound
    <2>7. 2 \in DOMAIN row.rows => ~row.rows[2].prev
      BY <1>3, <2>2, <2>3, <2>4
    <2>8. ASSUME row.trigger # "rerun", Def(row.w, row.v).promoted
          PROVE  row.sel # 0
      <3>1. /\ row.trigger = enq[t].trigger /\ row.sel = enq[t].sel
            /\ row.w = enq[t].w /\ row.v = enq[t].v
        BY <1>1, <1>3, <2>1, <2>2 DEF ChangedRow, SameCause, MakingSound
      <3>2. enq[t].w \in Workflows /\ enq[t].v \in 1..Latest(enq[t].w) /\ enq[t].trigger \in Reasons
        BY <1>1, TaskFields DEF TaskSound
      <3>3. Def(row.w, row.v) \in Definitions
        BY <3>1, <3>2 DEF VersionsInv, Def, Latest
      <3>4. Def(row.w, row.v).kind # "push"
        BY <2>8, <3>3, PromotedIsManual
      <3>5. enq[t].trigger # "push"
        BY <1>1, <3>1, <3>4, TasksAssumption DEF TaskSound
      <3>6. enq[t].trigger = "manual"
        BY <2>8, <3>1, <3>2, <3>5 DEF Reasons
      <3>7. QED BY <1>1, <2>8, <3>1, <3>6 DEF TaskSound
    <2>9. QED BY <2>1, <2>4, <2>5, <2>6, <2>7, <2>8, SoundChange
  <1>6. CASE add_previous_job(t)
    <2>1. PICK row : /\ ChangedRow(p, row) /\ row.sel = pipeline[p].sel
                     /\ Len(pipeline[p].rows) = 2 /\ Len(row.rows) = 2
                     /\ row.rows[1] = pipeline[p].rows[1]
                     /\ row.rows[2].status = pipeline[p].rows[2].status
      BY <1>6, PreviousChange
    <2>2. ~create_pipeline_run(t)
      BY <1>6 DEF add_previous_job, create_pipeline_run
    <2>3. row.rows \in Seq(Job)
      BY <2>1 DEF ChangedRow, PipelineRow
    <2>4. DOMAIN row.rows = {1, 2} /\ DOMAIN pipeline[p].rows = {1, 2}
      BY <1>3, <2>1, <2>2, <2>3
    <2>5. /\ ~row.rows[1].prev /\ row.rows[1].status # "blocked"
          /\ \A i \in DOMAIN row.rows : row.rows[i].status # "skipped"
      BY <1>3, <2>1, <2>2, <2>4 DEF PipelineSound
    <2>6. /\ row.trigger = pipeline[p].trigger /\ row.w = pipeline[p].w /\ row.v = pipeline[p].v
      BY <2>1 DEF ChangedRow, SameCause
    <2>7. (row.trigger # "rerun" /\ row.rows # <<>> /\ Def(row.w, row.v).promoted) => row.sel # 0
      BY <1>3, <2>1, <2>2, <2>4, <2>6 DEF PipelineSound
    <2>8. ASSUME row.trigger = "push"
          PROVE  row.rows[2].status = "pending"
      <3>1. enq[t].trigger = "push"
        BY <1>1, <1>3, <2>2, <2>6, <2>8 DEF MakingSound
      <3>2. t = Loop
        BY <1>1, <3>1 DEF TaskSound
      <3>3. QED BY <1>1, <1>3, <2>1, <2>2, <2>4, <3>2 DEF MakingSound
    <2>9. Len(row.rows) <= JobsOf(p)
      BY <1>3, <2>1, <2>2
    <2>10. QED BY <2>1, <2>5, <2>7, <2>8, <2>9, SoundChange
  <1>7. QED BY <1>2, <1>4, <1>5, <1>6

(* What the tick writes. *)
LEMMA StatusKeepsSound ==
    ASSUME VersionsInv, PipelinesInv, ListsInv, [Next]_vars, NEW j \in JobIds,
           DispatchBlocked(j) \/ DispatchReady(j) \/ PollEnded(j)
    PROVE  PipelinesInv'
  <1> DEFINE p == j[1]
  <1>1. /\ p \in DOMAIN pipeline /\ j[2] \in {1, 2} /\ j[2] \in DOMAIN pipeline[p].rows
        /\ PipelineSound(p) /\ JobsOf(p) \in {1, 2} /\ Len(pipeline[p].rows) <= JobsOf(p)
        /\ Row(j) = pipeline[p].rows[j[2]]
    BY FewRows DEF JobIds, PipelinesInv, Row
  <1>2. PICK s \in {"blocked", "running", "success", "failed"} :
            /\ pipeline' = SetStatus(j, s) \/ pipeline' = Finalized(j, s)
            /\ s = "blocked" => j[2] = 2
            /\ (s # "blocked" /\ pipeline[p].trigger = "push" /\ j[2] = 2 /\ Row(j).prev) =>
                  pipeline[p].rows[1].status = "success"
            /\ j[2] = 1 => pipeline[p].rows[1].status # "success"
    <2>1. CASE DispatchBlocked(j)
      <3>1. pipeline' = Finalized(j, "blocked") /\ j[2] = 2
        BY <2>1, NoneBefore DEF DispatchBlocked
      <3>2. QED BY <3>1
    <2>2. CASE DispatchReady(j)
      <3>1. pipeline' = SetStatus(j, "running") /\ Row(j).status = "pending"
        BY <2>2 DEF DispatchReady, ListsInv
      <3>2. j[2] = 2 /\ Row(j).prev => pipeline[p].rows[1].status = "success"
        BY <2>2, MayStart DEF DispatchReady
      <3>3. QED BY <1>1, <3>1, <3>2
    <2>3. CASE PollEnded(j)
      <3>1. PICK s \in {"success", "failed"} : pipeline' = Finalized(j, s)
        BY <2>3 DEF PollEnded
      <3>2. Row(j).status = "running"
        BY <2>3 DEF PollEnded, ListsInv
      <3>3. j[2] = 1 => pipeline[p].rows[1].status # "success"
        BY <1>1, <3>2
      <3>4. pipeline[p].trigger = "push" /\ j[2] = 2 /\ Row(j).prev =>
                pipeline[p].rows[1].status = "success"
        BY <1>1, <3>2 DEF PipelineSound
      <3>5. QED BY <3>1, <3>3, <3>4
    <2>4. QED BY <2>1, <2>2, <2>3
  <1>3. PICK row : /\ ChangedRow(p, row) /\ row.sel = pipeline[p].sel
                   /\ SameJobs(pipeline[p], row)
                   /\ row.rows[j[2]].status = s
                   /\ \A i \in DOMAIN row.rows : i # j[2] => row.rows[i] = pipeline[p].rows[i]
                   /\ \A i \in DOMAIN row.rows : row.rows[i].status # "skipped"
    <2>1. s \in JobStatuses \ {"skipped"}
      BY DEF JobStatuses, ActiveStatuses, FinalStatuses
    <2>2. QED BY <1>2, <2>1, StatusChange
  <1>4. row.trigger = pipeline[p].trigger /\ row.w = pipeline[p].w /\ row.v = pipeline[p].v
    BY <1>3 DEF ChangedRow, SameCause
  <1>5. Len(row.rows) <= JobsOf(p)
    BY <1>1, <1>3 DEF SameJobs
  <1>6. 1 \in DOMAIN row.rows => ~row.rows[1].prev /\ row.rows[1].status # "blocked"
    <2>1. 1 \in DOMAIN row.rows => ~row.rows[1].prev
      BY <1>1, <1>3 DEF SameJobs, PipelineSound
    <2>2. CASE j[2] = 1
      BY <1>2, <1>3, <2>1, <2>2
    <2>3. CASE j[2] # 1
      BY <1>1, <1>3, <2>1, <2>3 DEF SameJobs, PipelineSound
    <2>4. QED BY <2>2, <2>3
  <1>7. (row.trigger # "rerun" /\ row.rows # <<>> /\ Def(row.w, row.v).promoted) => row.sel # 0
    <2>1. pipeline[p].rows # <<>>
      BY <1>1
    <2>2. QED BY <1>1, <1>3, <1>4, <2>1 DEF PipelineSound
  <1>8. ASSUME row.trigger = "push", 2 \in DOMAIN row.rows, row.rows[2].prev,
               row.rows[2].status \notin {"pending", "blocked"}
        PROVE  row.rows[1].status = "success"
    <2>1. DOMAIN row.rows = DOMAIN pipeline[p].rows /\ pipeline[p].rows[2].prev
      BY <1>3, <1>8 DEF SameJobs
    <2>2. 1 \in DOMAIN row.rows
      BY <1>1, <1>8, <2>1, FewRows
    <2>3. CASE j[2] = 2
      <3>1. pipeline[p].rows[1].status = "success"
        BY <1>1, <1>2, <1>3, <1>4, <1>8, <2>1, <2>3
      <3>2. row.rows[1] = pipeline[p].rows[1]
        BY <1>3, <2>2, <2>3
      <3>3. QED BY <3>1, <3>2
    <2>4. CASE j[2] = 1
      <3>1. row.rows[2] = pipeline[p].rows[2]
        BY <1>3, <1>8, <2>4
      <3>2. pipeline[p].rows[1].status = "success"
        BY <1>1, <1>4, <1>8, <2>1, <3>1 DEF PipelineSound
      <3>3. QED BY <1>2, <2>4, <3>2
    <2>5. QED BY <1>1, <2>3, <2>4
  <1>9. QED BY <1>3, <1>5, <1>6, <1>7, <1>8, SoundChange

(* Every step keeps the pipelines sound. *)
LEMMA PipelinesStep ==
    ASSUME VersionsInv, PipelinesInv, TasksInv, ListsInv, [Next]_vars
    PROVE  PipelinesInv'
  <1>1. CASE UNCHANGED pipeline
    <2>1. ASSUME NEW p \in DOMAIN pipeline
          PROVE  PipelineSound(p)'
      <3>1. SameCause(pipeline[p], pipeline'[p]) /\ pipeline'[p] = pipeline[p]
        BY <1>1 DEF SameCause
      <3>2. QED BY <3>1, SoundStays
    <2>2. QED BY <1>1, <2>1 DEF PipelinesInv
  <1>2. CASE TickBegins
    <2>1. ASSUME NEW p \in DOMAIN pipeline
          PROVE  PipelineSound(p)'
      BY <1>2, RecoverChange, SoundStays
    <2>2. QED BY <1>2, <2>1, RecoverChange DEF PipelinesInv
  <1>3. ASSUME NEW t \in Tasks, EnqueueStep(t)
        PROVE  PipelinesInv'
    <2>1. CASE EnqueueIncompatible(t) \/ EnqueueReport(t) \/ EnqueueDone(t)
      BY <1>1, <2>1 DEF EnqueueIncompatible, EnqueueReport, EnqueueDone, tables
    <2>2. QED BY <1>3, <2>1, EnqueueKeepsSound DEF EnqueueStep
  <1>4. ASSUME NEW j \in JobIds,
               \/ DispatchWait(j) \/ DispatchBlocked(j) \/ DispatchReady(j) \/ DispatchAborts(j)
               \/ PollRunning(j) \/ PollEnded(j)
        PROVE  PipelinesInv'
    <2>1. CASE DispatchWait(j) \/ DispatchAborts(j) \/ PollRunning(j)
      BY <1>1, <2>1 DEF DispatchWait, DispatchAborts, PollRunning, tables
    <2>2. QED BY <1>4, <2>1, StatusKeepsSound
  <1>5. ASSUME \/ ReadWorkflows \/ EnqueueForPush \/ mark_push_event_processed
               \/ DispatchList \/ PollList \/ TickEnds
               \/ \E k \in Pushes : create_push_event(k)
               \/ \E e \in Edits : update_workflow(e[1], e[2])
               \/ \E w \in Drifting, v \in 1..MaxVersions, r \in Reports : SchemaChanges(w, v, r)
        PROVE  UNCHANGED pipeline
    BY <1>5 DEF ReadWorkflows, EnqueueForPush, mark_push_event_processed,
       DispatchList, PollList, TickEnds, create_push_event, update_workflow, SchemaChanges, tables
  <1>6. ASSUME \/ Crash \/ \E t \in Tasks : EnqueueFails(t)
               \/ \E c \in Callers, w \in Workflows : run_workflow(c, w)
               \/ \E c \in Callers, p \in DOMAIN pipeline : rerun_pipeline(c, p)
               \/ UNCHANGED vars
        PROVE  UNCHANGED pipeline
    BY <1>6 DEF Crash, EnqueueFails, run_workflow, rerun_pipeline, tables, vars
  <1>7. QED BY <1>1, <1>2, <1>3, <1>4, <1>5, <1>6, Steps, ZenonT(30)

-----------------------------------------------------------------------------
(* Tasks stay sound *)

(* The task of the tick works for the first push that is listed. *)
LEMMA LoopPlace ==
    ASSUME TasksInv
    PROVE  /\ enq[Loop] # Idle => pc = "enqueue"
           /\ Making(Loop) => enq[Loop] # Idle
           /\ \A t \in Tasks : Making(t) => enq[t] # Idle /\ TaskSound(t) /\ MakingSound(t)
  <1>1. Loop \in Tasks
    BY DEF Tasks
  <1>2. enq[Loop] # Idle => pc = "enqueue"
    BY <1>1 DEF TasksInv, TaskSound
  <1>3. \A t \in Tasks : Making(t) => enq[t] # Idle
    BY TaskFields DEF Making
  <1>4. QED BY <1>1, <1>2, <1>3 DEF TasksInv

(* A task that does not move still inserts what it was asked for. *)
LEMMA TaskStays ==
    ASSUME VersionsInv, TasksInv, [Next]_vars, NEW t \in Tasks, enq'[t] = enq[t],
           (t = Loop /\ enq[t] # Idle) => UNCHANGED <<pc, events>>
    PROVE  TaskSound(t)'
  <1>1. CASE enq[t] = Idle
    BY <1>1 DEF TaskSound
  <1>2. CASE enq[t] # Idle
    <2>1. PICK w, v : w = enq[t].w /\ v = enq[t].v
      OBVIOUS
    <2>2. TaskSound(t) /\ w \in Workflows /\ v \in 1..Latest(w)
      BY <1>2, <2>1, TaskFields DEF TasksInv, TaskSound
    <2>3. v \in 1..Latest(w)' /\ Def(w, v)' = Def(w, v)
      BY <2>2, VersionsStep
    <2>4. /\ enq'[t].v \in 1..Len(versions'[enq'[t].w])
          /\ versions'[enq'[t].w][enq'[t].v] = versions[enq[t].w][enq[t].v]
      BY <2>1, <2>3 DEF Latest, Def
    <2>5. QED BY <1>2, <2>1, <2>2, <2>3 DEF TaskSound, Latest, Def
  <1>3. QED BY <1>1, <1>2

(* What another actor leaves of a pipeline that is being made. *)
LEMMA MakingStays ==
    ASSUME TasksInv, NEW t \in Tasks,
           Making(t)' => Making(t) /\ enq'[t] = enq[t],
           Making(t) => LET a == pipeline[enq[t].p]
                            b == pipeline'[enq[t].p]
                        IN  /\ enq[t].p \in DOMAIN pipeline'
                            /\ SameCause(a, b) /\ b.sel = a.sel /\ SameJobs(a, b)
                            /\ a.rows = <<>> => b.rows = <<>>
                            /\ t = Loop => b = a
    PROVE  MakingSound(t)'
  <1> SUFFICES ASSUME Making(t)'
               PROVE  MakingSound(t)'
    BY DEF MakingSound
  <1>1. Making(t) /\ enq'[t] = enq[t] /\ MakingSound(t)
    BY DEF TasksInv
  <1>2. PICK a, b, e : a = pipeline[enq[t].p] /\ b = pipeline'[enq[t].p] /\ e = enq[t]
    OBVIOUS
  <1>3. pipeline'[enq'[t].p] = b /\ enq'[t] = e /\ e.p \in DOMAIN pipeline'
    BY <1>1, <1>2
  <1>4. /\ SameCause(a, b) /\ b.sel = a.sel /\ SameJobs(a, b)
        /\ a.rows = <<>> => b.rows = <<>>
        /\ t = Loop => b = a
    BY <1>1, <1>2
  <1>5. /\ a.w = e.w /\ a.v = e.v /\ a.trigger = e.trigger
        /\ a.push = e.push /\ a.ref = e.ref
        /\ e.pc = "selections" => a.rows = <<>>
        /\ e.pc # "selections" => a.sel = e.sel
        /\ e.pc = "job" => (2 \in DOMAIN a.rows => a.rows[2].prev)
        /\ e.pc = "previous" => Len(a.rows) = 2
        /\ t = Loop => a.status = "running" /\ \A i \in DOMAIN a.rows : a.rows[i].status = "pending"
    BY <1>1, <1>2 DEF MakingSound
  <1>6. /\ b.w = e.w /\ b.v = e.v /\ b.trigger = e.trigger
        /\ b.push = e.push /\ b.ref = e.ref
    BY <1>4, <1>5 DEF SameCause
  <1>7. /\ e.pc = "job" => (2 \in DOMAIN b.rows => b.rows[2].prev)
        /\ e.pc = "previous" => Len(b.rows) = 2
    BY <1>4, <1>5 DEF SameJobs
  <1>8. t = Loop => b.status = "running" /\ \A i \in DOMAIN b.rows : b.rows[i].status = "pending"
    BY <1>4, <1>5
  <1>9. QED BY <1>3, <1>4, <1>5, <1>6, <1>7, <1>8 DEF MakingSound

(* A step that changes no task, and of the pipelines in the making only    *)
(* what MakingStays allows.                                                *)
LEMMA TasksStay ==
    ASSUME VersionsInv, TasksInv, [Next]_vars, UNCHANGED enq,
           enq[Loop] # Idle => UNCHANGED <<pc, events>>,
           \A t \in Tasks :
              Making(t) => LET a == pipeline[enq[t].p]
                               b == pipeline'[enq[t].p]
                           IN  /\ enq[t].p \in DOMAIN pipeline'
                               /\ SameCause(a, b) /\ b.sel = a.sel /\ SameJobs(a, b)
                               /\ a.rows = <<>> => b.rows = <<>>
                               /\ t = Loop => b = a
    PROVE  TasksInv'
  <1>1. ASSUME NEW t \in Tasks
        PROVE  TaskSound(t)'
    BY TaskStays
  <1>2. ASSUME NEW t \in Tasks
        PROVE  MakingSound(t)' /\ Making(t)' = Making(t)
    <2>1. Making(t)' = Making(t)
      BY DEF Making
    <2>2. QED BY <2>1, MakingStays
  <1>3. QED BY <1>1, <1>2 DEF TasksInv, Making

(* The tick, without what it enqueues. *)
LEMMA TickKeepsTasks ==
    ASSUME VersionsInv, PipelinesInv, TasksInv, ListsInv, [Next]_vars,
           \/ TickBegins \/ ReadWorkflows \/ mark_push_event_processed
           \/ DispatchList \/ PollList \/ TickEnds
           \/ \E j \in JobIds : \/ DispatchWait(j) \/ DispatchBlocked(j) \/ DispatchReady(j)
                                \/ DispatchAborts(j) \/ PollRunning(j) \/ PollEnded(j)
    PROVE  TasksInv'
  <1>1. UNCHANGED enq /\ enq[Loop] = Idle
    BY LoopPlace DEF TickBegins, ReadWorkflows, mark_push_event_processed,
       DispatchList, PollList, TickEnds, DispatchWait, DispatchBlocked, DispatchReady,
       DispatchAborts, PollRunning, PollEnded
  <1>2. ASSUME NEW t \in Tasks, Making(t)
        PROVE  t # Loop /\ enq[t].p \in DOMAIN pipeline
    BY <1>1, <1>2, LoopPlace DEF MakingSound
  <1>3. ASSUME NEW p \in DOMAIN pipeline
        PROVE  /\ p \in DOMAIN pipeline'
               /\ SameCause(pipeline[p], pipeline'[p]) /\ pipeline'[p].sel = pipeline[p].sel
               /\ SameJobs(pipeline[p], pipeline'[p])
               /\ pipeline[p].rows = <<>> => pipeline'[p].rows = <<>>
    <2>1. SameCause(pipeline[p], pipeline[p]) /\ SameJobs(pipeline[p], pipeline[p])
      BY DEF SameCause, SameJobs
    <2>2. CASE UNCHANGED pipeline
      BY <2>1, <2>2
    <2>3. CASE TickBegins
      <3>1. SameJobs(pipeline[p], pipeline'[p])
        BY <2>1, <2>3, RecoverChange DEF SameJobs
      <3>2. QED BY <2>3, <3>1, RecoverChange
    <2>4. ASSUME NEW j \in JobIds, DispatchBlocked(j) \/ DispatchReady(j) \/ PollEnded(j)
          PROVE  /\ p \in DOMAIN pipeline'
                 /\ SameCause(pipeline[p], pipeline'[p]) /\ pipeline'[p].sel = pipeline[p].sel
                 /\ SameJobs(pipeline[p], pipeline'[p])
                 /\ pipeline[p].rows = <<>> => pipeline'[p].rows = <<>>
      <3>1. PICK s \in {"blocked", "running", "success", "failed"} :
                pipeline' = SetStatus(j, s) \/ pipeline' = Finalized(j, s)
        BY <2>4 DEF DispatchBlocked, DispatchReady, PollEnded
      <3>2. s \in JobStatuses \ {"skipped"}
        BY DEF JobStatuses, ActiveStatuses, FinalStatuses
      <3>3. PICK row : ChangedRow(j[1], row) /\ row.sel = pipeline[j[1]].sel
                       /\ SameJobs(pipeline[j[1]], row)
        BY <3>1, <3>2, StatusChange
      <3>4. /\ pipeline'[j[1]] = row /\ DOMAIN pipeline' = DOMAIN pipeline
            /\ \A q \in DOMAIN pipeline \ {j[1]} : pipeline'[q] = pipeline[q]
        BY <3>3, RowChange
      <3>5. j[2] \in DOMAIN pipeline[j[1]].rows
        BY DEF JobIds
      <3>6. CASE p = j[1]
        BY <3>3, <3>4, <3>5, <3>6 DEF ChangedRow
      <3>7. CASE p # j[1]
        BY <2>1, <3>4, <3>7
      <3>8. QED BY <3>6, <3>7
    <2>5. ASSUME \/ ReadWorkflows \/ mark_push_event_processed
                 \/ DispatchList \/ PollList \/ TickEnds
                 \/ \E j \in JobIds : DispatchWait(j) \/ DispatchAborts(j) \/ PollRunning(j)
          PROVE  UNCHANGED pipeline
      BY <2>5 DEF ReadWorkflows, mark_push_event_processed, DispatchList, PollList, TickEnds,
         DispatchWait, DispatchAborts, PollRunning, tables
    <2>6. QED BY <2>2, <2>3, <2>4, <2>5
  <1>4. QED BY <1>1, <1>2, <1>3, TasksStay

(* Requests and the runs of a push. *)
LEMMA StartsKeepTasks ==
    ASSUME VersionsInv, PipelinesInv, TasksInv, EventsInv, ListsInv, [Next]_vars,
           \/ \E c \in Callers, w \in Workflows : run_workflow(c, w)
           \/ \E c \in Callers, p \in DOMAIN pipeline : rerun_pipeline(c, p)
           \/ EnqueueForPush
    PROVE  TasksInv'
  <1> DEFINE Started ==
        \E t \in Tasks, w \in Workflows, v \in Nat, trigger \in Reasons, k \in Pushes \cup {NoPush},
           ref \in RefNames \cup {"none"}, s \in Nat :
              /\ enq' = [enq EXCEPT ![t] = Enqueue(w, v, trigger, k, ref, s)]
              /\ v \in 1..Latest(w)
              /\ t # Loop => trigger # "push"
              /\ t = Loop => /\ pc = "enqueue" /\ trigger = "push" /\ k = Head(events)
                             /\ Def(w, v).kind = "push"
              /\ trigger = "manual" /\ Def(w, v).promoted => s # 0
              /\ enq[t] = Idle
  <1>1. Started
    <2>1. ASSUME NEW c \in Callers, NEW w \in Workflows, run_workflow(c, w)
          PROVE  Started
      <3>1. PICK s \in Selections(Def(w, Latest(w))) :
                enq' = [enq EXCEPT ![c] = Enqueue(w, Latest(w), "manual", NoPush, "none", s)]
        BY <2>1 DEF run_workflow
      <3>2. s \in Nat /\ (Def(w, Latest(w)).promoted => s # 0)
        BY <3>1 DEF Selections, Promotable, PipelinesInv
      <3>3. c \in Tasks /\ c # Loop /\ enq[c] = Idle
        BY <2>1, TasksAssumption DEF run_workflow, MayRequest, Tasks
      <3>4. Latest(w) \in Nat /\ Latest(w) \in 1..Latest(w)
        BY NextVersion
      <3>5. QED BY <3>1, <3>2, <3>3, <3>4 DEF Reasons
    <2>2. ASSUME NEW c \in Callers, NEW p \in DOMAIN pipeline, rerun_pipeline(c, p)
          PROVE  Started
      <3>1. c \in Tasks /\ c # Loop /\ enq[c] = Idle
            /\ enq' = [enq EXCEPT ![c] = Enqueue(pipeline[p].w, pipeline[p].v, "rerun", NoPush,
                                                 pipeline[p].ref, pipeline[p].sel)]
        BY <2>2, TasksAssumption DEF rerun_pipeline, MayRequest, Tasks
      <3>2. pipeline[p].v \in 1..Latest(pipeline[p].w)
        BY DEF PipelinesInv, PipelineSound
      <3>3. QED BY <3>1, <3>2, RowFields DEF Reasons
    <2>3. CASE EnqueueForPush
      <3>1. PICK r \in runs :
                enq' = [enq EXCEPT ![Loop] = Enqueue(r[1], r[2], "push", Head(events), r[3], 0)]
        BY <2>3 DEF EnqueueForPush
      <3>2. pc = "enqueue" /\ enq[Loop] = Idle /\ Head(events) \in Pushes
        BY <2>3 DEF EnqueueForPush, EventsInv
      <3>3. /\ r[1] \in Workflows /\ r[2] \in Nat /\ r[3] \in Refs[Head(events)]
            /\ r[2] \in 1..Latest(r[1]) /\ Def(r[1], r[2]).kind = "push"
        BY <3>1, <3>2 DEF ListsInv, Triggers
      <3>4. r[3] \in RefNames
        BY <3>2, <3>3 DEF RefNames
      <3>5. Loop \in Tasks
        BY DEF Tasks
      <3>6. QED BY <3>1, <3>2, <3>3, <3>4, <3>5 DEF Reasons
    <2>4. QED BY <2>1, <2>2, <2>3
  <1>2. PICK t \in Tasks, w \in Workflows, v \in Nat, trigger \in Reasons, k \in Pushes \cup {NoPush},
             ref \in RefNames \cup {"none"}, s \in Nat :
              /\ enq' = [enq EXCEPT ![t] = Enqueue(w, v, trigger, k, ref, s)]
              /\ v \in 1..Latest(w)
              /\ t # Loop => trigger # "push"
              /\ t = Loop => /\ pc = "enqueue" /\ trigger = "push" /\ k = Head(events)
                             /\ Def(w, v).kind = "push"
              /\ trigger = "manual" /\ Def(w, v).promoted => s # 0
              /\ enq[t] = Idle
    BY <1>1
  <1>3. UNCHANGED <<pipeline, pc, events>>
    BY DEF run_workflow, rerun_pipeline, EnqueueForPush, tables, tick
  <1>4. /\ enq' \in [Tasks -> EnqueueStates] /\ enq'[t] # Idle
        /\ enq'[t] = [pc |-> "report", w |-> w, v |-> v, trigger |-> trigger, push |-> k,
                      ref |-> ref, sel |-> s, p |-> 0]
        /\ \A u \in Tasks \ {t} : enq'[u] = enq[u]
    BY <1>2, TaskStarts
  <1>5. v \in 1..Latest(w)' /\ Def(w, v)' = Def(w, v)
    BY <1>2, VersionsStep
  <1>6. TaskSound(t)'
    <2>1. enq'[t].w = w /\ enq'[t].v = v /\ enq'[t].trigger = trigger /\ enq'[t].push = k
          /\ enq'[t].sel = s
      BY <1>4
    <2>2. QED BY <1>2, <1>3, <1>5, <2>1 DEF TaskSound, Latest, Def
  <1>7. ~Making(t)'
    BY <1>4 DEF Making
  <1>8. ASSUME NEW u \in Tasks \ {t}
        PROVE  TaskSound(u)' /\ MakingSound(u)' /\ Making(u)' = Making(u)
    <2>1. TaskSound(u)'
      BY <1>3, <1>4, TaskStays
    <2>2. Making(u)' = Making(u)
      BY <1>4 DEF Making
    <2>3. MakingSound(u)'
      <3>1. MakingSound(u) /\ enq'[u] = enq[u] /\ pipeline' = pipeline
        BY <1>3, <1>4 DEF TasksInv
      <3>2. QED BY <2>2, <3>1 DEF MakingSound
    <2>4. QED BY <2>1, <2>2, <2>3
  <1>9. MakingSound(t)'
    BY <1>7 DEF MakingSound
  <1>10. QED BY <1>4, <1>6, <1>7, <1>8, <1>9 DEF TasksInv, Making

(* Errors and crashes. *)
LEMMA FaultsKeepTasks ==
    ASSUME VersionsInv, TasksInv, [Next]_vars, Crash \/ \E t \in Tasks : EnqueueFails(t)
    PROVE  TasksInv'
  <1> DEFINE Stopped == /\ enq' \in [Tasks -> EnqueueStates] /\ UNCHANGED pipeline
                        /\ \A u \in Tasks : enq'[u] \in {Idle, enq[u]}
                        /\ enq'[Loop] = Idle \/ UNCHANGED <<pc, events>>
  <1>1. Stopped
    <2>1. CASE Crash
      BY <2>1 DEF Crash, EnqueueStates, tables, Tasks
    <2>2. ASSUME NEW t \in Tasks, EnqueueFails(t)
          PROVE  Stopped
      <3>1. enq' \in [Tasks -> EnqueueStates] /\ \A u \in Tasks : enq'[u] \in {Idle, enq[u]}
            /\ enq'[t] = Idle /\ UNCHANGED pipeline
        BY <2>2, TaskEnds DEF EnqueueFails, tables
      <3>2. t # Loop => UNCHANGED <<pc, events>>
        BY <2>2 DEF EnqueueFails, tick
      <3>3. QED BY <3>1, <3>2
    <2>3. QED BY <2>1, <2>2
  <1>2. ASSUME NEW u \in Tasks
        PROVE  TaskSound(u)'
    <2>1. CASE enq'[u] = Idle
      BY <2>1 DEF TaskSound
    <2>2. CASE enq'[u] # Idle
      BY <1>1, <2>2, TaskStays
    <2>3. QED BY <2>1, <2>2
  <1>3. ASSUME NEW u \in Tasks, Making(u)'
        PROVE  Making(u) /\ enq'[u] = enq[u]
    <2>1. Idle.pc = "idle"
      BY DEF Idle
    <2>2. QED BY <1>1, <1>3, <2>1 DEF Making
  <1>4. ASSUME NEW u \in Tasks
        PROVE  MakingSound(u)'
    BY <1>1, <1>3 DEF MakingSound, TasksInv
  <1>5. QED BY <1>1, <1>2, <1>3, <1>4 DEF TasksInv

(* A task that goes on with the same request stays sound. *)
LEMMA GoingOn ==
    ASSUME VersionsInv, TasksInv, [Next]_vars, NEW t \in Tasks,
           enq[t] # Idle, enq'[t].w = enq[t].w, enq'[t].v = enq[t].v,
           enq'[t].trigger = enq[t].trigger, enq'[t].push = enq[t].push,
           enq'[t].sel = enq[t].sel, UNCHANGED <<pc, events>>
    PROVE  TaskSound(t)'
  <1>1. PICK w, v : w = enq[t].w /\ v = enq[t].v
    OBVIOUS
  <1>2. TaskSound(t) /\ w \in Workflows /\ v \in 1..Latest(w)
    BY <1>1, TaskFields DEF TasksInv, TaskSound
  <1>3. v \in 1..Latest(w)' /\ Def(w, v)' = Def(w, v)
    BY <1>2, VersionsStep
  <1>4. enq'[t].w = w /\ enq'[t].v = v
    BY <1>1
  <1>5. QED BY <1>1, <1>2, <1>3, <1>4 DEF TaskSound, Latest, Def

(* The steps of an enqueue leave the other tasks alone. *)
LEMMA EnqueueKeepsTasks ==
    ASSUME VersionsInv, PipelinesInv, TasksInv, [Next]_vars, NEW t \in Tasks, EnqueueStep(t)
    PROVE  TasksInv'
  <1> DEFINE e == enq[t]
             OthersStay ==
                \A u \in Tasks \ {t} : Making(u) =>
                    enq[u].p \in DOMAIN pipeline' /\ pipeline'[enq[u].p] = pipeline[enq[u].p]
  <1>1. UNCHANGED <<pc, events>>
    BY DEF EnqueueStep, EnqueueIncompatible, EnqueueReport, create_pipeline_run,
       add_workflow_run_artifact_selections, create_job_run, add_previous_job, EnqueueDone,
       tables, tick
  <1>2. TaskSound(t) /\ MakingSound(t)
    BY DEF TasksInv
  (* What the other tasks have in their hands is not touched. *)
  <1>3. ASSUME \A u \in Tasks \ {t} : enq'[u] = enq[u], OthersStay, NEW u \in Tasks \ {t}
        PROVE  TaskSound(u)' /\ MakingSound(u)' /\ Making(u)' = Making(u)
    <2>1. TaskSound(u)'
      BY <1>1, <1>3, TaskStays
    <2>2. Making(u)' = Making(u)
      BY <1>3 DEF Making
    <2>3. \A a : SameCause(a, a) /\ SameJobs(a, a)
      BY DEF SameCause, SameJobs
    <2>4. MakingSound(u)'
      BY <1>3, <2>2, <2>3, MakingStays
    <2>5. QED BY <2>1, <2>2, <2>4
  <1>4. CASE EnqueueIncompatible(t) \/ EnqueueDone(t)
    <2>1. /\ enq' \in [Tasks -> EnqueueStates] /\ enq'[t] = Idle
          /\ \A u \in Tasks \ {t} : enq'[u] = enq[u]
      BY <1>4, TaskEnds DEF EnqueueIncompatible, EnqueueDone
    <2>2. OthersStay
      <3>1. UNCHANGED pipeline
        BY <1>4 DEF EnqueueIncompatible, EnqueueDone, tables
      <3>2. QED BY <3>1 DEF TasksInv, MakingSound
    <2>3. TaskSound(t)' /\ ~Making(t)'
      BY <2>1 DEF TaskSound, Making, Idle
    <2>4. MakingSound(t)'
      BY <2>3 DEF MakingSound
    <2>5. QED BY <1>3, <2>1, <2>2, <2>3, <2>4 DEF TasksInv, Making
  <1>5. CASE EnqueueReport(t)
    <2>1. e.pc = "report" /\ e # Idle /\ e.p \in Nat
          /\ enq' = [enq EXCEPT ![t].pc = "pipeline"] /\ UNCHANGED pipeline
      BY <1>5, TaskFields DEF EnqueueReport, tables, Idle
    <2>2. enq' = [enq EXCEPT ![t] = [enq[t] EXCEPT !.pc = "pipeline", !.p = enq[t].p]]
      BY <2>1, TaskFields DEF TasksInv, EnqueueStates
    <2>3. /\ enq' \in [Tasks -> EnqueueStates] /\ enq'[t] # Idle /\ enq'[t].pc = "pipeline"
          /\ enq'[t].w = e.w /\ enq'[t].v = e.v /\ enq'[t].trigger = e.trigger
          /\ enq'[t].push = e.push /\ enq'[t].sel = e.sel
          /\ \A u \in Tasks \ {t} : enq'[u] = enq[u]
      BY <2>1, <2>2, TaskMoves
    <2>4. OthersStay
      BY <2>1 DEF TasksInv, MakingSound
    <2>5. TaskSound(t)'
      BY <1>1, <2>1, <2>3, GoingOn
    <2>6. ~Making(t)' /\ MakingSound(t)'
      BY <2>3 DEF Making, MakingSound
    <2>7. QED BY <1>3, <2>3, <2>4, <2>5, <2>6 DEF TasksInv, Making
  <1>6. CASE create_pipeline_run(t)
    <2>1. e.pc = "pipeline" /\ e # Idle /\ Len(pipeline) + 1 \in Nat
          /\ pipeline \in Seq(PipelineRow)
      BY <1>6, TaskFields DEF create_pipeline_run, PipelinesInv, Idle
    <2>2. enq' = [enq EXCEPT ![t] = [enq[t] EXCEPT !.pc = "selections", !.p = Len(pipeline) + 1]]
      BY <1>6, <2>1, TaskFields DEF create_pipeline_run, TasksInv, EnqueueStates
    <2>3. /\ enq' \in [Tasks -> EnqueueStates] /\ enq'[t] # Idle /\ enq'[t].pc = "selections"
          /\ enq'[t].p = Len(pipeline) + 1 /\ enq'[t].ref = e.ref
          /\ enq'[t].w = e.w /\ enq'[t].v = e.v /\ enq'[t].trigger = e.trigger
          /\ enq'[t].push = e.push /\ enq'[t].sel = e.sel
          /\ \A u \in Tasks \ {t} : enq'[u] = enq[u]
      BY <2>1, <2>2, TaskMoves, ZenonT(40)
    <2>4. PICK row : row = [w |-> e.w, v |-> e.v, trigger |-> e.trigger, push |-> e.push,
                            ref |-> e.ref, sel |-> 0, status |-> "running", rows |-> <<>>]
      OBVIOUS
    <2>5. /\ row.w = e.w /\ row.v = e.v /\ row.trigger = e.trigger /\ row.push = e.push
          /\ row.ref = e.ref /\ row.status = "running" /\ row.rows = <<>>
          /\ row \in PipelineRow
      BY <2>1, <2>4, TaskFields DEF PipelineRow, PipelineStatuses, ActiveStatuses
    <2>6. pipeline' = Append(pipeline, row)
      BY <1>6, <2>4 DEF create_pipeline_run
    <2>7. /\ DOMAIN pipeline' = 1..(Len(pipeline) + 1) /\ DOMAIN pipeline = 1..Len(pipeline)
          /\ pipeline'[Len(pipeline) + 1] = row
          /\ \A q \in DOMAIN pipeline : pipeline'[q] = pipeline[q]
      BY <2>1, <2>5, <2>6
    <2>8. \A u \in Tasks : Making(u) => enq[u].p \in DOMAIN pipeline
      BY DEF TasksInv, MakingSound
    <2>9. OthersStay
      BY <2>1, <2>7, <2>8
    <2>10. TaskSound(t)'
      BY <1>1, <2>1, <2>3, GoingOn
    <2>11. MakingSound(t)'
      <3>1. pipeline'[enq'[t].p] = row /\ enq'[t].p \in DOMAIN pipeline'
        BY <2>1, <2>3, <2>7
      <3>2. DOMAIN row.rows = {}
        BY <2>5
      <3>3. QED BY <2>3, <2>5, <3>1, <3>2 DEF MakingSound
    <2>12. ASSUME NEW u \in Tasks \ {t}, Making(u)'
           PROVE  enq'[u].p # enq'[t].p
      <3>1. Making(u)
        BY <1>3, <2>3, <2>9, <2>12
      <3>2. enq[u].p # Len(pipeline) + 1
        BY <2>1, <2>7, <2>8, <3>1
      <3>3. QED BY <2>3, <3>2
    <2>13. QED BY <1>3, <2>3, <2>9, <2>10, <2>11, <2>12 DEF TasksInv, Making
  (* The steps on the pipeline that the task has in its hands. *)
  <1>7. ASSUME NEW x \in {"job", "previous"}, NEW row, Making(t), ChangedRow(e.p, row),
               enq' = [enq EXCEPT ![t].pc = x], row.sel = e.sel,
               row.status = pipeline[e.p].status,
               x = "job" => (2 \in DOMAIN row.rows => row.rows[2].prev),
               x = "previous" => Len(row.rows) = 2,
               t = Loop => \A i \in DOMAIN row.rows : row.rows[i].status = "pending"
        PROVE  TasksInv'
    <2>1. e # Idle /\ e.p \in Nat
      BY <1>7, LoopPlace, TaskFields
    <2>2. enq' = [enq EXCEPT ![t] = [enq[t] EXCEPT !.pc = x, !.p = enq[t].p]]
      BY <1>7, <2>1, TaskFields DEF TasksInv, EnqueueStates
    <2>3. /\ enq' \in [Tasks -> EnqueueStates] /\ enq'[t] # Idle /\ enq'[t].pc = x
          /\ enq'[t].p = e.p /\ enq'[t].ref = e.ref
          /\ enq'[t].w = e.w /\ enq'[t].v = e.v /\ enq'[t].trigger = e.trigger
          /\ enq'[t].push = e.push /\ enq'[t].sel = e.sel
          /\ \A u \in Tasks \ {t} : enq'[u] = enq[u]
      BY <2>1, <2>2, TaskMoves, ZenonT(40)
    <2>4. /\ pipeline'[e.p] = row /\ DOMAIN pipeline' = DOMAIN pipeline /\ e.p \in DOMAIN pipeline
          /\ \A q \in DOMAIN pipeline \ {e.p} : pipeline'[q] = pipeline[q]
      BY <1>7, RowChange DEF ChangedRow
    <2>5. \A u \in Tasks \ {t} : Making(u) => enq[u].p \in DOMAIN pipeline /\ enq[u].p # e.p
      BY <1>7 DEF TasksInv, MakingSound
    <2>6. OthersStay
      BY <2>4, <2>5
    <2>7. TaskSound(t)'
      BY <1>1, <2>1, <2>3, GoingOn
    <2>8. MakingSound(t)'
      <3>1. pipeline'[enq'[t].p] = row /\ enq'[t].p \in DOMAIN pipeline'
        BY <2>3, <2>4
      <3>2. /\ row.w = e.w /\ row.v = e.v /\ row.trigger = e.trigger
            /\ row.push = e.push /\ row.ref = e.ref
            /\ t = Loop => row.status = "running"
        BY <1>2, <1>7 DEF ChangedRow, SameCause, MakingSound
      <3>3. QED BY <1>7, <2>3, <3>1, <3>2 DEF MakingSound
    <2>9. ASSUME NEW u \in Tasks \ {t}, Making(u)'
          PROVE  enq'[u].p # enq'[t].p
      BY <1>3, <2>3, <2>5, <2>6, <2>9
    <2>10. QED BY <1>3, <2>3, <2>6, <2>7, <2>8, <2>9 DEF TasksInv, Making
  <1>8. CASE add_workflow_run_artifact_selections(t)
    <2>1. PICK row : /\ ChangedRow(e.p, row) /\ row.sel = e.sel
                     /\ row.status = pipeline[e.p].status /\ row.rows = pipeline[e.p].rows
      BY <1>8, SelectionsChange
    <2>2. Making(t) /\ e.pc = "selections" /\ enq' = [enq EXCEPT ![t].pc = "job"]
      BY <1>8 DEF add_workflow_run_artifact_selections, Making
    <2>3. DOMAIN row.rows = {}
      BY <1>2, <2>1, <2>2 DEF MakingSound
    <2>4. QED BY <1>7, <2>1, <2>2, <2>3
  <1>9. CASE create_job_run(t)
    <2>1. PICK row : /\ ChangedRow(e.p, row) /\ row.sel = pipeline[e.p].sel
                     /\ row.status = pipeline[e.p].status
                     /\ row.rows = Append(pipeline[e.p].rows, NewJob)
      BY <1>9, JobChange
    <2>2. PICK x : x = IF pipeline[e.p].rows = <<>> THEN "job" ELSE "previous"
      OBVIOUS
    <2>3. Making(t) /\ e.pc = "job" /\ enq' = [enq EXCEPT ![t].pc = x]
          /\ Len(pipeline[e.p].rows) < JobsOf(e.p) /\ e.p \in DOMAIN pipeline
      BY <1>2, <1>9, <2>2 DEF create_job_run, Making, MakingSound
    <2>4. PICK rows : rows = pipeline[e.p].rows /\ rows \in Seq(Job) /\ Len(rows) \in {0, 1}
                      /\ (rows = <<>> <=> Len(rows) = 0)
      <3>1. PICK rows : rows = pipeline[e.p].rows
        OBVIOUS
      <3>2. rows \in Seq(Job) /\ JobsOf(e.p) \in {1, 2} /\ Len(rows) < JobsOf(e.p)
        BY <2>3, <3>1, FewRows, RowFields
      <3>3. Len(rows) \in Nat /\ (rows = <<>> <=> Len(rows) = 0)
        BY <3>2
      <3>4. Len(rows) \in {0, 1}
        <4>1. PICK n, m : n = JobsOf(e.p) /\ m = Len(rows)
          OBVIOUS
        <4>2. n \in {1, 2} /\ m \in Nat /\ m < n
          BY <3>2, <3>3, <4>1
        <4>3. m \in {0, 1}
          BY <4>2
        <4>4. QED BY <4>1, <4>3
      <3>5. QED BY <3>1, <3>2, <3>3, <3>4
    <2>5. NewJob \in Job /\ NewJob.status = "pending"
      BY DEF NewJob, Job, JobStatuses
    <2>6. /\ Len(row.rows) = Len(rows) + 1 /\ DOMAIN row.rows = 1..Len(row.rows)
          /\ row.rows[Len(row.rows)] = NewJob /\ \A i \in DOMAIN rows : row.rows[i] = rows[i]
      <3>1. NewJob \in Job /\ rows \in Seq(Job)
        BY <2>4, <2>5
      <3>2. /\ Len(Append(rows, NewJob)) = Len(rows) + 1
            /\ DOMAIN Append(rows, NewJob) = 1..Len(Append(rows, NewJob))
            /\ Append(rows, NewJob)[Len(Append(rows, NewJob))] = NewJob
            /\ \A i \in DOMAIN rows : Append(rows, NewJob)[i] = rows[i]
        BY <3>1, Appended
      <3>3. QED BY <2>1, <2>4, <3>2
    <2>7. row.sel = e.sel
      BY <1>2, <2>1, <2>3 DEF MakingSound
    <2>8. ASSUME t = Loop
          PROVE  \A i \in DOMAIN row.rows : row.rows[i].status = "pending"
      <3>1. \A i \in DOMAIN rows : rows[i].status = "pending"
        BY <1>2, <2>3, <2>4, <2>8 DEF MakingSound
      <3>2. DOMAIN rows = 1..Len(rows)
        BY <2>4
      <3>3. QED BY <2>4, <2>5, <2>6, <3>1, <3>2
    <2>9. /\ x \in {"job", "previous"}
          /\ x = "job" => (2 \in DOMAIN row.rows => row.rows[2].prev)
          /\ x = "previous" => Len(row.rows) = 2
      BY <2>2, <2>4, <2>6
    <2>10. QED BY <1>7, <2>1, <2>3, <2>7, <2>8, <2>9
  <1>10. CASE add_previous_job(t)
    <2>1. PICK row : /\ ChangedRow(e.p, row) /\ row.sel = pipeline[e.p].sel
                     /\ row.status = pipeline[e.p].status
                     /\ Len(pipeline[e.p].rows) = 2 /\ Len(row.rows) = 2
                     /\ row.rows[1] = pipeline[e.p].rows[1] /\ row.rows[2].prev
                     /\ row.rows[2].status = pipeline[e.p].rows[2].status
      BY <1>10, PreviousChange
    <2>2. Making(t) /\ e.pc = "previous" /\ enq' = [enq EXCEPT ![t].pc = "job"]
      BY <1>10 DEF add_previous_job, Making
    <2>3. row.sel = e.sel /\ e.p \in DOMAIN pipeline
      BY <1>2, <2>1, <2>2 DEF MakingSound
    <2>4. DOMAIN row.rows = {1, 2} /\ DOMAIN pipeline[e.p].rows = {1, 2}
      <3>1. row.rows \in Seq(Job) /\ pipeline[e.p].rows \in Seq(Job)
        BY <2>1, <2>3, RowFields DEF ChangedRow, PipelineRow
      <3>2. QED BY <2>1, <3>1
    <2>5. t = Loop => \A i \in DOMAIN row.rows : row.rows[i].status = "pending"
      BY <1>2, <2>1, <2>2, <2>4 DEF MakingSound
    <2>6. QED BY <1>7, <2>1, <2>2, <2>3, <2>5
  <1>11. QED BY <1>4, <1>5, <1>6, <1>8, <1>9, <1>10 DEF EnqueueStep

(* Every step keeps the tasks sound. *)
LEMMA TasksStep ==
    ASSUME VersionsInv, PipelinesInv, TasksInv, EventsInv, ListsInv, [Next]_vars
    PROVE  TasksInv'
  <1>1. ASSUME \/ \E k \in Pushes : create_push_event(k)
               \/ \E e \in Edits : update_workflow(e[1], e[2])
               \/ \E w \in Drifting, v \in 1..MaxVersions, r \in Reports : SchemaChanges(w, v, r)
               \/ UNCHANGED vars
        PROVE  TasksInv'
    <2>1. UNCHANGED <<enq, pipeline, pc, events>>
      BY <1>1 DEF create_push_event, update_workflow, SchemaChanges, tables, tick, vars
    <2>2. \A a : SameCause(a, a) /\ SameJobs(a, a)
      BY DEF SameCause, SameJobs
    <2>3. \A t \in Tasks : Making(t) => enq[t].p \in DOMAIN pipeline
      BY DEF TasksInv, MakingSound
    <2>4. QED BY <2>1, <2>2, <2>3, TasksStay
  <1>2. QED
    BY <1>1, TickKeepsTasks, StartsKeepTasks, FaultsKeepTasks, EnqueueKeepsTasks, Steps

-----------------------------------------------------------------------------
(* The lists of the tick *)

(* A step of anyone but the tick leaves the jobs that are listed. *)
JobsStay ==
    \A j \in JobIds : j \in JobIds' /\ Row(j)'.status = Row(j).status

(* An enqueue changes no status. *)
LEMMA EnqueueKeepsJobs ==
    ASSUME VersionsInv, PipelinesInv, TasksInv, NEW t \in Tasks, EnqueueStep(t)
    PROVE  JobsStay
  <1> DEFINE p == enq[t].p
  <1>1. CASE UNCHANGED pipeline
    BY <1>1 DEF JobsStay, JobIds, Row
  <1>2. CASE create_pipeline_run(t)
    <2>1. PICK row : pipeline' = Append(pipeline, row)
      BY <1>2 DEF create_pipeline_run
    <2>2. pipeline \in Seq(PipelineRow)
      BY DEF PipelinesInv
    <2>3. \A q \in DOMAIN pipeline : q \in DOMAIN pipeline' /\ pipeline'[q] = pipeline[q]
      BY <2>1, <2>2
    <2>4. QED BY <2>3 DEF JobsStay, JobIds, Row
  <1>3. ASSUME NEW row, ChangedRow(p, row), DOMAIN pipeline[p].rows \subseteq DOMAIN row.rows,
               \A i \in DOMAIN pipeline[p].rows : row.rows[i].status = pipeline[p].rows[i].status
        PROVE  JobsStay
    <2>1. /\ pipeline'[p] = row /\ DOMAIN pipeline' = DOMAIN pipeline
          /\ \A q \in DOMAIN pipeline \ {p} : pipeline'[q] = pipeline[q]
      BY <1>3, RowChange
    <2>2. ASSUME NEW j \in JobIds
          PROVE  j \in JobIds' /\ Row(j)'.status = Row(j).status
      <3>1. j \in (DOMAIN pipeline) \X {1, 2} /\ j[2] \in DOMAIN pipeline[j[1]].rows
        BY DEF JobIds
      <3>2. CASE j[1] = p
        BY <1>3, <2>1, <3>1, <3>2 DEF JobIds, Row
      <3>3. CASE j[1] # p
        BY <2>1, <3>1, <3>3 DEF JobIds, Row
      <3>4. QED BY <3>2, <3>3
    <2>3. QED BY <2>2 DEF JobsStay
  <1>4. CASE add_workflow_run_artifact_selections(t)
    BY <1>3, <1>4, SelectionsChange
  <1>5. CASE create_job_run(t)
    <2>1. PICK row : ChangedRow(p, row) /\ row.rows = Append(pipeline[p].rows, NewJob)
      BY <1>5, JobChange
    <2>2. pipeline[p].rows \in Seq(Job) /\ NewJob \in Job
      BY <2>1, RowFields DEF ChangedRow, NewJob, Job, JobStatuses
    <2>3. DOMAIN pipeline[p].rows \subseteq DOMAIN row.rows
          /\ \A i \in DOMAIN pipeline[p].rows : row.rows[i] = pipeline[p].rows[i]
      BY <2>1, <2>2
    <2>4. QED BY <1>3, <2>1, <2>3
  <1>6. CASE add_previous_job(t)
    <2>1. PICK row : /\ ChangedRow(p, row)
                     /\ Len(pipeline[p].rows) = 2 /\ Len(row.rows) = 2
                     /\ row.rows[1] = pipeline[p].rows[1]
                     /\ row.rows[2].status = pipeline[p].rows[2].status
      BY <1>6, PreviousChange
    <2>2. row.rows \in Seq(Job) /\ pipeline[p].rows \in Seq(Job)
      BY <2>1, RowFields DEF ChangedRow, PipelineRow
    <2>3. DOMAIN row.rows = {1, 2} /\ DOMAIN pipeline[p].rows = {1, 2}
      BY <2>1, <2>2
    <2>4. QED BY <1>3, <2>1, <2>3
  <1>7. CASE EnqueueIncompatible(t) \/ EnqueueReport(t) \/ EnqueueDone(t)
    BY <1>1, <1>7 DEF EnqueueIncompatible, EnqueueReport, EnqueueDone, tables
  <1>8. QED BY <1>2, <1>4, <1>5, <1>6, <1>7 DEF EnqueueStep

(* What an action of another actor leaves of the lists. *)
LEMMA ListsStay ==
    ASSUME VersionsInv, TasksInv, ListsInv, [Next]_vars, JobsStay, UNCHANGED tick,
           enq[Loop]' # Idle => /\ enq[Loop] # Idle
                                /\ enq[Loop].w = enq[Loop]'.w /\ enq[Loop].ref = enq[Loop]'.ref
    PROVE  ListsInv'
  <1>1. UNCHANGED <<pc, events, runs, snap>>
    BY DEF tick
  <1>2. /\ snap' \subseteq JobIds'
        /\ pc' = "dispatch" => \A j \in snap' : Row(j)'.status = "pending"
        /\ pc' = "poll" => \A j \in snap' : Row(j)'.status = "running"
    BY <1>1 DEF ListsInv, JobsStay
  <1>3. ASSUME pc = "enqueue", NEW r \in runs
        PROVE  r[2] \in 1..Latest(r[1])' /\ Def(r[1], r[2])' = Def(r[1], r[2])
    <2>1. r[1] \in Workflows /\ r[2] \in 1..Latest(r[1])
      BY <1>3 DEF ListsInv
    <2>2. QED BY <2>1, VersionsStep
  <1>4. ASSUME pc = "enqueue", NEW r \in runs
        PROVE  Triggers(Def(r[1], r[2]), r[3])'
    BY <1>3, <1>4 DEF ListsInv, Triggers, matches_branch
  <1>5. QED BY <1>1, <1>2, <1>3, <1>4 DEF ListsInv

(* The steps of the tick between its lists. *)
LEMMA TickKeepsLists ==
    ASSUME VersionsInv, PipelinesInv, EventsInv, TasksInv, ListsInv, [Next]_vars,
           \/ TickBegins \/ ReadWorkflows \/ EnqueueForPush \/ mark_push_event_processed
           \/ DispatchList \/ PollList \/ TickEnds
    PROVE  ListsInv'
  <1>1. CASE TickBegins
    <2>1. pc' = "events" /\ snap' = snap
      BY <1>1 DEF TickBegins
    <2>2. JobIds' = JobIds
      BY <1>1, RecoverChange DEF JobIds
    <2>3. QED BY <2>1, <2>2 DEF ListsInv
  <1>2. CASE ReadWorkflows
    <2>1. /\ UNCHANGED <<pipeline, snap, versions, events, enq>> /\ pc' = "enqueue" /\ pc = "events"
          /\ runs' = {<<r[1], Latest(r[1]), r[2]>> :
                        r \in {q \in Workflows \X Refs[Head(events)] :
                                  Triggers(Def(q[1], Latest(q[1])), q[2])}}
      BY <1>2 DEF ReadWorkflows, tables
    <2>2. snap' \subseteq JobIds'
      BY <2>1 DEF ListsInv, JobIds
    <2>3. \A r \in runs' : /\ r[1] \in Workflows /\ r[2] = Latest(r[1]) /\ r[2] \in 1..Latest(r[1])
                           /\ r[2] \in Nat
                           /\ r[3] \in Refs[Head(events)] /\ r = <<r[1], r[2], r[3]>>
                           /\ Triggers(Def(r[1], r[2]), r[3])
      BY <2>1, NextVersion
    <2>4. \A r \in runs' : r[2] \in 1..Latest(r[1])' /\ Triggers(Def(r[1], r[2]), r[3])'
      BY <2>1, <2>3 DEF Latest, Def, Triggers, matches_branch
    <2>5. \A r, q \in runs' : r[1] = q[1] /\ r[3] = q[3] => r = q
      BY <2>3
    <2>6. runs' \subseteq Workflows \X Nat \X Refs[Head(events)]
      BY <2>3
    <2>7. enq'[Loop] = Idle
      BY <2>1, LoopPlace
    <2>8. QED BY <2>1, <2>2, <2>4, <2>5, <2>6, <2>7 DEF ListsInv
  <1>3. CASE EnqueueForPush
    <2>1. PICK r \in runs : runs' = runs \ {r} /\
                enq' = [enq EXCEPT ![Loop] = Enqueue(r[1], r[2], "push", Head(events), r[3], 0)]
      BY <1>3 DEF EnqueueForPush
    <2>2. UNCHANGED <<pipeline, versions, pc, events, snap>> /\ pc = "enqueue"
      BY <1>3 DEF EnqueueForPush, tables
    <2>3. enq'[Loop].w = r[1] /\ enq'[Loop].ref = r[3]
      BY <2>1 DEF TasksInv, Enqueue, Tasks
    <2>4. \A q \in runs' : q[1] # r[1] \/ q[3] # r[3]
      BY <2>1, <2>2 DEF ListsInv
    <2>5. snap' \subseteq JobIds'
      BY <2>2 DEF ListsInv, JobIds
    <2>6. \A q \in runs' : q[2] \in 1..Latest(q[1])' /\ Triggers(Def(q[1], q[2]), q[3])'
      BY <2>1, <2>2 DEF ListsInv, Latest, Def, Triggers, matches_branch
    <2>7. QED BY <2>1, <2>2, <2>3, <2>4, <2>5, <2>6 DEF ListsInv
  <1>4. CASE mark_push_event_processed \/ TickEnds
    <2>1. UNCHANGED <<pipeline, snap>> /\ pc' \in {"idle", "events"}
      BY <1>4 DEF mark_push_event_processed, TickEnds, tables
    <2>2. QED BY <2>1 DEF ListsInv, JobIds
  <1>5. CASE DispatchList \/ PollList
    <2>1. /\ UNCHANGED pipeline
          /\ \/ pc' = "dispatch" /\ snap' = WithStatus({"pending"})
             \/ pc' = "poll" /\ snap' = WithStatus({"running"})
      BY <1>5 DEF DispatchList, PollList, tables
    <2>2. JobIds' = JobIds /\ \A j \in JobIds : Row(j)' = Row(j)
      BY <2>1 DEF JobIds, Row
    <2>3. QED BY <2>1, <2>2 DEF ListsInv, WithStatus
  <1>6. QED BY <1>1, <1>2, <1>3, <1>4, <1>5

(* A job whose status changes leaves the list. *)
LEMMA JobsKeepLists ==
    ASSUME VersionsInv, PipelinesInv, ListsInv, NEW j \in JobIds,
           \/ DispatchWait(j) \/ DispatchBlocked(j) \/ DispatchReady(j)
           \/ DispatchAborts(j) \/ PollRunning(j) \/ PollEnded(j)
    PROVE  ListsInv'
  <1>1. CASE DispatchAborts(j)
    BY <1>1 DEF DispatchAborts, ListsInv
  <1>2. CASE DispatchWait(j) \/ PollRunning(j)
    <2>1. UNCHANGED <<pipeline, pc>> /\ snap' = snap \ {j} /\ pc \in {"dispatch", "poll"}
      BY <1>2 DEF DispatchWait, PollRunning, tables
    <2>2. JobIds' = JobIds /\ \A i \in JobIds : Row(i)' = Row(i)
      BY <2>1 DEF JobIds, Row
    <2>3. QED BY <2>1, <2>2 DEF ListsInv
  <1>3. CASE DispatchBlocked(j) \/ DispatchReady(j) \/ PollEnded(j)
    <2>1. PICK s \in {"blocked", "running", "success", "failed"} :
              pipeline' = SetStatus(j, s) \/ pipeline' = Finalized(j, s)
      BY <1>3 DEF DispatchBlocked, DispatchReady, PollEnded
    <2>2. UNCHANGED pc /\ snap' = snap \ {j} /\ pc \in {"dispatch", "poll"}
      BY <1>3 DEF DispatchBlocked, DispatchReady, PollEnded
    <2>3. s \in JobStatuses \ {"skipped"}
      BY DEF JobStatuses, ActiveStatuses, FinalStatuses
    <2>4. PICK row : /\ ChangedRow(j[1], row) /\ SameJobs(pipeline[j[1]], row)
                     /\ \A i \in DOMAIN row.rows : i # j[2] => row.rows[i] = pipeline[j[1]].rows[i]
      BY <2>1, <2>3, StatusChange
    <2>5. /\ pipeline'[j[1]] = row /\ DOMAIN pipeline' = DOMAIN pipeline
          /\ \A q \in DOMAIN pipeline \ {j[1]} : pipeline'[q] = pipeline[q]
      BY <2>4, RowChange
    <2>6. ASSUME NEW i \in JobIds \ {j}
          PROVE  i \in JobIds' /\ Row(i)' = Row(i)
      <3>1. /\ i \in (DOMAIN pipeline) \X {1, 2} /\ i[2] \in DOMAIN pipeline[i[1]].rows
            /\ j \in (DOMAIN pipeline) \X {1, 2}
        BY DEF JobIds
      <3>2. CASE i[1] = j[1]
        <4>1. i[2] # j[2]
          BY <3>1, <3>2
        <4>2. QED BY <2>4, <2>5, <3>1, <3>2, <4>1 DEF JobIds, Row, SameJobs
      <3>3. CASE i[1] # j[1]
        BY <2>5, <3>1, <3>3 DEF JobIds, Row
      <3>4. QED BY <3>2, <3>3
    <2>7. QED BY <2>2, <2>6 DEF ListsInv
  <1>4. QED BY <1>1, <1>2, <1>3

(* The task of an enqueue stays with its workflow and ref. *)
LEMMA EnqueueStays ==
    ASSUME TasksInv, NEW t \in Tasks, EnqueueStep(t)
    PROVE  /\ UNCHANGED <<tick, changes, faults>>
           /\ enq[t] # Idle
           /\ \A u \in Tasks \ {t} : enq'[u] = enq[u]
           /\ enq'[t] # Idle => /\ enq'[t].w = enq[t].w /\ enq'[t].ref = enq[t].ref
                                /\ enq'[t].push = enq[t].push
  <1>1. UNCHANGED <<tick, changes, faults>>
    <2>1. CASE EnqueueIncompatible(t) \/ EnqueueReport(t)
      BY <2>1 DEF EnqueueIncompatible, EnqueueReport
    <2>2. CASE create_pipeline_run(t)
      BY <2>2 DEF create_pipeline_run
    <2>3. CASE add_workflow_run_artifact_selections(t)
      BY <2>3 DEF add_workflow_run_artifact_selections
    <2>4. CASE create_job_run(t)
      BY <2>4 DEF create_job_run
    <2>5. CASE add_previous_job(t)
      BY <2>5 DEF add_previous_job
    <2>6. CASE EnqueueDone(t)
      BY <2>6 DEF EnqueueDone
    <2>7. QED BY <2>1, <2>2, <2>3, <2>4, <2>5, <2>6 DEF EnqueueStep
  <1>2. enq[t] # Idle
    <2>1. enq[t].pc \in {"report", "pipeline", "selections", "job", "previous"}
      BY DEF EnqueueStep, EnqueueIncompatible, EnqueueReport, create_pipeline_run,
         add_workflow_run_artifact_selections, create_job_run, add_previous_job, EnqueueDone
    <2>2. QED BY <2>1 DEF Idle
  <1>3. CASE EnqueueIncompatible(t) \/ EnqueueDone(t)
    BY <1>1, <1>2, <1>3, TaskEnds DEF EnqueueIncompatible, EnqueueDone
  <1>4. ASSUME NEW e, enq' = [enq EXCEPT ![t] = e],
               e.w = enq[t].w, e.ref = enq[t].ref, e.push = enq[t].push
        PROVE  /\ \A u \in Tasks \ {t} : enq'[u] = enq[u]
               /\ enq'[t].w = enq[t].w /\ enq'[t].ref = enq[t].ref /\ enq'[t].push = enq[t].push
    BY <1>4 DEF TasksInv
  <1>5. ASSUME NEW x, enq' = [enq EXCEPT ![t].pc = x]
        PROVE  /\ \A u \in Tasks \ {t} : enq'[u] = enq[u]
               /\ enq'[t].w = enq[t].w /\ enq'[t].ref = enq[t].ref /\ enq'[t].push = enq[t].push
    <2>1. PICK e : e = [enq[t] EXCEPT !.pc = x]
      OBVIOUS
    <2>2. enq' = [enq EXCEPT ![t] = e]
      BY <1>5, <2>1
    <2>3. e.w = enq[t].w /\ e.ref = enq[t].ref /\ e.push = enq[t].push
      BY <1>2, <2>1 DEF TasksInv, EnqueueStates
    <2>4. QED BY <1>4, <2>2, <2>3
  <1>6. CASE create_pipeline_run(t)
    <2>1. PICK e : e = [enq[t] EXCEPT !.pc = "selections", !.p = Len(pipeline) + 1]
      OBVIOUS
    <2>2. enq' = [enq EXCEPT ![t] = e]
      BY <1>6, <2>1 DEF create_pipeline_run, TasksInv
    <2>3. e.w = enq[t].w /\ e.ref = enq[t].ref /\ e.push = enq[t].push
      BY <1>2, <2>1 DEF TasksInv, EnqueueStates
    <2>4. QED BY <1>1, <1>2, <1>4, <2>2, <2>3
  <1>7. CASE \/ EnqueueReport(t) \/ add_workflow_run_artifact_selections(t)
             \/ create_job_run(t) \/ add_previous_job(t)
    <2>1. \E x : enq' = [enq EXCEPT ![t].pc = x]
      BY <1>7 DEF EnqueueReport, add_workflow_run_artifact_selections, create_job_run,
         add_previous_job
    <2>2. QED BY <1>1, <1>2, <1>5, <2>1
  <1>8. QED BY <1>3, <1>6, <1>7 DEF EnqueueStep

(* Every step keeps the lists of the tick sound. *)
LEMMA ListsStep ==
    ASSUME VersionsInv, PipelinesInv, EventsInv, TasksInv, ListsInv, [Next]_vars
    PROVE  ListsInv'
  <1>1. ASSUME NEW t \in Tasks, EnqueueStep(t)
        PROVE  ListsInv'
    <2>1. JobsStay
      BY <1>1, EnqueueKeepsJobs
    <2>2. enq[Loop]' # Idle => /\ enq[Loop] # Idle
                               /\ enq[Loop].w = enq[Loop]'.w /\ enq[Loop].ref = enq[Loop]'.ref
      BY <1>1, EnqueueStays DEF Tasks
    <2>3. UNCHANGED tick
      BY <1>1, EnqueueStays
    <2>4. QED BY <2>1, <2>2, <2>3, ListsStay
  <1>2. ASSUME UNCHANGED <<pipeline, tick>>, enq'[Loop] = enq[Loop]
        PROVE  ListsInv'
    <2>1. JobsStay
      BY <1>2 DEF JobsStay, JobIds, Row
    <2>2. QED BY <1>2, <2>1, ListsStay
  <1>3. ASSUME \/ \E k \in Pushes : create_push_event(k)
               \/ \E e \in Edits : update_workflow(e[1], e[2])
               \/ \E w \in Drifting, v \in 1..MaxVersions, r \in Reports : SchemaChanges(w, v, r)
               \/ \E c \in Callers, w \in Workflows : run_workflow(c, w)
               \/ \E c \in Callers, p \in DOMAIN pipeline : rerun_pipeline(c, p)
               \/ \E t \in Callers : EnqueueFails(t)
               \/ UNCHANGED vars
        PROVE  UNCHANGED <<pipeline, tick>> /\ enq'[Loop] = enq[Loop]
    BY <1>3, TasksAssumption DEF create_push_event, update_workflow, SchemaChanges, run_workflow,
       rerun_pipeline, EnqueueFails, tables, vars, TasksInv, Tasks
  <1>4. CASE Crash \/ EnqueueFails(Loop)
    <2>1. UNCHANGED pipeline /\ snap' = {} /\ pc' = "idle"
      BY <1>4 DEF Crash, EnqueueFails, tables
    <2>2. QED BY <2>1 DEF ListsInv
  <1>5. ASSUME NEW t \in Tasks, EnqueueFails(t)
        PROVE  ListsInv'
    BY <1>2, <1>3, <1>4, <1>5 DEF Tasks
  <1>6. QED
    BY <1>1, <1>2, <1>3, <1>4, <1>5, TickKeepsLists, JobsKeepLists, Steps, ZenonT(60)

(* Changes and faults are counted. *)
LEMMA BoundsStep ==
    ASSUME TasksInv, BoundsInv, [Next]_vars
    PROVE  BoundsInv'
  <1>1. ASSUME NEW t \in Tasks, EnqueueStep(t)
        PROVE  BoundsInv'
    BY <1>1, EnqueueStays DEF BoundsInv
  <1>2. ASSUME \/ \E k \in Pushes : create_push_event(k)
               \/ \E c \in Callers, w \in Workflows : run_workflow(c, w)
               \/ \E c \in Callers, p \in DOMAIN pipeline : rerun_pipeline(c, p)
               \/ TickBegins \/ ReadWorkflows \/ EnqueueForPush \/ mark_push_event_processed
               \/ DispatchList \/ PollList \/ TickEnds
               \/ \E j \in JobIds : \/ DispatchWait(j) \/ DispatchBlocked(j) \/ DispatchReady(j)
                                    \/ DispatchAborts(j) \/ PollRunning(j) \/ PollEnded(j)
               \/ UNCHANGED vars
        PROVE  UNCHANGED <<changes, faults>>
    BY <1>2 DEF create_push_event, run_workflow, rerun_pipeline, TickBegins, ReadWorkflows,
       EnqueueForPush, mark_push_event_processed, DispatchList, PollList, TickEnds, DispatchWait,
       DispatchBlocked, DispatchReady, DispatchAborts, PollRunning, PollEnded, vars
  <1>3. ASSUME \/ \E e \in Edits : update_workflow(e[1], e[2])
               \/ \E w \in Drifting, v \in 1..MaxVersions, r \in Reports : SchemaChanges(w, v, r)
        PROVE  BoundsInv'
    BY <1>3, IntakeBounds DEF update_workflow, SchemaChanges, BoundsInv
  <1>4. ASSUME Crash \/ \E t \in Tasks : EnqueueFails(t)
        PROVE  BoundsInv'
    BY <1>4, IntakeBounds DEF Crash, EnqueueFails, BoundsInv
  <1>5. UNCHANGED <<changes, faults>> => BoundsInv'
    BY DEF BoundsInv
  <1>6. QED BY <1>1, <1>2, <1>3, <1>4, <1>5, Steps, ZenonT(60)

(* A step has at most one fault. *)
LEMMA FaultsGrow ==
    ASSUME TasksInv, BoundsInv, [Next]_vars
    PROVE  faults' = faults \/ faults' = faults + 1
  <1>1. ASSUME NEW t \in Tasks, EnqueueStep(t)
        PROVE  UNCHANGED faults
    BY <1>1, EnqueueStays
  <1>2. ASSUME \/ \E k \in Pushes : create_push_event(k)
               \/ \E e \in Edits : update_workflow(e[1], e[2])
               \/ \E w \in Drifting, v \in 1..MaxVersions, r \in Reports : SchemaChanges(w, v, r)
               \/ \E c \in Callers, w \in Workflows : run_workflow(c, w)
               \/ \E c \in Callers, p \in DOMAIN pipeline : rerun_pipeline(c, p)
               \/ TickBegins \/ ReadWorkflows \/ EnqueueForPush \/ mark_push_event_processed
               \/ DispatchList \/ PollList \/ TickEnds
               \/ \E j \in JobIds : \/ DispatchWait(j) \/ DispatchBlocked(j) \/ DispatchReady(j)
                                    \/ DispatchAborts(j) \/ PollRunning(j) \/ PollEnded(j)
               \/ UNCHANGED vars
        PROVE  UNCHANGED faults
    BY <1>2 DEF create_push_event, update_workflow, SchemaChanges, run_workflow, rerun_pipeline,
       TickBegins, ReadWorkflows,
       EnqueueForPush, mark_push_event_processed, DispatchList, PollList, TickEnds, DispatchWait,
       DispatchBlocked, DispatchReady, DispatchAborts, PollRunning, PollEnded, vars
  <1>3. ASSUME Crash \/ \E t \in Tasks : EnqueueFails(t)
        PROVE  faults' = faults + 1
    BY <1>3 DEF Crash, EnqueueFails
  <1>4. QED BY <1>1, <1>2, <1>3, Steps, ZenonT(60)

-----------------------------------------------------------------------------
(* What is complete stays complete, and what was made stays made *)

(* A pipeline is whole however the statuses of its jobs change. *)
LEMMA WholeSame ==
    ASSUME VersionsInv, PipelinesInv, [Next]_vars, NEW p \in DOMAIN pipeline,
           SameCause(pipeline[p], pipeline'[p]), SameJobs(pipeline[p], pipeline'[p]), Whole(p)
    PROVE  Whole(p)'
  <1>1. PICK w, v : w = pipeline[p].w /\ v = pipeline[p].v
    OBVIOUS
  <1>2. w \in Workflows /\ v \in 1..Latest(w)
    BY <1>1, RowFields DEF PipelinesInv, PipelineSound
  <1>3. Def(w, v)' = Def(w, v)
    BY <1>2, VersionsStep
  <1>4. pipeline'[p].w = w /\ pipeline'[p].v = v
    BY <1>1 DEF SameCause
  <1>5. JobsOf(p)' = JobsOf(p)
    BY <1>1, <1>3, <1>4 DEF JobsOf, Def
  <1>6. QED BY <1>5 DEF Whole, SameJobs

(* The jobs of a pipeline that is whole are no longer inserted. *)
LEMMA WholeStays ==
    ASSUME VersionsInv, PipelinesInv, TasksInv, ListsInv, [Next]_vars, NEW p \in DOMAIN pipeline
    PROVE  /\ p \in DOMAIN pipeline' /\ SameCause(pipeline[p], pipeline'[p])
           /\ Whole(p) => Whole(p)'
  <1> DEFINE Goal == /\ p \in DOMAIN pipeline' /\ SameCause(pipeline[p], pipeline'[p])
                     /\ Whole(p) => Whole(p)'
  <1>1. SameCause(pipeline[p], pipeline[p]) /\ SameJobs(pipeline[p], pipeline[p])
    BY DEF SameCause, SameJobs
  <1>2. CASE p \in DOMAIN pipeline' /\ pipeline'[p] = pipeline[p]
    BY <1>1, <1>2, WholeSame
  <1>3. CASE TickBegins
    <2>1. SameJobs(pipeline[p], pipeline'[p])
      BY <1>1, <1>3, RecoverChange DEF SameJobs
    <2>2. QED BY <1>3, <2>1, RecoverChange, WholeSame
  <1>4. ASSUME NEW q, NEW row, ChangedRow(q, row), SameJobs(pipeline[q], row)
        PROVE  Goal
    <2>1. p \in DOMAIN pipeline' /\ (p = q => pipeline'[p] = row)
          /\ (p # q => pipeline'[p] = pipeline[p])
      BY <1>4, RowChange
    <2>2. CASE p = q
      BY <1>4, <2>1, <2>2, WholeSame DEF ChangedRow
    <2>3. QED BY <1>2, <2>1, <2>2
  <1>5. ASSUME NEW j \in JobIds, DispatchBlocked(j) \/ DispatchReady(j) \/ PollEnded(j)
        PROVE  Goal
    <2>1. PICK s \in {"blocked", "running", "success", "failed"} :
              pipeline' = SetStatus(j, s) \/ pipeline' = Finalized(j, s)
      BY <1>5 DEF DispatchBlocked, DispatchReady, PollEnded
    <2>2. s \in JobStatuses \ {"skipped"}
      BY DEF JobStatuses, ActiveStatuses, FinalStatuses
    <2>3. QED BY <1>4, <2>1, <2>2, StatusChange
  <1>6. ASSUME NEW t \in Tasks, EnqueueStep(t)
        PROVE  Goal
    <2>1. CASE EnqueueIncompatible(t) \/ EnqueueReport(t) \/ EnqueueDone(t)
      BY <1>2, <2>1 DEF EnqueueIncompatible, EnqueueReport, EnqueueDone, tables
    <2>2. CASE create_pipeline_run(t)
      <3>1. PICK row : pipeline' = Append(pipeline, row)
        BY <2>2 DEF create_pipeline_run
      <3>2. pipeline \in Seq(PipelineRow)
        BY DEF PipelinesInv
      <3>3. p \in DOMAIN pipeline' /\ pipeline'[p] = pipeline[p]
        BY <3>1, <3>2
      <3>4. QED BY <1>2, <3>3
    <2>3. CASE add_workflow_run_artifact_selections(t)
      <3>1. PICK row : ChangedRow(enq[t].p, row) /\ row.rows = pipeline[enq[t].p].rows
        BY <2>3, SelectionsChange
      <3>2. SameJobs(pipeline[enq[t].p], row)
        BY <3>1 DEF SameJobs
      <3>3. QED BY <1>4, <3>1, <3>2
    <2>4. CASE create_job_run(t)
      <3>1. PICK row : ChangedRow(enq[t].p, row)
        BY <2>4, JobChange
      <3>2. p \in DOMAIN pipeline' /\ (p = enq[t].p => pipeline'[p] = row)
            /\ (p # enq[t].p => pipeline'[p] = pipeline[p])
        BY <3>1, RowChange
      <3>3. CASE p = enq[t].p
        <4>1. ~Whole(p)
          BY <2>4, <3>3, FewRows DEF create_job_run, Whole
        <4>2. QED BY <3>1, <3>2, <3>3, <4>1 DEF ChangedRow
      <3>4. QED BY <1>2, <3>2, <3>3
    <2>5. CASE add_previous_job(t)
      <3>1. PICK row : /\ ChangedRow(enq[t].p, row)
                       /\ Len(pipeline[enq[t].p].rows) = 2 /\ Len(row.rows) = 2
                       /\ row.rows[1] = pipeline[enq[t].p].rows[1] /\ row.rows[2].prev
        BY <2>5, PreviousChange
      <3>2. p \in DOMAIN pipeline' /\ (p = enq[t].p => pipeline'[p] = row)
            /\ (p # enq[t].p => pipeline'[p] = pipeline[p])
        BY <3>1, RowChange
      <3>3. CASE p = enq[t].p
        <4>1. row.rows \in Seq(Job) /\ pipeline[p].rows \in Seq(Job)
          BY <3>1, RowFields DEF ChangedRow, PipelineRow
        <4>2. DOMAIN row.rows = {1, 2} /\ DOMAIN pipeline[p].rows = {1, 2}
          BY <3>1, <3>3, <4>1
        <4>3. row.rows[2].prev = TRUE
          <5>1. row.rows[2] \in Job
            BY <4>1, <4>2
          <5>2. row.rows[2].prev \in BOOLEAN /\ row.rows[2].prev
            BY <3>1, <5>1 DEF Job
          <5>3. QED BY <5>2
        <4>4. ASSUME Whole(p)
              PROVE  SameJobs(pipeline[p], row)
          <5>1. pipeline[p].rows[2].prev = TRUE
            <6>1. pipeline[p].rows[2].prev = (2 > 1)
              BY <4>2, <4>4 DEF Whole
            <6>2. (2 > 1) = TRUE
              OBVIOUS
            <6>3. QED BY <6>1, <6>2
          <5>2. pipeline[p].rows[2].prev = row.rows[2].prev
            BY <4>3, <5>1
          <5>3. QED BY <3>1, <3>3, <4>2, <5>2 DEF SameJobs
        <4>5. QED BY <3>1, <3>2, <3>3, <4>4, WholeSame DEF ChangedRow
      <3>4. QED BY <1>2, <3>2, <3>3
    <2>6. QED BY <1>6, <2>1, <2>2, <2>3, <2>4, <2>5 DEF EnqueueStep
  <1>7. ASSUME \/ ReadWorkflows \/ EnqueueForPush \/ mark_push_event_processed
               \/ DispatchList \/ PollList \/ TickEnds
               \/ \E j \in JobIds : DispatchWait(j) \/ DispatchAborts(j) \/ PollRunning(j)
               \/ \E k \in Pushes : create_push_event(k)
               \/ \E e \in Edits : update_workflow(e[1], e[2])
               \/ \E w \in Drifting, v \in 1..MaxVersions, r \in Reports : SchemaChanges(w, v, r)
        PROVE  UNCHANGED pipeline
    BY <1>7 DEF ReadWorkflows, EnqueueForPush, mark_push_event_processed, DispatchList, PollList,
       TickEnds, DispatchWait, DispatchAborts, PollRunning, create_push_event, update_workflow,
       SchemaChanges, tables
  <1>8. ASSUME \/ Crash \/ \E t \in Tasks : EnqueueFails(t)
               \/ \E c \in Callers, w \in Workflows : run_workflow(c, w)
               \/ \E c \in Callers, q \in DOMAIN pipeline : rerun_pipeline(c, q)
               \/ UNCHANGED vars
        PROVE  UNCHANGED pipeline
    BY <1>8 DEF Crash, EnqueueFails, run_workflow, rerun_pipeline, tables, vars
  <1>9. QED BY <1>2, <1>3, <1>5, <1>6, <1>7, <1>8, Steps, ZenonT(60)

(* Only the tick makes pipelines for pushes. *)
LEMMA NewPipeline ==
    ASSUME VersionsInv, PipelinesInv, TasksInv, ListsInv, [Next]_vars,
           NEW p \in DOMAIN pipeline', p \notin DOMAIN pipeline
    PROVE  \E t \in Tasks :
              /\ create_pipeline_run(t) /\ p = Len(pipeline) + 1 /\ enq'[t].p = p /\ Making(t)'
              /\ pipeline'[p].w = enq[t].w /\ pipeline'[p].trigger = enq[t].trigger
              /\ pipeline'[p].push = enq[t].push /\ pipeline'[p].ref = enq[t].ref
              /\ pipeline'[p].status = "running"
              /\ DOMAIN pipeline' = DOMAIN pipeline \cup {p}
  <1>1. PICK t \in Tasks : create_pipeline_run(t)
    <2>1. UNCHANGED pipeline => FALSE
      OBVIOUS
    <2>2. ASSUME NEW j \in JobIds, DispatchBlocked(j) \/ DispatchReady(j) \/ PollEnded(j)
          PROVE  FALSE
      <3>1. PICK s \in {"blocked", "running", "success", "failed"} :
                pipeline' = SetStatus(j, s) \/ pipeline' = Finalized(j, s)
        BY <2>2 DEF DispatchBlocked, DispatchReady, PollEnded
      <3>2. s \in JobStatuses \ {"skipped"}
        BY DEF JobStatuses, ActiveStatuses, FinalStatuses
      <3>3. QED BY <3>1, <3>2, StatusChange, RowChange
    <2>3. CASE TickBegins
      BY <2>3, RecoverChange
    <2>4. ASSUME NEW t \in Tasks, \/ EnqueueIncompatible(t) \/ EnqueueReport(t) \/ EnqueueDone(t)
                                  \/ add_workflow_run_artifact_selections(t)
                                  \/ create_job_run(t) \/ add_previous_job(t)
          PROVE  FALSE
      <3>1. CASE EnqueueIncompatible(t) \/ EnqueueReport(t) \/ EnqueueDone(t)
        BY <2>1, <3>1 DEF EnqueueIncompatible, EnqueueReport, EnqueueDone, tables
      <3>2. CASE \/ add_workflow_run_artifact_selections(t)
                 \/ create_job_run(t) \/ add_previous_job(t)
        <4>1. \E row : ChangedRow(enq[t].p, row)
          BY <3>2, SelectionsChange, JobChange, PreviousChange
        <4>2. QED BY <4>1, RowChange
      <3>3. QED BY <2>4, <3>1, <3>2
    <2>5. ASSUME NEW t \in Tasks, EnqueueStep(t)
          PROVE  create_pipeline_run(t)
      BY <2>4, <2>5 DEF EnqueueStep
    <2>6. ASSUME \/ ReadWorkflows \/ EnqueueForPush \/ mark_push_event_processed
                 \/ DispatchList \/ PollList \/ TickEnds
                 \/ \E j \in JobIds : DispatchWait(j) \/ DispatchAborts(j) \/ PollRunning(j)
                 \/ \E k \in Pushes : create_push_event(k)
                 \/ \E e \in Edits : update_workflow(e[1], e[2])
                 \/ \E w \in Drifting, v \in 1..MaxVersions, r \in Reports : SchemaChanges(w, v, r)
          PROVE  UNCHANGED pipeline
      BY <2>6 DEF ReadWorkflows, EnqueueForPush, mark_push_event_processed, DispatchList, PollList,
         TickEnds, DispatchWait, DispatchAborts, PollRunning, create_push_event, update_workflow,
         SchemaChanges, tables
    <2>7. ASSUME \/ Crash \/ \E t \in Tasks : EnqueueFails(t)
                 \/ \E c \in Callers, w \in Workflows : run_workflow(c, w)
                 \/ \E c \in Callers, q \in DOMAIN pipeline : rerun_pipeline(c, q)
                 \/ UNCHANGED vars
          PROVE  UNCHANGED pipeline
      BY <2>7 DEF Crash, EnqueueFails, run_workflow, rerun_pipeline, tables, vars
    <2>8. QED BY <2>1, <2>2, <2>3, <2>5, <2>6, <2>7, Steps, ZenonT(60)
  <1>2. PICK row : row = [w |-> enq[t].w, v |-> enq[t].v, trigger |-> enq[t].trigger,
                          push |-> enq[t].push, ref |-> enq[t].ref, sel |-> 0,
                          status |-> "running", rows |-> <<>>]
    OBVIOUS
  <1>3. pipeline' = Append(pipeline, row) /\ pipeline \in Seq(PipelineRow)
    BY <1>1, <1>2 DEF create_pipeline_run, PipelinesInv
  <1>4. /\ DOMAIN pipeline' = DOMAIN pipeline \cup {Len(pipeline) + 1}
        /\ pipeline'[Len(pipeline) + 1] = row /\ p = Len(pipeline) + 1
    BY <1>3
  <1>5. Making(t)' /\ enq'[t].p = Len(pipeline) + 1
    <2>1. enq[t] # Idle
      BY <1>1 DEF create_pipeline_run, Idle
    <2>2. PICK e : e = [enq[t] EXCEPT !.pc = "selections", !.p = Len(pipeline) + 1]
      OBVIOUS
    <2>3. enq'[t].pc = "selections" /\ enq'[t].p = Len(pipeline) + 1
      <3>1. enq' = [enq EXCEPT ![t] = e] /\ t \in Tasks
        BY <1>1, <2>2 DEF create_pipeline_run, TasksInv
      <3>2. enq[t] \in EnqueueStates \ {Idle}
        BY <1>1, <2>1 DEF TasksInv
      <3>3. e.pc = "selections" /\ e.p = Len(pipeline) + 1
        BY <2>2, <3>2 DEF EnqueueStates
      <3>4. QED BY <3>1, <3>3 DEF TasksInv
    <2>4. QED BY <2>3 DEF Making
  <1>6. QED BY <1>1, <1>2, <1>4, <1>5

-----------------------------------------------------------------------------
(* Pipelines of pushes are not judged before they are whole *)

(* A pipeline shown as a success is as it was, or all its jobs succeeded,  *)
(* or it was a success while a job was still to run or to be inserted.     *)
LEMMA Judged ==
    ASSUME VersionsInv, PipelinesInv, TasksInv, ListsInv, [Next]_vars, NEW p \in DOMAIN pipeline,
           pipeline'[p].status = "success"
    PROVE  \/ pipeline'[p] = pipeline[p]
           \/ pipeline'[p].status = pipeline[p].status /\ pipeline'[p].rows = pipeline[p].rows
           \/ \A i \in DOMAIN pipeline'[p].rows : pipeline'[p].rows[i].status = "success"
           \/ \E i \in DOMAIN pipeline[p].rows :
                 pipeline[p].status = "success" /\ pipeline[p].rows[i].status # "success"
           \/ \E t \in Tasks : /\ Making(t) /\ enq[t].p = p
                               /\ pipeline[p].status = "success"
  <1> DEFINE Goal ==
               \/ pipeline'[p] = pipeline[p]
               \/ pipeline'[p].status = pipeline[p].status /\ pipeline'[p].rows = pipeline[p].rows
               \/ \A i \in DOMAIN pipeline'[p].rows : pipeline'[p].rows[i].status = "success"
               \/ \E i \in DOMAIN pipeline[p].rows :
                     pipeline[p].status = "success" /\ pipeline[p].rows[i].status # "success"
               \/ \E t \in Tasks : /\ Making(t) /\ enq[t].p = p
                                   /\ pipeline[p].status = "success"
  <1>1. CASE TickBegins
    <2>1. pipeline'[p].status \in {"running", pipeline[p].status}
          /\ pipeline'[p].rows = pipeline[p].rows
      BY <1>1, RecoverChange
    <2>2. QED BY <2>1
  <1>2. ASSUME NEW j \in JobIds, DispatchBlocked(j) \/ DispatchReady(j) \/ PollEnded(j)
        PROVE  Goal
    <2>1. PICK s \in {"blocked", "running", "success", "failed"} :
              pipeline' = SetStatus(j, s) \/ pipeline' = Finalized(j, s)
      BY <1>2 DEF DispatchBlocked, DispatchReady, PollEnded
    <2>2. s \in JobStatuses \ {"skipped"}
      BY DEF JobStatuses, ActiveStatuses, FinalStatuses
    <2>3. PICK row :
              /\ ChangedRow(j[1], row)
              /\ \/ pipeline' = SetStatus(j, s) /\ row.status = pipeline[j[1]].status
                 \/ row.status = "success" =>
                       \A i \in DOMAIN row.rows : row.rows[i].status = "success"
      BY <2>1, <2>2, StatusChange
    <2>4. /\ p = j[1] => pipeline'[p] = row
          /\ p # j[1] => pipeline'[p] = pipeline[p]
      BY <2>3, RowChange
    <2>5. Row(j).status \in {"pending", "running"}
      BY <1>2 DEF ListsInv, DispatchBlocked, DispatchReady, PollEnded
    <2>6. j[2] \in DOMAIN pipeline[j[1]].rows /\ pipeline[j[1]].rows[j[2]].status # "success"
      BY <2>5 DEF JobIds, Row
    <2>7. QED BY <2>3, <2>4, <2>6
  <1>3. ASSUME NEW t \in Tasks, EnqueueStep(t)
        PROVE  Goal
    <2>1. CASE EnqueueIncompatible(t) \/ EnqueueReport(t) \/ EnqueueDone(t)
      BY <2>1 DEF EnqueueIncompatible, EnqueueReport, EnqueueDone, tables
    <2>2. CASE create_pipeline_run(t)
      <3>1. PICK row : pipeline' = Append(pipeline, row)
        BY <2>2 DEF create_pipeline_run
      <3>2. pipeline \in Seq(PipelineRow)
        BY DEF PipelinesInv
      <3>3. QED BY <3>1, <3>2
    <2>3. CASE \/ add_workflow_run_artifact_selections(t)
               \/ create_job_run(t) \/ add_previous_job(t)
      <3>1. PICK row : ChangedRow(enq[t].p, row) /\ row.status = pipeline[enq[t].p].status
        BY <2>3, SelectionsChange, JobChange, PreviousChange
      <3>2. /\ p = enq[t].p => pipeline'[p] = row
            /\ p # enq[t].p => pipeline'[p] = pipeline[p]
        BY <3>1, RowChange
      <3>3. Making(t)
        BY <2>3 DEF add_workflow_run_artifact_selections, create_job_run, add_previous_job, Making
      <3>4. QED BY <3>1, <3>2, <3>3
    <2>4. QED BY <1>3, <2>1, <2>2, <2>3 DEF EnqueueStep
  <1>4. ASSUME \/ ReadWorkflows \/ EnqueueForPush \/ mark_push_event_processed
               \/ DispatchList \/ PollList \/ TickEnds
               \/ \E j \in JobIds : DispatchWait(j) \/ DispatchAborts(j) \/ PollRunning(j)
               \/ \E k \in Pushes : create_push_event(k)
               \/ \E e \in Edits : update_workflow(e[1], e[2])
               \/ \E w \in Drifting, v \in 1..MaxVersions, r \in Reports : SchemaChanges(w, v, r)
        PROVE  pipeline'[p] = pipeline[p]
    BY <1>4 DEF ReadWorkflows, EnqueueForPush, mark_push_event_processed, DispatchList, PollList,
       TickEnds, DispatchWait, DispatchAborts, PollRunning, create_push_event, update_workflow,
       SchemaChanges, tables
  <1>5. ASSUME \/ Crash \/ \E t \in Tasks : EnqueueFails(t)
               \/ \E c \in Callers, w \in Workflows : run_workflow(c, w)
               \/ \E c \in Callers, q \in DOMAIN pipeline : rerun_pipeline(c, q)
               \/ UNCHANGED vars
        PROVE  pipeline'[p] = pipeline[p]
    BY <1>5 DEF Crash, EnqueueFails, run_workflow, rerun_pipeline, tables, vars
  <1>6. QED BY <1>1, <1>2, <1>3, <1>4, <1>5, Steps, ZenonT(60)

(* While nothing fails, the tick goes on with the pipeline it is making    *)
(* until it is whole.                                                      *)
LEMMA MakingGoesOn ==
    ASSUME VersionsInv, PipelinesInv, TasksInv, [Next]_vars, Making(Loop), faults' = faults,
           BoundsInv
    PROVE  (Making(Loop)' /\ enq'[Loop].p = enq[Loop].p) \/ Whole(enq[Loop].p)
  <1> DEFINE Goal == (Making(Loop)' /\ enq'[Loop].p = enq[Loop].p) \/ Whole(enq[Loop].p)
  <1>1. Loop \in Tasks /\ enq[Loop] # Idle /\ MakingSound(Loop) /\ pc = "enqueue"
    BY LoopPlace DEF Tasks
  <1>2. CASE enq'[Loop] = enq[Loop]
    BY <1>2 DEF Making
  <1>3. CASE EnqueueDone(Loop)
    <2>1. PICK p : p = enq[Loop].p /\ p \in DOMAIN pipeline
      BY <1>1 DEF MakingSound
    <2>2. Len(pipeline[p].rows) = JobsOf(p) /\ enq[Loop].pc = "job"
      BY <1>3, <2>1 DEF EnqueueDone
    <2>3. 2 \in DOMAIN pipeline[p].rows => pipeline[p].rows[2].prev
      BY <1>1, <2>1, <2>2 DEF MakingSound
    <2>4. 1 \in DOMAIN pipeline[p].rows => ~pipeline[p].rows[1].prev
      BY <2>1 DEF PipelinesInv, PipelineSound
    <2>5. ASSUME NEW i \in DOMAIN pipeline[p].rows
          PROVE  pipeline[p].rows[i].prev = (i > 1)
      <3>1. pipeline[p].rows[i] \in Job /\ i \in {1, 2}
        BY <2>1, FewRows
      <3>2. pipeline[p].rows[i].prev \in BOOLEAN
        BY <3>1 DEF Job
      <3>3. CASE i = 1
        <4>1. pipeline[p].rows[i].prev = FALSE /\ (1 > 1) = FALSE
          BY <2>4, <3>2, <3>3
        <4>2. QED BY <3>3, <4>1
      <3>4. CASE i = 2
        <4>1. pipeline[p].rows[i].prev = TRUE /\ (2 > 1) = TRUE
          BY <2>3, <3>2, <3>4
        <4>2. QED BY <3>4, <4>1
      <3>5. QED BY <3>1, <3>3, <3>4
    <2>6. QED BY <2>1, <2>2, <2>5 DEF Whole
  <1>4. ASSUME NEW x \in {"job", "previous"}, enq' = [enq EXCEPT ![Loop].pc = x]
        PROVE  Goal
    <2>1. PICK e : e = [enq[Loop] EXCEPT !.pc = x]
      OBVIOUS
    <2>2. enq'[Loop].pc = x /\ enq'[Loop].p = enq[Loop].p
      <3>1. enq' = [enq EXCEPT ![Loop] = e]
        BY <1>4, <2>1
      <3>2. enq[Loop] \in EnqueueStates \ {Idle}
        BY <1>1 DEF TasksInv
      <3>3. e.pc = x /\ e.p = enq[Loop].p
        BY <2>1, <3>2 DEF EnqueueStates
      <3>4. QED BY <1>1, <3>1, <3>3 DEF TasksInv
    <2>3. QED BY <2>2 DEF Making
  <1>5. CASE EnqueueStep(Loop)
    <2>1. ~EnqueueIncompatible(Loop) /\ ~EnqueueReport(Loop) /\ ~create_pipeline_run(Loop)
      BY DEF Making, EnqueueIncompatible, EnqueueReport, create_pipeline_run
    <2>2. CASE \/ add_workflow_run_artifact_selections(Loop)
               \/ create_job_run(Loop) \/ add_previous_job(Loop)
      <3>1. \E x \in {"job", "previous"} : enq' = [enq EXCEPT ![Loop].pc = x]
        BY <2>2 DEF add_workflow_run_artifact_selections, create_job_run, add_previous_job
      <3>2. QED BY <1>4, <3>1
    <2>3. QED BY <1>3, <1>5, <2>1, <2>2 DEF EnqueueStep
  <1>6. ASSUME NEW t \in Tasks \ {Loop}, EnqueueStep(t)
        PROVE  enq'[Loop] = enq[Loop]
    BY <1>1, <1>6, EnqueueStays
  <1>7. ASSUME \/ \E k \in Pushes : create_push_event(k)
               \/ \E e \in Edits : update_workflow(e[1], e[2])
               \/ \E w \in Drifting, v \in 1..MaxVersions, r \in Reports : SchemaChanges(w, v, r)
               \/ TickBegins \/ ReadWorkflows \/ EnqueueForPush \/ mark_push_event_processed
               \/ DispatchList \/ PollList \/ TickEnds
               \/ \E j \in JobIds : \/ DispatchWait(j) \/ DispatchBlocked(j) \/ DispatchReady(j)
                                    \/ DispatchAborts(j) \/ PollRunning(j) \/ PollEnded(j)
               \/ UNCHANGED vars
        PROVE  enq'[Loop] = enq[Loop]
    BY <1>1, <1>7 DEF create_push_event, update_workflow, SchemaChanges, TickBegins, ReadWorkflows,
       EnqueueForPush, mark_push_event_processed, DispatchList, PollList, TickEnds, DispatchWait,
       DispatchBlocked, DispatchReady, DispatchAborts, PollRunning, PollEnded, vars
  <1>8. ASSUME \/ \E c \in Callers, w \in Workflows : run_workflow(c, w)
               \/ \E c \in Callers, p \in DOMAIN pipeline : rerun_pipeline(c, p)
        PROVE  enq'[Loop] = enq[Loop]
    BY <1>1, <1>8, TasksAssumption DEF run_workflow, rerun_pipeline, TasksInv
  <1>9. ~Crash /\ ~\E t \in Tasks : EnqueueFails(t)
    BY DEF Crash, EnqueueFails, BoundsInv
  <1>10. QED BY <1>1, <1>2, <1>5, <1>6, <1>7, <1>8, <1>9, Steps, ZenonT(60)

(* While nothing has failed, pipelines of pushes are whole or in the       *)
(* making.                                                                 *)
LEMMA WholeStep ==
    ASSUME VersionsInv, PipelinesInv, TasksInv, ListsInv, BoundsInv, WholeInv, [Next]_vars,
           BoundsInv', PipelinesInv', TasksInv'
    PROVE  WholeInv'
  <1> SUFFICES ASSUME faults' = 0, NEW p \in DOMAIN pipeline', pipeline'[p].trigger = "push"
               PROVE  /\ Whole(p)' \/ (Making(Loop)' /\ enq'[Loop].p = p)
                      /\ pipeline'[p].status = "success" =>
                            /\ Whole(p)'
                            /\ \A i \in DOMAIN pipeline'[p].rows :
                                  pipeline'[p].rows[i].status = "success"
    BY DEF WholeInv
  <1>1. faults = 0
    <2>1. faults' >= faults /\ faults \in Nat
      BY FaultsGrow DEF BoundsInv
    <2>2. QED BY <2>1 DEF BoundsInv
  <1>2. MakingSound(Loop)' /\ Loop \in Tasks
    BY DEF TasksInv, Tasks
  <1>3. CASE p \notin DOMAIN pipeline
    <2>1. PICK t \in Tasks : /\ enq'[t].p = p /\ Making(t)' /\ pipeline'[p].trigger = enq[t].trigger
                             /\ pipeline'[p].status = "running" /\ create_pipeline_run(t)
      BY <1>3, NewPipeline
    <2>2. enq[t] # Idle
      BY <2>1 DEF create_pipeline_run, Idle
    <2>3. t = Loop
      BY <2>1, <2>2 DEF TasksInv, TaskSound
    <2>4. QED BY <2>1, <2>3
  <1>4. CASE p \in DOMAIN pipeline
    <2>1. SameCause(pipeline[p], pipeline'[p]) /\ (Whole(p) => Whole(p)')
      BY <1>4, WholeStays
    <2>2. pipeline[p].trigger = "push"
      BY <2>1 DEF SameCause
    <2>3. Whole(p) \/ (Making(Loop) /\ enq[Loop].p = p)
      BY <1>1, <1>4, <2>2 DEF WholeInv
    <2>4. Whole(p)' \/ (Making(Loop)' /\ enq'[Loop].p = p)
      BY <1>1, <2>1, <2>3, MakingGoesOn
    <2>5. ASSUME pipeline'[p].status = "success"
          PROVE  Whole(p)'
      BY <1>2, <2>4, <2>5 DEF MakingSound
    <2>6. ASSUME pipeline[p].status = "success"
          PROVE  \A i \in DOMAIN pipeline[p].rows : pipeline[p].rows[i].status = "success"
      BY <1>1, <1>4, <2>2, <2>6 DEF WholeInv
    <2>7. ASSUME NEW t \in Tasks, Making(t), enq[t].p = p
          PROVE  pipeline[p].status # "success"
      <3>1. MakingSound(t) /\ TaskSound(t) /\ enq[t] # Idle
        BY <2>7, LoopPlace
      <3>2. enq[t].trigger = "push"
        BY <2>2, <2>7, <3>1 DEF MakingSound
      <3>3. t = Loop
        BY <3>1, <3>2 DEF TaskSound
      <3>4. QED BY <2>7, <3>1, <3>3 DEF MakingSound
    <2>8. ASSUME pipeline'[p].status = "success"
          PROVE  \A i \in DOMAIN pipeline'[p].rows : pipeline'[p].rows[i].status = "success"
      BY <1>4, <2>6, <2>7, <2>8, Judged
    <2>9. QED BY <2>4, <2>5, <2>8
  <1>5. QED BY <1>3, <1>4

-----------------------------------------------------------------------------
(* Pushes are delivered *)

(* What the log says was skipped stays so. *)
LEMMA SkippedGrows ==
    ASSUME [Next]_vars
    PROVE  skipped \subseteq skipped'
  <1>1. ASSUME NEW t \in Tasks, EnqueueStep(t)
        PROVE  skipped \subseteq skipped'
    BY <1>1 DEF EnqueueStep, EnqueueIncompatible, EnqueueReport, create_pipeline_run,
       add_workflow_run_artifact_selections, create_job_run, add_previous_job, EnqueueDone
  <1>2. ASSUME \/ \E k \in Pushes : create_push_event(k)
               \/ \E e \in Edits : update_workflow(e[1], e[2])
               \/ \E w \in Drifting, v \in 1..MaxVersions, r \in Reports : SchemaChanges(w, v, r)
               \/ \E c \in Callers, w \in Workflows : run_workflow(c, w)
               \/ \E c \in Callers, p \in DOMAIN pipeline : rerun_pipeline(c, p)
               \/ \E t \in Tasks : EnqueueFails(t)
               \/ Crash
               \/ UNCHANGED vars
        PROVE  UNCHANGED skipped
    BY <1>2 DEF create_push_event, update_workflow, SchemaChanges, run_workflow, rerun_pipeline,
       EnqueueFails, Crash, vars
  <1>3. ASSUME \/ TickBegins \/ ReadWorkflows \/ EnqueueForPush \/ mark_push_event_processed
               \/ DispatchList \/ PollList \/ TickEnds
               \/ \E j \in JobIds : \/ DispatchWait(j) \/ DispatchBlocked(j) \/ DispatchReady(j)
                                    \/ DispatchAborts(j) \/ PollRunning(j) \/ PollEnded(j)
        PROVE  UNCHANGED skipped
    BY <1>3 DEF TickBegins, ReadWorkflows, EnqueueForPush, mark_push_event_processed, DispatchList,
       PollList, TickEnds, DispatchWait, DispatchBlocked, DispatchReady, DispatchAborts,
       PollRunning, PollEnded
  <1>4. QED BY <1>1, <1>2, <1>3, Steps, ZenonT(60)

(* A push that is delivered stays so. *)
LEMMA DeliveredStays ==
    ASSUME VersionsInv, PipelinesInv, TasksInv, ListsInv, [Next]_vars,
           NEW k, NEW w, NEW ref, Delivered(k, w, ref)
    PROVE  Delivered(k, w, ref)'
  <1>1. CASE <<k, w, ref>> \in skipped
    BY <1>1, SkippedGrows DEF Delivered
  <1>2. ASSUME NEW p \in MadeFor(k, w, ref), Whole(p)
        PROVE  Delivered(k, w, ref)'
    <2>1. p \in DOMAIN pipeline
      BY DEF MadeFor
    <2>2. p \in DOMAIN pipeline' /\ SameCause(pipeline[p], pipeline'[p]) /\ Whole(p)'
      BY <1>2, <2>1, WholeStays
    <2>3. p \in MadeFor(k, w, ref)'
      BY <2>2 DEF MadeFor, SameCause
    <2>4. QED BY <2>2, <2>3 DEF Delivered
  <1>3. QED BY <1>1, <1>2 DEF Delivered

(* Versions are only added. *)
LEMMA AlwaysStays ==
    ASSUME VersionsInv, [Next]_vars, NEW w \in Workflows, NEW ref, AlwaysTriggers(w, ref)'
    PROVE  AlwaysTriggers(w, ref)
  <1> SUFFICES ASSUME NEW v \in DOMAIN versions[w]
               PROVE  Triggers(Def(w, v), ref)
    BY DEF AlwaysTriggers
  <1>1. versions[w] \in Seq(Definitions) /\ versions'[w] \in Seq(Definitions)
    BY VersionsStep DEF VersionsInv
  <1>2. v \in 1..Latest(w)
    BY <1>1 DEF Latest
  <1>3. v \in 1..Latest(w)' /\ Def(w, v)' = Def(w, v)
    BY <1>2, VersionsStep
  <1>4. v \in DOMAIN versions'[w]
    BY <1>1, <1>3 DEF Latest
  <1>5. Triggers(Def(w, v), ref)'
    BY <1>4 DEF AlwaysTriggers
  <1>6. QED BY <1>3, <1>5 DEF Triggers, matches_branch

(* How a tick that enqueues goes on. *)
LEMMA LoopGoesOn ==
    ASSUME TasksInv, [Next]_vars, pc' = "enqueue"
    PROVE  \/ pc = "enqueue" /\ UNCHANGED <<events, runs>> /\ enq'[Loop] = enq[Loop]
           \/ ReadWorkflows \/ EnqueueForPush \/ EnqueueStep(Loop)
  <1> DEFINE Same == pc = "enqueue" /\ UNCHANGED <<events, runs>> /\ enq'[Loop] = enq[Loop]
  <1>1. ASSUME NEW t \in Tasks \ {Loop}, EnqueueStep(t)
        PROVE  Same
    BY <1>1, EnqueueStays DEF tick, Tasks
  <1>2. ASSUME \/ \E k \in Pushes : create_push_event(k)
               \/ \E e \in Edits : update_workflow(e[1], e[2])
               \/ \E w \in Drifting, v \in 1..MaxVersions, r \in Reports : SchemaChanges(w, v, r)
               \/ UNCHANGED vars
        PROVE  Same
    BY <1>2 DEF create_push_event, update_workflow, SchemaChanges, tick, vars
  <1>3. ASSUME \/ \E c \in Callers, w \in Workflows : run_workflow(c, w)
               \/ \E c \in Callers, p \in DOMAIN pipeline : rerun_pipeline(c, p)
               \/ \E c \in Callers : EnqueueFails(c)
        PROVE  Same
    BY <1>3, TasksAssumption DEF run_workflow, rerun_pipeline, EnqueueFails, TasksInv, Tasks, tick
  <1>4. ~Crash /\ ~EnqueueFails(Loop)
    BY DEF Crash, EnqueueFails
  <1>5. /\ ~TickBegins /\ ~mark_push_event_processed /\ ~DispatchList /\ ~PollList /\ ~TickEnds
        /\ ~\E j \in JobIds : \/ DispatchWait(j) \/ DispatchBlocked(j) \/ DispatchReady(j)
                              \/ DispatchAborts(j) \/ PollRunning(j) \/ PollEnded(j)
    BY DEF TickBegins, mark_push_event_processed, DispatchList, PollList, TickEnds, DispatchWait,
       DispatchBlocked, DispatchReady, DispatchAborts, PollRunning, PollEnded
  <1>6. \A t \in Tasks : t \in Callers \/ t = Loop
    BY DEF Tasks
  <1>7. QED BY <1>1, <1>2, <1>3, <1>4, <1>5, <1>6, Steps, ZenonT(60)

(* A tick stops enqueueing when the event is processed, or something fails.*)
LEMMA LoopLeaves ==
    ASSUME TasksInv, [Next]_vars, pc = "enqueue", pc' # "enqueue"
    PROVE  mark_push_event_processed \/ faults' = faults + 1
  <1>1. ASSUME NEW t \in Tasks, EnqueueStep(t)
        PROVE  FALSE
    BY <1>1, EnqueueStays DEF tick
  <1>2. ASSUME \/ \E k \in Pushes : create_push_event(k)
               \/ \E e \in Edits : update_workflow(e[1], e[2])
               \/ \E w \in Drifting, v \in 1..MaxVersions, r \in Reports : SchemaChanges(w, v, r)
               \/ \E c \in Callers, w \in Workflows : run_workflow(c, w)
               \/ \E c \in Callers, p \in DOMAIN pipeline : rerun_pipeline(c, p)
               \/ TickBegins \/ ReadWorkflows \/ EnqueueForPush
               \/ DispatchList \/ PollList \/ TickEnds
               \/ \E j \in JobIds : \/ DispatchWait(j) \/ DispatchBlocked(j) \/ DispatchReady(j)
                                    \/ DispatchAborts(j) \/ PollRunning(j) \/ PollEnded(j)
               \/ UNCHANGED vars
        PROVE  FALSE
    BY <1>2 DEF create_push_event, update_workflow, SchemaChanges, run_workflow, rerun_pipeline,
       TickBegins, ReadWorkflows, EnqueueForPush, DispatchList, PollList, TickEnds, DispatchWait,
       DispatchBlocked, DispatchReady, DispatchAborts, PollRunning, PollEnded, tick, vars
  <1>3. ASSUME Crash \/ \E t \in Tasks : EnqueueFails(t)
        PROVE  faults' = faults + 1
    BY <1>3 DEF Crash, EnqueueFails
  <1>4. QED BY <1>1, <1>2, <1>3, Steps, ZenonT(60)

(* Only mark_push_event_processed changes an event that was received. *)
LEMMA EventMoves ==
    ASSUME EventsInv, [Next]_vars, NEW k \in Pushes, event'[k] # event[k]
    PROVE  \/ event[k] = "none" /\ event'[k] = "received"
           \/ mark_push_event_processed /\ k = Head(events)
  <1>1. ASSUME NEW l \in Pushes, create_push_event(l)
        PROVE  event[k] = "none" /\ event'[k] = "received"
    BY <1>1 DEF create_push_event, EventsInv
  <1>2. CASE mark_push_event_processed
    BY <1>2 DEF mark_push_event_processed, EventsInv
  <1>3. ASSUME NEW t \in Tasks, EnqueueStep(t)
        PROVE  FALSE
    BY <1>3 DEF EnqueueStep, EnqueueIncompatible, EnqueueReport, create_pipeline_run,
       add_workflow_run_artifact_selections, create_job_run, add_previous_job, EnqueueDone, tables
  <1>4. ASSUME \/ \E e \in Edits : update_workflow(e[1], e[2])
               \/ \E w \in Drifting, v \in 1..MaxVersions, r \in Reports : SchemaChanges(w, v, r)
               \/ \E c \in Callers, w \in Workflows : run_workflow(c, w)
               \/ \E c \in Callers, p \in DOMAIN pipeline : rerun_pipeline(c, p)
               \/ \E t \in Tasks : EnqueueFails(t)
               \/ Crash
               \/ UNCHANGED vars
        PROVE  FALSE
    BY <1>4 DEF update_workflow, SchemaChanges, run_workflow, rerun_pipeline, EnqueueFails, Crash,
       tables, vars
  <1>5. ASSUME \/ TickBegins \/ ReadWorkflows \/ EnqueueForPush
               \/ DispatchList \/ PollList \/ TickEnds
               \/ \E j \in JobIds : \/ DispatchWait(j) \/ DispatchBlocked(j) \/ DispatchReady(j)
                                    \/ DispatchAborts(j) \/ PollRunning(j) \/ PollEnded(j)
        PROVE  FALSE
    BY <1>5 DEF TickBegins, ReadWorkflows, EnqueueForPush, DispatchList, PollList, TickEnds,
       DispatchWait, DispatchBlocked, DispatchReady, DispatchAborts, PollRunning, PollEnded, tables
  <1>6. QED BY <1>1, <1>2, <1>3, <1>4, <1>5, Steps, ZenonT(60)

(* The step an enqueue is at afterwards. *)
LEMMA EnqueueEnds ==
    ASSUME TasksInv, NEW t \in Tasks, EnqueueStep(t)
    PROVE  /\ enq'[t] = Idle => EnqueueIncompatible(t) \/ EnqueueDone(t)
           /\ enq'[t].pc \in {"report", "pipeline"} => EnqueueReport(t)
           /\ create_pipeline_run(t) => enq'[t].pc = "selections"
  <1>1. enq[t] \in EnqueueStates \ {Idle} /\ DOMAIN enq = Tasks
    BY EnqueueStays DEF TasksInv
  <1>2. ASSUME NEW x, enq' = [enq EXCEPT ![t].pc = x]
        PROVE  enq'[t].pc = x
    <2>1. PICK e : e = [enq[t] EXCEPT !.pc = x]
      OBVIOUS
    <2>2. enq'[t] = e
      BY <1>1, <1>2, <2>1
    <2>3. QED BY <1>1, <2>1, <2>2 DEF EnqueueStates
  <1>3. EnqueueReport(t) => enq'[t].pc = "pipeline"
    BY <1>2 DEF EnqueueReport
  <1>4. \/ add_workflow_run_artifact_selections(t) \/ create_job_run(t) \/ add_previous_job(t)
        => enq'[t].pc \in {"job", "previous"}
    <2>1. ASSUME \/ add_workflow_run_artifact_selections(t) \/ create_job_run(t)
                 \/ add_previous_job(t)
          PROVE  \E x \in {"job", "previous"} : enq' = [enq EXCEPT ![t].pc = x]
      BY <2>1 DEF add_workflow_run_artifact_selections, create_job_run, add_previous_job
    <2>2. QED BY <1>2, <2>1
  <1>5. create_pipeline_run(t) => enq'[t].pc = "selections"
    <2>1. PICK e : e = [enq[t] EXCEPT !.pc = "selections", !.p = Len(pipeline) + 1]
      OBVIOUS
    <2>2. create_pipeline_run(t) => enq'[t] = e
      BY <1>1, <2>1 DEF create_pipeline_run
    <2>3. e.pc = "selections"
      BY <1>1, <2>1 DEF EnqueueStates
    <2>4. QED BY <2>2, <2>3
  <1>6. EnqueueIncompatible(t) \/ EnqueueDone(t) => enq'[t] = Idle
    BY <1>1 DEF EnqueueIncompatible, EnqueueDone
  <1>7. Idle.pc = "idle"
    BY DEF Idle
  <1>8. QED BY <1>3, <1>4, <1>5, <1>6, <1>7 DEF EnqueueStep

(* The run a tick has finished with is delivered. *)
LEMMA RunEnds ==
    ASSUME VersionsInv, PipelinesInv, TasksInv, ListsInv, BoundsInv, [Next]_vars,
           EnqueueStep(Loop), enq'[Loop] = Idle, NEW k, NEW w, NEW ref,
           k = Head(events), w = enq[Loop].w, ref = enq[Loop].ref
    PROVE  Delivered(k, w, ref)'
  <1>1. Loop \in Tasks
    BY DEF Tasks
  <1>2. /\ enq[Loop] # Idle /\ enq[Loop].push = k /\ enq[Loop].trigger = "push"
        /\ UNCHANGED faults /\ MakingSound(Loop)
    BY <1>1, EnqueueStays DEF TasksInv, TaskSound
  <1>3. CASE EnqueueIncompatible(Loop)
    <2>1. <<k, w, ref>> \in skipped'
      BY <1>2, <1>3 DEF EnqueueIncompatible
    <2>2. QED BY <2>1 DEF Delivered
  <1>4. CASE EnqueueDone(Loop)
    <2>1. Making(Loop)
      BY <1>4 DEF EnqueueDone, Making
    <2>2. ~Making(Loop)'
      BY DEF Making, Idle
    <2>3. Whole(enq[Loop].p)
      BY <1>2, <2>1, <2>2, MakingGoesOn
    <2>4. enq[Loop].p \in MadeFor(k, w, ref)
      BY <1>2, <2>1 DEF MakingSound, MadeFor
    <2>5. Delivered(k, w, ref)
      BY <2>3, <2>4 DEF Delivered
    <2>6. QED BY <2>5, DeliveredStays
  <1>5. QED BY <1>1, <1>3, <1>4, EnqueueEnds

(* No step loses a run of a push. *)
LEMMA DeliveryStep ==
    ASSUME EventsInv, VersionsInv, PipelinesInv, TasksInv, ListsInv, BoundsInv, DeliveryInv,
           [Next]_vars
    PROVE  DeliveryInv'
  <1>1. Loop \in Tasks
    BY DEF Tasks
  <1>2. ASSUME NEW k \in Pushes, NEW w \in Workflows, NEW ref \in Refs[k],
               event'[k] = "processed", AlwaysTriggers(w, ref)'
        PROVE  Delivered(k, w, ref)'
    <2>1. AlwaysTriggers(w, ref)
      BY <1>2, AlwaysStays
    <2>2. CASE event'[k] = event[k]
      BY <1>2, <2>1, <2>2, DeliveredStays DEF DeliveryInv
    <2>3. CASE mark_push_event_processed /\ k = Head(events)
      <3>1. pc = "enqueue" /\ enq[Loop] = Idle /\ runs = {}
        BY <2>3 DEF mark_push_event_processed
      <3>2. Delivered(k, w, ref)
        BY <2>1, <2>3, <3>1 DEF DeliveryInv
      <3>3. QED BY <3>2, DeliveredStays
    <2>4. QED BY <1>2, <2>2, <2>3, EventMoves
  <1>3. ASSUME pc' = "enqueue", NEW w \in Workflows, NEW k, k = Head(events'),
               NEW ref \in Refs[k], AlwaysTriggers(w, ref)'
        PROVE  \/ Delivered(k, w, ref)'
               \/ \E r \in runs' : r[1] = w /\ r[3] = ref
               \/ enq'[Loop] # Idle /\ enq'[Loop].w = w /\ enq'[Loop].ref = ref
    <2> DEFINE Listed == \E r \in runs' : r[1] = w /\ r[3] = ref
               InHand == enq'[Loop] # Idle /\ enq'[Loop].w = w /\ enq'[Loop].ref = ref
    <2>1. AlwaysTriggers(w, ref)
      BY <1>3, AlwaysStays
    <2>2. ASSUME pc = "enqueue", UNCHANGED events
          PROVE  \/ Delivered(k, w, ref)'
                 \/ \E r \in runs : r[1] = w /\ r[3] = ref
                 \/ enq[Loop] # Idle /\ enq[Loop].w = w /\ enq[Loop].ref = ref
      <3>1. \/ Delivered(k, w, ref)
            \/ \E r \in runs : r[1] = w /\ r[3] = ref
            \/ enq[Loop] # Idle /\ enq[Loop].w = w /\ enq[Loop].ref = ref
        BY <1>3, <2>1, <2>2 DEF DeliveryInv
      <3>2. QED BY <3>1, DeliveredStays
    <2>3. CASE pc = "enqueue" /\ UNCHANGED <<events, runs>> /\ enq'[Loop] = enq[Loop]
      BY <2>2, <2>3
    <2>4. CASE ReadWorkflows
      <3>1. /\ runs' = {<<r[1], Latest(r[1]), r[2]>> :
                          r \in {q \in Workflows \X Refs[Head(events)] :
                                    Triggers(Def(q[1], Latest(q[1])), q[2])}}
            /\ UNCHANGED events
        BY <2>4 DEF ReadWorkflows
      <3>2. versions[w] \in Seq(Definitions) /\ Latest(w) \in DOMAIN versions[w]
        BY NextVersion DEF VersionsInv, Latest
      <3>3. Triggers(Def(w, Latest(w)), ref)
        BY <2>1, <3>2 DEF AlwaysTriggers
      <3>4. PICK q : q = <<w, ref>>
        OBVIOUS
      <3>5. q \in Workflows \X Refs[Head(events)] /\ q[1] = w /\ q[2] = ref
        BY <1>3, <3>1, <3>4
      <3>6. <<q[1], Latest(q[1]), q[2]>> \in runs'
        BY <3>1, <3>3, <3>5
      <3>7. <<w, Latest(w), ref>> \in runs'
        BY <3>5, <3>6
      <3>8. Listed
        BY <3>7
      <3>9. QED BY <3>8
    <2>5. CASE EnqueueForPush
      <3>1. PICK r \in runs :
                /\ runs' = runs \ {r}
                /\ enq' = [enq EXCEPT ![Loop] =
                              Enqueue(r[1], r[2], "push", Head(events), r[3], 0)]
        BY <2>5 DEF EnqueueForPush
      <3>2. pc = "enqueue" /\ UNCHANGED events /\ enq[Loop] = Idle
        BY <2>5 DEF EnqueueForPush
      <3>3. PICK e : e = Enqueue(r[1], r[2], "push", Head(events), r[3], 0)
        OBVIOUS
      <3>4. e # Idle /\ e.w = r[1] /\ e.ref = r[3]
        <4>1. e.pc = "report" /\ e.w = r[1] /\ e.ref = r[3]
          BY <3>3 DEF Enqueue
        <4>2. QED BY <4>1 DEF Idle
      <3>5. enq'[Loop] = e
        BY <1>1, <3>1, <3>3 DEF TasksInv
      <3>6. CASE \E q \in runs : q[1] = w /\ q[3] = ref
        <4>1. PICK q \in runs : q[1] = w /\ q[3] = ref
          BY <3>6
        <4>2. CASE q = r
          BY <3>4, <3>5, <4>1, <4>2
        <4>3. CASE q # r
          BY <3>1, <4>1, <4>3
        <4>4. QED BY <4>2, <4>3
      <3>7. QED BY <2>2, <3>2, <3>6
    <2>6. CASE EnqueueStep(Loop)
      <3>1. pc = "enqueue" /\ UNCHANGED <<events, runs>>
        BY <1>1, <1>3, <2>6, EnqueueStays DEF tick
      <3>2. CASE enq[Loop] # Idle /\ enq[Loop].w = w /\ enq[Loop].ref = ref
        <4>1. CASE enq'[Loop] = Idle
          BY <1>3, <2>6, <3>1, <3>2, <4>1, RunEnds
        <4>2. CASE enq'[Loop] # Idle
          BY <1>1, <2>6, <3>2, <4>2, EnqueueStays
        <4>3. QED BY <4>1, <4>2
      <3>3. QED BY <2>2, <3>1, <3>2
    <2>7. QED BY <1>3, <2>3, <2>4, <2>5, <2>6, LoopGoesOn
  <1>4. ASSUME pc' = "enqueue", NEW w \in Workflows, NEW ref \in Refs[Head(events')],
               AlwaysTriggers(w, ref)'
        PROVE  \/ Delivered(Head(events), w, ref)'
               \/ \E r \in runs' : r[1] = w /\ r[3] = ref
               \/ enq'[Loop] # Idle /\ enq'[Loop].w = w /\ enq'[Loop].ref = ref
    <2>1. PICK k : k = Head(events')
      OBVIOUS
    <2>2. Delivered(k, w, ref)' => Delivered(Head(events), w, ref)'
      BY <2>1
    <2>3. QED BY <1>3, <1>4, <2>1, <2>2
  <1>5. QED BY <1>2, <1>4 DEF DeliveryInv

-----------------------------------------------------------------------------
(* Pushes are not repeated *)

(* Finitely many pipelines have been made. *)
LEMMA FewMade ==
    ASSUME PipelinesInv, NEW k, NEW w, NEW ref
    PROVE  IsFiniteSet(MadeFor(k, w, ref)) /\ Cardinality(MadeFor(k, w, ref)) \in Nat
  <1>1. pipeline \in Seq(PipelineRow)
    BY DEF PipelinesInv
  <1>2. MadeFor(k, w, ref) \subseteq 1..Len(pipeline) /\ Len(pipeline) \in Nat
    BY <1>1 DEF MadeFor
  <1>3. IsFiniteSet(1..Len(pipeline))
    BY <1>2, FS_Interval
  <1>4. QED BY <1>2, <1>3, FS_Subset, FS_CardinalityType

(* A step makes at most one pipeline for a push, and the tick makes it.    *)
LEMMA MadeForMoves ==
    ASSUME VersionsInv, PipelinesInv, TasksInv, ListsInv, [Next]_vars,
           NEW k \in Pushes, NEW w, NEW ref
    PROVE  \/ MadeFor(k, w, ref)' = MadeFor(k, w, ref)
           \/ /\ create_pipeline_run(Loop)
              /\ enq[Loop].push = k /\ enq[Loop].w = w /\ enq[Loop].ref = ref
              /\ \E p : MadeFor(k, w, ref)' = MadeFor(k, w, ref) \cup {p}
                        /\ p \notin MadeFor(k, w, ref)
  <1>1. ASSUME NEW p \in DOMAIN pipeline
        PROVE  p \in MadeFor(k, w, ref)' <=> p \in MadeFor(k, w, ref)
    BY WholeStays DEF MadeFor, SameCause
  <1>2. DOMAIN pipeline \subseteq DOMAIN pipeline'
    BY WholeStays
  <1>3. MadeFor(k, w, ref) \subseteq DOMAIN pipeline /\ MadeFor(k, w, ref)' \subseteq DOMAIN pipeline'
    BY DEF MadeFor
  <1>4. CASE DOMAIN pipeline' = DOMAIN pipeline
    BY <1>1, <1>3, <1>4
  <1>5. CASE DOMAIN pipeline' # DOMAIN pipeline
    <2>1. PICK p \in DOMAIN pipeline' : p \notin DOMAIN pipeline
      BY <1>2, <1>5
    <2>2. PICK t \in Tasks :
              /\ create_pipeline_run(t)
              /\ pipeline'[p].w = enq[t].w /\ pipeline'[p].trigger = enq[t].trigger
              /\ pipeline'[p].push = enq[t].push /\ pipeline'[p].ref = enq[t].ref
              /\ DOMAIN pipeline' = DOMAIN pipeline \cup {p}
      BY <2>1, NewPipeline
    <2>3. CASE p \notin MadeFor(k, w, ref)'
      BY <1>1, <1>3, <2>2, <2>3
    <2>4. CASE p \in MadeFor(k, w, ref)'
      <3>1. enq[t].trigger = "push" /\ enq[t].push = k /\ enq[t].w = w /\ enq[t].ref = ref
        BY <2>2, <2>4 DEF MadeFor
      <3>2. enq[t] # Idle
        BY <2>2 DEF create_pipeline_run, Idle
      <3>3. t = Loop
        BY <3>1, <3>2 DEF TasksInv, TaskSound
      <3>4. MadeFor(k, w, ref)' = MadeFor(k, w, ref) \cup {p}
        BY <1>1, <1>3, <2>2, <2>4
      <3>5. QED BY <1>3, <2>1, <2>2, <3>1, <3>3, <3>4
    <2>5. QED BY <2>3, <2>4
  <1>6. QED BY <1>4, <1>5

(* A pipeline is never to be made again, unless something fails. *)
LEMMA ToMakeShrinks ==
    ASSUME EventsInv, TasksInv, [Next]_vars, NEW k \in Pushes, NEW w, NEW ref,
           ToMake(k, w, ref)', faults' # faults + 1
    PROVE  ToMake(k, w, ref)
  <1> SUFFICES ASSUME ~ToMake(k, w, ref)
               PROVE  FALSE
    OBVIOUS
  <1>1. Loop \in Tasks
    BY DEF Tasks
  <1>2. event'[k] # "processed"
    BY DEF ToMake
  <1>3. event[k] # "processed"
    <2>1. (mark_push_event_processed /\ k = Head(events)) => event[k] = "received"
      BY DEF mark_push_event_processed, EventsInv
    <2>2. event'[k] # event[k] => event[k] \in {"none", "received"}
      BY <2>1, EventMoves
    <2>3. QED BY <1>2, <2>2
  <1>4. /\ pc = "enqueue" /\ k = Head(events)
        /\ ~\E r \in runs : r[1] = w /\ r[3] = ref
        /\ ~(enq[Loop].pc \in {"report", "pipeline"} /\ enq[Loop].w = w /\ enq[Loop].ref = ref)
    BY <1>3 DEF ToMake
  <1>5. ~mark_push_event_processed
    BY <1>2, <1>4 DEF mark_push_event_processed, EventsInv
  <1>6. pc' = "enqueue"
    BY <1>4, <1>5, LoopLeaves
  <1>7. ASSUME UNCHANGED events
        PROVE  \/ \E r \in runs' : r[1] = w /\ r[3] = ref
               \/ /\ enq'[Loop].pc \in {"report", "pipeline"}
                  /\ enq'[Loop].w = w /\ enq'[Loop].ref = ref
    BY <1>4, <1>6, <1>7 DEF ToMake
  <1>8. CASE UNCHANGED <<events, runs>> /\ enq'[Loop] = enq[Loop]
    BY <1>4, <1>7, <1>8
  <1>9. ~ReadWorkflows
    BY <1>4 DEF ReadWorkflows
  <1>10. CASE EnqueueForPush
    <2>1. PICK r \in runs :
              /\ runs' = runs \ {r}
              /\ enq' = [enq EXCEPT ![Loop] =
                            Enqueue(r[1], r[2], "push", Head(events), r[3], 0)]
      BY <1>10 DEF EnqueueForPush
    <2>2. UNCHANGED events
      BY <1>10 DEF EnqueueForPush
    <2>3. enq'[Loop].w = r[1] /\ enq'[Loop].ref = r[3]
      BY <1>1, <2>1 DEF TasksInv, Enqueue
    <2>4. QED BY <1>4, <1>7, <2>1, <2>2, <2>3
  <1>11. CASE EnqueueStep(Loop)
    <2>1. UNCHANGED <<events, runs>>
      BY <1>1, <1>11, EnqueueStays DEF tick
    <2>2. enq'[Loop].pc \in {"report", "pipeline"} /\ enq'[Loop].w = w /\ enq'[Loop].ref = ref
      BY <1>4, <1>7, <2>1
    <2>3. enq'[Loop] # Idle
      BY <2>2 DEF Idle
    <2>4. EnqueueReport(Loop) /\ enq[Loop].w = w /\ enq[Loop].ref = ref
      BY <1>1, <1>11, <2>2, <2>3, EnqueueEnds, EnqueueStays
    <2>5. QED BY <1>4, <2>4 DEF EnqueueReport
  <1>12. QED BY <1>6, <1>8, <1>9, <1>10, <1>11, LoopGoesOn

(* A run is made again only after a crash or an error. *)
LEMMA CountStep ==
    ASSUME EventsInv, VersionsInv, PipelinesInv, TasksInv, ListsInv, BoundsInv, CountInv,
           [Next]_vars, PipelinesInv', BoundsInv'
    PROVE  CountInv'
  <1> SUFFICES ASSUME NEW k \in Pushes, NEW w \in Workflows, NEW ref \in Refs[k]
               PROVE  Cardinality(MadeFor(k, w, ref)')
                        <= faults' + (IF ToMake(k, w, ref)' THEN 0 ELSE 1)
    BY DEF CountInv
  <1> DEFINE n == Cardinality(MadeFor(k, w, ref))
             m == Cardinality(MadeFor(k, w, ref)')
  <1>1. /\ n \in Nat /\ m \in Nat /\ IsFiniteSet(MadeFor(k, w, ref))
        /\ faults \in Nat /\ faults' \in Nat /\ faults' \in {faults, faults + 1}
    <2>1. IsFiniteSet(MadeFor(k, w, ref)) /\ n \in Nat
      BY FewMade
    <2>2. m \in Nat
      <3>1. (Cardinality(MadeFor(k, w, ref)) \in Nat)'
        BY FewMade, PTL
      <3>2. QED BY <3>1
    <2>3. QED BY <2>1, <2>2, FaultsGrow DEF BoundsInv
  <1>2. n <= faults + (IF ToMake(k, w, ref) THEN 0 ELSE 1)
    BY DEF CountInv
  <1>3. CASE MadeFor(k, w, ref)' = MadeFor(k, w, ref)
    <2>1. m = n
      BY <1>3
    <2>2. CASE faults' = faults + 1
      BY <1>1, <1>2, <2>1, <2>2
    <2>3. CASE faults' # faults + 1
      <3>1. ToMake(k, w, ref)' => ToMake(k, w, ref)
        BY <2>3, ToMakeShrinks
      <3>2. faults' = faults
        BY <1>1, <2>3
      <3>3. QED BY <1>1, <1>2, <2>1, <3>1, <3>2
    <2>4. QED BY <2>2, <2>3
  <1>4. CASE /\ create_pipeline_run(Loop)
             /\ enq[Loop].push = k /\ enq[Loop].w = w /\ enq[Loop].ref = ref
             /\ \E p : MadeFor(k, w, ref)' = MadeFor(k, w, ref) \cup {p}
                       /\ p \notin MadeFor(k, w, ref)
    <2>1. m = n + 1
      <3>1. PICK p : /\ MadeFor(k, w, ref)' = MadeFor(k, w, ref) \cup {p}
                     /\ p \notin MadeFor(k, w, ref)
        BY <1>4
      <3>2. Cardinality(MadeFor(k, w, ref) \cup {p}) = Cardinality(MadeFor(k, w, ref)) + 1
        BY <1>1, <3>1, FS_AddElement
      <3>3. QED BY <3>1, <3>2
    <2>2. Loop \in Tasks /\ EnqueueStep(Loop) /\ enq[Loop] # Idle
      BY <1>4 DEF Tasks, EnqueueStep, create_pipeline_run, Idle
    <2>3. UNCHANGED <<tick, faults>> /\ enq'[Loop].pc = "selections"
      BY <1>4, <2>2, EnqueueStays, EnqueueEnds
    <2>4. pc = "enqueue" /\ k = Head(events) /\ UNCHANGED <<pc, events, runs>>
      BY <1>4, <2>2, <2>3 DEF TasksInv, TaskSound, tick
    <2>5. \A r \in runs : r[1] # w \/ r[3] # ref
      BY <1>4, <2>2, <2>4 DEF ListsInv
    <2>6. ~ToMake(k, w, ref)'
      BY <2>3, <2>4, <2>5 DEF ToMake
    <2>7. event[k] = "received"
      BY <2>4 DEF EventsInv
    <2>8. ToMake(k, w, ref)
      BY <1>4, <2>7 DEF ToMake, create_pipeline_run
    <2>9. QED BY <1>1, <1>2, <2>1, <2>3, <2>6, <2>8
  <1>5. QED BY <1>3, <1>4, MadeForMoves

-----------------------------------------------------------------------------
(* The theorems *)

(* The invariant holds at first. *)
LEMMA IntakeInvInit ==
    ASSUME Init
    PROVE  IntakeInv
  <1>1. EventsInv
    BY DEF Init, EventsInv, Distinct
  <1>2. VersionsInv
    BY DefinitionsAssumption, ReportsAssumption DEF Init, VersionsInv
  <1>3. PipelinesInv
    BY DEF Init, PipelinesInv
  <1>4. TasksInv
    <2>1. enq \in [Tasks -> EnqueueStates] /\ \A t \in Tasks : enq[t] = Idle
      BY DEF Init, EnqueueStates
    <2>2. Idle.pc = "idle"
      BY DEF Idle
    <2>3. \A t \in Tasks : enq[t] = Idle /\ ~Making(t)
      BY <2>1, <2>2 DEF Making
    <2>4. QED BY <2>1, <2>3 DEF TasksInv, TaskSound, MakingSound
  <1>5. ListsInv
    BY DEF Init, ListsInv
  <1>6. BoundsInv
    BY IntakeBounds DEF Init, BoundsInv
  <1>7. WholeInv
    BY DEF Init, WholeInv
  <1>8. DeliveryInv
    BY DEF Init, DeliveryInv
  <1>9. CountInv
    <2>1. ASSUME NEW k \in Pushes, NEW w \in Workflows, NEW ref \in Refs[k]
          PROVE  MadeFor(k, w, ref) = {}
      BY DEF Init, MadeFor
    <2>2. Cardinality({}) = 0
      BY FS_EmptySet
    <2>3. faults = 0
      BY DEF Init
    <2>4. ASSUME NEW k \in Pushes, NEW w \in Workflows, NEW ref \in Refs[k]
          PROVE  Cardinality(MadeFor(k, w, ref))
                   <= faults + (IF ToMake(k, w, ref) THEN 0 ELSE 1)
      <3>1. MadeFor(k, w, ref) = {}
        BY <2>1
      <3>2. Cardinality(MadeFor(k, w, ref)) = 0
        BY <2>2, <3>1
      <3>3. QED BY <2>3, <3>2
    <2>5. QED BY <2>4 DEF CountInv
  <1>10. QED
    BY <1>1, <1>2, <1>3, <1>4, <1>5, <1>6, <1>7, <1>8, <1>9 DEF IntakeInv

(* Every step keeps the invariant. *)
LEMMA IntakeInvStep ==
    ASSUME IntakeInv, [Next]_vars
    PROVE  IntakeInv'
  <1>1. EventsInv' /\ VersionsInv'
    BY EventsStep, VersionsStep DEF IntakeInv
  <1>2. PipelinesInv' /\ TasksInv' /\ ListsInv' /\ BoundsInv'
    BY PipelinesStep, TasksStep, ListsStep, BoundsStep DEF IntakeInv
  <1>3. WholeInv'
    BY <1>2, WholeStep DEF IntakeInv
  <1>4. DeliveryInv'
    BY DeliveryStep DEF IntakeInv
  <1>5. CountInv'
    BY <1>2, CountStep DEF IntakeInv
  <1>6. QED BY <1>1, <1>2, <1>3, <1>4, <1>5 DEF IntakeInv

(* IntakeInv is inductive: whatever is pushed, saved, requested, inserted, *)
(* dispatched, reported and interrupted, the tables, the tick and the      *)
(* tasks agree on what has been made and what is still to make.            *)
THEOREM IntakeInvariant == Spec => []IntakeInv
  <1>1. Init => IntakeInv
    BY IntakeInvInit
  <1>2. IntakeInv /\ [Next]_vars => IntakeInv'
    BY IntakeInvStep
  <1>3. QED BY <1>1, <1>2, PTL DEF Spec

(* db.rs: the tables hold only rows of their types, a job row belongs to a *)
(* pipeline of a version that exists, and the tick lists jobs that exist.  *)
THEOREM IntakeTypeCorrect == Spec => []IntakeTypeOK
  <1>1. IntakeInv => IntakeTypeOK
    <2> SUFFICES ASSUME IntakeInv
                 PROVE  IntakeTypeOK
      OBVIOUS
    <2>1. event \in [Pushes -> {"none", "received", "processed"}]
          /\ pc \in {"idle", "events", "enqueue", "dispatch", "poll"}
      BY DEF IntakeInv, EventsInv
    <2>2. \A w \in Workflows : /\ versions[w] \in Seq(Definitions)
                               /\ schema[w] \in Seq(Reports)
                               /\ Len(schema[w]) = Len(versions[w])
      BY DEF IntakeInv, VersionsInv
    <2>3. \A p \in DOMAIN pipeline : /\ pipeline[p].rows \in Seq(Job)
                                     /\ pipeline[p].status \in PipelineStatuses
                                     /\ pipeline[p].v \in 1..Latest(pipeline[p].w)
      BY RowFields DEF IntakeInv, PipelinesInv, PipelineSound
    <2>4. snap \subseteq JobIds /\ enq \in [Tasks -> EnqueueStates]
          /\ changes \in 0..MaxChanges /\ faults \in 0..MaxFaults
      BY DEF IntakeInv, ListsInv, TasksInv, BoundsInv
    <2>5. QED BY <2>1, <2>2, <2>3, <2>4 DEF IntakeTypeOK
  <1>2. QED BY <1>1, IntakeInvariant, PTL

(* process_push_events and mark_push_event_processed: for any number of    *)
(* pushes, workflows and requests, a push is never lost, and never makes   *)
(* more pipelines for a workflow and ref than one and one more for each    *)
(* crash or error.                                                         *)
THEOREM EveryPushDelivered == Spec => []PushesDelivered
  <1>1. IntakeInv => PushesDelivered
    <2> SUFFICES ASSUME IntakeInv
                 PROVE  PushesDelivered
      OBVIOUS
    <2>1. ASSUME NEW k \in Pushes, NEW w \in Workflows, NEW ref \in Refs[k]
          PROVE  Cardinality(MadeFor(k, w, ref)) <= 1 + faults
      <3>1. Cardinality(MadeFor(k, w, ref)) <= faults + (IF ToMake(k, w, ref) THEN 0 ELSE 1)
        BY DEF IntakeInv, CountInv
      <3>2. Cardinality(MadeFor(k, w, ref)) \in Nat /\ faults \in Nat
        BY FewMade DEF IntakeInv, BoundsInv
      <3>3. QED BY <3>1, <3>2
    <2>2. NoPushLost
      BY DEF IntakeInv, DeliveryInv, NoPushLost, AlwaysTriggers, Delivered
    <2>3. QED BY <2>1, <2>2 DEF PushesDelivered, OncePerPush
  <1>2. QED BY <1>1, IntakeInvariant, PTL

(* create_job_run, add_previous_job and finalize_pipeline_status: however  *)
(* the steps of an insertion interleave with the tick, a pipeline of a     *)
(* push runs in order, is a success only as a whole, and a run a user      *)
(* started has the selection its first job needs.                          *)
THEOREM InsertionInOrder == Spec => []InsertedInOrder
  <1>1. IntakeInv => InsertedInOrder
    <2> SUFFICES ASSUME IntakeInv
                 PROVE  InsertedInOrder
      OBVIOUS
    <2>1. VersionsInv /\ PipelinesInv
      BY DEF IntakeInv
    <2>2. ASSUME NEW p \in DOMAIN pipeline, pipeline[p].trigger = "push", Whole(p),
                 NEW i \in DOMAIN pipeline[p].rows, i > 1,
                 pipeline[p].rows[i].status \notin {"pending", "blocked"}
          PROVE  pipeline[p].rows[i - 1].status = "success"
      <3>1. i = 2
        <4>1. i \in {1, 2}
          BY <2>1, FewRows
        <4>2. QED BY <2>2, <4>1
      <3>2. pipeline[p].rows[i].prev = (i > 1)
        BY <2>2 DEF Whole
      <3>3. pipeline[p].rows[2].prev
        BY <2>2, <3>1, <3>2
      <3>4. pipeline[p].rows[1].status = "success"
        BY <2>1, <2>2, <3>1, <3>3 DEF PipelinesInv, PipelineSound
      <3>5. QED BY <3>1, <3>4
    <2>3. PushOrder
      BY <2>2 DEF PushOrder
    <2>4. PushSuccessIsWhole
      BY DEF IntakeInv, WholeInv, PushSuccessIsWhole
    <2>5. SelectionsFirst
      BY <2>1 DEF SelectionsFirst, PipelinesInv, PipelineSound
    <2>6. QED BY <2>3, <2>4, <2>5 DEF InsertedInOrder
  <1>2. QED BY <1>1, IntakeInvariant, PTL
=============================================================================
