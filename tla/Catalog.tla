------------------------------- MODULE Catalog -------------------------------
(***************************************************************************)
(* What janus-server knows of its runners, and the workflows saved against *)
(* it: the health loop (scheduler.rs), the requests that register, change, *)
(* switch and test a runner, and those that save a workflow                *)
(* (web/routes.rs, db.rs).                                                 *)
(*                                                                         *)
(* A refresh reads a runner's row, calls the runner twice and stores the   *)
(* answers in two transactions; the row may change in between, and the     *)
(* health loop and an administrator's test may refresh one runner at once. *)
(* A save reads the advertised jobs of each job's runner one by one before *)
(* it stores the definition with the schemas it read.                      *)
(***************************************************************************)
EXTENDS Naturals, Sequences, WorkflowSchema

CONSTANTS
    Runners,        \* numbered in the order of their names
    Urls,
    Manifests,      \* what a runner process may advertise: schemas by job name
    FirstManifest,  \* what the process at each URL advertises at first
    Registered,     \* runners whose row exists at first, with their URL
    Drafts,         \* the workflows users may submit: [trigger, def]
    Loop,           \* the health loop
    Admins,         \* concurrent requests about runners
    Editors,        \* concurrent requests that save a workflow
    Workflows,
    NoUrl,
    MaxVersions,    \* of a workflow
    MaxEdits,       \* changes of runner rows by administrators
    MaxChanges      \* changes of runner processes

Named(manifest) == \A name \in DOMAIN manifest :
    /\ \A i \in DOMAIN manifest[name].inputs : manifest[name].inputs[i] \in InputSchema
    /\ \A o \in DOMAIN manifest[name].outputs : manifest[name].outputs[o] \in OutputSchema

ASSUME ManifestsAssumption ==
    /\ \A m \in Manifests : Named(m)
    /\ FirstManifest \in [Urls -> Manifests]
ASSUME RunnersAssumption ==
    /\ Runners \subseteq Nat
    /\ NoUrl \notin Urls /\ Loop \notin Admins
    /\ Registered \in [Runners -> Urls \cup {NoUrl}]
(* A draft is a sequence of jobs; Runners has every runner one may name.   *)
ASSUME DraftsAssumption == \A draft \in Drafts :
    /\ draft.def \in Seq({draft.def[j] : j \in DOMAIN draft.def})
    /\ \A j \in DOMAIN draft.def : draft.def[j].runner \in Runners
ASSUME CatalogBounds == MaxVersions \in Nat /\ MaxEdits \in Nat /\ MaxChanges \in Nat

NoJobs == << >>

VARIABLES
    runner,       \* runners: url (NoUrl without a row), enabled, last_health_state
    runner_jobs,  \* runner_jobs of each runner
    process,      \* what runs at each URL: its state and what it advertises
    task,         \* where the loop and each administrator's request stand
    editor,       \* where each save stands
    version,      \* workflow_versions of each workflow, with their schemas
    source,       \* the URL that gave the stored jobs of each runner
    moved,        \* how often the URL of each runner was changed
    overtaken,    \* runners with an answer stored after their URL had changed
    edits,        \* changes of rows so far
    changes       \* changes of processes so far

rows == <<runner, runner_jobs>>
history == <<source, moved, overtaken>>
vars == <<rows, process, task, editor, version, history, edits, changes>>

Tasks == Admins \cup {Loop}

Exists(r) == runner[r].url # NoUrl

Idle == [pc |-> "idle"]

Row == [url : Urls \cup {NoUrl}, enabled : BOOLEAN,
        health : {"unknown", "healthy", "unreachable", "incompatible"}]

CatalogInit ==
    /\ runner = [r \in Runners |-> [url |-> Registered[r], enabled |-> TRUE, health |-> "unknown"]]
    /\ runner_jobs = [r \in Runners |-> NoJobs]
    /\ process = [u \in Urls |-> [state |-> "up", jobs |-> FirstManifest[u]]]
    /\ task = [t \in Tasks |-> Idle]
    /\ editor = [e \in Editors |-> Idle]
    /\ version = [w \in Workflows |-> << >>]
    /\ source = [r \in Runners |-> NoUrl]
    /\ moved = [r \in Runners |-> 0] /\ overtaken = {}
    /\ edits = 0 /\ changes = 0

-----------------------------------------------------------------------------
(* Runner processes: started with another manifest, stopped, or of a       *)
(* release that supports other protocol versions *)

ProcessBecomes(u, p) ==
    /\ changes < MaxChanges /\ process[u] # p
    /\ changes' = changes + 1
    /\ process' = [process EXCEPT ![u] = p]
    /\ UNCHANGED <<rows, task, editor, version, history, edits>>

Restarts(u, manifest) == ProcessBecomes(u, [state |-> "up", jobs |-> manifest])

Fails(u) == \E state \in {"down", "other_protocol"} :
    ProcessBecomes(u, [state |-> state, jobs |-> process[u].jobs])

-----------------------------------------------------------------------------
(* Refreshing: a task reads rows, then for each of them asks for the       *)
(* capabilities (pc "capabilities"), the jobs ("list"), stores the jobs    *)
(* ("replace") and the health ("health").  Rows come in the order of names.*)

(* A row as a task has read it. *)
ReadRow(r, url) == [id |-> r, url |-> url, moved |-> moved[r]]

Refresh(ids) == [pc |-> "capabilities", todo |-> {ReadRow(r, runner[r].url) : r \in ids}]

(* refresh_runner_health starts a pass over the enabled runners.           *)
PassBegins ==
    /\ task[Loop].pc = "idle"
    /\ \E r \in Runners : Exists(r) /\ runner[r].enabled
    /\ task' = [task EXCEPT ![Loop] = Refresh({r \in Runners : Exists(r) /\ runner[r].enabled})]
    /\ UNCHANGED <<rows, process, editor, version, history, edits, changes>>

(* The row a task is at. *)
Current(t) == CHOOSE row \in task[t].todo : \A other \in task[t].todo : row.id <= other.id

(* An answer for a row as it was read is stored: its URL may have changed. *)
Overtaken(row) == IF moved[row.id] = row.moved THEN overtaken ELSE overtaken \cup {row.id}

(* Mutant: the pass goes on past its last row. *)
Rest_PastTheLast(t, row) == [pc |-> "capabilities", todo |-> task[t].todo \ {row}]

(* Where a task stands after a row. *)
Rest(t, row) ==
    IF task[t].todo = {row} THEN Idle ELSE [pc |-> "capabilities", todo |-> task[t].todo \ {row}]

(* Mutant: an unreachable runner ends the pass. *)
SetHealth_EndsPass(t, row, health) ==
    /\ runner' = [runner EXCEPT ![row.id].health = health]
    /\ task' = [task EXCEPT ![t] = IF health = "unreachable" THEN Idle ELSE Rest(t, row)]
    /\ overtaken' = Overtaken(row)
    /\ UNCHANGED <<runner_jobs, process, editor, version, source, moved, edits, changes>>

(* update_runner_health, by id; then the next row. *)
SetHealth(t, row, health) ==
    /\ runner' = [runner EXCEPT ![row.id].health = health]
    /\ task' = [task EXCEPT ![t] = Rest(t, row)]
    /\ overtaken' = Overtaken(row)
    /\ UNCHANGED <<runner_jobs, process, editor, version, source, moved, edits, changes>>

(* A call that fails: the loop says so, a test leaves the row alone.       *)
Unreachable(t, row) ==
    /\ task[t].pc \in {"capabilities", "list"}
    /\ process[row.url].state = "down"
    /\ \/ t = Loop /\ SetHealth(t, row, "unreachable")
       \/ /\ t # Loop
          /\ task' = [task EXCEPT ![t] = Idle]
          /\ UNCHANGED <<rows, process, editor, version, history, edits, changes>>

Incompatible(t, row) ==
    /\ task[t].pc = "capabilities"
    /\ process[row.url].state = "other_protocol"
    /\ SetHealth(t, row, "incompatible")

Compatible(t, row) ==
    /\ task[t].pc = "capabilities"
    /\ process[row.url].state = "up"
    /\ task' = [task EXCEPT ![t].pc = "list"]
    /\ UNCHANGED <<rows, process, editor, version, history, edits, changes>>

(* list_jobs is answered; a release with another protocol answers it too.  *)
Listed(t, row) ==
    /\ task[t].pc = "list"
    /\ process[row.url].state # "down"
    /\ task' = [task EXCEPT ![t] = [pc |-> "replace", todo |-> @.todo,
                                    jobs |-> process[row.url].jobs]]
    /\ UNCHANGED <<rows, process, editor, version, history, edits, changes>>

(* replace_runner_jobs, by id. *)
Replace(t, row) ==
    /\ task[t].pc = "replace"
    /\ runner_jobs' = [runner_jobs EXCEPT ![row.id] = task[t].jobs]
    /\ source' = [source EXCEPT ![row.id] = row.url]
    /\ overtaken' = Overtaken(row)
    /\ task' = [task EXCEPT ![t] = [pc |-> "health", todo |-> @.todo]]
    /\ UNCHANGED <<runner, process, editor, version, moved, edits, changes>>

Healthy(t, row) ==
    /\ task[t].pc = "health"
    /\ SetHealth(t, row, "healthy")

RefreshStep(t) ==
    /\ task[t].pc \in {"capabilities", "list", "replace", "health"}
    /\ LET row == Current(t)
       IN \/ Unreachable(t, row) \/ Incompatible(t, row) \/ Compatible(t, row)
          \/ Listed(t, row) \/ Replace(t, row) \/ Healthy(t, row)

-----------------------------------------------------------------------------
(* Requests of administrators *)

(* create_runner inserts the row, then refreshes it. *)
create_runner(a, r, url) ==
    /\ task[a].pc = "idle" /\ ~Exists(r)
    /\ runner' = [runner EXCEPT ![r] = [url |-> url, enabled |-> TRUE, health |-> "unknown"]]
    /\ task' = [task EXCEPT ![a] = [pc |-> "capabilities", todo |-> {ReadRow(r, url)}]]
    /\ UNCHANGED <<runner_jobs, process, editor, version, history, edits, changes>>

test_runner(a, r) ==
    /\ task[a].pc = "idle" /\ Exists(r)
    /\ task' = [task EXCEPT ![a] = Refresh({r})]
    /\ UNCHANGED <<rows, process, editor, version, history, edits, changes>>

(* Mutant: the jobs of the old URL stay when the URL changes. *)
update_runner_KeepsJobs(r, url) ==
    /\ Exists(r) /\ runner[r].url # url /\ edits < MaxEdits
    /\ edits' = edits + 1
    /\ runner' = [runner EXCEPT ![r].url = url, ![r].health = "unknown"]
    /\ moved' = [moved EXCEPT ![r] = @ + 1] /\ overtaken' = overtaken \ {r}
    /\ UNCHANGED <<runner_jobs, process, task, editor, version, source, changes>>

(* update_runner with another URL: what is known of the runner is dropped. *)
update_runner(r, url) ==
    /\ Exists(r) /\ runner[r].url # url /\ edits < MaxEdits
    /\ edits' = edits + 1
    /\ runner' = [runner EXCEPT ![r].url = url, ![r].health = "unknown"]
    /\ runner_jobs' = [runner_jobs EXCEPT ![r] = NoJobs]
    /\ source' = [source EXCEPT ![r] = NoUrl]
    /\ moved' = [moved EXCEPT ![r] = @ + 1] /\ overtaken' = overtaken \ {r}
    /\ UNCHANGED <<process, task, editor, version, changes>>

(* toggle_runner reads the row, then writes the opposite. *)
ToggleReads(a, r) ==
    /\ task[a].pc = "idle" /\ Exists(r) /\ edits < MaxEdits
    /\ edits' = edits + 1
    /\ task' = [task EXCEPT ![a] = [pc |-> "toggle", id |-> r, enabled |-> ~runner[r].enabled]]
    /\ UNCHANGED <<rows, process, editor, version, history, changes>>

ToggleWrites(a) ==
    /\ task[a].pc = "toggle"
    /\ runner' = [runner EXCEPT ![task[a].id].enabled = task[a].enabled]
    /\ task' = [task EXCEPT ![a] = Idle]
    /\ UNCHANGED <<runner_jobs, process, editor, version, history, edits, changes>>

-----------------------------------------------------------------------------
(* Saving a workflow *)

(* parse_workflow_form or parse_api_workflow_request begins. *)
SaveBegins(e, w, draft) ==
    /\ editor[e].pc = "idle" /\ Len(version[w]) < MaxVersions
    /\ FormAccepted(draft.trigger, draft.def)
    /\ editor' = [editor EXCEPT ![e] = [pc |-> "read", w |-> w, draft |-> draft, schemas |-> << >>]]
    /\ UNCHANGED <<rows, process, task, version, history, edits, changes>>

(* validate_workflow_runners: the schema of the next job is read. *)
ReadSchema(e) ==
    /\ editor[e].pc = "read"
    /\ LET def == editor[e].draft.def
           job == def[Len(editor[e].schemas) + 1]
           schemas == Append(editor[e].schemas, runner_jobs[job.runner][job.name])
       IN  /\ Exists(job.runner) /\ job.name \in DOMAIN runner_jobs[job.runner]
           /\ editor' = [editor EXCEPT ![e].schemas = schemas,
                                       ![e].pc = IF Len(schemas) = Len(def) THEN "check" ELSE "read"]
    /\ UNCHANGED <<rows, process, task, version, history, edits, changes>>

(* The bindings are checked against the schemas read; the job an artifact  *)
(* is selected from is read now.                                           *)
Checked(e) ==
    LET def == editor[e].draft.def
        schemas == editor[e].schemas
    IN  /\ Accepted(def, schemas) /\ LiteralsFit(def, schemas)
        /\ PromotedExist(def, [r \in {r \in Runners : Exists(r)} |-> runner_jobs[r]])

CheckPasses(e) ==
    /\ editor[e].pc = "check" /\ Checked(e)
    /\ editor' = [editor EXCEPT ![e].pc = "save"]
    /\ UNCHANGED <<rows, process, task, version, history, edits, changes>>

(* The request is refused. *)
SaveRefused(e) ==
    /\ \/ /\ editor[e].pc = "read"
          /\ LET job == editor[e].draft.def[Len(editor[e].schemas) + 1]
             IN ~Exists(job.runner) \/ job.name \notin DOMAIN runner_jobs[job.runner]
       \/ editor[e].pc = "check" /\ ~Checked(e)
    /\ editor' = [editor EXCEPT ![e] = Idle]
    /\ UNCHANGED <<rows, process, task, version, history, edits, changes>>

(* Mutant: the schemas stored are those advertised when the row is made.   *)
Save_ReadsAgain(e) ==
    /\ editor[e].pc = "save"
    /\ LET def == editor[e].draft.def
           again(j) == IF Advertises(runner_jobs, def[j]) THEN runner_jobs[def[j].runner][def[j].name]
                       ELSE editor[e].schemas[j]
       IN  version' = [version EXCEPT ![editor[e].w] =
                         Append(@, [def |-> def, schemas |-> [j \in DOMAIN def |-> again(j)]])]
    /\ editor' = [editor EXCEPT ![e] = Idle]
    /\ UNCHANGED <<rows, process, task, history, edits, changes>>

(* create_workflow or update_workflow: one transaction stores the next     *)
(* version and its schemas.                                                *)
Save(e) ==
    /\ editor[e].pc = "save"
    /\ version' = [version EXCEPT ![editor[e].w] =
                     Append(@, [def |-> editor[e].draft.def, schemas |-> editor[e].schemas])]
    /\ editor' = [editor EXCEPT ![e] = Idle]
    /\ UNCHANGED <<rows, process, task, history, edits, changes>>

-----------------------------------------------------------------------------
EditorStep(e) == ReadSchema(e) \/ CheckPasses(e) \/ SaveRefused(e) \/ Save(e)

CatalogNext ==
    \/ PassBegins
    \/ \E t \in Tasks : RefreshStep(t)
    \/ \E a \in Admins, r \in Runners :
        \/ \E url \in Urls : create_runner(a, r, url)
        \/ test_runner(a, r) \/ ToggleReads(a, r)
    \/ \E a \in Admins : ToggleWrites(a)
    \/ \E r \in Runners, url \in Urls : update_runner(r, url)
    \/ \E u \in Urls : Fails(u) \/ \E m \in Manifests : Restarts(u, m)
    \/ \E e \in Editors, w \in Workflows, draft \in Drafts : SaveBegins(e, w, draft)
    \/ \E e \in Editors : EditorStep(e)

CatalogSpec == CatalogInit /\ [][CatalogNext]_vars

(* The loop's interval keeps ticking and the runner client gives up a call *)
(* after its timeout; so does a request that has begun.  Nobody has to     *)
(* make a request.                                                         *)
CatalogFairSpec ==
    /\ CatalogSpec
    /\ WF_vars(PassBegins) /\ WF_vars(RefreshStep(Loop))
    /\ \A a \in Admins : WF_vars(RefreshStep(a) \/ ToggleWrites(a))

-----------------------------------------------------------------------------
(* Properties *)

ReadRows == [id : Runners, url : Urls, moved : 0..edits]

ToDos == (SUBSET ReadRows) \ {{}}

TaskStates ==
    {Idle} \cup [pc : {"capabilities", "list", "health"}, todo : ToDos]
    \cup [pc : {"replace"}, todo : ToDos, jobs : Manifests]
    \cup [pc : {"toggle"}, id : Runners, enabled : BOOLEAN]

Schemas == UNION {{m[name] : name \in DOMAIN m} : m \in Manifests}

EditorStates ==
    {Idle} \cup [pc : {"read", "check", "save"}, w : Workflows, draft : Drafts,
                schemas : Seq(Schemas)]

Versions == [def : {draft.def : draft \in Drafts}, schemas : Seq(Schemas)]

(* The tables and the steps of every task: a row without a URL is none and *)
(* knows nothing, only a manifest or nothing is ever stored as a runner's  *)
(* jobs (replace_runner_jobs, update_runner), a refresh that goes on has a *)
(* row to go on with, and a save reads a schema for every job of its       *)
(* definition and no more (validate_workflow_runners).                     *)
CatalogTypeOK ==
    /\ runner \in [Runners -> Row]
    /\ \A r \in Runners : ~Exists(r) => runner_jobs[r] = NoJobs /\ runner[r].health = "unknown"
    /\ runner_jobs \in [Runners -> Manifests \cup {NoJobs}]
    /\ process \in [Urls -> [state : {"up", "down", "other_protocol"}, jobs : Manifests]]
    /\ task \in [Tasks -> TaskStates]
    /\ editor \in [Editors -> EditorStates]
    /\ \A e \in Editors : editor[e].pc # "idle" =>
        IF editor[e].pc = "read" THEN Len(editor[e].schemas) < Len(editor[e].draft.def)
                                 ELSE Len(editor[e].schemas) = Len(editor[e].draft.def)
    /\ version \in [Workflows -> Seq(Versions)]
    /\ source \in [Runners -> Urls \cup {NoUrl}]
    /\ moved \in [Runners -> 0..edits] /\ overtaken \subseteq Runners
    /\ edits \in 0..MaxEdits /\ changes \in 0..MaxChanges

(* A saved version is acceptable against the schemas saved with it, though *)
(* refreshes replace the runners' jobs while it is checked                 *)
(* (validate_workflow_runners, insert_workflow_version_job_schemas).       *)
SnapshotsAccepted == \A w \in Workflows : \A v \in DOMAIN version[w] :
    LET saved == version[w][v]
    IN  Accepted(saved.def, saved.schemas) /\ LiteralsFit(saved.def, saved.schemas)

(* A version that the report does not call incompatible would be accepted  *)
(* again as its runners' jobs are now: every binding fits, every required  *)
(* input is bound (workflow_schema_report, validate_workflow_runners).     *)
(* Limits on literals and the sources of promoted artifacts are not part   *)
(* of the report.                                                          *)
ReportIsSound == \A w \in Workflows : \A v \in DOMAIN version[w] :
    LET saved == version[w][v]
    IN  Report(saved.def, saved.schemas, runner_jobs) # "incompatible" =>
            Accepted(saved.def, Now(saved.def, runner_jobs))

(* What the tables say of a runner comes from its own URL, unless a        *)
(* refresh that had read the row before the URL changed stored its answer  *)
(* afterwards (update_runner, refresh_runner_health).                      *)
KnownFromItsUrl == \A r \in Runners \ overtaken :
    /\ runner_jobs[r] # NoJobs => source[r] = runner[r].url
    /\ runner[r].health = "healthy" => source[r] = runner[r].url

(* What the tables should say of a runner. *)
RightlyKnown(r) ==
    LET p == process[runner[r].url]
    IN  \/ p.state = "down" /\ runner[r].health = "unreachable"
        \/ p.state = "other_protocol" /\ runner[r].health = "incompatible"
        \/ p.state = "up" /\ runner[r].health = "healthy" /\ runner_jobs[r] = p.jobs

(* Once rows and processes stop changing, the tables come to say what is   *)
(* true of every enabled runner and keep saying it, whatever answers were  *)
(* overtaken and whichever other runners fail (refresh_runner_health).     *)
HealthConverges == \A r \in Runners :
    <>[](Exists(r) /\ runner[r].enabled => RightlyKnown(r))
=============================================================================
