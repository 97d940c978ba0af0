---------------------------- MODULE CatalogProofs ----------------------------
(***************************************************************************)
(* Proofs about the runners' tables and the saved workflows, for every set *)
(* of runners, URLs, manifests, drafts and requests.                       *)
(***************************************************************************)
EXTENDS Catalog, WorkflowSchemaProofs, WellFoundedInduction

Refreshing == {"capabilities", "list", "replace", "health"}

-----------------------------------------------------------------------------
(* The shapes of the steps of tasks and editors *)

(* The fields a task of a refresh or of an administrator has at each step. *)
LEMMA TaskShape ==
    ASSUME CatalogTypeOK, NEW t \in Tasks
    PROVE  /\ task[t].pc \in Refreshing \cup {"idle", "toggle"}
           /\ task[t].pc = "idle" => task[t] = Idle
           /\ task[t].pc \in {"capabilities", "list", "health"} =>
                task[t] \in [pc : {"capabilities", "list", "health"}, todo : ToDos]
           /\ task[t].pc = "replace" =>
                task[t] \in [pc : {"replace"}, todo : ToDos, jobs : Manifests]
           /\ task[t].pc = "toggle" =>
                task[t] \in [pc : {"toggle"}, id : Runners, enabled : BOOLEAN]
           /\ task[t].pc \in Refreshing => task[t].todo \in ToDos
<1>1. task[t] \in TaskStates
  BY DEF CatalogTypeOK
<1> QED BY <1>1 DEF TaskStates, Idle, Refreshing

(* The fields a save has at each step. *)
LEMMA EditorShape ==
    ASSUME CatalogTypeOK, NEW e \in Editors, editor[e].pc # "idle"
    PROVE  /\ editor[e] \in [pc : {"read", "check", "save"}, w : Workflows, draft : Drafts,
                             schemas : Seq(Schemas)]
           /\ editor[e].pc = "read" => Len(editor[e].schemas) < Len(editor[e].draft.def)
           /\ editor[e].pc # "read" => Len(editor[e].schemas) = Len(editor[e].draft.def)
<1>1. editor[e] \in EditorStates
  BY DEF CatalogTypeOK
<1> QED BY <1>1 DEF EditorStates, Idle, CatalogTypeOK

(* A nonempty set of numbers has a least one. *)
LEMMA LeastNumber ==
    ASSUME NEW S, S \subseteq Nat, S # {}
    PROVE  \E n \in S : \A m \in S : n <= m
<1>1. PICK n \in S : \A m \in S : ~ (<<m, n>> \in OpToRel(<, Nat))
  BY NatLessThanWellFounded, WFMin
<1>2. ASSUME NEW m \in S PROVE n <= m
  <2>1. ~ (m < n)
    BY <1>1 DEF OpToRel
  <2> QED BY <2>1
<1> QED BY <1>2

(* The row a task is at is one it still has to do. *)
LEMMA CurrentRow ==
    ASSUME CatalogTypeOK, NEW t \in Tasks, task[t].pc \in Refreshing
    PROVE  /\ Current(t) \in task[t].todo
           /\ Current(t) \in ReadRows
           /\ Current(t).id \in Runners /\ Current(t).url \in Urls
           /\ Current(t).moved \in 0..edits
<1> DEFINE todo == task[t].todo
           ids == {row.id : row \in todo}
<1>1. todo \in SUBSET ReadRows /\ todo # {}
  BY TaskShape DEF ToDos
<1> HIDE DEF todo
<1>2. ids \subseteq Nat /\ ids # {}
  <2>1. \A row \in todo : row.id \in Nat
    BY <1>1, RunnersAssumption DEF ReadRows
  <2> QED BY <1>1, <2>1
<1> HIDE DEF ids
<1>3. PICK n \in ids : \A m \in ids : n <= m
  BY <1>2, LeastNumber
<1>4. PICK row \in todo : row.id = n
  BY DEF ids
<1>5. \A other \in todo : row.id <= other.id
  BY <1>3, <1>4 DEF ids
<1>6. Current(t) \in todo
  BY <1>5 DEF Current, todo
<1> QED BY <1>1, <1>6 DEF ReadRows, todo

(* An element of a manifest is a schema. *)
LEMMA SchemaOfManifest ==
    ASSUME NEW m \in Manifests, NEW name \in DOMAIN m
    PROVE  m[name] \in Schemas
BY DEF Schemas

(* What a schema says of a required field is yes or no. *)
LEMMA SchemasPlain == \A schema \in Schemas : Plain(schema)
<1> SUFFICES ASSUME NEW m \in Manifests, NEW name \in DOMAIN m
             PROVE  Plain(m[name])
  BY DEF Schemas
<1>1. Named(m)
  BY ManifestsAssumption
<1> QED BY <1>1 DEF Named, Plain, InputSchema, OutputSchema

(* Advertised jobs are those of a manifest. *)
LEMMA AdvertisedIsSchema ==
    ASSUME CatalogTypeOK, NEW r \in Runners, NEW name \in DOMAIN runner_jobs[r]
    PROVE  runner_jobs[r][name] \in Schemas
<1>1. runner_jobs[r] \in Manifests \/ runner_jobs[r] = NoJobs
  BY DEF CatalogTypeOK
<1>2. runner_jobs[r] # NoJobs
  BY DEF NoJobs
<1> QED BY <1>1, <1>2, SchemaOfManifest

-----------------------------------------------------------------------------
(* Type correctness *)

(* The tables have their types at first. *)
LEMMA InitType == CatalogInit => CatalogTypeOK
BY ManifestsAssumption, RunnersAssumption, CatalogBounds
   DEF CatalogInit, CatalogTypeOK, Row, Idle, NoJobs, TaskStates, EditorStates, Exists

(* A row that was read stays one when the count of edits goes up.          *)
LEMMA TaskStatesGrow ==
    ASSUME edits \in Nat, edits' \in Nat, edits <= edits'
    PROVE  TaskStates \subseteq TaskStates'
<1>1. ReadRows \subseteq ReadRows'
  BY DEF ReadRows
<1>2. ToDos \subseteq ToDos'
  BY <1>1 DEF ToDos
<1> QED BY <1>2 DEF TaskStates

(* A runner that fails or is started again changes only its process. *)
LEMMA ProcessType ==
    ASSUME CatalogTypeOK, NEW u \in Urls,
           Fails(u) \/ \E m \in Manifests : Restarts(u, m)
    PROVE  CatalogTypeOK'
<1>1. ASSUME NEW p \in [state : {"up", "down", "other_protocol"}, jobs : Manifests],
             ProcessBecomes(u, p)
      PROVE  CatalogTypeOK'
  <2>1. changes' \in 0..MaxChanges
    BY <1>1, CatalogBounds DEF ProcessBecomes, CatalogTypeOK
  <2>2. process' \in [Urls -> [state : {"up", "down", "other_protocol"}, jobs : Manifests]]
    BY <1>1 DEF ProcessBecomes, CatalogTypeOK
  <2> QED BY <1>1, <2>1, <2>2 DEF ProcessBecomes, CatalogTypeOK, rows, history, Exists,
             TaskStates, ToDos, ReadRows
<1>2. process[u].jobs \in Manifests
  BY DEF CatalogTypeOK
<1> QED BY <1>1, <1>2 DEF Fails, Restarts

(* What a refresh leaves of the rows it has to do. *)
LEMMA RestType ==
    ASSUME CatalogTypeOK, NEW t \in Tasks, task[t].pc \in Refreshing, NEW row
    PROVE  Rest(t, row) \in TaskStates
<1>1. task[t].todo \in ToDos
  BY TaskShape
<1>2. ASSUME task[t].todo # {row}
      PROVE  task[t].todo \ {row} \in ToDos
  BY <1>1, <1>2 DEF ToDos
<1> QED BY <1>2 DEF Rest, TaskStates, Idle

(* A step of a task that leaves the tables alone. *)
LEMMA TaskStepType ==
    ASSUME CatalogTypeOK, NEW t \in Tasks, NEW state \in TaskStates,
           task' = [task EXCEPT ![t] = state],
           UNCHANGED <<rows, process, editor, version, history, edits, changes>>
    PROVE  CatalogTypeOK'
<1>1. TaskStates' = TaskStates
  BY DEF TaskStates, ToDos, ReadRows
<1>2. task' \in [Tasks -> TaskStates']
  BY <1>1 DEF CatalogTypeOK
<1> QED BY <1>2 DEF CatalogTypeOK, rows, history, Exists

(* A row of the runners' table is replaced by another one. *)
LEMMA RowReplaced ==
    ASSUME CatalogTypeOK, NEW i \in Runners, NEW new \in Row, runner' = [runner EXCEPT ![i] = new]
    PROVE  /\ runner' \in [Runners -> Row] /\ runner'[i] = new
           /\ \A r \in Runners : r # i => runner'[r] = runner[r]
<1>1. runner \in [Runners -> Row]
  BY DEF CatalogTypeOK
<1> QED BY <1>1

(* set_runner_health and the step after it. *)
LEMMA SetHealthType ==
    ASSUME CatalogTypeOK, NEW t \in Tasks, task[t].pc \in Refreshing,
           Exists(Current(t).id),
           NEW health \in {"healthy", "unreachable", "incompatible"},
           SetHealth(t, Current(t), health)
    PROVE  CatalogTypeOK'
<1>1. Current(t).id \in Runners
  BY CurrentRow
<1>2. runner' \in [Runners -> Row] /\ \A r \in Runners : runner'[r].url = runner[r].url
      /\ (r # Current(t).id => runner'[r] = runner[r])
  <2> DEFINE i == Current(t).id
             new == [runner[i] EXCEPT !.health = health]
  <2>1. runner[i] \in Row
    BY <1>1 DEF CatalogTypeOK
  <2>2. new \in Row /\ new.url = runner[i].url
    BY <2>1 DEF Row
  <2>3. runner' = [runner EXCEPT ![i] = new]
    BY DEF SetHealth
  <2> HIDE DEF i, new
  <2>4. i \in Runners
    BY <1>1 DEF i
  <2>5. /\ runner' \in [Runners -> Row] /\ runner'[i] = new
        /\ \A r \in Runners : r # i => runner'[r] = runner[r]
    BY <2>2, <2>3, <2>4, RowReplaced
  <2>6. \A r \in Runners : runner'[r].url = runner[r].url
    BY <2>2, <2>5
  <2> QED BY <2>5, <2>6 DEF i
<1>3. \A r \in Runners : ~Exists(r)' => (runner_jobs[r])' = NoJobs /\ (runner[r].health)' = "unknown"
  BY <1>1, <1>2 DEF SetHealth, CatalogTypeOK, Exists
<1>4. TaskStates' = TaskStates
  BY DEF TaskStates, ToDos, ReadRows, SetHealth
<1>5. task' \in [Tasks -> TaskStates']
  BY <1>4, RestType DEF SetHealth, CatalogTypeOK
<1>6. overtaken' \subseteq Runners
  BY <1>1 DEF SetHealth, Overtaken, CatalogTypeOK
<1> QED BY <1>2, <1>3, <1>5, <1>6 DEF SetHealth, CatalogTypeOK

(* The rows a refresh is going over have not been deleted meanwhile.       *)
RowsExist == \A t \in Tasks : task[t].pc \in Refreshing =>
    \A row \in task[t].todo : Exists(row.id)

(* Every step of a refresh goes on with a row that was read. *)
LEMMA RefreshType ==
    ASSUME CatalogTypeOK, RowsExist, NEW t \in Tasks, RefreshStep(t)
    PROVE  CatalogTypeOK'
<1> DEFINE row == Current(t)
<1>0. task[t].pc \in Refreshing
  BY DEF RefreshStep, Refreshing
<1>1. row \in task[t].todo /\ row.id \in Runners /\ row.url \in Urls
  BY <1>0, CurrentRow
<1>2. Exists(row.id)
  BY <1>0, <1>1 DEF RowsExist
<1>3. Idle \in TaskStates
  BY DEF TaskStates
<1>4. CASE Unreachable(t, row)
  BY <1>0, <1>2, <1>3, <1>4, SetHealthType, TaskStepType DEF Unreachable
<1>5. CASE Incompatible(t, row)
  BY <1>0, <1>2, <1>5, SetHealthType DEF Incompatible
<1>6. CASE Compatible(t, row)
  <2>1. [task[t] EXCEPT !.pc = "list"] \in TaskStates
    BY <1>6, TaskShape DEF Compatible, TaskStates
  <2>2. task' = [task EXCEPT ![t] = [task[t] EXCEPT !.pc = "list"]]
    BY <1>6 DEF Compatible
  <2> QED BY <1>6, <2>1, <2>2, TaskStepType DEF Compatible
<1>7. CASE Listed(t, row)
  <2>1. process[row.url].jobs \in Manifests
    BY <1>1 DEF CatalogTypeOK
  <2>2. [pc |-> "replace", todo |-> task[t].todo, jobs |-> process[row.url].jobs] \in TaskStates
    BY <1>0, <2>1, TaskShape DEF TaskStates
  <2> QED BY <1>7, <2>2, TaskStepType DEF Listed
<1>8. CASE Replace(t, row)
  <2>1. task[t].jobs \in Manifests /\ task[t].todo \in ToDos
    BY <1>8, TaskShape DEF Replace, Refreshing
  <2>2. TaskStates' = TaskStates
    BY <1>8 DEF TaskStates, ToDos, ReadRows, Replace
  <2>3. [pc |-> "health", todo |-> task[t].todo] \in TaskStates
    BY <2>1 DEF TaskStates
  <2>4. task' \in [Tasks -> TaskStates']
    BY <1>8, <2>2, <2>3 DEF Replace, CatalogTypeOK
  <2>5. runner_jobs' \in [Runners -> Manifests \cup {NoJobs}]
    BY <1>1, <1>8, <2>1 DEF Replace, CatalogTypeOK
  <2>6. \A r \in Runners : ~Exists(r)' => runner_jobs'[r] = NoJobs /\ runner'[r].health = "unknown"
    BY <1>1, <1>2, <1>8 DEF Replace, CatalogTypeOK, Exists
  <2>7. source' \in [Runners -> Urls \cup {NoUrl}] /\ overtaken' \subseteq Runners
    BY <1>1, <1>8 DEF Replace, Overtaken, CatalogTypeOK
  <2> QED BY <1>8, <2>4, <2>5, <2>6, <2>7 DEF Replace, CatalogTypeOK
<1>9. CASE Healthy(t, row)
  BY <1>0, <1>2, <1>9, SetHealthType DEF Healthy
<1> QED BY <1>4, <1>5, <1>6, <1>7, <1>8, <1>9 DEF RefreshStep

(* A request that changes a row or none, and counts it. *)
LEMMA AdminType ==
    ASSUME CatalogTypeOK, NEW a \in Admins, NEW r \in Runners,
           \/ \E url \in Urls : create_runner(a, r, url)
           \/ test_runner(a, r) \/ ToggleReads(a, r) \/ ToggleWrites(a)
    PROVE  CatalogTypeOK'
<1>0. a \in Tasks /\ moved[r] \in 0..edits /\ edits \in Nat
  BY CatalogBounds DEF Tasks, CatalogTypeOK
<1>1. ASSUME NEW url \in Urls, create_runner(a, r, url)
      PROVE  CatalogTypeOK'
  <2>1. [pc |-> "capabilities", todo |-> {ReadRow(r, url)}] \in TaskStates
    <3>1. ReadRow(r, url) \in ReadRows
      BY <1>0 DEF ReadRow, ReadRows
    <3>2. {ReadRow(r, url)} \in ToDos
      BY <3>1 DEF ToDos
    <3> QED BY <3>2 DEF TaskStates
  <2>2. TaskStates' = TaskStates
    BY <1>1 DEF TaskStates, ToDos, ReadRows, create_runner
  <2>3. task' \in [Tasks -> TaskStates']
    BY <1>0, <1>1, <2>1, <2>2 DEF create_runner, CatalogTypeOK
  <2>4. runner' \in [Runners -> Row]
    BY <1>1 DEF create_runner, CatalogTypeOK, Row
  <2>5. \A i \in Runners : ~Exists(i)' => runner_jobs'[i] = NoJobs /\ runner'[i].health = "unknown"
    BY <1>1 DEF create_runner, CatalogTypeOK, Exists
  <2> QED BY <1>1, <2>3, <2>4, <2>5 DEF create_runner, CatalogTypeOK, history
<1>2. CASE test_runner(a, r)
  <2>1. runner[r].url \in Urls
    BY <1>2 DEF test_runner, Exists, CatalogTypeOK, Row
  <2>2. Refresh({r}) \in TaskStates
    <3>1. {ReadRow(i, runner[i].url) : i \in {r}} \in ToDos
      <4>1. ReadRow(r, runner[r].url) \in ReadRows
        BY <1>0, <2>1 DEF ReadRow, ReadRows
      <4> QED BY <4>1 DEF ToDos
    <3> QED BY <3>1 DEF Refresh, TaskStates
  <2> QED BY <1>0, <1>2, <2>2, TaskStepType DEF test_runner
<1>3. CASE ToggleReads(a, r)
  <2>1. edits' \in 0..MaxEdits /\ edits' \in Nat /\ edits <= edits'
    BY <1>0, <1>3, CatalogBounds DEF ToggleReads, CatalogTypeOK
  <2>2. [pc |-> "toggle", id |-> r, enabled |-> ~runner[r].enabled] \in TaskStates
    BY DEF TaskStates, CatalogTypeOK, Row
  <2>3. TaskStates \subseteq TaskStates'
    BY <1>0, <2>1, TaskStatesGrow
  <2>4. task' \in [Tasks -> TaskStates']
    BY <1>0, <1>3, <2>2, <2>3 DEF ToggleReads, CatalogTypeOK
  <2>5. moved' \in [Runners -> 0..edits']
    BY <1>0, <1>3, <2>1 DEF ToggleReads, CatalogTypeOK, history
  <2> QED BY <1>3, <2>1, <2>4, <2>5 DEF ToggleReads, CatalogTypeOK, rows, history, Exists
<1>4. CASE ToggleWrites(a)
  <2>1. task[a].id \in Runners /\ task[a].enabled \in BOOLEAN
    BY <1>0, <1>4, TaskShape DEF ToggleWrites
  <2>2. PICK k \in Runners, new \in Row :
            /\ new.url = runner[k].url /\ new.health = runner[k].health
            /\ runner' = [runner EXCEPT ![k] = new]
    <3>1. runner[task[a].id] \in Row
      BY <2>1 DEF CatalogTypeOK
    <3>2. [runner[task[a].id] EXCEPT !.enabled = task[a].enabled] \in Row
      BY <2>1, <3>1 DEF Row
    <3>3. runner' = [runner EXCEPT ![task[a].id] = [runner[task[a].id] EXCEPT !.enabled = task[a].enabled]]
      BY <1>4 DEF ToggleWrites
    <3> QED BY <2>1, <3>1, <3>2, <3>3 DEF Row
  <2>3. /\ runner' \in [Runners -> Row]
        /\ \A i \in Runners : runner'[i].url = runner[i].url /\ runner'[i].health = runner[i].health
    BY <2>2, RowReplaced
  <2>4. TaskStates' = TaskStates /\ Idle \in TaskStates
    BY <1>4 DEF TaskStates, ToDos, ReadRows, ToggleWrites
  <2>5. task' \in [Tasks -> TaskStates']
    BY <1>4, <2>4 DEF ToggleWrites, CatalogTypeOK
  <2> QED BY <1>4, <2>3, <2>5 DEF ToggleWrites, CatalogTypeOK, history, Exists
<1> QED BY <1>1, <1>2, <1>3, <1>4

(* update_runner changes a row that exists. *)
LEMMA update_runnerType ==
    ASSUME CatalogTypeOK, NEW r \in Runners, NEW url \in Urls, update_runner(r, url)
    PROVE  CatalogTypeOK'
<1>1. edits' \in 0..MaxEdits /\ edits' \in Nat /\ edits \in Nat /\ edits' = edits + 1
  BY CatalogBounds DEF update_runner, CatalogTypeOK
<1>2. task' \in [Tasks -> TaskStates']
  BY <1>1, TaskStatesGrow DEF update_runner, CatalogTypeOK
<1>3. moved' \in [Runners -> 0..edits']
  BY <1>1 DEF update_runner, CatalogTypeOK
<1>4. runner' \in [Runners -> Row]
  <2>1. runner[r] \in Row
    BY DEF CatalogTypeOK
  <2>2. [runner[r] EXCEPT !.url = url, !.health = "unknown"] \in Row
    BY <2>1 DEF Row
  <2>3. runner' = [runner EXCEPT ![r] = [runner[r] EXCEPT !.url = url, !.health = "unknown"]]
    BY DEF update_runner, CatalogTypeOK
  <2> QED BY <2>2, <2>3, RowReplaced
<1>5. \A i \in Runners : ~Exists(i)' => runner_jobs'[i] = NoJobs /\ runner'[i].health = "unknown"
  BY DEF update_runner, CatalogTypeOK, Exists
<1>6. /\ runner_jobs' \in [Runners -> Manifests \cup {NoJobs}]
      /\ source' \in [Runners -> Urls \cup {NoUrl}] /\ overtaken' \subseteq Runners
  BY DEF update_runner, CatalogTypeOK
<1> QED BY <1>1, <1>2, <1>3, <1>4, <1>5, <1>6 DEF update_runner, CatalogTypeOK

(* A pass reads the rows there are. *)
LEMMA PassBeginsType == CatalogTypeOK /\ PassBegins => CatalogTypeOK'
<1> SUFFICES ASSUME CatalogTypeOK, PassBegins PROVE CatalogTypeOK'
  OBVIOUS
<1> DEFINE ids == {r \in Runners : Exists(r) /\ runner[r].enabled}
<1>1. \A r \in ids : ReadRow(r, runner[r].url) \in ReadRows
  BY DEF CatalogTypeOK, Row, Exists, ReadRow, ReadRows
<1>2. ids # {}
  BY DEF PassBegins
<1>3. {ReadRow(r, runner[r].url) : r \in ids} \in ToDos
  <2> HIDE DEF ids
  <2> QED BY <1>1, <1>2 DEF ToDos
<1>4. Refresh(ids) \in TaskStates
  <2> HIDE DEF ids
  <2> QED BY <1>3 DEF Refresh, TaskStates
<1> QED BY <1>4, TaskStepType DEF PassBegins, Tasks

(* A step of an editor leaves the tables and the tasks alone. *)
LEMMA EditorStepType ==
    ASSUME CatalogTypeOK, NEW e \in Editors, NEW state \in EditorStates,
           state.pc # "idle" =>
              IF state.pc = "read" THEN Len(state.schemas) < Len(state.draft.def)
                                   ELSE Len(state.schemas) = Len(state.draft.def),
           editor' = [editor EXCEPT ![e] = state],
           version' \in [Workflows -> Seq(Versions)],
           UNCHANGED <<rows, process, task, history, edits, changes>>
    PROVE  CatalogTypeOK'
<1>1. editor' \in [Editors -> EditorStates] /\ \A i \in Editors : editor'[i] = IF i = e THEN state ELSE editor[i]
  BY DEF CatalogTypeOK
<1>2. \A i \in Editors : (editor[i].pc)' # "idle" =>
        IF (editor[i].pc)' = "read" THEN Len((editor[i].schemas)') < Len((editor[i].draft.def)')
                                    ELSE Len((editor[i].schemas)') = Len((editor[i].draft.def)')
  BY <1>1 DEF CatalogTypeOK
<1>3. TaskStates' = TaskStates
  BY DEF TaskStates, ToDos, ReadRows
<1> QED BY <1>1, <1>2, <1>3 DEF CatalogTypeOK, rows, history, Exists

(* The definition of a save and the job whose schema it reads next.        *)
LEMMA NextJob ==
    ASSUME CatalogTypeOK, NEW e \in Editors, editor[e].pc = "read"
    PROVE  /\ editor[e].draft.def \in Seq({editor[e].draft.def[j] : j \in DOMAIN editor[e].draft.def})
           /\ editor[e].schemas \in Seq(Schemas)
           /\ Len(editor[e].schemas) + 1 \in DOMAIN editor[e].draft.def
           /\ editor[e].draft.def[Len(editor[e].schemas) + 1].runner \in Runners
<1> DEFINE def == editor[e].draft.def
           n == Len(editor[e].schemas)
<1>1. editor[e].draft \in Drafts /\ editor[e].schemas \in Seq(Schemas) /\ n < Len(def)
  BY EditorShape
<1>2. def \in Seq({def[j] : j \in DOMAIN def}) /\ \A j \in DOMAIN def : def[j].runner \in Runners
  BY <1>1, DraftsAssumption
<1>3. n \in Nat /\ Len(def) \in Nat /\ DOMAIN def = 1..Len(def)
  BY <1>1, <1>2
<1>4. n + 1 \in DOMAIN def
  BY <1>1, <1>3
<1> QED BY <1>1, <1>2, <1>4

(* A save reads one schema after the other. *)
LEMMA EditorType ==
    ASSUME CatalogTypeOK, NEW e \in Editors,
           EditorStep(e) \/ \E w \in Workflows, draft \in Drafts : SaveBegins(e, w, draft)
    PROVE  CatalogTypeOK'
<1>0. version \in [Workflows -> Seq(Versions)]
  BY DEF CatalogTypeOK
<1>1. ASSUME NEW w \in Workflows, NEW draft \in Drafts, SaveBegins(e, w, draft)
      PROVE  CatalogTypeOK'
  <2> DEFINE state == [pc |-> "read", w |-> w, draft |-> draft, schemas |-> << >>]
  <2>1. state \in EditorStates
    BY DEF EditorStates
  <2>2. draft.def \in Seq({draft.def[j] : j \in DOMAIN draft.def}) /\ draft.def # << >>
    BY <1>1, DraftsAssumption DEF SaveBegins, FormAccepted
  <2>3. Len(<< >>) < Len(draft.def)
    BY <2>2
  <2>4. editor' = [editor EXCEPT ![e] = state]
    BY <1>1 DEF SaveBegins
  <2>5. version' \in [Workflows -> Seq(Versions)]
    BY <1>0, <1>1 DEF SaveBegins
  <2>6. UNCHANGED <<rows, process, task, history, edits, changes>>
    BY <1>1 DEF SaveBegins
  <2>7. state.pc = "read" /\ Len(state.schemas) < Len(state.draft.def)
    BY <2>3
  <2> HIDE DEF state
  <2> QED BY <2>1, <2>4, <2>5, <2>6, <2>7, EditorStepType
<1>2. CASE ReadSchema(e)
  <2> DEFINE def == editor[e].draft.def
             job == def[Len(editor[e].schemas) + 1]
             schemas == Append(editor[e].schemas, runner_jobs[job.runner][job.name])
             state == [editor[e] EXCEPT !.schemas = schemas,
                                        !.pc = IF Len(schemas) = Len(def) THEN "check" ELSE "read"]
  <2>1. editor[e].pc = "read"
    BY <1>2 DEF ReadSchema
  <2>2. /\ def \in Seq({def[j] : j \in DOMAIN def}) /\ editor[e].schemas \in Seq(Schemas)
        /\ job.runner \in Runners
    BY <2>1, NextJob
  <2>3. runner_jobs[job.runner][job.name] \in Schemas
    BY <1>2, <2>2, AdvertisedIsSchema DEF ReadSchema
  <2>4. schemas \in Seq(Schemas) /\ Len(schemas) = Len(editor[e].schemas) + 1
    <3>1. ASSUME NEW s \in Seq(Schemas), NEW x \in Schemas
          PROVE  Append(s, x) \in Seq(Schemas) /\ Len(Append(s, x)) = Len(s) + 1
      OBVIOUS
    <3>2. editor[e].schemas \in Seq(Schemas)
      BY <2>2
    <3> QED BY <2>3, <3>1, <3>2
  <2>5. editor[e] \in [pc : {"read", "check", "save"}, w : Workflows, draft : Drafts, schemas : Seq(Schemas)]
        /\ Len(editor[e].schemas) < Len(def)
    BY <2>1, EditorShape
  <2>6. Len(def) \in Nat /\ Len(editor[e].schemas) \in Nat
    BY <2>2
  <2>7. editor' = [editor EXCEPT ![e] = state]
    BY <1>2 DEF ReadSchema, CatalogTypeOK
  <2>8. version' \in [Workflows -> Seq(Versions)] /\ UNCHANGED <<rows, process, task, history, edits, changes>>
    BY <1>0, <1>2 DEF ReadSchema
  <2>9. /\ state \in [pc : {"read", "check", "save"}, w : Workflows, draft : Drafts, schemas : Seq(Schemas)]
        /\ state.schemas = schemas /\ state.draft.def = def
        /\ state.pc = IF Len(schemas) = Len(def) THEN "check" ELSE "read"
    <3> HIDE DEF schemas
    <3> QED BY <2>4, <2>5
  <2> HIDE DEF state, schemas, def
  <2>10. state \in EditorStates
    BY <2>9 DEF EditorStates
  <2>11. IF state.pc = "read" THEN Len(state.schemas) < Len(state.draft.def)
                              ELSE Len(state.schemas) = Len(state.draft.def)
    BY <2>4, <2>5, <2>6, <2>9
  <2> QED BY <2>7, <2>8, <2>10, <2>11, EditorStepType
<1>3. CASE CheckPasses(e)
  <2> DEFINE state == [editor[e] EXCEPT !.pc = "save"]
  <2>1. editor[e].pc = "check"
    BY <1>3 DEF CheckPasses
  <2>2. /\ state \in [pc : {"read", "check", "save"}, w : Workflows, draft : Drafts, schemas : Seq(Schemas)]
        /\ state.pc = "save" /\ Len(state.schemas) = Len(state.draft.def)
    BY <2>1, EditorShape
  <2>3. editor' = [editor EXCEPT ![e] = state]
    BY <1>3 DEF CheckPasses, CatalogTypeOK
  <2>4. version' \in [Workflows -> Seq(Versions)] /\ UNCHANGED <<rows, process, task, history, edits, changes>>
    BY <1>0, <1>3 DEF CheckPasses
  <2> HIDE DEF state
  <2>5. state \in EditorStates
    BY <2>2 DEF EditorStates
  <2> QED BY <2>2, <2>3, <2>4, <2>5, EditorStepType
<1>4. Idle \in EditorStates /\ Idle.pc = "idle"
  BY DEF EditorStates, Idle
<1>5. CASE SaveRefused(e)
  BY <1>0, <1>4, <1>5, EditorStepType DEF SaveRefused
<1>6. CASE Save(e)
  <2> DEFINE saved == [def |-> editor[e].draft.def, schemas |-> editor[e].schemas]
  <2>1. editor[e].w \in Workflows /\ editor[e].draft \in Drafts /\ editor[e].schemas \in Seq(Schemas)
    BY <1>6, EditorShape DEF Save
  <2>2. saved \in Versions
    BY <2>1 DEF Versions
  <2>3. version' = [version EXCEPT ![editor[e].w] = Append(@, saved)]
    BY <1>6 DEF Save
  <2> HIDE DEF saved
  <2>4. Append(version[editor[e].w], saved) \in Seq(Versions)
    BY <1>0, <2>1, <2>2
  <2>5. version' \in [Workflows -> Seq(Versions)]
    BY <1>0, <2>1, <2>3, <2>4
  <2> QED BY <1>4, <1>6, <2>5, EditorStepType DEF Save
<1> QED BY <1>1, <1>2, <1>3, <1>5, <1>6 DEF EditorStep

(* Every step keeps the types. *)
LEMMA NextType == CatalogTypeOK /\ RowsExist /\ [CatalogNext]_vars => CatalogTypeOK'
<1> SUFFICES ASSUME CatalogTypeOK, RowsExist, [CatalogNext]_vars PROVE CatalogTypeOK'
  OBVIOUS
<1>1. CASE UNCHANGED vars
  BY <1>1 DEF vars, rows, history, CatalogTypeOK, Exists, TaskStates, ToDos, ReadRows
<1>2. ASSUME NEW a \in Admins, ToggleWrites(a) PROVE CatalogTypeOK'
  <2>1. task[a].id \in Runners
    BY <1>2, TaskShape DEF ToggleWrites, Tasks
  <2> QED BY <1>2, <2>1, AdminType
<1> QED BY <1>1, <1>2, PassBeginsType, RefreshType, AdminType, update_runnerType, ProcessType,
           EditorType DEF CatalogNext

-----------------------------------------------------------------------------
(* Rows that are being gone over *)

(* A row as it was read: the runner still has one, and the URL read is its *)
(* URL as long as it has not moved.                                        *)
RowsRead == \A t \in Tasks : task[t].pc \in Refreshing => \A row \in task[t].todo :
    /\ Exists(row.id) /\ row.moved <= moved[row.id]
    /\ row.moved = moved[row.id] => row.url = runner[row.id].url

(* Between the two transactions of a refresh, the jobs stored come from    *)
(* the URL read, unless the row has moved or another answer was overtaken. *)
JobsStored == \A t \in Tasks : task[t].pc = "health" =>
    LET row == Current(t)
    IN  row.id \notin overtaken /\ row.moved = moved[row.id] => source[row.id] = row.url

(* What a save is about to store was found acceptable.                     *)
EditorChecked == \A e \in Editors : editor[e].pc = "save" =>
    /\ Accepted(editor[e].draft.def, editor[e].schemas)
    /\ LiteralsFit(editor[e].draft.def, editor[e].schemas)

CatalogInv == /\ CatalogTypeOK /\ RowsRead /\ JobsStored /\ KnownFromItsUrl
              /\ EditorChecked /\ SnapshotsAccepted

(* A row that was read is one that exists, or has been replaced since. *)
LEMMA ReadRowsExist == RowsRead => RowsExist
BY DEF RowsRead, RowsExist

(* The invariant holds at first. *)
LEMMA InitInv == CatalogInit => CatalogInv
<1> SUFFICES ASSUME CatalogInit PROVE CatalogInv
  OBVIOUS
<1>1. RowsRead /\ JobsStored
  BY DEF CatalogInit, RowsRead, JobsStored, Refreshing, Idle
<1>2. KnownFromItsUrl
  BY DEF CatalogInit, KnownFromItsUrl
<1>3. EditorChecked /\ SnapshotsAccepted
  BY DEF CatalogInit, EditorChecked, SnapshotsAccepted, Idle
<1> QED BY <1>1, <1>2, <1>3, InitType DEF CatalogInv

(* A step that reads no row and leaves the rows read as they are.          *)
LEMMA RowsKept ==
    ASSUME CatalogTypeOK, RowsRead, NEW t \in Tasks, NEW state,
           task' = [task EXCEPT ![t] = state],
           state.pc \in Refreshing => task[t].pc \in Refreshing /\ state.todo \subseteq task[t].todo,
           moved' = moved,
           \A r \in Runners : runner'[r].url = runner[r].url
    PROVE  RowsRead'
<1> SUFFICES ASSUME NEW i \in Tasks, (task[i].pc \in Refreshing)', NEW row \in task'[i].todo
             PROVE  /\ Exists(row.id)' /\ row.moved <= (moved[row.id])'
                    /\ row.moved = (moved[row.id])' => row.url = (runner[row.id].url)'
  BY DEF RowsRead
<1>1. task'[i] = IF i = t THEN state ELSE task[i]
  BY DEF CatalogTypeOK
<1>2. task[i].pc \in Refreshing /\ row \in task[i].todo
  BY <1>1 DEF Refreshing
<1>3. row.id \in Runners
  BY <1>2, TaskShape DEF ToDos, ReadRows
<1> QED BY <1>2, <1>3 DEF RowsRead, Exists

(* The rows a step of a refresh leaves to do.                              *)
LEMMA RestRows ==
    ASSUME NEW t \in Tasks, NEW row
    PROVE  /\ Rest(t, row).pc \in {"idle", "capabilities"}
           /\ Rest(t, row).pc \in Refreshing => Rest(t, row).todo \subseteq task[t].todo
BY DEF Rest, Idle, Refreshing

(* A refresh works on rows that were read. *)
LEMMA RefreshRows ==
    ASSUME CatalogTypeOK, RowsRead, NEW t \in Tasks, RefreshStep(t)
    PROVE  RowsRead'
<1> DEFINE row == Current(t)
<1>0. task[t].pc \in Refreshing /\ row.id \in Runners
  BY CurrentRow DEF RefreshStep, Refreshing
<1>1. ASSUME NEW health, SetHealth(t, row, health)
      PROVE  RowsRead'
  <2>1. \A r \in Runners : runner'[r].url = runner[r].url
    BY <1>0, <1>1 DEF SetHealth, CatalogTypeOK, Row
  <2> QED BY <1>0, <1>1, <2>1, RestRows, RowsKept DEF SetHealth
<1>2. CASE /\ task' = [task EXCEPT ![t] = Idle]
           /\ UNCHANGED <<rows, process, editor, version, history, edits, changes>>
  BY <1>2, RowsKept DEF Idle, Refreshing, rows, history
<1>3. CASE Compatible(t, row)
  <2>1. task' = [task EXCEPT ![t] = [task[t] EXCEPT !.pc = "list"]]
    BY <1>3 DEF Compatible
  <2>2. [task[t] EXCEPT !.pc = "list"].todo = task[t].todo
    BY <1>3, TaskShape DEF Compatible
  <2> QED BY <1>0, <1>3, <2>1, <2>2, RowsKept DEF Compatible, rows, history
<1>4. CASE Listed(t, row)
  BY <1>0, <1>4, RowsKept DEF Listed, rows, history
<1>5. CASE Replace(t, row)
  BY <1>0, <1>5, RowsKept DEF Replace
<1> QED BY <1>1, <1>2, <1>3, <1>4, <1>5 DEF RefreshStep, Unreachable, Incompatible, Healthy

(* A task that begins to go over rows as they are now. *)
LEMMA RowsBegun ==
    ASSUME CatalogTypeOK, RowsRead, NEW t \in Tasks, NEW ids \in SUBSET Runners,
           \A r \in ids : Exists(r),
           task' = [task EXCEPT ![t] = Refresh(ids)], UNCHANGED <<rows, history>>
    PROVE  RowsRead'
<1> SUFFICES ASSUME NEW i \in Tasks, (task[i].pc \in Refreshing)', NEW row \in task'[i].todo
             PROVE  /\ Exists(row.id)' /\ row.moved <= (moved[row.id])'
                    /\ row.moved = (moved[row.id])' => row.url = (runner[row.id].url)'
  BY DEF RowsRead
<1>1. CASE i = t
  <2>1. task'[i] = Refresh(ids)
    BY <1>1 DEF CatalogTypeOK
  <2>2. PICK r \in ids : row = ReadRow(r, runner[r].url)
    BY <2>1 DEF Refresh
  <2>3. moved[r] \in Nat
    BY CatalogBounds DEF CatalogTypeOK
  <2> QED BY <2>2, <2>3 DEF ReadRow, Exists, rows, history
<1>2. CASE i # t
  <2>1. task'[i] = task[i]
    BY <1>2 DEF CatalogTypeOK
  <2>2. row.id \in Runners
    BY <2>1, TaskShape DEF ToDos, ReadRows, Refreshing
  <2> QED BY <2>1, <2>2 DEF RowsRead, Exists, rows, history, Refreshing
<1> QED BY <1>1, <1>2

(* Every step keeps what is known of the rows being refreshed. *)
LEMMA NextRows == CatalogInv /\ [CatalogNext]_vars => RowsRead'
<1> SUFFICES ASSUME CatalogTypeOK, RowsRead, [CatalogNext]_vars PROVE RowsRead'
  BY DEF CatalogInv
<1>1. CASE UNCHANGED <<runner, task, moved>>
  BY <1>1 DEF RowsRead, Exists
<1>2. CASE PassBegins
  BY <1>2, RowsBegun DEF PassBegins, Tasks
<1>3. ASSUME NEW t \in Tasks, RefreshStep(t) PROVE RowsRead'
  BY <1>3, RefreshRows
<1>4. ASSUME NEW a \in Admins, NEW r \in Runners, NEW url \in Urls, create_runner(a, r, url)
      PROVE  RowsRead'
  <2> SUFFICES ASSUME NEW i \in Tasks, (task[i].pc \in Refreshing)', NEW row \in task'[i].todo
               PROVE  /\ Exists(row.id)' /\ row.moved <= (moved[row.id])'
                      /\ row.moved = (moved[row.id])' => row.url = (runner[row.id].url)'
    BY DEF RowsRead
  <2>0. a \in Tasks
    BY DEF Tasks
  <2>1. CASE i = a
    <3>1. task'[i].todo = {ReadRow(r, url)}
      BY <1>4, <2>0, <2>1 DEF create_runner, CatalogTypeOK
    <3>2. moved'[r] = moved[r] /\ moved[r] \in Nat /\ runner'[r].url = url /\ url # NoUrl
      BY <1>4, CatalogBounds, RunnersAssumption DEF create_runner, CatalogTypeOK, history
    <3> QED BY <3>1, <3>2 DEF ReadRow, Exists
  <2>2. CASE i # a
    <3>1. task'[i] = task[i]
      BY <1>4, <2>0, <2>2 DEF create_runner, CatalogTypeOK
    <3>2. row.id \in Runners /\ Exists(row.id)
      BY <3>1, TaskShape DEF ToDos, ReadRows, RowsRead
    <3>3. runner'[row.id] = runner[row.id] /\ moved' = moved
      BY <1>4, <3>2 DEF create_runner, CatalogTypeOK, history
    <3> QED BY <3>1, <3>2, <3>3 DEF RowsRead, Exists
  <2> QED BY <2>1, <2>2
<1>5. ASSUME NEW a \in Admins, NEW r \in Runners, test_runner(a, r) PROVE RowsRead'
  BY <1>5, RowsBegun DEF test_runner, Tasks
<1>6. ASSUME NEW a \in Admins, NEW r \in Runners, ToggleReads(a, r) PROVE RowsRead'
  BY <1>6, RowsKept DEF ToggleReads, Tasks, rows, history, Refreshing
<1>7. ASSUME NEW a \in Admins, ToggleWrites(a) PROVE RowsRead'
  <2>1. \A r \in Runners : runner'[r].url = runner[r].url
    BY <1>7, TaskShape DEF ToggleWrites, CatalogTypeOK, Row
  <2> QED BY <1>7, <2>1, RowsKept DEF ToggleWrites, Tasks, history, Refreshing, Idle
<1>8. ASSUME NEW r \in Runners, NEW url \in Urls, update_runner(r, url) PROVE RowsRead'
  <2> SUFFICES ASSUME NEW i \in Tasks, task[i].pc \in Refreshing, NEW row \in task[i].todo
               PROVE  /\ Exists(row.id)' /\ row.moved <= (moved[row.id])'
                      /\ row.moved = (moved[row.id])' => row.url = (runner[row.id].url)'
    BY <1>8 DEF RowsRead, update_runner
  <2>1. row.id \in Runners /\ row.moved \in Nat
    BY TaskShape DEF ToDos, ReadRows
  <2>2. moved[r] \in Nat /\ moved'[r] = moved[r] + 1 /\ runner'[r].url = url /\ url # NoUrl
    BY <1>8, CatalogBounds, RunnersAssumption DEF update_runner, CatalogTypeOK, Row
  <2>3. row.id # r => runner'[row.id] = runner[row.id] /\ moved'[row.id] = moved[row.id]
    BY <1>8, <2>1 DEF update_runner, CatalogTypeOK
  <2>4. Exists(row.id) /\ row.moved <= moved[row.id]
    BY DEF RowsRead
  <2>5. CASE row.id = r
    BY <2>1, <2>2, <2>4, <2>5 DEF Exists
  <2>6. CASE row.id # r
    BY <2>3, <2>6 DEF Exists, RowsRead
  <2> QED BY <2>5, <2>6
<1>9. ASSUME NEW u \in Urls, Fails(u) \/ \E m \in Manifests : Restarts(u, m) PROVE RowsRead'
  BY <1>1, <1>9 DEF Fails, Restarts, ProcessBecomes, rows, history
<1>10. ASSUME NEW e \in Editors, EditorStep(e) \/ \E w \in Workflows, draft \in Drafts : SaveBegins(e, w, draft)
       PROVE  RowsRead'
  BY <1>1, <1>10 DEF EditorStep, ReadSchema, CheckPasses, SaveRefused, Save, SaveBegins, rows, history
<1>11. CASE UNCHANGED vars
  BY <1>1, <1>11 DEF vars, rows, history
<1> QED BY <1>2, <1>3, <1>4, <1>5, <1>6, <1>7, <1>8, <1>9, <1>10, <1>11 DEF CatalogNext

-----------------------------------------------------------------------------
(* Where answers come from *)

(* A step that stores no answer, or leaves what is known of a runner.      *)
LEMMA KnownKept ==
    ASSUME KnownFromItsUrl, UNCHANGED <<runner_jobs, history>>,
           \A r \in Runners : runner'[r].url = runner[r].url /\ runner'[r].health = runner[r].health
    PROVE  KnownFromItsUrl'
BY DEF KnownFromItsUrl, history

(* A row is called healthy only with jobs that came from its URL. *)
LEMMA KnownAfterHealth ==
    ASSUME CatalogInv, NEW t \in Tasks, task[t].pc \in Refreshing, NEW health,
           SetHealth(t, Current(t), health),
           health = "healthy" => task[t].pc = "health"
    PROVE  KnownFromItsUrl'
<1> DEFINE row == Current(t)
<1>1. row \in task[t].todo /\ row.id \in Runners
  BY CurrentRow DEF CatalogInv
<1>2. SUFFICES ASSUME NEW r \in Runners \ overtaken'
               PROVE  /\ (runner_jobs[r] # NoJobs)' => (source[r])' = (runner[r].url)'
                      /\ (runner[r].health = "healthy")' => (source[r])' = (runner[r].url)'
  BY DEF KnownFromItsUrl
<1>3. r \notin overtaken /\ (r = row.id => moved[r] = row.moved)
  BY DEF SetHealth, Overtaken
<1>4. runner'[r].url = runner[r].url /\ source' = source /\ runner_jobs' = runner_jobs
  BY <1>1 DEF SetHealth, CatalogInv, CatalogTypeOK, Row
<1>5. CASE r = row.id
  <2>1. runner'[r].health = health
    BY <1>1, <1>5 DEF SetHealth, CatalogInv, CatalogTypeOK, Row
  <2>2. row.url = runner[r].url
    BY <1>1, <1>3, <1>5 DEF CatalogInv, RowsRead
  <2>3. task[t].pc = "health" => source[r] = row.url
    BY <1>3, <1>5 DEF CatalogInv, JobsStored
  <2> QED BY <1>3, <1>4, <2>1, <2>2, <2>3 DEF CatalogInv, KnownFromItsUrl
<1>6. CASE r # row.id
  <2>1. runner'[r] = runner[r]
    BY <1>1, <1>6 DEF SetHealth, CatalogInv, CatalogTypeOK
  <2> QED BY <1>3, <1>4, <2>1 DEF CatalogInv, KnownFromItsUrl
<1> QED BY <1>5, <1>6

(* Replacing the jobs of a runner keeps this. *)
LEMMA KnownAfterReplace ==
    ASSUME CatalogInv, NEW t \in Tasks, Replace(t, Current(t))
    PROVE  KnownFromItsUrl'
<1> DEFINE row == Current(t)
<1>1. row \in task[t].todo /\ row.id \in Runners /\ task[t].pc \in Refreshing
  BY CurrentRow DEF CatalogInv, Replace, Refreshing
<1>2. SUFFICES ASSUME NEW r \in Runners \ overtaken'
               PROVE  /\ (runner_jobs[r] # NoJobs)' => (source[r])' = (runner[r].url)'
                      /\ (runner[r].health = "healthy")' => (source[r])' = (runner[r].url)'
  BY DEF KnownFromItsUrl
<1>3. r \notin overtaken /\ (r = row.id => moved[r] = row.moved)
  BY DEF Replace, Overtaken
<1>4. runner' = runner
  BY DEF Replace
<1>5. CASE r = row.id
  <2>1. source'[r] = row.url
    BY <1>5 DEF Replace, CatalogInv, CatalogTypeOK
  <2>2. row.url = runner[r].url
    BY <1>1, <1>3, <1>5 DEF CatalogInv, RowsRead
  <2> QED BY <1>4, <2>1, <2>2
<1>6. CASE r # row.id
  <2>1. source'[r] = source[r] /\ runner_jobs'[r] = runner_jobs[r]
    BY <1>6 DEF Replace, CatalogInv, CatalogTypeOK
  <2> QED BY <1>3, <1>4, <2>1 DEF CatalogInv, KnownFromItsUrl
<1> QED BY <1>5, <1>6

(* So does every step. *)
LEMMA NextKnown == CatalogInv /\ [CatalogNext]_vars => KnownFromItsUrl'
<1> SUFFICES ASSUME CatalogInv, [CatalogNext]_vars PROVE KnownFromItsUrl'
  OBVIOUS
<1>0. CatalogTypeOK /\ KnownFromItsUrl
  BY DEF CatalogInv
<1>1. CASE UNCHANGED <<rows, history>>
  BY <1>0, <1>1, KnownKept DEF rows, history
<1>2. ASSUME NEW t \in Tasks, RefreshStep(t) PROVE KnownFromItsUrl'
  <2>1. task[t].pc \in Refreshing
    BY <1>2 DEF RefreshStep, Refreshing
  <2>2. ASSUME UNCHANGED <<rows, process, editor, version, history, edits, changes>>
        PROVE  KnownFromItsUrl'
    BY <1>1, <2>2
  <2>3. CASE Unreachable(t, Current(t))
    BY <2>1, <2>2, <2>3, KnownAfterHealth DEF Unreachable
  <2>4. CASE Incompatible(t, Current(t))
    BY <2>1, <2>4, KnownAfterHealth DEF Incompatible
  <2>5. CASE Compatible(t, Current(t)) \/ Listed(t, Current(t))
    BY <2>2, <2>5 DEF Compatible, Listed
  <2>6. CASE Replace(t, Current(t))
    BY <2>6, KnownAfterReplace
  <2>7. CASE Healthy(t, Current(t))
    BY <2>1, <2>7, KnownAfterHealth DEF Healthy
  <2> QED BY <1>2, <2>3, <2>4, <2>5, <2>6, <2>7 DEF RefreshStep
<1>3. ASSUME NEW a \in Admins, NEW i \in Runners, NEW url \in Urls, create_runner(a, i, url)
      PROVE  KnownFromItsUrl'
  <2> SUFFICES ASSUME NEW r \in Runners \ overtaken
               PROVE  /\ (runner_jobs[r] # NoJobs)' => (source[r])' = (runner[r].url)'
                      /\ (runner[r].health = "healthy")' => (source[r])' = (runner[r].url)'
    BY <1>3 DEF KnownFromItsUrl, create_runner, history
  <2>1. CASE r = i
    <3>1. runner_jobs'[r] = NoJobs /\ runner'[r].health = "unknown"
      BY <1>0, <1>3, <2>1 DEF create_runner, CatalogTypeOK
    <3> QED BY <3>1
  <2>2. CASE r # i
    BY <1>0, <1>3, <2>2 DEF create_runner, history, KnownFromItsUrl, CatalogTypeOK
  <2> QED BY <2>1, <2>2
<1>4. ASSUME NEW a \in Admins, ToggleWrites(a) PROVE KnownFromItsUrl'
  <2>1. \A r \in Runners : runner'[r].url = runner[r].url /\ runner'[r].health = runner[r].health
    BY <1>0, <1>4, TaskShape DEF ToggleWrites, CatalogTypeOK, Row
  <2> QED BY <1>0, <1>4, <2>1, KnownKept DEF ToggleWrites
<1>5. ASSUME NEW i \in Runners, NEW url \in Urls, update_runner(i, url) PROVE KnownFromItsUrl'
  <2> SUFFICES ASSUME NEW r \in Runners \ overtaken'
               PROVE  /\ (runner_jobs[r] # NoJobs)' => (source[r])' = (runner[r].url)'
                      /\ (runner[r].health = "healthy")' => (source[r])' = (runner[r].url)'
    BY DEF KnownFromItsUrl
  <2>1. CASE r = i
    <3>1. runner_jobs'[r] = NoJobs /\ runner'[r].health = "unknown"
      BY <1>0, <1>5, <2>1 DEF update_runner, CatalogTypeOK, Row
    <3> QED BY <3>1
  <2>2. CASE r # i
    <3>1. r \notin overtaken
      BY <1>5, <2>2 DEF update_runner
    <3>2. runner'[r] = runner[r] /\ runner_jobs'[r] = runner_jobs[r] /\ source'[r] = source[r]
      BY <1>0, <1>5, <2>2 DEF update_runner, CatalogTypeOK
    <3> QED BY <1>0, <3>1, <3>2 DEF KnownFromItsUrl
  <2> QED BY <2>1, <2>2
<1>6. ASSUME NEW a \in Admins, NEW r \in Runners, test_runner(a, r) \/ ToggleReads(a, r)
      PROVE  KnownFromItsUrl'
  BY <1>1, <1>6 DEF test_runner, ToggleReads
<1>7. CASE PassBegins
  BY <1>1, <1>7 DEF PassBegins
<1>8. ASSUME NEW u \in Urls, Fails(u) \/ \E m \in Manifests : Restarts(u, m) PROVE KnownFromItsUrl'
  BY <1>1, <1>8 DEF Fails, Restarts, ProcessBecomes
<1>9. ASSUME NEW e \in Editors, EditorStep(e) \/ \E w \in Workflows, draft \in Drafts : SaveBegins(e, w, draft)
      PROVE  KnownFromItsUrl'
  BY <1>1, <1>9 DEF EditorStep, ReadSchema, CheckPasses, SaveRefused, Save, SaveBegins
<1>10. CASE UNCHANGED vars
  BY <1>1, <1>10 DEF vars
<1> QED BY <1>2, <1>3, <1>4, <1>5, <1>6, <1>7, <1>8, <1>9, <1>10 DEF CatalogNext

-----------------------------------------------------------------------------
(* Between the two transactions of a refresh *)

(* A step of one task: the jobs another has stored may be replaced, by     *)
(* those of the same URL or of one that was overtaken.                     *)
LEMMA StoredByOthers ==
    ASSUME CatalogInv, NEW t \in Tasks, NEW state,
           task' = [task EXCEPT ![t] = state], state.pc # "health",
           moved' = moved, overtaken \subseteq overtaken',
           \A r \in Runners : source'[r] # source[r] =>
              r \in overtaken' \/ source'[r] = runner[r].url
    PROVE  JobsStored'
<1> SUFFICES ASSUME NEW i \in Tasks, task'[i].pc = "health",
                    Current(i)'.id \notin overtaken', Current(i)'.moved = moved[Current(i)'.id]
             PROVE  source'[Current(i)'.id] = Current(i)'.url
  BY DEF JobsStored
<1>1. i # t /\ task'[i] = task[i]
  BY DEF CatalogInv, CatalogTypeOK
<1>2. Current(i)' = Current(i)
  BY <1>1 DEF Current
<1>3. task[i].pc \in Refreshing /\ task[i].pc = "health"
  BY <1>1 DEF Refreshing
<1>4. Current(i) \in task[i].todo /\ Current(i).id \in Runners
  BY <1>3, CurrentRow DEF CatalogInv
<1>5. source[Current(i).id] = Current(i).url
  BY <1>2, <1>3 DEF CatalogInv, JobsStored
<1>6. Current(i).url = runner[Current(i).id].url
  BY <1>2, <1>3, <1>4 DEF CatalogInv, RowsRead
<1> QED BY <1>2, <1>4, <1>5, <1>6

(* A step that leaves the tables keeps what the refreshes have stored. *)
LEMMA StoredKept ==
    ASSUME CatalogInv, NEW t \in Tasks, NEW state, state.pc # "health",
           task' = [task EXCEPT ![t] = state], UNCHANGED history
    PROVE  JobsStored'
BY StoredByOthers DEF history

(* Before a refresh calls a runner healthy it has stored its jobs. *)
LEMMA RefreshStored ==
    ASSUME CatalogInv, NEW t \in Tasks, RefreshStep(t)
    PROVE  JobsStored'
<1> DEFINE row == Current(t)
<1>0. task[t].pc \in Refreshing /\ row.id \in Runners /\ row \in task[t].todo
  BY CurrentRow DEF RefreshStep, Refreshing, CatalogInv
<1>1. ASSUME NEW health, SetHealth(t, row, health)
      PROVE  JobsStored'
  <2>1. Rest(t, row).pc # "health"
    BY RestRows
  <2> QED BY <1>1, <2>1, StoredByOthers DEF SetHealth, Overtaken
<1>2. CASE /\ task' = [task EXCEPT ![t] = Idle]
           /\ UNCHANGED <<rows, process, editor, version, history, edits, changes>>
  <2>1. Idle.pc # "health"
    BY DEF Idle
  <2> QED BY <1>2, <2>1, StoredKept
<1>3. CASE Compatible(t, row)
  <2>1. task' = [task EXCEPT ![t] = [task[t] EXCEPT !.pc = "list"]]
    BY <1>3 DEF Compatible
  <2>2. [task[t] EXCEPT !.pc = "list"].pc = "list"
    BY <1>3, TaskShape DEF Compatible, CatalogInv
  <2> QED BY <1>3, <2>1, <2>2, StoredByOthers DEF Compatible, history
<1>4. CASE Listed(t, row)
  <2>1. PICK state : state.pc = "replace" /\ task' = [task EXCEPT ![t] = state]
    <3>1. task' = [task EXCEPT ![t] = [pc |-> "replace", todo |-> task[t].todo,
                                       jobs |-> process[row.url].jobs]]
      BY <1>4 DEF Listed
    <3> QED BY <3>1
  <2> QED BY <1>4, <2>1, StoredKept DEF Listed
<1>5. CASE Replace(t, row)
  <2> SUFFICES ASSUME NEW i \in Tasks, task'[i].pc = "health",
                      Current(i)'.id \notin overtaken', Current(i)'.moved = moved[Current(i)'.id]
               PROVE  source'[Current(i)'.id] = Current(i)'.url
    BY <1>5 DEF JobsStored, Replace
  <2>1. task'[i].todo = task[i].todo
    BY <1>5 DEF Replace, CatalogInv, CatalogTypeOK
  <2>2. Current(i)' = Current(i)
    BY <2>1 DEF Current
  <2>3. CASE i = t
    BY <1>0, <1>5, <2>2, <2>3 DEF Replace, CatalogInv, CatalogTypeOK
  <2>4. CASE i # t
    <3>1. task[i].pc = "health" /\ task[i].pc \in Refreshing
      BY <1>5, <2>4 DEF Replace, CatalogInv, CatalogTypeOK, Refreshing
    <3>2. Current(i) \in task[i].todo /\ Current(i).id \in Runners
      BY <3>1, CurrentRow DEF CatalogInv
    <3>3. Current(i).id \notin overtaken /\ (Current(i).id = row.id => row.moved = moved[row.id])
      BY <1>5, <2>2 DEF Replace, Overtaken
    <3>4. source[Current(i).id] = Current(i).url
      BY <2>2, <3>1, <3>3 DEF CatalogInv, JobsStored
    <3>5. CASE Current(i).id = row.id
      <4>1. Current(i).url = runner[row.id].url
        BY <2>2, <3>1, <3>2, <3>5 DEF CatalogInv, RowsRead
      <4>2. row.url = runner[row.id].url
        BY <1>0, <3>3, <3>5 DEF CatalogInv, RowsRead
      <4>3. source'[row.id] = row.url
        BY <1>0, <1>5 DEF Replace, CatalogInv, CatalogTypeOK
      <4> QED BY <2>2, <3>5, <4>1, <4>2, <4>3
    <3>6. CASE Current(i).id # row.id
      <4>1. source'[Current(i).id] = source[Current(i).id]
        BY <1>5, <3>2, <3>6 DEF Replace, CatalogInv, CatalogTypeOK
      <4> QED BY <2>2, <3>4, <4>1
    <3> QED BY <3>5, <3>6
  <2> QED BY <2>3, <2>4
<1> QED BY <1>1, <1>2, <1>3, <1>4, <1>5 DEF RefreshStep, Unreachable, Incompatible, Healthy

(* Every step keeps this. *)
LEMMA NextStored == CatalogInv /\ [CatalogNext]_vars => JobsStored'
<1> SUFFICES ASSUME CatalogInv, [CatalogNext]_vars PROVE JobsStored'
  OBVIOUS
<1>1. CASE UNCHANGED <<task, history>>
  BY <1>1 DEF CatalogInv, JobsStored, Current, history
<1>2. ASSUME NEW t \in Tasks, RefreshStep(t) PROVE JobsStored'
  BY <1>2, RefreshStored
<1>3. CASE PassBegins
  BY <1>3, StoredByOthers DEF PassBegins, Refresh, Tasks, history
<1>4. ASSUME NEW a \in Admins, NEW r \in Runners, NEW url \in Urls, create_runner(a, r, url)
      PROVE  JobsStored'
  <2>1. PICK state : task' = [task EXCEPT ![a] = state] /\ state.pc # "health" /\ UNCHANGED history
    <3> DEFINE begun == [pc |-> "capabilities", todo |-> {ReadRow(r, url)}]
    <3>1. begun.pc = "capabilities"
      OBVIOUS
    <3>2. task' = [task EXCEPT ![a] = begun] /\ UNCHANGED history
      BY <1>4 DEF create_runner
    <3> QED BY <3>1, <3>2
  <2> QED BY <2>1, StoredByOthers DEF Tasks, history
<1>5. ASSUME NEW a \in Admins, ToggleWrites(a) PROVE JobsStored'
  <2>1. Idle.pc # "health"
    BY DEF Idle
  <2> QED BY <1>5, <2>1, StoredKept DEF ToggleWrites, Tasks
<1>6. ASSUME NEW r \in Runners, NEW url \in Urls, update_runner(r, url) PROVE JobsStored'
  <2> SUFFICES ASSUME NEW i \in Tasks, task[i].pc = "health",
                      Current(i).id \notin overtaken', Current(i).moved = moved'[Current(i).id]
               PROVE  source'[Current(i).id] = Current(i).url
    BY <1>6 DEF JobsStored, update_runner, Current
  <2>1. Current(i) \in task[i].todo /\ Current(i).id \in Runners /\ Current(i).moved \in Nat
    BY CurrentRow DEF CatalogInv, Refreshing
  <2>2. Current(i).moved <= moved[Current(i).id]
    BY <2>1 DEF CatalogInv, RowsRead, Refreshing
  <2>3. Current(i).id # r
    <3>1. moved[r] \in Nat /\ moved'[r] = moved[r] + 1
      BY <1>6, CatalogBounds DEF update_runner, CatalogInv, CatalogTypeOK
    <3> QED BY <2>1, <2>2, <3>1
  <2>4. source'[Current(i).id] = source[Current(i).id] /\ moved'[Current(i).id] = moved[Current(i).id]
    BY <1>6, <2>1, <2>3 DEF update_runner, CatalogInv, CatalogTypeOK
  <2>5. Current(i).id \notin overtaken
    BY <1>6, <2>3 DEF update_runner
  <2> QED BY <2>4, <2>5 DEF CatalogInv, JobsStored
<1>7. ASSUME NEW u \in Urls, Fails(u) \/ \E m \in Manifests : Restarts(u, m) PROVE JobsStored'
  BY <1>1, <1>7 DEF Fails, Restarts, ProcessBecomes
<1>8. ASSUME NEW e \in Editors, EditorStep(e) \/ \E w \in Workflows, draft \in Drafts : SaveBegins(e, w, draft)
      PROVE  JobsStored'
  BY <1>1, <1>8 DEF EditorStep, ReadSchema, CheckPasses, SaveRefused, Save, SaveBegins
<1>9. CASE UNCHANGED vars
  BY <1>1, <1>9 DEF vars
<1>10. ASSUME NEW a \in Admins, NEW r \in Runners, test_runner(a, r) \/ ToggleReads(a, r)
       PROVE  JobsStored'
  <2>1. PICK state : task' = [task EXCEPT ![a] = state] /\ state.pc # "health" /\ UNCHANGED history
    BY <1>10 DEF test_runner, ToggleReads, Refresh
  <2> QED BY <2>1, StoredByOthers DEF Tasks, history
<1> QED BY <1>2, <1>3, <1>4, <1>5, <1>6, <1>7, <1>8, <1>9, <1>10 DEF CatalogNext

-----------------------------------------------------------------------------
(* Saved versions *)

(* A save that was checked is still accepted against what it has read. *)
LEMMA NextChecked == CatalogInv /\ [CatalogNext]_vars => EditorChecked'
<1> SUFFICES ASSUME CatalogTypeOK, EditorChecked, [CatalogNext]_vars PROVE EditorChecked'
  BY DEF CatalogInv
<1>1. CASE UNCHANGED editor
  BY <1>1 DEF EditorChecked
<1>2. ASSUME NEW e \in Editors, NEW state, editor' = [editor EXCEPT ![e] = state],
             state.pc # "save"
      PROVE  EditorChecked'
  BY <1>2 DEF EditorChecked, CatalogTypeOK
<1>3. ASSUME NEW e \in Editors, NEW w \in Workflows, NEW draft \in Drafts, SaveBegins(e, w, draft)
      PROVE  EditorChecked'
  <2>1. editor' = [editor EXCEPT ![e] = [pc |-> "read", w |-> w, draft |-> draft, schemas |-> << >>]]
    BY <1>3 DEF SaveBegins
  <2>2. [pc |-> "read", w |-> w, draft |-> draft, schemas |-> << >>].pc # "save"
    OBVIOUS
  <2> QED BY <1>2, <2>1, <2>2
<1>4. ASSUME NEW e \in Editors, ReadSchema(e) PROVE EditorChecked'
  <2>1. \A i \in Editors : i # e => editor'[i] = editor[i]
    BY <1>4 DEF ReadSchema, CatalogTypeOK
  <2>2. editor'[e].pc # "save"
    <3>1. editor[e].pc = "read"
      BY <1>4 DEF ReadSchema
    <3>2. editor[e] \in [pc : {"read", "check", "save"}, w : Workflows, draft : Drafts,
                         schemas : Seq(Schemas)]
      BY <3>1, EditorShape
    <3> QED BY <1>4, <3>2 DEF ReadSchema, CatalogTypeOK
  <2> QED BY <2>1, <2>2 DEF EditorChecked
<1>5. ASSUME NEW e \in Editors, CheckPasses(e) PROVE EditorChecked'
  <2>1. \A i \in Editors : i # e => editor'[i] = editor[i]
    BY <1>5 DEF CheckPasses, CatalogTypeOK
  <2>2. editor'[e].draft = editor[e].draft /\ editor'[e].schemas = editor[e].schemas
    <3>1. editor[e].pc = "check"
      BY <1>5 DEF CheckPasses
    <3>2. editor[e] \in [pc : {"read", "check", "save"}, w : Workflows, draft : Drafts,
                         schemas : Seq(Schemas)]
      BY <3>1, EditorShape
    <3> QED BY <1>5, <3>2 DEF CheckPasses, CatalogTypeOK
  <2>3. Accepted(editor[e].draft.def, editor[e].schemas) /\ LiteralsFit(editor[e].draft.def, editor[e].schemas)
    BY <1>5 DEF CheckPasses, Checked
  <2> QED BY <2>1, <2>2, <2>3 DEF EditorChecked
<1>6. ASSUME NEW e \in Editors, SaveRefused(e) \/ Save(e) PROVE EditorChecked'
  <2>1. Idle.pc # "save"
    BY DEF Idle
  <2> QED BY <1>2, <1>6, <2>1 DEF SaveRefused, Save
<1>7. CASE PassBegins \/ \E t \in Tasks : RefreshStep(t)
  BY <1>1, <1>7 DEF PassBegins, RefreshStep, Unreachable, Incompatible, Compatible, Listed,
                    Replace, Healthy, SetHealth
<1>8. CASE \/ \E a \in Admins, r \in Runners :
                \/ \E url \in Urls : create_runner(a, r, url)
                \/ test_runner(a, r) \/ ToggleReads(a, r)
           \/ \E a \in Admins : ToggleWrites(a)
           \/ \E r \in Runners, url \in Urls : update_runner(r, url)
  BY <1>1, <1>8 DEF create_runner, test_runner, ToggleReads, ToggleWrites, update_runner
<1>9. CASE \E u \in Urls : Fails(u) \/ \E m \in Manifests : Restarts(u, m)
  BY <1>1, <1>9 DEF Fails, Restarts, ProcessBecomes
<1>10. CASE UNCHANGED vars
  BY <1>1, <1>10 DEF vars
<1> QED BY <1>3, <1>4, <1>5, <1>6, <1>7, <1>8, <1>9, <1>10 DEF CatalogNext, EditorStep

(* What is saved was accepted against its snapshot. *)
LEMMA NextSnapshots == CatalogInv /\ [CatalogNext]_vars => SnapshotsAccepted'
<1> SUFFICES ASSUME CatalogTypeOK, EditorChecked, SnapshotsAccepted, [CatalogNext]_vars
             PROVE  SnapshotsAccepted'
  BY DEF CatalogInv
<1>1. CASE UNCHANGED version
  BY <1>1 DEF SnapshotsAccepted
<1>2. ASSUME NEW e \in Editors, Save(e) PROVE SnapshotsAccepted'
  <2> DEFINE saved == [def |-> editor[e].draft.def, schemas |-> editor[e].schemas]
             to == editor[e].w
  <2>1. /\ to \in Workflows /\ version[to] \in Seq(Versions)
        /\ saved \in Versions
    BY <1>2, EditorShape DEF Save, CatalogTypeOK, Versions
  <2>2. version'[to] = Append(version[to], saved) /\ \A w \in Workflows : w # to => version'[w] = version[w]
    BY <1>2, <2>1 DEF Save, CatalogTypeOK
  <2>3. Accepted(saved.def, saved.schemas) /\ LiteralsFit(saved.def, saved.schemas)
    BY <1>2 DEF Save, EditorChecked
  <2> HIDE DEF saved, to
  <2>4. \A v \in DOMAIN version'[to] :
           version'[to][v] = saved \/ (v \in DOMAIN version[to] /\ version'[to][v] = version[to][v])
    BY <2>1, <2>2
  <2>5. ASSUME NEW w \in Workflows, NEW v \in DOMAIN version'[w]
        PROVE  /\ Accepted(version'[w][v].def, version'[w][v].schemas)
               /\ LiteralsFit(version'[w][v].def, version'[w][v].schemas)
    BY <2>2, <2>3, <2>4 DEF SnapshotsAccepted
  <2> QED BY <2>5 DEF SnapshotsAccepted
<1>3. CASE \E e \in Editors : \/ ReadSchema(e) \/ CheckPasses(e) \/ SaveRefused(e)
                              \/ \E w \in Workflows, draft \in Drafts : SaveBegins(e, w, draft)
  BY <1>1, <1>3 DEF ReadSchema, CheckPasses, SaveRefused, SaveBegins
<1>4. CASE PassBegins \/ \E t \in Tasks : RefreshStep(t)
  BY <1>1, <1>4 DEF PassBegins, RefreshStep, Unreachable, Incompatible, Compatible, Listed,
                    Replace, Healthy, SetHealth
<1>5. CASE \/ \E a \in Admins, r \in Runners :
                \/ \E url \in Urls : create_runner(a, r, url)
                \/ test_runner(a, r) \/ ToggleReads(a, r)
           \/ \E a \in Admins : ToggleWrites(a)
           \/ \E r \in Runners, url \in Urls : update_runner(r, url)
  BY <1>1, <1>5 DEF create_runner, test_runner, ToggleReads, ToggleWrites, update_runner
<1>6. CASE \E u \in Urls : Fails(u) \/ \E m \in Manifests : Restarts(u, m)
  BY <1>1, <1>6 DEF Fails, Restarts, ProcessBecomes
<1>7. CASE UNCHANGED vars
  BY <1>1, <1>7 DEF vars
<1> QED BY <1>2, <1>3, <1>4, <1>5, <1>6, <1>7 DEF CatalogNext, EditorStep

(* Every step keeps the invariant. *)
LEMMA NextInv == CatalogInv /\ [CatalogNext]_vars => CatalogInv'
BY NextType, ReadRowsExist, NextRows, NextStored, NextKnown, NextChecked, NextSnapshots
   DEF CatalogInv

(* What the report says follows from what was saved and from what is typed. *)
LEMMA InvReport == CatalogInv => ReportIsSound
<1> SUFFICES ASSUME CatalogTypeOK, SnapshotsAccepted,
                    NEW w \in Workflows, NEW v \in DOMAIN version[w],
                    Report(version[w][v].def, version[w][v].schemas, runner_jobs) # "incompatible"
             PROVE  Accepted(version[w][v].def, Now(version[w][v].def, runner_jobs))
  BY DEF CatalogInv, ReportIsSound
<1> DEFINE def == version[w][v].def
           saved == version[w][v].schemas
<1>1. version[w][v] \in Versions
  <2>1. version[w] \in Seq(Versions)
    BY DEF CatalogTypeOK
  <2> QED BY <2>1
<1>2. saved \in Seq(Schemas)
  BY <1>1 DEF Versions
<1>3. Accepted(def, saved) /\ DOMAIN saved = DOMAIN def
  BY DEF SnapshotsAccepted, Accepted
<1> HIDE DEF def, saved
<1>4. ASSUME NEW j \in DOMAIN def PROVE Plain(saved[j]) /\ Plain(Now(def, runner_jobs)[j])
  <2>1. saved[j] \in Schemas
    BY <1>2, <1>3
  <2>2. Advertises(runner_jobs, def[j])
    BY <1>3, JobCompared DEF def, saved
  <2>3. def[j].runner \in Runners /\ def[j].name \in DOMAIN runner_jobs[def[j].runner]
    BY <2>2 DEF Advertises, CatalogTypeOK
  <2>4. Now(def, runner_jobs)[j] \in Schemas
    BY <2>3, AdvertisedIsSchema DEF Now
  <2> QED BY <2>1, <2>4, SchemasPlain
<1> QED BY <1>3, <1>4, ReportSound DEF def, saved

-----------------------------------------------------------------------------
(* The theorems *)

(* The inductive invariant of catalogues and saved workflows always holds. *)
LEMMA Invariant == CatalogSpec => []CatalogInv
BY InitInv, NextInv, PTL DEF CatalogSpec

(* The tables and every step of a refresh or a save have their types: a    *)
(* refresh that goes on has a row to go on with, a save has read a schema  *)
(* for each of its jobs (refresh_runner_health, validate_workflow_runners).*)
THEOREM CatalogTypeCorrect == CatalogSpec => []CatalogTypeOK
<1>1. CatalogInv => CatalogTypeOK
  BY DEF CatalogInv
<1> QED BY <1>1, Invariant, PTL

(* Every saved version is acceptable against the schemas saved with it,    *)
(* whatever refreshes store while it is checked                            *)
(* (insert_workflow_version_job_schemas).                                  *)
THEOREM SavedAccepted == CatalogSpec => []SnapshotsAccepted
<1>1. CatalogInv => SnapshotsAccepted
  BY DEF CatalogInv
<1> QED BY <1>1, Invariant, PTL

(* A saved version that workflow_schema_report does not call incompatible  *)
(* would be accepted against what its runners advertise at that moment.    *)
THEOREM ReportAlwaysSound == CatalogSpec => []ReportIsSound
BY InvReport, Invariant, PTL

(* What the tables say of a runner comes from the URL in its row, for any  *)
(* number of URL changes, unless the answer of a refresh that had read the *)
(* row before was stored after one (update_runner, refresh_runner_health). *)
THEOREM KnownFromOwnUrl == CatalogSpec => []KnownFromItsUrl
<1>1. CatalogInv => KnownFromItsUrl
  BY DEF CatalogInv
<1> QED BY <1>1, Invariant, PTL
=============================================================================
