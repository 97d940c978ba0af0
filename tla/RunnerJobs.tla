----------------------------- MODULE RunnerJobs -----------------------------
(***************************************************************************)
(* The job store of janus-runner (jobs/store.rs, jobs/execution.rs) and    *)
(* the part of main.rs that starts it and shuts it down.                   *)
(*                                                                         *)
(* A job is identified by the idempotency key of the request that created  *)
(* it (job_id is a hash of the key).  Concurrent actors: the HTTP handlers *)
(* of create_job and cancel_job (one thread each), one run_job task per    *)
(* job, the shutdown future, the operating-system processes of the jobs.   *)
(* An action is what happens between two points where another actor may    *)
(* act: a lock acquisition, an await, or a call on a file.  The process    *)
(* may crash and start again; only dirs, meta, tmp and the operating-      *)
(* system processes survive.                                               *)
(*                                                                         *)
(* metadata.json is reduced to its status, the request it was created for  *)
(* (name and hash of the body) and the failure category, which are what    *)
(* the runner and the server decide by.  Logs, timestamps, terminal        *)
(* reasons and work directories are left out.  It is written by way of one *)
(* temporary file per job that all its writers share (storage.rs).         *)
(***************************************************************************)
EXTENDS Naturals

CONSTANTS
    Keys,           \* idempotency keys
    Names,          \* job names that have a manifest
    Bodies,         \* request bodies, up to their hash
    Creators,       \* concurrent create_job handlers
    Cancelers,      \* concurrent cancel_job handlers
    Concurrency,    \* the concurrency field of each manifest
    Faults,         \* what the environment may do: failures, an operator's stop
    NoReq           \* stands for the request of a job that does not exist

ConcurrencyModes == {"parallel", "job_exclusive", "global_exclusive"}

FaultKinds == {"crash", "shutdown", "setup", "spawn", "wait", "capture", "outputs",
               "persist"}

ASSUME ConcurrencyAssumption == Concurrency \in [Names -> ConcurrencyModes]
ASSUME FaultsAssumption == Faults \subseteq FaultKinds
ASSUME NoReqAssumption == NoReq \notin Names \X Bodies
ASSUME WritersAssumption == {"run_job", "begin_shutdown"} \cap Cancelers = {}

VARIABLES
    up,             \* the runner process is alive and has recovered
    dirs,           \* the keys whose job directory exists
    meta,           \* metadata.json of each key (NoMeta: no such file)
    tmp,            \* .metadata.json.tmp of each key (NoMeta: no such file)
    handle,         \* how far each writer is with its write for each key
    running_jobs,   \* the in-memory registry: records of key and name
    cancel_tx,      \* the value of the watch channel of each running job
    exec,           \* the run_job task of each key
    group,          \* the live processes of each job's process group
    creator,        \* the state of each create_job handler
    canceler,       \* the state of each cancel_job handler
    shutdown,       \* the shutdown future, and the shutting_down flag
    spawned,        \* history: processes spawned for a key (2: two or more)
    accepted,       \* history: requests a create_job answered with success
    overlapped,     \* history: keys two writers wrote metadata.json of at once
    lost            \* history: keys whose unreadable record recovery removed

(* What a write of metadata.json changes. *)
files == <<meta, tmp, handle, overlapped>>

vars == <<up, dirs, meta, tmp, handle, running_jobs, cancel_tx, exec, group,
          creator, canceler, shutdown, spawned, accepted, overlapped, lost>>

-----------------------------------------------------------------------------
(* The values the variables range over. *)

Requests == Names \X Bodies

Terminal == {"success", "failed", "timed_out", "canceled"}

Statuses == {"running", "cancel_requested", "canceling"} \cup Terminal

Categories == {"none", "job", "infra", "timeout", "canceled"}

(* What may be in metadata.json, or in its temporary file: a record,       *)
(* nothing yet, or text that is not JSON.                                  *)
Metadata == [status : Statuses \cup {"none", "empty", "torn"},
             req : Requests \cup {NoReq}, category : Categories]

NoRecord(status) == [status |-> status, req |-> NoReq, category |-> "none"]

NoMeta == NoRecord("none")      \* there is no file
Empty  == NoRecord("empty")     \* created or truncated, nothing written yet
Torn   == NoRecord("torn")      \* the rest of a longer text follows a shorter

Readable(m) == m.status \in Statuses

NewMeta(req) == [status |-> "running", req |-> req, category |-> "none"]

(* What execute_process returns. *)
Outcome(status, category) == [status |-> status, category |-> category]

Outcomes == [status : Terminal, category : Categories]

NoOutcome == Outcome("failed", "infra")

ExecPc == {"none", "start", "loop", "mark", "terminate", "drain", "finish",
           "persist", "remove"}

NoExec == [pc |-> "none", req |-> NoReq, out |-> NoOutcome]

Idle == [pc |-> "idle"]

CreatorStates == {Idle} \cup [pc : {"checked", "inserted", "setup"},
                              key : Keys, req : Requests]

CancelerStates == {Idle} \cup [pc : {"found", "send"}, key : Keys]
                         \cup [pc : {"read"}, key : Keys, seen : Metadata]

(* Who writes metadata.json once it exists, and the file a writer's handle *)
(* refers to: the temporary file, the file that was since renamed to       *)
(* metadata.json, one that was replaced there; shut when it has written.   *)
Writers == Cancelers \cup {"run_job", "begin_shutdown"}

Places == {"none", "tmp", "meta", "gone", "shut"}

ShutdownStates == [pc : {"off", "flagged", "draining", "closing"}]
                  \cup [pc : {"signaling"}, todo : SUBSET Keys]
                  \cup [pc : {"read"}, todo : SUBSET Keys, key : Keys,
                        seen : Metadata]

-----------------------------------------------------------------------------
(* Helpers. *)

Registered == {job.key : job \in running_jobs}

is_terminal(status) == status \in Terminal

(* Mutant: a parallel job is admitted without a look at the registry. *)
enforce_concurrency_ParallelAlways(name) ==
    CASE Concurrency[name] = "parallel" -> TRUE
      [] Concurrency[name] = "job_exclusive" ->
            \A job \in running_jobs : /\ Concurrency[job.name] # "global_exclusive"
                                      /\ job.name # name
      [] Concurrency[name] = "global_exclusive" -> running_jobs = {}

(* The manifest of name may start next to the jobs in the registry. *)
enforce_concurrency(name) ==
    CASE Concurrency[name] = "parallel" ->
            \A job \in running_jobs : Concurrency[job.name] # "global_exclusive"
      [] Concurrency[name] = "job_exclusive" ->
            \A job \in running_jobs : /\ Concurrency[job.name] # "global_exclusive"
                                      /\ job.name # name
      [] Concurrency[name] = "global_exclusive" -> running_jobs = {}

(* transition_metadata_status up to its write: the metadata read lets the  *)
(* status move from running to cancel_requested.                           *)
MayRequestCancel(seen) == seen.status = "running"

(* The text written from the start of a file that holds old: a longer old  *)
(* text shows behind it (how long the texts are is left open).             *)
Overlay(old, text) == IF old \in {Empty, text} THEN {text} ELSE {text, Torn}

(* The running_jobs mutex is held by begin_shutdown while it signals. *)
RegistryUnlocked == shutdown.pc \notin {"signaling", "read"}

(* Mutant: create_job takes no lock. *)
CreateUnlocked_NoLock == TRUE

(* create_lock is held from admission to the end of create_job. *)
CreateUnlocked == \A c \in Creators : creator[c].pc \notin {"inserted", "setup"}

shutting_down == shutdown.pc # "off"

(* The listener accepts requests until the shutdown future has returned. *)
Serving == up /\ shutdown.pc # "closing"

-----------------------------------------------------------------------------
(* atomic_write of metadata.json, which takes no lock *)

(* The temporary file is created, or truncated under whoever has it open. *)
Open(w, k) ==
    /\ handle[k][w] = "none"
    /\ tmp' = [tmp EXCEPT ![k] = Empty]
    /\ handle' = [handle EXCEPT ![k][w] = "tmp"]
    /\ overlapped' = IF \E v \in Writers : handle[k][v] # "none"
                     THEN overlapped \cup {k} ELSE overlapped
    /\ UNCHANGED meta

(* write_all, to the file that was opened, whatever its name is by now. *)
Fill(w, k, text) ==
    /\ \/ /\ handle[k][w] = "tmp"
          /\ \E new \in Overlay(tmp[k], text) : tmp' = [tmp EXCEPT ![k] = new]
          /\ UNCHANGED meta
       \/ /\ handle[k][w] = "meta"
          /\ \E new \in Overlay(meta[k], text) : meta' = [meta EXCEPT ![k] = new]
          /\ UNCHANGED tmp
       \/ /\ handle[k][w] = "gone"
          /\ UNCHANGED <<tmp, meta>>
    /\ handle' = [handle EXCEPT ![k][w] = "shut"]
    /\ UNCHANGED overlapped

(* rename publishes what the temporary file holds by now; it fails when    *)
(* another writer has renamed it.                                          *)
Renames(k) == tmp[k].status # "none"

Renamed(place) == CASE place = "tmp"  -> "meta"
                    [] place = "meta" -> "gone"
                    [] OTHER          -> place

Publish(w, k) ==
    /\ handle[k][w] = "shut"
    /\ \/ /\ Renames(k)
          /\ meta' = [meta EXCEPT ![k] = tmp[k]]
          /\ tmp' = [tmp EXCEPT ![k] = NoMeta]
          /\ handle' = [handle EXCEPT ![k] = [v \in Writers |->
                IF v = w THEN "none" ELSE Renamed(handle[k][v])]]
       \/ /\ ~Renames(k)
          /\ handle' = [handle EXCEPT ![k][w] = "none"]
          /\ UNCHANGED <<meta, tmp>>
    /\ UNCHANGED overlapped

-----------------------------------------------------------------------------
Init ==
    /\ up = TRUE
    /\ dirs = {}
    /\ meta = [k \in Keys |-> NoMeta]
    /\ tmp = [k \in Keys |-> NoMeta]
    /\ handle = [k \in Keys |-> [w \in Writers |-> "none"]]
    /\ running_jobs = {}
    /\ cancel_tx = [k \in Keys |-> FALSE]
    /\ exec = [k \in Keys |-> NoExec]
    /\ group = [k \in Keys |-> {}]
    /\ creator = [c \in Creators |-> Idle]
    /\ canceler = [x \in Cancelers |-> Idle]
    /\ shutdown = [pc |-> "off"]
    /\ spawned = [k \in Keys |-> 0]
    /\ accepted = {}
    /\ overlapped = {}
    /\ lost = {}

-----------------------------------------------------------------------------
(* create_job *)

(* The shutting_down check, before create_lock is taken. *)
CreateCheck(c, k, req) ==
    /\ Serving
    /\ creator[c].pc = "idle"
    /\ ~shutting_down
    /\ creator' = [creator EXCEPT ![c] = [pc |-> "checked", key |-> k, req |-> req]]
    /\ UNCHANGED <<up, dirs, files, running_jobs, cancel_tx, exec, group,
                   canceler, shutdown, spawned, accepted, lost>>

(* Input validation fails (an input artifact may have expired since the    *)
(* first attempt), before the idempotency key is looked at.                *)
CreateInvalid(c) ==
    /\ creator[c].pc = "checked"
    /\ CreateUnlocked
    /\ creator' = [creator EXCEPT ![c] = Idle]
    /\ UNCHANGED <<up, dirs, files, running_jobs, cancel_tx, exec, group,
                   canceler, shutdown, spawned, accepted, lost>>

(* Mutant: the stored request is not compared with the one at hand. *)
CreateExisting_NoCompare(c) ==
    /\ creator[c].pc = "checked"
    /\ CreateUnlocked
    /\ creator[c].key \in dirs
    /\ accepted' = IF Readable(meta[creator[c].key])
                   THEN accepted \cup {<<creator[c].key, creator[c].req>>}
                   ELSE accepted
    /\ creator' = [creator EXCEPT ![c] = Idle]
    /\ UNCHANGED <<up, dirs, files, running_jobs, cancel_tx, exec, group,
                   canceler, shutdown, spawned, lost>>

(* load_existing_job_for_request: the stored job answers the request, or   *)
(* the request differs or the metadata cannot be read and it is refused.   *)
CreateExisting(c) ==
    LET k   == creator[c].key
        req == creator[c].req
    IN /\ creator[c].pc = "checked"
       /\ CreateUnlocked
       /\ k \in dirs
       /\ accepted' = IF Readable(meta[k]) /\ meta[k].req = req
                      THEN accepted \cup {<<k, req>>}
                      ELSE accepted
       /\ creator' = [creator EXCEPT ![c] = Idle]
       /\ UNCHANGED <<up, dirs, files, running_jobs, cancel_tx, exec, group,
                      canceler, shutdown, spawned, lost>>

(* A new key: enforce_concurrency and the insertion, under running_jobs. *)
CreateInsert(c) ==
    LET k    == creator[c].key
        name == creator[c].req[1]
    IN /\ creator[c].pc = "checked"
       /\ CreateUnlocked
       /\ RegistryUnlocked
       /\ k \notin dirs
       /\ enforce_concurrency(name)
       /\ running_jobs' = running_jobs \cup {[key |-> k, name |-> name]}
       /\ cancel_tx' = [cancel_tx EXCEPT ![k] = FALSE]
       /\ creator' = [creator EXCEPT ![c].pc = "inserted"]
       /\ UNCHANGED <<up, dirs, files, exec, group, canceler, shutdown, spawned,
                      accepted, lost>>

CreateConflict(c) ==
    /\ creator[c].pc = "checked"
    /\ CreateUnlocked
    /\ RegistryUnlocked
    /\ creator[c].key \notin dirs
    /\ ~enforce_concurrency(creator[c].req[1])
    /\ creator' = [creator EXCEPT ![c] = Idle]
    /\ UNCHANGED <<up, dirs, files, running_jobs, cancel_tx, exec, group,
                   canceler, shutdown, spawned, accepted, lost>>

(* The work, output and log files are created. *)
CreateDir(c) ==
    /\ creator[c].pc = "inserted"
    /\ dirs' = dirs \cup {creator[c].key}
    /\ creator' = [creator EXCEPT ![c].pc = "setup"]
    /\ UNCHANGED <<up, files, running_jobs, cancel_tx, exec, group, canceler,
                   shutdown, spawned, accepted, lost>>

(* metadata.json is written, run_job is spawned and the request answered.  *)
(* One step: nobody else writes a record before there is one to read.      *)
CreatePersist(c) ==
    LET k   == creator[c].key
        req == creator[c].req
    IN /\ creator[c].pc = "setup"
       /\ meta' = [meta EXCEPT ![k] = NewMeta(req)]
       /\ exec' = [exec EXCEPT ![k] = [pc |-> "start", req |-> req, out |-> NoOutcome]]
       /\ accepted' = accepted \cup {<<k, req>>}
       /\ creator' = [creator EXCEPT ![c] = Idle]
       /\ UNCHANGED <<up, dirs, tmp, handle, running_jobs, cancel_tx, group,
                      canceler, shutdown, spawned, overlapped, lost>>

(* A directory or file cannot be created: the registry entry is removed,   *)
(* what was created of the directory stays.                                *)
CreateSetupFails(c) ==
    /\ "setup" \in Faults
    /\ creator[c].pc \in {"inserted", "setup"}
    /\ RegistryUnlocked
    /\ running_jobs' = {job \in running_jobs : job.key # creator[c].key}
    /\ creator' = [creator EXCEPT ![c] = Idle]
    /\ UNCHANGED <<up, dirs, files, cancel_tx, exec, group, canceler, shutdown,
                   spawned, accepted, lost>>

-----------------------------------------------------------------------------
(* cancel_job *)

(* The registry lookup.  A job that is not registered is answered from its *)
(* metadata and nothing changes.                                           *)
CancelLookup(x, k) ==
    /\ Serving
    /\ canceler[x].pc = "idle"
    /\ RegistryUnlocked
    /\ k \in Registered
    /\ canceler' = [canceler EXCEPT ![x] = [pc |-> "found", key |-> k]]
    /\ UNCHANGED <<up, dirs, files, running_jobs, cancel_tx, exec, group,
                   creator, shutdown, spawned, accepted, lost>>

(* transition_metadata_status reads the file; one that is missing or does  *)
(* not parse is an error that ends the request before the signal is sent.  *)
CancelRead(x) ==
    LET k == canceler[x].key
    IN /\ canceler[x].pc = "found"
       /\ canceler' = [canceler EXCEPT ![x] =
              CASE ~Readable(meta[k]) -> Idle
                [] Readable(meta[k]) /\ MayRequestCancel(meta[k]) ->
                      [pc |-> "read", key |-> k, seen |-> meta[k]]
                [] OTHER -> [pc |-> "send", key |-> k]]
       /\ UNCHANGED <<up, dirs, files, running_jobs, cancel_tx, exec, group,
                      creator, shutdown, spawned, accepted, lost>>

(* ... and writes back what it read, with the new status. *)
CancelOpen(x) ==
    /\ canceler[x].pc = "read"
    /\ Open(x, canceler[x].key)
    /\ UNCHANGED <<up, dirs, running_jobs, cancel_tx, exec, group, creator,
                   canceler, shutdown, spawned, accepted, lost>>

CancelFill(x) ==
    /\ canceler[x].pc = "read"
    /\ Fill(x, canceler[x].key, [canceler[x].seen EXCEPT !.status = "cancel_requested"])
    /\ UNCHANGED <<up, dirs, running_jobs, cancel_tx, exec, group, creator,
                   canceler, shutdown, spawned, accepted, lost>>

(* A write that fails is an error too: no signal is sent. *)
CancelPublish(x) ==
    LET k == canceler[x].key
    IN /\ canceler[x].pc = "read"
       /\ Publish(x, k)
       /\ canceler' = [canceler EXCEPT ![x] =
              IF Renames(k) THEN [pc |-> "send", key |-> k] ELSE Idle]
       /\ UNCHANGED <<up, dirs, running_jobs, cancel_tx, exec, group, creator,
                      shutdown, spawned, accepted, lost>>

(* cancel_tx.send: fails, with no effect, when run_job dropped the receiver. *)
CancelSend(x) ==
    LET k == canceler[x].key
    IN /\ canceler[x].pc = "send"
       /\ cancel_tx' = [cancel_tx EXCEPT ![k] = @ \/ k \in Registered]
       /\ canceler' = [canceler EXCEPT ![x] = Idle]
       /\ UNCHANGED <<up, dirs, files, running_jobs, exec, group, creator,
                      shutdown, spawned, accepted, lost>>

-----------------------------------------------------------------------------
(* run_job: execute_process *)

(* The script is started in a process group of its own; it may leave a     *)
(* background child that inherits the output pipes.                        *)
Spawn(k) ==
    /\ exec[k].pc = "start"
    /\ \E g \in {{"leader"}, {"leader", "child"}} : group' = [group EXCEPT ![k] = g]
    /\ exec' = [exec EXCEPT ![k].pc = "loop"]
    /\ spawned' = [spawned EXCEPT ![k] = IF @ < 2 THEN @ + 1 ELSE @]
    /\ UNCHANGED <<up, dirs, files, running_jobs, cancel_tx, creator, canceler,
                   shutdown, accepted, lost>>

(* execute_process ends with out, or goes on to terminate the group. *)
ExecTo(k, pc, out) ==
    /\ exec' = [exec EXCEPT ![k] = [pc |-> pc, req |-> exec[k].req, out |-> out]]
    /\ UNCHANGED <<up, dirs, running_jobs, cancel_tx, creator, canceler,
                   shutdown, spawned, accepted, lost>>

SpawnError(k) ==
    /\ "spawn" \in Faults
    /\ exec[k].pc = "start"
    /\ ExecTo(k, "finish", Outcome("failed", "infra"))
    /\ UNCHANGED <<files, group>>

(* The deadline of the manifest's timeout_seconds is reached. *)
TimedOut(k) ==
    /\ exec[k].pc = "loop"
    /\ ExecTo(k, "terminate", Outcome("timed_out", "timeout"))
    /\ UNCHANGED <<files, group>>

(* cancel_wait resolves: transition_metadata_status reads the record, of   *)
(* which only the status may have changed since the task was given it ...  *)
ObserveCancel(k) ==
    /\ exec[k].pc = "loop"
    /\ cancel_tx[k]
    /\ ExecTo(k, IF meta[k].status \in {"running", "cancel_requested"}
                 THEN "mark" ELSE "terminate", Outcome("canceled", "canceled"))
    /\ UNCHANGED <<files, group>>

(* ... and moves it to canceling; that the write fails is ignored. *)
MarkOpen(k) ==
    /\ exec[k].pc = "mark"
    /\ Open("run_job", k)
    /\ ExecTo(k, "mark", exec[k].out)
    /\ UNCHANGED group

MarkFill(k) ==
    /\ exec[k].pc = "mark"
    /\ Fill("run_job", k, [status |-> "canceling", req |-> exec[k].req,
                           category |-> "none"])
    /\ ExecTo(k, "mark", exec[k].out)
    /\ UNCHANGED group

MarkPublish(k) ==
    /\ exec[k].pc = "mark"
    /\ Publish("run_job", k)
    /\ ExecTo(k, "terminate", exec[k].out)
    /\ UNCHANGED group

LogLimit(k) ==
    /\ exec[k].pc = "loop"
    /\ ExecTo(k, "terminate", Outcome("failed", "infra"))
    /\ UNCHANGED <<files, group>>

(* Mutant: terminate_job returns while the script still runs. *)
Terminate_NoWait(k) ==
    /\ exec[k].pc = "terminate"
    /\ ExecTo(k, "finish", exec[k].out)
    /\ UNCHANGED <<files, group>>

(* terminate_job: SIGTERM to the group.  When the leader ends within the   *)
(* grace period it returns, whatever the child does; when it does not,     *)
(* SIGKILL ends the whole group.                                           *)
Terminate(k) ==
    /\ exec[k].pc = "terminate"
    /\ \E rest \in SUBSET (group[k] \ {"leader"}) :
          group' = [group EXCEPT ![k] = rest]
    /\ ExecTo(k, "finish", exec[k].out)
    /\ UNCHANGED files

(* try_wait sees the exit of the leader. *)
Reap(k) ==
    /\ exec[k].pc = "loop"
    /\ "leader" \notin group[k]
    /\ \E out \in {Outcome("success", "none"), Outcome("failed", "job")} :
          ExecTo(k, "drain", out)
    /\ UNCHANGED <<files, group>>

(* try_wait fails; the process is not terminated. *)
WaitError(k) ==
    /\ "wait" \in Faults
    /\ exec[k].pc = "loop"
    /\ ExecTo(k, "finish", Outcome("failed", "infra"))
    /\ UNCHANGED <<files, group>>

(* Both output pipes are at end of file, which needs every process that    *)
(* holds them to have ended.                                               *)
CaptureDone(k) ==
    /\ exec[k].pc = "drain"
    /\ group[k] = {}
    /\ ExecTo(k, "finish", exec[k].out)
    /\ UNCHANGED <<files, group>>

(* A capture task failed to read its pipe or write its log. *)
CaptureError(k) ==
    /\ "capture" \in Faults
    /\ exec[k].pc = "drain"
    /\ ExecTo(k, "finish", Outcome("failed", "infra"))
    /\ UNCHANGED <<files, group>>

(* finish_job: registers the outputs of a successful process, then writes  *)
(* the task's own copy of the metadata with the final status.              *)
FinishOpen(k) ==
    /\ exec[k].pc = "finish"
    /\ Open("run_job", k)
    /\ \E final \in IF exec[k].out.status = "success" /\ "outputs" \in Faults
                    THEN {exec[k].out, Outcome("failed", "infra")}
                    ELSE {exec[k].out} :
          ExecTo(k, "persist", final)
    /\ UNCHANGED group

FinalRecord(k) == [status   |-> exec[k].out.status,
                   req      |-> exec[k].req,
                   category |-> exec[k].out.category]

FinishFill(k) ==
    /\ exec[k].pc = "persist"
    /\ Fill("run_job", k, FinalRecord(k))
    /\ ExecTo(k, "persist", exec[k].out)
    /\ UNCHANGED group

(* That the rename fails is ignored ... *)
FinishPublish(k) ==
    /\ exec[k].pc = "persist"
    /\ Publish("run_job", k)
    /\ ExecTo(k, "remove", exec[k].out)
    /\ UNCHANGED group

(* ... and so is any other failure of the write. *)
FinishPersistFails(k) ==
    /\ "persist" \in Faults
    /\ exec[k].pc \in {"finish", "persist"}
    /\ handle' = [handle EXCEPT ![k]["run_job"] = "none"]
    /\ ExecTo(k, "remove", exec[k].out)
    /\ UNCHANGED <<meta, tmp, overlapped, group>>

(* Mutant: finish_job leaves the registry entry behind. *)
FinishRemove_KeepsEntry(k) ==
    /\ exec[k].pc = "remove"
    /\ RegistryUnlocked
    /\ exec' = [exec EXCEPT ![k] = NoExec]
    /\ UNCHANGED <<up, dirs, files, running_jobs, cancel_tx, group, creator,
                   canceler, shutdown, spawned, accepted, lost>>

(* The registry entry goes last, and with it the cancel channel. *)
FinishRemove(k) ==
    /\ exec[k].pc = "remove"
    /\ RegistryUnlocked
    /\ running_jobs' = {job \in running_jobs : job.key # k}
    /\ exec' = [exec EXCEPT ![k] = NoExec]
    /\ cancel_tx' = [cancel_tx EXCEPT ![k] = FALSE]
    /\ UNCHANGED <<up, dirs, files, group, creator, canceler, shutdown, spawned,
                   accepted, lost>>

-----------------------------------------------------------------------------
(* The processes of a job end on their own. *)

ProcessExit(k) ==
    /\ \E p \in group[k] : group' = [group EXCEPT ![k] = @ \ {p}]
    /\ UNCHANGED <<up, dirs, files, running_jobs, cancel_tx, exec, creator,
                   canceler, shutdown, spawned, accepted, lost>>

-----------------------------------------------------------------------------
(* Shutdown, crash and start *)

ShutdownStep(next) ==
    /\ up
    /\ shutdown' = next
    /\ UNCHANGED <<up, dirs, running_jobs, exec, group, creator, canceler,
                   spawned, accepted, lost>>

(* begin_shutdown sets the flag, then takes the running_jobs mutex. *)
BeginShutdown ==
    /\ "shutdown" \in Faults
    /\ shutdown.pc = "off"
    /\ ShutdownStep([pc |-> "flagged"])
    /\ UNCHANGED <<files, cancel_tx>>

ShutdownLock ==
    /\ shutdown.pc = "flagged"
    /\ ShutdownStep([pc |-> "signaling", todo |-> Registered])
    /\ UNCHANGED <<files, cancel_tx>>

(* For each job: transition_metadata_status reads ... *)
ShutdownRead(k) ==
    /\ shutdown.pc = "signaling"
    /\ k \in shutdown.todo
    /\ ShutdownStep([pc |-> "read", todo |-> shutdown.todo, key |-> k,
                     seen |-> meta[k]])
    /\ UNCHANGED <<files, cancel_tx>>

(* ... and writes, and the signal is sent whatever became of that. *)
ShutdownOpen ==
    /\ shutdown.pc = "read"
    /\ MayRequestCancel(shutdown.seen)
    /\ Open("begin_shutdown", shutdown.key)
    /\ ShutdownStep(shutdown)
    /\ UNCHANGED cancel_tx

ShutdownFill ==
    /\ shutdown.pc = "read"
    /\ MayRequestCancel(shutdown.seen)
    /\ Fill("begin_shutdown", shutdown.key,
            [shutdown.seen EXCEPT !.status = "cancel_requested"])
    /\ ShutdownStep(shutdown)
    /\ UNCHANGED cancel_tx

ShutdownSignal ==
    LET k == shutdown.key
    IN /\ shutdown.pc = "read"
       /\ \/ MayRequestCancel(shutdown.seen) /\ Publish("begin_shutdown", k)
          \/ ~MayRequestCancel(shutdown.seen) /\ UNCHANGED files
       /\ cancel_tx' = [cancel_tx EXCEPT ![k] = TRUE]
       /\ ShutdownStep([pc |-> "signaling", todo |-> shutdown.todo \ {k}])

ShutdownUnlock ==
    /\ shutdown.pc = "signaling"
    /\ shutdown.todo = {}
    /\ ShutdownStep([pc |-> "draining"])
    /\ UNCHANGED <<files, cancel_tx>>

(* wait_for_drain ends when the registry is empty or after its timeout;    *)
(* the server then stops accepting requests.                               *)
ShutdownDrained ==
    /\ shutdown.pc = "draining"
    /\ ShutdownStep([pc |-> "closing"])
    /\ UNCHANGED <<files, cancel_tx>>

(* A script that outlives the runner that started it. *)
Orphaned(g) == IF "leader" \in g THEN (g \ {"leader"}) \cup {"orphan"} ELSE g

(* The process ends: everything in memory is lost, run_job tasks are       *)
(* dropped where they stand and the processes they started go on.          *)
ProcessEnds ==
    /\ up
    /\ up' = FALSE
    /\ running_jobs' = {}
    /\ cancel_tx' = [k \in Keys |-> FALSE]
    /\ exec' = [k \in Keys |-> NoExec]
    /\ creator' = [c \in Creators |-> Idle]
    /\ canceler' = [x \in Cancelers |-> Idle]
    /\ shutdown' = [pc |-> "off"]
    /\ group' = [k \in Keys |-> Orphaned(group[k])]
    /\ handle' = [k \in Keys |-> [w \in Writers |-> "none"]]
    /\ UNCHANGED <<dirs, meta, tmp, spawned, accepted, overlapped, lost>>

(* Graceful: requests in flight are completed first. *)
Exit ==
    /\ shutdown.pc = "closing"
    /\ \A c \in Creators : creator[c].pc = "idle"
    /\ \A x \in Cancelers : canceler[x].pc = "idle"
    /\ ProcessEnds

Crash ==
    /\ "crash" \in Faults
    /\ ProcessEnds

(* Mutants of recovery: a category the protocol does not have; running     *)
(* jobs are left alone; canceled jobs are left alone; finished jobs fail.  *)
Recovered_NewCategory(m) ==
    IF m.status = "running"
    THEN [m EXCEPT !.status = "failed", !.category = "shutdown"] ELSE m

Recovered_RunningOnly(m) ==
    IF m.status = "running"
    THEN [m EXCEPT !.status = "failed", !.category = "infra"] ELSE m

Recovered_FinishedToo(m) ==
    CASE ~Readable(m) -> NoMeta
      [] m.status \in {"cancel_requested", "canceling"} ->
            [m EXCEPT !.status = "canceled", !.category = "canceled"]
      [] OTHER -> [m EXCEPT !.status = "failed", !.category = "infra"]

(* recover_interrupted_jobs on one directory's metadata; a directory       *)
(* without a record that parses is removed.                                *)
Recovered(m) ==
    CASE m.status = "running" ->
            [m EXCEPT !.status = "failed", !.category = "infra"]
      [] m.status \in {"cancel_requested", "canceling"} ->
            [m EXCEPT !.status = "canceled", !.category = "canceled"]
      [] is_terminal(m.status) -> m
      [] ~Readable(m) -> NoMeta

(* Mutant: recovery deletes interrupted jobs as it deletes broken ones. *)
Start_DropsInterrupted ==
    /\ ~up
    /\ up' = TRUE
    /\ dirs' = {k \in dirs : is_terminal(meta[k].status)}
    /\ meta' = [k \in Keys |-> IF is_terminal(meta[k].status) THEN meta[k] ELSE NoMeta]
    /\ tmp' = [k \in Keys |-> IF is_terminal(meta[k].status) THEN tmp[k] ELSE NoMeta]
    /\ lost' = lost \cup {k \in Keys : meta[k].status \in {"empty", "torn"}}
    /\ UNCHANGED <<handle, running_jobs, cancel_tx, exec, group, creator, canceler,
                   shutdown, spawned, accepted, overlapped>>

(* The runner starts: recovery completes before requests are served.  It   *)
(* renames or removes the temporary files of the records it changes.       *)
Start ==
    /\ ~up
    /\ up' = TRUE
    /\ dirs' = {k \in dirs : Readable(meta[k])}
    /\ meta' = [k \in Keys |-> Recovered(meta[k])]
    /\ tmp' = [k \in Keys |-> IF is_terminal(meta[k].status) THEN tmp[k] ELSE NoMeta]
    /\ lost' = lost \cup {k \in Keys : meta[k].status \in {"empty", "torn"}}
    /\ UNCHANGED <<handle, running_jobs, cancel_tx, exec, group, creator, canceler,
                   shutdown, spawned, accepted, overlapped>>

-----------------------------------------------------------------------------
CreateStep(c) ==
    \/ CreateExisting(c) \/ CreateInsert(c) \/ CreateConflict(c)
    \/ CreateDir(c) \/ CreatePersist(c)

CancelStep(x) ==
    \/ CancelRead(x) \/ CancelOpen(x) \/ CancelFill(x) \/ CancelPublish(x)
    \/ CancelSend(x)

(* The steps of run_job that do not wait for the job's own processes. *)
ExecStep(k) ==
    \/ Spawn(k) \/ TimedOut(k) \/ ObserveCancel(k) \/ MarkOpen(k)
    \/ MarkFill(k) \/ MarkPublish(k) \/ Terminate(k) \/ Reap(k)
    \/ CaptureDone(k) \/ FinishOpen(k) \/ FinishFill(k) \/ FinishPublish(k)
    \/ FinishRemove(k)

ExecFault(k) ==
    \/ SpawnError(k) \/ LogLimit(k) \/ WaitError(k) \/ CaptureError(k)
    \/ FinishPersistFails(k)

StopStep ==
    \/ BeginShutdown \/ ShutdownLock \/ (\E k \in Keys : ShutdownRead(k))
    \/ ShutdownOpen \/ ShutdownFill \/ ShutdownSignal \/ ShutdownUnlock \/ ShutdownDrained \/ Exit

Next ==
    \/ \E c \in Creators :
          \/ \E k \in Keys, req \in Requests : CreateCheck(c, k, req)
          \/ CreateInvalid(c)
          \/ CreateStep(c)
          \/ CreateSetupFails(c)
    \/ \E x \in Cancelers :
          \/ \E k \in Keys : CancelLookup(x, k)
          \/ CancelStep(x)
    \/ \E k \in Keys : ExecStep(k) \/ ExecFault(k) \/ ProcessExit(k)
    \/ StopStep
    \/ Crash
    \/ Start

Spec == Init /\ [][Next]_vars

-----------------------------------------------------------------------------
(* Fairness.  Tokio polls every task that can go on, so each handler, each *)
(* run_job task and the shutdown future make progress once they are        *)
(* started; a stopped runner is started again by its supervisor.  Clients, *)
(* faults and the operator's decision to stop the runner get none.         *)

TaskFairness ==
    /\ \A c \in Creators : WF_vars(CreateStep(c))
    /\ \A x \in Cancelers : WF_vars(CancelStep(x))
    /\ \A k \in Keys : WF_vars(ExecStep(k))
    /\ WF_vars(StopStep /\ shutting_down)
    /\ WF_vars(Start)

(* The processes of a job, background children included, end some day.     *)
(* Without this a child that keeps the output pipes open holds run_job in  *)
(* its drain for ever: neither timeout nor cancellation is looked at there.*)
ProcessFairness == \A k \in Keys : WF_vars(ProcessExit(k))

FairSpec == Spec /\ TaskFairness /\ ProcessFairness

-----------------------------------------------------------------------------
(* Properties *)

TypeOK ==
    /\ up \in BOOLEAN
    /\ dirs \subseteq Keys
    /\ meta \in [Keys -> Metadata]
    /\ tmp \in [Keys -> Metadata]
    /\ handle \in [Keys -> [Writers -> Places]]
    /\ running_jobs \subseteq [key : Keys, name : Names]
    /\ cancel_tx \in [Keys -> BOOLEAN]
    /\ exec \in [Keys -> [pc : ExecPc, req : Requests \cup {NoReq}, out : Outcomes]]
    /\ group \in [Keys -> SUBSET {"leader", "child", "orphan"}]
    /\ creator \in [Creators -> CreatorStates]
    /\ canceler \in [Cancelers -> CancelerStates]
    /\ shutdown \in ShutdownStates
    /\ spawned \in [Keys -> 0 .. 2]
    /\ accepted \subseteq Keys \X Requests
    /\ overlapped \subseteq Keys
    /\ lost \subseteq Keys

(* create_job with retries, crashes and restarts: the script of a key is   *)
(* never started twice, even when the runner crashed in the middle of      *)
(* create_job or recovery removed the key's directory.  The exception is a *)
(* key whose record recovery found unreadable and removed.                 *)
AtMostOneExecution == \A k \in Keys : spawned[k] > 1 => k \in lost

(* load_existing_job_for_request and recover_interrupted_jobs: what was    *)
(* accepted under a key stays on disk, as the only request the key is      *)
(* accepted for, until recovery removes a record it cannot read; and a     *)
(* record cannot be read only where two of its writers overlapped.         *)
AcceptedIsDurable ==
    \A k \in Keys, req \in Requests : <<k, req>> \in accepted =>
        /\ k \notin lost => /\ k \in dirs
                            /\ meta[k].status # "none"
                            /\ Readable(meta[k]) => meta[k].req = req
                            /\ \A other \in Requests :
                                  <<k, other>> \in accepted => other = req
        /\ k \notin overlapped => k \notin lost /\ Readable(meta[k])

(* enforce_concurrency: two registered jobs are compatible whatever the    *)
(* order in which they were admitted; the check is made only against the   *)
(* mode of the job that comes last.                                        *)
Compatible(a, b) ==
    /\ "global_exclusive" \notin {Concurrency[a], Concurrency[b]}
    /\ a = b => Concurrency[a] # "job_exclusive"

RegistryExclusive ==
    \A j1, j2 \in running_jobs : j1 # j2 => Compatible(j1.name, j2.name)

(* finish_job persists before it removes and create_job inserts before it  *)
(* persists, so a status of running on disk is never an orphan: its job is *)
(* in the registry of the runner that serves requests, also when finish_job*)
(* lost its temporary file to another writer (unless its write failed in   *)
(* another way, which it ignores).                                         *)
RunningIsRegistered ==
    (up /\ "persist" \notin Faults) =>
        \A k \in Keys : meta[k].status = "running" => k \in Registered

(* A script started by the living runner runs only while its job is        *)
(* registered, so that exclusivity of the registry is exclusivity of the   *)
(* scripts: every way out of execute_process but a failed wait has reaped  *)
(* the process before finish_job removes the entry.  (Not so for scripts   *)
(* that outlive a crash of the runner, nor for their background children.) *)
LeaderIsRegistered ==
    "wait" \notin Faults =>
        \A k \in Keys : "leader" \in group[k] => k \in Registered

(* What runs is registered, on disk and on the host: the registry is what  *)
(* admission, cancellation and shutdown look at (create_job, cancel_job,   *)
(* begin_shutdown).                                                        *)
RegistryIsComplete == RunningIsRegistered /\ LeaderIsRegistered

(* Why the properties above hold: an inductive invariant.  A file with a   *)
(* record names a request and a file without one does not; what a task or  *)
(* a handler remembers of a job is a request; a key being set up has no    *)
(* record yet; nothing of the process is left while it is down.            *)
RecordInv ==
    \A k \in Keys :
        /\ meta[k].status # "none" => k \in dirs
        /\ meta[k].req # NoReq <=> Readable(meta[k])
        /\ tmp[k].req # NoReq <=> Readable(tmp[k])
        /\ tmp[k].status # "none" => meta[k].status # "none"
        /\ k \notin lost => /\ spawned[k] # 0 => meta[k].status # "none"
                            /\ spawned[k] <= 1

ExecInv ==
    \A k \in Keys : exec[k].pc # "none" =>
        /\ k \in Registered
        /\ meta[k].status # "none"
        /\ exec[k].req # NoReq
        /\ (exec[k].pc = "start" /\ k \notin lost) => spawned[k] = 0

CreatorInv ==
    /\ \A c \in Creators :
          /\ creator[c].pc \in {"inserted", "setup"} =>
                meta[creator[c].key].status = "none"
          /\ creator[c].pc = "setup" => creator[c].key \in dirs
          /\ creator[c].pc \in {"inserted", "setup"} => creator[c].key \in Registered
    /\ \A c, d \in Creators :
          (/\ creator[c].pc \in {"inserted", "setup"}
           /\ creator[d].pc \in {"inserted", "setup"}) => c = d

SeenInv ==
    /\ \A x \in Cancelers : canceler[x].pc = "read" =>
          /\ canceler[x].seen.status = "running"
          /\ canceler[x].seen.req # NoReq
          /\ meta[canceler[x].key].status # "none"
    /\ shutdown.pc = "read" =>
          /\ shutdown.seen.req # NoReq <=> Readable(shutdown.seen)
          /\ Readable(shutdown.seen) => meta[shutdown.key].status # "none"

DownInv ==
    ~up => /\ running_jobs = {}
           /\ \A k \in Keys : exec[k] = NoExec
           /\ \A c \in Creators : creator[c].pc = "idle"
           /\ \A x \in Cancelers : canceler[x].pc = "idle"
           /\ shutdown.pc = "off"
           /\ \A k \in Keys, w \in Writers : handle[k][w] = "none"

(* Where no two writers of a record overlapped, a write is as good as      *)
(* atomic: the one who is writing has the temporary file to himself.       *)
AloneInv ==
    \A k \in Keys : k \notin overlapped =>
        /\ k \notin lost
        /\ meta[k].status \notin {"empty", "torn"}
        /\ \A v, w \in Writers : (handle[k][v] # "none" /\ handle[k][w] # "none") => v = w
        /\ \A w \in Writers :
              /\ handle[k][w] \in {"none", "tmp", "shut"}
              /\ handle[k][w] = "tmp" => tmp[k] = Empty
              /\ handle[k][w] = "shut" => Readable(tmp[k])

(* Every text of a key that can still be written or published carries the  *)
(* one request that was accepted for it.                                   *)
Carries(k, req) ==
    /\ meta[k].req \in {req, NoReq}
    /\ tmp[k].req \in {req, NoReq}
    /\ exec[k].pc # "none" => exec[k].req = req
    /\ \A x \in Cancelers :
          (canceler[x].pc = "read" /\ canceler[x].key = k) => canceler[x].seen.req = req
    /\ (shutdown.pc = "read" /\ shutdown.key = k) => shutdown.seen.req \in {req, NoReq}

RequestInv ==
    \A k \in Keys : k \notin lost =>
        /\ meta[k].status # "none" => \E req \in Requests : <<k, req>> \in accepted
        /\ \A req \in Requests : <<k, req>> \in accepted =>
              /\ meta[k].status # "none"
              /\ Carries(k, req)
              /\ \A other \in Requests : <<k, other>> \in accepted => other = req

JobStoreInv ==
    /\ RecordInv /\ ExecInv /\ CreatorInv /\ SeenInv /\ DownInv
    /\ AloneInv /\ RequestInv

(* is_terminal and transition_metadata_status: a terminal record never     *)
(* becomes running again, nor another terminal state; all that a late      *)
(* cancellation can do to it is cancel_requested, which a restart turns    *)
(* into canceled, or a text that does not parse, and the latter only when  *)
(* it was written beside another write.                                    *)
TerminalChange ==
    [][\A k \in Keys : (is_terminal(meta[k].status) /\ meta'[k] # meta[k])
           => \/ meta'[k].status = "cancel_requested"
              \/ meta'[k].status \in {"empty", "torn"} /\ k \in overlapped]_vars

(* run_job: a registered job leaves the registry, whether its script ends, *)
(* times out, is canceled or fails to start.                               *)
EventuallyReleased == \A k \in Keys : k \in Registered ~> k \notin Registered

(* A client that polls GET /runs/{job_id} sees a terminal status some day. *)
EventuallyTerminal ==
    \A k \in Keys : meta[k].status # "none" ~> is_terminal(meta[k].status)

(* What keeps a client waiting: transition_metadata_status is about to     *)
(* write back what it read before the job was over; finish_job is over and *)
(* its final status is not in the record, because the write failed or      *)
(* another writer's text took its place; or recovery removed a record that *)
(* two writers had left unreadable.                                        *)
StaleWriter(k) ==
    /\ is_terminal(meta[k].status)
    /\ \/ \E x \in Cancelers : canceler[x].pc = "read" /\ canceler[x].key = k
       \/ shutdown.pc = "read" /\ shutdown.key = k

LostWrite(k) == exec[k].pc = "remove" /\ ~is_terminal(meta[k].status)

(* finish_job, recover_interrupted_jobs and transition_metadata_status:    *)
(* apart from these three cases every job gets a terminal status, through  *)
(* cancellations, shutdowns, crashes and every failure of its execution.   *)
TerminalUnlessOverwritten ==
    \A k \in Keys : \/ <>(StaleWriter(k) \/ LostWrite(k) \/ k \in lost)
                    \/ meta[k].status # "none" ~> is_terminal(meta[k].status)

(* The abstract specification of the store: a key is bound to the request  *)
(* in its metadata.json or, while that cannot be read, to the one that was *)
(* accepted.                                                               *)
Bound(k) ==
    CASE k \in lost \/ meta[k].status = "none" -> NoReq
      [] k \notin lost /\ Readable(meta[k]) -> meta[k].req
      [] OTHER -> CHOOSE req \in Requests : <<k, req>> \in accepted

Executor == INSTANCE IdempotentExecutor
    WITH bound <- [k \in Keys |-> Bound(k)],
         runs  <- [k \in Keys |-> IF k \in lost THEN 0 ELSE spawned[k]]

(* The job store implements the idempotent executor: create_job binds a    *)
(* key once, run_job executes it once, and crashes, recovery, retries and  *)
(* racing writers of metadata.json never bind it to another request, as    *)
(* long as recovery does not lose its record.                              *)
ImplementsExecutor == Executor!Spec
=============================================================================
