----------------------------- MODULE Artifacts ------------------------------
(***************************************************************************)
(* The way of an artifact: the store of a runner (janus-runner/artifacts.rs*)
(* over storage.rs), its expiry loop and its recovery (main.rs), and the   *)
(* copies the server keeps (janus-server/artifacts.rs, server_artifacts)   *)
(* to hand an output of one job to a job on another runner                 *)
(* (scheduler.rs: resolve_job_inputs, persist_job_outputs).                *)
(*                                                                         *)
(* One pipeline of two jobs.  The first runs on runner A with the source   *)
(* archive as input and registers its outputs; the second has the output   *)
(* Wanted as input and runs on A as well or on another runner.             *)
(* Concurrent actors: the server's loop, the job that captures its outputs,*)
(* the request that uploads the source, the expiry loop; A and the server  *)
(* crash and start again.  An action is one file operation of the runner,  *)
(* one request, or one method of db.rs.                                    *)
(*                                                                         *)
(* Bytes are a pair of what they are and the attempt that made them; the   *)
(* digest of bytes is the bytes.  A refused upload (digest, size) changes  *)
(* nothing and is left out.                                                *)
(***************************************************************************)
EXTENDS Naturals, FiniteSets

CONSTANTS
    Outputs,        \* how many outputs the first job has, in their order
    Wanted,         \* the one the second job needs
    MaxRetries,     \* max_infra_retries
    MaxExpired,     \* how many artifacts outlive their ttl
    Faults,         \* the failures that may happen ...
    MaxFaults       \* ... and how many of them

FaultKinds == {"runner", "server", "disk", "transfer", "git"}

ASSUME ArtifactsAssumption ==
    /\ Outputs \in Nat /\ Wanted \in 1..Outputs
    /\ MaxRetries \in Nat /\ MaxExpired \in Nat /\ MaxFaults \in Nat
    /\ Faults \subseteq FaultKinds

VARIABLES
    up,         \* runner A serves
    disk,       \* its artifacts directory
    alloc,      \* how many artifact ids it has made
    expired,    \* the ids whose expires_at has passed
    writer,     \* a store_bytes in progress, by who called it
    kept,       \* history: the ids store_bytes returned, and their bytes
    residue,    \* ids whose store_bytes failed since A was started
    cleaner,    \* the expiry loop
    script,     \* the first job on A: its attempt, state and outputs
    pc,         \* where the server's loop stands
    held,       \* the artifact id and the bytes it works with
    todo,       \* outputs still to copy
    persisted,  \* ids of the outputs copied so far
    archive,    \* source-archives/<pipeline>-<commit>.tar.gz
    server_artifacts, \* the rows, by name, with the bytes of their files
    copies,     \* history: how often each row was written
    job,        \* the first job's row: status, attempt, outputs
    second,     \* where the second job runs: on A, or elsewhere
    input,      \* the artifact of A whose blob the second job reads
    got,        \* history: the bytes each job worked with
    faults

files == <<disk, alloc, expired, kept, residue, cleaner>>
store == <<disk, alloc, expired, writer, kept, residue, cleaner>>
runner == <<up, store, script>>
loop == <<pc, held, todo, persisted>>
mirror == <<archive, server_artifacts, copies>>
server == <<loop, mirror, job>>
downstream == <<second, input, got>>
vars == <<runner, server, downstream, faults>>

-----------------------------------------------------------------------------
(* Values *)

Attempts == 0..MaxRetries

Names == 1..Outputs
Source == 0

None == <<"none", 0>>
Whole == <<"source", 0>>        \* the archive of the commit
Cut == <<"source", 1>>          \* what a git that fails leaves in the file
Torn == <<"torn", 0>>           \* bytes in the middle of being written
OutputBytes(n, attempt) == <<"output", n + (Outputs + 1) * attempt>>

Bytes == {Whole, Cut} \cup {OutputBytes(n, a) : n \in Names, a \in Attempts}

Ids == 1..((MaxRetries + 1) * (Outputs + 1))

(* metadata.json is reduced to the digest in it. *)
NoDir == [dir |-> FALSE, tmp |-> {}, blob |-> None, metadata |-> None]

Files == {"blob", "metadata"}

NoWriter == [at |-> "idle", id |-> 0, bytes |-> None]

Idle == [todo |-> {}, removing |-> 0, busy |-> FALSE]

NoOutputs == [n \in Names |-> 0]

(* An artifact of A with bytes; an output with its artifact and its copy.  *)
NoArtifact == [id |-> 0, bytes |-> None]

NothingPersisted == [n \in Names |-> [artifact |-> 0, copy |-> 0]]

(* What the second job may find instead of its input. *)
Rejected == <<"rejected", 0>>
Gone == <<"gone", 0>>

Fault(kind) ==
    /\ kind \in Faults
    /\ faults < MaxFaults
    /\ faults' = faults + 1

-----------------------------------------------------------------------------
(* The runner's store *)

(* Mutant: the file is written in its place. *)
WriteTemp_InPlace(w, f) ==
    /\ up /\ writer[w].at = f
    /\ disk' = [disk EXCEPT ![writer[w].id][f] = Torn, ![writer[w].id].dir = TRUE,
                            ![writer[w].id].tmp = @ \cup {f}]
    /\ UNCHANGED <<alloc, expired, writer, kept, residue, cleaner>>

(* atomic_write makes the directory again if need be, writes a temporary   *)
(* file ...                                                                *)
WriteTemp(w, f) ==
    /\ up /\ writer[w].at = f
    /\ f \notin disk[writer[w].id].tmp
    /\ disk' = [disk EXCEPT ![writer[w].id].dir = TRUE,
                            ![writer[w].id].tmp = @ \cup {f}]
    /\ UNCHANGED <<alloc, expired, writer, kept, residue, cleaner>>

(* ... and renames it.  store_bytes writes the blob, then metadata.json.   *)
Rename(w, f) ==
    LET i == writer[w].id
    IN /\ up /\ writer[w].at = f
       /\ f \in disk[i].tmp
       /\ disk' = [disk EXCEPT ![i][f] = writer[w].bytes, ![i].tmp = @ \ {f}]
       /\ IF f = "blob"
          THEN /\ writer' = [writer EXCEPT ![w].at = "metadata"]
               /\ UNCHANGED kept
          ELSE /\ writer' = [writer EXCEPT ![w].at = "done"]
               /\ kept' = [kept EXCEPT ![i] = writer[w].bytes]
       /\ UNCHANGED <<alloc, expired, residue, cleaner>>

(* store_bytes: a new id and its directory. *)
StoreBegins(w, bytes) ==
    /\ up /\ writer[w].at = "idle"
    /\ alloc + 1 \in Ids
    /\ alloc' = alloc + 1
    /\ disk' = [disk EXCEPT ![alloc + 1].dir = TRUE]
    /\ writer' = [writer EXCEPT ![w] = [at |-> "blob", id |-> alloc + 1, bytes |-> bytes]]
    /\ UNCHANGED <<expired, kept, residue, cleaner>>

(* A write fails: the directory stays as it is. *)
StoreFails(w) ==
    /\ up /\ writer[w].at \in Files
    /\ Fault("disk")
    /\ residue' = residue \cup {writer[w].id}
    /\ writer' = [writer EXCEPT ![w].at = "failed"]
    /\ UNCHANGED <<disk, alloc, expired, kept, cleaner>>

(* The ttl of an artifact passes. *)
Expire(i) ==
    /\ i \notin expired /\ disk[i].metadata # None
    /\ Cardinality(expired) < MaxExpired
    /\ expired' = expired \cup {i}
    /\ UNCHANGED <<disk, alloc, writer, kept, residue, cleaner>>

(* load and the check of an artifact input. *)
Live(i) == disk[i].metadata # None /\ i \notin expired

(* cleanup_expired: lists the directories ... *)
CleanBegins ==
    /\ up /\ ~cleaner.busy
    /\ cleaner' = [todo |-> {i \in Ids : disk[i].dir}, removing |-> 0, busy |-> TRUE]
    /\ UNCHANGED <<disk, alloc, expired, writer, kept, residue>>

(* Mutants: a directory without metadata ends the pass; is removed too.    *)
CleanSkips_Aborts(i) ==
    /\ up /\ i \in cleaner.todo /\ cleaner.removing = 0
    /\ disk[i].metadata = None \/ i \notin expired
    /\ cleaner' = IF disk[i].metadata = None THEN Idle
                                             ELSE [cleaner EXCEPT !.todo = @ \ {i}]
    /\ UNCHANGED <<disk, alloc, expired, writer, kept, residue>>

CleanSkips_RemovesIncomplete(i) ==
    /\ up /\ i \in cleaner.todo /\ cleaner.removing = 0
    /\ disk[i].metadata = None \/ i \notin expired
    /\ cleaner' = IF disk[i].metadata = None THEN [cleaner EXCEPT !.removing = i]
                                             ELSE [cleaner EXCEPT !.todo = @ \ {i}]
    /\ UNCHANGED <<disk, alloc, expired, writer, kept, residue>>

(* ... passes over those without metadata and those not expired ...        *)
CleanSkips(i) ==
    /\ up /\ i \in cleaner.todo /\ cleaner.removing = 0
    /\ disk[i].metadata = None \/ i \notin expired
    /\ cleaner' = [cleaner EXCEPT !.todo = @ \ {i}]
    /\ UNCHANGED <<disk, alloc, expired, writer, kept, residue>>

(* ... and removes the expired ones ...                                    *)
CleanFinds(i) ==
    /\ up /\ i \in cleaner.todo /\ cleaner.removing = 0
    /\ disk[i].metadata # None /\ i \in expired
    /\ cleaner' = [cleaner EXCEPT !.removing = i]
    /\ UNCHANGED <<disk, alloc, expired, writer, kept, residue>>

(* ... file by file, then the directory.                                   *)
CleanRemoves ==
    LET i == cleaner.removing
    IN /\ up /\ i # 0
       /\ \/ \E f \in Files : /\ disk[i][f] # None
                              /\ disk' = [disk EXCEPT ![i][f] = None]
                              /\ UNCHANGED cleaner
          \/ /\ \A f \in Files : disk[i][f] = None
             /\ disk' = [disk EXCEPT ![i] = NoDir]
             /\ cleaner' = [cleaner EXCEPT !.todo = @ \ {i}, !.removing = 0]
       /\ UNCHANGED <<alloc, expired, writer, kept, residue>>

CleanEnds ==
    /\ up /\ cleaner.busy /\ cleaner.todo = {}
    /\ cleaner' = Idle
    /\ UNCHANGED <<disk, alloc, expired, writer, kept, residue>>

(* artifact_dir_is_recoverable *)
recoverable(d) == d.dir /\ (d.metadata \in {None, Torn} \/ d.blob # d.metadata)

(* The runner crashes; it starts again and removes what is incomplete      *)
(* before it serves.                                                       *)
StoreCrash ==
    /\ writer' = [w \in DOMAIN writer |-> NoWriter]
    /\ cleaner' = Idle
    /\ UNCHANGED <<disk, alloc, expired, kept, residue>>

recover_incomplete_artifacts ==
    /\ disk' = [i \in Ids |-> IF recoverable(disk[i]) THEN NoDir ELSE disk[i]]
    /\ residue' = {}
    /\ UNCHANGED <<alloc, expired, writer, kept, cleaner>>

-----------------------------------------------------------------------------
(* The first job on runner A *)

(* The next of the outputs. *)
First(n, ns) == n \in ns /\ \A m \in ns : n <= m

Unregistered == {n \in Names : script.out[n] = 0}

(* register_outputs: one output after the other ...                        *)
RegisterBegins(n) ==
    /\ script.at = "running"
    /\ First(n, Unregistered)
    /\ StoreBegins("job", OutputBytes(n, script.attempt))
    /\ UNCHANGED <<up, script, server, downstream, faults>>

(* ... until all are stored or one fails, which fails the job.             *)
RegisterEnds(n) ==
    /\ up /\ script.at = "running"
    /\ First(n, Unregistered)
    /\ writer["job"].at \in {"done", "failed"}
    /\ script' = IF writer["job"].at = "done"
                 THEN [script EXCEPT !.out[n] = writer["job"].id]
                 ELSE [script EXCEPT !.at = "failed"]
    /\ writer' = [writer EXCEPT !["job"] = NoWriter]
    /\ UNCHANGED <<up, files, server, downstream, faults>>

(* finish_job writes the final status. *)
ScriptEnds ==
    /\ up /\ script.at = "running"
    /\ Unregistered = {}
    /\ script' = [script EXCEPT !.at = "success"]
    /\ UNCHANGED <<up, store, server, downstream, faults>>

StoreStep ==
    /\ \/ \E w \in DOMAIN writer, f \in Files : WriteTemp(w, f) \/ Rename(w, f)
       \/ CleanBegins \/ CleanRemoves \/ CleanEnds
       \/ \E i \in Ids : CleanSkips(i) \/ CleanFinds(i)
    /\ UNCHANGED <<up, script, server, downstream, faults>>

StoreFault ==
    /\ \E w \in DOMAIN writer : StoreFails(w)
    /\ UNCHANGED <<up, script, server, downstream>>

TtlPasses ==
    /\ \E i \in Ids : Expire(i)
    /\ UNCHANGED <<up, script, server, downstream, faults>>

RunnerCrash ==
    /\ up /\ Fault("runner")
    /\ up' = FALSE
    /\ StoreCrash
    /\ held' = IF pc = "download" THEN NoArtifact ELSE held  \* the reply is lost
    /\ UNCHANGED <<script, pc, todo, persisted, mirror, job, downstream>>

(* recover_interrupted_jobs: a job that was running has failed.            *)
RunnerStart ==
    /\ ~up
    /\ up' = TRUE
    /\ recover_incomplete_artifacts
    /\ script' = IF script.at = "running" THEN [script EXCEPT !.at = "failed"] ELSE script
    /\ UNCHANGED <<server, downstream, faults>>

-----------------------------------------------------------------------------
(* The server *)

GoTo(at) ==
    /\ pc' = at /\ held' = NoArtifact /\ todo' = {} /\ persisted' = NothingPersisted

(* Mutant: off by one. *)
RetryOrFail_OneMore ==
    job' = IF job.attempt <= MaxRetries
           THEN [job EXCEPT !.status = "pending", !.attempt = @ + 1]
           ELSE [job EXCEPT !.status = "failed"]

(* retry_or_fail_infra_error: a new attempt under a new key, or the end.   *)
RetryOrFail ==
    job' = IF job.attempt < MaxRetries
           THEN [job EXCEPT !.status = "pending", !.attempt = @ + 1]
           ELSE [job EXCEPT !.status = "failed"]

(* Dispatch of the first job.  ensure_server_source_artifact: the archive  *)
(* is made unless there is a row or a file ...                             *)
SourceMissing ==
    /\ pc = "idle" /\ job.status = "pending"
    /\ server_artifacts[Source] = NoArtifact /\ archive = None
    /\ GoTo("git")
    /\ UNCHANGED <<runner, mirror, job, downstream, faults>>

create_source_archive ==
    /\ pc = "git"
    /\ archive' = Whole
    /\ GoTo("idle")
    /\ UNCHANGED <<runner, server_artifacts, copies, job, downstream, faults>>

(* ... by git, which opens the file before it looks for the commit; its    *)
(* failure is a transfer error, for which the job is tried again ...       *)
create_source_archive_Fails ==
    /\ pc = "git" /\ Fault("git")
    /\ archive' = Cut
    /\ RetryOrFail
    /\ GoTo("idle")
    /\ UNCHANGED <<runner, server_artifacts, copies, downstream>>

(* insert_server_artifact: on conflict everything is replaced but the id,  *)
(* which stays the one of the first time.                                  *)
insert_server_artifact(name, bytes) ==
    /\ server_artifacts' =
          [server_artifacts EXCEPT ![name] =
              [id |-> IF @ = NoArtifact THEN copies[name] + 1 ELSE @.id, bytes |-> bytes]]
    /\ copies' = [copies EXCEPT ![name] = @ + 1]

(* ... and stored, with whatever the file holds ...                        *)
SourceStored ==
    /\ pc = "idle" /\ job.status = "pending"
    /\ server_artifacts[Source] = NoArtifact /\ archive # None
    /\ insert_server_artifact(Source, archive)
    /\ UNCHANGED <<runner, loop, archive, job, downstream, faults>>

(* ... and uploaded to the runner of the job (ensure_source_artifact).     *)
UploadBegins ==
    /\ pc = "idle" /\ job.status = "pending"
    /\ server_artifacts[Source] # NoArtifact
    /\ StoreBegins("upload", server_artifacts[Source].bytes)
    /\ GoTo("upload")
    /\ UNCHANGED <<up, script, mirror, job, downstream, faults>>

(* The runner refuses the upload (rate limit). *)
UploadRefused ==
    /\ up /\ Fault("transfer")
    /\ pc = "idle" /\ job.status = "pending"
    /\ server_artifacts[Source] # NoArtifact
    /\ RetryOrFail
    /\ UNCHANGED <<runner, loop, mirror, downstream>>

(* The reply, an error, or a broken connection, which ends the tick.       *)
UploadAnswered ==
    /\ pc = "upload" /\ writer["upload"].at = "done"
    /\ writer' = [writer EXCEPT !["upload"] = NoWriter]
    /\ pc' = "create"
    /\ held' = [id |-> writer["upload"].id, bytes |-> None]
    /\ UNCHANGED <<up, files, script, todo, persisted, mirror, job, downstream, faults>>

UploadFails ==
    /\ pc = "upload" /\ writer["upload"].at = "failed"
    /\ writer' = [writer EXCEPT !["upload"] = NoWriter]
    /\ RetryOrFail
    /\ GoTo("idle")
    /\ UNCHANGED <<up, files, script, archive, server_artifacts, copies, downstream, faults>>

UploadBroken ==
    /\ pc = "upload" /\ writer["upload"].at = "idle"
    /\ GoTo("idle")
    /\ UNCHANGED <<runner, mirror, job, downstream, faults>>

(* Nobody waits for the upload any more. *)
UploadUnheard ==
    /\ pc # "upload" /\ writer["upload"].at \in {"done", "failed"}
    /\ writer' = [writer EXCEPT !["upload"] = NoWriter]
    /\ UNCHANGED <<up, files, script, server, downstream, faults>>

(* create_job checks that the input artifact is there and not expired.     *)
FirstStarts ==
    /\ up /\ pc = "create"
    /\ GoTo("idle")
    /\ IF Live(held.id)
       THEN /\ script' = [attempt |-> job.attempt, at |-> "running", out |-> NoOutputs]
            /\ job' = [job EXCEPT !.status = "running"]
            /\ got' = [got EXCEPT ![1] = disk[held.id].blob]
       ELSE /\ job' = [job EXCEPT !.status = "failed"]
            /\ UNCHANGED <<script, got>>
    /\ UNCHANGED <<up, store, mirror, second, input, faults>>

FirstUnreachable ==
    /\ ~up /\ pc = "create"
    /\ GoTo("idle")
    /\ UNCHANGED <<runner, mirror, job, downstream, faults>>

(* Poll of the first job: it failed on the runner, for its outputs could   *)
(* not be stored or the runner was started again ...                       *)
PollFailed ==
    /\ up /\ pc = "idle" /\ job.status = "running" /\ script.at = "failed"
    /\ RetryOrFail
    /\ UNCHANGED <<runner, loop, mirror, downstream, faults>>

(* Mutant: outputs of which the server has a copy are not copied again.    *)
PollSuccess_OnlyMissing ==
    /\ up /\ pc = "idle" /\ job.status = "running" /\ script.at = "success"
    /\ pc' = "poll" /\ held' = NoArtifact
    /\ todo' = {n \in Names : server_artifacts[n] = NoArtifact}
    /\ persisted' = [n \in Names |-> [artifact |-> script.out[n],
                                      copy |-> server_artifacts[n].id]]
    /\ UNCHANGED <<runner, mirror, job, downstream, faults>>

(* ... or it succeeded: persist_job_outputs copies each output ...         *)
PollSuccess ==
    /\ up /\ pc = "idle" /\ job.status = "running" /\ script.at = "success"
    /\ pc' = "poll" /\ held' = NoArtifact
    /\ todo' = Names
    /\ persisted' = NothingPersisted
    /\ UNCHANGED <<runner, mirror, job, downstream, faults>>

(* ... downloads it (load reads metadata.json, then the blob) ...          *)
DownloadBegins(n) ==
    /\ up /\ pc = "poll" /\ First(n, todo)
    /\ Live(script.out[n])
    /\ pc' = "download"
    /\ held' = [id |-> script.out[n], bytes |-> None]
    /\ UNCHANGED <<runner, todo, persisted, mirror, job, downstream, faults>>

Served == up /\ held.id # 0 /\ disk[held.id].blob # None

DownloadEnds ==
    /\ pc = "download" /\ Served
    /\ pc' = "mirror"
    /\ held' = [held EXCEPT !.bytes = disk[held.id].blob]
    /\ UNCHANGED <<runner, todo, persisted, mirror, job, downstream, faults>>

(* ... or cannot, for which the job is tried again ...                     *)
DownloadFails ==
    /\ \/ /\ pc = "poll" /\ todo # {}
          /\ \/ (\E n \in todo : First(n, todo) /\ ~(up /\ Live(script.out[n]))) /\ UNCHANGED faults
             \/ Fault("transfer")
       \/ pc = "download" /\ ~Served /\ UNCHANGED faults
    /\ RetryOrFail
    /\ GoTo("idle")
    /\ UNCHANGED <<runner, mirror, downstream>>

(* ... writes the bytes to a new file and its row, and notes the new id ...*)
OutputMirrored(n) ==
    /\ pc = "mirror" /\ First(n, todo)
    /\ insert_server_artifact(n, held.bytes)
    /\ persisted' = [persisted EXCEPT ![n] = [artifact |-> held.id, copy |-> copies[n] + 1]]
    /\ todo' = todo \ {n}
    /\ pc' = "poll" /\ held' = NoArtifact
    /\ UNCHANGED <<runner, archive, job, downstream, faults>>

(* ... and finish_job_run stores the status and the outputs at once.       *)
FirstFinished ==
    /\ pc = "poll" /\ todo = {}
    /\ job' = [job EXCEPT !.status = "success", !.outputs = persisted]
    /\ GoTo("idle")
    /\ UNCHANGED <<runner, mirror, downstream, faults>>

SecondPending == pc = "idle" /\ job.status = "success" /\ got[2] = None /\ input = 0

(* Mutant: the output is taken from the runner that made it. *)
ensure_runner_has_artifact_FromRunner ==
    /\ SecondPending /\ second = "elsewhere"
    /\ up /\ Live(job.outputs[Wanted].artifact)
    /\ got' = [got EXCEPT ![2] = disk[job.outputs[Wanted].artifact].blob]
    /\ UNCHANGED <<runner, server, second, input, faults>>

(* Dispatch of the second job, to another runner: it gets the bytes of the *)
(* row whose id was noted.  Without such a row the tick ends there.        *)
ensure_runner_has_artifact ==
    /\ SecondPending /\ second = "elsewhere"
    /\ server_artifacts[Wanted].id = job.outputs[Wanted].copy
    /\ got' = [got EXCEPT ![2] = server_artifacts[Wanted].bytes]
    /\ UNCHANGED <<runner, server, second, input, faults>>

(* To A: it works with the artifact that is there, if it is ...            *)
SecondOnSameRunner ==
    /\ up /\ SecondPending /\ second = "A"
    /\ LET i == job.outputs[Wanted].artifact
       IN IF Live(i) THEN input' = i /\ UNCHANGED got
                     ELSE got' = [got EXCEPT ![2] = Rejected] /\ UNCHANGED input
    /\ UNCHANGED <<runner, server, second, faults>>

(* ... and reads the blob in its own time. *)
SecondReads ==
    /\ up /\ input # 0 /\ got[2] = None
    /\ got' = [got EXCEPT ![2] = IF disk[input].blob = None THEN Gone ELSE disk[input].blob]
    /\ UNCHANGED <<runner, server, second, input, faults>>

(* The server is killed, and with it a git that may have begun to write.   *)
ServerCrash ==
    /\ Fault("server")
    /\ GoTo("idle")
    /\ archive' = IF pc = "git" /\ "git" \in Faults THEN Cut ELSE archive
    /\ UNCHANGED <<runner, server_artifacts, copies, job, downstream>>

-----------------------------------------------------------------------------
Init ==
    /\ up = TRUE
    /\ disk = [i \in Ids |-> NoDir] /\ alloc = 0 /\ expired = {}
    /\ writer = [w \in {"job", "upload"} |-> NoWriter]
    /\ kept = [i \in Ids |-> None] /\ residue = {} /\ cleaner = Idle
    /\ script = [attempt |-> 0, at |-> "none", out |-> NoOutputs]
    /\ pc = "idle" /\ held = NoArtifact /\ todo = {} /\ persisted = NothingPersisted
    /\ archive = None
    /\ server_artifacts = [n \in {Source} \cup Names |-> NoArtifact]
    /\ copies = [n \in {Source} \cup Names |-> 0]
    /\ job = [status |-> "pending", attempt |-> 0, outputs |-> NothingPersisted]
    /\ second \in {"A", "elsewhere"} /\ input = 0 /\ got = [j \in {1, 2} |-> None]
    /\ faults = 0

RunnerStep == StoreStep \/ ScriptEnds \/ \E n \in Names : RegisterBegins(n) \/ RegisterEnds(n)

FirstStep ==
    \/ SourceMissing \/ create_source_archive \/ SourceStored
    \/ UploadBegins \/ UploadAnswered \/ UploadFails \/ UploadBroken
    \/ FirstStarts \/ FirstUnreachable \/ PollFailed \/ PollSuccess
    \/ DownloadEnds \/ FirstFinished
    \/ \E n \in Names : DownloadBegins(n) \/ OutputMirrored(n)

SecondStep == ensure_runner_has_artifact \/ SecondOnSameRunner \/ SecondReads

Next ==
    \/ RunnerStep \/ StoreFault \/ TtlPasses \/ RunnerCrash \/ RunnerStart
    \/ FirstStep \/ DownloadFails \/ SecondStep
    \/ UploadUnheard \/ UploadRefused \/ create_source_archive_Fails \/ ServerCrash

Spec == Init /\ [][Next]_vars

(* The expiry loop and the handlers go on, the runner is started again and *)
(* the server's loop ticks; nothing need fail or expire.                   *)
FairSpec ==
    /\ Spec
    /\ WF_vars(StoreStep) /\ WF_vars(RunnerStart)
    /\ WF_vars(SecondStep)

-----------------------------------------------------------------------------
(* Properties *)

Held == [id : Nat, bytes : Bytes \cup {None}]

ArtifactsTypeOK ==
    /\ up \in BOOLEAN
    /\ disk \in [Ids -> [dir : BOOLEAN, tmp : SUBSET Files, blob : Bytes \cup {None},
                         metadata : Bytes \cup {None}]]
    /\ alloc \in {0} \cup Ids /\ expired \subseteq Ids /\ residue \subseteq Ids
    /\ writer \in [{"job", "upload"} -> [at : {"idle", "done", "failed"} \cup Files,
                                         id : {0} \cup Ids, bytes : Bytes \cup {None}]]
    /\ kept \in [Ids -> Bytes \cup {None}]
    /\ cleaner \in [todo : SUBSET Ids, removing : {0} \cup Ids, busy : BOOLEAN]
    /\ script \in [attempt : Attempts, at : {"none", "running", "failed", "success"},
                   out : [Names -> {0} \cup Ids]]
    /\ pc \in {"idle", "git", "upload", "create", "poll", "download", "mirror"}
    /\ held \in Held /\ todo \subseteq Names
    /\ persisted \in [Names -> [artifact : Nat, copy : Nat]]
    /\ archive \in {None, Whole, Cut}
    /\ server_artifacts \in [{Source} \cup Names -> Held]
    /\ job \in [status : {"pending", "running", "success", "failed"}, attempt : Attempts,
                outputs : [Names -> [artifact : Nat, copy : Nat]]]
    /\ second \in {"A", "elsewhere"} /\ input \in {0} \cup Ids
    /\ got \in [{1, 2} -> Bytes \cup {None, Rejected, Gone}]
    /\ faults \in 0..MaxFaults

(* atomic_write: no file that a request, the expiry loop or recovery may   *)
(* open is ever half written, also after a crash.  (A metadata.json that   *)
(* does not parse ends each pass of the loop and takes readiness away.)    *)
NothingTorn == \A i \in Ids : Torn \notin {disk[i].blob, disk[i].metadata}

Complete(i) == disk[i].metadata # None /\ disk[i].blob = disk[i].metadata

(* store_bytes against cleanup_expired and recover_incomplete_artifacts:   *)
(* an artifact whose id was returned is there, with its bytes and its      *)
(* digest, until it expires, whatever is removed around it.                *)
KeptUntilExpired ==
    \A i \in Ids : (kept[i] # None /\ i \notin expired) =>
                        Complete(i) /\ disk[i].blob = kept[i]

(* recover_incomplete_artifacts: while the runner serves, an incomplete    *)
(* directory is one that is being written or removed, or one whose write   *)
(* failed since the start: the expiry loop passes over all others for ever.*)
NoResidue ==
    up => \A i \in Ids : (disk[i].dir /\ ~Complete(i)) =>
              \/ i \in residue \/ cleaner.removing = i
              \/ \E w \in DOMAIN writer : writer[w].id = i /\ writer[w].at \in Files

(* Whatever a crash, a failed write or a removal leaves, the directories   *)
(* are ones that the expiry loop and recovery can deal with.               *)
DirectoriesSound == NothingTorn /\ NoResidue

(* persist_job_outputs and resolve_job_inputs: the second job works with   *)
(* the bytes of the attempt that the first job is recorded with, through   *)
(* retries, crashes and copies made before; if not, they have expired on   *)
(* the runner it shares with the first.                                    *)
SecondGetsRecorded ==
    LET i == job.outputs[Wanted].artifact
    IN got[2] # None => \/ got[2] = kept[i]
                        \/ got[2] \in {Rejected, Gone} /\ i \in expired

(* run_artifact_cleanup_loop: an expired artifact leaves the disk some day,*)
(* whatever incomplete directories are listed with it.                     *)
ExpiredIsRemoved == expired # {} ~> \A i \in expired : ~disk[i].dir

(* ensure_runner_has_artifact: the second job is started some day, also    *)
(* when the artifact has expired on the runner that made it.  (Not so when *)
(* an output was copied twice: insert_server_artifact keeps the id of the  *)
(* first row and returns that of the second, which names no row, and every *)
(* tick ends at the second job from then on.)                              *)
SecondStarts ==
    \/ <>(copies[Wanted] > 1)
    \/ job.status = "success" ~> (got[2] # None \/ input # 0)

(* create_source_archive: the first job works on the archive of the commit.*)
SourceIsWhole == got[1] # None => got[1] = Whole
=============================================================================
