----------------------------- MODULE Scheduler ------------------------------
(***************************************************************************)
(* The reconcile loop of janus-server (scheduler.rs) over the job_runs and *)
(* pipeline_runs tables (db.rs), the cancel requests of the web interface  *)
(* and the runs on the runners.                                            *)
(*                                                                         *)
(* The loop is one task: recover, dispatch, poll, again and again.  Each   *)
(* phase works through a list of rows read at its start, and every call of *)
(* a runner is an await at which cancel_pipeline, the runners and the      *)
(* network go on; each method of db.rs is one step (a mutex around the     *)
(* connection).  The server may crash; the tables and the runs survive.    *)
(*                                                                         *)
(* A row is reduced to its status, runner_run_id, the two retry counters   *)
(* and which of cancel_requested_at and cancel_started_at are set (timer). *)
(* requeue_job_run_for_infra_retry is the only place that makes a new      *)
(* dispatch key and that counts infra_retry_count, so the count stands for *)
(* the key: attempt n of job j has key <<j, n>>.  The runner's job id is a *)
(* function of the key and is that n.                                      *)
(*                                                                         *)
(* A run on a runner is what RunnerJobs promises: bound to a key once; its *)
(* status can be overwritten by a cancellation that is late.               *)
(***************************************************************************)
EXTENDS Naturals, StateMachine

CONSTANTS
    Jobs,               \* job runs, numbered; a pipeline's are consecutive
    Pipelines,
    PipelineOf,
    CanFail,            \* outcome_policy.allows_failure of each job
    ArtifactInput,      \* the jobs whose inputs are uploaded on each attempt
    Cancelers,          \* the cancel_pipeline requests, each made once
    MaxInfraRetries,
    MaxCancelRetries,
    Faults,             \* the kinds of failure of the environment ...
    MaxFaults,          \* ... and how many there may be
    NoRun               \* stands for a runner_run_id of NULL

FaultKinds == {"crash", "runner", "disabled", "transfer", "create", "reject",
               "reply", "cancel", "get", "outputs"}

ASSUME JobsAssumption == Jobs \subseteq Nat \ {0}
ASSUME PipelineAssumption ==
    PipelineOf \in [Jobs -> Pipelines] /\ CanFail \in [Jobs -> BOOLEAN]
ASSUME BoundsAssumption ==
    /\ MaxInfraRetries \in Nat
    /\ MaxCancelRetries \in Nat
    /\ MaxFaults \in Nat
ASSUME SchedulerFaultsAssumption == Faults \subseteq FaultKinds
ASSUME NoRunAssumption == NoRun \notin Nat

VARIABLES
    row,        \* job_runs
    pipeline,   \* the status of each row of pipeline_runs
    run,        \* the runs on the runners, by dispatch key
    orphans,    \* the keys whose script goes on after a crash of its runner
    late,       \* jobs whose cancellation is older than the stuck timeout
    pc,         \* where the reconcile loop stands
    psnap,      \* pipelines still to recover, as they were read
    snap,       \* rows still to work through, as they were read
    cur,        \* the row being worked on (0: none)
    seen,       \* what the runner answered
    canceler,   \* the state of each cancel_pipeline request
    faults      \* how many faults have happened

db == <<row, pipeline, late>>
runs == <<run, orphans>>
loop == <<pc, psnap, snap, cur, seen>>
vars == <<db, runs, loop, canceler, faults>>

-----------------------------------------------------------------------------
(* The values the variables range over. *)

Attempts == 0..MaxInfraRetries

Row == [status : JobStatuses, rid : Nat \cup {NoRun}, infra : Nat, cancels : Nat,
        timer : SUBSET {"requested", "started"}]

NoRow == [status |-> "none", rid |-> NoRun, infra |-> 0, cancels |-> 0, timer |-> {}]

NewRow == [status |-> "pending", rid |-> NoRun, infra |-> 0, cancels |-> 0, timer |-> {}]

EndedRun == {"success", "failed", "failed_infra", "canceled"}

RunStatuses == {"none"} \cup ActiveStatuses \cup EndedRun

(* live: in the runner's registry; out: what the runner says it came to. *)
NoRunYet == [status |-> "none", live |-> FALSE, out |-> "none"]

Idle == [pc |-> "idle"]

(* A cancel request that has been answered, or died with the server. *)
Done == [pc |-> "done"]

LoopPc == {"down", "idle", "recover", "dispatch", "create", "created", "dispatch_finalize",
           "poll", "retry", "retried", "get", "apply", "poll_finalize"}

-----------------------------------------------------------------------------
(* Helpers: the queries and updates of db.rs. *)

Previous(j) == {i \in Jobs : i + 1 = j /\ PipelineOf[i] = PipelineOf[j]}

StatusOf(js) == {<<row[i].status, CanFail[i]>> : i \in js}

JobsOf(p) == {j \in Jobs : PipelineOf[j] = p}

Listed(js, statuses) ==
    [j \in Jobs |-> IF j \in js /\ row[j].status \in statuses THEN row[j] ELSE NoRow]

Todo(rows) == {j \in Jobs : rows[j] # NoRow}

requires_recovery(p) ==
    \/ pipeline[p] \in ActiveStatuses
    \/ \E j \in JobsOf(p) : row[j].status \in {"pending"} \cup ActiveStatuses

(* The timestamp from which retry_stuck_cancellation reckons. *)
Since(r) == IF "started" \in r.timer THEN {"started"} ELSE r.timer

(* An update of row j; it is not late any more if that timestamp is new. *)
Update(j, r) ==
    /\ row' = [row EXCEPT ![j] = r]
    /\ late' = IF Since(r) = Since(row[j]) THEN late ELSE late \ {j}

CancelPhase == {"cancel_requested", "canceling", "canceled"}

set_job_run_status(r, status) ==
    [status |-> status, rid |-> r.rid, infra |-> r.infra,
     cancels |-> IF status \in CancelPhase THEN r.cancels ELSE 0,
     timer |-> CASE status = "cancel_requested" -> {"requested"}
                 [] status = "canceling" -> r.timer \cup {"started"}
                 [] status = "canceled" -> r.timer
                 [] status \notin CancelPhase -> {}]

set_job_run_started(r, rid) ==
    [status |-> "running", rid |-> rid, infra |-> r.infra, cancels |-> 0, timer |-> {}]

finish_job_run(r, status) ==
    [status |-> status, rid |-> r.rid, infra |-> r.infra,
     cancels |-> IF status = "canceled" THEN r.cancels ELSE 0,
     timer |-> IF status = "canceled" THEN r.timer ELSE {}]

mark_job_run_cancel_requested(r) ==
    [status |-> "cancel_requested", rid |-> r.rid, infra |-> r.infra,
     cancels |-> r.cancels, timer |-> r.timer \cup {"requested"}]

record_cancel_retry(r) ==
    [status |-> r.status, rid |-> r.rid, infra |-> r.infra,
     cancels |-> r.cancels + 1, timer |-> r.timer]

(* Mutant: the row is requeued but keeps its status. *)
requeue_job_run_for_infra_retry_StaysRunning(r) ==
    [status |-> "running", rid |-> NoRun, infra |-> r.infra + 1, cancels |-> 0,
     timer |-> {}]

requeue_job_run_for_infra_retry(r) ==
    [status |-> "pending", rid |-> NoRun, infra |-> r.infra + 1, cancels |-> 0,
     timer |-> {}]

mark_job_run_cancel_retry_exhausted(r) ==
    [status |-> "failed", rid |-> r.rid, infra |-> r.infra, cancels |-> r.cancels,
     timer |-> r.timer]

(* Mutant: off by one. *)
MayRetry_OneMore(listed) == listed.infra <= MaxInfraRetries

(* The budget is checked against the row as it was listed. *)
MayRetry(listed) == listed.infra < MaxInfraRetries

retry_or_fail_infra_error(j) ==
    Update(j, IF MayRetry(snap[j]) THEN requeue_job_run_for_infra_retry(row[j])
                                   ELSE finish_job_run(row[j], "failed"))

Fault(kind) ==
    /\ kind \in Faults
    /\ faults < MaxFaults
    /\ faults' = faults + 1

-----------------------------------------------------------------------------
Init ==
    /\ row = [j \in Jobs |-> NewRow]
    /\ pipeline = [p \in Pipelines |-> "running"]
    /\ run = [k \in Jobs \X Attempts |-> NoRunYet]
    /\ orphans = {}
    /\ late = {}
    /\ pc = "idle"
    /\ psnap = [p \in Pipelines |-> "none"]
    /\ snap = [j \in Jobs |-> NoRow]
    /\ cur = 0
    /\ seen = "none"
    /\ canceler = [x \in Cancelers |-> Idle]
    /\ faults = 0

-----------------------------------------------------------------------------
(* The reconcile loop *)

(* Where the loop goes on, with or without the row it worked on. *)
LoopAt(next, rows, j, answer) ==
    /\ pc' = next
    /\ snap' = rows
    /\ cur' = j
    /\ seen' = answer
    /\ UNCHANGED <<psnap, canceler>>

With(next, j, answer) == LoopAt(next, snap, j, answer)

Drop(next, j) == LoopAt(next, [snap EXCEPT ![j] = NoRow], 0, "none")

(* An error is propagated with ? out of reconcile_once: the rest of the    *)
(* tick is skipped.                                                        *)
Abort == LoopAt("idle", [j \in Jobs |-> NoRow], 0, "none")

(* recover_incomplete_pipelines: reads ... *)
RecoverList ==
    /\ pc = "idle"
    /\ pc' = "recover"
    /\ psnap' = [p \in Pipelines |-> IF requires_recovery(p) THEN pipeline[p] ELSE "none"]
    /\ UNCHANGED <<db, runs, snap, cur, seen, canceler, faults>>

(* ... and writes, one pipeline at a time. *)
RecoverWrite(p) ==
    /\ pc = "recover"
    /\ psnap[p] # "none"
    /\ pipeline' = [pipeline EXCEPT ![p] =
          IF psnap[p] \in {"cancel_requested", "canceling"} THEN psnap[p] ELSE "running"]
    /\ psnap' = [psnap EXCEPT ![p] = "none"]
    /\ UNCHANGED <<row, late, runs, pc, snap, cur, seen, canceler, faults>>

(* dispatch_pending_jobs *)
DispatchList ==
    /\ pc = "recover"
    /\ \A p \in Pipelines : psnap[p] = "none"
    /\ LoopAt("dispatch", Listed(Jobs, {"pending"}), 0, "none")
    /\ UNCHANGED <<db, runs, faults>>

DispatchBlocked(j) ==
    /\ pc = "dispatch"
    /\ j \in Todo(snap)
    /\ next_ready_job_status(StatusOf(Previous(j))) = "blocked"
    /\ Update(j, set_job_run_status(row[j], "blocked"))
    /\ With("dispatch_finalize", j, "none")
    /\ UNCHANGED <<pipeline, runs, faults>>

DispatchWait(j) ==
    /\ pc = "dispatch"
    /\ j \in Todo(snap)
    /\ next_ready_job_status(StatusOf(Previous(j))) = "none"
    /\ Drop("dispatch", j)
    /\ UNCHANGED <<db, runs, faults>>

(* The runner of the job is disabled. *)
DispatchDisabled(j) ==
    /\ Fault("disabled")
    /\ pc = "dispatch"
    /\ j \in Todo(snap)
    /\ next_ready_job_status(StatusOf(Previous(j))) = "pending"
    /\ Drop("dispatch", j)
    /\ UNCHANGED <<db, runs>>

(* resolve_job_inputs, which may wait for an upload. *)
DispatchReady(j) ==
    /\ pc = "dispatch"
    /\ j \in Todo(snap)
    /\ next_ready_job_status(StatusOf(Previous(j))) = "pending"
    /\ With("create", j, "none")
    /\ UNCHANGED <<db, runs, faults>>


InputsTransferFails ==
    /\ Fault("transfer")
    /\ pc = "create"
    /\ retry_or_fail_infra_error(cur)
    /\ With("dispatch_finalize", cur, "none")
    /\ UNCHANGED <<pipeline, runs>>

(* The inputs cannot be resolved, or the runner is unreachable, busy,      *)
(* rate-limited or shutting down.                                          *)
CreateFails ==
    /\ Fault("create")
    /\ pc = "create"
    /\ Abort
    /\ UNCHANGED <<db, runs>>

(* is_runner_create_terminal_rejection *)
CreateRejected ==
    /\ Fault("reject")
    /\ pc = "create"
    /\ Update(cur, finish_job_run(row[cur], "failed"))
    /\ With("dispatch_finalize", cur, "none")
    /\ UNCHANGED <<pipeline, runs>>

Key(j) == <<j, snap[j].infra>>

(* The key is bound, to a request with other artifact ids: 409. *)
Conflicting(j) == run[Key(j)].status # "none" /\ j \in ArtifactInput

CreateConflict ==
    /\ pc = "create"
    /\ Conflicting(cur)
    /\ Abort
    /\ UNCHANGED <<db, runs, faults>>

(* The runner binds the key, or answers with the run that is bound to it. *)
CreateAccepted ==
    /\ pc = "create"
    /\ ~Conflicting(cur)
    /\ run' = IF run[Key(cur)].status # "none" THEN run
              ELSE [run EXCEPT ![Key(cur)] =
                       [status |-> "running", live |-> TRUE, out |-> "none"]]
    /\ With("created", cur, "none")
    /\ UNCHANGED <<db, orphans, faults>>

(* Mutant: an ambiguous failure is retried under a new key. *)
CreateReplyLost_NewKey ==
    /\ Fault("reply")
    /\ pc = "created"
    /\ retry_or_fail_infra_error(cur)
    /\ With("dispatch_finalize", cur, "none")
    /\ UNCHANGED <<pipeline, runs>>

CreateReplyLost ==
    /\ Fault("reply")
    /\ pc = "created"
    /\ Abort
    /\ UNCHANGED <<db, runs>>

DispatchStarted ==
    /\ pc = "created"
    /\ Update(cur, set_job_run_started(row[cur], snap[cur].infra))
    /\ Drop("dispatch", cur)
    /\ UNCHANGED <<pipeline, runs, faults>>

(* poll_running_jobs *)
PollList ==
    /\ pc = "dispatch"
    /\ Todo(snap) = {}
    /\ LoopAt("poll", Listed(Jobs, ActiveStatuses), 0, "none")
    /\ UNCHANGED <<db, runs, faults>>

PollSkip(j) ==
    /\ pc = "poll"
    /\ j \in Todo(snap)
    /\ snap[j].rid = NoRun
    /\ Drop("poll", j)
    /\ UNCHANGED <<db, runs, faults>>

(* retry_stuck_cancellation *)
Stuck(j) == snap[j].status \in {"cancel_requested", "canceling"} /\ j \in late

PollExhausted(j) ==
    /\ pc = "poll"
    /\ j \in Todo(snap)
    /\ snap[j].rid # NoRun
    /\ Stuck(j)
    /\ snap[j].cancels >= MaxCancelRetries
    /\ Update(j, mark_job_run_cancel_retry_exhausted(row[j]))
    /\ With("poll_finalize", j, "none")
    /\ UNCHANGED <<pipeline, runs, faults>>

PollStuck(j) ==
    /\ pc = "poll"
    /\ j \in Todo(snap)
    /\ snap[j].rid # NoRun
    /\ Stuck(j)
    /\ snap[j].cancels < MaxCancelRetries
    /\ With("retry", j, IF run[<<j, snap[j].rid>>].live THEN "live" ELSE "ended")
    /\ UNCHANGED <<db, runs, faults>>

PollFetch(j) ==
    /\ pc = "poll"
    /\ j \in Todo(snap)
    /\ snap[j].rid # NoRun
    /\ ~Stuck(j)
    /\ With("get", j, "none")
    /\ UNCHANGED <<db, runs, faults>>

(* JobStore::cancel_job, for a run that was registered when the request    *)
(* came in (was_live) or not: what becomes of the run, and the answer.     *)
CancelRun(r, was_live) ==
    LET Having(status) == [status |-> status, live |-> r.live, out |-> r.out]
    IN IF r.live
       THEN {[ok |-> TRUE, run |-> Having(IF r.status = "running" THEN "cancel_requested"
                                                                ELSE r.status)]}
       ELSE IF r.status \in CancelPhase THEN {[ok |-> TRUE, run |-> r]}
       ELSE IF was_live
       THEN {[ok |-> ok, run |-> Having(status)] :
                 ok \in BOOLEAN, status \in {r.status, "cancel_requested"}}
       ELSE {[ok |-> FALSE, run |-> r]}

RetryCancel ==
    LET k == <<cur, snap[cur].rid>>
    IN /\ pc = "retry"
       /\ \E answer \in CancelRun(run[k], seen = "live") :
             /\ run' = [run EXCEPT ![k] = answer.run]
             /\ IF answer.ok THEN With("retried", cur, "none") ELSE Abort
       /\ UNCHANGED <<db, orphans, faults>>

RetryCancelFails ==
    /\ Fault("cancel")
    /\ pc = "retry"
    /\ Abort
    /\ UNCHANGED <<db, runs>>

RetryRecorded ==
    /\ pc = "retried"
    /\ Update(cur, record_cancel_retry(row[cur]))
    /\ With("get", cur, "none")
    /\ UNCHANGED <<pipeline, runs, faults>>

PollGet ==
    /\ pc = "get"
    /\ With("apply", cur, run[<<cur, snap[cur].rid>>].status)
    /\ UNCHANGED <<db, runs, faults>>

PollGetFails ==
    /\ Fault("get")
    /\ pc = "get"
    /\ Drop("poll", cur)
    /\ UNCHANGED <<db, runs>>

(* A run that goes on: the local status moves forward only. *)
Progress(listed, answer) ==
    CASE answer = "canceling" -> "canceling"
      [] answer = "cancel_requested" ->
            IF listed = "canceling" THEN "canceling" ELSE "cancel_requested"
      [] answer = "running" ->
            IF listed \in {"cancel_requested", "canceling"} THEN listed ELSE "running"

PollSame ==
    /\ pc = "apply"
    /\ seen \in ActiveStatuses
    /\ Progress(snap[cur].status, seen) = snap[cur].status
    /\ Drop("poll", cur)
    /\ UNCHANGED <<db, runs, faults>>

PollProgress ==
    LET next == Progress(snap[cur].status, seen)
    IN /\ pc = "apply"
       /\ seen \in ActiveStatuses
       /\ next # snap[cur].status
       /\ Update(cur, set_job_run_status(row[cur], next))
       /\ With("poll_finalize", cur, "none")
       /\ UNCHANGED <<pipeline, runs, faults>>

(* should_retry_infra_failure *)
RetriesInfra == seen = "failed_infra" /\ MayRetry(snap[cur])

PollRequeue ==
    /\ pc = "apply"
    /\ RetriesInfra
    /\ Update(cur, requeue_job_run_for_infra_retry(row[cur]))
    /\ With("poll_finalize", cur, "none")
    /\ UNCHANGED <<pipeline, runs, faults>>

(* persist_job_outputs fails for an output of a successful run. *)
PollOutputsFail ==
    /\ Fault("outputs")
    /\ pc = "apply"
    /\ seen = "success"
    /\ retry_or_fail_infra_error(cur)
    /\ With("poll_finalize", cur, "none")
    /\ UNCHANGED <<pipeline, runs>>

(* Mutants: the runner's status is stored as it is; whatever is not a      *)
(* failure of the job or a cancellation is taken for a success.            *)
PollFinish_Unmapped ==
    /\ pc = "apply"
    /\ seen \in EndedRun
    /\ ~RetriesInfra
    /\ Update(cur, finish_job_run(row[cur], seen))
    /\ With("poll_finalize", cur, "none")
    /\ UNCHANGED <<pipeline, runs, faults>>

PollFinish_DefaultSuccess ==
    /\ pc = "apply"
    /\ seen \in EndedRun
    /\ ~RetriesInfra
    /\ Update(cur, finish_job_run(row[cur], IF seen \in {"failed", "canceled"}
                                            THEN seen ELSE "success"))
    /\ With("poll_finalize", cur, "none")
    /\ UNCHANGED <<pipeline, runs, faults>>

PollFinish ==
    /\ pc = "apply"
    /\ seen \in EndedRun
    /\ ~RetriesInfra
    /\ Update(cur, finish_job_run(row[cur], IF seen \in {"success", "canceled"}
                                            THEN seen ELSE "failed"))
    /\ With("poll_finalize", cur, "none")
    /\ UNCHANGED <<pipeline, runs, faults>>

(* finalize_pipeline_status, after which the loop takes the next row. *)
Finalize ==
    LET p == PipelineOf[cur]
    IN /\ pc \in {"dispatch_finalize", "poll_finalize"}
       /\ pipeline' = [pipeline EXCEPT ![p] = terminal_pipeline_status(StatusOf(JobsOf(p)))]
       /\ Drop(IF pc = "dispatch_finalize" THEN "dispatch" ELSE "poll", cur)
       /\ UNCHANGED <<row, late, runs, faults>>

TickEnds ==
    /\ pc = "poll"
    /\ Todo(snap) = {}
    /\ Abort
    /\ UNCHANGED <<db, runs, faults>>

-----------------------------------------------------------------------------
(* cancel_pipeline *)

CancelerAt(x, next) ==
    /\ canceler' = [canceler EXCEPT ![x] = next]
    /\ UNCHANGED loop

(* The request works on the jobs in rows; remote: requested_remote_cancel; *)
(* live: the run it asks to cancel was registered when it asked.           *)
Canceling(at, p, rows, remote, live) ==
    [pc |-> at, p |-> p, snap |-> rows, remote |-> remote, live |-> live]

CancelList(x, p) ==
    /\ pc # "down"
    /\ canceler[x].pc = "idle"
    /\ CancelerAt(x, Canceling("next", p, Listed(JobsOf(p), JobStatuses), FALSE, FALSE))
    /\ UNCHANGED <<db, runs, faults>>

First(rows, j) == j \in Todo(rows) /\ \A i \in Todo(rows) : j <= i

Without(c, j) == [c.snap EXCEPT ![j] = NoRow]

(* A job that was running: the runner is asked ... *)
CancelAsk(x, j) ==
    LET c == canceler[x]
    IN /\ c.pc = "next"
       /\ First(c.snap, j)
       /\ c.snap[j].status = "running"
       /\ c.snap[j].rid # NoRun
       /\ CancelerAt(x, Canceling("ask", c.p, c.snap, c.remote, run[<<j, c.snap[j].rid>>].live))
       /\ UNCHANGED <<db, runs, faults>>

(* ... answers (an answer other than 202 ends the request) ... *)
CancelAnswered(x, j) ==
    LET c == canceler[x]
        k == <<j, c.snap[j].rid>>
    IN /\ c.pc = "ask"
       /\ First(c.snap, j)
       /\ \E answer \in CancelRun(run[k], c.live) :
             /\ run' = [run EXCEPT ![k] = answer.run]
             /\ CancelerAt(x, IF answer.ok
                              THEN Canceling("mark", c.p, c.snap, c.remote, FALSE)
                              ELSE Done)
       /\ UNCHANGED <<db, orphans, faults>>

CancelFails(x) ==
    /\ Fault("cancel")
    /\ canceler[x].pc = "ask"
    /\ CancelerAt(x, Done)
    /\ UNCHANGED <<db, runs>>

(* ... and the row is marked, whatever it has become. *)
CancelMark(x, j) ==
    LET c == canceler[x]
    IN /\ c.pc = "mark"
       /\ First(c.snap, j)
       /\ Update(j, mark_job_run_cancel_requested(row[j]))
       /\ CancelerAt(x, Canceling("next", c.p, Without(c, j), TRUE, FALSE))
       /\ UNCHANGED <<pipeline, runs, faults>>

CancelPending(x, j) ==
    LET c == canceler[x]
    IN /\ c.pc = "next"
       /\ First(c.snap, j)
       /\ c.snap[j].status = "pending"
       /\ Update(j, set_job_run_status(row[j], "canceled"))
       /\ CancelerAt(x, Canceling("next", c.p, Without(c, j), c.remote, FALSE))
       /\ UNCHANGED <<pipeline, runs, faults>>

CancelPass(x, j) ==
    LET c == canceler[x]
    IN /\ c.pc = "next"
       /\ First(c.snap, j)
       /\ c.snap[j].status # "pending"
       /\ c.snap[j].status = "running" => c.snap[j].rid = NoRun
       /\ CancelerAt(x, Canceling("next", c.p, Without(c, j), c.remote, FALSE))
       /\ UNCHANGED <<db, runs, faults>>

CancelEnds(x) ==
    LET c == canceler[x]
    IN /\ c.pc = "next"
       /\ Todo(c.snap) = {}
       /\ pipeline' = [pipeline EXCEPT ![c.p] =
                          IF c.remote THEN "cancel_requested" ELSE "canceled"]
       /\ CancelerAt(x, Done)
       /\ UNCHANGED <<row, late, runs, faults>>

-----------------------------------------------------------------------------
(* Runners, time and crashes *)

(* A run ends; a cancellation may come too late to matter. *)
RunEnds(k) ==
    /\ run[k].live
    /\ \E out \in EndedRun :
          /\ out = "canceled" => run[k].status # "running"
          /\ run' = [run EXCEPT ![k] = [status |-> out, live |-> FALSE, out |-> out]]
    /\ UNCHANGED <<db, orphans, loop, canceler, faults>>

RunCanceling(k) ==
    /\ run[k].live
    /\ run[k].status = "cancel_requested"
    /\ run' = [run EXCEPT ![k] = [status |-> "canceling", live |-> TRUE, out |-> run[k].out]]
    /\ UNCHANGED <<db, orphans, loop, canceler, faults>>

(* recover_interrupted_jobs of a runner that crashed. *)
Recovered(r) ==
    LET status == CASE r.status = "running" -> "failed_infra"
                    [] r.status \in {"cancel_requested", "canceling"} -> "canceled"
                    [] OTHER -> r.status
    IN [status |-> status, live |-> FALSE, out |-> IF r.live THEN status ELSE r.out]

(* Nothing ends the scripts with it, unless the whole host went down.      *)
RunnerRestart ==
    /\ Fault("runner")
    /\ run' = [k \in DOMAIN run |-> Recovered(run[k])]
    /\ \E left \in {{}, {k \in DOMAIN run : run[k].live}} : orphans' = orphans \cup left
    /\ UNCHANGED <<db, loop, canceler>>

(* Nobody waits for an orphan, stops it or records how it ends. *)
OrphanEnds(k) ==
    /\ k \in orphans
    /\ orphans' = orphans \ {k}
    /\ UNCHANGED <<db, run, loop, canceler, faults>>

(* cancel_stuck_timeout_seconds have passed since the cancellation. *)
TimePasses(j) ==
    /\ row[j].status \in {"cancel_requested", "canceling"}
    /\ row[j].timer # {}
    /\ j \notin late
    /\ late' = late \cup {j}
    /\ UNCHANGED <<row, pipeline, runs, loop, canceler, faults>>

Crash ==
    /\ Fault("crash")
    /\ pc # "down"
    /\ pc' = "down"
    /\ psnap' = [p \in Pipelines |-> "none"]
    /\ snap' = [j \in Jobs |-> NoRow]
    /\ cur' = 0
    /\ seen' = "none"
    /\ canceler' = [x \in Cancelers |-> IF canceler[x] = Idle THEN Idle ELSE Done]
    /\ UNCHANGED <<db, runs>>

(* The server is started again and with it the loop (spawn). *)
Restart ==
    /\ pc = "down"
    /\ pc' = "idle"
    /\ UNCHANGED <<db, runs, psnap, snap, cur, seen, canceler, faults>>

-----------------------------------------------------------------------------
RecoverStep == RecoverList \/ \E p \in Pipelines : RecoverWrite(p)

DispatchStep ==
    \/ DispatchList
    \/ \E j \in Jobs : DispatchBlocked(j) \/ DispatchWait(j) \/ DispatchReady(j)
    \/ CreateConflict \/ CreateAccepted \/ DispatchStarted

PollStep ==
    \/ PollList
    \/ \E j \in Jobs : PollSkip(j) \/ PollExhausted(j) \/ PollStuck(j) \/ PollFetch(j)
    \/ RetryCancel \/ RetryRecorded \/ PollGet \/ PollSame \/ PollProgress
    \/ PollRequeue \/ PollFinish \/ TickEnds

LoopStep == RecoverStep \/ DispatchStep \/ PollStep \/ Finalize

LoopFault ==
    \/ \E j \in Jobs : DispatchDisabled(j)
    \/ InputsTransferFails \/ CreateFails \/ CreateRejected \/ CreateReplyLost
    \/ RetryCancelFails \/ PollGetFails \/ PollOutputsFail

CancelStep(x) ==
    \/ \E j \in Jobs : \/ CancelAsk(x, j) \/ CancelAnswered(x, j)
                       \/ CancelMark(x, j) \/ CancelPending(x, j) \/ CancelPass(x, j)
    \/ CancelEnds(x)

RunnerStep(k) == RunEnds(k) \/ RunCanceling(k)

Next ==
    \/ LoopStep
    \/ LoopFault
    \/ \E x \in Cancelers : \/ \E p \in Pipelines : CancelList(x, p)
                            \/ CancelStep(x) \/ CancelFails(x)
    \/ \E k \in Jobs \X Attempts : RunnerStep(k) \/ OrphanEnds(k)
    \/ \E j \in Jobs : TimePasses(j)
    \/ RunnerRestart
    \/ Crash
    \/ Restart

Spec == Init /\ [][Next]_vars

(* The loop ticks for ever and its calls return (they have a timeout), a   *)
(* server that crashed is started again by its supervisor, a request in    *)
(* progress is completed, runs end (jobs have a timeout) and time passes.  *)
(* Users need not cancel and nothing need fail.                            *)
FairSpec ==
    /\ Spec
    /\ WF_vars(LoopStep)
    /\ WF_vars(Restart)
    /\ \A x \in Cancelers : WF_vars(CancelStep(x))
    /\ \A k \in Jobs \X Attempts : WF_vars(RunnerStep(k))
    /\ \A j \in Jobs : WF_vars(TimePasses(j))

-----------------------------------------------------------------------------
(* Properties *)

CancelerStates ==
    {Idle, Done} \cup [pc : {"next", "ask", "mark"}, p : Pipelines,
                 snap : [Jobs -> Row \cup {NoRow}], remote : BOOLEAN, live : BOOLEAN]

TypeOK ==
    /\ row \in [Jobs -> Row]
    /\ pipeline \in [Pipelines -> PipelineStatuses]
    /\ run \in [Jobs \X Attempts -> [status : RunStatuses, live : BOOLEAN,
                                     out : EndedRun \cup {"none"}]]
    /\ orphans \subseteq Jobs \X Attempts
    /\ late \subseteq Jobs
    /\ pc \in LoopPc
    /\ psnap \in [Pipelines -> PipelineStatuses \cup {"none"}]
    /\ snap \in [Jobs -> Row \cup {NoRow}]
    /\ cur \in Jobs \cup {0}
    /\ seen \in RunStatuses \cup {"live", "ended"}
    /\ canceler \in [Cancelers -> CancelerStates]
    /\ faults \in 0..MaxFaults

(* should_retry_infra_failure, retry_or_fail_infra_error and               *)
(* retry_stuck_cancellation compare the counters of rows listed earlier    *)
(* and count in the row as it is by then: neither budget is overrun.       *)
RetryBudgets ==
    \A j \in Jobs : /\ row[j].infra <= MaxInfraRetries
                    /\ row[j].cancels <= MaxCancelRetries

(* poll_running_jobs and dispatch: a job is a success only when the script *)
(* of its current dispatch key succeeded, whatever was retried, canceled,  *)
(* overwritten or answered twice.                                          *)
SuccessIsReal ==
    \A j \in Jobs : row[j].status = "success" => run[<<j, row[j].infra>>].out = "success"

(* finalize_pipeline_status: a pipeline is shown as a success only when    *)
(* some run of each of its jobs succeeded.                                 *)
PipelineSuccessIsReal ==
    \A p \in Pipelines : pipeline[p] = "success" =>
        \A j \in JobsOf(p) : \E n \in Attempts : run[<<j, n>>].out = "success"

Script(k) == run[k].live \/ k \in orphans

(* requeue_job_run_for_infra_retry makes a new key only when the run of    *)
(* the old one has ended for its runner: an older attempt of a job is      *)
(* still at work only as an orphan.  (Not so when inputs cannot be         *)
(* transferred after a reply was lost.)                                    *)
OneLiveAttempt ==
    \A j \in Jobs, n \in Attempts : Script(<<j, n>>) =>
        \/ n = row[j].infra
        \/ n < row[j].infra /\ <<j, n>> \in orphans

(* add_previous_job and next_ready_job_status: the script of a job, orphan *)
(* or not, never runs beside one of the required job before it, unless     *)
(* that one is an orphan.  (Not so when outputs cannot be stored: a        *)
(* finished job may then be run again.)                                    *)
Sequential ==
    \A j \in Jobs, i \in Jobs, n, m \in Attempts :
        (i \in Previous(j) /\ ~CanFail[i] /\ Script(<<j, n>>) /\ Script(<<i, m>>)) =>
            <<i, m>> \in orphans

(* The scripts of a pipeline do not overlap, neither attempts of a job nor *)
(* consecutive jobs, through lost replies, retries, cancellations and      *)
(* crashes of the server (dispatch_pending_jobs, poll_running_jobs); a     *)
(* crash of a runner leaves orphans, and they are all that can overlap     *)
(* with the attempts and jobs that come after them.                        *)
NoOverlap == OneLiveAttempt /\ Sequential

(* poll_running_jobs: a job run gets a final status some day. *)
JobsEnd ==
    \A j \in Jobs : row[j].status \notin FinalStatuses ~> row[j].status \in FinalStatuses

(* finalize_pipeline_status: so does a pipeline, whatever fails.  (Not so  *)
(* when the server crashes between the last job's final status and         *)
(* finalize_pipeline_status: recovery passes over a pipeline whose jobs    *)
(* are all over.)                                                          *)
PipelinesEnd ==
    \/ <>(pc = "down")
    \/ \A p \in Pipelines : pipeline[p] \in ActiveStatuses ~> pipeline[p] \notin ActiveStatuses
=============================================================================
