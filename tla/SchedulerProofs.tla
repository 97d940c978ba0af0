-------------------------- MODULE SchedulerProofs --------------------------
(***************************************************************************)
(* Proofs about Scheduler, for every number of jobs, pipelines, cancel     *)
(* requests, retries and faults.                                           *)
(*                                                                         *)
(* The loop decides on rows it has listed earlier, while cancel_pipeline   *)
(* writes the same rows.  The argument is that the two halves of a row do  *)
(* not mix: the key of a row (infra_retry_count and runner_run_id) and its *)
(* cancel retries are written by the loop alone, so what the loop has      *)
(* listed of them still holds (Listing, CancelsCounted) until its own      *)
(* write; the status may be anybody's, but "success" is written only by    *)
(* PollFinish, from an answer about the row's own key (SeenIsSo), and what *)
(* a run came to is never overwritten (RunSound).                          *)
(*                                                                         *)
(* The proof that a step keeps the invariant goes through what the step    *)
(* may do to a row (RowMove), to a run (RunKept) and to the lists and the  *)
(* position of the loop (LoopUpdated).                                     *)
(***************************************************************************)
EXTENDS Scheduler, TLAPS

(* Where the loop works on a row. *)
Working == {"create", "created", "dispatch_finalize", "retry", "retried", "get", "apply",
            "poll_finalize"}

(* A row names the run of its own key or none; the budgets are kept; only  *)
(* a job with a predecessor is ever blocked and none is skipped.           *)
RowsSound ==
    \A j \in Jobs : /\ row[j].infra \in Attempts
                    /\ row[j].rid \in {NoRun, row[j].infra}
                    /\ row[j].cancels <= MaxCancelRetries
                    /\ row[j].status # "skipped"
                    /\ row[j].status = "blocked" => Previous(j) # {}

(* A run that is live has come to nothing yet; one that has ended shows    *)
(* what it came to, unless a cancellation has overwritten that.            *)
RunSound(r) ==
    /\ r.live => r.out = "none" /\ r.status \in ActiveStatuses
    /\ r.status = "none" => r.out = "none"
    /\ r.status = "running" => r.live
    /\ r.status \in EndedRun \ {"canceled"} => r.out = r.status

RunsSound == \A k \in Jobs \X Attempts : RunSound(run[k])

(* The runner of an orphan has said what the run came to. *)
OrphansSound == \A k \in orphans : run[k].out # "none"

Finalizing(j) == cur = j /\ pc \in {"dispatch_finalize", "poll_finalize"}

(* The key of a listed row is still the row's key, until the loop itself   *)
(* has written the row and is about to finalize.                           *)
Listing ==
    \A j \in Todo(snap) : ~Finalizing(j) =>
        snap[j].infra = row[j].infra /\ snap[j].rid = row[j].rid

(* The row worked on is a listed one, with what its phase asks for.        *)
Position ==
    /\ pc \in Working => cur \in Todo(snap)
    /\ pc \in {"retry", "retried", "get", "apply"} => snap[cur].rid # NoRun
    /\ pc \in {"retry", "retried"} => snap[cur].cancels < MaxCancelRetries

(* Cancel retries are counted by the loop, after it has compared them.     *)
Counted(j) == cur = j /\ pc \in {"get", "apply", "poll_finalize"}

CancelsCounted ==
    \A j \in Todo(snap) : ~Counted(j) => row[j].cancels <= snap[j].cancels

(* An answer about an ended run that is about to be applied is what the    *)
(* run of the row's key came to, even if the run's status has been         *)
(* overwritten since.                                                      *)
SeenIsSo ==
    (pc = "apply" /\ seen \in {"success", "failed_infra"}) =>
        run[<<cur, row[cur].infra>>].out = seen

(* The rows a cancel request has read name runs that may be asked for.     *)
RequestRows == {r \in Row \cup {NoRow} : r.rid \in Attempts \cup {NoRun}}

Requests ==
    {Idle, Done} \cup [pc : {"next", "ask", "mark"}, p : Pipelines,
                      snap : [Jobs -> RequestRows], remote : BOOLEAN, live : BOOLEAN]

RequestsSound == canceler \in [Cancelers -> Requests]

(* The inductive invariant. *)
SchedInv ==
    /\ TypeOK
    /\ RowsSound
    /\ RunsSound
    /\ OrphansSound
    /\ Listing
    /\ Position
    /\ CancelsCounted
    /\ SeenIsSo
    /\ RequestsSound
    /\ SuccessIsReal
    /\ PipelineSuccessIsReal

-----------------------------------------------------------------------------
(* The pure functions and the updates of db.rs return what they should. *)
LEMMA StatusOfPipeline ==
    ASSUME NEW pairs
    PROVE  terminal_pipeline_status(pairs) \in PipelineStatuses
BY DEF terminal_pipeline_status, PipelineStatuses, ActiveStatuses

(* Every statement of db.rs makes a row of a row. *)
LEMMA UpdatedRows ==
    ASSUME NEW r \in Row
    PROVE  /\ \A status \in JobStatuses : /\ set_job_run_status(r, status) \in Row
                                          /\ finish_job_run(r, status) \in Row
           /\ \A rid \in Nat : set_job_run_started(r, rid) \in Row
           /\ mark_job_run_cancel_requested(r) \in Row
           /\ record_cancel_retry(r) \in Row
           /\ requeue_job_run_for_infra_retry(r) \in Row
           /\ mark_job_run_cancel_retry_exhausted(r) \in Row
<1>0. /\ r.status \in JobStatuses /\ r.rid \in Nat \cup {NoRun}
      /\ r.infra \in Nat /\ r.cancels \in Nat /\ r.timer \subseteq {"requested", "started"}
      BY DEF Row
<1>s. {"running", "cancel_requested", "canceling", "canceled", "pending", "failed"} \subseteq JobStatuses
      BY DEF JobStatuses, ActiveStatuses, FinalStatuses
<1>1. ASSUME NEW status \in JobStatuses PROVE set_job_run_status(r, status) \in Row
  <2>1. CASE status = "cancel_requested" BY <2>1, <1>0 DEF set_job_run_status, Row, CancelPhase
  <2>2. CASE status = "canceling" BY <2>2, <1>0 DEF set_job_run_status, Row, CancelPhase
  <2>3. CASE status = "canceled" BY <2>3, <1>0 DEF set_job_run_status, Row, CancelPhase
  <2>4. CASE status \notin CancelPhase BY <2>4, <1>0 DEF set_job_run_status, Row, CancelPhase
  <2>5. QED BY <2>1, <2>2, <2>3, <2>4 DEF CancelPhase
<1>2. ASSUME NEW status \in JobStatuses PROVE finish_job_run(r, status) \in Row
      BY <1>0 DEF finish_job_run, Row
<1>3. ASSUME NEW rid \in Nat PROVE set_job_run_started(r, rid) \in Row
      BY <1>0, <1>s DEF set_job_run_started, Row
<1>4. mark_job_run_cancel_requested(r) \in Row BY <1>0, <1>s DEF mark_job_run_cancel_requested, Row
<1>5. record_cancel_retry(r) \in Row BY <1>0 DEF record_cancel_retry, Row
<1>6. requeue_job_run_for_infra_retry(r) \in Row BY <1>0, <1>s DEF requeue_job_run_for_infra_retry, Row
<1>7. mark_job_run_cancel_retry_exhausted(r) \in Row
      BY <1>0, <1>s DEF mark_job_run_cancel_retry_exhausted, Row
<1>8. QED BY <1>1, <1>2, <1>3, <1>4, <1>5, <1>6, <1>7

-----------------------------------------------------------------------------
(* Type correctness, part by part. *)
DbOK == row \in [Jobs -> Row] /\ pipeline \in [Pipelines -> PipelineStatuses] /\ late \subseteq Jobs

Run == [status : RunStatuses, live : BOOLEAN, out : EndedRun \cup {"none"}]

RunOK == run \in [Jobs \X Attempts -> Run]

OrphansOK == orphans \subseteq Jobs \X Attempts

LoopOK ==
    /\ pc \in LoopPc
    /\ psnap \in [Pipelines -> PipelineStatuses \cup {"none"}]
    /\ snap \in [Jobs -> Row \cup {NoRow}]
    /\ cur \in Jobs \cup {0}
    /\ seen \in RunStatuses \cup {"live", "ended"}

CancelOK == canceler \in [Cancelers -> CancelerStates]

(* The type invariant is the sum of its parts. *)
LEMMA TypeParts ==
    TypeOK <=> DbOK /\ RunOK /\ OrphansOK /\ LoopOK /\ CancelOK /\ faults \in 0..MaxFaults
BY DEF TypeOK, DbOK, RunOK, Run, OrphansOK, LoopOK, CancelOK

(* Faults are counted. *)
LEMMA FaultCounted ==
    ASSUME faults \in 0..MaxFaults, NEW kind, Fault(kind)
    PROVE  faults' \in 0..MaxFaults
BY BoundsAssumption DEF Fault

(* Storing a row. *)
LEMMA UpdateTyped ==
    ASSUME DbOK, NEW j \in Jobs, NEW r \in Row, Update(j, r), pipeline' = pipeline
    PROVE  DbOK'
BY DEF DbOK, Update

(* Moving the loop. *)
LEMMA LoopTyped ==
    ASSUME LoopOK, NEW next \in LoopPc, NEW rows \in [Jobs -> Row \cup {NoRow}],
           NEW j \in Jobs \cup {0}, NEW answer \in RunStatuses \cup {"live", "ended"},
           LoopAt(next, rows, j, answer)
    PROVE  LoopOK'
BY DEF LoopOK, LoopAt

(* Moving the loop on with a job. *)
LEMMA WithTyped ==
    ASSUME LoopOK, NEW next \in LoopPc, NEW j \in Jobs \cup {0},
           NEW answer \in RunStatuses \cup {"live", "ended"}, With(next, j, answer)
    PROVE  LoopOK'
BY LoopTyped DEF With, LoopOK

(* A job is done with for this tick. *)
LEMMA DropTyped ==
    ASSUME LoopOK, NEW next \in LoopPc, NEW j, Drop(next, j)
    PROVE  LoopOK'
<1>1. [snap EXCEPT ![j] = NoRow] \in [Jobs -> Row \cup {NoRow}] BY DEF LoopOK
<1>2. QED BY <1>1, LoopTyped DEF Drop, RunStatuses

(* A tick that ends early. *)
LEMMA AbortTyped ==
    ASSUME LoopOK, Abort
    PROVE  LoopOK'
BY LoopTyped DEF Abort, LoopPc, RunStatuses

(* Listing jobs. *)
LEMMA ListedTyped ==
    ASSUME row \in [Jobs -> Row], NEW js, NEW statuses
    PROVE  Listed(js, statuses) \in [Jobs -> Row \cup {NoRow}]
BY DEF Listed

-----------------------------------------------------------------------------
(* What a step may do to a row ... *)

Kept(j, r) ==
    /\ r.infra = row[j].infra
    /\ r.rid = row[j].rid
    /\ r.cancels <= row[j].cancels
    /\ r.status # "skipped"
    /\ r.status = "success" => row[j].status = "success"
    /\ r.status = "blocked" => row[j].status = "blocked" \/ Previous(j) # {}

Requeued(j, r) ==
    /\ cur = j /\ cur' = j
    /\ pc' \in {"dispatch_finalize", "poll_finalize"}
    /\ \/ pc = "create" /\ "transfer" \in Faults
       \/ pc = "apply" /\ seen = "failed_infra"
       \/ pc = "apply" /\ seen = "success" /\ "outputs" \in Faults
    /\ row[j].infra < MaxInfraRetries
    /\ r = requeue_job_run_for_infra_retry(row[j])

Started(j, r) ==
    /\ pc = "created" /\ pc' = "dispatch"
    /\ snap'[j] = NoRow
    /\ r = set_job_run_started(row[j], row[j].infra)

Retried(j, r) ==
    /\ pc' = "get" /\ cur' = j
    /\ row[j].cancels < MaxCancelRetries
    /\ r = record_cancel_retry(row[j])

Succeeded(j, r) ==
    /\ pc = "apply" /\ cur = j /\ seen = "success"
    /\ r = finish_job_run(row[j], "success")

RowMove(j, r) == Kept(j, r) \/ Requeued(j, r) \/ Started(j, r) \/ Retried(j, r) \/ Succeeded(j, r)

(* The actions that write a row, a run, a pipeline, the loop's variables;  *)
(* every other one leaves them alone (Footprint).                          *)
RowWrites ==
    \/ \E j \in Jobs : \/ DispatchBlocked(j) \/ PollExhausted(j)
                       \/ \E x \in Cancelers : CancelMark(x, j) \/ CancelPending(x, j)
    \/ InputsTransferFails \/ CreateRejected \/ DispatchStarted \/ RetryRecorded
    \/ PollProgress \/ PollRequeue \/ PollOutputsFail \/ PollFinish

RunWrites ==
    \/ CreateAccepted \/ RetryCancel
    \/ \E j \in Jobs, x \in Cancelers : CancelAnswered(x, j)
    \/ \E k \in Jobs \X Attempts : RunEnds(k) \/ RunCanceling(k)
    \/ RunnerRestart

PipelineWrites ==
    \/ \E p \in Pipelines : RecoverWrite(p)
    \/ Finalize
    \/ \E x \in Cancelers : CancelEnds(x)

LoopMoves == LoopStep \/ LoopFault \/ Crash \/ Restart

(* Every step is one of a few writes of each of the tables, the runs and   *)
(* the loop.                                                               *)
LEMMA Footprint ==
    ASSUME Next
    PROVE  /\ \/ RowWrites
              \/ row' = row /\ late' \in {late} \cup {late \cup {j} : j \in Jobs}
           /\ run' = run \/ RunWrites
           /\ pipeline' = pipeline \/ PipelineWrites
           /\ UNCHANGED loop \/ LoopMoves
<1>1. CASE RecoverStep
      BY <1>1 DEF RecoverStep, RecoverList, RecoverWrite, PipelineWrites, LoopMoves, LoopStep,
            db, runs
<1>2. CASE DispatchStep
      BY <1>2 DEF DispatchStep, DispatchList, DispatchBlocked, DispatchWait, DispatchReady,
            CreateConflict, CreateAccepted, DispatchStarted, RowWrites, RunWrites, LoopMoves,
            LoopStep, db, runs
<1>3. CASE PollStep
      BY <1>3 DEF PollStep, PollList, PollSkip, PollExhausted, PollStuck, PollFetch, RetryCancel,
            RetryRecorded, PollGet, PollSame, PollProgress, PollRequeue, PollFinish, TickEnds,
            RowWrites, RunWrites, LoopMoves, LoopStep, db, runs
<1>4. CASE Finalize BY <1>4 DEF Finalize, PipelineWrites, LoopMoves, LoopStep, runs
<1>5. CASE LoopFault
      BY <1>5 DEF LoopFault, DispatchDisabled, InputsTransferFails, CreateFails, CreateRejected,
            CreateReplyLost, RetryCancelFails, PollGetFails, PollOutputsFail, RowWrites,
            LoopMoves, db, runs
<1>6. ASSUME NEW x \in Cancelers, \/ \E p \in Pipelines : CancelList(x, p)
                                  \/ CancelStep(x) \/ CancelFails(x)
      PROVE  /\ RowWrites \/ (row' = row /\ late' = late)
             /\ run' = run \/ RunWrites
             /\ pipeline' = pipeline \/ PipelineWrites
             /\ UNCHANGED loop
      BY <1>6 DEF CancelList, CancelStep, CancelFails, CancelAsk, CancelAnswered, CancelMark,
            CancelPending, CancelPass, CancelEnds, CancelerAt, RowWrites, RunWrites,
            PipelineWrites, db, runs
<1>7. ASSUME NEW k \in Jobs \X Attempts, RunnerStep(k) \/ OrphanEnds(k)
      PROVE  /\ row' = row /\ late' = late /\ pipeline' = pipeline /\ UNCHANGED loop
             /\ run' = run \/ RunWrites
      BY <1>7 DEF RunnerStep, RunEnds, RunCanceling, OrphanEnds, RunWrites, db
<1>8. ASSUME NEW j \in Jobs, TimePasses(j)
      PROVE  /\ row' = row /\ late' \in {late \cup {i} : i \in Jobs}
             /\ run' = run /\ pipeline' = pipeline /\ UNCHANGED loop
      BY <1>8 DEF TimePasses, runs
<1>9. CASE RunnerRestart BY <1>9 DEF RunnerRestart, RunWrites, db, runs
<1>10. CASE Crash \/ Restart BY <1>10 DEF Crash, Restart, LoopMoves, db, runs
<1>11. QED BY <1>1, <1>2, <1>3, <1>4, <1>5, <1>6, <1>7, <1>8, <1>9, <1>10 DEF Next, LoopStep

(* The fields of a row. *)
LEMMA RowDomains ==
    ASSUME DbOK, NEW j \in Jobs
    PROVE  /\ row[j] \in Row
           /\ row[j].status \in JobStatuses /\ row[j].rid \in Nat \cup {NoRun}
           /\ row[j].infra \in Nat /\ row[j].cancels \in Nat
BY DEF DbOK, Row

(* The fields of a row as it was listed. *)
LEMMA ListedDomains ==
    ASSUME LoopOK, NEW j \in Todo(snap)
    PROVE  /\ j \in Jobs /\ j # 0
           /\ snap[j] \in Row
           /\ snap[j].status \in JobStatuses /\ snap[j].rid \in Nat \cup {NoRun}
           /\ snap[j].infra \in Nat /\ snap[j].cancels \in Nat
BY JobsAssumption DEF LoopOK, Todo, Row

(* These statements keep the key, the budgets and the run of a job. *)
LEMMA KeptRows ==
    ASSUME DbOK, NEW j \in Jobs, RowsSound
    PROVE  /\ \A status \in JobStatuses \ {"skipped", "success", "blocked"} :
                  Kept(j, set_job_run_status(row[j], status)) /\ Kept(j, finish_job_run(row[j], status))
           /\ Previous(j) # {} => Kept(j, set_job_run_status(row[j], "blocked"))
           /\ Kept(j, mark_job_run_cancel_requested(row[j]))
           /\ Kept(j, mark_job_run_cancel_retry_exhausted(row[j]))
<1>1. row[j].cancels \in Nat BY RowDomains
<1>2. \A status : /\ set_job_run_status(row[j], status).infra = row[j].infra
                  /\ set_job_run_status(row[j], status).rid = row[j].rid
                  /\ set_job_run_status(row[j], status).status = status
                  /\ set_job_run_status(row[j], status).cancels <= row[j].cancels
      BY <1>1 DEF set_job_run_status
<1>3. \A status : /\ finish_job_run(row[j], status).infra = row[j].infra
                  /\ finish_job_run(row[j], status).rid = row[j].rid
                  /\ finish_job_run(row[j], status).status = status
                  /\ finish_job_run(row[j], status).cancels <= row[j].cancels
      BY <1>1 DEF finish_job_run
<1>4. Kept(j, mark_job_run_cancel_requested(row[j])) BY <1>1 DEF Kept, mark_job_run_cancel_requested
<1>5. Kept(j, mark_job_run_cancel_retry_exhausted(row[j]))
      BY <1>1 DEF Kept, mark_job_run_cancel_retry_exhausted
<1>6. QED BY <1>2, <1>3, <1>4, <1>5 DEF Kept

(* ... and what that does: a step that writes a row writes one row, with   *)
(* one of the five kinds of update.                                        *)
LEMMA RowUpdates ==
    ASSUME SchedInv, RowWrites
    PROVE  \E j \in Jobs, r \in Row :
               Update(j, r) /\ RowMove(j, r) /\ pipeline' = pipeline /\ run' = run
<1>0. DbOK /\ LoopOK /\ RowsSound /\ Listing /\ Position /\ CancelsCounted
      BY TypeParts DEF SchedInv
<1>s. {"running", "cancel_requested", "canceling", "canceled", "pending", "failed"}
          \subseteq JobStatuses \ {"skipped", "success", "blocked"} /\ {"success", "blocked"} \subseteq JobStatuses
      BY DEF JobStatuses, ActiveStatuses, FinalStatuses
<1>a. ASSUME pc \in Working PROVE cur \in Todo(snap) /\ cur \in Jobs
      BY <1>a, <1>0, ListedDomains DEF Position
<1>b. ASSUME NEW j \in Jobs, NEW r \in Row, Update(j, r), Kept(j, r), pipeline' = pipeline, run' = run
      PROVE  \E i \in Jobs, q \in Row :
                 Update(i, q) /\ RowMove(i, q) /\ pipeline' = pipeline /\ run' = run
      BY <1>b DEF RowMove
<1>r. ASSUME \/ pc = "create" /\ "transfer" \in Faults
             \/ pc = "apply" /\ seen = "success" /\ "outputs" \in Faults,
             pc' \in {"dispatch_finalize", "poll_finalize"}, cur' = cur,
             retry_or_fail_infra_error(cur), pipeline' = pipeline, run' = run
      PROVE  \E i \in Jobs, q \in Row :
                 Update(i, q) /\ RowMove(i, q) /\ pipeline' = pipeline /\ run' = run
  <2>0. cur \in Todo(snap) /\ cur \in Jobs BY <1>r, <1>a DEF Working
  <2>1. row[cur] \in Row /\ snap[cur].infra = row[cur].infra
        BY <2>0, <1>r, <1>0, RowDomains DEF Listing, Finalizing
  <2>2. CASE MayRetry(snap[cur])
    <3>1. Update(cur, requeue_job_run_for_infra_retry(row[cur]))
          BY <2>2, <1>r DEF retry_or_fail_infra_error
    <3>2. requeue_job_run_for_infra_retry(row[cur]) \in Row BY <2>1, UpdatedRows
    <3>3. Requeued(cur, requeue_job_run_for_infra_retry(row[cur]))
          BY <1>r, <2>1, <2>2 DEF Requeued, MayRetry
    <3>4. QED BY <3>1, <3>2, <3>3, <2>0, <1>r DEF RowMove
  <2>3. CASE ~MayRetry(snap[cur])
    <3>1. Update(cur, finish_job_run(row[cur], "failed")) BY <2>3, <1>r DEF retry_or_fail_infra_error
    <3>2. finish_job_run(row[cur], "failed") \in Row BY <2>1, UpdatedRows, <1>s
    <3>3. Kept(cur, finish_job_run(row[cur], "failed")) BY <1>0, <2>0, <1>s, KeptRows
    <3>4. QED BY <3>1, <3>2, <3>3, <2>0, <1>r, <1>b
  <2>4. QED BY <2>2, <2>3
<1>1. ASSUME NEW j \in Jobs, DispatchBlocked(j)
      PROVE  \E i \in Jobs, q \in Row :
                 Update(i, q) /\ RowMove(i, q) /\ pipeline' = pipeline /\ run' = run
  <2>1. Previous(j) # {}
        BY <1>1 DEF DispatchBlocked, StatusOf, next_ready_job_status, RequiredFailed, Outcomes
  <2>2. set_job_run_status(row[j], "blocked") \in Row BY <1>0, <1>s, RowDomains, UpdatedRows
  <2>3. Kept(j, set_job_run_status(row[j], "blocked")) BY <2>1, <1>0, KeptRows
  <2>4. QED BY <2>2, <2>3, <1>1, <1>b DEF DispatchBlocked, runs
<1>2. ASSUME NEW j \in Jobs, PollExhausted(j)
      PROVE  \E i \in Jobs, q \in Row :
                 Update(i, q) /\ RowMove(i, q) /\ pipeline' = pipeline /\ run' = run
  <2>1. mark_job_run_cancel_retry_exhausted(row[j]) \in Row BY <1>0, RowDomains, UpdatedRows
  <2>2. QED BY <2>1, <1>0, <1>2, KeptRows, <1>b DEF PollExhausted, runs
<1>3. ASSUME NEW j \in Jobs, NEW x \in Cancelers, CancelMark(x, j)
      PROVE  \E i \in Jobs, q \in Row :
                 Update(i, q) /\ RowMove(i, q) /\ pipeline' = pipeline /\ run' = run
  <2>1. mark_job_run_cancel_requested(row[j]) \in Row BY <1>0, RowDomains, UpdatedRows
  <2>2. QED BY <2>1, <1>0, <1>3, KeptRows, <1>b DEF CancelMark, runs
<1>4. ASSUME NEW j \in Jobs, NEW x \in Cancelers, CancelPending(x, j)
      PROVE  \E i \in Jobs, q \in Row :
                 Update(i, q) /\ RowMove(i, q) /\ pipeline' = pipeline /\ run' = run
  <2>1. set_job_run_status(row[j], "canceled") \in Row BY <1>0, <1>s, RowDomains, UpdatedRows
  <2>2. Kept(j, set_job_run_status(row[j], "canceled")) BY <1>0, <1>s, KeptRows
  <2>3. QED BY <2>1, <2>2, <1>4, <1>b DEF CancelPending, runs
<1>5. CASE InputsTransferFails
  <2>1. /\ pc = "create" /\ "transfer" \in Faults
        /\ pc' = "dispatch_finalize" /\ cur' = cur
        /\ retry_or_fail_infra_error(cur) /\ pipeline' = pipeline /\ run' = run
        BY <1>5 DEF InputsTransferFails, Fault, With, LoopAt, runs
  <2>2. QED BY <2>1, <1>r
<1>6. CASE CreateRejected
  <2>1. cur \in Jobs BY <1>6, <1>a DEF CreateRejected, Working
  <2>2. finish_job_run(row[cur], "failed") \in Row BY <2>1, <1>0, RowDomains, UpdatedRows, <1>s
  <2>3. Kept(cur, finish_job_run(row[cur], "failed")) BY <1>0, <2>1, <1>s, KeptRows
  <2>4. QED BY <2>1, <2>2, <2>3, <1>6, <1>b DEF CreateRejected, runs
<1>7. CASE DispatchStarted
  <2>1. cur \in Todo(snap) /\ cur \in Jobs BY <1>7, <1>a DEF DispatchStarted, Working
  <2>2. row[cur] \in Row /\ row[cur].infra \in Nat /\ snap[cur].infra = row[cur].infra
        BY <2>1, <1>7, <1>0, RowDomains DEF DispatchStarted, Listing, Finalizing
  <2>3. set_job_run_started(row[cur], row[cur].infra) \in Row BY <2>2, UpdatedRows
  <2>4. snap'[cur] = NoRow BY <2>1, <1>7, <1>0 DEF DispatchStarted, Drop, LoopAt, LoopOK
  <2>5. Started(cur, set_job_run_started(row[cur], row[cur].infra))
        BY <2>4, <1>7 DEF Started, DispatchStarted, Drop, LoopAt
  <2>6. QED BY <2>1, <2>2, <2>3, <2>5, <1>7 DEF DispatchStarted, RowMove, runs
<1>8. CASE RetryRecorded
  <2>1. cur \in Todo(snap) /\ cur \in Jobs BY <1>8, <1>a DEF RetryRecorded, Working
  <2>2. row[cur] \in Row /\ row[cur].cancels <= snap[cur].cancels /\ snap[cur].cancels < MaxCancelRetries
        BY <2>1, <1>8, <1>0, RowDomains DEF RetryRecorded, CancelsCounted, Counted, Position
  <2>3. row[cur].cancels \in Nat /\ snap[cur].cancels \in Nat
        BY <2>1, <1>0, RowDomains, ListedDomains
  <2>4. Retried(cur, record_cancel_retry(row[cur]))
        BY <2>2, <2>3, <1>8, BoundsAssumption DEF Retried, RetryRecorded, With, LoopAt
  <2>5. record_cancel_retry(row[cur]) \in Row BY <2>2, UpdatedRows
  <2>6. QED BY <2>1, <2>4, <2>5, <1>8 DEF RetryRecorded, RowMove, runs
<1>9. CASE PollProgress
  <2>0. cur \in Jobs BY <1>9, <1>a DEF PollProgress, Working
  <2>1. Progress(snap[cur].status, seen) \in {"canceling", "cancel_requested", "running"}
        BY <1>9 DEF PollProgress, Progress, ActiveStatuses
  <2> DEFINE next == Progress(snap[cur].status, seen)
  <2> HIDE DEF next
  <2>2. next \in JobStatuses \ {"skipped", "success", "blocked"} BY <2>1, <1>s DEF next
  <2>3. set_job_run_status(row[cur], next) \in Row BY <2>0, <2>2, <1>0, RowDomains, UpdatedRows
  <2>4. Kept(cur, set_job_run_status(row[cur], next)) BY <2>0, <2>2, <1>0, KeptRows
  <2>5. Update(cur, set_job_run_status(row[cur], next)) /\ pipeline' = pipeline /\ run' = run
        BY <1>9 DEF PollProgress, next, runs
  <2>6. QED BY <2>0, <2>3, <2>4, <2>5, <1>b
<1>10. CASE PollRequeue
  <2>1. cur \in Todo(snap) /\ cur \in Jobs BY <1>10, <1>a DEF PollRequeue, Working
  <2>2. row[cur] \in Row /\ snap[cur].infra = row[cur].infra
        BY <2>1, <1>10, <1>0, RowDomains DEF PollRequeue, Listing, Finalizing
  <2>3. Requeued(cur, requeue_job_run_for_infra_retry(row[cur]))
        BY <2>2, <1>10 DEF Requeued, PollRequeue, RetriesInfra, MayRetry, With, LoopAt
  <2>4. requeue_job_run_for_infra_retry(row[cur]) \in Row BY <2>2, UpdatedRows
  <2>5. QED BY <2>1, <2>3, <2>4, <1>10 DEF PollRequeue, RowMove, runs
<1>11. CASE PollOutputsFail
  <2>1. /\ pc = "apply" /\ seen = "success" /\ "outputs" \in Faults
        /\ pc' = "poll_finalize" /\ cur' = cur
        /\ retry_or_fail_infra_error(cur) /\ pipeline' = pipeline /\ run' = run
        BY <1>11 DEF PollOutputsFail, Fault, With, LoopAt, runs
  <2>2. QED BY <2>1, <1>r
<1>12. CASE PollFinish
  <2>1. cur \in Jobs BY <1>12, <1>a DEF PollFinish, Working
  <2> DEFINE ending == IF seen \in {"success", "canceled"} THEN seen ELSE "failed"
  <2> HIDE DEF ending
  <2>2. Update(cur, finish_job_run(row[cur], ending)) /\ pipeline' = pipeline /\ run' = run
        BY <1>12 DEF PollFinish, ending, runs
  <2>3. ending \in JobStatuses BY <1>s DEF ending
  <2>4. finish_job_run(row[cur], ending) \in Row BY <2>1, <2>3, <1>0, RowDomains, UpdatedRows
  <2>5. CASE seen = "success"
        BY <2>1, <2>2, <2>4, <2>5, <1>12 DEF ending, PollFinish, Succeeded, RowMove
  <2>6. CASE seen # "success"
    <3>1. ending \in JobStatuses \ {"skipped", "success", "blocked"} BY <2>6, <1>s DEF ending
    <3>2. Kept(cur, finish_job_run(row[cur], ending)) BY <3>1, <2>1, <1>0, KeptRows
    <3>3. QED BY <3>2, <2>1, <2>2, <2>4, <1>b
  <2>7. QED BY <2>5, <2>6
<1>13. QED BY <1>1, <1>2, <1>3, <1>4, <1>5, <1>6, <1>7, <1>8, <1>9, <1>10, <1>11, <1>12
       DEF RowWrites

-----------------------------------------------------------------------------
(* What a step may do to a run. *)

RunKept(k) ==
    /\ run[k].out # "none" => run'[k].out = run[k].out
    /\ run'[k].live => run[k].live \/ (CreateAccepted /\ k = Key(cur))

(* A cancel request changes no outcome. *)
LEMMA CanceledRuns ==
    ASSUME NEW r \in Run, NEW was_live, NEW answer \in CancelRun(r, was_live)
    PROVE  /\ answer.run \in Run
           /\ answer.run.live = r.live /\ answer.run.out = r.out
           /\ RunSound(r) => RunSound(answer.run)
           /\ answer.ok \in BOOLEAN
<1>0. r.status \in RunStatuses /\ r.live \in BOOLEAN /\ r.out \in EndedRun \cup {"none"} BY DEF Run
<1> DEFINE Having(status) == [status |-> status, live |-> r.live, out |-> r.out]
<1>1. \A status \in RunStatuses : /\ Having(status) \in Run
                                  /\ Having(status).live = r.live
                                  /\ Having(status).out = r.out
                                  /\ Having(status).status = status
      BY <1>0 DEF Run
<1>2. "cancel_requested" \in RunStatuses BY DEF RunStatuses, ActiveStatuses
<1>3. CASE r.live
  <2>1. answer.ok = TRUE /\ answer.run = Having(IF r.status = "running" THEN "cancel_requested"
                                                                        ELSE r.status)
        BY <1>3 DEF CancelRun
  <2>2. QED BY <2>1, <1>0, <1>1, <1>2, <1>3 DEF RunSound, ActiveStatuses, EndedRun
<1>4. CASE ~r.live /\ answer.run = r /\ answer.ok \in BOOLEAN
      BY <1>4
<1>5. CASE ~r.live /\ \E status \in {r.status, "cancel_requested"} :
                          answer.run = Having(status) /\ answer.ok \in BOOLEAN
  <2>1. PICK status \in {r.status, "cancel_requested"} : answer.run = Having(status) BY <1>5
  <2>2. QED BY <2>1, <1>0, <1>1, <1>2, <1>5 DEF RunSound, ActiveStatuses, EndedRun
<1>6. ASSUME ~r.live, r.status \notin CancelPhase, was_live
      PROVE  \E status \in {r.status, "cancel_requested"} :
                 answer.run = Having(status) /\ answer.ok \in BOOLEAN
  <2>1. answer \in {[ok |-> ok, run |-> Having(status)] :
                        ok \in BOOLEAN, status \in {r.status, "cancel_requested"}}
        BY <1>6 DEF CancelRun
  <2>2. PICK ok \in BOOLEAN, status \in {r.status, "cancel_requested"} :
            answer = [ok |-> ok, run |-> Having(status)]
        BY <2>1
  <2>3. answer.run = Having(status) /\ answer.ok = ok BY <2>2
  <2>4. QED BY <2>3
<1>7. ASSUME ~r.live, r.status \in CancelPhase \/ ~was_live
      PROVE  answer.run = r /\ answer.ok \in BOOLEAN
  <2>1. CASE r.status \in CancelPhase
    <3>1. CancelRun(r, was_live) = {[ok |-> TRUE, run |-> r]} BY <1>7, <2>1 DEF CancelRun
    <3>2. answer = [ok |-> TRUE, run |-> r] BY <3>1
    <3>3. QED BY <3>2
  <2>2. CASE r.status \notin CancelPhase
    <3>1. CancelRun(r, was_live) = {[ok |-> FALSE, run |-> r]} BY <1>7, <2>2 DEF CancelRun
    <3>2. answer = [ok |-> FALSE, run |-> r] BY <3>1
    <3>3. QED BY <3>2
  <2>3. QED BY <2>1, <2>2
<1>8. QED BY <1>3, <1>4, <1>5, <1>6, <1>7

(* A runner that starts again changes no outcome that was stored. *)
LEMMA RecoveredRuns ==
    ASSUME NEW r \in Run, RunSound(r)
    PROVE  /\ Recovered(r) \in Run
           /\ Recovered(r).live = FALSE
           /\ r.out # "none" => Recovered(r).out = r.out
           /\ r.live => Recovered(r).out # "none"
           /\ RunSound(Recovered(r))
<1>0. r.status \in RunStatuses /\ r.live \in BOOLEAN /\ r.out \in EndedRun \cup {"none"} BY DEF Run
<1>1. CASE r.status = "running"
      BY <1>1, <1>0 DEF Recovered, RunSound, Run, RunStatuses, EndedRun, ActiveStatuses
<1>2. CASE r.status \in {"cancel_requested", "canceling"}
      BY <1>2, <1>0 DEF Recovered, RunSound, Run, RunStatuses, EndedRun, ActiveStatuses
<1>3. CASE r.status \notin ActiveStatuses
      BY <1>3, <1>0 DEF Recovered, RunSound, Run, RunStatuses, EndedRun, ActiveStatuses
<1>4. QED BY <1>1, <1>2, <1>3 DEF ActiveStatuses

(* A step writes one run, or all of them (RunnerRestart); what a run's     *)
(* script came to is never overwritten, and only a create request starts   *)
(* one.                                                                    *)
LEMMA RunUpdates ==
    ASSUME SchedInv, RunWrites
    PROVE  /\ RunOK' /\ RunsSound'
           /\ \A k \in Jobs \X Attempts : RunKept(k)
<1>0. RunOK /\ LoopOK /\ RowsSound /\ RunsSound /\ Listing /\ Position
      BY TypeParts DEF SchedInv
<1>1. ASSUME NEW k, NEW r,
             k \in Jobs \X Attempts => /\ r \in Run /\ RunSound(r)
                                       /\ run[k].out # "none" => r.out = run[k].out
                                       /\ r.live => run[k].live \/ (CreateAccepted /\ k = Key(cur)),
             run' = [run EXCEPT ![k] = r]
      PROVE  /\ RunOK' /\ RunsSound'
             /\ \A i \in Jobs \X Attempts : RunKept(i)
  <2>1. \A i \in Jobs \X Attempts : run'[i] = IF i = k THEN r ELSE run[i] BY <1>1, <1>0 DEF RunOK
  <2>2. RunOK' BY <1>1, <1>0 DEF RunOK
  <2>3. RunsSound' BY <2>1, <1>1, <1>0 DEF RunsSound
  <2>4. \A i \in Jobs \X Attempts : RunKept(i) BY <2>1, <1>1, <1>0 DEF RunKept
  <2>5. QED BY <2>2, <2>3, <2>4
<1>2. ASSUME NEW k, NEW was_live, NEW answer \in CancelRun(run[k], was_live),
             run' = [run EXCEPT ![k] = answer.run]
      PROVE  /\ RunOK' /\ RunsSound'
             /\ \A i \in Jobs \X Attempts : RunKept(i)
  <2>1. k \in Jobs \X Attempts => run[k] \in Run /\ RunSound(run[k]) BY <1>0 DEF RunOK, RunsSound
  <2>2. k \in Jobs \X Attempts => /\ answer.run \in Run /\ RunSound(answer.run)
                                  /\ answer.run.out = run[k].out
                                  /\ answer.run.live = run[k].live
        BY <2>1, CanceledRuns
  <2>3. QED BY <2>2, <1>1, <1>2
<1>3. CASE CreateAccepted
  <2>1. CASE run[Key(cur)].status # "none"
        BY <2>1, <1>3, <1>0 DEF CreateAccepted, RunOK, RunsSound, RunKept
  <2>2. CASE run[Key(cur)].status = "none"
    <3> DEFINE new == [status |-> "running", live |-> TRUE, out |-> "none"]
    <3>1. new \in Run /\ RunSound(new) /\ new.out = "none"
          BY DEF Run, RunSound, RunStatuses, ActiveStatuses, EndedRun
    <3> HIDE DEF new
    <3>2. run' = [run EXCEPT ![Key(cur)] = new] BY <2>2, <1>3 DEF CreateAccepted, new
    <3>3. Key(cur) \in Jobs \X Attempts => run[Key(cur)].out = "none"
          BY <2>2, <1>0 DEF RunsSound, RunSound
    <3>4. QED BY <3>1, <3>2, <3>3, <1>1, <1>3
  <2>3. QED BY <2>1, <2>2
<1>4. CASE RetryCancel BY <1>4, <1>2 DEF RetryCancel
<1>5. ASSUME NEW j \in Jobs, NEW x \in Cancelers, CancelAnswered(x, j)
      PROVE  /\ RunOK' /\ RunsSound'
             /\ \A i \in Jobs \X Attempts : RunKept(i)
      BY <1>5, <1>2 DEF CancelAnswered
<1>6. ASSUME NEW k \in Jobs \X Attempts, RunEnds(k)
      PROVE  /\ RunOK' /\ RunsSound'
             /\ \A i \in Jobs \X Attempts : RunKept(i)
  <2>1. PICK out \in EndedRun : run' = [run EXCEPT ![k] = [status |-> out, live |-> FALSE, out |-> out]]
        BY <1>6 DEF RunEnds
  <2> DEFINE new == [status |-> out, live |-> FALSE, out |-> out]
  <2>2. new \in Run /\ RunSound(new) /\ ~new.live
        BY DEF Run, RunSound, RunStatuses, ActiveStatuses, EndedRun
  <2> HIDE DEF new
  <2>3. run[k].out = "none" BY <1>6, <1>0 DEF RunEnds, RunsSound, RunSound
  <2>4. run' = [run EXCEPT ![k] = new] BY <2>1 DEF new
  <2>5. QED BY <2>2, <2>3, <2>4, <1>1
<1>7. ASSUME NEW k \in Jobs \X Attempts, RunCanceling(k)
      PROVE  /\ RunOK' /\ RunsSound'
             /\ \A i \in Jobs \X Attempts : RunKept(i)
  <2> DEFINE new == [status |-> "canceling", live |-> TRUE, out |-> run[k].out]
  <2>0. run[k] \in Run /\ RunSound(run[k]) /\ run[k].live BY <1>7, <1>0 DEF RunOK, RunsSound, RunCanceling
  <2>1. run[k].out = "none" BY <2>0 DEF RunSound
  <2>2. new \in Run /\ RunSound(new)
        BY <2>1 DEF Run, RunSound, RunStatuses, ActiveStatuses, EndedRun
  <2>3. run' = [run EXCEPT ![k] = new] BY <1>7 DEF RunCanceling
  <2> HIDE DEF new
  <2>4. QED BY <2>0, <2>1, <2>2, <2>3, <1>1
<1>8. CASE RunnerRestart
  <2>1. DOMAIN run = Jobs \X Attempts /\ \A k \in Jobs \X Attempts : run[k] \in Run /\ RunSound(run[k])
        BY <1>0 DEF RunOK, RunsSound
  <2>2. run' = [k \in Jobs \X Attempts |-> Recovered(run[k])] BY <1>8, <2>1 DEF RunnerRestart
  <2>3. \A k \in Jobs \X Attempts : /\ run'[k] \in Run /\ RunSound(run'[k]) /\ ~run'[k].live
                                    /\ run[k].out # "none" => run'[k].out = run[k].out
        BY <2>1, <2>2, RecoveredRuns
  <2>4. QED BY <2>2, <2>3 DEF RunOK, RunsSound, RunKept
<1>9. QED BY <1>3, <1>4, <1>5, <1>6, <1>7, <1>8 DEF RunWrites

-----------------------------------------------------------------------------
(* What a step may do to the lists and the position of the loop. *)

SnapKept ==
    \/ row' = row /\ \A j \in Jobs : snap'[j] \in {row[j], NoRow}
    \/ \A j \in Jobs : \/ snap'[j] = NoRow
                       \/ /\ snap'[j] = snap[j]
                          /\ Finalizing(j) => Finalizing(j)'
                          /\ Counted(j) => Counted(j)'

SeenKept ==
    pc' = "apply" =>
        \/ UNCHANGED <<pc, cur, seen>>
        \/ /\ pc = "get" /\ cur' = cur
           /\ row' = row /\ run' = run
           /\ seen' = run[<<cur, snap[cur].rid>>].status

CreateKept ==
    pc' = "create" =>
        \/ UNCHANGED <<pc, cur>>
        \/ /\ cur' \in Jobs
           /\ row' = row /\ run' = run
           /\ next_ready_job_status(StatusOf(Previous(cur'))) = "pending"

LoopUpdated == LoopOK' /\ Position' /\ SnapKept /\ SeenKept /\ CreateKept

(* A job that is done with for this tick. *)
LEMMA DropKept ==
    ASSUME LoopOK, NEW next \in {"dispatch", "poll"}, NEW j, Drop(next, j),
           pc \in {"dispatch_finalize", "poll_finalize", "get", "apply"} => j = cur
    PROVE  LoopUpdated
<1>1. next \in LoopPc /\ next \notin Working \cup {"apply", "create"} BY DEF LoopPc, Working
<1>2. LoopOK' BY <1>1, DropTyped
<1>3. pc' = next /\ \A i \in Jobs : snap'[i] = IF i = j THEN NoRow ELSE snap[i]
      BY DEF Drop, LoopAt, LoopOK
<1>4. Position' BY <1>1, <1>3 DEF Position, Working
<1>5. SnapKept BY <1>3 DEF SnapKept, Finalizing, Counted
<1>6. QED BY <1>1, <1>2, <1>3, <1>4, <1>5 DEF LoopUpdated, SeenKept, CreateKept

(* A tick that ends early. *)
LEMMA AbortKept ==
    ASSUME LoopOK, Abort
    PROVE  LoopUpdated
<1>1. LoopOK' BY AbortTyped
<1>2. pc' = "idle" /\ \A i \in Jobs : snap'[i] = NoRow BY DEF Abort, LoopAt
<1>3. QED BY <1>1, <1>2 DEF LoopUpdated, Position, SnapKept, SeenKept, CreateKept, Working

(* The loop goes on with a job. *)
LEMMA WithKept ==
    ASSUME LoopOK, NEW next \in LoopPc, NEW j \in Todo(snap),
           NEW answer \in RunStatuses \cup {"live", "ended"}, With(next, j, answer),
           pc \notin {"dispatch_finalize", "poll_finalize"},
           pc \in {"get", "apply"} => j = cur /\ next \in {"get", "apply", "poll_finalize"},
           next \in {"retry", "retried", "get", "apply"} => snap[j].rid # NoRun,
           next \in {"retry", "retried"} => snap[j].cancels < MaxCancelRetries,
           SeenKept, CreateKept
    PROVE  LoopUpdated
<1>1. j \in Jobs BY DEF Todo
<1>2. LoopOK' BY <1>1, WithTyped
<1>3. pc' = next /\ cur' = j /\ snap' = snap BY DEF With, LoopAt
<1>4. Position' BY <1>3 DEF Position, Todo
<1>5. SnapKept BY <1>3 DEF SnapKept, Finalizing, Counted
<1>6. QED BY <1>2, <1>4, <1>5 DEF LoopUpdated

(* Every move of the loop keeps its position and its lists sound. *)
LEMMA LoopUpdates ==
    ASSUME SchedInv, LoopMoves
    PROVE  LoopUpdated
<1>0. DbOK /\ RunOK /\ LoopOK /\ RowsSound /\ Listing /\ Position
      BY TypeParts DEF SchedInv
<1>a. ASSUME pc \in Working PROVE cur \in Todo(snap) BY <1>a, <1>0 DEF Position
<1>n. {"none", "live", "ended"} \subseteq RunStatuses \cup {"live", "ended"} BY DEF RunStatuses
<1> USE <1>n
<1>1. CASE RecoverStep
  <2>1. CASE RecoverList
    <3>1. pc' = "recover" /\ UNCHANGED <<snap, cur, seen>> /\ pc = "idle" BY <2>1 DEF RecoverList
    <3>2. psnap' \in [Pipelines -> PipelineStatuses \cup {"none"}]
          BY <2>1, <1>0 DEF RecoverList, DbOK
    <3>3. LoopOK' BY <3>1, <3>2, <1>0 DEF LoopOK, LoopPc
    <3>4. QED BY <3>1, <3>3 DEF LoopUpdated, Position, SnapKept, SeenKept, CreateKept, Working,
                Finalizing, Counted
  <2>2. ASSUME NEW p \in Pipelines, RecoverWrite(p) PROVE LoopUpdated
    <3>1. pc = "recover" /\ UNCHANGED <<pc, snap, cur, seen>> BY <2>2 DEF RecoverWrite
    <3>2. psnap' \in [Pipelines -> PipelineStatuses \cup {"none"}]
          BY <2>2, <1>0 DEF RecoverWrite, LoopOK
    <3>3. LoopOK' BY <3>1, <3>2, <1>0 DEF LoopOK
    <3>4. QED BY <3>1, <3>3 DEF LoopUpdated, Position, SnapKept, SeenKept, CreateKept, Working,
                Finalizing, Counted
  <2>3. QED BY <2>1, <2>2, <1>1 DEF RecoverStep
<1>2. ASSUME NEW next \in {"dispatch", "poll"}, NEW statuses,
             LoopAt(next, Listed(Jobs, statuses), 0, "none"), row' = row
      PROVE  LoopUpdated
  <2>1. Listed(Jobs, statuses) \in [Jobs -> Row \cup {NoRow}] BY <1>0, ListedTyped DEF DbOK
  <2>2. next \in LoopPc /\ next \notin Working \cup {"create", "apply"} BY DEF LoopPc, Working
  <2>3. LoopOK' BY <2>1, <2>2, <1>0, <1>2, LoopTyped
  <2>4. pc' = next /\ \A j \in Jobs : snap'[j] \in {row[j], NoRow} BY <1>2 DEF LoopAt, Listed
  <2>5. QED BY <2>2, <2>3, <2>4, <1>2 DEF LoopUpdated, Position, SnapKept, SeenKept, CreateKept,
              Working
<1>3. CASE DispatchStep
  <2>1. CASE DispatchList BY <2>1, <1>2 DEF DispatchList, db, runs
  <2>2. ASSUME NEW j \in Jobs, DispatchBlocked(j) PROVE LoopUpdated
    <3>1. SeenKept /\ CreateKept BY <2>2 DEF DispatchBlocked, With, LoopAt, SeenKept, CreateKept
    <3>2. QED BY <3>1, <2>2, <1>0, WithKept DEF DispatchBlocked, LoopPc
  <2>3. ASSUME NEW j \in Jobs, DispatchWait(j) PROVE LoopUpdated
        BY <2>3, <1>0, DropKept DEF DispatchWait
  <2>4. ASSUME NEW j \in Jobs, DispatchReady(j) PROVE LoopUpdated
    <3>1. SeenKept /\ CreateKept
          BY <2>4 DEF DispatchReady, With, LoopAt, SeenKept, CreateKept, db, runs
    <3>2. QED BY <3>1, <2>4, <1>0, WithKept DEF DispatchReady, LoopPc
  <2>5. CASE CreateConflict BY <2>5, <1>0, AbortKept DEF CreateConflict
  <2>6. CASE CreateAccepted
    <3>1. SeenKept /\ CreateKept BY <2>6 DEF CreateAccepted, With, LoopAt, SeenKept, CreateKept
    <3>2. QED BY <3>1, <2>6, <1>0, <1>a, WithKept DEF CreateAccepted, LoopPc, Working
  <2>7. CASE DispatchStarted BY <2>7, <1>0, DropKept DEF DispatchStarted
  <2>8. QED BY <2>1, <2>2, <2>3, <2>4, <2>5, <2>6, <2>7, <1>3 DEF DispatchStep
<1>4. ASSUME pc \in {"create", "apply"}, NEW next \in {"dispatch_finalize", "poll_finalize"},
             pc = "apply" => next = "poll_finalize", With(next, cur, "none")
      PROVE  LoopUpdated
  <2>1. SeenKept /\ CreateKept BY <1>4 DEF With, LoopAt, SeenKept, CreateKept
  <2>2. QED BY <2>1, <1>4, <1>0, <1>a, WithKept DEF LoopPc, Working
<1>5. CASE PollStep
  <2>1. CASE PollList BY <2>1, <1>2 DEF PollList, db, runs
  <2>2. ASSUME NEW j \in Jobs, PollSkip(j) PROVE LoopUpdated
        BY <2>2, <1>0, DropKept DEF PollSkip
  <2>3. ASSUME NEW j \in Jobs, PollExhausted(j) PROVE LoopUpdated
    <3>1. SeenKept /\ CreateKept BY <2>3 DEF PollExhausted, With, LoopAt, SeenKept, CreateKept
    <3>2. QED BY <3>1, <2>3, <1>0, WithKept DEF PollExhausted, LoopPc
  <2>4. ASSUME NEW j \in Jobs, PollStuck(j) PROVE LoopUpdated
    <3>1. SeenKept /\ CreateKept BY <2>4 DEF PollStuck, With, LoopAt, SeenKept, CreateKept
    <3>2. QED BY <3>1, <2>4, <1>0, WithKept DEF PollStuck, LoopPc
  <2>5. ASSUME NEW j \in Jobs, PollFetch(j) PROVE LoopUpdated
    <3>1. SeenKept /\ CreateKept BY <2>5 DEF PollFetch, With, LoopAt, SeenKept, CreateKept
    <3>2. QED BY <3>1, <2>5, <1>0, WithKept DEF PollFetch, LoopPc
  <2>6. CASE RetryCancel
    <3>1. CASE With("retried", cur, "none")
      <4>1. SeenKept /\ CreateKept BY <3>1 DEF With, LoopAt, SeenKept, CreateKept
      <4>2. QED BY <4>1, <3>1, <2>6, <1>0, <1>a, WithKept DEF RetryCancel, LoopPc, Working, Position
    <3>2. CASE Abort BY <3>2, <1>0, AbortKept
    <3>3. QED BY <3>1, <3>2, <2>6 DEF RetryCancel
  <2>7. CASE RetryRecorded
    <3>1. SeenKept /\ CreateKept BY <2>7 DEF RetryRecorded, With, LoopAt, SeenKept, CreateKept
    <3>2. QED BY <3>1, <2>7, <1>0, <1>a, WithKept DEF RetryRecorded, LoopPc, Working, Position
  <2>8. CASE PollGet
    <3> DEFINE answer == run[<<cur, snap[cur].rid>>].status
    <3>0. cur \in Todo(snap) /\ snap[cur].rid # NoRun /\ pc = "get"
          BY <2>8, <1>0, <1>a DEF PollGet, Working, Position
    <3>1. <<cur, snap[cur].rid>> \in Jobs \X Attempts
          BY <3>0, <1>0, ListedDomains DEF Listing, Finalizing, RowsSound
    <3>2. answer \in RunStatuses BY <3>1, <1>0 DEF RunOK, Run
    <3>3. SeenKept /\ CreateKept BY <2>8 DEF PollGet, With, LoopAt, SeenKept, CreateKept, db, runs
    <3>4. With("apply", cur, answer) BY <2>8 DEF PollGet
    <3> HIDE DEF answer
    <3>5. QED BY <3>0, <3>2, <3>3, <3>4, <1>0, WithKept DEF LoopPc
  <2>9. CASE PollSame BY <2>9, <1>0, DropKept DEF PollSame
  <2>10. CASE PollProgress BY <2>10, <1>4 DEF PollProgress
  <2>11. CASE PollRequeue BY <2>11, <1>4 DEF PollRequeue
  <2>12. CASE PollFinish BY <2>12, <1>4 DEF PollFinish
  <2>13. CASE TickEnds BY <2>13, <1>0, AbortKept DEF TickEnds
  <2>14. QED BY <2>1, <2>2, <2>3, <2>4, <2>5, <2>6, <2>7, <2>8, <2>9, <2>10, <2>11, <2>12, <2>13,
               <1>5 DEF PollStep
<1>6. CASE Finalize BY <1>6, <1>0, DropKept DEF Finalize
<1>7. CASE LoopFault
  <2>1. ASSUME NEW j \in Jobs, DispatchDisabled(j) PROVE LoopUpdated
        BY <2>1, <1>0, DropKept DEF DispatchDisabled
  <2>2. CASE InputsTransferFails BY <2>2, <1>4 DEF InputsTransferFails
  <2>3. CASE CreateFails BY <2>3, <1>0, AbortKept DEF CreateFails
  <2>4. CASE CreateRejected BY <2>4, <1>4 DEF CreateRejected
  <2>5. CASE CreateReplyLost BY <2>5, <1>0, AbortKept DEF CreateReplyLost
  <2>6. CASE RetryCancelFails BY <2>6, <1>0, AbortKept DEF RetryCancelFails
  <2>7. CASE PollGetFails BY <2>7, <1>0, DropKept DEF PollGetFails
  <2>8. CASE PollOutputsFail BY <2>8, <1>4 DEF PollOutputsFail
  <2>9. QED BY <2>1, <2>2, <2>3, <2>4, <2>5, <2>6, <2>7, <2>8, <1>7 DEF LoopFault
<1>8. CASE Crash
  <2>1. /\ pc' = "down" /\ snap' = [j \in Jobs |-> NoRow] /\ cur' = 0 /\ seen' = "none"
        /\ psnap' = [p \in Pipelines |-> "none"]
        BY <1>8 DEF Crash
  <2>2. LoopOK' BY <2>1 DEF LoopOK, LoopPc
  <2>3. QED BY <2>1, <2>2 DEF LoopUpdated, Position, SnapKept, SeenKept, CreateKept, Working
<1>9. CASE Restart
  <2>1. pc = "down" /\ pc' = "idle" /\ UNCHANGED <<psnap, snap, cur, seen>> BY <1>9 DEF Restart
  <2>2. LoopOK' BY <2>1, <1>0 DEF LoopOK, LoopPc
  <2>3. QED BY <2>1, <2>2 DEF LoopUpdated, Position, SnapKept, SeenKept, CreateKept, Working,
              Finalizing, Counted
<1>10. QED BY <1>1, <1>3, <1>5, <1>6, <1>7, <1>8, <1>9 DEF LoopMoves, LoopStep

(* A pipeline is called a success only when all its jobs are. *)
LEMMA PipelineUpdates ==
    ASSUME SchedInv, PipelineWrites
    PROVE  /\ pipeline' \in [Pipelines -> PipelineStatuses]
           /\ row' = row /\ late' = late /\ run' = run
           /\ \A p \in Pipelines : pipeline'[p] = "success" =>
                  \/ pipeline[p] = "success"
                  \/ \A j \in JobsOf(p) : row[j].status = "success"
<1>0. DbOK /\ LoopOK /\ CancelOK /\ RowsSound /\ Position BY TypeParts DEF SchedInv
<1>s. {"running", "cancel_requested", "canceling", "canceled"} \subseteq PipelineStatuses \ {"success"}
      BY DEF PipelineStatuses, ActiveStatuses
<1>1. ASSUME NEW p, NEW status, pipeline' = [pipeline EXCEPT ![p] = status],
             status \in PipelineStatuses \ {"success"}, row' = row, late' = late, run' = run
      PROVE  /\ pipeline' \in [Pipelines -> PipelineStatuses]
             /\ row' = row /\ late' = late /\ run' = run
             /\ \A q \in Pipelines : pipeline'[q] = "success" => pipeline[q] = "success"
      BY <1>1, <1>0 DEF DbOK
<1>2. ASSUME NEW p \in Pipelines, RecoverWrite(p)
      PROVE  /\ pipeline' \in [Pipelines -> PipelineStatuses]
             /\ row' = row /\ late' = late /\ run' = run
             /\ \A q \in Pipelines : pipeline'[q] = "success" => pipeline[q] = "success"
  <2> DEFINE status == IF psnap[p] \in {"cancel_requested", "canceling"} THEN psnap[p] ELSE "running"
  <2>1. status \in PipelineStatuses \ {"success"} BY <1>s
  <2>2. /\ pipeline' = [pipeline EXCEPT ![p] = status]
        /\ row' = row /\ late' = late /\ run' = run
        BY <1>2 DEF RecoverWrite, runs
  <2> HIDE DEF status
  <2>3. QED BY <2>1, <2>2, <1>1
<1>3. CASE Finalize
  <2> DEFINE p == PipelineOf[cur]
             status == terminal_pipeline_status(StatusOf(JobsOf(p)))
  <2>1. /\ pipeline' = [pipeline EXCEPT ![p] = status]
        /\ row' = row /\ late' = late /\ run' = run
        BY <1>3 DEF Finalize, runs
  <2>2. status \in PipelineStatuses BY StatusOfPipeline
  <2>3. status = "success" => \A j \in JobsOf(p) : row[j].status = "success"
    <3>1. SUFFICES ASSUME status = "success", NEW j \in JobsOf(p) PROVE row[j].status = "success"
          OBVIOUS
    <3>2. j \in Jobs BY DEF JobsOf
    <3>3. <<row[j].status, CanFail[j]>> \in StatusOf(JobsOf(p)) BY DEF StatusOf
    <3>4. <<row[j].status, CanFail[j]>>[1] \in Outcomes(StatusOf(JobsOf(p))) BY <3>3 DEF Outcomes
    <3>5. Outcomes(StatusOf(JobsOf(p))) \subseteq {"success", "skipped"}
          BY <3>1 DEF terminal_pipeline_status
    <3>6. QED BY <3>2, <3>4, <3>5, <1>0 DEF RowsSound
  <2> HIDE DEF p, status
  <2>4. QED BY <2>1, <2>2, <2>3, <1>0 DEF DbOK
<1>4. ASSUME NEW x \in Cancelers, CancelEnds(x)
      PROVE  /\ pipeline' \in [Pipelines -> PipelineStatuses]
             /\ row' = row /\ late' = late /\ run' = run
             /\ \A q \in Pipelines : pipeline'[q] = "success" => pipeline[q] = "success"
  <2> DEFINE p == canceler[x].p
             status == IF canceler[x].remote THEN "cancel_requested" ELSE "canceled"
  <2>1. status \in PipelineStatuses \ {"success"} BY <1>s
  <2>2. /\ pipeline' = [pipeline EXCEPT ![p] = status]
        /\ row' = row /\ late' = late /\ run' = run
        BY <1>4 DEF CancelEnds, runs
  <2> HIDE DEF p, status
  <2>3. QED BY <2>1, <2>2, <1>1
<1>5. QED BY <1>2, <1>3, <1>4 DEF PipelineWrites

-----------------------------------------------------------------------------
(* A cancel request goes on to its next step. *)
LEMMA CancelerTyped ==
    ASSUME RequestsSound, NEW x \in Cancelers, NEW state \in Requests, CancelerAt(x, state)
    PROVE  RequestsSound'
BY DEF RequestsSound, CancelerAt

(* The fields of a cancel request that is under way. *)
LEMMA CancelingTyped ==
    ASSUME RequestsSound, NEW x \in Cancelers, canceler[x].pc \in {"next", "ask", "mark"}
    PROVE  /\ canceler[x].p \in Pipelines
           /\ canceler[x].snap \in [Jobs -> RequestRows]
           /\ canceler[x].remote \in BOOLEAN /\ canceler[x].live \in BOOLEAN
           /\ \A at \in {"next", "ask", "mark"}, remote \in BOOLEAN, live \in BOOLEAN :
                 /\ Canceling(at, canceler[x].p, canceler[x].snap, remote, live) \in Requests
                 /\ \A j : Canceling(at, canceler[x].p, Without(canceler[x], j), remote, live)
                               \in Requests
<1>1. canceler[x] \in [pc : {"next", "ask", "mark"}, p : Pipelines,
                       snap : [Jobs -> RequestRows], remote : BOOLEAN, live : BOOLEAN]
      BY DEF RequestsSound, Requests, Idle, Done
<1>2. \A j : Without(canceler[x], j) \in [Jobs -> RequestRows]
  <2>1. NoRow \in RequestRows BY DEF RequestRows, NoRow
  <2>2. canceler[x].snap \in [Jobs -> RequestRows] BY <1>1
  <2>3. QED BY <2>1, <2>2 DEF Without
<1>3. \A at \in {"next", "ask", "mark"}, rows \in [Jobs -> RequestRows],
         remote \in BOOLEAN, live \in BOOLEAN :
            Canceling(at, canceler[x].p, rows, remote, live) \in Requests
  <2>1. canceler[x].p \in Pipelines BY <1>1
  <2>2. QED BY <2>1 DEF Requests, Canceling
<1>4. QED BY <1>1, <1>2, <1>3

(* Every step keeps the cancel requests sound. *)
LEMMA CancelersTyped ==
    ASSUME DbOK, RunOK, RowsSound, RequestsSound, Next
    PROVE  RequestsSound'
<1>0. Idle \in Requests /\ Done \in Requests BY DEF Requests
<1>1. CASE LoopStep \/ LoopFault
      BY <1>1 DEF RequestsSound, LoopStep, LoopFault, RecoverStep, RecoverList, RecoverWrite,
            DispatchStep, DispatchList, DispatchBlocked, DispatchWait, DispatchReady,
            CreateConflict, CreateAccepted, DispatchStarted, PollStep, PollList, PollSkip,
            PollExhausted, PollStuck, PollFetch, RetryCancel, RetryRecorded, PollGet, PollSame,
            PollProgress, PollRequeue, PollFinish, TickEnds, Finalize, DispatchDisabled,
            InputsTransferFails, CreateFails, CreateRejected, CreateReplyLost,
            RetryCancelFails, PollGetFails, PollOutputsFail, With, Drop, Abort, LoopAt
<1>2. ASSUME NEW x \in Cancelers, NEW p \in Pipelines, CancelList(x, p) PROVE RequestsSound'
  <2>1. Listed(JobsOf(p), JobStatuses) \in [Jobs -> RequestRows]
    <3>1. NoRow \in RequestRows BY DEF RequestRows, NoRow
    <3>2. \A j \in Jobs : row[j] \in RequestRows BY DEF DbOK, RowsSound, RequestRows
    <3>3. QED BY <3>1, <3>2 DEF Listed
  <2>2. Canceling("next", p, Listed(JobsOf(p), JobStatuses), FALSE, FALSE) \in Requests
        BY <2>1 DEF Canceling, Requests
  <2>3. QED BY <2>2, <1>2, CancelerTyped DEF CancelList
<1>3. ASSUME NEW x \in Cancelers, NEW j \in Jobs,
             \/ CancelAsk(x, j) \/ CancelAnswered(x, j)
             \/ CancelMark(x, j) \/ CancelPending(x, j) \/ CancelPass(x, j)
      PROVE  RequestsSound'
  <2>0. canceler[x].pc \in {"next", "ask", "mark"}
        BY <1>3 DEF CancelAsk, CancelAnswered, CancelMark, CancelPending, CancelPass
  <2>1. CASE CancelAsk(x, j)
    <3>1. canceler[x].snap[j] \in RequestRows /\ canceler[x].snap[j].rid # NoRun
          BY <2>0, <2>1, CancelingTyped DEF CancelAsk
    <3>2. run[<<j, canceler[x].snap[j].rid>>].live \in BOOLEAN
          BY <3>1 DEF RequestRows, RunOK, Run
    <3>3. QED BY <2>0, <2>1, <3>2, CancelingTyped, CancelerTyped DEF CancelAsk
  <2>2. CASE CancelAnswered(x, j)
        BY <2>2, <2>0, <1>0, CancelingTyped, CancelerTyped DEF CancelAnswered
  <2>3. CASE CancelMark(x, j) BY <2>3, <2>0, CancelingTyped, CancelerTyped DEF CancelMark
  <2>4. CASE CancelPending(x, j) BY <2>4, <2>0, CancelingTyped, CancelerTyped DEF CancelPending
  <2>5. CASE CancelPass(x, j) BY <2>5, <2>0, CancelingTyped, CancelerTyped DEF CancelPass
  <2>6. QED BY <2>1, <2>2, <2>3, <2>4, <2>5, <1>3
<1>4. ASSUME NEW x \in Cancelers, CancelEnds(x) \/ CancelFails(x) PROVE RequestsSound'
      BY <1>4, <1>0, CancelerTyped DEF CancelEnds, CancelFails
<1>5. CASE Crash
      BY <1>5, <1>0 DEF Crash, RequestsSound
<1>6. ASSUME UNCHANGED canceler PROVE RequestsSound' BY <1>6 DEF RequestsSound
<1>7. QED BY <1>1, <1>2, <1>3, <1>4, <1>5, <1>6
      DEF Next, CancelStep, RunnerStep, RunEnds, RunCanceling, OrphanEnds, TimePasses, RunnerRestart, Restart

(* Every request has the type of one. *)
LEMMA RequestsTyped == Requests \subseteq CancelerStates
<1>1. RequestRows \subseteq Row \cup {NoRow} BY DEF RequestRows
<1>2. QED BY <1>1 DEF Requests, CancelerStates

-----------------------------------------------------------------------------
(* The invariant holds at first and is kept. *)

(* The invariant holds at first. *)
LEMMA InvInit == Init => SchedInv
<1> SUFFICES ASSUME Init PROVE SchedInv
    OBVIOUS
<1>0. NewRow \in Row /\ NewRow.infra = 0 /\ NewRow.rid = NoRun /\ NewRow.cancels = 0
          /\ NewRow.status = "pending"
      BY DEF NewRow, Row, JobStatuses
<1>1. NoRunYet \in Run /\ RunSound(NoRunYet)
      BY DEF NoRunYet, Run, RunStatuses, RunSound, ActiveStatuses, EndedRun
<1>2. 0 \in Attempts /\ 0 \in 0..MaxFaults BY BoundsAssumption DEF Attempts
<1>3. DbOK BY <1>0 DEF Init, DbOK, PipelineStatuses, ActiveStatuses
<1>4. RunOK /\ OrphansOK /\ OrphansSound BY <1>1 DEF Init, RunOK, OrphansOK, OrphansSound
<1>5. LoopOK BY DEF Init, LoopOK, LoopPc, RunStatuses
<1>6. RequestsSound BY DEF Init, RequestsSound, Requests
<1>7. RowsSound BY <1>0, <1>2, BoundsAssumption DEF Init, RowsSound
<1>8. RunsSound BY <1>1 DEF Init, RunsSound
<1>9. Todo(snap) = {} BY DEF Init, Todo
<1>10. SuccessIsReal BY <1>0 DEF Init, SuccessIsReal
<1>11. PipelineSuccessIsReal BY DEF Init, PipelineSuccessIsReal
<1>12. Position /\ SeenIsSo BY DEF Init, Position, Working, SeenIsSo
<1>13. Listing /\ CancelsCounted BY <1>9 DEF Listing, CancelsCounted
<1>14. TypeOK
  <2>1. CancelOK BY <1>6, RequestsTyped DEF RequestsSound, CancelOK
  <2>2. QED BY <1>2, <1>3, <1>4, <1>5, <2>1, TypeParts DEF Init
<1>15. QED BY <1>4, <1>6, <1>7, <1>8, <1>10, <1>11, <1>12, <1>13, <1>14 DEF SchedInv

(* The effect of a step on one row. *)
LEMMA RowSteps ==
    ASSUME SchedInv, Next
    PROVE  /\ DbOK'
           /\ \A j \in Jobs : row'[j] = row[j] \/ RowMove(j, row'[j])
<1>0. DbOK BY TypeParts DEF SchedInv
<1>1. CASE RowWrites
  <2>1. PICK j \in Jobs, r \in Row :
            Update(j, r) /\ RowMove(j, r) /\ pipeline' = pipeline /\ run' = run
        BY <1>1, RowUpdates
  <2>2. \A i \in Jobs : row'[i] = IF i = j THEN r ELSE row[i] BY <2>1, <1>0 DEF Update, DbOK
  <2>3. QED BY <2>1, <2>2, <1>0, UpdateTyped
<1>2. CASE row' = row /\ late' \in {late} \cup {late \cup {j} : j \in Jobs}
  <2>1. pipeline' \in [Pipelines -> PipelineStatuses]
        BY <1>0, Footprint, PipelineUpdates DEF DbOK
  <2>2. QED BY <2>1, <1>2, <1>0 DEF DbOK
<1>3. QED BY <1>1, <1>2, Footprint

(* The effect of a step on the runs, the loop and the count of faults. *)
LEMMA RunSteps ==
    ASSUME SchedInv, Next
    PROVE  /\ RunOK' /\ RunsSound'
           /\ \A k \in Jobs \X Attempts : RunKept(k)
<1>1. CASE run' = run BY <1>1, TypeParts DEF SchedInv, RunOK, RunsSound, RunKept
<1>2. QED BY <1>1, Footprint, RunUpdates

(* A step that is no crash of a runner makes no orphan. *)
LEMMA OrphanWrites ==
    ASSUME Next
    PROVE  \/ orphans' = orphans
           \/ \E k \in orphans : orphans' = orphans \ {k} /\ run' = run
           \/ RunnerRestart
<1>1. CASE LoopStep
      BY <1>1 DEF LoopStep, RecoverStep, RecoverList, RecoverWrite,
            DispatchStep, DispatchList, DispatchBlocked, DispatchWait, DispatchReady,
            CreateConflict, CreateAccepted, DispatchStarted, PollStep, PollList, PollSkip,
            PollExhausted, PollStuck, PollFetch, RetryCancel, RetryRecorded, PollGet, PollSame,
            PollProgress, PollRequeue, PollFinish, TickEnds, Finalize, runs
<1>2. CASE LoopFault \/ Crash \/ Restart \/ \E j \in Jobs : TimePasses(j)
      BY <1>2 DEF LoopFault, DispatchDisabled, InputsTransferFails, CreateFails, CreateRejected,
            CreateReplyLost, RetryCancelFails, PollGetFails, PollOutputsFail, Crash, Restart,
            TimePasses, runs
<1>3. ASSUME NEW x \in Cancelers, \/ \E p \in Pipelines : CancelList(x, p)
                                  \/ CancelStep(x) \/ CancelFails(x)
      PROVE  orphans' = orphans
      BY <1>3 DEF CancelList, CancelStep, CancelFails, CancelAsk, CancelAnswered, CancelMark,
            CancelPending, CancelPass, CancelEnds, runs
<1>4. ASSUME NEW k \in Jobs \X Attempts, RunnerStep(k) \/ OrphanEnds(k)
      PROVE  \/ orphans' = orphans
             \/ k \in orphans /\ orphans' = orphans \ {k} /\ run' = run
      BY <1>4 DEF RunnerStep, RunEnds, RunCanceling, OrphanEnds
<1>5. QED BY <1>1, <1>2, <1>3, <1>4 DEF Next

(* A script is an orphan when its runner has given it up. *)
LEMMA OrphanSteps ==
    ASSUME SchedInv, Next
    PROVE  /\ OrphansOK' /\ OrphansSound'
           /\ \A k \in orphans' \ orphans : /\ k \in Jobs \X Attempts /\ run[k].live
                                          /\ row' = row
<1>0. RunOK /\ OrphansOK /\ OrphansSound /\ RunsSound BY TypeParts DEF SchedInv
<1>1. \A k \in Jobs \X Attempts : RunKept(k) BY RunSteps
<1>2. CASE orphans' \subseteq orphans
  <2>1. \A k \in orphans' : run'[k].out # "none"
        BY <1>0, <1>1, <1>2 DEF OrphansOK, OrphansSound, RunKept
  <2>2. QED BY <1>0, <1>2, <2>1 DEF OrphansOK, OrphansSound
<1>3. CASE RunnerRestart
  <2>1. DOMAIN run = Jobs \X Attempts /\ \A k \in Jobs \X Attempts : run[k] \in Run /\ RunSound(run[k])
        BY <1>0 DEF RunOK, RunsSound
  <2>2. /\ \A k \in Jobs \X Attempts : run'[k] = Recovered(run[k])
        /\ \A k \in orphans' \ orphans : k \in Jobs \X Attempts /\ run[k].live
        /\ row' = row
        BY <1>3, <2>1 DEF RunnerRestart, db
  <2>3. ASSUME NEW k \in orphans' \ orphans PROVE run'[k].out # "none"
    <3>1. /\ run[k] \in Run /\ RunSound(run[k]) /\ run[k].live
          /\ run'[k] = Recovered(run[k])
          BY <2>1, <2>2
    <3>2. QED BY <3>1, RecoveredRuns
  <2>4. \A k \in orphans : run'[k].out # "none"
        BY <1>0, <1>1 DEF OrphansOK, OrphansSound, RunKept
  <2>5. QED BY <1>0, <2>2, <2>3, <2>4 DEF OrphansOK, OrphansSound
<1>4. QED BY <1>2, <1>3, OrphanWrites

(* Every step keeps the position of the loop sound. *)
LEMMA LoopSteps ==
    ASSUME SchedInv, Next
    PROVE  LoopUpdated
<1>1. CASE UNCHANGED loop
      BY <1>1, TypeParts DEF SchedInv, LoopUpdated, loop, LoopOK, Position, Todo, SnapKept,
            SeenKept, CreateKept, Finalizing, Counted
<1>2. QED BY <1>1, Footprint, LoopUpdates

(* No step has more faults than the bound. *)
LEMMA FaultSteps ==
    ASSUME SchedInv, Next
    PROVE  faults' \in 0..MaxFaults
<1>0. faults \in 0..MaxFaults BY TypeParts DEF SchedInv
<1>1. CASE faults' = faults BY <1>0, <1>1
<1>2. CASE \E kind \in FaultKinds : Fault(kind) BY <1>0, <1>2, FaultCounted
<1>3. CASE LoopStep
      BY <1>1, <1>3 DEF LoopStep, RecoverStep, RecoverList, RecoverWrite,
            DispatchStep, DispatchList, DispatchBlocked, DispatchWait, DispatchReady,
            CreateConflict, CreateAccepted, DispatchStarted, PollStep, PollList, PollSkip,
            PollExhausted, PollStuck, PollFetch, RetryCancel, RetryRecorded, PollGet, PollSame,
            PollProgress, PollRequeue, PollFinish, TickEnds, Finalize
<1>4. CASE LoopFault \/ RunnerRestart \/ Crash
  <2>1. \E kind \in FaultKinds : Fault(kind)
        BY <1>4 DEF LoopFault, DispatchDisabled, InputsTransferFails, CreateFails, CreateRejected,
              CreateReplyLost, RetryCancelFails, PollGetFails, PollOutputsFail, RunnerRestart,
              Crash, FaultKinds
  <2>2. QED BY <2>1, <1>2
<1>5. ASSUME NEW x \in Cancelers, \/ \E p \in Pipelines : CancelList(x, p)
                                  \/ CancelStep(x) \/ CancelFails(x)
      PROVE  faults' = faults \/ \E kind \in FaultKinds : Fault(kind)
      BY <1>5 DEF CancelList, CancelStep, CancelFails, CancelAsk, CancelAnswered, CancelMark,
            CancelPending, CancelPass, CancelEnds, FaultKinds
<1>6. CASE \/ Restart \/ \E k \in Jobs \X Attempts : RunnerStep(k) \/ OrphanEnds(k)
           \/ \E j \in Jobs : TimePasses(j)
      BY <1>1, <1>6 DEF Restart, RunnerStep, RunEnds, RunCanceling, OrphanEnds, TimePasses
<1>7. QED BY <1>1, <1>2, <1>3, <1>4, <1>5, <1>6 DEF Next

(* RowsSound is kept: the budgets are compared with the row as listed, and *)
(* by Listing and CancelsCounted that is what the row still holds.         *)
LEMMA RowsStep ==
    ASSUME SchedInv, Next
    PROVE  RowsSound'
<1>0. DbOK /\ RowsSound BY TypeParts DEF SchedInv
<1>1. SUFFICES ASSUME NEW j \in Jobs
               PROVE  /\ row'[j].infra \in Attempts
                      /\ row'[j].rid \in {NoRun, row'[j].infra}
                      /\ row'[j].cancels <= MaxCancelRetries
                      /\ row'[j].status # "skipped"
                      /\ row'[j].status = "blocked" => Previous(j) # {}
      BY DEF RowsSound, Previous
<1>2. /\ row[j].infra \in 0..MaxInfraRetries /\ row[j].rid \in {NoRun, row[j].infra}
      /\ row[j].cancels <= MaxCancelRetries /\ row[j].cancels \in Nat
      /\ row[j].status # "skipped"
      /\ row[j].status = "blocked" => Previous(j) # {}
      BY <1>0, RowDomains DEF RowsSound, Attempts
<1>3. row'[j] = row[j] \/ RowMove(j, row'[j]) BY RowSteps
<1>4. row'[j].cancels \in Nat BY RowSteps DEF DbOK, Row
<1>5. CASE row'[j] = row[j] BY <1>2, <1>5 DEF Attempts
<1>6. CASE Kept(j, row'[j]) BY <1>2, <1>4, <1>6, BoundsAssumption DEF Kept, Attempts
<1>7. CASE Requeued(j, row'[j])
      BY <1>2, <1>7, BoundsAssumption DEF Requeued, requeue_job_run_for_infra_retry, Attempts
<1>8. CASE Started(j, row'[j])
      BY <1>2, <1>8, BoundsAssumption DEF Started, set_job_run_started, Attempts
<1>9. CASE Retried(j, row'[j])
      BY <1>2, <1>9, BoundsAssumption DEF Retried, record_cancel_retry, Attempts
<1>10. CASE Succeeded(j, row'[j])
      BY <1>2, <1>10, BoundsAssumption DEF Succeeded, finish_job_run, Attempts
<1>11. QED BY <1>3, <1>5, <1>6, <1>7, <1>8, <1>9, <1>10 DEF RowMove

(* A listed row keeps the key it was listed with while the loop works.     *)
LEMMA ListingStep ==
    ASSUME SchedInv, Next
    PROVE  Listing' /\ CancelsCounted'
<1>0. DbOK /\ DbOK' /\ LoopOK /\ LoopOK' /\ Listing /\ CancelsCounted /\ SnapKept
      BY TypeParts, RowSteps, LoopSteps DEF SchedInv, LoopUpdated
<1>1. SUFFICES ASSUME NEW j \in Jobs, snap'[j] # NoRow
               PROVE  /\ ~Finalizing(j)' => /\ snap'[j].infra = row'[j].infra
                                            /\ snap'[j].rid = row'[j].rid
                      /\ ~Counted(j)' => row'[j].cancels <= snap'[j].cancels
      BY DEF Listing, CancelsCounted, Todo, Finalizing, Counted
<1>2. row[j].cancels \in Nat /\ row'[j].cancels \in Nat BY <1>0 DEF DbOK, Row
<1>3. CASE row' = row /\ snap'[j] = row[j] BY <1>2, <1>3
<1>4. CASE /\ snap'[j] = snap[j]
           /\ Finalizing(j) => Finalizing(j)'
           /\ Counted(j) => Counted(j)'
  <2>0. j \in Todo(snap) BY <1>1, <1>4 DEF Todo
  <2>1. snap[j].cancels \in Nat BY <2>0, <1>0, ListedDomains
  <2>2. /\ ~Finalizing(j)' => snap[j].infra = row[j].infra /\ snap[j].rid = row[j].rid
        /\ ~Counted(j)' => row[j].cancels <= snap[j].cancels
        BY <2>0, <1>0, <1>4 DEF Listing, CancelsCounted
  <2>3. /\ ~Finalizing(j)' => row'[j].infra = row[j].infra /\ row'[j].rid = row[j].rid
        /\ ~Counted(j)' => row'[j].cancels <= row[j].cancels
    <3>1. row'[j] = row[j] \/ RowMove(j, row'[j]) BY RowSteps
    <3>2. CASE row'[j] = row[j] BY <1>2, <3>2
    <3>3. CASE Kept(j, row'[j]) BY <3>3 DEF Kept
    <3>4. CASE Requeued(j, row'[j])
          BY <3>4, <1>2 DEF Requeued, requeue_job_run_for_infra_retry, Finalizing
    <3>5. CASE Started(j, row'[j]) BY <3>5, <1>1 DEF Started
    <3>6. CASE Retried(j, row'[j]) BY <3>6 DEF Retried, record_cancel_retry, Counted
    <3>7. CASE Succeeded(j, row'[j]) BY <3>7, <1>2 DEF Succeeded, finish_job_run
    <3>8. QED BY <3>1, <3>2, <3>3, <3>4, <3>5, <3>6, <3>7 DEF RowMove
  <2>4. QED BY <2>1, <2>2, <2>3, <1>2, <1>4
<1>5. QED BY <1>0, <1>1, <1>3, <1>4 DEF SnapKept

(* The row's key, and what its run came to. *)
LEMMA OutcomeKept ==
    ASSUME SchedInv, Next, NEW j \in Jobs, row'[j].infra = row[j].infra,
           run[<<j, row[j].infra>>].out # "none"
    PROVE  run'[<<j, row'[j].infra>>].out = run[<<j, row[j].infra>>].out
<1>1. <<j, row[j].infra>> \in Jobs \X Attempts BY DEF SchedInv, RowsSound
<1>2. QED BY <1>1, RunSteps DEF RunKept

(* The answer is read from the run of the row's key (PollGet), and nothing *)
(* the environment does before it is applied makes it untrue.              *)
LEMMA SeenStep ==
    ASSUME SchedInv, Next
    PROVE  SeenIsSo'
<1>0. DbOK /\ RunOK /\ LoopOK /\ RowsSound /\ RunsSound /\ Listing /\ Position /\ SeenIsSo
      BY TypeParts DEF SchedInv
<1>1. SUFFICES ASSUME pc' = "apply", seen' \in {"success", "failed_infra"}
               PROVE  run'[<<cur', row'[cur'].infra>>].out = seen'
      BY DEF SeenIsSo
<1>2. CASE UNCHANGED <<pc, cur, seen>>
  <2>0. pc = "apply" /\ cur \in Jobs /\ cur' = cur /\ seen' = seen
        BY <1>0, <1>1, <1>2, ListedDomains DEF Position, Working
  <2>1. run[<<cur, row[cur].infra>>].out = seen BY <2>0, <1>0, <1>1, <1>2 DEF SeenIsSo
  <2>2. row'[cur].infra = row[cur].infra
    <3>1. row'[cur] = row[cur] \/ RowMove(cur, row'[cur]) BY <2>0, RowSteps
    <3>2. QED BY <3>1, <2>0, <1>1 DEF RowMove, Kept, Requeued, Started, set_job_run_started,
                Retried, Succeeded, finish_job_run
  <2>3. QED BY <2>0, <2>1, <2>2, <1>1, OutcomeKept
<1>3. CASE /\ pc = "get" /\ cur' = cur
           /\ row' = row /\ run' = run
           /\ seen' = run[<<cur, snap[cur].rid>>].status
  <2>1. cur \in Todo(snap) /\ snap[cur].rid # NoRun BY <1>3, <1>0 DEF Position, Working
  <2>2. cur \in Jobs /\ snap[cur].rid = row[cur].rid
        BY <2>1, <1>3, <1>0 DEF Listing, Finalizing, Todo
  <2>3. snap[cur].rid = row[cur].infra /\ <<cur, row[cur].infra>> \in Jobs \X Attempts
        BY <2>1, <2>2, <1>0 DEF RowsSound
  <2>4. RunSound(run[<<cur, row[cur].infra>>]) BY <2>3, <1>0 DEF RunsSound
  <2>5. QED BY <2>3, <2>4, <1>1, <1>3 DEF RunSound, EndedRun
<1>4. QED BY <1>1, <1>2, <1>3, LoopSteps DEF LoopUpdated, SeenKept

(* Only PollFinish writes "success". *)
LEMMA SuccessStep ==
    ASSUME SchedInv, Next
    PROVE  SuccessIsReal'
<1>1. SUFFICES ASSUME NEW j \in Jobs, row'[j].status = "success"
               PROVE  run'[<<j, row'[j].infra>>].out = "success"
      BY DEF SuccessIsReal
<1>2. row'[j] = row[j] \/ RowMove(j, row'[j]) BY RowSteps
<1>3. row'[j].infra = row[j].infra /\ run[<<j, row[j].infra>>].out = "success"
  <2>1. CASE row'[j] = row[j] \/ Kept(j, row'[j]) \/ Retried(j, row'[j])
        BY <1>1, <2>1 DEF SchedInv, SuccessIsReal, Kept, Retried, record_cancel_retry
  <2>2. CASE Succeeded(j, row'[j])
        BY <2>2 DEF SchedInv, SeenIsSo, Succeeded, finish_job_run
  <2>3. CASE Requeued(j, row'[j]) \/ Started(j, row'[j])
        BY <1>1, <2>3 DEF Requeued, requeue_job_run_for_infra_retry, Started, set_job_run_started
  <2>4. QED BY <1>2, <2>1, <2>2, <2>3 DEF RowMove
<1>4. QED BY <1>3, OutcomeKept

(* Only Finalize writes it for a pipeline, and it reads all of its jobs.   *)
LEMMA PipelineStep ==
    ASSUME SchedInv, Next
    PROVE  PipelineSuccessIsReal'
<1>0. RowsSound /\ SuccessIsReal /\ PipelineSuccessIsReal BY DEF SchedInv
<1>1. SUFFICES ASSUME NEW p \in Pipelines, pipeline'[p] = "success", NEW j \in JobsOf(p)
               PROVE  \E n \in Attempts : run'[<<j, n>>].out = "success"
      BY DEF PipelineSuccessIsReal, JobsOf
<1>2. j \in Jobs BY DEF JobsOf
<1>3. \/ pipeline[p] = "success"
      \/ row[j].status = "success"
      BY <1>1, Footprint, PipelineUpdates
<1>4. PICK n \in Attempts : run[<<j, n>>].out = "success"
      BY <1>0, <1>2, <1>3 DEF PipelineSuccessIsReal, SuccessIsReal, RowsSound
<1>5. <<j, n>> \in Jobs \X Attempts BY <1>2
<1>6. run'[<<j, n>>].out = "success" BY <1>4, <1>5, RunSteps DEF RunKept
<1>7. QED BY <1>6

(* Every step keeps the invariant. *)
LEMMA InvStep == SchedInv /\ [Next]_vars => SchedInv'
<1> SUFFICES ASSUME SchedInv, [Next]_vars PROVE SchedInv'
    OBVIOUS
<1>1. CASE Next
  <2>1. RequestsSound'
        BY <1>1, CancelersTyped, TypeParts DEF SchedInv
  <2>2. TypeOK'
    <3>1. CancelOK' BY <2>1, RequestsTyped DEF RequestsSound, CancelOK
    <3>2. DbOK' /\ RunOK' /\ OrphansOK' /\ LoopOK' /\ faults' \in 0..MaxFaults
          BY <1>1, RowSteps, RunSteps, OrphanSteps, LoopSteps, FaultSteps DEF LoopUpdated
    <3>3. QED BY <3>1, <3>2 DEF TypeOK, DbOK, RunOK, Run, OrphansOK, LoopOK, CancelOK
  <2>3. RunsSound' /\ OrphansSound' /\ Position'
        BY <1>1, RunSteps, OrphanSteps, LoopSteps DEF LoopUpdated
  <2>4. QED BY <1>1, <2>1, <2>2, <2>3, RowsStep, ListingStep, SeenStep, SuccessStep, PipelineStep
        DEF SchedInv
<1>2. CASE UNCHANGED vars
      BY <1>2 DEF vars, db, runs, loop, SchedInv, TypeOK, RowsSound, RunsSound, OrphansSound,
            Listing, Position, CancelsCounted, SeenIsSo, RequestsSound, SuccessIsReal, PipelineSuccessIsReal,
            Todo, Finalizing, Counted
<1>3. QED BY <1>1, <1>2

(* The inductive invariant of the reconcile loop always holds. *)
THEOREM SchedulerInvariant == Spec => []SchedInv
BY InvInit, InvStep, PTL DEF Spec

(* The variables of the reconcile loop, the tables and the runners keep    *)
(* their types; in particular the loop only stores statuses the tables     *)
(* know (poll_running_jobs maps those of the runner).                      *)
THEOREM SchedulerTypeCorrect == Spec => []TypeOK
<1>1. SchedInv => TypeOK BY DEF SchedInv
<1>2. QED BY <1>1, SchedulerInvariant, PTL

(* retry_or_fail_infra_error, should_retry_infra_failure and               *)
(* retry_stuck_cancellation never overrun max_infra_retries and            *)
(* max_cancel_retries, whoever writes the row between list and write.      *)
THEOREM BudgetsKept == Spec => []RetryBudgets
<1>1. SchedInv => RetryBudgets
      BY BoundsAssumption DEF SchedInv, RowsSound, RetryBudgets, Attempts
<1>2. QED BY <1>1, SchedulerInvariant, PTL

(* poll_running_jobs shows a job as a success only if the script of its    *)
(* current dispatch key succeeded: under every fault, with any number of   *)
(* cancel requests, retries and jobs.                                      *)
THEOREM JobSuccessIsReal == Spec => []SuccessIsReal
<1>1. SchedInv => SuccessIsReal BY DEF SchedInv
<1>2. QED BY <1>1, SchedulerInvariant, PTL

(* finalize_pipeline_status shows a pipeline as a success only if some run *)
(* of each of its jobs succeeded.                                          *)
THEOREM PipelineShownIsReal == Spec => []PipelineSuccessIsReal
<1>1. SchedInv => PipelineSuccessIsReal BY DEF SchedInv
<1>2. QED BY <1>1, SchedulerInvariant, PTL

-----------------------------------------------------------------------------
(* Overlaps of runs. *)

(* A row gets a new key only for a run that has ended, unless inputs could *)
(* not be transferred.                                                     *)
LEMMA Requeues ==
    ASSUME SchedInv, Next, "transfer" \notin Faults, NEW j \in Jobs
    PROVE  \/ row'[j].infra = row[j].infra
           \/ /\ pc = "apply"
              /\ \/ run[<<j, row[j].infra>>].out = "failed_infra"
                 \/ run[<<j, row[j].infra>>].out = "success" /\ "outputs" \in Faults
<1>1. row'[j] = row[j] \/ RowMove(j, row'[j]) BY RowSteps
<1>2. CASE Requeued(j, row'[j]) BY <1>2 DEF Requeued, SchedInv, SeenIsSo
<1>3. CASE row'[j] = row[j] \/ Kept(j, row'[j]) \/ Started(j, row'[j]) \/ Retried(j, row'[j])
              \/ Succeeded(j, row'[j])
      BY <1>3 DEF Kept, Started, set_job_run_started, Retried, record_cancel_retry, Succeeded,
            finish_job_run
<1>4. QED BY <1>1, <1>2, <1>3 DEF RowMove

(* A run becomes live only by a create request, for the row's current key. *)
LEMMA NewRuns ==
    ASSUME SchedInv, Next, NEW k \in Jobs \X Attempts, run'[k].live, ~run[k].live
    PROVE  /\ pc = "create" /\ cur \in Jobs
           /\ k = <<cur, row[cur].infra>>
           /\ row' = row
<1>1. CreateAccepted /\ k = Key(cur) BY RunSteps DEF RunKept
<1>2. cur \in Todo(snap) /\ cur \in Jobs
      BY <1>1 DEF CreateAccepted, SchedInv, Position, Working, Todo
<1>3. snap[cur].infra = row[cur].infra
      BY <1>1, <1>2 DEF CreateAccepted, SchedInv, Listing, Finalizing
<1>4. QED BY <1>1, <1>2, <1>3 DEF CreateAccepted, Key, db, runs

(* The run of the old key has ended for its runner when the new key is     *)
(* made.                                                                   *)
LEMMA AttemptStep ==
    ASSUME SchedInv, Next, "transfer" \notin Faults, OneLiveAttempt
    PROVE  OneLiveAttempt'
<1>0. RowsSound /\ RunsSound /\ OrphansSound BY DEF SchedInv
<1>1. SUFFICES ASSUME NEW j \in Jobs, NEW n \in Attempts, Script(<<j, n>>)'
               PROVE  \/ n = row'[j].infra
                      \/ n < row'[j].infra /\ <<j, n>> \in orphans'
      BY DEF OneLiveAttempt, Attempts
<1> DEFINE k == <<j, n>>
<1>2. CASE k \in orphans'
  <2>1. Script(k) BY <1>2, OrphanSteps DEF Script
  <2>2. n <= row[j].infra BY <2>1, <1>0 DEF OneLiveAttempt, RowsSound, Attempts
  <2>3. row'[j].infra \in {row[j].infra, row[j].infra + 1}
    <3>1. row'[j] = row[j] \/ RowMove(j, row'[j]) BY RowSteps
    <3>2. QED BY <3>1 DEF RowMove, Kept, Requeued, requeue_job_run_for_infra_retry, Started,
                set_job_run_started, Retried, record_cancel_retry, Succeeded, finish_job_run
  <2>4. row[j].infra \in Nat BY <1>0 DEF RowsSound, Attempts
  <2>5. QED BY <1>2, <2>2, <2>3, <2>4 DEF Attempts
<1>3. CASE run'[k].live /\ k \notin orphans' /\ run[k].live
  <2>1. run[k].out = "none" BY <1>3, <1>0 DEF RunsSound, RunSound
  <2>2. k \notin orphans BY <2>1, <1>0 DEF OrphansSound
  <2>3. n = row[j].infra BY <1>3, <2>2 DEF OneLiveAttempt, Script
  <2>4. QED BY <2>1, <2>3, Requeues
<1>4. CASE run'[k].live /\ ~run[k].live
  <2>1. k = <<cur, row[cur].infra>> /\ row' = row BY <1>4, NewRuns
  <2>2. QED BY <2>1
<1>5. QED BY <1>1, <1>2, <1>3, <1>4 DEF Script

(* requeue_job_run_for_infra_retry makes a new attempt only when the       *)
(* runner has done with the last one, in pipelines of any length: an older *)
(* attempt is at work only if its runner crashed and left its script an    *)
(* orphan.  No transfer of inputs may fail (one that fails after a lost    *)
(* reply makes a new key while the run of the old one may be alive).       *)
THEOREM OneAttempt ==
    ASSUME "transfer" \notin Faults
    PROVE  Spec => []OneLiveAttempt
<1>1. Init => OneLiveAttempt BY DEF Init, OneLiveAttempt, Script, NoRunYet
<1>2. SchedInv /\ OneLiveAttempt /\ [Next]_vars => OneLiveAttempt'
  <2>1. UNCHANGED vars /\ OneLiveAttempt => OneLiveAttempt'
        BY DEF OneLiveAttempt, Script, vars, db, runs
  <2>2. QED BY <2>1, AttemptStep
<1>3. QED BY <1>1, <1>2, SchedulerInvariant, PTL DEF Spec

(* A required job has succeeded for good before the next one is created.   *)
Ahead ==
    \A j \in Jobs : \A i \in Previous(j) :
        /\ ~CanFail[i]
        /\ (pc = "create" /\ cur = j) \/ \E n \in Attempts : Script(<<j, n>>)
        => run[<<i, row[i].infra>>].out = "success"

(* No pipeline has three jobs or more.  In a longer one the second job may *)
(* be blocked by a late cancellation of the first while its own run, whose *)
(* create reply was lost, is alive, and next_ready_job_status lets the     *)
(* third one start.                                                        *)
ShortPipelines == \A j \in Jobs : \A i \in Previous(j) : Previous(i) = {}

(* next_ready_job_status waits for a success, and no requeue undoes one.   *)
LEMMA AheadStep ==
    ASSUME SchedInv, Next, "transfer" \notin Faults, "outputs" \notin Faults, ShortPipelines, Ahead
    PROVE  Ahead'
<1>0. RowsSound /\ RunsSound /\ SuccessIsReal /\ DbOK BY TypeParts DEF SchedInv
<1>1. SUFFICES ASSUME NEW j \in Jobs, NEW i \in Previous(j), ~CanFail[i],
                      (pc' = "create" /\ cur' = j) \/ \E n \in Attempts : Script(<<j, n>>)'
               PROVE  run'[<<i, row'[i].infra>>].out = "success"
      BY DEF Ahead, Attempts, Previous
<1>2. i \in Jobs BY DEF Previous
<1>3. ASSUME run[<<i, row[i].infra>>].out = "success"
      PROVE  run'[<<i, row'[i].infra>>].out = "success"
      BY <1>2, <1>3, Requeues, OutcomeKept
<1>4. CASE (pc = "create" /\ cur = j) \/ \E n \in Attempts : Script(<<j, n>>)
      BY <1>1, <1>3, <1>4 DEF Ahead
<1>5. CASE ~((pc = "create" /\ cur = j) \/ \E n \in Attempts : Script(<<j, n>>))
  <2>1. pc' = "create" /\ cur' = j
    <3>1. ASSUME NEW n \in Attempts, Script(<<j, n>>)' PROVE FALSE
      <4>1. ~run[<<j, n>>].live /\ <<j, n>> \notin orphans BY <1>5 DEF Script
      <4>2. run'[<<j, n>>].live BY <3>1, <4>1, OrphanSteps DEF Script
      <4>3. pc = "create" /\ <<j, n>> = <<cur, row[cur].infra>> BY <4>1, <4>2, NewRuns
      <4>4. QED BY <4>3, <1>5
    <3>2. QED BY <3>1, <1>1
  <2>2. next_ready_job_status(StatusOf(Previous(j))) = "pending"
        BY <2>1, <1>5, LoopSteps DEF LoopUpdated, CreateKept
  <2>3. <<row[i].status, CanFail[i]>> \in StatusOf(Previous(j)) BY DEF StatusOf
  <2>4. CanFail[i] = FALSE BY <1>1, <1>2, PipelineAssumption
  <2>5. <<row[i].status, FALSE>> \in StatusOf(Previous(j)) BY <2>3, <2>4
  <2>6. row[i].status \in Outcomes(StatusOf(Previous(j)))
    <3>1. <<row[i].status, FALSE>>[1] \in Outcomes(StatusOf(Previous(j))) BY <2>5 DEF Outcomes
    <3>2. QED BY <3>1
  <2>7. /\ <<"failed", FALSE>> \notin StatusOf(Previous(j))
        /\ Outcomes(StatusOf(Previous(j))) \cap ({"pending"} \cup ActiveStatuses) = {}
        /\ "canceled" \notin Outcomes(StatusOf(Previous(j)))
        BY <2>2 DEF next_ready_job_status, RequiredFailed
  <2>8. row[i].status \notin {"failed", "canceled", "pending"} \cup ActiveStatuses
        BY <2>5, <2>6, <2>7
  <2>9. row[i].status \notin {"skipped", "blocked"} BY <1>0, <1>2 DEF RowsSound, ShortPipelines
  <2>10. row[i].status = "success"
         BY <2>8, <2>9, <1>0, <1>2, RowDomains DEF JobStatuses, FinalStatuses
  <2>11. QED BY <2>10, <1>0, <1>2, <1>3 DEF SuccessIsReal
<1>6. QED BY <1>4, <1>5

(* dispatch_pending_jobs and poll_running_jobs keep the scripts of a       *)
(* pipeline of at most two jobs apart, attempts of a job as well as a      *)
(* required job and the next one, through lost replies, crashes of the     *)
(* server, retries and cancellations, as long as artifacts can be          *)
(* transferred and stored.  A crash of a runner leaves orphans behind, and *)
(* only they overlap with what is started after them.                      *)
THEOREM RunsDoNotOverlap ==
    ASSUME "transfer" \notin Faults, "outputs" \notin Faults, ShortPipelines
    PROVE  Spec => []NoOverlap
<1>1. Init => Ahead
  <2>1. ASSUME Init PROVE pc = "idle" /\ \A j \in Jobs, n \in Attempts : ~Script(<<j, n>>)
        BY <2>1 DEF Init, NoRunYet, Script
  <2>2. QED BY <2>1 DEF Ahead
<1>2. SchedInv /\ Ahead /\ [Next]_vars => Ahead'
  <2>1. UNCHANGED vars /\ Ahead => Ahead' BY DEF Ahead, Script, vars, db, runs, loop
  <2>2. QED BY <2>1, AheadStep
<1>3. SchedInv /\ OneLiveAttempt /\ Ahead => NoOverlap
  <2>1. SUFFICES ASSUME SchedInv, OneLiveAttempt, Ahead,
                        NEW j \in Jobs, NEW i \in Jobs, NEW n \in Attempts, NEW m \in Attempts,
                        i \in Previous(j), ~CanFail[i], Script(<<j, n>>), Script(<<i, m>>),
                        <<i, m>> \notin orphans
                 PROVE  FALSE
        BY DEF NoOverlap, Sequential
  <2>2. m = row[i].infra /\ run[<<i, m>>].live BY <2>1 DEF OneLiveAttempt, Script
  <2>3. run[<<i, m>>].out = "success" BY <2>1, <2>2 DEF Ahead
  <2>4. run[<<i, m>>].out = "none" BY <2>1, <2>2 DEF SchedInv, RunsSound, RunSound
  <2>5. QED BY <2>3, <2>4
<1>4. QED BY <1>1, <1>2, <1>3, SchedulerInvariant, OneAttempt, PTL DEF Spec
=============================================================================
