-------------------------- MODULE RunnerJobsProofs --------------------------
(***************************************************************************)
(* Proofs about the runner's job store, for every set of keys, manifests,  *)
(* request bodies, handlers and faults.                                    *)
(***************************************************************************)
EXTENDS RunnerJobs, TLAPS

-----------------------------------------------------------------------------
(* What the record-valued variables look like in each of their states. *)

(* The fields of a create_job handler that is under way. *)
LEMMA CreatorShape ==
    ASSUME TypeOK, NEW c \in Creators, creator[c].pc # "idle"
    PROVE  /\ creator[c].pc \in {"checked", "inserted", "setup"}
           /\ creator[c].key \in Keys
           /\ creator[c].req \in Requests
           /\ creator[c].req[1] \in Names
           /\ creator[c] \in [pc : {"checked", "inserted", "setup"}, key : Keys,
                              req : Requests]
  <1>1. creator[c] \in CreatorStates
    BY DEF TypeOK
  <1>2. creator[c] \in [pc : {"checked", "inserted", "setup"}, key : Keys, req : Requests]
    BY <1>1 DEF CreatorStates, Idle
  <1>3. QED BY <1>2 DEF Requests

(* The fields of a cancel_job handler at each step. *)
LEMMA CancelerShape ==
    ASSUME TypeOK, NEW x \in Cancelers
    PROVE  /\ canceler[x].pc \in {"idle", "found", "read", "send"}
           /\ canceler[x].pc # "idle" => canceler[x].key \in Keys
           /\ canceler[x].pc = "read" => canceler[x].seen \in Metadata
  <1>1. canceler[x] \in CancelerStates
    BY DEF TypeOK
  <1>2. QED BY <1>1 DEF CancelerStates, Idle

(* The fields of the shutdown future at each step. *)
LEMMA ShutdownShape ==
    ASSUME TypeOK
    PROVE  /\ shutdown.pc \in {"off", "flagged", "signaling", "read", "draining", "closing"}
           /\ shutdown.pc \in {"signaling", "read"} => shutdown.todo \subseteq Keys
           /\ shutdown.pc = "read" => /\ shutdown.key \in Keys
                                      /\ shutdown.seen \in Metadata
  <1>1. shutdown \in ShutdownStates
    BY DEF TypeOK
  <1>2. QED BY <1>1 DEF ShutdownStates

(* Only keys are registered. *)
LEMMA RegisteredKeys == TypeOK => Registered \subseteq Keys
  BY DEF TypeOK, Registered

-----------------------------------------------------------------------------
(* Type correctness *)

(* The variables have their types at first. *)
LEMMA InitType == Init => TypeOK
  BY DEF Init, TypeOK, Metadata, NoMeta, NoRecord, NoExec, NoOutcome, Outcome,
         Outcomes, ExecPc, Idle, CreatorStates, CancelerStates, ShutdownStates,
         Statuses, Terminal, Categories, Places

(* What the file system holds of each record, and who has it open. *)
FilesTyped ==
    /\ meta \in [Keys -> Metadata]
    /\ tmp \in [Keys -> Metadata]
    /\ handle \in [Keys -> [Writers -> Places]]
    /\ overlapped \subseteq Keys

(* A writer w at work on the record of k. *)
Writes(w, k, text) == Open(w, k) \/ Fill(w, k, text) \/ Publish(w, k)

(* atomic_write keeps the types. *)
LEMMA WriteType ==
    ASSUME FilesTyped, NEW w \in Writers, NEW k \in Keys, NEW text \in Metadata,
           Writes(w, k, text)
    PROVE  FilesTyped'
  <1>1. Empty \in Metadata /\ Torn \in Metadata /\ NoMeta \in Metadata
    BY DEF Empty, Torn, NoMeta, NoRecord, Metadata, Statuses, Categories
  <1>2. ASSUME NEW old \in Metadata
        PROVE  Overlay(old, text) \subseteq Metadata
    BY <1>1 DEF Overlay
  <1>3. /\ meta[k] \in Metadata /\ tmp[k] \in Metadata
        /\ handle[k] \in [Writers -> Places]
    BY DEF FilesTyped
  <1>4. CASE Open(w, k)
    BY <1>1, <1>3, <1>4 DEF Open, FilesTyped, Places
  <1>5. CASE Fill(w, k, text)
    <2>1. \/ /\ \E new \in Overlay(tmp[k], text) : tmp' = [tmp EXCEPT ![k] = new]
             /\ meta' = meta
          \/ /\ \E new \in Overlay(meta[k], text) : meta' = [meta EXCEPT ![k] = new]
             /\ tmp' = tmp
          \/ meta' = meta /\ tmp' = tmp
      BY <1>5 DEF Fill
    <2>2. meta' \in [Keys -> Metadata] /\ tmp' \in [Keys -> Metadata]
      BY <2>1, <1>2, <1>3 DEF FilesTyped
    <2>3. handle' \in [Keys -> [Writers -> Places]]
      BY <1>5, <1>3 DEF Fill, FilesTyped, Places
    <2>4. QED BY <1>5, <2>2, <2>3 DEF Fill, FilesTyped
  <1>6. CASE Publish(w, k)
    <2>1. \A place \in Places : Renamed(place) \in Places
      BY DEF Renamed, Places
    <2>2. [v \in Writers |-> IF v = w THEN "none" ELSE Renamed(handle[k][v])]
             \in [Writers -> Places]
      BY <1>3, <2>1 DEF Places
    <2>3. [handle[k] EXCEPT ![w] = "none"] \in [Writers -> Places]
      BY <1>3 DEF Places
    <2>4. handle' \in [Keys -> [Writers -> Places]]
      BY <1>6, <2>2, <2>3 DEF Publish, FilesTyped
    <2>5. meta' \in [Keys -> Metadata] /\ tmp' \in [Keys -> Metadata]
      BY <1>6, <1>1, <1>3 DEF Publish, FilesTyped
    <2>6. QED BY <1>6, <2>4, <2>5 DEF Publish, FilesTyped
  <1>7. QED BY <1>4, <1>5, <1>6 DEF Writes

(* The steps of create_job keep the types. *)
LEMMA CreateType ==
    ASSUME TypeOK, NEW c \in Creators,
           \/ \E k \in Keys, req \in Requests : CreateCheck(c, k, req)
           \/ CreateInvalid(c) \/ CreateStep(c) \/ CreateSetupFails(c)
    PROVE  TypeOK'
  <1> USE DEF CreatorStates, Idle, files
  <1>1. ASSUME NEW k \in Keys, NEW req \in Requests, CreateCheck(c, k, req)
        PROVE  TypeOK'
    BY <1>1 DEF CreateCheck, TypeOK
  <1>2. CASE CreateInvalid(c)
    BY <1>2 DEF CreateInvalid, TypeOK
  <1>3. CASE CreateExisting(c)
    <2>1. creator[c].key \in Keys /\ creator[c].req \in Requests
      BY <1>3, CreatorShape DEF CreateExisting
    <2>2. QED BY <1>3, <2>1 DEF CreateExisting, TypeOK
  <1>4. CASE CreateInsert(c)
    <2>0. creator[c].pc # "idle"
      BY <1>4 DEF CreateInsert
    <2>1. creator[c] \in [pc : {"checked", "inserted", "setup"}, key : Keys, req : Requests]
      BY <2>0, CreatorShape
    <2>2. creator[c].key \in Keys /\ creator[c].req[1] \in Names
      BY <2>0, CreatorShape
    <2>3. creator' \in [Creators -> CreatorStates]
      BY <1>4, <2>1 DEF CreateInsert, TypeOK
    <2>4. running_jobs' \subseteq [key : Keys, name : Names] /\ cancel_tx' \in [Keys -> BOOLEAN]
      BY <1>4, <2>2 DEF CreateInsert, TypeOK
    <2>5. QED BY <1>4, <2>3, <2>4 DEF CreateInsert, TypeOK
  <1>5. CASE CreateDir(c)
    <2>1. creator[c] \in [pc : {"checked", "inserted", "setup"}, key : Keys, req : Requests]
      BY <1>5, CreatorShape DEF CreateDir
    <2>2. QED BY <1>5, <2>1 DEF CreateDir, TypeOK
  <1>6. CASE CreatePersist(c)
    <2>1. creator[c].key \in Keys /\ creator[c].req \in Requests
      BY <1>6, CreatorShape DEF CreatePersist
    <2>2. QED
      BY <1>6, <2>1 DEF CreatePersist, TypeOK, NewMeta, Metadata, Statuses,
         Categories, ExecPc, NoOutcome, Outcome, Outcomes, Terminal
  <1>7. CASE CreateSetupFails(c)
    BY <1>7 DEF CreateSetupFails, TypeOK
  <1>8. CASE CreateConflict(c)
    BY <1>8 DEF CreateConflict, TypeOK
  <1>9. QED BY <1>8, <1>1, <1>2, <1>3, <1>4, <1>5, <1>6, <1>7 DEF CreateStep

(* The steps of cancel_job keep the types. *)
LEMMA CancelType ==
    ASSUME TypeOK, NEW x \in Cancelers,
           (\E k \in Keys : CancelLookup(x, k)) \/ CancelStep(x)
    PROVE  TypeOK'
  <1> USE DEF CancelerStates, Idle, files
  (* The write of a record that was read. *)
  <1>0. ASSUME canceler[x].pc = "read",
               Writes(x, canceler[x].key,
                      [canceler[x].seen EXCEPT !.status = "cancel_requested"])
        PROVE  FilesTyped'
    <2>1. canceler[x].key \in Keys /\ canceler[x].seen \in Metadata
      BY <1>0, CancelerShape
    <2>2. [canceler[x].seen EXCEPT !.status = "cancel_requested"] \in Metadata
      BY <2>1 DEF Metadata, Statuses
    <2>3. QED BY <1>0, <2>1, <2>2, WriteType DEF Writers, FilesTyped, TypeOK
  <1>1. ASSUME NEW k \in Keys, CancelLookup(x, k)
        PROVE  TypeOK'
    BY <1>1 DEF CancelLookup, TypeOK
  <1>2. CASE CancelRead(x)
    <2>1. canceler[x].key \in Keys
      BY <1>2, CancelerShape DEF CancelRead
    <2>2. meta[canceler[x].key] \in Metadata
      BY <2>1 DEF TypeOK
    <2>3. canceler' \in [Cancelers -> CancelerStates]
      BY <1>2, <2>1, <2>2 DEF CancelRead, TypeOK
    <2>4. QED BY <1>2, <2>3 DEF CancelRead, TypeOK
  <1>3. CASE CancelOpen(x) \/ CancelFill(x)
    <2>1. FilesTyped'
      BY <1>0, <1>3 DEF CancelOpen, CancelFill, Writes
    <2>2. QED BY <1>3, <2>1 DEF CancelOpen, CancelFill, FilesTyped, TypeOK
  <1>4. CASE CancelPublish(x)
    <2>1. FilesTyped'
      BY <1>0, <1>4 DEF CancelPublish, Writes
    <2>2. canceler[x].key \in Keys
      BY <1>4, CancelerShape DEF CancelPublish
    <2>3. canceler' \in [Cancelers -> CancelerStates]
      BY <1>4, <2>2 DEF CancelPublish, TypeOK
    <2>4. QED BY <1>4, <2>1, <2>3 DEF CancelPublish, FilesTyped, TypeOK
  <1>5. CASE CancelSend(x)
    BY <1>5, CancelerShape DEF CancelSend, TypeOK
  <1>6. QED BY <1>1, <1>2, <1>3, <1>4, <1>5 DEF CancelStep

(* The texts run_job writes. *)
LEMMA TaskTexts ==
    ASSUME TypeOK, NEW k \in Keys
    PROVE  /\ exec[k].out \in Outcomes
           /\ FinalRecord(k) \in Metadata
           /\ [status |-> "canceling", req |-> exec[k].req, category |-> "none"] \in Metadata
  BY DEF TypeOK, FinalRecord, Outcomes, Metadata, Statuses, Categories

(* The steps of run_job keep the types. *)
LEMMA ExecType ==
    ASSUME TypeOK, NEW k \in Keys,
           ExecStep(k) \/ ExecFault(k) \/ ProcessExit(k)
    PROVE  TypeOK'
  <1> USE DEF ExecPc, Outcomes, Outcome, Terminal, Categories
  <1>0. ASSUME NEW pc \in ExecPc, NEW out \in Outcomes, ExecTo(k, pc, out), FilesTyped',
               group' \in [Keys -> SUBSET {"leader", "child", "orphan"}]
        PROVE  TypeOK'
    BY <1>0 DEF ExecTo, TypeOK, FilesTyped
  <1>00. /\ FilesTyped /\ (UNCHANGED files => FilesTyped')
         /\ "run_job" \in Writers
         /\ exec[k].out \in Outcomes
    BY TaskTexts DEF TypeOK, FilesTyped, files, Writers
  <1>1. CASE Spawn(k)
    <2>1. exec' \in [Keys -> [pc : ExecPc, req : Requests \cup {NoReq}, out : Outcomes]]
      <3>1. exec[k] \in [pc : ExecPc, req : Requests \cup {NoReq}, out : Outcomes]
        BY DEF TypeOK
      <3>2. [exec[k] EXCEPT !.pc = "loop"]
                \in [pc : ExecPc, req : Requests \cup {NoReq}, out : Outcomes]
        BY <3>1
      <3>3. exec' = [exec EXCEPT ![k] = [exec[k] EXCEPT !.pc = "loop"]]
        BY <1>1 DEF Spawn
      <3>4. QED BY <3>2, <3>3 DEF TypeOK
    <2>2. group' \in [Keys -> SUBSET {"leader", "child", "orphan"}]
      BY <1>1 DEF Spawn, TypeOK
    <2>3. spawned' \in [Keys -> 0 .. 2]
      <3>1. spawned[k] \in 0 .. 2
        BY DEF TypeOK
      <3>2. (IF spawned[k] < 2 THEN spawned[k] + 1 ELSE spawned[k]) \in 0 .. 2
        BY <3>1
      <3>3. QED BY <1>1, <3>2 DEF Spawn, TypeOK
    <2>4. QED BY <1>1, <2>1, <2>2, <2>3 DEF Spawn, TypeOK, files
  <1>2. CASE SpawnError(k)
    BY <1>2, <1>0, <1>00 DEF SpawnError, TypeOK
  <1>3. CASE TimedOut(k)
    BY <1>3, <1>0, <1>00 DEF TimedOut, TypeOK
  <1>4. CASE ObserveCancel(k)
    BY <1>4, <1>0, <1>00 DEF ObserveCancel, TypeOK
  <1>5. CASE LogLimit(k)
    BY <1>5, <1>0, <1>00 DEF LogLimit, TypeOK
  <1>6. CASE Terminate(k)
    <2>1. group[k] \in SUBSET {"leader", "child", "orphan"}
      BY DEF TypeOK
    <2>2. PICK rest \in SUBSET (group[k] \ {"leader"}) :
             group' = [group EXCEPT ![k] = rest]
      BY <1>6 DEF Terminate
    <2>3. group' \in [Keys -> SUBSET {"leader", "child", "orphan"}]
      BY <2>1, <2>2 DEF TypeOK
    <2>4. QED BY <1>6, <2>3, <1>0, <1>00 DEF Terminate
  <1>7. CASE Reap(k)
    BY <1>7, <1>0, <1>00 DEF Reap, TypeOK
  <1>8. CASE WaitError(k)
    BY <1>8, <1>0, <1>00 DEF WaitError, TypeOK
  <1>9. CASE CaptureDone(k)
    BY <1>9, <1>0, <1>00 DEF CaptureDone, TypeOK
  <1>10. CASE CaptureError(k)
    BY <1>10, <1>0, <1>00 DEF CaptureError, TypeOK
  <1>11. CASE MarkOpen(k) \/ MarkFill(k) \/ MarkPublish(k)
    <2>1. FilesTyped'
      BY <1>11, <1>00, TaskTexts, WriteType DEF MarkOpen, MarkFill, MarkPublish, Writes
    <2>2. \E pc \in {"mark", "terminate"} : ExecTo(k, pc, exec[k].out)
      BY <1>11 DEF MarkOpen, MarkFill, MarkPublish
    <2>3. group' = group
      BY <1>11 DEF MarkOpen, MarkFill, MarkPublish
    <2>4. QED BY <2>1, <2>2, <2>3, <1>0, <1>00 DEF TypeOK
  <1>12. CASE FinishOpen(k) \/ FinishFill(k) \/ FinishPublish(k)
    <2>1. FilesTyped'
      BY <1>12, <1>00, TaskTexts, WriteType DEF FinishOpen, FinishFill, FinishPublish, Writes
    <2>2. \E pc \in {"persist", "remove"}, out \in Outcomes : ExecTo(k, pc, out)
      BY <1>12, <1>00 DEF FinishOpen, FinishFill, FinishPublish
    <2>3. group' = group
      BY <1>12 DEF FinishOpen, FinishFill, FinishPublish
    <2>4. QED BY <2>1, <2>2, <2>3, <1>0 DEF TypeOK
  <1>13. CASE FinishPersistFails(k)
    <2>1. handle[k] \in [Writers -> Places]
      BY DEF TypeOK
    <2>2. [handle[k] EXCEPT !["run_job"] = "none"] \in [Writers -> Places]
      BY <2>1 DEF Places
    <2>3. FilesTyped'
      BY <1>13, <2>2 DEF FinishPersistFails, FilesTyped, TypeOK
    <2>4. QED BY <1>13, <2>3, <1>0, <1>00 DEF FinishPersistFails, TypeOK
  <1>14. CASE FinishRemove(k)
    BY <1>14 DEF FinishRemove, TypeOK, NoExec, NoOutcome, files
  <1>15. CASE ProcessExit(k)
    BY <1>15 DEF ProcessExit, TypeOK, files
  <1>16. QED
    BY <1>1, <1>2, <1>3, <1>4, <1>5, <1>6, <1>7, <1>8, <1>9, <1>10, <1>11,
       <1>12, <1>13, <1>14, <1>15 DEF ExecStep, ExecFault

(* Shutdown, crash and start keep the types. *)
LEMMA StopType ==
    ASSUME TypeOK, StopStep \/ Crash \/ Start
    PROVE  TypeOK'
  <1> USE DEF ShutdownStates
  <1>0. ASSUME NEW next \in ShutdownStates, ShutdownStep(next), FilesTyped',
               cancel_tx' \in [Keys -> BOOLEAN]
        PROVE  TypeOK'
    BY <1>0 DEF ShutdownStep, TypeOK, FilesTyped
  <1>00. FilesTyped /\ (UNCHANGED files => FilesTyped')
    BY DEF TypeOK, FilesTyped, files
  (* The write of a record that was read. *)
  <1>01. ASSUME shutdown.pc = "read",
                Writes("begin_shutdown", shutdown.key,
                       [shutdown.seen EXCEPT !.status = "cancel_requested"])
         PROVE  FilesTyped'
    <2>1. shutdown.key \in Keys /\ shutdown.seen \in Metadata
      BY <1>01, ShutdownShape
    <2>2. [shutdown.seen EXCEPT !.status = "cancel_requested"] \in Metadata
      BY <2>1 DEF Metadata, Statuses
    <2>3. QED BY <1>00, <1>01, <2>1, <2>2, WriteType DEF Writers
  <1>1. CASE BeginShutdown
    BY <1>1, <1>0, <1>00 DEF BeginShutdown, TypeOK
  <1>2. CASE ShutdownLock
    BY <1>2, <1>0, <1>00, RegisteredKeys DEF ShutdownLock, TypeOK
  <1>3. ASSUME NEW k \in Keys, ShutdownRead(k)
        PROVE  TypeOK'
    <2>1. meta[k] \in Metadata
      BY DEF TypeOK
    <2>2. shutdown.todo \subseteq Keys
      BY <1>3, ShutdownShape DEF ShutdownRead
    <2>3. QED BY <1>3, <2>1, <2>2, <1>0, <1>00 DEF ShutdownRead, TypeOK
  <1>4. CASE ShutdownOpen \/ ShutdownFill
    <2>1. FilesTyped'
      BY <1>4, <1>01 DEF ShutdownOpen, ShutdownFill, Writes
    <2>2. QED BY <1>4, <1>0, <2>1 DEF ShutdownOpen, ShutdownFill, TypeOK
  <1>5. CASE ShutdownSignal
    <2>1. /\ shutdown.key \in Keys
          /\ shutdown.todo \subseteq Keys
      BY <1>5, ShutdownShape DEF ShutdownSignal
    <2>2. FilesTyped'
      BY <1>5, <1>00, <1>01 DEF ShutdownSignal, Writes
    <2>3. cancel_tx' \in [Keys -> BOOLEAN]
      BY <1>5, <2>1 DEF ShutdownSignal, TypeOK
    <2>4. QED BY <1>5, <2>1, <2>2, <2>3, <1>0 DEF ShutdownSignal
  <1>6. CASE ShutdownUnlock
    BY <1>6, <1>0, <1>00 DEF ShutdownUnlock, TypeOK
  <1>7. CASE ShutdownDrained
    BY <1>7, <1>0, <1>00 DEF ShutdownDrained, TypeOK
  <1>8. CASE ProcessEnds
    BY <1>8 DEF ProcessEnds, TypeOK, Orphaned, NoExec, NoOutcome, Outcome, Places,
       Outcomes, ExecPc, Terminal, Categories, CreatorStates, CancelerStates, Idle
  <1>9. CASE Start
    <2>0. NoMeta \in Metadata
      BY DEF NoMeta, NoRecord, Metadata, Categories
    <2>1. ASSUME NEW m \in Metadata
          PROVE  Recovered(m) \in Metadata
      <3>1. m = [status |-> m.status, req |-> m.req, category |-> m.category]
        BY DEF Metadata
      <3>2. /\ [m EXCEPT !.status = "failed", !.category = "infra"] \in Metadata
            /\ [m EXCEPT !.status = "canceled", !.category = "canceled"] \in Metadata
        BY <3>1 DEF Metadata, Statuses, Terminal, Categories
      <3>3. \/ m.status = "running" \/ m.status \in {"cancel_requested", "canceling"}
            \/ is_terminal(m.status) \/ ~Readable(m)
        BY DEF Readable, Statuses, is_terminal
      <3>4. QED BY <2>0, <3>2, <3>3 DEF Recovered
    <2>2. meta' \in [Keys -> Metadata] /\ tmp' \in [Keys -> Metadata]
      BY <1>9, <2>0, <2>1 DEF Start, TypeOK
    <2>3. QED BY <1>9, <2>2 DEF Start, TypeOK
  <1>10. QED
    BY <1>1, <1>2, <1>3, <1>4, <1>5, <1>6, <1>7, <1>8, <1>9 DEF StopStep, Exit, Crash

(* Every step keeps the types. *)
LEMMA NextType == TypeOK /\ [Next]_vars => TypeOK'
  <1> SUFFICES ASSUME TypeOK, [Next]_vars
               PROVE  TypeOK'
    OBVIOUS
  <1>1. CASE Next
    BY <1>1, CreateType, CancelType, ExecType, StopType DEF Next
  <1>2. CASE UNCHANGED vars
    BY <1>2 DEF vars, TypeOK
  <1>3. QED BY <1>1, <1>2

(* Every reachable state of the job store is well typed. *)
THEOREM TypeCorrect == Spec => []TypeOK
  <1>1. QED BY InitType, NextType, PTL DEF Spec

-----------------------------------------------------------------------------
(* The inductive invariant *)

(* A text of the record of k names the request that was accepted for it. *)
TextOf(k, text) ==
    /\ text \in Metadata
    /\ Readable(text)
    /\ text.req # NoReq
    /\ k \notin lost => \A req \in Requests : <<k, req>> \in accepted => text.req = req

(* What a step leaves of the records: the keys that have one keep it, a    *)
(* text without a request does not parse, and what parses names the        *)
(* accepted request.                                                       *)
FilesKept ==
    /\ AloneInv'
    /\ \A k \in Keys :
          /\ meta'[k].status = "none" <=> meta[k].status = "none"
          /\ meta'[k].req # NoReq <=> Readable(meta'[k])
          /\ tmp'[k].req # NoReq <=> Readable(tmp'[k])
          /\ tmp'[k].status # "none" => meta'[k].status # "none"
          /\ k \notin lost => \A req \in Requests : <<k, req>> \in accepted =>
                                 /\ meta'[k].req \in {req, NoReq}
                                 /\ tmp'[k].req \in {req, NoReq}

(* A step that writes nothing keeps the records. *)
LEMMA UntouchedKept ==
    ASSUME JobStoreInv, UNCHANGED <<files, lost>>
    PROVE  FilesKept
  BY DEF JobStoreInv, AloneInv, RecordInv, RequestInv, Carries, FilesKept, files

(* The texts a file may end up with, by the one who writes it. *)
LEMMA TextKept ==
    ASSUME NEW k \in Keys, NEW text, TextOf(k, text), NEW old, NEW new \in Overlay(old, text)
    PROVE  /\ new.status # "none"
           /\ new.req # NoReq <=> Readable(new)
           /\ k \notin lost => \A req \in Requests : <<k, req>> \in accepted =>
                                  new.req \in {req, NoReq}
           /\ old = Empty => new = text
  BY DEF TextOf, Overlay, Torn, NoRecord, Readable, Statuses, Terminal

(* atomic_write keeps the records, whoever else writes beside it. *)
LEMMA WriteKept ==
    ASSUME TypeOK, JobStoreInv, NEW w \in Writers, NEW k \in Keys, NEW text,
           TextOf(k, text), meta[k].status # "none", Writes(w, k, text), UNCHANGED lost
    PROVE  FilesKept
  <1> USE DEF JobStoreInv, RecordInv
  <1>0. /\ handle \in [Keys -> [Writers -> Places]] /\ handle[k] \in [Writers -> Places]
        /\ meta \in [Keys -> Metadata] /\ tmp \in [Keys -> Metadata]
    BY DEF TypeOK
  <1>1. ASSUME NEW j \in Keys, k \notin lost \/ j # k
        PROVE  j \notin lost => \A req \in Requests : <<j, req>> \in accepted =>
                                   /\ meta[j].req \in {req, NoReq}
                                   /\ tmp[j].req \in {req, NoReq}
    BY DEF RequestInv, Carries
  <1>2. CASE Open(w, k)
    <2>1. /\ meta' = meta /\ tmp' = [tmp EXCEPT ![k] = Empty]
          /\ Empty.status = "empty" /\ Empty.req = NoReq /\ ~Readable(Empty)
      BY <1>2 DEF Open, Empty, NoRecord, Readable, Statuses, Terminal
    <2>2. AloneInv'
      <3>1. ASSUME NEW j \in Keys, j # k
            PROVE  /\ handle'[j] = handle[j] /\ tmp'[j] = tmp[j]
                   /\ j \notin overlapped' => j \notin overlapped
        BY <1>0, <1>2, <3>1 DEF Open
      <3>2. k \notin overlapped' =>
               /\ k \notin overlapped
               /\ \A v \in Writers : handle[k][v] = "none"
        BY <1>2 DEF Open
      <3>3. /\ handle'[k][w] = "tmp" /\ tmp'[k] = Empty
            /\ \A v \in Writers : v # w => handle'[k][v] = handle[k][v]
        BY <1>0, <1>2 DEF Open
      <3>4. ASSUME NEW j \in Keys, j \notin overlapped', j # k
            PROVE  /\ j \notin lost'
                   /\ meta'[j].status \notin {"empty", "torn"}
                   /\ \A v, u \in Writers :
                         (handle'[j][v] # "none" /\ handle'[j][u] # "none") => v = u
                   /\ \A u \in Writers :
                         /\ handle'[j][u] \in {"none", "tmp", "shut"}
                         /\ handle'[j][u] = "tmp" => tmp'[j] = Empty
                         /\ handle'[j][u] = "shut" => Readable(tmp'[j])
        BY <2>1, <3>1, <3>4 DEF AloneInv
      <3>5. ASSUME k \notin overlapped'
            PROVE  /\ k \notin lost'
                   /\ meta'[k].status \notin {"empty", "torn"}
                   /\ \A v, u \in Writers :
                         (handle'[k][v] # "none" /\ handle'[k][u] # "none") => v = u
                   /\ \A u \in Writers :
                         /\ handle'[k][u] \in {"none", "tmp", "shut"}
                         /\ handle'[k][u] = "tmp" => tmp'[k] = Empty
                         /\ handle'[k][u] = "shut" => Readable(tmp'[k])
        BY <2>1, <3>2, <3>3, <3>5 DEF AloneInv
      <3>6. QED BY <3>4, <3>5 DEF AloneInv
    <2>3. QED BY <1>0, <1>1, <2>1, <2>2 DEF FilesKept, RequestInv, Carries
  <1>3. CASE Fill(w, k, text)
    <2>1. /\ overlapped' = overlapped
          /\ handle' = [handle EXCEPT ![k][w] = "shut"]
          /\ handle[k][w] \in {"tmp", "meta", "gone"}
      BY <1>3 DEF Fill
    <2>2. \/ /\ handle[k][w] = "tmp" /\ meta' = meta
             /\ \E new \in Overlay(tmp[k], text) : tmp' = [tmp EXCEPT ![k] = new]
          \/ /\ handle[k][w] = "meta" /\ tmp' = tmp
             /\ \E new \in Overlay(meta[k], text) : meta' = [meta EXCEPT ![k] = new]
          \/ handle[k][w] = "gone" /\ meta' = meta /\ tmp' = tmp
      BY <1>3 DEF Fill
    <2>3. \A j \in Keys : j # k => /\ handle'[j] = handle[j]
                                   /\ tmp'[j] = tmp[j] /\ meta'[j] = meta[j]
      BY <1>0, <2>1, <2>2
    <2>4. k \notin overlapped => /\ handle[k][w] = "tmp"
                                 /\ meta' = meta /\ tmp'[k] = text
      BY <1>0, <2>1, <2>2, TextKept DEF AloneInv
    <2>5. /\ handle'[k][w] = "shut"
          /\ \A v \in Writers : v # w => handle'[k][v] = handle[k][v]
      BY <1>0, <2>1
    <2>6. ASSUME k \notin overlapped
          PROVE  /\ \A v, u \in Writers :
                       (handle'[k][v] # "none" /\ handle'[k][u] # "none") => v = u
                 /\ \A u \in Writers :
                       /\ handle'[k][u] \in {"none", "tmp", "shut"}
                       /\ handle'[k][u] = "tmp" => tmp'[k] = Empty
                       /\ handle'[k][u] = "shut" => Readable(tmp'[k])
      <3>1. \A v \in Writers : v # w => handle[k][v] = "none"
        BY <2>1, <2>6 DEF AloneInv
      <3>2. QED BY <2>4, <2>5, <2>6, <3>1 DEF TextOf
    <2>7. AloneInv'
      BY <2>1, <2>3, <2>4, <2>6 DEF AloneInv
    <2>8. /\ meta'[k].status # "none"
          /\ meta'[k].req # NoReq <=> Readable(meta'[k])
          /\ tmp'[k].req # NoReq <=> Readable(tmp'[k])
          /\ k \notin lost => \A req \in Requests : <<k, req>> \in accepted =>
                                 /\ meta'[k].req \in {req, NoReq}
                                 /\ tmp'[k].req \in {req, NoReq}
      BY <1>0, <2>2, TextKept DEF RequestInv, Carries
    <2>9. QED BY <2>3, <2>7, <2>8 DEF FilesKept, RequestInv, Carries
  <1>4. CASE Publish(w, k)
    <2>1. overlapped' = overlapped /\ handle[k][w] = "shut"
      BY <1>4 DEF Publish
    <2>2. \/ /\ tmp[k].status # "none"
             /\ meta' = [meta EXCEPT ![k] = tmp[k]] /\ tmp' = [tmp EXCEPT ![k] = NoMeta]
             /\ handle' = [handle EXCEPT ![k] = [v \in Writers |->
                   IF v = w THEN "none" ELSE Renamed(handle[k][v])]]
          \/ /\ tmp[k].status = "none" /\ meta' = meta /\ tmp' = tmp
             /\ handle' = [handle EXCEPT ![k][w] = "none"]
      BY <1>4 DEF Publish, Renames
    <2>3. \A j \in Keys : j # k => /\ handle'[j] = handle[j]
                                   /\ tmp'[j] = tmp[j] /\ meta'[j] = meta[j]
      BY <1>0, <2>2
    <2>4. NoMeta.status = "none" /\ NoMeta.req = NoReq /\ ~Readable(NoMeta)
      BY DEF NoMeta, NoRecord, Readable, Statuses, Terminal
    <2>5. k \notin overlapped =>
             /\ meta'[k].status \notin {"empty", "torn"}
             /\ \A v \in Writers : handle'[k][v] = "none"
      <3>1. ASSUME k \notin overlapped
            PROVE  /\ Readable(tmp[k])
                   /\ \A v \in Writers : v # w => handle[k][v] = "none"
        BY <2>1, <3>1 DEF AloneInv
      <3>2. Renamed("none") = "none"
        BY DEF Renamed
      <3>3. QED BY <1>0, <2>2, <3>1, <3>2 DEF Readable, Statuses, Terminal
    <2>6. AloneInv'
      BY <2>1, <2>3, <2>5 DEF AloneInv
    <2>7. /\ meta'[k].status # "none"
          /\ meta'[k].req # NoReq <=> Readable(meta'[k])
          /\ tmp'[k].req # NoReq <=> Readable(tmp'[k])
          /\ k \notin lost => \A req \in Requests : <<k, req>> \in accepted =>
                                 /\ meta'[k].req \in {req, NoReq}
                                 /\ tmp'[k].req \in {req, NoReq}
      BY <1>0, <2>2, <2>4 DEF RequestInv, Carries
    <2>8. QED BY <2>3, <2>6, <2>7 DEF FilesKept, RequestInv, Carries
  <1>5. QED BY <1>2, <1>3, <1>4 DEF Writes

(* The texts of cancel_job and begin_shutdown and those of run_job name    *)
(* the accepted request.                                                   *)
LEMMA TextsOfKey ==
    ASSUME TypeOK, JobStoreInv
    PROVE  /\ \A x \in Cancelers : canceler[x].pc = "read" =>
                 /\ canceler[x].key \in Keys /\ meta[canceler[x].key].status # "none"
                 /\ TextOf(canceler[x].key,
                           [canceler[x].seen EXCEPT !.status = "cancel_requested"])
           /\ shutdown.pc = "read" /\ MayRequestCancel(shutdown.seen) =>
                 /\ shutdown.key \in Keys /\ meta[shutdown.key].status # "none"
                 /\ TextOf(shutdown.key,
                           [shutdown.seen EXCEPT !.status = "cancel_requested"])
           /\ \A k \in Keys : exec[k].pc # "none" =>
                 /\ meta[k].status # "none"
                 /\ TextOf(k, FinalRecord(k))
                 /\ TextOf(k, [status |-> "canceling", req |-> exec[k].req,
                               category |-> "none"])
  <1> USE DEF JobStoreInv
  <1>1. ASSUME NEW m \in Metadata
        PROVE  LET text == [m EXCEPT !.status = "cancel_requested"]
               IN  text \in Metadata /\ Readable(text) /\ text.req = m.req
    BY DEF Metadata, Readable, Statuses
  <1>2. ASSUME NEW x \in Cancelers, canceler[x].pc = "read"
        PROVE  /\ canceler[x].key \in Keys /\ meta[canceler[x].key].status # "none"
               /\ TextOf(canceler[x].key,
                         [canceler[x].seen EXCEPT !.status = "cancel_requested"])
    BY <1>1, <1>2, CancelerShape DEF SeenInv, RequestInv, Carries, TextOf
  <1>3. ASSUME shutdown.pc = "read", MayRequestCancel(shutdown.seen)
        PROVE  /\ shutdown.key \in Keys /\ meta[shutdown.key].status # "none"
               /\ TextOf(shutdown.key,
                         [shutdown.seen EXCEPT !.status = "cancel_requested"])
    <2>1. shutdown.key \in Keys /\ shutdown.seen \in Metadata
      BY <1>3, ShutdownShape
    <2>2. Readable(shutdown.seen)
      BY <1>3 DEF MayRequestCancel, Readable, Statuses
    <2>3. QED BY <1>1, <1>3, <2>1, <2>2 DEF SeenInv, RequestInv, Carries, TextOf
  <1>4. ASSUME NEW k \in Keys, exec[k].pc # "none"
        PROVE  /\ meta[k].status # "none"
               /\ TextOf(k, FinalRecord(k))
               /\ TextOf(k, [status |-> "canceling", req |-> exec[k].req,
                             category |-> "none"])
    BY <1>4, TaskTexts DEF ExecInv, RequestInv, Carries, TextOf, FinalRecord,
       Readable, Statuses, Outcomes
  <1>5. QED BY <1>2, <1>3, <1>4

(* A step of cancel_job, run_job or begin_shutdown that keeps the records  *)
(* and learns nothing new about them keeps the invariant.                  *)
LEMMA KeptInv ==
    ASSUME TypeOK, JobStoreInv, FilesKept, up,
           UNCHANGED <<up, dirs, running_jobs, creator, spawned, accepted, lost>>,
           \A k \in Keys : /\ exec'[k].pc = "none" <=> exec[k].pc = "none"
                           /\ exec'[k].req = exec[k].req
                           /\ exec'[k].pc = "start" => exec[k].pc = "start",
           \A x \in Cancelers : canceler'[x] = canceler[x] \/ canceler'[x].pc # "read",
           shutdown' = shutdown \/ shutdown'.pc # "read"
    PROVE  JobStoreInv'
  <1> USE DEF JobStoreInv, FilesKept
  <1>1. RecordInv'
    BY DEF RecordInv
  <1>2. ExecInv'
    BY DEF ExecInv, Registered
  <1>3. CreatorInv'
    BY CreatorShape DEF CreatorInv, Registered
  <1>4. SeenInv'
    BY CancelerShape, ShutdownShape DEF SeenInv
  <1>5. RequestInv'
    <2>1. ASSUME NEW k \in Keys, k \notin lost, NEW req \in Requests, <<k, req>> \in accepted
          PROVE  Carries(k, req)'
      <3>1. /\ meta'[k].req \in {req, NoReq} /\ tmp'[k].req \in {req, NoReq}
            /\ Carries(k, req)
        BY <2>1 DEF RequestInv
      <3>2. QED BY <3>1 DEF Carries
    <2>2. QED BY <2>1 DEF RequestInv
  <1>6. QED BY <1>1, <1>2, <1>3, <1>4, <1>5 DEF DownInv

(* The store is empty at first. *)
LEMMA InitInv == Init => JobStoreInv
  BY DEF Init, JobStoreInv, RecordInv, ExecInv, CreatorInv, SeenInv, DownInv,
         AloneInv, RequestInv, NoMeta, NoRecord, NoExec, Idle, Readable, Statuses,
         Terminal

(* A step of create_job up to the write of its record, which no other      *)
(* actor sees but for the registry and the directory.                      *)
LEMMA CreatorStep ==
    ASSUME TypeOK, JobStoreInv, up, CreatorInv',
           UNCHANGED <<up, files, exec, canceler, shutdown, spawned, accepted, lost>>,
           dirs \subseteq dirs',
           \A k \in Keys : (k \in Registered /\ exec[k].pc # "none") => k \in Registered'
    PROVE  JobStoreInv'
  <1> USE DEF JobStoreInv, files
  <1>1. RecordInv' /\ ExecInv' /\ SeenInv'
    BY DEF RecordInv, ExecInv, SeenInv
  <1>2. AloneInv'
    BY DEF AloneInv
  <1>3. RequestInv'
    BY DEF RequestInv, Carries
  <1>4. DownInv'
    BY DEF DownInv
  <1>5. QED BY <1>1, <1>2, <1>3, <1>4

(* A record is on disk only under a request that was accepted, and unless  *)
(* the key was lost it is the only one.                                    *)
LEMMA StoredIsAccepted ==
    ASSUME TypeOK, JobStoreInv, NEW k \in Keys, k \notin lost, meta[k].status # "none"
    PROVE  \E req \in Requests :
              /\ <<k, req>> \in accepted
              /\ Readable(meta[k]) => meta[k].req = req
              /\ \A other \in Requests : <<k, other>> \in accepted => other = req
  BY DEF JobStoreInv, RequestInv, RecordInv, Carries

(* The first record of a job. *)
LEMMA PersistInv ==
    ASSUME TypeOK, JobStoreInv, NEW c \in Creators, CreatePersist(c)
    PROVE  JobStoreInv'
  <1> USE DEF JobStoreInv, Idle
  <1>0. PICK k \in Keys, req \in Requests : k = creator[c].key /\ req = creator[c].req
    BY CreatorShape DEF CreatePersist
  <1>1. up /\ creator[c].pc = "setup"
    BY CreatorShape DEF CreatePersist, DownInv
  <1>2. /\ k \in dirs /\ k \in Registered
        /\ meta[k].status = "none" /\ tmp[k].status = "none" /\ exec[k].pc = "none"
        /\ k \notin lost => spawned[k] = 0
    BY <1>0, <1>1 DEF CreatorInv, ExecInv, RecordInv, TypeOK
  <1>3. req # NoReq
    BY <1>0, <1>1, NoReqAssumption DEF Requests
  <1>4. /\ meta'[k].status = "running" /\ meta'[k].req = req
        /\ exec'[k].pc = "start" /\ exec'[k].req = req
        /\ \A j \in Keys : j # k => meta'[j] = meta[j] /\ exec'[j] = exec[j]
    BY <1>0, <1>1 DEF CreatePersist, TypeOK, NewMeta
  <1>5. Readable(meta'[k])
    BY <1>0, <1>4 DEF Readable, Statuses
  <1>6. \A x \in Cancelers : canceler[x].pc = "read" =>
           canceler[x].key \in Keys /\ canceler[x].key # k
    BY <1>2, CancelerShape DEF SeenInv
  <1>7. (shutdown.pc = "read" /\ Readable(shutdown.seen)) =>
           shutdown.key \in Keys /\ shutdown.key # k
    BY <1>2, ShutdownShape DEF SeenInv
  <1>8. RecordInv'
    BY <1>0, <1>1, <1>2, <1>3, <1>4, <1>5 DEF CreatePersist, RecordInv
  <1>9. ExecInv'
    BY <1>0, <1>1, <1>2, <1>3, <1>4 DEF CreatePersist, ExecInv, Registered
  <1>10. CreatorInv'
    <2>1. \A d \in Creators : d # c => /\ creator'[d] = creator[d]
                                       /\ creator[d].pc \notin {"inserted", "setup"}
      BY <1>0, <1>1 DEF CreatePersist, CreatorInv, TypeOK
    <2>2. creator'[c].pc = "idle"
      BY DEF CreatePersist, TypeOK
    <2>3. QED BY <2>1, <2>2 DEF CreatorInv
  <1>11. SeenInv'
    BY <1>0, <1>4, <1>6, <1>7, ShutdownShape DEF CreatePersist, SeenInv
  <1>12. AloneInv'
    BY <1>0, <1>4 DEF CreatePersist, AloneInv
  <1>13. RequestInv'
    <2>1. \A r \in Requests : <<k, r>> \in accepted => k \in lost
      BY <1>0, <1>1, <1>2 DEF RequestInv
    <2>2. accepted' = accepted \cup {<<k, req>>} /\ lost' = lost
      BY <1>0 DEF CreatePersist
    <2>3. ASSUME k \notin lost
          PROVE  Carries(k, req)'
      <3>1. tmp'[k].req = NoReq
        BY <1>0, <1>1, <1>2 DEF CreatePersist, RecordInv, Readable, Statuses, Terminal
      <3>2. (shutdown.pc = "read" /\ shutdown.key = k) => shutdown.seen.req = NoReq
        BY <1>7 DEF SeenInv
      <3>3. QED BY <1>0, <1>1, <1>4, <1>6, <3>1, <3>2 DEF CreatePersist, Carries
    <2>4. ASSUME NEW j \in Keys, j # k, NEW r \in Requests, Carries(j, r)
          PROVE  Carries(j, r)'
      BY <1>0, <1>4, <2>4 DEF CreatePersist, Carries
    <2>5. ASSUME NEW j \in Keys, j # k, j \notin lost
          PROVE  /\ meta'[j].status # "none" => \E r \in Requests : <<j, r>> \in accepted'
                 /\ \A r \in Requests : <<j, r>> \in accepted' =>
                       /\ meta'[j].status # "none"
                       /\ Carries(j, r)'
                       /\ \A other \in Requests : <<j, other>> \in accepted' => other = r
      <3>1. \A r : <<j, r>> \in accepted' <=> <<j, r>> \in accepted
        BY <2>2, <2>5
      <3>2. QED BY <1>0, <1>4, <2>4, <2>5, <3>1 DEF RequestInv
    <2>6. ASSUME k \notin lost
          PROVE  /\ \E r \in Requests : <<k, r>> \in accepted'
                 /\ \A r \in Requests : <<k, r>> \in accepted' => r = req
      BY <1>0, <1>1, <2>1, <2>2, <2>6
    <2>7. QED BY <1>0, <1>4, <2>2, <2>3, <2>5, <2>6 DEF RequestInv
  <1>14. QED
    BY <1>0, <1>1, <1>8, <1>9, <1>10, <1>11, <1>12, <1>13 DEF CreatePersist, DownInv

(* The steps of create_job keep the invariant. *)
LEMMA CreateInv ==
    ASSUME TypeOK, TypeOK', JobStoreInv, NEW c \in Creators,
           \/ \E k \in Keys, req \in Requests : CreateCheck(c, k, req)
           \/ CreateInvalid(c) \/ CreateStep(c) \/ CreateSetupFails(c)
    PROVE  JobStoreInv'
  <1> USE DEF JobStoreInv, Idle
  (* A handler that begins or gives up without an entry of its own. *)
  <1>0. ASSUME up, UNCHANGED <<up, dirs, files, running_jobs, exec, canceler, shutdown,
                               spawned, accepted, lost>>,
               \A d \in Creators : \/ creator'[d] = creator[d]
                                   \/ creator'[d].pc \in {"idle", "checked"}
        PROVE  JobStoreInv'
    <2>1. CreatorInv'
      BY <1>0 DEF CreatorInv, files, Registered
    <2>2. QED BY <1>0, <2>1, CreatorStep DEF Registered
  <1>1. ASSUME NEW k \in Keys, NEW req \in Requests, CreateCheck(c, k, req)
        PROVE  JobStoreInv'
    <2>1. \A d \in Creators : creator'[d] = creator[d] \/ creator'[d].pc = "checked"
      BY <1>1 DEF CreateCheck, TypeOK
    <2>2. QED BY <1>0, <1>1, <2>1 DEF CreateCheck, Serving
  <1>2. CASE CreateInvalid(c)
    <2>1. \A d \in Creators : creator'[d] = creator[d] \/ creator'[d].pc = "idle"
      BY <1>2 DEF CreateInvalid, TypeOK
    <2>2. QED BY <1>0, <1>2, <2>1 DEF CreateInvalid, DownInv
  <1>3. CASE CreateExisting(c)
    <2>1. \A d \in Creators : creator'[d] = creator[d] \/ creator'[d].pc = "idle"
      BY <1>3 DEF CreateExisting, TypeOK
    <2>2. creator[c].key \in Keys /\ up
      BY <1>3, CreatorShape DEF CreateExisting, DownInv
    (* What is answered was accepted before, unless the key was lost. *)
    <2>3. \A k \in Keys, req \in Requests : k \notin lost =>
             (<<k, req>> \in accepted' <=> <<k, req>> \in accepted)
      <3>1. ASSUME creator[c].key \notin lost, Readable(meta[creator[c].key]),
                   meta[creator[c].key].req = creator[c].req
            PROVE  <<creator[c].key, creator[c].req>> \in accepted
        <4>1. meta[creator[c].key].status # "none"
          BY <3>1 DEF Readable, Statuses, Terminal
        <4>2. QED BY <2>2, <3>1, <4>1, StoredIsAccepted
      <3>2. QED BY <1>3, <3>1 DEF CreateExisting
    <2>4. UNCHANGED <<up, dirs, files, running_jobs, exec, canceler, shutdown,
                      spawned, lost>>
      BY <1>3 DEF CreateExisting
    <2>5. RequestInv'
      <3>1. ASSUME NEW k \in Keys, NEW req \in Requests, Carries(k, req)
            PROVE  Carries(k, req)'
        BY <2>4, <3>1 DEF Carries, files
      <3>2. QED BY <2>3, <2>4, <3>1 DEF RequestInv, files
    <2>6. CreatorInv'
      BY <2>1, <2>4 DEF CreatorInv, files, Registered
    <2>7. QED
      BY <2>2, <2>4, <2>5, <2>6 DEF RecordInv, ExecInv, SeenInv, DownInv, AloneInv,
         files, Registered
  <1>4. CASE CreateConflict(c)
    <2>1. \A d \in Creators : creator'[d] = creator[d] \/ creator'[d].pc = "idle"
      BY <1>4 DEF CreateConflict, TypeOK
    <2>2. QED BY <1>0, <1>4, <2>1 DEF CreateConflict, DownInv
  <1>5. CASE CreateInsert(c)
    <2> DEFINE k == creator[c].key
    <2>1. /\ k \in Keys /\ creator[c].pc = "checked" /\ up
          /\ creator[c] \in [pc : {"checked", "inserted", "setup"}, key : Keys, req : Requests]
      BY <1>5, CreatorShape DEF CreateInsert, DownInv
    <2>2. meta[k].status = "none"
      BY <1>5, <2>1 DEF CreateInsert, RecordInv
    <2>3. k \in Registered' /\ Registered \subseteq Registered'
      <3>1. running_jobs' = running_jobs \cup {[key |-> k, name |-> creator[c].req[1]]}
        BY <1>5 DEF CreateInsert
      <3>2. Registered \subseteq Registered'
        BY <3>1 DEF Registered
      <3>3. \E job \in running_jobs' : job.key = k
        <4> DEFINE new == [key |-> k, name |-> creator[c].req[1]]
        <4>1. new \in running_jobs' /\ new.key = k
          BY <3>1
        <4>2. QED BY <4>1
      <3>4. QED BY <3>2, <3>3 DEF Registered
    <2>4. /\ creator'[c].pc = "inserted" /\ creator'[c].key = k
          /\ \A d \in Creators : d # c => creator'[d] = creator[d]
      BY <1>5, <2>1 DEF CreateInsert, TypeOK
    <2>5. CreatorInv'
      BY <1>5, <2>2, <2>3, <2>4 DEF CreateInsert, CreateUnlocked, CreatorInv, files
    <2>6. QED BY <1>5, <2>1, <2>3, <2>5, CreatorStep DEF CreateInsert
  <1>6. CASE CreateDir(c)
    <2> DEFINE k == creator[c].key
    <2>1. /\ k \in Keys /\ creator[c].pc = "inserted" /\ up
          /\ creator[c] \in [pc : {"checked", "inserted", "setup"}, key : Keys, req : Requests]
      BY <1>6, CreatorShape DEF CreateDir, DownInv
    <2>2. /\ creator'[c].pc = "setup" /\ creator'[c].key = k
          /\ \A d \in Creators : d # c => creator'[d] = creator[d]
      BY <1>6, <2>1 DEF CreateDir, TypeOK
    <2>3. CreatorInv'
      BY <1>6, <2>1, <2>2 DEF CreateDir, CreatorInv, Registered, files
    <2>4. QED BY <1>6, <2>1, <2>3, CreatorStep DEF CreateDir, Registered
  <1>7. CASE CreatePersist(c)
    BY <1>7, PersistInv
  <1>8. CASE CreateSetupFails(c)
    <2> DEFINE k == creator[c].key
    <2>1. k \in Keys /\ up /\ creator[c].pc \in {"inserted", "setup"}
      BY <1>8, CreatorShape DEF CreateSetupFails, DownInv
    <2>2. exec[k].pc = "none"
      BY <2>1 DEF CreatorInv, ExecInv
    <2>3. \A j \in Keys : (j # k /\ j \in Registered) => j \in Registered'
      BY <1>8 DEF CreateSetupFails, Registered
    <2>4. CreatorInv'
      <3>1. \A d \in Creators : d # c => /\ creator'[d] = creator[d]
                                         /\ creator[d].pc \notin {"inserted", "setup"}
        BY <1>8, <2>1 DEF CreateSetupFails, CreatorInv, TypeOK
      <3>2. creator'[c].pc = "idle"
        BY <1>8 DEF CreateSetupFails, TypeOK
      <3>3. QED BY <3>1, <3>2 DEF CreatorInv
    <2>5. QED BY <1>8, <2>1, <2>2, <2>3, <2>4, CreatorStep DEF CreateSetupFails
  <1>9. QED BY <1>1, <1>2, <1>3, <1>4, <1>5, <1>6, <1>7, <1>8 DEF CreateStep

(* The steps of cancel_job keep the records and the invariant. *)
LEMMA CancelInv ==
    ASSUME TypeOK, TypeOK', JobStoreInv, NEW x \in Cancelers,
           (\E k \in Keys : CancelLookup(x, k)) \/ CancelStep(x)
    PROVE  FilesKept /\ JobStoreInv'
  <1> USE DEF JobStoreInv, Idle
  <1>0. /\ \A y \in Cancelers : y # x => canceler'[y] = canceler[y]
        /\ UNCHANGED <<up, dirs, running_jobs, exec, creator, shutdown, spawned,
                       accepted, lost>>
        /\ up
    <2>1. UNCHANGED <<up, dirs, running_jobs, exec, creator, shutdown, spawned,
                      accepted, lost>>
      BY DEF CancelStep, CancelLookup, CancelRead, CancelOpen, CancelFill,
         CancelPublish, CancelSend
    <2>2. \A y \in Cancelers : y # x => canceler'[y] = canceler[y]
      BY DEF CancelStep, CancelLookup, CancelRead, CancelOpen, CancelFill,
         CancelPublish, CancelSend, TypeOK
    <2>3. up
      BY DEF CancelStep, CancelLookup, CancelRead, CancelOpen, CancelFill,
         CancelPublish, CancelSend, Serving, DownInv
    <2>4. QED BY <2>1, <2>2, <2>3
  <1>1. ASSUME FilesKept, canceler'[x] = canceler[x] \/ canceler'[x].pc # "read"
        PROVE  JobStoreInv'
    BY <1>0, <1>1, KeptInv
  <1>2. ASSUME NEW k \in Keys, CancelLookup(x, k)
        PROVE  FilesKept /\ JobStoreInv'
    <2>1. canceler'[x].pc # "read"
      BY <1>2 DEF CancelLookup, TypeOK
    <2>2. QED BY <1>1, <1>2, <2>1, UntouchedKept DEF CancelLookup
  <1>3. CASE CancelRead(x)
    <2>0. FilesKept
      BY <1>3, UntouchedKept DEF CancelRead
    <2>1. canceler[x].pc = "found" /\ canceler[x].key \in Keys
      BY <1>3, CancelerShape DEF CancelRead
    <2>2. CASE canceler'[x].pc # "read"
      BY <1>1, <2>0, <2>2
    <2>3. CASE canceler'[x].pc = "read"
      <3>1. /\ canceler'[x].key = canceler[x].key
            /\ canceler'[x].seen = meta[canceler[x].key]
            /\ meta[canceler[x].key].status = "running"
            /\ Readable(meta[canceler[x].key])
        BY <1>3, <2>3 DEF CancelRead, MayRequestCancel, TypeOK
      <3>2. /\ UNCHANGED files
            /\ meta[canceler[x].key].req # NoReq
        BY <1>3, <2>1, <3>1 DEF CancelRead, RecordInv
      <3>3. SeenInv'
        BY <1>0, <2>1, <3>1, <3>2 DEF SeenInv, files
      <3>4. ASSUME NEW k \in Keys, NEW req \in Requests, Carries(k, req)
            PROVE  Carries(k, req)'
        BY <1>0, <2>1, <3>1, <3>2, <3>4 DEF Carries, files
      <3>5. RequestInv'
        BY <1>0, <3>2, <3>4 DEF RequestInv, files
      <3>6. QED
        BY <1>0, <2>0, <3>2, <3>3, <3>5 DEF RecordInv, ExecInv, CreatorInv, DownInv,
           AloneInv, Registered, files
    <2>4. QED BY <2>0, <2>2, <2>3
  <1>4. CASE CancelOpen(x) \/ CancelFill(x) \/ CancelPublish(x)
    <2>1. /\ canceler[x].pc = "read" /\ lost' = lost /\ x \in Writers
          /\ Writes(x, canceler[x].key, [canceler[x].seen EXCEPT !.status = "cancel_requested"])
      BY <1>4 DEF CancelOpen, CancelFill, CancelPublish, Writes, Writers
    <2>2. FilesKept
      BY <2>1, TextsOfKey, WriteKept
    <2>3. canceler'[x] = canceler[x] \/ canceler'[x].pc # "read"
      BY <1>4 DEF CancelOpen, CancelFill, CancelPublish, TypeOK
    <2>4. QED BY <1>1, <2>2, <2>3
  <1>5. CASE CancelSend(x)
    <2>1. canceler'[x].pc # "read"
      BY <1>5 DEF CancelSend, TypeOK
    <2>2. QED BY <1>1, <1>5, <2>1, UntouchedKept DEF CancelSend
  <1>6. QED BY <1>2, <1>3, <1>4, <1>5 DEF CancelStep

(* A step of a run_job task after its start: the records stay. *)
LEMMA ExecToInv ==
    ASSUME TypeOK, JobStoreInv, NEW k \in Keys, NEW pc, NEW out,
           exec[k].pc # "none", pc \notin {"none", "start"}, ExecTo(k, pc, out), FilesKept
    PROVE  JobStoreInv'
  <1>1. up
    BY DEF JobStoreInv, DownInv, NoExec
  <1>2. /\ exec'[k].pc = pc /\ exec'[k].req = exec[k].req
        /\ \A j \in Keys : j # k => exec'[j] = exec[j]
    BY DEF ExecTo, TypeOK
  <1>3. QED BY <1>1, <1>2, KeptInv DEF ExecTo

(* The steps of run_job and the end of its processes keep the records and  *)
(* the invariant.                                                          *)
LEMMA ExecTaskInv ==
    ASSUME TypeOK, TypeOK', JobStoreInv, NEW k \in Keys,
           ExecStep(k) \/ ExecFault(k) \/ ProcessExit(k)
    PROVE  FilesKept /\ JobStoreInv'
  <1> USE DEF JobStoreInv
  <1>0. UNCHANGED <<files, lost>> => FilesKept
    BY UntouchedKept
  <1>01. ASSUME NEW pc \in {"terminate", "drain", "finish"}, NEW out,
                exec[k].pc # "none", ExecTo(k, pc, out), UNCHANGED files
         PROVE  FilesKept /\ JobStoreInv'
    <2>1. FilesKept
      BY <1>0, <1>01 DEF ExecTo
    <2>2. QED BY <1>01, <2>1, ExecToInv
  (* run_job writes its record. *)
  <1>02. ASSUME NEW text, exec[k].pc # "none", Writes("run_job", k, text), UNCHANGED lost,
                text = FinalRecord(k) \/ text = [status |-> "canceling", req |-> exec[k].req,
                                                 category |-> "none"]
         PROVE  FilesKept
    BY <1>02, TextsOfKey, WriteKept DEF Writers
  <1>1. CASE Spawn(k)
    <2>1. /\ up /\ exec[k].pc = "start" /\ meta[k].status # "none"
          /\ k \notin lost => spawned[k] = 0
      BY <1>1 DEF Spawn, ExecInv, DownInv, NoExec
    <2>2. /\ exec'[k].pc = "loop" /\ exec'[k].req = exec[k].req
          /\ k \notin lost => spawned'[k] = 1
          /\ \A j \in Keys : j # k => exec'[j] = exec[j] /\ spawned'[j] = spawned[j]
      BY <1>1, <2>1 DEF Spawn, TypeOK
    <2>3. RecordInv'
      BY <1>1, <2>1, <2>2 DEF Spawn, RecordInv, files
    <2>4. ExecInv'
      BY <1>1, <2>1, <2>2 DEF Spawn, ExecInv, Registered, files
    <2>5. ASSUME NEW j \in Keys, NEW req \in Requests, Carries(j, req)
          PROVE  Carries(j, req)'
      BY <1>1, <2>1, <2>2, <2>5 DEF Spawn, Carries, files
    <2>6. RequestInv'
      BY <1>1, <2>5 DEF Spawn, RequestInv, files
    <2>7. QED
      BY <1>0, <1>1, <2>1, <2>3, <2>4, <2>6 DEF Spawn, CreatorInv, SeenInv, DownInv,
         AloneInv, Registered, files
  <1>2. CASE SpawnError(k)
    BY <1>2, <1>01 DEF SpawnError
  <1>3. CASE TimedOut(k)
    BY <1>3, <1>01 DEF TimedOut
  <1>4. CASE ObserveCancel(k)
    <2>1. \E pc \in {"mark", "terminate"} :
             ExecTo(k, pc, Outcome("canceled", "canceled"))
      BY <1>4 DEF ObserveCancel
    <2>2. FilesKept
      BY <1>0, <1>4 DEF ObserveCancel, ExecTo
    <2>3. QED BY <1>4, <2>1, <2>2, ExecToInv DEF ObserveCancel
  <1>5. CASE LogLimit(k)
    BY <1>5, <1>01 DEF LogLimit
  <1>6. CASE Terminate(k)
    BY <1>6, <1>01 DEF Terminate
  <1>7. CASE Reap(k)
    BY <1>7, <1>01 DEF Reap
  <1>8. CASE WaitError(k)
    BY <1>8, <1>01 DEF WaitError
  <1>9. CASE CaptureDone(k)
    BY <1>9, <1>01 DEF CaptureDone
  <1>10. CASE CaptureError(k)
    BY <1>10, <1>01 DEF CaptureError
  <1>11. CASE MarkOpen(k) \/ MarkFill(k) \/ MarkPublish(k)
    <2>1. /\ exec[k].pc = "mark" /\ lost' = lost
          /\ Writes("run_job", k, [status |-> "canceling", req |-> exec[k].req,
                                   category |-> "none"])
      BY <1>11 DEF MarkOpen, MarkFill, MarkPublish, Writes, ExecTo
    <2>2. FilesKept
      BY <2>1, <1>02
    <2>3. \E pc \in {"mark", "terminate"} : ExecTo(k, pc, exec[k].out)
      BY <1>11 DEF MarkOpen, MarkFill, MarkPublish
    <2>4. QED BY <2>1, <2>2, <2>3, ExecToInv
  <1>12. CASE FinishOpen(k) \/ FinishFill(k) \/ FinishPublish(k)
    <2>1. /\ exec[k].pc \in {"finish", "persist"} /\ lost' = lost
          /\ Writes("run_job", k, FinalRecord(k))
      BY <1>12 DEF FinishOpen, FinishFill, FinishPublish, Writes, ExecTo
    <2>2. FilesKept
      BY <2>1, <1>02
    <2>3. \E pc \in {"persist", "remove"} : \E out : ExecTo(k, pc, out)
      BY <1>12 DEF FinishOpen, FinishFill, FinishPublish
    <2>4. QED BY <2>1, <2>2, <2>3, ExecToInv
  <1>13. CASE FinishPersistFails(k)
    <2>1. /\ UNCHANGED <<meta, tmp, overlapped, lost>>
          /\ \A j \in Keys, w \in Writers : handle'[j][w] \in {handle[j][w], "none"}
      BY <1>13 DEF FinishPersistFails, ExecTo, TypeOK
    <2>2. AloneInv'
      BY <2>1 DEF AloneInv
    <2>3. FilesKept
      BY <2>1, <2>2 DEF FilesKept, RecordInv, RequestInv, Carries
    <2>4. QED BY <1>13, <2>3, ExecToInv DEF FinishPersistFails
  <1>14. CASE FinishRemove(k)
    <2>1. up
      BY <1>14 DEF FinishRemove, DownInv, NoExec
    <2>2. meta[k].status # "none"
      BY <1>14 DEF FinishRemove, ExecInv
    <2>3. /\ exec'[k].pc = "none"
          /\ \A j \in Keys : j # k => exec'[j] = exec[j]
      BY <1>14 DEF FinishRemove, TypeOK, NoExec
    <2>4. \A j \in Keys : (j # k /\ j \in Registered) => j \in Registered'
      BY <1>14 DEF FinishRemove, Registered
    <2>5. ExecInv'
      BY <1>14, <2>3, <2>4 DEF FinishRemove, ExecInv, files
    <2>6. CreatorInv'
      BY <1>14, <2>2, <2>4, CreatorShape DEF FinishRemove, CreatorInv, files
    <2>7. ASSUME NEW j \in Keys, NEW req \in Requests, Carries(j, req)
          PROVE  Carries(j, req)'
      BY <1>14, <2>3, <2>7 DEF FinishRemove, Carries, files
    <2>8. RequestInv'
      BY <1>14, <2>7 DEF FinishRemove, RequestInv, files
    <2>9. QED
      BY <1>0, <1>14, <2>1, <2>5, <2>6, <2>8 DEF FinishRemove, RecordInv, SeenInv,
         DownInv, AloneInv, files
  <1>15. CASE ProcessExit(k)
    BY <1>0, <1>15 DEF ProcessExit, RecordInv, ExecInv, CreatorInv, SeenInv, DownInv,
       AloneInv, RequestInv, Carries, Registered, files
  <1>16. QED
    BY <1>1, <1>2, <1>3, <1>4, <1>5, <1>6, <1>7, <1>8, <1>9, <1>10, <1>11,
       <1>12, <1>13, <1>14, <1>15 DEF ExecStep, ExecFault

(* The steps of begin_shutdown and the end of the process keep the records *)
(* and the invariant.                                                      *)
LEMMA StopInv ==
    ASSUME TypeOK, TypeOK', JobStoreInv, StopStep \/ Crash
    PROVE  FilesKept /\ JobStoreInv'
  <1> USE DEF JobStoreInv
  <1>0. ASSUME NEW next, ShutdownStep(next), FilesKept,
               next = shutdown \/ next.pc # "read"
        PROVE  JobStoreInv'
    BY <1>0, KeptInv DEF ShutdownStep
  <1>00. ASSUME NEW next, ShutdownStep(next), UNCHANGED files
         PROVE  FilesKept
    BY <1>00, UntouchedKept DEF ShutdownStep
  <1>1. CASE BeginShutdown
    BY <1>1, <1>0, <1>00 DEF BeginShutdown
  <1>2. CASE ShutdownLock
    BY <1>2, <1>0, <1>00 DEF ShutdownLock
  <1>3. ASSUME NEW k \in Keys, ShutdownRead(k)
        PROVE  FilesKept /\ JobStoreInv'
    <2>0. FilesKept
      BY <1>00, <1>3 DEF ShutdownRead
    <2>1. /\ shutdown'.pc = "read" /\ shutdown'.key = k /\ shutdown'.seen = meta[k]
          /\ UNCHANGED <<up, dirs, files, running_jobs, exec, creator, canceler,
                         spawned, accepted, lost>>
          /\ up
      BY <1>3 DEF ShutdownRead, ShutdownStep
    <2>2. SeenInv'
      BY <2>1 DEF SeenInv, RecordInv, Readable, Statuses, Terminal, files
    <2>3. ASSUME NEW j \in Keys, NEW req \in Requests, Carries(j, req)
          PROVE  Carries(j, req)'
      BY <2>1, <2>3 DEF Carries, files
    <2>4. RequestInv'
      BY <2>1, <2>3 DEF RequestInv, files
    <2>5. QED
      BY <2>0, <2>1, <2>2, <2>4 DEF RecordInv, ExecInv, CreatorInv, DownInv,
         AloneInv, Registered, files
  <1>4. CASE ShutdownOpen \/ ShutdownFill \/ ShutdownSignal
    <2>1. FilesKept
      <3>1. /\ shutdown.pc = "read" /\ lost' = lost
            /\ \/ UNCHANGED files
               \/ /\ MayRequestCancel(shutdown.seen)
                  /\ Writes("begin_shutdown", shutdown.key,
                            [shutdown.seen EXCEPT !.status = "cancel_requested"])
        BY <1>4 DEF ShutdownOpen, ShutdownFill, ShutdownSignal, Writes, ShutdownStep
      <3>2. CASE UNCHANGED files
        BY <3>1, <3>2, UntouchedKept
      <3>3. QED BY <3>1, <3>2, TextsOfKey, WriteKept DEF Writers
    <2>2. \/ ShutdownStep(shutdown)
          \/ ShutdownStep([pc |-> "signaling", todo |-> shutdown.todo \ {shutdown.key}])
      BY <1>4 DEF ShutdownOpen, ShutdownFill, ShutdownSignal
    <2>3. QED BY <1>0, <2>1, <2>2
  <1>5. CASE ShutdownUnlock
    BY <1>5, <1>0, <1>00 DEF ShutdownUnlock
  <1>6. CASE ShutdownDrained
    BY <1>6, <1>0, <1>00 DEF ShutdownDrained
  <1>7. CASE ProcessEnds
    <2>1. /\ UNCHANGED <<dirs, meta, tmp, spawned, accepted, overlapped, lost>>
          /\ \A k \in Keys, w \in Writers : handle'[k][w] = "none"
          /\ \A k \in Keys : exec'[k] = NoExec /\ exec'[k].pc = "none"
          /\ \A c \in Creators : creator'[c].pc = "idle"
          /\ \A x \in Cancelers : canceler'[x].pc = "idle"
          /\ shutdown'.pc = "off" /\ running_jobs' = {}
      BY <1>7 DEF ProcessEnds, NoExec, Idle
    <2>2. AloneInv'
      BY <2>1 DEF AloneInv
    <2>3. FilesKept
      BY <2>1, <2>2 DEF FilesKept, RecordInv, RequestInv, Carries
    <2>4. RequestInv'
      BY <2>1 DEF RequestInv, Carries
    <2>5. QED
      BY <2>1, <2>2, <2>3, <2>4 DEF RecordInv, ExecInv, CreatorInv, SeenInv, DownInv
  <1>8. QED
    BY <1>1, <1>2, <1>3, <1>4, <1>5, <1>6, <1>7 DEF StopStep, Exit, Crash

(* Recovery keeps the record of a key, or loses the key. *)
LEMMA RecoveredRecord ==
    ASSUME NEW m \in Metadata
    PROVE  /\ Readable(m) => /\ Recovered(m).req = m.req
                             /\ is_terminal(Recovered(m).status)
                             /\ Readable(Recovered(m))
                             /\ is_terminal(m.status) => Recovered(m) = m
           /\ ~Readable(m) => Recovered(m) = NoMeta
  (* The four cases of a record exclude each other. *)
  <1>1. /\ m.status = "running" =>
              m.status \notin {"cancel_requested", "canceling"} /\ ~is_terminal(m.status)
        /\ m.status \in {"cancel_requested", "canceling"} =>
              m.status # "running" /\ ~is_terminal(m.status)
        /\ is_terminal(m.status) => m.status \notin {"running", "cancel_requested", "canceling"}
        /\ Readable(m) <=> \/ m.status = "running"
                           \/ m.status \in {"cancel_requested", "canceling"}
                           \/ is_terminal(m.status)
    BY DEF Readable, Statuses, Terminal, is_terminal
  <1>2. /\ [m EXCEPT !.status = "failed", !.category = "infra"].status = "failed"
        /\ [m EXCEPT !.status = "failed", !.category = "infra"].req = m.req
        /\ [m EXCEPT !.status = "canceled", !.category = "canceled"].status = "canceled"
        /\ [m EXCEPT !.status = "canceled", !.category = "canceled"].req = m.req
    BY DEF Metadata
  <1>3. ASSUME NEW r, r.status \in {"failed", "canceled"}
        PROVE  is_terminal(r.status) /\ Readable(r)
    BY <1>3 DEF Readable, Statuses, Terminal, is_terminal
  <1>4. CASE m.status = "running"
    <2>1. Recovered(m) = [m EXCEPT !.status = "failed", !.category = "infra"]
      BY <1>1, <1>4 DEF Recovered
    <2>2. Recovered(m).status = "failed" /\ Recovered(m).req = m.req
      BY <1>2, <2>1
    <2>3. QED BY <1>1, <1>3, <1>4, <2>2
  <1>5. CASE m.status \in {"cancel_requested", "canceling"}
    <2>1. Recovered(m) = [m EXCEPT !.status = "canceled", !.category = "canceled"]
      BY <1>1, <1>5 DEF Recovered
    <2>2. Recovered(m).status = "canceled" /\ Recovered(m).req = m.req
      BY <1>2, <2>1
    <2>3. QED BY <1>1, <1>3, <1>5, <2>2
  <1>6. CASE is_terminal(m.status)
    <2>1. Recovered(m) = m
      BY <1>1, <1>6 DEF Recovered
    <2>2. QED BY <1>1, <1>6, <2>1
  <1>7. CASE ~Readable(m)
    <2>1. Recovered(m) = NoMeta
      BY <1>1, <1>7 DEF Recovered
    <2>2. QED BY <1>7, <2>1
  <1>8. QED BY <1>1, <1>4, <1>5, <1>6, <1>7

(* What a start makes of the files of each key. *)
LEMMA StartFiles ==
    ASSUME TypeOK, Start, NEW k \in Keys
    PROVE  /\ Readable(meta[k]) => /\ meta'[k].req = meta[k].req
                                   /\ is_terminal(meta'[k].status)
                                   /\ Readable(meta'[k])
                                   /\ k \in dirs => k \in dirs'
           /\ is_terminal(meta[k].status) => meta'[k] = meta[k]
           /\ ~Readable(meta[k]) => meta'[k] = NoMeta
           /\ tmp'[k] \in {tmp[k], NoMeta}
           /\ tmp'[k] # NoMeta => is_terminal(meta[k].status)
           /\ k \in lost' <=> k \in lost \/ meta[k].status \in {"empty", "torn"}
           /\ Readable(meta[k]) \/ meta[k].status \in {"none", "empty", "torn"}
  <1>1. meta[k] \in Metadata
    BY DEF TypeOK
  <1>2. is_terminal(meta[k].status) => Readable(meta[k])
    BY DEF is_terminal, Readable, Statuses
  <1>3. Readable(meta[k]) \/ meta[k].status \in {"none", "empty", "torn"}
    BY <1>1 DEF Metadata, Readable
  <1>4. /\ meta'[k] = Recovered(meta[k])
        /\ tmp'[k] = IF is_terminal(meta[k].status) THEN tmp[k] ELSE NoMeta
        /\ k \in dirs' <=> k \in dirs /\ Readable(meta[k])
        /\ k \in lost' <=> k \in lost \/ meta[k].status \in {"empty", "torn"}
    BY DEF Start
  <1>5. QED BY <1>1, <1>2, <1>3, <1>4, RecoveredRecord

(* A start keeps the invariant. *)
LEMMA StartInv ==
    ASSUME TypeOK, JobStoreInv, Start
    PROVE  JobStoreInv'
  <1> USE DEF JobStoreInv
  <1>1. /\ running_jobs = {} /\ shutdown.pc = "off"
        /\ \A j \in Keys : exec[j].pc = "none"
        /\ \A c \in Creators : creator[c].pc = "idle"
        /\ \A x \in Cancelers : canceler[x].pc = "idle"
        /\ \A k \in Keys, w \in Writers : handle[k][w] = "none"
    BY DEF Start, DownInv, NoExec
  <1>2. /\ up' /\ UNCHANGED <<handle, running_jobs, exec, creator, canceler,
                              shutdown, spawned, accepted, overlapped>>
    BY DEF Start
  <1>3. NoMeta.status = "none" /\ NoMeta.req = NoReq /\ ~Readable(NoMeta)
    BY DEF NoMeta, NoRecord, Readable, Statuses, Terminal
  <1>4. \A k \in Keys : Readable(meta[k]) => meta[k].status # "none"
    BY DEF Readable, Statuses, Terminal
  <1>5. \A k \in Keys : Readable(meta'[k]) => meta'[k].status \notin {"none", "empty", "torn"}
    BY DEF Readable, Statuses, Terminal
  <1>6. \A k \in Keys : is_terminal(meta[k].status) => Readable(meta[k])
    BY DEF is_terminal, Readable, Statuses
  <1>7. RecordInv'
    <2>1. ASSUME NEW k \in Keys
          PROVE  /\ meta'[k].status # "none" => k \in dirs'
                 /\ meta'[k].req # NoReq <=> Readable(meta'[k])
                 /\ tmp'[k].req # NoReq <=> Readable(tmp'[k])
                 /\ tmp'[k].status # "none" => meta'[k].status # "none"
      BY <1>3, <1>4, <1>5, <1>6, StartFiles DEF RecordInv
    <2>2. ASSUME NEW k \in Keys, k \notin lost'
          PROVE  /\ spawned'[k] # 0 => meta'[k].status # "none"
                 /\ spawned'[k] <= 1
      BY <1>2, <1>5, <2>2, StartFiles DEF RecordInv
    <2>3. QED BY <2>1, <2>2 DEF RecordInv
  <1>8. ExecInv' /\ CreatorInv' /\ SeenInv' /\ DownInv'
    BY <1>1, <1>2 DEF ExecInv, CreatorInv, SeenInv, DownInv
  <1>9. AloneInv'
    <2>1. ASSUME NEW k \in Keys, k \notin overlapped'
          PROVE  k \notin lost' /\ meta'[k].status \notin {"empty", "torn"}
      BY <1>2, <1>3, <1>5, <2>1, StartFiles DEF AloneInv
    <2>2. QED BY <1>1, <1>2, <2>1 DEF AloneInv
  <1>10. RequestInv'
    <2>1. ASSUME NEW k \in Keys, k \notin lost'
          PROVE  /\ k \notin lost
                 /\ meta'[k].status = "none" <=> meta[k].status = "none"
                 /\ meta'[k].req \in {meta[k].req, NoReq}
                 /\ tmp'[k].req \in {tmp[k].req, NoReq}
      BY <1>3, <1>4, <1>5, <2>1, StartFiles
    <2>2. ASSUME NEW k \in Keys, k \notin lost', NEW req \in Requests, Carries(k, req)
          PROVE  Carries(k, req)'
      BY <1>1, <1>2, <2>1, <2>2 DEF Carries
    <2>3. QED BY <1>2, <2>1, <2>2 DEF RequestInv
  <1>11. QED BY <1>7, <1>8, <1>9, <1>10

(* Every step keeps the invariant. *)
LEMMA NextInv == TypeOK /\ JobStoreInv /\ [Next]_vars => JobStoreInv'
  <1> SUFFICES ASSUME TypeOK, JobStoreInv, [Next]_vars
               PROVE  JobStoreInv'
    OBVIOUS
  <1>0. TypeOK'
    BY NextType
  <1>1. CASE Next
    BY <1>0, <1>1, CreateInv, CancelInv, ExecTaskInv, StopInv, StartInv DEF Next
  <1>2. CASE UNCHANGED vars
    BY <1>2 DEF vars, JobStoreInv, RecordInv, ExecInv, CreatorInv, SeenInv,
       DownInv, AloneInv, RequestInv, Carries, Registered
  <1>3. QED BY <1>1, <1>2

(* The inductive invariant holds in every reachable state: two writers of  *)
(* one temporary file leave a record that names its request or a text that *)
(* does not parse, and the latter only where their writes overlapped.      *)
THEOREM StoreInvariant == Spec => []JobStoreInv
  <1>1. QED BY InitType, NextType, InitInv, NextInv, PTL DEF Spec

(* create_job, recover_interrupted_jobs and run_job: no key is executed    *)
(* twice, for any number of keys, handlers, crashes and racing writers,    *)
(* unless recovery removed a record it could not read.                     *)
THEOREM ExecutedOnce == Spec => []AtMostOneExecution
  <1>1. TypeOK /\ JobStoreInv => AtMostOneExecution
    <2> SUFFICES ASSUME TypeOK, JobStoreInv, NEW k \in Keys, k \notin lost
                 PROVE  ~(spawned[k] > 1)
      BY DEF AtMostOneExecution
    <2>1. spawned[k] \in 0 .. 2 /\ spawned[k] <= 1
      BY DEF TypeOK, JobStoreInv, RecordInv
    <2>2. QED BY <2>1
  <1>2. QED BY <1>1, InitType, NextType, StoreInvariant, PTL DEF Spec

(* create_job, load_existing_job_for_request, recover_interrupted_jobs: an *)
(* accepted request survives every crash and is the only one accepted      *)
(* under its key, until recovery removes a record that two overlapping     *)
(* writes have left unreadable.                                            *)
THEOREM Durable == Spec => []AcceptedIsDurable
  <1>1. TypeOK /\ JobStoreInv => AcceptedIsDurable
    <2> SUFFICES ASSUME TypeOK, JobStoreInv,
                        NEW k \in Keys, NEW req \in Requests, <<k, req>> \in accepted
                 PROVE  /\ k \notin lost =>
                              /\ k \in dirs
                              /\ meta[k].status # "none"
                              /\ Readable(meta[k]) => meta[k].req = req
                              /\ \A other \in Requests :
                                    <<k, other>> \in accepted => other = req
                        /\ k \notin overlapped => k \notin lost /\ Readable(meta[k])
      BY DEF AcceptedIsDurable
    <2>1. k \notin lost =>
             /\ k \in dirs
             /\ meta[k].status # "none"
             /\ Readable(meta[k]) => meta[k].req = req
             /\ \A other \in Requests : <<k, other>> \in accepted => other = req
      BY DEF JobStoreInv, RequestInv, RecordInv, Carries
    <2>2. k \notin overlapped => k \notin lost /\ meta[k].status \notin {"empty", "torn"}
      BY DEF JobStoreInv, AloneInv
    <2>3. Readable(meta[k]) \/ meta[k].status \in {"none", "empty", "torn"}
      BY DEF TypeOK, Metadata, Readable
    <2>4. QED BY <2>1, <2>2, <2>3
  <1>2. QED BY <1>1, InitType, NextType, StoreInvariant, PTL DEF Spec

-----------------------------------------------------------------------------
(* Exclusivity *)

(* The registry grows by admission only, and what enforce_concurrency      *)
(* admits is compatible with what is there.                                *)
LEMMA RegistryStep ==
    ASSUME Next
    PROVE  \/ running_jobs' \subseteq running_jobs
           \/ \E c \in Creators : CreateInsert(c)
  BY DEF Next, CreateCheck, CreateInvalid, CreateStep, CreateExisting,
         CreateConflict, CreateDir, CreatePersist, CreateSetupFails,
         CancelLookup, CancelStep, CancelRead, CancelOpen, CancelFill,
         CancelPublish, CancelSend, ExecStep, ExecFault, Spawn, SpawnError,
         TimedOut, ObserveCancel, MarkOpen, MarkFill, MarkPublish, LogLimit,
         Terminate, Reap, WaitError, CaptureDone, CaptureError, FinishOpen,
         FinishFill, FinishPublish, FinishPersistFails, FinishRemove, ExecTo,
         ProcessExit, StopStep, BeginShutdown, ShutdownLock, ShutdownRead,
         ShutdownOpen, ShutdownFill, ShutdownSignal, ShutdownUnlock,
         ShutdownDrained, ShutdownStep, Exit, Crash, ProcessEnds, Start

(* enforce_concurrency admits a job only next to compatible ones. *)
LEMMA AdmittedIsCompatible ==
    ASSUME TypeOK, NEW name \in Names, enforce_concurrency(name),
           NEW job \in running_jobs
    PROVE  Compatible(name, job.name) /\ Compatible(job.name, name)
  <1>1. job.name \in Names /\ Concurrency[name] \in ConcurrencyModes
    BY ConcurrencyAssumption DEF TypeOK
  <1>2. QED
    BY <1>1 DEF enforce_concurrency, Compatible, ConcurrencyModes

(* Every step keeps the registered jobs compatible. *)
LEMMA NextExclusive == TypeOK /\ RegistryExclusive /\ [Next]_vars => RegistryExclusive'
  <1> SUFFICES ASSUME TypeOK, RegistryExclusive, [Next]_vars
               PROVE  RegistryExclusive'
    OBVIOUS
  <1>1. ASSUME NEW c \in Creators, CreateInsert(c)
        PROVE  RegistryExclusive'
    <2> DEFINE name == creator[c].req[1]
               new  == [key |-> creator[c].key, name |-> name]
    <2>0. creator[c].pc # "idle"
      BY <1>1 DEF CreateInsert
    <2>1. name \in Names
      BY <2>0, CreatorShape
    <2>2. running_jobs' = running_jobs \cup {new} /\ enforce_concurrency(name)
      BY <1>1 DEF CreateInsert
    <2>3. \A job \in running_jobs : /\ Compatible(new.name, job.name)
                                    /\ Compatible(job.name, new.name)
      BY <2>1, <2>2, AdmittedIsCompatible
    <2> HIDE DEF name, new
    <2>4. QED BY <2>2, <2>3 DEF RegistryExclusive
  <1>2. CASE running_jobs' \subseteq running_jobs
    BY <1>2 DEF RegistryExclusive
  <1>3. QED BY <1>1, <1>2, RegistryStep DEF vars

(* enforce_concurrency: whatever the manifests and the order of admission, *)
(* two registered jobs never contradict each other's concurrency mode.     *)
THEOREM Exclusive == Spec => []RegistryExclusive
  <1>1. Init => RegistryExclusive
    BY DEF Init, RegistryExclusive
  <1>2. QED BY <1>1, InitType, NextType, NextExclusive, PTL DEF Spec

-----------------------------------------------------------------------------
(* Refinement of the idempotent executor *)

(* What may happen to the records in one step. *)
LEMMA RecordStep ==
    ASSUME TypeOK, JobStoreInv, Next
    PROVE  \/ \E c \in Creators : CreatePersist(c)
           \/ \E k \in Keys : Spawn(k)
           \/ Start
           \/ /\ \A k \in Keys : meta'[k].status = "none" <=> meta[k].status = "none"
              /\ UNCHANGED <<spawned, lost>> /\ accepted \subseteq accepted'
  <1>0. TypeOK'
    BY NextType
  <1>1. ASSUME NEW c \in Creators,
               \/ \E k \in Keys, req \in Requests : CreateCheck(c, k, req)
               \/ CreateInvalid(c) \/ CreateStep(c) \/ CreateSetupFails(c)
        PROVE  \/ CreatePersist(c)
               \/ UNCHANGED <<meta, spawned, lost>> /\ accepted \subseteq accepted'
    BY <1>1 DEF CreateCheck, CreateInvalid, CreateStep, CreateExisting,
       CreateInsert, CreateConflict, CreateDir, CreateSetupFails, files
  <1>2. ASSUME NEW x \in Cancelers, (\E k \in Keys : CancelLookup(x, k)) \/ CancelStep(x)
        PROVE  FilesKept /\ UNCHANGED <<spawned, lost, accepted>>
    <2>1. FilesKept
      BY <1>0, <1>2, CancelInv
    <2>2. QED
      BY <1>2, <2>1 DEF CancelLookup, CancelStep, CancelRead, CancelOpen,
         CancelFill, CancelPublish, CancelSend
  <1>3. ASSUME NEW k \in Keys, ExecStep(k) \/ ExecFault(k) \/ ProcessExit(k)
        PROVE  Spawn(k) \/ (FilesKept /\ UNCHANGED <<spawned, lost, accepted>>)
    <2>1. FilesKept
      BY <1>0, <1>3, ExecTaskInv
    <2>2. Spawn(k) \/ UNCHANGED <<spawned, lost, accepted>>
      BY <1>3 DEF ExecStep, ExecFault, SpawnError, TimedOut, ObserveCancel,
         MarkOpen, MarkFill, MarkPublish, LogLimit, Terminate, Reap, WaitError,
         CaptureDone, CaptureError, FinishOpen, FinishFill, FinishPublish,
         FinishPersistFails, FinishRemove, ExecTo, ProcessExit
    <2>3. QED BY <2>1, <2>2
  <1>4. CASE StopStep \/ Crash
    <2>1. FilesKept
      BY <1>0, <1>4, StopInv
    <2>2. UNCHANGED <<spawned, lost, accepted>>
      BY <1>4 DEF StopStep, BeginShutdown, ShutdownLock, ShutdownRead, ShutdownOpen,
         ShutdownFill, ShutdownSignal, ShutdownUnlock, ShutdownDrained, ShutdownStep,
         Exit, Crash, ProcessEnds
    <2>3. QED BY <2>1, <2>2 DEF FilesKept
  <1>5. QED BY <1>1, <1>2, <1>3, <1>4 DEF Next, FilesKept

(* The request a key is bound to, whether or not its record can be read.   *)
LEMMA BoundTo ==
    ASSUME TypeOK, JobStoreInv, NEW k \in Keys
    PROVE  /\ k \in lost \/ meta[k].status = "none" => Bound(k) = NoReq
           /\ k \notin lost /\ meta[k].status # "none" =>
                 /\ Bound(k) # NoReq
                 /\ \A req \in Requests : <<k, req>> \in accepted => Bound(k) = req
  <1>1. CASE k \in lost \/ meta[k].status = "none"
    <2>1. ~(k \notin lost /\ Readable(meta[k]))
      BY <1>1 DEF Readable, Statuses, Terminal
    <2>2. Bound(k) = NoReq
      BY <1>1, <2>1 DEF Bound
    <2>3. QED BY <1>1, <2>2
  <1>2. CASE k \notin lost /\ meta[k].status # "none"
    <2>1. PICK req \in Requests :
             /\ <<k, req>> \in accepted
             /\ Readable(meta[k]) => meta[k].req = req
             /\ \A other \in Requests : <<k, other>> \in accepted => other = req
      BY <1>2, StoredIsAccepted
    <2>2. req # NoReq
      BY NoReqAssumption DEF Requests
    <2>3. Bound(k) = req
      <3>1. CASE Readable(meta[k])
        BY <1>2, <2>1, <3>1 DEF Bound
      <3>2. CASE ~Readable(meta[k])
        <4>1. Bound(k) = CHOOSE r \in Requests : <<k, r>> \in accepted
          BY <1>2, <3>2 DEF Bound
        <4>2. (CHOOSE r \in Requests : <<k, r>> \in accepted) = req
          BY <2>1
        <4>3. QED BY <4>1, <4>2
      <3>3. QED BY <3>1, <3>2
    <2>4. QED BY <1>2, <2>1, <2>2, <2>3
  <1>3. QED BY <1>1, <1>2

(* The same of the state after a step. *)
LEMMA BoundToNext ==
    ASSUME TypeOK', JobStoreInv', NEW k \in Keys
    PROVE  /\ k \in lost' \/ meta'[k].status = "none" => Bound(k)' = NoReq
           /\ k \notin lost' /\ meta'[k].status # "none" =>
                 \A req \in Requests : <<k, req>> \in accepted' => Bound(k)' = req
  <1>1. (/\ k \in lost \/ meta[k].status = "none" => Bound(k) = NoReq
         /\ k \notin lost /\ meta[k].status # "none" =>
               \A req \in Requests : <<k, req>> \in accepted => Bound(k) = req)'
    BY BoundTo, PTL
  <1>2. QED BY <1>1

(* A step that keeps a key's record keeps what it is bound to. *)
LEMMA BoundKept ==
    ASSUME TypeOK, JobStoreInv, TypeOK', JobStoreInv', NEW k \in Keys,
           meta'[k].status = "none" <=> meta[k].status = "none",
           k \in lost' <=> k \in lost, accepted \subseteq accepted'
    PROVE  Bound(k)' = Bound(k)
  <1>2. CASE k \in lost \/ meta[k].status = "none"
    BY <1>2, BoundTo, BoundToNext
  <1>3. CASE k \notin lost /\ meta[k].status # "none"
    <2>1. PICK req \in Requests : <<k, req>> \in accepted
      BY <1>3, StoredIsAccepted
    <2>2. QED BY <1>3, <2>1, BoundTo, BoundToNext
  <1>4. QED BY <1>2, <1>3

(* What the executor sees of the store. *)
ExecutorView == <<[k \in Keys |-> Bound(k)],
                  [k \in Keys |-> IF k \in lost THEN 0 ELSE spawned[k]], lost>>

(* Every step binds a key, runs a bound one, loses some or is a stutter of *)
(* the executor.                                                           *)
LEMMA StepRefines ==
    TypeOK /\ JobStoreInv /\ [Next]_vars => [Executor!Next]_ExecutorView
  <1> SUFFICES ASSUME TypeOK, JobStoreInv, [Next]_vars
               PROVE  [Executor!Next]_ExecutorView
    OBVIOUS
  <1>0. TypeOK' /\ JobStoreInv'
    BY NextType, NextInv
  <1>1. ASSUME \A k \in Keys : Bound(k)' = Bound(k), UNCHANGED <<spawned, lost>>
        PROVE  UNCHANGED ExecutorView
    BY <1>1 DEF ExecutorView
  <1>2. ASSUME NEW c \in Creators, CreatePersist(c)
        PROVE  Executor!Next \/ UNCHANGED ExecutorView
    <2>1. PICK k \in Keys, new \in Requests : k = creator[c].key /\ new = creator[c].req
      BY <1>2, CreatorShape DEF CreatePersist
    <2>2. meta[k].status = "none"
      BY <1>2, <2>1 DEF CreatePersist, JobStoreInv, CreatorInv
    <2>3. /\ meta'[k].status = "running" /\ <<k, new>> \in accepted'
          /\ \A j \in Keys : j # k => meta'[j] = meta[j]
          /\ UNCHANGED <<spawned, lost>> /\ accepted \subseteq accepted'
      BY <1>2, <2>1 DEF CreatePersist, NewMeta, TypeOK
    <2>4. \A j \in Keys : j # k => Bound(j)' = Bound(j)
      BY <1>0, <2>3, BoundKept
    <2>5. Bound(k) = NoReq
      BY <2>2, BoundTo
    <2>6. CASE k \in lost
      <3>1. Bound(k)' = NoReq
        BY <1>0, <2>3, <2>6, BoundToNext
      <3>2. QED BY <1>1, <2>3, <2>4, <2>5, <3>1
    <2>7. CASE k \notin lost
      <3>1. meta'[k].status # "none" /\ k \notin lost'
        BY <2>3, <2>7
      <3>2. Bound(k)' = new
        BY <1>0, <2>3, <3>1, BoundToNext
      <3>3. [j \in Keys |-> Bound(j)'] = [[j \in Keys |-> Bound(j)] EXCEPT ![k] = new]
        BY <2>4, <3>2
      <3>4. Executor!Bind(k, new)
        BY <2>3, <2>5, <3>3 DEF Executor!Bind
      <3>5. QED BY <2>7, <3>4 DEF Executor!Next
    <2>8. QED BY <2>6, <2>7
  <1>3. ASSUME NEW k \in Keys, Spawn(k)
        PROVE  Executor!Next \/ UNCHANGED ExecutorView
    <2>1. /\ meta[k].status # "none" /\ (k \notin lost => spawned[k] = 0)
          /\ meta' = meta /\ lost' = lost /\ accepted' = accepted
          /\ \A j \in Keys : j # k => spawned'[j] = spawned[j]
          /\ spawned[k] = 0 => spawned'[k] = 1
      BY <1>3 DEF Spawn, JobStoreInv, ExecInv, TypeOK, files
    <2>2. \A j \in Keys : Bound(j)' = Bound(j)
      BY <1>0, <2>1, BoundKept
    <2>3. CASE k \in lost
      BY <2>1, <2>2, <2>3 DEF ExecutorView
    <2>4. CASE k \notin lost
      <3>1. Bound(k) # NoReq
        BY <2>1, <2>4, BoundTo
      <3>2. /\ [j \in Keys |-> Bound(j)'] = [j \in Keys |-> Bound(j)]
            /\ [j \in Keys |-> IF j \in lost' THEN 0 ELSE spawned'[j]]
                  = [[j \in Keys |-> IF j \in lost THEN 0 ELSE spawned[j]] EXCEPT ![k] = 1]
        BY <2>1, <2>2, <2>4
      <3>3. Executor!Run(k)
        BY <2>1, <2>4, <3>1, <3>2 DEF Executor!Run
      <3>4. QED BY <2>4, <3>3 DEF Executor!Next
    <2>5. QED BY <2>3, <2>4
  <1>4. CASE Start
    <2>0. PICK some : some = lost' \ lost
      OBVIOUS
    <2>1. /\ lost' = lost \cup some /\ spawned' = spawned /\ accepted' = accepted
          /\ some \subseteq Keys \ lost
      BY <1>4, <1>0, <2>0 DEF Start, TypeOK
    <2>2. ASSUME NEW k \in Keys, k \in some
          PROVE  Bound(k) # NoReq /\ Bound(k)' = NoReq
      <3>1. meta[k].status # "none"
        BY <1>4, <2>0, <2>2, StartFiles
      <3>2. QED BY <1>0, <2>1, <2>2, <3>1, BoundTo, BoundToNext
    <2>3. ASSUME NEW k \in Keys, k \notin some
          PROVE  Bound(k)' = Bound(k)
      <3>1. k \in lost' <=> k \in lost
        BY <2>1, <2>3
      <3>2. CASE k \in lost
        BY <1>0, <3>1, <3>2, BoundTo, BoundToNext
      <3>3. CASE k \notin lost
        <4>1. meta'[k].status = "none" <=> meta[k].status = "none"
          BY <1>4, <3>1, <3>3, StartFiles
             DEF NoMeta, NoRecord, Readable, Statuses, Terminal
        <4>2. QED BY <1>0, <2>1, <3>1, <4>1, BoundKept
      <3>4. QED BY <3>2, <3>3
    <2>4. CASE some = {}
      BY <1>1, <2>1, <2>3, <2>4
    <2>5. CASE some # {}
      <3>1. /\ [k \in Keys |-> Bound(k)']
                  = [k \in Keys |-> IF k \in some THEN NoReq
                                    ELSE [j \in Keys |-> Bound(j)][k]]
            /\ [k \in Keys |-> IF k \in lost' THEN 0 ELSE spawned'[k]]
                  = [k \in Keys |-> IF k \in some THEN 0
                                    ELSE [j \in Keys |-> IF j \in lost THEN 0
                                                         ELSE spawned[j]][k]]
        BY <2>1, <2>2, <2>3
      <3>2. \A k \in some : [j \in Keys |-> Bound(j)][k] # NoReq
        BY <2>1, <2>2
      <3>3. Executor!Lose(some)
        BY <2>1, <2>5, <3>1, <3>2 DEF Executor!Lose
      <3>4. QED BY <2>1, <3>3 DEF Executor!Next
    <2>6. QED BY <2>4, <2>5
  <1>5. CASE /\ \A k \in Keys : meta'[k].status = "none" <=> meta[k].status = "none"
             /\ UNCHANGED <<spawned, lost>> /\ accepted \subseteq accepted'
    BY <1>0, <1>1, <1>5, BoundKept
  <1>6. CASE UNCHANGED vars
    BY <1>5, <1>6 DEF vars
  <1>7. QED BY <1>2, <1>3, <1>4, <1>5, <1>6, RecordStep

(* create_job, run_job, recover_interrupted_jobs: the job store implements *)
(* the idempotent executor, for every instance: whatever its writers do to *)
(* each other's files, a key is bound once and run at most once until      *)
(* recovery loses its record, and that ends the promise for good.          *)
THEOREM Refinement == Spec => ImplementsExecutor
  <1>1. Init => Executor!Init
    <2> SUFFICES ASSUME Init
                 PROVE  Executor!Init
      OBVIOUS
    <2>1. /\ lost = {} /\ spawned = [k \in Keys |-> 0]
          /\ \A k \in Keys : meta[k].status = "none"
      BY DEF Init, NoMeta, NoRecord
    <2>2. \A k \in Keys : Bound(k) = NoReq
      BY <2>1, InitType, InitInv, BoundTo
    <2>3. QED BY <2>1, <2>2 DEF Executor!Init
  <1>2. QED
    BY <1>1, StepRefines, InitType, NextType, InitInv, NextInv, PTL
       DEF Spec, ImplementsExecutor, Executor!Spec, ExecutorView

-----------------------------------------------------------------------------
(* Where a task stands, its record and its processes *)

(* The record of a key, or the text that is about to become it, is final   *)
(* only when the task is at its last write or beyond, and then it is what  *)
(* the task writes; a record that says running belongs to a task that has  *)
(* yet to write it; a script of this runner runs only while its task waits *)
(* for it.                                                                 *)
KeyInPlace(k) ==
    /\ tmp[k].status # "running"
    /\ tmp[k].status = "canceling" => /\ ~is_terminal(meta[k].status)
                                      /\ up => exec[k].pc = "mark"
    /\ (is_terminal(meta[k].status) \/ is_terminal(tmp[k].status))
          => exec[k].pc \in {"none", "persist", "remove"}
    /\ (is_terminal(meta[k].status) /\ is_terminal(tmp[k].status)) => tmp[k] = meta[k]
    /\ exec[k].pc = "persist" =>
          /\ is_terminal(meta[k].status) => meta[k] = FinalRecord(k)
          /\ is_terminal(tmp[k].status) => tmp[k] = FinalRecord(k)
    /\ (up /\ "persist" \notin Faults /\ meta[k].status = "running")
          => /\ exec[k].pc \notin {"none", "remove"}
             /\ exec[k].pc = "persist" => tmp[k].status # "none"
    /\ ("wait" \notin Faults /\ "leader" \in group[k])
          => exec[k].pc \in {"loop", "mark", "terminate"}

ProgressInv == \A k \in Keys : KeyInPlace(k)

(* A step that does nothing to a key. *)
Untouched(k) ==
    /\ up' = up /\ exec'[k] = exec[k] /\ group'[k] = group[k]
    /\ meta'[k] = meta[k] /\ tmp'[k] = tmp[k]

(* A key to which nothing happens stays where it is. *)
LEMMA UntouchedInPlace ==
    ASSUME NEW k \in Keys, KeyInPlace(k), Untouched(k)
    PROVE  KeyInPlace(k)'
  BY DEF KeyInPlace, Untouched, FinalRecord

(* What one step of atomic_write makes of the two files of a key. *)
LEMMA WriteStep ==
    ASSUME TypeOK, NEW w \in Writers, NEW k \in Keys, NEW text, Writes(w, k, text)
    PROVE  /\ \A j \in Keys : j # k => meta'[j] = meta[j] /\ tmp'[j] = tmp[j]
           /\ \/ Open(w, k) /\ meta'[k] = meta[k] /\ tmp'[k] = Empty
              \/ /\ Fill(w, k, text) /\ meta'[k] = meta[k]
                 /\ tmp'[k] \in {tmp[k], text, Torn}
                 /\ tmp'[k] = tmp[k] \/ handle[k][w] = "tmp"
              \/ /\ Fill(w, k, text) /\ tmp'[k] = tmp[k]
                 /\ meta'[k] \in {text, Torn} /\ (meta[k] = text => meta'[k] = text)
                 /\ handle[k][w] = "meta"
              \/ /\ Publish(w, k) /\ tmp[k].status # "none"
                 /\ meta'[k] = tmp[k] /\ tmp'[k] = NoMeta
              \/ /\ Publish(w, k) /\ tmp[k].status = "none"
                 /\ meta'[k] = meta[k] /\ tmp'[k] = tmp[k]
  <1>1. meta \in [Keys -> Metadata] /\ tmp \in [Keys -> Metadata]
    BY DEF TypeOK
  <1>2. CASE Open(w, k)
    BY <1>1, <1>2 DEF Open
  <1>3. CASE Fill(w, k, text)
    BY <1>1, <1>3 DEF Fill, Overlay
  <1>4. CASE Publish(w, k)
    BY <1>1, <1>4 DEF Publish, Renames
  <1>5. QED BY <1>2, <1>3, <1>4 DEF Writes

(* The kinds of text do not overlap. *)
LEMMA Kinds ==
    /\ Empty.status = "empty" /\ Torn.status = "torn" /\ NoMeta.status = "none"
    /\ \A s \in {"none", "empty", "torn", "running", "cancel_requested", "canceling"} :
          ~is_terminal(s)
  BY DEF Empty, Torn, NoMeta, NoRecord, is_terminal, Terminal

(* A late cancellation, by a handler or by the shutdown, leaves the job    *)
(* where it is, whichever of its files it reaches.                         *)
LEMMA MarkedInPlace ==
    ASSUME TypeOK, JobStoreInv, ProgressInv, up, NEW w \in Writers, NEW k \in Keys,
           NEW text, text.status = "cancel_requested", Writes(w, k, text),
           UNCHANGED <<up, exec, group>>
    PROVE  ProgressInv'
  <1>1. ASSUME NEW j \in Keys, j # k
        PROVE  KeyInPlace(j)'
    BY <1>1, WriteStep, UntouchedInPlace DEF ProgressInv, Untouched
  <1>2. KeyInPlace(k)
    BY DEF ProgressInv
  <1>3. FinalRecord(k)' = FinalRecord(k)
    BY DEF FinalRecord
  <1>4. exec[k].pc = "persist" => FinalRecord(k).status = exec[k].out.status
    BY DEF FinalRecord
  <1>5. /\ text.status = "cancel_requested"
        /\ exec' = exec /\ group' = group /\ up' = up
    OBVIOUS
  <1>6. KeyInPlace(k)'
    <2>1. CASE meta'[k] = meta[k] /\ tmp'[k] \in {Empty, Torn, text}
      BY <1>2, <1>3, <1>5, <2>1, Kinds DEF KeyInPlace
    <2>2. CASE meta'[k] = meta[k] /\ tmp'[k] = tmp[k]
      BY <1>2, <2>2, UntouchedInPlace DEF Untouched
    <2>3. CASE tmp'[k] = tmp[k] /\ meta'[k] \in {text, Torn}
      BY <1>2, <1>3, <1>5, <2>3, Kinds DEF KeyInPlace
    <2>4. CASE meta'[k] = tmp[k] /\ tmp'[k] = NoMeta
      BY <1>2, <1>3, <1>5, <2>4, Kinds DEF KeyInPlace
    <2>5. QED BY <2>1, <2>2, <2>3, <2>4, WriteStep
  <1>7. QED BY <1>1, <1>6 DEF ProgressInv

(* A job that is created is registered before anything runs. *)
LEMMA CreateInPlace ==
    ASSUME TypeOK, JobStoreInv, ProgressInv, NEW c \in Creators,
           \/ \E k \in Keys, req \in Requests : CreateCheck(c, k, req)
           \/ CreateInvalid(c) \/ CreateStep(c) \/ CreateSetupFails(c)
    PROVE  ProgressInv'
  <1>1. CASE UNCHANGED <<up, files, exec, group>>
    BY <1>1, UntouchedInPlace DEF ProgressInv, Untouched, files
  <1>2. CASE CreatePersist(c)
    <2>1. PICK j \in Keys : j = creator[c].key
      BY <1>2, CreatorShape DEF CreatePersist
    <2>2. meta'[j].status = "running" /\ exec'[j].pc = "start"
      BY <1>2, <2>1 DEF CreatePersist, NewMeta, TypeOK
    <2>3. "wait" \notin Faults => "leader" \notin group[j]
      <3>1. exec[j].pc = "none"
        BY <1>2, <2>1 DEF CreatePersist, JobStoreInv, CreatorInv, ExecInv
      <3>2. QED BY <2>1, <3>1 DEF ProgressInv, KeyInPlace
    <2>4. tmp'[j].status = "none"
      BY <1>2, <2>1 DEF CreatePersist, JobStoreInv, CreatorInv, RecordInv
    <2>5. KeyInPlace(j)'
      <3>1. group' = group
        BY <1>2 DEF CreatePersist
      <3>2. QED BY <2>2, <2>3, <2>4, <3>1, Kinds DEF KeyInPlace
    <2>6. ASSUME NEW k \in Keys, k # j
          PROVE  Untouched(k)
      BY <1>2, <2>1, <2>6 DEF CreatePersist, Untouched, TypeOK
    <2>7. QED BY <2>5, <2>6, UntouchedInPlace DEF ProgressInv
  <1>3. QED
    BY <1>1, <1>2 DEF CreateCheck, CreateInvalid, CreateStep, CreateExisting,
       CreateInsert, CreateConflict, CreateDir, CreateSetupFails

(* Cancelling changes no more than a status. *)
LEMMA CancelInPlace ==
    ASSUME TypeOK, JobStoreInv, ProgressInv, NEW x \in Cancelers,
           (\E k \in Keys : CancelLookup(x, k)) \/ CancelStep(x)
    PROVE  ProgressInv'
  <1>1. CASE UNCHANGED <<up, files, exec, group>>
    BY <1>1, UntouchedInPlace DEF ProgressInv, Untouched, files
  <1>2. CASE CancelOpen(x) \/ CancelFill(x) \/ CancelPublish(x)
    <2>1. PICK text : text = [canceler[x].seen EXCEPT !.status = "cancel_requested"]
      OBVIOUS
    <2>2. /\ canceler[x].pc = "read" /\ Writes(x, canceler[x].key, text)
          /\ UNCHANGED <<up, exec, group>> /\ x \in Writers
      BY <1>2, <2>1 DEF CancelOpen, CancelFill, CancelPublish, Writes, Writers
    <2>3. canceler[x].key \in Keys /\ canceler[x].seen \in Metadata
      BY <2>2, CancelerShape
    <2>4. up /\ text.status = "cancel_requested"
      BY <2>1, <2>2, <2>3 DEF JobStoreInv, DownInv, Metadata
    <2>5. QED BY <2>2, <2>3, <2>4, MarkedInPlace
  <1>3. QED BY <1>1, <1>2 DEF CancelLookup, CancelStep, CancelRead, CancelSend

(* A task writes to its own files and moves on. *)
LEMMA ExecInPlace ==
    ASSUME TypeOK, JobStoreInv, ProgressInv, NEW k \in Keys,
           ExecStep(k) \/ ExecFault(k) \/ ProcessExit(k)
    PROVE  ProgressInv'
  <1>0. KeyInPlace(k)
    BY DEF ProgressInv
  <1>00. /\ up' = up
         /\ \A j \in Keys : j # k => exec'[j] = exec[j] /\ group'[j] = group[j]
    BY DEF ExecStep, ExecFault, ProcessExit, Spawn, SpawnError, TimedOut, MarkOpen,
       MarkFill, MarkPublish, FinishOpen, FinishFill, FinishPublish,
       ObserveCancel, LogLimit, Terminate, Reap, WaitError, CaptureDone,
       CaptureError, FinishPersistFails, FinishRemove, ExecTo, TypeOK
  (* The writes of run_job, with the text at hand. *)
  <1>01. ASSUME NEW text, Writes("run_job", k, text)
         PROVE  \A j \in Keys : j # k => Untouched(j)
    BY <1>00, <1>01, WriteStep DEF Untouched, Writers
  <1>02. ASSUME UNCHANGED files
         PROVE  \A j \in Keys : j # k => Untouched(j)
    BY <1>00, <1>02 DEF Untouched, files
  <1>03. ASSUME \A j \in Keys : j # k => Untouched(j), KeyInPlace(k)'
         PROVE  ProgressInv'
    BY <1>03, UntouchedInPlace DEF ProgressInv
  <1>04. exec[k].pc # "none" => up
    BY DEF JobStoreInv, DownInv, NoExec
  (* A step that only moves the task on, before its last write. *)
  <1>05. ASSUME exec[k].pc \notin {"none", "mark", "persist", "remove"},
                exec'[k].pc \notin {"none", "persist", "remove"}, UNCHANGED files,
                ("wait" \notin Faults /\ "leader" \in group'[k])
                   => exec'[k].pc \in {"loop", "mark", "terminate"}
         PROVE  ProgressInv'
    <2>1. KeyInPlace(k)'
      BY <1>0, <1>00, <1>04, <1>05 DEF KeyInPlace, files
    <2>2. QED BY <1>02, <1>03, <1>05, <2>1
  <1>1. CASE Spawn(k)
    BY <1>1, <1>05 DEF Spawn, TypeOK
  <1>2. CASE SpawnError(k) \/ TimedOut(k) \/ LogLimit(k) \/ Reap(k) \/ WaitError(k)
    BY <1>0, <1>2, <1>05 DEF SpawnError, TimedOut, LogLimit, Reap, WaitError, ExecTo,
       TypeOK, KeyInPlace
  <1>3. CASE ObserveCancel(k)
    BY <1>0, <1>3, <1>05 DEF ObserveCancel, ExecTo, TypeOK, KeyInPlace
  <1>4. CASE Terminate(k)
    BY <1>0, <1>4, <1>05 DEF Terminate, ExecTo, TypeOK, KeyInPlace
  <1>5. CASE CaptureDone(k) \/ CaptureError(k)
    BY <1>0, <1>5, <1>05 DEF CaptureDone, CaptureError, ExecTo, TypeOK, KeyInPlace
  <1>6. CASE MarkOpen(k) \/ MarkFill(k) \/ MarkPublish(k)
    <2>1. PICK text : text = [status |-> "canceling", req |-> exec[k].req,
                              category |-> "none"]
      OBVIOUS
    <2>2. /\ exec[k].pc = "mark" /\ group' = group
          /\ Writes("run_job", k, text)
          /\ text.status = "canceling"
      BY <1>6, <2>1 DEF MarkOpen, MarkFill, MarkPublish, Writes
    <2>3. /\ exec'[k].pc \in {"mark", "terminate"}
          /\ exec'[k].pc = "terminate" => Publish("run_job", k)
      BY <1>6 DEF MarkOpen, MarkFill, MarkPublish, ExecTo, TypeOK
    <2>4. ~is_terminal(meta[k].status) /\ ~is_terminal(tmp[k].status)
      BY <1>0, <2>2 DEF KeyInPlace
    <2>5. ("wait" \notin Faults /\ "leader" \in group'[k])
             => exec'[k].pc \in {"loop", "mark", "terminate"}
      BY <2>3
    <2>6. ASSUME Publish("run_job", k) PROVE KeyInPlace(k)'
      <3>1. \/ meta'[k] = tmp[k] /\ tmp'[k] = NoMeta
            \/ tmp[k].status = "none" /\ meta'[k] = meta[k] /\ tmp'[k] = tmp[k]
        BY <2>6 DEF Publish, Renames, TypeOK
      <3>2. QED BY <1>0, <1>00, <2>2, <2>3, <2>4, <2>5, <3>1, Kinds DEF KeyInPlace
    <2>7. ASSUME exec'[k].pc = "mark", meta'[k] = meta[k],
                 tmp'[k] \in {tmp[k], text, Torn, Empty}
          PROVE  KeyInPlace(k)'
      BY <1>0, <1>00, <2>2, <2>4, <2>5, <2>7, Kinds DEF KeyInPlace
    <2>8. ASSUME exec'[k].pc = "mark", tmp'[k] = tmp[k], meta'[k] \in {text, Torn}
          PROVE  KeyInPlace(k)'
      BY <1>0, <1>00, <2>2, <2>4, <2>5, <2>8, Kinds DEF KeyInPlace
    <2>9. KeyInPlace(k)'
      <3>1. \/ meta'[k] = meta[k] /\ tmp'[k] \in {tmp[k], text, Torn, Empty}
            \/ tmp'[k] = tmp[k] /\ meta'[k] \in {text, Torn}
            \/ Publish("run_job", k)
        BY <2>2, WriteStep DEF Writers
      <3>2. QED BY <2>3, <2>6, <2>7, <2>8, <3>1
    <2>10. QED BY <1>01, <1>03, <2>2, <2>9
  <1>7. CASE FinishOpen(k)
    <2>1. /\ exec[k].pc = "finish" /\ exec'[k].pc = "persist" /\ group' = group
          /\ Writes("run_job", k, Empty)
          /\ meta'[k] = meta[k] /\ tmp'[k] = Empty
      BY <1>7 DEF FinishOpen, Open, ExecTo, TypeOK, Writes
    <2>2. KeyInPlace(k)'
      BY <1>0, <2>1, Kinds DEF KeyInPlace
    <2>3. QED BY <1>01, <1>03, <2>1, <2>2
  <1>8. CASE FinishFill(k) \/ FinishPublish(k)
    <2>1. PICK text : text = FinalRecord(k)
      OBVIOUS
    <2>2. /\ exec[k].pc = "persist" /\ group' = group /\ up
          /\ Writes("run_job", k, text)
          /\ is_terminal(text.status) /\ text.status # "running"
      BY <1>8, <1>04, <2>1, TaskTexts
         DEF FinishFill, FinishPublish, Writes, FinalRecord, Outcomes, is_terminal, Terminal
    <2>3. tmp[k].status # "canceling" /\ ~("wait" \notin Faults /\ "leader" \in group[k])
      BY <1>0, <2>2 DEF KeyInPlace
    <2>4. CASE FinishFill(k)
      <3>1. /\ exec'[k].pc = "persist" /\ FinalRecord(k)' = FinalRecord(k)
            /\ Fill("run_job", k, text)
        BY <2>1, <2>4 DEF FinishFill, ExecTo, FinalRecord, TypeOK
      <3>2. \/ meta'[k] = meta[k] /\ tmp'[k] \in {tmp[k], text, Torn}
            \/ tmp'[k] = tmp[k] /\ meta'[k] \in {text, Torn}
        BY <2>2, <3>1, WriteStep DEF Open, Fill, Publish, Writers
      <3>3. QED
        <4>1. CASE meta'[k] = meta[k] /\ tmp'[k] \in {tmp[k], text, Torn}
          <5>1. KeyInPlace(k)'
            BY <1>0, <2>1, <2>2, <2>3, <3>1, <4>1, Kinds DEF KeyInPlace
          <5>2. QED BY <1>01, <1>03, <2>2, <5>1
        <4>2. CASE tmp'[k] = tmp[k] /\ meta'[k] \in {text, Torn}
          <5>1. KeyInPlace(k)'
            BY <1>0, <2>1, <2>2, <2>3, <3>1, <4>2, Kinds DEF KeyInPlace
          <5>2. QED BY <1>01, <1>03, <2>2, <5>1
        <4>3. QED BY <3>2, <4>1, <4>2
    <2>5. CASE FinishPublish(k)
      <3>1. exec'[k].pc = "remove" /\ Publish("run_job", k)
        BY <2>5 DEF FinishPublish, ExecTo, TypeOK
      <3>2. \/ meta'[k] = tmp[k] /\ tmp'[k] = NoMeta
            \/ tmp[k].status = "none" /\ meta'[k] = meta[k] /\ tmp'[k] = tmp[k]
        BY <2>2, <3>1, WriteStep DEF Open, Fill, Publish, Writers
      <3>3. KeyInPlace(k)'
        BY <1>0, <1>00, <2>2, <2>3, <3>1, <3>2, Kinds DEF KeyInPlace
      <3>4. QED BY <1>01, <1>03, <2>2, <3>3
    <2>6. QED BY <1>8, <2>4, <2>5
  <1>9. CASE FinishPersistFails(k)
    <2>1. /\ exec[k].pc \in {"finish", "persist"} /\ exec'[k].pc = "remove"
          /\ UNCHANGED <<meta, tmp, group>> /\ up /\ "persist" \in Faults
      BY <1>9, <1>04 DEF FinishPersistFails, ExecTo, TypeOK
    <2>2. KeyInPlace(k)'
      BY <1>0, <2>1 DEF KeyInPlace
    <2>3. \A j \in Keys : j # k => Untouched(j)
      BY <1>00, <2>1 DEF Untouched
    <2>4. QED BY <1>03, <2>2, <2>3
  <1>10. CASE FinishRemove(k)
    <2>1. /\ exec[k].pc = "remove" /\ exec'[k].pc = "none" /\ up
          /\ UNCHANGED <<files, group>>
      BY <1>10, <1>04 DEF FinishRemove, TypeOK, NoExec
    <2>2. KeyInPlace(k)'
      BY <1>0, <1>00, <2>1 DEF KeyInPlace, files
    <2>3. QED BY <1>02, <1>03, <2>1, <2>2
  <1>11. CASE ProcessExit(k)
    <2>1. group'[k] \subseteq group[k] /\ exec' = exec /\ UNCHANGED files
      BY <1>11 DEF ProcessExit, TypeOK
    <2>2. KeyInPlace(k)'
      BY <1>0, <1>00, <2>1 DEF KeyInPlace, FinalRecord, files
    <2>3. QED BY <1>02, <1>03, <2>1, <2>2
  <1>12. QED
    BY <1>1, <1>2, <1>3, <1>4, <1>5, <1>6, <1>7, <1>8, <1>9, <1>10, <1>11
       DEF ExecStep, ExecFault

(* Shutdown, crash and start leave no job running outside the registry. *)
LEMMA StopInPlace ==
    ASSUME TypeOK, JobStoreInv, ProgressInv, StopStep \/ Crash \/ Start
    PROVE  ProgressInv'
  <1>1. CASE UNCHANGED <<up, files, exec, group>>
    BY <1>1, UntouchedInPlace DEF ProgressInv, Untouched, files
  <1>2. CASE \/ ShutdownOpen \/ ShutdownFill
             \/ ShutdownSignal /\ MayRequestCancel(shutdown.seen)
    <2>1. PICK text : text = [shutdown.seen EXCEPT !.status = "cancel_requested"]
      OBVIOUS
    <2>2. /\ shutdown.pc = "read" /\ Writes("begin_shutdown", shutdown.key, text)
          /\ UNCHANGED <<up, exec, group>> /\ up
      BY <1>2, <2>1 DEF ShutdownOpen, ShutdownFill, ShutdownSignal, ShutdownStep, Writes
    <2>3. shutdown.key \in Keys /\ shutdown.seen \in Metadata
      BY <2>2, ShutdownShape
    <2>4. text.status = "cancel_requested"
      BY <2>1, <2>3 DEF Metadata
    <2>5. QED BY <2>2, <2>3, <2>4, MarkedInPlace DEF Writers
  (* The tasks are gone and their scripts are orphans. *)
  <1>3. CASE ProcessEnds
    <2>1. ASSUME NEW k \in Keys
          PROVE  KeyInPlace(k)'
      <3>1. /\ ~up' /\ exec'[k].pc = "none" /\ "leader" \notin group'[k]
            /\ meta'[k] = meta[k] /\ tmp'[k] = tmp[k]
        BY <1>3 DEF ProcessEnds, NoExec, Orphaned
      <3>2. KeyInPlace(k)
        BY DEF ProgressInv
      <3>3. QED BY <3>1, <3>2 DEF KeyInPlace
    <2>2. QED BY <2>1 DEF ProgressInv
  (* Recovery leaves no record that says running. *)
  <1>4. CASE Start
    <2>1. ASSUME NEW k \in Keys
          PROVE  KeyInPlace(k)'
      <3>1. exec'[k].pc = "none" /\ group' = group /\ exec' = exec /\ exec[k].pc = "none"
        BY <1>4 DEF Start, JobStoreInv, DownInv, NoExec
      <3>2. KeyInPlace(k)
        BY DEF ProgressInv
      <3>3. meta'[k].status # "running"
        BY <1>4, StartFiles, Kinds
      <3>4. CASE is_terminal(meta[k].status)
        <4>1. meta'[k] = meta[k] /\ tmp'[k] \in {tmp[k], NoMeta}
          BY <1>4, <3>4, StartFiles
        <4>2. QED BY <3>1, <3>2, <3>3, <3>4, <4>1, Kinds DEF KeyInPlace
      <3>5. CASE ~is_terminal(meta[k].status)
        <4>1. tmp'[k] = NoMeta
          BY <1>4, <3>5, StartFiles
        <4>2. QED BY <3>1, <3>2, <3>3, <4>1, Kinds DEF KeyInPlace
      <3>6. QED BY <3>4, <3>5
    <2>2. QED BY <2>1 DEF ProgressInv
  <1>5. CASE StopStep
    BY <1>1, <1>2, <1>3, <1>5 DEF StopStep, Exit, BeginShutdown, ShutdownLock,
       ShutdownRead, ShutdownSignal, ShutdownUnlock, ShutdownDrained, ShutdownStep
  <1>6. QED BY <1>3, <1>4, <1>5 DEF Crash

(* Every step keeps the jobs in place. *)
LEMMA NextInPlace ==
    TypeOK /\ JobStoreInv /\ ProgressInv /\ [Next]_vars => ProgressInv'
  <1> SUFFICES ASSUME TypeOK, JobStoreInv, ProgressInv, [Next]_vars
               PROVE  ProgressInv'
    OBVIOUS
  <1>1. CASE Next
    BY <1>1, CreateInPlace, CancelInPlace, ExecInPlace, StopInPlace DEF Next
  <1>2. CASE UNCHANGED vars
    BY <1>2 DEF vars, ProgressInv, KeyInPlace, FinalRecord
  <1>3. QED BY <1>1, <1>2

(* There is no job at first. *)
LEMMA InitInPlace == Init => ProgressInv
  <1>1. ASSUME Init, NEW k \in Keys
        PROVE  KeyInPlace(k)
    <2>1. /\ exec[k].pc = "none" /\ group[k] = {}
          /\ meta[k].status = "none" /\ tmp[k].status = "none"
      BY <1>1 DEF Init, NoMeta, NoRecord, NoExec
    <2>2. QED BY <2>1, Kinds DEF KeyInPlace
  <1>2. QED BY <1>1 DEF ProgressInv

(* finish_job, transition_metadata_status, begin_shutdown: every job keeps *)
(* its task, its record, the temporary file behind it and its processes in *)
(* step, while several writers share the file.                             *)
THEOREM InPlace == Spec => [](TypeOK /\ JobStoreInv /\ ProgressInv)
  <1>1. QED
    BY InitType, NextType, InitInv, NextInv, InitInPlace, NextInPlace, PTL DEF Spec

(* create_job, finish_job and execute_process: while the runner serves, a  *)
(* record that says running and a script of this runner both belong to a   *)
(* registered job, whatever the number of jobs, crashes and cancellations, *)
(* and also when finish_job has lost its temporary file to another writer. *)
THEOREM RegistryComplete == Spec => []RegistryIsComplete
  <1>1. TypeOK /\ JobStoreInv /\ ProgressInv => RegistryIsComplete
    BY DEF JobStoreInv, ExecInv, ProgressInv, KeyInPlace, RegistryIsComplete,
       RunningIsRegistered, LeaderIsRegistered
  <1>2. QED BY <1>1, InPlace, PTL

(* What an atomic_write does to a finished record: the text of a late      *)
(* cancellation, or, beside another write, one that does not parse.        *)
LEMMA FinishedRecordWritten ==
    ASSUME TypeOK, JobStoreInv, ProgressInv, NEW w \in Writers, NEW k \in Keys,
           NEW j \in Keys, NEW text, Writes(w, j, text), up,
           \/ text.status = "cancel_requested"
           \/ text.status = "canceling" /\ exec[j].pc = "mark"
           \/ text = FinalRecord(j) /\ exec[j].pc = "persist"
           \/ Open(w, j),
           is_terminal(meta[k].status), meta'[k] # meta[k]
    PROVE  \/ meta'[k].status = "cancel_requested"
           \/ meta'[k].status \in {"empty", "torn"} /\ k \in overlapped
  <1>1. k = j
    BY WriteStep
  <1>2. KeyInPlace(k) /\ exec[k].pc # "mark"
    BY DEF ProgressInv, KeyInPlace
  <1>3. ~Open(w, k)
    BY DEF Open
  <1>4. CASE Fill(w, k, text) /\ handle[k][w] = "meta" /\ meta'[k] \in {text, Torn}
                /\ (meta[k] = text => meta'[k] = text)
    <2>1. k \in overlapped
      BY <1>4 DEF JobStoreInv, AloneInv
    <2>2. text.status = "cancel_requested" \/ text = meta[k]
      BY <1>1, <1>2, <1>3 DEF KeyInPlace
    <2>3. QED BY <1>4, <2>1, <2>2, Kinds
  <1>5. CASE Publish(w, k) /\ tmp[k].status # "none" /\ meta'[k] = tmp[k]
    <2>1. tmp[k] \in Metadata /\ handle[k][w] = "shut"
      BY <1>5 DEF TypeOK, Publish
    <2>2. \/ tmp[k].status \in {"running", "cancel_requested", "canceling", "empty", "torn"}
          \/ is_terminal(tmp[k].status)
      BY <1>5, <2>1 DEF Metadata, Statuses, is_terminal
    <2>3. tmp[k].status \in {"empty", "torn"} => k \in overlapped
      BY <2>1 DEF JobStoreInv, AloneInv, Readable, Statuses, Terminal
    <2>4. QED BY <1>2, <1>5, <2>2, <2>3 DEF KeyInPlace
  <1>6. QED BY <1>1, <1>3, <1>4, <1>5, WriteStep

(* A finished record is overwritten only by a late cancellation. *)
LEMMA TerminalStep ==
    ASSUME TypeOK, JobStoreInv, ProgressInv, Next,
           NEW k \in Keys, is_terminal(meta[k].status), meta'[k] # meta[k]
    PROVE  \/ meta'[k].status = "cancel_requested"
           \/ meta'[k].status \in {"empty", "torn"} /\ k \in overlapped
  <1> DEFINE Allowed == \/ meta'[k].status = "cancel_requested"
                        \/ meta'[k].status \in {"empty", "torn"} /\ k \in overlapped
  <1>0. meta[k].status # "none"
    BY Kinds
  <1>1. ASSUME NEW c \in Creators, CreatePersist(c)
        PROVE  FALSE
    <2>1. creator[c].key \in Keys /\ meta[creator[c].key].status = "none"
      BY <1>1, CreatorShape DEF CreatePersist, JobStoreInv, CreatorInv
    <2>2. QED BY <1>0, <1>1, <2>1 DEF CreatePersist, TypeOK
  <1>2. ASSUME NEW x \in Cancelers, CancelOpen(x) \/ CancelFill(x) \/ CancelPublish(x)
        PROVE  Allowed
    <2>1. PICK text : text = [canceler[x].seen EXCEPT !.status = "cancel_requested"]
      OBVIOUS
    <2>2. /\ canceler[x].pc = "read" /\ Writes(x, canceler[x].key, text)
          /\ x \in Writers
      BY <1>2, <2>1 DEF CancelOpen, CancelFill, CancelPublish, Writes, Writers
    <2>3. canceler[x].key \in Keys /\ canceler[x].seen \in Metadata
      BY <2>2, CancelerShape
    <2>4. up /\ text.status = "cancel_requested"
      BY <2>1, <2>2, <2>3 DEF JobStoreInv, DownInv, Idle, Metadata
    <2>5. QED BY <2>2, <2>3, <2>4, FinishedRecordWritten
  <1>3. ASSUME NEW j \in Keys,
               \/ MarkOpen(j) \/ MarkFill(j) \/ MarkPublish(j)
               \/ FinishOpen(j) \/ FinishFill(j) \/ FinishPublish(j)
        PROVE  Allowed
    <2>1. PICK text : text = IF exec[j].pc = "mark"
                             THEN [status |-> "canceling", req |-> exec[j].req,
                                   category |-> "none"]
                             ELSE FinalRecord(j)
      OBVIOUS
    <2>2. /\ exec[j].pc \in {"mark", "finish", "persist"} /\ "run_job" \in Writers
          /\ Writes("run_job", j, text)
          /\ exec[j].pc = "finish" => Open("run_job", j)
      BY <1>3, <2>1 DEF MarkOpen, MarkFill, MarkPublish, FinishOpen, FinishFill,
         FinishPublish, Writes, Writers
    <2>3. up /\ (exec[j].pc = "mark" => text.status = "canceling")
      BY <2>1, <2>2 DEF JobStoreInv, DownInv, NoExec
    <2>4. QED BY <2>1, <2>2, <2>3, FinishedRecordWritten
  <1>4. CASE \/ ShutdownOpen \/ ShutdownFill
             \/ ShutdownSignal /\ MayRequestCancel(shutdown.seen)
    <2>1. PICK text : text = [shutdown.seen EXCEPT !.status = "cancel_requested"]
      OBVIOUS
    <2>2. /\ shutdown.pc = "read" /\ Writes("begin_shutdown", shutdown.key, text)
          /\ up /\ "begin_shutdown" \in Writers
      BY <1>4, <2>1 DEF ShutdownOpen, ShutdownFill, ShutdownSignal, ShutdownStep,
         Writes, Writers
    <2>3. shutdown.key \in Keys /\ shutdown.seen \in Metadata
      BY <2>2, ShutdownShape
    <2>4. text.status = "cancel_requested"
      BY <2>1, <2>3 DEF Metadata
    <2>5. QED BY <2>2, <2>3, <2>4, FinishedRecordWritten
  <1>5. CASE Start
    BY <1>5, StartFiles
  <1>6. ASSUME NEW c \in Creators,
               \/ \E j \in Keys, req \in Requests : CreateCheck(c, j, req)
               \/ CreateInvalid(c) \/ CreateStep(c) \/ CreateSetupFails(c)
        PROVE  CreatePersist(c)
    BY <1>6 DEF CreateCheck, CreateInvalid, CreateStep, CreateExisting,
       CreateInsert, CreateConflict, CreateDir, CreateSetupFails, files
  <1>7. ASSUME NEW x \in Cancelers, (\E j \in Keys : CancelLookup(x, j)) \/ CancelStep(x)
        PROVE  CancelOpen(x) \/ CancelFill(x) \/ CancelPublish(x)
    BY <1>7 DEF CancelLookup, CancelStep, CancelRead, CancelSend, files
  <1>8. ASSUME NEW j \in Keys, ExecStep(j) \/ ExecFault(j) \/ ProcessExit(j)
        PROVE  \/ MarkOpen(j) \/ MarkFill(j) \/ MarkPublish(j)
               \/ FinishOpen(j) \/ FinishFill(j) \/ FinishPublish(j)
    BY <1>8 DEF ExecStep, ExecFault, Spawn, SpawnError, TimedOut, ObserveCancel,
       LogLimit, Terminate, Reap, WaitError, CaptureDone, CaptureError,
       FinishPersistFails, FinishRemove, ProcessExit, files
  <1>9. CASE StopStep \/ Crash
    BY <1>4, <1>9 DEF StopStep, BeginShutdown, ShutdownLock, ShutdownRead,
       ShutdownSignal, ShutdownUnlock, ShutdownDrained, Exit, Crash, ProcessEnds, files
  <1>10. QED
    BY <1>1, <1>2, <1>3, <1>5, <1>6, <1>7, <1>8, <1>9 DEF Next

(* finish_job, transition_metadata_status, recover_interrupted_jobs: what  *)
(* happens to a terminal record is a late cancellation or, where two       *)
(* writes overlapped, a text that does not parse, and nothing else, by any *)
(* number of handlers in any order.                                        *)
THEOREM TerminalStays == Spec => TerminalChange
  <1>1. TypeOK /\ JobStoreInv /\ ProgressInv /\ [Next]_vars
           => [\A k \in Keys : (is_terminal(meta[k].status) /\ meta'[k] # meta[k])
                  => \/ meta'[k].status = "cancel_requested"
                     \/ meta'[k].status \in {"empty", "torn"} /\ k \in overlapped]_vars
    BY TerminalStep
  <1>2. QED BY <1>1, InPlace, PTL DEF Spec, TerminalChange
=============================================================================
