--------------------------- MODULE ArtifactsProofs ---------------------------
(***************************************************************************)
(* Proofs about the way of an artifact, for every number of outputs,       *)
(* retries, expiries and faults.                                           *)
(***************************************************************************)
EXTENDS Artifacts, TLAPS

-----------------------------------------------------------------------------
(* Values and ids *)

(* A file that is missing or torn is told from one with bytes. *)
LEMMA ByteValues ==
    /\ None \notin Bytes /\ Torn \notin Bytes \cup {None}
    /\ Whole \in Bytes /\ Cut \in Bytes
    /\ Rejected # None /\ Gone # None
  <1>1. ASSUME NEW b \in Bytes
        PROVE  b[1] \in {"source", "output"}
    BY DEF Bytes, Whole, Cut, OutputBytes
  <1>2. None[1] = "none" /\ Torn[1] = "torn" /\ Rejected[1] = "rejected" /\ Gone[1] = "gone"
    BY DEF None, Torn, Rejected, Gone
  <1>3. QED BY <1>1, <1>2 DEF Bytes

(* Identifiers of artifacts are positive numbers. *)
LEMMA IdNumbers == Ids \subseteq Nat /\ 0 \notin Ids
  BY ArtifactsAssumption DEF Ids

-----------------------------------------------------------------------------
(* The runner's store *)

StoreTypes ==
    /\ up \in BOOLEAN
    /\ disk \in [Ids -> [dir : BOOLEAN, tmp : SUBSET Files, blob : Bytes \cup {None},
                         metadata : Bytes \cup {None}]]
    /\ alloc \in {0} \cup Ids /\ expired \subseteq Ids /\ residue \subseteq Ids
    /\ writer \in [{"job", "upload"} -> [at : {"idle", "done", "failed"} \cup Files,
                                         id : {0} \cup Ids, bytes : Bytes \cup {None}]]
    /\ kept \in [Ids -> Bytes \cup {None}]
    /\ cleaner \in [todo : SUBSET Ids, removing : {0} \cup Ids, busy : BOOLEAN]

(* A directory that recovery or the expiry loop need not look after.       *)
Accounted(i) ==
    (up /\ disk[i].dir /\ ~Complete(i)) =>
        \/ i \in residue \/ cleaner.removing = i
        \/ \E w \in {"job", "upload"} : writer[w].id = i /\ writer[w].at \in Files

(* A directory holds what was returned for it and nothing else, all of it  *)
(* until it expires.                                                       *)
Keeps(i) ==
    /\ disk[i].metadata \in {None, kept[i]}
    /\ kept[i] # None => disk[i].blob \in {None, kept[i]}
    /\ (kept[i] # None /\ i \notin expired) => /\ disk[i].metadata = kept[i]
                                               /\ disk[i].blob = kept[i]

DirInv(i) ==
    /\ Keeps(i)
    /\ Accounted(i)
    /\ ~disk[i].dir => disk[i] = NoDir
    /\ i \in expired => kept[i] # None
    /\ i > alloc => disk[i] = NoDir /\ kept[i] = None

WriterInv(w) ==
    /\ writer[w].at # "idle" => up
    /\ writer[w].at \in Files => /\ writer[w].id \in Ids /\ writer[w].id <= alloc
                                 /\ writer[w].bytes \in Bytes
                                 /\ kept[writer[w].id] = None
    /\ writer[w].at = "metadata" => disk[writer[w].id].blob = writer[w].bytes
    /\ writer[w].at = "done" => writer[w].id \in Ids /\ kept[writer[w].id] # None

TwoWriters ==
    \A w, v \in {"job", "upload"} :
        (w # v /\ writer[w].at \in Files /\ writer[v].at \in Files)
            => writer[w].id # writer[v].id

CleanerInv ==
    /\ cleaner.removing # 0 => cleaner.removing \in expired /\ cleaner.removing \in cleaner.todo
    /\ ~cleaner.busy => cleaner = Idle
    /\ ~up => cleaner = Idle

StoreInv ==
    /\ StoreTypes
    /\ \A i \in Ids : DirInv(i)
    /\ \A w \in {"job", "upload"} : WriterInv(w)
    /\ TwoWriters
    /\ CleanerInv
-----------------------------------------------------------------------------
(* The server and the first job *)

ServerTypes ==
    /\ script \in [attempt : Attempts, at : {"none", "running", "failed", "success"},
                   out : [Names -> {0} \cup Ids]]
    /\ pc \in {"idle", "git", "upload", "create", "poll", "download", "mirror"}
    /\ held \in Held /\ todo \subseteq Names
    /\ persisted \in [Names -> [artifact : Nat, copy : Nat]]
    /\ archive \in {None, Whole, Cut}
    /\ server_artifacts \in [{Source} \cup Names -> Held]
    /\ copies \in [{Source} \cup Names -> Nat]
    /\ job \in [status : {"pending", "running", "success", "failed"}, attempt : Attempts,
                outputs : [Names -> [artifact : Nat, copy : Nat]]]

Stored(i) == i \in Ids /\ kept[i] # None

(* While the loop works for the first job, its row waits for it.           *)
Phase ==
    /\ pc \in {"git", "upload", "create"} => job.status = "pending"
    /\ pc \in {"poll", "download", "mirror"} => job.status = "running" /\ script.at = "success"

ScriptInv ==
    \A n \in Names : /\ script.out[n] # 0 => Stored(script.out[n])
                     /\ script.at = "success" => script.out[n] # 0

HeldInv ==
    /\ pc = "create" => held.id \in Ids
    /\ (pc = "download" /\ held.id # 0) => Stored(held.id)
    /\ pc = "mirror" => Stored(held.id) /\ held.bytes = kept[held.id]

(* The row of an output holds the bytes of the artifact noted with it.     *)
Mirrors(row, n) ==
    /\ Stored(row.artifact)
    /\ server_artifacts[n].bytes = kept[row.artifact]

PersistedInv ==
    pc \in {"poll", "download", "mirror"} =>
        \A n \in Names \ todo : Mirrors(persisted[n], n)

RowsInv ==
    \A n \in {Source} \cup Names :
        server_artifacts[n] # NoArtifact => server_artifacts[n].bytes \in Bytes

OutputsInv == job.status = "success" => \A n \in Names : Mirrors(job.outputs[n], n)

ServerInv == /\ ServerTypes /\ Phase /\ ScriptInv /\ HeldInv /\ PersistedInv
             /\ RowsInv /\ OutputsInv

(* The second job *)

DownstreamInv ==
    /\ second \in {"A", "elsewhere"} /\ input \in {0} \cup Ids
    /\ got \in [{1, 2} -> Bytes \cup {None, Rejected, Gone}]
    /\ input # 0 => job.status = "success" /\ input = job.outputs[Wanted].artifact
    /\ got[2] # None => job.status = "success"
    /\ SecondGetsRecorded

ArtifactsInv == StoreInv /\ ServerInv /\ DownstreamInv /\ faults \in 0..MaxFaults
-----------------------------------------------------------------------------
(* What a step does to the store *)

Directories == [dir : BOOLEAN, tmp : SUBSET Files, blob : Bytes \cup {None},
                metadata : Bytes \cup {None}]

Writers == {"job", "upload"}

(* Whoever waited for store_bytes has its result, or will not have it.     *)
Released(w) ==
    /\ writer[w].at \in {"done", "failed"}
    /\ writer' = [writer EXCEPT ![w] = NoWriter]
    /\ UNCHANGED files

(* The step of the next-state relation that a step of the store is.        *)
StoreMove ==
    \/ UNCHANGED <<up, store>>
    \/ /\ up' = up
       /\ \/ \E w \in Writers :
                \/ \E f \in Files : WriteTemp(w, f) \/ Rename(w, f)
                \/ \E bytes \in Bytes : StoreBegins(w, bytes)
                \/ StoreFails(w) \/ Released(w)
          \/ \E i \in Ids : Expire(i) \/ CleanSkips(i) \/ CleanFinds(i)
          \/ CleanBegins \/ CleanRemoves \/ CleanEnds
    \/ up' = FALSE /\ StoreCrash
    \/ ~up /\ up' = TRUE /\ recover_incomplete_artifacts

(* Every step is, for the runner's store, one of a few moves. *)
LEMMA StoreFootprint ==
    ASSUME StoreInv, ServerInv, [Next]_vars
    PROVE  StoreMove
  <1>0. DOMAIN writer = Writers
    BY DEF StoreInv, StoreTypes, Writers
  <1>1. CASE RunnerStep
    <2>1. CASE StoreStep
      BY <1>0, <2>1 DEF StoreStep, StoreMove
    <2>2. CASE ScriptEnds
      BY <2>2 DEF ScriptEnds, StoreMove
    <2>3. ASSUME NEW n \in Names, RegisterBegins(n)
          PROVE  StoreMove
      <3>1. OutputBytes(n, script.attempt) \in Bytes
        BY DEF ServerInv, ServerTypes, Bytes
      <3>2. QED BY <2>3, <3>1 DEF RegisterBegins, StoreMove, Writers
    <2>4. ASSUME NEW n \in Names, RegisterEnds(n)
          PROVE  StoreMove
      BY <2>4 DEF RegisterEnds, StoreMove, Released, Writers
    <2>5. QED BY <1>1, <2>1, <2>2, <2>3, <2>4 DEF RunnerStep
  <1>2. CASE StoreFault
    BY <1>0, <1>2 DEF StoreFault, StoreMove
  <1>3. CASE TtlPasses
    BY <1>3 DEF TtlPasses, StoreMove
  <1>4. CASE RunnerCrash
    BY <1>4 DEF RunnerCrash, StoreMove
  <1>5. CASE RunnerStart
    BY <1>5 DEF RunnerStart, StoreMove
  <1>6. CASE UploadBegins
    <2>1. server_artifacts[Source].bytes \in Bytes
      BY <1>6 DEF UploadBegins, ServerInv, RowsInv
    <2>2. QED BY <1>6, <2>1 DEF UploadBegins, StoreMove, Writers
  <1>7. CASE UploadAnswered \/ UploadFails \/ UploadUnheard
    BY <1>7 DEF UploadAnswered, UploadFails, UploadUnheard, StoreMove, Released, Writers
  <1>8. CASE FirstStep /\ ~UploadBegins /\ ~UploadAnswered /\ ~UploadFails
    <2>1. UNCHANGED <<up, store>>
      BY <1>8 DEF FirstStep, SourceMissing, create_source_archive, SourceStored,
         UploadBroken, FirstStarts, FirstUnreachable, PollFailed, PollSuccess,
         DownloadEnds, FirstFinished, DownloadBegins, OutputMirrored, runner
    <2>2. QED BY <2>1 DEF StoreMove
  <1>9. CASE DownloadFails \/ SecondStep \/ UploadRefused
             \/ create_source_archive_Fails \/ ServerCrash
    <2>1. UNCHANGED <<up, store>>
      BY <1>9 DEF DownloadFails, SecondStep, ensure_runner_has_artifact,
         SecondOnSameRunner, SecondReads, UploadRefused,
         create_source_archive_Fails, ServerCrash, runner
    <2>2. QED BY <2>1 DEF StoreMove
  <1>10. CASE UNCHANGED vars
    BY <1>10 DEF vars, runner, StoreMove
  <1>11. QED
    BY <1>1, <1>2, <1>3, <1>4, <1>5, <1>6, <1>7, <1>8, <1>9, <1>10 DEF Next, FirstStep

(* An id that was returned keeps its bytes, and what expired stays so.     *)
StoreGrows ==
    /\ \A i \in Ids : kept[i] # None => kept'[i] = kept[i]
    /\ expired \subseteq expired'

(* What is kept for a job is still kept, unless it has expired. *)
LEMMA KeptStays == StoreInv /\ StoreMove => StoreGrows
  <1> SUFFICES ASSUME StoreInv, StoreMove
               PROVE  StoreGrows
    OBVIOUS
  <1>1. ASSUME NEW w \in Writers, NEW f \in Files, Rename(w, f)
        PROVE  StoreGrows
    <2>1. writer[w].at \in Files /\ expired' = expired
      BY <1>1 DEF Rename
    <2>2. kept[writer[w].id] = None
      BY <2>1 DEF StoreInv, WriterInv, Writers
    <2>3. kept' = kept \/ kept' = [kept EXCEPT ![writer[w].id] = writer[w].bytes]
      BY <1>1 DEF Rename
    <2>4. QED BY <2>1, <2>2, <2>3 DEF StoreGrows, StoreInv, StoreTypes
  <1>2. ASSUME NEW i \in Ids, Expire(i)
        PROVE  StoreGrows
    BY <1>2 DEF Expire, StoreGrows
  <1>3. CASE UNCHANGED <<kept, expired>>
    BY <1>3 DEF StoreGrows
  <1>4. QED
    BY <1>1, <1>2, <1>3 DEF StoreMove, WriteTemp, StoreBegins, StoreFails, Released,
       files, store, CleanBegins, CleanSkips, CleanFinds, CleanRemoves, CleanEnds,
       StoreCrash, recover_incomplete_artifacts

-----------------------------------------------------------------------------
(* The store keeps its invariant *)

(* Nothing that the invariant of the directory of i depends on gets worse. *)
Apart(i) ==
    /\ up' = up /\ alloc' >= alloc
    /\ disk'[i] = disk[i] /\ kept'[i] = kept[i]
    /\ i \in expired' <=> i \in expired
    /\ residue \subseteq residue'
    /\ cleaner.removing = i => cleaner'.removing = i
    /\ \A w \in {"job", "upload"} :
          (writer[w].id = i /\ writer[w].at \in Files)
              => \/ writer'[w].id = i /\ writer'[w].at \in Files
                 \/ i \in residue'

(* A move elsewhere leaves what is known of a directory. *)
LEMMA ApartKept ==
    ASSUME StoreTypes, StoreTypes', NEW i \in Ids, DirInv(i), Apart(i)
    PROVE  DirInv(i)'
  <1>1. Keeps(i)'
    BY DEF DirInv, Keeps, Apart
  <1>2. Accounted(i)'
    BY DEF DirInv, Accounted, Apart, Complete
  <1>3. i > alloc' => i > alloc
    BY IdNumbers DEF Apart, StoreTypes
  <1>4. QED BY <1>1, <1>2, <1>3 DEF DirInv, Apart

(* A writer another one's step leaves alone. *)
WriterApart(w) ==
    /\ up' = up /\ alloc' >= alloc
    /\ writer'[w] = writer[w]
    /\ writer[w].at \in Files => /\ kept'[writer[w].id] = kept[writer[w].id]
                                 /\ disk'[writer[w].id].blob = disk[writer[w].id].blob
    /\ StoreGrows

(* A move elsewhere leaves what is known of a writer. *)
LEMMA WriterApartKept ==
    ASSUME StoreTypes, StoreTypes', NEW w \in Writers, WriterInv(w), WriterApart(w)
    PROVE  WriterInv(w)'
  <1>1. (writer[w].id \in Ids /\ writer[w].id <= alloc) => writer[w].id <= alloc'
    <2>1. alloc \in Nat /\ alloc' \in Nat /\ alloc' >= alloc
      BY IdNumbers DEF WriterApart, StoreTypes
    <2>2. ASSUME NEW i \in Ids, i <= alloc
          PROVE  i <= alloc'
      <3>1. i \in Nat
        BY IdNumbers
      <3>2. QED BY <2>1, <2>2, <3>1
    <2>3. QED BY <2>2
  <1>2. writer[w].at = "metadata" => writer[w].at \in Files
    BY DEF Files
  <1>3. writer[w].at = "done" => writer[w].id \in Ids /\ kept'[writer[w].id] # None
    BY DEF WriterInv, WriterApart, StoreGrows
  <1>4. QED BY <1>1, <1>2, <1>3 DEF WriterInv, WriterApart

(* write_file_atomically, first half: the temporary file. *)
LEMMA WriteTempInv ==
    ASSUME StoreInv, NEW w \in Writers, NEW f \in Files, up' = up, WriteTemp(w, f)
    PROVE  StoreInv'
  <1>1. PICK i \in Ids : i = writer[w].id
    BY DEF WriteTemp, StoreInv, WriterInv, Writers
  <1>2. /\ writer[w].at \in Files /\ up /\ i <= alloc /\ kept[i] = None
        /\ UNCHANGED <<alloc, expired, writer, kept, residue, cleaner>>
    BY <1>1 DEF WriteTemp, StoreInv, WriterInv, Writers
  <1>3. PICK d \in Directories : d = [disk[i] EXCEPT !.dir = TRUE, !.tmp = @ \cup {f}]
    <2>1. disk[i] \in Directories
      BY DEF StoreInv, StoreTypes, Directories
    <2>2. [disk[i] EXCEPT !.dir = TRUE, !.tmp = @ \cup {f}] \in Directories
      BY <2>1 DEF Directories
    <2>3. QED BY <2>2
  <1>4. disk' = [disk EXCEPT ![i] = d]
    BY <1>1, <1>3 DEF WriteTemp, StoreInv, StoreTypes
  <1>5. d.dir /\ d.blob = disk[i].blob /\ d.metadata = disk[i].metadata
    BY <1>3 DEF StoreInv, StoreTypes
  <1>6. StoreTypes'
    BY <1>2, <1>4 DEF StoreInv, StoreTypes, Directories
  <1>7. ASSUME NEW j \in Ids
        PROVE  DirInv(j)'
    <2>1. CASE j # i
      <3>1. Apart(j)
        BY <1>2, <1>4, <2>1 DEF Apart, StoreInv, StoreTypes
      <3>2. QED BY <1>6, <3>1, ApartKept DEF StoreInv
    <2>2. CASE j = i
      <3>1. disk'[j] = d /\ DirInv(j)
        BY <1>4, <2>2 DEF StoreInv, StoreTypes
      <3>2. Keeps(j)'
        BY <1>2, <1>5, <2>2, <3>1 DEF DirInv, Keeps
      <3>3. Accounted(j)'
        BY <1>1, <1>2, <2>2 DEF Accounted, Writers
      <3>4. ~(j > alloc)
        BY <1>2, <2>2, IdNumbers DEF StoreInv, StoreTypes
      <3>5. QED BY <1>2, <1>5, <3>1, <3>2, <3>3, <3>4 DEF DirInv
    <2>3. QED BY <2>1, <2>2
  <1>8. ASSUME NEW v \in Writers
        PROVE  WriterInv(v)'
    <2>1. writer[v].at \in Files => disk'[writer[v].id].blob = disk[writer[v].id].blob
      BY <1>4, <1>5 DEF StoreInv, StoreTypes, WriterInv, Writers
    <2>2. WriterApart(v)
      BY <1>2, <2>1, IdNumbers DEF WriterApart, StoreGrows, StoreInv, StoreTypes
    <2>3. QED BY <1>6, <2>2, WriterApartKept DEF StoreInv, Writers
  <1>9. QED
    BY <1>2, <1>6, <1>7, <1>8 DEF StoreInv, TwoWriters, CleanerInv, Writers

(* write_file_atomically, second half: the rename. *)
LEMMA RenameInv ==
    ASSUME StoreInv, NEW w \in Writers, NEW f \in Files, up' = up, Rename(w, f)
    PROVE  StoreInv'
  <1>1. PICK i \in Ids : i = writer[w].id
    BY DEF Rename, StoreInv, WriterInv, Writers
  <1>2. /\ writer[w].at = f /\ up /\ i <= alloc /\ kept[i] = None
        /\ UNCHANGED <<alloc, expired, residue, cleaner>>
    BY <1>1 DEF Rename, StoreInv, WriterInv, Writers
  <1>3. PICK b \in Bytes : b = writer[w].bytes
    BY DEF Rename, StoreInv, WriterInv, Writers
  <1>4. disk[i] \in Directories
    BY DEF StoreInv, StoreTypes, Directories
  <1>5. PICK d \in Directories : d = [disk[i] EXCEPT ![f] = b, !.tmp = @ \ {f}]
    <2>1. CASE f = "blob"
      BY <1>4, <2>1 DEF Directories
    <2>2. CASE f = "metadata"
      BY <1>4, <2>2 DEF Directories
    <2>3. QED BY <2>1, <2>2 DEF Files
  <1>6. disk' = [disk EXCEPT ![i] = d]
    BY <1>1, <1>3, <1>5 DEF Rename, StoreInv, StoreTypes
  <1>7. /\ f = "blob" => d.blob = b /\ d.metadata = disk[i].metadata
        /\ f = "metadata" => d.blob = disk[i].blob /\ d.metadata = b
        /\ d.dir = disk[i].dir
    <2>1. f = "blob" => d = [disk[i] EXCEPT !.blob = b, !.tmp = @ \ {f}]
      BY <1>5
    <2>2. f = "metadata" => d = [disk[i] EXCEPT !.metadata = b, !.tmp = @ \ {f}]
      BY <1>5
    <2>3. QED BY <1>4, <2>1, <2>2 DEF Directories, Files
  <1>8. DirInv(i) /\ disk[i].metadata = None /\ i \notin expired
    BY <1>2 DEF StoreInv, DirInv, Keeps
  <1>9. disk[i].dir
    <2>1. f \in disk[i].tmp
      BY <1>1 DEF Rename
    <2>2. QED BY <1>8, <2>1 DEF DirInv, NoDir
  <1>10. b # None
    BY ByteValues
  <1>11. ~(i > alloc)
    BY <1>2, IdNumbers DEF StoreInv, StoreTypes
  <1>12. ASSUME NEW v \in Writers, v # w, writer[v].at \in Files
         PROVE  writer[v].id # i
    BY <1>1, <1>2, <1>12 DEF StoreInv, TwoWriters, Writers
  <1>13. CASE f = "blob"
    <2>1. writer' = [writer EXCEPT ![w].at = "metadata"] /\ kept' = kept
      BY <1>13 DEF Rename
    <2>2. StoreTypes'
      BY <1>2, <1>6, <2>1 DEF StoreInv, StoreTypes, Directories, Files, Writers
    <2>3. writer'[w] = [writer[w] EXCEPT !.at = "metadata"] /\ writer'[w].id = i
          /\ writer'[w].bytes = b /\ writer'[w].at = "metadata"
      BY <1>1, <1>3, <2>1 DEF StoreInv, StoreTypes, Writers
    <2>4. ASSUME NEW j \in Ids
          PROVE  DirInv(j)'
      <3>1. CASE j # i
        <4>1. Apart(j)
          BY <1>1, <1>2, <1>6, <2>1, <3>1, IdNumbers DEF Apart, StoreInv, StoreTypes, Writers
        <4>2. QED BY <2>2, <4>1, ApartKept DEF StoreInv
      <3>2. CASE j = i
        <4>1. disk'[j] = d /\ d.metadata = None
          BY <1>6, <1>7, <1>8, <1>13, <3>2 DEF StoreInv, StoreTypes
        <4>2. Keeps(j)' /\ ~(j > alloc') /\ j \notin expired' /\ disk'[j].dir
          BY <1>2, <1>7, <1>8, <1>9, <1>11, <2>1, <3>2, <4>1 DEF Keeps
        <4>3. Accounted(j)'
          BY <2>3, <3>2 DEF Accounted, Writers, Files
        <4>4. QED BY <4>2, <4>3 DEF DirInv
      <3>3. QED BY <3>1, <3>2
    <2>5. ASSUME NEW v \in Writers
          PROVE  WriterInv(v)'
      <3>1. CASE v = w
        <4>1. disk'[i].blob = b
          BY <1>6, <1>7, <1>13 DEF StoreInv, StoreTypes
        <4>2. QED BY <1>2, <2>1, <2>3, <3>1, <4>1 DEF WriterInv
      <3>2. CASE v # w
        <4>1. writer'[v] = writer[v]
          BY <2>1, <3>2 DEF StoreInv, StoreTypes
        <4>2. writer[v].at \in Files => disk'[writer[v].id].blob = disk[writer[v].id].blob
          BY <1>6, <1>12, <3>2 DEF StoreInv, StoreTypes
        <4>3. WriterApart(v)
          BY <1>2, <2>1, <4>1, <4>2, IdNumbers DEF WriterApart, StoreGrows, StoreInv, StoreTypes
        <4>4. QED BY <2>2, <4>3, WriterApartKept DEF StoreInv, Writers
      <3>3. QED BY <3>1, <3>2
    <2>6. TwoWriters'
      <3>1. ASSUME NEW v \in Writers, v # w
            PROVE  writer'[v] = writer[v]
        BY <2>1, <3>1 DEF StoreInv, StoreTypes
      <3>2. QED BY <1>1, <1>12, <2>3, <3>1 DEF StoreInv, TwoWriters, Writers
    <2>7. QED BY <1>2, <2>2, <2>4, <2>5, <2>6 DEF StoreInv, CleanerInv, Writers
  <1>14. CASE f = "metadata"
    <2>1. /\ writer' = [writer EXCEPT ![w].at = "done"]
          /\ kept' = [kept EXCEPT ![i] = b]
      BY <1>1, <1>3, <1>14 DEF Rename
    <2>2. StoreTypes'
      BY <1>2, <1>6, <2>1 DEF StoreInv, StoreTypes, Directories, Files, Writers
    <2>3. writer'[w].id = i /\ writer'[w].at = "done"
      BY <1>1, <2>1 DEF StoreInv, StoreTypes, Writers
    <2>4. ASSUME NEW j \in Ids
          PROVE  DirInv(j)'
      <3>1. CASE j # i
        <4>1. Apart(j)
          BY <1>1, <1>2, <1>6, <2>1, <3>1, IdNumbers DEF Apart, StoreInv, StoreTypes, Writers
        <4>2. QED BY <2>2, <4>1, ApartKept DEF StoreInv
      <3>2. CASE j = i
        <4>1. disk[i].blob = b
          BY <1>1, <1>2, <1>3, <1>14 DEF StoreInv, WriterInv, Writers
        <4>2. /\ disk'[j].metadata = b /\ disk'[j].blob = b /\ disk'[j].dir
              /\ kept'[j] = b
          BY <1>6, <1>7, <1>9, <1>14, <2>1, <3>2, <4>1 DEF StoreInv, StoreTypes
        <4>3. Keeps(j)'
          BY <4>2 DEF Keeps
        <4>4. Accounted(j)'
          BY <1>10, <4>2 DEF Accounted, Complete
        <4>5. QED BY <1>2, <1>8, <1>11, <3>2, <4>2, <4>3, <4>4 DEF DirInv
      <3>3. QED BY <3>1, <3>2
    <2>5. ASSUME NEW v \in Writers
          PROVE  WriterInv(v)'
      <3>1. CASE v = w
        <4>1. kept'[i] # None
          BY <1>10, <2>1 DEF StoreInv, StoreTypes
        <4>2. QED BY <1>2, <2>3, <3>1, <4>1 DEF WriterInv, Files
      <3>2. CASE v # w
        <4>1. writer'[v] = writer[v]
          BY <2>1, <3>2 DEF StoreInv, StoreTypes
        <4>2. writer[v].at \in Files => /\ disk'[writer[v].id].blob = disk[writer[v].id].blob
                                        /\ kept'[writer[v].id] = kept[writer[v].id]
          BY <1>6, <1>12, <2>1, <3>2 DEF StoreInv, StoreTypes
        <4>3. StoreGrows
          BY <1>2, <2>1 DEF StoreGrows, StoreInv, StoreTypes
        <4>4. WriterApart(v)
          BY <1>2, <4>1, <4>2, <4>3, IdNumbers DEF WriterApart, StoreInv, StoreTypes
        <4>5. QED BY <2>2, <4>4, WriterApartKept DEF StoreInv, Writers
      <3>3. QED BY <3>1, <3>2
    <2>6. TwoWriters'
      <3>1. ASSUME NEW v \in Writers, v # w
            PROVE  writer'[v] = writer[v]
        BY <2>1, <3>1 DEF StoreInv, StoreTypes
      <3>2. QED BY <2>3, <3>1 DEF StoreInv, TwoWriters, Writers, Files
    <2>7. QED BY <1>2, <2>2, <2>4, <2>5, <2>6 DEF StoreInv, CleanerInv, Writers
  <1>15. QED BY <1>13, <1>14 DEF Files

(* A store starts in a directory that nobody uses. *)
LEMMA StoreBeginsInv ==
    ASSUME StoreInv, NEW w \in Writers, NEW b \in Bytes, up' = up, StoreBegins(w, b)
    PROVE  StoreInv'
  <1>1. PICK i \in Ids : i = alloc + 1
    BY DEF StoreBegins
  <1>2. /\ writer[w].at = "idle" /\ up /\ alloc' = i
        /\ UNCHANGED <<expired, kept, residue, cleaner>>
    BY <1>1 DEF StoreBegins
  <1>3. alloc \in Nat /\ i \in Nat /\ i > alloc /\ alloc' >= alloc /\ ~(i > alloc')
    BY <1>1, <1>2, IdNumbers DEF StoreInv, StoreTypes
  <1>4. disk[i] = NoDir /\ kept[i] = None /\ i \notin expired
    BY <1>3 DEF StoreInv, DirInv
  <1>5. PICK d \in Directories : /\ disk' = [disk EXCEPT ![i] = d] /\ d.dir
                                 /\ d.blob = None /\ d.metadata = None
    <2> DEFINE d == [disk[i] EXCEPT !.dir = TRUE]
    <2>1. disk[i] \in Directories
      BY DEF StoreInv, StoreTypes, Directories
    <2>2. d \in Directories /\ d.dir /\ d.blob = None /\ d.metadata = None
      <3>1. disk[i].blob = None /\ disk[i].metadata = None
        BY <1>4 DEF NoDir
      <3>2. QED BY <2>1, <3>1 DEF Directories
    <2>3. disk' = [disk EXCEPT ![i] = d]
      <3>1. disk' = [disk EXCEPT ![i].dir = TRUE]
        BY <1>1 DEF StoreBegins
      <3>2. QED BY <3>1
    <2> HIDE DEF d
    <2>4. QED BY <2>2, <2>3
  <1>6. writer' = [writer EXCEPT ![w] = [at |-> "blob", id |-> i, bytes |-> b]]
    BY <1>1 DEF StoreBegins
  <1>7. StoreTypes'
    BY <1>2, <1>5, <1>6 DEF StoreInv, StoreTypes, Directories, Files, Writers
  <1>8. /\ writer'[w].at = "blob" /\ writer'[w].id = i /\ writer'[w].bytes = b
        /\ \A v \in Writers : v # w => writer'[v] = writer[v]
    BY <1>6 DEF StoreInv, StoreTypes, Writers
  <1>9. ASSUME NEW v \in Writers, writer[v].at \in Files
        PROVE  writer[v].id # i /\ writer[v].id \in Ids
    BY <1>3, <1>9, IdNumbers DEF StoreInv, WriterInv, Writers
  <1>10. ASSUME NEW j \in Ids
         PROVE  DirInv(j)'
    <2>1. CASE j # i
      <3>1. writer[w].at \notin Files
        BY <1>2 DEF Files
      <3>2. Apart(j)
        BY <1>2, <1>3, <1>5, <1>8, <2>1, <3>1 DEF Apart, StoreInv, StoreTypes, Writers
      <3>3. QED BY <1>7, <3>2, ApartKept DEF StoreInv
    <2>2. CASE j = i
      <3>1. disk'[j] = d /\ kept'[j] = None /\ j \notin expired'
        BY <1>2, <1>4, <1>5, <2>2 DEF StoreInv, StoreTypes
      <3>2. Accounted(j)'
        BY <1>8, <2>2 DEF Accounted, Writers, Files
      <3>3. QED BY <1>3, <1>5, <2>2, <3>1, <3>2 DEF DirInv, Keeps
    <2>3. QED BY <2>1, <2>2
  <1>11. ASSUME NEW v \in Writers
         PROVE  WriterInv(v)'
    <2>1. CASE v = w
      BY <1>2, <1>3, <1>4, <1>8, <2>1 DEF WriterInv, Files
    <2>2. CASE v # w
      <3>1. writer[v].at \in Files => disk'[writer[v].id].blob = disk[writer[v].id].blob
        BY <1>5, <1>9 DEF StoreInv, StoreTypes
      <3>2. WriterApart(v)
        BY <1>2, <1>3, <1>8, <2>2, <3>1 DEF WriterApart, StoreGrows
      <3>3. QED BY <1>7, <3>2, WriterApartKept DEF StoreInv, Writers
    <2>3. QED BY <2>1, <2>2
  <1>12. TwoWriters'
    BY <1>8, <1>9 DEF StoreInv, TwoWriters, Writers
  <1>13. QED
    BY <1>2, <1>7, <1>10, <1>11, <1>12 DEF StoreInv, CleanerInv, Writers

(* A store that fails or has been answered gives up its directory. *)
LEMMA WriterEndsInv ==
    ASSUME StoreInv, NEW w \in Writers, up' = up, StoreFails(w) \/ Released(w)
    PROVE  StoreInv'
  <1>1. /\ UNCHANGED <<disk, alloc, expired, kept, cleaner>>
        /\ residue \subseteq residue'
        /\ writer[w].at \in Files => writer[w].id \in residue'
        /\ \A v \in Writers : v # w => writer'[v] = writer[v]
        /\ writer'[w].at \in {"idle", "failed"}
    <2>1. CASE StoreFails(w)
      BY <2>1 DEF StoreFails, StoreInv, StoreTypes, Writers
    <2>2. CASE Released(w)
      BY <2>2 DEF Released, files, NoWriter, StoreInv, StoreTypes, Writers, Files
    <2>3. QED BY <2>1, <2>2
  <1>2. StoreTypes'
    <2>1. CASE StoreFails(w)
      <3>1. writer[w].id \in Ids
        BY <2>1 DEF StoreFails, StoreInv, WriterInv, Writers
      <3>2. residue' \subseteq Ids
        BY <2>1, <3>1 DEF StoreFails, StoreInv, StoreTypes
      <3>3. QED BY <1>1, <2>1, <3>2 DEF StoreFails, StoreInv, StoreTypes, Writers
    <2>2. CASE Released(w)
      BY <1>1, <2>2 DEF Released, files, NoWriter, StoreInv, StoreTypes, Writers
    <2>3. QED BY <2>1, <2>2
  <1>3. alloc' >= alloc /\ StoreGrows
    BY <1>1, IdNumbers DEF StoreInv, StoreTypes, StoreGrows
  <1>4. ASSUME NEW j \in Ids
        PROVE  DirInv(j)'
    <2>1. Apart(j)
      BY <1>1, <1>3 DEF Apart, Writers
    <2>2. QED BY <1>2, <2>1, ApartKept DEF StoreInv
  <1>5. ASSUME NEW v \in Writers
        PROVE  WriterInv(v)'
    <2>1. CASE v = w
      <3>1. writer[w].at # "idle"
        BY DEF StoreFails, Released, Files
      <3>2. up
        BY <3>1 DEF StoreInv, WriterInv, Writers
      <3>3. QED BY <1>1, <2>1, <3>2 DEF WriterInv, Files
    <2>2. CASE v # w
      <3>1. WriterApart(v)
        BY <1>1, <1>3, <2>2 DEF WriterApart
      <3>2. QED BY <1>2, <3>1, WriterApartKept DEF StoreInv, Writers
    <2>3. QED BY <2>1, <2>2
  <1>6. TwoWriters'
    BY <1>1 DEF StoreInv, TwoWriters, Writers, Files
  <1>7. QED BY <1>1, <1>2, <1>4, <1>5, <1>6 DEF StoreInv, CleanerInv, Writers

(* An artifact whose time is over is still whole. *)
LEMMA ExpireInv ==
    ASSUME StoreInv, NEW i \in Ids, up' = up, Expire(i)
    PROVE  StoreInv'
  <1>1. /\ UNCHANGED <<disk, alloc, writer, kept, residue, cleaner>>
        /\ expired' = expired \cup {i} /\ disk[i].metadata # None
    BY DEF Expire
  <1>2. kept[i] # None
    BY <1>1 DEF StoreInv, DirInv, Keeps
  <1>3. StoreTypes'
    BY <1>1 DEF StoreInv, StoreTypes
  <1>4. ASSUME NEW j \in Ids
        PROVE  DirInv(j)'
    BY <1>1, <1>2 DEF StoreInv, DirInv, Keeps, Accounted, Complete
  <1>5. QED
    BY <1>1, <1>3, <1>4 DEF StoreInv, WriterInv, TwoWriters, CleanerInv

(* The expiry loop, apart from the removal. *)
LEMMA CleanerInvStep ==
    ASSUME StoreInv, up' = up,
           \/ CleanBegins \/ CleanEnds
           \/ \E i \in Ids : CleanSkips(i) \/ CleanFinds(i)
    PROVE  StoreInv'
  <1>1. UNCHANGED <<disk, alloc, expired, writer, kept, residue>>
    BY DEF CleanBegins, CleanEnds, CleanSkips, CleanFinds
  <1>2. cleaner.removing = 0 /\ up
    <2>1. CASE CleanEnds
      BY <2>1 DEF CleanEnds, StoreInv, CleanerInv
    <2>2. QED BY <2>1 DEF CleanBegins, CleanSkips, CleanFinds, StoreInv, CleanerInv, Idle
  <1>3. cleaner' \in [todo : SUBSET Ids, removing : {0} \cup Ids, busy : BOOLEAN]
    <2>1. CASE CleanBegins \/ CleanEnds
      <3>1. CASE CleanEnds
        BY <3>1 DEF CleanEnds, Idle
      <3>2. CASE CleanBegins
        BY <3>2 DEF CleanBegins
      <3>3. QED BY <2>1, <3>1, <3>2
    <2>2. ASSUME NEW i \in Ids, CleanSkips(i)
          PROVE  cleaner' \in [todo : SUBSET Ids, removing : {0} \cup Ids, busy : BOOLEAN]
      BY <2>2 DEF CleanSkips, StoreInv, StoreTypes
    <2>3. ASSUME NEW i \in Ids, CleanFinds(i)
          PROVE  cleaner' \in [todo : SUBSET Ids, removing : {0} \cup Ids, busy : BOOLEAN]
      BY <2>3 DEF CleanFinds, StoreInv, StoreTypes
    <2>4. QED BY <2>1, <2>2, <2>3
  <1>4. StoreTypes'
    BY <1>1, <1>3 DEF StoreInv, StoreTypes
  <1>5. CleanerInv'
    <2>0. cleaner.todo # {} => cleaner.busy
      BY DEF StoreInv, CleanerInv, Idle
    <2>1. CASE CleanBegins \/ CleanEnds
      BY <1>2, <2>1 DEF CleanBegins, CleanEnds, Idle, CleanerInv
    <2>2. ASSUME NEW i \in Ids, CleanSkips(i)
          PROVE  cleaner'.removing = 0 /\ cleaner'.busy
      BY <1>2, <2>0, <2>2 DEF CleanSkips, StoreInv, StoreTypes
    <2>3. ASSUME NEW i \in Ids, CleanFinds(i)
          PROVE  /\ cleaner'.removing \in expired /\ cleaner'.removing \in cleaner'.todo
                 /\ cleaner'.busy
      <3>1. cleaner.busy
        BY <2>0, <2>3 DEF CleanFinds
      <3>2. QED BY <2>3, <3>1 DEF CleanFinds, StoreInv, StoreTypes
    <2>4. QED BY <1>1, <1>2, <2>1, <2>2, <2>3 DEF CleanerInv
  <1>6. ASSUME NEW j \in Ids
        PROVE  DirInv(j)'
    <2>1. cleaner.removing # j
      BY <1>2, IdNumbers
    <2>2. QED
      BY <1>1, <2>1 DEF StoreInv, DirInv, Keeps, Accounted, Complete
  <1>7. QED
    BY <1>1, <1>4, <1>5, <1>6 DEF StoreInv, WriterInv, TwoWriters

(* The cleanup pass removes only what nobody needs. *)
LEMMA CleanRemovesInv ==
    ASSUME StoreInv, up' = up, CleanRemoves
    PROVE  StoreInv'
  <1>1. PICK i \in Ids : i = cleaner.removing /\ i # 0 /\ i \in expired /\ i \in cleaner.todo
    BY DEF CleanRemoves, StoreInv, StoreTypes, CleanerInv
  <1>2. up /\ cleaner.busy /\ UNCHANGED <<alloc, expired, writer, kept, residue>>
    BY <1>1 DEF CleanRemoves, StoreInv, CleanerInv, Idle
  <1>3. DirInv(i) /\ kept[i] # None /\ ~(i > alloc) /\ disk[i] \in Directories
    BY <1>1 DEF StoreInv, StoreTypes, DirInv, Directories
  <1>4. PICK d \in Directories :
           /\ disk' = [disk EXCEPT ![i] = d]
           /\ d.blob \in {None, disk[i].blob} /\ d.metadata \in {None, disk[i].metadata}
           /\ \/ d.dir /\ cleaner' = cleaner
              \/ d = NoDir /\ cleaner' = [cleaner EXCEPT !.todo = @ \ {i}, !.removing = 0]
    <2>1. ASSUME NEW f \in Files, disk[i][f] # None, disk' = [disk EXCEPT ![i][f] = None],
                 UNCHANGED cleaner
          PROVE  \E d \in Directories :
                    /\ disk' = [disk EXCEPT ![i] = d]
                    /\ d.blob \in {None, disk[i].blob} /\ d.metadata \in {None, disk[i].metadata}
                    /\ d.dir /\ cleaner' = cleaner
      <3> DEFINE d == [disk[i] EXCEPT ![f] = None]
      <3>1. disk[i].dir
        <4>1. CASE f = "blob"
          BY <1>3, <2>1, <4>1 DEF DirInv, NoDir
        <4>2. CASE f = "metadata"
          BY <1>3, <2>1, <4>2 DEF DirInv, NoDir
        <4>3. QED BY <4>1, <4>2 DEF Files
      <3>2. f = "blob" => d = [disk[i] EXCEPT !.blob = None]
        OBVIOUS
      <3>3. f = "metadata" => d = [disk[i] EXCEPT !.metadata = None]
        OBVIOUS
      <3>4. disk' = [disk EXCEPT ![i] = d]
        BY <2>1
      <3> HIDE DEF d
      <3>5. /\ d \in Directories /\ d.dir
            /\ d.blob \in {None, disk[i].blob} /\ d.metadata \in {None, disk[i].metadata}
        BY <1>3, <3>1, <3>2, <3>3 DEF Directories, Files
      <3>6. QED BY <2>1, <3>4, <3>5
    <2>2. ASSUME disk' = [disk EXCEPT ![i] = NoDir],
                 cleaner' = [cleaner EXCEPT !.todo = @ \ {i}, !.removing = 0]
          PROVE  \E d \in Directories :
                    /\ disk' = [disk EXCEPT ![i] = d]
                    /\ d.blob \in {None, disk[i].blob} /\ d.metadata \in {None, disk[i].metadata}
                    /\ d = NoDir /\ cleaner' = [cleaner EXCEPT !.todo = @ \ {i}, !.removing = 0]
      <3>1. NoDir \in Directories /\ NoDir.blob = None /\ NoDir.metadata = None
        BY DEF NoDir, Directories
      <3>2. QED BY <2>2, <3>1
    <2>3. QED BY <1>1, <2>1, <2>2 DEF CleanRemoves
  <1>5. disk'[i] = d /\ \A j \in Ids : j # i => disk'[j] = disk[j]
    BY <1>4 DEF StoreInv, StoreTypes
  <1>6. StoreTypes'
    <2>1. disk' \in [Ids -> Directories]
      BY <1>4 DEF StoreInv, StoreTypes, Directories
    <2>2. cleaner' \in [todo : SUBSET Ids, removing : {0} \cup Ids, busy : BOOLEAN]
      BY <1>4 DEF StoreInv, StoreTypes
    <2>3. QED BY <1>2, <2>1, <2>2 DEF StoreInv, StoreTypes, Directories
  <1>7. ASSUME NEW j \in Ids
        PROVE  DirInv(j)'
    <2>1. CASE j # i
      <3>1. alloc' >= alloc
        BY <1>2, IdNumbers DEF StoreInv, StoreTypes
      <3>2. Apart(j)
        BY <1>1, <1>2, <1>5, <2>1, <3>1 DEF Apart
      <3>3. QED BY <1>6, <3>2, ApartKept DEF StoreInv
    <2>2. CASE j = i
      <3>1. Keeps(j)'
        BY <1>1, <1>2, <1>3, <1>4, <1>5, <2>2 DEF DirInv, Keeps
      <3>2. Accounted(j)'
        <4>1. CASE d.dir /\ cleaner' = cleaner
          BY <1>1, <2>2, <4>1 DEF Accounted
        <4>2. CASE d = NoDir
          BY <1>5, <2>2, <4>2 DEF Accounted, NoDir
        <4>3. QED BY <1>4, <4>1, <4>2
      <3>3. ~disk'[j].dir => disk'[j] = NoDir
        BY <1>4, <1>5, <2>2
      <3>4. QED BY <1>2, <1>3, <2>2, <3>1, <3>2, <3>3 DEF DirInv
    <2>3. QED BY <2>1, <2>2
  <1>8. ASSUME NEW v \in Writers
        PROVE  WriterInv(v)'
    <2>1. writer[v].at \in Files => writer[v].id # i /\ writer[v].id \in Ids
      BY <1>3 DEF StoreInv, WriterInv, Writers
    <2>2. writer[v].at = "metadata" => writer[v].at \in Files
      BY DEF Files
    <2>3. QED
      BY <1>2, <1>5, <2>1, <2>2 DEF StoreInv, WriterInv, Writers
  <1>9. CleanerInv'
    <2>1. CASE cleaner' = cleaner
      BY <1>2, <2>1 DEF StoreInv, CleanerInv
    <2>2. CASE cleaner' = [cleaner EXCEPT !.todo = @ \ {i}, !.removing = 0]
      <3>1. cleaner'.removing = 0 /\ cleaner'.busy
        BY <1>2, <2>2 DEF StoreInv, StoreTypes
      <3>2. QED BY <1>2, <3>1 DEF CleanerInv
    <2>3. QED BY <1>4, <2>1, <2>2
  <1>10. QED
    BY <1>2, <1>6, <1>7, <1>8, <1>9 DEF StoreInv, TwoWriters, Writers

(* What a crash leaves is what the next start can sort out. *)
LEMMA CrashInv ==
    ASSUME StoreInv, up' = FALSE, StoreCrash
    PROVE  StoreInv'
  <1>1. /\ UNCHANGED <<disk, alloc, expired, kept, residue>> /\ cleaner' = Idle
        /\ writer' = [w \in {"job", "upload"} |-> NoWriter]
    BY DEF StoreCrash, StoreInv, StoreTypes
  <1>2. NoWriter \in [at : {"idle", "done", "failed"} \cup Files, id : {0} \cup Ids,
                      bytes : Bytes \cup {None}]
    BY DEF NoWriter
  <1>3. Idle \in [todo : SUBSET Ids, removing : {0} \cup Ids, busy : BOOLEAN]
    BY DEF Idle
  <1>4. StoreTypes'
    BY <1>1, <1>2, <1>3 DEF StoreInv, StoreTypes
  <1>5. ASSUME NEW w \in {"job", "upload"}
        PROVE  writer'[w].at = "idle"
    BY <1>1 DEF NoWriter
  <1>6. \A w \in {"job", "upload"} : WriterInv(w)'
    BY <1>5 DEF WriterInv, Files
  <1>7. TwoWriters'
    BY <1>5 DEF TwoWriters, Files
  <1>8. CleanerInv'
    BY <1>1 DEF CleanerInv, Idle
  <1>9. ASSUME NEW j \in Ids
        PROVE  DirInv(j)'
    BY <1>1 DEF StoreInv, DirInv, Keeps, Accounted
  <1>10. QED BY <1>4, <1>6, <1>7, <1>8, <1>9 DEF StoreInv

(* Recovery removes what is incomplete, and nothing that was returned.     *)
LEMMA RecoverInv ==
    ASSUME StoreInv, ~up, up' = TRUE, recover_incomplete_artifacts
    PROVE  StoreInv'
  <1>1. /\ UNCHANGED <<alloc, expired, writer, kept, cleaner>> /\ residue' = {}
        /\ \A j \in Ids : disk'[j] = IF recoverable(disk[j]) THEN NoDir ELSE disk[j]
    BY DEF recover_incomplete_artifacts
  <1>2. /\ \A w \in Writers : writer[w].at = "idle"
        /\ cleaner = Idle
    BY DEF StoreInv, WriterInv, CleanerInv, Writers
  <1>3. NoDir \in Directories /\ NoDir.blob = None /\ NoDir.metadata = None /\ ~NoDir.dir
    BY DEF NoDir, Directories
  <1>4. disk' \in [Ids -> Directories]
    BY <1>3 DEF recover_incomplete_artifacts, StoreInv, StoreTypes, Directories
  <1>5. StoreTypes'
    BY <1>1, <1>4 DEF StoreInv, StoreTypes, Directories
  <1>6. ASSUME NEW j \in Ids
        PROVE  DirInv(j)'
    <2>1. DirInv(j)
      BY DEF StoreInv
    <2>2. CASE recoverable(disk[j])
      <3>1. disk'[j] = NoDir
        BY <1>1, <2>2
      <3>2. kept[j] = None \/ j \in expired
        <4>1. disk[j].metadata # Torn
          BY ByteValues DEF StoreInv, StoreTypes
        <4>2. QED BY <2>1, <2>2, <4>1 DEF recoverable, DirInv, Keeps
      <3>3. Keeps(j)'
        BY <1>1, <1>3, <3>1, <3>2 DEF Keeps
      <3>4. Accounted(j)'
        BY <1>3, <3>1 DEF Accounted
      <3>5. QED BY <1>1, <2>1, <3>1, <3>3, <3>4 DEF DirInv
    <2>3. CASE ~recoverable(disk[j])
      <3>1. disk'[j] = disk[j]
        BY <1>1, <2>3
      <3>2. Accounted(j)'
        BY <2>3, <3>1 DEF Accounted, recoverable, Complete
      <3>3. QED BY <1>1, <2>1, <3>1, <3>2 DEF DirInv, Keeps
    <2>4. QED BY <2>2, <2>3
  <1>7. \A w \in Writers : WriterInv(w)'
    BY <1>1, <1>2 DEF WriterInv, Files
  <1>8. TwoWriters'
    BY <1>1, <1>2 DEF TwoWriters, Files, Writers
  <1>9. CleanerInv'
    BY <1>1, <1>2 DEF CleanerInv, Idle
  <1>10. QED BY <1>5, <1>6, <1>7, <1>8, <1>9 DEF StoreInv, Writers

(* Every move keeps the invariant of the store. *)
LEMMA StoreStays == StoreInv /\ StoreMove => StoreInv'
  <1> SUFFICES ASSUME StoreInv, StoreMove
               PROVE  StoreInv'
    OBVIOUS
  <1>1. CASE UNCHANGED <<up, store>>
    BY <1>1 DEF store, StoreInv, StoreTypes, DirInv, Keeps, Accounted, Complete,
       WriterInv, TwoWriters, CleanerInv
  <1>2. QED
    BY <1>1, WriteTempInv, RenameInv, StoreBeginsInv, WriterEndsInv, ExpireInv,
       CleanerInvStep, CleanRemovesInv, CrashInv, RecoverInv DEF StoreMove

-----------------------------------------------------------------------------
(* The server and the first job keep theirs *)

ScriptStates == [attempt : Attempts, at : {"none", "running", "failed", "success"},
                 out : [Names -> {0} \cup Ids]]

JobRows == [status : {"pending", "running", "success", "failed"}, attempt : Attempts,
            outputs : [Names -> [artifact : Nat, copy : Nat]]]

LoopTypes == /\ held \in Held /\ todo \subseteq Names
             /\ persisted \in [Names -> [artifact : Nat, copy : Nat]]

(* Stored and Mirrors after the step, of a value of either state.          *)
StoredNext(i) == i \in Ids /\ kept'[i] # None

MirrorsNext(row, n) ==
    /\ StoredNext(row.artifact)
    /\ server_artifacts'[n].bytes = kept'[row.artifact]

ScriptNext ==
    /\ script' \in ScriptStates
    /\ \A n \in Names : /\ script'.out[n] # 0 => StoredNext(script'.out[n])
                        /\ script'.at = "success" => script'.out[n] # 0

(* An artifact that was answered for is still stored, with its bytes. *)
LEMMA StoredStays ==
    ASSUME StoreGrows, NEW i, Stored(i)
    PROVE  StoredNext(i) /\ kept'[i] = kept[i]
  BY DEF StoreGrows, Stored, StoredNext

(* A copy on the runner stays a copy of what the server holds. *)
LEMMA MirrorsStays ==
    ASSUME StoreGrows, NEW row, NEW n, Mirrors(row, n),
           server_artifacts'[n] = server_artifacts[n]
    PROVE  MirrorsNext(row, n)
  BY StoredStays DEF Mirrors, MirrorsNext

(* The loop is at the step it goes to. *)
LEMMA GoToTypes ==
    ASSUME NEW at, GoTo(at)
    PROVE  LoopTypes' /\ pc' = at
  BY DEF GoTo, LoopTypes, Held, NoArtifact, NothingPersisted

(* A job that is retried or failed has a row. *)
LEMMA RetryTypes ==
    ASSUME ServerTypes, RetryOrFail
    PROVE  job' \in JobRows /\ job'.status \in {"pending", "failed"}
  <1>1. job \in JobRows
    BY DEF ServerTypes, JobRows
  <1>2. CASE job.attempt < MaxRetries
    <2>1. job.attempt + 1 \in Attempts
      BY <1>1, <1>2, ArtifactsAssumption DEF JobRows, Attempts
    <2>2. job' = [job EXCEPT !.status = "pending", !.attempt = @ + 1]
      BY <1>2 DEF RetryOrFail
    <2>3. QED BY <1>1, <2>1, <2>2 DEF JobRows
  <1>3. CASE ~(job.attempt < MaxRetries)
    BY <1>1, <1>3 DEF RetryOrFail, JobRows
  <1>4. QED BY <1>2, <1>3

(* The loop stands where it does not hold an artifact. *)
LEMMA JobMoved ==
    ASSUME StoreGrows, ServerInv, UNCHANGED <<server_artifacts, copies>>,
           archive' \in {None, Whole, Cut}, LoopTypes',
           pc' \in {"idle", "git", "upload"}, pc' # "idle" => job'.status = "pending",
           job' \in JobRows, job'.status = "success" => job' = job,
           ScriptNext
    PROVE  ServerInv'
  <1>1. ServerTypes'
    BY DEF ServerInv, ServerTypes, LoopTypes, JobRows, ScriptStates, ScriptNext
  <1>2. OutputsInv'
    <2>1. ASSUME job'.status = "success", NEW n \in Names
          PROVE  MirrorsNext(job'.outputs[n], n)
      BY <2>1, MirrorsStays DEF ServerInv, OutputsInv
    <2>2. QED BY <2>1 DEF OutputsInv, Mirrors, Stored, MirrorsNext, StoredNext
  <1>3. ScriptInv'
    BY DEF ScriptNext, ScriptInv, Stored, StoredNext
  <1>4. QED
    BY <1>1, <1>2, <1>3 DEF ServerInv, Phase, HeldInv, PersistedInv, RowsInv

(* A move of the store alone keeps what the server knows. *)
LEMMA ServerUnmoved ==
    ASSUME StoreGrows, ServerInv, UNCHANGED server, ScriptNext,
           script.at = "success" => script'.at = "success"
    PROVE  ServerInv'
  <1>0. UNCHANGED <<pc, held, todo, persisted, archive, server_artifacts, copies, job>>
    BY DEF server, loop, mirror
  <1>1. ServerTypes'
    BY <1>0 DEF ServerInv, ServerTypes, ScriptStates, ScriptNext
  <1>2. HeldInv'
    <2>1. Stored(held.id) => StoredNext(held.id) /\ kept'[held.id] = kept[held.id]
      BY StoredStays
    <2>2. QED BY <1>0, <2>1 DEF ServerInv, HeldInv, Stored, StoredNext
  <1>3. PersistedInv'
    <2>1. ASSUME NEW n \in Names, Mirrors(persisted[n], n)
          PROVE  MirrorsNext(persisted[n], n)
      BY <1>0, <2>1, MirrorsStays
    <2>2. QED
      BY <1>0, <2>1 DEF ServerInv, PersistedInv, Mirrors, Stored, MirrorsNext, StoredNext
  <1>4. OutputsInv'
    <2>1. ASSUME NEW n \in Names, Mirrors(job.outputs[n], n)
          PROVE  MirrorsNext(job.outputs[n], n)
      BY <1>0, <2>1, MirrorsStays
    <2>2. QED
      BY <1>0, <2>1 DEF ServerInv, OutputsInv, Mirrors, Stored, MirrorsNext, StoredNext
  <1>5. ScriptInv'
    BY DEF ScriptNext, ScriptInv, Stored, StoredNext
  <1>6. QED
    BY <1>0, <1>1, <1>2, <1>3, <1>4, <1>5 DEF ServerInv, Phase, RowsInv

(* A script that does not move is still sound after a move of the store. *)
LEMMA ScriptStays ==
    ASSUME StoreGrows, ServerInv, script' = script
    PROVE  ScriptNext
  <1>1. ASSUME NEW n \in Names, script.out[n] # 0
        PROVE  StoredNext(script.out[n])
    BY <1>1, StoredStays DEF ServerInv, ScriptInv
  <1>2. QED BY <1>1 DEF ServerInv, ServerTypes, ScriptInv, ScriptStates, ScriptNext

(* The script and the registration of its outputs keep what the server     *)
(* knows.                                                                  *)
LEMMA ScriptMovesInv ==
    ASSUME StoreInv, StoreGrows, ServerInv,
           ScriptEnds \/ RunnerStart \/ \E n \in Names : RegisterEnds(n)
    PROVE  ServerInv'
  <1>0. script \in ScriptStates /\ UNCHANGED server
    BY DEF ServerInv, ServerTypes, ScriptStates, ScriptEnds, RunnerStart, RegisterEnds
  <1>1. ASSUME NEW n \in Names, script.out[n] # 0
        PROVE  StoredNext(script.out[n])
    BY <1>1, StoredStays DEF ServerInv, ScriptInv
  <1>2. ASSUME script' = [script EXCEPT !.at = "failed"], script.at # "success"
        PROVE  ServerInv'
    <2>1. script' \in ScriptStates /\ script'.out = script.out /\ script'.at = "failed"
      BY <1>0, <1>2 DEF ScriptStates
    <2>2. QED BY <1>0, <1>1, <1>2, <2>1, ServerUnmoved DEF ScriptNext
  <1>3. CASE script' = script
    BY <1>0, <1>3, ScriptStays, ServerUnmoved
  <1>4. CASE RunnerStart
    BY <1>2, <1>3, <1>4 DEF RunnerStart
  <1>5. CASE ScriptEnds
    <2>1. script' = [script EXCEPT !.at = "success"] /\ \A n \in Names : script.out[n] # 0
      BY <1>5 DEF ScriptEnds, Unregistered
    <2>2. script' \in ScriptStates /\ script'.out = script.out /\ script'.at = "success"
      BY <1>0, <2>1 DEF ScriptStates
    <2>3. QED BY <1>0, <1>1, <2>1, <2>2, ServerUnmoved DEF ScriptNext
  (* An output is added, or the script has failed.                         *)
  <1>6. ASSUME NEW n \in Names, RegisterEnds(n)
        PROVE  ServerInv'
    <2>0. script.at = "running"
      BY <1>6 DEF RegisterEnds
    <2>1. CASE writer["job"].at = "done"
      <3>1. PICK i \in Ids : i = writer["job"].id /\ Stored(i)
        BY <2>1 DEF StoreInv, WriterInv, Stored
      <3>2. script' = [script EXCEPT !.out[n] = i] /\ StoredNext(i)
        BY <1>6, <2>1, <3>1, StoredStays DEF RegisterEnds
      <3>3. /\ script'.out = [script.out EXCEPT ![n] = i] /\ script' \in ScriptStates
            /\ script'.at = "running"
        BY <1>0, <2>0, <3>2 DEF ScriptStates
      <3>4. \A m \in Names : script'.out[m] # 0 => StoredNext(script'.out[m])
        BY <1>0, <1>1, <3>2, <3>3 DEF ScriptStates
      <3>5. QED BY <1>0, <2>0, <3>3, <3>4, ServerUnmoved DEF ScriptNext
    <2>2. CASE writer["job"].at # "done"
      BY <1>2, <1>6, <2>0, <2>2 DEF RegisterEnds
    <2>3. QED BY <2>1, <2>2
  <1>7. QED BY <1>4, <1>5, <1>6

(* The steps after which the loop holds no artifact of the runner. *)
LEMMA LoopFreeInv ==
    ASSUME StoreInv, StoreGrows, ServerInv,
           \/ SourceMissing \/ create_source_archive \/ create_source_archive_Fails
           \/ UploadBegins \/ UploadRefused \/ UploadFails \/ UploadBroken
           \/ FirstStarts \/ FirstUnreachable \/ PollFailed \/ DownloadFails
           \/ ServerCrash
    PROVE  ServerInv'
  <1>0. /\ job \in JobRows /\ archive \in {None, Whole, Cut}
        /\ pc = "git" => job.status = "pending" /\ LoopTypes
    BY DEF ServerInv, ServerTypes, JobRows, LoopTypes, Phase
  <1>1. LoopTypes' /\ pc' \in {"idle", "git", "upload"}
    <2>1. CASE UploadRefused \/ PollFailed
      <3>1. pc = "idle" /\ UNCHANGED loop
        BY <2>1 DEF UploadRefused, PollFailed
      <3>2. QED BY <3>1 DEF loop, LoopTypes, ServerInv, ServerTypes
    <2>2. CASE ~(UploadRefused \/ PollFailed)
      <3>1. GoTo("idle") \/ GoTo("git") \/ GoTo("upload")
        BY <2>2 DEF SourceMissing, create_source_archive, create_source_archive_Fails,
           UploadBegins, UploadFails, UploadBroken, FirstStarts, FirstUnreachable,
           DownloadFails, ServerCrash
      <3>2. QED BY <3>1, GoToTypes
    <2>3. QED BY <2>1, <2>2
  <1>2. pc' # "idle" => job'.status = "pending"
    <2>1. CASE SourceMissing \/ UploadBegins
      BY <2>1 DEF SourceMissing, UploadBegins
    <2>2. CASE ~(SourceMissing \/ UploadBegins)
      BY <2>2, GoToTypes DEF create_source_archive, create_source_archive_Fails,
         UploadRefused, UploadFails, UploadBroken, FirstStarts, FirstUnreachable,
         PollFailed, DownloadFails, ServerCrash, loop, GoTo
    <2>3. QED BY <2>1, <2>2
  <1>3. UNCHANGED <<server_artifacts, copies>> /\ archive' \in {None, Whole, Cut}
    BY <1>0 DEF SourceMissing, create_source_archive, create_source_archive_Fails,
       UploadBegins, UploadRefused, UploadFails, UploadBroken, FirstStarts,
       FirstUnreachable, PollFailed, DownloadFails, ServerCrash, mirror
  <1>4. job' \in JobRows /\ (job'.status = "success" => job' = job)
    <2>1. CASE RetryOrFail
      BY <2>1, RetryTypes DEF ServerInv
    <2>2. CASE job' = job
      BY <1>0, <2>2
    <2>3. CASE FirstStarts
      <3>1. \E s \in {"running", "failed"} : job' = [job EXCEPT !.status = s]
        BY <2>3 DEF FirstStarts
      <3>2. QED BY <1>0, <3>1 DEF JobRows
    <2>4. QED
      BY <2>1, <2>2, <2>3 DEF SourceMissing, create_source_archive,
         create_source_archive_Fails, UploadBegins, UploadRefused, UploadFails,
         UploadBroken, FirstUnreachable, PollFailed, DownloadFails, ServerCrash
  <1>5. ScriptNext
    <2>1. CASE script' = script
      BY <2>1, ScriptStays
    <2>2. CASE script' = [attempt |-> job.attempt, at |-> "running", out |-> NoOutputs]
      <3>1. script' \in ScriptStates
        BY <1>0, <2>2 DEF ScriptStates, JobRows, NoOutputs
      <3>2. \A n \in Names : script'.out[n] = 0
        BY <2>2 DEF NoOutputs
      <3>3. script'.at = "running"
        BY <2>2
      <3>4. QED BY <3>1, <3>2, <3>3 DEF ScriptNext
    <2>3. QED
      BY <2>1, <2>2 DEF SourceMissing, create_source_archive,
         create_source_archive_Fails, UploadBegins, UploadRefused, UploadFails,
         UploadBroken, FirstStarts, FirstUnreachable, PollFailed, DownloadFails,
         ServerCrash, runner
  <1>6. QED BY <1>1, <1>2, <1>3, <1>4, <1>5, JobMoved

(* The steps that read an artifact of the runner, or lose the reply.       *)
LEMMA LoopHoldsInv ==
    ASSUME StoreInv, StoreGrows, ServerInv,
           \/ UploadAnswered \/ DownloadEnds \/ RunnerCrash
           \/ \E n \in Names : DownloadBegins(n)
    PROVE  ServerInv'
  <1>0. /\ UNCHANGED <<script, todo, persisted, archive, server_artifacts, copies, job>>
        /\ held \in Held
    BY DEF UploadAnswered, DownloadEnds, RunnerCrash, DownloadBegins, runner, mirror,
       ServerInv, ServerTypes
  <1>1. ScriptInv'
    BY <1>0, ScriptStays DEF ScriptNext, ScriptInv, Stored, StoredNext
  <1>2. OutputsInv'
    <2>1. ASSUME NEW n \in Names, Mirrors(job.outputs[n], n)
          PROVE  MirrorsNext(job.outputs[n], n)
      BY <1>0, <2>1, MirrorsStays
    <2>2. QED
      BY <1>0, <2>1 DEF ServerInv, OutputsInv, Mirrors, Stored, MirrorsNext, StoredNext
  <1>3. /\ pc' \in {"create", "download", "mirror"} \/ pc' = pc
        /\ pc' = "create" => pc \in {"upload", "create"}
        /\ pc' \in {"poll", "download", "mirror"} => pc \in {"poll", "download", "mirror"}
    BY DEF UploadAnswered, DownloadEnds, RunnerCrash, DownloadBegins
  <1>4. Phase'
    BY <1>0, <1>3 DEF ServerInv, ServerTypes, Phase, ScriptInv
  <1>5. PersistedInv'
    <2>1. ASSUME NEW n \in Names, Mirrors(persisted[n], n)
          PROVE  MirrorsNext(persisted[n], n)
      BY <1>0, <2>1, MirrorsStays
    <2>2. QED
      BY <1>0, <1>3, <2>1
         DEF ServerInv, PersistedInv, Mirrors, Stored, MirrorsNext, StoredNext
  <1>6. held' \in Held /\ HeldInv'
    <2>0. Stored(held.id) => StoredNext(held.id) /\ kept'[held.id] = kept[held.id]
      BY StoredStays
    <2>1. CASE UploadAnswered
      <3>1. PICK i \in Ids : i = writer["upload"].id
        BY <2>1 DEF UploadAnswered, StoreInv, WriterInv
      <3>2. held' = [id |-> i, bytes |-> None] /\ pc' = "create"
        BY <2>1, <3>1 DEF UploadAnswered
      <3>3. QED BY <3>2, IdNumbers DEF HeldInv, Held
    <2>2. ASSUME NEW n \in Names, DownloadBegins(n)
          PROVE  held' \in Held /\ HeldInv'
      <3>1. PICK i \in Ids : i = script.out[n] /\ Stored(i)
        <4>1. script.out[n] # 0
          BY <2>2 DEF DownloadBegins, ServerInv, Phase, ScriptInv
        <4>2. QED BY <4>1 DEF ServerInv, ScriptInv, Stored
      <3>2. held' = [id |-> i, bytes |-> None] /\ pc' = "download"
        BY <2>2, <3>1 DEF DownloadBegins
      <3>3. StoredNext(i)
        BY <3>1, StoredStays
      <3>4. QED BY <3>2, <3>3, IdNumbers DEF HeldInv, Held, Stored, StoredNext
    <2>3. CASE DownloadEnds
      <3>1. PICK i \in Ids : i = held.id /\ Stored(i)
        BY <2>3 DEF DownloadEnds, Served, ServerInv, HeldInv, Stored
      <3>2. disk[i].blob = kept[i] /\ kept[i] \in Bytes \cup {None}
        BY <2>3, <3>1 DEF DownloadEnds, Served, StoreInv, StoreTypes, DirInv, Keeps, Stored
      <3>3. held' = [held EXCEPT !.bytes = kept[i]] /\ pc' = "mirror"
        BY <2>3, <3>1, <3>2 DEF DownloadEnds
      <3>4. StoredNext(i) /\ kept'[i] = kept[i]
        BY <3>1, StoredStays
      <3>5. held'.id = i /\ held'.bytes = kept[i] /\ held' \in Held
        BY <1>0, <3>1, <3>2, <3>3 DEF Held
      <3>6. QED BY <3>3, <3>4, <3>5 DEF HeldInv, Stored, StoredNext
    <2>4. CASE RunnerCrash
      <3>1. pc' = pc /\ held' = IF pc = "download" THEN NoArtifact ELSE held
        BY <2>4 DEF RunnerCrash
      <3>2. CASE pc = "download"
        BY <3>1, <3>2 DEF HeldInv, NoArtifact, Held
      <3>3. CASE pc # "download"
        BY <1>0, <2>0, <3>1, <3>3 DEF ServerInv, HeldInv, Stored, StoredNext
      <3>4. QED BY <3>2, <3>3
    <2>5. QED BY <2>1, <2>2, <2>3, <2>4
  <1>7. ServerTypes'
    BY <1>0, <1>3, <1>6 DEF ServerInv, ServerTypes
  <1>8. QED
    BY <1>0, <1>1, <1>2, <1>4, <1>5, <1>6, <1>7 DEF ServerInv, RowsInv

(* insert_server_artifact replaces the row of one name. *)
LEMMA RowTypes ==
    ASSUME ServerTypes, NEW name \in {Source} \cup Names, NEW bytes \in Bytes,
           insert_server_artifact(name, bytes)
    PROVE  /\ server_artifacts' \in [{Source} \cup Names -> Held]
           /\ copies' \in [{Source} \cup Names -> Nat]
           /\ server_artifacts'[name].bytes = bytes
           /\ \A n \in {Source} \cup Names :
                 n # name => server_artifacts'[n] = server_artifacts[n]
  <1>1. PICK k \in Nat :
           server_artifacts' = [server_artifacts EXCEPT ![name] = [id |-> k, bytes |-> bytes]]
    <2>1. copies[name] + 1 \in Nat /\ server_artifacts[name].id \in Nat
      BY DEF ServerTypes, Held
    <2>2. QED BY <2>1 DEF insert_server_artifact
  <1>2. [id |-> k, bytes |-> bytes] \in Held
    BY DEF Held
  <1>3. copies' \in [{Source} \cup Names -> Nat]
    BY DEF insert_server_artifact, ServerTypes
  <1>4. QED BY <1>1, <1>2, <1>3 DEF ServerTypes

(* The source archive is no output of a job. *)
LEMMA NamesAndSource == Source \notin Names
  BY DEF Source, Names

(* A poll copies the outputs and the row of the job is written at the end. *)
LEMMA CopyInv ==
    ASSUME StoreInv, StoreGrows, UNCHANGED <<up, store>>, ServerInv,
           \/ SourceStored \/ PollSuccess \/ FirstFinished
           \/ \E n \in Names : OutputMirrored(n)
    PROVE  ServerInv'
  <1>0. ScriptNext /\ UNCHANGED <<kept, script>>
    BY ScriptStays DEF store, SourceStored, PollSuccess, FirstFinished, OutputMirrored,
       runner
  <1>1. ScriptInv'
    BY <1>0 DEF ScriptNext, ScriptInv, Stored, StoredNext
  <1>2. CASE SourceStored
    <2>1. PICK b \in Bytes : insert_server_artifact(Source, b)
      BY <1>2, ByteValues DEF SourceStored, ServerInv, ServerTypes
    <2>2. UNCHANGED <<loop, archive, job>>
      BY <1>2 DEF SourceStored
    <2>3. /\ server_artifacts' \in [{Source} \cup Names -> Held]
          /\ copies' \in [{Source} \cup Names -> Nat]
          /\ server_artifacts'[Source].bytes \in Bytes
          /\ \A n \in {Source} \cup Names :
                n # Source => server_artifacts'[n] = server_artifacts[n]
      BY <2>1, RowTypes DEF ServerInv
    <2>4. \A n \in Names : server_artifacts'[n] = server_artifacts[n]
      BY <2>3, NamesAndSource
    <2>5. ServerTypes'
      BY <1>0, <2>2, <2>3 DEF ServerInv, ServerTypes, loop
    <2>6. RowsInv'
      BY <2>3 DEF ServerInv, RowsInv
    <2>7. PersistedInv' /\ OutputsInv'
      BY <1>0, <2>2, <2>4 DEF ServerInv, PersistedInv, OutputsInv, Mirrors, Stored, loop
    <2>8. QED
      BY <1>0, <1>1, <2>2, <2>5, <2>6, <2>7 DEF ServerInv, Phase, HeldInv, Stored, loop
  <1>3. CASE PollSuccess
    <2>1. /\ UNCHANGED <<archive, server_artifacts, copies, job>>
          /\ pc' = "poll" /\ held' = NoArtifact /\ todo' = Names
          /\ persisted' = NothingPersisted /\ job.status = "running"
          /\ script.at = "success"
      BY <1>3 DEF PollSuccess, mirror
    <2>2. ServerTypes'
      BY <1>0, <2>1 DEF ServerInv, ServerTypes, Held, NoArtifact, NothingPersisted
    <2>3. QED
      BY <1>0, <1>1, <2>1, <2>2
         DEF ServerInv, Phase, HeldInv, PersistedInv, RowsInv, OutputsInv
  <1>4. CASE FirstFinished
    <2>1. /\ UNCHANGED <<archive, server_artifacts, copies>>
          /\ pc = "poll" /\ todo = {} /\ GoTo("idle")
          /\ job' = [job EXCEPT !.status = "success", !.outputs = persisted]
      BY <1>4 DEF FirstFinished, mirror
    <2>2. LoopTypes' /\ pc' = "idle"
      BY <2>1, GoToTypes
    <2>3. /\ persisted \in [Names -> [artifact : Nat, copy : Nat]] /\ job \in JobRows
      BY DEF ServerInv, ServerTypes, JobRows
    <2>4. job' \in JobRows /\ job'.outputs = persisted
      BY <2>1, <2>3 DEF JobRows
    <2>5. ServerTypes'
      BY <1>0, <2>1, <2>2, <2>4 DEF ServerInv, ServerTypes, LoopTypes, JobRows
    <2>6. OutputsInv'
      BY <1>0, <2>1, <2>4 DEF ServerInv, PersistedInv, OutputsInv, Mirrors, Stored
    <2>7. QED
      BY <1>1, <2>1, <2>2, <2>5, <2>6 DEF ServerInv, Phase, HeldInv, PersistedInv, RowsInv
  <1>5. ASSUME NEW n \in Names, OutputMirrored(n)
        PROVE  ServerInv'
    <2>1. /\ pc = "mirror" /\ Stored(held.id) /\ held.bytes = kept[held.id]
          /\ held \in Held /\ job.status = "running"
      BY <1>5 DEF OutputMirrored, ServerInv, ServerTypes, HeldInv, Phase
    <2>2. PICK i \in Ids, b \in Bytes : i = held.id /\ b = held.bytes /\ kept[i] = b
      <3>1. held.bytes \in Bytes
        BY <2>1 DEF Held, Stored
      <3>2. QED BY <2>1, <3>1 DEF Stored
    <2>3. insert_server_artifact(n, b)
      BY <1>5, <2>2 DEF OutputMirrored
    <2>4. /\ server_artifacts' \in [{Source} \cup Names -> Held]
          /\ copies' \in [{Source} \cup Names -> Nat]
          /\ server_artifacts'[n].bytes = b
          /\ \A m \in {Source} \cup Names :
                m # n => server_artifacts'[m] = server_artifacts[m]
      BY <2>3, RowTypes DEF ServerInv
    <2>5. PICK c \in Nat : c = copies[n] + 1
      BY DEF ServerInv, ServerTypes
    <2>6. /\ persisted' = [persisted EXCEPT ![n] = [artifact |-> i, copy |-> c]]
          /\ todo' = todo \ {n} /\ pc' = "poll" /\ held' = NoArtifact
          /\ UNCHANGED <<archive, job>>
      BY <1>5, <2>2, <2>5 DEF OutputMirrored
    <2>7. /\ persisted' \in [Names -> [artifact : Nat, copy : Nat]]
          /\ persisted'[n].artifact = i
          /\ \A m \in Names : m # n => persisted'[m] = persisted[m]
      BY <2>6, IdNumbers DEF ServerInv, ServerTypes
    <2>8. ServerTypes'
      BY <1>0, <2>4, <2>6, <2>7 DEF ServerInv, ServerTypes, Held, NoArtifact
    <2>9. PersistedInv'
      <3>1. b # None
        BY ByteValues
      <3>2. ASSUME NEW m \in Names \ todo'
            PROVE  Mirrors(persisted[m], m)' 
        <4>1. CASE m = n
          BY <1>0, <2>2, <2>4, <2>7, <3>1, <4>1 DEF Mirrors, Stored
        <4>2. CASE m # n
          <5>1. Mirrors(persisted[m], m)
            BY <2>1, <2>6, <4>2 DEF ServerInv, PersistedInv
          <5>2. QED BY <1>0, <2>4, <2>7, <4>2, <5>1 DEF Mirrors, Stored
        <4>3. QED BY <4>1, <4>2
      <3>3. QED BY <3>2 DEF PersistedInv
    <2>10. RowsInv'
      BY <2>4 DEF ServerInv, RowsInv
    <2>11. QED
      BY <1>0, <1>1, <2>1, <2>6, <2>8, <2>9, <2>10
         DEF ServerInv, Phase, HeldInv, OutputsInv
  <1>6. QED BY <1>2, <1>3, <1>4, <1>5

(* A job that is recorded as successful is not written again.              *)
LEMMA ServerStays ==
    ASSUME StoreInv, StoreMove, StoreGrows, ServerInv, [Next]_vars
    PROVE  ServerInv' /\ (job.status = "success" => job' = job)
  <1>1. CASE StoreStep \/ StoreFault \/ TtlPasses \/ UploadUnheard \/ SecondStep
             \/ (\E n \in Names : RegisterBegins(n)) \/ UNCHANGED vars
    <2>1. UNCHANGED <<script, server>>
      BY <1>1 DEF StoreStep, StoreFault, TtlPasses, UploadUnheard, SecondStep,
         ensure_runner_has_artifact, SecondOnSameRunner, SecondReads,
         RegisterBegins, vars, runner
    <2>2. QED BY <2>1, ScriptStays, ServerUnmoved DEF server
  <1>2. CASE ScriptEnds \/ RunnerStart \/ (\E n \in Names : RegisterEnds(n))
    <2>1. UNCHANGED server
      BY <1>2 DEF ScriptEnds, RunnerStart, RegisterEnds
    <2>2. QED BY <1>2, <2>1, ScriptMovesInv DEF server
  <1>3. CASE \/ SourceMissing \/ create_source_archive \/ create_source_archive_Fails
             \/ UploadBegins \/ UploadRefused \/ UploadFails \/ UploadBroken
             \/ FirstStarts \/ FirstUnreachable \/ PollFailed \/ DownloadFails
             \/ ServerCrash
    <2>1. job.status = "success" => job' = job
      BY <1>3 DEF SourceMissing, create_source_archive, create_source_archive_Fails,
         UploadBegins, UploadRefused, UploadFails, UploadBroken, FirstStarts,
         FirstUnreachable, PollFailed, DownloadFails, ServerCrash, ServerInv, Phase
    <2>2. QED BY <1>3, <2>1, LoopFreeInv
  <1>4. CASE \/ UploadAnswered \/ DownloadEnds \/ RunnerCrash
             \/ \E n \in Names : DownloadBegins(n)
    <2>1. job' = job
      BY <1>4 DEF UploadAnswered, DownloadEnds, RunnerCrash, DownloadBegins
    <2>2. QED BY <1>4, <2>1, LoopHoldsInv
  <1>5. CASE \/ SourceStored \/ PollSuccess \/ FirstFinished
             \/ \E n \in Names : OutputMirrored(n)
    <2>1. UNCHANGED <<up, store>>
      BY <1>5 DEF SourceStored, PollSuccess, FirstFinished, OutputMirrored, runner
    <2>2. job.status = "success" => job' = job
      BY <1>5 DEF SourceStored, PollSuccess, FirstFinished, OutputMirrored, ServerInv, Phase
    <2>3. QED BY <1>5, <2>1, <2>2, CopyInv
  <1>6. QED
    BY <1>1, <1>2, <1>3, <1>4, <1>5 DEF Next, RunnerStep, FirstStep

-----------------------------------------------------------------------------
(* The second job *)

(* Only dispatch of the second job and the recording of outputs touch it. *)
LEMMA DownstreamFootprint ==
    ASSUME Next
    PROVE  \/ UNCHANGED <<second, input, got>>
           \/ SecondStep
           \/ FirstStarts
  BY DEF Next, RunnerStep, StoreStep, ScriptEnds, RegisterBegins, RegisterEnds,
     StoreFault, TtlPasses, RunnerCrash, RunnerStart, FirstStep, SourceMissing,
     create_source_archive, SourceStored, UploadBegins, UploadAnswered, UploadFails,
     UploadBroken, FirstUnreachable, PollFailed, PollSuccess, DownloadEnds,
     FirstFinished, DownloadBegins, OutputMirrored, DownloadFails, UploadUnheard,
     UploadRefused, create_source_archive_Fails, ServerCrash, downstream

(* The second job gets what was recorded when the first one succeeded. *)
LEMMA DownstreamStays ==
    ASSUME StoreInv, StoreGrows, ServerInv, DownstreamInv, [Next]_vars,
           job.status = "success" => job' = job
    PROVE  DownstreamInv'
  <1>0. Wanted \in Names /\ 0 \notin Ids
    BY ArtifactsAssumption, IdNumbers DEF Names
  <1>. DEFINE rec == job.outputs[Wanted].artifact
  <1>1. job.status = "success" => /\ Stored(rec) /\ rec \in Ids /\ kept[rec] # None
                                  /\ server_artifacts[Wanted].bytes = kept[rec]
                                  /\ kept'[rec] = kept[rec] /\ kept[rec] \in Bytes
    BY <1>0 DEF ServerInv, OutputsInv, Mirrors, Stored, StoreGrows, StoreInv, StoreTypes
  <1>2. ASSUME UNCHANGED <<second, input, got>>
        PROVE  DownstreamInv'
    BY <1>1, <1>2 DEF DownstreamInv, SecondGetsRecorded, StoreGrows
  <1>3. CASE ensure_runner_has_artifact
    <2>1. /\ job.status = "success" /\ got[2] = None /\ input = 0 /\ UNCHANGED <<second, input>>
          /\ got' = [got EXCEPT ![2] = kept[rec]]
          /\ UNCHANGED <<job, kept, expired>>
      BY <1>1, <1>3 DEF ensure_runner_has_artifact, SecondPending, runner, store, server
    <2>2. QED BY <1>1, <2>1 DEF DownstreamInv, SecondGetsRecorded
  <1>4. CASE SecondOnSameRunner
    <2>1. /\ job.status = "success" /\ got[2] = None /\ input = 0 /\ UNCHANGED second
          /\ UNCHANGED <<job, kept, expired>>
      BY <1>4 DEF SecondOnSameRunner, SecondPending, runner, store, server
    <2>2. CASE Live(rec)
      <3>1. input' = rec /\ got' = got
        BY <1>4, <2>2 DEF SecondOnSameRunner
      <3>2. QED BY <1>1, <2>1, <3>1 DEF DownstreamInv, SecondGetsRecorded
    <2>3. CASE ~Live(rec)
      <3>1. rec \in expired
        BY <1>1, <2>1, <2>3 DEF Live, StoreInv, DirInv, Keeps
      <3>2. input' = input /\ got' = [got EXCEPT ![2] = Rejected]
        BY <1>4, <2>3 DEF SecondOnSameRunner
      <3>3. QED BY <1>1, <2>1, <3>1, <3>2 DEF DownstreamInv, SecondGetsRecorded
    <2>4. QED BY <2>2, <2>3
  <1>5. CASE SecondReads
    <2>1. /\ input = rec /\ job.status = "success" /\ UNCHANGED <<second, input>>
          /\ UNCHANGED <<job, kept, expired>>
          /\ got' = [got EXCEPT ![2] = IF disk[rec].blob = None THEN Gone ELSE disk[rec].blob]
      BY <1>5 DEF SecondReads, DownstreamInv, runner, store, server
    <2>2. disk[rec].blob \in {None, kept[rec]} /\ (rec \notin expired => disk[rec].blob = kept[rec])
      BY <1>1, <2>1 DEF StoreInv, DirInv, Keeps
    <2>3. CASE disk[rec].blob = None
      <3>1. got' = [got EXCEPT ![2] = Gone] /\ rec \in expired
        BY <1>1, <2>1, <2>2, <2>3
      <3>2. QED BY <1>1, <2>1, <3>1 DEF DownstreamInv, SecondGetsRecorded
    <2>4. CASE disk[rec].blob # None
      <3>1. got' = [got EXCEPT ![2] = kept[rec]]
        BY <2>1, <2>2, <2>4
      <3>2. QED BY <1>1, <2>1, <3>1 DEF DownstreamInv, SecondGetsRecorded
    <2>5. QED BY <2>3, <2>4
  <1>6. CASE FirstStarts
    <2>1. job.status # "success" /\ got[2] = None /\ input = 0
      BY <1>6 DEF FirstStarts, ServerInv, Phase, DownstreamInv
    <2>2. UNCHANGED <<second, input>>
      BY <1>6 DEF FirstStarts
    <2>3. got'[2] = None /\ got' \in [{1, 2} -> Bytes \cup {None, Rejected, Gone}]
      <3>1. CASE got' = got
        BY <2>1, <3>1 DEF DownstreamInv
      <3>2. CASE got' = [got EXCEPT ![1] = disk[held.id].blob]
        <4>1. held.id \in Ids
          BY <1>6 DEF FirstStarts, ServerInv, HeldInv
        <4>2. disk[held.id].blob \in Bytes \cup {None}
          BY <4>1 DEF StoreInv, StoreTypes
        <4>3. QED BY <2>1, <3>2, <4>2 DEF DownstreamInv
      <3>3. QED BY <1>6, <3>1, <3>2 DEF FirstStarts
    <2>4. QED BY <2>1, <2>2, <2>3 DEF DownstreamInv, SecondGetsRecorded
  <1>7. QED
    BY <1>2, <1>3, <1>4, <1>5, <1>6, DownstreamFootprint DEF SecondStep, vars, downstream

-----------------------------------------------------------------------------
(* The invariant and what follows from it *)

(* Faults are counted. *)
LEMMA FaultsStay ==
    ASSUME faults \in 0..MaxFaults, [Next]_vars
    PROVE  faults' \in 0..MaxFaults
  <1>1. faults' = faults \/ (faults < MaxFaults /\ faults' = faults + 1)
    BY DEF Next, RunnerStep, StoreStep, ScriptEnds, RegisterBegins, RegisterEnds,
     StoreFault, StoreFails, TtlPasses, RunnerCrash, RunnerStart, FirstStep, SourceMissing,
     create_source_archive, SourceStored, UploadBegins, UploadAnswered, UploadFails,
     UploadBroken, FirstStarts, FirstUnreachable, PollFailed, PollSuccess, DownloadEnds,
     FirstFinished, DownloadBegins, OutputMirrored, DownloadFails, UploadUnheard,
     UploadRefused, create_source_archive_Fails, ServerCrash, SecondStep,
     ensure_runner_has_artifact, SecondOnSameRunner, SecondReads, Fault, vars
  <1>2. QED BY <1>1, ArtifactsAssumption

(* Nothing is stored at first. *)
LEMMA InitHolds == Init => ArtifactsInv
  <1> SUFFICES ASSUME Init
               PROVE  ArtifactsInv
    OBVIOUS
  <1>1. /\ NoDir \in Directories /\ NoDir.blob = None /\ NoDir.metadata = None /\ ~NoDir.dir
        /\ NoWriter.at = "idle"
        /\ NoWriter \in [at : {"idle", "done", "failed"} \cup Files, id : {0} \cup Ids,
                         bytes : Bytes \cup {None}]
        /\ Idle \in [todo : SUBSET Ids, removing : {0} \cup Ids, busy : BOOLEAN]
        /\ Idle.removing = 0
    BY DEF NoDir, Directories, NoWriter, Idle
  <1>2. StoreTypes
    BY <1>1 DEF Init, StoreTypes, Directories
  <1>3. \A w \in {"job", "upload"} : writer[w].at = "idle"
    BY <1>1 DEF Init
  <1>4. ASSUME NEW i \in Ids
        PROVE  DirInv(i)
    <2>1. disk[i] = NoDir /\ kept[i] = None /\ i \notin expired
      BY DEF Init
    <2>2. QED BY <1>1, <2>1 DEF DirInv, Keeps, Accounted
  <1>5. StoreInv
    BY <1>1, <1>2, <1>3, <1>4 DEF Init, StoreInv, WriterInv, TwoWriters, CleanerInv, Files
  <1>6. ServerTypes
    BY ArtifactsAssumption DEF Init, ServerTypes, Attempts, NoOutputs, NoArtifact, Held,
       NothingPersisted
  <1>7. ServerInv
    BY <1>6 DEF Init, ServerInv, Phase, ScriptInv, HeldInv, PersistedInv, RowsInv,
       OutputsInv, NoOutputs
  <1>8. DownstreamInv
    BY DEF Init, DownstreamInv, SecondGetsRecorded
  <1>9. QED BY <1>5, <1>7, <1>8, ArtifactsAssumption DEF Init, ArtifactsInv

(* Every step keeps the invariant. *)
LEMMA NextHolds == ArtifactsInv /\ [Next]_vars => ArtifactsInv'
  <1> SUFFICES ASSUME ArtifactsInv, [Next]_vars
               PROVE  ArtifactsInv'
    OBVIOUS
  <1>1. StoreMove /\ StoreGrows
    BY StoreFootprint, KeptStays DEF ArtifactsInv
  <1>2. StoreInv'
    BY <1>1, StoreStays DEF ArtifactsInv
  <1>3. ServerInv' /\ (job.status = "success" => job' = job)
    BY <1>1, ServerStays DEF ArtifactsInv
  <1>4. DownstreamInv'
    BY <1>1, <1>3, DownstreamStays DEF ArtifactsInv
  <1>5. QED BY <1>2, <1>3, <1>4, FaultsStay DEF ArtifactsInv

(* The inductive invariant of the store, the loop and the copies holds.    *)
THEOREM ArtifactsInvariant == Spec => []ArtifactsInv
  <1>1. QED BY InitHolds, NextHolds, PTL DEF Spec

(* The directories, the writers and the rows keep their types.             *)
THEOREM ArtifactsTypeCorrect == Spec => []ArtifactsTypeOK
  <1>1. ArtifactsInv => ArtifactsTypeOK
    BY DEF ArtifactsInv, StoreInv, StoreTypes, ServerInv, ServerTypes, DownstreamInv,
       ArtifactsTypeOK
  <1>2. QED BY <1>1, ArtifactsInvariant, PTL

(* atomic_write, cleanup_expired, recover_incomplete_artifacts: no file is *)
(* ever half written, and while the runner serves every incomplete         *)
(* directory is being written or removed or belongs to a failed write.     *)
THEOREM DirectoriesStaySound == Spec => []DirectoriesSound
  <1>1. ASSUME ArtifactsInv
        PROVE  NothingTorn
    <2>1. ASSUME NEW i \in Ids
          PROVE  disk[i].blob # Torn /\ disk[i].metadata # Torn
      BY <1>1, ByteValues DEF ArtifactsInv, StoreInv, StoreTypes
    <2>2. QED BY <2>1 DEF NothingTorn
  <1>2. ASSUME ArtifactsInv
        PROVE  NoResidue
    <2>1. DOMAIN writer = {"job", "upload"}
      BY <1>2 DEF ArtifactsInv, StoreInv, StoreTypes
    <2>2. QED BY <1>2, <2>1 DEF ArtifactsInv, StoreInv, DirInv, Accounted, NoResidue
  <1>3. QED BY <1>1, <1>2, ArtifactsInvariant, PTL DEF DirectoriesSound

(* store_bytes: what was returned is on disk, whole, until it expires,     *)
(* whatever is written, removed and recovered next to it.                  *)
THEOREM KeptTillExpiry == Spec => []KeptUntilExpired
  <1>1. ASSUME ArtifactsInv
        PROVE  KeptUntilExpired
    BY <1>1 DEF ArtifactsInv, StoreInv, DirInv, Keeps, KeptUntilExpired, Complete
  <1>2. QED BY <1>1, ArtifactsInvariant, PTL

(* persist_job_outputs, resolve_job_inputs: the second job works with the  *)
(* bytes of the attempt the first is recorded with, for any number of      *)
(* outputs, retries, crashes and lost replies.                             *)
THEOREM RecordedIsUsed == Spec => []SecondGetsRecorded
  <1>1. ArtifactsInv => SecondGetsRecorded
    BY DEF ArtifactsInv, DownstreamInv
  <1>2. QED BY <1>1, ArtifactsInvariant, PTL
=============================================================================
