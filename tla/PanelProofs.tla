---------------------------- MODULE PanelProofs ----------------------------
(***************************************************************************)
(* What the panel does outside its requests.  A restore job implements     *)
(* AtomicRestore, and the panel never runs on a database with the journal  *)
(* of another one: proved for any jobs, failures and archives.  The jobs   *)
(* that the panel keeps in root's crontab leave the lines of others alone: *)
(* proved for any requests, tasks and deaths of the process.               *)
(***************************************************************************)
EXTENDS RestoreJob, PanelJobs, SequenceTheorems, TLAPS

\* The files of an archive: some of the panel's files, at least one.
Cargo == UNION {[S -> Content] : S \in (SUBSET Files) \ {{}}}

Rollback == {"undo_stop", "undo", "undo_start", "report"}
Active == Running \cup Rollback
Final == {"completed", "failed", "rollback_failed"}

JobFields == {"pc", "arc", "cargo", "todo", "snap", "maint", "pub", "err"}
IsJob(r) ==
    /\ DOMAIN r = JobFields
    /\ r.pc \in Active \cup {"none", "queued", "done", "dead", "mute"}
    /\ r.cargo = << >> \/ r.cargo \in Cargo
    /\ r.maint \in BOOLEAN /\ r.pub \in BOOLEAN /\ r.err \in BOOLEAN

TypeOK ==
    /\ disk \in [Files -> Content] /\ panel \in {"up", "down"}
    /\ store \in Seq([id : Nat, files : Cargo]) /\ made \in Nat
    /\ lock \in Jobs \cup {NoJob}
    /\ DOMAIN job = Jobs /\ \A j \in Jobs : IsJob(job[j])
    /\ DOMAIN status = Jobs /\ mixed \in BOOLEAN

\* Who holds the restore lock, what is reported, and how far a job has come.
PhaseAt(j) ==
    /\ job[j].pc \in Active <=> lock = j
    /\ job[j].pc = "none" => status[j] = "none" /\ job[j].cargo = << >> /\ ~job[j].err
    /\ job[j].pc # "none" => job[j].cargo \in Cargo
    /\ job[j].pc \in {"none", "queued"} => ~job[j].maint /\ ~job[j].err
    /\ job[j].pc \in {"queued", "prepare", "stop", "snapshot"} => ~job[j].pub
    /\ job[j].pc \in {"publish", "migrate", "start", "health", "finish", "undo_stop", "undo"} => job[j].pub
    /\ job[j].pc \in Active \cup {"queued", "dead", "mute"} => status[j] \in {"queued", "running"}
    /\ job[j].pc = "done" => status[j] \in Final

PhaseOK == \A j \in Jobs : PhaseAt(j)

\* What a job may have made of a file: nothing, the archive's, or that one migrated.
Possible(r, f) ==
    \/ disk[f] = r.snap[f]
    \/ disk[f] = r.cargo[f]
    \/ f = "db" /\ disk[f].src = r.cargo[f].src /\ disk[f].schema = 1

\* The files of the archive as far as the job has come, and the snapshot of what it found.
FilesOK(r) ==
    /\ DOMAIN r.snap = Manifest(r.cargo) /\ \A f \in DOMAIN r.cargo : r.snap[f] \in Content
    /\ \A f \in DOMAIN r.cargo : Possible(r, f)
    /\ r.pc = "publish" => r.todo \subseteq DOMAIN r.snap /\ \A f \in DOMAIN r.cargo \ r.todo : disk[f] = r.cargo[f]
    /\ r.pc = "migrate" => \A f \in DOMAIN r.cargo : disk[f] = r.cargo[f]
    /\ r.pc \in {"start", "health", "finish"} =>
         /\ disk["db"].schema = 1
         /\ \A f \in DOMAIN r.cargo : disk[f].src = r.cargo[f].src /\ (f # "db" => disk[f] = r.cargo[f])
    /\ r.pc = "undo" => r.todo \subseteq DOMAIN r.snap /\ (~r.err => \A f \in DOMAIN r.cargo \ r.todo : disk[f] = r.snap[f])
    /\ r.pc \in {"undo_start", "report"} /\ ~r.err => \A f \in DOMAIN r.cargo : disk[f] = r.snap[f]

PublishedOK == \A j \in Jobs : lock = j /\ job[j].pub => FilesOK(job[j])

RInv == TypeOK /\ PhaseOK /\ PublishedOK

-----------------------------------------------------------------------------
(* The journal *)

Fitting == wal \in {None, disk["db"].src}
Undisturbed == ~mixed /\ \A j \in Jobs : ~job[j].err /\ job[j].pc # "dead"

\* While files are replaced the panel is down; a journal that the job has to put back
\* belongs to the database that it has to put back.
JournalAt(r) ==
    /\ r.pc \in {"snapshot", "publish", "undo"} => panel = "down"
    /\ r.pc \in (Running \ {"prepare", "stop"}) \cup {"undo_stop", "undo"} => r.maint
    /\ r.pub /\ "wal" \in DOMAIN r.snap => r.snap["wal"].src \in {None, r.snap["db"].src}
    /\ r.pc = "publish" => IF "wal" \in DOMAIN r.snap THEN "wal" \in r.todo \/ wal = None ELSE Fitting
    /\ r.pc = "undo_stop" => Fitting \/ (panel = "down" /\ "wal" \in DOMAIN r.snap)
    /\ r.pc = "undo" => IF "wal" \in DOMAIN r.snap THEN "wal" \in r.todo \/ wal \in {None, r.snap["wal"].src}
                        ELSE Fitting
    /\ r.pc \notin {"publish", "undo_stop", "undo"} => Fitting

JournalOK ==
    Undisturbed => /\ lock = NoJob => Fitting
                   /\ \A j \in Jobs : lock = j => JournalAt(job[j])

JInv == RInv /\ JournalOK


-----------------------------------------------------------------------------
(* What changes when a job takes a step *)

\* Set replaces the record of one job and leaves the others (run_job, _update_status).
LEMMA Updated ==
    ASSUME TypeOK, NEW j \in Jobs, NEW r, IsJob(r), Set(j, r)
    PROVE  /\ DOMAIN job' = Jobs /\ \A k \in Jobs : IsJob(job'[k])
           /\ job'[j] = r /\ \A k \in Jobs \ {j} : job'[k] = job[k]
  BY DEF TypeOK, Set

\* Note replaces the status of one job (status.json of that job).
LEMMA Noted ==
    ASSUME TypeOK, NEW j \in Jobs, NEW s, Note(j, s)
    PROVE  /\ DOMAIN status' = Jobs
           /\ status'[j] = s /\ \A k \in Jobs \ {j} : status'[k] = status[k]
  BY DEF TypeOK, Note

\* Moving a job to another point of run_job keeps everything else it knows.
LEMMA Jumped ==
    ASSUME TypeOK, NEW j \in Jobs, NEW pc \in Active \cup {"none", "queued", "done", "dead", "mute"}
    PROVE  LET r == [job[j] EXCEPT !.pc = pc]
           IN /\ IsJob(r) /\ r.pc = pc /\ r.cargo = job[j].cargo /\ r.todo = job[j].todo /\ r.snap = job[j].snap
              /\ r.maint = job[j].maint /\ r.pub = job[j].pub /\ r.err = job[j].err
  BY DEF TypeOK, IsJob, JobFields

\* The except clause of run_job keeps everything the job knows but its place.
LEMMA Excepted ==
    ASSUME NEW r, IsJob(r)
    PROVE  /\ IsJob(Except(r)) /\ Except(r).cargo = r.cargo /\ Except(r).todo = r.todo /\ Except(r).snap = r.snap
           /\ Except(r).maint = r.maint /\ Except(r).pub = r.pub /\ Except(r).err = r.err
           /\ Except(r).pc = IF r.pub THEN "undo_stop" ELSE IF r.maint THEN "undo_start" ELSE "report"
  BY DEF Except, IsJob, JobFields, Active, Rollback

\* The finally clause ends one job and releases the lock of _global_restore_lock.
LEMMA Ended ==
    ASSUME TypeOK, NEW j \in Jobs, NEW pc \in {"done", "mute"}, End(j, pc)
    PROVE  /\ DOMAIN job' = Jobs /\ \A k \in Jobs : IsJob(job'[k])
           /\ \A k \in Jobs \ {j} : job'[k] = job[k]
           /\ job'[j].pc = pc /\ job'[j].cargo = job[j].cargo /\ job'[j].err = job[j].err
           /\ job'[j].maint = FALSE /\ job'[j].pub = job[j].pub /\ lock' = NoJob
  <1> DEFINE r == [job[j] EXCEPT !.pc = pc, !.snap = << >>, !.todo = {}, !.maint = FALSE]
  <1>1. IsJob(r) /\ r.pc = pc /\ r.cargo = job[j].cargo /\ r.err = job[j].err /\ r.maint = FALSE /\ r.pub = job[j].pub
    BY DEF TypeOK, IsJob, JobFields
  <1>2. Set(j, r) /\ lock' = NoJob
    BY DEF End
  <1> HIDE DEF r
  <1> QED
    BY <1>1, <1>2, Updated


-----------------------------------------------------------------------------
(* Archives and files *)

\* A backup that create_backup makes of the present files is an archive that can be restored.
LEMMA FilesExported ==
    ASSUME TypeOK, NEW T \in SUBSET Files, DOMAIN Exported(T) # {}
    PROVE  Exported(T) \in Cargo
  <1> DEFINE S == {g \in T : disk[g].src # None}
  <1>1. DOMAIN Exported(T) = S /\ \A f \in S : Exported(T)[f] = disk[f]
    BY DEF Exported
  <1>2. S \in (SUBSET Files) \ {{}}
    BY <1>1
  <1>3. Exported(T) \in [S -> Content]
    BY <1>1 DEF Exported, TypeOK
  <1> QED
    BY <1>2, <1>3 DEF Cargo

\* prune_old_backups and the removal of the newest archive leave a sequence of archives.
LEMMA StoreCut ==
    ASSUME NEW A, NEW s \in Seq(A)
    PROVE  /\ Pruned(s) \in Seq(A)
           /\ SubSeq(s, 1, Len(s) - 1) \in Seq(A)
  <1>1. Len(s) \in Nat
    BY LenProperties
  <1>2. ASSUME NEW m \in Int, NEW n \in Int, m >= 1, n <= Len(s)
        PROVE  SubSeq(s, m, n) \in Seq(A)
    BY <1>1, <1>2, SubSeqProperties, ElementOfSeq
  <1>3. SubSeq(s, 1, Len(s) - 1) \in Seq(A)
    BY <1>1, <1>2
  <1>4. CASE Len(s) > Retention
    BY <1>1, <1>2, <1>3, <1>4, RestoreAssumption DEF Pruned
  <1>5. CASE ~(Len(s) > Retention)
    BY <1>3, <1>5 DEF Pruned
  <1> QED
    BY <1>4, <1>5

\* Every archive in backup_root can be restored.
LEMMA StoredFiles ==
    ASSUME TypeOK, NEW i \in DOMAIN store
    PROVE  store[i].files \in Cargo
  <1>1. store \in Seq([id : Nat, files : Cargo])
    BY DEF TypeOK
  <1>2. i \in 1..Len(store)
    BY <1>1, LenProperties
  <1>3. store[i] \in [id : Nat, files : Cargo]
    BY <1>1, <1>2, ElementOfSeq
  <1> QED
    BY <1>3

\* An archive holds files of _is_allowed_target only.
LEMMA CargoFile ==
    ASSUME NEW c \in Cargo, NEW f \in DOMAIN c
    PROVE  f \in Files /\ c[f] \in Content
  BY DEF Cargo

\* _atomic_copy replaces one file.
LEMMA DiskWritten ==
    ASSUME TypeOK, NEW f \in Files, NEW c \in Content, disk' = [disk EXCEPT ![f] = c]
    PROVE  /\ disk' \in [Files -> Content] /\ disk'[f] = c
           /\ \A g \in Files \ {f} : disk'[g] = disk[g]
  BY DEF TypeOK

\* init_db.py --ensure-schema changes the schema of the database and nothing else.
LEMMA DiskMigrated ==
    ASSUME NEW d \in [Files -> Content]
    PROVE  /\ Migrated(d) \in [Files -> Content]
           /\ Migrated(d)["db"].src = d["db"].src /\ Migrated(d)["db"].schema = 1
           /\ \A g \in Files \ {"db"} : Migrated(d)[g] = d[g]
  BY DEF Migrated, Files, Content

\* A file is what it holds and its schema.
LEMMA SameContent ==
    ASSUME NEW a \in Content, NEW b \in Content, a.src = b.src, a.schema = b.schema
    PROVE  a = b
  BY DEF Content


-----------------------------------------------------------------------------
(* Types *)

\* A job inside run_job holds the restore lock and has an archive.
LEMMA Holder ==
    ASSUME PhaseOK, NEW j \in Jobs, job[j].pc \in Active
    PROVE  lock = j /\ job[j].cargo \in Cargo
  BY DEF PhaseOK, PhaseAt, Active, Running, Rollback

\* The types survive the steps that begin and end a job.
LEMMA TypeJob ==
    ASSUME RInv, NEW j \in Jobs, Queue(j) \/ LaunchFails(j) \/ Lock(j) \/ Raise(j) \/ Kill(j) \/ Finish(j) \/ Report(j)
    PROVE  TypeOK'
  <1>0. TypeOK
    BY DEF RInv
  <1>1. CASE Queue(j)
    <2>1. PICK i \in DOMAIN store : Set(j, [Fresh EXCEPT !.pc = "queued", !.arc = store[i].id, !.cargo = store[i].files])
      BY <1>1 DEF Queue
    <2> DEFINE r == [Fresh EXCEPT !.pc = "queued", !.arc = store[i].id, !.cargo = store[i].files]
    <2>2. store[i].files \in Cargo
      BY <1>0, StoredFiles
    <2>3. IsJob(r)
      BY <2>2 DEF IsJob, Fresh, JobFields
    <2> HIDE DEF r
    <2>4. Set(j, r)
      BY <2>1 DEF r
    <2> QED
      BY <1>0, <1>1, <2>3, <2>4, Updated, Noted DEF Queue, TypeOK, others_
  <1>2. CASE LaunchFails(j)
    <2>1. (Go(j, "done") /\ Note(j, "failed")) \/ (Go(j, "mute") /\ UNCHANGED status)
      BY <1>2 DEF LaunchFails
    <2> QED
      BY <1>0, <1>2, <2>1, Jumped, Updated, Noted DEF LaunchFails, Go, TypeOK, others_
  <1>3. CASE Lock(j)
    BY <1>0, <1>3, Jumped, Updated, Noted DEF Lock, Go, TypeOK, others_, Active, Running
  <1>4. CASE Raise(j)
    <2>1. IsJob(job[j])
      BY <1>0 DEF TypeOK
    <2> QED
      BY <1>0, <1>4, <2>1, Excepted, Updated DEF Raise, TypeOK, others_
  <1>5. CASE Kill(j)
    BY <1>0, <1>5, Jumped, Updated DEF Kill, Go, TypeOK, others_
  <1>6. CASE Finish(j)
    BY <1>0, <1>6, Ended, Noted DEF Finish, TypeOK, others_
  <1>7. CASE Report(j)
    <2>1. (End(j, "done") /\ Note(j, Outcome(j))) \/ (End(j, "mute") /\ UNCHANGED status)
      BY <1>7 DEF Report
    <2> QED
      BY <1>0, <1>7, <2>1, Ended, Noted DEF Report, TypeOK, others_
  <1> QED
    BY <1>1, <1>2, <1>3, <1>4, <1>5, <1>6, <1>7

\* The types survive the steps of the restore.
LEMMA TypeForward ==
    ASSUME RInv, NEW j \in Jobs,
           Prepare(j) \/ Stop(j) \/ Snapshot(j) \/ Publish(j) \/ Migrate(j) \/ Start(j) \/ Health(j)
    PROVE  TypeOK'
  <1>0. TypeOK /\ IsJob(job[j])
    BY DEF RInv, TypeOK
  <1>1. CASE Prepare(j)
    BY <1>0, <1>1, Excepted, Jumped, Updated DEF Prepare, Go, TypeOK, others_, Active, Running
  <1>2. CASE Stop(j)
    <2> DEFINE r == [job[j] EXCEPT !.maint = TRUE]
               q == [job[j] EXCEPT !.pc = "snapshot", !.maint = TRUE]
    <2>1. IsJob(r) /\ IsJob(q)
      BY <1>0 DEF IsJob, JobFields, Active, Running
    <2>2. Set(j, q) \/ Set(j, Except(r))
      BY <1>2 DEF Stop
    <2> HIDE DEF r, q
    <2>3. panel' \in {"up", "down"}
      BY <1>0, <1>2 DEF Stop, StopPanel, TypeOK
    <2> QED
      BY <1>0, <1>2, <2>1, <2>2, <2>3, Excepted, Updated DEF Stop, TypeOK, others_
  <1>3. CASE Snapshot(j)
    <2>1. PICK T, S : Set(j, [job[j] EXCEPT !.pc = "publish", !.pub = TRUE, !.todo = T, !.snap = S])
      BY <1>3 DEF Snapshot
    <2> DEFINE r == [job[j] EXCEPT !.pc = "publish", !.pub = TRUE, !.todo = T, !.snap = S]
    <2>2. IsJob(r)
      BY <1>0 DEF IsJob, JobFields, Active, Running
    <2>3. Set(j, r)
      BY <2>1
    <2> HIDE DEF r
    <2> QED
      BY <1>0, <1>3, <2>2, <2>3, Updated DEF Snapshot, TypeOK, others_
  <1>4. CASE Publish(j)
    <2>1. job[j].cargo \in Cargo /\ DOMAIN job[j].snap = Manifest(job[j].cargo) /\ job[j].todo \subseteq DOMAIN job[j].snap
      BY <1>4, Holder DEF Publish, RInv, PhaseOK, PhaseAt, PublishedOK, FilesOK, Active, Running
    <2>2. CASE job[j].todo = {}
      BY <1>0, <1>4, <2>2, Jumped, Updated DEF Publish, Go, TypeOK, others_, Active, Running
    <2>3. CASE job[j].todo # {}
      <3>1. PICK f \in job[j].todo :
               /\ IF f = "wal" THEN wal' = None /\ UNCHANGED disk
                  ELSE disk' = [disk EXCEPT ![f] = job[j].cargo[f]] /\ UNCHANGED wal
               /\ Set(j, [job[j] EXCEPT !.todo = job[j].todo \ {f}])
        BY <1>4, <2>3 DEF Publish
      <3> DEFINE r == [job[j] EXCEPT !.todo = job[j].todo \ {f}]
      <3>2. IsJob(r)
        BY <1>0 DEF IsJob, JobFields
      <3>3. Set(j, r)
        BY <3>1
      <3> HIDE DEF r
      <3>4. disk' \in [Files -> Content]
        BY <1>0, <2>1, <3>1, CargoFile, DiskWritten DEF TypeOK, Manifest
      <3> QED
        BY <1>0, <1>4, <3>2, <3>3, <3>4, Updated DEF Publish, TypeOK, others_
    <2> QED
      BY <2>2, <2>3
  <1>5. CASE Migrate(j)
    BY <1>0, <1>5, DiskMigrated, Jumped, Updated DEF Migrate, Go, TypeOK, others_, Active, Running
  <1>6. CASE Start(j)
    BY <1>0, <1>6, Excepted, Jumped, Updated DEF Start, Go, TypeOK, others_, Active, Running
  <1>7. CASE Health(j)
    BY <1>0, <1>7, Excepted, Jumped, Updated DEF Health, Go, TypeOK, others_, Active, Running
  <1> QED
    BY <1>1, <1>2, <1>3, <1>4, <1>5, <1>6, <1>7


\* The types survive the steps of the rollback.
LEMMA TypeRollback ==
    ASSUME RInv, NEW j \in Jobs, UndoStop(j) \/ Undo(j) \/ UndoStart(j)
    PROVE  TypeOK'
  <1>0. TypeOK /\ IsJob(job[j])
    BY DEF RInv, TypeOK
  <1>1. CASE UndoStop(j)
    <2> DEFINE r == [job[j] EXCEPT !.pc = "undo", !.todo = DOMAIN job[j].snap]
               q == [job[j] EXCEPT !.pc = "undo_start", !.err = TRUE]
    <2>1. IsJob(r) /\ IsJob(q)
      BY <1>0 DEF IsJob, JobFields, Active, Rollback
    <2>2. Set(j, q) \/ Set(j, r)
      BY <1>1 DEF UndoStop
    <2> HIDE DEF r, q
    <2>3. panel' \in {"up", "down"}
      BY <1>0, <1>1 DEF UndoStop, StopPanel, TypeOK
    <2> QED
      BY <1>0, <1>1, <2>1, <2>2, <2>3, Updated DEF UndoStop, TypeOK, others_
  <1>2. CASE Undo(j)
    <2>1. /\ job[j].cargo \in Cargo /\ DOMAIN job[j].snap = Manifest(job[j].cargo)
          /\ job[j].todo \subseteq DOMAIN job[j].snap /\ \A f \in DOMAIN job[j].cargo : job[j].snap[f] \in Content
      BY <1>2, Holder DEF Undo, RInv, PhaseOK, PhaseAt, PublishedOK, FilesOK, Active, Rollback
    <2>2. CASE job[j].todo = {}
      BY <1>0, <1>2, <2>2, Jumped, Updated DEF Undo, Go, TypeOK, others_, Active, Rollback
    <2>3. CASE job[j].todo # {}
      <3>1. PICK f \in job[j].todo :
              \/ /\ Works /\ Set(j, [job[j] EXCEPT !.todo = job[j].todo \ {f}])
                 /\ IF f = "wal" THEN wal' = job[j].snap[f].src /\ UNCHANGED disk
                    ELSE disk' = [disk EXCEPT ![f] = job[j].snap[f]] /\ UNCHANGED wal
              \/ /\ Raises /\ Set(j, [job[j] EXCEPT !.todo = job[j].todo \ {f}, !.err = TRUE])
                 /\ UNCHANGED <<disk, wal>>
        BY <1>2, <2>3 DEF Undo
      <3> DEFINE r == [job[j] EXCEPT !.todo = job[j].todo \ {f}]
                 q == [job[j] EXCEPT !.todo = job[j].todo \ {f}, !.err = TRUE]
      <3>2. IsJob(r) /\ IsJob(q)
        BY <1>0 DEF IsJob, JobFields
      <3>3. Set(j, r) \/ Set(j, q)
        BY <3>1
      <3> HIDE DEF r, q
      <3>4. disk' \in [Files -> Content]
        BY <1>0, <2>1, <3>1, CargoFile, DiskWritten DEF TypeOK, Manifest
      <3> QED
        BY <1>0, <1>2, <3>2, <3>3, <3>4, Updated DEF Undo, TypeOK, others_
    <2> QED
      BY <2>2, <2>3
  <1>3. CASE UndoStart(j)
    <2>1. PICK e \in BOOLEAN : Go(j, "report") \/ Set(j, [job[j] EXCEPT !.pc = "report", !.err = e])
      <3>1. CASE Go(j, "report")
        BY <3>1
      <3>2. CASE Set(j, [job[j] EXCEPT !.pc = "report", !.err = TRUE])
        BY <3>2
      <3>3. CASE Set(j, [job[j] EXCEPT !.pc = "report", !.err = @ \/ \E f \in Files : disk[f].src = Bad])
        <4>1. PICK e \in BOOLEAN : e = (job[j].err \/ \E f \in Files : disk[f].src = Bad)
          OBVIOUS
        <4> QED
          BY <3>3, <4>1
      <3> QED
        BY <1>3, <3>1, <3>2, <3>3 DEF UndoStart
    <2> DEFINE r == [job[j] EXCEPT !.pc = "report", !.err = e]
    <2>2. IsJob(r)
      BY <1>0 DEF IsJob, JobFields, Active, Rollback
    <2>3. Go(j, "report") \/ Set(j, r)
      BY <2>1
    <2> HIDE DEF r
    <2>4. DOMAIN job' = Jobs /\ \A k \in Jobs : IsJob(job'[k])
      BY <1>0, <2>2, <2>3, Jumped, Updated DEF Go, Active, Rollback
    <2>5. panel' \in {"up", "down"}
      BY <1>0, <1>3 DEF UndoStart, TypeOK
    <2> QED
      BY <1>0, <1>3, <2>4, <2>5 DEF UndoStart, TypeOK, others_
  <1> QED
    BY <1>1, <1>2, <1>3

\* The types survive backups, deletions, the panel and backup_cli.py.
LEMMA TypeOthers ==
    ASSUME TypeOK, (\E T \in SUBSET Files : Create(T)) \/ (\E i \in DOMAIN store : Delete(i)) \/ Write \/ CliStop \/ CliStart
    PROVE  TypeOK'
  <1> DEFINE A == [id : Nat, files : Cargo]
  <1>0. store \in Seq(A)
    BY DEF TypeOK
  <1>1. ASSUME NEW T \in SUBSET Files, Create(T)
        PROVE  TypeOK'
    <2> DEFINE new == [id |-> made + 1, files |-> Exported(T)]
               long == Append(store, new)
               kept == Pruned(long)
    <2>1. new \in A
      BY <1>1, FilesExported DEF Create, TypeOK
    <2>2. long \in Seq(A)
      BY <1>0, <2>1, AppendProperties
    <2>3. store' \in {kept, store, SubSeq(kept, 1, Len(kept) - 1)}
      BY <1>1 DEF Create
    <2> HIDE DEF new, A, long, kept
    <2>4. kept \in Seq(A)
      BY <2>2, StoreCut DEF kept
    <2>5. store' \in Seq(A)
      BY <1>0, <2>3, <2>4, StoreCut
    <2> QED
      BY <1>1, <2>5 DEF Create, TypeOK, A
  <1>2. ASSUME NEW i \in DOMAIN store, Delete(i)
        PROVE  TypeOK'
    <2>1. Len(store) \in Nat /\ i \in 1..Len(store)
      BY <1>0, LenProperties
    <2> HIDE DEF A
    <2>2. store \in [1..Len(store) -> A]
      BY <1>0, LenProperties
    <2>3. \A n \in 1..Len(store) - 1 : store[n] \in A /\ store[n + 1] \in A
      BY <2>1, <2>2
    <2>4. store' \in [1..Len(store) - 1 -> A] /\ Len(store) - 1 \in Nat
      BY <1>2, <2>1, <2>3 DEF Delete
    <2> DEFINE n == Len(store) - 1
               s == store'
    <2>5. n \in Nat /\ s \in [1..n -> A]
      BY <2>4
    <2> HIDE DEF n, s
    <2>6. s \in Seq(A)
      BY <2>5, SeqDef
    <2> QED
      BY <1>2, <2>6 DEF Delete, TypeOK, A, s
  <1>3. CASE Write
    BY <1>3 DEF Write, TypeOK, others_
  <1>4. CASE CliStop
    BY <1>4 DEF CliStop, StopPanel, TypeOK
  <1>5. CASE CliStart
    <2>1. mixed' \in BOOLEAN
      BY <1>5 DEF CliStart, TypeOK, Maintenance
    <2> QED
      BY <1>5, <2>1 DEF CliStart, TypeOK
  <1> QED
    BY <1>1, <1>2, <1>3, <1>4, <1>5

\* The types survive every step.
LEMMA TypeStep ==
    ASSUME RInv, [Next]_vars
    PROVE  TypeOK'
  <1>0. TypeOK
    BY DEF RInv
  <1>1. ASSUME NEW j \in Jobs, Queue(j) \/ Step(j) \/ LaunchFails(j) \/ Raise(j) \/ Kill(j)
        PROVE  TypeOK'
    BY <1>1, TypeJob, TypeForward, TypeRollback DEF Step
  <1>2. CASE UNCHANGED vars
    BY <1>0, <1>2 DEF vars, TypeOK
  <1> QED
    BY <1>0, <1>1, <1>2, TypeOthers DEF Next, Requests, CronBackup


-----------------------------------------------------------------------------
(* Phases *)

\* What a step of a job leaves alone.
OthersStay(j) == \A k \in Jobs \ {j} : job'[k] = job[k]

\* A job goes on without touching its plan.
Goes(j, pc) ==
    /\ OthersStay(j) /\ job'[j].pc = pc
    /\ job'[j].cargo = job[j].cargo /\ job'[j].todo = job[j].todo /\ job'[j].snap = job[j].snap
    /\ job'[j].maint = job[j].maint /\ job'[j].pub = job[j].pub /\ job'[j].err = job[j].err

\* The except clause of run_job.
Undoes(j) == Goes(j, IF job[j].pub THEN "undo_stop" ELSE IF job[j].maint THEN "undo_start" ELSE "report")

\* What Go does, field by field.
LEMMA GoGoes ==
    ASSUME TypeOK, NEW j \in Jobs, NEW pc \in Active \cup {"none", "queued", "done", "dead", "mute"}, Go(j, pc)
    PROVE  Goes(j, pc)
  <1> DEFINE r == [job[j] EXCEPT !.pc = pc]
  <1>1. /\ IsJob(r) /\ r.pc = pc /\ r.cargo = job[j].cargo /\ r.todo = job[j].todo /\ r.snap = job[j].snap
        /\ r.maint = job[j].maint /\ r.pub = job[j].pub /\ r.err = job[j].err
    BY Jumped
  <1>2. Set(j, r)
    BY DEF Go
  <1> HIDE DEF r
  <1> QED
    BY <1>1, <1>2, Updated DEF Goes, OthersStay

\* What the except clause does, field by field.
LEMMA ExceptUndoes ==
    ASSUME TypeOK, NEW j \in Jobs, Set(j, Except(job[j]))
    PROVE  Undoes(j)
  <1>1. IsJob(job[j])
    BY DEF TypeOK
  <1> QED
    BY <1>1, Excepted, Updated DEF Undoes, Goes, OthersStay

\* What _create_job does, field by field.
LEMMA QueueStep ==
    ASSUME TypeOK, NEW j \in Jobs, Queue(j)
    PROVE  /\ OthersStay(j) /\ job'[j].pc = "queued" /\ job'[j].cargo \in Cargo
           /\ ~job'[j].maint /\ ~job'[j].pub /\ ~job'[j].err
  <1>1. PICK i \in DOMAIN store : Set(j, [Fresh EXCEPT !.pc = "queued", !.arc = store[i].id, !.cargo = store[i].files])
    BY DEF Queue
  <1> DEFINE r == [Fresh EXCEPT !.pc = "queued", !.arc = store[i].id, !.cargo = store[i].files]
  <1>2. store[i].files \in Cargo
    BY StoredFiles
  <1>3. IsJob(r) /\ r.pc = "queued" /\ r.cargo = store[i].files /\ ~r.maint /\ ~r.pub /\ ~r.err
    BY <1>2 DEF IsJob, Fresh, JobFields
  <1>4. Set(j, r)
    BY <1>1
  <1> HIDE DEF r
  <1> QED
    BY <1>2, <1>3, <1>4, Updated DEF OthersStay

\* What stopping the panel does to the job: the maintenance has begun, whether it worked or not.
LEMMA StopStep ==
    ASSUME TypeOK, NEW j \in Jobs, Stop(j)
    PROVE  /\ OthersStay(j) /\ job'[j].maint = TRUE
           /\ job'[j].cargo = job[j].cargo /\ job'[j].todo = job[j].todo /\ job'[j].snap = job[j].snap
           /\ job'[j].pub = job[j].pub /\ job'[j].err = job[j].err
           /\ \/ job'[j].pc = "snapshot" /\ StopPanel
              \/ job'[j].pc = IF job[j].pub THEN "undo_stop" ELSE "undo_start"
  <1> DEFINE r == [job[j] EXCEPT !.maint = TRUE]
             q == [job[j] EXCEPT !.pc = "snapshot", !.maint = TRUE]
  <1>1. /\ IsJob(r) /\ r.maint = TRUE /\ r.cargo = job[j].cargo /\ r.todo = job[j].todo /\ r.snap = job[j].snap
        /\ r.pub = job[j].pub /\ r.err = job[j].err
    BY DEF TypeOK, IsJob, JobFields
  <1>2. /\ IsJob(q) /\ q.pc = "snapshot" /\ q.maint = TRUE /\ q.cargo = job[j].cargo /\ q.todo = job[j].todo
        /\ q.snap = job[j].snap /\ q.pub = job[j].pub /\ q.err = job[j].err
    BY DEF TypeOK, IsJob, JobFields, Active, Running
  <1>3. (Set(j, q) /\ StopPanel) \/ Set(j, Except(r))
    BY DEF Stop
  <1> HIDE DEF r, q
  <1> QED
    BY <1>1, <1>2, <1>3, Excepted, Updated DEF OthersStay

\* What _snapshot_targets does, field by field.
LEMMA SnapshotStep ==
    ASSUME TypeOK, NEW j \in Jobs, Snapshot(j)
    PROVE  /\ OthersStay(j) /\ job'[j].pc = "publish" /\ job'[j].pub = TRUE
           /\ job'[j].cargo = job[j].cargo /\ job'[j].maint = job[j].maint /\ job'[j].err = job[j].err
           /\ job'[j].todo = Manifest(job[j].cargo)
           /\ job'[j].snap = [f \in Manifest(job[j].cargo) |-> IF f = "wal" THEN File(wal, 1) ELSE disk[f]]
  <1> DEFINE T == Manifest(job[j].cargo)
             S == [f \in T |-> IF f = "wal" THEN File(wal, 1) ELSE disk[f]]
             r == [job[j] EXCEPT !.pc = "publish", !.pub = TRUE, !.todo = T, !.snap = S]
  <1>1. Set(j, r)
    BY DEF Snapshot
  <1> HIDE DEF T, S
  <1>2. /\ IsJob(r) /\ r.pc = "publish" /\ r.pub = TRUE /\ r.todo = T /\ r.snap = S
        /\ r.cargo = job[j].cargo /\ r.maint = job[j].maint /\ r.err = job[j].err
    BY DEF TypeOK, IsJob, JobFields, Active, Running
  <1> HIDE DEF r
  <1>3. /\ OthersStay(j) /\ job'[j] = r
    BY <1>1, <1>2, Updated DEF OthersStay
  <1> QED
    BY <1>2, <1>3 DEF T, S

\* A file is done with.
Ticks(j, f, e) ==
    /\ OthersStay(j) /\ job'[j].pc = job[j].pc /\ job'[j].todo = job[j].todo \ {f} /\ job'[j].err = e
    /\ job'[j].cargo = job[j].cargo /\ job'[j].snap = job[j].snap
    /\ job'[j].maint = job[j].maint /\ job'[j].pub = job[j].pub

\* One file of the manifest is done with.
LEMMA Ticked ==
    ASSUME TypeOK, NEW j \in Jobs, NEW f
    PROVE  /\ Set(j, [job[j] EXCEPT !.todo = job[j].todo \ {f}]) => Ticks(j, f, job[j].err)
           /\ Set(j, [job[j] EXCEPT !.todo = job[j].todo \ {f}, !.err = TRUE]) => Ticks(j, f, TRUE)
  <1> DEFINE T == job[j].todo \ {f}
             r == [job[j] EXCEPT !.todo = T]
             q == [job[j] EXCEPT !.todo = T, !.err = TRUE]
  <1> HIDE DEF T
  <1>1. /\ IsJob(r) /\ r.pc = job[j].pc /\ r.todo = T /\ r.err = job[j].err /\ r.cargo = job[j].cargo
        /\ r.snap = job[j].snap /\ r.maint = job[j].maint /\ r.pub = job[j].pub
    BY DEF TypeOK, IsJob, JobFields
  <1>2. /\ IsJob(q) /\ q.pc = job[j].pc /\ q.todo = T /\ q.err = TRUE /\ q.cargo = job[j].cargo
        /\ q.snap = job[j].snap /\ q.maint = job[j].maint /\ q.pub = job[j].pub
    BY DEF TypeOK, IsJob, JobFields
  <1> HIDE DEF r, q
  <1>3. (Set(j, r) => Ticks(j, f, job[j].err)) /\ (Set(j, q) => Ticks(j, f, TRUE))
    BY <1>1, <1>2, Updated DEF Ticks, OthersStay, T
  <1> QED
    BY <1>3 DEF r, q, T

\* _publish_manifest is finished, or replaces one file; the journal only after the files.
LEMMA PublishStep ==
    ASSUME TypeOK, NEW j \in Jobs, Publish(j)
    PROVE  \/ job[j].todo = {} /\ Goes(j, "migrate") /\ UNCHANGED <<disk, wal>>
           \/ \E f \in job[j].todo :
                /\ Ticks(j, f, job[j].err)
                /\ \/ f = "wal" /\ wal' = None /\ UNCHANGED disk /\ job[j].todo \cap Files = {}
                   \/ f # "wal" /\ disk' = [disk EXCEPT ![f] = job[j].cargo[f]] /\ UNCHANGED wal
  <1>1. CASE job[j].todo = {}
    BY <1>1, GoGoes DEF Publish, Active, Running
  <1>2. CASE job[j].todo # {}
    <2>1. PICK f \in job[j].todo :
             /\ IF f = "wal" THEN wal' = None /\ UNCHANGED disk
                ELSE disk' = [disk EXCEPT ![f] = job[j].cargo[f]] /\ UNCHANGED wal
             /\ Set(j, [job[j] EXCEPT !.todo = job[j].todo \ {f}])
             /\ job[j].todo \cap Files # {} => f \in Files
      BY <1>2 DEF Publish
    <2> QED
      BY <2>1, Ticked DEF Files
  <1> QED
    BY <1>1, <1>2

\* _restore_snapshot is finished, or one file is put back, or one error is noted.
LEMMA UndoStep ==
    ASSUME TypeOK, NEW j \in Jobs, Undo(j)
    PROVE  \/ job[j].todo = {} /\ Goes(j, "undo_start") /\ UNCHANGED <<disk, wal>>
           \/ \E f \in job[j].todo :
                \/ Ticks(j, f, TRUE) /\ UNCHANGED <<disk, wal>>
                \/ /\ Ticks(j, f, job[j].err)
                   /\ \/ f = "wal" /\ wal' = job[j].snap[f].src /\ UNCHANGED disk
                      \/ f # "wal" /\ disk' = [disk EXCEPT ![f] = job[j].snap[f]] /\ UNCHANGED wal
  <1>1. CASE job[j].todo = {}
    BY <1>1, GoGoes DEF Undo, Active, Rollback
  <1>2. CASE job[j].todo # {}
    <2>1. PICK f \in job[j].todo :
            \/ /\ Works /\ Set(j, [job[j] EXCEPT !.todo = job[j].todo \ {f}])
               /\ IF f = "wal" THEN wal' = job[j].snap[f].src /\ UNCHANGED disk
                  ELSE disk' = [disk EXCEPT ![f] = job[j].snap[f]] /\ UNCHANGED wal
            \/ /\ Raises /\ Set(j, [job[j] EXCEPT !.todo = job[j].todo \ {f}, !.err = TRUE])
               /\ UNCHANGED <<disk, wal>>
      BY <1>2 DEF Undo
    <2> QED
      BY <2>1, Ticked
  <1> QED
    BY <1>1, <1>2

\* The rollback goes on with a stopped panel only.
LEMMA UndoStopStep ==
    ASSUME TypeOK, NEW j \in Jobs, UndoStop(j)
    PROVE  /\ OthersStay(j) /\ job'[j].cargo = job[j].cargo /\ job'[j].snap = job[j].snap
           /\ job'[j].maint = job[j].maint /\ job'[j].pub = job[j].pub
           /\ \/ job'[j].pc = "undo" /\ job'[j].todo = DOMAIN job[j].snap /\ job'[j].err = job[j].err /\ StopPanel
              \/ job'[j].pc = "undo_start" /\ job'[j].err = TRUE
  <1> DEFINE T == DOMAIN job[j].snap
             r == [job[j] EXCEPT !.pc = "undo", !.todo = T]
             q == [job[j] EXCEPT !.pc = "undo_start", !.err = TRUE]
  <1>1. (Set(j, r) /\ StopPanel) \/ Set(j, q)
    BY DEF UndoStop
  <1> HIDE DEF T
  <1>2. /\ IsJob(r) /\ r.pc = "undo" /\ r.todo = T /\ r.err = job[j].err /\ r.cargo = job[j].cargo
        /\ r.snap = job[j].snap /\ r.maint = job[j].maint /\ r.pub = job[j].pub
    BY DEF TypeOK, IsJob, JobFields, Active, Rollback
  <1>3. /\ IsJob(q) /\ q.pc = "undo_start" /\ q.err = TRUE /\ q.cargo = job[j].cargo
        /\ q.snap = job[j].snap /\ q.maint = job[j].maint /\ q.pub = job[j].pub
    BY DEF TypeOK, IsJob, JobFields, Active, Rollback
  <1> HIDE DEF r, q
  <1> QED
    BY <1>1, <1>2, <1>3, Updated DEF OthersStay, T

\* Starting the panel after the rollback never loses an error.
LEMMA UndoStartStep ==
    ASSUME TypeOK, NEW j \in Jobs, UndoStart(j)
    PROVE  /\ OthersStay(j) /\ job'[j].cargo = job[j].cargo /\ job'[j].snap = job[j].snap
           /\ job'[j].maint = job[j].maint /\ job'[j].pub = job[j].pub
           /\ job'[j].pc = "report" /\ (job[j].err => job'[j].err)
  <1>1. CASE Go(j, "report")
    BY <1>1, GoGoes DEF Goes, Active, Rollback
  <1>2. ASSUME NEW e \in BOOLEAN, Set(j, [job[j] EXCEPT !.pc = "report", !.err = e]), job[j].err => e
        PROVE  /\ OthersStay(j) /\ job'[j].cargo = job[j].cargo /\ job'[j].snap = job[j].snap
               /\ job'[j].maint = job[j].maint /\ job'[j].pub = job[j].pub
               /\ job'[j].pc = "report" /\ (job[j].err => job'[j].err)
    <2> DEFINE r == [job[j] EXCEPT !.pc = "report", !.err = e]
    <2>1. /\ IsJob(r) /\ r.pc = "report" /\ r.err = e /\ r.cargo = job[j].cargo
          /\ r.snap = job[j].snap /\ r.maint = job[j].maint /\ r.pub = job[j].pub
      BY DEF TypeOK, IsJob, JobFields, Active, Rollback
    <2>2. Set(j, r)
      BY <1>2
    <2> HIDE DEF r
    <2> QED
      BY <1>2, <2>1, <2>2, Updated DEF OthersStay
  <1>3. CASE Set(j, [job[j] EXCEPT !.pc = "report", !.err = TRUE])
    BY <1>2, <1>3
  <1>4. CASE Set(j, [job[j] EXCEPT !.pc = "report", !.err = @ \/ \E f \in Files : disk[f].src = Bad])
    <2>1. PICK e \in BOOLEAN : e = (job[j].err \/ \E f \in Files : disk[f].src = Bad)
      OBVIOUS
    <2>2. Set(j, [job[j] EXCEPT !.pc = "report", !.err = e])
      BY <1>4, <2>1
    <2>3. job[j].err => e
      BY <2>1
    <2> QED
      BY <1>2, <2>2, <2>3
  <1> QED
    BY <1>1, <1>3, <1>4 DEF UndoStart


\* A step of one job leaves the phases of the others in order.
LEMMA PhaseFrame ==
    ASSUME PhaseOK, NEW j \in Jobs, OthersStay(j), PhaseAt(j)',
           \A k \in Jobs \ {j} : status'[k] = status[k] /\ (lock' = k <=> lock = k)
    PROVE  PhaseOK'
  <1>1. ASSUME NEW k \in Jobs \ {j}
        PROVE  PhaseAt(k)'
    BY DEF PhaseOK, PhaseAt, OthersStay
  <1> QED
    BY <1>1 DEF PhaseOK

\* A step of the job that holds the lock, and keeps it.
LEMMA PhaseKept ==
    ASSUME RInv, NEW j \in Jobs, OthersStay(j), UNCHANGED <<lock, status>>, job[j].pc \in Active,
           job'[j].pc \in Active, job'[j].cargo = job[j].cargo,
           job'[j].pc \in {"queued", "prepare", "stop", "snapshot"} => ~job'[j].pub,
           job'[j].pc \in {"publish", "migrate", "start", "health", "finish", "undo_stop", "undo"} => job'[j].pub
    PROVE  PhaseOK'
  <1>1. PhaseOK /\ PhaseAt(j)
    BY DEF RInv, PhaseOK
  <1>2. PhaseAt(j)'
    BY <1>1 DEF PhaseAt, Active, Running, Rollback
  <1> QED
    BY <1>1, <1>2, PhaseFrame

\* Lock, status and phase agree after the steps that begin and end a job.
LEMMA PhaseJob ==
    ASSUME RInv, NEW j \in Jobs, Queue(j) \/ LaunchFails(j) \/ Lock(j) \/ Raise(j) \/ Kill(j) \/ Finish(j) \/ Report(j)
    PROVE  PhaseOK'
  <1>0. TypeOK /\ PhaseOK /\ PhaseAt(j) /\ NoJob \notin Jobs
    BY RestoreAssumption DEF RInv, PhaseOK
  <1>1. CASE Queue(j)
    <2>1. PhaseAt(j)'
      BY <1>0, <1>1, QueueStep, Noted DEF Queue, PhaseAt, Active, Running, Rollback
    <2> QED
      BY <1>0, <1>1, <2>1, QueueStep, Noted, PhaseFrame DEF Queue
  <1>2. CASE LaunchFails(j)
    <2>1. \/ Goes(j, "done") /\ Note(j, "failed")
          \/ Goes(j, "mute") /\ UNCHANGED status
      BY <1>0, <1>2, GoGoes DEF LaunchFails
    <2>2. PhaseAt(j)'
      BY <1>0, <1>2, <2>1, Noted DEF LaunchFails, Goes, PhaseAt, Active, Running, Rollback, Final
    <2> QED
      BY <1>0, <1>2, <2>1, <2>2, Noted, PhaseFrame DEF LaunchFails, Goes
  <1>3. CASE Lock(j)
    <2>1. Goes(j, "prepare")
      BY <1>0, <1>3, GoGoes DEF Lock, Active, Running
    <2>2. PhaseAt(j)'
      BY <1>0, <1>3, <2>1, Noted DEF Lock, Goes, PhaseAt, Active, Running, Rollback
    <2> QED
      BY <1>0, <1>3, <2>1, <2>2, Noted, PhaseFrame DEF Lock, Goes
  <1>4. CASE Raise(j)
    <2>1. Undoes(j)
      BY <1>0, <1>4, ExceptUndoes DEF Raise
    <2> QED
      BY <1>4, <2>1, PhaseKept DEF Raise, Undoes, Goes, Active, Rollback
  <1>5. CASE Kill(j)
    <2>1. Goes(j, "dead")
      BY <1>0, <1>5, GoGoes DEF Kill
    <2>2. PhaseAt(j)'
      BY <1>0, <1>5, <2>1 DEF Kill, Goes, PhaseAt, Active, Running, Rollback
    <2> QED
      BY <1>0, <1>5, <2>1, <2>2, PhaseFrame DEF Kill, Goes
  <1>6. CASE Finish(j) \/ Report(j)
    <2>1. /\ job[j].pc \in Active
          /\ \/ /\ End(j, "done") /\ DOMAIN status' = Jobs /\ status'[j] \in Final
                /\ \A k \in Jobs \ {j} : status'[k] = status[k]
             \/ End(j, "mute") /\ UNCHANGED status
      BY <1>0, <1>6, Noted DEF Finish, Report, Final, Outcome, Active, Running, Rollback
    <2>2. PhaseAt(j)' /\ OthersStay(j)
      BY <1>0, <2>1, Ended DEF PhaseAt, OthersStay, Active, Running, Rollback
    <2>3. lock = j /\ lock' = NoJob
      BY <1>0, <2>1, Ended, Holder
    <2> QED
      BY <1>0, <2>1, <2>2, <2>3, PhaseFrame
  <1> QED
    BY <1>1, <1>2, <1>3, <1>4, <1>5, <1>6

\* Lock, status and phase agree after the steps of the restore.
LEMMA PhaseForward ==
    ASSUME RInv, NEW j \in Jobs,
           Prepare(j) \/ Stop(j) \/ Snapshot(j) \/ Publish(j) \/ Migrate(j) \/ Start(j) \/ Health(j)
    PROVE  PhaseOK'
  <1>0. TypeOK /\ PhaseAt(j)
    BY DEF RInv, PhaseOK
  <1>1. CASE Prepare(j)
    <2>1. Undoes(j) \/ Goes(j, "stop")
      BY <1>0, <1>1, ExceptUndoes, GoGoes DEF Prepare, Active, Running
    <2> QED
      BY <1>0, <1>1, <2>1, PhaseKept DEF Prepare, Undoes, Goes, PhaseAt, Active, Running, Rollback
  <1>2. CASE Stop(j)
    BY <1>0, <1>2, StopStep, PhaseKept DEF Stop, PhaseAt, Active, Running, Rollback
  <1>3. CASE Snapshot(j)
    BY <1>0, <1>3, SnapshotStep, PhaseKept DEF Snapshot, PhaseAt, Active, Running, Rollback
  <1>4. CASE Publish(j)
    <2>1. Goes(j, "migrate") \/ \E f \in job[j].todo : Ticks(j, f, job[j].err)
      BY <1>0, <1>4, PublishStep
    <2> QED
      BY <1>0, <1>4, <2>1, PhaseKept DEF Publish, Goes, Ticks, PhaseAt, Active, Running, Rollback
  <1>5. CASE Migrate(j)
    <2>1. Goes(j, "start")
      BY <1>0, <1>5, GoGoes DEF Migrate, Active, Running
    <2> QED
      BY <1>0, <1>5, <2>1, PhaseKept DEF Migrate, Goes, PhaseAt, Active, Running, Rollback
  <1>6. CASE Start(j)
    <2>1. Undoes(j) \/ Goes(j, "health")
      BY <1>0, <1>6, ExceptUndoes, GoGoes DEF Start, Active, Running
    <2> QED
      BY <1>0, <1>6, <2>1, PhaseKept DEF Start, Undoes, Goes, PhaseAt, Active, Running, Rollback
  <1>7. CASE Health(j)
    <2>1. Undoes(j) \/ Goes(j, "finish")
      BY <1>0, <1>7, ExceptUndoes, GoGoes DEF Health, Active, Running
    <2> QED
      BY <1>0, <1>7, <2>1, PhaseKept DEF Health, Undoes, Goes, PhaseAt, Active, Running, Rollback
  <1> QED
    BY <1>1, <1>2, <1>3, <1>4, <1>5, <1>6, <1>7

\* Lock, status and phase agree after the steps of the rollback.
LEMMA PhaseRollback ==
    ASSUME RInv, NEW j \in Jobs, UndoStop(j) \/ Undo(j) \/ UndoStart(j)
    PROVE  PhaseOK'
  <1>0. TypeOK /\ PhaseAt(j)
    BY DEF RInv, PhaseOK
  <1>1. CASE UndoStop(j)
    BY <1>0, <1>1, UndoStopStep, PhaseKept DEF UndoStop, PhaseAt, Active, Rollback
  <1>2. CASE Undo(j)
    <2>1. Goes(j, "undo_start") \/ \E f \in job[j].todo : Ticks(j, f, TRUE) \/ Ticks(j, f, job[j].err)
      BY <1>0, <1>2, UndoStep
    <2> QED
      BY <1>0, <1>2, <2>1, PhaseKept DEF Undo, Goes, Ticks, PhaseAt, Active, Rollback
  <1>3. CASE UndoStart(j)
    BY <1>0, <1>3, UndoStartStep, PhaseKept DEF UndoStart, PhaseAt, Active, Rollback
  <1> QED
    BY <1>1, <1>2, <1>3

\* Lock, status and phase agree after every step.
LEMMA PhaseStep ==
    ASSUME RInv, [Next]_vars
    PROVE  PhaseOK'
  <1>0. PhaseOK
    BY DEF RInv
  <1>1. ASSUME NEW j \in Jobs, Queue(j) \/ Step(j) \/ LaunchFails(j) \/ Raise(j) \/ Kill(j)
        PROVE  PhaseOK'
    BY <1>1, PhaseJob, PhaseForward, PhaseRollback DEF Step
  <1>2. ASSUME UNCHANGED <<lock, job, status>>
        PROVE  PhaseOK'
    BY <1>0, <1>2 DEF PhaseOK, PhaseAt
  <1>3. CASE UNCHANGED vars
    BY <1>2, <1>3 DEF vars
  <1>4. ASSUME NEW T, Create(T)
        PROVE  PhaseOK'
    BY <1>2, <1>4 DEF Create
  <1>5. ASSUME NEW i, Delete(i)
        PROVE  PhaseOK'
    BY <1>2, <1>5 DEF Delete
  <1>6. CASE Write \/ CliStop \/ CliStart
    BY <1>2, <1>6 DEF Write, CliStop, CliStart
  <1> QED
    BY <1>1, <1>3, <1>4, <1>5, <1>6 DEF Next, Requests, CronBackup


-----------------------------------------------------------------------------
(* What is on the disk *)

\* Only the files of the job that holds the lock matter.
LEMMA PublishedFrame ==
    ASSUME NEW j \in Jobs, lock' = j, job'[j].pub => FilesOK(job[j])'
    PROVE  PublishedOK'
  BY DEF PublishedOK

\* An exception leaves the files as they are; each of them is still old or new.
LEMMA PublishedBack ==
    ASSUME PublishedOK, NEW j \in Jobs, lock = j, lock' = j, UNCHANGED disk, Undoes(j)
    PROVE  PublishedOK'
  <1>1. ASSUME job'[j].pub
        PROVE  FilesOK(job[j])'
    <2>1. job[j].pub
      BY <1>1 DEF Undoes, Goes
    <2>2. FilesOK(job[j])
      BY <2>1 DEF PublishedOK
    <2>3. job'[j].pc = "undo_stop" /\ job'[j].cargo = job[j].cargo /\ job'[j].snap = job[j].snap
      BY <2>1 DEF Undoes, Goes
    <2> QED
      BY <2>2, <2>3 DEF FilesOK, Possible
  <1> QED
    BY <1>1, PublishedFrame

\* What is on the disk is accounted for when a job begins and ends.
LEMMA PublishedJob ==
    ASSUME RInv, NEW j \in Jobs, Queue(j) \/ LaunchFails(j) \/ Lock(j) \/ Raise(j) \/ Kill(j) \/ Finish(j) \/ Report(j)
    PROVE  PublishedOK'
  <1>0. TypeOK /\ PhaseOK /\ PhaseAt(j) /\ PublishedOK /\ NoJob \notin Jobs
    BY RestoreAssumption DEF RInv, PhaseOK
  <1>1. CASE Queue(j)
    <2>1. lock' = lock /\ lock # j /\ OthersStay(j) /\ disk' = disk
      BY <1>0, <1>1, QueueStep DEF Queue, PhaseAt, Active, Running, Rollback
    <2> QED
      BY <1>0, <2>1 DEF PublishedOK, OthersStay, FilesOK, Possible
  <1>2. CASE LaunchFails(j)
    <2>1. lock' = lock /\ lock # j /\ OthersStay(j) /\ disk' = disk
      BY <1>0, <1>2, GoGoes DEF LaunchFails, Goes, PhaseAt, Active, Running, Rollback
    <2> QED
      BY <1>0, <2>1 DEF PublishedOK, OthersStay, FilesOK, Possible
  <1>3. CASE Lock(j)
    <2>1. Goes(j, "prepare")
      BY <1>0, <1>3, GoGoes DEF Lock, Active, Running
    <2>2. ~job'[j].pub /\ lock' = j
      BY <1>0, <1>3, <2>1 DEF Lock, Goes, PhaseAt
    <2> QED
      BY <2>2, PublishedFrame
  <1>4. CASE Raise(j)
    <2>1. Undoes(j)
      BY <1>0, <1>4, ExceptUndoes DEF Raise
    <2>2. lock = j /\ lock' = j
      BY <1>0, <1>4, Holder DEF Raise, Active
    <2> QED
      BY <1>0, <1>4, <2>1, <2>2, PublishedBack DEF Raise
  <1>5. CASE Kill(j)
    <2>1. Goes(j, "dead")
      BY <1>0, <1>5, GoGoes DEF Kill
    <2>2. lock' # j /\ (lock' = NoJob \/ lock' = lock) /\ disk' = disk
      BY <1>0, <1>5 DEF Kill
    <2> QED
      BY <1>0, <2>1, <2>2 DEF PublishedOK, OthersStay, Goes, FilesOK, Possible
  <1>6. CASE Finish(j) \/ Report(j)
    BY <1>0, <1>6, Ended DEF Finish, Report, PublishedOK
  <1> QED
    BY <1>1, <1>2, <1>3, <1>4, <1>5, <1>6

\* What is on the disk is accounted for in every step of the restore.
LEMMA PublishedForward ==
    ASSUME RInv, NEW j \in Jobs,
           Prepare(j) \/ Stop(j) \/ Snapshot(j) \/ Publish(j) \/ Migrate(j) \/ Start(j) \/ Health(j)
    PROVE  PublishedOK'
  <1>0. TypeOK /\ PhaseOK /\ PhaseAt(j) /\ PublishedOK
    BY DEF RInv, PhaseOK
  <1>a. lock = j /\ lock' = j /\ job[j].cargo \in Cargo
    BY <1>0, Holder DEF Prepare, Stop, Snapshot, Publish, Migrate, Start, Health, Active, Running
  <1>b. job[j].pub => FilesOK(job[j])
    BY <1>0, <1>a DEF PublishedOK
  <1>1. CASE Prepare(j)
    <2>1. (Undoes(j) \/ Goes(j, "stop")) /\ ~job[j].pub
      BY <1>0, <1>1, ExceptUndoes, GoGoes DEF Prepare, PhaseAt, Active, Running
    <2>2. ~job'[j].pub
      BY <2>1 DEF Undoes, Goes
    <2> QED
      BY <1>a, <2>2, PublishedFrame
  <1>2. CASE Stop(j)
    <2>1. ~job'[j].pub
      BY <1>0, <1>2, StopStep DEF Stop, PhaseAt
    <2> QED
      BY <1>a, <2>1, PublishedFrame
  <1>3. CASE Snapshot(j)
    <2>1. DOMAIN job'[j].snap = Manifest(job[j].cargo)
      BY <1>0, <1>3, SnapshotStep
    <2>2. ASSUME NEW f \in DOMAIN job[j].cargo
          PROVE  job'[j].snap[f] = disk[f] /\ disk'[f] = disk[f] /\ disk[f] \in Content /\ f \in job'[j].todo
      <3>1. f \in Files /\ f # "wal" /\ f \in Manifest(job[j].cargo)
        BY <1>a, CargoFile DEF Files, Manifest
      <3> QED
        BY <1>0, <1>3, <3>1, SnapshotStep, ZenonT(60) DEF Snapshot, TypeOK
    <2>3. FilesOK(job[j])'
      BY <1>0, <1>3, <2>1, <2>2, SnapshotStep DEF FilesOK, Possible
    <2> QED
      BY <1>a, <2>3, PublishedFrame
  <1>4. CASE Publish(j)
    <2>1. job[j].pc = "publish" /\ FilesOK(job[j])
      BY <1>0, <1>4, <1>b DEF Publish, PhaseAt
    <2>2. CASE job[j].todo = {} /\ Goes(j, "migrate") /\ UNCHANGED <<disk, wal>>
      <3>1. FilesOK(job[j])'
        BY <2>1, <2>2 DEF FilesOK, Possible, Goes
      <3> QED
        BY <1>a, <3>1, PublishedFrame
    <2>3. ASSUME NEW f \in job[j].todo, Ticks(j, f, job[j].err), f = "wal", UNCHANGED disk
          PROVE  PublishedOK'
      <3>1. "wal" \notin DOMAIN job[j].cargo
        BY <1>a, CargoFile DEF Files
      <3>2. FilesOK(job[j])'
        BY <2>1, <2>3, <3>1 DEF FilesOK, Possible, Ticks
      <3> QED
        BY <1>a, <3>2, PublishedFrame
    <2>4. ASSUME NEW f \in job[j].todo, Ticks(j, f, job[j].err), f # "wal", disk' = [disk EXCEPT ![f] = job[j].cargo[f]]
          PROVE  PublishedOK'
      <3>1. f \in DOMAIN job[j].cargo
        BY <2>1, <2>4 DEF FilesOK, Manifest
      <3>2. disk'[f] = job[j].cargo[f] /\ \A g \in Files \ {f} : disk'[g] = disk[g]
        BY <1>0, <1>a, <2>4, <3>1, CargoFile, DiskWritten
      <3>3. \A g \in DOMAIN job[j].cargo : g \in Files
        BY <1>a, CargoFile
      <3>4. FilesOK(job[j])'
        BY <2>1, <2>4, <3>1, <3>2, <3>3 DEF FilesOK, Possible, Ticks
      <3> QED
        BY <1>a, <3>4, PublishedFrame
    <2> QED
      BY <1>0, <1>4, <2>2, <2>3, <2>4, PublishStep
  <1>5. CASE Migrate(j)
    <2>1. job[j].pc = "migrate" /\ FilesOK(job[j]) /\ Goes(j, "start")
      BY <1>0, <1>5, <1>b, GoGoes DEF Migrate, PhaseAt, Active, Running
    <2>2. /\ disk'["db"].src = disk["db"].src /\ disk'["db"].schema = 1
          /\ \A g \in Files \ {"db"} : disk'[g] = disk[g]
      BY <1>0, <1>5, DiskMigrated DEF Migrate, TypeOK
    <2>3. \A g \in DOMAIN job[j].cargo : g \in Files
      BY <1>a, CargoFile
    <2>4. FilesOK(job[j])'
      BY <2>1, <2>2, <2>3 DEF FilesOK, Possible, Goes
    <2> QED
      BY <1>a, <2>4, PublishedFrame
  <1>6. CASE Start(j)
    <2>1. job[j].pc = "start" /\ FilesOK(job[j]) /\ (Undoes(j) \/ Goes(j, "health")) /\ disk' = disk
      BY <1>0, <1>6, <1>b, ExceptUndoes, GoGoes DEF Start, PhaseAt, Active, Running
    <2>2. CASE Undoes(j)
      BY <1>0, <1>a, <2>1, <2>2, PublishedBack
    <2>3. CASE Goes(j, "health")
      <3>1. FilesOK(job[j])'
        BY <2>1, <2>3 DEF FilesOK, Possible, Goes
      <3> QED
        BY <1>a, <3>1, PublishedFrame
    <2> QED
      BY <2>1, <2>2, <2>3
  <1>7. CASE Health(j)
    <2>1. job[j].pc = "health" /\ FilesOK(job[j]) /\ (Undoes(j) \/ Goes(j, "finish")) /\ disk' = disk
      BY <1>0, <1>7, <1>b, ExceptUndoes, GoGoes DEF Health, PhaseAt, Active, Running
    <2>2. CASE Undoes(j)
      BY <1>0, <1>a, <2>1, <2>2, PublishedBack
    <2>3. CASE Goes(j, "finish")
      <3>1. FilesOK(job[j])'
        BY <2>1, <2>3 DEF FilesOK, Possible, Goes
      <3> QED
        BY <1>a, <3>1, PublishedFrame
    <2> QED
      BY <2>1, <2>2, <2>3
  <1> QED
    BY <1>1, <1>2, <1>3, <1>4, <1>5, <1>6, <1>7

\* What is on the disk is accounted for in every step of the rollback.
LEMMA PublishedRollback ==
    ASSUME RInv, NEW j \in Jobs, UndoStop(j) \/ Undo(j) \/ UndoStart(j)
    PROVE  PublishedOK'
  <1>0. TypeOK /\ PhaseOK /\ PhaseAt(j) /\ PublishedOK
    BY DEF RInv, PhaseOK
  <1>a. lock = j /\ lock' = j /\ job[j].cargo \in Cargo
    BY <1>0, Holder DEF UndoStop, Undo, UndoStart, Active, Rollback
  <1>b. job[j].pub => FilesOK(job[j])
    BY <1>0, <1>a DEF PublishedOK
  <1>c. \A g \in DOMAIN job[j].cargo : g \in Files /\ g # "wal"
    BY <1>a, CargoFile DEF Files
  <1>1. CASE UndoStop(j)
    <2>1. FilesOK(job[j]) /\ disk' = disk /\ job[j].pc = "undo_stop"
      BY <1>0, <1>1, <1>b DEF UndoStop, PhaseAt
    <2>2. DOMAIN job[j].cargo \subseteq DOMAIN job[j].snap
      BY <2>1 DEF FilesOK, Manifest
    <2>3. /\ job'[j].cargo = job[j].cargo /\ job'[j].snap = job[j].snap
          /\ \/ job'[j].pc = "undo" /\ job'[j].todo = DOMAIN job[j].snap
             \/ job'[j].pc = "undo_start" /\ job'[j].err
      BY <1>0, <1>1, UndoStopStep
    <2>4. FilesOK(job[j])'
      BY <2>1, <2>2, <2>3 DEF FilesOK, Possible
    <2> QED
      BY <1>a, <2>4, PublishedFrame
  <1>2. CASE Undo(j)
    <2>1. job[j].pc = "undo" /\ FilesOK(job[j])
      BY <1>0, <1>2, <1>b DEF Undo, PhaseAt
    <2>2. CASE job[j].todo = {} /\ Goes(j, "undo_start") /\ UNCHANGED <<disk, wal>>
      <3>1. FilesOK(job[j])'
        BY <2>1, <2>2 DEF FilesOK, Possible, Goes
      <3> QED
        BY <1>a, <3>1, PublishedFrame
    <2>3. ASSUME NEW f \in job[j].todo, Ticks(j, f, TRUE), UNCHANGED disk
          PROVE  PublishedOK'
      <3>1. FilesOK(job[j])'
        BY <2>1, <2>3 DEF FilesOK, Possible, Ticks
      <3> QED
        BY <1>a, <3>1, PublishedFrame
    <2>4. ASSUME NEW f \in job[j].todo, Ticks(j, f, job[j].err), f = "wal", UNCHANGED disk
          PROVE  PublishedOK'
      <3>1. FilesOK(job[j])'
        BY <1>c, <2>1, <2>4 DEF FilesOK, Possible, Ticks
      <3> QED
        BY <1>a, <3>1, PublishedFrame
    <2>5. ASSUME NEW f \in job[j].todo, Ticks(j, f, job[j].err), f # "wal", disk' = [disk EXCEPT ![f] = job[j].snap[f]]
          PROVE  PublishedOK'
      <3>1. f \in DOMAIN job[j].cargo
        BY <2>1, <2>5 DEF FilesOK, Manifest
      <3>2. disk'[f] = job[j].snap[f] /\ \A g \in Files \ {f} : disk'[g] = disk[g]
        BY <1>0, <1>c, <2>1, <2>5, <3>1, DiskWritten DEF FilesOK
      <3>3. FilesOK(job[j])'
        BY <1>c, <2>1, <2>5, <3>1, <3>2 DEF FilesOK, Possible, Ticks
      <3> QED
        BY <1>a, <3>3, PublishedFrame
    <2> QED
      BY <1>0, <1>2, <2>2, <2>3, <2>4, <2>5, UndoStep
  <1>3. CASE UndoStart(j)
    <2>1. job[j].pc = "undo_start" /\ disk' = disk /\ job'[j].err \in BOOLEAN
      BY <1>3, TypeRollback DEF UndoStart, TypeOK, IsJob
    <2>2. ASSUME job'[j].pub
          PROVE  FilesOK(job[j])'
      BY <1>0, <1>3, <1>b, <2>1, <2>2, UndoStartStep DEF FilesOK, Possible
    <2> QED
      BY <1>a, <2>2, PublishedFrame
  <1> QED
    BY <1>1, <1>2, <1>3

\* What is on the disk is accounted for after every step.
LEMMA PublishedStep ==
    ASSUME RInv, [Next]_vars
    PROVE  PublishedOK'
  <1>0. PublishedOK
    BY DEF RInv
  <1>1. ASSUME NEW j \in Jobs, Queue(j) \/ Step(j) \/ LaunchFails(j) \/ Raise(j) \/ Kill(j)
        PROVE  PublishedOK'
    BY <1>1, PublishedJob, PublishedForward, PublishedRollback DEF Step
  <1>2. ASSUME UNCHANGED <<lock, job, disk>>
        PROVE  PublishedOK'
    BY <1>0, <1>2 DEF PublishedOK, FilesOK, Possible
  <1>3. CASE UNCHANGED vars
    BY <1>2, <1>3 DEF vars
  <1>4. ASSUME NEW T, Create(T)
        PROVE  PublishedOK'
    BY <1>2, <1>4 DEF Create
  <1>5. ASSUME NEW i, Delete(i)
        PROVE  PublishedOK'
    BY <1>2, <1>5 DEF Delete
  <1>6. CASE Write \/ CliStop \/ CliStart
    BY <1>2, <1>6 DEF Write, CliStop, CliStart
  <1> QED
    BY <1>1, <1>3, <1>4, <1>5, <1>6 DEF Next, Requests, CronBackup


-----------------------------------------------------------------------------
(* The invariant *)

\* The invariant holds at the start.
LEMMA RInit == Init => RInv
  <1> SUFFICES ASSUME Init PROVE RInv
    OBVIOUS
  <1>1. IsJob(Fresh) /\ Fresh.pc = "none" /\ Fresh.cargo = << >> /\ ~Fresh.maint /\ ~Fresh.err
    BY DEF Fresh, IsJob, JobFields
  <1>2. DOMAIN job = Jobs /\ DOMAIN status = Jobs /\ \A j \in Jobs : job[j] = Fresh /\ status[j] = "none"
    BY DEF Init
  <1>3. \A s \in {Old, First, Bad, None}, n \in {0, 1} : File(s, n) \in Content
    BY DEF File, Content
  <1>4. disk \in [Files -> Content]
    BY <1>3 DEF Init, Files
  <1>5. store \in Seq([id : Nat, files : Cargo])
    <2> DEFINE a == [f \in Files |-> File(First, IF f = "db" THEN 0 ELSE 1)]
               b == [f \in {"data"} |-> File(Bad, 1)]
    <2>1. a \in [Files -> Content] /\ b \in [{"data"} -> Content]
      BY <1>3
    <2>2. Files \in (SUBSET Files) \ {{}} /\ {"data"} \in (SUBSET Files) \ {{}}
      BY DEF Files
    <2>3. a \in Cargo /\ b \in Cargo
      BY <2>1, <2>2 DEF Cargo
    <2>4. store = << [id |-> 1, files |-> a], [id |-> 2, files |-> b] >>
      BY DEF Init
    <2> HIDE DEF a, b
    <2> QED
      BY <2>3, <2>4
  <1>6. TypeOK
    BY <1>1, <1>2, <1>4, <1>5 DEF Init, TypeOK
  <1>7. PhaseOK
    BY <1>1, <1>2, RestoreAssumption DEF Init, PhaseOK, PhaseAt, Active, Running, Rollback
  <1>8. PublishedOK
    BY RestoreAssumption DEF Init, PublishedOK
  <1> QED
    BY <1>6, <1>7, <1>8 DEF RInv

\* In every reachable state lock, status and phase of the jobs agree, and every file of a running
\* restore is the one of its snapshot, the one of its archive, or that one migrated (run_job).
THEOREM RestoreInvariance == Spec => []RInv
  <1>1. RInv /\ [Next]_vars => RInv'
    BY TypeStep, PhaseStep, PublishedStep DEF RInv
  <1> QED
    BY <1>1, RInit, PTL DEF Spec


-----------------------------------------------------------------------------
(* The journal fits the database *)

\* A disturbance, an error of a rollback or a killed job, is never forgotten.
LEMMA Calm ==
    ASSUME Undisturbed', NEW j \in Jobs, OthersStay(j), mixed' = mixed,
           job[j].err => job'[j].err, job[j].pc # "dead"
    PROVE  Undisturbed
  BY DEF Undisturbed, OthersStay

\* For a step of the job that holds the lock it is enough to look at that job.
LEMMA JournalKept ==
    ASSUME JInv, NEW j \in Jobs, job[j].pc \in Active, lock' = lock, OthersStay(j), mixed' = mixed,
           job[j].err => job'[j].err,
           JournalAt(job[j]) /\ ~job'[j].err => JournalAt(job[j])'
    PROVE  JournalOK'
  <1> SUFFICES ASSUME Undisturbed'
               PROVE  (lock = j) /\ JournalAt(job[j])' /\ j # NoJob
    BY DEF JournalOK
  <1>1. lock = j /\ j # NoJob
    BY Holder, RestoreAssumption DEF JInv, RInv
  <1>2. Undisturbed
    BY Calm DEF Active, Running, Rollback
  <1>3. JournalAt(job[j])
    BY <1>1, <1>2 DEF JInv, JournalOK
  <1>4. ~job'[j].err
    BY DEF Undisturbed
  <1> QED
    BY <1>1, <1>3, <1>4

\* An exception does not part the journal from its database.
LEMMA JournalUndoes ==
    ASSUME RInv, NEW j \in Jobs, job[j].pc \in Running, UNCHANGED <<disk, wal, panel>>, Undoes(j), JournalAt(job[j])
    PROVE  JournalAt(job[j])'
  <1>1. lock = j /\ (job[j].pc \in {"prepare", "stop", "snapshot"} <=> ~job[j].pub)
    BY DEF RInv, PhaseOK, PhaseAt, Active, Running
  <1>2. Fitting' <=> Fitting
    BY DEF Fitting
  <1>3. CASE job[j].pub
    <2>1. job'[j].pc = "undo_stop" /\ job'[j].maint = job[j].maint /\ job'[j].snap = job[j].snap /\ job'[j].pub = job[j].pub
      BY <1>3 DEF Undoes, Goes
    <2>2. job[j].maint
      BY <1>1, <1>3 DEF JournalAt
    <2> QED
      BY <1>2, <2>1, <2>2 DEF JournalAt, Running
  <1>4. CASE ~job[j].pub
    <2>1. job'[j].pc \in {"undo_start", "report"} /\ ~job'[j].pub
      BY <1>4 DEF Undoes, Goes
    <2> QED
      BY <1>1, <1>2, <1>4, <2>1 DEF JournalAt, Running
  <1> QED
    BY <1>3, <1>4

\* Journal and database fit when a job begins and ends.
LEMMA JournalJob ==
    ASSUME JInv, NEW j \in Jobs, Queue(j) \/ LaunchFails(j) \/ Lock(j) \/ Raise(j) \/ Kill(j) \/ Finish(j) \/ Report(j)
    PROVE  JournalOK'
  <1>0. RInv /\ TypeOK /\ PhaseOK /\ PhaseAt(j) /\ JournalOK /\ NoJob \notin Jobs
    BY RestoreAssumption DEF JInv, RInv, PhaseOK
  <1>1. CASE Queue(j) \/ LaunchFails(j)
    <2>1. /\ lock' = lock /\ lock # j /\ OthersStay(j) /\ UNCHANGED <<disk, wal, panel, mixed>>
          /\ (job[j].err => job'[j].err) /\ job[j].pc # "dead"
      BY <1>0, <1>1, QueueStep, GoGoes DEF Queue, LaunchFails, others_, Goes, PhaseAt, Active, Running, Rollback
    <2> SUFFICES ASSUME Undisturbed'
                 PROVE  (lock = NoJob => Fitting) /\ \A k \in Jobs \ {j} : lock = k => JournalAt(job[k])
      BY <2>1 DEF JournalOK, JournalAt, Fitting, OthersStay
    <2>2. Undisturbed
      BY <2>1, Calm
    <2> QED
      BY <1>0, <2>2 DEF JournalOK
  <1>2. CASE Lock(j)
    <2>1. Goes(j, "prepare") /\ ~job[j].pub
      BY <1>0, <1>2, GoGoes DEF Lock, PhaseAt, Active, Running
    <2> SUFFICES ASSUME Undisturbed'
                 PROVE  JournalAt(job[j])'
      BY <1>0, <1>2 DEF Lock, JournalOK
    <2>2. Undisturbed
      BY <1>2, <2>1, Calm DEF Lock, Goes, others_
    <2>3. Fitting
      BY <1>0, <1>2, <2>2 DEF Lock, JournalOK
    <2> QED
      BY <1>2, <2>1, <2>3 DEF Lock, Goes, JournalAt, Fitting, Running
  <1>3. CASE Raise(j)
    <2>1. Undoes(j)
      BY <1>0, <1>3, ExceptUndoes DEF Raise
    <2>2. job[j].pc \in Running /\ UNCHANGED <<disk, wal, panel, lock, mixed>>
      BY <1>3 DEF Raise, others_
    <2>3. JournalAt(job[j]) => JournalAt(job[j])'
      BY <1>0, <2>1, <2>2, JournalUndoes
    <2> QED
      BY <2>1, <2>2, <2>3, JournalKept DEF Undoes, Goes, Active
  <1>4. CASE Kill(j)
    <2>1. Goes(j, "dead")
      BY <1>0, <1>4, GoGoes DEF Kill
    <2> QED
      BY <2>1 DEF Goes, JournalOK, Undisturbed
  <1>5. CASE Finish(j) \/ Report(j)
    <2>1. /\ End(j, "done") \/ End(j, "mute")
          /\ job[j].pc \in {"finish", "report"} /\ UNCHANGED <<disk, wal, mixed>>
      BY <1>5 DEF Finish, Report, others_
    <2>2. lock = j /\ lock' = NoJob /\ OthersStay(j) /\ job'[j].err = job[j].err
      BY <1>0, <2>1, Ended, Holder DEF OthersStay, Active, Running, Rollback
    <2> SUFFICES ASSUME Undisturbed'
                 PROVE  Fitting'
      BY <1>0, <2>2 DEF JournalOK
    <2>3. Undisturbed
      BY <2>1, <2>2, Calm
    <2>4. Fitting
      BY <1>0, <2>1, <2>2, <2>3 DEF JournalOK, JournalAt
    <2> QED
      BY <2>1, <2>4 DEF Fitting
  <1> QED
    BY <1>1, <1>2, <1>3, <1>4, <1>5

\* Journal and database fit, or the panel is down, in every step of the restore.
LEMMA JournalForward ==
    ASSUME JInv, NEW j \in Jobs,
           Prepare(j) \/ Stop(j) \/ Snapshot(j) \/ Publish(j) \/ Migrate(j) \/ Start(j) \/ Health(j)
    PROVE  JournalOK'
  <1>0. RInv /\ TypeOK /\ PhaseOK /\ PhaseAt(j)
    BY DEF JInv, RInv, PhaseOK
  <1>a. lock = j /\ lock' = lock /\ mixed' = mixed /\ job[j].pc \in Active /\ job[j].cargo \in Cargo
    BY <1>0, Holder DEF Prepare, Stop, Snapshot, Publish, Migrate, Start, Health, others_, Active, Running
  <1>b. job[j].pub => FilesOK(job[j])
    BY <1>0, <1>a DEF RInv, PublishedOK
  <1>1. CASE Prepare(j)
    <2>1. CASE Undoes(j)
      BY <1>0, <1>1, <1>a, <2>1, JournalUndoes, JournalKept DEF Prepare, Undoes, Goes, Running
    <2>2. CASE Goes(j, "stop")
      <3>1. JournalAt(job[j]) => JournalAt(job[j])'
        BY <1>0, <1>1, <2>2 DEF Prepare, Goes, JournalAt, Fitting, Running, PhaseAt
      <3> QED
        BY <1>a, <2>2, <3>1, JournalKept DEF Goes
    <2> QED
      BY <1>0, <1>1, <2>1, <2>2, ExceptUndoes, GoGoes DEF Prepare, Active, Running
  <1>2. CASE Stop(j)
    <2>1. job[j].pc = "stop" /\ ~job[j].pub /\ disk' = disk /\ wal' \in {wal, None}
      BY <1>0, <1>2 DEF Stop, StopPanel, PhaseAt
    <2>2. /\ OthersStay(j) /\ job'[j].maint = TRUE /\ ~job'[j].pub /\ job'[j].err = job[j].err
          /\ (job'[j].pc = "snapshot" /\ panel' = "down") \/ job'[j].pc = "undo_start"
      BY <1>0, <1>2, <2>1, StopStep DEF StopPanel
    <2>3. JournalAt(job[j]) => JournalAt(job[j])'
      BY <2>1, <2>2 DEF JournalAt, Fitting, Running
    <2> QED
      BY <1>a, <2>2, <2>3, JournalKept
  <1>3. CASE Snapshot(j)
    <2>1. job[j].pc = "snapshot" /\ UNCHANGED <<disk, wal, panel>>
      BY <1>3 DEF Snapshot
    <2>2. /\ job'[j].pc = "publish" /\ job'[j].maint = job[j].maint /\ job'[j].todo = Manifest(job[j].cargo)
          /\ DOMAIN job'[j].snap = Manifest(job[j].cargo)
          /\ \A f \in Manifest(job[j].cargo) : job'[j].snap[f] = IF f = "wal" THEN File(wal, 1) ELSE disk[f]
          /\ OthersStay(j) /\ job'[j].err = job[j].err
      BY <1>0, <1>3, SnapshotStep
    <2>3. "wal" \in Manifest(job[j].cargo) => /\ job'[j].snap["wal"].src = wal /\ job'[j].snap["db"] = disk["db"]
      <3>1. "wal" \notin DOMAIN job[j].cargo
        BY <1>a, CargoFile DEF Files
      <3>2. "wal" \in Manifest(job[j].cargo) => "db" \in Manifest(job[j].cargo)
        BY <3>1 DEF Manifest
      <3> QED
        BY <2>2, <3>2 DEF File
    <2>4. JournalAt(job[j]) => JournalAt(job[j])'
      BY <2>1, <2>2, <2>3 DEF JournalAt, Fitting, Running
    <2> QED
      BY <1>a, <2>2, <2>4, JournalKept
  <1>4. CASE Publish(j)
    <2>1. job[j].pc = "publish" /\ FilesOK(job[j]) /\ panel' = panel
      BY <1>0, <1>4, <1>b DEF Publish, PhaseAt
    <2>2. CASE job[j].todo = {} /\ Goes(j, "migrate") /\ UNCHANGED <<disk, wal>>
      <3>1. JournalAt(job[j]) => JournalAt(job[j])'
        BY <2>1, <2>2 DEF Goes, JournalAt, Fitting, Running
      <3> QED
        BY <1>a, <2>2, <3>1, JournalKept DEF Goes
    <2>3. ASSUME NEW f \in job[j].todo, Ticks(j, f, job[j].err), f = "wal", UNCHANGED disk, wal' = None
          PROVE  JournalOK'
      <3>1. JournalAt(job[j]) => JournalAt(job[j])'
        BY <2>1, <2>3 DEF Ticks, JournalAt, Fitting, Running
      <3> QED
        BY <1>a, <2>3, <3>1, JournalKept DEF Ticks
    <2>4. ASSUME NEW f \in job[j].todo, Ticks(j, f, job[j].err), f # "wal", UNCHANGED wal,
                 disk' = [disk EXCEPT ![f] = job[j].cargo[f]]
          PROVE  JournalOK'
      <3>1. f \in Files /\ ("wal" \notin DOMAIN job[j].snap => f # "db")
        BY <1>a, <2>1, <2>4, CargoFile DEF FilesOK, Manifest
      <3>2. "wal" \notin DOMAIN job[j].snap => disk'["db"] = disk["db"]
        BY <1>0, <2>4, <3>1 DEF TypeOK, Files
      <3>3. JournalAt(job[j]) => JournalAt(job[j])'
        BY <2>1, <2>4, <3>2 DEF Ticks, JournalAt, Fitting, Running
      <3> QED
        BY <1>a, <2>4, <3>3, JournalKept DEF Ticks
    <2> QED
      BY <1>0, <1>4, <2>2, <2>3, <2>4, PublishStep
  <1>5. CASE Migrate(j)
    <2>1. job[j].pc = "migrate" /\ Goes(j, "start") /\ UNCHANGED <<wal, panel>>
      BY <1>0, <1>5, GoGoes DEF Migrate, Active, Running
    <2>2. disk'["db"].src = disk["db"].src
      BY <1>0, <1>5, DiskMigrated DEF Migrate, TypeOK
    <2>3. JournalAt(job[j]) => JournalAt(job[j])'
      BY <2>1, <2>2 DEF Goes, JournalAt, Fitting, Running
    <2> QED
      BY <1>a, <2>1, <2>3, JournalKept DEF Goes
  <1>6. CASE Start(j)
    <2>1. CASE Undoes(j) /\ UNCHANGED panel
      BY <1>0, <1>6, <1>a, <2>1, JournalUndoes, JournalKept DEF Start, Undoes, Goes, Running
    <2>2. CASE Goes(j, "health")
      <3>1. JournalAt(job[j]) => JournalAt(job[j])'
        BY <1>0, <1>6, <2>2 DEF Start, Goes, JournalAt, Fitting, Running
      <3> QED
        BY <1>a, <2>2, <3>1, JournalKept DEF Goes
    <2> QED
      BY <1>0, <1>6, <2>1, <2>2, ExceptUndoes, GoGoes DEF Start, Active, Running
  <1>7. CASE Health(j)
    <2>1. CASE Undoes(j)
      BY <1>0, <1>7, <1>a, <2>1, JournalUndoes, JournalKept DEF Health, Undoes, Goes, Running
    <2>2. CASE Goes(j, "finish")
      <3>1. JournalAt(job[j]) => JournalAt(job[j])'
        BY <1>0, <1>7, <2>2 DEF Health, Goes, JournalAt, Fitting, Running
      <3> QED
        BY <1>a, <2>2, <3>1, JournalKept DEF Goes
    <2> QED
      BY <1>0, <1>7, <2>1, <2>2, ExceptUndoes, GoGoes DEF Health, Active, Running
  <1> QED
    BY <1>1, <1>2, <1>3, <1>4, <1>5, <1>6, <1>7


\* Journal and database fit, or the panel is down, in every step of the rollback.
LEMMA JournalRollback ==
    ASSUME JInv, NEW j \in Jobs, UndoStop(j) \/ Undo(j) \/ UndoStart(j)
    PROVE  JournalOK'
  <1>0. RInv /\ TypeOK /\ PhaseOK /\ PhaseAt(j)
    BY DEF JInv, RInv, PhaseOK
  <1>a. lock = j /\ lock' = lock /\ mixed' = mixed /\ job[j].pc \in Active /\ job[j].cargo \in Cargo
    BY <1>0, Holder DEF UndoStop, Undo, UndoStart, others_, Active, Rollback
  <1>b. job[j].pub => FilesOK(job[j])
    BY <1>0, <1>a DEF RInv, PublishedOK
  <1>1. CASE UndoStop(j)
    <2>1. job[j].pc = "undo_stop" /\ disk' = disk /\ wal' \in {wal, None}
      BY <1>1 DEF UndoStop, StopPanel
    <2>2. /\ OthersStay(j) /\ job'[j].snap = job[j].snap /\ job'[j].maint = job[j].maint /\ job'[j].pub = job[j].pub
          /\ job[j].err => job'[j].err
          /\ ~job'[j].err => job'[j].pc = "undo" /\ job'[j].todo = DOMAIN job[j].snap /\ panel' = "down"
      BY <1>0, <1>1, UndoStopStep DEF StopPanel
    <2>3. JournalAt(job[j]) /\ ~job'[j].err => JournalAt(job[j])'
      BY <2>1, <2>2 DEF JournalAt, Fitting, Running
    <2> QED
      BY <1>a, <2>2, <2>3, JournalKept
  <1>2. CASE Undo(j)
    <2>1. job[j].pc = "undo" /\ job[j].pub /\ FilesOK(job[j]) /\ panel' = panel
      BY <1>0, <1>2, <1>b DEF Undo, PhaseAt
    <2>2. CASE job[j].todo = {} /\ Goes(j, "undo_start") /\ UNCHANGED <<disk, wal>>
      <3>1. "wal" \notin DOMAIN job[j].cargo
        BY <1>a, CargoFile DEF Files
      <3>2. "wal" \in DOMAIN job[j].snap => "db" \in DOMAIN job[j].cargo
        BY <2>1, <3>1 DEF FilesOK, Manifest
      <3>3. ~job[j].err /\ "wal" \in DOMAIN job[j].snap => disk["db"] = job[j].snap["db"]
        BY <2>1, <2>2, <3>2 DEF FilesOK
      <3>4. JournalAt(job[j]) /\ ~job'[j].err => JournalAt(job[j])'
        BY <2>1, <2>2, <3>3 DEF Goes, JournalAt, Fitting, Running
      <3> QED
        BY <1>a, <2>2, <3>4, JournalKept DEF Goes
    <2>3. ASSUME NEW f \in job[j].todo, Ticks(j, f, TRUE)
          PROVE  JournalOK'
      BY <1>a, <2>3, JournalKept DEF Ticks
    <2>4. ASSUME NEW f \in job[j].todo, Ticks(j, f, job[j].err), f = "wal", UNCHANGED disk, wal' = job[j].snap[f].src
          PROVE  JournalOK'
      <3>1. "wal" \in DOMAIN job[j].snap
        BY <2>1, <2>4 DEF FilesOK
      <3>2. JournalAt(job[j]) => JournalAt(job[j])'
        BY <2>1, <2>4, <3>1 DEF Ticks, JournalAt, Fitting, Running
      <3> QED
        BY <1>a, <2>4, <3>2, JournalKept DEF Ticks
    <2>5. ASSUME NEW f \in job[j].todo, Ticks(j, f, job[j].err), f # "wal", UNCHANGED wal,
                 disk' = [disk EXCEPT ![f] = job[j].snap[f]]
          PROVE  JournalOK'
      <3>1. f \in Files /\ ("wal" \notin DOMAIN job[j].snap => f # "db")
        BY <1>a, <2>1, <2>5, CargoFile DEF FilesOK, Manifest
      <3>2. "wal" \notin DOMAIN job[j].snap => disk'["db"] = disk["db"]
        BY <1>0, <2>5, <3>1 DEF TypeOK, Files
      <3>3. JournalAt(job[j]) => JournalAt(job[j])'
        BY <2>1, <2>5, <3>2 DEF Ticks, JournalAt, Fitting, Running
      <3> QED
        BY <1>a, <2>5, <3>3, JournalKept DEF Ticks
    <2> QED
      BY <1>0, <1>2, <2>2, <2>3, <2>4, <2>5, UndoStep
  <1>3. CASE UndoStart(j)
    <2>1. job[j].pc = "undo_start" /\ UNCHANGED <<disk, wal>>
      BY <1>3 DEF UndoStart
    <2>2. /\ OthersStay(j) /\ job'[j].snap = job[j].snap /\ job'[j].pub = job[j].pub
          /\ job'[j].pc = "report" /\ (job[j].err => job'[j].err)
      BY <1>0, <1>3, UndoStartStep
    <2>3. JournalAt(job[j]) => JournalAt(job[j])'
      BY <2>1, <2>2 DEF JournalAt, Fitting, Running
    <2> QED
      BY <1>a, <2>2, <2>3, JournalKept
  <1> QED
    BY <1>1, <1>2, <1>3

\* Steps of the panel and of backup_cli.py: the panel is not started in the middle of a
\* restore without being noted.
LEMMA JournalPanel ==
    ASSUME JInv, UNCHANGED <<lock, job, disk>>, mixed => mixed', mixed' \in BOOLEAN,
           \A j \in Jobs : lock = j /\ JournalAt(job[j]) /\ ~mixed' => JournalAt(job[j])',
           Fitting => Fitting'
    PROVE  JournalOK'
  <1> SUFFICES ASSUME Undisturbed'
               PROVE  (lock = NoJob => Fitting') /\ \A j \in Jobs : lock = j => JournalAt(job[j])'
    BY DEF JournalOK
  <1>1. Undisturbed /\ ~mixed'
    BY DEF Undisturbed, JInv, RInv, TypeOK
  <1> QED
    BY <1>1 DEF JInv, JournalOK

\* Journal and database fit, or the panel is down, after every step.
LEMMA JournalStep ==
    ASSUME JInv, [Next]_vars
    PROVE  JournalOK'
  <1>0. TypeOK /\ PhaseOK
    BY DEF JInv, RInv
  <1>1. ASSUME NEW j \in Jobs, Queue(j) \/ Step(j) \/ LaunchFails(j) \/ Raise(j) \/ Kill(j)
        PROVE  JournalOK'
    BY <1>1, JournalJob, JournalForward, JournalRollback DEF Step
  <1>2. ASSUME UNCHANGED <<lock, job, disk, wal, panel, mixed>>
        PROVE  JournalOK'
    <2>1. (Fitting' <=> Fitting) /\ (Undisturbed' <=> Undisturbed)
      BY <1>2 DEF Fitting, Undisturbed
    <2>2. \A j \in Jobs : JournalAt(job[j]) => JournalAt(job[j])'
      BY <1>2 DEF JournalAt, Fitting
    <2> QED
      BY <1>2, <2>1, <2>2 DEF JInv, JournalOK
  <1>3. CASE UNCHANGED vars
    BY <1>2, <1>3 DEF vars
  <1>4. ASSUME NEW T, Create(T)
        PROVE  JournalOK'
    BY <1>2, <1>4 DEF Create
  <1>5. ASSUME NEW i, Delete(i)
        PROVE  JournalOK'
    BY <1>2, <1>5 DEF Delete
  <1>6. CASE Write
    <2>1. UNCHANGED <<lock, job, disk, mixed, panel>> /\ panel = "up" /\ wal = None /\ wal' = disk["db"].src
      BY <1>6 DEF Write, others_
    <2>2. \A j \in Jobs : JournalAt(job[j]) => JournalAt(job[j])'
      BY <2>1 DEF JournalAt, Fitting
    <2>3. Fitting'
      BY <2>1 DEF Fitting
    <2> QED
      BY <1>0, <2>1, <2>2, <2>3, JournalPanel DEF TypeOK
  <1>7. CASE CliStop
    <2>1. UNCHANGED <<lock, job, disk, mixed>> /\ wal' \in {wal, None} /\ (panel' = "down" \/ panel' = panel)
      BY <1>7 DEF CliStop, StopPanel
    <2>2. \A j \in Jobs : JournalAt(job[j]) => JournalAt(job[j])'
      BY <2>1 DEF JournalAt, Fitting
    <2>3. Fitting => Fitting'
      BY <2>1 DEF Fitting
    <2> QED
      BY <1>0, <2>1, <2>2, <2>3, JournalPanel DEF TypeOK
  <1>8. CASE CliStart
    <2>1. UNCHANGED <<lock, job, disk, wal>> /\ mixed' = (mixed \/ Maintenance)
      BY <1>8 DEF CliStart
    <2>2. ~Maintenance => \A j \in Jobs : job[j].maint => job[j].pc \in {"health", "finish", "report", "done"}
      BY DEF Maintenance
    <2>3. ~Maintenance => \A j \in Jobs : JournalAt(job[j]) => JournalAt(job[j])'
      BY <2>1, <2>2 DEF JournalAt, Fitting, Running
    <2>4. (Fitting => Fitting') /\ (~mixed' => ~Maintenance) /\ (mixed => mixed') /\ mixed' \in BOOLEAN
      BY <1>0, <2>1 DEF Fitting, TypeOK, Maintenance
    <2> QED
      BY <2>1, <2>3, <2>4, JournalPanel
  <1> QED
    BY <1>1, <1>3, <1>4, <1>5, <1>6, <1>7, <1>8 DEF Next, Requests, CronBackup

\* At the start the journal is the one of the database.
LEMMA JournalInit == Init => JournalOK
  <1> SUFFICES ASSUME Init PROVE JournalOK
    OBVIOUS
  <1>1. lock = NoJob /\ wal = Old /\ disk["db"].src = Old
    BY DEF Init, Files, File
  <1> QED
    BY <1>1, RestoreAssumption DEF JournalOK, Fitting

\* In every reachable state, unless disturbed, the journal fits the database or the panel is down
\* and the job that stopped it is going to remove or restore the journal (_with_sqlite_sidecars).
THEOREM JournalInvariance == Spec => []JInv
  <1>1. Init => JInv
    BY RInit, JournalInit DEF JInv
  <1>2. JInv /\ [Next]_vars => JInv'
    BY TypeStep, PhaseStep, PublishedStep, JournalStep DEF RInv, JInv
  <1> QED
    BY <1>1, <1>2, PTL DEF Spec

\* A running panel never finds a database with the journal of another one, unless others started
\* it in the middle of a restore, a rollback failed or a job was killed.
THEOREM JournalTheorem == Spec => []JournalFits
  <1>1. ASSUME JInv
        PROVE  JournalFits
    <2> SUFFICES ASSUME panel = "up", Undisturbed
                 PROVE  Fitting
      BY DEF JournalFits, Undisturbed, Fitting
    <2>1. CASE lock = NoJob
      BY <1>1, <2>1 DEF JInv, JournalOK
    <2>2. CASE lock \in Jobs
      <3> PICK j \in Jobs : j = lock
        BY <2>2
      <3>1. JournalAt(job[j])
        BY <1>1 DEF JInv, JournalOK
      <3> QED
        BY <3>1 DEF JournalAt
    <2> QED
      BY <1>1, <2>1, <2>2 DEF JInv, RInv, TypeOK
  <1> QED
    BY <1>1, JournalInvariance, PTL


-----------------------------------------------------------------------------
(* The job implements AtomicRestore *)

Cargoes == [j \in Jobs |-> job[j].cargo]
Results == [j \in Jobs |-> Result(j)]

\* A step of one job changes its own archive and result only.
LEMMA Abstracted ==
    ASSUME NEW j \in Jobs, OthersStay(j), \A k \in Jobs \ {j} : status'[k] = status[k]
    PROVE  /\ Cargoes' = [Cargoes EXCEPT ![j] = job'[j].cargo]
           /\ Results' = [Results EXCEPT ![j] = Result(j)']
           /\ Cargoes[j] = job[j].cargo /\ Results[j] = Result(j)
           /\ job'[j].cargo = job[j].cargo => UNCHANGED Cargoes
           /\ Result(j)' = Result(j) => UNCHANGED Results
  <1>1. \A k \in Jobs \ {j} : Result(k)' = Result(k) /\ job'[k].cargo = job[k].cargo
    BY DEF OthersStay, Result
  <1> QED
    BY <1>1 DEF Cargoes, Results

\* The data the panel works with: the snapshot where there is one, the disk elsewhere.
LEMMA DataOf ==
    ASSUME NoJob \notin Jobs
    PROVE  /\ lock = NoJob => Data = [f \in Files |-> disk[f]]
           /\ \A j \in Jobs : lock = j => Data = [f \in Files |-> IF job[j].pub /\ f \in DOMAIN job[j].snap
                                                                 THEN job[j].snap[f] ELSE disk[f]]
  BY DEF Data

\* While a job has published files its snapshot stands for exactly the files of the archive.
LEMMA DataPublished ==
    ASSUME RInv, NEW j \in Jobs, lock = j, job[j].pub
    PROVE  /\ Data \in [Files -> Content] /\ DOMAIN job[j].cargo \subseteq Files
           /\ \A f \in DOMAIN job[j].cargo : Data[f] = job[j].snap[f] /\ f \in Files /\ job[j].cargo[f] \in Content
           /\ \A f \in Files \ DOMAIN job[j].cargo : Data[f] = disk[f]
  <1>0. TypeOK /\ FilesOK(job[j]) /\ NoJob \notin Jobs
    BY RestoreAssumption DEF RInv, PublishedOK
  <1>1. job[j].cargo \in Cargo
    BY DEF RInv, PhaseOK, PhaseAt, Active, Running, Rollback
  <1>2. \A f \in DOMAIN job[j].cargo : f \in Files /\ job[j].cargo[f] \in Content
    BY <1>1, CargoFile
  <1>3. \A f \in Files : f \in DOMAIN job[j].snap <=> f \in DOMAIN job[j].cargo
    BY <1>0 DEF FilesOK, Manifest, Files
  <1>4. Data = [f \in Files |-> IF f \in DOMAIN job[j].snap THEN job[j].snap[f] ELSE disk[f]]
    BY <1>0, DataOf
  <1>5. \A f \in Files : Data[f] \in Content
    BY <1>0, <1>3, <1>4 DEF FilesOK, TypeOK
  <1> QED
    BY <1>2, <1>3, <1>4, <1>5

\* Without a published file the data are what is on the disk.
LEMMA DataUnpublished ==
    ASSUME RInv, \A j \in Jobs : lock = j => ~job[j].pub
    PROVE  Data = disk
  <1>1. NoJob \notin Jobs /\ TypeOK
    BY RestoreAssumption DEF RInv
  <1>2. Data = [f \in Files |-> disk[f]]
    BY <1>1, DataOf DEF TypeOK
  <1> QED
    BY <1>1, <1>2 DEF TypeOK

\* What a job leaves behind that ends in the middle: of each file of the archive the old
\* state or the new one, the database possibly migrated.
LEMMA LeftBehind ==
    ASSUME RInv, NEW j \in Jobs, lock = j
    PROVE  \E S \in SUBSET DOMAIN job[j].cargo :
              disk \in {[f \in Files |-> IF f \in S THEN job[j].cargo[f] ELSE Data[f]],
                        Migrated([f \in Files |-> IF f \in S THEN job[j].cargo[f] ELSE Data[f]])}
  <1>0. TypeOK /\ disk \in [Files -> Content]
    BY DEF RInv, TypeOK
  <1>1. CASE ~job[j].pub
    <2>1. Data = disk
      BY <1>1, DataUnpublished
    <2> DEFINE S == {}
    <2>2. S \in SUBSET DOMAIN job[j].cargo
      OBVIOUS
    <2>3. disk = [f \in Files |-> IF f \in S THEN job[j].cargo[f] ELSE Data[f]]
      BY <1>0, <2>1
    <2> HIDE DEF S
    <2> QED
      BY <2>2, <2>3
  <1>2. CASE job[j].pub
    <2> DEFINE S == {f \in DOMAIN job[j].cargo : disk[f] # Data[f]}
               d == [f \in Files |-> IF f \in S THEN job[j].cargo[f] ELSE Data[f]]
    <2>1. FilesOK(job[j])
      BY <1>2 DEF RInv, PublishedOK
    <2>2. d \in [Files -> Content] /\ \A f \in Files : d[f] = IF f \in S THEN job[j].cargo[f] ELSE Data[f]
      BY <1>2, DataPublished
    <2>3. \A f \in Files : \/ disk[f] = d[f]
                           \/ f = "db" /\ disk[f].src = d[f].src /\ disk[f].schema = 1
      <3> TAKE f \in Files
      <3>1. CASE f \in DOMAIN job[j].cargo
        BY <1>2, <2>1, <2>2, <3>1, DataPublished DEF FilesOK, Possible
      <3>2. CASE f \notin DOMAIN job[j].cargo
        BY <1>2, <2>2, <3>2, DataPublished
      <3> QED
        BY <3>1, <3>2
    <2> HIDE DEF d
    <2>4. disk = d \/ disk = Migrated(d)
      <3>1. CASE \A f \in Files : disk[f] = d[f]
        BY <1>0, <2>2, <3>1
      <3>2. CASE ~\A f \in Files : disk[f] = d[f]
        <4>1. disk["db"].src = d["db"].src /\ disk["db"].schema = 1 /\ \A f \in Files \ {"db"} : disk[f] = d[f]
          BY <2>3, <3>2
        <4>2. Migrated(d) \in [Files -> Content] /\ disk["db"] \in Content /\ Migrated(d)["db"] \in Content
          BY <1>0, <2>2, DiskMigrated DEF Files
        <4>3. Migrated(d)["db"] = disk["db"]
          BY <2>2, <4>1, <4>2, DiskMigrated, SameContent
        <4>4. \A f \in Files : Migrated(d)[f] = disk[f]
          BY <2>2, <4>1, <4>3, DiskMigrated
        <4> QED
          BY <1>0, <4>2, <4>4
      <3> QED
        BY <3>1, <3>2
    <2> QED
      BY <2>4 DEF d
  <1> QED
    BY <1>1, <1>2

\* A completed job has put the whole archive in place, with the current schema.
LEMMA LeftComplete ==
    ASSUME RInv, NEW j \in Jobs, job[j].pc = "finish"
    PROVE  disk = Migrated([f \in Files |-> IF f \in DOMAIN job[j].cargo THEN job[j].cargo[f] ELSE Data[f]])
  <1>0. TypeOK /\ disk \in [Files -> Content] /\ lock = j /\ job[j].pub
    BY Holder DEF RInv, TypeOK, PhaseOK, PhaseAt, Active, Running
  <1>1. FilesOK(job[j])
    BY <1>0 DEF RInv, PublishedOK
  <1> DEFINE d == [f \in Files |-> IF f \in DOMAIN job[j].cargo THEN job[j].cargo[f] ELSE Data[f]]
  <1>2. d \in [Files -> Content] /\ \A f \in Files : d[f] = IF f \in DOMAIN job[j].cargo THEN job[j].cargo[f] ELSE Data[f]
    BY <1>0, DataPublished
  <1>3. disk["db"].schema = 1 /\ \A f \in Files : disk[f].src = d[f].src /\ (f # "db" => disk[f] = d[f])
    BY <1>0, <1>1, <1>2, DataPublished DEF FilesOK
  <1> HIDE DEF d
  <1>4. Migrated(d) \in [Files -> Content] /\ disk["db"] \in Content /\ Migrated(d)["db"] \in Content
    BY <1>0, <1>2, DiskMigrated DEF Files
  <1>5. Migrated(d)["db"] = disk["db"]
    BY <1>2, <1>3, <1>4, DiskMigrated, SameContent DEF Files
  <1>6. \A f \in Files : Migrated(d)[f] = disk[f]
    BY <1>2, <1>3, <1>5, DiskMigrated
  <1>7. disk = Migrated(d)
    BY <1>0, <1>4, <1>6
  <1> QED
    BY <1>7 DEF d

\* A rollback without errors has put every file back.
LEMMA LeftUndone ==
    ASSUME RInv, NEW j \in Jobs, job[j].pc = "report", ~job[j].err
    PROVE  disk = Data
  <1>0. TypeOK /\ disk \in [Files -> Content] /\ lock = j
    BY Holder DEF RInv, TypeOK, Active, Rollback
  <1>1. CASE ~job[j].pub
    BY <1>0, <1>1, DataUnpublished
  <1>2. CASE job[j].pub
    <2>1. \A f \in DOMAIN job[j].cargo : disk[f] = job[j].snap[f]
      BY <1>0, <1>2 DEF RInv, PublishedOK, FilesOK
    <2>2. \A f \in Files : Data[f] = disk[f]
      BY <1>0, <1>2, <2>1, DataPublished
    <2> QED
      BY <1>0, <1>2, <2>2, DataPublished
  <1> QED
    BY <1>1, <1>2


\* The steps of AtomicRestore, in the words of the mapping.
AStep == [Atomic!ANext]_(Atomic!avars)

\* A step that changes nothing AtomicRestore speaks of.
LEMMA AStutter ==
    ASSUME UNCHANGED <<Data, Cargoes, Results>>
    PROVE  AStep
  BY DEF AStep, Atomic!avars, Cargoes, Results

\* A schema migration of its own is a step of AtomicRestore.
LEMMA AMigrate ==
    ASSUME Data' = Migrated(Data), UNCHANGED <<Cargoes, Results>>
    PROVE  AStep
  BY DEF AStep, Atomic!ANext, Atomic!Migrate, Cargoes, Results

\* Accepting a job is a step of AtomicRestore.
LEMMA AAccept ==
    ASSUME NEW j \in Jobs, NEW c \in Cargo, Results[j] = "none", UNCHANGED Data,
           Cargoes' = [Cargoes EXCEPT ![j] = c], Results' = [Results EXCEPT ![j] = "open"]
    PROVE  AStep
  <1>0. PICK S \in (SUBSET Files) \ {{}} : c \in [S -> Content]
    BY DEF Cargo
  <1>1. Atomic!Accept(j)
    BY <1>0 DEF Atomic!Accept, Cargoes, Results
  <1> QED
    BY <1>1 DEF AStep, Atomic!ANext

\* The end of a job in the words of the mapping.
LEMMA AEnds ==
    ASSUME NEW j \in Jobs, NEW r, Results[j] = "open", Results' = [Results EXCEPT ![j] = r], UNCHANGED Cargoes
    PROVE  Atomic!Ends(j, r)
  BY DEF Atomic!Ends, Cargoes, Results

\* A job that completes is a step of AtomicRestore.
LEMMA ASucceed ==
    ASSUME NEW j \in Jobs, Results[j] = "open", Results' = [Results EXCEPT ![j] = "completed"], UNCHANGED Cargoes,
           Data' = Migrated([f \in Files |-> IF f \in DOMAIN job[j].cargo THEN job[j].cargo[f] ELSE Data[f]])
    PROVE  AStep
  <1>1. Atomic!Overlay(job[j].cargo) = Data'
    BY DEF Atomic!Overlay
  <1>2. Atomic!Succeed(j)
    BY <1>1, AEnds DEF Atomic!Succeed
  <1> QED
    BY <1>2 DEF AStep, Atomic!ANext

\* A job that fails without a trace is a step of AtomicRestore.
LEMMA AReject ==
    ASSUME NEW j \in Jobs, Results[j] = "open", Results' = [Results EXCEPT ![j] = "failed"], UNCHANGED <<Data, Cargoes>>
    PROVE  AStep
  <1>1. Atomic!Reject(j)
    BY AEnds DEF Atomic!Reject
  <1> QED
    BY <1>1 DEF AStep, Atomic!ANext

\* A job that leaves files behind is a step of AtomicRestore.
LEMMA ABreak ==
    ASSUME NEW j \in Jobs, Results[j] = "open", Results' = [Results EXCEPT ![j] = "broken"], UNCHANGED Cargoes,
           \E S \in SUBSET DOMAIN job[j].cargo :
              Data' \in {[f \in Files |-> IF f \in S THEN job[j].cargo[f] ELSE Data[f]],
                         Migrated([f \in Files |-> IF f \in S THEN job[j].cargo[f] ELSE Data[f]])}
    PROVE  AStep
  <1>1. Atomic!Break(j)
    BY AEnds DEF Atomic!Break
  <1> QED
    BY <1>1 DEF AStep, Atomic!ANext


\* Steps that the atomic specification does not see: of the job that holds the lock, on
\* files that its snapshot stands for.
LEMMA Unseen ==
    ASSUME RInv, NEW j \in Jobs, job[j].pc \in Active, lock' = lock, OthersStay(j), UNCHANGED status, job'[j].pc \in Active,
           job'[j].cargo = job[j].cargo, job'[j].snap = job[j].snap, job'[j].pub = job[j].pub,
           \A f \in Files : (~job[j].pub \/ f \notin DOMAIN job[j].snap) => disk'[f] = disk[f]
    PROVE  AStep
  <1>1. lock = j /\ j # NoJob
    BY Holder, RestoreAssumption DEF RInv
  <1>2. Data' = Data
    BY <1>1 DEF Data
  <1>3. Result(j)' = Result(j)
    BY DEF Result, Active, Running, Rollback
  <1>4. UNCHANGED <<Cargoes, Results>>
    BY <1>3, Abstracted
  <1> QED
    BY <1>2, <1>4, AStutter

\* Beginning and ending a job implements AtomicRestore.
LEMMA RefineJob ==
    ASSUME RInv, NEW j \in Jobs, Queue(j) \/ LaunchFails(j) \/ Lock(j) \/ Raise(j) \/ Kill(j) \/ Finish(j) \/ Report(j)
    PROVE  AStep
  <1>0. TypeOK /\ PhaseOK /\ PhaseAt(j) /\ NoJob \notin Jobs
    BY RestoreAssumption DEF RInv, PhaseOK
  <1>a. ASSUME lock # j, lock' = lock, OthersStay(j), UNCHANGED disk
        PROVE  Data' = Data
    <2>1. lock \in Jobs => job'[lock] = job[lock]
      BY <1>a DEF OthersStay
    <2>2. lock \in Jobs \cup {NoJob}
      BY <1>0 DEF TypeOK
    <2> QED
      BY <1>a, <2>1, <2>2 DEF Data
  <1>b. job[j].pc \in Active \cup {"queued"} => Result(j) = "open"
    BY <1>0 DEF PhaseAt, Result, Active, Running, Rollback
  <1>c. lock' = NoJob /\ UNCHANGED disk => Data' = disk
    BY <1>0 DEF Data, TypeOK
  <1>1. CASE Queue(j)
    <2>1. lock # j /\ lock' = lock /\ OthersStay(j) /\ UNCHANGED disk /\ job'[j].cargo \in Cargo /\ job'[j].pc = "queued"
      BY <1>0, <1>1, QueueStep DEF Queue, PhaseAt, Active, Running, Rollback
    <2>2. DOMAIN status' = Jobs /\ status'[j] = "queued" /\ \A k \in Jobs \ {j} : status'[k] = status[k]
      BY <1>0, <1>1, Noted DEF Queue
    <2>3. Result(j) = "none" /\ Result(j)' = "open"
      BY <1>0, <1>1, <2>1, <2>2 DEF Queue, PhaseAt, Result
    <2>4. /\ Cargoes' = [Cargoes EXCEPT ![j] = job'[j].cargo] /\ Results' = [Results EXCEPT ![j] = "open"]
          /\ Results[j] = "none"
      BY <2>1, <2>2, <2>3, Abstracted
    <2> DEFINE c == job'[j].cargo
    <2>5. c \in Cargo /\ Cargoes' = [Cargoes EXCEPT ![j] = c]
      BY <2>1, <2>4
    <2> HIDE DEF c
    <2> QED
      BY <1>a, <2>1, <2>4, <2>5, AAccept
  <1>2. CASE LaunchFails(j)
    <2>1. /\ lock # j /\ lock' = lock /\ UNCHANGED disk /\ job[j].pc = "queued" /\ ~job[j].err
          /\ \/ Goes(j, "done") /\ Note(j, "failed")
             \/ Goes(j, "mute") /\ UNCHANGED status
      BY <1>0, <1>2, GoGoes DEF LaunchFails, PhaseAt, Active, Running, Rollback
    <2>2. /\ \A k \in Jobs \ {j} : status'[k] = status[k]
          /\ \/ Goes(j, "done") /\ DOMAIN status' = Jobs /\ status'[j] = "failed"
             \/ Goes(j, "mute") /\ UNCHANGED status
      BY <1>0, <2>1, Noted
    <2>3. Result(j) = "open" /\ Result(j)' = "failed"
      BY <1>0, <1>b, <2>1, <2>2 DEF Goes, Result, PhaseAt
    <2>4. UNCHANGED Cargoes /\ Results' = [Results EXCEPT ![j] = "failed"] /\ Results[j] = "open"
      BY <2>1, <2>2, <2>3, Abstracted DEF Goes
    <2> QED
      BY <1>a, <2>1, <2>4, AReject DEF Goes
  <1>3. CASE Lock(j)
    <2>1. Goes(j, "prepare") /\ ~job[j].pub /\ lock = NoJob /\ lock' = j /\ UNCHANGED disk /\ job[j].pc = "queued"
      BY <1>0, <1>3, GoGoes DEF Lock, PhaseAt, Active, Running
    <2>2. DOMAIN status' = Jobs /\ status'[j] = "running" /\ \A k \in Jobs \ {j} : status'[k] = status[k]
      BY <1>0, <1>3, Noted DEF Lock
    <2>3. Result(j) = "open" /\ Result(j)' = "open"
      BY <1>b, <2>1, <2>2 DEF Goes, Result
    <2>4. Data' = Data
      BY <1>0, <2>1 DEF Data, Goes
    <2>5. UNCHANGED <<Cargoes, Results>>
      BY <2>1, <2>2, <2>3, Abstracted DEF Goes
    <2> QED
      BY <2>4, <2>5, AStutter
  <1>4. CASE Raise(j)
    <2>1. Undoes(j) /\ UNCHANGED <<lock, status, disk>> /\ job[j].pc \in Active
      BY <1>0, <1>4, ExceptUndoes DEF Raise, Active
    <2> QED
      BY <2>1, Unseen DEF Undoes, Goes, Active, Rollback
  <1>5. CASE Kill(j)
    <2>1. Goes(j, "dead") /\ UNCHANGED <<status, disk>> /\ job[j].pc \in Active \cup {"queued"}
      BY <1>0, <1>5, GoGoes DEF Kill, Active, Rollback
    <2>2. Result(j) = "open" /\ Result(j)' = "broken"
      BY <1>b, <2>1 DEF Goes, Result
    <2>3. UNCHANGED Cargoes /\ Results' = [Results EXCEPT ![j] = "broken"] /\ Results[j] = "open"
      BY <2>1, <2>2, Abstracted DEF Goes
    <2>4. \E S \in SUBSET DOMAIN job[j].cargo :
             Data' \in {[f \in Files |-> IF f \in S THEN job[j].cargo[f] ELSE Data[f]],
                        Migrated([f \in Files |-> IF f \in S THEN job[j].cargo[f] ELSE Data[f]])}
      <3>1. CASE lock = j
        <4>1. Data' = disk
          BY <1>5, <1>c, <2>1, <3>1 DEF Kill
        <4> QED
          BY <3>1, <4>1, LeftBehind
      <3>2. CASE lock # j
        <4>1. Data' = Data
          BY <1>5, <1>a, <2>1, <3>2 DEF Kill, Goes
        <4> DEFINE S == {}
        <4>2. S \in SUBSET DOMAIN job[j].cargo
          OBVIOUS
        <4>3. Data = [f \in Files |-> IF f \in S THEN job[j].cargo[f] ELSE Data[f]]
          BY DEF Data
        <4> HIDE DEF S
        <4> QED
          BY <4>1, <4>2, <4>3
      <3> QED
        BY <3>1, <3>2
    <2> QED
      BY <2>3, <2>4, ABreak
  <1>6. CASE Finish(j)
    <2>1. /\ job[j].pc = "finish" /\ UNCHANGED disk /\ OthersStay(j) /\ lock' = NoJob
          /\ job'[j].pc = "done" /\ job'[j].cargo = job[j].cargo
      BY <1>0, <1>6, Ended DEF Finish, OthersStay
    <2>2. DOMAIN status' = Jobs /\ status'[j] = "completed" /\ \A k \in Jobs \ {j} : status'[k] = status[k]
      BY <1>0, <1>6, Noted DEF Finish
    <2>3. Result(j) = "open" /\ Result(j)' = "completed"
      BY <1>b, <2>1, <2>2 DEF Result, Active, Running
    <2>4. UNCHANGED Cargoes /\ Results' = [Results EXCEPT ![j] = "completed"] /\ Results[j] = "open"
      BY <2>1, <2>2, <2>3, Abstracted
    <2>5. Data' = disk
      BY <1>c, <2>1
    <2> QED
      BY <2>1, <2>4, <2>5, LeftComplete, ASucceed
  <1>7. CASE Report(j)
    <2>0. (End(j, "done") /\ Note(j, Outcome(j))) \/ (End(j, "mute") /\ UNCHANGED status)
      BY <1>7 DEF Report
    <2>1. /\ job[j].pc = "report" /\ UNCHANGED disk /\ OthersStay(j) /\ lock' = NoJob /\ lock = j
          /\ job'[j].cargo = job[j].cargo /\ job'[j].err = job[j].err
      BY <1>0, <1>7, <2>0, Ended, Holder DEF Report, OthersStay, Active, Rollback
    <2>2. /\ \A k \in Jobs \ {j} : status'[k] = status[k]
          /\ \/ job'[j].pc = "done" /\ DOMAIN status' = Jobs /\ status'[j] = Outcome(j)
             \/ job'[j].pc = "mute" /\ UNCHANGED status
      BY <1>0, <2>0, Ended, Noted
    <2>3. Data' = disk /\ Result(j) = "open"
      BY <1>b, <1>c, <2>1 DEF Active, Rollback
    <2>4. CASE job[j].err
      <3>1. Result(j)' = "broken"
        BY <1>0, <2>1, <2>2, <2>4 DEF Result, Outcome, PhaseAt, Active, Rollback
      <3>2. UNCHANGED Cargoes /\ Results' = [Results EXCEPT ![j] = "broken"] /\ Results[j] = "open"
        BY <2>1, <2>2, <2>3, <3>1, Abstracted
      <3> QED
        BY <2>1, <2>3, <3>2, LeftBehind, ABreak
    <2>5. CASE ~job[j].err
      <3>1. Result(j)' = "failed"
        BY <1>0, <2>1, <2>2, <2>5 DEF Result, Outcome, PhaseAt, Active, Rollback
      <3>2. UNCHANGED Cargoes /\ Results' = [Results EXCEPT ![j] = "failed"] /\ Results[j] = "open"
        BY <2>1, <2>2, <2>3, <3>1, Abstracted
      <3> QED
        BY <2>1, <2>3, <2>5, <3>2, LeftUndone, AReject
    <2> QED
      BY <2>4, <2>5
  <1> QED
    BY <1>1, <1>2, <1>3, <1>4, <1>5, <1>6, <1>7

\* The steps of the restore implement AtomicRestore: none is visible, except the migration of a
\* database that the archive does not hold.
LEMMA RefineForward ==
    ASSUME RInv, NEW j \in Jobs,
           Prepare(j) \/ Stop(j) \/ Snapshot(j) \/ Publish(j) \/ Migrate(j) \/ Start(j) \/ Health(j)
    PROVE  AStep
  <1>0. TypeOK /\ PhaseOK /\ PhaseAt(j) /\ NoJob \notin Jobs
    BY RestoreAssumption DEF RInv, PhaseOK
  <1>a. lock = j /\ lock' = lock /\ UNCHANGED status /\ job[j].pc \in Active
    BY <1>0, Holder DEF Prepare, Stop, Snapshot, Publish, Migrate, Start, Health, Active, Running
  <1>b. job[j].pub => FilesOK(job[j])
    BY <1>a DEF RInv, PublishedOK
  <1>1. CASE Prepare(j)
    <2>1. (Undoes(j) \/ Goes(j, "stop")) /\ UNCHANGED disk
      BY <1>0, <1>1, ExceptUndoes, GoGoes DEF Prepare, Active, Running
    <2> QED
      BY <1>a, <2>1, Unseen DEF Undoes, Goes, Active, Running, Rollback
  <1>2. CASE Stop(j)
    BY <1>0, <1>2, <1>a, StopStep, Unseen DEF Stop, Active, Running, Rollback
  <1>3. CASE Snapshot(j)
    <2>1. /\ OthersStay(j) /\ job'[j].pc = "publish" /\ job'[j].pub = TRUE /\ job'[j].cargo = job[j].cargo
          /\ job'[j].snap = [f \in Manifest(job[j].cargo) |-> IF f = "wal" THEN File(wal, 1) ELSE disk[f]]
          /\ ~job[j].pub /\ UNCHANGED disk
      BY <1>0, <1>3, SnapshotStep DEF Snapshot, PhaseAt
    <2>2. \A f \in Files : f \in DOMAIN job'[j].snap => job'[j].snap[f] = disk[f]
      BY <2>1 DEF Files
    <2>3. Data' = Data
      BY <1>0, <1>a, <2>1, <2>2 DEF Data
    <2>4. Result(j)' = Result(j)
      BY <1>a, <2>1 DEF Result, Active, Running, Rollback
    <2> QED
      BY <1>a, <2>1, <2>3, <2>4, Abstracted, AStutter
  <1>4. CASE Publish(j)
    <2>1. job[j].pc = "publish" /\ job[j].pub /\ FilesOK(job[j])
      BY <1>0, <1>4, <1>b DEF Publish, PhaseAt
    <2>2. CASE Goes(j, "migrate") /\ UNCHANGED disk
      BY <1>a, <2>2, Unseen DEF Goes, Active, Running
    <2>3. ASSUME NEW f \in job[j].todo, Ticks(j, f, job[j].err),
                 UNCHANGED disk \/ disk' = [disk EXCEPT ![f] = job[j].cargo[f]]
          PROVE  AStep
      <3>1. f \in DOMAIN job[j].snap
        BY <2>1 DEF FilesOK
      <3>2. \A g \in Files : g # f => disk'[g] = disk[g]
        BY <1>0, <2>3 DEF TypeOK
      <3> QED
        BY <1>a, <2>1, <2>3, <3>1, <3>2, Unseen DEF Ticks
    <2> QED
      BY <1>0, <1>4, <2>2, <2>3, PublishStep
  <1>5. CASE Migrate(j)
    <2>1. job[j].pub /\ FilesOK(job[j]) /\ Goes(j, "start") /\ disk' = Migrated(disk)
      BY <1>0, <1>5, <1>b, GoGoes DEF Migrate, PhaseAt, Active, Running
    <2>2. disk'["db"].src = disk["db"].src /\ disk'["db"].schema = 1 /\ \A g \in Files \ {"db"} : disk'[g] = disk[g]
      BY <1>0, <2>1, DiskMigrated DEF TypeOK
    <2>3. CASE "db" \in DOMAIN job[j].snap
      BY <1>a, <2>1, <2>2, <2>3, Unseen DEF Goes, Active, Running
    <2>4. CASE "db" \notin DOMAIN job[j].snap
      <3>1. Data \in [Files -> Content] /\ Data["db"] = disk["db"]
        BY <1>a, <2>1, <2>4, DataPublished DEF Data, Files
      <3>2. disk' \in [Files -> Content] /\ disk'["db"] \in Content
        BY <1>5, TypeForward DEF TypeOK, Files
      <3>3. /\ Migrated(Data) \in [Files -> Content] /\ Migrated(Data)["db"] \in Content
            /\ Migrated(Data)["db"].src = disk["db"].src /\ Migrated(Data)["db"].schema = 1
            /\ \A g \in Files \ {"db"} : Migrated(Data)[g] = Data[g]
        BY <3>1, DiskMigrated DEF Files
      <3> DEFINE d == disk'["db"]
                 m == Migrated(Data)
      <3>4. d \in Content /\ m["db"] \in Content /\ d.src = m["db"].src /\ d.schema = m["db"].schema
        BY <2>2, <3>2, <3>3
      <3> HIDE DEF d, m
      <3>5. d = m["db"]
        BY <3>4, SameContent
      <3>6. \A f \in Files : Data'[f] = m[f]
        <4> TAKE f \in Files
        <4>1. CASE f = "db"
          BY <1>0, <1>a, <2>1, <2>4, <3>5, <4>1 DEF Data, Goes, Files, d
        <4>2. CASE f # "db"
          <5>1. Data'[f] = Data[f]
            BY <1>0, <1>a, <2>1, <2>2, <4>2 DEF Data, Goes
          <5> QED
            BY <3>3, <4>2, <5>1 DEF m
        <4> QED
          BY <4>1, <4>2
      <3>7. Data' = m
        BY <3>3, <3>6 DEF Data, m
      <3>8. Result(j)' = Result(j)
        BY <1>5, <1>a, <2>1 DEF Migrate, Result, Goes
      <3>9. UNCHANGED <<Cargoes, Results>>
        BY <1>a, <2>1, <3>8, Abstracted DEF Goes
      <3>10. Data' = Migrated(Data)
        BY <3>7 DEF m
      <3> QED
        BY <3>9, <3>10, AMigrate
    <2> QED
      BY <2>3, <2>4
  <1>6. CASE Start(j)
    <2>1. (Undoes(j) \/ Goes(j, "health")) /\ UNCHANGED disk
      BY <1>0, <1>6, ExceptUndoes, GoGoes DEF Start, Active, Running
    <2> QED
      BY <1>a, <2>1, Unseen DEF Undoes, Goes, Active, Running, Rollback
  <1>7. CASE Health(j)
    <2>1. (Undoes(j) \/ Goes(j, "finish")) /\ UNCHANGED disk
      BY <1>0, <1>7, ExceptUndoes, GoGoes DEF Health, Active, Running
    <2> QED
      BY <1>a, <2>1, Unseen DEF Undoes, Goes, Active, Running, Rollback
  <1> QED
    BY <1>1, <1>2, <1>3, <1>4, <1>5, <1>6, <1>7


\* The steps of the rollback are invisible.
LEMMA RefineRollback ==
    ASSUME RInv, NEW j \in Jobs, UndoStop(j) \/ Undo(j) \/ UndoStart(j)
    PROVE  AStep
  <1>0. TypeOK /\ PhaseOK /\ PhaseAt(j)
    BY DEF RInv, PhaseOK
  <1>a. lock = j /\ lock' = lock /\ UNCHANGED status /\ job[j].pc \in Active
    BY <1>0, Holder DEF UndoStop, Undo, UndoStart, Active, Rollback
  <1>1. CASE UndoStop(j)
    BY <1>0, <1>1, <1>a, UndoStopStep, Unseen DEF UndoStop, Active, Rollback
  <1>2. CASE Undo(j)
    <2>1. job[j].pc = "undo" /\ job[j].pub /\ FilesOK(job[j])
      BY <1>0, <1>2, <1>a DEF Undo, PhaseAt, RInv, PublishedOK
    <2>2. CASE Goes(j, "undo_start") /\ UNCHANGED disk
      BY <1>a, <2>2, Unseen DEF Goes, Active, Rollback
    <2>3. ASSUME NEW f \in job[j].todo, Ticks(j, f, TRUE) \/ Ticks(j, f, job[j].err),
                 UNCHANGED disk \/ disk' = [disk EXCEPT ![f] = job[j].snap[f]]
          PROVE  AStep
      <3>1. f \in DOMAIN job[j].snap
        BY <2>1 DEF FilesOK
      <3>2. \A g \in Files : g # f => disk'[g] = disk[g]
        BY <1>0, <2>3 DEF TypeOK
      <3> QED
        BY <1>a, <2>1, <2>3, <3>1, <3>2, Unseen DEF Ticks
    <2> QED
      BY <1>0, <1>2, <2>2, <2>3, UndoStep
  <1>3. CASE UndoStart(j)
    BY <1>0, <1>3, <1>a, UndoStartStep, Unseen DEF UndoStart, Active, Rollback
  <1> QED
    BY <1>1, <1>2, <1>3

\* Every step is a step of AtomicRestore or none.
LEMMA RefineStep ==
    ASSUME RInv, [Next]_vars
    PROVE  AStep
  <1>1. ASSUME NEW j \in Jobs, Queue(j) \/ Step(j) \/ LaunchFails(j) \/ Raise(j) \/ Kill(j)
        PROVE  AStep
    BY <1>1, RefineJob, RefineForward, RefineRollback DEF Step
  <1>2. ASSUME UNCHANGED <<lock, job, disk, status>>
        PROVE  AStep
    <2>1. UNCHANGED <<Data, Cargoes, Results>>
      BY <1>2 DEF Data, Cargoes, Results, Result
    <2> QED
      BY <2>1, AStutter
  <1>3. CASE UNCHANGED vars
    BY <1>2, <1>3 DEF vars
  <1>4. ASSUME NEW T, Create(T)
        PROVE  AStep
    BY <1>2, <1>4 DEF Create
  <1>5. ASSUME NEW i, Delete(i)
        PROVE  AStep
    BY <1>2, <1>5 DEF Delete
  <1>6. CASE Write \/ CliStop \/ CliStart
    BY <1>2, <1>6 DEF Write, CliStop, CliStart
  <1> QED
    BY <1>1, <1>3, <1>4, <1>5, <1>6 DEF Next, Requests, CronBackup

\* The initial data, archives and results are those of AtomicRestore.
LEMMA RefineInit == Init => Atomic!AInit
  <1> SUFFICES ASSUME Init PROVE Atomic!AInit
    OBVIOUS
  <1>0. RInv /\ lock = NoJob
    BY RInit DEF Init
  <1>1. Data \in [Files -> Content]
    BY <1>0, RestoreAssumption, DataUnpublished DEF RInv, TypeOK
  <1>2. \A j \in Jobs : job[j].cargo = << >> /\ Result(j) = "none"
    BY DEF Init, Fresh, Result
  <1> QED
    BY <1>1, <1>2 DEF Atomic!AInit

\* A restore is atomic: completed means the whole archive, failed means nothing has changed, for
\* every point at which run_job raises or is killed, any number of jobs and any archives.
THEOREM Refinement == Spec => RestoreAtomic
  <1>1. RInv /\ [Next]_vars => [Atomic!ANext]_(Atomic!avars)
    BY RefineStep DEF AStep
  <1> QED
    BY <1>1, RefineInit, RestoreInvariance, PTL DEF Spec, RestoreAtomic, Atomic!ASpec

-----------------------------------------------------------------------------
\* The crontab (PanelJobs).

\* A crontab is the lines of the panel's jobs and those of others.
IsTab(tab) == DOMAIN tab = {"line", "other"}

\* What an edit has read still has the lines of others, unless they changed since.
EditOK(r, tab) ==
    /\ {"pc", "read", "late"} \subseteq DOMAIN r
    /\ r.pc = "write" => IsTab(r.read)
    /\ r.pc = "write" /\ ~r.late => r.read.other = tab.other

\* The inductive invariant of the crontab.
CronInv ==
    /\ IsTab(cron) /\ DOMAIN edit = Editor
    /\ \A e \in Editor : EditOK(edit[e], cron)

LEMMA NoEditOK ==
  ASSUME NEW tab
  PROVE  EditOK(NoEdit, tab)
BY DEF EditOK, NoEdit

\* An edit that is not about to write is fine whatever the crontab holds.
LEMMA ElsewhereOK ==
  ASSUME NEW r, NEW tab, {"pc", "read", "late"} \subseteq DOMAIN r, r.pc # "write"
  PROVE  EditOK(r, tab)
BY DEF EditOK

\* A start and a stop leave the edit of the start, and perhaps those of the old process.
LEMMA StartOK ==
  ASSUME NEW sure, NEW tab
  PROVE  EditOK(BootEdit, tab) /\ EditOK([BootEdit EXCEPT !.sure = sure], tab)
BY DEF EditOK, NoEdit, BootEdit

LEMMA CronInit ==
  ASSUME JobsInit
  PROVE  CronInv
BY NoEditOK DEF JobsInit, CronInv, IsTab

\* What failed goes on with the next job or is over.
LEMMA FailStep ==
  ASSUME CronInv, NEW e \in Editor, EnsureFails(e)
  PROVE  CronInv' /\ UNCHANGED cron
<1>0. UNCHANGED cron
  BY DEF EnsureFails
<1>1. edit' = [edit EXCEPT ![e] = edit'[e]]
  BY DEF EnsureFails, CronInv
<1>2. EditOK(edit'[e], cron)
  <2> DEFINE next == [edit[e] EXCEPT !.pc = "read", !.todo = Tail(edit[e].todo), !.late = FALSE]
  <2> DEFINE v == IF e = Boot /\ Len(edit[e].todo) > 1 THEN next ELSE NoEdit
  <2>3. edit' = [edit EXCEPT ![e] = v] /\ e \in DOMAIN edit
    BY DEF EnsureFails, CronInv
  <2>4. v = next \/ v = NoEdit
    <3> HIDE DEF next
    <3> QED BY Zenon
  <2>1. edit'[e] = next \/ edit'[e] = NoEdit
    <3> HIDE DEF next, v
    <3> QED BY <2>3, <2>4
  <2>2. EditOK(next, cron)
    BY DEF CronInv, EditOK
  <2> QED BY <2>1, <2>2, NoEditOK
<1>3. ASSUME NEW d \in Editor  PROVE EditOK(edit'[d], cron)
  BY <1>1, <1>2 DEF CronInv
<1>4. DOMAIN edit' = Editor
  BY <1>1 DEF CronInv
<1> QED BY <1>0, <1>3, <1>4 DEF CronInv, IsTab, EditOK, Editor

\* One edit changes and the crontab does not.
LEMMA EditStep ==
  ASSUME CronInv, UNCHANGED cron, NEW e, NEW v, edit' = [edit EXCEPT ![e] = v], EditOK(v, cron)
  PROVE  CronInv'
<1>1. DOMAIN edit' = Editor
  BY DEF CronInv
<1>2. \A d \in Editor : EditOK(edit'[d], cron)
  BY DEF CronInv
<1> QED BY <1>1, <1>2 DEF CronInv, IsTab, EditOK, Editor

\* The crontab changes under those who have read it.
LEMMA OvertakenOK ==
  ASSUME CronInv, NEW tab, NEW e \in Editor
  PROVE  EditOK(Overtaken(tab)[e], tab)
<1> DEFINE late == edit[e].late \/ (edit[e].pc = "write" /\ tab.other # cron.other)
           r == [edit[e] EXCEPT !.late = late]
<1>1. Overtaken(tab)[e] = r
  BY DEF Overtaken
<1>2. EditOK(edit[e], cron)
  BY DEF CronInv
<1>3. DOMAIN r = DOMAIN edit[e] /\ r.pc = edit[e].pc /\ r.read = edit[e].read /\ r.late = late
  BY <1>2 DEF EditOK
<1> HIDE DEF r
<1> QED BY <1>1, <1>2, <1>3 DEF EditOK

\* The crontab that has been read, with one line replaced, keeps those of others.
LEMMA ReadOK ==
  ASSUME CronInv, UNCHANGED cron, NEW e \in Editor, NEW timed,
         edit' = [edit EXCEPT ![e].pc = "write", ![e].read = Replaced(e, cron, timed)]
  PROVE  CronInv'
<1> DEFINE read == Replaced(e, cron, timed)
           v == [edit[e] EXCEPT !.pc = "write", !.read = read]
<1>1. edit' = [edit EXCEPT ![e] = v]
  BY DEF CronInv
<1>2. DOMAIN read = DOMAIN cron /\ read.other = cron.other
  BY DEF CronInv, IsTab, Replaced
<1>3. v.read = read
  BY DEF CronInv, EditOK
<1>4. {"pc", "read", "late"} \subseteq DOMAIN v
  BY DEF CronInv, EditOK
<1>5. IsTab(cron)
  BY DEF CronInv
<1> HIDE DEF v, read
<1>6. EditOK(v, cron)
  BY <1>2, <1>3, <1>4, <1>5 DEF EditOK, IsTab
<1> QED BY <1>1, <1>6, EditStep

LEMMA ReadStep ==
  ASSUME CronInv, NEW e \in Editor, NEW ok, EnsureRead(e, ok)
  PROVE  CronInv' /\ UNCHANGED cron
<1>1. CASE ~ok
  <2>1. EnsureFails(e)
    BY <1>1 DEF EnsureRead
  <2> QED BY <2>1, FailStep
<1>2. CASE ok
  BY <1>2, ReadOK DEF EnsureRead
<1> QED BY <1>1, <1>2

\* ... whether the timer is seen or not.
LEMMA UntimedStep ==
  ASSUME CronInv, NEW e \in Editor, EnsureReadUntimed(e)
  PROVE  CronInv' /\ UNCHANGED cron
BY ReadOK DEF EnsureReadUntimed

LEMMA WriteStep ==
  ASSUME CronInv, NEW e \in Editor, NEW ok \in BOOLEAN, EnsureWrite(e, ok)
  PROVE  CronInv' /\ (cron'.other # cron.other => edit[e].late /\ EnsureWrite(e, TRUE))
<1>1. CASE ~ok
  <2>1. EnsureFails(e)
    BY <1>1 DEF EnsureWrite
  <2> QED BY <2>1, FailStep
<1>2. CASE ok
  <2>12. ok = TRUE
    BY <1>2
  <2>1. /\ edit[e].pc = "write" /\ cron' = edit[e].read
    BY <1>2 DEF EnsureWrite
  <2>2. EditOK(edit[e], cron)
    BY DEF CronInv
  <2>3. IsTab(cron') /\ (cron'.other # cron.other => edit[e].late)
    BY <2>1, <2>2 DEF EditOK
  <2> DEFINE over == Overtaken(cron')
             r == over[e]
             next == [r EXCEPT !.pc = "read", !.todo = Tail(edit[e].todo), !.read = << >>, !.late = FALSE]
             keep == [r EXCEPT !.pc = "keep", !.read = << >>]
  <2>4. \A d \in Editor : EditOK(over[d], cron')
    BY OvertakenOK
  <2>5. DOMAIN over = Editor
    BY DEF Overtaken
  <2> DEFINE v == IF Len(edit[e].todo) > 1 THEN next ELSE IF r.keep # << >> THEN keep ELSE NoEdit
  <2>10. edit' = [over EXCEPT ![e] = v]
    BY <1>2 DEF EnsureWrite
  <2>11. v = next \/ v = keep \/ v = NoEdit
    <3> HIDE DEF next, keep
    <3> QED BY Zenon
  <2> HIDE DEF over
  <2>6. /\ edit' = [over EXCEPT ![e] = edit'[e]]
        /\ edit'[e] = next \/ edit'[e] = keep \/ edit'[e] = NoEdit
    <3> HIDE DEF v, next, keep
    <3> QED BY <2>5, <2>10, <2>11
  <2>7. EditOK(next, cron') /\ EditOK(keep, cron')
    BY <2>4 DEF EditOK
  <2> HIDE DEF next, keep
  <2>8. EditOK(edit'[e], cron')
    BY <2>6, <2>7, NoEditOK
  <2>9. DOMAIN edit' = Editor /\ \A d \in Editor : EditOK(edit'[d], cron')
    BY <2>4, <2>5, <2>6, <2>8
  <2> QED BY <2>3, <2>9, <2>12 DEF CronInv, IsTab, EditOK, Editor
<1> QED BY <1>1, <1>2

\* Steps that leave the crontab and every edit alone.
LEMMA IdleStep ==
  ASSUME CronInv, UNCHANGED <<cron, edit>>
  PROVE  CronInv'
BY DEF CronInv, IsTab, EditOK, Editor

\* Every edit changes and the crontab does not.
LEMMA EditsStep ==
  ASSUME CronInv, UNCHANGED cron, NEW f, edit' = [e \in Editor |-> f[e]],
         \A e \in Editor : EditOK(f[e], cron)
  PROVE  CronInv'
<1>1. DOMAIN edit' = Editor /\ \A e \in Editor : EditOK(edit'[e], cron)
  OBVIOUS
<1> QED BY <1>1 DEF CronInv, IsTab, EditOK, Editor

\* The edits that a stop leaves: the one of the start.
LEMMA StoppedStep ==
  ASSUME CronInv, UNCHANGED cron, NEW sure, Stopped(sure)
  PROVE  CronInv'
<1> DEFINE f == [e \in Editor |-> IF e = Boot THEN [BootEdit EXCEPT !.sure = sure] ELSE NoEdit]
<1>1. edit' = f /\ f = [e \in Editor |-> f[e]]
  BY DEF Stopped
<1>2. \A e \in Editor : EditOK(f[e], cron)
  BY NoEditOK, StartOK
<1> HIDE DEF f
<1> QED BY <1>1, <1>2, EditsStep

\* The old process goes on with its edits beside the start of the new one.
LEMMA RecycleStep ==
  ASSUME CronInv, Recycled
  PROVE  CronInv'
<1> DEFINE old(e) == [edit[e] EXCEPT !.old = Memory(e)]
           f == [e \in Editor |-> IF e = Boot THEN BootEdit
                                        ELSE IF edit[e] = NoEdit THEN NoEdit ELSE old(e)]
<1>1. edit' = f /\ f = [e \in Editor |-> f[e]] /\ UNCHANGED cron
  BY DEF Recycled
<1>2. ASSUME NEW e \in Editor  PROVE EditOK(old(e), cron)
  <2>1. EditOK(edit[e], cron)
    BY DEF CronInv
  <2>2. /\ DOMAIN old(e) = DOMAIN edit[e] /\ old(e).pc = edit[e].pc
        /\ old(e).read = edit[e].read /\ old(e).late = edit[e].late
    BY <2>1 DEF EditOK
  <2> HIDE DEF old
  <2> QED BY <2>1, <2>2 DEF EditOK
<1>3. ASSUME NEW e \in Editor  PROVE EditOK(f[e], cron)
  <2> HIDE DEF old
  <2>1. f[e] = BootEdit \/ f[e] = NoEdit \/ f[e] = old(e)
    OBVIOUS
  <2> HIDE DEF f
  <2> QED BY <1>2, <2>1, NoEditOK, StartOK
<1> HIDE DEF f
<1> QED BY <1>1, <1>3, EditsStep

LEMMA OldKilledStep ==
  ASSUME CronInv, OldKilled
  PROVE  CronInv'
<1> DEFINE f == [e \in Editor |-> IF edit[e].old = << >> THEN edit[e] ELSE NoEdit]
<1>1. edit' = f /\ f = [e \in Editor |-> f[e]] /\ UNCHANGED cron
  BY DEF OldKilled
<1>2. \A e \in Editor : EditOK(f[e], cron)
  BY NoEditOK DEF CronInv
<1> HIDE DEF f
<1> QED BY <1>1, <1>2, EditsStep

\* A request begins an edit, or ends one.
LEMMA RequestStep ==
  ASSUME CronInv, NEW r \in Request,
         \/ \E s \in Setting : SetNightly(r, s) \/ SetBackup(r, s)
         \/ \E sync, backups \in BOOLEAN : Toggle(r, sync, backups)
         \/ Keep(r)
  PROVE  CronInv' /\ UNCHANGED cron
<1>1. PICK v : edit' = [edit EXCEPT ![r] = v] /\ UNCHANGED cron /\ EditOK(v, cron)
  <2>1. ASSUME NEW s, NEW j, ChangeSetting(r, j, s)
        PROVE  \E v : edit' = [edit EXCEPT ![r] = v] /\ UNCHANGED cron /\ EditOK(v, cron)
    <3> DEFINE v == [NoEdit EXCEPT !.pc = "read", !.todo = <<j>>]
    <3>1. edit' = [edit EXCEPT ![r] = v] /\ UNCHANGED cron
      BY <2>1 DEF ChangeSetting
    <3>2. EditOK(v, cron)
      BY DEF EditOK, NoEdit
    <3> QED BY <3>1, <3>2
  <2>2. ASSUME NEW sync, NEW backups, Toggle(r, sync, backups)
        PROVE  \E v : edit' = [edit EXCEPT ![r] = v] /\ UNCHANGED cron /\ EditOK(v, cron)
    <3> DEFINE v == [NoEdit EXCEPT !.pc = "read", !.todo = ToggleJobs,
                       !.undo = [traffic |-> mem["traffic"].on, backup |-> mem["backup"].on, touched |-> ~backups],
                       !.keep = [traffic |-> sync, backups |-> backups]]
    <3>1. edit' = [edit EXCEPT ![r] = v] /\ UNCHANGED cron
      BY <2>2 DEF Toggle
    <3>2. EditOK(v, cron)
      BY DEF EditOK, NoEdit
    <3> QED BY <3>1, <3>2
  <2>3. CASE Keep(r)
    BY <2>3, NoEditOK DEF Keep
  <2> QED BY <2>1, <2>2, <2>3 DEF SetNightly, SetBackup
<1> QED BY <1>1, EditStep

\* The administrator edits the crontab.
LEMMA UserStep ==
  ASSUME CronInv, UserEdits
  PROVE  CronInv'
<1>1. edit' = Overtaken(cron') /\ DOMAIN cron' = DOMAIN cron
  BY DEF UserEdits
<1>2. \A e \in Editor : EditOK(edit'[e], cron')
  BY <1>1, OvertakenOK
<1>3. DOMAIN edit' = Editor
  BY <1>1 DEF Overtaken
<1> QED BY <1>1, <1>2, <1>3 DEF CronInv, IsTab, EditOK, Editor

LEMMA BootStep ==
  ASSUME CronInv, BootRecover
  PROVE  CronInv'
<1> DEFINE v == [edit[Boot] EXCEPT !.pc = "read"]
<1>1. edit' = [edit EXCEPT ![Boot] = v] /\ UNCHANGED cron
  BY DEF BootRecover
<1>2. EditOK(v, cron)
  BY DEF CronInv, EditOK, Editor
<1> HIDE DEF v
<1> QED BY <1>1, <1>2, EditStep

\* Tasks and the dashboard.
TaskStep ==
    \/ \E t \in Task : \/ RunDoallAsked(t) \/ RestartAsked(t) \/ RunTask(t)
                       \/ TaskReports(t) \/ ViewQueue(t)
                       \/ \E ok \in BOOLEAN : RunDoall(t, ok) \/ RefreshDashboard(t, ok)
    \/ Tick \/ ViewStart \/ ViewRecover \/ ViewLoad \/ CacheAges
    \/ BootDone \/ Session \/ TimerChanges

LEMMA TaskStepIdle ==
  ASSUME TaskStep
  PROVE  UNCHANGED <<cron, edit>>
BY DEF TaskStep, RunDoallAsked, RestartAsked, Enqueue, RunTask, TaskReports,
       ViewQueue, RunDoall, RefreshDashboard, Tick, ViewStart,
       ViewRecover, ViewLoad, CacheAges, BootDone, Session, TimerChanges, sched

LEMMA RestartStep ==
  ASSUME CronInv, NEW t, RestartTask(t)
  PROVE  CronInv' /\ UNCHANGED cron
<1>1. CASE Stopped(FALSE) /\ UNCHANGED cron
  BY <1>1, StoppedStep
<1>2. CASE UNCHANGED <<cron, edit>>
  BY <1>2, IdleStep
<1> QED BY <1>1, <1>2 DEF RestartTask, sched

LEMMA KilledStep ==
  ASSUME CronInv, Killed \/ \E sure \in BOOLEAN : NightlyRestart(sure)
  PROVE  CronInv' /\ UNCHANGED cron
<1>1. PICK sure : Stopped(sure) /\ UNCHANGED cron
  BY DEF Killed, NightlyRestart
<1> QED BY <1>1, StoppedStep

\* What a step does to the crontab.
LEMMA CronStep ==
  ASSUME CronInv, [JobsNext]_jobsVars
  PROVE  /\ CronInv'
         /\ cron'.other # cron.other =>
              UserEdits \/ \E e \in Editor : edit[e].late /\ EnsureWrite(e, TRUE)
<1>1. CASE TaskStep
  BY <1>1, TaskStepIdle, IdleStep
<1>2. CASE \E t \in Task : RestartTask(t)
  BY <1>2, RestartStep
<1>3. CASE \E e \in Editor, ok \in BOOLEAN : EnsureRead(e, ok) \/ EnsureWrite(e, ok)
  BY <1>3, ReadStep, WriteStep
<1>4. CASE \E r \in Request :
             \/ \E s \in Setting : SetNightly(r, s) \/ SetBackup(r, s)
             \/ \E sync, backups \in BOOLEAN : Toggle(r, sync, backups)
             \/ Keep(r)
  BY <1>4, RequestStep
<1>5. CASE UserEdits
  BY <1>5, UserStep
<1>6. CASE Killed \/ \E sure \in BOOLEAN : NightlyRestart(sure)
  BY <1>6, KilledStep
<1>7. CASE Recycled
  BY <1>7, RecycleStep DEF Recycled
<1>8. CASE OldKilled
  BY <1>8, OldKilledStep DEF OldKilled
<1>9. CASE BootRecover
  BY <1>9, BootStep DEF BootRecover
<1>10. CASE UNCHANGED jobsVars
  BY <1>10, IdleStep DEF jobsVars, sched
<1>12. CASE \E e \in Editor : EnsureReadUntimed(e)
  BY <1>12, UntimedStep
<1>11. CASE JobsNext
  BY <1>1, <1>2, <1>3, <1>4, <1>5, <1>6, <1>7, <1>8, <1>9, <1>11, <1>12, Zenon DEF JobsNext, TaskStep
<1> QED BY <1>10, <1>11

\* What an edit has read still has the lines of others as they are, unless they changed
\* since (read_crontab_lines against write_crontab_lines).
THEOREM CrontabInvariance == JobsSpec => []CronInv
<1>1. JobsInit => CronInv
  BY CronInit
<1>2. CronInv /\ [JobsNext]_jobsVars => CronInv'
  BY CronStep
<1> QED BY <1>1, <1>2, PTL DEF JobsSpec

\* Lines of others in the crontab are never lost, except that a change made between the
\* panel's reading and its writing is taken back: for any requests, tasks and deaths.
THEOREM ForeignLinesAreKept == JobsSpec => ForeignKept
<1>1. JobsInit => CronInv
  BY CronInit
<1>2. CronInv /\ [JobsNext]_jobsVars => CronInv'
  BY CronStep
<1>3. CronInv /\ [JobsNext]_jobsVars =>
        [cron'.other # cron.other =>
           UserEdits \/ \E e \in Editor : edit[e].late /\ EnsureWrite(e, TRUE)]_jobsVars
  BY CronStep
<1> QED BY <1>1, <1>2, <1>3, PTL DEF JobsSpec, ForeignKept

=============================================================================
