----------------------------- MODULE RestoreJob -----------------------------
(***************************************************************************)
(* Backup and restore of the panel (RestoreJobService and                  *)
(* BackupManagerService).  A restore job is a process of its own, started  *)
(* by systemd or by backup_cli.py.  It stages the archive, stops the       *)
(* panel, keeps a snapshot of the files it is going to replace, publishes  *)
(* file by file, migrates the database, starts the panel and checks its    *)
(* health; any exception leads to the rollback.  SIGTERM and SIGINT raise  *)
(* an exception too, SIGKILL and a power failure do not.  Backups are made *)
(* by the panel, by cron and by backup_cli.py, which stops and starts the  *)
(* panel without taking the lock of the restore.                           *)
(***************************************************************************)
EXTENDS Integers, Sequences, FiniteSets

CONSTANTS
    Jobs,           \* restore jobs
    NoJob,
    Old, First, Bad,    \* origins of data: live data, two archives at the start
    None,           \* the file does not exist
    Retention,      \* retention_count
    MaxFails,       \* bound: exceptions and kills
    MaxOther        \* bound: backups, deletions, calls of backup_cli.py

ASSUME RestoreAssumption ==
    /\ NoJob \notin Jobs /\ Cardinality({Old, First, Bad, None}) = 4
    /\ Retention \in Nat \ {0} /\ {MaxFails, MaxOther} \subseteq Nat

\* The files of _is_allowed_target: a database, and .env or a file of data/.
Files == {"db", "data"}
Content == [src : {Old, First, Bad, None}, schema : {0, 1}]
File(s, n) == [src |-> s, schema |-> n]

VARIABLES
    disk,       \* the runtime files of the panel
    wal,        \* the journal beside the database: the origin it belongs to
    panel,      \* admin-antizapret.service: "up" or "down"
    store,      \* backup_root, oldest first
    made,       \* archives made so far
    lock,       \* who holds the restore lock
    job,        \* what each job knows
    status,     \* status.json of each job
    cli,        \* backup_cli.py create: "idle", "stopped"
    fails, others,
    mixed       \* history: others have opened the data in the middle of a restore

vars == <<disk, wal, panel, store, made, lock, job, status, cli, fails, others, mixed>>

Fresh == [pc |-> "none", arc |-> 0, cargo |-> << >>, todo |-> {}, snap |-> << >>,
          maint |-> FALSE, pub |-> FALSE, err |-> FALSE]

\* Mutant: the journal is forgotten.
ManifestFiles(c) == DOMAIN c

\* _with_sqlite_sidecars: a database in the archive puts its journal on the list of
\* what is replaced, as a file to be removed.
Manifest(c) == DOMAIN c \cup (IF "db" \in DOMAIN c THEN {"wal"} ELSE {})

Archive(k) == {i \in DOMAIN store : store[i].id = k}

\* init_db.py --ensure-schema
Migrated(d) == [d EXCEPT !["db"].schema = 1]

\* _require_panel_health: what was restored lets the panel answer.
Healthy == panel = "up" /\ \A f \in Files : disk[f].src # Bad

Set(j, r) == job' = [job EXCEPT ![j] = r]
Go(j, pc) == Set(j, [job[j] EXCEPT !.pc = pc])
Note(j, s) == status' = [status EXCEPT ![j] = s]

\* Any call that raises, and the signals of _restore_interrupt_guard.
Raises == fails < MaxFails /\ fails' = fails + 1
Works == UNCHANGED fails

others_ == <<store, made, cli, others, mixed>>

-----------------------------------------------------------------------------
(* The job *)

\* _create_job: the archive is validated and its name is kept.
Queue(j) ==
    /\ job[j].pc = "none"
    /\ \E i \in DOMAIN store :
          Set(j, [Fresh EXCEPT !.pc = "queued", !.arc = store[i].id, !.cargo = store[i].files])
    /\ Note(j, "queued")
    /\ UNCHANGED <<disk, wal, panel, lock, fails, others_>>

\* queue: the unit cannot be launched, or its process cannot take the lock; that it failed
\* may not get into status.json either (the file system is full).
LaunchFails(j) ==
    /\ job[j].pc = "queued" /\ Raises
    /\ \/ Go(j, "done") /\ Note(j, "failed")
       \/ Go(j, "mute") /\ UNCHANGED status
    /\ UNCHANGED <<disk, wal, panel, lock, others_>>

\* _global_restore_lock waits for the other job.
Lock(j) ==
    /\ job[j].pc = "queued" /\ lock = NoJob
    /\ lock' = j /\ Go(j, "prepare") /\ Note(j, "running")
    /\ UNCHANGED <<disk, wal, panel, fails, others_>>

\* The except clause is entered; what has to be undone depends on how far the job came.
Except(r) == [r EXCEPT !.pc = IF r.pub THEN "undo_stop" ELSE IF r.maint THEN "undo_start" ELSE "report"]

Running == {"prepare", "stop", "snapshot", "publish", "migrate", "start", "health", "finish"}

Raise(j) ==
    /\ job[j].pc \in Running /\ Raises
    /\ Set(j, Except(job[j]))
    /\ UNCHANGED <<disk, wal, panel, lock, status, others_>>

\* _read_request, _prepare_archive: retention or a deletion may have taken the archive.
Prepare(j) ==
    /\ job[j].pc = "prepare"
    /\ IF Archive(job[j].arc) = {} THEN Set(j, Except(job[j])) ELSE Go(j, "stop")
    /\ UNCHANGED <<disk, wal, panel, lock, status, fails, others_>>

\* systemctl stop of a panel; its journal is folded into the database, or stays.
StopPanel == panel' = "down" /\ wal' \in {wal, None}

Stop(j) ==
    /\ job[j].pc = "stop"
    /\ \/ Works /\ StopPanel /\ Set(j, [job[j] EXCEPT !.pc = "snapshot", !.maint = TRUE])
       \/ Raises /\ (StopPanel \/ UNCHANGED <<panel, wal>>) /\ Set(j, Except([job[j] EXCEPT !.maint = TRUE]))
    /\ UNCHANGED <<disk, lock, status, others_>>

\* _snapshot_targets: all of the manifest, before the first file is replaced.
Snapshot(j) ==
    /\ job[j].pc = "snapshot"
    /\ LET T == Manifest(job[j].cargo)
       IN Set(j, [job[j] EXCEPT !.pc = "publish", !.pub = TRUE, !.todo = T,
                                !.snap = [f \in T |-> IF f = "wal" THEN File(wal, 1) ELSE disk[f]]])
    /\ UNCHANGED <<disk, wal, panel, lock, status, fails, others_>>

\* _publish_manifest, _atomic_copy: the files of the archive one by one, then the journal.
Publish(j) ==
    /\ job[j].pc = "publish"
    /\ LET todo == job[j].todo
           rest == IF todo \cap Files # {} THEN todo \cap Files ELSE todo
       IN IF todo = {} THEN Go(j, "migrate") /\ UNCHANGED <<disk, wal>>
          ELSE \E f \in rest :
                 /\ IF f = "wal" THEN wal' = None /\ UNCHANGED disk
                    ELSE disk' = [disk EXCEPT ![f] = job[j].cargo[f]] /\ UNCHANGED wal
                 /\ Set(j, [job[j] EXCEPT !.todo = todo \ {f}])
    /\ UNCHANGED <<panel, lock, status, fails, others_>>

\* _run_database_migration
Migrate(j) ==
    /\ job[j].pc = "migrate"
    /\ disk' = Migrated(disk)
    /\ Go(j, "start")
    /\ UNCHANGED <<wal, panel, lock, status, fails, others_>>

\* _service_control("start"), _wait_for_service_active: bad data may keep it down.
Start(j) ==
    /\ job[j].pc = "start"
    /\ \/ panel' = "up" /\ Go(j, "health")
       \/ \E f \in Files : disk[f].src = Bad /\ UNCHANGED panel /\ Set(j, Except(job[j]))
    /\ UNCHANGED <<disk, wal, lock, status, fails, others_>>

Health(j) ==
    /\ job[j].pc = "health"
    /\ IF Healthy THEN Go(j, "finish") ELSE Set(j, Except(job[j]))
    /\ UNCHANGED <<disk, wal, panel, lock, status, fails, others_>>

\* Mutant: the lock is kept.
EndLocked(j, pc) == UNCHANGED lock /\ Set(j, [job[j] EXCEPT !.pc = pc, !.snap = << >>, !.todo = {}, !.maint = FALSE])

\* The finally clause and the release of the lock.
End(j, pc) == lock' = NoJob /\ Set(j, [job[j] EXCEPT !.pc = pc, !.snap = << >>, !.todo = {}, !.maint = FALSE])

Finish(j) ==
    /\ job[j].pc = "finish"
    /\ End(j, "done") /\ Note(j, "completed")
    /\ UNCHANGED <<disk, wal, panel, fails, others_>>

-----------------------------------------------------------------------------
(* The rollback *)

\* Without a stopped panel the files are left alone.
UndoStop(j) ==
    /\ job[j].pc = "undo_stop"
    /\ \/ Works /\ StopPanel /\ Set(j, [job[j] EXCEPT !.pc = "undo", !.todo = DOMAIN job[j].snap])
       \/ Raises /\ (StopPanel \/ UNCHANGED <<panel, wal>>) /\ Set(j, [job[j] EXCEPT !.pc = "undo_start", !.err = TRUE])
    /\ UNCHANGED <<disk, lock, status, others_>>

\* _restore_snapshot goes on after a file that could not be restored.
Undo(j) ==
    /\ job[j].pc = "undo"
    /\ LET todo == job[j].todo IN
       IF todo = {} THEN Go(j, "undo_start") /\ UNCHANGED <<disk, wal, fails>>
       ELSE \E f \in todo :
              \/ /\ Works /\ Set(j, [job[j] EXCEPT !.todo = todo \ {f}])
                 /\ IF f = "wal" THEN wal' = job[j].snap[f].src /\ UNCHANGED disk
                    ELSE disk' = [disk EXCEPT ![f] = job[j].snap[f]] /\ UNCHANGED wal
              \/ /\ Raises /\ Set(j, [job[j] EXCEPT !.todo = todo \ {f}, !.err = TRUE])
                 /\ UNCHANGED <<disk, wal>>
    /\ UNCHANGED <<panel, lock, status, others_>>

\* service_maintenance_started
MustStart(j) == job[j].maint

UndoStart(j) ==
    /\ job[j].pc = "undo_start"
    /\ IF ~MustStart(j) THEN Go(j, "report") /\ UNCHANGED <<panel, fails>>
       ELSE \/ Works /\ panel' = "up"
               /\ Set(j, [job[j] EXCEPT !.pc = "report", !.err = @ \/ \E f \in Files : disk[f].src = Bad])
            \/ Raises /\ panel' \in {panel, "up"} /\ Set(j, [job[j] EXCEPT !.pc = "report", !.err = TRUE])
    /\ UNCHANGED <<disk, wal, lock, status, others_>>

\* Mutant: errors of the rollback are not reported.
OutcomeFailed(j) == "failed"
\* rollback_success
Outcome(j) == IF job[j].err THEN "rollback_failed" ELSE "failed"

\* The result is written, then the snapshot is deleted - after a failed rollback too.  When
\* it cannot be written the job is over, and its status stays what it was.
Report(j) ==
    /\ job[j].pc = "report"
    /\ \/ Works /\ End(j, "done") /\ Note(j, Outcome(j))
       \/ Raises /\ End(j, "mute") /\ UNCHANGED status
    /\ UNCHANGED <<disk, wal, panel, others_>>

\* SIGKILL, and a signal between the try blocks of the except clause, which nothing catches.
Kill(j) ==
    /\ job[j].pc \in Running \cup {"queued", "undo_stop", "undo", "undo_start", "report"} /\ Raises
    /\ Go(j, "dead")
    /\ lock' = IF lock = j THEN NoJob ELSE lock
    /\ UNCHANGED <<disk, wal, panel, status, others_>>

-----------------------------------------------------------------------------
(* Backups, and the panel *)

\* Is a job between the stop of the panel and its start?
Maintenance == \E j \in Jobs : job[j].maint /\ job[j].pc \notin {"health", "finish", "report", "done"}

Counted == others < MaxOther /\ others' = others + 1

\* A panel that runs writes into its database.
Write ==
    /\ panel = "up" /\ wal = None /\ disk["db"].src # None
    /\ wal' = disk["db"].src
    /\ UNCHANGED <<disk, panel, lock, job, status, fails, others_>>

\* prune_old_backups
Pruned(s) == IF Len(s) > Retention THEN SubSeq(s, Len(s) - Retention + 1, Len(s)) ELSE s

\* prepare_db_files_for_backup exports the database without its journal; the other files
\* are taken as they are.
Exported(T) == [f \in {g \in T : disk[g].src # None} |-> disk[f]]

\* create_backup with the existing files of the chosen components.  When pruning fails
\* the new archive is removed as well.
Create(T) ==
    LET new == [id |-> made + 1, files |-> Exported(T)]
        kept == Pruned(Append(store, new))
    IN /\ DOMAIN new.files # {} /\ Counted
       /\ made' = made + 1
       /\ \/ Works /\ store' = kept
          \/ Raises /\ store' \in {store, SubSeq(kept, 1, Len(kept) - 1)}
       /\ UNCHANGED <<disk, wal, panel, lock, job, status, cli, mixed>>

\* delete_backup
Delete(i) ==
    /\ Counted
    /\ store' = [n \in 1..Len(store) - 1 |-> IF n < i THEN store[n] ELSE store[n + 1]]
    /\ UNCHANGED <<disk, wal, panel, made, lock, job, status, cli, fails, mixed>>

\* cmd_create stops the panel, and starts it whatever came of the backup.
CliStop ==
    /\ cli = "idle" /\ Counted
    /\ cli' = "stopped" /\ (StopPanel \/ UNCHANGED <<panel, wal>>)
    /\ UNCHANGED <<disk, store, made, lock, job, status, fails, mixed>>

CliStart ==
    /\ cli = "stopped" /\ cli' = "idle"
    /\ panel' = "up"
    /\ mixed' = (mixed \/ Maintenance)
    /\ UNCHANGED <<disk, wal, store, made, lock, job, status, fails, others>>

-----------------------------------------------------------------------------

Init ==
    /\ disk = [f \in Files |-> File(IF f = "data" THEN None ELSE Old, 1)]
    /\ wal = Old
    /\ panel = "up"
    /\ store = << [id |-> 1, files |-> [f \in Files |-> File(First, IF f = "db" THEN 0 ELSE 1)]],
                  [id |-> 2, files |-> [f \in {"data"} |-> File(Bad, 1)]] >>
    /\ made = 2
    /\ lock = NoJob
    /\ job = [j \in Jobs |-> Fresh] /\ status = [j \in Jobs |-> "none"]
    /\ cli = "idle" /\ fails = 0 /\ others = 0 /\ mixed = FALSE

Step(j) ==
    \/ Lock(j) \/ Prepare(j) \/ Stop(j) \/ Snapshot(j) \/ Publish(j) \/ Migrate(j)
    \/ Start(j) \/ Health(j) \/ Finish(j) \/ UndoStop(j) \/ Undo(j) \/ UndoStart(j) \/ Report(j)

\* handle_backup_create, handle_backup_restore, handle_backup_delete
Requests ==
    \/ panel = "up" /\ \E T \in (SUBSET Files) \ {{}} : Create(T)
    \/ \E j \in Jobs : Queue(j)
    \/ panel = "up" /\ \E i \in DOMAIN store : Delete(i)

\* run_backup_job, which cron starts whatever the panel does.
CronBackup == Create(Files)

Next ==
    \/ Requests \/ CronBackup
    \/ \E j \in Jobs : Step(j) \/ LaunchFails(j) \/ Raise(j) \/ Kill(j)
    \/ Write \/ CliStop \/ CliStart

\* A job is a process that systemd or the shell runs to its end; so is backup_cli.py.
Spec == Init /\ [][Next]_vars /\ \A j \in Jobs : WF_vars(Step(j)) /\ WF_vars(CliStart)

-----------------------------------------------------------------------------
(* Properties *)

\* The data the panel works with: until a job has ended well, or has died, its snapshot
\* counts and not what it has published.
Data ==
    [f \in Files |-> IF lock # NoJob /\ job[lock].pub /\ f \in DOMAIN job[lock].snap
                     THEN job[lock].snap[f] ELSE disk[f]]

Result(j) ==
    IF job[j].pc = "dead" \/ status[j] = "rollback_failed" \/ (job[j].pc = "mute" /\ job[j].err) THEN "broken"
    ELSE IF job[j].pc = "mute" THEN "failed"
    ELSE IF status[j] \in {"none", "completed", "failed"} THEN status[j] ELSE "open"

Atomic == INSTANCE AtomicRestore WITH Contents <- Content, Upgrade <- Migrated, data <- Data,
              cargo <- [j \in Jobs |-> job[j].cargo], result <- [j \in Jobs |-> Result(j)]

\* A restore, step by step with its snapshot, its rollback and its two jobs, is atomic: what
\* run_job reports as completed is the whole archive, what it reports as failed and rolled
\* back has changed nothing, for every point at which it raises or is killed; one that
\* cannot write its report has changed nothing either, if its rollback had no errors.
RestoreAtomic == Atomic!ASpec

\* A panel that runs never finds a database with the journal of another one, however a job
\* ends, unless others started it in the middle of a restore or the rollback failed.
JournalFits ==
    (panel = "up" /\ ~mixed /\ \A j \in Jobs : ~job[j].err /\ job[j].pc # "dead") => wal \in {None, disk["db"].src}

\* Every job that was queued comes to its end and says so, unless it is killed or the report
\* itself cannot be written (its page then shows it as running for ever); and one that has
\* stopped the panel brings it back, after whatever exception and reported or not, unless
\* it is killed or the rollback had errors.
JobEnds ==
    \A j \in Jobs :
        /\ status[j] = "queued" ~> (status[j] \notin {"queued", "running"} \/ job[j].pc \in {"dead", "mute"})
        /\ job[j].maint ~> (panel = "up" \/ job[j].pc = "dead" \/ job[j].err)
=============================================================================
