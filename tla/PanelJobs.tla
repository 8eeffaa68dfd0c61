----------------------------- MODULE PanelJobs -----------------------------
(***************************************************************************)
(* What the panel does outside its requests: background tasks whose rows   *)
(* are in the database and whose callables wait in the memory of the       *)
(* process (background_tasks.py), the cached dashboard that is refreshed   *)
(* by such a task (logs_dashboard/cache.py), the jobs it keeps in root's   *)
(* crontab (maintenance_scheduler.py, feature_toggles.py) and the nightly  *)
(* restart of an idle panel (nightly_idle_restart.py).                     *)
(*                                                                         *)
(* The process may be killed at any point.  Gunicorn also replaces it      *)
(* after max_requests: then the new one starts while the old one finishes  *)
(* its tasks and its requests.  Sessions, texts and progress are left out  *)
(* as far as nothing depends on them; of the jobs with a switch only (the  *)
(* synchronisations and the clean-up of backups) there is one, "traffic".  *)
(***************************************************************************)
EXTENDS Integers, Sequences, FiniteSets

CONSTANTS
    Task,           \* rows of background_task that exist at a time
    Kinds,          \* the task types a row may have
    StaleAfter,     \* _TASK_STALE_SECONDS, in ticks
    Workers,        \* BACKGROUND_TASK_WORKERS
    MaxAge,         \* bound: ages are counted up to here
    Request,        \* threads that change settings
    Times,          \* what may be set as hour and minute of a daily job: a form for the
                    \* nightly one takes any digits
    DefaultTime,    \* the time a job has when none is set
    Loads           \* bound: what is asked of the panel in one behaviour

Type == {"run_doall", "restart_service", "logs_dashboard_refresh"}
Job == {"traffic", "nightly", "backup"}
BootJobs == <<"traffic", "nightly", "backup">>
ToggleJobs == <<"traffic", "backup">>

ASSUME JobsAssumption ==
    /\ Kinds \in [Task -> SUBSET Type] /\ StaleAfter \in [Type -> 0 .. MaxAge - 1]
    /\ Workers \in Nat \ {0} /\ MaxAge \in Nat
    /\ Times \subseteq [hour : Nat, minute : Nat] /\ DefaultTime \in Times
    /\ Loads \subseteq [timer : BOOLEAN, edits : Nat, host : Nat, tasks : Nat, stops : Nat, views : BOOLEAN]

VARIABLES
    process,    \* the process: down, starting or serving
    row,        \* background_task; the age counts from created_at, then from started_at
    queue,      \* callables waiting in the executor
    exec,       \* where each callable is
    retired,    \* tasks of a process that was replaced and has not ended yet
    result,     \* what the callable came to
    doomed,     \* rows that recover_stale_background_tasks has selected
    cache,      \* logs_dashboard_cache
    view,       \* a request for the dashboard
    active,     \* is there a session that was seen within its time to live?
    mem,        \* settings of the process
    env,        \* settings in .env
    cron,       \* the crontab
    timer,      \* admin-antizapret-traffic-sync.timer is enabled
    edit,       \* edits of the crontab in progress
    load        \* bound: what is still asked

pools == <<queue, exec, retired, result>>
tasks == <<row, pools>>
dash == <<doomed, cache, view>>
sched == <<mem, env, cron, timer, edit>>
jobsVars == <<process, tasks, dash, active, sched, load>>

Live == {"queued", "running"}
NoRow == [type |-> "run_doall", status |-> "none", age |-> 0]
Off == [hour |-> -1, minute |-> -1]
Boot == "boot"
Editor == Request \cup {Boot}
NoEdit == [pc |-> "idle", todo |-> << >>, read |-> << >>, undo |-> << >>, keep |-> << >>,
           old |-> << >>, late |-> FALSE, sure |-> FALSE]
Setting == [on : BOOLEAN, at : Times]

JobsInit ==
    /\ process = "up" /\ load \in Loads
    /\ row = [t \in Task |-> NoRow] /\ queue = << >>
    /\ exec = [t \in Task |-> "none"] /\ result = [t \in Task |-> "none"] /\ retired = {}
    /\ doomed = [by |-> "none", rows |-> {}] /\ cache = "none" /\ view = "idle"
    /\ active = FALSE
    /\ mem = [j \in Job |-> [on |-> j # "backup", at |-> DefaultTime]] /\ env = mem
    /\ timer = load.timer
    /\ cron = [line |-> [j \in Job |-> IF j = "backup" \/ (j = "traffic" /\ timer) THEN Off ELSE DefaultTime],
               other |-> {"user"}]
    /\ edit = [e \in Editor |-> NoEdit]

-----------------------------------------------------------------------------
\* Background tasks

Working == {t \in Task : exec[t] \notin {"none", "waiting"}}

\* The row is committed and the callable goes to the executor of this process.
Put(t, type) ==
    /\ exec[t] = "none" /\ row[t].status \notin Live /\ type \in Kinds[t]
    /\ row' = [row EXCEPT ![t] = [type |-> type, status |-> "queued", age |-> 0]]
    /\ queue' = Append(queue, t) /\ exec' = [exec EXCEPT ![t] = "waiting"]
    /\ result' = [result EXCEPT ![t] = "none"] /\ UNCHANGED retired

Enqueue(t, type) ==
    /\ process = "up" /\ load.tasks > 0 /\ load' = [load EXCEPT !.tasks = @ - 1]
    /\ Put(t, type) /\ UNCHANGED <<process, dash, active, sched>>

\* /run-doall, and the files that are saved with it
RunDoallAsked(t) == Enqueue(t, "run_doall")

\* handle_restart_service
RestartAsked(t) == Enqueue(t, "restart_service")

\* The tasks of the same process: each has an executor of its own.
Pool(t) == IF t \in retired THEN retired ELSE Task \ retired

\* run_background_task: the row is set to running, whatever became of it meanwhile.
RunTask(t) ==
    /\ exec[t] = "waiting" /\ Head(SelectSeq(queue, LAMBDA u : u \in Pool(t))) = t
    /\ Cardinality(Working \cap Pool(t)) < Workers
    /\ queue' = SelectSeq(queue, LAMBDA u : u # t) /\ exec' = [exec EXCEPT ![t] = "first"]
    /\ row' = [row EXCEPT ![t].status = "running", ![t].age = 0]
    /\ UNCHANGED <<process, retired, result, dash, active, sched, load>>

\* task_run_doall: doall.sh, then client.sh 7.  (A command ends by its timeout.)
RunDoall(t, ok) ==
    /\ row[t].type = "run_doall" /\ exec[t] \in {"first", "second"}
    /\ exec' = [exec EXCEPT ![t] = IF ok /\ exec[t] = "first" THEN "second" ELSE "over"]
    /\ result' = [result EXCEPT ![t] = IF ~ok THEN "error" ELSE IF exec[t] = "second" THEN "ok" ELSE @]
    /\ UNCHANGED <<process, row, queue, retired, dash, active, sched, load>>

\* task_refresh_logs_dashboard_cache
RefreshDashboard(t, ok) ==
    /\ row[t].type = "logs_dashboard_refresh" /\ exec[t] = "first"
    /\ exec' = [exec EXCEPT ![t] = "over"] /\ result' = [result EXCEPT ![t] = IF ok THEN "ok" ELSE "error"]
    /\ cache' = IF ok THEN "fresh" ELSE cache
    /\ UNCHANGED <<process, row, queue, retired, doomed, view, active, sched, load>>

\* The end of run_background_task: the row again, whatever became of it.
TaskReports(t) ==
    /\ exec[t] = "over" /\ exec' = [exec EXCEPT ![t] = "none"] /\ retired' = retired \ {t}
    /\ row' = [row EXCEPT ![t].status = IF result[t] = "ok" THEN "completed" ELSE "failed", ![t].age = 0]
    /\ result' = [result EXCEPT ![t] = "none"]
    /\ UNCHANGED <<process, queue, dash, active, sched, load>>

Tick ==
    /\ \E t \in Task : row[t].status \in Live /\ row[t].age < MaxAge
    /\ row' = [t \in Task |-> IF row[t].status \in Live /\ row[t].age < MaxAge
                              THEN [row[t] EXCEPT !.age = @ + 1] ELSE row[t]]
    /\ UNCHANGED <<process, pools, dash, active, sched, load>>

\* Mutant: rows that are still queued are forgotten.
StaleRunning(types) ==
    {t \in Task : row[t].status = "running" /\ row[t].type \in types /\ row[t].age > StaleAfter[row[t].type]}

\* recover_stale_background_tasks: the query.
Stale(types) ==
    {t \in Task : row[t].status \in Live /\ row[t].type \in types /\ row[t].age > StaleAfter[row[t].type]}

\* Its loop: each row is marked without another look at it.
MarkStale(by) ==
    /\ doomed.by = by
    /\ row' = [t \in Task |-> IF t \in doomed.rows THEN [row[t] EXCEPT !.status = "failed", !.age = 0] ELSE row[t]]
    /\ doomed' = [by |-> "none", rows |-> {}]

-----------------------------------------------------------------------------
\* The dashboard

\* Mutant: every refresh there ever was counts.
RefreshingEver == \E t \in Task : row[t].type = "logs_dashboard_refresh" /\ row[t].status # "none"

Refreshing == \E t \in Task : row[t].type = "logs_dashboard_refresh" /\ row[t].status \in Live

\* _get_logs_dashboard_data_cached begins with a recovery of its own.
ViewStart ==
    /\ process = "up" /\ active /\ load.views /\ view = "idle" /\ doomed.by = "none"
    /\ view' = "recover" /\ doomed' = [by |-> "view", rows |-> Stale({"logs_dashboard_refresh"})]
    /\ UNCHANGED <<process, tasks, cache, active, sched, load>>

ViewRecover ==
    /\ view = "recover" /\ MarkStale("view") /\ view' = "load"
    /\ UNCHANGED <<process, pools, cache, active, sched, load>>

\* get_logs_dashboard_data_cached: without a payload the data is collected at once.
ViewLoad ==
    /\ view = "load"
    /\ \/ cache # "none" /\ view' = (IF cache = "stale" /\ ~Refreshing THEN "queue" ELSE "idle") /\ UNCHANGED cache
       \/ cache = "none" /\ cache' = "fresh" /\ view' = "idle"
       \/ cache = "none" /\ view' = (IF Refreshing THEN "idle" ELSE "queue") /\ UNCHANGED cache
    /\ UNCHANGED <<process, tasks, doomed, active, sched, load>>

\* queue_logs_dashboard_refresh_if_needed looks again.
ViewQueue(t) ==
    /\ view = "queue" /\ view' = "idle"
    /\ IF Refreshing THEN UNCHANGED tasks ELSE Put(t, "logs_dashboard_refresh")
    /\ UNCHANGED <<process, doomed, cache, active, sched, load>>

CacheAges == cache = "fresh" /\ cache' = "stale" /\ UNCHANGED <<process, tasks, doomed, view, active, sched, load>>

-----------------------------------------------------------------------------
\* The crontab

\* An hour and a minute of the clock: all that crontab accepts.
TimeOfDay(at) == at.hour \in 0 .. 23 /\ at.minute \in 0 .. 59

\* What a job's line says.  The traffic is synchronised by the timer where that is
\* enabled (timed), whatever the switch says.  _app_backup_cron_expr takes the first half of HH:MM for the
\* minute and cuts the second half off at 23.
Line(j, s, timed) ==
    IF ~s.on \/ (j = "traffic" /\ timed) THEN Off
    ELSE IF j = "backup" THEN [minute |-> s.at.hour, hour |-> IF s.at.minute > 23 THEN 23 ELSE s.at.minute]
    ELSE s.at

Current(e) == Head(edit[e].todo)

\* The settings of the process that edits: after Recycled it is not the one that serves.
Memory(e) == IF edit[e].old = << >> THEN mem ELSE edit[e].old

\* ensure_*_cron: the line with the job's marker goes, one that fits the settings comes.
Replaced(e, tab, timed) == [tab EXCEPT !.line[Current(e)] = Line(Current(e), Memory(e)[Current(e)], timed)]

\* crontab refuses a table with a line it cannot read.
Accepted(tab) == \A j \in Job : tab.line[j] = Off \/ TimeOfDay(tab.line[j])

\* _rollback_preview_state
Undone(e) ==
    [mem EXCEPT !["traffic"].on = edit[e].undo.traffic,
                !["backup"].on = IF edit[e].undo.touched THEN edit[e].undo.backup ELSE @]

\* crontab cannot be read or written: a start goes on with the next job, a request is over
\* and the switches are put back in memory.  Lines that are written already stay.
EnsureFails(e) ==
    /\ edit' = [edit EXCEPT ![e] = IF e = Boot /\ Len(@.todo) > 1
                                   THEN [@ EXCEPT !.pc = "read", !.todo = Tail(edit[e].todo), !.late = FALSE] ELSE NoEdit]
    /\ mem' = IF edit[e].undo = << >> \/ edit[e].old # << >> THEN mem ELSE Undone(e)
    /\ UNCHANGED <<env, cron>>

\* Mutant: a crontab that cannot be read counts as empty.
EnsureReadEmpty(e, ok) ==
    /\ edit[e].pc = "read"
    /\ edit' = [edit EXCEPT ![e].pc = "write",
                   ![e].read = Replaced(e, IF ok THEN cron ELSE [line |-> [j \in Job |-> Off], other |-> {}], timer)]
    /\ UNCHANGED <<process, tasks, dash, active, mem, env, cron, timer, load>>

\* read_crontab_lines, and the job's line is replaced.
EnsureRead(e, ok) ==
    /\ edit[e].pc = "read" /\ (ok \/ ~edit[e].sure)
    /\ IF ok
       THEN /\ edit' = [edit EXCEPT ![e].pc = "write",
                           ![e].read = Replaced(e, cron, timer)]
            /\ UNCHANGED <<mem, env, cron>>
       ELSE EnsureFails(e)
    /\ UNCHANGED <<process, tasks, dash, active, timer, load>>

\* A systemctl that fails says that there is no timer.
EnsureReadUntimed(e) ==
    /\ edit[e].pc = "read" /\ Current(e) = "traffic" /\ timer
    /\ load.host > 0 /\ load' = [load EXCEPT !.host = @ - 1]
    /\ edit' = [edit EXCEPT ![e].pc = "write", ![e].read = Replaced(e, cron, FALSE)]
    /\ UNCHANGED <<process, tasks, dash, active, mem, env, cron, timer>>

\* The crontab changes under those who have read it.
Overtaken(now) ==
    [e \in Editor |-> [edit[e] EXCEPT !.late = @ \/ (edit[e].pc = "write" /\ now.other # cron.other)]]

\* write_crontab_lines: the whole crontab is written back; what changed since it was read is gone.
EnsureWrite(e, ok) ==
    /\ edit[e].pc = "write"
    /\ IF Accepted(edit[e].read) THEN ok \/ ~edit[e].sure ELSE ~ok
    /\ IF ok
       THEN /\ cron' = edit[e].read
            /\ edit' = [Overtaken(cron') EXCEPT ![e] =
                 IF Len(edit[e].todo) > 1
                 THEN [@ EXCEPT !.pc = "read", !.todo = Tail(edit[e].todo), !.read = << >>, !.late = FALSE]
                 ELSE IF @.keep # << >> THEN [@ EXCEPT !.pc = "keep", !.read = << >>] ELSE NoEdit]
            /\ UNCHANGED <<mem, env>>
       ELSE EnsureFails(e)
    /\ UNCHANGED <<process, tasks, dash, active, timer, load>>

Asked == process = "up" /\ active /\ load.edits > 0 /\ load' = [load EXCEPT !.edits = @ - 1]

\* Memory, .env, then the crontab.
ChangeSetting(r, j, s) ==
    /\ edit[r] = NoEdit /\ Asked /\ s # mem[j]
    /\ mem' = [mem EXCEPT ![j] = s] /\ env' = [env EXCEPT ![j] = s]
    /\ edit' = [edit EXCEPT ![r] = [NoEdit EXCEPT !.pc = "read", !.todo = <<j>>]]
    /\ UNCHANGED <<process, tasks, dash, active, cron, timer>>

\* handle_maintenance_settings: any expression of five fields of digits is kept.
SetNightly(r, s) == ChangeSetting(r, "nightly", s)

\* handle_backup_settings takes HH:MM only.
SetBackup(r, s) == TimeOfDay(s.at) /\ ChangeSetting(r, "backup", s)

\* apply_feature_toggle_settings: memory, the crontab job by job, .env only at the end.
Toggle(r, sync, backups) ==
    /\ edit[r] = NoEdit /\ Asked
    /\ mem' = [mem EXCEPT !["traffic"].on = sync, !["backup"].on = @ /\ backups]
    /\ edit' = [edit EXCEPT ![r] =
                   [NoEdit EXCEPT !.pc = "read", !.todo = ToggleJobs,
                       !.undo = [traffic |-> mem["traffic"].on, backup |-> mem["backup"].on, touched |-> ~backups],
                       !.keep = [traffic |-> sync, backups |-> backups]]]
    /\ UNCHANGED <<process, tasks, dash, active, env, cron, timer>>

Keep(r) ==
    /\ edit[r].pc = "keep" /\ edit' = [edit EXCEPT ![r] = NoEdit]
    /\ env' = [env EXCEPT !["traffic"].on = edit[r].keep.traffic, !["backup"].on = @ /\ edit[r].keep.backups]
    /\ mem' = IF edit[r].old # << >> \/ edit[r].keep.backups THEN mem ELSE [mem EXCEPT !["backup"].on = FALSE]
    /\ UNCHANGED <<process, tasks, dash, active, cron, timer, load>>

\* setup.sh or the administrator enables or disables the timer.
TimerChanges ==
    /\ load.host > 0 /\ load' = [load EXCEPT !.host = @ - 1]
    /\ timer' = ~timer
    /\ UNCHANGED <<process, tasks, dash, active, mem, env, cron, edit>>

\* crontab -e of the administrator
UserEdits ==
    /\ load.host > 0 /\ load' = [load EXCEPT !.host = @ - 1]
    /\ \E lines \in SUBSET {"user"} : lines # cron.other /\ cron' = [cron EXCEPT !.other = lines]
    /\ edit' = Overtaken(cron')
    /\ UNCHANGED <<process, tasks, dash, active, mem, env, timer>>

-----------------------------------------------------------------------------
\* The process

\* RuntimeSettingsService.load: what the panel wrote to .env comes back as it was.
Loaded == env

\* The start: settings from .env, recovery, then the jobs one by one.
Starting ==
    /\ process' = "boot" /\ mem' = Loaded /\ view' = "idle"
    /\ doomed' = [by |-> "boot", rows |-> Stale(Type)]

\* Mutant: a start leaves the line of the backup alone.
BootEditShort == [NoEdit EXCEPT !.pc = "wait", !.todo = <<"traffic", "nightly">>]

BootEdit == [NoEdit EXCEPT !.pc = "wait", !.todo = BootJobs]

\* Everything in memory is gone.
Stopped(sure) ==
    /\ exec' = [t \in Task |-> "none"] /\ queue' = << >> /\ retired' = {}
    /\ result' = [t \in Task |-> "none"] /\ UNCHANGED row
    /\ edit' = [e \in Editor |-> IF e = Boot THEN [BootEdit EXCEPT !.sure = sure] ELSE NoEdit]

Killed == load.stops > 0 /\ load' = [load EXCEPT !.stops = @ - 1] /\ Starting /\ Stopped(FALSE)
          /\ UNCHANGED <<cache, active, env, cron, timer>>

\* The task restart_service does not live to see its end.
RestartTask(t) ==
    /\ row[t].type = "restart_service" /\ exec[t] = "first"
    /\ \/ Starting /\ Stopped(FALSE) /\ UNCHANGED <<cache, active, env, cron, timer, load>>
       \/ /\ exec' = [exec EXCEPT ![t] = "over"] /\ result' = [result EXCEPT ![t] = "error"]
          /\ UNCHANGED <<process, row, queue, retired, dash, active, sched, load>>

\* max_requests: the old process ends its tasks and requests beside the new one.
Recycled ==
    /\ process = "up" /\ load.stops > 0 /\ load' = [load EXCEPT !.stops = @ - 1] /\ Starting
    /\ edit' = [e \in Editor |-> IF e = Boot THEN BootEdit
                                 ELSE IF edit[e] = NoEdit THEN NoEdit ELSE [edit[e] EXCEPT !.old = Memory(e)]]
    /\ retired' = {t \in Task : exec[t] # "none"}
    /\ UNCHANGED <<row, queue, exec, result, cache, active, env, cron, timer>>

\* The old process gets no longer than timeout and graceful_timeout.
OldKilled ==
    /\ retired # {} /\ retired' = {}
    /\ exec' = [t \in Task |-> IF t \in retired THEN "none" ELSE exec[t]]
    /\ result' = [t \in Task |-> IF t \in retired THEN "none" ELSE result[t]]
    /\ queue' = SelectSeq(queue, LAMBDA t : t \notin retired)
    /\ edit' = [e \in Editor |-> IF edit[e].old = << >> THEN edit[e] ELSE NoEdit]
    /\ UNCHANGED <<process, row, dash, active, mem, env, cron, timer, load>>

BootRecover ==
    /\ process = "boot" /\ edit[Boot].pc = "wait" /\ MarkStale("boot")
    /\ edit' = [edit EXCEPT ![Boot].pc = "read"]
    /\ UNCHANGED <<process, pools, cache, view, active, mem, env, cron, timer, load>>

BootDone ==
    /\ process = "boot" /\ edit[Boot] = NoEdit /\ process' = "up"
    /\ UNCHANGED <<tasks, dash, active, sched, load>>

\* touch_active_web_session, remove_active_web_session and the time to live, which is
\* longer than a view takes
Session ==
    /\ IF active THEN view = "idle" ELSE process = "up"
    /\ active' = ~active /\ UNCHANGED <<process, tasks, dash, sched, load>>

\* nightly_idle_restart.py: nobody has been there, so the panel is restarted.  (A session
\* that begins after the count does not stop it.)  sure: crontab works during this start.
NightlyRestart(sure) ==
    /\ ~active /\ process = "up" /\ env["nightly"].on /\ cron.line["nightly"] # Off
    /\ Starting /\ Stopped(sure) /\ UNCHANGED <<cache, active, env, cron, timer, load>>

JobsNext ==
    \/ \E t \in Task : \/ RunDoallAsked(t) \/ RestartAsked(t)
                       \/ RunTask(t) \/ TaskReports(t) \/ RestartTask(t) \/ ViewQueue(t)
                       \/ \E ok \in BOOLEAN : RunDoall(t, ok) \/ RefreshDashboard(t, ok)
    \/ Tick \/ ViewStart \/ ViewRecover \/ ViewLoad \/ CacheAges
    \/ \E e \in Editor, ok \in BOOLEAN : EnsureRead(e, ok) \/ EnsureWrite(e, ok)
    \/ \E e \in Editor : EnsureReadUntimed(e)
    \/ \E r \in Request : \/ \E s \in Setting : SetNightly(r, s) \/ SetBackup(r, s)
                          \/ \E sync, backups \in BOOLEAN : Toggle(r, sync, backups)
                          \/ Keep(r)
    \/ UserEdits \/ TimerChanges \/ Killed \/ Recycled \/ OldKilled \/ BootRecover \/ BootDone
    \/ Session \/ \E sure \in BOOLEAN : NightlyRestart(sure)

-----------------------------------------------------------------------------
\* Commands end by their timeouts, threads go on, sessions expire and others begin.  The
\* dashboard is looked at again and again; the nightly restart finds an idle panel and a
\* working crontab in infinitely many nights, and it does not hit every refresh.
Fairness ==
    /\ WF_jobsVars(\E t \in Task, ok \in BOOLEAN :
                      RunDoall(t, ok) \/ RefreshDashboard(t, ok) \/ RestartTask(t) \/ TaskReports(t))
    /\ SF_jobsVars(\E t \in Task : RunTask(t)) /\ SF_jobsVars(\E t \in Task : RefreshDashboard(t, TRUE))
    /\ WF_jobsVars(Tick) /\ SF_jobsVars(Session) /\ SF_jobsVars(ViewStart)
    /\ WF_jobsVars(ViewRecover \/ ViewLoad \/ \E t \in Task : ViewQueue(t))
    /\ WF_jobsVars(\/ \E e \in Editor, ok \in BOOLEAN : EnsureRead(e, ok) \/ EnsureWrite(e, ok)
                   \/ (\E r \in Request : Keep(r)) \/ BootRecover \/ BootDone)
    /\ SF_jobsVars(NightlyRestart(TRUE))

JobsSpec == JobsInit /\ [][JobsNext]_jobsVars /\ Fairness

Nightly == env["nightly"].on /\ cron.line["nightly"] # Off

\* No task stays queued or running for ever: the executor reports its end or, when the
\* process died with it, a later start or view of the dashboard finds the row too old.
\* This takes restarts, so it is promised as long as the nightly one is in the crontab.
TaskEnds == \A t \in Task : (row[t].status \in Live /\ []Nightly) ~> row[t].status \notin Live

\* A dashboard that is out of date is refreshed in the end, even if the process dies with
\* the refresh and leaves a row that keeps get_logs_dashboard_refresh_task from another.
CacheRefreshes == (load.views /\ cache = "stale") ~> cache = "fresh"

\* The crontab ends up as .env and the systemd timer say, whatever switches failed
\* half-way, edits overlapped or processes died between .env and the crontab: every start
\* writes all lines again.  Only a job whose stored time is none that crontab accepts keeps
\* the line it had, and the others do not suffer from it.  (That systemctl fails, which
\* brings the traffic line back beside the timer until the next start, is bounded.)
CronHeals ==
    <>[]Nightly => <>[](\A j \in Job : TimeOfDay(env[j].at) => cron.line[j] = Line(j, env[j], timer))

\* Lines of others in the crontab are never lost, except that a change made between the
\* panel's reading and its writing is taken back.
ForeignKept ==
    [][cron'.other # cron.other => UserEdits \/ \E e \in Editor : edit[e].late /\ EnsureWrite(e, TRUE)]_jobsVars

=============================================================================
