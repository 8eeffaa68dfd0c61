--------------------------- MODULE InstallCutover ---------------------------
(***************************************************************************)
(* The installation transaction of setup.sh: snapshot, package phase,      *)
(* publication of the new tree, cutover, commit or rollback; and what runs *)
(* beside it: antizapret.service, which may crash and be restarted at any  *)
(* point (up.sh, down.sh), the custom hooks and the marker file that hands *)
(* them over between setup.sh, up.sh and down.sh.                          *)
(*                                                                         *)
(* The VPN units are one unit here (they are stopped and started           *)
(* together), and so are the maintenance units and those of the panel.     *)
(* The install lock is held exactly while setup.sh lives; the hook lock is *)
(* held for longer than one step by up.sh --complete-cutover only.         *)
(***************************************************************************)
EXTENDS Integers

CONSTANT MaxRuns    \* bound: how often setup.sh is started

ASSUME MaxRunsAssumption == MaxRuns \in Nat

VARIABLES
    step,       \* where setup.sh is; "idle" when it does not run
    outcome,    \* how the last run ended
    runs,       \* runs started so far
    live,       \* the managed paths: 0 is the first tree, n the one run n publishes
    snap,       \* the tree INSTALL_TRANSACTION_ROOT holds, or NoTree
    kept,       \* trees in rollback directories earlier runs left behind
    good,       \* history: the last tree that was committed
    began,      \* history: the tree this run found
    saved,      \* INSTALL_TRANSACTION_ACTIVE
    fw,         \* antizapret.service and the script it is running
    runDown,    \* CUTOVER_RUN_CUSTOM_DOWN of that down.sh
    restart,    \* systemd starts the unit again when it has stopped
    crashed,    \* the unit went down by itself and is not active again yet
    vpn,        \* the VPN listeners are active
    maint,      \* timers, updaters and the BGP writer are active
    panel,      \* the panel: "none" (not installed, no job in the crontab), "off", "on",
                \* or "woken" by its nightly job
    asked,      \* INSTALL_PANEL of this run
    guard,      \* the runs whose DROP rules are on the VPN ports
    marker,     \* INSTALL_CUSTOM_HOOK_MARKER
    env,        \* INSTALL_CUSTOM_HOOK_ENV exists
    hookLock,   \* INSTALL_CUSTOM_HOOK_LOCK between steps: "free", or held by the "hook" that runs
    hooks,      \* custom-up runs not yet undone by custom-down
    cutShort    \* history: a down.sh ended early and none has cleaned up since

unit == <<fw, runDown, restart, crashed>>
hookfiles == <<marker, env, hookLock>>
trees == <<live, snap, kept, good, began>>
plan == <<saved, asked>>
writers == <<maint, panel>>
custom == <<hooks, cutShort>>
vars == <<step, outcome, runs, trees, plan, unit, vpn, writers, guard, hookfiles, custom>>

Mixed == -1     \* paths of two trees
NoTree == -2
PanelStates == {"none", "off", "on", "woken"}

InstallActive == step # "idle"
WasActive(s) == s \in {"pre", "pre2", "tail", "active"}
Stopped == fw = "inactive"
Unlocked == hookLock = "free"
\* The firewall rules of up.sh are in place.
Rules == fw \in {"tail", "active", "dying"}

-----------------------------------------------------------------------------
(* antizapret.service *)

\* handle_cutover_hook_state of down.sh, called with ANTIZAPRET_INTERNAL_PRECLEANUP
\* or not, under the hook lock.
HandleHookState(precleanup) ==
    \/ marker = "none" /\ runDown' = TRUE /\ UNCHANGED <<marker, env>>
    \/ /\ marker = "applied" /\ Unlocked
       /\ runDown' = TRUE
       /\ marker' = IF InstallActive THEN "stopped" ELSE "none"
       /\ env' = FALSE
    \/ /\ marker \in {"deferred", "ready"} /\ Unlocked
       /\ runDown' = FALSE
       /\ IF marker = "deferred" /\ precleanup /\ InstallActive
          THEN UNCHANGED <<marker, env>>
          ELSE IF InstallActive THEN marker' = "stopped" /\ env' = env
          ELSE marker' = "none" /\ env' = FALSE
    \/ /\ marker = "stopped" /\ Unlocked
       /\ runDown' = FALSE
       /\ IF InstallActive THEN UNCHANGED <<marker, env>> ELSE marker' = "none" /\ env' = FALSE

\* custom-down.sh at the end of a down.sh that gets there.
RunCustomDown ==
    /\ hooks' = IF runDown THEN 0 ELSE hooks
    /\ cutShort' = (cutShort /\ hooks' > 0)
    /\ runDown' = TRUE

\* up.sh starts with down.sh, to remove the rules of the run before.
UpPrecleanup ==
    /\ fw = "pre" /\ fw' = "pre2"
    /\ HandleHookState(marker = "deferred" /\ InstallActive)
    /\ UNCHANGED <<step, outcome, runs, trees, plan, restart, crashed, vpn, writers, guard, hookLock, custom>>

\* ... and installs the rules.
UpRules ==
    /\ fw = "pre2" /\ fw' = "tail"
    /\ RunCustomDown
    /\ UNCHANGED <<step, outcome, runs, trees, plan, restart, crashed, vpn, writers, guard, hookfiles>>

\* Its last part: custom-up, or its deferral to the end of the cutover.
UpTail ==
    /\ fw = "tail"
    /\ \/ marker = "none" /\ hooks' = hooks + 1 /\ fw' = "active" /\ UNCHANGED <<marker, env>>
       \/ marker = "deferred" /\ env' = TRUE /\ marker' = "ready" /\ fw' = "active" /\ UNCHANGED hooks
       \/ marker \in {"ready", "applied"} /\ fw' = "active" /\ UNCHANGED <<marker, env, custom>>
       \/ marker = "stopped" /\ fw' = "dying" /\ UNCHANGED <<marker, env, custom>>
    /\ crashed' = (crashed /\ fw' # "active")
    /\ UNCHANGED <<step, outcome, runs, trees, plan, runDown, restart, vpn, writers, guard, hookLock, cutShort>>

\* up.sh or the proxy fails, or the process is killed: ExecStopPost follows.
Crash ==
    /\ fw \in {"pre", "pre2", "tail", "active"}
    /\ fw' = "dying" /\ restart' = TRUE /\ crashed' = TRUE
    /\ UNCHANGED <<step, outcome, runs, trees, plan, runDown, vpn, writers, guard, hookfiles, custom>>

\* ExecStopPost: down.sh.
DownHandle ==
    /\ fw = "dying" /\ fw' = "dying2"
    /\ HandleHookState(FALSE)
    /\ UNCHANGED <<step, outcome, runs, trees, plan, restart, crashed, vpn, writers, guard, hookLock, custom>>

\* Restart=on-failure, unless the unit was stopped or the start limit is hit.
RestartOnFailure ==
    /\ fw' \in IF restart THEN {"pre", "inactive"} ELSE {"inactive"}
    /\ restart' = FALSE

\* The rules are removed, then custom-down.
DownFinish ==
    /\ fw = "dying2"
    /\ RunCustomDown
    /\ RestartOnFailure
    /\ UNCHANGED <<step, outcome, runs, trees, plan, crashed, vpn, writers, guard, hookfiles>>

\* down.sh ends before custom-down: handle_cutover_hook_state fails, before or after
\* the marker is written; there is no default interface; or the script is killed, by
\* hand or because it waited for the hook lock longer than systemd lets it.
\* (Bound: the next one to be cut short is one that lost nothing before.)
DownCutShort ==
    /\ fw \in {"dying", "dying2"} /\ ~cutShort
    /\ cutShort' = (hooks > 0 \/ marker = "ready") /\ runDown' = TRUE
    /\ RestartOnFailure
    /\ UNCHANGED <<step, outcome, runs, trees, plan, crashed, vpn, writers, guard, hookfiles, hooks>>

\* The end of custom-up inside --complete-cutover.
HookReturns ==
    /\ hookLock = "hook" /\ hookLock' = "free"
    /\ UNCHANGED <<step, outcome, runs, trees, plan, unit, vpn, writers, guard, marker, env, custom>>

Service == UpPrecleanup \/ UpRules \/ UpTail \/ Crash \/ DownHandle \/ DownFinish \/ DownCutShort \/ HookReturns

-----------------------------------------------------------------------------
(* setup.sh until the commit *)

\* systemctl stop antizapret: the unit runs ExecStopPost and is not restarted.
StopUnit ==
    /\ restart' = FALSE
    /\ fw' = IF fw \in {"pre", "pre2", "tail", "active"} THEN "dying" ELSE fw
    /\ UNCHANGED <<runDown, crashed>>

StartUnit ==
    /\ fw' = IF fw = "inactive" THEN "pre" ELSE fw
    /\ UNCHANGED <<runDown, restart, crashed>>

Goto(from, to) == step = from /\ step' = to /\ UNCHANGED <<outcome, runs>>

\* What setup.sh has not started yet, or has forgotten.
Blank == [fw |-> FALSE, vpn |-> FALSE, maint |-> FALSE, panel |-> "none"]

\* The process ends, and with it the shell variables it kept.
Exit(how) ==
    /\ step' = "idle" /\ outcome' = how /\ snap' = NoTree
    /\ began' = NoTree /\ saved' = Blank /\ asked' = FALSE
    /\ UNCHANGED runs

\* acquire_install_lock: an applied marker of a dead run is cleared.
AcquireLock ==
    /\ step = "idle" /\ runs < MaxRuns /\ Unlocked
    /\ step' = "locked" /\ runs' = runs + 1 /\ outcome' = "none"
    /\ IF marker = "applied" THEN marker' = "none" /\ env' = FALSE ELSE UNCHANGED <<marker, env>>
    /\ began' = live
    /\ UNCHANGED <<live, snap, kept, good, plan, unit, vpn, writers, guard, hookLock, custom>>

\* configure_panel_transaction_scope: the panel's units are stopped only by a run
\* that installs the panel.
PanelStopped(installs) == panel' = IF installs /\ panel # "none" THEN "off" ELSE panel

\* begin_install_transaction: unit states are captured, the writers stopped.
BeginTransaction ==
    /\ Goto("locked", "begun")
    /\ asked' \in BOOLEAN
    /\ saved' = [fw |-> WasActive(fw), vpn |-> vpn, maint |-> maint, panel |-> panel]
    /\ maint' = FALSE /\ PanelStopped(asked')
    /\ UNCHANGED <<trees, unit, vpn, guard, hookfiles, custom>>

\* ... and the managed paths copied.
TakeSnapshot ==
    /\ Goto("begun", "snapped")
    /\ snap' = live
    /\ UNCHANGED <<live, kept, good, began, plan, unit, vpn, writers, guard, hookfiles, custom>>

\* The package phase may start a writer again (a unit's own postinst).
InstallPackages ==
    /\ Goto("snapped", "packaged")
    /\ maint' \in {maint, TRUE}
    /\ UNCHANGED <<trees, plan, unit, vpn, panel, guard, hookfiles, custom>>

\* Mutant: the writers are not stopped a second time.
StopWritersNot ==
    /\ Goto("packaged", "quiet")
    /\ UNCHANGED <<trees, plan, unit, vpn, writers, guard, hookfiles, custom>>

\* stop_and_verify_install_maintenance_units, then the late snapshot of what the
\* packages brought, which belongs to the tree of the snapshot.
StopWriters ==
    /\ Goto("packaged", "quiet")
    /\ maint' = FALSE /\ PanelStopped(asked)
    /\ UNCHANGED <<trees, plan, unit, vpn, guard, hookfiles, custom>>

\* The new tree, its setup file, keys and permissions are prepared in /tmp.
StageTree ==
    /\ Goto("quiet", "staged")
    /\ UNCHANGED <<trees, plan, unit, vpn, writers, guard, hookfiles, custom>>

\* Mutant: the rules are not inserted.
ProtectListenersNot ==
    /\ Goto("staged", "guarded")
    /\ UNCHANGED <<trees, plan, unit, vpn, writers, guard, hookfiles, custom>>

\* add_install_rollback_vpn_guard current: DROP on the ports of active listeners.
ProtectListeners ==
    /\ Goto("staged", "guarded")
    /\ guard' = IF vpn THEN guard \cup {runs} ELSE guard
    /\ UNCHANGED <<trees, plan, unit, vpn, writers, hookfiles, custom>>

StopFirewall ==
    /\ Goto("guarded", "stopping")
    /\ StopUnit
    /\ UNCHANGED <<trees, plan, vpn, writers, guard, hookfiles, custom>>

\* verify_install_unit_stopped, then the tunnels and the resolver.
StopTunnels ==
    /\ Goto("stopping", "stopped")
    /\ Stopped
    /\ vpn' = FALSE
    /\ UNCHANGED <<trees, plan, unit, writers, guard, hookfiles, custom>>

DeferHooks ==
    /\ Goto("stopped", "deferred")
    /\ marker' = "deferred" /\ env' = FALSE
    /\ UNCHANGED <<trees, plan, unit, vpn, writers, guard, hookLock, custom>>

RemoveOld ==
    /\ Goto("deferred", "mixed")
    /\ live' = Mixed
    /\ UNCHANGED <<snap, kept, good, began, plan, unit, vpn, writers, guard, hookfiles, custom>>

PublishNew ==
    /\ Goto("mixed", "published")
    /\ live' = runs
    /\ UNCHANGED <<snap, kept, good, began, plan, unit, vpn, writers, guard, hookfiles, custom>>

\* kresd, then antizapret.service.
StartFirewall ==
    /\ Goto("published", "starting")
    /\ StartUnit
    /\ UNCHANGED <<trees, plan, vpn, writers, guard, hookfiles, custom>>

\* wait_install_unit_active, doall.sh, client.sh; then the tunnels and the panel, if
\* the setup asks for them.  The panel writes its nightly job into the crontab.
StartTunnels ==
    /\ Goto("starting", "tunnels")
    /\ fw = "active"
    /\ vpn' \in BOOLEAN
    /\ panel' = IF asked THEN "on" ELSE panel
    /\ UNCHANGED <<trees, plan, unit, maint, guard, hookfiles, custom>>

\* Mutant: the marker is not moved to "applied" before custom-up.
CompleteCutoverUnmarked ==
    /\ Goto("tunnels", "hooking")
    /\ Unlocked /\ marker = "ready" /\ env
    /\ hookLock' = "hook" /\ hooks' = hooks + 1
    /\ UNCHANGED <<trees, plan, unit, vpn, writers, guard, marker, env, cutShort>>

\* up.sh --complete-cutover up to the start of custom-up.
CompleteCutover ==
    /\ Goto("tunnels", "hooking")
    /\ Unlocked /\ marker = "ready" /\ env
    /\ marker' = "applied" /\ env' = FALSE
    /\ hookLock' = "hook" /\ hooks' = hooks + 1
    /\ UNCHANGED <<trees, plan, unit, vpn, writers, guard, cutShort>>

\* custom-up returned; timers and writers are started again.
StartMaintenance ==
    /\ Goto("hooking", "checking")
    /\ hookLock # "hook"
    /\ maint' = TRUE
    /\ UNCHANGED <<trees, plan, unit, vpn, panel, guard, hookfiles, custom>>

\* Every unit is active, validate_cutover_runtime and validate_panel_runtime pass.
ValidateRuntime ==
    /\ Goto("checking", "valid")
    /\ fw = "active"
    /\ UNCHANGED <<trees, plan, unit, vpn, writers, guard, hookfiles, custom>>

\* remove_install_rollback_vpn_guard: the rules of every run.
RemoveGuard ==
    /\ Goto("valid", "unguarded")
    /\ guard' = {}
    /\ UNCHANGED <<trees, plan, unit, vpn, writers, hookfiles, custom>>

\* Mutant: any marker is accepted.
CommitAny ==
    /\ step = "unguarded" /\ Unlocked
    /\ marker' = "none" /\ env' = FALSE
    /\ Exit("committed") /\ good' = live
    /\ UNCHANGED <<live, kept, unit, vpn, writers, guard, hookLock, custom>>

\* commit_install_transaction refuses any marker but "applied": down.sh has
\* replaced it when the unit went down since custom-up.
Commit ==
    /\ step = "unguarded" /\ Unlocked /\ marker = "applied"
    /\ marker' = "none" /\ env' = FALSE
    /\ Exit("committed") /\ good' = live
    /\ UNCHANGED <<live, kept, unit, vpn, writers, guard, hookLock, custom>>

Forward == BeginTransaction \/ TakeSnapshot \/ InstallPackages \/ StopWriters \/ StageTree \/ ProtectListeners
           \/ StopFirewall \/ StopTunnels \/ DeferHooks \/ RemoveOld \/ PublishNew
           \/ StartFirewall \/ StartTunnels \/ CompleteCutover \/ StartMaintenance
           \/ ValidateRuntime \/ RemoveGuard \/ Commit

-----------------------------------------------------------------------------
(* Failure and rollback *)

\* Steps of a transaction whose snapshot is complete.
Transacting == {"snapped", "packaged", "quiet", "staged", "guarded", "stopping", "stopped", "deferred", "mixed",
                "published", "starting", "tunnels", "hooking", "checking", "valid", "unguarded"}
RollingBack == {"r1", "r2", "r3", "r4", "r5", "r6", "r7", "r8", "r9", "r10"}

PanelBack == panel' = IF asked /\ saved.panel \in {"on", "woken"} THEN "on" ELSE panel

\* finish_install_transaction before the snapshot: only the writers come back,
\* as far as systemd starts them.
Abort ==
    /\ step \in {"locked", "begun"}
    /\ Exit("aborted")
    /\ \/ UNCHANGED <<maint, panel>>
       \/ step = "begun" /\ maint' = saved.maint /\ PanelBack
    /\ UNCHANGED <<live, kept, good, unit, vpn, guard, hookfiles, custom>>

\* A command fails, a check times out, INT or TERM: the EXIT trap rolls back.
\* bash runs the trap when the foreground --complete-cutover has ended.
Fail ==
    /\ step \in Transacting /\ (step = "hooking" => hookLock # "hook")
    /\ step' = "r1"
    /\ UNCHANGED <<outcome, runs, trees, plan, unit, vpn, writers, guard, hookfiles, custom>>

RollbackGuard ==
    /\ Goto("r1", "r2")
    /\ guard' = IF vpn THEN guard \cup {runs} ELSE guard
    /\ UNCHANGED <<trees, plan, unit, vpn, writers, hookfiles, custom>>

\* Mutant: the lock is kept while the units are stopped.
RollbackHooksLocked ==
    /\ Goto("r2", "r3")
    /\ Unlocked /\ hookLock' = "setup"
    /\ marker' = IF marker = "applied" THEN "none" ELSE marker
    /\ UNCHANGED <<trees, plan, unit, vpn, writers, guard, env, custom>>

\* custom-up was started: without the marker the stop runs custom-down.  The wait
\* for the lock has no limit.
RollbackHooks ==
    /\ Goto("r2", "r3")
    /\ Unlocked
    /\ marker' = IF marker = "applied" THEN "none" ELSE marker
    /\ UNCHANGED <<trees, plan, unit, vpn, writers, guard, env, hookLock, custom>>

RollbackStop ==
    /\ Goto("r3", "r4")
    /\ maint' = FALSE /\ PanelStopped(asked)
    /\ StopUnit
    /\ UNCHANGED <<trees, plan, vpn, guard, hookfiles, custom>>

RollbackStopTunnels ==
    /\ Goto("r4", "r5")
    /\ Stopped
    /\ vpn' = FALSE
    /\ UNCHANGED <<trees, plan, unit, writers, guard, hookfiles, custom>>

RestoreTree ==
    /\ Goto("r5", "r6")
    /\ marker' = "none" /\ env' = FALSE
    /\ live' = snap
    /\ panel' = IF asked /\ saved.panel = "none" THEN "none" ELSE panel
    /\ UNCHANGED <<snap, kept, good, began, plan, unit, vpn, maint, guard, hookLock, custom>>

\* Listeners that were active are not started without the firewall they had.
GuardCaptured ==
    /\ Goto("r6", "r7")
    /\ saved.vpn => saved.fw
    /\ guard' = IF saved.vpn THEN guard \cup {runs} ELSE guard
    /\ UNCHANGED <<trees, plan, unit, vpn, writers, hookfiles, custom>>

RestartTunnels ==
    /\ Goto("r7", "r8")
    /\ vpn' = saved.vpn
    /\ UNCHANGED <<trees, plan, unit, writers, guard, hookfiles, custom>>

RestartFirewall ==
    /\ \/ saved.fw /\ Goto("r8", "r9") /\ StartUnit
       \/ ~saved.fw /\ Goto("r8", "r10") /\ UNCHANGED unit
    /\ UNCHANGED <<trees, plan, vpn, writers, guard, hookfiles, custom>>

\* remove_current_install_rollback_vpn_guard: the rules of this run only.
RollbackUnguard ==
    /\ Goto("r9", "r10")
    /\ fw = "active"
    /\ guard' = guard \ {runs}
    /\ UNCHANGED <<trees, plan, unit, vpn, writers, hookfiles, custom>>

\* The remaining units, then the snapshot is deleted.
RollbackDone ==
    /\ step = "r10" /\ Exit("rolledback")
    /\ maint' = saved.maint /\ PanelBack
    /\ UNCHANGED <<live, kept, good, unit, vpn, guard, hookfiles, custom>>

\* Mutant: the recovery data is deleted as after a complete rollback.
RollbackFailsClean ==
    /\ step \in RollingBack
    /\ Exit("incomplete")
    /\ live' = IF step = "r5" THEN Mixed ELSE live
    /\ UNCHANGED <<kept, good, unit, vpn, writers, guard, hookfiles, custom>>

\* A step of the rollback fails; while the paths are replaced it leaves a mixture.
\* The recovery data is kept.
RollbackFails ==
    /\ step \in RollingBack
    /\ Exit("incomplete")
    /\ live' = IF step = "r5" THEN Mixed ELSE live
    /\ kept' = kept \cup {snap}
    /\ UNCHANGED <<good, unit, vpn, writers, guard, hookfiles, custom>>

\* SIGKILL, or a signal during the rollback, which has no trap any more.  A
\* running --complete-cutover survives it.
Kill ==
    /\ step # "idle" /\ Exit("killed")
    /\ live' \in IF step = "r5" THEN {live, Mixed} ELSE {live}
    /\ kept' = IF snap = NoTree THEN kept ELSE kept \cup {snap}
    /\ UNCHANGED <<good, unit, vpn, writers, guard, hookfiles, custom>>

\* What setup.sh does about a condition it tests and does not find: the unit is not
\* active by the deadline of wait_install_unit_active, --complete-cutover and the
\* commit meet another marker, the listeners had no firewall.
Refuse ==
    \/ step \in {"starting", "checking"} /\ fw # "active" /\ Fail
    \/ step = "tunnels" /\ Unlocked /\ ~(marker = "ready" /\ env) /\ Fail
    \/ step = "unguarded" /\ Unlocked /\ marker # "applied" /\ Fail
    \/ step = "r6" /\ saved.vpn /\ ~saved.fw /\ RollbackFails
    \/ step = "r9" /\ fw # "active" /\ RollbackFails

Undo == RollbackGuard \/ RollbackHooks \/ RollbackStop
        \/ RollbackStopTunnels \/ RestoreTree \/ GuardCaptured \/ RestartTunnels
        \/ RestartFirewall \/ RollbackUnguard \/ RollbackDone

Rollback == Abort \/ Fail \/ Undo \/ RollbackFails

-----------------------------------------------------------------------------
\* A host with nothing on it, or with an installation, with or without the panel,
\* whose units are as its administrator left them.
Init ==
    /\ step = "idle" /\ outcome = "none" /\ runs = 0
    /\ live = 0 /\ snap = NoTree /\ kept = {} /\ good = 0 /\ began = NoTree
    /\ saved = Blank /\ asked = FALSE
    /\ \/ fw = "inactive" /\ vpn = FALSE /\ maint = FALSE /\ panel = "none"
       \/ fw \in {"active", "inactive"} /\ vpn \in BOOLEAN /\ maint = TRUE /\ panel \in {"none", "on"}
    /\ runDown = TRUE /\ restart = FALSE
    /\ crashed = (fw = "inactive" /\ vpn)
    /\ guard = {}
    /\ marker = "none" /\ env = FALSE /\ Unlocked
    /\ hooks = (IF fw = "active" THEN 1 ELSE 0) /\ cutShort = FALSE

\* nightly_idle_restart.py, run by cron, restarts the panel, whether it runs or not.
NightlyRestart ==
    /\ panel = "off" /\ panel' = "woken"
    /\ UNCHANGED <<step, outcome, runs, trees, plan, unit, vpn, maint, guard, hookfiles, custom>>

Next == Service \/ NightlyRestart \/ AcquireLock \/ Forward \/ Rollback \/ Kill

Spec == Init /\ [][Next]_vars

\* setup.sh goes on wherever what it waits for has come, and gives up only where the
\* code tests for it (Refuse); the scripts of the unit go on, and a custom hook ends.
\* No failure is counted on, nor a timeout of systemd's that kills down.sh.
Progress == /\ WF_vars(Forward \/ Undo \/ Refuse)
            /\ WF_vars(UpPrecleanup \/ UpRules \/ UpTail \/ DownHandle \/ DownFinish)
            /\ WF_vars(HookReturns)

FairSpec == Spec /\ Progress

-----------------------------------------------------------------------------
\* Every variable of setup.sh, of the unit and of the hook files has its type.
TypeOK ==
    /\ step \in {"idle", "locked", "begun"} \cup Transacting \cup RollingBack
    /\ outcome \in {"none", "committed", "aborted", "rolledback", "incomplete", "killed"}
    /\ runs \in 0..MaxRuns
    /\ live \in Mixed..MaxRuns /\ snap \in NoTree..MaxRuns /\ kept \subseteq Mixed..MaxRuns
    /\ good \in Mixed..MaxRuns /\ began \in NoTree..MaxRuns
    /\ saved \in [fw: BOOLEAN, vpn: BOOLEAN, maint: BOOLEAN, panel: PanelStates] /\ asked \in BOOLEAN
    /\ fw \in {"inactive", "pre", "pre2", "tail", "active", "dying", "dying2"}
    /\ runDown \in BOOLEAN /\ restart \in BOOLEAN /\ crashed \in BOOLEAN
    /\ vpn \in BOOLEAN /\ maint \in BOOLEAN /\ guard \subseteq 1..MaxRuns
    /\ marker \in {"none", "deferred", "ready", "applied", "stopped"}
    /\ panel \in PanelStates
    /\ env \in BOOLEAN /\ hookLock \in {"free", "hook"}
    /\ hooks \in Nat /\ cutShort \in BOOLEAN

\* Only a down.sh that itself ends early can lose a custom-down: as long as each one
\* gets to its end, custom-up is undone when the unit has stopped, whoever stopped it
\* and wherever the cutover was (setup.sh: "State и lock не дают потерять парный
\* custom-down при падении основного unit"), and custom-up never runs on top of an
\* earlier one.  After one that ended early this holds again from the next down.sh
\* that leaves no custom-up behind.
HookPaired == cutShort \/ (hooks <= 1 /\ (Stopped /\ hookLock # "hook" => hooks = 0))

\* No order of steps of setup.sh, no failure, rollback or kill leaves VPN listeners
\* open on a host whose firewall rules setup.sh has taken down.
NoUnguardedListener == vpn /\ ~Rules /\ ~crashed => guard # {}

\* No timer, updater or BGP writer of the core runs while the managed paths are
\* replaced, forwards or by the rollback, whatever the package phase started; and a
\* run that installs the panel meets no panel it has not stopped: only cron can have
\* started it again.  (With INSTALL_PANEL=n the panel goes on running.)
WritersQuiet ==
    step \in {"deferred", "mixed", "published", "r5", "r6"} => ~maint /\ (asked => panel # "on")

\* The last committed tree is never lost: it is live, or in a rollback directory,
\* however many runs failed or were killed since.
TreeRecoverable == good \in kept \cup {live, snap}

\* What a run reports is true.  A run that reports a complete rollback has put back
\* the tree it found, the tunnels, the writers and, if it was to install the panel, the
\* panel and its crontab; it has left no marker to steer a later down.sh, and has taken
\* its own guard off when the firewall is running again.
RollbackComplete ==
    outcome' = "rolledback" /\ outcome # "rolledback" =>
        /\ live' = began /\ vpn' = saved.vpn /\ maint' = saved.maint
        /\ asked => (saved.panel \in {"on", "woken"} <=> panel' = "on") /\ (saved.panel = "none" <=> panel' = "none")
        /\ marker' = "none"
        /\ saved.fw => runs \notin guard'

\* A run that commits has published its whole tree, has run custom-up exactly once with
\* no down.sh since (unless one ended early), and has removed the guards of all runs.
CommitHealthy ==
    outcome' = "committed" /\ outcome # "committed" =>
        live = runs /\ (hooks = 1 \/ cutShort) /\ guard = {}

\* Both, of every step.
OutcomeHonest == [][RollbackComplete /\ CommitHealthy]_vars

\* setup.sh always ends, though it and down.sh wait for each other: the rollback for
\* the hook lock and then for the unit to stop, the unit's down.sh for the hook lock,
\* and neither wait has a limit of the code's own.
InstallEnds == InstallActive ~> ~InstallActive

=============================================================================
