------------------------ MODULE InstallCutoverProofs ------------------------
(***************************************************************************)
(* The safety properties of InstallCutover, for any number of installation *)
(* runs.  The inductive invariant is a conjunction of five parts, one for  *)
(* each kind of state: trees, hooks, guard, writers, and what the two ways *)
(* of ending rely on.                                                      *)
(***************************************************************************)
EXTENDS InstallCutover, TLAPS

Copied == Transacting \cup RollingBack
Restored == {"r6", "r7", "r8", "r9", "r10"}
Published == {"published", "starting", "tunnels", "hooking", "checking", "valid", "unguarded"}

\* While a run holds a snapshot the last committed tree may not be live any more: it
\* is the snapshot, or an earlier run left it.  Otherwise it is live, or was left.
TreeInv ==
    /\ good \in Mixed..MaxRuns /\ live \in Mixed..MaxRuns /\ snap \in NoTree..MaxRuns
    /\ began \in NoTree..MaxRuns /\ kept \subseteq Mixed..MaxRuns /\ runs \in 0..MaxRuns
    /\ step = "idle" \/ runs > 0
    /\ step \in {"locked", "begun"} => live = began
    /\ step \in Copied => snap = began /\ snap \in Mixed..MaxRuns /\ good \in kept \cup {snap}
    /\ step \notin Copied => snap = NoTree /\ good \in kept \cup {live}
    /\ step \in Restored => live = snap
    /\ step \in Published => live = runs

\* The steps between the stop of the unit and its next start.
DownSteps == {"stopped", "deferred", "mixed", "published", "r5", "r6", "r7", "r8"}

\* Whatever is cut short: the hook runs under its own marker and lock, and the unit,
\* once its down.sh has dealt with the marker, meets neither a deferred custom-up that
\* is ready nor one that was applied.
LockInv ==
    /\ hooks \in Nat
    /\ hookLock = "hook" => marker = "applied" /\ hooks > 0 /\ step \in {"hooking", "idle"}
    /\ fw \in {"pre2", "tail", "dying2"} => marker \notin {"ready", "applied"}
    /\ step \in DownSteps => fw = "inactive"

\* As long as no down.sh was cut short, custom-up is in effect only while the unit is
\* active or going down, and not while it is deferred; a down.sh that skips
\* custom-down has nothing to undo.
PairInv ==
    ~cutShort =>
        /\ hooks \in {0, 1}
        /\ fw \in {"inactive", "pre", "pre2", "tail"} => hooks = 0
        /\ fw = "dying2" /\ ~runDown => hooks = 0
        /\ marker = "ready" => fw \in {"active", "dying"}
        /\ marker \in {"deferred", "ready", "stopped"} /\ fw \in {"active", "dying", "tail"} => hooks = 0
        /\ hookLock = "hook" => fw \in {"active", "dying"}

HookInv == LockInv /\ PairInv

\* A unit that is not active, and did not go down by itself, has its listeners
\* guarded; the guards of all runs go only when it is active or has crashed.
GuardInv ==
    /\ vpn /\ fw # "active" /\ ~crashed => guard # {}
    /\ step \in {"guarded", "r2", "r3"} /\ vpn => guard # {}
    /\ step = "r7" /\ saved.vpn => guard # {}
    /\ step \in {"tunnels", "hooking", "checking", "valid", "unguarded"} => fw = "active" \/ crashed

\* The writers are down from their second stop to the start of the tunnels, and from
\* the stop of the rollback to its end; the panel too, in a run that installs it, but
\* for what cron has started.
WriterInv ==
    step \in {"begun", "quiet", "staged", "guarded", "stopping", "stopped", "deferred", "mixed",
              "published", "starting", "r4", "r5", "r6", "r7", "r8", "r9", "r10"} =>
        maint = FALSE /\ (asked => panel # "on")

\* What a rollback has put back stays so until it ends; an "applied" marker means
\* that custom-up has run and no down.sh since.
EndInv ==
    /\ step \in Restored => marker = "none"
    /\ step \in {"r8", "r9", "r10"} => vpn = saved.vpn
    /\ step = "r10" /\ saved.fw => runs \notin guard
    /\ step \in {"hooking", "checking", "valid", "unguarded"} /\ marker = "applied" =>
          cutShort \/ (hooks = 1 /\ fw \in {"active", "dying"})
    /\ step = "unguarded" => guard = {}
    /\ step \in Copied \cup {"begun"} /\ asked /\ saved.panel # "none" => panel # "none"
    /\ step \in Restored /\ asked /\ saved.panel = "none" => panel = "none"

IInv == TreeInv /\ HookInv /\ GuardInv /\ WriterInv /\ EndInv

\* Every step keeps TreeInv.
LEMMA TreeStep ==
  ASSUME TreeInv, [Next]_vars
  PROVE  TreeInv'
<1> USE MaxRunsAssumption DEF TreeInv, Copied, Restored, Published, Transacting, RollingBack, Mixed, NoTree, vars, unit, hookfiles, trees, plan, writers, custom
<1>1. CASE UpPrecleanup
  BY <1>1 DEF UpPrecleanup, HandleHookState, InstallActive, Unlocked
<1>2. CASE UpRules
  BY <1>2 DEF UpRules, RunCustomDown
<1>3. CASE UpTail
  BY <1>3 DEF UpTail
<1>4. CASE Crash
  BY <1>4 DEF Crash
<1>5. CASE DownHandle
  BY <1>5 DEF DownHandle, HandleHookState, InstallActive, Unlocked
<1>6. CASE DownFinish
  BY <1>6 DEF DownFinish, RunCustomDown, RestartOnFailure
<1>7. CASE DownCutShort
  BY <1>7 DEF DownCutShort, RestartOnFailure
<1>8. CASE HookReturns
  BY <1>8 DEF HookReturns
<1>9. CASE NightlyRestart
  BY <1>9 DEF NightlyRestart
<1>10. CASE AcquireLock
  BY <1>10 DEF AcquireLock, Unlocked
<1>11. CASE BeginTransaction
  BY <1>11 DEF BeginTransaction, Goto, WasActive, PanelStopped
<1>12. CASE TakeSnapshot
  BY <1>12 DEF TakeSnapshot, Goto
<1>13. CASE InstallPackages
  BY <1>13 DEF InstallPackages, Goto
<1>14. CASE StopWriters
  BY <1>14 DEF StopWriters, Goto, PanelStopped
<1>15. CASE StageTree
  BY <1>15 DEF StageTree, Goto
<1>16. CASE ProtectListeners
  BY <1>16 DEF ProtectListeners, Goto
<1>17. CASE StopFirewall
  BY <1>17 DEF StopFirewall, Goto, StopUnit
<1>18. CASE StopTunnels
  BY <1>18 DEF StopTunnels, Goto, Stopped
<1>19. CASE DeferHooks
  BY <1>19 DEF DeferHooks, Goto
<1>20. CASE RemoveOld
  BY <1>20 DEF RemoveOld, Goto
<1>21. CASE PublishNew
  BY <1>21 DEF PublishNew, Goto
<1>22. CASE StartFirewall
  BY <1>22 DEF StartFirewall, Goto, StartUnit
<1>23. CASE StartTunnels
  BY <1>23 DEF StartTunnels, Goto
<1>24. CASE CompleteCutover
  BY <1>24 DEF CompleteCutover, Goto, Unlocked
<1>25. CASE StartMaintenance
  BY <1>25 DEF StartMaintenance, Goto
<1>26. CASE ValidateRuntime
  BY <1>26 DEF ValidateRuntime, Goto
<1>27. CASE RemoveGuard
  BY <1>27 DEF RemoveGuard, Goto
<1>28. CASE Commit
  BY <1>28 DEF Commit, Exit, Unlocked
<1>29. CASE Abort
  BY <1>29 DEF Abort, Exit, PanelBack
<1>30. CASE Fail
  BY <1>30 DEF Fail
<1>31. CASE RollbackGuard
  BY <1>31 DEF RollbackGuard, Goto
<1>32. CASE RollbackHooks
  BY <1>32 DEF RollbackHooks, Goto, Unlocked
<1>33. CASE RollbackStop
  BY <1>33 DEF RollbackStop, Goto, StopUnit, PanelStopped
<1>34. CASE RollbackStopTunnels
  BY <1>34 DEF RollbackStopTunnels, Goto, Stopped
<1>35. CASE RestoreTree
  BY <1>35 DEF RestoreTree, Goto
<1>36. CASE GuardCaptured
  BY <1>36 DEF GuardCaptured, Goto
<1>37. CASE RestartTunnels
  BY <1>37 DEF RestartTunnels, Goto
<1>38. CASE RestartFirewall
  BY <1>38 DEF RestartFirewall, Goto, StartUnit
<1>39. CASE RollbackUnguard
  BY <1>39 DEF RollbackUnguard, Goto
<1>40. CASE RollbackDone
  BY <1>40 DEF RollbackDone, Exit, PanelBack
<1>41. CASE RollbackFails
  BY <1>41 DEF RollbackFails, Exit
<1>42. CASE Kill
  BY <1>42 DEF Kill, Exit
<1>43. CASE UNCHANGED vars
  BY <1>43
<1> QED
  BY <1>1, <1>2, <1>3, <1>4, <1>5, <1>6, <1>7, <1>8, <1>9, <1>10, <1>11, <1>12, <1>13, <1>14, <1>15, <1>16, <1>17, <1>18, <1>19, <1>20, <1>21, <1>22, <1>23, <1>24, <1>25, <1>26, <1>27, <1>28, <1>29, <1>30, <1>31, <1>32, <1>33, <1>34, <1>35, <1>36, <1>37, <1>38, <1>39, <1>40, <1>41, <1>42, <1>43 DEF Next, Service, Forward, Undo, Rollback

\* Every step keeps LockInv.
LEMMA LockStep ==
  ASSUME LockInv, [Next]_vars
  PROVE  LockInv'
<1> USE DEF LockInv, DownSteps, Transacting, RollingBack, vars, unit, hookfiles, trees, plan, writers, custom
<1>1. CASE UpPrecleanup
  BY <1>1 DEF UpPrecleanup, HandleHookState, InstallActive, Unlocked
<1>2. CASE UpRules
  BY <1>2 DEF UpRules, RunCustomDown
<1>3. CASE UpTail
  BY <1>3 DEF UpTail
<1>4. CASE Crash
  BY <1>4 DEF Crash
<1>5. CASE DownHandle
  BY <1>5 DEF DownHandle, HandleHookState, InstallActive, Unlocked
<1>6. CASE DownFinish
  BY <1>6 DEF DownFinish, RunCustomDown, RestartOnFailure
<1>7. CASE DownCutShort
  BY <1>7 DEF DownCutShort, RestartOnFailure
<1>8. CASE HookReturns
  BY <1>8 DEF HookReturns
<1>9. CASE NightlyRestart
  BY <1>9 DEF NightlyRestart
<1>10. CASE AcquireLock
  BY <1>10 DEF AcquireLock, Unlocked
<1>11. CASE BeginTransaction
  BY <1>11 DEF BeginTransaction, Goto, WasActive, PanelStopped
<1>12. CASE TakeSnapshot
  BY <1>12 DEF TakeSnapshot, Goto
<1>13. CASE InstallPackages
  BY <1>13 DEF InstallPackages, Goto
<1>14. CASE StopWriters
  BY <1>14 DEF StopWriters, Goto, PanelStopped
<1>15. CASE StageTree
  BY <1>15 DEF StageTree, Goto
<1>16. CASE ProtectListeners
  BY <1>16 DEF ProtectListeners, Goto
<1>17. CASE StopFirewall
  BY <1>17 DEF StopFirewall, Goto, StopUnit
<1>18. CASE StopTunnels
  BY <1>18 DEF StopTunnels, Goto, Stopped
<1>19. CASE DeferHooks
  BY <1>19 DEF DeferHooks, Goto
<1>20. CASE RemoveOld
  BY <1>20 DEF RemoveOld, Goto
<1>21. CASE PublishNew
  BY <1>21 DEF PublishNew, Goto
<1>22. CASE StartFirewall
  BY <1>22 DEF StartFirewall, Goto, StartUnit
<1>23. CASE StartTunnels
  BY <1>23 DEF StartTunnels, Goto
<1>24. CASE CompleteCutover
  BY <1>24 DEF CompleteCutover, Goto, Unlocked
<1>25. CASE StartMaintenance
  BY <1>25 DEF StartMaintenance, Goto
<1>26. CASE ValidateRuntime
  BY <1>26 DEF ValidateRuntime, Goto
<1>27. CASE RemoveGuard
  BY <1>27 DEF RemoveGuard, Goto
<1>28. CASE Commit
  BY <1>28 DEF Commit, Exit, Unlocked
<1>29. CASE Abort
  BY <1>29 DEF Abort, Exit, PanelBack
<1>30. CASE Fail
  BY <1>30 DEF Fail
<1>31. CASE RollbackGuard
  BY <1>31 DEF RollbackGuard, Goto
<1>32. CASE RollbackHooks
  BY <1>32 DEF RollbackHooks, Goto, Unlocked
<1>33. CASE RollbackStop
  BY <1>33 DEF RollbackStop, Goto, StopUnit, PanelStopped
<1>34. CASE RollbackStopTunnels
  BY <1>34 DEF RollbackStopTunnels, Goto, Stopped
<1>35. CASE RestoreTree
  BY <1>35 DEF RestoreTree, Goto
<1>36. CASE GuardCaptured
  BY <1>36 DEF GuardCaptured, Goto
<1>37. CASE RestartTunnels
  BY <1>37 DEF RestartTunnels, Goto
<1>38. CASE RestartFirewall
  BY <1>38 DEF RestartFirewall, Goto, StartUnit
<1>39. CASE RollbackUnguard
  BY <1>39 DEF RollbackUnguard, Goto
<1>40. CASE RollbackDone
  BY <1>40 DEF RollbackDone, Exit, PanelBack
<1>41. CASE RollbackFails
  BY <1>41 DEF RollbackFails, Exit
<1>42. CASE Kill
  BY <1>42 DEF Kill, Exit
<1>43. CASE UNCHANGED vars
  BY <1>43
<1> QED
  BY <1>1, <1>2, <1>3, <1>4, <1>5, <1>6, <1>7, <1>8, <1>9, <1>10, <1>11, <1>12, <1>13, <1>14, <1>15, <1>16, <1>17, <1>18, <1>19, <1>20, <1>21, <1>22, <1>23, <1>24, <1>25, <1>26, <1>27, <1>28, <1>29, <1>30, <1>31, <1>32, <1>33, <1>34, <1>35, <1>36, <1>37, <1>38, <1>39, <1>40, <1>41, <1>42, <1>43 DEF Next, Service, Forward, Undo, Rollback

\* Every step keeps PairInv.
LEMMA PairStep ==
  ASSUME LockInv, PairInv, [Next]_vars
  PROVE  PairInv'
<1> USE DEF LockInv, PairInv, DownSteps, Transacting, RollingBack, vars, unit, hookfiles, trees, plan, writers, custom
<1>1. CASE UpPrecleanup
  BY <1>1 DEF UpPrecleanup, HandleHookState, InstallActive, Unlocked
<1>2. CASE UpRules
  <2>1. (cutShort' <=> cutShort /\ hooks' > 0) /\ hooks' = (IF runDown THEN 0 ELSE hooks)
    BY <1>2 DEF UpRules, RunCustomDown
  <2>2. CASE cutShort'
    BY <2>2
  <2>3. CASE ~cutShort'
    <3>1. hooks' = 0
      BY <2>1, <2>3, <1>2 DEF UpRules, DownFinish
    <3> QED
      BY <3>1, <1>2 DEF UpRules
  <2> QED
    BY <2>2, <2>3
<1>3. CASE UpTail
  BY <1>3 DEF UpTail
<1>4. CASE Crash
  BY <1>4 DEF Crash
<1>5. CASE DownHandle
  BY <1>5 DEF DownHandle, HandleHookState, InstallActive, Unlocked
<1>6. CASE DownFinish
  <2>1. (cutShort' <=> cutShort /\ hooks' > 0) /\ hooks' = (IF runDown THEN 0 ELSE hooks)
    BY <1>6 DEF DownFinish, RunCustomDown
  <2>2. CASE cutShort'
    BY <2>2
  <2>3. CASE ~cutShort'
    <3>1. hooks' = 0
      BY <2>1, <2>3, <1>6 DEF UpRules, DownFinish
    <3> QED
      BY <3>1, <1>6 DEF DownFinish, RestartOnFailure
  <2> QED
    BY <2>2, <2>3
<1>7. CASE DownCutShort
  <2>1. cutShort' <=> hooks > 0 \/ marker = "ready"
    BY <1>7 DEF DownCutShort
  <2>2. hooks' = hooks /\ marker' = marker /\ hookLock' = hookLock /\ fw' \in {"pre", "inactive"}
    BY <1>7 DEF DownCutShort, RestartOnFailure
  <2>3. ~cutShort' => hooks = 0 /\ marker # "ready" /\ hookLock # "hook"
    BY <2>1
  <2> QED
    BY <2>2, <2>3
<1>8. CASE HookReturns
  BY <1>8 DEF HookReturns
<1>9. CASE NightlyRestart
  BY <1>9 DEF NightlyRestart
<1>10. CASE AcquireLock
  BY <1>10 DEF AcquireLock, Unlocked
<1>11. CASE BeginTransaction
  BY <1>11 DEF BeginTransaction, Goto, WasActive, PanelStopped
<1>12. CASE TakeSnapshot
  BY <1>12 DEF TakeSnapshot, Goto
<1>13. CASE InstallPackages
  BY <1>13 DEF InstallPackages, Goto
<1>14. CASE StopWriters
  BY <1>14 DEF StopWriters, Goto, PanelStopped
<1>15. CASE StageTree
  BY <1>15 DEF StageTree, Goto
<1>16. CASE ProtectListeners
  BY <1>16 DEF ProtectListeners, Goto
<1>17. CASE StopFirewall
  BY <1>17 DEF StopFirewall, Goto, StopUnit
<1>18. CASE StopTunnels
  BY <1>18 DEF StopTunnels, Goto, Stopped
<1>19. CASE DeferHooks
  BY <1>19 DEF DeferHooks, Goto
<1>20. CASE RemoveOld
  BY <1>20 DEF RemoveOld, Goto
<1>21. CASE PublishNew
  BY <1>21 DEF PublishNew, Goto
<1>22. CASE StartFirewall
  BY <1>22 DEF StartFirewall, Goto, StartUnit
<1>23. CASE StartTunnels
  BY <1>23 DEF StartTunnels, Goto
<1>24. CASE CompleteCutover
  BY <1>24 DEF CompleteCutover, Goto, Unlocked
<1>25. CASE StartMaintenance
  BY <1>25 DEF StartMaintenance, Goto
<1>26. CASE ValidateRuntime
  BY <1>26 DEF ValidateRuntime, Goto
<1>27. CASE RemoveGuard
  BY <1>27 DEF RemoveGuard, Goto
<1>28. CASE Commit
  BY <1>28 DEF Commit, Exit, Unlocked
<1>29. CASE Abort
  BY <1>29 DEF Abort, Exit, PanelBack
<1>30. CASE Fail
  BY <1>30 DEF Fail
<1>31. CASE RollbackGuard
  BY <1>31 DEF RollbackGuard, Goto
<1>32. CASE RollbackHooks
  BY <1>32 DEF RollbackHooks, Goto, Unlocked
<1>33. CASE RollbackStop
  BY <1>33 DEF RollbackStop, Goto, StopUnit, PanelStopped
<1>34. CASE RollbackStopTunnels
  BY <1>34 DEF RollbackStopTunnels, Goto, Stopped
<1>35. CASE RestoreTree
  BY <1>35 DEF RestoreTree, Goto
<1>36. CASE GuardCaptured
  BY <1>36 DEF GuardCaptured, Goto
<1>37. CASE RestartTunnels
  BY <1>37 DEF RestartTunnels, Goto
<1>38. CASE RestartFirewall
  BY <1>38 DEF RestartFirewall, Goto, StartUnit
<1>39. CASE RollbackUnguard
  BY <1>39 DEF RollbackUnguard, Goto
<1>40. CASE RollbackDone
  BY <1>40 DEF RollbackDone, Exit, PanelBack
<1>41. CASE RollbackFails
  BY <1>41 DEF RollbackFails, Exit
<1>42. CASE Kill
  BY <1>42 DEF Kill, Exit
<1>43. CASE UNCHANGED vars
  BY <1>43
<1> QED
  BY <1>1, <1>2, <1>3, <1>4, <1>5, <1>6, <1>7, <1>8, <1>9, <1>10, <1>11, <1>12, <1>13, <1>14, <1>15, <1>16, <1>17, <1>18, <1>19, <1>20, <1>21, <1>22, <1>23, <1>24, <1>25, <1>26, <1>27, <1>28, <1>29, <1>30, <1>31, <1>32, <1>33, <1>34, <1>35, <1>36, <1>37, <1>38, <1>39, <1>40, <1>41, <1>42, <1>43 DEF Next, Service, Forward, Undo, Rollback

\* Every step keeps GuardInv.
LEMMA GuardStep ==
  ASSUME GuardInv, [Next]_vars
  PROVE  GuardInv'
<1> USE DEF GuardInv, Transacting, RollingBack, vars, unit, hookfiles, trees, plan, writers, custom
<1>1. CASE UpPrecleanup
  BY <1>1 DEF UpPrecleanup, HandleHookState, InstallActive, Unlocked
<1>2. CASE UpRules
  BY <1>2 DEF UpRules, RunCustomDown
<1>3. CASE UpTail
  BY <1>3 DEF UpTail
<1>4. CASE Crash
  BY <1>4 DEF Crash
<1>5. CASE DownHandle
  BY <1>5 DEF DownHandle, HandleHookState, InstallActive, Unlocked
<1>6. CASE DownFinish
  BY <1>6 DEF DownFinish, RunCustomDown, RestartOnFailure
<1>7. CASE DownCutShort
  BY <1>7 DEF DownCutShort, RestartOnFailure
<1>8. CASE HookReturns
  BY <1>8 DEF HookReturns
<1>9. CASE NightlyRestart
  BY <1>9 DEF NightlyRestart
<1>10. CASE AcquireLock
  BY <1>10 DEF AcquireLock, Unlocked
<1>11. CASE BeginTransaction
  BY <1>11 DEF BeginTransaction, Goto, WasActive, PanelStopped
<1>12. CASE TakeSnapshot
  BY <1>12 DEF TakeSnapshot, Goto
<1>13. CASE InstallPackages
  BY <1>13 DEF InstallPackages, Goto
<1>14. CASE StopWriters
  BY <1>14 DEF StopWriters, Goto, PanelStopped
<1>15. CASE StageTree
  BY <1>15 DEF StageTree, Goto
<1>16. CASE ProtectListeners
  BY <1>16 DEF ProtectListeners, Goto
<1>17. CASE StopFirewall
  BY <1>17 DEF StopFirewall, Goto, StopUnit
<1>18. CASE StopTunnels
  BY <1>18 DEF StopTunnels, Goto, Stopped
<1>19. CASE DeferHooks
  BY <1>19 DEF DeferHooks, Goto
<1>20. CASE RemoveOld
  BY <1>20 DEF RemoveOld, Goto
<1>21. CASE PublishNew
  BY <1>21 DEF PublishNew, Goto
<1>22. CASE StartFirewall
  BY <1>22 DEF StartFirewall, Goto, StartUnit
<1>23. CASE StartTunnels
  BY <1>23 DEF StartTunnels, Goto
<1>24. CASE CompleteCutover
  BY <1>24 DEF CompleteCutover, Goto, Unlocked
<1>25. CASE StartMaintenance
  BY <1>25 DEF StartMaintenance, Goto
<1>26. CASE ValidateRuntime
  BY <1>26 DEF ValidateRuntime, Goto
<1>27. CASE RemoveGuard
  BY <1>27 DEF RemoveGuard, Goto
<1>28. CASE Commit
  BY <1>28 DEF Commit, Exit, Unlocked
<1>29. CASE Abort
  BY <1>29 DEF Abort, Exit, PanelBack
<1>30. CASE Fail
  BY <1>30 DEF Fail
<1>31. CASE RollbackGuard
  BY <1>31 DEF RollbackGuard, Goto
<1>32. CASE RollbackHooks
  BY <1>32 DEF RollbackHooks, Goto, Unlocked
<1>33. CASE RollbackStop
  BY <1>33 DEF RollbackStop, Goto, StopUnit, PanelStopped
<1>34. CASE RollbackStopTunnels
  BY <1>34 DEF RollbackStopTunnels, Goto, Stopped
<1>35. CASE RestoreTree
  BY <1>35 DEF RestoreTree, Goto
<1>36. CASE GuardCaptured
  BY <1>36 DEF GuardCaptured, Goto
<1>37. CASE RestartTunnels
  BY <1>37 DEF RestartTunnels, Goto
<1>38. CASE RestartFirewall
  BY <1>38 DEF RestartFirewall, Goto, StartUnit
<1>39. CASE RollbackUnguard
  BY <1>39 DEF RollbackUnguard, Goto
<1>40. CASE RollbackDone
  BY <1>40 DEF RollbackDone, Exit, PanelBack
<1>41. CASE RollbackFails
  BY <1>41 DEF RollbackFails, Exit
<1>42. CASE Kill
  BY <1>42 DEF Kill, Exit
<1>43. CASE UNCHANGED vars
  BY <1>43
<1> QED
  BY <1>1, <1>2, <1>3, <1>4, <1>5, <1>6, <1>7, <1>8, <1>9, <1>10, <1>11, <1>12, <1>13, <1>14, <1>15, <1>16, <1>17, <1>18, <1>19, <1>20, <1>21, <1>22, <1>23, <1>24, <1>25, <1>26, <1>27, <1>28, <1>29, <1>30, <1>31, <1>32, <1>33, <1>34, <1>35, <1>36, <1>37, <1>38, <1>39, <1>40, <1>41, <1>42, <1>43 DEF Next, Service, Forward, Undo, Rollback

\* Every step keeps WriterInv.
LEMMA WriterStep ==
  ASSUME WriterInv, [Next]_vars
  PROVE  WriterInv'
<1> USE DEF WriterInv, Transacting, RollingBack, vars, unit, hookfiles, trees, plan, writers, custom
<1>1. CASE UpPrecleanup
  BY <1>1 DEF UpPrecleanup, HandleHookState, InstallActive, Unlocked
<1>2. CASE UpRules
  BY <1>2 DEF UpRules, RunCustomDown
<1>3. CASE UpTail
  BY <1>3 DEF UpTail
<1>4. CASE Crash
  BY <1>4 DEF Crash
<1>5. CASE DownHandle
  BY <1>5 DEF DownHandle, HandleHookState, InstallActive, Unlocked
<1>6. CASE DownFinish
  BY <1>6 DEF DownFinish, RunCustomDown, RestartOnFailure
<1>7. CASE DownCutShort
  BY <1>7 DEF DownCutShort, RestartOnFailure
<1>8. CASE HookReturns
  BY <1>8 DEF HookReturns
<1>9. CASE NightlyRestart
  BY <1>9 DEF NightlyRestart
<1>10. CASE AcquireLock
  BY <1>10 DEF AcquireLock, Unlocked
<1>11. CASE BeginTransaction
  BY <1>11 DEF BeginTransaction, Goto, WasActive, PanelStopped
<1>12. CASE TakeSnapshot
  BY <1>12 DEF TakeSnapshot, Goto
<1>13. CASE InstallPackages
  BY <1>13 DEF InstallPackages, Goto
<1>14. CASE StopWriters
  BY <1>14 DEF StopWriters, Goto, PanelStopped
<1>15. CASE StageTree
  BY <1>15 DEF StageTree, Goto
<1>16. CASE ProtectListeners
  BY <1>16 DEF ProtectListeners, Goto
<1>17. CASE StopFirewall
  BY <1>17 DEF StopFirewall, Goto, StopUnit
<1>18. CASE StopTunnels
  BY <1>18 DEF StopTunnels, Goto, Stopped
<1>19. CASE DeferHooks
  BY <1>19 DEF DeferHooks, Goto
<1>20. CASE RemoveOld
  BY <1>20 DEF RemoveOld, Goto
<1>21. CASE PublishNew
  BY <1>21 DEF PublishNew, Goto
<1>22. CASE StartFirewall
  BY <1>22 DEF StartFirewall, Goto, StartUnit
<1>23. CASE StartTunnels
  BY <1>23 DEF StartTunnels, Goto
<1>24. CASE CompleteCutover
  BY <1>24 DEF CompleteCutover, Goto, Unlocked
<1>25. CASE StartMaintenance
  BY <1>25 DEF StartMaintenance, Goto
<1>26. CASE ValidateRuntime
  BY <1>26 DEF ValidateRuntime, Goto
<1>27. CASE RemoveGuard
  BY <1>27 DEF RemoveGuard, Goto
<1>28. CASE Commit
  BY <1>28 DEF Commit, Exit, Unlocked
<1>29. CASE Abort
  BY <1>29 DEF Abort, Exit, PanelBack
<1>30. CASE Fail
  BY <1>30 DEF Fail
<1>31. CASE RollbackGuard
  BY <1>31 DEF RollbackGuard, Goto
<1>32. CASE RollbackHooks
  BY <1>32 DEF RollbackHooks, Goto, Unlocked
<1>33. CASE RollbackStop
  BY <1>33 DEF RollbackStop, Goto, StopUnit, PanelStopped
<1>34. CASE RollbackStopTunnels
  BY <1>34 DEF RollbackStopTunnels, Goto, Stopped
<1>35. CASE RestoreTree
  BY <1>35 DEF RestoreTree, Goto
<1>36. CASE GuardCaptured
  BY <1>36 DEF GuardCaptured, Goto
<1>37. CASE RestartTunnels
  BY <1>37 DEF RestartTunnels, Goto
<1>38. CASE RestartFirewall
  BY <1>38 DEF RestartFirewall, Goto, StartUnit
<1>39. CASE RollbackUnguard
  BY <1>39 DEF RollbackUnguard, Goto
<1>40. CASE RollbackDone
  BY <1>40 DEF RollbackDone, Exit, PanelBack
<1>41. CASE RollbackFails
  BY <1>41 DEF RollbackFails, Exit
<1>42. CASE Kill
  BY <1>42 DEF Kill, Exit
<1>43. CASE UNCHANGED vars
  BY <1>43
<1> QED
  BY <1>1, <1>2, <1>3, <1>4, <1>5, <1>6, <1>7, <1>8, <1>9, <1>10, <1>11, <1>12, <1>13, <1>14, <1>15, <1>16, <1>17, <1>18, <1>19, <1>20, <1>21, <1>22, <1>23, <1>24, <1>25, <1>26, <1>27, <1>28, <1>29, <1>30, <1>31, <1>32, <1>33, <1>34, <1>35, <1>36, <1>37, <1>38, <1>39, <1>40, <1>41, <1>42, <1>43 DEF Next, Service, Forward, Undo, Rollback

\* Every step keeps EndInv.
LEMMA EndStep ==
  ASSUME HookInv, EndInv, [Next]_vars
  PROVE  EndInv'
<1> USE DEF EndInv, HookInv, LockInv, PairInv, DownSteps, Copied, Restored, Transacting, RollingBack, vars, unit, hookfiles, trees, plan, writers, custom
<1>1. CASE UpPrecleanup
  BY <1>1 DEF UpPrecleanup, HandleHookState, InstallActive, Unlocked
<1>2. CASE UpRules
  BY <1>2 DEF UpRules, RunCustomDown
<1>3. CASE UpTail
  BY <1>3 DEF UpTail
<1>4. CASE Crash
  BY <1>4 DEF Crash
<1>5. CASE DownHandle
  BY <1>5 DEF DownHandle, HandleHookState, InstallActive, Unlocked
<1>6. CASE DownFinish
  BY <1>6 DEF DownFinish, RunCustomDown, RestartOnFailure
<1>7. CASE DownCutShort
  <2>1. cutShort' <=> hooks > 0 \/ marker = "ready"
    BY <1>7 DEF DownCutShort
  <2>2. hooks = 1 => cutShort'
    BY <2>1
  <2>3. ~cutShort
    BY <1>7 DEF DownCutShort
  <2> QED
    BY <1>7, <2>2, <2>3 DEF DownCutShort, RestartOnFailure
<1>8. CASE HookReturns
  BY <1>8 DEF HookReturns
<1>9. CASE NightlyRestart
  BY <1>9 DEF NightlyRestart
<1>10. CASE AcquireLock
  BY <1>10 DEF AcquireLock, Unlocked
<1>11. CASE BeginTransaction
  BY <1>11 DEF BeginTransaction, Goto, WasActive, PanelStopped
<1>12. CASE TakeSnapshot
  BY <1>12 DEF TakeSnapshot, Goto
<1>13. CASE InstallPackages
  BY <1>13 DEF InstallPackages, Goto
<1>14. CASE StopWriters
  BY <1>14 DEF StopWriters, Goto, PanelStopped
<1>15. CASE StageTree
  BY <1>15 DEF StageTree, Goto
<1>16. CASE ProtectListeners
  BY <1>16 DEF ProtectListeners, Goto
<1>17. CASE StopFirewall
  BY <1>17 DEF StopFirewall, Goto, StopUnit
<1>18. CASE StopTunnels
  BY <1>18 DEF StopTunnels, Goto, Stopped
<1>19. CASE DeferHooks
  BY <1>19 DEF DeferHooks, Goto
<1>20. CASE RemoveOld
  BY <1>20 DEF RemoveOld, Goto
<1>21. CASE PublishNew
  BY <1>21 DEF PublishNew, Goto
<1>22. CASE StartFirewall
  BY <1>22 DEF StartFirewall, Goto, StartUnit
<1>23. CASE StartTunnels
  BY <1>23 DEF StartTunnels, Goto
<1>24. CASE CompleteCutover
  BY <1>24 DEF CompleteCutover, Goto, Unlocked
<1>25. CASE StartMaintenance
  BY <1>25 DEF StartMaintenance, Goto
<1>26. CASE ValidateRuntime
  BY <1>26 DEF ValidateRuntime, Goto
<1>27. CASE RemoveGuard
  BY <1>27 DEF RemoveGuard, Goto
<1>28. CASE Commit
  BY <1>28 DEF Commit, Exit, Unlocked
<1>29. CASE Abort
  BY <1>29 DEF Abort, Exit, PanelBack
<1>30. CASE Fail
  BY <1>30 DEF Fail
<1>31. CASE RollbackGuard
  BY <1>31 DEF RollbackGuard, Goto
<1>32. CASE RollbackHooks
  BY <1>32 DEF RollbackHooks, Goto, Unlocked
<1>33. CASE RollbackStop
  BY <1>33 DEF RollbackStop, Goto, StopUnit, PanelStopped
<1>34. CASE RollbackStopTunnels
  BY <1>34 DEF RollbackStopTunnels, Goto, Stopped
<1>35. CASE RestoreTree
  BY <1>35 DEF RestoreTree, Goto
<1>36. CASE GuardCaptured
  BY <1>36 DEF GuardCaptured, Goto
<1>37. CASE RestartTunnels
  BY <1>37 DEF RestartTunnels, Goto
<1>38. CASE RestartFirewall
  BY <1>38 DEF RestartFirewall, Goto, StartUnit
<1>39. CASE RollbackUnguard
  BY <1>39 DEF RollbackUnguard, Goto
<1>40. CASE RollbackDone
  BY <1>40 DEF RollbackDone, Exit, PanelBack
<1>41. CASE RollbackFails
  BY <1>41 DEF RollbackFails, Exit
<1>42. CASE Kill
  BY <1>42 DEF Kill, Exit
<1>43. CASE UNCHANGED vars
  BY <1>43
<1> QED
  BY <1>1, <1>2, <1>3, <1>4, <1>5, <1>6, <1>7, <1>8, <1>9, <1>10, <1>11, <1>12, <1>13, <1>14, <1>15, <1>16, <1>17, <1>18, <1>19, <1>20, <1>21, <1>22, <1>23, <1>24, <1>25, <1>26, <1>27, <1>28, <1>29, <1>30, <1>31, <1>32, <1>33, <1>34, <1>35, <1>36, <1>37, <1>38, <1>39, <1>40, <1>41, <1>42, <1>43 DEF Next, Service, Forward, Undo, Rollback

\* TypeOK in three parts: the flags, what a run has captured, and everything else.
Flags ==
    /\ runDown \in BOOLEAN /\ restart \in BOOLEAN /\ crashed \in BOOLEAN
    /\ vpn \in BOOLEAN /\ maint \in BOOLEAN /\ env \in BOOLEAN
    /\ asked \in BOOLEAN /\ cutShort \in BOOLEAN

Captured ==
    /\ panel \in PanelStates
    /\ saved \in [fw: BOOLEAN, vpn: BOOLEAN, maint: BOOLEAN, panel: PanelStates]

Values ==
    /\ step \in {"idle", "locked", "begun"} \cup Transacting \cup RollingBack
    /\ outcome \in {"none", "committed", "aborted", "rolledback", "incomplete", "killed"}
    /\ fw \in {"inactive", "pre", "pre2", "tail", "active", "dying", "dying2"}
    /\ guard \subseteq 1..MaxRuns
    /\ marker \in {"none", "deferred", "ready", "applied", "stopped"}
    /\ hookLock \in {"free", "hook"}

\* They make up TypeOK, with the hooks and the trees.
LEMMA TypeOKParts == TypeOK <=> Flags /\ Captured /\ Values /\ hooks \in Nat
    /\ runs \in 0..MaxRuns /\ live \in Mixed..MaxRuns /\ snap \in NoTree..MaxRuns
    /\ kept \subseteq Mixed..MaxRuns /\ good \in Mixed..MaxRuns /\ began \in NoTree..MaxRuns
  BY DEF TypeOK, Flags, Captured, Values

\* Every step keeps the steps, markers and guards in their sets.
LEMMA ValuesStep ==
  ASSUME Values, TreeInv, [Next]_vars
  PROVE  Values'
<1> USE MaxRunsAssumption DEF Values, TreeInv, Transacting, RollingBack, vars, unit, hookfiles, trees, plan, writers, custom
<1>1. CASE UpPrecleanup
  BY <1>1 DEF UpPrecleanup, HandleHookState, InstallActive, Unlocked
<1>2. CASE UpRules
  BY <1>2 DEF UpRules, RunCustomDown
<1>3. CASE UpTail
  BY <1>3 DEF UpTail
<1>4. CASE Crash
  BY <1>4 DEF Crash
<1>5. CASE DownHandle
  BY <1>5 DEF DownHandle, HandleHookState, InstallActive, Unlocked
<1>6. CASE DownFinish
  BY <1>6 DEF DownFinish, RunCustomDown, RestartOnFailure
<1>7. CASE DownCutShort
  BY <1>7 DEF DownCutShort, RestartOnFailure
<1>8. CASE HookReturns
  BY <1>8 DEF HookReturns
<1>9. CASE NightlyRestart
  BY <1>9 DEF NightlyRestart
<1>10. CASE AcquireLock
  BY <1>10 DEF AcquireLock, Unlocked
<1>11. CASE BeginTransaction
  BY <1>11 DEF BeginTransaction, Goto, WasActive, PanelStopped
<1>12. CASE TakeSnapshot
  BY <1>12 DEF TakeSnapshot, Goto
<1>13. CASE InstallPackages
  BY <1>13 DEF InstallPackages, Goto
<1>14. CASE StopWriters
  BY <1>14 DEF StopWriters, Goto, PanelStopped
<1>15. CASE StageTree
  BY <1>15 DEF StageTree, Goto
<1>16. CASE ProtectListeners
  BY <1>16 DEF ProtectListeners, Goto
<1>17. CASE StopFirewall
  BY <1>17 DEF StopFirewall, Goto, StopUnit
<1>18. CASE StopTunnels
  BY <1>18 DEF StopTunnels, Goto, Stopped
<1>19. CASE DeferHooks
  BY <1>19 DEF DeferHooks, Goto
<1>20. CASE RemoveOld
  BY <1>20 DEF RemoveOld, Goto
<1>21. CASE PublishNew
  BY <1>21 DEF PublishNew, Goto
<1>22. CASE StartFirewall
  BY <1>22 DEF StartFirewall, Goto, StartUnit
<1>23. CASE StartTunnels
  BY <1>23 DEF StartTunnels, Goto
<1>24. CASE CompleteCutover
  BY <1>24 DEF CompleteCutover, Goto, Unlocked
<1>25. CASE StartMaintenance
  BY <1>25 DEF StartMaintenance, Goto
<1>26. CASE ValidateRuntime
  BY <1>26 DEF ValidateRuntime, Goto
<1>27. CASE RemoveGuard
  BY <1>27 DEF RemoveGuard, Goto
<1>28. CASE Commit
  BY <1>28 DEF Commit, Exit, Unlocked
<1>29. CASE Abort
  BY <1>29 DEF Abort, Exit, PanelBack
<1>30. CASE Fail
  BY <1>30 DEF Fail
<1>31. CASE RollbackGuard
  BY <1>31 DEF RollbackGuard, Goto
<1>32. CASE RollbackHooks
  BY <1>32 DEF RollbackHooks, Goto, Unlocked
<1>33. CASE RollbackStop
  BY <1>33 DEF RollbackStop, Goto, StopUnit, PanelStopped
<1>34. CASE RollbackStopTunnels
  BY <1>34 DEF RollbackStopTunnels, Goto, Stopped
<1>35. CASE RestoreTree
  BY <1>35 DEF RestoreTree, Goto
<1>36. CASE GuardCaptured
  BY <1>36 DEF GuardCaptured, Goto
<1>37. CASE RestartTunnels
  BY <1>37 DEF RestartTunnels, Goto
<1>38. CASE RestartFirewall
  BY <1>38 DEF RestartFirewall, Goto, StartUnit
<1>39. CASE RollbackUnguard
  BY <1>39 DEF RollbackUnguard, Goto
<1>40. CASE RollbackDone
  BY <1>40 DEF RollbackDone, Exit, PanelBack
<1>41. CASE RollbackFails
  BY <1>41 DEF RollbackFails, Exit
<1>42. CASE Kill
  BY <1>42 DEF Kill, Exit
<1>43. CASE UNCHANGED vars
  BY <1>43
<1> QED
  BY <1>1, <1>2, <1>3, <1>4, <1>5, <1>6, <1>7, <1>8, <1>9, <1>10, <1>11, <1>12, <1>13, <1>14, <1>15, <1>16, <1>17, <1>18, <1>19, <1>20, <1>21, <1>22, <1>23, <1>24, <1>25, <1>26, <1>27, <1>28, <1>29, <1>30, <1>31, <1>32, <1>33, <1>34, <1>35, <1>36, <1>37, <1>38, <1>39, <1>40, <1>41, <1>42, <1>43 DEF Next, Service, Forward, Undo, Rollback

\* Every step keeps the flags Boolean.
LEMMA FlagsStep ==
  ASSUME Flags, Captured, [Next]_vars
  PROVE  Flags'
<1> USE DEF Flags, vars, unit, hookfiles, trees, plan, writers, custom
<1>1. CASE UpPrecleanup
  BY <1>1 DEF UpPrecleanup, HandleHookState, InstallActive, Unlocked
<1>2. CASE UpRules
  BY <1>2 DEF UpRules, RunCustomDown
<1>3. CASE UpTail
  BY <1>3 DEF UpTail
<1>4. CASE Crash
  BY <1>4 DEF Crash
<1>5. CASE DownHandle
  BY <1>5 DEF DownHandle, HandleHookState, InstallActive, Unlocked
<1>6. CASE DownFinish
  BY <1>6 DEF DownFinish, RunCustomDown, RestartOnFailure
<1>7. CASE DownCutShort
  BY <1>7 DEF DownCutShort, RestartOnFailure
<1>8. CASE HookReturns
  BY <1>8 DEF HookReturns
<1>9. CASE NightlyRestart
  BY <1>9 DEF NightlyRestart
<1>10. CASE AcquireLock
  BY <1>10 DEF AcquireLock, Unlocked
<1>11. CASE BeginTransaction
  BY <1>11 DEF BeginTransaction, Goto, PanelStopped
<1>12. CASE TakeSnapshot
  BY <1>12 DEF TakeSnapshot, Goto
<1>13. CASE InstallPackages
  BY <1>13 DEF InstallPackages, Goto
<1>14. CASE StopWriters
  BY <1>14 DEF StopWriters, Goto, PanelStopped
<1>15. CASE StageTree
  BY <1>15 DEF StageTree, Goto
<1>16. CASE ProtectListeners
  BY <1>16 DEF ProtectListeners, Goto
<1>17. CASE StopFirewall
  BY <1>17 DEF StopFirewall, Goto, StopUnit
<1>18. CASE StopTunnels
  BY <1>18 DEF StopTunnels, Goto, Stopped
<1>19. CASE DeferHooks
  BY <1>19 DEF DeferHooks, Goto
<1>20. CASE RemoveOld
  BY <1>20 DEF RemoveOld, Goto
<1>21. CASE PublishNew
  BY <1>21 DEF PublishNew, Goto
<1>22. CASE StartFirewall
  BY <1>22 DEF StartFirewall, Goto, StartUnit
<1>23. CASE StartTunnels
  BY <1>23 DEF StartTunnels, Goto
<1>24. CASE CompleteCutover
  BY <1>24 DEF CompleteCutover, Goto, Unlocked
<1>25. CASE StartMaintenance
  BY <1>25 DEF StartMaintenance, Goto
<1>26. CASE ValidateRuntime
  BY <1>26 DEF ValidateRuntime, Goto
<1>27. CASE RemoveGuard
  BY <1>27 DEF RemoveGuard, Goto
<1>28. CASE Commit
  BY <1>28 DEF Commit, Exit, Unlocked
<1>29. CASE Abort
  BY <1>29 DEF Abort, Exit, Captured
<1>30. CASE Fail
  BY <1>30 DEF Fail
<1>31. CASE RollbackGuard
  BY <1>31 DEF RollbackGuard, Goto
<1>32. CASE RollbackHooks
  BY <1>32 DEF RollbackHooks, Goto, Unlocked
<1>33. CASE RollbackStop
  BY <1>33 DEF RollbackStop, Goto, StopUnit, PanelStopped
<1>34. CASE RollbackStopTunnels
  BY <1>34 DEF RollbackStopTunnels, Goto, Stopped
<1>35. CASE RestoreTree
  BY <1>35 DEF RestoreTree, Goto
<1>36. CASE GuardCaptured
  BY <1>36 DEF GuardCaptured, Goto
<1>37. CASE RestartTunnels
  BY <1>37 DEF RestartTunnels, Goto, Captured
<1>38. CASE RestartFirewall
  BY <1>38 DEF RestartFirewall, Goto, StartUnit
<1>39. CASE RollbackUnguard
  BY <1>39 DEF RollbackUnguard, Goto
<1>40. CASE RollbackDone
  BY <1>40 DEF RollbackDone, Exit, Captured
<1>41. CASE RollbackFails
  BY <1>41 DEF RollbackFails, Exit
<1>42. CASE Kill
  BY <1>42 DEF Kill, Exit
<1>43. CASE UNCHANGED vars
  BY <1>43
<1> QED
  BY <1>1, <1>2, <1>3, <1>4, <1>5, <1>6, <1>7, <1>8, <1>9, <1>10, <1>11, <1>12, <1>13, <1>14, <1>15, <1>16, <1>17, <1>18, <1>19, <1>20, <1>21, <1>22, <1>23, <1>24, <1>25, <1>26, <1>27, <1>28, <1>29, <1>30, <1>31, <1>32, <1>33, <1>34, <1>35, <1>36, <1>37, <1>38, <1>39, <1>40, <1>41, <1>42, <1>43 DEF Next, Service, Forward, Undo, Rollback

\* Every step keeps the panel's state, and what a run captured of the host.
LEMMA CapturedStep ==
  ASSUME Captured, Flags, [Next]_vars
  PROVE  Captured'
<1> USE DEF Captured, PanelStates, vars, unit, hookfiles, trees, plan, writers, custom
<1>1. CASE UpPrecleanup
  BY <1>1 DEF UpPrecleanup, HandleHookState, InstallActive, Unlocked
<1>2. CASE UpRules
  BY <1>2 DEF UpRules, RunCustomDown
<1>3. CASE UpTail
  BY <1>3 DEF UpTail
<1>4. CASE Crash
  BY <1>4 DEF Crash
<1>5. CASE DownHandle
  BY <1>5 DEF DownHandle, HandleHookState, InstallActive, Unlocked
<1>6. CASE DownFinish
  BY <1>6 DEF DownFinish, RunCustomDown, RestartOnFailure
<1>7. CASE DownCutShort
  BY <1>7 DEF DownCutShort, RestartOnFailure
<1>8. CASE HookReturns
  BY <1>8 DEF HookReturns
<1>9. CASE NightlyRestart
  BY <1>9 DEF NightlyRestart
<1>10. CASE AcquireLock
  BY <1>10 DEF AcquireLock, Unlocked
<1>11. CASE BeginTransaction
  <2>1. WasActive(fw) \in BOOLEAN /\ vpn \in BOOLEAN /\ maint \in BOOLEAN
    BY DEF WasActive, Flags
  <2>2. saved' = [fw |-> WasActive(fw), vpn |-> vpn, maint |-> maint, panel |-> panel]
    BY <1>11 DEF BeginTransaction
  <2>3. saved' \in [fw: BOOLEAN, vpn: BOOLEAN, maint: BOOLEAN, panel: PanelStates]
    BY <2>1, <2>2
  <2>4. panel' \in PanelStates
    BY <1>11 DEF BeginTransaction, PanelStopped
  <2> QED
    BY <2>3, <2>4
<1>12. CASE TakeSnapshot
  BY <1>12 DEF TakeSnapshot, Goto
<1>13. CASE InstallPackages
  BY <1>13 DEF InstallPackages, Goto
<1>14. CASE StopWriters
  BY <1>14 DEF StopWriters, Goto, PanelStopped
<1>15. CASE StageTree
  BY <1>15 DEF StageTree, Goto
<1>16. CASE ProtectListeners
  BY <1>16 DEF ProtectListeners, Goto
<1>17. CASE StopFirewall
  BY <1>17 DEF StopFirewall, Goto, StopUnit
<1>18. CASE StopTunnels
  BY <1>18 DEF StopTunnels, Goto, Stopped
<1>19. CASE DeferHooks
  BY <1>19 DEF DeferHooks, Goto
<1>20. CASE RemoveOld
  BY <1>20 DEF RemoveOld, Goto
<1>21. CASE PublishNew
  BY <1>21 DEF PublishNew, Goto
<1>22. CASE StartFirewall
  BY <1>22 DEF StartFirewall, Goto, StartUnit
<1>23. CASE StartTunnels
  BY <1>23 DEF StartTunnels, Goto
<1>24. CASE CompleteCutover
  BY <1>24 DEF CompleteCutover, Goto, Unlocked
<1>25. CASE StartMaintenance
  BY <1>25 DEF StartMaintenance, Goto
<1>26. CASE ValidateRuntime
  BY <1>26 DEF ValidateRuntime, Goto
<1>27. CASE RemoveGuard
  BY <1>27 DEF RemoveGuard, Goto
<1>28. CASE Commit
  <2>1. saved' = Blank /\ panel' = panel
    BY <1>28 DEF Commit, Exit
  <2> QED
    BY <2>1 DEF Blank
<1>29. CASE Abort
  <2>1. saved' = Blank
    BY <1>29 DEF Abort, Exit
  <2>2. panel' \in PanelStates
    BY <1>29 DEF Abort, PanelBack
  <2> QED
    BY <2>1, <2>2 DEF Blank
<1>30. CASE Fail
  BY <1>30 DEF Fail
<1>31. CASE RollbackGuard
  BY <1>31 DEF RollbackGuard, Goto
<1>32. CASE RollbackHooks
  BY <1>32 DEF RollbackHooks, Goto, Unlocked
<1>33. CASE RollbackStop
  BY <1>33 DEF RollbackStop, Goto, StopUnit, PanelStopped
<1>34. CASE RollbackStopTunnels
  BY <1>34 DEF RollbackStopTunnels, Goto, Stopped
<1>35. CASE RestoreTree
  BY <1>35 DEF RestoreTree, Goto
<1>36. CASE GuardCaptured
  BY <1>36 DEF GuardCaptured, Goto
<1>37. CASE RestartTunnels
  BY <1>37 DEF RestartTunnels, Goto
<1>38. CASE RestartFirewall
  BY <1>38 DEF RestartFirewall, Goto, StartUnit
<1>39. CASE RollbackUnguard
  BY <1>39 DEF RollbackUnguard, Goto
<1>40. CASE RollbackDone
  <2>1. saved' = Blank
    BY <1>40 DEF RollbackDone, Exit
  <2>2. panel' \in PanelStates
    BY <1>40 DEF RollbackDone, PanelBack
  <2> QED
    BY <2>1, <2>2 DEF Blank
<1>41. CASE RollbackFails
  <2>1. saved' = Blank /\ panel' = panel
    BY <1>41 DEF RollbackFails, Exit
  <2> QED
    BY <2>1 DEF Blank
<1>42. CASE Kill
  <2>1. saved' = Blank /\ panel' = panel
    BY <1>42 DEF Kill, Exit
  <2> QED
    BY <2>1 DEF Blank
<1>43. CASE UNCHANGED vars
  BY <1>43
<1> QED
  BY <1>1, <1>2, <1>3, <1>4, <1>5, <1>6, <1>7, <1>8, <1>9, <1>10, <1>11, <1>12, <1>13, <1>14, <1>15, <1>16, <1>17, <1>18, <1>19, <1>20, <1>21, <1>22, <1>23, <1>24, <1>25, <1>26, <1>27, <1>28, <1>29, <1>30, <1>31, <1>32, <1>33, <1>34, <1>35, <1>36, <1>37, <1>38, <1>39, <1>40, <1>41, <1>42, <1>43 DEF Next, Service, Forward, Undo, Rollback

\* Only the last step of the rollback reports that it is complete.
LEMMA OnlyRollbackDone ==
  ASSUME Next, outcome' = "rolledback", outcome # "rolledback"
  PROVE  RollbackDone
  BY DEF Next, Service, Forward, Undo, Rollback, Goto, Exit, UpPrecleanup, UpRules, UpTail, Crash, DownHandle, DownFinish, DownCutShort, HookReturns, NightlyRestart, AcquireLock, BeginTransaction, TakeSnapshot, InstallPackages, StopWriters, StageTree, ProtectListeners, StopFirewall, StopTunnels, DeferHooks, RemoveOld, PublishNew, StartFirewall, StartTunnels, CompleteCutover, StartMaintenance, ValidateRuntime, RemoveGuard, Commit, Abort, Fail, RollbackGuard, RollbackHooks, RollbackStop, RollbackStopTunnels, RestoreTree, GuardCaptured, RestartTunnels, RestartFirewall, RollbackUnguard, RollbackFails, Kill

\* Only commit_install_transaction reports a commit.
LEMMA OnlyCommit ==
  ASSUME Next, outcome' = "committed", outcome # "committed"
  PROVE  Commit
  BY DEF Next, Service, Forward, Undo, Rollback, Goto, Exit, UpPrecleanup, UpRules, UpTail, Crash, DownHandle, DownFinish, DownCutShort, HookReturns, NightlyRestart, AcquireLock, BeginTransaction, TakeSnapshot, InstallPackages, StopWriters, StageTree, ProtectListeners, StopFirewall, StopTunnels, DeferHooks, RemoveOld, PublishNew, StartFirewall, StartTunnels, CompleteCutover, StartMaintenance, ValidateRuntime, RemoveGuard, Abort, Fail, RollbackGuard, RollbackHooks, RollbackStop, RollbackStopTunnels, RestoreTree, GuardCaptured, RestartTunnels, RestartFirewall, RollbackUnguard, RollbackDone, RollbackFails, Kill

\* A host before its first run.
LEMMA InitIInv == Init => IInv
  BY MaxRunsAssumption DEF Init, IInv, TreeInv, HookInv, LockInv, PairInv, GuardInv, WriterInv, EndInv, Copied, Restored,
     Published, Unlocked, DownSteps, Transacting, RollingBack, Mixed, NoTree

\* ... has flags and values of their types.
LEMMA InitTypeOK == Init => Flags /\ Captured /\ Values
<1> SUFFICES ASSUME Init PROVE Flags /\ Captured /\ Values
  OBVIOUS
<1>1. Values
  BY MaxRunsAssumption DEF Init, Values, Transacting, RollingBack, Unlocked
<1>2. crashed \in BOOLEAN
  BY DEF Init
<1>3. Captured
  BY DEF Init, Captured, Blank, PanelStates
<1>4. Flags
  BY <1>2 DEF Init, Flags
<1> QED
  BY <1>1, <1>3, <1>4

\* The five parts together are an inductive invariant of the installation.
THEOREM Invariance == Spec => []IInv
<1>1. IInv /\ [Next]_vars => IInv'
  BY TreeStep, LockStep, PairStep, GuardStep, WriterStep, EndStep DEF IInv, HookInv
<1> QED
  BY <1>1, InitIInv, PTL DEF Spec

\* Types, for any number of runs.
THEOREM TypeCorrect == Spec => []TypeOK
<1>1. Flags /\ Captured /\ Values /\ IInv /\ [Next]_vars => Flags' /\ Captured' /\ Values'
  BY FlagsStep, CapturedStep, ValuesStep DEF IInv
<1>2. IInv /\ Flags /\ Captured /\ Values => TypeOK
  BY TypeOKParts DEF IInv, TreeInv, HookInv, LockInv
<1> QED
  BY <1>1, <1>2, InitTypeOK, Invariance, PTL DEF Spec

\* However setup.sh, up.sh and down.sh interleave with crashes and kills, a stopped
\* unit has its custom-up undone, and custom-up never runs twice in a row, unless a
\* down.sh has itself ended early.
THEOREM HooksPaired == Spec => []HookPaired
<1>1. IInv => HookPaired
  BY DEF IInv, HookInv, PairInv, HookPaired, Stopped
<1> QED
  BY <1>1, Invariance, PTL

\* setup.sh leaves no VPN listener open without firewall rules.
THEOREM ListenersGuarded == Spec => []NoUnguardedListener
<1>1. IInv => NoUnguardedListener
  BY DEF IInv, GuardInv, NoUnguardedListener, Rules
<1> QED
  BY <1>1, Invariance, PTL

\* No writer of the core runs while the managed paths are replaced, and no panel that
\* the run was to install, unless cron has started it.
THEOREM WritersStopped == Spec => []WritersQuiet
<1>1. IInv => WritersQuiet
  BY DEF IInv, WriterInv, WritersQuiet
<1> QED
  BY <1>1, Invariance, PTL

\* The last committed tree is never lost, however many runs fail or are killed.
THEOREM CommittedTreeKept == Spec => []TreeRecoverable
<1>1. IInv => TreeRecoverable
  BY DEF IInv, TreeInv, TreeRecoverable
<1> QED
  BY <1>1, Invariance, PTL

\* What a run reports is true: a rollback reported as complete has put back what the
\* run found, and a commit leaves the run's own tree live, custom-up run once, and no
\* guard.
THEOREM ReportsAreTrue == Spec => OutcomeHonest
<1>1. IInv /\ Next => RollbackComplete
  <2> SUFFICES ASSUME IInv, Next, outcome' = "rolledback", outcome # "rolledback"
               PROVE  /\ live' = began /\ vpn' = saved.vpn /\ maint' = saved.maint
                      /\ asked => (saved.panel \in {"on", "woken"} <=> panel' = "on")
                                  /\ (saved.panel = "none" <=> panel' = "none")
                      /\ marker' = "none"
                      /\ saved.fw => runs \notin guard'
    BY DEF RollbackComplete
  <2>1. RollbackDone
    BY OnlyRollbackDone
  <2> QED
    BY <2>1 DEF RollbackDone, PanelBack, Exit, IInv, TreeInv, WriterInv, EndInv, Restored, Copied, RollingBack, unit, hookfiles
<1>2. IInv /\ Next => CommitHealthy
  <2> SUFFICES ASSUME IInv, Next, outcome' = "committed", outcome # "committed"
               PROVE  live = runs /\ (hooks = 1 \/ cutShort) /\ guard = {}
    BY DEF CommitHealthy
  <2>1. Commit
    BY OnlyCommit
  <2> QED
    BY <2>1 DEF Commit, IInv, TreeInv, EndInv, Published
<1>3. IInv /\ [Next]_vars => [RollbackComplete /\ CommitHealthy]_vars
  BY <1>1, <1>2
<1> QED
  BY <1>3, Invariance, PTL DEF Spec, OutcomeHonest

=============================================================================
