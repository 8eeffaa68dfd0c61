\* Two runs, so that one meets what a failed or killed one left behind.
CONSTANT MaxRuns = 2
SPECIFICATION FairSpec
INVARIANTS HookPaired NoUnguardedListener WritersQuiet TreeRecoverable
PROPERTIES OutcomeHonest InstallEnds
CHECK_DEADLOCK FALSE
