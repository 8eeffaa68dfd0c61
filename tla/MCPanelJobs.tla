---------------------------- MODULE MCPanelJobs ----------------------------
(***************************************************************************)
(* Small instances of PanelJobs.  A load either has tasks and a dashboard, *)
(* or settings that change: the two meet only in starts of the process.    *)
(***************************************************************************)
EXTENDS PanelJobs, TLC

CONSTANTS doall, refresh, r1, r2

MCKinds == doall :> {"run_doall", "restart_service"} @@ refresh :> {"logs_dashboard_refresh"}
MCDefaultTime == [hour |-> 14, minute |-> 30]
MCStaleAfter == [type \in Type |-> 1]
MCTimes == {MCDefaultTime, [hour |-> 4, minute |-> 99]}
MCLoads == {[timer |-> TRUE, edits |-> 0, host |-> 0, tasks |-> 2, stops |-> 1, views |-> FALSE],
            [timer |-> TRUE, edits |-> 0, host |-> 0, tasks |-> 0, stops |-> 1, views |-> TRUE],
            [timer |-> TRUE, edits |-> 0, host |-> 0, tasks |-> 1, stops |-> 0, views |-> TRUE],
            [timer |-> FALSE, edits |-> 2, host |-> 0, tasks |-> 0, stops |-> 1, views |-> FALSE],
            [timer |-> TRUE, edits |-> 1, host |-> 1, tasks |-> 0, stops |-> 1, views |-> FALSE]}

=============================================================================
