\* Two panel threads and a run of traffic_sync.py, an OpenVPN and a WireGuard session of
\* one client beside the statistics of the others, counters that start again below their
\* last value, one event, and two operations that begin beside another.
CONSTANTS
    OpenVpn = {o1}
    WireGuard = {w1}
    Web = {web1, web2}
    Cron = {cron}
    OtherSamples = 1
    OtherTotal = 1
    MaxCount = 2
    MaxEvents = 1
    MaxRaces = 2
    MaxRaceCount = 1
    MaxRaceEvents = 0
SPECIFICATION FairSpec
INVARIANTS CountedOnce TotalsMatchSamples
PROPERTY TotalsHeal
CHECK_DEADLOCK FALSE
