CONSTANTS
    Ips <- TwoIps
    Lines <- MixedLog
    Window <- Windows
    Cooldown <- Cooldowns
    Threshold <- Thresholds
    LoginWindow = 2
    Retention = 1
    MaxTime = 4
    ActiveWindow = 1
    Hour = 2
    DayHours = 1
    InOrder = FALSE
SPECIFICATION Spec
INVARIANTS DetectInv AlertBackedByEvidence IncidentsDisjoint FeedMatchesAlerts DetectionUpToDate LoginsMatchRows TotalsAreEvidence ThreatIsNotMissed ChartMatchesTotals
PROPERTIES NewAlertIsAnnounced NewAlertIsJustified AlertsOnlyGrow NoBreachSlipsBy
CHECK_DEADLOCK FALSE
