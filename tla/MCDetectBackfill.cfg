CONSTANTS
    Ips <- OneIp
    Lines <- BurstThenStraggler
    Window <- Windows
    Cooldown <- Cooldowns
    Threshold <- Thresholds
    LoginWindow = 2
    Retention = 6
    MaxTime = 6
    ActiveWindow = 1
    Hour = 2
    DayHours = 1
    InOrder = TRUE
SPECIFICATION Spec
INVARIANT EveryBurstAlerted
CHECK_DEADLOCK FALSE
