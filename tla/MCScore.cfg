CONSTANTS
    Collects = {"ports", "sshd"}
    AttackHours = 0
    BreachHours = 1
    Budget = 0
    MaxPorts = 1
    MaxLost = 1
    SshdConfigs <- Configs
SPECIFICATION Spec
INVARIANTS SeriousIsNeverGood DenialsAreSshds WeakSshdCosts
PROPERTIES OnlyFail2BanPunishesBlindness
