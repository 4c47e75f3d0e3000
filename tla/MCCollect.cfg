CONSTANTS
    Ports = {ssh, web}
    Nets = {"loopback", "any"}
    NoAddress = NoAddress
    MaxHours = 1
    MaxChanges = 3
    Interfaces = {eth0, veth}
    MaxEvents = 5
    Modulus = 2
    MaxPolls = 2
    Unknown = Unknown
SPECIFICATION CollectSpec
INVARIANTS CollectInv BaselineOnce KnownPortsWereAnnounced
PROPERTIES ThroughputIsReal RatesAreKnown PublicExposureIsRecorded

CHECK_DEADLOCK FALSE
