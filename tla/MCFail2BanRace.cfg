CONSTANTS
    Ips = {ip}
    Threads = {t1, t2}
    Enabled = TRUE
    Ttl = 2
    MaxQuery = 1
    Uptime = 3
    MaxTime = 7
    MaxRequests = 3
SPECIFICATION Spec
INVARIANTS VerdictWasGiven
