CONSTANTS
    Ips = {ip}
    Threads = {t1, t2}
    Enabled = TRUE
    Ttl = 2
    MaxQuery = 3
    Uptime = 1
    MaxTime = 9
    MaxRequests = 3
    Sources = {src, unknown}
    Located = {src}
    Askers = {a1, a2, a3}
SPECIFICATION EnrichSpec
INVARIANTS ClientInv OpenedOnce QueriesAreSpaced AnswerIsRecent
