------------------------------ MODULE Queries ------------------------------
(***************************************************************************)
(* What the API makes of Detect's tables: /api/stats and /api/timeline.    *)
(* A handler is a function of the database that its statements see and of  *)
(* the clock.  Its connection holds no transaction, so that a cycle's      *)
(* commit or a sweep may come between two statements of one answer.        *)
(***************************************************************************)
EXTENDS Detect, FiniteSetsExt

CONSTANTS
    ActiveWindow,   \* an alert moved within it is active (15 minutes)
    Hour,           \* ticks to a bucket of the timeline
    DayHours        \* hours to the day of the totals (24)

ASSUME QueriesAssumption ==
    /\ ActiveWindow \in Nat
    /\ Hour \in Nat \ {0} /\ DayHours \in Nat \ {0}

-----------------------------------------------------------------------------
(* /api/stats *)

(* The rows of one of the two charts: counting kinds only. *)
Attempts(d, k) == {r \in d.rows : r.kind \in {"failure", "probe"} /\ Detector(r) = k}

Since(S, t) == {r \in S : r.ts >= t}

EventsOfTheDay(d, k) == Cardinality(Since(Attempts(d, k), now - DayHours * Hour))

(* Mutant: alerts that began, not that moved, within the window. *)
StartedLately(d) == {a \in d.alerts : a.first >= now - ActiveWindow}

ActiveAlerts(d) == {a \in d.alerts : a.last >= now - ActiveWindow}

ThreatLabel(d) ==
    LET active == Cardinality(ActiveAlerts(d))
    IN CASE active = 0      -> "quiet"
         [] active \in 1..2 -> "elevated"
         [] active \in 3..5 -> "high"
         [] OTHER           -> "severe"

(* Percent of the attempts: the groups by username come from one statement,  *)
(* the total from the next, in the table as it is by then.                  *)
SharesInAll(grouped, total) ==
    LET n == Cardinality(Attempts(grouped, "ssh_bruteforce"))
        m == Cardinality(Attempts(total, "ssh_bruteforce"))
    IN IF m = 0 THEN 0 ELSE (n * 100) \div m

-----------------------------------------------------------------------------
(* /api/timeline *)

HourOf(t) == t \div Hour

StartHour(hours) == HourOf(now) - (hours - 1)

(* Mutant: minutes past the hour are left in the start. *)
CountFromNow(d, k, hours, h) ==
    Cardinality({r \in Attempts(d, k) :
        r.ts >= now - (hours - 1) * Hour /\ HourOf(r.ts) = h})

(* GROUP BY the first 13 characters of the time, from the start's hour on. *)
InBucket(d, k, hours, h) ==
    Cardinality({r \in Since(Attempts(d, k), StartHour(hours) * Hour) : HourOf(r.ts) = h})

Buckets(d, k, hours) ==
    [h \in StartHour(hours) .. StartHour(hours) + hours - 1 |-> InBucket(d, k, hours, h)]

Charted(d, k, hours) == MapThenSumSet(LAMBDA h : Buckets(d, k, hours)[h],
                                      DOMAIN Buckets(d, k, hours))

-----------------------------------------------------------------------------
(* Properties. *)

(* "quiet" is not said while an attack is on: when the rule is met at an    *)
(* address's newest row, and that row is of the last quarter hour, the      *)
(* threat is above its lowest level, whatever cycles and sweeps went before.*)
ThreatIsNotMissed ==
    ThreatLabel(db) = "quiet" =>
        \A k \in Detectors, ip \in Ips :
        \A anchor \in Newest(Counting(db, k, ip)) :
            Fires(db, k, ip, anchor) => anchor < now - ActiveWindow

(* The chart and the totals of the same page speak of the same rows: of the *)
(* rows in the day's total the chart of as many hours leaves out those of   *)
(* its first, partial hour and those dated beyond the current hour, counts  *)
(* no other row, and none twice.                                            *)
ChartMatchesTotals ==
    \A k \in Detectors :
        LET beyond == {r \in Attempts(db, k) : HourOf(r.ts) > HourOf(now)}
            early  == {r \in Attempts(db, k) :
                         /\ r.ts \in now - DayHours * Hour .. now
                         /\ HourOf(r.ts) = HourOf(now) - DayHours}
        IN Charted(db, k, DayHours) + Cardinality(beyond) + Cardinality(early)
             = EventsOfTheDay(db, k)

(* "computed over counting kinds only, so the precursor lines cannot        *)
(* inflate the denominator" (api.py:195-196), nor can the shares exceed the *)
(* whole: an answer whose two statements have one step between them.        *)
SharesAddUp == [][SharesInAll(db, db') <= 100]_vars

=============================================================================
