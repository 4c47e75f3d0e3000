------------------------------ MODULE TimeParse ------------------------------
(***************************************************************************)
(* The year of a traditional syslog stamp (timeparse.parse_timestamp): a    *)
(* line carries month, day and time; the reader infers the year from the   *)
(* reference that run_once took when the cycle began, before it read.      *)
(*                                                                         *)
(* An instant is a number of slots, Slots to a day, since FirstYear began.  *)
(* Host and log are in one zone without daylight saving time.              *)
(***************************************************************************)
EXTENDS Integers, Sequences

CONSTANTS
    FirstYear, LastYear,
    Slots,          \* the grain of a day
    Moments,        \* the instants at which things happen
    LateWrites      \* lines may be written after the cycle has begun

VARIABLES
    clock,
    line,       \* when the line in the log was written, or Never
    ref,        \* the reference of the cycle in progress, or Never
    parsed      \* what the last step made of the line: [line, ref, ts]

vars == <<clock, line, ref, parsed>>

Never == -1
Error == -2     \* datetime raises ValueError

Init ==
    /\ clock \in Moments
    /\ line = Never /\ ref = Never
    /\ parsed = {}

-----------------------------------------------------------------------------
(* The calendar (datetime). *)

Leap(y) == y % 4 = 0 /\ (y % 100 # 0 \/ y % 400 = 0)

Lengths(y) == <<31, IF Leap(y) THEN 29 ELSE 28, 31, 30, 31, 30, 31, 31, 30, 31, 30, 31>>

LeapDays(y) == (y - 1) \div 4 - (y - 1) \div 100 + (y - 1) \div 400

DaysBefore(y) == 365 * (y - FirstYear) + LeapDays(y) - LeapDays(FirstYear)

MonthStart(y, m) == <<0, 31, 59, 90, 120, 151, 181, 212, 243, 273, 304, 334>>[m]
                      + IF m > 2 /\ Leap(y) THEN 1 ELSE 0

ASSUME TimeParseAssumption ==
    /\ FirstYear \in Nat /\ LastYear \in Nat /\ FirstYear < LastYear
    /\ Slots \in Nat \ {0}
    /\ Moments \subseteq 0 .. DaysBefore(LastYear + 1) * Slots - 1
    /\ LateWrites \in BOOLEAN

YearOf(t) == CHOOSE y \in FirstYear .. LastYear :
                /\ DaysBefore(y) <= t \div Slots
                /\ t \div Slots < DaysBefore(y + 1)

(* The stamp that the daemon writes at t: all but the year. *)
StampOf(t) ==
    LET y   == YearOf(t)
        day == t \div Slots - DaysBefore(y)
        m   == CHOOSE k \in 1 .. 12 :
                 MonthStart(y, k) <= day /\ day < MonthStart(y, k) + Lengths(y)[k]
    IN [month |-> m, day |-> day - MonthStart(y, m) + 1, slot |-> t % Slots]

Valid(y, s) == s.day <= Lengths(y)[s.month]

Instant(y, s) == (DaysBefore(y) + MonthStart(y, s.month) + s.day - 1) * Slots + s.slot

-----------------------------------------------------------------------------
(* parse_timestamp *)

InYear(y, s) == IF Valid(y, s) THEN Instant(y, s) ELSE Error

(* Mutants: no year but the current one; no tolerance for lines written     *)
(* since; a stamp in the future is an error.                                *)
ParseNaive(s, now) == InYear(YearOf(now), s)
ParseImpatient(s, now) ==
    LET candidate == InYear(YearOf(now), s)
    IN IF candidate > now THEN InYear(YearOf(now) - 1, s) ELSE candidate
ParseStrict(s, now) ==
    LET candidate == InYear(YearOf(now), s)
    IN IF candidate - now > Slots THEN Error ELSE candidate

(* _FUTURE_TOLERANCE is one day. *)
Parse(s, now) ==
    LET candidate == InYear(YearOf(now), s)
    IN IF candidate - now > Slots THEN InYear(YearOf(now) - 1, s) ELSE candidate

-----------------------------------------------------------------------------

Wait ==
    /\ \E t \in Moments : t > clock /\ clock' = t
    /\ parsed' = {}
    /\ UNCHANGED <<line, ref>>

(* The daemon writes the line; a cycle that is reading is over within a day. *)
Write ==
    /\ ref = Never \/ (LateWrites /\ clock - ref <= Slots)
    /\ line' = clock
    /\ parsed' = {}
    /\ UNCHANGED <<clock, ref>>

(* run_once: now = utcnow(). *)
Begin ==
    /\ ref = Never
    /\ ref' = clock
    /\ parsed' = {}
    /\ UNCHANGED <<clock, line>>

(* The log is read and the line, if there is one, parsed; an exception drops *)
(* the line alone.                                                          *)
Read ==
    /\ ref # Never
    /\ parsed' = IF line = Never THEN {}
                 ELSE {[line |-> line, ref |-> ref, ts |-> Parse(StampOf(line), ref)]}
    /\ ref' = Never /\ line' = Never
    /\ UNCHANGED clock

Next == Wait \/ Write \/ Begin \/ Read

Spec == Init /\ [][Next]_vars

-----------------------------------------------------------------------------
(* Properties. *)

(* A cycle in progress took its reference before now, and no line it reads  *)
(* was written more than a day after it; what was parsed is of such a line. *)
TimeInv ==
    /\ clock \in Moments
    /\ line = Never \/ (line \in Moments /\ line <= clock)
    /\ ref = Never \/ (ref \in Moments /\ ref <= clock)
    /\ line # Never /\ ref # Never => line <= ref + Slots
    /\ \A p \in parsed : /\ p.line \in Moments /\ p.ref \in Moments
                         /\ p.line <= p.ref + Slots
                         /\ p.ts = Parse(StampOf(p.line), p.ref)

(* A line that lies in a log for less than 364 days, a year less the        *)
(* tolerance, and one that is written after the cycle took its reference    *)
(* but by the next day, gets the time it was written at, across new years   *)
(* and leap days; or none at all.  The one exception is the line that a     *)
(* cycle reads in the year after its reference: see SkewIsTolerated.        *)
YearIsRight ==
    \A p \in parsed :
        /\ p.ref - p.line \in -Slots .. 364 * Slots - 1
        /\ p.line > p.ref => YearOf(p.line) = YearOf(p.ref)
        => p.ts \in {p.line, Error}

(* The one stamp that is dropped is the leap day's, and that only when it   *)
(* is read in another year than its own.                                    *)
OnlyLeapDaysAreDropped ==
    \A p \in parsed : p.ts = Error =>
        /\ StampOf(p.line).month = 2 /\ StampOf(p.line).day = 29
        /\ YearOf(p.line) # YearOf(p.ref)

(* However old the line, its time is not in the future by more than the     *)
(* tolerance ("a timestamp landing in the future is rolled back"), nor more *)
(* than a year back: no stamp can blind detection for an address by being   *)
(* the newest for months.                                                   *)
StampIsNear ==
    \A p \in parsed : p.ts # Error => /\ p.ts <= p.ref + Slots
                                      /\ p.ref - p.ts <= 366 * Slots

(* "a day is a generous margin that still catches the new-year rollover"    *)
(* (timeparse.py:40-41): a line written less than a day before or after the *)
(* reference gets the time it was written at.                               *)
SkewIsTolerated ==
    \A p \in parsed :
        p.line - p.ref \in -Slots .. Slots => p.ts \in {p.line, Error}

=============================================================================
