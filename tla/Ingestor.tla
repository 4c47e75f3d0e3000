------------------------------ MODULE Ingestor ------------------------------
(***************************************************************************)
(* The ingest worker in time: run_forever's cycles over the two sources,   *)
(* what they leave in tail_state, the feed and host_samples, the sweep, and *)
(* what /api/health makes of it.  What a read returns is LogTail's matter, *)
(* what a cycle detects is Detect's; here a read succeeds or fails, and the *)
(* write transaction commits or rolls back.                                *)
(*                                                                         *)
(* Time is counted in ticks.  A cycle takes at most MaxCycle of them and   *)
(* the worker sleeps for Poll: the clock does not run past either.         *)
(***************************************************************************)
EXTENDS Integers

CONSTANTS
    Poll,           \* poll_seconds
    MaxCycle,       \* the longest a cycle takes (two log reads, three commands)
    StaleAfter,     \* stale_after_seconds
    Hour,           \* the ticks of an hour
    PruneEvery,     \* cycles between sweeps
    Retention,      \* retention_days
    SampleRetention,\* host_sample_retention_hours
    MaxTime,        \* bound: the clock
    MaxUpsets       \* bound: outages, faults and restarts together

Sources == {"ssh", "ufw"}
Never   == -1

ASSUME IngestorAssumption ==
    /\ Poll \in Nat \ {0} /\ MaxCycle \in Nat /\ StaleAfter \in Nat
    /\ Hour \in Nat \ {0} /\ PruneEvery \in Nat \ {0}
    /\ Retention \in Nat /\ SampleRetention \in Nat
    /\ MaxTime \in Nat /\ MaxUpsets \in Nat

(* The defaults are 60 and 10 seconds, which leaves a cycle 25.  config.py   *)
(* reads the two independently and checks nothing.                          *)
ASSUME StaleAfterCoversACycle == StaleAfter >= Poll + 2 * MaxCycle

(* Retention is in days. *)
ASSUME RetentionCoversHours == Retention >= Hour + Poll + MaxCycle

VARIABLES
    now,        \* the clock
    readable,   \* source -> its log can be read
    changed,    \* source -> when that last changed
    fault,      \* the write transaction cannot commit (locked, disk full, collector)
    alive,      \* the worker thread exists
    sound,      \* since when it has been alive and free of faults, or Never
    upsets,
    stage,      \* "sleep", or the step of the cycle that comes next
    wake,       \* when the sleep ends
    started,    \* run_once's now
    report,     \* source -> what this cycle's read came to
    lastRead,   \* tail_state.last_read_at
    lastError,  \* tail_state.last_error is set
    feed,       \* the SOURCE_UNREADABLE entries: source and hour of the key, time
    samples,    \* the times of host_samples
    cycle       \* run_forever's counter

environment == <<readable, changed, fault, alive, sound, upsets>>
tables      == <<lastRead, lastError, feed, samples>>
vars == <<now, environment, stage, wake, started, report, tables, cycle>>

Entry == [source : Sources, hour : Nat, at : Nat]

Init ==
    /\ now = 0
    /\ readable = [s \in Sources |-> TRUE]  \* until LogChanges, at once perhaps
    /\ changed = [s \in Sources |-> 0]
    /\ fault = FALSE /\ alive = TRUE /\ sound = 0 /\ upsets = 0
    /\ stage = "sleep" /\ wake = 0 /\ started = 0
    /\ report = [s \in Sources |-> "none"]
    /\ lastRead = [s \in Sources |-> Never]
    /\ lastError = [s \in Sources |-> TRUE]     \* health: "never read"
    /\ feed = {} /\ samples = {}
    /\ cycle = 0

-----------------------------------------------------------------------------
(* The host: logs come and go, transactions fail for a while, the service   *)
(* is killed and started again (lifespan starts one worker).                *)

Upset == upsets < MaxUpsets /\ upsets' = upsets + 1

LogChanges(s) ==
    /\ Upset
    /\ readable' = [readable EXCEPT ![s] = ~@]
    /\ changed' = [changed EXCEPT ![s] = now]
    /\ UNCHANGED <<now, fault, alive, sound, stage, wake, started, report, tables, cycle>>

FaultChanges ==
    /\ Upset
    /\ fault' = ~fault
    /\ sound' = IF fault /\ alive THEN now ELSE Never
    /\ UNCHANGED <<now, readable, changed, alive, stage, wake, started, report,
                   tables, cycle>>

Kill ==
    /\ Upset /\ alive
    /\ alive' = FALSE /\ sound' = Never
    /\ stage' = "sleep"
    /\ UNCHANGED <<now, readable, changed, fault, wake, started, report, tables, cycle>>

Start ==
    /\ ~alive
    /\ alive' = TRUE
    /\ sound' = IF fault THEN Never ELSE now
    /\ stage' = "sleep" /\ wake' = now
    /\ cycle' = 0
    /\ UNCHANGED <<now, readable, changed, fault, upsets, started, report, tables>>

Tick ==
    /\ now < MaxTime
    /\ alive => IF stage = "sleep" THEN now < wake ELSE now < started + MaxCycle
    /\ now' = now + 1
    /\ UNCHANGED <<environment, stage, wake, started, report, tables, cycle>>

-----------------------------------------------------------------------------
(* run_once *)

Begin ==
    /\ alive /\ stage = "sleep" /\ now >= wake
    /\ stage' = "ssh"
    /\ started' = now
    /\ report' = [s \in Sources |-> "none"]
    /\ UNCHANGED <<now, environment, wake, tables, cycle>>

(* _process_source: a failure is recorded at once, in a transaction of its  *)
(* own, and leaves last_read_at alone.  With a fault two outcomes are left  *)
(* out, in which a source is not read for the store's sake: the first       *)
(* transaction fails, and the source counts as failed although its log is   *)
(* there (ingest.py:105-107), or record_tail_error raises, and the cycle    *)
(* ends before the next source.  No property depends on them: a source owes *)
(* freshness and its announcement after a round without faults, and looks   *)
(* stale however its read failed.                                           *)
Read(s) ==
    /\ alive /\ stage = s
    /\ stage' = IF s = "ssh" THEN "ufw" ELSE "store"
    /\ report' = [report EXCEPT ![s] = IF readable[s] THEN "ok" ELSE "failed"]
    /\ lastError' = [lastError EXCEPT ![s] = @ \/ (~readable[s] /\ ~fault)]
    /\ UNCHANGED <<now, environment, wake, started, lastRead, feed, samples, cycle>>

(* Mutant: one entry for ever. *)
EmittedOnce(failed) ==
    feed \cup {[source |-> s, hour |-> started \div Hour, at |-> now] :
                 s \in {x \in failed : ~\E e \in feed : e.source = x}}

(* events.emit with dedupe_key src_err:<source>:<hour of the cycle's start> *)
Emitted(failed) ==
    feed \cup {[source |-> s, hour |-> started \div Hour, at |-> now] :
                 s \in {x \in failed : ~\E e \in feed : /\ e.source = x
                                                        /\ e.hour = started \div Hour}}

(* Mutants: positions are saved whether or not the source was read; only     *)
(* when both were.                                                          *)
StoreRegardless ==
    /\ alive /\ stage = "store" /\ ~fault
    /\ lastRead' = [s \in Sources |-> now]
    /\ lastError' = [s \in Sources |-> FALSE]
    /\ feed' = Emitted({s \in Sources : report[s] = "failed"})
    /\ samples' = samples \cup {now}
    /\ stage' = "after"
    /\ UNCHANGED <<now, environment, wake, started, report, cycle>>

StoreAllOrNone ==
    /\ alive /\ stage = "store" /\ ~fault
    /\ LET ok == \A s \in Sources : report[s] = "ok"
       IN /\ lastRead' = IF ok THEN [s \in Sources |-> now] ELSE lastRead
          /\ lastError' = IF ok THEN [s \in Sources |-> FALSE] ELSE lastError
    /\ feed' = Emitted({s \in Sources : report[s] = "failed"})
    /\ samples' = samples \cup {now}
    /\ stage' = "after"
    /\ UNCHANGED <<now, environment, wake, started, report, cycle>>

(* The write transaction. *)
Store ==
    /\ alive /\ stage = "store" /\ ~fault
    /\ lastRead' = [s \in Sources |-> IF report[s] = "ok" THEN now ELSE lastRead[s]]
    /\ lastError' = [s \in Sources |-> IF report[s] = "ok" THEN FALSE ELSE lastError[s]]
    /\ feed' = Emitted({s \in Sources : report[s] = "failed"})
    /\ samples' = samples \cup {now}
    /\ stage' = "after"
    /\ UNCHANGED <<now, environment, wake, started, report, cycle>>

(* ... or it raises; run_forever logs the exception and goes on. *)
StoreRaises ==
    /\ alive /\ stage = "store" /\ fault
    /\ stage' = "after"
    /\ UNCHANGED <<now, environment, wake, started, report, tables, cycle>>

(* Mutants: the sweep comes once; the sleep is measured from the cycle's    *)
(* latest end.                                                              *)
SweepsOnce(n) == n = PruneEvery /\ ~fault

AfterCycleSleepsLonger ==
    /\ alive /\ stage = "after"
    /\ cycle' = cycle + 1
    /\ stage' = "sleep" /\ wake' = now + MaxCycle + Poll
    /\ UNCHANGED <<now, environment, started, report, tables>>

(* The counter, every so often the sweep, and the sleep.  prune has no      *)
(* DELETE for host_samples.                                                 *)
Sweeps(n) == n % PruneEvery = 0 /\ ~fault

AfterCycle ==
    /\ alive /\ stage = "after"
    /\ cycle' = cycle + 1
    /\ feed' = IF Sweeps(cycle + 1) THEN {e \in feed : e.at >= now - Retention} ELSE feed
    /\ stage' = "sleep" /\ wake' = now + Poll
    /\ UNCHANGED <<now, environment, started, report, lastRead, lastError, samples>>

Next == \/ \E s \in Sources : LogChanges(s) \/ Read(s)
        \/ FaultChanges \/ Kill \/ Start \/ Tick
        \/ Begin \/ Store \/ StoreRaises \/ AfterCycle

Spec == Init /\ [][Next]_vars

-----------------------------------------------------------------------------
(* GET /api/health *)

Stale(s) == lastRead[s] = Never \/ now - lastRead[s] > StaleAfter

Healthy == \A s \in Sources : ~lastError[s] /\ ~Stale(s)

-----------------------------------------------------------------------------
(* Properties. *)

TypeOK ==
    /\ now \in 0 .. MaxTime
    /\ readable \in [Sources -> BOOLEAN]
    /\ changed \in [Sources -> 0 .. MaxTime]
    /\ fault \in BOOLEAN /\ alive \in BOOLEAN
    /\ sound \in 0 .. MaxTime \cup {Never}
    /\ upsets \in 0 .. MaxUpsets
    /\ stage \in {"sleep", "ssh", "ufw", "store", "after"}
    /\ wake \in 0 .. MaxTime + Poll
    /\ started \in 0 .. MaxTime
    /\ report \in [Sources -> {"none", "ok", "failed"}]
    /\ lastRead \in [Sources -> 0 .. MaxTime \cup {Never}]
    /\ lastError \in [Sources -> BOOLEAN]
    /\ feed \subseteq Entry
    /\ samples \subseteq 0 .. MaxTime
    /\ cycle \in Nat

(* "a monitor that has silently stopped reading looks identical to a quiet  *)
(* network unless staleness is surfaced" (api.py:332): a source that could  *)
(* not be read for StaleAfter is not shown as healthy, also when the worker *)
(* is dead or no transaction commits.                                       *)
BlindnessShows ==
    \A s \in Sources :
        ~readable[s] /\ now - changed[s] > StaleAfter + MaxCycle => ~Healthy

(* A source that has been readable through two rounds of a sound worker is  *)
(* fresh and without error, whatever happens to the other one.              *)
SourcesAreIndependent ==
    \A s \in Sources :
        /\ readable[s] /\ now - changed[s] > 2 * (Poll + MaxCycle)
        /\ sound # Never /\ now - sound > 2 * (Poll + MaxCycle)
        => ~lastError[s] /\ ~Stale(s)

(* An outage that a sound worker has seen for two rounds is in the feed,    *)
(* under the hour it was seen in or, being announced once an hour, earlier  *)
(* in that hour; and it is there once an hour, whatever restarts.           *)
OutageIsAnnounced ==
    /\ \A s \in Sources :
        /\ ~readable[s] /\ now - changed[s] > 2 * (Poll + MaxCycle)
        /\ sound # Never /\ now - sound > 2 * (Poll + MaxCycle)
        => \E e \in feed : e.source = s /\ e.hour >= changed[s] \div Hour
    /\ \A e, f \in feed : e.source = f.source /\ e.hour = f.hour => e = f

(* A sound worker keeps the feed within its retention, but for the time     *)
(* between two sweeps.                                                      *)
FeedIsSwept ==
    sound # Never /\ now - sound > (PruneEvery + 1) * (Poll + MaxCycle) =>
        \A e \in feed : now - e.at <= Retention + (PruneEvery + 1) * (Poll + MaxCycle)

(* "Kept short (see prune)" (db.py:111).                                    *)
SamplesAreSwept ==
    sound # Never /\ now - sound > (PruneEvery + 1) * (Poll + MaxCycle) =>
        \A t \in samples : now - t <= SampleRetention + (PruneEvery + 1) * (Poll + MaxCycle)

-----------------------------------------------------------------------------
(* The inductive invariant.  Each property bounds a delay, and each bound is *)
(* the sum of what the rest of this cycle, a sleep and the next cycle take: *)
(* the invariant says, of each step, by when the next cycle has begun.      *)

Round == Poll + MaxCycle

Reading == stage \in {"ssh", "ufw", "store"}

(* The clock passes neither the end of a sleep nor that of a cycle.         *)
Timely ==
    /\ started <= now /\ sound <= now
    /\ \A s \in Sources : changed[s] <= now /\ lastRead[s] <= now
    /\ alive => IF stage = "sleep" THEN now <= wake /\ wake <= now + Poll
                ELSE now <= started + MaxCycle
    /\ ~alive => stage = "sleep"
    /\ sound # Never => alive /\ ~fault

(* What was read before an outage is stored within a cycle of it.           *)
NotReadSince ==
    \A s \in Sources : ~readable[s] =>
        /\ lastRead[s] <= changed[s] + MaxCycle
        /\ Reading /\ report[s] = "ok" => started <= changed[s]

(* This cycle's report on s is, or is going to be, about s as it is now.    *)
Reports(s, outcome) == \/ stage = "ssh"
                       \/ stage = "ufw" /\ s = "ufw"
                       \/ stage \in {"ufw", "store"} /\ report[s] = outcome

(* Since the later of t and u there has not been a whole cycle that saw s   *)
(* as it is, and the next one is near.                                      *)
Since(s, t) == IF changed[s] <= t THEN t ELSE changed[s]

Early(s, outcome) ==
    CASE stage = "sleep" -> wake <= Since(s, sound) + Round
      [] Reading -> /\ started <= Since(s, sound) + Round
                    /\ \/ started <= Since(s, sound)
                       \/ started >= changed[s] /\ Reports(s, outcome)
      [] OTHER -> started <= Since(s, sound)

Fresh(s) ==
    /\ ~lastError[s] /\ lastRead[s] # Never
    /\ CASE stage = "sleep" -> wake <= lastRead[s] + Round
         [] Reading -> started <= lastRead[s] + Round /\ Reports(s, "ok")
         [] OTHER -> started <= lastRead[s]

Announced(s) ==
    \E e \in feed :
        /\ e.source = s /\ e.hour >= changed[s] \div Hour
        /\ CASE stage = "sleep" -> TRUE
             [] Reading -> started >= changed[s] /\ Reports(s, "failed")
             [] OTHER -> e.hour = started \div Hour

SoundSources ==
    sound # Never =>
        \A s \in Sources : IF readable[s] THEN Fresh(s) \/ Early(s, "ok")
                           ELSE Announced(s) \/ Early(s, "failed")

(* An entry is written in a cycle that began in the hour of its key.        *)
KeysAreHours ==
    /\ \A e \in feed : e.at <= now /\ e.hour * Hour <= e.at
    /\ \A e, f \in feed : e.source = f.source /\ e.hour = f.hour => e = f

(* The latest the next sweep can be: so many rounds from the next cycle's   *)
(* beginning, or this one's.                                                *)
SweptBy == (IF stage = "sleep" THEN wake ELSE started)
             + MaxCycle + (PruneEvery - 1 - (cycle % PruneEvery)) * Round

SweepIsNear ==
    sound # Never =>
        \E t \in 0 .. now :
            /\ SweptBy <= t + PruneEvery * Round
            /\ t = sound \/ \A e \in feed : e.at >= t - Retention

IngestorInv == TypeOK /\ Timely /\ NotReadSince /\ SoundSources /\ KeysAreHours /\ SweepIsNear

=============================================================================
