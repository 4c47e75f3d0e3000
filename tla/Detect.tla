------------------------------- MODULE Detect -------------------------------
(***************************************************************************)
(* From stored lines to alerts and the feed: the write transaction of      *)
(* run_once with its detectors (detect.py), upsert_alert and emit, the     *)
(* classification of logins, and the retention sweep.                      *)
(*                                                                         *)
(* db is the committed database, txn the working copy of the cycle in      *)
(* progress.  The two detectors share one shape and are one set of actions *)
(* here: they differ in the lines they count, in what they count of them   *)
(* and in their parameters.  A line is identified by its (inode,           *)
(* byte_offset) key, which LogTail is about; times are whole seconds.      *)
(***************************************************************************)
EXTENDS Integers, FiniteSets

CONSTANTS
    Ips,
    Lines,          \* the parsed lines of the two logs
    Window,         \* detector -> window_seconds
    Cooldown,       \* detector -> cooldown_seconds
    Threshold,      \* detector -> threshold, distinct_ports
    LoginWindow,    \* how recent an attack makes a login suspicious (1 hour)
    Retention,      \* retention_days
    MaxTime,        \* bound: the wall clock
    InOrder         \* cycles read each line once, in time order, after it happened

Detectors == {"ssh_bruteforce", "port_scan"}

(* COUNTING_KINDS is "failure"; "notice" is the invalid_user precursor. *)
LineKinds == {"failure", "notice", "accepted", "probe"}

ASSUME DetectAssumption ==
    /\ IsFiniteSet(Lines)
    /\ \A l \in Lines : /\ l.kind \in LineKinds
                        /\ l.ip \in Ips
                        /\ l.ts \in Int
    /\ Window \in [Detectors -> Nat]
    /\ Cooldown \in [Detectors -> Nat]
    /\ Threshold \in [Detectors -> Nat]
    /\ LoginWindow \in Nat /\ Retention \in Nat /\ MaxTime \in Nat
    /\ InOrder \in BOOLEAN

(* The defaults of config.py are 600 and 600, 60 and 300. *)
ASSUME CooldownCoversWindow == \A k \in Detectors : Window[k] <= Cooldown[k]

VARIABLES
    now,    \* the wall clock
    db,     \* the committed tables
    txn,    \* the tables as the running cycle sees them
    busy,   \* a cycle is running
    todo,   \* the <<detector, ip>> pairs it has yet to evaluate
    logins  \* the accepted logins it has yet to record

vars == <<now, db, txn, busy, todo, logins>>

(* alerts, the feed entries that announce them (dedupe key alert:<id>) and  *)
(* those of logins (dedupe key login:<inode>:<byte_offset>).                *)
Alert        == [id : Nat, kind : Detectors, ip : Ips,
                 first : Int, last : Int, count : Nat]
Announcement == [id : Nat, kind : Detectors, ip : Ips, ts : Int]
LoginEntry   == [line : Lines, attacked : BOOLEAN]

Database == [rows : SUBSET Lines,   \* ssh_events and scan_events
             read : SUBSET Lines,   \* what lies behind the saved positions
             alerts : SUBSET Alert,
             announced : SUBSET Announcement,
             logins : SUBSET LoginEntry]

EmptyDatabase == [rows |-> {}, read |-> {}, alerts |-> {}, announced |-> {},
                  logins |-> {}]

Init ==
    /\ now = 0
    /\ db = EmptyDatabase
    /\ txn = EmptyDatabase
    /\ busy = FALSE
    /\ todo = {}
    /\ logins = {}

-----------------------------------------------------------------------------
(* What the detectors ask of the tables. *)

Detector(l) == IF l.kind = "probe" THEN "port_scan" ELSE "ssh_bruteforce"

Counting(d, k, ip) ==
    {r \in d.rows : r.ip = ip /\ r.kind \in {"failure", "probe"} /\ Detector(r) = k}

Between(S, from, to) == {r \in S : from <= r.ts /\ r.ts <= to}

Newest(S) == {t \in {r.ts : r \in S} : \A r \in S : r.ts <= t}
Oldest(S) == {t \in {r.ts : r \in S} : \A r \in S : t <= r.ts}

(* The failures are counted, the probes by distinct destination port. *)
Strength(k, S) == IF k = "port_scan" THEN Cardinality({r.port : r \in S})
                                     ELSE Cardinality(S)

(* Mutant: a window without its lower end. *)
EverythingUpTo(d, k, ip, anchor) == {r \in Counting(d, k, ip) : r.ts <= anchor}

WindowAt(d, k, ip, anchor) == Between(Counting(d, k, ip), anchor - Window[k], anchor)

Fires(d, k, ip, anchor) == Strength(k, WindowAt(d, k, ip, anchor)) >= Threshold[k]

(* Mutant: the cutoff of the cooldown itself is excluded. *)
StrictlyWithinCooldown(d, k, ip, anchor) ==
    {a \in d.alerts : a.kind = k /\ a.ip = ip /\ a.last > anchor - Cooldown[k]}

(* Both queries for the open alert: within the cooldown, newest first. *)
WithinCooldown(d, k, ip, anchor) ==
    {a \in d.alerts : a.kind = k /\ a.ip = ip /\ a.last >= anchor - Cooldown[k]}

OpenAlerts(d, k, ip, anchor) ==
    {a \in WithinCooldown(d, k, ip, anchor) :
        \A b \in WithinCooldown(d, k, ip, anchor) : b.last <= a.last}

(* An INTEGER PRIMARY KEY without AUTOINCREMENT: one more than the largest. *)
NewIds(alerts) == {n \in {1} \cup {a.id + 1 : a \in alerts} : \A a \in alerts : a.id < n}

Lesser(x, y)  == IF x <= y THEN x ELSE y
Greater(x, y) == IF x <= y THEN y ELSE x

-----------------------------------------------------------------------------
(* The cycle. *)

InOrderBatch(batch) ==
    /\ batch \cap db.read = {}
    /\ \A r \in batch : /\ r.ts <= now
                        /\ \A s \in Lines \ (db.read \cup batch) : r.ts <= s.ts

(* The lines read become rows, INSERT OR IGNORE, and their addresses        *)
(* candidates.  A cycle that reads nothing does not touch these tables.     *)
Begin(batch) ==
    /\ ~busy /\ batch # {}
    /\ InOrder => InOrderBatch(batch)
    /\ busy' = TRUE
    /\ txn' = [db EXCEPT !.rows = @ \cup batch, !.read = @ \cup batch]
    /\ todo' = {<<Detector(r), r.ip>> : r \in batch}
    /\ logins' = {r \in batch : r.kind = "accepted"}
    /\ UNCHANGED <<now, db>>

Evaluate(k, ip) ==
    /\ busy /\ <<k, ip>> \in todo
    /\ todo' = todo \ {<<k, ip>>}
    /\ UNCHANGED <<now, db, busy, logins>>

(* No counting row, or too few of them in the window of the newest. *)
Pass(k, ip) ==
    /\ Evaluate(k, ip)
    /\ \A anchor \in Newest(Counting(txn, k, ip)) : ~Fires(txn, k, ip, anchor)
    /\ txn' = txn

(* No alert within the cooldown: a new one over the window, and its event. *)
Raise(k, ip) ==
    /\ Evaluate(k, ip)
    /\ \E anchor \in Newest(Counting(txn, k, ip)) :
       \E first \in Oldest(WindowAt(txn, k, ip, anchor)), id \in NewIds(txn.alerts) :
        /\ Fires(txn, k, ip, anchor)
        /\ WithinCooldown(txn, k, ip, anchor) = {}
        /\ txn' = [txn EXCEPT
             !.alerts = @ \cup {[id |-> id, kind |-> k, ip |-> ip,
                                 first |-> first, last |-> anchor,
                                 count |-> Cardinality(WindowAt(txn, k, ip, anchor))]},
             !.announced = IF \E e \in @ : e.id = id THEN @
                           ELSE @ \cup {[id |-> id, kind |-> k, ip |-> ip, ts |-> anchor]}]

(* Mutants: the open alert's end, or its start, is not what MIN and MAX say. *)
EscalateKeepsEnd(k, ip) ==
    /\ Evaluate(k, ip)
    /\ \E anchor \in Newest(Counting(txn, k, ip)) :
       \E open \in OpenAlerts(txn, k, ip, anchor) :
        /\ Fires(txn, k, ip, anchor)
        /\ txn' = [txn EXCEPT !.alerts = (@ \ {open}) \cup
                     {[open EXCEPT !.count = Cardinality(WindowAt(txn, k, ip, anchor))]}]

EscalateMovesStart(k, ip) ==
    /\ Evaluate(k, ip)
    /\ \E anchor \in Newest(Counting(txn, k, ip)) :
       \E open \in OpenAlerts(txn, k, ip, anchor) :
       \E first \in Oldest(WindowAt(txn, k, ip, anchor)) :
        /\ Fires(txn, k, ip, anchor)
        /\ txn' = [txn EXCEPT !.alerts = (@ \ {open}) \cup
                     {[open EXCEPT !.first = first, !.last = anchor,
                          !.count = Cardinality(WindowAt(txn, k, ip, anchor))]}]

(* Mutant: the total is that of the window, not of the incident. *)
EscalateCountsWindow(k, ip) ==
    /\ Evaluate(k, ip)
    /\ \E anchor \in Newest(Counting(txn, k, ip)) :
       \E open \in OpenAlerts(txn, k, ip, anchor) :
        /\ Fires(txn, k, ip, anchor)
        /\ txn' = [txn EXCEPT !.alerts = (@ \ {open}) \cup
                     {[open EXCEPT !.last = Greater(@, anchor),
                          !.count = Cardinality(WindowAt(txn, k, ip, anchor))]}]

(* The open alert is extended, and re-counted from the start of its span or *)
(* of the window, whichever is earlier.                                     *)
Escalate(k, ip) ==
    /\ Evaluate(k, ip)
    /\ \E anchor \in Newest(Counting(txn, k, ip)) :
       \E open \in OpenAlerts(txn, k, ip, anchor) :
        LET from     == Lesser(open.first, anchor - Window[k])
            incident == Between(Counting(txn, k, ip), from, anchor)
        IN /\ Fires(txn, k, ip, anchor)
           /\ \E first \in Oldest(incident) :
                txn' = [txn EXCEPT !.alerts = (@ \ {open}) \cup
                          {[open EXCEPT !.first = Lesser(@, first),
                                        !.last = Greater(@, anchor),
                                        !.count = Cardinality(incident)]}]

(* Mutant: logins are classified before detection is through. *)
RecordLoginEarly(l) ==
    /\ busy /\ l \in logins
    /\ logins' = logins \ {l}
    /\ LET attacked == \E a \in txn.alerts : a.ip = l.ip /\ a.last >= now - LoginWindow
       IN txn' = [txn EXCEPT !.logins =
                    IF \E e \in @ : e.line = l THEN @
                    ELSE @ \cup {[line |-> l, attacked |-> attacked]}]
    /\ UNCHANGED <<now, db, busy, todo>>

(* _record_logins, after detection: any alert of the address, of either     *)
(* kind, seen within LoginWindow of the wall clock.                         *)
RecordLogin(l) ==
    /\ busy /\ todo = {} /\ l \in logins
    /\ logins' = logins \ {l}
    /\ LET attacked == \E a \in txn.alerts : a.ip = l.ip /\ a.last >= now - LoginWindow
       IN txn' = [txn EXCEPT !.logins =
                    IF \E e \in @ : e.line = l THEN @
                    ELSE @ \cup {[line |-> l, attacked |-> attacked]}]
    /\ UNCHANGED <<now, db, busy, todo>>

Commit ==
    /\ busy /\ todo = {} /\ logins = {}
    /\ db' = txn
    /\ busy' = FALSE
    /\ UNCHANGED <<now, txn, todo, logins>>

(* Mutant: the working copy survives the exception. *)
AbortWithoutRollback ==
    /\ busy
    /\ busy' = FALSE
    /\ todo' = {} /\ logins' = {}
    /\ UNCHANGED <<now, db, txn>>

(* An exception or a crash before the commit rolls the cycle back. *)
Abort ==
    /\ busy
    /\ txn' = db
    /\ busy' = FALSE
    /\ todo' = {} /\ logins' = {}
    /\ UNCHANGED <<now, db>>

-----------------------------------------------------------------------------
(* Mutants: the sweep forgets the alerts, or the feed. *)
PrunedButAlerts(d, cutoff) ==
    [d EXCEPT !.rows      = {r \in @ : r.ts >= cutoff},
              !.announced = {e \in @ : e.ts >= cutoff},
              !.logins    = {e \in @ : e.line.ts >= cutoff}]

PrunedButFeed(d, cutoff) ==
    [d EXCEPT !.rows   = {r \in @ : r.ts >= cutoff},
              !.alerts = {a \in @ : a.last >= cutoff}]

(* prune: four DELETEs with one cutoff, in one transaction between cycles. *)
Pruned(d, cutoff) ==
    [d EXCEPT !.rows      = {r \in @ : r.ts >= cutoff},
              !.alerts    = {a \in @ : a.last >= cutoff},
              !.announced = {e \in @ : e.ts >= cutoff},
              !.logins    = {e \in @ : e.line.ts >= cutoff}]

Prune ==
    /\ ~busy
    /\ db' = Pruned(db, now - Retention)
    /\ txn' = db'
    /\ UNCHANGED <<now, busy, todo, logins>>

Tick ==
    /\ now < MaxTime
    /\ now' = now + 1
    /\ UNCHANGED <<db, txn, busy, todo, logins>>

Next == \/ \E batch \in SUBSET Lines : Begin(batch)
        \/ \E k \in Detectors, ip \in Ips :
              Pass(k, ip) \/ Raise(k, ip) \/ Escalate(k, ip)
        \/ \E l \in Lines : RecordLogin(l)
        \/ Commit \/ Abort \/ Prune \/ Tick

Spec == Init /\ [][Next]_vars

-----------------------------------------------------------------------------
(* Properties. *)

TypeOK ==
    /\ now \in 0 .. MaxTime
    /\ db \in Database
    /\ txn \in Database
    /\ busy \in BOOLEAN
    /\ todo \subseteq Detectors \X Ips
    /\ logins \subseteq Lines

(* Every alert is backed by a row: its last_seen is the time of a stored    *)
(* line that its detector counts, also after any retention sweep.           *)
AlertsHaveEvidence(d) ==
    \A a \in d.alerts :
        /\ a.first <= a.last
        /\ \E r \in Counting(d, a.kind, a.ip) : r.ts = a.last

AlertBackedByEvidence == AlertsHaveEvidence(db)

(* One incident is one alert: two alerts of one kind about one address have *)
(* different ids and do not overlap in time, so escalation never leaves a   *)
(* duplicate behind (detect.py, "escalates an open alert instead of         *)
(* creating another one").                                                  *)
Precedes(a, b) == a.last < b.first
SameSubject(a, b) == a.kind = b.kind /\ a.ip = b.ip

IncidentsDisjoint ==
    \A a, b \in db.alerts : a # b =>
        /\ a.id # b.id
        /\ SameSubject(a, b) => Precedes(a, b) \/ Precedes(b, a)

(* An entry of the feed that names an alert by its id names the alert it    *)
(* announced: ids are given again after a sweep, yet never while an entry   *)
(* with the old meaning is left to swallow the new announcement.            *)
EntriesNameTheirAlert(d) ==
    \A e \in d.announced :
        \E a \in d.alerts : a.id = e.id /\ SameSubject(a, e) /\ e.ts <= a.last

FeedMatchesAlerts == EntriesNameTheirAlert(db)

(* Detection is never behind: whenever the window that ends in the newest   *)
(* row of an address reaches the threshold, an alert reaches to that row.   *)
CaughtUp(d, k, ip) ==
    \A anchor \in Newest(Counting(d, k, ip)) :
        Fires(d, k, ip, anchor) =>
            \E a \in d.alerts : a.kind = k /\ a.ip = ip /\ a.last = anchor

DetectionUpToDate == \A k \in Detectors, ip \in Ips : CaughtUp(db, k, ip)

(* Every stored accepted login has exactly one entry in the feed, and every *)
(* login entry its row.                                                     *)
LoginsMatchRows ==
    /\ {e.line : e \in db.logins} = {r \in db.rows : r.kind = "accepted"}
    /\ \A e, f \in db.logins : e.line = f.line => e = f

(* Totals are evidence: no row is counted twice in an alert, however often  *)
(* its lines are read, and the total of an incident that is still on misses *)
(* none of the rows stored for its span, those that arrived late or out of  *)
(* order included.                                                          *)
Span(S, a) == Between({r \in S : r.ip = a.ip /\ r.kind \in {"failure", "probe"}
                                  /\ Detector(r) = a.kind}, a.first, a.last)

TotalsBacked(d, pairs) ==
    \A a \in d.alerts :
        /\ a.count <= Cardinality(Span(d.read, a))
        /\ /\ <<a.kind, a.ip>> \notin pairs
           /\ a.last \in Newest(Counting(d, a.kind, a.ip)) /\ Fires(d, a.kind, a.ip, a.last)
           => a.count >= Cardinality(Span(d.rows, a))

TotalsAreEvidence == TotalsBacked(db, {})

(* No breach slips by as routine: when a cycle files a login as an ordinary *)
(* one, then, with everything that this cycle itself detected, no alert of  *)
(* the address has moved within the hour; and one filed as a breach has its *)
(* alert in the same commit.                                                *)
NoBreachSlipsBy ==
    [][\A e \in db'.logins \ db.logins :
          IF e.attacked THEN \E a \in db'.alerts : a.ip = e.line.ip
          ELSE \A a \in db'.alerts : a.ip = e.line.ip => a.last < now - LoginWindow]_vars

(* A cycle that leaves a new alert behind leaves its announcement with it.  *)
NewAlertIsAnnounced ==
    [][\A a \in db'.alerts :
          \/ \E b \in db.alerts : b.id = a.id
          \/ \E e \in db'.announced : e.id = a.id /\ SameSubject(a, e)]_vars

(* An alert about an address appears only in a cycle that had, within the   *)
(* window, the rows that the rule asks for.                                 *)
NewAlertIsJustified ==
    [][\A a \in db'.alerts :
          \/ \E b \in db.alerts : b.id = a.id
          \/ /\ Strength(a.kind, Between(Counting(db', a.kind, a.ip), a.first, a.last))
                    >= Threshold[a.kind]
             /\ a.last - a.first <= Window[a.kind]]_vars

(* Known alerts only grow: no cycle shortens an incident or hands an id to  *)
(* another address; only a sweep removes alerts, and then oldest first.     *)
AlertsOnlyGrow ==
    [][\A a \in db.alerts :
          \/ \E b \in db'.alerts : /\ b.id = a.id /\ SameSubject(a, b)
                                   /\ b.first <= a.first /\ b.last >= a.last
          \/ a.last < now - Retention]_vars

-----------------------------------------------------------------------------
(* The inductive invariant: the properties of the tables hold of txn as of  *)
(* db, up to what the running cycle still has on its lists.  Two alerts of  *)
(* one subject are apart not only as intervals: the later one has left the  *)
(* window of the earlier one behind, so that escalation, which reaches back *)
(* one window, cannot touch it.                                             *)

Apart(a, b) == a.last < b.first /\ a.last + Window[a.kind] < b.last

AlertsApart(d) ==
    \A a, b \in d.alerts : a # b =>
        /\ a.id # b.id
        /\ SameSubject(a, b) => Apart(a, b) \/ Apart(b, a)

LoginsRecorded(d, pending) ==
    /\ pending \subseteq {r \in d.rows : r.kind = "accepted"}
    /\ \A e \in d.logins : e.line \in d.rows /\ e.line.kind = "accepted"
    /\ \A r \in d.rows : r.kind = "accepted" =>
            r \in pending \/ \E e \in d.logins : e.line = r
    /\ \A e, f \in d.logins : e.line = f.line => e = f

TablesConsistent(d, pairs, pending) ==
    /\ AlertsHaveEvidence(d)
    /\ AlertsApart(d)
    /\ EntriesNameTheirAlert(d)
    /\ \A k \in Detectors, ip \in Ips : <<k, ip>> \in pairs \/ CaughtUp(d, k, ip)
    /\ LoginsRecorded(d, pending)

NewAlertsAnnounced ==
    \A a \in txn.alerts :
        \/ \E b \in db.alerts : b.id = a.id
        \/ \E e \in txn.announced : e.id = a.id /\ SameSubject(a, e)

IInv ==
    /\ TypeOK
    /\ TablesConsistent(db, {}, {})
    /\ TablesConsistent(txn, todo, logins)
    /\ NewAlertsAnnounced
    /\ ~busy => txn = db /\ todo = {} /\ logins = {}

(* What the running cycle has made of the committed tables so far, for what *)
(* may become of them in one commit: their alerts grow; an alert that is    *)
(* new has the rows of its rule, and its subject is evaluated only once; a  *)
(* login is filed when no alert can move any more.                          *)
AlertsGrown ==
    \A a \in db.alerts :
        \E b \in txn.alerts : /\ b.id = a.id /\ SameSubject(a, b)
                             /\ b.first <= a.first /\ b.last >= a.last

NewAlertsJustified ==
    \A a \in txn.alerts :
        \/ \E b \in db.alerts : b.id = a.id
        \/ /\ <<a.kind, a.ip>> \notin todo
           /\ Strength(a.kind, Between(Counting(txn, a.kind, a.ip), a.first, a.last))
                  >= Threshold[a.kind]
           /\ a.last - a.first <= Window[a.kind]

LoginsFiled ==
    \A e \in txn.logins \ db.logins :
        /\ todo = {}
        /\ IF e.attacked THEN \E a \in txn.alerts : a.ip = e.line.ip
           ELSE \A a \in txn.alerts : a.ip = e.line.ip => a.last < now - LoginWindow

(* Rows are of lines that were read; totals are backed, but for what the    *)
(* cycle has yet to evaluate.                                               *)
RowsCounted(d, pairs) == d.rows \subseteq d.read /\ TotalsBacked(d, pairs)

DetectInv ==
    /\ IInv
    /\ AlertsGrown /\ NewAlertsJustified /\ LoginsFiled
    /\ RowsCounted(db, {}) /\ RowsCounted(txn, todo)

-----------------------------------------------------------------------------
(* What comments and the README say beyond that. *)

(* "keeps the rules correct when backfilling an existing log"               *)
(* (detect.py:10-12): once a cycle is through, every row at which the rule  *)
(* was met lies in an alert.                                                *)
EveryBurstAlerted ==
    \A k \in Detectors, ip \in Ips : \A r \in Counting(db, k, ip) :
        Fires(db, k, ip, r.ts) =>
            \E a \in db.alerts : /\ a.kind = k /\ a.ip = ip
                                 /\ a.first <= r.ts /\ r.ts <= a.last

(* "a successful login from an address that was attacking moments ago"      *)
(* (events.py:34-36): the attack came before the login.                     *)
AfterAttackMeansAfter ==
    \A e \in db.logins : e.attacked =>
        \E r \in db.rows : /\ r.kind \in {"failure", "probe"}
                           /\ r.ip = e.line.ip /\ r.ts <= e.line.ts

(* "A login from an address that tripped an alert within the last hour"     *)
(* (ingest.py:218) is flagged, the ones of a backlog included.              *)
BreachIsFlagged ==
    \A e \in db.logins :
        (\E a \in db.alerts : /\ a.ip = e.line.ip
                              /\ a.last <= e.line.ts /\ a.last >= e.line.ts - LoginWindow)
            => e.attacked

(* "the alert reports totals across the whole incident" (detect.py:18-21):  *)
(* the total of an incident never goes down.                                *)
TotalsNeverShrink ==
    [][\A a \in db.alerts, b \in db'.alerts :
          a.id = b.id /\ SameSubject(a, b) /\ a.first = b.first => a.count <= b.count]_vars

=============================================================================
