---------------------------- MODULE DetectProofs ----------------------------
(***************************************************************************)
(* Theorems about Detect, for every log, every threshold and window, every *)
(* retention and every interleaving of cycles, crashes and sweeps.         *)
(***************************************************************************)
EXTENDS Queries, OrderedProofs

(* Rows are finite, and so is whatever is selected from them. *)
LEMMA SelectionsAreFinite ==
    ASSUME NEW d \in Database, NEW k \in Detectors, NEW ip \in Ips,
           NEW from \in Int, NEW to \in Int
    PROVE  LET S == Between(Counting(d, k, ip), from, to)
           IN IsFiniteSet(S) /\ Cardinality(S) \in Nat
<1> DEFINE S == Between(Counting(d, k, ip), from, to)
<1>1. S \subseteq Lines
  BY DEF Between, Counting, Database
<1>2. IsFiniteSet(S)
  BY <1>1, FS_Subset, DetectAssumption
<1> QED
  BY <1>2, FS_CardinalityType

(* The times of counting rows are integers, and those of a selection of     *)
(* them lie between its bounds.                                             *)
LEMMA TimesOfSelections ==
    ASSUME NEW d \in Database, NEW k \in Detectors, NEW ip \in Ips
    PROVE  /\ \A t \in Newest(Counting(d, k, ip)) : t \in Int
           /\ \A from \in Int, to \in Int :
                \A t \in Oldest(Between(Counting(d, k, ip), from, to)) :
                    t \in Int /\ from <= t /\ t <= to
  BY DetectAssumption DEF Newest, Oldest, Between, Counting, Database

(* Windows, cooldowns and thresholds are naturals, a window no longer than *)
(* its cooldown.                                                           *)
LEMMA ParametersAreIntegers ==
    \A k \in Detectors : /\ Window[k] \in Nat /\ Cooldown[k] \in Nat
                         /\ Threshold[k] \in Nat /\ Window[k] <= Cooldown[k]
  BY DetectAssumption, CooldownCoversWindow

(* What Raise does, with its choices named. *)
LEMMA RaiseMakes ==
    ASSUME TypeOK, NEW k \in Detectors, NEW ip \in Ips, Raise(k, ip)
    PROVE  \E anchor \in Newest(Counting(txn, k, ip)), first \in Int, id \in Nat, count \in Nat :
             /\ first \in Oldest(WindowAt(txn, k, ip, anchor))
             /\ id \in NewIds(txn.alerts)
             /\ anchor \in Int
             /\ anchor - Window[k] <= first /\ first <= anchor
             /\ Fires(txn, k, ip, anchor)
             /\ WithinCooldown(txn, k, ip, anchor) = {}
             /\ count = Cardinality(WindowAt(txn, k, ip, anchor))
             /\ txn'.rows = txn.rows /\ txn'.read = txn.read
             /\ txn'.logins = txn.logins
             /\ txn'.alerts = txn.alerts \cup
                    {[id |-> id, kind |-> k, ip |-> ip,
                      first |-> first, last |-> anchor, count |-> count]}
             /\ txn'.announced = IF \E e \in txn.announced : e.id = id
                                 THEN txn.announced
                                 ELSE txn.announced \cup
                                   {[id |-> id, kind |-> k, ip |-> ip, ts |-> anchor]}
             /\ txn' \in Database
<1> USE ParametersAreIntegers
<1> DEFINE Outcome(anchor, first, id) ==
        /\ Fires(txn, k, ip, anchor)
        /\ WithinCooldown(txn, k, ip, anchor) = {}
        /\ txn' = [txn EXCEPT
             !.alerts = @ \cup {[id |-> id, kind |-> k, ip |-> ip,
                                 first |-> first, last |-> anchor,
                                 count |-> Cardinality(WindowAt(txn, k, ip, anchor))]},
             !.announced = IF \E e \in @ : e.id = id THEN @
                           ELSE @ \cup {[id |-> id, kind |-> k, ip |-> ip, ts |-> anchor]}]
<1>a. PICK anchor \in Newest(Counting(txn, k, ip)) :
        \E first \in Oldest(WindowAt(txn, k, ip, anchor)), id \in NewIds(txn.alerts) :
            Outcome(anchor, first, id)
  BY DEF Raise
<1>b. PICK first \in Oldest(WindowAt(txn, k, ip, anchor)), id \in NewIds(txn.alerts) :
            Outcome(anchor, first, id)
  BY <1>a
<1>1. Outcome(anchor, first, id)
  BY <1>b
<1> DEFINE count == Cardinality(WindowAt(txn, k, ip, anchor))
<1>2. txn \in Database
  BY DEF TypeOK
<1>3. anchor \in Int /\ anchor - Window[k] \in Int
  BY <1>2, TimesOfSelections
<1>4. first \in Int /\ anchor - Window[k] <= first /\ first <= anchor
  BY <1>2, <1>3, TimesOfSelections DEF WindowAt
<1>5. count \in Nat
  BY <1>2, <1>3, SelectionsAreFinite DEF WindowAt
<1>6. id \in Nat
  BY <1>2 DEF NewIds, Database, Alert
<1> DEFINE alert == [id |-> id, kind |-> k, ip |-> ip,
                     first |-> first, last |-> anchor, count |-> count]
           news  == IF \E e \in txn.announced : e.id = id THEN txn.announced
                    ELSE txn.announced \cup
                           {[id |-> id, kind |-> k, ip |-> ip, ts |-> anchor]}
<1>7. txn' = [txn EXCEPT !.alerts = txn.alerts \cup {alert}, !.announced = news]
  BY <1>1
<1>8. txn.alerts \cup {alert} \in SUBSET Alert /\ news \in SUBSET Announcement
  BY <1>2, <1>3, <1>4, <1>5, <1>6 DEF Database, Alert, Announcement
<1> HIDE DEF alert, news
<1>9. /\ txn' \in Database
      /\ txn'.rows = txn.rows /\ txn'.read = txn.read /\ txn'.logins = txn.logins
      /\ txn'.alerts = txn.alerts \cup {alert} /\ txn'.announced = news
  BY <1>2, <1>7, <1>8 DEF Database
<1> QED
  BY <1>1, <1>3, <1>4, <1>5, <1>6, <1>9 DEF alert, news

(* What Escalate does, with its choices named. *)
LEMMA EscalateMakes ==
    ASSUME TypeOK, NEW k \in Detectors, NEW ip \in Ips, Escalate(k, ip)
    PROVE  \E anchor \in Newest(Counting(txn, k, ip)),
              open \in Alert, grown \in Alert, first \in Int :
             /\ open \in OpenAlerts(txn, k, ip, anchor)
             /\ anchor \in Int
             /\ Lesser(open.first, anchor - Window[k]) <= first /\ first <= anchor
             /\ first \in Oldest(Between(Counting(txn, k, ip),
                                         Lesser(open.first, anchor - Window[k]), anchor))
             /\ grown.id = open.id /\ grown.kind = k /\ grown.ip = ip
             /\ grown.first = Lesser(open.first, first)
             /\ grown.last = Greater(open.last, anchor)
             /\ grown.count = Cardinality(Between(Counting(txn, k, ip),
                                  Lesser(open.first, anchor - Window[k]), anchor))
             /\ txn'.rows = txn.rows /\ txn'.read = txn.read
             /\ txn'.logins = txn.logins /\ txn'.announced = txn.announced
             /\ txn'.alerts = (txn.alerts \ {open}) \cup {grown}
             /\ txn' \in Database
<1> USE ParametersAreIntegers
<1> DEFINE From(anchor, open) == Lesser(open.first, anchor - Window[k])
           Incident(anchor, open) == Between(Counting(txn, k, ip), From(anchor, open), anchor)
           Grown(anchor, open, first) ==
             [open EXCEPT !.first = Lesser(@, first),
                          !.last = Greater(@, anchor),
                          !.count = Cardinality(Incident(anchor, open))]
           Outcome(anchor, open, first) ==
             txn' = [txn EXCEPT !.alerts = (@ \ {open}) \cup {Grown(anchor, open, first)}]
<1>1. PICK anchor \in Newest(Counting(txn, k, ip)) :
        \E open \in OpenAlerts(txn, k, ip, anchor) :
        \E first \in Oldest(Incident(anchor, open)) : Outcome(anchor, open, first)
  BY DEF Escalate
<1>2. PICK open \in OpenAlerts(txn, k, ip, anchor) :
        \E first \in Oldest(Incident(anchor, open)) : Outcome(anchor, open, first)
  BY <1>1
<1>3. PICK first \in Oldest(Incident(anchor, open)) : Outcome(anchor, open, first)
  BY <1>2
<1>4. txn \in Database
  BY DEF TypeOK
<1>5. open \in Alert /\ open.kind = k /\ open.ip = ip
  BY <1>4 DEF OpenAlerts, WithinCooldown, Database
<1>6. anchor \in Int
  BY <1>4, TimesOfSelections
<1>7. From(anchor, open) \in Int
  BY <1>5, <1>6 DEF Lesser, Alert
<1>8. first \in Int /\ From(anchor, open) <= first /\ first <= anchor
  BY <1>3, <1>4, <1>6, <1>7, TimesOfSelections
<1> DEFINE count == Cardinality(Incident(anchor, open))
           grown == Grown(anchor, open, first)
<1>9. count \in Nat
  BY <1>4, <1>6, <1>7, SelectionsAreFinite
<1>10. Lesser(open.first, first) \in Int /\ Greater(open.last, anchor) \in Int
  BY <1>5, <1>6, <1>8 DEF Alert, Lesser, Greater
<1>11. /\ grown \in Alert
       /\ grown.id = open.id /\ grown.kind = k /\ grown.ip = ip
       /\ grown.first = Lesser(open.first, first)
       /\ grown.last = Greater(open.last, anchor)
       /\ grown.count = count
  <2> HIDE DEF count
  <2> QED
    BY <1>5, <1>9, <1>10 DEF Alert, count
<1> HIDE DEF grown
<1>12. txn' = [txn EXCEPT !.alerts = (txn.alerts \ {open}) \cup {grown}]
  BY <1>3 DEF grown
<1>13. (txn.alerts \ {open}) \cup {grown} \in SUBSET Alert
  BY <1>4, <1>11 DEF Database
<1>14. /\ txn' \in Database
       /\ txn'.rows = txn.rows /\ txn'.read = txn.read /\ txn'.logins = txn.logins
       /\ txn'.announced = txn.announced
       /\ txn'.alerts = (txn.alerts \ {open}) \cup {grown}
  BY <1>4, <1>12, <1>13 DEF Database
<1> QED
  BY <1>5, <1>6, <1>8, <1>11, <1>14

(* A new row, a recorded login or a sweep yields a database again. *)
LEMMA DatabaseSteps ==
    ASSUME NEW d \in Database
    PROVE  /\ \A batch \in SUBSET Lines :
                [d EXCEPT !.rows = @ \cup batch, !.read = @ \cup batch] \in Database
           /\ \A L \in SUBSET LoginEntry : [d EXCEPT !.logins = L] \in Database
           /\ \A cutoff \in Int : Pruned(d, cutoff) \in Database
  BY DEF Database, Pruned

(* Every variable keeps its type. *)
THEOREM TypeCorrect == Spec => []TypeOK
<1>1. Init => TypeOK
  <2>1. EmptyDatabase \in Database
    BY DEF EmptyDatabase, Database
  <2>2. 0 \in 0 .. MaxTime
    BY DetectAssumption
  <2> QED
    BY <2>1, <2>2 DEF Init, TypeOK
<1>2. TypeOK /\ [Next]_vars => TypeOK'
  <2> SUFFICES ASSUME TypeOK, [Next]_vars
               PROVE  TypeOK'
    OBVIOUS
  <2>1. ASSUME NEW batch \in SUBSET Lines, Begin(batch)
        PROVE  TypeOK'
    <3>1. txn' \in Database
      BY <2>1, DatabaseSteps DEF Begin, TypeOK
    <3>2. todo' \subseteq Detectors \X Ips
      BY <2>1, DetectAssumption DEF Begin, Detector, Detectors
    <3> QED
      BY <2>1, <3>1, <3>2 DEF Begin, TypeOK
  <2>2. ASSUME NEW k \in Detectors, NEW ip \in Ips, Pass(k, ip)
        PROVE  TypeOK'
    BY <2>2 DEF Pass, Evaluate, TypeOK
  <2>3. ASSUME NEW k \in Detectors, NEW ip \in Ips, Raise(k, ip)
        PROVE  TypeOK'
    <3>1. txn' \in Database
      BY <2>3, RaiseMakes
    <3> QED
      BY <2>3, <3>1 DEF Raise, Evaluate, TypeOK
  <2>4. ASSUME NEW k \in Detectors, NEW ip \in Ips, Escalate(k, ip)
        PROVE  TypeOK'
    <3>1. txn' \in Database
      BY <2>4, EscalateMakes
    <3> QED
      BY <2>4, <3>1 DEF Escalate, Evaluate, TypeOK
  <2>5. ASSUME NEW l \in Lines, RecordLogin(l)
        PROVE  TypeOK'
    <3> DEFINE attacked == \E a \in txn.alerts : a.ip = l.ip /\ a.last >= now - LoginWindow
               L == IF \E e \in txn.logins : e.line = l THEN txn.logins
                    ELSE txn.logins \cup {[line |-> l, attacked |-> attacked]}
    <3>1. attacked \in BOOLEAN
      OBVIOUS
    <3> HIDE DEF attacked
    <3>2. L \in SUBSET LoginEntry
      BY <3>1 DEF TypeOK, Database, LoginEntry
    <3>3. txn' = [txn EXCEPT !.logins = L]
      BY <2>5 DEF RecordLogin, attacked
    <3>4. txn' \in Database
      BY <3>2, <3>3, DatabaseSteps DEF TypeOK
    <3> QED
      BY <2>5, <3>4 DEF RecordLogin, TypeOK
  <2>6. CASE Commit
    BY <2>6 DEF Commit, TypeOK
  <2>7. CASE Abort
    BY <2>7 DEF Abort, TypeOK
  <2>8. CASE Prune
    <3>1. now - Retention \in Int
      BY DetectAssumption DEF TypeOK
    <3>2. db' \in Database
      BY <2>8, <3>1, DatabaseSteps DEF Prune, TypeOK
    <3> QED
      BY <2>8, <3>2 DEF Prune, TypeOK
  <2>9. CASE Tick
    BY <2>9, DetectAssumption DEF Tick, TypeOK
  <2>10. CASE UNCHANGED vars
    BY <2>10 DEF vars, TypeOK
  <2> QED
    BY <2>1, <2>2, <2>3, <2>4, <2>5, <2>6, <2>7, <2>8, <2>9, <2>10 DEF Next
<1> QED
  BY <1>1, <1>2, PTL DEF Spec

-----------------------------------------------------------------------------
(* The inductive invariant, one lemma per action. *)

(* More rows can only be more evidence. *)
LEMMA StrengthIsMonotone ==
    ASSUME NEW k \in Detectors, NEW T \in SUBSET Lines, NEW S \in SUBSET T
    PROVE  Strength(k, S) <= Strength(k, T) /\ Strength(k, S) \in Nat /\ Strength(k, T) \in Nat
<1>1. IsFiniteSet(T) /\ Cardinality(T) \in Nat
  BY DetectAssumption, FS_Subset, FS_CardinalityType
<1>2. Cardinality(S) <= Cardinality(T) /\ Cardinality(S) \in Nat
  BY <1>1, FS_Subset, FS_CardinalityType
<1> DEFINE PortsT == {r.port : r \in T}
           PortsS == {r.port : r \in S}
           f == [r \in T |-> r.port]
<1>3. f \in Surjection(T, PortsT)
  BY DEF Surjection
<1>4. IsFiniteSet(PortsT)
  BY <1>1, <1>3, FS_Surjection
<1>5. PortsS \in SUBSET PortsT
  OBVIOUS
<1>6. /\ Cardinality(PortsS) <= Cardinality(PortsT)
      /\ Cardinality(PortsS) \in Nat /\ Cardinality(PortsT) \in Nat
  BY <1>4, <1>5, FS_Subset, FS_CardinalityType
<1> QED
  BY <1>1, <1>2, <1>6 DEF Strength

(* A cycle starts: the new rows' addresses are candidates, so that nothing  *)
(* changes for an address that is not.                                      *)
LEMMA BeginKeeps ==
    ASSUME TypeOK, TablesConsistent(db, {}, {}),
           NEW batch \in SUBSET Lines, Begin(batch)
    PROVE  TablesConsistent(txn', todo', logins')
<1>1. /\ txn'.rows = db.rows \cup batch
      /\ txn'.alerts = db.alerts /\ txn'.announced = db.announced
      /\ txn'.logins = db.logins
      /\ todo' = {<<Detector(r), r.ip>> : r \in batch}
      /\ logins' = {r \in batch : r.kind = "accepted"}
  BY DEF Begin, TypeOK, Database
<1>2. AlertsHaveEvidence(txn')
  BY <1>1 DEF TablesConsistent, AlertsHaveEvidence, Counting
<1>3. AlertsApart(txn')
  BY <1>1 DEF TablesConsistent, AlertsApart
<1>4. EntriesNameTheirAlert(txn')
  BY <1>1 DEF TablesConsistent, EntriesNameTheirAlert
<1>5. ASSUME NEW k \in Detectors, NEW ip \in Ips, <<k, ip>> \notin todo'
      PROVE  CaughtUp(txn', k, ip)
  <2>1. Counting(txn', k, ip) = Counting(db, k, ip)
    BY <1>1, <1>5 DEF Counting
  <2>2. CaughtUp(db, k, ip)
    BY DEF TablesConsistent
  <2> QED
    BY <1>1, <2>1, <2>2 DEF CaughtUp, Fires, WindowAt
<1>6. LoginsRecorded(txn', logins')
  BY <1>1 DEF TablesConsistent, LoginsRecorded
<1> QED
  BY <1>2, <1>3, <1>4, <1>5, <1>6 DEF TablesConsistent

(* The guard of Pass is what CaughtUp asks for. *)
LEMMA PassKeeps ==
    ASSUME TypeOK, TablesConsistent(txn, todo, logins),
           NEW k \in Detectors, NEW ip \in Ips, Pass(k, ip)
    PROVE  TablesConsistent(txn', todo', logins')
<1>1. /\ txn' = txn /\ logins' = logins
      /\ todo' = todo \ {<<k, ip>>}
      /\ \A anchor \in Newest(Counting(txn, k, ip)) : ~Fires(txn, k, ip, anchor)
  BY DEF Pass, Evaluate
<1>2. ASSUME NEW k2 \in Detectors, NEW ip2 \in Ips
      PROVE  <<k2, ip2>> \in todo' \/ CaughtUp(txn, k2, ip2)
  BY <1>1 DEF TablesConsistent, CaughtUp
<1> QED
  BY <1>1, <1>2 DEF TablesConsistent

(* The new alert starts within one window of its end, and every earlier     *)
(* alert of its subject ended more than a cooldown before it.               *)
LEMMA RaiseKeeps ==
    ASSUME TypeOK, TablesConsistent(txn, todo, logins),
           NEW k \in Detectors, NEW ip \in Ips, Raise(k, ip)
    PROVE  TablesConsistent(txn', todo', logins')
<1>1. PICK anchor \in Newest(Counting(txn, k, ip)), first \in Int, id \in Nat, count \in Nat :
        /\ first \in Oldest(WindowAt(txn, k, ip, anchor))
        /\ id \in NewIds(txn.alerts)
        /\ anchor \in Int
        /\ anchor - Window[k] <= first /\ first <= anchor
        /\ Fires(txn, k, ip, anchor)
        /\ WithinCooldown(txn, k, ip, anchor) = {}
        /\ txn'.rows = txn.rows /\ txn'.read = txn.read
        /\ txn'.logins = txn.logins
        /\ txn'.alerts = txn.alerts \cup
               {[id |-> id, kind |-> k, ip |-> ip,
                 first |-> first, last |-> anchor, count |-> count]}
        /\ txn'.announced = IF \E e \in txn.announced : e.id = id
                            THEN txn.announced
                            ELSE txn.announced \cup
                              {[id |-> id, kind |-> k, ip |-> ip, ts |-> anchor]}
        /\ txn' \in Database
  BY RaiseMakes, Zenon
<1> USE ParametersAreIntegers
<1> DEFINE new == [id |-> id, kind |-> k, ip |-> ip,
                   first |-> first, last |-> anchor, count |-> count]
<1>2. /\ new.id = id /\ new.kind = k /\ new.ip = ip
      /\ new.first = first /\ new.last = anchor
  OBVIOUS
<1>3. txn'.alerts = txn.alerts \cup {new}
  BY <1>1
<1> HIDE DEF new
<1>4. todo' = todo \ {<<k, ip>>} /\ logins' = logins
  BY DEF Raise, Evaluate
<1>5. \A a \in txn.alerts : a \in Alert
  BY DEF TypeOK, Database
<1>6. \A a \in txn.alerts : a.id < id
  BY <1>1 DEF NewIds
<1>7. ASSUME NEW a \in txn.alerts, SameSubject(a, new)
      PROVE  Apart(a, new)
  <2>1. a.last < anchor - Cooldown[k]
    BY <1>1, <1>2, <1>5, <1>7 DEF WithinCooldown, SameSubject, Alert
  <2> QED
    BY <1>1, <1>2, <1>5, <1>7, <2>1 DEF Apart, SameSubject, Alert
<1>8. \E r \in Counting(txn, k, ip) : r.ts = anchor
  BY <1>1 DEF Newest
<1>9. AlertsHaveEvidence(txn')
  <2>1. ASSUME NEW a \in txn.alerts
        PROVE  a.first <= a.last /\ \E r \in Counting(txn', a.kind, a.ip) : r.ts = a.last
    BY <1>1 DEF TablesConsistent, AlertsHaveEvidence, Counting
  <2>2. new.first <= new.last /\ \E r \in Counting(txn', new.kind, new.ip) : r.ts = new.last
    BY <1>1, <1>2, <1>8 DEF Counting
  <2> QED
    BY <1>3, <2>1, <2>2 DEF AlertsHaveEvidence
<1>10. AlertsApart(txn')
  <2> SUFFICES ASSUME NEW a \in txn'.alerts, NEW b \in txn'.alerts, a # b
               PROVE  /\ a.id # b.id
                      /\ SameSubject(a, b) => Apart(a, b) \/ Apart(b, a)
    BY DEF AlertsApart
  <2>1. CASE a \in txn.alerts /\ b \in txn.alerts
    BY <2>1 DEF TablesConsistent, AlertsApart
  <2>2. CASE a \in txn.alerts /\ b = new
    BY <2>2, <1>2, <1>5, <1>6, <1>7 DEF Alert
  <2>3. CASE a = new /\ b \in txn.alerts
    BY <2>3, <1>2, <1>5, <1>6, <1>7 DEF Alert, SameSubject
  <2> QED
    BY <1>3, <2>1, <2>2, <2>3
<1>11. EntriesNameTheirAlert(txn')
  <2> SUFFICES ASSUME NEW e \in txn'.announced
               PROVE  \E a \in txn'.alerts : a.id = e.id /\ SameSubject(a, e) /\ e.ts <= a.last
    BY DEF EntriesNameTheirAlert
  <2>1. CASE e \in txn.announced
    BY <1>3, <2>1 DEF TablesConsistent, EntriesNameTheirAlert
  <2>2. CASE e = [id |-> id, kind |-> k, ip |-> ip, ts |-> anchor]
    BY <1>1, <1>2, <1>3, <2>2 DEF SameSubject
  <2> QED
    BY <1>1, <2>1, <2>2
<1>12. ASSUME NEW k2 \in Detectors, NEW ip2 \in Ips
       PROVE  <<k2, ip2>> \in todo' \/ CaughtUp(txn', k2, ip2)
  <2>1. Counting(txn', k2, ip2) = Counting(txn, k2, ip2)
    BY <1>1 DEF Counting
  <2>2. CASE k2 = k /\ ip2 = ip
    <3>1. \A t \in Newest(Counting(txn, k, ip)) : t \in Int
      BY TimesOfSelections DEF TypeOK
    <3>2. \A t \in Newest(Counting(txn, k, ip)) : t = anchor
      BY <1>1, <3>1 DEF Newest
    <3> QED
      BY <1>2, <1>3, <2>1, <2>2, <3>2 DEF CaughtUp
  <2>3. CASE <<k2, ip2>> \in todo \ {<<k, ip>>}
    BY <1>4, <2>3
  <2>4. CASE CaughtUp(txn, k2, ip2)
    BY <1>3, <2>1, <2>4 DEF CaughtUp, Fires, WindowAt
  <2> QED
    BY <2>2, <2>3, <2>4 DEF TablesConsistent
<1>13. LoginsRecorded(txn', logins')
  BY <1>1, <1>4 DEF TablesConsistent, LoginsRecorded
<1> QED
  BY <1>9, <1>10, <1>11, <1>12, <1>13 DEF TablesConsistent

(* The extended alert is the latest of its subject, and reaches back no     *)
(* further than its own start or one window.                                *)
LEMMA EscalateKeeps ==
    ASSUME TypeOK, TablesConsistent(txn, todo, logins),
           NEW k \in Detectors, NEW ip \in Ips, Escalate(k, ip)
    PROVE  TablesConsistent(txn', todo', logins')
<1>1. PICK anchor \in Newest(Counting(txn, k, ip)),
           open \in Alert, grown \in Alert, first \in Int :
        /\ open \in OpenAlerts(txn, k, ip, anchor)
        /\ anchor \in Int
        /\ Lesser(open.first, anchor - Window[k]) <= first /\ first <= anchor
        /\ first \in Oldest(Between(Counting(txn, k, ip),
                                    Lesser(open.first, anchor - Window[k]), anchor))
        /\ grown.id = open.id /\ grown.kind = k /\ grown.ip = ip
        /\ grown.first = Lesser(open.first, first)
        /\ grown.last = Greater(open.last, anchor)
        /\ grown.count = Cardinality(Between(Counting(txn, k, ip),
                             Lesser(open.first, anchor - Window[k]), anchor))
        /\ txn'.rows = txn.rows /\ txn'.read = txn.read
        /\ txn'.logins = txn.logins /\ txn'.announced = txn.announced
        /\ txn'.alerts = (txn.alerts \ {open}) \cup {grown}
        /\ txn' \in Database
  BY EscalateMakes, Zenon
<1> USE ParametersAreIntegers
<1>2. todo' = todo \ {<<k, ip>>} /\ logins' = logins
  BY DEF Escalate, Evaluate
<1>3. \A a \in txn.alerts : a \in Alert
  BY DEF TypeOK, Database
<1>4. /\ open \in txn.alerts /\ open.kind = k /\ open.ip = ip
      /\ open.last >= anchor - Cooldown[k]
      /\ \A b \in txn.alerts : SameSubject(b, open) => b.last <= open.last
  <2>1. /\ open \in txn.alerts /\ open.kind = k /\ open.ip = ip
        /\ open.last >= anchor - Cooldown[k]
    BY <1>1 DEF OpenAlerts, WithinCooldown
  <2>2. ASSUME NEW b \in txn.alerts, SameSubject(b, open)
        PROVE  b.last <= open.last
    <3>1. CASE b.last >= anchor - Cooldown[k]
      BY <1>1, <2>1, <2>2, <3>1 DEF OpenAlerts, WithinCooldown, SameSubject
    <3>2. CASE b.last < anchor - Cooldown[k]
      BY <1>1, <1>3, <2>1, <3>2 DEF Alert
    <3> QED
      BY <1>1, <1>3, <3>1, <3>2 DEF Alert
  <2> QED
    BY <2>1, <2>2
<1>5. open.last <= anchor /\ \E r \in Counting(txn, k, ip) : r.ts = anchor
  <2>1. \E r \in Counting(txn, k, ip) : r.ts = open.last
    BY <1>4 DEF TablesConsistent, AlertsHaveEvidence
  <2> QED
    BY <1>1, <2>1 DEF Newest
<1>6. grown.last = anchor /\ open.first <= open.last /\ grown.first <= open.first
      /\ Lesser(open.first, anchor - Window[k]) <= grown.first
  <2>1. open.first <= open.last
    BY <1>4 DEF TablesConsistent, AlertsHaveEvidence
  <2> QED
    BY <1>1, <1>5, <2>1 DEF Lesser, Greater, Alert
<1>7. ASSUME NEW b \in txn.alerts, b # open, SameSubject(b, open)
      PROVE  Apart(b, grown)
  <2>1. Apart(b, open) \/ Apart(open, b)
    BY <1>4, <1>7 DEF TablesConsistent, AlertsApart, SameSubject
  <2>2. b.last <= open.last /\ b.first <= b.last
    BY <1>4, <1>7 DEF TablesConsistent, AlertsHaveEvidence
  <2>3. Apart(b, open)
    BY <1>3, <2>1, <2>2 DEF Apart, Alert
  <2> QED
    BY <1>1, <1>3, <1>4, <1>5, <1>6, <1>7, <2>3 DEF Apart, SameSubject, Lesser, Alert
<1>8. AlertsHaveEvidence(txn')
  <2>1. ASSUME NEW a \in txn.alerts
        PROVE  a.first <= a.last /\ \E r \in Counting(txn', a.kind, a.ip) : r.ts = a.last
    BY <1>1 DEF TablesConsistent, AlertsHaveEvidence, Counting
  <2>2. grown.first <= grown.last
        /\ \E r \in Counting(txn', grown.kind, grown.ip) : r.ts = grown.last
    BY <1>1, <1>5, <1>6 DEF Counting, Alert
  <2> QED
    BY <1>1, <2>1, <2>2 DEF AlertsHaveEvidence
<1>9. AlertsApart(txn')
  <2> SUFFICES ASSUME NEW a \in txn'.alerts, NEW b \in txn'.alerts, a # b
               PROVE  /\ a.id # b.id
                      /\ SameSubject(a, b) => Apart(a, b) \/ Apart(b, a)
    BY DEF AlertsApart
  <2>1. \A c \in txn.alerts : c # open => c.id # grown.id
    BY <1>1, <1>4 DEF TablesConsistent, AlertsApart
  <2>2. CASE a \in txn.alerts /\ b \in txn.alerts
    BY <2>2 DEF TablesConsistent, AlertsApart
  <2>3. CASE a \in txn.alerts \ {open} /\ b = grown
    BY <2>1, <2>3, <1>1, <1>4, <1>7 DEF SameSubject
  <2>4. CASE a = grown /\ b \in txn.alerts \ {open}
    BY <2>1, <2>4, <1>1, <1>4, <1>7 DEF SameSubject
  <2> QED
    BY <1>1, <2>2, <2>3, <2>4
<1>10. EntriesNameTheirAlert(txn')
  <2> SUFFICES ASSUME NEW e \in txn'.announced
               PROVE  \E a \in txn'.alerts : a.id = e.id /\ SameSubject(a, e) /\ e.ts <= a.last
    BY DEF EntriesNameTheirAlert
  <2>1. e.ts \in Int
    BY <1>1 DEF Database, Announcement
  <2>2. PICK a \in txn.alerts : a.id = e.id /\ SameSubject(a, e) /\ e.ts <= a.last
    BY <1>1 DEF TablesConsistent, EntriesNameTheirAlert
  <2>3. CASE a = open
    BY <1>1, <1>3, <1>4, <1>5, <1>6, <2>1, <2>2, <2>3 DEF SameSubject, Alert
  <2> QED
    BY <1>1, <2>2, <2>3
<1>11. ASSUME NEW k2 \in Detectors, NEW ip2 \in Ips
       PROVE  <<k2, ip2>> \in todo' \/ CaughtUp(txn', k2, ip2)
  <2>1. Counting(txn', k2, ip2) = Counting(txn, k2, ip2)
    BY <1>1 DEF Counting
  <2>2. \A t \in Newest(Counting(txn, k, ip)) : t = anchor
    <3>1. \A t \in Newest(Counting(txn, k, ip)) : t \in Int
      BY TimesOfSelections DEF TypeOK
    <3>2. anchor \in Newest(Counting(txn, k, ip)) /\ anchor \in Int
      BY <1>1
    <3> QED
      BY <3>1, <3>2 DEF Newest
  <2>3. CASE k2 = k /\ ip2 = ip
    BY <1>1, <1>6, <2>1, <2>2, <2>3 DEF CaughtUp
  <2>4. CASE <<k2, ip2>> \in todo \ {<<k, ip>>}
    BY <1>2, <2>4
  <2>5. CASE CaughtUp(txn, k2, ip2) /\ ~(k2 = k /\ ip2 = ip)
    BY <1>1, <1>4, <2>1, <2>5 DEF CaughtUp, Fires, WindowAt
  <2> QED
    BY <2>3, <2>4, <2>5 DEF TablesConsistent
<1>12. LoginsRecorded(txn', logins')
  BY <1>1, <1>2 DEF TablesConsistent, LoginsRecorded
<1> QED
  BY <1>8, <1>9, <1>10, <1>11, <1>12 DEF TablesConsistent

(* A login leaves the list when its entry is there, whoever put it there.   *)
LEMMA RecordLoginKeeps ==
    ASSUME TypeOK, TablesConsistent(txn, todo, logins),
           NEW l \in Lines, RecordLogin(l)
    PROVE  TablesConsistent(txn', todo', logins')
<1> DEFINE attacked == \E a \in txn.alerts : a.ip = l.ip /\ a.last >= now - LoginWindow
           entry == [line |-> l, attacked |-> attacked]
           L == IF \E e \in txn.logins : e.line = l THEN txn.logins
                ELSE txn.logins \cup {entry}
<1>1. txn' = [txn EXCEPT !.logins = L] /\ logins' = logins \ {l} /\ todo' = todo /\ l \in logins
  BY DEF RecordLogin
<1>2. entry.line = l
  OBVIOUS
<1> HIDE DEF entry
<1>3. /\ txn'.rows = txn.rows /\ txn'.alerts = txn.alerts
      /\ txn'.announced = txn.announced /\ txn'.logins = L
  BY <1>1 DEF TypeOK, Database
<1>4. LoginsRecorded(txn', logins')
  <2>1. l \in txn.rows /\ l.kind = "accepted"
    BY <1>1 DEF TablesConsistent, LoginsRecorded
  <2>2. \A e \in L : e.line \in txn.rows /\ e.line.kind = "accepted"
    BY <1>2, <2>1 DEF TablesConsistent, LoginsRecorded
  <2>3. \A e, f \in L : e.line = f.line => e = f
    BY <1>2 DEF TablesConsistent, LoginsRecorded
  <2>4. \A r \in txn.rows : r.kind = "accepted" =>
            r \in logins \ {l} \/ \E e \in L : e.line = r
    <3>1. \E e \in L : e.line = l
      BY <1>2
    <3> QED
      BY <3>1 DEF TablesConsistent, LoginsRecorded
  <2>5. logins \ {l} \subseteq {r \in txn.rows : r.kind = "accepted"}
    BY DEF TablesConsistent, LoginsRecorded
  <2> HIDE DEF L
  <2> QED
    BY <1>1, <1>3, <2>2, <2>3, <2>4, <2>5 DEF LoginsRecorded
<1> HIDE DEF L
<1>5. \A k \in Detectors, ip \in Ips : CaughtUp(txn, k, ip) => CaughtUp(txn', k, ip)
  BY <1>3 DEF CaughtUp, Fires, WindowAt, Counting
<1> QED
  BY <1>1, <1>3, <1>4, <1>5
     DEF TablesConsistent, AlertsHaveEvidence, AlertsApart, EntriesNameTheirAlert, Counting

(* One cutoff for the four tables: what a kept record refers to is at least *)
(* as recent, so that it is kept as well.                                   *)
LEMMA PruneKeeps ==
    ASSUME NEW d \in Database, TablesConsistent(d, {}, {}), NEW cutoff \in Int
    PROVE  TablesConsistent(Pruned(d, cutoff), {}, {})
<1> USE ParametersAreIntegers
<1> DEFINE p == Pruned(d, cutoff)
<1>1. /\ p.rows = {r \in d.rows : r.ts >= cutoff}
      /\ p.alerts = {a \in d.alerts : a.last >= cutoff}
      /\ p.announced = {e \in d.announced : e.ts >= cutoff}
      /\ p.logins = {e \in d.logins : e.line.ts >= cutoff}
  BY DEF Pruned, Database
<1> HIDE DEF p
<1>2. \A k \in Detectors, ip \in Ips :
        Counting(p, k, ip) = {r \in Counting(d, k, ip) : r.ts >= cutoff}
  BY <1>1 DEF Counting
<1>3. \A r \in d.rows : r \in Lines /\ r.ts \in Int
  BY DetectAssumption DEF Database
<1>4. \A a \in d.alerts : a \in Alert
  BY DEF Database
<1>5. AlertsHaveEvidence(p)
  BY <1>1, <1>2, <1>4 DEF TablesConsistent, AlertsHaveEvidence, Alert
<1>6. AlertsApart(p)
  BY <1>1 DEF TablesConsistent, AlertsApart
<1>7. EntriesNameTheirAlert(p)
  <2> SUFFICES ASSUME NEW e \in p.announced
               PROVE  \E a \in p.alerts : a.id = e.id /\ SameSubject(a, e) /\ e.ts <= a.last
    BY DEF EntriesNameTheirAlert
  <2>1. e.ts \in Int /\ e.ts >= cutoff
    BY <1>1 DEF Database, Announcement
  <2>2. PICK a \in d.alerts : a.id = e.id /\ SameSubject(a, e) /\ e.ts <= a.last
    BY <1>1 DEF TablesConsistent, EntriesNameTheirAlert
  <2> QED
    BY <1>1, <1>4, <2>1, <2>2 DEF Alert
<1>8. ASSUME NEW k \in Detectors, NEW ip \in Ips
      PROVE  CaughtUp(p, k, ip)
  <2> SUFFICES ASSUME NEW anchor \in Newest(Counting(p, k, ip)), Fires(p, k, ip, anchor)
               PROVE  \E a \in p.alerts : a.kind = k /\ a.ip = ip /\ a.last = anchor
    BY DEF CaughtUp
  <2>1. anchor \in Int /\ anchor >= cutoff
    BY <1>2, <1>3 DEF Newest, Counting
  <2>2. anchor \in Newest(Counting(d, k, ip))
    BY <1>2, <1>3, <2>1 DEF Newest, Counting
  <2>3. Fires(d, k, ip, anchor)
    <3>1. WindowAt(p, k, ip, anchor) \in SUBSET WindowAt(d, k, ip, anchor)
      BY <1>2 DEF WindowAt, Between
    <3>2. WindowAt(d, k, ip, anchor) \in SUBSET Lines
      BY <1>3 DEF WindowAt, Between, Counting
    <3> QED
      BY <3>1, <3>2, StrengthIsMonotone DEF Fires
  <2>4. CaughtUp(d, k, ip)
    BY DEF TablesConsistent
  <2> QED
    BY <1>1, <2>1, <2>2, <2>3, <2>4 DEF CaughtUp
<1>9. LoginsRecorded(p, {})
  BY <1>1 DEF TablesConsistent, LoginsRecorded
<1> QED
  BY <1>5, <1>6, <1>7, <1>8, <1>9 DEF TablesConsistent, p

(* A created alert's announcement is never swallowed: no entry of the feed  *)
(* names an id above those of the alerts.                                   *)
LEMMA RaiseAnnounces ==
    ASSUME TypeOK, TablesConsistent(txn, todo, logins), NewAlertsAnnounced,
           NEW k \in Detectors, NEW ip \in Ips, Raise(k, ip)
    PROVE  NewAlertsAnnounced'
<1>1. PICK anchor \in Newest(Counting(txn, k, ip)), first \in Int, id \in Nat, count \in Nat :
        /\ first \in Oldest(WindowAt(txn, k, ip, anchor))
        /\ id \in NewIds(txn.alerts)
        /\ anchor \in Int
        /\ anchor - Window[k] <= first /\ first <= anchor
        /\ Fires(txn, k, ip, anchor)
        /\ WithinCooldown(txn, k, ip, anchor) = {}
        /\ txn'.rows = txn.rows /\ txn'.read = txn.read
        /\ txn'.logins = txn.logins
        /\ txn'.alerts = txn.alerts \cup
               {[id |-> id, kind |-> k, ip |-> ip,
                 first |-> first, last |-> anchor, count |-> count]}
        /\ txn'.announced = IF \E e \in txn.announced : e.id = id
                            THEN txn.announced
                            ELSE txn.announced \cup
                              {[id |-> id, kind |-> k, ip |-> ip, ts |-> anchor]}
        /\ txn' \in Database
  BY RaiseMakes, Zenon
<1> DEFINE new  == [id |-> id, kind |-> k, ip |-> ip,
                    first |-> first, last |-> anchor, count |-> count]
           news == [id |-> id, kind |-> k, ip |-> ip, ts |-> anchor]
<1>2. \A e \in txn.announced : e.id # id
  <2>1. \A a \in txn.alerts : a.id < id /\ a.id \in Nat
    BY <1>1 DEF NewIds, TypeOK, Database, Alert
  <2> QED
    BY <2>1 DEF TablesConsistent, EntriesNameTheirAlert
<1>3. SameSubject(new, news) /\ new.id = id /\ news.id = id
  BY DEF SameSubject
<1> HIDE DEF new, news
<1>4. txn'.alerts = txn.alerts \cup {new} /\ txn'.announced = txn.announced \cup {news}
  BY <1>1, <1>2 DEF new, news
<1>5. db' = db
  BY DEF Raise, Evaluate
<1> SUFFICES ASSUME NEW a \in txn'.alerts
             PROVE  \/ \E b \in db.alerts : b.id = a.id
                    \/ \E e \in txn'.announced : e.id = a.id /\ SameSubject(a, e)
  BY <1>5 DEF NewAlertsAnnounced, SameSubject
<1>6. CASE a \in txn.alerts
  BY <1>4, <1>6 DEF NewAlertsAnnounced
<1>7. CASE a = new
  BY <1>3, <1>4, <1>7
<1> QED
  BY <1>4, <1>6, <1>7

(* An escalated alert keeps its id, kind and address, hence its entry.      *)
LEMMA EscalateAnnounces ==
    ASSUME TypeOK, NewAlertsAnnounced,
           NEW k \in Detectors, NEW ip \in Ips, Escalate(k, ip)
    PROVE  NewAlertsAnnounced'
<1>1. PICK anchor \in Newest(Counting(txn, k, ip)),
           open \in Alert, grown \in Alert, first \in Int :
        /\ open \in OpenAlerts(txn, k, ip, anchor)
        /\ anchor \in Int
        /\ Lesser(open.first, anchor - Window[k]) <= first /\ first <= anchor
        /\ first \in Oldest(Between(Counting(txn, k, ip),
                                    Lesser(open.first, anchor - Window[k]), anchor))
        /\ grown.id = open.id /\ grown.kind = k /\ grown.ip = ip
        /\ grown.first = Lesser(open.first, first)
        /\ grown.last = Greater(open.last, anchor)
        /\ grown.count = Cardinality(Between(Counting(txn, k, ip),
                             Lesser(open.first, anchor - Window[k]), anchor))
        /\ txn'.rows = txn.rows /\ txn'.read = txn.read
        /\ txn'.logins = txn.logins /\ txn'.announced = txn.announced
        /\ txn'.alerts = (txn.alerts \ {open}) \cup {grown}
        /\ txn' \in Database
  BY EscalateMakes, Zenon
<1>2. open \in txn.alerts /\ open.kind = k /\ open.ip = ip
  BY <1>1 DEF OpenAlerts, WithinCooldown
<1>3. db' = db
  BY DEF Escalate, Evaluate
<1> SUFFICES ASSUME NEW a \in txn'.alerts
             PROVE  \/ \E b \in db.alerts : b.id = a.id
                    \/ \E e \in txn.announced : e.id = a.id /\ SameSubject(a, e)
  BY <1>1, <1>3 DEF NewAlertsAnnounced, SameSubject
<1>4. CASE a \in txn.alerts
  BY <1>4 DEF NewAlertsAnnounced
<1>5. CASE a = grown
  BY <1>1, <1>2, <1>5 DEF NewAlertsAnnounced, SameSubject
<1> QED
  BY <1>1, <1>4, <1>5

(* The tables are consistent, committed or in the making.                   *)
THEOREM Invariant == Spec => []IInv
<1>1. Init => IInv
  <2> SUFFICES ASSUME Init
               PROVE  IInv
    OBVIOUS
  <2>1. TypeOK
    <3>1. EmptyDatabase \in Database
      BY DEF EmptyDatabase, Database
    <3>2. 0 \in 0 .. MaxTime
      BY DetectAssumption
    <3> QED
      BY <3>1, <3>2 DEF Init, TypeOK
  <2>2. TablesConsistent(EmptyDatabase, {}, {})
    <3>1. \A k \in Detectors, ip \in Ips : Newest(Counting(EmptyDatabase, k, ip)) = {}
      BY DEF EmptyDatabase, Newest, Counting
    <3> QED
      BY <3>1 DEF EmptyDatabase, TablesConsistent, AlertsHaveEvidence, AlertsApart,
                  EntriesNameTheirAlert, CaughtUp, LoginsRecorded
  <2>3. NewAlertsAnnounced
    BY DEF Init, EmptyDatabase, NewAlertsAnnounced
  <2> QED
    BY <2>1, <2>2, <2>3 DEF Init, IInv
<1>2. IInv /\ TypeOK' /\ [Next]_vars => IInv'
  <2> SUFFICES ASSUME IInv, TypeOK', [Next]_vars
               PROVE  /\ TablesConsistent(db', {}, {})
                      /\ TablesConsistent(txn', todo', logins')
                      /\ NewAlertsAnnounced'
                      /\ ~busy' => txn' = db' /\ todo' = {} /\ logins' = {}
    BY DEF IInv, TablesConsistent, AlertsHaveEvidence, AlertsApart, EntriesNameTheirAlert,
           CaughtUp, Newest, Fires, Strength, WindowAt, Between, Counting, LoginsRecorded,
           Apart, SameSubject, Detector
  <2> USE DEF IInv
  <2>1. ASSUME NEW batch \in SUBSET Lines, Begin(batch)
        PROVE  /\ TablesConsistent(db', {}, {})
               /\ TablesConsistent(txn', todo', logins')
               /\ NewAlertsAnnounced'
               /\ busy'
    <3>1. TablesConsistent(txn', todo', logins')
      BY <2>1, BeginKeeps
    <3>2. NewAlertsAnnounced'
      BY <2>1 DEF Begin, NewAlertsAnnounced, TypeOK, Database
    <3> QED
      BY <2>1, <3>1, <3>2 DEF Begin
  <2>2. ASSUME NEW k \in Detectors, NEW ip \in Ips, Pass(k, ip)
        PROVE  /\ TablesConsistent(db', {}, {})
               /\ TablesConsistent(txn', todo', logins')
               /\ NewAlertsAnnounced'
               /\ busy'
    <3>1. TablesConsistent(txn', todo', logins')
      BY <2>2, PassKeeps
    <3> QED
      BY <2>2, <3>1 DEF Pass, Evaluate, NewAlertsAnnounced, SameSubject
  <2>3. ASSUME NEW k \in Detectors, NEW ip \in Ips, Raise(k, ip)
        PROVE  /\ TablesConsistent(db', {}, {})
               /\ TablesConsistent(txn', todo', logins')
               /\ NewAlertsAnnounced'
               /\ busy'
    <3>1. TablesConsistent(txn', todo', logins') /\ NewAlertsAnnounced'
      BY <2>3, RaiseKeeps, RaiseAnnounces
    <3> QED
      BY <2>3, <3>1 DEF Raise, Evaluate
  <2>4. ASSUME NEW k \in Detectors, NEW ip \in Ips, Escalate(k, ip)
        PROVE  /\ TablesConsistent(db', {}, {})
               /\ TablesConsistent(txn', todo', logins')
               /\ NewAlertsAnnounced'
               /\ busy'
    <3>1. TablesConsistent(txn', todo', logins') /\ NewAlertsAnnounced'
      BY <2>4, EscalateKeeps, EscalateAnnounces
    <3> QED
      BY <2>4, <3>1 DEF Escalate, Evaluate
  <2>5. ASSUME NEW l \in Lines, RecordLogin(l)
        PROVE  /\ TablesConsistent(db', {}, {})
               /\ TablesConsistent(txn', todo', logins')
               /\ NewAlertsAnnounced'
               /\ busy'
    <3>1. TablesConsistent(txn', todo', logins')
      BY <2>5, RecordLoginKeeps
    <3>2. txn'.alerts = txn.alerts /\ txn'.announced = txn.announced
      BY <2>5 DEF RecordLogin, TypeOK, Database
    <3>3. NewAlertsAnnounced'
      BY <2>5, <3>2 DEF RecordLogin, NewAlertsAnnounced, SameSubject
    <3> QED
      BY <2>5, <3>1, <3>3 DEF RecordLogin
  <2>6. CASE Commit
    BY <2>6 DEF Commit, NewAlertsAnnounced
  <2>7. CASE Abort
    BY <2>7 DEF Abort, NewAlertsAnnounced
  <2>8. CASE Prune
    <3>1. now - Retention \in Int /\ db \in Database
      BY DetectAssumption DEF TypeOK
    <3>2. TablesConsistent(db', {}, {})
      BY <2>8, <3>1, PruneKeeps DEF Prune
    <3> QED
      BY <2>8, <3>2 DEF Prune, NewAlertsAnnounced
  <2>9. CASE Tick
    BY <2>9 DEF Tick, NewAlertsAnnounced, SameSubject
  <2>10. CASE UNCHANGED vars
    BY <2>10 DEF vars, NewAlertsAnnounced, SameSubject
  <2> QED
    BY <2>1, <2>2, <2>3, <2>4, <2>5, <2>6, <2>7, <2>8, <2>9, <2>10 DEF Next
<1> QED
  BY <1>1, <1>2, TypeCorrect, PTL DEF Spec

-----------------------------------------------------------------------------
(* The properties the runs check. *)

(* No retention sweep, crash or escalation separates an alert from a row    *)
(* that its last_seen is the time of.                                       *)
THEOREM EvidenceTheorem == Spec => []AlertBackedByEvidence
<1>1. IInv => AlertBackedByEvidence
  BY DEF IInv, TablesConsistent, AlertBackedByEvidence
<1> QED
  BY <1>1, Invariant, PTL

(* One incident is one alert.                                               *)
THEOREM DisjointTheorem == Spec => []IncidentsDisjoint
<1>1. IInv => IncidentsDisjoint
  BY DEF IInv, TablesConsistent, AlertsApart, Apart, IncidentsDisjoint, Precedes
<1> QED
  BY <1>1, Invariant, PTL

(* An id in the feed means the alert it was given to.                       *)
THEOREM FeedTheorem == Spec => []FeedMatchesAlerts
<1>1. IInv => FeedMatchesAlerts
  BY DEF IInv, TablesConsistent, FeedMatchesAlerts
<1> QED
  BY <1>1, Invariant, PTL

(* After every cycle and every sweep, an address whose newest window meets  *)
(* the rule has an alert that reaches its newest row.                       *)
THEOREM UpToDateTheorem == Spec => []DetectionUpToDate
<1>1. IInv => DetectionUpToDate
  BY DEF IInv, TablesConsistent, DetectionUpToDate
<1> QED
  BY <1>1, Invariant, PTL

(* Accepted logins and login entries correspond one to one.                 *)
THEOREM LoginsTheorem == Spec => []LoginsMatchRows
<1>1. IInv => LoginsMatchRows
  BY DEF IInv, TablesConsistent, LoginsRecorded, LoginsMatchRows
<1> QED
  BY <1>1, Invariant, PTL

(* No alert appears without its announcement, although ids are reused and   *)
(* the announcement is inserted with OR IGNORE.                             *)
THEOREM AnnouncedTheorem == Spec => NewAlertIsAnnounced
<1>1. IInv /\ [Next]_vars =>
        [\A a \in db'.alerts :
          \/ \E b \in db.alerts : b.id = a.id
          \/ \E e \in db'.announced : e.id = a.id /\ SameSubject(a, e)]_vars
  <2> SUFFICES ASSUME IInv, Next, NEW a \in db'.alerts
               PROVE  \/ \E b \in db.alerts : b.id = a.id
                      \/ \E e \in db'.announced : e.id = a.id /\ SameSubject(a, e)
    OBVIOUS
  <2>1. CASE Commit
    BY <2>1 DEF Commit, IInv, NewAlertsAnnounced
  <2>2. CASE Prune
    BY <2>2 DEF Prune, Pruned, IInv, TypeOK, Database
  <2>3. CASE db' = db
    BY <2>3
  <2> QED
    BY <2>1, <2>2, <2>3
       DEF Next, Begin, Pass, Raise, Escalate, Evaluate, RecordLogin, Abort, Tick
<1> QED
  BY <1>1, Invariant, PTL DEF Spec, NewAlertIsAnnounced

-----------------------------------------------------------------------------
(* The totals, and what a commit makes of alerts and logins.                *)

(* What Raise and Escalate do to the alerts, and how the alert they write   *)
(* lies among those of its subject: it ends in the newest counting row, and *)
(* counts the rows of its span.                                             *)
LEMMA RaiseAdds ==
    ASSUME IInv, NEW k \in Detectors, NEW ip \in Ips, Raise(k, ip)
    PROVE  \E new \in Alert :
             /\ new.kind = k /\ new.ip = ip
             /\ new.last \in Newest(Counting(txn, k, ip))
             /\ Fires(txn, k, ip, new.last)
             /\ new.last - new.first <= Window[k]
             /\ WindowAt(txn, k, ip, new.last)
                  = Between(Counting(txn, k, ip), new.first, new.last)
             /\ new.count = Cardinality(Between(Counting(txn, k, ip), new.first, new.last))
             /\ \A b \in txn.alerts : SameSubject(b, new) => b.last < new.last
             /\ txn'.rows = txn.rows /\ txn'.read = txn.read
             /\ txn'.logins = txn.logins
             /\ txn'.alerts = txn.alerts \cup {new}
<1> USE ParametersAreIntegers
<1>0. TypeOK /\ txn \in Database
  BY DEF IInv, TypeOK
<1>1. PICK anchor \in Newest(Counting(txn, k, ip)), first \in Int, id \in Nat, count \in Nat :
        /\ first \in Oldest(WindowAt(txn, k, ip, anchor))
        /\ id \in NewIds(txn.alerts)
        /\ anchor \in Int
        /\ anchor - Window[k] <= first /\ first <= anchor
        /\ Fires(txn, k, ip, anchor)
        /\ WithinCooldown(txn, k, ip, anchor) = {}
        /\ count = Cardinality(WindowAt(txn, k, ip, anchor))
        /\ txn'.rows = txn.rows /\ txn'.read = txn.read
        /\ txn'.logins = txn.logins
        /\ txn'.alerts = txn.alerts \cup
               {[id |-> id, kind |-> k, ip |-> ip,
                 first |-> first, last |-> anchor, count |-> count]}
        /\ txn'.announced = IF \E e \in txn.announced : e.id = id
                            THEN txn.announced
                            ELSE txn.announced \cup
                              {[id |-> id, kind |-> k, ip |-> ip, ts |-> anchor]}
        /\ txn' \in Database
  BY <1>0, RaiseMakes, Zenon
<1> DEFINE new == [id |-> id, kind |-> k, ip |-> ip,
                   first |-> first, last |-> anchor, count |-> count]
<1>2. /\ new \in Alert
      /\ new.kind = k /\ new.ip = ip /\ new.first = first /\ new.last = anchor
      /\ new.count = count
  BY <1>1 DEF Alert
<1>3. txn'.alerts = txn.alerts \cup {new}
  BY <1>1
<1> HIDE DEF new
<1>4. WindowAt(txn, k, ip, anchor) = Between(Counting(txn, k, ip), first, anchor)
  <2>1. \A r \in Counting(txn, k, ip) : r.ts \in Int
    BY <1>0, DetectAssumption DEF Counting, Database
  <2> QED
    BY <1>1, <2>1 DEF WindowAt, Between, Oldest
<1>5. ASSUME NEW b \in txn.alerts, SameSubject(b, new)
      PROVE  b.last < anchor
  <2>1. b \in Alert
    BY <1>0 DEF Database
  <2>2. b.last < anchor - Cooldown[k]
    BY <1>1, <1>2, <1>5, <2>1 DEF WithinCooldown, SameSubject, Alert
  <2> QED
    BY <1>1, <2>1, <2>2 DEF Alert
<1> QED
  BY <1>1, <1>2, <1>3, <1>4, <1>5

(* What Escalate makes, without its identifiers: one alert of the subject  *)
(* grows in both directions, and no other is touched.                      *)
LEMMA EscalateReplaces ==
    ASSUME IInv, NEW k \in Detectors, NEW ip \in Ips, Escalate(k, ip)
    PROVE  \E open \in txn.alerts, grown \in Alert :
             /\ open.kind = k /\ open.ip = ip
             /\ grown.id = open.id /\ grown.kind = k /\ grown.ip = ip
             /\ grown.first <= open.first /\ open.last <= grown.last
             /\ grown.last \in Newest(Counting(txn, k, ip))
             /\ grown.count = Cardinality(Between(Counting(txn, k, ip),
                                                  grown.first, grown.last))
             /\ \A b \in txn.alerts \ {open} : SameSubject(b, grown) => b.last < grown.last
             /\ txn'.rows = txn.rows /\ txn'.read = txn.read
             /\ txn'.logins = txn.logins
             /\ txn'.alerts = (txn.alerts \ {open}) \cup {grown}
<1>a. TypeOK
  BY DEF IInv
<1>0. txn \in Database /\ TablesConsistent(txn, todo, logins)
  BY DEF IInv, TypeOK
<1>1. PICK anchor \in Newest(Counting(txn, k, ip)),
           open \in Alert, grown \in Alert, first \in Int :
        /\ open \in OpenAlerts(txn, k, ip, anchor)
        /\ anchor \in Int
        /\ Lesser(open.first, anchor - Window[k]) <= first /\ first <= anchor
        /\ first \in Oldest(Between(Counting(txn, k, ip),
                                    Lesser(open.first, anchor - Window[k]), anchor))
        /\ grown.id = open.id /\ grown.kind = k /\ grown.ip = ip
        /\ grown.first = Lesser(open.first, first)
        /\ grown.last = Greater(open.last, anchor)
        /\ grown.count = Cardinality(Between(Counting(txn, k, ip),
                             Lesser(open.first, anchor - Window[k]), anchor))
        /\ txn'.rows = txn.rows /\ txn'.read = txn.read
        /\ txn'.logins = txn.logins /\ txn'.announced = txn.announced
        /\ txn'.alerts = (txn.alerts \ {open}) \cup {grown}
        /\ txn' \in Database
  BY <1>a, EscalateMakes, Zenon
<1> USE ParametersAreIntegers
<1>2. /\ open \in txn.alerts /\ open.kind = k /\ open.ip = ip
      /\ open.last >= anchor - Cooldown[k]
      /\ \A b \in WithinCooldown(txn, k, ip, anchor) : b.last <= open.last
  BY <1>1 DEF OpenAlerts, WithinCooldown
<1>3. \A a \in txn.alerts : a \in Alert
  BY <1>0 DEF Database
<1>4. \A r \in Counting(txn, k, ip) : r.ts \in Int /\ r.ts <= anchor
  BY <1>0, <1>1, DetectAssumption DEF Counting, Database, Newest
<1>5. open.last <= anchor /\ open.first <= open.last
  BY <1>0, <1>2, <1>4 DEF TablesConsistent, AlertsHaveEvidence
<1>6. grown.last = anchor /\ grown.first <= open.first
  BY <1>1, <1>2, <1>3, <1>5 DEF Greater, Lesser, Alert
<1>7. Between(Counting(txn, k, ip), Lesser(open.first, anchor - Window[k]), anchor)
        = Between(Counting(txn, k, ip), grown.first, grown.last)
  <2>1. Lesser(open.first, anchor - Window[k]) <= grown.first
    BY <1>1 DEF Lesser, Alert
  <2>2. ASSUME NEW r \in Counting(txn, k, ip), Lesser(open.first, anchor - Window[k]) <= r.ts
        PROVE  grown.first <= r.ts
    <3>1. r \in Between(Counting(txn, k, ip), Lesser(open.first, anchor - Window[k]), anchor)
      BY <1>4, <2>2 DEF Between
    <3>2. first <= r.ts
      BY <1>1, <3>1 DEF Oldest
    <3> QED
      BY <1>1, <1>4, <3>2 DEF Lesser, Alert
  <2> QED
    BY <1>1, <1>3, <1>4, <1>6, <2>1, <2>2 DEF Between, Lesser, Alert
<1>8. ASSUME NEW b \in txn.alerts \ {open}, SameSubject(b, grown)
      PROVE  b.last < grown.last
  <2>1. Apart(b, open) \/ Apart(open, b)
    BY <1>0, <1>1, <1>2, <1>8 DEF TablesConsistent, AlertsApart, SameSubject
  <2>2. b \in Alert /\ b.first <= b.last /\ b.kind = k /\ b.ip = ip
    BY <1>0, <1>1, <1>3, <1>8 DEF TablesConsistent, AlertsHaveEvidence, SameSubject
  <2>3. CASE b.last >= anchor - Cooldown[k]
    <3>1. b.last <= open.last
      BY <1>2, <2>2, <2>3 DEF WithinCooldown
    <3>2. Apart(b, open)
      BY <1>1, <2>1, <2>2, <3>1 DEF Apart, Alert
    <3> QED
      BY <1>1, <1>5, <1>6, <2>2, <3>2 DEF Apart, Alert
  <2>4. CASE b.last < anchor - Cooldown[k]
    BY <1>1, <1>6, <2>2, <2>4 DEF Alert
  <2> QED
    BY <1>1, <2>2, <2>3, <2>4 DEF Alert
<1> QED
  BY <1>1, <1>2, <1>5, <1>6, <1>7, <1>8

(* More rows and a longer span can only be more to count.                   *)
LEMMA SpansGrow ==
    ASSUME NEW S \in SUBSET Lines, NEW T \in SUBSET S,
           NEW a \in Alert, NEW b \in Alert, SameSubject(a, b),
           b.first <= a.first, a.last <= b.last
    PROVE  /\ Cardinality(Span(T, a)) <= Cardinality(Span(S, b))
           /\ Cardinality(Span(T, a)) \in Nat /\ Cardinality(Span(S, b)) \in Nat
<1>1. Span(T, a) \subseteq Span(S, b) /\ Span(S, b) \subseteq Lines
  BY DetectAssumption DEF Span, Between, SameSubject, Alert
<1>2. IsFiniteSet(Span(S, b))
  BY <1>1, FS_Subset, DetectAssumption
<1> QED
  BY <1>1, <1>2, FS_Subset, FS_CardinalityType

(* What the detectors count of a subject's rows within a span is what the   *)
(* totals are held against.                                                 *)
LEMMA SpanIs ==
    ASSUME NEW d \in Database, NEW a \in Alert
    PROVE  /\ Span(d.rows, a) = Between(Counting(d, a.kind, a.ip), a.first, a.last)
           /\ SameSubject(a, a) /\ a.first <= a.first /\ a.last <= a.last
  BY DEF Span, Counting, SameSubject, Alert

(* New rows belong to the subjects that are now to be evaluated.            *)
LEMMA BeginCounts ==
    ASSUME IInv, RowsCounted(db, {}), NEW batch \in SUBSET Lines, Begin(batch)
    PROVE  RowsCounted(txn', todo')
<1>0. db \in Database
  BY DEF IInv, TypeOK
<1>1. /\ txn'.rows = db.rows \cup batch /\ txn'.read = db.read \cup batch
      /\ txn'.alerts = db.alerts
      /\ todo' = {<<Detector(r), r.ip>> : r \in batch}
  BY <1>0 DEF Begin, Database
<1>2. txn'.rows \subseteq txn'.read
  BY <1>1 DEF RowsCounted
<1>3. ASSUME NEW a \in txn'.alerts
      PROVE  a.count <= Cardinality(Span(txn'.read, a))
  <2>1. a \in Alert /\ a.count <= Cardinality(Span(db.read, a))
    BY <1>0, <1>1 DEF RowsCounted, TotalsBacked, Database
  <2>2. /\ Cardinality(Span(db.read, a)) <= Cardinality(Span(txn'.read, a))
        /\ Cardinality(Span(db.read, a)) \in Nat /\ Cardinality(Span(txn'.read, a)) \in Nat
    <3>1. db.read \in SUBSET txn'.read /\ txn'.read \in SUBSET Lines
      BY <1>0, <1>1 DEF Database
    <3> QED
      BY <1>0, <2>1, <3>1, SpanIs, SpansGrow
  <2> QED
    BY <2>1, <2>2 DEF Alert
<1>4. ASSUME NEW a \in txn'.alerts, <<a.kind, a.ip>> \notin todo',
             a.last \in Newest(Counting(txn', a.kind, a.ip)),
             Fires(txn', a.kind, a.ip, a.last)
      PROVE  a.count >= Cardinality(Span(txn'.rows, a))
  <2>1. a \in db.alerts
    BY <1>1
  <2>2. Counting(txn', a.kind, a.ip) = Counting(db, a.kind, a.ip)
        /\ Span(txn'.rows, a) = Span(db.rows, a)
    BY <1>1, <1>4 DEF Counting, Span, Between
  <2>3. /\ a.last \in Newest(Counting(db, a.kind, a.ip))
        /\ Fires(db, a.kind, a.ip, a.last)
    BY <1>4, <2>2 DEF Fires, WindowAt
  <2> QED
    BY <2>1, <2>2, <2>3 DEF RowsCounted, TotalsBacked
<1> QED
  BY <1>2, <1>3, <1>4 DEF RowsCounted, TotalsBacked

(* The guard of Pass leaves nothing to be counted.                          *)
LEMMA PassCounts ==
    ASSUME RowsCounted(txn, todo), NEW k \in Detectors, NEW ip \in Ips, Pass(k, ip)
    PROVE  RowsCounted(txn', todo')
<1>1. /\ txn' = txn /\ todo' = todo \ {<<k, ip>>}
      /\ \A anchor \in Newest(Counting(txn, k, ip)) : ~Fires(txn, k, ip, anchor)
  BY DEF Pass, Evaluate
<1>2. ASSUME NEW a \in txn.alerts, <<a.kind, a.ip>> \notin todo',
             a.last \in Newest(Counting(txn, a.kind, a.ip)),
             Fires(txn, a.kind, a.ip, a.last)
      PROVE  <<a.kind, a.ip>> \notin todo
  BY <1>1, <1>2
<1> QED
  BY <1>1, <1>2 DEF RowsCounted, TotalsBacked

(* The alert that Raise or Escalate writes counts the rows of its span; the *)
(* others of its subject end before the newest row.                         *)
LEMMA WrittenAlertCounts ==
    ASSUME IInv, RowsCounted(txn, todo),
           NEW k \in Detectors, NEW ip \in Ips, NEW new \in Alert,
           new.kind = k, new.ip = ip,
           new.last \in Newest(Counting(txn, k, ip)),
           new.count = Cardinality(Between(Counting(txn, k, ip), new.first, new.last)),
           NEW others \in SUBSET txn.alerts,
           \A b \in others : SameSubject(b, new) => b.last < new.last,
           txn'.rows = txn.rows, txn'.read = txn.read,
           txn'.alerts = others \cup {new},
           todo' = todo \ {<<k, ip>>}
    PROVE  RowsCounted(txn', todo')
<1>0. txn \in Database
  BY DEF IInv, TypeOK
<1>1. \A k2 \in Detectors, ip2 \in Ips : Counting(txn', k2, ip2) = Counting(txn, k2, ip2)
  BY DEF Counting
<1>2. new.count = Cardinality(Span(txn.rows, new))
  BY <1>0, SpanIs
<1>3. new.count <= Cardinality(Span(txn.read, new))
  <2>1. txn.read \in SUBSET Lines /\ txn.rows \in SUBSET txn.read
    BY <1>0 DEF Database, RowsCounted
  <2> QED
    BY <1>0, <1>2, <2>1, SpanIs, SpansGrow
<1>4. \A b \in others : b \in Alert
  BY <1>0 DEF Database
<1>5. ASSUME NEW a \in others, <<a.kind, a.ip>> \notin todo',
             a.last \in Newest(Counting(txn, a.kind, a.ip)),
             Fires(txn, a.kind, a.ip, a.last)
      PROVE  a.count >= Cardinality(Span(txn.rows, a))
  <2>1. CASE a.kind = k /\ a.ip = ip
    <3>1. a.last < new.last
      BY <2>1 DEF SameSubject
    <3>2. new.last <= a.last
      BY <1>5, <2>1, <1>0, TimesOfSelections DEF Newest
    <3> QED
      BY <1>4, <3>1, <3>2 DEF Alert
  <2>2. CASE ~(a.kind = k /\ a.ip = ip)
    BY <1>5, <2>2 DEF RowsCounted, TotalsBacked
  <2> QED
    BY <2>1, <2>2
<1>6. ASSUME NEW a \in txn'.alerts
      PROVE  /\ a.count <= Cardinality(Span(txn'.read, a))
             /\ /\ <<a.kind, a.ip>> \notin todo'
                /\ a.last \in Newest(Counting(txn', a.kind, a.ip))
                /\ Fires(txn', a.kind, a.ip, a.last)
                => a.count >= Cardinality(Span(txn'.rows, a))
  <2>1. CASE a = new
    BY <1>2, <1>3, <2>1 DEF Alert
  <2>2. CASE a \in others
    <3>1. a.kind \in Detectors /\ a.ip \in Ips
      BY <1>4, <2>2 DEF Alert
    <3>2. a.count <= Cardinality(Span(txn.read, a))
      BY <2>2 DEF RowsCounted, TotalsBacked
    <3> QED
      BY <1>1, <1>5, <2>2, <3>1, <3>2 DEF Fires, WindowAt
  <2> QED
    BY <2>1, <2>2
<1> QED
  BY <1>6 DEF RowsCounted, TotalsBacked

(* The sweep takes rows away, and the older ones first.                     *)
LEMMA PruneCounts ==
    ASSUME NEW d \in Database, RowsCounted(d, {}), NEW cutoff \in Int
    PROVE  RowsCounted(Pruned(d, cutoff), {})
<1> DEFINE p == Pruned(d, cutoff)
<1>1. /\ p.rows = {r \in d.rows : r.ts >= cutoff} /\ p.read = d.read
      /\ p.alerts = {a \in d.alerts : a.last >= cutoff}
  BY DEF Pruned, Database
<1> HIDE DEF p
<1>2. \A k \in Detectors, ip \in Ips :
        Counting(p, k, ip) = {r \in Counting(d, k, ip) : r.ts >= cutoff}
  BY <1>1 DEF Counting
<1>3. \A r \in d.rows : r \in Lines /\ r.ts \in Int
  BY DetectAssumption DEF Database
<1>4. ASSUME NEW a \in p.alerts
      PROVE  a \in d.alerts /\ a \in Alert /\ a.last >= cutoff
  BY <1>1, <1>4 DEF Database
<1>5. ASSUME NEW a \in p.alerts,
             a.last \in Newest(Counting(p, a.kind, a.ip)), Fires(p, a.kind, a.ip, a.last)
      PROVE  a.count >= Cardinality(Span(p.rows, a))
  <2>1. a.kind \in Detectors /\ a.ip \in Ips /\ a.last \in Int
    BY <1>4 DEF Alert
  <2>2. a.last \in Newest(Counting(d, a.kind, a.ip))
    BY <1>2, <1>3, <1>4, <1>5, <2>1 DEF Newest, Counting
  <2>3. Fires(d, a.kind, a.ip, a.last)
    <3>1. WindowAt(p, a.kind, a.ip, a.last) \in SUBSET WindowAt(d, a.kind, a.ip, a.last)
      BY <1>2, <2>1 DEF WindowAt, Between
    <3>2. WindowAt(d, a.kind, a.ip, a.last) \in SUBSET Lines
      BY <1>3 DEF WindowAt, Between, Counting
    <3>3. Threshold[a.kind] \in Nat
      BY <2>1, ParametersAreIntegers
    <3> QED
      BY <1>5, <2>1, <3>1, <3>2, <3>3, StrengthIsMonotone DEF Fires
  <2>4. a.count >= Cardinality(Span(d.rows, a))
    BY <1>4, <2>2, <2>3 DEF RowsCounted, TotalsBacked
  <2>5. d.rows \in SUBSET Lines /\ p.rows \in SUBSET d.rows
    BY <1>1, <1>3
  <2> QED
    BY <1>4, <2>4, <2>5, SpanIs, SpansGrow DEF Alert
<1> QED
  BY <1>1, <1>4, <1>5 DEF RowsCounted, TotalsBacked, p

(* The alerts' part of the invariant through Raise and Escalate: what is    *)
(* added is justified, and what is replaced was committed, since its        *)
(* subject was still to be evaluated.                                       *)
LEMMA RaiseJustifies ==
    ASSUME IInv, AlertsGrown, NewAlertsJustified,
           NEW k \in Detectors, NEW ip \in Ips, Raise(k, ip)
    PROVE  AlertsGrown' /\ NewAlertsJustified'
<1>1. PICK new \in Alert :
        /\ new.kind = k /\ new.ip = ip
        /\ Fires(txn, k, ip, new.last)
        /\ new.last - new.first <= Window[k]
        /\ WindowAt(txn, k, ip, new.last) = Between(Counting(txn, k, ip), new.first, new.last)
        /\ txn'.rows = txn.rows
        /\ txn'.alerts = txn.alerts \cup {new}
  BY RaiseAdds
<1>2. db' = db /\ todo' = todo \ {<<k, ip>>}
  BY DEF Raise, Evaluate
<1>3. \A k2 \in Detectors, ip2 \in Ips : Counting(txn', k2, ip2) = Counting(txn, k2, ip2)
  BY <1>1 DEF Counting
<1>4. AlertsGrown'
  BY <1>1, <1>2 DEF AlertsGrown, SameSubject
<1>5. ASSUME NEW a \in txn'.alerts
      PROVE  \/ \E b \in db'.alerts : b.id = a.id
             \/ /\ <<a.kind, a.ip>> \notin todo'
                /\ Strength(a.kind, Between(Counting(txn', a.kind, a.ip), a.first, a.last))
                       >= Threshold[a.kind]
                /\ a.last - a.first <= Window[a.kind]
  <2>1. a \in Alert
    BY <1>1, <1>5 DEF IInv, TypeOK, Database
  <2>2. Counting(txn', a.kind, a.ip) = Counting(txn, a.kind, a.ip)
    BY <1>3, <2>1 DEF Alert
  <2>3. CASE a \in txn.alerts
    BY <1>2, <2>2, <2>3 DEF NewAlertsJustified
  <2>4. CASE a = new
    BY <1>1, <1>2, <2>2, <2>4 DEF Fires
  <2> QED
    BY <1>1, <2>3, <2>4
<1> QED
  BY <1>4, <1>5 DEF NewAlertsJustified

(* An alert that grows stays that alert, and is as justified as it was when*)
(* the cycle found it.                                                     *)
LEMMA EscalateJustifies ==
    ASSUME IInv, AlertsGrown, NewAlertsJustified,
           NEW k \in Detectors, NEW ip \in Ips, Escalate(k, ip)
    PROVE  AlertsGrown' /\ NewAlertsJustified'
<1>1. PICK open \in txn.alerts, grown \in Alert :
        /\ open.kind = k /\ open.ip = ip
        /\ grown.id = open.id /\ grown.kind = k /\ grown.ip = ip
        /\ grown.first <= open.first /\ open.last <= grown.last
        /\ txn'.rows = txn.rows
        /\ txn'.alerts = (txn.alerts \ {open}) \cup {grown}
  BY EscalateReplaces
<1>2. db' = db /\ todo' = todo \ {<<k, ip>>} /\ <<k, ip>> \in todo
  BY DEF Escalate, Evaluate
<1>3. /\ \A a \in txn.alerts : a \in Alert
      /\ \A a \in db.alerts : a \in Alert
  BY DEF IInv, TypeOK, Database
<1>4. ASSUME NEW a \in db.alerts
      PROVE  \E b \in txn'.alerts : /\ b.id = a.id /\ SameSubject(a, b)
                                    /\ b.first <= a.first /\ b.last >= a.last
  <2>1. PICK b \in txn.alerts : /\ b.id = a.id /\ SameSubject(a, b)
                                /\ b.first <= a.first /\ b.last >= a.last
    BY DEF AlertsGrown
  <2>2. CASE b = open
    <3>1. /\ grown.id = a.id /\ SameSubject(a, grown)
          /\ grown.first <= a.first /\ grown.last >= a.last
      BY <1>1, <1>3, <2>1, <2>2 DEF SameSubject, Alert
    <3> QED
      BY <1>1, <3>1
  <2> QED
    BY <1>1, <2>1, <2>2
<1>5. ASSUME NEW a \in txn'.alerts
      PROVE  \/ \E b \in db.alerts : b.id = a.id
             \/ /\ <<a.kind, a.ip>> \notin todo'
                /\ Strength(a.kind, Between(Counting(txn', a.kind, a.ip), a.first, a.last))
                       >= Threshold[a.kind]
                /\ a.last - a.first <= Window[a.kind]
  <2>1. CASE a \in txn.alerts
    <3>1. Counting(txn', a.kind, a.ip) = Counting(txn, a.kind, a.ip)
      BY <1>1 DEF Counting
    <3> QED
      BY <1>2, <2>1, <3>1 DEF NewAlertsJustified
  <2>2. CASE a = grown
    BY <1>1, <1>2, <2>2 DEF NewAlertsJustified
  <2> QED
    BY <1>1, <2>1, <2>2
<1> QED
  BY <1>2, <1>4, <1>5 DEF AlertsGrown, NewAlertsJustified

(* Logins are filed last: until then there are none, and afterwards no      *)
(* alert moves.                                                             *)
LEMMA EvaluationFilesNothing ==
    ASSUME LoginsFiled, NEW k \in Detectors, NEW ip \in Ips, Evaluate(k, ip),
           txn'.logins = txn.logins
    PROVE  LoginsFiled'
  BY DEF LoginsFiled, Evaluate

(* A login is filed once all evaluations are over, by the alerts that are  *)
(* then there.                                                             *)
LEMMA RecordLoginFiles ==
    ASSUME IInv, LoginsFiled, NEW l \in Lines, RecordLogin(l)
    PROVE  LoginsFiled'
<1> DEFINE attacked == \E a \in txn.alerts : a.ip = l.ip /\ a.last >= now - LoginWindow
           entry == [line |-> l, attacked |-> attacked]
<1>1. /\ txn'.logins \subseteq txn.logins \cup {entry}
      /\ txn'.alerts = txn.alerts
      /\ todo = {} /\ todo' = todo /\ now' = now /\ db' = db
  BY DEF RecordLogin, IInv, TypeOK, Database
<1>2. \A a \in txn.alerts : a.last \in Int
  BY DEF IInv, TypeOK, Database, Alert
<1>3. entry.line = l /\ entry.attacked = attacked /\ attacked \in BOOLEAN
  OBVIOUS
<1>4. now - LoginWindow \in Int
  BY DetectAssumption DEF IInv, TypeOK
<1>5. IF attacked THEN \E a \in txn.alerts : a.ip = l.ip
      ELSE \A a \in txn.alerts : a.ip = l.ip => a.last < now - LoginWindow
  BY <1>2, <1>4
<1> HIDE DEF entry, attacked
<1>6. ASSUME NEW e \in txn'.logins \ db.logins
      PROVE  IF e.attacked THEN \E a \in txn.alerts : a.ip = e.line.ip
             ELSE \A a \in txn.alerts : a.ip = e.line.ip => a.last < now - LoginWindow
  <2>1. CASE e \in txn.logins
    BY <1>6, <2>1 DEF LoginsFiled
  <2>2. CASE e = entry
    BY <1>3, <1>5, <2>2
  <2> QED
    BY <1>1, <1>6, <2>1, <2>2
<1> QED
  BY <1>1, <1>6 DEF LoginsFiled

(* The invariant of tables, totals, new alerts and filed logins, whatever   *)
(* the log and in whatever order its lines come.                            *)
THEOREM DetectInvariant == Spec => []DetectInv
<1> DEFINE Parts == /\ AlertsGrown /\ NewAlertsJustified /\ LoginsFiled
                    /\ RowsCounted(db, {}) /\ RowsCounted(txn, todo)
<1>1. Init => Parts
  BY DEF Init, EmptyDatabase, AlertsGrown, NewAlertsJustified, LoginsFiled, RowsCounted,
         TotalsBacked
<1>2. IInv /\ Parts /\ [Next]_vars => Parts'
  <2> SUFFICES ASSUME IInv, Parts, [Next]_vars
               PROVE  /\ AlertsGrown' /\ NewAlertsJustified' /\ LoginsFiled'
                      /\ RowsCounted(db', {}) /\ RowsCounted(txn', todo')
    BY DEF RowsCounted, TotalsBacked, Fires, Strength, WindowAt, Between, Counting, Newest,
           Span, Detector
  <2>0. /\ db \in Database /\ txn \in Database /\ now \in Int
        /\ \A a \in db.alerts : a \in Alert /\ SameSubject(a, a)
                                 /\ a.first <= a.first /\ a.last >= a.last
    BY DEF IInv, TypeOK, Database, Alert, SameSubject
  <2>a. ASSUME txn' = db',
               \A a \in db'.alerts : /\ SameSubject(a, a)
                                     /\ a.first <= a.first /\ a.last >= a.last
        PROVE  AlertsGrown' /\ NewAlertsJustified' /\ LoginsFiled'
    BY <2>a DEF AlertsGrown, NewAlertsJustified, LoginsFiled, SameSubject
  <2>1. ASSUME NEW batch \in SUBSET Lines, Begin(batch)
        PROVE  /\ AlertsGrown' /\ NewAlertsJustified' /\ LoginsFiled'
               /\ RowsCounted(db', {}) /\ RowsCounted(txn', todo')
    <3>1. /\ txn'.alerts = db.alerts /\ txn'.logins = db.logins /\ db' = db
      BY <2>0, <2>1 DEF Begin, Database
    <3>2. AlertsGrown'
      BY <2>0, <3>1 DEF AlertsGrown, SameSubject
    <3>3. NewAlertsJustified' /\ LoginsFiled'
      BY <3>1 DEF NewAlertsJustified, LoginsFiled
    <3> QED
      BY <2>1, <3>1, <3>2, <3>3, BeginCounts
  <2>2. ASSUME NEW k \in Detectors, NEW ip \in Ips, Pass(k, ip)
        PROVE  /\ AlertsGrown' /\ NewAlertsJustified' /\ LoginsFiled'
               /\ RowsCounted(db', {}) /\ RowsCounted(txn', todo')
    <3>1. txn' = txn /\ db' = db /\ todo' \subseteq todo /\ Evaluate(k, ip)
      BY <2>2 DEF Pass, Evaluate
    <3>2. AlertsGrown'
      BY <3>1 DEF AlertsGrown, SameSubject
    <3>3. NewAlertsJustified'
      BY <3>1 DEF NewAlertsJustified, Counting, Strength, Between, Detector
    <3> QED
      BY <2>2, <3>1, <3>2, <3>3, PassCounts, EvaluationFilesNothing
  <2>3. ASSUME NEW k \in Detectors, NEW ip \in Ips, Raise(k, ip)
        PROVE  /\ AlertsGrown' /\ NewAlertsJustified' /\ LoginsFiled'
               /\ RowsCounted(db', {}) /\ RowsCounted(txn', todo')
    <3>1. PICK new \in Alert :
            /\ new.kind = k /\ new.ip = ip
            /\ new.last \in Newest(Counting(txn, k, ip))
            /\ new.count = Cardinality(Between(Counting(txn, k, ip), new.first, new.last))
            /\ \A b \in txn.alerts : SameSubject(b, new) => b.last < new.last
            /\ txn'.rows = txn.rows /\ txn'.read = txn.read
            /\ txn'.logins = txn.logins
            /\ txn'.alerts = txn.alerts \cup {new}
      BY <2>3, RaiseAdds
    <3>2. db' = db /\ todo' = todo \ {<<k, ip>>} /\ Evaluate(k, ip)
      BY <2>3 DEF Raise, Evaluate
    <3>3. RowsCounted(txn', todo')
      BY <3>1, <3>2, WrittenAlertCounts
    <3> QED
      BY <2>3, <3>1, <3>2, <3>3, RaiseJustifies, EvaluationFilesNothing
  <2>4. ASSUME NEW k \in Detectors, NEW ip \in Ips, Escalate(k, ip)
        PROVE  /\ AlertsGrown' /\ NewAlertsJustified' /\ LoginsFiled'
               /\ RowsCounted(db', {}) /\ RowsCounted(txn', todo')
    <3>1. PICK open \in txn.alerts, grown \in Alert :
            /\ grown.kind = k /\ grown.ip = ip
            /\ grown.last \in Newest(Counting(txn, k, ip))
            /\ grown.count = Cardinality(Between(Counting(txn, k, ip),
                                                 grown.first, grown.last))
            /\ \A b \in txn.alerts \ {open} : SameSubject(b, grown) => b.last < grown.last
            /\ txn'.rows = txn.rows /\ txn'.read = txn.read
            /\ txn'.logins = txn.logins
            /\ txn'.alerts = (txn.alerts \ {open}) \cup {grown}
      BY <2>4, EscalateReplaces
    <3>2. db' = db /\ todo' = todo \ {<<k, ip>>} /\ Evaluate(k, ip)
      BY <2>4 DEF Escalate, Evaluate
    <3>3. RowsCounted(txn', todo')
      BY <3>1, <3>2, WrittenAlertCounts
    <3> QED
      BY <2>4, <3>1, <3>2, <3>3, EscalateJustifies, EvaluationFilesNothing
  <2>5. ASSUME NEW l \in Lines, RecordLogin(l)
        PROVE  /\ AlertsGrown' /\ NewAlertsJustified' /\ LoginsFiled'
               /\ RowsCounted(db', {}) /\ RowsCounted(txn', todo')
    <3>1. /\ txn'.rows = txn.rows /\ txn'.read = txn.read /\ txn'.alerts = txn.alerts
          /\ db' = db /\ todo' = todo
      BY <2>0, <2>5 DEF RecordLogin, Database
    <3>2. AlertsGrown'
      BY <3>1 DEF AlertsGrown, SameSubject
    <3>3. \A k \in Detectors, ip \in Ips : Counting(txn', k, ip) = Counting(txn, k, ip)
      BY <3>1 DEF Counting
    <3>4. \A a \in txn.alerts : a.kind \in Detectors /\ a.ip \in Ips
      BY <2>0 DEF Database, Alert
    <3>5. NewAlertsJustified'
      BY <3>1, <3>3, <3>4 DEF NewAlertsJustified
    <3>6. RowsCounted(txn', todo')
      BY <3>1, <3>3, <3>4 DEF RowsCounted, TotalsBacked, Fires, WindowAt
    <3> QED
      BY <2>5, <3>1, <3>2, <3>5, <3>6, RecordLoginFiles
  <2>6. CASE Commit
    <3>1. txn' = db' /\ db' = txn /\ todo' = {} /\ todo = {}
      BY <2>6 DEF Commit
    <3>2. \A a \in db'.alerts : SameSubject(a, a) /\ a.first <= a.first /\ a.last >= a.last
      BY <2>0, <3>1 DEF Database, Alert, SameSubject
    <3> QED
      BY <2>a, <3>1, <3>2
  <2>7. CASE Abort
    <3>1. txn' = db' /\ db' = db /\ todo' = {}
      BY <2>7 DEF Abort
    <3> QED
      BY <2>0, <2>a, <3>1
  <2>8. CASE Prune
    <3>1. now - Retention \in Int
      BY <2>0, DetectAssumption
    <3>2. /\ txn' = db' /\ db' = Pruned(db, now - Retention)
          /\ todo' = {}
      BY <2>8 DEF Prune, IInv
    <3>3. RowsCounted(db', {})
      BY <2>0, <3>1, <3>2, PruneCounts
    <3>4. \A a \in db'.alerts : SameSubject(a, a) /\ a.first <= a.first /\ a.last >= a.last
      BY <2>0, <3>2 DEF Pruned, Database
    <3> QED
      BY <2>a, <3>2, <3>3, <3>4
  <2>9. CASE Tick
    <3>1. now' = now + 1 /\ UNCHANGED <<db, txn, busy, todo, logins>>
      BY <2>9 DEF Tick
    <3>2. \A a \in txn.alerts : a.last < now - LoginWindow => a.last < now' - LoginWindow
      BY <2>0, <3>1, DetectAssumption DEF Database, Alert
    <3>3. LoginsFiled'
      BY <3>1, <3>2 DEF LoginsFiled
    <3>4. AlertsGrown' /\ NewAlertsJustified'
      BY <3>1 DEF AlertsGrown, NewAlertsJustified, SameSubject, Counting, Strength, Between,
                  Detector
    <3> QED
      BY <3>1, <3>3, <3>4
  <2>10. CASE UNCHANGED vars
    <3>1. UNCHANGED <<now, db, txn, todo>>
      BY <2>10 DEF vars
    <3> QED
      BY <3>1 DEF AlertsGrown, NewAlertsJustified, LoginsFiled, SameSubject, Counting,
                  Strength, Between, Detector
  <2> QED
    BY <2>1, <2>2, <2>3, <2>4, <2>5, <2>6, <2>7, <2>8, <2>9, <2>10 DEF Next
<1>3. DetectInv <=> IInv /\ Parts
  BY DEF DetectInv
<1> HIDE DEF Parts
<1> QED
  BY <1>1, <1>2, <1>3, Invariant, PTL DEF Spec

(* No re-read or late line makes an alert count a row twice, and no alert   *)
(* that is still on misses a row of its span.                               *)
THEOREM TotalsTheorem == Spec => []TotalsAreEvidence
<1>1. DetectInv => TotalsAreEvidence
  BY DEF DetectInv, RowsCounted, TotalsAreEvidence
<1> QED
  BY <1>1, DetectInvariant, PTL

(* A commit extends the alerts it finds, and only a sweep removes any.      *)
THEOREM OnlyGrowTheorem == Spec => AlertsOnlyGrow
<1>1. DetectInv /\ [Next]_vars =>
        [\A a \in db.alerts :
          \/ \E b \in db'.alerts : /\ b.id = a.id /\ SameSubject(a, b)
                                   /\ b.first <= a.first /\ b.last >= a.last
          \/ a.last < now - Retention]_vars
  <2> SUFFICES ASSUME DetectInv, Next, NEW a \in db.alerts
               PROVE  \/ \E b \in db'.alerts : /\ b.id = a.id /\ SameSubject(a, b)
                                               /\ b.first <= a.first /\ b.last >= a.last
                      \/ a.last < now - Retention
    OBVIOUS
  <2>1. /\ a \in Alert /\ db \in Database /\ now \in Int /\ SameSubject(a, a)
        /\ a.first <= a.first /\ a.last >= a.last
    BY DEF DetectInv, IInv, TypeOK, Database, Alert, SameSubject
  <2>2. CASE Commit
    BY <2>2 DEF Commit, DetectInv, AlertsGrown
  <2>3. CASE Prune
    <3>1. db'.alerts = {b \in db.alerts : b.last >= now - Retention}
      BY <2>1, <2>3 DEF Prune, Pruned, Database
    <3> QED
      BY <2>1, <3>1, DetectAssumption DEF Alert
  <2>4. CASE db' = db
    BY <2>1, <2>4
  <2> QED
    BY <2>2, <2>3, <2>4
       DEF Next, Begin, Pass, Raise, Escalate, Evaluate, RecordLogin, Abort, Tick
<1> QED
  BY <1>1, DetectInvariant, PTL DEF Spec, AlertsOnlyGrow

(* A new alert is committed with the rows its rule asks for, in one window. *)
THEOREM JustifiedTheorem == Spec => NewAlertIsJustified
<1>1. DetectInv /\ [Next]_vars =>
        [\A a \in db'.alerts :
          \/ \E b \in db.alerts : b.id = a.id
          \/ /\ Strength(a.kind, Between(Counting(db', a.kind, a.ip), a.first, a.last))
                    >= Threshold[a.kind]
             /\ a.last - a.first <= Window[a.kind]]_vars
  <2> SUFFICES ASSUME DetectInv, Next, NEW a \in db'.alerts
               PROVE  \/ \E b \in db.alerts : b.id = a.id
                      \/ /\ Strength(a.kind,
                                Between(Counting(db', a.kind, a.ip), a.first, a.last))
                                >= Threshold[a.kind]
                         /\ a.last - a.first <= Window[a.kind]
    OBVIOUS
  <2>1. CASE Commit
    BY <2>1 DEF Commit, DetectInv, NewAlertsJustified
  <2>2. CASE Prune
    BY <2>2 DEF Prune, Pruned, DetectInv, IInv, TypeOK, Database
  <2>3. CASE db' = db
    BY <2>3
  <2> QED
    BY <2>1, <2>2, <2>3
       DEF Next, Begin, Pass, Raise, Escalate, Evaluate, RecordLogin, Abort, Tick
<1> QED
  BY <1>1, DetectInvariant, PTL DEF Spec, NewAlertIsJustified

(* A login is filed as ordinary only where no alert of its address, those   *)
(* of this very commit included, has moved within the hour.                 *)
THEOREM BreachTheorem == Spec => NoBreachSlipsBy
<1>1. DetectInv /\ [Next]_vars =>
        [\A e \in db'.logins \ db.logins :
          IF e.attacked THEN \E a \in db'.alerts : a.ip = e.line.ip
          ELSE \A a \in db'.alerts : a.ip = e.line.ip => a.last < now - LoginWindow]_vars
  <2> SUFFICES ASSUME DetectInv, Next, NEW e \in db'.logins \ db.logins
               PROVE  IF e.attacked THEN \E a \in db'.alerts : a.ip = e.line.ip
                      ELSE \A a \in db'.alerts : a.ip = e.line.ip
                                                   => a.last < now - LoginWindow
    OBVIOUS
  <2>1. CASE Commit
    BY <2>1 DEF Commit, DetectInv, LoginsFiled
  <2>2. CASE Prune
    BY <2>2 DEF Prune, Pruned, DetectInv, IInv, TypeOK, Database
  <2>3. CASE db' = db
    BY <2>3
  <2> QED
    BY <2>1, <2>2, <2>3
       DEF Next, Begin, Pass, Raise, Escalate, Evaluate, RecordLogin, Abort, Tick
<1> QED
  BY <1>1, DetectInvariant, PTL DEF Spec, NoBreachSlipsBy

(* There are finitely many alerts, so that they can be counted.             *)
AlertsFinite == IsFiniteSet(db.alerts) /\ IsFiniteSet(txn.alerts)

(* A database of any reachable state has finitely many alerts.             *)
LEMMA AlertsAreFinite == Spec => []AlertsFinite
<1>1. Init => AlertsFinite
  BY FS_EmptySet DEF Init, EmptyDatabase, AlertsFinite
<1>2. IInv /\ AlertsFinite /\ [Next]_vars => AlertsFinite'
  <2> SUFFICES ASSUME IInv, AlertsFinite, [Next]_vars
               PROVE  AlertsFinite'
    OBVIOUS
  <2>0. db \in Database /\ txn \in Database /\ IsFiniteSet(db.alerts) /\ IsFiniteSet(txn.alerts)
    BY DEF IInv, TypeOK, AlertsFinite
  <2>1. ASSUME NEW batch \in SUBSET Lines, Begin(batch)
        PROVE  AlertsFinite'
    BY <2>0, <2>1 DEF Begin, Database, AlertsFinite
  <2>2. ASSUME NEW k \in Detectors, NEW ip \in Ips, Raise(k, ip)
        PROVE  AlertsFinite'
    <3>1. PICK new \in Alert : txn'.alerts = txn.alerts \cup {new}
      BY <2>2, RaiseAdds
    <3>2. IsFiniteSet(txn'.alerts)
      BY <2>0, <3>1, FS_AddElement
    <3>3. db' = db
      BY <2>2 DEF Raise, Evaluate
    <3> QED
      BY <2>0, <3>2, <3>3 DEF AlertsFinite
  <2>3. ASSUME NEW k \in Detectors, NEW ip \in Ips, Escalate(k, ip)
        PROVE  AlertsFinite'
    <3>1. PICK open \in txn.alerts, grown \in Alert :
            txn'.alerts = (txn.alerts \ {open}) \cup {grown}
      BY <2>3, EscalateReplaces
    <3>2. IsFiniteSet(txn'.alerts)
      <4>1. IsFiniteSet(txn.alerts \ {open})
        BY <2>0, FS_Subset
      <4> QED
        BY <3>1, <4>1, FS_AddElement
    <3>3. db' = db
      BY <2>3 DEF Escalate, Evaluate
    <3> QED
      BY <2>0, <3>2, <3>3 DEF AlertsFinite
  <2>4. ASSUME NEW l \in Lines, RecordLogin(l)
        PROVE  AlertsFinite'
    BY <2>0, <2>4 DEF RecordLogin, Database, AlertsFinite
  <2>5. CASE Prune
    <3>1. txn' = db' /\ db'.alerts \subseteq db.alerts
      BY <2>0, <2>5 DEF Prune, Pruned, Database
    <3> QED
      BY <2>0, <3>1, FS_Subset DEF AlertsFinite
  <2>6. CASE UNCHANGED <<db, txn>> \/ Commit \/ Abort
    BY <2>0, <2>6 DEF Commit, Abort, AlertsFinite
  <2> QED
    BY <2>1, <2>2, <2>3, <2>4, <2>5, <2>6 DEF Next, Pass, Evaluate, Tick, vars
<1> QED
  BY <1>1, <1>2, Invariant, PTL DEF Spec

(* Where the rule is met at an address's newest row and that row is recent, *)
(* its alert is active, and counting the active alerts does not give zero.  *)
THEOREM ThreatTheorem == Spec => []ThreatIsNotMissed
<1>1. IInv /\ AlertsFinite => ThreatIsNotMissed
  <2> SUFFICES ASSUME IInv, AlertsFinite, ThreatLabel(db) = "quiet",
                      NEW k \in Detectors, NEW ip \in Ips,
                      NEW anchor \in Newest(Counting(db, k, ip)),
                      Fires(db, k, ip, anchor)
               PROVE  anchor < now - ActiveWindow
    BY DEF ThreatIsNotMissed
  <2>1. Cardinality(ActiveAlerts(db)) = 0
    BY DEF ThreatLabel
  <2>2. ActiveAlerts(db) = {}
    <3>1. IsFiniteSet(ActiveAlerts(db))
      BY FS_Subset DEF AlertsFinite, ActiveAlerts
    <3> QED
      BY <2>1, <3>1, FS_EmptySet
  <2>3. PICK a \in db.alerts : a.last = anchor
    BY DEF IInv, TablesConsistent, CaughtUp
  <2>4. a.last \in Int /\ now - ActiveWindow \in Int
    BY QueriesAssumption DEF IInv, TypeOK, Database, Alert
  <2> QED
    BY <2>2, <2>3, <2>4 DEF ActiveAlerts
<1> QED
  BY <1>1, Invariant, AlertsAreFinite, PTL

-----------------------------------------------------------------------------
(* The chart and the totals. *)

(* A time is at an hour or past it when its hour is. *)
LEMMA HoursOfTimes ==
    ASSUME NEW t \in Int
    PROVE  /\ HourOf(t) \in Int
           /\ \A h \in Int : t >= h * Hour <=> HourOf(t) >= h
           /\ \A h \in Int : HourOf(t - h * Hour) = HourOf(t) - h
<1> DEFINE q == t \div Hour
<1>0. Hour \in Nat /\ Hour > 0
  BY QueriesAssumption
<1>1. q \in Int /\ q * Hour <= t /\ t < q * Hour + Hour
  BY <1>0
<1> HIDE DEF q
<1>2. ASSUME NEW h \in Int PROVE t >= h * Hour <=> q >= h
  <2>1. ASSUME q >= h PROVE t >= h * Hour
    <3>1. q - h \in Nat
      BY <1>1, <2>1
    <3>2. (q - h) * Hour >= 0 /\ (q - h) * Hour = q * Hour - h * Hour
      BY <1>0, <1>1, <3>1
    <3> QED
      BY <1>0, <1>1, <3>2
  <2>2. ASSUME q < h PROVE t < h * Hour
    <3>1. h - 1 - q \in Nat
      BY <1>1, <2>2
    <3>2. (h - 1 - q) * Hour >= 0 /\ (h - 1 - q) * Hour = h * Hour - Hour - q * Hour
      BY <1>0, <1>1, <3>1
    <3> QED
      BY <1>0, <1>1, <3>2
  <2>3. h * Hour \in Int
    BY <1>0
  <2> QED
    BY <1>1, <2>1, <2>2, <2>3
<1>3. ASSUME NEW h \in Int PROVE (t - h * Hour) \div Hour = q - h
  <2> DEFINE p == (t - h * Hour) \div Hour
  <2>1. t - h * Hour \in Int
    BY <1>0
  <2>2. p \in Int /\ p * Hour <= t - h * Hour /\ t - h * Hour < p * Hour + Hour
    BY <1>0, <2>1
  <2> HIDE DEF p
  <2>3. /\ (p + h) * Hour = p * Hour + h * Hour
        /\ (p + h + 1) * Hour = p * Hour + h * Hour + Hour
    BY <1>0, <2>2
  <2>4. t >= (p + h) * Hour /\ ~(t >= (p + h + 1) * Hour)
    BY <1>0, <2>1, <2>2, <2>3
  <2>5. q >= p + h /\ ~(q >= p + h + 1)
    BY <1>2, <2>2, <2>4
  <2> QED
    BY <1>1, <2>2, <2>5 DEF p
<1> QED
  BY <1>1, <1>2, <1>3 DEF HourOf, q

(* The chart counts what its span of hours holds. *)
LEMMA ChartedRows ==
    ASSUME TypeOK, NEW k \in Detectors
    PROVE  LET span == StartHour(DayHours) .. HourOf(now)
           IN Charted(db, k, DayHours)
                = Cardinality({r \in Attempts(db, k) : HourOf(r.ts) \in span})
<1> DEFINE first == StartHour(DayHours)
           span == first .. HourOf(now)
           S == Since(Attempts(db, k), first * Hour)
           w == Buckets(db, k, DayHours)
           g == [r \in Lines |-> HourOf(r.ts)]
<1>1. now \in Int /\ DayHours \in Nat /\ DayHours > 0 /\ Hour \in Nat /\ Hour > 0
  BY QueriesAssumption DEF TypeOK
<1>2. HourOf(now) \in Int
  BY <1>1, HoursOfTimes
<1>3. first \in Int /\ first + DayHours - 1 = HourOf(now)
  BY <1>1, <1>2 DEF StartHour
<1>4. /\ Attempts(db, k) \subseteq Lines /\ S \subseteq Attempts(db, k)
      /\ \A r \in Lines : r.ts \in Int
  BY DetectAssumption DEF TypeOK, Database, Attempts, Since
<1>5. IsFiniteSet(S)
  BY <1>4, DetectAssumption, FS_Subset
<1>6. \A r \in S : g[r] = HourOf(r.ts)
  BY <1>4
<1>7. w = [h \in span |-> InBucket(db, k, DayHours, h)]
  BY <1>3 DEF Buckets
<1>8. ASSUME NEW h \in span PROVE w[h] = Cardinality(InClasses(S, g, {h}))
  <2>1. w[h] = Cardinality({r \in S : HourOf(r.ts) = h})
    BY <1>7 DEF InBucket
  <2>2. {r \in S : HourOf(r.ts) = h} = InClasses(S, g, {h})
    BY <1>6 DEF InClasses
  <2> QED
    BY <2>1, <2>2
<1>9. Charted(db, k, DayHours) = SumOver(w, span)
  <2>1. DOMAIN w = span
    BY <1>7
  <2>2. Charted(db, k, DayHours) = SumOver(w, DOMAIN w)
    BY DEF Charted, MapThenSumSet, MapThenFoldSet, SumOver, Sums, AnyOf
  <2> QED
    BY <2>1, <2>2
<1>10. IsFiniteSet(span)
  BY <1>2, <1>3, FS_Interval
<1>11. InClasses(S, g, span) = {r \in Attempts(db, k) : HourOf(r.ts) \in span}
  <2>1. ASSUME NEW r \in Attempts(db, k), HourOf(r.ts) \in span PROVE r \in S
    <3>1. r.ts \in Int /\ HourOf(r.ts) >= first
      BY <1>3, <1>2, <1>4, <2>1
    <3>2. r.ts >= first * Hour
      BY <1>3, <3>1, HoursOfTimes
    <3> QED
      BY <3>2 DEF Since
  <2> QED
    BY <1>4, <1>6, <2>1 DEF InClasses
<1> HIDE DEF first, span, S, w, g
<1>12. \A h \in span : w[h] = Cardinality(InClasses(S, g, {h}))
  BY <1>8
<1>13. SumOver(w, span) = Cardinality(InClasses(S, g, span))
  BY <1>5, <1>10, <1>12, SumOfClasses
<1> QED
  BY <1>9, <1>11, <1>13 DEF span, first

(* /api/timeline and /api/stats speak of the same rows: what the chart      *)
(* leaves out of the day's total is the first, partial hour and what is     *)
(* dated beyond the current one, whatever the rows, the hour and the day.   *)
THEOREM ChartTheorem == Spec => []ChartMatchesTotals
<1>1. TypeOK => ChartMatchesTotals
  <2> SUFFICES ASSUME TypeOK, NEW k \in Detectors
               PROVE  LET beyond == {r \in Attempts(db, k) : HourOf(r.ts) > HourOf(now)}
                          early  == {r \in Attempts(db, k) :
                                       /\ r.ts \in now - DayHours * Hour .. now
                                       /\ HourOf(r.ts) = HourOf(now) - DayHours}
                      IN Charted(db, k, DayHours) + Cardinality(beyond) + Cardinality(early)
                           = EventsOfTheDay(db, k)
    BY DEF ChartMatchesTotals
  <2> DEFINE all    == Attempts(db, k)
             beyond == {r \in all : HourOf(r.ts) > HourOf(now)}
             early  == {r \in all : /\ r.ts \in now - DayHours * Hour .. now
                                    /\ HourOf(r.ts) = HourOf(now) - DayHours}
             chart  == {r \in all : HourOf(r.ts) \in StartHour(DayHours) .. HourOf(now)}
             day    == Since(all, now - DayHours * Hour)
  <2>1. /\ now \in Int /\ DayHours \in Nat /\ DayHours > 0
        /\ Hour \in Nat /\ Hour > 0 /\ now - DayHours * Hour \in Int
    BY QueriesAssumption DEF TypeOK
  <2>2. /\ HourOf(now) \in Int
        /\ StartHour(DayHours) = HourOf(now) - DayHours + 1
        /\ HourOf(now - DayHours * Hour) = HourOf(now) - DayHours
    BY <2>1, HoursOfTimes DEF StartHour
  <2>3. all \subseteq Lines /\ \A r \in all : r.ts \in Int /\ HourOf(r.ts) \in Int
    BY DetectAssumption, HoursOfTimes DEF TypeOK, Database, Attempts
  <2>4. IsFiniteSet(beyond) /\ IsFiniteSet(early) /\ IsFiniteSet(chart)
    <3>1. IsFiniteSet(all)
      BY <2>3, DetectAssumption, FS_Subset
    <3> QED
      BY <3>1, FS_Subset
  <2>5. ASSUME NEW r \in all
        PROVE  /\ r.ts >= now - DayHours * Hour =>
                     r \in chart \/ r \in beyond \/ r \in early
               /\ r \in chart \/ r \in beyond => r.ts >= now - DayHours * Hour
    <3> DEFINE from == now - DayHours * Hour
               h == HourOf(r.ts)
    <3>1. r.ts \in Int /\ h \in Int /\ from \in Int
      BY <2>1, <2>3
    <3>2. /\ \A m \in Int : r.ts >= m * Hour <=> h >= m
          /\ \A m \in Int : from >= m * Hour <=> HourOf(from) >= m
          /\ \A m \in Int : now >= m * Hour <=> HourOf(now) >= m
      BY <2>1, <3>1, HoursOfTimes
    <3>3. HourOf(from) = HourOf(now) - DayHours
      BY <2>2
    <3> HIDE DEF from, h
    <3>4. \A m \in Int : m * Hour \in Int
      BY <2>1
    <3>5. r.ts >= from => h >= HourOf(now) - DayHours
      <4>1. HourOf(now) - DayHours \in Int
        BY <2>1, <2>2
      <4>2. from >= (HourOf(now) - DayHours) * Hour
        BY <3>2, <3>3, <4>1
      <4> QED
        BY <3>1, <3>2, <3>4, <4>1, <4>2
    <3>6. h >= HourOf(now) - DayHours + 1 => r.ts >= from
      <4>1. HourOf(now) - DayHours + 1 \in Int
        BY <2>1, <2>2
      <4>2. ~(from >= (HourOf(now) - DayHours + 1) * Hour)
        BY <2>1, <2>2, <3>2, <3>3, <4>1
      <4> QED
        BY <3>1, <3>2, <3>4, <4>1, <4>2
    <3>7. h = HourOf(now) - DayHours => r.ts <= now
      <4>1. h = HourOf(now) - DayHours => ~(h >= HourOf(now))
        BY <2>1, <2>2, <3>1
      <4>2. now >= HourOf(now) * Hour
        BY <2>2, <3>2
      <4> QED
        BY <2>1, <2>2, <3>1, <3>2, <3>4, <4>1, <4>2
    <3> QED
      BY <2>1, <2>2, <3>1, <3>5, <3>6, <3>7 DEF from, h
  <2>6. day = (chart \cup beyond) \cup early
    BY <2>5 DEF Since
  <2>7. chart \cap beyond = {} /\ (chart \cup beyond) \cap early = {}
    BY <2>1, <2>2, <2>3
  <2>8. Charted(db, k, DayHours) = Cardinality(chart)
    BY ChartedRows
  <2>9. EventsOfTheDay(db, k) = Cardinality(day)
    BY DEF EventsOfTheDay
  <2> HIDE DEF all, beyond, early, chart, day
  <2>10. /\ Cardinality(chart \cup beyond)
               = Cardinality(chart) + Cardinality(beyond) - Cardinality({})
         /\ IsFiniteSet(chart \cup beyond)
    BY <2>4, <2>7, FS_Union
  <2>11. Cardinality(day)
           = Cardinality(chart \cup beyond) + Cardinality(early) - Cardinality({})
    BY <2>4, <2>6, <2>7, <2>10, FS_Union
  <2>12. /\ Cardinality(chart) \in Nat /\ Cardinality(beyond) \in Nat
         /\ Cardinality(early) \in Nat /\ Cardinality({}) = 0
    BY <2>4, FS_CardinalityType, FS_EmptySet
  <2>13. Charted(db, k, DayHours) + Cardinality(beyond) + Cardinality(early)
           = EventsOfTheDay(db, k)
    BY <2>8, <2>9, <2>10, <2>11, <2>12
  <2> QED
    BY <2>13 DEF all, beyond, early
<1> QED
  BY <1>1, TypeCorrect, PTL

=============================================================================
