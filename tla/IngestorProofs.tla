--------------------------- MODULE IngestorProofs ---------------------------
(***************************************************************************)
(* Theorems about Ingestor, for every poll interval, staleness limit,      *)
(* retention and length of an hour, and for outages, faults and restarts   *)
(* at any time.                                                            *)
(***************************************************************************)
EXTENDS Ingestor, TLAPS

(* What the assumptions say of the parameters, in one place.               *)
LEMMA Parameters ==
    /\ Poll \in Nat /\ MaxCycle \in Nat /\ StaleAfter \in Nat
    /\ Hour \in Nat /\ Hour > 0 /\ PruneEvery \in Nat /\ PruneEvery > 0
    /\ Retention \in Nat /\ MaxTime \in Nat /\ MaxUpsets \in Nat
    /\ StaleAfter >= Poll + 2 * MaxCycle
    /\ Retention >= Hour + Poll + MaxCycle
    /\ Round = Poll + MaxCycle /\ Round \in Nat
  BY IngestorAssumption, StaleAfterCoversACycle, RetentionCoversHours DEF Round

(* An hour's key stands for the times from its beginning to the next.       *)
LEMMA HoursOfTimes ==
    ASSUME NEW h \in Nat, h > 0, NEW t \in Nat
    PROVE  /\ t \div h \in Nat /\ (t \div h) * h <= t /\ t < (t \div h) * h + h
           /\ \A u \in Nat : u <= t => u \div h <= t \div h
  OBVIOUS

(* The counter modulo the sweep's period.                                   *)
LEMMA DivisionIsUnique ==
    ASSUME NEW k \in Nat, k > 0, NEW p \in Int, NEW q \in Int, NEW n \in Int,
           p * k <= n, n < p * k + k, q * k <= n, n < q * k + k
    PROVE  p = q
<1>1. ASSUME NEW a \in Int, NEW b \in Int, a < b
      PROVE  a * k + k <= b * k
  <2>1. b - a - 1 >= 0 /\ b - a - 1 \in Nat
    BY <1>1
  <2>2. (b - a - 1) * k >= 0
    BY <2>1
  <2>3. (b - a - 1) * k = b * k - a * k - k
    OBVIOUS
  <2> QED
    BY <2>2, <2>3
<1> QED
  BY <1>1

(* How a remainder moves when its dividend moves by one.                   *)
LEMMA Remainders ==
    ASSUME NEW k \in Nat, k > 0, NEW n \in Nat
    PROVE  /\ n % k \in 0 .. k - 1
           /\ (n + 1) % k = 0 => n % k = k - 1
           /\ (n + 1) % k # 0 => (n + 1) % k = (n % k) + 1
<1> DEFINE q == n \div k
           p == (n + 1) \div k
<1>1. /\ q \in Nat /\ n % k \in 0 .. k - 1 /\ n = q * k + (n % k)
      /\ p \in Nat /\ (n + 1) % k \in 0 .. k - 1 /\ n + 1 = p * k + ((n + 1) % k)
  OBVIOUS
<1> HIDE DEF p, q
<1>2. CASE n % k < k - 1
  <2>1. p = q
    BY <1>1, <1>2, DivisionIsUnique
  <2> QED
    BY <1>1, <2>1
<1>3. CASE n % k = k - 1
  <2>1. n + 1 = (q + 1) * k
    BY <1>1, <1>3
  <2>2. p = q + 1
    BY <1>1, <2>1, DivisionIsUnique
  <2> QED
    BY <1>1, <1>3, <2>1, <2>2
<1> QED
  BY <1>1, <1>2, <1>3

(* Products of a count and a length, as the proofs of freshness need them. *)
LEMMA Rounds ==
    ASSUME NEW k \in Nat, NEW n \in 0 .. k, NEW r \in Nat
    PROVE  /\ k * r \in Nat /\ n * r \in Nat /\ n * r <= k * r
           /\ (k - n) * r = k * r - n * r
           /\ (n + 1) * r = n * r + r
  OBVIOUS

-----------------------------------------------------------------------------
(* Every variable keeps its type. *)
THEOREM IngestorTypeCorrect == Spec => []TypeOK
<1> USE Parameters
<1>1. Init => TypeOK
  <2> SUFFICES ASSUME Init
               PROVE  TypeOK
    OBVIOUS
  <2>1. 0 \in 0 .. MaxTime /\ 0 \in 0 .. MaxTime + Poll /\ 0 \in 0 .. MaxUpsets
    OBVIOUS
  <2>2. feed \subseteq Entry /\ samples \subseteq 0 .. MaxTime
    BY DEF Init
  <2> QED
    BY <2>1, <2>2 DEF Init, TypeOK
<1>2. TypeOK /\ [Next]_vars => TypeOK'
  <2> SUFFICES ASSUME TypeOK, [Next]_vars
               PROVE  TypeOK'
    OBVIOUS
  <2> USE DEF TypeOK, environment, tables
  <2>1. ASSUME NEW s \in Sources, LogChanges(s)
        PROVE  TypeOK'
    BY <2>1 DEF LogChanges, Upset
  <2>2. ASSUME NEW s \in Sources, Read(s)
        PROVE  TypeOK'
    BY <2>2 DEF Read
  <2>3. CASE FaultChanges
    BY <2>3 DEF FaultChanges, Upset
  <2>4. CASE Kill
    <3>1. upsets' \in 0 .. MaxUpsets
      BY <2>4 DEF Kill, Upset
    <3>2. sound' \in 0 .. MaxTime \cup {Never}
      BY <2>4 DEF Kill
    <3>3. alive' \in BOOLEAN
      BY <2>4 DEF Kill
    <3> QED
      BY <2>4, <3>1, <3>2, <3>3 DEF Kill
  <2>5. CASE Start
    BY <2>5 DEF Start
  <2>6. CASE Tick
    BY <2>6 DEF Tick
  <2>7. CASE Begin
    BY <2>7 DEF Begin
  <2>8. CASE Store
    <3>1. feed' \subseteq Entry
      <4>1. started \div Hour \in Nat /\ now \in Nat
        BY HoursOfTimes
      <4> QED
        BY <2>8, <4>1 DEF Store, Emitted, Entry
    <3> QED
      BY <2>8, <3>1 DEF Store
  <2>9. CASE StoreRaises
    BY <2>9 DEF StoreRaises
  <2>10. CASE AfterCycle
    BY <2>10 DEF AfterCycle
  <2>11. CASE UNCHANGED vars
    BY <2>11 DEF vars
  <2> QED
    BY <2>1, <2>2, <2>3, <2>4, <2>5, <2>6, <2>7, <2>8, <2>9, <2>10, <2>11 DEF Next
<1> QED
  BY <1>1, <1>2, PTL DEF Spec

-----------------------------------------------------------------------------
(* The parts of the inductive invariant, each through a step.               *)

LEMMA TimelyStep ==
    ASSUME TypeOK, Timely, [Next]_vars
    PROVE  Timely'
<1> USE Parameters DEF TypeOK, Timely, environment, tables, Never
<1>1. ASSUME NEW s \in Sources, LogChanges(s)
      PROVE  Timely'
  BY <1>1 DEF LogChanges, Upset
<1>2. ASSUME NEW s \in Sources, Read(s)
      PROVE  Timely'
  BY <1>2 DEF Read, Sources
<1>3. CASE FaultChanges
  <2>1. UNCHANGED <<now, changed, alive, stage, wake, started, lastRead>>
    BY <1>3 DEF FaultChanges
  <2>2. sound' <= now /\ (sound' # Never => alive' /\ ~fault')
    <3>1. CASE fault /\ alive
      <4>1. sound' = now
        BY <1>3, <3>1 DEF FaultChanges
      <4>2. alive' /\ ~fault'
        BY <1>3, <3>1, Zenon DEF FaultChanges
      <4> QED
        BY <4>1, <4>2
    <3>2. CASE ~(fault /\ alive)
      BY <1>3, <3>2 DEF FaultChanges
    <3> QED
      BY <3>1, <3>2
  <2> QED
    BY <2>1, <2>2
<1>4. CASE Kill
  BY <1>4 DEF Kill, Upset
<1>5. CASE Start
  BY <1>5 DEF Start
<1>6. CASE Tick
  BY <1>6 DEF Tick
<1>7. CASE Begin
  BY <1>7 DEF Begin
<1>8. CASE Store
  BY <1>8 DEF Store
<1>9. CASE StoreRaises
  BY <1>9 DEF StoreRaises
<1>10. CASE AfterCycle
  BY <1>10 DEF AfterCycle
<1>11. CASE UNCHANGED vars
  BY <1>11 DEF vars
<1> QED
  BY <1>1, <1>2, <1>3, <1>4, <1>5, <1>6, <1>7, <1>8, <1>9, <1>10, <1>11 DEF Next

(* What cannot be read was last read no more than a cycle after it was     *)
(* lost.                                                                   *)
LEMMA NotReadSinceStep ==
    ASSUME TypeOK, Timely, NotReadSince, [Next]_vars
    PROVE  NotReadSince'
<1> USE Parameters DEF TypeOK, Timely, NotReadSince, Reading, environment, tables, Never
<1>1. ASSUME NEW s \in Sources, LogChanges(s)
      PROVE  NotReadSince'
  BY <1>1 DEF LogChanges, Upset
<1>2. ASSUME NEW s \in Sources, Read(s)
      PROVE  NotReadSince'
  BY <1>2 DEF Read, Sources
<1>3. CASE FaultChanges
  BY <1>3 DEF FaultChanges, Upset
<1>4. CASE Kill
  BY <1>4 DEF Kill, Upset
<1>5. CASE Start
  BY <1>5 DEF Start
<1>6. CASE Tick
  BY <1>6 DEF Tick
<1>7. CASE Begin
  BY <1>7 DEF Begin
<1>8. CASE Store
  BY <1>8 DEF Store
<1>9. CASE StoreRaises
  BY <1>9 DEF StoreRaises
<1>10. CASE AfterCycle
  BY <1>10 DEF AfterCycle
<1>11. CASE UNCHANGED vars
  BY <1>11 DEF vars
<1> QED
  BY <1>1, <1>2, <1>3, <1>4, <1>5, <1>6, <1>7, <1>8, <1>9, <1>10, <1>11 DEF Next

(* No entry of the feed has a later hour in its key than its own, and no   *)
(* two of a source have the same.                                          *)
LEMMA KeysStep ==
    ASSUME TypeOK, Timely, KeysAreHours, [Next]_vars
    PROVE  KeysAreHours'
<1> USE Parameters DEF TypeOK, Timely, KeysAreHours, environment, tables
<1>1. CASE Store
  <2>1. /\ started \div Hour \in Nat /\ (started \div Hour) * Hour <= now /\ now' = now
    BY <1>1, HoursOfTimes DEF Store
  <2> DEFINE new(s) == [source |-> s, hour |-> started \div Hour, at |-> now]
  <2>2. \A e \in feed' : e \in feed \/ \E s \in Sources :
            /\ e = new(s)
            /\ ~\E f \in feed : f.source = s /\ f.hour = started \div Hour
    BY <1>1 DEF Store, Emitted
  <2> QED
    BY <2>1, <2>2
<1>2. CASE Tick
  BY <1>2 DEF Tick, Entry
<1>3. CASE AfterCycle
  BY <1>3 DEF AfterCycle
<1>4. CASE UNCHANGED <<now, feed>>
  BY <1>4
<1> QED
  BY <1>1, <1>2, <1>3, <1>4
     DEF Next, LogChanges, Read, FaultChanges, Kill, Start, Begin, StoreRaises, vars

(* When a log changes or the worker becomes sound, the delays begin to run. *)
LEMMA DelaysBegin ==
    ASSUME TypeOK, Timely, NEW s \in Sources, NEW outcome,
           LogChanges(s) \/ FaultChanges \/ Start, sound' # Never
    PROVE  Early(s, outcome)'
<1> USE Parameters DEF TypeOK, Timely, Reading, Never
<1>1. now' = now /\ started' = started /\ sound' <= now /\ changed'[s] <= now
  BY DEF LogChanges, FaultChanges, Start
<1>2. Since(s, sound)' = now
  BY <1>1 DEF LogChanges, FaultChanges, Start, Since
<1>3. stage' = "sleep" => wake' <= now + Round
  <2>1. CASE Start
    BY <2>1 DEF Start
  <2>2. CASE LogChanges(s) \/ FaultChanges
    <3>1. stage' = stage /\ wake' = wake
      BY <2>2 DEF LogChanges, FaultChanges
    <3>2. alive
      BY <2>2 DEF LogChanges, FaultChanges, environment
    <3> QED
      BY <3>1, <3>2
  <2> QED
    BY <2>1, <2>2
<1>4. started' <= now /\ started' <= now + Round
  BY <1>1
<1> QED
  BY <1>2, <1>3, <1>4 DEF Early

(* A readable source through a step that neither it nor the worker's health *)
(* changes in.                                                              *)
LEMMA ReadableStep ==
    ASSUME TypeOK, Timely, NEW s \in Sources, sound # Never, readable[s],
           Fresh(s) \/ Early(s, "ok"),
           Next, sound' = sound, readable'[s] = readable[s], changed'[s] = changed[s], alive'
    PROVE  Fresh(s)' \/ Early(s, "ok")'
<1> USE Parameters DEF Timely, Never
<1> DEFINE b == Since(s, sound)
<1>1. /\ now \in Nat /\ started \in Nat /\ wake \in Nat /\ b \in Nat /\ changed[s] \in Nat
      /\ lastRead[s] \in Int /\ changed[s] <= b
      /\ stage \in {"sleep", "ssh", "ufw", "store", "after"}
  BY DEF TypeOK, Since
<1>2. Since(s, sound)' = b
  BY DEF Since
<1> HIDE DEF b
<1>3. CASE Begin
  <2>1. /\ stage = "sleep" /\ stage' = "ssh" /\ started' = wake
        /\ UNCHANGED <<lastRead, lastError>>
    BY <1>1, <1>3 DEF Begin, tables
  <2>2. started' >= changed'[s] /\ Reports(s, "ok")'
    BY <1>3, <2>1 DEF Begin, Reports
  <2> QED
    BY <1>2, <2>1, <2>2 DEF Fresh, Early, Reading, b
<1>4. CASE \E x \in Sources : Read(x)
  <2>1. PICK x \in Sources : Read(x)
    BY <1>4
  <2>2. /\ Reading /\ Reading' /\ started' = started /\ lastRead' = lastRead
        /\ lastError'[s] = lastError[s]
        /\ stage # "sleep" /\ stage' # "sleep"
    BY <2>1 DEF Read, Reading, Sources, TypeOK
  <2>3. Reports(s, "ok") => Reports(s, "ok")'
    BY <2>1 DEF Read, Reports, Sources, TypeOK
  <2> QED
    BY <1>2, <2>2, <2>3 DEF Fresh, Early, b
<1>5. CASE Store
  <2>1. /\ Reading /\ stage = "store" /\ stage' = "after" /\ started' = started /\ ~Reading'
    BY <1>5 DEF Store, Reading
  <2>2. CASE report[s] = "ok"
    <3>1. lastRead'[s] = now /\ ~lastError'[s] /\ started <= now /\ now # -1
      BY <1>1, <1>5, <2>2 DEF Store
    <3> QED
      BY <2>1, <3>1 DEF Fresh
  <2>3. CASE report[s] # "ok"
    <3>1. started <= b
      BY <2>1, <2>3 DEF Fresh, Early, Reports, b
    <3> QED
      BY <1>2, <2>1, <3>1 DEF Early
  <2> QED
    BY <2>2, <2>3
<1>6. CASE AfterCycle
  <2>1. /\ stage = "after" /\ stage' = "sleep" /\ wake' = now + Poll
        /\ UNCHANGED <<lastRead, lastError>> /\ now <= started + MaxCycle
        /\ ~Reading
    BY <1>6 DEF AfterCycle, Reading
  <2>2. wake' <= started + Round
    BY <1>1, <2>1
  <2>3. CASE Fresh(s)
    <3>1. started <= lastRead[s] /\ ~lastError[s] /\ lastRead[s] # Never
      BY <2>1, <2>3 DEF Fresh
    <3>2. wake' <= lastRead'[s] + Round
      BY <1>1, <2>1, <2>2, <3>1
    <3> QED
      BY <2>1, <3>1, <3>2 DEF Fresh, Reading
  <2>4. CASE Early(s, "ok")
    <3>1. started <= b
      BY <2>1, <2>4 DEF Early, b
    <3>2. wake' <= b + Round
      BY <1>1, <2>1, <2>2, <3>1
    <3> QED
      BY <1>2, <2>1, <3>2 DEF Early, Reading
  <2> QED
    BY <2>3, <2>4
<1>7. CASE UNCHANGED <<stage, wake, started, lastRead, lastError, report>>
  BY <1>2, <1>7 DEF Fresh, Early, Reading, Reports, b
<1>8. ~StoreRaises /\ ~Kill
  BY DEF StoreRaises, Kill
<1>9. ASSUME Start
      PROVE  FALSE
  BY <1>9 DEF Start
<1> QED
  BY <1>3, <1>4, <1>5, <1>6, <1>7, <1>8, <1>9 DEF Next, LogChanges, FaultChanges, Tick, tables

(* The same for a source that cannot be read.                               *)
LEMMA UnreadableStep ==
    ASSUME TypeOK, Timely, KeysAreHours, NEW s \in Sources, sound # Never, ~readable[s],
           Announced(s) \/ Early(s, "failed"),
           Next, sound' = sound, readable'[s] = readable[s], changed'[s] = changed[s], alive'
    PROVE  Announced(s)' \/ Early(s, "failed")'
<1> USE Parameters DEF Timely, Never
<1> DEFINE b == Since(s, sound)
           key == changed[s] \div Hour
<1>1. /\ now \in Nat /\ started \in Nat /\ wake \in Nat /\ b \in Nat /\ changed[s] \in Nat
      /\ changed[s] <= b
      /\ stage \in {"sleep", "ssh", "ufw", "store", "after"}
      /\ feed \subseteq Entry
  BY DEF TypeOK, Since
<1>2. Since(s, sound)' = b /\ changed'[s] \div Hour = key
  BY DEF Since
<1> HIDE DEF b, key
<1>3. CASE Begin
  <2>1. /\ stage = "sleep" /\ stage' = "ssh" /\ started' = wake /\ wake = now
        /\ feed' = feed
    BY <1>1, <1>3 DEF Begin, tables
  <2>2. Reading' /\ started' >= changed'[s] /\ Reports(s, "failed")'
    BY <1>3, <2>1 DEF Begin, Reports, Reading
  <2>3. CASE Announced(s)
    BY <1>2, <2>1, <2>2, <2>3 DEF Announced, key
  <2>4. CASE Early(s, "failed")
    BY <1>2, <2>1, <2>2, <2>4 DEF Early, Reading, b
  <2> QED
    BY <2>3, <2>4
<1>4. CASE \E x \in Sources : Read(x)
  <2>1. PICK x \in Sources : Read(x)
    BY <1>4
  <2>2. /\ Reading /\ Reading' /\ started' = started /\ feed' = feed
        /\ stage # "sleep" /\ stage' # "sleep"
    BY <2>1 DEF Read, Reading, Sources
  <2>3. Reports(s, "failed") => Reports(s, "failed")'
    BY <2>1 DEF Read, Reports, Sources, TypeOK
  <2>4. CASE Announced(s)
    BY <1>2, <2>2, <2>3, <2>4 DEF Announced, key
  <2>5. CASE Early(s, "failed")
    BY <1>2, <2>2, <2>3, <2>5 DEF Early, b
  <2> QED
    BY <2>4, <2>5
<1>5. CASE Store
  <2>1. /\ Reading /\ stage = "store" /\ stage' = "after" /\ started' = started /\ ~Reading'
    BY <1>5 DEF Store, Reading
  <2>2. CASE started <= b /\ Early(s, "failed")
    BY <1>2, <2>1, <2>2 DEF Early
  <2>3. CASE started >= changed[s] /\ report[s] = "failed"
    <3>1. PICK e \in feed' : e.source = s /\ e.hour = started \div Hour
      <4> DEFINE new == [source |-> s, hour |-> started \div Hour, at |-> now]
                 failed == {x \in Sources : report[x] = "failed"}
      <4>1. feed' = Emitted(failed)
        BY <1>5 DEF Store
      <4>2. s \in failed /\ new.source = s /\ new.hour = started \div Hour
        BY <2>3
      <4> HIDE DEF failed
      <4>3. feed \subseteq feed'
        BY <4>1 DEF Emitted
      <4>4. CASE \E f \in feed : f.source = s /\ f.hour = started \div Hour
        BY <4>3, <4>4
      <4>5. CASE ~\E f \in feed : f.source = s /\ f.hour = started \div Hour
        <5>1. new \in feed'
          BY <4>1, <4>2, <4>5 DEF Emitted
        <5> QED
          BY <4>2, <5>1
      <4> QED
        BY <4>4, <4>5
    <3>2. key <= started \div Hour
      BY <1>1, <2>3, HoursOfTimes DEF key
    <3> QED
      BY <1>2, <2>1, <3>1, <3>2 DEF Announced
  <2> QED
    BY <2>1, <2>2, <2>3 DEF Announced, Early, Reports, b
<1>6. CASE AfterCycle
  <2>1. /\ stage = "after" /\ stage' = "sleep" /\ wake' = now + Poll
        /\ now <= started + MaxCycle /\ ~Reading
        /\ {e \in feed : e.at >= now - Retention} \subseteq feed'
    BY <1>6 DEF AfterCycle, Reading
  <2>2. wake' <= started + Round
    BY <1>1, <2>1
  <2>3. CASE Announced(s)
    <3>1. PICK e \in feed : /\ e.source = s /\ e.hour >= key
                            /\ e.hour = started \div Hour
      BY <2>1, <2>3 DEF Announced, key
    <3>2. started < (started \div Hour) * Hour + Hour
      BY <1>1, HoursOfTimes
    <3>3. (started \div Hour) * Hour <= e.at /\ e.at \in Nat
      BY <1>1, <3>1 DEF KeysAreHours, Entry
    <3>4. (started \div Hour) * Hour \in Int
      BY <1>1, HoursOfTimes
    <3>5. e.at >= now - Retention
      BY <1>1, <2>1, <3>2, <3>3, <3>4
    <3>6. e \in feed'
      BY <2>1, <3>5
    <3> QED
      BY <1>2, <2>1, <3>1, <3>6 DEF Announced, Reading
  <2>4. CASE Early(s, "failed")
    <3>1. started <= b
      BY <2>1, <2>4 DEF Early, b
    <3>2. wake' <= b + Round
      BY <1>1, <2>1, <2>2, <3>1
    <3> QED
      BY <1>2, <2>1, <3>2 DEF Early, Reading
  <2> QED
    BY <2>3, <2>4
<1>7. CASE UNCHANGED <<stage, wake, started, feed, report>>
  <2>1. Announced(s) => Announced(s)'
    BY <1>2, <1>7 DEF Announced, Reading, Reports, key
  <2>2. Early(s, "failed") => Early(s, "failed")'
    BY <1>2, <1>7 DEF Early, Reading, Reports, b
  <2> QED
    BY <2>1, <2>2
<1>8. ~StoreRaises /\ ~Kill
  BY DEF StoreRaises, Kill
<1>9. ASSUME Start
      PROVE  FALSE
  BY <1>9 DEF Start
<1> QED
  BY <1>3, <1>4, <1>5, <1>6, <1>7, <1>8, <1>9 DEF Next, LogChanges, FaultChanges, Tick, tables

(* While cycles commit, a readable log is freshly read and an unreadable   *)
(* one announced, but for the first round after it changed.                *)
LEMMA SoundSourcesStep ==
    ASSUME TypeOK, Timely, KeysAreHours, SoundSources, [Next]_vars
    PROVE  SoundSources'
<1> SUFFICES ASSUME sound' # Never, NEW s \in Sources
             PROVE  IF readable'[s] THEN Fresh(s)' \/ Early(s, "ok")'
                    ELSE Announced(s)' \/ Early(s, "failed")'
  BY DEF SoundSources, Never
<1>1. CASE LogChanges(s) \/ FaultChanges \/ Start
  BY <1>1, DelaysBegin
<1>2. CASE UNCHANGED vars
  BY <1>2 DEF vars, environment, tables, SoundSources, Fresh, Early, Announced, Reading, Reports,
              Since
<1>3. CASE Next /\ ~(LogChanges(s) \/ FaultChanges \/ Start)
  <2>1. ~Kill
    BY DEF Kill
  <2>2. sound' = sound /\ alive' = alive /\ alive
        /\ readable'[s] = readable[s] /\ changed'[s] = changed[s]
    <3>1. ASSUME NEW x \in Sources, LogChanges(x)
          PROVE  sound' = sound /\ alive' = alive
                 /\ readable'[s] = readable[s] /\ changed'[s] = changed[s]
      <4>1. x # s
        BY <1>3, <3>1
      <4> QED
        BY <3>1, <4>1 DEF LogChanges, TypeOK
    <3>2. ASSUME UNCHANGED environment
          PROVE  sound' = sound /\ alive' = alive
                 /\ readable'[s] = readable[s] /\ changed'[s] = changed[s]
      BY <3>2 DEF environment
    <3>3. sound' = sound => alive
      BY DEF Timely
    <3> QED
      BY <1>3, <2>1, <3>1, <3>2, <3>3
         DEF Next, Tick, Begin, Read, Store, StoreRaises, AfterCycle
  <2> QED
    BY <1>3, <2>2, ReadableStep, UnreadableStep DEF SoundSources
<1> QED
  BY <1>1, <1>2, <1>3

(* Each cycle brings the sweep a round nearer, and a sweep starts the count *)
(* again with nothing that is out of date.                                  *)
LEMMA SweepIsNearStep ==
    ASSUME TypeOK, Timely, SweepIsNear, [Next]_vars
    PROVE  SweepIsNear'
<1> USE Parameters DEF Timely, Never
<1> DEFINE Left(c) == (PruneEvery - 1 - (c % PruneEvery)) * Round
           From == IF stage = "sleep" THEN wake ELSE started
           K == PruneEvery * Round
<1> SUFFICES ASSUME sound' # Never
             PROVE  \E t \in 0 .. now' :
                      /\ SweptBy' <= t + K
                      /\ t = sound' \/ \A e \in feed' : e.at >= t - Retention
  BY DEF SweepIsNear
<1>1. /\ now \in Nat /\ started \in Nat /\ wake \in Nat /\ cycle \in Nat /\ K \in Nat
      /\ stage \in {"sleep", "ssh", "ufw", "store", "after"}
      /\ \A e \in feed : e.at \in Nat
      /\ sound \in Nat \cup {-1}
  BY Rounds DEF TypeOK, Entry
<1>2. \A c \in Nat : Left(c) \in Int /\ Left(c) <= K - Round
  <2> SUFFICES ASSUME NEW c \in Nat
               PROVE  Left(c) \in Int /\ Left(c) <= K - Round
    OBVIOUS
  <2>1. c % PruneEvery \in 0 .. PruneEvery - 1
    BY Remainders
  <2> DEFINE n == c % PruneEvery
  <2> HIDE DEF n
  <2>2. /\ n \in 0 .. PruneEvery /\ n + 1 \in 0 .. PruneEvery
        /\ (PruneEvery - (n + 1)) * Round = K - (n + 1) * Round
        /\ (n + 1) * Round = n * Round + Round /\ n * Round \in Nat
    BY <2>1, Rounds DEF n
  <2>3. PruneEvery - 1 - n = PruneEvery - (n + 1)
    BY <2>1 DEF n
  <2> QED
    BY <1>1, <2>2, <2>3 DEF n
<1>3. ASSUME NEW c \in Nat, (c + 1) % PruneEvery # 0
      PROVE  Left(c + 1) = Left(c) - Round
  <2>1. (c + 1) % PruneEvery = (c % PruneEvery) + 1 /\ c % PruneEvery \in 0 .. PruneEvery - 1
    BY <1>3, Remainders
  <2> QED
    BY <2>1
<1>4. SweptBy = From + MaxCycle + Left(cycle)
  BY DEF SweptBy
<1>5. SweptBy' = (IF stage' = "sleep" THEN wake' ELSE started') + MaxCycle + Left(cycle')
  BY DEF SweptBy
<1> HIDE DEF Left, K
<1>6. CASE Start \/ FaultChanges
  <2>1. now' = now /\ sound' = now /\ feed' = feed /\ cycle' \in Nat
    BY <1>1, <1>6 DEF Start, FaultChanges, tables
  <2>2. (IF stage' = "sleep" THEN wake' ELSE started') <= now + Poll
    <3>1. CASE Start
      BY <1>1, <3>1 DEF Start
    <3>2. CASE FaultChanges
      <4>1. alive /\ UNCHANGED <<stage, wake, started>>
        BY <3>2 DEF FaultChanges
      <4> QED
        BY <1>1, <4>1
    <3> QED
      BY <1>6, <3>1, <3>2
  <2>3. (IF stage' = "sleep" THEN wake' ELSE started') \in Nat
    BY <1>1, <1>6 DEF Start, FaultChanges
  <2>4. SweptBy' <= now + K
    BY <1>1, <1>2, <1>5, <2>1, <2>2, <2>3
  <2> QED
    BY <1>1, <2>1, <2>4
<1>7. CASE sound' = sound
  <2>1. PICK t \in 0 .. now : /\ SweptBy <= t + K
                              /\ t = sound \/ \A e \in feed : e.at >= t - Retention
    BY <1>7 DEF SweepIsNear, K
  <2>2. t \in 0 .. now'
    <3>1. now' = now \/ now' = now + 1
      BY DEF Next, LogChanges, Read, FaultChanges, Kill, Start, Tick, Begin, Store,
             StoreRaises, AfterCycle, vars
    <3> QED
      BY <1>1, <3>1
  <2>0. ASSUME SweptBy' = SweptBy, feed' = feed
        PROVE  \E u \in 0 .. now' :
                      /\ SweptBy' <= u + K
                      /\ u = sound' \/ \A e \in feed' : e.at >= u - Retention
    BY <1>7, <2>0, <2>1, <2>2
  <2>3. CASE Begin
    <3>1. started' = wake /\ stage = "sleep" /\ stage' # "sleep" /\ UNCHANGED <<cycle, feed>>
      BY <1>1, <1>7, <2>3 DEF Begin, tables
    <3>2. SweptBy' = SweptBy
      BY <1>4, <1>5, <3>1
    <3> QED
      BY <2>0, <3>1, <3>2
  <2>4. CASE Store
    <3>1. UNCHANGED <<started, cycle>> /\ stage # "sleep" /\ stage' # "sleep"
      BY <2>4 DEF Store
    <3>2. SweptBy' = SweptBy
      BY <1>4, <1>5, <2>4, <3>1 DEF Store
    <3>3. \A e \in feed' : e \in feed \/ e.at = now
      BY <2>4 DEF Store, Emitted
    <3> QED
      BY <1>1, <1>7, <2>1, <2>2, <3>2, <3>3
  <2>5. CASE AfterCycle
    <3>1. /\ stage # "sleep" /\ stage' = "sleep" /\ wake' = now + Poll /\ cycle' = cycle + 1
          /\ now' = now /\ now <= started + MaxCycle /\ ~fault
          /\ feed' = IF (cycle + 1) % PruneEvery = 0
                     THEN {e \in feed : e.at >= now - Retention} ELSE feed
      BY <1>7, <2>5 DEF AfterCycle, Sweeps
    <3>2. CASE (cycle + 1) % PruneEvery = 0
      <4>1. SweptBy' <= now + K
        BY <1>1, <1>2, <1>5, <3>1
      <4> QED
        BY <1>1, <3>1, <3>2, <4>1
    <3>3. CASE (cycle + 1) % PruneEvery # 0
      <4>1. Left(cycle + 1) = Left(cycle) - Round /\ Left(cycle) \in Int
        BY <1>1, <1>2, <1>3, <3>3
      <4>2. SweptBy' <= SweptBy
        BY <1>1, <1>4, <1>5, <3>1, <4>1
      <4>3. SweptBy \in Int /\ SweptBy' \in Int
        BY <1>1, <1>4, <1>5, <3>1, <4>1
      <4>4. SweptBy' <= t + K
        BY <1>1, <2>1, <4>2, <4>3
      <4> QED
        BY <1>7, <2>1, <2>2, <3>1, <3>3, <4>4
    <3> QED
      BY <3>2, <3>3
  <2>6. CASE UNCHANGED <<stage, wake, started, cycle, feed>>
    BY <1>4, <1>5, <2>0, <2>6
  <2>7. ASSUME NEW s \in Sources, Read(s)
        PROVE  stage # "sleep" /\ stage' # "sleep" /\ UNCHANGED <<started, cycle, feed>>
    BY <2>7 DEF Read, Sources
  <2>8. ASSUME NEW s \in Sources, Read(s)
        PROVE  \E u \in 0 .. now' :
                      /\ SweptBy' <= u + K
                      /\ u = sound' \/ \A e \in feed' : e.at >= u - Retention
    <3>1. SweptBy' = SweptBy
      BY <1>4, <1>5, <2>7, <2>8
    <3> QED
      BY <2>0, <2>7, <2>8, <3>1
  <2>9. ~StoreRaises /\ ~Kill /\ ~Start
    BY <1>7 DEF StoreRaises, Kill, Start
  <2> QED
    BY <2>3, <2>4, <2>5, <2>6, <2>8, <2>9
       DEF Next, LogChanges, FaultChanges, Tick, tables, vars
<1> QED
  BY <1>6, <1>7 DEF Next, LogChanges, Kill, Tick, Begin, Read, Store, StoreRaises, AfterCycle,
                    environment, vars

-----------------------------------------------------------------------------
(* The invariant, and the properties the run checks.                        *)

THEOREM IngestorInvariant == Spec => []IngestorInv
<1> DEFINE Parts == Timely /\ NotReadSince /\ SoundSources /\ KeysAreHours /\ SweepIsNear
<1>1. Init => Parts
  <2> SUFFICES ASSUME Init
               PROVE  Parts
    OBVIOUS
  <2> USE Parameters DEF Init, Never
  <2>1. Timely
    BY DEF Timely
  <2>2. NotReadSince
    BY DEF NotReadSince
  <2>3. SoundSources
    <3>1. \A s \in Sources : readable[s] /\ Since(s, sound) = 0
      BY DEF Since
    <3>2. \A s \in Sources : Early(s, "ok")
      BY <3>1 DEF Early, Reading
    <3> QED
      BY <3>1, <3>2 DEF SoundSources
  <2>4. KeysAreHours
    BY DEF KeysAreHours
  <2>5. SweepIsNear
    <3>1. cycle % PruneEvery = 0
      BY DEF Init
    <3>2. (PruneEvery - 1 - 0) * Round = PruneEvery * Round - Round
      BY Rounds
    <3>3. PruneEvery * Round \in Nat
      BY Rounds
    <3>4. SweptBy <= 0 + PruneEvery * Round
      BY <3>1, <3>2, <3>3 DEF SweptBy
    <3> QED
      BY <3>4 DEF SweepIsNear
  <2> QED
    BY <2>1, <2>2, <2>3, <2>4, <2>5
<1>2. TypeOK /\ Parts /\ [Next]_vars => Parts'
  BY TimelyStep, NotReadSinceStep, SoundSourcesStep, KeysStep, SweepIsNearStep
<1>3. IngestorInv <=> TypeOK /\ Parts
  BY DEF IngestorInv
<1> HIDE DEF Parts
<1> QED
  BY <1>1, <1>2, <1>3, IngestorTypeCorrect, PTL DEF Spec

(* A source that could not be read for StaleAfter and a cycle is not shown  *)
(* as healthy, whether the worker runs, fails, or is dead.                  *)
THEOREM BlindnessTheorem == Spec => []BlindnessShows
<1>1. IngestorInv => BlindnessShows
  <2> SUFFICES ASSUME IngestorInv, NEW s \in Sources, ~readable[s],
                      now - changed[s] > StaleAfter + MaxCycle
               PROVE  ~Healthy
    BY DEF BlindnessShows
  <2>1. now \in Nat /\ changed[s] \in Nat /\ lastRead[s] \in Int
    BY DEF IngestorInv, TypeOK, Never
  <2>2. lastRead[s] <= changed[s] + MaxCycle
    BY DEF IngestorInv, NotReadSince
  <2>3. Stale(s)
    BY <2>1, <2>2, Parameters DEF Stale
  <2> QED
    BY <2>3 DEF Healthy
<1> QED
  BY <1>1, IngestorInvariant, PTL

(* Where a sound worker must be two rounds after the delays began.          *)
LEMMA TwoRoundsOn ==
    ASSUME IngestorInv, NEW s \in Sources, NEW outcome, sound # Never,
           now - changed[s] > 2 * (Poll + MaxCycle), now - sound > 2 * (Poll + MaxCycle)
    PROVE  ~Early(s, outcome)
<1> USE Parameters DEF IngestorInv, Timely, Never
<1>1. /\ now \in Nat /\ started \in Nat /\ wake \in Nat /\ sound \in Nat
      /\ changed[s] \in Nat
      /\ stage \in {"sleep", "ssh", "ufw", "store", "after"}
  BY DEF TypeOK
<1>2. Since(s, sound) \in Nat /\ now - Since(s, sound) > 2 * Round
  BY <1>1 DEF Since
<1>3. IF stage = "sleep" THEN now <= wake ELSE now <= started + MaxCycle
  OBVIOUS
<1> QED
  BY <1>1, <1>2, <1>3 DEF Early, Reading

(* Each source is fresh and without error two rounds after it came back and *)
(* the worker was well again, whatever happens to the other one.            *)
THEOREM IndependenceTheorem == Spec => []SourcesAreIndependent
<1>1. IngestorInv => SourcesAreIndependent
  <2> SUFFICES ASSUME IngestorInv, NEW s \in Sources, readable[s], sound # Never,
                      now - changed[s] > 2 * (Poll + MaxCycle),
                      now - sound > 2 * (Poll + MaxCycle)
               PROVE  ~lastError[s] /\ ~Stale(s)
    BY DEF SourcesAreIndependent
  <2>1. Fresh(s)
    BY TwoRoundsOn DEF IngestorInv, SoundSources
  <2>2. /\ now \in Nat /\ started \in Nat /\ wake \in Nat /\ lastRead[s] \in Int
        /\ stage \in {"sleep", "ssh", "ufw", "store", "after"}
    BY DEF IngestorInv, TypeOK, Never
  <2>3. IF stage = "sleep" THEN now <= wake ELSE now <= started + MaxCycle
    BY DEF IngestorInv, Timely
  <2>4. CASE stage = "sleep"
    BY <2>1, <2>2, <2>3, <2>4, Parameters DEF Fresh, Stale, Reading
  <2>5. CASE Reading
    BY <2>1, <2>2, <2>3, <2>5, Parameters DEF Fresh, Stale, Reading
  <2>6. CASE stage = "after"
    BY <2>1, <2>2, <2>3, <2>6, Parameters DEF Fresh, Stale, Reading
  <2> QED
    BY <2>2, <2>4, <2>5, <2>6 DEF Reading
<1> QED
  BY <1>1, IngestorInvariant, PTL

(* An outage is in the feed after two rounds, and no sweep takes it out     *)
(* while it lasts; one entry an hour.                                       *)
THEOREM OutageTheorem == Spec => []OutageIsAnnounced
<1>1. IngestorInv => OutageIsAnnounced
  <2> SUFFICES ASSUME IngestorInv
               PROVE  OutageIsAnnounced
    OBVIOUS
  <2>1. ASSUME NEW s \in Sources, ~readable[s], sound # Never,
               now - changed[s] > 2 * (Poll + MaxCycle), now - sound > 2 * (Poll + MaxCycle)
        PROVE  \E e \in feed : e.source = s /\ e.hour >= changed[s] \div Hour
    <3>1. Announced(s)
      BY <2>1, TwoRoundsOn DEF IngestorInv, SoundSources
    <3> QED
      BY <3>1 DEF Announced
  <2> QED
    BY <2>1 DEF OutageIsAnnounced, IngestorInv, KeysAreHours
<1> QED
  BY <1>1, IngestorInvariant, PTL

(* A sound worker keeps the feed within its retention and one sweep period. *)
THEOREM SweptTheorem == Spec => []FeedIsSwept
<1>1. IngestorInv => FeedIsSwept
  <2> SUFFICES ASSUME IngestorInv, sound # Never,
                      now - sound > (PruneEvery + 1) * (Poll + MaxCycle),
                      NEW e \in feed
               PROVE  now - e.at <= Retention + (PruneEvery + 1) * (Poll + MaxCycle)
    BY DEF FeedIsSwept
  <2> USE Parameters
  <2> DEFINE K == PruneEvery * Round
             n == cycle % PruneEvery
  <2>1. PICK t \in 0 .. now : /\ SweptBy <= t + K
                              /\ t = sound \/ \A f \in feed : f.at >= t - Retention
    BY DEF IngestorInv, SweepIsNear
  <2>2. /\ now \in Nat /\ started \in Nat /\ wake \in Nat /\ e.at \in Nat
        /\ sound \in Nat /\ cycle \in Nat
    BY DEF IngestorInv, TypeOK, Entry, Never
  <2>3. IF stage = "sleep" THEN now <= wake ELSE now <= started + MaxCycle
    BY DEF IngestorInv, Timely, Never
  <2>4. K \in Nat /\ (PruneEvery + 1) * (Poll + MaxCycle) = K + Round
    BY Rounds
  <2>5. n \in 0 .. PruneEvery - 1
    BY <2>2, Remainders
  <2>6. (PruneEvery - 1 - n) * Round \in Nat
    BY <2>5
  <2> HIDE DEF K
  <2>7. now <= t + K
    BY <2>1, <2>2, <2>3, <2>4, <2>6 DEF SweptBy
  <2> QED
    BY <2>1, <2>2, <2>4, <2>7
<1> QED
  BY <1>1, IngestorInvariant, PTL

=============================================================================
