--------------------------- MODULE CollectProofs ---------------------------
(***************************************************************************)
(* Theorems about what a cycle measures, over every host: any number of    *)
(* ports and of sockets on them, opened, closed and hidden in any order,   *)
(* any number of interfaces with counters of any width, and cycles that    *)
(* succeed, raise or find nothing.                                         *)
(***************************************************************************)
EXTENDS Collect, OrderedProofs

-----------------------------------------------------------------------------
(* The cycle of Collect is that of PortSync, or leaves it alone. *)

(* Measuring touches no port. *)
LEMMA StepsArePortSteps ==
    ASSUME [CollectNext]_collectVars
    PROVE  [Next]_vars
<1>1. CASE Cycle
  BY <1>1 DEF Cycle, Next
<1>2. CASE CycleRaises
  BY <1>2 DEF CycleRaises
<1>3. CASE CountersChange
  BY <1>3 DEF CountersChange
<1>4. CASE SocketsChange
  BY <1>4 DEF SocketsChange, Next
<1>5. CASE UNCHANGED collectVars
  BY <1>5 DEF collectVars
<1> QED
  BY <1>1, <1>2, <1>3, <1>4, <1>5 DEF CollectNext

(* Whatever the composition does, its ports behave as PortSync says. *)
THEOREM CollectIsPortSync == CollectSpec => Spec
<1>1. CollectInit => Init
  BY DEF CollectInit
<1>2. [CollectNext]_collectVars => [Next]_vars
  BY StepsArePortSteps
<1> QED
  BY <1>1, <1>2, PTL DEF CollectSpec, Spec

-----------------------------------------------------------------------------
(* Operators. *)

(* SetToSeq lists every element of a finite set. *)
LEMMA SetToSeqLists ==
    ASSUME NEW S, IsFiniteSet(S)
    PROVE  /\ SetToSeq(S) \in Seq(S)
           /\ DOMAIN SetToSeq(S) = 1 .. Len(SetToSeq(S))
           /\ \A x \in S : \E i \in DOMAIN SetToSeq(S) : SetToSeq(S)[i] = x
<1> DEFINE n == Cardinality(S)
           f == SetToSeq(S)
<1>1. n \in Nat /\ ExistsBijection(1 .. n, S)
  BY FS_CardinalityType
<1>2. PICK g \in [1 .. n -> S] : IsInjective(g)
  BY <1>1 DEF ExistsBijection, Bijection, Injection, IsInjective
<1>3. f \in [1 .. n -> S] /\ IsInjective(f)
  BY <1>2 DEF SetToSeq
<1> HIDE DEF f
<1>4. IsFiniteSet(1 .. n) /\ Cardinality(1 .. n) = n
  BY <1>1, FS_Interval
<1>5. f \in Injection(1 .. n, S)
  BY <1>3 DEF Injection, IsInjective
<1>6. f \in Surjection(1 .. n, S)
  BY <1>4, <1>5, FS_Injection
<1> HIDE DEF n
<1>7. f \in Seq(S) /\ DOMAIN f = 1 .. Len(f) /\ Len(f) = n
  BY <1>1, <1>3
<1> QED
  BY <1>6, <1>7 DEF f, Surjection

(* What a collection holds: an address that a readable file lists, a public *)
(* one wherever there is one, or none.                                      *)
LEMMA CollectedAddresses ==
    ASSUME NEW c \in Collected
    PROVE  /\ c \in [Ports -> Addresses \cup {NoAddress}]
           /\ \A p \in Ports : First(p, PublicAddresses) # {} => IsPublic(c[p])
<1>1. \A p \in Ports : c[p] \in MostExposed(p)
  BY DEF Collected
<1>2. DOMAIN c = Ports /\ c = [p \in Ports |-> c[p]]
  BY DEF Collected
<1>3. \A p \in Ports, good \in SUBSET Addresses : First(p, good) \subseteq good
  BY DEF First
<1>4. PublicAddresses \in SUBSET Addresses /\ \A a \in PublicAddresses : IsPublic(a)
  BY DEF PublicAddresses
<1>5. \A p \in Ports : MostExposed(p) \subseteq Addresses \cup {NoAddress}
  BY <1>3, <1>4 DEF MostExposed, OrNone
<1>6. \A p \in Ports : First(p, PublicAddresses) # {} => c[p] \in PublicAddresses
  BY <1>1, <1>3, <1>4 DEF MostExposed
<1> QED
  BY <1>1, <1>2, <1>4, <1>5, <1>6

(* Emit only appends: entries of the batch, and each of them that has no    *)
(* namesake in the feed.                                                    *)
LEMMA EmitAppends ==
    ASSUME NEW log \in Seq(Event), NEW batch \in Seq(Event)
    PROVE  LET new == Emit(log, batch)
           IN /\ new \in Seq(Event)
              /\ Len(new) \in Len(log) .. Len(log) + Len(batch)
              /\ \A i \in DOMAIN log : i \in DOMAIN new /\ new[i] = log[i]
              /\ \A i \in DOMAIN new :
                    i \notin DOMAIN log => \E n \in DOMAIN batch : new[i] = batch[n]
              /\ \A n \in DOMAIN batch :
                    \/ \E i \in DOMAIN log : SameKey(log[i], batch[n])
                    \/ \E i \in DOMAIN new \ DOMAIN log : new[i] = batch[n]
<1> DEFINE K   == {n \in DOMAIN batch : \A i \in DOMAIN log : ~SameKey(log[i], batch[n])}
           add == Picked(batch, K)
           new == Emit(log, batch)
<1>1. /\ DOMAIN batch = 1 .. Len(batch) /\ Len(batch) \in Nat
      /\ DOMAIN log = 1 .. Len(log) /\ Len(log) \in Nat
  OBVIOUS
<1>2. K \in SUBSET (1 .. Len(batch))
  BY <1>1
<1>3. \A k \in K : k \in DOMAIN batch /\ \A i \in DOMAIN log : ~SameKey(log[i], batch[k])
  OBVIOUS
<1>4. \A n \in DOMAIN batch \ K : \E i \in DOMAIN log : SameKey(log[i], batch[n])
  OBVIOUS
<1>5. new = log \o add
  BY DEF Emit
<1> HIDE DEF K, new
<1>6. /\ add \in Seq(Event) /\ Len(add) = Cardinality(K)
      /\ Ascending(K) \in [1 .. Len(add) -> K]
      /\ \A n \in 1 .. Len(add) : add[n] = batch[Ascending(K)[n]]
      /\ \A k \in K : \E n \in 1 .. Len(add) : Ascending(K)[n] = k
  BY <1>2, PickedKeepsOrder
<1>7. Len(add) \in 0 .. Len(batch)
  <2> DEFINE n == Len(batch)
  <2>1. IsFiniteSet(1 .. n) /\ Cardinality(1 .. n) = n
    <3> HIDE DEF n
    <3>1. n \in Nat
      BY <1>1 DEF n
    <3> QED
      BY <3>1, FS_Interval
  <2>2. Cardinality(K) <= Len(batch)
    BY <1>2, <2>1, FS_Subset
  <2> QED
    BY <1>1, <1>6, <2>2
<1> HIDE DEF add
<1>8. /\ new \in Seq(Event) /\ Len(new) = Len(log) + Len(add)
      /\ DOMAIN new = 1 .. Len(log) + Len(add) /\ DOMAIN add = 1 .. Len(add)
      /\ \A i \in DOMAIN log : i \in DOMAIN new /\ new[i] = log[i]
      /\ \A k \in DOMAIN add : k + Len(log) \in DOMAIN new /\ new[k + Len(log)] = add[k]
      /\ \A i \in DOMAIN new :
            i \in DOMAIN log \/ (i - Len(log) \in DOMAIN add /\ new[i] = add[i - Len(log)])
  BY <1>1, <1>6, <1>5, ConcatElements
<1>9. \A i \in DOMAIN new : i \notin DOMAIN log => \E n \in DOMAIN batch : new[i] = batch[n]
  <2> SUFFICES ASSUME NEW i \in DOMAIN new, i \notin DOMAIN log
               PROVE  \E n \in DOMAIN batch : new[i] = batch[n]
    OBVIOUS
  <2>1. i - Len(log) \in 1 .. Len(add) /\ new[i] = add[i - Len(log)]
    BY <1>8
  <2>2. Ascending(K)[i - Len(log)] \in K
    BY <1>6, <2>1
  <2> QED
    BY <1>6, <1>3, <2>1, <2>2
<1>10. \A n \in DOMAIN batch :
        \/ \E i \in DOMAIN log : SameKey(log[i], batch[n])
        \/ \E i \in DOMAIN new \ DOMAIN log : new[i] = batch[n]
  <2> SUFFICES ASSUME NEW n \in K
               PROVE  \E i \in DOMAIN new \ DOMAIN log : new[i] = batch[n]
    BY <1>4
  <2>1. PICK k \in 1 .. Len(add) : Ascending(K)[k] = n
    BY <1>6
  <2>2. add[k] = batch[n]
    BY <1>6, <2>1
  <2>3. k + Len(log) \in DOMAIN new /\ new[k + Len(log)] = add[k]
    BY <1>8
  <2>4. k + Len(log) \notin DOMAIN log
    BY <1>1
  <2> QED
    BY <2>2, <2>3, <2>4
<1> QED
  BY <1>1, <1>7, <1>8, <1>9, <1>10 DEF new

(* The first inventory gives one entry, the baseline. *)
LEMMA FirstEvents ==
    ASSUME NEW c, Listening(state) = {}
    PROVE  EventsOf(c) = <<[kind |-> "MONITOR_START", count |-> Cardinality(Listening(c))]>>
BY DEF EventsOf

(* Every other one gives an entry for each port that differs, and no        *)
(* baseline.                                                                *)
LEMMA LaterEvents ==
    ASSUME TypeOK, NEW c, Listening(state) # {}
    PROVE  /\ EventsOf(c) \in Seq(Event)
           /\ \A n \in DOMAIN EventsOf(c) :
                 \/ /\ EventsOf(c)[n].kind = "NEW_PORT"
                    /\ EventsOf(c)[n].port \in Listening(c) \ Listening(state)
                 \/ /\ EventsOf(c)[n].kind = "PORT_CLOSED"
                    /\ EventsOf(c)[n].port \in Listening(state) \ Listening(c)
           /\ \A p \in Listening(c) \ Listening(state) :
                 \E n \in DOMAIN EventsOf(c) :
                    EventsOf(c)[n].kind = "NEW_PORT" /\ EventsOf(c)[n].port = p
<1> DEFINE N    == Listening(c) \ Listening(state)
           G    == Listening(state) \ Listening(c)
           new  == SetToSeq(N)
           gone == SetToSeq(G)
           s    == [i \in DOMAIN new |-> Opened(new[i], c[new[i]])]
           t    == [i \in DOMAIN gone |-> Closed(gone[i])]
<1>1. EventsOf(c) = s \o t
  BY DEF EventsOf
<1>2. N \subseteq Ports /\ G \subseteq Ports /\ IsFiniteSet(N) /\ IsFiniteSet(G)
  BY PortSyncAssumption, FS_Subset DEF Listening
<1>3. /\ new \in Seq(N) /\ DOMAIN new = 1 .. Len(new) /\ Len(new) \in Nat
      /\ \A x \in N : \E i \in DOMAIN new : new[i] = x
      /\ gone \in Seq(G) /\ DOMAIN gone = 1 .. Len(gone) /\ Len(gone) \in Nat
  <2> HIDE DEF N, G
  <2> QED
    BY <1>2, SetToSeqLists
<1> HIDE DEF new, gone
<1>4. \A i \in DOMAIN new : new[i] \in N
  BY <1>3
<1>5. \A i \in DOMAIN gone : gone[i] \in G
  BY <1>3
<1>6. hour \in 0 .. MaxHours
  BY DEF TypeOK
<1>7. \A p \in Ports : Opened(p, c[p]) \in Event /\ Closed(p) \in Event
  BY <1>6 DEF Opened, Closed, Event
<1>8. s \in [1 .. Len(new) -> Event] /\ t \in [1 .. Len(gone) -> Event]
  BY <1>2, <1>3, <1>4, <1>5, <1>7
<1>9. \A i \in DOMAIN s : s[i].kind = "NEW_PORT" /\ s[i].port \in N /\ s[i].port = new[i]
  BY <1>4 DEF Opened
<1>10. \A i \in DOMAIN t : t[i].kind = "PORT_CLOSED" /\ t[i].port \in G
  BY <1>5 DEF Closed
<1>11. DOMAIN s = DOMAIN new
  OBVIOUS
<1> HIDE DEF s, t, N, G
<1>12. s \in Seq(Event) /\ t \in Seq(Event)
  BY <1>3, <1>8, FunctionsAreSequences
<1>13. /\ s \o t \in Seq(Event)
       /\ \A k \in DOMAIN s : k \in DOMAIN (s \o t) /\ (s \o t)[k] = s[k]
       /\ \A k \in DOMAIN (s \o t) :
             \/ k \in DOMAIN s /\ (s \o t)[k] = s[k]
             \/ k - Len(s) \in DOMAIN t /\ (s \o t)[k] = t[k - Len(s)]
  BY <1>12, ConcatElements
<1>14. \A n \in DOMAIN (s \o t) :
          \/ (s \o t)[n].kind = "NEW_PORT" /\ (s \o t)[n].port \in N
          \/ (s \o t)[n].kind = "PORT_CLOSED" /\ (s \o t)[n].port \in G
  BY <1>9, <1>10, <1>13
<1>15. \A p \in N : \E n \in DOMAIN (s \o t) :
          (s \o t)[n].kind = "NEW_PORT" /\ (s \o t)[n].port = p
  BY <1>3, <1>9, <1>11, <1>13
<1> QED
  BY <1>1, <1>13, <1>14, <1>15 DEF N, G

-----------------------------------------------------------------------------
(* The inductive invariant, and the theorems. *)

(* Each of the three needs the others: a baseline that is first and alone   *)
(* is what says that an empty inventory has no story yet, and that the      *)
(* listeners of the first one all count as announced.                       *)
PortInv == TypeOK /\ BaselineOnce /\ KnownPortsWereAnnounced

(* Known before the n-th entry of log, as KnownPortsWereAnnounced has it.   *)
Announced(log, base, p, n) ==
    \/ p \in base
    \/ \E i \in 1 .. n : log[i].kind = "NEW_PORT" /\ log[i].port = p

(* The first inventory founds the baseline. *)
LEMMA FirstSync ==
    ASSUME PortInv, Sync, Listening(state) = {}
    PROVE  PortInv'
<1>1. PICK c \in Collected :
        /\ Listening(c) # {}
        /\ state' = c
        /\ feed' = Emit(feed, EventsOf(c))
        /\ baseline' = Listening(c)
        /\ UNCHANGED <<sockets, hidden, hour, changes>>
  BY DEF Sync
<1> DEFINE e == [kind |-> "MONITOR_START", count |-> Cardinality(Listening(c))]
<1>2. feed = <<>> /\ feed \in Seq(Event) /\ EventsOf(c) = <<e>>
  BY FirstEvents DEF PortInv, BaselineOnce, TypeOK
<1>3. c \in [Ports -> Addresses \cup {NoAddress}]
  BY CollectedAddresses
<1>4. IsFiniteSet(Listening(c)) /\ Listening(c) \subseteq Ports
  BY PortSyncAssumption, FS_Subset DEF Listening
<1>5. Cardinality(Listening(c)) \in Nat
  <2> DEFINE L == Listening(c)
  <2> HIDE DEF L
  <2>1. IsFiniteSet(L)
    BY <1>4 DEF L
  <2> QED
    BY <2>1, FS_CardinalityType DEF L
<1>6. e \in Event /\ e.kind = "MONITOR_START"
  BY <1>5 DEF Event
<1> HIDE DEF e
<1>7. <<e>> \in Seq(Event) /\ Len(<<e>>) = 1 /\ DOMAIN <<e>> = {1} /\ <<e>>[1] = e
  BY <1>6
<1>8. feed' = <<e>>
  <2>1. /\ feed' \in Seq(Event) /\ Len(feed') \in 0 .. 1
        /\ \A i \in DOMAIN feed' : i \notin DOMAIN feed => \E n \in {1} : feed'[i] = <<e>>[n]
        /\ \/ \E i \in DOMAIN feed : SameKey(feed[i], e)
           \/ \E i \in DOMAIN feed' : feed'[i] = e
    <3> DEFINE s == <<e>>
    <3> HIDE DEF s
    <3>1. s \in Seq(Event) /\ Len(s) = 1 /\ DOMAIN s = {1} /\ s[1] = e
      BY <1>7 DEF s
    <3>2. feed' = Emit(feed, s)
      BY <1>1, <1>2 DEF s
    <3>3. Len(feed) = 0
      BY <1>2
    <3>4. /\ Emit(feed, s) \in Seq(Event)
          /\ Len(Emit(feed, s)) \in Len(feed) .. Len(feed) + Len(s)
          /\ \A i \in DOMAIN Emit(feed, s) :
                i \notin DOMAIN feed => \E n \in DOMAIN s : Emit(feed, s)[i] = s[n]
          /\ \A n \in DOMAIN s :
                \/ \E i \in DOMAIN feed : SameKey(feed[i], s[n])
                \/ \E i \in DOMAIN Emit(feed, s) \ DOMAIN feed : Emit(feed, s)[i] = s[n]
      BY <1>2, <3>1, EmitAppends
    <3> QED
      BY <3>1, <3>2, <3>3, <3>4 DEF s
  <2>2. DOMAIN feed = {}
    BY <1>2
  <2>3. DOMAIN feed' = 1 .. Len(feed') /\ DOMAIN feed' # {}
    BY <2>1, <2>2
  <2>4. Len(feed') = 1 /\ feed'[1] = e
    BY <1>7, <2>1, <2>2, <2>3
  <2> QED
    BY <1>7, <2>1, <2>4
<1>9. TypeOK'
  BY <1>1, <1>3, <1>4, <1>7, <1>8 DEF PortInv, TypeOK
<1>10. BaselineOnce'
  <2>1. Listening(state') # {} /\ feed' # <<>>
    BY <1>1, <1>7, <1>8
  <2>2. \A i \in DOMAIN feed' : i = 1 /\ feed'[i].kind = "MONITOR_START"
    BY <1>6, <1>7, <1>8
  <2> QED
    BY <2>1, <2>2 DEF BaselineOnce, Listening
<1>11. KnownPortsWereAnnounced'
  <2>1. \A p \in Listening(state') : p \in baseline'
    BY <1>1
  <2>2. \A i \in DOMAIN feed' : feed'[i].kind # "PORT_CLOSED"
    BY <1>6, <1>7, <1>8
  <2> QED
    BY <2>1, <2>2 DEF KnownPortsWereAnnounced, Listening
<1> QED
  BY <1>9, <1>10, <1>11 DEF PortInv

(* A later one tells what changed. *)
LEMMA LaterSync ==
    ASSUME PortInv, Sync, Listening(state) # {}
    PROVE  PortInv'
<1>1. PICK c \in Collected :
        /\ Listening(c) # {}
        /\ state' = c
        /\ feed' = Emit(feed, EventsOf(c))
        /\ baseline' = baseline
        /\ UNCHANGED <<sockets, hidden, hour, changes>>
  BY DEF Sync
<1> DEFINE batch == EventsOf(c)
           old   == Listening(state)
           now   == Listening(c)
<1>2. /\ TypeOK /\ BaselineOnce /\ KnownPortsWereAnnounced
      /\ feed \in Seq(Event) /\ feed # <<>>
      /\ DOMAIN feed = 1 .. Len(feed) /\ Len(feed) \in Nat
  BY DEF PortInv, BaselineOnce, TypeOK
<1>3. c \in [Ports -> Addresses \cup {NoAddress}]
  BY CollectedAddresses
<1>4. /\ batch \in Seq(Event)
      /\ \A n \in DOMAIN batch :
            \/ batch[n].kind = "NEW_PORT" /\ batch[n].port \in now \ old
            \/ batch[n].kind = "PORT_CLOSED" /\ batch[n].port \in old \ now
      /\ \A p \in now \ old : \E n \in DOMAIN batch :
            batch[n].kind = "NEW_PORT" /\ batch[n].port = p
  BY <1>2, LaterEvents
<1> HIDE DEF batch
<1>5. /\ feed' \in Seq(Event)
      /\ Len(feed') >= Len(feed) /\ Len(feed') \in Nat /\ DOMAIN feed' = 1 .. Len(feed')
      /\ \A i \in DOMAIN feed : i \in DOMAIN feed' /\ feed'[i] = feed[i]
      /\ \A i \in DOMAIN feed' :
            i \notin DOMAIN feed => \E n \in DOMAIN batch : feed'[i] = batch[n]
      /\ \A n \in DOMAIN batch :
            \/ \E i \in DOMAIN feed : SameKey(feed[i], batch[n])
            \/ \E i \in DOMAIN feed' \ DOMAIN feed : feed'[i] = batch[n]
  <2>1. feed' = Emit(feed, batch)
    BY <1>1 DEF batch
  <2>2. /\ Emit(feed, batch) \in Seq(Event)
        /\ Len(Emit(feed, batch)) \in Len(feed) .. Len(feed) + Len(batch)
        /\ \A i \in DOMAIN feed :
              i \in DOMAIN Emit(feed, batch) /\ Emit(feed, batch)[i] = feed[i]
        /\ \A i \in DOMAIN Emit(feed, batch) :
              i \notin DOMAIN feed => \E n \in DOMAIN batch : Emit(feed, batch)[i] = batch[n]
        /\ \A n \in DOMAIN batch :
              \/ \E i \in DOMAIN feed : SameKey(feed[i], batch[n])
              \/ \E i \in DOMAIN Emit(feed, batch) \ DOMAIN feed : Emit(feed, batch)[i] = batch[n]
    BY <1>2, <1>4, EmitAppends
  <2>3. Len(batch) \in Nat
    BY <1>4
  <2> QED
    BY <1>2, <2>1, <2>2, <2>3
<1>6. Listening(state') = now
  BY <1>1
<1> HIDE DEF old, now
<1>7. \A i \in DOMAIN feed' \ DOMAIN feed :
        \/ feed'[i].kind = "NEW_PORT" /\ feed'[i].port \in now \ old
        \/ feed'[i].kind = "PORT_CLOSED" /\ feed'[i].port \in old \ now
  BY <1>4, <1>5
<1>8. TypeOK'
  BY <1>1, <1>2, <1>3, <1>5 DEF TypeOK
<1>9. BaselineOnce'
  <2>1. Listening(state') # {}
    BY <1>1
  <2>2. 1 \in DOMAIN feed
    BY <1>2, EmptySeq
  <2>3. feed' # <<>>
    BY <1>5, <2>2
  <2>4. \A i \in DOMAIN feed' : feed'[i].kind = "MONITOR_START" <=> i = 1
    BY <1>2, <1>5, <1>7, <2>2 DEF BaselineOnce
  <2> QED
    BY <2>1, <2>3, <2>4 DEF BaselineOnce, Listening
<1>10. \A p \in old : Announced(feed, baseline, p, Len(feed))
  BY <1>2 DEF KnownPortsWereAnnounced, Announced, old
<1>11. ASSUME NEW p, NEW n \in 0 .. Len(feed), NEW m \in n .. Len(feed'),
              Announced(feed, baseline, p, n)
       PROVE  Announced(feed', baseline', p, m)
  <2>1. CASE p \in baseline
    BY <1>1, <2>1 DEF Announced
  <2>2. CASE \E i \in 1 .. n : feed[i].kind = "NEW_PORT" /\ feed[i].port = p
    <3>1. PICK i \in 1 .. n : feed[i].kind = "NEW_PORT" /\ feed[i].port = p
      BY <2>2
    <3>2. i \in DOMAIN feed /\ i \in 1 .. m
      BY <1>2, <1>5
    <3> QED
      BY <1>5, <3>1, <3>2 DEF Announced
  <2> QED
    BY <1>11, <2>1, <2>2 DEF Announced
<1>12. \A p \in now : Announced(feed', baseline', p, Len(feed'))
  <2> TAKE p \in now
  <2>1. CASE p \in old
    <3>1. Len(feed) \in 0 .. Len(feed) /\ Len(feed') \in Len(feed) .. Len(feed')
      BY <1>2, <1>5
    <3> QED
      BY <1>10, <1>11, <2>1, <3>1
  <2>2. CASE p \notin old
    <3>1. PICK n \in DOMAIN batch : batch[n].kind = "NEW_PORT" /\ batch[n].port = p
      BY <1>4, <2>2
    <3>2. CASE \E i \in DOMAIN feed : SameKey(feed[i], batch[n])
      <4>1. PICK i \in DOMAIN feed : SameKey(feed[i], batch[n])
        BY <3>2
      <4>2. feed'[i].kind = "NEW_PORT" /\ feed'[i].port = p /\ i \in 1 .. Len(feed')
        BY <1>5, <3>1, <4>1 DEF SameKey
      <4> QED
        BY <4>2 DEF Announced
    <3>3. CASE \E i \in DOMAIN feed' \ DOMAIN feed : feed'[i] = batch[n]
      BY <1>5, <3>1, <3>3 DEF Announced
    <3> QED
      BY <1>5, <3>2, <3>3
  <2> QED
    BY <2>1, <2>2
<1>13. \A i \in DOMAIN feed' :
         feed'[i].kind = "PORT_CLOSED" => Announced(feed', baseline', feed'[i].port, i - 1)
  <2> SUFFICES ASSUME NEW i \in DOMAIN feed', feed'[i].kind = "PORT_CLOSED"
               PROVE  Announced(feed', baseline', feed'[i].port, i - 1)
    OBVIOUS
  <2>1. CASE i \in DOMAIN feed
    <3>1. feed'[i] = feed[i] /\ i - 1 \in 0 .. Len(feed) /\ i - 1 \in i - 1 .. Len(feed')
      BY <1>2, <1>5, <2>1
    <3>2. Announced(feed, baseline, feed[i].port, i - 1)
      BY <1>2, <2>1, <3>1 DEF KnownPortsWereAnnounced, Announced
    <3> QED
      BY <1>11, <3>1, <3>2
  <2>2. CASE i \notin DOMAIN feed
    <3>1. feed'[i].port \in old
      BY <1>7, <2>2
    <3>2. Len(feed) \in 0 .. Len(feed) /\ i - 1 \in Len(feed) .. Len(feed')
      BY <1>2, <1>5, <2>2
    <3> QED
      BY <1>10, <1>11, <3>1, <3>2
  <2> QED
    BY <2>1, <2>2
<1>14. KnownPortsWereAnnounced'
  BY <1>6, <1>12, <1>13 DEF KnownPortsWereAnnounced, Announced, Listening
<1> QED
  BY <1>8, <1>9, <1>14 DEF PortInv

(* What the invariant speaks of, every other step leaves alone. *)
LEMMA HostKeepsPortInv ==
    ASSUME PortInv, UNCHANGED <<state, feed, baseline>>, TypeOK'
    PROVE  PortInv'
  BY DEF PortInv, BaselineOnce, KnownPortsWereAnnounced, Listening

(* PortInv holds at the start, and every step preserves it. *)
LEMMA PortInvHolds ==
    /\ Init => PortInv
    /\ PortInv /\ [Next]_vars => PortInv'
<1>1. ASSUME Init PROVE PortInv
  <2>1. Files = {"v4", "v6"} /\ feed = <<>> /\ DOMAIN feed = {} /\ feed \in Seq(Event)
    BY <1>1 DEF Init, Files
  <2>2. Listening(state) = {}
    BY <1>1 DEF Init, Listening
  <2>3. TypeOK
    BY <1>1, <2>1, PortSyncAssumption DEF Init, TypeOK
  <2>4. BaselineOnce
    BY <2>1, <2>2 DEF BaselineOnce
  <2>5. KnownPortsWereAnnounced
    BY <2>1, <2>2 DEF KnownPortsWereAnnounced
  <2> QED
    BY <2>3, <2>4, <2>5 DEF PortInv
<1>2. ASSUME PortInv, [Next]_vars PROVE PortInv'
  <2>0. TypeOK
    BY <1>2 DEF PortInv
  <2>1. ASSUME NEW f \in Files, NEW p \in Ports, NEW a \in Addresses, Bind(f, p, a)
        PROVE  PortInv'
    <3>1. sockets' \in [Files -> SUBSET (Ports \X Addresses)]
      BY <2>0, <2>1 DEF Bind, TypeOK, Toggled
    <3>2. TypeOK'
      BY <2>0, <2>1, <3>1, PortSyncAssumption DEF Bind, Change, TypeOK
    <3> QED
      BY <1>2, <2>1, <3>2, HostKeepsPortInv DEF Bind
  <2>2. ASSUME NEW f \in Files, Hide(f) PROVE PortInv'
    <3>1. TypeOK'
      BY <2>0, <2>2, PortSyncAssumption DEF Hide, Change, Toggled, TypeOK
    <3> QED
      BY <1>2, <2>2, <3>1, HostKeepsPortInv DEF Hide
  <2>3. CASE HourPasses
    <3>1. hour' \in 0 .. MaxHours /\ hour \in 0 .. hour'
      BY <2>0, <2>3, PortSyncAssumption DEF HourPasses, TypeOK
    <3>2. TypeOK'
      BY <2>0, <2>3, <3>1 DEF HourPasses, TypeOK, Event
    <3> QED
      BY <1>2, <2>3, <3>2, HostKeepsPortInv DEF HourPasses
  <2>4. CASE Sync
    BY <1>2, <2>4, FirstSync, LaterSync
  <2>5. CASE UNCHANGED vars
    <3>1. TypeOK'
      BY <2>0, <2>5 DEF vars, TypeOK, Event
    <3> QED
      BY <1>2, <2>5, <3>1, HostKeepsPortInv DEF vars
  <2> QED
    BY <1>2, <2>1, <2>2, <2>3, <2>4, <2>5 DEF Next, SyncNothing
<1> QED
  BY <1>1, <1>2

(* Whatever is bound, closed, hidden or measured, the inventory is of ports *)
(* and addresses, the feed of well-formed entries.                          *)
THEOREM PortInvariant == CollectSpec => []PortInv
<1>1. CollectInit => PortInv
  BY PortInvHolds DEF CollectInit
<1>2. PortInv /\ [CollectNext]_collectVars => PortInv'
  BY PortInvHolds, StepsArePortSteps
<1> QED
  BY <1>1, <1>2, PTL DEF CollectSpec

(* _sync_ports records one baseline, first of all, and never another.       *)
THEOREM BaselineTheorem == CollectSpec => []BaselineOnce
<1>1. PortInv => BaselineOnce
  BY DEF PortInv
<1> QED
  BY <1>1, PortInvariant, PTL

(* No port is in port_state, or closed, that the feed has not told of: the  *)
(* hourly dedupe key never hides a port.                                    *)
THEOREM AnnouncedTheorem == CollectSpec => []KnownPortsWereAnnounced
<1>1. PortInv => KnownPortsWereAnnounced
  BY DEF PortInv
<1> QED
  BY <1>1, PortInvariant, PTL

(* collect keeps a public address of a port wherever a readable file lists  *)
(* one, so port_state never hides an exposure behind a private socket.      *)
THEOREM ExposureTheorem == CollectSpec => PublicExposureIsRecorded
<1> DEFINE A == state' # state =>
        \A p \in Ports :
            (\E f \in Files : \E a \in Seen(p, f) : a.net \in {"any", "routed"})
                => IsPublic(state'[p])
<1>1. [CollectNext]_collectVars => [A]_vars
  <2> SUFFICES ASSUME [CollectNext]_collectVars, state' # state,
                      NEW p \in Ports, NEW f \in Files, NEW a \in Seen(p, f),
                      a.net \in {"any", "routed"}
               PROVE  IsPublic(state'[p])
    OBVIOUS
  <2>1. [Next]_vars
    BY StepsArePortSteps
  <2>2. Sync
    BY <2>1 DEF Next, vars, Bind, Hide, HourPasses, SyncNothing
  <2>3. a \in Addresses /\ IsPublic(a)
    BY DEF Seen, IsPublic, Exposure
  <2>4. First(p, PublicAddresses) # {}
    BY <2>3 DEF First, Files, PublicAddresses
  <2> QED
    BY <2>2, <2>4, CollectedAddresses DEF Sync
<1> QED
  BY <1>1, PTL DEF CollectSpec, PublicExposureIsRecorded

-----------------------------------------------------------------------------
(* The rates: the kernel's counters and the collector's memory agree. *)

(* What the interfaces show of one direction: nothing of one that is gone.  *)
Shown(c, way) == [i \in Interfaces |-> IF c[i] = Unknown THEN 0 ELSE c[i][way]]

(* Total is the sum of that. *)
LEMMA TotalIsSum ==
    ASSUME NEW way
    PROVE  /\ Total(way)  = SumOver(Shown(counters, way), Interfaces)
           /\ Total(way)' = SumOver(Shown(counters', way), Interfaces)
<1>1. Total(way) = SumOver(Shown(counters, way), Interfaces)
  BY DEF Total, MapThenSumSet, MapThenFoldSet, SumOver, Sums, AnyOf, Shown
<1>2. Total(way)' = SumOver(Shown(counters', way), Interfaces)
  BY DEF Total, MapThenSumSet, MapThenFoldSet, SumOver, Sums, AnyOf, Shown
<1> QED
  BY <1>1, <1>2

(* What an interface shows is a number, below the modulus. *)
LEMMA ShownFits ==
    ASSUME RatesInv, NEW way \in {"rx", "tx"}
    PROVE  /\ \A i \in Interfaces : Shown(counters, way)[i] \in 0 .. Modulus - 1
           /\ Total(way) \in Nat
<1>0. Modulus \in Nat /\ Modulus > 0 /\ IsFiniteSet(Interfaces)
  BY RatesAssumption
<1>1. ASSUME NEW i \in Interfaces PROVE Shown(counters, way)[i] \in 0 .. Modulus - 1
  <2>1. CASE counters[i] = Unknown
    BY <1>0, <2>1 DEF Shown
  <2>2. CASE counters[i] # Unknown
    <3>1. counters[i] \in Bytes /\ counters[i][way] < Modulus
      BY <2>2 DEF RatesInv, RatesTypeOK
    <3>2. counters[i][way] \in Nat
      BY <3>1 DEF Bytes
    <3> QED
      BY <1>0, <2>2, <3>1, <3>2 DEF Shown
  <2> QED
    BY <2>1, <2>2
<1>2. \A i \in Interfaces : Shown(counters, way)[i] \in Nat
  BY <1>0, <1>1
<1>3. SumOver(Shown(counters, way), Interfaces) \in Nat
  BY <1>0, <1>2, SumTakesOut
<1> QED
  BY <1>1, <1>3, TotalIsSum

(* The total moves with the one interface that changes. *)
LEMMA TotalFollows ==
    ASSUME RatesInv, NEW way \in {"rx", "tx"}, NEW i \in Interfaces,
           \A j \in Interfaces : j # i => counters'[j] = counters[j],
           Shown(counters', way)[i] \in Nat
    PROVE  /\ Total(way) \in Nat /\ Total(way)' \in Nat
           /\ Total(way)' = Total(way) - Shown(counters, way)[i] + Shown(counters', way)[i]
<1> DEFINE v == Shown(counters, way)
           w == Shown(counters', way)
<1>1. \A j \in Interfaces : v[j] \in Nat
  <2>1. \A n \in 0 .. Modulus - 1 : n \in Nat
    BY RatesAssumption
  <2> QED
    BY <2>1, ShownFits
<1>2. \A j \in Interfaces : j # i => v[j] = w[j]
  BY DEF Shown
<1>3. \A j \in Interfaces : w[j] \in Nat
  BY <1>1, <1>2
<1> HIDE DEF v, w
<1>4. /\ SumOver(v, Interfaces) \in Nat /\ SumOver(w, Interfaces) \in Nat
      /\ SumOver(w, Interfaces) = SumOver(v, Interfaces) - v[i] + w[i]
  BY <1>1, <1>2, <1>3, RatesAssumption, SumFollows
<1> QED
  BY <1>4, TotalIsSum DEF v, w

(* The greater and the lesser of two numbers. *)
LEMMA MaxAndMin ==
    ASSUME NEW m \in Int, NEW n \in Int
    PROVE  /\ Max({m, n}) = IF m >= n THEN m ELSE n
           /\ Min({m, n}) = IF m <= n THEN m ELSE n
<1>1. /\ \A x \in {m, n} : (\A y \in {m, n} : x >= y) => x = IF m >= n THEN m ELSE n
      /\ \A x \in {m, n} : (\A y \in {m, n} : x <= y) => x = IF m <= n THEN m ELSE n
  OBVIOUS
<1>2. \E x \in {m, n} : \A y \in {m, n} : x >= y
  <2>1. (m >= n => (\A y \in {m, n} : m >= y)) /\ (~(m >= n) => (\A y \in {m, n} : n >= y))
    OBVIOUS
  <2> QED
    BY <2>1
<1>3. \E x \in {m, n} : \A y \in {m, n} : x <= y
  <2>1. (m <= n => (\A y \in {m, n} : m <= y)) /\ (~(m <= n) => (\A y \in {m, n} : n <= y))
    OBVIOUS
  <2> QED
    BY <2>1
<1>4. Max({m, n}) = IF m >= n THEN m ELSE n
  BY <1>1, <1>2 DEF Max
<1>5. Min({m, n}) = IF m <= n THEN m ELSE n
  BY <1>1, <1>3 DEF Min
<1> QED
  BY <1>4, <1>5

(* A part of a whole is between 0 and 100 percent of it. *)
LEMMA PercentOfWhole ==
    ASSUME NEW busy \in Nat, NEW idle \in Nat, busy + idle > 0
    PROVE  (busy * 100) \div (busy + idle) \in 0 .. 100
<1> DEFINE t == busy + idle
           q == (busy * 100) \div t
<1>1. q \in Nat /\ t \in Nat /\ t > 0 /\ busy <= t /\ q * t <= busy * 100
  OBVIOUS
<1> HIDE DEF q, t
<1>2. ASSUME q > 100 PROVE FALSE
  <2>1. q - 101 \in Nat
    BY <1>1, <1>2
  <2>2. (q - 101) * t >= 0
    BY <1>1, <2>1
  <2>3. (q - 101) * t = q * t - 101 * t
    BY <1>1
  <2> QED
    BY <1>1, <2>2, <2>3
<1> QED
  BY <1>1, <1>2 DEF q, t

(* What _cpu_linux makes of the interval. *)
LEMMA ShareOfInterval ==
    ASSUME RatesInv, prevCpu # Unknown
    PROVE  /\ Share \in 0 .. 100 \cup {Unknown}
           /\ ~worked.fell /\ worked.busy + worked.idle > 0
                => Share = (worked.busy * 100) \div (worked.busy + worked.idle)
<1> DEFINE busy  == jiffies.busy - prevCpu.busy
           total == busy + jiffies.idle - prevCpu.idle
           q     == (busy * 100) \div total
<1>1. /\ busy = worked.busy /\ total = worked.busy + worked.idle
      /\ busy \in Nat /\ worked.idle \in Int /\ total \in Int
      /\ ~worked.fell => worked.idle \in Nat
  BY DEF RatesInv, RatesTypeOK, Jiffies
<1>2. Share = IF total > 0 THEN Max({0, Min({100, q})}) ELSE Unknown
  BY DEF Share
<1> HIDE DEF busy, total
<1>3. ASSUME total > 0
      PROVE  /\ Share \in 0 .. 100
             /\ q \in 0 .. 100 => Share = q
  <2>1. q \in Int
    BY <1>1, <1>3
  <2> HIDE DEF q
  <2>2. Min({100, q}) = IF 100 <= q THEN 100 ELSE q
    BY <2>1, MaxAndMin
  <2> DEFINE low == Min({100, q})
  <2> HIDE DEF low
  <2>3. low \in Int /\ low <= 100 /\ (q \in 0 .. 100 => low = q)
    BY <2>1, <2>2 DEF low
  <2>4. Max({0, low}) = IF 0 >= low THEN 0 ELSE low
    BY <2>3, MaxAndMin
  <2>5. Share = Max({0, low})
    BY <1>2, <1>3 DEF low
  <2> QED
    BY <2>3, <2>4, <2>5
<1>4. ~worked.fell /\ total > 0 => q \in 0 .. 100
  BY <1>1, PercentOfWhole
<1> QED
  BY <1>1, <1>2, <1>3, <1>4

-----------------------------------------------------------------------------
(* The kernel's and the collector's steps. *)

(* A packet moves its total and what has passed since by one, or wraps. *)
LEMMA PacketKeepsRates ==
    ASSUME RatesInv, NEW i \in Interfaces, NEW way \in {"rx", "tx"}, Packet(i, way)
    PROVE  RatesInv'
<1> DEFINE c == counters[i][way]
           n == (c + 1) % Modulus
<1>1. counters[i] \in Bytes /\ c \in Nat /\ c < Modulus /\ Modulus \in Nat /\ Modulus > 0
  <2>1. counters[i] \in Bytes /\ c < Modulus
    BY DEF RatesInv, RatesTypeOK, Packet
  <2>2. c \in Nat
    BY <2>1 DEF Bytes
  <2> QED
    BY <2>1, <2>2, RatesAssumption
<1>2. n \in Nat /\ n < Modulus /\ n <= c + 1 /\ (n # 0 => n = c + 1)
  <2>1. c + 1 < Modulus \/ c + 1 = Modulus
    BY <1>1
  <2> HIDE DEF c
  <2>2. c + 1 < Modulus => (c + 1) % Modulus = c + 1
    BY <1>1
  <2>3. c + 1 = Modulus => (c + 1) % Modulus = 0
    BY <1>1
  <2> QED
    BY <1>1, <2>1, <2>2, <2>3
<1>3. /\ counters' = [counters EXCEPT ![i] = [counters[i] EXCEPT ![way] = n]]
      /\ counters'[i] = [counters[i] EXCEPT ![way] = n]
  BY DEF Packet, RatesInv, RatesTypeOK
<1>4. /\ counters'[i] \in Bytes /\ counters'[i][way] = n
      /\ \A other \in {"rx", "tx"} : other # way => counters'[i][other] = counters[i][other]
  BY <1>1, <1>2, <1>3 DEF Bytes
<1>5. \A j \in Interfaces : j # i => counters'[j] = counters[j]
  BY <1>3 DEF RatesInv, RatesTypeOK
<1>6. counters[i] # Unknown /\ counters'[i] # Unknown
  BY <1>4, RatesAssumption DEF Packet
<1>7. /\ since' = [since EXCEPT ![way] = since[way] + 1, !.fell = since.fell \/ n = 0]
      /\ UNCHANGED <<jiffies, unread, prevNet, prevCpu, worked, row>>
  BY <1>4 DEF Packet
<1> HIDE DEF c, n
<1>8. /\ since \in [rx : Nat, tx : Nat, polls : Nat, fell : BOOLEAN]
      /\ since' \in [rx : Nat, tx : Nat, polls : Nat, fell : BOOLEAN]
      /\ since'[way] = since[way] + 1 /\ since[way] \in Nat
      /\ \A other \in {"rx", "tx"} : other # way => since'[other] = since[other]
      /\ since'.fell = (since.fell \/ n = 0)
  <2>1. since \in [rx : Nat, tx : Nat, polls : Nat, fell : BOOLEAN]
    BY DEF RatesInv
  <2> DEFINE f == since.fell \/ n = 0
  <2>2. f \in BOOLEAN
    OBVIOUS
  <2>3. since' = [since EXCEPT ![way] = since[way] + 1, !.fell = f]
    BY <1>7
  <2> HIDE DEF f
  <2>4. since'.fell = f
    BY <2>1, <2>3
  <2> DEFINE Records == [rx : Nat, tx : Nat, polls : Nat, fell : BOOLEAN]
  <2>5. \A x \in Nat : /\ [since EXCEPT !.rx = x, !.fell = f] \in Records
                        /\ [since EXCEPT !.tx = x, !.fell = f] \in Records
    BY <2>1, <2>2
  <2> HIDE DEF Records
  <2>6. /\ since' \in Records
        /\ since'[way] = since[way] + 1 /\ since[way] \in Nat
        /\ \A other \in {"rx", "tx"} : other # way => since'[other] = since[other]
    <3>1. CASE way = "rx"
      <4>1. since' = [since EXCEPT !.rx = since.rx + 1, !.fell = f]
        BY <2>3, <3>1
      <4>2. since.rx \in Nat /\ since.tx \in Nat
        BY <2>1
      <4>3. since'.rx = since.rx + 1 /\ since'.tx = since.tx
        BY <2>1, <4>1
      <4>4. since.rx + 1 \in Nat
        BY <4>2
      <4>5. since' \in Records
        BY <2>5, <4>1, <4>4
      <4> QED
        BY <3>1, <4>2, <4>3, <4>5
    <3>2. CASE way = "tx"
      <4>1. since' = [since EXCEPT !.tx = since.tx + 1, !.fell = f]
        BY <2>3, <3>2
      <4>2. since.rx \in Nat /\ since.tx \in Nat
        BY <2>1
      <4>3. since'.tx = since.tx + 1 /\ since'.rx = since.rx
        BY <2>1, <4>1
      <4>4. since.tx + 1 \in Nat
        BY <4>2
      <4>5. since' \in Records
        BY <2>5, <4>1, <4>4
      <4> QED
        BY <3>2, <4>2, <4>3, <4>5
    <3> QED
      BY <3>1, <3>2
  <2> QED
    BY <2>1, <2>4, <2>6 DEF f, Records
<1>9. RatesTypeOK'
  BY <1>3, <1>4, <1>7 DEF RatesInv, RatesTypeOK
<1>10. \A j \in Interfaces, other \in {"rx", "tx"} :
          counters'[j] # Unknown => counters'[j][other] < Modulus
  BY <1>2, <1>4, <1>5, <1>6 DEF RatesInv
<1>11. ASSUME prevNet # Unknown, NEW other \in {"rx", "tx"}
       PROVE  /\ Total(other)' <= prevNet[other] + since'[other]
              /\ ~since'.fell => Total(other)' = prevNet[other] + since'[other]
  <2>1. /\ Shown(counters, other)[i] = counters[i][other]
        /\ Shown(counters', other)[i] = counters'[i][other]
    BY <1>6 DEF Shown
  <2>2. counters[i][other] \in Nat /\ counters'[i][other] \in Nat
    BY <1>1, <1>4 DEF Bytes
  <2>3. /\ Total(other) \in Nat /\ Total(other)' \in Nat
        /\ Total(other)' = Total(other) - counters[i][other] + counters'[i][other]
    BY <1>5, <2>1, <2>2, TotalFollows
  <2>4. prevNet[other] \in Nat /\ since[other] \in Nat
    BY <1>8, <1>11 DEF RatesInv, RatesTypeOK, Bytes
  <2>5. /\ Total(other) <= prevNet[other] + since[other]
        /\ ~since.fell => Total(other) = prevNet[other] + since[other]
    BY <1>11 DEF RatesInv
  <2>6. CASE other = way
    <3>1. counters[i][other] = c /\ counters'[i][other] = n
      BY <1>4, <2>6 DEF c
    <3> QED
      BY <1>1, <1>2, <1>8, <2>3, <2>4, <2>5, <2>6, <3>1
  <2>7. CASE other # way
    BY <1>4, <1>8, <2>2, <2>3, <2>4, <2>5, <2>7
  <2> QED
    BY <2>6, <2>7
<1> QED
  BY <1>7, <1>8, <1>9, <1>10, <1>11 DEF RatesInv

(* An interface that goes takes its count with it, and one that comes brings *)
(* none.                                                                     *)
LEMMA PlugKeepsRates ==
    ASSUME RatesInv, NEW i \in Interfaces, Plug(i)
    PROVE  RatesInv'
<1>1. NoBytes \in Bytes /\ \A way \in {"rx", "tx"} : NoBytes[way] = 0
  BY DEF NoBytes, Bytes
<1>2. NoBytes # Unknown
  BY <1>1, RatesAssumption
<1>3. /\ counters' = [counters EXCEPT ![i] = IF counters[i] = Unknown THEN NoBytes ELSE Unknown]
      /\ since' = [since EXCEPT !.fell = since.fell \/ counters[i] \notin {Unknown, NoBytes}]
      /\ UNCHANGED <<jiffies, unread, prevNet, prevCpu, worked, row>>
  BY DEF Plug
<1>4. /\ counters'[i] \in {NoBytes, Unknown}
      /\ \A j \in Interfaces : j # i => counters'[j] = counters[j]
  BY <1>3 DEF RatesInv, RatesTypeOK
<1>5. RatesTypeOK'
  BY <1>1, <1>3 DEF RatesInv, RatesTypeOK
<1>6. /\ since \in [rx : Nat, tx : Nat, polls : Nat, fell : BOOLEAN]
      /\ since' \in [rx : Nat, tx : Nat, polls : Nat, fell : BOOLEAN]
      /\ \A way \in {"rx", "tx"} : since'[way] = since[way] /\ since[way] \in Nat
      /\ since'.fell = (since.fell \/ counters[i] \notin {Unknown, NoBytes})
  BY <1>3 DEF RatesInv
<1>7. ASSUME NEW j \in Interfaces, NEW way \in {"rx", "tx"}, counters'[j] # Unknown
      PROVE  counters'[j][way] < Modulus
  <2>1. CASE j = i
    BY <1>1, <1>4, <1>7, <2>1, RatesAssumption
  <2>2. CASE j # i
    BY <1>4, <1>7, <2>2 DEF RatesInv
  <2> QED
    BY <2>1, <2>2
<1>8. ASSUME prevNet # Unknown, NEW way \in {"rx", "tx"}
      PROVE  /\ Total(way)' <= prevNet[way] + since'[way]
             /\ ~since'.fell => Total(way)' = prevNet[way] + since'[way]
  <2>1. Shown(counters', way)[i] = 0
    BY <1>1, <1>4 DEF Shown
  <2>2. Shown(counters, way)[i] \in 0 .. Modulus - 1
    BY ShownFits
  <2>3. counters[i] \in {Unknown, NoBytes} => Shown(counters, way)[i] = 0
    BY <1>1 DEF Shown
  <2>4. /\ Total(way) \in Nat /\ Total(way)' \in Nat
        /\ Total(way)' = Total(way) - Shown(counters, way)[i] + 0
    BY <1>4, <2>1, TotalFollows
  <2>5. prevNet[way] \in Nat /\ since[way] \in Nat
    BY <1>6, <1>8 DEF RatesInv, RatesTypeOK, Bytes
  <2>6. /\ Total(way) <= prevNet[way] + since[way]
        /\ ~since.fell => Total(way) = prevNet[way] + since[way]
    BY <1>8 DEF RatesInv
  <2> QED
    BY <1>6, <2>2, <2>3, <2>4, <2>5, <2>6, RatesAssumption
<1> QED
  BY <1>3, <1>5, <1>6, <1>7, <1>8 DEF RatesInv

(* A step that leaves the network's counters and their memory alone leaves  *)
(* the totals as they are.                                                  *)
LEMMA NetworkRests ==
    ASSUME RatesInv, UNCHANGED <<counters, prevNet, since>>
    PROVE  /\ since' \in [rx : Nat, tx : Nat, polls : Nat, fell : BOOLEAN]
           /\ \A i \in Interfaces, way \in {"rx", "tx"} :
                 counters'[i] # Unknown => counters'[i][way] < Modulus
           /\ prevNet' # Unknown => \A way \in {"rx", "tx"} :
                 /\ Total(way)' <= prevNet'[way] + since'[way]
                 /\ ~since'.fell => Total(way)' = prevNet'[way] + since'[way]
<1>1. \A way \in {"rx", "tx"} : Total(way)' = Total(way)
  BY TotalIsSum DEF Shown
<1> QED
  BY <1>1 DEF RatesInv

(* The processor works, in either way, and its idle time may fall. *)
LEMMA ProcessorKeepsRates ==
    ASSUME RatesInv, \/ Work("busy") \/ Work("idle") \/ IdleFalls
    PROVE  RatesInv'
<1>1. UNCHANGED <<counters, unread, prevNet, prevCpu, since, row>>
  BY DEF Work, IdleFalls
<1>2. jiffies.busy \in Nat /\ jiffies.idle \in Nat
  BY DEF RatesInv, RatesTypeOK, Jiffies
<1>3. /\ worked \in [busy : Nat, idle : Int, fell : BOOLEAN]
      /\ worked.busy \in Nat /\ worked.idle \in Int /\ worked.fell \in BOOLEAN
  BY DEF RatesInv
<1>4. /\ jiffies' \in Jiffies
      /\ worked' \in [busy : Nat, idle : Int, fell : BOOLEAN]
      /\ jiffies'.busy - jiffies.busy = worked'.busy - worked.busy
      /\ jiffies'.idle - jiffies.idle = worked'.idle - worked.idle
      /\ ~worked'.fell => ~worked.fell /\ worked'.idle >= worked.idle
  <2>1. CASE Work("busy")
    <3>1. /\ jiffies' = [jiffies EXCEPT !.busy = jiffies.busy + 1]
          /\ worked' = [worked EXCEPT !.busy = worked.busy + 1]
      BY <2>1 DEF Work
    <3>2. jiffies'.busy = jiffies.busy + 1 /\ jiffies'.idle = jiffies.idle
      BY <3>1 DEF RatesInv, RatesTypeOK, Jiffies
    <3>3. /\ worked'.busy = worked.busy + 1 /\ worked'.idle = worked.idle
          /\ worked'.fell = worked.fell
      BY <1>3, <3>1
    <3>4. jiffies' \in Jiffies
      BY <1>2, <3>1 DEF RatesInv, RatesTypeOK, Jiffies
    <3>5. worked' \in [busy : Nat, idle : Int, fell : BOOLEAN]
      BY <1>3, <3>1
    <3> QED
      BY <1>2, <1>3, <3>2, <3>3, <3>4, <3>5
  <2>2. CASE Work("idle")
    <3>1. /\ jiffies' = [jiffies EXCEPT !.idle = jiffies.idle + 1]
          /\ worked' = [worked EXCEPT !.idle = worked.idle + 1]
      BY <2>2 DEF Work
    <3>2. jiffies'.busy = jiffies.busy /\ jiffies'.idle = jiffies.idle + 1
      BY <3>1 DEF RatesInv, RatesTypeOK, Jiffies
    <3>3. /\ worked'.busy = worked.busy /\ worked'.idle = worked.idle + 1
          /\ worked'.fell = worked.fell
      BY <1>3, <3>1
    <3>4. jiffies' \in Jiffies
      BY <1>2, <3>1 DEF RatesInv, RatesTypeOK, Jiffies
    <3>5. worked' \in [busy : Nat, idle : Int, fell : BOOLEAN]
      BY <1>3, <3>1
    <3> QED
      BY <1>2, <1>3, <3>2, <3>3, <3>4, <3>5
  <2>3. CASE IdleFalls
    <3>1. /\ jiffies.idle > 0
          /\ jiffies' = [jiffies EXCEPT !.idle = jiffies.idle - 1]
          /\ worked' = [worked EXCEPT !.idle = worked.idle - 1, !.fell = TRUE]
      BY <2>3 DEF IdleFalls
    <3>2. jiffies'.busy = jiffies.busy /\ jiffies'.idle = jiffies.idle - 1
      BY <3>1 DEF RatesInv, RatesTypeOK, Jiffies
    <3>3. /\ worked'.busy = worked.busy /\ worked'.idle = worked.idle - 1
          /\ worked'.fell = TRUE
      BY <1>3, <3>1
    <3>4. jiffies' \in Jiffies
      BY <1>2, <3>1 DEF RatesInv, RatesTypeOK, Jiffies
    <3>5. worked' \in [busy : Nat, idle : Int, fell : BOOLEAN]
      <4>1. \A n \in Int : [worked EXCEPT !.idle = n, !.fell = TRUE]
                             \in [busy : Nat, idle : Int, fell : BOOLEAN]
        BY <1>3
      <4>2. worked.idle - 1 \in Int
        BY <1>3
      <4>3. [worked EXCEPT !.idle = worked.idle - 1, !.fell = TRUE]
               \in [busy : Nat, idle : Int, fell : BOOLEAN]
        BY <4>1, <4>2
      <4> QED
        BY <3>1, <4>3
    <3> QED
      BY <1>2, <1>3, <3>2, <3>3, <3>4, <3>5
  <2> QED
    BY <2>1, <2>2, <2>3
<1>5. /\ jiffies'.busy \in Nat /\ jiffies'.idle \in Nat
      /\ worked'.busy \in Nat /\ worked'.idle \in Int
  BY <1>4 DEF Jiffies
<1>6. RatesTypeOK'
  BY <1>1, <1>4 DEF RatesInv, RatesTypeOK
<1>7. ~worked'.fell => worked'.idle >= 0
  BY <1>3, <1>4, <1>5 DEF RatesInv
<1>8. prevCpu' # Unknown => /\ jiffies'.busy = prevCpu'.busy + worked'.busy
                            /\ jiffies'.idle = prevCpu'.idle + worked'.idle
  <2>1. prevCpu # Unknown => /\ prevCpu.busy \in Nat /\ prevCpu.idle \in Nat
                             /\ jiffies.busy = prevCpu.busy + worked.busy
                             /\ jiffies.idle = prevCpu.idle + worked.idle
    BY DEF RatesInv, RatesTypeOK, Jiffies
  <2>2. /\ jiffies'.busy - jiffies.busy = worked'.busy - worked.busy
        /\ jiffies'.idle - jiffies.idle = worked'.idle - worked.idle
    BY <1>4
  <2>3. worked.busy \in Nat /\ worked.idle \in Int
    BY <1>3
  <2>4. prevCpu # Unknown => /\ jiffies'.busy = prevCpu.busy + worked'.busy
                             /\ jiffies'.idle = prevCpu.idle + worked'.idle
    BY <1>2, <1>5, <2>1, <2>2, <2>3
  <2> QED
    BY <1>1, <2>4
<1> QED
  BY <1>1, <1>4, <1>6, <1>7, <1>8, NetworkRests DEF RatesInv

(* A file becomes unreadable, or readable again. *)
LEMMA LoseKeepsRates ==
    ASSUME RatesInv, NEW file \in {"net", "cpu"}, Lose(file)
    PROVE  RatesInv'
<1>1. RatesTypeOK'
  BY DEF Lose, RatesInv, RatesTypeOK
<1> QED
  BY <1>1, NetworkRests DEF Lose, RatesInv

(* A new process remembers nothing. *)
LEMMA RestartKeepsRates ==
    ASSUME RatesInv, Restart
    PROVE  RatesInv'
<1>1. RatesTypeOK'
  BY DEF Restart, RatesInv, RatesTypeOK
<1>2. Nothing \in [rx : Nat, tx : Nat, polls : Nat, fell : BOOLEAN]
  BY DEF Nothing
<1>3. NoWork \in [busy : Nat, idle : Int, fell : BOOLEAN] /\ NoWork.idle >= 0
  BY DEF NoWork
<1> QED
  BY <1>1, <1>2, <1>3 DEF Restart, RatesInv

-----------------------------------------------------------------------------

(* What _network and _cpu_linux make of a reading. *)
LEMMA ThroughputOfInterval ==
    ASSUME RatesInv
    PROVE  /\ Throughput.rx \in Nat \cup {Unknown} /\ Throughput.tx \in Nat \cup {Unknown}
           /\ Throughput.rx # Unknown =>
                 /\ Throughput.rx \in 0 .. since.rx /\ Throughput.tx \in 0 .. since.tx
                 /\ Throughput.polls = since.polls + 1
                 /\ ~since.fell => Throughput.rx = since.rx /\ Throughput.tx = since.tx
           /\ prevNet # Unknown /\ ~since.fell => Throughput.rx # Unknown
<1>1. Total("rx") \in Nat /\ Total("tx") \in Nat
  BY ShownFits
<1>2. NetCounters.rx = Total("rx") /\ NetCounters.tx = Total("tx")
  BY DEF NetCounters
<1>3. since.rx \in Nat /\ since.tx \in Nat /\ since.fell \in BOOLEAN
  BY DEF RatesInv
<1>4. Unknown \notin Nat
  BY RatesAssumption
<1>5. CASE prevNet = Unknown
  <2>1. Throughput = [rx |-> Unknown, tx |-> Unknown, polls |-> 0]
    BY <1>5 DEF Throughput
  <2> QED
    BY <1>5, <2>1
<1>6. CASE prevNet # Unknown
  <2>1. prevNet.rx \in Nat /\ prevNet.tx \in Nat
    BY <1>6 DEF RatesInv, RatesTypeOK, Bytes
  <2>2. /\ Total("rx") <= prevNet.rx + since.rx /\ Total("tx") <= prevNet.tx + since.tx
        /\ ~since.fell => /\ Total("rx") = prevNet.rx + since.rx
                          /\ Total("tx") = prevNet.tx + since.tx
    BY <1>6 DEF RatesInv
  <2>3. CASE Total("rx") >= prevNet.rx /\ Total("tx") >= prevNet.tx
    <3>1. Throughput = [rx |-> Total("rx") - prevNet.rx, tx |-> Total("tx") - prevNet.tx,
                        polls |-> since.polls + 1]
      BY <1>2, <1>6, <2>3 DEF Throughput
    <3>2. Total("rx") - prevNet.rx \in Nat /\ Total("tx") - prevNet.tx \in Nat
      BY <1>1, <2>1, <2>3
    <3> QED
      BY <1>1, <1>3, <1>4, <2>1, <2>2, <3>1, <3>2
  <2>4. CASE ~(Total("rx") >= prevNet.rx /\ Total("tx") >= prevNet.tx)
    <3>1. Throughput = [rx |-> Unknown, tx |-> Unknown, polls |-> 0]
      BY <1>2, <2>4 DEF Throughput
    <3>2. since.fell
      BY <1>1, <1>3, <2>1, <2>2, <2>4
    <3> QED
      BY <3>1, <3>2
  <2> QED
    BY <2>3, <2>4
<1> QED
  BY <1>5, <1>6

(* A cycle that reads, and stores or does not. *)
LEMMA MeasureKeepsRates ==
    ASSUME RatesInv, NEW stored \in BOOLEAN, Measure(stored)
    PROVE  RatesInv'
<1>1. UNCHANGED <<counters, jiffies, unread>>
  BY DEF Measure
<1>2. Total("rx") \in Nat /\ Total("tx") \in Nat
  BY ShownFits
<1>3. \A way \in {"rx", "tx"} : Total(way)' = Total(way) /\ NetCounters[way] = Total(way)
  <2>1. \A way \in {"rx", "tx"} : Shown(counters', way) = Shown(counters, way)
    BY <1>1 DEF Shown
  <2>2. \A way \in {"rx", "tx"} : Total(way)' = Total(way)
    BY <2>1, TotalIsSum
  <2>3. NetCounters.rx = Total("rx") /\ NetCounters.tx = Total("tx")
    BY DEF NetCounters
  <2> QED
    BY <2>2, <2>3
<1>4. NetCounters \in Bytes
  BY <1>2 DEF NetCounters, Bytes
<1>5. /\ Nothing \in [rx : Nat, tx : Nat, polls : Nat, fell : BOOLEAN]
      /\ Nothing.rx = 0 /\ Nothing.tx = 0
  BY DEF Nothing
<1>6. /\ NoWork \in [busy : Nat, idle : Int, fell : BOOLEAN]
      /\ NoWork.busy = 0 /\ NoWork.idle = 0
  BY DEF NoWork
<1>7. RatesTypeOK'
  <2>1. /\ prevNet' \in Bytes \cup {Unknown} /\ prevCpu' \in Jiffies \cup {Unknown}
    BY <1>4 DEF Measure, RatesInv, RatesTypeOK
  <2>2. /\ row'.rx \in Nat \cup {Unknown} /\ row'.tx \in Nat \cup {Unknown}
        /\ row'.cpu \in 0 .. 100 \cup {Unknown}
    <3>1. CASE ~stored
      BY <3>1 DEF Measure, RatesInv, RatesTypeOK
    <3>2. CASE stored
      <4>1. row'.rx \in {Throughput.rx, Unknown} /\ row'.tx \in {Throughput.tx, Unknown}
        BY <3>2 DEF Measure
      <4>2. row'.cpu = Unknown \/ (prevCpu # Unknown /\ row'.cpu = Share)
        BY <3>2 DEF Measure
      <4> QED
        BY <4>1, <4>2, ThroughputOfInterval, ShareOfInterval
    <3> QED
      BY <3>1, <3>2
  <2> QED
    BY <1>1, <2>1, <2>2 DEF RatesInv, RatesTypeOK
<1>8. /\ since' \in [rx : Nat, tx : Nat, polls : Nat, fell : BOOLEAN]
      /\ prevNet' # Unknown => \A way \in {"rx", "tx"} :
            /\ Total(way)' <= prevNet'[way] + since'[way]
            /\ ~since'.fell => Total(way)' = prevNet'[way] + since'[way]
  <2>1. CASE "net" \notin unread
    <3>1. prevNet' = NetCounters /\ since' = Nothing
      BY <2>1 DEF Measure
    <3> QED
      BY <1>2, <1>3, <1>5, <3>1
  <2>2. CASE "net" \in unread
    <3>1. prevNet' = prevNet /\ since' = [since EXCEPT !.polls = since.polls + 1]
      BY <2>2 DEF Measure
    <3>2. /\ since' \in [rx : Nat, tx : Nat, polls : Nat, fell : BOOLEAN]
          /\ since'.rx = since.rx /\ since'.tx = since.tx /\ since'.fell = since.fell
      BY <3>1 DEF RatesInv
    <3> QED
      BY <1>3, <3>1, <3>2 DEF RatesInv
  <2> QED
    BY <2>1, <2>2
<1>9. /\ worked' \in [busy : Nat, idle : Int, fell : BOOLEAN]
      /\ ~worked'.fell => worked'.idle >= 0
      /\ prevCpu' # Unknown => /\ jiffies'.busy = prevCpu'.busy + worked'.busy
                               /\ jiffies'.idle = prevCpu'.idle + worked'.idle
  <2>1. CASE "cpu" \notin unread
    <3>1. prevCpu' = jiffies /\ worked' = NoWork
      BY <2>1 DEF Measure
    <3>2. jiffies.busy \in Nat /\ jiffies.idle \in Nat
      BY DEF RatesInv, RatesTypeOK, Jiffies
    <3> QED
      BY <1>1, <1>6, <3>1, <3>2
  <2>2. CASE "cpu" \in unread
    <3>1. prevCpu' = prevCpu /\ worked' = worked
      BY <2>2 DEF Measure
    <3> QED
      BY <1>1, <3>1 DEF RatesInv
  <2> QED
    BY <2>1, <2>2
<1> QED
  BY <1>1, <1>7, <1>8, <1>9 DEF RatesInv

-----------------------------------------------------------------------------

(* RatesInv holds initially, and every step of the composition keeps it. *)
LEMMA RatesHold ==
    /\ CollectInit => RatesInv
    /\ RatesInv /\ [CollectNext]_collectVars => RatesInv'
<1>1. ASSUME CollectInit PROVE RatesInv
  <2>1. RatesTypeOK
    <3>1. NoBytes \in Bytes /\ EmptyRow.rx = Unknown /\ EmptyRow.tx = Unknown
          /\ EmptyRow.cpu = Unknown
      BY DEF NoBytes, Bytes, EmptyRow
    <3> QED
      BY <1>1, <3>1 DEF CollectInit, RatesInit, RatesTypeOK, Jiffies
  <2>2. Nothing \in [rx : Nat, tx : Nat, polls : Nat, fell : BOOLEAN]
    BY DEF Nothing
  <2>3. NoWork \in [busy : Nat, idle : Int, fell : BOOLEAN] /\ NoWork.idle >= 0
    BY DEF NoWork
  <2>4. \A i \in Interfaces, way \in {"rx", "tx"} : counters[i][way] < Modulus
    BY <1>1, RatesAssumption DEF CollectInit, RatesInit, NoBytes
  <2> QED
    BY <1>1, <2>1, <2>2, <2>3, <2>4 DEF CollectInit, RatesInit, RatesInv
<1>2. ASSUME RatesInv, UNCHANGED rateVars PROVE RatesInv'
  <2>1. RatesTypeOK'
    BY <1>2 DEF RatesInv, RatesTypeOK, rateVars
  <2> QED
    BY <1>2, <2>1, NetworkRests DEF RatesInv, rateVars
<1>3. ASSUME RatesInv, CollectNext PROVE RatesInv'
  <2>1. CASE Cycle
    BY <1>3, <2>1, MeasureKeepsRates DEF Cycle
  <2>2. CASE CycleRaises
    BY <1>3, <2>2, MeasureKeepsRates DEF CycleRaises
  <2>3. CASE CountersChange
    BY <1>3, <2>3, PlugKeepsRates, PacketKeepsRates, ProcessorKeepsRates,
       LoseKeepsRates, RestartKeepsRates DEF CountersChange
  <2>4. CASE SocketsChange
    BY <1>2, <1>3, <2>4 DEF SocketsChange
  <2> QED
    BY <1>3, <2>1, <2>2, <2>3, <2>4 DEF CollectNext
<1> QED
  BY <1>1, <1>2, <1>3 DEF collectVars

(* The memory of the collector and the counters of the kernel agree, and a  *)
(* share is between 0 and 100 percent, for any number of interfaces and any *)
(* width of their counters.                                                 *)
THEOREM CollectInvariant == CollectSpec => []CollectInv
<1> DEFINE EventsFit == events \in 0 .. MaxEvents
<1>1. CollectInit => RatesInv /\ EventsFit
  BY RatesHold, CollectAssumption DEF CollectInit
<1>2. RatesInv /\ EventsFit /\ [CollectNext]_collectVars => RatesInv' /\ EventsFit'
  <2>1. ASSUME EventsFit, [CollectNext]_collectVars PROVE EventsFit'
    <3>1. Happens \/ UNCHANGED events
      BY <2>1 DEF CollectNext, Cycle, CycleRaises, CountersChange, SocketsChange, collectVars
    <3> QED
      BY <2>1, <3>1, CollectAssumption DEF Happens
  <2> QED
    BY <2>1, RatesHold
<1>3. PortInv /\ RatesInv /\ EventsFit => CollectInv
  BY DEF PortInv, CollectInv
<1> HIDE DEF EventsFit
<1> QED
  BY <1>1, <1>2, <1>3, PortInvariant, PTL DEF CollectSpec

(* _network never stores a throughput that is negative, or more than what   *)
(* passed, whatever the counters did between two readings.                  *)
THEOREM ThroughputTheorem == CollectSpec => ThroughputIsReal
<1> DEFINE A == Stored /\ row'.rx # Unknown =>
                   /\ row'.rx \in 0 .. since.rx /\ row'.tx \in 0 .. since.tx
                   /\ row'.polls = since.polls + 1
                   /\ ~since.fell => row'.rx = since.rx /\ row'.tx = since.tx
<1>1. CollectInv => (A \/ UNCHANGED rateVars)
  <2> SUFFICES ASSUME RatesInv, Stored, row'.rx # Unknown
               PROVE  /\ row'.rx \in 0 .. since.rx /\ row'.tx \in 0 .. since.tx
                      /\ row'.polls = since.polls + 1
                      /\ ~since.fell => row'.rx = since.rx /\ row'.tx = since.tx
    BY DEF CollectInv
  <2>1. row'.rx = Throughput.rx /\ row'.tx = Throughput.tx /\ row'.polls = Throughput.polls
    BY DEF Stored, Measure
  <2> QED
    BY <2>1, ThroughputOfInterval
<1>2. CollectInv => [A]_rateVars
  BY <1>1
<1> QED
  BY <1>2, CollectInvariant, PTL DEF ThroughputIsReal

(* A rate is missing only when a file could not be read, the process is new *)
(* or a counter fell, and the processor's share is that of the interval.    *)
THEOREM KnownTheorem == CollectSpec => RatesAreKnown
<1> DEFINE A == Stored =>
      /\ prevNet # Unknown /\ "net" \notin unread /\ ~since.fell => row'.rx # Unknown
      /\ prevCpu # Unknown /\ "cpu" \notin unread /\ ~worked.fell
           /\ worked.busy + worked.idle > 0
           => row'.cpu = (worked.busy * 100) \div (worked.busy + worked.idle)
<1>1. CollectInv => (A \/ UNCHANGED rateVars)
  <2> SUFFICES ASSUME RatesInv, Stored PROVE A
    BY DEF CollectInv
  <2>1. "net" \notin unread => row'.rx = Throughput.rx
    BY DEF Stored, Measure
  <2>2. "cpu" \notin unread /\ prevCpu # Unknown => row'.cpu = Share
    BY DEF Stored, Measure
  <2> QED
    BY <2>1, <2>2, ThroughputOfInterval, ShareOfInterval
<1>2. CollectInv => [A]_rateVars
  BY <1>1
<1> QED
  BY <1>2, CollectInvariant, PTL DEF RatesAreKnown

=============================================================================
