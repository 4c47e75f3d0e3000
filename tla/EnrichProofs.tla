---------------------------- MODULE EnrichProofs ----------------------------
(***************************************************************************)
(* Theorems about the enrichment: the fail2ban client, for any number of   *)
(* threads and addresses, any time-to-live and any duration of a query;    *)
(* the GeoIP resolvers, for any number of threads and of addresses and     *)
(* however the file changes; and the process that keeps both.              *)
(***************************************************************************)
EXTENDS Enrich, TLAPS

(* What a process does with one leaves the other alone: it behaves as both  *)
(* specifications say.                                                      *)
THEOREM EnrichIsBoth == EnrichSpec => Spec /\ GeoSpec
<1>1. EnrichInit => Init /\ GeoInit
  BY DEF EnrichInit
<1>2. [EnrichNext]_<<vars, geoVars>> => [Next]_vars /\ [GeoNext]_geoVars
  BY DEF EnrichNext, AsksFail2Ban, AsksGeoIp
<1> QED
  BY <1>1, <1>2, PTL DEF EnrichSpec, Spec, GeoSpec

-----------------------------------------------------------------------------
(* The fail2ban client. *)


(* What a request takes out of banned_ips is a request again, and if the    *)
(* last outcome is recent enough, so is what it takes.                     *)
LEMMA ServedFits ==
    ASSUME TypeOK, last.at <= now
    PROVE  Served \in Request /\ Served.pc = "status" /\ Served.age = now - last.at
<1>1. last.at \in 0 .. MaxTime /\ now \in 0 .. MaxTime /\ MaxTime \in Nat
  BY Fail2BanAssumption DEF TypeOK, Outcome
<1>2. now - last.at \in 0 .. MaxTime
  BY <1>1
<1> QED
  BY <1>2 DEF Served, Request, TypeOK

(* The numbers of the model. *)
LEMMA Numbers ==
    ASSUME TypeOK
    PROVE  /\ now \in Nat /\ since \in Int /\ fetched \in Int /\ last.at \in Int
           /\ Ttl \in Int /\ MaxQuery \in Nat
           /\ \A t \in Threads : req[t].age \in Int
           /\ \A a \in answers : a.age \in Int
<1> USE Fail2BanAssumption
<1>1. now \in 0 .. MaxTime /\ since \in 0 .. MaxTime /\ fetched \in 0 .. MaxTime
  BY DEF TypeOK
<1>2. last.at \in 0 .. MaxTime
  BY DEF TypeOK, Outcome
<1>3. \A t \in Threads : req[t].age \in 0 .. MaxTime
  BY DEF TypeOK, Request
<1>4. \A a \in answers : a.age \in 0 .. MaxTime
  BY DEF TypeOK, Answered
<1> QED
  BY <1>1, <1>2, <1>3, <1>4 DEF Never

(* A request that moves on from a place outside the lock to another such    *)
(* place, or inside it, leaves the types and the lock as they should be.    *)
LEMMA MovesOn ==
    ASSUME TypeOK, NEW t \in Threads, NEW r \in Request,
           req' = [req EXCEPT ![t] = r],
           lock' = lock, lock = t <=> r.pc \in {"query", "bans", "release"}
    PROVE  /\ req' \in [Threads -> Request]
           /\ lock' \in Threads \cup {Never}
           /\ \A u \in Threads : lock' = u <=> req'[u].pc \in {"query", "bans", "release"}
  BY DEF TypeOK

(* A request that holds nothing. *)
LEMMA EmptyRequests ==
    \A place \in {"idle", "wait"} :
        At(place) \in Request /\ At(place).pc = place
  BY Fail2BanAssumption DEF At, Unasked, Request, Outcome

(* The lock, the clock and the cache agree, and no answer is older than     *)
(* cache and query together: every step keeps CacheInv.                     *)
LEMMA CacheInvHolds == Spec => []CacheInv
<1> USE Fail2BanAssumption
<1>1. Init => CacheInv
  <2> SUFFICES ASSUME Init PROVE CacheInv
    OBVIOUS
  <2>1. last \in Outcome /\ last.at = 0
    BY DEF Init, Unasked, Outcome
  <2>2. \A t \in Threads : req[t] \in Request /\ req[t].pc = "idle"
    BY EmptyRequests DEF Init, Idle
  <2>3. req \in [Threads -> Request]
    BY <2>2 DEF Init
  <2>4. answers = {} /\ now = Uptime /\ since = 0 /\ fetched = 0 /\ lock = Never
    BY DEF Init, Never
  <2>5. TypeOK
    <3>1. \A t \in Threads : lock = t <=> req[t].pc \in {"query", "bans", "release"}
      BY <2>2, <2>4
    <3>2. /\ now \in 0 .. MaxTime /\ since \in 0 .. MaxTime /\ queries \in Nat
          /\ requests \in 0 .. MaxRequests /\ fetched \in 0 .. MaxTime
      BY DEF Init
    <3> QED
      BY <2>1, <2>3, <2>4, <3>1, <3>2 DEF Init, TypeOK
  <2> QED
    BY <2>1, <2>2, <2>4, <2>5 DEF CacheInv, AnswerIsRecent, Never
<1>2. CacheInv /\ [Next]_vars => CacheInv'
  <2> SUFFICES ASSUME CacheInv, [Next]_vars PROVE CacheInv'
    OBVIOUS
  <2> USE Numbers
  <2>0. TypeOK
    BY DEF CacheInv
  <2>1. CASE DaemonChanges
    BY <2>1 DEF DaemonChanges, CacheInv, TypeOK, AnswerIsRecent, client
  <2>2. CASE Tick
    <3>1. TypeOK'
      BY <2>0, <2>2 DEF Tick, TypeOK, client
    <3> QED
      BY <2>0, <2>2, <3>1 DEF Tick, CacheInv, AnswerIsRecent, client
  <2>3. CASE Score
    <3>0. last.what \in {"none", "bans", "failure"}
      BY <2>0 DEF TypeOK, Outcome
    <3>1. TypeOK'
      <4>1. deductions' \subseteq {"none", "bans", "failure"}
        BY <2>0, <2>3, <3>0 DEF Score, TypeOK
      <4>2. requests' \in 0 .. MaxRequests
        BY <2>0, <2>3 DEF Score, TypeOK
      <4> QED
        BY <2>0, <2>3, <4>1, <4>2 DEF Score, TypeOK, client
    <3> QED
      BY <2>0, <2>3, <3>1 DEF Score, CacheInv, AnswerIsRecent, client
  <2>4. ASSUME NEW t \in Threads, Arrive(t) PROVE CacheInv'
    <3> DEFINE r == At("wait")
    <3>1. r \in Request /\ r.pc = "wait"
      BY EmptyRequests
    <3> HIDE DEF r
    <3>2. req' = [req EXCEPT ![t] = r] /\ lock' = lock /\ lock # t
      BY <2>0, <2>4 DEF Arrive, TypeOK, r
    <3>3. TypeOK'
      BY <2>0, <2>4, <3>1, <3>2, MovesOn DEF Arrive, TypeOK, client
    <3> QED
      BY <2>0, <2>4, <3>1, <3>2, <3>3 DEF Arrive, CacheInv, AnswerIsRecent, TypeOK, client
  <2>5. ASSUME NEW t \in Threads, Cached(t) PROVE CacheInv'
    <3>1. Served \in Request /\ Served.pc = "status" /\ Served.age = now - last.at
      BY <2>0, ServedFits DEF CacheInv
    <3>2. Enabled => Served.age <= Ttl + MaxQuery
      BY <2>0, <2>5, <3>1 DEF Cached, Expired, CacheInv
    <3>3. req' = [req EXCEPT ![t] = Served] /\ lock' = lock /\ lock # t
      BY <2>0, <2>5 DEF Cached, TypeOK
    <3>4. TypeOK'
      BY <2>0, <2>5, <3>1, <3>3, MovesOn DEF Cached, TypeOK, client
    <3> QED
      BY <2>0, <2>5, <3>1, <3>2, <3>3, <3>4 DEF Cached, CacheInv, AnswerIsRecent, TypeOK, client
  <2>6. ASSUME NEW t \in Threads, Query(t) PROVE CacheInv'
    <3> DEFINE r == [req[t] EXCEPT !.pc = "query"]
    <3>1. r \in Request /\ r.pc = "query"
      BY <2>0 DEF TypeOK, Request
    <3> HIDE DEF r
    <3>2. req' = [req EXCEPT ![t] = r] /\ lock' = t /\ lock = Never
      BY <2>6 DEF Query, r
    <3>3. TypeOK'
      BY <2>0, <2>6, <3>1, <3>2 DEF Query, TypeOK, client
    <3> QED
      BY <2>0, <2>6, <3>1, <3>2, <3>3 DEF Query, CacheInv, AnswerIsRecent, TypeOK, client
  <2>7. ASSUME NEW t \in Threads, Bans(t) PROVE CacheInv'
    <3> DEFINE r == [req[t] EXCEPT !.pc = "bans"]
    <3>1. r \in Request /\ r.pc = "bans"
      BY <2>0 DEF TypeOK, Request
    <3> HIDE DEF r
    <3>2. req' = [req EXCEPT ![t] = r] /\ lock' = lock /\ lock = t
      BY <2>0, <2>7 DEF Bans, TypeOK, r
    <3>3. last' \in Outcome /\ last'.at = now
      BY <2>0, <2>7 DEF Bans, TypeOK, Outcome
    <3>4. TypeOK'
      BY <2>0, <2>7, <3>1, <3>2, <3>3, MovesOn DEF Bans, TypeOK
    <3> QED
      BY <2>0, <2>7, <3>1, <3>2, <3>3, <3>4 DEF Bans, CacheInv, AnswerIsRecent, TypeOK
  <2>8. ASSUME NEW t \in Threads, Reachable(t) PROVE CacheInv'
    <3> DEFINE r == [req[t] EXCEPT !.pc = "release"]
    <3>1. r \in Request /\ r.pc = "release"
      BY <2>0 DEF TypeOK, Request
    <3> HIDE DEF r
    <3>2. req' = [req EXCEPT ![t] = r] /\ lock' = lock /\ lock = t
      BY <2>0, <2>8 DEF Reachable, TypeOK, r
    <3>3. TypeOK'
      BY <2>0, <2>8, <3>1, <3>2, MovesOn DEF Reachable, TypeOK
    <3> QED
      BY <2>0, <2>8, <3>1, <3>2, <3>3 DEF Reachable, CacheInv, AnswerIsRecent, TypeOK
  <2>9. ASSUME NEW t \in Threads, Fails(t) PROVE CacheInv'
    <3> DEFINE r == [req[t] EXCEPT !.pc = "release"]
    <3>1. r \in Request /\ r.pc = "release"
      BY <2>0 DEF TypeOK, Request
    <3> HIDE DEF r
    <3>2. req' = [req EXCEPT ![t] = r] /\ lock' = lock /\ lock = t
      BY <2>0, <2>9 DEF Fails, TypeOK, r
    <3>3. last' \in Outcome /\ last'.at \in {last.at, now} /\ (Enabled => last'.at = now)
      BY <2>0, <2>9 DEF Fails, TypeOK, Outcome
    <3>4. TypeOK'
      BY <2>0, <2>9, <3>1, <3>2, <3>3, MovesOn DEF Fails, TypeOK
    <3> QED
      BY <2>0, <2>9, <3>1, <3>2, <3>3, <3>4 DEF Fails, CacheInv, AnswerIsRecent, TypeOK
  <2>10. ASSUME NEW t \in Threads, Release(t) PROVE CacheInv'
    <3>1. Served \in Request /\ Served.pc = "status" /\ Served.age = now - last.at
      BY <2>0, ServedFits DEF CacheInv
    <3>2. lock = t /\ t # Never /\ now <= since + MaxQuery /\ (Enabled => since <= last.at)
      BY <2>0, <2>10 DEF Release, TypeOK, CacheInv
    <3>3. req' = [req EXCEPT ![t] = Served] /\ lock' = Never /\ fetched' = now
      BY <2>10 DEF Release
    <3>4. TypeOK'
      BY <2>0, <2>10, <3>1, <3>2, <3>3 DEF Release, TypeOK
    <3>5. Enabled => now - last.at <= MaxQuery
      BY <2>0, <3>2
    <3> QED
      BY <2>0, <2>10, <3>1, <3>2, <3>3, <3>4, <3>5 DEF Release, CacheInv, AnswerIsRecent, TypeOK
  <2>11. ASSUME NEW t \in Threads, Answer(t) PROVE CacheInv'
    <3>1. Idle \in Request /\ Idle.pc = "idle"
      BY EmptyRequests DEF Idle
    <3> DEFINE a == [verdict |-> Ready, got |-> req[t].got, basis |-> req[t].basis,
                     age |-> req[t].age]
    <3>2. a \in Answered /\ a.age = req[t].age
      BY <2>0 DEF TypeOK, Request, Answered, Ready
    <3> HIDE DEF a
    <3>3. answers' = answers \cup {a} /\ req[t].pc = "status"
      BY <2>11 DEF Answer, a
    <3>4. req' = [req EXCEPT ![t] = Idle] /\ lock' = lock /\ lock # t
      BY <2>0, <2>11 DEF Answer, TypeOK
    <3>5. TypeOK'
      BY <2>0, <2>11, <3>1, <3>2, <3>3, <3>4, MovesOn DEF Answer, TypeOK, client
    <3> QED
      BY <2>0, <2>11, <3>1, <3>2, <3>3, <3>4, <3>5
         DEF Answer, CacheInv, AnswerIsRecent, TypeOK, client
  <2>12. CASE UNCHANGED vars
    BY <2>12 DEF vars, client, CacheInv, TypeOK, AnswerIsRecent
  <2> QED
    BY <2>1, <2>2, <2>3, <2>4, <2>5, <2>6, <2>7, <2>8, <2>9, <2>10, <2>11, <2>12 DEF Next
<1> QED
  BY <1>1, <1>2, PTL DEF Spec

(* The client's fields keep their types, and the lock has the one holder    *)
(* that queries.                                                           *)
THEOREM ClientTypeCorrect == Spec => []TypeOK
<1>1. CacheInv => TypeOK
  BY DEF CacheInv
<1> QED
  BY <1>1, CacheInvHolds, PTL

(* However many requests wait for however slow a query, no answer of        *)
(* /api/alerts is older than cache and query together.                     *)
THEOREM RecentTheorem == Spec => []AnswerIsRecent
<1>1. CacheInv => AnswerIsRecent
  BY DEF CacheInv
<1> QED
  BY <1>1, CacheInvHolds, PTL

-----------------------------------------------------------------------------
(* Queries, and what their answers are taken for. *)

(* Only a query in progress, its end and its beginning touch what the       *)
(* spacing is about.                                                        *)
LEMMA Undisturbed ==
    ASSUME SpacedInv, UNCHANGED <<lock, since, queries, fetched>>,
           now \in Nat, now' \in Nat, now <= now', Uptime \in Nat,
           since \in Int, fetched \in Int
    PROVE  SpacedInv'
  BY DEF SpacedInv, SpacedBy

(* One more period between two times is one more in their quotients.        *)
LEMMA QuotientsGrow ==
    ASSUME NEW d \in Nat, d > 0, NEW m \in Nat, NEW n \in Nat
    PROVE  /\ m \div d \in Nat
           /\ m <= n => m \div d <= n \div d
           /\ m + d <= n => (m \div d) + 1 <= n \div d
<1> DEFINE p == m \div d
           q == n \div d
<1>1. /\ p \in Nat /\ p * d <= m /\ m < p * d + d
      /\ q \in Nat /\ q * d <= n /\ n < q * d + d
  OBVIOUS
<1> HIDE DEF p, q
<1>2. ASSUME NEW a \in Nat, p >= a, q < a PROVE q * d + d <= p * d
  <2>1. p - q - 1 \in Nat
    BY <1>1, <1>2
  <2>2. (p - q - 1) * d >= 0
    BY <2>1
  <2>3. (p - q - 1) * d = p * d - q * d - d
    BY <1>1
  <2> QED
    BY <1>1, <2>2, <2>3
<1>3. m <= n => p <= q
  BY <1>1, <1>2
<1>4. m + d <= n => p + 1 <= q
  <2> SUFFICES ASSUME m + d <= n, q <= p PROVE FALSE
    BY <1>1
  <2>1. q * d <= p * d
    <3>1. p - q \in Nat
      BY <1>1
    <3>2. (p - q) * d >= 0 /\ (p - q) * d = p * d - q * d
      BY <1>1, <3>1
    <3> QED
      BY <1>1, <3>2
  <2> QED
    BY <1>1, <2>1
<1> QED
  BY <1>1, <1>3, <1>4 DEF p, q

(* Queries are counted as they begin, a time-to-live apart or more.         *)
LEMMA SpacedInvHolds == Spec => []SpacedInv
<1> USE Fail2BanAssumption
<1>1. Init => SpacedInv
  <2>1. Uptime <= Uptime
    OBVIOUS
  <2> QED
    BY <2>1 DEF Init, SpacedInv
<1>2. CacheInv /\ CacheInv' /\ SpacedInv /\ [Next]_vars => SpacedInv'
  <2> SUFFICES ASSUME CacheInv, CacheInv', SpacedInv, [Next]_vars PROVE SpacedInv'
    OBVIOUS
  <2>0. /\ TypeOK /\ now \in Nat /\ since \in Int /\ fetched \in Int /\ queries \in Nat
        /\ now' \in Nat /\ Uptime \in Nat /\ Ttl \in Nat /\ Never \notin Threads
        /\ Ttl + 1 \in Nat /\ Ttl + 1 > 0
    <3>1. TypeOK /\ TypeOK'
      BY DEF CacheInv
    <3> QED
      BY <3>1, Numbers DEF TypeOK
  <2>1. ASSUME NEW t \in Threads, Query(t) PROVE SpacedInv'
    <3>1. /\ lock = Never /\ lock' = t /\ since' = now /\ now' = now
          /\ queries' \in {queries, queries + 1} /\ now - fetched > Ttl
      BY <2>1 DEF Query, Expired, client
    <3>2. lock' # Never
      BY <2>0, <3>1
    <3>3. Uptime <= now
      BY DEF SpacedInv
    <3>4. (now - Uptime) \div (Ttl + 1) \in Nat
      BY <2>0, <3>3, QuotientsGrow
    <3>5. queries + 1 <= 1 + (now - Uptime) \div (Ttl + 1)
      <4>1. CASE queries = 0
        BY <3>4, <4>1
      <4>2. CASE queries # 0
        <5>1. Uptime <= fetched /\ queries <= 1 + (fetched - Uptime) \div (Ttl + 1)
          BY <3>1, <4>2 DEF SpacedInv, SpacedBy
        <5> DEFINE m == fetched - Uptime
                   n == now - Uptime
                   d == Ttl + 1
        <5>2. m \in Nat /\ n \in Nat /\ m + d <= n /\ d \in Nat /\ d > 0
          BY <2>0, <3>1, <3>3, <5>1
        <5> HIDE DEF m, n, d
        <5>3. (m \div d) + 1 <= n \div d /\ m \div d \in Nat /\ n \div d \in Nat
          BY <5>2, QuotientsGrow
        <5>4. queries <= 1 + m \div d
          BY <5>1 DEF m, d
        <5>5. queries + 1 <= 1 + n \div d
          BY <2>0, <5>3, <5>4
        <5> QED
          BY <5>5 DEF n, d
      <4> QED
        BY <4>1, <4>2
    <3>6. queries' <= 1 + (now - Uptime) \div (Ttl + 1)
      BY <2>0, <3>1, <3>4, <3>5
    <3>7. SpacedBy(since)'
      BY <2>0, <3>1, <3>3, <3>6 DEF SpacedBy
    <3> QED
      BY <3>1, <3>2, <3>3, <3>7 DEF SpacedInv
  <2>2. ASSUME NEW t \in Threads, Release(t) PROVE SpacedInv'
    <3>1. lock = t /\ lock' = Never /\ fetched' = now /\ now' = now /\ queries' = queries
      BY <2>0, <2>2 DEF Release, TypeOK
    <3>2. SpacedBy(since)
      BY <2>0, <3>1 DEF SpacedInv
    <3> DEFINE m == since - Uptime
               n == now - Uptime
               d == Ttl + 1
    <3>3. m \in Nat /\ n \in Nat /\ m <= n /\ d \in Nat /\ d > 0 /\ queries <= 1 + m \div d
      BY <2>0, <3>2 DEF SpacedBy
    <3> HIDE DEF m, n, d
    <3>4. m \div d <= n \div d /\ m \div d \in Nat /\ n \div d \in Nat
      BY <3>3, QuotientsGrow
    <3>5. queries <= 1 + n \div d
      BY <2>0, <3>3, <3>4
    <3>6. SpacedBy(fetched)'
      BY <2>0, <3>1, <3>2, <3>5 DEF SpacedBy, n, d
    <3> QED
      BY <3>1, <3>6 DEF SpacedInv
  <2>3. CASE Tick
    BY <2>0, <2>3, Undisturbed DEF Tick, client
  <2>4. ASSUME NEW t \in Threads,
               Arrive(t) \/ Cached(t) \/ Bans(t) \/ Reachable(t) \/ Fails(t) \/ Answer(t)
        PROVE  SpacedInv'
    BY <2>0, <2>4, Undisturbed DEF Arrive, Cached, Bans, Reachable, Fails, Answer, client
  <2>5. CASE DaemonChanges \/ Score \/ UNCHANGED vars
    BY <2>0, <2>5, Undisturbed DEF DaemonChanges, Score, vars, client
  <2> QED
    BY <2>1, <2>2, <2>3, <2>4, <2>5 DEF Next
<1> QED
  BY <1>1, <1>2, CacheInvHolds, PTL DEF Spec

(* The server counts as reachable only with the list of the last query.     *)
LEMMA FlagInvHolds == Spec => []FlagInv
<1> USE Fail2BanAssumption
<1>1. Init => FlagInv
  BY DEF Init, FlagInv, Idle, At
<1>2. TypeOK /\ FlagInv /\ [Next]_vars => FlagInv'
  <2> SUFFICES ASSUME TypeOK, FlagInv, [Next]_vars PROVE FlagInv'
    OBVIOUS
  <2>0. /\ req \in [Threads -> Request]
        /\ \A t \in Threads : lock = t <=> req[t].pc \in {"query", "bans", "release"}
        /\ last \in Outcome
    BY DEF TypeOK
  <2>1. ASSUME NEW t \in Threads, Bans(t) PROVE FlagInv'
    BY <2>1 DEF Bans, FlagInv
  <2>2. ASSUME NEW t \in Threads, Fails(t) PROVE FlagInv'
    <3>1. \A u \in Threads : req'[u].pc # "bans"
      BY <2>0, <2>2 DEF Fails
    <3> QED
      BY <2>2, <3>1 DEF Fails, FlagInv
  <2>3. ASSUME NEW t \in Threads, Reachable(t) PROVE FlagInv'
    BY <2>0, <2>3 DEF Reachable, FlagInv
  <2>4. ASSUME UNCHANGED <<banned, reachable, last>>,
               \A t \in Threads : req'[t].pc = "bans" => req[t].pc = "bans"
        PROVE  FlagInv'
    BY <2>4 DEF FlagInv
  <2>5. ASSUME NEW t \in Threads, Arrive(t) \/ Cached(t) \/ Query(t) \/ Release(t) \/ Answer(t)
        PROVE  FlagInv'
    <3>1. req'[t].pc # "bans" /\ \A u \in Threads \ {t} : req'[u] = req[u]
      BY <2>0, <2>5 DEF Arrive, Cached, Query, Release, Answer, Served, At, Idle, Request
    <3>2. \A u \in Threads : req'[u].pc = "bans" => req[u].pc = "bans"
      BY <2>0, <3>1
    <3> QED
      BY <2>4, <2>5, <3>2 DEF Arrive, Cached, Query, Release, Answer, client
  <2>6. CASE DaemonChanges \/ Tick \/ Score \/ UNCHANGED vars
    BY <2>4, <2>6 DEF DaemonChanges, Tick, Score, vars, client
  <2> QED
    BY <2>1, <2>2, <2>3, <2>5, <2>6 DEF Next
<1> QED
  BY <1>1, <1>2, ClientTypeCorrect, PTL DEF Spec

(* The whole of what keeps the client's fields, its lock and its clock      *)
(* together, in every interleaving of its threads.                         *)
THEOREM ClientInvariant == Spec => []ClientInv
  BY CacheInvHolds, SpacedInvHolds, FlagInvHolds, PTL DEF ClientInv

(* However many requests wait for however slow a query, and whether it      *)
(* succeeds or not, banned_ips does not query again before its cache has    *)
(* run out.                                                                 *)
THEOREM SpacedTheorem == Spec => []QueriesAreSpaced
<1>1. CacheInv /\ SpacedInv => QueriesAreSpaced
  <2> SUFFICES ASSUME CacheInv, SpacedInv PROVE QueriesAreSpaced
    OBVIOUS
  <2>1. /\ TypeOK /\ now \in Nat /\ since \in Int /\ fetched \in Int /\ queries \in Nat
        /\ Uptime \in Nat /\ Ttl + 1 \in Nat /\ Ttl + 1 > 0 /\ Uptime <= now
    <3>1. TypeOK
      BY DEF CacheInv
    <3> QED
      BY <3>1, Numbers, Fail2BanAssumption DEF TypeOK, SpacedInv
  <2> DEFINE n == now - Uptime
             d == Ttl + 1
  <2>2. n \in Nat /\ d \in Nat /\ d > 0
    BY <2>1
  <2>3. ASSUME NEW t \in Int, SpacedBy(t) PROVE queries <= 1 + n \div d
    <3> DEFINE m == t - Uptime
    <3>1. m \in Nat /\ m <= n /\ queries <= 1 + m \div d
      BY <2>1, <2>3 DEF SpacedBy
    <3> HIDE DEF m, n, d
    <3> QED
      BY <2>1, <2>2, <3>1, QuotientsGrow
  <2>4. CASE lock = Never /\ queries = 0
    <3> HIDE DEF n, d
    <3>1. n \div d \in Nat
      BY <2>2, QuotientsGrow
    <3>2. queries <= 1 + n \div d
      BY <2>4, <3>1
    <3> QED
      BY <3>2 DEF QueriesAreSpaced, n, d
  <2> QED
    BY <2>1, <2>3, <2>4 DEF QueriesAreSpaced, SpacedInv
<1> QED
  BY <1>1, CacheInvHolds, SpacedInvHolds, PTL

(* A client that one thread asks, as the ingestor's own does, gives each    *)
(* verdict off the list of the last answer: what FlagInv says of the fields *)
(* still holds when status is read, since nobody else has queried.  With    *)
(* two threads this is refuted (fail2ban_race).                             *)
THEOREM VerdictTheorem ==
    ASSUME NEW u, Threads = {u}
    PROVE  Spec => []VerdictWasGiven
<1> DEFINE AloneInv == /\ VerdictWasGiven
                       /\ req[u].pc = "status" => req[u].got = banned /\ req[u].basis = last
<1>1. Init => AloneInv
  BY DEF Init, Idle, At, VerdictWasGiven
<1>2. TypeOK /\ FlagInv /\ AloneInv /\ [Next]_vars => AloneInv'
  <2> SUFFICES ASSUME TypeOK, FlagInv, AloneInv, [Next]_vars PROVE AloneInv'
    OBVIOUS
  <2>0. req \in [{u} -> Request]
    BY DEF TypeOK
  <2>1. CASE Answer(u)
    <3> DEFINE a == [verdict |-> Ready, got |-> req[u].got, basis |-> req[u].basis,
                     age |-> req[u].age]
    <3>1. a.verdict => a.basis.what = "bans" /\ a.got = a.basis.list
      BY <2>1 DEF Answer, Ready, FlagInv
    <3> HIDE DEF a
    <3>2. answers' = answers \cup {a}
      BY <2>1 DEF Answer, a
    <3>3. req'[u].pc = "idle"
      BY <2>0, <2>1 DEF Answer, Idle, At
    <3> QED
      BY <3>1, <3>2, <3>3 DEF VerdictWasGiven
  <2>2. CASE Cached(u) \/ Release(u)
    <3>1. req'[u] = Served /\ UNCHANGED <<banned, last, answers>>
      BY <2>0, <2>2 DEF Cached, Release, client
    <3> QED
      BY <3>1 DEF Served, VerdictWasGiven
  <2>3. CASE Arrive(u) \/ Query(u) \/ Bans(u) \/ Reachable(u) \/ Fails(u)
    <3>1. req'[u].pc # "status" /\ answers' = answers
      BY <2>0, <2>3 DEF Arrive, Query, Bans, Reachable, Fails, At, Request, client
    <3> QED
      BY <3>1 DEF VerdictWasGiven
  <2>4. CASE DaemonChanges \/ Tick \/ Score \/ UNCHANGED vars
    BY <2>4 DEF DaemonChanges, Tick, Score, vars, client, VerdictWasGiven
  <2> QED
    BY <2>1, <2>2, <2>3, <2>4 DEF Next
<1> QED
  BY <1>1, <1>2, ClientTypeCorrect, FlagInvHolds, PTL DEF Spec

-----------------------------------------------------------------------------
(* The GeoIP resolvers. *)

(* The lock is held by the one thread that opens the file, and GeoInv stays. *)
LEMMA GeoInvHolds == GeoSpec => []GeoInv
<1>1. GeoInit => GeoInv
  BY DEF GeoInit, GeoInv, GeoTypeOK, OpenedOnce, Resolvers, Found, Answers
<1>2. GeoInv /\ [GeoNext]_geoVars => GeoInv'
  <2> SUFFICES ASSUME GeoInv, [GeoNext]_geoVars PROVE GeoInv'
    OBVIOUS
  <2> USE DEF GeoInv, GeoTypeOK, Resolvers, Found, Answers
  <2>1. CASE FileChanges
    BY <2>1 DEF FileChanges, OpenedOnce
  <2>2. ASSUME NEW t \in Askers, NEW place \in {"idle", "ensure", "lock"},
               asks[t] # "open", asks' = [asks EXCEPT ![t] = place], said' \subseteq Answers,
               UNCHANGED <<file, attempted, readers, found, again, holder, cache>>
        PROVE  GeoInv'
    <3>1. \A u \in Askers : asks'[u] = "open" <=> asks[u] = "open"
      BY <2>2
    <3>2. GeoTypeOK'
      BY <2>2
    <3>3. holder' = {u \in Askers : asks'[u] = "open"}
      BY <2>2, <3>1 DEF OpenedOnce
    <3>4. OpenedOnce' /\ (holder' # {} => "api" \in attempted' /\ found'["api"] = "untried")
      BY <2>2, <3>3 DEF OpenedOnce
    <3> QED
      BY <3>2, <3>4
  <2>3. ASSUME NEW t \in Askers, AskStatus(t) \/ EnsureReader(t) PROVE GeoInv'
    <3>1. asks[t] # "open" /\ UNCHANGED <<file, attempted, readers, found, again, holder, cache>>
      BY <2>3 DEF AskStatus, EnsureReader
    <3>2. \E place \in {"idle", "ensure", "lock"} : asks' = [asks EXCEPT ![t] = place]
      BY <2>3 DEF AskStatus, EnsureReader, Says
    <3>3. said' \subseteq Answers
      BY <2>3 DEF AskStatus, EnsureReader, Says, StatusOf
    <3> QED
      BY <2>2, <3>1, <3>2, <3>3
  <2>4. ASSUME NEW t \in Askers, Lock(t) PROVE GeoInv'
    <3>1. CASE "api" \in attempted
      <4>1. /\ asks[t] # "open" /\ asks' = [asks EXCEPT ![t] = "idle"]
            /\ said' \subseteq Answers
            /\ UNCHANGED <<file, attempted, readers, found, again, holder, cache>>
        BY <2>4, <3>1 DEF Lock, Says, StatusOf
      <4> QED
        BY <2>2, <4>1
    <3>2. CASE "api" \notin attempted
      <4>1. /\ holder = {} /\ found["api"] = "untried"
            /\ holder' = {t} /\ asks' = [asks EXCEPT ![t] = "open"]
            /\ attempted' = attempted \cup {"api"}
            /\ UNCHANGED <<file, readers, found, again, cache, said>>
        BY <2>4, <3>2 DEF Lock, OpenedOnce
      <4>2. GeoTypeOK'
        <5>1. asks' \in [Askers -> {"idle", "ensure", "lock", "open"}]
          BY <4>1
        <5>2. attempted' \subseteq Resolvers /\ holder' \subseteq Askers
          BY <4>1
        <5> QED
          BY <4>1, <5>1, <5>2
      <4>3. OpenedOnce'
        <5>1. \A u \in Askers : asks'[u] = "open" <=> u = t
          BY <4>1 DEF OpenedOnce
        <5>2. holder' = {u \in Askers : asks'[u] = "open"} /\ \A s, u \in holder' : s = u
          BY <4>1, <5>1
        <5>3. \A r \in Resolvers : r \notin again' /\ (r \in readers' <=> found'[r] = "valid")
          BY <4>1 DEF OpenedOnce
        <5>4. \A r \in Resolvers : found'[r] # "untried" => r \in attempted'
          BY <4>1 DEF OpenedOnce
        <5> QED
          BY <5>2, <5>3, <5>4 DEF OpenedOnce
      <4> QED
        BY <4>1, <4>2, <4>3
    <3> QED
      BY <3>1, <3>2
  <2>5. ASSUME NEW t \in Askers, Open(t) PROVE GeoInv'
    <3>1. /\ holder # {} /\ "api" \in attempted /\ found["api"] = "untried"
          /\ \A s \in Askers : asks[s] = "open" => s = t
      BY <2>5 DEF Open, Tries, OpenedOnce
    <3>2. said' \subseteq Answers
      BY <2>5 DEF Open, Tries
    <3>3. GeoTypeOK'
      BY <2>5, <3>1, <3>2 DEF Open, Tries
    <3>4. holder' = {u \in Askers : asks'[u] = "open"}
      BY <2>5, <3>1 DEF Open
    <3>5. OpenedOnce'
      BY <2>5, <3>1, <3>4 DEF Open, Tries, OpenedOnce
    <3> QED
      BY <2>5, <3>3, <3>5 DEF Open, Tries
  <2>6. ASSUME NEW ip \in Sources, FirstLookup(ip) \/ Lookup(ip) PROVE GeoInv'
    <3>1. cache' \in [Sources -> {"unset", "none", "country"}]
      BY <2>6 DEF FirstLookup, Lookup, Country
    <3>2. CASE Lookup(ip)
      BY <3>1, <3>2 DEF Lookup, OpenedOnce
    <3>3. CASE FirstLookup(ip)
      BY <3>1, <3>3 DEF FirstLookup, Tries, OpenedOnce
    <3> QED
      BY <2>6, <3>2, <3>3
  <2>7. CASE UNCHANGED geoVars
    BY <2>7 DEF geoVars, OpenedOnce
  <2> QED
    BY <2>1, <2>3, <2>4, <2>5, <2>6, <2>7 DEF GeoNext
<1> QED
  BY <1>1, <1>2, PTL DEF GeoSpec

(* The resolver's fields keep their types, and the lock's holder is the     *)
(* thread that is opening the file.                                        *)
THEOREM GeoTypeCorrect == GeoSpec => []GeoTypeOK
<1>1. GeoInv => GeoTypeOK
  BY DEF GeoInv
<1> QED
  BY <1>1, GeoInvHolds, PTL

(* A resolver opens the database once, whatever the number of threads.      *)
THEOREM OpenedOnceTheorem == GeoSpec => []OpenedOnce
<1>1. GeoInv => OpenedOnce
  BY DEF GeoInv
<1> QED
  BY <1>1, GeoInvHolds, PTL

=============================================================================
