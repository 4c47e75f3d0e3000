------------------------------ MODULE Fail2Ban ------------------------------
(***************************************************************************)
(* The cached fail2ban client (enrich/fail2ban.py) and the two handlers of *)
(* the API that ask it: /api/alerts takes the ban list and then, without    *)
(* the lock, the status; /api/score takes the status only.  Handlers run in *)
(* a thread pool over one client.  (The ingestor has a client of its own    *)
(* and one thread: is_banned there is the alerts handler with one thread.)  *)
(*                                                                         *)
(* status reads _fetched_at and then _reachable.  _fetched_at leaves zero   *)
(* once and for all, so the two reads are one step here: the first if it    *)
(* finds zero, else the second.                                            *)
(***************************************************************************)
EXTENDS Integers, FiniteSets

CONSTANTS
    Ips,
    Threads,        \* the threads that serve /api/alerts
    Enabled,        \* SENTRY_F2B_ENABLED
    Ttl,            \* _CACHE_TTL_SECONDS
    MaxQuery,       \* _COMMAND_TIMEOUT_SECONDS, twice: the call and its sudo retry
    Uptime,         \* how long the host was up when the process began
    MaxTime,        \* bound: the clock
    MaxRequests     \* bound: requests served

Never == -1

ASSUME Fail2BanAssumption ==
    /\ Never \notin Threads
    /\ Enabled \in BOOLEAN
    /\ Ttl \in Nat /\ MaxQuery \in Nat /\ MaxRequests \in Nat
    /\ MaxTime \in Nat /\ Uptime \in 0 .. MaxTime

VARIABLES
    now,        \* time.monotonic(), which counts from the start of the host
    daemon,     \* the fail2ban daemon: its ban list, and how it answers (external)
    banned, reachable, fetched,     \* the client's fields
    last,       \* what its last query came to: outcome, list and time
    lock,       \* the thread inside banned_ips, or Never
    since,      \* when that thread started to query
    queries,    \* queries made so far
    req,        \* thread -> the request it serves
    requests,
    answers,    \* the answers of /api/alerts
    deductions  \* the outcomes upon which /api/score deducted

client == <<banned, reachable, fetched, last>>
vars == <<now, daemon, client, lock, since, queries, req, requests, answers, deductions>>

Replies == {"bans", "refuses", "absent"}
Outcome == [what : {"none", "bans", "failure"}, list : SUBSET Ips, at : 0 .. MaxTime]
Request == [pc : {"idle", "wait", "query", "bans", "release", "status"},
            got : SUBSET Ips, basis : Outcome, age : 0 .. MaxTime]
Answered == [verdict : BOOLEAN, got : SUBSET Ips, basis : Outcome, age : 0 .. MaxTime]
Unasked == [what |-> "none", list |-> {}, at |-> 0]
At(place) == [pc |-> place, got |-> {}, basis |-> Unasked, age |-> 0]
Idle    == At("idle")

Init ==
    /\ now = Uptime
    /\ daemon \in [bans : SUBSET Ips, reply : Replies]
    /\ banned = {} /\ reachable = FALSE /\ fetched = 0 /\ last = Unasked
    /\ lock = Never /\ since = 0 /\ queries = 0
    /\ req = [t \in Threads |-> Idle]
    /\ requests = 0
    /\ answers = {} /\ deductions = {}

-----------------------------------------------------------------------------
(* fail2ban bans and releases, stops and starts (external). *)

DaemonChanges ==
    /\ daemon' \in [bans : SUBSET Ips, reply : Replies]
    /\ UNCHANGED <<now, client, lock, since, queries, req, requests, answers, deductions>>

Tick ==
    /\ now < MaxTime
    /\ lock # Never => now < since + MaxQuery
    /\ now' = now + 1
    /\ UNCHANGED <<daemon, client, lock, since, queries, req, requests, answers, deductions>>

-----------------------------------------------------------------------------
(* banned_ips *)

Arrive(t) ==
    /\ req[t].pc = "idle" /\ requests < MaxRequests
    /\ requests' = requests + 1
    /\ req' = [req EXCEPT ![t] = At("wait")]
    /\ UNCHANGED <<now, daemon, client, lock, since, queries, answers, deductions>>

(* Mutant: one query is enough. *)
ExpiredAtFirst == fetched = 0 /\ now > Ttl

(* time.monotonic() - _fetched_at, where zero stands for "never": a host     *)
(* that has just started counts as just asked.                              *)
Expired == now - fetched > Ttl

(* What a request leaves banned_ips with. *)
Served == [pc |-> "status", got |-> banned, basis |-> last, age |-> now - last.at]

(* The lock, and a cache that still holds. *)
Cached(t) ==
    /\ req[t].pc = "wait" /\ lock = Never /\ ~Expired
    /\ req' = [req EXCEPT ![t] = Served]
    /\ UNCHANGED <<now, daemon, client, lock, since, queries, requests, answers, deductions>>

(* The lock, and a query. *)
Query(t) ==
    /\ req[t].pc = "wait" /\ lock = Never /\ Expired
    /\ lock' = t /\ since' = now
    /\ queries' = IF Enabled THEN queries + 1 ELSE queries
    /\ req' = [req EXCEPT ![t].pc = "query"]
    /\ UNCHANGED <<now, daemon, client, requests, answers, deductions>>

(* The command answers, and whenever it exits with 0 it prints its list     *)
(* (output without one would be taken for an empty list, fail2ban.py:99):   *)
(* the list is replaced ...                                                 *)
Bans(t) ==
    /\ req[t].pc = "query" /\ Enabled /\ daemon.reply = "bans"
    /\ banned' = daemon.bans
    /\ last' = [what |-> "bans", list |-> daemon.bans, at |-> now]
    /\ req' = [req EXCEPT ![t].pc = "bans"]
    /\ UNCHANGED <<now, daemon, reachable, fetched, lock, since, queries, requests,
                   answers, deductions>>

(* ... and then the flag. *)
Reachable(t) ==
    /\ req[t].pc = "bans"
    /\ reachable' = TRUE
    /\ req' = [req EXCEPT ![t].pc = "release"]
    /\ UNCHANGED <<now, daemon, banned, fetched, last, lock, since, queries, requests,
                   answers, deductions>>

(* Disabled, not installed, refused, or out of time: the old list stays but *)
(* for the one of a client that is not installed.                           *)
Fails(t) ==
    /\ req[t].pc = "query"
    /\ ~Enabled \/ daemon.reply # "bans"
    /\ banned' = IF Enabled /\ daemon.reply = "absent" THEN {} ELSE banned
    /\ reachable' = FALSE
    /\ last' = IF Enabled THEN [what |-> "failure", list |-> {}, at |-> now] ELSE last
    /\ req' = [req EXCEPT ![t].pc = "release"]
    /\ UNCHANGED <<now, daemon, fetched, lock, since, queries, requests, answers, deductions>>

(* Mutants: the lock is kept; the time of the fetch is forgotten. *)
ReleaseLocked(t) ==
    /\ req[t].pc = "release"
    /\ fetched' = now
    /\ req' = [req EXCEPT ![t] = Served]
    /\ UNCHANGED <<now, daemon, banned, reachable, last, lock, since, queries, requests,
                   answers, deductions>>

ReleaseUntimed(t) ==
    /\ req[t].pc = "release"
    /\ lock' = Never
    /\ req' = [req EXCEPT ![t] = Served]
    /\ UNCHANGED <<now, daemon, client, since, queries, requests, answers, deductions>>

Release(t) ==
    /\ req[t].pc = "release"
    /\ fetched' = now
    /\ lock' = Never
    /\ req' = [req EXCEPT ![t] = Served]
    /\ UNCHANGED <<now, daemon, banned, reachable, last, since, queries, requests,
                   answers, deductions>>

-----------------------------------------------------------------------------
(* The handlers. *)

Ready == Enabled /\ fetched # 0 /\ reachable

(* /api/alerts: banned_now is a verdict when the status is ready, and null  *)
(* otherwise.                                                              *)
Answer(t) ==
    /\ req[t].pc = "status"
    /\ answers' = answers \cup
                    {[verdict |-> Ready, got |-> req[t].got, basis |-> req[t].basis,
                      age |-> req[t].age]}
    /\ req' = [req EXCEPT ![t] = Idle]
    /\ UNCHANGED <<now, daemon, client, lock, since, queries, requests, deductions>>

(* /api/score: ten points unless the status is ready. *)
Score ==
    /\ requests < MaxRequests
    /\ requests' = requests + 1
    /\ deductions' = IF Ready THEN deductions ELSE deductions \cup {last.what}
    /\ UNCHANGED <<now, daemon, client, lock, since, queries, req, answers>>

Next == \/ DaemonChanges \/ Tick \/ Score
        \/ \E t \in Threads : \/ Arrive(t) \/ Cached(t) \/ Query(t) \/ Bans(t)
                              \/ Reachable(t) \/ Fails(t) \/ Release(t) \/ Answer(t)

Spec == Init /\ [][Next]_vars

-----------------------------------------------------------------------------
(* Properties. *)

TypeOK ==
    /\ now \in 0 .. MaxTime
    /\ daemon \in [bans : SUBSET Ips, reply : Replies]
    /\ banned \subseteq Ips /\ reachable \in BOOLEAN
    /\ fetched \in 0 .. MaxTime
    /\ last \in Outcome
    /\ lock \in Threads \cup {Never}
    /\ \A t \in Threads : lock = t <=> req[t].pc \in {"query", "bans", "release"}
    /\ since \in 0 .. MaxTime
    /\ queries \in Nat /\ requests \in 0 .. MaxRequests
    /\ req \in [Threads -> Request]
    /\ answers \subseteq Answered
    /\ deductions \subseteq {"none", "bans", "failure"}

(* "cached briefly so alerts do not each fork a process" (fail2ban.py:104): *)
(* however many requests wait for a slow query, the next query is not due   *)
(* before the cache has run out.                                            *)
QueriesAreSpaced == queries <= 1 + (now - Uptime) \div (Ttl + 1)

(* "we could not ask" and "we asked and it is not banned" are never merged  *)
(* (PRODUCT.md:50): a verdict on an address, either way, is read off the    *)
(* list that fail2ban gave in the last answer there was.                    *)
VerdictWasGiven ==
    \A a \in answers : a.verdict => a.basis.what = "bans" /\ a.got = a.basis.list

(* Whatever list banned_ips returns rests upon a query that was made no     *)
(* longer before than the cache and a query take together: waiting for the  *)
(* lock does not make it older.  (On a host that has been up for less than  *)
(* the cache's time it may rest upon no query at all, and is then as old    *)
(* as the host.)                                                            *)
AnswerIsRecent == Enabled => \A a \in answers : a.age <= Ttl + MaxQuery

(* What makes it inductive: a query in progress has not run out of time,    *)
(* its outcome is not older than its beginning, and the outcome behind a    *)
(* fetched cache is not older than the fetch by more than a query.          *)
CacheInv ==
    /\ TypeOK /\ AnswerIsRecent
    /\ last.at <= now /\ fetched <= now
    /\ lock # Never => since <= now /\ now <= since + MaxQuery
    /\ Enabled => /\ lock = Never => fetched - last.at <= MaxQuery
                  /\ \A t \in Threads :
                        /\ req[t].pc \in {"bans", "release"} => since <= last.at
                        /\ req[t].pc = "status" => req[t].age <= Ttl + MaxQuery

(* What spaces the queries: the cache's time runs from the end of one to    *)
(* the beginning of the next.                                               *)
SpacedBy(t) == Uptime <= t /\ t <= now /\ queries <= 1 + (t - Uptime) \div (Ttl + 1)
SpacedInv   ==
    /\ Uptime <= now
    /\ IF lock = Never THEN queries = 0 \/ SpacedBy(fetched) ELSE SpacedBy(since)

(* The flag stands for the list, from when the list is set, before the flag *)
(* is, until the daemon fails to answer.                                    *)
FlagInv == reachable \/ (\E t \in Threads : req[t].pc = "bans")
                => last.what = "bans" /\ banned = last.list

ClientInv == CacheInv /\ SpacedInv /\ FlagInv

(* "A rule whose input is unavailable does not deduct" (score.py:12): the   *)
(* score deducts for fail2ban only after a query that failed.  (That a      *)
(* query fails because it is refused is Score's BlindnessNeverDeducts.)     *)
DeductionWasMeasured == deductions \subseteq {"failure"}

=============================================================================
