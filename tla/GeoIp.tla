------------------------------- MODULE GeoIp -------------------------------
(***************************************************************************)
(* The lazy GeoIP reader (enrich/geoip.py).  A process has two resolvers:   *)
(* the API's, whose status is asked by the threads of /api/health, and the  *)
(* ingestor's, which its one thread asks for the country of an alert.       *)
(*                                                                         *)
(* The file is the operator's: it may be put in place, spoilt or removed   *)
(* while the process runs.  An open reader has the database in memory.  The *)
(* library is installed; close is never called.                            *)
(***************************************************************************)

CONSTANTS
    Sources,    \* the public addresses that are looked up
    Located,    \* those that the database knows
    Askers      \* the API's threads

ASSUME GeoIpAssumption == Located \subseteq Sources

Resolvers == {"api", "worker"}

VARIABLES
    file,       \* what is at db_path (external)
    attempted,  \* the resolvers whose _attempted is set
    readers,    \* the resolvers that have a _reader
    found,      \* resolver -> how it found the file, or "untried"
    again,      \* the resolvers that tried to open it again
    holder,     \* the threads inside the lock of the API's resolver
    asks,       \* thread -> where it is in status
    cache,      \* the worker's _cache: address -> what lookup answers
    said        \* the answers of status

geoVars == <<file, attempted, readers, found, again, holder, asks, cache, said>>

(* An unreadable file raises one of the errors that _ensure_reader catches, *)
(* an invalid one an error of the library's own, which it does not.         *)
Found   == {"absent", "unreadable", "invalid", "valid"}
Answers == {"not found", "database unreadable", "ready", "error"}

GeoInit ==
    /\ file = "absent"
    /\ attempted = {}
    /\ readers = {}
    /\ found = [r \in Resolvers |-> "untried"] /\ again = {}
    /\ holder = {}
    /\ asks = [t \in Askers |-> "idle"]
    /\ cache = [ip \in Sources |-> "unset"]
    /\ said = {}

FileChanges ==
    /\ file' \in Found \ {file}
    /\ UNCHANGED <<attempted, readers, found, again, holder, asks, cache, said>>

-----------------------------------------------------------------------------
Tries(r) ==
    /\ found' = [found EXCEPT ![r] = file]
    /\ again' = IF found[r] = "untried" THEN again ELSE again \cup {r}

(* status, and available inside it *)

StatusOf(r) == IF r \in readers THEN "ready" ELSE "database unreadable"

Says(t, answer) ==
    /\ asks' = [asks EXCEPT ![t] = "idle"]
    /\ said' = said \cup {answer}

(* The file is looked for first. *)
AskStatus(t) ==
    /\ asks[t] = "idle"
    /\ IF file = "absent" THEN Says(t, "not found")
       ELSE asks' = [asks EXCEPT ![t] = "ensure"] /\ UNCHANGED said
    /\ UNCHANGED <<file, attempted, readers, found, again, holder, cache>>

(* _attempted is read without the lock, and then _reader.  _attempted stays *)
(* set, so the two reads are one step, at the second.                       *)
EnsureReader(t) ==
    /\ asks[t] = "ensure"
    /\ IF "api" \in attempted THEN Says(t, StatusOf("api"))
       ELSE asks' = [asks EXCEPT ![t] = "lock"] /\ UNCHANGED said
    /\ UNCHANGED <<file, attempted, readers, found, again, holder, cache>>

(* Mutant: _attempted is not read again under the lock. *)
LockAnyway(t) ==
    /\ asks[t] = "lock" /\ holder = {}
    /\ attempted' = attempted \cup {"api"}
    /\ holder' = {t}
    /\ asks' = [asks EXCEPT ![t] = "open"]
    /\ UNCHANGED <<file, readers, found, again, cache, said>>

(* The lock, and _attempted again: whoever comes second finds it set.       *)
Lock(t) ==
    /\ asks[t] = "lock" /\ holder = {}
    /\ IF "api" \in attempted THEN Says(t, StatusOf("api")) /\ UNCHANGED <<attempted, holder>>
       ELSE /\ attempted' = attempted \cup {"api"}
            /\ holder' = {t}
            /\ asks' = [asks EXCEPT ![t] = "open"]
            /\ UNCHANGED said
    /\ UNCHANGED <<file, readers, found, again, cache>>

(* The reader is opened if it can be, and the lock released, also by an     *)
(* error that leaves status and is the request's answer.                   *)
Open(t) ==
    /\ asks[t] = "open"
    /\ Tries("api")
    /\ readers' = IF file = "valid" THEN readers \cup {"api"} ELSE readers
    /\ holder' = {}
    /\ asks' = [asks EXCEPT ![t] = "idle"]
    /\ said' = said \cup {IF file = "valid" THEN "ready"
                           ELSE IF file = "invalid" THEN "error" ELSE "database unreadable"}
    /\ UNCHANGED <<file, attempted, cache>>

-----------------------------------------------------------------------------
(* lookup, by the worker, whose resolver no other thread has.  What it      *)
(* finds out is remembered, also that it found nothing.  An error leaves    *)
(* lookup and ends the cycle; the next one does not try the file again.     *)

Country(ip, open) == IF "worker" \in open /\ ip \in Located THEN "country" ELSE "none"

FirstLookup(ip) ==
    /\ cache[ip] = "unset" /\ "worker" \notin attempted
    /\ attempted' = attempted \cup {"worker"}
    /\ readers' = IF file = "valid" THEN readers \cup {"worker"} ELSE readers
    /\ Tries("worker")
    /\ cache' = IF file = "invalid" THEN cache ELSE [cache EXCEPT ![ip] = Country(ip, readers')]
    /\ UNCHANGED <<file, holder, asks, said>>

Lookup(ip) ==
    /\ cache[ip] = "unset" /\ "worker" \in attempted
    /\ cache' = [cache EXCEPT ![ip] = Country(ip, readers)]
    /\ UNCHANGED <<file, attempted, readers, found, again, holder, asks, said>>

GeoNext == \/ FileChanges
           \/ \E t \in Askers : AskStatus(t) \/ EnsureReader(t) \/ Lock(t) \/ Open(t)
           \/ \E ip \in Sources : FirstLookup(ip) \/ Lookup(ip)

GeoSpec == GeoInit /\ [][GeoNext]_geoVars

-----------------------------------------------------------------------------
(* Properties. *)

GeoTypeOK ==
    /\ file \in Found
    /\ attempted \subseteq Resolvers /\ readers \subseteq Resolvers
    /\ found \in [Resolvers -> Found \cup {"untried"}]
    /\ again \subseteq Resolvers
    /\ holder \subseteq Askers
    /\ asks \in [Askers -> {"idle", "ensure", "lock", "open"}]
    /\ cache \in [Sources -> {"unset", "none", "country"}]
    /\ said \subseteq Answers

(* "Thread-safe lazy reader" (geoip.py:28): however many threads find it    *)
(* closed at once, a resolver opens the file once, no two are inside and    *)
(* none leaves the lock behind, the reader it has is the one that was       *)
(* opened, and so a file that raises ends one cycle of the worker, no more. *)
OpenedOnce ==
    /\ holder = {t \in Askers : asks[t] = "open"}
    /\ \A s, t \in holder : s = t
    /\ \A r \in Resolvers :
        /\ r \notin again
        /\ found[r] # "untried" => r \in attempted
        /\ r \in readers <=> found[r] = "valid"

(* What makes it inductive: whoever is inside the lock has set _attempted,  *)
(* and nobody has tried before.                                            *)
GeoInv ==
    /\ GeoTypeOK /\ OpenedOnce
    /\ holder # {} => "api" \in attempted /\ found["api"] = "untried"

(* "database unreadable" (geoip.py:48) is said of a database that was found *)
(* unreadable.                                                             *)
UnreadableWasTried ==
    "database unreadable" \in said => found["api"] \notin {"untried", "valid"}

(* "it must never be able to stop one from being recorded" (geoip.py:8-9):  *)
(* no look at the file ends the cycle that is about to record an alert.     *)
NoAlertIsStopped == found["worker"] # "invalid"

(* The status that /api/health shows is that of the resolver which          *)
(* decorates the alerts: once it says ready, a known address that is looked *)
(* up for the first time gets its country.                                  *)
ReadyMeansCountries ==
    [][\A ip \in Located : "ready" \in said /\ cache'[ip] # cache[ip] => cache'[ip] = "country"]_geoVars

=============================================================================
