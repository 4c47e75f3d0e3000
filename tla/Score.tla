------------------------------- MODULE Score -------------------------------
(***************************************************************************)
(* The posture score (score.compute, and /api/score which measures its     *)
(* inputs): named deductions from 100 over a host that changes, collectors *)
(* that fail, and alerts and breaches that age.                            *)
(*                                                                         *)
(* What sshd permits comes through Users.  Two inputs are not measured for  *)
(* the score but remembered: the disk's figure in the newest host_samples   *)
(* row, and in the fail2ban client what its last query came to, which is    *)
(* how status reads.  How that client works is Fail2Ban's matter.           *)
(***************************************************************************)
EXTENDS Users, FiniteSetsExt

CONSTANTS
    Collects,       \* the collectors that are switched on: "ports", "sshd"
    AttackHours,    \* how long an alert is active (1)
    BreachHours,    \* how long a breach counts (24)
    Budget,         \* PUBLIC_PORT_BUDGET
    MaxPorts,       \* bound: public listeners
    MaxLost,        \* bound: inputs that are lost at a time
    SshdConfigs     \* what sshd_config may hold

Inputs == {"firewall", "ports", "sshd", "disk", "log", "fail2ban"}

ASSUME ScoreAssumption ==
    /\ Collects \subseteq {"ports", "sshd"}
    /\ AttackHours \in Nat /\ BreachHours \in Nat
    /\ Budget \in Nat /\ MaxPorts \in Nat /\ MaxLost \in Nat
    /\ \A config \in SshdConfigs : config \in Seq(Directive)

VARIABLES
    host,       \* the host as it is
    readable,   \* the inputs that can be measured
    sample,     \* what the newest host_samples row says of the disk
    asked,      \* what the last query of fail2ban came to
    attacked,   \* hours since the last alert's last_seen, or Longer
    breached    \* hours since the last SSH_LOGIN_AFTER_ATTACK, or Longer

vars == <<host, readable, sample, asked, attacked, breached>>

Longer(limit) == limit + 1

Host == [firewall : BOOLEAN,            \* UFW is active
         public : 0 .. MaxPorts,        \* public listeners
         database : BOOLEAN,            \* a database is among them
         sshd : SshdConfigs,            \* sshd_config
         disk : BOOLEAN,                \* 90% full or more
         fail2ban : BOOLEAN]            \* it runs, and its jail

(* No row yet, a row without a figure, 90% full or more, or less. *)
Samples == {"none", "unmeasured", "full", "free"}

(* status: "not yet queried", ready, or why the query failed (not installed, *)
(* no jail, stopped, refused, timed out: the client does not tell them      *)
(* apart).                                                                  *)
Statuses == {"never", "ready", "failed"}

Possible(h) == h.database => h.public > 0

Init ==
    /\ host \in {h \in Host : Possible(h)}
    /\ readable = Inputs /\ sample = "none" /\ asked = "never"
    /\ attacked = Longer(AttackHours) /\ breached = Longer(BreachHours)

-----------------------------------------------------------------------------
(* compute *)

(* Mutant: "not active" and "not known" are one. *)
FirewallOffOrUnknown == "firewall" \notin readable \/ ~host.firewall

FirewallOff == "firewall" \in readable /\ ~host.firewall

(* Listeners that cannot be read are an empty list; None is for a collector *)
(* that is switched off.                                                    *)
Public   == IF {"ports"} \subseteq Collects \cap readable THEN host.public ELSE 0
Database == {"ports"} \subseteq Collects \cap readable /\ host.database

SshdKnown == {"sshd"} \subseteq Collects \cap readable

Policy == IF SshdKnown THEN ReadPolicy(host.sshd) ELSE Unreadable

Points == [firewall |-> 20, active_attacks |-> 10, login_after_attack |-> 25,
           open_ports |-> 10, exposed_database |-> 15, root_login |-> 15,
           password_auth |-> 10, fail2ban |-> 10, disk_pressure |-> 5]

Deducts(rule) ==
    CASE rule = "firewall"           -> FirewallOff
      [] rule = "active_attacks"     -> attacked <= AttackHours
      [] rule = "login_after_attack" -> breached <= BreachHours
      [] rule = "open_ports"         -> Public > Budget
      [] rule = "exposed_database"   -> Database
      [] rule = "root_login"         -> SshdKnown /\ Policy.root = "yes"
      [] rule = "password_auth"      -> SshdKnown /\ Policy.passwords
      [] rule = "fail2ban"           -> asked # "ready"
      [] rule = "disk_pressure"      -> sample = "full"

Deductions == {rule \in DOMAIN Points : Deducts(rule)}

Cost(rule) == IF Deducts(rule) THEN Points[rule] ELSE 0

Total == Cost("firewall") + Cost("active_attacks") + Cost("login_after_attack")
         + Cost("open_ports") + Cost("exposed_database") + Cost("root_login")
         + Cost("password_auth") + Cost("fail2ban") + Cost("disk_pressure")

Value == IF Total > 100 THEN 0 ELSE 100 - Total

(* Mutant: the bands of another scale. *)
BandOfQuarters(value) == IF value >= 75 THEN "good"
                         ELSE IF value >= 50 THEN "fair"
                         ELSE IF value >= 25 THEN "weak" ELSE "poor"

Band(value) == IF value >= 85 THEN "good"
               ELSE IF value >= 65 THEN "fair"
               ELSE IF value >= 40 THEN "weak" ELSE "poor"

Unknowns == (IF "firewall" \in readable THEN {} ELSE {"firewall"})
            \cup (IF sample \in {"none", "unmeasured"} THEN {"disk"} ELSE {})
            \cup (IF "ports" \in Collects THEN {} ELSE {"ports"})
            \cup (IF SshdKnown THEN {} ELSE {"sshd"})

-----------------------------------------------------------------------------
(* What happens between two requests. *)

HostChanges ==
    /\ \/ \E f \in DOMAIN host \ {"public", "sshd"} : host' = [host EXCEPT ![f] = ~@]
       \/ \E n \in 0 .. MaxPorts : host' = [host EXCEPT !.public = n]
       \/ \E config \in SshdConfigs : host' = [host EXCEPT !.sshd = config]
    /\ Possible(host')
    /\ UNCHANGED <<readable, sample, asked, attacked, breached>>

Loses(i) ==
    /\ i \in readable /\ Cardinality(Inputs \ readable) < MaxLost
    /\ readable' = readable \ {i}
    /\ UNCHANGED <<host, sample, asked, attacked, breached>>

Regains(i) ==
    /\ readable' = readable \cup {i} /\ i \notin readable
    /\ UNCHANGED <<host, sample, asked, attacked, breached>>

(* The ingestor detects what the log shows. *)
Attack ==
    /\ "log" \in readable
    /\ attacked' = 0
    /\ UNCHANGED <<host, readable, sample, asked, breached>>

Breach ==
    /\ "log" \in readable /\ attacked <= AttackHours
    /\ breached' = 0
    /\ UNCHANGED <<host, readable, sample, asked, attacked>>

HourPasses ==
    /\ attacked' = Min({attacked + 1, Longer(AttackHours)})
    /\ breached' = Min({breached + 1, Longer(BreachHours)})
    /\ UNCHANGED <<host, readable, sample, asked>>

(* A cycle's row, whose figure is missing when statvfs fails.  Nothing makes *)
(* the cycle run: the worker may have stopped.                              *)
Sample ==
    /\ sample' = IF "disk" \notin readable THEN "unmeasured"
                 ELSE IF host.disk THEN "full" ELSE "free"
    /\ UNCHANGED <<host, readable, asked, attacked, breached>>

(* /api/alerts asks, in the same process: banned_ips.                       *)
AskFail2Ban ==
    /\ asked' = IF "fail2ban" \in readable /\ host.fail2ban THEN "ready" ELSE "failed"
    /\ UNCHANGED <<host, readable, sample, attacked, breached>>

Next == \/ HostChanges \/ Sample \/ AskFail2Ban \/ Attack \/ Breach \/ HourPasses
        \/ \E i \in Inputs : Loses(i) \/ Regains(i)

Spec == Init /\ [][Next]_vars

-----------------------------------------------------------------------------
(* Properties. *)

TypeOK ==
    /\ host \in Host /\ readable \subseteq Inputs /\ sample \in Samples
    /\ asked \in Statuses
    /\ attacked \in 0 .. Longer(AttackHours) /\ breached \in 0 .. Longer(BreachHours)

(* Nothing happens but that an input is lost, is missed by the sampler or   *)
(* by a query, or that time passes.                                         *)
Blinded ==
    /\ host' = host /\ readable' \subseteq readable
    /\ sample' \in {sample, "unmeasured"}
    /\ asked' # asked => "fail2ban" \notin readable /\ asked' = "failed"
    /\ attacked' >= attacked /\ breached' >= breached

(* "Punishing the operator for something we could not measure would make    *)
(* the score drift down" (score.py:12-14), and does by one rule alone:      *)
(* blindness adds no deduction but fail2ban's, which compute takes for a    *)
(* query that could not be made as for a daemon that is down (score.py:144),*)
(* and lowers the score by no more than that rule's points.                 *)
OnlyFail2BanPunishesBlindness ==
    [][Blinded =>
        LET punished == asked = "ready" /\ asked' = "failed"
        IN /\ Deductions' \subseteq Deductions \cup IF punished THEN {"fail2ban"} ELSE {}
           /\ Value' >= Value - IF punished THEN Points.fail2ban ELSE 0]_vars

(* "A rule whose input is unavailable does not deduct" (score.py:12): none  *)
(* at all.                                                                  *)
BlindnessNeverDeducts == [][Blinded => Value' >= Value]_vars

(* "costs 25 points of score": neither a breach of the last day nor a       *)
(* firewall known to be off leaves the band "good", however clean the rest. *)
SeriousIsNeverGood ==
    breached <= BreachHours \/ ("firewall" \in readable /\ ~host.firewall)
        => Band(Value) # "good"

(* "it reports unknown rather than guessing" (users.py:12-13): with each    *)
(* setting given once, the inventory denies an account what sshd grants it  *)
(* in three cases and no other: an empty shell, a pattern or a host in      *)
(* AllowUsers (users.py:129), and, with passwords off, a credential that    *)
(* the code does not look for (users.py:150).                               *)
DenialsAreSshds ==
    GivenOnce(host.sshd) =>
        LET policy == Policy
        IN \A a \in Account : Access(a, policy) = "no" /\ Admits(a, host.sshd) =>
            \/ a.shell = "empty"
            \/ OffTheList(a, policy) /\ ListedByPattern(a, host.sshd)
            \/ NoCredential(a, policy) /\ OtherCredential(a, host.sshd)

(* The same sentence, with no case but the shell's: nobody is said to have  *)
(* no access whom sshd lets in.                                             *)
NobodyIsOverlooked ==
    GivenOnce(host.sshd) =>
        \A a \in {b \in Account : b.shell # "empty"} :
            Access(a, Policy) = "no" => ~Admits(a, host.sshd)

(* "brute force can succeed" (score.py:137-141): a host on which some       *)
(* account is let in by its password alone is charged for it, and for root  *)
(* if that account is root's, whichever directives are left to defaults.    *)
(* (By PasswordAuthentication: what PAM asks for by keyboard is not read.)  *)
WeakSshdCosts ==
    SshdKnown /\ GivenOnce(host.sshd) =>
        \A a \in Account : AdmitsByPassword(a, host.sshd) =>
            /\ "password_auth" \in Deductions
            /\ a.name = "root" => "root_login" \in Deductions

(* "each account is resolved against the effective sshd policy"             *)
(* (users.py:8-11): also of a setting that is given twice.                  *)
PolicyIsEffective ==
    /\ ReadPolicy(host.sshd).passwords = TakesPasswords(host.sshd)
    /\ ReadPolicy(host.sshd).root = RootLogin(host.sshd)

(* "An account with a nologin shell cannot open a session" (users.py:5):    *)
(* the shells that count as one of those open none.                         *)
NoShellNoSession ==
    \A a \in Account : a.shell # "login" => ~Admits(a, host.sshd)

(* "it reports unknown rather than guessing in either direction"            *)
(* (users.py:12-13): an account said to have access has it, given a         *)
(* password or a key.                                                       *)
AccessIsCertain ==
    GivenOnce(host.sshd) =>
        \A a \in Account : Access(a, Policy) = "yes" => Admits(a, host.sshd)

(* "A monitor that has stopped reading must never resemble a quiet network" *)
(* (PRODUCT.md:176-177): a full disk costs its points or is not assessed.   *)
FullDiskShows ==
    host.disk => "disk_pressure" \in Deductions \/ "disk" \in Unknowns

(* "A rule whose input is unavailable does not deduct; it is listed as not  *)
(* assessed" (README.md:299-300).                                           *)
UnavailableIsListed ==
    \A i \in {"firewall", "ports", "sshd", "disk", "fail2ban"} : i \notin readable => i \in Unknowns

(* "A monitor that has stopped reading must never resemble a quiet network" *)
(* (PRODUCT.md:176-177): a log that cannot be read leaves a trace in the    *)
(* score, as a deduction or as something not assessed.                      *)
BlindIsNotQuiet ==
    "log" \notin readable => Value < 100 \/ Unknowns # {}

=============================================================================
