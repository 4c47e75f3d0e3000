---------------------------- MODULE ScoreProofs ----------------------------
(***************************************************************************)
(* Theorems about the posture score and the inventory of accounts, for any *)
(* set of sshd configurations, any switches and any limits.                *)
(***************************************************************************)
EXTENDS Score, TLAPS

(* The lesser of two numbers. *)
LEMMA MinOfTwo ==
    ASSUME NEW m \in Int, NEW n \in Int
    PROVE  Min({m, n}) = IF m <= n THEN m ELSE n
<1>1. \A x \in {m, n} : (\A y \in {m, n} : x <= y) => x = IF m <= n THEN m ELSE n
  OBVIOUS
<1>2. \E x \in {m, n} : \A y \in {m, n} : x <= y
  <2>1. (m <= n => (\A y \in {m, n} : m <= y)) /\ (~(m <= n) => (\A y \in {m, n} : n <= y))
    OBVIOUS
  <2> QED
    BY <2>1
<1> QED
  BY <1>1, <1>2 DEF Min

(* Whatever happens to host, collectors and log, the inputs of the score    *)
(* stay of their types, the two ages within their limits.                   *)
THEOREM ScoreTypeCorrect == Spec => []TypeOK
<1> USE ScoreAssumption
<1>1. Init => TypeOK
  BY DEF Init, TypeOK, Samples, Statuses, Longer
<1>2. TypeOK /\ [Next]_vars => TypeOK'
  <2> SUFFICES ASSUME TypeOK, [Next]_vars PROVE TypeOK'
    OBVIOUS
  <2>1. CASE HostChanges
    <3>1. host' \in Host
      BY <2>1 DEF HostChanges, TypeOK, Host
    <3> QED
      BY <2>1, <3>1 DEF HostChanges, TypeOK
  <2>2. ASSUME NEW i \in Inputs, Loses(i) \/ Regains(i) PROVE TypeOK'
    BY <2>2 DEF Loses, Regains, TypeOK
  <2>3. CASE Attack \/ Breach
    BY <2>3 DEF Attack, Breach, TypeOK, Longer
  <2>4. CASE HourPasses
    <3>1. ASSUME NEW limit \in Nat, NEW age \in 0 .. Longer(limit)
          PROVE  Min({age + 1, Longer(limit)}) \in 0 .. Longer(limit)
      BY MinOfTwo DEF Longer
    <3> QED
      BY <2>4, <3>1 DEF HourPasses, TypeOK
  <2>5. CASE Sample
    BY <2>5 DEF Sample, TypeOK, Samples
  <2>6. CASE AskFail2Ban
    BY <2>6 DEF AskFail2Ban, TypeOK, Statuses
  <2>7. CASE UNCHANGED vars
    BY <2>7 DEF vars, TypeOK
  <2> QED
    BY <2>1, <2>2, <2>3, <2>4, <2>5, <2>6, <2>7 DEF Next
<1> QED
  BY <1>1, <1>2, PTL DEF Spec

-----------------------------------------------------------------------------
(* The score. *)

(* What each rule can cost. *)
LEMMA Costs ==
    /\ Cost("firewall") \in {0, 20}         /\ Cost("active_attacks") \in {0, 10}
    /\ Cost("login_after_attack") \in {0, 25} /\ Cost("open_ports") \in {0, 10}
    /\ Cost("exposed_database") \in {0, 15} /\ Cost("root_login") \in {0, 15}
    /\ Cost("password_auth") \in {0, 10}    /\ Cost("fail2ban") \in {0, 10}
    /\ Cost("disk_pressure") \in {0, 5}
  BY DEF Cost, Points

(* No rule deducts of a blinded host that did not before, but the one.     *)
LEMMA NoRuleIsAdded ==
    ASSUME TypeOK, TypeOK', Blinded, NEW rule \in DOMAIN Points, Deducts(rule)'
    PROVE  Deducts(rule) \/ (rule = "fail2ban" /\ asked = "ready" /\ asked' = "failed")
<1> USE ScoreAssumption DEF TypeOK, Blinded
<1>1. SshdKnown' => SshdKnown /\ Policy' = Policy
  BY DEF SshdKnown, Policy
<1>2. /\ Public' \in {0, Public} /\ (Database' => Database) /\ (FirewallOff' => FirewallOff)
      /\ Public \in Nat
  BY DEF Public, Database, FirewallOff, Host
<1>3. rule \in {"firewall", "active_attacks", "login_after_attack", "open_ports",
                "exposed_database", "root_login", "password_auth", "fail2ban", "disk_pressure"}
  BY DEF Points
<1>4. CASE rule \in {"active_attacks", "login_after_attack"}
  <2>1. /\ attacked \in Int /\ attacked' \in Int /\ AttackHours \in Int
        /\ breached \in Int /\ breached' \in Int /\ BreachHours \in Int
    BY DEF Longer
  <2>2. /\ attacked' <= AttackHours => attacked <= AttackHours
        /\ breached' <= BreachHours => breached <= BreachHours
    BY <2>1
  <2>3. CASE rule = "active_attacks"
    BY <2>2, <2>3 DEF Deducts
  <2>4. CASE rule = "login_after_attack"
    BY <2>2, <2>4 DEF Deducts
  <2> QED
    BY <1>4, <2>3, <2>4
<1>5. CASE rule = "open_ports"
  <2>1. Public' > Budget => Public > Budget
    BY <1>2
  <2> QED
    BY <1>5, <2>1 DEF Deducts
<1>6. CASE rule \in {"firewall", "exposed_database"}
  BY <1>2, <1>6 DEF Deducts
<1>7. CASE rule \in {"root_login", "password_auth"}
  BY <1>1, <1>7 DEF Deducts
<1>8. CASE rule = "fail2ban"
  BY <1>8 DEF Deducts, Statuses
<1>9. CASE rule = "disk_pressure"
  BY <1>9 DEF Deducts
<1> QED
  BY <1>3, <1>4, <1>5, <1>6, <1>7, <1>8, <1>9

(* What could not be measured, and attacks and breaches that recede, add no *)
(* deduction to compute's and take nothing off its score, but for fail2ban. *)
THEOREM BlindnessTheorem == Spec => OnlyFail2BanPunishesBlindness
<1> DEFINE Punished == asked = "ready" /\ asked' = "failed"
           Rest == Cost("firewall") + Cost("active_attacks") + Cost("login_after_attack")
                   + Cost("open_ports") + Cost("exposed_database") + Cost("root_login")
                   + Cost("password_auth") + Cost("disk_pressure")
<1>1. TypeOK /\ TypeOK' /\ Blinded
        => /\ Deductions' \subseteq Deductions \cup IF Punished THEN {"fail2ban"} ELSE {}
           /\ Value' >= Value - IF Punished THEN Points.fail2ban ELSE 0
  <2> SUFFICES ASSUME TypeOK, TypeOK', Blinded
               PROVE  /\ Deductions' \subseteq Deductions \cup IF Punished THEN {"fail2ban"} ELSE {}
                      /\ Value' >= Value - IF Punished THEN Points.fail2ban ELSE 0
    OBVIOUS
  <2>1. \A rule \in DOMAIN Points :
            Deducts(rule)' => Deducts(rule) \/ (rule = "fail2ban" /\ Punished)
    BY NoRuleIsAdded
  <2>2. Deductions' \subseteq Deductions \cup IF Punished THEN {"fail2ban"} ELSE {}
    BY <2>1 DEF Deductions
  <2>3. DOMAIN Points = {"firewall", "active_attacks", "login_after_attack", "open_ports",
                "exposed_database", "root_login", "password_auth", "fail2ban", "disk_pressure"}
    BY DEF Points
  <2>4. /\ Cost("firewall")' \in {0, Cost("firewall")}
        /\ Cost("active_attacks")' \in {0, Cost("active_attacks")}
        /\ Cost("login_after_attack")' \in {0, Cost("login_after_attack")}
        /\ Cost("open_ports")' \in {0, Cost("open_ports")}
        /\ Cost("exposed_database")' \in {0, Cost("exposed_database")}
        /\ Cost("root_login")' \in {0, Cost("root_login")}
        /\ Cost("password_auth")' \in {0, Cost("password_auth")}
        /\ Cost("disk_pressure")' \in {0, Cost("disk_pressure")}
    BY <2>1, <2>3 DEF Cost
  <2>5. Rest' <= Rest /\ Rest' \in Int /\ Rest \in Int
    BY <2>4, Costs
  <2>6. Cost("fail2ban")' <= Cost("fail2ban") + (IF Punished THEN Points.fail2ban ELSE 0)
        /\ Points.fail2ban = 10
    <3>1. Points.fail2ban = 10 /\ Points["fail2ban"] = 10 /\ "fail2ban" \in DOMAIN Points
      BY DEF Points
    <3>2. CASE Punished
      BY <3>1, <3>2, Costs DEF Cost
    <3>3. CASE ~Punished
      <4>1. Deducts("fail2ban")' => Deducts("fail2ban")
        BY <2>1, <3>1, <3>3
      <4>2. Cost("fail2ban")' \in {0, Cost("fail2ban")}
        BY <4>1 DEF Cost
      <4> QED
        BY <3>1, <3>3, <4>2, Costs
    <3> QED
      BY <3>2, <3>3
  <2>7. Cost("fail2ban")' \in {0, 10}
    BY DEF Cost, Points
  <2>8. Total = Rest + Cost("fail2ban") /\ Total \in Int
    BY Costs DEF Total
  <2>9. Total' = Rest' + Cost("fail2ban")' /\ Total' \in Int
    BY <2>4, <2>7, Costs DEF Total
  <2>10. Total' <= Total + IF Punished THEN 10 ELSE 0
    <3>1. Rest' + Cost("fail2ban")' <= Rest + Cost("fail2ban") + IF Punished THEN 10 ELSE 0
      BY <2>5, <2>6, <2>7, Costs
    <3> QED
      BY <2>8, <2>9, <3>1
  <2>11. \A m, n \in Int : \A d \in {0, 10} :
            n <= m + d => (IF n > 100 THEN 0 ELSE 100 - n)
                              >= (IF m > 100 THEN 0 ELSE 100 - m) - d
    OBVIOUS
  <2>12. (IF Total > 100 THEN 0 ELSE 100 - Total)'
            >= (IF Total > 100 THEN 0 ELSE 100 - Total) - (IF Punished THEN 10 ELSE 0)
    BY <2>8, <2>9, <2>10, <2>11
  <2>13. Value' >= Value - (IF Punished THEN 10 ELSE 0)
    BY <2>12 DEF Value
  <2> QED
    BY <2>2, <2>6, <2>13
<1> QED
  BY <1>1, ScoreTypeCorrect, PTL DEF OnlyFail2BanPunishesBlindness

(* The two rules that cost twenty points and more take a host out of the    *)
(* best band, which begins at 85.                                           *)
THEOREM SeriousTheorem == Spec => []SeriousIsNeverGood
<1>1. TypeOK => SeriousIsNeverGood
  <2> SUFFICES ASSUME TypeOK, breached <= BreachHours \/ ("firewall" \in readable /\ ~host.firewall)
               PROVE  Band(Value) # "good"
    BY DEF SeriousIsNeverGood
  <2>1. Cost("login_after_attack") = 25 \/ Cost("firewall") = 20
    BY DEF Cost, Deducts, FirewallOff, Points
  <2>2. Total >= 20 /\ Total \in Int
    BY <2>1, Costs DEF Total
  <2>3. Value <= 80 /\ Value \in Int
    BY <2>2 DEF Value
  <2> QED
    BY <2>3 DEF Band
<1> QED
  BY <1>1, ScoreTypeCorrect, PTL

-----------------------------------------------------------------------------
(* The accounts. *)

(* Of a setting that is given once, the first directive is the last.        *)
LEMMA FirstIsLast ==
    ASSUME NEW config \in Seq(Directive), GivenOnce(config), NEW default,
           NEW key \in {"permitrootlogin", "passwordauthentication"}
    PROVE  FirstOf(config, key, default) = LastOf(config, key, default)
<1>1. CASE Placed(config, key) = {}
  BY <1>1 DEF FirstOf, LastOf
<1>2. CASE Placed(config, key) # {}
  <2>1. PICK k : Placed(config, key) = {k} /\ k \in DOMAIN config
    BY <1>2 DEF Placed, GivenOnce
  <2>2. k \in Int
    BY <2>1
  <2>3. /\ (CHOOSE i \in {k} : \A j \in {k} : i <= j) = k
        /\ (CHOOSE i \in {k} : \A j \in {k} : j <= i) = k
    BY <2>2
  <2> QED
    BY <1>2, <2>1, <2>3 DEF FirstOf, LastOf
<1> QED
  BY <1>1, <1>2

(* What the inventory reads of such a configuration is what sshd goes by.   *)
LEMMA PolicyOfSshd ==
    ASSUME NEW config \in Seq(Directive), GivenOnce(config)
    PROVE  LET policy == ReadPolicy(config)
           IN /\ policy.root = RootLogin(config)
              /\ policy.passwords = TakesPasswords(config) /\ policy.readable
              /\ policy.allow = UNION Given(config, "allowusers")
              /\ policy.groups = UNION Given(config, "allowgroups")
              /\ policy.deny = UNION Given(config, "denyusers")
<1>1. ReadPolicy(config).root = RootLogin(config)
  BY FirstIsLast DEF ReadPolicy, RootLogin, Defaults, Unreadable
<1>2. ReadPolicy(config).passwords = TakesPasswords(config)
  BY FirstIsLast DEF ReadPolicy, TakesPasswords, Defaults, Unreadable
<1> QED
  BY <1>1, <1>2 DEF ReadPolicy, Defaults, Unreadable

(* Whom sshd admits has a shell that opens a session, and some entry of     *)
(* AllowUsers, if there is any, matches him.                                *)
LEMMA AdmittedAreListed ==
    ASSUME NEW config, NEW a \in Account, Admits(a, config)
    PROVE  /\ a.shell # "nologin"
           /\ \E from \in Origins :
                /\ \A e \in UNION Given(config, "denyusers") : ~Matches(e, a, from)
                /\ \/ UNION Given(config, "allowusers") = {}
                   \/ \E e \in UNION Given(config, "allowusers") : Matches(e, a, from)
  BY DEF Admits, AdmitsByPassword, AdmitsByKeyboard, AdmitsByKey, LetThrough

(* A name in DenyUsers matches its account from everywhere.                 *)
LEMMA NameMatches ==
    ASSUME NEW a, NEW from \in Origins
    PROVE  Matches(Name(a.name), a, from)
  BY DEF Matches, Name

(* Each refusal of the inventory is sshd's, but in the three cases.         *)
LEMMA RefusalsAreSshds ==
    ASSUME NEW config \in Seq(Directive), GivenOnce(config),
           NEW a \in Account, a.shell # "empty", Admits(a, config),
           NEW policy \in {ReadPolicy(config), Unreadable}, Access(a, policy) = "no"
    PROVE  \/ OffTheList(a, policy) /\ ListedByPattern(a, config)
           \/ NoCredential(a, policy) /\ OtherCredential(a, config)
<1>1. a.shell = "login"
  BY AdmittedAreListed DEF Account
<1>2. CASE policy = Unreadable
  <2>1. ~Refused(a, Unreadable)
    BY <1>1 DEF Refused, RootBarred, OffTheList, Unreadable
  <2>2. Undecided(a, Unreadable)
    BY DEF Undecided, Unreadable
  <2> QED
    BY <1>2, <2>1, <2>2 DEF Access
<1>3. CASE policy = ReadPolicy(config)
  <2>1. Refused(a, policy) \/ (~Undecided(a, policy) /\ NoCredential(a, policy))
    BY DEF Access
  <2>2. ~(Name(a.name) \in policy.deny)
    BY <1>3, PolicyOfSshd, AdmittedAreListed, NameMatches
  <2>3. ~RootBarred(a, policy)
    BY <1>3, PolicyOfSshd
       DEF RootBarred, Admits, AdmitsByPassword, AdmitsByKeyboard, AdmitsByKey
  <2>4. CASE OffTheList(a, policy)
    <3>1. PICK from \in Origins : \E e \in UNION Given(config, "allowusers") : Matches(e, a, from)
      BY <1>3, <2>4, PolicyOfSshd, AdmittedAreListed DEF OffTheList
    <3>2. PICK e \in UNION Given(config, "allowusers") : Matches(e, a, from)
      BY <3>1
    <3>3. e # Name(a.name)
      BY <1>3, <2>4, <3>2, PolicyOfSshd DEF OffTheList
    <3> QED
      BY <2>4, <3>2, <3>3 DEF ListedByPattern
  <2>5. CASE NoCredential(a, policy)
    <3>1. ~TakesPasswords(config) /\ "authorized_keys" \notin a.keys
      BY <1>3, <2>5, PolicyOfSshd DEF NoCredential, AuthorizedKeys
    <3>2. a.keys # {} \/ AsksByKeyboard(config)
      BY <3>1 DEF Admits, AdmitsByPassword, AdmitsByKeyboard, AdmitsByKey
    <3>3. a.keys \subseteq {"authorized_keys", "elsewhere"}
      BY DEF Account
    <3> QED
      BY <2>5, <3>1, <3>2, <3>3 DEF OtherCredential
  <2> QED
    BY <1>1, <2>1, <2>2, <2>3, <2>4, <2>5 DEF Refused
<1> QED
  BY <1>2, <1>3

(* What sshd_config may hold is a configuration. *)
LEMMA ConfigIsDirectives == TypeOK => host.sshd \in Seq(Directive)
  BY ScoreAssumption DEF TypeOK, Host

(* read_ssh_policy and _classify_access deny no account that sshd admits    *)
(* but in the three cases, whatever the configuration, as long as no setting *)
(* that they read is given twice.                                           *)
THEOREM DenialsTheorem == Spec => []DenialsAreSshds
<1>1. TypeOK => DenialsAreSshds
  <2> SUFFICES ASSUME TypeOK, GivenOnce(host.sshd), NEW a \in Account, a.shell # "empty",
                      Access(a, Policy) = "no", Admits(a, host.sshd)
               PROVE  \/ OffTheList(a, Policy) /\ ListedByPattern(a, host.sshd)
                      \/ NoCredential(a, Policy) /\ OtherCredential(a, host.sshd)
    BY DEF DenialsAreSshds
  <2>1. host.sshd \in Seq(Directive)
    BY ConfigIsDirectives
  <2>2. Policy \in {ReadPolicy(host.sshd), Unreadable}
    BY DEF Policy
  <2> QED
    BY <2>1, <2>2, RefusalsAreSshds
<1> QED
  BY <1>1, ScoreTypeCorrect, PTL

(* compute charges for every account that its password alone lets in.       *)
THEOREM WeakSshdTheorem == Spec => []WeakSshdCosts
<1>1. TypeOK => WeakSshdCosts
  <2> SUFFICES ASSUME TypeOK, SshdKnown, GivenOnce(host.sshd),
                      NEW a \in Account, AdmitsByPassword(a, host.sshd)
               PROVE  /\ "password_auth" \in Deductions
                      /\ a.name = "root" => "root_login" \in Deductions
    BY DEF WeakSshdCosts
  <2>1. host.sshd \in Seq(Directive) /\ Policy = ReadPolicy(host.sshd)
    BY ConfigIsDirectives DEF Policy
  <2>2. Policy.passwords /\ (a.name = "root" => Policy.root = "yes")
    BY <2>1, PolicyOfSshd DEF AdmitsByPassword
  <2>3. {"password_auth", "root_login"} \subseteq DOMAIN Points
    BY DEF Points
  <2> QED
    BY <2>2, <2>3 DEF Deductions, Deducts
<1> QED
  BY <1>1, ScoreTypeCorrect, PTL

=============================================================================
