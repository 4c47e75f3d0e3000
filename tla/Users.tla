------------------------------- MODULE Users -------------------------------
(***************************************************************************)
(* Who can log in over SSH, as collect/users.py reads it off sshd_config   *)
(* and the accounts, beside what sshd itself makes of the same file.       *)
(*                                                                         *)
(* A configuration is the sequence of its directives, a key with the set   *)
(* of its values.  Not in it are comments, Include and Match, the keywords  *)
(* by which sshd only refuses (DenyGroups, AuthenticationMethods), and the  *)
(* spellings that the code does not split into words (key=value, quotes).   *)
(***************************************************************************)
EXTENDS Integers, FiniteSets, Sequences

Names  == {"root", "alice"}
Groups == {"ops"}

RootSettings == {"yes", "prohibit-password", "forced-commands-only", "no"}

(* Where a connection comes from, for entries of the form USER@HOST. *)
Origins == {"inside", "outside"}

(* An entry of AllowUsers or DenyUsers is what it matches: the name of one  *)
(* account, or a pattern, or either of them at a host.                      *)
Name(n)              == [names |-> {n}, from |-> Origins, plain |-> TRUE]
Pattern(names, from) == [names |-> names, from |-> from, plain |-> FALSE]

Entry == {Name(n) : n \in Names}
         \cup {Pattern(names, from) : names \in SUBSET Names, from \in SUBSET Origins}

Directive == [key : {"permitrootlogin"}, values : {{s} : s \in RootSettings}]
             \cup [key : {"passwordauthentication", "usepam",
                        "kbdinteractiveauthentication"}, values : {{"yes"}, {"no"}}]
             \cup [key : {"allowusers", "denyusers"}, values : SUBSET Entry \ {{}}]
             \cup [key : {"allowgroups"}, values : SUBSET Groups \ {{}}]

(* keys: where sshd finds some for the account, in .ssh/authorized_keys or  *)
(* elsewhere (authorized_keys2, AuthorizedKeysFile, AuthorizedKeysCommand,  *)
(* a trusted authority).  home: whether the service can look into the       *)
(* account's directory.                                                     *)
Account == [name : Names, groups : SUBSET Groups, shell : {"login", "nologin", "empty"},
            keys : SUBSET {"authorized_keys", "elsewhere"}, home : BOOLEAN]

-----------------------------------------------------------------------------
(* read_ssh_policy *)

Unreadable == [root |-> "prohibit-password", passwords |-> TRUE,
               allow |-> {}, groups |-> {}, deny |-> {}, readable |-> FALSE]

(* Mutant: passwords count as off until a directive says otherwise. *)
DefaultsHardened == [Unreadable EXCEPT !.readable = TRUE, !.passwords = FALSE]

Defaults == [Unreadable EXCEPT !.readable = TRUE]

Placed(config, key) == {i \in DOMAIN config : config[i].key = key}
Given(config, key)  == {config[i].values : i \in Placed(config, key)}

LastOf(config, key, default) ==
    LET at == Placed(config, key)
    IN IF at = {} THEN default ELSE config[CHOOSE i \in at : \A j \in at : j <= i].values

(* Line by line: a later directive replaces the setting of an earlier one;  *)
(* lists add up.                                                            *)
ReadPolicy(config) ==
    [Defaults EXCEPT
        !.root      = CHOOSE v \in LastOf(config, "permitrootlogin", {@}) : TRUE,
        !.passwords = "yes" \in LastOf(config, "passwordauthentication",
                                      IF @ THEN {"yes"} ELSE {"no"}),
        !.allow     = UNION Given(config, "allowusers"),
        !.groups    = UNION Given(config, "allowgroups"),
        !.deny      = UNION Given(config, "denyusers")]

-----------------------------------------------------------------------------
(* _has_authorized_keys and _classify_access *)

(* Mutant: what cannot be looked at is not there. *)
KeysOrNone(a) == IF a.home /\ "authorized_keys" \in a.keys THEN "some" ELSE "none"

(* A home directory that cannot be searched raises, and leaves it unknown.  *)
AuthorizedKeys(a) ==
    IF ~a.home THEN "unknown"
    ELSE IF "authorized_keys" \in a.keys THEN "some" ELSE "none"

RootBarred(a, policy) ==
    a.name = "root" /\ policy.root \in {"no", "forced-commands-only"}

(* Entries are compared with the name as text.                              *)
OffTheList(a, policy) == policy.allow # {} /\ Name(a.name) \notin policy.allow

NoCredential(a, policy) == ~policy.passwords /\ AuthorizedKeys(a) = "none"

(* The early returns that need no look at the account's keys. *)
Refused(a, policy) ==
    \/ a.shell \in {"nologin", "empty"}
    \/ Name(a.name) \in policy.deny
    \/ RootBarred(a, policy)
    \/ OffTheList(a, policy) /\ policy.groups = {}

Undecided(a, policy) ==
    \/ OffTheList(a, policy)
    \/ ~policy.readable
    \/ AuthorizedKeys(a) = "unknown" /\ ~policy.passwords

Access(a, policy) ==
    IF Refused(a, policy) THEN "no"
    ELSE IF Undecided(a, policy) THEN "unknown"
    ELSE IF NoCredential(a, policy) THEN "no" ELSE "yes"

-----------------------------------------------------------------------------
(* What sshd does (external): of a setting the first directive counts, the  *)
(* lists must all let the account through, their entries being patterns of  *)
(* users and hosts, root needs a key unless PermitRootLogin is "yes" (the   *)
(* forced command of a key is no session), PAM may ask for a password by    *)
(* keyboard, and an empty shell field stands for /bin/sh.                   *)

FirstOf(config, key, default) ==
    LET at == Placed(config, key)
    IN IF at = {} THEN default ELSE config[CHOOSE i \in at : \A j \in at : i <= j].values

TakesPasswords(config) == "yes" \in FirstOf(config, "passwordauthentication", {"yes"})
RootLogin(config) ==
    CHOOSE v \in FirstOf(config, "permitrootlogin", {"prohibit-password"}) : TRUE

AsksByKeyboard(config) ==
    /\ "yes" \in FirstOf(config, "usepam", {"no"})
    /\ "yes" \in FirstOf(config, "kbdinteractiveauthentication", {"yes"})

Matches(entry, a, from) == a.name \in entry.names /\ from \in entry.from

LetThrough(a, config) ==
    LET allow  == UNION Given(config, "allowusers")
        groups == UNION Given(config, "allowgroups")
    IN /\ a.shell # "nologin"
       /\ \E from \in Origins :
            /\ \A e \in UNION Given(config, "denyusers") : ~Matches(e, a, from)
            /\ allow = {} \/ \E e \in allow : Matches(e, a, from)
       /\ groups = {} \/ a.groups \cap groups # {}

AdmitsByPassword(a, config) ==
    /\ TakesPasswords(config)
    /\ a.name = "root" => RootLogin(config) = "yes"
    /\ LetThrough(a, config)

AdmitsByKeyboard(a, config) ==
    /\ AsksByKeyboard(config)
    /\ a.name = "root" => RootLogin(config) = "yes"
    /\ LetThrough(a, config)

AdmitsByKey(a, config) ==
    /\ a.keys # {}
    /\ a.name = "root" => RootLogin(config) \in {"yes", "prohibit-password"}
    /\ LetThrough(a, config)

Admits(a, config) ==
    AdmitsByPassword(a, config) \/ AdmitsByKeyboard(a, config) \/ AdmitsByKey(a, config)

-----------------------------------------------------------------------------
(* What the code does not look at. *)

(* An entry of AllowUsers that is not the account's name and matches it.    *)
ListedByPattern(a, config) ==
    \E e \in UNION Given(config, "allowusers") :
        e # Name(a.name) /\ \E from \in Origins : Matches(e, a, from)

(* A key or a password that neither authorized_keys nor                     *)
(* PasswordAuthentication tells of.                                         *)
OtherCredential(a, config) == "elsewhere" \in a.keys \/ AsksByKeyboard(config)

(* Each setting that the code reads is given once, so that first and last   *)
(* are the same.                                                            *)
GivenOnce(config) ==
    \A i, j \in DOMAIN config :
        config[i].key = config[j].key
        /\ config[i].key \in {"permitrootlogin", "passwordauthentication"} => i = j

=============================================================================
