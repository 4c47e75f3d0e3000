------------------------------ MODULE MCScore ------------------------------
(***************************************************************************)
(* Score for TLC: configurations of sshd with each directive that Users    *)
(* reads, alone and together, left to its default, and given twice; with   *)
(* patterns and hosts, and with passwords that PAM asks for.               *)
(***************************************************************************)
EXTENDS Score

Line(key, values) == [key |-> key, values |-> values]

Root(setting)   == Line("permitrootlogin", {setting})
Passwords(yes)  == Line("passwordauthentication", {yes})

Configs == {
    << >>,
    <<Root("yes")>>,
    <<Root("no"), Passwords("yes")>>,
    <<Passwords("no")>>,
    <<Root("yes"), Passwords("no")>>,
    <<Root("forced-commands-only"), Line("denyusers", {Name("alice")})>>,
    <<Line("allowusers", {Name("alice")})>>,
    <<Line("allowusers", {Name("alice")}), Line("allowgroups", {"ops"}), Root("yes")>>,
    <<Line("allowgroups", {"ops"}), Line("denyusers", {Name("root")})>>,
    <<Line("allowusers", {Pattern(Names, Origins)}), Line("denyusers", {Pattern({"alice"}, {"outside"})})>>,
    <<Line("allowusers", {Name("root"), Pattern({"alice"}, {"inside"})})>>,
    <<Passwords("no"), Line("usepam", {"yes"})>>,
    <<Passwords("yes"), Passwords("no")>> }

=============================================================================
