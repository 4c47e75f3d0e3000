------------------------------ MODULE MCDetect ------------------------------
(***************************************************************************)
(* Detect for TLC: small logs, with windows of one or two ticks.           *)
(***************************************************************************)
EXTENDS Queries

Line(key, kind, ip, ts, port) ==
    [key |-> key, kind |-> kind, ip |-> ip, ts |-> ts, port |-> port]

(* One address fails, logs in, pauses for longer than the cooldown and      *)
(* fails again; another probes two ports, one of them twice.                *)
MixedLog == {
    Line(1, "failure", "a", 1, 22), Line(2, "failure",  "a", 2, 22),
    Line(3, "failure", "a", 3, 22), Line(4, "accepted", "a", 2, 22),
    Line(5, "failure", "a", 5, 22), Line(6, "failure",  "a", 6, 22),
    Line(7, "probe",   "b", 4, 80), Line(8, "probe",    "b", 5, 81) }

TwoIps       == {"a", "b"}
OneIp        == {"a"}
Windows      == [k \in Detectors |-> 1]
Cooldowns    == [ssh_bruteforce |-> 1, port_scan |-> 2]
Thresholds   == [k \in Detectors |-> 2]

(* The logs of the violation runs. *)
BurstThenStraggler == {
    Line(1, "failure", "a", 1, 22), Line(2, "failure", "a", 1, 22),
    Line(3, "failure", "a", 4, 22) }

LoginThenBurst == {
    Line(1, "accepted", "a", 1, 22), Line(2, "failure", "a", 3, 22),
    Line(3, "failure",  "a", 3, 22) }

BurstThenLogin == {
    Line(1, "failure", "a", 1, 22), Line(2, "failure", "a", 1, 22),
    Line(3, "accepted", "a", 2, 22) }

LongIncident == {
    Line(1, "failure", "a", 1, 22), Line(2, "failure", "a", 1, 22),
    Line(3, "failure", "a", 1, 22), Line(4, "failure", "a", 2, 22),
    Line(5, "failure", "a", 2, 22), Line(6, "failure", "a", 3, 22)  }

=============================================================================
