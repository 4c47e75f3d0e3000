------------------------------- MODULE Enrich -------------------------------
(***************************************************************************)
(* The enrichment that a process keeps: the fail2ban client and the GeoIP  *)
(* resolvers, which the same handlers and the same worker ask.  They share  *)
(* no state; a behaviour asks of one or of the other: a bound.              *)
(***************************************************************************)
EXTENDS Fail2Ban, GeoIp

EnrichInit == Init /\ GeoInit

AsksFail2Ban == GeoInit /\ Next /\ UNCHANGED geoVars

AsksGeoIp == Init /\ GeoNext /\ UNCHANGED vars

EnrichNext == AsksFail2Ban \/ AsksGeoIp

EnrichSpec == EnrichInit /\ [][EnrichNext]_<<vars, geoVars>>

=============================================================================
