------------------------------ MODULE Collect ------------------------------
(***************************************************************************)
(* What one cycle measures of the host: _sample_host and then _sync_ports, *)
(* in one write transaction (ingest.py, run_once), over a host whose       *)
(* counters (Rates) and sockets (PortSync) change in between.  A cycle     *)
(* that raises after them leaves no row and no event, but its collector    *)
(* has read, and remembers.                                                *)
(*                                                                         *)
(* The two halves share the transaction and nothing else.  A behaviour     *)
(* changes the counters or the sockets, not both: a bound.                 *)
(***************************************************************************)
EXTENDS PortSync, Rates

CONSTANT MaxEvents      \* bound: changes of the counters, failed cycles, restarts

ASSUME CollectAssumption == MaxEvents \in Nat

VARIABLE events

collectVars == <<vars, rateVars, events>>

CollectInit == Init /\ RatesInit /\ events = 0

Happens == events < MaxEvents /\ events' = events + 1

NothingListens == changes = 0 /\ \A f \in Files : sockets[f] = {}

Cycle == Measure(TRUE) /\ (Sync \/ SyncNothing) /\ UNCHANGED events

CycleRaises ==
    /\ NothingListens /\ Happens
    /\ Measure(FALSE)
    /\ UNCHANGED vars

CountersChange ==
    /\ NothingListens /\ Happens
    /\ \/ \E i \in Interfaces : Plug(i) \/ Packet(i, "rx") \/ Packet(i, "tx")
       \/ Work("busy") \/ Work("idle") \/ IdleFalls
       \/ Lose("net") \/ Lose("cpu")
       \/ Restart
    /\ UNCHANGED vars

SocketsChange ==
    /\ events = 0
    /\ \/ \E f \in Files, p \in Ports, a \in Addresses : Bind(f, p, a)
       \/ \E f \in Files : Hide(f)
       \/ HourPasses
    /\ UNCHANGED <<rateVars, events>>

CollectNext == \/ Cycle \/ CycleRaises
               \/ CountersChange \/ SocketsChange

CollectSpec == CollectInit /\ [][CollectNext]_collectVars

-----------------------------------------------------------------------------
(* The types of both halves, a share within 0 and 100 percent among them,   *)
(* and that the collector's memory and the kernel's counters agree.         *)
CollectInv == TypeOK /\ RatesInv /\ events \in 0 .. MaxEvents

=============================================================================
