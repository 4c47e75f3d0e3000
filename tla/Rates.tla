------------------------------- MODULE Rates -------------------------------
(***************************************************************************)
(* Host metrics that are rates (collect/host.py): the network's throughput *)
(* and the processor's share from counters of the kernel, which wrap, fall *)
(* and cannot always be read, and from what the collector remembers of its *)
(* last reading.  It lives as long as the worker's process.                *)
(*                                                                         *)
(* since and worked are no part of the code: they say what really happened *)
(* since the reading that the collector remembers.                         *)
(***************************************************************************)
EXTENDS Integers, FiniteSets, FiniteSetsExt

CONSTANTS
    Interfaces,     \* those of /proc/net/dev but lo
    Modulus,        \* where the counters wrap: a power of two
    MaxPolls,       \* bound: cycles from one reading of a file to the next
    Unknown         \* None

VARIABLES
    counters,   \* interface -> bytes received and sent, or Unknown (external)
    jiffies,    \* /proc/stat (external)
    unread,     \* the two files that cannot be read (external)
    prevNet,    \* _prev_net without its time, or Unknown
    prevCpu,    \* _prev_cpu, or Unknown
    since,      \* bytes and cycles since prevNet, and whether a counter fell
    worked,     \* jiffies since prevCpu, and whether a counter fell
    row         \* the rates of the newest host_samples row

rateVars == <<counters, jiffies, unread, prevNet, prevCpu, since, worked, row>>

Bytes     == [rx : Nat, tx : Nat]
Jiffies   == [busy : Nat, idle : Nat]
NoBytes   == [rx |-> 0, tx |-> 0]
Nothing   == [rx |-> 0, tx |-> 0, polls |-> 0, fell |-> FALSE]
NoWork    == [busy |-> 0, idle |-> 0, fell |-> FALSE]
EmptyRow  == [rx |-> Unknown, tx |-> Unknown, polls |-> 0, cpu |-> Unknown]

ASSUME RatesAssumption ==
    /\ IsFiniteSet(Interfaces)
    /\ Modulus \in Nat \ {0} /\ MaxPolls \in Nat
    /\ Unknown \notin Nat \cup Bytes \cup Jiffies

RatesInit ==
    /\ counters = [i \in Interfaces |-> NoBytes]
    /\ jiffies = [busy |-> 0, idle |-> 0]
    /\ unread = {}
    /\ prevNet = Unknown /\ prevCpu = Unknown
    /\ since = Nothing /\ worked = NoWork
    /\ row = EmptyRow

-----------------------------------------------------------------------------
(* The kernel (external). *)

(* A packet, after which a counter may have wrapped. *)
Packet(i, way) ==
    /\ counters[i] # Unknown
    /\ counters' = [counters EXCEPT ![i][way] = (@ + 1) % Modulus]
    /\ since' = [since EXCEPT ![way] = @ + 1, !.fell = @ \/ counters'[i][way] = 0]
    /\ UNCHANGED <<jiffies, unread, prevNet, prevCpu, worked, row>>

(* An interface goes, or comes with its counters at zero. *)
Plug(i) ==
    /\ counters' = [counters EXCEPT ![i] = IF @ = Unknown THEN NoBytes ELSE Unknown]
    /\ since' = [since EXCEPT !.fell = @ \/ counters[i] \notin {Unknown, NoBytes}]
    /\ UNCHANGED <<jiffies, unread, prevNet, prevCpu, worked, row>>

Work(kind) ==
    /\ jiffies' = [jiffies EXCEPT ![kind] = @ + 1]
    /\ worked' = [worked EXCEPT ![kind] = @ + 1]
    /\ UNCHANGED <<counters, unread, prevNet, prevCpu, since, row>>

(* iowait is not reliable and may decrease (proc(5)). *)
IdleFalls ==
    /\ jiffies.idle > 0
    /\ jiffies' = [jiffies EXCEPT !.idle = @ - 1]
    /\ worked' = [worked EXCEPT !.idle = @ - 1, !.fell = TRUE]
    /\ UNCHANGED <<counters, unread, prevNet, prevCpu, since, row>>

Lose(file) ==
    /\ unread' = IF file \in unread THEN unread \ {file} ELSE unread \cup {file}
    /\ UNCHANGED <<counters, jiffies, prevNet, prevCpu, since, worked, row>>

-----------------------------------------------------------------------------
(* sample *)

(* _net_counters_linux: the sum over the interfaces. *)
Total(way) == MapThenSumSet(LAMBDA i : IF counters[i] = Unknown THEN 0 ELSE counters[i][way],
                            Interfaces)

NetCounters == [rx |-> Total("rx"), tx |-> Total("tx")]

(* Mutant: no guard against counters that go back. *)
UnguardedThroughput ==
    IF prevNet = Unknown THEN [rx |-> Unknown, tx |-> Unknown, polls |-> 0]
    ELSE [rx |-> NetCounters.rx - prevNet.rx, tx |-> NetCounters.tx - prevNet.tx,
          polls |-> since.polls + 1]

(* _network: bytes over the time since the reading before, in cycles, which *)
(* are a poll apart, or nothing.                                            *)
Throughput ==
    IF prevNet # Unknown
       /\ NetCounters.rx >= prevNet.rx /\ NetCounters.tx >= prevNet.tx
    THEN [rx |-> NetCounters.rx - prevNet.rx, tx |-> NetCounters.tx - prevNet.tx,
          polls |-> since.polls + 1]
    ELSE [rx |-> Unknown, tx |-> Unknown, polls |-> 0]

(* Mutant: the share since the start of the host, as top shows it first. *)
ShareSinceBoot ==
    LET total == jiffies.busy + jiffies.idle
    IN IF total > 0 THEN (jiffies.busy * 100) \div total ELSE Unknown

(* Mutant: the quotient as it is. *)
ShareUnclamped ==
    LET busy  == jiffies.busy - prevCpu.busy
        total == busy + jiffies.idle - prevCpu.idle
    IN IF total > 0 THEN (busy * 100) \div total ELSE Unknown

(* _cpu_linux: percent of busy in all the time, within 0 and 100. *)
Share ==
    LET busy  == jiffies.busy - prevCpu.busy
        total == busy + jiffies.idle - prevCpu.idle
    IN IF total > 0 THEN Max({0, Min({100, (busy * 100) \div total})}) ELSE Unknown

(* What the collector makes of two files and its memory.  A file that       *)
(* cannot be read leaves its figure out and the memory as it is.            *)
Measure(stored) ==
    LET net == "net" \notin unread
        cpu == "cpu" \notin unread
        rates == IF net THEN Throughput
                 ELSE [rx |-> Unknown, tx |-> Unknown, polls |-> 0]
    IN /\ since.polls < MaxPolls
       /\ prevNet' = IF net THEN NetCounters ELSE prevNet
       /\ prevCpu' = IF cpu THEN jiffies ELSE prevCpu
       /\ since'   = IF net THEN Nothing
                     ELSE [since EXCEPT !.polls = @ + 1]
       /\ worked'  = IF cpu THEN NoWork ELSE worked
       /\ row'     = IF ~stored THEN row
                     ELSE [rx |-> rates.rx, tx |-> rates.tx, polls |-> rates.polls,
                           cpu |-> IF cpu /\ prevCpu # Unknown THEN Share ELSE Unknown]
       /\ UNCHANGED <<counters, jiffies, unread>>

(* A new process has a collector that remembers nothing. *)
Restart ==
    /\ prevNet' = Unknown /\ prevCpu' = Unknown
    /\ since' = Nothing /\ worked' = NoWork
    /\ UNCHANGED <<counters, jiffies, unread, row>>

-----------------------------------------------------------------------------
(* Properties. *)

RatesTypeOK ==
    /\ counters \in [Interfaces -> Bytes \cup {Unknown}]
    /\ jiffies \in Jiffies
    /\ unread \subseteq {"net", "cpu"}
    /\ prevNet \in Bytes \cup {Unknown}
    /\ prevCpu \in Jiffies \cup {Unknown}
    /\ row.rx \in Nat \cup {Unknown} /\ row.tx \in Nat \cup {Unknown}
    /\ row.cpu \in 0 .. 100 \cup {Unknown}

(* What makes the figures right: what the collector remembers and what has  *)
(* passed since make up what the kernel shows, exactly, or, when a counter  *)
(* of the network fell, at most.                                            *)
RatesInv ==
    /\ RatesTypeOK
    /\ \A i \in Interfaces, way \in {"rx", "tx"} :
          counters[i] # Unknown => counters[i][way] < Modulus
    /\ since \in [rx : Nat, tx : Nat, polls : Nat, fell : BOOLEAN]
    /\ worked \in [busy : Nat, idle : Int, fell : BOOLEAN]
    /\ ~worked.fell => worked.idle >= 0
    /\ prevNet # Unknown => \A way \in {"rx", "tx"} :
          /\ Total(way) <= prevNet[way] + since[way]
          /\ ~since.fell => Total(way) = prevNet[way] + since[way]
    /\ prevCpu # Unknown => /\ jiffies.busy = prevCpu.busy + worked.busy
                            /\ jiffies.idle = prevCpu.idle + worked.idle

(* A row is stored. *)
Stored == Measure(TRUE)

(* "a negative delta means unknown, not negative throughput" (host.py:239): *)
(* however counters wrap, fall, vanish or come back, and however many       *)
(* readings failed or were rolled back in between, a throughput that is     *)
(* stored is neither negative nor more than what passed in the time it is   *)
(* divided by, and exactly that when no counter fell.                       *)
ThroughputIsReal ==
    [][Stored /\ row'.rx # Unknown =>
          /\ row'.rx \in 0 .. since.rx /\ row'.tx \in 0 .. since.tx
          /\ row'.polls = since.polls + 1
          /\ ~since.fell => row'.rx = since.rx /\ row'.tx = since.tx]_rateVars

(* A figure is missing only for a reason, and the processor's is that of    *)
(* the interval: a file read twice by one process, whose counters did not   *)
(* fall, gives its rate, also when the other file could not be read.        *)
RatesAreKnown ==
    [][Stored =>
          /\ prevNet # Unknown /\ "net" \notin unread /\ ~since.fell => row'.rx # Unknown
          /\ prevCpu # Unknown /\ "cpu" \notin unread /\ ~worked.fell
               /\ worked.busy + worked.idle > 0
               => row'.cpu = (worked.busy * 100) \div (worked.busy + worked.idle)]_rateVars

=============================================================================
