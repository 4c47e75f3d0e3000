------------------------------ MODULE PortSync ------------------------------
(***************************************************************************)
(* The inventory of listening sockets: what /proc shows (collect/ports.py), *)
(* port_state, and the NEW_PORT, PORT_CLOSED and MONITOR_START events that  *)
(* _sync_ports derives from their difference.                              *)
(*                                                                         *)
(* A cycle is one action: it is part of one write transaction, and SQLite  *)
(* admits one writer.  The clock counts hours, the grain of the dedupe key. *)
(***************************************************************************)
EXTENDS Ordered, SequencesExt

CONSTANTS
    Ports,      \* <<proto, port>> keys, of one protocol: a bound
    Nets,       \* what a socket may be bound to
    NoAddress,
    MaxHours,   \* bound: the clock
    MaxChanges  \* bound: sockets opened, closed or rebound

(* A protocol has two files: tcp and tcp6, or udp and udp6.                *)
Files       == {"v4", "v6"}
Listed(f)   == [file : {f}, net : Nets]
Addresses   == UNION {Listed(f) : f \in Files}

ASSUME PortSyncAssumption ==
    /\ IsFiniteSet(Ports)
    /\ Nets \subseteq {"loopback", "any", "private", "routed"}
    /\ NoAddress \notin Addresses
    /\ MaxHours \in Nat /\ MaxChanges \in Nat

(* _hex_to_ipv6 shortens the wildcard to "::" and spells out every other    *)
(* address; _classify knows the loopback of version 6 as "::1" only, and    *)
(* the private prefixes of version 4.                                      *)
Exposure(a) == IF a.file = "v4" /\ a.net \in {"loopback", "private"} THEN a.net ELSE "public"

VARIABLES
    sockets,    \* file -> the <<port, address>> pairs it lists (external)
    hidden,     \* the files that cannot be read (external)
    hour,
    changes,
    state,      \* port_state: port -> address, or NoAddress
    feed,       \* the events, in insertion order
    baseline    \* the ports of the cycle that recorded the baseline

vars == <<sockets, hidden, hour, changes, state, feed, baseline>>

Event == [kind : {"NEW_PORT", "PORT_CLOSED"}, port : Ports, hour : 0 .. MaxHours,
          severity : {"info", "medium", "high"}]
         \cup [kind : {"MONITOR_START"}, count : Nat]

Init ==
    /\ sockets \in {s \in [Files -> SUBSET (Ports \X Addresses)] :
                      \A f \in Files : s[f] \subseteq Ports \X Listed(f)}
    /\ hidden = {}
    /\ hour = 0 /\ changes = 0
    /\ state = [p \in Ports |-> NoAddress]
    /\ feed = <<>>
    /\ baseline = {}

-----------------------------------------------------------------------------
(* The host (external). *)

Change == changes < MaxChanges /\ changes' = changes + 1

Toggled(S, x) == IF x \in S THEN S \ {x} ELSE S \cup {x}

(* A service binds a socket or closes one. *)
Bind(f, p, a) ==
    /\ Change
    /\ a \in Listed(f)
    /\ sockets' = [sockets EXCEPT ![f] = Toggled(@, <<p, a>>)]
    /\ UNCHANGED <<hidden, hour, state, feed, baseline>>

(* A file of /proc cannot be read, or can again. *)
Hide(f) ==
    /\ Change
    /\ hidden' = Toggled(hidden, f)
    /\ UNCHANGED <<sockets, hour, state, feed, baseline>>

HourPasses ==
    /\ hour < MaxHours
    /\ hour' = hour + 1
    /\ UNCHANGED <<sockets, hidden, changes, state, feed, baseline>>

-----------------------------------------------------------------------------
(* collect: for each port one of the addresses that the readable files      *)
(* list, a public one if there is.  The file of version 4 is read first;    *)
(* within a file it is the kernel's order.                                 *)
Seen(p, f) == IF f \in hidden THEN {} ELSE {a \in Addresses : <<p, a>> \in sockets[f]}

First(p, good) ==
    LET v4 == Seen(p, "v4") \cap good
        v6 == Seen(p, "v6") \cap good
    IN IF v4 # {} THEN v4 ELSE v6

IsPublic(a)     == Exposure(a) = "public"
PublicAddresses == {a \in Addresses : IsPublic(a)}

OrNone(A) == IF A = {} THEN {NoAddress} ELSE A

(* Mutant: the address read first wins. *)
FirstRead(p) == OrNone(First(p, Addresses))

MostExposed(p) ==
    IF First(p, PublicAddresses) # {} THEN First(p, PublicAddresses) ELSE OrNone(First(p, Addresses))

Collected ==
    LET choices == [p \in Ports |-> MostExposed(p)]
    IN {c \in [Ports -> UNION {choices[p] : p \in Ports}] : \A p \in Ports : c[p] \in choices[p]}

Listening(c) == {p \in Ports : c[p] # NoAddress}

(* Two entries of one kind about one port in one hour have one dedupe key;  *)
(* MONITOR_START has none.                                                  *)
SameKey(e, f) == /\ e.kind = f.kind /\ e.kind # "MONITOR_START"
                 /\ e.port = f.port /\ e.hour = f.hour

Emit(log, events) ==
    log \o Picked(events, {n \in DOMAIN events : \A i \in DOMAIN log : ~SameKey(log[i], events[n])})

Opened(p, a) == [kind |-> "NEW_PORT", port |-> p, hour |-> hour,
                 severity |-> IF IsPublic(a) THEN "high" ELSE "medium"]
Closed(p)    == [kind |-> "PORT_CLOSED", port |-> p, hour |-> hour, severity |-> "info"]

(* Mutant: only public listeners are announced. *)
EventsOfPublic(c) ==
    LET known   == Listening(state)
        new     == SetToSeq({p \in Listening(c) \ known : IsPublic(c[p])})
        gone    == SetToSeq(known \ Listening(c))
    IN IF known = {} THEN <<[kind |-> "MONITOR_START", count |-> Cardinality(Listening(c))]>>
       ELSE [i \in DOMAIN new |-> Opened(new[i], c[new[i]])]
            \o [i \in DOMAIN gone |-> Closed(gone[i])]

(* The difference to port_state; the first listeners are the baseline. *)
EventsOf(c) ==
    LET known   == Listening(state)
        new     == SetToSeq(Listening(c) \ known)
        gone    == SetToSeq(known \ Listening(c))
    IN IF known = {} THEN <<[kind |-> "MONITOR_START", count |-> Cardinality(Listening(c))]>>
       ELSE [i \in DOMAIN new |-> Opened(new[i], c[new[i]])]
            \o [i \in DOMAIN gone |-> Closed(gone[i])]

(* Mutant: an empty collection is taken for what it says. *)
SyncEmpty ==
    \E c \in Collected :
        /\ state' = c
        /\ feed' = Emit(feed, EventsOf(c))
        /\ baseline' = IF Listening(state) = {} THEN Listening(c) ELSE baseline
        /\ UNCHANGED <<sockets, hidden, hour, changes>>

(* _sync_ports: an empty collection is taken for a failed one. *)
Sync ==
    \E c \in Collected :
        /\ Listening(c) # {}
        /\ state' = c
        /\ feed' = Emit(feed, EventsOf(c))
        /\ baseline' = IF Listening(state) = {} THEN Listening(c) ELSE baseline
        /\ UNCHANGED <<sockets, hidden, hour, changes>>

SyncNothing ==
    /\ \E c \in Collected : Listening(c) = {}
    /\ UNCHANGED vars

Next == \/ \E f \in Files, p \in Ports, a \in Addresses : Bind(f, p, a)
        \/ \E f \in Files : Hide(f)
        \/ HourPasses \/ Sync \/ SyncNothing

Spec == Init /\ [][Next]_vars

-----------------------------------------------------------------------------
(* Properties. *)

TypeOK ==
    /\ sockets \in [Files -> SUBSET (Ports \X Addresses)]
    /\ hidden \subseteq Files
    /\ hour \in 0 .. MaxHours /\ changes \in 0 .. MaxChanges
    /\ state \in [Ports -> Addresses \cup {NoAddress}]
    /\ feed \in Seq(Event)
    /\ baseline \subseteq Ports

(* The baseline is recorded once, before any other entry and as soon as     *)
(* there is an inventory: neither an hour in which nothing could be         *)
(* collected nor a host that closes everything makes the next cycle take    *)
(* the listeners it finds for old ones.                                     *)
BaselineOnce ==
    /\ Listening(state) = {} <=> feed = <<>>
    /\ \A i \in DOMAIN feed : feed[i].kind = "MONITOR_START" <=> i = 1

(* Every listener in port_state was either there at the baseline or has     *)
(* been announced, and so has every port whose closing is, before that:     *)
(* deduplication never hides a port altogether, nor half of its story.      *)
KnownPortsWereAnnounced ==
    LET announced(p, n) ==
            \/ p \in baseline
            \/ \E i \in 1 .. n : feed[i].kind = "NEW_PORT" /\ feed[i].port = p
    IN /\ \A p \in Listening(state) : announced(p, Len(feed))
       /\ \A i \in DOMAIN feed :
            feed[i].kind = "PORT_CLOSED" => announced(feed[i].port, i - 1)

(* A port that can be reached from outside through one of its sockets is    *)
(* recorded as public, whatever else it is bound to.                        *)
PublicExposureIsRecorded ==
    [][state' # state =>
        \A p \in Ports :
            (\E f \in Files : \E a \in Seen(p, f) : a.net \in {"any", "routed"})
                => IsPublic(state'[p])]_vars

(* "a service bound to 127.0.0.1 is not reachable from the internet, and    *)
(* calling it open would be alarming and wrong" (ports.py:13-15), and       *)
(* _classify("::1") is "loopback" (tests/test_collect.py:20): an entry of   *)
(* high severity is about a port bound to more than a loopback.             *)
LoopbackIsNotPublic ==
    [][\A i \in Len(feed) + 1 .. Len(feed') :
          feed'[i].kind = "NEW_PORT" /\ feed'[i].severity = "high" =>
              \E f \in Files : \E a \in Seen(feed'[i].port, f) : a.net # "loopback"]_vars

(* "A port that appears when it was not there before raises a NEW_PORT      *)
(* event" (README.md:287): in the very cycle, the baseline apart.           *)
AppearanceRaisesEvent ==
    [][\A p \in Listening(state') \ Listening(state) :
          Listening(state) # {} =>
            \E i \in Len(feed) + 1 .. Len(feed') :
                feed'[i].kind = "NEW_PORT" /\ feed'[i].port = p]_vars

=============================================================================
