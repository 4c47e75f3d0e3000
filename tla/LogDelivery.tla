---------------------------- MODULE LogDelivery ----------------------------
(***************************************************************************)
(* What tailing a log promises, whatever the log's files do: the store     *)
(* receives the log's lines in the order they were written, each of them   *)
(* once, some of them at a time, and in the end all of them.               *)
(***************************************************************************)
EXTENDS Integers, Sequences

CONSTANT Lines          \* the lines that may be written

VARIABLES written,      \* the whole lines written so far, oldest first
          delivered     \* the lines in the store, oldest first

vars == <<written, delivered>>

Init == written = <<>> /\ delivered = <<>>

(* The logging daemon completes a line. *)
Write(l) ==
    /\ written' = Append(written, l)
    /\ UNCHANGED delivered

(* A cycle stores everything up to the n-th line. *)
Deliver(n) ==
    /\ delivered' = SubSeq(written, 1, n)
    /\ UNCHANGED written

Next == \/ \E l \in Lines : Write(l)
        \/ \E n \in Len(delivered) + 1 .. Len(written) : Deliver(n)

SafeSpec == Init /\ [][Next]_vars

Spec == /\ SafeSpec
        /\ WF_vars(\E n \in Len(delivered) + 1 .. Len(written) : Deliver(n))

=============================================================================
