------------------------------- MODULE Outbox -------------------------------
(***************************************************************************)
(* What the notifier promises, without tables, runs or stages: a message   *)
(* is delivered at least once before it is recorded as delivered, it may   *)
(* be recorded as waived instead, and once it is recorded it is never      *)
(* delivered again.  README.md ("Each notice fires exactly once") asks for *)
(* more; this is what holds when processes may die.                        *)
(***************************************************************************)
EXTENDS Naturals

CONSTANTS Senders, Messages

VARIABLES
  delivered,  \* deliveries so far, per sender and message
  excused,    \* messages closed without a delivery
  closed      \* messages recorded as done

vars == <<delivered, excused, closed>>

Init ==
  /\ delivered = [s \in Senders |-> [m \in Messages |-> 0]]
  /\ excused = {}
  /\ closed = {}

Deliver(s, m) ==
  /\ m \notin closed
  /\ delivered' = [delivered EXCEPT ![s][m] = @ + 1]
  /\ UNCHANGED <<excused, closed>>

Record(m) ==
  /\ m \notin closed
  /\ \E s \in Senders : delivered[s][m] > 0
  /\ closed' = closed \cup {m}
  /\ UNCHANGED <<delivered, excused>>

Waive(m) ==
  /\ m \notin closed
  /\ closed' = closed \cup {m}
  /\ excused' = excused \cup {m}
  /\ UNCHANGED delivered

Next ==
  \E m \in Messages :
    \/ \E s \in Senders : Deliver(s, m)
    \/ Record(m)
    \/ Waive(m)

Spec == Init /\ [][Next]_vars
=============================================================================
