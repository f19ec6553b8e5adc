----------------------------- MODULE PositionBook -----------------------------
(***************************************************************************)
(* What the paper trader promises about positions, with no process, no     *)
(* ticks, no accounting and no failures: a slot is flat or long, a fill    *)
(* flips it, and every fill is on record.  PaperTrader implements this     *)
(* (its Book instance), crashes and failing statements included.           *)
(***************************************************************************)
EXTENDS Sequences

CONSTANT Slots

VARIABLES
  long,    \* the slots that hold a position
  fills    \* every fill so far, in order

vars == <<long, fills>>

Fill == [slot : Slots, side : {"entry", "exit"}]

Init == long = {} /\ fills = <<>>

Enter(s) ==
  /\ s \notin long
  /\ long' = long \cup {s}
  /\ fills' = Append(fills, [slot |-> s, side |-> "entry"])

Exit(s) ==
  /\ s \in long
  /\ long' = long \ {s}
  /\ fills' = Append(fills, [slot |-> s, side |-> "exit"])

Next == \E s \in Slots : Enter(s) \/ Exit(s)

Spec == Init /\ [][Next]_vars
=============================================================================
