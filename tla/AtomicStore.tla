---------------------------- MODULE AtomicStore -----------------------------
(***************************************************************************)
(* What vacps:store promises of the rows on disk: they change by a whole   *)
(* unit of a call at a time, a transaction being one unit and each         *)
(* statement of a script another; the units of a call are applied in order *)
(* and at most once, and the calls on one handle in the order they were    *)
(* made.                                                                   *)
(***************************************************************************)
EXTENDS Naturals, Sequences

VARIABLES
  plan,    \* the calls in the order they are made: [handle, units], a unit
           \* being the set of keys it writes
  rows,    \* the number of the call that wrote each key
  applied  \* units of each call that reached the rows

Init == applied = [c \in DOMAIN plan |-> 0]

Apply(c) ==
  /\ applied[c] < Len(plan[c].units)
  /\ \A d \in DOMAIN plan : plan[d].handle = plan[c].handle /\ d > c => applied[d] = 0
  /\ applied' = [applied EXCEPT ![c] = @ + 1]
  /\ rows' = [k \in DOMAIN rows |-> IF k \in plan[c].units[applied[c] + 1] THEN c ELSE rows[k]]

Next == (\E c \in DOMAIN plan : Apply(c)) /\ UNCHANGED plan

Spec == Init /\ [][Next]_<<plan, rows, applied>>
=============================================================================
