--------------------------- MODULE GovernedAction ---------------------------
(***************************************************************************)
(* The promise the control plane makes about one governed write: nothing   *)
(* is done unless a review was asked for and granted, a denial is final,   *)
(* what is granted is done at most once, and what was done is undone at    *)
(* most once.                                                              *)
(***************************************************************************)
EXTENDS Naturals

CONSTANT Writes   \* the tasks that plan a side effect

VARIABLES review, done, undone
vars == <<review, done, undone>>

Init ==
  /\ review = [t \in Writes |-> "none"]
  /\ done = [t \in Writes |-> 0] /\ undone = [t \in Writes |-> 0]

Move(t, from, to) ==
  /\ review[t] = from /\ review' = [review EXCEPT ![t] = to]
  /\ UNCHANGED <<done, undone>>

Ask(t) == Move(t, "none", "asked")
Grant(t) == Move(t, "asked", "granted")
Deny(t) == Move(t, "asked", "denied")
Do(t) ==
  /\ review[t] = "granted" /\ done[t] = 0 /\ done' = [done EXCEPT ![t] = 1]
  /\ UNCHANGED <<review, undone>>
Undo(t) ==
  /\ done[t] = 1 /\ undone[t] = 0 /\ undone' = [undone EXCEPT ![t] = 1]
  /\ UNCHANGED <<review, done>>

Next == \E t \in Writes : Ask(t) \/ Grant(t) \/ Deny(t) \/ Do(t) \/ Undo(t)
Spec == Init /\ [][Next]_vars
=============================================================================
