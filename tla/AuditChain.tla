----------------------------- MODULE AuditChain -----------------------------
(***************************************************************************)
(* What the audit log promises each tenant: a sequence of events that only *)
(* ever grows at its end, and that holds every event whose append was      *)
(* acknowledged or reported.                                               *)
(***************************************************************************)
EXTENDS Sequences, Naturals

CONSTANTS Owners, Entries

VARIABLES log, heard
vars == <<log, heard>>

Init == log = [t \in Owners |-> <<>>] /\ heard = {}

Extend(t, e) == log' = [log EXCEPT ![t] = Append(@, e)] /\ UNCHANGED heard

Hear(t, e) ==
  /\ \E i \in 1 .. Len(log[t]) : log[t][i] = e
  /\ heard' = heard \union {<<t, e>>} /\ UNCHANGED log

Next == \E t \in Owners, e \in Entries : Extend(t, e) \/ Hear(t, e)
Spec == Init /\ [][Next]_vars
=============================================================================
