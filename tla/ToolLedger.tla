----------------------------- MODULE ToolLedger -----------------------------
(***************************************************************************)
(* What the ledger of tool calls promises, seen from outside: a call is    *)
(* claimed once, takes effect at most once and only once claimed, and gets *)
(* a verdict.  "failed" is reserved to calls that cannot have an effect    *)
(* (Silent); "execution_unknown" leaves open whether there was one.        *)
(***************************************************************************)
EXTENDS Naturals

CONSTANTS K,       \* the calls
          Silent   \* those without side effects

VARIABLES verdict, times
vars == <<verdict, times>>

Init == verdict = [k \in K |-> "none"] /\ times = [k \in K |-> 0]

Claim(k) ==
  /\ verdict[k] = "none"
  /\ verdict' = [verdict EXCEPT ![k] = "executing"] /\ UNCHANGED times

\* The effect may come after the caller has given the call up.
TakeEffect(k) ==
  /\ k \notin Silent /\ verdict[k] # "none" /\ times[k] = 0
  /\ times' = [times EXCEPT ![k] = 1] /\ UNCHANGED verdict

Settle(k, v) ==
  /\ verdict[k] \in {"executing", "execution_unknown"}
  /\ v = "failed" => k \in Silent /\ verdict[k] = "executing"
  /\ v = "completed" => verdict[k] = "executing" \/ times[k] = 1
  /\ verdict' = [verdict EXCEPT ![k] = v] /\ UNCHANGED times

Next == \E k \in K :
  Claim(k) \/ TakeEffect(k) \/ \E v \in {"completed", "failed", "execution_unknown"} : Settle(k, v)

Spec == Init /\ [][Next]_vars
=============================================================================
