-------------------------- MODULE ExecutionProofs ---------------------------
(***************************************************************************)
(* Proofs about Execution for every number of tasks, handlers, callers and *)
(* retries: type correctness, and that no call takes effect twice.  The    *)
(* inductive invariant is EngineTypeOK /\ OnceInv.                         *)
(***************************************************************************)
EXTENDS Execution, TLAPS

\* The initial locals are typed; keys of primary calls and of reversals are
\* keys, and different ones.
LEMMA CallTypes ==
  /\ NoCall \in Calls
  /\ \A t \in Tasks : Primary(t) \in Keys
  /\ \A t \in Tasks, i \in CompIds : <<t, i>> \in Keys /\ <<t, i>> \in Comps /\ <<t, i>> # Primary(t)
BY TasksAssumption, BoundsAssumption, CallersAssumption
   DEF NoCall, Calls, Tiers, Results, CompIds, Replies, Primary, Keys, Comps

\* The engine starts with typed tables and idle handlers.
LEMMA EngineTypeInit == EngineInit => EngineTypeOK
BY CallTypes DEF EngineInit, EngineTypeOK, ExecStatus, Results, CompStatus, Positions

\* The locals of a call keep their types.
LEMMA CallUpdates ==
  /\ \A c \in Calls, n \in 0 .. MaxToolRetries + 1 : [c EXCEPT !.attempt = n] \in Calls
  /\ \A c \in Calls, o \in Results : [c EXCEPT !.out = o] \in Calls
  /\ \A c \in Calls, i \in CompIds : [c EXCEPT !.cid = i] \in Calls
  /\ \A c \in Calls, r \in Replies : [c EXCEPT !.reply = r] \in Calls
BY DEF Calls

\* Taking the output from the receipt keeps the locals typed.
LEMMA ReplayTypes ==
  ASSUME EngineTypeOK, NEW h \in Handlers, FromReceipt(h)
  PROVE  ctx' \in [Handlers -> Calls]
<1>1. Key(h) \in Keys /\ ctx[h].out \in Results /\ output[Key(h)] \in Results
  BY CallTypes DEF EngineTypeOK, Key, Calls
<1>. QED BY <1>1, CallUpdates DEF EngineTypeOK, FromReceipt

\* A step of execute_approved or rollback keeps the tables and locals typed.
LEMMA EngineTypeStep ==
  ASSUME EngineTypeOK, NEW h \in Handlers, EngineStep(h)
  PROVE  EngineTypeOK'
<1>. USE CallTypes DEF EngineTypeOK, ExecStatus, Results, CompStatus, Positions,
       Statements, InTry, Replies
<1>1. Key(h) \in Keys /\ RbKey(h) \in Keys \intersect Comps /\ ctx[h].out \in Results
  BY DEF Key, RbKey, Calls
<1>2. CASE Lookup(h)
  <2>1. pc' \in [Handlers -> Positions]
    BY <1>1, <1>2 DEF Lookup, Goto, FromReceipt
  <2>2. CASE exec[Key(h)] = "none"
    BY <1>1, <1>2, <2>1, <2>2 DEF Lookup, ledgerVars, effectVars
  <2>3. CASE exec[Key(h)] # "none"
    BY <1>1, <1>2, <2>1, <2>3, ReplayTypes DEF Lookup, ledgerVars, effectVars
  <2>. QED BY <2>2, <2>3
<1>3. CASE JitPolicy(h)
  BY <1>1, <1>3 DEF JitPolicy, Goto, ledgerVars, effectVars
<1>4. CASE FinishBlocked(h)
  BY <1>1, <1>4 DEF FinishBlocked, Goto, Drop, Reply, ledgerVars, effectVars, Calls
<1>5. CASE Claim(h)
  <2>1. 1 \in 0 .. MaxToolRetries + 1
    BY BoundsAssumption
  <2>2. ctx' \in [Handlers -> Calls]
    <3>1. [ctx[h] EXCEPT !.attempt = 1] \in Calls
      BY <2>1, CallUpdates
    <3>. QED BY <1>5, <3>1 DEF Claim
  <2>3. exec' \in [Keys -> ExecStatus] /\ pc' \in [Handlers -> Positions]
    BY <1>1, <1>5 DEF Claim, Insert, Goto
  <2>. QED BY <1>1, <1>5, <2>2, <2>3 DEF Claim, effectVars
<1>6. CASE Reread(h)
  <2>1. pc' \in [Handlers -> Positions]
    BY <1>1, <1>6 DEF Reread, Goto, FromReceipt
  <2>. QED BY <1>1, <1>6, <2>1, ReplayTypes DEF Reread, ledgerVars, effectVars
<1>7. CASE RunTool(h)
  <2>1. ctx' \in [Handlers -> Calls]
    <3>1. PICK o \in Outputs(ctx[h].task) : ctx' = [ctx EXCEPT ![h].out = o]
      BY <1>7 DEF RunTool
    <3>2. o \in Results
      BY DEF Outputs, Results
    <3>. QED BY <3>1, <3>2, CallUpdates
  <2>2. effect' \in [Keys -> Nat] /\ pc' \in [Handlers -> Positions]
    BY <1>1, <1>7 DEF RunTool, Goto
  <2>. QED BY <1>7, <2>1, <2>2 DEF RunTool, ledgerVars
<1>8. CASE ToolRaises(h)
  BY <1>1, <1>8 DEF ToolRaises, Goto, ledgerVars
<1>9. CASE Receipt(h)
  BY <1>1, <1>9 DEF Receipt, Goto, Settle, effectVars
<1>10. CASE ReceiptRaises(h)
  <2>1. exec' \in [Keys -> ExecStatus] /\ output' \in [Keys -> Results]
    BY <1>1, <1>10 DEF ReceiptRaises, Settle, ledgerVars
  <2>2. pc' \in [Handlers -> Positions]
    BY <1>1, <1>10 DEF ReceiptRaises, Goto
  <2>. QED BY <1>1, <1>10, <2>1, <2>2 DEF ReceiptRaises, effectVars
<1>11. CASE Retry(h)
  <2>1. ctx[h].attempt + 1 \in 0 .. MaxToolRetries + 1
    BY <1>1, <1>11, BoundsAssumption DEF Retry, MaxAttempts, Calls
  <2>2. ctx' \in [Handlers -> Calls]
    BY <1>1, <1>11, <2>1, CallUpdates DEF Retry
  <2>3. pc' \in [Handlers -> Positions]
    BY <1>1, <1>11 DEF Retry, Goto
  <2>. QED BY <1>1, <1>11, <2>2, <2>3 DEF Retry, ledgerVars, effectVars
<1>12. CASE GiveUp(h)
  BY <1>1, <1>12 DEF GiveUp, Goto, Settle, MaxAttempts, effectVars
<1>13. CASE CheckpointExecute(h)
  BY <1>1, <1>13 DEF CheckpointExecute, Goto, ledgerVars, effectVars
<1>14. CASE CompLookup(h)
  BY <1>1, <1>14 DEF CompLookup, Goto, ledgerVars, effectVars
<1>15. CASE CompInsert(h)
  BY <1>1, <1>15 DEF CompInsert, Goto, ledgerVars, effectVars
<1>16. CASE Verify(h)
  BY <1>1, <1>16 DEF Verify, Goto, ledgerVars, effectVars
<1>17. CASE FinishCompleted(h)
  BY <1>1, <1>17 DEF FinishCompleted, Goto, ledgerVars, effectVars
<1>18. CASE AuditExecuted(h)
  BY <1>1, <1>18 DEF AuditExecuted, Goto, Drop, Reply, ledgerVars, effectVars, Calls
<1>19. CASE FinishFailed(h)
  BY <1>1, <1>19 DEF FinishFailed, Goto, Drop, Reply, ledgerVars, effectVars, Calls
<1>20. CASE FinishRecovery(h)
  BY <1>1, <1>20 DEF FinishRecovery, Goto, Drop, Reply, ledgerVars, effectVars, Calls
<1>21. CASE RbRead(h)
  <2>1. ctx' \in [Handlers -> Calls]
    <3>1. \A i \in CompIds : [ctx[h] EXCEPT !.cid = i] \in Calls
      BY CallUpdates
    <3>2. \A r \in Replies : [NoCall EXCEPT !.reply = r] \in Calls
      BY CallUpdates
    <3>. QED BY <1>21, <3>1, <3>2 DEF RbRead, Reply, Drop
  <2>2. pc' \in [Handlers -> Positions]
    BY <1>1, <1>21 DEF RbRead, Reply, Goto
  <2>. QED BY <1>1, <1>21, <2>1, <2>2 DEF RbRead, ledgerVars, effectVars
<1>22. CASE RbClaim(h)
  <2>1. comp' \in [Comps -> CompStatus]
    BY <1>1, <1>22 DEF RbClaim, CasComp
  <2>2. ctx' \in [Handlers -> Calls]
    BY <1>1, <1>22, CallUpdates DEF RbClaim, Reply, Drop
  <2>3. pc' \in [Handlers -> Positions]
    BY <1>1, <1>22 DEF RbClaim, Reply, Goto
  <2>. QED BY <1>1, <1>22, <2>1, <2>2, <2>3 DEF RbClaim, ledgerVars, effectVars
<1>23. CASE RbLedger(h)
  <2>1. exec' \in [Keys -> ExecStatus] /\ pc' \in [Handlers -> Positions]
    BY <1>1, <1>23 DEF RbLedger, Insert, Goto, Reply
  <2>2. comp' \in [Comps -> CompStatus]
    BY <1>1, <1>23 DEF RbLedger, CasComp
  <2>3. ctx' \in [Handlers -> Calls]
    BY <1>1, <1>23, CallUpdates DEF RbLedger, Reply, Drop
  <2>. QED BY <1>23, <2>1, <2>2, <2>3 DEF RbLedger, effectVars
<1>24. CASE RbExecute(h)
  BY <1>1, <1>24 DEF RbExecute, Goto, ledgerVars
<1>25. CASE RbToolRaises(h)
  BY <1>1, <1>25 DEF RbToolRaises, Goto, ledgerVars
<1>26. CASE RbReceipt(h)
  BY <1>1, <1>26 DEF RbReceipt, Goto, effectVars
<1>27. CASE RbUse(h)
  BY <1>1, <1>27 DEF RbUse, Goto, CasComp, ledgerVars, effectVars
<1>28. CASE RbFailLedger(h)
  BY <1>1, <1>28 DEF RbFailLedger, Goto, Settle, effectVars
<1>29. CASE RbFailComp(h)
  BY <1>1, <1>29 DEF RbFailComp, Goto, CasComp, ledgerVars, effectVars
<1>30. CASE RbFailTask(h)
  BY <1>1, <1>30 DEF RbFailTask, Goto, Drop, Raise, ledgerVars, effectVars, Calls
<1>31. CASE RbFinish(h)
  BY <1>1, <1>31 DEF RbFinish, Goto, ledgerVars, effectVars
<1>32. CASE RbAudit(h)
  BY <1>1, <1>32 DEF RbAudit, Goto, Drop, Reply, ledgerVars, effectVars, Calls
<1>. QED
  BY <1>2, <1>3, <1>4, <1>5, <1>6, <1>7, <1>8, <1>9, <1>10, <1>11, <1>12, <1>13, <1>14, <1>15, <1>16, <1>17, <1>18, <1>19, <1>20, <1>21, <1>22, <1>23, <1>24, <1>25, <1>26, <1>27, <1>28, <1>29, <1>30, <1>31, <1>32
  DEF EngineStep, ExecuteStep, RollbackStep

-----------------------------------------------------------------------------
(* What a step of the engine does to the ledger and to the effects.        *)

LedgerStill == exec' = exec /\ effect' = effect /\ inflight' = inflight
Claims(k) == exec[k] = "none" /\ exec' = [exec EXCEPT ![k] = "executing"] /\ effect' = effect /\ inflight' = inflight
Settles(k, v) == exec[k] = "executing" /\ exec' = [exec EXCEPT ![k] = v] /\ effect' = effect /\ inflight' = inflight
Invokes(h, k) ==
  /\ Running(h, k) /\ exec' = exec
  /\ \/ effect' = [effect EXCEPT ![k] = @ + 1] /\ inflight' = inflight
     \/ effect' = effect /\ inflight' = inflight \union {k}
Fails(h) == ~ SideEffect(ctx[h].task) /\ Settles(Key(h), "failed")

\* There are six cases.
LEMMA LedgerShape ==
  ASSUME EngineTypeOK, NEW h \in Handlers, EngineStep(h)
  PROVE  \/ LedgerStill \/ Fails(h) \/ RbReceipt(h)
         \/ \E k \in Keys : Claims(k) \/ Invokes(h, k)
                             \/ \E v \in {"completed", "execution_unknown"} : Settles(k, v)
<1>1. /\ Key(h) \in Keys /\ RbKey(h) \in Keys
      /\ exec \in [Keys -> ExecStatus] /\ effect \in [Keys -> Nat]
  BY CallTypes DEF EngineTypeOK, Key, RbKey, Calls
<1>2. CASE \/ Lookup(h) \/ JitPolicy(h) \/ FinishBlocked(h) \/ Reread(h) \/ Retry(h)
           \/ CheckpointExecute(h) \/ CompLookup(h) \/ CompInsert(h) \/ Verify(h) \/ FinishCompleted(h)
           \/ AuditExecuted(h) \/ FinishFailed(h) \/ FinishRecovery(h)
           \/ RbRead(h) \/ RbClaim(h) \/ RbUse(h) \/ RbFailComp(h) \/ RbFailTask(h)
           \/ RbFinish(h) \/ RbAudit(h)
  BY <1>2 DEF LedgerStill, ledgerVars, effectVars, Lookup, JitPolicy, FinishBlocked, Reread, Retry,
       CheckpointExecute, CompLookup, CompInsert, Verify, FinishCompleted, AuditExecuted, FinishFailed,
       FinishRecovery, RbRead, RbClaim, RbUse, RbFailComp, RbFailTask, RbFinish, RbAudit
<1>3. CASE Claim(h)
  BY <1>1, <1>3 DEF Claim, Insert, effectVars, Claims, LedgerStill
<1>4. CASE RbLedger(h)
  BY <1>1, <1>4 DEF RbLedger, Insert, effectVars, Claims, LedgerStill
<1>5. CASE Receipt(h) \/ ReceiptRaises(h)
  BY <1>1, <1>5 DEF Receipt, ReceiptRaises, Settle, Settles, effectVars, ledgerVars, LedgerStill
<1>6. CASE GiveUp(h)
  BY <1>1, <1>6 DEF GiveUp, Settle, Settles, effectVars, Fails, LedgerStill
<1>7. CASE RbFailLedger(h)
  BY <1>1, <1>7 DEF RbFailLedger, Settle, Settles, effectVars, LedgerStill
<1>8. CASE RunTool(h)
  <2>1. exec' = exec /\ inflight' = inflight /\ pc[h] = "execute"
    BY <1>8 DEF RunTool, At, ledgerVars
  <2>2. PICK e \in (IF SideEffect(ctx[h].task) THEN {0, 1} ELSE {0}) :
          effect' = [effect EXCEPT ![Key(h)] = @ + e]
    BY <1>8 DEF RunTool
  <2>3. CASE e = 0
    <3>1. effect' = effect
      BY <1>1, <2>2, <2>3
    <3>. QED BY <2>1, <3>1 DEF LedgerStill
  <2>4. CASE e = 1
    <3>1. SideEffect(ctx[h].task)
      BY <2>2, <2>4
    <3>. QED BY <1>1, <2>1, <2>2, <2>4, <3>1 DEF Invokes, Running
  <2>. QED BY <2>2, <2>3, <2>4
<1>9. CASE ToolRaises(h)
  BY <1>1, <1>9 DEF ToolRaises, At, Running, Invokes, LedgerStill, ledgerVars
<1>10. CASE RbExecute(h)
  BY <1>1, <1>10 DEF RbExecute, At, Running, Invokes, ledgerVars
<1>11. CASE RbToolRaises(h)
  BY <1>1, <1>11 DEF RbToolRaises, At, Running, Invokes, ledgerVars
<1>. QED
  BY <1>2, <1>3, <1>4, <1>5, <1>6, <1>7, <1>8, <1>9, <1>10, <1>11 DEF EngineStep, ExecuteStep, RollbackStep

\* A step of the engine moves no other handler; a handler gets to make a call
\* only by claiming its key (a side effect is not retried), and to a reversal's
\* receipt only from the reversal.
LEMMA Moves ==
  ASSUME EngineTypeOK, NEW h \in Handlers, Attempted(h), EngineStep(h)
  PROVE  /\ \A g \in Handlers \ {h} : pc'[g] = pc[g] /\ ctx'[g] = ctx[g]
         /\ pc'[h] = "rb_receipt" => RbExecute(h)
         /\ Attempted(h)'
         /\ \A k \in Keys : Running(h, k)' => Claims(k)
<1>1. pc \in [Handlers -> Positions] /\ ctx \in [Handlers -> Calls] /\ exec \in [Keys -> ExecStatus]
  BY DEF EngineTypeOK
<1>2. CASE ExecuteStep(h)
  <2>1. /\ \A g \in Handlers \ {h} : pc'[g] = pc[g] /\ ctx'[g] = ctx[g]
        /\ pc'[h] \notin {"rb_receipt", "rb_execute"}
        /\ pc'[h] = "execute" => Claim(h) \/ Retry(h)
        /\ pc'[h] \in {"receipt", "tool_raised"} => RunTool(h) \/ ToolRaises(h) \/ ReceiptRaises(h)
    BY <1>1, <1>2 DEF ExecuteStep, At, Goto, Reply, Drop, FromReceipt, Lookup, JitPolicy, FinishBlocked, Claim,
         Reread, RunTool, ToolRaises, Receipt, ReceiptRaises, Retry, GiveUp, CheckpointExecute, CompLookup,
         CompInsert, Verify, FinishCompleted, AuditExecuted, FinishFailed, FinishRecovery
  <2>2. CASE pc'[h] = "execute" /\ Claim(h)
    <3>1. /\ exec[Key(h)] = "none" /\ exec' = [exec EXCEPT ![Key(h)] = "executing"]
          /\ ctx' = [ctx EXCEPT ![h].attempt = 1] /\ effect' = effect /\ inflight' = inflight
      BY <1>1, <2>2 DEF Claim, Goto, Insert, effectVars
    <3>2. ctx'[h].attempt = 1 /\ ctx'[h].task = ctx[h].task
      BY <1>1, <3>1 DEF Calls
    <3>3. Attempted(h)'
      BY <3>2 DEF Attempted
    <3>4. \A k \in Keys : Running(h, k)' => k = Key(h)
      BY <2>2, <3>2 DEF Running, Key
    <3>. QED BY <2>1, <3>1, <3>3, <3>4 DEF Claims
  <2>3. CASE pc'[h] = "execute" /\ Retry(h)
    <3>1. ctx[h].attempt > 0 /\ ctx[h].attempt < MaxAttempts(ctx[h].task)
      BY <2>3 DEF Retry, At, Attempted
    <3>2. ~ SideEffect(ctx[h].task)
      BY <1>1, <3>1 DEF MaxAttempts, Calls
    <3>3. ctx'[h].attempt = ctx[h].attempt + 1 /\ ctx'[h].task = ctx[h].task
      BY <1>1, <2>3 DEF Retry, Calls
    <3>4. ctx'[h].attempt > 0
      BY <1>1, <3>1, <3>3 DEF Calls
    <3>. QED BY <2>1, <2>3, <3>2, <3>3, <3>4 DEF Running, Attempted
  <2>4. CASE pc'[h] # "execute"
    <3>1. CASE ToolRaises(h) \/ ReceiptRaises(h)
      BY <2>1, <2>4, <3>1 DEF ToolRaises, ReceiptRaises, At, Attempted, Running
    <3>2. CASE RunTool(h)
      <4>1. PICK o \in Outputs(ctx[h].task) : ctx' = [ctx EXCEPT ![h].out = o]
        BY <3>2 DEF RunTool
      <4>2. pc[h] = "execute" /\ ctx'[h].attempt = ctx[h].attempt
        BY <1>1, <3>2, <4>1 DEF RunTool, At, Calls
      <4>. QED BY <2>1, <2>4, <4>2 DEF Attempted, Running
    <3>. QED BY <2>1, <2>4, <3>1, <3>2 DEF Attempted, Running
  <2>. QED BY <2>1, <2>2, <2>3, <2>4
<1>3. CASE RollbackStep(h)
  <2>1. /\ \A g \in Handlers \ {h} : pc'[g] = pc[g] /\ ctx'[g] = ctx[g]
        /\ pc'[h] \notin {"execute", "receipt", "tool_raised"}
        /\ pc'[h] = "rb_receipt" => RbExecute(h)
        /\ pc'[h] = "rb_execute" => RbLedger(h)
    BY <1>1, <1>3 DEF RollbackStep, Goto, Reply, Raise, Drop, RbRead, RbClaim, RbLedger, RbExecute,
         RbToolRaises, RbReceipt, RbUse, RbFailLedger, RbFailComp, RbFailTask, RbFinish, RbAudit
  <2>2. ASSUME RbLedger(h), pc'[h] = "rb_execute" PROVE Claims(RbKey(h)) /\ ctx' = ctx
    <3>1. exec[RbKey(h)] = "none"
      BY <1>1, <2>2 DEF RbLedger, Reply, Goto
    <3>. QED BY <2>2, <3>1 DEF RbLedger, Insert, Claims, effectVars
  <2>3. \A k \in Keys : Running(h, k)' => Claims(k)
    BY <2>1, <2>2 DEF Running, RbKey
  <2>. QED BY <2>1, <2>3 DEF Attempted
<1>. QED BY <1>2, <1>3 DEF EngineStep

-----------------------------------------------------------------------------
(* Three ways to preserve OnceInv.                                         *)

\* A step of h that touches no effect, unclaims no row and is not the entry to
\* a call preserves the invariant.
LEMMA Frame ==
  ASSUME EngineTypeOK, OnceInv, effect' = effect, inflight' = inflight,
         \A k \in Keys : exec'[k] = "none" => exec[k] = "none",
         \A g \in Handlers, k \in Keys : Running(g, k)' => Running(g, k),
         \A g \in Handlers : Attempted(g)'
  PROVE  OnceInv'
BY DEF OnceInv, Touched

\* The handler that holds key k makes the call: an effect now, or a call in
\* flight; and it does not hold the key any more.
LEMMA Fire ==
  ASSUME EngineTypeOK, OnceInv, NEW h \in Handlers, NEW k \in Keys, Running(h, k), exec' = exec,
         \/ effect' = [effect EXCEPT ![k] = 1] /\ inflight' = inflight
         \/ effect' = effect /\ inflight' \in {inflight, inflight \union {k}},
         \A g \in Handlers, j \in Keys : Running(g, j)' => Running(g, j) /\ g # h,
         \A g \in Handlers : Attempted(g)'
  PROVE  OnceInv'
<1>1. effect \in [Keys -> Nat] /\ inflight \subseteq Keys
  BY DEF EngineTypeOK
<1>2. exec[k] # "none" /\ effect[k] = 0 /\ k \notin inflight
  BY <1>1 DEF OnceInv, Touched
<1>3. \A g \in Handlers, j \in Keys : Running(g, j)' => j # k
  BY DEF OnceInv
<1>4. \A j \in Keys : j # k => (Touched(j)' <=> Touched(j))
  BY <1>1 DEF Touched
<1>5. \A j \in Keys : effect'[j] <= 1 /\ (j \in inflight' => effect'[j] = 0)
  BY <1>1, <1>2 DEF OnceInv
<1>. QED
  BY <1>2, <1>3, <1>4, <1>5 DEF OnceInv

\* The claim of a new row makes h its only holder.
LEMMA Hold ==
  ASSUME EngineTypeOK, OnceInv, NEW h \in Handlers, NEW k \in Keys, exec[k] = "none",
         exec' = [exec EXCEPT ![k] = "executing"], effect' = effect, inflight' = inflight,
         \A g \in Handlers, j \in Keys : Running(g, j)' => Running(g, j) \/ (g = h /\ j = k),
         \A g \in Handlers : Attempted(g)'
  PROVE  OnceInv'
<1>1. exec \in [Keys -> ExecStatus]
  BY DEF EngineTypeOK
<1>2. ~ Touched(k) /\ \A g \in Handlers : ~ Running(g, k)
  BY DEF OnceInv
<1>3. \A j \in Keys : Touched(j)' <=> Touched(j)
  BY DEF Touched
<1>4. \A j \in Keys : exec'[j] = "none" => exec[j] = "none" /\ j # k
  BY <1>1
<1>5. exec'[k] # "none" /\ \A j \in Keys : exec[j] # "none" => exec'[j] # "none"
  BY <1>1
<1>. QED
  BY <1>2, <1>3, <1>4, <1>5 DEF OnceInv

\* Every step of the engine preserves the invariant: the cases are those of
\* LedgerShape.
LEMMA OnceStep ==
  ASSUME EngineTypeOK, OnceInv, NEW h \in Handlers, EngineStep(h)
  PROVE  OnceInv'
<1>1. /\ exec \in [Keys -> ExecStatus] /\ Key(h) \in Keys /\ RbKey(h) \in Keys
      /\ \A g \in Handlers : Attempted(g)
  BY CallTypes DEF EngineTypeOK, OnceInv, Key, RbKey, Calls
<1>2. /\ \A g \in Handlers : Attempted(g)'
      /\ \A g \in Handlers, k \in Keys : Running(g, k)' => Running(g, k) \/ (g = h /\ Claims(k))
      /\ \A k \in Keys : Running(h, k)' => Claims(k)
  BY <1>1, Moves DEF Running, Attempted, Key, RbKey
<1>3. CASE LedgerStill \/ Fails(h) \/ RbReceipt(h) \/ \E k \in Keys, v \in {"completed", "execution_unknown"} : Settles(k, v)
  <2>1. effect' = effect /\ inflight' = inflight /\ \A k \in Keys : exec'[k] = "none" => exec[k] = "none"
    BY <1>1, <1>3 DEF LedgerStill, Fails, Settles, RbReceipt, effectVars
  <2>2. \A k \in Keys : exec[k] = "none" => exec'[k] # "executing"
    BY <1>1, <1>3 DEF LedgerStill, Fails, Settles, RbReceipt
  <2>3. \A k \in Keys : ~ Claims(k)
    BY <1>1, <2>2 DEF Claims
  <2>. QED BY <1>2, <2>1, <2>3, Frame
<1>4. CASE \E k \in Keys : Claims(k)
  <2>1. PICK k \in Keys : Claims(k)
    BY <1>4
  <2>2. \A j \in Keys : Claims(j) => j = k
    BY <1>1, <2>1 DEF Claims
  <2>3. \A g \in Handlers, j \in Keys : Running(g, j)' => Running(g, j) \/ (g = h /\ j = k)
    BY <1>2, <2>2
  <2>4. exec[k] = "none" /\ exec' = [exec EXCEPT ![k] = "executing"] /\ effect' = effect /\ inflight' = inflight
    BY <2>1 DEF Claims
  <2>5. \A g \in Handlers : Attempted(g)'
    BY <1>2
  <2>. QED BY <2>3, <2>4, <2>5, Hold
<1>5. CASE \E k \in Keys : Invokes(h, k)
  <2>1. PICK k \in Keys : Invokes(h, k)
    BY <1>5
  <2>2. \A j \in Keys : ~ Claims(j)
    BY <1>1, <2>1 DEF Claims, Invokes
  <2>3. effect \in [Keys -> Nat] /\ effect[k] = 0
    BY <2>1 DEF EngineTypeOK, OnceInv, Invokes, Touched
  <2>4. Running(h, k) /\ exec' = exec
    BY <2>1 DEF Invokes
  <2>5. \/ effect' = [effect EXCEPT ![k] = 1] /\ inflight' = inflight
        \/ effect' = effect /\ inflight' = inflight \union {k}
    <3>1. CASE effect' = [effect EXCEPT ![k] = @ + 1] /\ inflight' = inflight
      BY <2>3, <3>1
    <3>. QED BY <2>1, <3>1 DEF Invokes
  <2>6. \A g \in Handlers, j \in Keys : Running(g, j)' => Running(g, j) /\ g # h
    BY <1>2, <2>2
  <2>. QED BY <1>2, <2>4, <2>5, <2>6, Fire
<1>. QED BY <1>3, <1>4, <1>5, LedgerShape

-----------------------------------------------------------------------------
(* The other steps of Next.                                                *)

\* The steps of a handler that are not its engine's, and those of others.
Outside(h) == Call(h) \/ DbError(h) \/ Return(h) \/ Vanish(h)
Others ==
  \/ \E k \in Keys : LateEffect(k) \/ InterruptExecution(k)
  \/ \E c \in Comps : InterruptCompensation(c)
  \/ \E t \in Tasks : MarkRecovery(t)

\* A step is an engine's, another one of a handler, or somebody else's.
LEMMA NextSplit == Next <=> (\E h \in Handlers : EngineStep(h) \/ Outside(h)) \/ Others
BY DEF Next, Outside, Others

\* What a step of Outside does to a handler: it sets pc and, maybe, the locals.
LEMMA OutsideShape ==
  ASSUME EngineTypeOK, NEW h \in Handlers, Outside(h)
  PROVE  /\ exec' = exec /\ output' = output /\ comp' = comp /\ effect' = effect /\ inflight' = inflight
         /\ \E l \in {"lookup", "rb_read", "raised", "rb_fail_ledger", "idle"} : pc' = [pc EXCEPT ![h] = l]
         /\ \E c \in Calls : ctx' = [ctx EXCEPT ![h] = c]
<1>1. ctx[h] \in Calls /\ ctx = [ctx EXCEPT ![h] = ctx[h]] /\ NoCall \in Calls
  BY CallTypes DEF EngineTypeOK
<1>2. [NoCall EXCEPT !.reply = "none"] \in Calls
  BY <1>1, CallUpdates DEF Replies
<1>3. CASE Call(h)
  <2>1. PICK t \in Tasks, b \in Callers :
           CallRollback(h, t, b) \/ \E tier \in Tiers : CallExecute(h, t, tier, b)
    BY <1>3 DEF Call
  <2>2. CASE CallRollback(h, t, b)
    <3>1. [NoCall EXCEPT !.task = t, !.by = b] \in Calls
      BY CallTypes DEF NoCall, Calls, Tiers, Results, Replies
    <3>. QED BY <2>2, <3>1 DEF CallRollback, Goto, ledgerVars, effectVars
  <2>3. CASE \E tier \in Tiers : CallExecute(h, t, tier, b)
    <3>1. \A tier \in Tiers : [NoCall EXCEPT !.task = t, !.tier = tier, !.by = b] \in Calls
      BY CallTypes DEF NoCall, Calls, Results, Replies
    <3>. QED BY <2>3, <3>1 DEF CallExecute, Goto, ledgerVars, effectVars
  <2>. QED BY <2>1, <2>2, <2>3
<1>4. CASE DbError(h)
  BY <1>1, <1>2, <1>4 DEF DbError, Raise, Drop, Goto, ledgerVars, effectVars
<1>5. CASE Return(h) \/ Vanish(h)
  BY <1>1, <1>5 DEF Return, Vanish, Leave, Goto, ledgerVars, effectVars
<1>. QED BY <1>3, <1>4, <1>5 DEF Outside

\* What the surroundings do to the engine: the tables stay, and a handler stays
\* where it is, starts a call, or falls out of one.
Apart ==
  /\ exec' = exec /\ output' = output /\ comp' = comp /\ effect' = effect /\ inflight' = inflight
  /\ audit \subseteq audit'
  /\ pc' \in [Handlers -> Positions] /\ ctx' \in [Handlers -> Calls]
  /\ \A h \in Handlers :
       \/ pc'[h] = pc[h] /\ ctx'[h] = ctx[h]
       \/ pc'[h] \in {"lookup", "rb_read", "raised", "rb_fail_ledger", "idle"}

\* The steps the engine's tables and handlers can be subject to, in Execution
\* and in every system the engine is a part of.
EngineMoves ==
  \/ Apart
  \/ \E h \in Handlers : EngineStep(h)
  \/ \E k \in Keys : LateEffect(k) \/ InterruptExecution(k)
  \/ \E c \in Comps : InterruptCompensation(c)

\* Calling, leaving and failing happen apart from the tables.
LEMMA OutsideApart ==
  ASSUME EngineTypeOK, NEW h \in Handlers, Outside(h)
  PROVE  Apart
<1>1. audit' = audit
  BY DEF Outside, Call, CallExecute, CallRollback, DbError, Return, Vanish, Leave
<1>2. PICK l \in {"lookup", "rb_read", "raised", "rb_fail_ledger", "idle"} : pc' = [pc EXCEPT ![h] = l]
  BY OutsideShape
<1>3. PICK c \in Calls : ctx' = [ctx EXCEPT ![h] = c]
  BY OutsideShape
<1>4. pc' \in [Handlers -> Positions] /\ ctx' \in [Handlers -> Calls]
  BY <1>2, <1>3 DEF EngineTypeOK, Positions, Statements, InTry
<1>5. \A g \in Handlers : (pc'[g] = pc[g] /\ ctx'[g] = ctx[g]) \/ pc'[g] = l
  BY <1>2, <1>3 DEF EngineTypeOK
<1>. QED BY <1>1, <1>4, <1>5, OutsideShape DEF Apart

\* What touches none of the engine's variables is apart from it.
LEMMA StillApart ==
  ASSUME EngineTypeOK, UNCHANGED evars, audit \subseteq audit'
  PROVE  Apart
BY DEF EngineTypeOK, evars, Apart

\* Every step of Execution is one of EngineMoves.
LEMMA EngineNext ==
  ASSUME EngineTypeOK, [Next]_vars
  PROVE  EngineMoves
<1>1. ASSUME NEW t \in Tasks, MarkRecovery(t) PROVE Apart
  BY <1>1, StillApart DEF MarkRecovery, ledgerVars, effectVars, evars
<1>2. CASE UNCHANGED vars
  BY <1>2, StillApart DEF vars, evars, EngineMoves
<1>. QED BY <1>1, <1>2, OutsideApart, NextSplit DEF Others, EngineMoves

\* Every step keeps the tables and locals typed.
LEMMA EngineTypeNext ==
  ASSUME EngineTypeOK, EngineMoves
  PROVE  EngineTypeOK'
<1>1. CASE Apart
  BY <1>1 DEF Apart, EngineTypeOK
<1>2. ASSUME NEW k \in Keys, LateEffect(k) PROVE EngineTypeOK'
  BY <1>2 DEF LateEffect, EngineTypeOK, ledgerVars
<1>3. ASSUME NEW k \in Keys, InterruptExecution(k) PROVE EngineTypeOK'
  BY <1>3 DEF InterruptExecution, EngineTypeOK, ExecStatus, effectVars
<1>4. ASSUME NEW c \in Comps, InterruptCompensation(c) PROVE EngineTypeOK'
  BY <1>4 DEF InterruptCompensation, CasComp, EngineTypeOK, CompStatus, ledgerVars, effectVars
<1>. QED
  BY <1>1, <1>2, <1>3, <1>4, EngineTypeStep DEF EngineMoves

\* Every step keeps the holder of a key alone and its call unmade.
LEMMA OnceNext ==
  ASSUME EngineTypeOK, OnceInv, EngineMoves
  PROVE  OnceInv'
<1>0. pc \in [Handlers -> Positions] /\ ctx \in [Handlers -> Calls] /\ exec \in [Keys -> ExecStatus]
      /\ effect \in [Keys -> Nat]
  BY DEF EngineTypeOK
<1>1. CASE Apart
  <2>1. /\ \A g \in Handlers, k \in Keys : Running(g, k)' => Running(g, k)
        /\ \A g \in Handlers : Attempted(g)'
    BY <1>0, <1>1 DEF Apart, Running, Attempted, Key, RbKey, OnceInv
  <2>. QED BY <1>1, <2>1, Frame DEF Apart
<1>2. ASSUME NEW k \in Keys, LateEffect(k) PROVE OnceInv'
  <2>1. /\ k \in inflight /\ inflight' = inflight \ {k} /\ effect' = [effect EXCEPT ![k] = @ + 1]
        /\ exec' = exec /\ pc' = pc /\ ctx' = ctx
    BY <1>2 DEF LateEffect, ledgerVars
  <2>0. effect[k] = 0
    BY <1>2, <2>1 DEF OnceInv
  <2>2. effect[k] = 0 /\ effect' = [effect EXCEPT ![k] = 1]
    BY <2>0, <2>1
  <2>3. /\ \A g \in Handlers, j \in Keys : Running(g, j)' <=> Running(g, j)
        /\ \A g \in Handlers : Attempted(g)'
    BY <2>1 DEF Running, Attempted, Key, RbKey, OnceInv
  <2>4. \A j \in Keys : Touched(j)' <=> Touched(j)
    BY <1>0, <2>1, <2>2 DEF Touched
  <2>5. \A j \in Keys : effect'[j] <= 1 /\ (j \in inflight' => effect'[j] = 0)
    BY <1>0, <2>1, <2>2 DEF OnceInv
  <2>. QED BY <2>1, <2>3, <2>4, <2>5 DEF OnceInv
<1>3. ASSUME NEW k \in Keys, InterruptExecution(k) PROVE OnceInv'
  BY <1>0, <1>3, Frame DEF InterruptExecution, Running, Attempted, Key, RbKey, OnceInv, effectVars
<1>4. ASSUME NEW c \in Comps, InterruptCompensation(c) PROVE OnceInv'
  BY <1>4, Frame DEF InterruptCompensation, ledgerVars, effectVars, Running, Attempted, Key, RbKey, OnceInv
<1>. QED
  BY <1>1, <1>2, <1>3, <1>4, OnceStep DEF EngineMoves

\* No tool call or reversal takes effect twice.
THEOREM AtMostOnce == Spec => []SideEffectOnce
<1>1. Init => EngineTypeOK /\ OnceInv
  <2>1. Init => OnceInv
    BY DEF Init, EngineInit, OnceInv, Attempted, Running, Touched
  <2>. QED BY <2>1, EngineTypeInit DEF Init
<1>2. EngineTypeOK /\ OnceInv /\ [Next]_vars => EngineTypeOK' /\ OnceInv'
  BY EngineNext, EngineTypeNext, OnceNext
<1>3. OnceInv => SideEffectOnce
  BY DEF OnceInv, SideEffectOnce
<1>. QED BY <1>1, <1>2, <1>3, PTL DEF Spec

-----------------------------------------------------------------------------
(* Type correctness.                                                       *)

\* A step of the engine gives a task's row one of its statuses and adds to
\* the audit log events of the engine.
LEMMA TaskTypeStep ==
  ASSUME EngineTypeOK, TypeOK, NEW h \in Handlers, EngineStep(h)
  PROVE  task' \in [Tasks -> TaskStatus] /\ audit' \subseteq Events \X Tasks
<1>1. ctx[h].task \in Tasks /\ task \in [Tasks -> TaskStatus] /\ audit \subseteq Events \X Tasks
  BY DEF EngineTypeOK, TypeOK, Calls
<1>2. task' = task \/ Checkpoint(ctx[h].task) \/ \E s \in TaskStatus : Finish(ctx[h].task, s)
  BY DEF EngineStep, ExecuteStep, RollbackStep, TaskStatus, Lookup, JitPolicy, FinishBlocked, Claim, Reread,
       RunTool, ToolRaises, Receipt, ReceiptRaises, Retry, GiveUp, CheckpointExecute, CompLookup, CompInsert,
       Verify, FinishCompleted, AuditExecuted, FinishFailed, FinishRecovery, RbRead, RbClaim, RbLedger,
       RbExecute, RbToolRaises, RbReceipt, RbUse, RbFailLedger, RbFailComp, RbFailTask, RbFinish,
       RbAudit
<1>3. audit' = audit \/ \E e \in Events : AppendAudit(e, ctx[h].task)
  BY DEF EngineStep, ExecuteStep, RollbackStep, Events, Lookup, JitPolicy, FinishBlocked, Claim, Reread,
       RunTool, ToolRaises, Receipt, ReceiptRaises, Retry, GiveUp, CheckpointExecute, CompLookup, CompInsert,
       Verify, FinishCompleted, AuditExecuted, FinishFailed, FinishRecovery, RbRead, RbClaim, RbLedger,
       RbExecute, RbToolRaises, RbReceipt, RbUse, RbFailLedger, RbFailComp, RbFailTask, RbFinish,
       RbAudit
<1>4. task' \in [Tasks -> TaskStatus]
  BY <1>1, <1>2 DEF Checkpoint, Finish, TaskStatus
<1>5. audit' \subseteq Events \X Tasks
  BY <1>1, <1>3 DEF AppendAudit
<1>. QED BY <1>4, <1>5

\* Every variable of the execution engine holds a value of its kind.
THEOREM TypeCorrect == Spec => []TypeOK
<1>1. Init => TypeOK
  BY EngineTypeInit DEF Init, EngineInit, TypeOK, TaskStatus
<1>2. TypeOK /\ [Next]_vars => TypeOK'
  <2>1. SUFFICES ASSUME TypeOK, [Next]_vars
                 PROVE  task' \in [Tasks -> TaskStatus] /\ audit' \subseteq Events \X Tasks
    BY EngineNext, EngineTypeNext DEF TypeOK
  <2>2. EngineTypeOK /\ task \in [Tasks -> TaskStatus] /\ audit \subseteq Events \X Tasks
    BY <2>1 DEF TypeOK
  <2>3. ASSUME NEW h \in Handlers, Outside(h) PROVE task' = task /\ audit' = audit
    BY <2>3 DEF Outside, Call, CallExecute, CallRollback, DbError, Return, Vanish, Leave
  <2>4. CASE Others
    <3>1. audit' = audit /\ (task' = task \/ \E t \in Tasks : Finish(t, "recovery_required"))
      BY <2>4 DEF Others, LateEffect, InterruptExecution, InterruptCompensation, MarkRecovery
    <3>. QED BY <2>2, <3>1 DEF Finish, TaskStatus
  <2>5. CASE UNCHANGED vars
    BY <2>2, <2>5 DEF vars
  <2>. QED BY <2>1, <2>2, <2>3, <2>4, <2>5, TaskTypeStep, NextSplit
<1>. QED BY <1>1, <1>2, PTL DEF Spec

=============================================================================
