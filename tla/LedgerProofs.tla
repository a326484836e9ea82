---------------------------- MODULE LedgerProofs -----------------------------
(***************************************************************************)
(* What follows from ExecutionProofs about the ledger of tool calls: the   *)
(* engine implements ToolLedger, a failed call had no effect, receipts and *)
(* unknown outcomes stay, and no write runs without an entitled caller.    *)
(***************************************************************************)
EXTENDS ExecutionProofs

-----------------------------------------------------------------------------
(* The engine implements ToolLedger.                                       *)

SilentKey(k) == k[2] = 0 /\ ~ SideEffect(k[1])

\* The strengthening: only reads fail, reads have no effect, and a handler at
\* the receipt of a reversal has claimed and made it.
LedgerInv ==
  /\ \A k \in Keys : exec[k] = "failed" => SilentKey(k)
  /\ \A k \in Keys : SilentKey(k) => ~ Touched(k)
  /\ \A h \in Handlers : pc[h] = "rb_receipt" => exec[RbKey(h)] # "none" /\ effect[RbKey(h)] = 1

\* A call about to be made is a side effect; a primary key is no reversal's.
LEMMA KeyKinds ==
  ASSUME EngineTypeOK, NEW h \in Handlers
  PROVE  /\ Key(h) \in Keys /\ RbKey(h) \in Keys /\ ~ SilentKey(RbKey(h))
         /\ \A k \in Keys : Running(h, k) => ~ SilentKey(k)
         /\ ~ SideEffect(ctx[h].task) => SilentKey(Key(h))
         /\ \A t \in Tasks : RbKey(h) # Primary(t)
<1>1. ctx[h].task \in Tasks /\ ctx[h].cid \in CompIds
  BY DEF EngineTypeOK, Calls
<1>2. ~ SilentKey(RbKey(h))
  BY <1>1 DEF RbKey, SilentKey, CompIds
<1>. QED
  BY <1>1, <1>2, CallTypes DEF Key, RbKey, SilentKey, Running, Primary, CompIds

\* A step of execute_approved or rollback preserves the strengthening.
LEMMA LedgerStep ==
  ASSUME EngineTypeOK, OnceInv, LedgerInv, EngineTypeOK', OnceInv', NEW h \in Handlers, EngineStep(h)
  PROVE  LedgerInv'
<1>1. /\ exec \in [Keys -> ExecStatus] /\ effect \in [Keys -> Nat] /\ effect' \in [Keys -> Nat]
      /\ Key(h) \in Keys /\ RbKey(h) \in Keys
  BY KeyKinds DEF EngineTypeOK
<1>2. \A k \in Keys : exec[k] # "none" => exec'[k] # "none"
  BY <1>1, LedgerShape DEF LedgerStill, Fails, RbReceipt, Claims, Invokes, Settles
<1>3. \A k \in Keys : effect[k] = 1 => effect'[k] = 1
  <2>1. \A k \in Keys : effect'[k] >= effect[k]
    BY <1>1, LedgerShape DEF LedgerStill, Fails, RbReceipt, Claims, Invokes, Settles, effectVars
  <2>. QED BY <1>1, <2>1 DEF OnceInv
<1>4. \A k \in Keys : exec'[k] = "failed" => SilentKey(k)
  <2>1. \A k \in Keys : exec'[k] = "failed" => exec[k] = "failed" \/ (Fails(h) /\ k = Key(h))
    BY <1>1, LedgerShape DEF LedgerStill, Fails, RbReceipt, Claims, Invokes, Settles
  <2>. QED BY <2>1, KeyKinds DEF LedgerInv, Fails
<1>5. \A k \in Keys : SilentKey(k) => ~ Touched(k)'
  <2>1. \A k \in Keys : Touched(k)' => Touched(k) \/ Invokes(h, k)
    BY <1>1, LedgerShape DEF LedgerStill, Fails, RbReceipt, Claims, Invokes, Settles, Touched, effectVars
  <2>. QED BY <2>1, KeyKinds DEF LedgerInv, Invokes
<1>6. ASSUME NEW g \in Handlers, pc'[g] = "rb_receipt"
      PROVE  exec'[RbKey(g)'] # "none" /\ effect'[RbKey(g)'] = 1
  <2>1. Attempted(h)
    BY DEF OnceInv
  <2>2. CASE g # h
    <3>1. pc[g] = "rb_receipt" /\ RbKey(g)' = RbKey(g)
      BY <1>6, <2>1, <2>2, Moves DEF RbKey
    <3>2. RbKey(g) \in Keys
      BY KeyKinds
    <3>. QED BY <1>2, <1>3, <3>1, <3>2 DEF LedgerInv
  <2>3. CASE g = h
    <3>1. RbExecute(h)
      BY <1>6, <2>1, <2>3, Moves
    <3>2. Running(h, RbKey(h)) /\ RbKey(h)' = RbKey(h) /\ exec' = exec
      BY <3>1 DEF RbExecute, At, Running, RbKey, ledgerVars
    <3>3. exec[RbKey(h)] # "none" /\ effect[RbKey(h)] = 0
      BY <1>1, <3>2 DEF OnceInv, Touched
    <3>4. effect'[RbKey(h)] = 1
      BY <1>1, <3>1, <3>3 DEF RbExecute
    <3>. QED BY <2>3, <3>2, <3>3, <3>4
  <2>. QED BY <2>2, <2>3
<1>. QED BY <1>4, <1>5, <1>6 DEF LedgerInv, SilentKey, SideEffect

\* Every step preserves the strengthening.
LEMMA LedgerNext ==
  ASSUME EngineTypeOK, OnceInv, LedgerInv, EngineTypeOK', OnceInv', EngineMoves
  PROVE  LedgerInv'
<1>0. exec \in [Keys -> ExecStatus] /\ effect \in [Keys -> Nat] /\ pc \in [Handlers -> Positions] /\ ctx \in [Handlers -> Calls]
  BY DEF EngineTypeOK
<1>1. CASE Apart
  <2>1. \A g \in Handlers : pc'[g] = "rb_receipt" => pc[g] = "rb_receipt" /\ ctx'[g] = ctx[g]
    BY <1>1 DEF Apart
  <2>. QED BY <1>1, <2>1 DEF Apart, LedgerInv, Touched, SilentKey, SideEffect, RbKey
<1>2. ASSUME NEW k \in Keys, LateEffect(k) PROVE LedgerInv'
  <2>1. /\ k \in inflight /\ inflight' = inflight \ {k} /\ effect' = [effect EXCEPT ![k] = @ + 1]
        /\ exec' = exec /\ pc' = pc /\ ctx' = ctx
    BY <1>2 DEF LateEffect, ledgerVars
  <2>2. Touched(k) /\ effect[k] = 0
    BY <2>1 DEF Touched, OnceInv
  <2>3. \A j \in Keys : Touched(j)' => Touched(j)
    BY <1>0, <2>1, <2>2 DEF Touched
  <2>4. \A j \in Keys : effect[j] = 1 => effect'[j] = 1
    BY <1>0, <2>1, <2>2
  <2>. QED BY <2>1, <2>3, <2>4, KeyKinds DEF LedgerInv, SilentKey, SideEffect, RbKey
<1>3. ASSUME NEW k \in Keys, InterruptExecution(k) PROVE LedgerInv'
  <2>1. /\ effect' = effect /\ inflight' = inflight /\ pc' = pc /\ ctx' = ctx
        /\ \A j \in Keys : (exec[j] # "none" => exec'[j] # "none") /\ (exec'[j] = "failed" => exec[j] = "failed")
    BY <1>0, <1>3 DEF InterruptExecution, effectVars
  <2>. QED BY <2>1, KeyKinds DEF LedgerInv, Touched, SilentKey, SideEffect, RbKey
<1>4. ASSUME NEW c \in Comps, InterruptCompensation(c) PROVE LedgerInv'
  BY <1>4 DEF InterruptCompensation, ledgerVars, effectVars, LedgerInv, Touched, SilentKey, SideEffect, RbKey
<1>. QED
  BY <1>1, <1>2, <1>3, <1>4, LedgerStep DEF EngineMoves

\* Under the refinement mapping a step of the engine, of the recovery or of a
\* late answer is a step of ToolLedger or changes nothing in it.
LEMMA LedgerSimulated ==
  ASSUME EngineTypeOK, OnceInv, LedgerInv, EngineMoves
  PROVE  [Ledger!Next]_(Ledger!vars)
<1>. DEFINE Silent == {k \in Keys : k[2] = 0 /\ ~ SideEffect(k[1])}
<1>. USE DEF Ledger!vars, Ledger!Next
<1>0. exec \in [Keys -> ExecStatus] /\ effect \in [Keys -> Nat]
  BY DEF EngineTypeOK
<1>1. CASE exec' = exec /\ effect' = effect
  BY <1>1
<1>2. ASSUME NEW k \in Keys, Claims(k) PROVE Ledger!Next
  BY <1>2 DEF Claims, Ledger!Claim
<1>3. ASSUME NEW k \in Keys, NEW v \in {"completed", "execution_unknown"}, Settles(k, v) PROVE Ledger!Next
  BY <1>3 DEF Settles, Ledger!Settle
<1>4. ASSUME NEW k \in Keys, Touched(k) \/ (exec[k] # "none" /\ ~ SilentKey(k)), effect[k] = 0,
             exec' = exec, effect' = [effect EXCEPT ![k] = @ + 1]
      PROVE  Ledger!Next
  <2>1. k \notin Silent /\ exec[k] # "none"
    BY <1>4 DEF LedgerInv, SilentKey, OnceInv
  <2>2. effect' = [effect EXCEPT ![k] = 1]
    BY <1>0, <1>4
  <2>. QED BY <1>4, <2>1, <2>2 DEF Ledger!TakeEffect
<1>5. ASSUME NEW h \in Handlers, EngineStep(h) PROVE Ledger!Next \/ (exec' = exec /\ effect' = effect)
  <2>1. CASE Fails(h)
    <3>1. Key(h) \in Keys /\ Key(h) \in Silent
      BY <2>1, KeyKinds DEF Fails, SilentKey
    <3>. QED BY <2>1, <3>1 DEF Fails, Settles, Ledger!Settle
  <2>2. CASE RbReceipt(h)
    <3>1. /\ RbKey(h) \in Keys /\ exec[RbKey(h)] # "none" /\ effect[RbKey(h)] = 1 /\ exec[RbKey(h)] # "failed"
          /\ exec' = [exec EXCEPT ![RbKey(h)] = "completed"] /\ effect' = effect
      BY <2>2, KeyKinds DEF RbReceipt, At, LedgerInv, effectVars
    <3>2. CASE exec[RbKey(h)] = "completed"
      BY <1>0, <3>1, <3>2
    <3>3. CASE exec[RbKey(h)] \in {"executing", "execution_unknown"}
      BY <3>1, <3>3 DEF Ledger!Settle
    <3>. QED BY <1>0, <3>1, <3>2, <3>3 DEF ExecStatus
  <2>3. ASSUME NEW k \in Keys, Invokes(h, k) PROVE Ledger!Next \/ (exec' = exec /\ effect' = effect)
    <3>1. exec[k] # "none" /\ effect[k] = 0 /\ ~ SilentKey(k)
      BY <1>0, <2>3, KeyKinds DEF Invokes, OnceInv, Touched
    <3>. QED BY <1>4, <2>3, <3>1 DEF Invokes
  <2>. QED BY <1>2, <1>3, <1>5, <2>1, <2>2, <2>3, LedgerShape DEF LedgerStill
<1>6. ASSUME NEW k \in Keys, LateEffect(k) PROVE Ledger!Next
  BY <1>4, <1>6 DEF LateEffect, ledgerVars, Touched, OnceInv
<1>7. ASSUME NEW k \in Keys, InterruptExecution(k) PROVE Ledger!Next \/ (exec' = exec /\ effect' = effect)
  <2>1. CASE exec[k] = "executing"
    BY <1>7, <2>1 DEF InterruptExecution, effectVars, Ledger!Settle
  <2>2. CASE exec[k] # "executing"
    BY <1>0, <1>7, <2>2 DEF InterruptExecution, effectVars
  <2>. QED BY <2>1, <2>2
<1>8. ASSUME NEW c \in Comps, InterruptCompensation(c) PROVE exec' = exec /\ effect' = effect
  BY <1>8 DEF InterruptCompensation, ledgerVars, effectVars
<1>. QED
  BY <1>1, <1>5, <1>6, <1>7, <1>8 DEF EngineMoves, Apart

\* The three parts of the inductive invariant hold together in every state.
LEMMA Inductive == Spec => [](EngineTypeOK /\ OnceInv /\ LedgerInv)
<1>1. Init => EngineTypeOK /\ OnceInv /\ LedgerInv
  <2>1. Init => OnceInv /\ LedgerInv
    BY DEF Init, EngineInit, OnceInv, Attempted, Running, Touched, LedgerInv
  <2>. QED BY <2>1, EngineTypeInit DEF Init
<1>2. EngineTypeOK /\ OnceInv /\ LedgerInv /\ [Next]_vars => EngineTypeOK' /\ OnceInv' /\ LedgerInv'
  BY EngineNext, EngineTypeNext, OnceNext, LedgerNext
<1>. QED BY <1>1, <1>2, PTL DEF Spec

\* execute_approved and rollback, with everything around them, implement the
\* ledger in which a call is claimed once and takes effect at most once.
THEOREM LedgerImplemented == Spec => LedgerSpec
<1>1. Init => Ledger!Init
  BY DEF Init, EngineInit, Ledger!Init
<1>2. EngineTypeOK /\ OnceInv /\ LedgerInv /\ [Next]_vars => [Ledger!Next]_(Ledger!vars)
  BY EngineNext, LedgerSimulated
<1>. QED BY <1>1, <1>2, Inductive, PTL DEF Spec, LedgerSpec, Ledger!Spec

\* A key recorded as failed had no effect and will have none.
THEOREM FailureIsClean == Spec => []FailedMeansNoEffect
<1>1. EngineTypeOK /\ LedgerInv => FailedMeansNoEffect
  BY DEF EngineTypeOK, LedgerInv, Touched, FailedMeansNoEffect
<1>. QED BY <1>1, Inductive, PTL

-----------------------------------------------------------------------------
(* Receipts and unknown outcomes.                                          *)

\* The output of an execution changes only with its receipt.
LEMMA OutputShape ==
  ASSUME EngineTypeOK, NEW h \in Handlers, EngineStep(h)
  PROVE  \/ output' = output \/ RbReceipt(h)
         \/ \E o \in Results, k \in Keys : exec[k] = "executing" /\ output' = [output EXCEPT ![k] = o]
<1>1. /\ Key(h) \in Keys /\ RbKey(h) \in Keys /\ ctx[h].out \in Results
      /\ output \in [Keys -> Results] /\ "none" \in Results
  BY KeyKinds DEF EngineTypeOK, Calls, Results
<1>2. CASE \/ Lookup(h) \/ JitPolicy(h) \/ FinishBlocked(h) \/ Claim(h) \/ Reread(h) \/ RunTool(h)
           \/ ToolRaises(h) \/ Retry(h) \/ CheckpointExecute(h) \/ CompLookup(h) \/ CompInsert(h)
           \/ Verify(h) \/ FinishCompleted(h) \/ AuditExecuted(h) \/ FinishFailed(h) \/ FinishRecovery(h)
           \/ RbRead(h) \/ RbClaim(h) \/ RbLedger(h) \/ RbExecute(h) \/ RbToolRaises(h)
           \/ RbUse(h) \/ RbFailComp(h) \/ RbFailTask(h) \/ RbFinish(h) \/ RbAudit(h)
  BY <1>2 DEF ledgerVars, Lookup, JitPolicy, FinishBlocked, Claim, Reread, RunTool, ToolRaises, Retry,
       CheckpointExecute, CompLookup, CompInsert, Verify, FinishCompleted, AuditExecuted, FinishFailed,
       FinishRecovery, RbRead, RbClaim, RbLedger, RbExecute, RbToolRaises, RbUse, RbFailComp,
       RbFailTask, RbFinish, RbAudit
<1>3. CASE Receipt(h) \/ ReceiptRaises(h) \/ GiveUp(h) \/ RbFailLedger(h)
  <2>1. PICK k \in {Key(h), RbKey(h)}, o \in Results :
          output' = [output EXCEPT ![k] = IF exec[k] = "executing" THEN o ELSE @] \/ output' = output
    BY <1>1, <1>3 DEF Receipt, ReceiptRaises, GiveUp, RbFailLedger, Settle, ledgerVars
  <2>. QED BY <1>1, <2>1
<1>. QED BY <1>2, <1>3 DEF EngineStep, ExecuteStep, RollbackStep

\* A step leaves a completed or unknown primary row as it is.
LEMMA PrimaryRow ==
  ASSUME EngineTypeOK, EngineMoves, NEW t \in Tasks
  PROVE  /\ exec[Primary(t)] \in {"completed", "execution_unknown"} => exec'[Primary(t)] = exec[Primary(t)]
         /\ exec[Primary(t)] = "completed" => output'[Primary(t)] = output[Primary(t)]
<1>1. exec \in [Keys -> ExecStatus] /\ output \in [Keys -> Results] /\ Primary(t) \in Keys
  BY CallTypes DEF EngineTypeOK
<1>2. ASSUME NEW h \in Handlers, EngineStep(h), exec[Primary(t)] \in {"completed", "execution_unknown"}
      PROVE  exec'[Primary(t)] = exec[Primary(t)]
  BY <1>1, <1>2, LedgerShape, KeyKinds DEF LedgerStill, Fails, RbReceipt, Claims, Invokes, Settles
<1>3. ASSUME NEW h \in Handlers, EngineStep(h), exec[Primary(t)] = "completed"
      PROVE  output'[Primary(t)] = output[Primary(t)]
  BY <1>1, <1>3, OutputShape, KeyKinds DEF RbReceipt
<1>4. ASSUME NEW k \in Keys, LateEffect(k) \/ InterruptExecution(k)
      PROVE  output' = output /\ (exec[Primary(t)] # "executing" => exec'[Primary(t)] = exec[Primary(t)])
  BY <1>1, <1>4 DEF LateEffect, InterruptExecution, ledgerVars
<1>5. ASSUME NEW c \in Comps, InterruptCompensation(c) PROVE exec' = exec /\ output' = output
  BY <1>5 DEF InterruptCompensation, ledgerVars
<1>. QED BY <1>2, <1>3, <1>4, <1>5 DEF EngineMoves, Apart

\* A replay returns what the tool returned.
LEMMA ReceiptsStay == Spec => ReceiptStable
<1>1. EngineTypeOK /\ [Next]_vars =>
        [\A t \in Tasks : exec[Primary(t)] = "completed" =>
           exec'[Primary(t)] = "completed" /\ output'[Primary(t)] = output[Primary(t)]]_vars
  BY EngineNext, PrimaryRow
<1>. QED BY <1>1, Inductive, PTL DEF Spec, ReceiptStable

\* An uncertain outcome is never quietly turned into another one.
LEMMA UnknownsStay == Spec => UnknownStays
<1>1. EngineTypeOK /\ [Next]_vars =>
        [\A t \in Tasks : exec[Primary(t)] = "execution_unknown" => exec'[Primary(t)] = "execution_unknown"]_vars
  BY EngineNext, PrimaryRow
<1>. QED BY <1>1, Inductive, PTL DEF Spec, UnknownStays

\* What the ledger has said of an execution stands: no retry, late answer or
\* recovery takes a receipt back, or an unknown outcome.
THEOREM VerdictsAreFinal == Spec => VerdictsStand
BY ReceiptsStay, UnknownsStay, PTL DEF VerdictsStand

-----------------------------------------------------------------------------
(* Who a write is executed for.                                            *)

\* Whatever the engines answer about a write, it is not permitted outright, and
\* who is authorized by the answer is entitled to the tier it names.
LEMMA WritesAreGated ==
  ASSUME NEW t \in Tasks, SideEffect(t), NEW d \in Answers(ToolOf[t])
  PROVE  /\ ~ d.allowed
         /\ \A p \in Callers : ApprovalAuthorized(d, p) => Entitled(p, d.approval_tier)
BY DEF SideEffect, Answers, Refuse, NeedsApproval, Decision, ApprovalAuthorized, Entitled

\* A handler gets past the JIT decision only by it, and then keeps its locals
\* up to the receipt.
LEMMA PastJit ==
  ASSUME EngineTypeOK, OnceInv, EffectAuthorized, NEW h \in Handlers, EngineStep(h)
  PROVE  EffectAuthorized'
<1>1. pc \in [Handlers -> Positions] /\ ctx \in [Handlers -> Calls] /\ Attempted(h)
  BY DEF EngineTypeOK, OnceInv
<1>2. \A g \in Handlers \ {h} : pc'[g] = pc[g] /\ ctx'[g] = ctx[g]
  BY <1>1, Moves
<1>3. pc'[h] \in {"claim", "execute", "receipt"} => JitPolicy(h) \/ Claim(h) \/ Retry(h) \/ RunTool(h)
  BY <1>1 DEF EngineStep, ExecuteStep, RollbackStep, At, Goto, Reply, Raise, Drop, FromReceipt, Lookup,
       FinishBlocked, Reread, ToolRaises, Receipt, ReceiptRaises, GiveUp, CheckpointExecute, CompLookup,
       CompInsert, Verify, FinishCompleted, AuditExecuted, FinishFailed, FinishRecovery, RbRead, RbClaim,
       RbLedger, RbExecute, RbToolRaises, RbReceipt, RbUse, RbFailLedger, RbFailComp, RbFailTask,
       RbFinish, RbAudit
<1>4. ASSUME SideEffect(ctx'[h].task), pc'[h] \in {"claim", "execute", "receipt"}
      PROVE  Entitled(ctx'[h].by, ctx'[h].tier)
  <2>1. CASE JitPolicy(h)
    <3>1. PICK d \in Answers(ToolOf[ctx[h].task]) :
            pc' = [pc EXCEPT ![h] = IF \/ ctx[h].tier = "none" /\ d.allowed
                                       \/ /\ ctx[h].tier # "none" /\ d.approval_tier = ctx[h].tier
                                          /\ ApprovalAuthorized(d, ctx[h].by)
                                    THEN "claim" ELSE "finish_blocked"]
      BY <2>1 DEF JitPolicy, Goto
    <3>2. ctx' = ctx /\ ctx[h].task \in Tasks /\ ctx[h].by \in Callers
      BY <1>1, <2>1 DEF JitPolicy, Calls
    <3>3. ctx[h].tier = d.approval_tier /\ ApprovalAuthorized(d, ctx[h].by)
      BY <1>1, <1>4, <3>1, <3>2, WritesAreGated
    <3>. QED BY <1>4, <3>2, <3>3, WritesAreGated
  <2>2. CASE Claim(h)
    <3>1. pc[h] = "claim"
      BY <2>2 DEF Claim, At
    <3>2. ctx'[h].task = ctx[h].task /\ ctx'[h].by = ctx[h].by /\ ctx'[h].tier = ctx[h].tier
      BY <1>1, <2>2 DEF Claim, Calls
    <3>. QED BY <1>4, <3>1, <3>2 DEF EffectAuthorized
  <2>3. CASE Retry(h)
    <3>1. ctx[h].attempt > 0 /\ ctx[h].attempt < MaxAttempts(ctx[h].task) /\ ctx'[h].task = ctx[h].task
      BY <1>1, <2>3 DEF Retry, At, Attempted, Calls
    <3>2. ~ SideEffect(ctx[h].task)
      BY <1>1, <3>1 DEF MaxAttempts, Calls
    <3>. QED BY <1>4, <3>1, <3>2
  <2>4. CASE RunTool(h)
    <3>1. pc[h] = "execute"
      BY <2>4 DEF RunTool, At
    <3>2. PICK o \in Outputs(ctx[h].task) : ctx' = [ctx EXCEPT ![h].out = o]
      BY <2>4 DEF RunTool
    <3>3. ctx'[h].task = ctx[h].task /\ ctx'[h].by = ctx[h].by /\ ctx'[h].tier = ctx[h].tier
      BY <1>1, <3>2 DEF Calls
    <3>. QED BY <1>4, <3>1, <3>3 DEF EffectAuthorized
  <2>. QED BY <1>3, <1>4, <2>1, <2>2, <2>3, <2>4
<1>. QED BY <1>2, <1>4 DEF EffectAuthorized, SideEffect

\* No other step brings a handler past the JIT decision.
LEMMA AuthorizedNext ==
  ASSUME EngineTypeOK, OnceInv, EffectAuthorized, EngineMoves
  PROVE  EffectAuthorized'
<1>1. CASE Apart
  <2>1. \A g \in Handlers : pc'[g] \in {"claim", "execute", "receipt"} => pc'[g] = pc[g] /\ ctx'[g] = ctx[g]
    BY <1>1 DEF Apart
  <2>. QED BY <2>1 DEF EffectAuthorized, SideEffect
<1>2. CASE UNCHANGED <<pc, ctx>>
  BY <1>2 DEF EffectAuthorized, SideEffect
<1>. QED
  BY <1>1, <1>2, PastJit DEF EngineMoves, LateEffect, InterruptExecution, InterruptCompensation

\* Whatever policy is deployed at the time of the JIT decision, a write is
\* executed only for a caller entitled to the tier it was approved for.
THEOREM WritesAreAuthorized == Spec => []EffectAuthorized
<1>1. Init => EffectAuthorized
  BY DEF Init, EngineInit, EffectAuthorized
<1>2. EngineTypeOK /\ OnceInv /\ EffectAuthorized /\ [Next]_vars => EffectAuthorized'
  BY EngineNext, AuthorizedNext
<1>. QED BY <1>1, <1>2, Inductive, PTL DEF Spec

-----------------------------------------------------------------------------
(* How a step moves a handler, the ledger and the compensations.           *)

\* Which step of the engine leads to a position.
LEMMA Entries ==
  ASSUME EngineTypeOK, NEW h \in Handlers, EngineStep(h)
  PROVE  /\ pc'[h] = "claim" => JitPolicy(h)
         /\ pc'[h] = "execute" => Claim(h) \/ Retry(h)
         /\ pc'[h] = "receipt" => RunTool(h)
         /\ pc'[h] = "tool_raised" => ToolRaises(h) \/ ReceiptRaises(h)
         /\ pc'[h] = "checkpoint_execute" => Lookup(h) \/ Reread(h) \/ Receipt(h)
         /\ pc'[h] = "comp_lookup" => CheckpointExecute(h)
         /\ pc'[h] = "comp_insert" => CompLookup(h)
         /\ pc'[h] = "verify" => CheckpointExecute(h) \/ CompLookup(h) \/ CompInsert(h)
         /\ pc'[h] = "finish_completed" => Verify(h)
         /\ pc'[h] = "audit_executed" => FinishCompleted(h)
         /\ pc'[h] = "rb_ledger" => RbClaim(h)
         /\ pc'[h] = "rb_use" => RbReceipt(h)
         /\ pc'[h] \notin {"idle", "lookup"}
<1>. pc \in [Handlers -> Positions]
  BY DEF EngineTypeOK
<1>1. CASE ExecuteStep(h)
  BY <1>1 DEF ExecuteStep, At, Goto, Reply, Drop, FromReceipt, Lookup, JitPolicy, FinishBlocked, Claim,
       Reread, RunTool, ToolRaises, Receipt, ReceiptRaises, Retry, GiveUp, CheckpointExecute, CompLookup,
       CompInsert, Verify, FinishCompleted, AuditExecuted, FinishFailed, FinishRecovery
<1>2. CASE RollbackStep(h)
  BY <1>2 DEF RollbackStep, At, Goto, Reply, Raise, Drop, RbRead, RbClaim, RbLedger, RbExecute,
       RbToolRaises, RbReceipt, RbUse, RbFailLedger, RbFailComp, RbFailTask, RbFinish, RbAudit
<1>. QED BY <1>1, <1>2 DEF EngineStep

\* A new row comes from the claim of a call or of a reversal.
LEMMA ClaimShape ==
  ASSUME EngineTypeOK, LedgerInv, NEW h \in Handlers, EngineStep(h), NEW k \in Keys, exec[k] = "none", exec'[k] # "none"
  PROVE  \/ Claim(h) /\ k = Key(h)
         \/ RbLedger(h) /\ k = RbKey(h)
<1>1. exec \in [Keys -> ExecStatus] /\ Key(h) \in Keys /\ RbKey(h) \in Keys
  BY KeyKinds DEF EngineTypeOK
<1>2. ASSUME RbReceipt(h) PROVE FALSE
  <2>1. exec[RbKey(h)] # "none"
    BY <1>2 DEF RbReceipt, At, LedgerInv
  <2>. QED BY <1>1, <1>2, <2>1 DEF RbReceipt
<1>3. \/ exec' = exec \/ Claim(h) \/ RbLedger(h) \/ Receipt(h) \/ ReceiptRaises(h) \/ GiveUp(h) \/ RbFailLedger(h)
  BY <1>2 DEF EngineStep, ExecuteStep, RollbackStep, ledgerVars, Lookup, JitPolicy,
       FinishBlocked, Reread, RunTool, ToolRaises, Retry, CheckpointExecute, CompLookup, CompInsert, Verify,
       FinishCompleted, AuditExecuted, FinishFailed, FinishRecovery, RbRead, RbClaim, RbExecute,
       RbToolRaises, RbUse, RbFailComp, RbFailTask, RbFinish, RbAudit
<1>4. CASE Claim(h) \/ RbLedger(h)
  BY <1>1, <1>4 DEF Claim, RbLedger, Insert
<1>5. CASE Receipt(h) \/ ReceiptRaises(h) \/ GiveUp(h) \/ RbFailLedger(h)
  BY <1>1, <1>5 DEF Receipt, ReceiptRaises, GiveUp, RbFailLedger, Settle, ledgerVars
<1>. QED BY <1>3, <1>4, <1>5

\* A row completed by execute_approved is that of the call the handler is at,
\* with the output it has.
LEMMA CompletionShape ==
  ASSUME EngineTypeOK, NEW h \in Handlers, EngineStep(h),
         NEW k \in Keys, exec[k] # "completed", exec'[k] = "completed"
  PROVE  \/ pc[h] = "receipt" /\ k = Key(h) /\ exec[k] = "executing" /\ output'[k] = ctx[h].out
         \/ RbReceipt(h) /\ k = RbKey(h)
<1>1. /\ exec \in [Keys -> ExecStatus] /\ output \in [Keys -> Results] /\ Key(h) \in Keys /\ RbKey(h) \in Keys
  BY KeyKinds DEF EngineTypeOK
<1>2. \/ exec' = exec \/ Claim(h) \/ RbLedger(h) \/ Receipt(h) \/ ReceiptRaises(h) \/ GiveUp(h) \/ RbFailLedger(h)
      \/ RbReceipt(h)
  BY DEF EngineStep, ExecuteStep, RollbackStep, ledgerVars, Lookup, JitPolicy,
       FinishBlocked, Reread, RunTool, ToolRaises, Retry, CheckpointExecute, CompLookup, CompInsert, Verify,
       FinishCompleted, AuditExecuted, FinishFailed, FinishRecovery, RbRead, RbClaim, RbExecute,
       RbToolRaises, RbUse, RbFailComp, RbFailTask, RbFinish, RbAudit
<1>3. CASE Claim(h) \/ RbLedger(h)
  BY <1>1, <1>3 DEF Claim, RbLedger, Insert
<1>4. CASE Receipt(h) \/ ReceiptRaises(h)
  BY <1>1, <1>4 DEF Receipt, ReceiptRaises, At, Settle, ledgerVars
<1>5. CASE GiveUp(h) \/ RbFailLedger(h)
  BY <1>1, <1>5 DEF GiveUp, RbFailLedger, Settle
<1>6. CASE RbReceipt(h)
  BY <1>1, <1>6 DEF RbReceipt
<1>. QED BY <1>2, <1>3, <1>4, <1>5, <1>6

\* A compensation is offered, claimed, used, or given up; each by a statement
\* of its own.
LEMMA CompShape ==
  ASSUME EngineTypeOK, NEW h \in Handlers, EngineStep(h), NEW c \in Comps, comp'[c] # comp[c]
  PROVE  \/ CompInsert(h) /\ c[1] = ctx[h].task /\ comp[c] = "none" /\ comp'[c] = "available"
         \/ RbClaim(h) /\ c = RbKey(h) /\ comp[c] = "available" /\ comp'[c] = "executing"
         \/ RbUse(h) /\ c = RbKey(h) /\ comp[c] = "executing" /\ comp'[c] = "used"
         \/ comp[c] = "executing" /\ comp'[c] = "execution_unknown"
<1>1. comp \in [Comps -> CompStatus] /\ RbKey(h) \in Comps /\ ctx[h].task \in Tasks
  BY CallTypes DEF EngineTypeOK, RbKey, Calls
<1>2. CompInsert(h) \/ RbClaim(h) \/ RbUse(h) \/ RbLedger(h) \/ RbFailComp(h)
  BY DEF EngineStep, ExecuteStep, RollbackStep, Lookup, JitPolicy, FinishBlocked, Claim, Reread, RunTool,
       ToolRaises, Receipt, ReceiptRaises, Retry, GiveUp, CheckpointExecute, CompLookup, Verify,
       FinishCompleted, AuditExecuted, FinishFailed, FinishRecovery, RbRead, RbExecute, RbToolRaises,
       RbReceipt, RbFailLedger, RbFailTask, RbFinish, RbAudit
<1>3. CASE CompInsert(h)
  <2>1. PICK i \in CompIds : /\ \A j \in CompIds : comp[<<ctx[h].task, j>>] = "none" <=> j >= i
                             /\ comp' = [comp EXCEPT ![<<ctx[h].task, i>>] = "available"]
    BY <1>3 DEF CompInsert
  <2>2. comp[<<ctx[h].task, i>>] = "none"
    BY <2>1 DEF CompIds
  <2>3. c = <<ctx[h].task, i>>
    BY <1>1, <2>1
  <2>. QED BY <1>1, <1>3, <2>1, <2>2, <2>3, CallTypes
<1>4. CASE RbClaim(h)
  BY <1>1, <1>4 DEF RbClaim, CasComp
<1>5. CASE RbUse(h)
  BY <1>1, <1>5 DEF RbUse, CasComp
<1>6. CASE RbLedger(h) \/ RbFailComp(h)
  BY <1>1, <1>6 DEF RbLedger, RbFailComp, CasComp
<1>. QED BY <1>2, <1>3, <1>4, <1>5, <1>6

\* What a step keeps: a row of the ledger, a completed one, an effect, a
\* compensation, a claimed one, and every audit record.
LEMMA Kept ==
  ASSUME EngineTypeOK, OnceInv, OnceInv', EngineTypeOK', EngineMoves
  PROVE  /\ \A k \in Keys : exec[k] # "none" => exec'[k] # "none"
         /\ \A k \in Keys : exec[k] = "completed" => exec'[k] = "completed"
         /\ \A k \in Keys : effect[k] = 1 => effect'[k] = 1
         /\ \A c \in Comps : comp[c] # "none" => comp'[c] # "none"
         /\ \A c \in Comps : comp[c] \notin {"none", "available"} => comp'[c] \notin {"none", "available"}
         /\ audit \subseteq audit'
<1>0. /\ exec \in [Keys -> ExecStatus] /\ comp \in [Comps -> CompStatus] /\ effect \in [Keys -> Nat]
      /\ effect' \in [Keys -> Nat]
  BY DEF EngineTypeOK
<1>1. CASE Apart
  BY <1>1 DEF Apart
<1>2. ASSUME NEW h \in Handlers, EngineStep(h)
      PROVE  /\ \A k \in Keys : exec[k] # "none" => exec'[k] # "none"
             /\ \A k \in Keys : exec[k] = "completed" => exec'[k] = "completed"
  BY <1>0, <1>2, KeyKinds, LedgerShape DEF LedgerStill, Fails, RbReceipt, Claims, Invokes, Settles
<1>3. ASSUME NEW h \in Handlers, EngineStep(h), NEW k \in Keys, effect[k] = 1
      PROVE  effect'[k] = 1
  <2>1. effect'[k] >= effect[k]
    BY <1>0, <1>3, LedgerShape DEF LedgerStill, Fails, RbReceipt, Claims, Invokes, Settles, effectVars
  <2>. QED BY <1>0, <1>3, <2>1 DEF OnceInv
<1>4. ASSUME NEW h \in Handlers, EngineStep(h)
      PROVE  /\ \A c \in Comps : comp[c] # "none" => comp'[c] # "none"
             /\ \A c \in Comps : comp[c] \notin {"none", "available"} => comp'[c] \notin {"none", "available"}
  BY <1>4, CompShape
<1>5. ASSUME NEW h \in Handlers, EngineStep(h) PROVE audit \subseteq audit'
  BY <1>5 DEF EngineStep, ExecuteStep, RollbackStep, AppendAudit, Lookup, JitPolicy, FinishBlocked, Claim, Reread,
       RunTool, ToolRaises, Receipt, ReceiptRaises, Retry, GiveUp, CheckpointExecute, CompLookup, CompInsert,
       Verify, FinishCompleted, AuditExecuted, FinishFailed, FinishRecovery, RbRead, RbClaim, RbLedger,
       RbExecute, RbToolRaises, RbReceipt, RbUse, RbFailLedger, RbFailComp, RbFailTask, RbFinish, RbAudit
<1>6. ASSUME NEW k \in Keys, LateEffect(k)
      PROVE  /\ exec' = exec /\ comp' = comp /\ audit' = audit
             /\ \A j \in Keys : effect[j] = 1 => effect'[j] = 1
  BY <1>0, <1>6 DEF LateEffect, ledgerVars, OnceInv
<1>7. ASSUME NEW k \in Keys, InterruptExecution(k)
      PROVE  /\ effect' = effect /\ comp' = comp /\ audit' = audit
             /\ \A j \in Keys : (exec[j] # "none" => exec'[j] # "none") /\ (exec[j] = "completed" => exec'[j] = "completed")
  BY <1>0, <1>7 DEF InterruptExecution, effectVars
<1>8. ASSUME NEW c \in Comps, InterruptCompensation(c)
      PROVE  /\ exec' = exec /\ effect' = effect /\ audit' = audit
             /\ \A d \in Comps : comp'[d] # comp[d] => comp[d] = "executing" /\ comp'[d] = "execution_unknown"
  BY <1>0, <1>8 DEF InterruptCompensation, CasComp, ledgerVars, effectVars
<1>9. EngineMoves => Apart \/ (\E h \in Handlers : EngineStep(h))
        \/ (\E k \in Keys : LateEffect(k)) \/ (\E k \in Keys : InterruptExecution(k))
        \/ (\E c \in Comps : InterruptCompensation(c))
  BY DEF EngineMoves
<1>10. CASE \E h \in Handlers : EngineStep(h)
  BY <1>2, <1>3, <1>4, <1>5, <1>10
<1>11. CASE \E k \in Keys : LateEffect(k)
  BY <1>6, <1>11
<1>12. CASE \E k \in Keys : InterruptExecution(k)
  BY <1>7, <1>12
<1>13. CASE \E c \in Comps : InterruptCompensation(c)
  BY <1>8, <1>13
<1>. QED BY <1>1, <1>9, <1>10, <1>11, <1>12, <1>13

-----------------------------------------------------------------------------
(* The evidence of the decision comes first.                               *)

\* The strengthening of EvidenceFirst: whoever is about to claim a call, and
\* every claimed call, has the record of its decision.
Recorded(t) == <<"policy.jit_recheck", t>> \in audit
RecordInv ==
  /\ \A h \in Handlers : pc[h] = "claim" => Recorded(ctx[h].task)
  /\ \A t \in Tasks : exec[Primary(t)] # "none" => Recorded(t)

\* A decision is recorded in the step that makes it, and a call claimed after.
LEMMA RecordStep ==
  ASSUME EngineTypeOK, OnceInv, LedgerInv, RecordInv, EngineMoves,
         \A t \in Tasks : Recorded(t) => Recorded(t)', NEW h \in Handlers, EngineStep(h)
  PROVE  RecordInv'
<1>1. ctx[h].task \in Tasks /\ \A g \in Handlers : ctx[g].task \in Tasks
  BY DEF EngineTypeOK, Calls
<1>2. ASSUME NEW g \in Handlers, pc'[g] = "claim" PROVE Recorded(ctx[g].task)' /\ ctx'[g].task = ctx[g].task
  <2>1. CASE g # h
    BY <1>1, <1>2, <2>1, Moves DEF OnceInv, RecordInv
  <2>2. CASE g = h
    <3>1. JitPolicy(h)
      BY <1>2, <2>2, Entries
    <3>. QED BY <2>2, <3>1 DEF JitPolicy, AppendAudit, Recorded
  <2>. QED BY <2>1, <2>2
<1>3. ASSUME NEW t \in Tasks, exec'[Primary(t)] # "none" PROVE Recorded(t)'
  <2>1. CASE exec[Primary(t)] # "none"
    BY <1>3, <2>1 DEF RecordInv
  <2>2. CASE exec[Primary(t)] = "none"
    <3>1. pc[h] = "claim" /\ Primary(t) = Key(h)
      BY <1>3, <2>2, ClaimShape, CallTypes, KeyKinds DEF Claim, At
    <3>2. t = ctx[h].task
      BY <3>1 DEF Primary, Key
    <3>. QED BY <1>1, <3>1, <3>2 DEF RecordInv
  <2>. QED BY <2>1, <2>2
<1>. QED BY <1>2, <1>3 DEF RecordInv, Recorded, Primary

\* Nobody else claims a call or withdraws a record.
LEMMA RecordNext ==
  ASSUME EngineTypeOK, OnceInv, LedgerInv, RecordInv, EngineTypeOK', OnceInv', EngineMoves
  PROVE  RecordInv'
<1>1. \A t \in Tasks : Recorded(t) => Recorded(t)'
  BY Kept DEF Recorded
<1>2. \A h \in Handlers : ctx[h].task \in Tasks
  BY DEF EngineTypeOK, Calls
<1>3. CASE Apart
  <2>1. \A h \in Handlers : pc'[h] = "claim" => pc[h] = "claim" /\ ctx'[h] = ctx[h]
    BY <1>3 DEF Apart
  <2>. QED BY <1>1, <1>2, <1>3, <2>1 DEF Apart, RecordInv, Recorded, Primary
<1>4. ASSUME pc' = pc, ctx' = ctx, \A k \in Keys : exec[k] = "none" => exec'[k] = "none" PROVE RecordInv'
  BY <1>1, <1>2, <1>4, CallTypes DEF RecordInv, Recorded, Primary
<1>5. ASSUME NEW k \in Keys, LateEffect(k) \/ InterruptExecution(k) PROVE RecordInv'
  BY <1>4, <1>5 DEF LateEffect, InterruptExecution, ledgerVars, EngineTypeOK
<1>6. ASSUME NEW c \in Comps, InterruptCompensation(c) PROVE RecordInv'
  BY <1>4, <1>6 DEF InterruptCompensation, ledgerVars
<1>. QED BY <1>1, <1>3, <1>5, <1>6, RecordStep DEF EngineMoves

\* A task without a record of its decision has not even claimed its call.
LEMMA RecordGivesEvidence == EngineTypeOK /\ OnceInv /\ RecordInv => EvidenceFirst
BY CallTypes DEF EngineTypeOK, OnceInv, Touched, RecordInv, Recorded, EvidenceFirst

-----------------------------------------------------------------------------
(* Receipts tell the truth.                                                *)

\* The strengthening of ReceiptTruthful: from the tool's answer to the
\* compensation, a handler that has the expected output stands for an effect.
Expected(h) == SideEffect(ctx[h].task) /\ ctx[h].out = "ok"
ReceiptInv ==
  /\ \A h \in Handlers :
       pc[h] \in {"receipt", "checkpoint_execute", "comp_lookup", "comp_insert"} /\ Expected(h)
         => effect[Key(h)] = 1
  /\ \A h \in Handlers :
       pc[h] \in {"comp_lookup", "comp_insert"} => Compensable(ctx[h].task) /\ ctx[h].out = "ok"
  /\ ReceiptTruthful

\* What can be compensated is a side effect.
LEMMA CompensableIsSideEffect == \A t \in Tasks : Compensable(t) => SideEffect(t)
BY DEF Compensable, SideEffect, COMPENSATION_PAIRS, SideEffectTools, MediumRisk, HighRisk

\* The tool's answer, the receipt and its replay agree with the effect.
LEMMA ReceiptStep ==
  ASSUME EngineTypeOK, OnceInv, LedgerInv, ReceiptInv, EngineTypeOK', OnceInv', EngineMoves,
         NEW h \in Handlers, EngineStep(h)
  PROVE  ReceiptInv'
<1>0. /\ pc \in [Handlers -> Positions] /\ ctx \in [Handlers -> Calls] /\ Attempted(h)
      /\ effect \in [Keys -> Nat] /\ effect' \in [Keys -> Nat] /\ output \in [Keys -> Results]
      /\ ctx[h].task \in Tasks /\ Key(h) \in Keys /\ \A g \in Handlers : Key(g) \in Keys
  BY KeyKinds DEF EngineTypeOK, OnceInv, Calls
<1>1. \A k \in Keys : effect[k] = 1 => effect'[k] = 1
  BY Kept
<1>2. ASSUME NEW g \in Handlers, g # h
      PROVE  pc'[g] = pc[g] /\ ctx'[g] = ctx[g]
  BY <1>0, <1>2, Moves
<1>3. ASSUME RunTool(h), Expected(h)' PROVE effect'[Key(h)'] = 1
  <2>1. PICK o \in Outputs(ctx[h].task), e \in (IF SideEffect(ctx[h].task) THEN {0, 1} ELSE {0}) :
          /\ o = "ok" /\ SideEffect(ctx[h].task) => e = 1
          /\ effect' = [effect EXCEPT ![Key(h)] = @ + e]
          /\ ctx' = [ctx EXCEPT ![h].out = o]
    BY <1>3 DEF RunTool
  <2>2. ctx'[h].out = o /\ ctx'[h].task = ctx[h].task
    BY <1>0, <2>1 DEF Calls
  <2>3. e = 1 /\ Key(h)' = Key(h)
    BY <1>3, <2>1, <2>2 DEF Expected, SideEffect, Key
  <2>4. effect'[Key(h)] = effect[Key(h)] + 1 /\ effect'[Key(h)] <= 1
    BY <1>0, <2>1, <2>3 DEF OnceInv
  <2>. QED BY <1>0, <2>3, <2>4
<1>4. ASSUME Lookup(h) \/ Reread(h), pc'[h] = "checkpoint_execute", Expected(h)' PROVE effect'[Key(h)'] = 1
  <2>1. /\ FromReceipt(h) /\ effect' = effect /\ exec[Key(h)] = "completed"
        /\ ctx' = [ctx EXCEPT ![h].out = output[Key(h)]]
    BY <1>0, <1>4 DEF Lookup, Reread, FromReceipt, Goto, effectVars
  <2>2. ctx'[h].out = output[Key(h)] /\ ctx'[h].task = ctx[h].task
    BY <1>0, <2>1 DEF Calls
  <2>3. output[Primary(ctx[h].task)] = "ok" /\ SideEffect(ctx[h].task) /\ Key(h)' = Key(h)
    BY <1>4, <2>2 DEF Expected, SideEffect, Key
  <2>. QED BY <1>0, <2>1, <2>3 DEF ReceiptInv, ReceiptTruthful, Key
<1>5. ASSUME Receipt(h) \/ CheckpointExecute(h) \/ CompLookup(h), Expected(h)'
      PROVE  effect'[Key(h)'] = 1
  <2>1. ctx' = ctx /\ pc[h] \in {"receipt", "checkpoint_execute", "comp_lookup"}
    BY <1>5 DEF Receipt, CheckpointExecute, CompLookup, At
  <2>. QED BY <1>0, <1>1, <1>5, <2>1 DEF ReceiptInv, Expected, SideEffect, Key
<1>6. ASSUME NEW g \in Handlers,
             pc'[g] \in {"receipt", "checkpoint_execute", "comp_lookup", "comp_insert"}, Expected(g)'
      PROVE  effect'[Key(g)'] = 1
  <2>1. CASE g # h
    BY <1>0, <1>1, <1>2, <1>6, <2>1 DEF ReceiptInv, Expected, SideEffect, Key
  <2>2. CASE g = h
    BY <1>3, <1>4, <1>5, <1>6, <2>2, Entries
  <2>. QED BY <2>1, <2>2
<1>7. ASSUME NEW g \in Handlers, pc'[g] \in {"comp_lookup", "comp_insert"}
      PROVE  Compensable(ctx'[g].task) /\ ctx'[g].out = "ok"
  <2>1. CASE g # h
    BY <1>2, <1>7, <2>1 DEF ReceiptInv
  <2>2. CASE pc'[h] = "comp_lookup"
    <3>1. CheckpointExecute(h)
      BY <2>2, Entries
    <3>. QED BY <1>0, <1>2, <1>7, <2>2, <3>1 DEF CheckpointExecute, Goto, ReceiptInv
  <2>3. CASE pc'[h] = "comp_insert"
    <3>1. CompLookup(h)
      BY <2>3, Entries
    <3>. QED BY <1>2, <1>7, <3>1 DEF CompLookup, At, ReceiptInv
  <2>. QED BY <1>7, <2>1, <2>2, <2>3
<1>8. ASSUME NEW t \in Tasks, exec'[Primary(t)] = "completed", output'[Primary(t)] = "ok", SideEffect(t)
      PROVE  effect'[Primary(t)] = 1
  <2>1. CASE exec[Primary(t)] = "completed"
    BY <1>1, <1>8, <2>1, PrimaryRow, CallTypes DEF ReceiptInv, ReceiptTruthful
  <2>2. CASE exec[Primary(t)] # "completed"
    <3>1. pc[h] = "receipt" /\ Primary(t) = Key(h) /\ ctx[h].out = "ok"
      BY <1>8, <2>2, CompletionShape, CallTypes, KeyKinds
    <3>2. t = ctx[h].task
      BY <3>1 DEF Primary, Key
    <3>. QED BY <1>0, <1>1, <1>8, <3>1, <3>2 DEF ReceiptInv, Expected
  <2>. QED BY <2>1, <2>2
<1>. QED BY <1>6, <1>7, <1>8 DEF ReceiptInv, ReceiptTruthful, Compensable, SideEffect, Primary

\* Nobody else writes a receipt, and effects stay.
LEMMA ReceiptNext ==
  ASSUME EngineTypeOK, OnceInv, LedgerInv, ReceiptInv, EngineTypeOK', OnceInv', EngineMoves
  PROVE  ReceiptInv'
<1>0. \A h \in Handlers : Key(h) \in Keys
  BY KeyKinds
<1>1. \A k \in Keys : effect[k] = 1 => effect'[k] = 1
  BY Kept
<1>2. ASSUME \A k \in Keys : exec'[k] = "completed" => exec[k] = "completed",
             \A h \in Handlers :
               pc'[h] \in {"receipt", "checkpoint_execute", "comp_lookup", "comp_insert"}
                 => pc'[h] = pc[h] /\ ctx'[h] = ctx[h]
      PROVE  ReceiptInv'
  <2>1. ReceiptTruthful'
    BY <1>1, <1>2, PrimaryRow, CallTypes DEF ReceiptInv, ReceiptTruthful, SideEffect, Primary
  <2>2. \A h \in Handlers :
       pc'[h] \in {"receipt", "checkpoint_execute", "comp_lookup", "comp_insert"} /\ Expected(h)'
         => effect'[Key(h)'] = 1
    BY <1>0, <1>1, <1>2 DEF ReceiptInv, Expected, SideEffect, Key, Primary
  <2>. QED BY <1>2, <2>1, <2>2 DEF ReceiptInv, Compensable
<1>3. CASE Apart
  BY <1>2, <1>3 DEF Apart
<1>4. ASSUME NEW k \in Keys, LateEffect(k) \/ InterruptExecution(k) PROVE ReceiptInv'
  BY <1>2, <1>4 DEF LateEffect, InterruptExecution, ledgerVars, EngineTypeOK
<1>5. ASSUME NEW c \in Comps, InterruptCompensation(c) PROVE ReceiptInv'
  BY <1>2, <1>5 DEF InterruptCompensation, ledgerVars
<1>. QED BY <1>3, <1>4, <1>5, ReceiptStep DEF EngineMoves

-----------------------------------------------------------------------------
(* A reversal is claimed by one handler and stands for a change.           *)

\* The strengthening of FreshReversal and CompensationBacked: an unclaimed
\* compensation has no reversal in the ledger, its claim has one holder, and a
\* handler that is about to mark it used has carried it out.
Fresh(c) == comp[c] \in {"none", "available"}
ClaimedRb(h) == pc[h] = "rb_ledger"
ReversalInv ==
  /\ \A c \in Comps : Fresh(c) => exec[c] = "none"
  /\ \A h \in Handlers : ClaimedRb(h) => ~ Fresh(RbKey(h)) /\ exec[RbKey(h)] = "none"
  /\ \A g, h \in Handlers : ClaimedRb(g) /\ ClaimedRb(h) /\ RbKey(g) = RbKey(h) => g = h
  /\ \A h \in Handlers : pc[h] = "rb_use" => effect[RbKey(h)] = 1 /\ exec[RbKey(h)] = "completed"
  /\ CompensationBacked

\* The keys of reversals are the ids of compensations.
LEMMA CompKeys ==
  ASSUME EngineTypeOK
  PROVE  /\ \A c \in Comps : c \in Keys /\ c[1] \in Tasks /\ Primary(c[1]) \in Keys
         /\ \A h \in Handlers : RbKey(h) \in Comps /\ Key(h) \in Keys /\ Key(h) = Primary(ctx[h].task)
         /\ \A h \in Handlers : RbKey(h) # Key(h) /\ Key(h) \notin Comps
BY CallTypes DEF EngineTypeOK, Calls, Comps, Keys, CompIds, Primary, RbKey, Key

\* The claim of a compensation, its row in the ledger, its receipt and its use.
LEMMA ReversalStep ==
  ASSUME EngineTypeOK, OnceInv, LedgerInv, ReceiptInv, ReversalInv, EngineTypeOK', OnceInv', LedgerInv',
         EngineMoves, NEW h \in Handlers, EngineStep(h)
  PROVE  ReversalInv'
<1>0. /\ pc \in [Handlers -> Positions] /\ ctx \in [Handlers -> Calls] /\ Attempted(h)
      /\ exec \in [Keys -> ExecStatus] /\ comp \in [Comps -> CompStatus]
      /\ \A g \in Handlers : RbKey(g) \in Comps /\ RbKey(g) \in Keys
  BY CompKeys DEF EngineTypeOK, OnceInv
<1>1. /\ \A k \in Keys : exec[k] = "completed" => exec'[k] = "completed"
      /\ \A k \in Keys : effect[k] = 1 => effect'[k] = 1
      /\ \A c \in Comps : ~ Fresh(c) => ~ Fresh(c)'
  BY Kept DEF Fresh
<1>2. ASSUME NEW g \in Handlers, g # h
      PROVE  pc'[g] = pc[g] /\ RbKey(g)' = RbKey(g)
  BY <1>0, <1>2, Moves DEF RbKey
<1>3. ASSUME NEW c \in Comps, exec[c] = "none", exec'[c] # "none"
      PROVE  ClaimedRb(h) /\ c = RbKey(h) /\ ~ ClaimedRb(h)'
  <2>1. RbLedger(h) /\ c = RbKey(h)
    BY <1>3, ClaimShape, CompKeys
  <2>2. pc' = [pc EXCEPT ![h] = "rb_execute"]
    BY <1>3, <2>1 DEF RbLedger, Goto
  <2>. QED BY <1>0, <2>1, <2>2 DEF RbLedger, At, ClaimedRb
<1>4. ASSUME NEW c \in Comps, Fresh(c)' PROVE exec'[c] = "none"
  <2>1. Fresh(c)
    BY <1>1, <1>4
  <2>. QED BY <1>3, <2>1 DEF ReversalInv
<1>5. ASSUME NEW g \in Handlers, ClaimedRb(g)', g # h
      PROVE  ClaimedRb(g) /\ RbKey(g)' = RbKey(g) /\ exec'[RbKey(g)] = "none"
  <2>1. ClaimedRb(g) /\ RbKey(g)' = RbKey(g) /\ exec[RbKey(g)] = "none"
    BY <1>2, <1>5 DEF ClaimedRb, ReversalInv
  <2>2. exec'[RbKey(g)] # "none" => ClaimedRb(h) /\ RbKey(g) = RbKey(h)
    BY <1>0, <1>3, <2>1
  <2>. QED BY <1>5, <2>1, <2>2 DEF ReversalInv
<1>6. ASSUME ClaimedRb(h)'
      PROVE  /\ comp[RbKey(h)] = "available" /\ comp'[RbKey(h)] = "executing"
             /\ RbKey(h)' = RbKey(h) /\ exec'[RbKey(h)] = "none"
  <2>1. RbClaim(h)
    BY <1>6, Entries DEF ClaimedRb
  <2>2. comp[RbKey(h)] = "available" /\ ctx' = ctx
    BY <1>0, <1>6, <2>1 DEF RbClaim, Reply, Goto, ClaimedRb
  <2>3. exec' = exec /\ comp' = [comp EXCEPT ![RbKey(h)] = "executing"]
    BY <2>1, <2>2 DEF RbClaim, CasComp, ledgerVars
  <2>. QED BY <1>0, <2>2, <2>3 DEF RbKey, ReversalInv, Fresh
<1>7. ASSUME NEW g \in Handlers, ClaimedRb(g)'
      PROVE  ~ Fresh(RbKey(g))' /\ exec'[RbKey(g)'] = "none"
  <2>1. CASE g # h
    BY <1>0, <1>1, <1>5, <1>7, <2>1 DEF ReversalInv, Fresh
  <2>2. CASE g = h
    BY <1>6, <1>7, <2>2 DEF Fresh
  <2>. QED BY <2>1, <2>2
<1>8. ASSUME NEW f \in Handlers, NEW g \in Handlers, ClaimedRb(f)', ClaimedRb(g)', RbKey(f)' = RbKey(g)'
      PROVE  f = g
  <2>1. CASE f # h /\ g # h
    BY <1>5, <1>8, <2>1 DEF ReversalInv
  <2>2. ASSUME NEW e \in Handlers, e # h, ClaimedRb(e)', ClaimedRb(h)', RbKey(e)' = RbKey(h)' PROVE FALSE
    <3>1. ~ Fresh(RbKey(e)) /\ RbKey(e) = RbKey(h)
      BY <1>5, <1>6, <2>2 DEF ReversalInv
    <3>. QED BY <1>6, <2>2, <3>1 DEF Fresh
  <2>. QED BY <1>8, <2>1, <2>2
<1>9. ASSUME NEW g \in Handlers, pc'[g] = "rb_use"
      PROVE  effect'[RbKey(g)'] = 1 /\ exec'[RbKey(g)'] = "completed"
  <2>1. CASE g # h
    BY <1>0, <1>1, <1>2, <1>9, <2>1 DEF ReversalInv
  <2>2. CASE g = h
    <3>1. RbReceipt(h)
      BY <1>9, <2>2, Entries
    <3>2. /\ effect[RbKey(h)] = 1 /\ RbKey(h)' = RbKey(h)
          /\ effect' = effect /\ exec' = [exec EXCEPT ![RbKey(h)] = "completed"]
      BY <3>1 DEF RbReceipt, At, LedgerInv, RbKey, effectVars
    <3>. QED BY <1>0, <2>2, <3>2
  <2>. QED BY <2>1, <2>2
<1>10. ASSUME NEW c \in Comps, comp'[c] # "none" PROVE effect'[Primary(c[1])] = 1
  <2>1. CASE comp[c] # "none"
    BY <1>1, <1>10, <2>1, CompKeys DEF ReversalInv, CompensationBacked
  <2>2. CASE comp[c] = "none"
    <3>1. CompInsert(h) /\ c[1] = ctx[h].task
      BY <1>10, <2>2, CompShape
    <3>2. Expected(h) /\ pc[h] = "comp_insert"
      BY <3>1, CompensableIsSideEffect, CompKeys DEF CompInsert, At, ReceiptInv, Expected
    <3>. QED BY <1>1, <3>1, <3>2, CompKeys DEF ReceiptInv
  <2>. QED BY <2>1, <2>2
<1>11. ASSUME NEW c \in Comps, comp'[c] = "used" PROVE effect'[c] = 1 /\ exec'[c] = "completed"
  <2>1. CASE comp[c] = "used"
    BY <1>1, <1>11, <2>1, CompKeys DEF ReversalInv, CompensationBacked
  <2>2. CASE comp[c] # "used"
    <3>1. RbUse(h) /\ c = RbKey(h)
      BY <1>11, <2>2, CompShape
    <3>. QED BY <1>0, <1>1, <3>1 DEF RbUse, At, ReversalInv
  <2>. QED BY <2>1, <2>2
<1>. QED BY <1>4, <1>7, <1>8, <1>9, <1>10, <1>11 DEF ReversalInv, CompensationBacked, ClaimedRb, Fresh, Primary

\* Recovery gives up claims and interrupts calls, it makes none.
LEMMA ReversalNext ==
  ASSUME EngineTypeOK, OnceInv, LedgerInv, ReceiptInv, ReversalInv, EngineTypeOK', OnceInv', LedgerInv',
         EngineMoves
  PROVE  ReversalInv'
<1>1. /\ \A k \in Keys : exec[k] = "completed" => exec'[k] = "completed"
      /\ \A k \in Keys : effect[k] = 1 => effect'[k] = 1
      /\ \A c \in Comps : ~ Fresh(c) => ~ Fresh(c)'
  BY Kept DEF Fresh
<1>2. ASSUME \A k \in Keys : exec[k] = "none" => exec'[k] = "none",
             \A c \in Comps : comp'[c] = comp[c] \/ (comp[c] = "executing" /\ comp'[c] = "execution_unknown"),
             \A h \in Handlers : pc'[h] \in {"rb_ledger", "rb_use"} => pc'[h] = pc[h] /\ ctx'[h] = ctx[h]
      PROVE  ReversalInv'
  <2>1. \A c \in Comps : Fresh(c)' <=> Fresh(c)
    BY <1>2 DEF Fresh
  <2>2. \A h \in Handlers : ClaimedRb(h)' => ClaimedRb(h) /\ RbKey(h)' = RbKey(h)
    BY <1>2 DEF ClaimedRb, RbKey
  <2>3. \A c \in Comps : Fresh(c)' => exec'[c] = "none"
    BY <1>2, <2>1, CompKeys DEF ReversalInv
  <2>4. \A h \in Handlers : ClaimedRb(h)' => ~ Fresh(RbKey(h))' /\ exec'[RbKey(h)'] = "none"
    <3>1. \A h \in Handlers : ClaimedRb(h)' => ~ Fresh(RbKey(h))' 
      BY <2>1, <2>2, CompKeys DEF ReversalInv, Fresh
    <3>. QED BY <1>2, <2>2, <3>1, CompKeys DEF ReversalInv
  <2>5. \A g, h \in Handlers : ClaimedRb(g)' /\ ClaimedRb(h)' /\ RbKey(g)' = RbKey(h)' => g = h
    BY <2>2 DEF ReversalInv
  <2>6. \A h \in Handlers : pc'[h] = "rb_use" => effect'[RbKey(h)'] = 1 /\ exec'[RbKey(h)'] = "completed"
    BY <1>1, <1>2, CompKeys DEF ReversalInv, RbKey
  <2>7. CompensationBacked'
    <3>1. ASSUME NEW c \in Comps, comp'[c] # "none" PROVE effect'[Primary(c[1])] = 1
      BY <1>1, <1>2, <3>1, CompKeys DEF ReversalInv, CompensationBacked
    <3>2. ASSUME NEW c \in Comps, comp'[c] = "used" PROVE effect'[c] = 1 /\ exec'[c] = "completed"
      BY <1>1, <1>2, <3>2, CompKeys DEF ReversalInv, CompensationBacked
    <3>. QED BY <3>1, <3>2 DEF CompensationBacked, Primary
  <2>. QED BY <2>3, <2>4, <2>5, <2>6, <2>7 DEF ReversalInv, ClaimedRb
<1>3. CASE Apart
  BY <1>2, <1>3 DEF Apart
<1>4. ASSUME NEW k \in Keys, LateEffect(k) \/ InterruptExecution(k) PROVE ReversalInv'
  BY <1>2, <1>4 DEF LateEffect, InterruptExecution, ledgerVars, EngineTypeOK
<1>5. ASSUME NEW c \in Comps, InterruptCompensation(c) PROVE ReversalInv'
  <2>1. \A d \in Comps : comp'[d] = comp[d] \/ (comp[d] = "executing" /\ comp'[d] = "execution_unknown")
    BY <1>5 DEF InterruptCompensation, CasComp, EngineTypeOK
  <2>. QED BY <1>2, <1>5, <2>1 DEF InterruptCompensation, ledgerVars
<1>. QED BY <1>3, <1>4, <1>5, ReversalStep DEF EngineMoves

-----------------------------------------------------------------------------
(* The inductive invariant of the engine as a whole.                       *)

EngineInv ==
  /\ EngineTypeOK /\ OnceInv /\ LedgerInv /\ EffectAuthorized
  /\ RecordInv /\ ReceiptInv /\ ReversalInv

\* It holds of an engine that starts.
LEMMA EngineInvInit == EngineInit => EngineInv
<1>1. EngineInit => OnceInv /\ LedgerInv /\ EffectAuthorized
  BY DEF EngineInit, OnceInv, Attempted, Running, Touched, LedgerInv, EffectAuthorized
<1>2. EngineInit => RecordInv /\ ReceiptInv /\ ReversalInv
  BY CallTypes DEF EngineInit, RecordInv, ReceiptInv, ReceiptTruthful, ReversalInv, ClaimedRb, Fresh,
       CompensationBacked, Comps, Keys, CompIds
<1>. QED BY <1>1, <1>2, EngineTypeInit DEF EngineInv

\* It is kept by every step, of whatever system the engine is a part of.
LEMMA EngineInvNext == EngineInv /\ EngineMoves => EngineInv'
<1>1. SUFFICES ASSUME EngineInv, EngineMoves PROVE EngineInv'
  OBVIOUS
<1>2. EngineTypeOK' /\ OnceInv'
  BY <1>1, EngineTypeNext, OnceNext DEF EngineInv
<1>3. LedgerInv' /\ EffectAuthorized'
  BY <1>1, <1>2, LedgerNext, AuthorizedNext DEF EngineInv
<1>4. RecordInv' /\ ReceiptInv' /\ ReversalInv'
  BY <1>1, <1>2, <1>3, RecordNext, ReceiptNext, ReversalNext DEF EngineInv
<1>. QED BY <1>2, <1>3, <1>4 DEF EngineInv

\* In every state of Execution it holds.
LEMMA EngineInvariant == Spec => []EngineInv
<1>1. Init => EngineInv
  BY EngineInvInit DEF Init
<1>2. EngineInv /\ [Next]_vars => EngineInv'
  BY EngineNext, EngineInvNext DEF EngineInv
<1>. QED BY <1>1, <1>2, PTL DEF Spec

\* No effect of a task is ahead of the audit record of its JIT decision.
THEOREM EvidenceComesFirst == Spec => []EvidenceFirst
<1>1. EngineInv => EvidenceFirst
  BY RecordGivesEvidence DEF EngineInv
<1>. QED BY <1>1, EngineInvariant, PTL

\* A receipt with the expected output stands for an effect, also when the
\* receipt is replayed to a later call or written after a lost answer.
THEOREM ReceiptsTellTheTruth == Spec => []ReceiptTruthful
<1>1. EngineInv => ReceiptTruthful
  BY DEF EngineInv, ReceiptInv
<1>. QED BY <1>1, EngineInvariant, PTL

\* The claim of the compensation alone decides between concurrent rollbacks:
\* the conflict branch of the reversal's INSERT is never taken.
THEOREM ReversalsAreFresh == Spec => []FreshReversal
<1>1. EngineInv => FreshReversal
  BY DEF EngineInv, ReversalInv, ClaimedRb, FreshReversal
<1>. QED BY <1>1, EngineInvariant, PTL

\* A compensation exists only for a change that took place, and a used one was
\* itself carried out; the control plane is not needed for it.
THEOREM CompensationsAreBacked == Spec => []CompensationBacked
<1>1. EngineInv => CompensationBacked
  BY DEF EngineInv, ReversalInv
<1>. QED BY <1>1, EngineInvariant, PTL

=============================================================================
