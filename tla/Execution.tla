----------------------------- MODULE Execution ------------------------------
(***************************************************************************)
(* The execution engine of app/agent.py: execute_approved and rollback.    *)
(* Handlers (requests being served, in one or several API processes) run   *)
(* the engine concurrently over four database tables.  One action is one   *)
(* database statement or one tool call; anything can happen between two.   *)
(*                                                                         *)
(*   task[t]      status of the row in tasks ("created": running, and the  *)
(*                workflow_state is still CREATED)                         *)
(*   exec[k]      status of the row in tool_executions with key k          *)
(*   output[k]    its output_json                                          *)
(*   comp[c]      status of the row in compensations with id c             *)
(*   effect[k]    how often the tool call made for key k took effect       *)
(*   inflight     side-effecting calls that raised or timed out in the     *)
(*                caller and may still take effect, or already have not    *)
(*   audit        the <<event, task>> pairs appended to the audit log      *)
(*                (of the events only those a property speaks of)         *)
(*   pc, ctx      the handler's position in the engine and its locals      *)
(***************************************************************************)
EXTENDS Policy

CONSTANTS Tasks,           \* the rows of tasks
          Handlers,        \* requests served at the same time
          Callers,         \* the principals that call
          ToolOf,          \* the tool each task was planned to
          MaxToolRetries,  \* settings.max_tool_retries
          MaxComp          \* bound: compensation rows of one task

ASSUME TasksAssumption == Tasks # {} /\ ToolOf \in [Tasks -> TOOLS]
ASSUME BoundsAssumption == MaxToolRetries \in Nat /\ MaxComp \in Nat \ {0}
ASSUME CallersAssumption ==
  Callers \subseteq [role: Roles, scopes: SUBSET {"read", "operate", "approve:team", "approve:executive"}, mfa: BOOLEAN]
                 /\ Callers # {}

VARIABLES task, exec, output, comp, effect, inflight, audit, pc, ctx
ledgerVars == <<exec, output>>
effectVars == <<effect, inflight>>
evars == <<exec, output, comp, effect, inflight, pc, ctx>>
vars == <<task, exec, output, comp, effect, inflight, audit, pc, ctx>>

CompIds == 1 .. MaxComp
\* _execution_key: phase 0 is "primary", phase i is "rollback-i".
Keys == Tasks \X (0 .. MaxComp)
Comps == Tasks \X CompIds
Primary(t) == <<t, 0>>

SideEffect(t) == ToolOf[t] \in SideEffectTools
COMPENSATION_PAIRS == [change_product_price |-> "change_product_price",
                       issue_refund |-> "void_refund",
                       disable_user_account |-> "enable_user_account"]
Compensable(t) == ToolOf[t] \in DOMAIN COMPENSATION_PAIRS
\* The tools that run in another process, and those that look a row up first.
Isolated == {"get_service_health", "send_notice", "restart_service"}
Lookups == {"change_product_price", "issue_refund"}

\* What execute_tool returns: the expected object, one that says the row was
\* not found, or (from the other process) one without the required keys.
Outputs(t) == {"ok"} \union (IF ToolOf[t] \in Lookups THEN {"absent"} ELSE {})
                     \union (IF ToolOf[t] \in Isolated THEN {"malformed"} ELSE {})

\* Mutant: side effects are retried like reads.
MaxAttemptsAlike(t) == MaxToolRetries + 1

MaxAttempts(t) == IF SideEffect(t) THEN 1 ELSE MaxToolRetries + 1

Tiers == {"none", "team", "executive_mfa"}
NoCall == [task |-> CHOOSE t \in Tasks : TRUE, tier |-> "none",
           by |-> CHOOSE p \in Callers : TRUE, attempt |-> 0, out |-> "none",
           cid |-> 1, reply |-> "none"]

EngineInit ==
  /\ exec = [k \in Keys |-> "none"] /\ output = [k \in Keys |-> "none"]
  /\ comp = [c \in Comps |-> "none"]
  /\ effect = [k \in Keys |-> 0] /\ inflight = {}
  /\ audit = {}
  /\ pc = [h \in Handlers |-> "idle"] /\ ctx = [h \in Handlers |-> NoCall]
Init == EngineInit /\ task = [t \in Tasks |-> "created"]

-----------------------------------------------------------------------------
(* The statements the handlers are built from.                             *)

At(h, l) == pc[h] = l
Goto(h, l) == pc' = [pc EXCEPT ![h] = l]
Key(h) == Primary(ctx[h].task)
RbKey(h) == <<ctx[h].task, ctx[h].cid>>

Drop(h, r) == ctx' = [ctx EXCEPT ![h] = [NoCall EXCEPT !.reply = r]]
Reply(h, r) == Goto(h, "returned") /\ Drop(h, r)
Raise(h) == Goto(h, "raised") /\ Drop(h, "none")
\* checkpoint moves workflow_state only; of its values this model keeps CREATED.
Checkpoint(t) == task' = [task EXCEPT ![t] = IF @ = "created" THEN "running" ELSE @]
\* _finish, whatever the row said before.
Finish(t, status) == task' = [task EXCEPT ![t] = status]
AppendAudit(event, t) == audit' = audit \union {<<event, t>>}

\* Mutant: ON CONFLICT DO UPDATE.
InsertOver(k) == exec' = [exec EXCEPT ![k] = "executing"]

\* INSERT ... ON CONFLICT DO NOTHING RETURNING: the row is new or kept.
Insert(k) == exec' = [exec EXCEPT ![k] = IF @ = "none" THEN "executing" ELSE @]
\* Mutant: the UPDATE names the key only.
SettleAlways(k, s, o) == exec' = [exec EXCEPT ![k] = s] /\ output' = [output EXCEPT ![k] = o]

\* UPDATE tool_executions SET status=s, output_json=o WHERE status='executing'.
Settle(k, s, o) ==
  /\ exec' = [exec EXCEPT ![k] = IF @ = "executing" THEN s ELSE @]
  /\ output' = [output EXCEPT ![k] = IF exec[k] = "executing" THEN o ELSE @]
\* UPDATE compensations SET status=s WHERE id=c AND status=from.
CasComp(c, from, s) == comp' = [comp EXCEPT ![c] = IF @ = from THEN s ELSE @]

-----------------------------------------------------------------------------
(* execute_approved                                                        *)

CallExecute(h, t, tier, p) ==
  /\ At(h, "idle") /\ Goto(h, "lookup")
  /\ ctx' = [ctx EXCEPT ![h] = [NoCall EXCEPT !.task = t, !.tier = tier, !.by = p]]
  /\ UNCHANGED <<task, ledgerVars, comp, effectVars, audit>>

\* A completed receipt is replayed (attempt stays 0), any other existing row is left to recovery.
FromReceipt(h) ==
  /\ ctx' = [ctx EXCEPT ![h].out = IF exec[Key(h)] = "completed" THEN output[Key(h)] ELSE @]
  /\ Goto(h, IF exec[Key(h)] = "completed" THEN "checkpoint_execute" ELSE "finish_recovery")

Lookup(h) ==
  /\ At(h, "lookup")
  /\ IF exec[Key(h)] = "none" THEN Goto(h, "jit") /\ UNCHANGED ctx ELSE FromReceipt(h)
  /\ UNCHANGED <<task, ledgerVars, comp, effectVars, audit>>

\* Mutant: the decision is not audited.
JitPolicyUnaudited(h) ==
  /\ At(h, "jit") /\ Goto(h, "claim")
  /\ Checkpoint(ctx[h].task)
  /\ UNCHANGED <<ledgerVars, comp, effectVars, audit, ctx>>
\* Mutant: that an approval was given is taken for granted, whoever gave it.
JitPolicyTrusting(h) ==
  /\ At(h, "jit")
  /\ \E d \in Answers(ToolOf[ctx[h].task]) :
       Goto(h, IF d.allowed \/ (ctx[h].tier # "none" /\ d.requires_approval) THEN "claim" ELSE "finish_blocked")
  /\ Checkpoint(ctx[h].task)
  /\ AppendAudit("policy.jit_recheck", ctx[h].task)
  /\ UNCHANGED <<ledgerVars, comp, effectVars, ctx>>

\* The just-in-time decision, its checkpoint and its audit record.
JitPolicy(h) ==
  /\ At(h, "jit")
  /\ \E d \in Answers(ToolOf[ctx[h].task]) :
       Goto(h, IF \/ ctx[h].tier = "none" /\ d.allowed
                  \/ /\ ctx[h].tier # "none" /\ d.approval_tier = ctx[h].tier
                     /\ ApprovalAuthorized(d, ctx[h].by)
               THEN "claim" ELSE "finish_blocked")
  /\ Checkpoint(ctx[h].task)
  /\ AppendAudit("policy.jit_recheck", ctx[h].task)
  /\ UNCHANGED <<ledgerVars, comp, effectVars, ctx>>

FinishBlocked(h) ==
  /\ At(h, "finish_blocked")
  /\ Finish(ctx[h].task, "blocked") /\ Reply(h, "blocked")
  /\ UNCHANGED <<ledgerVars, comp, effectVars, audit>>

Claim(h) ==
  /\ At(h, "claim")
  /\ Insert(Key(h))
  /\ IF exec[Key(h)] = "none"
     THEN Goto(h, "execute") /\ ctx' = [ctx EXCEPT ![h].attempt = 1]
     ELSE Goto(h, "reread") /\ UNCHANGED ctx
  /\ UNCHANGED <<task, output, comp, effectVars, audit>>

Reread(h) ==
  /\ At(h, "reread") /\ FromReceipt(h)
  /\ UNCHANGED <<task, ledgerVars, comp, effectVars, audit>>

\* The tool returns; a side effect took place unless the row was not found (of
\* a malformed answer nothing can be said).
RunTool(h) ==
  /\ At(h, "execute")
  /\ \E o \in Outputs(ctx[h].task), e \in (IF SideEffect(ctx[h].task) THEN {0, 1} ELSE {0}) :
       /\ o = "ok" /\ SideEffect(ctx[h].task) => e = 1
       /\ o = "absent" => e = 0
       /\ effect' = [effect EXCEPT ![Key(h)] = @ + e]
       /\ ctx' = [ctx EXCEPT ![h].out = o]
  /\ Goto(h, "receipt")
  /\ UNCHANGED <<task, ledgerVars, comp, inflight, audit>>

\* The tool raises or times out: its request may be lost, done or still on its way.
ToolRaises(h) ==
  /\ At(h, "execute") /\ Goto(h, "tool_raised")
  /\ inflight' = IF SideEffect(ctx[h].task) THEN inflight \union {Key(h)} ELSE inflight
  /\ UNCHANGED <<task, ledgerVars, comp, effect, audit, ctx>>

\* A call nobody waits for any more takes effect.
LateEffect(k) ==
  /\ k \in inflight
  /\ inflight' = inflight \ {k} /\ effect' = [effect EXCEPT ![k] = @ + 1]
  /\ UNCHANGED <<task, ledgerVars, comp, audit, pc, ctx>>

Receipt(h) ==
  /\ At(h, "receipt")
  /\ Settle(Key(h), "completed", ctx[h].out) /\ Goto(h, "checkpoint_execute")
  /\ UNCHANGED <<task, comp, effectVars, audit, ctx>>

\* The receipt's UPDATE raises inside the try, before or after it was applied.
ReceiptRaises(h) ==
  /\ At(h, "receipt") /\ Goto(h, "tool_raised")
  /\ Settle(Key(h), "completed", ctx[h].out) \/ UNCHANGED ledgerVars
  /\ UNCHANGED <<task, comp, effectVars, audit, ctx>>

\* Mutant: one attempt too many.
RetryOnceMore(h) ==
  /\ At(h, "tool_raised") /\ ctx[h].attempt <= MaxAttempts(ctx[h].task)
  /\ Checkpoint(ctx[h].task)
  /\ ctx' = [ctx EXCEPT ![h].attempt = @ + 1] /\ Goto(h, "execute")
  /\ UNCHANGED <<ledgerVars, comp, effectVars, audit>>
\* Mutant: the attempts are not counted.
RetryUncounted(h) ==
  /\ At(h, "tool_raised") /\ ~ SideEffect(ctx[h].task)
  /\ Checkpoint(ctx[h].task) /\ Goto(h, "execute")
  /\ UNCHANGED <<ledgerVars, comp, effectVars, audit, ctx>>

Retry(h) ==
  /\ At(h, "tool_raised") /\ ctx[h].attempt < MaxAttempts(ctx[h].task)
  /\ Checkpoint(ctx[h].task)
  /\ ctx' = [ctx EXCEPT ![h].attempt = @ + 1] /\ Goto(h, "execute")
  /\ UNCHANGED <<ledgerVars, comp, effectVars, audit>>

\* Mutant: a timed out call is taken for done.
GiveUpDone(h) ==
  /\ At(h, "tool_raised") /\ ctx[h].attempt >= MaxAttempts(ctx[h].task)
  /\ Settle(Key(h), "completed", "ok") /\ Goto(h, "checkpoint_execute")
  /\ UNCHANGED <<task, comp, effectVars, audit, ctx>>
\* Mutant: a timed out write is recorded as failed.
GiveUpFailed(h) ==
  /\ At(h, "tool_raised") /\ ctx[h].attempt >= MaxAttempts(ctx[h].task)
  /\ Settle(Key(h), "failed", "none") /\ Checkpoint(ctx[h].task) /\ Goto(h, "finish_failed")
  /\ UNCHANGED <<comp, effectVars, audit, ctx>>
\* Mutant: nothing returns after the except branch.
GiveUpGoesOn(h) ==
  /\ At(h, "tool_raised") /\ ctx[h].attempt >= MaxAttempts(ctx[h].task)
  /\ Settle(Key(h), "execution_unknown", "none") /\ Goto(h, "verify")
  /\ UNCHANGED <<task, comp, effectVars, audit, ctx>>

GiveUp(h) ==
  /\ At(h, "tool_raised") /\ ctx[h].attempt >= MaxAttempts(ctx[h].task)
  /\ IF SideEffect(ctx[h].task)
     THEN /\ Settle(Key(h), "execution_unknown", "none")
          /\ Goto(h, "finish_recovery") /\ UNCHANGED task
     ELSE /\ Settle(Key(h), "failed", "none")
          /\ Checkpoint(ctx[h].task) /\ Goto(h, "finish_failed")
  /\ UNCHANGED <<comp, effectVars, audit, ctx>>

\* Mutant: a compensation is offered whatever the tool returned.
CheckpointExecuteAny(h) ==
  /\ At(h, "checkpoint_execute")
  /\ Checkpoint(ctx[h].task)
  /\ Goto(h, IF Compensable(ctx[h].task) THEN "comp_lookup" ELSE "verify")
  /\ UNCHANGED <<ledgerVars, comp, effectVars, audit, ctx>>

CheckpointExecute(h) ==
  /\ At(h, "checkpoint_execute")
  /\ Checkpoint(ctx[h].task)
  /\ Goto(h, IF Compensable(ctx[h].task) /\ ctx[h].out = "ok" THEN "comp_lookup" ELSE "verify")
  /\ UNCHANGED <<ledgerVars, comp, effectVars, audit, ctx>>

CompLookup(h) ==
  /\ At(h, "comp_lookup")
  /\ Goto(h, IF \E i \in CompIds : comp[<<ctx[h].task, i>>] # "none" THEN "verify" ELSE "comp_insert")
  /\ UNCHANGED <<task, ledgerVars, comp, effectVars, audit, ctx>>

\* Row ids grow; MaxComp is the bound on how many a task can get.
CompInsert(h) ==
  /\ At(h, "comp_insert") /\ Goto(h, "verify")
  /\ \E i \in CompIds :
       /\ \A j \in CompIds : comp[<<ctx[h].task, j>>] = "none" <=> j >= i
       /\ comp' = [comp EXCEPT ![<<ctx[h].task, i>>] = "available"]
  /\ UNCHANGED <<task, ledgerVars, effectVars, audit, ctx>>

Verify(h) ==
  /\ At(h, "verify")
  /\ Checkpoint(ctx[h].task)
  /\ Goto(h, IF ctx[h].out = "malformed" THEN "finish_failed" ELSE "finish_completed")
  /\ UNCHANGED <<ledgerVars, comp, effectVars, audit, ctx>>

FinishCompleted(h) ==
  /\ At(h, "finish_completed") /\ Goto(h, "audit_executed")
  /\ Finish(ctx[h].task, "completed")
  /\ UNCHANGED <<ledgerVars, comp, effectVars, audit, ctx>>

AuditExecuted(h) ==
  /\ At(h, "audit_executed") /\ Reply(h, "completed")
  /\ AppendAudit("tool.executed", ctx[h].task)
  /\ UNCHANGED <<task, ledgerVars, comp, effectVars>>

FinishFailed(h) ==
  /\ At(h, "finish_failed")
  /\ Finish(ctx[h].task, "failed") /\ Reply(h, "failed_safe")
  /\ UNCHANGED <<ledgerVars, comp, effectVars, audit>>

FinishRecovery(h) ==
  /\ At(h, "finish_recovery")
  /\ Finish(ctx[h].task, "recovery_required") /\ Reply(h, "recovery_required")
  /\ UNCHANGED <<ledgerVars, comp, effectVars, audit>>

-----------------------------------------------------------------------------
(* rollback                                                                *)

CallRollback(h, t, p) ==
  /\ At(h, "idle") /\ Goto(h, "rb_read")
  /\ ctx' = [ctx EXCEPT ![h] = [NoCall EXCEPT !.task = t, !.by = p]]
  /\ UNCHANGED <<task, ledgerVars, comp, effectVars, audit>>

RegisteredReversal(t) == Compensable(t) /\ COMPENSATION_PAIRS[ToolOf[t]] \in TOOLS

\* The youngest available compensation, and the policy on its tool if it is one.
RbRead(h) ==
  LET t == ctx[h].task
      available == {i \in CompIds : comp[<<t, i>>] = "available"}
  IN
  /\ At(h, "rb_read")
  /\ \/ available = {} /\ Reply(h, "no_compensation")
     \/ \E i \in available :
          /\ \A j \in available : j <= i
          /\ \/ RegisteredReversal(t) /\ Reply(h, "blocked")
             \/ /\ RegisteredReversal(t) =>
                     \E d \in Answers(COMPENSATION_PAIRS[ToolOf[t]]) : ApprovalAuthorized(d, ctx[h].by)
                /\ Goto(h, "rb_claim") /\ ctx' = [ctx EXCEPT ![h].cid = i]
  /\ UNCHANGED <<task, ledgerVars, comp, effectVars, audit>>

RbClaim(h) ==
  /\ At(h, "rb_claim")
  /\ CasComp(RbKey(h), "available", "executing")
  /\ IF comp[RbKey(h)] = "available" THEN Goto(h, "rb_ledger") /\ UNCHANGED ctx
                                     ELSE Reply(h, "conflict")
  /\ UNCHANGED <<task, ledgerVars, effectVars, audit>>

\* The conflict branch is never taken (FreshReversal), so its UPDATE may be
\* part of the same action.
RbLedger(h) ==
  /\ At(h, "rb_ledger") /\ Insert(RbKey(h))
  /\ IF exec[RbKey(h)] = "none"
     THEN Goto(h, "rb_execute") /\ UNCHANGED <<comp, ctx>>
     ELSE CasComp(RbKey(h), "executing", "execution_unknown") /\ Reply(h, "recovery_required")
  /\ UNCHANGED <<task, output, effectVars, audit>>

\* A compensation without a registered tool is only recorded ("simulated").
RbExecute(h) ==
  /\ At(h, "rb_execute") /\ Goto(h, "rb_receipt")
  /\ effect' = [effect EXCEPT ![RbKey(h)] = @ + 1]
  /\ UNCHANGED <<task, ledgerVars, comp, inflight, audit, ctx>>

RbToolRaises(h) ==
  /\ At(h, "rb_execute") /\ Goto(h, "rb_fail_ledger")
  /\ RegisteredReversal(ctx[h].task)
  /\ inflight' = inflight \union {RbKey(h)}
  /\ UNCHANGED <<task, ledgerVars, comp, effect, audit, ctx>>

\* This UPDATE names the key only: it also overwrites what recovery wrote.
RbReceipt(h) ==
  /\ At(h, "rb_receipt") /\ Goto(h, "rb_use")
  /\ exec' = [exec EXCEPT ![RbKey(h)] = "completed"]
  /\ output' = [output EXCEPT ![RbKey(h)] = "ok"]
  /\ UNCHANGED <<task, comp, effectVars, audit, ctx>>

RbUse(h) ==
  /\ At(h, "rb_use")
  /\ CasComp(RbKey(h), "executing", "used")
  /\ Goto(h, IF comp[RbKey(h)] = "executing" THEN "rb_finish" ELSE "rb_fail_ledger")
  /\ UNCHANGED <<task, ledgerVars, effectVars, audit, ctx>>

RbFailLedger(h) ==
  /\ At(h, "rb_fail_ledger") /\ Goto(h, "rb_fail_comp")
  /\ Settle(RbKey(h), "execution_unknown", "none")
  /\ UNCHANGED <<task, comp, effectVars, audit, ctx>>

RbFailComp(h) ==
  /\ At(h, "rb_fail_comp") /\ Goto(h, "rb_fail_task")
  /\ CasComp(RbKey(h), "executing", "execution_unknown")
  /\ UNCHANGED <<task, ledgerVars, effectVars, audit, ctx>>

RbFailTask(h) ==
  /\ At(h, "rb_fail_task") /\ Raise(h)
  /\ Finish(ctx[h].task, "recovery_required")
  /\ UNCHANGED <<ledgerVars, comp, effectVars, audit>>

RbFinish(h) ==
  /\ At(h, "rb_finish") /\ Goto(h, "rb_audit")
  /\ Finish(ctx[h].task, "rolled_back")
  /\ UNCHANGED <<ledgerVars, comp, effectVars, audit, ctx>>

RbAudit(h) ==
  /\ At(h, "rb_audit") /\ Reply(h, "rolled_back")
  /\ AppendAudit("workflow.rollback", ctx[h].task)
  /\ UNCHANGED <<task, ledgerVars, comp, effectVars>>

-----------------------------------------------------------------------------
(* Failures, and what the other processes do.                              *)

InTry == {"rb_receipt", "rb_use"}
Statements == {"lookup", "jit", "finish_blocked", "claim", "reread", "tool_raised",
  "checkpoint_execute", "comp_lookup", "comp_insert", "verify", "finish_completed",
  "audit_executed", "finish_failed", "finish_recovery", "rb_read", "rb_claim", "rb_ledger",
  "rb_execute", "rb_fail_ledger", "rb_fail_comp", "rb_fail_task", "rb_finish", "rb_audit"}

\* The statement at hand raises (the pool, the connection, the audit writer):
\* out of the engine, except in rollback's try.  At a first "execute" it is the
\* answer to the claim that was lost, at "rb_execute" that to the insert.
DbError(h) ==
  /\ \/ pc[h] \in Statements /\ Raise(h)
     \/ At(h, "execute") /\ ctx[h].attempt = 1 /\ Raise(h)
     \/ pc[h] \in InTry /\ Goto(h, "rb_fail_ledger") /\ UNCHANGED ctx
  /\ UNCHANGED <<task, ledgerVars, comp, effectVars, audit>>

\* The caller takes the answer; or the process dies.
Leave(h) ==
  /\ Goto(h, "idle") /\ ctx' = [ctx EXCEPT ![h] = NoCall]
  /\ UNCHANGED <<task, ledgerVars, comp, effectVars, audit>>
Return(h) == pc[h] \in {"returned", "raised"} /\ Leave(h)
Vanish(h) == pc[h] \notin {"idle", "returned", "raised"} /\ Leave(h)

\* reconcile_stale_state, in a process that starts: a row that is executing is
\* taken for interrupted, whether or not a handler elsewhere is still at it.
InterruptExecution(k) ==
  /\ exec' = [exec EXCEPT ![k] = IF @ = "executing" THEN "execution_unknown" ELSE @]
  /\ UNCHANGED <<task, output, comp, effectVars, audit, pc, ctx>>
InterruptCompensation(c) ==
  /\ CasComp(c, "executing", "execution_unknown")
  /\ UNCHANGED <<task, ledgerVars, effectVars, audit, pc, ctx>>
MarkRecovery(t) ==
  /\ Finish(t, "recovery_required")
  /\ UNCHANGED <<ledgerVars, comp, effectVars, audit, pc, ctx>>

ExecuteStep(h) ==
  \/ Lookup(h) \/ JitPolicy(h) \/ FinishBlocked(h) \/ Claim(h) \/ Reread(h)
  \/ RunTool(h) \/ ToolRaises(h) \/ Receipt(h) \/ ReceiptRaises(h)
  \/ Retry(h) \/ GiveUp(h) \/ CheckpointExecute(h)
  \/ CompLookup(h) \/ CompInsert(h) \/ Verify(h) \/ FinishCompleted(h)
  \/ AuditExecuted(h) \/ FinishFailed(h) \/ FinishRecovery(h)
RollbackStep(h) ==
  \/ RbRead(h) \/ RbClaim(h) \/ RbLedger(h) \/ RbExecute(h) \/ RbToolRaises(h)
  \/ RbReceipt(h) \/ RbUse(h) \/ RbFailLedger(h) \/ RbFailComp(h) \/ RbFailTask(h)
  \/ RbFinish(h) \/ RbAudit(h)
EngineStep(h) == ExecuteStep(h) \/ RollbackStep(h)
Call(h) == \E t \in Tasks, p \in Callers :
  CallRollback(h, t, p) \/ \E tier \in Tiers : CallExecute(h, t, tier, p)

Next ==
  \/ \E h \in Handlers : EngineStep(h) \/ Call(h) \/ DbError(h) \/ Return(h) \/ Vanish(h)
  \/ \E k \in Keys : LateEffect(k) \/ InterruptExecution(k)
  \/ \E c \in Comps : InterruptCompensation(c)
  \/ \E t \in Tasks : MarkRecovery(t)

Spec == Init /\ [][Next]_vars

-----------------------------------------------------------------------------
(* Properties                                                              *)

ExecStatus == {"none", "executing", "completed", "failed", "execution_unknown"}
CompStatus == {"none", "available", "executing", "used", "execution_unknown"}
Results == {"none", "ok", "absent", "malformed"}
TaskStatus == {"created", "running", "completed", "failed", "blocked", "rolled_back", "recovery_required"}
Positions == Statements \union InTry \union {"idle", "execute", "receipt", "returned", "raised"}
Replies == {"none", "completed", "failed_safe", "blocked", "recovery_required",
            "no_compensation", "conflict", "rolled_back"}
Calls == [task: Tasks, tier: Tiers, by: Callers, attempt: 0 .. MaxToolRetries + 1,
          out: Results, cid: CompIds, reply: Replies]
Events == {"policy.jit_recheck", "tool.executed", "workflow.rollback"}

EngineTypeOK ==
  /\ exec \in [Keys -> ExecStatus] /\ output \in [Keys -> Results]
  /\ comp \in [Comps -> CompStatus]
  /\ effect \in [Keys -> Nat] /\ inflight \subseteq Keys
  /\ pc \in [Handlers -> Positions] /\ ctx \in [Handlers -> Calls]
\* Every variable holds a value of its kind.
TypeOK == EngineTypeOK /\ task \in [Tasks -> TaskStatus] /\ audit \subseteq Events \X Tasks

\* Whatever is retried, replayed, interrupted or answered late, in how many
\* handlers and processes: a tool call or a reversal takes effect at most once
\* per execution key.
SideEffectOnce == \A k \in Keys : effect[k] <= 1

\* Why SideEffectOnce holds: the handler that is about to make the call of key
\* k is alone, has the row of k in the ledger, and the call has not been made;
\* and an unclaimed key is untouched.
Touched(k) == effect[k] > 0 \/ k \in inflight
Running(h, k) ==
  \/ pc[h] = "execute" /\ SideEffect(ctx[h].task) /\ k = Key(h)
  \/ pc[h] = "rb_execute" /\ k = RbKey(h)
Attempted(h) == pc[h] \in {"execute", "receipt", "tool_raised"} => ctx[h].attempt > 0
OnceInv ==
  /\ \A h \in Handlers : Attempted(h)
  /\ \A k \in Keys : exec[k] = "none" => ~ Touched(k)
  /\ \A h \in Handlers, k \in Keys : Running(h, k) => exec[k] # "none" /\ ~ Touched(k)
  /\ \A g, h \in Handlers, k \in Keys : Running(g, k) /\ Running(h, k) => g = h
  /\ \A k \in Keys : effect[k] <= 1 /\ (k \in inflight => effect[k] = 0)

\* A key recorded "failed" had no effect and will have none: an attempt whose
\* outcome is uncertain is recorded execution_unknown.
FailedMeansNoEffect ==
  \A k \in Keys : exec[k] = "failed" => effect[k] = 0 /\ k \notin inflight

\* A receipt with the expected output stands for an effect that took place
\* (a read has none).
ReceiptTruthful ==
  \A t \in Tasks : exec[Primary(t)] = "completed" /\ output[Primary(t)] = "ok" /\ SideEffect(t)
                     => effect[Primary(t)] = 1

\* A compensation exists only for a change that took place, and a used one was
\* itself carried out.
CompensationBacked ==
  \A c \in Comps :
    /\ comp[c] # "none" => effect[Primary(c[1])] = 1
    /\ comp[c] = "used" => effect[c] = 1 /\ exec[c] = "completed"

\* The handler that claimed a compensation finds no ledger row of its reversal:
\* the claim alone decides between concurrent rollbacks.
FreshReversal == \A h \in Handlers : pc[h] = "rb_ledger" => exec[RbKey(h)] = "none"

\* No effect of a task is ahead of the audit record of its JIT decision.
EvidenceFirst ==
  \A t \in Tasks : effect[Primary(t)] > 0 \/ Primary(t) \in inflight
                     => <<"policy.jit_recheck", t>> \in audit

\* Between the JIT decision and the receipt of a side effect, the handler was
\* called for an approval tier its caller is entitled to.
Entitled(p, tier) == ApprovalAuthorized(NeedsApproval(tier), p)
EffectAuthorized ==
  \A h \in Handlers :
    pc[h] \in {"claim", "execute", "receipt"} /\ SideEffect(ctx[h].task)
      => Entitled(ctx[h].by, ctx[h].tier)

\* The receipt of a primary execution is never withdrawn or replaced, so a
\* replay returns what the tool returned.
ReceiptStable ==
  [][\A t \in Tasks : exec[Primary(t)] = "completed" =>
       exec'[Primary(t)] = "completed" /\ output'[Primary(t)] = output[Primary(t)]]_vars

\* An uncertain outcome is never quietly turned into a failure, or forgotten.
UnknownStays ==
  [][\A t \in Tasks : exec[Primary(t)] = "execution_unknown" => exec'[Primary(t)] = "execution_unknown"]_vars

\* What the ledger has once said of a primary execution stands, whoever retries,
\* answers late or recovers.
VerdictsStand == ReceiptStable /\ UnknownStays

\* execute_approved and rollback implement the ledger of at-most-once calls.
Ledger == INSTANCE ToolLedger WITH K <- Keys, verdict <- exec, times <- effect,
  Silent <- {k \in Keys : k[2] = 0 /\ ~ SideEffect(k[1])}
LedgerSpec == Ledger!Spec
=============================================================================
