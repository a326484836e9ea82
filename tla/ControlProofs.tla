----------------------------- MODULE ControlProofs -----------------------------
(***************************************************************************)
(* Proofs about ControlPlane for every number of tasks, handlers, callers, *)
(* processes and faults.  The engine's invariant carries over, because to  *)
(* the engine every step of the control plane is one of EngineMoves; the   *)
(* invariants of the control plane relate the request a handler serves to  *)
(* its call, the task, the approval and the recovery scan.                 *)
(***************************************************************************)
EXTENDS ControlPlane, LedgerProofs

-----------------------------------------------------------------------------
(* The steps of the control plane.                                         *)

\* The statements of a request outside the engine, and its arrival.
Talks(h) ==
  \/ GuardAndPlan(h) \/ DecidePolicy(h) \/ InsertApproval(h) \/ FinishPending(h) \/ PolicyBlocked(h)
  \/ ClaimApproval(h) \/ AuditClaim(h) \/ DenyTask(h) \/ Arrive(h)
\* Out of the engine.
Leaves(h) == SettleApproval(h) \/ LeaveEngine(h) \/ RequestFault(h)
AnyAge == \E i \in 1 .. 4 : \E r \in RowsOf[Tables[i]] : Age(Tables[i], r)

\* What a step can be.
LEMMA CNextSplit ==
  CNext <=> \/ \E h \in Handlers : \/ Talks(h) \/ Leaves(h) \/ EnterEngine(h) \/ EngineFault(h)
                                   \/ EngineStep(h) /\ UNCHANGED httpVars
            \/ \E k \in Keys : LateEffect(k) /\ UNCHANGED httpVars
            \/ \E w \in Workers : Crash(w) \/ ScanStep(w)
            \/ AnyAge
BY DEF CNext, RequestStep, Talks, Leaves, AnyAge

\* The four tables of the scan and their rows.
LEMMA Rows ==
  /\ Tables[1] = "approvals" /\ Tables[2] = "executions"
  /\ Tables[3] = "compensations" /\ Tables[4] = "orphans"
  /\ RowsOf["approvals"] = Tasks /\ RowsOf["executions"] = Keys
  /\ RowsOf["compensations"] = Comps /\ RowsOf["orphans"] = Tasks
  /\ DOMAIN RowsOf = {"approvals", "executions", "compensations", "orphans"}
  /\ \A i \in 1 .. 4 : Tables[i] \in DOMAIN RowsOf
  /\ Comps \subseteq Keys
BY DEF Tables, RowsOf, Comps, Keys, CompIds

\* The rows a scan selects are rows of its table, and old.
LEMMA StaleRows ==
  ASSUME NEW table \in DOMAIN RowsOf
  PROVE  /\ Stale(table) \subseteq RowsOf[table] /\ Stale(table) \subseteq Tasks \union Keys
         /\ \A r \in Stale(table) : <<table, r>> \in aged
BY Rows DEF Stale

\* A row belongs to a task.
LEMMA RowTask ==
  ASSUME NEW table \in DOMAIN RowsOf, NEW r \in RowsOf[table]
  PROVE  TaskOf(table, r) \in Tasks
BY Rows DEF TaskOf, Keys, Comps

\* To the engine, the arrival of a request and its statements are stutters.
LEMMA TalksApart ==
  ASSUME EngineTypeOK, NEW h \in Handlers, Talks(h)
  PROVE  UNCHANGED evars /\ audit \subseteq audit'
BY DEF Talks, Arrive, Create, Approve, Deny, RequestRollback, GuardAndPlan, DecidePolicy, InsertApproval,
     FinishPending, PolicyBlocked, ClaimApproval, AuditClaim, DenyTask, AppendAudit, vars, evars

\* A step of the scan settles a row of the ledger or of the compensations, or
\* leaves the engine alone.
LEMMA ScanSteps ==
  ASSUME CTypeOK, NEW w \in Workers, ScanStep(w)
  PROVE  \/ UNCHANGED evars /\ audit' = audit
         \/ \E k \in Keys : InterruptExecution(k)
         \/ \E c \in Comps : InterruptCompensation(c)
<1>1. CASE Start(w) \/ ScanNext(w) \/ ScanTask(w)
  BY <1>1 DEF Start, ScanNext, ScanTask, MarkRecovery, ledgerVars, effectVars, vars, evars
<1>2. ASSUME NEW r \in scan[w].todo, ScanRow(w, r)
      PROVE  \/ UNCHANGED evars /\ audit' = audit
             \/ \E k \in Keys : InterruptExecution(k)
             \/ \E c \in Comps : InterruptCompensation(c)
  <2>1. CASE scan[w].at \in {"approvals", "orphans"}
    BY <1>2, <2>1 DEF ScanRow, vars, evars
  <2>2. CASE scan[w].at = "executions"
    <3>1. r \in Keys
      BY <2>2, Rows DEF CTypeOK
    <3>. QED BY <1>2, <2>2, <3>1 DEF ScanRow
  <2>3. CASE scan[w].at = "compensations"
    <3>1. r \in Comps
      BY <2>3, Rows DEF CTypeOK
    <3>. QED BY <1>2, <2>3, <3>1 DEF ScanRow
  <2>. QED BY <1>2, <2>1, <2>2, <2>3 DEF ScanRow
<1>. QED BY <1>1, <1>2 DEF ScanStep

\* A handler leaves the engine by Return.
LEMMA LeavesApart ==
  ASSUME EngineTypeOK, NEW h \in Handlers, Leaves(h)
  PROVE  Apart
<1>1. CASE Return(h)
  BY <1>1, OutsideApart DEF Outside
<1>2. CASE UNCHANGED vars
  BY <1>2, StillApart DEF vars, evars
<1>. QED BY <1>1, <1>2 DEF Leaves, SettleApproval, LeaveEngine, RequestFault

\* A crash takes the handlers of a process out of the engine.
LEMMA CrashApart ==
  ASSUME CTypeOK, NEW w \in Workers, Crash(w)
  PROVE  Apart
<1>1. pc' \in [Handlers -> Positions] /\ ctx' \in [Handlers -> Calls]
  BY CallTypes DEF Crash, CTypeOK, EngineTypeOK, Positions
<1>2. \A h \in Handlers : (pc'[h] = pc[h] /\ ctx'[h] = ctx[h]) \/ pc'[h] = "idle"
  BY DEF Crash
<1>. QED BY <1>1, <1>2 DEF Crash, Apart, ledgerVars, effectVars

\* Every step of the control plane is one of EngineMoves.
LEMMA ControlMoves ==
  ASSUME CTypeOK, [CNext]_allVars
  PROVE  EngineMoves
<1>0. EngineTypeOK
  BY DEF CTypeOK
<1>1. ASSUME NEW h \in Handlers, EnterEngine(h) PROVE Apart
  <2>1. req[h].task \in Tasks /\ req[h].tier \in Tiers /\ req[h].by \in Callers
    BY DEF CTypeOK
  <2>2. Call(h)
    BY <1>1, <2>1 DEF EnterEngine, Call
  <2>. QED BY <1>0, <2>2, OutsideApart DEF Outside
<1>2. ASSUME NEW h \in Handlers, EngineFault(h) PROVE Apart
  BY <1>0, <1>2, OutsideApart DEF EngineFault, Outside
<1>3. ASSUME NEW h \in Handlers, Talks(h) PROVE Apart
  BY <1>0, <1>3, TalksApart, StillApart
<1>4. ASSUME AnyAge PROVE Apart
  <2>1. UNCHANGED evars /\ audit' = audit
    BY <1>4 DEF AnyAge, Age, vars, evars
  <2>. QED BY <1>0, <2>1, StillApart
<1>5. ASSUME NEW w \in Workers, ScanStep(w) PROVE EngineMoves
  BY <1>0, <1>5, ScanSteps, StillApart DEF EngineMoves
<1>6. CASE UNCHANGED allVars
  BY <1>0, <1>6, StillApart DEF allVars, vars, evars, EngineMoves
<1>. QED
  BY <1>0, <1>1, <1>2, <1>3, <1>4, <1>5, <1>6, CNextSplit, LeavesApart, CrashApart DEF EngineMoves

-----------------------------------------------------------------------------
(* Type correctness.                                                       *)

\* How a step of the engine sets the status of a task.
LEMMA EngineTask ==
  ASSUME NEW h \in Handlers, EngineStep(h)
  PROVE  \/ task' = task \/ Checkpoint(ctx[h].task) \/ FinishCompleted(h)
         \/ \E s \in TaskStatus \ {"created", "completed"} : Finish(ctx[h].task, s)
BY DEF EngineStep, ExecuteStep, RollbackStep, TaskStatus, Lookup, JitPolicy, FinishBlocked, Claim, Reread,
     RunTool, ToolRaises, Receipt, ReceiptRaises, Retry, GiveUp, CheckpointExecute, CompLookup, CompInsert,
     Verify, AuditExecuted, FinishFailed, FinishRecovery, RbRead, RbClaim, RbLedger,
     RbExecute, RbToolRaises, RbReceipt, RbUse, RbFailLedger, RbFailComp, RbFailTask, RbFinish, RbAudit

\* What a step does to the row of a task.
LEMMA TaskShape ==
  ASSUME CTypeOK, [CNext]_allVars
  PROVE  /\ task' \in [Tasks -> TaskStatus \union {"none", "pending_approval"}]
         /\ \A t \in Tasks : task[t] # "none" => task'[t] # "none"
         /\ \A t \in Tasks : task'[t] = "completed" /\ task[t] # "completed"
              => \E h \in Handlers : FinishCompleted(h) /\ t = ctx[h].task
<1>. DEFINE Kinds == TaskStatus \union {"none", "pending_approval"}
            Good == /\ task' \in [Tasks -> Kinds]
                    /\ \A t \in Tasks : task[t] # "none" => task'[t] # "none"
                    /\ \A t \in Tasks : task'[t] = "completed" => task[t] = "completed"
<1>0. /\ task \in [Tasks -> Kinds]
      /\ \A h \in Handlers : ctx[h].task \in Tasks /\ req[h].task \in Tasks
  BY DEF CTypeOK, EngineTypeOK, Calls
<1>1. ASSUME NEW t \in Tasks, Checkpoint(t) PROVE Good
  BY <1>0, <1>1 DEF Checkpoint, TaskStatus
<1>2. ASSUME NEW t \in Tasks, NEW s \in (TaskStatus \union {"pending_approval"}) \ {"completed"}, Finish(t, s) PROVE Good
  BY <1>0, <1>2 DEF Finish, TaskStatus
<1>3. ASSUME task' = task PROVE Good
  BY <1>0, <1>3
<1>4. ASSUME NEW h \in Handlers, EngineStep(h), ~ FinishCompleted(h) PROVE Good
  BY <1>0, <1>1, <1>2, <1>3, <1>4, EngineTask
<1>5. ASSUME NEW h \in Handlers, FinishCompleted(h)
      PROVE  /\ task' \in [Tasks -> Kinds]
             /\ \A t \in Tasks : task[t] # "none" => task'[t] # "none"
             /\ \A t \in Tasks : task'[t] = "completed" /\ task[t] # "completed" => t = ctx[h].task
  BY <1>0, <1>5 DEF FinishCompleted, Finish, TaskStatus
<1>6. ASSUME NEW h \in Handlers, Talks(h) PROVE Good
  <2>1. CASE GuardAndPlan(h) \/ DecidePolicy(h)
    BY <1>0, <1>1, <2>1 DEF GuardAndPlan, DecidePolicy
  <2>2. CASE FinishPending(h) \/ PolicyBlocked(h) \/ DenyTask(h)
    BY <1>0, <1>2, <2>2 DEF FinishPending, PolicyBlocked, DenyTask, TaskStatus
  <2>3. CASE InsertApproval(h) \/ ClaimApproval(h) \/ AuditClaim(h)
    BY <1>3, <2>3 DEF InsertApproval, ClaimApproval, AuditClaim, vars
  <2>4. ASSUME NEW t \in Tasks, NEW p \in Callers,
               Create(h, t, p) \/ Approve(h, t, p) \/ Deny(h, t, p) \/ RequestRollback(h, t, p)
        PROVE  Good
    <3>1. CASE Create(h, t, p)
      BY <1>2, <3>1 DEF Create, Finish, TaskStatus
    <3>. QED BY <1>3, <2>4, <3>1 DEF Approve, Deny, RequestRollback, vars
  <2>. QED BY <1>6, <2>1, <2>2, <2>3, <2>4 DEF Talks, Arrive
<1>7. ASSUME NEW h \in Handlers, Leaves(h) \/ EnterEngine(h) \/ EngineFault(h) PROVE task' = task
  BY <1>7 DEF Leaves, SettleApproval, LeaveEngine, RequestFault, EnterEngine, EngineFault, CallExecute,
       CallRollback, DbError, Return, Leave, vars
<1>8. ASSUME NEW w \in Workers, ScanStep(w) PROVE Good
  <2>1. CASE Start(w) \/ ScanNext(w)
    BY <1>3, <2>1 DEF Start, ScanNext, vars
  <2>2. CASE ScanTask(w)
    <3>1. scan[w].due \in Tasks
      BY <2>2 DEF ScanTask, CTypeOK
    <3>. QED BY <1>2, <2>2, <3>1 DEF ScanTask, MarkRecovery, TaskStatus
  <2>3. ASSUME NEW r \in scan[w].todo, ScanRow(w, r) PROVE Good
    <3>1. \/ task' = task
          \/ /\ scan[w].at = "orphans"
             /\ task' = [task EXCEPT ![r] = IF @ \in {"created", "running"} THEN "recovery_required" ELSE @]
      BY <2>3 DEF ScanRow, InterruptExecution, InterruptCompensation, vars
    <3>2. CASE scan[w].at = "orphans"
      <4>1. r \in Tasks
        BY <3>2, Rows DEF CTypeOK
      <4>. QED BY <1>0, <3>1, <4>1 DEF TaskStatus
    <3>. QED BY <1>3, <3>1, <3>2
  <2>. QED BY <1>8, <2>1, <2>2, <2>3 DEF ScanStep
<1>9. ASSUME AnyAge \/ (\E w \in Workers : Crash(w)) \/ (\E k \in Keys : LateEffect(k)) \/ UNCHANGED allVars
      PROVE  task' = task
  BY <1>9 DEF AnyAge, Age, Crash, LateEffect, allVars, vars
<1>10. ASSUME NEW h \in Handlers, EngineStep(h)
       PROVE  /\ task' \in [Tasks -> Kinds]
              /\ \A t \in Tasks : task[t] # "none" => task'[t] # "none"
              /\ \A t \in Tasks : task'[t] = "completed" /\ task[t] # "completed"
                   => \E g \in Handlers : FinishCompleted(g) /\ t = ctx[g].task
  BY <1>4, <1>5, <1>10
<1>11. \/ Good
       \/ \E h \in Handlers : EngineStep(h)
  BY <1>3, <1>6, <1>7, <1>8, <1>9, CNextSplit
<1>. QED BY <1>10, <1>11

\* Only events of the engine and the claim of an approval are recorded.
LEMMA AuditTypes ==
  ASSUME CTypeOK, [CNext]_allVars
  PROVE  audit' \subseteq (Events \union {"approval.claimed"}) \X Tasks
<1>0. /\ audit \subseteq (Events \union {"approval.claimed"}) \X Tasks
      /\ \A h \in Handlers : ctx[h].task \in Tasks /\ req[h].task \in Tasks
  BY DEF CTypeOK, EngineTypeOK, Calls
<1>1. ASSUME NEW h \in Handlers, EngineStep(h)
      PROVE  audit' = audit \/ \E e \in Events : AppendAudit(e, ctx[h].task)
  BY <1>1 DEF EngineStep, ExecuteStep, RollbackStep, Events, Lookup, JitPolicy, FinishBlocked, Claim, Reread,
       RunTool, ToolRaises, Receipt, ReceiptRaises, Retry, GiveUp, CheckpointExecute, CompLookup, CompInsert,
       Verify, FinishCompleted, AuditExecuted, FinishFailed, FinishRecovery, RbRead, RbClaim, RbLedger,
       RbExecute, RbToolRaises, RbReceipt, RbUse, RbFailLedger, RbFailComp, RbFailTask, RbFinish, RbAudit
<1>2. ASSUME NEW h \in Handlers, Talks(h)
      PROVE  audit' = audit \/ AppendAudit("approval.claimed", req[h].task)
  BY <1>2 DEF Talks, Arrive, Create, Approve, Deny, RequestRollback, GuardAndPlan, DecidePolicy,
       InsertApproval, FinishPending, PolicyBlocked, ClaimApproval, AuditClaim, DenyTask, vars
<1>3. ASSUME NEW h \in Handlers, Leaves(h) \/ EnterEngine(h) \/ EngineFault(h) PROVE audit' = audit
  BY <1>3 DEF Leaves, SettleApproval, LeaveEngine, RequestFault, EnterEngine, EngineFault, CallExecute,
       CallRollback, DbError, Return, Leave, vars
<1>4. ASSUME NEW w \in Workers, ScanStep(w) PROVE audit' = audit
  BY <1>4, ScanSteps DEF InterruptExecution, InterruptCompensation
<1>5. ASSUME AnyAge \/ (\E w \in Workers : Crash(w)) \/ (\E k \in Keys : LateEffect(k)) \/ UNCHANGED allVars
      PROVE  audit' = audit
  BY <1>5 DEF AnyAge, Age, Crash, LateEffect, allVars, vars
<1>6. \/ audit' = audit
      \/ \E h \in Handlers : \/ \E e \in Events : AppendAudit(e, ctx[h].task)
                             \/ AppendAudit("approval.claimed", req[h].task)
  BY <1>1, <1>2, <1>3, <1>4, <1>5, CNextSplit
<1>. QED BY <1>0, <1>6 DEF AppendAudit

RequestSet == [at: RequestPositions, task: Tasks, tier: Tiers, by: Callers]
ApprovalSet == [status: ApprovalStatus, tier: Tiers, by: Callers]
ScanSet == [at: {"down", "up"} \union DOMAIN RowsOf, todo: SUBSET (Tasks \union Keys), due: Tasks \union {NoTask}]

\* Requests and approvals keep their types when a field is set.
LEMMA RecordUpdates ==
  /\ NoRequest \in RequestSet /\ NoApproval \in ApprovalSet
  /\ \A r \in RequestSet, l \in RequestPositions : [r EXCEPT !.at = l] \in RequestSet
  /\ \A r \in RequestSet, l \in RequestPositions, x \in Tiers : [r EXCEPT !.tier = x, !.at = l] \in RequestSet
  /\ \A a \in ApprovalSet, s \in ApprovalStatus : [a EXCEPT !.status = s] \in ApprovalSet
  /\ \A a \in ApprovalSet, s \in ApprovalStatus, p \in Callers : [a EXCEPT !.status = s, !.by = p] \in ApprovalSet
  /\ \A x \in Tiers : [NoApproval EXCEPT !.status = "pending", !.tier = x] \in ApprovalSet
BY CallTypes DEF NoRequest, NoApproval, RequestSet, ApprovalSet, RequestPositions, ApprovalStatus, Tiers, Calls

\* The engine's answer names a tier.
LEMMA AnswerTiers ==
  ASSUME NEW a, NEW d \in Answers(a)
  PROVE  d.approval_tier \in Tiers
BY DEF Answers, Refuse, NeedsApproval, Permit, Decision, Tiers

\* Every step keeps the requests typed.
LEMMA RequestTypes ==
  ASSUME CTypeOK, [CNext]_allVars
  PROVE  req' \in [Handlers -> RequestSet]
<1>0. /\ req \in [Handlers -> RequestSet] /\ approval \in [Tasks -> ApprovalSet]
      /\ {"guard", "policy", "insert_approval", "run_engine", "policy_blocked", "finish_pending", "claim_approval",
          "audit_claim", "approve_engine", "rollback_engine", "deny_task"} \subseteq RequestPositions
      /\ "none" \in Tiers
  BY DEF CTypeOK, RequestSet, ApprovalSet, RequestPositions, InEngine, Tiers
<1>1. ASSUME NEW h \in Handlers, NEW l \in RequestPositions, Step(h, l) PROVE req' \in [Handlers -> RequestSet]
  <2>1. [req[h] EXCEPT !.at = l] \in RequestSet
    BY <1>0, RecordUpdates
  <2>. QED BY <1>0, <1>1, <2>1 DEF Step
<1>2. ASSUME NEW h \in Handlers, End(h) PROVE req' \in [Handlers -> RequestSet]
  BY <1>0, <1>2, RecordUpdates DEF End
<1>3. ASSUME NEW h \in Handlers, NEW l \in RequestPositions, NEW t \in Tasks, NEW x \in Tiers, NEW p \in Callers,
             Serve(h, l, t, x, p)
      PROVE  req' \in [Handlers -> RequestSet]
  <2>1. [at |-> l, task |-> t, tier |-> x, by |-> p] \in RequestSet
    BY DEF RequestSet
  <2>. QED BY <1>0, <1>3, <2>1 DEF Serve
<1>4. ASSUME NEW h \in Handlers, Talks(h) PROVE req' \in [Handlers -> RequestSet]
  <2>1. CASE GuardAndPlan(h) \/ InsertApproval(h) \/ AuditClaim(h)
    BY <1>0, <1>1, <2>1 DEF GuardAndPlan, InsertApproval, AuditClaim
  <2>2. CASE DecidePolicy(h)
    <3>1. PICK d \in Answers(ToolOf[req[h].task]) :
            req' = [req EXCEPT ![h].tier = d.approval_tier,
                      ![h].at = IF d.requires_approval THEN "insert_approval"
                                ELSE IF d.allowed THEN "run_engine" ELSE "policy_blocked"]
      BY <2>2 DEF DecidePolicy
    <3>2. PICK l \in RequestPositions :
            l = IF d.requires_approval THEN "insert_approval"
                ELSE IF d.allowed THEN "run_engine" ELSE "policy_blocked"
      BY <1>0
    <3>3. [req[h] EXCEPT !.tier = d.approval_tier, !.at = l] \in RequestSet
      BY <1>0, AnswerTiers, RecordUpdates
    <3>4. req' = [req EXCEPT ![h] = [req[h] EXCEPT !.tier = d.approval_tier, !.at = l]]
      BY <1>0, <3>1, <3>2
    <3>. QED BY <1>0, <3>3, <3>4
  <2>3. CASE FinishPending(h) \/ PolicyBlocked(h) \/ DenyTask(h)
    BY <1>2, <2>3 DEF FinishPending, PolicyBlocked, DenyTask
  <2>4. CASE ClaimApproval(h)
    BY <1>0, <1>1, <1>2, <2>4 DEF ClaimApproval
  <2>5. ASSUME NEW t \in Tasks, NEW p \in Callers,
               Create(h, t, p) \/ Approve(h, t, p) \/ Deny(h, t, p) \/ RequestRollback(h, t, p)
        PROVE  req' \in [Handlers -> RequestSet]
    <3>1. approval[t].tier \in Tiers
      BY <1>0 DEF ApprovalSet
    <3>. QED BY <1>0, <1>3, <2>5, <3>1 DEF Create, Approve, Deny, RequestRollback
  <2>. QED BY <1>4, <2>1, <2>2, <2>3, <2>4, <2>5 DEF Talks, Arrive
<1>5. ASSUME NEW h \in Handlers, Leaves(h) PROVE req' \in [Handlers -> RequestSet]
  BY <1>2, <1>5 DEF Leaves, SettleApproval, LeaveEngine, RequestFault
<1>6. ASSUME NEW w \in Workers, Crash(w) PROVE req' \in [Handlers -> RequestSet]
  BY <1>0, <1>6, RecordUpdates DEF Crash
<1>7. ASSUME NEW w \in Workers, ScanStep(w) PROVE req' = req
  BY <1>7 DEF ScanStep, Start, ScanNext, ScanTask, ScanRow
<1>8. ASSUME \/ AnyAge \/ UNCHANGED httpVars \/ UNCHANGED allVars
             \/ \E h \in Handlers : EnterEngine(h) \/ EngineFault(h)
      PROVE  req' = req
  BY <1>8 DEF AnyAge, Age, httpVars, allVars, EnterEngine, EngineFault
<1>. QED BY <1>0, <1>4, <1>5, <1>6, <1>7, <1>8, CNextSplit

\* How a step changes an approval: every change is a statement of one request
\* or of the scan.
LEMMA ApprovalShape ==
  ASSUME CTypeOK, [CNext]_allVars
  PROVE  \/ approval' = approval
         \/ \E h \in Handlers : \/ InsertApproval(h)
                                \/ SettleApproval(h)
                                \/ ClaimApproval(h) /\ approval[req[h].task].status = "pending"
         \/ \E h \in Handlers, t \in Tasks, p \in Callers : Deny(h, t, p)
         \/ \E t \in Tasks : /\ approval[t].status = "executing"
                             /\ approval' = [approval EXCEPT ![t].status = "recovery_required"]
<1>1. ASSUME NEW h \in Handlers, Talks(h)
      PROVE  \/ approval' = approval
             \/ InsertApproval(h)
             \/ ClaimApproval(h) /\ approval[req[h].task].status = "pending"
             \/ \E t \in Tasks, p \in Callers : Deny(h, t, p)
  BY <1>1 DEF Talks, Arrive, Create, Approve, RequestRollback, GuardAndPlan, DecidePolicy,
       FinishPending, PolicyBlocked, ClaimApproval, AuditClaim, DenyTask
<1>2. ASSUME NEW h \in Handlers, Leaves(h) PROVE approval' = approval \/ SettleApproval(h)
  BY <1>2 DEF Leaves, LeaveEngine, RequestFault
<1>3. ASSUME NEW w \in Workers, ScanStep(w)
      PROVE  \/ approval' = approval
             \/ \E t \in Tasks : /\ approval[t].status = "executing"
                                 /\ approval' = [approval EXCEPT ![t].status = "recovery_required"]
  <2>1. CASE Start(w) \/ ScanNext(w) \/ ScanTask(w)
    BY <2>1 DEF Start, ScanNext, ScanTask
  <2>2. ASSUME NEW r \in scan[w].todo, ScanRow(w, r), approval' # approval
        PROVE  \E t \in Tasks : /\ approval[t].status = "executing"
                                /\ approval' = [approval EXCEPT ![t].status = "recovery_required"]
    <3>1. /\ scan[w].at = "approvals"
          /\ approval' = [approval EXCEPT ![r].status = IF @ = "executing" THEN "recovery_required" ELSE @]
      BY <2>2 DEF ScanRow
    <3>2. r \in Tasks
      BY <3>1, Rows DEF CTypeOK
    <3>3. approval \in [Tasks -> ApprovalSet]
      BY DEF CTypeOK, ApprovalSet
    <3>4. approval[r].status = "executing"
      BY <2>2, <3>1, <3>2, <3>3 DEF ApprovalSet
    <3>. QED BY <3>1, <3>2, <3>4
  <2>. QED BY <1>3, <2>1, <2>2 DEF ScanStep
<1>4. ASSUME \/ AnyAge \/ UNCHANGED httpVars \/ UNCHANGED allVars \/ (\E w \in Workers : Crash(w))
             \/ \E h \in Handlers : EnterEngine(h) \/ EngineFault(h)
      PROVE  approval' = approval
  BY <1>4 DEF AnyAge, Age, httpVars, allVars, EnterEngine, EngineFault, Crash
<1>. QED BY <1>1, <1>2, <1>3, <1>4, CNextSplit

\* Every step keeps the approvals typed.
LEMMA ApprovalTypes ==
  ASSUME CTypeOK, [CNext]_allVars
  PROVE  approval' \in [Tasks -> ApprovalSet]
<1>0. /\ approval \in [Tasks -> ApprovalSet] /\ req \in [Handlers -> RequestSet]
      /\ \A h \in Handlers : req[h].task \in Tasks /\ req[h].tier \in Tiers /\ req[h].by \in Callers
      /\ {"approved", "recovery_required", "execution_failed", "executing", "denied"} \subseteq ApprovalStatus
  BY DEF CTypeOK, RequestSet, ApprovalSet, ApprovalStatus
<1>1. ASSUME NEW t \in Tasks, NEW s \in ApprovalStatus, approval' = [approval EXCEPT ![t].status = s]
      PROVE  approval' \in [Tasks -> ApprovalSet]
  <2>1. [approval[t] EXCEPT !.status = s] \in ApprovalSet
    BY <1>0, RecordUpdates
  <2>. QED BY <1>0, <1>1, <2>1
<1>2. ASSUME NEW t \in Tasks, NEW s \in ApprovalStatus, NEW p \in Callers,
             approval' = [approval EXCEPT ![t].status = s, ![t].by = p]
      PROVE  approval' \in [Tasks -> ApprovalSet]
  <2>1. [approval[t] EXCEPT !.status = s, !.by = p] \in ApprovalSet
    BY <1>0, RecordUpdates
  <2>2. approval' = [approval EXCEPT ![t] = [approval[t] EXCEPT !.status = s, !.by = p]]
    BY <1>0, <1>2
  <2>. QED BY <1>0, <2>1, <2>2
<1>3. ASSUME NEW h \in Handlers, InsertApproval(h) PROVE approval' \in [Tasks -> ApprovalSet]
  BY <1>0, <1>3, RecordUpdates DEF InsertApproval
<1>4. ASSUME NEW h \in Handlers, SettleApproval(h) PROVE approval' \in [Tasks -> ApprovalSet]
  <2>1. PICK s \in ApprovalStatus : approval' = [approval EXCEPT ![req[h].task].status = s]
    BY <1>0, <1>4 DEF SettleApproval
  <2>. QED BY <1>0, <1>1, <2>1
<1>5. ASSUME NEW h \in Handlers, ClaimApproval(h), approval[req[h].task].status = "pending"
      PROVE  approval' \in [Tasks -> ApprovalSet]
  BY <1>0, <1>2, <1>5 DEF ClaimApproval
<1>6. ASSUME NEW h \in Handlers, NEW t \in Tasks, NEW p \in Callers, Deny(h, t, p)
      PROVE  approval' \in [Tasks -> ApprovalSet]
  BY <1>0, <1>2, <1>6 DEF Deny
<1>. QED BY <1>0, <1>1, <1>3, <1>4, <1>5, <1>6, ApprovalShape

\* Every step keeps the scans, the rows grown old and the faults typed.
LEMMA ScanTypes ==
  ASSUME CTypeOK, [CNext]_allVars
  PROVE  /\ scan' \in [Workers -> ScanSet]
         /\ \A w \in Workers : scan'[w].at \in DOMAIN RowsOf => scan'[w].todo \subseteq RowsOf[scan'[w].at]
         /\ aged' \subseteq AllRows /\ faults' \in 0 .. MaxFaults
<1>. DEFINE Good == /\ scan' \in [Workers -> ScanSet]
                    /\ \A w \in Workers : scan'[w].at \in DOMAIN RowsOf => scan'[w].todo \subseteq RowsOf[scan'[w].at]
<1>0. /\ scan \in [Workers -> ScanSet] /\ aged \subseteq AllRows /\ faults \in 0 .. MaxFaults
      /\ \A w \in Workers : scan[w].at \in DOMAIN RowsOf => scan[w].todo \subseteq RowsOf[scan[w].at]
  BY DEF CTypeOK, ScanSet
<1>1. ASSUME NEW w \in Workers, NEW table \in DOMAIN RowsOf, Scan(w, table) PROVE Good
  <2>1. [at |-> table, todo |-> Stale(table), due |-> NoTask] \in ScanSet
    BY StaleRows DEF ScanSet
  <2>. QED BY <1>0, <1>1, <2>1, StaleRows DEF Scan
<1>2. ASSUME NEW w \in Workers, NEW s \in {"down", "up"}, scan' = [scan EXCEPT ![w] = NoScan(s)] PROVE Good
  <2>1. NoScan(s) \in ScanSet /\ NoScan(s).at \notin DOMAIN RowsOf
    BY Rows DEF NoScan, ScanSet
  <2>. QED BY <1>0, <1>2, <2>1
<1>3. ASSUME NEW w \in Workers, NEW r \in scan[w].todo, ScanRow(w, r) PROVE Good
  <2>1. PICK d \in Tasks \union {NoTask} : scan' = [scan EXCEPT ![w].todo = @ \ {r}, ![w].due = d]
    <3>1. scan[w].at \in DOMAIN RowsOf
      BY <1>3, Rows DEF ScanRow
    <3>2. TaskOf(scan[w].at, r) \in Tasks
      BY <1>0, <1>3, <3>1, RowTask
    <3>. QED BY <1>3, <3>2 DEF ScanRow
  <2>2. [scan[w] EXCEPT !.todo = @ \ {r}, !.due = d] \in ScanSet
    BY <1>0 DEF ScanSet
  <2>3. scan' = [scan EXCEPT ![w] = [scan[w] EXCEPT !.todo = @ \ {r}, !.due = d]]
    BY <1>0, <2>1
  <2>. QED BY <1>0, <2>2, <2>3 DEF ScanSet
<1>4. ASSUME NEW w \in Workers, ScanTask(w) PROVE Good
  <2>1. [scan[w] EXCEPT !.due = NoTask] \in ScanSet
    BY <1>0 DEF ScanSet
  <2>. QED BY <1>0, <1>4, <2>1 DEF ScanTask, ScanSet
<1>5. ASSUME NEW w \in Workers, ScanStep(w) PROVE Good /\ aged' = aged /\ faults' = faults
  <2>1. CASE Start(w)
    BY <1>1, <2>1, Rows DEF Start
  <2>2. CASE ScanNext(w)
    <3>1. PICK i \in 1 .. 4 :
            IF i < 4 THEN Scan(w, Tables[i + 1]) ELSE scan' = [scan EXCEPT ![w] = NoScan("up")]
      BY <2>2 DEF ScanNext
    <3>2. i < 4 => Tables[i + 1] \in DOMAIN RowsOf
      BY Rows
    <3>3. Good
      BY <1>1, <1>2, <3>1, <3>2
    <3>. QED BY <2>2, <3>3 DEF ScanNext
  <2>3. CASE ScanTask(w)
    BY <1>4, <2>3 DEF ScanTask
  <2>4. ASSUME NEW r \in scan[w].todo, ScanRow(w, r) PROVE Good /\ aged' = aged /\ faults' = faults
    BY <1>3, <2>4 DEF ScanRow
  <2>. QED BY <1>5, <2>1, <2>2, <2>3, <2>4 DEF ScanStep
<1>6. ASSUME AnyAge PROVE scan' = scan /\ aged' \subseteq AllRows /\ faults' = faults
  <2>0. PICK i \in 1 .. 4 : \E r \in RowsOf[Tables[i]] : Age(Tables[i], r)
    BY <1>6 DEF AnyAge
  <2>1. PICK r \in RowsOf[Tables[i]] : Age(Tables[i], r)
    BY <2>0
  <2>2. r \in Tasks \union Keys
    BY Rows
  <2>3. <<Tables[i], r>> \in AllRows
    BY <2>2 DEF AllRows
  <2>. QED BY <1>0, <2>1, <2>3 DEF Age
<1>7. ASSUME NEW w \in Workers, Crash(w) PROVE Good /\ aged' = aged /\ faults' \in 0 .. MaxFaults
  <2>1. Good /\ aged' = aged
    BY <1>2, <1>7 DEF Crash
  <2>2. faults' \in 0 .. MaxFaults
    BY <1>0, <1>7, NoTaskAssumption DEF Crash, Fault
  <2>. QED BY <2>1, <2>2
<1>8. ASSUME NEW h \in Handlers, RequestFault(h) \/ EngineFault(h)
      PROVE  scan' = scan /\ aged' = aged /\ faults' \in 0 .. MaxFaults
  BY <1>0, <1>8, NoTaskAssumption DEF RequestFault, EngineFault, Fault
<1>9. ASSUME NEW h \in Handlers, Talks(h) \/ SettleApproval(h) \/ LeaveEngine(h) \/ EnterEngine(h)
      PROVE  scan' = scan /\ aged' = aged /\ faults' = faults
  BY <1>9 DEF Talks, Arrive, Create, Approve, Deny, RequestRollback, GuardAndPlan, DecidePolicy, InsertApproval,
       FinishPending, PolicyBlocked, ClaimApproval, AuditClaim, DenyTask, SettleApproval, LeaveEngine,
       EnterEngine, Elsewhere, httpVars
<1>10. ASSUME UNCHANGED httpVars \/ UNCHANGED allVars PROVE scan' = scan /\ aged' = aged /\ faults' = faults
  BY <1>10 DEF httpVars, allVars
<1>. QED BY <1>0, <1>5, <1>6, <1>7, <1>8, <1>9, <1>10, CNextSplit DEF Leaves

\* Every variable of the control plane holds a value of its kind.
LEMMA ControlTypeNext == CTypeOK /\ [CNext]_allVars => CTypeOK'
<1>1. SUFFICES ASSUME CTypeOK, [CNext]_allVars PROVE CTypeOK'
  OBVIOUS
<1>2. EngineTypeOK'
  BY <1>1, ControlMoves, EngineTypeNext DEF CTypeOK
<1>3. task' \in [Tasks -> TaskStatus \union {"none", "pending_approval"}]
  BY <1>1, TaskShape
<1>4. req' \in [Handlers -> RequestSet] /\ approval' \in [Tasks -> ApprovalSet]
  BY <1>1, RequestTypes, ApprovalTypes
<1>5. audit' \subseteq (Events \union {"approval.claimed"}) \X Tasks
  BY <1>1, AuditTypes
<1>. QED BY <1>1, <1>2, <1>3, <1>4, <1>5, ScanTypes DEF CTypeOK, RequestSet, ApprovalSet, ScanSet

\* The control plane starts with typed tables, and its engine's invariant.
LEMMA ControlTypeInit == CInit => CTypeOK /\ EngineInv
<1>1. CInit => EngineInv
  BY EngineInvInit DEF CInit
<1>2. ASSUME CInit PROVE scan \in [Workers -> ScanSet] /\ \A w \in Workers : scan[w].at \notin DOMAIN RowsOf
  <2>1. NoScan("up") \in ScanSet /\ NoScan("up").at \notin DOMAIN RowsOf
    BY Rows DEF NoScan, ScanSet
  <2>. QED BY <1>2, <2>1 DEF CInit
<1>3. ASSUME CInit PROVE task \in [Tasks -> TaskStatus \union {"none", "pending_approval"}] /\ audit = {}
  BY <1>3 DEF CInit, EngineInit
<1>4. ASSUME CInit PROVE req \in [Handlers -> RequestSet] /\ approval \in [Tasks -> ApprovalSet]
  BY <1>4, RecordUpdates DEF CInit
<1>5. ASSUME CInit PROVE aged = {} /\ faults \in 0 .. MaxFaults
  BY <1>5, NoTaskAssumption DEF CInit
<1>. QED BY <1>1, <1>2, <1>3, <1>4, <1>5 DEF CTypeOK, EngineInv, RequestSet, ApprovalSet, ScanSet

\* Every variable of the control plane holds a value of its kind.
THEOREM ControlTypeCorrect == CSpec => []CTypeOK
BY ControlTypeInit, ControlTypeNext, PTL DEF CSpec

\* What is proved of the engine alone holds of the engine in the control plane.
LEMMA ControlEngine == CSpec => []EngineInv
<1>1. CTypeOK /\ EngineInv /\ [CNext]_allVars => EngineInv'
  BY ControlMoves, EngineInvNext
<1>. QED BY <1>1, ControlTypeInit, ControlTypeCorrect, PTL DEF CSpec

\* Crashes, restarts and recovery scans included, no tool call or reversal
\* takes effect twice.
THEOREM ControlAtMostOnce == CSpec => []SideEffectOnce
<1>1. EngineInv => SideEffectOnce
  BY DEF EngineInv, OnceInv, SideEffectOnce
<1>. QED BY <1>1, ControlEngine, PTL

\* Under the control plane too, a compensation stands for a change, and a used
\* one for its reversal.
THEOREM ControlCompensationsAreBacked == CSpec => []CompensationBacked
<1>1. EngineInv => CompensationBacked
  BY DEF EngineInv, ReversalInv
<1>. QED BY <1>1, ControlEngine, PTL

-----------------------------------------------------------------------------
(* A call in the engine belongs to the request its handler serves.         *)

ExecutePositions == {"lookup", "jit", "finish_blocked", "claim", "reread", "execute", "receipt",
  "tool_raised", "checkpoint_execute", "comp_lookup", "comp_insert", "verify", "finish_completed",
  "audit_executed", "finish_failed", "finish_recovery"}
RollbackPositions == {"rb_read", "rb_claim", "rb_ledger", "rb_execute", "rb_receipt", "rb_use",
  "rb_fail_ledger", "rb_fail_comp", "rb_fail_task", "rb_finish", "rb_audit"}
Executes(h) == pc[h] \in ExecutePositions
RollsBack(h) == pc[h] \in RollbackPositions
CallMatches(h) == ctx[h].task = req[h].task /\ ctx[h].tier = req[h].tier /\ ctx[h].by = req[h].by

\* Outside the engine a handler is idle in it; inside it works on the task of
\* its request, with the tier and the caller of the approval.
LinkInv == \A h \in Handlers :
  /\ req[h].at \notin InEngine => pc[h] = "idle"
  /\ Executes(h) => req[h].at \in {"run_engine", "approve_engine"} /\ CallMatches(h)
  /\ RollsBack(h) => req[h].at = "rollback_engine" /\ ctx[h].task = req[h].task

\* A step of the engine stays in execute_approved or in rollback, with the
\* task, tier and caller of the call, or it ends the call.
LEMMA EngineLocals ==
  ASSUME EngineTypeOK, NEW h \in Handlers, EngineStep(h)
  PROVE  \/ /\ Executes(h)
            /\ \/ pc'[h] = "returned"
               \/ /\ Executes(h)' /\ ctx'[h].task = ctx[h].task
                  /\ ctx'[h].tier = ctx[h].tier /\ ctx'[h].by = ctx[h].by
         \/ /\ RollsBack(h)
            /\ \/ pc'[h] \in {"returned", "raised"}
               \/ RollsBack(h)' /\ ctx'[h].task = ctx[h].task
<1>0. pc \in [Handlers -> Positions] /\ ctx \in [Handlers -> Calls]
  BY DEF EngineTypeOK
<1>1. CASE ExecuteStep(h)
  <2>1. pc[h] \in ExecutePositions /\ pc'[h] \in ExecutePositions \union {"returned"}
    BY <1>0, <1>1 DEF ExecutePositions, ExecuteStep, At, Goto, Reply, FromReceipt, Lookup, JitPolicy,
         FinishBlocked, Claim, Reread, RunTool, ToolRaises, Receipt, ReceiptRaises, Retry, GiveUp,
         CheckpointExecute, CompLookup, CompInsert, Verify, FinishCompleted, AuditExecuted, FinishFailed,
         FinishRecovery
  <2>2. \/ ctx' = ctx
        \/ pc'[h] = "returned"
        \/ \E n : ctx' = [ctx EXCEPT ![h].attempt = n]
        \/ \E o : ctx' = [ctx EXCEPT ![h].out = o]
    <3>1. CASE Lookup(h) \/ Reread(h)
      BY <1>0, <3>1 DEF Lookup, Reread, FromReceipt
    <3>2. CASE Claim(h)
      BY <3>2 DEF Claim
    <3>3. CASE RunTool(h)
      BY <3>3 DEF RunTool
    <3>4. CASE Retry(h)
      BY <3>4 DEF Retry
    <3>5. CASE FinishBlocked(h) \/ AuditExecuted(h) \/ FinishFailed(h) \/ FinishRecovery(h)
      BY <1>0, <3>5 DEF FinishBlocked, AuditExecuted, FinishFailed, FinishRecovery, Reply, Goto
    <3>. QED BY <1>1, <3>1, <3>2, <3>3, <3>4, <3>5 DEF ExecuteStep, JitPolicy, ToolRaises, Receipt,
           ReceiptRaises, GiveUp, CheckpointExecute, CompLookup, CompInsert, Verify, FinishCompleted
  <2>3. \/ pc'[h] = "returned"
        \/ ctx'[h].task = ctx[h].task /\ ctx'[h].tier = ctx[h].tier /\ ctx'[h].by = ctx[h].by
    BY <1>0, <2>2 DEF Calls
  <2>. QED BY <2>1, <2>3 DEF Executes
<1>2. CASE RollbackStep(h)
  <2>1. pc[h] \in RollbackPositions /\ pc'[h] \in RollbackPositions \union {"returned", "raised"}
    BY <1>0, <1>2 DEF RollbackPositions, RollbackStep, At, Goto, Reply, Raise, RbRead, RbClaim, RbLedger,
         RbExecute, RbToolRaises, RbReceipt, RbUse, RbFailLedger, RbFailComp, RbFailTask, RbFinish, RbAudit
  <2>2. ctx' = ctx \/ pc'[h] \in {"returned", "raised"} \/ \E i : ctx' = [ctx EXCEPT ![h].cid = i]
    BY <1>0, <1>2 DEF RollbackStep, Goto, Reply, Raise, RbRead, RbClaim, RbLedger,
         RbExecute, RbToolRaises, RbReceipt, RbUse, RbFailLedger, RbFailComp, RbFailTask, RbFinish, RbAudit
  <2>3. pc'[h] \in {"returned", "raised"} \/ ctx'[h].task = ctx[h].task
    BY <1>0, <2>2 DEF Calls
  <2>. QED BY <2>1, <2>3 DEF RollsBack
<1>. QED BY <1>1, <1>2 DEF EngineStep

\* A handler that a step leaves alone.
Same(h) == req'[h] = req[h] /\ pc'[h] = pc[h] /\ ctx'[h] = ctx[h]

\* What a step does to the request and the call of one handler.
LEMMA HandlerShape ==
  ASSUME CTypeOK, OnceInv, [CNext]_allVars, NEW h \in Handlers
  PROVE  \/ Same(h)
         \/ EngineStep(h) /\ UNCHANGED httpVars
         \/ EnterEngine(h)
         \/ EngineFault(h)
         \/ req'[h] = NoRequest /\ pc'[h] = "idle"
         \/ /\ pc'[h] = pc[h] /\ ctx'[h] = ctx[h] /\ req[h].at \notin InEngine
            /\ Talks(h) \/ req'[h] = NoRequest
<1>. DEFINE Quits == /\ pc'[h] = pc[h] /\ ctx'[h] = ctx[h] /\ req[h].at \notin InEngine
                     /\ Talks(h) \/ req'[h] = NoRequest
            Ends == req'[h] = NoRequest /\ pc'[h] = "idle"
<1>0. /\ pc \in [Handlers -> Positions] /\ ctx \in [Handlers -> Calls] /\ req \in [Handlers -> RequestSet]
      /\ EngineTypeOK /\ \A g \in Handlers : Attempted(g)
  BY DEF CTypeOK, EngineTypeOK, RequestSet, OnceInv
<1>1. ASSUME NEW g \in Handlers, EngineStep(g), UNCHANGED httpVars, g # h PROVE Same(h)
  <2>1. pc'[h] = pc[h] /\ ctx'[h] = ctx[h]
    BY <1>0, <1>1, Moves
  <2>. QED BY <1>1, <2>1 DEF Same, httpVars
<1>2. ASSUME NEW g \in Handlers, EnterEngine(g), g # h PROVE Same(h)
  BY <1>0, <1>2 DEF EnterEngine, CallExecute, CallRollback, Goto, Same, httpVars
<1>3. ASSUME NEW g \in Handlers, EngineFault(g), g # h PROVE Same(h)
  BY <1>0, <1>3 DEF EngineFault, DbError, Raise, Drop, Goto, Same
<1>4. ASSUME NEW g \in Handlers, Talks(g) PROVE Same(h) \/ Quits
  <2>1. pc' = pc /\ ctx' = ctx
    BY <1>0, <1>4, TalksApart DEF evars
  <2>2. \/ \E l : Step(g, l)
        \/ End(g)
        \/ \E l, t, x, p : Serve(g, l, t, x, p)
        \/ DecidePolicy(g)
    BY <1>4 DEF Talks, Arrive, Create, Approve, Deny, RequestRollback, GuardAndPlan, InsertApproval,
         FinishPending, PolicyBlocked, ClaimApproval, AuditClaim, DenyTask
  <2>3. \A f \in Handlers \ {g} : req'[f] = req[f]
    BY <1>0, <2>2 DEF Step, End, Serve, DecidePolicy
  <2>4. req[g].at \in {"guard", "policy", "insert_approval", "finish_pending", "policy_blocked",
                       "claim_approval", "audit_claim", "deny_task", "idle"}
    BY <1>4 DEF Talks, Arrive, Create, Approve, Deny, RequestRollback, GuardAndPlan, DecidePolicy,
         InsertApproval, FinishPending, PolicyBlocked, ClaimApproval, AuditClaim, DenyTask, Serve, Doing
  <2>5. CASE g = h
    BY <1>4, <2>1, <2>4, <2>5 DEF InEngine
  <2>6. CASE g # h
    BY <2>1, <2>3, <2>6 DEF Same
  <2>. QED BY <2>5, <2>6
<1>5. ASSUME NEW g \in Handlers, Leaves(g) PROVE Same(h) \/ Ends \/ Quits
  <2>1. End(g) /\ (Return(g) \/ (req[g].at \notin InEngine /\ UNCHANGED vars))
    BY <1>5 DEF Leaves, SettleApproval, LeaveEngine, RequestFault
  <2>2. req'[g] = NoRequest /\ \A f \in Handlers \ {g} : req'[f] = req[f]
    BY <1>0, <2>1 DEF End
  <2>3. CASE Return(g)
    <3>1. pc'[g] = "idle" /\ \A f \in Handlers \ {g} : pc'[f] = pc[f] /\ ctx'[f] = ctx[f]
      BY <1>0, <2>3 DEF Return, Leave, Goto
    <3>. QED BY <2>2, <3>1 DEF Same
  <2>4. CASE req[g].at \notin InEngine /\ UNCHANGED vars
    BY <2>2, <2>4 DEF Same, vars
  <2>. QED BY <2>1, <2>3, <2>4
<1>6. ASSUME NEW w \in Workers, Crash(w) PROVE Same(h) \/ Ends
  BY <1>6 DEF Crash, Same
<1>7. ASSUME NEW w \in Workers, ScanStep(w) PROVE Same(h)
  <2>1. req' = req
    BY <1>7 DEF ScanStep, Start, ScanNext, ScanTask, ScanRow
  <2>2. pc' = pc /\ ctx' = ctx
    BY <1>7, ScanSteps DEF evars, InterruptExecution, InterruptCompensation
  <2>. QED BY <2>1, <2>2 DEF Same
<1>8. ASSUME AnyAge \/ UNCHANGED allVars \/ \E k \in Keys : LateEffect(k) /\ UNCHANGED httpVars
      PROVE  Same(h)
  BY <1>8 DEF AnyAge, Age, allVars, vars, LateEffect, httpVars, Same
<1>9. CASE \E g \in Handlers : \/ Talks(g) \/ Leaves(g) \/ EnterEngine(g) \/ EngineFault(g)
                               \/ EngineStep(g) /\ UNCHANGED httpVars
  BY <1>1, <1>2, <1>3, <1>4, <1>5, <1>9
<1>10. CASE \E w \in Workers : Crash(w) \/ ScanStep(w)
  BY <1>6, <1>7, <1>10
<1>. QED BY <1>8, <1>9, <1>10, CNextSplit

\* A call keeps to its request.
LEMMA LinkNext ==
  ASSUME CTypeOK, OnceInv, LinkInv, [CNext]_allVars
  PROVE  LinkInv'
<1>. DEFINE Linked(h) == /\ req[h].at \notin InEngine => pc[h] = "idle"
                         /\ Executes(h) => req[h].at \in {"run_engine", "approve_engine"} /\ CallMatches(h)
                         /\ RollsBack(h) => req[h].at = "rollback_engine" /\ ctx[h].task = req[h].task
<1>1. SUFFICES ASSUME NEW h \in Handlers PROVE Linked(h)'
  BY DEF LinkInv
<1>2. Linked(h)
  BY DEF LinkInv
<1>0. pc \in [Handlers -> Positions] /\ ctx \in [Handlers -> Calls] /\ req[h] \in RequestSet /\ EngineTypeOK
  BY DEF CTypeOK, EngineTypeOK, RequestSet
<1>3. CASE Same(h)
  BY <1>2, <1>3 DEF Same, Executes, RollsBack, CallMatches
<1>4. CASE EngineStep(h) /\ UNCHANGED httpVars
  <2>1. req'[h] = req[h]
    BY <1>4 DEF httpVars
  <2>2. CASE Executes(h)
    <3>1. pc'[h] = "returned" \/ (Executes(h)' /\ CallMatches(h)')
      BY <1>0, <1>2, <1>4, <2>1, <2>2, EngineLocals DEF CallMatches, Executes, RollsBack, ExecutePositions, RollbackPositions
    <3>. QED BY <1>2, <2>1, <2>2, <3>1 DEF Executes, RollsBack, InEngine, ExecutePositions, RollbackPositions
  <2>3. CASE RollsBack(h)
    <3>1. pc'[h] \in {"returned", "raised"} \/ (RollsBack(h)' /\ ctx'[h].task = ctx[h].task)
      BY <1>0, <1>4, <2>3, EngineLocals DEF Executes, RollsBack, ExecutePositions, RollbackPositions
    <3>. QED BY <1>2, <2>1, <2>3, <3>1 DEF Executes, RollsBack, InEngine, ExecutePositions, RollbackPositions
  <2>. QED BY <1>0, <1>4, <2>2, <2>3, EngineLocals
<1>5. CASE EnterEngine(h)
  <2>1. req'[h] = req[h] /\ req[h].at \in InEngine
    BY <1>5 DEF EnterEngine, httpVars, InEngine, Doing
  <2>2. CASE req[h].at = "rollback_engine"
    <3>1. pc'[h] = "rb_read" /\ ctx'[h] = [NoCall EXCEPT !.task = req[h].task, !.by = req[h].by]
      BY <1>0, <1>5, <2>2 DEF EnterEngine, CallRollback, Goto
    <3>2. ctx'[h].task = req[h].task
      BY <3>1, CallTypes DEF Calls
    <3>. QED BY <2>1, <2>2, <3>1, <3>2 DEF Executes, RollsBack, ExecutePositions
  <2>3. CASE req[h].at \in {"run_engine", "approve_engine"}
    <3>1. /\ pc'[h] = "lookup"
          /\ ctx'[h] = [NoCall EXCEPT !.task = req[h].task, !.tier = req[h].tier, !.by = req[h].by]
      BY <1>0, <1>5, <2>3 DEF EnterEngine, CallExecute, Goto, Doing
    <3>2. CallMatches(h)'
      BY <2>1, <3>1, CallTypes DEF Calls, CallMatches
    <3>. QED BY <2>1, <2>3, <3>1, <3>2 DEF Executes, RollsBack, RollbackPositions
  <2>. QED BY <2>1, <2>2, <2>3 DEF InEngine
<1>6. CASE EngineFault(h)
  <2>1. req'[h] = req[h] /\ DbError(h)
    BY <1>6 DEF EngineFault
  <2>2. CASE pc'[h] = "raised"
    <3>1. pc[h] # "idle"
      BY <2>1 DEF DbError, Statements, InTry, At
    <3>. QED BY <1>2, <2>1, <2>2, <3>1 DEF Executes, RollsBack, ExecutePositions, RollbackPositions
  <2>3. CASE pc[h] \in InTry /\ pc'[h] = "rb_fail_ledger" /\ ctx' = ctx
    BY <1>2, <2>1, <2>3 DEF Executes, RollsBack, ExecutePositions, RollbackPositions, InTry, InEngine
  <2>. QED BY <1>0, <2>1, <2>2, <2>3 DEF DbError, Raise, Goto
<1>7. CASE req'[h] = NoRequest /\ pc'[h] = "idle"
  BY <1>7 DEF Executes, RollsBack, ExecutePositions, RollbackPositions
<1>8. CASE pc'[h] = pc[h] /\ ctx'[h] = ctx[h] /\ req[h].at \notin InEngine
  BY <1>2, <1>8 DEF Executes, RollsBack, ExecutePositions, RollbackPositions
<1>. QED BY <1>3, <1>4, <1>5, <1>6, <1>7, <1>8, HandlerShape

-----------------------------------------------------------------------------
(* How a step changes requests and approvals.                              *)

\* A handler gets a new request, or further with the one it has.
Proceeds(h) ==
  \/ GuardAndPlan(h) \/ DecidePolicy(h) \/ InsertApproval(h) \/ AuditClaim(h) \/ Arrive(h)
  \/ ClaimApproval(h) /\ approval[req[h].task].status = "pending"

\* A step proceeds with one request, or none.
LEMMA RequestShape ==
  ASSUME CTypeOK, [CNext]_allVars, NEW h \in Handlers
  PROVE  \/ req'[h] \in {req[h], NoRequest}
         \/ Proceeds(h) /\ \A g \in Handlers \ {h} : req'[g] = req[g]
<1>0. req \in [Handlers -> RequestSet]
  BY DEF CTypeOK, RequestSet
<1>1. ASSUME NEW g \in Handlers, End(g) PROVE req'[h] \in {req[h], NoRequest}
  BY <1>0, <1>1 DEF End
<1>2. ASSUME NEW g \in Handlers, Talks(g)
      PROVE  req'[h] \in {req[h], NoRequest} \/ (Proceeds(h) /\ \A f \in Handlers \ {h} : req'[f] = req[f])
  <2>1. CASE Proceeds(g)
    <3>1. \/ \E l : Step(g, l)
          \/ \E l, t, x, p : Serve(g, l, t, x, p)
          \/ DecidePolicy(g)
      BY <2>1 DEF Proceeds, Arrive, Create, Approve, Deny, RequestRollback, GuardAndPlan, InsertApproval,
           ClaimApproval, AuditClaim
    <3>2. \A f \in Handlers \ {g} : req'[f] = req[f]
      BY <1>0, <3>1 DEF Step, Serve, DecidePolicy
    <3>. QED BY <2>1, <3>2
  <2>2. CASE End(g)
    BY <1>1, <2>2
  <2>. QED BY <1>2, <2>1, <2>2 DEF Talks, Proceeds, FinishPending, PolicyBlocked, DenyTask, ClaimApproval
<1>3. ASSUME NEW g \in Handlers, Leaves(g) PROVE req'[h] \in {req[h], NoRequest}
  BY <1>1, <1>3 DEF Leaves, SettleApproval, LeaveEngine, RequestFault
<1>4. ASSUME NEW w \in Workers, Crash(w) PROVE req'[h] \in {req[h], NoRequest}
  BY <1>4 DEF Crash
<1>5. ASSUME NEW w \in Workers, ScanStep(w) PROVE req' = req
  BY <1>5 DEF ScanStep, Start, ScanNext, ScanTask, ScanRow
<1>6. ASSUME \/ AnyAge \/ UNCHANGED httpVars \/ UNCHANGED allVars
             \/ \E g \in Handlers : EnterEngine(g) \/ EngineFault(g)
      PROVE  req' = req
  BY <1>6 DEF AnyAge, Age, httpVars, allVars, EnterEngine, EngineFault
<1>. QED BY <1>2, <1>3, <1>4, <1>5, <1>6, CNextSplit

\* What a handler that proceeds is at, and where it gets: further with its
\* request, or, idle, to a new one.
Advances(h) ==
  /\ req[h].at # "idle" /\ req'[h].task = req[h].task
  /\ \/ req[h].at = "guard" /\ req'[h].at = "policy"
     \/ /\ req[h].at = "policy" /\ req'[h].at \in {"insert_approval", "policy_blocked", "run_engine"}
        /\ req'[h].at = "run_engine" => ~ SideEffect(req[h].task)
     \/ InsertApproval(h) /\ req[h].at = "insert_approval" /\ req'[h].at = "finish_pending"
     \/ ClaimApproval(h) /\ approval[req[h].task].status = "pending" /\ req[h].at = "claim_approval"
                         /\ req'[h].at = "audit_claim"
     \/ AuditClaim(h) /\ req[h].at = "audit_claim" /\ req'[h].at = "approve_engine"
Begins(h, t) ==
  /\ req[h].at = "idle" /\ req'[h].task = t
  /\ \/ req'[h].at = "guard" /\ task[t] = "none" /\ task'[t] = "created"
     \/ /\ req'[h].at = "claim_approval" /\ approval[t].status = "pending"
        /\ req'[h].tier = approval[t].tier /\ Entitled(req'[h].by, approval[t].tier)
        /\ approval' = approval
     \/ req'[h].at = "deny_task" /\ approval[t].status = "pending"
     \/ req'[h].at = "rollback_engine" /\ task[t] # "none"

\* A request begins or advances.
LEMMA ProceedShape ==
  ASSUME CTypeOK, NEW h \in Handlers, Proceeds(h)
  PROVE  Advances(h) \/ \E t \in Tasks : Begins(h, t)
<1>0. req \in [Handlers -> RequestSet] /\ req[h] \in RequestSet /\ req[h].task \in Tasks
  BY DEF CTypeOK, RequestSet
<1>1. ASSUME NEW l, Step(h, l) PROVE req'[h].at = l /\ req'[h].task = req[h].task
  BY <1>0, <1>1 DEF Step, RequestSet
<1>2. ASSUME NEW l, NEW t, NEW x, NEW p, Serve(h, l, t, x, p)
      PROVE  /\ req[h].at = "idle" /\ req'[h].at = l /\ req'[h].task = t
             /\ req'[h].tier = x /\ req'[h].by = p
  BY <1>0, <1>2 DEF Serve, Doing
<1>3. CASE GuardAndPlan(h)
  BY <1>1, <1>3 DEF GuardAndPlan, Doing, Advances
<1>4. CASE DecidePolicy(h)
  <2>1. PICK d \in Answers(ToolOf[req[h].task]) :
          req' = [req EXCEPT ![h].tier = d.approval_tier,
                    ![h].at = IF d.requires_approval THEN "insert_approval"
                              ELSE IF d.allowed THEN "run_engine" ELSE "policy_blocked"]
    BY <1>4 DEF DecidePolicy
  <2>2. /\ req'[h].task = req[h].task /\ req'[h].at \in {"insert_approval", "policy_blocked", "run_engine"}
        /\ req'[h].at = "run_engine" => d.allowed
    BY <1>0, <2>1 DEF RequestSet
  <2>3. SideEffect(req[h].task) => ~ d.allowed
    BY <1>0, WritesAreGated
  <2>. QED BY <1>4, <2>2, <2>3 DEF DecidePolicy, Doing, Advances
<1>5. CASE InsertApproval(h)
  BY <1>1, <1>5 DEF InsertApproval, Doing, Advances
<1>6. CASE AuditClaim(h)
  BY <1>1, <1>6 DEF AuditClaim, Doing, Advances
<1>7. CASE ClaimApproval(h) /\ approval[req[h].task].status = "pending"
  BY <1>1, <1>7 DEF ClaimApproval, Doing, Advances
<1>8. ASSUME NEW t \in Tasks, NEW p \in Callers, Create(h, t, p) PROVE Begins(h, t)
  BY <1>2, <1>8 DEF Create, Begins, CTypeOK
<1>9. ASSUME NEW t \in Tasks, NEW p \in Callers, Approve(h, t, p) PROVE Begins(h, t)
  <2>1. Entitled(p, approval[t].tier)
    BY <1>9 DEF Approve, ApprovalAuthorized, Entitled, NeedsApproval, Decision
  <2>2. req[h].at = "idle" /\ req'[h].at = "claim_approval" /\ req'[h].task = t /\ req'[h].tier = approval[t].tier /\ req'[h].by = p
    BY <1>2, <1>9 DEF Approve
  <2>. QED BY <1>9, <2>1, <2>2 DEF Approve, Begins
<1>10. ASSUME NEW t \in Tasks, NEW p \in Callers, Deny(h, t, p) PROVE Begins(h, t)
  BY <1>2, <1>10 DEF Deny, Begins
<1>11. ASSUME NEW t \in Tasks, NEW p \in Callers, RequestRollback(h, t, p) PROVE Begins(h, t)
  BY <1>2, <1>11 DEF RequestRollback, Begins
<1>. QED BY <1>3, <1>4, <1>5, <1>6, <1>7, <1>8, <1>9, <1>10, <1>11 DEF Proceeds, Arrive

\* The row of one approval is inserted, or claimed or denied when pending, or
\* its status settles and its reviewer stays.
Reviewed == {"executing", "approved", "execution_failed", "recovery_required"}
Asks(t) == /\ \E h \in Handlers : InsertApproval(h) /\ Doing(h, "insert_approval") /\ req[h].task = t
           /\ approval'[t].status = "pending"
Claimed(t) == /\ \E h \in Handlers : /\ ClaimApproval(h) /\ Doing(h, "claim_approval") /\ req[h].task = t
                                     /\ approval'[t].by = req[h].by
              /\ approval[t].status = "pending" /\ approval'[t].status = "executing"
Denied(t) == approval[t].status = "pending" /\ approval'[t].status = "denied"
Settled(t) == /\ approval[t].status = "executing" \/ \E h \in Handlers : SettleApproval(h) /\ req[h].task = t
              /\ approval'[t].status \in Reviewed \ {"executing"} /\ approval'[t].by = approval[t].by

\* How the row of one approval changes.
LEMMA StatusShape ==
  ASSUME CTypeOK, [CNext]_allVars, NEW t \in Tasks, approval'[t] # approval[t]
  PROVE  \/ Asks(t)
         \/ (Claimed(t) \/ Denied(t) \/ Settled(t)) /\ approval'[t].tier = approval[t].tier
<1>0. /\ approval \in [Tasks -> ApprovalSet] /\ approval[t] \in ApprovalSet /\ req \in [Handlers -> RequestSet]
      /\ \A h \in Handlers : req[h].task \in Tasks
      /\ NoApproval \in ApprovalSet
  BY RecordUpdates DEF CTypeOK, RequestSet, ApprovalSet
<1>1. ASSUME NEW h \in Handlers, InsertApproval(h) PROVE Asks(t)
  <2>1. approval' = [approval EXCEPT ![req[h].task] =
                       [NoApproval EXCEPT !.status = "pending", !.tier = req[h].tier]]
    BY <1>1 DEF InsertApproval
  <2>2. approval'[t].status = "pending" /\ t = req[h].task
    BY <1>0, <2>1 DEF ApprovalSet
  <2>. QED BY <1>1, <2>2 DEF Asks, InsertApproval
<1>2. ASSUME NEW h \in Handlers, SettleApproval(h) PROVE Settled(t) /\ approval'[t].tier = approval[t].tier
  <2>1. PICK s \in Reviewed \ {"executing"} : approval' = [approval EXCEPT ![req[h].task].status = s]
    BY <1>2 DEF SettleApproval, Reviewed
  <2>2. approval'[t].status = s /\ approval'[t].by = approval[t].by /\ t = req[h].task
        /\ approval'[t].tier = approval[t].tier
    BY <1>0, <2>1 DEF ApprovalSet
  <2>. QED BY <1>2, <2>2 DEF Settled
<1>3. ASSUME NEW h \in Handlers, ClaimApproval(h), approval[req[h].task].status = "pending"
      PROVE  Claimed(t) /\ approval'[t].tier = approval[t].tier
  <2>1. approval' = [approval EXCEPT ![req[h].task].status = "executing", ![req[h].task].by = req[h].by]
    BY <1>3 DEF ClaimApproval
  <2>2. /\ approval'[t].status = "executing" /\ approval'[t].by = req[h].by /\ t = req[h].task
        /\ approval'[t].tier = approval[t].tier
    BY <1>0, <2>1 DEF ApprovalSet
  <2>. QED BY <1>3, <2>2 DEF Claimed, ClaimApproval
<1>4. ASSUME NEW h \in Handlers, NEW u \in Tasks, NEW p \in Callers, Deny(h, u, p)
      PROVE  Denied(t) /\ approval'[t].tier = approval[t].tier
  BY <1>0, <1>4 DEF Deny, Denied, ApprovalSet
<1>5. ASSUME NEW u \in Tasks, approval[u].status = "executing",
             approval' = [approval EXCEPT ![u].status = "recovery_required"]
      PROVE  Settled(t) /\ approval'[t].tier = approval[t].tier
  BY <1>0, <1>5 DEF Settled, Reviewed, ApprovalSet
<1>. QED BY <1>1, <1>2, <1>3, <1>4, <1>5, ApprovalShape

-----------------------------------------------------------------------------
(* One request creates a task and asks for its review.                     *)

Creating(h) == req[h].at \in {"guard", "policy", "insert_approval", "run_engine"}
CreateInv ==
  /\ \A h \in Handlers : req[h].at # "idle" => task[req[h].task] # "none"
  /\ \A t \in Tasks : approval[t].status # "none" => task[t] # "none"
  /\ \A g, h \in Handlers : Creating(g) /\ Creating(h) /\ req[g].task = req[h].task => g = h
  /\ \A h \in Handlers : Creating(h) => approval[req[h].task].status = "none"
  /\ \A h \in Handlers : req[h].at = "run_engine" => ~ SideEffect(req[h].task)

\* The claim of an approval is held from its UPDATE to the answer of the
\* engine, by one request; what was claimed stays reviewed, by a reviewer
\* entitled to the tier, and only then is the execution of a write claimed.
Holds(h) == req[h].at \in {"audit_claim", "approve_engine"}
ReviewInv ==
  /\ \A h \in Handlers : req[h].at = "claim_approval" =>
       /\ approval[req[h].task].status # "none" /\ req[h].tier = approval[req[h].task].tier
       /\ Entitled(req[h].by, req[h].tier)
  /\ \A h \in Handlers : Holds(h) => approval[req[h].task].status \in Reviewed
  /\ \A g, h \in Handlers : Holds(g) /\ Holds(h) /\ req[g].task = req[h].task => g = h
  /\ \A t \in Tasks : approval[t].status \in Reviewed => Entitled(approval[t].by, approval[t].tier)
  /\ \A t \in Tasks : SideEffect(t) /\ exec[Primary(t)] # "none" => approval[t].status \in Reviewed

\* Only the creation of a task makes a handler its creator.
LEMMA CreatingShape ==
  ASSUME CTypeOK, CreateInv, [CNext]_allVars, NEW h \in Handlers, Creating(h)'
  PROVE  \/ /\ Creating(h) /\ req'[h].task = req[h].task
            /\ req'[h].at = "run_engine" => ~ SideEffect(req[h].task)
            /\ ~ InsertApproval(h)
         \/ /\ req'[h].at = "guard" /\ task[req'[h].task] = "none"
            /\ \A g \in Handlers \ {h} : req'[g] = req[g]
<1>1. ~ InsertApproval(h)
  BY DEF Creating, InsertApproval, Step, CTypeOK
<1>2. ASSUME req'[h] = req[h] PROVE Creating(h)
  BY <1>2 DEF Creating
<1>3. req'[h] # NoRequest
  BY DEF Creating, NoRequest
<1>4. CASE Proceeds(h) /\ \A g \in Handlers \ {h} : req'[g] = req[g]
  <2>1. ASSUME Advances(h) PROVE /\ Creating(h) /\ req'[h].task = req[h].task
                                 /\ req'[h].at = "run_engine" => ~ SideEffect(req[h].task)
    BY <2>1 DEF Advances, Creating
  <2>2. ASSUME NEW t \in Tasks, Begins(h, t) PROVE req'[h].at = "guard" /\ task[req'[h].task] = "none"
    BY <2>2 DEF Begins, Creating
  <2>. QED BY <1>1, <1>4, <2>1, <2>2, ProceedShape
<1>. QED BY <1>1, <1>2, <1>3, <1>4, RequestShape DEF CreateInv

\* A task is created once, so its creation and its review are asked for once.
LEMMA CreateNext ==
  ASSUME CTypeOK, CreateInv, ReviewInv, [CNext]_allVars
  PROVE  CreateInv'
<1>0. /\ approval \in [Tasks -> ApprovalSet] /\ approval' \in [Tasks -> ApprovalSet]
      /\ \A h \in Handlers : req[h].task \in Tasks /\ req'[h].task \in Tasks
  <2>1. req' \in [Handlers -> RequestSet] /\ req \in [Handlers -> RequestSet]
    BY RequestTypes DEF CTypeOK, RequestSet
  <2>. QED BY <2>1, ApprovalTypes DEF CTypeOK, RequestSet, ApprovalSet
<1>1. ASSUME NEW h \in Handlers, req'[h].at # "idle" PROVE task'[req'[h].task] # "none"
  <2>1. req'[h] # NoRequest
    BY <1>1 DEF NoRequest
  <2>2. CASE req'[h] = req[h]
    BY <1>0, <1>1, <2>2, TaskShape DEF CreateInv
  <2>3. ASSUME Advances(h) PROVE task'[req'[h].task] # "none"
    BY <1>0, <2>3, TaskShape DEF Advances, CreateInv
  <2>4. ASSUME NEW t \in Tasks, Begins(h, t) PROVE task'[req'[h].task] # "none"
    BY <2>4, TaskShape DEF Begins, CreateInv
  <2>. QED BY <2>1, <2>2, <2>3, <2>4, RequestShape, ProceedShape
<1>2. ASSUME NEW t \in Tasks, approval'[t].status # "none" PROVE task'[t] # "none"
  <2>1. CASE approval'[t] = approval[t]
    BY <1>2, <2>1, TaskShape DEF CreateInv
  <2>2. CASE Asks(t)
    <3>1. task[t] # "none"
      BY <2>2 DEF Asks, Doing, CreateInv
    <3>. QED BY <3>1, TaskShape
  <2>3. CASE approval[t].status # "none"
    BY <2>3, TaskShape DEF CreateInv
  <2>4. CASE Settled(t) /\ \E h \in Handlers : SettleApproval(h) /\ req[h].task = t
    <3>1. task[t] # "none"
      BY <2>4 DEF SettleApproval, Doing, CreateInv
    <3>. QED BY <3>1, TaskShape
  <2>. QED BY <2>1, <2>2, <2>3, <2>4, StatusShape DEF Claimed, Denied, Settled
<1>3. ASSUME NEW g \in Handlers, NEW h \in Handlers, Creating(g)', Creating(h)', req'[g].task = req'[h].task
      PROVE  g = h
  <2>1. ASSUME NEW f \in Handlers, NEW e \in Handlers, Creating(f)', Creating(e)', req'[f].task = req'[e].task,
               req'[f].at = "guard" /\ task[req'[f].task] = "none", \A x \in Handlers \ {f} : req'[x] = req[x]
        PROVE  f = e
    <3>1. SUFFICES ASSUME f # e PROVE FALSE
      OBVIOUS
    <3>2. Creating(e) /\ req'[e].task = req[e].task
      BY <2>1, <3>1 DEF Creating
    <3>. QED BY <2>1, <3>2 DEF CreateInv, Creating
  <2>. QED BY <1>3, <2>1, CreatingShape DEF CreateInv
<1>4. ASSUME NEW h \in Handlers, Creating(h)' PROVE approval'[req'[h].task].status = "none"
  <2>1. ASSUME approval[req'[h].task].status = "none", ~ Asks(req'[h].task)
        PROVE  approval'[req'[h].task].status = "none"
    <3>1. SUFFICES ASSUME Settled(req'[h].task) PROVE FALSE
      BY <1>0, <2>1, StatusShape DEF Claimed, Denied
    <3>2. PICK g \in Handlers : SettleApproval(g) /\ req[g].task = req'[h].task
      BY <2>1, <3>1 DEF Settled
    <3>3. Holds(g)
      BY <3>2 DEF SettleApproval, Doing, Holds
    <3>. QED BY <2>1, <3>2, <3>3 DEF ReviewInv, Reviewed
  <2>2. ~ Asks(req'[h].task)
    <3>1. SUFFICES ASSUME NEW g \in Handlers, InsertApproval(g), Doing(g, "insert_approval"), req[g].task = req'[h].task
                   PROVE  FALSE
      BY DEF Asks
    <3>2. Creating(g)
      BY <3>1 DEF Doing, Creating
    <3>3. CASE Creating(h) /\ req'[h].task = req[h].task /\ ~ InsertApproval(h)
      BY <3>1, <3>2, <3>3 DEF CreateInv
    <3>4. CASE task[req'[h].task] = "none"
      BY <3>1, <3>4 DEF CreateInv, Doing
    <3>. QED BY <1>4, <3>3, <3>4, CreatingShape
  <2>3. approval[req'[h].task].status = "none"
    BY <1>0, <1>4, CreatingShape DEF CreateInv
  <2>. QED BY <2>1, <2>2, <2>3
<1>5. ASSUME NEW h \in Handlers, req'[h].at = "run_engine" PROVE ~ SideEffect(req'[h].task)
  BY <1>5, CreatingShape DEF Creating
<1>. QED BY <1>1, <1>2, <1>3, <1>4, <1>5 DEF CreateInv, Creating

\* What was reviewed stays reviewed, by whom it was; what was asked is for the
\* same tier; and a pending approval is taken by the claim or the denial only.
LEMMA ReviewKept ==
  ASSUME CTypeOK, CreateInv, ReviewInv, [CNext]_allVars, NEW t \in Tasks
  PROVE  /\ approval[t].status # "none" => approval'[t].status # "none" /\ approval'[t].tier = approval[t].tier
         /\ approval[t].status \in Reviewed
              => approval'[t].status \in Reviewed /\ approval'[t].by = approval[t].by
         /\ approval[t].status = "denied" => approval'[t] = approval[t]
         /\ approval[t].status \notin Reviewed /\ approval'[t].status \in Reviewed => Claimed(t)
<1>1. ASSUME Asks(t) PROVE approval[t].status = "none" /\ approval'[t].status = "pending"
  BY <1>1 DEF Asks, CreateInv, Creating, Doing
<1>2. ASSUME Settled(t)
      PROVE  /\ approval[t].status \in Reviewed /\ approval'[t].status \in Reviewed
             /\ approval'[t].by = approval[t].by
  <2>1. ASSUME NEW h \in Handlers, SettleApproval(h), req[h].task = t PROVE approval[t].status \in Reviewed
    BY <2>1 DEF SettleApproval, Doing, ReviewInv, Holds
  <2>. QED BY <1>2, <2>1 DEF Settled, Reviewed
<1>. QED BY <1>1, <1>2, StatusShape DEF Claimed, Denied, Reviewed

\* A handler comes to claim an approval, or to hold it, step by step.
LEMMA HoldingShape ==
  ASSUME CTypeOK, [CNext]_allVars, NEW h \in Handlers,
         req'[h].at \in {"claim_approval", "audit_claim", "approve_engine"}
  PROVE  \/ req'[h] = req[h]
         \/ /\ req'[h].at = "claim_approval" /\ approval[req'[h].task].status = "pending"
            /\ req'[h].task \in Tasks
            /\ req'[h].tier = approval[req'[h].task].tier /\ Entitled(req'[h].by, req'[h].tier)
            /\ approval' = approval
         \/ /\ ClaimApproval(h) /\ approval[req[h].task].status = "pending" /\ req'[h].task = req[h].task
            /\ \A g \in Handlers \ {h} : req'[g] = req[g]
         \/ AuditClaim(h) /\ req[h].at = "audit_claim" /\ req'[h].task = req[h].task
<1>1. req'[h] # NoRequest
  BY DEF NoRequest
<1>2. ASSUME Advances(h), \A g \in Handlers \ {h} : req'[g] = req[g]
      PROVE  \/ /\ ClaimApproval(h) /\ approval[req[h].task].status = "pending" /\ req'[h].task = req[h].task
                /\ \A g \in Handlers \ {h} : req'[g] = req[g]
             \/ AuditClaim(h) /\ req[h].at = "audit_claim" /\ req'[h].task = req[h].task
  BY <1>2 DEF Advances
<1>3. ASSUME NEW t \in Tasks, Begins(h, t)
      PROVE  /\ req'[h].at = "claim_approval" /\ approval[req'[h].task].status = "pending"
             /\ req'[h].task \in Tasks
             /\ req'[h].tier = approval[req'[h].task].tier /\ Entitled(req'[h].by, req'[h].tier)
             /\ approval' = approval
  BY <1>3 DEF Begins
<1>. QED BY <1>1, <1>2, <1>3, RequestShape, ProceedShape

\* Whatever the step, a row of the ledger is new only by a claim.
LEMMA ClaimMoves ==
  ASSUME EngineTypeOK, LedgerInv, EngineMoves, NEW k \in Keys, exec[k] = "none", exec'[k] # "none"
  PROVE  \E h \in Handlers : \/ Claim(h) /\ k = Key(h)
                             \/ RbLedger(h) /\ k = RbKey(h)
<1>1. exec \in [Keys -> ExecStatus]
  BY DEF EngineTypeOK
<1>2. ASSUME NEW j \in Keys, LateEffect(j) \/ InterruptExecution(j) PROVE FALSE
  BY <1>1, <1>2 DEF LateEffect, InterruptExecution, ledgerVars
<1>3. ASSUME NEW c \in Comps, InterruptCompensation(c) PROVE FALSE
  BY <1>3 DEF InterruptCompensation, ledgerVars
<1>. QED BY <1>2, <1>3, ClaimShape DEF EngineMoves, Apart

\* The execution of a write is claimed by the request that holds its approval.
LEMMA WriteClaimed ==
  ASSUME CTypeOK, LinkInv, CreateInv, NEW h \in Handlers, Executes(h), SideEffect(ctx[h].task)
  PROVE  req[h].at = "approve_engine" /\ ctx[h].task = req[h].task /\ Holds(h)
BY DEF LinkInv, CallMatches, CreateInv, Holds

\* An approval is claimed once, by whom it entitles, and before the execution.
LEMMA ReviewNext ==
  ASSUME CTypeOK, EngineInv, LinkInv, CreateInv, ReviewInv, [CNext]_allVars
  PROVE  ReviewInv'
<1>0. /\ \A h \in Handlers : req[h].task \in Tasks /\ req'[h].task \in Tasks
      /\ EngineTypeOK /\ LedgerInv /\ exec \in [Keys -> ExecStatus]
  BY RequestTypes DEF CTypeOK, RequestSet, EngineTypeOK, EngineInv
<1>1. ASSUME NEW h \in Handlers, req'[h].at = "claim_approval"
      PROVE  /\ approval'[req'[h].task].status # "none" /\ req'[h].tier = approval'[req'[h].task].tier
             /\ Entitled(req'[h].by, req'[h].tier)
  <2>1. CASE req'[h] = req[h]
    BY <1>0, <1>1, <2>1, ReviewKept DEF ReviewInv
  <2>2. ASSUME ClaimApproval(h) \/ AuditClaim(h) PROVE FALSE
    BY <1>1, <2>2 DEF ClaimApproval, AuditClaim, Step, End, NoRequest, CTypeOK
  <2>. QED BY <1>1, <2>1, <2>2, HoldingShape
<1>2. ASSUME NEW h \in Handlers, Holds(h)'
      PROVE  \/ Holds(h) /\ req'[h].task = req[h].task
             \/ /\ approval[req'[h].task].status = "pending" /\ approval'[req'[h].task].status = "executing"
                /\ \A g \in Handlers \ {h} : req'[g] = req[g]
  <2>1. ASSUME ClaimApproval(h), approval[req[h].task].status = "pending", req'[h].task = req[h].task
        PROVE  approval[req'[h].task].status = "pending" /\ approval'[req'[h].task].status = "executing"
    <3>1. approval[req[h].task] \in ApprovalSet /\ approval \in [Tasks -> ApprovalSet]
      BY <1>0 DEF CTypeOK, ApprovalSet
    <3>2. approval' = [approval EXCEPT ![req[h].task].status = "executing", ![req[h].task].by = req[h].by]
      BY <2>1 DEF ClaimApproval
    <3>3. approval'[req[h].task].status = "executing"
      BY <1>0, <3>1, <3>2 DEF ApprovalSet
    <3>. QED BY <2>1, <3>3
  <2>. QED BY <1>2, <2>1, HoldingShape DEF Holds
<1>3. ASSUME NEW h \in Handlers, Holds(h)' PROVE approval'[req'[h].task].status \in Reviewed
  BY <1>0, <1>2, <1>3, ReviewKept DEF ReviewInv, Reviewed
<1>4. ASSUME NEW g \in Handlers, NEW h \in Handlers, Holds(g)', Holds(h)', req'[g].task = req'[h].task
      PROVE  g = h
  <2>1. ASSUME NEW f \in Handlers, NEW e \in Handlers, Holds(e)', req'[f].task = req'[e].task,
               approval[req'[f].task].status = "pending", \A x \in Handlers \ {f} : req'[x] = req[x]
        PROVE  f = e
    <3>1. SUFFICES ASSUME f # e PROVE FALSE
      OBVIOUS
    <3>2. Holds(e) /\ req'[e].task = req[e].task
      BY <2>1, <3>1 DEF Holds
    <3>. QED BY <2>1, <3>2 DEF ReviewInv, Reviewed
  <2>. QED BY <1>2, <1>4, <2>1 DEF ReviewInv
<1>5. ASSUME NEW t \in Tasks, approval'[t].status \in Reviewed
      PROVE  Entitled(approval'[t].by, approval'[t].tier)
  <2>1. CASE approval[t].status \in Reviewed
    <3>1. approval'[t].tier = approval[t].tier /\ approval'[t].by = approval[t].by
      BY <2>1, ReviewKept DEF Reviewed
    <3>. QED BY <2>1, <3>1 DEF ReviewInv
  <2>2. CASE Claimed(t)
    <3>1. PICK h \in Handlers : /\ ClaimApproval(h) /\ Doing(h, "claim_approval") /\ req[h].task = t
                                /\ approval'[t].by = req[h].by
      BY <2>2 DEF Claimed
    <3>2. approval'[t].tier = approval[t].tier
      BY <2>2, ReviewKept DEF Claimed
    <3>. QED BY <3>1, <3>2 DEF ReviewInv, Doing
  <2>. QED BY <1>5, <2>1, <2>2, ReviewKept
<1>6. ASSUME NEW t \in Tasks, SideEffect(t), exec'[Primary(t)] # "none" PROVE approval'[t].status \in Reviewed
  <2>1. CASE exec[Primary(t)] # "none"
    BY <1>6, <2>1, ReviewKept DEF ReviewInv
  <2>2. CASE exec[Primary(t)] = "none"
    <3>1. PICK h \in Handlers : \/ Claim(h) /\ Primary(t) = Key(h)
                                \/ RbLedger(h) /\ Primary(t) = RbKey(h)
      BY <1>0, <1>6, <2>2, ClaimMoves, ControlMoves, CallTypes
    <3>2. Claim(h) /\ t = ctx[h].task
      BY <1>0, <3>1, KeyKinds DEF Key, Primary
    <3>3. Executes(h)
      BY <3>2 DEF Claim, At, Executes, ExecutePositions
    <3>4. approval[t].status \in Reviewed
      BY <1>6, <3>2, <3>3, WriteClaimed DEF ReviewInv
    <3>. QED BY <3>4, ReviewKept
  <2>. QED BY <2>1, <2>2
<1>. QED BY <1>1, <1>3, <1>4, <1>5, <1>6 DEF ReviewInv, Holds

-----------------------------------------------------------------------------
(* One executor, one compensation.                                         *)

\* A task is executed by one request at a time: by the one that created it, or
\* by the one that holds its approval.
LEMMA OneExecutor ==
  ASSUME LinkInv, CreateInv, ReviewInv, NEW g \in Handlers, NEW h \in Handlers,
         Executes(g), Executes(h), ctx[g].task = ctx[h].task
  PROVE  g = h
<1>1. /\ req[g].at \in {"run_engine", "approve_engine"} /\ req[h].at \in {"run_engine", "approve_engine"}
      /\ req[g].task = req[h].task
  BY DEF LinkInv, CallMatches
<1>2. CASE req[g].at = "run_engine" /\ req[h].at = "run_engine"
  BY <1>1, <1>2 DEF CreateInv, Creating
<1>3. CASE req[g].at = "approve_engine" /\ req[h].at = "approve_engine"
  BY <1>1, <1>3 DEF ReviewInv, Holds
<1>4. ASSUME NEW e \in Handlers, NEW f \in Handlers, req[e].task = req[f].task,
             req[e].at = "run_engine", req[f].at = "approve_engine"
      PROVE  FALSE
  <2>1. approval[req[e].task].status = "none"
    BY <1>4 DEF CreateInv, Creating
  <2>2. approval[req[f].task].status \in Reviewed
    BY <1>4 DEF ReviewInv, Holds
  <2>. QED BY <1>4, <2>1, <2>2 DEF Reviewed
<1>. QED BY <1>1, <1>2, <1>3, <1>4

\* A task has at most one compensation, and none when the SELECT of the handler
\* that is about to insert one has found none.
SingleInv ==
  /\ \A t \in Tasks, i, j \in CompIds : comp[<<t, i>>] # "none" /\ comp[<<t, j>>] # "none" => i = j
  /\ \A h \in Handlers : pc[h] = "comp_insert" => \A i \in CompIds : comp[<<ctx[h].task, i>>] = "none"

\* A compensation is new only by the INSERT of the executor of its task.
LEMMA NewComp ==
  ASSUME EngineTypeOK, EngineMoves, NEW t \in Tasks, NEW i \in CompIds,
         comp[<<t, i>>] = "none", comp'[<<t, i>>] # "none"
  PROVE  \E h \in Handlers : CompInsert(h) /\ t = ctx[h].task
<1>1. comp \in [Comps -> CompStatus] /\ <<t, i>> \in Comps
  BY CallTypes DEF EngineTypeOK
<1>2. ASSUME NEW h \in Handlers, EngineStep(h) PROVE CompInsert(h) /\ t = ctx[h].task
  BY <1>1, <1>2, CompShape
<1>3. ASSUME NEW k \in Keys, LateEffect(k) \/ InterruptExecution(k) PROVE FALSE
  BY <1>3 DEF LateEffect, InterruptExecution
<1>4. ASSUME NEW c \in Comps, InterruptCompensation(c) PROVE FALSE
  BY <1>1, <1>4 DEF InterruptCompensation, CasComp
<1>. QED BY <1>2, <1>3, <1>4 DEF EngineMoves, Apart

\* Where a handler gets other than by a statement of the engine.
LEMMA Stays ==
  ASSUME EngineTypeOK, OnceInv, EngineMoves, NEW h \in Handlers,
         pc'[h] \notin {"lookup", "rb_read", "raised", "rb_fail_ledger", "idle"}
  PROVE  (pc'[h] = pc[h] /\ ctx'[h] = ctx[h]) \/ EngineStep(h)
<1>1. ASSUME NEW g \in Handlers, EngineStep(g), g # h PROVE pc'[h] = pc[h] /\ ctx'[h] = ctx[h]
  BY <1>1, Moves DEF OnceInv
<1>2. ASSUME NEW k \in Keys, LateEffect(k) \/ InterruptExecution(k) PROVE pc' = pc /\ ctx' = ctx
  BY <1>2 DEF LateEffect, InterruptExecution
<1>3. ASSUME NEW c \in Comps, InterruptCompensation(c) PROVE pc' = pc /\ ctx' = ctx
  BY <1>3 DEF InterruptCompensation
<1>. QED BY <1>1, <1>2, <1>3 DEF EngineMoves, Apart

\* The SELECT and the INSERT of a compensation are not atomic, but the executor
\* of the task is alone.
LEMMA SingleNext ==
  ASSUME EngineTypeOK, OnceInv, EngineMoves, LinkInv, CreateInv, ReviewInv, SingleInv
  PROVE  SingleInv'
<1>0. \A h \in Handlers : ctx[h].task \in Tasks
  BY DEF EngineTypeOK, Calls
<1>1. ASSUME NEW h \in Handlers, CompInsert(h)
      PROVE  /\ pc[h] = "comp_insert" /\ Executes(h) /\ pc'[h] = "verify"
             /\ \E i \in CompIds : comp' = [comp EXCEPT ![<<ctx[h].task, i>>] = "available"]
  BY <1>1 DEF CompInsert, At, Goto, Executes, ExecutePositions, EngineTypeOK
<1>2. ASSUME NEW t \in Tasks, NEW i \in CompIds, NEW j \in CompIds,
             comp'[<<t, i>>] # "none", comp'[<<t, j>>] # "none"
      PROVE  i = j
  <2>1. CASE comp[<<t, i>>] # "none" /\ comp[<<t, j>>] # "none"
    BY <2>1 DEF SingleInv
  <2>2. CASE comp[<<t, i>>] = "none" \/ comp[<<t, j>>] = "none"
    <3>1. PICK h \in Handlers : CompInsert(h) /\ t = ctx[h].task
      BY <1>2, <2>2, NewComp
    <3>2. comp[<<t, i>>] = "none" /\ comp[<<t, j>>] = "none"
      BY <1>1, <3>1 DEF SingleInv
    <3>3. PICK n \in CompIds : comp' = [comp EXCEPT ![<<t, n>>] = "available"]
      BY <1>1, <3>1
    <3>4. <<t, i>> = <<t, n>> /\ <<t, j>> = <<t, n>>
      BY <1>2, <3>2, <3>3
    <3>. QED BY <3>4
  <2>. QED BY <2>1, <2>2
<1>3. ASSUME NEW h \in Handlers, pc'[h] = "comp_insert", NEW i \in CompIds
      PROVE  comp'[<<ctx'[h].task, i>>] = "none"
  <2>1. CASE pc[h] = "comp_insert" /\ ctx'[h] = ctx[h]
    <3>1. SUFFICES ASSUME NEW g \in Handlers, CompInsert(g), ctx[h].task = ctx[g].task PROVE FALSE
      BY <1>0, <1>3, <2>1, NewComp DEF SingleInv
    <3>2. g = h
      BY <1>1, <2>1, <3>1, OneExecutor DEF Executes, ExecutePositions
    <3>. QED BY <1>1, <1>3, <3>1, <3>2
  <2>2. CASE EngineStep(h)
    <3>1. CompLookup(h)
      BY <1>3, <2>2, Entries
    <3>2. comp' = comp /\ ctx' = ctx /\ \A n \in CompIds : comp[<<ctx[h].task, n>>] = "none"
      BY <1>3, <3>1 DEF CompLookup, Goto, EngineTypeOK
    <3>. QED BY <3>2
  <2>. QED BY <1>3, <2>1, <2>2, Stays
<1>. QED BY <1>2, <1>3 DEF SingleInv

\* So there is at most one reversal: without a row in the ledger a reversal has
\* no effect, and no such row without a compensation that was claimed.
LEMMA SingleReversal ==
  ASSUME EngineInv, SingleInv
  PROVE  OneReversal
<1>1. ASSUME NEW t \in Tasks, NEW r \in Reversals(t)
      PROVE  r[1] \in CompIds /\ r[2] = 1 /\ r = <<r[1], 1>> /\ comp[<<t, r[1]>>] # "none"
  <2>1. /\ r \in CompIds \X (1 .. 2) /\ r[1] \in CompIds /\ r[2] \in 1 .. 2 /\ r = <<r[1], r[2]>>
        /\ effect[<<t, r[1]>>] >= r[2]
    BY DEF Reversals
  <2>2. <<t, r[1]>> \in Keys /\ <<t, r[1]>> \in Comps
    BY <2>1, CallTypes
  <2>3. effect[<<t, r[1]>>] \in Nat /\ effect[<<t, r[1]>>] <= 1
    BY <2>2 DEF EngineInv, EngineTypeOK, OnceInv
  <2>4. r[2] = 1 /\ effect[<<t, r[1]>>] > 0
    BY <2>1, <2>3
  <2>5. exec[<<t, r[1]>>] # "none"
    BY <2>2, <2>4 DEF EngineInv, OnceInv, Touched
  <2>6. comp[<<t, r[1]>>] # "none"
    BY <2>2, <2>5 DEF EngineInv, ReversalInv, Fresh
  <2>. QED BY <2>1, <2>4, <2>6
<1>2. ASSUME NEW t \in Tasks, NEW r \in Reversals(t), NEW s \in Reversals(t) PROVE r = s
  <2>1. r[1] = s[1]
    BY <1>1 DEF SingleInv
  <2>. QED BY <1>1, <2>1
<1>. QED BY <1>2 DEF OneReversal, SingleInv

-----------------------------------------------------------------------------
(* What is shown as completed has its receipt.                             *)

\* An execution row that is executing leaves that status for another one than
\* completed only when its executor gives up or its rollback fails.
LEMMA GivenUp ==
  ASSUME EngineTypeOK, NEW h \in Handlers, EngineStep(h), NEW k \in Keys,
         exec[k] = "executing", exec'[k] \notin {"executing", "completed"}
  PROVE  \/ GiveUp(h) /\ k = Key(h)
         \/ RbFailLedger(h) /\ k = RbKey(h)
<1>0. /\ exec \in [Keys -> ExecStatus] /\ Key(h) \in Keys /\ RbKey(h) \in Keys
  BY KeyKinds DEF EngineTypeOK
<1>1. \/ exec' = exec
      \/ Claim(h) \/ RbLedger(h) \/ Receipt(h) \/ ReceiptRaises(h) \/ RbReceipt(h)
      \/ GiveUp(h) \/ RbFailLedger(h)
  BY DEF EngineStep, ExecuteStep, RollbackStep, ledgerVars, Lookup, JitPolicy,
       FinishBlocked, Reread, RunTool, ToolRaises, Retry, CheckpointExecute, CompLookup, CompInsert, Verify,
       FinishCompleted, AuditExecuted, FinishFailed, FinishRecovery, RbRead, RbClaim, RbExecute,
       RbToolRaises, RbUse, RbFailComp, RbFailTask, RbFinish, RbAudit
<1>2. CASE Claim(h) \/ RbLedger(h)
  BY <1>0, <1>2 DEF Claim, RbLedger, Insert
<1>3. CASE Receipt(h) \/ ReceiptRaises(h) \/ RbReceipt(h)
  BY <1>0, <1>3 DEF Receipt, ReceiptRaises, RbReceipt, Settle, ledgerVars
<1>4. CASE GiveUp(h)
  BY <1>0, <1>4 DEF GiveUp, Settle
<1>5. CASE RbFailLedger(h)
  BY <1>0, <1>5 DEF RbFailLedger, Settle
<1>. QED BY <1>1, <1>2, <1>3, <1>4, <1>5

\* The strengthening of CompletedIsBacked: the row a handler is executing is
\* not old, so no scan settles it; and past the receipt the row is completed.
Calling == {"execute", "receipt", "tool_raised"}
Receipted == {"checkpoint_execute", "comp_lookup", "comp_insert", "verify", "finish_completed", "audit_executed"}
ReceiptsInv ==
  /\ \A k \in Keys : <<"executions", k>> \in aged => exec[k] # "none"
  /\ \A w \in Workers : scan[w].at = "executions" => \A r \in scan[w].todo : <<"executions", r>> \in aged
  /\ \A h \in Handlers : pc[h] \in Calling =>
       exec[Key(h)] \in {"executing", "completed"} /\ <<"executions", Key(h)>> \notin aged
  /\ \A h \in Handlers : pc[h] \in Receipted => exec[Key(h)] = "completed"
  /\ CompletedIsBacked

\* An execution grows old while it is executing and nobody is at its task.
LEMMA AgedShape ==
  ASSUME [CNext]_allVars
  PROVE  /\ aged \subseteq aged'
         /\ \A k \in Keys : <<"executions", k>> \in aged' \ aged =>
              exec' = exec /\ exec[k] = "executing" /\ Quiet(k[1])
<1>1. ASSUME NEW i \in 1 .. 4, NEW r \in RowsOf[Tables[i]], Age(Tables[i], r),
             NEW k \in Keys, <<"executions", k>> \in aged' \ aged
      PROVE  exec' = exec /\ exec[k] = "executing" /\ Quiet(k[1])
  <2>1. <<"executions", k>> = <<Tables[i], r>>
    BY <1>1 DEF Age
  <2>2. Tables[i] = "executions" /\ r = k
    BY <2>1
  <2>3. Age("executions", k)
    BY <1>1, <2>2
  <2>. QED BY <2>3 DEF Age, Interrupted, TaskOf, Quiet, vars
<1>2. AnyAge => aged \subseteq aged'
  BY DEF AnyAge, Age
<1>3. ASSUME NEW h \in Handlers, Talks(h) PROVE aged' = aged
  BY <1>3 DEF Talks, Arrive, Create, Approve, Deny, RequestRollback, GuardAndPlan, DecidePolicy, InsertApproval,
     FinishPending, PolicyBlocked, ClaimApproval, AuditClaim, DenyTask, Elsewhere
<1>4. ASSUME \/ UNCHANGED httpVars \/ UNCHANGED allVars
             \/ \E h \in Handlers : Leaves(h) \/ EnterEngine(h) \/ EngineFault(h)
             \/ \E w \in Workers : Crash(w) \/ ScanStep(w)
      PROVE  aged' = aged
  BY <1>4 DEF httpVars, allVars, Leaves, SettleApproval, LeaveEngine, RequestFault, Elsewhere, EnterEngine,
     EngineFault, Crash, ScanStep, Start, ScanNext, ScanTask, ScanRow
<1>. QED BY <1>1, <1>2, <1>3, <1>4, CNextSplit DEF AnyAge

\* The rows a scan has to settle are old.
LEMMA ScanOld ==
  ASSUME CTypeOK, ReceiptsInv, [CNext]_allVars, NEW w \in Workers, scan'[w].at = "executions",
         NEW r \in scan'[w].todo
  PROVE  <<"executions", r>> \in aged'
<1>0. scan \in [Workers -> ScanSet] /\ "executions" \in DOMAIN RowsOf /\ aged \subseteq aged'
  BY Rows, AgedShape DEF CTypeOK, ScanSet
<1>1. CASE scan'[w].at = scan[w].at /\ scan'[w].todo \subseteq scan[w].todo
  BY <1>0, <1>1 DEF ReceiptsInv
<1>2. ASSUME NEW v \in Workers, NEW table \in DOMAIN RowsOf, Scan(v, table), v # w \/ table = "executions"
      PROVE  <<"executions", r>> \in aged'
  <2>1. CASE v = w
    <3>1. scan'[w].todo = Stale("executions")
      BY <1>0, <1>2, <2>1 DEF Scan
    <3>. QED BY <1>0, <3>1, StaleRows
  <2>2. CASE v # w
    BY <1>0, <1>1, <1>2, <2>2 DEF Scan
  <2>. QED BY <2>1, <2>2
<1>3. ASSUME NEW v \in Workers, NEW table \in DOMAIN RowsOf, Scan(v, table) PROVE v # w \/ table = "executions"
  BY <1>0, <1>3 DEF Scan
<1>4. ASSUME NEW v \in Workers, NEW l \in {"up", "down"}, scan' = [scan EXCEPT ![v] = NoScan(l)]
      PROVE  scan'[w] = scan[w]
  BY <1>0, <1>4 DEF NoScan
<1>5. ASSUME NEW v \in Workers, ScanStep(v)
      PROVE  \/ \E table \in DOMAIN RowsOf : Scan(v, table)
             \/ scan' = [scan EXCEPT ![v] = NoScan("up")]
             \/ scan' = [scan EXCEPT ![v].due = NoTask]
             \/ \E s, d : scan' = [scan EXCEPT ![v].todo = @ \ {s}, ![v].due = d]
  <2>1. CASE Start(v)
    BY <2>1, Rows DEF Start
  <2>2. CASE ScanNext(v)
    <3>1. PICK i \in 1 .. 4 : IF i < 4 THEN Scan(v, Tables[i + 1]) ELSE scan' = [scan EXCEPT ![v] = NoScan("up")]
      BY <2>2 DEF ScanNext
    <3>2. i < 4 => i + 1 \in 1 .. 4
      OBVIOUS
    <3>. QED BY <3>1, <3>2, Rows
  <2>3. ASSUME NEW x \in scan[v].todo, ScanRow(v, x)
        PROVE  \E s, d : scan' = [scan EXCEPT ![v].todo = @ \ {s}, ![v].due = d]
    BY <2>3 DEF ScanRow
  <2>. QED BY <1>5, <2>1, <2>2, <2>3 DEF ScanStep, ScanTask
<1>6. ASSUME NEW v \in Workers,
             \/ scan' = [scan EXCEPT ![v].due = NoTask]
             \/ \E s, d : scan' = [scan EXCEPT ![v].todo = @ \ {s}, ![v].due = d]
      PROVE  scan'[w].at = scan[w].at /\ scan'[w].todo \subseteq scan[w].todo
  <2>1. CASE scan' = [scan EXCEPT ![v].due = NoTask]
    BY <1>0, <2>1 DEF ScanSet
  <2>2. ASSUME NEW s, NEW d, scan' = [scan EXCEPT ![v].todo = @ \ {s}, ![v].due = d]
        PROVE  scan'[w].at = scan[w].at /\ scan'[w].todo \subseteq scan[w].todo
    BY <1>0, <2>2 DEF ScanSet
  <2>. QED BY <1>6, <2>1, <2>2
<1>7. ASSUME NEW v \in Workers, ScanStep(v) PROVE <<"executions", r>> \in aged'
  BY <1>1, <1>2, <1>3, <1>4, <1>5, <1>6, <1>7
<1>8. ASSUME NEW v \in Workers, Crash(v) PROVE <<"executions", r>> \in aged'
  BY <1>1, <1>4, <1>8 DEF Crash
<1>9. ASSUME NEW h \in Handlers, Talks(h) PROVE scan' = scan
  BY <1>9 DEF Talks, Arrive, Create, Approve, Deny, RequestRollback, GuardAndPlan, DecidePolicy, InsertApproval,
     FinishPending, PolicyBlocked, ClaimApproval, AuditClaim, DenyTask, Elsewhere
<1>10. ASSUME \/ UNCHANGED httpVars \/ UNCHANGED allVars \/ AnyAge
              \/ \E h \in Handlers : Leaves(h) \/ EnterEngine(h) \/ EngineFault(h)
       PROVE  scan' = scan
  BY <1>10 DEF httpVars, allVars, Leaves, SettleApproval, LeaveEngine, RequestFault, Elsewhere, EnterEngine,
     EngineFault, AnyAge, Age
<1>. QED BY <1>1, <1>7, <1>8, <1>9, <1>10, CNextSplit

\* So the row a handler is executing is settled by that handler, or is old.
LEMMA RowLeaves ==
  ASSUME CTypeOK, ReceiptsInv, [CNext]_allVars, NEW t \in Tasks,
         exec[Primary(t)] = "executing", exec'[Primary(t)] \notin {"executing", "completed"}
  PROVE  \/ \E h \in Handlers : GiveUp(h) /\ EngineStep(h) /\ t = ctx[h].task
         \/ <<"executions", Primary(t)>> \in aged
<1>0. exec \in [Keys -> ExecStatus] /\ EngineTypeOK /\ Primary(t) \in Keys
  BY CallTypes DEF CTypeOK, EngineTypeOK
<1>1. ASSUME NEW h \in Handlers, EngineStep(h) PROVE GiveUp(h) /\ t = ctx[h].task
  BY <1>0, <1>1, GivenUp, KeyKinds DEF Key, Primary
<1>2. ASSUME NEW w \in Workers, ScanStep(w) PROVE <<"executions", Primary(t)>> \in aged
  <2>1. ASSUME Start(w) \/ ScanNext(w) \/ ScanTask(w) PROVE FALSE
    BY <2>1 DEF Start, ScanNext, ScanTask, MarkRecovery, ledgerVars, vars
  <2>2. PICK r \in scan[w].todo : ScanRow(w, r)
    BY <1>2, <2>1 DEF ScanStep
  <2>3. scan[w].at = "executions" /\ InterruptExecution(r)
    BY <2>2 DEF ScanRow, vars, evars, InterruptCompensation, ledgerVars
  <2>4. r = Primary(t)
    BY <1>0, <2>3 DEF InterruptExecution
  <2>. QED BY <2>2, <2>3, <2>4 DEF ReceiptsInv
<1>3. ASSUME NEW h \in Handlers, Talks(h) \/ Leaves(h) \/ EnterEngine(h) \/ EngineFault(h) PROVE exec' = exec
  <2>1. CASE Talks(h)
    BY <1>0, <2>1, TalksApart DEF evars
  <2>2. CASE Leaves(h)
    BY <1>0, <2>2, LeavesApart DEF Apart
  <2>3. CASE EnterEngine(h) \/ EngineFault(h)
    BY <2>3 DEF EnterEngine, EngineFault, CallExecute, CallRollback, DbError, ledgerVars
  <2>. QED BY <1>3, <2>1, <2>2, <2>3
<1>4. ASSUME \/ UNCHANGED allVars \/ AnyAge
             \/ \E k \in Keys : LateEffect(k)
             \/ \E w \in Workers : Crash(w)
      PROVE  exec' = exec
  BY <1>4 DEF allVars, vars, AnyAge, Age, LateEffect, Crash, ledgerVars
<1>. QED BY <1>1, <1>2, <1>3, <1>4, CNextSplit

\* A handler calls the tool with the row it claimed, and goes on with it
\* completed.
LEMMA CallingNext ==
  ASSUME CTypeOK, EngineInv, EngineInv', LinkInv, CreateInv, ReviewInv, ReceiptsInv, [CNext]_allVars,
         NEW h \in Handlers
  PROVE  /\ pc'[h] \in Calling => /\ exec'[Key(h)'] \in {"executing", "completed"}
                                  /\ <<"executions", Key(h)'>> \notin aged'
         /\ pc'[h] \in Receipted => exec'[Key(h)'] = "completed"
<1>0. /\ exec \in [Keys -> ExecStatus] /\ output \in [Keys -> Results] /\ EngineTypeOK /\ EngineTypeOK'
      /\ EngineMoves /\ OnceInv /\ OnceInv' /\ ctx[h] \in Calls /\ ctx \in [Handlers -> Calls]
      /\ ctx[h].task \in Tasks /\ Key(h) \in Keys /\ pc \in [Handlers -> Positions]
  BY ControlMoves, KeyKinds DEF EngineInv, EngineTypeOK, Calls
<1>1. \A k \in Keys : exec[k] = "completed" => exec'[k] = "completed"
  BY <1>0, Kept
<1>2. Executes(h) => req[h].at # "idle" /\ req[h].task = ctx[h].task
  BY DEF LinkInv, CallMatches
<1>3. Executes(h) => (<<"executions", Key(h)>> \in aged' => <<"executions", Key(h)>> \in aged)
  BY <1>0, <1>2, AgedShape DEF Quiet, Key, Primary
<1>4. CASE pc'[h] = pc[h] /\ ctx'[h] = ctx[h]
  <2>1. Key(h)' = Key(h)
    BY <1>4 DEF Key, Primary
  <2>2. ASSUME pc[h] \in Calling
        PROVE  exec'[Key(h)] \in {"executing", "completed"} /\ <<"executions", Key(h)>> \notin aged'
    <3>1. Executes(h) /\ exec[Key(h)] \in {"executing", "completed"} /\ <<"executions", Key(h)>> \notin aged
      BY <2>2 DEF Calling, Executes, ExecutePositions, ReceiptsInv
    <3>2. ASSUME NEW g \in Handlers, GiveUp(g), EngineStep(g), ctx[h].task = ctx[g].task PROVE FALSE
      <4>1. Executes(g) /\ pc'[g] # pc[g]
        BY <1>0, <3>2 DEF GiveUp, At, Goto, Executes, ExecutePositions
      <4>2. g = h
        BY <3>1, <3>2, <4>1, OneExecutor
      <4>. QED BY <1>4, <4>1, <4>2
    <3>3. exec'[Key(h)] \in {"executing", "completed"}
      BY <1>0, <1>1, <3>1, <3>2, RowLeaves DEF Key
    <3>. QED BY <1>3, <3>1, <3>3
  <2>. QED BY <1>0, <1>1, <1>4, <2>1, <2>2 DEF ReceiptsInv
<1>5. CASE EngineStep(h) /\ pc'[h] \in Calling
  <2>1. CASE Claim(h)
    <3>1. exec[Key(h)] = "none" /\ ctx' = [ctx EXCEPT ![h].attempt = 1] /\ exec' = [exec EXCEPT ![Key(h)] = "executing"]
      BY <1>0, <1>5, <2>1 DEF Claim, Goto, Insert, Calling
    <3>2. Executes(h)
      BY <2>1 DEF Claim, At, Executes, ExecutePositions
    <3>3. <<"executions", Key(h)>> \notin aged
      BY <1>0, <3>1 DEF ReceiptsInv
    <3>4. Key(h)' = Key(h)
      BY <1>0, <3>1 DEF Key, Primary, Calls
    <3>. QED BY <1>0, <1>3, <1>5, <3>1, <3>2, <3>3, <3>4 DEF Calling, Receipted
  <2>2. CASE Retry(h) \/ RunTool(h) \/ ToolRaises(h) \/ ReceiptRaises(h)
    <3>1. Executes(h) /\ exec[Key(h)] \in {"executing", "completed"} /\ <<"executions", Key(h)>> \notin aged
      BY <2>2 DEF Retry, RunTool, ToolRaises, ReceiptRaises, At, Calling, Executes, ExecutePositions, ReceiptsInv
    <3>2. exec'[Key(h)] \in {"executing", "completed"}
      BY <1>0, <2>2, <3>1 DEF Retry, RunTool, ToolRaises, ReceiptRaises, Settle, ledgerVars
    <3>3. Key(h)' = Key(h)
      <4>1. ctx' = ctx \/ (\E n : ctx' = [ctx EXCEPT ![h].attempt = n]) \/ \E o : ctx' = [ctx EXCEPT ![h].out = o]
        BY <2>2 DEF Retry, RunTool, ToolRaises, ReceiptRaises
      <4>. QED BY <1>0, <4>1 DEF Key, Primary, Calls
    <3>. QED BY <1>3, <1>5, <3>1, <3>2, <3>3 DEF Calling, Receipted
  <2>. QED BY <1>0, <1>5, <2>1, <2>2, Entries DEF Calling
<1>6. CASE EngineStep(h) /\ pc'[h] \in Receipted
  <2>1. CASE FromReceipt(h)
    <3>1. exec[Key(h)] = "completed" /\ \E o : ctx' = [ctx EXCEPT ![h].out = o]
      BY <1>0, <1>6, <2>1 DEF FromReceipt, Goto, Receipted
    <3>2. Key(h)' = Key(h)
      BY <1>0, <3>1 DEF Key, Primary, Calls
    <3>. QED BY <1>0, <1>1, <1>6, <3>1, <3>2 DEF Calling, Receipted
  <2>2. CASE Receipt(h)
    <3>1. exec[Key(h)] \in {"executing", "completed"} /\ ctx' = ctx
      BY <2>2 DEF Receipt, At, Calling, ReceiptsInv
    <3>2. exec'[Key(h)] = "completed"
      BY <1>0, <2>2, <3>1 DEF Receipt, Settle
    <3>. QED BY <1>6, <3>1, <3>2 DEF Key, Primary, Calling, Receipted
  <2>3. CASE CheckpointExecute(h) \/ CompLookup(h) \/ CompInsert(h) \/ Verify(h) \/ FinishCompleted(h)
    <3>1. exec[Key(h)] = "completed" /\ ctx' = ctx
      BY <2>3 DEF CheckpointExecute, CompLookup, CompInsert, Verify, FinishCompleted, At, Receipted, ReceiptsInv
    <3>. QED BY <1>0, <1>1, <1>6, <3>1 DEF Key, Primary, Calling, Receipted
  <2>4. Lookup(h) => FromReceipt(h)
    BY <1>0, <1>6 DEF Lookup, Goto, Receipted
  <2>5. Reread(h) => FromReceipt(h)
    BY DEF Reread
  <2>. QED BY <1>0, <1>6, <2>1, <2>2, <2>3, <2>4, <2>5, Entries DEF Receipted
<1>. QED BY <1>0, <1>4, <1>5, <1>6, Stays DEF Calling, Receipted

\* Nothing completes a task before its receipt, and a receipt stays.
LEMMA ReceiptsNext ==
  ASSUME CTypeOK, EngineInv, EngineInv', LinkInv, CreateInv, ReviewInv, ReceiptsInv, [CNext]_allVars
  PROVE  ReceiptsInv'
<1>0. /\ exec \in [Keys -> ExecStatus] /\ EngineTypeOK /\ EngineTypeOK' /\ OnceInv /\ OnceInv' /\ EngineMoves
  BY ControlMoves DEF EngineInv, EngineTypeOK
<1>1. /\ \A k \in Keys : exec[k] # "none" => exec'[k] # "none"
      /\ \A k \in Keys : exec[k] = "completed" => exec'[k] = "completed"
  BY <1>0, Kept
<1>2. ASSUME NEW k \in Keys, <<"executions", k>> \in aged' PROVE exec'[k] # "none"
  BY <1>1, <1>2, AgedShape DEF ReceiptsInv
<1>3. ASSUME NEW t \in Tasks, task'[t] = "completed" PROVE exec'[Primary(t)] = "completed"
  <2>1. CASE task[t] = "completed"
    BY <1>1, <2>1, CallTypes DEF ReceiptsInv, CompletedIsBacked
  <2>2. ASSUME NEW h \in Handlers, FinishCompleted(h), t = ctx[h].task PROVE exec'[Primary(t)] = "completed"
    <3>1. pc[h] \in Receipted /\ Key(h) = Primary(t)
      BY <2>2 DEF FinishCompleted, At, Receipted, Key
    <3>. QED BY <1>1, <3>1, CallTypes DEF ReceiptsInv
  <2>. QED BY <1>3, <2>1, <2>2, TaskShape
<1>4. \A h \in Handlers : /\ pc'[h] \in Calling => /\ exec'[Key(h)'] \in {"executing", "completed"}
                                                   /\ <<"executions", Key(h)'>> \notin aged'
                          /\ pc'[h] \in Receipted => exec'[Key(h)'] = "completed"
  BY CallingNext
<1>. QED BY <1>2, <1>3, <1>4, ScanOld DEF ReceiptsInv, CompletedIsBacked

-----------------------------------------------------------------------------
(* What is shown as approved is on record.                                 *)

\* The strengthening of ApprovedIsOnRecord: the claim is on record before the
\* engine is called, the receipt and its record before its answer "completed".
OnRecordInv ==
  /\ \A h \in Handlers : req[h].at = "approve_engine" => <<"approval.claimed", req[h].task>> \in audit
  /\ \A h \in Handlers : req[h].at = "approve_engine" /\ pc[h] = "returned" /\ ctx[h].reply = "completed" =>
       exec[Primary(req[h].task)] = "completed" /\ <<"tool.executed", req[h].task>> \in audit
  /\ ApprovedIsOnRecord

\* An approval becomes approved when its request has the engine's answer.
LEMMA ApprovedShape ==
  ASSUME CTypeOK, [CNext]_allVars, NEW t \in Tasks,
         approval[t].status # "approved", approval'[t].status = "approved"
  PROVE  \E h \in Handlers : /\ req[h].at = "approve_engine" /\ req[h].task = t
                             /\ pc[h] = "returned" /\ ctx[h].reply = "completed"
<1>0. approval \in [Tasks -> ApprovalSet] /\ \A h \in Handlers : req[h].task \in Tasks
  BY DEF CTypeOK, ApprovalSet
<1>1. ASSUME NEW h \in Handlers, SettleApproval(h)
      PROVE  /\ req[h].at = "approve_engine" /\ req[h].task = t
             /\ pc[h] = "returned" /\ ctx[h].reply = "completed"
  <2>. DEFINE s == IF pc[h] = "returned" /\ ctx[h].reply = "completed" THEN "approved"
                   ELSE IF pc[h] = "returned" /\ ctx[h].reply = "recovery_required" THEN ctx[h].reply
                   ELSE "execution_failed"
  <2>1. /\ approval' = [approval EXCEPT ![req[h].task].status = s]
        /\ s = "approved" => pc[h] = "returned" /\ ctx[h].reply = "completed"
    BY <1>1 DEF SettleApproval
  <2>. HIDE DEF s
  <2>2. req[h].task = t /\ s = "approved"
    BY <1>0, <2>1 DEF ApprovalSet
  <2>. QED BY <1>1, <2>1, <2>2 DEF SettleApproval, Doing
<1>2. approval'[t] # approval[t] /\ (Asks(t) \/ Claimed(t) \/ Denied(t) \/ Settled(t))
  BY StatusShape
<1>3. PICK h \in Handlers : SettleApproval(h)
  <2>1. ASSUME NEW u \in Tasks, approval' = [approval EXCEPT ![u].status = "recovery_required"] PROVE FALSE
    BY <1>0, <2>1 DEF ApprovalSet
  <2>2. ASSUME NEW h \in Handlers, InsertApproval(h) \/ ClaimApproval(h) PROVE FALSE
    <3>1. CASE ClaimApproval(h)
      <4>1. \/ approval' = approval
            \/ approval' = [approval EXCEPT ![req[h].task].status = "executing", ![req[h].task].by = req[h].by]
        BY <3>1 DEF ClaimApproval
      <4>. QED BY <1>0, <4>1 DEF ApprovalSet
    <3>2. CASE InsertApproval(h)
      BY <1>0, <3>2 DEF InsertApproval, ApprovalSet, NoApproval
    <3>. QED BY <2>2, <3>1, <3>2
  <2>3. ASSUME NEW h \in Handlers, NEW u \in Tasks, NEW p \in Callers, Deny(h, u, p) PROVE FALSE
    BY <1>0, <2>3 DEF Deny, ApprovalSet
  <2>. QED BY <1>2, <2>1, <2>2, <2>3, ApprovalShape
<1>. QED BY <1>1, <1>3

\* The engine answers "completed" with the record of the execution only.
LEMMA CompletedAnswer ==
  ASSUME EngineTypeOK, NEW h \in Handlers, EngineStep(h), pc'[h] = "returned", ctx'[h].reply = "completed"
  PROVE  AuditExecuted(h)
<1>1. NoCall.reply = "none" /\ pc \in [Handlers -> Positions] /\ ctx \in [Handlers -> Calls] /\ NoCall \in Calls
  BY CallTypes DEF NoCall, EngineTypeOK
<1>2. ASSUME NEW r, Reply(h, r) PROVE ctx'[h].reply = r
  BY <1>1, <1>2 DEF Reply, Drop, Calls
<1>3. \/ AuditExecuted(h)
      \/ \E r \in {"blocked", "failed_safe", "recovery_required", "no_compensation", "conflict", "rolled_back"} : Reply(h, r)
      \/ \E l \in Positions \ {"returned"} : Goto(h, l)
  <2>1. CASE ExecuteStep(h)
    BY <2>1 DEF ExecuteStep, Positions, Statements, InTry, FromReceipt, Lookup, JitPolicy,
         FinishBlocked, Claim, Reread, RunTool, ToolRaises, Receipt, ReceiptRaises, Retry, GiveUp,
         CheckpointExecute, CompLookup, CompInsert, Verify, FinishCompleted, FinishFailed,
         FinishRecovery
  <2>2. CASE RollbackStep(h)
    BY <2>2 DEF RollbackStep, Positions, Statements, InTry, Raise, RbRead, RbClaim, RbLedger,
         RbExecute, RbToolRaises, RbReceipt, RbUse, RbFailLedger, RbFailComp, RbFailTask, RbFinish, RbAudit
  <2>. QED BY <2>1, <2>2 DEF EngineStep
<1>. QED BY <1>1, <1>2, <1>3 DEF Goto

\* Every stage of a review is on record before the next one.
LEMMA OnRecordNext ==
  ASSUME CTypeOK, EngineInv, EngineInv', LinkInv, LinkInv', ReceiptsInv, OnRecordInv, [CNext]_allVars
  PROVE  OnRecordInv'
<1>0. /\ EngineTypeOK /\ EngineTypeOK' /\ OnceInv /\ OnceInv' /\ EngineMoves
      /\ \A h \in Handlers : req[h].task \in Tasks /\ req'[h].task \in Tasks
  BY ControlMoves, RequestTypes DEF EngineInv, CTypeOK, RequestSet
<1>1. /\ audit \subseteq audit' /\ \A k \in Keys : exec[k] = "completed" => exec'[k] = "completed"
      /\ \A t \in Tasks : exec[Primary(t)] = "completed" => exec'[Primary(t)] = "completed"
  BY <1>0, Kept, CallTypes
<1>2. ASSUME NEW h \in Handlers, req'[h].at = "approve_engine"
      PROVE  <<"approval.claimed", req'[h].task>> \in audit'
  <2>1. CASE req'[h] = req[h]
    BY <1>1, <1>2, <2>1 DEF OnRecordInv
  <2>2. CASE AuditClaim(h) /\ req'[h].task = req[h].task
    BY <2>2 DEF AuditClaim, AppendAudit
  <2>3. ASSUME ClaimApproval(h) PROVE FALSE
    BY <1>2, <2>3 DEF ClaimApproval, Step, End, NoRequest, CTypeOK
  <2>. QED BY <1>2, <2>1, <2>2, <2>3, HoldingShape
<1>3. ASSUME NEW h \in Handlers, req'[h].at = "approve_engine", pc'[h] = "returned", ctx'[h].reply = "completed"
      PROVE  exec'[Primary(req'[h].task)] = "completed" /\ <<"tool.executed", req'[h].task>> \in audit'
  <2>1. CASE Same(h)
    BY <1>0, <1>1, <1>3, <2>1 DEF Same, OnRecordInv
  <2>2. CASE EngineStep(h) /\ UNCHANGED httpVars
    <3>1. AuditExecuted(h)
      BY <1>0, <1>3, <2>2, CompletedAnswer
    <3>2. req'[h] = req[h] /\ ctx[h].task = req[h].task /\ exec[Key(h)] = "completed"
      BY <2>2, <3>1 DEF httpVars, AuditExecuted, At, LinkInv, CallMatches, Executes, ExecutePositions,
         Receipted, ReceiptsInv
    <3>3. <<"tool.executed", ctx[h].task>> \in audit'
      BY <3>1 DEF AuditExecuted, AppendAudit
    <3>. QED BY <1>0, <1>1, <3>2, <3>3 DEF Key
  <2>3. ASSUME EnterEngine(h) \/ EngineFault(h) PROVE FALSE
    BY <1>0, <1>3, <2>3 DEF EnterEngine, EngineFault, CallExecute, CallRollback, DbError, Raise, Goto, EngineTypeOK
  <2>4. pc[h] = pc'[h] => req[h].at \in InEngine
    BY <1>3 DEF LinkInv
  <2>. QED BY <1>0, <1>3, <2>1, <2>2, <2>3, <2>4, HandlerShape DEF EngineInv
<1>4. ASSUME NEW t \in Tasks, approval'[t].status = "approved"
      PROVE  /\ exec'[Primary(t)] = "completed"
             /\ {"approval.claimed", "policy.jit_recheck", "tool.executed"} \X {t} \subseteq audit'
  <2>1. CASE approval[t].status = "approved"
    BY <1>1, <2>1 DEF OnRecordInv, ApprovedIsOnRecord
  <2>2. CASE approval[t].status # "approved"
    <3>1. PICK h \in Handlers : /\ req[h].at = "approve_engine" /\ req[h].task = t
                                /\ pc[h] = "returned" /\ ctx[h].reply = "completed"
      BY <1>4, <2>2, ApprovedShape
    <3>2. exec[Primary(t)] = "completed" /\ <<"approval.claimed", t>> \in audit /\ <<"tool.executed", t>> \in audit
      BY <3>1 DEF OnRecordInv
    <3>3. <<"policy.jit_recheck", t>> \in audit
      BY <3>2 DEF EngineInv, RecordInv, Recorded
    <3>. QED BY <1>1, <3>2, <3>3
  <2>. QED BY <2>1, <2>2
<1>. QED BY <1>2, <1>3, <1>4 DEF OnRecordInv, ApprovedIsOnRecord

-----------------------------------------------------------------------------
(* The invariant of the control plane, and what it gives.                  *)

\* The parts hold together: each is kept with the help of those before it.
ControlInv ==
  /\ CTypeOK /\ EngineInv /\ LinkInv /\ CreateInv /\ ReviewInv
  /\ SingleInv /\ ReceiptsInv /\ OnRecordInv

\* It holds of a control plane that starts.
LEMMA ControlInit == CInit => ControlInv
<1>1. SUFFICES ASSUME CInit PROVE ControlInv
  OBVIOUS
<1>2. CTypeOK /\ EngineInv
  BY <1>1, ControlTypeInit
<1>3. /\ \A h \in Handlers : pc[h] = "idle" /\ req[h].at = "idle"
      /\ \A t \in Tasks : approval[t].status = "none" /\ task[t] = "none"
      /\ \A k \in Keys : exec[k] = "none"
      /\ \A c \in Comps : comp[c] = "none"
      /\ \A w \in Workers : scan[w].at = "up"
      /\ aged = {}
  BY <1>1 DEF CInit, EngineInit, NoRequest, NoApproval, NoScan
<1>4. LinkInv /\ CreateInv
  BY <1>3 DEF LinkInv, Executes, RollsBack, ExecutePositions, RollbackPositions, CreateInv, Creating
<1>5. ReviewInv /\ OnRecordInv
  BY <1>3, CallTypes DEF ReviewInv, Holds, Reviewed, OnRecordInv, ApprovedIsOnRecord
<1>6. SingleInv /\ ReceiptsInv
  BY <1>3, CallTypes DEF SingleInv, ReceiptsInv, CompletedIsBacked, Calling, Receipted
<1>. QED BY <1>2, <1>4, <1>5, <1>6 DEF ControlInv

\* Every step keeps it.
LEMMA ControlNext == ControlInv /\ [CNext]_allVars => ControlInv'
<1>1. SUFFICES ASSUME ControlInv, [CNext]_allVars PROVE ControlInv'
  OBVIOUS
<1>2. CTypeOK' /\ EngineMoves
  BY <1>1, ControlTypeNext, ControlMoves DEF ControlInv
<1>3. EngineInv'
  BY <1>1, <1>2, EngineInvNext DEF ControlInv
<1>4. LinkInv' /\ CreateInv' /\ ReviewInv'
  BY <1>1, LinkNext, CreateNext, ReviewNext DEF ControlInv, EngineInv
<1>5. SingleInv'
  BY <1>1, <1>2, SingleNext DEF ControlInv, EngineInv
<1>6. ReceiptsInv' /\ OnRecordInv'
  BY <1>1, <1>3, <1>4, ReceiptsNext, OnRecordNext DEF ControlInv
<1>. QED BY <1>2, <1>3, <1>4, <1>5, <1>6 DEF ControlInv

\* So it is an invariant.
LEMMA ControlInvariant == CSpec => []ControlInv
BY ControlInit, ControlNext, PTL DEF CSpec

\* Whatever crashes, retries and races there are: no write takes effect, or is
\* attempted, but under an approval that an entitled reviewer has claimed.
THEOREM EffectsAreReviewed == CSpec => []EffectUnderApproval
<1>1. ControlInv => EffectUnderApproval
  BY CallTypes DEF ControlInv, EngineInv, OnceInv, ReviewInv, Reviewed, EffectUnderApproval
<1>. QED BY <1>1, ControlInvariant, PTL

\* A review is given once: no request or scan takes it over or reopens it.
THEOREM ReviewsAreFinal == CSpec => ReviewFinal
<1>1. ControlInv /\ [CNext]_allVars =>
        [\A t \in Tasks : approval[t].status \notin {"none", "pending"} =>
           /\ approval'[t].by = approval[t].by
           /\ approval'[t].status \notin {"none", "pending"}
           /\ approval[t].status = "denied" => approval'[t].status = "denied"]_allVars
  <2>1. SUFFICES ASSUME ControlInv, [CNext]_allVars, NEW t \in Tasks, approval[t].status \notin {"none", "pending"}
                 PROVE  /\ approval'[t].by = approval[t].by
                        /\ approval'[t].status \notin {"none", "pending"}
                        /\ approval[t].status = "denied" => approval'[t].status = "denied"
    OBVIOUS
  <2>2. approval[t].status \in Reviewed \/ approval[t].status = "denied"
    BY <2>1 DEF ControlInv, CTypeOK, ApprovalStatus, Reviewed
  <2>. QED BY <2>1, <2>2, ReviewKept DEF ControlInv, Reviewed
<1>. QED BY <1>1, ControlInvariant, PTL DEF CSpec, ReviewFinal

\* A task gets one compensation and one reversal, however many requests execute
\* it and roll it back, although the SELECT and the INSERT are not atomic.
THEOREM ReversedOnce == CSpec => []OneReversal
<1>1. ControlInv => OneReversal
  BY SingleReversal DEF ControlInv
<1>. QED BY <1>1, ControlInvariant, PTL

\* A task is never shown as completed without its receipt, recovery scans and
\* late requests included.
THEOREM CompletionsAreBacked == CSpec => []CompletedIsBacked
<1>1. ControlInv => CompletedIsBacked
  BY DEF ControlInv, ReceiptsInv
<1>. QED BY <1>1, ControlInvariant, PTL

\* What is shown as approved was claimed, rechecked and executed on record.
THEOREM ApprovalsAreOnRecord == CSpec => []ApprovedIsOnRecord
<1>1. ControlInv => ApprovedIsOnRecord
  BY DEF ControlInv, OnRecordInv
<1>. QED BY <1>1, ControlInvariant, PTL

-----------------------------------------------------------------------------
(* The scan of a process that is alone.                                    *)

\* While the process does not serve, no request is under way; and the rows of
\* the tables behind its scan are settled, those of its table yet to be seen.
Awaited(w) ==
  /\ \A h \in Handlers : req[h].at = "idle"
  /\ \A i \in 1 .. 4 : scan[w].at = Tables[i] =>
       /\ Stale(Tables[i]) \subseteq scan[w].todo
       /\ \A j \in 1 .. 4 : j < i => Stale(Tables[j]) = {}
ScanInv ==
  \A w \in Workers :
    /\ scan[w].at \in {"down", "up"} => scan[w].todo = {} /\ scan[w].due = NoTask
    /\ scan[w].at # "up" => Awaited(w)

\* There is one process.
Alone == \A v, w \in Workers : v = w

\* What no request can do while the process does not serve.
LEMMA NobodyServed ==
  ASSUME Alone, LinkInv, ScanInv, NEW w \in Workers, scan[w].at # "up", NEW h \in Handlers
  PROVE  ~ (Talks(h) \/ Leaves(h) \/ EnterEngine(h) \/ EngineFault(h) \/ EngineStep(h))
<1>1. req[h].at = "idle" /\ pc[h] = "idle"
  BY DEF ScanInv, Awaited, LinkInv, InEngine
<1>2. scan[WorkerOf[h]].at # "up"
  BY WorkersAssumption DEF Alone
<1>3. ~ Arrive(h)
  BY <1>2 DEF Arrive, Create, Approve, Deny, RequestRollback, Serve
<1>4. ~ Talks(h)
  BY <1>1, <1>3 DEF Talks, GuardAndPlan, DecidePolicy, InsertApproval, FinishPending, PolicyBlocked,
       ClaimApproval, AuditClaim, DenyTask, Doing
<1>5. ~ Leaves(h) /\ ~ EnterEngine(h)
  BY <1>1 DEF Leaves, SettleApproval, LeaveEngine, RequestFault, EnterEngine, Doing
<1>6. ~ EngineStep(h)
  <2>1. ~ ExecuteStep(h)
    BY <1>1 DEF ExecuteStep, Lookup, JitPolicy, FinishBlocked, Claim, Reread, RunTool, ToolRaises,
         Receipt, ReceiptRaises, Retry, GiveUp, CheckpointExecute, CompLookup, CompInsert, Verify,
         FinishCompleted, AuditExecuted, FinishFailed, FinishRecovery, At
  <2>2. ~ RollbackStep(h)
    BY <1>1 DEF RollbackStep, RbRead, RbClaim, RbLedger, RbExecute, RbToolRaises, RbReceipt, RbUse,
         RbFailLedger, RbFailComp, RbFailTask, RbFinish, RbAudit, At
  <2>. QED BY <2>1, <2>2 DEF EngineStep
<1>7. ~ EngineFault(h)
  BY <1>1 DEF EngineFault, DbError, At, Statements, InTry
<1>. QED BY <1>4, <1>5, <1>6, <1>7

\* The rows that a scan selects, table by table.
LEMMA InterruptedRows ==
  /\ \A r : Interrupted("approvals", r) <=> approval[r].status = "executing"
  /\ \A r : Interrupted("executions", r) <=> exec[r] = "executing"
  /\ \A r : Interrupted("compensations", r) <=> comp[r] = "executing"
  /\ \A r : Interrupted("orphans", r) <=> task[r] = "created"
  /\ \A r : Interrupted("approvals", r)' <=> approval'[r].status = "executing"
  /\ \A r : Interrupted("executions", r)' <=> exec'[r] = "executing"
  /\ \A r : Interrupted("compensations", r)' <=> comp'[r] = "executing"
  /\ \A r : Interrupted("orphans", r)' <=> task'[r] = "created"
BY DEF Interrupted

\* No row is selected anew unless a row is interrupted or grows old.
LEMMA StaleKept ==
  ASSUME NEW table \in DOMAIN RowsOf, aged' = aged,
         \A r \in RowsOf[table] : Interrupted(table, r)' => Interrupted(table, r)
  PROVE  Stale(table)' \subseteq Stale(table)
BY DEF Stale, RowsOf

\* A step that leaves the tables alone selects nothing anew.
LEMMA StaleUnchanged ==
  ASSUME UNCHANGED <<approval, exec, comp, task, aged>>, NEW table \in DOMAIN RowsOf
  PROVE  Stale(table)' = Stale(table)
BY Rows, InterruptedRows DEF Stale, RowsOf

\* Nor does a scan: a row it takes is settled, and the others stay as they are.
LEMMA ScanSettles ==
  ASSUME CTypeOK, NEW w \in Workers, NEW r \in scan[w].todo, scan[w].at \in DOMAIN RowsOf, ScanRow(w, r)
  PROVE  \A table \in DOMAIN RowsOf :
           /\ Stale(table)' \subseteq Stale(table)
           /\ table = scan[w].at => r \notin Stale(table)'
<1>0. /\ exec \in [Keys -> ExecStatus] /\ comp \in [Comps -> CompStatus]
      /\ approval \in [Tasks -> ApprovalSet] /\ r \in RowsOf[scan[w].at]
      /\ task \in [Tasks -> TaskStatus \union {"none", "pending_approval"}]
      /\ aged' = aged
  BY DEF CTypeOK, EngineTypeOK, ApprovalSet, ScanRow
<1>1. CASE scan[w].at = "approvals"
  <2>1. /\ approval' = [approval EXCEPT ![r].status = IF @ = "executing" THEN "recovery_required" ELSE @]
        /\ UNCHANGED <<exec, comp, task>> /\ r \in Tasks
    BY <1>0, <1>1, Rows DEF ScanRow, vars, evars, ledgerVars
  <2>2. \A t \in Tasks : approval'[t].status = "executing" => approval[t].status = "executing" /\ t # r
    BY <1>0, <2>1 DEF ApprovalSet
  <2>3. \A table \in DOMAIN RowsOf : \A q \in RowsOf[table] : Interrupted(table, q)' => Interrupted(table, q)
    BY <2>1, <2>2, Rows, InterruptedRows
  <2>. QED BY <1>0, <1>1, <2>1, <2>2, <2>3, StaleKept, InterruptedRows DEF Stale
<1>2. CASE scan[w].at = "executions"
  <2>1. /\ exec' = [exec EXCEPT ![r] = IF @ = "executing" THEN "execution_unknown" ELSE @]
        /\ UNCHANGED <<approval, comp, task>> /\ r \in Keys
    BY <1>0, <1>2, Rows DEF ScanRow, InterruptExecution
  <2>2. \A k \in Keys : exec'[k] = "executing" => exec[k] = "executing" /\ k # r
    BY <1>0, <2>1
  <2>3. \A table \in DOMAIN RowsOf : \A q \in RowsOf[table] : Interrupted(table, q)' => Interrupted(table, q)
    BY <2>1, <2>2, Rows, InterruptedRows
  <2>. QED BY <1>0, <1>2, <2>1, <2>2, <2>3, StaleKept, InterruptedRows DEF Stale
<1>3. CASE scan[w].at = "compensations"
  <2>1. /\ CasComp(r, "executing", "execution_unknown")
        /\ UNCHANGED <<approval, exec, task>> /\ r \in Comps
    BY <1>0, <1>3, Rows DEF ScanRow, InterruptCompensation, ledgerVars
  <2>2. \A c \in Comps : comp'[c] = "executing" => comp[c] = "executing" /\ c # r
    BY <1>0, <2>1 DEF CasComp
  <2>3. \A table \in DOMAIN RowsOf : \A q \in RowsOf[table] : Interrupted(table, q)' => Interrupted(table, q)
    BY <2>1, <2>2, Rows, InterruptedRows
  <2>. QED BY <1>0, <1>3, <2>1, <2>2, <2>3, StaleKept, InterruptedRows DEF Stale
<1>4. CASE scan[w].at = "orphans"
  <2>1. /\ task' = [task EXCEPT ![r] = IF @ \in {"created", "running"} THEN "recovery_required" ELSE @]
        /\ UNCHANGED <<approval, exec, comp>> /\ r \in Tasks
    BY <1>0, <1>4, Rows DEF ScanRow, evars, ledgerVars
  <2>2. \A t \in Tasks : task'[t] = "created" => task[t] = "created" /\ t # r
    BY <1>0, <2>1
  <2>3. \A table \in DOMAIN RowsOf : \A q \in RowsOf[table] : Interrupted(table, q)' => Interrupted(table, q)
    BY <2>1, <2>2, Rows, InterruptedRows
  <2>. QED BY <1>0, <1>4, <2>1, <2>2, <2>3, StaleKept, InterruptedRows DEF Stale
<1>. QED BY <1>1, <1>2, <1>3, <1>4, Rows

\* The task that is due is moved on, too, and no row becomes stale.
LEMMA ScanMarks ==
  ASSUME CTypeOK, NEW w \in Workers, ScanTask(w), NEW table \in DOMAIN RowsOf
  PROVE  Stale(table)' \subseteq Stale(table)
<1>0. task \in [Tasks -> TaskStatus \union {"none", "pending_approval"}]
  BY DEF CTypeOK
<1>1. /\ task' = [task EXCEPT ![scan[w].due] = "recovery_required"]
      /\ UNCHANGED <<exec, comp, approval, aged>>
  BY DEF ScanTask, MarkRecovery, Finish, ledgerVars
<1>2. \A t \in Tasks : task'[t] = "created" => task[t] = "created"
  BY <1>0, <1>1
<1>. QED BY <1>1, <1>2, Rows, InterruptedRows, StaleKept

\* The places of a scan.
LEMMA Places ==
  /\ \A i \in 1 .. 4 : Tables[i] \in DOMAIN RowsOf /\ Tables[i] \notin {"down", "up"}
  /\ \A i, j \in 1 .. 4 : Tables[i] = Tables[j] => i = j
  /\ DOMAIN RowsOf = {Tables[i] : i \in 1 .. 4}
BY Rows

\* A process that serves goes on doing so, unless it crashes.
LEMMA ServesOn ==
  ASSUME Alone, CTypeOK, ScanInv, [CNext]_allVars, NEW w \in Workers, scan[w].at = "up"
  PROVE  scan' = scan \/ Crash(w)
<1>1. ASSUME NEW h \in Handlers, Talks(h) \/ Leaves(h) \/ EnterEngine(h) \/ EngineFault(h) PROVE scan' = scan
  BY <1>1 DEF Talks, Arrive, Create, Approve, Deny, RequestRollback, GuardAndPlan, DecidePolicy, InsertApproval,
       FinishPending, PolicyBlocked, ClaimApproval, AuditClaim, DenyTask, Leaves, SettleApproval, LeaveEngine,
       RequestFault, EnterEngine, EngineFault, Elsewhere, httpVars
<1>2. ASSUME NEW v \in Workers, ScanStep(v) PROVE FALSE
  <2>1. v = w
    BY DEF Alone
  <2>2. scan[w].todo = {} /\ scan[w].due = NoTask
    BY DEF ScanInv
  <2>3. \A i \in 1 .. 4 : scan[w].at # Tables[i]
    BY Places
  <2>. QED BY <1>2, <2>1, <2>2, <2>3 DEF ScanStep, Start, ScanNext, ScanTask, ScanRow
<1>3. ASSUME NEW v \in Workers, Crash(v) PROVE Crash(w)
  BY <1>3 DEF Alone
<1>. QED BY <1>1, <1>2, <1>3, CNextSplit DEF AnyAge, Age, httpVars, allVars

\* A process that does not serve waits, or proceeds with its scan.
LEMMA AwaitedNext ==
  ASSUME Alone, CTypeOK, LinkInv, ScanInv, [CNext]_allVars, NEW w \in Workers, scan[w].at # "up"
  PROVE  \/ Crash(w) \/ ScanStep(w)
         \/ UNCHANGED <<scan, req>> /\ (scan[w].at = "down" \/ UNCHANGED <<approval, exec, comp, task, aged>>)
<1>1. ASSUME NEW v \in Workers, Crash(v) \/ ScanStep(v) PROVE Crash(w) \/ ScanStep(w)
  BY <1>1 DEF Alone
<1>2. ASSUME AnyAge PROVE UNCHANGED <<scan, req>> /\ scan[w].at = "down"
  BY <1>2 DEF AnyAge, Age
<1>3. ASSUME NEW k \in Keys, LateEffect(k), UNCHANGED httpVars
      PROVE  UNCHANGED <<scan, req, approval, exec, comp, task, aged>>
  BY <1>3 DEF LateEffect, httpVars, ledgerVars
<1>4. ASSUME UNCHANGED allVars PROVE UNCHANGED <<scan, req, approval, exec, comp, task, aged>>
  BY <1>4 DEF allVars, httpVars, vars, ledgerVars
<1>. QED BY <1>1, <1>2, <1>3, <1>4, NobodyServed, CNextSplit

\* A scan that proceeds leaves what is stale seen or yet to be seen.
LEMMA ScanProceeds ==
  ASSUME CTypeOK, NEW w \in Workers, scan[w].at # "up", Awaited(w),
         scan[w].at = "down" => scan[w].todo = {} /\ scan[w].due = NoTask, ScanStep(w)
  PROVE  /\ scan'[w].at \in {"down", "up"} => scan'[w].todo = {} /\ scan'[w].due = NoTask
         /\ scan'[w].at # "up" => Awaited(w)'
<1>0. /\ scan \in [Workers -> ScanSet] /\ scan[w].at \in {"down"} \union DOMAIN RowsOf
      /\ req' = req
  BY DEF CTypeOK, ScanSet, ScanStep, Start, ScanNext, ScanTask, ScanRow
<1>1. CASE Start(w)
  <2>1. scan'[w] = [at |-> Tables[1], todo |-> Stale(Tables[1]), due |-> NoTask]
    BY <1>0, <1>1 DEF Start, Scan
  <2>2. \A table \in DOMAIN RowsOf : Stale(table)' = Stale(table)
    BY <1>1, StaleUnchanged DEF Start, vars, ledgerVars
  <2>. QED BY <1>0, <2>1, <2>2, Places DEF Awaited
<1>2. CASE ScanNext(w)
  <2>1. PICK i \in 1 .. 4 :
          /\ scan[w].at = Tables[i]
          /\ IF i < 4 THEN Scan(w, Tables[i + 1]) ELSE scan' = [scan EXCEPT ![w] = NoScan("up")]
    BY <1>2 DEF ScanNext
  <2>2. \A table \in DOMAIN RowsOf : Stale(table)' = Stale(table)
    BY <1>2, StaleUnchanged DEF ScanNext, vars, ledgerVars
  <2>3. \A j \in 1 .. 4 : j < i + 1 => Stale(Tables[j]) = {}
    BY <1>2, <2>1 DEF Awaited, ScanNext
  <2>4. CASE i < 4
    <3>1. i + 1 \in 1 .. 4
      BY <2>4
    <3>2. scan'[w] = [at |-> Tables[i + 1], todo |-> Stale(Tables[i + 1]), due |-> NoTask]
      BY <1>0, <2>1, <2>4 DEF Scan
    <3>. QED BY <1>0, <2>2, <2>3, <3>1, <3>2, Places DEF Awaited
  <2>5. CASE ~ i < 4
    BY <1>0, <2>1, <2>5 DEF NoScan
  <2>. QED BY <2>4, <2>5
<1>3. CASE ScanTask(w)
  <2>1. scan'[w].at = scan[w].at /\ scan'[w].todo = scan[w].todo
    BY <1>0, <1>3 DEF ScanTask, ScanSet
  <2>2. scan[w].at \in DOMAIN RowsOf
    BY <1>0, <1>3 DEF ScanTask
  <2>. QED BY <1>0, <1>3, <2>1, <2>2, ScanMarks, Places DEF Awaited
<1>4. ASSUME NEW r \in scan[w].todo, ScanRow(w, r)
      PROVE  /\ scan'[w].at \in {"down", "up"} => scan'[w].todo = {} /\ scan'[w].due = NoTask
             /\ scan'[w].at # "up" => Awaited(w)'
  <2>1. scan'[w].at = scan[w].at /\ scan'[w].todo = scan[w].todo \ {r}
    BY <1>0, <1>4 DEF ScanRow, ScanSet
  <2>2. scan[w].at \in DOMAIN RowsOf
    BY <1>0, <1>4
  <2>3. \A table \in DOMAIN RowsOf :
          /\ Stale(table)' \subseteq Stale(table)
          /\ table = scan[w].at => r \notin Stale(table)'
    BY <1>4, <2>2, ScanSettles
  <2>. QED BY <1>0, <2>1, <2>2, <2>3, Places DEF Awaited
<1>. QED BY <1>1, <1>2, <1>3, <1>4 DEF ScanStep

\* A process alone keeps the promise of its scan.
LEMMA ScanInvNext ==
  ASSUME Alone, CTypeOK, LinkInv, ScanInv, [CNext]_allVars
  PROVE  ScanInv'
<1>. SUFFICES ASSUME NEW w \in Workers
     PROVE  /\ scan'[w].at \in {"down", "up"} => scan'[w].todo = {} /\ scan'[w].due = NoTask
            /\ scan'[w].at # "up" => Awaited(w)'
  BY DEF ScanInv
<1>0. scan \in [Workers -> ScanSet]
  BY DEF CTypeOK, ScanSet
<1>1. CASE Crash(w)
  <2>1. scan'[w] = NoScan("down") /\ \A h \in Handlers : req'[h] = NoRequest
    BY <1>0, <1>1, WorkersAssumption DEF Crash, Alone
  <2>. QED BY <2>1, Places DEF NoScan, NoRequest, Awaited
<1>2. CASE scan' = scan /\ scan[w].at = "up"
  BY <1>2 DEF ScanInv
<1>3. CASE scan[w].at # "up" /\ ScanStep(w)
  BY <1>3, ScanProceeds DEF ScanInv
<1>4. CASE UNCHANGED <<scan, req>> /\ scan[w].at = "down"
  BY <1>4, Places DEF ScanInv, Awaited
<1>5. CASE scan[w].at # "up" /\ UNCHANGED <<scan, req, approval, exec, comp, task, aged>>
  <2>1. \A table \in DOMAIN RowsOf : Stale(table)' = Stale(table)
    BY <1>5, StaleUnchanged
  <2>. QED BY <1>5, <2>1, Places DEF ScanInv, Awaited
<1>. QED BY <1>1, <1>2, <1>3, <1>4, <1>5, ServesOn, AwaitedNext

\* A process that begins to serve, alone, leaves no old interrupted row behind,
\* even when an earlier scan crashed half-way.
THEOREM ScansAreComplete ==
  ASSUME \A v, w \in Workers : v = w
  PROVE  CSpec => ScanComplete
<1>0. Alone
  BY DEF Alone
<1>1. CInit => ScanInv
  BY DEF CInit, ScanInv, NoScan
<1>2. CTypeOK /\ LinkInv /\ ScanInv /\ [CNext]_allVars => ScanInv'
  BY <1>0, ScanInvNext
<1>3. CTypeOK /\ LinkInv /\ ScanInv /\ [CNext]_allVars =>
        [\A w \in Workers : scan[w].at # "up" /\ scan'[w].at = "up" =>
           \A table \in DOMAIN RowsOf : Stale(table) = {}]_allVars
  <2>. SUFFICES ASSUME CTypeOK, LinkInv, ScanInv, [CNext]_allVars,
                       NEW w \in Workers, scan[w].at # "up", scan'[w].at = "up",
                       NEW table \in DOMAIN RowsOf
       PROVE  Stale(table) = {}
    OBVIOUS
  <2>0. scan \in [Workers -> ScanSet] /\ Awaited(w)
    BY DEF CTypeOK, ScanSet, ScanInv
  <2>1. ScanStep(w)
    <3>1. ~ Crash(w)
      BY <2>0 DEF Crash, NoScan
    <3>. QED BY <1>0, <3>1, AwaitedNext
  <2>2. ScanNext(w)
    <3>1. ~ Start(w)
      BY <2>0, Places DEF Start, Scan
    <3>2. ~ ScanTask(w)
      BY <2>0 DEF ScanTask, ScanSet
    <3>3. ASSUME NEW r \in scan[w].todo, ScanRow(w, r) PROVE FALSE
      <4>1. scan'[w].at = scan[w].at
        BY <2>0, <3>3 DEF ScanRow, ScanSet
      <4>. QED BY <4>1
    <3>. QED BY <2>1, <3>1, <3>2, <3>3 DEF ScanStep
  <2>3. PICK i \in 1 .. 4 :
          /\ scan[w].at = Tables[i]
          /\ IF i < 4 THEN Scan(w, Tables[i + 1]) ELSE scan' = [scan EXCEPT ![w] = NoScan("up")]
    BY <2>2 DEF ScanNext
  <2>4. i = 4
    <3>1. SUFFICES ASSUME i < 4 PROVE FALSE
      OBVIOUS
    <3>2. i + 1 \in 1 .. 4 /\ scan'[w].at = Tables[i + 1]
      BY <2>0, <2>3, <3>1 DEF Scan
    <3>. QED BY <3>2, Places
  <2>5. \A j \in 1 .. 4 : Stale(Tables[j]) = {}
    BY <2>0, <2>2, <2>3, <2>4 DEF Awaited, ScanNext
  <2>. QED BY <2>5, Places
<1>4. CSpec => [](CTypeOK /\ LinkInv)
  <2>1. ControlInv => CTypeOK /\ LinkInv
    BY DEF ControlInv
  <2>. QED BY <2>1, ControlInvariant, PTL
<1>. QED BY <1>1, <1>2, <1>3, <1>4, PTL DEF CSpec, ScanComplete

-----------------------------------------------------------------------------
(* The scan of a process among others.                                     *)

\* A row that is old has been there: an approval has been reviewed, a task
\* created.  Neither comes back to where a scan would look for it.
AgedInv ==
  \A t \in Tasks : /\ <<"approvals", t>> \in aged => approval[t].status \in Reviewed
                   /\ <<"orphans", t>> \in aged => task[t] # "none"

\* The rows of the tables behind a scan are settled, those of its table yet to
\* be seen, whatever other processes do.
SeenInv ==
  \A w \in Workers :
    /\ scan[w].at \in {"down", "up"} => scan[w].todo = {} /\ scan[w].due = NoTask
    /\ \A i \in 1 .. 4 : scan[w].at = Tables[i] =>
         /\ Tables[i] \in Lasting => Stale(Tables[i]) \subseteq scan[w].todo
         /\ \A j \in 1 .. 4 : j < i /\ Tables[j] \in Lasting => Stale(Tables[j]) = {}

\* What a row is when it grows old.
LEMMA AgedRows ==
  ASSUME [CNext]_allVars
  PROVE  /\ AnyAge \/ aged' = aged
         /\ AnyAge => /\ UNCHANGED <<approval, exec, comp, task, scan, req>>
                      /\ \A w \in Workers : scan[w].at \in {"down", "up"}
                      /\ \A table \in Lasting : \A r : <<table, r>> \in aged' \ aged => Interrupted(table, r)
<1>1. AnyAge \/ aged' = aged
  <2>1. ASSUME NEW h \in Handlers, Talks(h) PROVE aged' = aged
    BY <2>1 DEF Talks, Arrive, Create, Approve, Deny, RequestRollback, GuardAndPlan, DecidePolicy, InsertApproval,
       FinishPending, PolicyBlocked, ClaimApproval, AuditClaim, DenyTask, Elsewhere
  <2>2. ASSUME \/ UNCHANGED httpVars \/ UNCHANGED allVars
               \/ \E h \in Handlers : Leaves(h) \/ EnterEngine(h) \/ EngineFault(h)
               \/ \E w \in Workers : Crash(w) \/ ScanStep(w)
        PROVE  aged' = aged
    BY <2>2 DEF httpVars, allVars, Leaves, SettleApproval, LeaveEngine, RequestFault, Elsewhere, EnterEngine,
       EngineFault, Crash, ScanStep, Start, ScanNext, ScanTask, ScanRow
  <2>. QED BY <2>1, <2>2, CNextSplit
<1>2. ASSUME NEW i \in 1 .. 4, NEW r \in RowsOf[Tables[i]], Age(Tables[i], r)
      PROVE  /\ UNCHANGED <<approval, exec, comp, task, scan, req>>
             /\ \A w \in Workers : scan[w].at \in {"down", "up"}
             /\ \A table \in Lasting : \A s : <<table, s>> \in aged' \ aged => Interrupted(table, s)
  <2>1. /\ UNCHANGED <<approval, exec, comp, task, scan, req>>
        /\ \A w \in Workers : scan[w].at \in {"down", "up"}
    BY <1>2 DEF Age, vars, evars, ledgerVars
  <2>2. ASSUME NEW table \in Lasting, NEW s, <<table, s>> \in aged' \ aged PROVE Interrupted(table, s)
    <3>1. <<table, s>> = <<Tables[i], r>>
      BY <1>2, <2>2 DEF Age
    <3>2. table = Tables[i] /\ s = r
      BY <3>1
    <3>. QED BY <1>2, <3>2 DEF Age, Lasting
  <2>. QED BY <2>1, <2>2
<1>. QED BY <1>1, <1>2 DEF AnyAge

\* Old approvals stay reviewed, and old tasks stay.
LEMMA AgedNext ==
  ASSUME ControlInv, AgedInv, [CNext]_allVars
  PROVE  AgedInv'
<1>. SUFFICES ASSUME NEW t \in Tasks
     PROVE  /\ <<"approvals", t>> \in aged' => approval'[t].status \in Reviewed
            /\ <<"orphans", t>> \in aged' => task'[t] # "none"
  BY DEF AgedInv
<1>1. /\ approval[t].status \in Reviewed => approval'[t].status \in Reviewed
      /\ task[t] # "none" => task'[t] # "none"
  BY ReviewKept, TaskShape DEF ControlInv
<1>2. ASSUME <<"approvals", t>> \in aged' \ aged PROVE approval[t].status \in Reviewed
  <2>1. Interrupted("approvals", t)
    BY <1>2, AgedRows DEF Lasting
  <2>. QED BY <2>1, InterruptedRows DEF Reviewed
<1>3. ASSUME <<"orphans", t>> \in aged' \ aged PROVE task[t] # "none"
  <2>1. Interrupted("orphans", t)
    BY <1>3, AgedRows DEF Lasting
  <2>. QED BY <2>1, InterruptedRows
<1>. QED BY <1>1, <1>2, <1>3 DEF AgedInv

\* A row of the ledger that begins to execute is new.
LEMMA ExecutingIsNew ==
  ASSUME EngineTypeOK, EngineMoves, NEW k \in Keys, exec'[k] = "executing", exec[k] # "executing"
  PROVE  exec[k] = "none"
<1>0. exec \in [Keys -> ExecStatus]
  BY DEF EngineTypeOK
<1>1. ASSUME NEW h \in Handlers, EngineStep(h) PROVE exec[k] = "none"
  BY <1>0, <1>1, LedgerShape DEF LedgerStill, Fails, RbReceipt, Claims, Invokes, Settles
<1>2. ~ \E j \in Keys : LateEffect(j) \/ InterruptExecution(j)
  BY <1>0 DEF LateEffect, InterruptExecution, ledgerVars
<1>3. ~ \E c \in Comps : InterruptCompensation(c)
  BY DEF InterruptCompensation, ledgerVars
<1>4. ~ Apart
  BY DEF Apart, ledgerVars
<1>. QED BY <1>1, <1>2, <1>3, <1>4 DEF EngineMoves

\* A task is created once.
LEMMA CreatedIsNew ==
  ASSUME CTypeOK, [CNext]_allVars, NEW t \in Tasks, task'[t] = "created", task[t] # "created"
  PROVE  task[t] = "none"
<1>0. task \in [Tasks -> TaskStatus \union {"none", "pending_approval"}]
  BY DEF CTypeOK
<1>1. task' # task
  OBVIOUS
<1>2. ~ \E u : Checkpoint(u)
  BY <1>0 DEF Checkpoint
<1>3. ~ \E u, s : Finish(u, s) /\ s # "created"
  BY <1>0 DEF Finish
<1>4. ASSUME NEW h \in Handlers, EngineStep(h) PROVE FALSE
  BY <1>1, <1>2, <1>3, <1>4, EngineTask DEF FinishCompleted
<1>5. ASSUME NEW h \in Handlers, Talks(h) PROVE task[t] = "none"
  <2>1. ~ (GuardAndPlan(h) \/ DecidePolicy(h))
    BY <1>2 DEF GuardAndPlan, DecidePolicy
  <2>2. ~ (FinishPending(h) \/ PolicyBlocked(h) \/ DenyTask(h))
    BY <1>3 DEF FinishPending, PolicyBlocked, DenyTask
  <2>3. ~ (InsertApproval(h) \/ ClaimApproval(h) \/ AuditClaim(h))
    BY <1>1 DEF InsertApproval, ClaimApproval, AuditClaim, vars
  <2>4. PICK u \in Tasks, p \in Callers :
          Create(h, u, p) \/ Approve(h, u, p) \/ Deny(h, u, p) \/ RequestRollback(h, u, p)
    BY <1>5, <2>1, <2>2, <2>3 DEF Talks, Arrive
  <2>5. task[u] = "none" /\ task' = [task EXCEPT ![u] = "created"]
    BY <1>1, <2>4 DEF Create, Approve, Deny, RequestRollback, vars
  <2>. QED BY <1>0, <2>5
<1>6. ASSUME NEW h \in Handlers, Leaves(h) \/ EnterEngine(h) \/ EngineFault(h) PROVE FALSE
  BY <1>1, <1>6 DEF Leaves, SettleApproval, LeaveEngine, RequestFault, EnterEngine, EngineFault, CallExecute,
       CallRollback, DbError, Return, Leave, vars
<1>7. ASSUME NEW w \in Workers, ScanStep(w) PROVE FALSE
  <2>1. ~ (Start(w) \/ ScanNext(w))
    BY <1>1 DEF Start, ScanNext, vars
  <2>2. ~ ScanTask(w)
    BY <1>3 DEF ScanTask, MarkRecovery
  <2>3. PICK r \in scan[w].todo : ScanRow(w, r)
    BY <1>7, <2>1, <2>2 DEF ScanStep
  <2>4. task' = [task EXCEPT ![r] = IF @ \in {"created", "running"} THEN "recovery_required" ELSE @]
    BY <1>1, <2>3 DEF ScanRow, InterruptExecution, InterruptCompensation, vars
  <2>. QED BY <1>0, <2>4
<1>8. ~ (AnyAge \/ (\E w \in Workers : Crash(w)) \/ (\E k \in Keys : LateEffect(k)) \/ UNCHANGED allVars)
  BY <1>1 DEF AnyAge, Age, Crash, LateEffect, allVars, vars
<1>. QED BY <1>4, <1>5, <1>6, <1>7, <1>8, CNextSplit

\* While no row grows old, none of the three tables has a row that becomes
\* stale, whoever moves.
LEMMA LastingShrink ==
  ASSUME ControlInv, AgedInv, [CNext]_allVars, aged' = aged, NEW table \in Lasting
  PROVE  Stale(table)' \subseteq Stale(table)
<1>0. CTypeOK /\ CreateInv /\ ReviewInv /\ ReceiptsInv /\ EngineTypeOK /\ EngineMoves /\ table \in DOMAIN RowsOf
  BY ControlMoves, Rows DEF ControlInv, CTypeOK, Lasting
<1>. SUFFICES ASSUME NEW r \in RowsOf[table], <<table, r>> \in aged, Interrupted(table, r)'
     PROVE  Interrupted(table, r)
  <2>1. Stale(table)' = {r \in RowsOf[table] : Interrupted(table, r)' /\ <<table, r>> \in aged'}
    BY DEF Stale, RowsOf
  <2>. QED BY <2>1 DEF Stale
<1>1. CASE table = "approvals"
  <2>1. r \in Tasks /\ approval'[r].status = "executing" /\ approval[r].status \in Reviewed
    BY <1>1, Rows, InterruptedRows DEF AgedInv
  <2>2. approval'[r] = approval[r]
    <3>1. SUFFICES ASSUME approval'[r] # approval[r] PROVE FALSE
      OBVIOUS
    <3>2. Asks(r) \/ Claimed(r) \/ Denied(r) \/ Settled(r)
      BY <1>0, <2>1, <3>1, StatusShape
    <3>. QED BY <2>1, <3>2 DEF Asks, Claimed, Denied, Settled, Reviewed
  <2>. QED BY <1>1, <2>1, <2>2, InterruptedRows
<1>2. CASE table = "executions"
  <2>1. r \in Keys /\ exec'[r] = "executing" /\ exec[r] # "none"
    BY <1>0, <1>2, Rows, InterruptedRows DEF ReceiptsInv
  <2>. QED BY <1>0, <1>2, <2>1, ExecutingIsNew, InterruptedRows
<1>3. CASE table = "orphans"
  <2>1. r \in Tasks /\ task'[r] = "created" /\ task[r] # "none"
    <3>1. r \in Tasks /\ task[r] # "none"
      BY <1>3, Rows DEF AgedInv
    <3>2. task'[r] = "created"
      BY <1>3, InterruptedRows
    <3>. QED BY <3>1, <3>2
  <2>. QED BY <1>0, <1>3, <2>1, CreatedIsNew, InterruptedRows
<1>. QED BY <1>1, <1>2, <1>3 DEF Lasting

\* How the scan of a process is changed by a step that is not its own.
LEMMA OthersScan ==
  ASSUME CTypeOK, [CNext]_allVars, NEW w \in Workers
  PROVE  Crash(w) \/ ScanStep(w) \/ scan'[w] = scan[w]
<1>0. scan \in [Workers -> ScanSet]
  BY DEF CTypeOK, ScanSet
<1>1. ASSUME NEW h \in Handlers, Talks(h) \/ Leaves(h) \/ EnterEngine(h) \/ EngineFault(h) PROVE scan' = scan
  BY <1>1 DEF Talks, Arrive, Create, Approve, Deny, RequestRollback, GuardAndPlan, DecidePolicy, InsertApproval,
       FinishPending, PolicyBlocked, ClaimApproval, AuditClaim, DenyTask, Leaves, SettleApproval, LeaveEngine,
       RequestFault, EnterEngine, EngineFault, Elsewhere, httpVars
<1>2. ASSUME NEW v \in Workers \ {w}, Crash(v) \/ ScanStep(v) PROVE scan'[w] = scan[w]
  <2>1. CASE Crash(v)
    BY <1>0, <1>2, <2>1 DEF Crash
  <2>2. CASE Start(v) \/ ScanTask(v)
    BY <1>0, <1>2, <2>2 DEF Start, Scan, ScanTask
  <2>3. CASE ScanNext(v)
    BY <1>0, <1>2, <2>3 DEF ScanNext, Scan
  <2>4. ASSUME NEW r \in scan[v].todo, ScanRow(v, r) PROVE scan'[w] = scan[w]
    BY <1>0, <1>2, <2>4 DEF ScanRow
  <2>. QED BY <1>2, <2>1, <2>2, <2>3, <2>4 DEF ScanStep
<1>. QED BY <1>1, <1>2, CNextSplit DEF AnyAge, Age, httpVars, allVars

\* A scan that proceeds has seen the rows behind it, and goes on to see the rest.
LEMMA SeenProceeds ==
  ASSUME ControlInv, AgedInv, SeenInv, [CNext]_allVars, NEW w \in Workers, ScanStep(w)
  PROVE  /\ scan'[w].at \in {"down", "up"} => scan'[w].todo = {} /\ scan'[w].due = NoTask
         /\ \A i \in 1 .. 4 : scan'[w].at = Tables[i] =>
              /\ Tables[i] \in Lasting => Stale(Tables[i])' \subseteq scan'[w].todo
              /\ \A j \in 1 .. 4 : j < i /\ Tables[j] \in Lasting => Stale(Tables[j])' = {}
         /\ scan[w].at # "up" /\ scan'[w].at = "up" => \A table \in Lasting : Stale(table) = {}
<1>0. /\ scan \in [Workers -> ScanSet] /\ CTypeOK
      /\ \A table \in Lasting : Stale(table)' \subseteq Stale(table)
  <2>1. aged' = aged
    BY DEF ScanStep, Start, ScanNext, ScanTask, ScanRow
  <2>. QED BY <2>1, LastingShrink DEF ControlInv, CTypeOK, ScanSet
<1>1. CASE Start(w)
  <2>1. scan'[w] = [at |-> Tables[1], todo |-> Stale(Tables[1]), due |-> NoTask]
    BY <1>0, <1>1 DEF Start, Scan
  <2>2. scan'[w].at = Tables[1] /\ scan'[w].todo = Stale(Tables[1])
    BY <2>1
  <2>. QED BY <1>0, <2>2, Places
<1>2. CASE ScanNext(w)
  <2>1. PICK i \in 1 .. 4 :
          /\ scan[w].at = Tables[i]
          /\ IF i < 4 THEN Scan(w, Tables[i + 1]) ELSE scan' = [scan EXCEPT ![w] = NoScan("up")]
    BY <1>2 DEF ScanNext
  <2>2. \A j \in 1 .. 4 : j < i + 1 /\ Tables[j] \in Lasting => Stale(Tables[j]) = {}
    <3>1. Tables[i] \in Lasting => Stale(Tables[i]) = {}
      BY <1>2, <2>1 DEF SeenInv, ScanNext
    <3>. QED BY <2>1, <3>1 DEF SeenInv
  <2>3. CASE i < 4
    <3>1. i + 1 \in 1 .. 4
      BY <2>3
    <3>2. scan'[w] = [at |-> Tables[i + 1], todo |-> Stale(Tables[i + 1]), due |-> NoTask]
      BY <1>0, <2>1, <2>3 DEF Scan
    <3>3. scan'[w].at = Tables[i + 1] /\ scan'[w].todo = Stale(Tables[i + 1])
      BY <3>2
    <3>. QED BY <1>0, <2>2, <3>1, <3>3, Places
  <2>4. CASE ~ i < 4
    <3>1. scan'[w] = NoScan("up")
      BY <1>0, <2>1, <2>4
    <3>2. \A j \in 1 .. 4 : Tables[j] \in Lasting => Stale(Tables[j]) = {}
      BY <2>2, <2>4
    <3>3. \A table \in Lasting : Stale(table) = {}
      BY <3>2, Places, Rows DEF Lasting
    <3>. QED BY <3>1, <3>3, Places DEF NoScan
  <2>. QED BY <2>3, <2>4
<1>3. CASE ScanTask(w)
  <2>1. scan'[w].at = scan[w].at /\ scan'[w].todo = scan[w].todo
    BY <1>0, <1>3 DEF ScanTask, ScanSet
  <2>2. scan[w].at \notin {"down", "up"}
    BY <1>3 DEF ScanTask, SeenInv
  <2>. QED BY <1>0, <2>1, <2>2 DEF SeenInv
<1>4. ASSUME NEW r \in scan[w].todo, ScanRow(w, r)
      PROVE  /\ scan'[w].at \notin {"down", "up"}
             /\ \A i \in 1 .. 4 : scan'[w].at = Tables[i] =>
                  /\ Tables[i] \in Lasting => Stale(Tables[i])' \subseteq scan'[w].todo
                  /\ \A j \in 1 .. 4 : j < i /\ Tables[j] \in Lasting => Stale(Tables[j])' = {}
  <2>1. scan'[w].at = scan[w].at /\ scan'[w].todo = scan[w].todo \ {r}
    BY <1>0, <1>4 DEF ScanRow, ScanSet
  <2>2. scan[w].at \in DOMAIN RowsOf /\ scan[w].at \notin {"down", "up"}
    BY <1>0, <1>4, Rows DEF SeenInv, ScanSet
  <2>3. \A table \in DOMAIN RowsOf : table = scan[w].at => r \notin Stale(table)'
    BY <1>0, <1>4, <2>2, ScanSettles
  <2>4. ASSUME NEW i \in 1 .. 4, scan'[w].at = Tables[i], Tables[i] \in Lasting
        PROVE  Stale(Tables[i])' \subseteq scan'[w].todo
    <3>1. Stale(Tables[i])' \subseteq Stale(Tables[i]) /\ Stale(Tables[i]) \subseteq scan[w].todo
      BY <1>0, <2>1, <2>4 DEF SeenInv
    <3>2. r \notin Stale(Tables[i])'
      BY <2>1, <2>2, <2>3, <2>4
    <3>. QED BY <2>1, <3>1, <3>2
  <2>5. ASSUME NEW i \in 1 .. 4, scan'[w].at = Tables[i], NEW j \in 1 .. 4, j < i, Tables[j] \in Lasting
        PROVE  Stale(Tables[j])' = {}
    <3>1. Stale(Tables[j])' \subseteq Stale(Tables[j])
      BY <1>0, <2>5
    <3>2. Stale(Tables[j]) = {}
      BY <2>1, <2>5 DEF SeenInv
    <3>. QED BY <3>1, <3>2
  <2>. QED BY <2>1, <2>2, <2>4, <2>5
<1>. QED BY <1>1, <1>2, <1>3, <1>4 DEF ScanStep

\* Every step keeps what the scans have seen.
LEMMA SeenNext ==
  ASSUME ControlInv, AgedInv, SeenInv, [CNext]_allVars
  PROVE  SeenInv'
<1>. SUFFICES ASSUME NEW w \in Workers
     PROVE  /\ scan'[w].at \in {"down", "up"} => scan'[w].todo = {} /\ scan'[w].due = NoTask
            /\ \A i \in 1 .. 4 : scan'[w].at = Tables[i] =>
                 /\ Tables[i] \in Lasting => Stale(Tables[i])' \subseteq scan'[w].todo
                 /\ \A j \in 1 .. 4 : j < i /\ Tables[j] \in Lasting => Stale(Tables[j])' = {}
  BY DEF SeenInv
<1>0. scan \in [Workers -> ScanSet] /\ CTypeOK
  BY DEF ControlInv, CTypeOK, ScanSet
<1>1. CASE ScanStep(w)
  BY <1>1, SeenProceeds
<1>2. CASE Crash(w)
  <2>1. scan'[w] = NoScan("down")
    BY <1>0, <1>2 DEF Crash
  <2>2. scan'[w].at = "down" /\ scan'[w].todo = {} /\ scan'[w].due = NoTask
    BY <2>1 DEF NoScan
  <2>. QED BY <2>2, Places
<1>3. CASE scan'[w] = scan[w]
  <2>1. CASE AnyAge
    <3>1. scan[w].at \in {"down", "up"}
      BY <2>1, AgedRows
    <3>. QED BY <1>3, <3>1, Places DEF SeenInv
  <2>2. CASE aged' = aged
    <3>1. \A table \in Lasting : Stale(table)' \subseteq Stale(table)
      BY <2>2, LastingShrink
    <3>. QED BY <1>3, <3>1 DEF SeenInv
  <2>. QED BY <2>1, <2>2, AgedRows
<1>. QED BY <1>0, <1>1, <1>2, <1>3, OthersScan

\* Among other processes, too, one that begins to serve leaves no old interrupted
\* approval, execution or orphaned task behind, however they serve, crash, claim
\* and scan beside it.
THEOREM ScansSettleOldRows == CSpec => OldRowsSettled
<1>1. CInit => AgedInv /\ SeenInv
  BY Places DEF CInit, NoScan, AgedInv, SeenInv
<1>2. ControlInv /\ AgedInv /\ SeenInv /\ [CNext]_allVars => AgedInv' /\ SeenInv'
  BY AgedNext, SeenNext
<1>3. ControlInv /\ AgedInv /\ SeenInv /\ [CNext]_allVars =>
        [\A w \in Workers : scan[w].at # "up" /\ scan'[w].at = "up" =>
           \A table \in Lasting : Stale(table) = {}]_allVars
  <2>. SUFFICES ASSUME ControlInv, AgedInv, SeenInv, [CNext]_allVars,
                       NEW w \in Workers, scan[w].at # "up", scan'[w].at = "up"
       PROVE  \A table \in Lasting : Stale(table) = {}
    OBVIOUS
  <2>0. scan \in [Workers -> ScanSet] /\ CTypeOK
    BY DEF ControlInv, CTypeOK, ScanSet
  <2>1. ~ Crash(w)
    BY <2>0 DEF Crash, NoScan
  <2>2. ScanStep(w)
    BY <2>0, <2>1, OthersScan
  <2>. QED BY <2>2, SeenProceeds
<1>. QED BY <1>1, <1>2, <1>3, ControlInvariant, PTL DEF CSpec, OldRowsSettled

-----------------------------------------------------------------------------
(* What the engine promises, it promises under the control plane.          *)

\* Whatever the engine's own theorems say of a state holds in every state of
\* the control plane: failures are clean, receipts tell the truth, effects are
\* authorized and have their evidence, and reversals are fresh.
THEOREM ControlKeepsTheEngine ==
  CSpec => [](/\ FailedMeansNoEffect /\ ReceiptTruthful /\ EvidenceFirst
              /\ EffectAuthorized /\ FreshReversal)
<1>1. ASSUME EngineInv
      PROVE  /\ FailedMeansNoEffect /\ ReceiptTruthful /\ EvidenceFirst
             /\ EffectAuthorized /\ FreshReversal
  <2>1. FailedMeansNoEffect
    BY <1>1 DEF EngineInv, EngineTypeOK, LedgerInv, Touched, FailedMeansNoEffect
  <2>2. ReceiptTruthful /\ EffectAuthorized
    BY <1>1 DEF EngineInv, ReceiptInv
  <2>3. EvidenceFirst
    BY <1>1, CallTypes DEF EngineInv, OnceInv, Touched, RecordInv, Recorded, EvidenceFirst
  <2>4. FreshReversal
    BY <1>1 DEF EngineInv, ReversalInv, ClaimedRb, FreshReversal
  <2>. QED BY <2>1, <2>2, <2>3, <2>4
<1>. QED BY <1>1, ControlEngine, PTL

\* The control plane implements the ledger of at-most-once calls.
THEOREM ControlImplementsLedger == CSpec => LedgerSpec
<1>1. CInit => Ledger!Init
  BY DEF CInit, EngineInit, Ledger!Init
<1>2. CTypeOK /\ EngineInv /\ [CNext]_allVars => [Ledger!Next]_(Ledger!vars)
  BY ControlMoves, LedgerSimulated DEF EngineInv
<1>. QED BY <1>1, <1>2, ControlEngine, ControlTypeCorrect, PTL DEF CSpec, LedgerSpec, Ledger!Spec

\* Under the control plane too, a completed receipt is never replaced and an
\* unknown outcome never forgotten.
THEOREM ControlKeepsReceipts == CSpec => VerdictsStand
<1>1. CTypeOK /\ [CNext]_allVars =>
        [\A t \in Tasks : exec[Primary(t)] = "completed" =>
           exec'[Primary(t)] = "completed" /\ output'[Primary(t)] = output[Primary(t)]]_vars
  BY ControlMoves, PrimaryRow DEF CTypeOK
<1>2. CTypeOK /\ [CNext]_allVars =>
        [\A t \in Tasks : exec[Primary(t)] = "execution_unknown" => exec'[Primary(t)] = "execution_unknown"]_vars
  BY ControlMoves, PrimaryRow DEF CTypeOK
<1>. QED BY <1>1, <1>2, ControlTypeCorrect, PTL DEF CSpec, VerdictsStand, ReceiptStable, UnknownStays
=============================================================================
