---------------------------- MODULE ControlPlane ----------------------------
(***************************************************************************)
(* The HTTP control plane of app/main.py around the engine: task creation  *)
(* and the workflow up to the approval (WorkflowEngine._run), the review   *)
(* of an approval, rollback requests, and the recovery scan of a starting  *)
(* process.  Handlers run in API processes (workers) that crash and        *)
(* restart; all of them share the database.                                *)
(*                                                                         *)
(*   approval[t]  the row of approvals for task t                          *)
(*   req[h]       what handler h is doing outside the engine               *)
(*   scan[w]      "down", "up", or the table the recovery scan that        *)
(*                precedes serving is at, with the rows its SELECT         *)
(*                returned and the task whose UPDATE is due                *)
(*   aged         rows whose timestamp is before the cutoff of a scan that *)
(*                starts now                                               *)
(*   faults       statements that failed and processes that crashed        *)
(***************************************************************************)
EXTENDS Execution, FiniteSets

CONSTANTS Workers,     \* API processes
          WorkerOf,    \* the process a handler runs in
          MaxFaults,   \* bound on faults
          NoTask       \* not a task

ASSUME WorkersAssumption == WorkerOf \in [Handlers -> Workers]
ASSUME NoTaskAssumption == NoTask \notin Tasks /\ MaxFaults \in Nat

VARIABLES approval, req, scan, aged, faults
httpVars == <<approval, req, scan, aged, faults>>
allVars == <<vars, httpVars>>

NoRequest == [at |-> "idle", task |-> NoCall.task, tier |-> "none", by |-> NoCall.by]
NoApproval == [status |-> "none", tier |-> "none", by |-> NoCall.by]
NoScan(state) == [at |-> state, todo |-> {}, due |-> NoTask]

CInit ==
  /\ EngineInit /\ task = [t \in Tasks |-> "none"]
  /\ approval = [t \in Tasks |-> NoApproval]
  /\ req = [h \in Handlers |-> NoRequest]
  /\ scan = [w \in Workers |-> NoScan("up")]
  /\ aged = {} /\ faults = 0

Doing(h, l) == req[h].at = l
Step(h, l) == req' = [req EXCEPT ![h].at = l]
Serve(h, l, t, tier, p) ==
  /\ Doing(h, "idle") /\ scan[WorkerOf[h]].at = "up"
  /\ req' = [req EXCEPT ![h] = [at |-> l, task |-> t, tier |-> tier, by |-> p]]
End(h) == req' = [req EXCEPT ![h] = NoRequest]
Elsewhere == <<scan, aged, faults>>
InEngine == {"run_engine", "approve_engine", "rollback_engine"}
Back(h) == pc[h] \in {"returned", "raised"}

-----------------------------------------------------------------------------
(* create_task and _run                                                    *)

Create(h, t, p) ==
  /\ task[t] = "none" /\ task' = [task EXCEPT ![t] = "created"]
  /\ Serve(h, "guard", t, "none", p)
  /\ UNCHANGED <<evars, audit, approval, Elsewhere>>

\* The checkpoints INPUT_GUARD and PLAN.
GuardAndPlan(h) ==
  /\ Doing(h, "guard") /\ Checkpoint(req[h].task) /\ Step(h, "policy")
  /\ UNCHANGED <<evars, audit, approval, Elsewhere>>

DecidePolicy(h) ==
  /\ Doing(h, "policy") /\ Checkpoint(req[h].task)
  /\ \E d \in Answers(ToolOf[req[h].task]) :
       req' = [req EXCEPT ![h].tier = d.approval_tier,
                 ![h].at = IF d.requires_approval THEN "insert_approval"
                           ELSE IF d.allowed THEN "run_engine" ELSE "policy_blocked"]
  /\ UNCHANGED <<evars, audit, approval, Elsewhere>>

InsertApproval(h) ==
  /\ Doing(h, "insert_approval") /\ Step(h, "finish_pending")
  /\ approval' = [approval EXCEPT ![req[h].task] =
                    [NoApproval EXCEPT !.status = "pending", !.tier = req[h].tier]]
  /\ UNCHANGED <<evars, task, audit, Elsewhere>>

FinishPending(h) ==
  /\ Doing(h, "finish_pending") /\ Finish(req[h].task, "pending_approval") /\ End(h)
  /\ UNCHANGED <<evars, audit, approval, Elsewhere>>

PolicyBlocked(h) ==
  /\ Doing(h, "policy_blocked") /\ Finish(req[h].task, "blocked") /\ End(h)
  /\ UNCHANGED <<evars, audit, approval, Elsewhere>>

-----------------------------------------------------------------------------
(* approve, deny, rollback                                                 *)

\* The approval is read and the reviewer authorized by today's policy, for the
\* tier it was requested for.
Approve(h, t, p) ==
  /\ approval[t].status = "pending"
  /\ \E d \in Answers(ToolOf[t]) : ApprovalAuthorized(d, p) /\ d.approval_tier = approval[t].tier
  /\ Serve(h, "claim_approval", t, approval[t].tier, p)
  /\ UNCHANGED <<vars, approval, Elsewhere>>

\* Mutant: the UPDATE names the approval's id only.
ClaimApprovalBlind(h) ==
  /\ Doing(h, "claim_approval")
  /\ approval' = [approval EXCEPT ![req[h].task].status = "executing", ![req[h].task].by = req[h].by]
  /\ Step(h, "audit_claim")
  /\ UNCHANGED <<vars, Elsewhere>>

ClaimApproval(h) ==
  LET t == req[h].task IN
  /\ Doing(h, "claim_approval")
  /\ IF approval[t].status = "pending"
     THEN /\ approval' = [approval EXCEPT ![t].status = "executing", ![t].by = req[h].by]
          /\ Step(h, "audit_claim")
     ELSE UNCHANGED approval /\ End(h)
  /\ UNCHANGED <<vars, Elsewhere>>

AuditClaim(h) ==
  /\ Doing(h, "audit_claim") /\ AppendAudit("approval.claimed", req[h].task) /\ Step(h, "approve_engine")
  /\ UNCHANGED <<evars, task, approval, Elsewhere>>

\* Mutant: the engine's answer is stored as it is.
SettleApprovalRaw(h) ==
  /\ Doing(h, "approve_engine") /\ Return(h) /\ End(h)
  /\ approval' = [approval EXCEPT ![req[h].task].status = ctx[h].reply]
  /\ UNCHANGED Elsewhere
\* Mutant: whatever the engine answers is an approval.
SettleApprovalAny(h) ==
  /\ Doing(h, "approve_engine") /\ Return(h) /\ End(h)
  /\ approval' = [approval EXCEPT ![req[h].task].status =
                    IF pc[h] = "returned" THEN "approved" ELSE "execution_failed"]
  /\ UNCHANGED Elsewhere
\* Mutant: what did not complete can be approved again.
SettleApprovalReopens(h) ==
  /\ Doing(h, "approve_engine") /\ Return(h) /\ End(h)
  /\ approval' = [approval EXCEPT ![req[h].task].status =
                    IF pc[h] = "returned" /\ ctx[h].reply = "completed" THEN "approved" ELSE "pending"]
  /\ UNCHANGED Elsewhere
\* Mutant: a blocked action leaves the approval as it is.
SettleApprovalUnlessBlocked(h) ==
  /\ Doing(h, "approve_engine") /\ Return(h) /\ End(h)
  /\ approval' = [approval EXCEPT ![req[h].task].status =
                    IF ctx[h].reply = "blocked" THEN @ ELSE "approved"]
  /\ UNCHANGED Elsewhere

\* The handler's last statement names the approval's id only.
SettleApproval(h) ==
  LET r == ctx[h].reply IN
  /\ Doing(h, "approve_engine") /\ Return(h)
  /\ approval' = [approval EXCEPT ![req[h].task].status =
       IF pc[h] = "returned" /\ r = "completed" THEN "approved"
       ELSE IF pc[h] = "returned" /\ r = "recovery_required" THEN r ELSE "execution_failed"]
  /\ End(h) /\ UNCHANGED Elsewhere

\* Mutant: the UPDATE names the approval's id only.
DenyAnytime(h, t, p) ==
  /\ approval[t].status # "none"
  /\ (IF approval[t].tier = "executive_mfa" THEN "approve:executive" ELSE "approve:team") \in p.scopes
  /\ approval' = [approval EXCEPT ![t].status = "denied", ![t].by = p]
  /\ Serve(h, "deny_task", t, approval[t].tier, p)
  /\ UNCHANGED <<vars, Elsewhere>>

Deny(h, t, p) ==
  /\ approval[t].status = "pending"
  /\ (IF approval[t].tier = "executive_mfa" THEN "approve:executive" ELSE "approve:team") \in p.scopes
  /\ approval' = [approval EXCEPT ![t].status = "denied", ![t].by = p]
  /\ Serve(h, "deny_task", t, approval[t].tier, p)
  /\ UNCHANGED <<vars, Elsewhere>>

DenyTask(h) ==
  /\ Doing(h, "deny_task") /\ Finish(req[h].task, "blocked") /\ End(h)
  /\ UNCHANGED <<evars, audit, approval, Elsewhere>>

RequestRollback(h, t, p) ==
  /\ task[t] # "none" /\ p.role = "executive" /\ p.mfa
  /\ Serve(h, "rollback_engine", t, "none", p)
  /\ UNCHANGED <<vars, approval, Elsewhere>>

EnterEngine(h) ==
  /\ \/ /\ req[h].at \in {"run_engine", "approve_engine"}
        /\ CallExecute(h, req[h].task, req[h].tier, req[h].by)
     \/ Doing(h, "rollback_engine") /\ CallRollback(h, req[h].task, req[h].by)
  /\ UNCHANGED httpVars

LeaveEngine(h) ==
  /\ req[h].at \in {"run_engine", "rollback_engine"} /\ Return(h) /\ End(h)
  /\ UNCHANGED <<approval, Elsewhere>>

-----------------------------------------------------------------------------
(* Faults                                                                  *)

Fault == faults < MaxFaults /\ faults' = faults + 1

\* A statement of the engine fails.
EngineFault(h) == Fault /\ DbError(h) /\ UNCHANGED <<approval, req, scan, aged>>

\* A statement outside the engine fails: the request ends with a 500.
RequestFault(h) ==
  /\ Fault /\ End(h)
  /\ \/ req[h].at \notin InEngine \union {"idle"} /\ UNCHANGED vars
     \/ Doing(h, "approve_engine") /\ Return(h)
  /\ UNCHANGED <<approval, scan, aged>>

\* A process dies with the requests it serves, or during its scan.
Crash(w) ==
  LET its == {h \in Handlers : WorkerOf[h] = w} IN
  /\ Fault /\ scan[w].at # "down"
  /\ scan' = [scan EXCEPT ![w] = NoScan("down")]
  /\ req' = [h \in Handlers |-> IF h \in its THEN NoRequest ELSE req[h]]
  /\ pc' = [h \in Handlers |-> IF h \in its THEN "idle" ELSE pc[h]]
  /\ ctx' = [h \in Handlers |-> IF h \in its THEN NoCall ELSE ctx[h]]
  /\ UNCHANGED <<task, ledgerVars, comp, effectVars, audit, approval, aged>>

-----------------------------------------------------------------------------
(* lifespan and reconcile_stale_state                                      *)

Tables == <<"approvals", "executions", "compensations", "orphans">>
RowsOf == [approvals |-> Tasks, executions |-> Keys, compensations |-> Comps, orphans |-> Tasks]
TaskOf(table, r) == IF table \in {"approvals", "orphans"} THEN r ELSE r[1]

\* The rows a scan selects if they are old enough.
Interrupted(table, r) ==
  CASE table = "approvals" -> approval[r].status = "executing"
    [] table = "executions" -> exec[r] = "executing"
    [] table = "compensations" -> comp[r] = "executing"
    [] table = "orphans" -> task[r] = "created"
Stale(table) == {r \in RowsOf[table] : Interrupted(table, r) /\ <<table, r>> \in aged}

\* recovery_stale_seconds pass since the row's timestamp: started_at, for a
\* compensation created_at, for a task its last update.  That no request is at
\* work on the task that long is an assumption: only its statements and calls
\* have a timeout.  The cutoff of a scan under way is fixed.
Age(table, r) ==
  /\ <<table, r>> \notin aged
  /\ Interrupted(table, r) \/ (table = "compensations" /\ comp[r] = "available")
  /\ \A h \in Handlers : req[h].at # "idle" => req[h].task # TaskOf(table, r)
  /\ \A w \in Workers : scan[w].at \in {"down", "up"}
  /\ aged' = aged \union {<<table, r>>}
  /\ UNCHANGED <<vars, approval, req, scan, faults>>

Scan(w, table) == scan' = [scan EXCEPT ![w] = [at |-> table, todo |-> Stale(table), due |-> NoTask]]

Start(w) ==
  /\ scan[w].at = "down" /\ Scan(w, Tables[1])
  /\ UNCHANGED <<vars, approval, req, aged, faults>>

\* Mutant: the scan ends one table early.
ScanNextShort(w) ==
  /\ scan[w].todo = {} /\ scan[w].due = NoTask
  /\ \E i \in 1 .. 4 :
       /\ scan[w].at = Tables[i]
       /\ IF i < 3 THEN Scan(w, Tables[i + 1]) ELSE scan' = [scan EXCEPT ![w] = NoScan("up")]
  /\ UNCHANGED <<vars, approval, req, aged, faults>>

ScanNext(w) ==
  /\ scan[w].todo = {} /\ scan[w].due = NoTask
  /\ \E i \in 1 .. 4 :
       /\ scan[w].at = Tables[i]
       /\ IF i < 4 THEN Scan(w, Tables[i + 1]) ELSE scan' = [scan EXCEPT ![w] = NoScan("up")]
  /\ UNCHANGED <<vars, approval, req, aged, faults>>

\* The row is settled if it is still executing; its task is due in any case.
ScanRow(w, r) ==
  LET table == scan[w].at
      Interrupt ==
        \/ /\ table = "approvals" /\ UNCHANGED vars
           /\ approval' = [approval EXCEPT ![r].status = IF @ = "executing" THEN "recovery_required" ELSE @]
        \/ table = "executions" /\ InterruptExecution(r) /\ UNCHANGED approval
        \/ table = "compensations" /\ InterruptCompensation(r) /\ UNCHANGED approval
        \/ /\ table = "orphans" /\ UNCHANGED <<evars, audit, approval>>
           /\ task' = [task EXCEPT ![r] = IF @ \in {"created", "running"} THEN "recovery_required" ELSE @]
  IN
  /\ r \in scan[w].todo /\ scan[w].due = NoTask /\ Interrupt
  /\ scan' = [scan EXCEPT ![w].todo = @ \ {r},
                ![w].due = IF table = "orphans" THEN NoTask ELSE TaskOf(table, r)]
  /\ UNCHANGED <<req, aged, faults>>

ScanTask(w) ==
  /\ scan[w].due # NoTask /\ MarkRecovery(scan[w].due)
  /\ scan' = [scan EXCEPT ![w].due = NoTask]
  /\ UNCHANGED <<approval, req, aged, faults>>

-----------------------------------------------------------------------------

RequestStep(h) ==
  \/ GuardAndPlan(h) \/ DecidePolicy(h) \/ InsertApproval(h) \/ FinishPending(h) \/ PolicyBlocked(h)
  \/ ClaimApproval(h) \/ AuditClaim(h) \/ SettleApproval(h) \/ DenyTask(h)
  \/ EnterEngine(h) \/ LeaveEngine(h)
  \/ EngineStep(h) /\ UNCHANGED httpVars
Arrive(h) == \E t \in Tasks, p \in Callers :
  Create(h, t, p) \/ Approve(h, t, p) \/ Deny(h, t, p) \/ RequestRollback(h, t, p)
ScanStep(w) == Start(w) \/ ScanNext(w) \/ ScanTask(w) \/ \E r \in scan[w].todo : ScanRow(w, r)

CNext ==
  \/ \E h \in Handlers : RequestStep(h) \/ Arrive(h) \/ EngineFault(h) \/ RequestFault(h)
  \/ \E k \in Keys : LateEffect(k) /\ UNCHANGED httpVars
  \/ \E w \in Workers : Crash(w) \/ ScanStep(w)
  \/ \E i \in 1 .. 4 : \E r \in RowsOf[Tables[i]] : Age(Tables[i], r)

CSpec == CInit /\ [][CNext]_allVars
\* Handlers run on, dead processes are restarted and time passes.
FairCSpec ==
  /\ CSpec
  /\ \A h \in Handlers : WF_allVars(RequestStep(h))
  /\ \A w \in Workers : WF_allVars(ScanStep(w))
  /\ WF_allVars(\E i \in 1 .. 4 : \E r \in RowsOf[Tables[i]] : Age(Tables[i], r))

-----------------------------------------------------------------------------
(* Properties                                                              *)

ApprovalStatus == {"none", "pending", "executing", "approved", "denied",
                   "execution_failed", "recovery_required"}
RequestPositions == InEngine \union {"idle", "guard", "policy", "insert_approval", "finish_pending",
  "policy_blocked", "claim_approval", "audit_claim", "deny_task"}
AllRows == {<<Tables[i], r>> : i \in 1 .. 4, r \in Tasks \union Keys}

\* Every variable holds a value of its kind.
CTypeOK ==
  /\ EngineTypeOK /\ task \in [Tasks -> TaskStatus \union {"none", "pending_approval"}]
  /\ audit \subseteq (Events \union {"approval.claimed"}) \X Tasks
  /\ approval \in [Tasks -> [status: ApprovalStatus, tier: Tiers, by: Callers]]
  /\ req \in [Handlers -> [at: RequestPositions, task: Tasks, tier: Tiers, by: Callers]]
  /\ scan \in [Workers -> [at: {"down", "up"} \union DOMAIN RowsOf, todo: SUBSET (Tasks \union Keys),
                           due: Tasks \union {NoTask}]]
  /\ \A w \in Workers : scan[w].at \in DOMAIN RowsOf => scan[w].todo \subseteq RowsOf[scan[w].at]
  /\ aged \subseteq AllRows /\ faults \in 0 .. MaxFaults

Quiet(t) == \A h \in Handlers : req[h].at # "idle" => req[h].task # t

\* No side effect happens, or is even attempted, for a task whose approval was
\* not claimed by a reviewer entitled to the tier it was requested for; a
\* denied or pending task never has one.
EffectUnderApproval ==
  \A t \in Tasks : SideEffect(t) /\ Touched(Primary(t)) =>
    /\ approval[t].status \in {"executing", "approved", "execution_failed", "recovery_required"}
    /\ Entitled(approval[t].by, approval[t].tier)

\* A task gets at most one compensation and is reversed at most once, although
\* the compensation is inserted after a separate SELECT.
Reversals(t) == {r \in CompIds \X (1 .. 2) : effect[<<t, r[1]>>] >= r[2]}
OneReversal ==
  \A t \in Tasks :
    /\ \A i, j \in CompIds : comp[<<t, i>>] # "none" /\ comp[<<t, j>>] # "none" => i = j
    /\ \A r, s \in Reversals(t) : r = s

\* A task shown as completed has its completed receipt in the ledger.
CompletedIsBacked == \A t \in Tasks : task[t] = "completed" => exec[Primary(t)] = "completed"

\* An approval shown as approved was claimed, rechecked and executed on record:
\* the receipt is there and so are the audit events of every stage.
ApprovedIsOnRecord ==
  \A t \in Tasks : approval[t].status = "approved" =>
    /\ exec[Primary(t)] = "completed"
    /\ {"approval.claimed", "policy.jit_recheck", "tool.executed"} \X {t} \subseteq audit

\* A review is given once: nobody else takes the approval over or reopens it,
\* and a denial stands.
ReviewFinal ==
  [][\A t \in Tasks : approval[t].status \notin {"none", "pending"} =>
       /\ approval'[t].by = approval[t].by
       /\ approval'[t].status \notin {"none", "pending"}
       /\ approval[t].status = "denied" => approval'[t].status = "denied"]_allVars

\* A process that starts to serve leaves no old interrupted row behind, even
\* when an earlier scan crashed half-way.
ScanComplete ==
  [][\A w \in Workers : scan[w].at # "up" /\ scan'[w].at = "up" =>
       \A table \in DOMAIN RowsOf : Stale(table) = {}]_allVars

\* So it is while other processes serve, crash and scan beside it, except for the
\* compensations: a live rollback may claim one that was old while available.
Lasting == {"approvals", "executions", "orphans"}
OldRowsSettled ==
  [][\A w \in Workers : scan[w].at # "up" /\ scan'[w].at = "up" =>
       \A table \in Lasting : Stale(table) = {}]_allVars

\* Without faults, every request and every claimed approval is settled.
RequestsEnd == \A h \in Handlers : req[h].at # "idle" ~> req[h].at = "idle"
ClaimsSettle == \A t \in Tasks : approval[t].status = "executing" ~> approval[t].status # "executing"

\* What the control plane promises about a governed write.
Writes == {t \in Tasks : SideEffect(t)}
ReviewOf(status) ==
  IF status \in {"none", "denied"} THEN status
  ELSE IF status = "pending" THEN "asked" ELSE "granted"
Governed == INSTANCE GovernedAction WITH
  review <- [t \in Writes |-> ReviewOf(approval[t].status)],
  done <- [t \in Writes |-> effect[Primary(t)]],
  undone <- [t \in Writes |-> Cardinality(Reversals(t))]
GovernedSpec == Governed!Spec

-----------------------------------------------------------------------------
(* What the documentation says, where the code does something else.        *)

\* ARCHITECTURE: WAIT_APPROVAL comes before the review.  A task whose approval
\* has been decided does not go on waiting for one.
DecidedIsNotPending ==
  \A t \in Tasks : approval[t].status \in {"approved", "denied"} /\ Quiet(t)
                     => task[t] # "pending_approval"

\* main.py:207 answers "approved action failed safely": the side effect of an
\* approval that ended as execution_failed did not take place.
FailedSafely ==
  \A t \in Tasks : approval[t].status = "execution_failed" => effect[Primary(t)] = 0

\* R-04: an approval that was executing when its process died becomes
\* recovery_required once a process has been restarted (the scan runs only
\* then, and only for rows that are old by then).
InterruptedClaimRecovers ==
  \A t \in Tasks : approval[t].status = "executing" /\ Quiet(t) /\ (\E w \in Workers : scan[w].at = "down")
                     ~> approval[t].status # "executing"

\* Recovery is for interrupted work: it does not flag a compensation that a
\* live rollback has just claimed.
LiveRollbackIsLeftAlone ==
  [][\A h \in Handlers : pc[h] \in {"rb_ledger", "rb_execute", "rb_receipt", "rb_use"} /\ pc'[h] = pc[h]
       => comp'[RbKey(h)] = comp[RbKey(h)]]_allVars

=============================================================================
