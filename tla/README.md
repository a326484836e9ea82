# A TLA+ development of the Aurelian control plane

Aurelian takes requests from employees, plans one tool call for each, decides by
policy whether the call is allowed or needs a human approval, executes it at most
once, and can undo it. The difficulty is not in any single function but in what
happens *between* two statements: several API processes share one database, no
database transaction spans a handler, tools time out without telling whether they took effect,
and processes die and restart in the middle. This development models that part
statement by statement, and beside it the services the engine stands on: the intake of
repeated posts, the tenant pool, the event bus, retrieval and seeding. It checks the models
with TLC on small instances and proves the central results with TLAPS for every
value of the constants.

Paths such as `agent.py` are below `src/app/` unless they say otherwise.

## 1. The system: components, state, operations

| Component | State | Operations | Modelled in |
|---|---|---|---|
| Execution engine (`agent.py:execute_approved`, `rollback`) | `tool_executions`, `compensations`, `tasks`, a handler's locals | look up / claim / settle an execution, retry, register, claim and use a compensation | `Execution` |
| Workflow up to the approval (`agent.py:_run`) | `tasks.status`, `tasks.workflow_state`, `approvals` | guard, plan, policy, approval request, block | `ControlPlane` |
| HTTP control plane (`main.py`) | `approvals` | create, approve, deny, rollback | `ControlPlane` |
| Task intake (`main.py:create_task`) | `tasks` and their `idempotency_key` | insert or find the task, run it, answer, replay | `TaskIntake` |
| Startup recovery (`main.py:lifespan`, `reconcile_stale_state`) | all four tables | settle rows that stayed executing or were orphaned | `ControlPlane` |
| Policy (`policy.py`, `opa/policy.rego`, `policies/policy.yaml`) | none | `evaluate`, `approval_authorized` | `Policy`, `PolicyReview` |
| Authentication (`auth.py`) | none | who a token says the caller is: role, scopes, MFA | `PolicyReview` (`Principals`), `Policy` (rank of a role, scopes of a demo token) |
| Tools (`tools.py`, `tool_runner/`) | the business tables | `execute_tool`, isolated calls | their outcomes in `Execution`; the price change in `PriceTool` |
| Audit log (`audit.py`) | `audit_events`, a hash chain per tenant; locks; the writer's pool | append, verify | `AuditLog` |
| Database access (`database.py`, `postgres/schema.sql`) | connection pool, `TENANT_CONTEXT`, `app.tenant_id` per connection | acquire, prepare, execute, commit, reset | `TenantPool` (PostgreSQL); elsewhere a statement is atomic and may fail |
| Event bus (`events.py`) | subscriber queues per tenant | publish, stream, end of a stream | `EventBus` |
| Retrieval (`rag.py`) | `documents`, answers in Redis and in a local cache | ingest, search | `Retrieval` (which documents may be found, and how old the answer is; not their ranking) |
| Input classification (`security.py`) | none | patterns and guard model to a risk | `Classify` in `Retrieval`; what the patterns match is drawn |
| Planning (`planning.py`, `planner_runner/`) | none | text to a tool call | drawn from a small set |
| Seeding (`main.py:seed`) | all tables of an empty database | check and fill table after table | `Seed` |
| Secrets, configuration, tracing, migrations, front end, scripts | configuration | | not modelled |

**How they interact.** A handler of `main.py` calls the engine, the engine calls
policy, tools and the audit log, and all of them talk to the database one
statement at a time. Handlers of one process interleave at every `await`;
processes interleave freely. The only mutual exclusion is in the statements
themselves: `INSERT … ON CONFLICT DO NOTHING RETURNING` on the execution key,
and `UPDATE … WHERE status=…` on approvals, executions and compensations. A
starting process runs the recovery scan and the seeding before it serves, while other processes
are serving.

**What makes each component correct.**

* Engine: one effect per execution key whatever is retried, replayed,
  interrupted or answered late; the ledger's verdict is true to the effect; an
  uncertain outcome stays marked as uncertain; no effect before its policy
  decision is on record.
* Control plane: no governed write without a claimed approval by an entitled
  reviewer; a review is final; a task is undone at most once.
* Recovery: no old interrupted row survives the start of a process; recovery
  never causes a second effect.
* Policy: two independently written rule sets agree on writes; a review needs
  the scope, and for a high-risk tool the MFA claim, that the tool's risk calls for;
  failure of the policy engine refuses.
* Audit log: every tenant's chain verifies in every state, grows only at its end and
  holds every event that was acknowledged; an append ends.
* Task intake: a request that is posted again, at once or later, to this process or another,
  runs once, and every answer under its key is about its own task.
* Database: no statement sees rows of another request's tenant, whoever used the
  connection before; and no statement waits for a connection for ever.
* Event bus: a stream never skips an event and goes on.
* Retrieval: an answer is at most a cache's lifetime and one search behind the documents, and holds
  only the tenant's own trusted ones.
* Price tool: a change that nothing came into is undone exactly.
* Seeding: processes that race to seed one database all come up, and leave no table empty.

The list of hazards, at their source lines and with the properties that
watch them, is in `PROJECT.json`.

## 2. The modules

```
Policy ──────────┬── PolicyReview                      (run policy_review)
                 └── Execution ──┬── MCExecution       (runs execution_*)
ToolLedger ◄─refines─┘           ├── ExecutionProofs ── LedgerProofs            (TLAPS)
GovernedAction ◄─refines─ ControlPlane ── MCControlPlane (all other runs)
                           (extends Execution)
                           ControlProofs ── GovernedProofs                      (TLAPS)
                           (extends ControlPlane and LedgerProofs)
AuditChain ◄─refines─ AuditLog ── AuditProofs           (run audit_log; TLAPS)

TaskIntake ── IntakeProofs (TLAPS) ─┐
TenantPool ─────────────────────────┤
EventBus ───────────────────────────┼── MCServices      (run services)
Retrieval ──────────────────────────┤
PriceTool ──────────────────────────┤
Seed ───────────────────────────────┘

PolicyReview, PriceTool, EventBus, Retrieval, TenantPool ── ServiceProofs       (TLAPS)
MCServices, ServiceProofs, IntakeProofs ── MCServicesProofs                     (TLAPS)
```

* **`Policy`** – pure operators: the tool registry, the two rule sets, `Evaluate`
  with its fail-closed branch, `ApprovalAuthorized`. `Answers(tool)` is the set of
  decisions the engine may meet, the policy being free to change between two
  evaluations: a side effect may be refused or asked for at either approval
  tier, a read refused or permitted. `PolicyReview` checks (`AnswersCover`) that
  this set leaves out no decision either rule set gives.
* **`PolicyReview`** – one request and its review, over all callers, tools, input
  risks and policy engines. A caller is what `auth.py:_principal` (26-30) accepts: role,
  scopes and MFA are independent claims, for which an identity provider may issue any
  combination. Only the demo tokens (`create_demo_token`, `DemoPrincipal` here) tie the scopes to the role. The
  engine used, and the risk found in the request's text, may differ between request and review.
* **`Execution`** – `execute_approved` and `rollback`. `pc[h]` names the next
  statement of handler `h`, `ctx[h]` its locals. One action is one database
  statement or one tool call.
* **`ToolLedger`** – the abstract promise of the engine: claim, effect, verdict
  per key. `Execution` implements it with `verdict <- exec`, `times <- effect`.
* **`ControlPlane`** – extends `Execution` by the HTTP handlers (`req[h]`), the
  approvals and the processes (`scan[w]`) that crash, restart and scan.
* **`GovernedAction`** – the abstract promise of the control plane about one
  governed write: asked, granted or denied, done once, undone once.
* **`MCExecution`, `MCControlPlane`** – the instances for TLC.
* **`AuditLog`** – concurrent calls of `append_audit`, and `verify_chain`. The backend
  is chosen at the start: PostgreSQL (connection, transaction, advisory lock, SELECT,
  INSERT, COMMIT) or SQLite (asyncio lock, SELECT, INSERT that commits). A row is
  in `rows` once it is committed, and until then it is its writer's `append[w]`.
* **`AuditChain`** – the abstract promise: a sequence per tenant that grows at its end.
  `AuditLog` implements it with `log[t] <- HeadHash(Of(t))`.
* **`TaskIntake`** – a post of `create_task`: the `INSERT … ON CONFLICT`, the lookup of
  the row that was there, the workflow, the answer; it may stop at any
  statement. Reviews of the task and the recovery scan change its row meanwhile.
* **`TenantPool`** – a request's statements: wait for a connection, `BEGIN` and
  `set_config`, execute under row-level security, `COMMIT`, `DISCARD ALL`. `session[c]` is
  what a connection carries, `context[r]` the context variable of a request.
* **`EventBus`** – the queues of one process. `publish` has no `await` and is one
  step; a stream runs only while the server pulls its next chunk.
* **`Retrieval`** – `ingest` with the guard, and `search` with Redis and the local
  cache, over ages and remaining times instead of a clock.
* **`PriceTool`** – the SELECT and UPDATE of `change_product_price`, and the same two
  as its reversal, between those of other changes.
* **`Seed`** – `seed()` table by table in processes that start together, lose a race
  to a UNIQUE constraint, crash and are restarted.
* **`MCServices`** – the six services on small instances. They share no state in
  these models, so a behaviour chooses the service it is about at its start and the others rest;
  their interleaving would show nothing that one of them alone does not.
* **`ExecutionProofs`, `LedgerProofs`** – the theorems of the engine, **`ControlProofs`, `GovernedProofs`** those of the
  control plane, **`AuditProofs`, `IntakeProofs`** those of the components they are named for,
  **`ServiceProofs`** those of the policy, the price tool, the event bus, retrieval and the tenant pool, and
  **`MCServicesProofs`** those of the seeding and of all the services together.

### How the model reads the code

* *One action per statement.* Statements that touch nothing another handler
  reads between them are one action with their neighbour: a checkpoint and the
  audit record after it, a read of a task's request and the policy evaluation.
  Statements that others can interleave with are never merged: the execution's lookup and
  claim, the tool call and its receipt, the lookup and the insert of a
  compensation, the approval row and the task's status, every SELECT and UPDATE
  of the recovery scan.
* *Execution keys.* `_execution_key` hashes tenant, task, phase and tool.
  A task has one tool, so a key is `<<task, 0>>` for the primary phase and
  `<<task, c>>` for the reversal with compensation `c`.
* *Status of a task.* `created` stands for `status='running',
  workflow_state='CREATED'`; of the other workflow states only the status
  matters to the code that is modelled.
* *Tools.* A tool returns the expected object, "not found" where it looks a
  row up, or a malformed one where it lives in another process, or raises.
  When it raises (or the client stops waiting) its effect may already be
  there, come later (`LateEffect`), or never. A compensation whose
  tool is not registered (`void_refund`, `enable_user_account`) is only
  recorded (agent.py:237-238); the model counts that record as the reversal's effect, so that `SideEffectOnce`
  also says that it is recorded once.
* *Failing statements.* `DbError` lets any statement raise. A statement that was
  applied and whose answer was lost is the same as one that was applied, followed
  by a raise at the next position, and so is not an action of its own; where the next
  position is inside another `try` (`ReceiptRaises`, the answer to a lost
  claim) it is modelled explicitly. One case differs: a lost answer to `UPDATE compensations … 'used'`
  (agent.py:240) is caught by the rollback's own `except` (242-246), whose guarded `UPDATE`s then change nothing, and the task
  ends as `recovery_required`; in the model the exception leaves the handler and the task keeps its status. No property speaks of that status.
* *A dying process* loses its handlers' positions and locals (`Vanish` in
  `Execution`, `Crash` in `ControlPlane`); the tables stay, and a call that was given up may still take effect.
  A crash during a tool call is a call that raised followed by the crash.
* *Time.* `aged` holds the rows that are older than `recovery_stale_seconds`.
  A row ages only when no request works on its task, except that an *available* compensation
  ages while it waits to be used, as its `created_at` does. Nothing ages while a process scans: a scan
  compares with one cutoff, taken at its start, and takes seconds where ageing takes minutes.
  The first of these is an assumption on the configuration: the code sets no deadline for a request, only timeouts for its
  statements and calls, whose sum stays below the default of 300 s in ordinary operation.
* *Tenants.* Every statement names the tenant; the models are of one tenant.
* *Audit.* In `Execution` and `ControlPlane`, `audit` keeps the events that a property
  speaks about, and an append is one statement; what happens inside it is `AuditLog`.
* *Hashes.* `SignedHash(event, prev)` is an injective term that never equals `GENESIS`,
  which is what SHA-256 is relied on for; it is the sequence of all the events it
  commits to. Signatures are left out.
* *The pool.* A context variable is per asyncio task, so `SetContext` changes its own request's only,
  and only between statements, as `execute` reads it inside the transaction. A transaction that fails
  or is cancelled is rolled back, which takes a local setting back; a connection that breaks is
  replaced by a fresh one, also when `DISCARD ALL` is what failed.
* *The local cache* is a list in the order the entries were last used: a hit moves its entry to the end, a write evicts
  from the front (`rag.py`'s `OrderedDict`).
* *Cached answers.* `search` begins with one of the two cache reads and ends with one of the two writes;
  Redis may take an answer and raise all the same. What ranks and cuts the list of usable documents can only leave
  some out, so `found` is the set the answer was chosen from.
* *Workflow of a post.* `FinishTask` stands for the whole of `engine.run`; what happens inside it is
  `ControlPlane`, which has the creation without a key.
* *Failing appends.* `Fail` covers a statement that raises, a request that is
  cancelled, and a writer whose process dies: PostgreSQL
  rolls back and releases the advisory lock, an asyncio lock is released by its `async with`
  or ends with its process. A COMMIT whose answer is lost may have been done. Ids come from a sequence, which no
  rollback takes back. That a cancelled SQLite writer leaves its statement
  running in a thread is not modelled, nor are two processes on one SQLite file.

## 3. Bounds

| Bound | Where | Why it is enough |
|---|---|---|
| `Tasks` (1 or 2) | all runs | tasks share no row; two are used where tools of different kinds must be served at once |
| `Handlers` (1 to 3) | | two race for every claim; three allow a requester, two reviewers, or a reviewer and two rollbacks |
| `TokenScopes` (the two approval scopes) | `PolicyReview` | no decision looks at `read` or `operate`; the proofs take any set of scopes |
| `Callers` | | holders of demo tokens, by role; the executive with MFA passes every check, so it leaves most behaviour; admin and operator are added where entitlement is the question |
| `MaxToolRetries` (0 or 1) | | a retry exists or not; the proofs take any number |
| `MaxComp` (1 or 2) | | compensation rows per task; `OneReversal` shows that a second row never appears, so 2 leaves room for the violation |
| `MaxFaults` (0, 1 or 2) | `ControlPlane` | failing statements plus crashes; two let a recovery itself be interrupted. `Execution` alone has no such bound |
| `Writers` (3), `PoolSize` (2) | `AuditLog` | one writer holds the chain, one waits for it with the last connection, one waits for the pool |
| `Tenants` (2), `Events` (2) | `AuditLog` | four appends: two in one chain, interleaved with another tenant's; a failed append is not repeated |
| `Posts` (3) | `TaskIntake` | one actor posts twice under one key, another under the same key or none; posts of the same actor without a key are independent |
| `Requests` (3), `Connections` (2), `PoolTenants` (2) | `TenantPool` | a connection is used by one tenant after another while a third request waits; statements are not bounded |
| `Streams` (2), `QueueSize` (2), `MaxEvents` (4) | `EventBus` | a stream of either tenant, and enough events to fill a queue, drop it, and go on after it was drained |
| `Searches` (2), `Queries` (2), `Contents` (1) | `Retrieval` | two searches of one process at a time, asking for different tenants or for the same; the document is found by one tenant and must not be by the other |
| `TTL` (2), `SearchTime` (1), `LocalEntries` (1) | `Retrieval` | an answer is used while fresh, used in its last tick, and expired; a search lasts no time or one tick, so a result is cached late; the second query evicts the first |
| `Changes` (3), `Prices` (2) | `PriceTool` | two changes interleave while a third comes before, between or after; two prices tell a wrong reversal from a right one |
| `Starters` (2), `SeedDocuments` (2), `MaxCrashes` (2) | `Seed` | two race for every table; a crash may leave half a corpus; both may crash, or one twice |

`Execution` on its own is more liberal than `ControlPlane`: any caller may call
with any tier at any time, recovery may interrupt any row at any moment and
nothing limits failures. What holds there holds under every control plane.

## 4. The runs

| Run | Question | Properties |
|---|---|---|
| `policy_review` | do the two rule sets and the review give writes the same protection? | `RuleSetsAgree`, `AuthorizedByScope`, `AnswersCover` |
| `execution_price` | two handlers execute and roll back one price change with every failure | `TypeOK`, `ReceiptTruthful`, `EvidenceFirst`, `VerdictsStand`, `LedgerSpec` |
| `execution_mixed` | a refund (with an unregistered reversal) and a retried read, callers of two roles | `FailedMeansNoEffect`, `EffectAuthorized` |
| `control_plane` | one process, three requests at a time, two faults, recovery | `CTypeOK`, `OneReversal`, `CompletedIsBacked`, `ApprovedIsOnRecord`, `ReviewFinal`, `ScanComplete`, `GovernedSpec` |
| `two_processes` | a process restarts and scans while another executes; reviewers of three roles | `EffectUnderApproval`, `SideEffectOnce`, `CompensationBacked`, `OldRowsSettled` |
| `audit_log` | three writers, two tenants, both backends, failures anywhere | `TypeOK`, `ChainValid`, `NothingLost`, `SomeoneProceeds`, `LogSpec`, `AppendsEnd` |
| `services` | intake, pool, bus, retrieval, price tool and seeding, one at a time, with concurrent users, lost answers, cancelled statements, failing caches and crashes | `ServicesTypeOK`, `RunOnce`, `OwnAnswer`, `GapFree`, `FreshEnough`, `OwnTrusted`, `TenantIsolation`, `ServesSeeded`, `ReversalRestores`, `StatementsEnd`, `SeedProcessesUp` |
| `liveness` | does every request end and every claimed approval settle? | `RequestsEnd`, `ClaimsSettle` |

`RequestsEnd`, `ClaimsSettle`, `AppendsEnd`, `StatementsEnd` and `SeedProcessesUp` are liveness properties; all others
are safety properties and need no fairness. Symmetry is used only for
interchangeable handlers, and only in runs without liveness.

What the services' properties say, beyond their names:

* `RunOnce`, `OwnAnswer` – whatever order posts, replays, reviews, losses and the scan come in. That a
  replay may be out of date (a denial stores no result, so that a replay says `pending_approval`) is how the code is.
* `GapFree` – what a stream delivered and still holds are its tenant's events, without a gap, from its
  subscription on. A stream whose queue was full gets no further event, and never one after a gap.
* `FreshEnough` – nothing invalidates a cache, and a slow search caches an old result: a
  document is sure to be considered only `TTL` plus the longest search after it was ingested. The bound is tight: with one
  tick less TLC finds it violated.
* `ReversalRestores` – two concurrent changes can read the same old price, so that a reversal brings back a
  price the other had replaced; the property names exactly when a reversal is right.
* `StatementsEnd` – with requests that never stop sending statements.
* `ServesSeeded`, `SeedProcessesUp` – `Seeded` asks for a row in every table and exactly one batch where a constraint
  forbids two; documents and incidents may be seeded twice, and a crash may leave a corpus incomplete.

Two properties of the other runs need a word, too:

* `OldRowsSettled` – what `ScanComplete` says of a process that is alone holds among several for all tables but the
  compensations. What was old and interrupted when the process began to scan is settled when it serves, whoever settled it;
  that rows do not age during a scan is the code's cutoff, taken once at its start (`main.py:57`).
* `SomeoneProceeds` – a writer waits for a connection first and for the chain's lock on that connection. Whatever
  fails or dies, one of the writers under way does not wait: the safety half of `AppendsEnd`, which needs no fairness.

Deadlock is checked in every run but `audit_log` and `services`. A system without requests can
always be asked for a rollback, or is restarting; the audit log is idle for good once each
of its bounded events was appended, and writers that were stuck before would violate `AppendsEnd`.
Of the services, those with bounded posts, changes or starts come to their end in the same way, and a stuck pool
or start would violate `StatementsEnd` or `SeedProcessesUp`.

**Fairness** (`FairCSpec`, runs `liveness` and `interrupted_claim`). Weak fairness
of every handler's step: the event loop runs every ready coroutine, and every await
ends, because database statements, policy calls and tool calls have a timeout
(`database.py:45-63`, `policy.py:71-92`, `tools.py:59-76`). Weak fairness of
a process's start and scan: the container is restarted by its supervisor. Weak fairness of
ageing: time passes. No fairness is assumed of arrivals, faults, or late effects.
`FairSpec` of `AuditLog` says that a writer whose step stays enabled takes it. A waiter for
the lock or the pool can be overtaken, but only by the remaining
events, of which there are finitely many, so that nothing is said about queueing.
`FairPoolSpec` has weak fairness of a statement's steps (`command_timeout=10`, `database.py:54`) and strong
fairness of a waiter's turn: asyncpg keeps its idle connections in a queue that wakes its waiters in the order they came, and only a
newcomer that takes the connection between the waking and the waiter's resumption is served before it; that
this happens to one waiter for ever is what strong fairness excludes. `FairSeedSpec` says that the
supervisor restarts a process that died and that its statements end; crashes are bounded by `MaxCrashes`, restarts
after a lost race are not.

### Where the code and its documents disagree

Four runs end in a counterexample on purpose.

* `decided_is_not_pending` – `agent.py:113` commits the approval before
  `agent.py:115` moves the task to `pending_approval`. A reviewer who acts in
  between is overwritten: the approval is approved (and executed) or denied, the
  task shows `pending_approval` for ever. `docs/ARCHITECTURE.md:48` has
  the review after `WAIT_APPROVAL`.
* `interrupted_claim` – the scan runs only when a process starts and takes only
  rows older than `recovery_stale_seconds`. A process restarted sooner finds
  nothing old, and nothing scans later; `SIX_REVIEW_REMEDIATION_MATRIX.md:12`
  says interrupted executions become `recovery_required`.
* `failed_safely` – `approve` answers "approved action failed safely"
  (`main.py:207`) for every exception of the engine, also when the side effect took
  place. The shortest traces are of two kinds and have the same length: the call takes effect, its receipt is completed, and a
  later statement fails (a checkpoint, the compensation, the task, the audit event); or the receipt statement
  (`agent.py:175`), or a call that takes effect late, raises, and the statement that would record the unknown outcome
  (`agent.py:183`) fails, so that the receipt stays `executing`.
* `live_rollback` – the scan selects executing compensations by `created_at`,
  the time of the forward action (`main.py:71`): a rollback of an old action is stale
  the moment it starts, and another process that starts flags it under
  the live handler. The handler notices (`used != 1`) and ends in
  `recovery_required`, so the harm is a completed reversal shown as unknown, not a second effect.

Two further observations come from reading and are not stated as runs: a
failure between the receipt `execution_unknown` and the task's update
(`agent.py:181-185`) leaves a task that does not show that recovery is required,
until a restart finds its approval; and a rollback that starts before the forward
handler has finished (`agent.py:199-206`) has its `rolled_back` overwritten by
`completed`. Ledger and audit log tell the truth in both cases.

## 5. What is proved

Every theorem is about the specification that TLC checks, for every value of its constants that the named
assumptions of its module admit. The assumptions say only of what kind the constants are: there is
a task and a caller, limits are naturals, "no task" is no task, a stream has a tenant. `MaxFaults`,
`MaxComp` and the other bounds are constants like any other, so that no proof depends on how small they are.

| Theorem | States | Assumes |
|---|---|---|
| *Engine* (`Execution!Spec`) | | `TasksAssumption`, `BoundsAssumption`, `CallersAssumption` |
| `TypeCorrect` | `[]TypeOK` | |
| `AtMostOnce` | `[]SideEffectOnce` | |
| `LedgerImplemented` | `LedgerSpec`: the engine refines `ToolLedger` | |
| `FailureIsClean` | `[]FailedMeansNoEffect` | |
| `VerdictsAreFinal` | `VerdictsStand` (action property): `ReceiptStable` and `UnknownStays` | |
| `WritesAreAuthorized` | `[]EffectAuthorized` | |
| `EvidenceComesFirst` | `[]EvidenceFirst` | |
| `ReceiptsTellTheTruth` | `[]ReceiptTruthful` | |
| `ReversalsAreFresh` | `[]FreshReversal`, which is only proved, not checked by a run | |
| `CompensationsAreBacked` | `[]CompensationBacked` | |
| *Control plane* (`ControlPlane!CSpec`) | | those of the engine, `WorkersAssumption`, `NoTaskAssumption` |
| `ControlTypeCorrect` | `[]CTypeOK` | |
| `ControlAtMostOnce`, `ControlCompensationsAreBacked` | `[]SideEffectOnce`, `[]CompensationBacked` | |
| `ControlKeepsTheEngine` | the engine's other invariants, of `CSpec` | |
| `ControlKeepsReceipts`, `ControlImplementsLedger` | `VerdictsStand`, `LedgerSpec`, of `CSpec` | |
| `EffectsAreReviewed` | `[]EffectUnderApproval` | |
| `ReviewsAreFinal` | `ReviewFinal` (action property) | |
| `ReversedOnce` | `[]OneReversal` | |
| `CompletionsAreBacked` | `[]CompletedIsBacked` | |
| `ApprovalsAreOnRecord` | `[]ApprovedIsOnRecord` | |
| `ScansAreComplete` | `ScanComplete` | and that there is one process |
| `ScansSettleOldRows` | `OldRowsSettled` (action property), for any number of processes | |
| `GovernedImplemented` | `GovernedSpec`: the control plane refines `GovernedAction` | |
| *Audit log* (`AuditLog!Spec`) | | `AuditAssumption` |
| `ChainStaysValid`, `NothingIsLost` | `[]ChainValid`, `[]NothingLost` | |
| `LogImplemented` | `LogSpec`: the log refines `AuditChain` | |
| `LogTypeCorrect` | `[]TypeOK`, which bounds the writer's pool | |
| `WritersNeverAllWait` | `[]SomeoneProceeds` | |
| *Tenant pool* (`PoolSpec`) | | `PoolAssumption` |
| `TenantsStayApart` | `[]TenantIsolation` | |
| *Task intake* (`IntakeSpec`) | | `IntakeAssumption` |
| `RunsOnce`, `AnswersAreOwn` | `[]RunOnce`, `[]OwnAnswer` | |
| *Policy* (`PolicyReview!Spec`) | | none |
| `RuleSetsMatch` | `[]RuleSetsAgree`: `EnginesAgreeOnWrites` and `LocalWithinOpa` | |
| `ReviewersHaveTheScope`, `AnswersSuffice` | `[]AuthorizedByScope`, `[]AnswersCover`, for any scopes a token may hold | |
| *Price tool* (`PriceSpec`) | | `PriceAssumption` |
| `ReversalsRestore` | `ReversalRestores` (action property) | |
| *Event bus* (`BusSpec`) | | `BusAssumption` |
| `StreamsAreGapFree` | `[]GapFree` | |
| *Retrieval* (`RagSpec`) | | `RetrievalAssumption` |
| `AnswersAreTrusted`, `AnswersAreFresh` | `[]OwnTrusted`, `[]FreshEnough` | |
| `CachesAreBounded` | `[]RagTypeOK`: also the bound of the local cache, and one entry per query | |
| *Seeding* (`SeedSpec`) | | `SeedAssumption` |
| `ServesOnlySeeded` | `[]ServesSeeded` | |
| *All services* (`ServicesSpec`) | | those of the services |
| `ServicesTyped` | `[]ServicesTypeOK` | |
| `ServicesKeepTheirPromises` | the services' invariants and `ReversalRestores`, of the composition that TLC checks | |

### The argument: the engine

That `effect[k] <= 1` is not inductive: nothing in it prevents a
handler that stands before the tool call while the call was already made. The
invariant that is (`OnceInv`) says that a
handler about to make the call of key `k` is *alone*, that the row of `k` exists,
and that the call has neither been made nor is under way; and that a key without
a row is untouched. Only two statements bring a handler to that point, the
`INSERT`s that found no row; a row is never deleted; and a handler leaves that
point with the call, since a side effect has one attempt.

The engine has some thirty actions, but to the ledger they are of six kinds. `LedgerShape` proves that
each step leaves the ledger and the effects alone, inserts a new row
(`Claims`), makes the call (`Invokes`), settles an executing row
(`Settles`), records a failed read (`Fails`), or writes the
receipt of a reversal (`RbReceipt`). The later proofs split on these six and
not on the actions; `Moves` and `Frame` do the same for the handlers' positions.

`EngineInv` is the whole invariant, and each property is one of its parts or follows from a few of them:

| Part | Says | Why it is needed |
|---|---|---|
| `OnceInv` | above | `SideEffectOnce` |
| `LedgerInv` | only reads fail, reads have no effect, a handler at the receipt of a reversal has made it | `FailedMeansNoEffect`, the refinement |
| `EffectAuthorized` | the property | it is inductive: the position, the caller and the tier change together |
| `RecordInv` | a handler about to claim a call, and every claimed call, has the record of its decision | `EvidenceFirst` speaks of effects, which come two statements later, of another handler perhaps |
| `ReceiptInv` | from the tool's answer to the compensation, a handler with the expected output of a write stands for an effect | `ReceiptTruthful` and `CompensationBacked` are established by statements after the call |
| `ReversalInv` | an unclaimed compensation has no reversal in the ledger, its claim has one holder, a handler about to mark it used has carried it out | `FreshReversal`, `CompensationBacked` |

`ReversalInv` contains what `FreshReversal` is about: not the ledger, which would let a second rollback read a
receipt, but `UPDATE compensations … WHERE status='available'` decides between concurrent rollbacks, and no
statement makes a claimed compensation available again.

### The argument: the control plane

`ControlPlane` takes the engine's steps as they are and adds its own. `EngineMoves` names everything that can
happen to the engine's tables and handlers in *any* system around it: an engine step, a late effect, a
recovery statement, or a step `Apart` from the tables, which only places a handler at the beginning or the end of a call.
The engine's lemmas assume `EngineMoves`, not `Execution!Next`; `ControlMoves`
proves that each step of the control plane is such a move, so that `EngineInv` holds of `CSpec` too
(`ControlEngine`) without a second proof. `ControlInv` adds, each part kept with the help of those before it:

| Part | Says | Gives |
|---|---|---|
| `CTypeOK` | types; what a scan has left to do are rows of its table | |
| `LinkInv` | outside the engine a handler is idle in it; inside it has the task, tier and caller of its request | connects a request to its call |
| `CreateInv` | one request creates a task and no approval exists before it asks for one; a write is not run without a review | one executor of a read |
| `ReviewInv` | whoever stands before the claim is entitled to the tier; from the claim to the engine's answer one request holds the approval; the execution of a write has a reviewed approval | `EffectUnderApproval`, `ReviewFinal`, one executor of a write |
| `SingleInv` | a task has at most one compensation, and none when the handler at the INSERT has found none | `OneReversal` |
| `ReceiptsInv` | the row that a handler is executing is not aged, so no scan settles it; past the receipt it is completed | `CompletedIsBacked` |
| `OnRecordInv` | the claim is on record before the engine is called, receipt and audit event before its answer | `ApprovedIsOnRecord` |

`OneReversal` needs the control plane: in `Execution` alone, with recovery free to interrupt and any caller
allowed, two handlers can replay a key and both reach the INSERT of the compensation, which no constraint guards.
What excludes it is that a task has one executor (`OneExecutor`), from `CreateInv` and `ReviewInv`.

`ReceiptsInv` rests on the modelling of time: a row ages only while no request works on its task. It makes explicit
where `recovery_stale_seconds` has to exceed the longest request, which nothing in the code enforces.

The refinement of `GovernedAction` (`GovernedSimulated`) maps an approval to its review, and the effects of the primary and of
the compensating keys to `done` and `undone`. A step has one effect at most (`EffectMoves`) and changes one
approval at most (`OneReview`), and no step does both (`EffectOrReview`); an effect of the primary key comes
under a claimed approval, the first effect of a compensating key is the only one of its task and comes after the change it
undoes (`FirstReversal`).

`ScanComplete` holds of a process that is alone, as in the run that checks it: while it scans it serves nobody, so that nothing is claimed
behind the scan (`NobodyServed`). `ScanInv` says what each place of the scan has settled, and that what is stale in the current
table is still in the list of rows to do. Beside a second process it does not hold (TLC finds it violated), for the reason of `live_rollback`
(section 4).

`OldRowsSettled` is what does hold then, and needs another argument: a row that is settled behind the scan must not become
stale again. `AgedInv` says of every old row that it has been where a scan looks for it: an old approval has been reviewed,
the task of an old orphan created; of the ledger's rows `ReceiptsInv` says as much. `ExecutingIsNew` and `CreatedIsNew` say that only a new
row begins to execute and only a new task is created, and an approval is claimed once, so that no step makes such a row stale again
(`LastingShrink`): the sets of stale rows only shrink while nothing ages, and nothing ages during a scan. For a compensation this fails, as it ages
while it waits and is claimed afterwards, which is why the property excepts it. `SeenInv` then says of every scan that the tables
behind it have no stale row, and that those of its own table are still in its list.

### The argument: the audit log, the pool and the intake

For the audit log, `ChainValid` says nothing of the writers under way. `ChainInv` adds that a
writer past the lock holds it (so that it is alone with its chain), that the head it
has read still is the head, and that the id it was given exceeds all those of its
chain, the latter because an id is drawn only under the lock. `RowsShape` reduces the
eight steps to two kinds, a step that leaves the rows alone and one that adds its writer's row;
`AddRow` shows what adding a row that follows the head does to all the chains. The refinement also needs that
the head's hash contains the events of all the tenant's rows (`HeldInv`), and that a writer
that reports an event has put it into a row (`LoggedInv`). The bound of the writer's pool needs that the connected
writers are finitely many (`PoolKept`), because the set of writers need not be finite.
`SomeoneProceeds` rests on `LockInv`: who holds the lock of a chain is under way and past the statement that takes it. A
full pool has a writer on a connection; if that one waits, it is for the lock of a writer that does not (`NoWaitingCircle`).

For the pool, `PoolInv` adds to the property that a request has a connection exactly while it is past
`Acquire` and before `Release`, alone (part of `PoolTypeOK`), and that what is set on any connection is local to its
transaction. A tenant that a connection carries was then set by the one request that holds
it (`Carrier`), and both ends of a transaction take it back (`EndsTransaction`), so that
the proof does not need `DISCARD ALL`: it is a second line of defence.

For the intake, `IntakeInv` says that every row is the work of one post, which has its actor and key (`Own`), and
that the index holds (`Indexed`). Of two posts of one request only one can own a row
with that key, and only an owner gets to `engine.run`. Most steps leave actors and keys alone (`RowsKept`,
`PostMoves`, `RowsMove`); the only one that adds a row finds no conflicting one (`TaskAdded`).

### The argument: the services

* *Policy.* `PolicyInv` says that the decision on record was taken by an engine on the request, and an authorized
  review on the decision its reviewer was given. The rest are lemmas about the two rule sets: they agree on writes
  (`WritesAlike`), the local one stays within the other on reads (`ReadsWithin`), a decision that asks for a review is about a write
  (`ReviewedIsWrite`), for an operator at least and at the tier of its risk (`WriteDecision`), and who is authorized has the scope and MFA
  of that tier (`AuthorizedScope`). More than operator rank does not follow: `approval_authorized` goes by the scopes, so
  that an operator whose token carries `approve:executive` and MFA may review a high-risk write. The sets are finite, so TLC's check is exhaustive; the proofs say which rules
  make it so.
* *Price tool.* `PriceInv` says what a change that is `alone` knows: before its UPDATE the current price, after it the one it has
  replaced.
* *Event bus.* `GapFree` is inductive once a stream is subscribed for its own tenant only and one that has not begun has seen
  nothing (`BusInv`). A stream is left alone (`StreamKept`) or gets the next event (`StreamExtended`), and moving an event
  from the queue to what is delivered leaves their concatenation as it was (`DeliveredNext`).
* *Retrieval.* `FreshEnough` relates the age of documents to what a cached answer has `left`. `RagInv` makes that relation exact: an
  entry with `left` ticks remaining has considered every document that is `TTL + SearchTime - left + 1` ticks
  old, a search that has `spent` some time every one that is older than that. A tick ages both sides alike (`EntryLater`,
  `TickStep`), a hit adds the time that the search lasts. The rest is about the list of the local cache: what taking
  out an entry (`RemovedShape`, `WithoutShape`), adding one and evicting from the front (`YoungestShape`) leave in it.
* *Seeding.* `SeedInv` says that a process has seen every table before its own filled, and that a table with a
  constraint has one batch at most. No step takes rows away, so that what a process found filled stays filled although
  it may have been another process that filled it (`ProcessMoves`).
* *All together.* A step of `ServicesNext` is to every service one of its own or none (`StepsApart`), so that a behaviour of the
  composition is one of each service (`ServicesApart`) and the theorems above carry over. `ServicesTypeOK` also names
  bounds that those do not: that posts are answered for tasks which exist (`AnswersBounded`), and the limit on events (`BusBounds`).

## 6. Only model-checked

* `RequestsEnd`, `ClaimsSettle`, `AppendsEnd`, `StatementsEnd`, `SeedProcessesUp`: liveness under fairness is out of the
  prover's reach. The safety parts of three are theorems: no writer is stuck (`SomeoneProceeds`), a connection is idle or held by one
  request (`PoolTypeOK`, in `ServicesTyped`), and who serves does so on a seeded database (`ServesSeeded`). Every other property of
  a passing run is a theorem.
* The four runs with a counterexample: nothing is proved of what does not hold.

## 7. Mutants

Every property of a passing run has a mutated definition of the code it speaks about
(defined before the original, marked "Mutant") under which the property
fails: an `INSERT` that overwrites the row it finds, a claim that ignores what its `UPDATE` returned, a side effect
retried like a read, an unconditional `UPDATE`, a shared chain lock, a scan that ends one
table early, a rego rule one rank off, a tenant setting that outlives its transaction, a cache hit that renews its entry,
a full queue that stays subscribed.

## 8. Not modelled, and why

* What the other tools return: only `change_product_price` writes a business table; the rest read, simulate a write
  or are an isolated call.
* The text side: regular expressions, planning, embeddings. The models draw the
  tool and the risk from small sets.
* Ranking: scores, the threshold and the limit of `search` are floating-point arithmetic, and Qdrant only moves
  scores. `FreshEnough` therefore speaks of the documents that were considered.
* The SQLite side of `database.py`: a connection per statement, one tenant's demo, nothing shared.
* `tool_runner/`: a stateless process; `Execution` has its answers, timeouts and late effects.
* The payload of events and their order between processes: they are telemetry (`events.py:10-12`).
* The step budget of `_run`: it is checked once, after one step.
* The second tenant of `seed`: it is seeded after the first, the same way.
* Read-only endpoints, tracing, secrets, configuration, front end, deployment: no protocol of their own.
* Cryptography: signatures, token validation and JWKS discovery are library code.

## 9. Plan

The components are modelled as far as sections 1 and 8 say, and every safety property that a passing run checks is proved. What could follow:

1. Liveness, once the prover supports fairness and `ENABLED`: `ClaimsSettle` first, whose argument is that a claimed approval has
   one handler, every position of which has a next statement.
2. The SQLite side of `database.py`, should several processes ever share such a file.
