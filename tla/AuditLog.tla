------------------------------ MODULE AuditLog ------------------------------
(***************************************************************************)
(* The audit log of app/audit.py: append_audit, called concurrently by     *)
(* writers that fail or die, and verify_chain.  A row commits to the one   *)
(* before it by its hash.                                                  *)
(*                                                                         *)
(*   backend      "postgres": an append is a transaction that takes an     *)
(*                advisory lock; "sqlite": an asyncio lock around two      *)
(*                statements, in the one process such a deployment has     *)
(*   rows         the committed rows of audit_events, of all tenants       *)
(*   nextId       the sequence behind their ids (no rollback undoes it)    *)
(*   lock[t]      who holds the lock of tenant t's chain                   *)
(*   pc, append   a writer's position, and the locals of append_audit      *)
(*   asked        the events handed to append_audit                        *)
(*   heard        those whose append returned, or that reached the SIEM    *)
(***************************************************************************)
EXTENDS Naturals, Sequences, FiniteSets

CONSTANTS Writers, Tenants,
          Events,     \* bound: a tenant logs each of them at most once
          PoolSize,   \* connections of the audit writer's pool
          Nobody

ASSUME AuditAssumption ==
  Tenants # {} /\ Events # {} /\ Nobody \notin Writers /\ PoolSize \in Nat \ {0}

VARIABLES backend, rows, nextId, lock, pc, append, asked, heard
auditVars == <<backend, rows, nextId, lock, pc, append, asked, heard>>

\* SHA-256 over the event and the previous hash: different pairs have
\* different hashes, and an event's hash is never GENESIS.
GENESIS == <<>>
SignedHash(event, prev) == Append(prev, event)

Of(t) == {r \in rows : r.tenant = t}
\* SELECT event_hash ... ORDER BY id DESC LIMIT 1, or GENESIS.
Youngest(S) == CHOOSE r \in S : \A q \in S : q.id <= r.id
HeadHash(S) == IF S = {} THEN GENESIS ELSE Youngest(S).event_hash

NoAppend == [tenant |-> CHOOSE t \in Tenants : TRUE, event |-> CHOOSE e \in Events : TRUE,
             prev_hash |-> GENESIS, id |-> 0]

Init ==
  /\ backend \in {"postgres", "sqlite"}
  /\ rows = {} /\ nextId = 1
  /\ lock = [t \in Tenants |-> Nobody]
  /\ pc = [w \in Writers |-> "idle"] /\ append = [w \in Writers |-> NoAppend]
  /\ asked = {} /\ heard = {}

-----------------------------------------------------------------------------

At(w, l) == pc[w] = l
Goto(w, l) == pc' = [pc EXCEPT ![w] = l]
Chain(w) == append[w].tenant
TheEvent(w) == <<append[w].tenant, append[w].event>>
Row(w, id) == [id |-> id, tenant |-> append[w].tenant, event |-> append[w].event,
               prev_hash |-> append[w].prev_hash,
               event_hash |-> SignedHash(append[w].event, append[w].prev_hash)]
Unlocked(w) == [t \in Tenants |-> IF lock[t] = w THEN Nobody ELSE lock[t]]
InTransaction == {"lock", "head", "insert", "commit"}
Connected == {w \in Writers : pc[w] \in InTransaction}

Call(w, t, e) ==
  /\ At(w, "idle") /\ <<t, e>> \notin asked
  /\ asked' = asked \union {<<t, e>>}
  /\ append' = [append EXCEPT ![w] = [NoAppend EXCEPT !.tenant = t, !.event = e]]
  /\ Goto(w, IF backend = "postgres" THEN "connect" ELSE "lock")
  /\ UNCHANGED <<backend, rows, nextId, lock, heard>>

\* Mutant: the pool has no limit.
ConnectAlways(w) ==
  /\ At(w, "connect") /\ Goto(w, "lock")
  /\ UNCHANGED <<backend, rows, nextId, lock, append, asked, heard>>

\* A connection of the pool, on which the transaction begins.
Connect(w) ==
  /\ At(w, "connect") /\ Cardinality(Connected) < PoolSize /\ Goto(w, "lock")
  /\ UNCHANGED <<backend, rows, nextId, lock, append, asked, heard>>

\* Mutant: the lock is shared.
LockShared(w) ==
  /\ At(w, "lock") /\ Goto(w, "head")
  /\ lock' = [lock EXCEPT ![Chain(w)] = w]
  /\ UNCHANGED <<backend, rows, nextId, append, asked, heard>>

\* pg_advisory_xact_lock, or the asyncio lock, of the tenant.
Lock(w) ==
  /\ At(w, "lock") /\ lock[Chain(w)] = Nobody /\ Goto(w, "head")
  /\ lock' = [lock EXCEPT ![Chain(w)] = w]
  /\ UNCHANGED <<backend, rows, nextId, append, asked, heard>>

\* Mutant: the statement does not name the tenant.
ReadHeadOfAll(w) ==
  /\ At(w, "head") /\ Goto(w, "insert")
  /\ append' = [append EXCEPT ![w].prev_hash = HeadHash(rows)]
  /\ UNCHANGED <<backend, rows, nextId, lock, asked, heard>>

\* The transaction is READ COMMITTED: the statement sees what was committed
\* before it, not before the transaction began.
ReadHead(w) ==
  /\ At(w, "head") /\ Goto(w, "insert")
  /\ append' = [append EXCEPT ![w].prev_hash = HeadHash(Of(Chain(w)))]
  /\ UNCHANGED <<backend, rows, nextId, lock, asked, heard>>

\* Mutant: the event is reported before it is committed.
InsertReports(w) ==
  /\ At(w, "insert") /\ nextId' = nextId + 1
  /\ append' = [append EXCEPT ![w].id = nextId]
  /\ heard' = heard \union {TheEvent(w)} /\ Goto(w, "commit")
  /\ UNCHANGED <<backend, rows, lock, asked>>

\* In SQLite the statement commits; the lock is still held then.
Insert(w) ==
  /\ At(w, "insert") /\ nextId' = nextId + 1
  /\ append' = [append EXCEPT ![w].id = nextId]
  /\ \/ backend = "postgres" /\ Goto(w, "commit") /\ UNCHANGED rows
     \/ backend = "sqlite" /\ Goto(w, "unlock") /\ rows' = rows \union {Row(w, nextId)}
  /\ UNCHANGED <<backend, lock, asked, heard>>

Commit(w) ==
  /\ At(w, "commit") /\ Goto(w, "deliver")
  /\ rows' = rows \union {Row(w, append[w].id)} /\ lock' = Unlocked(w)
  /\ UNCHANGED <<backend, nextId, append, asked, heard>>

Unlock(w) ==
  /\ At(w, "unlock") /\ Goto(w, "deliver") /\ lock' = Unlocked(w)
  /\ UNCHANGED <<backend, rows, nextId, append, asked, heard>>

\* The SIEM webhook, if there is one and whatever becomes of it; append_audit
\* returns.
Deliver(w) ==
  /\ At(w, "deliver") /\ Goto(w, "idle")
  /\ heard' = heard \union {TheEvent(w)}
  /\ append' = [append EXCEPT ![w] = NoAppend]
  /\ UNCHANGED <<backend, rows, nextId, lock, asked>>

\* Mutant: a lock of the session, which outlives the transaction.
FailHoldingLock(w) ==
  /\ ~ At(w, "idle") /\ Goto(w, "idle") /\ append' = [append EXCEPT ![w] = NoAppend]
  /\ rows' \in {rows} \union (IF At(w, "commit") THEN {rows \union {Row(w, append[w].id)}} ELSE {})
  /\ UNCHANGED <<backend, nextId, lock, asked, heard>>

\* The statement at hand raises, or the writer's process dies: the transaction
\* is rolled back (a COMMIT whose answer is lost may have been done) and the
\* lock released.
Fail(w) ==
  /\ ~ At(w, "idle") /\ Goto(w, "idle") /\ append' = [append EXCEPT ![w] = NoAppend]
  /\ rows' \in {rows} \union (IF At(w, "commit") THEN {rows \union {Row(w, append[w].id)}} ELSE {})
  /\ lock' = Unlocked(w)
  /\ UNCHANGED <<backend, nextId, asked, heard>>

AppendStep(w) ==
  \/ Connect(w) \/ Lock(w) \/ ReadHead(w) \/ Insert(w) \/ Commit(w) \/ Unlock(w)
  \/ Deliver(w)

Next == \E w \in Writers :
  AppendStep(w) \/ Fail(w) \/ \E t \in Tenants, e \in Events : Call(w, t, e)

Spec == Init /\ [][Next]_auditVars
\* A writer runs on.  That the pool and both kinds of lock serve their waiters
\* in turn need not be said as long as the number of events is bounded.
FairSpec == Spec /\ \A w \in Writers : WF_auditVars(AppendStep(w))

-----------------------------------------------------------------------------
(* Properties                                                              *)

Positions == InTransaction \union {"idle", "connect", "unlock", "deliver"}
AllEvents == Tenants \X Events

Rows == [id: Nat, tenant: Tenants, event: Events, prev_hash: Seq(Events), event_hash: Seq(Events)]
Appends == [tenant: Tenants, event: Events, prev_hash: Seq(Events), id: Nat]

Typed ==
  /\ backend \in {"postgres", "sqlite"} /\ nextId \in Nat
  /\ rows \subseteq Rows
  /\ lock \in [Tenants -> Writers \union {Nobody}]
  /\ pc \in [Writers -> Positions] /\ append \in [Writers -> Appends]
  /\ asked \subseteq AllEvents /\ heard \subseteq AllEvents

\* Every variable holds a value of its kind, and the pool is not exceeded.
TypeOK == Typed /\ (backend = "postgres" => Cardinality(Connected) <= PoolSize)

\* verify_chain, on the rows of the tenant in the order of their ids.
Verifies(t) ==
  \A r \in Of(t) :
    /\ r.prev_hash = HeadHash({q \in Of(t) : q.id < r.id})
    /\ r.event_hash = SignedHash(r.event, r.prev_hash)

\* Whenever verify_chain looks, and whoever is appending, failing or dying
\* then, it finds every tenant's chain valid.
ChainValid == \A t \in Tenants : Verifies(t)

\* An event that was acknowledged to its writer or reported to the SIEM is in
\* the log.
NothingLost == \A x \in heard : \E r \in rows : <<r.tenant, r.event>> = x

\* A writer waits for a connection, or for the lock of the chain.
Waiting(w) ==
  \/ At(w, "connect") /\ Cardinality(Connected) >= PoolSize
  \/ At(w, "lock") /\ lock[Chain(w)] # Nobody

\* The pool and the locks never wait for each other: a writer takes its
\* connection first and waits for the lock with it, and still, whatever failed
\* or died, one of the writers under way is not waiting.
SomeoneProceeds ==
  (\E w \in Writers : ~ At(w, "idle")) => \E w \in Writers : ~ At(w, "idle") /\ ~ Waiting(w)

\* An append ends, although writers of one tenant wait for each other and all
\* of them for the pool.
AppendsEnd == \A w \in Writers : ~ At(w, "idle") ~> At(w, "idle")

\* The log implements AuditChain: the hash of the youngest row stands for
\* the whole log of the tenant.
Log == INSTANCE AuditChain WITH Owners <- Tenants, Entries <- Events,
  log <- [t \in Tenants |-> HeadHash(Of(t))]
LogSpec == Log!Spec
=============================================================================
