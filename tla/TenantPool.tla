----------------------------- MODULE TenantPool -----------------------------
(***************************************************************************)
(* Database statements of app/database.py on PostgreSQL.  Every statement  *)
(* takes a connection of the pool, opens a transaction, sets app.tenant_id *)
(* from the request's context variable, runs under row-level security, and *)
(* hands the connection back through DISCARD ALL.                          *)
(*                                                                         *)
(*   context[r]   TENANT_CONTEXT in the asyncio task of request r          *)
(*   stmt[r]      position of the request's current statement, its         *)
(*                connection, and the tenants whose rows it touched        *)
(*   session[c]   app.tenant_id on connection c, and whether the end of    *)
(*                the transaction takes it back                            *)
(*   idle         the connections nobody has acquired                      *)
(***************************************************************************)
EXTENDS Naturals, FiniteSets

CONSTANTS Requests, PoolTenants, Connections,
          NoTenant,        \* not set: None in Python, the empty string in PostgreSQL
          NoConnection

ASSUME PoolAssumption ==
  NoTenant \notin PoolTenants /\ NoConnection \notin Connections

VARIABLES context, stmt, session, idle
poolVars == <<context, stmt, session, idle>>

Unset == [tenant |-> NoTenant, local |-> TRUE]

PoolInit ==
  /\ context = [r \in Requests |-> NoTenant] /\ idle = Connections
  /\ stmt = [r \in Requests |-> [at |-> "between", conn |-> NoConnection, touched |-> {}]]
  /\ session = [c \in Connections |-> Unset]

-----------------------------------------------------------------------------

StmtAt(r, l) == stmt[r].at = l
StmtGoto(r, l) == stmt' = [stmt EXCEPT ![r].at = l]
Conn(r) == stmt[r].conn
InTransaction(r) == stmt[r].at \in {"prepare", "execute", "commit"}

\* Mutant: the context is a global of the module.
SetContextGlobal(r, t) ==
  /\ StmtAt(r, "between") /\ context' = [q \in Requests |-> t]
  /\ UNCHANGED <<stmt, session, idle>>

\* set_tenant_context: by authentication, by the engine, and tenant after
\* tenant by the start of a process and by the self-checks.
SetContext(r, t) ==
  /\ StmtAt(r, "between") /\ context' = [context EXCEPT ![r] = t]
  /\ UNCHANGED <<stmt, session, idle>>

BeginStatement(r) ==
  /\ StmtAt(r, "between") /\ StmtGoto(r, "acquire")
  /\ UNCHANGED <<context, session, idle>>

\* Any of the waiters gets a free connection: a newcomer may be first.
Acquire(r, c) ==
  /\ StmtAt(r, "acquire") /\ c \in idle /\ idle' = idle \ {c}
  /\ stmt' = [stmt EXCEPT ![r] = [@ EXCEPT !.at = "prepare", !.conn = c]]
  /\ UNCHANGED <<context, session>>

\* Mutant: set_config(..., false), which outlives the transaction.
PrepareSession(r) ==
  /\ StmtAt(r, "prepare") /\ StmtGoto(r, "execute")
  /\ session' = IF context[r] = NoTenant THEN session
                ELSE [session EXCEPT ![Conn(r)] = [tenant |-> context[r], local |-> FALSE]]
  /\ UNCHANGED <<context, idle>>

\* BEGIN, and _pg_prepare; without a tenant nothing is set.
Prepare(r) ==
  /\ StmtAt(r, "prepare") /\ StmtGoto(r, "execute")
  /\ session' = IF context[r] = NoTenant THEN session
                ELSE [session EXCEPT ![Conn(r)] = [tenant |-> context[r], local |-> TRUE]]
  /\ UNCHANGED <<context, idle>>

\* The policies tenant_isolation: the rows whose tenant_id equals the setting.
\* (The list of tenants itself has no policy; only seed and the scan read it.)
Allowed(c) == {t \in PoolTenants : session[c].tenant = t}

Execute(r) ==
  /\ StmtAt(r, "execute")
  /\ stmt' = [stmt EXCEPT ![r] = [@ EXCEPT !.at = "commit", !.touched = Allowed(Conn(r))]]
  /\ UNCHANGED <<context, session, idle>>

EndTransaction(c) ==
  session' = IF session[c].local THEN [session EXCEPT ![c] = Unset] ELSE session

Commit(r) ==
  /\ StmtAt(r, "commit") /\ StmtGoto(r, "release")
  /\ EndTransaction(Conn(r)) /\ UNCHANGED <<context, idle>>

\* An exception, or a cancelled request, inside the transaction: ROLLBACK.
Rollback(r) ==
  /\ InTransaction(r) /\ StmtGoto(r, "release")
  /\ EndTransaction(Conn(r)) /\ UNCHANGED <<context, idle>>

\* _pg_reset, and the connection is back in the pool; or the connection broke,
\* in the transaction or under DISCARD ALL, and a fresh one takes its place.
Release(r) ==
  /\ InTransaction(r) \/ StmtAt(r, "release")
  /\ stmt' = [stmt EXCEPT ![r] = [at |-> "between", conn |-> NoConnection, touched |-> {}]]
  /\ session' = [session EXCEPT ![Conn(r)] = Unset]
  /\ idle' = idle \union {Conn(r)} /\ UNCHANGED context

\* Mutant: a connection whose reset is cancelled is not handed back.
GiveUpWaitingLeaks(r) ==
  /\ StmtAt(r, "acquire") \/ StmtAt(r, "release")
  /\ stmt' = [stmt EXCEPT ![r] = [at |-> "between", conn |-> NoConnection, touched |-> {}]]
  /\ UNCHANGED <<context, session, idle>>

\* A request that is cancelled while it waits for a connection.
GiveUpWaiting(r) ==
  /\ StmtAt(r, "acquire") /\ StmtGoto(r, "between")
  /\ UNCHANGED <<context, session, idle>>

Turn(r) == \E c \in Connections : Acquire(r, c)
StatementStep(r) == Prepare(r) \/ Execute(r) \/ Commit(r) \/ Release(r)

PoolNext == \E r \in Requests :
  \/ BeginStatement(r) \/ Turn(r) \/ StatementStep(r) \/ Rollback(r) \/ GiveUpWaiting(r)
  \/ \E t \in PoolTenants \union {NoTenant} : SetContext(r, t)

PoolSpec == PoolInit /\ [][PoolNext]_poolVars

\* Statements have a timeout (command_timeout), and nobody who waits is passed
\* over for ever: the pool wakes its waiters in the order they came, and only one
\* that comes between the waking and its effect can be served before.
FairPoolSpec ==
  PoolSpec /\ \A r \in Requests : SF_poolVars(Turn(r)) /\ WF_poolVars(StatementStep(r))

-----------------------------------------------------------------------------
(* Properties                                                              *)

\* The values are of their kinds, and a connection is idle or acquired by one
\* request.
PoolTypeOK ==
  /\ context \in [Requests -> PoolTenants \union {NoTenant}]
  /\ stmt \in [Requests -> [at: {"between", "acquire", "prepare", "execute", "commit", "release"},
                            conn: Connections \union {NoConnection},
                            touched: SUBSET PoolTenants]]
  /\ session \in [Connections -> [tenant: PoolTenants \union {NoTenant}, local: BOOLEAN]]
  /\ idle = {c \in Connections : ~ \E r \in Requests : Conn(r) = c}
  /\ \A r, q \in Requests : Conn(r) = Conn(q) /\ Conn(r) # NoConnection => r = q

\* A statement touches rows of no tenant but the one its own request has set,
\* whatever the requests that used the connection before or run beside it have
\* set; and outside a transaction a connection carries no tenant, so that this
\* would hold without DISCARD ALL, too.
TenantIsolation ==
  /\ \A r \in Requests : StmtAt(r, "commit") => stmt[r].touched \subseteq {context[r]}
  /\ \A c \in Connections : session[c].tenant # NoTenant =>
       \E r \in Requests : Conn(r) = c /\ InTransaction(r) /\ context[r] = session[c].tenant

\* Every statement ends, however many statements all the others send through the
\* same pool: nobody waits for a connection while holding one, and every one that
\* is acquired comes back.
StatementsEnd == \A r \in Requests : ~ StmtAt(r, "between") ~> StmtAt(r, "between")
=============================================================================
