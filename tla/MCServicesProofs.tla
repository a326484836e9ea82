-------------------------- MODULE MCServicesProofs ---------------------------
(***************************************************************************)
(* Proofs about the seeding, and about all the services together, as       *)
(* MCServices composes them: each keeps its invariant while it moves, and  *)
(* its variables while another one does.                                   *)
(***************************************************************************)
EXTENDS MCServices, ServiceProofs, IntakeProofs

-----------------------------------------------------------------------------
(* Seed.                                                                   *)

\* Why ServesSeeded holds: a process has seen every table before its own filled,
\* and an INSERT that a constraint lets through finds the table empty.
SeedInv ==
  /\ SeedTypeOK
  /\ \A T \in Unique : rows[T] <= 1
  /\ \A w \in Starters : \A i \in 1 .. Len(Tables) :
       start[w].at = "up" \/ i < start[w].table => rows[Tables[i]] > 0

Starts == [at: {"down", "check", "insert", "up"}, table: 1 .. Len(Tables), done: 0 .. SeedDocuments]

\* There are seven tables, those with a constraint among them.
LEMMA SevenTables ==
  /\ Len(Tables) = 7 /\ Unique \subseteq TableNames
  /\ \A i \in 1 .. Len(Tables) : Tables[i] \in TableNames
  /\ \A T \in TableNames : Batches(T) \in 1 .. SeedDocuments
<1>1. Len(Tables) = 7
  BY DEF Tables
<1>2. TableNames = {"tenants", "documents", "products", "customers", "orders", "incidents", "audit_events"}
  BY <1>1 DEF TableNames, Tables
<1>3. \A i \in 1 .. Len(Tables) : Tables[i] \in TableNames
  BY DEF TableNames
<1>. QED BY <1>1, <1>2, <1>3, SeedAssumption DEF Unique, Batches

\* No process has begun.
LEMMA SeedStarts == SeedInit => SeedInv
<1>. SUFFICES ASSUME SeedInit PROVE SeedInv
  OBVIOUS
<1>1. Down \in Starts
  BY SevenTables, SeedAssumption DEF Down, Starts
<1>2. SeedTypeOK
  BY <1>1, SeedAssumption DEF SeedInit, SeedTypeOK, Starts
<1>. QED BY <1>2, SevenTables DEF SeedInit, SeedInv, Down

\* A process that goes back to the start, or on to a position that its own
\* table's rows allow, keeps the invariant, if no table loses a row.
LEMMA ProcessMoves ==
  ASSUME SeedInv, NEW w \in Starters, NEW s \in Starts, start' = [start EXCEPT ![w] = s],
         rows' \in [TableNames -> Nat], \A T \in TableNames : rows'[T] >= rows[T],
         \A T \in Unique : rows'[T] <= 1, crashes' \in 0 .. MaxCrashes,
         \A i \in 1 .. Len(Tables) : s.at = "up" \/ i < s.table => rows'[Tables[i]] > 0
  PROVE  SeedInv'
<1>1. start' \in [Starters -> Starts] /\ start'[w] = s /\ \A v \in Starters \ {w} : start'[v] = start[v]
  BY DEF SeedInv, SeedTypeOK, Starts
<1>2. SeedTypeOK'
  BY <1>1 DEF SeedTypeOK, Starts
<1>3. ASSUME NEW v \in Starters, NEW i \in 1 .. Len(Tables), start'[v].at = "up" \/ i < start'[v].table
      PROVE  rows'[Tables[i]] > 0
  <2>1. CASE v = w
    BY <1>1, <1>3, <2>1
  <2>2. CASE v # w
    <3>1. rows[Tables[i]] > 0 /\ Tables[i] \in TableNames
      BY <1>1, <1>3, <2>2, SevenTables DEF SeedInv
    <3>. QED BY <3>1 DEF SeedInv, SeedTypeOK
  <2>. QED BY <2>1, <2>2
<1>. QED BY <1>2, <1>3 DEF SeedInv

\* Going on to the next table, when the own one is filled.
LEMMA TableDone ==
  ASSUME SeedInv, NEW w \in Starters, rows' \in [TableNames -> Nat],
         \A T \in TableNames : rows'[T] >= rows[T], rows'[Table(w)] > 0
  PROVE  /\ NextTable(w) \in Starts
         /\ \A i \in 1 .. Len(Tables) :
              NextTable(w).at = "up" \/ i < NextTable(w).table => rows'[Tables[i]] > 0
<1>1. start[w] \in Starts /\ start[w].table \in 1 .. 7
  BY SevenTables DEF SeedInv, SeedTypeOK, Starts
<1>2. NextTable(w) \in Starts
  BY <1>1, SevenTables, SeedAssumption DEF NextTable, Down, Starts
<1>3. ASSUME NEW i \in 1 .. Len(Tables), i <= start[w].table
      PROVE  rows'[Tables[i]] > 0
  <2>1. CASE i = start[w].table
    BY <2>1 DEF Table
  <2>2. CASE i < start[w].table
    <3>1. rows[Tables[i]] > 0 /\ Tables[i] \in TableNames
      BY <2>2, SevenTables DEF SeedInv
    <3>. QED BY <3>1 DEF SeedInv, SeedTypeOK
  <2>. QED BY <1>1, <1>3, <2>1, <2>2
<1>4. ASSUME NEW i \in 1 .. Len(Tables), NextTable(w).at = "up" \/ i < NextTable(w).table
      PROVE  i <= start[w].table
  BY <1>1, <1>4, SevenTables DEF NextTable, Down
<1>. QED BY <1>2, <1>3, <1>4

\* Every step of the seeding preserves the invariant.
LEMMA SeedSteps ==
  ASSUME SeedInv, [SeedNext]_seedVars
  PROVE  SeedInv'
<1>0. /\ rows \in [TableNames -> Nat] /\ crashes \in 0 .. MaxCrashes /\ start \in [Starters -> Starts]
      /\ \A w \in Starters : start[w] \in Starts /\ Table(w) \in TableNames
      /\ \A T \in TableNames : rows[T] \in Nat /\ rows[T] >= rows[T]
      /\ \A T \in Unique : rows[T] <= 1
  BY SevenTables DEF SeedInv, SeedTypeOK, Starts, Table
<1>1. ASSUME NEW w \in Starters, NEW l \in {"check", "insert"}, start[w].at \in {"down", "check"},
             start' = [start EXCEPT ![w].at = l], UNCHANGED <<rows, crashes>>
      PROVE  SeedInv'
  <2>1. PICK s \in Starts : s = [start[w] EXCEPT !.at = l]
    BY <1>0 DEF Starts
  <2>2. s.at = l /\ s.table = start[w].table /\ start' = [start EXCEPT ![w] = s]
    BY <1>0, <1>1, <2>1 DEF Starts
  <2>3. \A i \in 1 .. Len(Tables) : s.at = "up" \/ i < s.table => rows'[Tables[i]] > 0
    BY <1>1, <2>2 DEF SeedInv
  <2>. QED BY <1>0, <1>1, <2>2, <2>3, ProcessMoves
<1>2. ASSUME NEW w \in Starters, start' = [start EXCEPT ![w] = Down], UNCHANGED rows,
             crashes' \in 0 .. MaxCrashes
      PROVE  SeedInv'
  <2>1. Down \in Starts /\ Down.at = "down" /\ Down.table = 1
    BY SevenTables, SeedAssumption DEF Down, Starts
  <2>2. \A i \in 1 .. Len(Tables) : Down.at = "up" \/ i < Down.table => rows'[Tables[i]] > 0
    BY <2>1
  <2>. QED BY <1>0, <1>2, <2>1, <2>2, ProcessMoves
<1>3. ASSUME NEW w \in Starters, CheckTable(w) PROVE SeedInv'
  <2>1. CASE start' = [start EXCEPT ![w].at = "insert"]
    BY <1>1, <1>3, <2>1 DEF CheckTable
  <2>2. CASE rows[Table(w)] > 0 /\ start' = [start EXCEPT ![w] = NextTable(w)]
    <3>1. UNCHANGED <<rows, crashes>>
      BY <1>3 DEF CheckTable
    <3>. QED BY <1>0, <2>2, <3>1, TableDone, ProcessMoves
  <2>. QED BY <1>3, <2>1, <2>2 DEF CheckTable
<1>4. ASSUME NEW w \in Starters, InsertRows(w) PROVE SeedInv'
  <2>1. /\ rows' = [rows EXCEPT ![Table(w)] = @ + 1] /\ UNCHANGED crashes
        /\ ~ (Table(w) \in Unique /\ rows[Table(w)] > 0) /\ start[w].at = "insert"
    BY <1>4 DEF InsertRows
  <2>2. /\ rows' \in [TableNames -> Nat] /\ rows'[Table(w)] = rows[Table(w)] + 1
        /\ \A T \in TableNames : rows'[T] >= rows[T] /\ (T # Table(w) => rows'[T] = rows[T])
    BY <1>0, <2>1
  <2>3. \A T \in Unique : rows'[T] <= 1
    BY <1>0, <2>1, <2>2, SevenTables
  <2>4. rows'[Table(w)] > 0
    BY <1>0, <2>2
  <2>5. CASE start' = [start EXCEPT ![w] = NextTable(w)]
    BY <1>0, <2>1, <2>2, <2>3, <2>4, <2>5, TableDone, ProcessMoves
  <2>6. CASE /\ start[w].done + 1 < Batches(Table(w))
             /\ start' = [start EXCEPT ![w] = [start[w] EXCEPT !.done = start[w].done + 1]]
    <3>0. start[w].done + 1 \in 0 .. SeedDocuments
      <4>1. start[w].done \in 0 .. SeedDocuments /\ Batches(Table(w)) \in 1 .. SeedDocuments
        BY <1>0, SevenTables DEF Starts
      <4>. QED BY <2>6, <4>1, SeedAssumption
    <3>1. PICK s \in Starts : s = [start[w] EXCEPT !.done = start[w].done + 1]
      BY <1>0, <3>0 DEF Starts
    <3>2. s.at = "insert" /\ s.table = start[w].table /\ start' = [start EXCEPT ![w] = s]
      <4>1. start[w] \in Starts
        BY <1>0
      <4>2. s.at = "insert" /\ s.table = start[w].table
        BY <2>1, <3>1, <4>1 DEF Starts
      <4>. QED BY <2>6, <3>1, <4>2
    <3>3. ASSUME NEW i \in 1 .. Len(Tables), s.at = "up" \/ i < s.table PROVE rows'[Tables[i]] > 0
      <4>1. rows[Tables[i]] > 0 /\ Tables[i] \in TableNames
        BY <3>2, <3>3, SevenTables DEF SeedInv
      <4>. QED BY <1>0, <2>2, <4>1
    <3>. QED BY <1>0, <2>1, <2>2, <2>3, <3>2, <3>3, ProcessMoves
  <2>7. CASE start[w].done + 1 < Batches(Table(w))
    <3>1. start' = [start EXCEPT ![w] = [start[w] EXCEPT !.done = start[w].done + 1]]
      BY <1>4, <2>7 DEF InsertRows
    <3>. QED BY <2>6, <2>7, <3>1
  <2>8. CASE ~ (start[w].done + 1 < Batches(Table(w)))
    BY <1>4, <2>5, <2>8 DEF InsertRows
  <2>. QED BY <2>7, <2>8
<1>5. ASSUME NEW w \in Starters, StartProcess(w) PROVE SeedInv'
  BY <1>1, <1>5 DEF StartProcess
<1>6. ASSUME NEW w \in Starters, InsertConflicts(w) PROVE SeedInv'
  BY <1>0, <1>2, <1>6 DEF InsertConflicts
<1>7. ASSUME NEW w \in Starters, CrashProcess(w) PROVE SeedInv'
  <2>1. crashes \in 0 .. MaxCrashes /\ crashes < MaxCrashes /\ crashes' = crashes + 1
    BY <1>0, <1>7 DEF CrashProcess
  <2>2. crashes' \in 0 .. MaxCrashes
    BY <2>1, SeedAssumption
  <2>. QED BY <1>2, <1>7, <2>2 DEF CrashProcess
<1>8. CASE UNCHANGED seedVars
  BY <1>8 DEF seedVars, SeedInv, SeedTypeOK
<1>. QED BY <1>3, <1>4, <1>5, <1>6, <1>7, <1>8 DEF SeedNext, SeedStep

\* The invariant is worth having.
LEMMA SeedSafe == SeedInv => ServesSeeded
<1>. SUFFICES ASSUME SeedInv, NEW w \in Starters, start[w].at = "up" PROVE Seeded
  BY DEF ServesSeeded
<1>1. ASSUME NEW T \in TableNames PROVE rows[T] > 0
  <2>1. PICK i \in 1 .. Len(Tables) : T = Tables[i]
    BY DEF TableNames
  <2>. QED BY <2>1 DEF SeedInv
<1>2. ASSUME NEW T \in Unique PROVE rows[T] = 1
  <2>1. T \in TableNames /\ rows[T] \in Nat /\ rows[T] <= 1
    BY <1>2, SevenTables DEF SeedInv, SeedTypeOK
  <2>. QED BY <1>1, <2>1
<1>. QED BY <1>1, <1>2 DEF Seeded

\* main.py:seed: no process serves before every table is filled, and none whose
\* key is unique was filled twice, for any number of processes, documents and
\* crashes, and every order of their checks and INSERTs.
THEOREM ServesOnlySeeded == SeedSpec => []ServesSeeded
<1>. QED BY SeedStarts, SeedSteps, SeedSafe, PTL DEF SeedSpec

-----------------------------------------------------------------------------
(* The bounds that the invariants of the intake and the bus do not name.   *)

\* A post is answered for a task that exists, or is not answered yet.
AnswersBounded == \A p \in Posts : post[p].answer.task <= Len(tasks)

\* An answer is changed only with the position, and no task is deleted.
LEMMA AnswersStay ==
  ASSUME IntakeInv, [IntakeNext]_intakeVars
  PROVE  /\ Len(tasks') >= Len(tasks)
         /\ \A p \in Posts : \/ post'[p].answer = post[p].answer
                             \/ post'[p].at \in {"finished", "answered"}
<1>. DEFINE Staying == /\ Len(tasks') >= Len(tasks)
                     /\ \A p \in Posts : \/ post'[p].answer = post[p].answer
                                         \/ post'[p].at \in {"finished", "answered"}
<1>0. /\ tasks \in Seq(Rows) /\ Len(tasks) \in Nat
      /\ post \in [Posts -> [at: Positions, key: Keys, task: Nat, answer: Replies]]
  BY DEF IntakeInv, IntakeTypes
<1>1. ASSUME NEW p \in Posts, NEW k \in KeysOf[p], InsertTask(p, k) PROVE Staying
  <2>1. /\ \A q \in Posts \ {p} : post'[q] = post[q]
        /\ post'[p].answer = post[p].answer
    BY <1>0, <1>1 DEF InsertTask, NewTask
  <2>2. Len(tasks') >= Len(tasks)
    BY <1>0, <1>1 DEF InsertTask, NewTask
  <2>. QED BY <2>1, <2>2
<1>2. ASSUME NEW p \in Posts, UNCHANGED tasks \/ \E i \in 1 .. Len(tasks) : \E r : tasks' = [tasks EXCEPT ![i] = r],
             \/ \E l : PostGoto(p, l)
             \/ \E l \in {"finished", "answered"} : \E a : post' = [post EXCEPT ![p].at = l, ![p].answer = a]
      PROVE  Staying
  <2>1. Len(tasks') = Len(tasks)
    BY <1>0, <1>2
  <2>2. \A q \in Posts \ {p} : post'[q] = post[q]
    BY <1>0, <1>2 DEF PostGoto
  <2>3. post'[p].answer = post[p].answer \/ post'[p].at \in {"finished", "answered"}
    BY <1>0, <1>2 DEF PostGoto
  <2>. QED BY <1>0, <2>1, <2>2, <2>3
<1>3. ASSUME NEW p \in Posts, PostStep(p) \/ LosePost(p) PROVE Staying
  <2>1. CASE Replay(p)
    BY <1>2, <2>1 DEF Replay, ReplyAgain
  <2>2. CASE RunTask(p)
    <3>1. \E i \in 1 .. Len(tasks) : \E r : tasks' = [tasks EXCEPT ![i] = r]
      <4>1. post[p].task \in 1 .. Len(tasks)
        BY <2>2 DEF RunTask, PostAt, IntakeInv, Own
      <4>. QED BY <2>2, <4>1 DEF RunTask
    <3>. QED BY <1>2, <2>2, <3>1 DEF RunTask
  <2>3. CASE FinishTask(p)
    <3>1. \E i \in 1 .. Len(tasks) : \E r : tasks' = [tasks EXCEPT ![i] = r]
      <4>1. post[p].task \in 1 .. Len(tasks)
        BY <2>3 DEF FinishTask, PostAt, IntakeInv, Own
      <4>. QED BY <2>3, <4>1 DEF FinishTask
    <3>. QED BY <1>2, <2>3, <3>1 DEF FinishTask
  <2>4. CASE AnswerPost(p) \/ LosePost(p)
    BY <1>2, <2>4 DEF AnswerPost, LosePost
  <2>. QED BY <1>3, <2>1, <2>2, <2>3, <2>4 DEF PostStep
<1>4. ASSUME NEW i \in 1 .. Len(tasks), ReviewTask(i) \/ ScanTask(i) PROVE Staying
  BY <1>0, <1>4 DEF ReviewTask, ScanTask
<1>5. CASE UNCHANGED intakeVars
  BY <1>0, <1>5 DEF intakeVars
<1>. QED BY <1>1, <1>3, <1>4, <1>5 DEF IntakeNext

\* So the tasks that posts are answered for go on existing.
LEMMA AnswersStayBounded ==
  ASSUME IntakeInv, IntakeInv', AnswersBounded, [IntakeNext]_intakeVars
  PROVE  AnswersBounded'
<1>. SUFFICES ASSUME NEW p \in Posts PROVE post'[p].answer.task <= Len(tasks')
  BY DEF AnswersBounded
<1>1. /\ Len(tasks) \in Nat /\ Len(tasks') \in Nat /\ Len(tasks') >= Len(tasks)
      /\ post[p].answer.task \in Nat
  BY AnswersStay DEF IntakeInv, IntakeTypes, Replies
<1>2. CASE post'[p].answer = post[p].answer
  BY <1>1, <1>2 DEF AnswersBounded
<1>3. CASE post'[p].at \in {"finished", "answered"}
  <2>1. post'[p].answer.task \in 1 .. Len(tasks')
    BY <1>3 DEF IntakeInv, Own
  <2>. QED BY <1>1, <2>1
<1>. QED BY <1>2, <1>3, AnswersStay

\* With its bound the intake's invariant gives its type invariant.
LEMMA IntakeTyped == IntakeInv /\ AnswersBounded => IntakeTypeOK
<1>. SUFFICES ASSUME IntakeInv, AnswersBounded PROVE IntakeTypeOK
  OBVIOUS
<1>1. /\ tasks \in Seq(Rows) /\ Len(tasks) \in Nat /\ started \subseteq Posts
      /\ post \in [Posts -> [at: Positions, key: Keys, task: Nat, answer: Replies]]
  BY DEF IntakeInv, IntakeTypes
<1>2. \A i \in 1 .. Len(tasks) : tasks[i].status \in Statuses /\ tasks[i].result \in Results
  <2>1. \A i \in 1 .. Len(tasks) : tasks[i] \in Rows
    BY <1>1
  <2>. QED BY <2>1 DEF Rows
<1>3. ASSUME NEW p \in Posts
      PROVE  /\ post[p].at \in {"unsent", "lookup", "created", "running", "finished", "answered", "lost"}
             /\ post[p].task \in 0 .. Len(tasks) /\ post[p].answer.task \in 0 .. Len(tasks)
             /\ post[p].answer.says \in Statuses
  <2>1. post[p] \in [at: Positions, key: Keys, task: Nat, answer: Replies]
    BY <1>1
  <2>2. post[p].at \in Positions /\ post[p].task \in Nat /\ post[p].answer \in Replies
    BY <2>1
  <2>3. post[p].answer.task \in Nat /\ post[p].answer.says \in Statuses
    BY <2>2 DEF Replies
  <2>4. post[p].task \in 0 .. Len(tasks)
    BY <1>1, <2>2 DEF IntakeInv, Own
  <2>. QED BY <1>1, <2>2, <2>3, <2>4 DEF AnswersBounded, Positions
<1>. QED BY <1>1, <1>2, <1>3 DEF IntakeTypeOK

\* The bound on a tenant's events, which holds for what a stream found there too.
BusBounds ==
  /\ \A t \in BusTenants : published[t] <= MaxEvents
  /\ \A s \in Streams : joined[s] <= MaxEvents

\* Only publish raises a tenant's number of events, and not beyond the bound.
LEMMA BusStaysBounded ==
  ASSUME BusInv, BusBounds, [BusNext]_busVars
  PROVE  BusBounds'
<1>0. /\ published \in [BusTenants -> Nat] /\ joined \in [Streams -> Nat]
      /\ TenantOf \in [Streams -> BusTenants] /\ MaxEvents \in Nat
  BY BusAssumption DEF BusInv
<1>1. ASSUME NEW s \in Streams, Subscribe(s) PROVE BusBounds'
  BY <1>0, <1>1 DEF Subscribe, BusBounds
<1>2. ASSUME NEW t \in BusTenants, Publish(t) PROVE BusBounds'
  <2>1. /\ published[t] < MaxEvents /\ published' = [published EXCEPT ![t] = @ + 1]
        /\ UNCHANGED joined
    BY <1>2 DEF Publish
  <2>2. \A u \in BusTenants : published'[u] = IF u = t THEN published[t] + 1 ELSE published[u]
    BY <1>0, <2>1
  <2>3. \A u \in BusTenants : published'[u] <= MaxEvents
    BY <1>0, <2>1, <2>2 DEF BusBounds
  <2>. QED BY <2>1, <2>3 DEF BusBounds
<1>3. CASE UNCHANGED <<published, joined>>
  BY <1>3 DEF BusBounds
<1>4. ASSUME NEW s \in Streams, Deliver(s) \/ Hangup(s) \/ Close(s) PROVE BusBounds'
  BY <1>3, <1>4 DEF Deliver, Hangup, Close
<1>. QED BY <1>1, <1>2, <1>3, <1>4 DEF BusNext, busVars

\* With its bounds the invariant of the bus gives its type invariant.
LEMMA BusTyped == BusInv /\ BusBounds => BusTypeOK
<1>. SUFFICES ASSUME BusInv, BusBounds PROVE BusTypeOK
  OBVIOUS
<1>1. \A t \in BusTenants : queues[t] \subseteq {s \in Streams : TenantOf[s] = t}
  BY DEF BusInv
<1>2. \A s \in Streams : Len(queue[s]) <= QueueSize /\ joined[s] \in 0 .. MaxEvents
  BY BusAssumption DEF BusInv, BusBounds
<1>3. published \in [BusTenants -> 0 .. MaxEvents]
  BY BusAssumption DEF BusInv, BusBounds
<1>. QED BY <1>1, <1>2, <1>3 DEF BusInv, BusTypeOK

-----------------------------------------------------------------------------
(* The services together.                                                  *)

ServicesInv ==
  /\ IntakeInv /\ AnswersBounded /\ BusInv /\ BusBounds
  /\ RagInv /\ PoolInv /\ PriceInv /\ SeedInv

\* Every service starts as it would alone.
LEMMA ServicesStart == ServicesInit => ServicesInv
<1>. SUFFICES ASSUME ServicesInit PROVE ServicesInv
  OBVIOUS
<1>1. IntakeInv /\ BusInv /\ RagInv /\ PoolInv /\ PriceInv /\ SeedInv
  BY IntakeStarts, BusStart, RagStart, PoolStarts, PriceStart, SeedStarts DEF ServicesInit
<1>2. AnswersBounded
  BY DEF ServicesInit, IntakeInit, NoAnswer, AnswersBounded
<1>3. BusBounds
  BY BusAssumption DEF ServicesInit, BusInit, BusBounds
<1>. QED BY <1>1, <1>2, <1>3 DEF ServicesInv

\* To every service a step of the composition is one of its own, or none.
LEMMA StepsApart ==
  ASSUME [ServicesNext]_services
  PROVE  /\ [IntakeNext]_intakeVars /\ [BusNext]_busVars /\ [RagNext]_ragVars
         /\ [PoolNext]_poolVars /\ [PriceNext]_priceVars /\ [SeedNext]_seedVars
BY DEF ServicesNext, Alone, services

\* So it preserves all the invariants.
LEMMA ServicesSteps ==
  ASSUME ServicesInv, [ServicesNext]_services
  PROVE  ServicesInv'
<1>1. IntakeInv'
  BY StepsApart, IntakeSteps DEF ServicesInv
<1>2. AnswersBounded'
  BY <1>1, StepsApart, AnswersStayBounded DEF ServicesInv
<1>3. BusInv' /\ BusBounds'
  BY StepsApart, BusStep, BusStaysBounded DEF ServicesInv
<1>4. RagInv'
  BY StepsApart, RagSteps DEF ServicesInv
<1>5. PoolInv'
  BY StepsApart, PoolSteps DEF ServicesInv
<1>6. PriceInv'
  BY StepsApart, PriceStep DEF ServicesInv
<1>7. SeedInv'
  BY StepsApart, SeedSteps DEF ServicesInv
<1>. QED BY <1>1, <1>2, <1>3, <1>4, <1>5, <1>6, <1>7 DEF ServicesInv

\* The variables of every service are typed in every state of their composition:
\* the queues, caches, pools and tables of all of them stay within their bounds,
\* whichever moves.
THEOREM ServicesTyped == ServicesSpec => []ServicesTypeOK
<1>1. ServicesInv => ServicesTypeOK
  BY IntakeTyped, BusTyped DEF ServicesInv, ServicesTypeOK, RagInv, RagTyped, PoolInv, PriceInv, SeedInv
<1>. QED BY ServicesStart, ServicesSteps, <1>1, PTL DEF ServicesSpec

\* To every service a behaviour of the composition is one of its own.
LEMMA ServicesApart ==
  ServicesSpec => IntakeSpec /\ BusSpec /\ RagSpec /\ PoolSpec /\ PriceSpec /\ SeedSpec
<1>1. ServicesInit => IntakeInit /\ BusInit /\ RagInit /\ PoolInit /\ PriceInit /\ SeedInit
  BY DEF ServicesInit
<1>. QED
  BY <1>1, StepsApart, PTL DEF ServicesSpec, IntakeSpec, BusSpec, RagSpec, PoolSpec, PriceSpec, SeedSpec

\* So what is proved of each service alone holds in the composition, too, which
\* is the specification that TLC checks.
THEOREM ServicesKeepTheirPromises ==
  ServicesSpec =>
    /\ [](RunOnce /\ OwnAnswer /\ GapFree /\ FreshEnough /\ OwnTrusted /\ TenantIsolation /\ ServesSeeded)
    /\ ReversalRestores
BY ServicesApart, RunsOnce, AnswersAreOwn, StreamsAreGapFree, AnswersAreFresh, AnswersAreTrusted,
   TenantsStayApart, ServesOnlySeeded, ReversalsRestore, PTL
=============================================================================
