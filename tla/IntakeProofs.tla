---------------------------- MODULE IntakeProofs ----------------------------
(***************************************************************************)
(* Proofs about TaskIntake for any posts, actors and keys: a request that  *)
(* is posted again and again runs once, and is answered for its own task.  *)
(***************************************************************************)
EXTENDS TaskIntake, TLAPS

Keys == (UNION {KeysOf[p] : p \in Posts}) \union {NoKey}
Rows == [actor: {ActorOf[p] : p \in Posts}, key: Keys, status: Statuses, result: Results]
Replies == [task: Nat, says: Statuses, replay: BOOLEAN]
Positions == {"unsent", "lookup", "created", "running", "finished", "answered", "lost"}

IntakeTypes ==
  /\ tasks \in Seq(Rows) /\ started \subseteq Posts
  /\ post \in [Posts -> [at: Positions, key: Keys, task: Nat, answer: Replies]]

\* A task was created by its own request.
Own(p, i) == i \in 1..Len(tasks) /\ tasks[i].actor = ActorOf[p] /\ tasks[i].key = post[p].key

\* The unique index.
Indexed ==
  \A i, j \in 1..Len(tasks) :
    tasks[i].key # NoKey /\ tasks[i].key = tasks[j].key /\ tasks[i].actor = tasks[j].actor => i = j

\* Why RunOnce and OwnAnswer hold: every task is the work of one post, and only
\* that post runs it or answers for it first.
IntakeInv ==
  /\ IntakeTypes /\ Indexed
  /\ \A p \in Posts : post[p].task # 0 => Own(p, post[p].task)
  /\ \A p, q \in Posts : post[p].task # 0 /\ post[p].task = post[q].task => p = q
  /\ \A p \in Posts : post[p].at \in {"unsent", "lookup"} => post[p].task = 0
  /\ \A p \in Posts : post[p].at \in {"created", "running", "finished"} => post[p].task # 0
  /\ \A p \in started : post[p].task # 0
  /\ \A p \in Posts : post[p].at \in {"finished", "answered"} => Own(p, post[p].answer.task)

\* The initial states satisfy the invariant.
LEMMA IntakeStarts == IntakeInit => IntakeInv
<1>. SUFFICES ASSUME IntakeInit PROVE IntakeInv
  OBVIOUS
<1>1. NoKey \in Keys /\ "unsent" \in Positions /\ NoAnswer \in Replies
  <2>1. "nothing" \in Statuses
    BY DEF Statuses, Results
  <2>2. NoAnswer \in Replies
    BY <2>1 DEF NoAnswer, Replies
  <2>. QED BY <2>2 DEF Keys, Positions
<1>2. tasks = <<>> /\ Len(tasks) = 0 /\ started = {}
  BY DEF IntakeInit
<1>3. /\ post \in [Posts -> [at: Positions, key: Keys, task: Nat, answer: Replies]]
      /\ \A p \in Posts : post[p].at = "unsent" /\ post[p].task = 0
  BY <1>1 DEF IntakeInit
<1>4. IntakeTypes
  BY <1>2, <1>3 DEF IntakeTypes
<1>5. Indexed
  BY <1>2 DEF Indexed
<1>. QED BY <1>2, <1>3, <1>4, <1>5 DEF IntakeInv

\* The invariant is worth having.
LEMMA IntakeSafe == IntakeInv => RunOnce /\ OwnAnswer
<1>. SUFFICES ASSUME IntakeInv PROVE RunOnce /\ OwnAnswer
  OBVIOUS
<1>1. ASSUME NEW p \in Posts, NEW q \in Posts, NEW i, NEW j, Own(p, i), Own(q, j), SameRequest(p, q)
      PROVE  i = j
  BY <1>1 DEF Own, SameRequest, IntakeInv, Indexed
<1>2. RunOnce
  BY <1>1 DEF RunOnce, IntakeInv, IntakeTypes
<1>3. OwnAnswer
  <2>1. ASSUME NEW p \in Posts, PostAt(p, "answered") PROVE Own(p, post[p].answer.task)
    BY <2>1 DEF IntakeInv, PostAt
  <2>. QED BY <1>1, <2>1 DEF OwnAnswer, Own
<1>. QED BY <1>2, <1>3

\* Rows that keep their actors and keys keep what the invariant says of them.
LEMMA RowsKept ==
  ASSUME IntakeInv, tasks' \in Seq(Rows), Len(tasks') = Len(tasks),
         \A i \in 1..Len(tasks) : tasks'[i].actor = tasks[i].actor /\ tasks'[i].key = tasks[i].key
  PROVE  Indexed' /\ \A p \in Posts, i \in Nat : Own(p, i) /\ post'[p].key = post[p].key => Own(p, i)'
BY DEF IntakeInv, Indexed, Own

\* A change of one row's status, and perhaps of its result.
LEMMA RowChanged ==
  ASSUME IntakeInv, NEW i \in 1..Len(tasks), NEW s \in Statuses, NEW x \in Results,
         tasks' = [tasks EXCEPT ![i] = [@ EXCEPT !.status = s, !.result = x]]
           \/ tasks' = [tasks EXCEPT ![i].status = s]
  PROVE  /\ tasks' \in Seq(Rows) /\ Len(tasks') = Len(tasks)
         /\ \A j \in 1..Len(tasks) : tasks'[j].actor = tasks[j].actor /\ tasks'[j].key = tasks[j].key
<1>1. tasks \in Seq(Rows) /\ Len(tasks) \in Nat /\ \A j \in 1..Len(tasks) : tasks[j] \in Rows
  BY DEF IntakeInv, IntakeTypes
<1>2. PICK r \in Rows : /\ tasks' = [tasks EXCEPT ![i] = r]
                        /\ r.actor = tasks[i].actor /\ r.key = tasks[i].key
  BY <1>1 DEF Rows
<1>. QED BY <1>1, <1>2

\* A post keeps its task and key, and every other post all it has.
PostBecomes(p, l, a) ==
  /\ post' \in [Posts -> [at: Positions, key: Keys, task: Nat, answer: Replies]]
  /\ \A q \in Posts : post'[q].key = post[q].key /\ post'[q].task = post[q].task
  /\ \A q \in Posts \ {p} : post'[q] = post[q]
  /\ post'[p].at = l /\ post'[p].answer = a

\* A step that sets a post's position is such a step.
LEMMA PostGone ==
  ASSUME IntakeInv, NEW p \in Posts, NEW l \in Positions, PostGoto(p, l)
  PROVE  PostBecomes(p, l, post[p].answer) /\ post[p].answer \in Replies
BY DEF IntakeInv, IntakeTypes, PostGoto, PostBecomes

\* So is one that sets its answer too.
LEMMA PostAnswered ==
  ASSUME IntakeInv, NEW p \in Posts, NEW l \in Positions, NEW a \in Replies,
         post' = [post EXCEPT ![p].at = l, ![p].answer = a]
  PROVE  PostBecomes(p, l, a)
<1>1. post \in [Posts -> [at: Positions, key: Keys, task: Nat, answer: Replies]]
  BY DEF IntakeInv, IntakeTypes
<1>2. /\ post[p] \in [at: Positions, key: Keys, task: Nat, answer: Replies]
      /\ post' = [post EXCEPT ![p] = [@ EXCEPT !.at = l, !.answer = a]]
  BY <1>1
<1>3. [post[p] EXCEPT !.at = l, !.answer = a] \in [at: Positions, key: Keys, task: Nat, answer: Replies]
  BY <1>2
<1>. QED BY <1>1, <1>2, <1>3 DEF PostBecomes

\* A post that moves on leaves the invariant alone.
LEMMA PostMoves ==
  ASSUME IntakeInv, NEW p \in Posts, NEW l \in Positions, NEW a \in Replies, PostBecomes(p, l, a),
         tasks' \in Seq(Rows), Len(tasks') = Len(tasks),
         \A i \in 1..Len(tasks) : tasks'[i].actor = tasks[i].actor /\ tasks'[i].key = tasks[i].key,
         started' \subseteq started \union {p},
         l \in {"unsent", "lookup"} => post[p].task = 0,
         l \in {"created", "running", "finished"} \/ started' # started => post[p].task # 0,
         l \in {"finished", "answered"} => Own(p, a.task)
  PROVE  IntakeInv'
<1>1. /\ post' \in [Posts -> [at: Positions, key: Keys, task: Nat, answer: Replies]]
      /\ \A q \in Posts : post'[q].key = post[q].key /\ post'[q].task = post[q].task
      /\ \A q \in Posts \ {p} : post'[q] = post[q]
      /\ post'[p].at = l /\ post'[p].answer = a
  BY DEF PostBecomes
<1>2. IntakeTypes'
  BY <1>1 DEF IntakeInv, IntakeTypes
<1>3. Indexed' /\ \A q \in Posts, i \in Nat : Own(q, i) => Own(q, i)'
  BY <1>1, RowsKept
<1>4. \A q \in Posts : post[q].task \in Nat /\ post'[q].answer.task \in Nat
  BY <1>1 DEF IntakeInv, IntakeTypes, Replies
<1>5. \A q \in Posts : post'[q].task # 0 => Own(q, post[q].task)'
  BY <1>1, <1>3, <1>4 DEF IntakeInv
<1>6. \A q \in Posts : post'[q].at \in {"finished", "answered"} => Own(q, post[q].answer.task)'
  BY <1>1, <1>3, <1>4 DEF IntakeInv
<1>7. \A q \in Posts : /\ post'[q].at \in {"unsent", "lookup"} => post'[q].task = 0
                       /\ post'[q].at \in {"created", "running", "finished"} => post'[q].task # 0
  BY <1>1 DEF IntakeInv
<1>8. \A q \in started' : post'[q].task # 0
  BY <1>1 DEF IntakeInv, IntakeTypes
<1>9. \A q, s \in Posts : post'[q].task # 0 /\ post'[q].task = post'[s].task => q = s
  BY <1>1 DEF IntakeInv
<1>. QED BY <1>2, <1>3, <1>5, <1>6, <1>7, <1>8, <1>9 DEF IntakeInv

\* So does a change of the rows alone.
LEMMA RowsMove ==
  ASSUME IntakeInv, UNCHANGED <<post, started>>, tasks' \in Seq(Rows), Len(tasks') = Len(tasks),
         \A i \in 1..Len(tasks) : tasks'[i].actor = tasks[i].actor /\ tasks'[i].key = tasks[i].key
  PROVE  IntakeInv'
<1>1. Indexed' /\ \A q \in Posts, i \in Nat : Own(q, i) => Own(q, i)'
  BY RowsKept
<1>2. \A q \in Posts : post[q].task \in Nat /\ post[q].answer.task \in Nat
  BY DEF IntakeInv, IntakeTypes, Replies
<1>3. IntakeTypes'
  BY DEF IntakeInv, IntakeTypes
<1>4. \A q \in Posts : /\ post[q].task # 0 => Own(q, post[q].task)'
                       /\ post[q].at \in {"finished", "answered"} => Own(q, post[q].answer.task)'
  BY <1>1, <1>2 DEF IntakeInv
<1>. QED BY <1>1, <1>3, <1>4 DEF IntakeInv

\* The INSERT that adds a row.
LEMMA TaskAdded ==
  ASSUME IntakeInv, NEW p \in Posts, NEW k \in KeysOf[p], PostAt(p, "unsent"),
         Conflicting(p, k) = {}, NewTask(p, k), UNCHANGED started
  PROVE  IntakeInv'
<1>. DEFINE n == Len(tasks) + 1
            row == [actor |-> ActorOf[p], key |-> k, status |-> "created", result |-> "nothing"]
<1>1. /\ tasks \in Seq(Rows) /\ Len(tasks) \in Nat /\ n \in Nat \ {0} /\ k \in Keys
      /\ post \in [Posts -> [at: Positions, key: Keys, task: Nat, answer: Replies]]
      /\ \A q \in Posts : post[q].task \in Nat /\ post[q].answer.task \in Nat
  BY DEF IntakeInv, IntakeTypes, Keys, Replies
<1>2. row \in Rows
  <2>1. "created" \in Statuses /\ "nothing" \in Results
    BY DEF Statuses, Results
  <2>. QED BY <1>1, <2>1 DEF Rows
<1>3. /\ tasks' = Append(tasks, row) /\ tasks' \in Seq(Rows) /\ Len(tasks') = n /\ tasks'[n] = row
      /\ \A i \in 1..Len(tasks) : tasks'[i] = tasks[i]
  BY <1>1, <1>2 DEF NewTask
<1>4. post' = [post EXCEPT ![p] = [@ EXCEPT !.at = "created", !.key = k, !.task = n]]
  BY DEF NewTask
<1>5. /\ post'[p].at = "created" /\ post'[p].key = k /\ post'[p].task = n
      /\ \A q \in Posts \ {p} : post'[q] = post[q]
      /\ post' \in [Posts -> [at: Positions, key: Keys, task: Nat, answer: Replies]]
  <2>1. /\ post[p] \in [at: Positions, key: Keys, task: Nat, answer: Replies]
        /\ "created" \in Positions
    BY <1>1 DEF Positions
  <2>2. [post[p] EXCEPT !.at = "created", !.key = k, !.task = n] \in [at: Positions, key: Keys, task: Nat, answer: Replies]
    BY <1>1, <2>1
  <2>. QED BY <1>1, <1>4, <2>1, <2>2
<1>6. Indexed'
  <2>1. \A i \in 1..Len(tasks) : ~ (k # NoKey /\ tasks[i].key = k /\ tasks[i].actor = ActorOf[p])
    BY DEF Conflicting
  <2>2. ASSUME NEW i \in 1..n, NEW j \in 1..n, tasks'[i].key # NoKey, tasks'[i].key = tasks'[j].key,
               tasks'[i].actor = tasks'[j].actor
        PROVE  i = j
    <3>1. CASE i = n /\ j = n
      BY <3>1
    <3>2. CASE i = n /\ j # n
      BY <1>1, <1>3, <2>1, <2>2, <3>2
    <3>3. CASE i # n /\ j = n
      BY <1>1, <1>3, <2>1, <2>2, <3>3
    <3>4. CASE i # n /\ j # n
      BY <1>1, <1>3, <2>2, <3>4 DEF IntakeInv, Indexed
    <3>. QED BY <3>1, <3>2, <3>3, <3>4
  <2>. QED BY <1>3, <2>2 DEF Indexed
<1>7. ASSUME NEW q \in Posts \ {p}, NEW i \in Nat, Own(q, i) PROVE Own(q, i)'
  <2>1. i \in 1..Len(tasks) /\ i \in 1..Len(tasks')
    BY <1>1, <1>3, <1>7 DEF Own
  <2>2. tasks'[i] = tasks[i] /\ post'[q] = post[q]
    BY <1>3, <1>5, <2>1
  <2>. QED BY <1>7, <2>1, <2>2 DEF Own
<1>8. Own(p, post[p].task)'
  BY <1>1, <1>3, <1>5 DEF Own
<1>9. \A q \in Posts : /\ post'[q].task # 0 => Own(q, post[q].task)'
                       /\ post'[q].at \in {"finished", "answered"} => Own(q, post[q].answer.task)'
  <2>1. ASSUME NEW q \in Posts \ {p}, post[q].task # 0 PROVE Own(q, post[q].task)
    BY <2>1 DEF IntakeInv
  <2>2. ASSUME NEW q \in Posts \ {p}, post[q].at \in {"finished", "answered"}
        PROVE  Own(q, post[q].answer.task)
    BY <2>2 DEF IntakeInv
  <2>. QED BY <1>1, <1>5, <1>7, <1>8, <2>1, <2>2
<1>10. \A q, s \in Posts : post'[q].task # 0 /\ post'[q].task = post'[s].task => q = s
  <2>1. \A q \in Posts \ {p} : post[q].task # n
    BY <1>1 DEF IntakeInv, Own
  <2>. QED BY <1>5, <2>1 DEF IntakeInv
<1>11. /\ \A q \in Posts : /\ post'[q].at \in {"unsent", "lookup"} => post'[q].task = 0
                           /\ post'[q].at \in {"created", "running", "finished"} => post'[q].task # 0
       /\ \A q \in started' : post'[q].task # 0
  BY <1>1, <1>5 DEF IntakeInv, IntakeTypes
<1>. QED BY <1>3, <1>5, <1>6, <1>9, <1>10, <1>11 DEF IntakeInv, IntakeTypes

\* The INSERT that met a conflict.
LEMMA TaskFound ==
  ASSUME IntakeInv, NEW p \in Posts, NEW k \in KeysOf[p], PostAt(p, "unsent"),
         UNCHANGED <<tasks, started>>, post' = [post EXCEPT ![p] = [@ EXCEPT !.at = "lookup", !.key = k]]
  PROVE  IntakeInv'
<1>1. /\ post \in [Posts -> [at: Positions, key: Keys, task: Nat, answer: Replies]]
      /\ post[p].task = 0 /\ k \in Keys /\ "lookup" \in Positions
  BY DEF IntakeInv, IntakeTypes, PostAt, Keys, Positions
<1>2. /\ post' \in [Posts -> [at: Positions, key: Keys, task: Nat, answer: Replies]]
      /\ post'[p].at = "lookup" /\ post'[p].task = 0
      /\ \A q \in Posts \ {p} : post'[q] = post[q]
  <2>1. [post[p] EXCEPT !.at = "lookup", !.key = k] \in [at: Positions, key: Keys, task: Nat, answer: Replies]
    BY <1>1
  <2>. QED BY <1>1, <2>1
<1>3. \A q \in Posts \ {p}, i \in Nat : Own(q, i) => Own(q, i)'
  BY <1>2 DEF Own
<1>4. \A q \in Posts : /\ post'[q].task # 0 => Own(q, post[q].task)'
                       /\ post'[q].at \in {"finished", "answered"} => Own(q, post[q].answer.task)'
  <2>1. ASSUME NEW q \in Posts \ {p}
        PROVE  /\ post[q].task # 0 => Own(q, post[q].task)
               /\ post[q].at \in {"finished", "answered"} => Own(q, post[q].answer.task)
               /\ post[q].task \in Nat /\ post[q].answer.task \in Nat
    BY <1>1 DEF IntakeInv, Replies
  <2>. QED BY <1>2, <1>3, <2>1
<1>5. Indexed'
  BY DEF IntakeInv, Indexed
<1>. QED BY <1>2, <1>4, <1>5 DEF IntakeInv, IntakeTypes

\* The rows that are not touched keep what RowsKept and RowChanged speak of.
LEMMA SameRows ==
  ASSUME IntakeInv, UNCHANGED tasks
  PROVE  /\ tasks' \in Seq(Rows) /\ Len(tasks') = Len(tasks)
         /\ \A i \in 1..Len(tasks) : tasks'[i].actor = tasks[i].actor /\ tasks'[i].key = tasks[i].key
BY DEF IntakeInv, IntakeTypes

\* Every step preserves the invariant.
LEMMA IntakeSteps == IntakeInv /\ [IntakeNext]_intakeVars => IntakeInv'
<1>. SUFFICES ASSUME IntakeInv, [IntakeNext]_intakeVars PROVE IntakeInv'
  OBVIOUS
<1>0. /\ \A p \in Posts : post[p].task \in Nat /\ post[p].answer \in Replies
      /\ \A i \in 1..Len(tasks) : tasks[i] \in Rows
      /\ Len(tasks) \in Nat
  BY DEF IntakeInv, IntakeTypes
<1>1. ASSUME NEW p \in Posts, NEW k \in KeysOf[p], InsertTask(p, k) PROVE IntakeInv'
  BY <1>1, TaskAdded, TaskFound DEF InsertTask
<1>2. ASSUME NEW p \in Posts, Replay(p) PROVE IntakeInv'
  <2>1. PICK i \in Conflicting(p, post[p].key) :
          ReplyAgain(p, i, IF tasks[i].result # "nothing" THEN tasks[i].result ELSE tasks[i].status)
    BY <1>2 DEF Replay
  <2>2. i \in 1..Len(tasks) /\ Own(p, i)
    BY <2>1 DEF Conflicting, Own
  <2>3. PICK a \in Replies : PostBecomes(p, "answered", a) /\ a.task = i
    <3>1. tasks[i].result \in Results /\ tasks[i].status \in Statuses /\ i \in Nat
      BY <1>0, <2>2 DEF Rows
    <3>2. Results \subseteq Statuses
      BY DEF Statuses
    <3>3. PICK says \in Statuses : ReplyAgain(p, i, says)
      BY <2>1, <3>1, <3>2
    <3>4. PICK a \in Replies : a = [task |-> i, says |-> says, replay |-> TRUE]
      BY <3>1 DEF Replies
    <3>5. post' = [post EXCEPT ![p].at = "answered", ![p].answer = a] /\ "answered" \in Positions
      BY <3>3, <3>4 DEF ReplyAgain, Positions
    <3>. QED BY <3>4, <3>5, PostAnswered
  <2>4. UNCHANGED <<tasks, started>> /\ "answered" \in Positions
    BY <1>2 DEF Replay, Positions
  <2>5. /\ tasks' \in Seq(Rows) /\ Len(tasks') = Len(tasks)
        /\ \A j \in 1..Len(tasks) : tasks'[j].actor = tasks[j].actor /\ tasks'[j].key = tasks[j].key
    BY <2>4, SameRows
  <2>6. Own(p, a.task) /\ started' \subseteq started \union {p} /\ started' = started
    BY <2>2, <2>3, <2>4
  <2>7. "answered" \notin {"unsent", "lookup", "created", "running", "finished"}
    OBVIOUS
  <2>. QED BY <2>3, <2>4, <2>5, <2>6, <2>7, PostMoves
<1>3. ASSUME NEW p \in Posts, RunTask(p) PROVE IntakeInv'
  <2>1. post[p].task # 0 /\ post[p].task \in 1..Len(tasks)
    BY <1>3 DEF RunTask, PostAt, IntakeInv, Own
  <2>2. "running" \in Statuses /\ "nothing" \in Results /\ "running" \in Positions
    BY DEF Statuses, Results, Positions
  <2>3. /\ tasks' \in Seq(Rows) /\ Len(tasks') = Len(tasks)
        /\ \A j \in 1..Len(tasks) : tasks'[j].actor = tasks[j].actor /\ tasks'[j].key = tasks[j].key
    BY <1>3, <2>1, <2>2, RowChanged DEF RunTask
  <2>4. PostBecomes(p, "running", post[p].answer) /\ started' \subseteq started \union {p}
    BY <1>3, <2>2, PostGone DEF RunTask
  <2>. QED BY <1>0, <2>1, <2>2, <2>3, <2>4, PostMoves
<1>4. ASSUME NEW p \in Posts, FinishTask(p) PROVE IntakeInv'
  <2>1. PICK r \in Outcomes :
          /\ tasks' = [tasks EXCEPT ![post[p].task] = [@ EXCEPT !.status = r, !.result = r]]
          /\ post' = [post EXCEPT ![p].at = "finished",
                                  ![p].answer = [task |-> post[p].task, says |-> r, replay |-> FALSE]]
    BY <1>4 DEF FinishTask
  <2>2. post[p].task # 0 /\ Own(p, post[p].task) /\ post[p].task \in 1..Len(tasks)
    BY <1>4 DEF FinishTask, PostAt, IntakeInv, Own
  <2>3. r \in Results /\ r \in Statuses /\ "finished" \in Positions
    BY DEF Statuses, Results, Positions
  <2>4. PICK a \in Replies : PostBecomes(p, "finished", a) /\ a.task = post[p].task
    <3>1. PICK a \in Replies : a = [task |-> post[p].task, says |-> r, replay |-> FALSE]
      BY <1>0, <2>3 DEF Replies
    <3>2. post' = [post EXCEPT ![p].at = "finished", ![p].answer = a]
      BY <2>1, <3>1
    <3>. QED BY <2>3, <3>1, <3>2, PostAnswered
  <2>5. /\ tasks' \in Seq(Rows) /\ Len(tasks') = Len(tasks)
        /\ \A j \in 1..Len(tasks) : tasks'[j].actor = tasks[j].actor /\ tasks'[j].key = tasks[j].key
    BY <2>1, <2>2, <2>3, RowChanged
  <2>6. Own(p, a.task) /\ started' \subseteq started \union {p} /\ started' = started
    BY <1>4, <2>2, <2>4 DEF FinishTask
  <2>. QED BY <2>2, <2>3, <2>4, <2>5, <2>6, PostMoves
<1>5. ASSUME NEW p \in Posts, AnswerPost(p) PROVE IntakeInv'
  <2>1. Own(p, post[p].answer.task) /\ "answered" \in Positions
    BY <1>5 DEF AnswerPost, PostAt, IntakeInv, Positions
  <2>2. UNCHANGED <<tasks, started>> /\ PostBecomes(p, "answered", post[p].answer)
    BY <1>5, <2>1, PostGone DEF AnswerPost
  <2>. QED BY <1>0, <2>1, <2>2, SameRows, PostMoves
<1>6. ASSUME NEW p \in Posts, LosePost(p) PROVE IntakeInv'
  <2>1. "lost" \in Positions
    BY DEF Positions
  <2>2. UNCHANGED <<tasks, started>> /\ PostBecomes(p, "lost", post[p].answer)
    BY <1>6, <2>1, PostGone DEF LosePost
  <2>. QED BY <1>0, <2>1, <2>2, SameRows, PostMoves
<1>7. ASSUME NEW i \in 1..Len(tasks), ReviewTask(i) PROVE IntakeInv'
  <2>1. \E s \in Statuses, x \in Results :
          \/ tasks' = [tasks EXCEPT ![i] = [@ EXCEPT !.status = s, !.result = x]]
          \/ tasks' = [tasks EXCEPT ![i].status = s]
    BY <1>7 DEF ReviewTask, Statuses, Results, Outcomes
  <2>. QED BY <1>7, <2>1, RowChanged, RowsMove DEF ReviewTask
<1>8. ASSUME NEW i \in 1..Len(tasks), ScanTask(i) PROVE IntakeInv'
  <2>1. "recovery_required" \in Statuses /\ "nothing" \in Results
    BY DEF Statuses, Results
  <2>. QED BY <1>8, <2>1, RowChanged, RowsMove DEF ScanTask
<1>9. CASE UNCHANGED intakeVars
  BY <1>9, SameRows, RowsMove DEF intakeVars
<1>. QED
  BY <1>1, <1>2, <1>3, <1>4, <1>5, <1>6, <1>7, <1>8, <1>9 DEF IntakeNext, PostStep

\* The workflow runs for one post of a request, however often it is posted.
THEOREM RunsOnce == IntakeSpec => []RunOnce
<1>. QED BY IntakeStarts, IntakeSteps, IntakeSafe, PTL DEF IntakeSpec

\* Every answer is about the task that its own actor created under its own key.
THEOREM AnswersAreOwn == IntakeSpec => []OwnAnswer
<1>. QED BY IntakeStarts, IntakeSteps, IntakeSafe, PTL DEF IntakeSpec
=============================================================================
