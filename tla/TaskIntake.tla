----------------------------- MODULE TaskIntake -----------------------------
(***************************************************************************)
(* POST /api/tasks (create_task in app/main.py).  A client that gets no    *)
(* answer posts again under the same Idempotency-Key, perhaps to another   *)
(* process and perhaps while its first post is still being served.  A post *)
(* stops at any statement: the statement raises, the client hangs up, or   *)
(* the process dies.                                                       *)
(*                                                                         *)
(*   tasks       the rows of the table, in the order of their ids; status  *)
(*               "created" is running with the workflow_state CREATED      *)
(*   post[p]     a post's position, key, task id and answer                *)
(*   started     the posts that called engine.run                          *)
(***************************************************************************)
EXTENDS Naturals, Sequences, FiniteSets

CONSTANTS Posts,
          ActorOf,      \* who posts (p.sub)
          KeysOf,       \* the Idempotency-Keys a post may carry
          NoKey         \* the header is absent

ASSUME IntakeAssumption ==
  DOMAIN ActorOf = Posts /\ DOMAIN KeysOf = Posts

VARIABLES tasks, post, started
intakeVars == <<tasks, post, started>>

\* The results a workflow stores; "refused" stands for blocked, failed and
\* recovery_required, which are alike here.
Outcomes == {"pending_approval", "completed", "refused"}
NoAnswer == [task |-> 0, says |-> "nothing", replay |-> FALSE]

IntakeInit ==
  /\ tasks = <<>> /\ started = {}
  /\ post = [p \in Posts |-> [at |-> "unsent", key |-> NoKey, task |-> 0, answer |-> NoAnswer]]

-----------------------------------------------------------------------------

PostAt(p, l) == post[p].at = l
PostGoto(p, l) == post' = [post EXCEPT ![p].at = l]
ReplyAgain(p, i, says) ==
  post' = [post EXCEPT ![p].at = "answered",
                       ![p].answer = [task |-> i, says |-> says, replay |-> TRUE]]

\* The index on (tenant_id, actor, idempotency_key); NULL keys never conflict.
Conflicting(p, k) ==
  {i \in 1..Len(tasks) : k # NoKey /\ tasks[i].key = k /\ tasks[i].actor = ActorOf[p]}

\* The row, and its id for the post.
NewTask(p, k) ==
  /\ tasks' = Append(tasks, [actor |-> ActorOf[p], key |-> k, status |-> "created", result |-> "nothing"])
  /\ post' = [post EXCEPT ![p] = [@ EXCEPT !.at = "created", !.key = k, !.task = Len(tasks) + 1]]

\* Mutant: the row is inserted whether the key is there or not.
InsertTaskAnyway(p, k) == PostAt(p, "unsent") /\ NewTask(p, k) /\ UNCHANGED started

\* INSERT ... ON CONFLICT DO NOTHING RETURNING; without a key, an INSERT.
InsertTask(p, k) ==
  /\ PostAt(p, "unsent") /\ UNCHANGED started
  /\ \/ Conflicting(p, k) = {} /\ NewTask(p, k)
     \/ /\ Conflicting(p, k) # {} /\ UNCHANGED tasks
        /\ post' = [post EXCEPT ![p] = [@ EXCEPT !.at = "lookup", !.key = k]]

\* Mutant: the key alone identifies the task.
ReplayAnyActor(p) ==
  /\ PostAt(p, "lookup") /\ UNCHANGED <<tasks, started>>
  /\ \E i \in 1..Len(tasks) : tasks[i].key = post[p].key /\ ReplyAgain(p, i, tasks[i].status)

\* The existing row: its stored result if there is one, else its status.  Rows
\* are never deleted, so that the 409 of a missing row does not occur.
Replay(p) ==
  /\ PostAt(p, "lookup") /\ UNCHANGED <<tasks, started>>
  /\ \E i \in Conflicting(p, post[p].key) :
       ReplyAgain(p, i, IF tasks[i].result # "nothing" THEN tasks[i].result ELSE tasks[i].status)

\* The audit record of the creation, then engine.run up to its first checkpoint.
RunTask(p) ==
  /\ PostAt(p, "created") /\ PostGoto(p, "running")
  /\ started' = started \union {p}
  /\ tasks' = [tasks EXCEPT ![post[p].task].status = "running"]

\* The engine's _finish, whatever the workflow came to.
FinishTask(p) ==
  /\ PostAt(p, "running") /\ UNCHANGED started
  /\ \E r \in Outcomes :
       /\ tasks' = [tasks EXCEPT ![post[p].task] = [@ EXCEPT !.status = r, !.result = r]]
       /\ post' = [post EXCEPT ![p].at = "finished",
                               ![p].answer = [task |-> post[p].task, says |-> r, replay |-> FALSE]]

\* The event, its audit record, and the answer, whatever happened to the task since.
AnswerPost(p) == PostAt(p, "finished") /\ PostGoto(p, "answered") /\ UNCHANGED <<tasks, started>>

Serving(p) == ~ PostAt(p, "unsent") /\ ~ PostAt(p, "answered") /\ ~ PostAt(p, "lost")

\* The post ends without an answer; what it wrote stays.
LosePost(p) == Serving(p) /\ PostGoto(p, "lost") /\ UNCHANGED <<tasks, started>>

\* Other requests that change the row.  An approval or a rollback stores its
\* result; a denial changes the status only.
ReviewTask(i) ==
  /\ UNCHANGED <<post, started>>
  /\ \/ /\ tasks[i].status = "pending_approval"
        /\ \E r \in {"completed", "refused"} :
             tasks' = [tasks EXCEPT ![i] = [@ EXCEPT !.status = r, !.result = r]]
     \/ /\ tasks[i].status = "pending_approval"
        /\ tasks' = [tasks EXCEPT ![i].status = "denied"]
     \/ /\ tasks[i].status = "completed"
        /\ tasks' = [tasks EXCEPT ![i] = [@ EXCEPT !.status = "rolled_back", !.result = "rolled_back"]]

\* The scan at the start of a process, on a task nobody serves any more.
ScanTask(i) ==
  /\ tasks[i].status = "created"
  /\ ~ \E p \in Posts : Serving(p) /\ post[p].task = i
  /\ tasks' = [tasks EXCEPT ![i].status = "recovery_required"]
  /\ UNCHANGED <<post, started>>

PostStep(p) ==
  Replay(p) \/ RunTask(p) \/ FinishTask(p) \/ AnswerPost(p)

IntakeNext ==
  \/ \E p \in Posts : PostStep(p) \/ LosePost(p) \/ \E k \in KeysOf[p] : InsertTask(p, k)
  \/ \E i \in 1..Len(tasks) : ReviewTask(i) \/ ScanTask(i)

IntakeSpec == IntakeInit /\ [][IntakeNext]_intakeVars

-----------------------------------------------------------------------------
(* Properties                                                              *)

SameRequest(p, q) ==
  post[p].key # NoKey /\ post[p].key = post[q].key /\ ActorOf[p] = ActorOf[q]

Results == Outcomes \union {"nothing", "rolled_back"}
Statuses == Results \union {"created", "running", "denied", "recovery_required"}

IntakeTypeOK ==
  /\ \A i \in 1..Len(tasks) : tasks[i].status \in Statuses /\ tasks[i].result \in Results
  /\ \A p \in Posts :
       /\ post[p].at \in {"unsent", "lookup", "created", "running", "finished", "answered", "lost"}
       /\ post[p].task \in 0..Len(tasks) /\ post[p].answer.task \in 0..Len(tasks)
       /\ post[p].answer.says \in Statuses
  /\ started \subseteq Posts

\* However often a request is posted under one key, to whichever process and
\* whatever becomes of the posts, the workflow runs for one of them only.
RunOnce == \A p, q \in started : SameRequest(p, q) => p = q

\* An answer, first or replayed, is about a task that its own actor created
\* under its own key, and all answers under one key are about the same task.
OwnAnswer ==
  \A p \in Posts : PostAt(p, "answered") =>
    LET i == post[p].answer.task IN
    /\ tasks[i].actor = ActorOf[p] /\ tasks[i].key = post[p].key
    /\ \A q \in Posts : PostAt(q, "answered") /\ SameRequest(p, q) => post[q].answer.task = i
=============================================================================
