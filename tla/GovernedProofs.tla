---------------------------- MODULE GovernedProofs ----------------------------
(***************************************************************************)
(* The control plane implements GovernedAction, for every number of tasks, *)
(* handlers, callers, processes and faults: a step moves one review, does  *)
(* one write, undoes one, or changes nothing the promise speaks of.        *)
(***************************************************************************)
EXTENDS ControlProofs, FiniteSetTheorems

\* One call takes effect in a step, of a key that is claimed.
LEMMA EffectMoves ==
  ASSUME EngineTypeOK, OnceInv, EngineMoves, effect' # effect
  PROVE  \E k \in Keys : effect[k] = 0 /\ exec[k] # "none" /\ effect' = [effect EXCEPT ![k] = 1]
<1>0. exec \in [Keys -> ExecStatus] /\ effect \in [Keys -> Nat]
  BY DEF EngineTypeOK
<1>1. ASSUME NEW k \in Keys, effect' = [effect EXCEPT ![k] = @ + 1], effect[k] = 0
      PROVE  effect' = [effect EXCEPT ![k] = 1]
  BY <1>0, <1>1
<1>2. ASSUME NEW h \in Handlers, EngineStep(h)
      PROVE  \E k \in Keys : effect[k] = 0 /\ exec[k] # "none" /\ effect' = [effect EXCEPT ![k] = 1]
  <2>1. PICK k \in Keys : Invokes(h, k)
    BY <1>2, LedgerShape DEF LedgerStill, Fails, Settles, Claims, RbReceipt, effectVars
  <2>2. effect[k] = 0 /\ exec[k] # "none"
    BY <1>0, <2>1 DEF Invokes, OnceInv, Touched
  <2>. QED BY <1>1, <2>1, <2>2 DEF Invokes
<1>3. ASSUME NEW k \in Keys, LateEffect(k)
      PROVE  effect[k] = 0 /\ exec[k] # "none" /\ effect' = [effect EXCEPT ![k] = 1]
  <2>1. effect[k] = 0 /\ exec[k] # "none"
    BY <1>3 DEF LateEffect, OnceInv, Touched
  <2>. QED BY <1>1, <1>3, <2>1 DEF LateEffect
<1>4. ASSUME \/ \E k \in Keys : InterruptExecution(k)
             \/ \E c \in Comps : InterruptCompensation(c)
             \/ Apart
      PROVE  FALSE
  BY <1>4 DEF InterruptExecution, InterruptCompensation, Apart, effectVars
<1>. QED BY <1>2, <1>3, <1>4 DEF EngineMoves

\* A step that has an effect leaves the approvals alone.
LEMMA EffectOrReview ==
  ASSUME CTypeOK, [CNext]_allVars
  PROVE  effect' = effect \/ approval' = approval
<1>0. EngineTypeOK
  BY DEF CTypeOK
<1>1. ASSUME NEW h \in Handlers, Talks(h) \/ Leaves(h) \/ EnterEngine(h) \/ EngineFault(h) PROVE effect' = effect
  <2>1. CASE Talks(h)
    BY <1>0, <2>1, TalksApart DEF evars
  <2>2. CASE Leaves(h)
    BY <1>0, <2>2, LeavesApart DEF Apart
  <2>3. CASE EnterEngine(h) \/ EngineFault(h)
    BY <2>3 DEF EnterEngine, EngineFault, CallExecute, CallRollback, DbError, effectVars
  <2>. QED BY <1>1, <2>1, <2>2, <2>3
<1>2. ASSUME NEW w \in Workers, ScanStep(w) PROVE effect' = effect
  BY <1>2, ScanSteps DEF evars, InterruptExecution, InterruptCompensation, effectVars
<1>3. ASSUME UNCHANGED allVars \/ AnyAge \/ \E w \in Workers : Crash(w) PROVE effect' = effect
  BY <1>3 DEF allVars, vars, AnyAge, Age, Crash, effectVars
<1>. QED BY <1>1, <1>2, <1>3, CNextSplit DEF httpVars

\* A step changes one approval at most.
LEMMA OneReview ==
  ASSUME CTypeOK, [CNext]_allVars
  PROVE  \E t \in Tasks : \A u \in Tasks \ {t} : approval'[u] = approval[u]
<1>0. /\ approval \in [Tasks -> ApprovalSet] /\ \A h \in Handlers : req[h].task \in Tasks
      /\ \E t \in Tasks : TRUE
  BY TasksAssumption DEF CTypeOK, ApprovalSet
<1>1. ASSUME NEW h \in Handlers, InsertApproval(h) \/ SettleApproval(h) \/ ClaimApproval(h)
      PROVE  \A u \in Tasks \ {req[h].task} : approval'[u] = approval[u]
  BY <1>0, <1>1 DEF InsertApproval, SettleApproval, ClaimApproval
<1>2. ASSUME NEW h \in Handlers, NEW t \in Tasks, NEW p \in Callers, Deny(h, t, p)
      PROVE  \A u \in Tasks \ {t} : approval'[u] = approval[u]
  BY <1>0, <1>2 DEF Deny
<1>. QED BY <1>0, <1>1, <1>2, ApprovalShape

\* How the review of a task moves.
LEMMA ReviewMoves ==
  ASSUME ControlInv, [CNext]_allVars, NEW t \in Tasks
  PROVE  LET from == ReviewOf(approval[t].status)
             to == ReviewOf(approval'[t].status)
         IN  \/ to = from
             \/ from = "none" /\ to = "asked"
             \/ from = "asked" /\ to \in {"granted", "denied"}
<1>1. CASE approval'[t] = approval[t]
  BY <1>1
<1>2. CASE Asks(t)
  <2>1. approval[t].status = "none" /\ approval'[t].status = "pending"
    BY <1>2 DEF Asks, ControlInv, CreateInv, Creating, Doing
  <2>. QED BY <2>1 DEF ReviewOf
<1>3. CASE Claimed(t) \/ Denied(t)
  BY <1>3 DEF Claimed, Denied, ReviewOf
<1>4. CASE Settled(t)
  <2>1. ASSUME NEW h \in Handlers, SettleApproval(h), req[h].task = t PROVE approval[t].status \in Reviewed
    BY <2>1 DEF SettleApproval, Doing, ControlInv, ReviewInv, Holds
  <2>2. approval[t].status \in Reviewed /\ approval'[t].status \in Reviewed
    BY <1>4, <2>1 DEF Settled, Reviewed
  <2>. QED BY <2>2 DEF ReviewOf, Reviewed
<1>. QED BY <1>1, <1>2, <1>3, <1>4, StatusShape DEF ControlInv

\* Only the effect of a compensation's key counts as a reversal of its task.
LEMMA ReversalsKept ==
  ASSUME EngineTypeOK, NEW k \in Keys, effect' = [effect EXCEPT ![k] = 1], NEW t \in Tasks, k[1] # t \/ k[2] = 0
  PROVE  Reversals(t)' = Reversals(t)
<1>1. ASSUME NEW i \in CompIds PROVE effect'[<<t, i>>] = effect[<<t, i>>]
  <2>1. <<t, i>> # k
    BY BoundsAssumption DEF CompIds
  <2>. QED BY <2>1, CallTypes DEF EngineTypeOK
<1>. QED BY <1>1 DEF Reversals

\* The first reversal of a task is its only one.
LEMMA FirstReversal ==
  ASSUME EngineInv, SingleInv, NEW t \in Tasks, NEW i \in CompIds, effect[<<t, i>>] = 0, exec[<<t, i>>] # "none",
         effect' = [effect EXCEPT ![<<t, i>>] = 1]
  PROVE  /\ Reversals(t) = {} /\ Reversals(t)' = {<<i, 1>>}
         /\ effect[Primary(t)] = 1
<1>0. /\ effect \in [Keys -> Nat] /\ \A j \in CompIds : <<t, j>> \in Keys /\ <<t, j>> \in Comps
      /\ i \in Nat
  BY CallTypes DEF EngineInv, EngineTypeOK, CompIds
<1>1. comp[<<t, i>>] # "none"
  BY <1>0 DEF EngineInv, ReversalInv, Fresh
<1>2. ASSUME NEW j \in CompIds, effect[<<t, j>>] >= 1 PROVE FALSE
  <2>1. exec[<<t, j>>] # "none"
    BY <1>0, <1>2 DEF EngineInv, OnceInv, Touched
  <2>2. comp[<<t, j>>] # "none"
    BY <1>0, <2>1 DEF EngineInv, ReversalInv, Fresh
  <2>3. i = j
    BY <1>1, <2>2 DEF SingleInv
  <2>. QED BY <1>0, <1>2, <2>3
<1>3. Reversals(t) = {}
  <2>1. ASSUME NEW r \in Reversals(t) PROVE FALSE
    <3>1. r[1] \in CompIds /\ r[2] \in 1 .. 2 /\ effect[<<t, r[1]>>] >= r[2]
      BY <2>1 DEF Reversals
    <3>2. effect[<<t, r[1]>>] \in Nat
      BY <1>0, <3>1
    <3>. QED BY <1>2, <3>1, <3>2
  <2>. QED BY <2>1
<1>4. ASSUME NEW r PROVE r \in Reversals(t)' <=> r = <<i, 1>>
  <2>1. \A j \in CompIds : effect'[<<t, j>>] = IF j = i THEN 1 ELSE 0
    <3>1. \A j \in CompIds : effect[<<t, j>>] = 0
      BY <1>0, <1>2
    <3>. QED BY <1>0, <3>1
  <2>2. ASSUME r \in Reversals(t)' PROVE r = <<i, 1>>
    <3>1. /\ r = <<r[1], r[2]>> /\ r[1] \in CompIds /\ r[2] \in 1 .. 2 /\ effect'[<<t, r[1]>>] >= r[2]
      BY <2>2 DEF Reversals
    <3>. QED BY <2>1, <3>1
  <2>3. <<i, 1>> \in Reversals(t)'
    BY <2>1 DEF Reversals
  <2>. QED BY <2>2, <2>3
<1>5. Reversals(t)' = {<<i, 1>>}
  BY <1>4
<1>6. effect[Primary(t)] = 1
  BY <1>0, <1>1 DEF EngineInv, ReversalInv, CompensationBacked
<1>. QED BY <1>3, <1>5, <1>6

\* The refinement mapping.
Review == [t \in Writes |-> ReviewOf(approval[t].status)]
Done == [t \in Writes |-> effect[Primary(t)]]
Undone == [t \in Writes |-> Cardinality(Reversals(t))]

\* A step of the control plane is a step of GovernedAction or a stutter.
LEMMA GovernedSimulated ==
  ASSUME ControlInv, [CNext]_allVars
  PROVE  [Governed!Next]_(Governed!vars)
<1>. USE DEF Governed!vars, Governed!Next
<1>0. /\ EngineTypeOK /\ OnceInv /\ EngineMoves /\ CTypeOK /\ EngineInv /\ SingleInv
      /\ effect \in [Keys -> Nat]
      /\ Writes \subseteq Tasks
  BY ControlMoves DEF ControlInv, EngineInv, EngineTypeOK, Writes
<1>1. CASE effect' = effect
  <2>1. PICK t \in Tasks : \A u \in Tasks \ {t} : approval'[u] = approval[u]
    BY <1>0, OneReview
  <2>2. Done' = Done /\ Undone' = Undone
    BY <1>1 DEF Done, Undone, Reversals, Writes
  <2>3. ASSUME NEW x, t \in Writes, ReviewOf(approval'[t].status) = x PROVE Review' = [Review EXCEPT ![t] = x]
    BY <1>0, <2>1, <2>3 DEF Review, Writes
  <2>4. CASE t \notin Writes \/ ReviewOf(approval'[t].status) = ReviewOf(approval[t].status)
    <3>1. Review' = Review
      BY <1>0, <2>1, <2>4 DEF Review, Writes
    <3>. QED BY <2>2, <3>1 DEF Review, Done, Undone
  <2>5. CASE t \in Writes /\ ReviewOf(approval[t].status) = "none" /\ ReviewOf(approval'[t].status) = "asked"
    <3>1. Review[t] = "none" /\ Review' = [Review EXCEPT ![t] = "asked"]
      BY <2>3, <2>5 DEF Review
    <3>2. Governed!Ask(t)
      BY <2>2, <3>1 DEF Governed!Ask, Governed!Move, Review, Done, Undone
    <3>. QED BY <2>5, <3>2
  <2>6. CASE t \in Writes /\ ReviewOf(approval[t].status) = "asked" /\ ReviewOf(approval'[t].status) = "granted"
    <3>1. Review[t] = "asked" /\ Review' = [Review EXCEPT ![t] = "granted"]
      BY <2>3, <2>6 DEF Review
    <3>2. Governed!Grant(t)
      BY <2>2, <3>1 DEF Governed!Grant, Governed!Move, Review, Done, Undone
    <3>. QED BY <2>6, <3>2
  <2>7. CASE t \in Writes /\ ReviewOf(approval[t].status) = "asked" /\ ReviewOf(approval'[t].status) = "denied"
    <3>1. Review[t] = "asked" /\ Review' = [Review EXCEPT ![t] = "denied"]
      BY <2>3, <2>7 DEF Review
    <3>2. Governed!Deny(t)
      BY <2>2, <3>1 DEF Governed!Deny, Governed!Move, Review, Done, Undone
    <3>. QED BY <2>7, <3>2
  <2>. QED BY <2>4, <2>5, <2>6, <2>7, ReviewMoves
<1>2. CASE effect' # effect
  <2>1. PICK k \in Keys : effect[k] = 0 /\ exec[k] # "none" /\ effect' = [effect EXCEPT ![k] = 1]
    BY <1>0, <1>2, EffectMoves
  <2>2. Review' = Review
    BY <1>0, <1>2, EffectOrReview DEF Review, Writes
  <2>3. PICK t \in Tasks, i \in 0 .. MaxComp : k = <<t, i>>
    BY DEF Keys
  <2>4. \A u \in Tasks \ {t} : Reversals(u)' = Reversals(u) /\ effect'[Primary(u)] = effect[Primary(u)]
    <3>1. ASSUME NEW u \in Tasks \ {t} PROVE Reversals(u)' = Reversals(u)
      BY <1>0, <2>1, <2>3, ReversalsKept
    <3>2. ASSUME NEW u \in Tasks \ {t} PROVE effect'[Primary(u)] = effect[Primary(u)]
      BY <1>0, <2>1, <2>3, CallTypes DEF Primary
    <3>. QED BY <3>1, <3>2
  <2>5. CASE t \notin Writes
    <3>1. Done' = Done /\ Undone' = Undone
      BY <1>0, <2>4, <2>5 DEF Done, Undone, Writes
    <3>. QED BY <2>2, <3>1 DEF Review, Done, Undone
  <2>6. CASE t \in Writes /\ i = 0
    <3>1. k = Primary(t) /\ Reversals(t)' = Reversals(t)
      BY <1>0, <2>1, <2>3, <2>6, ReversalsKept DEF Primary
    <3>2. Undone' = Undone
      BY <1>0, <2>4, <3>1 DEF Undone, Writes
    <3>3. Done[t] = 0 /\ Done' = [Done EXCEPT ![t] = 1]
      <4>1. Done[t] = 0 /\ effect'[Primary(t)] = 1
        BY <1>0, <2>1, <2>6, <3>1 DEF Done
      <4>. QED BY <1>0, <2>4, <2>6, <4>1 DEF Done, Writes
    <3>4. Review[t] = "granted"
      <4>1. approval[t].status \in Reviewed
        BY <1>0, <2>1, <2>6, <3>1 DEF ControlInv, ReviewInv, Writes
      <4>. QED BY <2>6, <4>1 DEF Review, ReviewOf, Reviewed
    <3>5. Governed!Do(t)
      BY <2>2, <3>2, <3>3, <3>4 DEF Governed!Do, Review, Done, Undone
    <3>. QED BY <2>6, <3>5
  <2>7. CASE t \in Writes /\ i # 0
    <3>1. i \in CompIds
      BY <2>7, BoundsAssumption DEF CompIds
    <3>2. Reversals(t) = {} /\ Reversals(t)' = {<<i, 1>>} /\ effect[Primary(t)] = 1
      BY <1>0, <2>1, <2>3, <3>1, FirstReversal
    <3>3. effect'[Primary(t)] = effect[Primary(t)]
      BY <1>0, <2>1, <2>3, <2>7, CallTypes DEF Primary
    <3>4. Done' = Done
      BY <1>0, <2>4, <3>3 DEF Done, Writes
    <3>5. Cardinality(Reversals(t)) = 0 /\ Cardinality(Reversals(t)') = 1
      BY <3>2, FS_EmptySet, FS_Singleton
    <3>6. Undone[t] = 0 /\ Undone' = [Undone EXCEPT ![t] = 1]
      <4>1. Undone[t] = 0
        BY <2>7, <3>5 DEF Undone
      <4>. QED BY <1>0, <2>4, <2>7, <3>5, <4>1 DEF Undone, Writes
    <3>7. Done[t] = 1
      BY <2>7, <3>2 DEF Done
    <3>8. Governed!Undo(t)
      BY <2>2, <3>4, <3>6, <3>7 DEF Governed!Undo, Review, Done, Undone
    <3>. QED BY <2>7, <3>8
  <2>. QED BY <2>5, <2>6, <2>7
<1>. QED BY <1>1, <1>2

\* Nothing has been asked for or done when the control plane starts.
LEMMA GovernedInit == CInit => Governed!Init
<1>1. SUFFICES ASSUME CInit PROVE Governed!Init
  OBVIOUS
<1>2. Review = [t \in Writes |-> "none"]
  BY <1>1 DEF CInit, NoApproval, Review, ReviewOf, Writes
<1>3. Done = [t \in Writes |-> 0]
  BY <1>1, CallTypes DEF CInit, EngineInit, Done, Writes
<1>4. ASSUME NEW t \in Tasks PROVE Cardinality(Reversals(t)) = 0
  <2>1. Reversals(t) = {}
    BY <1>1, CallTypes DEF CInit, EngineInit, Reversals
  <2>. QED BY <2>1, FS_EmptySet
<1>5. Undone = [t \in Writes |-> 0]
  BY <1>4 DEF Undone, Writes
<1>. QED BY <1>2, <1>3, <1>5 DEF Governed!Init, Review, Done, Undone

\* The control plane keeps its promise about governed writes: nothing is done
\* that was not asked for and granted, once, and what is undone was done.
THEOREM GovernedImplemented == CSpec => GovernedSpec
BY GovernedInit, GovernedSimulated, ControlInvariant, PTL DEF CSpec, GovernedSpec, Governed!Spec

=============================================================================
