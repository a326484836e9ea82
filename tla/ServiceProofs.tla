--------------------------- MODULE ServiceProofs ----------------------------
(***************************************************************************)
(* Proofs about the services around the engine, each on its own: policy    *)
(* and its review, the price tool, the event bus, retrieval and the pool.  *)
(***************************************************************************)
EXTENDS PolicyReview, PriceTool, EventBus, Retrieval, TenantPool, Integers, SequenceTheorems, TLAPS

-----------------------------------------------------------------------------
(* Policy.  The sets are finite, but the proofs say why it holds.          *)

\* What the review is about: a request that was made, the decision one of the
\* engines took on it, which asked for a review, and the decision an authorized
\* reviewer was given.
Requested == [action: TOOLS \union {"simulate_timeout"}, by: Principals, inputRisk: InputRisks]
PolicyInv ==
  /\ (request = NoRequest /\ decision = Refuse) \/ request \in Requested
  /\ request # NoRequest =>
       \E e \in Engines : decision = Evaluate(e, request.action, request.by, request.inputRisk)
  /\ review = NoReview \/
       /\ request \in Requested /\ decision.requires_approval
       /\ review.by \in Principals /\ review.engine \in Engines
       /\ review.verdict = "authorized" =>
            ApprovalAuthorized(Evaluate(review.engine, request.action, review.by, review.inputRisk),
                               review.by)

\* No tool is called "none".
LEMMA NoneIsNoTool == NoRequest \notin Requested
BY DEF NoRequest, Requested, TOOLS, LowRisk, MediumRisk, HighRisk

\* The ranks of the roles.
LEMMA Ranks ==
  /\ ROLE_LEVEL["viewer"] = 0 /\ ROLE_LEVEL["operator"] = 1
  /\ ROLE_LEVEL["admin"] = 2 /\ ROLE_LEVEL["executive"] = 3
BY DEF ROLE_LEVEL

\* The rank of a caller, whatever scopes the token carries.
LEMMA PrincipalRank ==
  ASSUME NEW p \in Principals
  PROVE  p.role \in Roles /\ ROLE_LEVEL[p.role] \in 0 .. 3
BY Ranks DEF Principals, Roles

\* The levels of the rego rules, and the risk of a tool.
LEMMA RiskShape ==
  /\ MinLevel["low"] = 0 /\ MinLevel["medium"] = 1 /\ MinLevel["high"] = 1
  /\ ApprovalTier["low"] = "none" /\ ApprovalTier["medium"] = "team"
  /\ ApprovalTier["high"] = "executive_mfa"
  /\ \A a \in MediumRisk : ActionRisk(a) = "medium"
  /\ \A a \in HighRisk : ActionRisk(a) = "high"
  /\ \A a \in LowRisk : ActionRisk(a) = "low"
  /\ \A a : ActionRisk(a) \in InputRisks
BY DEF MinLevel, ApprovalTier, ActionRisk, LowRisk, MediumRisk, HighRisk, InputRisks

\* On a side effect both rule sets ask for an operator and an untainted input,
\* and require an approval of the tool's tier.
LEMMA WritesAlike ==
  ASSUME NEW a \in SideEffectTools, NEW p \in Principals, NEW risk
  PROVE  LocalDecision(a, p, risk) = OpaDecision(a, p, risk)
<1>1. a \in TOOLS /\ YamlMinimumRole(a) = "operator"
  BY DEF SideEffectTools, TOOLS, YamlMinimumRole
<1>2. ActionRisk(a) # "low" /\ MinLevel[ActionRisk(a)] = 1
  BY RiskShape DEF SideEffectTools
<1>3. ROLE_LEVEL[p.role] \in 0 .. 3 /\ ROLE_LEVEL["operator"] = 1
  BY PrincipalRank, Ranks
<1>4. (ROLE_LEVEL[p.role] < ROLE_LEVEL[YamlMinimumRole(a)])
        <=> ~ (ROLE_LEVEL[p.role] >= MinLevel[ActionRisk(a)])
  BY <1>1, <1>2, <1>3
<1>. QED BY <1>1, <1>2, <1>4 DEF LocalDecision, OpaDecision

\* On a read the local rules ask for at least the rank the OPA rules ask for.
LEMMA ReadsWithin ==
  ASSUME NEW a \in LowRisk, NEW p \in Principals, NEW risk
  PROVE  /\ LocalDecision(a, p, risk) \in {Permit, Refuse}
         /\ OpaDecision(a, p, risk) = Permit
<1>1. a \in TOOLS /\ ActionRisk(a) = "low" /\ Granted(ActionRisk(a)) = Permit
  BY RiskShape DEF TOOLS, Granted
<1>2. ROLE_LEVEL[p.role] >= MinLevel[ActionRisk(a)]
  BY <1>1, PrincipalRank, RiskShape
<1>. QED BY <1>1, <1>2 DEF LocalDecision, OpaDecision

\* A decision on a side effect is a refusal, or asks an operator at least, on an
\* untainted input, for the tier of its risk.
LEMMA WriteDecision ==
  ASSUME NEW a \in SideEffectTools, NEW p \in Principals, NEW risk, NEW e \in Engines
  PROVE  /\ Evaluate(e, a, p, risk) \in {Refuse, NeedsApproval(ApprovalTier[ActionRisk(a)])}
         /\ Evaluate(e, a, p, risk) # Refuse =>
              risk = "low" /\ e # "opa_down" /\ ROLE_LEVEL[p.role] >= ROLE_LEVEL["operator"]
<1>1. ActionRisk(a) # "low" /\ Granted(ActionRisk(a)) = NeedsApproval(ApprovalTier[ActionRisk(a)])
  BY RiskShape DEF SideEffectTools, Granted
<1>2. ROLE_LEVEL["operator"] = 1 /\ MinLevel[ActionRisk(a)] = 1
  BY Ranks, RiskShape DEF SideEffectTools
<1>3. /\ OpaDecision(a, p, risk) \in {Refuse, NeedsApproval(ApprovalTier[ActionRisk(a)])}
      /\ OpaDecision(a, p, risk) # Refuse => risk = "low" /\ ROLE_LEVEL[p.role] >= ROLE_LEVEL["operator"]
  BY <1>1, <1>2 DEF OpaDecision
<1>. QED BY <1>3, WritesAlike DEF Evaluate, Engines

\* The timeout probe is no tool and is refused by both engines.
LEMMA ProbeRefused ==
  ASSUME NEW p, NEW risk, NEW e \in Engines
  PROVE  /\ LocalDecision("simulate_timeout", p, risk) = Refuse
         /\ OpaDecision("simulate_timeout", p, risk) = Refuse
         /\ Evaluate(e, "simulate_timeout", p, risk) = Refuse
<1>1. "simulate_timeout" \notin TOOLS
  BY DEF TOOLS, LowRisk, MediumRisk, HighRisk
<1>. QED BY <1>1 DEF Evaluate, LocalDecision, OpaDecision

\* Every step keeps the invariant of requests and reviews.
LEMMA PolicyStep ==
  ASSUME PolicyInv, [Next]_vars
  PROVE  PolicyInv'
<1>1. CASE UNCHANGED vars
  BY <1>1 DEF PolicyInv, vars
<1>2. CASE Done
  BY <1>2 DEF Done, PolicyInv
<1>3. ASSUME NEW a \in TOOLS \union {"simulate_timeout"}, NEW p \in Principals,
             NEW risk \in InputRisks, NEW e \in Engines, Request(a, p, risk, e)
      PROVE  PolicyInv'
  <2>1. request' = [action |-> a, by |-> p, inputRisk |-> risk] /\ request' \in Requested
    BY <1>3 DEF Request, Requested
  <2>2. decision' = Evaluate(e, request'.action, request'.by, request'.inputRisk)
    BY <1>3, <2>1 DEF Request
  <2>3. review' = NoReview
    BY <1>3, NoneIsNoTool DEF Request, PolicyInv
  <2>. QED BY <2>1, <2>2, <2>3 DEF PolicyInv
<1>4. ASSUME NEW p \in Principals, NEW risk \in InputRisks, NEW e \in Engines, Review(p, risk, e)
      PROVE  PolicyInv'
  <2>1. UNCHANGED <<request, decision>> /\ decision.requires_approval
    BY <1>4 DEF Review
  <2>2. request \in Requested
    <3>. SUFFICES ASSUME request = NoRequest PROVE FALSE
      BY DEF PolicyInv
    <3>. QED BY <2>1, NoneIsNoTool DEF PolicyInv, Refuse, Decision
  <2>3. review'.by = p /\ review'.engine = e /\ review'.inputRisk = risk
    BY <1>4 DEF Review
  <2>4. review'.verdict = "authorized" =>
          ApprovalAuthorized(Evaluate(e, request.action, p, risk), p)
    BY <1>4 DEF Review
  <2>. QED BY <2>1, <2>2, <2>3, <2>4 DEF PolicyInv
<1>. QED BY <1>1, <1>2, <1>3, <1>4 DEF Next


\* It is an invariant of requests and reviews.
LEMMA PolicyAlways == Spec => []PolicyInv
<1>1. Init => PolicyInv
  BY DEF Init, PolicyInv
<1>. QED BY <1>1, PolicyStep, PTL DEF Spec

\* Whatever the caller and the input, the local rules and the OPA rules give
\* the same decision on every requested write: policies/policy.yaml and
\* opa/policy.rego agree where it matters.
LEMMA EnginesAgree == Spec => []EnginesAgreeOnWrites
<1>1. ASSUME PolicyInv PROVE EnginesAgreeOnWrites
  <2>. SUFFICES ASSUME request.action \in SideEffectTools
       PROVE  LocalDecision(request.action, request.by, request.inputRisk)
                = OpaDecision(request.action, request.by, request.inputRisk)
    BY DEF EnginesAgreeOnWrites
  <2>1. request # NoRequest
    BY DEF NoRequest, SideEffectTools, MediumRisk, HighRisk
  <2>. QED BY <1>1, <2>1, WritesAlike DEF PolicyInv, Requested
<1>. QED BY <1>1, PolicyAlways, PTL

\* What the local rules of app/policy.py permit, or send to an approval, OPA
\* permits or sends there too: without OPA nobody gets more.
LEMMA LocalStaysWithin == Spec => []LocalWithinOpa
<1>1. ASSUME PolicyInv PROVE LocalWithinOpa
  <2>. DEFINE l == LocalDecision(request.action, request.by, request.inputRisk)
              o == OpaDecision(request.action, request.by, request.inputRisk)
  <2>. SUFFICES ASSUME request \in Requested
       PROVE  (l.allowed => o.allowed) /\ (l.requires_approval => o.requires_approval)
    BY <1>1 DEF LocalWithinOpa, PolicyInv
  <2>0. request.by \in Principals /\ request.action \in TOOLS \union {"simulate_timeout"}
    BY DEF Requested
  <2>1. CASE request.action \in SideEffectTools
    BY <2>0, <2>1, WritesAlike
  <2>2. CASE request.action \in LowRisk
    <3>1. o = Permit /\ l \in {Permit, Refuse}
      BY <2>0, <2>2, ReadsWithin
    <3>. QED BY <3>1 DEF Permit, Refuse, Decision
  <2>3. CASE request.action = "simulate_timeout"
    <3>1. l = Refuse
      BY <2>3, ProbeRefused DEF Engines
    <3>. QED BY <3>1 DEF Refuse, Decision
  <2>. QED BY <2>0, <2>1, <2>2, <2>3 DEF TOOLS, SideEffectTools
<1>. QED BY <1>1, PolicyAlways, PTL

\* Switching OPA on or off opens nothing and closes no write: the rule sets of
\* policies/policy.yaml and opa/policy.rego decide every requested write alike,
\* and the local one never permits what OPA refuses.
THEOREM RuleSetsMatch == Spec => []RuleSetsAgree
BY EnginesAgree, LocalStaysWithin, PTL DEF RuleSetsAgree

\* A review is asked for writes only: a read is permitted or refused, and the
\* timeout probe refused.
LEMMA ReviewedIsWrite ==
  ASSUME NEW q \in Requested, NEW e \in Engines,
         Evaluate(e, q.action, q.by, q.inputRisk).requires_approval
  PROVE  q.action \in SideEffectTools /\ Evaluate(e, q.action, q.by, q.inputRisk) # Refuse
<1>. DEFINE d == Evaluate(e, q.action, q.by, q.inputRisk)
<1>1. q.action \in TOOLS \union {"simulate_timeout"} /\ q.by \in Principals
  BY DEF Requested
<1>2. d # Refuse /\ d # Permit
  BY DEF Refuse, Permit, Decision
<1>3. q.action # "simulate_timeout"
  BY <1>2, ProbeRefused
<1>4. q.action \notin LowRisk
  BY <1>1, <1>2, ReadsWithin DEF Evaluate
<1>. QED BY <1>1, <1>2, <1>3, <1>4 DEF TOOLS, SideEffectTools

\* approval_authorized asks for the scope of the tier that the decision names,
\* and for the higher tier for the MFA claim; that is all it looks at.
LEMMA AuthorizedScope ==
  ASSUME NEW p, NEW d, ApprovalAuthorized(d, p)
  PROVE  /\ d.approval_tier = "team" => "approve:team" \in p.scopes
         /\ d.approval_tier = "executive_mfa" => "approve:executive" \in p.scopes /\ p.mfa
BY DEF ApprovalAuthorized

\* main.py:approve lets nobody review without the scope, and the MFA claim, that
\* the tool's risk calls for, no viewer, nobody at all an input with injection
\* signals, and nobody while OPA does not answer; whatever scopes tokens carry.
THEOREM ReviewersHaveTheScope == Spec => []AuthorizedByScope
<1>1. ASSUME PolicyInv PROVE AuthorizedByScope
  <2>. DEFINE a == request.action
              p == review.by
              d == Evaluate(review.engine, a, p, review.inputRisk)
  <2>. SUFFICES ASSUME review.verdict = "authorized"
       PROVE  /\ a \in SideEffectTools /\ review.engine # "opa_down"
              /\ \A step \in {request, review} :
                   step.inputRisk = "low" /\ ROLE_LEVEL[step.by.role] >= ROLE_LEVEL["operator"]
              /\ a \in MediumRisk => "approve:team" \in p.scopes
              /\ a \in HighRisk => "approve:executive" \in p.scopes /\ p.mfa
    BY DEF AuthorizedByScope
  <2>1. review # NoReview
    BY DEF NoReview
  <2>2. /\ request \in Requested /\ p \in Principals /\ review.engine \in Engines
        /\ decision.requires_approval /\ ApprovalAuthorized(d, p)
    BY <1>1, <2>1 DEF PolicyInv
  <2>3. PICK e \in Engines : decision = Evaluate(e, a, request.by, request.inputRisk)
    BY <1>1, <2>2, NoneIsNoTool DEF PolicyInv
  <2>4. a \in SideEffectTools /\ decision # Refuse
    BY <2>2, <2>3, ReviewedIsWrite
  <2>5. request.inputRisk = "low" /\ ROLE_LEVEL[request.by.role] >= ROLE_LEVEL["operator"]
    BY <2>2, <2>3, <2>4, WriteDecision DEF Requested
  <2>6. d # Refuse
    BY <2>2 DEF ApprovalAuthorized, Refuse, Decision
  <2>7. /\ d = NeedsApproval(ApprovalTier[ActionRisk(a)])
        /\ review.inputRisk = "low" /\ review.engine # "opa_down"
        /\ ROLE_LEVEL[p.role] >= ROLE_LEVEL["operator"]
    BY <2>2, <2>4, <2>6, WriteDecision
  <2>8. d.approval_tier = ApprovalTier[ActionRisk(a)]
    BY <2>7 DEF NeedsApproval, Decision
  <2>9. /\ a \in MediumRisk => "approve:team" \in p.scopes
        /\ a \in HighRisk => "approve:executive" \in p.scopes /\ p.mfa
    BY <2>2, <2>8, AuthorizedScope, RiskShape
  <2>. QED BY <2>4, <2>5, <2>7, <2>9
<1>. QED BY <1>1, PolicyAlways, PTL

\* The decisions from which Execution and ControlPlane draw are all that
\* either engine can give.
THEOREM AnswersSuffice == Spec => []AnswersCover
<1>1. ASSUME PolicyInv PROVE AnswersCover
  <2>. SUFFICES ASSUME request # NoRequest PROVE decision \in Answers(request.action)
    BY DEF AnswersCover
  <2>1. request \in Requested
    BY <1>1 DEF PolicyInv
  <2>2. PICK e \in Engines : decision = Evaluate(e, request.action, request.by, request.inputRisk)
    BY <1>1 DEF PolicyInv
  <2>3. request.by \in Principals /\ request.action \in TOOLS \union {"simulate_timeout"}
    BY <2>1 DEF Requested
  <2>4. CASE request.action \in SideEffectTools
    <3>1. ApprovalTier[ActionRisk(request.action)] \in {"team", "executive_mfa"}
      BY <2>4, RiskShape DEF SideEffectTools
    <3>2. decision \in {Refuse, NeedsApproval(ApprovalTier[ActionRisk(request.action)])}
      BY <2>2, <2>3, <2>4, WriteDecision
    <3>. QED BY <2>4, <3>1, <3>2 DEF Answers
  <2>5. CASE request.action \in LowRisk
    <3>1. decision \in {Permit, Refuse}
      BY <2>2, <2>3, <2>5, ReadsWithin DEF Evaluate
    <3>2. request.action \notin SideEffectTools
      BY <2>5 DEF LowRisk, SideEffectTools, MediumRisk, HighRisk
    <3>. QED BY <3>1, <3>2 DEF Answers
  <2>6. CASE request.action = "simulate_timeout"
    <3>1. decision = Refuse
      BY <2>2, <2>6, ProbeRefused
    <3>. QED BY <3>1 DEF Answers
  <2>. QED BY <2>3, <2>4, <2>5, <2>6 DEF TOOLS, SideEffectTools
<1>. QED BY <1>1, PolicyAlways, PTL

-----------------------------------------------------------------------------
(* The price tool.                                                         *)

\* A change that nothing came into has read the price it replaces, and its
\* compensation, and then its reversal, holds the price it has replaced.
PriceInv ==
  /\ PriceTypeOK
  /\ \A h \in Changes : alone[h] =>
       /\ ChangeAt(h, "write") => change[h].old = price
       /\ ChangeAt(h, "changed") => change[h].undo = before[h]
       /\ ChangeAt(h, "reverse") => change[h].new = before[h]

\* One change at a time: the others keep their locals, and after an UPDATE of
\* h they are not alone.
LEMMA PriceStep ==
  ASSUME PriceInv, [PriceNext]_priceVars
  PROVE  PriceInv'
<1>. DEFINE Change == [at: {"idle", "write", "not_changed", "changed", "unknown", "reverse", "reversed"},
                       new: Prices, old: Prices, undo: Prices]
<1>. USE DEF PriceInv, PriceTypeOK, ChangeAt
<1>1. CASE UNCHANGED priceVars
  BY <1>1 DEF priceVars
<1>2. ASSUME NEW h \in Changes, NEW p \in Prices, ReadPrice(h, p) PROVE PriceInv'
  <2>1. change[h] \in Change
    OBVIOUS
  <2>2. [at |-> "write", new |-> p, old |-> price, undo |-> change[h].undo] \in Change
    BY <2>1
  <2>. QED BY <1>2, <2>2 DEF ReadPrice
<1>3. ASSUME NEW h \in Changes, SkuNotFound(h) PROVE PriceInv'
  BY <1>3 DEF SkuNotFound
<1>4. ASSUME NEW h \in Changes, WritePrice(h) PROVE PriceInv'
  BY <1>4 DEF WritePrice, Update
<1>5. ASSUME NEW h \in Changes, WriteRaises(h) PROVE PriceInv'
  BY <1>5 DEF WriteRaises, Update
<1>6. ASSUME NEW h \in Changes, ReverseReads(h) PROVE PriceInv'
  BY <1>6 DEF ReverseReads
<1>7. ASSUME NEW h \in Changes, ReverseWrites(h) PROVE PriceInv'
  BY <1>7 DEF ReverseWrites, Update
<1>. QED BY <1>1, <1>2, <1>3, <1>4, <1>5, <1>6, <1>7 DEF PriceNext

\* The initial states satisfy the invariant.
LEMMA PriceStart == PriceInit => PriceInv
BY PriceAssumption DEF PriceInit, PriceInv, PriceTypeOK, ChangeAt

\* tools.py:change_product_price: the rollback of a change restores the price
\* that its UPDATE replaced, unless another UPDATE came in between.
THEOREM ReversalsRestore == PriceSpec => ReversalRestores
<1>1. ASSUME PriceInv, [PriceNext]_priceVars
      PROVE  [\A h \in Changes : alone[h] /\ ChangeAt(h, "reverse") /\ change'[h].at = "reversed"
                => price' = before[h]]_priceVars
  <2>. SUFFICES ASSUME NEW h \in Changes, PriceNext,
                       alone[h], ChangeAt(h, "reverse"), change'[h].at = "reversed"
       PROVE  price' = before[h]
    BY <1>1
  <2>1. ReverseWrites(h)
    BY <1>1 DEF PriceNext, ReadPrice, SkuNotFound, WritePrice, WriteRaises, ReverseReads, ReverseWrites,
                PriceInv, PriceTypeOK, ChangeAt
  <2>. QED BY <1>1, <2>1 DEF ReverseWrites, Update, PriceInv
<1>. QED BY PriceStart, <1>1, PriceStep, PTL DEF PriceSpec, ReversalRestores

-----------------------------------------------------------------------------
(* The event bus.                                                          *)

EventsOf == Seq(BusTenants \X Nat)

\* What GapFree rests on: a stream is subscribed for its own tenant only, and
\* one that has not begun has neither delivered nor queued anything.
BusInv ==
  /\ queues \in [BusTenants -> SUBSET Streams] /\ published \in [BusTenants -> Nat]
  /\ stream \in [Streams -> {"new", "open", "gone", "closed"}] /\ joined \in [Streams -> Nat]
  /\ queue \in [Streams -> EventsOf] /\ delivered \in [Streams -> EventsOf]
  /\ \A t \in BusTenants : \A s \in queues[t] : TenantOf[s] = t
  /\ \A s \in Streams : stream[s] = "new" => queue[s] = <<>> /\ delivered[s] = <<>>
  /\ \A s \in Streams : Len(queue[s]) <= QueueSize
  /\ GapFree

\* The events that a stream has delivered and still holds.
Seen(s) == delivered[s] \o queue[s]
NoGap(s) == \A i \in 1..Len(Seen(s)) : Seen(s)[i] = <<TenantOf[s], joined[s] + i>>
UpToDate(s) ==
  s \in queues[TenantOf[s]] => stream[s] \in {"open", "gone"} /\ joined[s] + Len(Seen(s)) = published[TenantOf[s]]

\* A stream that is left alone, by a step that publishes nothing it should get,
\* still has no gap.
LEMMA StreamKept ==
  ASSUME BusInv, NEW s \in Streams,
         UNCHANGED <<delivered[s], queue[s], joined[s]>>,
         s \in queues'[TenantOf[s]] =>
           /\ s \in queues[TenantOf[s]] /\ stream'[s] \in {"open", "gone"}
           /\ published'[TenantOf[s]] = published[TenantOf[s]]
  PROVE  NoGap(s)' /\ UpToDate(s)'
<1>1. NoGap(s) /\ UpToDate(s)
  BY DEF BusInv, GapFree, NoGap, UpToDate, Seen
<1>2. Seen(s)' = Seen(s)
  BY DEF Seen
<1>. QED BY <1>1, <1>2 DEF NoGap, UpToDate

\* Appending the next event to the queue of a stream leaves no gap.
LEMMA StreamExtended ==
  ASSUME BusInv, NEW s \in Streams, s \in queues[TenantOf[s]],
         UNCHANGED <<delivered[s], joined[s], stream[s]>>,
         queue'[s] = Append(queue[s], NextEvent(TenantOf[s])),
         published'[TenantOf[s]] = published[TenantOf[s]] + 1
  PROVE  NoGap(s)' /\ UpToDate(s)'
<1>. DEFINE t == TenantOf[s]
            old == delivered[s] \o queue[s]
            new == delivered[s] \o Append(queue[s], <<t, published[t] + 1>>)
<1>1. t \in BusTenants /\ published[t] \in Nat /\ joined[s] \in Nat
  BY BusAssumption DEF BusInv
<1>2. delivered[s] \in EventsOf /\ queue[s] \in EventsOf /\ <<t, published[t] + 1>> \in BusTenants \X Nat
  BY <1>1 DEF BusInv
<1>3. /\ Len(new) = Len(old) + 1 /\ Len(old) \in Nat
      /\ new[Len(old) + 1] = <<t, published[t] + 1>>
      /\ \A i \in 1..Len(old) : new[i] = old[i]
  <2>. DEFINE d == delivered[s]
              q == queue[s]
              e == <<t, published[t] + 1>>
  <2>1. /\ d \in Seq(BusTenants \X Nat) /\ q \in Seq(BusTenants \X Nat)
        /\ e \in BusTenants \X Nat
    BY <1>2 DEF EventsOf
  <2>. HIDE DEF d, q, e
  <2>2. /\ Append(q, e) \in Seq(BusTenants \X Nat) /\ Len(Append(q, e)) = Len(q) + 1
        /\ \A i \in 1..Len(q) : Append(q, e)[i] = q[i]
        /\ Append(q, e)[Len(q) + 1] = e
    BY <2>1, AppendProperties
  <2>3. /\ Len(d \o q) = Len(d) + Len(q) /\ Len(d) \in Nat /\ Len(q) \in Nat
        /\ \A i \in 1..(Len(d) + Len(q)) : (d \o q)[i] = IF i <= Len(d) THEN d[i] ELSE q[i - Len(d)]
    BY <2>1, ConcatProperties
  <2>. DEFINE r == Append(q, e)
  <2>. HIDE DEF r
  <2>4. r \in Seq(BusTenants \X Nat) /\ Len(r) = Len(q) + 1 /\ r[Len(q) + 1] = e
        /\ \A i \in 1..Len(q) : r[i] = q[i]
    BY <2>2 DEF r
  <2>5. /\ Len(d \o r) = Len(d) + Len(r)
        /\ \A i \in 1..(Len(d) + Len(r)) : (d \o r)[i] = IF i <= Len(d) THEN d[i] ELSE r[i - Len(d)]
    BY <2>1, <2>4, ConcatProperties
  <2>6. Len(d \o r) = Len(d \o q) + 1 /\ Len(d \o q) \in Nat
    BY <2>3, <2>4, <2>5
  <2>7. (d \o r)[Len(d \o q) + 1] = e
    <3>1. Len(d \o q) + 1 \in 1..(Len(d) + Len(r)) /\ ~ (Len(d \o q) + 1 <= Len(d))
          /\ Len(d \o q) + 1 - Len(d) = Len(q) + 1
      BY <2>3, <2>4
    <3>. QED BY <2>4, <2>5, <3>1
  <2>8. ASSUME NEW i \in 1..Len(d \o q) PROVE (d \o r)[i] = (d \o q)[i]
    <3>0. i \in 1..(Len(d) + Len(q)) /\ i \in 1..(Len(d) + Len(r))
      BY <2>3, <2>4
    <3>1. CASE i <= Len(d)
      BY <2>3, <2>5, <3>0, <3>1
    <3>2. CASE ~ (i <= Len(d))
      <4>1. i - Len(d) \in 1..Len(q)
        BY <2>3, <3>0, <3>2
      <4>. QED BY <2>3, <2>4, <2>5, <3>0, <3>2, <4>1
    <3>. QED BY <3>1, <3>2
  <2>. QED BY <2>6, <2>7, <2>8 DEF d, q, e, r
<1>4. /\ \A i \in 1..Len(old) : old[i] = <<t, joined[s] + i>>
      /\ stream[s] \in {"open", "gone"} /\ joined[s] + Len(old) = published[t]
  BY DEF BusInv, GapFree
<1>5. Seen(s)' = new
  BY DEF Seen, NextEvent
<1>. HIDE DEF new, old
<1>6. \A i \in 1..Len(new) : new[i] = <<t, joined[s] + i>>
  <2>. SUFFICES ASSUME NEW i \in 1..Len(new) PROVE new[i] = <<t, joined[s] + i>>
    OBVIOUS
  <2>1. CASE i \in 1..Len(old)
    BY <1>3, <1>4, <2>1
  <2>2. CASE i = Len(old) + 1
    <3>1. joined[s] + i = published[t] + 1
      BY <1>1, <1>3, <1>4, <2>2
    <3>. QED BY <1>3, <2>2, <3>1
  <2>. QED BY <1>3, <2>1, <2>2
<1>7. joined[s] + Len(new) = published[t] + 1
  <2>1. Len(new) = Len(old) + 1 /\ Len(old) \in Nat
    BY <1>3
  <2>2. joined[s] + Len(old) = published[t]
    BY <1>4
  <2>. HIDE DEF t
  <2>3. joined[s] + (Len(old) + 1) = (joined[s] + Len(old)) + 1
    <3>1. \A x, y \in Nat : x + (y + 1) = (x + y) + 1
      OBVIOUS
    <3>. QED BY <1>1, <2>1, <3>1
  <2>. QED BY <2>1, <2>2, <2>3
<1>. QED BY <1>4, <1>5, <1>6, <1>7 DEF NoGap, UpToDate

\* What a stream has seen does not depend on how far it is delivered.
LEMMA DeliveredNext ==
  ASSUME NEW d \in EventsOf, NEW q \in EventsOf, q # <<>>
  PROVE  /\ Append(d, Head(q)) \o Tail(q) = d \o q
         /\ Append(d, Head(q)) \in EventsOf /\ Tail(q) \in EventsOf /\ Len(Tail(q)) < Len(q)
<1>1. Append(d, Head(q)) \in EventsOf /\ Tail(q) \in EventsOf /\ Len(Tail(q)) = Len(q) - 1
  BY DEF EventsOf
<1>. QED BY <1>1 DEF EventsOf

\* What holds of every stream is the property.
LEMMA GapFreeByStream == GapFree <=> \A s \in Streams : NoGap(s) /\ UpToDate(s)
BY DEF GapFree, NoGap, UpToDate, Seen

\* Every step keeps the invariant of the bus.
LEMMA BusStep ==
  ASSUME BusInv, [BusNext]_busVars
  PROVE  BusInv'
<1>. USE BusAssumption
<1>0. \A s \in Streams : NoGap(s) /\ UpToDate(s)
  BY GapFreeByStream DEF BusInv
<1>g. ASSUME \A s \in Streams : NoGap(s)' /\ UpToDate(s)' PROVE GapFree'
  BY <1>g DEF GapFree, NoGap, UpToDate, Seen
<1>1. CASE UNCHANGED busVars
  BY <1>1 DEF BusInv, GapFree, busVars
<1>2. ASSUME NEW s \in Streams, Subscribe(s) PROVE BusInv'
  <2>1. queue[s] = <<>> /\ delivered[s] = <<>> /\ TenantOf[s] \in BusTenants
    BY <1>2 DEF Subscribe, BusInv
  <2>2. NoGap(s)' /\ UpToDate(s)'
    <3>1. Seen(s)' = <<>> /\ joined'[s] = published[TenantOf[s]] /\ stream'[s] = "open"
      BY <1>2, <2>1 DEF Subscribe, BusInv, Seen
    <3>2. published[TenantOf[s]] \in Nat /\ published' = published
      BY <1>2, <2>1 DEF Subscribe, BusInv
    <3>. QED BY <3>1, <3>2 DEF NoGap, UpToDate
  <2>3. ASSUME NEW z \in Streams \ {s} PROVE NoGap(z)' /\ UpToDate(z)'
    <3>1. /\ z \in queues'[TenantOf[z]] => z \in queues[TenantOf[z]]
          /\ stream'[z] = stream[z] /\ joined'[z] = joined[z]
      BY <1>2 DEF Subscribe, BusInv
    <3>. QED BY <1>0, <1>2, <3>1, StreamKept DEF Subscribe, UpToDate
  <2>4. GapFree'
    BY <1>g, <2>2, <2>3
  <2>5. queues' \in [BusTenants -> SUBSET Streams] /\ joined' \in [Streams -> Nat]
    BY <1>2, <2>1 DEF Subscribe, BusInv
  <2>. QED BY <1>2, <2>1, <2>4, <2>5 DEF Subscribe, BusInv
<1>3. ASSUME NEW s \in Streams, Deliver(s) PROVE BusInv'
  <2>1. /\ Append(delivered[s], Head(queue[s])) \o Tail(queue[s]) = delivered[s] \o queue[s]
        /\ Append(delivered[s], Head(queue[s])) \in EventsOf
        /\ Tail(queue[s]) \in EventsOf /\ Len(Tail(queue[s])) < Len(queue[s])
    BY <1>3, DeliveredNext DEF Deliver, BusInv
  <2>2. Seen(s)' = Seen(s)
    BY <1>3, <2>1 DEF Deliver, BusInv, Seen
  <2>3. NoGap(s)' /\ UpToDate(s)'
    BY <1>0, <1>3, <2>2 DEF Deliver, NoGap, UpToDate
  <2>4. ASSUME NEW z \in Streams \ {s} PROVE NoGap(z)' /\ UpToDate(z)'
    <3>1. queue'[z] = queue[z] /\ delivered'[z] = delivered[z]
      BY <1>3 DEF Deliver, BusInv
    <3>. QED BY <1>0, <1>3, <3>1, StreamKept DEF Deliver, UpToDate
  <2>5. GapFree'
    BY <1>g, <2>3, <2>4
  <2>6. queue' \in [Streams -> EventsOf] /\ delivered' \in [Streams -> EventsOf]
    BY <1>3, <2>1 DEF Deliver, BusInv
  <2>7. \A z \in Streams : Len(queue'[z]) <= QueueSize
    <3>1. Len(queue[s]) \in Nat /\ Len(Tail(queue[s])) \in Nat /\ Len(queue[s]) <= QueueSize
      BY <2>1 DEF BusInv, EventsOf
    <3>2. \A z \in Streams : queue'[z] = IF z = s THEN Tail(queue[s]) ELSE queue[z]
      BY <1>3 DEF Deliver, BusInv
    <3>3. \A z \in Streams : Len(queue[z]) <= QueueSize
      BY DEF BusInv
    <3>4. Len(Tail(queue[s])) <= QueueSize
      BY <2>1, <3>1
    <3>. QED BY <3>2, <3>3, <3>4
  <2>. QED BY <1>3, <2>5, <2>6, <2>7 DEF Deliver, BusInv
<1>4. ASSUME NEW s \in Streams, Hangup(s) PROVE BusInv'
  <2>1. \A z \in Streams : stream[z] \in {"open", "gone"} => stream'[z] \in {"open", "gone"}
    BY <1>4 DEF Hangup, BusInv
  <2>2. \A z \in Streams : NoGap(z)' /\ UpToDate(z)'
    BY <1>0, <1>4, <2>1, StreamKept DEF Hangup, UpToDate
  <2>. QED BY <1>4, <1>g, <2>2 DEF Hangup, BusInv
<1>5. ASSUME NEW s \in Streams, Close(s) PROVE BusInv'
  <2>1. \A z \in Streams : queue'[z] = IF z = s THEN <<>> ELSE queue[z]
    BY <1>5 DEF Close, BusInv
  <2>2. \A t \in BusTenants : queues'[t] \subseteq queues[t]
    BY <1>5 DEF Close, BusInv
  <2>3. s \notin queues'[TenantOf[s]]
    BY <1>5 DEF Close, BusInv
  <2>4. NoGap(s)'
    <3>1. delivered[s] \in EventsOf /\ queue[s] \in EventsOf
      BY DEF BusInv
    <3>2. Seen(s)' = delivered[s]
      BY <1>5, <2>1, <3>1, ConcatEmptySeq DEF Close, Seen, EventsOf
    <3>3. /\ Len(delivered[s]) <= Len(Seen(s))
          /\ Len(delivered[s]) \in Nat /\ Len(Seen(s)) \in Nat
          /\ \A i \in 1..Len(delivered[s]) : Seen(s)[i] = delivered[s][i]
      <4>. DEFINE d == delivered[s]
                  q == queue[s]
      <4>1. d \in Seq(BusTenants \X Nat) /\ q \in Seq(BusTenants \X Nat)
        BY <3>1 DEF EventsOf
      <4>. HIDE DEF d, q
      <4>2. /\ Len(d \o q) = Len(d) + Len(q) /\ Len(d) \in Nat /\ Len(q) \in Nat
            /\ \A i \in 1..(Len(d) + Len(q)) : (d \o q)[i] = IF i <= Len(d) THEN d[i] ELSE q[i - Len(d)]
        BY <4>1, ConcatProperties
      <4>3. \A i \in 1..Len(d) : (d \o q)[i] = d[i]
        BY <4>2
      <4>4. Len(d) <= Len(d \o q) /\ Len(d \o q) \in Nat
        BY <4>2
      <4>. QED BY <4>2, <4>3, <4>4 DEF Seen, d, q
    <3>4. \A i \in 1..Len(delivered[s]) : delivered[s][i] = <<TenantOf[s], joined[s] + i>>
      BY <1>0, <3>3 DEF NoGap
    <3>. QED BY <1>5, <3>2, <3>4 DEF Close, NoGap
  <2>5. UpToDate(s)'
    BY <2>3 DEF UpToDate
  <2>6. ASSUME NEW z \in Streams \ {s} PROVE NoGap(z)' /\ UpToDate(z)'
    <3>1. stream'[z] = stream[z] /\ queue'[z] = queue[z]
      BY <1>5, <2>1 DEF Close, BusInv
    <3>2. z \in queues'[TenantOf[z]] => z \in queues[TenantOf[z]]
      BY <2>2
    <3>. QED BY <1>0, <1>5, <3>1, <3>2, StreamKept DEF Close, UpToDate
  <2>7. GapFree'
    BY <1>g, <2>4, <2>5, <2>6
  <2>8. queues' \in [BusTenants -> SUBSET Streams] /\ queue' \in [Streams -> EventsOf]
    BY <1>5 DEF Close, BusInv, EventsOf
  <2>9. \A z \in Streams : Len(queue'[z]) <= QueueSize
    BY <2>1 DEF BusInv
  <2>. QED BY <1>5, <2>1, <2>2, <2>7, <2>8, <2>9 DEF Close, BusInv
<1>6. ASSUME NEW t \in BusTenants, Publish(t) PROVE BusInv'
  <2>1. \A s \in Streams : queue'[s] = IF s \in queues[t] /\ ~ Full(s)
                                       THEN Append(queue[s], NextEvent(t)) ELSE queue[s]
    BY <1>6 DEF Publish
  <2>2. /\ published'[t] = published[t] + 1
        /\ \A u \in BusTenants \ {t} : published'[u] = published[u]
        /\ NextEvent(t) \in BusTenants \X Nat
    BY <1>6 DEF Publish, BusInv, NextEvent
  <2>3. /\ queues'[t] = {s \in queues[t] : ~ Full(s)}
        /\ \A u \in BusTenants \ {t} : queues'[u] = queues[u]
    BY <1>6 DEF Publish, BusInv
  <2>4. ASSUME NEW s \in Streams PROVE NoGap(s)' /\ UpToDate(s)'
    <3>1. CASE s \in queues[t] /\ ~ Full(s)
      <4>1. TenantOf[s] = t
        BY <3>1 DEF BusInv
      <4>. QED BY <1>6, <2>1, <2>2, <3>1, <4>1, StreamExtended DEF Publish
    <3>2. CASE ~ (s \in queues[t] /\ ~ Full(s))
      <4>1. queue'[s] = queue[s]
        BY <2>1, <3>2
      <4>2. s \in queues'[TenantOf[s]] => s \in queues[TenantOf[s]] /\ TenantOf[s] # t
        BY <2>3, <3>2
      <4>. QED BY <1>0, <1>6, <2>2, <4>1, <4>2, StreamKept DEF Publish, UpToDate
    <3>. QED BY <3>1, <3>2
  <2>5. GapFree'
    BY <1>g, <2>4
  <2>6. queue' \in [Streams -> EventsOf]
    <3>1. \A s \in Streams : Append(queue[s], NextEvent(t)) \in EventsOf /\ queue[s] \in EventsOf
      BY <2>2 DEF BusInv, EventsOf
    <3>. QED BY <1>6, <3>1 DEF Publish
  <2>7. \A s \in Streams : Len(queue'[s]) <= QueueSize
    <3>1. \A s \in Streams : /\ Len(queue[s]) \in Nat /\ Len(queue[s]) <= QueueSize
                             /\ Len(Append(queue[s], NextEvent(t))) = Len(queue[s]) + 1
      BY <2>2 DEF BusInv, EventsOf
    <3>2. QueueSize \in Nat
      OBVIOUS
    <3>. SUFFICES ASSUME NEW s \in Streams PROVE Len(queue'[s]) <= QueueSize
      OBVIOUS
    <3>3. CASE s \in queues[t] /\ ~ Full(s)
      <4>1. queue'[s] = Append(queue[s], NextEvent(t))
        BY <2>1, <3>3
      <4>2. Len(queue[s]) \in Nat /\ Len(Append(queue[s], NextEvent(t))) = Len(queue[s]) + 1
        BY <3>1
      <4>3. Len(queue[s]) < QueueSize
        BY <3>2, <3>3, <4>2 DEF Full
      <4>. QED BY <3>2, <4>1, <4>2, <4>3
    <3>4. CASE ~ (s \in queues[t] /\ ~ Full(s))
      BY <2>1, <3>1, <3>4
    <3>. QED BY <3>3, <3>4
  <2>8. \A s \in Streams : stream[s] = "new" => queue'[s] = <<>>
    <3>. SUFFICES ASSUME NEW s \in Streams, stream[s] = "new" PROVE queue'[s] = <<>>
      OBVIOUS
    <3>1. s \notin queues[t]
      BY <1>0 DEF UpToDate, BusInv
    <3>. QED BY <2>1, <3>1 DEF BusInv
  <2>9. queues' \in [BusTenants -> SUBSET Streams] /\ published' \in [BusTenants -> Nat]
    BY <1>6, <2>3 DEF Publish, BusInv
  <2>. QED BY <1>6, <2>3, <2>5, <2>6, <2>7, <2>8, <2>9 DEF Publish, BusInv
<1>. QED BY <1>1, <1>2, <1>3, <1>4, <1>5, <1>6 DEF BusNext

\* The initial states satisfy the invariant.
LEMMA BusStart == BusInit => BusInv
<1>. SUFFICES ASSUME BusInit PROVE BusInv
  OBVIOUS
<1>1. <<>> \in EventsOf /\ Len(<<>>) = 0 /\ <<>> \o <<>> = <<>>
  BY DEF EventsOf
<1>2. GapFree
  BY <1>1, BusAssumption DEF BusInit, GapFree
<1>. QED BY <1>1, <1>2, BusAssumption DEF BusInit, BusInv

\* events.py: no stream skips an event and then goes on, for streams, tenants
\* and queues of any size.
THEOREM StreamsAreGapFree == BusSpec => []GapFree
<1>1. BusInv => GapFree
  BY DEF BusInv
<1>. QED BY <1>1, BusStart, BusStep, PTL DEF BusSpec

-----------------------------------------------------------------------------
(* Retrieval.                                                              *)

Entries == [query: Queries, left: 0..TTL, found: SUBSET Contents]
AtMostOnce(l) == \A i, j \in 1..Len(l) : l[i].query = l[j].query => i = j

\* An answer to q holds usable documents only, and all that are n ticks old.
Backed(q, found) == found \subseteq Usable(q)
Considers(q, found, n) == \A c \in Usable(q) : documents[c].age >= n => c \in found

\* While it is left, a cached answer has considered what was ingested before the
\* search began that cached it, which may have taken SearchTime.
GoodEntry(q, left, found) ==
  Backed(q, found) /\ (left > 0 => Considers(q, found, TTL + SearchTime - left + 1))
GoodSearch(s) ==
  /\ SearchAt(s, "write") =>
       Backed(Asked(s), search[s].found) /\ Considers(Asked(s), search[s].found, search[s].spent + 1)
  /\ SearchAt(s, "answered") =>
       /\ Backed(Asked(s), search[s].found)
       /\ Considers(Asked(s), search[s].found, TTL + SearchTime + search[s].spent)

RagTyped == RagTypeOK /\ local \in [Processes -> Seq(Entries)]
GoodDocuments == \A c \in Contents : documents[c].trust = "trusted" => ~ documents[c].flagged
GoodRedis == \A q \in Queries : GoodEntry(q, redis[q].left, redis[q].found)
GoodLocal ==
  \A w \in Processes : \A i \in 1..Len(local[w]) :
    GoodEntry(local[w][i].query, local[w][i].left, local[w][i].found)
RagInv == RagTyped /\ GoodDocuments /\ GoodRedis /\ GoodLocal /\ \A s \in Searches : GoodSearch(s)

\* The bounds are naturals.
LEMMA RagBounds ==
  /\ TTL \in Nat /\ TTL >= 1 /\ SearchTime \in Nat /\ LocalEntries \in Nat /\ LocalEntries >= 1
  /\ OldAge \in Nat /\ OldAge = TTL + 2 * SearchTime
BY RetrievalAssumption DEF OldAge

\* security.py: a document that does not end up quarantined was rated below
\* "high" by the patterns and, if there is a guard model, by it.
LEMMA ClassifiedLow ==
  ASSUME NEW base \in Risks, NEW guard \in Guards, Classify(base, guard) # "high"
  PROVE  "high" \notin {base, guard} /\ guard # "broken"
<1>1. RiskRank["low"] = 0 /\ RiskRank["medium"] = 1 /\ RiskRank["high"] = 2
  BY DEF RiskRank
<1>. QED BY <1>1 DEF Classify, Risks, Guards

\* A sequence without its k-th element.
LEMMA RemovedShape ==
  ASSUME NEW S, NEW l \in Seq(S), NEW k \in 1..Len(l),
         NEW r, r = SubSeq(l, 1, k - 1) \o SubSeq(l, k + 1, Len(l))
  PROVE  /\ r \in Seq(S) /\ Len(r) = Len(l) - 1
         /\ \A i \in 1..Len(r) : r[i] = IF i < k THEN l[i] ELSE l[i + 1]
<1>. DEFINE a == SubSeq(l, 1, k - 1)
            b == SubSeq(l, k + 1, Len(l))
<1>1. a \in Seq(S) /\ Len(a) = k - 1 /\ \A i \in 1..(k - 1) : a[i] = l[i]
  OBVIOUS
<1>2. b \in Seq(S) /\ Len(b) = Len(l) - k /\ \A i \in 1..(Len(l) - k) : b[i] = l[k + i]
  OBVIOUS
<1>3. r = a \o b
  OBVIOUS
<1>. HIDE DEF a, b
<1>4. /\ r \in Seq(S) /\ Len(r) = Len(a) + Len(b)
      /\ \A i \in 1..(Len(a) + Len(b)) : r[i] = IF i <= Len(a) THEN a[i] ELSE b[i - Len(a)]
  <2>1. a \in Seq(S) /\ b \in Seq(S)
    BY <1>1, <1>2
  <2>. QED BY <1>3, <2>1, ConcatProperties
<1>5. Len(l) \in Nat /\ k \in Nat /\ k >= 1 /\ k <= Len(l) /\ Len(r) = Len(l) - 1
  <2>1. Len(l) \in Nat
    BY LenProperties
  <2>2. k \in Nat /\ k >= 1 /\ k <= Len(l)
    BY <2>1
  <2>3. Len(r) = (k - 1) + (Len(l) - k)
    BY <1>1, <1>2, <1>4
  <2>4. \A x, y \in Nat : (x - 1) + (y - x) = y - 1
    OBVIOUS
  <2>5. (k - 1) + (Len(l) - k) = Len(l) - 1
    BY <2>1, <2>2, <2>4
  <2>. QED BY <2>1, <2>2, <2>3, <2>5
<1>6. ASSUME NEW i \in 1..Len(r) PROVE r[i] = IF i < k THEN l[i] ELSE l[i + 1]
  <2>1. CASE i < k
    <3>1. i <= Len(a) /\ i \in 1..(k - 1)
      BY <1>1, <1>5, <2>1
    <3>. QED BY <1>1, <1>4, <2>1, <3>1
  <2>2. CASE ~ (i < k)
    <3>0. Len(a) = k - 1 /\ i \in Nat /\ i <= Len(l) - 1
      <4>1. Len(a) = k - 1
        BY <1>1
      <4>2. i \in 1..(Len(l) - 1)
        BY <1>5
      <4>. QED BY <1>5, <4>1, <4>2
    <3>1. ~ (i <= Len(a)) /\ i - Len(a) \in 1..(Len(l) - k) /\ k + (i - Len(a)) = i + 1
      BY <1>5, <2>2, <3>0
    <3>2. r[i] = b[i - Len(a)]
      BY <1>4, <3>1
    <3>. QED BY <1>2, <2>2, <3>1, <3>2
  <2>. QED BY <2>1, <2>2
<1>. QED BY <1>4, <1>5, <1>6

\* _CACHE.pop: the other entries stay, in their order, and none of q is left.
LEMMA WithoutShape ==
  ASSUME RagTyped, NEW w \in Processes, NEW q
  PROVE  /\ Without(w, q) \in Seq(Entries) /\ Len(Without(w, q)) <= Len(local[w])
         /\ AtMostOnce(Without(w, q))
         /\ Places(w, q) # {} => Len(Without(w, q)) < Len(local[w])
         /\ \A i \in 1..Len(Without(w, q)) :
              /\ Without(w, q)[i].query # q
              /\ \E j \in 1..Len(local[w]) : Without(w, q)[i] = local[w][j]
<1>. DEFINE l == local[w]
            r == Without(w, q)
<1>1. l \in Seq(Entries) /\ Len(l) \in Nat /\ AtMostOnce(l)
  <2>1. local[w] \in Seq(Entries)
    BY DEF RagTyped
  <2>2. AtMostOnce(local[w])
    BY DEF RagTyped, RagTypeOK, AtMostOnce
  <2>. QED BY <2>1, <2>2
<1>2. CASE Places(w, q) = {}
  BY <1>1, <1>2 DEF Without, Places
<1>3. CASE Places(w, q) # {}
  <2>1. PICK k \in Places(w, q) : k = CHOOSE i \in Places(w, q) : TRUE
    BY <1>3
  <2>2. k \in 1..Len(l) /\ l[k].query = q
    BY <2>1 DEF Places
  <2>3. r = SubSeq(l, 1, k - 1) \o SubSeq(l, k + 1, Len(l))
    BY <1>3, <2>1 DEF Without
  <2>. HIDE DEF l, r
  <2>4. /\ r \in Seq(Entries) /\ Len(r) = Len(l) - 1
        /\ \A i \in 1..Len(r) : r[i] = IF i < k THEN l[i] ELSE l[i + 1]
    BY <1>1, <2>2, <2>3, RemovedShape
  <2>5. \A i \in 1..Len(r) : r[i].query # q /\ \E j \in 1..Len(l) : r[i] = l[j]
    <3>. SUFFICES ASSUME NEW i \in 1..Len(r)
         PROVE  r[i].query # q /\ \E j \in 1..Len(l) : r[i] = l[j]
      OBVIOUS
    <3>1. PICK j \in 1..Len(l) : r[i] = l[j] /\ j # k
      BY <1>1, <2>2, <2>4
    <3>. QED BY <1>1, <2>2, <3>1 DEF AtMostOnce
  <2>6. AtMostOnce(r)
    <3>. SUFFICES ASSUME NEW i \in 1..Len(r), NEW j \in 1..Len(r), r[i].query = r[j].query
         PROVE  i = j
      BY DEF AtMostOnce
    <3>. DEFINE f(x) == IF x < k THEN x ELSE x + 1
    <3>1. f(i) \in 1..Len(l) /\ f(j) \in 1..Len(l) /\ r[i] = l[f(i)] /\ r[j] = l[f(j)]
      BY <1>1, <2>2, <2>4
    <3>2. f(i) = f(j)
      BY <1>1, <3>1 DEF AtMostOnce
    <3>. QED BY <2>2, <3>2
  <2>7. Len(r) <= Len(l) /\ Len(r) < Len(l)
    BY <1>1, <2>4
  <2>. QED BY <2>4, <2>5, <2>6, <2>7 DEF l, r
<1>. QED BY <1>2, <1>3

\* The dictionary with an entry of q put last, in the place of an earlier one.
LEMMA PutShape ==
  ASSUME RagTyped, NEW w \in Processes, NEW q, NEW e \in Entries, e.query = q
  PROVE  LET c == Append(Without(w, q), e) IN
         /\ c \in Seq(Entries) /\ AtMostOnce(c)
         /\ Places(w, q) # {} => Len(c) <= LocalEntries
         /\ \A i \in 1..Len(c) : c[i] = e \/ \E j \in 1..Len(local[w]) : c[i] = local[w][j]
<1>. DEFINE r == Without(w, q)
            c == Append(r, e)
<1>1. /\ r \in Seq(Entries) /\ Len(r) \in Nat /\ AtMostOnce(r)
      /\ Places(w, q) # {} => Len(r) < Len(local[w])
      /\ \A i \in 1..Len(r) : /\ r[i].query # q
                              /\ \E j \in 1..Len(local[w]) : r[i] = local[w][j]
  BY WithoutShape
<1>2. Len(local[w]) \in Nat /\ Len(local[w]) <= LocalEntries
  BY DEF RagTyped, RagTypeOK
<1>. HIDE DEF r, c
<1>3. /\ c \in Seq(Entries) /\ Len(c) = Len(r) + 1 /\ c[Len(r) + 1] = e
      /\ \A i \in 1..Len(r) : c[i] = r[i]
  <2>1. c = Append(r, e)
    BY DEF c
  <2>. QED BY <1>1, <2>1
<1>4. AtMostOnce(c)
  <2>. SUFFICES ASSUME NEW i \in 1..Len(c), NEW j \in 1..Len(c), c[i].query = c[j].query
       PROVE  i = j
    BY DEF AtMostOnce
  <2>1. i = Len(r) + 1 \/ i \in 1..Len(r)
    BY <1>1, <1>3
  <2>2. j = Len(r) + 1 \/ j \in 1..Len(r)
    BY <1>1, <1>3
  <2>. QED BY <1>1, <1>3, <2>1, <2>2 DEF AtMostOnce
<1>5. Places(w, q) # {} => Len(c) <= LocalEntries
  BY <1>1, <1>2, <1>3, RagBounds
<1>6. \A i \in 1..Len(c) : c[i] = e \/ \E j \in 1..Len(local[w]) : c[i] = local[w][j]
  <2>. SUFFICES ASSUME NEW i \in 1..Len(c)
       PROVE  c[i] = e \/ \E j \in 1..Len(local[w]) : c[i] = local[w][j]
    OBVIOUS
  <2>1. i = Len(r) + 1 \/ i \in 1..Len(r)
    BY <1>1, <1>3
  <2>. QED BY <1>1, <1>3, <2>1
<1>. QED BY <1>3, <1>4, <1>5, <1>6 DEF c, r

\* _local_cache_set: what is evicted are the first entries, and only as many as
\* are too many.
LEMMA YoungestShape ==
  ASSUME NEW l \in Seq(Entries), AtMostOnce(l)
  PROVE  /\ Youngest(l) \in Seq(Entries) /\ Len(Youngest(l)) <= LocalEntries
         /\ AtMostOnce(Youngest(l))
         /\ \A i \in 1..Len(Youngest(l)) : \E j \in 1..Len(l) : Youngest(l)[i] = l[j]
<1>. DEFINE y == Youngest(l)
            d == Len(l) - LocalEntries
<1>0. Len(l) \in Nat
  OBVIOUS
<1>1. CASE Len(l) > LocalEntries
  <2>1. y = SubSeq(l, d + 1, Len(l)) /\ d \in Nat /\ d + LocalEntries = Len(l)
    BY <1>0, <1>1, RagBounds DEF Youngest
  <2>. HIDE DEF y, d
  <2>2. /\ y \in Seq(Entries) /\ Len(y) = LocalEntries
        /\ \A i \in 1..LocalEntries : y[i] = l[d + i] /\ d + i \in 1..Len(l)
    BY <1>0, <2>1, RagBounds
  <2>3. AtMostOnce(y)
    <3>. SUFFICES ASSUME NEW i \in 1..Len(y), NEW j \in 1..Len(y), y[i].query = y[j].query
         PROVE  i = j
      BY DEF AtMostOnce
    <3>1. d + i = d + j
      BY <2>2 DEF AtMostOnce
    <3>. QED BY <2>1, <2>2, <3>1, RagBounds
  <2>4. \A i \in 1..Len(y) : \E j \in 1..Len(l) : y[i] = l[j]
    BY <2>2
  <2>. QED BY <2>2, <2>3, <2>4, RagBounds DEF y
<1>2. CASE ~ (Len(l) > LocalEntries)
  BY <1>0, <1>2, RagBounds DEF Youngest
<1>. QED BY <1>1, <1>2

\* A process' cache is replaced by one whose entries are good.
LEMMA CacheReplaced ==
  ASSUME RagInv, NEW w \in Processes, NEW c \in Seq(Entries), NEW e,
         AtMostOnce(c), Len(c) <= LocalEntries, documents' = documents,
         local' = [local EXCEPT ![w] = c], GoodEntry(e.query, e.left, e.found),
         \A i \in 1..Len(c) : c[i] = e \/ \E j \in 1..Len(local[w]) : c[i] = local[w][j]
  PROVE  /\ local' \in [Processes -> Seq(Entries)]
         /\ \A v \in Processes :
              /\ local'[v] \in Seq([query: Queries, left: 0..TTL, found: SUBSET Contents])
              /\ Len(local'[v]) <= LocalEntries
              /\ \A i, j \in 1..Len(local'[v]) : local'[v][i].query = local'[v][j].query => i = j
         /\ GoodLocal'
<1>1. local \in [Processes -> Seq(Entries)]
  BY DEF RagInv, RagTyped
<1>2. local' \in [Processes -> Seq(Entries)] /\ local'[w] = c
      /\ \A v \in Processes \ {w} : local'[v] = local[v]
  BY <1>1
<1>3. \A q, n, f : GoodEntry(q, n, f) => GoodEntry(q, n, f)'
  BY DEF GoodEntry, Backed, Considers, Usable
<1>4. ASSUME NEW v \in Processes
      PROVE  /\ Len(local'[v]) <= LocalEntries
             /\ \A i, j \in 1..Len(local'[v]) : local'[v][i].query = local'[v][j].query => i = j
  BY <1>2 DEF RagInv, RagTyped, RagTypeOK, AtMostOnce
<1>5. ASSUME NEW v \in Processes, NEW i \in 1..Len(local'[v])
      PROVE  GoodEntry(local'[v][i].query, local'[v][i].left, local'[v][i].found)
  BY <1>2 DEF RagInv, GoodLocal
<1>6. GoodLocal'
  BY <1>3, <1>5 DEF GoodLocal
<1>. QED BY <1>2, <1>4, <1>6 DEF Entries

Calls == [at: {"idle", "read", "write", "answered"}, query: Queries,
          spent: 0..SearchTime, found: SUBSET Contents]

\* A call that is not under way is one.
LEMMA NoCall ==
  /\ NoSearch \in Calls /\ NoSearch.at = "idle" /\ NoSearch.spent = 0
  /\ \A l \in {"read", "answered"}, q \in Queries, f \in SUBSET Contents :
       [NoSearch EXCEPT !.at = l, !.query = q] \in Calls
         /\ [NoSearch EXCEPT !.at = l, !.query = q, !.found = f] \in Calls
<1>1. (CHOOSE q \in Queries : TRUE) \in Queries
  BY RetrievalAssumption
<1>2. NoSearch \in Calls /\ NoSearch.at = "idle" /\ NoSearch.spent = 0
  BY <1>1, RagBounds DEF NoSearch, Calls
<1>3. ASSUME NEW l \in {"read", "answered"}, NEW q \in Queries, NEW f \in SUBSET Contents
      PROVE  /\ [NoSearch EXCEPT !.at = l, !.query = q] \in Calls
             /\ [NoSearch EXCEPT !.at = l, !.query = q, !.found = f] \in Calls
  BY <1>2 DEF Calls
<1>. QED BY <1>2, <1>3

\* Who considers all that is n ticks old considers all that is older.
LEMMA ConsidersOlder ==
  ASSUME RagTyped, NEW q, NEW f, NEW n \in Int, NEW m \in Int, Considers(q, f, n), n <= m
  PROVE  Considers(q, f, m)
<1>1. \A c \in Contents : documents[c].age \in Nat
  BY RagBounds DEF RagTyped, RagTypeOK
<1>2. Usable(q) \subseteq Contents
  BY DEF Usable
<1>. QED BY <1>1, <1>2 DEF Considers

\* A call is replaced by one whose answer is good.
LEMMA CallReplaced ==
  ASSUME RagInv, NEW s \in Searches, NEW x \in Calls, documents' = documents,
         search' = [search EXCEPT ![s] = x],
         x.at = "write" => Backed(x.query, x.found) /\ Considers(x.query, x.found, x.spent + 1),
         x.at = "answered" =>
           Backed(x.query, x.found) /\ Considers(x.query, x.found, TTL + SearchTime + x.spent)
  PROVE  search' \in [Searches -> Calls] /\ \A z \in Searches : GoodSearch(z)'
<1>1. search \in [Searches -> Calls]
  BY DEF RagInv, RagTyped, RagTypeOK, Calls
<1>2. search' \in [Searches -> Calls]
  BY <1>1
<1>3. search'[s] = x /\ \A z \in Searches \ {s} : search'[z] = search[z]
  BY <1>1
<1>4. GoodSearch(s)'
  BY <1>3 DEF GoodSearch, SearchAt, Asked, Backed, Considers, Usable
<1>5. ASSUME NEW z \in Searches \ {s} PROVE GoodSearch(z)'
  <2>1. GoodSearch(z)
    BY DEF RagInv
  <2>. QED BY <1>3, <2>1 DEF GoodSearch, SearchAt, Asked, Backed, Considers, Usable
<1>. QED BY <1>2, <1>4, <1>5

\* The two outcomes of a look into a cache.
LEMMA LookedUp ==
  ASSUME RagInv, NEW s \in Searches, NEW q \in Queries, documents' = documents,
         Miss(s, q) \/ \E left \in 1..TTL, found \in SUBSET Contents :
                         GoodEntry(q, left, found) /\ Hit(s, q, found)
  PROVE  search' \in [Searches -> Calls] /\ \A z \in Searches : GoodSearch(z)'
<1>1. CASE Miss(s, q)
  <2>. DEFINE x == [NoSearch EXCEPT !.at = "read", !.query = q]
  <2>1. x \in Calls /\ x.at = "read"
    BY NoCall DEF NoSearch
  <2>2. search' = [search EXCEPT ![s] = x]
    BY <1>1 DEF Miss
  <2>. HIDE DEF x
  <2>. QED BY <2>1, <2>2, CallReplaced
<1>2. ASSUME NEW left \in 1..TTL, NEW found \in SUBSET Contents, GoodEntry(q, left, found), Hit(s, q, found)
      PROVE  search' \in [Searches -> Calls] /\ \A z \in Searches : GoodSearch(z)'
  <2>. DEFINE x == [NoSearch EXCEPT !.at = "answered", !.query = q, !.found = found]
  <2>1. x \in Calls /\ x.at = "answered" /\ x.query = q /\ x.found = found /\ x.spent = 0
    BY NoCall DEF NoSearch
  <2>2. search' = [search EXCEPT ![s] = x]
    BY <1>2 DEF Hit
  <2>3. Backed(q, found) /\ Considers(q, found, TTL + SearchTime - left + 1)
    BY <1>2 DEF GoodEntry
  <2>4. Considers(q, found, TTL + SearchTime + 0)
    BY <2>3, RagBounds, ConsidersOlder DEF RagInv
  <2>. HIDE DEF x
  <2>. QED BY <2>1, <2>2, <2>3, <2>4, CallReplaced
<1>. QED BY <1>1, <1>2

\* What a step makes of the caches and the calls, the documents left alone, is
\* all that the invariant is about.
LEMMA RagAssembled ==
  ASSUME RagInv, documents' = documents,
         redis' \in [Queries -> [left: 0..TTL, found: SUBSET Contents]],
         \A q \in Queries : GoodEntry(q, redis'[q].left, redis'[q].found),
         local' \in [Processes -> Seq(Entries)],
         \A v \in Processes :
           /\ local'[v] \in Seq([query: Queries, left: 0..TTL, found: SUBSET Contents])
           /\ Len(local'[v]) <= LocalEntries
           /\ \A i, j \in 1..Len(local'[v]) : local'[v][i].query = local'[v][j].query => i = j,
         GoodLocal', search' \in [Searches -> Calls], \A z \in Searches : GoodSearch(z)'
  PROVE  RagInv'
<1>1. RagTyped'
  BY DEF RagInv, RagTyped, RagTypeOK, Calls
<1>2. GoodDocuments' /\ GoodRedis'
  BY DEF RagInv, GoodDocuments, GoodRedis, GoodEntry, Backed, Considers, Usable
<1>. QED BY <1>1, <1>2 DEF RagInv

\* _local_cache_get.
LEMMA LocalGetStep ==
  ASSUME RagInv, NEW s \in Searches, NEW q \in Queries, LocalGet(s, q)
  PROVE  RagInv'
<1>. DEFINE w == ProcessOf[s]
<1>1. w \in Processes /\ local[w] \in Seq(Entries) /\ Len(local[w]) <= LocalEntries /\ Len(local[w]) \in Nat
  BY DEF Processes, RagInv, RagTyped, RagTypeOK
<1>2. redis' = redis /\ documents' = documents /\ RagTyped
  BY DEF LocalGet, RagInv
<1>3. \A p \in Queries : GoodEntry(p, redis[p].left, redis[p].found)
  BY DEF RagInv, GoodRedis
<1>4. redis \in [Queries -> [left: 0..TTL, found: SUBSET Contents]]
  BY DEF RagInv, RagTyped, RagTypeOK
<1>5. ASSUME NEW i \in Places(w, q), local[w][i].left > 0, Hit(s, q, local[w][i].found),
             local' = [local EXCEPT ![w] = Append(Without(w, q), local[w][i])]
      PROVE  RagInv'
  <2>. DEFINE e == local[w][i]
              c == Append(Without(w, q), e)
  <2>1. i \in 1..Len(local[w]) /\ e \in Entries /\ e.query = q /\ Places(w, q) # {}
    BY <1>1, <1>5 DEF Places
  <2>2. GoodEntry(e.query, e.left, e.found)
    BY <1>1, <2>1 DEF RagInv, GoodLocal
  <2>3. local' = [local EXCEPT ![w] = c]
    BY <1>5
  <2>4. e.left \in 1..TTL /\ e.found \in SUBSET Contents /\ Hit(s, q, e.found)
    BY <1>5, <2>1, RagBounds DEF Entries
  <2>5. c = Append(Without(w, q), e)
    OBVIOUS
  <2>. HIDE DEF c, e, w
  <2>6. /\ c \in Seq(Entries) /\ AtMostOnce(c) /\ Len(c) <= LocalEntries
        /\ \A k \in 1..Len(c) : c[k] = e \/ \E j \in 1..Len(local[w]) : c[k] = local[w][j]
    <3>1. w \in Processes
      BY <1>1
    <3>2. e \in Entries /\ e.query = q /\ RagTyped
      BY <1>2, <2>1
    <3>. DEFINE d == Append(Without(w, q), e)
    <3>3. /\ d \in Seq(Entries) /\ AtMostOnce(d)
          /\ Places(w, q) # {} => Len(d) <= LocalEntries
          /\ \A k \in 1..Len(d) : d[k] = e \/ \E j \in 1..Len(local[w]) : d[k] = local[w][j]
      <4>. HIDE DEF e, w
      <4>1. d \in Seq(Entries) /\ AtMostOnce(d)
        BY <3>1, <3>2, PutShape
      <4>2. Places(w, q) # {} => Len(d) <= LocalEntries
        BY <3>1, <3>2, PutShape
      <4>3. \A k \in 1..Len(d) : d[k] = e \/ \E j \in 1..Len(local[w]) : d[k] = local[w][j]
        BY <3>1, <3>2, PutShape
      <4>. QED BY <4>1, <4>2, <4>3
    <3>4. Places(w, q) # {}
      BY <2>1
    <3>. QED BY <2>5, <3>3, <3>4
  <2>7. search' \in [Searches -> Calls] /\ \A z \in Searches : GoodSearch(z)'
    BY <1>2, <2>1, <2>2, <2>4, LookedUp
  <2>. QED BY <1>1, <1>2, <1>3, <1>4, <2>2, <2>3, <2>6, <2>7, CacheReplaced, RagAssembled
<1>6. ASSUME Miss(s, q), local' = [local EXCEPT ![w] = Without(w, q)]
      PROVE  RagInv'
  <2>. DEFINE e == [query |-> q, left |-> 0, found |-> {}]
              c == Without(w, q)
  <2>1. GoodEntry(e.query, e.left, e.found)
    BY DEF GoodEntry, Backed
  <2>2. local' = [local EXCEPT ![w] = c]
    BY <1>6
  <2>3. /\ c \in Seq(Entries) /\ AtMostOnce(c) /\ Len(c) <= Len(local[w])
        /\ \A k \in 1..Len(c) : \E j \in 1..Len(local[w]) : c[k] = local[w][j]
    <3>1. w \in Processes
      BY <1>1
    <3>. HIDE DEF w
    <3>. QED BY <1>2, <3>1, WithoutShape
  <2>. HIDE DEF c, e, w
  <2>4. Len(c) <= LocalEntries
    BY <1>1, <2>3, RagBounds
  <2>5. search' \in [Searches -> Calls] /\ \A z \in Searches : GoodSearch(z)'
    BY <1>2, <1>6, LookedUp
  <2>. QED BY <1>1, <1>2, <1>3, <1>4, <2>1, <2>2, <2>3, <2>4, <2>5, CacheReplaced, RagAssembled
<1>. QED BY <1>5, <1>6 DEF LocalGet

\* What the invariant says of caches and documents that a step leaves alone.
LEMMA CachesKept ==
  ASSUME RagInv, UNCHANGED <<documents, local>>
  PROVE  /\ local' \in [Processes -> Seq(Entries)]
         /\ \A v \in Processes :
              /\ local'[v] \in Seq([query: Queries, left: 0..TTL, found: SUBSET Contents])
              /\ Len(local'[v]) <= LocalEntries
              /\ \A i, j \in 1..Len(local'[v]) : local'[v][i].query = local'[v][j].query => i = j
         /\ GoodLocal'
<1>1. GoodLocal'
  BY DEF RagInv, GoodLocal, GoodEntry, Backed, Considers, Usable
<1>. QED BY <1>1 DEF RagInv, RagTyped, RagTypeOK

\* _cache_get from Redis.
LEMMA RedisGetStep ==
  ASSUME RagInv, NEW s \in Searches, NEW q \in Queries, RedisGet(s, q)
  PROVE  RagInv'
<1>1. redis[q].left \in 0..TTL /\ redis[q].found \in SUBSET Contents
      /\ GoodEntry(q, redis[q].left, redis[q].found)
  BY DEF RagInv, RagTyped, RagTypeOK, GoodRedis
<1>2. Miss(s, q) \/ (redis[q].left \in 1..TTL /\ Hit(s, q, redis[q].found))
  BY <1>1, RagBounds DEF RedisGet
<1>3. search' \in [Searches -> Calls] /\ \A z \in Searches : GoodSearch(z)'
  BY <1>1, <1>2, LookedUp DEF RedisGet
<1>4. UNCHANGED <<documents, redis, local>>
  BY DEF RedisGet
<1>5. redis' \in [Queries -> [left: 0..TTL, found: SUBSET Contents]]
      /\ \A p \in Queries : GoodEntry(p, redis'[p].left, redis'[p].found)
  BY <1>4 DEF RagInv, RagTyped, RagTypeOK, GoodRedis
<1>. QED BY <1>3, <1>4, <1>5, CachesKept, RagAssembled

\* Redis, with or without the answer of a call that is about to be cached.
LEMMA RedisStored ==
  ASSUME RagInv, NEW s \in Searches, SearchAt(s, "write"), redis' \in {redis, Stored(s)}
  PROVE  /\ redis' \in [Queries -> [left: 0..TTL, found: SUBSET Contents]]
         /\ \A q \in Queries : GoodEntry(q, redis'[q].left, redis'[q].found)
         /\ search[s] \in Calls /\ GoodEntry(Asked(s), TTL, search[s].found)
<1>1. redis \in [Queries -> [left: 0..TTL, found: SUBSET Contents]]
      /\ \A q \in Queries : GoodEntry(q, redis[q].left, redis[q].found)
  BY DEF RagInv, RagTyped, RagTypeOK, GoodRedis
<1>2. search[s] \in Calls
  BY DEF RagInv, RagTyped, RagTypeOK, Calls
<1>3. /\ Backed(Asked(s), search[s].found)
      /\ Considers(Asked(s), search[s].found, search[s].spent + 1)
  BY DEF RagInv, GoodSearch
<1>4. search[s].spent \in Nat /\ search[s].spent <= SearchTime
  BY <1>2, RagBounds DEF Calls
<1>5. Considers(Asked(s), search[s].found, TTL + SearchTime - TTL + 1)
  BY <1>3, <1>4, RagBounds, ConsidersOlder DEF RagInv
<1>6. GoodEntry(Asked(s), TTL, search[s].found)
  BY <1>3, <1>5 DEF GoodEntry
<1>7. CASE redis' = redis
  BY <1>1, <1>2, <1>6, <1>7
<1>8. CASE redis' = Stored(s)
  <2>. DEFINE e == [left |-> TTL, found |-> search[s].found]
  <2>1. e \in [left: 0..TTL, found: SUBSET Contents] /\ e.left = TTL /\ e.found = search[s].found
    BY <1>2, RagBounds DEF Calls
  <2>2. redis' = [redis EXCEPT ![Asked(s)] = e]
    BY <1>8 DEF Stored
  <2>. HIDE DEF e
  <2>3. \A q \in Queries : redis'[q] = IF q = Asked(s) THEN e ELSE redis[q]
    BY <1>1, <2>2
  <2>. QED BY <1>1, <1>2, <1>6, <2>1, <2>2, <2>3
<1>. QED BY <1>7, <1>8

\* After its answer was cached, or not, a call is answered.
LEMMA ComputedStep ==
  ASSUME RagInv, NEW s \in Searches, SearchAt(s, "write"), Computed(s), documents' = documents
  PROVE  search' \in [Searches -> Calls] /\ \A z \in Searches : GoodSearch(z)'
<1>. DEFINE x == [search[s] EXCEPT !.at = "answered"]
<1>1. search[s] \in Calls
  BY DEF RagInv, RagTyped, RagTypeOK, Calls
<1>2. x \in Calls /\ x.at = "answered" /\ x.query = Asked(s) /\ x.found = search[s].found
      /\ x.spent = search[s].spent
  BY <1>1 DEF Calls, Asked
<1>3. /\ Backed(Asked(s), search[s].found)
      /\ Considers(Asked(s), search[s].found, search[s].spent + 1)
  BY DEF RagInv, GoodSearch
<1>4. search[s].spent \in Nat
  BY <1>1, RagBounds DEF Calls
<1>5. Considers(Asked(s), search[s].found, TTL + SearchTime + search[s].spent)
  BY <1>3, <1>4, RagBounds, ConsidersOlder DEF RagInv
<1>6. search' = [search EXCEPT ![s] = x]
  BY DEF Computed
<1>. HIDE DEF x
<1>. QED BY <1>2, <1>3, <1>5, <1>6, CallReplaced

\* SELECT * FROM documents.
LEMMA ReadDocumentsStep ==
  ASSUME RagInv, NEW s \in Searches, ReadDocuments(s)
  PROVE  RagInv'
<1>. DEFINE x == [search[s] EXCEPT !.at = "write", !.found = Usable(Asked(s))]
<1>1. search[s] \in Calls
  BY DEF RagInv, RagTyped, RagTypeOK, Calls
<1>2. x \in Calls /\ x.at = "write" /\ x.query = Asked(s) /\ x.found = Usable(Asked(s))
  BY <1>1 DEF Calls, Asked, Usable
<1>3. search' = [search EXCEPT ![s] = x] /\ UNCHANGED <<documents, redis, local>>
  BY DEF ReadDocuments
<1>4. Backed(x.query, x.found) /\ Considers(x.query, x.found, x.spent + 1)
  BY <1>2 DEF Backed, Considers
<1>. HIDE DEF x
<1>5. search' \in [Searches -> Calls] /\ \A z \in Searches : GoodSearch(z)'
  BY <1>2, <1>3, <1>4, CallReplaced
<1>6. redis' \in [Queries -> [left: 0..TTL, found: SUBSET Contents]]
      /\ \A q \in Queries : GoodEntry(q, redis'[q].left, redis'[q].found)
  BY <1>3 DEF RagInv, RagTyped, RagTypeOK, GoodRedis
<1>. QED BY <1>3, <1>5, <1>6, CachesKept, RagAssembled

\* _cache_set, into Redis.
LEMMA RedisSetStep ==
  ASSUME RagInv, NEW s \in Searches, RedisSet(s)
  PROVE  RagInv'
<1>1. SearchAt(s, "write") /\ Computed(s) /\ redis' \in {redis, Stored(s)} /\ UNCHANGED <<documents, local>>
  BY DEF RedisSet
<1>. QED BY <1>1, RedisStored, ComputedStep, CachesKept, RagAssembled

\* _cache_set, into the local cache.
LEMMA LocalSetStep ==
  ASSUME RagInv, NEW s \in Searches, LocalSet(s)
  PROVE  RagInv'
<1>. DEFINE w == ProcessOf[s]
            e == [query |-> Asked(s), left |-> TTL, found |-> search[s].found]
            d == Append(Without(w, Asked(s)), e)
            c == Youngest(d)
<1>1. SearchAt(s, "write") /\ Computed(s) /\ redis' \in {redis, Stored(s)} /\ documents' = documents
      /\ local' = [local EXCEPT ![w] = c]
  BY DEF LocalSet
<1>2. w \in Processes /\ RagTyped
  BY DEF Processes, RagInv
<1>3. /\ redis' \in [Queries -> [left: 0..TTL, found: SUBSET Contents]]
      /\ \A q \in Queries : GoodEntry(q, redis'[q].left, redis'[q].found)
      /\ search[s] \in Calls /\ GoodEntry(Asked(s), TTL, search[s].found)
  BY <1>1, RedisStored
<1>4. e \in Entries /\ GoodEntry(e.query, e.left, e.found) /\ d = Append(Without(w, Asked(s)), e) /\ e.query = Asked(s)
  BY <1>3, RagBounds DEF Calls, Entries, Asked
<1>5. search' \in [Searches -> Calls] /\ \A z \in Searches : GoodSearch(z)'
  BY <1>1, ComputedStep
<1>. HIDE DEF e, d, w
<1>6. /\ d \in Seq(Entries) /\ AtMostOnce(d)
      /\ \A i \in 1..Len(d) : d[i] = e \/ \E j \in 1..Len(local[w]) : d[i] = local[w][j]
  BY <1>2, <1>4, PutShape
<1>7. /\ c \in Seq(Entries) /\ Len(c) <= LocalEntries /\ AtMostOnce(c)
      /\ \A i \in 1..Len(c) : \E j \in 1..Len(d) : c[i] = d[j]
  BY <1>6, YoungestShape
<1>. HIDE DEF c
<1>8. \A i \in 1..Len(c) : c[i] = e \/ \E j \in 1..Len(local[w]) : c[i] = local[w][j]
  BY <1>6, <1>7
<1>9. /\ local' \in [Processes -> Seq(Entries)]
      /\ \A v \in Processes :
           /\ local'[v] \in Seq([query: Queries, left: 0..TTL, found: SUBSET Contents])
           /\ Len(local'[v]) <= LocalEntries
           /\ \A i, j \in 1..Len(local'[v]) : local'[v][i].query = local'[v][j].query => i = j
      /\ GoodLocal'
  BY <1>1, <1>2, <1>4, <1>7, <1>8, CacheReplaced
<1>. QED BY <1>1, <1>3, <1>5, <1>9, RagAssembled

\* A search ends.
LEMMA EndSearchStep ==
  ASSUME RagInv, NEW s \in Searches, EndSearch(s)
  PROVE  RagInv'
<1>1. search' = [search EXCEPT ![s] = NoSearch] /\ UNCHANGED <<documents, redis, local>>
  BY DEF EndSearch
<1>2. search' \in [Searches -> Calls] /\ \A z \in Searches : GoodSearch(z)'
  BY <1>1, NoCall, CallReplaced
<1>3. redis' \in [Queries -> [left: 0..TTL, found: SUBSET Contents]]
      /\ \A q \in Queries : GoodEntry(q, redis'[q].left, redis'[q].found)
  BY <1>1 DEF RagInv, RagTyped, RagTypeOK, GoodRedis
<1>. QED BY <1>1, <1>2, <1>3, CachesKept, RagAssembled

\* An ingest makes a document of age 0 usable, if it is neither quarantined nor
\* untrusted, and takes none away.
LEMMA IngestStep ==
  ASSUME RagInv, NEW c \in Contents, NEW base \in Risks, NEW guard \in Guards,
         NEW label \in {"trusted", "untrusted"}, Ingest(c, base, guard, label)
  PROVE  RagInv'
<1>. DEFINE flag == "high" \in {base, guard} \/ guard = "broken"
            given == IF Classify(base, guard) = "high" THEN "untrusted" ELSE label
            d == [trust |-> given, age |-> 0, flagged |-> flag]
            Kinds == [trust: {"absent", "trusted", "untrusted"}, age: 0..OldAge, flagged: BOOLEAN]
<1>1. documents \in [Contents -> Kinds] /\ documents[c] = Absent
  BY DEF RagInv, RagTyped, RagTypeOK, Ingest
<1>2. d \in Kinds /\ d.age = 0 /\ (d.trust = "trusted" => ~ d.flagged)
  <2>1. flag \in BOOLEAN
    OBVIOUS
  <2>2. given \in {"trusted", "untrusted"}
    OBVIOUS
  <2>3. given = "trusted" => ~ flag
    BY ClassifiedLow
  <2>. HIDE DEF flag, given
  <2>4. 0 \in 0..OldAge
    BY RagBounds
  <2>. QED BY <2>1, <2>2, <2>3, <2>4
<1>3. documents' = [documents EXCEPT ![c] = d] /\ UNCHANGED <<redis, local, search>>
  BY DEF Ingest
<1>. HIDE DEF d, flag, given
<1>4. documents' \in [Contents -> Kinds] /\ documents'[c] = d
      /\ \A x \in Contents \ {c} : documents'[x] = documents[x]
  BY <1>1, <1>2, <1>3
<1>5. GoodDocuments'
  BY <1>2, <1>4 DEF RagInv, GoodDocuments
<1>6. \A q : \A f : Backed(q, f) => Backed(q, f)'
  BY <1>1, <1>4 DEF Backed, Usable, Absent
<1>7. \A q : \A f : \A n \in Nat : n >= 1 /\ Considers(q, f, n) => Considers(q, f, n)'
  BY <1>1, <1>2, <1>4 DEF Considers, Usable
<1>8. ASSUME NEW q, NEW n \in 0..TTL, NEW f, GoodEntry(q, n, f) PROVE GoodEntry(q, n, f)'
  <2>1. TTL + SearchTime - n + 1 \in Nat /\ TTL + SearchTime - n + 1 >= 1
    BY RagBounds
  <2>. QED BY <1>6, <1>7, <1>8, <2>1 DEF GoodEntry
<1>9. GoodRedis'
  BY <1>3, <1>8 DEF RagInv, RagTyped, RagTypeOK, GoodRedis
<1>10. GoodLocal'
  <2>1. \A w \in Processes : \A i \in 1..Len(local[w]) : local[w][i].left \in 0..TTL
    <3>. SUFFICES ASSUME NEW w \in Processes, NEW i \in 1..Len(local[w])
         PROVE  local[w][i].left \in 0..TTL
      OBVIOUS
    <3>1. local[w] \in Seq(Entries)
      BY DEF RagInv, RagTyped
    <3>2. local[w][i] \in Entries
      BY <3>1, ElementOfSeq
    <3>. QED BY <3>2 DEF Entries
  <2>. QED BY <1>3, <1>8, <2>1 DEF RagInv, GoodLocal
<1>11. \A s \in Searches : GoodSearch(s)'
  <2>. SUFFICES ASSUME NEW s \in Searches PROVE GoodSearch(s)'
    OBVIOUS
  <2>1. search[s].spent \in Nat
    BY RagBounds DEF RagInv, RagTyped, RagTypeOK
  <2>2. /\ search[s].spent + 1 \in Nat /\ search[s].spent + 1 >= 1
        /\ TTL + SearchTime + search[s].spent \in Nat /\ TTL + SearchTime + search[s].spent >= 1
    BY <2>1, RagBounds
  <2>3. GoodSearch(s)
    BY DEF RagInv
  <2>4. SearchAt(s, "write") => GoodSearch(s)'
    BY <1>3, <1>6, <1>7, <2>2, <2>3 DEF GoodSearch, SearchAt, Asked
  <2>5. SearchAt(s, "answered") => GoodSearch(s)'
    BY <1>3, <1>6, <1>7, <2>2, <2>3 DEF GoodSearch, SearchAt, Asked
  <2>6. ~ SearchAt(s, "write") /\ ~ SearchAt(s, "answered") => GoodSearch(s)'
    BY <1>3 DEF GoodSearch, SearchAt
  <2>. QED BY <2>4, <2>5, <2>6
<1>12. RagTyped'
  BY <1>3, <1>4 DEF RagInv, RagTyped, RagTypeOK
<1>. QED BY <1>5, <1>9, <1>10, <1>11, <1>12 DEF RagInv

\* A tick makes every document that can be found a tick older.
LEMMA AllOlder ==
  ASSUME RagInv, Tick
  PROVE  /\ \A q, f : Backed(q, f) => Backed(q, f)'
         /\ \A q, f : \A n \in 0..OldAge : Considers(q, f, n) => Considers(q, f, n + 1)'
         /\ documents' \in [Contents -> [trust: {"absent", "trusted", "untrusted"}, age: 0..OldAge,
                                         flagged: BOOLEAN]]
         /\ GoodDocuments'
<1>. DEFINE Kinds == [trust: {"absent", "trusted", "untrusted"}, age: 0..OldAge, flagged: BOOLEAN]
<1>1. documents \in [Contents -> Kinds]
  BY DEF RagInv, RagTyped, RagTypeOK
<1>2. ASSUME NEW c \in Contents
      PROVE  /\ documents'[c] \in Kinds /\ documents'[c].trust = documents[c].trust
             /\ documents'[c].flagged = documents[c].flagged
             /\ documents[c].trust = "trusted" => documents'[c].age = Older(documents[c].age)
  <2>1. documents[c] \in Kinds
    BY <1>1
  <2>2. Older(documents[c].age) \in 0..OldAge
    BY <2>1, RagBounds DEF Older
  <2>3. documents'[c] = IF documents[c].trust = "trusted"
                        THEN [documents[c] EXCEPT !.age = Older(documents[c].age)] ELSE documents[c]
    BY DEF Tick
  <2>. QED BY <2>1, <2>2, <2>3
<1>3. \A q : Usable(q)' = Usable(q)
  BY <1>2 DEF Usable
<1>4. ASSUME NEW q, NEW f, NEW n \in 0..OldAge, Considers(q, f, n) PROVE Considers(q, f, n + 1)'
  <2>. SUFFICES ASSUME NEW c \in Usable(q), documents'[c].age >= n + 1 PROVE c \in f
    BY <1>3 DEF Considers
  <2>1. c \in Contents /\ documents[c].trust = "trusted"
    BY DEF Usable
  <2>2. documents'[c].age = Older(documents[c].age) /\ documents[c].age \in 0..OldAge
    BY <1>1, <1>2, <2>1
  <2>3. documents[c].age >= n
    BY <2>2, RagBounds DEF Older
  <2>. QED BY <1>4, <2>3 DEF Considers
<1>5. documents' \in [Contents -> Kinds]
  BY <1>2 DEF Tick
<1>. QED BY <1>2, <1>3, <1>4, <1>5 DEF Backed, RagInv, GoodDocuments

\* A cached answer that is a tick older is still good.
LEMMA EntryLater ==
  ASSUME RagInv, Tick, NEW q, NEW left \in 0..TTL, NEW found, GoodEntry(q, left, found),
         NEW l, NEW f, left > 1 => l = left - 1 /\ f = found, ~ (left > 1) => l = 0 /\ f = {}
  PROVE  GoodEntry(q, l, f)'
<1>1. CASE left > 1
  <2>. DEFINE n == TTL + SearchTime - left + 1
  <2>1. n \in 0..OldAge /\ TTL + SearchTime - (left - 1) + 1 = n + 1
    BY <1>1, RagBounds
  <2>2. Backed(q, found) /\ Considers(q, found, n)
    BY <1>1, RagBounds DEF GoodEntry
  <2>. HIDE DEF n
  <2>3. Backed(q, found)' /\ Considers(q, found, n + 1)'
    BY <2>1, <2>2, AllOlder
  <2>. QED BY <1>1, <2>1, <2>3 DEF GoodEntry
<1>2. CASE ~ (left > 1)
  BY <1>2 DEF GoodEntry, Backed
<1>. QED BY <1>1, <1>2

\* What Later makes of an entry, of Redis or of a local cache.
LEMMA LaterShape ==
  /\ \A e \in Entries : /\ Later(e) \in Entries /\ Later(e).query = e.query
                        /\ e.left > 1 => Later(e).left = e.left - 1 /\ Later(e).found = e.found
                        /\ ~ (e.left > 1) => Later(e).left = 0 /\ Later(e).found = {}
  /\ \A e \in [left: 0..TTL, found: SUBSET Contents] :
       /\ Later(e) \in [left: 0..TTL, found: SUBSET Contents]
       /\ e.left > 1 => Later(e).left = e.left - 1 /\ Later(e).found = e.found
       /\ ~ (e.left > 1) => Later(e).left = 0 /\ Later(e).found = {}
<1>1. ASSUME NEW e \in Entries
      PROVE  /\ Later(e) \in Entries /\ Later(e).query = e.query
             /\ e.left > 1 => Later(e).left = e.left - 1 /\ Later(e).found = e.found
             /\ ~ (e.left > 1) => Later(e).left = 0 /\ Later(e).found = {}
  <2>1. CASE e.left > 1
    BY <2>1, RagBounds DEF Later, Entries
  <2>2. CASE ~ (e.left > 1)
    <3>1. Later(e) = [e EXCEPT !.left = 0, !.found = {}]
      BY <2>2 DEF Later
    <3>2. 0 \in 0..TTL /\ {} \in SUBSET Contents
      BY RagBounds
    <3>. QED BY <2>2, <3>1, <3>2 DEF Entries
  <2>. QED BY <2>1, <2>2
<1>2. ASSUME NEW e \in [left: 0..TTL, found: SUBSET Contents]
      PROVE  /\ Later(e) \in [left: 0..TTL, found: SUBSET Contents]
             /\ e.left > 1 => Later(e).left = e.left - 1 /\ Later(e).found = e.found
             /\ ~ (e.left > 1) => Later(e).left = 0 /\ Later(e).found = {}
  <2>1. CASE e.left > 1
    BY <2>1, RagBounds DEF Later
  <2>2. CASE ~ (e.left > 1)
    <3>1. Later(e) = [e EXCEPT !.left = 0, !.found = {}]
      BY <2>2 DEF Later
    <3>2. 0 \in 0..TTL /\ {} \in SUBSET Contents
      BY RagBounds
    <3>. QED BY <2>2, <3>1, <3>2
  <2>. QED BY <2>1, <2>2
<1>. QED BY <1>1, <1>2

\* A function on 1..n is a sequence of length n.
LEMMA ListedShape ==
  ASSUME NEW S, NEW n \in Nat, NEW l \in [1..n -> S]
  PROVE  l \in Seq(S) /\ Len(l) = n
<1>1. l \in Seq(S)
  BY SeqDef
<1>2. DOMAIN l = 1..Len(l) /\ Len(l) \in Nat
  BY <1>1, LenProperties
<1>3. 1..n = 1..Len(l)
  BY <1>2
<1>. QED BY <1>1, <1>2, <1>3

\* Time passes, for documents, caches and calls.
LEMMA TickStep ==
  ASSUME RagInv, Tick
  PROVE  RagInv'
<1>. DEFINE Kinds == [trust: {"absent", "trusted", "untrusted"}, age: 0..OldAge, flagged: BOOLEAN]
            Cached == [left: 0..TTL, found: SUBSET Contents]
<1>1. documents' \in [Contents -> Kinds] /\ GoodDocuments'
  BY AllOlder
<1>2. redis' \in [Queries -> Cached] /\ GoodRedis'
  <2>1. redis \in [Queries -> Cached] /\ redis' = [q \in Queries |-> Later(redis[q])]
    BY DEF RagInv, RagTyped, RagTypeOK, Tick
  <2>2. ASSUME NEW q \in Queries
        PROVE  redis'[q] \in Cached /\ GoodEntry(q, redis[q].left, redis[q].found)'
    <3>. DEFINE e == redis[q]
    <3>1. e \in Cached /\ redis'[q] = Later(e)
      BY <2>1
    <3>2. GoodEntry(q, e.left, e.found)
      BY DEF RagInv, GoodRedis
    <3>. HIDE DEF e
    <3>3. /\ Later(e) \in Cached
          /\ e.left > 1 => Later(e).left = e.left - 1 /\ Later(e).found = e.found
          /\ ~ (e.left > 1) => Later(e).left = 0 /\ Later(e).found = {}
      BY <3>1, LaterShape
    <3>4. e.left \in 0..TTL
      BY <3>1
    <3>. DEFINE l == Later(e).left
                f == Later(e).found
    <3>. HIDE DEF l, f
    <3>5. (e.left > 1 => l = e.left - 1 /\ f = e.found) /\ (~ (e.left > 1) => l = 0 /\ f = {})
      BY <3>3 DEF l, f
    <3>6. \A x, y : x = l /\ y = f => GoodEntry(q, x, y)'
      BY <3>2, <3>4, <3>5, EntryLater
    <3>7. redis'[q].left = l /\ redis'[q].found = f
      BY <3>1 DEF l, f
    <3>8. GoodEntry(q, redis[q].left, redis[q].found)'
      BY <3>6, <3>7
    <3>. QED BY <3>1, <3>3, <3>8
  <2>3. redis' \in [Queries -> Cached]
    BY <2>1, <2>2
  <2>. QED BY <2>2, <2>3 DEF GoodRedis
<1>3. /\ local' \in [Processes -> Seq(Entries)]
      /\ \A w \in Processes : /\ Len(local'[w]) = Len(local[w]) /\ Len(local[w]) \in Nat
                              /\ \A i \in 1..Len(local[w]) : local'[w][i] = Later(local[w][i])
  <2>1. local \in [Processes -> Seq(Entries)]
    BY DEF RagInv, RagTyped
  <2>2. local' = [w \in Processes |-> [i \in 1..Len(local[w]) |-> Later(local[w][i])]]
    BY DEF Tick
  <2>3. ASSUME NEW w \in Processes
        PROVE  /\ local'[w] \in Seq(Entries)
               /\ Len(local'[w]) = Len(local[w]) /\ Len(local[w]) \in Nat
               /\ \A i \in 1..Len(local[w]) : local'[w][i] = Later(local[w][i])
    <3>. DEFINE k == Len(local[w])
    <3>1. local[w] \in Seq(Entries) /\ k \in Nat
      BY <2>1, LenProperties
    <3>2. local'[w] = [i \in 1..k |-> Later(local[w][i])]
      BY <2>2
    <3>3. \A i \in 1..k : Later(local[w][i]) \in Entries
      BY <3>1, ElementOfSeq, LaterShape
    <3>4. local'[w] \in [1..k -> Entries]
      BY <3>2, <3>3
    <3>. HIDE DEF k
    <3>5. local'[w] \in Seq(Entries) /\ Len(local'[w]) = k
      BY <3>1, <3>4, ListedShape
    <3>. QED BY <3>1, <3>2, <3>5 DEF k
  <2>. QED BY <2>2, <2>3
<1>4. GoodLocal'
  <2>. SUFFICES ASSUME NEW w \in Processes, NEW i \in 1..Len(local'[w])
       PROVE  GoodEntry(local[w][i].query, local[w][i].left, local[w][i].found)'
    BY DEF GoodLocal
  <2>. DEFINE e == local[w][i]
  <2>1. i \in 1..Len(local[w]) /\ local'[w][i] = Later(e) /\ local[w] \in Seq(Entries)
    BY <1>3 DEF RagInv, RagTyped
  <2>2. e \in Entries
    BY <2>1, ElementOfSeq
  <2>3. GoodEntry(e.query, e.left, e.found)
    BY <2>1 DEF RagInv, GoodLocal
  <2>. HIDE DEF e
  <2>4. /\ Later(e).query = e.query
        /\ e.left > 1 => Later(e).left = e.left - 1 /\ Later(e).found = e.found
        /\ ~ (e.left > 1) => Later(e).left = 0 /\ Later(e).found = {}
    BY <2>2, LaterShape
  <2>5. e.left \in 0..TTL
    BY <2>2 DEF Entries
  <2>. DEFINE q == e.query
              l == Later(e).left
              f == Later(e).found
  <2>6. /\ local'[w][i].query = q /\ local'[w][i].left = l /\ local'[w][i].found = f
    BY <2>1, <2>4
  <2>7. (e.left > 1 => l = e.left - 1 /\ f = e.found) /\ (~ (e.left > 1) => l = 0 /\ f = {})
    BY <2>4
  <2>8. GoodEntry(q, e.left, e.found)
    BY <2>3
  <2>. HIDE DEF q, l, f
  <2>9. \A p, x, y : p = q /\ x = l /\ y = f => GoodEntry(p, x, y)'
    BY <2>5, <2>7, <2>8, EntryLater
  <2>. QED BY <2>6, <2>9
<1>5. /\ search' \in [Searches -> Calls]
      /\ \A s \in Searches : GoodSearch(s)'
  <2>1. search \in [Searches -> Calls]
    BY DEF RagInv, RagTyped, RagTypeOK, Calls
  <2>2. search' = [s \in Searches |->
          IF SearchAt(s, "idle") THEN search[s] ELSE [search[s] EXCEPT !.spent = @ + 1]]
    BY DEF Tick
  <2>3. ASSUME NEW s \in Searches PROVE search'[s] \in Calls /\ GoodSearch(s)'
    <3>0. search[s] \in Calls
      BY <2>1
    <3>1. CASE SearchAt(s, "idle")
      BY <2>2, <3>0, <3>1 DEF GoodSearch, SearchAt
    <3>2. CASE ~ SearchAt(s, "idle")
      <4>1. search[s].at # "answered" /\ search[s].spent < SearchTime
        BY <3>2 DEF Tick, SearchAt
      <4>2. search[s].spent \in 0..SearchTime /\ search[s].spent + 1 \in 0..SearchTime
        BY <3>0, <4>1, RagBounds DEF Calls
      <4>3. search'[s] = [search[s] EXCEPT !.spent = search[s].spent + 1]
        BY <2>2, <3>2
      <4>4. /\ search'[s] \in Calls /\ search'[s].at = search[s].at /\ search'[s].query = search[s].query
            /\ search'[s].found = search[s].found /\ search'[s].spent = search[s].spent + 1
        BY <3>0, <4>2, <4>3 DEF Calls
      <4>5. GoodSearch(s)'
        <5>1. CASE search[s].at # "write"
          BY <4>1, <4>4, <5>1 DEF GoodSearch, SearchAt
        <5>2. CASE search[s].at = "write"
          <6>. DEFINE q == search[s].query
                      f == search[s].found
                      n == search[s].spent + 1
          <6>1. Backed(q, f) /\ Considers(q, f, n)
            BY <5>2 DEF RagInv, GoodSearch, SearchAt, Asked
          <6>2. n \in 0..OldAge
            BY <4>2, RagBounds
          <6>3. search'[s].query = q /\ search'[s].found = f /\ search'[s].spent + 1 = n + 1
            BY <4>4
          <6>. HIDE DEF q, f, n
          <6>4. \A p, g, m : p = q /\ g = f /\ m = n + 1 => Backed(p, g)' /\ Considers(p, g, m)'
            BY <6>1, <6>2, AllOlder
          <6>. QED BY <4>4, <5>2, <6>3, <6>4 DEF GoodSearch, SearchAt, Asked
        <5>. QED BY <5>1, <5>2
      <4>. QED BY <4>4, <4>5
    <3>. QED BY <3>1, <3>2
  <2>. QED BY <2>2, <2>3
<1>6. RagTyped'
  <2>1. ASSUME NEW w \in Processes
        PROVE  /\ local'[w] \in Seq([query: Queries, left: 0..TTL, found: SUBSET Contents])
               /\ Len(local'[w]) <= LocalEntries
               /\ \A i, j \in 1..Len(local'[w]) : local'[w][i].query = local'[w][j].query => i = j
    <3>1. local'[w] \in Seq([query: Queries, left: 0..TTL, found: SUBSET Contents])
      BY <1>3 DEF Entries
    <3>2. Len(local'[w]) <= LocalEntries
      BY <1>3 DEF RagInv, RagTyped, RagTypeOK
    <3>3. \A i \in 1..Len(local[w]) : local'[w][i].query = local[w][i].query
      <4>. SUFFICES ASSUME NEW i \in 1..Len(local[w]) PROVE local'[w][i].query = local[w][i].query
        OBVIOUS
      <4>1. local[w][i] \in Entries
        <5>1. local[w] \in Seq(Entries)
          BY DEF RagInv, RagTyped
        <5>. QED BY <5>1, ElementOfSeq
      <4>. QED BY <1>3, <4>1, LaterShape
    <3>4. \A i, j \in 1..Len(local[w]) : local[w][i].query = local[w][j].query => i = j
      BY DEF RagInv, RagTyped, RagTypeOK
    <3>. QED BY <1>3, <3>1, <3>2, <3>3, <3>4
  <2>. QED BY <1>1, <1>2, <1>3, <1>5, <2>1 DEF RagTyped, RagTypeOK, Calls
<1>. QED BY <1>1, <1>2, <1>4, <1>5, <1>6 DEF RagInv

\* The state before the first ingest and the first search.
LEMMA RagStart == RagInit => RagInv
<1>. SUFFICES ASSUME RagInit PROVE RagInv
  OBVIOUS
<1>1. 0 \in 0..TTL /\ 0 \in 0..OldAge /\ {} \in SUBSET Contents
  BY RagBounds
<1>2. documents \in [Contents -> [trust: {"absent", "trusted", "untrusted"}, age: 0..OldAge, flagged: BOOLEAN]]
  BY <1>1 DEF RagInit, Absent
<1>3. redis \in [Queries -> [left: 0..TTL, found: SUBSET Contents]] /\ GoodRedis
  BY <1>1 DEF RagInit, NoEntry, GoodRedis, GoodEntry, Backed
<1>4. \A w \in Processes : local[w] = <<>>
  BY DEF RagInit
<1>5. <<>> \in Seq(Entries) /\ Len(<<>>) = 0 /\ 0 <= LocalEntries
  BY RagBounds
<1>6. local \in [Processes -> Seq(Entries)]
  BY <1>5 DEF RagInit
<1>7. ASSUME NEW w \in Processes
      PROVE  /\ local[w] \in Seq([query: Queries, left: 0..TTL, found: SUBSET Contents])
             /\ Len(local[w]) <= LocalEntries
             /\ \A i, j \in 1..Len(local[w]) : local[w][i].query = local[w][j].query => i = j
  <2>1. local[w] = <<>> /\ Len(local[w]) = 0
    BY <1>4, <1>5
  <2>2. <<>> \in Seq([query: Queries, left: 0..TTL, found: SUBSET Contents])
    OBVIOUS
  <2>3. \A i \in 1..Len(local[w]) : FALSE
    BY <2>1
  <2>. QED BY <1>5, <2>1, <2>2, <2>3
<1>8. GoodLocal
  BY <1>4, <1>5 DEF GoodLocal
<1>9. search \in [Searches -> Calls] /\ \A s \in Searches : GoodSearch(s)
  BY NoCall DEF RagInit, GoodSearch, SearchAt
<1>10. GoodDocuments
  BY DEF RagInit, GoodDocuments, Absent
<1>. QED BY <1>2, <1>3, <1>6, <1>7, <1>8, <1>9, <1>10 DEF RagInv, RagTyped, RagTypeOK, Calls

\* What retrieval keeps is an invariant of all of its steps.
LEMMA RagSteps ==
  ASSUME RagInv, [RagNext]_ragVars
  PROVE  RagInv'
<1>1. CASE UNCHANGED ragVars
  <2>1. UNCHANGED <<documents, redis, local, search>>
    BY <1>1 DEF ragVars
  <2>2. redis' \in [Queries -> [left: 0..TTL, found: SUBSET Contents]]
        /\ \A q \in Queries : GoodEntry(q, redis'[q].left, redis'[q].found)
    BY <2>1 DEF RagInv, RagTyped, RagTypeOK, GoodRedis
  <2>3. search' \in [Searches -> Calls] /\ \A s \in Searches : GoodSearch(s)'
    BY <2>1 DEF RagInv, RagTyped, RagTypeOK, Calls, GoodSearch, SearchAt, Asked,
                      Backed, Considers, Usable
  <2>. QED BY <2>1, <2>2, <2>3, CachesKept, RagAssembled
<1>2. CASE Tick
  BY <1>2, TickStep
<1>3. ASSUME NEW s \in Searches, SearchStep(s) PROVE RagInv'
  BY <1>3, ReadDocumentsStep, RedisSetStep, LocalSetStep, EndSearchStep DEF SearchStep
<1>4. ASSUME NEW s \in Searches, NEW q \in Queries, RedisGet(s, q) \/ LocalGet(s, q) PROVE RagInv'
  BY <1>4, RedisGetStep, LocalGetStep
<1>5. ASSUME NEW c \in Contents, NEW base \in Risks, NEW guard \in Guards,
             NEW label \in {"trusted", "untrusted"}, Ingest(c, base, guard, label)
      PROVE  RagInv'
  BY <1>5, IngestStep
<1>. QED BY <1>1, <1>2, <1>3, <1>4, <1>5 DEF RagNext

\* So that the invariant always holds.
LEMMA RagAlways == RagSpec => []RagInv
<1>. QED BY RagStart, RagSteps, PTL DEF RagSpec

\* The invariant is worth having.
LEMMA RagSafe == RagInv => OwnTrusted /\ FreshEnough
<1>. SUFFICES ASSUME RagInv PROVE OwnTrusted /\ FreshEnough
  OBVIOUS
<1>1. ASSUME NEW s \in Searches, SearchAt(s, "answered"), NEW c \in search[s].found
      PROVE  OwnedBy[c] = AskedBy[Asked(s)] /\ ~ documents[c].flagged
  <2>1. Backed(Asked(s), search[s].found)
    BY <1>1 DEF RagInv, GoodSearch
  <2>2. c \in Usable(Asked(s))
    BY <1>1, <2>1 DEF Backed
  <2>. QED BY <2>2 DEF Usable, RagInv, GoodDocuments
<1>2. ASSUME NEW s \in Searches, SearchAt(s, "answered"), NEW c \in Usable(Asked(s)),
             documents[c].age >= TTL + SearchTime + search[s].spent
      PROVE  c \in search[s].found
  BY <1>2 DEF RagInv, GoodSearch, Considers
<1>. QED BY <1>1, <1>2 DEF OwnTrusted, FreshEnough

\* rag.py:search, with context_is_usable and the input guard: no answer holds
\* another tenant's document or one that was rated high, from either cache.
THEOREM AnswersAreTrusted == RagSpec => []OwnTrusted
<1>. QED BY RagAlways, RagSafe, PTL

\* rag.py:_cache_get and _cache_set: however Redis and the local caches take
\* turns, an answer has considered what was ingested TTL and one search ago.
THEOREM AnswersAreFresh == RagSpec => []FreshEnough
<1>. QED BY RagAlways, RagSafe, PTL

\* rag.py:_local_cache_set: a process' local cache never exceeds
\* local_cache_max_entries, and has one entry of a key at most.
THEOREM CachesAreBounded == RagSpec => []RagTypeOK
<1>1. RagInv => RagTypeOK
  BY DEF RagInv, RagTyped
<1>. QED BY <1>1, RagAlways, PTL

-----------------------------------------------------------------------------
(* The pool.                                                               *)

\* Why TenantIsolation holds: a request has a connection exactly while it is past
\* Acquire, alone, and whatever is set on it ends with the transaction.
Holds(r) == InTransaction(r) \/ StmtAt(r, "release")
PoolInv ==
  /\ PoolTypeOK /\ TenantIsolation
  /\ \A r \in Requests : Holds(r) <=> Conn(r) # NoConnection
  /\ \A c \in Connections : session[c].local

\* What stmt is, by PoolTypeOK.
StmtTypes ==
  [Requests -> [at: {"between", "acquire", "prepare", "execute", "commit", "release"},
                conn: Connections \union {NoConnection}, touched: SUBSET PoolTenants]]

\* The initial states satisfy the invariant.
LEMMA PoolStarts == PoolInit => PoolInv
BY PoolAssumption DEF PoolInit, PoolInv, PoolTypeOK, TenantIsolation, Holds, InTransaction,
                      StmtAt, Conn, Unset

\* A connection that carries a tenant is that of the one request that set it.
LEMMA Carrier ==
  ASSUME PoolInv, NEW r \in Requests, Holds(r), session[Conn(r)].tenant # NoTenant
  PROVE  InTransaction(r) /\ session[Conn(r)].tenant = context[r]
<1>1. Conn(r) \in Connections
  BY DEF PoolInv, PoolTypeOK, Conn
<1>2. PICK q \in Requests : Conn(q) = Conn(r) /\ InTransaction(q) /\ context[q] = session[Conn(r)].tenant
  BY <1>1 DEF PoolInv, TenantIsolation
<1>3. q = r
  BY <1>1, <1>2, PoolAssumption DEF PoolInv, PoolTypeOK
<1>. QED BY <1>2, <1>3

\* The connection of a request that holds one is nobody else's.
LEMMA SoleHolder ==
  ASSUME PoolInv, NEW r \in Requests, Holds(r)
  PROVE  Conn(r) \in Connections /\ \A q \in Requests : Conn(q) = Conn(r) => q = r
BY DEF PoolInv, PoolTypeOK, Conn

\* The end of a transaction, by COMMIT or ROLLBACK, preserves the invariant.
LEMMA EndsTransaction ==
  ASSUME PoolInv, NEW r \in Requests, InTransaction(r), StmtGoto(r, "release"),
         EndTransaction(Conn(r)), UNCHANGED <<context, idle>>
  PROVE  PoolInv'
<1>. USE DEF StmtAt, Conn
<1>1. Conn(r) \in Connections /\ \A q \in Requests : Conn(q) = Conn(r) => q = r
  BY SoleHolder DEF Holds
<1>2. session' = [session EXCEPT ![Conn(r)] = Unset]
  BY <1>1 DEF EndTransaction, PoolInv
<1>3. stmt' = [stmt EXCEPT ![r].at = "release"]
  BY DEF StmtGoto
<1>4. /\ \A q \in Requests : Conn(q)' = Conn(q) /\ (Holds(q) => Holds(q)') /\ (Holds(q)' => Holds(q))
      /\ \A q \in Requests \ {r} : stmt'[q] = stmt[q]
  BY <1>3 DEF Holds, InTransaction, PoolInv, PoolTypeOK
<1>5. PoolTypeOK'
  <2>1. session' \in [Connections -> [tenant: PoolTenants \union {NoTenant}, local: BOOLEAN]]
    BY <1>1, <1>2 DEF PoolInv, PoolTypeOK, Unset
  <2>2. stmt' \in StmtTypes
    BY <1>3 DEF PoolInv, PoolTypeOK, StmtTypes
  <2>. QED BY <2>1, <2>2, <1>4 DEF PoolInv, PoolTypeOK, StmtTypes
<1>6. \A q \in Requests : StmtAt(q, "commit")' => stmt'[q].touched \subseteq {context'[q]}
  BY <1>3 DEF PoolInv, PoolTypeOK, TenantIsolation
<1>7. ASSUME NEW c \in Connections, session'[c].tenant # NoTenant
      PROVE  \E q \in Requests : Conn(q)' = c /\ InTransaction(q)' /\ context'[q] = session'[c].tenant
  <2>1. c # Conn(r) /\ session'[c] = session[c]
    BY <1>1, <1>2, <1>7 DEF PoolInv, PoolTypeOK, Unset
  <2>2. PICK q \in Requests : Conn(q) = c /\ InTransaction(q) /\ context[q] = session[c].tenant
    BY <1>7, <2>1 DEF PoolInv, TenantIsolation
  <2>3. InTransaction(q)'
    BY <1>4, <2>1, <2>2 DEF InTransaction
  <2>. QED BY <2>1, <2>2, <2>3, <1>4
<1>8. \A c \in Connections : session'[c].local
  BY <1>1, <1>2 DEF PoolInv, PoolTypeOK, Unset
<1>. QED BY <1>4, <1>5, <1>6, <1>7, <1>8 DEF PoolInv, TenantIsolation

\* Every step preserves the invariant.
LEMMA PoolSteps == PoolInv /\ [PoolNext]_poolVars => PoolInv'
<1>. SUFFICES ASSUME PoolInv, [PoolNext]_poolVars PROVE PoolInv'
  OBVIOUS
<1>. USE DEF StmtAt, Conn
<1>1. ASSUME NEW r \in Requests, NEW t \in PoolTenants \union {NoTenant}, SetContext(r, t)
      PROVE  PoolInv'
  <2>1. context' \in [Requests -> PoolTenants \union {NoTenant}] /\ UNCHANGED <<stmt, session, idle>>
    BY <1>1 DEF SetContext, PoolInv, PoolTypeOK
  <2>2. \A q \in Requests : InTransaction(q) => context'[q] = context[q]
    BY <1>1 DEF SetContext, PoolInv, PoolTypeOK, InTransaction
  <2>3. \A q \in Requests : StmtAt(q, "commit") => InTransaction(q)
    BY DEF InTransaction
  <2>. QED BY <2>1, <2>2, <2>3 DEF PoolInv, PoolTypeOK, TenantIsolation, Holds, InTransaction
<1>2. ASSUME NEW r \in Requests, BeginStatement(r) PROVE PoolInv'
  BY <1>2 DEF BeginStatement, StmtGoto, PoolInv, PoolTypeOK, TenantIsolation, Holds, InTransaction
<1>3. ASSUME NEW r \in Requests, NEW c \in Connections, Acquire(r, c) PROVE PoolInv'
  <2>1. /\ stmt' = [stmt EXCEPT ![r] = [@ EXCEPT !.at = "prepare", !.conn = c]]
        /\ idle' = idle \ {c} /\ UNCHANGED <<context, session>>
    BY <1>3 DEF Acquire
  <2>2. /\ stmt'[r].at = "prepare" /\ stmt'[r].conn = c
        /\ \A q \in Requests \ {r} : stmt'[q] = stmt[q]
        /\ stmt' \in StmtTypes
    <3>1. stmt \in StmtTypes
      BY DEF PoolInv, PoolTypeOK, StmtTypes
    <3>2. [stmt[r] EXCEPT !.at = "prepare", !.conn = c]
            \in [at: {"between", "acquire", "prepare", "execute", "commit", "release"},
                 conn: Connections \union {NoConnection}, touched: SUBSET PoolTenants]
      BY <3>1 DEF StmtTypes
    <3>. QED BY <2>1, <3>1, <3>2 DEF StmtTypes
  <2>3. \A q \in Requests : Conn(q) # c
    BY <1>3 DEF Acquire, PoolInv, PoolTypeOK
  <2>4. Conn(r) = NoConnection /\ ~ InTransaction(r) /\ c # NoConnection
    BY <1>3, PoolAssumption DEF Acquire, PoolInv, Holds, InTransaction
  <2>5. PoolTypeOK'
    <3>1. \A q \in Requests : Conn(q)' = IF q = r THEN c ELSE Conn(q)
      BY <2>2
    <3>2. idle' = {d \in Connections : ~ \E q \in Requests : Conn(q)' = d}
      BY <2>1, <2>4, <3>1, PoolAssumption DEF PoolInv, PoolTypeOK
    <3>3. \A q, s \in Requests : Conn(q)' = Conn(s)' /\ Conn(q)' # NoConnection => q = s
      BY <2>3, <3>1 DEF PoolInv, PoolTypeOK
    <3>. QED BY <2>1, <2>2, <3>2, <3>3 DEF PoolInv, PoolTypeOK, StmtTypes
  <2>6. TenantIsolation'
    BY <2>1, <2>2, <2>4 DEF PoolInv, TenantIsolation, InTransaction
  <2>7. \A q \in Requests : Holds(q)' <=> Conn(q)' # NoConnection
    BY <2>2, <2>4 DEF PoolInv, Holds, InTransaction
  <2>. QED BY <2>1, <2>5, <2>6, <2>7 DEF PoolInv
<1>4. ASSUME NEW r \in Requests, Prepare(r) PROVE PoolInv'
  <2>1. InTransaction(r) /\ Conn(r) \in Connections
    BY <1>4, SoleHolder DEF Prepare, Holds, InTransaction
  <2>2. session'[Conn(r)].tenant # NoTenant => session'[Conn(r)].tenant = context[r]
    BY <1>4, <2>1, Carrier DEF Prepare, Holds, PoolInv, PoolTypeOK
  <2>3. /\ session' \in [Connections -> [tenant: PoolTenants \union {NoTenant}, local: {TRUE}]]
        /\ \A c \in Connections \ {Conn(r)} : session'[c] = session[c]
    <3>1. \A c \in Connections : session[c] \in [tenant: PoolTenants \union {NoTenant}, local: {TRUE}]
      BY DEF PoolInv, PoolTypeOK
    <3>2. context[r] \in PoolTenants \union {NoTenant} /\ session \in [Connections -> [tenant: PoolTenants \union {NoTenant}, local: BOOLEAN]]
      BY DEF PoolInv, PoolTypeOK
    <3>. QED BY <1>4, <2>1, <3>1, <3>2 DEF Prepare
  <2>4. /\ stmt' = [stmt EXCEPT ![r].at = "execute"] /\ UNCHANGED <<context, idle>>
    BY <1>4 DEF Prepare, StmtGoto
  <2>5. PoolTypeOK' /\ \A q \in Requests : Holds(q)' = Holds(q) /\ Conn(q)' = Conn(q)
                     /\ InTransaction(q)' = InTransaction(q)
    <3>1. stmt' \in StmtTypes /\ stmt \in StmtTypes
      BY <2>4 DEF PoolInv, PoolTypeOK, StmtTypes
    <3>2. \A q \in Requests : Holds(q)' = Holds(q) /\ Conn(q)' = Conn(q) /\ InTransaction(q)' = InTransaction(q)
      BY <2>1, <2>4, <3>1 DEF StmtTypes, Holds, InTransaction
    <3>3. session' \in [Connections -> [tenant: PoolTenants \union {NoTenant}, local: BOOLEAN]]
      BY <2>3
    <3>4. idle' = {c \in Connections : ~ \E q \in Requests : Conn(q)' = c}
      BY <2>4, <3>2 DEF PoolInv, PoolTypeOK
    <3>5. \A q, s \in Requests : Conn(q)' = Conn(s)' /\ Conn(q)' # NoConnection => q = s
      BY <3>2 DEF PoolInv, PoolTypeOK
    <3>6. context' \in [Requests -> PoolTenants \union {NoTenant}]
      BY <2>4 DEF PoolInv, PoolTypeOK
    <3>7. PoolTypeOK'
      BY <3>1, <3>3, <3>4, <3>5, <3>6 DEF PoolTypeOK, StmtTypes
    <3>. QED BY <3>2, <3>7
  <2>6. \A q \in Requests : StmtAt(q, "commit")' => stmt'[q].touched \subseteq {context'[q]}
    BY <2>4 DEF PoolInv, PoolTypeOK, TenantIsolation
  <2>7. ASSUME NEW c \in Connections, session'[c].tenant # NoTenant
        PROVE  \E q \in Requests : Conn(q)' = c /\ InTransaction(q)' /\ context'[q] = session'[c].tenant
    <3>1. CASE c = Conn(r)
      BY <3>1, <2>1, <2>2, <2>4, <2>5, <2>7
    <3>2. CASE c # Conn(r)
      BY <3>2, <2>3, <2>4, <2>5, <2>7 DEF PoolInv, TenantIsolation
    <3>. QED BY <3>1, <3>2
  <2>. QED BY <2>3, <2>5, <2>6, <2>7 DEF PoolInv, TenantIsolation
<1>5. ASSUME NEW r \in Requests, Execute(r) PROVE PoolInv'
  <2>1. InTransaction(r) /\ stmt' = [stmt EXCEPT ![r] = [@ EXCEPT !.at = "commit", !.touched = Allowed(Conn(r))]]
        /\ UNCHANGED <<context, session, idle>>
    BY <1>5 DEF Execute, InTransaction
  <2>2. Allowed(Conn(r)) \subseteq {context[r]}
    BY <2>1, Carrier, PoolAssumption DEF Allowed, Holds
  <2>3. /\ stmt'[r].at = "commit" /\ stmt'[r].touched = Allowed(Conn(r))
        /\ stmt'[r].conn = Conn(r)
        /\ \A q \in Requests \ {r} : stmt'[q] = stmt[q]
        /\ stmt' \in StmtTypes
    BY <2>1 DEF PoolInv, PoolTypeOK, StmtTypes, Allowed
  <2>4. \A q \in Requests : Conn(q)' = Conn(q) /\ InTransaction(q)' = InTransaction(q) /\ Holds(q)' = Holds(q)
    BY <2>1, <2>3 DEF InTransaction, Holds
  <2>5. PoolTypeOK'
    BY <2>1, <2>3, <2>4 DEF PoolInv, PoolTypeOK, StmtTypes
  <2>6. TenantIsolation'
    BY <2>1, <2>2, <2>3, <2>4 DEF PoolInv, TenantIsolation
  <2>. QED BY <2>1, <2>4, <2>5, <2>6 DEF PoolInv
<1>6. ASSUME NEW r \in Requests, Commit(r) PROVE PoolInv'
  BY <1>6, EndsTransaction DEF Commit, InTransaction
<1>7. ASSUME NEW r \in Requests, Rollback(r) PROVE PoolInv'
  BY <1>7, EndsTransaction DEF Rollback
<1>8. ASSUME NEW r \in Requests, Release(r) PROVE PoolInv'
  BY <1>8, PoolAssumption DEF Release, Unset, PoolInv, PoolTypeOK, TenantIsolation, Holds, InTransaction
<1>9. ASSUME NEW r \in Requests, GiveUpWaiting(r) PROVE PoolInv'
  BY <1>9 DEF GiveUpWaiting, StmtGoto, PoolInv, PoolTypeOK, TenantIsolation, Holds, InTransaction
<1>10. CASE UNCHANGED poolVars
  BY <1>10 DEF poolVars, PoolInv, PoolTypeOK, TenantIsolation, Holds, InTransaction
<1>. QED
  BY <1>1, <1>2, <1>3, <1>4, <1>5, <1>6, <1>7, <1>8, <1>9, <1>10 DEF PoolNext, Turn, StatementStep

\* A statement touches rows of no tenant but the one its own request has set, and
\* no connection carries a tenant outside a transaction, for any number of
\* requests, tenants and connections.
THEOREM TenantsStayApart == PoolSpec => []TenantIsolation
<1>1. PoolInv => TenantIsolation
  BY DEF PoolInv
<1>. QED BY PoolStarts, PoolSteps, <1>1, PTL DEF PoolSpec
=============================================================================
