---------------------------- MODULE PolicyReview ----------------------------
(***************************************************************************)
(* A request and its review, as far as policy decides them: the decision   *)
(* _run takes for the requester, and the one approve recomputes for the    *)
(* reviewer.  The engine in use may differ between the two (OPA            *)
(* configured, reconfigured or unreachable).                               *)
(***************************************************************************)
EXTENDS Policy

CONSTANT TokenScopes    \* the words that the scope claim of a token may hold

VARIABLES request, decision, review
vars == <<request, decision, review>>

\* Who _principal takes a caller to be: role, scopes and MFA are claims of their
\* own, of which an identity provider may issue any combination.
Principals == [role: Roles, scopes: SUBSET TokenScopes, mfa: BOOLEAN]

Nobody == [role |-> "viewer", scopes |-> {}, mfa |-> FALSE]
NoRequest == [action |-> "none", by |-> Nobody, inputRisk |-> "low"]
NoReview == [verdict |-> "none", by |-> Nobody, inputRisk |-> "low", engine |-> "local"]

Init == request = NoRequest /\ decision = Refuse /\ review = NoReview

\* WorkflowEngine._run: the decision on the planned tool, for the requester.
Request(a, p, risk, engine) ==
  /\ request = NoRequest
  /\ request' = [action |-> a, by |-> p, inputRisk |-> risk]
  /\ decision' = Evaluate(engine, a, p, risk)
  /\ UNCHANGED review

\* approve: the request is classified again and the decision recomputed for the
\* reviewer, who must be entitled to it; its tier must still be the one the
\* approval was requested for.
Review(p, risk, engine) ==
  LET jit == Evaluate(engine, request.action, p, risk) IN
  /\ decision.requires_approval
  /\ review = NoReview
  /\ review' = [by |-> p, inputRisk |-> risk, engine |-> engine, verdict |->
        IF ~ ApprovalAuthorized(jit, p) THEN "forbidden"
        ELSE IF jit.approval_tier # decision.approval_tier THEN "policy_changed"
        ELSE "authorized"]
  /\ UNCHANGED <<request, decision>>

\* The next request.
Done ==
  /\ request # NoRequest
  /\ request' = NoRequest /\ decision' = Refuse /\ review' = NoReview

Next ==
  \/ Done
  \/ \E a \in TOOLS \union {"simulate_timeout"}, p \in Principals,
       risk \in InputRisks, e \in Engines : Request(a, p, risk, e)
  \/ \E p \in Principals, risk \in InputRisks, e \in Engines : Review(p, risk, e)

Spec == Init /\ [][Next]_vars

-----------------------------------------------------------------------------

\* The two rule sets are written in two languages: on every side-effecting
\* tool they give the same decision to every caller, so that switching
\* OPA_URL on or off cannot open or close a governed write.
EnginesAgreeOnWrites ==
  request.action \in SideEffectTools =>
    LocalDecision(request.action, request.by, request.inputRisk)
      = OpaDecision(request.action, request.by, request.inputRisk)

\* The local rules never permit what the authoritative OPA rules refuse.
LocalWithinOpa ==
  LET l == LocalDecision(request.action, request.by, request.inputRisk)
      o == OpaDecision(request.action, request.by, request.inputRisk)
  IN  request # NoRequest => (l.allowed => o.allowed) /\ (l.requires_approval => o.requires_approval)

\* So the two are interchangeable as far as anything is protected by them.
RuleSetsAgree == EnginesAgreeOnWrites /\ LocalWithinOpa

\* An authorized review is one by a caller with the scope, and for a high-risk
\* tool the MFA claim, that the risk of the tool calls for; no side effect gets
\* past a review that a viewer asked for or gave, that was asked for or given
\* on an input with injection signals, or given while OPA did not answer.  The
\* role beyond that is not looked at: approval_authorized goes by the scopes.
AuthorizedByScope ==
  review.verdict = "authorized" =>
    /\ request.action \in SideEffectTools /\ review.engine # "opa_down"
    /\ \A step \in {request, review} :
         step.inputRisk = "low" /\ ROLE_LEVEL[step.by.role] >= ROLE_LEVEL["operator"]
    /\ request.action \in MediumRisk => "approve:team" \in review.by.scopes
    /\ request.action \in HighRisk => "approve:executive" \in review.by.scopes /\ review.by.mfa

\* Answers, from which the execution model draws the decisions of the engine,
\* leaves out no decision either engine can give.
AnswersCover ==
  request # NoRequest => decision \in Answers(request.action)
=============================================================================
