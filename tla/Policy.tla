------------------------------- MODULE Policy -------------------------------
(***************************************************************************)
(* Policy decisions of Aurelian: the two engines behind                    *)
(* app/policy.py:evaluate (the local YAML rules and the OPA rego rules),   *)
(* the fail-closed answer, and approval_authorized.  A decision is the     *)
(* part of PolicyDecision the callers branch on.                           *)
(***************************************************************************)
EXTENDS Naturals

Roles == {"viewer", "operator", "admin", "executive"}
InputRisks == {"low", "medium", "high"}

\* app/auth.py: the rank of a role.
ROLE_LEVEL == [viewer |-> 0, operator |-> 1, admin |-> 2, executive |-> 3]

\* The scopes that go with a role in a demo token, and the caller who holds one.
Scopes(role) ==
  {"read"} \union (IF role = "viewer" THEN {} ELSE {"operate"})
           \union (IF role \in {"admin", "executive"} THEN {"approve:team"} ELSE {})
           \union (IF role = "executive" THEN {"approve:executive"} ELSE {})
DemoPrincipal(role, mfa) == [role |-> role, scopes |-> Scopes(role), mfa |-> mfa]

-----------------------------------------------------------------------------
(* The tool registry and the two rule sets.                                *)

LowRisk == {"search_knowledge", "get_service_health", "list_inventory",
            "recommend_reorders", "get_customer_profile", "get_order_backlog"}
MediumRisk == {"send_notice", "restart_service"}
HighRisk == {"change_product_price", "issue_refund", "disable_user_account"}
TOOLS == LowRisk \union MediumRisk \union HighRisk
SideEffectTools == MediumRisk \union HighRisk

\* opa/policy.rego and policies/policy.yaml register the same risk per tool.
ActionRisk(a) == IF a \in LowRisk THEN "low"
                 ELSE IF a \in MediumRisk THEN "medium" ELSE "high"
ApprovalTier == [low |-> "none", medium |-> "team", high |-> "executive_mfa"]

Decision(allowed, requires, tier) ==
  [allowed |-> allowed, requires_approval |-> requires, approval_tier |-> tier]
Permit == Decision(TRUE, FALSE, "none")
Refuse == Decision(FALSE, FALSE, "none")
NeedsApproval(tier) == Decision(FALSE, TRUE, tier)

Granted(risk) == IF risk = "low" THEN Permit ELSE NeedsApproval(ApprovalTier[risk])

\* policies/policy.yaml: the role a caller needs, per tier or per action.
YamlMinimumRole(a) ==
  IF a \in {"recommend_reorders", "get_customer_profile", "get_order_backlog"}
              \union SideEffectTools
  THEN "operator" ELSE "viewer"

\* In both environments the tier of a medium or high action is not "none", so
\* the two approval branches of the code give the same decision.
LocalDecision(a, p, inputRisk) ==
  IF \/ a \notin TOOLS
     \/ ROLE_LEVEL[p.role] < ROLE_LEVEL[YamlMinimumRole(a)]
     \/ inputRisk # "low" /\ ActionRisk(a) # "low"
  THEN Refuse ELSE Granted(ActionRisk(a))

\* Mutant: the rego rules ask for one rank more than the policy file.
MinLevelHigher == [low |-> 0, medium |-> 1, high |-> 2]

MinLevel == [low |-> 0, medium |-> 1, high |-> 1]

OpaDecision(a, p, inputRisk) ==
  IF /\ a \in TOOLS
     /\ ROLE_LEVEL[p.role] >= MinLevel[ActionRisk(a)]
     /\ ~ (inputRisk # "low" /\ ActionRisk(a) # "low")
  THEN Granted(ActionRisk(a)) ELSE Refuse

\* The engine in use: the YAML rules when no OPA is configured, else OPA, and
\* a refusal when the call to OPA fails in any way.
Engines == {"local", "opa", "opa_down"}
\* Mutant: without an answer from OPA the action is permitted.
EvaluateFailOpen(engine, a, p, inputRisk) ==
  IF engine = "local" THEN LocalDecision(a, p, inputRisk)
  ELSE IF engine = "opa" THEN OpaDecision(a, p, inputRisk) ELSE Permit

Evaluate(engine, a, p, inputRisk) ==
  IF engine = "local" THEN LocalDecision(a, p, inputRisk)
  ELSE IF engine = "opa" THEN OpaDecision(a, p, inputRisk) ELSE Refuse

\* Mutant: the MFA claim is not looked at.
ApprovalAuthorizedNoMfa(d, p) ==
  /\ d.requires_approval
  /\ \/ d.approval_tier = "team" /\ "approve:team" \in p.scopes
     \/ d.approval_tier = "executive_mfa" /\ "approve:executive" \in p.scopes

ApprovalAuthorized(d, p) ==
  /\ d.requires_approval
  /\ \/ d.approval_tier = "team" /\ "approve:team" \in p.scopes
     \/ d.approval_tier = "executive_mfa" /\ "approve:executive" \in p.scopes /\ p.mfa

\* What an engine may answer about a tool, whatever the caller, the input and
\* the policy version deployed at that moment: a side effect may be moved
\* between the approval tiers by a policy change, it is never left ungated.
Answers(a) == {Refuse} \union
  IF a \in SideEffectTools THEN {NeedsApproval("team"), NeedsApproval("executive_mfa")}
                           ELSE {Permit}

=============================================================================
