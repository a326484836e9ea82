SPECIFICATION Spec
CONSTANT TokenScopes = {"approve:team", "approve:executive"}
INVARIANT RuleSetsAgree
INVARIANT AuthorizedByScope
INVARIANT AnswersCover
