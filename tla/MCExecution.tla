---------------------------- MODULE MCExecution -----------------------------
(* Small instances of Execution for TLC.                                   *)
EXTENDS Execution, TLC

CONSTANTS t1, t2, h1, h2

Executive == DemoPrincipal("executive", TRUE)
Admin == DemoPrincipal("admin", TRUE)

OneExecutive == {Executive}
Approvers == {Executive, Admin}

PriceChange == [t \in {t1} |-> "change_product_price"]
RefundAndHealthCheck == [t \in {t1, t2} |-> IF t = t1 THEN "issue_refund" ELSE "get_service_health"]

\* Handlers are interchangeable.
HandlerSymmetry == Permutations(Handlers)
=============================================================================
