--------------------------- MODULE MCControlPlane ---------------------------
(* Small instances of ControlPlane for TLC.                                *)
EXTENDS ControlPlane, TLC

CONSTANTS t1, t2, h1, h2, h3, w1, w2, none

Executive == DemoPrincipal("executive", TRUE)
Admin == DemoPrincipal("admin", TRUE)
Operator == DemoPrincipal("operator", TRUE)

OneExecutive == {Executive}
Reviewers == {Executive, Admin, Operator}

PriceChange == [t \in {t1} |-> "change_product_price"]
RestartAndHealthCheck == [t \in {t1, t2} |-> IF t = t1 THEN "restart_service" ELSE "get_service_health"]

OneProcess == [h \in Handlers |-> w1]
TwoProcesses == [h \in Handlers |-> IF h = h1 THEN w1 ELSE w2]

\* The handlers of one process are interchangeable.
HandlerSymmetry == Permutations({h \in Handlers : WorkerOf[h] = WorkerOf[h2]})
=============================================================================
