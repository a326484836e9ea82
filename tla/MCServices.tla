----------------------------- MODULE MCServices -----------------------------
(***************************************************************************)
(* The services around the engine, on small instances for TLC.  They share *)
(* no state in these models, so that nothing is lost by looking at one     *)
(* service at a time: a behaviour chooses the service that it is about.    *)
(***************************************************************************)
EXTENDS TaskIntake, EventBus, Retrieval, TenantPool, PriceTool, Seed

CONSTANTS ann, bob,     \* actors
          p1, p2, p3,   \* posts
          k1,           \* an Idempotency-Key
          m, n,         \* tenants
          s1, s2,       \* streams
          q1, q2,       \* searches
          m1,           \* a document of tenant m
          askM, askN    \* a question of either tenant

VARIABLE service
services == <<intakeVars, busVars, ragVars, poolVars, priceVars, seedVars, service>>

\* Ann posts under one key twice; Bob happens to use the same key, or none.
AnnTwiceAndBob == [p \in {p1, p2, p3} |-> IF p = p3 THEN bob ELSE ann]
OneKey == [p \in {p1, p2, p3} |-> IF p = p3 THEN {k1, NoKey} ELSE {k1}]

\* A stream of each tenant.
StreamEach == [s \in {s1, s2} |-> IF s = s1 THEN m ELSE n]

\* Two searches at a time, in one process; each tenant asks one question.
OneCache == [s \in {q1, q2} |-> "process"]
OneQuestionEach == [q \in {askM, askN} |-> IF q = askM THEN m ELSE n]
OfM == [c \in {m1} |-> m]

Services == {"intake", "bus", "retrieval", "pool", "price", "seed"}

\* Only the service s takes a step.
Alone(s) ==
  /\ service = s /\ UNCHANGED service
  /\ s # "intake" => UNCHANGED intakeVars
  /\ s # "bus" => UNCHANGED busVars
  /\ s # "retrieval" => UNCHANGED ragVars
  /\ s # "pool" => UNCHANGED poolVars
  /\ s # "price" => UNCHANGED priceVars
  /\ s # "seed" => UNCHANGED seedVars

ServicesInit ==
  /\ service \in Services
  /\ IntakeInit /\ BusInit /\ RagInit /\ PoolInit /\ PriceInit /\ SeedInit

ServicesNext ==
  \/ Alone("intake") /\ IntakeNext
  \/ Alone("bus") /\ BusNext
  \/ Alone("retrieval") /\ RagNext
  \/ Alone("pool") /\ PoolNext
  \/ Alone("price") /\ PriceNext
  \/ Alone("seed") /\ SeedNext

\* The fairness of FairPoolSpec and FairSeedSpec.
ServicesSpec ==
  /\ ServicesInit /\ [][ServicesNext]_services
  /\ \A r \in Requests : /\ SF_services(Alone("pool") /\ Turn(r))
                         /\ WF_services(Alone("pool") /\ StatementStep(r))
  /\ \A w \in Starters : WF_services(Alone("seed") /\ SeedStep(w))

-----------------------------------------------------------------------------

\* The variables of every service hold values of their kinds; among them, the
\* bounds of queues, caches and pools.
ServicesTypeOK ==
  IntakeTypeOK /\ BusTypeOK /\ RagTypeOK /\ PoolTypeOK /\ PriceTypeOK /\ SeedTypeOK

\* ProcessesUp of the module Seed, when it is the service that moves.
SeedProcessesUp == service = "seed" => ProcessesUp
=============================================================================
