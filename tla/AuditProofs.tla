---------------------------- MODULE AuditProofs -----------------------------
(***************************************************************************)
(* Proofs about AuditLog for any writers, tenants, events and pool, and    *)
(* both backends: every tenant's chain stays valid, what was acknowledged  *)
(* stays in the log, the log implements AuditChain, and the writers never  *)
(* all wait for each other.                                                *)
(***************************************************************************)
EXTENDS AuditLog, FiniteSetTheorems, TLAPS

\* Why ChainValid holds: the writer that has read the head is alone with the
\* chain until its row is there, and the row's id is the tenant's largest.
Holding == {"head", "insert", "commit", "unlock"}
ChainInv ==
  /\ ChainValid
  /\ \A r \in rows : r.id < nextId
  /\ \A t \in Tenants : Of(t) # {} => \E r \in Of(t) : \A q \in Of(t) \ {r} : q.id < r.id
  /\ \A w \in Writers : pc[w] \in Holding => lock[Chain(w)] = w
  /\ \A w \in Writers : pc[w] \in {"insert", "commit"} =>
       append[w].prev_hash = HeadHash(Of(Chain(w)))
  /\ \A w \in Writers : At(w, "commit") =>
       append[w].id < nextId /\ \A q \in Of(Chain(w)) : q.id < append[w].id

\* The locals of a fresh call are typed, and so are a writer's row and its
\* updates.
LEMMA RowTypes ==
  /\ NoAppend \in Appends
  /\ \A t \in Tenants, e \in Events : [NoAppend EXCEPT !.tenant = t, !.event = e] \in Appends
  /\ \A a \in Appends, p \in Seq(Events) : [a EXCEPT !.prev_hash = p] \in Appends
  /\ \A a \in Appends, n \in Nat : [a EXCEPT !.id = n] \in Appends
<1>1. NoAppend \in Appends
  <2>1. (CHOOSE t \in Tenants : TRUE) \in Tenants /\ (CHOOSE e \in Events : TRUE) \in Events
    BY AuditAssumption
  <2>2. GENESIS \in Seq(Events)
    BY DEF GENESIS
  <2>. QED BY <2>1, <2>2 DEF NoAppend, Appends
<1>. QED BY <1>1 DEF Appends

\* A writer commits a well-formed row.
LEMMA RowShape ==
  ASSUME Typed, NEW w \in Writers, NEW n \in Nat
  PROVE  /\ Row(w, n) \in Rows
         /\ Row(w, n).id = n /\ Row(w, n).tenant = Chain(w)
         /\ Row(w, n).event = append[w].event /\ Row(w, n).prev_hash = append[w].prev_hash
         /\ Row(w, n).event_hash = SignedHash(append[w].event, append[w].prev_hash)
<1>1. append[w] \in Appends
  BY DEF Typed
<1>2. append[w].prev_hash \in Seq(Events) /\ append[w].event \in Events /\ append[w].tenant \in Tenants
  BY <1>1 DEF Appends
<1>3. SignedHash(append[w].event, append[w].prev_hash) \in Seq(Events)
  BY <1>2 DEF SignedHash
<1>. QED BY <1>2, <1>3 DEF Row, Rows, Chain

\* A head is the hash of a row, or GENESIS, once a youngest row exists.
LEMMA HeadOfYoungest ==
  ASSUME NEW S, NEW r \in S, S \subseteq Rows, \A q \in S \ {r} : q.id < r.id
  PROVE  HeadHash(S) = r.event_hash
<1>1. r.id \in Nat /\ \A q \in S : q.id \in Nat
  BY DEF Rows
<1>2. \A q \in S : q.id <= r.id
  BY <1>1
<1>3. \A x \in S : (\A q \in S : q.id <= x.id) => x = r
  BY <1>1
<1>4. Youngest(S) = r
  BY <1>2, <1>3 DEF Youngest
<1>. QED BY <1>4 DEF HeadHash

\* The head of a tenant's chain is a hash.
LEMMA HeadTypes ==
  ASSUME Typed, ChainInv, NEW t \in Tenants
  PROVE  HeadHash(Of(t)) \in Seq(Events)
<1>1. CASE Of(t) = {}
  BY <1>1 DEF HeadHash, GENESIS
<1>2. CASE Of(t) # {}
  <2>1. PICK r \in Of(t) : \A q \in Of(t) \ {r} : q.id < r.id
    BY <1>2 DEF ChainInv
  <2>2. Of(t) \subseteq Rows
    BY DEF Of, Typed
  <2>3. HeadHash(Of(t)) = r.event_hash
    BY <2>1, <2>2, HeadOfYoungest
  <2>. QED BY <2>2, <2>3 DEF Rows
<1>. QED BY <1>1, <1>2

\* What becomes of the chains when a row that follows the head is added: the
\* other tenants' do not change, its own gets a new head, and verify_chain
\* accepts them all.
LEMMA AddRow ==
  ASSUME Typed, ChainInv, NEW c \in Tenants, NEW r \in Rows,
         rows' = rows \union {r}, r.tenant = c,
         r.prev_hash = HeadHash(Of(c)), r.event_hash = SignedHash(r.event, r.prev_hash),
         \A q \in Of(c) : q.id < r.id
  PROVE  /\ \A t \in Tenants \ {c} : Of(t)' = Of(t)
         /\ Of(c)' = Of(c) \union {r}
         /\ HeadHash(Of(c))' = r.event_hash
         /\ ChainValid'
         /\ \A t \in Tenants : Of(t)' # {} => \E x \in Of(t)' : \A q \in Of(t)' \ {x} : q.id < x.id
<1>1. \A t \in Tenants : Of(t) \subseteq Rows /\ Of(t)' \subseteq Rows
  BY DEF Typed, Of
<1>2. /\ \A t \in Tenants \ {c} : Of(t)' = Of(t)
      /\ Of(c)' = Of(c) \union {r}
  BY DEF Of
<1>3. \A q \in Of(c)' \ {r} : q.id < r.id
  BY <1>2
<1>4. HeadHash(Of(c)') = r.event_hash
  BY <1>1, <1>2, <1>3, HeadOfYoungest
<1>5. Verifies(c)'
  <2>1. ASSUME NEW x \in Of(c)
        PROVE  /\ x.prev_hash = HeadHash({q \in Of(c)' : q.id < x.id})
               /\ x.event_hash = SignedHash(x.event, x.prev_hash)
    <3>1. x.id < r.id /\ x.id \in Nat /\ r.id \in Nat
      BY <1>1 DEF Rows
    <3>2. {q \in Of(c)' : q.id < x.id} = {q \in Of(c) : q.id < x.id}
      BY <1>2, <3>1
    <3>. QED BY <3>2 DEF ChainInv, ChainValid, Verifies
  <2>2. {q \in Of(c)' : q.id < r.id} = Of(c)
    BY <1>2 DEF Rows
  <2>. QED BY <1>2, <2>1, <2>2 DEF Verifies
<1>6. \A t \in Tenants \ {c} : Verifies(t)'
  BY <1>2 DEF ChainInv, ChainValid, Verifies
<1>7. \A t \in Tenants : Of(t)' # {} => \E x \in Of(t)' : \A q \in Of(t)' \ {x} : q.id < x.id
  <2>1. \A t \in Tenants \ {c} : Of(t)' # {} => \E x \in Of(t)' : \A q \in Of(t)' \ {x} : q.id < x.id
    BY <1>2 DEF ChainInv
  <2>2. r \in Of(c)'
    BY <1>2
  <2>. QED BY <1>3, <2>1, <2>2
<1>. QED BY <1>2, <1>4, <1>5, <1>6, <1>7 DEF ChainValid

-----------------------------------------------------------------------------
(* The invariant.                                                          *)

\* Some step adds the row w has prepared, under the id n.
Adds(w, n) ==
  /\ pc[w] \in {"insert", "commit"} /\ rows' = rows \union {Row(w, n)}
  /\ pc'[w] \notin {"head", "insert", "commit"}
  /\ pc[w] = "insert" => n = nextId /\ nextId' = nextId + 1
  /\ pc[w] = "commit" => n = append[w].id /\ nextId' = nextId

\* A writer's row follows the head of its chain.
LEMMA RowFollows ==
  ASSUME Typed, ChainInv, NEW w \in Writers, NEW n \in Nat, Adds(w, n)
  PROVE  /\ Chain(w) \in Tenants /\ Row(w, n) \in Rows /\ Row(w, n).tenant = Chain(w)
         /\ Row(w, n).prev_hash = HeadHash(Of(Chain(w)))
         /\ Row(w, n).event_hash = SignedHash(Row(w, n).event, Row(w, n).prev_hash)
         /\ Row(w, n).id = n /\ n < nextId'
         /\ \A q \in Of(Chain(w)) : q.id < Row(w, n).id
<1>1. Chain(w) \in Tenants
  BY DEF Typed, Appends, Chain
<1>2. n < nextId' /\ \A q \in Of(Chain(w)) : q.id < n
  BY DEF Adds, ChainInv, Typed, Of, At
<1>. QED BY <1>1, <1>2, RowShape DEF ChainInv, Adds

\* Every step but the three that add a row leaves the rows alone.
LEMMA RowsShape ==
  ASSUME Typed, NEW w \in Writers, AppendStep(w) \/ Fail(w) \/ \E t \in Tenants, e \in Events : Call(w, t, e)
  PROVE  \/ rows' = rows /\ nextId' \in {nextId, nextId + 1}
         \/ \E n \in Nat : Adds(w, n)
<1>1. nextId \in Nat /\ append[w].id \in Nat
  BY DEF Typed, Appends
<1>2. CASE Connect(w) \/ Lock(w) \/ ReadHead(w) \/ Unlock(w) \/ Deliver(w) \/ \E t \in Tenants, e \in Events : Call(w, t, e)
  BY <1>2 DEF Connect, Lock, ReadHead, Unlock, Deliver, Call
<1>3. CASE Insert(w)
  BY <1>1, <1>3 DEF Insert, At, Adds, Goto, Typed
<1>4. CASE Commit(w)
  BY <1>1, <1>4 DEF Commit, At, Adds, Goto, Typed
<1>5. CASE Fail(w)
  BY <1>1, <1>5 DEF Fail, At, Adds, Goto, Typed
<1>. QED BY <1>2, <1>3, <1>4, <1>5 DEF AppendStep

\* A step keeps every variable typed.
LEMMA TypedStep ==
  ASSUME Typed, ChainInv, NEW w \in Writers,
         AppendStep(w) \/ Fail(w) \/ \E t \in Tenants, e \in Events : Call(w, t, e)
  PROVE  Typed'
<1>1. append[w] \in Appends /\ Chain(w) \in Tenants /\ TheEvent(w) \in AllEvents
  BY DEF Typed, Appends, Chain, TheEvent, AllEvents
<1>2. rows' \subseteq Rows /\ nextId' \in Nat
  <2>. rows \subseteq Rows /\ nextId \in Nat
    BY DEF Typed
  <2>1. CASE rows' = rows /\ nextId' \in {nextId, nextId + 1}
    BY <2>1
  <2>2. ASSUME NEW n \in Nat, Adds(w, n)
        PROVE  rows' \subseteq Rows /\ nextId' \in Nat
    <3>1. Row(w, n) \in Rows
      BY <2>2, RowFollows
    <3>. QED BY <2>2, <3>1 DEF Adds
  <2>. QED BY <2>1, <2>2, RowsShape
<1>3. Unlocked(w) \in [Tenants -> Writers \union {Nobody}]
  BY DEF Unlocked, Typed
<1>4. HeadHash(Of(Chain(w))) \in Seq(Events)
  BY <1>1, HeadTypes
<1>. USE DEF Typed, Positions, InTransaction
<1>5. ASSUME NEW t \in Tenants, NEW e \in Events, Call(w, t, e) PROVE Typed'
  <2>1. append' \in [Writers -> Appends]
    <3>1. [NoAppend EXCEPT !.tenant = t, !.event = e] \in Appends
      BY RowTypes
    <3>2. PICK a \in Appends : append' = [append EXCEPT ![w] = a]
      BY <1>5, <3>1, Zenon DEF Call
    <3>. QED BY <3>2
  <2>2. pc' \in [Writers -> Positions]
    BY <1>5 DEF Call, Goto
  <2>3. asked' \subseteq AllEvents
    <3>1. <<t, e>> \in AllEvents
      BY DEF AllEvents
    <3>2. asked' = asked \union {<<t, e>>}
      BY <1>5, Zenon DEF Call
    <3>. QED BY <3>1, <3>2
  <2>4. UNCHANGED <<backend, rows, nextId, lock, heard>>
    BY <1>5, Zenon DEF Call
  <2>. QED BY <2>1, <2>2, <2>3, <2>4
<1>6. CASE Connect(w)
  BY <1>2, <1>6 DEF Connect, Goto
<1>7. CASE Lock(w)
  BY <1>1, <1>2, <1>7 DEF Lock, Goto
<1>8. CASE ReadHead(w)
  <2>1. append' \in [Writers -> Appends]
    BY <1>1, <1>4, <1>8, RowTypes DEF ReadHead
  <2>. QED BY <1>2, <1>8, <2>1 DEF ReadHead, Goto
<1>9. CASE Insert(w)
  <2>1. append' \in [Writers -> Appends]
    BY <1>1, <1>9, RowTypes DEF Insert
  <2>. QED BY <1>2, <1>9, <2>1 DEF Insert, Goto
<1>10. CASE Commit(w)
  BY <1>2, <1>3, <1>10 DEF Commit, Goto
<1>11. CASE Unlock(w)
  BY <1>2, <1>3, <1>11 DEF Unlock, Goto
<1>12. CASE Deliver(w)
  BY <1>1, <1>2, <1>12, RowTypes DEF Deliver, Goto
<1>13. CASE Fail(w)
  BY <1>2, <1>3, <1>13, RowTypes DEF Fail, Goto
<1>. QED BY <1>5, <1>6, <1>7, <1>8, <1>9, <1>10, <1>11, <1>12, <1>13 DEF AppendStep

\* A step changes no other writer's position, locals or lock.
LEMMA Alone ==
  ASSUME Typed, NEW w \in Writers,
         AppendStep(w) \/ Fail(w) \/ \E t \in Tenants, e \in Events : Call(w, t, e)
  PROVE  \A v \in Writers \ {w} :
           /\ pc'[v] = pc[v] /\ append'[v] = append[v]
           /\ \A t \in Tenants : lock[t] = v => lock'[t] = v
<1>. USE AuditAssumption DEF Goto, Typed
<1>1. CASE \E t \in Tenants, e \in Events : Call(w, t, e)
  BY <1>1, Zenon DEF Call
<1>2. CASE Connect(w) \/ Deliver(w)
  BY <1>2 DEF Connect, Deliver
<1>3. CASE Lock(w)
  BY <1>3 DEF Lock
<1>4. CASE ReadHead(w) \/ Insert(w)
  BY <1>4 DEF ReadHead, Insert
<1>5. CASE Commit(w) \/ Unlock(w) \/ Fail(w)
  BY <1>5 DEF Commit, Unlock, Fail, Unlocked
<1>. QED BY <1>1, <1>2, <1>3, <1>4, <1>5 DEF AppendStep

\* What a step does to its own writer's position, lock and locals.
LEMMA OwnStep ==
  ASSUME Typed, NEW w \in Writers,
         AppendStep(w) \/ Fail(w) \/ \E t \in Tenants, e \in Events : Call(w, t, e)
  PROVE  \/ pc'[w] \notin Holding
         \/ /\ pc'[w] = "head" /\ lock'[Chain(w)] = w /\ append'[w].tenant = Chain(w)
            /\ rows' = rows
         \/ /\ pc[w] = "head" /\ pc'[w] = "insert" /\ lock' = lock /\ rows' = rows
            /\ append'[w].tenant = Chain(w)
            /\ append'[w].prev_hash = HeadHash(Of(Chain(w)))
         \/ /\ pc[w] = "insert" /\ pc'[w] \in {"commit", "unlock"} /\ lock' = lock
            /\ append'[w].tenant = Chain(w) /\ append'[w].prev_hash = append[w].prev_hash
            /\ append'[w].id = nextId /\ nextId' = nextId + 1
            /\ pc'[w] = "commit" => rows' = rows
<1>1. append[w] \in Appends /\ Chain(w) \in Tenants
  BY DEF Typed, Appends, Chain
<1>. USE DEF Goto, At, Holding, Typed, Positions, InTransaction
<1>2. CASE \E t \in Tenants, e \in Events : Call(w, t, e)
  BY <1>2 DEF Call
<1>3. CASE Connect(w) \/ Commit(w) \/ Unlock(w) \/ Deliver(w) \/ Fail(w)
  BY <1>3 DEF Connect, Commit, Unlock, Deliver, Fail
<1>4. CASE Lock(w)
  BY <1>1, <1>4 DEF Lock, Chain
<1>5. CASE ReadHead(w)
  BY <1>1, <1>5 DEF ReadHead, Chain, Appends
<1>6. CASE Insert(w)
  BY <1>1, <1>6 DEF Insert, Chain, Appends
<1>. QED BY <1>2, <1>3, <1>4, <1>5, <1>6 DEF AppendStep

\* Every step preserves ChainInv.
LEMMA ChainStep ==
  ASSUME Typed, ChainInv, NEW w \in Writers,
         AppendStep(w) \/ Fail(w) \/ \E t \in Tenants, e \in Events : Call(w, t, e)
  PROVE  ChainInv'
<1>1. Typed'
  BY TypedStep
<1>. DEFINE Largest == \A t \in Tenants : Of(t) # {} => \E r \in Of(t) : \A q \in Of(t) \ {r} : q.id < r.id
<1>2. CASE rows' = rows /\ nextId' \in {nextId, nextId + 1}
  <2>1. ChainValid' /\ Largest'
    <3>1. \A t \in Tenants : Of(t)' = Of(t)
      BY <1>2 DEF Of
    <3>2. Largest'
      BY <3>1 DEF ChainInv
    <3>3. ASSUME NEW t \in Tenants PROVE Verifies(t)'
      BY <3>1 DEF ChainInv, ChainValid, Verifies
    <3>. QED BY <3>2, <3>3 DEF ChainValid
  <2>2. \A r \in rows' : r.id < nextId'
    BY <1>2 DEF ChainInv, Typed, Rows
  <2>3. \A t \in Tenants : Of(t)' = Of(t)
    BY <1>2 DEF Of
  <2>4. ASSUME NEW v \in Writers \ {w}
        PROVE  /\ pc'[v] \in Holding => lock'[Chain(v)'] = v
               /\ pc'[v] \in {"insert", "commit"} => append'[v].prev_hash = HeadHash(Of(Chain(v)))'
               /\ pc'[v] = "commit" => append'[v].id < nextId' /\ \A q \in Of(Chain(v))' : q.id < append'[v].id
    <3>1. pc'[v] = pc[v] /\ append'[v] = append[v] /\ Chain(v)' = Chain(v) /\ Chain(v) \in Tenants
      BY Alone DEF Chain, Typed, Appends
    <3>2. Of(Chain(v))' = Of(Chain(v))
      BY <2>3, <3>1
    <3>3. append[v].id \in Nat /\ nextId \in Nat
      BY DEF Typed, Appends
    <3>4. pc[v] \in Holding => lock'[Chain(v)] = v
      BY <3>1, Alone DEF ChainInv
    <3>. QED BY <1>2, <3>1, <3>2, <3>3, <3>4 DEF ChainInv, At, HeadHash
  <2>5. /\ pc'[w] \in Holding => lock'[Chain(w)'] = w
        /\ pc'[w] \in {"insert", "commit"} => append'[w].prev_hash = HeadHash(Of(Chain(w)))'
        /\ pc'[w] = "commit" => append'[w].id < nextId' /\ \A q \in Of(Chain(w))' : q.id < append'[w].id
    <3>1. Chain(w)' = append'[w].tenant /\ Chain(w) \in Tenants
      BY DEF Chain, Typed, Appends
    <3>2. Of(Chain(w))' = Of(Chain(w)) \/ Chain(w)' # Chain(w)
      BY <2>3, <3>1
    <3>3. \A q \in Of(Chain(w)) : q.id < nextId
      BY DEF Of, ChainInv
    <3>4. nextId \in Nat
      BY DEF Typed
    <3>. QED BY <1>2, <3>1, <3>2, <3>3, <3>4, OwnStep DEF ChainInv, At, HeadHash, Holding
  <2>. QED BY <2>1, <2>2, <2>4, <2>5 DEF ChainInv, At
<1>3. ASSUME NEW n \in Nat, Adds(w, n) PROVE ChainInv'
  <2>. DEFINE c == Chain(w)
              r == Row(w, n)
  <2>1. /\ c \in Tenants /\ r \in Rows /\ r.tenant = c /\ r.id = n /\ n < nextId'
        /\ r.prev_hash = HeadHash(Of(c)) /\ r.event_hash = SignedHash(r.event, r.prev_hash)
        /\ \A q \in Of(c) : q.id < r.id
    BY <1>3, RowFollows
  <2>2. rows' = rows \union {r} /\ pc'[w] \notin {"head", "insert", "commit"}
    BY <1>3 DEF Adds
  <2>3. /\ \A t \in Tenants \ {c} : Of(t)' = Of(t)
        /\ ChainValid' /\ Largest'
    <3>. HIDE DEF c, r
    <3>. QED BY <2>1, <2>2, AddRow
  <2>4. \A x \in rows' : x.id < nextId'
    <3>1. nextId \in Nat /\ nextId' \in {nextId, nextId + 1} /\ \A x \in rows : x.id \in Nat
      BY <1>3 DEF Typed, Rows, Adds
    <3>. QED BY <2>1, <2>2, <3>1 DEF ChainInv
  <2>5. ASSUME NEW v \in Writers \ {w}
        PROVE  /\ pc'[v] \in Holding => lock'[Chain(v)'] = v
               /\ pc'[v] \in {"insert", "commit"} => append'[v].prev_hash = HeadHash(Of(Chain(v)))'
               /\ pc'[v] = "commit" => append'[v].id < nextId' /\ \A q \in Of(Chain(v))' : q.id < append'[v].id
    <3>1. pc'[v] = pc[v] /\ append'[v] = append[v] /\ Chain(v)' = Chain(v) /\ Chain(v) \in Tenants
      BY Alone DEF Chain, Typed, Appends
    <3>2. pc[v] \in Holding => Chain(v) # c
      BY <1>3 DEF ChainInv, Adds, Holding
    <3>3. pc[v] \in Holding => Of(Chain(v))' = Of(Chain(v))
      BY <2>3, <3>1, <3>2
    <3>4. append[v].id \in Nat /\ nextId \in Nat /\ nextId' \in {nextId, nextId + 1}
      BY <1>3 DEF Typed, Appends, Adds
    <3>5. pc[v] \in Holding => lock'[Chain(v)] = v
      BY <3>1, Alone DEF ChainInv
    <3>. QED BY <3>1, <3>3, <3>4, <3>5 DEF ChainInv, At, HeadHash, Holding
  <2>6. pc'[w] \in Holding => lock'[Chain(w)'] = w
    BY <2>2, OwnStep DEF Chain, ChainInv, Holding
  <2>. QED BY <2>2, <2>3, <2>4, <2>5, <2>6 DEF ChainInv, At
<1>. QED BY <1>2, <1>3, RowsShape

\* The invariant: it holds at first, and every step preserves it.
LEMMA ChainAlways == Spec => [](Typed /\ ChainInv)
<1>1. Init => Typed /\ ChainInv
  <2>. SUFFICES ASSUME Init PROVE Typed /\ ChainInv
    OBVIOUS
  <2>1. Typed
    <3>1. append \in [Writers -> Appends]
      BY RowTypes DEF Init
    <3>2. lock \in [Tenants -> Writers \union {Nobody}] /\ pc \in [Writers -> Positions]
      BY DEF Init, Positions
    <3>. QED BY <3>1, <3>2 DEF Init, Typed
  <2>2. \A t \in Tenants : Of(t) = {}
    BY DEF Init, Of
  <2>3. rows = {} /\ \A w \in Writers : pc[w] = "idle"
    BY DEF Init
  <2>4. ChainValid
    BY <2>2 DEF ChainValid, Verifies
  <2>. QED BY <2>1, <2>2, <2>3, <2>4 DEF ChainInv, At, Holding
<1>2. Typed /\ ChainInv /\ [Next]_auditVars => (Typed /\ ChainInv)'
  <2>. SUFFICES ASSUME Typed, ChainInv, [Next]_auditVars PROVE (Typed /\ ChainInv)'
    OBVIOUS
  <2>1. CASE Next
    BY <2>1, TypedStep, ChainStep DEF Next
  <2>2. CASE UNCHANGED auditVars
    <3>1. Typed'
      BY <2>2 DEF auditVars, Typed
    <3>2. /\ rows' = rows /\ nextId' = nextId /\ lock' = lock /\ pc' = pc /\ append' = append
          /\ \A t \in Tenants : Of(t)' = Of(t)
          /\ \A w \in Writers : Chain(w)' = Chain(w) /\ Chain(w) \in Tenants /\ Of(Chain(w))' = Of(Chain(w))
      BY <2>2 DEF auditVars, Of, Chain, Typed, Appends
    <3>3. ChainValid'
      <4>. SUFFICES ASSUME NEW t \in Tenants PROVE Verifies(t)'
        BY DEF ChainValid
      <4>. QED BY <3>2 DEF Verifies, ChainInv, ChainValid
    <3>. QED BY <3>1, <3>2, <3>3 DEF ChainInv, At, HeadHash
  <2>. QED BY <2>1, <2>2
<1>. QED BY <1>1, <1>2, PTL DEF Spec

\* Whatever the writers do, and wherever they fail or die, verify_chain finds
\* every tenant's chain valid.
THEOREM ChainStaysValid == Spec => []ChainValid
<1>1. Typed /\ ChainInv => ChainValid
  BY DEF ChainInv
<1>. QED BY <1>1, ChainAlways, PTL

-----------------------------------------------------------------------------
(* What was acknowledged is in the log.                                    *)

Logged(x) == \E r \in rows : <<r.tenant, r.event>> = x
\* A writer that reports its event has put it in the log.
LoggedInv == NothingLost /\ \A w \in Writers : pc[w] \in {"unlock", "deliver"} => Logged(TheEvent(w))

\* A step reports at most the event of a writer at "deliver", and gets there
\* with the event logged.
LEMMA ReportShape ==
  ASSUME Typed, NEW w \in Writers,
         AppendStep(w) \/ Fail(w) \/ \E t \in Tenants, e \in Events : Call(w, t, e)
  PROVE  /\ heard' # heard => pc[w] = "deliver" /\ heard' = heard \union {TheEvent(w)} /\ rows' = rows
         /\ pc'[w] \in {"unlock", "deliver"} =>
              /\ TheEvent(w)' = TheEvent(w)
              /\ pc[w] = "unlock" \/ \E n \in Nat : rows' = rows \union {Row(w, n)}
<1>1. append[w].id \in Nat /\ nextId \in Nat
  BY DEF Typed, Appends
<1>2. pc'[w] \in {"unlock", "deliver"} => Insert(w) \/ Commit(w) \/ Unlock(w)
  BY DEF Typed, Goto, AppendStep, Call, Connect, Lock, ReadHead, Deliver, Fail
<1>3. heard' # heard => Deliver(w)
  BY DEF AppendStep, Call, Connect, Lock, ReadHead, Insert, Commit, Unlock, Fail
<1>4. Insert(w) => TheEvent(w)' = TheEvent(w)
  BY DEF Insert, TheEvent, Typed, Appends
<1>5. Commit(w) \/ Unlock(w) => append' = append
  BY DEF Commit, Unlock
<1>6. Insert(w) /\ pc'[w] \in {"unlock", "deliver"} => rows' = rows \union {Row(w, nextId)}
  BY DEF Insert, Goto, Typed
<1>7. Commit(w) => rows' = rows \union {Row(w, append[w].id)}
  BY DEF Commit
<1>8. Unlock(w) => pc[w] = "unlock"
  BY DEF Unlock, At
<1>9. Deliver(w) => pc[w] = "deliver" /\ heard' = heard \union {TheEvent(w)} /\ rows' = rows
  BY DEF Deliver, At
<1>. QED BY <1>1, <1>2, <1>3, <1>4, <1>5, <1>6, <1>7, <1>8, <1>9 DEF TheEvent

\* Every step preserves LoggedInv.
LEMMA LoggedStep ==
  ASSUME Typed, LoggedInv, NEW w \in Writers,
         AppendStep(w) \/ Fail(w) \/ \E t \in Tenants, e \in Events : Call(w, t, e)
  PROVE  LoggedInv'
<1>1. rows \subseteq rows'
  BY RowsShape DEF Adds
<1>2. \A x : Logged(x) => Logged(x)'
  BY <1>1 DEF Logged
<1>3. NothingLost'
  BY <1>2, ReportShape DEF LoggedInv, NothingLost, Logged
<1>4. ASSUME NEW v \in Writers \ {w}, pc'[v] \in {"unlock", "deliver"} PROVE Logged(TheEvent(v))'
  <2>1. pc[v] = pc'[v] /\ TheEvent(v)' = TheEvent(v)
    BY Alone DEF TheEvent
  <2>2. Logged(TheEvent(v))
    BY <1>4, <2>1 DEF LoggedInv
  <2>. QED BY <1>1, <2>1, <2>2 DEF Logged
<1>5. ASSUME pc'[w] \in {"unlock", "deliver"} PROVE Logged(TheEvent(w))'
  <2>1. TheEvent(w)' = TheEvent(w)
    BY <1>5, ReportShape
  <2>2. CASE pc[w] = "unlock"
    BY <1>1, <2>1, <2>2 DEF Logged, LoggedInv
  <2>3. ASSUME NEW n \in Nat, rows' = rows \union {Row(w, n)} PROVE Logged(TheEvent(w))'
    <3>1. Row(w, n).tenant = append[w].tenant /\ Row(w, n).event = append[w].event
      BY RowShape DEF Chain
    <3>. QED BY <2>1, <2>3, <3>1 DEF Logged, TheEvent
  <2>. QED BY <1>5, <2>2, <2>3, ReportShape
<1>. QED BY <1>3, <1>4, <1>5 DEF LoggedInv

\* An event that its writer or the SIEM was told of is in the log, however
\* the appends before and after it failed.
THEOREM NothingIsLost == Spec => []NothingLost
<1>1. Init => LoggedInv
  BY DEF Init, LoggedInv, NothingLost
<1>2. Typed /\ ChainInv /\ LoggedInv /\ [Next]_auditVars => LoggedInv'
  <2>. SUFFICES ASSUME Typed, LoggedInv, [Next]_auditVars PROVE LoggedInv'
    OBVIOUS
  <2>1. CASE Next
    BY <2>1, LoggedStep DEF Next
  <2>2. CASE UNCHANGED auditVars
    BY <2>2 DEF auditVars, LoggedInv, NothingLost, Logged, TheEvent
  <2>. QED BY <2>1, <2>2
<1>3. LoggedInv => NothingLost
  BY DEF LoggedInv
<1>. QED BY <1>1, <1>2, <1>3, ChainAlways, PTL DEF Spec

-----------------------------------------------------------------------------
(* The log implements AuditChain.                                          *)

\* The abstract log of a tenant: what the hash of its youngest row stands for.
LogOf(t) == HeadHash(Of(t))
In(e, s) == \E i \in 1 .. Len(s) : s[i] = e
\* It holds the events of all the tenant's rows.
HeldInv == \A r \in rows : In(r.event, LogOf(r.tenant))

\* Appending to a sequence keeps its elements and adds one.
LEMMA AppendIn ==
  ASSUME NEW s \in Seq(Events), NEW e \in Events
  PROVE  In(e, Append(s, e)) /\ \A x : In(x, s) => In(x, Append(s, e))
<1>1. Append(s, e)[Len(s) + 1] = e /\ Len(Append(s, e)) = Len(s) + 1 /\ Len(s) \in Nat
  OBVIOUS
<1>2. \A i \in 1 .. Len(s) : Append(s, e)[i] = s[i]
  OBVIOUS
<1>. QED BY <1>1, <1>2 DEF In

\* A step leaves all the logs alone, or extends one by the event of the row
\* it adds.
LEMMA LogStep ==
  ASSUME Typed, ChainInv, NEW w \in Writers,
         AppendStep(w) \/ Fail(w) \/ \E t \in Tenants, e \in Events : Call(w, t, e)
  PROVE  \/ rows' = rows /\ \A t \in Tenants : LogOf(t)' = LogOf(t)
         \/ \E r \in Rows : /\ rows' = rows \union {r}
                            /\ LogOf(r.tenant)' = Append(LogOf(r.tenant), r.event)
                            /\ \A t \in Tenants \ {r.tenant} : LogOf(t)' = LogOf(t)
<1>1. CASE rows' = rows
  BY <1>1 DEF LogOf, Of, HeadHash, Youngest
<1>2. ASSUME NEW n \in Nat, Adds(w, n)
      PROVE  \E r \in Rows : /\ rows' = rows \union {r}
                             /\ LogOf(r.tenant)' = Append(LogOf(r.tenant), r.event)
                             /\ \A t \in Tenants \ {r.tenant} : LogOf(t)' = LogOf(t)
  <2>1. PICK c \in Tenants, r \in Rows :
          /\ c = Chain(w) /\ r = Row(w, n) /\ r.tenant = c
          /\ r.prev_hash = HeadHash(Of(c)) /\ r.event_hash = SignedHash(r.event, r.prev_hash)
          /\ \A q \in Of(c) : q.id < r.id
    BY <1>2, RowFollows
  <2>2. rows' = rows \union {r}
    BY <1>2, <2>1 DEF Adds
  <2>3. /\ \A t \in Tenants \ {c} : Of(t)' = Of(t)
        /\ HeadHash(Of(c))' = r.event_hash
    BY <2>1, <2>2, AddRow
  <2>4. \A t \in Tenants \ {c} : LogOf(t)' = LogOf(t)
    BY <2>3 DEF LogOf, HeadHash
  <2>5. LogOf(c)' = Append(LogOf(c), r.event)
    BY <2>1, <2>3 DEF LogOf, SignedHash
  <2>. QED BY <2>1, <2>2, <2>4, <2>5
<1>. QED BY <1>1, <1>2, RowsShape

\* Every step preserves HeldInv.
LEMMA HeldStep ==
  ASSUME Typed, ChainInv, HeldInv, NEW w \in Writers,
         AppendStep(w) \/ Fail(w) \/ \E t \in Tenants, e \in Events : Call(w, t, e)
  PROVE  HeldInv'
<1>1. \A r \in rows : r \in Rows /\ r.tenant \in Tenants /\ r.event \in Events
  BY DEF Typed, Rows
<1>2. CASE rows' = rows /\ \A t \in Tenants : LogOf(t)' = LogOf(t)
  BY <1>1, <1>2 DEF HeldInv, In
<1>3. ASSUME NEW r \in Rows, rows' = rows \union {r},
             LogOf(r.tenant)' = Append(LogOf(r.tenant), r.event),
             \A t \in Tenants \ {r.tenant} : LogOf(t)' = LogOf(t)
      PROVE  HeldInv'
  <2>1. r.tenant \in Tenants /\ r.event \in Events
    BY DEF Rows
  <2>2. LogOf(r.tenant) \in Seq(Events)
    BY <2>1, HeadTypes DEF LogOf
  <2>3. \A x : In(x, LogOf(r.tenant)) => In(x, LogOf(r.tenant)')
    BY <1>3, <2>1, <2>2, AppendIn
  <2>4. In(r.event, LogOf(r.tenant)')
    BY <1>3, <2>1, <2>2, AppendIn
  <2>5. ASSUME NEW q \in rows' PROVE In(q.event, LogOf(q.tenant)')
    <3>1. CASE q = r
      BY <2>4, <3>1
    <3>2. CASE q \in rows /\ q.tenant = r.tenant
      BY <2>3, <3>2 DEF HeldInv
    <3>3. CASE q \in rows /\ q.tenant # r.tenant
      BY <1>1, <1>3, <3>3 DEF HeldInv
    <3>. QED BY <1>3, <3>1, <3>2, <3>3
  <2>. QED BY <2>5 DEF HeldInv, In
<1>. QED BY <1>2, <1>3, LogStep

\* Every step of the writers is a step of the abstract log, or none.
LEMMA LogSimulation ==
  ASSUME Typed, ChainInv, LoggedInv, HeldInv, [Next]_auditVars
  PROVE  [Log!Next]_(Log!vars)
<1>. DEFINE log == [t \in Tenants |-> HeadHash(Of(t))]
<1>1. CASE UNCHANGED auditVars
  BY <1>1 DEF auditVars, Log!vars, Of, HeadHash, Youngest
<1>2. ASSUME NEW w \in Writers,
             AppendStep(w) \/ Fail(w) \/ \E t \in Tenants, e \in Events : Call(w, t, e)
      PROVE  [Log!Next]_(Log!vars)
  <2>1. CASE rows' = rows
    <3>1. log' = log
      BY <2>1 DEF Of, HeadHash, Youngest
    <3>2. CASE heard' = heard
      BY <3>1, <3>2 DEF Log!vars
    <3>3. CASE heard' # heard
      <4>1. pc[w] = "deliver" /\ heard' = heard \union {TheEvent(w)}
        BY <1>2, <3>3, ReportShape
      <4>2. append[w].tenant \in Tenants /\ append[w].event \in Events
        BY DEF Typed, Appends
      <4>3. In(append[w].event, log[append[w].tenant])
        <5>1. PICK r \in rows : <<r.tenant, r.event>> = TheEvent(w)
          BY <4>1 DEF LoggedInv, Logged
        <5>. QED BY <4>2, <5>1 DEF HeldInv, LogOf, TheEvent
      <4>4. Log!Hear(append[w].tenant, append[w].event)
        BY <3>1, <4>1, <4>3 DEF Log!Hear, In, TheEvent
      <4>. QED BY <4>2, <4>4 DEF Log!Next
    <3>. QED BY <3>2, <3>3
  <2>2. ASSUME NEW r \in Rows, rows' = rows \union {r}, rows' # rows,
               LogOf(r.tenant)' = Append(LogOf(r.tenant), r.event),
               \A t \in Tenants \ {r.tenant} : LogOf(t)' = LogOf(t)
        PROVE  [Log!Next]_(Log!vars)
    <3>1. r.tenant \in Tenants /\ r.event \in Events
      BY DEF Rows
    <3>2. log' = [log EXCEPT ![r.tenant] = Append(@, r.event)]
      BY <2>2, <3>1 DEF LogOf
    <3>3. heard' = heard
      BY <1>2, <2>2, ReportShape
    <3>. QED BY <3>1, <3>2, <3>3 DEF Log!Extend, Log!Next
  <2>. QED BY <1>2, <2>1, <2>2, LogStep
<1>. QED BY <1>1, <1>2 DEF Next

\* Whatever the writers do, a tenant's log only grows at its end, and only
\* events in it are acknowledged or reported.
THEOREM LogImplemented == Spec => LogSpec
<1>1. Init => Log!Init /\ LoggedInv /\ HeldInv
  <2>. SUFFICES ASSUME Init PROVE Log!Init /\ LoggedInv /\ HeldInv
    OBVIOUS
  <2>1. rows = {} /\ heard = {} /\ \A w \in Writers : pc[w] = "idle"
    BY DEF Init
  <2>2. \A t \in Tenants : HeadHash(Of(t)) = <<>>
    BY <2>1 DEF Of, HeadHash, GENESIS
  <2>. QED BY <2>1, <2>2 DEF Log!Init, LoggedInv, NothingLost, HeldInv
<1>2. Typed /\ ChainInv /\ LoggedInv /\ HeldInv /\ [Next]_auditVars => (LoggedInv /\ HeldInv)'
  <2>. SUFFICES ASSUME Typed, ChainInv, LoggedInv, HeldInv, [Next]_auditVars
                PROVE  (LoggedInv /\ HeldInv)'
    OBVIOUS
  <2>1. CASE Next
    BY <2>1, LoggedStep, HeldStep DEF Next
  <2>2. CASE UNCHANGED auditVars
    <3>1. LoggedInv'
      BY <2>2 DEF auditVars, LoggedInv, NothingLost, Logged, TheEvent
    <3>2. HeldInv'
      BY <2>2 DEF auditVars, HeldInv, In, LogOf, Of, HeadHash, Youngest
    <3>. QED BY <3>1, <3>2
  <2>. QED BY <2>1, <2>2
<1>3. Typed /\ ChainInv /\ LoggedInv /\ HeldInv /\ [Next]_auditVars => [Log!Next]_(Log!vars)
  BY LogSimulation
<1>. QED BY <1>1, <1>2, <1>3, ChainAlways, PTL DEF Spec, LogSpec, Log!Spec

-----------------------------------------------------------------------------
(* The writer's pool is not exceeded.                                      *)

\* The writers on a connection are finitely many, and no more than the pool has.
PoolKept == backend = "postgres" => IsFiniteSet(Connected) /\ Cardinality(Connected) <= PoolSize

\* In PostgreSQL only Connect connects a writer, and only below the limit.
LEMMA PoolStep ==
  ASSUME Typed, PoolKept, NEW w \in Writers,
         AppendStep(w) \/ Fail(w) \/ \E t \in Tenants, e \in Events : Call(w, t, e)
  PROVE  PoolKept'
<1>. SUFFICES ASSUME backend = "postgres"
     PROVE  IsFiniteSet(Connected)' /\ Cardinality(Connected') <= PoolSize
  <2>1. backend' = backend
    BY DEF AppendStep, Fail, Call, Connect, Lock, ReadHead, Insert, Commit, Unlock, Deliver
  <2>. QED BY <2>1 DEF PoolKept
<1>1. IsFiniteSet(Connected) /\ Cardinality(Connected) <= PoolSize /\ PoolSize \in Nat
  BY AuditAssumption DEF PoolKept
<1>2. pc \in [Writers -> Positions]
  BY DEF Typed
<1>3. CASE Connect(w)
  <2>1. Connected' = Connected \union {w} /\ Cardinality(Connected) < PoolSize
    BY <1>2, <1>3 DEF Connect, Goto, At, Connected, InTransaction
  <2>2. Cardinality(Connected) \in Nat
    BY <1>1, FS_CardinalityType
  <2>3. IsFiniteSet(Connected \union {w}) /\ Cardinality(Connected \union {w}) <= Cardinality(Connected) + 1
    BY <1>1, <2>2, FS_AddElement
  <2>4. Cardinality(Connected \union {w}) \in Nat
    BY <2>3, FS_CardinalityType
  <2>5. Cardinality(Connected \union {w}) <= PoolSize
    BY <1>1, <2>1, <2>2, <2>3, <2>4
  <2>. QED BY <2>1, <2>3, <2>5
<1>4. CASE ~ Connect(w)
  <2>1. Connected' \subseteq Connected
    <3>1. pc'[w] \in InTransaction => pc[w] \in InTransaction
      BY <1>2, <1>4 DEF AppendStep, Fail, Call, Lock, ReadHead, Insert, Commit, Unlock, Deliver, Goto, At,
                        InTransaction
    <3>2. \A v \in Writers \ {w} : pc'[v] = pc[v]
      BY <1>2 DEF AppendStep, Fail, Call, Connect, Lock, ReadHead, Insert, Commit, Unlock, Deliver, Goto
    <3>. QED BY <3>1, <3>2 DEF Connected
  <2>2. IsFiniteSet(Connected') /\ Cardinality(Connected') <= Cardinality(Connected)
    BY <1>1, <2>1, FS_Subset
  <2>3. Cardinality(Connected) \in Nat /\ Cardinality(Connected') \in Nat
    BY <1>1, <2>2, FS_CardinalityType
  <2>. QED BY <1>1, <2>2, <2>3
<1>. QED BY <1>3, <1>4

\* audit.py:append_audit: every variable holds a value of its kind, and the
\* writers take no more connections than the pool has, however many there are.
THEOREM LogTypeCorrect == Spec => []TypeOK
<1>1. Init => PoolKept
  <2>1. Init => Connected = {}
    BY DEF Init, Connected, InTransaction
  <2>2. PoolSize \in Nat
    BY AuditAssumption
  <2>. QED BY <2>1, <2>2, FS_EmptySet DEF PoolKept
<1>2. ASSUME Typed, PoolKept, [Next]_auditVars PROVE PoolKept'
  <2>1. CASE Next
    BY <1>2, <2>1, PoolStep DEF Next
  <2>2. CASE UNCHANGED auditVars
    BY <1>2, <2>2 DEF auditVars, PoolKept, Connected
  <2>. QED BY <1>2, <2>1, <2>2
<1>3. Typed /\ PoolKept => TypeOK
  BY DEF TypeOK, PoolKept
<1>. QED BY <1>1, <1>2, <1>3, ChainAlways, PTL DEF Spec

-----------------------------------------------------------------------------
(* The pool and the locks never wait for each other.                       *)

\* Who holds a lock is past the statement that takes it, and under way: no
\* lock outlives the append it was taken for.
LockInv == \A t \in Tenants : lock[t] # Nobody =>
  lock[t] \in Writers /\ pc[lock[t]] \in Holding /\ Chain(lock[t]) = t

\* Every step preserves LockInv: a writer gives the lock back with the step
\* that takes it out of the positions that hold one.
LEMMA LockStep ==
  ASSUME Typed, LockInv, NEW w \in Writers,
         AppendStep(w) \/ Fail(w) \/ \E t \in Tenants, e \in Events : Call(w, t, e)
  PROVE  LockInv'
<1>. USE AuditAssumption
<1>1. append[w] \in Appends /\ Chain(w) \in Tenants
  BY DEF Typed, Appends, Chain
<1>2. ASSUME NEW t \in Tenants, lock'[t] # Nobody, lock'[t] # w
      PROVE  lock'[t] \in Writers /\ pc'[lock'[t]] \in Holding /\ append'[lock'[t]].tenant = t
  <2>1. lock'[t] = lock[t]
    <3>1. CASE Lock(w)
      BY <1>1, <1>2, <3>1 DEF Lock, Typed
    <3>2. CASE Commit(w) \/ Unlock(w) \/ Fail(w)
      BY <1>2, <3>2 DEF Commit, Unlock, Fail, Unlocked
    <3>3. CASE UNCHANGED lock
      BY <3>3
    <3>. QED BY <3>1, <3>2, <3>3 DEF AppendStep, Connect, ReadHead, Insert, Deliver, Call
  <2>2. lock[t] \in Writers \ {w} /\ pc[lock[t]] \in Holding /\ append[lock[t]].tenant = t
    BY <1>2, <2>1 DEF LockInv, Chain
  <2>. QED BY <2>1, <2>2, Alone
<1>3. ASSUME NEW t \in Tenants, lock'[t] = w
      PROVE  pc'[w] \in Holding /\ append'[w].tenant = t
  <2>1. w # Nobody
    OBVIOUS
  <2>2. CASE Lock(w)
    <3>1. lock[t] # w
      BY <2>1, <2>2 DEF LockInv, Lock, At, Holding
    <3>. QED BY <1>1, <1>3, <2>2, <3>1 DEF Lock, Goto, Typed, Holding, Chain
  <2>3. CASE Commit(w) \/ Unlock(w) \/ Fail(w)
    BY <1>3, <2>1, <2>3 DEF Commit, Unlock, Fail, Unlocked
  <2>4. ASSUME UNCHANGED lock PROVE pc[w] \in Holding /\ append[w].tenant = t
    BY <1>3, <2>1, <2>4 DEF LockInv, Chain
  <2>5. CASE Connect(w) \/ Deliver(w)
    BY <2>4, <2>5 DEF Connect, Deliver, At, Holding
  <2>6. CASE ReadHead(w) \/ Insert(w)
    BY <1>1, <2>4, <2>6 DEF ReadHead, Insert, Goto, At, Holding, Typed, Appends
  <2>7. CASE \E c \in Tenants, e \in Events : Call(w, c, e)
    BY <2>4, <2>7 DEF Call, At, Holding
  <2>. QED BY <2>2, <2>3, <2>5, <2>6, <2>7 DEF AppendStep
<1>. QED BY <1>2, <1>3 DEF LockInv, Chain

\* A full pool has a writer on a connection, who has the lock it asks for or
\* waits for one whose holder does not wait.
LEMMA NoWaitingCircle == ASSUME Typed, LockInv PROVE SomeoneProceeds
<1>. SUFFICES ASSUME NEW w \in Writers, ~ At(w, "idle")
     PROVE  \E v \in Writers : ~ At(v, "idle") /\ ~ Waiting(v)
  BY DEF SomeoneProceeds
<1>1. ASSUME NEW v \in Writers, At(v, "lock"), lock[Chain(v)] # Nobody
      PROVE  \E x \in Writers : ~ At(x, "idle") /\ ~ Waiting(x)
  <2>1. Chain(v) \in Tenants
    BY DEF Typed, Appends, Chain
  <2>2. lock[Chain(v)] \in Writers /\ pc[lock[Chain(v)]] \in Holding
    BY <1>1, <2>1 DEF LockInv
  <2>3. \A x \in Writers : pc[x] \in Holding => ~ At(x, "idle") /\ ~ Waiting(x)
    BY DEF Holding, At, Waiting
  <2>. QED BY <2>2, <2>3
<1>2. ASSUME Cardinality(Connected) >= PoolSize
      PROVE  \E v \in Writers : pc[v] \in InTransaction
  <2>1. Connected # {}
    BY <1>2, FS_EmptySet, AuditAssumption
  <2>. QED BY <2>1 DEF Connected
<1>3. ASSUME NEW v \in Writers, pc[v] \in InTransaction
      PROVE  \E x \in Writers : ~ At(x, "idle") /\ ~ Waiting(x)
  BY <1>1, <1>3 DEF InTransaction, At, Waiting
<1>. QED BY <1>1, <1>2, <1>3 DEF Waiting

\* audit.py:append_audit: whatever fails or dies, the writers never all wait,
\* for the connections of the pool or for the locks of the chains, however
\* many they are and however small the pool.
THEOREM WritersNeverAllWait == Spec => []SomeoneProceeds
<1>1. Init => LockInv
  BY DEF Init, LockInv
<1>2. ASSUME Typed, LockInv, [Next]_auditVars PROVE LockInv'
  <2>1. CASE Next
    BY <1>2, <2>1, LockStep DEF Next
  <2>2. CASE UNCHANGED auditVars
    BY <1>2, <2>2 DEF auditVars, LockInv, Chain
  <2>. QED BY <1>2, <2>1, <2>2
<1>. QED BY <1>1, <1>2, NoWaitingCircle, ChainAlways, PTL DEF Spec

=============================================================================
