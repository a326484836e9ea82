------------------------------ MODULE EventBus ------------------------------
(***************************************************************************)
(* The event bus of app/events.py, of one process.  publish runs without   *)
(* an await and so is one step; a stream is a generator that runs only     *)
(* while the server pulls its next chunk, so that a slow or vanished       *)
(* client leaves its queue filling.                                        *)
(*                                                                         *)
(*   queues[t]      the streams whose queues bus.queues holds for tenant t *)
(*   stream[s]      "new"; "open"; "gone" (the client has left, the        *)
(*                  generator is not finalized yet); "closed"              *)
(*   queue[s]       its asyncio.Queue                                      *)
(*   published[t]   how many events tenant t has published                 *)
(*   joined[s]      how many of them there were when the stream subscribed *)
(*   delivered[s]   what it has yielded to its client                      *)
(***************************************************************************)
EXTENDS Naturals, Sequences, FiniteSets

CONSTANTS Streams, TenantOf,  \* a stream is of the principal's tenant
          BusTenants,
          QueueSize,          \* asyncio.Queue(maxsize=100)
          MaxEvents           \* bound: events of one tenant

ASSUME BusAssumption ==
  TenantOf \in [Streams -> BusTenants] /\ QueueSize \in Nat \ {0} /\ MaxEvents \in Nat

VARIABLES queues, stream, queue, published, joined, delivered
busVars == <<queues, stream, queue, published, joined, delivered>>

BusInit ==
  /\ queues = [t \in BusTenants |-> {}] /\ published = [t \in BusTenants |-> 0]
  /\ stream = [s \in Streams |-> "new"] /\ joined = [s \in Streams |-> 0]
  /\ queue = [s \in Streams |-> <<>>] /\ delivered = [s \in Streams |-> <<>>]

-----------------------------------------------------------------------------

\* An event is identified by its tenant and its place in publication order.
NextEvent(t) == <<t, published[t] + 1>>

\* The first step of the generator.
Subscribe(s) ==
  /\ stream[s] = "new" /\ stream' = [stream EXCEPT ![s] = "open"]
  /\ queues' = [queues EXCEPT ![TenantOf[s]] = @ \union {s}]
  /\ joined' = [joined EXCEPT ![s] = published[TenantOf[s]]]
  /\ UNCHANGED <<queue, published, delivered>>

Full(s) == Len(queue[s]) >= QueueSize

\* Mutant: a full queue misses the event but stays subscribed.
PublishSkipping(t) ==
  /\ published[t] < MaxEvents
  /\ published' = [published EXCEPT ![t] = @ + 1]
  /\ queue' = [s \in Streams |-> IF s \in queues[t] /\ ~ Full(s)
                                 THEN Append(queue[s], NextEvent(t)) ELSE queue[s]]
  /\ UNCHANGED <<queues, stream, joined, delivered>>

\* The queues that are full when the event comes are dropped from the bus.
Publish(t) ==
  /\ published[t] < MaxEvents
  /\ published' = [published EXCEPT ![t] = @ + 1]
  /\ queue' = [s \in Streams |-> IF s \in queues[t] /\ ~ Full(s)
                                 THEN Append(queue[s], NextEvent(t)) ELSE queue[s]]
  /\ queues' = [queues EXCEPT ![t] = {s \in @ : ~ Full(s)}]
  /\ UNCHANGED <<stream, joined, delivered>>

\* The server takes the next chunk.  With nothing queued it is a ping, at the
\* timeout, and nothing else changes.
Deliver(s) ==
  /\ stream[s] = "open" /\ queue[s] # <<>>
  /\ delivered' = [delivered EXCEPT ![s] = Append(@, Head(queue[s]))]
  /\ queue' = [queue EXCEPT ![s] = Tail(@)]
  /\ UNCHANGED <<queues, stream, published, joined>>

\* The client hangs up.
Hangup(s) ==
  /\ stream[s] = "open" /\ stream' = [stream EXCEPT ![s] = "gone"]
  /\ UNCHANGED <<queues, queue, published, joined, delivered>>

\* The generator's finally clause; its queue may have been dropped before.
Close(s) ==
  /\ stream[s] = "gone" /\ stream' = [stream EXCEPT ![s] = "closed"]
  /\ queues' = [queues EXCEPT ![TenantOf[s]] = @ \ {s}]
  /\ queue' = [queue EXCEPT ![s] = <<>>]
  /\ UNCHANGED <<published, joined, delivered>>

BusNext ==
  \/ \E s \in Streams : Subscribe(s) \/ Deliver(s) \/ Hangup(s) \/ Close(s)
  \/ \E t \in BusTenants : Publish(t)

BusSpec == BusInit /\ [][BusNext]_busVars

-----------------------------------------------------------------------------
(* Properties                                                              *)

BusTypeOK ==
  /\ \A t \in BusTenants : queues[t] \subseteq {s \in Streams : TenantOf[s] = t}
  /\ stream \in [Streams -> {"new", "open", "gone", "closed"}]
  /\ \A s \in Streams : Len(queue[s]) <= QueueSize /\ joined[s] \in 0..MaxEvents
  /\ published \in [BusTenants -> 0..MaxEvents]

\* A stream never skips an event and goes on: what it has delivered, and the
\* rest of its queue, are its own tenant's events from its subscription on
\* without a gap.  While it is subscribed none is missing at the end either,
\* and a stream that ended is subscribed no more.
GapFree ==
  \A s \in Streams :
    LET t == TenantOf[s]
        seen == delivered[s] \o queue[s] IN
    /\ \A i \in 1..Len(seen) : seen[i] = <<t, joined[s] + i>>
    /\ s \in queues[t] => stream[s] \in {"open", "gone"} /\ joined[s] + Len(seen) = published[t]
=============================================================================
