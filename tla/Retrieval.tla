----------------------------- MODULE Retrieval ------------------------------
(***************************************************************************)
(* Document retrieval of app/rag.py with the input guard of                *)
(* app/security.py: ingest, and search with its cache.  Answers are cached *)
(* for TTL in Redis or, when a call of Redis raises, in a bounded local    *)
(* cache of the process; an ingest invalidates nothing.  Time is in ticks, *)
(* and every value that depends on it is an age or a remaining time.       *)
(*                                                                         *)
(*   documents[c]   the row of content c: its trust level ("absent": not   *)
(*                  ingested), its age if it can be found, and whether it  *)
(*                  should be kept out                                     *)
(*   redis[q]       the answer to query q in Redis and how long it is left *)
(*   local[w]       _CACHE of process w, least recently used first         *)
(*   search[s]      a call of search: position, query, time spent, and the *)
(*                  usable documents that its answer was chosen from       *)
(***************************************************************************)
EXTENDS Naturals, Sequences, FiniteSets

CONSTANTS Searches, ProcessOf,
          Queries, AskedBy,  \* the cache key hashes tenant and question
          Contents, OwnedBy, \* documents that may be ingested, and for whom
          TTL,               \* 60 seconds, in Redis and locally
          LocalEntries,      \* settings.local_cache_max_entries
          SearchTime         \* bound: ticks a search may last

ASSUME RetrievalAssumption ==
  /\ TTL \in Nat \ {0} /\ LocalEntries \in Nat \ {0} /\ SearchTime \in Nat
  /\ Queries # {} /\ DOMAIN ProcessOf = Searches
  /\ DOMAIN AskedBy = Queries /\ DOMAIN OwnedBy = Contents

VARIABLES documents, redis, local, search
ragVars == <<documents, redis, local, search>>

Processes == {ProcessOf[s] : s \in Searches}
Absent == [trust |-> "absent", age |-> 0, flagged |-> FALSE]
NoEntry == [left |-> 0, found |-> {}]
NoSearch == [at |-> "idle", query |-> CHOOSE q \in Queries : TRUE, spent |-> 0, found |-> {}]

RagInit ==
  /\ documents = [c \in Contents |-> Absent]
  /\ redis = [q \in Queries |-> NoEntry]
  /\ local = [w \in Processes |-> <<>>]
  /\ search = [s \in Searches |-> NoSearch]

-----------------------------------------------------------------------------
(* Ingesting                                                               *)

Risks == {"low", "medium", "high"}
RiskRank == [low |-> 0, medium |-> 1, high |-> 2]
\* The guard model: not configured, no proper answer, or an answer.
Guards == Risks \union {"unset", "broken"}

\* Mutant: the guard model has the last word.
ClassifyByGuard(base, guard) ==
  CASE guard = "unset" -> base
    [] guard = "broken" -> "high"
    [] OTHER -> guard

\* classify_untrusted_input_async; base is what the patterns say.
Classify(base, guard) ==
  CASE guard = "unset" -> base
    [] guard = "broken" -> "high"
    [] OTHER -> IF RiskRank[guard] > RiskRank[base] THEN guard ELSE base

\* The caller says how far the document is trusted ("verified" is like
\* "trusted"); a risky one is quarantined.  Qdrant, whose indexing may fail,
\* only moves scores.
Ingest(c, base, guard, label) ==
  /\ documents[c] = Absent
  /\ documents' = [documents EXCEPT ![c] =
       [trust |-> IF Classify(base, guard) = "high" THEN "untrusted" ELSE label, age |-> 0,
        flagged |-> "high" \in {base, guard} \/ guard = "broken"]]
  /\ UNCHANGED <<redis, local, search>>

-----------------------------------------------------------------------------
(* Searching                                                               *)

SearchAt(s, l) == search[s].at = l
Asked(s) == search[s].query
Miss(s, q) == search' = [search EXCEPT ![s] = [NoSearch EXCEPT !.at = "read", !.query = q]]
Hit(s, q, found) ==
  search' = [search EXCEPT ![s] = [NoSearch EXCEPT !.at = "answered", !.query = q, !.found = found]]
Computed(s) == search' = [search EXCEPT ![s].at = "answered"]

\* context_is_usable, on the tenant's documents.
Usable(q) == {c \in Contents : OwnedBy[c] = AskedBy[q] /\ documents[c].trust = "trusted"}

\* _CACHE, a dictionary ordered by use: where the key of q is, and the
\* dictionary without it.
Places(w, q) == {i \in 1..Len(local[w]) : local[w][i].query = q}
Without(w, q) ==
  LET place == CHOOSE i \in Places(w, q) : TRUE IN
  IF Places(w, q) = {} THEN local[w]
  ELSE SubSeq(local[w], 1, place - 1) \o SubSeq(local[w], place + 1, Len(local[w]))
Youngest(entries) ==
  IF Len(entries) > LocalEntries
  THEN SubSeq(entries, Len(entries) - LocalEntries + 1, Len(entries)) ELSE entries

\* _cache_get of a search that begins: Redis has an answer, or none.
RedisGet(s, q) ==
  /\ SearchAt(s, "idle") /\ UNCHANGED <<documents, redis, local>>
  /\ IF redis[q].left > 0 THEN Hit(s, q, redis[q].found) ELSE Miss(s, q)

\* Mutant: a hit renews the entry.
LocalGetRenewing(s, q) ==
  LET w == ProcessOf[s] IN
  /\ SearchAt(s, "idle") /\ UNCHANGED <<documents, redis>>
  /\ \/ \E i \in Places(w, q) :
          /\ local[w][i].left > 0 /\ Hit(s, q, local[w][i].found)
          /\ local' = [local EXCEPT ![w] = Append(Without(w, q), [local[w][i] EXCEPT !.left = TTL])]
     \/ /\ \A i \in Places(w, q) : local[w][i].left = 0
        /\ Miss(s, q) /\ local' = [local EXCEPT ![w] = Without(w, q)]

\* _local_cache_get, if Redis is not configured or raises: an entry that has
\* expired is dropped, one that is used becomes the last to be evicted.
LocalGet(s, q) ==
  LET w == ProcessOf[s] IN
  /\ SearchAt(s, "idle") /\ UNCHANGED <<documents, redis>>
  /\ \/ \E i \in Places(w, q) :
          /\ local[w][i].left > 0 /\ Hit(s, q, local[w][i].found)
          /\ local' = [local EXCEPT ![w] = Append(Without(w, q), local[w][i])]
     \/ /\ \A i \in Places(w, q) : local[w][i].left = 0
        /\ Miss(s, q) /\ local' = [local EXCEPT ![w] = Without(w, q)]

\* SELECT * FROM documents.  What ranks them may cut the list, and adds nothing.
ReadDocuments(s) ==
  /\ SearchAt(s, "read") /\ UNCHANGED <<documents, redis, local>>
  /\ search' = [search EXCEPT ![s] = [@ EXCEPT !.at = "write", !.found = Usable(Asked(s))]]

Stored(s) == [redis EXCEPT ![Asked(s)] = [left |-> TTL, found |-> search[s].found]]

\* _cache_set: Redis takes the answer.
RedisSet(s) ==
  /\ SearchAt(s, "write") /\ Computed(s)
  /\ redis' = Stored(s) /\ UNCHANGED <<documents, local>>

\* Mutant: nothing is evicted.
LocalSetUnbounded(s) ==
  LET w == ProcessOf[s]
      entry == [query |-> Asked(s), left |-> TTL, found |-> search[s].found] IN
  /\ SearchAt(s, "write") /\ Computed(s)
  /\ redis' \in {redis, Stored(s)} /\ UNCHANGED documents
  /\ local' = [local EXCEPT ![w] = Append(Without(w, Asked(s)), entry)]

\* Redis is not configured or raises, perhaps after it took the answer, which
\* then goes to _local_cache_set.
LocalSet(s) ==
  LET w == ProcessOf[s]
      entry == [query |-> Asked(s), left |-> TTL, found |-> search[s].found] IN
  /\ SearchAt(s, "write") /\ Computed(s)
  /\ redis' \in {redis, Stored(s)} /\ UNCHANGED documents
  /\ local' = [local EXCEPT ![w] = Youngest(Append(Without(w, Asked(s)), entry))]

\* The caller has its answer, or the search is given up on the way.
EndSearch(s) ==
  /\ ~ SearchAt(s, "idle") /\ search' = [search EXCEPT ![s] = NoSearch]
  /\ UNCHANGED <<documents, redis, local>>

Later(entry) ==
  IF entry.left > 1 THEN [entry EXCEPT !.left = @ - 1] ELSE [entry EXCEPT !.left = 0, !.found = {}]
\* Bound: older documents are not told apart.
OldAge == TTL + 2 * SearchTime
Older(n) == IF n < OldAge THEN n + 1 ELSE n

\* Time passes.  Statements and calls have timeouts, so that a search ends; once
\* it is answered nothing about it changes.  Nobody reads an expired entry.
Tick ==
  /\ \A s \in Searches :
       \/ SearchAt(s, "idle")
       \/ ~ SearchAt(s, "answered") /\ search[s].spent < SearchTime
  /\ search' = [s \in Searches |->
       IF SearchAt(s, "idle") THEN search[s] ELSE [search[s] EXCEPT !.spent = @ + 1]]
  /\ documents' = [c \in Contents |->
       IF documents[c].trust = "trusted" THEN [documents[c] EXCEPT !.age = Older(@)] ELSE documents[c]]
  /\ redis' = [q \in Queries |-> Later(redis[q])]
  /\ local' = [w \in Processes |-> [i \in 1..Len(local[w]) |-> Later(local[w][i])]]

SearchStep(s) == ReadDocuments(s) \/ RedisSet(s) \/ LocalSet(s) \/ EndSearch(s)

RagNext ==
  \/ Tick
  \/ \E s \in Searches : SearchStep(s) \/ \E q \in Queries : RedisGet(s, q) \/ LocalGet(s, q)
  \/ \E c \in Contents, base \in Risks, guard \in Guards, label \in {"trusted", "untrusted"} :
       Ingest(c, base, guard, label)

RagSpec == RagInit /\ [][RagNext]_ragVars

-----------------------------------------------------------------------------
(* Properties                                                              *)

\* The values are of their kinds; a local cache is bounded and has at most one
\* entry of a query.
RagTypeOK ==
  /\ documents \in [Contents -> [trust: {"absent", "trusted", "untrusted"}, age: 0..OldAge, flagged: BOOLEAN]]
  /\ redis \in [Queries -> [left: 0..TTL, found: SUBSET Contents]]
  /\ \A w \in Processes :
       /\ local[w] \in Seq([query: Queries, left: 0..TTL, found: SUBSET Contents])
       /\ Len(local[w]) <= LocalEntries
       /\ \A i, j \in 1..Len(local[w]) : local[w][i].query = local[w][j].query => i = j
  /\ search \in [Searches -> [at: {"idle", "read", "write", "answered"}, query: Queries,
                              spent: 0..SearchTime, found: SUBSET Contents]]

\* Nothing invalidates the caches, but an answer is not older than they allow,
\* whichever of them it came from, and however long the search took whose result
\* was cached: a document ingested TTL and the time of one search before the
\* search began has been considered for it.
FreshEnough ==
  \A s \in Searches : SearchAt(s, "answered") =>
    \A c \in Usable(Asked(s)) :
      documents[c].age >= TTL + SearchTime + search[s].spent => c \in search[s].found

\* No answer, cached or not, holds a document of another tenant, or one that the
\* patterns or the guard model rated high or that the guard could not rate,
\* whatever trust its author claimed for it.
OwnTrusted ==
  \A s \in Searches : SearchAt(s, "answered") =>
    \A c \in search[s].found : OwnedBy[c] = AskedBy[Asked(s)] /\ ~ documents[c].flagged
=============================================================================
