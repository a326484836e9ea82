-------------------------------- MODULE Seed --------------------------------
(***************************************************************************)
(* The start of an API process as far as seed() of app/main.py goes:       *)
(* several processes start at the same time on a database that may be      *)
(* empty, each checking table after table and filling what it finds empty. *)
(* A process whose start raises dies and is started again.                 *)
(*                                                                         *)
(*   rows[T]    rows of table T, in batches that are inserted together     *)
(*   start[w]   position of process w: "down", "check" or "insert" with    *)
(*              the table's place, or "up"                                 *)
(*   crashes    crashes so far that are not due to a conflict              *)
(***************************************************************************)
EXTENDS Naturals, Sequences, FiniteSets

CONSTANTS Starters,
          SeedDocuments,  \* bound: documents of a corpus (five in the code)
          MaxCrashes      \* bound

ASSUME SeedAssumption == SeedDocuments \in Nat \ {0} /\ MaxCrashes \in Nat

VARIABLES rows, start, crashes
seedVars == <<rows, start, crashes>>

\* In the order of the code, for the one tenant that is modelled.
Tables == <<"tenants", "documents", "products", "customers", "orders", "incidents", "audit_events">>
TableNames == {Tables[i] : i \in 1..Len(Tables)}
\* Those with a UNIQUE constraint that a second batch violates.
Unique == {"tenants", "products", "customers", "orders"}
Batches(T) == IF T = "documents" THEN SeedDocuments ELSE 1

Down == [at |-> "down", table |-> 1, done |-> 0]

SeedInit ==
  /\ rows = [T \in TableNames |-> 0] /\ crashes = 0
  /\ start = [w \in Starters |-> Down]

-----------------------------------------------------------------------------

Table(w) == Tables[start[w].table]
NextTable(w) ==
  IF start[w].table < Len(Tables)
  THEN [at |-> "check", table |-> start[w].table + 1, done |-> 0]
  ELSE [Down EXCEPT !.at = "up"]

\* lifespan: connect, and the recovery scan.
StartProcess(w) ==
  /\ start[w].at = "down" /\ start' = [start EXCEPT ![w].at = "check"]
  /\ UNCHANGED <<rows, crashes>>

\* Mutant: the tables are filled without looking.
CheckNothing(w) ==
  /\ start[w].at = "check" /\ start' = [start EXCEPT ![w].at = "insert"]
  /\ UNCHANGED <<rows, crashes>>

\* Mutant: a table that is not empty is taken for a database that is seeded.
CheckFirst(w) ==
  /\ start[w].at = "check" /\ UNCHANGED <<rows, crashes>>
  /\ \/ rows[Table(w)] = 0 /\ start' = [start EXCEPT ![w].at = "insert"]
     \/ rows[Table(w)] > 0 /\ start' = [start EXCEPT ![w] = [Down EXCEPT !.at = "up"]]

\* SELECT id FROM the table LIMIT 1.
CheckTable(w) ==
  /\ start[w].at = "check" /\ UNCHANGED <<rows, crashes>>
  /\ \/ rows[Table(w)] = 0 /\ start' = [start EXCEPT ![w].at = "insert"]
     \/ rows[Table(w)] > 0 /\ start' = [start EXCEPT ![w] = NextTable(w)]

\* executemany in one transaction; the documents one by one, by ingest.
InsertRows(w) ==
  /\ start[w].at = "insert" /\ ~ (Table(w) \in Unique /\ rows[Table(w)] > 0)
  /\ rows' = [rows EXCEPT ![Table(w)] = @ + 1] /\ UNCHANGED crashes
  /\ start' = [start EXCEPT ![w] =
       IF start[w].done + 1 < Batches(Table(w)) THEN [start[w] EXCEPT !.done = @ + 1] ELSE NextTable(w)]

\* Another process was faster: the constraint raises, and the start fails.
InsertConflicts(w) ==
  /\ start[w].at = "insert" /\ Table(w) \in Unique /\ rows[Table(w)] > 0
  /\ start' = [start EXCEPT ![w] = Down] /\ UNCHANGED <<rows, crashes>>

\* A statement fails, or the process dies.
CrashProcess(w) ==
  /\ start[w].at # "down" /\ crashes < MaxCrashes /\ crashes' = crashes + 1
  /\ start' = [start EXCEPT ![w] = Down] /\ UNCHANGED rows

SeedStep(w) == StartProcess(w) \/ CheckTable(w) \/ InsertRows(w) \/ InsertConflicts(w)
SeedNext == \E w \in Starters : SeedStep(w) \/ CrashProcess(w)

SeedSpec == SeedInit /\ [][SeedNext]_seedVars

\* The supervisor restarts a process that died, and every statement ends.
FairSeedSpec == SeedSpec /\ \A w \in Starters : WF_seedVars(SeedStep(w))

-----------------------------------------------------------------------------
(* Properties                                                              *)

SeedTypeOK ==
  /\ rows \in [TableNames -> Nat] /\ crashes \in 0..MaxCrashes
  /\ start \in [Starters -> [at: {"down", "check", "insert", "up"}, table: 1..Len(Tables), done: 0..SeedDocuments]]

\* Nothing but the constraints keeps two processes from filling a table twice:
\* documents and incidents may be there twice, and a crash may leave a corpus
\* incomplete for good.
Seeded ==
  /\ \A T \in TableNames : rows[T] > 0
  /\ \A T \in Unique : rows[T] = 1

\* Whoever filled the tables, and however many starts died half-way, no process
\* serves while a table is empty or one with a constraint was filled twice: what
\* a process finds filled it may skip, the rest it must still look at.
ServesSeeded == \A w \in Starters : start[w].at = "up" => Seeded

\* After finitely many crashes every process serves, on a database where no table
\* is empty and none with a constraint was filled twice: losing the race for a
\* table costs a process a restart but never ends in a loop of them.
ProcessesUp == \A w \in Starters : <>[](start[w].at = "up" /\ Seeded)
=============================================================================
