------------------------------- MODULE Startup -------------------------------
(***************************************************************************)
(* Web and worker start side by side over one database: each opens its     *)
(* pool, makes the base tables and applies the migrations it finds missing *)
(* (app.py, worker.py, db.py, migrate.py).  A process that fails ends, and *)
(* its container starts it again (docker-compose.yml:84, 146).             *)
(***************************************************************************)
EXTENDS Naturals, Sequences

CONSTANTS
  Processes,       \* the programs that migrate as they start
  NumMigrations,   \* files in migrations/
  MaxCrashes       \* bound: crashes and failed statements of a behaviour

Migrations == 1..NumMigrations

ASSUME StartupAssumption == NumMigrations \in Nat /\ MaxCrashes \in Nat

VARIABLES
  process,         \* where each process is in its startup
  schema,          \* the migrations whose statements took effect, in order
  ledger,          \* the versions in schema_migrations
  crashes          \* crashes and failures so far

vars == <<process, schema, ledger, crashes>>

Down    == [at |-> "down", pending |-> {}]
Migrate == [at |-> "migrate", pending |-> {}]
Serving == [at |-> "up", pending |-> {}]

StartupTypeOK ==
  /\ process \in [Processes ->
       [at : {"down", "migrate", "apply", "up"}, pending : SUBSET Migrations]]
  /\ schema \in Seq(Migrations)
  /\ ledger \in SUBSET Migrations
  /\ crashes \in 0..MaxCrashes

Init ==
  /\ process = [p \in Processes |-> Down]
  /\ schema = << >> /\ ledger = {}
  /\ crashes = 0

Up(p) == process[p].at = "up"

\* create_pool, and init_db, which only hands the pool to migrate.
Boot(p) ==
  /\ process[p] = Down
  /\ process' = [process EXCEPT ![p] = Migrate]
  /\ UNCHANGED <<schema, ledger, crashes>>

\* The process with these versions still to apply.
Applying(pending) ==
  IF pending = {} THEN Serving ELSE [at |-> "apply", pending |-> pending]

\* The tracking table is made and the applied versions are read, once.
ReadApplied(p) ==
  /\ process[p].at = "migrate"
  /\ process' = [process EXCEPT ![p] = Applying(Migrations \ ledger)]
  /\ UNCHANGED <<schema, ledger, crashes>>

First(S) == CHOOSE v \in S : \A u \in S : v <= u

Applied(p, v) ==
  /\ schema' = Append(schema, v)
  /\ ledger' = ledger \cup {v}
  /\ process' = [process EXCEPT ![p] = Applying(process[p].pending \ {v})]

\* Mutant: the statements run outside the transaction that records them.
ApplyTwice(p) ==
  /\ process[p].at = "apply"
  /\ LET v == First(process[p].pending) IN
       IF v \in ledger
       THEN /\ process' = [process EXCEPT ![p] = Down]
            /\ schema' = Append(schema, v) /\ UNCHANGED ledger
       ELSE Applied(p, v)
  /\ UNCHANGED crashes

\* Mutant: a refused version is tried again without reading what is applied.
ApplyInPlace(p) ==
  /\ process[p].at = "apply"
  /\ First(process[p].pending) \notin ledger
  /\ Applied(p, First(process[p].pending))
  /\ UNCHANGED crashes

\* One transaction: the statements of the file and the row that records it.
\* The key of a version another process has recorded since is refused, the
\* transaction is rolled back and the process ends.
Apply(p) ==
  /\ process[p].at = "apply"
  /\ LET v == First(process[p].pending) IN
       IF v \in ledger
       THEN process' = [process EXCEPT ![p] = Down] /\ UNCHANGED <<schema, ledger>>
       ELSE Applied(p, v)
  /\ UNCHANGED crashes

\* A crash, or a statement that fails: nothing of its transaction stays.
Crash(p) ==
  /\ process[p] # Down /\ crashes < MaxCrashes
  /\ process' = [process EXCEPT ![p] = Down]
  /\ crashes' = crashes + 1
  /\ UNCHANGED <<schema, ledger>>

Next ==
  \E p \in Processes : Boot(p) \/ ReadApplied(p) \/ Apply(p) \/ Crash(p)

\* Startup is straight-line code and the containers restart what ends.
Fairness ==
  \A p \in Processes : WF_vars(Boot(p)) /\ WF_vars(ReadApplied(p)) /\ WF_vars(Apply(p))

Spec == Init /\ [][Next]_vars /\ Fairness

-----------------------------------------------------------------------------
(* Properties *)

\* Web and worker read the same applied versions and both try each file: its
\* statements take effect once, in order, as far as the ledger says, and all of
\* them before either process serves (migrate.py:87-118, app.py:49,
\* worker.py:203).
MigratedOnce ==
  /\ \A i \in DOMAIN schema : schema[i] = i
  /\ ledger = 1..Len(schema)
  /\ \A p \in Processes : Up(p) => ledger = Migrations

\* A process that ends on a migration the other has applied is up for good
\* after some restarts, whatever the order of their steps.
AllStart == \A p \in Processes : <>[]Up(p)
=============================================================================
