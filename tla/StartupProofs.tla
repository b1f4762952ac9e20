---------------------------- MODULE StartupProofs ----------------------------
(***************************************************************************)
(* What is proved about Startup, for any number of processes, migrations   *)
(* and crashes.                                                            *)
(***************************************************************************)
EXTENDS Startup, TLAPS

\* What a process still has to apply is every migration from some version on,
\* and none that could be missing before it: it read a prefix of the ledger.
PendingIsTail ==
  \A p \in Processes : process[p].at = "apply" =>
    \E k \in Migrations :
      process[p].pending = k..NumMigrations /\ k <= Len(schema) + 1

\* The inductive invariant.
StartupInv == StartupTypeOK /\ MigratedOnce /\ PendingIsTail

-----------------------------------------------------------------------------
(* Lemmas about the operators *)

LEMMA FirstOfTail ==
  ASSUME NEW k \in Migrations
  PROVE  First(k..NumMigrations) = k
<1>1. k \in k..NumMigrations /\ \A u \in k..NumMigrations : k <= u
  BY StartupAssumption DEF Migrations
<1>2. ASSUME NEW v \in k..NumMigrations, \A u \in k..NumMigrations : v <= u
      PROVE  v = k
  BY <1>1, <1>2, StartupAssumption DEF Migrations
<1> QED
  BY <1>1, <1>2 DEF First

LEMMA ApplyingType ==
  ASSUME NEW pending \in SUBSET Migrations
  PROVE  Applying(pending) \in
           [at : {"down", "migrate", "apply", "up"}, pending : SUBSET Migrations]
BY DEF Applying, Serving

\* A process with a tail to apply applies it, or serves when the tail is empty.
LEMMA ApplyingTail ==
  ASSUME NEW k \in 1..(NumMigrations + 1)
  PROVE  /\ Applying(k..NumMigrations).at = "up" => k = NumMigrations + 1
         /\ Applying(k..NumMigrations).at = "apply" =>
              /\ k \in Migrations
              /\ Applying(k..NumMigrations).pending = k..NumMigrations
<1>1. k..NumMigrations = {} <=> k = NumMigrations + 1
  BY StartupAssumption
<1> QED
  BY <1>1, StartupAssumption DEF Applying, Serving, Migrations

-----------------------------------------------------------------------------
(* The steps *)

LEMMA StartupInit == Init => StartupInv
BY StartupAssumption
   DEF Init, StartupInv, StartupTypeOK, MigratedOnce, PendingIsTail, Down, Up

LEMMA LedgerIsPrefix ==
  ASSUME StartupInv
  PROVE  Len(schema) \in 0..NumMigrations
<1>1. Len(schema) \in Nat
  BY DEF StartupInv, StartupTypeOK
<1>2. CASE Len(schema) = 0
  BY <1>2, StartupAssumption
<1>3. CASE Len(schema) # 0
  <2>1. Len(schema) \in ledger
    BY <1>1, <1>3 DEF StartupInv, MigratedOnce
  <2> QED
    BY <2>1, StartupAssumption DEF StartupInv, StartupTypeOK, Migrations
<1> QED
  BY <1>2, <1>3

LEMMA BootKeeps ==
  ASSUME StartupInv, NEW p \in Processes, Boot(p)
  PROVE  StartupInv'
BY DEF StartupInv, StartupTypeOK, MigratedOnce, PendingIsTail, Up, Boot, Migrate

LEMMA CrashKeeps ==
  ASSUME StartupInv, NEW p \in Processes, Crash(p)
  PROVE  StartupInv'
BY StartupAssumption
   DEF StartupInv, StartupTypeOK, MigratedOnce, PendingIsTail, Up, Crash, Down

LEMMA ReadAppliedKeeps ==
  ASSUME StartupInv, NEW p \in Processes, ReadApplied(p)
  PROVE  StartupInv'
<1> DEFINE n == Len(schema)
<1> DEFINE next == Applying(Migrations \ ledger)
<1>1. n \in 0..NumMigrations
  BY LedgerIsPrefix
<1>2. Migrations \ ledger = (n + 1)..NumMigrations
  BY <1>1, StartupAssumption DEF StartupInv, MigratedOnce, Migrations
<1>3. /\ process' = [process EXCEPT ![p] = next]
      /\ UNCHANGED <<schema, ledger, crashes>>
  BY DEF ReadApplied
<1>4. StartupTypeOK'
  BY <1>3, ApplyingType DEF StartupInv, StartupTypeOK
<1>5. /\ next.at = "up" => n = NumMigrations
      /\ next.at = "apply" =>
           n + 1 \in Migrations /\ next.pending = (n + 1)..NumMigrations
  <2> DEFINE k == n + 1
  <2>1. k \in 1..(NumMigrations + 1)
    BY <1>1, StartupAssumption
  <2>3. next = Applying(k..NumMigrations)
    BY <1>2, Zenon
  <2> HIDE DEF k
  <2>2. /\ next.at = "up" => k = NumMigrations + 1
        /\ next.at = "apply" => k \in Migrations /\ next.pending = k..NumMigrations
    BY <2>1, <2>3, ApplyingTail
  <2> QED
    BY <1>1, <2>2, StartupAssumption DEF k
<1> HIDE DEF next
<1>6. MigratedOnce'
  BY <1>3, <1>5 DEF StartupInv, StartupTypeOK, MigratedOnce, Up, Migrations
<1>7. PendingIsTail'
  BY <1>1, <1>3, <1>5 DEF StartupInv, StartupTypeOK, PendingIsTail
<1> QED
  BY <1>4, <1>6, <1>7 DEF StartupInv

LEMMA ApplyKeeps ==
  ASSUME StartupInv, NEW p \in Processes, Apply(p)
  PROVE  StartupInv'
<1> DEFINE n == Len(schema)
<1>1. n \in 0..NumMigrations
  BY LedgerIsPrefix
<1>2. PICK k \in Migrations : process[p].pending = k..NumMigrations /\ k <= n + 1
  BY DEF StartupInv, PendingIsTail, Apply
<1>3. First(process[p].pending) = k
  BY <1>2, FirstOfTail
<1>4. CASE k \in ledger
  <2>1. process' = [process EXCEPT ![p] = Down] /\ UNCHANGED <<schema, ledger, crashes>>
    BY <1>3, <1>4 DEF Apply
  <2> QED
    BY <2>1 DEF StartupInv, StartupTypeOK, MigratedOnce, PendingIsTail, Up, Down
<1>5. CASE k \notin ledger
  <2> DEFINE next == Applying((k + 1)..NumMigrations)
  <2>1. k = n + 1
    BY <1>1, <1>2, <1>5 DEF StartupInv, MigratedOnce, Migrations
  <2>2. (k..NumMigrations) \ {k} = (k + 1)..NumMigrations
    BY StartupAssumption DEF Migrations
  <2>3. /\ schema' = Append(schema, k)
        /\ ledger' = ledger \cup {k}
        /\ process' = [process EXCEPT ![p] = next]
        /\ UNCHANGED crashes
    BY <1>2, <1>3, <1>5, <2>2 DEF Apply, Applied
  <2>4. /\ next.at = "up" => k = NumMigrations
        /\ next.at = "apply" =>
             k + 1 \in Migrations /\ next.pending = (k + 1)..NumMigrations
    BY ApplyingTail, StartupAssumption DEF Migrations
  <2>5. (k + 1)..NumMigrations \in SUBSET Migrations
    BY StartupAssumption DEF Migrations
  <2>6. next \in [at : {"down", "migrate", "apply", "up"}, pending : SUBSET Migrations]
    BY <2>5, ApplyingType
  <2> HIDE DEF next
  <2>7. StartupTypeOK'
    BY <2>3, <2>6 DEF StartupInv, StartupTypeOK
  <2>8. Len(schema') = k /\ \A i \in DOMAIN schema' : schema'[i] = i
    BY <2>1, <2>3 DEF StartupInv, StartupTypeOK, MigratedOnce
  <2>9. ledger' = 1..k
    BY <1>1, <2>1, <2>3 DEF StartupInv, MigratedOnce
  <2>10. ASSUME NEW q \in Processes, Up(q)' PROVE ledger' = Migrations
    <3>1. CASE q = p
      BY <2>3, <2>4, <2>9, <2>10, <3>1
         DEF StartupInv, StartupTypeOK, Up, Migrations
    <3>2. CASE q # p
      BY <1>5, <2>3, <2>10, <3>2 DEF StartupInv, StartupTypeOK, MigratedOnce, Up
    <3> QED
      BY <3>1, <3>2
  <2>11. MigratedOnce'
    BY <2>8, <2>9, <2>10 DEF MigratedOnce
  <2>12. PendingIsTail'
    <3> SUFFICES ASSUME NEW q \in Processes, process'[q].at = "apply"
                 PROVE  \E j \in Migrations :
                          process'[q].pending = j..NumMigrations /\ j <= k + 1
      BY <2>8 DEF PendingIsTail
    <3>1. CASE q = p
      BY <2>3, <2>4, <3>1 DEF StartupInv, StartupTypeOK, Migrations
    <3>2. CASE q # p
      <4>1. PICK j \in Migrations :
              process[q].pending = j..NumMigrations /\ j <= n + 1
        BY <2>3, <3>2 DEF StartupInv, StartupTypeOK, PendingIsTail
      <4>2. j <= k + 1
        BY <1>1, <2>1, <4>1 DEF Migrations
      <4> QED
        BY <2>3, <3>2, <4>1, <4>2 DEF StartupInv, StartupTypeOK
    <3> QED
      BY <3>1, <3>2
  <2> QED
    BY <2>7, <2>11, <2>12 DEF StartupInv
<1> QED
  BY <1>4, <1>5

LEMMA StartupNext == StartupInv /\ [Next]_vars => StartupInv'
<1> SUFFICES ASSUME StartupInv, [Next]_vars PROVE StartupInv'
  OBVIOUS
<1>1. CASE UNCHANGED vars
  BY <1>1 DEF vars, StartupInv, StartupTypeOK, MigratedOnce, PendingIsTail, Up
<1>2. CASE Next
  BY <1>2, BootKeeps, ReadAppliedKeeps, ApplyKeeps, CrashKeeps DEF Next
<1> QED
  BY <1>1, <1>2

-----------------------------------------------------------------------------
(* Theorems *)

\* The strengthened invariant holds of every startup.
THEOREM StartupSafe == Spec => []StartupInv
BY StartupInit, StartupNext, PTL DEF Spec

\* The variables keep their types.
THEOREM StartupTypes == Spec => []StartupTypeOK
<1>1. StartupInv => StartupTypeOK
  BY DEF StartupInv
<1> QED
  BY <1>1, StartupSafe, PTL

\* However many processes start together, and wherever they crash, every
\* migration takes effect once and in order, and nobody serves before the last
\* (migrate.py:87-118).
THEOREM MigrationsApplyOnce == Spec => []MigratedOnce
<1>1. StartupInv => MigratedOnce
  BY DEF StartupInv
<1> QED
  BY <1>1, StartupSafe, PTL
=============================================================================
