------------------------- MODULE CaptureQueueProofs -------------------------
(***************************************************************************)
(* Proofs about CaptureQueue, for every set of archives, workers and       *)
(* places, every ladder and every retry budget.                            *)
(***************************************************************************)
EXTENDS CaptureQueue, FiniteSetTheorems, NumberLemmas, TLAPS

-----------------------------------------------------------------------------
(* The jobs table as a sequence *)

\* A table rewritten row by row is a table of the same length.
LEMMA RewriteIsSeq ==
  ASSUME NEW S, NEW s \in Seq(S), NEW f \in [1..Len(s) -> S]
  PROVE  f \in Seq(S) /\ Len(f) = Len(s)
  OBVIOUS

\* UPDATE jobs changes the status and the age of the lock of one row.
LEMMA SetJobEffect ==
  ASSUME jobs \in Seq(JobRow),
         NEW i \in 1..Len(jobs), NEW st \in JobStatus, SetJob(i, st)
  PROVE  /\ jobs' \in Seq(JobRow)
         /\ Len(jobs') = Len(jobs)
         /\ \A k \in 1..Len(jobs) :
              /\ jobs'[k].archive = jobs[k].archive
              /\ jobs'[k].tier = jobs[k].tier
              /\ k # i => jobs'[k] = jobs[k]
              /\ jobs'[k].status = "deleted" <=> jobs[k].status = "deleted"
         /\ jobs[i].status # "deleted" =>
              jobs'[i].status = st /\ jobs'[i].overdue = FALSE
         /\ jobs[i].status = "deleted" => jobs' = jobs
<1>1. CASE jobs[i].status = "deleted"
  BY <1>1 DEF SetJob, JobStatus
<1>2. CASE jobs[i].status # "deleted"
  <2>1. jobs[i] \in JobRow
    OBVIOUS
  <2>2. [jobs[i] EXCEPT !.status = st, !.overdue = FALSE] \in JobRow
    BY <2>1 DEF JobRow
  <2>3. jobs' = [jobs EXCEPT ![i] = [jobs[i] EXCEPT !.status = st, !.overdue = FALSE]]
    BY <1>2 DEF SetJob
  <2>9. jobs \in [1..Len(jobs) -> JobRow]
    OBVIOUS
  <2>4. jobs' \in [1..Len(jobs) -> JobRow]
    BY <2>2, <2>3, <2>9
  <2>5. jobs' \in Seq(JobRow) /\ Len(jobs') = Len(jobs)
    BY <2>4, RewriteIsSeq
  <2>6. jobs'[i] = [jobs[i] EXCEPT !.status = st, !.overdue = FALSE]
    BY <2>3, <2>9
  <2>7. \A k \in 1..Len(jobs) : k # i => jobs'[k] = jobs[k]
    BY <2>3, <2>9
  <2>8. /\ jobs'[i].archive = jobs[i].archive /\ jobs'[i].tier = jobs[i].tier
        /\ jobs'[i].status = st /\ jobs'[i].overdue = FALSE
    BY <2>1, <2>6 DEF JobRow
  <2> QED
    BY <1>2, <2>5, <2>7, <2>8 DEF JobStatus
<1> QED
  BY <1>1, <1>2

\* INSERT INTO jobs adds one queued row for an archive that has a row, or none.
LEMMA EnqueueEffect ==
  ASSUME jobs \in Seq(JobRow),
         NEW a \in Archives, NEW t \in Tiers, NEW p \in Nat, Enqueue(a, t, p)
  PROVE  /\ jobs' \in Seq(JobRow)
         /\ Len(jobs') \in Nat /\ Len(jobs) <= Len(jobs')
         /\ \A k \in 1..Len(jobs) : jobs'[k] = jobs[k]
         /\ \/ jobs' = jobs
            \/ /\ HasRow(a)
               /\ Len(jobs') = Len(jobs) + 1
               /\ jobs'[Len(jobs) + 1] =
                    [archive |-> a, tier |-> t, priority |-> p,
                     status |-> "queued", overdue |-> FALSE]
<1> DEFINE row == [archive |-> a, tier |-> t, priority |-> p,
                   status |-> "queued", overdue |-> FALSE]
<1>1. row \in JobRow
  BY DEF JobRow, JobStatus
<1>2. CASE HasRow(a)
  <2>1. jobs' = Append(jobs, row)
    BY <1>2 DEF Enqueue
  <2> HIDE DEF row
  <2>2. /\ Append(jobs, row) \in Seq(JobRow)
        /\ Len(Append(jobs, row)) = Len(jobs) + 1
        /\ Append(jobs, row)[Len(jobs) + 1] = row
        /\ \A k \in 1..Len(jobs) : Append(jobs, row)[k] = jobs[k]
    BY <1>1
  <2> QED
    BY <1>2, <2>1, <2>2 DEF row
<1>3. CASE ~HasRow(a)
  BY <1>3 DEF Enqueue
<1> QED
  BY <1>2, <1>3
-----------------------------------------------------------------------------
(* Type correctness *)

Steps    == TrySteps \cup HandlerSteps
LaneOK   == lane \in [Lanes -> [at : Steps, job : 1..Len(jobs)] \cup {Idle}]

\* A busy lane is at a statement and has a row of the jobs table in hand.
LEMMA BusyLane ==
  ASSUME TypeOK, NEW l \in Lanes, Busy(l)
  PROVE  /\ lane[l] \in [at : Steps, job : 1..Len(jobs)]
         /\ lane[l].at \in Steps
         /\ lane[l].job \in 1..Len(jobs)
         /\ JobOf(l) \in JobRow
<1>1. lane[l] \in [at : Steps, job : 1..Len(jobs)]
  BY DEF TypeOK, Busy, Idle, Steps
<1>2. lane[l].at \in Steps /\ lane[l].job \in 1..Len(jobs)
  BY <1>1
<1> QED
  BY <1>1, <1>2 DEF TypeOK, JobOf

\* A lane that is at a statement is busy.
LEMMA AtIsBusy ==
  ASSUME NEW l \in Lanes, NEW step \in Steps, At(l, step)
  PROVE  Busy(l)
  BY DEF At, Busy, Steps, TrySteps, HandlerSteps

\* Neither moving a lane on nor finishing it leaves the type of lane, while the
\* jobs table does not shrink.
LEMMA GoToType ==
  ASSUME TypeOK, NEW l \in Lanes, Busy(l), NEW step \in Steps, GoTo(l, step),
         Len(jobs') = Len(jobs)
  PROVE  LaneOK'
<1>1. lane[l] \in [at : Steps, job : 1..Len(jobs)]
  BY BusyLane
<1>2. [lane[l] EXCEPT !.at = step] \in [at : Steps, job : 1..Len(jobs)]
  BY <1>1
<1> QED
  BY <1>2 DEF TypeOK, GoTo, LaneOK, Steps

LEMMA FinishType ==
  ASSUME TypeOK, NEW l \in Lanes, Finish(l),
         Len(jobs') \in Nat, Len(jobs) <= Len(jobs')
  PROVE  LaneOK'
<1>1. lane \in [Lanes -> [at : Steps, job : 1..Len(jobs)] \cup {Idle}]
  BY DEF TypeOK, Steps
<1>2. Len(jobs) \in Nat
  BY DEF TypeOK
<1>3. [at : Steps, job : 1..Len(jobs)] \subseteq [at : Steps, job : 1..Len(jobs')]
  BY <1>2
<1>4. lane' = [lane EXCEPT ![l] = Idle]
  BY DEF Finish
<1> QED
  BY <1>1, <1>3, <1>4 DEF LaneOK

LEMMA SetArchiveType ==
  ASSUME TypeOK, NEW a \in Archives, NEW st \in ArchiveStatus, SetArchive(a, st)
  PROVE  archive' \in [Archives -> ArchiveStatus \cup {"absent", "deleted"}]
  BY DEF TypeOK, SetArchive

-----------------------------------------------------------------------------
(* What a step of a lane may do, whichever statement it executes *)

\* The statements a lane reaches only once its job's row is settled.
SettledSteps == {"reject", "observe", "budget", "requeue", "abandon", "escalate"}

MovesOn(l) == Finish(l) \/ \E step \in Steps : GoTo(l, step)

SettlesJob(l) == \E st \in {"complete", "failed", "retry"} : SetJob(lane[l].job, st)

EnqueuesNext(l) ==
  /\ lane[l].at \in {"requeue", "escalate"}
  /\ Finish(l)
  /\ UNCHANGED archive
  /\ \E t \in Tiers, p \in Nat : Enqueue(JobOf(l).archive, t, p)

\* The last statement of a handler fails the archive of a settled job.
FailsArchive(l) ==
  /\ lane[l].at \in SettledSteps
  /\ Finish(l)
  /\ UNCHANGED jobs
  /\ SetArchive(JobOf(l).archive, "failed")

LaneEffect(l) ==
  /\ Busy(l)
  /\ UNCHANGED <<removed, submitting, worker>>
  /\ MovesOn(l)
  /\ UNCHANGED jobs \/ SettlesJob(l) \/ EnqueuesNext(l)
  /\ \/ UNCHANGED archive
     \/ \E st \in {"capturing", "complete"} : SetArchive(JobOf(l).archive, st)
     \/ FailsArchive(l)
  /\ lane'[l].at \in SettledSteps =>
       (UNCHANGED jobs /\ lane[l].at \in SettledSteps) \/ SettlesJob(l)

\* The place a lane moves on to.
LEMMA LaneAfter ==
  ASSUME TypeOK, NEW l \in Lanes
  PROVE  /\ \A step : GoTo(l, step) /\ Busy(l) => lane'[l].at = step
         /\ Finish(l) => lane'[l].at = "idle"
<1>1. ASSUME NEW step, GoTo(l, step), Busy(l) PROVE lane'[l].at = step
  <2>1. lane[l] \in [at : Steps, job : 1..Len(jobs)]
    BY <1>1, BusyLane
  <2>2. lane'[l] = [lane[l] EXCEPT !.at = step]
    BY <1>1 DEF TypeOK, GoTo
  <2> QED
    BY <2>1, <2>2
<1>2. ASSUME Finish(l) PROVE lane'[l].at = "idle"
  BY <1>2 DEF TypeOK, Finish, Idle
<1> QED
  BY <1>1, <1>2

\* Every statement of a capture, its failures included, has that shape.
LEMMA LaneStepShape ==
  ASSUME TypeOK, NEW l \in Lanes, LaneStep(l) \/ StatementError(l) \/ Disconnect(l)
  PROVE  LaneEffect(l)
<1>steps. {"gone", "skip", "mark", "unsafe", "reject", "capture", "save", "giveup",
           "count", "settle", "observe", "retry", "budget", "requeue", "abandon",
           "escalate", "fetch"} \subseteq Steps
  BY DEF Steps, TrySteps, HandlerSteps
<1>after. /\ \A step : GoTo(l, step) /\ Busy(l) => lane'[l].at = step
          /\ Finish(l) => lane'[l].at = "idle"
  BY LaneAfter
<1>quiet. ASSUME Busy(l), NEW step \in Steps, step \notin SettledSteps, GoTo(l, step),
                 UNCHANGED <<archive, removed, submitting, jobs, worker>>
          PROVE  LaneEffect(l)
  BY <1>quiet, <1>after DEF LaneEffect, MovesOn
<1>1. CASE Fetch(l)
  <2>1. \E step \in {"gone", "skip", "mark", "unsafe"} : GoTo(l, step)
    BY <1>1 DEF Fetch
  <2> QED
    BY <1>1, <2>1, <1>quiet, <1>steps, AtIsBusy DEF Fetch, SettledSteps
<1>2. CASE Gone(l) \/ Skip(l)
  BY <1>2, <1>steps, <1>after, AtIsBusy
  DEF Gone, Skip, LaneEffect, MovesOn, SettlesJob, SettledSteps
<1>3. CASE Unsafe(l) \/ Settle(l) \/ GiveUp(l)
  BY <1>3, <1>steps, <1>after, AtIsBusy
  DEF Unsafe, Settle, GiveUp, LaneEffect, MovesOn, SettlesJob
<1>4. CASE Reject(l)
  BY <1>4, <1>steps, <1>after, AtIsBusy
  DEF Reject, LaneEffect, MovesOn, FailsArchive, SettledSteps, At
<1>5. CASE Mark(l) \/ Save(l)
  BY <1>5, <1>steps, <1>after, AtIsBusy
  DEF Mark, Save, LaneEffect, MovesOn, SettledSteps
<1>6. CASE Capture(l)
  BY <1>6, <1>quiet, <1>steps, AtIsBusy DEF Capture, SettledSteps
<1>7. CASE Observe(l) \/ Disconnect(l)
  BY <1>7, <1>steps, <1>after, AtIsBusy
  DEF Observe, Disconnect, LaneEffect, MovesOn, SettledSteps
<1>8. CASE StatementError(l)
  <2>1. Busy(l)
    BY <1>8 DEF StatementError, Busy, TrySteps
  <2> QED
    BY <1>8, <2>1, <1>quiet, <1>steps DEF StatementError, SettledSteps
<1>9. CASE CountAttempts(l)
  <2>1. GoTo(l, "retry") \/ GoTo(l, "giveup")
    BY <1>9 DEF CountAttempts
  <2> QED
    BY <1>9, <2>1, <1>quiet, <1>steps, AtIsBusy DEF CountAttempts, SettledSteps
<1>10. CASE Retry(l)
  BY <1>10, <1>steps, <1>after, AtIsBusy
  DEF Retry, LaneEffect, MovesOn, SettlesJob, SettledSteps
<1>11. CASE CountTotal(l)
  <2>1. GoTo(l, "requeue") \/ GoTo(l, "abandon")
    BY <1>11 DEF CountTotal
  <2>2. lane[l].at \in SettledSteps
    BY <1>11 DEF CountTotal, At, SettledSteps
  <2> QED
    BY <1>11, <2>1, <2>2, <1>steps, AtIsBusy DEF CountTotal, LaneEffect, MovesOn
<1>12. CASE Requeue(l)
  <2>1. JobOf(l).tier \in Tiers /\ JobOf(l).priority \in Nat
    BY <1>12, <1>steps, AtIsBusy, BusyLane DEF Requeue, JobRow
  <2> QED
    BY <1>12, <2>1, <1>steps, <1>after, AtIsBusy
    DEF Requeue, LaneEffect, MovesOn, EnqueuesNext, SettledSteps, At
<1>13. CASE Abandon(l)
  BY <1>13, <1>steps, <1>after, AtIsBusy
  DEF Abandon, LaneEffect, MovesOn, FailsArchive, SettledSteps, At
<1>14. CASE Escalate(l)
  <2>1. /\ JobOf(l).tier \in Tiers /\ JobOf(l).priority + 1 \in Nat
        /\ JobOf(l).tier < NumTiers => JobOf(l).tier + 1 \in Tiers
    BY <1>14, <1>steps, AtIsBusy, BusyLane, LadderAssumption DEF Escalate, JobRow, Tiers
  <2>2. Busy(l) /\ Finish(l) /\ lane[l].at = "escalate"
        /\ UNCHANGED <<removed, submitting, worker>>
    BY <1>14, <1>steps, AtIsBusy DEF Escalate, At
  <2>3. CASE /\ JobOf(l).tier < NumTiers
             /\ Enqueue(JobOf(l).archive, JobOf(l).tier + 1, JobOf(l).priority + 1)
             /\ UNCHANGED archive
    BY <2>1, <2>2, <2>3, <1>after
    DEF LaneEffect, MovesOn, EnqueuesNext, SettledSteps
  <2>4. CASE SetArchive(JobOf(l).archive, "failed") /\ UNCHANGED jobs
    BY <2>2, <2>4, <1>after
    DEF LaneEffect, MovesOn, FailsArchive, SettledSteps
  <2> QED
    BY <1>14, <2>3, <2>4 DEF Escalate
<1> QED
  BY <1>1, <1>2, <1>3, <1>4, <1>5, <1>6, <1>7, <1>8, <1>9, <1>10, <1>11, <1>12,
     <1>13, <1>14 DEF LaneStep

\* A lane of a worker that dies or drains is idle, the others keep their job.
LEMMA ClearedType ==
  ASSUME TypeOK, NEW w \in Workers,
         lane' = [l \in Lanes |-> IF l[1] = w THEN Idle ELSE lane[l]],
         jobs' = jobs
  PROVE  LaneOK'
  BY DEF TypeOK, LaneOK, Steps

\* A statement of a lane keeps the types.
LEMMA LaneType ==
  ASSUME TypeOK, NEW l \in Lanes, LaneEffect(l)
  PROVE  TypeOK'
<1>1. /\ lane[l].job \in 1..Len(jobs)
      /\ JobOf(l) \in JobRow
      /\ JobOf(l).archive \in Archives
  BY BusyLane DEF LaneEffect, JobRow
<1>2. archive' \in [Archives -> ArchiveStatus \cup {"absent", "deleted"}]
  BY <1>1, SetArchiveType DEF LaneEffect, FailsArchive, TypeOK, ArchiveStatus
<1>3. CASE UNCHANGED jobs \/ SettlesJob(l)
  <2>1. jobs' \in Seq(JobRow) /\ Len(jobs') = Len(jobs)
    <3>1. CASE UNCHANGED jobs
      BY <3>1 DEF TypeOK
    <3>2. CASE SettlesJob(l)
      <4>1. PICK st \in {"complete", "failed", "retry"} : SetJob(lane[l].job, st)
        BY <3>2 DEF SettlesJob
      <4>2. st \in JobStatus
        BY DEF JobStatus
      <4> QED
        BY <4>1, <4>2, <1>1, SetJobEffect DEF TypeOK
    <3> QED
      BY <1>3, <3>1, <3>2
  <2>2. Len(jobs') \in Nat /\ Len(jobs) <= Len(jobs')
    BY <2>1 DEF TypeOK
  <2>3. LaneOK'
    BY <2>1, <2>2, GoToType, FinishType DEF LaneEffect, MovesOn
  <2> QED
    BY <1>2, <2>1, <2>3 DEF LaneEffect, TypeOK, LaneOK, Steps
<1>4. CASE EnqueuesNext(l)
  <2>1. PICK t \in Tiers, p \in Nat : Enqueue(JobOf(l).archive, t, p)
    BY <1>4 DEF EnqueuesNext
  <2>2. /\ jobs' \in Seq(JobRow)
        /\ Len(jobs') \in Nat /\ Len(jobs) <= Len(jobs')
    BY <2>1, <1>1, EnqueueEffect DEF TypeOK
  <2>3. LaneOK'
    BY <1>4, <2>2, FinishType DEF EnqueuesNext
  <2> QED
    BY <1>2, <2>2, <2>3 DEF LaneEffect, TypeOK, LaneOK, Steps
<1> QED
  BY <1>3, <1>4 DEF LaneEffect

\* UPDATE ... WHERE locked_at < cutoff and the cascade of a delete rewrite rows.
LEMMA StartEffect ==
  ASSUME TypeOK, NEW w \in Workers, Start(w)
  PROVE  /\ jobs' \in Seq(JobRow) /\ Len(jobs') = Len(jobs)
         /\ \A k \in 1..Len(jobs) :
              /\ jobs'[k].archive = jobs[k].archive /\ jobs'[k].tier = jobs[k].tier
              /\ jobs'[k] = jobs[k] \/ /\ jobs[k].status = "running"
                                       /\ jobs[k].overdue
                                       /\ jobs'[k].status = "queued"
                                       /\ jobs'[k].overdue = FALSE
<1>1. DOMAIN jobs = 1..Len(jobs) /\ \A k \in 1..Len(jobs) : jobs[k] \in JobRow
  BY DEF TypeOK
<1>2. \A k \in 1..Len(jobs) :
        jobs'[k] = IF jobs[k].status = "running" /\ jobs[k].overdue
                   THEN [jobs[k] EXCEPT !.status = "queued", !.overdue = FALSE]
                   ELSE jobs[k]
  BY <1>1 DEF Start
<1>3. ASSUME NEW k \in 1..Len(jobs)
      PROVE  LET new == [jobs[k] EXCEPT !.status = "queued", !.overdue = FALSE] IN
             /\ new \in JobRow
             /\ new.archive = jobs[k].archive /\ new.tier = jobs[k].tier
             /\ new.status = "queued" /\ new.overdue = FALSE
  BY <1>1 DEF JobRow, JobStatus
<1>4. jobs' \in [1..Len(jobs) -> JobRow]
  BY <1>1, <1>3 DEF Start
<1> QED
  BY <1>2, <1>3, <1>4, RewriteIsSeq DEF TypeOK

LEMMA HardDeleteEffect ==
  ASSUME TypeOK, NEW a \in Archives, HardDelete(a)
  PROVE  /\ jobs' \in Seq(JobRow) /\ Len(jobs') = Len(jobs)
         /\ \A k \in 1..Len(jobs) :
              /\ jobs'[k].archive = jobs[k].archive
              /\ jobs[k].archive # a => jobs'[k] = jobs[k]
              /\ jobs[k].archive = a => /\ jobs'[k].status = "deleted"
                                        /\ jobs'[k].overdue = FALSE
<1>1. DOMAIN jobs = 1..Len(jobs) /\ \A k \in 1..Len(jobs) : jobs[k] \in JobRow
  BY DEF TypeOK
<1>2. \A k \in 1..Len(jobs) :
        jobs'[k] = IF jobs[k].archive = a
                   THEN [jobs[k] EXCEPT !.status = "deleted", !.overdue = FALSE]
                   ELSE jobs[k]
  BY <1>1 DEF HardDelete
<1>3. ASSUME NEW k \in 1..Len(jobs)
      PROVE  LET new == [jobs[k] EXCEPT !.status = "deleted", !.overdue = FALSE] IN
             /\ new \in JobRow /\ new.archive = jobs[k].archive
             /\ new.status = "deleted" /\ new.overdue = FALSE
  BY <1>1 DEF JobRow, JobStatus
<1>4. jobs' \in [1..Len(jobs) -> JobRow]
  BY <1>1, <1>3 DEF HardDelete
<1> QED
  BY <1>2, <1>3, <1>4, RewriteIsSeq DEF TypeOK

LEMMA LockAgesEffect ==
  ASSUME TypeOK, NEW i \in DOMAIN jobs, LockAges(i)
  PROVE  /\ jobs' \in Seq(JobRow) /\ Len(jobs') = Len(jobs)
         /\ \A k \in 1..Len(jobs) :
              /\ jobs'[k].archive = jobs[k].archive /\ jobs'[k].tier = jobs[k].tier
              /\ jobs'[k].status = jobs[k].status
              /\ k # i => jobs'[k] = jobs[k]
<1>1. /\ i \in 1..Len(jobs) /\ jobs[i] \in JobRow
      /\ jobs \in [1..Len(jobs) -> JobRow]
  BY DEF TypeOK
<1>2. /\ [jobs[i] EXCEPT !.overdue = TRUE] \in JobRow
      /\ [jobs[i] EXCEPT !.overdue = TRUE].archive = jobs[i].archive
      /\ [jobs[i] EXCEPT !.overdue = TRUE].tier = jobs[i].tier
      /\ [jobs[i] EXCEPT !.overdue = TRUE].status = jobs[i].status
  BY <1>1 DEF JobRow
<1>3. jobs' = [jobs EXCEPT ![i] = [jobs[i] EXCEPT !.overdue = TRUE]]
  BY DEF LockAges
<1>4. jobs' \in [1..Len(jobs) -> JobRow]
  BY <1>1, <1>2, <1>3
<1> QED
  BY <1>1, <1>2, <1>3, <1>4, RewriteIsSeq

\* The empty tables of a new installation have their types.
LEMMA TypeInit == Init => TypeOK
<1> SUFFICES ASSUME Init PROVE TypeOK
  OBVIOUS
<1>1. jobs \in Seq(JobRow)
  BY DEF Init
<1> QED
  BY <1>1 DEF Init, TypeOK, ArchiveStatus

\* Every step keeps the types.
LEMMA TypeStep ==
  ASSUME TypeOK, [Next]_vars
  PROVE  TypeOK'
<1>lanes. LaneOK /\ (Len(jobs') = Len(jobs) /\ lane' = lane => LaneOK')
  BY DEF TypeOK, LaneOK, Steps
<1>1. ASSUME NEW a \in Archives, SubmitArchive(a) PROVE TypeOK'
  BY <1>1 DEF SubmitArchive, TypeOK, ArchiveStatus
<1>2. ASSUME NEW a \in Archives, SubmitJob(a) PROVE TypeOK'
  <2>1. PICK p \in Priorities : Enqueue(a, 1, p)
    BY <1>2 DEF SubmitJob
  <2>2. p \in Nat /\ 1 \in Tiers
    BY LadderAssumption DEF Tiers
  <2>3. jobs' \in Seq(JobRow) /\ Len(jobs') \in Nat /\ Len(jobs) <= Len(jobs')
    BY <2>1, <2>2, EnqueueEffect DEF TypeOK
  <2>4. [at : Steps, job : 1..Len(jobs)] \subseteq [at : Steps, job : 1..Len(jobs')]
    BY <2>3 DEF TypeOK
  <2>5. LaneOK'
    BY <1>2, <1>lanes, <2>4 DEF SubmitJob, LaneOK
  <2> QED
    BY <1>2, <2>3, <2>5 DEF SubmitJob, TypeOK, LaneOK, Steps
<1>3. ASSUME NEW a \in Archives, SubmitDies(a) \/ SoftDelete(a) \/ Restore(a)
      PROVE  TypeOK'
  BY <1>3 DEF SubmitDies, SoftDelete, Restore, TypeOK
<1>4. ASSUME NEW a \in Archives, HardDelete(a) PROVE TypeOK'
  BY <1>4, <1>lanes, HardDeleteEffect DEF HardDelete, TypeOK, LaneOK, Steps
<1>5. ASSUME NEW l \in Lanes, Claim(l) PROVE TypeOK'
  <2>1. PICK i \in Queued :
          SetJob(i, "running") /\ lane' = [lane EXCEPT ![l] = [at |-> "fetch", job |-> i]]
    BY <1>5 DEF Claim
  <2>2. i \in 1..Len(jobs)
    BY DEF Queued, TypeOK
  <2>3. jobs' \in Seq(JobRow) /\ Len(jobs') = Len(jobs)
    BY <2>1, <2>2, SetJobEffect DEF TypeOK, JobStatus
  <2>4. [at |-> "fetch", job |-> i] \in [at : Steps, job : 1..Len(jobs)]
    BY <2>2 DEF Steps, TrySteps
  <2>5. LaneOK'
    BY <2>1, <2>3, <2>4, <1>lanes DEF LaneOK
  <2> QED
    BY <1>5, <2>3, <2>5 DEF Claim, TypeOK, LaneOK, Steps
<1>6. ASSUME NEW l \in Lanes, LaneStep(l) \/ StatementError(l) \/ Disconnect(l)
      PROVE  TypeOK'
  BY <1>6, LaneStepShape, LaneType
<1>7. ASSUME NEW w \in Workers, Start(w) PROVE TypeOK'
  BY <1>7, <1>lanes, StartEffect DEF Start, TypeOK, LaneOK, Steps
<1>8. ASSUME NEW w \in Workers, Shutdown(w) \/ Drained(w) PROVE TypeOK'
  BY <1>8 DEF Shutdown, Drained, TypeOK
<1>9. ASSUME NEW w \in Workers, Crash(w) PROVE TypeOK'
  BY <1>9, ClearedType DEF Crash, TypeOK, LaneOK, Steps
<1>10. ASSUME NEW i \in DOMAIN jobs, LockAges(i) PROVE TypeOK'
  BY <1>10, <1>lanes, LockAgesEffect DEF LockAges, TypeOK, LaneOK, Steps
<1>11. CASE UNCHANGED vars
  BY <1>11 DEF vars, TypeOK
<1> QED
  BY <1>1, <1>2, <1>3, <1>4, <1>5, <1>6, <1>7, <1>8, <1>9, <1>10, <1>11 DEF Next

\* Type correctness, for every number of archives, workers and places.
THEOREM TypeCorrect == Spec => []TypeOK
  BY TypeInit, TypeStep, PTL DEF Spec

-----------------------------------------------------------------------------
(* One capture per job and one live job per archive                        *)
(*                                                                         *)
(* Neither NoDoubleClaim nor OnlyNewestActive is inductive alone.  A claim *)
(* is exclusive because a queued job is held by nobody; a reclaim keeps    *)
(* that true because an overdue lock is held by nobody, or by the one      *)
(* worker there is, which reclaims before it captures; and an enqueue      *)
(* makes its job the only active one because the handler that enqueues has *)
(* settled its own row first.                                              *)

\* A lock that is overdue tells that its capture is dead when a worker starts:
\* no live capture outlasts its lock, or there is only one worker, and it was
\* down.  With two workers and a slow capture a job is captured twice.
LocksTrusted == "slow" \notin Events \/ \A v, w \in Workers : v = w

QueuedFree  == \A i \in DOMAIN jobs : jobs[i].status = "queued" => ~Held(i)
OverdueFree ==
  \A i \in DOMAIN jobs :
    jobs[i].overdue => jobs[i].status = "running" /\ (Held(i) => "slow" \in Events)
DownIsIdle  == \A l \in Lanes : worker[l[1]] = "down" => ~Busy(l)
HandlersSettled ==
  \A l \in Lanes : lane[l].at \in SettledSteps => JobOf(l).status # "running"
RowsHaveArchives == \A i \in DOMAIN jobs : archive[jobs[i].archive] # "absent"

Safe ==
  /\ TypeOK
  /\ QueuedFree
  /\ OverdueFree
  /\ DownIsIdle
  /\ HandlersSettled
  /\ RowsHaveArchives
  /\ NoDoubleClaim
  /\ OnlyNewestActive

AbsentOnlyFromAbsent ==
  \A a \in Archives : archive'[a] = "absent" => archive[a] = "absent"

\* A row a step leaves alone, settles or deletes, reclaims, or lets age.
RowStep(k) ==
  /\ jobs'[k].archive = jobs[k].archive
  /\ \/ jobs'[k] = jobs[k]
     \/ jobs'[k].status \notin {"queued", "running"} /\ jobs'[k].overdue = FALSE
     \/ /\ jobs[k].status = "running" /\ ~Held(k)
        /\ jobs'[k].status = "queued" /\ jobs'[k].overdue = FALSE
     \/ /\ jobs[k].status = "running" /\ (Held(k) => "slow" \in Events)
        /\ jobs'[k].status = "running"

\* A lane a step leaves alone, ends, or moves on with the same job.
LaneMove(m) ==
  \/ lane'[m] = lane[m]
  \/ lane'[m].at = "idle"
  \/ /\ Busy(m) /\ lane'[m].job = lane[m].job
     /\ lane'[m].at \in SettledSteps => jobs'[lane[m].job].status # "running"

\* No such step makes a job active.
LEMMA ActiveShrinks ==
  ASSUME Safe, \A k \in 1..Len(jobs) : RowStep(k), \A m \in Lanes : LaneMove(m)
  PROVE  /\ \A m \in Lanes : Busy(m)' => Busy(m) /\ lane'[m].job = lane[m].job
         /\ \A k : Held(k)' => Held(k)
         /\ \A k \in 1..Len(jobs) : Live(k)' => Live(k)
<1>1. \A m \in Lanes : Busy(m)' => Busy(m) /\ lane'[m].job = lane[m].job
  BY DEF LaneMove, Busy
<1>2. \A k : Held(k)' => Held(k)
  BY <1>1 DEF Held
<1>3. \A k \in 1..Len(jobs) : Live(k)' => Live(k)
  BY DEF RowStep, Live, Safe, OverdueFree, TypeOK
<1> QED
  BY <1>1, <1>2, <1>3

\* Steps that neither add a row nor hand one to a lane keep the invariant.
LEMMA RewriteSafe ==
  ASSUME Safe, TypeOK', DownIsIdle', Len(jobs') = Len(jobs),
         submitting' \subseteq submitting, AbsentOnlyFromAbsent,
         \A k \in 1..Len(jobs) : RowStep(k),
         \A m \in Lanes : LaneMove(m)
  PROVE  Safe'
<1>dom. DOMAIN jobs = 1..Len(jobs) /\ DOMAIN jobs' = 1..Len(jobs)
  BY DEF Safe, TypeOK
<1>job. \A m \in Lanes : Busy(m) => lane[m].job \in 1..Len(jobs)
  BY BusyLane DEF Safe
<1>busy. \A m \in Lanes : Busy(m)' => Busy(m) /\ lane'[m].job = lane[m].job
  BY ActiveShrinks
<1>held. \A k : Held(k)' => Held(k)
  BY ActiveShrinks
<1>live. \A k \in 1..Len(jobs) : Live(k)' => Live(k)
  BY ActiveShrinks
<1>1. QueuedFree'
  <2> SUFFICES ASSUME NEW k \in 1..Len(jobs), jobs'[k].status = "queued", Held(k)'
               PROVE  FALSE
    BY <1>dom DEF QueuedFree
  <2>1. Held(k)
    BY <1>held
  <2> QED
    BY <2>1, <1>dom DEF RowStep, Safe, QueuedFree, OverdueFree
<1>2. OverdueFree'
  <2> SUFFICES ASSUME NEW k \in 1..Len(jobs), jobs'[k].overdue
               PROVE  jobs'[k].status = "running" /\ (Held(k) => "slow" \in Events)
    BY <1>dom, <1>held DEF OverdueFree
  <2> QED
    BY <1>dom DEF RowStep, Safe, OverdueFree
<1>3. HandlersSettled'
  <2> SUFFICES ASSUME NEW m \in Lanes, lane'[m].at \in SettledSteps
               PROVE  jobs'[lane'[m].job].status # "running"
    BY DEF HandlersSettled, JobOf
  <2>1. Busy(m)' /\ Busy(m) /\ lane'[m].job = lane[m].job
    BY <1>busy DEF Busy, SettledSteps
  <2>2. lane[m].job \in 1..Len(jobs)
    BY <2>1, <1>job
  <2>3. CASE lane'[m] = lane[m]
    <3>1. jobs[lane[m].job].status # "running"
      BY <2>3 DEF Safe, HandlersSettled, JobOf
    <3> QED
      BY <3>1, <2>1, <2>2, <1>dom DEF RowStep
  <2> QED
    BY <2>1, <2>3 DEF LaneMove, SettledSteps
<1>4. RowsHaveArchives'
  <2> SUFFICES ASSUME NEW k \in 1..Len(jobs), archive'[jobs'[k].archive] = "absent"
               PROVE  FALSE
    BY <1>dom DEF RowsHaveArchives
  <2>1. jobs'[k].archive = jobs[k].archive
    BY DEF RowStep
  <2>2. jobs[k] \in JobRow
    BY DEF Safe, TypeOK
  <2>3. jobs[k].archive \in Archives
    BY <2>2 DEF JobRow
  <2> QED
    BY <2>1, <2>3, <1>dom DEF AbsentOnlyFromAbsent, Safe, RowsHaveArchives
<1>5. NoDoubleClaim'
  <2> SUFFICES ASSUME NEW m \in Lanes, NEW n \in Lanes,
                      Busy(m)', Busy(n)', lane'[m].job = lane'[n].job
               PROVE  m = n
    BY DEF NoDoubleClaim
  <2> QED
    BY <1>busy DEF Safe, NoDoubleClaim
<1>6. OnlyNewestActive'
  <2> SUFFICES ASSUME NEW i \in 1..Len(jobs), Live(i)' \/ Held(i)'
               PROVE  /\ jobs'[i].archive \notin submitting'
                      /\ \A k \in 1..Len(jobs) : k > i => jobs'[k].archive # jobs'[i].archive
    BY <1>dom DEF OnlyNewestActive
  <2>1. Live(i) \/ Held(i)
    BY <1>held, <1>live
  <2>2. \A k \in 1..Len(jobs) : jobs'[k].archive = jobs[k].archive
    BY DEF RowStep
  <2> QED
    BY <2>1, <2>2, <1>dom DEF Safe, OnlyNewestActive
<1> QED
  BY <1>1, <1>2, <1>3, <1>4, <1>5, <1>6 DEF Safe

\* A new job keeps the invariant when no older job of its archive stays active.
LEMMA AppendSafe ==
  ASSUME Safe, TypeOK', DownIsIdle', NEW a \in Archives, NEW t \in Tiers, NEW p \in Nat,
         Enqueue(a, t, p),
         submitting' = submitting \ {a}, AbsentOnlyFromAbsent,
         \A m \in Lanes : lane'[m] = lane[m] \/ lane'[m].at = "idle",
         \A k \in 1..Len(jobs) : jobs[k].archive = a => ~Live(k) /\ ~Held(k)'
  PROVE  Safe'
<1>dom. DOMAIN jobs = 1..Len(jobs) /\ DOMAIN jobs' = 1..Len(jobs') /\ Len(jobs) \in Nat
  BY DEF Safe, TypeOK
<1>1. CASE jobs' = jobs
  <2>1. \A k \in 1..Len(jobs) : RowStep(k)
    BY <1>1 DEF RowStep
  <2>2. \A m \in Lanes : LaneMove(m)
    BY DEF LaneMove
  <2>3. submitting' \subseteq submitting /\ Len(jobs') = Len(jobs)
    BY <1>1
  <2> QED
    BY <2>1, <2>2, <2>3, RewriteSafe
<1>2. CASE /\ HasRow(a)
           /\ Len(jobs') = Len(jobs) + 1
           /\ \A k \in 1..Len(jobs) : jobs'[k] = jobs[k]
           /\ jobs'[Len(jobs) + 1] = [archive |-> a, tier |-> t, priority |-> p,
                                      status |-> "queued", overdue |-> FALSE]
  <2> DEFINE n == Len(jobs) + 1
  <2>rows. \A k \in 1..Len(jobs') : k \in 1..Len(jobs) \/ k = n
    BY <1>2, <1>dom
  <2>new. /\ jobs'[n].archive = a /\ jobs'[n].status = "queued"
          /\ jobs'[n].overdue = FALSE /\ n \notin 1..Len(jobs)
    BY <1>2, <1>dom
  <2>busy. \A m \in Lanes : Busy(m)' =>
             Busy(m) /\ lane'[m] = lane[m] /\ lane[m].job \in 1..Len(jobs)
    BY BusyLane DEF Busy, Safe
  <2>held. \A k : Held(k)' => Held(k) /\ k \in 1..Len(jobs)
    BY <2>busy DEF Held
  <2>live. \A k \in 1..Len(jobs) : Live(k)' => Live(k)
    BY <1>2 DEF Live
  <2> HIDE DEF n
  <2>1. QueuedFree'
    <3> SUFFICES ASSUME NEW k \in 1..Len(jobs'), jobs'[k].status = "queued", Held(k)'
                 PROVE  FALSE
      BY <1>dom DEF QueuedFree
    <3>1. Held(k) /\ k \in 1..Len(jobs)
      BY <2>held
    <3> QED
      BY <3>1, <1>dom, <1>2 DEF Safe, QueuedFree
  <2>2. OverdueFree'
    <3> SUFFICES ASSUME NEW k \in 1..Len(jobs'), jobs'[k].overdue
                 PROVE  jobs'[k].status = "running" /\ (Held(k)' => "slow" \in Events)
      BY <1>dom DEF OverdueFree
    <3>1. k \in 1..Len(jobs)
      BY <2>rows, <2>new
    <3>2. jobs[k].status = "running" /\ (Held(k) => "slow" \in Events)
      BY <3>1, <1>dom, <1>2 DEF Safe, OverdueFree
    <3> QED
      BY <3>1, <3>2, <2>held, <1>2
  <2>3. HandlersSettled'
    <3> SUFFICES ASSUME NEW m \in Lanes, lane'[m].at \in SettledSteps
                 PROVE  jobs'[lane'[m].job].status # "running"
      BY DEF HandlersSettled, JobOf
    <3>1. Busy(m)'
      BY DEF Busy, SettledSteps
    <3>2. lane'[m] = lane[m] /\ lane[m].job \in 1..Len(jobs)
      BY <3>1, <2>busy
    <3> QED
      BY <3>2, <1>2 DEF Safe, HandlersSettled, JobOf
  <2>4. RowsHaveArchives'
    <3> SUFFICES ASSUME NEW k \in 1..Len(jobs'), archive'[jobs'[k].archive] = "absent"
                 PROVE  FALSE
      BY <1>dom DEF RowsHaveArchives
    <3>1. CASE k = n
      <4>1. archive[a] # "absent"
        BY <1>2 DEF HasRow, ArchiveStatus
      <4> QED
        BY <3>1, <4>1, <2>new DEF AbsentOnlyFromAbsent
    <3>2. CASE k \in 1..Len(jobs)
      <4>1. jobs'[k] = jobs[k] /\ jobs[k] \in JobRow
        BY <3>2, <1>2 DEF Safe, TypeOK
      <4>2. jobs[k].archive \in Archives
        BY <4>1 DEF JobRow
      <4> QED
        BY <3>2, <4>1, <4>2, <1>dom DEF AbsentOnlyFromAbsent, Safe, RowsHaveArchives
    <3> QED
      BY <3>1, <3>2, <2>rows
  <2>5. NoDoubleClaim'
    <3> SUFFICES ASSUME NEW l \in Lanes, NEW m \in Lanes,
                        Busy(l)', Busy(m)', lane'[l].job = lane'[m].job
                 PROVE  l = m
      BY DEF NoDoubleClaim
    <3> QED
      BY <2>busy DEF Safe, NoDoubleClaim
  <2>6. OnlyNewestActive'
    <3> SUFFICES ASSUME NEW i \in 1..Len(jobs'), Live(i)' \/ Held(i)'
                 PROVE  /\ jobs'[i].archive \notin submitting'
                        /\ \A k \in 1..Len(jobs') : k > i => jobs'[k].archive # jobs'[i].archive
      BY <1>dom DEF OnlyNewestActive
    <3>1. CASE i = n
      <4>1. \A k \in 1..Len(jobs') : ~(k > i)
        BY <3>1, <1>2, <1>dom DEF n
      <4> QED
        BY <3>1, <4>1, <2>new
    <3>2. CASE i \in 1..Len(jobs)
      <4>1. Live(i) \/ Held(i)
        BY <3>2, <2>held, <2>live
      <4>2. /\ jobs[i].archive \notin submitting
            /\ \A k \in 1..Len(jobs) : k > i => jobs[k].archive # jobs[i].archive
        BY <3>2, <4>1, <1>dom DEF Safe, OnlyNewestActive
      <4>3. jobs'[i] = jobs[i]
        BY <3>2, <1>2
      <4>4. jobs[i].archive # a
        BY <3>2, <2>live DEF Held
      <4> QED
        BY <4>2, <4>3, <4>4, <2>rows, <2>new, <1>2
    <3> QED
      BY <3>1, <3>2, <2>rows
  <2> QED
    BY <2>1, <2>2, <2>3, <2>4, <2>5, <2>6 DEF Safe
<1> QED
  BY <1>1, <1>2, EnqueueEffect DEF Safe, TypeOK

\* What it leaves of the jobs table: the other rows, or one row more.
LEMMA LaneRows ==
  ASSUME TypeOK, NEW l \in Lanes, LaneEffect(l), NEW k \in 1..Len(jobs')
  PROVE  \/ /\ k \in 1..Len(jobs)
            /\ jobs'[k].archive = jobs[k].archive
            /\ k # lane[l].job => jobs'[k] = jobs[k]
         \/ /\ k = Len(jobs) + 1
            /\ jobs'[k].archive = JobOf(l).archive
<1>type. /\ jobs \in Seq(JobRow) /\ Len(jobs) \in Nat
         /\ lane[l].job \in 1..Len(jobs)
         /\ JobOf(l).archive \in Archives
  BY BusyLane DEF TypeOK, LaneEffect, JobRow
<1>1. CASE UNCHANGED jobs
  BY <1>1
<1>2. CASE SettlesJob(l)
  <2>1. PICK st \in {"complete", "failed", "retry"} : SetJob(lane[l].job, st)
    BY <1>2 DEF SettlesJob
  <2>2. st \in JobStatus
    BY DEF JobStatus
  <2>3. /\ Len(jobs') = Len(jobs)
        /\ \A n \in 1..Len(jobs) : /\ jobs'[n].archive = jobs[n].archive
                                   /\ n # lane[l].job => jobs'[n] = jobs[n]
    BY <2>1, <2>2, <1>type, SetJobEffect
  <2> QED
    BY <2>3
<1>3. CASE EnqueuesNext(l)
  <2>1. PICK t \in Tiers, p \in Nat : Enqueue(JobOf(l).archive, t, p)
    BY <1>3 DEF EnqueuesNext
  <2>2. /\ \A n \in 1..Len(jobs) : jobs'[n] = jobs[n]
        /\ \/ jobs' = jobs
           \/ /\ Len(jobs') = Len(jobs) + 1
              /\ jobs'[Len(jobs) + 1] =
                   [archive |-> JobOf(l).archive, tier |-> t, priority |-> p,
                    status |-> "queued", overdue |-> FALSE]
    BY <2>1, <1>type, EnqueueEffect
  <2>3. CASE jobs' = jobs
    BY <2>3
  <2>4. CASE /\ Len(jobs') = Len(jobs) + 1
             /\ jobs'[Len(jobs) + 1].archive = JobOf(l).archive
    <3>1. k \in 1..Len(jobs) \/ k = Len(jobs) + 1
      BY <2>4, <1>type
    <3> QED
      BY <3>1, <2>2, <2>4
  <2> QED
    BY <2>2, <2>3, <2>4
<1> QED
  BY <1>1, <1>2, <1>3 DEF LaneEffect

\* What it leaves of the lanes: the others, and its own job while it is busy.
LEMMA LaneKeepsJob ==
  ASSUME TypeOK, NEW l \in Lanes, LaneEffect(l)
  PROVE  /\ \A m \in Lanes : m # l => lane'[m] = lane[m]
         /\ lane'[l].at = "idle" \/ lane'[l].job = lane[l].job
<1>1. \A m \in Lanes : m # l => lane'[m] = lane[m]
  BY DEF LaneEffect, MovesOn, GoTo, Finish, TypeOK
<1>2. CASE Finish(l)
  BY <1>1, <1>2, LaneAfter
<1>3. ASSUME NEW step \in Steps, GoTo(l, step) PROVE lane'[l].job = lane[l].job
  <2>1. lane[l] \in [at : Steps, job : 1..Len(jobs)]
    BY BusyLane DEF LaneEffect
  <2>2. lane'[l] = [lane[l] EXCEPT !.at = step]
    BY <1>3 DEF GoTo, TypeOK
  <2> QED
    BY <2>1, <2>2
<1> QED
  BY <1>1, <1>2, <1>3 DEF LaneEffect, MovesOn

\* A lane that holds a job settled it before it enqueues the next one.
LEMMA LaneSafe ==
  ASSUME Safe, TypeOK', DownIsIdle', NEW l \in Lanes, LaneEffect(l)
  PROVE  Safe'
<1> DEFINE j == lane[l].job
           a == jobs[lane[l].job].archive
<1>dom. DOMAIN jobs = 1..Len(jobs)
  BY DEF Safe, TypeOK
<1>job. Busy(l) /\ j \in 1..Len(jobs) /\ a \in Archives
  BY BusyLane DEF LaneEffect, Safe, JobOf, JobRow
<1>absent. AbsentOnlyFromAbsent
  <2>1. \A st \in ArchiveStatus : SetArchive(JobOf(l).archive, st) => AbsentOnlyFromAbsent
    BY DEF Safe, TypeOK, SetArchive, AbsentOnlyFromAbsent, HasRow, ArchiveStatus
  <2>2. UNCHANGED archive => AbsentOnlyFromAbsent
    BY DEF AbsentOnlyFromAbsent
  <2> QED
    BY <2>1, <2>2 DEF LaneEffect, FailsArchive, ArchiveStatus
<1>others. \A m \in Lanes : m # l => lane'[m] = lane[m]
  BY LaneKeepsJob DEF Safe
<1>own. lane'[l].at = "idle" \/ lane'[l].job = j
  BY LaneKeepsJob DEF Safe
<1>1. CASE UNCHANGED jobs \/ SettlesJob(l)
  <2> DEFINE settled == /\ Len(jobs') = Len(jobs)
                        /\ \A k \in 1..Len(jobs) : RowStep(k)
                        /\ jobs'[j].status # "running"
  <2>1. ASSUME SettlesJob(l) PROVE settled
    <3>1. PICK st \in {"complete", "failed", "retry"} : SetJob(lane[l].job, st)
      BY <2>1 DEF SettlesJob
    <3>2. /\ Len(jobs') = Len(jobs)
          /\ \A k \in 1..Len(jobs) :
               jobs'[k].archive = jobs[k].archive /\ (k # j => jobs'[k] = jobs[k])
          /\ jobs[j].status # "deleted" => jobs'[j].status = st /\ jobs'[j].overdue = FALSE
          /\ jobs[j].status = "deleted" => jobs' = jobs
      <4>1. jobs \in Seq(JobRow) /\ st \in JobStatus /\ lane[l].job \in 1..Len(jobs)
        BY <1>job DEF Safe, TypeOK, JobStatus
      <4> QED
        BY <3>1, <4>1, SetJobEffect
    <3> QED
      BY <3>2, <1>job DEF RowStep
  <2>2. Len(jobs') = Len(jobs) /\ \A k \in 1..Len(jobs) : RowStep(k)
    BY <1>1, <2>1 DEF RowStep
  <2>3. lane'[l].at \in SettledSteps => jobs'[j].status # "running"
    <3>1. lane[l].at \in SettledSteps => jobs[j].status # "running"
      BY DEF Safe, HandlersSettled, JobOf
    <3> QED
      BY <3>1, <2>1 DEF LaneEffect
  <2>4. \A m \in Lanes : LaneMove(m)
    BY <1>others, <1>own, <1>job, <2>3 DEF LaneMove
  <2>5. submitting' \subseteq submitting
    BY DEF LaneEffect
  <2> QED
    BY <1>absent, <2>2, <2>4, <2>5, RewriteSafe
<1>2. CASE EnqueuesNext(l)
  <2>1. PICK t \in Tiers, p \in Nat : Enqueue(a, t, p)
    BY <1>2 DEF EnqueuesNext, JobOf
  <2>2. lane'[l].at = "idle"
    BY <1>2, LaneAfter DEF EnqueuesNext, Safe
  <2>3. jobs[j].status # "running"
    BY <1>2 DEF EnqueuesNext, SettledSteps, Safe, HandlersSettled, JobOf
  <2>4. Held(j)
    BY <1>job DEF Held
  <2>5. ~Live(j)
    BY <1>job, <1>dom, <2>3, <2>4 DEF Live, Safe, QueuedFree
  <2>6. /\ a \notin submitting
        /\ \A k \in 1..Len(jobs) : k > j => jobs[k].archive # a
    BY <1>job, <1>dom, <2>4 DEF Safe, OnlyNewestActive
  <2>7. ASSUME NEW k \in 1..Len(jobs), jobs[k].archive = a
        PROVE  ~Live(k) /\ ~Held(k)'
    <3>1. CASE k = j
      <4>1. ~Held(k)'
        <5> SUFFICES ASSUME NEW m \in Lanes, Busy(m)', lane'[m].job = k
                     PROVE  FALSE
          BY DEF Held
        <5>1. m # l
          BY <2>2 DEF Busy
        <5>2. lane'[m] = lane[m] /\ Busy(m)
          BY <5>1, <1>others DEF Busy
        <5> QED
          BY <5>1, <5>2, <3>1, <1>job DEF Safe, NoDoubleClaim
      <4> QED
        BY <3>1, <4>1, <2>5
    <3>2. CASE k # j
      <4>1. j > k
        BY <2>7, <2>6, <3>2, <1>job DEF Safe, TypeOK
      <4>2. ~Live(k) /\ ~Held(k)
        BY <2>7, <4>1, <1>job, <1>dom DEF Safe, OnlyNewestActive
      <4>3. Held(k)' => Held(k)
        BY <1>others, <2>2 DEF Held, Busy
      <4> QED
        BY <4>2, <4>3
    <3> QED
      BY <3>1, <3>2
  <2>8. submitting' = submitting \ {a}
    BY <2>6 DEF LaneEffect
  <2>9. \A m \in Lanes : lane'[m] = lane[m] \/ lane'[m].at = "idle"
    BY <1>others, <2>2
  <2> HIDE DEF a
  <2> QED
    BY <1>job, <1>absent, <2>1, <2>7, <2>8, <2>9, AppendSafe
<1> QED
  BY <1>1, <1>2 DEF LaneEffect

\* A claim hands a job nobody holds to a lane that is free.
LEMMA ClaimSafe ==
  ASSUME Safe, TypeOK', DownIsIdle', NEW l \in Lanes, Claim(l)
  PROVE  Safe'
<1>1. PICK i \in Queued :
        SetJob(i, "running") /\ lane' = [lane EXCEPT ![l] = [at |-> "fetch", job |-> i]]
  BY DEF Claim
<1>dom. DOMAIN jobs = 1..Len(jobs) /\ DOMAIN jobs' = 1..Len(jobs')
  BY DEF Safe, TypeOK
<1>2. /\ i \in 1..Len(jobs) /\ jobs[i].status = "queued" /\ ~Held(i) /\ Live(i)
      /\ jobs[i].overdue = FALSE
  <2>1. i \in 1..Len(jobs) /\ jobs[i].status = "queued"
    BY <1>dom DEF Queued
  <2>2. ~jobs[i].overdue /\ ~Held(i)
    BY <1>dom, <2>1 DEF Safe, QueuedFree, OverdueFree
  <2>3. jobs[i] \in JobRow
    BY <2>1 DEF Safe, TypeOK
  <2>4. jobs[i].overdue \in BOOLEAN
    BY <2>3 DEF JobRow
  <2> QED
    BY <2>1, <2>2, <2>4 DEF Live
<1>3. /\ Len(jobs') = Len(jobs)
      /\ \A k \in 1..Len(jobs) : /\ jobs'[k].archive = jobs[k].archive
                                 /\ k # i => jobs'[k] = jobs[k]
      /\ jobs'[i].status = "running" /\ jobs'[i].overdue = FALSE
  BY <1>1, <1>2, SetJobEffect DEF Safe, TypeOK, JobStatus
<1>4. /\ lane'[l].at = "fetch" /\ lane'[l].job = i
      /\ \A m \in Lanes : m # l => lane'[m] = lane[m]
  BY <1>1 DEF Safe, TypeOK
<1>5. UNCHANGED <<archive, submitting>>
  BY DEF Claim
<1>held. \A k : Held(k)' => Held(k) \/ k = i
  BY <1>4 DEF Held, Busy
<1>live. \A k \in 1..Len(jobs) : Live(k)' => Live(k)
  BY <1>2, <1>3 DEF Live
<1>6. QueuedFree'
  <2> SUFFICES ASSUME NEW k \in 1..Len(jobs), jobs'[k].status = "queued"
               PROVE  ~Held(k)'
    BY <1>dom, <1>3 DEF QueuedFree
  <2> QED
    BY <1>dom, <1>3, <1>held DEF Safe, QueuedFree
<1>7. OverdueFree'
  <2> SUFFICES ASSUME NEW k \in 1..Len(jobs), jobs'[k].overdue
               PROVE  jobs'[k].status = "running" /\ (Held(k)' => "slow" \in Events)
    BY <1>dom, <1>3 DEF OverdueFree
  <2>1. k # i
    BY <1>3
  <2> QED
    BY <2>1, <1>dom, <1>3, <1>held DEF Safe, OverdueFree
<1>8. HandlersSettled'
  <2> SUFFICES ASSUME NEW m \in Lanes, lane'[m].at \in SettledSteps
               PROVE  jobs'[lane'[m].job].status # "running"
    BY DEF HandlersSettled, JobOf
  <2>1. m # l
    BY <1>4 DEF SettledSteps
  <2>2. Busy(m) /\ lane'[m] = lane[m] /\ lane[m].job # i
    BY <2>1, <1>2, <1>4 DEF Busy, SettledSteps, Held
  <2>3. lane[m].job \in 1..Len(jobs)
    BY <2>2, BusyLane DEF Safe
  <2> QED
    BY <2>2, <2>3, <1>3 DEF Safe, HandlersSettled, JobOf
<1>9. RowsHaveArchives'
  BY <1>dom, <1>3, <1>5 DEF Safe, RowsHaveArchives
<1>10. NoDoubleClaim'
  <2> SUFFICES ASSUME NEW m \in Lanes, NEW n \in Lanes,
                      Busy(m)', Busy(n)', lane'[m].job = lane'[n].job
               PROVE  m = n
    BY DEF NoDoubleClaim
  <2>1. \A q \in Lanes : q # l /\ Busy(q)' => Busy(q) /\ lane'[q] = lane[q] /\ lane[q].job # i
    BY <1>2, <1>4 DEF Busy, Held
  <2> QED
    BY <2>1, <1>4 DEF Safe, NoDoubleClaim
<1>11. OnlyNewestActive'
  <2> SUFFICES ASSUME NEW k \in 1..Len(jobs), Live(k)' \/ Held(k)'
               PROVE  /\ jobs'[k].archive \notin submitting
                      /\ \A n \in 1..Len(jobs) : n > k => jobs'[n].archive # jobs'[k].archive
    BY <1>dom, <1>3, <1>5 DEF OnlyNewestActive
  <2>1. Live(k) \/ Held(k)
    BY <1>held, <1>live, <1>2
  <2> QED
    BY <2>1, <1>dom, <1>3 DEF Safe, OnlyNewestActive
<1> QED
  BY <1>6, <1>7, <1>8, <1>9, <1>10, <1>11 DEF Safe

\* The empty tables are safe.
LEMMA SafeInit == Init => Safe
<1> SUFFICES ASSUME Init PROVE Safe
  OBVIOUS
<1>1. TypeOK
  BY TypeInit
<1>2. jobs = << >> /\ DOMAIN jobs = {} /\ \A l \in Lanes : lane[l].at = "idle"
  BY DEF Init, Idle
<1> QED
  BY <1>1, <1>2 DEF Safe, QueuedFree, OverdueFree, HandlersSettled, SettledSteps,
     DownIsIdle, RowsHaveArchives, NoDoubleClaim, OnlyNewestActive, Busy

\* A worker that is down runs nothing.
LEMMA DownStep ==
  ASSUME Safe, [Next]_vars
  PROVE  DownIsIdle'
<1>type. TypeOK /\ DownIsIdle /\ \A l \in Lanes : l[1] \in Workers /\ l[2] \in Places
  BY DEF Safe, Lanes
<1>1. ASSUME UNCHANGED worker, \A l \in Lanes : Busy(l)' => Busy(l)
      PROVE  DownIsIdle'
  BY <1>1, <1>type DEF DownIsIdle
<1>same. lane' = lane => \A l \in Lanes : Busy(l)' => Busy(l)
  BY DEF Busy
<1>2. ASSUME NEW l \in Lanes, LaneStep(l) \/ StatementError(l) \/ Disconnect(l)
      PROVE  DownIsIdle'
  <2>1. LaneEffect(l)
    BY <1>2, <1>type, LaneStepShape
  <2>2. \A m \in Lanes : m # l => lane'[m] = lane[m]
    BY <1>type, <2>1, LaneKeepsJob
  <2> QED
    BY <1>1, <2>1, <2>2 DEF LaneEffect, Busy
<1>3. ASSUME NEW l \in Lanes, Claim(l) PROVE DownIsIdle'
  <2>1. worker[l[1]] = "up" /\ UNCHANGED worker /\ \A m \in Lanes : m # l => lane'[m] = lane[m]
    BY <1>3, <1>type DEF Claim, TypeOK
  <2> QED
    BY <2>1, <1>type DEF DownIsIdle, Busy
<1>4. ASSUME NEW w \in Workers, Start(w) \/ Shutdown(w) PROVE DownIsIdle'
  <2>1. /\ lane' = lane
        /\ \A l \in Lanes : worker'[l[1]] = "down" => worker[l[1]] = "down"
    BY <1>4, <1>type DEF Start, Shutdown, TypeOK
  <2> QED
    BY <2>1, <1>type DEF DownIsIdle, Busy
<1>5. ASSUME NEW w \in Workers, Drained(w) PROVE DownIsIdle'
  <2>1. \A l \in Lanes : worker'[l[1]] = "down" => worker[l[1]] = "down" \/ l[1] = w
    BY <1>5, <1>type DEF Drained, TypeOK
  <2>2. \A l \in Lanes : l[1] = w => ~Busy(l)
    BY <1>5, <1>type DEF Drained, Lanes
  <2> QED
    BY <1>5, <2>1, <2>2, <1>type DEF Drained, DownIsIdle, Busy
<1>6. ASSUME NEW w \in Workers, Crash(w) PROVE DownIsIdle'
  <2>1. \A l \in Lanes : worker'[l[1]] = "down" => worker[l[1]] = "down" \/ l[1] = w
    BY <1>6, <1>type DEF Crash, TypeOK
  <2>2. \A l \in Lanes : lane'[l] = IF l[1] = w THEN Idle ELSE lane[l]
    BY <1>6 DEF Crash
  <2> QED
    BY <2>1, <2>2, <1>type DEF DownIsIdle, Busy, Idle
<1>7. CASE UNCHANGED vars
  BY <1>1, <1>7, <1>same DEF vars
<1>8. ASSUME NEW a \in Archives,
             \/ SubmitArchive(a) \/ SubmitJob(a) \/ SubmitDies(a)
             \/ SoftDelete(a) \/ Restore(a) \/ HardDelete(a)
      PROVE  DownIsIdle'
  BY <1>1, <1>8, <1>same
  DEF SubmitArchive, SubmitJob, SubmitDies, SoftDelete, Restore, HardDelete
<1>9. ASSUME NEW i \in DOMAIN jobs, LockAges(i) PROVE DownIsIdle'
  BY <1>1, <1>9, <1>same DEF LockAges
<1> QED
  BY <1>2, <1>3, <1>4, <1>5, <1>6, <1>7, <1>8, <1>9 DEF Next

\* A starting worker reclaims only jobs that nobody works on.
LEMMA StartRows ==
  ASSUME LocksTrusted, Safe, NEW w \in Workers, Start(w)
  PROVE  Len(jobs') = Len(jobs) /\ \A k \in 1..Len(jobs) : RowStep(k)
<1>1. TypeOK /\ DOMAIN jobs = 1..Len(jobs)
  BY DEF Safe, TypeOK
<1>2. ASSUME NEW k \in 1..Len(jobs), jobs[k].overdue PROVE ~Held(k)
  <2>1. CASE "slow" \notin Events
    BY <1>1, <1>2, <2>1 DEF Safe, OverdueFree
  <2>2. CASE \A u, v \in Workers : u = v
    <3>1. \A l \in Lanes : l[1] = w
      BY <2>2 DEF Lanes
    <3>2. worker[w] = "down"
      BY DEF Start
    <3> QED
      BY <3>1, <3>2 DEF Held, Safe, DownIsIdle
  <2> QED
    BY <2>1, <2>2 DEF LocksTrusted
<1> QED
  BY <1>1, <1>2, StartEffect DEF RowStep

\* Every step keeps the invariant.
LEMMA SafeStep ==
  ASSUME LocksTrusted, Safe, [Next]_vars
  PROVE  Safe'
<1>type. TypeOK /\ TypeOK' /\ DownIsIdle'
  BY TypeStep, DownStep DEF Safe
<1>dom. DOMAIN jobs = 1..Len(jobs) /\ Len(jobs) \in Nat
  BY <1>type DEF TypeOK
<1>same. /\ jobs' = jobs => \A k \in 1..Len(jobs) : RowStep(k)
         /\ lane' = lane => \A m \in Lanes : LaneMove(m)
         /\ archive' = archive => AbsentOnlyFromAbsent
  BY DEF RowStep, LaneMove, AbsentOnlyFromAbsent
<1>1. ASSUME NEW a \in Archives, SubmitArchive(a) PROVE Safe'
  <2>1. /\ \A k \in DOMAIN jobs : jobs[k].archive # a
        /\ UNCHANGED <<jobs, lane>> /\ submitting' = submitting \cup {a}
        /\ archive' = [archive EXCEPT ![a] = "pending"]
    BY <1>1 DEF SubmitArchive, Safe, RowsHaveArchives
  <2>2. RowsHaveArchives'
    BY <1>type, <2>1 DEF Safe, RowsHaveArchives, TypeOK
  <2>3. OnlyNewestActive'
    BY <2>1 DEF Safe, OnlyNewestActive, Live, Held, Busy
  <2> QED
    BY <1>type, <2>1, <2>2, <2>3
    DEF Safe, QueuedFree, OverdueFree, HandlersSettled, NoDoubleClaim, Held, Busy, JobOf
<1>2. ASSUME NEW a \in Archives, SubmitJob(a) PROVE Safe'
  <2>1. PICK p \in Priorities : Enqueue(a, 1, p)
    BY <1>2 DEF SubmitJob
  <2>2. p \in Nat /\ 1 \in Tiers
    BY LadderAssumption DEF Tiers
  <2>3. submitting' = submitting \ {a} /\ a \in submitting /\ UNCHANGED <<archive, lane>>
    BY <1>2 DEF SubmitJob
  <2>4. \A k \in 1..Len(jobs) : Held(k)' => Held(k)
    BY <2>3 DEF Held, Busy
  <2>5. \A k \in 1..Len(jobs) : jobs[k].archive = a => ~Live(k) /\ ~Held(k)'
    BY <1>dom, <2>3, <2>4 DEF Safe, OnlyNewestActive
  <2> QED
    BY <1>type, <1>same, <2>1, <2>2, <2>3, <2>5, AppendSafe
<1>3. ASSUME NEW a \in Archives, SubmitDies(a) \/ SoftDelete(a) \/ Restore(a)
      PROVE  Safe'
  BY <1>3, <1>type, <1>same, RewriteSafe DEF SubmitDies, SoftDelete, Restore
<1>4. ASSUME NEW a \in Archives, HardDelete(a) PROVE Safe'
  <2>1. Len(jobs') = Len(jobs) /\ \A k \in 1..Len(jobs) : RowStep(k)
    BY <1>4, <1>type, HardDeleteEffect DEF RowStep
  <2>2. AbsentOnlyFromAbsent
    BY <1>4, <1>type DEF HardDelete, AbsentOnlyFromAbsent, TypeOK
  <2> QED
    BY <1>4, <1>type, <1>same, <2>1, <2>2, RewriteSafe DEF HardDelete
<1>5. ASSUME NEW l \in Lanes, Claim(l) PROVE Safe'
  BY <1>5, <1>type, ClaimSafe
<1>6. ASSUME NEW l \in Lanes, LaneStep(l) \/ StatementError(l) \/ Disconnect(l)
      PROVE  Safe'
  BY <1>6, <1>type, LaneStepShape, LaneSafe
<1>7. ASSUME NEW w \in Workers, Start(w) PROVE Safe'
  <2>1. Len(jobs') = Len(jobs) /\ \A k \in 1..Len(jobs) : RowStep(k)
    BY <1>7, StartRows
  <2> QED
    BY <1>7, <1>type, <1>same, <2>1, RewriteSafe DEF Start
<1>8. ASSUME NEW w \in Workers, Shutdown(w) \/ Drained(w) PROVE Safe'
  BY <1>8, <1>type, <1>same, RewriteSafe DEF Shutdown, Drained
<1>9. ASSUME NEW w \in Workers, Crash(w) PROVE Safe'
  <2>1. \A m \in Lanes : LaneMove(m)
    BY <1>9 DEF Crash, LaneMove, Idle
  <2> QED
    BY <1>9, <1>type, <1>same, <2>1, RewriteSafe DEF Crash
<1>10. ASSUME NEW i \in DOMAIN jobs, LockAges(i) PROVE Safe'
  <2>1. Len(jobs') = Len(jobs) /\ \A k \in 1..Len(jobs) : RowStep(k)
    <3>1. jobs[i].status = "running" /\ (Held(i) => "slow" \in Events)
      BY <1>10 DEF LockAges
    <3> QED
      BY <3>1, <1>10, <1>type, LockAgesEffect DEF RowStep
  <2> QED
    BY <1>10, <1>type, <1>same, <2>1, RewriteSafe DEF LockAges
<1>11. CASE UNCHANGED vars
  BY <1>11, <1>type, <1>same, RewriteSafe DEF vars
<1> QED
  BY <1>1, <1>2, <1>3, <1>4, <1>5, <1>6, <1>7, <1>8, <1>9, <1>10, <1>11 DEF Next

\* The inductive invariant of claims, reclaims and handlers.
THEOREM SafeAlways ==
  ASSUME LocksTrusted PROVE Spec => []Safe
  BY SafeInit, SafeStep, PTL DEF Spec

\* No two captures ever work on one job, while no capture outlasts its lock or
\* there is a single worker (JobRepository.claim_next, reclaim_stale).
THEOREM ClaimsAreExclusive ==
  ASSUME LocksTrusted PROVE Spec => []NoDoubleClaim
<1>1. Safe => NoDoubleClaim
  BY DEF Safe
<1> QED
  BY <1>1, SafeAlways, PTL

\* Retries, escalations and reclaims leave an archive with one active job at most.
THEOREM NewestIsTheOnlyActive ==
  ASSUME LocksTrusted PROVE Spec => []OnlyNewestActive
<1>1. Safe => OnlyNewestActive
  BY DEF Safe
<1> QED
  BY <1>1, SafeAlways, PTL

-----------------------------------------------------------------------------
(* An archive shown as failed has nothing working on it                    *)
(*                                                                         *)
(* The statement that fails an archive is the last of its handler, the row *)
(* of the job is settled by then, and no older job is active.              *)

SubmittingPending == \A a \in submitting : archive[a] \in {"pending", "deleted"}

Quiet == Safe /\ FailedIsQuiet /\ SubmittingPending

\* Steps that only hide, settle, delete or reclaim keep failed archives quiet.
LEMMA RewriteQuiet ==
  ASSUME Quiet, Safe', Len(jobs') = Len(jobs), submitting' \subseteq submitting,
         \A a \in Archives : archive'[a] = archive[a] \/ archive'[a] = "deleted",
         \A k \in 1..Len(jobs) : RowStep(k),
         \A m \in Lanes : LaneMove(m)
  PROVE  Quiet'
<1>dom. /\ DOMAIN jobs = 1..Len(jobs) /\ DOMAIN jobs' = 1..Len(jobs)
        /\ submitting \subseteq Archives
  BY DEF Quiet, Safe, TypeOK
<1>1. FailedIsQuiet'
  <2> SUFFICES ASSUME NEW k \in 1..Len(jobs), archive'[jobs'[k].archive] = "failed"
               PROVE  ~Live(k)' /\ ~Held(k)'
    BY <1>dom DEF FailedIsQuiet
  <2>1. jobs'[k].archive = jobs[k].archive /\ jobs[k] \in JobRow
    BY DEF RowStep, Quiet, Safe, TypeOK
  <2>2. jobs[k].archive \in Archives
    BY <2>1 DEF JobRow
  <2>3. ~Live(k) /\ ~Held(k)
    BY <2>1, <2>2, <1>dom DEF Quiet, FailedIsQuiet
  <2> QED
    BY <2>3, ActiveShrinks DEF Quiet
<1>2. SubmittingPending'
  BY <1>dom DEF Quiet, SubmittingPending
<1> QED
  BY <1>1, <1>2 DEF Quiet

\* What a statement of a lane leaves of the other archives, and of its own.
LEMMA LaneArchive ==
  ASSUME TypeOK, NEW l \in Lanes, LaneEffect(l)
  PROVE  /\ \A b \in Archives : b # JobOf(l).archive => archive'[b] = archive[b]
         /\ \A b \in Archives :
              archive'[b] = "failed" /\ archive[b] # "failed" => FailsArchive(l)
  BY DEF LaneEffect, FailsArchive, SetArchive, TypeOK

\* The job in a busy lane is the newest of its archive, and its only active one.
LEMMA LaneOwnsArchive ==
  ASSUME Safe, NEW l \in Lanes, Busy(l)
  PROVE  /\ JobOf(l).archive \in Archives \ submitting
         /\ lane[l].job \in 1..Len(jobs) /\ Held(lane[l].job)
         /\ \A k \in 1..Len(jobs) :
              jobs[k].archive = JobOf(l).archive /\ (Live(k) \/ Held(k)) => k = lane[l].job
         /\ \A m \in Lanes : Busy(m) /\ JobOf(m).archive = JobOf(l).archive => m = l
<1>dom. DOMAIN jobs = 1..Len(jobs) /\ Len(jobs) \in Nat
  BY DEF Safe, TypeOK
<1>1. /\ lane[l].job \in 1..Len(jobs) /\ Held(lane[l].job)
      /\ JobOf(l).archive \in Archives
  BY BusyLane DEF Safe, Held, JobRow
<1>2. JobOf(l).archive \notin submitting
  BY <1>1, <1>dom DEF Safe, OnlyNewestActive, JobOf
<1>3. \A k \in 1..Len(jobs) :
        jobs[k].archive = JobOf(l).archive /\ (Live(k) \/ Held(k)) => k = lane[l].job
  <2> SUFFICES ASSUME NEW k \in 1..Len(jobs), jobs[k].archive = JobOf(l).archive,
                      Live(k) \/ Held(k), k # lane[l].job
               PROVE  FALSE
    OBVIOUS
  <2>1. CASE k > lane[l].job
    BY <2>1, <1>1, <1>dom DEF Safe, OnlyNewestActive, JobOf
  <2>2. CASE lane[l].job > k
    BY <2>2, <1>1, <1>dom DEF Safe, OnlyNewestActive, JobOf
  <2> QED
    BY <2>1, <2>2, <1>1
<1>4. ASSUME NEW m \in Lanes, Busy(m), JobOf(m).archive = JobOf(l).archive
      PROVE  m = l
  <2>1. lane[m].job \in 1..Len(jobs) /\ Held(lane[m].job)
    BY <1>4, BusyLane DEF Safe, Held
  <2>2. lane[m].job = lane[l].job
    BY <2>1, <1>3, <1>4 DEF JobOf
  <2> QED
    BY <2>2, <1>4 DEF Safe, NoDoubleClaim
<1> QED
  BY <1>1, <1>2, <1>3, <1>4

\* A statement of a lane keeps the failed archives quiet.
LEMMA LaneQuiet ==
  ASSUME Quiet, Safe', NEW l \in Lanes, LaneEffect(l)
  PROVE  Quiet'
<1> DEFINE j == lane[l].job
           a == JobOf(l).archive
<1>safe. Safe /\ TypeOK
  BY DEF Quiet, Safe
<1>dom. /\ DOMAIN jobs = 1..Len(jobs) /\ DOMAIN jobs' = 1..Len(jobs')
        /\ submitting \subseteq Archives /\ submitting' = submitting
        /\ Len(jobs) \in Nat
  BY DEF Quiet, Safe, TypeOK, LaneEffect
<1>own. /\ Busy(l) /\ a \in Archives \ submitting
        /\ j \in 1..Len(jobs) /\ Held(j)
        /\ \A k \in 1..Len(jobs) : jobs[k].archive = a /\ (Live(k) \/ Held(k)) => k = j
        /\ \A m \in Lanes : Busy(m) /\ JobOf(m).archive = a => m = l
  BY <1>safe, LaneOwnsArchive DEF LaneEffect
<1>shown. archive[a] # "failed"
  BY <1>own, <1>dom DEF Quiet, FailedIsQuiet, JobOf
<1>others. \A m \in Lanes : m # l => lane'[m] = lane[m]
  BY <1>safe, LaneKeepsJob
<1>1. SubmittingPending'
  BY <1>own, <1>dom, <1>safe, LaneArchive DEF Quiet, SubmittingPending
<1>2. FailedIsQuiet'
  <2> SUFFICES ASSUME NEW k \in 1..Len(jobs'), archive'[jobs'[k].archive] = "failed"
               PROVE  ~Live(k)' /\ ~Held(k)'
    BY <1>dom DEF FailedIsQuiet
  <2>type. jobs'[k].archive \in Archives
    <3>1. jobs'[k] \in JobRow
      BY DEF Safe, TypeOK
    <3> QED
      BY <3>1 DEF JobRow
  <2>1. CASE jobs'[k].archive # a
    <3>1. archive[jobs'[k].archive] = "failed"
      BY <2>1, <2>type, <1>safe, LaneArchive
    <3>2. k \in 1..Len(jobs) /\ k # j /\ jobs'[k] = jobs[k]
      <4>1. k \in 1..Len(jobs) /\ (k # j => jobs'[k] = jobs[k])
            /\ jobs'[k].archive = jobs[k].archive
        BY <2>1, <1>safe, LaneRows
      <4> QED
        BY <4>1, <2>1 DEF JobOf
    <3>3. ~Live(k) /\ ~Held(k)
      BY <3>1, <3>2, <1>dom DEF Quiet, FailedIsQuiet
    <3>4. ~Live(k)'
      BY <3>2, <3>3 DEF Live
    <3>5. ~Held(k)'
      <4> SUFFICES ASSUME NEW m \in Lanes, Busy(m)', lane'[m].job = k
                   PROVE  FALSE
        BY DEF Held
      <4>1. CASE m # l
        BY <4>1, <3>3, <1>others DEF Held, Busy
      <4>2. CASE m = l
        BY <4>2, <3>2, <1>safe, LaneKeepsJob DEF Busy
      <4> QED
        BY <4>1, <4>2
    <3> QED
      BY <3>4, <3>5
  <2>2. CASE jobs'[k].archive = a
    <3>1. FailsArchive(l)
      BY <2>2, <2>type, <1>shown, <1>safe, LaneArchive
    <3>2. jobs' = jobs /\ lane'[l].at = "idle" /\ k \in 1..Len(jobs)
      BY <3>1, <1>safe, LaneAfter DEF FailsArchive
    <3>3. ~Live(j)
      BY <3>1, <1>own, <1>dom
      DEF FailsArchive, Quiet, Safe, HandlersSettled, QueuedFree, Live, JobOf
    <3>4. ~Live(k)'
      <4>1. Live(k)' => Live(k)
        BY <3>2 DEF Live
      <4> QED
        BY <2>2, <3>2, <3>3, <4>1, <1>own
    <3>5. ~Held(k)'
      <4> SUFFICES ASSUME NEW m \in Lanes, Busy(m)', lane'[m].job = k
                   PROVE  FALSE
        BY DEF Held
      <4>1. m # l /\ lane'[m] = lane[m] /\ Busy(m)
        BY <3>2, <1>others DEF Busy
      <4>2. JobOf(m).archive = a
        BY <4>1, <2>2, <3>2 DEF JobOf
      <4> QED
        BY <4>1, <4>2, <1>own
    <3> QED
      BY <3>4, <3>5
  <2> QED
    BY <2>1, <2>2
<1> QED
  BY <1>1, <1>2 DEF Quiet

\* Every step keeps the failed archives quiet.
LEMMA QuietStep ==
  ASSUME LocksTrusted, Quiet, [Next]_vars
  PROVE  Quiet'
<1>safe. Safe /\ Safe' /\ TypeOK
  BY SafeStep DEF Quiet, Safe
<1>dom. DOMAIN jobs = 1..Len(jobs) /\ Len(jobs) \in Nat
  BY <1>safe DEF TypeOK
<1>same. /\ jobs' = jobs => \A k \in 1..Len(jobs) : RowStep(k)
         /\ lane' = lane => \A m \in Lanes : LaneMove(m)
  BY DEF RowStep, LaneMove
<1>1. ASSUME NEW a \in Archives, SubmitArchive(a) PROVE Quiet'
  <2>1. /\ \A k \in DOMAIN jobs : jobs[k].archive # a
        /\ UNCHANGED <<jobs, lane>> /\ submitting' = submitting \cup {a}
        /\ archive' = [archive EXCEPT ![a] = "pending"]
    BY <1>1, <1>safe DEF SubmitArchive, Safe, RowsHaveArchives
  <2>2. SubmittingPending'
    BY <2>1, <1>safe DEF Quiet, SubmittingPending, TypeOK
  <2>3. FailedIsQuiet'
    BY <2>1, <1>safe DEF Quiet, FailedIsQuiet, TypeOK, Live, Held, Busy
  <2> QED
    BY <1>safe, <2>2, <2>3 DEF Quiet
<1>2. ASSUME NEW a \in Archives, SubmitJob(a) PROVE Quiet'
  <2>1. PICK p \in Priorities : Enqueue(a, 1, p)
    BY <1>2 DEF SubmitJob
  <2>2. submitting' = submitting \ {a} /\ a \in submitting /\ UNCHANGED <<archive, lane>>
    BY <1>2 DEF SubmitJob
  <2>3. archive[a] # "failed"
    BY <2>2 DEF Quiet, SubmittingPending
  <2>4. jobs \in Seq(JobRow) /\ p \in Nat /\ 1 \in Tiers
    BY <1>safe, LadderAssumption DEF Tiers, TypeOK
  <2>5. /\ \A k \in 1..Len(jobs) : jobs'[k] = jobs[k]
        /\ \/ jobs' = jobs
           \/ /\ Len(jobs') = Len(jobs) + 1
              /\ jobs'[Len(jobs) + 1] =
                   [archive |-> a, tier |-> 1, priority |-> p,
                    status |-> "queued", overdue |-> FALSE]
    BY <2>1, <2>4, EnqueueEffect
  <2>6. \A k \in 1..Len(jobs') :
          \/ k \in 1..Len(jobs) /\ jobs'[k] = jobs[k]
          \/ jobs'[k].archive = a
    <3> SUFFICES ASSUME NEW k \in 1..Len(jobs'), k \notin 1..Len(jobs)
                 PROVE  jobs'[k].archive = a
      BY <2>5
    <3>1. k = Len(jobs) + 1 /\ jobs'[k] = [archive |-> a, tier |-> 1, priority |-> p,
                                           status |-> "queued", overdue |-> FALSE]
      BY <2>5, <1>dom
    <3> QED
      BY <3>1
  <2>7. FailedIsQuiet'
    <3> SUFFICES ASSUME NEW k \in 1..Len(jobs'), archive[jobs'[k].archive] = "failed"
                 PROVE  ~Live(k)' /\ ~Held(k)'
      BY <2>2, <1>safe DEF FailedIsQuiet, Safe, TypeOK
    <3>1. k \in 1..Len(jobs) /\ jobs'[k] = jobs[k]
      BY <2>3, <2>6
    <3> QED
      BY <3>1, <2>2, <1>dom DEF Quiet, FailedIsQuiet, Live, Held, Busy
  <2>8. SubmittingPending'
    BY <2>2 DEF Quiet, SubmittingPending
  <2> QED
    BY <1>safe, <2>7, <2>8 DEF Quiet
<1>3. ASSUME NEW a \in Archives, SubmitDies(a) \/ SoftDelete(a) \/ Restore(a)
      PROVE  Quiet'
  BY <1>3, <1>safe, <1>same, RewriteQuiet DEF SubmitDies, SoftDelete, Restore
<1>4. ASSUME NEW a \in Archives, HardDelete(a) PROVE Quiet'
  <2>1. Len(jobs') = Len(jobs) /\ \A k \in 1..Len(jobs) : RowStep(k)
    BY <1>4, <1>safe, HardDeleteEffect DEF RowStep
  <2>2. \A b \in Archives : archive'[b] = archive[b] \/ archive'[b] = "deleted"
    BY <1>4, <1>safe DEF HardDelete, TypeOK
  <2> QED
    BY <1>4, <1>safe, <1>same, <2>1, <2>2, RewriteQuiet DEF HardDelete
<1>5. ASSUME NEW l \in Lanes, Claim(l) PROVE Quiet'
  <2>1. PICK i \in Queued :
          SetJob(i, "running") /\ lane' = [lane EXCEPT ![l] = [at |-> "fetch", job |-> i]]
    BY <1>5 DEF Claim
  <2>2. i \in 1..Len(jobs) /\ Live(i)
    BY <1>dom DEF Queued, Live
  <2>3. /\ Len(jobs') = Len(jobs)
        /\ \A k \in 1..Len(jobs) : /\ jobs'[k].archive = jobs[k].archive
                                   /\ k # i => jobs'[k] = jobs[k]
    BY <2>1, <2>2, <1>safe, SetJobEffect DEF TypeOK, JobStatus
  <2>4. \A k : Held(k)' => Held(k) \/ k = i
    BY <2>1, <1>safe DEF Held, Busy, TypeOK
  <2>5. UNCHANGED <<archive, submitting>>
    BY <1>5 DEF Claim
  <2>6. FailedIsQuiet'
    <3> SUFFICES ASSUME NEW k \in 1..Len(jobs), archive[jobs[k].archive] = "failed"
                 PROVE  ~Live(k)' /\ ~Held(k)'
      BY <2>3, <2>5, <1>safe DEF FailedIsQuiet, Safe, TypeOK
    <3>1. ~Live(k) /\ ~Held(k)
      BY <1>dom DEF Quiet, FailedIsQuiet
    <3>2. k # i
      BY <3>1, <2>2
    <3> QED
      BY <3>1, <3>2, <2>3, <2>4 DEF Live
  <2>7. SubmittingPending'
    BY <2>5 DEF Quiet, SubmittingPending
  <2> QED
    BY <1>safe, <2>6, <2>7 DEF Quiet
<1>6. ASSUME NEW l \in Lanes, LaneStep(l) \/ StatementError(l) \/ Disconnect(l)
      PROVE  Quiet'
  BY <1>6, <1>safe, LaneStepShape, LaneQuiet
<1>7. ASSUME NEW w \in Workers, Start(w) PROVE Quiet'
  <2>1. Len(jobs') = Len(jobs) /\ \A k \in 1..Len(jobs) : RowStep(k)
    BY <1>7, <1>safe, StartRows
  <2> QED
    BY <1>7, <1>safe, <1>same, <2>1, RewriteQuiet DEF Start
<1>8. ASSUME NEW w \in Workers, Shutdown(w) \/ Drained(w) PROVE Quiet'
  BY <1>8, <1>safe, <1>same, RewriteQuiet DEF Shutdown, Drained
<1>9. ASSUME NEW w \in Workers, Crash(w) PROVE Quiet'
  <2>1. \A m \in Lanes : LaneMove(m)
    BY <1>9 DEF Crash, LaneMove, Idle
  <2> QED
    BY <1>9, <1>safe, <1>same, <2>1, RewriteQuiet DEF Crash
<1>10. ASSUME NEW i \in DOMAIN jobs, LockAges(i) PROVE Quiet'
  <2>1. Len(jobs') = Len(jobs) /\ \A k \in 1..Len(jobs) : RowStep(k)
    <3>1. jobs[i].status = "running" /\ (Held(i) => "slow" \in Events)
      BY <1>10 DEF LockAges
    <3> QED
      BY <3>1, <1>10, <1>safe, LockAgesEffect DEF RowStep
  <2> QED
    BY <1>10, <1>safe, <1>same, <2>1, RewriteQuiet DEF LockAges
<1>11. CASE UNCHANGED vars
  BY <1>11, <1>safe, <1>same, RewriteQuiet DEF vars
<1> QED
  BY <1>1, <1>2, <1>3, <1>4, <1>5, <1>6, <1>7, <1>8, <1>9, <1>10, <1>11 DEF Next

\* Once an archive is shown as failed nothing works on it any more, whatever
\* crashes, lost connections and failing statements came before.
THEOREM FailureIsQuiet ==
  ASSUME LocksTrusted PROVE Spec => []FailedIsQuiet
<1>1. Init => Quiet
  BY SafeInit DEF Init, Quiet, FailedIsQuiet, SubmittingPending
<1>2. Quiet /\ [Next]_vars => Quiet'
  BY QuietStep
<1>3. Quiet => FailedIsQuiet
  BY DEF Quiet
<1> QED
  BY <1>1, <1>2, <1>3, PTL DEF Spec

-----------------------------------------------------------------------------
(* The queue implements the life of an archive                             *)
(*                                                                         *)
(* While the statements of a live connection do not fail, a lane knows the *)
(* status of its archive from the statement it is at: nobody else changes  *)
(* it but a delete.  A statement that fails after the archive was marked   *)
(* complete breaks exactly this (run complete_lost).                       *)

StatusAt(step) ==
  CASE step \in {"fetch", "gone"} -> {"pending", "capturing", "complete", "deleted"}
    [] step \in {"mark", "unsafe", "reject"} -> {"pending", "capturing", "deleted"}
    [] step \in {"skip", "settle", "observe"} -> {"complete", "deleted"}
    [] OTHER -> {"capturing", "deleted"}

LaneKnows(l) == Busy(l) => archive[JobOf(l).archive] \in StatusAt(lane[l].at)

RemovedHaveRows == \A a \in removed : HasRow(a)

Told == Quiet /\ (\A l \in Lanes : LaneKnows(l)) /\ RemovedHaveRows

\* One move of the abstract life of an archive, or none.
Moves(a, to) ==
  /\ archive' = [archive EXCEPT ![a] = to]
  /\ \/ archive[a] = "pending" /\ to = "capturing"
     \/ archive[a] = "capturing" /\ to = "complete"
     \/ archive[a] \in {"pending", "capturing"} /\ to = "failed"

LaneOutcome(l) ==
  /\ archive' = archive \/ \E to \in ArchiveStatus : Moves(JobOf(l).archive, to)
  /\ lane'[l].at = "idle" \/ archive'[JobOf(l).archive] \in StatusAt(lane'[l].at)

\* Every statement makes a move of the abstract archive, and leaves the lane
\* where it knows the status again.
LEMMA LaneStepOutcome ==
  ASSUME TypeOK, NEW l \in Lanes, Busy(l), LaneKnows(l), LaneStep(l) \/ Disconnect(l)
  PROVE  LaneOutcome(l)
<1> DEFINE a == JobOf(l).archive
<1>type. a \in Archives /\ archive \in [Archives -> ArchiveStatus \cup {"absent", "deleted"}]
  BY BusyLane DEF TypeOK, JobRow
<1>knows. archive[a] \in StatusAt(lane[l].at)
  BY DEF LaneKnows
<1>after. /\ \A step : GoTo(l, step) => lane'[l].at = step
          /\ Finish(l) => lane'[l].at = "idle"
  BY LaneAfter
<1>1. CASE Fetch(l)
  <2>1. archive[a] \in {"pending", "capturing", "complete", "deleted"} /\ archive' = archive
    BY <1>1, <1>knows DEF Fetch, At, StatusAt
  <2>2. \/ GoTo(l, "gone")
        \/ GoTo(l, "skip") /\ archive[a] = "complete"
        \/ (GoTo(l, "mark") \/ GoTo(l, "unsafe")) /\ Visible(a) /\ archive[a] # "complete"
    BY <1>1 DEF Fetch
  <2>3. archive[a] \in StatusAt(lane'[l].at)
    BY <2>1, <2>2, <1>after DEF StatusAt
  <2> QED
    BY <2>1, <2>3 DEF LaneOutcome
<1>2. CASE Gone(l) \/ Skip(l) \/ Observe(l) \/ Requeue(l) \/ Disconnect(l)
  BY <1>2, <1>after DEF Gone, Skip, Observe, Requeue, Disconnect, LaneOutcome
<1>3. CASE Unsafe(l)
  BY <1>3, <1>knows, <1>after DEF Unsafe, At, LaneOutcome, StatusAt
<1>4. CASE Reject(l)
  <2>1. archive[a] \in {"pending", "capturing", "deleted"} /\ SetArchive(a, "failed")
        /\ lane'[l].at = "idle"
    BY <1>4, <1>knows, <1>after DEF Reject, At, StatusAt
  <2> QED
    BY <2>1, <1>type DEF LaneOutcome, Moves, SetArchive, HasRow, ArchiveStatus
<1>5. CASE Mark(l)
  <2>1. archive[a] \in {"pending", "capturing", "deleted"} /\ SetArchive(a, "capturing")
        /\ lane'[l].at = "capture"
    BY <1>5, <1>knows, <1>after DEF Mark, At, StatusAt
  <2>2. archive'[a] \in StatusAt("capture")
    BY <2>1, <1>type DEF SetArchive, HasRow, ArchiveStatus, StatusAt
  <2>3. archive' = archive \/ Moves(a, "capturing")
    BY <2>1, <1>type DEF Moves, SetArchive, HasRow, ArchiveStatus
  <2> QED
    BY <2>1, <2>2, <2>3 DEF LaneOutcome, ArchiveStatus
<1>6. CASE Save(l)
  <2>1. archive[a] \in {"capturing", "deleted"} /\ SetArchive(a, "complete")
        /\ lane'[l].at = "settle"
    BY <1>6, <1>knows, <1>after DEF Save, At, StatusAt
  <2>2. archive'[a] \in StatusAt("settle")
    BY <2>1, <1>type DEF SetArchive, HasRow, ArchiveStatus, StatusAt
  <2>3. archive' = archive \/ Moves(a, "complete")
    BY <2>1, <1>type DEF Moves, SetArchive, HasRow, ArchiveStatus
  <2> QED
    BY <2>1, <2>2, <2>3 DEF LaneOutcome, ArchiveStatus
<1>7. CASE Settle(l)
  BY <1>7, <1>knows, <1>after DEF Settle, At, LaneOutcome, StatusAt
<1>8. CASE Capture(l) \/ CountAttempts(l) \/ Retry(l) \/ CountTotal(l) \/ GiveUp(l)
  <2>1. archive[a] \in {"capturing", "deleted"} /\ archive' = archive
    BY <1>8, <1>knows
    DEF Capture, CountAttempts, Retry, CountTotal, GiveUp, At, StatusAt
  <2>2. lane'[l].at \in {"idle", "save", "giveup", "count", "retry", "budget", "requeue",
                         "abandon", "escalate"}
    BY <1>8, <1>after DEF Capture, CountAttempts, Retry, CountTotal, GiveUp
  <2> QED
    BY <2>1, <2>2 DEF LaneOutcome, StatusAt
<1>9. CASE Abandon(l) \/ Escalate(l)
  <2>1. /\ archive[a] \in {"capturing", "deleted"} /\ lane'[l].at = "idle"
        /\ archive' = archive \/ SetArchive(a, "failed")
    BY <1>9, <1>knows, <1>after DEF Abandon, Escalate, At, StatusAt
  <2> QED
    BY <2>1, <1>type DEF LaneOutcome, Moves, SetArchive, HasRow, ArchiveStatus
<1> QED
  BY <1>1, <1>2, <1>3, <1>4, <1>5, <1>6, <1>7, <1>8, <1>9 DEF LaneStep

\* A lane that a step leaves alone keeps what it knows, unless its archive changes.
LEMMA KeepsKnowing ==
  ASSUME TypeOK, TypeOK', NEW m \in Lanes, LaneKnows(m),
         lane'[m] = lane[m] \/ lane'[m].at = "idle",
         \A k \in 1..Len(jobs) : jobs'[k].archive = jobs[k].archive,
         LET b == JobOf(m).archive IN
           Busy(m) => archive'[b] = archive[b] \/ archive'[b] = "deleted"
  PROVE  LaneKnows(m)'
<1> SUFFICES ASSUME Busy(m)'
             PROVE  archive'[jobs'[lane'[m].job].archive] \in StatusAt(lane'[m].at)
  BY DEF LaneKnows, JobOf
<1>1. lane'[m] = lane[m] /\ Busy(m)
  BY DEF Busy
<1>2. lane[m].job \in 1..Len(jobs)
  BY <1>1, BusyLane
<1>3. jobs'[lane'[m].job].archive = JobOf(m).archive
  BY <1>1, <1>2 DEF JobOf
<1>4. archive[JobOf(m).archive] \in StatusAt(lane[m].at)
  BY <1>1 DEF LaneKnows
<1>5. "deleted" \in StatusAt(lane[m].at)
  BY DEF StatusAt
<1> QED
  BY <1>1, <1>3, <1>4, <1>5

\* A step of a lane, seen by all the lanes and by the abstract archive.
LEMMA LaneTold ==
  ASSUME Told, Quiet', NEW l \in Lanes, LaneStep(l) \/ Disconnect(l)
  PROVE  Told' /\ [Lifecycle!Next]_<<archive, removed>>
<1> DEFINE a == JobOf(l).archive
<1>type. Safe /\ TypeOK /\ TypeOK'
  BY DEF Told, Quiet, Safe
<1>effect. LaneEffect(l)
  BY <1>type, LaneStepShape
<1>own. /\ Busy(l) /\ a \in Archives
        /\ \A m \in Lanes : Busy(m) /\ JobOf(m).archive = a => m = l
  BY <1>type, <1>effect, LaneOwnsArchive DEF LaneEffect
<1>outcome. LaneOutcome(l)
  BY <1>type, <1>own, LaneStepOutcome DEF Told
<1>moves. archive' = archive \/ \E to \in ArchiveStatus : Moves(a, to)
  BY <1>outcome DEF LaneOutcome
<1>removed. UNCHANGED removed
  BY <1>effect DEF LaneEffect
<1>others. \A b \in Archives : b # a => archive'[b] = archive[b]
  BY <1>moves, <1>type DEF Moves, TypeOK
<1>rows. \A k \in 1..Len(jobs) : jobs'[k].archive = jobs[k].archive
  <2> SUFFICES ASSUME NEW k \in 1..Len(jobs)
               PROVE  jobs'[k].archive = jobs[k].archive
    OBVIOUS
  <2>1. CASE UNCHANGED jobs \/ SettlesJob(l)
    <3>1. CASE UNCHANGED jobs
      BY <3>1
    <3>2. CASE SettlesJob(l)
      <4>1. PICK st \in {"complete", "failed", "retry"} : SetJob(lane[l].job, st)
        BY <3>2 DEF SettlesJob
      <4>2. jobs \in Seq(JobRow) /\ st \in JobStatus /\ lane[l].job \in 1..Len(jobs)
        BY <1>own, <1>type, BusyLane DEF TypeOK, JobStatus
      <4> QED
        BY <4>1, <4>2, SetJobEffect
    <3> QED
      BY <2>1, <3>1, <3>2
  <2>2. CASE EnqueuesNext(l)
    <3>1. PICK t \in Tiers, p \in Nat : Enqueue(JobOf(l).archive, t, p)
      BY <2>2 DEF EnqueuesNext
    <3>2. jobs \in Seq(JobRow) /\ JobOf(l).archive \in Archives
      BY <1>own, <1>type DEF TypeOK
    <3> QED
      BY <3>1, <3>2, EnqueueEffect
  <2> QED
    BY <2>1, <2>2, <1>effect DEF LaneEffect
<1>1. ASSUME NEW m \in Lanes PROVE LaneKnows(m)'
  <2>1. CASE m # l
    <3>1. lane'[m] = lane[m]
      BY <2>1, <1>type, <1>effect, LaneKeepsJob
    <3>2. Busy(m) => JobOf(m).archive # a /\ JobOf(m).archive \in Archives
      BY <2>1, <1>own, <1>type, BusyLane DEF JobRow
    <3>3. Busy(m) => archive'[JobOf(m).archive] = archive[JobOf(m).archive]
      BY <3>2, <1>others
    <3>4. LaneKnows(m)
      BY DEF Told
    <3> QED
      BY <3>1, <3>3, <3>4, <1>rows, <1>type, KeepsKnowing
  <2>2. CASE m = l
    <3> SUFFICES ASSUME lane'[l].at # "idle"
                 PROVE  archive'[jobs'[lane'[l].job].archive] \in StatusAt(lane'[l].at)
      BY <2>2 DEF LaneKnows, JobOf, Busy
    <3>1. lane'[l].job = lane[l].job /\ lane[l].job \in 1..Len(jobs)
      BY <1>type, <1>effect, <1>own, BusyLane, LaneKeepsJob
    <3>2. jobs'[lane'[l].job].archive = JobOf(l).archive
      BY <3>1, <1>rows DEF JobOf
    <3> QED
      BY <3>2, <1>outcome DEF LaneOutcome
  <2> QED
    BY <2>1, <2>2
<1>2. RemovedHaveRows'
  BY <1>moves, <1>removed, <1>type
  DEF Told, RemovedHaveRows, HasRow, Moves, ArchiveStatus, TypeOK
<1>3. [Lifecycle!Next]_<<archive, removed>>
  <2>1. ASSUME NEW to \in ArchiveStatus, Moves(a, to)
        PROVE  Lifecycle!Begin(a) \/ Lifecycle!Succeed(a) \/ Lifecycle!Fail(a)
    BY <2>1, <1>removed
    DEF Moves, Lifecycle!Begin, Lifecycle!Succeed, Lifecycle!Fail, Lifecycle!Move,
        Lifecycle!Unsettled
  <2> QED
    BY <2>1, <1>own, <1>moves, <1>removed DEF Lifecycle!Next
<1> QED
  BY <1>1, <1>2, <1>3 DEF Told

\* Every step keeps the invariant, and is a step or a stutter of the abstract
\* archives.
LEMMA ToldStep ==
  ASSUME LocksTrusted, "dberror" \notin Events, Told, [Next]_vars
  PROVE  Told' /\ [Lifecycle!Next]_<<archive, removed>>
<1>quiet. Quiet' /\ Safe /\ TypeOK /\ TypeOK'
  BY QuietStep DEF Told, Quiet, Safe
<1>dom. DOMAIN jobs = 1..Len(jobs) /\ removed \subseteq Archives
  BY <1>quiet DEF TypeOK
<1>known. \A m \in Lanes : LaneKnows(m)
  BY DEF Told
<1>job. \A m \in Lanes : Busy(m) =>
          lane[m].job \in 1..Len(jobs) /\ JobOf(m).archive \in Archives
  BY <1>quiet, BusyLane DEF JobRow
<1>keeps. ASSUME \A m \in Lanes : lane'[m] = lane[m] \/ lane'[m].at = "idle",
                 \A k \in 1..Len(jobs) : jobs'[k].archive = jobs[k].archive,
                 \A m \in Lanes : Busy(m) =>
                   \/ archive'[JobOf(m).archive] = archive[JobOf(m).archive]
                   \/ archive'[JobOf(m).archive] = "deleted"
          PROVE  \A m \in Lanes : LaneKnows(m)'
  BY <1>keeps, <1>known, <1>quiet, KeepsKnowing
<1>1. ASSUME NEW a \in Archives, SubmitArchive(a)
      PROVE  Told' /\ [Lifecycle!Next]_<<archive, removed>>
  <2>1. /\ archive[a] = "absent" /\ archive' = [archive EXCEPT ![a] = "pending"]
        /\ UNCHANGED <<removed, jobs, lane>>
    BY <1>1 DEF SubmitArchive
  <2>2. \A m \in Lanes : Busy(m) => JobOf(m).archive # a
    BY <1>quiet, <1>job, <1>dom, <2>1 DEF Safe, RowsHaveArchives, JobOf
  <2>3. \A m \in Lanes : LaneKnows(m)'
    BY <2>1, <2>2, <1>keeps, <1>quiet, <1>job DEF TypeOK
  <2>4. RemovedHaveRows'
    BY <2>1, <1>quiet, <1>dom DEF Told, RemovedHaveRows, HasRow, ArchiveStatus, TypeOK
  <2>5. Lifecycle!Accept(a)
    BY <2>1 DEF Lifecycle!Accept, Lifecycle!Move
  <2> QED
    BY <1>quiet, <2>3, <2>4, <2>5 DEF Told, Lifecycle!Next
<1>2. ASSUME NEW a \in Archives, SubmitJob(a)
      PROVE  Told' /\ [Lifecycle!Next]_<<archive, removed>>
  <2>1. PICK p \in Priorities : Enqueue(a, 1, p)
    BY <1>2 DEF SubmitJob
  <2>2. jobs \in Seq(JobRow) /\ p \in Nat /\ 1 \in Tiers
    BY <1>quiet, LadderAssumption DEF Tiers, TypeOK
  <2>3. \A k \in 1..Len(jobs) : jobs'[k] = jobs[k]
    BY <2>1, <2>2, EnqueueEffect
  <2>4. UNCHANGED <<archive, removed, lane>>
    BY <1>2 DEF SubmitJob
  <2>5. \A m \in Lanes : LaneKnows(m)'
    BY <2>3, <2>4, <1>keeps
  <2> QED
    BY <1>quiet, <2>4, <2>5 DEF Told, RemovedHaveRows, HasRow
<1>3. ASSUME NEW a \in Archives, SubmitDies(a) \/ SoftDelete(a) \/ Restore(a)
      PROVE  Told' /\ [Lifecycle!Next]_<<archive, removed>>
  <2>1. UNCHANGED <<archive, jobs, lane>>
    BY <1>3 DEF SubmitDies, SoftDelete, Restore
  <2>2. \A m \in Lanes : LaneKnows(m)'
    BY <2>1, <1>keeps
  <2>3. RemovedHaveRows'
    BY <1>3, <2>1
    DEF Told, RemovedHaveRows, SubmitDies, SoftDelete, Restore, Visible, HasRow
  <2>4. \/ UNCHANGED <<archive, removed>>
        \/ Lifecycle!Hide(a) \/ Lifecycle!Show(a)
    <3>1. SoftDelete(a) \/ Restore(a) => archive[a] \notin {"absent", "deleted"}
      BY DEF SoftDelete, Restore, Visible, HasRow, Told, RemovedHaveRows, ArchiveStatus
    <3> QED
      BY <1>3, <3>1
      DEF SubmitDies, SoftDelete, Restore, Lifecycle!Hide, Lifecycle!Show, Lifecycle!Rowless
  <2> QED
    BY <1>quiet, <2>2, <2>3, <2>4 DEF Told, Lifecycle!Next
<1>4. ASSUME NEW a \in Archives, HardDelete(a)
      PROVE  Told' /\ [Lifecycle!Next]_<<archive, removed>>
  <2>1. /\ HasRow(a) /\ archive' = [archive EXCEPT ![a] = "deleted"]
        /\ removed' = removed \ {a} /\ UNCHANGED lane
    BY <1>4 DEF HardDelete
  <2>2. \A k \in 1..Len(jobs) : jobs'[k].archive = jobs[k].archive
    BY <1>4, <1>quiet, HardDeleteEffect
  <2>3. \A b \in Archives : archive'[b] = archive[b] \/ archive'[b] = "deleted"
    BY <2>1, <1>quiet DEF TypeOK
  <2>4. \A m \in Lanes : LaneKnows(m)'
    BY <2>1, <2>2, <2>3, <1>job, <1>keeps
  <2>5. RemovedHaveRows'
    BY <2>1, <1>quiet, <1>dom DEF Told, RemovedHaveRows, HasRow, TypeOK
  <2>6. Lifecycle!Delete(a)
    BY <2>1 DEF Lifecycle!Delete, Lifecycle!Rowless, HasRow, ArchiveStatus
  <2> QED
    BY <1>quiet, <2>4, <2>5, <2>6 DEF Told, Lifecycle!Next
<1>5. ASSUME NEW l \in Lanes, Claim(l)
      PROVE  Told' /\ [Lifecycle!Next]_<<archive, removed>>
  <2>1. PICK i \in Queued :
          SetJob(i, "running") /\ lane' = [lane EXCEPT ![l] = [at |-> "fetch", job |-> i]]
    BY <1>5 DEF Claim
  <2>2. i \in 1..Len(jobs) /\ Live(i) /\ jobs[i] \in JobRow
    BY <1>quiet, <1>dom DEF Queued, Live, TypeOK
  <2>3. \A k \in 1..Len(jobs) : jobs'[k].archive = jobs[k].archive
    BY <2>1, <2>2, <1>quiet, SetJobEffect DEF TypeOK, JobStatus
  <2>4. UNCHANGED <<archive, removed>>
    BY <1>5 DEF Claim
  <2>5. archive[jobs[i].archive] \in StatusAt("fetch")
    <3>1. jobs[i].archive \in Archives
      BY <2>2 DEF JobRow
    <3>2. archive[jobs[i].archive] \notin {"failed", "absent"}
      BY <2>2, <1>dom DEF Told, Quiet, FailedIsQuiet, Safe, RowsHaveArchives
    <3> QED
      BY <3>1, <3>2, <1>quiet DEF TypeOK, ArchiveStatus, StatusAt
  <2>6. ASSUME NEW m \in Lanes PROVE LaneKnows(m)'
    <3>1. CASE m = l
      <4>1. lane'[l].at = "fetch" /\ lane'[l].job = i
        BY <2>1, <1>quiet DEF TypeOK
      <4> QED
        BY <3>1, <4>1, <2>2, <2>3, <2>4, <2>5 DEF LaneKnows, JobOf
    <3>2. CASE m # l
      <4>1. lane'[m] = lane[m]
        BY <3>2, <2>1, <1>quiet DEF TypeOK
      <4> QED
        BY <4>1, <2>3, <2>4, <1>known, <1>quiet, KeepsKnowing
    <3> QED
      BY <3>1, <3>2
  <2> QED
    BY <1>quiet, <2>4, <2>6 DEF Told, RemovedHaveRows, HasRow
<1>6. ASSUME NEW l \in Lanes, LaneStep(l) \/ Disconnect(l)
      PROVE  Told' /\ [Lifecycle!Next]_<<archive, removed>>
  BY <1>6, <1>quiet, LaneTold
<1>7. ASSUME NEW w \in Workers, Start(w) \/ Shutdown(w) \/ Drained(w) \/ Crash(w)
      PROVE  Told' /\ [Lifecycle!Next]_<<archive, removed>>
  <2>1. UNCHANGED <<archive, removed>>
    BY <1>7 DEF Start, Shutdown, Drained, Crash
  <2>2. \A m \in Lanes : lane'[m] = lane[m] \/ lane'[m].at = "idle"
    <3>1. CASE Crash(w)
      BY <3>1 DEF Crash, Idle
    <3>2. CASE Start(w) \/ Shutdown(w) \/ Drained(w)
      BY <3>2 DEF Start, Shutdown, Drained
    <3> QED
      BY <1>7, <3>1, <3>2
  <2>3. \A k \in 1..Len(jobs) : jobs'[k].archive = jobs[k].archive
    BY <1>7, <1>quiet, StartEffect DEF Shutdown, Drained, Crash
  <2>4. \A m \in Lanes : LaneKnows(m)'
    BY <2>1, <2>2, <2>3, <1>keeps
  <2> QED
    BY <1>quiet, <2>1, <2>4 DEF Told, RemovedHaveRows, HasRow
<1>8. ASSUME NEW i \in DOMAIN jobs, LockAges(i)
      PROVE  Told' /\ [Lifecycle!Next]_<<archive, removed>>
  <2>1. UNCHANGED <<archive, removed, lane>>
    BY <1>8 DEF LockAges
  <2>2. \A k \in 1..Len(jobs) : jobs'[k].archive = jobs[k].archive
    BY <1>8, <1>quiet, LockAgesEffect
  <2>3. \A m \in Lanes : LaneKnows(m)'
    BY <2>1, <2>2, <1>keeps
  <2> QED
    BY <1>quiet, <2>1, <2>3 DEF Told, RemovedHaveRows, HasRow
<1>9. CASE UNCHANGED vars
  <2>1. UNCHANGED <<archive, removed, lane, jobs>>
    BY <1>9 DEF vars
  <2>2. \A m \in Lanes : LaneKnows(m)'
    BY <2>1, <1>keeps
  <2> QED
    BY <1>quiet, <2>1, <2>2 DEF Told, RemovedHaveRows, HasRow
<1>10. \A l \in Lanes : ~StatementError(l)
  BY DEF StatementError
<1> QED
  BY <1>1, <1>2, <1>3, <1>4, <1>5, <1>6, <1>7, <1>8, <1>9, <1>10 DEF Next

LEMMA ToldInit == Init => Told
<1> SUFFICES ASSUME Init PROVE Told
  OBVIOUS
<1>1. Quiet
  BY SafeInit DEF Init, Quiet, FailedIsQuiet, SubmittingPending
<1>2. \A l \in Lanes : LaneKnows(l)
  BY DEF Init, LaneKnows, Busy, Idle
<1> QED
  BY <1>1, <1>2 DEF Told, RemovedHaveRows, Init

\* The queue with its retries, crashes, reclaims and moderation implements the
\* life of an archive: accepted once, settled once, deleted at most once.
THEOREM QueueImplementsLifecycle ==
  ASSUME LocksTrusted, "dberror" \notin Events PROVE Spec => LifecycleSpec
<1>1. Init => Lifecycle!Init
  BY DEF Init, Lifecycle!Init
<1>2. Told /\ [Next]_vars => Told' /\ [Lifecycle!Next]_(Lifecycle!vars)
  BY ToldStep DEF Lifecycle!vars
<1> QED
  BY <1>1, <1>2, ToldInit, PTL DEF Spec, LifecycleSpec, Lifecycle!Spec

\* A saved snapshot is never taken back by a later job or handler.
THEOREM SavedIsFinal ==
  ASSUME LocksTrusted, "dberror" \notin Events PROVE Spec => CompleteIsFinal
<1> DEFINE Final == \A a \in Archives :
                      archive[a] = "complete" => archive'[a] \in {"complete", "deleted"}
<1>1. Told /\ [Next]_vars => Told'
  BY ToldStep
<1>2. ASSUME Told, [Next]_vars PROVE [Final]_archive
  <2>1. [Lifecycle!Next]_<<archive, removed>>
    BY <1>2, ToldStep
  <2>2. archive \in [Archives -> ArchiveStatus \cup {"absent", "deleted"}]
    BY <1>2 DEF Told, Quiet, Safe, TypeOK
  <2>3. CASE Lifecycle!Next
    <3>1. PICK b \in Archives :
            \/ Lifecycle!Accept(b) \/ Lifecycle!Begin(b) \/ Lifecycle!Succeed(b)
            \/ Lifecycle!Fail(b) \/ Lifecycle!Hide(b) \/ Lifecycle!Show(b)
            \/ Lifecycle!Delete(b)
      BY <2>3 DEF Lifecycle!Next
    <3>2. \/ archive' = archive
          \/ archive[b] # "complete" /\ \E to : archive' = [archive EXCEPT ![b] = to]
          \/ archive' = [archive EXCEPT ![b] = "deleted"]
      BY <3>1 DEF Lifecycle!Accept, Lifecycle!Begin, Lifecycle!Succeed, Lifecycle!Fail,
         Lifecycle!Hide, Lifecycle!Show, Lifecycle!Delete, Lifecycle!Move,
         Lifecycle!Unsettled
    <3> QED
      BY <2>2, <3>2
  <2> QED
    BY <2>1, <2>3
<1> QED
  BY <1>1, <1>2, ToldInit, PTL DEF Spec, CompleteIsFinal

-----------------------------------------------------------------------------
(* Running jobs have a capture                                             *)
(*                                                                         *)
(* While no process dies and no connection drops, whatever the number of   *)
(* workers and the age of their locks: a lane lets go of a job only after  *)
(* the row is settled, and a settled row never runs again.                 *)

HandlersDone == \A l \in Lanes : lane[l].at \in SettledSteps => ~Live(lane[l].job)

RunsHeld == TypeOK /\ HandlersDone /\ RunningIsHeld

\* The row an INSERT adds is the last one, and the only one that is new.
LEMMA NewRow ==
  ASSUME jobs \in Seq(JobRow),
         NEW a \in Archives, NEW t \in Tiers, NEW p \in Nat, Enqueue(a, t, p)
  PROVE  /\ HasRow(a) => Len(jobs') = Len(jobs) + 1
         /\ ~HasRow(a) => jobs' = jobs
         /\ \A k \in 1..Len(jobs) : jobs'[k] = jobs[k]
         /\ \A k \in 1..Len(jobs') :
              \/ k \in 1..Len(jobs)
              \/ /\ k = Len(jobs) + 1 /\ HasRow(a)
                 /\ jobs'[k].archive = a /\ jobs'[k].tier = t /\ jobs'[k].status = "queued"
<1>1. CASE HasRow(a)
  <2>1. Len(jobs') = Len(jobs) + 1
    <3> DEFINE row == [archive |-> a, tier |-> t, priority |-> p,
                       status |-> "queued", overdue |-> FALSE]
    <3>1. row \in JobRow
      BY DEF JobRow, JobStatus
    <3>2. jobs' = Append(jobs, row)
      BY <1>1 DEF Enqueue
    <3> HIDE DEF row
    <3> QED
      BY <3>1, <3>2
  <2>2. /\ \A k \in 1..Len(jobs) : jobs'[k] = jobs[k]
        /\ jobs'[Len(jobs) + 1] = [archive |-> a, tier |-> t, priority |-> p,
                                   status |-> "queued", overdue |-> FALSE]
    BY <2>1, EnqueueEffect
  <2>3. \A k \in 1..Len(jobs') : k \in 1..Len(jobs) \/ k = Len(jobs) + 1
    <3>1. Len(jobs) \in Nat
      OBVIOUS
    <3> QED
      BY <2>1, <3>1
  <2> QED
    BY <1>1, <2>1, <2>2, <2>3
<1>2. CASE ~HasRow(a)
  BY <1>2 DEF Enqueue
<1> QED
  BY <1>1, <1>2

\* Steps that move no lane, and start no job.
LEMMA StillHeld ==
  ASSUME RunsHeld, TypeOK', lane' = lane,
         \A k \in 1..Len(jobs) :
           /\ Live(k)' => Live(k)
           /\ jobs'[k].status = "running" => jobs[k].status = "running",
         \A k \in 1..Len(jobs') : k \in 1..Len(jobs) \/ jobs'[k].status = "queued"
  PROVE  RunsHeld'
<1>dom. DOMAIN jobs = 1..Len(jobs) /\ DOMAIN jobs' = 1..Len(jobs')
  BY DEF RunsHeld, TypeOK
<1>1. \A l \in Lanes : Busy(l) => lane[l].job \in 1..Len(jobs)
  BY BusyLane DEF RunsHeld
<1>2. HandlersDone'
  <2> SUFFICES ASSUME NEW l \in Lanes, lane[l].at \in SettledSteps
               PROVE  jobs'[lane[l].job].status \notin {"queued", "running"}
    BY DEF HandlersDone, Live
  <2>1. Busy(l)
    BY DEF Busy, SettledSteps
  <2> QED
    BY <1>1, <2>1 DEF RunsHeld, HandlersDone, Live
<1>3. RunningIsHeld'
  <2> SUFFICES ASSUME NEW k \in 1..Len(jobs'), jobs'[k].status = "running" PROVE Held(k)'
    BY <1>dom DEF RunningIsHeld
  <2>1. Held(k)
    BY <1>dom DEF RunsHeld, RunningIsHeld
  <2> QED
    BY <2>1 DEF Held, Busy
<1> QED
  BY <1>2, <1>3 DEF RunsHeld

\* A capture lets go of its job only after the row is settled.
LEMMA LetsGoSettled ==
  ASSUME TypeOK, NEW l \in Lanes, LaneStep(l) \/ StatementError(l), lane'[l].at = "idle"
  PROVE  SettlesJob(l) \/ lane[l].at \in SettledSteps
<1>effect. LaneEffect(l) /\ Busy(l)
  BY LaneStepShape DEF LaneEffect
<1>after. \A step : GoTo(l, step) => step = "idle"
  BY <1>effect, LaneAfter
<1>1. CASE Fetch(l) \/ Mark(l) \/ Capture(l) \/ StatementError(l) \/ CountAttempts(l)
           \/ CountTotal(l) \/ Save(l)
  BY <1>1, <1>after
  DEF Fetch, Mark, Capture, StatementError, CountAttempts, CountTotal, Save
<1>2. CASE Gone(l) \/ Skip(l) \/ Unsafe(l) \/ Settle(l) \/ Retry(l) \/ GiveUp(l)
  <2>1. \E st \in {"complete", "failed", "retry"} : SetJob(lane[l].job, st)
    BY <1>2 DEF Gone, Skip, Unsafe, Settle, Retry, GiveUp
  <2> QED
    BY <2>1 DEF SettlesJob
<1>3. CASE Reject(l) \/ Observe(l) \/ Requeue(l) \/ Abandon(l) \/ Escalate(l)
  <2>1. lane[l].at \in SettledSteps
    BY <1>3 DEF Reject, Observe, Requeue, Abandon, Escalate, At, SettledSteps
  <2> QED
    BY <2>1, <1>effect DEF LaneEffect
<1> QED
  BY <1>1, <1>2, <1>3 DEF LaneStep

\* A settled row stays settled, and a row runs on unless its lane settles it.
LEMMA LaneRowStatus ==
  ASSUME TypeOK, NEW l \in Lanes, LaneEffect(l)
  PROVE  /\ \A k \in 1..Len(jobs) :
              /\ Live(k)' => Live(k)
              /\ jobs'[k].status = "running" => jobs[k].status = "running"
         /\ \A k \in 1..Len(jobs') : k \in 1..Len(jobs) \/ jobs'[k].status = "queued"
         /\ SettlesJob(l) => jobs'[lane[l].job].status \notin {"queued", "running"}
<1>type. /\ jobs \in Seq(JobRow) /\ Len(jobs) \in Nat
         /\ lane[l].job \in 1..Len(jobs)
         /\ JobOf(l).archive \in Archives
  BY BusyLane DEF TypeOK, LaneEffect, JobRow
<1>1. ASSUME UNCHANGED jobs
      PROVE  /\ \A k \in 1..Len(jobs) :
                  /\ Live(k)' => Live(k)
                  /\ jobs'[k].status = "running" => jobs[k].status = "running"
             /\ \A k \in 1..Len(jobs') : k \in 1..Len(jobs) \/ jobs'[k].status = "queued"
  BY <1>1 DEF Live
<1>2. ASSUME SettlesJob(l)
      PROVE  /\ \A k \in 1..Len(jobs) :
                  /\ Live(k)' => Live(k)
                  /\ jobs'[k].status = "running" => jobs[k].status = "running"
             /\ \A k \in 1..Len(jobs') : k \in 1..Len(jobs) \/ jobs'[k].status = "queued"
             /\ jobs'[lane[l].job].status \notin {"queued", "running"}
  <2>1. PICK st \in {"complete", "failed", "retry"} : SetJob(lane[l].job, st)
    BY <1>2 DEF SettlesJob
  <2>2. st \in JobStatus
    BY DEF JobStatus
  <2>3. /\ Len(jobs') = Len(jobs)
        /\ \A n \in 1..Len(jobs) : n # lane[l].job => jobs'[n] = jobs[n]
        /\ jobs[lane[l].job].status # "deleted" => jobs'[lane[l].job].status = st
        /\ jobs[lane[l].job].status = "deleted" => jobs' = jobs
    BY <2>1, <2>2, <1>type, SetJobEffect
  <2> QED
    BY <2>3, <1>type DEF Live
<1>3. ASSUME EnqueuesNext(l)
      PROVE  /\ \A k \in 1..Len(jobs) :
                  /\ Live(k)' => Live(k)
                  /\ jobs'[k].status = "running" => jobs[k].status = "running"
             /\ \A k \in 1..Len(jobs') : k \in 1..Len(jobs) \/ jobs'[k].status = "queued"
  <2>1. PICK t \in Tiers, p \in Nat : Enqueue(JobOf(l).archive, t, p)
    BY <1>3 DEF EnqueuesNext
  <2>2. /\ \A n \in 1..Len(jobs) : jobs'[n] = jobs[n]
        /\ \A k \in 1..Len(jobs') : k \in 1..Len(jobs) \/ jobs'[k].status = "queued"
    BY <2>1, <1>type, NewRow
  <2> QED
    BY <2>2 DEF Live
<1> QED
  BY <1>1, <1>2, <1>3 DEF LaneEffect

LEMMA LaneRunsHeld ==
  ASSUME RunsHeld, TypeOK', NEW l \in Lanes, LaneStep(l) \/ StatementError(l)
  PROVE  RunsHeld'
<1>type. /\ TypeOK /\ DOMAIN jobs = 1..Len(jobs) /\ DOMAIN jobs' = 1..Len(jobs')
         /\ \A m \in Lanes : Busy(m) => lane[m].job \in 1..Len(jobs)
  BY BusyLane DEF RunsHeld, TypeOK
<1>effect. LaneEffect(l) /\ Busy(l)
  BY <1>type, LaneStepShape DEF LaneEffect
<1>lanes. /\ \A m \in Lanes : m # l => lane'[m] = lane[m]
          /\ lane'[l].at = "idle" \/ lane'[l].job = lane[l].job
  BY <1>type, <1>effect, LaneKeepsJob
<1>rows. /\ \A k \in 1..Len(jobs) :
              /\ Live(k)' => Live(k)
              /\ jobs'[k].status = "running" => jobs[k].status = "running"
         /\ \A k \in 1..Len(jobs') : k \in 1..Len(jobs) \/ jobs'[k].status = "queued"
         /\ SettlesJob(l) => jobs'[lane[l].job].status \notin {"queued", "running"}
  BY <1>type, <1>effect, LaneRowStatus
<1>1. HandlersDone'
  <2> SUFFICES ASSUME NEW m \in Lanes, lane'[m].at \in SettledSteps
               PROVE  jobs'[lane'[m].job].status \notin {"queued", "running"}
    BY DEF HandlersDone, Live
  <2>1. CASE m # l
    <3>1. lane'[m] = lane[m] /\ Busy(m) /\ ~Live(lane[m].job)
      BY <2>1, <1>lanes DEF RunsHeld, HandlersDone, Busy, SettledSteps
    <3> QED
      BY <3>1, <1>rows, <1>type DEF Live
  <2>2. CASE m = l
    <3>1. lane'[l].job = lane[l].job
      BY <2>2, <1>lanes DEF SettledSteps
    <3>2. SettlesJob(l) \/ ~Live(lane[l].job)
      BY <2>2, <1>effect DEF LaneEffect, RunsHeld, HandlersDone
    <3> QED
      BY <2>2, <3>1, <3>2, <1>rows, <1>type, <1>effect DEF Live
  <2> QED
    BY <2>1, <2>2
<1>2. RunningIsHeld'
  <2> SUFFICES ASSUME NEW k \in 1..Len(jobs'), jobs'[k].status = "running"
               PROVE  Held(k)'
    BY <1>type DEF RunningIsHeld
  <2>1. k \in 1..Len(jobs) /\ jobs[k].status = "running" /\ Live(k) /\ Live(k)'
    BY <1>rows DEF Live
  <2>2. PICK m \in Lanes : Busy(m) /\ lane[m].job = k
    BY <2>1, <1>type DEF RunsHeld, RunningIsHeld, Held
  <2>3. CASE m # l
    BY <2>2, <2>3, <1>lanes DEF Held, Busy
  <2>4. CASE m = l
    <3>1. lane'[l].at # "idle"
      BY <2>1, <2>2, <2>4, <1>type, <1>rows, LetsGoSettled DEF RunsHeld, HandlersDone
    <3> QED
      BY <2>2, <2>4, <3>1, <1>lanes DEF Held, Busy
  <2> QED
    BY <2>3, <2>4
<1> QED
  BY <1>1, <1>2 DEF RunsHeld

\* Every step keeps it.
LEMMA RunsHeldStep ==
  ASSUME {"crash", "disconnect"} \cap Events = {}, RunsHeld, [Next]_vars
  PROVE  RunsHeld'
<1>type. /\ TypeOK /\ TypeOK' /\ DOMAIN jobs = 1..Len(jobs) /\ Len(jobs) \in Nat
         /\ DOMAIN jobs' = 1..Len(jobs') /\ jobs \in Seq(JobRow)
  BY TypeStep DEF RunsHeld, TypeOK
<1>same. UNCHANGED <<jobs, lane>> => RunsHeld'
  BY <1>type, StillHeld DEF Live
<1>1. ASSUME NEW a \in Archives,
             SubmitArchive(a) \/ SubmitDies(a) \/ SoftDelete(a) \/ Restore(a)
      PROVE  RunsHeld'
  BY <1>1, <1>same DEF SubmitArchive, SubmitDies, SoftDelete, Restore
<1>2. ASSUME NEW a \in Archives, SubmitJob(a) PROVE RunsHeld'
  <2>1. PICK p \in Priorities : Enqueue(a, 1, p)
    BY <1>2 DEF SubmitJob
  <2>2. p \in Nat /\ 1 \in Tiers
    BY LadderAssumption DEF Tiers
  <2>3. /\ \A k \in 1..Len(jobs) : jobs'[k] = jobs[k]
        /\ \A k \in 1..Len(jobs') : k \in 1..Len(jobs) \/ jobs'[k].status = "queued"
    BY <2>1, <2>2, <1>type, NewRow
  <2>4. lane' = lane
    BY <1>2 DEF SubmitJob
  <2> QED
    BY <2>3, <2>4, <1>type, StillHeld DEF Live
<1>3. ASSUME NEW a \in Archives, HardDelete(a) PROVE RunsHeld'
  <2>1. /\ Len(jobs') = Len(jobs)
        /\ \A k \in 1..Len(jobs) : jobs'[k] = jobs[k] \/ jobs'[k].status = "deleted"
    BY <1>3, <1>type, HardDeleteEffect
  <2> QED
    BY <1>3, <1>type, <2>1, StillHeld DEF HardDelete, Live
<1>4. ASSUME NEW l \in Lanes, Claim(l) PROVE RunsHeld'
  <2>1. PICK i \in Queued :
          SetJob(i, "running") /\ lane' = [lane EXCEPT ![l] = [at |-> "fetch", job |-> i]]
    BY <1>4 DEF Claim
  <2>2. i \in 1..Len(jobs) /\ Live(i) /\ ~Busy(l)
    BY <1>4, <1>type DEF Queued, Live, Claim
  <2>3. /\ Len(jobs') = Len(jobs)
        /\ \A k \in 1..Len(jobs) : k # i => jobs'[k] = jobs[k]
    <3>1. "running" \in JobStatus
      BY DEF JobStatus
    <3> QED
      BY <2>1, <2>2, <3>1, <1>type, SetJobEffect
  <2>4. /\ lane'[l].at = "fetch" /\ lane'[l].job = i
        /\ \A m \in Lanes : m # l => lane'[m] = lane[m]
    BY <2>1, <1>type DEF TypeOK
  <2>5. HandlersDone'
    <3> SUFFICES ASSUME NEW m \in Lanes, lane'[m].at \in SettledSteps
                 PROVE  jobs'[lane'[m].job].status \notin {"queued", "running"}
      BY DEF HandlersDone, Live
    <3>1. m # l /\ lane'[m] = lane[m] /\ Busy(m)
      BY <2>4 DEF SettledSteps, Busy
    <3>2. ~Live(lane[m].job) /\ lane[m].job \in 1..Len(jobs)
      BY <3>1, <1>type, BusyLane DEF RunsHeld, HandlersDone
    <3> QED
      BY <3>1, <3>2, <2>2, <2>3 DEF Live
  <2>6. RunningIsHeld'
    <3> SUFFICES ASSUME NEW k \in 1..Len(jobs), jobs'[k].status = "running"
                 PROVE  Held(k)'
      BY <1>type, <2>3 DEF RunningIsHeld
    <3>1. CASE k = i
      BY <3>1, <2>4 DEF Held, Busy
    <3>2. CASE k # i
      <4>1. PICK m \in Lanes : Busy(m) /\ lane[m].job = k
        BY <3>2, <2>3, <1>type DEF RunsHeld, RunningIsHeld, Held
      <4>2. m # l
        BY <4>1, <2>2
      <4> QED
        BY <4>1, <4>2, <2>4 DEF Held, Busy
    <3> QED
      BY <3>1, <3>2
  <2> QED
    BY <1>type, <2>5, <2>6 DEF RunsHeld
<1>5. ASSUME NEW l \in Lanes, LaneStep(l) \/ StatementError(l) \/ Disconnect(l)
      PROVE  RunsHeld'
  BY <1>5, <1>type, LaneRunsHeld DEF Disconnect
<1>6. ASSUME NEW w \in Workers, Start(w) PROVE RunsHeld'
  <2>1. /\ Len(jobs') = Len(jobs)
        /\ \A k \in 1..Len(jobs) :
             \/ jobs'[k] = jobs[k]
             \/ jobs[k].status = "running" /\ jobs'[k].status = "queued"
    BY <1>6, <1>type, StartEffect
  <2> QED
    BY <1>6, <1>type, <2>1, StillHeld DEF Start, Live
<1>7. ASSUME NEW w \in Workers, Shutdown(w) \/ Drained(w) PROVE RunsHeld'
  BY <1>7, <1>same DEF Shutdown, Drained
<1>8. ASSUME NEW i \in DOMAIN jobs, LockAges(i) PROVE RunsHeld'
  <2>1. Len(jobs') = Len(jobs) /\ \A k \in 1..Len(jobs) : jobs'[k].status = jobs[k].status
    BY <1>8, <1>type, LockAgesEffect
  <2> QED
    BY <1>8, <1>type, <2>1, StillHeld DEF LockAges, Live
<1>9. CASE UNCHANGED vars
  BY <1>9, <1>same DEF vars
<1>10. \A w \in Workers : ~Crash(w)
  BY DEF Crash
<1> QED
  BY <1>1, <1>2, <1>3, <1>4, <1>5, <1>6, <1>7, <1>8, <1>9, <1>10 DEF Next

\* Every running job has a capture that runs it, through drains and restarts and
\* whatever locks are outlasted, while no process dies and no connection drops
\* (Worker.run drains its captures before it ends).
THEOREM RunningJobsAreHeld ==
  ASSUME {"crash", "disconnect"} \cap Events = {} PROVE Spec => []RunningIsHeld
<1>1. Init => RunsHeld
  <2> SUFFICES ASSUME Init PROVE RunsHeld
    OBVIOUS
  <2>1. DOMAIN jobs = {} /\ \A l \in Lanes : lane[l].at = "idle"
    BY DEF Init, Idle
  <2> QED
    BY <2>1, TypeInit DEF RunsHeld, HandlersDone, RunningIsHeld, SettledSteps
<1>2. RunsHeld /\ [Next]_vars => RunsHeld'
  BY RunsHeldStep
<1>3. RunsHeld => RunningIsHeld
  BY DEF RunsHeld
<1> QED
  BY <1>1, <1>2, <1>3, PTL DEF Spec

-----------------------------------------------------------------------------
(* An archive that has not settled has somebody left to settle it          *)
(*                                                                         *)
(* While the processes live and nobody moderates, whatever the number of   *)
(* workers, the age of the locks and the statements that fail.  A capture  *)
(* is responsible for its archive until the statement that settles it or   *)
(* that queues the next job; past that the archive is complete, or belongs *)
(* to the queued row.  NobodyStranded alone is not inductive: it also      *)
(* takes a capture past its last update for somebody.                      *)

Unmoderated ==
  /\ removed = {}
  /\ RowsHaveArchives
  /\ \A a \in Archives : archive[a] # "deleted"
  /\ \A i \in DOMAIN jobs : jobs[i].status # "deleted"
  /\ \A l \in Lanes : lane[l].at # "gone"

Unsettled(a) == archive[a] \in {"pending", "capturing"}

\* The capture still has to settle the archive, or to queue a job that will.
Responsible(l) == lane[l].at \notin {"idle", "gone", "skip", "settle", "observe"}

Waiting(i) == Live(i) /\ ~Held(i)

Cared ==
  \A a \in Archives :
    Unsettled(a) =>
      \/ a \in submitting
      \/ \E l \in Lanes : Responsible(l) /\ JobOf(l).archive = a
      \/ \E i \in DOMAIN jobs : jobs[i].archive = a /\ Waiting(i)

CaredFor == TypeOK /\ Unmoderated /\ Cared

\* A statement leaves its lane responsible, settles the archive or queues a job,
\* or it belongs to a lane that was no longer responsible.
LEMMA LaneDischarges ==
  ASSUME TypeOK, Unmoderated, NEW l \in Lanes, LaneStep(l) \/ StatementError(l)
  PROVE  /\ lane'[l].at # "gone"
         /\ \/ UNCHANGED archive /\ ~Responsible(l)
            \/ Responsible(l)'
            \/ archive'[JobOf(l).archive] \in {"complete", "failed"}
            \/ \E t \in Tiers, p \in Nat : Enqueue(JobOf(l).archive, t, p)
<1>effect. LaneEffect(l) /\ Busy(l)
  BY LaneStepShape DEF LaneEffect
<1>after. /\ \A step : GoTo(l, step) => lane'[l].at = step
          /\ Finish(l) => lane'[l].at = "idle"
  BY <1>effect, LaneAfter
<1>own. /\ JobOf(l) \in JobRow /\ lane[l].job \in DOMAIN jobs
        /\ JobOf(l).archive \in Archives
        /\ JobOf(l).tier \in Tiers /\ JobOf(l).priority \in Nat
        /\ JobOf(l).priority + 1 \in Nat
  BY <1>effect, BusyLane DEF JobRow, TypeOK
<1>row. HasRow(JobOf(l).archive) /\ Visible(JobOf(l).archive)
  <2>1. archive[JobOf(l).archive] \notin {"absent", "deleted"}
    BY <1>own DEF Unmoderated, RowsHaveArchives, JobOf
  <2>2. archive[JobOf(l).archive] \in ArchiveStatus \cup {"absent", "deleted"}
    BY <1>own DEF TypeOK
  <2> QED
    BY <2>1, <2>2 DEF HasRow, Visible, Unmoderated
<1>set. \A st : SetArchive(JobOf(l).archive, st) => archive'[JobOf(l).archive] = st
  BY <1>own, <1>row DEF SetArchive, TypeOK
<1>1. CASE Fetch(l)
  <2>1. CASE archive[JobOf(l).archive] = "complete" /\ GoTo(l, "skip")
    <3>1. archive' = archive
      BY <1>1 DEF Fetch
    <3> QED
      BY <2>1, <3>1, <1>after
  <2>2. CASE GoTo(l, "mark") \/ GoTo(l, "unsafe")
    BY <2>2, <1>after DEF Responsible
  <2> QED
    BY <1>1, <1>row, <2>1, <2>2 DEF Fetch
<1>2. CASE Skip(l) \/ Settle(l) \/ Observe(l)
  BY <1>2, <1>after DEF Skip, Settle, Observe, At, Responsible
<1>3. CASE Unsafe(l) \/ Mark(l) \/ GiveUp(l)
  BY <1>3, <1>after DEF Unsafe, Mark, GiveUp, Responsible
<1>4. CASE Capture(l)
  <2>1. \E step \in {"save", "giveup", "count"} : lane'[l].at = step
    BY <1>4, <1>after DEF Capture
  <2> QED
    BY <2>1 DEF Responsible
<1>5. CASE CountAttempts(l)
  <2>1. lane'[l].at \in {"retry", "giveup"}
    BY <1>5, <1>after DEF CountAttempts
  <2> QED
    BY <2>1 DEF Responsible
<1>6. CASE CountTotal(l)
  <2>1. lane'[l].at \in {"requeue", "abandon"}
    BY <1>6, <1>after DEF CountTotal
  <2> QED
    BY <2>1 DEF Responsible
<1>7. CASE Save(l)
  BY <1>7, <1>after, <1>set DEF Save
<1>8. CASE Retry(l)
  <2>1. JobOf(l).status # "deleted"
    BY <1>own DEF Unmoderated, JobOf
  <2> QED
    BY <1>8, <2>1, <1>after DEF Retry, Responsible
<1>9. CASE Reject(l)
  BY <1>9, <1>after, <1>set DEF Reject
<1>10. CASE Requeue(l)
  BY <1>10, <1>after, <1>own DEF Requeue
<1>11. CASE Abandon(l)
  BY <1>11, <1>after, <1>set DEF Abandon
<1>12. CASE Escalate(l)
  <2>1. lane'[l].at = "idle"
    BY <1>12, <1>after DEF Escalate
  <2>2. CASE /\ JobOf(l).tier < NumTiers
             /\ Enqueue(JobOf(l).archive, JobOf(l).tier + 1, JobOf(l).priority + 1)
    <3>1. JobOf(l).tier + 1 \in Tiers
      BY <2>2, <1>own, LadderAssumption DEF Tiers
    <3> QED
      BY <2>1, <2>2, <3>1, <1>own
  <2>3. CASE SetArchive(JobOf(l).archive, "failed")
    BY <2>1, <2>3, <1>set
  <2> QED
    BY <1>12, <2>2, <2>3 DEF Escalate
<1>13. CASE StatementError(l)
  BY <1>13, <1>after DEF StatementError, Responsible
<1>14. ~Gone(l)
  BY DEF Gone, At, Unmoderated
<1> QED
  BY <1>1, <1>2, <1>3, <1>4, <1>5, <1>6, <1>7, <1>8, <1>9, <1>10, <1>11, <1>12,
     <1>13, <1>14 DEF LaneStep
\* Rows are only rewritten: the other jobs wait on, and no archive is orphaned.
LEMMA StillCared ==
  ASSUME CaredFor, TypeOK', lane' = lane, archive' = archive, removed' = removed,
         submitting' = submitting, Len(jobs') = Len(jobs),
         \A k \in 1..Len(jobs) : /\ jobs'[k].archive = jobs[k].archive
                                 /\ Live(k) => Live(k)'
                                 /\ jobs'[k].status # "deleted"
  PROVE  CaredFor'
<1>dom. DOMAIN jobs = 1..Len(jobs) /\ DOMAIN jobs' = 1..Len(jobs)
  BY DEF CaredFor, TypeOK
<1>job. \A l \in Lanes : lane[l].at # "idle" => lane[l].job \in 1..Len(jobs)
  BY BusyLane DEF CaredFor, Busy
<1>1. Unmoderated'
  BY <1>dom DEF CaredFor, Unmoderated, RowsHaveArchives
<1>2. Cared'
  <2> SUFFICES ASSUME NEW a \in Archives, Unsettled(a)
               PROVE  \/ a \in submitting
                      \/ \E l \in Lanes : Responsible(l) /\ jobs'[lane[l].job].archive = a
                      \/ \E i \in 1..Len(jobs) : jobs'[i].archive = a /\ Waiting(i)'
    BY <1>dom DEF Cared, Unsettled, JobOf, Responsible
  <2>1. \A l \in Lanes : Responsible(l) /\ JobOf(l).archive = a => jobs'[lane[l].job].archive = a
    BY <1>job DEF Responsible, JobOf
  <2>2. \A i \in 1..Len(jobs) :
          jobs[i].archive = a /\ Waiting(i) => jobs'[i].archive = a /\ Waiting(i)'
    BY DEF Waiting, Held, Busy
  <2> QED
    BY <2>1, <2>2, <1>dom DEF CaredFor, Cared
<1> QED
  BY <1>1, <1>2 DEF CaredFor

\* A statement of a lane leaves every archive to somebody.
LEMMA LaneCares ==
  ASSUME CaredFor, TypeOK', NEW l \in Lanes, LaneStep(l) \/ StatementError(l)
  PROVE  CaredFor'
<1> DEFINE own == JobOf(l).archive
<1>type. /\ TypeOK /\ Unmoderated /\ jobs \in Seq(JobRow) /\ Len(jobs) \in Nat
         /\ DOMAIN jobs = 1..Len(jobs) /\ DOMAIN jobs' = 1..Len(jobs')
  BY DEF CaredFor, TypeOK
<1>effect. LaneEffect(l) /\ Busy(l)
  BY <1>type, LaneStepShape DEF LaneEffect
<1>lanes. /\ \A m \in Lanes : m # l => lane'[m] = lane[m]
          /\ lane'[l].at = "idle" \/ lane'[l].job = lane[l].job
  BY <1>type, <1>effect, LaneKeepsJob
<1>held. \A k : Held(k)' => Held(k)
  BY <1>lanes, <1>effect DEF Held, Busy
<1>job. /\ \A m \in Lanes : Busy(m) => lane[m].job \in 1..Len(jobs)
        /\ own \in Archives
  BY <1>type, <1>effect, BusyLane DEF JobRow
<1>rows. /\ Len(jobs) <= Len(jobs')
         /\ \A k \in 1..Len(jobs) : /\ k \in 1..Len(jobs')
                                    /\ jobs'[k].archive = jobs[k].archive
                                    /\ k # lane[l].job => jobs'[k] = jobs[k]
         /\ \A k \in 1..Len(jobs') : jobs'[k].status # "deleted"
         /\ \A k \in 1..Len(jobs') : k \in 1..Len(jobs) \/ jobs'[k].archive = own
  <2>1. CASE UNCHANGED jobs
    BY <2>1, <1>type DEF Unmoderated
  <2>2. CASE SettlesJob(l)
    <3>1. PICK st \in {"complete", "failed", "retry"} : SetJob(lane[l].job, st)
      BY <2>2 DEF SettlesJob
    <3>2. st \in JobStatus
      BY DEF JobStatus
    <3>3. /\ Len(jobs') = Len(jobs)
          /\ \A k \in 1..Len(jobs) :
               /\ jobs'[k].archive = jobs[k].archive
               /\ k # lane[l].job => jobs'[k] = jobs[k]
               /\ jobs'[k].status = "deleted" <=> jobs[k].status = "deleted"
      BY <3>1, <3>2, <1>type, <1>job, <1>effect, SetJobEffect
    <3> QED
      BY <3>3, <1>type DEF Unmoderated
  <2>3. CASE EnqueuesNext(l)
    <3>1. PICK t \in Tiers, p \in Nat : Enqueue(own, t, p)
      BY <2>3 DEF EnqueuesNext
    <3>2. /\ Len(jobs) <= Len(jobs') /\ Len(jobs') \in Nat
          /\ \A k \in 1..Len(jobs) : jobs'[k] = jobs[k]
          /\ \A k \in 1..Len(jobs') :
               k \in 1..Len(jobs) \/ (jobs'[k].archive = own /\ jobs'[k].status = "queued")
      <4> HIDE DEF own
      <4>1. Len(jobs) <= Len(jobs') /\ Len(jobs') \in Nat
        BY <3>1, <1>type, <1>job, EnqueueEffect
      <4>2. /\ \A k \in 1..Len(jobs) : jobs'[k] = jobs[k]
            /\ \A k \in 1..Len(jobs') :
                 k \in 1..Len(jobs) \/ (jobs'[k].archive = own /\ jobs'[k].status = "queued")
        BY <3>1, <1>type, <1>job, NewRow
      <4> QED
        BY <4>1, <4>2
    <3> QED
      BY <3>2, <1>type DEF Unmoderated
  <2> QED
    BY <2>1, <2>2, <2>3, <1>effect DEF LaneEffect
<1>1. Unmoderated'
  <2>1. \A b \in Archives :
          archive'[b] = archive[b] \/ archive'[b] \in {"capturing", "complete", "failed"}
    BY <1>type, <1>effect DEF LaneEffect, FailsArchive, SetArchive, TypeOK
  <2>2. \A b \in Archives : archive'[b] # "deleted" /\ (archive[b] # "absent" => archive'[b] # "absent")
    BY <1>type, <2>1 DEF Unmoderated
  <2>3. archive[own] # "absent"
    BY <1>type, <1>job, <1>effect DEF Unmoderated, RowsHaveArchives, JobOf
  <2>4. RowsHaveArchives'
    <3> SUFFICES ASSUME NEW k \in 1..Len(jobs') PROVE archive'[jobs'[k].archive] # "absent"
      BY <1>type DEF RowsHaveArchives
    <3>1. CASE k \in 1..Len(jobs)
      <4>1. jobs[k] \in JobRow /\ jobs'[k].archive = jobs[k].archive
        BY <3>1, <1>type, <1>rows
      <4>2. jobs[k].archive \in Archives
        BY <4>1 DEF JobRow
      <4> QED
        BY <3>1, <4>1, <4>2, <2>2, <1>type DEF Unmoderated, RowsHaveArchives
    <3>2. CASE jobs'[k].archive = own
      BY <3>2, <2>2, <2>3, <1>job
    <3> QED
      BY <3>1, <3>2, <1>rows
  <2>5. \A m \in Lanes : lane'[m].at # "gone"
    BY <1>type, <1>lanes, LaneDischarges DEF Unmoderated
  <2> QED
    BY <1>type, <1>rows, <1>effect, <2>2, <2>4, <2>5 DEF Unmoderated, LaneEffect
<1>2. ASSUME NEW a \in Archives, archive'[a] \in {"pending", "capturing"},
             \/ a \in submitting
             \/ \E m \in Lanes : m # l /\ Responsible(m) /\ JobOf(m).archive = a
             \/ \E i \in 1..Len(jobs) : jobs[i].archive = a /\ Waiting(i)
      PROVE  \/ a \in submitting'
             \/ \E m \in Lanes : Responsible(m)' /\ jobs'[lane'[m].job].archive = a
             \/ \E i \in 1..Len(jobs') : jobs'[i].archive = a /\ Waiting(i)'
  <2>1. submitting' = submitting
    BY <1>effect DEF LaneEffect
  <2>2. \A m \in Lanes : m # l /\ Responsible(m) /\ JobOf(m).archive = a
           => Responsible(m)' /\ jobs'[lane'[m].job].archive = a
    BY <1>lanes, <1>rows, <1>job DEF Responsible, JobOf, Busy
  <2>3. \A i \in 1..Len(jobs) : jobs[i].archive = a /\ Waiting(i)
           => i \in 1..Len(jobs') /\ jobs'[i].archive = a /\ Waiting(i)'
    <3> SUFFICES ASSUME NEW i \in 1..Len(jobs), jobs[i].archive = a, Waiting(i)
                 PROVE  i \in 1..Len(jobs') /\ jobs'[i].archive = a /\ Waiting(i)'
      OBVIOUS
    <3>1. i # lane[l].job
      BY <1>effect DEF Waiting, Held
    <3> QED
      BY <3>1, <1>rows, <1>held DEF Waiting, Live
  <2> QED
    BY <1>2, <2>1, <2>2, <2>3
<1>3. ASSUME archive'[own] \in {"pending", "capturing"}
      PROVE  \/ own \in submitting'
             \/ \E m \in Lanes : Responsible(m)' /\ jobs'[lane'[m].job].archive = own
             \/ \E i \in 1..Len(jobs') : jobs'[i].archive = own /\ Waiting(i)'
  <2>1. CASE UNCHANGED archive /\ ~Responsible(l)
    <3>1. Unsettled(own)
      BY <1>3, <2>1 DEF Unsettled
    <3> QED
      BY <1>2, <1>3, <1>job, <1>type, <2>1, <3>1 DEF CaredFor, Cared
  <2>2. CASE Responsible(l)'
    <3>1. lane'[l].job = lane[l].job
      BY <2>2, <1>lanes DEF Responsible
    <3> QED
      BY <2>2, <3>1, <1>rows, <1>job, <1>effect DEF JobOf
  <2>3. CASE archive'[own] \in {"complete", "failed"}
    BY <1>3, <2>3 DEF Unsettled
  <2>4. ASSUME NEW t \in Tiers, NEW p \in Nat, Enqueue(own, t, p)
        PROVE  \E i \in 1..Len(jobs') : jobs'[i].archive = own /\ Waiting(i)'
    <3> DEFINE n == Len(jobs) + 1
    <3>1. HasRow(own)
      <4>1. archive[own] \notin {"absent", "deleted"}
        BY <1>type, <1>job, <1>effect DEF Unmoderated, RowsHaveArchives, JobOf
      <4> QED
        BY <4>1, <1>type, <1>job DEF HasRow, TypeOK
    <3> HIDE DEF own
    <3>2. Len(jobs') = n /\ n \in 1..Len(jobs') /\ n \notin 1..Len(jobs)
      <4>1. Len(jobs') = n
        BY <2>4, <3>1, <1>type, <1>job, NewRow
      <4> QED
        BY <4>1, <1>type
    <3>3. jobs'[n].archive = own /\ jobs'[n].status = "queued"
      BY <2>4, <3>2, <1>type, <1>job, NewRow
    <3>4. ~Held(n)
      BY <3>2, <1>job DEF Held
    <3> HIDE DEF n
    <3> QED
      BY <3>2, <3>3, <3>4, <1>held DEF Waiting, Live
  <2> QED
    BY <1>type, <2>1, <2>2, <2>3, <2>4, LaneDischarges
<1>4. Cared'
  <2> SUFFICES ASSUME NEW a \in Archives, archive'[a] \in {"pending", "capturing"}
               PROVE  \/ a \in submitting'
                      \/ \E m \in Lanes : Responsible(m)' /\ jobs'[lane'[m].job].archive = a
                      \/ \E i \in 1..Len(jobs') : jobs'[i].archive = a /\ Waiting(i)'
    BY <1>type DEF Cared, JobOf, Unsettled
  <2>1. CASE a = own
    BY <2>1, <1>3
  <2>2. CASE a # own
    <3>1. archive'[a] = archive[a]
      BY <2>2, <1>type, <1>effect, LaneArchive
    <3>2. \/ a \in submitting
          \/ \E m \in Lanes : Responsible(m) /\ JobOf(m).archive = a
          \/ \E i \in 1..Len(jobs) : jobs[i].archive = a /\ Waiting(i)
      BY <3>1, <1>type DEF CaredFor, Cared, Unsettled
    <3> QED
      BY <1>2, <2>2, <3>2
  <2> QED
    BY <2>1, <2>2
<1> QED
  BY <1>1, <1>4 DEF CaredFor

\* Every step leaves every archive to somebody.
LEMMA CaredForStep ==
  ASSUME {"crash", "disconnect", "moderate", "webcrash"} \cap Events = {},
         CaredFor, [Next]_vars
  PROVE  CaredFor'
<1>type. /\ TypeOK /\ TypeOK' /\ Unmoderated /\ jobs \in Seq(JobRow) /\ Len(jobs) \in Nat
         /\ DOMAIN jobs = 1..Len(jobs) /\ DOMAIN jobs' = 1..Len(jobs')
         /\ \A m \in Lanes : Busy(m) => lane[m].job \in 1..Len(jobs)
  BY TypeStep, BusyLane DEF CaredFor, TypeOK
<1>same. UNCHANGED <<archive, removed, submitting, jobs, lane>> => CaredFor'
  BY <1>type, StillCared DEF Live, Unmoderated
<1>1. ASSUME NEW a \in Archives, SubmitArchive(a) PROVE CaredFor'
  <2>1. /\ archive' = [archive EXCEPT ![a] = "pending"]
        /\ submitting' = submitting \cup {a}
        /\ UNCHANGED <<removed, jobs, lane>>
    BY <1>1 DEF SubmitArchive
  <2>2. \A b \in Archives : archive'[b] = IF b = a THEN "pending" ELSE archive[b]
    BY <2>1, <1>type DEF TypeOK
  <2>3. \A i \in 1..Len(jobs) : jobs[i].archive \in Archives
    <3>1. \A i \in 1..Len(jobs) : jobs[i] \in JobRow
      BY <1>type
    <3> QED
      BY <3>1 DEF JobRow
  <2>4. Unmoderated'
    BY <2>1, <2>2, <2>3, <1>type DEF Unmoderated, RowsHaveArchives
  <2>5. Cared'
    BY <2>1, <2>2 DEF CaredFor, Cared, Unsettled, Responsible, JobOf, Waiting, Live, Held, Busy
  <2> QED
    BY <2>4, <2>5, <1>type DEF CaredFor
<1>2. ASSUME NEW a \in Archives, SubmitJob(a) PROVE CaredFor'
  <2>1. PICK p \in Priorities : Enqueue(a, 1, p)
    BY <1>2 DEF SubmitJob
  <2>2. p \in Nat /\ 1 \in Tiers
    BY LadderAssumption DEF Tiers
  <2>3. UNCHANGED <<archive, removed, worker, lane>> /\ submitting' = submitting \ {a}
    BY <1>2 DEF SubmitJob
  <2>4. /\ HasRow(a) => Len(jobs') = Len(jobs) + 1
        /\ ~HasRow(a) => jobs' = jobs
        /\ \A k \in 1..Len(jobs) : jobs'[k] = jobs[k]
        /\ \A k \in 1..Len(jobs') :
             \/ k \in 1..Len(jobs)
             \/ /\ k = Len(jobs) + 1 /\ HasRow(a)
                /\ jobs'[k].archive = a /\ jobs'[k].status = "queued"
    BY <2>1, <2>2, <1>type, NewRow
  <2>5. Unmoderated'
    <3>1. RowsHaveArchives'
      BY <2>3, <2>4, <1>type DEF Unmoderated, RowsHaveArchives, HasRow, ArchiveStatus
    <3> QED
      BY <2>3, <2>4, <3>1, <1>type DEF Unmoderated
  <2>6. \A k \in 1..Len(jobs) : k \in 1..Len(jobs')
    <3>1. CASE HasRow(a)
      BY <3>1, <2>4, <1>type
    <3>2. CASE jobs' = jobs
      BY <3>2
    <3> QED
      BY <3>1, <3>2, <2>4
  <2>7. Cared'
    <3> SUFFICES ASSUME NEW b \in Archives, Unsettled(b)
                 PROVE  \/ b \in submitting'
                        \/ \E m \in Lanes : Responsible(m) /\ jobs'[lane[m].job].archive = b
                        \/ \E i \in 1..Len(jobs') : jobs'[i].archive = b /\ Waiting(i)'
      BY <2>3, <1>type DEF Cared, JobOf, Unsettled, Responsible
    <3>1. CASE a = b
      <4> DEFINE n == Len(jobs) + 1
      <4>1. HasRow(a)
        BY <3>1 DEF Unsettled, HasRow, ArchiveStatus
      <4>2. n \in 1..Len(jobs') /\ n \notin 1..Len(jobs)
        BY <4>1, <2>4, <1>type
      <4>3. jobs'[n].archive = b /\ jobs'[n].status = "queued"
        BY <4>2, <3>1, <2>4
      <4>4. ~Held(n)
        BY <4>2, <1>type DEF Held
      <4> HIDE DEF n
      <4> QED
        BY <4>2, <4>3, <4>4, <2>3 DEF Waiting, Live, Held, Busy
    <3>2. CASE a # b
      <4>1. \/ b \in submitting
            \/ \E m \in Lanes : Responsible(m) /\ JobOf(m).archive = b
            \/ \E i \in 1..Len(jobs) : jobs[i].archive = b /\ Waiting(i)
        BY <1>type DEF CaredFor, Cared
      <4>2. \A m \in Lanes : Responsible(m) => jobs'[lane[m].job] = JobOf(m)
        BY <2>4, <1>type DEF Responsible, JobOf, Busy
      <4>3. \A i \in 1..Len(jobs) : Waiting(i) => Waiting(i)' /\ jobs'[i] = jobs[i]
        BY <2>3, <2>4 DEF Waiting, Live, Held, Busy
      <4> QED
        BY <3>2, <4>1, <4>2, <4>3, <2>3, <2>6
    <3> QED
      BY <3>1, <3>2
  <2> QED
    BY <2>5, <2>7, <1>type DEF CaredFor
<1>3. ASSUME NEW l \in Lanes, Claim(l) PROVE CaredFor'
  <2>1. PICK i \in Queued :
          SetJob(i, "running") /\ lane' = [lane EXCEPT ![l] = [at |-> "fetch", job |-> i]]
    BY <1>3 DEF Claim
  <2>2. i \in 1..Len(jobs) /\ ~Busy(l) /\ UNCHANGED <<archive, removed, submitting>>
    BY <1>3, <1>type DEF Queued, Claim
  <2>3. /\ Len(jobs') = Len(jobs)
        /\ \A k \in 1..Len(jobs) :
             /\ jobs'[k].archive = jobs[k].archive
             /\ k # i => jobs'[k] = jobs[k]
             /\ jobs'[k].status = "deleted" <=> jobs[k].status = "deleted"
    <3>1. "running" \in JobStatus
      BY DEF JobStatus
    <3> QED
      BY <2>1, <2>2, <3>1, <1>type, SetJobEffect
  <2>4. /\ lane'[l].at = "fetch" /\ lane'[l].job = i
        /\ \A m \in Lanes : m # l => lane'[m] = lane[m]
    BY <2>1, <1>type DEF TypeOK
  <2>5. Unmoderated'
    BY <2>2, <2>3, <2>4, <1>type DEF Unmoderated, RowsHaveArchives
  <2>6. Cared'
    <3> SUFFICES ASSUME NEW a \in Archives, Unsettled(a)
                 PROVE  \/ a \in submitting
                        \/ \E m \in Lanes : Responsible(m)' /\ jobs'[lane'[m].job].archive = a
                        \/ \E k \in 1..Len(jobs) : jobs'[k].archive = a /\ Waiting(k)'
      BY <2>2, <2>3, <1>type DEF Cared, JobOf, Unsettled
    <3>1. \A m \in Lanes : Responsible(m) /\ JobOf(m).archive = a
            => Responsible(m)' /\ jobs'[lane'[m].job].archive = a
      BY <2>2, <2>3, <2>4, <1>type DEF Responsible, JobOf, Busy
    <3>2. \A k \in 1..Len(jobs) : Waiting(k) /\ k # i => Waiting(k)'
      BY <2>3, <2>4 DEF Waiting, Live, Held, Busy
    <3>3. Responsible(l)' /\ jobs'[lane'[l].job].archive = jobs[i].archive
      BY <2>2, <2>3, <2>4 DEF Responsible
    <3>4. \/ a \in submitting
          \/ \E m \in Lanes : Responsible(m) /\ JobOf(m).archive = a
          \/ \E k \in 1..Len(jobs) : jobs[k].archive = a /\ Waiting(k)
      BY <1>type DEF CaredFor, Cared
    <3> QED
      BY <2>3, <3>1, <3>2, <3>3, <3>4
  <2> QED
    BY <2>5, <2>6, <1>type DEF CaredFor
<1>4. ASSUME NEW l \in Lanes, LaneStep(l) \/ StatementError(l) PROVE CaredFor'
  BY <1>4, <1>type, LaneCares
<1>5. ASSUME NEW w \in Workers, Start(w) PROVE CaredFor'
  <2>1. /\ Len(jobs') = Len(jobs)
        /\ \A k \in 1..Len(jobs) :
             /\ jobs'[k].archive = jobs[k].archive
             /\ \/ jobs'[k] = jobs[k]
                \/ jobs[k].status = "running" /\ jobs'[k].status = "queued"
    BY <1>5, <1>type, StartEffect
  <2>2. UNCHANGED <<archive, removed, submitting, lane>>
    BY <1>5 DEF Start
  <2> QED
    BY <2>1, <2>2, <1>type, StillCared DEF Live, Unmoderated
<1>6. ASSUME NEW w \in Workers, Shutdown(w) \/ Drained(w) PROVE CaredFor'
  BY <1>6, <1>same DEF Shutdown, Drained
<1>7. ASSUME NEW i \in DOMAIN jobs, LockAges(i) PROVE CaredFor'
  <2>1. /\ Len(jobs') = Len(jobs)
        /\ \A k \in 1..Len(jobs) : /\ jobs'[k].archive = jobs[k].archive
                                   /\ jobs'[k].status = jobs[k].status
    BY <1>7, <1>type, LockAgesEffect
  <2>2. UNCHANGED <<archive, removed, submitting, lane>>
    BY <1>7 DEF LockAges
  <2> QED
    BY <2>1, <2>2, <1>type, StillCared DEF Live, Unmoderated
<1>8. CASE UNCHANGED vars
  BY <1>8, <1>same DEF vars
<1>9. /\ \A w \in Workers : ~Crash(w)
      /\ \A l \in Lanes : ~Disconnect(l)
      /\ \A a \in Archives : ~SubmitDies(a) /\ ~SoftDelete(a) /\ ~Restore(a) /\ ~HardDelete(a)
  <2>1. {"crash", "disconnect", "moderate", "webcrash"} \cap Events = {}
    OBVIOUS
  <2>2. removed = {}
    BY DEF CaredFor, Unmoderated
  <2> QED
    BY <2>1, <2>2 DEF Crash, Disconnect, SubmitDies, SoftDelete, Restore, HardDelete
<1> QED
  BY <1>1, <1>2, <1>3, <1>4, <1>5, <1>6, <1>7, <1>8, <1>9 DEF Next

\* An accepted submission always has somebody left to settle it, through drains,
\* restarts, failing statements and outlasted locks: only the death of a process
\* or a connection, or a moderator, can leave an archive pending for good.
THEOREM NobodyIsStranded ==
  ASSUME {"crash", "disconnect", "moderate", "webcrash"} \cap Events = {}
  PROVE  Spec => []NobodyStranded
<1>1. Init => CaredFor
  <2> SUFFICES ASSUME Init PROVE CaredFor
    OBVIOUS
  <2>1. DOMAIN jobs = {} /\ \A l \in Lanes : lane[l].at = "idle"
    BY DEF Init, Idle
  <2> QED
    BY <2>1, TypeInit DEF Init, CaredFor, Unmoderated, RowsHaveArchives, Cared, Unsettled
<1>2. CaredFor /\ [Next]_vars => CaredFor'
  BY CaredForStep
<1>3. CaredFor => NobodyStranded
  <2> SUFFICES ASSUME CaredFor, NEW a \in Archives, archive[a] \in {"pending", "capturing"}
               PROVE  a \in submitting \/ \E i \in RowsOf(a) : Live(i) \/ Held(i)
    BY DEF NobodyStranded
  <2>1. \A l \in Lanes : Responsible(l) => lane[l].job \in DOMAIN jobs /\ Held(lane[l].job)
    BY BusyLane DEF CaredFor, TypeOK, Responsible, Held, Busy
  <2>2. \A i \in DOMAIN jobs : jobs[i].archive = a => i \in RowsOf(a)
    BY DEF CaredFor, Unmoderated, RowsOf
  <2> QED
    BY <2>1, <2>2 DEF CaredFor, Cared, Unsettled, JobOf, Waiting
<1> QED
  BY <1>1, <1>2, <1>3, PTL DEF Spec

-----------------------------------------------------------------------------
(* The tier ladder and the retry budget                                    *)
(*                                                                         *)
(* Both count the rows of an archive at one statement and add one at a     *)
(* later one, in another transaction.  The count still holds at the INSERT *)
(* because the archive has one active job: nobody else adds a row between. *)

RetryBudget == (MaxTotalJobs - 1) \div MaxAttempts

ClimbsInOrder(a) ==
  \A i, k \in RowsOf(a) :
    i < k => /\ jobs[i].tier <= jobs[k].tier
             /\ jobs[k].tier > jobs[i].tier =>
                  \E j \in RowsOf(a) : j < k /\ jobs[j].tier = jobs[k].tier - 1

TiersBounded(a) == \A t \in Tiers : Cardinality(TierRowsOf(a, t)) <= MaxAttempts

\* Past max_total_jobs every row more is at a tier more.
BudgetSpent(a) ==
  Cardinality(RowsOf(a)) > MaxTotalJobs =>
    \E i \in RowsOf(a) :
      Cardinality(RowsOf(a)) <= MaxTotalJobs + jobs[i].tier - 1 - RetryBudget

Ladder(a) == ClimbsInOrder(a) /\ TiersBounded(a) /\ BudgetSpent(a)

\* The tiers up to which the budget of JobRepository.fail lasts.
LEMMA BudgetArithmetic ==
  /\ RetryBudget \in Nat
  /\ RetryBudget * MaxAttempts <= MaxTotalJobs - 1
  /\ \A t \in Nat : MaxTotalJobs <= MaxAttempts * t => RetryBudget <= t - 1
<1> DEFINE m == MaxTotalJobs - 1
           q == RetryBudget
<1>1. m \in Nat /\ MaxAttempts \in Nat /\ MaxAttempts > 0
  BY LadderAssumption
<1>2. q \in Nat /\ q * MaxAttempts <= m /\ m < (q + 1) * MaxAttempts
  BY <1>1 DEF RetryBudget
<1>3. ASSUME NEW t \in Nat, MaxTotalJobs <= MaxAttempts * t PROVE q <= t - 1
  <2>1. m < MaxAttempts * t
    BY <1>1, <1>3, LadderAssumption
  <2> SUFFICES ASSUME t <= q PROVE FALSE
    BY <1>2
  <2> HIDE DEF q, m
  <2>2. t * MaxAttempts <= q * MaxAttempts
    BY <1>1, <1>2
  <2> QED
    BY <2>1, <2>2, <1>1, <1>2
<1> QED
  BY <1>2, <1>3

\* An archive has finitely many rows.
LEMMA FiniteRows ==
  ASSUME TypeOK, NEW a \in Archives
  PROVE  /\ IsFiniteSet(RowsOf(a)) /\ Cardinality(RowsOf(a)) \in Nat
         /\ RowsOf(a) \subseteq 1..Len(jobs)
         /\ \A S \in SUBSET RowsOf(a) : IsFiniteSet(S) /\ Cardinality(S) \in Nat
         /\ \A i \in RowsOf(a) : i \in Nat /\ jobs[i].tier \in Tiers
<1>1. jobs \in Seq(JobRow) /\ Len(jobs) \in Nat /\ DOMAIN jobs = 1..Len(jobs)
  BY DEF TypeOK
<1>2. RowsOf(a) \subseteq 1..Len(jobs)
  BY <1>1 DEF RowsOf
<1>3. IsFiniteSet(1..Len(jobs))
  BY <1>1, FS_Interval
<1>4. ASSUME NEW S \in SUBSET RowsOf(a)
      PROVE  IsFiniteSet(S) /\ Cardinality(S) \in Nat
  <2>1. S \in SUBSET (1..Len(jobs))
    BY <1>2
  <2>2. IsFiniteSet(S)
    BY <1>3, <2>1, FS_Subset
  <2> QED
    BY <2>2, FS_CardinalityType
<1>5. ASSUME NEW i \in RowsOf(a) PROVE i \in Nat /\ jobs[i].tier \in Tiers
  <2>1. i \in Nat /\ jobs[i] \in JobRow
    BY <1>1, <1>2
  <2> QED
    BY <2>1 DEF JobRow
<1> QED
  BY <1>2, <1>4, <1>5

\* The first t tiers hold max_attempts rows each.
LEMMA RowsUpTo ==
  ASSUME TypeOK, NEW a \in Archives, TiersBounded(a), NEW t \in Nat
  PROVE  Cardinality({i \in RowsOf(a) : jobs[i].tier <= t}) <= MaxAttempts * t
<1> DEFINE UpTo(u) == {i \in RowsOf(a) : jobs[i].tier <= u}
           Over    == {u \in Nat : ~(Cardinality(UpTo(u)) <= MaxAttempts * u)}
<1> SUFFICES ASSUME Over # {} PROVE FALSE
  OBVIOUS
<1>1. PICK s \in Over : \A u \in Over : s <= u
  <2>1. Over \in SUBSET Nat
    OBVIOUS
  <2> HIDE DEF Over
  <2> QED
    BY <2>1, SmallestExists
<1>2. s \in Nat /\ ~(Cardinality(UpTo(s)) <= MaxAttempts * s)
  BY <1>1
<1>rows. \A i \in RowsOf(a) : jobs[i].tier \in Nat /\ jobs[i].tier >= 1
  BY FiniteRows, LadderAssumption DEF Tiers
<1>max. MaxAttempts \in Nat
  BY LadderAssumption
<1>3. s # 0
  <2> SUFFICES ASSUME s = 0 PROVE FALSE
    OBVIOUS
  <2>1. UpTo(s) = {}
    BY <1>rows
  <2>2. Cardinality(UpTo(s)) = 0
    BY <2>1, FS_EmptySet
  <2> QED
    BY <1>2, <1>max, <2>2
<1>4. s - 1 \in Nat /\ s - 1 < s
  BY <1>2, <1>3
<1>5. Cardinality(UpTo(s - 1)) <= MaxAttempts * (s - 1)
  <2>1. s - 1 \notin Over
    BY <1>1, <1>2, <1>4
  <2> QED
    BY <1>4, <2>1
<1>6. UpTo(s) = UpTo(s - 1) \cup TierRowsOf(a, s)
  BY <1>2, <1>rows DEF TierRowsOf
<1>7. Cardinality(TierRowsOf(a, s)) <= MaxAttempts
  <2>1. CASE s \in Tiers
    BY <2>1 DEF TiersBounded
  <2>2. CASE s \notin Tiers
    <3>1. TierRowsOf(a, s) = {}
      BY <2>2, FiniteRows DEF TierRowsOf
    <3>2. Cardinality(TierRowsOf(a, s)) = 0
      BY <3>1, FS_EmptySet
    <3> QED
      BY <3>2, <1>max
  <2> QED
    BY <2>1, <2>2
<1>8. /\ UpTo(s - 1) \in SUBSET RowsOf(a) /\ TierRowsOf(a, s) \in SUBSET RowsOf(a)
      /\ UpTo(s - 1) \cap TierRowsOf(a, s) \in SUBSET RowsOf(a)
  BY DEF TierRowsOf
<1> HIDE DEF UpTo, Over
<1>9. /\ IsFiniteSet(UpTo(s - 1)) /\ IsFiniteSet(TierRowsOf(a, s))
      /\ Cardinality(UpTo(s - 1)) \in Nat /\ Cardinality(TierRowsOf(a, s)) \in Nat
      /\ Cardinality(UpTo(s - 1) \cap TierRowsOf(a, s)) \in Nat
  BY <1>8, FiniteRows
<1>10. Cardinality(UpTo(s)) <= Cardinality(UpTo(s - 1)) + Cardinality(TierRowsOf(a, s))
  <2>1. Cardinality(UpTo(s)) = Cardinality(UpTo(s - 1)) + Cardinality(TierRowsOf(a, s))
                                 - Cardinality(UpTo(s - 1) \cap TierRowsOf(a, s))
    BY <1>6, <1>9, FS_Union
  <2> QED
    BY <1>9, <2>1
<1>11. MaxAttempts * (s - 1) + MaxAttempts = MaxAttempts * s
  BY <1>2, <1>max
<1>12. MaxAttempts * (s - 1) \in Nat /\ MaxAttempts * s \in Nat
  BY <1>2, <1>4, <1>max
<1> DEFINE below == MaxAttempts * (s - 1)
           upto  == MaxAttempts * s
<1>13. /\ ~(Cardinality(UpTo(s)) <= upto) /\ Cardinality(UpTo(s - 1)) <= below
       /\ below + MaxAttempts = upto /\ below \in Nat
  BY <1>2, <1>5, <1>11, <1>12
<1>14. Cardinality(UpTo(s)) \in Nat
  BY <1>6, <1>8, FiniteRows
<1> HIDE DEF below, upto
<1> QED
  BY <1>7, <1>9, <1>10, <1>13, <1>14, <1>max

\* So an archive that spent its budget does so at or above the tier it reaches.
LEMMA BudgetOf ==
  ASSUME TypeOK, NEW a \in Archives, Ladder(a)
  PROVE  Cardinality(RowsOf(a)) <= MaxTotalJobs + NumTiers - 1 - RetryBudget
<1> DEFINE n == Cardinality(RowsOf(a))
           q == RetryBudget
<1> SUFFICES n <= MaxTotalJobs + NumTiers - 1 - q
  OBVIOUS
<1>type. /\ n \in Nat /\ q \in Nat /\ NumTiers \in Nat /\ NumTiers >= 1
         /\ MaxTotalJobs \in Nat /\ MaxAttempts \in Nat /\ MaxAttempts >= 1
         /\ q * MaxAttempts <= MaxTotalJobs - 1
  BY FiniteRows, BudgetArithmetic, LadderAssumption
<1>1. CASE n > MaxTotalJobs
  <2>1. PICK i \in RowsOf(a) : n <= MaxTotalJobs + jobs[i].tier - 1 - q
    BY <1>1 DEF Ladder, BudgetSpent
  <2>2. jobs[i].tier \in Nat /\ jobs[i].tier <= NumTiers
    BY FiniteRows DEF Tiers
  <2> HIDE DEF n, q
  <2> QED
    BY <2>1, <2>2, <1>type
<1>2. CASE n <= MaxTotalJobs /\ q <= NumTiers - 1
  <2> HIDE DEF n, q
  <2> QED
    BY <1>2, <1>type
<1>3. CASE q >= NumTiers
  <2>1. n <= MaxAttempts * NumTiers
    <3>1. RowsOf(a) = {i \in RowsOf(a) : jobs[i].tier <= NumTiers}
      BY FiniteRows DEF Tiers
    <3>2. Cardinality({i \in RowsOf(a) : jobs[i].tier <= NumTiers}) <= MaxAttempts * NumTiers
      BY <1>type, RowsUpTo DEF Ladder
    <3> QED
      BY <3>1, <3>2
  <2> HIDE DEF n, q
  <2>2. NumTiers * (MaxAttempts - 1) <= q * (MaxAttempts - 1)
    BY <1>3, <1>type
  <2>3. /\ NumTiers * (MaxAttempts - 1) = MaxAttempts * NumTiers - NumTiers
        /\ q * (MaxAttempts - 1) = q * MaxAttempts - q
    BY <1>type
  <2>4. MaxAttempts * NumTiers \in Nat /\ q * MaxAttempts \in Nat
    BY <1>type
  <2> DEFINE an == MaxAttempts * NumTiers
             qa == q * MaxAttempts
  <2>5. an - NumTiers <= qa - q
    BY <2>2, <2>3
  <2>6. n <= an /\ qa <= MaxTotalJobs - 1 /\ an \in Nat /\ qa \in Nat
    BY <2>1, <2>4, <1>type
  <2> HIDE DEF an, qa
  <2> QED
    BY <2>5, <2>6, <1>type
<1> HIDE DEF n, q
<1> QED
  BY <1>1, <1>2, <1>3, <1>type

\* The counts of an archive are those of its rows and their tiers.
LEMMA SameLadder ==
  ASSUME TypeOK, NEW a \in Archives, RowsOf(a)' = RowsOf(a),
         \A i \in RowsOf(a) : jobs'[i].tier = jobs[i].tier
  PROVE  /\ \A t : TierRowsOf(a, t)' = TierRowsOf(a, t)
         /\ Ladder(a) => Ladder(a)'
<1>1. ASSUME NEW t PROVE TierRowsOf(a, t)' = TierRowsOf(a, t)
  BY DEF TierRowsOf
<1>2. ASSUME Ladder(a) PROVE Ladder(a)'
  <2>1. ClimbsInOrder(a)'
    BY <1>2 DEF Ladder, ClimbsInOrder
  <2>2. TiersBounded(a)'
    BY <1>1, <1>2 DEF Ladder, TiersBounded
  <2>3. BudgetSpent(a)'
    BY <1>2 DEF Ladder, BudgetSpent, RetryBudget
  <2> QED
    BY <2>1, <2>2, <2>3 DEF Ladder
<1> QED
  BY <1>1, <1>2

\* An archive without rows, or that loses them all, is at the foot of the ladder.
LEMMA EmptyLadder ==
  ASSUME NEW a \in Archives
  PROVE  /\ RowsOf(a) = {} => Ladder(a)
         /\ RowsOf(a)' = {} => /\ Ladder(a)'
                               /\ Cardinality(RowsOf(a)') = 0
                               /\ \A t : Cardinality(TierRowsOf(a, t)') = 0
<1>1. Cardinality({}) = 0 /\ MaxAttempts >= 0 /\ ~(0 > MaxTotalJobs)
  BY FS_EmptySet, LadderAssumption
<1>2. ASSUME RowsOf(a) = {} PROVE Ladder(a)
  <2>1. \A t : TierRowsOf(a, t) = {}
    BY <1>2 DEF TierRowsOf
  <2>2. ClimbsInOrder(a) /\ BudgetSpent(a)
    BY <1>1, <1>2 DEF ClimbsInOrder, BudgetSpent
  <2>3. TiersBounded(a)
    BY <1>1, <2>1 DEF TiersBounded
  <2> QED
    BY <2>2, <2>3 DEF Ladder
<1>3. ASSUME RowsOf(a)' = {}
      PROVE  /\ Ladder(a)'
             /\ Cardinality(RowsOf(a)') = 0
             /\ \A t : Cardinality(TierRowsOf(a, t)') = 0
  <2>1. \A t : TierRowsOf(a, t)' = {}
    BY <1>3 DEF TierRowsOf
  <2>2. (ClimbsInOrder(a) /\ BudgetSpent(a))'
    BY <1>1, <1>3 DEF ClimbsInOrder, BudgetSpent
  <2>3. TiersBounded(a)'
    BY <1>1, <2>1 DEF TiersBounded
  <2> QED
    BY <1>1, <1>3, <2>1, <2>2, <2>3 DEF Ladder
<1> QED
  BY <1>2, <1>3

\* One row more, of a submission, a retry or an escalation.
LEMMA LongerLadder ==
  ASSUME TypeOK, NEW a \in Archives, Ladder(a),
         NEW n \in Nat, NEW t \in Tiers,
         \A i \in RowsOf(a) : i < n,
         RowsOf(a)' = RowsOf(a) \cup {n},
         \A i \in RowsOf(a) : jobs'[i].tier = jobs[i].tier,
         jobs'[n].tier = t,
         \/ RowsOf(a) = {} /\ t = 1
         \/ \E j \in RowsOf(a) :
              /\ \A i \in RowsOf(a) : i <= j
              /\ \/ /\ t = jobs[j].tier
                    /\ Cardinality(TierRowsOf(a, t)) < MaxAttempts
                    /\ Cardinality(RowsOf(a)) < MaxTotalJobs
                 \/ t = jobs[j].tier + 1
  PROVE  Ladder(a)'
<1>rows. /\ IsFiniteSet(RowsOf(a)) /\ Cardinality(RowsOf(a)) \in Nat
         /\ \A i \in RowsOf(a) : i \in Nat /\ jobs[i].tier \in Nat /\ jobs[i].tier >= 1
         /\ n \notin RowsOf(a) /\ t \in Nat
  <2>1. /\ IsFiniteSet(RowsOf(a)) /\ Cardinality(RowsOf(a)) \in Nat
        /\ \A i \in RowsOf(a) : i \in Nat /\ jobs[i].tier \in Tiers
    BY FiniteRows
  <2> QED
    BY <2>1, LadderAssumption DEF Tiers
<1>below. \A i \in RowsOf(a) : jobs[i].tier <= t
  <2> SUFFICES ASSUME NEW i \in RowsOf(a) PROVE jobs[i].tier <= t
    OBVIOUS
  <2>1. PICK j \in RowsOf(a) : i <= j /\ jobs[j].tier <= t
    BY <1>rows
  <2>2. CASE i = j
    BY <2>1, <2>2
  <2>3. CASE i < j
    <3>1. jobs[i].tier <= jobs[j].tier
      BY <2>3 DEF Ladder, ClimbsInOrder
    <3> QED
      BY <2>1, <3>1, <1>rows
  <2> QED
    BY <2>1, <2>2, <2>3, <1>rows
<1>step. ASSUME NEW i \in RowsOf(a), t > jobs[i].tier
         PROVE  \E j \in RowsOf(a) : jobs[j].tier = t - 1
  <2>1. PICK j \in RowsOf(a) : i <= j /\ (t = jobs[j].tier \/ t = jobs[j].tier + 1)
    BY <1>rows, <1>step
  <2>2. CASE t = jobs[j].tier + 1
    BY <2>1, <2>2, <1>rows
  <2>3. CASE t = jobs[j].tier
    <3>1. i < j
      BY <1>step, <2>1, <2>3, <1>rows
    <3> QED
      BY <1>step, <2>3, <3>1 DEF Ladder, ClimbsInOrder
  <2> QED
    BY <2>1, <2>2, <2>3
<1>1. ClimbsInOrder(a)'
  <2> SUFFICES ASSUME NEW i \in RowsOf(a) \cup {n}, NEW k \in RowsOf(a) \cup {n}, i < k
               PROVE  /\ jobs'[i].tier <= jobs'[k].tier
                      /\ jobs'[k].tier > jobs'[i].tier =>
                           \E j \in RowsOf(a) \cup {n} :
                              j < k /\ jobs'[j].tier = jobs'[k].tier - 1
    BY DEF ClimbsInOrder
  <2>1. i \in RowsOf(a)
    BY <1>rows
  <2>2. CASE k \in RowsOf(a)
    BY <2>1, <2>2 DEF Ladder, ClimbsInOrder
  <2>3. CASE k = n
    BY <2>1, <2>3, <1>below, <1>step
  <2> QED
    BY <2>2, <2>3
<1>2. TiersBounded(a)'
  <2> SUFFICES ASSUME NEW u \in Tiers
               PROVE  Cardinality(TierRowsOf(a, u)') <= MaxAttempts
    BY DEF TiersBounded
  <2>1. CASE u # t
    <3>1. TierRowsOf(a, u)' = TierRowsOf(a, u)
      BY <2>1 DEF TierRowsOf
    <3> QED
      BY <3>1 DEF Ladder, TiersBounded
  <2>2. CASE u = t
    <3>1. TierRowsOf(a, t)' = TierRowsOf(a, t) \cup {n} /\ n \notin TierRowsOf(a, t)
      BY <1>rows DEF TierRowsOf
    <3>2. TierRowsOf(a, t) \in SUBSET RowsOf(a)
      BY DEF TierRowsOf
    <3>3. Cardinality(TierRowsOf(a, t)) < MaxAttempts
      <4>1. CASE /\ t = 1 \/ \E j \in RowsOf(a) : t = jobs[j].tier + 1
                 /\ \A i \in RowsOf(a) : jobs[i].tier # t
        <5>1. TierRowsOf(a, t) = {}
          BY <4>1 DEF TierRowsOf
        <5> QED
          BY <5>1, FS_EmptySet, LadderAssumption
      <4>2. ASSUME NEW j \in RowsOf(a), \A i \in RowsOf(a) : i <= j, t = jobs[j].tier + 1
            PROVE  \A i \in RowsOf(a) : jobs[i].tier # t
        <5> SUFFICES ASSUME NEW i \in RowsOf(a) PROVE jobs[i].tier <= jobs[j].tier
          BY <4>2, <1>rows
        <5>1. i <= j
          BY <4>2
        <5> QED
          BY <5>1, <1>rows DEF Ladder, ClimbsInOrder
      <4> QED
        BY <4>1, <4>2
    <3>4. Cardinality(TierRowsOf(a, t)) \in Nat /\ IsFiniteSet(TierRowsOf(a, t))
      BY <3>2, FiniteRows
    <3> DEFINE T == TierRowsOf(a, t)
    <3>5. Cardinality(T \cup {n}) = Cardinality(T) + 1
      <4>1. IsFiniteSet(T) /\ n \notin T
        BY <3>1, <3>4
      <4> HIDE DEF T
      <4> QED
        BY <4>1, FS_AddElement
    <3> QED
      BY <2>2, <3>1, <3>3, <3>4, <3>5, LadderAssumption
  <2> QED
    BY <2>1, <2>2
<1>count. Cardinality(RowsOf(a)') = Cardinality(RowsOf(a)) + 1
  <2> DEFINE R == RowsOf(a)
  <2>1. IsFiniteSet(R) /\ n \notin R
    BY <1>rows
  <2>2. Cardinality(R \cup {n}) = Cardinality(R) + 1
    <3> HIDE DEF R
    <3> QED
      BY <2>1, FS_AddElement
  <2> QED
    BY <2>2
<1>3. BudgetSpent(a)'
  <2> DEFINE c == Cardinality(RowsOf(a))
             q == RetryBudget
  <2> SUFFICES ASSUME c + 1 > MaxTotalJobs
               PROVE  c + 1 <= MaxTotalJobs + t - 1 - q
    BY <1>count DEF BudgetSpent, RetryBudget
  <2>type. /\ c \in Nat /\ q \in Nat /\ MaxTotalJobs \in Nat /\ MaxTotalJobs >= 1
           /\ t \in Nat
    BY <1>rows, BudgetArithmetic, LadderAssumption
  <2>0. RowsOf(a) = {} => c = 0
    BY FS_EmptySet
  <2>1. CASE RowsOf(a) = {}
    <3>1. c + 1 <= MaxTotalJobs
      BY <2>0, <2>1, <2>type
    <3> QED
      BY <3>1, <2>type
  <2>2. CASE \E j \in RowsOf(a) : t = jobs[j].tier /\ c < MaxTotalJobs
    BY <2>2, <2>type
  <2>3. ASSUME NEW j \in RowsOf(a), \A i \in RowsOf(a) : i <= j, t = jobs[j].tier + 1
        PROVE  c + 1 <= MaxTotalJobs + t - 1 - q
    <3>1. \A i \in RowsOf(a) : jobs[i].tier <= t - 1
      <4> SUFFICES ASSUME NEW i \in RowsOf(a) PROVE jobs[i].tier <= jobs[j].tier
        BY <2>3, <1>rows
      <4>1. i <= j
        BY <2>3
      <4> QED
        BY <4>1, <1>rows DEF Ladder, ClimbsInOrder
    <3>2. CASE c > MaxTotalJobs
      <4>1. PICK i \in RowsOf(a) : c <= MaxTotalJobs + jobs[i].tier - 1 - q
        BY <3>2 DEF Ladder, BudgetSpent
      <4>2. jobs[i].tier \in Nat /\ jobs[i].tier <= t - 1
        BY <3>1, <1>rows
      <4> HIDE DEF c, q
      <4> QED
        BY <4>1, <4>2, <2>type
    <3>3. CASE c = MaxTotalJobs
      <4>1. t - 1 \in Nat
        BY <2>3, <1>rows
      <4>2. RowsOf(a) = {i \in RowsOf(a) : jobs[i].tier <= t - 1}
        BY <3>1
      <4>3. Cardinality({i \in RowsOf(a) : jobs[i].tier <= t - 1}) <= MaxAttempts * (t - 1)
        BY <4>1, RowsUpTo DEF Ladder
      <4>4. MaxTotalJobs <= MaxAttempts * (t - 1)
        BY <3>3, <4>2, <4>3
      <4>5. q <= (t - 1) - 1
        BY <4>1, <4>4, BudgetArithmetic
      <4> HIDE DEF c, q
      <4> QED
        BY <3>3, <4>5, <2>type
    <3>4. c >= MaxTotalJobs
      BY <2>type
    <3> HIDE DEF c, q
    <3> QED
      BY <3>2, <3>3, <3>4, <2>type
  <2> QED
    BY <2>1, <2>2, <2>3
<1> QED
  BY <1>1, <1>2, <1>3 DEF Ladder

\* The rows of an archive go all at once, and come after its submission.
DeletedTogether ==
  \A i \in DOMAIN jobs : jobs[i].status = "deleted" <=> archive[jobs[i].archive] = "deleted"
SubmittingEmpty == \A i \in DOMAIN jobs : jobs[i].archive \notin submitting

\* What a handler counted still holds until it acts on it.
Counted == {"retry", "budget", "requeue"}
RoomAt(l, step) ==
  /\ step \in Counted =>
       Cardinality(TierRowsOf(JobOf(l).archive, JobOf(l).tier)) < MaxAttempts
  /\ step = "requeue" => Cardinality(RowsOf(JobOf(l).archive)) < MaxTotalJobs
Room(l) == RoomAt(l, lane[l].at)

Climbing ==
  /\ Safe
  /\ DeletedTogether
  /\ SubmittingEmpty
  /\ \A a \in Archives : Ladder(a)
  /\ \A l \in Lanes : Room(l)

KeepsRows ==
  /\ Len(jobs') = Len(jobs)
  /\ \A k \in 1..Len(jobs) : /\ jobs'[k].archive = jobs[k].archive
                             /\ jobs'[k].tier = jobs[k].tier
                             /\ jobs'[k].status = "deleted" <=> jobs[k].status = "deleted"

\* An UPDATE of the jobs table changes no count.
LEMMA KeptRows ==
  ASSUME TypeOK, TypeOK', KeepsRows, NEW a \in Archives
  PROVE  /\ RowsOf(a)' = RowsOf(a)
         /\ \A t : TierRowsOf(a, t)' = TierRowsOf(a, t)
         /\ Ladder(a) => Ladder(a)'
<1>1. DOMAIN jobs = 1..Len(jobs) /\ DOMAIN jobs' = 1..Len(jobs)
  BY DEF TypeOK, KeepsRows
<1>2. RowsOf(a)' = RowsOf(a)
  BY <1>1 DEF RowsOf, KeepsRows
<1>3. \A i \in RowsOf(a) : jobs'[i].tier = jobs[i].tier
  BY <1>1 DEF RowsOf, KeepsRows
<1> QED
  BY <1>2, <1>3, SameLadder

LEMMA KeptClimbing ==
  ASSUME Climbing, Safe', KeepsRows,
         \A a \in Archives : archive'[a] = "deleted" <=> archive[a] = "deleted",
         \A k \in 1..Len(jobs) : jobs[k].archive \notin submitting',
         \A m \in Lanes :
           \/ lane'[m] = lane[m]
           \/ lane'[m].at \notin Counted
           \/ Busy(m) /\ lane'[m].job = lane[m].job /\ RoomAt(m, lane'[m].at)
  PROVE  Climbing'
<1>type. /\ TypeOK /\ TypeOK' /\ DOMAIN jobs = 1..Len(jobs) /\ DOMAIN jobs' = 1..Len(jobs)
         /\ jobs \in Seq(JobRow)
  BY DEF Climbing, Safe, TypeOK, KeepsRows
<1>archives. \A k \in 1..Len(jobs) : jobs[k].archive \in Archives
  <2>1. \A k \in 1..Len(jobs) : jobs[k] \in JobRow
    BY <1>type
  <2> QED
    BY <2>1 DEF JobRow
<1>1. DeletedTogether' /\ SubmittingEmpty'
  BY <1>type, <1>archives DEF Climbing, DeletedTogether, SubmittingEmpty, KeepsRows
<1>2. ASSUME NEW a \in Archives PROVE Ladder(a)'
  BY <1>type, KeptRows DEF Climbing
<1>3. ASSUME NEW m \in Lanes PROVE Room(m)'
  <2> SUFFICES ASSUME lane'[m].at \in Counted PROVE Room(m)'
    BY DEF Room, RoomAt, Counted
  <2>1. Busy(m) /\ lane'[m].job = lane[m].job /\ RoomAt(m, lane'[m].at)
    BY DEF Climbing, Room, Counted, Busy
  <2>2. lane[m].job \in 1..Len(jobs)
    BY <2>1, <1>type, BusyLane
  <2>3. /\ JobOf(m)'.archive = JobOf(m).archive /\ JobOf(m)'.tier = JobOf(m).tier
        /\ JobOf(m).archive \in Archives
    BY <2>1, <2>2, <1>archives DEF JobOf, KeepsRows
  <2>4. RowsOf(JobOf(m).archive)' = RowsOf(JobOf(m).archive)
    BY <1>type, <2>1, <2>3 DEF RowsOf, JobOf, KeepsRows
  <2>5. TierRowsOf(JobOf(m).archive, JobOf(m).tier)' = TierRowsOf(JobOf(m).archive, JobOf(m).tier)
    <3>1. \A i \in RowsOf(JobOf(m).archive) : jobs'[i].tier = jobs[i].tier
      BY <1>type DEF RowsOf, KeepsRows
    <3> QED
      BY <2>3, <2>4, <3>1 DEF TierRowsOf, JobOf
  <2> QED
    BY <2>1, <2>4, <2>5 DEF Room, RoomAt
<1> QED
  BY <1>1, <1>2, <1>3 DEF Climbing

\* A handler goes on to retry, and to requeue, only if it counted room.
LEMMA LaneRoom ==
  ASSUME TypeOK, NEW l \in Lanes, Room(l), LaneStep(l) \/ StatementError(l) \/ Disconnect(l)
  PROVE  RoomAt(l, lane'[l].at)
<1>effect. LaneEffect(l) /\ Busy(l)
  BY LaneStepShape DEF LaneEffect
<1>after. /\ \A step : GoTo(l, step) => lane'[l].at = step
          /\ Finish(l) => lane'[l].at = "idle"
  BY <1>effect, LaneAfter
<1>free. lane'[l].at \notin Counted => RoomAt(l, lane'[l].at)
  BY DEF RoomAt, Counted
<1>1. CASE Fetch(l) \/ Mark(l) \/ Save(l) \/ Capture(l) \/ StatementError(l)
  <2>1. lane'[l].at \in {"gone", "skip", "mark", "unsafe", "capture", "settle",
                        "save", "giveup", "count"}
    BY <1>1, <1>after DEF Fetch, Mark, Save, Capture, StatementError
  <2> QED
    BY <2>1, <1>free DEF Counted
<1>2. CASE Unsafe(l) \/ Settle(l) \/ GiveUp(l)
  <2>1. lane'[l].at \in {"reject", "observe", "escalate"}
    BY <1>2, <1>after DEF Unsafe, Settle, GiveUp
  <2> QED
    BY <2>1, <1>free DEF Counted
<1>3. CASE \/ Gone(l) \/ Skip(l) \/ Reject(l) \/ Observe(l) \/ Requeue(l)
           \/ Abandon(l) \/ Escalate(l) \/ Disconnect(l)
  <2>1. lane'[l].at = "idle"
    BY <1>3, <1>after DEF Gone, Skip, Reject, Observe, Requeue, Abandon, Escalate, Disconnect
  <2> QED
    BY <2>1, <1>free DEF Counted
<1>4. CASE CountAttempts(l)
  <2>1. \/ /\ Cardinality(TierRowsOf(JobOf(l).archive, JobOf(l).tier)) < MaxAttempts
           /\ lane'[l].at = "retry"
        \/ lane'[l].at = "giveup"
    BY <1>4, <1>after DEF CountAttempts
  <2> QED
    BY <2>1 DEF RoomAt, Counted
<1>5. CASE Retry(l)
  <2>1. lane[l].at = "retry" /\ lane'[l].at \in {"idle", "budget"}
    BY <1>5, <1>after DEF Retry, At
  <2> QED
    BY <2>1 DEF Room, RoomAt, Counted
<1>6. CASE CountTotal(l)
  <2>1. /\ lane[l].at = "budget"
        /\ \/ /\ Cardinality(RowsOf(JobOf(l).archive)) < MaxTotalJobs
              /\ lane'[l].at = "requeue"
           \/ lane'[l].at = "abandon"
    BY <1>6, <1>after DEF CountTotal, At
  <2> QED
    BY <2>1 DEF Room, RoomAt, Counted
<1> QED
  BY <1>1, <1>2, <1>3, <1>4, <1>5, <1>6 DEF LaneStep

\* A retry stays at its tier, an escalation goes to the next.
LEMMA LaneEnqueues ==
  ASSUME TypeOK, NEW l \in Lanes, LaneStep(l) \/ StatementError(l) \/ Disconnect(l)
  PROVE  \/ UNCHANGED jobs \/ SettlesJob(l)
         \/ /\ Finish(l) /\ UNCHANGED archive
            /\ \E t \in Tiers, p \in Nat :
                 /\ Enqueue(JobOf(l).archive, t, p)
                 /\ \/ t = JobOf(l).tier /\ lane[l].at = "requeue"
                    \/ t = JobOf(l).tier + 1
<1>own. /\ JobOf(l) \in JobRow /\ JobOf(l).tier \in Tiers
        /\ JobOf(l).priority \in Nat /\ JobOf(l).priority + 1 \in Nat
  <2>1. Busy(l)
    BY LaneStepShape DEF LaneEffect
  <2> QED
    BY <2>1, BusyLane DEF JobRow
<1>1. CASE Requeue(l)
  BY <1>1, <1>own DEF Requeue, At
<1>2. CASE Escalate(l)
  <2>1. JobOf(l).tier < NumTiers => JobOf(l).tier + 1 \in Tiers
    BY <1>own, LadderAssumption DEF Tiers
  <2> QED
    BY <1>2, <2>1, <1>own DEF Escalate
<1>3. CASE LaneEffect(l) /\ lane[l].at \notin {"requeue", "escalate"}
  BY <1>3 DEF LaneEffect, EnqueuesNext
<1>4. lane[l].at = "requeue" => Requeue(l) \/ UNCHANGED jobs
  BY DEF LaneStep, StatementError, Disconnect, TrySteps, At, Fetch, Gone, Skip, Unsafe, Reject,
     Mark, Capture, Save, Settle, Observe, CountAttempts, Retry, CountTotal, Abandon, GiveUp,
     Escalate
<1>5. lane[l].at = "escalate" => Escalate(l) \/ UNCHANGED jobs
  BY DEF LaneStep, StatementError, Disconnect, TrySteps, At, Fetch, Gone, Skip, Unsafe, Reject,
     Mark, Capture, Save, Settle, Observe, CountAttempts, Retry, CountTotal, Abandon, GiveUp,
     Requeue
<1> QED
  BY <1>1, <1>2, <1>3, <1>4, <1>5, LaneStepShape

\* A row is added for an archive that nobody else works on.
LEMMA AppendClimbing ==
  ASSUME Climbing, Safe', NEW a \in Archives, NEW t \in Tiers, NEW p \in Nat,
         Enqueue(a, t, p), archive' = archive, submitting' = submitting \ {a},
         \A m \in Lanes : lane'[m] = lane[m] \/ lane'[m].at = "idle",
         \A m \in Lanes : Busy(m)' => JobOf(m).archive # a,
         HasRow(a) =>
           \/ RowsOf(a) = {} /\ t = 1
           \/ \E j \in RowsOf(a) :
                /\ \A i \in RowsOf(a) : i <= j
                /\ \/ /\ t = jobs[j].tier
                      /\ Cardinality(TierRowsOf(a, t)) < MaxAttempts
                      /\ Cardinality(RowsOf(a)) < MaxTotalJobs
                   \/ t = jobs[j].tier + 1
  PROVE  Climbing'
<1>type. /\ TypeOK /\ TypeOK' /\ DOMAIN jobs = 1..Len(jobs) /\ DOMAIN jobs' = 1..Len(jobs')
         /\ jobs \in Seq(JobRow) /\ Len(jobs) \in Nat
         /\ \A m \in Lanes : Busy(m) => lane[m].job \in 1..Len(jobs)
  BY BusyLane DEF Climbing, Safe, TypeOK
<1>new. /\ HasRow(a) => Len(jobs') = Len(jobs) + 1
        /\ ~HasRow(a) => jobs' = jobs
        /\ \A k \in 1..Len(jobs) : jobs'[k] = jobs[k]
        /\ \A k \in 1..Len(jobs') :
             \/ k \in 1..Len(jobs)
             \/ /\ k = Len(jobs) + 1 /\ HasRow(a)
                /\ jobs'[k].archive = a /\ jobs'[k].tier = t /\ jobs'[k].status = "queued"
  BY <1>type, NewRow
<1>old. \A k \in 1..Len(jobs) : jobs[k].archive \notin submitting'
  BY <1>type DEF Climbing, SubmittingEmpty
<1>1. CASE ~HasRow(a)
  <2>1. KeepsRows
    BY <1>1, <1>new DEF KeepsRows
  <2> QED
    BY <2>1, <1>old, KeptClimbing DEF Counted
<1>2. CASE HasRow(a)
  <2> DEFINE n == Len(jobs) + 1
  <2>len. /\ Len(jobs') = n /\ n \in Nat /\ n \in 1..Len(jobs') /\ n \notin 1..Len(jobs)
          /\ 1..Len(jobs') = 1..Len(jobs) \cup {n}
    <3>1. Len(jobs') = n
      BY <1>2, <1>new
    <3> QED
      BY <3>1, <1>type
  <2>row. jobs'[n].archive = a /\ jobs'[n].tier = t /\ jobs'[n].status = "queued"
    BY <2>len, <1>new
  <2>after. \A k \in 1..Len(jobs) : k < n
    BY <1>type
  <2>live. archive[a] # "deleted"
    BY <1>2 DEF HasRow, ArchiveStatus
  <2> HIDE DEF n
  <2>1. DeletedTogether'
    BY <2>len, <2>row, <2>live, <1>type, <1>new DEF Climbing, DeletedTogether
  <2>2. SubmittingEmpty'
    BY <2>len, <2>row, <1>old, <1>type, <1>new DEF SubmittingEmpty
  <2>3. RowsOf(a)' = RowsOf(a) \cup {n}
    BY <2>len, <2>row, <1>type, <1>new DEF RowsOf
  <2>4. \A b \in Archives : b # a => RowsOf(b)' = RowsOf(b)
    BY <2>len, <2>row, <1>type, <1>new DEF RowsOf
  <2>5. \A b \in Archives : RowsOf(b) \subseteq 1..Len(jobs)
    BY <1>type DEF RowsOf
  <2>6. \A b \in Archives : \A i \in RowsOf(b) : jobs'[i].tier = jobs[i].tier
    BY <2>5, <1>new
  <2>7. ASSUME NEW b \in Archives PROVE Ladder(b)'
    <3>1. CASE b # a
      BY <3>1, <2>4, <2>6, <1>type, SameLadder DEF Climbing
    <3>2. Ladder(a)'
      <4>1. \A i \in RowsOf(a) : i < n
        BY <2>5, <2>after
      <4>2. Ladder(a)
        BY DEF Climbing
      <4> QED
        BY <1>2, <1>type, <2>len, <2>row, <2>3, <2>6, <4>1, <4>2, LongerLadder
    <3> QED
      BY <3>1, <3>2
  <2>8. ASSUME NEW m \in Lanes PROVE Room(m)'
    <3> SUFFICES ASSUME lane'[m].at \in Counted PROVE Room(m)'
      BY DEF Room, RoomAt, Counted
    <3>1. Busy(m) /\ Busy(m)' /\ lane'[m] = lane[m] /\ Room(m)
      BY DEF Climbing, Counted, Busy
    <3>2. JobOf(m)' = JobOf(m) /\ JobOf(m).archive \in Archives /\ JobOf(m).archive # a
      BY <3>1, <1>type, <1>new, BusyLane DEF JobOf, JobRow
    <3>3. RowsOf(JobOf(m).archive)' = RowsOf(JobOf(m).archive)
      BY <3>2, <2>len, <2>row, <1>type, <1>new DEF RowsOf
    <3>4. TierRowsOf(JobOf(m).archive, JobOf(m).tier)'
            = TierRowsOf(JobOf(m).archive, JobOf(m).tier)
      BY <3>2, <3>3, <2>6 DEF TierRowsOf
    <3> QED
      BY <3>1, <3>3, <3>4 DEF Room, RoomAt
  <2> QED
    BY <2>1, <2>2, <2>7, <2>8 DEF Climbing
<1> QED
  BY <1>1, <1>2

\* A statement of a lane keeps every archive on its ladder.
LEMMA LaneClimbs ==
  ASSUME Climbing, Safe', NEW l \in Lanes, LaneStep(l) \/ StatementError(l) \/ Disconnect(l)
  PROVE  Climbing'
<1> DEFINE j == lane[l].job
           a == JobOf(l).archive
<1>type. /\ Safe /\ TypeOK /\ DOMAIN jobs = 1..Len(jobs) /\ jobs \in Seq(JobRow)
         /\ Len(jobs) \in Nat
  BY DEF Climbing, Safe, TypeOK
<1>effect. LaneEffect(l) /\ Busy(l) /\ submitting' = submitting
  BY <1>type, LaneStepShape DEF LaneEffect
<1>lanes. /\ \A m \in Lanes : m # l => lane'[m] = lane[m]
          /\ lane'[l].at = "idle" \/ lane'[l].job = lane[l].job
  BY <1>type, <1>effect, LaneKeepsJob
<1>own. /\ j \in 1..Len(jobs) /\ a \in Archives \ submitting /\ Held(j)
        /\ \A m \in Lanes : Busy(m) /\ JobOf(m).archive = a => m = l
  BY <1>type, <1>effect, LaneOwnsArchive
<1>old. \A k \in 1..Len(jobs) : jobs[k].archive \notin submitting'
  BY <1>type, <1>effect DEF Climbing, SubmittingEmpty
<1>1. CASE UNCHANGED jobs \/ SettlesJob(l)
  <2>1. KeepsRows
    <3>1. CASE UNCHANGED jobs
      BY <3>1 DEF KeepsRows
    <3>2. CASE SettlesJob(l)
      <4>1. PICK st \in {"complete", "failed", "retry"} : SetJob(lane[l].job, st)
        BY <3>2 DEF SettlesJob
      <4>2. st \in JobStatus
        BY DEF JobStatus
      <4> QED
        BY <4>1, <4>2, <1>own, <1>type, SetJobEffect DEF KeepsRows
    <3> QED
      BY <1>1, <3>1, <3>2
  <2>2. \A b \in Archives : archive'[b] = "deleted" <=> archive[b] = "deleted"
    BY <1>type, <1>effect DEF LaneEffect, FailsArchive, SetArchive, TypeOK, HasRow, ArchiveStatus
  <2>3. RoomAt(l, lane'[l].at)
    BY <1>type, LaneRoom DEF Climbing
  <2>4. \A m \in Lanes :
          \/ lane'[m] = lane[m]
          \/ lane'[m].at \notin Counted
          \/ Busy(m) /\ lane'[m].job = lane[m].job /\ RoomAt(m, lane'[m].at)
    BY <1>lanes, <1>effect, <2>3 DEF Counted
  <2> QED
    BY <1>old, <2>1, <2>2, <2>4, KeptClimbing
<1>2. ASSUME Finish(l), UNCHANGED archive, NEW t \in Tiers, NEW p \in Nat, Enqueue(a, t, p),
             \/ t = JobOf(l).tier /\ lane[l].at = "requeue"
             \/ t = JobOf(l).tier + 1
      PROVE  Climbing'
  <2>1. lane'[l].at = "idle"
    BY <1>2, <1>type, LaneAfter
  <2>2. submitting' = submitting \ {a}
    BY <1>own, <1>effect
  <2>3. \A m \in Lanes : lane'[m] = lane[m] \/ lane'[m].at = "idle"
    BY <1>lanes, <2>1
  <2>4. \A m \in Lanes : Busy(m)' => JobOf(m).archive # a
    BY <1>lanes, <1>own, <2>1 DEF Busy
  <2>5. ASSUME HasRow(a)
        PROVE  /\ j \in RowsOf(a)
               /\ \A i \in RowsOf(a) : i <= j
    <3>1. archive[a] # "deleted"
      BY <2>5 DEF HasRow, ArchiveStatus
    <3>2. j \in RowsOf(a)
      BY <3>1, <1>own, <1>type DEF RowsOf, Climbing, DeletedTogether, JobOf
    <3>3. \A k \in 1..Len(jobs) : k > j => jobs[k].archive # a
      BY <1>own, <1>type DEF Safe, OnlyNewestActive, JobOf
    <3>4. \A i \in RowsOf(a) : i <= j
      BY <3>3, <1>own, <1>type DEF RowsOf
    <3> QED
      BY <3>2, <3>4
  <2>6. lane[l].at = "requeue" =>
          /\ Cardinality(TierRowsOf(a, JobOf(l).tier)) < MaxAttempts
          /\ Cardinality(RowsOf(a)) < MaxTotalJobs
    BY DEF Climbing, Room, RoomAt, Counted
  <2>7. HasRow(a) =>
          \/ RowsOf(a) = {} /\ t = 1
          \/ \E i \in RowsOf(a) :
               /\ \A k \in RowsOf(a) : k <= i
               /\ \/ /\ t = jobs[i].tier
                     /\ Cardinality(TierRowsOf(a, t)) < MaxAttempts
                     /\ Cardinality(RowsOf(a)) < MaxTotalJobs
                  \/ t = jobs[i].tier + 1
    BY <1>2, <2>5, <2>6 DEF JobOf
  <2> HIDE DEF a
  <2> QED
    BY <1>2, <1>own, <2>2, <2>3, <2>4, <2>7, AppendClimbing
<1> QED
  BY <1>1, <1>2, <1>type, LaneEnqueues

\* Every step does.
LEMMA ClimbingStep ==
  ASSUME LocksTrusted, Climbing, [Next]_vars
  PROVE  Climbing'
<1>type. /\ Safe /\ Safe' /\ TypeOK /\ TypeOK' /\ Len(jobs) \in Nat
         /\ DOMAIN jobs = 1..Len(jobs) /\ DOMAIN jobs' = 1..Len(jobs')
  <2>1. Safe /\ Safe'
    BY SafeStep DEF Climbing
  <2> QED
    BY <2>1 DEF Safe, TypeOK
<1>old. \A k \in 1..Len(jobs) : jobs[k].archive \notin submitting
  BY <1>type DEF Climbing, SubmittingEmpty
<1>kept. ASSUME KeepsRows, lane' = lane, submitting' \subseteq submitting,
                \A a \in Archives : archive'[a] = "deleted" <=> archive[a] = "deleted"
         PROVE  Climbing'
  BY <1>kept, <1>type, <1>old, KeptClimbing
<1>same. jobs' = jobs => KeepsRows
  BY DEF KeepsRows
<1>1. ASSUME NEW a \in Archives, SubmitArchive(a) PROVE Climbing'
  <2>1. /\ archive[a] = "absent" /\ archive' = [archive EXCEPT ![a] = "pending"]
        /\ submitting' = submitting \cup {a} /\ UNCHANGED <<jobs, lane>>
    BY <1>1 DEF SubmitArchive
  <2>2. \A k \in 1..Len(jobs) : jobs[k].archive # a
    BY <2>1, <1>type DEF Safe, RowsHaveArchives
  <2>3. \A b \in Archives : archive'[b] = "deleted" <=> archive[b] = "deleted"
    BY <2>1, <1>type DEF TypeOK
  <2> QED
    BY <1>type, <1>same, <1>old, <2>1, <2>2, <2>3, KeptClimbing
<1>2. ASSUME NEW a \in Archives, SubmitJob(a) PROVE Climbing'
  <2>1. PICK p \in Priorities : Enqueue(a, 1, p)
    BY <1>2 DEF SubmitJob
  <2>2. p \in Nat /\ 1 \in Tiers
    BY LadderAssumption DEF Tiers
  <2>3. a \in submitting /\ submitting' = submitting \ {a} /\ UNCHANGED <<archive, lane>>
    BY <1>2 DEF SubmitJob
  <2>4. RowsOf(a) = {}
    BY <2>3, <1>type, <1>old DEF RowsOf
  <2>5. \A m \in Lanes : Busy(m)' => JobOf(m).archive # a
    BY <2>3, <1>type, LaneOwnsArchive DEF Busy
  <2> QED
    BY <1>type, <2>1, <2>2, <2>3, <2>4, <2>5, AppendClimbing
<1>3. ASSUME NEW a \in Archives, SubmitDies(a) \/ SoftDelete(a) \/ Restore(a)
      PROVE  Climbing'
  BY <1>3, <1>same, <1>kept DEF SubmitDies, SoftDelete, Restore
<1>4. ASSUME NEW a \in Archives, HardDelete(a) PROVE Climbing'
  <2>1. /\ Len(jobs') = Len(jobs)
        /\ \A k \in 1..Len(jobs) :
             /\ jobs'[k].archive = jobs[k].archive
             /\ jobs[k].archive # a => jobs'[k] = jobs[k]
             /\ jobs[k].archive = a => jobs'[k].status = "deleted"
    BY <1>4, <1>type, HardDeleteEffect
  <2>2. /\ archive' = [archive EXCEPT ![a] = "deleted"] /\ HasRow(a)
        /\ UNCHANGED <<submitting, lane>>
    BY <1>4 DEF HardDelete
  <2>3. DeletedTogether'
    <3> SUFFICES ASSUME NEW k \in 1..Len(jobs)
                 PROVE  jobs'[k].status = "deleted" <=> archive'[jobs[k].archive] = "deleted"
      BY <1>type, <2>1 DEF DeletedTogether
    <3>1. jobs[k] \in JobRow
      BY <1>type DEF TypeOK
    <3>2. jobs[k].archive \in Archives
      BY <3>1 DEF JobRow
    <3> QED
      BY <1>type, <2>1, <2>2, <3>2 DEF TypeOK, Climbing, DeletedTogether
  <2>4. SubmittingEmpty'
    BY <1>type, <1>old, <2>1, <2>2 DEF SubmittingEmpty
  <2>5. RowsOf(a)' = {}
    BY <1>type, <2>1 DEF RowsOf
  <2>6. ASSUME NEW b \in Archives, b # a
        PROVE  /\ RowsOf(b)' = RowsOf(b)
               /\ \A i \in RowsOf(b) : jobs'[i].tier = jobs[i].tier
    BY <1>type, <2>1, <2>6 DEF RowsOf
  <2>7. ASSUME NEW b \in Archives PROVE Ladder(b)'
    <3>1. CASE b = a
      BY <3>1, <2>5, EmptyLadder
    <3>2. CASE b # a
      BY <3>2, <1>type, <2>6, SameLadder DEF Climbing
    <3> QED
      BY <3>1, <3>2
  <2>8. ASSUME NEW m \in Lanes PROVE Room(m)'
    <3> SUFFICES ASSUME lane[m].at \in Counted PROVE Room(m)'
      BY <2>2 DEF Room, RoomAt, Counted
    <3>1. Busy(m) /\ Room(m)
      BY DEF Climbing, Busy, Counted
    <3>2. lane[m].job \in 1..Len(jobs) /\ JobOf(m).archive \in Archives
      BY <3>1, <1>type, BusyLane DEF JobRow
    <3>3. JobOf(m)'.archive = JobOf(m).archive
      BY <3>2, <2>1, <2>2 DEF JobOf
    <3>4. CASE JobOf(m).archive = a
      <4>1. /\ RowsOf(JobOf(m).archive)' = {}
            /\ TierRowsOf(JobOf(m).archive, JobOf(m).tier)' = {}
        BY <3>3, <3>4, <2>1, <1>type DEF RowsOf, TierRowsOf
      <4>2. Cardinality({}) = 0
        BY FS_EmptySet
      <4> QED
        BY <4>1, <4>2, LadderAssumption DEF Room, RoomAt
    <3>5. CASE JobOf(m).archive # a
      <4>1. JobOf(m)' = JobOf(m)
        BY <3>2, <3>5, <2>1, <2>2 DEF JobOf
      <4>2. RowsOf(JobOf(m).archive)' = RowsOf(JobOf(m).archive)
        BY <4>1, <3>5, <2>1, <1>type DEF RowsOf
      <4>3. TierRowsOf(JobOf(m).archive, JobOf(m).tier)'
              = TierRowsOf(JobOf(m).archive, JobOf(m).tier)
        <5>1. \A i \in RowsOf(JobOf(m).archive) : jobs'[i].tier = jobs[i].tier
          BY <3>2, <3>5, <2>6
        <5> QED
          BY <4>1, <4>2, <5>1 DEF TierRowsOf
      <4> QED
        BY <3>1, <4>2, <4>3, <2>2 DEF Room, RoomAt
    <3> QED
      BY <3>4, <3>5
  <2> QED
    BY <1>type, <2>3, <2>4, <2>7, <2>8 DEF Climbing
<1>5. ASSUME NEW l \in Lanes, Claim(l) PROVE Climbing'
  <2>1. PICK i \in Queued :
          SetJob(i, "running") /\ lane' = [lane EXCEPT ![l] = [at |-> "fetch", job |-> i]]
    BY <1>5 DEF Claim
  <2>2. i \in 1..Len(jobs) /\ "running" \in JobStatus
    BY <1>type DEF Queued, JobStatus
  <2>3. KeepsRows
    BY <2>1, <2>2, SetJobEffect, <1>type DEF TypeOK, KeepsRows
  <2>4. \A m \in Lanes : lane'[m] = lane[m] \/ lane'[m].at \notin Counted
    BY <2>1, <1>type DEF TypeOK, Counted
  <2>5. UNCHANGED <<archive, submitting>>
    BY <1>5 DEF Claim
  <2> QED
    BY <2>3, <2>4, <2>5, <1>type, <1>old, KeptClimbing
<1>6. ASSUME NEW l \in Lanes, LaneStep(l) \/ StatementError(l) \/ Disconnect(l)
      PROVE  Climbing'
  BY <1>6, <1>type, LaneClimbs
<1>7. ASSUME NEW w \in Workers, Start(w) PROVE Climbing'
  <2>1. KeepsRows
    BY <1>7, <1>type, StartEffect DEF KeepsRows
  <2> QED
    BY <1>7, <2>1, <1>kept DEF Start
<1>8. ASSUME NEW w \in Workers, Shutdown(w) \/ Drained(w) PROVE Climbing'
  BY <1>8, <1>same, <1>kept DEF Shutdown, Drained
<1>9. ASSUME NEW w \in Workers, Crash(w) PROVE Climbing'
  <2>1. /\ \A m \in Lanes : lane'[m] = lane[m] \/ lane'[m].at = "idle"
        /\ UNCHANGED <<archive, submitting, jobs>>
    BY <1>9 DEF Crash, Idle
  <2> QED
    BY <2>1, <1>same, <1>type, <1>old, KeptClimbing DEF Counted
<1>10. ASSUME NEW i \in DOMAIN jobs, LockAges(i) PROVE Climbing'
  <2>1. KeepsRows
    BY <1>10, <1>type, LockAgesEffect DEF KeepsRows
  <2> QED
    BY <1>10, <2>1, <1>kept DEF LockAges
<1>11. CASE UNCHANGED vars
  BY <1>11, <1>same, <1>kept DEF vars
<1> QED
  BY <1>1, <1>2, <1>3, <1>4, <1>5, <1>6, <1>7, <1>8, <1>9, <1>10, <1>11 DEF Next

\* The inductive invariant of JobRepository.fail and enqueue and their budget.
THEOREM ClimbingAlways ==
  ASSUME LocksTrusted PROVE Spec => []Climbing
<1>1. Init => Climbing
  <2> SUFFICES ASSUME Init PROVE Climbing
    OBVIOUS
  <2>1. /\ Safe /\ DOMAIN jobs = {} /\ \A l \in Lanes : lane[l].at = "idle"
        /\ \A a \in Archives : RowsOf(a) = {}
    BY SafeInit DEF Init, Idle, RowsOf
  <2>2. \A a \in Archives : Ladder(a)
    BY <2>1, EmptyLadder
  <2> QED
    BY <2>1, <2>2 DEF Climbing, DeletedTogether, SubmittingEmpty, Room, RoomAt, Counted
<1>2. Climbing /\ [Next]_vars => Climbing'
  BY ClimbingStep
<1> QED
  BY <1>1, <1>2, PTL DEF Spec

\* The jobs of an archive climb the ladder tier by tier, at most max_attempts at
\* each, whatever dies, drops, fails or is deleted meanwhile.
THEOREM LadderIsClimbed ==
  ASSUME LocksTrusted PROVE Spec => []LadderOrder
<1>1. Climbing => LadderOrder
  BY DEF Climbing, Ladder, ClimbsInOrder, TiersBounded, LadderOrder
<1> QED
  BY <1>1, ClimbingAlways, PTL

\* max_total_jobs bounds the jobs of an archive up to the escalations left above
\* the tier where the budget ran out.
THEOREM BudgetIsBounded ==
  ASSUME LocksTrusted PROVE Spec => []BudgetBounded
<1>1. Climbing => BudgetBounded
  BY BudgetOf DEF Climbing, Safe, BudgetBounded, RetryBudget
<1> QED
  BY <1>1, ClimbingAlways, PTL
=============================================================================
