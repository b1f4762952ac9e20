---------------------------- MODULE CaptureQueue ----------------------------
(***************************************************************************)
(* The job queue in PostgreSQL and the worker processes that drain it      *)
(* (worker.py, JobRepository and ArchiveRepository of repository.py), with *)
(* the routes that submit, hide, restore and delete archives.              *)
(*                                                                         *)
(* Every SQL statement of the code commits by itself, so every statement   *)
(* is one step here, and a crash, a lost connection or another process can *)
(* come between any two.  A capture running in a worker is a lane: one of  *)
(* the worker's max_concurrent_captures places.                            *)
(***************************************************************************)
EXTENDS Naturals, Sequences, FiniteSets

CONSTANTS
  Archives,        \* archive ids that may be created
  Workers,         \* worker processes
  Places,          \* the max_concurrent_captures places of one worker
  NumTiers,        \* len(CLEARNET_TIER_ORDER)
  DirectTiers,     \* positions of _DIRECT_NAVIGATION_TIERS in that order
  MaxAttempts,     \* jobs.max_attempts
  MaxTotalJobs,    \* max_total_jobs in JobRepository.fail
  Priorities,      \* priorities a submission may carry
  Events           \* which environment events a run allows, see AllEvents

AllEvents ==
  { "crash",       \* a worker process dies
    "shutdown",    \* SIGTERM: stop claiming, drain, exit
    "disconnect",  \* a lane loses its database connection
    "dberror",     \* a statement of the try block fails, the connection lives
    "slow",        \* a live job may outlast the stale-lock threshold
    "unsafe",      \* the capture-time URL safety check may reject
    "moderate",    \* soft delete, restore and hard delete
    "webcrash" }   \* the web process dies between its two INSERTs

Tiers == 1..NumTiers

ASSUME LadderAssumption ==
  /\ NumTiers \in Nat \ {0}
  /\ DirectTiers \subseteq Tiers
  /\ MaxAttempts \in Nat \ {0}
  /\ MaxTotalJobs \in Nat \ {0}
  /\ Priorities \subseteq Nat
  /\ Events \subseteq AllEvents

VARIABLES
  archive,      \* archives.status of each id, or "absent"/"deleted"
  removed,      \* archives whose removed_at is set
  submitting,   \* archives whose submission still has to enqueue its first job
  jobs,         \* every row the jobs table ever held, in order of created_at
  worker,       \* state of each worker process
  lane          \* the capture each place of each worker is running

vars == <<archive, removed, submitting, jobs, worker, lane>>

-----------------------------------------------------------------------------
(* Rows, lanes and the type invariant *)

Lanes == Workers \X Places

ArchiveStatus == {"pending", "capturing", "complete", "failed"}
JobStatus     == {"queued", "running", "complete", "failed", "retry"}

JobRow == [ archive  : Archives,
            tier     : Tiers,
            priority : Nat,
            status   : JobStatus \cup {"deleted"},
            overdue  : BOOLEAN ]     \* locked_at is older than stale_seconds

\* The statements of _process_job_inner's try block, by what they do ...
TrySteps ==
  { "fetch", "gone", "skip", "unsafe", "reject", "mark", "capture", "save",
    "settle", "observe" }
\* ... and those of its exception handlers and of JobRepository.fail.
HandlerSteps ==
  { "count", "retry", "budget", "requeue", "abandon", "giveup", "escalate" }

Idle == [at |-> "idle", job |-> 0]

TypeOK ==
  /\ archive \in [Archives -> ArchiveStatus \cup {"absent", "deleted"}]
  /\ removed \in SUBSET Archives
  /\ submitting \in SUBSET Archives
  /\ jobs \in Seq(JobRow)
  /\ worker \in [Workers -> {"down", "up", "draining"}]
  /\ lane \in [Lanes -> [at : TrySteps \cup HandlerSteps, job : 1..Len(jobs)]
                        \cup {Idle}]

Busy(l)    == lane[l].at # "idle"
JobOf(l)   == jobs[lane[l].job]
Held(i)    == \E l \in Lanes : Busy(l) /\ lane[l].job = i
Live(i)    == jobs[i].status \in {"queued", "running"}
HasRow(a)  == archive[a] \in ArchiveStatus
Visible(a) == HasRow(a) /\ a \notin removed

\* SELECT count(*) FROM jobs WHERE archive_id = a [AND tier = t]
RowsOf(a)        == {i \in DOMAIN jobs : jobs[i].archive = a /\ jobs[i].status # "deleted"}
TierRowsOf(a, t) == {i \in RowsOf(a) : jobs[i].tier = t}

Init ==
  /\ archive = [a \in Archives |-> "absent"]
  /\ removed = {}
  /\ submitting = {}
  /\ jobs = << >>
  /\ worker = [w \in Workers |-> "down"]
  /\ lane = [l \in Lanes |-> Idle]

-----------------------------------------------------------------------------
(* Single statements *)

\* UPDATE archives SET status: no effect once the row is gone.
SetArchive(a, status) ==
  archive' = IF HasRow(a) THEN [archive EXCEPT ![a] = status] ELSE archive

\* UPDATE jobs SET status ... WHERE id: no effect once the row is gone.
SetJob(i, status) ==
  jobs' = IF jobs[i].status = "deleted" THEN jobs
          ELSE [jobs EXCEPT ![i] = [@ EXCEPT !.status = status, !.overdue = FALSE]]

\* INSERT INTO jobs: the foreign key refuses a job for an archive without a
\* row, and the exception ends the caller.
Enqueue(a, t, p) ==
  jobs' = IF HasRow(a)
          THEN Append(jobs, [archive |-> a, tier |-> t, priority |-> p,
                             status |-> "queued", overdue |-> FALSE])
          ELSE jobs

GoTo(l, step) == lane' = [lane EXCEPT ![l] = [@ EXCEPT !.at = step]]
Finish(l)     == lane' = [lane EXCEPT ![l] = Idle]

At(l, step) == lane[l].at = step
-----------------------------------------------------------------------------
(* Submitting: ArchiveRepository.create, then JobRepository.enqueue *)

SubmitArchive(a) ==
  /\ archive[a] = "absent"
  /\ archive' = [archive EXCEPT ![a] = "pending"]
  /\ submitting' = submitting \cup {a}
  /\ UNCHANGED <<removed, jobs, worker, lane>>

SubmitJob(a) ==
  /\ a \in submitting
  /\ \E p \in Priorities : Enqueue(a, 1, p)
  /\ submitting' = submitting \ {a}
  /\ UNCHANGED <<archive, removed, worker, lane>>

SubmitDies(a) ==
  /\ "webcrash" \in Events
  /\ a \in submitting
  /\ submitting' = submitting \ {a}
  /\ UNCHANGED <<archive, removed, jobs, worker, lane>>

-----------------------------------------------------------------------------
(* Claiming: one job per turn of the worker's loop, into a free place *)

\* ORDER BY priority DESC, created_at
ClaimedBefore(i, k) ==
  \/ jobs[i].priority > jobs[k].priority
  \/ jobs[i].priority = jobs[k].priority /\ i <= k

\* Mutant: the claim does not leave running jobs alone.
QueuedOrRunning == {i \in DOMAIN jobs : jobs[i].status \in {"queued", "running"}}

Queued == {i \in DOMAIN jobs : jobs[i].status = "queued"}

Claim(l) ==
  /\ worker[l[1]] = "up"
  /\ ~Busy(l)
  /\ \E i \in Queued :
       /\ \A k \in Queued : ClaimedBefore(i, k)
       /\ SetJob(i, "running")
       /\ lane' = [lane EXCEPT ![l] = [at |-> "fetch", job |-> i]]
  /\ UNCHANGED <<archive, removed, submitting, worker>>

-----------------------------------------------------------------------------
(* _process_job_inner, one statement at a time *)

\* Mutant: no early exit for an archive another job already completed.
FetchWithoutSkip(l) ==
  /\ At(l, "fetch")
  /\ GoTo(l, IF Visible(JobOf(l).archive) THEN "mark" ELSE "gone")
  /\ UNCHANGED <<archive, removed, submitting, jobs, worker>>

\* get_by_id hides soft-deleted rows; a COMPLETE archive is skipped; tiers that
\* navigate to the URL re-check its safety first.
Fetch(l) ==
  /\ At(l, "fetch")
  /\ LET a == JobOf(l).archive IN
     \/ ~Visible(a) /\ GoTo(l, "gone")
     \/ Visible(a) /\ archive[a] = "complete" /\ GoTo(l, "skip")
     \/ Visible(a) /\ archive[a] # "complete" /\ GoTo(l, "mark")
     \/ /\ Visible(a) /\ archive[a] # "complete"
        /\ "unsafe" \in Events
        /\ JobOf(l).tier \in DirectTiers
        /\ GoTo(l, "unsafe")
  /\ UNCHANGED <<archive, removed, submitting, jobs, worker>>

Gone(l) ==
  /\ At(l, "gone")
  /\ SetJob(lane[l].job, "failed")
  /\ Finish(l)
  /\ UNCHANGED <<archive, removed, submitting, worker>>

Skip(l) ==
  /\ At(l, "skip")
  /\ SetJob(lane[l].job, "complete")
  /\ Finish(l)
  /\ UNCHANGED <<archive, removed, submitting, worker>>

Unsafe(l) ==
  /\ At(l, "unsafe")
  /\ SetJob(lane[l].job, "failed")
  /\ GoTo(l, "reject")
  /\ UNCHANGED <<archive, removed, submitting, worker>>

Reject(l) ==
  /\ At(l, "reject")
  /\ SetArchive(JobOf(l).archive, "failed")
  /\ Finish(l)
  /\ UNCHANGED <<removed, submitting, jobs, worker>>

Mark(l) ==
  /\ At(l, "mark")
  /\ SetArchive(JobOf(l).archive, "capturing")
  /\ GoTo(l, "capture")
  /\ UNCHANGED <<removed, submitting, jobs, worker>>

\* wait_for(_dispatch(), max_capture_timeout) and save_artifacts: a snapshot,
\* AntiBotDetectedError, or any other exception, a timeout included.
Capture(l) ==
  /\ At(l, "capture")
  /\ \E step \in {"save", "giveup", "count"} : GoTo(l, step)
  /\ UNCHANGED <<archive, removed, submitting, jobs, worker>>

Save(l) ==
  /\ At(l, "save")
  /\ SetArchive(JobOf(l).archive, "complete")
  /\ GoTo(l, "settle")
  /\ UNCHANGED <<removed, submitting, jobs, worker>>

Settle(l) ==
  /\ At(l, "settle")
  /\ SetJob(lane[l].job, "complete")
  /\ GoTo(l, "observe")
  /\ UNCHANGED <<archive, removed, submitting, worker>>

Observe(l) ==
  /\ At(l, "observe")
  /\ Finish(l)
  /\ UNCHANGED <<archive, removed, submitting, jobs, worker>>

\* Any other exception inside the try block, record_outcome's included, is
\* handled as a capture error.
StatementError(l) ==
  /\ "dberror" \in Events
  /\ lane[l].at \in TrySteps
  /\ GoTo(l, "count")
  /\ UNCHANGED <<archive, removed, submitting, jobs, worker>>

-----------------------------------------------------------------------------
(* _handle_capture_error, _handle_antibot and JobRepository.fail *)

\* Mutant: off by one, the max_attempts-th failure is retried as well.
CountAttemptsLate(l) ==
  /\ At(l, "count")
  /\ GoTo(l, IF Cardinality(TierRowsOf(JobOf(l).archive, JobOf(l).tier)) <= MaxAttempts
             THEN "retry" ELSE "giveup")
  /\ UNCHANGED <<archive, removed, submitting, jobs, worker>>

CountAttempts(l) ==
  /\ At(l, "count")
  /\ GoTo(l, IF Cardinality(TierRowsOf(JobOf(l).archive, JobOf(l).tier)) < MaxAttempts
             THEN "retry" ELSE "giveup")
  /\ UNCHANGED <<archive, removed, submitting, jobs, worker>>

Retry(l) ==
  /\ At(l, "retry")
  /\ SetJob(lane[l].job, "retry")
  /\ IF JobOf(l).status = "deleted" THEN Finish(l) ELSE GoTo(l, "budget")
  /\ UNCHANGED <<archive, removed, submitting, worker>>

\* Mutant: off by one in the retry budget.
CountTotalLate(l) ==
  /\ At(l, "budget")
  /\ GoTo(l, IF Cardinality(RowsOf(JobOf(l).archive)) <= MaxTotalJobs
             THEN "requeue" ELSE "abandon")
  /\ UNCHANGED <<archive, removed, submitting, jobs, worker>>

CountTotal(l) ==
  /\ At(l, "budget")
  /\ GoTo(l, IF Cardinality(RowsOf(JobOf(l).archive)) < MaxTotalJobs
             THEN "requeue" ELSE "abandon")
  /\ UNCHANGED <<archive, removed, submitting, jobs, worker>>

Requeue(l) ==
  /\ At(l, "requeue")
  /\ Enqueue(JobOf(l).archive, JobOf(l).tier, JobOf(l).priority)
  /\ Finish(l)
  /\ UNCHANGED <<archive, removed, submitting, worker>>

\* Mutant: the budget is spent and nobody tells the archive.
AbandonSilently(l) ==
  /\ At(l, "abandon")
  /\ Finish(l)
  /\ UNCHANGED <<archive, removed, submitting, jobs, worker>>

\* The one archive update that checks the status it overwrites.
Abandon(l) ==
  /\ At(l, "abandon")
  /\ LET a == JobOf(l).archive IN
     IF archive[a] \in {"complete", "failed"} THEN UNCHANGED archive
     ELSE SetArchive(a, "failed")
  /\ Finish(l)
  /\ UNCHANGED <<removed, submitting, jobs, worker>>

\* Mutant: the job fails and its escalation is dropped.
GiveUpQuietly(l) ==
  /\ At(l, "giveup")
  /\ SetJob(lane[l].job, "failed")
  /\ Finish(l)
  /\ UNCHANGED <<archive, removed, submitting, worker>>

GiveUp(l) ==
  /\ At(l, "giveup")
  /\ SetJob(lane[l].job, "failed")
  /\ GoTo(l, "escalate")
  /\ UNCHANGED <<archive, removed, submitting, worker>>

\* Mutant: next_tier runs one past the end of the ladder.
EscalatePastEnd(l) ==
  /\ At(l, "escalate")
  /\ Enqueue(JobOf(l).archive, JobOf(l).tier + 1, JobOf(l).priority + 1)
  /\ Finish(l)
  /\ UNCHANGED <<archive, removed, submitting, worker>>

\* Mutant: the archive is failed at every escalation, not only at the last.
EscalateAndFail(l) ==
  /\ At(l, "escalate")
  /\ JobOf(l).tier < NumTiers
  /\ Enqueue(JobOf(l).archive, JobOf(l).tier + 1, JobOf(l).priority + 1)
  /\ SetArchive(JobOf(l).archive, "failed")
  /\ Finish(l)
  /\ UNCHANGED <<removed, submitting, worker>>

\* next_tier, then enqueue there or fail the archive.
Escalate(l) ==
  /\ At(l, "escalate")
  /\ LET a == JobOf(l).archive
         t == JobOf(l).tier
     IN \/ /\ t < NumTiers
           /\ Enqueue(a, t + 1, JobOf(l).priority + 1)
           /\ UNCHANGED archive
        \/ /\ t = NumTiers
           /\ SetArchive(a, "failed")
           /\ UNCHANGED jobs
  /\ Finish(l)
  /\ UNCHANGED <<removed, submitting, worker>>

\* The connection drops: the handlers' statements fail with it and the task
\* ends with the job still marked running.
Disconnect(l) ==
  /\ "disconnect" \in Events
  /\ Busy(l)
  /\ Finish(l)
  /\ UNCHANGED <<archive, removed, submitting, jobs, worker>>
LaneStep(l) ==
  \/ Fetch(l) \/ Gone(l) \/ Skip(l) \/ Unsafe(l) \/ Reject(l) \/ Mark(l)
  \/ Capture(l) \/ Save(l) \/ Settle(l) \/ Observe(l)
  \/ CountAttempts(l) \/ Retry(l) \/ CountTotal(l) \/ Requeue(l) \/ Abandon(l)
  \/ GiveUp(l) \/ Escalate(l)

-----------------------------------------------------------------------------
(* Worker processes *)

\* Mutant: the reclaim takes every running job, whatever the age of its lock.
StartReclaimingAll(w) ==
  /\ worker[w] = "down"
  /\ worker' = [worker EXCEPT ![w] = "up"]
  /\ jobs' = [i \in DOMAIN jobs |->
                IF jobs[i].status = "running"
                THEN [jobs[i] EXCEPT !.status = "queued", !.overdue = FALSE]
                ELSE jobs[i]]
  /\ UNCHANGED <<archive, removed, submitting, lane>>

\* run(): reclaim_stale comes before the first claim, and nowhere else.
Start(w) ==
  /\ worker[w] = "down"
  /\ worker' = [worker EXCEPT ![w] = "up"]
  /\ jobs' = [i \in DOMAIN jobs |->
                IF jobs[i].status = "running" /\ jobs[i].overdue
                THEN [jobs[i] EXCEPT !.status = "queued", !.overdue = FALSE]
                ELSE jobs[i]]
  /\ UNCHANGED <<archive, removed, submitting, lane>>

\* shutdown() clears _running: the loop stops claiming and run() drains.
Shutdown(w) ==
  /\ "shutdown" \in Events
  /\ worker[w] = "up"
  /\ worker' = [worker EXCEPT ![w] = "draining"]
  /\ UNCHANGED <<archive, removed, submitting, jobs, lane>>

\* Mutant: the worker exits without waiting for its captures.
DrainedAtOnce(w) ==
  /\ worker[w] = "draining"
  /\ worker' = [worker EXCEPT ![w] = "down"]
  /\ lane' = [l \in Lanes |-> IF l[1] = w THEN Idle ELSE lane[l]]
  /\ UNCHANGED <<archive, removed, submitting, jobs>>

Drained(w) ==
  /\ worker[w] = "draining"
  /\ \A p \in Places : ~Busy(<<w, p>>)
  /\ worker' = [worker EXCEPT ![w] = "down"]
  /\ UNCHANGED <<archive, removed, submitting, jobs, lane>>

\* A kill, an out-of-memory exit, or a drain that outlives its timeout.
Crash(w) ==
  /\ "crash" \in Events
  /\ worker[w] # "down"
  /\ worker' = [worker EXCEPT ![w] = "down"]
  /\ lane' = [l \in Lanes |-> IF l[1] = w THEN Idle ELSE lane[l]]
  /\ UNCHANGED <<archive, removed, submitting, jobs>>

\* locked_at passes the threshold; nothing refreshes it while a job runs.
LockAges(i) ==
  /\ jobs[i].status = "running" /\ ~jobs[i].overdue
  /\ "slow" \in Events \/ ~Held(i)
  /\ jobs' = [jobs EXCEPT ![i] = [@ EXCEPT !.overdue = TRUE]]
  /\ UNCHANGED <<archive, removed, submitting, worker, lane>>

-----------------------------------------------------------------------------
(* Moderation of the row by the admin and API routes *)

SoftDelete(a) ==
  /\ "moderate" \in Events
  /\ Visible(a)
  /\ removed' = removed \cup {a}
  /\ UNCHANGED <<archive, submitting, jobs, worker, lane>>

Restore(a) ==
  /\ "moderate" \in Events
  /\ a \in removed
  /\ removed' = removed \ {a}
  /\ UNCHANGED <<archive, submitting, jobs, worker, lane>>

\* DELETE FROM archives; the jobs go with it (ON DELETE CASCADE).
HardDelete(a) ==
  /\ "moderate" \in Events
  /\ HasRow(a)
  /\ archive' = [archive EXCEPT ![a] = "deleted"]
  /\ removed' = removed \ {a}
  /\ jobs' = [i \in DOMAIN jobs |->
                IF jobs[i].archive = a
                THEN [jobs[i] EXCEPT !.status = "deleted", !.overdue = FALSE]
                ELSE jobs[i]]
  /\ UNCHANGED <<submitting, worker, lane>>

-----------------------------------------------------------------------------
(* The specification *)

Next ==
  \/ \E a \in Archives :
       \/ SubmitArchive(a) \/ SubmitJob(a) \/ SubmitDies(a)
       \/ SoftDelete(a) \/ Restore(a) \/ HardDelete(a)
  \/ \E l \in Lanes : Claim(l) \/ LaneStep(l) \/ StatementError(l) \/ Disconnect(l)
  \/ \E w \in Workers : Start(w) \/ Shutdown(w) \/ Drained(w) \/ Crash(w)
  \/ \E i \in DOMAIN jobs : LockAges(i)

Spec == Init /\ [][Next]_vars

(* A capture is bounded by wait_for and a statement returns; the web process *)
(* runs a request to its end, the container restarts a worker that stopped,  *)
(* and time passes.  A worker polls at once after its start: one that is     *)
(* stopped and started over and over still claims, so Claim is strongly fair.*)
Fairness ==
  /\ \A a \in Archives : WF_vars(SubmitJob(a))
  /\ \A w \in Workers : /\ SF_vars(\E p \in Places : Claim(<<w, p>>))
                         /\ WF_vars(Start(w)) /\ WF_vars(Drained(w))
  /\ \A l \in Lanes : WF_vars(LaneStep(l))
  /\ WF_vars(\E i \in DOMAIN jobs : LockAges(i))

FairSpec == Spec /\ Fairness

-----------------------------------------------------------------------------
(* Properties *)

\* Only the newest job of an archive is ever live or held by a capture, and
\* none is before the submission's first one: retries, escalations, restarts
\* and reclaims never leave an archive with two jobs to race each other.
OnlyNewestActive ==
  \A i \in DOMAIN jobs :
    Live(i) \/ Held(i) =>
      /\ jobs[i].archive \notin submitting
      /\ \A k \in DOMAIN jobs : k > i => jobs[k].archive # jobs[i].archive

\* No two captures ever work on the same job, across workers, crashes and
\* reclaims (specs/worker.md, "no double-claim").
NoDoubleClaim ==
  \A l, m \in Lanes : Busy(l) /\ Busy(m) /\ lane[l].job = lane[m].job => l = m

\* The jobs of an archive climb the tier ladder: a later job is at the tier of
\* the one before it or at the next, and no tier gets more than max_attempts.
LadderOrder ==
  /\ \A a \in Archives : \A i, k \in RowsOf(a) :
       i < k => /\ jobs[i].tier <= jobs[k].tier
                /\ jobs[k].tier > jobs[i].tier =>
                     \E j \in RowsOf(a) : j < k /\ jobs[j].tier = jobs[k].tier - 1
  /\ \A a \in Archives, t \in Tiers : Cardinality(TierRowsOf(a, t)) <= MaxAttempts

\* The retry budget of JobRepository.fail: past max_total_jobs an archive only
\* gets the escalations that are left above the tier where the budget ran out,
\* which max_attempts puts no lower than tier ceil(max_total_jobs/max_attempts).
BudgetBounded ==
  \A a \in Archives :
    Cardinality(RowsOf(a))
      <= MaxTotalJobs + NumTiers - 1 - ((MaxTotalJobs - 1) \div MaxAttempts)

\* Once failed is shown, nothing works on the archive any more, whatever the
\* order of the statements that failed it.
FailedIsQuiet ==
  \A i \in DOMAIN jobs : archive[jobs[i].archive] = "failed" => ~Live(i) /\ ~Held(i)

\* An archive that has not settled has somebody left to settle it: the
\* submitting request, a live job, or a capture past its job's last update.
NobodyStranded ==
  \A a \in Archives :
    archive[a] \in {"pending", "capturing"} =>
      \/ a \in submitting
      \/ \E i \in RowsOf(a) : Live(i) \/ Held(i)

\* Every running job has a capture that runs it, through drains and restarts.
RunningIsHeld == \A i \in DOMAIN jobs : jobs[i].status = "running" => Held(i)

\* A snapshot that was saved is never taken back by a later job or handler.
CompleteIsFinal ==
  [][\A a \in Archives :
       archive[a] = "complete" => archive'[a] \in {"complete", "deleted"}]_archive

\* Every accepted submission settles.
EverySubmissionSettles ==
  \A a \in Archives :
    archive[a] = "pending" ~> archive[a] \in {"complete", "failed"}

\* The archive rows, seen alone, behave as ArchiveLifecycle promises.
Lifecycle == INSTANCE ArchiveLifecycle WITH
  Archives <- Archives, archive <- archive, removed <- removed
LifecycleSpec == Lifecycle!Spec
=============================================================================
