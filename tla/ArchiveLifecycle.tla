-------------------------- MODULE ArchiveLifecycle --------------------------
(***************************************************************************)
(* What the archiver promises about one archive row, without jobs, tiers   *)
(* or workers: a submission is accepted, may start capturing, and settles  *)
(* exactly once, as complete or as failed.  Moderation hides and shows the *)
(* row without touching its status, and a hard delete ends its life.       *)
(***************************************************************************)

CONSTANT Archives          \* every archive id a submission may create

VARIABLES archive,         \* archives.status, or "absent"/"deleted" without a row
          removed          \* archives whose removed_at is set

vars == <<archive, removed>>

Unsettled == {"pending", "capturing"}
Settled   == {"complete", "failed"}
Rowless   == {"absent", "deleted"}

TypeOK ==
  /\ archive \in [Archives -> Unsettled \cup Settled \cup Rowless]
  /\ removed \in SUBSET Archives

Init ==
  /\ archive = [a \in Archives |-> "absent"]
  /\ removed = {}

Move(a, from, to) ==
  /\ archive[a] \in from
  /\ archive' = [archive EXCEPT ![a] = to]
  /\ UNCHANGED removed

Accept(a)  == Move(a, {"absent"}, "pending")
Begin(a)   == Move(a, {"pending"}, "capturing")
Succeed(a) == Move(a, {"capturing"}, "complete")
Fail(a)    == Move(a, Unsettled, "failed")

Hide(a) ==
  /\ archive[a] \notin Rowless
  /\ removed' = removed \cup {a}
  /\ UNCHANGED archive

Show(a) ==
  /\ archive[a] \notin Rowless
  /\ removed' = removed \ {a}
  /\ UNCHANGED archive

Delete(a) ==
  /\ archive[a] \notin Rowless
  /\ archive' = [archive EXCEPT ![a] = "deleted"]
  /\ removed' = removed \ {a}

Next ==
  \E a \in Archives :
    \/ Accept(a) \/ Begin(a) \/ Succeed(a) \/ Fail(a)
    \/ Hide(a) \/ Show(a) \/ Delete(a)

Spec == Init /\ [][Next]_vars
=============================================================================
