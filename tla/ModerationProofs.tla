-------------------------- MODULE ModerationProofs --------------------------
(***************************************************************************)
(* What is proved about Moderation, for any number of archives, reporters, *)
(* requests in flight and saves.                                           *)
(***************************************************************************)
EXTENDS Moderation, TLAPS

-----------------------------------------------------------------------------
(* Type correctness *)

LEMMA TypeInit == Init => TypeOK
<1>1. NoRequest \in RequestRecord
  BY DEF NoRequest, RequestRecord, VerdictSteps
<1> QED
  BY <1>1 DEF Init, TypeOK, Row!Init, Row!TypeOK, Row!Unsettled, Row!Settled, Row!Rowless,
              NoCapture

LEMMA CaptureTypes ==
  ASSUME TypeOK, NEW a \in Archives,
         Submit(a) \/ Begin(a) \/ StartSave(a) \/ FinishSave(a) \/ Commit(a) \/ StopCapture(a)
  PROVE  TypeOK'
<1> USE DEF TypeOK, Row!TypeOK, Row!Unsettled, Row!Settled, Row!Rowless, NoCapture,
            rows, files, pages, HasRow
<1>1. CASE Submit(a)
  BY <1>1 DEF Submit, Row!Accept, Row!Move
<1>2. CASE Begin(a)
  BY <1>2 DEF Begin
<1>3. CASE StartSave(a)
  BY <1>3 DEF StartSave, Saves
<1>4. CASE FinishSave(a)
  <2>1. capture[a].save \in Saves
    BY <1>4 DEF FinishSave
  <2> QED
    BY <1>4, <2>1 DEF FinishSave
<1>5. CASE Commit(a)
  BY <1>5 DEF Commit
<1>6. CASE StopCapture(a)
  BY <1>6 DEF StopCapture
<1> QED
  BY <1>1, <1>2, <1>3, <1>4, <1>5, <1>6

LEMMA ReportTypes ==
  ASSUME TypeOK, NEW ar \in Archives \X Reporters,
         OpenReport(ar) \/ FileReport(ar)
  PROVE  TypeOK'
<1> USE DEF TypeOK, Row!TypeOK, rows, files
<1>1. CASE OpenReport(ar)
  BY <1>1 DEF OpenReport
<1>2. CASE FileReport(ar)
  BY <1>2 DEF FileReport
<1> QED
  BY <1>1, <1>2

LEMMA DoneType ==
  ASSUME TypeOK, NEW q \in Requests, Done(q)
  PROVE  request' \in [Requests -> RequestRecord]
<1>1. NoRequest \in RequestRecord
  BY DEF NoRequest, RequestRecord, VerdictSteps
<1> QED
  BY <1>1 DEF TypeOK, Done

LEMMA GoType ==
  ASSUME TypeOK, NEW q \in Requests, NEW step, Go(q, step),
         \/ request[q].at \in VerdictSteps /\ step \in VerdictSteps
         \/ request[q].at \in RemovalSteps /\ step \in RemovalSteps
         \/ request[q].at \in DeleteSteps /\ step \in DeleteSteps
  PROVE  request' \in [Requests -> RequestRecord]
<1> DEFINE v == [request[q] EXCEPT !.at = step]
<1>1. request[q] \in RequestRecord
  BY DEF TypeOK
<1>2. v \in RequestRecord
  BY <1>1 DEF RequestRecord, VerdictSteps, RemovalSteps, DeleteSteps
<1> QED
  BY <1>2 DEF TypeOK, Go

LEMMA OpenTypes ==
  ASSUME TypeOK, NEW q \in Requests,
         OpenVerdict(q) \/ Remove(q) \/ Restore(q) \/ OpenDelete(q)
  PROVE  request' \in [Requests -> RequestRecord]
<1> DEFINE Verdict(step, ar) ==
      [NoRequest EXCEPT !.at = step, !.archive = ar[1], !.reporter = ar[2]]
    Removal(step, a) == [NoRequest EXCEPT !.at = step, !.archive = a]
    Deletion(a, c) ==
      [NoRequest EXCEPT !.at = "rmtree", !.archive = a, !.save = folder[a], !.console = c]
<1>1. CASE OpenVerdict(q)
  <2>1. PICK ar \in Archives \X Reporters, step \in {"takedown", "dismiss"} :
          request' = [request EXCEPT ![q] = Verdict(step, ar)]
    BY <1>1 DEF OpenVerdict
  <2>2. Verdict(step, ar) \in RequestRecord
    BY <2>1 DEF NoRequest, RequestRecord, VerdictSteps
  <2> QED
    BY <2>1, <2>2 DEF TypeOK
<1>2. CASE Remove(q) \/ Restore(q)
  <2>1. PICK a \in Archives, step \in RemovalSteps :
          request' = [request EXCEPT ![q] = Removal(step, a)]
    BY <1>2 DEF Remove, Restore, RemovalSteps
  <2>2. Removal(step, a) \in RequestRecord
    BY <2>1 DEF NoRequest, RequestRecord, RemovalSteps, VerdictSteps
  <2> QED
    BY <2>1, <2>2 DEF TypeOK
<1>3. CASE OpenDelete(q)
  <2>1. PICK a \in Archives, c \in BOOLEAN :
          request' = [request EXCEPT ![q] = Deletion(a, c)]
    BY <1>3 DEF OpenDelete
  <2>2. Deletion(a, c) \in RequestRecord
    BY <2>1 DEF TypeOK, NoRequest, RequestRecord, DeleteSteps, VerdictSteps
  <2> QED
    BY <2>1, <2>2 DEF TypeOK
<1> QED
  BY <1>1, <1>2, <1>3

\* The entry a request logs, for each place where it does.
Logs(q) ==
  \/ Log(q, "logdismissed", "dismissed", "idle")
  \/ Log(q, "logtakedown", "soft_delete", "logresolved")
  \/ Log(q, "logresolved", "resolved", "idle")
  \/ Log(q, "logremoved", "soft_delete", "idle")
  \/ Log(q, "logrestored", "restore", "idle")

LEMMA RequestTypes ==
  ASSUME TypeOK, NEW q \in Requests, RequestStep(q)
  PROVE  TypeOK'
<1> USE DEF rows, files, SoftDelete, Unremove, SetReport, At
<1>r. request' \in [Requests -> RequestRecord] => TypeOK'
  <2>1. \/ OpenVerdict(q) \/ OpenDelete(q)
        \/ Remove(q) \/ Restore(q) \/ TakeDown(q)
        \/ Dismiss(q) \/ Settle(q) \/ Rmtree(q) \/ DeleteRow(q)
        \/ LogDeleted(q) \/ Logs(q) \/ Die(q)
    BY DEF RequestStep, Logs
  <2>r. request[q] \in RequestRecord
    BY DEF TypeOK
  <2>t. ~At(q, "idle") => request[q].archive \in Archives
    BY <2>r DEF RequestRecord
  <2> USE DEF TypeOK, Row!TypeOK
  <2>2. CASE OpenVerdict(q) \/ OpenDelete(q)
    BY <2>2 DEF OpenVerdict, OpenDelete
  <2>3. CASE Remove(q) \/ Restore(q) \/ TakeDown(q)
    BY <2>3, <2>t DEF Remove, Restore, TakeDown
  <2>4. CASE Dismiss(q) \/ Settle(q)
    BY <2>4 DEF Dismiss, Settle
  <2>5. CASE Rmtree(q)
    <3> DEFINE a == request[q].archive
               n == request[q].save
    <3>1. a \in Archives /\ n \in {0} \cup Saves
      BY <2>5, <2>r, <2>t DEF Rmtree, RequestRecord
    <3>2. \/ UNCHANGED disk
          \/ n # 0 /\ \E left \in {"gone", "partial"} : disk' = [disk EXCEPT ![a][n] = left]
      BY <2>5 DEF Rmtree
    <3>3. disk' \in [Archives -> [Saves -> {"unused", "partial", "full", "gone"}]]
      <4>1. disk \in [Archives -> [Saves -> {"unused", "partial", "full", "gone"}]]
        OBVIOUS
      <4>2. ASSUME NEW left \in {"gone", "partial"}, n \in Saves
            PROVE  [disk EXCEPT ![a][n] = left]
                     \in [Archives -> [Saves -> {"unused", "partial", "full", "gone"}]]
        BY <3>1, <4>1, <4>2
      <4>3. CASE UNCHANGED disk
        BY <4>1, <4>3
      <4>4. ASSUME n # 0, NEW left \in {"gone", "partial"}, disk' = [disk EXCEPT ![a][n] = left]
            PROVE  disk' \in [Archives -> [Saves -> {"unused", "partial", "full", "gone"}]]
        <5>1. n \in Saves
          BY <3>1, <4>4
        <5> QED
          BY <4>2, <4>4, <5>1
      <4> QED
        BY <3>2, <4>3, <4>4
    <3>4. UNCHANGED <<rows, capture, reports, reporting, audit, cut>>
      BY <2>5 DEF Rmtree
    <3> QED
      BY <3>3, <3>4
  <2>6. CASE DeleteRow(q)
    <3>1. CASE ~HasRow(request[q].archive)
      BY <2>6, <3>1 DEF DeleteRow
    <3>2. CASE HasRow(request[q].archive)
      <4>1. audit' \in SUBSET (AuditAction \X (Archives \cup {"null"}))
        BY <2>6, <3>2 DEF DeleteRow
      <4>2. Row!TypeOK'
        BY <2>6, <3>2, <2>t DEF DeleteRow, Row!Delete, Row!Rowless
      <4> DEFINE a == request[q].archive
      <4>6. /\ folder' = [folder EXCEPT ![a] = 0]
            /\ reports' = [ar \in DOMAIN reports |-> IF ar[1] = a THEN "none" ELSE reports[ar]]
        BY <2>6, <3>2, Zenon DEF DeleteRow
      <4>7. /\ folder \in [Archives -> {0} \cup Saves]
            /\ reports \in [Archives \X Reporters -> {"none", "pending", "resolved", "dismissed"}]
        BY DEF TypeOK
      <4> HIDE DEF a, TypeOK
      <4>3. folder' \in [Archives -> {0} \cup Saves]
        BY <4>6, <4>7
      <4>4. reports' \in [Archives \X Reporters -> {"none", "pending", "resolved", "dismissed"}]
        BY <4>6, <4>7
      <4> USE DEF TypeOK
      <4>5. UNCHANGED <<disk, capture, reporting, cut>>
        BY <2>6 DEF DeleteRow
      <4> QED
        BY <4>1, <4>2, <4>3, <4>4, <4>5
    <3> QED
      BY <3>1, <3>2
  <2>7. CASE LogDeleted(q)
    BY <2>7, <2>t DEF LogDeleted, AuditAction
  <2>8. CASE Logs(q)
    BY <2>8, <2>t DEF Logs, Log, AuditAction
  <2>9. CASE Die(q)
    <3>1. request[q].save \in {0} \cup Saves
      BY <2>r DEF RequestRecord
    <3>2. disk' \in [Archives -> [Saves -> {"unused", "partial", "full", "gone"}]]
      <4> DEFINE a == request[q].archive
                 n == request[q].save
      <4>1. CASE UNCHANGED disk
        BY <4>1
      <4>2. CASE n \in Saves /\ disk' = [disk EXCEPT ![a][n] = "partial"]
        <5>1. a \in Archives
          BY <2>9, <2>t DEF Die
        <5> QED
          BY <4>2, <5>1
      <4> QED
        BY <2>9, <3>1, <4>1, <4>2 DEF Die
    <3>3. /\ UNCHANGED <<archive, removed, folder, capture, reports, reporting, audit>>
          /\ cut' \in SUBSET Archives
      BY <2>9, <2>t DEF Die
    <3> QED
      BY <3>2, <3>3
  <2> QED
    BY <2>1, <2>2, <2>3, <2>4, <2>5, <2>6, <2>7, <2>8, <2>9
<1>1. CASE OpenVerdict(q) \/ Remove(q) \/ Restore(q) \/ OpenDelete(q)
  BY <1>1, <1>r, OpenTypes
<1>2. CASE Dismiss(q) \/ TakeDown(q) \/ Settle(q) \/ Rmtree(q)
  BY <1>2, <1>r, GoType DEF Dismiss, TakeDown, Settle, Rmtree, VerdictSteps, DeleteSteps
<1>3. CASE DeleteRow(q) \/ LogDeleted(q) \/ Die(q)
  BY <1>3, <1>r, GoType, DoneType DEF DeleteRow, LogDeleted, Die, DeleteSteps
<1>4. CASE Logs(q)
  BY <1>4, <1>r, GoType, DoneType DEF Logs, Log, VerdictSteps
<1> QED
  BY <1>1, <1>2, <1>3, <1>4 DEF RequestStep, Logs

LEMMA TypeStep == TypeOK /\ [Next]_vars => TypeOK'
<1> SUFFICES ASSUME TypeOK, [Next]_vars PROVE TypeOK'
  OBVIOUS
<1>1. CASE UNCHANGED vars
  BY <1>1 DEF vars, rows, files, pages, TypeOK, Row!TypeOK
<1>2. CASE Next
  BY <1>2, CaptureTypes, ReportTypes, RequestTypes DEF Next
<1> QED
  BY <1>1, <1>2

\* Every variable keeps its type, whatever requests and captures do to each
\* other (the state of Moderation and its request handlers).
THEOREM TypeCorrect == Spec => []TypeOK
<1>1. Init => TypeOK
  BY TypeInit
<1>2. TypeOK /\ [Next]_vars => TypeOK'
  BY TypeStep
<1> QED
  BY <1>1, <1>2, PTL DEF Spec

-----------------------------------------------------------------------------
(* The rows and the files.  CompleteHasFiles is not inductive: a delete removes *)
(* the files of the save it read, which is the one the row names and never one  *)
(* a capture is about to commit.                                                *)

RemovedHaveRows == \A a \in removed : HasRow(a)

FolderOfComplete == \A a \in Archives : archive[a] # "complete" => folder[a] = 0

CaptureOwnsRow ==
  \A a \in Archives : capture[a].at # "idle" => archive[a] \in {"capturing", "deleted"}

CommitHasFiles ==
  \A a \in Archives : capture[a].at = "commit" => disk[a][capture[a].save] = "full"

DeletesKnow ==
  \A q \in Requests :
    request[q].at \in {"rmtree", "delete"} /\ request[q].save # 0 =>
      /\ archive[request[q].archive] \in {"complete", "deleted"}
      /\ capture[request[q].archive].at = "idle"

RowsAndFiles ==
  /\ TypeOK
  /\ RemovedHaveRows
  /\ FolderOfComplete
  /\ CaptureOwnsRow
  /\ CommitHasFiles
  /\ DeletesKnow
  /\ CompleteHasFiles

LEMMA OthersWait ==
  ASSUME TypeOK, NEW q \in Requests, RequestStep(q)
  PROVE  \A p \in Requests \ {q} : request'[p] = request[p]
BY DEF TypeOK, RequestStep, OpenVerdict, Dismiss, TakeDown, Settle, Remove, Restore, OpenDelete,
       Rmtree, DeleteRow, LogDeleted, Log, Die, Go, Done

LEMMA CaptureFiles ==
  ASSUME RowsAndFiles, TypeOK', NEW a \in Archives,
         Submit(a) \/ Begin(a) \/ StartSave(a) \/ FinishSave(a) \/ Commit(a) \/ StopCapture(a)
  PROVE  RowsAndFiles'
<1> USE DEF RowsAndFiles, RemovedHaveRows, FolderOfComplete, CaptureOwnsRow, CommitHasFiles,
            DeletesKnow, CompleteHasFiles, HasRow, Row!Rowless, rows, files, pages, At, TypeOK,
            Row!TypeOK
<1>1. CASE Submit(a)
  BY <1>1 DEF Submit, Row!Accept, Row!Move
<1>2. CASE Begin(a)
  BY <1>2 DEF Begin, Visible, Row!Unsettled
<1>3. CASE StartSave(a)
  BY <1>3 DEF StartSave
<1>4. CASE FinishSave(a)
  BY <1>4 DEF FinishSave
<1>5. CASE Commit(a)
  <2>1. /\ capture' = [capture EXCEPT ![a] = NoCapture]
        /\ capture'[a].at = "idle"
        /\ disk[a][capture[a].save] = "full" /\ capture[a].save # 0
        /\ UNCHANGED <<removed, disk, request, cut>>
    BY <1>5 DEF Commit, NoCapture
  <2>2. CASE ~HasRow(a)
    <3>1. UNCHANGED <<archive, folder>>
      BY <1>5, <2>2 DEF Commit
    <3> QED
      BY <2>1, <3>1
  <2>3. CASE HasRow(a)
    <3>1. /\ archive' = [archive EXCEPT ![a] = "complete"]
          /\ folder' = [folder EXCEPT ![a] = capture[a].save]
      BY <1>5, <2>3 DEF Commit
    <3>2. RemovedHaveRows' /\ FolderOfComplete' /\ CaptureOwnsRow' /\ CommitHasFiles'
      BY <2>1, <3>1
    <3>3. DeletesKnow'
      BY <2>1, <3>1
    <3>4. CompleteHasFiles'
      BY <2>1, <3>1
    <3> QED
      BY <3>2, <3>3, <3>4
  <2> QED
    BY <2>2, <2>3
<1>6. CASE StopCapture(a)
  <2>1. /\ capture' = [capture EXCEPT ![a] = NoCapture]
        /\ capture'[a].at = "idle"
        /\ capture[a].at # "idle" /\ archive[a] # "complete"
        /\ UNCHANGED <<removed, folder, disk, request, cut>>
    BY <1>6 DEF StopCapture, NoCapture
  <2>2. CASE UNCHANGED archive
    BY <2>1, <2>2
  <2>3. CASE HasRow(a) /\ archive' = [archive EXCEPT ![a] = "failed"]
    BY <2>1, <2>3
  <2> QED
    BY <1>6, <2>2, <2>3 DEF StopCapture
<1> QED
  BY <1>1, <1>2, <1>3, <1>4, <1>5, <1>6

\* A step that leaves rows and files alone and takes no delete on its way.
LEMMA QuietFiles ==
  ASSUME RowsAndFiles, TypeOK', NEW q \in Requests,
         UNCHANGED <<archive, folder, disk, capture, cut>>,
         \A p \in Requests \ {q} : request'[p] = request[p],
         ~At(q, "delete"), request'[q].at \notin {"rmtree", "delete"},
         RemovedHaveRows'
  PROVE  RowsAndFiles'
BY DEF RowsAndFiles, FolderOfComplete, CaptureOwnsRow, CommitHasFiles, DeletesKnow,
       CompleteHasFiles, At

LEMMA RequestFiles ==
  ASSUME RowsAndFiles, TypeOK', NEW q \in Requests, RequestStep(q)
  PROVE  RowsAndFiles'
<1>o. \A p \in Requests \ {q} : request'[p] = request[p]
  BY OthersWait DEF RowsAndFiles
<1>r. request \in [Requests -> RequestRecord] /\ request[q] \in RequestRecord
  BY DEF RowsAndFiles, TypeOK
<1>t. ~At(q, "idle") => request[q].archive \in Archives
  BY <1>r DEF RequestRecord, At
<1>1. CASE OpenVerdict(q) \/ Dismiss(q) \/ Settle(q) \/ LogDeleted(q) \/ Logs(q)
  <2>1. UNCHANGED <<rows, files, cut>>
    BY <1>1 DEF OpenVerdict, Dismiss, Settle, LogDeleted, Logs, Log
  <2>2. ~At(q, "delete") /\ request'[q].at \notin {"rmtree", "delete"}
    <3>1. CASE OpenVerdict(q)
      BY <3>1, <1>r DEF OpenVerdict, At, NoRequest, RequestRecord
    <3>2. CASE Dismiss(q) \/ Settle(q) \/ LogDeleted(q)
      BY <3>2, <1>r DEF Dismiss, Settle, LogDeleted, At, Go, Done, NoRequest, RequestRecord
    <3>3. CASE Logs(q)
      BY <3>3, <1>r DEF Logs, Log, At, Go, Done, NoRequest, RequestRecord
    <3> QED
      BY <1>1, <3>1, <3>2, <3>3
  <2>3. RemovedHaveRows'
    BY <2>1 DEF RowsAndFiles, RemovedHaveRows, HasRow, rows
  <2> QED
    BY <1>o, <2>1, <2>2, <2>3, QuietFiles DEF rows, files
<1>2. CASE Remove(q) \/ Restore(q) \/ TakeDown(q)
  <2>1. UNCHANGED <<archive, folder, files, cut>>
    BY <1>2 DEF Remove, Restore, TakeDown
  <2>2. ~At(q, "delete") /\ request'[q].at \notin {"rmtree", "delete"}
    BY <1>2, <1>r DEF Remove, Restore, TakeDown, At, Go, NoRequest, RequestRecord
  <2>3. RemovedHaveRows'
    BY <1>2, <2>1 DEF RowsAndFiles, RemovedHaveRows, HasRow, Remove, Restore, TakeDown,
                      SoftDelete, Unremove
  <2> QED
    BY <1>o, <2>1, <2>2, <2>3, QuietFiles DEF files
<1> USE DEF RowsAndFiles, RemovedHaveRows, FolderOfComplete, CaptureOwnsRow, CommitHasFiles,
            DeletesKnow, CompleteHasFiles, HasRow, Row!Rowless, rows, files, At
<1>3. CASE OpenDelete(q)
  <2>1. PICK a \in Archives :
          /\ request'[q].at = "rmtree" /\ request'[q].archive = a
          /\ request'[q].save = folder[a]
    BY <1>3, <1>r DEF OpenDelete, NoRequest, RequestRecord
  <2> QED
    BY <1>3, <1>o, <2>1 DEF OpenDelete
<1>4. CASE Rmtree(q)
  <2>1. request'[q] = [request[q] EXCEPT !.at = "delete"]
    BY <1>4, <1>r DEF Rmtree, Go
  <2> DEFINE a == request[q].archive
             n == request[q].save
  <2>2. /\ a \in Archives /\ n \in {0} \cup Saves
        /\ request'[q].at = "delete" /\ request'[q].archive = a /\ request'[q].save = n
        /\ UNCHANGED <<archive, removed, folder, capture, cut>>
        /\ \/ UNCHANGED disk
           \/ n # 0 /\ \E left \in {"gone", "partial"} : disk' = [disk EXCEPT ![a][n] = left]
    BY <1>4, <1>r, <1>t, <2>1 DEF Rmtree, RequestRecord
  <2>3. n # 0 => capture[a].at = "idle"
    BY <1>4 DEF Rmtree
  <2>4. RemovedHaveRows' /\ FolderOfComplete' /\ CaptureOwnsRow'
    BY <2>2
  <2>o. \A x \in Archives \ {a} : disk'[x] = disk[x]
    BY <2>2 DEF TypeOK
  <2>5. CommitHasFiles'
    BY <2>2, <2>3, <2>o
  <2>6. DeletesKnow'
    BY <1>4, <1>o, <2>2 DEF Rmtree
  <2>7. CompleteHasFiles'
    <3> SUFFICES ASSUME NEW x \in Archives \ cut, archive[x] = "complete"
                 PROVE  /\ folder[x] # 0
                        /\ \/ disk'[x][folder[x]] = "full"
                           \/ \E p \in Requests : At(p, "delete")' /\ request'[p].archive = x
      BY <2>2
    <3>1. CASE x = a
      BY <2>2, <3>1
    <3>2. CASE x # a
      <4>1. disk'[x] = disk[x]
        BY <2>o, <3>2
      <4>2. \A p \in Requests : At(p, "delete") /\ request[p].archive = x => p # q
        BY <3>2
      <4> QED
        BY <1>o, <4>1, <4>2
    <3> QED
      BY <3>1, <3>2
  <2> QED
    BY <2>4, <2>5, <2>6, <2>7
<1>5. CASE DeleteRow(q)
  <2>1. request'[q].at \notin {"rmtree", "delete"}
    BY <1>5, <1>r DEF DeleteRow, Go, Done, NoRequest, RequestRecord
  <2>2. CASE ~HasRow(request[q].archive)
    BY <1>5, <1>o, <2>1, <2>2 DEF DeleteRow
  <2>3. CASE HasRow(request[q].archive)
    <3> DEFINE a == request[q].archive
    <3>1. /\ a \in Archives
          /\ archive' = [archive EXCEPT ![a] = "deleted"]
          /\ removed' = removed \ {a}
          /\ folder' = [folder EXCEPT ![a] = 0]
          /\ UNCHANGED <<disk, capture, cut>>
      BY <1>5, <1>t, <2>3 DEF DeleteRow, Row!Delete
    <3>2. archive'[a] = "deleted" /\ \A x \in Archives \ {a} : archive'[x] = archive[x]
      BY <3>1 DEF TypeOK, Row!TypeOK
    <3>3. folder'[a] = 0 /\ \A x \in Archives \ {a} : folder'[x] = folder[x]
      BY <3>1 DEF TypeOK
    <3>4. RemovedHaveRows' /\ FolderOfComplete' /\ CaptureOwnsRow' /\ CommitHasFiles'
      BY <3>1, <3>2, <3>3 DEF TypeOK, Row!TypeOK
    <3>5. DeletesKnow'
      BY <1>o, <2>1, <3>1, <3>2
    <3>6. CompleteHasFiles'
      <4> SUFFICES ASSUME NEW x \in Archives \ cut, archive'[x] = "complete"
                   PROVE  /\ folder'[x] # 0
                          /\ \/ disk[x][folder'[x]] = "full"
                             \/ \E p \in Requests : At(p, "delete")' /\ request'[p].archive = x
        BY <3>1
      <4>1. x # a /\ archive[x] = "complete" /\ folder'[x] = folder[x]
        BY <3>2, <3>3
      <4> QED
        BY <1>o, <4>1
    <3> QED
      BY <3>4, <3>5, <3>6
  <2> QED
    BY <2>2, <2>3
<1>6. CASE Die(q)
  <2>1. request'[q].at \notin {"rmtree", "delete"}
    BY <1>6, <1>r DEF Die, Done, NoRequest
  <2> DEFINE a == request[q].archive
             n == request[q].save
  <2>2. /\ a \in Archives /\ cut' = cut \cup {a}
        /\ UNCHANGED <<archive, removed, folder, capture>>
    BY <1>6, <1>t DEF Die
  <2>3. \/ UNCHANGED disk
        \/ /\ n # 0 /\ request[q].at = "rmtree"
           /\ disk' = [disk EXCEPT ![a][n] = "partial"]
    BY <1>6 DEF Die
  <2>4. \A x \in Archives \ {a} : disk'[x] = disk[x]
    BY <2>2, <2>3 DEF TypeOK
  <2>5. capture[a].at # "idle" => UNCHANGED disk
    BY <2>3
  <2>6. RemovedHaveRows' /\ FolderOfComplete' /\ CaptureOwnsRow'
    BY <2>2
  <2>7. CommitHasFiles'
    BY <2>2, <2>4, <2>5
  <2>8. DeletesKnow'
    BY <1>o, <2>1, <2>2
  <2>9. CompleteHasFiles'
    <3> SUFFICES ASSUME NEW x \in Archives \ cut', archive[x] = "complete"
                 PROVE  /\ folder[x] # 0
                        /\ \/ disk'[x][folder[x]] = "full"
                           \/ \E p \in Requests : At(p, "delete")' /\ request'[p].archive = x
      BY <2>2
    <3>1. x # a /\ disk'[x] = disk[x]
      BY <2>2, <2>4
    <3> QED
      BY <1>o, <2>2, <3>1
  <2> QED
    BY <2>6, <2>7, <2>8, <2>9
<1> QED
  BY <1>1, <1>2, <1>3, <1>4, <1>5, <1>6 DEF RequestStep, Logs

LEMMA RowsInit == Init => RowsAndFiles
BY TypeInit DEF Init, RowsAndFiles, RemovedHaveRows, FolderOfComplete, CaptureOwnsRow,
   CommitHasFiles, DeletesKnow, CompleteHasFiles, Row!Init, NoCapture, NoRequest

LEMMA RowsStep == RowsAndFiles /\ [Next]_vars => RowsAndFiles'
<1> SUFFICES ASSUME RowsAndFiles, [Next]_vars PROVE RowsAndFiles'
  OBVIOUS
<1>1. TypeOK'
  BY TypeStep DEF RowsAndFiles
<1>2. CASE UNCHANGED <<rows, files, request, cut>>
  BY <1>1, <1>2 DEF RowsAndFiles, RemovedHaveRows, FolderOfComplete, CaptureOwnsRow,
     CommitHasFiles, DeletesKnow, CompleteHasFiles, HasRow, At, rows, files
<1>3. CASE \E ar \in Archives \X Reporters : OpenReport(ar) \/ FileReport(ar)
  BY <1>2, <1>3 DEF OpenReport, FileReport
<1> QED
  BY <1>1, <1>2, <1>3, CaptureFiles, RequestFiles DEF Next, vars, pages

\* The inductive invariant about rows, directories, captures and deletes.
THEOREM RowsAndFilesAgree == Spec => []RowsAndFiles
<1>1. Init => RowsAndFiles
  BY RowsInit
<1>2. RowsAndFiles /\ [Next]_vars => RowsAndFiles'
  BY RowsStep
<1> QED
  BY <1>1, <1>2, PTL DEF Spec

\* A complete archive names a directory that holds all its files, or is being
\* deleted (save_artifacts, update_status and the two delete routes).
THEOREM FilesStay == Spec => []CompleteHasFiles
<1>1. RowsAndFiles => CompleteHasFiles
  BY DEF RowsAndFiles
<1> QED
  BY <1>1, RowsAndFilesAgree, PTL

-----------------------------------------------------------------------------
(* The rows and the log.  A takedown hides the archive before it records the    *)
(* verdict and writes its entries after it, and each of these facts has to      *)
(* survive the statements of other requests in between.                         *)

KnownArchives ==
  \A q \in Requests : ~At(q, "idle") => archive[request[q].archive] # "absent"

ReportsHaveRows ==
  \A ar \in Archives \X Reporters : reports[ar] # "none" => HasRow(ar[1])

TookEffect(a) == archive[a] = "deleted" \/ HiddenOrRestored(a)

SettleTookEffect ==
  \A q \in Requests :
    At(q, "settle") /\ request[q].archive \notin cut => TookEffect(request[q].archive)

Logged(a) ==
  \/ a \notin removed
  \/ <<"soft_delete", a>> \in audit
  \/ \E q \in Requests : /\ request[q].at \in {"settle", "logtakedown", "logremoved"}
                         /\ request[q].archive = a

RowsAndLog ==
  /\ RowsAndFiles
  /\ KnownArchives
  /\ ReportsHaveRows
  /\ SettleTookEffect
  /\ ResolvedTookEffect
  /\ RemovalsLogged

LEMMA RowsLast ==
  ASSUME RowsAndLog, [Next]_vars, NEW a \in Archives, archive[a] # "absent"
  PROVE  archive'[a] # "absent" /\ (archive[a] = "deleted" => archive'[a] = "deleted")
<1> USE DEF RowsAndLog, RowsAndFiles, TypeOK, Row!TypeOK, rows, files
<1>1. CASE UNCHANGED archive
  BY <1>1
<1>2. ASSUME NEW b \in Archives,
             Submit(b) \/ Begin(b) \/ StartSave(b) \/ FinishSave(b) \/ Commit(b) \/ StopCapture(b)
      PROVE  archive'[a] # "absent" /\ (archive[a] = "deleted" => archive'[a] = "deleted")
  BY <1>2 DEF Submit, Begin, StartSave, FinishSave, Commit, StopCapture, HasRow, Visible,
              Row!Accept, Row!Move, Row!Rowless, Row!Unsettled
<1>3. CASE \E ar \in Archives \X Reporters : OpenReport(ar) \/ FileReport(ar)
  BY <1>1, <1>3 DEF OpenReport, FileReport
<1>4. ASSUME NEW q \in Requests, RequestStep(q)
      PROVE  UNCHANGED archive \/ DeleteRow(q)
  BY <1>4 DEF RequestStep, OpenVerdict, Dismiss, TakeDown, Settle, Remove, Restore, OpenDelete,
              Rmtree, LogDeleted, Log, Die
<1>5. ASSUME NEW q \in Requests, DeleteRow(q)
      PROVE  archive'[a] # "absent" /\ (archive[a] = "deleted" => archive'[a] = "deleted")
  BY <1>5 DEF DeleteRow, Row!Delete
<1> QED
  BY <1>1, <1>2, <1>3, <1>4, <1>5 DEF Next, vars

LEMMA RequestKeeps ==
  ASSUME RowsAndLog, NEW q \in Requests, RequestStep(q), NEW a \in Archives \ cut'
  PROVE  /\ TookEffect(a) => TookEffect(a)'
         /\ Logged(a) => Logged(a)'
<1>o. \A p \in Requests \ {q} : request'[p] = request[p]
  BY OthersWait DEF RowsAndLog, RowsAndFiles
<1>r. request \in [Requests -> RequestRecord] /\ request[q] \in RequestRecord
  BY DEF RowsAndLog, RowsAndFiles, TypeOK
<1>t. ~At(q, "idle") => request[q].archive \in Archives
  BY <1>r DEF RequestRecord, At
<1> USE DEF TookEffect, HiddenOrRestored, Logged, At, rows, files
<1>1. CASE OpenVerdict(q) \/ Dismiss(q) \/ OpenDelete(q) \/ Rmtree(q)
  BY <1>1, <1>o, <1>r DEF OpenVerdict, Dismiss, OpenDelete, Rmtree
<1>2. CASE Settle(q)
  BY <1>2, <1>o, <1>r DEF Settle, Go
<1>3. CASE TakeDown(q)
  BY <1>3, <1>o, <1>r DEF TakeDown, Go, SoftDelete
<1>4. CASE Remove(q)
  BY <1>4, <1>o, <1>r DEF Remove, SoftDelete, NoRequest
<1>5. CASE Restore(q)
  BY <1>5, <1>o, <1>r DEF Restore, Unremove, NoRequest
<1>6. CASE DeleteRow(q)
  <2> DEFINE b == request[q].archive
  <2>1. At(q, "delete") /\ b \in Archives
    BY <1>6, <1>t DEF DeleteRow
  <2>2. CASE ~HasRow(b)
    BY <1>6, <1>o, <1>r, <2>1, <2>2 DEF DeleteRow
  <2>3. CASE HasRow(b)
    <3>1. /\ archive' = [archive EXCEPT ![b] = "deleted"]
          /\ removed' = removed \ {b}
          /\ audit' = {IF e[2] = b /\ e[1] # "hard_delete" THEN <<e[1], "null">> ELSE e
                         : e \in audit}
      BY <1>6, <2>3 DEF DeleteRow, Row!Delete
    <3>2. CASE a = b
      BY <2>1, <3>1, <3>2 DEF RowsAndLog, RowsAndFiles, TypeOK, Row!TypeOK
    <3>3. CASE a # b
      <4>1. /\ <<"restore", a>> \in audit => <<"restore", a>> \in audit'
            /\ <<"soft_delete", a>> \in audit => <<"soft_delete", a>> \in audit'
        BY <3>1, <3>3
      <4>2. archive'[a] = archive[a] /\ (a \in removed <=> a \in removed')
        BY <3>1, <3>3 DEF RowsAndLog, RowsAndFiles, TypeOK, Row!TypeOK
      <4> QED
        BY <1>o, <2>1, <4>1, <4>2
    <3> QED
      BY <3>2, <3>3
  <2> QED
    BY <2>2, <2>3
<1>7. CASE LogDeleted(q)
  BY <1>7, <1>o, <1>r DEF LogDeleted
<1>8. CASE Logs(q)
  <2> DEFINE b == request[q].archive
  <2>1. audit \subseteq audit' /\ UNCHANGED <<archive, removed>>
    BY <1>8 DEF Logs, Log
  <2>2. b \in Archives /\ archive[b] # "absent"
    BY <1>8, <1>t DEF Logs, Log, RowsAndLog, KnownArchives
  <2>3. ~HasRow(b) => archive[b] = "deleted" /\ b \notin removed
    BY <2>2 DEF HasRow, Row!Rowless, RowsAndLog, RowsAndFiles, RemovedHaveRows
  <2>4. /\ request[q].at = "logrestored" /\ HasRow(b) => <<"restore", b>> \in audit'
        /\ request[q].at \in {"logtakedown", "logremoved"} /\ HasRow(b)
             => <<"soft_delete", b>> \in audit'
    BY <1>8 DEF Logs, Log
  <2>5. request[q].at # "settle"
    BY <1>8 DEF Logs, Log
  <2>6. TookEffect(a) => TookEffect(a)'
    BY <1>o, <2>1, <2>2, <2>3, <2>4
  <2>7. Logged(a) => Logged(a)'
    BY <1>o, <2>1, <2>2, <2>3, <2>4, <2>5
  <2> QED
    BY <2>6, <2>7
<1>9. CASE Die(q)
  BY <1>9, <1>o, <1>r DEF Die
<1> QED
  BY <1>1, <1>2, <1>3, <1>4, <1>5, <1>6, <1>7, <1>8, <1>9 DEF RequestStep, Logs

\* A step that is not a request's leaves the log and the requests alone, and
\* hides nothing.
LEMMA OthersKeep ==
  ASSUME RowsAndLog, [Next]_vars, UNCHANGED <<request, audit, cut>>, UNCHANGED removed,
         NEW a \in Archives
  PROVE  /\ TookEffect(a) => TookEffect(a)'
         /\ Logged(a) => Logged(a)'
<1>1. archive[a] = "deleted" => archive'[a] = "deleted"
  BY RowsLast
<1> QED
  BY <1>1 DEF TookEffect, HiddenOrRestored, Logged, At

LEMMA LogKeeps ==
  ASSUME RowsAndLog, [Next]_vars, NEW a \in Archives \ cut'
  PROVE  /\ a \notin cut
         /\ TookEffect(a) => TookEffect(a)'
         /\ Logged(a) => Logged(a)'
<1>1. CASE \E q \in Requests : RequestStep(q)
  <2>1. a \notin cut
    BY <1>1 DEF RequestStep, OpenVerdict, Dismiss, TakeDown, Settle, Remove, Restore, OpenDelete,
                Rmtree, DeleteRow, LogDeleted, Log, Die
  <2> QED
    BY <1>1, <2>1, RequestKeeps
<1>2. CASE UNCHANGED <<request, audit, cut>> /\ UNCHANGED removed
  BY <1>2, OthersKeep
<1>3. \/ \E q \in Requests : RequestStep(q)
      \/ UNCHANGED <<request, audit, cut>> /\ UNCHANGED removed
  BY DEF Next, vars, rows, files, pages, Submit, Begin, StartSave, FinishSave, Commit, StopCapture,
         OpenReport, FileReport, Row!Accept, Row!Move
<1> QED
  BY <1>1, <1>2, <1>3

LEMMA KnownStep == RowsAndLog /\ [Next]_vars => KnownArchives'
<1> SUFFICES ASSUME RowsAndLog, [Next]_vars,
                    NEW p \in Requests, ~At(p, "idle")'
             PROVE  archive'[request'[p].archive] # "absent"
  BY DEF KnownArchives
<1>r. request \in [Requests -> RequestRecord]
  BY DEF RowsAndLog, RowsAndFiles, TypeOK
<1>1. CASE request'[p] = request[p]
  <2>1. request[p].archive \in Archives /\ archive[request[p].archive] # "absent"
    BY <1>1, <1>r DEF RowsAndLog, KnownArchives, At, RequestRecord
  <2> QED
    BY <1>1, <2>1, RowsLast
<1>2. CASE RequestStep(p)
  <2>r. request[p] \in RequestRecord
    BY <1>r
  <2>1. CASE ~At(p, "idle")
    <3>1. request[p].archive \in Archives /\ archive[request[p].archive] # "absent"
      BY <2>1, <2>r DEF RowsAndLog, KnownArchives, At, RequestRecord
    <3> DEFINE Moves == {"settle", "logtakedown", "logdismissed", "logresolved", "delete",
                         "logdeleted"}
    <3>2. Done(p) \/ \E step \in Moves : Go(p, step)
      <4>1. CASE Dismiss(p) \/ TakeDown(p) \/ Settle(p) \/ Rmtree(p)
        BY <4>1 DEF Dismiss, TakeDown, Settle, Rmtree
      <4>2. CASE DeleteRow(p) \/ LogDeleted(p) \/ Die(p)
        BY <4>2 DEF DeleteRow, LogDeleted, Die
      <4>3. CASE Logs(p)
        BY <4>3 DEF Logs, Log
      <4> QED
        BY <1>2, <2>1, <4>1, <4>2, <4>3 DEF RequestStep, Logs, OpenVerdict, Remove, Restore,
           OpenDelete
    <3>3. request'[p] = NoRequest \/ request'[p].archive = request[p].archive
      BY <1>r, <2>r, <3>2 DEF Go, Done, RequestRecord
    <3> QED
      BY <3>1, <3>3, RowsLast DEF NoRequest, At
  <2>2. CASE At(p, "idle")
    <3>1. CASE OpenVerdict(p)
      BY <1>r, <3>1 DEF OpenVerdict, NoRequest, RowsAndLog, ReportsHaveRows, HasRow, Row!Rowless, rows
    <3>2. CASE Remove(p) \/ Restore(p) \/ OpenDelete(p)
      BY <1>r, <3>2 DEF Remove, Restore, OpenDelete, NoRequest, rows
    <3> QED
      BY <1>2, <2>2, <3>1, <3>2 DEF RequestStep, Dismiss, TakeDown, Settle, Rmtree, DeleteRow,
         LogDeleted, Log, Die, At
  <2> QED
    BY <2>1, <2>2
<1>3. request'[p] = request[p] \/ RequestStep(p)
  <2>1. ASSUME NEW q \in Requests, RequestStep(q) PROVE request'[p] = request[p] \/ RequestStep(p)
    BY <2>1, OthersWait DEF RowsAndLog, RowsAndFiles
  <2> QED
    BY <2>1 DEF Next, vars, rows, files, pages, Submit, Begin, StartSave, FinishSave, Commit,
       StopCapture, OpenReport, FileReport
<1> QED
  BY <1>1, <1>2, <1>3

LEMMA ReportStep ==
  ASSUME RowsAndLog, [Next]_vars
  PROVE  /\ ReportsHaveRows'
         /\ \A ar \in Archives \X Reporters :
              reports'[ar] = "resolved" =>
                \/ reports[ar] = "resolved"
                \/ \E q \in Requests : Settle(q) /\ request[q].archive = ar[1]
<1> SUFFICES ASSUME NEW ar \in Archives \X Reporters
             PROVE  /\ reports'[ar] # "none" => HasRow(ar[1])'
                    /\ reports'[ar] = "resolved" =>
                         \/ reports[ar] = "resolved"
                         \/ \E q \in Requests : Settle(q) /\ request[q].archive = ar[1]
  BY DEF ReportsHaveRows
<1>r. /\ reports[ar] # "none" => HasRow(ar[1])
      /\ reports \in [Archives \X Reporters -> {"none", "pending", "resolved", "dismissed"}]
      /\ archive \in [Archives -> Row!Unsettled \cup Row!Settled \cup Row!Rowless]
      /\ ar[1] \in Archives
  BY DEF RowsAndLog, RowsAndFiles, ReportsHaveRows, TypeOK, Row!TypeOK
<1>1. CASE UNCHANGED <<archive, reports>>
  BY <1>1, <1>r DEF HasRow
<1>2. ASSUME NEW b \in Archives,
             Submit(b) \/ Begin(b) \/ StartSave(b) \/ FinishSave(b) \/ Commit(b) \/ StopCapture(b)
      PROVE  UNCHANGED reports /\ (HasRow(ar[1]) => HasRow(ar[1])')
  <2> USE DEF HasRow, Row!Rowless, pages, rows
  <2>1. CASE Submit(b)
    BY <2>1, <1>r DEF Submit, Row!Accept, Row!Move
  <2>2. CASE Begin(b)
    BY <2>2, <1>r DEF Begin
  <2>3. CASE StartSave(b) \/ FinishSave(b)
    BY <2>3 DEF StartSave, FinishSave
  <2>4. CASE Commit(b)
    BY <2>4, <1>r DEF Commit
  <2>5. CASE StopCapture(b)
    BY <2>5, <1>r DEF StopCapture
  <2> QED
    BY <1>2, <2>1, <2>2, <2>3, <2>4, <2>5
<1>3. ASSUME NEW br \in Archives \X Reporters, OpenReport(br) \/ FileReport(br)
      PROVE  /\ reports'[ar] # "none" => HasRow(ar[1])'
             /\ reports'[ar] = "resolved" => reports[ar] = "resolved"
  BY <1>3, <1>r DEF OpenReport, FileReport, HasRow, rows
<1>4. ASSUME NEW q \in Requests, RequestStep(q)
      PROVE  UNCHANGED <<archive, reports>> \/ Dismiss(q) \/ Settle(q) \/ DeleteRow(q)
  BY <1>4 DEF RequestStep, OpenVerdict, TakeDown, Remove, Restore, OpenDelete, Rmtree, LogDeleted,
              Log, Die, rows
<1>5. ASSUME NEW q \in Requests, Dismiss(q)
      PROVE  UNCHANGED archive /\ reports'[ar] \in {reports[ar], "dismissed"}
             /\ (reports[ar] = "none" => reports'[ar] = "none")
  BY <1>5, <1>r DEF Dismiss, SetReport, rows
<1>6. ASSUME NEW q \in Requests, Settle(q)
      PROVE  /\ UNCHANGED archive
             /\ reports[ar] = "none" => reports'[ar] = "none"
             /\ reports'[ar] = reports[ar] \/ request[q].archive = ar[1]
  BY <1>6, <1>r DEF Settle, SetReport, rows
<1>7. ASSUME NEW q \in Requests, DeleteRow(q)
      PROVE  /\ reports'[ar] # "none" => HasRow(ar[1])'
             /\ reports'[ar] = "resolved" => reports[ar] = "resolved"
  BY <1>7, <1>r DEF DeleteRow, Row!Delete, HasRow, rows
<1> QED
  BY <1>1, <1>2, <1>3, <1>4, <1>5, <1>6, <1>7, <1>r DEF Next, vars, rows, pages, HasRow

LEMMA SettleStep == RowsAndLog /\ [Next]_vars => SettleTookEffect'
<1> SUFFICES ASSUME RowsAndLog, [Next]_vars,
                    NEW p \in Requests, request'[p].at = "settle",
                    NEW a \in Archives \ cut', request'[p].archive = a
             PROVE  TookEffect(a)'
  <2>1. ASSUME RowsAndLog, [Next]_vars PROVE TypeOK'
    BY <2>1, TypeStep DEF RowsAndLog, RowsAndFiles
  <2>2. ASSUME TypeOK', NEW p \in Requests, request'[p].at = "settle"
        PROVE  request'[p].archive \in Archives
    BY <2>2 DEF TypeOK, RequestRecord
  <2> QED
    BY <2>1, <2>2 DEF SettleTookEffect, TookEffect, HiddenOrRestored, At
<1>r. request \in [Requests -> RequestRecord] /\ request[p] \in RequestRecord
  BY DEF RowsAndLog, RowsAndFiles, TypeOK
<1>1. CASE request'[p] = request[p]
  <2>1. TookEffect(a)
    BY <1>1, LogKeeps DEF RowsAndLog, SettleTookEffect, At
  <2> QED
    BY <2>1, LogKeeps
<1>2. CASE TakeDown(p)
  <2>1. a = request[p].archive /\ archive[a] # "absent"
    BY <1>2, <1>r DEF TakeDown, Go, At, RowsAndLog, KnownArchives, RequestRecord
  <2>2. IF HasRow(a) THEN a \in removed' ELSE archive'[a] = "deleted"
    BY <1>2, <2>1 DEF TakeDown, SoftDelete, HasRow, Row!Rowless
  <2> QED
    BY <2>2 DEF TookEffect, HiddenOrRestored
<1>3. request'[p] = request[p] \/ TakeDown(p)
  <2>1. ASSUME NEW q \in Requests \ {p}, RequestStep(q) PROVE request'[p] = request[p]
    BY <2>1, OthersWait DEF RowsAndLog, RowsAndFiles
  <2>2. CASE RequestStep(p)
    <3>1. CASE OpenVerdict(p) \/ Remove(p) \/ Restore(p) \/ OpenDelete(p)
      BY <1>r, <3>1 DEF OpenVerdict, Remove, Restore, OpenDelete, NoRequest
    <3>2. CASE Dismiss(p) \/ Settle(p) \/ Rmtree(p) \/ DeleteRow(p) \/ LogDeleted(p) \/ Die(p)
      BY <1>r, <3>2 DEF Dismiss, Settle, Rmtree, DeleteRow, LogDeleted, Die, Go, Done, NoRequest,
                        RequestRecord
    <3>3. CASE Logs(p)
      BY <1>r, <3>3 DEF Logs, Log, Go, Done, NoRequest, RequestRecord
    <3> QED
      BY <2>2, <3>1, <3>2, <3>3 DEF RequestStep, Logs
  <2> QED
    BY <2>1, <2>2 DEF Next, vars, rows, files, pages, Submit, Begin, StartSave, FinishSave, Commit,
       StopCapture, OpenReport, FileReport
<1> QED
  BY <1>1, <1>2, <1>3

LEMMA EffectStep == RowsAndLog /\ [Next]_vars => ResolvedTookEffect'
<1> SUFFICES ASSUME RowsAndLog, [Next]_vars,
                    NEW ar \in Archives \X Reporters, NEW a \in Archives \ cut', a = ar[1],
                    reports'[ar] = "resolved"
             PROVE  HiddenOrRestored(a)'
  BY DEF ResolvedTookEffect
<1>1. TookEffect(a)
  <2>1. CASE reports[ar] = "resolved"
    BY <2>1, LogKeeps DEF RowsAndLog, ResolvedTookEffect, TookEffect
  <2>2. CASE \E q \in Requests : Settle(q) /\ request[q].archive = a
    BY <2>2, LogKeeps DEF RowsAndLog, SettleTookEffect, Settle
  <2> QED
    BY <2>1, <2>2, ReportStep
<1>2. archive'[a] # "deleted"
  BY ReportStep DEF ReportsHaveRows, HasRow, Row!Rowless
<1> QED
  BY <1>1, <1>2, LogKeeps DEF TookEffect

LEMMA LogStep == RowsAndLog /\ [Next]_vars => RemovalsLogged'
<1> SUFFICES ASSUME RowsAndLog, [Next]_vars, NEW a \in Archives \ cut', a \in removed'
             PROVE  Logged(a)'
  <2>1. RowsAndLog /\ [Next]_vars => removed' \subseteq Archives
    BY TypeStep DEF RowsAndLog, RowsAndFiles, TypeOK, Row!TypeOK
  <2> QED
    BY <2>1 DEF RemovalsLogged, Logged
<1>1. Logged(a)
  BY LogKeeps DEF RowsAndLog, RemovalsLogged, Logged
<1> QED
  BY <1>1, LogKeeps

LEMMA RowsAndLogStep == RowsAndLog /\ [Next]_vars => RowsAndLog'
BY RowsStep, KnownStep, ReportStep, SettleStep, EffectStep, LogStep DEF RowsAndLog

LEMMA RowsAndLogInit == Init => RowsAndLog
BY RowsInit DEF Init, RowsAndLog, KnownArchives, ReportsHaveRows, SettleTookEffect,
   ResolvedTookEffect, RemovalsLogged, Row!Init, NoRequest, At

\* The inductive invariant about rows, reports, requests and the audit log.
THEOREM RowsAndLogAgree == Spec => []RowsAndLog
<1>1. Init => RowsAndLog
  BY RowsAndLogInit
<1>2. RowsAndLog /\ [Next]_vars => RowsAndLog'
  BY RowsAndLogStep
<1> QED
  BY <1>1, <1>2, PTL DEF Spec

\* Nothing stays hidden without an entry in the log that names it: takedowns and
\* removals of any number of administrators, in any interleaving of statements.
THEOREM RemovalsAreLogged == Spec => []RemovalsLogged
<1>1. RowsAndLog => RemovalsLogged
  BY DEF RowsAndLog
<1> QED
  BY <1>1, RowsAndLogAgree, PTL

\* A report shown as resolved had its effect, or a restore that came after it is
\* in the log (resolve_report against removals, restores and deletes).
THEOREM ResolvedHasEffect == Spec => []ResolvedTookEffect
<1>1. RowsAndLog => ResolvedTookEffect
  BY DEF RowsAndLog
<1> QED
  BY <1>1, RowsAndLogAgree, PTL

-----------------------------------------------------------------------------
(* The refinement: the statements of requests and captures are steps of the     *)
(* lifecycle of one row, or leave it alone.                                     *)

RowStep == [Row!Next]_<<archive, removed>>

LEMMA CaptureRefines ==
  ASSUME RowsAndFiles, NEW a \in Archives,
         Submit(a) \/ Begin(a) \/ StartSave(a) \/ FinishSave(a) \/ Commit(a) \/ StopCapture(a)
  PROVE  RowStep
<1> USE DEF RowStep, rows, Row!Next, Row!Move, HasRow, Row!Rowless
<1>r. /\ archive \in [Archives -> Row!Unsettled \cup Row!Settled \cup Row!Rowless]
      /\ capture[a].at # "idle" => archive[a] \in {"capturing", "deleted"}
  BY DEF RowsAndFiles, TypeOK, Row!TypeOK, CaptureOwnsRow
<1>1. CASE Submit(a)
  BY <1>1 DEF Submit
<1>2. CASE Begin(a)
  <2>1. CASE archive[a] = "pending"
    BY <1>2, <2>1 DEF Begin, Row!Begin
  <2>2. CASE archive[a] = "capturing"
    BY <1>2, <2>2, <1>r DEF Begin
  <2> QED
    BY <1>2, <2>1, <2>2 DEF Begin, Row!Unsettled
<1>3. CASE StartSave(a) \/ FinishSave(a)
  BY <1>3 DEF StartSave, FinishSave
<1>4. CASE Commit(a)
  BY <1>4, <1>r DEF Commit, Row!Succeed
<1>5. CASE StopCapture(a)
  BY <1>5, <1>r DEF StopCapture, Row!Fail, Row!Unsettled
<1> QED
  BY <1>1, <1>2, <1>3, <1>4, <1>5

LEMMA RequestRefines ==
  ASSUME RowsAndFiles, NEW q \in Requests, RequestStep(q)
  PROVE  RowStep
<1> USE DEF RowStep, rows, Row!Next
<1>t. ~At(q, "idle") => request[q].archive \in Archives
  BY DEF RowsAndFiles, TypeOK, RequestRecord, At
<1>1. CASE TakeDown(q) \/ Remove(q)
  <2>1. PICK a \in Archives : SoftDelete(a) /\ UNCHANGED archive
    BY <1>1, <1>t DEF TakeDown, Remove, At
  <2> QED
    BY <2>1 DEF SoftDelete, HasRow, Row!Hide
<1>2. CASE Restore(q)
  <2>1. PICK a \in Archives : Unremove(a) /\ UNCHANGED archive
    BY <1>2 DEF Restore
  <2>2. HasRow(a) \/ a \notin removed
    BY DEF RowsAndFiles, RemovedHaveRows
  <2> QED
    BY <2>1, <2>2 DEF Unremove, HasRow, Row!Show
<1>3. CASE DeleteRow(q)
  BY <1>3, <1>t DEF DeleteRow, At
<1>4. TakeDown(q) \/ Remove(q) \/ Restore(q) \/ DeleteRow(q) \/ UNCHANGED rows
  BY DEF RequestStep, OpenVerdict, Dismiss, Settle, OpenDelete, Rmtree, LogDeleted, Log, Die
<1> QED
  BY <1>1, <1>2, <1>3, <1>4

\* Whatever requests and captures do to each other, the rows behave as
\* ArchiveLifecycle promises: settled once, and never back after a delete.
THEOREM ModerationImplementsLifecycle == Spec => LifecycleSpec
<1>1. Init => Row!Init
  BY DEF Init
<1>2. RowsAndFiles /\ [Next]_vars => RowStep
  <2> SUFFICES ASSUME RowsAndFiles, [Next]_vars PROVE RowStep
    OBVIOUS
  <2>1. CASE UNCHANGED rows
    BY <2>1 DEF RowStep, rows
  <2>2. ASSUME NEW ar \in Archives \X Reporters, OpenReport(ar) \/ FileReport(ar)
        PROVE  UNCHANGED rows
    BY <2>2 DEF OpenReport, FileReport
  <2> QED
    BY <2>1, <2>2, CaptureRefines, RequestRefines DEF Next, vars
<1> QED
  BY <1>1, <1>2, RowsAndFilesAgree, PTL DEF Spec, LifecycleSpec, Row!Spec, RowStep, Row!vars
=============================================================================
