----------------------------- MODULE Moderation -----------------------------
(***************************************************************************)
(* Reports, takedowns and deletions (routes/admin.py, routes/reports.py,   *)
(* delete_archive of routes/archives.py) against the artifact directories  *)
(* that captures write (save_artifacts of capture.py).                     *)
(*                                                                         *)
(* A request is a sequence of statements that commit one by one, on two    *)
(* stores: the database and the artifact volume.  The queue appears as     *)
(* what CaptureQueue shows of it: at most one capture of an archive at a   *)
(* time, which reads the row, saves, and updates the row.                  *)
(***************************************************************************)
EXTENDS Naturals

CONSTANTS
  Archives,     \* archive ids
  Reporters,    \* reporter_ip_hash values
  Requests,     \* moderation requests in flight at once
  MaxSaves      \* bound: saves of one archive, each in a directory of its own

ASSUME SavesAssumption == MaxSaves \in Nat \ {0}

VARIABLES
  archive,      \* archives.status, or "absent"/"deleted" without a row
  removed,      \* archives whose removed_at is set
  folder,       \* archives.artifact_dir: the save it names, 0 for NULL
  disk,         \* the directory of each save of each archive
  capture,      \* the capture of each archive
  reports,      \* reports.status for each archive and reporter
  reporting,    \* submit_report requests between their check and their INSERT
  audit,        \* audit_log: pairs of an action and the archive it names
  request,      \* each moderation request: its next statement and its inputs
  cut           \* history: archives on which a request ended halfway

rows  == <<archive, removed, folder>>
files == <<disk, capture>>
pages == <<reports, reporting, audit, request, cut>>
vars  == <<rows, files, pages>>

Row == INSTANCE ArchiveLifecycle WITH
  Archives <- Archives, archive <- archive, removed <- removed

-----------------------------------------------------------------------------
(* Rows, files, requests and the type invariant *)

Saves      == 1..MaxSaves
HasRow(a)  == archive[a] \notin Row!Rowless
Visible(a) == HasRow(a) /\ a \notin removed

AuditAction == { "soft_delete", "hard_delete", "restore", "resolved", "dismissed" }

NoCapture == [at |-> "idle", save |-> 0]
NoRequest == [at |-> "idle", archive |-> "none", reporter |-> "none", save |-> 0,
              console |-> FALSE]

\* The statements of the handlers, by what they do.
VerdictSteps == {"takedown", "settle", "dismiss", "logtakedown", "logresolved", "logdismissed"}
RemovalSteps == {"logremoved", "logrestored"}
DeleteSteps  == {"rmtree", "delete", "logdeleted"}

\* A request holds the inputs that its statements use, and only those.
RequestRecord ==
  { v \in [ at       : {"idle"} \cup VerdictSteps \cup RemovalSteps \cup DeleteSteps,
            archive  : Archives \cup {"none"},
            reporter : Reporters \cup {"none"},
            save     : {0} \cup Saves,
            console  : BOOLEAN ] :
      /\ v.at # "idle" => v.archive \in Archives
      /\ v.at \in VerdictSteps => v.reporter \in Reporters
      /\ v.at \notin VerdictSteps => v.reporter = "none" }

TypeOK ==
  /\ Row!TypeOK
  /\ folder \in [Archives -> {0} \cup Saves]
  /\ disk \in [Archives -> [Saves -> {"unused", "partial", "full", "gone"}]]
  /\ capture \in [Archives -> [at : {"idle", "begin", "save", "commit"}, save : {0} \cup Saves]]
  /\ \A a \in Archives : capture[a].at \in {"save", "commit"} <=> capture[a].save # 0
  /\ reports \in [Archives \X Reporters -> {"none", "pending", "resolved", "dismissed"}]
  /\ reporting \in SUBSET (Archives \X Reporters)
  /\ audit \in SUBSET (AuditAction \X (Archives \cup {"null"}))
  /\ request \in [Requests -> RequestRecord]
  /\ cut \in SUBSET Archives

Init ==
  /\ Row!Init
  /\ folder = [a \in Archives |-> 0]
  /\ disk = [a \in Archives |-> [n \in Saves |-> "unused"]]
  /\ capture = [a \in Archives |-> NoCapture]
  /\ reports = [ar \in Archives \X Reporters |-> "none"]
  /\ reporting = {}
  /\ audit = {}
  /\ request = [q \in Requests |-> NoRequest]
  /\ cut = {}

-----------------------------------------------------------------------------
(* Submissions and captures *)

Submit(a) == Row!Accept(a) /\ UNCHANGED <<folder, files, pages>>

Begin(a) ==
  /\ capture[a].at = "idle"
  /\ Visible(a) /\ archive[a] \in Row!Unsettled
  /\ archive' = [archive EXCEPT ![a] = "capturing"]
  /\ capture' = [capture EXCEPT ![a] = [at |-> "begin", save |-> 0]]
  /\ UNCHANGED <<removed, folder, disk, pages>>

\* save_artifacts: a new directory for each save, then its files one by one.
StartSave(a) ==
  /\ capture[a].at = "begin"
  /\ \E n \in Saves :
       /\ disk[a][n] = "unused" /\ \A k \in 1..(n - 1) : disk[a][k] # "unused"
       /\ disk' = [disk EXCEPT ![a][n] = "partial"]
       /\ capture' = [capture EXCEPT ![a] = [at |-> "save", save |-> n]]
  /\ UNCHANGED <<rows, pages>>

\* Mutant: the row is updated while the files are still being written.
CommitEarly(a) ==
  /\ capture[a].at = "save"
  /\ archive' = [archive EXCEPT ![a] = IF HasRow(a) THEN "complete" ELSE @]
  /\ folder' = [folder EXCEPT ![a] = IF HasRow(a) THEN capture[a].save ELSE @]
  /\ capture' = [capture EXCEPT ![a] = [@ EXCEPT !.at = "commit"]]
  /\ UNCHANGED <<removed, disk, pages>>

FinishSave(a) ==
  /\ capture[a].at = "save"
  /\ disk' = [disk EXCEPT ![a][capture[a].save] = "full"]
  /\ capture' = [capture EXCEPT ![a] = [@ EXCEPT !.at = "commit"]]
  /\ UNCHANGED <<rows, pages>>

\* Mutant: an upsert, so that the update brings a deleted row back.
CommitUpsert(a) ==
  /\ capture[a].at = "commit"
  /\ archive' = [archive EXCEPT ![a] = "complete"]
  /\ folder' = [folder EXCEPT ![a] = capture[a].save]
  /\ capture' = [capture EXCEPT ![a] = NoCapture]
  /\ UNCHANGED <<removed, disk, pages>>

\* update_status(COMPLETE, artifact_dir): nothing to update once the row is gone.
Commit(a) ==
  /\ capture[a].at = "commit"
  /\ IF HasRow(a)
     THEN /\ archive' = [archive EXCEPT ![a] = "complete"]
          /\ folder' = [folder EXCEPT ![a] = capture[a].save]
     ELSE UNCHANGED <<archive, folder>>
  /\ capture' = [capture EXCEPT ![a] = NoCapture]
  /\ UNCHANGED <<removed, disk, pages>>

\* The capture fails, or its worker dies: it is retried later, or was the last.
StopCapture(a) ==
  /\ capture[a].at # "idle"
  /\ capture' = [capture EXCEPT ![a] = NoCapture]
  /\ \/ UNCHANGED archive
     \/ HasRow(a) /\ archive' = [archive EXCEPT ![a] = "failed"]
  /\ UNCHANGED <<removed, folder, disk, pages>>

-----------------------------------------------------------------------------
(* submit_report *)

OpenReport(ar) ==
  /\ Visible(ar[1])
  /\ reporting' = reporting \cup {ar}
  /\ UNCHANGED <<rows, files, reports, audit, request, cut>>

\* One report per archive and address: a second one resolves to the first.  The
\* foreign key refuses a report on an archive deleted since the check.
FileReport(ar) ==
  /\ ar \in reporting
  /\ reporting' = reporting \ {ar}
  /\ reports' = IF HasRow(ar[1]) /\ reports[ar] = "none"
                THEN [reports EXCEPT ![ar] = "pending"] ELSE reports
  /\ UNCHANGED <<rows, files, audit, request, cut>>

-----------------------------------------------------------------------------
(* The moderation requests *)

Go(q, step) == request' = [request EXCEPT ![q] = [@ EXCEPT !.at = step]]
Done(q)     == request' = [request EXCEPT ![q] = NoRequest]
At(q, step) == request[q].at = step

\* ArchiveRepository.soft_delete and restore, on a row that may be gone.
SoftDelete(a) == removed' = IF HasRow(a) THEN removed \cup {a} ELSE removed
Unremove(a)   == removed' = removed \ {a}

\* ReportRepository.update_status, on a report that may be gone.
SetReport(ar, status) ==
  reports' = IF reports[ar] = "none" THEN reports ELSE [reports EXCEPT ![ar] = status]

\* AuditRepository.log with an archive_id: the foreign key refuses an entry about
\* a deleted archive and the exception ends the request.
Log(q, step, action, next) ==
  /\ At(q, step)
  /\ LET a == request[q].archive IN
     \/ /\ HasRow(a)
        /\ audit' = audit \cup {<<action, a>>}
        /\ IF next = "idle" THEN Done(q) ELSE Go(q, next)
     \/ ~HasRow(a) /\ Done(q) /\ UNCHANGED audit
  /\ UNCHANGED <<rows, files, reports, reporting, cut>>

\* resolve_report reads the report, never its status.
OpenVerdict(q) ==
  /\ At(q, "idle")
  /\ \E ar \in Archives \X Reporters, step \in {"takedown", "dismiss"} :
       /\ reports[ar] # "none"
       /\ request' = [request EXCEPT ![q] =
            [NoRequest EXCEPT !.at = step, !.archive = ar[1], !.reporter = ar[2]]]
  /\ UNCHANGED <<rows, files, reports, reporting, audit, cut>>

Dismiss(q) ==
  /\ At(q, "dismiss")
  /\ SetReport(<<request[q].archive, request[q].reporter>>, "dismissed")
  /\ Go(q, "logdismissed")
  /\ UNCHANGED <<rows, files, reporting, audit, cut>>

\* Mutant: the takedown is left to the verdict, which does not do it.
TakeDownLater(q) ==
  /\ At(q, "takedown")
  /\ Go(q, "settle")
  /\ UNCHANGED <<rows, files, reports, reporting, audit, cut>>

\* Mutant: the handler goes on as if no report had asked for the removal.
TakeDownUnreported(q) ==
  /\ At(q, "takedown")
  /\ SoftDelete(request[q].archive)
  /\ Go(q, "logremoved")
  /\ UNCHANGED <<archive, folder, files, reports, reporting, audit, cut>>

TakeDown(q) ==
  /\ At(q, "takedown")
  /\ SoftDelete(request[q].archive)
  /\ Go(q, "settle")
  /\ UNCHANGED <<archive, folder, files, reports, reporting, audit, cut>>

\* Mutant: the takedown of a report leaves no removal in the log.
SettleWithoutEntry(q) ==
  /\ At(q, "settle")
  /\ SetReport(<<request[q].archive, request[q].reporter>>, "resolved")
  /\ Go(q, "logresolved")
  /\ UNCHANGED <<rows, files, reporting, audit, cut>>

Settle(q) ==
  /\ At(q, "settle")
  /\ SetReport(<<request[q].archive, request[q].reporter>>, "resolved")
  /\ Go(q, "logtakedown")
  /\ UNCHANGED <<rows, files, reporting, audit, cut>>

\* admin_remove_archive and admin_restore_archive: no read before the update.
Remove(q) ==
  /\ At(q, "idle")
  /\ \E a \in Archives :
       /\ archive[a] # "absent"
       /\ SoftDelete(a)
       /\ request' = [request EXCEPT ![q] =
            [NoRequest EXCEPT !.at = "logremoved", !.archive = a]]
  /\ UNCHANGED <<archive, folder, files, reports, reporting, audit, cut>>

Restore(q) ==
  /\ At(q, "idle")
  /\ \E a \in Archives :
       /\ archive[a] # "absent"
       /\ Unremove(a)
       /\ request' = [request EXCEPT ![q] =
            [NoRequest EXCEPT !.at = "logrestored", !.archive = a]]
  /\ UNCHANGED <<archive, folder, files, reports, reporting, audit, cut>>

\* admin_hard_delete_archive reads removed rows too, and goes on without a row;
\* delete_archive of the API reads visible rows only.
OpenDelete(q) ==
  /\ At(q, "idle")
  /\ \E a \in Archives, console \in BOOLEAN :
       /\ archive[a] # "absent"
       /\ console \/ Visible(a)
       /\ request' = [request EXCEPT ![q] =
            [NoRequest EXCEPT !.at = "rmtree", !.archive = a, !.save = folder[a],
                              !.console = console]]
  /\ UNCHANGED <<rows, files, reports, reporting, audit, cut>>

\* The console ignores what rmtree could not remove; the API ends there (Die).
Rmtree(q) ==
  /\ At(q, "rmtree")
  /\ LET a == request[q].archive
         n == request[q].save
     IN \/ n = 0 /\ UNCHANGED disk
        \/ n # 0 /\ disk' = [disk EXCEPT ![a][n] = "gone"]
        \/ /\ n # 0 /\ request[q].console /\ disk[a][n] = "full"
           /\ disk' = [disk EXCEPT ![a][n] = "partial"]
  /\ Go(q, "delete")
  /\ UNCHANGED <<rows, capture, reports, reporting, audit, cut>>

\* DELETE FROM archives: reports cascade, audit_log.archive_id is set to NULL.
DeleteRow(q) ==
  /\ At(q, "delete")
  /\ LET a == request[q].archive IN
     IF HasRow(a)
     THEN /\ Row!Delete(a)
          /\ folder' = [folder EXCEPT ![a] = 0]
          /\ reports' = [ar \in DOMAIN reports |-> IF ar[1] = a THEN "none" ELSE reports[ar]]
          /\ audit' = {IF e[2] = a /\ e[1] # "hard_delete" THEN <<e[1], "null">> ELSE e
                         : e \in audit}
     ELSE UNCHANGED <<rows, reports, audit>>
  /\ IF request[q].console THEN Go(q, "logdeleted") ELSE Done(q)
  /\ UNCHANGED <<files, reporting, cut>>

\* The entry about a hard delete keeps the id in details, without a foreign key.
LogDeleted(q) ==
  /\ At(q, "logdeleted")
  /\ audit' = audit \cup {<<"hard_delete", request[q].archive>>}
  /\ Done(q)
  /\ UNCHANGED <<rows, files, reports, reporting, cut>>

\* The web process dies, or a statement of the request fails: it ends there, a
\* removal of files perhaps halfway.
Die(q) ==
  /\ ~At(q, "idle")
  /\ cut' = cut \cup {request[q].archive}
  /\ Done(q)
  /\ \/ UNCHANGED disk
     \/ /\ At(q, "rmtree") /\ request[q].save # 0
        /\ disk[request[q].archive][request[q].save] = "full"
        /\ disk' = [disk EXCEPT ![request[q].archive][request[q].save] = "partial"]
  /\ UNCHANGED <<rows, capture, reports, reporting, audit>>

-----------------------------------------------------------------------------
(* The specification *)

RequestStep(q) ==
  \/ OpenVerdict(q) \/ Dismiss(q) \/ TakeDown(q) \/ Settle(q)
  \/ Remove(q) \/ Restore(q)
  \/ OpenDelete(q) \/ Rmtree(q) \/ DeleteRow(q) \/ LogDeleted(q)
  \/ Log(q, "logdismissed", "dismissed", "idle")
  \/ Log(q, "logtakedown", "soft_delete", "logresolved")
  \/ Log(q, "logresolved", "resolved", "idle")
  \/ Log(q, "logremoved", "soft_delete", "idle")
  \/ Log(q, "logrestored", "restore", "idle")
  \/ Die(q)

Next ==
  \/ \E a \in Archives :
       \/ Submit(a) \/ Begin(a) \/ StartSave(a) \/ FinishSave(a) \/ Commit(a)
       \/ StopCapture(a)
  \/ \E ar \in Archives \X Reporters : OpenReport(ar) \/ FileReport(ar)
  \/ \E q \in Requests : RequestStep(q)

Spec == Init /\ [][Next]_vars

-----------------------------------------------------------------------------
(* Properties *)

\* A complete archive names a directory that holds all its files, except while
\* a delete that removed them is about to remove the row.
CompleteHasFiles ==
  \A a \in Archives \ cut :
    archive[a] = "complete" =>
      /\ folder[a] # 0
      /\ \/ disk[a][folder[a]] = "full"
         \/ \E q \in Requests : At(q, "delete") /\ request[q].archive = a

HiddenOrRestored(a) ==
  \/ a \in removed
  \/ <<"restore", a>> \in audit
  \/ \E q \in Requests : At(q, "logrestored") /\ request[q].archive = a

\* A report shown as resolved had its effect: its archive is hidden, or somebody
\* restored it afterwards and the log says so, or is about to.
ResolvedTookEffect ==
  \A ar \in Archives \X Reporters :
    reports[ar] = "resolved" /\ ar[1] \notin cut => HiddenOrRestored(ar[1])

\* Nothing is hidden without an entry in the log that names it, or a request on
\* its way to write one (README.md: takedown, soft delete and audit log).
RemovalsLogged ==
  \A a \in removed \ cut :
    \/ <<"soft_delete", a>> \in audit
    \/ \E q \in Requests : /\ request[q].at \in {"settle", "logtakedown", "logremoved"}
                           /\ request[q].archive = a

\* Whatever requests and captures do to each other, the rows behave as
\* ArchiveLifecycle promises: a deleted archive never comes back.
LifecycleSpec == Row!Spec

=============================================================================
