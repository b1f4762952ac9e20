----------------------------- MODULE PageCapture -----------------------------
(***************************************************************************)
(* One browser capture: capture_page of capture.py under the worker's      *)
(* wait_for, with the detectors of detection.py, the SingleFile strategies *)
(* of singlefile.py, the WARC writer of warc_writer.py and save_artifacts. *)
(*                                                                         *)
(* The browser, the page and the timer move on their own: the browser may  *)
(* die at any step, the page may turn into anything between two awaits, a  *)
(* response may arrive whenever the context lives, and any await may hang  *)
(* until the timer cuts it.                                                *)
(***************************************************************************)
EXTENDS Naturals

CONSTANTS
  Kinds,           \* what a page may show, a subset of AllKinds
  Responses,       \* the responses the page's requests get
  MaxTotal         \* warc_max_total_bytes; each body counts for one

AllKinds ==
  { "content",     \* what the user asked for
    "cloudflare",  \* a JS challenge whose title every detector knows
    "anubis",      \* one whose title only _CHALLENGE_COMPLETE_JS knows
    "custom",      \* one under a title of the operator's own
    "hold",        \* a 503 page that reloads itself, under any title
    "block",       \* a block page with copy check_anti_bot knows
    "wall" }       \* a soft login wall

ASSUME PageAssumption ==
  /\ Kinds \subseteq AllKinds
  /\ MaxTotal \in Nat

VARIABLES
  firefox,         \* tier != CHROMIUM
  frontend,        \* has_privacy_frontend
  at,              \* the step capture_page is at
  timer,           \* the wait_for around it: "armed" or "fired"
  browser,         \* the browser process lives
  context,         \* the BrowserContext
  page,            \* what the document in the page shows
  status,          \* status_code
  reading,         \* what the parts read so far give the page away as
  look,            \* history: "stale" once the page changed after its text was read
  snapshot,        \* sf_result: what it shows and which strategy made it
  cli,             \* the single-file-cli subprocess
  hook,            \* where the _on_response callback of each response is
  total,           \* warc_writer._total_body_bytes
  file,            \* the tmp_*.warc.gz: where it is
  outcome          \* how the capture ends

writer == <<hook, total>>
view   == <<page, status, reading, look>>
vars == <<firefox, frontend, at, timer, browser, context, page, status, reading,
          look, snapshot, cli, hook, total, file, outcome>>

NoSnapshot == [from |-> "none"]

\* Steps with the page open, in the try block of capture_page.
Inside == { "navigate", "peek", "peek_html", "peek_text", "await_after_error",
            "read", "read_text", "read_html", "await", "reread", "reread_text",
            "singlefile", "script_tag", "cli", "content", "screenshot", "warc",
            "cookies" }

PageTypeOK ==
  /\ firefox \in BOOLEAN /\ frontend \in BOOLEAN /\ browser \in BOOLEAN
  /\ at \in Inside \cup {"context", "prepare", "close", "save", "ended"}
  /\ timer \in {"armed", "fired"}
  /\ context \in {"none", "open", "closed", "wedged", "left"}
  /\ page \in Kinds \cup {"nothing"}
  /\ status \in {"none", "ok", "denied", "503", "assumed"}
  /\ reading \subseteq {"challenge", "block"}
  /\ look \in {"fresh", "stale"}
  /\ snapshot \in
       [shows : Kinds, from : {"page", "cli"}, look : {"fresh", "stale"}]
       \cup {NoSnapshot}
  /\ cli \in {"none", "running", "left"}
  /\ at = "cli" <=> cli = "running"
  /\ hook \in [Responses -> {"due", "reading", "done"}]
  /\ total \in Nat
  /\ file \in {"none", "tmp", "kept"}
  /\ outcome \in {"none", "result", "antibot", "error", "timeout"}

Init ==
  /\ firefox \in BOOLEAN /\ frontend \in BOOLEAN
  /\ at = "context" /\ timer = "armed" /\ browser = TRUE /\ context = "none"
  /\ page = "nothing" /\ status = "none" /\ reading = {} /\ look = "fresh"
  /\ snapshot = NoSnapshot
  /\ cli = "none" /\ file = "none" /\ outcome = "none"
  /\ hook = [r \in Responses |-> "due"]
  /\ total = 0

-----------------------------------------------------------------------------
(* detect_js_challenge goes by the title and the HTML, check_anti_bot by the *)
(* title and the text, both by the status.                                   *)

ByStatus == IF status \in {"denied", "503"} THEN {"block"} ELSE {}
ByTitle  == IF page = "cloudflare" THEN {"challenge", "block"} ELSE {}
ByText   == IF page \in {"cloudflare", "block"} \/ (page = "wall" /\ frontend)
            THEN {"block"} ELSE {}
ByHtml   == IF \/ page \in {"cloudflare", "anubis", "custom"}
               \/ page = "hold" /\ status = "503"
            THEN {"challenge"} ELSE {}

\* _CHALLENGE_COMPLETE_JS goes by the title, and by the size of the body.
LooksCleared == page \notin {"cloudflare", "anubis"}

-----------------------------------------------------------------------------
(* Leaving the try block: the finally clause closes the context *)

Unwind(how) == at' = "close" /\ outcome' = how

\* check_anti_bot has judged what was read.
Judge(next) ==
  IF "block" \in reading' THEN Unwind("antibot")
                           ELSE at' = next /\ UNCHANGED outcome

-----------------------------------------------------------------------------
(* The context, before the try block *)

NewContext ==
  /\ at = "context" /\ browser
  /\ at' = "prepare" /\ context' = "open"
  /\ UNCHANGED <<firefox, frontend, timer, browser, view, snapshot,
                 cli, writer, file, outcome>>

Prepare ==
  /\ at = "prepare" /\ browser
  /\ at' = "navigate"
  /\ UNCHANGED <<firefox, frontend, timer, browser, context, view, snapshot,
                 cli, writer, file, outcome>>

\* new_context, the CSP route, the stealth patches, the cookies or new_page
\* raise: no finally clause covers them.
PrepareFails ==
  /\ at \in {"context", "prepare"}
  /\ at' = "ended" /\ outcome' = "error"
  /\ context' = IF at = "prepare" THEN "left" ELSE context
  /\ UNCHANGED <<firefox, frontend, timer, browser, view, snapshot,
                 cli, writer, file>>

-----------------------------------------------------------------------------
(* Navigation *)

Navigate ==
  /\ at = "navigate" /\ browser
  /\ page' \in Kinds
  /\ status' \in {"ok", "denied", "503"}
  /\ page' = "hold" => status' = "503"
  /\ at' = "read"
  /\ UNCHANGED <<firefox, frontend, timer, browser, context, reading, look,
                 snapshot, cli, writer, file, outcome>>

\* goto raises with something on the page, or nothing; load_bundle and
\* add_init_script are in the same block.
NavigateFails ==
  /\ at = "navigate"
  /\ page' \in Kinds \cup {"nothing"}
  /\ at' = "peek"
  /\ UNCHANGED <<firefox, frontend, timer, browser, context, status, reading,
                 look, snapshot, cli, writer, file, outcome>>

\* The handler's look at the page; the status counts as 0.  Whatever raises,
\* the rest goes unread.
PeekTitle ==
  /\ at = "peek"
  /\ \/ browser /\ at' = "peek_html" /\ reading' = ByTitle
     \/ at' = "peek_text" /\ UNCHANGED reading
  /\ UNCHANGED <<firefox, frontend, timer, browser, context, page, status, look,
                 snapshot, cli, writer, file, outcome>>

PeekHtml ==
  /\ at = "peek_html"
  /\ \/ browser /\ reading' = reading \cup ByHtml
     \/ UNCHANGED reading
  /\ at' = IF "challenge" \in reading' THEN "await_after_error" ELSE "peek_text"
  /\ UNCHANGED <<firefox, frontend, timer, browser, context, page, status, look,
                 snapshot, cli, writer, file, outcome>>

PeekText ==
  /\ at = "peek_text"
  /\ \/ /\ browser
        /\ reading' = reading \cup ByText
        /\ Unwind(IF "block" \in reading' THEN "antibot" ELSE "error")
     \/ Unwind("error") /\ UNCHANGED reading
  /\ UNCHANGED <<firefox, frontend, timer, browser, context, page, status, look,
                 snapshot, cli, writer, file>>

-----------------------------------------------------------------------------
(* Reading the page in three awaits, and waiting for a challenge *)

ReadTitle ==
  /\ at = "read" /\ browser
  /\ reading' = ByStatus \cup ByTitle
  /\ at' = "read_text"
  /\ UNCHANGED <<firefox, frontend, timer, browser, context, page, status, look,
                 snapshot, cli, writer, file, outcome>>

ReadText ==
  /\ at = "read_text" /\ browser
  /\ reading' = reading \cup ByText
  /\ look' = "fresh"
  /\ at' = "read_html"
  /\ UNCHANGED <<firefox, frontend, timer, browser, context, page, status,
                 snapshot, cli, writer, file, outcome>>

ReadHtml ==
  /\ at = "read_html" /\ browser
  /\ reading' = reading \cup ByHtml
  /\ IF "challenge" \in reading' THEN at' = "await" /\ UNCHANGED outcome
                                 ELSE Judge("singlefile")
  /\ UNCHANGED <<firefox, frontend, timer, browser, context, page, status, look,
                 snapshot, cli, writer, file>>

Cleared ==
  /\ at \in {"await", "await_after_error"} /\ browser /\ LooksCleared
  /\ at' = IF at = "await" THEN "reread" ELSE "read"
  /\ look' = "fresh"
  /\ UNCHANGED <<firefox, frontend, timer, browser, context, page, status, reading,
                 snapshot, cli, writer, file, outcome>>

\* wait_for_function times out, or the page is gone.
NotCleared ==
  /\ at \in {"await", "await_after_error"}
  /\ Unwind("antibot")
  /\ UNCHANGED <<firefox, frontend, timer, browser, context, view, snapshot,
                 cli, writer, file>>

\* Mutant: what was seen before the wait is not looked at again.
RereadNothing ==
  /\ at = "reread" /\ browser
  /\ at' = "singlefile"
  /\ UNCHANGED <<firefox, frontend, timer, browser, context, view, snapshot,
                 cli, writer, file, outcome>>

\* The status is set to 200 "best-effort".
RereadTitle ==
  /\ at = "reread" /\ browser
  /\ status' = "assumed"
  /\ reading' = ByTitle
  /\ at' = "reread_text"
  /\ UNCHANGED <<firefox, frontend, timer, browser, context, page, look,
                 snapshot, cli, writer, file, outcome>>

RereadText ==
  /\ at = "reread_text" /\ browser
  /\ reading' = reading \cup ByText
  /\ look' = "fresh"
  /\ Judge("singlefile")
  /\ UNCHANGED <<firefox, frontend, timer, browser, context, page, status,
                 snapshot, cli, writer, file>>

-----------------------------------------------------------------------------
(* The strategies for the snapshot *)

Taken(k, how) == [shows |-> k, from |-> how, look |-> look]

\* singlefile.getPageData: in the page, and on Firefox in a script tag.
SingleFile ==
  /\ at \in {"singlefile", "script_tag"} /\ browser
  /\ snapshot' = Taken(page, "page")
  /\ at' = "screenshot"
  /\ UNCHANGED <<firefox, frontend, timer, browser, context, view, cli, writer,
                 file, outcome>>

\* An Xray error on Firefox leads on to the script tag.
SingleFileFails ==
  /\ at = "singlefile"
  /\ \/ firefox /\ browser /\ at' = "script_tag" /\ UNCHANGED outcome
     \/ Unwind("error")
  /\ UNCHANGED <<firefox, frontend, timer, browser, context, view, snapshot,
                 cli, writer, file>>

\* _capture_singlefile_via_script_tag fails: capture_via_cli starts its own
\* Chromium, or finds none.
ScriptTagFails ==
  /\ at = "script_tag"
  /\ \/ at' = "cli" /\ cli' = "running"
     \/ at' = "content" /\ UNCHANGED cli
  /\ UNCHANGED <<firefox, frontend, timer, browser, context, view, snapshot,
                 writer, file, outcome>>

\* The CLI fetches the URL anew and so may be shown anything; a block page
\* with a title _looks_like_block_page knows is refused.
CliAnswers ==
  /\ at = "cli"
  /\ cli' = "none"
  /\ \/ "block" \in Kinds /\ at' = "content" /\ UNCHANGED snapshot
     \/ at' = "screenshot" /\ \E k \in Kinds : snapshot' = Taken(k, "cli")
  /\ UNCHANGED <<firefox, frontend, timer, browser, context, view,
                 writer, file, outcome>>

\* Mutant: the timeout of the CLI does not kill it.
CliFailsUnkilled ==
  /\ at = "cli"
  /\ cli' \in {"none", "left"}
  /\ at' = "content"
  /\ UNCHANGED <<firefox, frontend, timer, browser, context, view, snapshot,
                 writer, file, outcome>>

\* A non-zero exit, empty output, or a timeout, which kills it.
CliFails ==
  /\ at = "cli"
  /\ cli' = "none"
  /\ at' = "content"
  /\ UNCHANGED <<firefox, frontend, timer, browser, context, view, snapshot,
                 writer, file, outcome>>

PageContent ==
  /\ at = "content"
  /\ IF browser
     THEN /\ snapshot' = Taken(page, "page")
          /\ at' = "screenshot" /\ UNCHANGED outcome
     ELSE Unwind("error") /\ UNCHANGED snapshot
  /\ UNCHANGED <<firefox, frontend, timer, browser, context, view, cli, writer,
                 file>>

-----------------------------------------------------------------------------
(* The other outputs *)

\* The screenshot, the text and the thumbnail.
Screenshot ==
  /\ at = "screenshot" /\ browser
  /\ at' = "warc"
  /\ UNCHANGED <<firefox, frontend, timer, browser, context, view, snapshot,
                 cli, writer, file, outcome>>

\* finalize, when there is an exchange to write.
WriteWarc ==
  /\ at = "warc"
  /\ at' = "cookies"
  /\ file' = IF total > 0 THEN "tmp" ELSE file
  /\ UNCHANGED <<firefox, frontend, timer, browser, context, view, snapshot,
                 cli, writer, outcome>>

\* _cache_cf_clearance swallows its errors; the result is returned.
Cookies ==
  /\ at = "cookies"
  /\ Unwind("result")
  /\ UNCHANGED <<firefox, frontend, timer, browser, context, view, snapshot,
                 cli, writer, file>>

\* Any other exception of the block ends in CaptureError; a WARC of which only
\* a part could be written stays.
BlockFails ==
  /\ \/ /\ at \in { "read", "read_text", "read_html", "reread", "reread_text",
                   "screenshot" }
        /\ UNCHANGED file
     \/ at = "warc" /\ total > 0 /\ file' \in {"none", "tmp"}
  /\ Unwind("error")
  /\ UNCHANGED <<firefox, frontend, timer, browser, context, view, snapshot,
                 cli, writer>>

-----------------------------------------------------------------------------
(* close_context_bounded, in the finally clause *)

Close ==
  /\ at = "close"
  /\ context' = "closed"
  /\ at' = IF outcome = "result" THEN "save" ELSE "ended"
  /\ UNCHANGED <<firefox, frontend, timer, browser, view, snapshot,
                 cli, writer, file, outcome>>

\* Mutant: a close that hangs is waited for.
CloseHangs ==
  /\ at = "close"
  /\ context' = "wedged"
  /\ UNCHANGED <<firefox, frontend, at, timer, browser, view, snapshot,
                 cli, writer, file, outcome>>

\* The close hangs: after 30 s the context is left to itself.
CloseGivesUp ==
  /\ at = "close"
  /\ context' = "wedged"
  /\ at' = IF outcome = "result" THEN "save" ELSE "ended"
  /\ UNCHANGED <<firefox, frontend, timer, browser, view, snapshot,
                 cli, writer, file, outcome>>

\* wait_for fires, once: CancelledError passes every `except Exception`, and
\* the finally clause runs.  Nothing kills a CLI that is being awaited.
Cut ==
  /\ timer = "armed" /\ at \notin {"warc", "save", "ended"}
  /\ timer' = "fired" /\ outcome' = "timeout"
  /\ at' = IF at \in Inside THEN "close" ELSE "ended"
  /\ context' = IF at \in {"prepare", "close"} THEN "left" ELSE context
  /\ cli' = IF at = "cli" THEN "left" ELSE cli
  /\ UNCHANGED <<firefox, frontend, browser, view, snapshot, writer, file>>

-----------------------------------------------------------------------------
(* save_artifacts, in the worker, once wait_for has returned *)

Save ==
  /\ at = "save"
  /\ at' = "ended"
  /\ file' = IF file = "tmp" THEN "kept" ELSE file
  /\ UNCHANGED <<firefox, frontend, timer, browser, context, view, snapshot,
                 cli, writer, outcome>>

\* mkdir or a write fails: the tmp WARC stays.
SaveFails ==
  /\ at = "save"
  /\ at' = "ended" /\ outcome' = "error"
  /\ UNCHANGED <<firefox, frontend, timer, browser, context, view, snapshot,
                 cli, writer, file>>

-----------------------------------------------------------------------------
(* The _on_response callbacks, tasks of their own *)

Accepts == total < MaxTotal

\* A declared Content-Length that does not fit ends it before the body is read.
ResponseArrives(r) ==
  /\ hook[r] = "due" /\ context = "open" /\ browser /\ at \in Inside
  /\ \/ hook' = [hook EXCEPT ![r] = "reading"]
     \/ ~Accepts /\ hook' = [hook EXCEPT ![r] = "done"]
  /\ UNCHANGED <<firefox, frontend, at, timer, browser, context, view, snapshot,
                 cli, total, file, outcome>>

\* Mutant: only the declared length is held against the cap.
AddExchangeUnchecked(r) ==
  /\ hook[r] = "reading"
  /\ hook' = [hook EXCEPT ![r] = "done"]
  /\ total' = total + 1
  /\ UNCHANGED <<firefox, frontend, at, timer, browser, context, view, snapshot,
                 cli, file, outcome>>

\* add_exchange, after the awaits that read the body and the headers.
AddExchange(r) ==
  /\ hook[r] = "reading"
  /\ hook' = [hook EXCEPT ![r] = "done"]
  /\ total' = IF Accepts THEN total + 1 ELSE total
  /\ UNCHANGED <<firefox, frontend, at, timer, browser, context, view, snapshot,
                 cli, file, outcome>>

\* The body cannot be read any more: the callback swallows the error.
ResponseLost(r) ==
  /\ hook[r] = "reading"
  /\ hook' = [hook EXCEPT ![r] = "done"]
  /\ UNCHANGED <<firefox, frontend, at, timer, browser, context, view, snapshot,
                 cli, total, file, outcome>>

-----------------------------------------------------------------------------
(* The environment *)

\* A challenge solves itself, a wall or a block is rendered late, a document
\* navigates on: the page may turn into anything while the browser lives.
PageMoves ==
  /\ browser /\ at \in Inside \ {"navigate"}
  /\ page' \in Kinds \ {page}
  /\ look' = "stale"
  /\ UNCHANGED <<firefox, frontend, at, timer, browser, context, status, reading,
                 snapshot, cli, writer, file, outcome>>

BrowserDies ==
  /\ browser /\ at # "ended"
  /\ browser' = FALSE
  /\ UNCHANGED <<firefox, frontend, at, timer, context, view, snapshot,
                 cli, writer, file, outcome>>

Ended == at = "ended" /\ UNCHANGED vars

Next ==
  \/ NewContext \/ Prepare \/ PrepareFails
  \/ Navigate \/ NavigateFails \/ PeekTitle \/ PeekHtml \/ PeekText
  \/ ReadTitle \/ ReadText \/ ReadHtml
  \/ Cleared \/ NotCleared \/ RereadTitle \/ RereadText
  \/ SingleFile \/ SingleFileFails \/ ScriptTagFails
  \/ CliAnswers \/ CliFails \/ PageContent
  \/ Screenshot \/ WriteWarc \/ Cookies \/ BlockFails
  \/ Close \/ CloseGivesUp \/ Cut \/ Save \/ SaveFails
  \/ \E r \in Responses : ResponseArrives(r) \/ AddExchange(r) \/ ResponseLost(r)
  \/ PageMoves \/ BrowserDies \/ Ended

\* The event loop runs its timers and its ready callbacks.  Nothing is fair
\* that waits for the browser or for the page.
Fairness ==
  /\ WF_vars(Cut)
  /\ WF_vars(CloseGivesUp)
  /\ WF_vars(WriteWarc \/ (at = "warc" /\ BlockFails))
  /\ WF_vars(Save \/ SaveFails)

Spec == Init /\ [][Next]_vars /\ Fairness

-----------------------------------------------------------------------------
(* Properties *)

\* No block page, login wall or known challenge is stored in the place of the
\* page, unless the page turned into it after its text was last read: however a
\* capture comes to its snapshot, through a navigation that failed or a challenge
\* that was waited for, it looks at the page once more (capture.py:369-473).
NoBlockStored ==
  outcome = "result" /\ snapshot.from = "page" /\ snapshot.look = "fresh" =>
    /\ snapshot.shows \notin {"block", "cloudflare"}
    /\ ~(snapshot.shows = "wall" /\ frontend)

\* A page that is still its challenge when the wait ends is not stored.  The
\* code says "Continue with the (now-real) page" (capture.py:452) of a page
\* that only does not carry one of five titles, and forgets its 503.
SolvedBeforeStored ==
  (/\ outcome = "result" /\ status = "assumed"
   /\ snapshot.from = "page" /\ snapshot.look = "fresh") =>
     snapshot.shows \notin {"custom", "hold"}

\* A capture that ends without the timer, with a context that closes, leaves
\* nothing behind, whichever step failed: no context, no CLI process, and no
\* temporary WARC unless saving itself failed (capture.py:321, 656-660).
CleanUnlessCut ==
  at = "ended" /\ timer = "armed" /\ context \notin {"left", "wedged"} =>
    /\ context # "open"
    /\ cli = "none"
    /\ file = "tmp" => outcome = "error"

\* The bodies kept in memory stay under the cap, though several responses are
\* read at once and each was let in before the others counted
\* (capture.py:330-334, warc_writer.py:60-106).
WarcCapHolds == total <= MaxTotal

\* Every capture ends, though the browser may hang at any step and the timer
\* fires once only: what the finally clause awaits has a bound of its own
\* (capture.py:179-220).
CaptureEnds == <>(at = "ended")
=============================================================================
