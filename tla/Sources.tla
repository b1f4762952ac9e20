------------------------------ MODULE Sources ------------------------------
(***************************************************************************)
(* The fallback tiers of the worker (_FALLBACK_HANDLERS): one capture of a *)
(* URL out of other archives' copies, from the lookup of a copy to the     *)
(* result the worker stores.  Modules fallback.py, memento.py,             *)
(* commoncrawl.py and privacy_frontends.py, and the handlers of worker.py. *)
(*                                                                         *)
(* A source is what the tier at work searches: a URL variant, a mirror, a  *)
(* crawl or an archive.  A copy is a source and a date, 0 for a memento    *)
(* without one.  Parallel lookups are asyncio tasks named by their source; *)
(* task Main is the handler itself.                                        *)
(***************************************************************************)
EXTENDS HttpFetch, Sequences, FiniteSets

CONSTANTS
  NumSources,      \* sources of a tier, in the order the code lists them
  Dates,           \* dates a copy may carry, 0 for none
  Parallel,        \* memento._PARALLEL
  PerArchive,      \* memento._PER_ARCHIVE_CANDIDATES
  MaxCandidates,   \* memento._MAX_CANDIDATES
  RecentCrawls     \* commoncrawl._RECENT_CRAWLS

Main    == 0
Sources == 1..NumSources

ASSUME SourcesAssumption ==
  /\ NumSources \in Nat \ {0}
  /\ Tasks = Sources \cup {Main}
  /\ Dates \subseteq Nat /\ IsFiniteSet(Dates) /\ {0, 1} \subseteq Dates
  /\ {Parallel, PerArchive, MaxCandidates, RecentCrawls} \subseteq Nat \ {0}
  /\ MaxAttempts >= 3

VARIABLES
  at,              \* where the tier's handler is
  todo,            \* sources whose parallel lookup has still to be read
  queue,           \* sources the handler goes through one by one
  held,            \* the copies each source answered with
  hits,            \* copies left to try
  failed,          \* copies tried in vain
  result           \* what the tier returned to the worker

vars == <<req, at, todo, queue, held, hits, failed, result>>

Copies == (Sources \X Dates) \cup {<<Main, 0>>}
Fresh  == <<Main, 0>>     \* the copy a submission has just made

\* Phases that look sources up in turn (Main fetches) and at the same time.
InTurn   == {"variants", "mirror_fetch", "probe", "collinfo", "deep", "record"}
AtOnce   == {"mirrors", "recent", "roster"}
Browsing == {"spn", "render", "submit", "instances"}

\* Failed: an exception the handlers of the worker count as a failure of the
\* tier.  Broken: one that asyncio.gather passed on from a lookup.
TierResult == [outcome : {"captured"}, used : Copies]
              \cup {[outcome |-> o] : o \in {"none", "failed", "broken"}}

SourcesTypeOK ==
  /\ FetchTypeOK
  /\ at \in InTurn \cup AtOnce \cup Browsing \cup {"start", "done"}
  /\ todo \subseteq Sources
  /\ queue \in Seq(Sources)
  /\ held \in [Sources -> SUBSET Dates]
  /\ hits \subseteq Copies
  /\ failed \subseteq Copies
  /\ result \in TierResult

Init ==
  /\ FetchInit
  /\ at = "start"
  /\ todo = {} /\ queue = << >>
  /\ held = [s \in Sources |-> {}]
  /\ hits = {} /\ failed = {}
  /\ result = [outcome |-> "none"]

-----------------------------------------------------------------------------
(* Choosing among copies *)

\* hits.sort(key=timestamp or epoch, reverse=True): stable, undated last.
Newer(c, e) == c[2] > e[2] \/ (c[2] = e[2] /\ c[1] < e[1])

\* Mutant: the list is cut before it is sorted.
CutFirst(S, n) == {c \in S : Cardinality({e \in S : e[1] < c[1]}) < n}

\* The n newest.
Cut(S, n) == {c \in S : Cardinality({e \in S : Newer(e, c)}) < n}

Best(S) == CHOOSE c \in S : \A e \in S \ {c} : Newer(c, e)

CopiesOf(s) == {<<s, d>> : d \in held[s]}
AllCopies   == UNION {CopiesOf(s) : s \in Sources}

Ascending(S) == CHOOSE q \in [1..Cardinality(S) -> S] :
                  \A i, k \in DOMAIN q : i < k => q[i] < q[k]

-----------------------------------------------------------------------------
(* Parts of the actions *)

Captured(c) == at' = "done" /\ result' = [outcome |-> "captured", used |-> c]

Fails(outcome) == at' = "done" /\ result' = [outcome |-> outcome]

GoOn(phase) == at' = phase /\ UNCHANGED result

AllIdle == [t \in Tasks |-> Idle]

\* attempts, follow_redirects and guard_private_ips of the phase's fetches.
FetchOf(phase) ==
  CASE phase = "variants"                                      -> NewRequest(2, FALSE, FALSE)
    [] phase \in {"mirrors", "mirror_fetch", "roster", "probe"} -> NewRequest(1, TRUE, TRUE)
    [] phase \in {"collinfo", "recent", "deep"}                 -> NewRequest(3, FALSE, FALSE)
    [] phase = "record"                                         -> NewRequest(3, TRUE, FALSE)

\* The handler awaits fetch() for what it tries next.
Ask ==
  /\ at \in InTurn
  /\ req[Main].at = "idle"
  /\ Become(Main, FetchOf(at))
  /\ UNCHANGED <<at, todo, queue, held, hits, failed, result>>

\* The handler reads fetch()'s result; any other exception fails the tier.
Got(phase, results) ==
  /\ at = phase
  /\ Returned(Main)
  /\ req[Main].result \in results
  /\ Become(Main, Idle)

Surprised ==
  /\ at \in InTurn \ {"mirror_fetch"}
  /\ Got(at, {"surprise"})
  /\ Fails("failed")
  /\ UNCHANGED <<todo, queue, held, hits, failed>>

-----------------------------------------------------------------------------
(* WAYBACK: check_wayback_availability, Save Page Now, render *)

StartWayback ==
  /\ at = "start"
  /\ queue' = [i \in Sources |-> i]
  /\ GoOn("variants")
  /\ UNCHANGED <<req, todo, held, hits, failed>>

VariantHit ==
  /\ Got("variants", {"page"})
  /\ \E d \in Dates \ {0} :
       /\ held' = [held EXCEPT ![Head(queue)] = {d}]
       /\ hits' = {<<Head(queue), d>>}
  /\ GoOn("render")
  /\ UNCHANGED <<todo, queue, failed>>

VariantMiss ==
  /\ Got("variants", {"page", "miss", "error"})
  /\ queue' = Tail(queue)
  /\ GoOn(IF Len(queue) = 1 THEN "spn" ELSE "variants")
  /\ UNCHANGED <<todo, held, hits, failed>>

\* save_to_wayback: the URL of the new snapshot, or None.
SavePageNow ==
  /\ at = "spn"
  /\ \/ hits' = {Fresh} /\ GoOn("render")
     \/ Fails("failed") /\ UNCHANGED hits
  /\ UNCHANGED <<req, todo, queue, held, failed>>

\* capture_page on the copy.  Only the memento tier, which has its raw HTML in
\* hand, survives a failure.
Render ==
  /\ at = "render"
  /\ LET c == Best(hits) IN
     \/ Captured(c)
     \/ Fails("failed")
  /\ UNCHANGED <<req, todo, queue, held, hits, failed>>

-----------------------------------------------------------------------------
(* ARCHIVE_TODAY and ARCHIVE_TODAY_SUBMIT *)

StartArchiveToday ==
  /\ at = "start"
  /\ todo' = Sources
  /\ req' = [t \in Tasks |-> IF t \in Sources THEN FetchOf("mirrors") ELSE Idle]
  /\ GoOn("mirrors")
  /\ UNCHANGED <<queue, held, hits, failed>>

\* _rotate_memento_across_mirrors: the mirror that answered, then the others.
Rotation(s) == <<s>> \o Ascending(Sources \ {s})

\* Mutant: the lookups of the other mirrors are left running.
MirrorHitUncancelled(s) ==
  /\ at = "mirrors" /\ s \in todo
  /\ Returned(s) /\ req[s].result = "page"
  /\ \E ds \in (SUBSET Dates) \ {{}} :
       /\ held' = [held EXCEPT ![s] = ds]
       /\ hits' = {Best({s} \X ds)}
  /\ Become(s, Idle)
  /\ todo' = {}
  /\ queue' = Rotation(s)
  /\ GoOn("mirror_fetch")
  /\ UNCHANGED failed

\* The first mirror to return a memento wins and the others are cancelled.
MirrorHit(s) ==
  /\ at = "mirrors" /\ s \in todo
  /\ Returned(s) /\ req[s].result = "page"
  /\ \E ds \in (SUBSET Dates) \ {{}} :
       /\ held' = [held EXCEPT ![s] = ds]
       /\ hits' = {Best({s} \X ds)}
  /\ req' = AllIdle
  /\ todo' = {}
  /\ queue' = Rotation(s)
  /\ GoOn("mirror_fetch")
  /\ UNCHANGED failed

\* Every exception of a mirror is caught; an empty timemap is a miss.
MirrorMiss(s) ==
  /\ at = "mirrors" /\ s \in todo
  /\ Returned(s)
  /\ Become(s, Idle)
  /\ todo' = todo \ {s}
  /\ IF todo = {s} THEN Fails("failed") ELSE GoOn("mirrors")
  /\ UNCHANGED <<queue, held, hits, failed>>

\* save_to_archive_today through a gate-passing proxy, without which the tier
\* fails; all of it is the browser's.
StartSubmit ==
  /\ at = "start"
  /\ GoOn("submit")
  /\ UNCHANGED <<req, todo, queue, held, hits, failed>>

Submit ==
  /\ at = "submit"
  /\ \/ /\ hits' = {Fresh}
        /\ \E s \in Sources : queue' = Rotation(s)
        /\ GoOn("mirror_fetch")
     \/ Fails("failed") /\ UNCHANGED <<queue, hits>>
  /\ UNCHANGED <<req, todo, held, failed>>

\* fetch_archive_today_snapshot_html: the first mirror to serve the page.
DirectFetch ==
  /\ Got("mirror_fetch", {"page"})
  /\ LET c == Best(hits) IN Captured(c)
  /\ UNCHANGED <<todo, queue, held, hits, failed>>

\* A challenge page or any failure: the next mirror; after the last one the
\* read tier renders in a browser, the submit tier fails.
DirectFetchFails ==
  /\ Got("mirror_fetch", Results)
  /\ queue' = Tail(queue)
  /\ IF Len(queue) > 1 THEN GoOn("mirror_fetch")
     ELSE IF Fresh \in hits THEN Fails("failed") ELSE GoOn("render")
  /\ UNCHANGED <<todo, held, hits, failed>>

-----------------------------------------------------------------------------
(* COMMONCRAWL: the recent crawls at once, then all of them in turn *)

Recent == {s \in Sources : s <= RecentCrawls}

\* list_crawls answers from its cache or fetches.
StartCommonCrawl ==
  /\ at = "start"
  /\ queue' = <<1>>
  /\ GoOn("collinfo")
  /\ UNCHANGED <<req, todo, held, hits, failed>>

CrawlsCached ==
  /\ at = "collinfo"
  /\ req[Main].at = "idle"
  /\ todo' = Recent
  /\ req' = [t \in Tasks |-> IF t \in Recent THEN FetchOf("recent") ELSE Idle]
  /\ GoOn("recent")
  /\ UNCHANGED <<queue, held, hits, failed>>

CrawlsListed ==
  /\ at = "collinfo"
  /\ Returned(Main) /\ req[Main].result = "page"
  /\ todo' = Recent
  /\ req' = [t \in Tasks |-> IF t \in Recent THEN FetchOf("recent") ELSE Idle]
  /\ GoOn("recent")
  /\ UNCHANGED <<queue, held, hits, failed>>

\* Not a 200: RuntimeError; no response: the FetchError itself.
CrawlsUnlisted ==
  /\ Got("collinfo", {"miss", "error"})
  /\ Fails("failed")
  /\ UNCHANGED <<todo, queue, held, hits, failed>>

\* One CDX record of status 200, or a miss.
RecentRead(s) ==
  /\ at = "recent" /\ s \in todo
  /\ Returned(s) /\ req[s].result # "surprise"
  /\ Become(s, Idle)
  /\ todo' = todo \ {s}
  /\ \/ UNCHANGED held
     \/ req[s].result = "page" /\ held' = [held EXCEPT ![s] = {1}]
  /\ UNCHANGED <<at, queue, hits, failed, result>>

\* Mutant: any crawl's hit will do.
RecentGatheredAny ==
  /\ at = "recent" /\ todo = {}
  /\ IF AllCopies = {}
     THEN GoOn("deep") /\ queue' = [i \in Sources |-> i] /\ UNCHANGED hits
     ELSE GoOn("record") /\ (\E c \in AllCopies : hits' = {c}) /\ UNCHANGED queue
  /\ UNCHANGED <<req, todo, held, failed>>

RecentGathered ==
  /\ at = "recent" /\ todo = {}
  /\ IF AllCopies = {}
     THEN GoOn("deep") /\ queue' = [i \in Sources |-> i] /\ UNCHANGED hits
     ELSE GoOn("record") /\ hits' = {Best(AllCopies)} /\ UNCHANGED queue
  /\ UNCHANGED <<req, todo, held, failed>>

DeepHit ==
  /\ Got("deep", {"page"})
  /\ held' = [held EXCEPT ![Head(queue)] = {1}]
  /\ hits' = {<<Head(queue), 1>>}
  /\ GoOn("record")
  /\ UNCHANGED <<todo, queue, failed>>

\* Mutant: the scan asks the same crawl again.
DeepMissInPlace ==
  /\ Got("deep", {"page", "miss", "error"})
  /\ GoOn("deep")
  /\ UNCHANGED <<todo, queue, held, hits, failed>>

DeepMiss ==
  /\ Got("deep", {"page", "miss", "error"})
  /\ queue' = Tail(queue)
  /\ IF Len(queue) = 1 THEN Fails("failed") ELSE GoOn("deep")
  /\ UNCHANGED <<todo, held, hits, failed>>

RecordRead ==
  /\ Got("record", Results)
  /\ \/ req[Main].result = "page" /\ LET c == Best(hits) IN Captured(c)
     \/ Fails("failed")
  /\ UNCHANGED <<todo, queue, held, hits, failed>>

-----------------------------------------------------------------------------
(* MEMENTO: every archive's timemap, then the newest copies in turn *)

StartMemento ==
  /\ at = "start"
  /\ todo' = Sources
  /\ GoOn("roster")
  /\ UNCHANGED <<req, queue, held, hits, failed>>

\* asyncio.Semaphore(_PARALLEL)
AskArchive(s) ==
  /\ at = "roster" /\ s \in todo
  /\ req[s].at = "idle"
  /\ Cardinality({t \in Sources : req[t].at # "idle"}) < Parallel
  /\ Become(s, FetchOf("roster"))
  /\ UNCHANGED <<at, todo, queue, held, hits, failed, result>>

ArchiveRead(s) ==
  /\ at = "roster" /\ s \in todo
  /\ Returned(s) /\ req[s].result # "surprise"
  /\ Become(s, Idle)
  /\ todo' = todo \ {s}
  /\ IF req[s].result = "page"
     THEN \E ds \in SUBSET Dates : held' = [held EXCEPT ![s] = ds]
     ELSE UNCHANGED held
  /\ UNCHANGED <<at, queue, hits, failed, result>>

RosterGathered ==
  /\ at = "roster" /\ todo = {}
  /\ hits' = Cut(UNION {Cut(CopiesOf(s), PerArchive) : s \in Sources}, MaxCandidates)
  /\ IF hits' = {} THEN Fails("failed") ELSE GoOn("probe")
  /\ UNCHANGED <<req, todo, queue, held, failed>>

\* fetch_memento_html: usable means a 200 with a body.  The copy is rendered,
\* and if that fails the probe's HTML is stored.
ProbeHit ==
  /\ Got("probe", {"page"})
  /\ LET c == Best(hits) IN Captured(c)
  /\ UNCHANGED <<todo, queue, held, hits, failed>>

\* The raw replay variant fails: the plain one is next (queue tells it).
PlainVariant == <<1>>

ProbeRawFails ==
  /\ Got("probe", {"miss", "error"})
  /\ queue = << >>
  /\ queue' = PlainVariant
  /\ UNCHANGED <<at, todo, held, hits, failed, result>>

\* The copy's variants are spent, or it had only one: the next newest.
ProbeFails ==
  /\ Got("probe", {"miss", "error"})
  /\ queue' = << >>
  /\ hits' = hits \ {Best(hits)}
  /\ failed' = failed \cup {Best(hits)}
  /\ IF hits' = {} THEN Fails("failed") ELSE GoOn("probe")
  /\ UNCHANGED <<todo, held>>

-----------------------------------------------------------------------------
(* PRIVACY_FRONTEND: the verified instances in turn, fastest first *)

\* No policy for the URL, or no verified instance, fails the tier.
StartFrontend ==
  /\ at = "start"
  /\ \E S \in SUBSET Sources :
       IF S = {} THEN Fails("failed") /\ UNCHANGED queue
       ELSE GoOn("instances") /\ queue' = Ascending(S)
  /\ UNCHANGED <<req, todo, held, hits, failed>>

InstanceServes ==
  /\ at = "instances"
  /\ Captured(<<Head(queue), 0>>)
  /\ UNCHANGED <<req, todo, queue, held, hits, failed>>

\* A block page, a capture error or a not-found marker: the next instance.
InstanceFails ==
  /\ at = "instances"
  /\ queue' = Tail(queue)
  /\ IF Len(queue) = 1 THEN Fails("failed") ELSE GoOn("instances")
  /\ UNCHANGED <<req, todo, held, hits, failed>>

-----------------------------------------------------------------------------
(* What may end a tier early *)

\* asyncio.gather passes the exception on and leaves the other lookups alone.
GatherBreaks(s) ==
  /\ at \in {"recent", "roster"} /\ s \in todo
  /\ Returned(s) /\ req[s].result = "surprise"
  /\ Become(s, Idle)
  /\ todo' = {}
  /\ Fails("broken")
  /\ UNCHANGED <<queue, held, hits, failed>>

\* A lookup nobody awaits any more ends by itself.
StrayEnds(s) ==
  /\ at = "done"
  /\ Returned(s)
  /\ Become(s, Idle)
  /\ UNCHANGED <<at, todo, queue, held, hits, failed, result>>

\* wait_for(max_capture_timeout): cancels whatever the handler awaits.
Timeout ==
  /\ at \notin {"start", "done"}
  /\ req' = AllIdle
  /\ todo' = {}
  /\ Fails("failed")
  /\ UNCHANGED <<queue, held, hits, failed>>

-----------------------------------------------------------------------------
(* The specification *)

Fetching(t) == FetchStep(t) /\ UNCHANGED <<at, todo, queue, held, hits, failed, result>>

Start ==
  \/ StartWayback \/ StartArchiveToday \/ StartSubmit \/ StartCommonCrawl
  \/ StartMemento \/ StartFrontend

Handle ==
  \/ Ask \/ Surprised
  \/ VariantHit \/ VariantMiss \/ SavePageNow \/ Render
  \/ Submit \/ DirectFetch \/ DirectFetchFails
  \/ CrawlsCached \/ CrawlsListed \/ CrawlsUnlisted \/ RecentGathered
  \/ DeepHit \/ DeepMiss \/ RecordRead
  \/ RosterGathered \/ ProbeHit \/ ProbeRawFails \/ ProbeFails
  \/ InstanceServes \/ InstanceFails

Lookup(s) ==
  \/ MirrorHit(s) \/ MirrorMiss(s) \/ RecentRead(s)
  \/ AskArchive(s) \/ ArchiveRead(s) \/ GatherBreaks(s) \/ StrayEnds(s)

Next ==
  \/ Start \/ Handle \/ Timeout
  \/ \E s \in Sources : Lookup(s)
  \/ \E t \in Tasks : Fetching(t)

(* The event loop runs every task that can run; requests and browser calls *)
(* have timeouts of their own.  The outer Timeout is not relied upon.      *)
Fairness ==
  /\ WF_vars(Start) /\ WF_vars(Handle)
  /\ \A s \in Sources : WF_vars(Lookup(s))
  /\ \A t \in Tasks : WF_vars(Fetching(t))

Spec == Init /\ [][Next]_vars /\ Fairness

-----------------------------------------------------------------------------
(* Properties *)

\* find_memento_candidates and the probe loop keep the newest copy there is,
\* as far as they look into each archive: a copy newer than the stored one, in
\* an archive that answered, was tried first and failed, or its archive had
\* PerArchive newer ones that did; an undated copy is never preferred.
NewestCopyKept ==
  at = "done" /\ result.outcome = "captured" =>
    \A s \in Sources : \A d \in held[s] :
      d > result.used[2] =>
        \/ <<s, d>> \in failed
        \/ Cardinality({c \in failed : c[1] = s /\ c[2] > d}) >= PerArchive

\* find_snapshot and find_snapshot_full_history prefer the newest crawl, in
\* whatever order the parallel queries return.
NewestSourceFirst ==
  at = "record" => \A c \in hits : \A s \in Sources : s < c[1] => held[s] = {}

\* A tier that ends leaves no lookup running behind it, unless gather passed
\* an unforeseen exception on: a winner, a failure or the outer timeout in the
\* middle of a parallel lookup cancels or has awaited every other one.
NoStrayLookup ==
  at = "done" /\ result.outcome # "broken" => \A t \in Tasks : req[t].at = "idle"

\* Every tier ends by itself, strays included, without the outer timeout.
TierEnds == <>(at = "done" /\ \A t \in Tasks : req[t].at = "idle")
=============================================================================
