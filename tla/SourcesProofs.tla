---------------------------- MODULE SourcesProofs ----------------------------
(***************************************************************************)
(* What is proved about HttpFetch and Sources, for any number of sources,  *)
(* dates, attempts and redirects and any limits on the candidates.         *)
(***************************************************************************)
EXTENDS Sources, FiniteSetTheorems, NumberLemmas

-----------------------------------------------------------------------------
(* The loop of one fetch *)

\* Each request sent has used up an attempt or a redirect, and the one about to
\* be sent goes where the guard has looked.
Sound(r) ==
  /\ r.attempt <= r.attempts
  /\ r.at = "backoff" => r.attempt < r.attempts
  /\ r.at \in {"guard", "send"} => r.sent < r.attempt + r.redirects
  /\ r.sent <= r.attempt + r.redirects
  /\ r.at = "send" /\ r.guarded => r.checked /\ ~Refused(r.hop)

SoundRequest == {r \in Request : Sound(r)}

FetchInv == req \in [Tasks -> SoundRequest \cup {Idle}]

LEMMA IdleIsNoRequest == Idle \notin Request
<1>1. \A r \in Request : r.at # "idle"
  BY DEF Request
<1> QED
  BY <1>1 DEF Idle

LEMMA BecomeKeeps ==
  ASSUME FetchInv, NEW t \in Tasks, NEW r \in SoundRequest \cup {Idle}, Become(t, r)
  PROVE  FetchInv'
BY DEF FetchInv, Become

LEMMA WorkingRequest ==
  ASSUME FetchInv, NEW t \in Tasks, req[t].at # "idle"
  PROVE  req[t] \in Request /\ Sound(req[t])
BY DEF FetchInv, SoundRequest, Idle

\* A request that goes out uses up what its guard was passed for.
LEMMA SentKeeps ==
  ASSUME NEW r \in Request, Sound(r), r.at = "send",
         NEW res \in Results, NEW hop \in Hops
  PROVE  LET s == [r EXCEPT !.sent = @ + 1] IN
         /\ [s EXCEPT !.at = "done", !.result = res] \in SoundRequest
         /\ r.attempt < r.attempts => [s EXCEPT !.at = "backoff"] \in SoundRequest
         /\ r.redirects # MaxRedirects =>
              [s EXCEPT !.at = "guard", !.hop = hop, !.checked = FALSE,
                        !.redirects = @ + 1] \in SoundRequest
<1> DEFINE s == [r EXCEPT !.sent = @ + 1]
           d == [s EXCEPT !.at = "done", !.result = res]
           b == [s EXCEPT !.at = "backoff"]
           g == [s EXCEPT !.at = "guard", !.hop = hop, !.checked = FALSE,
                          !.redirects = @ + 1]
<1>1. /\ r.attempt \in 1..MaxAttempts /\ r.attempts \in 1..MaxAttempts
      /\ r.redirects \in 0..MaxRedirects /\ r.sent \in Nat
      /\ MaxAttempts \in Nat /\ MaxRedirects \in Nat
  BY FetchAssumption DEF Request
<1>2. s \in Request /\ s.sent = r.sent + 1 /\ s.attempt = r.attempt
      /\ s.attempts = r.attempts /\ s.redirects = r.redirects
  BY <1>1 DEF Request
<1> HIDE DEF s
<1>3. d \in SoundRequest
  <2>1. d \in Request
    BY <1>2 DEF Request
  <2>2. Sound(d)
    BY <1>1, <1>2 DEF Sound, Request
  <2> QED
    BY <2>1, <2>2 DEF SoundRequest
<1>4. ASSUME r.attempt < r.attempts PROVE b \in SoundRequest
  <2>1. b \in Request
    BY <1>2 DEF Request
  <2>2. Sound(b)
    BY <1>1, <1>2, <1>4 DEF Sound, Request
  <2> QED
    BY <2>1, <2>2 DEF SoundRequest
<1>5. ASSUME r.redirects # MaxRedirects PROVE g \in SoundRequest
  <2>0. s.redirects + 1 \in 0..MaxRedirects
    BY <1>1, <1>2, <1>5
  <2>1. g \in Request
    BY <1>2, <2>0 DEF Request
  <2>2. Sound(g)
    BY <1>1, <1>2 DEF Sound, Request
  <2> QED
    BY <2>1, <2>2 DEF SoundRequest
<1> QED
  BY <1>3, <1>4, <1>5 DEF s

LEMMA FetchStepKeeps ==
  ASSUME FetchInv, NEW t \in Tasks, FetchStep(t)
  PROVE  FetchInv'
<1> DEFINE r == req[t]
<1>0. r \in Request /\ Sound(r)
  BY WorkingRequest DEF FetchStep, Guard, TransportFails, RetryStatus, Redirect, Answers,
                        Backoff, Responds
<1>1. CASE Guard(t)
  <2> DEFINE n == [r EXCEPT !.at = "send", !.checked = r.guarded]
             e == [r EXCEPT !.at = "done", !.result = "error"]
  <2>1. e \in SoundRequest
    <3>1. e \in Request
      BY <1>0 DEF Request, Results
    <3>2. Sound(e)
      BY <1>0 DEF Sound, Request
    <3> QED
      BY <3>1, <3>2 DEF SoundRequest
  <2>2. ASSUME ~(r.guarded /\ Refused(r.hop)) PROVE n \in SoundRequest
    <3>1. n \in Request
      BY <1>0 DEF Request
    <3>2. Sound(n)
      BY <1>0, <1>1, <2>2 DEF Sound, Request, Guard
    <3> QED
      BY <3>1, <3>2 DEF SoundRequest
  <2> QED
    BY <1>1, <2>1, <2>2, BecomeKeeps DEF Guard, Return
<1>2. CASE TransportFails(t)
  <2>1. r.at = "send" /\ "error" \in Results /\ "public" \in Hops
    BY <1>2 DEF TransportFails, Results, Hops
  <2>2. \/ Become(t, [[r EXCEPT !.sent = @ + 1] EXCEPT !.at = "done", !.result = "error"])
        \/ /\ ~(r.attempt >= r.attempts)
           /\ Become(t, [[r EXCEPT !.sent = @ + 1] EXCEPT !.at = "backoff"])
    BY <1>2 DEF TransportFails, Return, Sent
  <2>3. ~(r.attempt >= r.attempts) => r.attempt < r.attempts
    BY <1>0 DEF Request
  <2> QED
    BY <1>0, <2>1, <2>2, <2>3, SentKeeps, BecomeKeeps
<1>3. CASE RetryStatus(t)
  <2>1. r.at = "send" /\ "miss" \in Results /\ "public" \in Hops
    BY <1>3 DEF RetryStatus, Responds, Results, Hops
  <2>2. \/ Become(t, [[r EXCEPT !.sent = @ + 1] EXCEPT !.at = "done", !.result = "miss"])
        \/ /\ ~(r.attempt >= r.attempts)
           /\ Become(t, [[r EXCEPT !.sent = @ + 1] EXCEPT !.at = "backoff"])
    BY <1>3 DEF RetryStatus, Return, Sent
  <2>3. ~(r.attempt >= r.attempts) => r.attempt < r.attempts
    BY <1>0 DEF Request
  <2> QED
    BY <1>0, <2>1, <2>2, <2>3, SentKeeps, BecomeKeeps
<1>4. CASE Redirect(t)
  <2>1. r.at = "send" /\ {"miss", "error"} \subseteq Results /\ "public" \in Hops
    BY <1>4 DEF Redirect, Responds, Results, Hops
  <2>2. \/ \E res \in {"miss", "error"} :
             Become(t, [[r EXCEPT !.sent = @ + 1] EXCEPT !.at = "done", !.result = res])
        \/ /\ r.redirects # MaxRedirects
           /\ \E hop \in Hops :
                Become(t, [[r EXCEPT !.sent = @ + 1] EXCEPT
                             !.at = "guard", !.hop = hop, !.checked = FALSE,
                             !.redirects = @ + 1])
    BY <1>4 DEF Redirect, Return, Sent
  <2>3. CASE \E res \in {"miss", "error"} :
             Become(t, [[r EXCEPT !.sent = @ + 1] EXCEPT !.at = "done", !.result = res])
    BY <1>0, <2>1, <2>3, SentKeeps, BecomeKeeps
  <2>4. CASE /\ r.redirects # MaxRedirects
             /\ \E hop \in Hops :
                  Become(t, [[r EXCEPT !.sent = @ + 1] EXCEPT
                               !.at = "guard", !.hop = hop, !.checked = FALSE,
                               !.redirects = @ + 1])
    BY <1>0, <2>1, <2>4, SentKeeps, BecomeKeeps
  <2> QED
    BY <2>2, <2>3, <2>4
<1>5. CASE Answers(t)
  <2>1. r.at = "send" /\ "public" \in Hops
    BY <1>5 DEF Answers, Responds, Hops
  <2>2. PICK res \in Results :
          Become(t, [[r EXCEPT !.sent = @ + 1] EXCEPT !.at = "done", !.result = res])
    BY <1>5 DEF Answers, Return, Sent
  <2> QED
    BY <1>0, <2>1, <2>2, SentKeeps, BecomeKeeps
<1>6. CASE Backoff(t)
  <2> DEFINE n == [r EXCEPT !.at = "guard", !.checked = FALSE, !.attempt = @ + 1]
  <2>1. r.at = "backoff" /\ Become(t, n)
    BY <1>6 DEF Backoff
  <2>0. r.attempt + 1 \in 1..MaxAttempts
    BY <1>0, <2>1, FetchAssumption DEF Request, Sound
  <2>2. n \in Request
    BY <1>0, <2>0 DEF Request
  <2>3. Sound(n)
    BY <1>0, <2>1, FetchAssumption DEF Request, Sound
  <2>4. n \in SoundRequest
    BY <2>2, <2>3 DEF SoundRequest
  <2> QED
    BY <2>1, <2>4, BecomeKeeps
<1> QED
  BY <1>1, <1>2, <1>3, <1>4, <1>5, <1>6 DEF FetchStep

\* Fetches that are going on neither begin nor are taken back by a step of one.
LEMMA FetchStepKeepsIdle ==
  ASSUME FetchInv, NEW t \in Tasks, FetchStep(t), NEW u \in Tasks
  PROVE  req[u].at = "idle" => req'[u].at = "idle"
<1>1. req[t].at # "idle"
  BY DEF FetchStep, Guard, TransportFails, RetryStatus, Redirect, Answers, Backoff, Responds
<1>2. \E r : req' = [req EXCEPT ![t] = r]
  BY DEF FetchStep, Guard, TransportFails, RetryStatus, Redirect, Answers, Backoff,
         Return, Become
<1> QED
  BY <1>1, <1>2 DEF FetchInv

LEMMA NewRequestSound ==
  ASSUME NEW n \in 1..MaxAttempts, NEW follow \in BOOLEAN, NEW guarded \in BOOLEAN
  PROVE  /\ NewRequest(n, follow, guarded) \in SoundRequest
         /\ NewRequest(n, follow, guarded).at = "guard"
<1> DEFINE r == NewRequest(n, follow, guarded)
<1>1. r \in Request
  BY FetchAssumption DEF NewRequest, Request, Hops
<1>2. Sound(r)
  BY FetchAssumption DEF NewRequest, Sound
<1> QED
  BY <1>1, <1>2 DEF SoundRequest, NewRequest

LEMMA FetchOfSound ==
  ASSUME NEW phase \in InTurn \cup AtOnce
  PROVE  FetchOf(phase) \in SoundRequest /\ FetchOf(phase).at = "guard"
<1>1. {1, 2, 3} \subseteq 1..MaxAttempts
  BY SourcesAssumption, FetchAssumption
<1>2. \E n \in {1, 2, 3}, follow \in BOOLEAN, guarded \in BOOLEAN :
        FetchOf(phase) = NewRequest(n, follow, guarded)
  BY DEF FetchOf, InTurn, AtOnce
<1> QED
  BY <1>1, <1>2, NewRequestSound

-----------------------------------------------------------------------------
(* The handlers *)

Phases == InTurn \cup AtOnce \cup Browsing \cup {"start", "done"}

\* No task is inside fetch().
Quiet == \A t \in Tasks : req[t].at = "idle"

\* Which tasks may fetch, at each phase of the handler.
LookupInv ==
  /\ todo \subseteq Sources
  /\ at \in Phases
  /\ at \in AtOnce => /\ req[Main].at = "idle"
                      /\ \A s \in Sources : req[s].at # "idle" => s \in todo
  /\ at \in InTurn => \A s \in Sources : req[s].at = "idle"
  /\ at \in Browsing \cup {"start"} => Quiet
  /\ at = "done" /\ result.outcome # "broken" => Quiet

\* The crawls a CommonCrawl lookup has found before it chooses one.
CrawlInv ==
  /\ held \in [Sources -> SUBSET Nat]
  /\ at \in {"start", "collinfo", "deep"} => \A s \in Sources : held[s] = {}
  /\ at = "recent" => \A s \in Sources : held[s] \in {{}, {1}}
  /\ NewestSourceFirst

LEMMA TasksAre == Main \in Tasks /\ Sources \subseteq Tasks /\ Main \notin Sources
BY SourcesAssumption DEF Main, Sources

LEMMA QuietKeeps ==
  ASSUME Quiet', todo' \subseteq Sources, at' \in Phases
  PROVE  LookupInv'
BY TasksAre DEF LookupInv, Quiet

\* The handler has read its fetch: nothing else was going on.
LEMMA HandlerReads ==
  ASSUME FetchInv, LookupInv, at \in InTurn, Become(Main, Idle)
  PROVE  FetchInv' /\ Quiet'
<1>1. FetchInv'
  BY TasksAre, BecomeKeeps
<1>2. Quiet'
  BY TasksAre, SourcesAssumption DEF FetchInv, LookupInv, Become, Quiet, Idle
<1> QED
  BY <1>1, <1>2

\* The lookups of the sources in todo begin together.
LEMMA LookupsBegin ==
  ASSUME NEW phase \in AtOnce, NEW S \in SUBSET Sources,
         todo' = S, at' = phase,
         req' = [t \in Tasks |-> IF t \in S THEN FetchOf(phase) ELSE Idle]
  PROVE  FetchInv' /\ LookupInv'
<1>1. FetchOf(phase) \in SoundRequest
  BY FetchOfSound
<1>2. FetchInv'
  BY <1>1 DEF FetchInv
<1>3. phase \notin InTurn \cup Browsing \cup {"start", "done"}
  BY DEF AtOnce, InTurn, Browsing
<1>4. LookupInv'
  BY <1>3, TasksAre DEF LookupInv, Phases, Idle
<1> QED
  BY <1>2, <1>4

LEMMA StartKeeps ==
  ASSUME FetchInv, LookupInv, Start
  PROVE  FetchInv' /\ LookupInv'
<1>1. at = "start" /\ Quiet
  BY DEF Start, StartWayback, StartArchiveToday, StartSubmit, StartCommonCrawl,
         StartMemento, StartFrontend, LookupInv
<1>2. CASE StartArchiveToday
  <2>1. "mirrors" \in AtOnce
    BY DEF AtOnce
  <2> QED
    BY <1>2, <2>1, LookupsBegin DEF StartArchiveToday, GoOn
<1>3. CASE StartWayback \/ StartSubmit \/ StartCommonCrawl \/ StartMemento \/ StartFrontend
  <2>1. UNCHANGED req /\ todo' \subseteq Sources /\ at' \in Phases
    BY <1>3 DEF StartWayback, StartSubmit, StartCommonCrawl, StartMemento, StartFrontend,
                GoOn, Fails, Phases, InTurn, AtOnce, Browsing, LookupInv
  <2>2. FetchInv' /\ Quiet'
    BY <1>1, <2>1 DEF FetchInv, Quiet
  <2> QED
    BY <2>1, <2>2, QuietKeeps
<1> QED
  BY <1>2, <1>3 DEF Start

\* The steps of a handler that has read the result of its fetch.
Reads ==
  \/ Surprised \/ VariantHit \/ VariantMiss \/ DirectFetch \/ DirectFetchFails
  \/ CrawlsUnlisted \/ DeepHit \/ DeepMiss \/ RecordRead
  \/ ProbeHit \/ ProbeRawFails \/ ProbeFails

\* Those of a handler that drives the browser, or chooses among what it found.
Drives ==
  \/ SavePageNow \/ Render \/ Submit \/ InstanceServes \/ InstanceFails
  \/ RecentGathered \/ RosterGathered

LEMMA ReadsKeep ==
  ASSUME FetchInv, LookupInv, Reads
  PROVE  FetchInv' /\ LookupInv'
<1>1. at \in InTurn /\ Become(Main, Idle)
  BY DEF Reads, Surprised, VariantHit, VariantMiss, DirectFetch, DirectFetchFails,
         CrawlsUnlisted, DeepHit, DeepMiss, RecordRead, ProbeHit, ProbeRawFails,
         ProbeFails, Got, InTurn
<1>2. UNCHANGED todo
  BY DEF Reads, Surprised, VariantHit, VariantMiss, DirectFetch, DirectFetchFails,
         CrawlsUnlisted, DeepHit, DeepMiss, RecordRead, ProbeHit, ProbeRawFails,
         ProbeFails
<1>3. at' \in {"render", "spn", "variants", "done", "mirror_fetch", "record", "deep", "probe"}
  BY DEF Reads, Surprised, VariantHit, VariantMiss, DirectFetch, DirectFetchFails,
         CrawlsUnlisted, DeepHit, DeepMiss, RecordRead, ProbeHit, ProbeRawFails,
         ProbeFails, Got, GoOn, Fails, Captured
<1>4. todo' \subseteq Sources /\ at' \in Phases
  BY <1>2, <1>3 DEF LookupInv, Phases, InTurn, Browsing
<1> QED
  BY <1>1, <1>4, HandlerReads, QuietKeeps

LEMMA DrivesKeep ==
  ASSUME FetchInv, LookupInv, Drives
  PROVE  FetchInv' /\ LookupInv'
<1>1. at \in Browsing \/ (at \in AtOnce /\ todo = {})
  BY DEF Drives, SavePageNow, Render, Submit, InstanceServes, InstanceFails,
         RecentGathered, RosterGathered, Browsing, AtOnce
<1>2. UNCHANGED <<req, todo>>
  BY DEF Drives, SavePageNow, Render, Submit, InstanceServes, InstanceFails,
         RecentGathered, RosterGathered
<1>3. at' \in {"render", "done", "mirror_fetch", "instances", "deep", "record", "probe"}
  BY DEF Drives, SavePageNow, Render, Submit, InstanceServes, InstanceFails,
         RecentGathered, RosterGathered, GoOn, Fails, Captured
<1>4. Quiet
  BY <1>1, SourcesAssumption DEF LookupInv, Quiet
<1>5. todo' \subseteq Sources /\ at' \in Phases
  BY <1>2, <1>3 DEF LookupInv, Phases, InTurn, Browsing
<1>6. FetchInv' /\ Quiet'
  BY <1>2, <1>4 DEF FetchInv, Quiet
<1> QED
  BY <1>5, <1>6, QuietKeeps

LEMMA HandleKeeps ==
  ASSUME FetchInv, LookupInv, Handle
  PROVE  FetchInv' /\ LookupInv'
<1>1. CASE Ask
  <2>1. at \in InTurn /\ Become(Main, FetchOf(at)) /\ UNCHANGED <<at, todo, result>>
    BY <1>1 DEF Ask
  <2>2. FetchInv'
    BY <2>1, TasksAre, FetchOfSound, BecomeKeeps
  <2>3. at \notin AtOnce \cup Browsing \cup {"start", "done"}
    BY <2>1 DEF InTurn, AtOnce, Browsing
  <2>4. \A s \in Sources : req'[s] = req[s]
    BY <2>1, TasksAre DEF Become, FetchInv
  <2>5. LookupInv'
    BY <2>1, <2>3, <2>4 DEF LookupInv
  <2> QED
    BY <2>2, <2>5
<1>2. CASE CrawlsCached \/ CrawlsListed
  <2>1. Recent \in SUBSET Sources /\ "recent" \in AtOnce
    BY DEF Recent, AtOnce
  <2>2. /\ todo' = Recent /\ at' = "recent"
        /\ req' = [t \in Tasks |-> IF t \in Recent THEN FetchOf("recent") ELSE Idle]
    BY <1>2 DEF CrawlsCached, CrawlsListed, GoOn
  <2> QED
    BY <2>1, <2>2, LookupsBegin
<1>3. CASE Reads
  BY <1>3, ReadsKeep
<1>4. CASE Drives
  BY <1>4, DrivesKeep
<1> QED
  BY <1>1, <1>2, <1>3, <1>4 DEF Handle, Reads, Drives

\* A lookup is read, of a source that is then no longer awaited.
LEMMA LookupRead ==
  ASSUME FetchInv, LookupInv, at \in AtOnce, NEW s \in Sources, Become(s, Idle),
         todo' = todo \ {s}
  PROVE  /\ FetchInv'
         /\ req'[Main].at = "idle"
         /\ \A u \in Sources : req'[u].at # "idle" => u \in todo'
<1>1. FetchInv'
  BY TasksAre, BecomeKeeps
<1>2. Idle.at = "idle"
  BY DEF Idle
<1>3. req' = [req EXCEPT ![s] = Idle] /\ DOMAIN req = Tasks
  BY DEF Become, FetchInv
<1> QED
  BY <1>1, <1>2, <1>3, TasksAre DEF LookupInv

LEMMA LookupKeeps ==
  ASSUME FetchInv, LookupInv, NEW s \in Sources, Lookup(s)
  PROVE  FetchInv' /\ LookupInv'
<1>t. s \in Tasks /\ s # Main
  BY TasksAre
<1>1. CASE MirrorHit(s)
  <2>1. req' = AllIdle /\ todo' = {} /\ at' = "mirror_fetch"
    BY <1>1 DEF MirrorHit, GoOn
  <2>2. FetchInv' /\ Quiet'
    BY <2>1 DEF FetchInv, Quiet, AllIdle, Idle
  <2> QED
    BY <2>1, <2>2, QuietKeeps DEF Phases, InTurn
<1>2. CASE MirrorMiss(s) \/ RecentRead(s) \/ ArchiveRead(s)
  <2>1. at \in AtOnce /\ Become(s, Idle) /\ todo' = todo \ {s}
    BY <1>2 DEF MirrorMiss, RecentRead, ArchiveRead, AtOnce
  <2>2. \/ UNCHANGED at
        \/ at' = "done" /\ todo' = {}
    BY <1>2 DEF MirrorMiss, RecentRead, ArchiveRead, GoOn, Fails
  <2>3. /\ FetchInv'
        /\ req'[Main].at = "idle"
        /\ \A u \in Sources : req'[u].at # "idle" => u \in todo'
    BY <2>1, LookupRead
  <2>4. todo' \subseteq Sources
    BY <2>1 DEF LookupInv
  <2>5. CASE UNCHANGED at
    <3>1. at' \notin InTurn \cup Browsing \cup {"start", "done"}
      BY <2>1, <2>5 DEF AtOnce, InTurn, Browsing
    <3> QED
      BY <2>3, <2>4, <2>5, <3>1 DEF LookupInv
  <2>6. CASE at' = "done" /\ todo' = {}
    <3>1. Quiet'
      BY <2>3, <2>6, SourcesAssumption DEF Quiet
    <3> QED
      BY <2>3, <2>4, <2>6, <3>1, QuietKeeps DEF Phases
  <2> QED
    BY <2>2, <2>5, <2>6
<1>3. CASE AskArchive(s)
  <2>1. /\ at = "roster" /\ s \in todo /\ Become(s, FetchOf("roster"))
        /\ UNCHANGED <<at, todo, result>>
    BY <1>3 DEF AskArchive
  <2>2. "roster" \in AtOnce /\ "roster" \notin InTurn \cup Browsing \cup {"start", "done"}
    BY DEF AtOnce, InTurn, Browsing
  <2>3. FetchInv'
    BY <1>t, <2>1, <2>2, FetchOfSound, BecomeKeeps
  <2>4. \A u \in Tasks : u # s => req'[u] = req[u]
    BY <2>1 DEF Become, FetchInv
  <2>5. LookupInv'
    BY <1>t, <2>1, <2>2, <2>4, TasksAre DEF LookupInv
  <2> QED
    BY <2>3, <2>5
<1>4. CASE GatherBreaks(s)
  <2>1. Become(s, Idle) /\ todo' = {} /\ at' = "done" /\ result' = [outcome |-> "broken"]
    BY <1>4 DEF GatherBreaks, Fails
  <2>2. FetchInv'
    BY <1>t, <2>1, BecomeKeeps
  <2>3. LookupInv'
    BY <2>1 DEF LookupInv, Phases, InTurn, AtOnce, Browsing
  <2> QED
    BY <2>2, <2>3
<1>5. CASE StrayEnds(s)
  <2>1. Become(s, Idle) /\ at = "done" /\ UNCHANGED <<at, todo, result>>
    BY <1>5 DEF StrayEnds
  <2>2. FetchInv'
    BY <1>t, <2>1, BecomeKeeps
  <2>3. Quiet => Quiet'
    BY <1>t, <2>1 DEF Become, FetchInv, Quiet, Idle
  <2>4. LookupInv'
    BY <2>1, <2>3 DEF LookupInv, Phases, InTurn, AtOnce, Browsing
  <2> QED
    BY <2>2, <2>4
<1> QED
  BY <1>1, <1>2, <1>3, <1>4, <1>5 DEF Lookup

LEMMA LookupsNext == FetchInv /\ LookupInv /\ [Next]_vars => FetchInv' /\ LookupInv'
<1> SUFFICES ASSUME FetchInv, LookupInv, [Next]_vars PROVE FetchInv' /\ LookupInv'
  OBVIOUS
<1>1. CASE Start
  BY <1>1, StartKeeps
<1>2. CASE Handle
  BY <1>2, HandleKeeps
<1>3. CASE Timeout
  <2>1. req' = AllIdle /\ todo' = {} /\ at' = "done"
    BY <1>3 DEF Timeout, Fails
  <2>2. FetchInv' /\ Quiet'
    BY <2>1 DEF FetchInv, Quiet, AllIdle, Idle
  <2> QED
    BY <2>1, <2>2, QuietKeeps DEF Phases
<1>4. ASSUME NEW s \in Sources, Lookup(s) PROVE FetchInv' /\ LookupInv'
  BY <1>4, LookupKeeps
<1>5. ASSUME NEW t \in Tasks, Fetching(t) PROVE FetchInv' /\ LookupInv'
  <2>1. FetchStep(t) /\ UNCHANGED <<at, todo, result>>
    BY <1>5 DEF Fetching
  <2>2. \A u \in Tasks : req[u].at = "idle" => req'[u].at = "idle"
    BY <2>1, FetchStepKeepsIdle
  <2>3. LookupInv'
    BY <2>1, <2>2, TasksAre DEF LookupInv, Quiet
  <2> QED
    BY <2>1, <2>3, FetchStepKeeps
<1>6. CASE UNCHANGED vars
  BY <1>6 DEF vars, FetchInv, LookupInv, Quiet
<1> QED
  BY <1>1, <1>2, <1>3, <1>4, <1>5, <1>6 DEF Next

-----------------------------------------------------------------------------
(* Which crawl is chosen *)

\* Of copies of the same date the best is the one of the first source.
LEMMA BestOfRecent ==
  ASSUME \A s \in Sources : held[s] \in {{}, {1}}, AllCopies # {}
  PROVE  /\ Best(AllCopies) \in AllCopies
         /\ \A s \in Sources : s < Best(AllCopies)[1] => held[s] = {}
<1> DEFINE S == {s \in Sources : held[s] # {}}
<1>1. \A c : c \in AllCopies <=> \E s \in S : c = <<s, 1>>
  BY DEF AllCopies, CopiesOf
<1>2. S \in SUBSET Nat /\ S # {}
  BY <1>1, SourcesAssumption DEF Sources
<1>3. PICK n \in S : \A m \in S : n <= m
  BY <1>2, SmallestExists
<1>4. ASSUME NEW c \in AllCopies, c # <<n, 1>> PROVE Newer(<<n, 1>>, c)
  <2>1. PICK m \in S : c = <<m, 1>>
    BY <1>1
  <2>2. n < m
    BY <1>2, <1>3, <1>4, <2>1
  <2> QED
    BY <2>1, <2>2 DEF Newer
<1>5. <<n, 1>> \in AllCopies /\ \A e \in AllCopies \ {<<n, 1>>} : Newer(<<n, 1>>, e)
  BY <1>1, <1>4
<1>6. /\ Best(AllCopies) \in AllCopies
      /\ \A e \in AllCopies \ {Best(AllCopies)} : Newer(Best(AllCopies), e)
  BY <1>5 DEF Best
<1>7. PICK b \in S : Best(AllCopies) = <<b, 1>>
  BY <1>1, <1>6
<1>8. b = n
  <2> SUFFICES ASSUME b # n PROVE FALSE
    OBVIOUS
  <2>1. Newer(<<b, 1>>, <<n, 1>>)
    BY <1>5, <1>6, <1>7
  <2> QED
    BY <1>2, <1>3, <2>1 DEF Newer
<1> QED
  BY <1>2, <1>3, <1>6, <1>7, <1>8

LEMMA CrawlNext == CrawlInv /\ [Next]_vars => CrawlInv'
<1> SUFFICES ASSUME CrawlInv, [Next]_vars PROVE CrawlInv'
  OBVIOUS
<1> DEFINE Searching == {"start", "collinfo", "recent", "deep", "record"}
<1>1. CASE UNCHANGED <<at, held, hits>>
  BY <1>1 DEF CrawlInv, NewestSourceFirst
<1>2. ASSUME at' \notin Searching, held' \in [Sources -> SUBSET Nat] PROVE CrawlInv'
  BY <1>2 DEF CrawlInv, NewestSourceFirst
<1>3. CASE Start
  <2>1. UNCHANGED held
    BY <1>3 DEF Start, StartWayback, StartArchiveToday, StartSubmit, StartCommonCrawl,
                StartMemento, StartFrontend
  <2>2. at = "start" /\ (at' = "collinfo" \/ at' \notin Searching)
    BY <1>3 DEF Start, StartWayback, StartArchiveToday, StartSubmit, StartCommonCrawl,
                StartMemento, StartFrontend, GoOn, Fails
  <2> QED
    BY <2>1, <2>2 DEF CrawlInv, NewestSourceFirst
<1>4. CASE CrawlsCached \/ CrawlsListed
  <2>1. at = "collinfo" /\ at' = "recent" /\ UNCHANGED held
    BY <1>4 DEF CrawlsCached, CrawlsListed, GoOn
  <2> QED
    BY <2>1 DEF CrawlInv, NewestSourceFirst
<1>5. ASSUME NEW s \in Sources, RecentRead(s) PROVE CrawlInv'
  <2>1. at = "recent" /\ UNCHANGED at
    BY <1>5 DEF RecentRead
  <2>2. UNCHANGED held \/ held' = [held EXCEPT ![s] = {1}]
    BY <1>5 DEF RecentRead
  <2> QED
    BY <2>1, <2>2 DEF CrawlInv, NewestSourceFirst
<1>6. CASE RecentGathered
  <2>1. at = "recent" /\ UNCHANGED held
    BY <1>6 DEF RecentGathered
  <2>2. \/ AllCopies = {} /\ at' = "deep"
        \/ AllCopies # {} /\ at' = "record" /\ hits' = {Best(AllCopies)}
    BY <1>6 DEF RecentGathered, GoOn
  <2>3. CASE AllCopies = {} /\ at' = "deep"
    <3>1. ASSUME NEW s \in Sources, held[s] # {} PROVE FALSE
      <4>1. PICK d \in held[s] : TRUE
        BY <3>1
      <4>2. <<s, d>> \in AllCopies
        BY <4>1 DEF AllCopies, CopiesOf
      <4> QED
        BY <2>3, <4>2
    <3> QED
      BY <2>1, <2>3, <3>1 DEF CrawlInv, NewestSourceFirst
  <2>4. CASE AllCopies # {} /\ at' = "record" /\ hits' = {Best(AllCopies)}
    <3>1. \A s \in Sources : held[s] \in {{}, {1}}
      BY <2>1 DEF CrawlInv
    <3>2. \A s \in Sources : s < Best(AllCopies)[1] => held[s] = {}
      BY <2>4, <3>1, BestOfRecent
    <3> QED
      BY <2>1, <2>4, <3>2 DEF CrawlInv, NewestSourceFirst
  <2> QED
    BY <2>2, <2>3, <2>4
<1>7. CASE DeepHit
  <2>1. /\ at = "deep" /\ at' = "record"
        /\ held' = [held EXCEPT ![Head(queue)] = {1}]
        /\ hits' = {<<Head(queue), 1>>}
    BY <1>7 DEF DeepHit, Got, GoOn
  <2> DEFINE h == Head(queue)
  <2>2. \A s \in Sources : s < h => held'[s] = {}
    <3> SUFFICES ASSUME NEW s \in Sources, s < h PROVE held'[s] = {}
      OBVIOUS
    <3>1. s # h
      BY SourcesAssumption DEF Sources
    <3> QED
      BY <2>1, <3>1 DEF CrawlInv
  <2>3. held \in [Sources -> SUBSET Nat]
    BY DEF CrawlInv
  <2>4. held' \in [Sources -> SUBSET Nat]
    <3>1. {1} \in SUBSET Nat
      OBVIOUS
    <3> DEFINE one == {1}
    <3>2. held' = [held EXCEPT ![Head(queue)] = one] /\ one \in SUBSET Nat
      BY <2>1, <3>1
    <3> HIDE DEF one
    <3> QED
      BY <2>3, <3>2
  <2>5. NewestSourceFirst'
    BY <2>1, <2>2 DEF NewestSourceFirst
  <2> QED
    BY <2>1, <2>4, <2>5 DEF CrawlInv
<1>8. CASE DeepMiss
  <2>1. at = "deep" /\ (at' = "deep" \/ at' = "done") /\ UNCHANGED held
    BY <1>8 DEF DeepMiss, Got, GoOn, Fails
  <2> QED
    BY <2>1 DEF CrawlInv, NewestSourceFirst
<1>9. CASE Ask \/ ProbeRawFails
  BY <1>1, <1>9 DEF Ask, ProbeRawFails
<1>10. CASE \/ Surprised \/ VariantHit \/ VariantMiss \/ DirectFetch \/ DirectFetchFails
            \/ CrawlsUnlisted \/ RecordRead \/ ProbeHit \/ ProbeFails
            \/ SavePageNow \/ Render \/ Submit \/ InstanceServes \/ InstanceFails
            \/ RosterGathered
  <2>1. at' \notin Searching
    BY <1>10 DEF Surprised, VariantHit, VariantMiss, DirectFetch, DirectFetchFails,
                 CrawlsUnlisted, RecordRead, ProbeHit, ProbeFails, SavePageNow, Render,
                 Submit, InstanceServes, InstanceFails, RosterGathered, GoOn, Fails,
                 Captured
  <2>2. UNCHANGED held \/ \E s, d : d \in Dates /\ held' = [held EXCEPT ![s] = {d}]
    BY <1>10 DEF Surprised, VariantHit, VariantMiss, DirectFetch, DirectFetchFails,
                 CrawlsUnlisted, RecordRead, ProbeHit, ProbeFails, SavePageNow, Render,
                 Submit, InstanceServes, InstanceFails, RosterGathered
  <2>3. held' \in [Sources -> SUBSET Nat]
    BY <2>2, SourcesAssumption DEF CrawlInv
  <2> QED
    BY <1>2, <2>1, <2>3
<1>11. ASSUME NEW s \in Sources, MirrorHit(s) \/ MirrorMiss(s) \/ ArchiveRead(s)
                                   \/ GatherBreaks(s)
       PROVE  CrawlInv'
  <2>1. at' \notin Searching
    BY <1>11 DEF MirrorHit, MirrorMiss, ArchiveRead, GatherBreaks, GoOn, Fails
  <2>2. UNCHANGED held \/ \E ds \in SUBSET Dates : held' = [held EXCEPT ![s] = ds]
    BY <1>11 DEF MirrorHit, MirrorMiss, ArchiveRead, GatherBreaks
  <2>3. held' \in [Sources -> SUBSET Nat]
    BY <2>2, SourcesAssumption DEF CrawlInv
  <2> QED
    BY <1>2, <2>1, <2>3
<1>12. ASSUME NEW s \in Sources, AskArchive(s) \/ StrayEnds(s) PROVE CrawlInv'
  BY <1>1, <1>12 DEF AskArchive, StrayEnds
<1>13. CASE Timeout
  BY <1>2, <1>13 DEF Timeout, Fails, CrawlInv
<1>14. ASSUME NEW t \in Tasks, Fetching(t) PROVE CrawlInv'
  BY <1>1, <1>14 DEF Fetching
<1>15. CASE UNCHANGED vars
  BY <1>1, <1>15 DEF vars
<1>16. CASE Handle
  BY <1>4, <1>6, <1>7, <1>8, <1>9, <1>10, <1>16 DEF Handle
<1>17. ASSUME NEW s \in Sources, Lookup(s) PROVE CrawlInv'
  BY <1>5, <1>11, <1>12, <1>17 DEF Lookup
<1> QED
  BY <1>3, <1>13, <1>14, <1>15, <1>16, <1>17 DEF Next

-----------------------------------------------------------------------------
(* The order of the copies *)

Dated == Nat \X Nat

LEMMA NewerOrder ==
  ASSUME NEW c \in Dated, NEW e \in Dated, NEW f \in Dated
  PROVE  /\ ~Newer(c, c)
         /\ Newer(c, e) /\ Newer(e, f) => Newer(c, f)
         /\ c # e => Newer(c, e) \/ Newer(e, c)
<1>1. /\ c[1] \in Nat /\ c[2] \in Nat /\ c = <<c[1], c[2]>>
      /\ e[1] \in Nat /\ e[2] \in Nat /\ e = <<e[1], e[2]>>
      /\ f[1] \in Nat /\ f[2] \in Nat
  BY DEF Dated
<1>2. c # e => c[1] # e[1] \/ c[2] # e[2]
  BY <1>1
<1> QED
  BY <1>1, <1>2 DEF Newer

\* How many copies of S are newer than c.
Above(S, c) == {e \in S : Newer(e, c)}

LEMMA AboveIs ==
  ASSUME NEW S \in SUBSET Dated, IsFiniteSet(S), NEW c \in Dated, NEW e \in Dated
  PROVE  /\ IsFiniteSet(Above(S, c)) /\ Cardinality(Above(S, c)) \in Nat
         /\ Newer(e, c) => Above(S, e) \subseteq Above(S, c)
         /\ Newer(e, c) => Cardinality(Above(S, e)) <= Cardinality(Above(S, c))
         /\ Newer(e, c) /\ e \in S => Cardinality(Above(S, e)) < Cardinality(Above(S, c))
<1>1. Above(S, c) \in SUBSET S /\ Above(S, e) \in SUBSET S
  BY DEF Above
<1>2. Newer(e, c) => Above(S, e) \in SUBSET Above(S, c)
  <2> SUFFICES ASSUME Newer(e, c), NEW f \in S, Newer(f, e) PROVE Newer(f, c)
    BY DEF Above
  <2> QED
    BY NewerOrder
<1>3. Newer(e, c) /\ e \in S => e \in Above(S, c) /\ e \notin Above(S, e)
  BY NewerOrder DEF Above
<1> DEFINE A == Above(S, c)
           B == Above(S, e)
<1> HIDE DEF A, B
<1>4. IsFiniteSet(A) /\ IsFiniteSet(B)
  BY <1>1, FS_Subset DEF A, B
<1>5. Cardinality(A) \in Nat /\ Cardinality(B) \in Nat
  BY <1>4, FS_CardinalityType
<1>6. B \in SUBSET A => Cardinality(B) <= Cardinality(A) /\ (Cardinality(A) = Cardinality(B) => A = B)
  BY <1>4, FS_Subset
<1> QED
  BY <1>2, <1>3, <1>4, <1>5, <1>6 DEF A, B

\* Of finitely many copies one is newer than all others: the one with the
\* fewest above it.
LEMMA BestIs ==
  ASSUME NEW S \in SUBSET Dated, IsFiniteSet(S), S # {}
  PROVE  Best(S) \in S /\ \A e \in S \ {Best(S)} : Newer(Best(S), e)
<1> DEFINE Ranks == {Cardinality(Above(S, c)) : c \in S}
<1>1. Ranks \in SUBSET Nat /\ Ranks # {}
  BY AboveIs
<1>2. PICK n \in Ranks : \A m \in Ranks : n <= m
  <2> HIDE DEF Ranks
  <2> QED
    BY <1>1, SmallestExists
<1>3. PICK b \in S : n = Cardinality(Above(S, b))
  BY <1>2
<1>4. ASSUME NEW e \in S \ {b} PROVE Newer(b, e)
  <2>1. n <= Cardinality(Above(S, e))
    BY <1>2
  <2>2. Cardinality(Above(S, e)) \in Nat /\ Cardinality(Above(S, b)) \in Nat
    BY AboveIs
  <2>3. ~(Cardinality(Above(S, e)) < Cardinality(Above(S, b)))
    BY <1>3, <2>1, <2>2
  <2>4. ~Newer(e, b)
    BY <2>3, AboveIs
  <2> QED
    BY <2>4, NewerOrder
<1> QED
  BY <1>4 DEF Best

LEMMA BestOfOne ==
  ASSUME NEW c PROVE Best({c}) = c
BY DEF Best

\* A copy newer than one that is kept is kept.
LEMMA CutKeepsNewer ==
  ASSUME NEW S \in SUBSET Dated, IsFiniteSet(S), NEW n \in Nat,
         NEW c \in Cut(S, n), NEW e \in S, Newer(e, c)
  PROVE  e \in Cut(S, n)
<1>1. c \in S /\ Cardinality(Above(S, c)) < n
  BY DEF Cut, Above
<1>2. /\ Cardinality(Above(S, c)) \in Nat /\ Cardinality(Above(S, e)) \in Nat
      /\ Cardinality(Above(S, e)) <= Cardinality(Above(S, c))
  BY <1>1, AboveIs
<1>3. Cardinality(Above(S, e)) < n
  BY <1>1, <1>2
<1> QED
  BY <1>3 DEF Cut, Above

\* The n newest are n where there are as many: were n the least number to fail,
\* the best of those that the n - 1 newest leave out would be the n-th.
LEMMA CutIsFull ==
  ASSUME NEW S \in SUBSET Dated, IsFiniteSet(S), NEW n \in Nat, n <= Cardinality(S)
  PROVE  Cardinality(Cut(S, n)) >= n
<1> DEFINE Short == {k \in Nat : k <= Cardinality(S) /\ Cardinality(Cut(S, k)) < k}
<1>1. ASSUME NEW k \in Nat
      PROVE  /\ Cut(S, k) \in SUBSET S /\ IsFiniteSet(Cut(S, k))
             /\ Cardinality(Cut(S, k)) \in Nat
  <2>1. Cut(S, k) \in SUBSET S
    BY DEF Cut
  <2> DEFINE C == Cut(S, k)
  <2> HIDE DEF C
  <2>2. IsFiniteSet(C)
    BY <2>1, FS_Subset DEF C
  <2> QED
    BY <2>1, <2>2, FS_CardinalityType DEF C
<1>2. SUFFICES ASSUME Short # {} PROVE FALSE
  BY <1>1
<1>3. PICK k \in Short : \A m \in Short : k <= m
  <2>1. Short \in SUBSET Nat
    OBVIOUS
  <2> HIDE DEF Short
  <2> QED
    BY <1>2, <2>1, SmallestExists
<1>4. Cardinality(S) \in Nat
  BY FS_CardinalityType
<1> DEFINE C == Cut(S, k)
           D == Cut(S, k - 1)
<1>5. /\ k \in Nat /\ k # 0 /\ k - 1 \in Nat /\ k - 1 < k
      /\ k <= Cardinality(S) /\ Cardinality(C) < k
  BY <1>1, <1>3
<1>6. Cardinality(D) >= k - 1
  <2>1. k - 1 \notin Short
    BY <1>3, <1>5
  <2> QED
    BY <1>1, <1>4, <1>5, <2>1
<1>7. D \in SUBSET C
  <2> SUFFICES ASSUME NEW c \in S, Cardinality(Above(S, c)) < k - 1
               PROVE  Cardinality(Above(S, c)) < k
    BY DEF Cut, Above
  <2>1. Cardinality(Above(S, c)) \in Nat
    BY AboveIs
  <2> QED
    BY <1>5, <2>1
<1>8. /\ IsFiniteSet(C) /\ C \in SUBSET S /\ Cardinality(C) \in Nat
      /\ IsFiniteSet(D) /\ D \in SUBSET S /\ Cardinality(D) \in Nat
  BY <1>1, <1>5
<1> HIDE DEF C, D
<1>9. C = D /\ Cardinality(D) = k - 1
  <2>1. Cardinality(D) <= Cardinality(C) /\ (Cardinality(C) = Cardinality(D) => C = D)
    BY <1>7, <1>8, FS_Subset
  <2> QED
    BY <1>5, <1>6, <1>8, <2>1
<1>10. S \ D # {}
  <2> SUFFICES ASSUME S \ D = {} PROVE FALSE
    OBVIOUS
  <2>1. S = D
    BY <1>8
  <2> QED
    BY <1>4, <1>5, <1>9, <2>1
<1> DEFINE b == Best(S \ D)
<1>11. b \in S \ D /\ \A e \in (S \ D) \ {b} : Newer(b, e)
  <2>1. S \ D \in SUBSET Dated /\ S \ D \in SUBSET S
    OBVIOUS
  <2>2. IsFiniteSet(S \ D)
    BY <2>1, FS_Subset
  <2> QED
    BY <1>10, <2>1, <2>2, BestIs
<1> HIDE DEF b
<1>12. Above(S, b) \in SUBSET D
  <2> SUFFICES ASSUME NEW e \in S \ D, Newer(e, b) PROVE FALSE
    BY DEF Above
  <2>1. e # b => Newer(b, e)
    BY <1>11
  <2> QED
    BY <1>11, <2>1, NewerOrder
<1>13. Cardinality(Above(S, b)) <= Cardinality(D)
  <2> DEFINE A == Above(S, b)
  <2> HIDE DEF A
  <2>1. Cardinality(A) <= Cardinality(D)
    BY <1>8, <1>12, FS_Subset DEF A
  <2> QED
    BY <2>1 DEF A
<1>14. Cardinality(Above(S, b)) < k
  <2>1. Cardinality(Above(S, b)) \in Nat
    BY <1>11, AboveIs
  <2> QED
    BY <1>5, <1>9, <1>13, <2>1
<1>15. b \in C
  BY <1>11, <1>14 DEF C, Cut, Above
<1> QED
  BY <1>9, <1>11, <1>15

-----------------------------------------------------------------------------
(* Which copy is kept *)

\* The archives have nothing newer than c.
Tops(c) ==
  c[2] \in Nat /\ \A s \in Sources : \A d \in held[s] : d <= c[2]

\* Copy <<s, d>> is among those of S, or they hold its archive's full share of
\* newer ones.
Counted(s, d, S) ==
  \/ <<s, d>> \in S
  \/ Cardinality({c \in S : c[1] = s /\ c[2] > d}) >= PerArchive

\* What is left to try and what was tried in vain are all that could be newer
\* than a copy left to try.
Candidates ==
  /\ hits \in SUBSET Dated /\ IsFiniteSet(hits) /\ hits # {}
  /\ \A c \in hits : \A s \in Sources : \A d \in held[s] :
       d > c[2] => Counted(s, d, hits \cup failed)

Unsearched == {"start", "variants", "spn", "mirrors", "submit", "collinfo", "deep", "instances"}

KeptInv ==
  /\ held \in [Sources -> SUBSET Dates]
  /\ at \in Unsearched => \A s \in Sources : held[s] = {}
  /\ at = "recent" => \A s \in Sources : held[s] \in {{}, {1}}
  /\ at \in {"render", "mirror_fetch", "record"} => \E c \in hits : hits = {c} /\ Tops(c)
  /\ at \in {"start", "roster"} => failed = {}
  /\ at = "probe" => Candidates
  /\ NewestCopyKept

LEMMA HeldDates ==
  ASSUME KeptInv
  PROVE  \A s \in Sources : \A d \in held[s] : d \in Nat
<1>1. Dates \in SUBSET Nat
  BY SourcesAssumption
<1>2. \A s \in Sources : held[s] \in SUBSET Dates
  BY DEF KeptInv
<1> QED
  BY <1>1, <1>2

LEMMA HeldCopies ==
  ASSUME held \in [Sources -> SUBSET Dates]
  PROVE  /\ AllCopies \in SUBSET Dated /\ IsFiniteSet(AllCopies)
         /\ \A s \in Sources : CopiesOf(s) \in SUBSET AllCopies
<1>1. \A s \in Sources : CopiesOf(s) \in SUBSET (Sources \X Dates)
  BY DEF CopiesOf
<1>2. AllCopies \in SUBSET (Sources \X Dates)
  BY <1>1 DEF AllCopies
<1>3. IsFiniteSet(Sources \X Dates)
  <2>1. IsFiniteSet(Sources)
    BY FS_Interval, SourcesAssumption DEF Sources
  <2>2. IsFiniteSet(Dates)
    BY SourcesAssumption
  <2> QED
    BY <2>1, <2>2, FS_Product
<1>4. IsFiniteSet(AllCopies)
  <2> DEFINE P == Sources \X Dates
  <2> HIDE DEF P
  <2>1. AllCopies \in SUBSET P /\ IsFiniteSet(P)
    BY <1>2, <1>3 DEF P
  <2> QED
    BY <2>1, FS_Subset
<1>5. AllCopies \in SUBSET Dated
  <2>1. Sources \in SUBSET Nat /\ Dates \in SUBSET Nat
    BY SourcesAssumption DEF Sources
  <2> HIDE DEF AllCopies
  <2> QED
    BY <1>2, <2>1 DEF Dated
<1>6. \A s \in Sources : CopiesOf(s) \in SUBSET AllCopies
  BY DEF AllCopies
<1> QED
  BY <1>4, <1>5, <1>6

\* What two cuts leave, first of each archive's copies and then of all of them,
\* holds each copy newer than one it holds, up to each archive's share.
LEMMA RosterKeeps ==
  ASSUME held \in [Sources -> SUBSET Dates],
         NEW U, U = UNION {Cut(CopiesOf(s), PerArchive) : s \in Sources},
         NEW c \in Cut(U, MaxCandidates),
         NEW s \in Sources, NEW d \in held[s], d > c[2]
  PROVE  Counted(s, d, Cut(U, MaxCandidates))
<1> DEFINE H == Cut(U, MaxCandidates)
           S == CopiesOf(s)
           e == <<s, d>>
<1>1. /\ S \in SUBSET AllCopies /\ U \in SUBSET AllCopies /\ AllCopies \in SUBSET Dated
      /\ Cut(S, PerArchive) \in SUBSET U /\ H \in SUBSET U /\ e \in S
  <2>1. \A r \in Sources : Cut(CopiesOf(r), PerArchive) \in SUBSET AllCopies
    BY HeldCopies DEF Cut
  <2>2. AllCopies \in SUBSET Dated /\ S \in SUBSET AllCopies
    BY HeldCopies
  <2>3. U \in SUBSET AllCopies /\ Cut(S, PerArchive) \in SUBSET U
    BY <2>1
  <2>4. H \in SUBSET U
    BY DEF Cut
  <2>5. e \in S
    BY DEF CopiesOf
  <2> QED
    BY <2>2, <2>3, <2>4, <2>5
<1>2. IsFiniteSet(S) /\ IsFiniteSet(U)
  <2>1. IsFiniteSet(AllCopies)
    BY HeldCopies
  <2> HIDE DEF S
  <2> QED
    BY <1>1, <2>1, FS_Subset
<1>3. PerArchive \in Nat /\ MaxCandidates \in Nat
  BY SourcesAssumption
<1>4. ASSUME NEW f \in U, Newer(f, c) PROVE f \in H
  BY <1>1, <1>2, <1>3, <1>4, CutKeepsNewer
<1>5. c \in Dated /\ e \in Dated /\ Newer(e, c)
  BY <1>1 DEF Newer
<1>6. CASE e \in U
  BY <1>4, <1>5, <1>6 DEF Counted
<1>7. CASE e \notin U
  <2> DEFINE T == {f \in H : f[1] = s /\ f[2] > d}
  <2>1. e \notin Cut(S, PerArchive)
    BY <1>1, <1>7
  <2>2. ASSUME NEW f \in Cut(S, PerArchive) PROVE f \in T
    <3>1. f \in S /\ f \in U /\ f \in Dated
      BY <1>1 DEF Cut
    <3>2. ~Newer(e, f)
      BY <1>1, <1>2, <1>3, <2>1, CutKeepsNewer
    <3>3. Newer(f, e)
      BY <1>5, <2>1, <3>1, <3>2, NewerOrder
    <3>4. Newer(f, c)
      BY <1>5, <3>1, <3>3, NewerOrder
    <3>5. f \in H
      BY <1>4, <3>1, <3>4
    <3>6. f[1] = s
      BY <3>1 DEF CopiesOf
    <3>7. f[2] > d
      BY <1>5, <3>1, <3>3, <3>6 DEF Newer, Dated
    <3> QED
      BY <3>5, <3>6, <3>7
  <2>3. PerArchive <= Cardinality(S)
    <3> SUFFICES ASSUME ~(PerArchive <= Cardinality(S)) PROVE FALSE
      OBVIOUS
    <3>1. Cardinality(S) \in Nat /\ Cardinality(Above(S, e)) \in Nat
      BY <1>1, <1>2, <1>5, AboveIs, FS_CardinalityType
    <3>2. Cardinality(Above(S, e)) <= Cardinality(S)
      <4> DEFINE A == Above(S, e)
      <4>1. A \in SUBSET S
        BY DEF Above
      <4> HIDE DEF A, S
      <4>2. Cardinality(A) <= Cardinality(S)
        BY <1>2, <4>1, FS_Subset
      <4> QED
        BY <4>2 DEF A
    <3>3. Cardinality(Above(S, e)) < PerArchive
      BY <1>3, <3>1, <3>2
    <3> QED
      BY <1>1, <2>1, <3>3 DEF Cut, Above
  <2>4. Cardinality(Cut(S, PerArchive)) >= PerArchive
    BY <1>1, <1>2, <1>3, <2>3, CutIsFull
  <2>5. IsFiniteSet(T)
    <3>1. T \in SUBSET U
      BY <1>1
    <3> HIDE DEF T
    <3> QED
      BY <1>2, <3>1, FS_Subset
  <2>6. Cardinality(T) >= PerArchive
    <3> DEFINE C == Cut(S, PerArchive)
    <3>1. C \in SUBSET T
      BY <2>2
    <3> HIDE DEF C, T
    <3>2. Cardinality(C) <= Cardinality(T) /\ IsFiniteSet(C)
      BY <2>5, <3>1, FS_Subset
    <3>3. Cardinality(C) \in Nat /\ Cardinality(T) \in Nat
      BY <2>5, <3>2, FS_CardinalityType
    <3>4. Cardinality(C) >= PerArchive
      BY <2>4 DEF C
    <3> QED
      BY <1>3, <3>2, <3>3, <3>4
  <2> QED
    BY <2>6 DEF Counted
<1> QED
  BY <1>6, <1>7

\* The three ways in which a handler may settle on one copy.
LEMMA Settles ==
  ASSUME KeptInv, at' \in {"render", "mirror_fetch", "record"},
         NEW c, hits' = {c}, Tops(c)',
         held' \in [Sources -> SUBSET Dates]
  PROVE  KeptInv'
BY DEF KeptInv, Unsearched, NewestCopyKept

\* A tier that finds nothing, or gives up, keeps nothing.
LEMMA EndsEmpty ==
  ASSUME KeptInv, at' = "done", result'.outcome # "captured", UNCHANGED held
  PROVE  KeptInv'
BY DEF KeptInv, Unsearched, NewestCopyKept

\* One that settled on a copy may keep it.
LEMMA EndsWith ==
  ASSUME KeptInv, at' = "done", NEW c, Tops(c), result'.used = c, UNCHANGED held
  PROVE  KeptInv'
<1>1. \A s \in Sources : \A d \in held[s] : d \in Nat
  BY HeldDates
<1>2. \A s \in Sources : \A d \in held[s] : ~(d > c[2])
  BY <1>1 DEF Tops
<1> QED
  BY <1>2 DEF KeptInv, Unsearched, NewestCopyKept

LEMMA KeptStart == KeptInv /\ Start => KeptInv'
<1> SUFFICES ASSUME KeptInv, Start PROVE KeptInv'
  OBVIOUS
<1>1. /\ at = "start"
      /\ UNCHANGED <<held, hits, failed>>
      /\ \/ at' \in {"variants", "mirrors", "submit", "collinfo", "instances", "roster"}
         \/ at' = "done" /\ result'.outcome = "failed"
  BY DEF Start, StartWayback, StartArchiveToday, StartSubmit, StartCommonCrawl,
         StartMemento, StartFrontend, GoOn, Fails
<1> QED
  BY <1>1 DEF KeptInv, Unsearched, NewestCopyKept

LEMMA KeptHandle == KeptInv /\ Handle => KeptInv'
<1> SUFFICES ASSUME KeptInv, Handle PROVE KeptInv'
  OBVIOUS
<1>type. \A s \in Sources : \A d \in held[s] : d \in Nat
  BY HeldDates
<1>1. CASE Ask \/ ProbeRawFails
  BY <1>1 DEF Ask, ProbeRawFails, KeptInv, Candidates, Tops, Counted, NewestCopyKept
<1>2. CASE Surprised \/ CrawlsUnlisted
  BY <1>2, EndsEmpty DEF Surprised, CrawlsUnlisted, Fails
<1>3. CASE VariantHit \/ DeepHit
  <2>1. \E d \in Dates :
          /\ held' = [held EXCEPT ![Head(queue)] = {d}]
          /\ hits' = {<<Head(queue), d>>}
    BY <1>3, SourcesAssumption DEF VariantHit, DeepHit
  <2>2. PICK d \in Dates :
          /\ held' = [held EXCEPT ![Head(queue)] = {d}]
          /\ hits' = {<<Head(queue), d>>}
    BY <2>1
  <2>3. at \in {"variants", "deep"} /\ at' \in {"render", "record"}
    BY <1>3 DEF VariantHit, DeepHit, Got, GoOn
  <2>4. d \in Nat
    BY SourcesAssumption
  <2> DEFINE one == {d}
  <2>5. held' \in [Sources -> SUBSET Dates]
    <3>1. one \in SUBSET Dates /\ held' = [held EXCEPT ![Head(queue)] = one]
      BY <2>2
    <3> HIDE DEF one
    <3> QED
      BY <3>1 DEF KeptInv
  <2>6. \A s \in Sources : held'[s] = {} \/ held'[s] = {d}
    BY <2>2, <2>3 DEF KeptInv, Unsearched
  <2>7. PICK c : c = <<Head(queue), d>>
    OBVIOUS
  <2>8. Tops(c)'
    BY <2>4, <2>6, <2>7 DEF Tops
  <2>9. hits' = {c} /\ at' \in {"render", "mirror_fetch", "record"}
    BY <2>2, <2>3, <2>7
  <2> QED
    BY <2>5, <2>8, <2>9, Settles
<1>4. CASE VariantMiss \/ DeepMiss
  <2>1. /\ at \in Unsearched /\ UNCHANGED held
        /\ \/ at' \in {"variants", "spn", "deep"}
           \/ at' = "done" /\ result'.outcome = "failed"
    BY <1>4 DEF VariantMiss, DeepMiss, Got, GoOn, Fails, Unsearched
  <2> QED
    BY <2>1 DEF KeptInv, Unsearched, NewestCopyKept
<1>5. CASE SavePageNow \/ Submit
  <2>1. at \in Unsearched /\ UNCHANGED held
    BY <1>5 DEF SavePageNow, Submit, Unsearched
  <2>2. \/ at' \in {"render", "mirror_fetch"} /\ hits' = {Fresh}
        \/ at' = "done" /\ result'.outcome = "failed"
    BY <1>5 DEF SavePageNow, Submit, GoOn, Fails
  <2>3. Tops(Fresh)'
    BY <2>1 DEF KeptInv, Tops, Fresh
  <2> QED
    BY <2>1, <2>2, <2>3, Settles, EndsEmpty DEF KeptInv
<1>6. CASE Render \/ DirectFetch \/ RecordRead
  <2>1. at \in {"render", "mirror_fetch", "record"} /\ at' = "done" /\ UNCHANGED held
    BY <1>6 DEF Render, DirectFetch, RecordRead, Got, Captured, Fails
  <2>2. result'.outcome = "failed" \/ result'.used = Best(hits)
    BY <1>6 DEF Render, DirectFetch, RecordRead, Captured, Fails
  <2>3. PICK c \in hits : hits = {c} /\ Tops(c)
    BY <2>1 DEF KeptInv
  <2>4. Best(hits) = c
    BY <2>3, BestOfOne
  <2> QED
    BY <2>1, <2>2, <2>3, <2>4, EndsEmpty, EndsWith
<1>7. CASE DirectFetchFails
  <2>1. at = "mirror_fetch" /\ UNCHANGED <<held, hits, failed>>
    BY <1>7 DEF DirectFetchFails, Got
  <2>2. \/ at' \in {"render", "mirror_fetch"}
        \/ at' = "done" /\ result'.outcome = "failed"
    BY <1>7 DEF DirectFetchFails, GoOn, Fails
  <2>3. PICK c \in hits : hits = {c} /\ Tops(c)
    BY <2>1 DEF KeptInv
  <2>4. Tops(c)'
    BY <2>1, <2>3 DEF Tops
  <2> QED
    BY <2>1, <2>2, <2>3, <2>4, EndsEmpty, Settles DEF KeptInv
<1>8. CASE CrawlsCached \/ CrawlsListed
  <2>1. at = "collinfo" /\ at' = "recent" /\ UNCHANGED held
    BY <1>8 DEF CrawlsCached, CrawlsListed, GoOn
  <2> QED
    BY <2>1 DEF KeptInv, Unsearched, NewestCopyKept
<1>9. CASE RecentGathered
  <2>1. at = "recent" /\ UNCHANGED held
    BY <1>9 DEF RecentGathered
  <2>2. \/ AllCopies = {} /\ at' = "deep"
        \/ AllCopies # {} /\ at' = "record" /\ hits' = {Best(AllCopies)}
    BY <1>9 DEF RecentGathered, GoOn
  <2>3. CASE AllCopies = {} /\ at' = "deep"
    <3>1. ASSUME NEW s \in Sources, NEW d \in held[s] PROVE FALSE
      <4>1. <<s, d>> \in AllCopies
        BY DEF AllCopies, CopiesOf
      <4> QED
        BY <2>3, <4>1
    <3> QED
      BY <2>1, <2>3, <3>1 DEF KeptInv, NewestCopyKept
  <2>4. CASE AllCopies # {} /\ at' = "record" /\ hits' = {Best(AllCopies)}
    <3>1. \A s \in Sources : held[s] \in {{}, {1}}
      BY <2>1 DEF KeptInv
    <3>2. PICK c : c = Best(AllCopies)
      OBVIOUS
    <3>3. c \in AllCopies
      BY <2>4, <3>1, <3>2, BestOfRecent
    <3>4. c[2] = 1
      BY <3>1, <3>3 DEF AllCopies, CopiesOf
    <3>5. Tops(c)'
      BY <2>1, <3>1, <3>4 DEF Tops
    <3>6. hits' = {c} /\ at' \in {"render", "mirror_fetch", "record"}
      BY <2>4, <3>2
    <3>7. held' \in [Sources -> SUBSET Dates]
      BY <2>1 DEF KeptInv
    <3> QED
      BY <3>5, <3>6, <3>7, Settles
  <2> QED
    BY <2>2, <2>3, <2>4
<1>10. CASE RosterGathered
  <2>1. at = "roster" /\ UNCHANGED <<held, failed>>
    BY <1>10 DEF RosterGathered
  <2>2. \/ hits' = {} /\ at' = "done" /\ result'.outcome = "failed"
        \/ hits' # {} /\ at' = "probe"
    <3>1. IF hits' = {} THEN Fails("failed") ELSE GoOn("probe")
      BY <1>10 DEF RosterGathered
    <3> QED
      BY <3>1 DEF GoOn, Fails
  <2> DEFINE U == UNION {Cut(CopiesOf(s), PerArchive) : s \in Sources}
             H == Cut(U, MaxCandidates)
  <2>3. hits' = H
    BY <1>10 DEF RosterGathered
  <2>4. failed' = {}
    BY <2>1 DEF KeptInv
  <2>5. H \in SUBSET Dated /\ IsFiniteSet(H)
    <3>1. AllCopies \in SUBSET Dated /\ IsFiniteSet(AllCopies)
      BY HeldCopies DEF KeptInv
    <3>2. \A s \in Sources : Cut(CopiesOf(s), PerArchive) \in SUBSET AllCopies
      BY HeldCopies DEF KeptInv, Cut
    <3>3. U \in SUBSET AllCopies
      BY <3>2
    <3>4. H \in SUBSET AllCopies
      BY <3>3 DEF Cut
    <3> HIDE DEF H
    <3> QED
      BY <3>1, <3>4, FS_Subset
  <2>6. ASSUME NEW c \in H, NEW s \in Sources, NEW d \in held[s], d > c[2]
        PROVE  Counted(s, d, H)
    <3>1. held \in [Sources -> SUBSET Dates]
      BY DEF KeptInv
    <3> DEFINE V == U
    <3>2. V = UNION {Cut(CopiesOf(r), PerArchive) : r \in Sources} /\ c \in Cut(V, MaxCandidates)
      OBVIOUS
    <3> HIDE DEF V
    <3>3. Counted(s, d, Cut(V, MaxCandidates))
      BY <2>6, <3>1, <3>2, RosterKeeps
    <3> QED
      BY <3>3 DEF V
  <2> HIDE DEF H
  <2>7. ASSUME at' = "probe", hits' # {} PROVE Candidates'
    BY <2>1, <2>3, <2>4, <2>5, <2>6, <2>7 DEF Candidates, Counted
  <2>8. CASE hits' # {} /\ at' = "probe"
    BY <2>1, <2>7, <2>8 DEF KeptInv, Unsearched, NewestCopyKept
  <2> QED
    BY <2>1, <2>2, <2>8, EndsEmpty
<1>11. CASE ProbeHit
  <2>1. at = "probe" /\ at' = "done" /\ UNCHANGED <<held, failed>>
    BY <1>11 DEF ProbeHit, Got, Captured
  <2>2. result'.used = Best(hits)
    BY <1>11 DEF ProbeHit, Captured
  <2>3. Candidates
    BY <2>1 DEF KeptInv
  <2> DEFINE b == Best(hits)
  <2>4. b \in hits /\ \A e \in hits \ {b} : Newer(b, e)
    BY <2>3, BestIs DEF Candidates
  <2> HIDE DEF b
  <2>5. \A e \in hits : e[2] \in Nat
    BY <2>3 DEF Candidates, Dated
  <2>6. \A e \in hits : e[2] <= b[2]
    BY <2>4, <2>5 DEF Newer
  <2>7. ASSUME NEW s \in Sources, NEW d \in held[s], d > b[2]
        PROVE  \/ <<s, d>> \in failed
               \/ Cardinality({c \in failed : c[1] = s /\ c[2] > d}) >= PerArchive
    <3>1. Counted(s, d, hits \cup failed)
      BY <2>3, <2>4, <2>7 DEF Candidates
    <3>2. <<s, d>> \notin hits
      BY <1>type, <2>4, <2>5, <2>6, <2>7
    <3>3. \A c \in hits : ~(c[2] > d)
      BY <1>type, <2>4, <2>5, <2>6, <2>7
    <3>4. {c \in hits \cup failed : c[1] = s /\ c[2] > d} = {c \in failed : c[1] = s /\ c[2] > d}
      BY <3>3
    <3> QED
      BY <3>1, <3>2, <3>4 DEF Counted
  <2>8. NewestCopyKept'
    BY <2>1, <2>2, <2>7 DEF NewestCopyKept, b
  <2> QED
    BY <2>1, <2>8 DEF KeptInv, Unsearched
<1>12. CASE ProbeFails
  <2> DEFINE b == Best(hits)
  <2>1. at = "probe" /\ UNCHANGED held /\ hits' = hits \ {b} /\ failed' = failed \cup {b}
    BY <1>12 DEF ProbeFails, Got
  <2>2. \/ hits' = {} /\ at' = "done" /\ result'.outcome = "failed"
        \/ hits' # {} /\ at' = "probe"
    BY <1>12 DEF ProbeFails, GoOn, Fails
  <2>3. Candidates
    BY <2>1 DEF KeptInv
  <2>4. b \in hits
    BY <2>3, BestIs DEF Candidates
  <2> HIDE DEF b
  <2>5. hits' \cup failed' = hits \cup failed /\ hits' \in SUBSET hits
    BY <2>1, <2>4
  <2>6. IsFiniteSet(hits')
    BY <2>3, <2>5, FS_Subset DEF Candidates
  <2>7. ASSUME hits' # {} PROVE Candidates'
    <3>1. \A c \in hits', s \in Sources : \A d \in held[s] :
            d > c[2] => Counted(s, d, hits' \cup failed')
      BY <2>3, <2>5 DEF Candidates
    <3>2. hits' \in SUBSET Dated
      BY <2>3, <2>5 DEF Candidates
    <3> QED
      BY <2>1, <2>6, <2>7, <3>1, <3>2 DEF Candidates, Counted
  <2> QED
    BY <2>1, <2>2, <2>7, EndsEmpty DEF KeptInv, Unsearched, NewestCopyKept
<1>13. CASE InstanceServes \/ InstanceFails
  <2>1. /\ at = "instances" /\ UNCHANGED <<held, hits, failed>>
        /\ at' \in {"instances", "done"}
    BY <1>13 DEF InstanceServes, InstanceFails, GoOn, Fails, Captured
  <2> QED
    BY <2>1 DEF KeptInv, Unsearched, NewestCopyKept
<1> QED
  BY <1>1, <1>2, <1>3, <1>4, <1>5, <1>6, <1>7, <1>8, <1>9, <1>10, <1>11, <1>12, <1>13
  DEF Handle

\* The latest memento of a timemap.
LEMMA BestOfSource ==
  ASSUME NEW s \in Sources, NEW ds \in (SUBSET Dates) \ {{}}
  PROVE  LET c == Best({s} \X ds) IN
         c \in {s} \X ds /\ c[2] \in Nat /\ \A d \in ds : d <= c[2]
<1> DEFINE S == {s} \X ds
<1>1. ds \in SUBSET Nat /\ s \in Nat /\ ds # {}
  <2>1. Dates \in SUBSET Nat /\ s \in Nat
    BY SourcesAssumption DEF Sources
  <2>2. ds \in SUBSET Dates /\ ds # {}
    OBVIOUS
  <2> QED
    BY <2>1, <2>2
<1>2. S \in SUBSET Dated
  BY <1>1 DEF Dated
<1>3. IsFiniteSet(S)
  <2>1. IsFiniteSet(ds) /\ IsFiniteSet({s})
    BY SourcesAssumption, FS_Subset, FS_Singleton
  <2> QED
    BY <2>1, FS_Product
<1>4. S # {}
  <2>1. PICK d \in ds : TRUE
    BY <1>1
  <2>2. <<s, d>> \in S
    BY <2>1
  <2> QED
    BY <2>2
<1>5. PICK c : c = Best(S)
  OBVIOUS
<1>6. c \in S /\ \A e \in S \ {c} : Newer(c, e)
  <2> HIDE DEF S
  <2> QED
    BY <1>2, <1>3, <1>4, <1>5, BestIs
<1>7. c[1] = s /\ c[2] \in ds /\ c[2] \in Nat
  BY <1>1, <1>6
<1>8. ASSUME NEW d \in ds PROVE d <= c[2]
  <2> DEFINE e == <<s, d>>
  <2>1. e \in S /\ e[2] = d /\ d \in Nat
    BY <1>1
  <2> HIDE DEF e, S
  <2>2. CASE e = c
    BY <1>7, <2>1, <2>2
  <2>3. CASE e # c
    <3>1. Newer(c, e)
      BY <1>6, <2>1, <2>3
    <3> QED
      BY <1>7, <2>1, <3>1 DEF Newer
  <2> QED
    BY <2>2, <2>3
<1> QED
  BY <1>5, <1>6, <1>7, <1>8

LEMMA KeptLookup ==
  ASSUME KeptInv, NEW s \in Sources, Lookup(s)
  PROVE  KeptInv'
<1>1. CASE MirrorHit(s)
  <2>1. PICK ds \in (SUBSET Dates) \ {{}} :
          held' = [held EXCEPT ![s] = ds] /\ hits' = {Best({s} \X ds)}
    BY <1>1 DEF MirrorHit
  <2>2. at = "mirrors" /\ at' = "mirror_fetch"
    BY <1>1 DEF MirrorHit, GoOn
  <2>3. PICK c : c = Best({s} \X ds)
    OBVIOUS
  <2>4. c[2] \in Nat /\ \A d \in ds : d <= c[2]
    BY <2>1, <2>3, BestOfSource
  <2>7. \A r \in Sources : held'[r] = {} \/ held'[r] = ds
    BY <2>1, <2>2 DEF KeptInv, Unsearched
  <2>8. Tops(c)'
    BY <2>4, <2>7 DEF Tops
  <2>9. held' \in [Sources -> SUBSET Dates]
    BY <2>1 DEF KeptInv
  <2> QED
    BY <2>1, <2>2, <2>3, <2>8, <2>9, Settles
<1>2. CASE MirrorMiss(s)
  <2>1. /\ at = "mirrors" /\ UNCHANGED <<held, hits, failed>>
        /\ \/ at' = "mirrors"
           \/ at' = "done" /\ result'.outcome = "failed"
    BY <1>2 DEF MirrorMiss, GoOn, Fails
  <2> QED
    BY <2>1 DEF KeptInv, Unsearched, NewestCopyKept
<1>3. CASE RecentRead(s)
  <2>1. at = "recent" /\ UNCHANGED <<at, failed>>
    BY <1>3 DEF RecentRead
  <2>2. UNCHANGED held \/ held' = [held EXCEPT ![s] = {1}]
    BY <1>3 DEF RecentRead
  <2>3. held' \in [Sources -> SUBSET Dates]
    <3> DEFINE one == {1}
    <3>1. one \in SUBSET Dates /\ (UNCHANGED held \/ held' = [held EXCEPT ![s] = one])
      BY <2>2, SourcesAssumption
    <3> HIDE DEF one
    <3> QED
      BY <3>1 DEF KeptInv
  <2>4. \A r \in Sources : held'[r] \in {{}, {1}}
    BY <2>1, <2>2 DEF KeptInv
  <2> QED
    BY <2>1, <2>3, <2>4 DEF KeptInv, Unsearched, NewestCopyKept
<1>4. CASE AskArchive(s) \/ StrayEnds(s)
  BY <1>4 DEF AskArchive, StrayEnds, KeptInv, Candidates, Tops, Counted, NewestCopyKept
<1>5. CASE ArchiveRead(s)
  <2>1. at = "roster" /\ UNCHANGED <<at, failed>>
    BY <1>5 DEF ArchiveRead
  <2>2. UNCHANGED held \/ \E ds \in SUBSET Dates : held' = [held EXCEPT ![s] = ds]
    BY <1>5 DEF ArchiveRead
  <2>3. held' \in [Sources -> SUBSET Dates]
    BY <2>2 DEF KeptInv
  <2> QED
    BY <2>1, <2>3 DEF KeptInv, Unsearched, NewestCopyKept
<1>6. CASE GatherBreaks(s)
  BY <1>6, EndsEmpty DEF GatherBreaks, Fails
<1> QED
  BY <1>1, <1>2, <1>3, <1>4, <1>5, <1>6 DEF Lookup

LEMMA KeptNext == KeptInv /\ [Next]_vars => KeptInv'
<1> SUFFICES ASSUME KeptInv, [Next]_vars PROVE KeptInv'
  OBVIOUS
<1>1. ASSUME UNCHANGED <<at, held, hits, failed, result>> PROVE KeptInv'
  BY <1>1 DEF KeptInv, Candidates, Tops, Counted, NewestCopyKept
<1>2. CASE Timeout
  BY <1>2, EndsEmpty DEF Timeout, Fails
<1>3. ASSUME NEW t \in Tasks, Fetching(t) PROVE KeptInv'
  BY <1>1, <1>3 DEF Fetching
<1>4. CASE UNCHANGED vars
  BY <1>1, <1>4 DEF vars
<1> QED
  BY <1>2, <1>3, <1>4, KeptStart, KeptHandle, KeptLookup DEF Next

-----------------------------------------------------------------------------
(* The types of what a tier remembers *)

Enumerates(q, S) ==
  /\ q \in [1..Cardinality(S) -> S]
  /\ \A i, k \in DOMAIN q : i < k => q[i] < q[k]

\* A finite set of numbers has its ascending enumeration: the smallest of them
\* before that of the others.
LEMMA AscendingIs ==
  ASSUME NEW S \in SUBSET Nat, IsFiniteSet(S)
  PROVE  Enumerates(Ascending(S), S)
<1> DEFINE Bad == {n \in Nat : \E T \in SUBSET S : /\ Cardinality(T) = n
                                                     /\ ~\E q : Enumerates(q, T)}
<1>1. SUFFICES ASSUME ~\E q : Enumerates(q, S) PROVE FALSE
  BY DEF Ascending, Enumerates
<1>2. Cardinality(S) \in Bad
  BY <1>1, FS_CardinalityType
<1>3. PICK n \in Bad : \A m \in Bad : n <= m
  <2>1. Bad \in SUBSET Nat /\ Bad # {}
    BY <1>2
  <2> HIDE DEF Bad
  <2> QED
    BY <2>1, SmallestExists
<1>4. PICK T \in SUBSET S : Cardinality(T) = n /\ ~\E q : Enumerates(q, T)
  BY <1>3
<1>5. n \in Nat /\ IsFiniteSet(T) /\ T \in SUBSET Nat
  BY <1>3, <1>4, FS_Subset
<1>6. CASE n = 0
  <2>1. T = {}
    BY <1>4, <1>5, <1>6, FS_EmptySet
  <2> DEFINE q == [i \in 1..0 |-> 0]
  <2>2. q \in [1..0 -> T] /\ \A i, k \in DOMAIN q : i < k => q[i] < q[k]
    BY <2>1
  <2>3. Enumerates(q, T)
    BY <1>4, <1>6, <2>2 DEF Enumerates
  <2> QED
    BY <1>4, <2>3
<1>7. CASE n # 0
  <2>1. T # {}
    BY <1>4, <1>7, FS_EmptySet
  <2>2. PICK m \in T : \A k \in T : m <= k
    BY <1>5, <2>1, SmallestExists
  <2> DEFINE R == T \ {m}
  <2>3. Cardinality(R) = n - 1 /\ R \in SUBSET S
    BY <1>4, <1>5, FS_RemoveElement
  <2>4. PICK q : Enumerates(q, R)
    <3>1. n - 1 \in Nat /\ ~(n <= n - 1)
      BY <1>5, <1>7
    <3>2. n - 1 \notin Bad
      BY <1>3, <3>1
    <3> QED
      BY <2>3, <3>1, <3>2
  <2>5. q \in [1..(n - 1) -> R] /\ \A i, k \in 1..(n - 1) : i < k => q[i] < q[k]
    BY <2>3, <2>4 DEF Enumerates
  <2> DEFINE r == [i \in 1..n |-> IF i = 1 THEN m ELSE q[i - 1]]
  <2>6. \A i \in 1..n : i # 1 => i - 1 \in 1..(n - 1)
    BY <1>5
  <2>7. r \in [1..n -> T]
    BY <2>5, <2>6
  <2>8. \A i, k \in 1..n : i < k => r[i] < r[k]
    <3> SUFFICES ASSUME NEW i \in 1..n, NEW k \in 1..n, i < k PROVE r[i] < r[k]
      OBVIOUS
    <3>1. k # 1 /\ k - 1 \in 1..(n - 1) /\ r[k] = q[k - 1]
      BY <2>6
    <3>2. CASE i = 1
      <4>1. q[k - 1] \in T /\ q[k - 1] # m
        BY <2>5, <3>1
      <4>2. m <= q[k - 1] /\ m \in Nat /\ q[k - 1] \in Nat
        BY <1>5, <2>2, <4>1
      <4> QED
        BY <3>1, <3>2, <4>1, <4>2
    <3>3. CASE i # 1
      <4>1. i - 1 \in 1..(n - 1) /\ r[i] = q[i - 1] /\ i - 1 < k - 1
        BY <2>6, <3>3
      <4> QED
        BY <2>5, <3>1, <4>1
    <3> QED
      BY <3>2, <3>3
  <2>9. Enumerates(r, T)
    <3> HIDE DEF r
    <3>1. DOMAIN r = 1..n
      BY <2>7
    <3> QED
      BY <1>4, <2>7, <2>8, <3>1 DEF Enumerates
  <2> QED
    BY <1>4, <2>9
<1> QED
  BY <1>6, <1>7

LEMMA AscendingSeq ==
  ASSUME NEW S \in SUBSET Sources
  PROVE  Ascending(S) \in Seq(Sources) /\ (S # {} => Ascending(S) # << >>)
<1>1. IsFiniteSet(Sources) /\ Sources \in SUBSET Nat
  <2>1. IsFiniteSet(Sources)
    BY FS_Interval, SourcesAssumption DEF Sources
  <2> QED
    BY <2>1, SourcesAssumption DEF Sources
<1>2. IsFiniteSet(S) /\ S \in SUBSET Nat
  BY <1>1, FS_Subset
<1>3. Cardinality(S) \in Nat /\ (S # {} => Cardinality(S) # 0)
  BY <1>2, FS_CardinalityType, FS_EmptySet
<1>4. Ascending(S) \in [1..Cardinality(S) -> S]
  BY <1>2, AscendingIs DEF Enumerates
<1> DEFINE n == Cardinality(S)
           q == Ascending(S)
<1> HIDE DEF n, q
<1>5. q \in [1..n -> Sources] /\ n \in Nat
  BY <1>3, <1>4 DEF n, q
<1>6. q \in Seq(Sources) /\ Len(q) = n
  BY <1>5
<1> QED
  BY <1>3, <1>6 DEF n, q

LEMMA RotationSeq ==
  ASSUME NEW s \in Sources
  PROVE  Rotation(s) \in Seq(Sources) /\ Rotation(s) # << >>
<1> DEFINE q == Ascending(Sources \ {s})
<1>1. q \in Seq(Sources)
  BY AscendingSeq
<1> HIDE DEF q
<1>2. <<s>> \in Seq(Sources)
  OBVIOUS
<1>3. <<s>> \o q \in Seq(Sources) /\ Len(<<s>> \o q) = 1 + Len(q) /\ Len(q) \in Nat
  BY <1>1, <1>2
<1> QED
  BY <1>3 DEF Rotation, q

\* Phases in which the handler takes the first source of the queue.
Walking == {"variants", "deep", "instances", "mirror_fetch"}

QueueInv == queue \in Seq(Sources) /\ (at \in Walking => queue # << >>)

LEMMA TailOf ==
  ASSUME QueueInv, at \in Walking
  PROVE  /\ Head(queue) \in Sources
         /\ Tail(queue) \in Seq(Sources)
         /\ Len(queue) # 1 => Tail(queue) # << >>
         /\ Len(queue) > 1 <=> Len(queue) # 1
<1>1. queue \in Seq(Sources) /\ queue # << >>
  BY DEF QueueInv
<1>2. Len(queue) \in Nat /\ Len(queue) # 0
  BY <1>1
<1>3. Tail(queue) \in Seq(Sources) /\ Len(Tail(queue)) = Len(queue) - 1
  BY <1>1, <1>2
<1>4. Head(queue) \in Sources
  BY <1>1, <1>2
<1>5. Len(queue) # 1 => Tail(queue) # << >>
  <2> DEFINE t == Tail(queue)
  <2>1. Len(queue) # 1 => Len(t) # 0
    BY <1>2, <1>3
  <2> HIDE DEF t
  <2>2. t = << >> => Len(t) = 0
    OBVIOUS
  <2> QED
    BY <2>1, <2>2 DEF t
<1> QED
  BY <1>2, <1>3, <1>4, <1>5

LEMMA QueueNext == QueueInv /\ [Next]_vars => QueueInv'
<1> SUFFICES ASSUME QueueInv, [Next]_vars PROVE QueueInv'
  OBVIOUS
<1> USE DEF Walking
<1>1. ASSUME UNCHANGED queue, at' = at \/ at' \notin Walking PROVE QueueInv'
  BY <1>1 DEF QueueInv
<1>2. ASSUME queue' \in Seq(Sources), queue' # << >> PROVE QueueInv'
  BY <1>2 DEF QueueInv
<1>3. NumSources \in Nat /\ NumSources >= 1
  BY SourcesAssumption
<1>all. [i \in Sources |-> i] \in Seq(Sources) /\ [i \in Sources |-> i] # << >>
  <2> DEFINE q == [i \in 1..NumSources |-> i]
  <2>1. q \in [1..NumSources -> 1..NumSources] /\ q[1] = 1 /\ DOMAIN q = 1..NumSources
    BY <1>3
  <2> HIDE DEF q
  <2>2. q \in Seq(1..NumSources) /\ Len(q) = NumSources
    BY <1>3, <2>1
  <2>3. q # << >>
    BY <1>3, <2>2
  <2> QED
    BY <2>2, <2>3 DEF q, Sources
<1>one. <<1>> \in Seq(Sources) /\ <<1>> # << >>
  BY <1>3 DEF Sources
<1>4. CASE Start
  <2>1. CASE StartWayback
    BY <1>2, <1>all, <2>1 DEF StartWayback
  <2>2. CASE StartCommonCrawl
    BY <1>2, <1>one, <2>2 DEF StartCommonCrawl
  <2>3. CASE StartArchiveToday \/ StartSubmit \/ StartMemento
    BY <1>1, <2>3 DEF StartArchiveToday, StartSubmit, StartMemento, GoOn
  <2>4. CASE StartFrontend
    <3>1. PICK S \in SUBSET Sources :
            IF S = {} THEN Fails("failed") /\ UNCHANGED queue
            ELSE GoOn("instances") /\ queue' = Ascending(S)
      BY <2>4 DEF StartFrontend
    <3>2. CASE S = {}
      BY <1>1, <3>1, <3>2 DEF Fails
    <3>3. CASE S # {}
      BY <1>2, <3>1, <3>3, AscendingSeq
    <3> QED
      BY <3>2, <3>3
  <2> QED
    BY <1>4, <2>1, <2>2, <2>3, <2>4 DEF Start
<1>5. CASE VariantMiss \/ DeepMiss \/ InstanceFails
  <2>1. at \in Walking /\ queue' = Tail(queue)
    BY <1>5 DEF VariantMiss, DeepMiss, InstanceFails, Got
  <2>2. Len(queue) = 1 => at' \in {"spn", "done"}
    BY <1>5 DEF VariantMiss, DeepMiss, InstanceFails, GoOn, Fails
  <2> QED
    BY <2>1, <2>2, TailOf DEF QueueInv
<1>6. CASE DirectFetchFails
  <2>1. at \in Walking /\ queue' = Tail(queue)
    BY <1>6 DEF DirectFetchFails, Got
  <2>2. ~(Len(queue) > 1) => at' \in {"render", "done"}
    BY <1>6 DEF DirectFetchFails, GoOn, Fails
  <2> QED
    BY <2>1, <2>2, TailOf DEF QueueInv
<1>7. CASE Submit
  BY <1>1, <1>2, <1>7, RotationSeq DEF Submit, GoOn, Fails
<1>8. CASE RecentGathered
  BY <1>1, <1>2, <1>all, <1>8 DEF RecentGathered, GoOn
<1>9. CASE ProbeRawFails
  BY <1>2, <1>9, <1>one DEF ProbeRawFails, PlainVariant
<1>10. CASE \/ Ask \/ Surprised \/ VariantHit \/ SavePageNow \/ Render \/ DirectFetch
            \/ CrawlsCached \/ CrawlsListed \/ CrawlsUnlisted \/ DeepHit \/ RecordRead
            \/ ProbeHit \/ InstanceServes
  <2>1. UNCHANGED queue
    BY <1>10 DEF Ask, Surprised, VariantHit, SavePageNow, Render, DirectFetch, CrawlsCached,
                 CrawlsListed, CrawlsUnlisted, DeepHit, RecordRead, ProbeHit, InstanceServes
  <2>2. at' = at \/ at' \notin Walking
    BY <1>10 DEF Ask, Surprised, VariantHit, SavePageNow, Render, DirectFetch, CrawlsCached,
                 CrawlsListed, CrawlsUnlisted, DeepHit, RecordRead, ProbeHit, InstanceServes,
                 GoOn, Fails, Captured
  <2> QED
    BY <1>1, <2>1, <2>2
<1>17. CASE ProbeFails
  <2>1. queue' = << >> /\ at' \notin Walking
    BY <1>17 DEF ProbeFails, GoOn, Fails
  <2> QED
    BY <2>1 DEF QueueInv
<1>16. CASE RosterGathered
  <2>1. UNCHANGED queue /\ (IF hits' = {} THEN Fails("failed") ELSE GoOn("probe"))
    BY <1>16 DEF RosterGathered
  <2> QED
    BY <1>1, <2>1 DEF GoOn, Fails
<1>11. CASE Handle
  BY <1>5, <1>6, <1>7, <1>8, <1>9, <1>10, <1>11, <1>16, <1>17
  DEF Handle
<1>12. ASSUME NEW s \in Sources, Lookup(s) PROVE QueueInv'
  <2>1. CASE MirrorHit(s)
    BY <1>2, <2>1, RotationSeq DEF MirrorHit
  <2>2. CASE MirrorMiss(s) \/ RecentRead(s) \/ AskArchive(s) \/ ArchiveRead(s)
              \/ GatherBreaks(s) \/ StrayEnds(s)
    BY <1>1, <2>2 DEF MirrorMiss, RecentRead, AskArchive, ArchiveRead, GatherBreaks,
                      StrayEnds, GoOn, Fails
  <2> QED
    BY <1>12, <2>1, <2>2 DEF Lookup
<1>13. CASE Timeout
  BY <1>1, <1>13 DEF Timeout, Fails
<1>14. ASSUME NEW t \in Tasks, Fetching(t) PROVE QueueInv'
  BY <1>1, <1>14 DEF Fetching
<1>15. CASE UNCHANGED vars
  BY <1>1, <1>15 DEF vars
<1> QED
  BY <1>4, <1>11, <1>12, <1>13, <1>14, <1>15 DEF Next

CopiesInv ==
  /\ hits \subseteq Copies
  /\ failed \subseteq Copies
  /\ result \in TierResult

\* The best of what is left to try is one of them.
LEMMA BestOfHits ==
  ASSUME KeptInv, at \in {"render", "mirror_fetch", "record", "probe"}
  PROVE  Best(hits) \in hits
<1>1. CASE at = "probe"
  BY <1>1, BestIs DEF KeptInv, Candidates
<1>2. CASE at # "probe"
  <2>1. PICK c \in hits : hits = {c}
    BY <1>2 DEF KeptInv
  <2> QED
    BY <2>1, BestOfOne
<1> QED
  BY <1>1, <1>2

LEMMA CopiesNext ==
  KeptInv /\ QueueInv /\ CopiesInv /\ [Next]_vars => CopiesInv'
<1> SUFFICES ASSUME KeptInv, QueueInv, CopiesInv, [Next]_vars PROVE CopiesInv'
  OBVIOUS
<1>res. \A o \in {"failed", "broken"} : [outcome |-> o] \in TierResult
  BY DEF TierResult
<1>cap. \A c \in Copies : [outcome |-> "captured", used |-> c] \in TierResult
  BY DEF TierResult
<1>fresh. Fresh \in Copies /\ \A s \in Sources : \A d \in Dates : <<s, d>> \in Copies
  BY DEF Copies, Fresh
<1>dates. 0 \in Dates /\ 1 \in Dates
  BY SourcesAssumption
<1>1. ASSUME UNCHANGED <<hits, failed>>,
             \/ UNCHANGED result
             \/ \E o \in {"failed", "broken"} : result' = [outcome |-> o]
      PROVE  CopiesInv'
  BY <1>1, <1>res DEF CopiesInv
<1>2. CASE Start
  BY <1>1, <1>2 DEF Start, StartWayback, StartArchiveToday, StartSubmit, StartCommonCrawl,
                    StartMemento, StartFrontend, GoOn, Fails
<1>3. CASE \/ Ask \/ Surprised \/ VariantMiss \/ DirectFetchFails \/ CrawlsCached
           \/ CrawlsListed \/ CrawlsUnlisted \/ DeepMiss \/ ProbeRawFails \/ InstanceFails
  <2>1. UNCHANGED <<hits, failed>>
    BY <1>3 DEF Ask, Surprised, VariantMiss, DirectFetchFails, CrawlsCached, CrawlsListed,
                CrawlsUnlisted, DeepMiss, ProbeRawFails, InstanceFails
  <2>2. UNCHANGED result \/ result' = [outcome |-> "failed"]
    BY <1>3 DEF Ask, Surprised, VariantMiss, DirectFetchFails, CrawlsCached, CrawlsListed,
                CrawlsUnlisted, DeepMiss, ProbeRawFails, InstanceFails, GoOn, Fails
  <2> QED
    BY <1>1, <2>1, <2>2
<1>4. CASE VariantHit \/ DeepHit
  <2>1. at \in Walking /\ UNCHANGED <<failed, result>>
    BY <1>4 DEF VariantHit, DeepHit, Got, GoOn, Walking
  <2>2. PICK d \in Dates : hits' = {<<Head(queue), d>>}
    BY <1>4, <1>dates DEF VariantHit, DeepHit
  <2>3. <<Head(queue), d>> \in Copies
    BY <1>fresh, <2>1, TailOf
  <2> QED
    BY <2>1, <2>2, <2>3 DEF CopiesInv
<1>5. CASE SavePageNow \/ Submit
  <2>1. /\ UNCHANGED failed
        /\ \/ hits' = {Fresh} /\ UNCHANGED result
           \/ UNCHANGED hits /\ result' = [outcome |-> "failed"]
    BY <1>5 DEF SavePageNow, Submit, GoOn, Fails
  <2> QED
    BY <1>fresh, <1>res, <2>1 DEF CopiesInv
<1>6. CASE Render \/ DirectFetch \/ RecordRead \/ ProbeHit
  <2>1. at \in {"render", "mirror_fetch", "record", "probe"} /\ UNCHANGED <<hits, failed>>
    BY <1>6 DEF Render, DirectFetch, RecordRead, ProbeHit, Got
  <2>2. \/ result' = [outcome |-> "failed"]
        \/ result' = [outcome |-> "captured", used |-> Best(hits)]
    BY <1>6 DEF Render, DirectFetch, RecordRead, ProbeHit, Captured, Fails
  <2>3. Best(hits) \in Copies
    BY <2>1, BestOfHits DEF CopiesInv
  <2> QED
    BY <1>res, <1>cap, <2>1, <2>2, <2>3 DEF CopiesInv
<1>7. CASE RecentGathered
  <2>1. at = "recent" /\ UNCHANGED <<failed, result>>
    BY <1>7 DEF RecentGathered, GoOn
  <2>2. \/ UNCHANGED hits
        \/ AllCopies # {} /\ hits' = {Best(AllCopies)}
    BY <1>7 DEF RecentGathered
  <2>3. ASSUME AllCopies # {} PROVE Best(AllCopies) \in Copies
    <3>1. Best(AllCopies) \in AllCopies
      BY <2>1, <2>3, BestOfRecent DEF KeptInv
    <3>2. AllCopies \subseteq Copies
      BY <1>fresh DEF AllCopies, CopiesOf, KeptInv
    <3> QED
      BY <3>1, <3>2
  <2> QED
    BY <2>1, <2>2, <2>3 DEF CopiesInv
<1>8. CASE RosterGathered
  <2>1. UNCHANGED failed /\ (UNCHANGED result \/ result' = [outcome |-> "failed"])
    <3>1. UNCHANGED failed /\ (IF hits' = {} THEN Fails("failed") ELSE GoOn("probe"))
      BY <1>8 DEF RosterGathered
    <3> QED
      BY <3>1 DEF Fails, GoOn
  <2> DEFINE U == UNION {Cut(CopiesOf(s), PerArchive) : s \in Sources}
  <2>2. hits' = Cut(U, MaxCandidates)
    BY <1>8 DEF RosterGathered
  <2>3. \A s \in Sources : CopiesOf(s) \subseteq Copies
    BY <1>fresh DEF CopiesOf, KeptInv
  <2>4. U \subseteq Copies
    BY <2>3 DEF Cut
  <2> HIDE DEF U
  <2>5. hits' \subseteq Copies
    BY <2>2, <2>4 DEF Cut
  <2> QED
    BY <1>res, <2>1, <2>5 DEF CopiesInv
<1>9. CASE ProbeFails
  <2>1. at = "probe"
    BY <1>9 DEF ProbeFails, Got
  <2>2. /\ hits' = hits \ {Best(hits)}
        /\ failed' = failed \cup {Best(hits)}
        /\ UNCHANGED result \/ result' = [outcome |-> "failed"]
    BY <1>9 DEF ProbeFails, Fails, GoOn
  <2>3. Best(hits) \in hits
    BY <2>1, BestOfHits
  <2> QED
    BY <1>res, <2>2, <2>3 DEF CopiesInv
<1>10. CASE InstanceServes
  <2>1. /\ at \in Walking /\ UNCHANGED <<hits, failed>>
        /\ result' = [outcome |-> "captured", used |-> <<Head(queue), 0>>]
    BY <1>10 DEF InstanceServes, Captured, Walking
  <2>2. <<Head(queue), 0>> \in Copies
    BY <1>fresh, <1>dates, <2>1, TailOf
  <2> QED
    BY <1>cap, <2>1, <2>2 DEF CopiesInv
<1>11. ASSUME NEW s \in Sources, Lookup(s) PROVE CopiesInv'
  <2>1. CASE MirrorHit(s)
    <3>1. PICK ds \in (SUBSET Dates) \ {{}} : hits' = {Best({s} \X ds)}
      BY <2>1 DEF MirrorHit
    <3>2. at' = "mirror_fetch" /\ UNCHANGED <<failed, result>>
      BY <2>1 DEF MirrorHit, GoOn
    <3>3. \A d \in ds : <<s, d>> \in Copies
      BY <1>fresh, <3>1
    <3>4. Best({s} \X ds) \in {s} \X ds
      BY <3>1, BestOfSource
    <3> QED
      BY <3>1, <3>2, <3>3, <3>4 DEF CopiesInv
  <2>2. CASE MirrorMiss(s) \/ RecentRead(s) \/ AskArchive(s) \/ ArchiveRead(s)
              \/ GatherBreaks(s) \/ StrayEnds(s)
    BY <1>1, <2>2 DEF MirrorMiss, RecentRead, AskArchive, ArchiveRead, GatherBreaks,
                      StrayEnds, GoOn, Fails
  <2> QED
    BY <1>11, <2>1, <2>2 DEF Lookup
<1>12. CASE Timeout
  BY <1>1, <1>12 DEF Timeout, Fails
<1>13. ASSUME NEW t \in Tasks, Fetching(t) PROVE CopiesInv'
  BY <1>1, <1>13 DEF Fetching
<1>14. CASE UNCHANGED vars
  BY <1>1, <1>14 DEF vars
<1>15. CASE Handle
  BY <1>3, <1>4, <1>5, <1>6, <1>7, <1>8, <1>9, <1>10, <1>15 DEF Handle
<1> QED
  BY <1>2, <1>11, <1>12, <1>13, <1>14, <1>15 DEF Next

-----------------------------------------------------------------------------
(* Theorems *)

SourcesInv == FetchInv /\ LookupInv /\ CrawlInv

LEMMA SourcesInit == Init => SourcesInv
BY TasksAre, SourcesAssumption
   DEF Init, FetchInit, SourcesInv, FetchInv, LookupInv, Quiet, CrawlInv,
       NewestSourceFirst, Phases, AtOnce, InTurn, Browsing, Idle

\* The strengthened invariant holds of every tier.
THEOREM SourcesSafe == Spec => []SourcesInv
<1>1. SourcesInv /\ [Next]_vars => SourcesInv'
  BY LookupsNext, CrawlNext DEF SourcesInv
<1> QED
  BY <1>1, SourcesInit, PTL DEF Spec

\* However retries and redirects alternate, a fetch sends no more requests than
\* it has attempts and redirects (http_client.py:246-361).
THEOREM FetchesAreBounded == Spec => []RequestsBounded
<1>1. SourcesInv => RequestsBounded
  <2> SUFFICES ASSUME FetchInv, NEW t \in Tasks, req[t].at # "idle"
               PROVE  req[t].sent <= req[t].attempts + MaxRedirects
    BY DEF SourcesInv, RequestsBounded
  <2>1. req[t] \in Request /\ Sound(req[t])
    BY WorkingRequest
  <2> QED
    BY <2>1, FetchAssumption DEF Request, Sound
<1> QED
  BY <1>1, SourcesSafe, PTL

\* Whatever a redirect or a retry makes of the URL, a guarded request leaves
\* only for one that the safety check has passed (http_client.py:269-287).
THEOREM HopsAreChecked == Spec => []EveryHopChecked
<1>1. SourcesInv => EveryHopChecked
  <2> SUFFICES ASSUME FetchInv, NEW t \in Tasks, req[t].at = "send", req[t].guarded
               PROVE  req[t].checked /\ ~Refused(req[t].hop)
    BY DEF SourcesInv, EveryHopChecked
  <2> QED
    BY WorkingRequest DEF Sound
<1> QED
  BY <1>1, SourcesSafe, PTL

\* A winner, a failure or a timeout in the middle of a parallel lookup leaves no
\* other lookup running (fallback.py:245-268, memento.py:177-190).
THEOREM LookupsAreAwaited == Spec => []NoStrayLookup
<1>1. SourcesInv => NoStrayLookup
  BY DEF SourcesInv, LookupInv, NoStrayLookup, Quiet
<1> QED
  BY <1>1, SourcesSafe, PTL

\* In whatever order the crawls answer, the newest of those that hold the URL is
\* read (commoncrawl.py:171-259).
THEOREM NewestCrawlIsRead == Spec => []NewestSourceFirst
<1>1. SourcesInv => NewestSourceFirst
  BY DEF SourcesInv, CrawlInv
<1> QED
  BY <1>1, SourcesSafe, PTL

LEMMA TypesInit == Init => KeptInv /\ QueueInv /\ CopiesInv
<1> SUFFICES ASSUME Init PROVE KeptInv /\ QueueInv /\ CopiesInv
  OBVIOUS
<1>1. KeptInv
  BY DEF Init, KeptInv, Unsearched, NewestCopyKept
<1>2. QueueInv
  BY DEF Init, QueueInv, Walking
<1>3. CopiesInv
  BY DEF Init, CopiesInv, TierResult
<1> QED
  BY <1>1, <1>2, <1>3

LEMMA TypesAlways == Spec => [](KeptInv /\ QueueInv /\ CopiesInv)
<1>1. KeptInv /\ QueueInv /\ CopiesInv /\ [Next]_vars => KeptInv' /\ QueueInv' /\ CopiesInv'
  BY KeptNext, QueueNext, CopiesNext
<1> QED
  BY <1>1, TypesInit, PTL DEF Spec

\* The variables of a tier keep their types, because a handler that takes the
\* next source or copy always has one left to take (the loops of fallback.py,
\* memento.py, commoncrawl.py and privacy_frontends.py).
THEOREM SourcesTypes == Spec => []SourcesTypeOK
<1>1. SourcesInv /\ KeptInv /\ QueueInv /\ CopiesInv => SourcesTypeOK
  <2> SUFFICES ASSUME SourcesInv, KeptInv, QueueInv, CopiesInv PROVE SourcesTypeOK
    OBVIOUS
  <2>1. FetchTypeOK
    BY DEF SourcesInv, FetchInv, FetchTypeOK, SoundRequest
  <2>2. at \in InTurn \cup AtOnce \cup Browsing \cup {"start", "done"} /\ todo \subseteq Sources
    BY DEF SourcesInv, LookupInv, Phases
  <2>3. held \in [Sources -> SUBSET Dates]
    BY DEF KeptInv
  <2> QED
    BY <2>1, <2>2, <2>3 DEF SourcesTypeOK, QueueInv, CopiesInv
<1> QED
  BY <1>1, SourcesSafe, TypesAlways, PTL

\* Of the copies the archives answered with, the tier keeps the newest that
\* works: a newer one was tried first and failed, or its archive had its full
\* share of newer ones tried (memento.py:129-194, worker.py:801-864).
THEOREM NewestCopyIsKept == Spec => []NewestCopyKept
<1>1. KeptInv => NewestCopyKept
  BY DEF KeptInv
<1> QED
  BY <1>1, TypesAlways, PTL
=============================================================================
