----------------------------- MODULE CapturePool -----------------------------
(***************************************************************************)
(* What the captures of one worker share: the browsers (browser_pool.py),  *)
(* the proxies (ProxyRotator of proxy.py) and the database connections     *)
(* (the pool made in worker.py), under _process_job_inner, _dispatch and   *)
(* the wait_for around it.                                                 *)
(*                                                                         *)
(* What a capture does with its page is PageCapture's; its statements on   *)
(* the job queue are CaptureQueue's.  Here it takes and gives back.        *)
(***************************************************************************)
EXTENDS Naturals, Sequences, FiniteSets

CONSTANTS
  Slots,           \* captures at a time: max_concurrent_captures, any setting
  Tiers,           \* the tiers a job may have, a subset of AllTiers
  PoolSize,        \* max_size of the pool, less the LISTEN connection
  MaxBrowsers,     \* bound: browser processes alive at once
  NumProxies       \* proxies of the rotator once it is loaded

\* "remote" stands for the tiers that ask for a second connection.
AllTiers == {"chromium", "camoufox", "camoufox_proxy", "remote"}
Engines  == {"chromium", "camoufox"}
Engine(t) == IF t = "chromium" THEN "chromium" ELSE "camoufox"
Ids      == 1..MaxBrowsers
Proxies  == 1..NumProxies

ASSUME PoolAssumption ==
  /\ IsFiniteSet(Slots) /\ Slots # {}
  /\ Tiers \subseteq AllTiers
  /\ PoolSize \in Nat
  /\ MaxBrowsers \in Nat /\ NumProxies \in Nat

VARIABLES
  running,         \* Worker._running
  at,              \* the step each capture is at
  tier,            \* the tier of its job
  got,             \* the browser it was given, or is launching
  via,             \* the proxy it was given, 0 for none
  queue,           \* BrowserPool._lock: the holder, then those that wait
  cached,          \* BrowserPool._chromium and _camoufox
  entered,         \* BrowserPool._camoufox_ctx
  browser,         \* the browser processes
  loaded,          \* _init_proxy_rotator has replaced the empty rotator
  cursor,          \* where the rotator's cycle is
  failed,          \* ProxyRotator._failed
  held             \* connections in use, by whom and for what

browsers == <<queue, cached, entered, browser>>
rotator  == <<loaded, cursor, failed>>
vars == <<running, at, tier, got, via, queue, cached, entered, browser,
          loaded, cursor, failed, held>>

\* hooked: its "disconnected" handler is registered; cut: the launch was
\* cancelled, nothing refers to it.
Browser == [ engine : Engines, state : {"starting", "up"}, hooked : BOOLEAN,
             cut : BOOLEAN ]
Gone    == [state |-> "gone"]

\* Steps under the wait_for.
Timed == {"lock", "launch", "resume", "page", "second", "using", "remote"}

PoolTypeOK ==
  /\ running \in BOOLEAN /\ loaded \in BOOLEAN
  /\ at \in [Slots -> Timed \cup {"idle", "claimed", "complete", "handle"}]
  /\ tier \in [Slots -> Tiers \cup {"none"}]
  /\ got \in [Slots -> Ids \cup {0}]
  /\ via \in [Slots -> Proxies \cup {0}]
  /\ queue \in Seq(Slots)
  /\ cached \in [Engines -> Ids \cup {0}]
  /\ entered \in Ids \cup {0}
  /\ browser \in [Ids -> Browser \cup {Gone}]
  /\ cursor \in Proxies \cup {0}
  /\ failed \subseteq Proxies
  /\ held \subseteq (Slots \X {"job", "second"}) \cup {<<"loops", "query">>}
  /\ \A s \in Slots :
       /\ <<s, "job">> \in held <=> at[s] \notin {"idle", "claimed"}
       /\ <<s, "second">> \in held <=> at[s] = "using"

Init ==
  /\ running = TRUE /\ loaded = FALSE
  /\ at = [s \in Slots |-> "idle"]
  /\ tier = [s \in Slots |-> "none"]
  /\ got = [s \in Slots |-> 0]
  /\ via = [s \in Slots |-> 0]
  /\ queue = << >>
  /\ cached = [e \in Engines |-> 0]
  /\ entered = 0
  /\ browser = [b \in Ids |-> Gone]
  /\ cursor = 0 /\ failed = {}
  /\ held = {}

-----------------------------------------------------------------------------
(* Connections *)

Free == Cardinality(held) < PoolSize

Take(h, what) == held' = held \cup {<<h, what>>}
Give(h, what) == held' = held \ {<<h, what>>}

\* The probe loops take a connection for a query and give it back.
LoopTakes ==
  /\ Free /\ <<"loops", "query">> \notin held
  /\ Take("loops", "query")
  /\ UNCHANGED <<running, at, tier, got, via, browsers, rotator>>

LoopGives ==
  /\ <<"loops", "query">> \in held
  /\ Give("loops", "query")
  /\ UNCHANGED <<running, at, tier, got, via, browsers, rotator>>

\* The wait_for is over: what the capture was given is out of its hands.
Leave(s, next) ==
  /\ at' = [at EXCEPT ![s] = next]
  /\ got' = [got EXCEPT ![s] = 0]
  /\ via' = [via EXCEPT ![s] = 0]

-----------------------------------------------------------------------------
(* Claiming a job, and the connection it keeps *)

\* _claim_and_process: below capacity, and with a connection for the claim.
\* The task's semaphore never waits: there are as many tasks as slots.
Claim(s) ==
  /\ running /\ at[s] = "idle" /\ Free
  /\ \E t \in Tiers : tier' = [tier EXCEPT ![s] = t]
  /\ at' = [at EXCEPT ![s] = "claimed"]
  /\ UNCHANGED <<running, got, via, browsers, rotator, held>>

\* pool.acquire, the statements up to CAPTURING, and into the wait_for.
TakeConnection(s) ==
  /\ at[s] = "claimed" /\ Free
  /\ Take(s, "job")
  /\ IF tier[s] = "remote"
     THEN at' = [at EXCEPT ![s] = "second"] /\ UNCHANGED queue
     ELSE at' = [at EXCEPT ![s] = "lock"] /\ queue' = Append(queue, s)
  /\ UNCHANGED <<running, tier, got, via, cached, entered, browser, rotator>>

\* The result is stored, or an exception handler runs; the connection goes
\* back.
Report(s) ==
  /\ at[s] \in {"complete", "handle"}
  /\ Give(s, "job")
  /\ at' = [at EXCEPT ![s] = "idle"]
  /\ tier' = [tier EXCEPT ![s] = "none"]
  /\ UNCHANGED <<running, got, via, browsers, rotator>>

-----------------------------------------------------------------------------
(* The second connection of _pick_archive_today_proxy and of the frontends *)

TakeSecond(s) ==
  /\ at[s] = "second" /\ Free
  /\ Take(s, "second")
  /\ at' = [at EXCEPT ![s] = "using"]
  /\ UNCHANGED <<running, tier, got, via, browsers, rotator>>

GiveSecond(s) ==
  /\ at[s] = "using"
  /\ Give(s, "second")
  /\ at' = [at EXCEPT ![s] = "remote"]
  /\ UNCHANGED <<running, tier, got, via, browsers, rotator>>

RemoteEnds(s) ==
  /\ at[s] = "remote"
  /\ \E next \in {"complete", "handle"} : Leave(s, next)
  /\ UNCHANGED <<running, tier, browsers, rotator, held>>

-----------------------------------------------------------------------------
(* ProxyRotator *)

\* The proxies in the order of the cycle, from the cursor on.
Around(k) == IF cursor + k > NumProxies THEN cursor + k - NumProxies ELSE cursor + k

\* Mutant: the round starts over with the first of the list.
NextFromStart ==
  LET fresh == Proxies \ failed
  IN IF ~loaded \/ NumProxies = 0 THEN 0
     ELSE IF fresh = {} THEN 1 ELSE CHOOSE p \in fresh : \A q \in fresh : p <= q

\* next(): the first of the round that has not failed; after a round of
\* failures, the next of the cycle.
NextProxy ==
  LET fresh == {k \in 1..NumProxies : Around(k) \notin failed}
  IN IF ~loaded \/ NumProxies = 0 THEN 0
     ELSE IF fresh = {} THEN Around(1)
     ELSE Around(CHOOSE k \in fresh : \A j \in fresh : k <= j)

\* What _dispatch does with the browser in hand, without an await.
GoOn(s, b) ==
  /\ at' = [at EXCEPT ![s] = "page"]
  /\ got' = [got EXCEPT ![s] = b]
  /\ IF tier[s] = "camoufox_proxy" /\ NextProxy # 0
     THEN /\ via' = [via EXCEPT ![s] = NextProxy]
          /\ cursor' = NextProxy
          /\ failed' = IF NextProxy \in failed THEN {} ELSE failed
     ELSE UNCHANGED <<via, cursor, failed>>
  /\ UNCHANGED loaded

\* _init_proxy_rotator replaces the empty rotator.
LoadProxies ==
  /\ ~loaded
  /\ loaded' = TRUE
  /\ UNCHANGED <<running, at, tier, got, via, browsers, cursor, failed, held>>

-----------------------------------------------------------------------------
(* get_browser, under the lock *)

\* Mutant: the lock is not taken.
TurnAtOnce(s) == at[s] = "lock"

Turn(s) == at[s] = "lock" /\ Head(queue) = s

\* The queue without a capture, which is in it once at most.
Others(s) ==
  IF \E i \in DOMAIN queue : queue[i] = s
  THEN LET k == CHOOSE i \in DOMAIN queue : queue[i] = s
       IN [i \in 1..(Len(queue) - 1) |-> IF i < k THEN queue[i] ELSE queue[i + 1]]
  ELSE queue

\* is_connected() of the cached browser
Connected(e) == cached[e] # 0 /\ browser[cached[e]].state = "up"

GetCached(s) ==
  /\ Turn(s) /\ Connected(Engine(tier[s]))
  /\ queue' = Others(s)
  /\ GoOn(s, cached[Engine(tier[s])])
  /\ UNCHANGED <<running, tier, cached, entered, browser, held>>

\* An id nothing refers to.
Unused(b) ==
  /\ browser[b] = Gone /\ entered # b
  /\ \A e \in Engines : cached[e] # b
  /\ \A s \in Slots : got[s] # b

\* Mutant: the context manager of Camoufox is not kept before it is entered.
StartLaunchForgets(s) ==
  /\ Turn(s) /\ ~Connected(Engine(tier[s]))
  /\ \E b \in Ids :
       /\ Unused(b) /\ \A c \in 1..(b - 1) : ~Unused(c)
       /\ browser' = [browser EXCEPT ![b] =
            [ engine |-> Engine(tier[s]), state |-> "starting", hooked |-> FALSE,
              cut |-> FALSE ]]
       /\ got' = [got EXCEPT ![s] = b]
  /\ cached' = [cached EXCEPT ![Engine(tier[s])] = 0]
  /\ at' = [at EXCEPT ![s] = "launch"]
  /\ UNCHANGED <<running, tier, via, queue, entered, rotator, held>>

\* Camoufox: the context manager is kept before it is entered.
StartLaunch(s) ==
  /\ Turn(s) /\ ~Connected(Engine(tier[s]))
  /\ \E b \in Ids :
       /\ Unused(b) /\ \A c \in 1..(b - 1) : ~Unused(c)
       /\ browser' = [browser EXCEPT ![b] =
            [ engine |-> Engine(tier[s]), state |-> "starting", hooked |-> FALSE,
              cut |-> FALSE ]]
       /\ got' = [got EXCEPT ![s] = b]
       /\ entered' = IF Engine(tier[s]) = "camoufox" THEN b ELSE entered
  /\ cached' = [cached EXCEPT ![Engine(tier[s])] = 0]
  /\ at' = [at EXCEPT ![s] = "launch"]
  /\ UNCHANGED <<running, tier, via, queue, rotator, held>>

LaunchFails(s) ==
  /\ at[s] = "launch" /\ browser[got[s]] = Gone
  /\ Leave(s, "handle")
  /\ queue' = Others(s)
  /\ UNCHANGED <<running, tier, cached, entered, browser, rotator, held>>

\* The process is up: whoever awaits the launch is woken.
BrowserUp(b) ==
  /\ browser[b] # Gone /\ browser[b].state = "starting"
  /\ browser' = [browser EXCEPT ![b].state = "up"]
  /\ at' = [s \in Slots |-> IF at[s] = "launch" /\ got[s] = b THEN "resume" ELSE at[s]]
  /\ UNCHANGED <<running, tier, got, via, queue, cached, entered, rotator, held>>

\* The launch returns: the reference is cached and the handler registered, of
\* a browser that may have died since.
Launched(s) ==
  LET b == got[s] IN
  /\ at[s] = "resume"
  /\ cached' = [cached EXCEPT ![Engine(tier[s])] = b]
  /\ browser' = IF browser[b] = Gone THEN browser
                ELSE [browser EXCEPT ![b].hooked = TRUE]
  /\ queue' = Others(s)
  /\ GoOn(s, b)
  /\ UNCHANGED <<running, tier, entered, held>>

\* A browser dies; its handler clears whatever the pool has cached.
BrowserDies(b) ==
  /\ browser[b] # Gone
  /\ browser' = [browser EXCEPT ![b] = Gone]
  /\ IF browser[b].hooked
     THEN /\ cached' = [cached EXCEPT ![browser[b].engine] = 0]
          /\ entered' = IF browser[b].engine = "camoufox" THEN 0 ELSE entered
     ELSE UNCHANGED <<cached, entered>>
  /\ UNCHANGED <<running, at, tier, got, via, queue, rotator, held>>

-----------------------------------------------------------------------------
(* capture_page, and the ways out of the wait_for *)

PageDone(s) ==
  /\ at[s] = "page"
  /\ Leave(s, "complete")
  /\ UNCHANGED <<running, tier, browsers, rotator, held>>

\* _capture_page_with_proxy_retry: an Exception marks the proxy.
PageFails(s) ==
  /\ at[s] = "page"
  /\ Leave(s, "handle")
  /\ failed' = IF via[s] = 0 THEN failed ELSE failed \cup {via[s]}
  /\ UNCHANGED <<running, tier, browsers, loaded, cursor, held>>

\* Mutant: only capture_page is under the wait_for.
CutInPageOnly(s) ==
  /\ at[s] \in {"page", "remote"}
  /\ Leave(s, "handle")
  /\ UNCHANGED <<running, tier, browsers, rotator, held>>

\* Mutant: a capture cut in its query keeps the second connection.
CutKeepsSecond(s) ==
  /\ at[s] \in Timed
  /\ Leave(s, "handle")
  /\ queue' = Others(s)
  /\ browser' = [b \in Ids |->
       IF at[s] \in {"launch", "resume"} /\ b = got[s] /\ browser[b] # Gone
       THEN [browser[b] EXCEPT !.cut = TRUE] ELSE browser[b]]
  /\ UNCHANGED <<running, tier, cached, entered, rotator, held>>

\* The wait_for fires: CancelledError leaves the lock and the connections by
\* their context managers, passes `except Exception`, and forgets a launch.
Cut(s) ==
  /\ at[s] \in Timed
  /\ Leave(s, "handle")
  /\ queue' = Others(s)
  /\ browser' = [b \in Ids |->
       IF at[s] \in {"launch", "resume"} /\ b = got[s] /\ browser[b] # Gone
       THEN [browser[b] EXCEPT !.cut = TRUE] ELSE browser[b]]
  /\ IF at[s] = "using" THEN Give(s, "second") ELSE UNCHANGED held
  /\ UNCHANGED <<running, tier, cached, entered, rotator>>

-----------------------------------------------------------------------------
(* Shutdown *)

Shutdown ==
  /\ running
  /\ running' = FALSE
  /\ UNCHANGED <<at, tier, got, via, browsers, rotator, held>>

\* BrowserPool.close, once the captures are drained.
ClosePool ==
  /\ ~running /\ \A s \in Slots : at[s] = "idle"
  /\ cached' = [e \in Engines |-> 0]
  /\ entered' = 0
  /\ browser' = [b \in Ids |->
       IF b \in {cached["chromium"], entered} THEN Gone ELSE browser[b]]
  /\ UNCHANGED <<running, at, tier, got, via, queue, rotator, held>>

Next ==
  \/ \E s \in Slots :
       \/ Claim(s) \/ TakeConnection(s) \/ Report(s)
       \/ TakeSecond(s) \/ GiveSecond(s) \/ RemoteEnds(s)
       \/ GetCached(s) \/ StartLaunch(s) \/ LaunchFails(s) \/ Launched(s)
       \/ PageDone(s) \/ PageFails(s) \/ Cut(s)
  \/ \E b \in Ids : BrowserUp(b) \/ BrowserDies(b)
  \/ LoopTakes \/ LoopGives \/ LoadProxies \/ Shutdown \/ ClosePool

\* The timers fire, and the pool of connections serves its waiters in turn.
Fairness ==
  /\ \A s \in Slots :
       /\ SF_vars(TakeConnection(s)) /\ WF_vars(Cut(s)) /\ WF_vars(Report(s))
  /\ WF_vars(LoopGives)

Spec == Init /\ [][Next]_vars /\ Fairness

-----------------------------------------------------------------------------
(* Properties *)

\* Of each engine at most one browser process is alive, but for those whose
\* launch was cancelled under it: two captures never launch at once, and the
\* browser of a dead reference is replaced (browser_pool.py:55-118).
OneBrowser ==
  \A b, c \in Ids :
    (/\ browser[b] # Gone /\ browser[c] # Gone
     /\ ~browser[b].cut /\ ~browser[c].cut
     /\ browser[b].engine = browser[c].engine) => b = c

\* The lock is held by a capture that is still in get_browser, also after the
\* timer has cut one in the middle of a launch (browser_pool.py:61).
LockIsHeldByCapture ==
  queue # << >> => at[Head(queue)] \in {"lock", "launch", "resume"}

\* Every live browser, but for those whose launch was cancelled under it, is
\* being launched or is one that close() reaches: no disconnect handler, which
\* clears whatever is cached and not the browser it was registered for, and no
\* launch over a dead reference drops a live browser (browser_pool.py:66-135).
NoBrowserLost ==
  \A b \in Ids :
    browser[b] # Gone /\ ~browser[b].cut =>
      \/ \E s \in Slots : at[s] \in {"launch", "resume"} /\ got[s] = b
      \/ /\ cached[browser[b].engine] = b
         /\ browser[b].engine = "camoufox" => entered = b

\* A proxy is not given out twice in a row, and a failed one not at all, while
\* there is another that has not failed; failures come from captures that run
\* at once (proxy.py:46-63).
ProxiesTakeTurns ==
  [][\A s \in Slots :
       at[s] # "page" /\ at'[s] = "page" /\ via'[s] # 0 /\ via'[s] \in failed \cup {cursor}
         => Proxies \subseteq failed \cup {via'[s]}]_vars

\* A capture that ends without a page marks its proxy (worker.py:664).
FailedProxyMarked ==
  [][\A s \in Slots :
       at[s] = "page" /\ at'[s] = "handle" /\ via[s] # 0 => via[s] \in failed']_vars

\* A capture that waits for a second connection, holding its first, does not
\* wait in a circle: one is free, or held by somebody who gives it back without
\* taking another, as long as there are fewer captures than connections: 2 and
\* 4 by default, which nothing enforces (worker.py:201, 366, 1266; config.py:69).
NoCircularWait ==
  \A s \in Slots :
    at[s] = "second" =>
      \/ Free
      \/ <<"loops", "query">> \in held
      \/ \E r \in Slots : /\ at[r] \notin {"idle", "claimed", "second"}
                          /\ {<<r, "job">>, <<r, "second">>} \cap held # {}

\* Every capture ends: none waits for ever for a browser that does not
\* come up, or for its own connection, which no timer bounds
\* (worker.py:366, 434-471).
CapturesEnd == \A s \in Slots : at[s] # "idle" ~> at[s] = "idle"
=============================================================================
