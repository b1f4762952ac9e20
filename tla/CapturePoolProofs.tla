-------------------------- MODULE CapturePoolProofs --------------------------
(***************************************************************************)
(* What is proved about CapturePool, for any number of captures, proxies   *)
(* and connections.                                                        *)
(***************************************************************************)
EXTENDS CapturePool, FiniteSetTheorems, NumberLemmas

-----------------------------------------------------------------------------
(* The inductive invariant *)

Launching(s) == at[s] \in {"launch", "resume"}
InLock(s)    == at[s] \in {"lock", "launch", "resume"}
Alive(b)     == browser[b] # Gone

\* The queue of the lock holds each capture in get_browser once, and only its
\* head launches.
LockInv ==
  /\ \A i, k \in DOMAIN queue : queue[i] = queue[k] => i = k
  /\ \A s \in Slots : InLock(s) <=> \E i \in DOMAIN queue : queue[i] = s
  /\ \A s \in Slots : Launching(s) => queue[1] = s

\* A launch works on a browser of its own, while none of its engine is cached.
LaunchInv ==
  \A s \in Slots : Launching(s) =>
    LET b == got[s] IN
    /\ b \in Ids
    /\ cached[Engine(tier[s])] = 0
    /\ Alive(b) => /\ browser[b].engine = Engine(tier[s])
                   /\ ~browser[b].hooked /\ ~browser[b].cut
                   /\ at[s] = "resume" => browser[b].state = "up"
                   /\ browser[b].engine = "camoufox" => entered = b

\* A browser whose handler is registered is the one the pool has cached; any
\* other is being launched, or its launch was cut.
BrowserInv ==
  \A b \in Ids : Alive(b) =>
    /\ browser[b].hooked =>
         /\ cached[browser[b].engine] = b /\ browser[b].state = "up"
         /\ browser[b].engine = "camoufox" => entered = b
    /\ ~browser[b].hooked /\ ~browser[b].cut =>
         \E s \in Slots : Launching(s) /\ got[s] = b

\* Only a capture with a page has a proxy.
ProxyInv == \A s \in Slots : via[s] # 0 => at[s] = "page"

PoolInv == PoolTypeOK /\ LockInv /\ LaunchInv /\ BrowserInv /\ ProxyInv

-----------------------------------------------------------------------------
(* Lemmas about the operators *)

\* Leaving the queue takes nobody else out of it and keeps the others' order.
LEMMA OthersOfQueue ==
  ASSUME queue \in Seq(Slots), NEW s \in Slots,
         \A i, k \in DOMAIN queue : queue[i] = queue[k] => i = k
  PROVE  /\ Others(s) \in Seq(Slots)
         /\ \A i, k \in DOMAIN Others(s) : Others(s)[i] = Others(s)[k] => i = k
         /\ \A r \in Slots : (\E i \in DOMAIN Others(s) : Others(s)[i] = r)
                               <=> (r # s /\ \E i \in DOMAIN queue : queue[i] = r)
         /\ (queue # << >> /\ queue[1] # s) =>
              Others(s) # << >> /\ Others(s)[1] = queue[1]
<1> DEFINE n == Len(queue)
<1>0. n \in Nat /\ DOMAIN queue = 1..n /\ \A i \in 1..n : queue[i] \in Slots
  OBVIOUS
<1>1. CASE ~\E i \in DOMAIN queue : queue[i] = s
  BY <1>1 DEF Others
<1>2. CASE \E i \in DOMAIN queue : queue[i] = s
  <2> DEFINE k == CHOOSE i \in DOMAIN queue : queue[i] = s
             q == [i \in 1..(n - 1) |-> IF i < k THEN queue[i] ELSE queue[i + 1]]
  <2>1. k \in 1..n /\ queue[k] = s
    BY <1>0, <1>2
  <2>2. Others(s) = q
    BY <1>2 DEF Others
  <2> HIDE DEF k
  <2>3. \A i \in 1..(n - 1) : (IF i < k THEN i ELSE i + 1) \in 1..n
    BY <1>0, <2>1
  <2>4. n - 1 \in Nat
    BY <1>0, <2>1
  <2>5. q \in Seq(Slots) /\ DOMAIN q = 1..(n - 1)
    <3>1. \A i \in 1..(n - 1) : q[i] \in Slots
      BY <1>0, <2>1, <2>3
    <3>2. q \in [1..(n - 1) -> Slots]
      BY <3>1
    <3> QED
      BY <2>4, <3>2
  <2>6. ASSUME NEW i \in 1..(n - 1), NEW j \in 1..(n - 1), q[i] = q[j] PROVE i = j
    <3> DEFINE old(m) == IF m < k THEN m ELSE m + 1
    <3>1. q[i] = queue[old(i)] /\ q[j] = queue[old(j)]
      OBVIOUS
    <3>2. old(i) \in DOMAIN queue /\ old(j) \in DOMAIN queue
      BY <1>0, <2>3
    <3> HIDE DEF q, old
    <3>3. old(i) = old(j)
      BY <2>6, <3>1, <3>2
    <3> QED
      BY <1>0, <2>1, <3>3 DEF old
  <2>7. ASSUME NEW r \in Slots
        PROVE  (\E i \in DOMAIN q : q[i] = r) <=> (r # s /\ \E i \in DOMAIN queue : queue[i] = r)
    <3>1. ASSUME NEW i \in 1..(n - 1), q[i] = r
          PROVE  r # s /\ \E j \in DOMAIN queue : queue[j] = r
      <4> DEFINE j == IF i < k THEN i ELSE i + 1
      <4>1. j \in DOMAIN queue /\ queue[j] = r /\ j # k
        BY <1>0, <2>1, <2>3, <3>1
      <4> HIDE DEF j, q
      <4> QED
        BY <1>0, <2>1, <4>1
    <3>2. ASSUME r # s, NEW j \in 1..n, queue[j] = r
          PROVE  \E i \in 1..(n - 1) : q[i] = r
      <4>1. j # k
        BY <2>1, <3>2
      <4>2. CASE j < k
        BY <1>0, <2>1, <3>2, <4>2
      <4>3. CASE j > k
        <5>1. j - 1 \in 1..(n - 1) /\ ~(j - 1 < k) /\ (j - 1) + 1 = j
          BY <1>0, <2>1, <4>3
        <5> QED
          BY <3>2, <5>1
      <4> QED
        BY <1>0, <2>1, <4>1, <4>2, <4>3
    <3> QED
      BY <1>0, <2>5, <3>1, <3>2
  <2>8. ASSUME queue # << >>, queue[1] # s PROVE q # << >> /\ q[1] = queue[1]
    <3>1. 1 < k /\ 1 \in 1..(n - 1)
      BY <1>0, <2>1, <2>8
    <3>2. q[1] = queue[1]
      BY <3>1
    <3>3. 1 \in DOMAIN q
      BY <2>5, <3>1
    <3> HIDE DEF q
    <3> QED
      BY <3>2, <3>3
  <2> HIDE DEF q
  <2> QED
    BY <2>2, <2>5, <2>6, <2>7, <2>8
<1> QED
  BY <1>1, <1>2

\* What the rotator hands out is one of its proxies, if it has any.
LEMMA NextProxyType ==
  ASSUME cursor \in Proxies \cup {0}
  PROVE  NextProxy \in Proxies \cup {0}
<1> DEFINE fresh == {k \in 1..NumProxies : Around(k) \notin failed}
<1>1. \A k \in 1..NumProxies : Around(k) \in Proxies
  BY PoolAssumption DEF Around, Proxies
<1>2. CASE ~loaded \/ NumProxies = 0
  BY <1>2 DEF NextProxy
<1>3. CASE loaded /\ NumProxies # 0 /\ fresh = {}
  <2>1. 1 \in 1..NumProxies
    BY <1>3, PoolAssumption
  <2> QED
    BY <1>1, <1>3, <2>1 DEF NextProxy
<1>4. CASE loaded /\ NumProxies # 0 /\ fresh # {}
  <2> DEFINE k == CHOOSE i \in fresh : \A j \in fresh : i <= j
  <2>1. fresh \in SUBSET Nat
    OBVIOUS
  <2>2. k \in fresh
    BY <1>4, <2>1, SmallestChosen
  <2>3. NextProxy = Around(k)
    BY <1>4 DEF NextProxy
  <2> QED
    BY <1>1, <2>2, <2>3
<1> QED
  BY <1>2, <1>3, <1>4

-----------------------------------------------------------------------------
(* Types *)

LEMMA InitPool == Init => PoolInv
<1> SUFFICES ASSUME Init PROVE PoolInv
  OBVIOUS
<1>1. PoolTypeOK
  <2>1. queue \in Seq(Slots) /\ held = {}
    BY DEF Init
  <2>2. browser \in [Ids -> Browser \cup {Gone}]
    BY DEF Init
  <2>3. at \in [Slots -> Timed \cup {"idle", "claimed", "complete", "handle"}]
    BY DEF Init
  <2>4. \A s \in Slots : at[s] = "idle"
    BY DEF Init
  <2> QED
    BY <2>1, <2>2, <2>3, <2>4 DEF Init, PoolTypeOK
<1>2. \A s \in Slots : ~InLock(s) /\ ~Launching(s) /\ via[s] = 0
  BY DEF Init, InLock, Launching
<1>3. \A b \in Ids : ~Alive(b)
  BY DEF Init, Alive
<1>4. LockInv
  BY <1>2 DEF Init, LockInv
<1> QED
  BY <1>1, <1>2, <1>3, <1>4 DEF PoolInv, LaunchInv, BrowserInv, ProxyInv

\* A browser is given to the capture, with a proxy perhaps.
LEMMA GoOnType ==
  ASSUME PoolTypeOK, NEW s \in Slots, NEW b \in Ids \cup {0}, GoOn(s, b)
  PROVE  /\ at' = [at EXCEPT ![s] = "page"]
         /\ got' = [got EXCEPT ![s] = b] /\ got' \in [Slots -> Ids \cup {0}]
         /\ via' \in [Slots -> Proxies \cup {0}]
         /\ \A r \in Slots \ {s} : via'[r] = via[r]
         /\ loaded' \in BOOLEAN /\ cursor' \in Proxies \cup {0} /\ failed' \subseteq Proxies
<1>1. NextProxy \in Proxies \cup {0}
  BY NextProxyType DEF PoolTypeOK
<1> HIDE DEF NextProxy
<1>2. CASE tier[s] = "camoufox_proxy" /\ NextProxy # 0
  BY <1>1, <1>2 DEF GoOn, PoolTypeOK
<1>3. CASE ~(tier[s] = "camoufox_proxy" /\ NextProxy # 0)
  BY <1>3 DEF GoOn, PoolTypeOK
<1> QED
  BY <1>2, <1>3

\* Every step keeps the types.
LEMMA TypeStep ==
  ASSUME PoolInv, [Next]_vars
  PROVE  PoolTypeOK'
<1> USE DEF PoolInv
<1>0. \A s \in Slots : Others(s) \in Seq(Slots)
  BY OthersOfQueue DEF PoolTypeOK, LockInv
<1>e. \A t : Engine(t) \in Engines
  BY DEF Engine, Engines
<1> HIDE DEF Others, Engine
<1>1. ASSUME NEW s \in Slots, Claim(s) PROVE PoolTypeOK'
  BY <1>1 DEF Claim, PoolTypeOK, browsers, rotator, Timed
<1>2. ASSUME NEW s \in Slots, TakeConnection(s) PROVE PoolTypeOK'
  <2>1. queue' \in Seq(Slots)
    BY <1>2 DEF TakeConnection, PoolTypeOK
  <2>2. at' = [at EXCEPT ![s] = IF tier[s] = "remote" THEN "second" ELSE "lock"]
    BY <1>2 DEF TakeConnection
  <2> QED
    BY <1>2, <2>1, <2>2 DEF TakeConnection, Take, PoolTypeOK, rotator, Timed
<1>3. ASSUME NEW s \in Slots, Report(s) PROVE PoolTypeOK'
  BY <1>3 DEF Report, Give, PoolTypeOK, browsers, rotator, Timed
<1>4. ASSUME NEW s \in Slots, TakeSecond(s) PROVE PoolTypeOK'
  BY <1>4 DEF TakeSecond, Take, PoolTypeOK, browsers, rotator, Timed
<1>5. ASSUME NEW s \in Slots, GiveSecond(s) PROVE PoolTypeOK'
  BY <1>5 DEF GiveSecond, Give, PoolTypeOK, browsers, rotator, Timed
<1>6. ASSUME NEW s \in Slots, RemoteEnds(s) PROVE PoolTypeOK'
  BY <1>6 DEF RemoteEnds, Leave, PoolTypeOK, browsers, rotator, Timed
<1>7. ASSUME NEW s \in Slots, GetCached(s) PROVE PoolTypeOK'
  <2>1. cached[Engine(tier[s])] \in Ids \cup {0}
    BY <1>e DEF PoolTypeOK
  <2>2. GoOn(s, cached[Engine(tier[s])]) /\ at[s] = "lock"
    BY <1>7 DEF GetCached, Turn
  <2>3. /\ at' = [at EXCEPT ![s] = "page"] /\ got' \in [Slots -> Ids \cup {0}]
        /\ via' \in [Slots -> Proxies \cup {0}]
        /\ loaded' \in BOOLEAN /\ cursor' \in Proxies \cup {0} /\ failed' \subseteq Proxies
    BY <2>1, <2>2, GoOnType
  <2>4. /\ queue' \in Seq(Slots) /\ running' = running /\ tier' = tier /\ held' = held
        /\ cached' = cached /\ entered' = entered /\ browser' = browser
    BY <1>0, <1>7 DEF GetCached
  <2> QED
    BY <2>2, <2>3, <2>4 DEF PoolTypeOK, Timed
<1>8. ASSUME NEW s \in Slots, StartLaunch(s) PROVE PoolTypeOK'
  <2>1. PICK b \in Ids :
          /\ browser' = [browser EXCEPT ![b] =
               [ engine |-> Engine(tier[s]), state |-> "starting", hooked |-> FALSE,
                 cut |-> FALSE ]]
          /\ got' = [got EXCEPT ![s] = b]
          /\ entered' = IF Engine(tier[s]) = "camoufox" THEN b ELSE entered
    BY <1>8 DEF StartLaunch
  <2>2. browser' \in [Ids -> Browser \cup {Gone}]
    BY <1>e, <2>1 DEF PoolTypeOK, Browser
  <2>3. got' \in [Slots -> Ids \cup {0}] /\ entered' \in Ids \cup {0}
    BY <2>1 DEF PoolTypeOK
  <2>4. cached' \in [Engines -> Ids \cup {0}]
    BY <1>8 DEF StartLaunch, PoolTypeOK
  <2> QED
    BY <1>8, <2>2, <2>3, <2>4 DEF StartLaunch, Turn, PoolTypeOK, rotator, Timed
<1>9. ASSUME NEW s \in Slots, LaunchFails(s) PROVE PoolTypeOK'
  BY <1>0, <1>9 DEF LaunchFails, Leave, PoolTypeOK, rotator, Timed
<1>10. ASSUME NEW s \in Slots, Launched(s) PROVE PoolTypeOK'
  <2>1. got[s] \in Ids /\ GoOn(s, got[s]) /\ at[s] = "resume"
    BY <1>10 DEF Launched, LaunchInv, Launching
  <2>2. browser' \in [Ids -> Browser \cup {Gone}]
    <3>1. CASE browser[got[s]] = Gone
      BY <1>10, <3>1 DEF Launched, PoolTypeOK
    <3>2. CASE browser[got[s]] # Gone
      <4>1. browser[got[s]] \in Browser
        BY <2>1, <3>2 DEF PoolTypeOK
      <4>2. [browser[got[s]] EXCEPT !.hooked = TRUE] \in Browser
        BY <4>1 DEF Browser
      <4>3. browser' = [browser EXCEPT ![got[s]] = [browser[got[s]] EXCEPT !.hooked = TRUE]]
        BY <1>10, <2>1, <3>2 DEF Launched, PoolTypeOK
      <4> QED
        BY <2>1, <4>2, <4>3 DEF PoolTypeOK
    <3> QED
      BY <3>1, <3>2
  <2>3. cached' \in [Engines -> Ids \cup {0}]
    BY <1>10, <1>e, <2>1 DEF Launched, PoolTypeOK
  <2>4. /\ at' = [at EXCEPT ![s] = "page"] /\ got' \in [Slots -> Ids \cup {0}]
        /\ via' \in [Slots -> Proxies \cup {0}]
        /\ loaded' \in BOOLEAN /\ cursor' \in Proxies \cup {0} /\ failed' \subseteq Proxies
    BY <2>1, GoOnType
  <2>5. /\ queue' \in Seq(Slots) /\ running' = running /\ tier' = tier /\ held' = held
        /\ entered' = entered
    BY <1>0, <1>10 DEF Launched
  <2> QED
    BY <2>1, <2>2, <2>3, <2>4, <2>5 DEF PoolTypeOK, Timed
<1>11. ASSUME NEW s \in Slots, PageDone(s) PROVE PoolTypeOK'
  BY <1>11 DEF PageDone, Leave, PoolTypeOK, browsers, rotator, Timed
<1>12. ASSUME NEW s \in Slots, PageFails(s) PROVE PoolTypeOK'
  <2>1. failed' \subseteq Proxies
    BY <1>12 DEF PageFails, PoolTypeOK
  <2> QED
    BY <1>12, <2>1 DEF PageFails, Leave, PoolTypeOK, browsers, Timed
<1>13. ASSUME NEW s \in Slots, Cut(s) PROVE PoolTypeOK'
  <2>1. browser' \in [Ids -> Browser \cup {Gone}]
    <3>1. \A x \in Browser : [x EXCEPT !.cut = TRUE] \in Browser
      BY DEF Browser
    <3>2. \A b \in Ids : browser[b] \in Browser \cup {Gone}
      BY DEF PoolTypeOK
    <3>3. \A b \in Ids :
            (IF at[s] \in {"launch", "resume"} /\ b = got[s] /\ browser[b] # Gone
             THEN [browser[b] EXCEPT !.cut = TRUE] ELSE browser[b]) \in Browser \cup {Gone}
      BY <3>1, <3>2
    <3> QED
      BY <1>13, <3>3 DEF Cut
  <2>2. at' = [at EXCEPT ![s] = "handle"] /\ at[s] \in Timed
    BY <1>13 DEF Cut, Leave
  <2>3. CASE at[s] = "using"
    BY <1>0, <1>13, <2>1, <2>2, <2>3 DEF Cut, Leave, Give, PoolTypeOK, rotator, Timed
  <2>4. CASE at[s] # "using"
    BY <1>0, <1>13, <2>1, <2>2, <2>4 DEF Cut, Leave, PoolTypeOK, rotator, Timed
  <2> QED
    BY <2>3, <2>4
<1>14. ASSUME NEW b \in Ids, BrowserUp(b) PROVE PoolTypeOK'
  <2>1. browser' \in [Ids -> Browser \cup {Gone}]
    BY <1>14 DEF BrowserUp, PoolTypeOK, Browser, Gone
  <2>2. /\ at' \in [Slots -> Timed \cup {"idle", "claimed", "complete", "handle"}]
        /\ \A s \in Slots : \/ at'[s] = at[s]
                            \/ at[s] = "launch" /\ at'[s] = "resume"
    BY <1>14 DEF BrowserUp, PoolTypeOK, Timed
  <2> QED
    BY <1>14, <2>1, <2>2 DEF BrowserUp, PoolTypeOK, rotator
<1>15. ASSUME NEW b \in Ids, BrowserDies(b) PROVE PoolTypeOK'
  <2>1. browser' \in [Ids -> Browser \cup {Gone}]
    BY <1>15 DEF BrowserDies, PoolTypeOK
  <2>2. cached' \in [Engines -> Ids \cup {0}] /\ entered' \in Ids \cup {0}
    BY <1>15 DEF BrowserDies, PoolTypeOK
  <2> QED
    BY <1>15, <2>1, <2>2 DEF BrowserDies, PoolTypeOK, rotator
<1>16. CASE LoopTakes
  BY <1>16 DEF LoopTakes, Take, PoolTypeOK, browsers, rotator
<1>17. CASE LoopGives
  BY <1>17 DEF LoopGives, Give, PoolTypeOK, browsers, rotator
<1>18. CASE LoadProxies
  BY <1>18 DEF LoadProxies, PoolTypeOK, browsers
<1>19. CASE Shutdown
  BY <1>19 DEF Shutdown, PoolTypeOK, browsers, rotator
<1>20. CASE ClosePool
  <2>1. /\ browser' \in [Ids -> Browser \cup {Gone}]
        /\ cached' \in [Engines -> Ids \cup {0}] /\ entered' \in Ids \cup {0}
    BY <1>20 DEF ClosePool, PoolTypeOK
  <2> QED
    BY <1>20, <2>1 DEF ClosePool, PoolTypeOK, rotator
<1>21. CASE UNCHANGED vars
  BY <1>21 DEF vars, PoolTypeOK
<1> QED
  BY <1>1, <1>2, <1>3, <1>4, <1>5, <1>6, <1>7, <1>8, <1>9, <1>10, <1>11, <1>12,
     <1>13, <1>14, <1>15, <1>16, <1>17, <1>18, <1>19, <1>20, <1>21 DEF Next

-----------------------------------------------------------------------------
(* The lock, the launches and the browsers, action by action *)

\* A capture outside the lock moves, and the browsers stay as they are.
LEMMA QuietStep ==
  ASSUME PoolInv, NEW s \in Slots, UNCHANGED browsers, ~InLock(s),
         at'[s] \notin {"lock", "launch", "resume"},
         \A r \in Slots \ {s} : /\ at'[r] = at[r] /\ got'[r] = got[r]
                                /\ tier'[r] = tier[r] /\ via'[r] = via[r],
         via'[s] # 0 => at'[s] = "page"
  PROVE  LockInv' /\ LaunchInv' /\ BrowserInv' /\ ProxyInv'
<1> USE DEF PoolInv, browsers
<1>1. \A r \in Slots : /\ InLock(r)' <=> InLock(r)
                       /\ Launching(r)' <=> Launching(r)
                       /\ Launching(r) => r # s
  BY DEF InLock, Launching
<1>2. LockInv'
  BY <1>1 DEF LockInv
<1>3. LaunchInv'
  BY <1>1 DEF LaunchInv, Alive, Engine
<1>4. BrowserInv'
  BY <1>1 DEF BrowserInv, Alive
<1>5. ProxyInv'
  BY DEF ProxyInv
<1> QED
  BY <1>2, <1>3, <1>4, <1>5

\* A step that moves no capture and no browser.
LEMMA StillStep ==
  ASSUME PoolInv, UNCHANGED <<at, tier, got, via, browsers>>
  PROVE  LockInv' /\ LaunchInv' /\ BrowserInv' /\ ProxyInv'
<1> USE DEF PoolInv, browsers
<1>1. \A r \in Slots : /\ InLock(r)' <=> InLock(r)
                       /\ Launching(r)' <=> Launching(r)
  BY DEF InLock, Launching
<1>2. LockInv'
  BY <1>1 DEF LockInv
<1>3. LaunchInv'
  BY <1>1 DEF LaunchInv, Alive, Engine
<1>4. BrowserInv'
  BY <1>1 DEF BrowserInv, Alive
<1>5. ProxyInv'
  BY DEF ProxyInv
<1> QED
  BY <1>2, <1>3, <1>4, <1>5

\* Only one capture launches: the head of the queue.
LEMMA OneLaunches ==
  ASSUME LockInv, NEW s \in Slots, NEW r \in Slots, Launching(r),
         Launching(s) \/ Turn(s)
  PROVE  r = s
<1>1. queue[1] = r
  BY DEF LockInv
<1>2. queue[1] = s
  BY DEF LockInv, Turn
<1> QED
  BY <1>1, <1>2

\* A capture leaves the queue of the lock.
LEMMA LeavesLock ==
  ASSUME PoolTypeOK, LockInv, NEW s \in Slots, queue' = Others(s),
         at'[s] \notin {"lock", "launch", "resume"},
         \A r \in Slots \ {s} : at'[r] = at[r]
  PROVE  LockInv'
<1>0. queue \in Seq(Slots)
  BY DEF PoolTypeOK
<1>1. /\ \A i, k \in DOMAIN queue' : queue'[i] = queue'[k] => i = k
      /\ \A r \in Slots : (\E i \in DOMAIN queue' : queue'[i] = r)
                            <=> (r # s /\ \E i \in DOMAIN queue : queue[i] = r)
      /\ (queue # << >> /\ queue[1] # s) => queue'[1] = queue[1]
  BY <1>0, OthersOfQueue DEF LockInv
<1>2. \A r \in Slots : /\ InLock(r)' <=> (r # s /\ InLock(r))
                       /\ Launching(r)' <=> (r # s /\ Launching(r))
  BY DEF InLock, Launching
<1>3. ASSUME NEW r \in Slots, Launching(r)' PROVE queue'[1] = r
  <2>1. r # s /\ Launching(r) /\ InLock(r)
    BY <1>2, <1>3 DEF Launching, InLock
  <2>2. queue[1] = r /\ \E i \in DOMAIN queue : queue[i] = r
    BY <2>1 DEF LockInv
  <2>3. queue # << >>
    BY <1>0, <2>2
  <2> QED
    BY <1>1, <2>1, <2>2, <2>3
<1> QED
  BY <1>1, <1>2, <1>3 DEF LockInv

LEMMA TakeConnectionStep ==
  ASSUME PoolInv, PoolTypeOK', NEW s \in Slots, TakeConnection(s)
  PROVE  LockInv' /\ LaunchInv' /\ BrowserInv' /\ ProxyInv'
<1>0. /\ at[s] = "claimed" /\ ~InLock(s) /\ ~Launching(s) /\ via[s] = 0
      /\ \A r \in Slots \ {s} : at'[r] = at[r]
      /\ UNCHANGED <<got, tier, via, cached, entered, browser>>
  BY DEF TakeConnection, PoolInv, PoolTypeOK, InLock, Launching, ProxyInv
<1>1. CASE tier[s] = "remote"
  <2>1. at'[s] = "second" /\ queue' = queue
    BY <1>1 DEF TakeConnection, PoolInv, PoolTypeOK
  <2> QED
    BY <1>0, <2>1, QuietStep DEF browsers
<1>2. CASE tier[s] # "remote"
  <2>1. at'[s] = "lock" /\ queue' = Append(queue, s)
    BY <1>2 DEF TakeConnection, PoolInv, PoolTypeOK
  <2>2. queue \in Seq(Slots) /\ ~\E i \in DOMAIN queue : queue[i] = s
    BY <1>0 DEF PoolInv, PoolTypeOK, LockInv
  <2>3. /\ DOMAIN queue' = DOMAIN queue \cup {Len(queue) + 1}
        /\ queue'[Len(queue) + 1] = s
        /\ \A i \in DOMAIN queue : queue'[i] = queue[i] /\ i # Len(queue) + 1
    BY <2>1, <2>2
  <2>4. \A r \in Slots : /\ InLock(r)' <=> (r = s \/ InLock(r))
                         /\ Launching(r)' <=> Launching(r)
                         /\ Launching(r) => r # s /\ InLock(r)
    BY <1>0, <2>1 DEF InLock, Launching
  <2>5. LockInv'
    <3>1. \A i, k \in DOMAIN queue' : queue'[i] = queue'[k] => i = k
      BY <2>2, <2>3 DEF PoolInv, LockInv
    <3>2. \A r \in Slots : InLock(r)' <=> \E i \in DOMAIN queue' : queue'[i] = r
      BY <2>3, <2>4 DEF PoolInv, LockInv
    <3>3. ASSUME NEW r \in Slots, Launching(r)' PROVE queue'[1] = r
      <4>1. queue[1] = r /\ \E i \in DOMAIN queue : queue[i] = r
        BY <2>4, <3>3 DEF PoolInv, LockInv
      <4>2. 1 \in DOMAIN queue
        BY <2>2, <4>1
      <4> QED
        BY <2>3, <4>1, <4>2
    <3> QED
      BY <3>1, <3>2, <3>3 DEF LockInv
  <2>6. LaunchInv'
    BY <1>0, <2>4 DEF PoolInv, LaunchInv, Alive, Engine
  <2>7. BrowserInv'
    BY <1>0, <2>4 DEF PoolInv, BrowserInv, Alive
  <2>8. ProxyInv'
    BY <1>0 DEF PoolInv, ProxyInv
  <2> QED
    BY <2>5, <2>6, <2>7, <2>8
<1> QED
  BY <1>1, <1>2

LEMMA GetCachedStep ==
  ASSUME PoolInv, PoolTypeOK', NEW s \in Slots, GetCached(s)
  PROVE  LockInv' /\ LaunchInv' /\ BrowserInv' /\ ProxyInv'
<1>1. /\ Turn(s) /\ at[s] = "lock" /\ queue' = Others(s)
      /\ at' = [at EXCEPT ![s] = "page"] /\ \A r \in Slots \ {s} : via'[r] = via[r]
      /\ UNCHANGED <<tier, cached, entered, browser>>
  <2>1. cached[Engine(tier[s])] \in Ids \cup {0}
    BY DEF PoolInv, PoolTypeOK, Engine, Engines
  <2>2. GoOn(s, cached[Engine(tier[s])])
    BY DEF GetCached
  <2>3. at' = [at EXCEPT ![s] = "page"] /\ \A r \in Slots \ {s} : via'[r] = via[r]
    BY <2>1, <2>2, GoOnType DEF PoolInv
  <2> HIDE DEF GoOn, Others
  <2> QED
    BY <2>3 DEF GetCached, Turn
<1>2. at'[s] = "page" /\ \A r \in Slots \ {s} : at'[r] = at[r]
  BY <1>1 DEF PoolInv, PoolTypeOK
<1>3. LockInv'
  BY <1>1, <1>2, LeavesLock DEF PoolInv
<1>4. \A r \in Slots : ~Launching(r) /\ ~Launching(r)'
  <2>1. ASSUME NEW r \in Slots, Launching(r) PROVE FALSE
    BY <1>1, <2>1, OneLaunches DEF PoolInv, Launching
  <2> QED
    BY <1>2, <2>1 DEF Launching
<1>5. LaunchInv'
  BY <1>4 DEF LaunchInv
<1>6. BrowserInv'
  BY <1>1, <1>4 DEF PoolInv, BrowserInv, Alive
<1>7. ProxyInv'
  BY <1>1, <1>2 DEF PoolInv, ProxyInv
<1> QED
  BY <1>3, <1>5, <1>6, <1>7

LEMMA StartLaunchStep ==
  ASSUME PoolInv, PoolTypeOK', NEW s \in Slots, StartLaunch(s)
  PROVE  LockInv' /\ LaunchInv' /\ BrowserInv' /\ ProxyInv'
<1> DEFINE e == Engine(tier[s])
<1>0. e \in Engines
  BY DEF Engine, Engines
<1>1. PICK b \in Ids :
        /\ browser' = [browser EXCEPT ![b] =
             [ engine |-> e, state |-> "starting", hooked |-> FALSE, cut |-> FALSE ]]
        /\ got' = [got EXCEPT ![s] = b]
        /\ entered' = IF e = "camoufox" THEN b ELSE entered
        /\ browser[b] = Gone
  BY DEF StartLaunch, Unused
<1>2. /\ Turn(s) /\ at[s] = "lock" /\ ~Connected(e) /\ cached' = [cached EXCEPT ![e] = 0]
      /\ at' = [at EXCEPT ![s] = "launch"] /\ UNCHANGED <<tier, via, queue>>
  BY DEF StartLaunch, Turn
<1> HIDE DEF e
<1>3. /\ at'[s] = "launch" /\ \A r \in Slots \ {s} : at'[r] = at[r]
      /\ got'[s] = b
      /\ cached'[e] = 0 /\ \A f \in Engines \ {e} : cached'[f] = cached[f]
  BY <1>1, <1>2 DEF PoolInv, PoolTypeOK
<1>4. /\ browser'[b] = [engine |-> e, state |-> "starting", hooked |-> FALSE, cut |-> FALSE]
      /\ \A c \in Ids \ {b} : browser'[c] = browser[c]
  BY <1>1 DEF PoolInv, PoolTypeOK
<1>5. \A r \in Slots : ~Launching(r)
  <2>1. ASSUME NEW r \in Slots, Launching(r) PROVE FALSE
    BY <1>2, <2>1, OneLaunches DEF PoolInv, Launching
  <2> QED
    BY <2>1
<1>6. \A r \in Slots : /\ Launching(r)' <=> r = s
                       /\ InLock(r)' <=> InLock(r)
  BY <1>2, <1>3, <1>5 DEF Launching, InLock
<1>7. LockInv'
  <2>1. queue[1] = s
    BY <1>2 DEF Turn
  <2> QED
    BY <1>2, <1>6, <2>1 DEF PoolInv, LockInv
<1>8. LaunchInv'
  <2>1. Engine(tier'[s]) = e
    BY <1>2 DEF e
  <2> QED
    BY <1>1, <1>3, <1>4, <1>6, <2>1 DEF LaunchInv, Alive
<1>9. BrowserInv'
  <2>1. ASSUME NEW c \in Ids \ {b}, Alive(c)
        PROVE  /\ browser[c].hooked =>
                    /\ cached'[browser[c].engine] = c /\ browser[c].state = "up"
                    /\ browser[c].engine = "camoufox" => entered' = c
               /\ browser[c].hooked \/ browser[c].cut
    <3>1. browser[c].hooked \/ browser[c].cut
      BY <1>5, <2>1 DEF PoolInv, BrowserInv
    <3>2. ASSUME browser[c].hooked
          PROVE  /\ cached'[browser[c].engine] = c /\ browser[c].state = "up"
                 /\ browser[c].engine = "camoufox" => entered' = c
      <4>1. /\ cached[browser[c].engine] = c /\ browser[c].state = "up"
            /\ browser[c].engine = "camoufox" => entered = c
        BY <2>1, <3>2 DEF PoolInv, BrowserInv
      <4>2. browser[c].engine \in Engines
        BY <2>1 DEF PoolInv, PoolTypeOK, Alive, Browser
      <4>3. c # 0
        BY DEF Ids
      <4>4. browser[c].engine # e
        BY <1>2, <4>1, <4>3 DEF Connected
      <4> QED
        BY <1>1, <1>3, <4>1, <4>2, <4>4
    <3> QED
      BY <3>1, <3>2
  <2>2. Alive(b)' /\ ~browser'[b].hooked /\ Launching(s)'
    BY <1>4, <1>6 DEF Alive, Gone
  <2> QED
    BY <1>3, <1>4, <2>1, <2>2 DEF BrowserInv, Alive
<1>10. ProxyInv'
  <2>1. via[s] = 0
    BY <1>2 DEF PoolInv, ProxyInv
  <2> QED
    BY <1>2, <1>3, <2>1 DEF PoolInv, ProxyInv
<1> QED
  BY <1>7, <1>8, <1>9, <1>10

LEMMA LaunchFailsStep ==
  ASSUME PoolInv, PoolTypeOK', NEW s \in Slots, LaunchFails(s)
  PROVE  LockInv' /\ LaunchInv' /\ BrowserInv' /\ ProxyInv'
<1>1. /\ at[s] = "launch" /\ Launching(s) /\ browser[got[s]] = Gone
      /\ queue' = Others(s) /\ UNCHANGED <<tier, cached, entered, browser>>
  BY DEF LaunchFails, Launching
<1>2. /\ at'[s] = "handle" /\ via'[s] = 0
      /\ \A r \in Slots \ {s} : at'[r] = at[r] /\ via'[r] = via[r]
  BY DEF LaunchFails, Leave, PoolInv, PoolTypeOK
<1>3. LockInv'
  BY <1>1, <1>2, LeavesLock DEF PoolInv
<1>4. \A r \in Slots : /\ Launching(r) => r = s
                       /\ ~Launching(r)'
  <2>1. \A r \in Slots : Launching(r) => r = s
    BY <1>1, OneLaunches DEF PoolInv
  <2> QED
    BY <1>2, <2>1 DEF Launching
<1>5. LaunchInv'
  BY <1>4 DEF LaunchInv
<1>6. BrowserInv'
  BY <1>1, <1>4 DEF PoolInv, BrowserInv, Alive
<1>7. ProxyInv'
  BY <1>2 DEF PoolInv, ProxyInv
<1> QED
  BY <1>3, <1>5, <1>6, <1>7

LEMMA LaunchedStep ==
  ASSUME PoolInv, PoolTypeOK', NEW s \in Slots, Launched(s)
  PROVE  LockInv' /\ LaunchInv' /\ BrowserInv' /\ ProxyInv'
<1> DEFINE b == got[s]
           e == Engine(tier[s])
<1>0. e \in Engines
  BY DEF Engine, Engines
<1>1. /\ at[s] = "resume" /\ Launching(s) /\ queue' = Others(s)
      /\ UNCHANGED <<tier, entered>>
  BY DEF Launched, Launching
<1>2. /\ b \in Ids /\ cached[e] = 0
      /\ Alive(b) => /\ browser[b].engine = e /\ ~browser[b].hooked /\ ~browser[b].cut
                     /\ browser[b].state = "up"
                     /\ browser[b].engine = "camoufox" => entered = b
  BY <1>1 DEF PoolInv, LaunchInv
<1>3. /\ at'[s] = "page" /\ \A r \in Slots \ {s} : at'[r] = at[r] /\ via'[r] = via[r]
  <2>1. GoOn(s, b)
    BY DEF Launched
  <2> HIDE DEF b, GoOn
  <2>2. at' = [at EXCEPT ![s] = "page"] /\ \A r \in Slots \ {s} : via'[r] = via[r]
    BY <1>2, <2>1, GoOnType DEF PoolInv
  <2> QED
    BY <2>2 DEF PoolInv, PoolTypeOK
<1>4. /\ cached'[e] = b /\ \A f \in Engines \ {e} : cached'[f] = cached[f]
  BY <1>0 DEF Launched, PoolInv, PoolTypeOK
<1>5. /\ \A c \in Ids \ {b} : browser'[c] = browser[c]
      /\ ~Alive(b) => browser'[b] = Gone
      /\ Alive(b) => browser'[b] = [browser[b] EXCEPT !.hooked = TRUE]
  BY <1>2 DEF Launched, PoolInv, PoolTypeOK, Alive
<1> HIDE DEF b, e
<1>6. LockInv'
  BY <1>1, <1>3, LeavesLock DEF PoolInv
<1>7. \A r \in Slots : /\ Launching(r) => r = s
                       /\ ~Launching(r)'
  <2>1. \A r \in Slots : Launching(r) => r = s
    BY <1>1, OneLaunches DEF PoolInv
  <2> QED
    BY <1>3, <2>1 DEF Launching
<1>8. LaunchInv'
  BY <1>7 DEF LaunchInv
<1>9. BrowserInv'
  <2>1. ASSUME NEW c \in Ids \ {b}, Alive(c)
        PROVE  /\ browser[c].hooked =>
                    /\ cached'[browser[c].engine] = c /\ browser[c].state = "up"
                    /\ browser[c].engine = "camoufox" => entered' = c
               /\ browser[c].hooked \/ browser[c].cut
    <3>1. browser[c].hooked \/ browser[c].cut
      BY <1>7, <2>1 DEF PoolInv, BrowserInv, b
    <3>2. ASSUME browser[c].hooked
          PROVE  /\ cached'[browser[c].engine] = c /\ browser[c].state = "up"
                 /\ browser[c].engine = "camoufox" => entered' = c
      <4>1. /\ cached[browser[c].engine] = c /\ browser[c].state = "up"
            /\ browser[c].engine = "camoufox" => entered = c
        BY <2>1, <3>2 DEF PoolInv, BrowserInv
      <4>2. browser[c].engine \in Engines
        BY <2>1 DEF PoolInv, PoolTypeOK, Alive, Browser
      <4>3. browser[c].engine # e
        BY <1>2, <4>1 DEF Ids
      <4> QED
        BY <1>1, <1>4, <4>1, <4>2, <4>3
    <3> QED
      BY <3>1, <3>2
  <2>2. ASSUME Alive(b)
        PROVE  /\ browser'[b].hooked /\ browser'[b].engine = e /\ browser'[b].state = "up"
               /\ e = "camoufox" => entered' = b
    <3>1. browser[b] \in Browser
      BY <1>2, <2>2 DEF PoolInv, PoolTypeOK, Alive
    <3> QED
      BY <1>1, <1>2, <1>5, <2>2, <3>1 DEF Browser
  <2>3. ASSUME NEW c \in Ids, Alive(c)'
        PROVE  /\ browser'[c].hooked =>
                    /\ cached'[browser'[c].engine] = c /\ browser'[c].state = "up"
                    /\ browser'[c].engine = "camoufox" => entered' = c
               /\ browser'[c].hooked \/ browser'[c].cut
    <3>1. CASE c = b
      <4>1. Alive(b)
        BY <1>5, <2>3, <3>1 DEF Alive
      <4> QED
        BY <1>4, <2>2, <3>1, <4>1
    <3>2. CASE c # b
      <4>1. browser'[c] = browser[c] /\ Alive(c)
        BY <1>5, <2>3, <3>2 DEF Alive
      <4> QED
        BY <2>1, <3>2, <4>1
    <3> QED
      BY <3>1, <3>2
  <2> QED
    BY <2>3 DEF BrowserInv, Alive
<1>10. ProxyInv'
  BY <1>3 DEF PoolInv, ProxyInv
<1> QED
  BY <1>6, <1>8, <1>9, <1>10

LEMMA BrowserUpStep ==
  ASSUME PoolInv, PoolTypeOK', NEW b \in Ids, BrowserUp(b)
  PROVE  LockInv' /\ LaunchInv' /\ BrowserInv' /\ ProxyInv'
<1>1. /\ Alive(b) /\ browser[b].state = "starting"
      /\ UNCHANGED <<tier, got, via, queue, cached, entered>>
  BY DEF BrowserUp, Alive
<1>2. /\ browser'[b] = [browser[b] EXCEPT !.state = "up"]
      /\ \A c \in Ids \ {b} : browser'[c] = browser[c]
  BY DEF BrowserUp, PoolInv, PoolTypeOK
<1>3. \A s \in Slots :
        at'[s] = IF at[s] = "launch" /\ got[s] = b THEN "resume" ELSE at[s]
  BY DEF BrowserUp
<1>4. \A s \in Slots : /\ Launching(s)' <=> Launching(s)
                       /\ InLock(s)' <=> InLock(s)
  BY <1>3 DEF Launching, InLock
<1>5. /\ browser[b] \in Browser
      /\ Alive(b)' /\ browser'[b].state = "up" /\ browser'[b].engine = browser[b].engine
      /\ browser'[b].hooked = browser[b].hooked /\ browser'[b].cut = browser[b].cut
  <2>1. browser[b] \in Browser
    BY <1>1 DEF PoolInv, PoolTypeOK, Alive
  <2>2. browser'[b].hooked = browser[b].hooked /\ browser'[b].cut = browser[b].cut
    BY <1>2, <2>1 DEF Browser
  <2>3. browser'[b].state = "up" /\ browser'[b].engine = browser[b].engine
    BY <1>2, <2>1 DEF Browser
  <2>4. browser'[b] # Gone
    BY <2>3 DEF Gone
  <2> QED
    BY <2>1, <2>2, <2>3, <2>4 DEF Alive
<1>6. LockInv'
  BY <1>1, <1>4 DEF PoolInv, LockInv
<1>7. LaunchInv'
  <2>1. ASSUME NEW s \in Slots, Launching(s)
        PROVE  /\ got[s] \in Ids
               /\ cached[Engine(tier[s])] = 0
               /\ Alive(got[s]) => /\ browser[got[s]].engine = Engine(tier[s])
                                   /\ ~browser[got[s]].hooked /\ ~browser[got[s]].cut
                                   /\ at[s] = "resume" => browser[got[s]].state = "up"
                                   /\ browser[got[s]].engine = "camoufox" => entered = got[s]
    BY <2>1 DEF PoolInv, LaunchInv
  <2>2. ASSUME NEW s \in Slots, Launching(s), got[s] = b
        PROVE  /\ browser'[b].engine = Engine(tier[s])
               /\ ~browser'[b].hooked /\ ~browser'[b].cut
               /\ browser'[b].state = "up"
               /\ browser'[b].engine = "camoufox" => entered = b
    BY <1>1, <1>5, <2>1, <2>2
  <2>3. ASSUME NEW s \in Slots, Launching(s), got[s] # b
        PROVE  browser'[got[s]] = browser[got[s]] /\ at'[s] = at[s]
    BY <1>2, <1>3, <2>1, <2>3
  <2> QED
    BY <1>1, <1>4, <2>1, <2>2, <2>3 DEF LaunchInv, Alive, Engine
<1>8. BrowserInv'
  <2>1. ASSUME NEW c \in Ids
        PROVE  /\ Alive(c)' <=> Alive(c)
               /\ Alive(c) => /\ browser'[c].hooked = browser[c].hooked
                              /\ browser'[c].cut = browser[c].cut
                              /\ browser'[c].engine = browser[c].engine
                              /\ browser[c].state = "up" => browser'[c].state = "up"
    BY <1>1, <1>2, <1>5 DEF Alive
  <2> QED
    BY <1>1, <1>4, <2>1 DEF PoolInv, BrowserInv
<1>9. ProxyInv'
  BY <1>1, <1>3 DEF PoolInv, ProxyInv
<1> QED
  BY <1>6, <1>7, <1>8, <1>9

LEMMA BrowserDiesStep ==
  ASSUME PoolInv, PoolTypeOK', NEW b \in Ids, BrowserDies(b)
  PROVE  LockInv' /\ LaunchInv' /\ BrowserInv' /\ ProxyInv'
<1>1. Alive(b) /\ UNCHANGED <<at, tier, got, via, queue>>
  BY DEF BrowserDies, Alive
<1>2. ~Alive(b)' /\ \A c \in Ids \ {b} : browser'[c] = browser[c]
  BY DEF BrowserDies, PoolInv, PoolTypeOK, Alive
<1>3. \A s \in Slots : /\ Launching(s)' <=> Launching(s)
                       /\ InLock(s)' <=> InLock(s)
  BY <1>1 DEF Launching, InLock
<1>4. browser[b].engine \in Engines
  BY <1>1 DEF PoolInv, PoolTypeOK, Alive, Browser
<1>5. /\ \A f \in Engines : cached'[f] = cached[f] \/ (browser[b].hooked /\ f = browser[b].engine /\ cached'[f] = 0)
      /\ entered' = entered \/ (browser[b].hooked /\ browser[b].engine = "camoufox")
  BY <1>4 DEF BrowserDies, PoolInv, PoolTypeOK
<1>6. browser[b].hooked => /\ cached[browser[b].engine] = b
                           /\ browser[b].engine = "camoufox" => entered = b
  BY <1>1 DEF PoolInv, BrowserInv
<1>7. LockInv'
  BY <1>1, <1>3 DEF PoolInv, LockInv
<1>8. LaunchInv'
  <2>1. ASSUME NEW s \in Slots, Launching(s)
        PROVE  /\ got[s] \in Ids
               /\ cached[Engine(tier[s])] = 0
               /\ Alive(got[s]) => /\ browser[got[s]].engine = Engine(tier[s])
                                   /\ ~browser[got[s]].hooked /\ ~browser[got[s]].cut
                                   /\ at[s] = "resume" => browser[got[s]].state = "up"
                                   /\ browser[got[s]].engine = "camoufox" => entered = got[s]
    BY <2>1 DEF PoolInv, LaunchInv
  <2>2. \A t : Engine(t) \in Engines
    BY DEF Engine, Engines
  <2>3. ASSUME NEW s \in Slots, Launching(s) PROVE cached'[Engine(tier[s])] = 0
    BY <1>5, <2>1, <2>2, <2>3
  <2>4. ASSUME NEW s \in Slots, Launching(s), got[s] # b
        PROVE  /\ browser'[got[s]] = browser[got[s]]
               /\ Alive(got[s]) /\ browser[got[s]].engine = "camoufox" => entered' = got[s]
    BY <1>2, <1>5, <1>6, <2>1, <2>4
  <2> QED
    BY <1>1, <1>2, <1>3, <2>1, <2>3, <2>4 DEF LaunchInv, Alive, Engine
<1>9. BrowserInv'
  <2>1. ASSUME NEW c \in Ids, Alive(c)'
        PROVE  c # b /\ Alive(c) /\ browser'[c] = browser[c]
    BY <1>2, <2>1 DEF Alive
  <2>2. ASSUME NEW c \in Ids, Alive(c)', browser[c].hooked
        PROVE  /\ cached'[browser[c].engine] = c /\ browser[c].state = "up"
               /\ browser[c].engine = "camoufox" => entered' = c
    <3>1. /\ cached[browser[c].engine] = c /\ browser[c].state = "up"
          /\ browser[c].engine = "camoufox" => entered = c
      BY <2>1, <2>2 DEF PoolInv, BrowserInv
    <3>2. browser[c].engine \in Engines
      BY <2>1, <2>2 DEF PoolInv, PoolTypeOK, Alive, Browser
    <3> QED
      BY <1>5, <1>6, <2>1, <2>2, <3>1, <3>2
  <2>3. ASSUME NEW c \in Ids, Alive(c)', ~browser[c].hooked /\ ~browser[c].cut
        PROVE  \E s \in Slots : Launching(s)' /\ got'[s] = c
    BY <1>1, <1>3, <2>1, <2>3 DEF PoolInv, BrowserInv
  <2> QED
    BY <2>1, <2>2, <2>3 DEF BrowserInv
<1>10. ProxyInv'
  BY <1>1 DEF PoolInv, ProxyInv
<1> QED
  BY <1>7, <1>8, <1>9, <1>10

LEMMA CutStep ==
  ASSUME PoolInv, PoolTypeOK', NEW s \in Slots, Cut(s)
  PROVE  LockInv' /\ LaunchInv' /\ BrowserInv' /\ ProxyInv'
<1>1. queue' = Others(s) /\ UNCHANGED <<tier, cached, entered>>
  BY DEF Cut
<1>2. /\ at'[s] = "handle" /\ via'[s] = 0
      /\ \A r \in Slots \ {s} : at'[r] = at[r] /\ via'[r] = via[r] /\ got'[r] = got[r]
  BY DEF Cut, Leave, PoolInv, PoolTypeOK
<1>3. \A r \in Slots : Launching(r)' <=> r # s /\ Launching(r)
  BY <1>2 DEF Launching
<1>4. LockInv'
  BY <1>1, <1>2, LeavesLock DEF PoolInv
<1>5. ProxyInv'
  BY <1>2 DEF PoolInv, ProxyInv
<1>6. CASE Launching(s)
  <2>1. \A r \in Slots : (Launching(r) => r = s) /\ ~Launching(r)'
    BY <1>3, <1>6, OneLaunches DEF PoolInv
  <2>2. LaunchInv'
    BY <2>1 DEF LaunchInv
  <2>3. /\ \A c \in Ids : Alive(c)' <=> Alive(c)
        /\ \A c \in Ids \ {got[s]} : browser'[c] = browser[c]
        /\ got[s] \in Ids /\ Alive(got[s]) =>
             /\ browser'[got[s]].cut /\ browser'[got[s]].hooked = browser[got[s]].hooked
    <3>1. \A c \in Ids : browser'[c] = IF c = got[s] /\ browser[c] # Gone
                                       THEN [browser[c] EXCEPT !.cut = TRUE] ELSE browser[c]
      BY <1>6 DEF Cut, Launching
    <3>2. \A c \in Ids : Alive(c) => browser[c] \in Browser
      BY DEF PoolInv, PoolTypeOK, Alive
    <3>3. \A x \in Browser : /\ [x EXCEPT !.cut = TRUE] # Gone
                             /\ [x EXCEPT !.cut = TRUE].cut
                             /\ [x EXCEPT !.cut = TRUE].hooked = x.hooked
      <4>1. ASSUME NEW x \in Browser
            PROVE  [x EXCEPT !.cut = TRUE].cut /\ [x EXCEPT !.cut = TRUE].hooked = x.hooked
        BY DEF Browser
      <4>2. ASSUME NEW x \in Browser
            PROVE  [x EXCEPT !.cut = TRUE] # Gone
        <5>1. [x EXCEPT !.cut = TRUE].state = x.state /\ x.state # "gone"
          BY DEF Browser
        <5>2. Gone.state = "gone"
          BY DEF Gone
        <5> QED
          BY <5>1, <5>2
      <4> QED
        BY <4>1, <4>2
    <3> QED
      BY <3>1, <3>2, <3>3 DEF Alive
  <2>4. \A c \in Ids : Alive(c)' => browser[c].hooked \/ browser[c].cut \/ c = got[s]
    BY <2>1, <2>3 DEF PoolInv, BrowserInv
  <2>5. Alive(got[s]) => ~browser[got[s]].hooked
    BY <1>6 DEF PoolInv, LaunchInv
  <2>6. BrowserInv'
    BY <1>1, <2>3, <2>4, <2>5 DEF PoolInv, BrowserInv
  <2> QED
    BY <1>4, <1>5, <2>2, <2>6
<1>7. CASE ~Launching(s)
  <2>1. \A c \in Ids : browser'[c] = browser[c]
    BY <1>7 DEF Cut, Launching
  <2>2. LaunchInv'
    <3>1. \A r \in Slots : Launching(r)' =>
            /\ Launching(r) /\ got'[r] = got[r] /\ at'[r] = at[r] /\ got[r] \in Ids
      BY <1>2, <1>3 DEF PoolInv, LaunchInv
    <3> QED
      BY <1>1, <2>1, <3>1 DEF PoolInv, LaunchInv, Alive, Engine
  <2>3. BrowserInv'
    <3>1. \A r \in Slots : Launching(r) => Launching(r)' /\ got'[r] = got[r]
      BY <1>2, <1>3, <1>7
    <3> QED
      BY <1>1, <2>1, <3>1 DEF PoolInv, BrowserInv, Alive
  <2> QED
    BY <1>4, <1>5, <2>2, <2>3
<1> QED
  BY <1>6, <1>7

LEMMA ClosePoolStep ==
  ASSUME PoolInv, PoolTypeOK', ClosePool
  PROVE  LockInv' /\ LaunchInv' /\ BrowserInv' /\ ProxyInv'
<1>1. /\ \A s \in Slots : at[s] = "idle"
      /\ UNCHANGED <<at, tier, got, via, queue>>
      /\ \A b \in Ids : browser'[b] = IF b \in {cached["chromium"], entered}
                                      THEN Gone ELSE browser[b]
  BY DEF ClosePool
<1>2. \A s \in Slots : /\ ~Launching(s) /\ ~Launching(s)'
                       /\ InLock(s)' <=> InLock(s)
  BY <1>1 DEF Launching, InLock
<1>3. LockInv'
  BY <1>1, <1>2 DEF PoolInv, LockInv
<1>4. LaunchInv'
  BY <1>2 DEF LaunchInv
<1>5. BrowserInv'
  <2>1. ASSUME NEW b \in Ids, Alive(b)'
        PROVE  browser'[b] = browser[b] /\ ~browser[b].hooked /\ browser[b].cut
    <3>1. browser'[b] = browser[b] /\ Alive(b) /\ b # cached["chromium"] /\ b # entered
      BY <1>1, <2>1 DEF Alive
    <3>2. browser[b].engine \in {"chromium", "camoufox"}
      BY <3>1 DEF PoolInv, PoolTypeOK, Alive, Browser, Engines
    <3>3. ~browser[b].hooked
      BY <3>1, <3>2 DEF PoolInv, BrowserInv
    <3> QED
      BY <1>2, <3>1, <3>3 DEF PoolInv, BrowserInv
  <2> QED
    BY <2>1 DEF BrowserInv
<1>6. ProxyInv'
  BY <1>1 DEF PoolInv, ProxyInv
<1> QED
  BY <1>3, <1>4, <1>5, <1>6

\* Every step keeps the invariant.
LEMMA PoolStep == PoolInv /\ [Next]_vars => PoolInv'
<1> SUFFICES ASSUME PoolInv, [Next]_vars PROVE LockInv' /\ LaunchInv' /\ BrowserInv' /\ ProxyInv'
  BY TypeStep DEF PoolInv
<1>0. PoolTypeOK /\ PoolTypeOK' /\ ProxyInv
  BY TypeStep DEF PoolInv
<1> DEFINE Rest == LockInv' /\ LaunchInv' /\ BrowserInv' /\ ProxyInv'
<1>1. ASSUME NEW s \in Slots, Claim(s) PROVE Rest
  <2>1. /\ UNCHANGED browsers /\ ~InLock(s) /\ at'[s] = "claimed" /\ via'[s] = 0
        /\ \A r \in Slots \ {s} : /\ at'[r] = at[r] /\ got'[r] = got[r]
                                  /\ tier'[r] = tier[r] /\ via'[r] = via[r]
    BY <1>0, <1>1 DEF Claim, PoolTypeOK, InLock, ProxyInv
  <2> QED
    BY <2>1, QuietStep
<1>2. ASSUME NEW s \in Slots, TakeConnection(s) PROVE Rest
  BY <1>0, <1>2, TakeConnectionStep
<1>3. ASSUME NEW s \in Slots, Report(s) PROVE Rest
  <2>1. /\ UNCHANGED browsers /\ ~InLock(s) /\ at'[s] = "idle" /\ via'[s] = 0
        /\ \A r \in Slots \ {s} : /\ at'[r] = at[r] /\ got'[r] = got[r]
                                  /\ tier'[r] = tier[r] /\ via'[r] = via[r]
    BY <1>0, <1>3 DEF Report, PoolTypeOK, InLock, ProxyInv
  <2> QED
    BY <2>1, QuietStep
<1>4. ASSUME NEW s \in Slots, TakeSecond(s) PROVE Rest
  <2>1. /\ UNCHANGED browsers /\ ~InLock(s) /\ at'[s] = "using" /\ via'[s] = 0
        /\ \A r \in Slots \ {s} : /\ at'[r] = at[r] /\ got'[r] = got[r]
                                  /\ tier'[r] = tier[r] /\ via'[r] = via[r]
    BY <1>0, <1>4 DEF TakeSecond, PoolTypeOK, InLock, ProxyInv
  <2> QED
    BY <2>1, QuietStep
<1>5. ASSUME NEW s \in Slots, GiveSecond(s) PROVE Rest
  <2>1. /\ UNCHANGED browsers /\ ~InLock(s) /\ at'[s] = "remote" /\ via'[s] = 0
        /\ \A r \in Slots \ {s} : /\ at'[r] = at[r] /\ got'[r] = got[r]
                                  /\ tier'[r] = tier[r] /\ via'[r] = via[r]
    BY <1>0, <1>5 DEF GiveSecond, PoolTypeOK, InLock, ProxyInv
  <2> QED
    BY <2>1, QuietStep
<1>6. ASSUME NEW s \in Slots, RemoteEnds(s) \/ PageDone(s) \/ PageFails(s) PROVE Rest
  <2>1. PICK next \in {"complete", "handle"} : Leave(s, next)
    BY <1>6 DEF RemoteEnds, PageDone, PageFails
  <2>2. UNCHANGED browsers /\ UNCHANGED tier /\ ~InLock(s)
    BY <1>6 DEF RemoteEnds, PageDone, PageFails, InLock
  <2>3. /\ at'[s] = next /\ via'[s] = 0
        /\ \A r \in Slots \ {s} : /\ at'[r] = at[r] /\ got'[r] = got[r] /\ via'[r] = via[r]
    BY <1>0, <2>1 DEF Leave, PoolTypeOK
  <2> QED
    BY <2>2, <2>3, QuietStep
<1>7. ASSUME NEW s \in Slots, GetCached(s) PROVE Rest
  BY <1>0, <1>7, GetCachedStep
<1>8. ASSUME NEW s \in Slots, StartLaunch(s) PROVE Rest
  BY <1>0, <1>8, StartLaunchStep
<1>9. ASSUME NEW s \in Slots, LaunchFails(s) PROVE Rest
  BY <1>0, <1>9, LaunchFailsStep
<1>10. ASSUME NEW s \in Slots, Launched(s) PROVE Rest
  BY <1>0, <1>10, LaunchedStep
<1>11. ASSUME NEW s \in Slots, Cut(s) PROVE Rest
  BY <1>0, <1>11, CutStep
<1>12. ASSUME NEW b \in Ids, BrowserUp(b) PROVE Rest
  BY <1>0, <1>12, BrowserUpStep
<1>13. ASSUME NEW b \in Ids, BrowserDies(b) PROVE Rest
  BY <1>0, <1>13, BrowserDiesStep
<1>14. CASE LoopTakes \/ LoopGives \/ LoadProxies \/ Shutdown \/ UNCHANGED vars
  <2>1. UNCHANGED <<at, tier, got, via, browsers>>
    BY <1>14 DEF LoopTakes, LoopGives, LoadProxies, Shutdown, vars, browsers
  <2> QED
    BY <2>1, StillStep
<1>15. CASE ClosePool
  BY <1>0, <1>15, ClosePoolStep
<1>16. ASSUME NEW s \in Slots,
              \/ Claim(s) \/ TakeConnection(s) \/ Report(s)
              \/ TakeSecond(s) \/ GiveSecond(s) \/ RemoteEnds(s)
              \/ GetCached(s) \/ StartLaunch(s) \/ LaunchFails(s) \/ Launched(s)
              \/ PageDone(s) \/ PageFails(s) \/ Cut(s)
       PROVE  Rest
  <2> HIDE DEF Rest
  <2> QED
    BY <1>1, <1>2, <1>3, <1>4, <1>5, <1>6, <1>7, <1>8, <1>9, <1>10, <1>11, <1>16
<1> QED
  BY <1>12, <1>13, <1>14, <1>15, <1>16 DEF Next

\* The invariant holds in every state.
THEOREM PoolSafe == Spec => []PoolInv
<1>1. Init => PoolInv
  BY InitPool
<1>2. PoolInv /\ [Next]_vars => PoolInv'
  BY PoolStep
<1> QED
  BY <1>1, <1>2, PTL DEF Spec

-----------------------------------------------------------------------------
(* The theorems *)

\* The variables keep their types: the connections in use are those the steps
\* of the captures account for (worker.py:357-471).
THEOREM PoolTypes == Spec => []PoolTypeOK
<1>1. PoolInv => PoolTypeOK
  BY DEF PoolInv
<1> QED
  BY <1>1, PoolSafe, PTL

\* The lock of the browser pool is never left behind by a capture that was cut
\* (browser_pool.py:61).
THEOREM LockIsNeverLeft == Spec => []LockIsHeldByCapture
<1>1. PoolInv => LockIsHeldByCapture
  <2> SUFFICES ASSUME PoolInv, queue # << >> PROVE InLock(queue[1])
    BY DEF LockIsHeldByCapture, InLock
  <2>1. 1 \in DOMAIN queue /\ queue[1] \in Slots
    BY DEF PoolInv, PoolTypeOK
  <2> QED
    BY <2>1 DEF PoolInv, LockInv
<1> QED
  BY <1>1, PoolSafe, PTL

\* However many captures share it, the pool keeps one live browser of an engine
\* (browser_pool.py:55-118).
THEOREM BrowserIsShared == Spec => []OneBrowser
<1>1. PoolInv => OneBrowser
  <2> SUFFICES ASSUME PoolInv, NEW b \in Ids, NEW c \in Ids, Alive(b), Alive(c),
                      ~browser[b].cut, ~browser[c].cut,
                      browser[b].engine = browser[c].engine
               PROVE  b = c
    BY DEF OneBrowser, Alive
  <2>1. b # 0 /\ c # 0
    BY DEF Ids
  <2>2. ASSUME NEW d \in Ids, Alive(d), ~browser[d].cut
        PROVE  \/ cached[browser[d].engine] = d
               \/ \E s \in Slots : /\ Launching(s) /\ got[s] = d
                                   /\ cached[browser[d].engine] = 0
    BY <2>2 DEF PoolInv, BrowserInv, LaunchInv
  <2>3. CASE cached[browser[b].engine] = b
    BY <2>1, <2>2, <2>3
  <2>4. CASE cached[browser[b].engine] # b
    <3>1. PICK s \in Slots : Launching(s) /\ got[s] = b /\ cached[browser[b].engine] = 0
      BY <2>2, <2>4
    <3>2. PICK r \in Slots : Launching(r) /\ got[r] = c
      BY <2>1, <2>2, <3>1
    <3>3. r = s
      BY <3>1, <3>2, OneLaunches DEF PoolInv
    <3> QED
      BY <3>1, <3>2, <3>3
  <2> QED
    BY <2>3, <2>4
<1> QED
  BY <1>1, PoolSafe, PTL

\* No live browser is dropped by a handler or a launch: close() reaches each whose
\* launch was not cancelled (browser_pool.py:66-135).
THEOREM BrowsersAreKept == Spec => []NoBrowserLost
<1>1. PoolInv => NoBrowserLost
  BY DEF PoolInv, BrowserInv, Alive, Launching, NoBrowserLost
<1> QED
  BY <1>1, PoolSafe, PTL

\* The captures that wait for a second connection never hold all of them: each
\* capture keeps one, if there are more connections than captures, which the
\* settings may deny (worker.py:201, 366, 1266; config.py:69).
THEOREM SecondIsServed ==
  ASSUME Cardinality(Slots) < PoolSize
  PROVE  Spec => []NoCircularWait
<1>1. PoolTypeOK => NoCircularWait
  <2> SUFFICES ASSUME PoolTypeOK, <<"loops", "query">> \notin held,
                      ~\E r \in Slots : /\ at[r] \notin {"idle", "claimed", "second"}
                                        /\ {<<r, "job">>, <<r, "second">>} \cap held # {}
               PROVE  Free
    BY DEF NoCircularWait
  <2>1. held \subseteq Slots \X {"job"}
    <3>1. ASSUME NEW h \in held PROVE h \in Slots \X {"job"}
      <4>1. h \in Slots \X {"job", "second"}
        BY DEF PoolTypeOK
      <4>2. PICK r \in Slots, w \in {"job", "second"} : h = <<r, w>>
        BY <4>1
      <4>3. at[r] \in {"idle", "claimed", "second"}
        BY <4>2
      <4>4. w # "second"
        BY <4>2, <4>3 DEF PoolTypeOK
      <4> QED
        BY <4>2, <4>4
    <3> QED
      BY <3>1
  <2>2. /\ IsFiniteSet(Slots \X {"job"})
        /\ Cardinality(Slots \X {"job"}) = Cardinality(Slots) * 1
    <3>1. IsFiniteSet({"job"}) /\ Cardinality({"job"}) = 1
      BY FS_Singleton
    <3>2. IsFiniteSet(Slots)
      BY PoolAssumption
    <3> QED
      BY <3>1, <3>2, FS_Product
  <2>3. Cardinality(held) <= Cardinality(Slots \X {"job"})
    BY <2>1, <2>2, FS_Subset
  <2>4. IsFiniteSet(held)
    BY <2>1, <2>2, FS_Subset
  <2>5. Cardinality(Slots) \in Nat /\ Cardinality(held) \in Nat
    BY <2>4, FS_CardinalityType, PoolAssumption
  <2> QED
    BY <2>2, <2>3, <2>5, PoolAssumption DEF Free
<1> QED
  BY <1>1, PoolTypes, PTL

\* A round of the cycle passes every proxy, and the cursor's own last.
LEMMA AroundTheCycle ==
  ASSUME cursor \in Proxies \cup {0}
  PROVE  /\ \A q \in Proxies : \E k \in 1..NumProxies : Around(k) = q
         /\ \A k \in 1..NumProxies : Around(k) = cursor => k = NumProxies
<1>1. ASSUME NEW q \in Proxies PROVE \E k \in 1..NumProxies : Around(k) = q
  <2>1. CASE q > cursor
    <3>1. q - cursor \in 1..NumProxies /\ Around(q - cursor) = q
      BY <2>1, PoolAssumption DEF Around, Proxies
    <3> QED
      BY <3>1
  <2>2. CASE ~(q > cursor)
    <3> DEFINE k == (q + NumProxies) - cursor
    <3>1. k \in 1..NumProxies /\ Around(k) = q
      BY <2>2, PoolAssumption DEF Around, Proxies
    <3> HIDE DEF k
    <3> QED
      BY <3>1
  <2> QED
    BY <2>1, <2>2
<1>2. ASSUME NEW k \in 1..NumProxies, Around(k) = cursor PROVE k = NumProxies
  BY <1>2, PoolAssumption DEF Around, Proxies
<1> QED
  BY <1>1, <1>2

\* The proxy that comes next is neither failed nor the last one given out, if
\* there is any that is neither.
LEMMA NextProxyTurns ==
  ASSUME cursor \in Proxies \cup {0}, NextProxy # 0, NextProxy \in failed \cup {cursor}
  PROVE  Proxies \subseteq failed \cup {NextProxy}
<1> DEFINE fresh == {k \in 1..NumProxies : Around(k) \notin failed}
<1>1. CASE fresh = {}
  <2>1. ASSUME NEW q \in Proxies PROVE q \in failed
    <3>1. PICK k \in 1..NumProxies : Around(k) = q
      BY AroundTheCycle
    <3> QED
      BY <1>1, <3>1
  <2> QED
    BY <2>1
<1>2. CASE fresh # {}
  <2> DEFINE k == CHOOSE i \in fresh : \A j \in fresh : i <= j
  <2>1. fresh \in SUBSET Nat
    OBVIOUS
  <2>2. k \in fresh /\ \A j \in fresh : k <= j
    BY <1>2, <2>1, SmallestChosen
  <2>3. NextProxy = Around(k)
    BY <1>2 DEF NextProxy
  <2> HIDE DEF k
  <2>4. Around(k) = cursor
    BY <2>2, <2>3
  <2>5. k = NumProxies
    BY <2>2, <2>4, AroundTheCycle
  <2>6. ASSUME NEW q \in Proxies PROVE q \in failed \cup {NextProxy}
    <3>1. PICK j \in 1..NumProxies : Around(j) = q
      BY AroundTheCycle
    <3>2. CASE j \in fresh
      <4>1. j = NumProxies
        BY <2>2, <2>5, <3>2, PoolAssumption
      <4> QED
        BY <2>3, <2>5, <3>1, <4>1
    <3>3. CASE j \notin fresh
      BY <3>1, <3>3
    <3> QED
      BY <3>2, <3>3
  <2> QED
    BY <2>6
<1> QED
  BY <1>1, <1>2

\* However many captures fail at once, the rotator repeats a proxy, or hands
\* out a failed one, only when nothing else is left (proxy.py:46-63).
THEOREM TurnsAreKept == Spec => ProxiesTakeTurns
<1>1. PoolInv /\ [Next]_vars =>
        [\A s \in Slots :
           at[s] # "page" /\ at'[s] = "page" /\ via'[s] # 0 /\ via'[s] \in failed \cup {cursor}
             => Proxies \subseteq failed \cup {via'[s]}]_vars
  <2> SUFFICES ASSUME PoolInv, Next, NEW s \in Slots, at[s] # "page", at'[s] = "page",
                      via'[s] # 0, via'[s] \in failed \cup {cursor}
               PROVE  Proxies \subseteq failed \cup {via'[s]}
    OBVIOUS
  <2>0. /\ at \in [Slots -> Timed \cup {"idle", "claimed", "complete", "handle"}]
        /\ via \in [Slots -> Proxies \cup {0}] /\ via[s] = 0
        /\ cursor \in Proxies \cup {0}
    BY DEF PoolInv, PoolTypeOK, ProxyInv
  <2>1. ASSUME NEW r \in Slots,
               \/ Claim(r) \/ TakeConnection(r) \/ Report(r) \/ TakeSecond(r)
               \/ GiveSecond(r) \/ StartLaunch(r)
        PROVE  at'[s] # "page"
    BY <2>0, <2>1 DEF Claim, TakeConnection, Report, TakeSecond, GiveSecond, StartLaunch
  <2>2. ASSUME NEW r \in Slots,
               RemoteEnds(r) \/ LaunchFails(r) \/ PageDone(r) \/ PageFails(r) \/ Cut(r)
        PROVE  at'[s] # "page"
    BY <2>0, <2>2 DEF RemoteEnds, LaunchFails, PageDone, PageFails, Cut, Leave
  <2>3. ASSUME NEW r \in Slots, NEW b, GoOn(r, b)
        PROVE  Proxies \subseteq failed \cup {via'[s]}
    <3>1. r = s
      BY <2>0, <2>3 DEF GoOn
    <3>2. NextProxy # 0 /\ via'[s] = NextProxy
      <4> HIDE DEF NextProxy
      <4> QED
        BY <2>0, <2>3, <3>1 DEF GoOn
    <3> HIDE DEF NextProxy
    <3> QED
      BY <2>0, <3>2, NextProxyTurns
  <2>4. ASSUME NEW r \in Slots, GetCached(r) \/ Launched(r)
        PROVE  Proxies \subseteq failed \cup {via'[s]}
    BY <2>3, <2>4 DEF GetCached, Launched
  <2>5. ASSUME NEW b \in Ids, BrowserUp(b) \/ BrowserDies(b) PROVE at'[s] # "page"
    BY <2>5 DEF BrowserUp, BrowserDies
  <2>6. CASE LoopTakes \/ LoopGives \/ LoadProxies \/ Shutdown \/ ClosePool
    BY <2>6 DEF LoopTakes, LoopGives, LoadProxies, Shutdown, ClosePool
  <2> QED
    BY <2>1, <2>2, <2>4, <2>5, <2>6 DEF Next
<1> QED
  BY <1>1, PoolSafe, PTL DEF Spec, ProxiesTakeTurns
=============================================================================
