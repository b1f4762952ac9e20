--------------------------- MODULE WebServerProofs ---------------------------
(***************************************************************************)
(* What is proved about WebServer, for any limits, window and number of    *)
(* submissions at work.                                                    *)
(***************************************************************************)
EXTENDS WebServer, FiniteSetTheorems, SequenceTheorems, NumberLemmas

-----------------------------------------------------------------------------
(* The inductive invariant *)

\* The entries are in the order in which they were made.
WindowInOrder ==
  /\ \A k \in DOMAIN window : window[k].time <= now
  /\ \A i, k \in DOMAIN window : i <= k => window[i].time <= window[k].time

\* The entries are no more than the largest limit.
WindowIsShort == window # << >> => \E e \in Endpoints : Len(window) <= Limit[e]

\* The window is the end of all that was admitted, and what it has forgotten is
\* out of it for good.
WindowIsEnd ==
  /\ \A k \in DOMAIN admitted : admitted[k].time <= now
  /\ \E d \in 0..Len(admitted) :
       /\ Len(window) = Len(admitted) - d
       /\ \A k \in 1..(Len(admitted) - d) : window[k] = admitted[k + d]
       /\ \A k \in 1..d : admitted[k].time + Window < now

\* What a submission has seen when it looked for a recent capture.
LookedAt(r) ==
  /\ request[r].since <= now
  /\ \A i \in DOMAIN rows :
       rows[i].status = "complete" /\ rows[i].removal = "never" =>
         \/ rows[i].completed + Interval <= request[r].since
         \/ rows[i].completed >= request[r].since

LookedBeforeInsert ==
  \A r \in Requests :
    request[r].at = "insert" /\ request[r].kind \in {"api", "form"} => LookedAt(r)

LimiterInv == WindowInOrder /\ WindowIsShort /\ WindowIsEnd /\ LimitHolds

\* Only a recapture names an archive to begin with.
FindsAreRecaptures == \A r \in Requests : request[r].at = "find" => request[r].kind = "recapture"

WebInv == WebTypeOK /\ LimiterInv /\ FindsAreRecaptures /\ LookedBeforeInsert

-----------------------------------------------------------------------------
(* Lemmas about the limiter *)

LEMMA Constants ==
  /\ Window \in Nat /\ Interval \in Nat /\ MaxTime \in Nat /\ MaxRows \in Nat
  /\ MaxCrashes \in Nat
  /\ Endpoints # {} /\ \A e \in Endpoints : Limit[e] \in Nat
BY WebAssumption DEF Endpoints

\* What is left of the window is its end, from the first entry on that is not
\* too old.
LEMMA TrimmedIsTail ==
  ASSUME WebTypeOK
  PROVE  /\ Trimmed \in Seq(Entry)
         /\ \E d \in 0..Len(window) :
              /\ Len(Trimmed) = Len(window) - d
              /\ \A k \in 1..(Len(window) - d) : Trimmed[k] = window[k + d]
              /\ \A k \in 1..d : window[k].time + Window < now
<1> DEFINE n == Len(window)
           InWindow(k) == window[k].time + Window >= now
           First(d) == /\ d < n => InWindow(d + 1)
                       /\ \A k \in 1..d : ~InWindow(k)
           old == CHOOSE d \in 0..n : First(d)
<1>1. window \in Seq(Entry) /\ n \in Nat
  BY DEF WebTypeOK, Entry
<1>2. \E d \in 0..n : First(d)
  <2> DEFINE S == {d \in 0..n : d < n => InWindow(d + 1)}
  <2>1. S \in SUBSET Nat /\ n \in S
    BY <1>1
  <2>2. PICK d \in S : \A e \in S : d <= e
    BY <2>1, SmallestExists
  <2>3. ASSUME NEW k \in 1..d PROVE ~InWindow(k)
    <3>1. k - 1 \in 0..n /\ k - 1 < d /\ (k - 1) + 1 = k
      BY <1>1, <2>2
    <3>2. k - 1 \notin S
      <4>1. d \in Nat /\ k - 1 \in Nat /\ ~(d <= k - 1)
        BY <1>1, <2>2, <3>1
      <4> HIDE DEF S
      <4> QED
        BY <2>2, <4>1
    <3> QED
      BY <3>1, <3>2
  <2>4. d \in 0..n /\ (d < n => InWindow(d + 1))
    BY <2>2
  <2> HIDE DEF S, InWindow
  <2> QED
    BY <2>3, <2>4
<1>3. old \in 0..n
  BY <1>2
<1>4. Trimmed = SubSeq(window, old + 1, n)
  BY DEF Trimmed
<1>7. \A k \in 1..old : window[k].time + Window < now
  <2>1. \A k \in 1..old : ~InWindow(k)
    <3> HIDE DEF InWindow
    <3> QED
      BY <1>2
  <2>2. \A k \in 1..old : window[k].time \in Nat
    <3>1. \A k \in 1..old : k \in DOMAIN window
      BY <1>1, <1>3
    <3>2. \A k \in DOMAIN window : window[k] \in Entry
      BY <1>1
    <3> QED
      BY <3>1, <3>2, Constants DEF Entry
  <2>3. now \in Nat
    BY Constants DEF WebTypeOK
  <2> HIDE DEF old
  <2> QED
    BY <2>1, <2>2, <2>3, Constants
<1> HIDE DEF old, n
<1>5. /\ old + 1 \in 1..(n + 1) /\ n = Len(window)
      /\ n - (old + 1) + 1 = n - old /\ \A i \in Int : (old + 1) + i - 1 = i + old
      /\ old + 1 <= n \/ n - old = 0
  BY <1>1, <1>3 DEF n
<1>6. /\ Trimmed \in Seq(Entry)
      /\ Len(Trimmed) = n - old
      /\ \A k \in 1..(n - old) : Trimmed[k] = window[k + old]
  <2>1. /\ SubSeq(window, old + 1, n) \in Seq(Entry)
        /\ Len(SubSeq(window, old + 1, n)) = IF old + 1 <= n THEN n - (old + 1) + 1 ELSE 0
        /\ \A i \in 1..(n - (old + 1) + 1) :
             SubSeq(window, old + 1, n)[i] = window[(old + 1) + i - 1]
    <3>1. old + 1 \in Int /\ n \in Int /\ \A i \in (old + 1)..n : window[i] \in Entry
      BY <1>1, <1>3, <1>5
    <3> HIDE DEF Entry
    <3> QED
      BY <3>1, SubSeqProperties
  <2> QED
    BY <1>1, <1>3, <1>4, <1>5, <2>1
<1> QED
  BY <1>3, <1>5, <1>6, <1>7

\* What is left of the window is the end of all that was admitted.
LEMMA TrimmedIsEnd ==
  ASSUME WebTypeOK, WindowIsEnd
  PROVE  \E d \in 0..Len(admitted) :
           /\ Len(Trimmed) = Len(admitted) - d
           /\ \A k \in 1..(Len(admitted) - d) : Trimmed[k] = admitted[k + d]
           /\ \A k \in 1..d : admitted[k].time + Window < now
<1>1. PICK b \in 0..Len(window) :
        /\ Len(Trimmed) = Len(window) - b
        /\ \A k \in 1..(Len(window) - b) : Trimmed[k] = window[k + b]
        /\ \A k \in 1..b : window[k].time + Window < now
  BY TrimmedIsTail
<1>2. PICK d \in 0..Len(admitted) :
        /\ Len(window) = Len(admitted) - d
        /\ \A k \in 1..(Len(admitted) - d) : window[k] = admitted[k + d]
        /\ \A k \in 1..d : admitted[k].time + Window < now
  BY DEF WindowIsEnd
<1>3. Len(admitted) \in Nat /\ Len(window) \in Nat /\ b \in Nat /\ d \in Nat
  <2>1. window \in Seq(Entry) /\ admitted \in Seq(Entry)
    BY DEF WebTypeOK
  <2> HIDE DEF Entry
  <2> QED
    BY <2>1
<1> HIDE DEF Trimmed
<1>4. b + d \in 0..Len(admitted) /\ Len(Trimmed) = Len(admitted) - (b + d)
  BY <1>1, <1>2, <1>3
<1>5. ASSUME NEW k \in 1..(Len(admitted) - (b + d))
      PROVE  Trimmed[k] = admitted[k + (b + d)]
  <2>1. k \in 1..(Len(window) - b) /\ k + b \in 1..(Len(admitted) - d) /\ (k + b) + d = k + (b + d)
    BY <1>1, <1>2, <1>3
  <2> QED
    BY <1>1, <1>2, <2>1
<1>6. ASSUME NEW k \in 1..(b + d) PROVE admitted[k].time + Window < now
  <2>1. CASE k <= d
    BY <1>2, <1>3, <2>1
  <2>2. CASE ~(k <= d)
    <3>1. k - d \in 1..b /\ k - d \in 1..(Len(admitted) - d) /\ (k - d) + d = k
      BY <1>1, <1>2, <1>3, <2>2
    <3> QED
      BY <1>1, <1>2, <3>1
  <2> QED
    BY <2>1, <2>2
<1> QED
  BY <1>4, <1>5, <1>6

\* The limiter's invariant survives its two answers.
LEMMA LimiterKept ==
  ASSUME WebTypeOK, LimiterInv, NEW e \in Endpoints, Admit(e) \/ Refuse(e), UNCHANGED now
  PROVE  LimiterInv' /\ window' \in Seq(Entry) /\ admitted' \in Seq(Entry)
<1>1. PICK d \in 0..Len(window) :
        /\ Len(Trimmed) = Len(window) - d
        /\ \A k \in 1..(Len(window) - d) : Trimmed[k] = window[k + d]
  BY TrimmedIsTail
<1>2. /\ window \in Seq(Entry) /\ Trimmed \in Seq(Entry) /\ Len(window) \in Nat
      /\ DOMAIN window = 1..Len(window) /\ DOMAIN Trimmed = 1..Len(Trimmed)
      /\ Len(Trimmed) \in Nat /\ now \in 0..MaxTime
      /\ admitted \in Seq(Entry) /\ Len(admitted) \in Nat
      /\ DOMAIN admitted = 1..Len(admitted)
  BY TrimmedIsTail DEF WebTypeOK, Entry
<1>t. PICK b \in 0..Len(admitted) :
        /\ Len(Trimmed) = Len(admitted) - b
        /\ \A k \in 1..(Len(admitted) - b) : Trimmed[k] = admitted[k + b]
        /\ \A k \in 1..b : admitted[k].time + Window < now
  BY TrimmedIsEnd DEF LimiterInv
<1> HIDE DEF Trimmed
<1>3. \A k \in 1..Len(Trimmed) :
        /\ k + d \in DOMAIN window /\ Trimmed[k] = window[k + d]
        /\ Trimmed[k] \in Entry /\ Trimmed[k].time \in Nat /\ Trimmed[k].time <= now
  <2>1. \A k \in 1..Len(Trimmed) : k + d \in DOMAIN window /\ Trimmed[k] = window[k + d]
    BY <1>1, <1>2
  <2>2. \A k \in 1..Len(Trimmed) : Trimmed[k] \in Entry
    BY <1>2
  <2>3. \A k \in 1..Len(Trimmed) : Trimmed[k].time \in 0..MaxTime
    BY <2>2 DEF Entry
  <2>4. \A k \in 1..Len(Trimmed) : Trimmed[k].time <= now
    BY <2>1 DEF LimiterInv, WindowInOrder
  <2> QED
    BY <2>1, <2>2, <2>3, <2>4
<1>4. \A i, k \in 1..Len(Trimmed) : i <= k => Trimmed[i].time <= Trimmed[k].time
  <2> SUFFICES ASSUME NEW i \in 1..Len(Trimmed), NEW k \in 1..Len(Trimmed), i <= k
               PROVE  Trimmed[i].time <= Trimmed[k].time
    OBVIOUS
  <2>1. i + d \in DOMAIN window /\ k + d \in DOMAIN window /\ i + d <= k + d
    BY <1>1, <1>2, <1>3
  <2> QED
    BY <1>3, <2>1 DEF LimiterInv, WindowInOrder
<1>5. Trimmed # << >> => \E f \in Endpoints : Len(Trimmed) <= Limit[f]
  <2>1. Trimmed # << >> => window # << >>
    BY <1>1, <1>2
  <2> QED
    BY <1>1, <1>2, <2>1, Constants DEF LimiterInv, WindowIsShort
<1>7. CASE Refuse(e)
  <2>1. window' = Trimmed /\ admitted' = admitted /\ now' = now
    BY <1>7 DEF Refuse
  <2>2. WindowInOrder'
    BY <1>2, <1>3, <1>4, <2>1 DEF WindowInOrder
  <2>3. WindowIsShort'
    BY <1>5, <2>1 DEF WindowIsShort
  <2>4. LimitHolds'
    BY <2>1 DEF LimiterInv, LimitHolds, Inside
  <2>5. WindowIsEnd'
    BY <1>t, <2>1 DEF LimiterInv, WindowIsEnd
  <2> QED
    BY <1>2, <2>1, <2>2, <2>3, <2>4, <2>5 DEF LimiterInv
<1>6. CASE Admit(e) /\ Limit[e] = 0
  <2>1. UNCHANGED <<now, window, admitted>>
    BY <1>6 DEF Admit
  <2> QED
    BY <1>2, <2>1 DEF LimiterInv, WindowInOrder, WindowIsShort, WindowIsEnd, LimitHolds, Inside
<1>8. CASE Admit(e) /\ Limit[e] # 0
  <2> DEFINE x == [time |-> now, endpoint |-> e]
             m == Len(Trimmed)
             n == Len(admitted)
  <2>1. /\ window' = Append(Trimmed, x) /\ admitted' = Append(admitted, x)
        /\ now' = now /\ m < Limit[e] /\ x \in Entry
    BY <1>2, <1>8 DEF Admit, Admits, Entry
  <2>2. /\ Append(Trimmed, x) \in Seq(Entry) /\ Len(Append(Trimmed, x)) = m + 1
        /\ DOMAIN Append(Trimmed, x) = 1..(m + 1)
        /\ \A k \in 1..m : Append(Trimmed, x)[k] = Trimmed[k]
        /\ Append(Trimmed, x)[m + 1] = x
    BY <1>2, <2>1
  <2>a. /\ Append(admitted, x) \in Seq(Entry) /\ Len(Append(admitted, x)) = n + 1
        /\ DOMAIN Append(admitted, x) = 1..(n + 1)
        /\ \A k \in 1..n : Append(admitted, x)[k] = admitted[k]
        /\ Append(admitted, x)[n + 1] = x
    BY <1>2, <2>1
  <2>3. x.time = now /\ x.endpoint = e /\ m \in Nat /\ n \in Nat
    BY <1>2
  <2> HIDE DEF x, m, n
  <2>4. WindowInOrder'
    <3>1. \A k \in 1..(m + 1) : window'[k].time <= now'
      BY <1>2, <1>3, <2>1, <2>2, <2>3 DEF m
    <3>2. \A i, k \in 1..(m + 1) : i <= k => window'[i].time <= window'[k].time
      <4> SUFFICES ASSUME NEW i \in 1..(m + 1), NEW k \in 1..(m + 1), i <= k
                   PROVE  window'[i].time <= window'[k].time
        OBVIOUS
      <4>1. CASE k = m + 1
        BY <2>1, <2>2, <2>3, <3>1, <4>1
      <4>2. CASE k # m + 1
        <5>1. i \in 1..m /\ k \in 1..m
          BY <2>3, <4>2
        <5> QED
          BY <1>4, <2>1, <2>2, <5>1 DEF m
      <4> QED
        BY <4>1, <4>2
    <3> QED
      BY <2>1, <2>2, <3>1, <3>2 DEF WindowInOrder
  <2>5. WindowIsShort'
    <3>1. Len(window') <= Limit[e]
      BY <2>1, <2>2, <2>3, Constants
    <3> QED
      BY <3>1 DEF WindowIsShort
  <2>6. WindowIsEnd'
    <3>1. \A k \in 1..(n + 1) : admitted'[k].time <= now'
      <4>1. \A k \in 1..n : admitted[k].time <= now
        BY <1>2 DEF LimiterInv, WindowIsEnd, n
      <4>2. now <= now
        BY <1>2
      <4> QED
        BY <2>1, <2>3, <2>a, <4>1, <4>2
    <3>2. b \in 0..(n + 1) /\ Len(window') = (n + 1) - b
      BY <1>t, <2>1, <2>2, <2>3 DEF m, n
    <3>3. ASSUME NEW k \in 1..((n + 1) - b) PROVE window'[k] = admitted'[k + b]
      <4>1. CASE k = m + 1
        <5>1. k + b = n + 1
          BY <1>t, <2>3, <4>1 DEF m, n
        <5> QED
          BY <2>1, <2>2, <2>a, <4>1, <5>1
      <4>2. CASE k # m + 1
        <5>1. m = n - b /\ b \in Nat /\ b <= n /\ n = Len(admitted)
          BY <1>2, <1>t, <2>3 DEF m, n
        <5>2. k \in 1..m /\ k \in 1..(n - b) /\ k + b \in 1..n
          BY <2>3, <4>2, <5>1
        <5> QED
          BY <1>t, <2>1, <2>2, <2>a, <5>1, <5>2
      <4> QED
        BY <4>1, <4>2
    <3>4. ASSUME NEW k \in 1..b PROVE admitted'[k].time + Window < now'
      <4>1. k \in 1..n
        BY <1>t, <2>3 DEF n
      <4> QED
        BY <1>t, <2>1, <2>a, <4>1
    <3> QED
      BY <2>1, <2>a, <3>1, <3>2, <3>3, <3>4 DEF WindowIsEnd
  <2>7. LimitHolds'
    <3> SUFFICES ASSUME NEW f \in Endpoints, NEW t \in 0..MaxTime, Limit[f] # 0
                 PROVE  Cardinality(Inside(admitted', f, t)) <= Limit[f]
      BY DEF LimitHolds, Inside
    <3>1. CASE f # e \/ ~(t <= now /\ now <= t + Window)
      <4>1. Inside(admitted', f, t) = Inside(admitted, f, t)
        BY <1>2, <2>1, <2>3, <2>a, <3>1 DEF Inside, n
      <4> QED
        BY <4>1 DEF LimiterInv, LimitHolds
    <3>2. CASE f = e /\ t <= now /\ now <= t + Window
      <4>1. Inside(admitted', f, t) \in SUBSET ((b + 1)..(n + 1))
        <5> SUFFICES ASSUME NEW k \in 1..(n + 1), t <= admitted'[k].time
                     PROVE  k \in (b + 1)..(n + 1)
          BY <2>1, <2>a DEF Inside
        <5>1. CASE k \in 1..b
          <6>1. k \in 1..n
            BY <1>t, <2>3, <5>1 DEF n
          <6>2. admitted[k].time + Window < now /\ t <= admitted[k].time
            BY <1>t, <2>1, <2>a, <5>1, <6>1
          <6>3. admitted[k].time \in Nat
            <7>1. admitted[k] \in Entry
              BY <1>2, <6>1 DEF n
            <7> QED
              BY <7>1, Constants DEF Entry
          <6> QED
            BY <1>2, <3>2, <6>2, <6>3, Constants
        <5>2. CASE k \notin 1..b
          BY <1>t, <2>3, <5>2 DEF n
        <5> QED
          BY <5>1, <5>2
      <4>2. /\ IsFiniteSet((b + 1)..(n + 1))
            /\ Cardinality((b + 1)..(n + 1)) = m + 1
        <5>1. /\ b + 1 \in Int /\ n + 1 \in Int /\ b + 1 <= n + 1
              /\ (n + 1) - (b + 1) + 1 = m + 1
          BY <1>t, <2>3 DEF m, n
        <5>2. /\ IsFiniteSet((b + 1)..(n + 1))
              /\ Cardinality((b + 1)..(n + 1)) =
                   IF b + 1 > n + 1 THEN 0 ELSE (n + 1) - (b + 1) + 1
          BY <5>1, FS_Interval
        <5> QED
          BY <5>1, <5>2
      <4>3. /\ IsFiniteSet(Inside(admitted', f, t))
            /\ Cardinality(Inside(admitted', f, t)) <= m + 1
        BY <4>1, <4>2, FS_Subset
      <4>4. Cardinality(Inside(admitted', f, t)) \in Nat
        BY <4>3, FS_CardinalityType
      <4> QED
        BY <2>1, <2>3, <3>2, <4>3, <4>4, Constants
    <3> QED
      BY <3>1, <3>2
  <2> QED
    BY <2>1, <2>2, <2>a, <2>4, <2>5, <2>6, <2>7 DEF LimiterInv
<1> QED
  BY <1>6, <1>7, <1>8

-----------------------------------------------------------------------------
(* The steps *)

\* Nothing admitted is within every limit.
LEMMA EmptyHolds ==
  ASSUME NEW e \in Endpoints, NEW t
  PROVE  Cardinality(Inside(<< >>, e, t)) <= Limit[e]
<1>1. Inside(<< >>, e, t) = {}
  BY DEF Inside
<1>2. Cardinality({}) = 0 /\ Limit[e] \in Nat
  BY FS_EmptySet, Constants
<1> QED
  BY <1>1, <1>2

LEMMA WebInit == Init => WebInv
<1> SUFFICES ASSUME Init PROVE WebInv
  OBVIOUS
<1>1. WebTypeOK
  <2>1. /\ window \in Seq(Entry) /\ admitted \in Seq(Entry) /\ rows \in Seq(Row)
        /\ now \in 0..MaxTime /\ crashes \in 0..MaxCrashes
    BY Constants DEF Init
  <2>2. \A r \in Requests : request[r] = Idle /\ request[r].at # "enqueue"
    BY DEF Init, Idle
  <2> QED
    BY <2>1, <2>2 DEF Init, WebTypeOK
<1>2. LimiterInv
  <2>1. window = << >> /\ admitted = << >> /\ now = 0
    BY DEF Init
  <2>2. LimitHolds
    BY <2>1, EmptyHolds DEF LimitHolds
  <2>3. WindowIsEnd
    BY <2>1 DEF WindowIsEnd
  <2> QED
    BY <2>1, <2>2, <2>3 DEF LimiterInv, WindowInOrder, WindowIsShort
<1>3. LookedBeforeInsert
  BY DEF Init, LookedBeforeInsert, Idle
<1>4. FindsAreRecaptures
  BY DEF Init, FindsAreRecaptures, Idle
<1> QED
  BY <1>1, <1>2, <1>3, <1>4 DEF WebInv

\* Time only lets entries go.
LEMMA TickKept == WebTypeOK /\ LimiterInv /\ Tick => LimiterInv'
<1> SUFFICES ASSUME WebTypeOK, LimiterInv, Tick PROVE LimiterInv'
  OBVIOUS
<1>1. /\ window' = window /\ admitted' = admitted /\ now' = now + 1 /\ now \in Nat
      /\ window \in Seq(Entry) /\ DOMAIN window = 1..Len(window) /\ Len(window) \in Nat
      /\ admitted \in Seq(Entry) /\ DOMAIN admitted = 1..Len(admitted) /\ Len(admitted) \in Nat
  BY Constants DEF Tick, WebTypeOK, Entry
<1>2. /\ \A k \in DOMAIN window : window[k].time \in Nat
      /\ \A k \in DOMAIN admitted : admitted[k].time \in Nat
  <2>1. /\ \A k \in DOMAIN window : window[k] \in Entry
        /\ \A k \in DOMAIN admitted : admitted[k] \in Entry
    BY <1>1
  <2> QED
    BY <2>1, Constants DEF Entry
<1>3. WindowInOrder'
  BY <1>1, <1>2 DEF LimiterInv, WindowInOrder
<1>4. WindowIsShort'
  BY <1>1 DEF LimiterInv, WindowIsShort
<1>5. WindowIsEnd'
  <2>1. \A k \in DOMAIN admitted : admitted[k].time <= now + 1
    BY <1>1, <1>2 DEF LimiterInv, WindowIsEnd
  <2>2. PICK d \in 0..Len(admitted) :
          /\ Len(window) = Len(admitted) - d
          /\ \A k \in 1..(Len(admitted) - d) : window[k] = admitted[k + d]
          /\ \A k \in 1..d : admitted[k].time + Window < now
    BY DEF LimiterInv, WindowIsEnd
  <2>3. ASSUME NEW k \in 1..d PROVE admitted[k].time + Window < now + 1
    <3>1. admitted[k].time \in Nat /\ admitted[k].time + Window < now
      BY <1>1, <1>2, <2>2
    <3> QED
      BY <1>1, <3>1, Constants
  <2> QED
    BY <1>1, <2>1, <2>2, <2>3 DEF WindowIsEnd
<1>6. LimitHolds'
  BY <1>1 DEF LimiterInv, LimitHolds, Inside
<1> QED
  BY <1>3, <1>4, <1>5, <1>6 DEF LimiterInv

LEMMA CrashKept ==
  Crash => LimiterInv' /\ window' \in Seq(Entry) /\ admitted' \in Seq(Entry)
<1> SUFFICES ASSUME Crash
             PROVE  LimiterInv' /\ window' \in Seq(Entry) /\ admitted' \in Seq(Entry)
  OBVIOUS
<1>1. window' = << >> /\ admitted' = << >>
  BY DEF Crash
<1>2. LimitHolds'
  <2> SUFFICES ASSUME NEW e \in Endpoints, NEW t \in 0..MaxTime, Limit[e] # 0
               PROVE  Cardinality(Inside(admitted', e, t)) <= Limit[e]
    BY DEF LimitHolds, Inside
  <2> QED
    BY <1>1, EmptyHolds
<1>3. WindowIsEnd'
  BY <1>1 DEF WindowIsEnd
<1> QED
  BY <1>1, <1>2, <1>3 DEF LimiterInv, WindowInOrder, WindowIsShort

\* Steps that do not touch the limiter.
LEMMA LimiterStill ==
  ASSUME LimiterInv, UNCHANGED <<now, window, admitted>>
  PROVE  LimiterInv'
BY DEF LimiterInv, WindowInOrder, WindowIsShort, WindowIsEnd, LimitHolds, Inside

\* Every step keeps the invariant of the limiter.
LEMMA LimiterStep == WebTypeOK /\ LimiterInv /\ [Next]_vars => LimiterInv'
<1> SUFFICES ASSUME WebTypeOK, LimiterInv, [Next]_vars PROVE LimiterInv'
  OBVIOUS
<1>1. ASSUME NEW e \in Endpoints, OtherEndpoint(e) PROVE LimiterInv'
  BY <1>1, LimiterKept DEF OtherEndpoint
<1>2. ASSUME NEW r \in Requests, Submit(r) PROVE LimiterInv'
  <2>1. "submit" \in Endpoints
    BY WebAssumption DEF Endpoints
  <2> QED
    BY <1>2, <2>1, LimiterKept DEF Submit
<1>3. ASSUME NEW r \in Requests,
             Safety(r) \/ Recent(r) \/ Find(r) \/ Insert(r) \/ Enqueue(r)
      PROVE  LimiterInv'
  BY <1>3, LimiterStill DEF Safety, Recent, Find, Insert, Enqueue
<1>4. ASSUME NEW i \in DOMAIN rows, Captured(i) \/ Moderate(i) PROVE LimiterInv'
  BY <1>4, LimiterStill DEF Captured, Moderate
<1>5. CASE Crash
  BY <1>5, CrashKept
<1>6. CASE Tick
  BY <1>6, TickKept
<1>7. CASE UNCHANGED vars
  BY <1>7, LimiterStill DEF vars
<1> QED
  BY <1>1, <1>2, <1>3, <1>4, <1>5, <1>6, <1>7 DEF Next

\* Every step keeps the types.
LEMMA WebTypeStep == WebTypeOK /\ LimiterInv /\ [Next]_vars => WebTypeOK'
<1> SUFFICES ASSUME WebTypeOK, LimiterInv, [Next]_vars PROVE WebTypeOK'
  OBVIOUS
<1> DEFINE Work == [at : {"safety", "recent", "find", "insert", "enqueue"},
                    kind : Kinds, since : 0..MaxTime, row : 0..MaxRows]
<1>0. /\ now \in 0..MaxTime /\ window \in Seq(Entry) /\ rows \in Seq(Row)
      /\ admitted \in Seq(Entry)
      /\ request \in [Requests -> {Idle} \cup Work]
      /\ \A r \in Requests : request[r].at = "enqueue" => request[r].row \in DOMAIN rows
      /\ crashes \in 0..MaxCrashes
  BY DEF WebTypeOK, Entry
<1>w. WebTypeOK' <=>
        /\ now' \in 0..MaxTime /\ window' \in Seq(Entry) /\ rows' \in Seq(Row)
        /\ admitted' \in Seq(Entry)
        /\ request' \in [Requests -> {Idle} \cup Work]
        /\ \A r \in Requests : request'[r].at = "enqueue" => request'[r].row \in DOMAIN rows'
        /\ crashes' \in 0..MaxCrashes
  BY DEF WebTypeOK, Entry
<1>i. Idle.at = "idle"
  BY DEF Idle
<1>c. ASSUME NEW r \in Requests, request[r].at # "idle"
      PROVE  request[r] \in Work
  BY <1>0, <1>i, <1>c
<1>1. ASSUME NEW e \in Endpoints, OtherEndpoint(e) PROVE WebTypeOK'
  <2>1. /\ window' \in Seq(Entry) /\ admitted' \in Seq(Entry)
        /\ UNCHANGED <<now, rows, request, crashes>>
    BY <1>1, LimiterKept DEF OtherEndpoint
  <2> QED
    BY <1>0, <1>w, <2>1
<1>2. ASSUME NEW r \in Requests, Submit(r) PROVE WebTypeOK'
  <2>1. "submit" \in Endpoints
    BY WebAssumption DEF Endpoints
  <2>2. /\ window' \in Seq(Entry) /\ admitted' \in Seq(Entry)
        /\ UNCHANGED <<now, rows, crashes>>
    BY <1>2, <2>1, LimiterKept DEF Submit
  <2>3. \/ request' = request
        \/ \E k \in Kinds : request' = [request EXCEPT ![r] =
             [ at |-> IF k = "recapture" THEN "find" ELSE "safety", kind |-> k,
               since |-> 0, row |-> 0 ]]
    BY <1>2 DEF Submit
  <2>4. \A k \in Kinds : [ at |-> IF k = "recapture" THEN "find" ELSE "safety", kind |-> k,
                           since |-> 0, row |-> 0 ] \in Work
    BY Constants
  <2>5. ASSUME NEW k \in Kinds, request' = [request EXCEPT ![r] =
             [ at |-> IF k = "recapture" THEN "find" ELSE "safety", kind |-> k,
               since |-> 0, row |-> 0 ]]
        PROVE  /\ request' \in [Requests -> {Idle} \cup Work]
               /\ request'[r].at # "enqueue" /\ \A q \in Requests \ {r} : request'[q] = request[q]
    BY <1>0, <2>4, <2>5
  <2> HIDE DEF Work
  <2> QED
    BY <1>0, <1>w, <2>2, <2>3, <2>5
<1>3. ASSUME NEW r \in Requests, UNCHANGED <<now, window, admitted, rows, crashes>>,
             request[r].at # "idle",
             \/ request' = [request EXCEPT ![r] = Idle]
             \/ \E step \in {"insert", "recent"} : request' = [request EXCEPT ![r].at = step]
             \/ request' = [request EXCEPT ![r].at = "insert", ![r].since = now]
      PROVE  WebTypeOK'
  <2>1. request[r] \in Work
    BY <1>3, <1>c
  <2>2. \A step \in {"insert", "recent"} : [request[r] EXCEPT !.at = step] \in Work
    BY <2>1
  <2>3. [request[r] EXCEPT !.at = "insert", !.since = now] \in Work
    BY <1>0, <2>1
  <2>4. \E new \in {Idle} \cup Work : new.at # "enqueue" /\ request' = [request EXCEPT ![r] = new]
    BY <1>3, <1>i, <2>1, <2>2, <2>3
  <2>5. /\ request' \in [Requests -> {Idle} \cup Work] /\ request'[r].at # "enqueue"
        /\ \A q \in Requests \ {r} : request'[q] = request[q]
    <3> HIDE DEF Work
    <3> QED
      BY <1>0, <2>4
  <2> HIDE DEF Work
  <2> QED
    BY <1>0, <1>3, <1>w, <2>5
<1>4. ASSUME NEW r \in Requests, Safety(r) \/ Recent(r) \/ Find(r) PROVE WebTypeOK'
  <2>1. request[r].at # "idle" /\ UNCHANGED <<now, window, admitted, rows, crashes>>
    BY <1>4 DEF Safety, Recent, Find
  <2>2. \/ request' = [request EXCEPT ![r] = Idle]
        \/ \E step \in {"insert", "recent"} : request' = [request EXCEPT ![r].at = step]
        \/ request' = [request EXCEPT ![r].at = "insert", ![r].since = now]
    BY <1>4 DEF Safety, Recent, Find, GoTo, Answer
  <2> QED
    BY <1>3, <2>1, <2>2
<1>5. ASSUME NEW r \in Requests, Insert(r) PROVE WebTypeOK'
  <2>1. /\ request[r].at = "insert" /\ Len(rows) < MaxRows /\ rows' = Append(rows, NewRow)
        /\ request' = [request EXCEPT ![r].at = "enqueue", ![r].row = Len(rows')]
        /\ UNCHANGED <<now, window, admitted, crashes>>
    BY <1>5 DEF Insert
  <2>2. request[r] \in Work
    BY <1>c, <2>1
  <2>3. NewRow \in Row
    BY Constants DEF NewRow, Row
  <2>4. /\ rows' \in Seq(Row) /\ Len(rows') \in 1..MaxRows /\ Len(rows') \in DOMAIN rows'
        /\ DOMAIN rows \subseteq DOMAIN rows'
    BY <1>0, <2>1, <2>3, Constants
  <2>5. [request[r] EXCEPT !.at = "enqueue", !.row = Len(rows')] \in Work
    <3>1. \A n \in 0..MaxRows : [request[r] EXCEPT !.at = "enqueue", !.row = n] \in Work
      BY <2>2
    <3>2. Len(rows') \in 0..MaxRows
      BY <2>4, Constants
    <3> HIDE DEF Work
    <3> QED
      BY <3>1, <3>2
  <2>6. /\ request' \in [Requests -> {Idle} \cup Work] /\ request'[r].row = Len(rows')
        /\ \A q \in Requests \ {r} : request'[q] = request[q]
    BY <1>0, <2>1, <2>2, <2>5
  <2> HIDE DEF Work
  <2>7. \A q \in Requests : request'[q].at = "enqueue" => request'[q].row \in DOMAIN rows'
    BY <1>0, <2>4, <2>6
  <2> QED
    BY <1>0, <1>w, <2>1, <2>4, <2>6, <2>7
<1>6. ASSUME NEW r \in Requests, Enqueue(r) PROVE WebTypeOK'
  <2>1. /\ request[r].at = "enqueue" /\ request' = [request EXCEPT ![r] = Idle]
        /\ rows' = [rows EXCEPT ![request[r].row].queued = TRUE]
        /\ UNCHANGED <<now, window, admitted, crashes>>
    BY <1>6 DEF Enqueue, Answer
  <2>2. \A x \in Row : [x EXCEPT !.queued = TRUE] \in Row
    BY DEF Row
  <2>3. rows' \in Seq(Row) /\ DOMAIN rows' = DOMAIN rows
    BY <1>0, <2>1, <2>2
  <2>4. /\ request' \in [Requests -> {Idle} \cup Work] /\ request'[r].at # "enqueue"
        /\ \A q \in Requests \ {r} : request'[q] = request[q]
    BY <1>0, <1>i, <2>1
  <2> HIDE DEF Work
  <2> QED
    BY <1>0, <1>w, <2>1, <2>3, <2>4
<1>7. ASSUME NEW i \in DOMAIN rows, Captured(i) \/ Moderate(i) PROVE WebTypeOK'
  <2>1. UNCHANGED <<now, window, admitted, request, crashes>>
    BY <1>7 DEF Captured, Moderate
  <2>2. \E x \in Row : rows' = [rows EXCEPT ![i] = x]
    <3>1. rows[i] \in Row
      BY <1>0
    <3>2. CASE Captured(i)
      <4>1. PICK status \in {"complete", "failed"} :
              rows' = [rows EXCEPT ![i].status = status, ![i].completed = now]
        BY <3>2 DEF Captured
      <4>2. [rows[i] EXCEPT !.status = status, !.completed = now] \in Row
        BY <1>0, <3>1 DEF Row
      <4> QED
        BY <4>1, <4>2
    <3>3. CASE Moderate(i)
      <4>1. [rows[i] EXCEPT !.removal = IF Removed(i) THEN "restored" ELSE "removed"] \in Row
        BY <3>1 DEF Row
      <4> QED
        BY <3>3, <4>1 DEF Moderate
    <3> QED
      BY <1>7, <3>2, <3>3
  <2>3. rows' \in Seq(Row) /\ DOMAIN rows' = DOMAIN rows
    BY <1>0, <2>2
  <2> HIDE DEF Work
  <2> QED
    BY <1>0, <1>w, <2>1, <2>3
<1>8. CASE Crash
  <2>1. /\ window' \in Seq(Entry) /\ admitted' \in Seq(Entry) /\ UNCHANGED <<now, rows>>
        /\ request' = [r \in Requests |-> Idle] /\ crashes' \in 0..MaxCrashes
    BY <1>0, <1>8, CrashKept, Constants DEF Crash
  <2>2. request' \in [Requests -> {Idle} \cup Work] /\ \A r \in Requests : request'[r] = Idle
    BY <2>1
  <2> HIDE DEF Work
  <2> QED
    BY <1>0, <1>i, <1>w, <2>1, <2>2
<1>9. CASE Tick
  <2>1. now' \in 0..MaxTime /\ UNCHANGED <<window, admitted, rows, request, crashes>>
    BY <1>0, <1>9, Constants DEF Tick
  <2> HIDE DEF Work
  <2> QED
    BY <1>0, <1>w, <2>1
<1>10. CASE UNCHANGED vars
  <2> HIDE DEF Work
  <2> QED
    BY <1>0, <1>w, <1>10 DEF vars
<1> HIDE DEF Work
<1> QED
  BY <1>1, <1>2, <1>4, <1>5, <1>6, <1>7, <1>8, <1>9, <1>10 DEF Next

\* A request keeps its kind until it is answered, and looks for an archive first.
LEMMA FindStep ==
  ASSUME WebTypeOK, FindsAreRecaptures, [Next]_vars
  PROVE  FindsAreRecaptures'
<1> SUFFICES ASSUME NEW r \in Requests, request'[r].at = "find"
             PROVE  request'[r].kind = "recapture"
  BY DEF FindsAreRecaptures
<1> DEFINE Work == [at : {"safety", "recent", "find", "insert", "enqueue"},
                    kind : Kinds, since : 0..MaxTime, row : 0..MaxRows]
<1>0. request \in [Requests -> {Idle} \cup Work]
  BY DEF WebTypeOK
<1>i. Idle.at # "find"
  BY DEF Idle
<1>w. \A q \in Requests : request[q].at # "idle" => request[q] \in Work
  BY <1>0 DEF Idle
<1>s. CASE request'[r] = request[r]
  BY <1>s DEF FindsAreRecaptures
<1>1. ASSUME NEW q \in Requests, Submit(q) PROVE request'[r].kind = "recapture"
  <2>1. \/ request' = request
        \/ \E k \in Kinds : request' = [request EXCEPT ![q] =
             [ at |-> IF k = "recapture" THEN "find" ELSE "safety", kind |-> k,
               since |-> 0, row |-> 0 ]]
    BY <1>1 DEF Submit
  <2> HIDE DEF Work
  <2>2. r = q => request' = request \/ request'[r].kind = "recapture"
    BY <1>0, <2>1
  <2> QED
    BY <1>0, <1>s, <2>1, <2>2
<1>2. ASSUME NEW q \in Requests,
             Safety(q) \/ Recent(q) \/ Find(q) \/ Insert(q) \/ Enqueue(q)
      PROVE  request'[r].kind = "recapture"
  <2>1. request[q].at # "idle"
    BY <1>2 DEF Safety, Recent, Find, Insert, Enqueue
  <2>2. request[q] \in Work
    BY <1>w, <2>1
  <2>3. \/ request' = [request EXCEPT ![q] = Idle]
        \/ \E step \in {"insert", "recent"} : request' = [request EXCEPT ![q].at = step]
        \/ request' = [request EXCEPT ![q].at = "insert", ![q].since = now]
        \/ request' = [request EXCEPT ![q].at = "enqueue", ![q].row = Len(rows')]
    BY <1>2 DEF Safety, Recent, Find, Insert, Enqueue, GoTo, Answer
  <2>4. request'[q].at # "find"
    BY <1>0, <1>i, <2>2, <2>3
  <2>5. r # q
    BY <2>4
  <2>6. \E new : request' = [request EXCEPT ![q] = new]
    <3> HIDE DEF Work
    <3> QED
      BY <2>3
  <2>7. request'[r] = request[r]
    <3> HIDE DEF Work
    <3> QED
      BY <1>0, <2>5, <2>6
  <2> QED
    BY <1>s, <2>7
<1>3. ASSUME UNCHANGED request PROVE request'[r].kind = "recapture"
  BY <1>3, <1>s
<1>4. CASE Crash
  <2>1. request'[r] = Idle
    BY <1>4 DEF Crash
  <2> QED
    BY <1>i, <2>1
<1>5. ASSUME NEW e \in Endpoints, OtherEndpoint(e) PROVE request'[r].kind = "recapture"
  BY <1>3, <1>5 DEF OtherEndpoint
<1>6. ASSUME NEW i \in DOMAIN rows, Captured(i) \/ Moderate(i)
      PROVE  request'[r].kind = "recapture"
  BY <1>3, <1>6 DEF Captured, Moderate
<1>7. CASE Tick
  BY <1>3, <1>7 DEF Tick
<1>8. CASE UNCHANGED vars
  BY <1>3, <1>8 DEF vars
<1> QED
  BY <1>1, <1>2, <1>4, <1>5, <1>6, <1>7, <1>8 DEF Next

\* What a submission has seen stays true while it waits.
LEMMA LookedStep ==
  WebTypeOK /\ FindsAreRecaptures /\ LookedBeforeInsert /\ [Next]_vars => LookedBeforeInsert'
<1> SUFFICES ASSUME WebTypeOK, FindsAreRecaptures, LookedBeforeInsert, [Next]_vars,
                    NEW r \in Requests, request'[r].at = "insert", request'[r].kind \in {"api", "form"}
             PROVE  LookedAt(r)'
  BY DEF LookedBeforeInsert
<1>0. /\ now \in Nat /\ rows \in Seq(Row) /\ DOMAIN rows = 1..Len(rows) /\ Len(rows) \in Nat
      /\ \A q \in Requests : request[q].at # "idle" =>
           request[q] \in [at : {"safety", "recent", "find", "insert", "enqueue"},
                           kind : Kinds, since : 0..MaxTime, row : 0..MaxRows]
      /\ request \in [Requests -> {Idle} \cup [at : {"safety", "recent", "find", "insert", "enqueue"},
                                               kind : Kinds, since : 0..MaxTime, row : 0..MaxRows]]
  BY Constants DEF WebTypeOK, Idle
<1>i. Idle.at = "idle"
  BY DEF Idle
<1>d. \A i \in DOMAIN rows : rows[i].completed \in Nat
  <2>1. \A i \in DOMAIN rows : rows[i] \in Row
    BY <1>0
  <2> QED
    BY <2>1, Constants DEF Row
\* The request does not move, and the rows it has seen are as they were.
<1>k. ASSUME request'[r] = request[r], now' = now \/ now' = now + 1, UNCHANGED rows
      PROVE  LookedAt(r)'
  <2>1. LookedAt(r) /\ request[r].since <= now
    BY <1>k DEF LookedBeforeInsert, LookedAt
  <2>2. request[r].since \in Nat
    BY <1>0, <1>k, Constants
  <2> QED
    BY <1>0, <1>k, <2>1, <2>2 DEF LookedAt
<1>1. ASSUME NEW e \in Endpoints, OtherEndpoint(e) PROVE LookedAt(r)'
  BY <1>1, <1>k DEF OtherEndpoint
<1>2. ASSUME NEW q \in Requests, Submit(q) PROVE LookedAt(r)'
  <2>1. UNCHANGED <<now, rows>>
    BY <1>2 DEF Submit
  <2>2. \/ request' = request
        \/ \E k \in Kinds : request' = [request EXCEPT ![q] =
             [ at |-> IF k = "recapture" THEN "find" ELSE "safety", kind |-> k,
               since |-> 0, row |-> 0 ]]
    BY <1>2 DEF Submit
  <2>3. request'[r] = request[r]
    BY <1>0, <2>2
  <2> QED
    BY <1>k, <2>1, <2>3
<1>3. ASSUME NEW q \in Requests, Safety(q) \/ Find(q) PROVE LookedAt(r)'
  <2>1. UNCHANGED <<now, rows>>
    BY <1>3 DEF Safety, Find
  <2>2. CASE r = q
    <3>1. CASE Safety(q)
      <4>1. request[q].kind = "force"
        BY <1>0, <1>i, <2>2, <3>1 DEF Safety, GoTo, Answer
      <4>2. request'[q].kind = request[q].kind
        BY <1>0, <1>i, <2>2, <3>1 DEF Safety, GoTo, Answer
      <4> QED
        BY <2>2, <4>1, <4>2
    <3>2. CASE Find(q)
      <4>1. request[q].at = "find" /\ request[q] \in [at : {"safety", "recent", "find", "insert", "enqueue"},
                           kind : Kinds, since : 0..MaxTime, row : 0..MaxRows]
        BY <1>0, <3>2 DEF Find
      <4>2. request'[q].kind = request[q].kind
        BY <1>0, <1>i, <2>2, <3>2 DEF Find, GoTo, Answer
      <4> QED
        BY <2>2, <4>1, <4>2 DEF FindsAreRecaptures
    <3> QED
      BY <1>3, <3>1, <3>2
  <2>3. CASE r # q
    BY <1>0, <1>3, <1>k, <2>1, <2>3 DEF Safety, Find, GoTo, Answer
  <2> QED
    BY <2>2, <2>3
<1>4. ASSUME NEW q \in Requests, Recent(q) PROVE LookedAt(r)'
  <2>1. UNCHANGED <<now, rows>>
    BY <1>4 DEF Recent
  <2>2. CASE r = q
    <3>1. /\ ~\E i \in DOMAIN rows : Fresh(i)
          /\ request' = [request EXCEPT ![q].at = "insert", ![q].since = now]
      <4>1. request' = [request EXCEPT ![q] = Idle] => request'[q] = Idle
        BY <1>0
      <4>2. request'[q] # Idle
        BY <1>i, <2>2
      <4> QED
        BY <1>4, <4>1, <4>2 DEF Recent, Answer
    <3>2. request'[q].since = now
      BY <1>0, <1>4, <3>1 DEF Recent
    <3>3. ASSUME NEW i \in DOMAIN rows, rows[i].status = "complete", rows[i].removal = "never"
          PROVE  rows[i].completed + Interval <= now
      <4>1. ~(rows[i].completed + Interval > now)
        BY <3>1, <3>3 DEF Fresh, Removed
      <4> QED
        BY <1>0, <1>d, <4>1, Constants
    <3> QED
      BY <1>0, <2>1, <2>2, <3>2, <3>3 DEF LookedAt
  <2>3. CASE r # q
    <3>1. request'[r] = request[r]
      BY <1>0, <1>4, <2>3 DEF Recent, Answer
    <3> QED
      BY <1>k, <2>1, <3>1
  <2> QED
    BY <2>2, <2>3
<1>5. ASSUME NEW q \in Requests, Insert(q) PROVE LookedAt(r)'
  <2>1. /\ rows' = Append(rows, NewRow) /\ now' = now /\ request[q].at = "insert"
        /\ request' = [request EXCEPT ![q].at = "enqueue", ![q].row = Len(rows')]
    BY <1>5 DEF Insert
  <2>2. r # q
    BY <1>0, <2>1
  <2>3. request'[r] = request[r]
    BY <1>0, <2>1, <2>2
  <2>4. LookedAt(r)
    BY <2>3 DEF LookedBeforeInsert
  <2>5. \A i \in DOMAIN rows' : \/ i \in DOMAIN rows /\ rows'[i] = rows[i]
                               \/ rows'[i] = NewRow
    BY <1>0, <2>1
  <2>6. NewRow.status # "complete"
    BY DEF NewRow
  <2> QED
    BY <2>1, <2>3, <2>4, <2>5, <2>6 DEF LookedAt
<1>6. ASSUME NEW q \in Requests, Enqueue(q) PROVE LookedAt(r)'
  <2>1. /\ rows' = [rows EXCEPT ![request[q].row].queued = TRUE] /\ now' = now
        /\ request' = [request EXCEPT ![q] = Idle] /\ request[q].row \in DOMAIN rows
    BY <1>6 DEF Enqueue, Answer, WebTypeOK
  <2>2. r # q
    BY <1>0, <1>i, <2>1
  <2>3. request'[r] = request[r]
    BY <1>0, <2>1, <2>2
  <2>4. LookedAt(r)
    BY <2>3 DEF LookedBeforeInsert
  <2>5. /\ DOMAIN rows' = DOMAIN rows
        /\ \A i \in DOMAIN rows : /\ rows'[i].status = rows[i].status
                                  /\ rows'[i].completed = rows[i].completed
                                  /\ rows'[i].removal = rows[i].removal
    <3>1. \A i \in DOMAIN rows : rows[i] \in Row
      BY <1>0
    <3> QED
      BY <1>0, <2>1, <3>1 DEF Row
  <2> QED
    BY <2>1, <2>3, <2>4, <2>5 DEF LookedAt
<1>7. ASSUME NEW i \in DOMAIN rows, Captured(i) \/ Moderate(i) PROVE LookedAt(r)'
  <2>1. UNCHANGED <<now, request>>
    BY <1>7 DEF Captured, Moderate
  <2>2. LookedAt(r) /\ request[r].since <= now
    BY <2>1 DEF LookedBeforeInsert, LookedAt
  <2>3. rows[i] \in Row
    BY <1>0
  <2>4. /\ DOMAIN rows' = DOMAIN rows
        /\ \A k \in DOMAIN rows \ {i} : rows'[k] = rows[k]
        /\ rows'[i].removal = "never" => rows'[i].completed = now
    <3>1. CASE Captured(i)
      BY <1>0, <2>3, <3>1 DEF Captured, Row
    <3>2. CASE Moderate(i)
      BY <1>0, <2>3, <3>2 DEF Moderate, Row
    <3> QED
      BY <1>7, <3>1, <3>2
  <2>5. request[r].since \in Nat
    BY <1>0, <2>1, Constants
  <2> QED
    BY <1>0, <2>1, <2>2, <2>4, <2>5 DEF LookedAt
<1>8. CASE Crash
  BY <1>8, <1>i DEF Crash
<1>9. CASE Tick
  BY <1>9, <1>k DEF Tick
<1>10. CASE UNCHANGED vars
  BY <1>10, <1>k DEF vars
<1> QED
  BY <1>1, <1>2, <1>3, <1>4, <1>5, <1>6, <1>7, <1>8, <1>9, <1>10 DEF Next

-----------------------------------------------------------------------------
(* The theorems *)

\* WebInv holds in every state of the web process.
THEOREM WebSafe == Spec => []WebInv
<1>1. Init => WebInv
  BY WebInit
<1>2. WebInv /\ [Next]_vars => WebInv'
  BY WebTypeStep, LimiterStep, FindStep, LookedStep DEF WebInv
<1> QED
  BY <1>1, <1>2, PTL DEF Spec

\* The web process keeps its types.
THEOREM WebTypes == Spec => []WebTypeOK
<1>1. WebInv => WebTypeOK
  BY DEF WebInv
<1> QED
  BY <1>1, WebSafe, PTL

\* In no stretch of window_seconds since the process started does an endpoint
\* admit more than its limit (rate_limit.py:30-51), for any number of endpoints
\* that share the window: all that it has forgotten is older than that.
THEOREM LimitsHold == Spec => []LimitHolds
<1>1. WebInv => LimitHolds
  BY DEF WebInv, LimiterInv
<1> QED
  BY <1>1, WebSafe, PTL

\* The time in retry_after is enough at the endpoint of the largest limit: the
\* entries left at that time are those behind the oldest one that counts now.
LEMMA WaitLemma == WebTypeOK /\ LimiterInv => RetryAfterEnough
<1> DEFINE Left(t) == {k \in DOMAIN window : window[k].time + Window >= t}
<1> SUFFICES ASSUME WebTypeOK, LimiterInv, NEW e \in Endpoints,
                    \A f \in Endpoints : Limit[f] <= Limit[e], ~Admits(e)
             PROVE  Cardinality(Left(RetryAt(e))) < Limit[e]
  BY DEF RetryAfterEnough
<1>1. PICK d \in 0..Len(window) :
        /\ Len(Trimmed) = Len(window) - d
        /\ \A k \in 1..(Len(window) - d) : Trimmed[k] = window[k + d]
  BY TrimmedIsTail
<1>2. /\ window \in Seq(Entry) /\ Trimmed \in Seq(Entry) /\ Len(window) \in Nat
      /\ DOMAIN window = 1..Len(window) /\ d \in Nat
  <2>1. window \in Seq(Entry) /\ Trimmed \in Seq(Entry)
    BY TrimmedIsTail DEF WebTypeOK, Entry
  <2> HIDE DEF Entry
  <2> QED
    BY <2>1
<1> HIDE DEF Trimmed
<1>3. \A k \in DOMAIN window : window[k].time \in Nat
  <2>1. \A k \in DOMAIN window : window[k] \in Entry
    BY <1>2
  <2> QED
    BY <2>1, Constants DEF Entry
<1>4. Limit[e] \in Nat \ {0} /\ Window \in Nat
  BY Constants DEF Admits
<1>5. Len(window) - d >= Limit[e]
  BY <1>1, <1>2, <1>4 DEF Admits
<1>6. d + 1 \in DOMAIN window /\ window # << >>
  BY <1>1, <1>2, <1>4, <1>5
<1>7. Len(window) <= Limit[e]
  <2>1. PICK f \in Endpoints : Len(window) <= Limit[f]
    BY <1>6 DEF LimiterInv, WindowIsShort
  <2>2. Limit[f] \in Nat /\ Limit[f] <= Limit[e]
    BY Constants
  <2> QED
    BY <1>2, <1>4, <2>1, <2>2
<1>8. RetryAt(e) = window[d + 1].time + Window + 1
  <2>1. Trimmed # << >> /\ Head(Trimmed) = Trimmed[1]
    BY <1>1, <1>2, <1>4, <1>5
  <2>2. Trimmed[1] = window[1 + d] /\ 1 + d = d + 1
    BY <1>1, <1>2, <1>4, <1>5
  <2> QED
    BY <2>1, <2>2 DEF RetryAt
<1>9. d = 0
  BY <1>1, <1>2, <1>4, <1>5, <1>7
<1>10. Left(RetryAt(e)) \in SUBSET (2..Len(window))
  <2> SUFFICES ASSUME NEW k \in DOMAIN window, window[k].time + Window >= RetryAt(e)
               PROVE  k \in 2..Len(window)
    OBVIOUS
  <2>1. window[k].time > window[1].time
    BY <1>3, <1>4, <1>6, <1>8, <1>9
  <2>2. k # 1
    BY <1>3, <1>6, <1>9, <2>1
  <2> QED
    BY <1>2, <2>2
<1>11. IsFiniteSet(2..Len(window)) /\ Cardinality(2..Len(window)) = Len(window) - 1
  <2>1. 2 \in Int /\ Len(window) \in Int /\ 2 <= Len(window) + 1
    BY <1>2, <1>6, <1>9
  <2>2. /\ IsFiniteSet(2..Len(window))
        /\ Cardinality(2..Len(window)) = IF 2 > Len(window) THEN 0 ELSE Len(window) - 2 + 1
    BY <2>1, FS_Interval
  <2> QED
    BY <2>1, <2>2
<1> HIDE DEF Left
<1>12. /\ IsFiniteSet(Left(RetryAt(e)))
       /\ Cardinality(Left(RetryAt(e))) <= Cardinality(2..Len(window))
  BY <1>10, <1>11, FS_Subset
<1>13. Cardinality(Left(RetryAt(e))) \in Nat
  BY <1>12, FS_CardinalityType
<1> QED
  BY <1>2, <1>4, <1>7, <1>11, <1>12, <1>13

\* A refused client that waits as long as it is told is admitted at the endpoint
\* of the largest limit (rate_limit.py:46-48).
THEOREM WaitIsEnough == Spec => []RetryAfterEnough
<1>1. WebInv => RetryAfterEnough
  BY WaitLemma DEF WebInv
<1> QED
  BY <1>1, WebSafe, PTL

\* A capture that is fresh when a row is inserted was not there, or not complete,
\* when the submission looked.
LEMMA DuplicateStep ==
  ASSUME WebInv, [Next]_vars, NEW r \in Requests,
         request[r].at = "insert", request[r].kind \in {"api", "form"},
         NEW i \in DOMAIN rows, Fresh(i), rows[i].removal = "never"
  PROVE  rows[i].completed >= request[r].since
<1>1. LookedAt(r)
  BY DEF WebInv, LookedBeforeInsert
<1>2. rows[i].completed \in Nat /\ now \in Nat
  <2>1. rows[i] \in Row /\ now \in 0..MaxTime
    BY DEF WebInv, WebTypeOK
  <2> QED
    BY <2>1, Constants DEF Row
<1>3. request[r].since \in Nat
  <2>1. request[r] \in [at : {"safety", "recent", "find", "insert", "enqueue"},
                        kind : Kinds, since : 0..MaxTime, row : 0..MaxRows]
    BY DEF WebInv, WebTypeOK, Idle
  <2> QED
    BY <2>1, Constants
<1> QED
  BY <1>1, <1>2, <1>3, Constants DEF LookedAt, Fresh

\* A URL is archived a second time within the interval only on demand or by a race
\* with the capture that completes after the submission has looked
\* (archives.py:54-69, pages.py:316-336).
THEOREM DuplicatesAreRaces == Spec => DuplicateOnlyByRace
<1> DEFINE Race == \A r \in Requests :
             (/\ request[r].at = "insert" /\ request'[r].at = "enqueue"
              /\ request[r].kind \in {"api", "form"}) =>
                \A i \in DOMAIN rows :
                  Fresh(i) /\ rows[i].removal = "never" => rows[i].completed >= request[r].since
<1>1. WebInv /\ [Next]_vars => [Race]_vars
  <2> SUFFICES ASSUME WebInv, [Next]_vars PROVE Race
    OBVIOUS
  <2> QED
    BY DuplicateStep
<1> HIDE DEF Race
<1>2. Spec => [][Race]_vars
  BY <1>1, WebSafe, PTL DEF Spec
<1> QED
  BY <1>2 DEF DuplicateOnlyByRace, Race
=============================================================================
