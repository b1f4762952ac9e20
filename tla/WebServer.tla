------------------------------ MODULE WebServer ------------------------------
(***************************************************************************)
(* The web process: the rate limiter (rate_limit.py) and the routes that   *)
(* submit a URL (routes/archives.py, routes/pages.py).                     *)
(*                                                                         *)
(* One client and one URL: the limiter keeps a window for each client, and *)
(* check_recent_capture looks at the rows of one url_hash.  Every await is *)
(* a step.  What the worker does with a row in between is CaptureQueue's.  *)
(***************************************************************************)
EXTENDS Naturals, Sequences, FiniteSets

CONSTANTS
  Requests,        \* submissions at work at a time
  Limit,           \* requests an endpoint admits in a window, 0 for no limit
  Window,          \* window_seconds, in ticks
  Interval,        \* recapture_interval_seconds, in ticks
  MaxTime,         \* bound: ticks of a behaviour
  MaxRows,         \* bound: rows of the archives table
  MaxCrashes       \* bound: crashes and failed statements of a behaviour

Endpoints == DOMAIN Limit
Kinds     == {"api", "form", "force", "recapture"}

ASSUME WebAssumption ==
  /\ {Window, Interval, MaxTime, MaxRows, MaxCrashes} \subseteq Nat
  /\ "submit" \in DOMAIN Limit
  /\ Limit \in [DOMAIN Limit -> Nat]

VARIABLES
  now,             \* the clock
  window,          \* the limiter's entries for the client
  admitted,        \* every request a limited endpoint has admitted since the
                   \* process started, which nothing in the code keeps
  rows,            \* the archives of the URL, in order of their INSERT
  request,         \* the submissions at work
  crashes          \* crashes and failures so far

vars == <<now, window, admitted, rows, request, crashes>>

Idle == [at |-> "idle"]

Row == [ status : {"pending", "complete", "failed"}, completed : 0..MaxTime,
         removal : {"never", "removed", "restored"}, queued : BOOLEAN ]

Entry == [time : 0..MaxTime, endpoint : Endpoints]

Removed(i) == rows[i].removal = "removed"

WebTypeOK ==
  /\ now \in 0..MaxTime
  /\ window \in Seq(Entry)
  /\ admitted \in Seq(Entry)
  /\ rows \in Seq(Row)
  /\ request \in [Requests ->
       {Idle} \cup [at : {"safety", "recent", "find", "insert", "enqueue"},
                    kind : Kinds, since : 0..MaxTime, row : 0..MaxRows]]
  /\ \A r \in Requests : request[r].at = "enqueue" => request[r].row \in DOMAIN rows
  /\ crashes \in 0..MaxCrashes

Init ==
  /\ now = 0
  /\ window = << >>
  /\ admitted = << >>
  /\ rows = << >>
  /\ request = [r \in Requests |-> Idle]
  /\ crashes = 0

-----------------------------------------------------------------------------
(* RateLimiter.check and enforce_limit *)

\* Mutant: an entry of just now - window_seconds is dropped as well.
TrimmedAtCutoff ==
  LET InWindow(k) == window[k].time + Window > now
      old == CHOOSE d \in 0..Len(window) :
               /\ d < Len(window) => InWindow(d + 1)
               /\ \A k \in 1..d : ~InWindow(k)
  IN SubSeq(window, old + 1, Len(window))

\* Entries are dropped from the front up to the first one in the window.
Trimmed ==
  LET InWindow(k) == window[k].time + Window >= now
      old == CHOOSE d \in 0..Len(window) :
               /\ d < Len(window) => InWindow(d + 1)
               /\ \A k \in 1..d : ~InWindow(k)
  IN SubSeq(window, old + 1, Len(window))

\* A limit of 0, or a limiter that is switched off, admits everything.
Admits(e) == Limit[e] = 0 \/ Len(Trimmed) < Limit[e]

\* Mutant: the second in which the oldest entry leaves is not counted.
RetryAtOnce(e) == Head(Trimmed).time + Window

\* retry_after, as a time: the oldest entry is dropped one second later.
RetryAt(e) == Head(Trimmed).time + Window + 1

Admit(e) ==
  /\ Admits(e)
  /\ IF Limit[e] = 0 THEN UNCHANGED <<window, admitted>>
     ELSE LET entry == [time |-> now, endpoint |-> e]
          IN window' = Append(Trimmed, entry) /\ admitted' = Append(admitted, entry)

Refuse(e) ==
  /\ ~Admits(e)
  /\ window' = Trimmed
  /\ UNCHANGED admitted

\* The endpoints that only count: logging in, filing a report.
OtherEndpoint(e) ==
  /\ e # "submit"
  /\ Admit(e) \/ Refuse(e)
  /\ UNCHANGED <<now, rows, request, crashes>>

-----------------------------------------------------------------------------
(* Submitting: create_archive, submit_form, recapture *)

GoTo(r, step) == request' = [request EXCEPT ![r].at = step]
Answer(r)     == request' = [request EXCEPT ![r] = Idle]

Submit(r) ==
  /\ request[r] = Idle
  /\ \/ /\ Admit("submit")
        /\ \E k \in Kinds :
             request' = [request EXCEPT ![r] =
               [ at |-> IF k = "recapture" THEN "find" ELSE "safety", kind |-> k,
                 since |-> 0, row |-> 0 ]]
     \/ Refuse("submit") /\ UNCHANGED request
  /\ UNCHANGED <<now, rows, crashes>>

\* check_url_safety_async passes or refuses.
Safety(r) ==
  /\ request[r].at = "safety"
  /\ GoTo(r, IF request[r].kind = "force" THEN "insert" ELSE "recent") \/ Answer(r)
  /\ UNCHANGED <<now, window, admitted, rows, crashes>>

\* A capture that check_recent_capture finds.
Fresh(i) ==
  /\ rows[i].status = "complete" /\ ~Removed(i)
  /\ rows[i].completed + Interval > now

\* Mutant: the answer is not looked at.
RecentIgnored(r) ==
  /\ request[r].at = "recent"
  /\ request' = [request EXCEPT ![r].at = "insert", ![r].since = now]
  /\ UNCHANGED <<now, window, admitted, rows, crashes>>

Recent(r) ==
  /\ request[r].at = "recent"
  /\ IF \E i \in DOMAIN rows : Fresh(i)
     THEN Answer(r)
     ELSE request' = [request EXCEPT ![r].at = "insert", ![r].since = now]
  /\ UNCHANGED <<now, window, admitted, rows, crashes>>

\* recapture: the archive it names must be there.
Find(r) ==
  /\ request[r].at = "find"
  /\ IF \E i \in DOMAIN rows : ~Removed(i)
     THEN GoTo(r, "insert") ELSE Answer(r)
  /\ UNCHANGED <<now, window, admitted, rows, crashes>>

NewRow == [ status |-> "pending", completed |-> 0, removal |-> "never", queued |-> FALSE ]

Insert(r) ==
  /\ request[r].at = "insert" /\ Len(rows) < MaxRows
  /\ rows' = Append(rows, NewRow)
  /\ request' = [request EXCEPT ![r].at = "enqueue", ![r].row = Len(rows')]
  /\ UNCHANGED <<now, window, admitted, crashes>>

Enqueue(r) ==
  /\ request[r].at = "enqueue"
  /\ rows' = [rows EXCEPT ![request[r].row].queued = TRUE]
  /\ Answer(r)
  /\ UNCHANGED <<now, window, admitted, crashes>>

-----------------------------------------------------------------------------
(* The worker, the moderator, the process and the clock *)

Captured(i) ==
  /\ i \in DOMAIN rows
  /\ rows[i].status = "pending" /\ rows[i].queued /\ ~Removed(i)
  /\ \E status \in {"complete", "failed"} :
       rows' = [rows EXCEPT ![i].status = status, ![i].completed = now]
  /\ UNCHANGED <<now, window, admitted, request, crashes>>

Moderate(i) ==
  /\ i \in DOMAIN rows
  /\ rows' = [rows EXCEPT ![i].removal = IF Removed(i) THEN "restored" ELSE "removed"]
  /\ UNCHANGED <<now, window, admitted, request, crashes>>

\* The limiter and the requests at work are in the memory of the process.
Crash ==
  /\ crashes < MaxCrashes
  /\ window' = << >> /\ admitted' = << >>
  /\ request' = [r \in Requests |-> Idle]
  /\ crashes' = crashes + 1
  /\ UNCHANGED <<now, rows>>

Tick ==
  /\ now < MaxTime
  /\ now' = now + 1
  /\ UNCHANGED <<window, admitted, rows, request, crashes>>

Next ==
  \/ \E e \in Endpoints : OtherEndpoint(e)
  \/ \E r \in Requests :
       Submit(r) \/ Safety(r) \/ Recent(r) \/ Find(r) \/ Insert(r) \/ Enqueue(r)
  \/ \E i \in DOMAIN rows : Captured(i) \/ Moderate(i)
  \/ Crash
  \/ Tick

Spec == Init /\ [][Next]_vars

-----------------------------------------------------------------------------
(* Properties *)

\* The requests of s that endpoint e admitted within window_seconds from t on.
Inside(s, e, t) ==
  {k \in DOMAIN s : s[k].endpoint = e /\ t <= s[k].time /\ s[k].time <= t + Window}

\* In no stretch of window_seconds since the process started does an endpoint
\* admit more than its limit, although the limiter forgets entries as it goes
\* and the endpoints share them (rate_limit.py:30-51).  A restart forgets all:
\* the limit does not hold across one.
LimitHolds ==
  \A e \in Endpoints, t \in 0..MaxTime :
    Limit[e] # 0 => Cardinality(Inside(admitted, e, t)) <= Limit[e]

\* A refused client that waits as long as it is told, and asks for nothing in
\* between, is admitted, at the endpoint of the largest limit: the others do not
\* fill the window they share with it beyond that limit (rate_limit.py:46-48,
\* "Retry in {retry_after}s.").
RetryAfterEnough ==
  \A e \in Endpoints :
    (\A f \in Endpoints : Limit[f] <= Limit[e]) /\ ~Admits(e) =>
      Cardinality({k \in DOMAIN window : window[k].time + Window >= RetryAt(e)}) < Limit[e]

\* A URL with a recent capture is archived again only on demand, or because
\* that capture completed, or was put back, after the submission had looked for
\* one (archives.py:54-69, pages.py:316-336).
DuplicateOnlyByRace ==
  [][\A r \in Requests :
       (/\ request[r].at = "insert" /\ request'[r].at = "enqueue"
        /\ request[r].kind \in {"api", "form"}) =>
          \A i \in DOMAIN rows :
            Fresh(i) /\ rows[i].removal = "never" => rows[i].completed >= request[r].since]_vars

=============================================================================
