----------------------------- MODULE HttpFetch -----------------------------
(***************************************************************************)
(* http_client.fetch: the loop of retries, redirects and safety checks     *)
(* that every request of the archiver to another archive, proxy list or    *)
(* frontend registry goes through.  Several tasks fetch at the same time;  *)
(* a module that extends this one starts the fetches and reads the results.*)
(***************************************************************************)
EXTENDS Naturals

CONSTANTS
  Tasks,           \* asyncio tasks that may be inside fetch()
  MaxAttempts,     \* the largest `attempts` a caller passes
  MaxRedirects     \* _MAX_REDIRECTS

ASSUME FetchAssumption == MaxAttempts \in Nat \ {0} /\ MaxRedirects \in Nat

VARIABLE req       \* the fetch each task is in

\* What a hop's host name resolves to: a routable address, an internal one,
\* or nothing at all.
Hops == {"public", "private", "unresolved"}

\* A 200 with a body; another status that ends the fetch (a retryable one on
\* the last attempt included); a FetchError; an exception that is none.
Results == {"page", "miss", "error", "surprise"}

Idle == [at |-> "idle"]

Request == [ at        : {"guard", "send", "backoff", "done"},
             attempts  : 1..MaxAttempts,
             follow    : BOOLEAN,      \* follow_redirects
             guarded   : BOOLEAN,      \* guard_private_ips
             attempt   : 1..MaxAttempts,
             redirects : 0..MaxRedirects,
             hop       : Hops,
             checked   : BOOLEAN,      \* current_url passed the guard
             sent      : Nat,          \* requests sent so far
             result    : Results \cup {"none"} ]

FetchTypeOK == req \in [Tasks -> Request \cup {Idle}]

FetchInit == req = [t \in Tasks |-> Idle]

NewRequest(n, follow, guarded) ==
  [ at |-> "guard", attempts |-> n, follow |-> follow, guarded |-> guarded,
    attempt |-> 1, redirects |-> 0, hop |-> "public", checked |-> FALSE,
    sent |-> 0, result |-> "none" ]

Returned(t) == req[t].at = "done"
Running(t)  == req[t].at \notin {"idle", "done"}

Become(t, r) == req' = [req EXCEPT ![t] = r]
Return(t, r, res) == Become(t, [r EXCEPT !.at = "done", !.result = res])

-----------------------------------------------------------------------------
(* One turn of the loop *)

\* check_url_safety_async: a name that does not resolve is let through.
Refused(hop) == hop = "private"

\* Mutant: the guard runs for the first URL only.
GuardOnce(t) ==
  /\ req[t].at = "guard"
  /\ IF req[t].guarded /\ req[t].sent = 0 /\ Refused(req[t].hop)
     THEN Return(t, req[t], "error")
     ELSE Become(t, [req[t] EXCEPT !.at = "send",
                                   !.checked = req[t].guarded /\ req[t].sent = 0])

Guard(t) ==
  /\ req[t].at = "guard"
  /\ IF req[t].guarded /\ Refused(req[t].hop)
     THEN Return(t, req[t], "error")
     ELSE Become(t, [req[t] EXCEPT !.at = "send", !.checked = req[t].guarded])

Sent(t) == [req[t] EXCEPT !.sent = @ + 1]

\* A transport error: retried, and an UpstreamError on the last attempt.
TransportFails(t) ==
  /\ req[t].at = "send"
  /\ IF req[t].attempt >= req[t].attempts
     THEN Return(t, Sent(t), "error")
     ELSE Become(t, [Sent(t) EXCEPT !.at = "backoff"])

Responds(t) == req[t].at = "send" /\ req[t].hop # "unresolved"

\* 429, 502, 503 or 504: the last attempt hands it to the caller.
RetryStatus(t) ==
  /\ Responds(t)
  /\ IF req[t].attempt >= req[t].attempts
     THEN Return(t, Sent(t), "miss")
     ELSE Become(t, [Sent(t) EXCEPT !.at = "backoff"])

\* Mutant: a followed redirect gives the retries back.
RedirectAfresh(t) ==
  /\ Responds(t)
  /\ IF ~req[t].follow THEN Return(t, Sent(t), "miss")
     ELSE IF req[t].redirects = MaxRedirects THEN Return(t, Sent(t), "error")
     ELSE \E hop \in Hops :
            Become(t, [Sent(t) EXCEPT !.at = "guard", !.hop = hop, !.checked = FALSE,
                                      !.redirects = @ + 1, !.attempt = 1])

\* Every hop goes back through the guard; attempt is left as it is.
Redirect(t) ==
  /\ Responds(t)
  /\ IF ~req[t].follow THEN Return(t, Sent(t), "miss")
     ELSE IF req[t].redirects = MaxRedirects THEN Return(t, Sent(t), "error")
     ELSE \E hop \in Hops :
            Become(t, [Sent(t) EXCEPT !.at = "guard", !.hop = hop, !.checked = FALSE,
                                      !.redirects = @ + 1])

\* _read_capped: the body, a body over max_bytes, or an exception httpx does
\* not derive from TransportError (an encoding that does not decode).
Answers(t) ==
  /\ Responds(t)
  /\ \E res \in Results : Return(t, Sent(t), res)

Backoff(t) ==
  /\ req[t].at = "backoff"
  /\ Become(t, [req[t] EXCEPT !.at = "guard", !.checked = FALSE, !.attempt = @ + 1])

FetchStep(t) ==
  \/ Guard(t) \/ TransportFails(t) \/ RetryStatus(t) \/ Redirect(t)
  \/ Answers(t) \/ Backoff(t)

-----------------------------------------------------------------------------
(* Properties *)

\* A fetch sends at most `attempts` plus _MAX_REDIRECTS requests, however
\* retries and redirects alternate: a retry after a redirect resumes at the
\* redirected URL and neither counter starts over.
RequestsBounded ==
  \A t \in Tasks : req[t].at # "idle" => req[t].sent <= req[t].attempts + MaxRedirects

\* With guard_private_ips no request leaves for a URL the safety check has not
\* passed since that URL became current: redirect hops and retries included.
EveryHopChecked ==
  \A t \in Tasks :
    req[t].at = "send" /\ req[t].guarded => req[t].checked /\ ~Refused(req[t].hop)
=============================================================================
