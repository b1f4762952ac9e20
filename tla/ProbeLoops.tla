----------------------------- MODULE ProbeLoops -----------------------------
(***************************************************************************)
(* The worker's background loops that keep the proxy and frontend pools:   *)
(* loading the proxy list, probing proxies against the archive.today gate  *)
(* and probing privacy frontends through a proxy that passes it, with the  *)
(* proxy_status and frontend_status tables their verdicts are read from    *)
(* (worker.py, proxy.py, privacy_frontends.py, repository.py).             *)
(*                                                                         *)
(* Proxies are numbered in the order of the list they were loaded from;    *)
(* only the SOCKS5 ones are here, the gate loop leaves out the others.  A  *)
(* frontend is an (instance, target) pair.                                 *)
(***************************************************************************)
EXTENDS Naturals, FiniteSets, SequencesExt

CONSTANTS
  NumProxies,      \* SOCKS5 proxies of the list
  Datacenter,      \* those whose ASN is a datacenter's
  Reverify,        \* passers re-verified by a pass of the gate loop
  Kept,            \* passers a live gate loop verifies again within 24 hours
  Batch,           \* new candidates probed by a pass (its urgent size)
  Threshold,       \* proxy_eviction_failure_threshold
  Static,          \* frontends listed in the code
  Registry,        \* frontends the upstream registry adds
  MaxFaults        \* bound: errors, hung probes, shutdowns and late verdicts

Proxies   == 1..NumProxies
Frontends == Static \cup Registry

ASSUME ProbeAssumption ==
  /\ NumProxies \in Nat \ {0}
  /\ Datacenter \subseteq Proxies
  /\ {Reverify, Kept, Batch, Threshold} \subseteq Nat \ {0}
  /\ MaxFaults \in Nat
  /\ Static \cup Registry \subseteq Nat

VARIABLES
  up,              \* proxies that would pass the gate now
  running,         \* Worker._running
  loaded,          \* _init_proxy_rotator has ended
  rotator,         \* self._proxy_rotator.proxies
  passing,         \* proxies whose row passed within 24 h, by last_checked_at
  failures,        \* consecutive_failures of each proxy's row, 0 without one
  gate,            \* _gate_probe_loop
  frontend,        \* _frontend_probe_loop
  verified,        \* frontends whose row is verified and within 24 h
  other,           \* a verdict another worker has still to record
  faults           \* errors, hung probes, shutdowns and late verdicts so far

vars == <<up, running, loaded, rotator, passing, failures, gate, frontend,
          verified, other, faults>>

Ended == {"stopped", "dead"}

TypeOK ==
  /\ up \subseteq Proxies
  /\ running \in BOOLEAN
  /\ loaded \in BOOLEAN
  /\ rotator \subseteq Proxies
  /\ passing \in Seq(Proxies)
  /\ failures \in [Proxies -> 0..Threshold]
  /\ gate \in [at : {"warmup", "reverify", "choose", "batch", "evict", "sleep", "hung"}
                      \cup Ended,
               todo : SUBSET Proxies, sample : SUBSET Proxies,
               passed : SUBSET Proxies]
  /\ frontend \in [at : {"probe"}, via : Proxies, todo : SUBSET Frontends]
                    \cup [at : {"sleep", "hung"} \cup Ended]
  /\ verified \subseteq Frontends
  /\ other \in {<< >>} \cup (Proxies \X BOOLEAN)
  /\ faults \in 0..MaxFaults

-----------------------------------------------------------------------------
(* The tables, as their readers see them: a row that is not passing, or is   *)
(* over 24 h old, is told from no row by its count of failures alone.       *)

\* ProxyStatusRepository.list_passing
Passing == Range(passing)

\* list_passing_oldest
OldestPassing(n) == {passing[i] : i \in {k \in DOMAIN passing : k <= n}}

\* Mutant: only a pass is recorded.
RecordPasses(p, passes) ==
  /\ passing' = IF passes THEN Append(Remove(passing, p), p) ELSE passing
  /\ failures' = [failures EXCEPT ![p] = IF passes THEN 0 ELSE @]

\* ProxyStatusRepository.record
Record(p, passes) ==
  /\ passing' = IF passes THEN Append(Remove(passing, p), p) ELSE Remove(passing, p)
  /\ failures' = [failures EXCEPT ![p] = IF passes THEN 0
                                         ELSE IF @ = Threshold THEN Threshold ELSE @ + 1]

\* The first n in list order.
First(S, n) == {p \in S : Cardinality({q \in S : q < p}) < n}

NoPass == [at |-> "warmup", todo |-> {}, sample |-> {}, passed |-> {}]

Init ==
  /\ up \in SUBSET Proxies
  /\ running = TRUE
  /\ loaded = FALSE
  /\ rotator = {}
  /\ passing = << >>
  /\ failures = [p \in Proxies |-> 0]
  /\ gate = NoPass
  /\ frontend = [at |-> "sleep"]
  /\ verified = {}
  /\ other = << >>
  /\ faults = 0

-----------------------------------------------------------------------------
(* _init_proxy_rotator *)

\* load_proxies and filter_healthy: nothing when the list fails or is empty,
\* else whatever a generic probe, which says nothing of the gate, leaves of it.
\* The rotator is replaced as a whole; nothing here looks at _running.
LoadProxies ==
  /\ ~loaded
  /\ loaded' = TRUE
  /\ rotator' \in SUBSET Proxies
  /\ UNCHANGED <<up, running, passing, failures, gate, frontend, verified, other, faults>>

-----------------------------------------------------------------------------
(* _gate_probe_loop *)

GateAt(step) == gate' = [gate EXCEPT !.at = step]

GateOnly == UNCHANGED <<up, running, loaded, rotator, frontend, verified, other, faults>>

\* The loop leaves its warm-up or its sleep; _gate_probe_iter probes the oldest
\* passers again.
GateBegin ==
  /\ \/ gate.at = "sleep"
     \/ gate.at = "warmup" /\ (~running \/ rotator # {})
  /\ LET S == OldestPassing(Reverify) IN
     gate' = IF ~running THEN [NoPass EXCEPT !.at = "stopped"]
             ELSE [at |-> IF S = {} THEN "choose" ELSE "reverify",
                   todo |-> S, sample |-> S, passed |-> {}]
  /\ UNCHANGED <<passing, failures>> /\ GateOnly

\* probe_archive_gate through one proxy ends; any failure is a False.
GateProbe(p) ==
  /\ gate.at \in {"reverify", "batch"}
  /\ p \in gate.todo
  /\ gate' = [gate EXCEPT !.todo = @ \ {p},
                          !.passed = IF p \in up THEN @ \cup {p} ELSE @]
  /\ UNCHANGED <<passing, failures>> /\ GateOnly

\* filter_gate_passing has returned: one upsert for each proxy of the sample.
GateRecord(p) ==
  /\ gate.at \in {"reverify", "batch"}
  /\ gate.todo = {}
  /\ p \in gate.sample
  /\ Record(p, p \in gate.passed)
  /\ gate' = [gate EXCEPT !.sample = @ \ {p},
                          !.at = IF gate.sample # {p} THEN @
                                 ELSE IF @ = "reverify" THEN "choose" ELSE "evict"]
  /\ GateOnly

\* Mutant: a candidate that has a row is no longer fresh, failed or not.
FreshNeverSeen == {p \in rotator \ Passing : failures[p] = 0}

\* Candidates that are not passing already.
Candidates == rotator \ Passing

\* _gate_probe_batch: the head of the candidates without the datacenters, or
\* the head itself when that leaves none.
Sample(candidates) ==
  LET consumer == First(candidates, 5 * Batch) \ Datacenter
  IN First(IF consumer = {} THEN candidates ELSE consumer, Batch)

Choose ==
  /\ gate.at = "choose"
  /\ LET S == Sample(Candidates)
     IN gate' = [at |-> IF S = {} THEN "evict" ELSE "batch",
                 todo |-> S, sample |-> S, passed |-> {}]
  /\ UNCHANGED <<passing, failures>> /\ GateOnly

\* evict_dead
Evict ==
  /\ gate.at = "evict"
  /\ failures' = [p \in Proxies |-> IF failures[p] >= Threshold THEN 0 ELSE failures[p]]
  /\ GateAt("sleep")
  /\ UNCHANGED passing /\ GateOnly

\* A query of the pass fails: the pass is over.  The query that sets the length
\* of the sleep stands outside the try block: the loop is over.
GateError ==
  /\ faults < MaxFaults
  /\ gate.at \in {"reverify", "choose", "batch", "evict", "sleep"}
  /\ gate' = [NoPass EXCEPT !.at = IF gate.at = "sleep" THEN "dead" ELSE "sleep"]
  /\ faults' = faults + 1
  /\ UNCHANGED <<up, running, loaded, rotator, passing, failures, frontend, verified, other>>

\* Only the navigation of a probe has a timeout: content() or close() of its
\* page may never return, and filter_gate_passing waits for every probe.
GateHangs ==
  /\ faults < MaxFaults
  /\ gate.at \in {"reverify", "batch"} /\ gate.todo # {}
  /\ gate' = [NoPass EXCEPT !.at = "hung"]
  /\ faults' = faults + 1
  /\ UNCHANGED <<up, running, loaded, rotator, passing, failures, frontend, verified, other>>

GateStep ==
  \/ GateBegin \/ Choose \/ Evict
  \/ \E p \in Proxies : GateProbe(p) \/ GateRecord(p)

-----------------------------------------------------------------------------
(* _frontend_probe_loop *)

FrontendOnly == UNCHANGED <<up, running, loaded, rotator, passing, failures, gate, other, faults>>

\* Mutant: a registry outage leaves nothing to probe.
RegistryOnly == {{}, Registry}

\* discover_instances: the static list, and the registry's when it answers.
Discovered == {Static, Frontends}

\* Mutant: a loop that is asleep does not look at _running.
NextPassUnchecked ==
  /\ frontend.at = "sleep"
  /\ running /\ Passing # {}
  /\ \E p \in Passing, S \in Discovered :
       frontend' = [at |-> "probe", via |-> p, todo |-> S]
  /\ UNCHANGED verified /\ FrontendOnly

\* The loop wakes: _pick_archive_today_proxy gives one proxy for the whole pass,
\* or none, and the loop waits again (a warm-up only waits for less).
NextPass ==
  /\ frontend.at = "sleep"
  /\ IF ~running THEN frontend' = [at |-> "stopped"]
     ELSE \E p \in Passing, S \in Discovered :
            frontend' = [at |-> "probe", via |-> p, todo |-> S]
  /\ UNCHANGED verified /\ FrontendOnly

\* is_alive_tcp and probe_frontend_instance through the pass's proxy, and the
\* upsert of the verdict: whether the frontend serves is the world's choice.  A
\* probe that is under way when the worker shuts down is recorded all the same.
ProbeFrontend(f, passes) ==
  /\ frontend.at = "probe"
  /\ First(frontend.todo, 1) = {f}
  /\ passes => frontend.via \in up
  /\ verified' = IF passes THEN verified \cup {f} ELSE verified \ {f}
  /\ frontend' = IF frontend.todo = {f} THEN [at |-> "sleep"]
                 ELSE [frontend EXCEPT !.todo = @ \ {f}]
  /\ FrontendOnly

\* The loop looks at _running before each instance.
PassCut ==
  /\ frontend.at = "probe"
  /\ ~running
  /\ frontend' = [at |-> "stopped"]
  /\ UNCHANGED verified /\ FrontendOnly

\* No try block surrounds the queries and the registry's parser.
FrontendError ==
  /\ faults < MaxFaults
  /\ frontend.at \in {"sleep", "probe"}
  /\ frontend' = [at |-> "dead"]
  /\ faults' = faults + 1
  /\ UNCHANGED <<up, running, loaded, rotator, passing, failures, gate, verified, other>>

\* The same of probe_frontend_instance.
FrontendHangs ==
  /\ faults < MaxFaults
  /\ frontend.at = "probe"
  /\ frontend' = [at |-> "hung"]
  /\ faults' = faults + 1
  /\ UNCHANGED <<up, running, loaded, rotator, passing, failures, gate, verified, other>>

FrontendStep ==
  \/ NextPass \/ PassCut
  \/ \E f \in Frontends, passes \in BOOLEAN : ProbeFrontend(f, passes)

-----------------------------------------------------------------------------
(* The worker, the other workers and the world *)

Shutdown ==
  /\ running /\ faults < MaxFaults
  /\ running' = FALSE
  /\ faults' = faults + 1
  /\ UNCHANGED <<up, loaded, rotator, passing, failures, gate, frontend, verified, other>>

Drained == gate.at \in Ended /\ frontend.at \in Ended /\ loaded

\* The drain of run() has waited its time and cancels what still runs, the
\* health check of a long list (which never looks at _running) included.
DrainTimesOut ==
  /\ ~running /\ ~Drained
  /\ gate' = [NoPass EXCEPT !.at = "stopped"]
  /\ frontend' = [at |-> "stopped"]
  /\ loaded' = TRUE
  /\ UNCHANGED <<up, running, rotator, passing, failures, verified, other, faults>>

\* The container starts the worker again; the tables are as they were.
Restart ==
  /\ ~running /\ Drained
  /\ running' = TRUE
  /\ loaded' = FALSE /\ rotator' = {}
  /\ gate' = NoPass
  /\ frontend' = [at |-> "sleep"]
  /\ UNCHANGED <<up, passing, failures, verified, other, faults>>

\* Another worker's loop probes a proxy and records what it saw later.
OtherProbe(p) ==
  /\ other = << >> /\ faults < MaxFaults
  /\ other' = <<p, p \in up>>
  /\ faults' = faults + 1
  /\ UNCHANGED <<up, running, loaded, rotator, passing, failures, gate, frontend, verified>>

OtherRecord ==
  /\ other # << >>
  /\ Record(other[1], other[2])
  /\ other' = << >>
  /\ UNCHANGED <<up, running, loaded, rotator, gate, frontend, verified, faults>>

\* The oldest row that still counts leaves the 24 h window.  A live loop checks
\* every passer again well within it (5 of them at least every hour), unless
\* there are too many of them or one of its probes hangs.
Age ==
  /\ gate.at \in Ended \cup {"warmup", "hung"} \/ Cardinality(Passing) > Kept
  /\ passing # << >>
  /\ passing' = Tail(passing)
  /\ UNCHANGED <<up, running, loaded, rotator, failures, gate, frontend, verified, other, faults>>

\* The same for a frontend, at any time: its next probe may be far off, in a
\* pass that hangs, and the registry that named it may not name it again.
AgeFrontend(f) ==
  /\ f \in verified
  /\ verified' = verified \ {f}
  /\ UNCHANGED <<up, running, loaded, rotator, passing, failures, gate, frontend, other, faults>>

Flip(p) ==
  /\ up' = IF p \in up THEN up \ {p} ELSE up \cup {p}
  /\ UNCHANGED <<running, loaded, rotator, passing, failures, gate, frontend,
                 verified, other, faults>>

-----------------------------------------------------------------------------
(* The specification *)

Next ==
  \/ LoadProxies
  \/ GateStep \/ GateError \/ GateHangs
  \/ FrontendStep \/ FrontendError \/ FrontendHangs
  \/ Shutdown \/ DrainTimesOut \/ Restart \/ OtherRecord \/ Age
  \/ \E p \in Proxies : OtherProbe(p) \/ Flip(p)
  \/ \E f \in Frontends : AgeFrontend(f)

(* The event loop runs each of the loops, a probe that does not hang ends, *)
(* and time passes.  Nothing is assumed of the world's proxies and         *)
(* frontends, nor of the drain's timeout.                                  *)
Fairness ==
  /\ WF_vars(LoadProxies)
  /\ WF_vars(GateStep) /\ WF_vars(FrontendStep)
  /\ WF_vars(Restart) /\ WF_vars(OtherRecord) /\ WF_vars(Age)

Spec == Init /\ [][Next]_vars /\ Fairness

-----------------------------------------------------------------------------
(* Properties *)

Lives(loop) == loop.at \notin {"dead", "hung"}

\* A proxy that dies for good leaves the pool that captures pick from, even
\* when the gate loop is dead or hangs in a probe, or another worker records a
\* verdict late.
DeadProxyDropped ==
  \A p \in Proxies : <>[](p \notin up) => <>[](p \notin Passing)

\* While the loop lives, no shutdown is for good and the head of the rotator
\* passes the gate, the pool never stays empty: not after evictions, failed
\* queries, hung frontend probes or restarts.
PoolRefills ==
  (<>[](rotator # {} => Sample(rotator) \subseteq up) /\ []<>(rotator # {})
     /\ []Lives(gate) /\ []<>running)
    => []<>(Passing # {})

\* A frontend of the static list that serves its content to every live proxy
\* is verified again and again: a pass may have picked a proxy that was dead
\* already and failed them all, or the registry may be out, but later passes
\* make up for it once the proxies that are left stay up.
FrontendsReverified ==
  \A f \in Static :
    (/\ <>[][ProbeFrontend(f, FALSE) => frontend.via \notin up]_vars
     /\ <>[][FALSE]_up
     /\ []<>(Passing # {})
     /\ [](Lives(gate) /\ Lives(frontend)))
      => []<>(f \in verified)

\* After a shutdown the loops end wherever it finds them, unless a probe hangs.
\* This is not about the drain's timeout, which the health check of a long
\* list may exceed: it says that no loop goes on for ever.
LoopsStop == ~running ~> (Drained \/ ~Lives(gate) \/ ~Lives(frontend))

=============================================================================
