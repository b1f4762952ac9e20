----------------------------- MODULE WebServerMC -----------------------------
(* Submissions may be more frequent than logins, and nothing limits reports; *)
(* the submissions are alike.                                             *)
EXTENDS WebServer, TLC

Limits   == [submit |-> 2, login |-> 1, report |-> 0]
Symmetry == Permutations(Requests)
=============================================================================
