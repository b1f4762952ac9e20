---------------------------- MODULE ModerationMC ----------------------------
(***************************************************************************)
(* Small instances of Moderation for TLC.                                  *)
(***************************************************************************)
EXTENDS Moderation, TLC

\* Requests differ in nothing but their state, and no property names one.
Symmetry == Permutations(Requests)
=============================================================================
