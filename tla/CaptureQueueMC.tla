--------------------------- MODULE CaptureQueueMC ---------------------------
(***************************************************************************)
(* Small instances of CaptureQueue for TLC.                                *)
(***************************************************************************)
EXTENDS CaptureQueue, TLC

\* A captured archive is told from another only by its id, and the places of a
\* worker are alike.
Symmetry == Permutations(Archives) \cup Permutations(Places)
=============================================================================
