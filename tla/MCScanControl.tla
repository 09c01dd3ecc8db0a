--------------------------- MODULE MCScanControl ---------------------------
(* Small instances of the cancellation registry for TLC.                   *)
EXTENDS ScanControl, TLC

\* Attempts, cancels and ids are interchangeable.
Symmetry ==
    Permutations(Attempts) \cup Permutations(Cancels) \cup Permutations(Ids)
=============================================================================
