--------------------------- MODULE MCLicenseDrain ---------------------------
(***************************************************************************)
(* The license beside one pass over what is owed: the commands are called  *)
(* one after the other, and the pass goes on between them.  No operation   *)
(* of the database times out and every release that fails is recorded.     *)
(***************************************************************************)
EXTENDS License, TLC

Symmetry == Permutations(Handlers)

\* A command begins, and the pass goes on, when no other command is under way.
OneByOne ==
    LET quiet(H) == \A h \in H : job[h].pc \in {"idle", "over"} IN
    /\ \A h \in Handlers : job'[h] # job[h] => quiet(Handlers \ {h})
    /\ <<job[Loop], drain>>' # <<job[Loop], drain>> => quiet(Handlers)

AllRecorded == queue' = <<>> /\ stranded' = {}

DrainSpec == Init /\ [][Next /\ OneByOne /\ AllRecorded]_vars
=============================================================================
