---------------------------- MODULE MCFixSettles ----------------------------
(***************************************************************************)
(* Fair behaviors of the attempts to fix, with few events: an edit, a      *)
(* failed operation, an end of the application and, where it decides       *)
(* something, that is for a check that is not a code check, another scan   *)
(* beside the watcher.  Two of them with one attempt, one with two.        *)
(***************************************************************************)
EXTENDS FixAttempts

FewEvents ==
    /\ others' > 0 => kind # "code"
    /\ edits' + faults' + crashes' + others'
         <= IF \E a \in Ids : attempts'[a] = NoAttempt THEN 2 ELSE 1

SettlesSpec == Init /\ [][Next /\ FewEvents]_vars /\ Fairness
=============================================================================
