-------------------------- MODULE MCAgentRequests --------------------------
(***************************************************************************)
(* Fair behaviors of the queue in which an operation fails, or else the    *)
(* process ends and something panics: not all three.                       *)
(***************************************************************************)
EXTENDS AgentRequests

FewEvents == 2 * faults' + crashes' + panics' <= 2

FewSpec == Init /\ [][Next /\ FewEvents]_vars /\ Fairness
=============================================================================
