----------------------- MODULE ScanExecutionRefinement ----------------------
(***************************************************************************)
(* The scan orchestrator implements IdempotentExecution: a key holds what  *)
(* the row with that key says.                                             *)
(***************************************************************************)
EXTENDS ScanExecution

CONSTANTS Free, Open  \* the abstract values of a free key and an open claim

ASSUME OpenAssumption == Open \notin TerminalStatus

ASSUME FreeAssumption ==
    Free \notin [plan : Plans, outcome : TerminalStatus \cup {Open}]

SlotOf(row) ==
    [plan |-> row.plan,
     outcome |-> IF Terminal(row) THEN row.status ELSE Open]

slot ==
    [k \in Keys |->
        IF Held(executions, k)
          THEN SlotOf(executions[CHOOSE i \in DOMAIN executions :
                                    Holds(executions[i], k)])
          ELSE Free]

Promise == INSTANCE IdempotentExecution WITH Outcomes <- TerminalStatus

\* Crashes, lost answers, cancels, retention and concurrent handlers included,
\* a key is answered only for the plan it holds, is claimed only when no row
\* holds it, and keeps its outcome from settling to its release.
ImplementsPromise == Promise!Spec
=============================================================================
