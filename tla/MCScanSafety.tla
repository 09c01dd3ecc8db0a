---------------------------- MODULE MCScanSafety ----------------------------
(***************************************************************************)
(* Behaviors of the orchestrator of two kinds, for its safety.  In a rough *)
(* one a full scan and a verification are asked for while an operation     *)
(* fails, the process dies or the clock moves.  In a calm one scans of two *)
(* scopes and of two classes follow each other, more of them: enough for   *)
(* the retention to choose between windows.                                *)
(***************************************************************************)
EXTENDS MCScanExecution

CONSTANTS RoughAdmissions, \* bound: executions admitted in a rough behavior
          RoughEvents      \* bound: what goes on in one at a time, see RoughStep

VARIABLE rough

safetyVars == <<vars, rough>>

EveryPlan == FullAndVerify \cup Windows

Busy == {c \in Callers : job[c] # NoJob}

\* Room for an execution is taken when it is asked for, as in Request.  What
\* has gone wrong, the ticks, and the handlers at work, a cancelled one twice,
\* are bounded together: the more has happened, the fewer work at a time.
RoughStep ==
    /\ nextId' + Cardinality({c \in Callers : At(c, "admit")'}) <= RoughAdmissions + 1
    /\ now' + faults' + crashes' + Cardinality(Busy')
         + Cardinality({c \in Busy' : job'[c].cancelled}) <= RoughEvents

OfItsKind ==
    /\ UNCHANGED rough
    /\ IF rough THEN RoughStep ELSE UNCHANGED <<now, faults, crashes>>
    /\ \A c \in Callers :
         job'[c] # NoJob =>
           job'[c].plan \in IF rough THEN FullAndVerify ELSE Windows

SafetyInit == Init /\ rough \in BOOLEAN

RoughOrCalm == SafetyInit /\ [][Next /\ OfItsKind]_safetyVars
=============================================================================
