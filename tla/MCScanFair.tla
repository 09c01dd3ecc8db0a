----------------------------- MODULE MCScanFair -----------------------------
(***************************************************************************)
(* Fair behaviors of the orchestrator, of two kinds.  A calm one has       *)
(* nothing but requests for full scans and cancels: what is admitted must  *)
(* settle.  In a rough one a web scan, asked for under one key, is retried *)
(* while an operation fails, the process dies and the clock moves: what is *)
(* left open must be swept.                                                *)
(***************************************************************************)
EXTENDS MCScanExecution

VARIABLE calm

fairVars == <<vars, calm>>

EitherPlan == {full, webOnly}

OneCaller == CHOOSE c \in Callers : TRUE
OneKey == CHOOSE k \in Keys : TRUE

\* Callers and keys are alike, and nothing happens before the first admission:
\* of the behaviors that differ in their names only, the one where OneCaller is
\* admitted first, under OneKey.
OneIsFirst ==
    nextId = 1 /\ nextId' = 2 =>
        job'[OneCaller] # job[OneCaller] /\ executions'[1].key = OneKey

\* What a step of a behavior of its kind does not do.  No handler is held up
\* by it: one that goes on goes on without a fault, and with the plan it has.
OfItsKind ==
    /\ UNCHANGED calm
    /\ IF calm THEN UNCHANGED <<now, faults, crashes>> ELSE faults' + crashes' <= 1
    /\ OneIsFirst
    /\ \A c \in Callers :
         job'[c] # NoJob =>
           IF calm THEN job'[c].plan = full
                   ELSE job'[c].plan = webOnly /\ job'[c].key = OneKey

FairInit == Init /\ calm \in BOOLEAN

CalmOrRough ==
    /\ FairInit
    /\ [][Next /\ OfItsKind]_fairVars
    /\ \A c \in Callers : WF_vars(CallerStep(c))
    /\ WF_vars(~calm /\ Tick) /\ WF_vars(Sweep)

-----------------------------------------------------------------------------
\* See ScanExecution: without failures what is admitted settles.
CalmScanSettles == calm => AdmittedSettles

\* See ScanExecution: a cancelled scan settles, and not as evidence.
CalmCancelStopsScan == calm => CancelStopsScan

\* See ScanExecution: what was left open is gone in the end.
RoughScanIsSwept == ~calm => AbandonedIsSwept
=============================================================================
