----------------------------- MODULE MCServices -----------------------------
(***************************************************************************)
(* Four parts that share only the process: the cancellation registry, a    *)
(* multi-page scan, the schedules and the outbox of decisions.  A behavior *)
(* is one of one of them; the others stay as they begin.                   *)
(***************************************************************************)
EXTENDS ScanControl, Integers

CONSTANTS
    Selected, Routes,
    Schedules, DayTicks, WeekDays, MaxClock, MaxEdits, MaxBacks, MaxCrashes,
    Groups, MaxDecisions, MaxOthers,
    MaxFaults

ASSUME ServicesAssumption ==
    /\ Selected \in Nat /\ Routes \in Nat \ {0} /\ MaxFaults \in Nat
    /\ DayTicks \in Nat \ {0} /\ WeekDays \in Nat \ {0}
    /\ MaxClock \in Nat /\ MaxEdits \in Nat /\ MaxBacks \in Nat /\ MaxCrashes \in Nat

VARIABLES
    active,     \* the part whose behavior it is
    open, parent, children, pagePc, page, output, loop, scanCancelled, pageFaults,
    clock, rows, held, starts, due, hand, edits, backs, faults, crashes,
    decided, site, known, outbox, recorded, seen, phase, service, taken, wire,
    sync, others

pageVars == <<open, parent, children, pagePc, page, output, loop, scanCancelled,
              pageFaults>>
scheduleVars == <<clock, rows, held, starts, due, hand, edits, backs, faults,
                  crashes>>
outboxVars == <<decided, site, known, outbox, recorded, seen, phase, service,
                taken, wire, sync, others>>
allVars == <<active, vars, pageVars, scheduleVars, outboxVars>>

Pages == INSTANCE PageScan WITH pc <- pagePc, cancelled <- scanCancelled,
                                faults <- pageFaults
Scheduler == INSTANCE ScanScheduler
Outbox == INSTANCE ConnectedOutbox

Part == {"registry", "pages", "scheduler", "outbox"}

ServicesInit ==
    /\ active \in Part
    /\ Init /\ Pages!Init /\ Scheduler!Init /\ Outbox!Init
    /\ active # "pages" => open = {}
    /\ active # "scheduler" => \A s \in Schedules : rows[s].plan.freq = "off"

\* The attempts, the ids and the cancels are alike: of the behaviors that
\* differ in their names only, the one where these are first.
OneAttempt == CHOOSE a \in Attempts : TRUE
OneId == CHOOSE r \in Ids : TRUE
OneCancel == CHOOSE c \in Cancels : TRUE

OneIsFirst ==
    /\ (\E a \in Attempts : pc'[a] # "idle") => id'[OneAttempt] = OneId
    /\ (\E c \in Cancels : cpc'[c] # "idle") => cpc'[OneCancel] # "idle"

Registry ==
    /\ active = "registry" /\ Next /\ OneIsFirst
    /\ UNCHANGED <<active, pageVars, scheduleVars, outboxVars>>

PagesFrame == active = "pages" /\ UNCHANGED <<active, vars, scheduleVars, outboxVars>>
SchedulerFrame == active = "scheduler" /\ UNCHANGED <<active, vars, pageVars, outboxVars>>

\* An edit, a clock set back, a failed operation, an end of the process: two
\* of them, or one twice.
FewEvents == edits' + backs' + faults' + crashes' <= 2

OutboxMoves ==
    /\ active = "outbox" /\ Outbox!Step
    /\ UNCHANGED <<active, vars, pageVars, scheduleVars>>

ServicesNext ==
    \/ Registry
    \/ PagesFrame /\ Pages!Next
    \/ SchedulerFrame /\ Scheduler!Next /\ FewEvents
    \/ OutboxMoves

ServicesSpec ==
    /\ ServicesInit /\ [][ServicesNext]_allVars
    /\ WF_allVars(PagesFrame /\ Pages!Step)
    /\ WF_allVars(SchedulerFrame /\ Scheduler!Step)
    /\ WF_allVars(SchedulerFrame /\ Scheduler!Tick)

-----------------------------------------------------------------------------
(* The properties of the parts, under one name for the configuration.      *)

\* Every variable of the part whose behavior it is has a value of its type.
ServicesTypeOK ==
    CASE active = "pages" -> Pages!TypeOK
      [] active = "scheduler" -> Scheduler!TypeOK
      [] active = "outbox" -> Outbox!TypeOK
      [] OTHER -> TypeOK

\* See PageScan: only what was seen absent is resolved.
ResolvedWasSeenAbsent == Pages!ResolvedWasSeenAbsent
\* See PageScan: what a session claims is backed by runs of its pages.
ParentIsBacked == Pages!ParentIsBacked
\* See PageScan: the run of the session is settled, once.
ParentSettles == Pages!ParentSettles

\* See ScanScheduler: the next run is the soonest that fits.
NextRunIsSoonest == Scheduler!NextRunIsSoonest
\* See ScanScheduler: an occurrence is collected once.
OneScanPerOccurrence == Scheduler!OneScanPerOccurrence
\* See ScanScheduler: a due schedule is served.
DueIsServed == Scheduler!DueIsServed
\* See ScanScheduler: a time of an old plan is used once.
EditTakesEffect == Scheduler!EditTakesEffect

\* See ConnectedOutbox: a recorded decision waits or was taken.
RecordedIsKept == Outbox!RecordedIsKept
\* See ConnectedOutbox: a decision overrules what its user could see.
OverrulesWhatWasSeen == Outbox!OverrulesWhatWasSeen
\* See ConnectedOutbox: what was taken is not shown as refused.
TakenIsNoConflict == Outbox!TakenIsNoConflict
=============================================================================
