--------------------------- MODULE ScanScheduler ---------------------------
(***************************************************************************)
(* Scheduled scans: the loop of background/scan_scheduler.rs, the next run *)
(* (commands/scan/schedule.rs) and the rows it is kept in                  *)
(* (db/schedules.rs).                                                      *)
(*                                                                         *)
(* The local clock counts ticks, DayTicks to a day and WeekDays to a week; *)
(* it may be set back, as it is when daylight saving ends.  An execution   *)
(* is what IdempotentExecution promises: its key is collected once, and    *)
(* whoever comes again with it is told so.  The environment of a schedule  *)
(* is not deleted while it is scanned.                                     *)
(***************************************************************************)
EXTENDS Integers, FiniteSets

CONSTANTS
    Schedules,  \* ids
    DayTicks,   \* ticks of a day (24 * 60 in the code's time of day)
    WeekDays,   \* days of a week (7)
    MaxClock,   \* bound: the clock
    MaxEdits,   \* bound: schedules saved by the user
    MaxBacks,   \* bound: times the clock is set back
    MaxFaults,  \* bound: executions and marks that fail
    MaxCrashes  \* bound: ends of the process

Time == 0 .. MaxClock + DayTicks * WeekDays
NoTime == -1
Plan == [freq : {"daily"}, tod : 0 .. DayTicks - 1, dow : {0}]
        \cup [freq : {"weekly"}, tod : 0 .. DayTicks - 1, dow : 0 .. WeekDays - 1]
        \cup {[freq |-> "off", tod |-> 0, dow |-> 0]}
Row == [plan : Plan, next : Time \cup {NoTime}]

VARIABLES
    clock,  \* the local time
    rows,   \* scan_schedules
    held,   \* keys of scheduled executions
    starts, \* collections started, by schedule and occurrence
    due,    \* rows the loop listed and has not come to yet, as they were
    hand,   \* the one it is at, with what is left to do for it
    edits, backs, faults, crashes

bounds == <<edits, backs, faults, crashes>>
vars == <<clock, rows, held, starts, due, hand, bounds>>

Key == Schedules \X Time
Copy == [id : Schedules, row : Row]
Idle == [at |-> "idle"]

-----------------------------------------------------------------------------
(* The next run                                                            *)

Today(now) == now \div DayTicks
DayOfWeek(day) == day % WeekDays

\* Mutant of DaysAhead: the time of today is past and today is taken again.
DaysAheadToday(now, tod, dow) ==
    (dow + WeekDays - DayOfWeek(Today(now))) % WeekDays

\* Mutant of DaysAhead: always into the next week.
DaysAheadNextWeek(now, tod, dow) == WeekDays - DayOfWeek(Today(now)) + dow + WeekDays

DaysAhead(now, tod, dow) ==
    LET current == DayOfWeek(Today(now)) IN
    CASE dow > current -> dow - current
      [] dow < current -> WeekDays - (current - dow)
      [] OTHER -> IF Today(now) * DayTicks + tod <= now THEN WeekDays ELSE 0

\* Mutant of DailyRun: the time that has just come is still ahead.
DailyRunNow(now, tod) ==
    LET candidate == Today(now) * DayTicks + tod
    IN  IF candidate < now THEN candidate + DayTicks ELSE candidate

DailyRun(now, tod) ==
    LET candidate == Today(now) * DayTicks + tod
    IN  IF candidate <= now THEN candidate + DayTicks ELSE candidate

\* compute_next_run_from.
NextRun(now, plan) ==
    CASE plan.freq = "daily" -> DailyRun(now, plan.tod)
      [] plan.freq = "weekly" ->
           (Today(now) + DaysAhead(now, plan.tod, plan.dow)) * DayTicks + plan.tod
      [] OTHER -> NoTime

\* save_scan_schedule: what the row holds, and when it comes next.
Saved(now, plan) == [plan |-> plan, next |-> NextRun(now, plan)]

\* Plans were saved before time 0, and may be due since then.
Init ==
    /\ clock = 0 /\ rows \in [Schedules -> {Saved(-1, plan) : plan \in Plan}]
    /\ held = {} /\ starts = [k \in Key |-> 0]
    /\ due = {} /\ hand = Idle
    /\ edits = 0 /\ backs = 0 /\ faults = 0 /\ crashes = 0

-----------------------------------------------------------------------------
Tick ==
    /\ clock < MaxClock /\ clock' = clock + 1
    /\ UNCHANGED <<rows, held, starts, due, hand, bounds>>

SetBack ==
    /\ backs < MaxBacks /\ clock > 0
    /\ clock' = clock - 1 /\ backs' = backs + 1
    /\ UNCHANGED <<rows, held, starts, due, hand, edits, faults, crashes>>

\* The user saves a plan.
Edit(s) ==
    /\ edits < MaxEdits /\ edits' = edits + 1
    /\ \E plan \in Plan : rows' = [rows EXCEPT ![s] = Saved(clock, plan)]
    /\ UNCHANGED <<clock, held, starts, due, hand, backs, faults, crashes>>

IsDue(row) == row.plan.freq # "off" /\ row.next # NoTime /\ row.next <= clock

\* run_due_schedules: all that is due is listed at once (get_due_schedules).
List ==
    /\ hand = Idle /\ due = {}
    /\ due' = {[id |-> s, row |-> rows[s]] : s \in {x \in Schedules : IsDue(rows[x])}}
    /\ due' # {}
    /\ UNCHANGED <<clock, rows, held, starts, hand, bounds>>

\* ... and gone through one by one.
Take ==
    /\ hand = Idle
    /\ \E c \in due : due' = due \ {c} /\ hand' = [at |-> "execute", copy |-> c]
    /\ UNCHANGED <<clock, rows, held, starts, bounds>>

\* Mutant of OccurrenceKey: the key is of the time of the attempt.
AttemptKey(copy) == <<copy.id, clock>>

\* The key build_scheduled_execution_request gives the execution.
OccurrenceKey(copy) == <<copy.id, copy.row.next>>

\* run_scan_execution_internal: a key that is held starts no collection.
Execute ==
    /\ hand.at = "execute"
    /\ LET k == OccurrenceKey(hand.copy) IN
       /\ held' = held \cup {k}
       /\ starts' = IF k \in held THEN starts
                    ELSE [starts EXCEPT ![<<hand.copy.id, hand.copy.row.next>>] = @ + 1]
    /\ hand' = [hand EXCEPT !.at = "mark"]
    /\ UNCHANGED <<clock, rows, due, bounds>>

\* It is refused before it has a row; this is logged.
ExecuteFails ==
    /\ hand.at = "execute" /\ faults < MaxFaults /\ faults' = faults + 1
    /\ hand' = [hand EXCEPT !.at = "mark"]
    /\ UNCHANGED <<clock, rows, held, starts, due, edits, backs, crashes>>

\* Mutant of Marked: a period is added to the run that was due.
MarkedByPeriod(row, copy) ==
    [row EXCEPT !.next = IF copy.row.plan.freq = "daily" THEN row.next + DayTicks
                         ELSE row.next + DayTicks * WeekDays]

\* mark_schedule_run: by the plan as it was when it was listed.
Marked(row, copy) == [row EXCEPT !.next = NextRun(clock, copy.row.plan)]

\* That it fails is logged.
Mark ==
    /\ hand.at = "mark" /\ hand' = Idle
    /\ \/ /\ rows' = [rows EXCEPT ![hand.copy.id] = Marked(@, hand.copy)]
          /\ UNCHANGED faults
       \/ /\ faults < MaxFaults /\ faults' = faults + 1 /\ UNCHANGED rows
    /\ UNCHANGED <<clock, held, starts, due, edits, backs, crashes>>

\* The process ends and is launched again.
Crash ==
    /\ crashes < MaxCrashes /\ crashes' = crashes + 1
    /\ due' = {} /\ hand' = Idle
    /\ UNCHANGED <<clock, rows, held, starts, edits, backs, faults>>

Step == List \/ Take \/ Execute \/ ExecuteFails \/ Mark

Next == Step \/ Tick \/ SetBack \/ (\E s \in Schedules : Edit(s)) \/ Crash

Spec == Init /\ [][Next]_vars
FairSpec == Spec /\ WF_vars(Step) /\ WF_vars(Tick)

-----------------------------------------------------------------------------
TypeOK ==
    /\ clock \in 0 .. MaxClock /\ rows \in [Schedules -> Row]
    /\ held \subseteq Key /\ starts \in [Key -> 0 .. 3]
    /\ due \subseteq Copy
    /\ hand \in {Idle} \cup [at : {"execute", "mark"}, copy : Copy]
    /\ edits \in 0 .. MaxEdits /\ backs \in 0 .. MaxBacks
    /\ faults \in 0 .. MaxFaults /\ crashes \in 0 .. MaxCrashes

Fits(time, plan) ==
    /\ plan.freq # "off" /\ time # NoTime /\ time % DayTicks = plan.tod
    /\ plan.freq = "weekly" => DayOfWeek(Today(time)) = plan.dow

\* The next run is the soonest time after now that fits the plan: it is never
\* the time that has just come, and no time that fits is passed over.
NextRunIsSoonest ==
    \A plan \in {p \in Plan : p.freq # "off"} :
        LET next == NextRun(clock, plan) IN
        /\ next > clock /\ Fits(next, plan)
        /\ \A time \in clock + 1 .. next - 1 : ~Fits(time, plan)

\* An occurrence of a schedule is collected once at most, although it comes up
\* again after a crash between the scan and the mark, after a mark that failed,
\* and when the clock is set back over it.
OneScanPerOccurrence == \A k \in Key : starts[k] <= 1

\* A schedule that is due is served, or turned off or put off by the user.
DueIsServed == \A s \in Schedules : IsDue(rows[s]) ~> ~IsDue(rows[s])

\* The mark computes the next run by the plan as it was before the scan, so a
\* plan saved during the scan may be left with a time of the old one.  That
\* lasts for one run at most: when the time comes, the row goes on to one of
\* its own.
EditTakesEffect ==
    \A s \in Schedules :
        IsDue(rows[s]) /\ ~Fits(rows[s].next, rows[s].plan)
            ~> Fits(rows[s].next, rows[s].plan) \/ rows[s].plan.freq = "off"
=============================================================================
