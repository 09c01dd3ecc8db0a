--------------------------- MODULE ScanExecution ---------------------------
(***************************************************************************)
(* The orchestrator of canonical scans: run_scan_execution_internal in     *)
(* commands/scan/execution.rs and run_bounded_web_verification in          *)
(* commands/scan/verification.rs, over the table of ScanExecutionStore.    *)
(*                                                                         *)
(* A caller is a task that runs one request at a time: a command of the    *)
(* frontend, the scheduler, the agent-request queue, a verification.  It   *)
(* admits an execution, collects and persists one component after the      *)
(* other, and settles, links, prunes and records what it did.  Tasks       *)
(* interleave between database operations, and with cancels, the clock,    *)
(* the retention sweep and the death of the process.                       *)
(*                                                                         *)
(* Every database operation may fail in one of two ways.  It is refused    *)
(* and changes nothing, or its answer is lost: the caller gets an error    *)
(* and the operation happens all the same (Database::dispatch leaves a     *)
(* timed-out operation in the worker's queue).  The worker runs operations *)
(* in order and only operations read the tables, so nobody can tell when,  *)
(* before the next one, the late operation ran: here it runs at once.      *)
(*                                                                         *)
(* Abstracted: the plans have a project (without one, linking and          *)
(* recording are skipped), the web component has one page, and the score   *)
(* and the issue counts of an execution are left out.                      *)
(***************************************************************************)
EXTENDS ScanExecutionStore

CONSTANTS
    Callers,        \* tasks that run scan requests
    NoJob,          \* the task is not running a request
    MaxAdmissions,  \* bound: executions ever admitted
    MaxClock,       \* bound: the clock
    MaxFaults,      \* bound: database operations that fail
    MaxCrashes      \* bound: crashes of the process

VARIABLES
    executions,  \* the table scan_executions
    nextId,      \* its AUTOINCREMENT counter
    runs,        \* scan_runs: <<execution, component>>, deleted with the execution
    timeline,    \* executions with an event in the project's timeline
    job,         \* the locals of each caller's handler
    now,         \* the wall clock
    answered,    \* history: the plans each key was answered for
    faults, crashes

tables == <<executions, nextId, runs, timeline>>
vars == <<tables, job, now, answered, faults, crashes>>

PC == {"admit", "precheck", "start", "collect", "persist", "finish",
       "link", "retain", "record"}

\* `exec` is 0 before the admission; `result` and `detail` are those of the
\* component in hand, `cancelled` what is_cancelled answers.
Job == [pc : PC, key : Keys, plan : Plans, at : Nat, exec : Nat,
        comp : Components, result : ComponentStatus, detail : BOOLEAN,
        cancelled : BOOLEAN]

ASSUME NoJobAssumption == NoJob \notin Job

Init ==
    /\ executions = [i \in {} |-> NoJob] /\ nextId = 1
    /\ runs = {} /\ timeline = {}
    /\ job = [c \in Callers |-> NoJob]
    /\ now = 0
    /\ answered = [k \in Keys |-> {}]
    /\ faults = 0 /\ crashes = 0

-----------------------------------------------------------------------------
At(c, p) == job[c] # NoJob /\ job[c].pc = p

Fault == faults < MaxFaults /\ faults' = faults + 1

Goto(c, j) == job' = [job EXCEPT ![c] = j]

\* The handler returns and its guard unregisters the request.
Return(c) == Goto(c, NoJob)

\* Mutant of OnError: a component that was not saved is reported complete.
OnErrorIgnored(j) ==
    CASE j.pc = "persist" -> [j EXCEPT !.pc = "finish", !.result = "complete"]
      [] j.pc = "retain" -> [j EXCEPT !.pc = "record"]
      [] OTHER -> NoJob

\* Where an operation's error takes the caller: a component that could not be
\* persisted has failed, a failed prune or event is only logged, and any other
\* error is returned.
OnError(j) ==
    CASE j.pc = "persist" ->
           [j EXCEPT !.pc = "finish", !.result = "failed", !.detail = TRUE]
      [] j.pc = "retain" -> [j EXCEPT !.pc = "record"]
      [] OTHER -> NoJob

\* The answer of an operation reaches the caller, or is lost.
Reply(c, ok, j) ==
    IF ok THEN Goto(c, j) /\ faults' = faults
          ELSE Fault /\ Goto(c, OnError(job[c]))

NoFault == faults' = faults

-----------------------------------------------------------------------------
(* Admission                                                               *)

\* A request arrives, is validated (a request that fails validation changes
\* nothing) and reads the clock.
Request(c, k, p) ==
    /\ job[c] = NoJob
    /\ nextId + Cardinality({d \in Callers : At(d, "admit")}) <= MaxAdmissions
    /\ Goto(c, [pc |-> "admit", key |-> k, plan |-> p, at |-> now, exec |-> 0,
                comp |-> "web", result |-> "planned", detail |-> FALSE,
                cancelled |-> FALSE])
    /\ UNCHANGED <<tables, now, answered, faults, crashes>>

FirstComponent(p) == IF p.component["web"] = "planned" THEN "web" ELSE "code"

AdmitNew(c, ok) ==
    LET j == job[c] IN
    /\ At(c, "admit")
    /\ ~Held(executions, j.key)
    /\ executions' = Insert(executions, nextId, NewRow(j.key, j.plan, j.at))
    /\ nextId' = nextId + 1
    /\ answered' = IF ok THEN [answered EXCEPT ![j.key] = @ \cup {j.plan}]
                         ELSE answered
    /\ Reply(c, ok,
         [j EXCEPT !.exec = nextId, !.comp = FirstComponent(j.plan),
                   !.pc = IF j.plan.class = "verification" THEN "start"
                                                           ELSE "precheck"])
    /\ UNCHANGED <<runs, timeline, now, crashes>>

\* Mutant of AdmitReused: the repeated request takes over the running one.
AdmitReusedResumes(c) ==
    LET j == job[c] IN
    /\ At(c, "admit")
    /\ \E i \in DOMAIN executions :
         /\ Answers(executions[i], j.key, j.plan, j.at)
         /\ Goto(c, [j EXCEPT !.exec = i, !.pc = "collect",
                              !.comp = FirstComponent(j.plan)])
    /\ answered' = [answered EXCEPT ![j.key] = @ \cup {j.plan}]
    /\ NoFault
    /\ UNCHANGED <<tables, now, crashes>>

\* The key's row answers the request (a verification reports it as an error).
AdmitReused(c) ==
    LET j == job[c] IN
    /\ At(c, "admit")
    /\ \E i \in DOMAIN executions : Answers(executions[i], j.key, j.plan, j.at)
    /\ answered' = [answered EXCEPT ![j.key] = @ \cup {j.plan}]
    /\ Return(c) /\ NoFault
    /\ UNCHANGED <<tables, now, crashes>>

\* IdempotencyConflict or IdempotencyStale.
AdmitRefused(c) ==
    LET j == job[c] IN
    /\ At(c, "admit")
    /\ \E i \in DOMAIN executions :
         /\ Holds(executions[i], j.key)
         /\ ~Answers(executions[i], j.key, j.plan, j.at)
    /\ Return(c) /\ NoFault
    /\ UNCHANGED <<tables, now, answered, crashes>>

-----------------------------------------------------------------------------
(* Before the first component                                              *)

Precheck(c) ==
    /\ At(c, "precheck")
    /\ ~job[c].cancelled
    /\ Goto(c, [job[c] EXCEPT !.pc = "start"]) /\ NoFault
    /\ UNCHANGED <<tables, now, answered, crashes>>

CancelBeforeStart(c, ok) ==
    LET j == job[c] IN
    /\ At(c, "precheck")
    /\ j.cancelled
    /\ CanCancel(executions, j.exec)
    /\ executions' = Cancelled(executions, j.exec, now)
    /\ Reply(c, ok, [j EXCEPT !.pc = "retain"])
    /\ UNCHANGED <<nextId, runs, timeline, now, answered, crashes>>

-----------------------------------------------------------------------------
(* One component: start, collect, persist, finish                          *)

\* A cancel seen before the code component: it is finished without a start.
SkipsCode(j) == j.comp = "code" /\ j.cancelled

\* Mutant of SkipCode: the cancelled handler returns and finishes nothing.
SkipCodeReturns(c) ==
    /\ At(c, "start")
    /\ SkipsCode(job[c])
    /\ Return(c) /\ NoFault
    /\ UNCHANGED <<tables, now, answered, crashes>>

SkipCode(c) ==
    LET j == job[c] IN
    /\ At(c, "start")
    /\ SkipsCode(j)
    /\ Goto(c, [j EXCEPT !.pc = "finish", !.result = "cancelled",
                         !.detail = TRUE])
    /\ NoFault
    /\ UNCHANGED <<tables, now, answered, crashes>>

Start(c, ok) ==
    LET j == job[c] IN
    /\ At(c, "start")
    /\ ~SkipsCode(j)
    /\ CanStart(executions, j.exec, j.comp)
    /\ executions' = Started(executions, j.exec, j.comp)
    /\ Reply(c, ok, [j EXCEPT !.pc = "collect"])
    /\ UNCHANGED <<nextId, runs, timeline, now, answered, crashes>>

\* The collector gives up.  It is asked to when the request is cancelled, and
\* its error is classified by its text (component_failure_status), so either
\* status may follow from either cause.
CollectFails(c, result) ==
    /\ At(c, "collect")
    /\ Goto(c, [job[c] EXCEPT !.pc = "finish", !.result = result,
                              !.detail = TRUE])
    /\ NoFault
    /\ UNCHANGED <<tables, now, answered, crashes>>

\* Mutant of Collected: no last poll before the write.
CollectedUnpolled(c) ==
    /\ At(c, "collect")
    /\ Goto(c, [job[c] EXCEPT !.pc = "persist"]) /\ NoFault
    /\ UNCHANGED <<tables, now, answered, crashes>>

\* The collector is done.  A general scan polls the request a last time before
\* it writes; a verification does not.
Collected(c) ==
    LET j == job[c] IN
    /\ At(c, "collect")
    /\ j.cancelled => j.plan.class = "verification"
    /\ Goto(c, [j EXCEPT !.pc = "persist"]) /\ NoFault
    /\ UNCHANGED <<tables, now, answered, crashes>>

\* Only a general web scan can be complete and carry a detail (its browser
\* layer did not run).
Details(j) ==
    IF j.comp = "web" /\ j.plan.class = "general" THEN BOOLEAN ELSE {FALSE}

Persist(c, ok, detail) ==
    LET j == job[c] IN
    /\ At(c, "persist")
    /\ j.exec \in DOMAIN executions
    /\ detail \in Details(j)
    /\ runs' = runs \cup {<<j.exec, j.comp>>}
    /\ Reply(c, ok, [j EXCEPT !.pc = "finish", !.result = "complete",
                              !.detail = detail])
    /\ UNCHANGED <<executions, nextId, timeline, now, answered, crashes>>

\* Mutant of PersistOrphan: the write is tried again until it succeeds.
PersistOrphanRetries(c) ==
    /\ At(c, "persist")
    /\ job[c].exec \notin DOMAIN executions
    /\ NoFault
    /\ UNCHANGED <<tables, job, now, answered, crashes>>

\* A run of an execution that is gone violates the foreign key.
PersistOrphan(c) ==
    /\ At(c, "persist")
    /\ job[c].exec \notin DOMAIN executions
    /\ Goto(c, OnError(job[c])) /\ NoFault
    /\ UNCHANGED <<tables, now, answered, crashes>>

HasCompletedChild(row) ==
    \E x \in Components : row.component[x] = "complete"

Finish(c, ok) ==
    LET j == job[c]
        after == Finished(executions, j.exec, j.comp, j.result, j.detail, now)
        next == [j EXCEPT !.result = "planned", !.detail = FALSE]
    IN
    /\ At(c, "finish")
    /\ CanFinish(executions, j.exec)
    /\ executions' = after
    /\ Reply(c, ok,
         IF j.comp = "web" /\ j.plan.component["code"] = "planned"
           THEN [next EXCEPT !.comp = "code", !.pc = "start"]
           ELSE [next EXCEPT !.pc = IF HasCompletedChild(after[j.exec])
                                      THEN "link" ELSE "retain"])
    /\ UNCHANGED <<nextId, runs, timeline, now, answered, crashes>>

-----------------------------------------------------------------------------
(* After the last component                                                *)

Link(c) ==
    /\ At(c, "link")
    /\ job[c].exec \in DOMAIN executions
    /\ Goto(c, [job[c] EXCEPT !.pc = "retain"]) /\ NoFault
    /\ UNCHANGED <<tables, now, answered, crashes>>

\* The score could not be computed: logged, and not linked.
ScoreFails(c) ==
    /\ At(c, "link")
    /\ Goto(c, [job[c] EXCEPT !.pc = "retain"]) /\ Fault
    /\ UNCHANGED <<tables, now, answered, crashes>>

RunsWithout(S) == {r \in runs : r[1] \notin S}

Retain(c, ok) ==
    LET j == job[c] pruned == Pruned(executions, j.plan) IN
    /\ At(c, "retain")
    /\ executions' = Delete(executions, pruned)
    /\ runs' = RunsWithout(pruned)
    /\ Reply(c, ok, [j EXCEPT !.pc = "record"])
    /\ UNCHANGED <<nextId, timeline, now, answered, crashes>>

\* The event needs the execution's row for its counts, and is skipped without.
Record(c) ==
    LET j == job[c] IN
    /\ At(c, "record")
    /\ timeline' = IF j.exec \in DOMAIN executions THEN timeline \cup {j.exec}
                                                   ELSE timeline
    /\ Return(c) /\ NoFault
    /\ UNCHANGED <<executions, nextId, runs, now, answered, crashes>>

-----------------------------------------------------------------------------
(* Operations that go wrong                                                *)

\* The statement found no row it may change: the handler returns the error.
Ineligible(c) ==
    LET j == job[c] IN
    /\ \/ At(c, "precheck") /\ j.cancelled /\ ~CanCancel(executions, j.exec)
       \/ At(c, "start") /\ ~SkipsCode(j)
            /\ ~CanStart(executions, j.exec, j.comp)
       \/ At(c, "finish") /\ ~CanFinish(executions, j.exec)
       \/ At(c, "link") /\ j.exec \notin DOMAIN executions
    /\ Return(c) /\ NoFault
    /\ UNCHANGED <<tables, now, answered, crashes>>

\* The operation the caller is about to make is refused.
DbFails(c) ==
    LET j == job[c] IN
    /\ \/ \E p \in {"admit", "persist", "finish", "link", "retain", "record"} :
            At(c, p)
       \/ At(c, "precheck") /\ j.cancelled
       \/ At(c, "start") /\ ~SkipsCode(j)
    /\ Fault
    /\ Goto(c, OnError(j))
    /\ UNCHANGED <<tables, now, answered, crashes>>

-----------------------------------------------------------------------------
(* The environment                                                         *)

\* cancel_scan, once the registry (ScanControl) has recorded it.
Cancel(c) ==
    /\ job[c] # NoJob
    /\ ~job[c].cancelled
    /\ Goto(c, [job[c] EXCEPT !.cancelled = TRUE])
    /\ UNCHANGED <<tables, now, answered, faults, crashes>>

Tick ==
    /\ now < MaxClock
    /\ now' = now + 1
    /\ UNCHANGED <<tables, job, answered, faults, crashes>>

\* The retention sweep, at startup and daily.
Sweep ==
    LET gone == Abandoned(executions, now) IN
    /\ gone # {}
    /\ executions' = Delete(executions, gone)
    /\ runs' = RunsWithout(gone)
    /\ UNCHANGED <<nextId, timeline, job, now, answered, faults, crashes>>

\* The process dies and starts again; nothing reconciles open executions.
Crash ==
    /\ crashes < MaxCrashes
    /\ crashes' = crashes + 1
    /\ job' = [c \in Callers |-> NoJob]
    /\ UNCHANGED <<tables, now, answered, faults>>

-----------------------------------------------------------------------------
CallerStep(c) ==
    \/ AdmitReused(c) \/ AdmitRefused(c)
    \/ Precheck(c) \/ SkipCode(c)
    \/ \E result \in {"failed", "cancelled"} : CollectFails(c, result)
    \/ Collected(c)
    \/ PersistOrphan(c) \/ Link(c) \/ ScoreFails(c) \/ Record(c)
    \/ \E ok \in BOOLEAN :
         \/ AdmitNew(c, ok) \/ CancelBeforeStart(c, ok) \/ Start(c, ok)
         \/ \E detail \in BOOLEAN : Persist(c, ok, detail)
         \/ Finish(c, ok) \/ Retain(c, ok)
    \/ Ineligible(c) \/ DbFails(c)

Next ==
    \/ \E c \in Callers, k \in Keys, p \in Plans : Request(c, k, p)
    \/ \E c \in Callers : CallerStep(c)
    \/ \E c \in Callers : Cancel(c)
    \/ Tick \/ Sweep \/ Crash

Spec == Init /\ [][Next]_vars

\* Collectors have timeouts and the worker serves its queue in order, so a
\* running handler gets on; the clock ticks and the sweep is a daily loop.
Fairness ==
    /\ \A c \in Callers : WF_vars(CallerStep(c))
    /\ WF_vars(Tick)
    /\ WF_vars(Sweep)

FairSpec == Spec /\ Fairness

-----------------------------------------------------------------------------
(* Properties                                                              *)

TablesOK ==
    /\ nextId \in Nat \ {0}
    /\ DOMAIN executions \subseteq 1 .. nextId - 1
    /\ executions \in [DOMAIN executions -> Row]
    /\ runs \subseteq (DOMAIN executions) \X Components
    /\ timeline \subseteq 1 .. nextId - 1

JobsOK == job \in [Callers -> Job \cup {NoJob}]

TypeOK ==
    /\ TablesOK
    /\ JobsOK
    /\ \A c \in Callers : job[c] # NoJob => job[c].exec < nextId
    /\ now \in Nat
    /\ answered \in [Keys -> SUBSET Plans]
    /\ faults \in Nat /\ crashes \in Nat

Drives(c, i) == job[c] # NoJob /\ job[c].exec = i /\ i # 0

Faultless == faults = 0 /\ crashes = 0

\* No two handlers work on one execution: a repeated request is answered with
\* the record of the first and does not run it again (admit_scan_execution's
\* "Atomically reuse or create an execution keyed by its idempotency key").
SingleOwner ==
    \A c, d \in Callers, i \in DOMAIN executions :
        Drives(c, i) /\ Drives(d, i) => c = d

\* Two requests with one key never collect at the same time.  The one
\* exception is a scan that outlives the abandonment window: the sweep takes
\* its row while its handler runs, and frees the key.
Working(c) ==
    \E p \in {"precheck", "start", "collect", "persist", "finish"} : At(c, p)

KeyCollectsOnce ==
    \A c, d \in Callers :
        Working(c) /\ Working(d) /\ job[c].key = job[d].key /\ c # d =>
            \E x \in {c, d} : /\ job[x].exec \notin DOMAIN executions
                              /\ now - job[x].at > AbandonAfter

\* "Partial evidence must not appear complete": an execution is shown as
\* complete only if every collector its plan called for is complete without a
\* reservation and has its run in the history.
CompleteIsWhole ==
    \A i \in DOMAIN executions :
        executions[i].status = "complete" =>
            \A c \in Components :
                executions[i].plan.component[c] = "planned" =>
                    /\ executions[i].component[c] = "complete"
                    /\ ~executions[i].detail[c]
                    /\ <<i, c>> \in runs

\* A collector shown as complete has saved its run (scan_url_for_execution's
\* "A scan that ran but was never saved must not report success"), and one
\* shown as cancelled has left none ("must leave no run behind").
EvidenceBacksStatus ==
    \A i \in DOMAIN executions, c \in Components :
        /\ executions[i].component[c] = "complete" => <<i, c>> \in runs
        /\ executions[i].component[c] \in {"cancelled", "skipped", "none"} =>
             <<i, c>> \notin runs

\* Nothing changes an execution that has settled, nor its evidence, until
\* retention deletes the two together: neither a second handler, nor a late
\* operation, nor a cancel that comes too late.
SettledIsFrozen ==
    [][\A i \in DOMAIN executions \cap DOMAIN executions' :
         Terminal(executions[i]) =>
            /\ executions'[i] = executions[i]
            /\ \A c \in Components : <<i, c>> \in runs' <=> <<i, c>> \in runs]_vars

\* Retention removes a settled execution only when Keep newer ones of its own
\* window are left, so verifications never evict visible history; it never
\* removes an open one, which only the sweep does, and only an old one.
RetentionKeepsNewest ==
    [][\A i \in DOMAIN executions \ DOMAIN executions' :
         IF Terminal(executions[i])
           THEN Cardinality(NewerInWindow(executions, i) \cap DOMAIN executions')
                  >= Keep
           ELSE now - executions[i].started > AbandonAfter]_vars

\* Without a failed operation and without a crash no execution is left open:
\* on every path through the handlers, also a cancelled one, the handler that
\* admitted it is still there to settle it.
OpenHasOwner ==
    Faultless =>
        \A i \in DOMAIN executions :
            executions[i].status \in OpenStatus =>
                \E c \in Callers : Drives(c, i) /\ Working(c)

\* Every request is answered: no path through a handler gets stuck, whatever
\* the sweep, the prunes of others and failed operations do to its row.
HandlerReturns == \A c \in Callers : job[c] # NoJob ~> job[c] = NoJob

IsOpen(i) == i \in DOMAIN executions /\ executions[i].status \in OpenStatus
IsTerminal(i) == i \in DOMAIN executions /\ Terminal(executions[i])

\* Without failures and crashes what is admitted settles.
AdmittedSettles ==
    \A i \in 1 .. MaxAdmissions : IsOpen(i) ~> IsTerminal(i)

\* "Cancellation must leave a coherent terminal execution record": a general
\* scan cancelled before anything of it is saved settles, as cancelled or
\* failed and never as evidence.  (In hand at `persist`, the last poll is past.)
CancelStopsScan ==
    \A i \in 1 .. MaxAdmissions :
        /\ \E c \in Callers :
             /\ Drives(c, i) /\ Working(c) /\ ~At(c, "persist")
             /\ job[c].cancelled /\ job[c].plan.class = "general"
        /\ \A x \in Components : <<i, x>> \notin runs
        ~> IsTerminal(i) /\ executions[i].status \in {"cancelled", "failed"}

\* An execution that a crash or a failed operation left open is gone in the
\* end: the key it blocks is freed.  (Within the bound of the clock.)
AbandonedIsSwept ==
    \A i \in 1 .. MaxAdmissions :
        IsOpen(i) /\ executions[i].started < MaxClock - AbandonAfter
            ~> ~IsOpen(i)
=============================================================================
