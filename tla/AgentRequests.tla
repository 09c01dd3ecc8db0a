---------------------------- MODULE AgentRequests ----------------------------
(***************************************************************************)
(* The queue through which coding agents ask the desktop for a fix attempt *)
(* or a scan: db/agent_requests.rs, background/agent_request_watcher.rs    *)
(* and, for the inserts, db_agent_requests.ts of the MCP server.           *)
(*                                                                         *)
(* The MCP server inserts rows from a process of its own.  One watcher     *)
(* loop claims them: fix requests are fulfilled in the loop, scans each on *)
(* a task that outlives the tick.  The loop runs under a supervisor, which *)
(* starts it again when it panics; its tasks live on.                      *)
(*                                                                         *)
(* Every statement is one operation of the database worker.  It may be     *)
(* refused, or its answer may be lost (the operation then happened and the *)
(* watcher sees an error).  Where an error changes nothing but the log,    *)
(* a lost answer is the operation itself.                                  *)
(***************************************************************************)
EXTENDS Integers

CONSTANTS
    Expiry,       \* AGENT_REQUEST_EXPIRY_MS, in clock ticks
    MaxRequests,  \* bound: requests ever inserted
    MaxClock,     \* bound: the clock
    MaxFaults,    \* bound: operations that fail
    MaxCrashes,   \* bound: ends of the process
    MaxPanics     \* bound: panics of the loop or of a scan's task

ASSUME AgentRequestsAssumption ==
    Expiry \in Nat /\ MaxRequests \in Nat

Ids == 1 .. MaxRequests
Kinds == {"start_fix", "run_scan"}
Terminal == {"fulfilled", "failed", "expired"}
Status == {"absent", "requested", "running"} \cup Terminal

VARIABLES
    requests,     \* the table: a row per id, "absent" before its insert
    watcher,      \* the locals of the loop
    tasks,        \* per scan: where its task is
    now,          \* the wall clock
    done,         \* fix attempts created, scans that ran to their end
    starts,       \* history: how often the work of a request was begun
    claimedAt,    \* history: the clock when a request was last claimed
    faults, crashes, panics

bounds == <<faults, crashes, panics>>
history == <<starts, claimedAt>>
vars == <<requests, watcher, tasks, now, done, history, bounds>>

Row == [kind : Kinds, status : Status, updated : Nat]
PC == {"reconcile", "failing", "tick", "expire", "list", "probe", "claim",
       "fulfil", "settle"}
TaskPC == {"none", "scanning", "ok", "error"}

\* `todo` are the rows still to fail or to claim, `claimed` those to fulfil,
\* `at` the clock the loop read, `outcome` that of the fix request in hand.
Watcher == [pc : PC, todo : SUBSET Ids, claimed : SUBSET Ids,
            scanRunning : BOOLEAN, at : Nat, outcome : {"ok", "error"}]

Restarted(pc) == [pc |-> pc, todo |-> {}, claimed |-> {},
                  scanRunning |-> FALSE, at |-> 0, outcome |-> "ok"]

Init ==
    /\ requests = [i \in Ids |->
                     [kind |-> "run_scan", status |-> "absent", updated |-> 0]]
    /\ watcher = Restarted("reconcile")
    /\ tasks = [i \in Ids |-> "none"]
    /\ now = 0 /\ done = {}
    /\ starts = [i \in Ids |-> 0] /\ claimedAt = [i \in Ids |-> 0]
    /\ faults = 0 /\ crashes = 0 /\ panics = 0

-----------------------------------------------------------------------------
At(p) == watcher.pc = p
Goto(p) == watcher' = [watcher EXCEPT !.pc = p]
First(S, i) == i \in S /\ \A j \in S : i <= j

Open(i) == requests[i].status \in {"requested", "running"}
Running(i) == requests[i].status = "running"
IsScan(i) == requests[i].kind = "run_scan"

Fault ==
    /\ faults < MaxFaults /\ faults' = faults + 1
    /\ UNCHANGED <<crashes, panics>>
NoFault == UNCHANGED bounds
Answer(ok) == IF ok THEN NoFault ELSE Fault

\* createAgentRequest, in the MCP server.
Insert(i, kind) ==
    /\ requests[i].status = "absent"
    /\ \A j \in Ids : j < i => requests[j].status # "absent"
    /\ requests' = [requests EXCEPT ![i] =
                      [kind |-> kind, status |-> "requested", updated |-> now]]
    /\ UNCHANGED <<watcher, tasks, now, done, history, bounds>>

\* Mutant of Settled: the statement is not guarded on the status.
SettledAnyway(i, status) ==
    [requests EXCEPT ![i].status = status, ![i].updated = now]

\* fulfil_agent_request and fail_agent_request: no error when the row is
\* settled already, and no change.
Settled(i, status) ==
    IF Open(i) THEN [requests EXCEPT ![i].status = status, ![i].updated = now]
               ELSE requests

-----------------------------------------------------------------------------
(* reconcile_orphaned_requests, when the loop starts                       *)

\* Mutant of ReconcileList: nothing is taken for abandoned.
ReconcileNothing ==
    /\ At("reconcile")
    /\ Goto("tick")
    /\ UNCHANGED <<requests, tasks, now, done, history, bounds>>

ReconcileList ==
    /\ At("reconcile")
    /\ watcher' = [watcher EXCEPT !.pc = "failing",
                                  !.todo = {i \in Ids : Running(i)}]
    /\ UNCHANGED <<requests, tasks, now, done, history, bounds>>

\* Mutant of ReconcileFail: abandoned rows are queued again.
ReconcileRequeues(i) ==
    /\ At("failing")
    /\ First(watcher.todo, i)
    /\ requests' = [requests EXCEPT ![i].status = "requested"]
    /\ watcher' = [watcher EXCEPT !.todo = @ \ {i}]
    /\ UNCHANGED <<tasks, now, done, history, bounds>>

ReconcileFail(i) ==
    /\ At("failing")
    /\ First(watcher.todo, i)
    /\ requests' = Settled(i, "failed")
    /\ watcher' = [watcher EXCEPT !.todo = @ \ {i}]
    /\ UNCHANGED <<tasks, now, done, history, bounds>>

Reconciled ==
    /\ At("failing")
    /\ watcher.todo = {}
    /\ Goto("tick")
    /\ UNCHANGED <<requests, tasks, now, done, history, bounds>>

\* The first error ends the reconciliation; the loop starts all the same.
ReconcileStops ==
    /\ At("reconcile") \/ (At("failing") /\ watcher.todo # {})
    /\ \/ requests' = requests
       \/ \E i \in watcher.todo :
            First(watcher.todo, i) /\ requests' = Settled(i, "failed")
    /\ watcher' = Restarted("tick")
    /\ Fault
    /\ UNCHANGED <<tasks, now, done, history>>

-----------------------------------------------------------------------------
(* tick                                                                    *)

TickBegins ==
    /\ At("tick")
    /\ watcher' = [Restarted("expire") EXCEPT !.at = now]
    /\ UNCHANGED <<requests, tasks, now, done, history, bounds>>

\* Mutant of Stale: running rows do not expire.
StaleRequested(i) ==
    requests[i].status = "requested" /\ requests[i].updated < watcher.at - Expiry

Stale(i) == Open(i) /\ requests[i].updated < watcher.at - Expiry

\* expire_stale_agent_requests; refused, it is only logged.
Expire(ok) ==
    /\ At("expire")
    /\ requests' = [i \in Ids |->
                      IF ok /\ Stale(i)
                        THEN [requests[i] EXCEPT !.status = "expired",
                                                 !.updated = watcher.at]
                        ELSE requests[i]]
    /\ Goto("list")
    /\ Answer(ok)
    /\ UNCHANGED <<tasks, now, done, history>>

\* list_agent_requests_in_status; unread, the queue is taken for empty.  Then
\* the clock is read once for all claims.
List(ok) ==
    /\ At("list")
    /\ watcher' = [watcher EXCEPT
         !.pc = "probe", !.at = now,
         !.todo = IF ok THEN {i \in Ids : requests[i].status = "requested"}
                        ELSE {}]
    /\ Answer(ok)
    /\ UNCHANGED <<requests, tasks, now, done, history>>

\* Mutant of Probe: an unreadable probe lets scans pass.
ProbeOpen(ok) ==
    /\ At("probe")
    /\ watcher' = [watcher EXCEPT
         !.pc = "claim",
         !.scanRunning = ok /\ \E i \in Ids : Running(i) /\ IsScan(i)]
    /\ Answer(ok)
    /\ UNCHANGED <<requests, tasks, now, done, history>>

\* has_running_scan; unread, a scan is taken to be running.
Probe(ok) ==
    /\ At("probe")
    /\ watcher' = [watcher EXCEPT
         !.pc = "claim",
         !.scanRunning = ~ok \/ \E i \in Ids : Running(i) /\ IsScan(i)]
    /\ Answer(ok)
    /\ UNCHANGED <<requests, tasks, now, done, history>>

Skip(i) ==
    /\ At("claim")
    /\ First(watcher.todo, i)
    /\ watcher.scanRunning /\ IsScan(i)
    /\ watcher' = [watcher EXCEPT !.todo = @ \ {i}]
    /\ UNCHANGED <<requests, tasks, now, done, history, bounds>>

Claimable(i) ==
    /\ At("claim")
    /\ First(watcher.todo, i)
    /\ ~(watcher.scanRunning /\ IsScan(i))

\* Mutant of ClaimedRow: a claim does not touch the row's time.
ClaimedRowKeepsTime(i) == [requests[i] EXCEPT !.status = "running"]

ClaimedRow(i) ==
    [requests[i] EXCEPT !.status = "running", !.updated = watcher.at]

\* claim_agent_request.
Claim(i) ==
    /\ Claimable(i)
    /\ requests[i].status = "requested"
    /\ requests' = [requests EXCEPT ![i] = ClaimedRow(i)]
    /\ watcher' = [watcher EXCEPT !.todo = @ \ {i}, !.claimed = @ \cup {i},
                                  !.scanRunning = @ \/ IsScan(i)]
    /\ claimedAt' = [claimedAt EXCEPT ![i] = watcher.at]
    /\ UNCHANGED <<tasks, now, done, starts, bounds>>

\* The claim is refused, or happens and its answer is lost: the row is then
\* running and nobody works on it.
ClaimFails(i) ==
    /\ Claimable(i)
    /\ \/ UNCHANGED <<requests, claimedAt>>
       \/ /\ requests[i].status = "requested"
          /\ requests' = [requests EXCEPT ![i] = ClaimedRow(i)]
          /\ claimedAt' = [claimedAt EXCEPT ![i] = watcher.at]
    /\ watcher' = [watcher EXCEPT !.todo = @ \ {i}]
    /\ Fault
    /\ UNCHANGED <<tasks, now, done, starts>>

Claimed ==
    /\ At("claim")
    /\ watcher.todo = {}
    /\ Goto("fulfil")
    /\ UNCHANGED <<requests, tasks, now, done, history, bounds>>

-----------------------------------------------------------------------------
(* Fulfilment                                                              *)

Begun(i) == starts' = [starts EXCEPT ![i] = @ + 1]

\* Mutant of StartFix: an error is reported as a success.
StartFixOptimist(i, created, outcome) ==
    /\ At("fulfil")
    /\ First(watcher.claimed, i)
    /\ ~IsScan(i)
    /\ outcome = "ok" => created
    /\ done' = IF created THEN done \cup {i} ELSE done
    /\ watcher' = [watcher EXCEPT !.pc = "settle", !.outcome = "ok"]
    /\ Begun(i)
    /\ Answer(created => outcome = "ok")
    /\ UNCHANGED <<requests, tasks, now, claimedAt>>

\* fulfil_start_fix creates the attempt, or finds a reason not to; its answer
\* may be lost after the attempt was created.
StartFix(i, created, outcome) ==
    /\ At("fulfil")
    /\ First(watcher.claimed, i)
    /\ ~IsScan(i)
    /\ outcome = "ok" => created
    /\ done' = IF created THEN done \cup {i} ELSE done
    /\ watcher' = [watcher EXCEPT !.pc = "settle", !.outcome = outcome]
    /\ Begun(i)
    /\ Answer(created => outcome = "ok")
    /\ UNCHANGED <<requests, tasks, now, claimedAt>>

ResultOf(outcome) == IF outcome = "ok" THEN "fulfilled" ELSE "failed"

\* An error of the settling statement is only logged.
SettleFix(i, ok) ==
    /\ At("settle")
    /\ First(watcher.claimed, i)
    /\ requests' = IF ok THEN Settled(i, ResultOf(watcher.outcome))
                         ELSE requests
    /\ watcher' = [watcher EXCEPT !.pc = "fulfil", !.claimed = @ \ {i}]
    /\ Answer(ok)
    /\ UNCHANGED <<tasks, now, done, history>>

SpawnScan(i) ==
    /\ At("fulfil")
    /\ First(watcher.claimed, i)
    /\ IsScan(i)
    /\ tasks' = [tasks EXCEPT ![i] = "scanning"]
    /\ watcher' = [watcher EXCEPT !.claimed = @ \ {i}]
    /\ Begun(i)
    /\ UNCHANGED <<requests, now, done, claimedAt, bounds>>

TickEnds ==
    /\ At("fulfil")
    /\ watcher.claimed = {}
    /\ Goto("tick")
    /\ UNCHANGED <<requests, tasks, now, done, history, bounds>>

\* fulfil_run_scan: the scan ran to its end, whatever its status, or the
\* orchestrator returned an error.
ScanEnds(i, outcome) ==
    /\ tasks[i] = "scanning"
    /\ tasks' = [tasks EXCEPT ![i] = outcome]
    /\ done' = IF outcome = "ok" THEN done \cup {i} ELSE done
    /\ UNCHANGED <<requests, watcher, now, history, bounds>>

SettleScan(i, ok) ==
    /\ tasks[i] \in {"ok", "error"}
    /\ requests' = IF ok THEN Settled(i, ResultOf(tasks[i])) ELSE requests
    /\ tasks' = [tasks EXCEPT ![i] = "none"]
    /\ Answer(ok)
    /\ UNCHANGED <<watcher, now, done, history>>

-----------------------------------------------------------------------------
(* The environment                                                         *)

Tick ==
    /\ now < MaxClock
    /\ now' = now + 1
    /\ UNCHANGED <<requests, watcher, tasks, done, history, bounds>>

\* supervised_loop_async builds the loop anew, which reconciles again.
LoopPanics ==
    /\ panics < MaxPanics /\ panics' = panics + 1
    /\ watcher' = Restarted("reconcile")
    /\ UNCHANGED <<requests, tasks, now, done, history, faults, crashes>>

\* Nobody waits for a scan's task: its panic is not seen.
TaskPanics(i) ==
    /\ panics < MaxPanics /\ panics' = panics + 1
    /\ tasks[i] # "none"
    /\ tasks' = [tasks EXCEPT ![i] = "none"]
    /\ UNCHANGED <<requests, watcher, now, done, history, faults, crashes>>

Crash ==
    /\ crashes < MaxCrashes /\ crashes' = crashes + 1
    /\ watcher' = Restarted("reconcile")
    /\ tasks' = [i \in Ids |-> "none"]
    /\ UNCHANGED <<requests, now, done, history, faults, panics>>

-----------------------------------------------------------------------------
WatcherStep ==
    \/ ReconcileList \/ (\E i \in Ids : ReconcileFail(i)) \/ Reconciled
    \/ ReconcileStops
    \/ TickBegins
    \/ \E ok \in BOOLEAN : Expire(ok) \/ List(ok) \/ Probe(ok)
    \/ \E i \in Ids : Skip(i) \/ Claim(i) \/ ClaimFails(i)
    \/ Claimed
    \/ \E i \in Ids, created \in BOOLEAN, outcome \in {"ok", "error"} :
         StartFix(i, created, outcome)
    \/ \E i \in Ids, ok \in BOOLEAN : SettleFix(i, ok)
    \/ \E i \in Ids : SpawnScan(i)
    \/ TickEnds

TaskStep(i) ==
    \/ \E outcome \in {"ok", "error"} : ScanEnds(i, outcome)
    \/ \E ok \in BOOLEAN : SettleScan(i, ok)

Next ==
    \/ \E i \in Ids, kind \in Kinds : Insert(i, kind)
    \/ WatcherStep
    \/ \E i \in Ids : TaskStep(i)
    \/ Tick \/ LoopPanics \/ (\E i \in Ids : TaskPanics(i)) \/ Crash

Spec == Init /\ [][Next]_vars

\* The loop and the tasks are polled by the runtime, a scan returns
\* (ScanExecution, HandlerReturns), and time passes.
Fairness ==
    /\ WF_vars(WatcherStep)
    /\ \A i \in Ids : WF_vars(TaskStep(i))
    /\ WF_vars(Tick)

FairSpec == Spec /\ Fairness

-----------------------------------------------------------------------------
(* Properties                                                              *)

TypeOK ==
    /\ requests \in [Ids -> Row]
    /\ watcher \in Watcher
    /\ tasks \in [Ids -> TaskPC]
    /\ now \in Nat
    /\ done \subseteq Ids
    /\ starts \in [Ids -> Nat]
    /\ claimedAt \in [Ids -> Nat]
    /\ faults \in Nat /\ crashes \in Nat /\ panics \in Nat

\* A scan that was claimed and has not come to its end.
InFlight(i) == IsScan(i) /\ (i \in watcher.claimed \/ tasks[i] # "none")

\* "Scans are serialized on the queue itself" (claim_due_requests): of the
\* scans in flight at most one has its row still running, whatever fails,
\* panics or expires.
ScansAreSerialized ==
    \A i, j \in Ids :
        InFlight(i) /\ Running(i) /\ InFlight(j) /\ Running(j) => i = j

\* "A settled request is never rewritten" (settle): not by a late task, not by
\* the expiry, not by the reconciliation of a restarted loop.
SettledIsFinal ==
    [][\A i \in Ids :
         requests[i].status \in Terminal => requests'[i] = requests[i]]_vars

\* The work of a request is begun at most once: after a panic or a crash the
\* request is failed and not tried again (ORPHANED_REQUEST_DETAIL).
RequestRunsOnce == \A i \in Ids : starts[i] <= 1

\* A request is reported fulfilled only when its attempt was created or its
\* scan came to an end.
FulfilledWasDone ==
    \A i \in Ids : requests[i].status = "fulfilled" => i \in done

\* A claimed request has the whole expiry window from its claim, however long
\* it waited in the queue.
ExpiryCountsFromClaim ==
    [][\A i \in Ids :
         Running(i) /\ requests'[i].status = "expired"
            => now - claimedAt[i] > Expiry]_vars

\* Without failed operations and panics every request settles, also across an
\* end of the process, and however many scans wait in the queue.
EveryRequestSettles ==
    \A i \in Ids :
        Open(i) ~> requests[i].status \in Terminal \/ faults > 0 \/ panics > 0

\* A row left running by a lost claim, a refused settlement or the panic of
\* its task does not block the queue for ever.  (Within the bound of the clock.)
StuckRequestExpires ==
    \A i \in Ids :
        Running(i) /\ requests[i].updated < MaxClock - Expiry
            ~> requests[i].status \in Terminal

\* claim_due_requests, "a scan claimed on an earlier tick is still `running`,
\* so the table bounds concurrency over time": two scans are never in flight.
\* They are, once the row of the first has expired or was failed by a restart.
OneScanAtATime ==
    \A i, j \in Ids : InFlight(i) /\ InFlight(j) => i = j
=============================================================================
