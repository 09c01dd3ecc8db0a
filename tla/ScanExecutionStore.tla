------------------------- MODULE ScanExecutionStore -------------------------
(***************************************************************************)
(* The scan_executions table and the statements that read and write it:    *)
(* db/scan_executions.rs, db/scan_retention.rs and the abandoned-execution *)
(* statement of db/retention.rs.                                           *)
(*                                                                         *)
(* A table is a function from the ids of its rows to the rows.  The        *)
(* statements run one at a time on the database worker, each in one        *)
(* transaction, so each is an operator from a table to the next table,     *)
(* with the condition under which it changes a row beside it.  The module  *)
(* has no variables.                                                       *)
(*                                                                         *)
(* A plan stands for a validated request and for its fingerprint, which    *)
(* hashes all of it: two requests have one plan iff their fingerprints are *)
(* equal.                                                                  *)
(***************************************************************************)
EXTENDS Integers, FiniteSets

CONSTANTS
    Keys,         \* idempotency keys
    Plans,        \* validated plans
    NotCompleted, \* the NULL completed_at
    RetryWindow,  \* SCAN_IDEMPOTENCY_RETRY_WINDOW_SECS, in clock ticks
    AbandonAfter, \* ABANDONED_SCAN_EXECUTION_RETENTION_DAYS, in clock ticks
    Keep          \* the scan retention, clamped to 1 .. MAX_SCAN_RETENTION

Components == {"web", "code"}

\* "none" is the NULL of a component that the mode does not ask for.
ComponentStatus ==
    {"planned", "running", "complete", "failed", "cancelled", "skipped", "none"}
OpenStatus == {"planned", "running"}
TerminalStatus == {"complete", "partial", "failed", "cancelled"}
ExecutionStatus == OpenStatus \cup TerminalStatus

Classes == {"general", "verification"}

\* What validate_plan and run_bounded_web_verification can produce: a
\* collector is planned, skipped for want of a target, or not asked for;
\* at least one is planned; a verification plans the web collector alone.
ASSUME ScanExecutionAssumption ==
    /\ \A p \in Plans :
         /\ p.class \in Classes
         /\ p.component \in [Components -> {"planned", "skipped", "none"}]
         /\ \E c \in Components : p.component[c] = "planned"
         /\ p.class = "verification" =>
              p.component = [c \in Components |->
                               IF c = "web" THEN "planned" ELSE "none"]
    /\ RetryWindow \in Nat /\ AbandonAfter \in Nat /\ Keep \in Nat \ {0}
    /\ NotCompleted \notin Nat

Row == [key : Keys, plan : Plans,
        status : ExecutionStatus,
        component : [Components -> ComponentStatus],
        detail : [Components -> BOOLEAN],        \* web_detail, code_detail set
        started : Nat, completed : Nat \cup {NotCompleted}]

-----------------------------------------------------------------------------
(* admit_scan_execution                                                    *)

Holds(row, k) == row.key = k
\* Mutant of Held: an open row does not hold its key.
HeldBySettled(T, k) ==
    \E i \in DOMAIN T : Holds(T[i], k) /\ T[i].status \in TerminalStatus

Held(T, k) == \E i \in DOMAIN T : Holds(T[i], k)

\* Mutant of Answers: the fingerprints are not compared.
AnswersAnyPlan(row, k, p, now) ==
    /\ Holds(row, k)
    /\ \/ row.status \in OpenStatus
       \/ row.completed # NotCompleted /\ now - row.completed <= RetryWindow

\* A row that answers a repeated request: same fingerprint, and still open or
\* settled no longer than the retry window ago.
Answers(row, k, p, now) ==
    /\ Holds(row, k)
    /\ row.plan = p
    /\ \/ row.status \in OpenStatus
       \/ row.completed # NotCompleted /\ now - row.completed <= RetryWindow

\* The row inserted for a key that no row holds.  A skipped collector carries
\* the reason it was skipped, a verification the set of its checks.
NewRow(k, p, now) ==
    [key |-> k, plan |-> p, status |-> "planned",
     component |-> p.component,
     detail |-> [c \in Components |->
                   \/ p.component[c] = "skipped"
                   \/ p.class = "verification" /\ c = "web"],
     started |-> now, completed |-> NotCompleted]

Insert(T, i, row) == [j \in DOMAIN T \cup {i} |-> IF j = i THEN row ELSE T[j]]

Set(T, i, row) == [T EXCEPT ![i] = row]

-----------------------------------------------------------------------------
(* start_scan_execution_component                                          *)

CanStart(T, i, c) ==
    /\ i \in DOMAIN T
    /\ T[i].component[c] = "planned"
    /\ T[i].status \in OpenStatus

Started(T, i, c) ==
    Set(T, i, [T[i] EXCEPT !.status = "running", !.component[c] = "running"])

(* finish_scan_execution_component                                         *)

CanFinish(T, i) == i \in DOMAIN T /\ T[i].status \in OpenStatus

\* Mutant of Unsettled: a cancelled component does not count as settled.
UnsettledIfCancelled(component) ==
    \E c \in Components : component[c] \in OpenStatus \cup {"cancelled"}

Unsettled(component) == \E c \in Components : component[c] \in OpenStatus

\* Mutant of Outcome: one completed component completes the execution.
OutcomeOfAny(component, detail) ==
    LET In(s) == {c \in Components : component[c] = s} IN
    IF In("complete") # {} THEN "complete"
      ELSE IF In("cancelled") # {} /\ In("failed") = {}
             THEN "cancelled" ELSE "failed"

\* The status of an execution whose collectors have all settled.
Outcome(component, detail) ==
    LET In(s) == {c \in Components : component[c] = s} IN
    IF In("complete") # {}
      THEN IF In("failed") \cup In("cancelled") = {}
                /\ \A c \in In("complete") : ~detail[c]
             THEN "complete" ELSE "partial"
      ELSE IF In("cancelled") # {} /\ In("failed") = {}
             THEN "cancelled" ELSE "failed"

Finished(T, i, c, result, det, now) ==
    LET component == [T[i].component EXCEPT ![c] = result]
        detail == [T[i].detail EXCEPT ![c] = det]
        row == [T[i] EXCEPT !.component = component, !.detail = detail]
    IN  Set(T, i, IF Unsettled(component) THEN row
                  ELSE [row EXCEPT !.status = Outcome(component, detail),
                                   !.completed = now])

(* cancel_scan_execution_before_start                                      *)

CanCancel(T, i) == i \in DOMAIN T /\ T[i].status = "planned"

CancelledRow(row, now) ==
    [row EXCEPT !.status = "cancelled", !.completed = now,
                !.component = [c \in Components |->
                    IF row.component[c] = "planned" THEN "cancelled"
                                                    ELSE row.component[c]]]

Cancelled(T, i, now) == Set(T, i, CancelledRow(T[i], now))

-----------------------------------------------------------------------------
(* prune_scan_executions_for_scope and run_retention_sweep                 *)

Delete(T, S) == [i \in DOMAIN T \ S |-> T[i]]

Terminal(row) == row.status \in TerminalStatus

\* Two rows of one retention window: the scope and the retention class agree.
SameWindow(r, s) == r.plan.scope = s.plan.scope /\ r.plan.class = s.plan.class

\* i is ranked before j in their window: ORDER BY started_at DESC, id DESC.
Newer(T, i, j) ==
    \/ T[i].started > T[j].started
    \/ T[i].started = T[j].started /\ i > j

NewerInWindow(T, i) ==
    {j \in DOMAIN T :
        Terminal(T[j]) /\ SameWindow(T[j], T[i]) /\ Newer(T, j, i)}

\* Mutant of Pruned: one rank over both windows of the scope.
PrunedAcrossWindows(T, p) ==
    {i \in DOMAIN T :
        /\ Terminal(T[i])
        /\ T[i].plan.scope = p.scope
        /\ Cardinality({j \in DOMAIN T :
             Terminal(T[j]) /\ T[j].plan.scope = p.scope /\ Newer(T, j, i)})
             >= Keep}

\* The rows the prune of a scope removes.  A general scan prunes both windows
\* of its scope, a bounded verification only the window of verifications.
Pruned(T, p) ==
    {i \in DOMAIN T :
        /\ Terminal(T[i])
        /\ T[i].plan.scope = p.scope
        /\ p.class = "verification" => T[i].plan.class = "verification"
        /\ Cardinality(NewerInWindow(T, i)) >= Keep}

\* Mutant of Abandoned: only running rows are taken for abandoned.
AbandonedRunning(T, now) ==
    {i \in DOMAIN T :
        T[i].status = "running" /\ T[i].started < now - AbandonAfter}

\* The open rows the daily sweep takes for abandoned.
Abandoned(T, now) ==
    {i \in DOMAIN T :
        T[i].status \in OpenStatus /\ T[i].started < now - AbandonAfter}
=============================================================================
