------------------------------ MODULE PageScan ------------------------------
(***************************************************************************)
(* A web scan of several pages: commands/scan/multi_scan.rs and its        *)
(* page_loop.rs, the runs it writes (db/scan_runs.rs), the coverage they   *)
(* claim (engine coverage.rs, core/normalized_scan.rs) and what they do to *)
(* the open work items (db/scan_run_projection.rs).                        *)
(*                                                                         *)
(* One check of the pages and one of the whole set are modelled: what is   *)
(* done for a check does not depend on the others.  The selected page p    *)
(* has route p and may redirect to any other.  A work item is known by its *)
(* route; the one of the whole set has none.                               *)
(*                                                                         *)
(* A database operation succeeds, is refused, or is done and its answer    *)
(* lost: one that timed out is still done by the worker, before whatever   *)
(* this handler asks for next.  An end of the process only stops this task, so it is left out:   *)
(* what holds in every state holds where it stops.                         *)
(***************************************************************************)
EXTENDS Integers, FiniteSets

CONSTANTS
    Selected,   \* how many pages are selected
    Routes,     \* how many routes the site has
    MaxFaults   \* bound: database operations that fail

Pages == 1 .. Selected
Route == 1 .. Routes
NoRoute == 0
Verdict == {"fail", "pass", "skipped", "notRun"}

VARIABLES
    open,       \* routes of the open work items, NoRoute for the set's
    parent,     \* the run of the session
    children,   \* the runs of the pages
    pc,         \* where the handler is
    page,       \* the page in hand
    output,     \* what its scan returned
    loop,       \* PageLoopOutcome: status, pages persisted and signals
    cancelled,  \* what is_cancelled answers
    faults

tables == <<open, parent, children>>
vars == <<tables, pc, page, output, loop, cancelled, faults>>

RunStatus == {"none", "running", "complete", "failed", "cancelled"}
Final == {"complete", "failed", "cancelled"}
Parent == [status : RunStatus, completed : 0 .. Selected, scored : BOOLEAN]
Output == [lands : Route, verdict : Verdict, browser : BOOLEAN, signal : BOOLEAN]
NoOutput == [lands |-> 1, verdict |-> "notRun", browser |-> TRUE, signal |-> FALSE]
LoopStatus == {"Complete", "Partial", "Failed", "Cancelled"}
Loop == [status : LoopStatus, persisted : 0 .. Selected, signals : 0 .. Selected]
PC == {"start", "snapshot", "poll", "scan", "persist", "progress", "ended",
       "counts", "abort", "over", "noSession"}

\* Earlier scans left any items open.
Init ==
    /\ open \in SUBSET (Route \cup {NoRoute})
    /\ parent = [status |-> "none", completed |-> 0, scored |-> FALSE]
    /\ children = [p \in Pages |-> "none"]
    /\ pc = "start" /\ page = 1 /\ output = NoOutput
    /\ loop = [status |-> "Complete", persisted |-> 0, signals |-> 0]
    /\ cancelled = FALSE /\ faults = 0

-----------------------------------------------------------------------------
(* Coverage                                                                *)

\* ScanCoverageManifest::derive, for one check.
Derive(routes, outcomes, complete) ==
    [successful |-> TRUE, routes |-> routes, claims |-> outcomes # {},
     excepted |-> {o.route : o \in {x \in outcomes : x.verdict = "skipped"}}
                  \cup IF complete \/ outcomes = {} THEN {} ELSE {NoRoute}]

\* ScanCoverageManifest::covers.
Covers(coverage, route) ==
    /\ coverage.successful /\ coverage.claims
    /\ NoRoute \notin coverage.excepted
    /\ \E r \in coverage.routes \ coverage.excepted : route \in {r, NoRoute}

\* reconcile_scan_projection over the items of the producer.
Reconciled(items, coverage, observed) ==
    (open \cup observed)
        \ {r \in (open \cap items) \ observed : Covers(coverage, r)}

\* Mutant of OnRoutes: outcomes are those of the page that answered.
OnEffectiveRoute(p, out) ==
    IF out.verdict = "notRun" THEN {}
    ELSE {[route |-> out.lands, verdict |-> out.verdict]}

\* batch_outcomes_on_routes: of the authored and of the effective route.
OnRoutes(p, out) ==
    IF out.verdict = "notRun" THEN {}
    ELSE {[route |-> r, verdict |-> out.verdict] : r \in {p, out.lands}}

PageCoverage(p, out) ==
    [Derive({p, out.lands}, OnRoutes(p, out), TRUE) EXCEPT !.successful = out.browser]

\* Of the parent: the verdict is the set's and counts only for all of it.
ParentCoverage(analyzed, verdict) ==
    [Derive(Pages, IF verdict = "notRun" THEN {}
                   ELSE {[route |-> NoRoute, verdict |-> verdict]},
            loop.persisted = Selected)
     EXCEPT !.successful = analyzed /\ loop.status = "Complete"]

-----------------------------------------------------------------------------
At(p) == pc = p
Fault == faults < MaxFaults /\ faults' = faults + 1
NoFault == UNCHANGED faults

\* Where the handler goes on, and when an operation fails.
Reply(ok, next) == IF ok THEN pc' = next /\ NoFault ELSE pc' = "abort" /\ Fault

\* start_multi_page_scan_run.  An error leaves the handler before the block that
\* would fail the run, and without its id.
Start ==
    /\ At("start")
    /\ \E done, ok \in BOOLEAN :
         /\ ok => done
         /\ parent' = IF done THEN [parent EXCEPT !.status = "running"] ELSE parent
         /\ IF ok THEN pc' = "snapshot" /\ NoFault ELSE pc' = "noSession" /\ Fault
    /\ UNCHANGED <<open, children, page, output, loop, cancelled>>

\* load_active_issue_group_ids.
Snapshot ==
    /\ At("snapshot")
    /\ \E ok \in BOOLEAN : Reply(ok, "poll")
    /\ UNCHANGED <<tables, page, output, loop, cancelled>>

\* run_page_loop, at the top of an iteration.
Poll ==
    /\ At("poll") /\ page \in Pages
    /\ IF cancelled THEN pc' = "ended" /\ loop' = [loop EXCEPT !.status = "Cancelled"]
                    ELSE pc' = "scan" /\ UNCHANGED loop
    /\ UNCHANGED <<tables, page, output, cancelled, faults>>

\* Mutant of Partially: a page without its browser layer is a page.
PartiallyNever(status) == status

Partially(status) == IF status = "Complete" THEN "Partial" ELSE status

\* scan_page: the scan and its browser layer.
PageScanned ==
    /\ At("scan")
    /\ output' \in Output /\ pc' = "persist"
    /\ UNCHANGED <<tables, page, loop, cancelled, faults>>

PageErrs ==
    /\ At("scan")
    /\ loop' = [loop EXCEPT !.status = Partially(@)]
    /\ page' = page + 1 /\ pc' = "poll"
    /\ UNCHANGED <<tables, output, cancelled, faults>>

PageCancelled ==
    /\ At("scan") /\ cancelled
    /\ loop' = [loop EXCEPT !.status = "Cancelled"] /\ pc' = "ended"
    /\ UNCHANGED <<tables, page, output, cancelled, faults>>

\* persist_multi_page_blocking: the child, its findings and the projection in
\* one transaction ...
Observed(out) == IF out.verdict = "fail" THEN {out.lands} ELSE {}

PersistPage ==
    /\ At("persist")
    /\ \E done, ok \in BOOLEAN :
         /\ ok => done
         /\ IF done
              THEN /\ children' = [children EXCEPT ![page] =
                         IF output.browser THEN "complete" ELSE "failed"]
                   /\ open' = Reconciled(Route, PageCoverage(page, output), Observed(output))
              ELSE UNCHANGED <<children, open>>
         /\ Reply(ok, "progress")
    /\ UNCHANGED <<parent, page, output, loop, cancelled>>

\* ... and then the progress of the parent, while it runs.
Completed == loop.persisted + 1

Progress ==
    /\ At("progress")
    /\ \E done, ok \in BOOLEAN :
         /\ ok => done
         /\ parent' = IF done /\ parent.status = "running"
                      THEN [parent EXCEPT !.completed = Completed] ELSE parent
         /\ Reply(ok, "poll")
         /\ IF ok THEN /\ loop' = [status |-> IF output.browser THEN loop.status
                                              ELSE Partially(loop.status),
                                   persisted |-> loop.persisted + 1,
                                   signals |-> loop.signals + IF output.signal THEN 1 ELSE 0]
                       /\ page' = page + 1
                  ELSE UNCHANGED <<loop, page>>
    /\ output' = NoOutput
    /\ UNCHANGED <<open, children, cancelled>>

LoopEnds ==
    /\ At("poll") /\ page \notin Pages
    /\ loop' = IF loop.persisted = 0 THEN [loop EXCEPT !.status = "Failed"] ELSE loop
    /\ pc' = "ended"
    /\ UNCHANGED <<tables, page, output, cancelled, faults>>

\* should_analyze_session.
Analyzed ==
    /\ loop.status \in {"Complete", "Partial"}
    /\ Selected >= 2 /\ loop.signals = Selected

ParentStatus ==
    CASE loop.status = "Complete" -> "complete"
      [] loop.status = "Cancelled" -> "cancelled"
      [] OTHER -> "failed"

\* complete_multi_page_scan_run, whatever the run's status is by then.
CompleteParent ==
    /\ At("ended")
    /\ \E done, ok \in BOOLEAN :
       \E verdict \in IF Analyzed THEN Verdict ELSE {"notRun"} :
         /\ ok => done
         /\ IF done
              THEN /\ parent' = [status |-> ParentStatus, completed |-> loop.persisted,
                                 scored |-> loop.status = "Complete" /\ loop.persisted > 0]
                   /\ open' = Reconciled({NoRoute}, ParentCoverage(Analyzed, verdict),
                                         IF verdict = "fail" THEN {NoRoute} ELSE {})
              ELSE UNCHANGED <<parent, open>>
         /\ Reply(ok, "counts")
    /\ UNCHANGED <<children, page, output, loop, cancelled>>

\* The issue counts for the answer, and an error for a session without one.
Counts ==
    /\ At("counts")
    /\ \E ok \in BOOLEAN :
         Reply(ok, IF loop.status \in {"Cancelled", "Failed"} THEN "abort" ELSE "over")
    /\ UNCHANGED <<tables, page, output, loop, cancelled>>

\* Mutant of FailRun: the update is not guarded.
FailRunAnyway(run) == [run EXCEPT !.status = "failed"]

\* fail_scan_run.
FailRun(run) == IF run.status = "running" THEN [run EXCEPT !.status = "failed"] ELSE run

\* An error of the session marks the parent; that this failed is only logged.
Abort ==
    /\ At("abort") /\ pc' = "over"
    /\ \/ parent' = FailRun(parent) /\ NoFault
       \/ parent' \in {parent, FailRun(parent)} /\ Fault
    /\ UNCHANGED <<open, children, page, output, loop, cancelled>>

\* cancel_scan, at any time.
Cancel ==
    /\ ~cancelled /\ pc \notin {"over", "noSession"} /\ cancelled' = TRUE
    /\ UNCHANGED <<tables, pc, page, output, loop, faults>>

Step ==
    \/ Start \/ Snapshot \/ Poll \/ PageScanned \/ PageErrs \/ PageCancelled
    \/ PersistPage \/ Progress \/ LoopEnds \/ CompleteParent \/ Counts \/ Abort

Next == Step \/ Cancel

Spec == Init /\ [][Next]_vars
FairSpec == Spec /\ WF_vars(Step)

-----------------------------------------------------------------------------
TypeOK ==
    /\ open \subseteq Route \cup {NoRoute}
    /\ parent \in Parent /\ children \in [Pages -> {"none", "complete", "failed"}]
    /\ pc \in PC /\ page \in 1 .. Selected + 1
    /\ output \in Output /\ loop \in Loop
    /\ cancelled \in BOOLEAN /\ faults \in 0 .. MaxFaults

AllComplete == \A p \in Pages : children[p] = "complete"

\* An item of a page is resolved only by a page scan that had its browser
\* layer, ran the check ("Pass, fail, and warn prove execution" in the engine's
\* coverage.rs), and did not find the defect there again; a check that was
\* skipped, or did not run on this page, leaves its items open, and a page that
\* redirects speaks for its own route and the one it leads to and no other.
\* The item of the whole set is resolved only by a session whose every page
\* has a complete run ("Cross-page checks require a complete route set for
\* resolution").
ResolvedWasSeenAbsent ==
    [][/\ \A r \in Route \cap (open \ open') :
             /\ At("persist") /\ output.browser /\ output.verdict \in {"pass", "fail"}
             /\ output.verdict = "fail" => r # output.lands
             /\ r \in {page, output.lands}
       /\ NoRoute \in open \ open' => AllComplete /\ parent'.status = "complete"]_vars

\* A complete session stands for a complete run of every selected page, only a
\* complete one has a score, however pages failed, were cancelled or could not
\* be stored, and the progress never counts a run that is not there ("the
\* number of successfully persisted child runs, not the selected-page index").
ParentIsBacked ==
    /\ parent.status = "complete" => AllComplete
    /\ parent.scored => parent.status = "complete"
    /\ parent.completed <= Cardinality({p \in Pages : children[p] # "none"})

\* A session that was started is settled, and settled once, although
\* completing it does not look at its status and an error after that goes on to
\* fail it.  It stays running only when the operation that was to fail it failed
\* too, or when the answer to its start was lost: then nobody has its id.
ParentSettles ==
    /\ [][parent.status \in Final => parent'.status = parent.status]_vars
    /\ parent.status = "running" ~>
          parent.status \in Final \/ faults >= 2 \/ At("noSession")
=============================================================================
