----------------------------- MODULE FixAttempts -----------------------------
(***************************************************************************)
(* Fix attempts: db/fix_attempts.rs, commands/fix_attempts.rs, the tools   *)
(* of the MCP server in db_fix_attempts.ts, the watcher that verifies      *)
(* attempts (background/fix_attempt_watcher.rs) and, in commands/          *)
(* issues.rs, the verification both it and the user ask for.               *)
(*                                                                         *)
(* One check of one project is modelled, with the defects it finds in one  *)
(* file (or on one site) and the lines they are at.  What scans see is     *)
(* copied at one step and written to the work items at a later one.        *)
(* Besides the watcher there is one other scan at a time, in the           *)
(* background or for the user's "verify".                                  *)
(*                                                                         *)
(* Clocks are ages: how long ago a row was written, up to a bound past the *)
(* longest wait.  The watcher polls every five seconds and a unit of time  *)
(* is ten minutes: while the application runs the clock moves only when    *)
(* the watcher has ticked and sleeps.  Closed, it moves freely.            *)
(***************************************************************************)
EXTENDS Integers, FiniteSets, IssueStore

CONSTANTS
    Defects,      \* what the check would report
    Lines,        \* where in the file a defect can be
    Kinds,        \* which kinds of check to consider, a subset of Kind
    UserDecides,  \* which decisions the user makes, a subset of Decisions
    Grace,        \* INTEGRATION_GRACE_MS
    Recheck,      \* DEPLOY_RECHECK_INTERVAL_MS
    Expiry,       \* FIX_ATTEMPT_EXPIRY_MS = REMOTE_WEB_DEPLOY_WAIT_MS
    MaxAttempts,  \* bound: attempts ever created
    MaxEdits,     \* bound: changes to the code
    MaxOthers,    \* bound: scans of others
    MaxFaults,    \* bound: operations that fail
    MaxCrashes    \* bound: ends of the application

\* How a check is verified: by a code scan, by a web scan of a local or of a
\* remote site, or by an integration that is asked to poll.
Kind == {"code", "local", "remote", "polled"}

ASSUME FixAttemptsAssumption ==
    /\ Lines \subseteq Nat \ {0} /\ Kinds \subseteq Kind
    /\ UserDecides \subseteq Decisions
    /\ IsFiniteSet(Defects)
    /\ Grace \in Nat /\ Recheck \in Nat \ {0} /\ Expiry \in Nat
    /\ Grace < Expiry /\ Recheck <= Expiry
    /\ {MaxAttempts, MaxEdits, MaxOthers, MaxFaults, MaxCrashes} \subseteq Nat

Ids == 1 .. MaxAttempts
Old == Expiry + 1                \* every age past this is the same
Group == "group"                 \* the target that is the whole group
Active == {"briefed", "verify_requested", "verifying"}
Settled == {"verified", "verify_failed", "canceled", "expired"}

VARIABLES
    kind,         \* the kind of the check
    code,         \* per defect its line in the deployed code, 0: fixed
    open,         \* the work items: per defect its reported line, 0: resolved
    life,         \* the state of the issue group
    attempts,     \* the table
    watcher,      \* the locals of the watcher's loop
    other,        \* the other scan
    up,           \* the application runs
    ticked,       \* the watcher has ticked in this unit of time
    cleared,      \* history: some scan reported nothing
    edits, others, faults, crashes

bounds == <<edits, others, faults, crashes>>
vars == <<kind, code, open, life, attempts, watcher, other, up,
          ticked, cleared, bounds>>

Places == Lines \cup {0}
World == [Defects -> Places]
Found(w) == {d \in Defects : w[d] # 0}
AtLine(w, l) == \E d \in Found(w) : w[d] = l

\* `line` and `count` are target_line and target_occurrence_count, `aim` the
\* defect the line stood for, `quiet` and `waited` the ages of updated_at and
\* verify_started_at.
Attempt == [status : Active \cup Settled \cup {"absent"},
            target : {Group, "occurrence"}, line : Places,
            count : 0 .. Cardinality(Defects), aim : Defects \cup {Group},
            fetched : BOOLEAN, quiet : 0 .. Old, started : BOOLEAN,
            waited : 0 .. Old]
NoAttempt == [status |-> "absent", target |-> Group, line |-> 0, count |-> 0,
              aim |-> Group, fetched |-> FALSE, quiet |-> 0, started |-> FALSE,
              waited |-> 0]

\* `todo` is the rest of the list in hand, `a` the attempt in hand, `scan` what
\* the watcher's own check saw, `deduped` that a code scan of this tick was
\* written, `waits` that the check is a recheck while waiting for a deploy.
WatcherPC == {"asleep", "requested", "started", "scanned", "giveup",
              "verifying", "sources", "verified", "mark", "failed", "touch"}
Watcher == [pc : WatcherPC, todo : SUBSET Ids, a : 0 .. MaxAttempts,
            scan : World, deduped : BOOLEAN, waits : BOOLEAN]
Nothing == [d \in Defects |-> 0]
Asleep == [pc |-> "asleep", todo |-> {}, a |-> 0, scan |-> Nothing,
           deduped |-> FALSE, waits |-> FALSE]
Other == [by : {"user", "background"},
          pc : {"none", "scanned", "written", "clear"}, scan : World]
NoOther == [by |-> "background", pc |-> "none", scan |-> Nothing]

\* The check has been scanned and reports something; of the defects some may
\* be yet to come, the others are on lines of their own.
Init ==
    /\ kind \in Kinds
    /\ code \in World /\ Found(code) # {}
    /\ \A d, e \in Found(code) : d # e => code[d] # code[e]
    /\ open = code /\ life = "new" /\ cleared = FALSE
    /\ attempts = [a \in Ids |-> NoAttempt]
    /\ watcher = Asleep /\ other = NoOther
    /\ up = TRUE /\ ticked = FALSE
    /\ edits = 0 /\ others = 0 /\ faults = 0 /\ crashes = 0

-----------------------------------------------------------------------------
(* The store                                                               *)

IsActive(a) == attempts[a].status \in Active

Fault == /\ faults < MaxFaults /\ faults' = faults + 1
         /\ UNCHANGED <<edits, others, crashes>>
NoFault == UNCHANGED bounds

\* A settled row's clocks are read by nobody.
Closed(a, status) ==
    [attempts EXCEPT ![a].status = status, ![a].quiet = 0, ![a].waited = 0]

\* fix_attempt_target_active: the line is still reported, or as many as there
\* were when the attempt was created.
TargetActive(a) ==
    IF attempts[a].target = Group THEN Found(open) # {}
    ELSE \/ AtLine(open, attempts[a].line)
         \/ /\ attempts[a].count > 0
            /\ Cardinality(Found(open)) >= attempts[a].count

\* reconcile_scan_projection with what a scan saw: report, reopen, resolve.
Project(seen) ==
    /\ open' = seen
    /\ life' = IF Found(seen) = {} THEN life ELSE Reobserved(life)
    /\ cleared' = (cleared \/ Found(seen) = {})

-----------------------------------------------------------------------------
(* Users and agents                                                        *)

\* Mutant of Inserted: the attempt at the target is left alone.
InsertedBeside(a, target, line, aim, status) ==
    [attempts EXCEPT ![a] = [NoAttempt EXCEPT !.status = status,
       !.target = target, !.line = line, !.aim = aim,
       !.count = Cardinality(Found(open))]]

\* Mutant of Inserted: the target is counted on top of what is reported.
InsertedCountsTwice(a, target, line, aim, status) ==
    [attempts EXCEPT ![a] = [NoAttempt EXCEPT !.status = status,
       !.target = target, !.line = line, !.aim = aim,
       !.count = Cardinality(Found(open)) + 1]]

\* create_fix_attempt_with_target cancels the active attempt at the target and
\* inserts the new one in one transaction.
Inserted(a, target, line, aim, status) ==
    [b \in Ids |->
        IF b = a THEN [NoAttempt EXCEPT !.status = status, !.target = target,
                                        !.line = line, !.aim = aim,
                                        !.count = Cardinality(Found(open))]
        ELSE IF IsActive(b) /\ attempts[b].target = target
                            /\ attempts[b].line = line
             THEN Closed(b, "canceled")[b] ELSE attempts[b]]

\* create_fix_attempt_inner, for an issue that is shown.  When the brief could
\* not be stored the attempt is cancelled; when only the answer to the insert
\* was lost it stays.
Create(a, target, line, aim) ==
    /\ up /\ attempts[a].status = "absent"
    /\ \A b \in Ids : b < a => attempts[b].status # "absent"
    /\ \/ target = Group /\ line = 0 /\ aim = Group /\ Found(open) # {}
       \/ /\ target = "occurrence" /\ kind = "code"
          /\ aim \in Found(open) /\ line = open[aim]
    /\ \E status \in {"briefed", "canceled"} :
         /\ attempts' = Inserted(a, target, line, aim, status)
         /\ IF status = "briefed" THEN NoFault ELSE Fault
    /\ UNCHANGED <<kind, code, open, life, watcher, other, up, ticked, cleared>>

\* getFixBrief, in the MCP server: only the first fetch is recorded.
FetchBrief(a) ==
    /\ IsActive(a) /\ ~attempts[a].fetched
    /\ attempts' = [attempts EXCEPT ![a].fetched = TRUE, ![a].quiet = 0]
    /\ UNCHANGED <<kind, code, open, life, watcher, other, up, ticked, cleared,
                   bounds>>

\* requestVerification, in the MCP server.
Request(a) ==
    /\ attempts[a].status \in {"briefed", "verify_requested"}
    /\ attempts' = [attempts EXCEPT ![a].status = "verify_requested",
                                   ![a].quiet = 0]
    /\ UNCHANGED <<kind, code, open, life, watcher, other, up, ticked, cleared,
                   bounds>>

\* cancel_fix_attempt.
Cancel(a) ==
    /\ up /\ IsActive(a)
    /\ attempts' = Closed(a, "canceled")
    /\ UNCHANGED <<kind, code, open, life, watcher, other, up, ticked, cleared,
                   bounds>>

\* An agent or the user changes what is deployed: a defect is fixed, comes
\* back or moves to another line.
Edit(d, place) ==
    /\ edits < MaxEdits /\ edits' = edits + 1
    /\ code[d] # place
    /\ place # 0 => \A e \in Found(code) : code[e] # place
    /\ code' = [code EXCEPT ![d] = place]
    /\ UNCHANGED <<kind, open, life, attempts, watcher, other, up, ticked,
                   cleared, others, faults, crashes>>

\* record_group_decision.
Decide(decision) ==
    /\ up /\ life' = decision
    /\ UNCHANGED <<kind, code, open, attempts, watcher, other, up, ticked,
                   cleared, bounds>>

-----------------------------------------------------------------------------
(* Other scans, and the user's verify_issue                                *)

\* verify_issue queues a poll for a check of an integration and is done.
OtherObserves(by) ==
    /\ up /\ other.pc = "none"
    /\ others < MaxOthers /\ others' = others + 1
    /\ by = "user" => kind # "polled" /\ Found(open) # {}
    /\ other' = [by |-> by, pc |-> "scanned", scan |-> code]
    /\ UNCHANGED <<kind, code, open, life, attempts, watcher, up, ticked,
                   cleared, edits, faults, crashes>>

OtherWrites ==
    /\ other.pc = "scanned"
    /\ Project(other.scan)
    /\ other' = IF other.by = "user" THEN [NoOther EXCEPT !.by = "user", !.pc = "written"]
                                     ELSE NoOther
    /\ UNCHANGED <<kind, code, attempts, watcher, up, ticked, bounds>>

OtherFails ==
    /\ other.pc = "scanned" /\ other' = NoOther
    /\ UNCHANGED <<kind, code, open, life, attempts, watcher, up, ticked,
                   cleared, bounds>>

\* The user's verification looks whether the group is still there ...
UserChecks ==
    /\ other.pc = "written"
    /\ other' = IF Found(open) = {} THEN [other EXCEPT !.pc = "clear"] ELSE NoOther
    /\ UNCHANGED <<kind, code, open, life, attempts, watcher, up, ticked,
                   cleared, bounds>>

\* ... and records that it is not.
UserMarks ==
    /\ other.pc = "clear"
    /\ life' = "verified" /\ other' = NoOther
    /\ UNCHANGED <<kind, code, open, attempts, watcher, up, ticked, cleared,
                   bounds>>

-----------------------------------------------------------------------------
(* The watcher                                                             *)

At(p) == watcher.pc = p
First(a) == a \in watcher.todo /\ \A b \in watcher.todo : a <= b
InStatus(rows, status) == {a \in Ids : rows[a].status = status}

\* On with the list in hand.
Next1 == IF watcher.waits THEN "verifying" ELSE "requested"
OnWith(pc) == [watcher EXCEPT !.pc = pc, !.a = 0, !.scan = Nothing,
                              !.waits = FALSE]

\* set_fix_attempt_status from the watcher.
SetStatus(a, status) == IF IsActive(a) THEN Closed(a, status) ELSE attempts

Stale(a) == IsActive(a) /\ attempts[a].quiet > Expiry
Expired == [a \in Ids |-> IF Stale(a) THEN Closed(a, "expired")[a] ELSE attempts[a]]

\* tick: the sweep, then the list of what is to be verified.  (Either may
\* fail; an agent's step in between is one before or after the two.)
TickBegins ==
    /\ up /\ At("asleep")
    /\ \E swept, listed \in BOOLEAN :
         /\ attempts' = IF swept THEN Expired ELSE attempts
         /\ watcher' = [Asleep EXCEPT !.pc = "requested",
              !.todo = IF listed THEN InStatus(attempts', "verify_requested") ELSE {}]
         /\ IF swept /\ listed THEN NoFault ELSE Fault
    /\ UNCHANGED <<kind, code, open, life, other, up, ticked, cleared>>

\* start_verification: the attempt is verifying, since now unless it was
\* before.  An error, also that it was cancelled, ends its turn.
Verifying(a) ==
    [attempts EXCEPT ![a].status = "verifying", ![a].quiet = 0,
                     ![a].started = TRUE,
                     ![a].waited = IF attempts[a].started THEN @ ELSE 0]

Start(a) ==
    /\ At("requested") /\ First(a)
    /\ LET rest == [OnWith("requested") EXCEPT !.todo = @ \ {a}] IN
       \/ /\ IsActive(a) /\ attempts' = Verifying(a) /\ NoFault
          /\ watcher' = [rest EXCEPT !.pc = "started", !.a = a]
       \/ /\ ~IsActive(a) /\ UNCHANGED attempts /\ NoFault
          /\ watcher' = rest
       \/ /\ IsActive(a) /\ attempts' \in {attempts, Verifying(a)} /\ Fault
          /\ watcher' = rest
    /\ UNCHANGED <<kind, code, open, life, other, up, ticked, cleared>>

\* verify_issue_sources_for_check finds nothing to run: the issue is not
\* active, an integration was asked to poll, or this tick has scanned the code.
NothingToRun ==
    \/ Found(open) = {}
    \/ kind = "polled"
    \/ kind = "code" /\ watcher.deduped

Trigger ==
    /\ At("started")
    /\ IF NothingToRun THEN watcher' = OnWith(Next1)
       ELSE watcher' = [watcher EXCEPT !.pc = "scanned", !.scan = code]
    /\ UNCHANGED <<kind, code, open, life, attempts, other, up, ticked, cleared,
                   bounds>>

Write ==
    /\ At("scanned")
    /\ Project(watcher.scan)
    /\ watcher' = [OnWith(Next1) EXCEPT !.deduped = kind = "code"]
    /\ UNCHANGED <<kind, code, attempts, other, up, ticked, bounds>>

\* The check could not run, or its result could not be written.
CheckFails ==
    /\ At("started") \/ At("scanned")
    /\ Fault
    /\ watcher' = IF watcher.waits THEN OnWith("verifying")
                                   ELSE [watcher EXCEPT !.pc = "giveup", !.scan = Nothing]
    /\ UNCHANGED <<kind, code, open, life, attempts, other, up, ticked, cleared>>

GiveUp ==
    /\ At("giveup")
    /\ \/ attempts' = SetStatus(watcher.a, "verify_failed") /\ NoFault
       \/ UNCHANGED attempts /\ Fault
    /\ watcher' = OnWith("requested")
    /\ UNCHANGED <<kind, code, open, life, other, up, ticked, cleared>>

ListVerifying ==
    /\ At("requested") /\ watcher.todo = {}
    /\ \E listed \in BOOLEAN :
         /\ watcher' = [OnWith("verifying") EXCEPT
              !.todo = IF listed THEN InStatus(attempts, "verifying") ELSE {},
              !.deduped = FALSE]
         /\ IF listed THEN NoFault ELSE Fault
    /\ UNCHANGED <<kind, code, open, life, attempts, other, up, ticked, cleared>>

\* settle_attempt, evaluate_attempt: whether the target is still reported ...
Evaluate(a) ==
    /\ At("verifying") /\ First(a)
    /\ LET turn == [watcher EXCEPT !.todo = @ \ {a}, !.a = a] IN
       \/ /\ watcher' = [turn EXCEPT !.pc = IF TargetActive(a) THEN "sources" ELSE "verified"]
          /\ NoFault
       \/ watcher' = [turn EXCEPT !.a = 0] /\ Fault
    /\ UNCHANGED <<kind, code, open, life, attempts, other, up, ticked, cleared>>

\* ... and then, from the sources of the rows that are open, whether the answer
\* is final (decide_outcome).  No open row, no source that would not settle.
SettlesImmediately == kind # "polled" \/ Found(open) = {}

\* Mutant of Outcome: a deploy is awaited from the last recheck.
OutcomeFromRecheck(a) ==
    IF kind = "remote"
    THEN IF attempts[a].quiet > Expiry THEN "failed"
         ELSE IF attempts[a].quiet >= Recheck THEN "touch" ELSE "verifying"
    ELSE IF SettlesImmediately \/ attempts[a].waited > Grace
         THEN "failed" ELSE "verifying"

Outcome(a) ==
    IF kind = "remote"
    THEN IF attempts[a].waited > Expiry THEN "failed"
         ELSE IF attempts[a].quiet >= Recheck THEN "touch" ELSE "verifying"
    ELSE IF SettlesImmediately \/ attempts[a].waited > Grace
         THEN "failed" ELSE "verifying"

DecideOutcome ==
    /\ At("sources")
    /\ \/ /\ LET pc == Outcome(watcher.a) IN
              watcher' = IF pc = "verifying" THEN OnWith(pc)
                                            ELSE [watcher EXCEPT !.pc = pc]
          /\ NoFault
       \/ watcher' = OnWith("verifying") /\ Fault
    /\ UNCHANGED <<kind, code, open, life, attempts, other, up, ticked, cleared>>

\* should_mark_group_verified.
MarksGroup(a) == attempts[a].target = Group

\* An attempt that was settled meanwhile ends the turn, as an error does.
Verify ==
    /\ At("verified")
    /\ LET a == watcher.a IN
       \/ /\ attempts' = SetStatus(a, "verified") /\ NoFault
          /\ watcher' = IF IsActive(a) /\ MarksGroup(a)
                        THEN [watcher EXCEPT !.pc = "mark"] ELSE OnWith("verifying")
       \/ /\ IsActive(a) /\ attempts' \in {attempts, SetStatus(a, "verified")} /\ Fault
          /\ watcher' = OnWith("verifying")
    /\ UNCHANGED <<kind, code, open, life, other, up, ticked, cleared>>

\* set_issue_group_state, whatever was projected since the evaluation.
Mark ==
    /\ At("mark")
    /\ \/ life' = "verified" /\ NoFault
       \/ UNCHANGED life /\ Fault
    /\ watcher' = OnWith("verifying")
    /\ UNCHANGED <<kind, code, open, attempts, other, up, ticked, cleared>>

Fail ==
    /\ At("failed")
    /\ \/ attempts' = SetStatus(watcher.a, "verify_failed") /\ NoFault
       \/ UNCHANGED attempts /\ Fault
    /\ watcher' = OnWith("verifying")
    /\ UNCHANGED <<kind, code, open, life, other, up, ticked, cleared>>

\* Mutant of Touched: the heartbeat is left out.
TouchedNot(a) == attempts

\* touch_fix_attempt, before the check is run again.
Touched(a) == [attempts EXCEPT ![a].quiet = 0]

Touch ==
    /\ At("touch")
    /\ \/ attempts' = Touched(watcher.a) /\ NoFault
       \/ UNCHANGED attempts /\ Fault
    /\ watcher' = [watcher EXCEPT !.pc = "started", !.waits = TRUE]
    /\ UNCHANGED <<kind, code, open, life, other, up, ticked, cleared>>

TickEnds ==
    /\ At("verifying") /\ watcher.todo = {}
    /\ watcher' = Asleep /\ ticked' = TRUE
    /\ UNCHANGED <<kind, code, open, life, attempts, other, up, cleared, bounds>>

-----------------------------------------------------------------------------
(* The application and the clock                                           *)

Crash ==
    /\ up /\ crashes < MaxCrashes
    /\ up' = FALSE /\ crashes' = crashes + 1
    /\ watcher' = Asleep /\ other' = NoOther /\ ticked' = FALSE
    /\ UNCHANGED <<kind, code, open, life, attempts, cleared, edits, others, faults>>

Launch ==
    /\ ~up /\ up' = TRUE
    /\ UNCHANGED <<kind, code, open, life, attempts, watcher, other, ticked,
                   cleared, bounds>>

Older(age) == IF age < Old THEN age + 1 ELSE age
Time ==
    /\ up => At("asleep") /\ ticked
    /\ ticked' = FALSE
    /\ attempts' = [a \in Ids |-> IF ~IsActive(a) THEN attempts[a]
          ELSE [attempts[a] EXCEPT !.quiet = Older(@),
                  !.waited = IF attempts[a].started THEN Older(@) ELSE @]]
    /\ UNCHANGED <<kind, code, open, life, watcher, other, up, cleared, bounds>>

WatcherStep ==
    \/ TickBegins \/ ListVerifying \/ TickEnds
    \/ Trigger \/ Write \/ CheckFails \/ GiveUp
    \/ DecideOutcome \/ Verify \/ Mark \/ Fail \/ Touch
    \/ \E a \in Ids : Start(a) \/ Evaluate(a)

Next ==
    \/ WatcherStep
    \/ \E a \in Ids : FetchBrief(a) \/ Request(a) \/ Cancel(a)
    \/ \E a \in Ids : Create(a, Group, 0, Group)
    \/ \E a \in Ids, d \in Defects, l \in Lines : Create(a, "occurrence", l, d)
    \/ \E d \in Defects, place \in Places : Edit(d, place)
    \/ \E decision \in UserDecides : Decide(decision)
    \/ \E by \in {"user", "background"} : OtherObserves(by)
    \/ OtherWrites \/ OtherFails \/ UserChecks \/ UserMarks
    \/ Crash \/ Launch \/ Time

Spec == Init /\ [][Next]_vars

\* The loop goes on while the application runs, it is started again when it
\* is closed, and the five seconds between two ticks add up: time passes again
\* and again if again and again the watcher sleeps.
Fairness == WF_vars(WatcherStep) /\ WF_vars(Launch) /\ SF_vars(Time)

-----------------------------------------------------------------------------
TypeOK ==
    /\ kind \in Kinds /\ code \in World /\ open \in World /\ life \in Life
    /\ attempts \in [Ids -> Attempt]
    /\ watcher \in Watcher /\ other \in Other
    /\ up \in BOOLEAN /\ ticked \in BOOLEAN /\ cleared \in BOOLEAN
    /\ edits \in 0 .. MaxEdits /\ others \in 0 .. MaxOthers
    /\ faults \in 0 .. MaxFaults /\ crashes \in 0 .. MaxCrashes

\* fix_attempts.rs: "At most one active attempt may exist per stable
\* group/occurrence target".
OneActivePerTarget ==
    \A a, b \in Ids :
        /\ IsActive(a) /\ IsActive(b)
        /\ attempts[a].target = attempts[b].target
        /\ attempts[a].line = attempts[b].line
        => a = b

\* "Each recheck touches the attempt so the stale-expiry sweeper leaves it
\* alone for the duration of the wait": an attempt that is being verified is
\* not swept while the application runs and its operations succeed, whatever
\* kind of answer it waits for.
WaitSurvivesSweep ==
    [][\A a \in Ids :
          attempts[a].status = "verifying" /\ attempts'[a].status = "expired"
          => faults > 0 \/ crashes > 0]_vars

\* "Only observed absence may make a later recurrence a regression" (the
\* engine's vocab.rs), through the watcher, the user's verification, claims
\* and scans written in any order.
RegressedWasGone == life = "regressed" => cleared

\* Every attempt ends: verified, failed, cancelled or, when no agent comes
\* back, swept; also after a failed operation and an end of the application.
AttemptSettles == \A a \in Ids : IsActive(a) ~> ~IsActive(a)

-----------------------------------------------------------------------------
(* What a comment says and the code does not keep                          *)

\* vocab.rs of the engine: verified by a local scan means that "a local scan
\* re-ran the check and stopped reporting the issue".
VerifiedMeansUnreported == life = "verified" => Found(open) = {}
=============================================================================
