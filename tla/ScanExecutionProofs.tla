------------------------- MODULE ScanExecutionProofs -------------------------
(***************************************************************************)
(* Proofs about the scan orchestrator, for any callers, keys, plans,       *)
(* windows and bounds: its invariants, and that it implements              *)
(* IdempotentExecution.                                                    *)
(***************************************************************************)
EXTENDS ScanExecutionRefinement, FiniteSetTheorems, WellFoundedInduction, TLAPS

(* The statements of the store return tables of rows.                      *)

LEMMA NewRowType ==
  ASSUME NEW k \in Keys, NEW p \in Plans, NEW n \in Nat
  PROVE  NewRow(k, p, n) \in Row
<1> USE ScanExecutionAssumption
<1>1. p.component \in [Components -> ComponentStatus]
  BY DEF ComponentStatus
<1>2. [c \in Components |-> \/ p.component[c] = "skipped"
                            \/ p.class = "verification" /\ c = "web"]
        \in [Components -> BOOLEAN]
  OBVIOUS
<1> QED
  BY <1>1, <1>2 DEF NewRow, Row, ExecutionStatus, OpenStatus

LEMMA InsertType ==
  ASSUME NEW T, T \in [DOMAIN T -> Row], NEW i, NEW r \in Row
  PROVE  /\ DOMAIN Insert(T, i, r) = DOMAIN T \cup {i}
         /\ Insert(T, i, r) \in [DOMAIN T \cup {i} -> Row]
BY DEF Insert

LEMMA SetType ==
  ASSUME NEW T, T \in [DOMAIN T -> Row], NEW i \in DOMAIN T, NEW r \in Row
  PROVE  /\ DOMAIN Set(T, i, r) = DOMAIN T
         /\ Set(T, i, r) \in [DOMAIN T -> Row]
         /\ Set(T, i, r)[i] = r
         /\ \A j \in DOMAIN T : j # i => Set(T, i, r)[j] = T[j]
BY DEF Set

LEMMA DeleteType ==
  ASSUME NEW T, T \in [DOMAIN T -> Row], NEW S
  PROVE  /\ DOMAIN Delete(T, S) = DOMAIN T \ S
         /\ Delete(T, S) \in [DOMAIN T \ S -> Row]
BY DEF Delete

LEMMA StartedType ==
  ASSUME NEW r \in Row, NEW c \in Components
  PROVE  [r EXCEPT !.status = "running", !.component[c] = "running"] \in Row
BY DEF Row, ExecutionStatus, OpenStatus, ComponentStatus

LEMMA CancelledRowType ==
  ASSUME NEW r \in Row, NEW n \in Nat
  PROVE  CancelledRow(r, n) \in Row
<1>1. [c \in Components |-> IF r.component[c] = "planned" THEN "cancelled"
                            ELSE r.component[c]]
        \in [Components -> ComponentStatus]
  BY DEF Row, ComponentStatus
<1> QED
  BY <1>1 DEF CancelledRow, Row, ExecutionStatus, TerminalStatus

LEMMA OutcomeType ==
  ASSUME NEW component, NEW detail
  PROVE  Outcome(component, detail) \in TerminalStatus
BY DEF Outcome, TerminalStatus

\* The row finish_scan_execution_component writes.
FinishedRow(r, c, result, det, n) ==
    LET component == [r.component EXCEPT ![c] = result]
        detail == [r.detail EXCEPT ![c] = det]
        row == [r EXCEPT !.component = component, !.detail = detail]
    IN  IF Unsettled(component) THEN row
        ELSE [row EXCEPT !.status = Outcome(component, detail),
                         !.completed = n]

LEMMA FinishedIsSet ==
  ASSUME NEW T, NEW i, NEW c, NEW result, NEW det, NEW n
  PROVE  Finished(T, i, c, result, det, n)
           = Set(T, i, FinishedRow(T[i], c, result, det, n))
BY DEF Finished, FinishedRow

LEMMA FinishedRowType ==
  ASSUME NEW r \in Row, NEW c \in Components, NEW result \in ComponentStatus,
         NEW det \in BOOLEAN, NEW n \in Nat
  PROVE  /\ FinishedRow(r, c, result, det, n) \in Row
         /\ FinishedRow(r, c, result, det, n).component
              = [r.component EXCEPT ![c] = result]
<1> DEFINE component == [r.component EXCEPT ![c] = result]
           detail == [r.detail EXCEPT ![c] = det]
           row == [r EXCEPT !.component = component, !.detail = detail]
           o == Outcome(component, detail)
<1>1. component \in [Components -> ComponentStatus]
      /\ detail \in [Components -> BOOLEAN]
  BY DEF Row
<1>2. o \in ExecutionStatus
  BY OutcomeType DEF ExecutionStatus
<1>3. FinishedRow(r, c, result, det, n) =
        IF Unsettled(component) THEN row
        ELSE [row EXCEPT !.status = o, !.completed = n]
  BY DEF FinishedRow
<1> HIDE DEF component, detail, o
<1>4. row \in Row /\ row.component = component
  BY <1>1 DEF Row
<1>5. /\ [row EXCEPT !.status = o, !.completed = n] \in Row
      /\ [row EXCEPT !.status = o, !.completed = n].component = component
  BY <1>2, <1>4 DEF Row
<1>6. /\ FinishedRow(r, c, result, det, n) \in Row
      /\ FinishedRow(r, c, result, det, n).component = component
  BY <1>3, <1>4, <1>5
<1> QED
  BY <1>6 DEF component

-----------------------------------------------------------------------------
(* What a step does to the job of its caller.                              *)

LEMMA OnErrorType ==
  ASSUME NEW j \in Job
  PROVE  /\ OnError(j) \in Job \cup {NoJob}
         /\ OnError(j) # NoJob => OnError(j).exec = j.exec
<1>1. CASE j.pc = "persist"
  BY <1>1 DEF OnError, Job, PC, ComponentStatus
<1>2. CASE j.pc = "retain"
  BY <1>2 DEF OnError, Job, PC
<1>3. CASE j.pc \notin {"persist", "retain"}
  BY <1>3 DEF OnError
<1> QED
  BY <1>1, <1>2, <1>3

LEMMA OnErrorCases ==
  ASSUME NEW j
  PROVE  /\ j.pc = "persist" =>
              OnError(j) = [j EXCEPT !.pc = "finish", !.result = "failed",
                                     !.detail = TRUE]
         /\ j.pc = "retain" => OnError(j) = [j EXCEPT !.pc = "record"]
         /\ j.pc \notin {"persist", "retain"} => OnError(j) = NoJob
BY DEF OnError

\* The caller's own job is the only one that changes; it keeps its execution,
\* gives it up, or takes an id that nobody has had.
JobMove(c) ==
    /\ job' = [job EXCEPT ![c] = job'[c]]
    /\ job'[c] \in Job \cup {NoJob}
    /\ job'[c] # NoJob =>
         \/ job[c] # NoJob /\ job'[c].exec = job[c].exec /\ nextId' = nextId
         \/ job'[c].exec = 0 /\ nextId' = nextId
         \/ job'[c].exec = nextId /\ nextId' = nextId + 1
    /\ nextId' \in {nextId, nextId + 1}

LEMMA GotoMove ==
  ASSUME TypeOK, NEW c \in Callers, NEW j \in Job \cup {NoJob}, Goto(c, j),
         nextId' = nextId, job[c] # NoJob, j # NoJob => j.exec = job[c].exec
  PROVE  JobMove(c)
BY DEF TypeOK, JobsOK, Goto, JobMove

LEMMA ReplyMove ==
  ASSUME TypeOK, NEW c \in Callers, NEW ok \in BOOLEAN, NEW j \in Job,
         Reply(c, ok, j), nextId' = nextId, job[c] # NoJob,
         j.exec = job[c].exec
  PROVE  JobMove(c)
<1>1. job[c] \in Job
  BY DEF TypeOK, JobsOK
<1>2. CASE ok
  BY <1>2, GotoMove DEF Reply
<1>3. CASE ~ok
  BY <1>1, <1>3, OnErrorType, GotoMove DEF Reply
<1> QED
  BY <1>2, <1>3

LEMMA AdmitNewMove ==
  ASSUME TypeOK, NEW c \in Callers, NEW ok \in BOOLEAN, AdmitNew(c, ok)
  PROVE  JobMove(c)
<1> DEFINE j == job[c]
           x == [j EXCEPT !.exec = nextId, !.comp = FirstComponent(j.plan),
                          !.pc = IF j.plan.class = "verification"
                                   THEN "start" ELSE "precheck"]
<1>1. j \in Job /\ nextId \in Nat /\ j.pc = "admit"
  BY DEF TypeOK, TablesOK, JobsOK, AdmitNew, At
<1>2. x \in Job /\ x.exec = nextId
  BY <1>1 DEF Job, PC, FirstComponent, Components
<1>3. nextId' = nextId + 1 /\ Reply(c, ok, x)
  BY DEF AdmitNew
<1> HIDE DEF x
<1>4. CASE ok
  BY <1>2, <1>3, <1>4 DEF Reply, Goto, JobMove, TypeOK, JobsOK
<1>5. CASE ~ok
  <2>1. OnError(j) = NoJob
    BY <1>1 DEF OnError
  <2> QED
    BY <1>3, <1>5, <2>1 DEF Reply, Goto, JobMove, TypeOK, JobsOK
<1> QED
  BY <1>4, <1>5

LEMMA RequestMove ==
  ASSUME TypeOK, NEW c \in Callers, NEW k \in Keys, NEW p \in Plans,
         Request(c, k, p)
  PROVE  JobMove(c)
BY DEF Request, Goto, JobMove, TypeOK, TablesOK, JobsOK, Job, PC, Components,
       ComponentStatus, tables

LEMMA CancelMove ==
  ASSUME TypeOK, NEW c \in Callers, Cancel(c)
  PROVE  JobMove(c)
<1>1. job[c] \in Job /\ job[c] # NoJob
  BY DEF TypeOK, JobsOK, Cancel
<1>2. [job[c] EXCEPT !.cancelled = TRUE] \in Job
      /\ [job[c] EXCEPT !.cancelled = TRUE].exec = job[c].exec
  BY <1>1 DEF Job
<1> QED
  BY <1>1, <1>2, GotoMove DEF Cancel, tables

\* Where finish_scan_execution_component takes the caller.
AfterFinish(j, row) ==
    LET next == [j EXCEPT !.result = "planned", !.detail = FALSE] IN
    IF j.comp = "web" /\ j.plan.component["code"] = "planned"
      THEN [next EXCEPT !.comp = "code", !.pc = "start"]
      ELSE [next EXCEPT !.pc = IF HasCompletedChild(row)
                                 THEN "link" ELSE "retain"]

LEMMA AfterFinishType ==
  ASSUME NEW j \in Job, NEW row
  PROVE  /\ AfterFinish(j, row) \in Job
         /\ AfterFinish(j, row).exec = j.exec
         /\ AfterFinish(j, row).pc \in {"start", "link", "retain"}
<1> DEFINE next == [j EXCEPT !.result = "planned", !.detail = FALSE]
<1>1. next \in Job /\ next.exec = j.exec
  BY DEF Job, ComponentStatus
<1>2. AfterFinish(j, row) =
        IF j.comp = "web" /\ j.plan.component["code"] = "planned"
          THEN [next EXCEPT !.comp = "code", !.pc = "start"]
          ELSE [next EXCEPT !.pc = IF HasCompletedChild(row)
                                     THEN "link" ELSE "retain"]
  BY DEF AfterFinish
<1> HIDE DEF next
<1>3. [next EXCEPT !.comp = "code", !.pc = "start"] \in Job
      /\ [next EXCEPT !.comp = "code", !.pc = "start"].exec = j.exec
      /\ [next EXCEPT !.comp = "code", !.pc = "start"].pc = "start"
  BY <1>1 DEF Job, PC, Components
<1>4. \A p \in {"link", "retain"} :
        /\ [next EXCEPT !.pc = p] \in Job
        /\ [next EXCEPT !.pc = p].exec = j.exec
        /\ [next EXCEPT !.pc = p].pc = p
  BY <1>1 DEF Job, PC
<1> QED
  BY <1>2, <1>3, <1>4

LEMMA FinishShape ==
  ASSUME NEW c \in Callers, NEW ok \in BOOLEAN, Finish(c, ok)
  PROVE  LET j == job[c]
             row == FinishedRow(executions[j.exec], j.comp, j.result, j.detail,
                                now)
             after == Set(executions, j.exec, row)
         IN  /\ At(c, "finish")
             /\ CanFinish(executions, j.exec)
             /\ executions' = after
             /\ Reply(c, ok, AfterFinish(j, after[j.exec]))
             /\ UNCHANGED <<nextId, runs, timeline, now, answered, crashes>>
BY FinishedIsSet DEF Finish, AfterFinish

LEMMA CallerMove ==
  ASSUME TypeOK, NEW c \in Callers, CallerStep(c)
  PROVE  JobMove(c)
<1>1. CASE job[c] = NoJob
  BY <1>1 DEF CallerStep, At, AdmitReused, AdmitRefused, Precheck, SkipCode,
       CollectFails, Collected, PersistOrphan, Link, ScoreFails, Record,
       AdmitNew, CancelBeforeStart, Start, Persist, Finish, Retain,
       Ineligible, DbFails
<1>2. CASE job[c] # NoJob
  <2> DEFINE j == job[c]
  <2>1. j \in Job
    BY <1>2 DEF TypeOK, JobsOK
  <2>2. /\ OnError(j) \in Job \cup {NoJob}
        /\ OnError(j) # NoJob => OnError(j).exec = j.exec
    BY <2>1, OnErrorType
  <2>3. CASE AdmitReused(c) \/ AdmitRefused(c) \/ Ineligible(c) \/ Record(c)
    BY <1>2, <2>3, GotoMove
    DEF AdmitReused, AdmitRefused, Ineligible, Record, Return, tables
  <2>4. CASE Precheck(c) \/ Collected(c) \/ Link(c) \/ ScoreFails(c)
    <3>1. PICK p \in PC : Goto(c, [j EXCEPT !.pc = p]) /\ nextId' = nextId
      BY <2>4 DEF Precheck, Collected, Link, ScoreFails, PC, tables
    <3>2. [j EXCEPT !.pc = p] \in Job /\ [j EXCEPT !.pc = p].exec = j.exec
      BY <2>1 DEF Job
    <3> QED
      BY <1>2, <3>1, <3>2, GotoMove
  <2>5. CASE \/ SkipCode(c)
             \/ \E result \in {"failed", "cancelled"} : CollectFails(c, result)
    <3>1. PICK r \in {"failed", "cancelled"} :
            /\ Goto(c, [j EXCEPT !.pc = "finish", !.result = r,
                                 !.detail = TRUE])
            /\ nextId' = nextId
      BY <2>5 DEF SkipCode, CollectFails, tables
    <3> DEFINE x == [j EXCEPT !.pc = "finish", !.result = r, !.detail = TRUE]
    <3>2. x \in Job /\ x.exec = j.exec
      BY <2>1 DEF Job, PC, ComponentStatus
    <3> QED
      BY <1>2, <3>1, <3>2, GotoMove
  <2>6. CASE PersistOrphan(c) \/ DbFails(c)
    BY <1>2, <2>2, <2>6, GotoMove DEF PersistOrphan, DbFails, tables
  <2>7. CASE \E ok \in BOOLEAN :
               CancelBeforeStart(c, ok) \/ Start(c, ok) \/ Retain(c, ok)
    <3>1. PICK ok \in BOOLEAN, p \in PC :
            Reply(c, ok, [j EXCEPT !.pc = p]) /\ nextId' = nextId
      BY <2>7 DEF CancelBeforeStart, Start, Retain, PC
    <3>2. [j EXCEPT !.pc = p] \in Job /\ [j EXCEPT !.pc = p].exec = j.exec
      BY <2>1 DEF Job
    <3> QED
      BY <1>2, <3>1, <3>2, ReplyMove
  <2>8. CASE \E ok \in BOOLEAN, detail \in BOOLEAN : Persist(c, ok, detail)
    <3>1. PICK ok \in BOOLEAN, detail \in BOOLEAN : Persist(c, ok, detail)
      BY <2>8
    <3> DEFINE x == [j EXCEPT !.pc = "finish", !.result = "complete",
                              !.detail = detail]
    <3>2. Reply(c, ok, x) /\ nextId' = nextId
      BY <3>1 DEF Persist
    <3>3. x \in Job /\ x.exec = j.exec
      BY <2>1 DEF Job, PC, ComponentStatus
    <3> QED
      BY <1>2, <3>2, <3>3, ReplyMove
  <2>9. CASE \E ok \in BOOLEAN : Finish(c, ok)
    <3>1. PICK ok \in BOOLEAN : Finish(c, ok)
      BY <2>9
    <3>2. \E row : Reply(c, ok, AfterFinish(j, row)) /\ nextId' = nextId
      BY <3>1, FinishShape
    <3> QED
      BY <1>2, <2>1, <3>2, AfterFinishType, ReplyMove
  <2>10. CASE \E ok \in BOOLEAN : AdmitNew(c, ok)
    BY <2>10, AdmitNewMove
  <2> QED
    BY <2>3, <2>4, <2>5, <2>6, <2>7, <2>8, <2>9, <2>10 DEF CallerStep
<1> QED
  BY <1>1, <1>2

-----------------------------------------------------------------------------
(* What a step does to the tables.                                         *)

LEMMA InsertTables ==
  ASSUME TablesOK, NEW r \in Row,
         executions' = Insert(executions, nextId, r), nextId' = nextId + 1,
         UNCHANGED <<runs, timeline>>
  PROVE  TablesOK'
<1>1. /\ DOMAIN executions' = DOMAIN executions \cup {nextId}
      /\ executions' \in [DOMAIN executions' -> Row]
  BY InsertType DEF TablesOK
<1> QED
  BY <1>1 DEF TablesOK

LEMMA SetTables ==
  ASSUME TablesOK, NEW i \in DOMAIN executions, NEW r \in Row,
         executions' = Set(executions, i, r),
         UNCHANGED <<nextId, runs, timeline>>
  PROVE  TablesOK'
BY SetType DEF TablesOK

LEMMA DeleteTables ==
  ASSUME TablesOK, NEW S, executions' = Delete(executions, S),
         runs' = RunsWithout(S), UNCHANGED <<nextId, timeline>>
  PROVE  TablesOK'
<1>1. /\ DOMAIN executions' = DOMAIN executions \ S
      /\ executions' \in [DOMAIN executions' -> Row]
  BY DeleteType DEF TablesOK
<1>2. runs' \subseteq (DOMAIN executions') \X Components
  BY <1>1 DEF TablesOK, RunsWithout
<1> QED
  BY <1>1, <1>2 DEF TablesOK

\* The rows that a caller writes.
LEMMA WrittenRows ==
  ASSUME TypeOK, NEW c \in Callers, job[c] # NoJob
  PROVE  LET j == job[c] IN
         /\ j \in Job
         /\ NewRow(j.key, j.plan, j.at) \in Row
         /\ j.exec \in DOMAIN executions =>
              LET row == executions[j.exec] IN
              /\ row \in Row
              /\ CancelledRow(row, now) \in Row
              /\ [row EXCEPT !.status = "running",
                             !.component[j.comp] = "running"] \in Row
              /\ FinishedRow(row, j.comp, j.result, j.detail, now) \in Row
<1> DEFINE j == job[c]
<1>1. j \in Job
  BY DEF TypeOK, JobsOK
<1>2. /\ j.key \in Keys /\ j.plan \in Plans /\ j.at \in Nat
      /\ j.comp \in Components /\ j.result \in ComponentStatus
      /\ j.detail \in BOOLEAN /\ now \in Nat
  BY <1>1 DEF Job, TypeOK
<1>3. j.exec \in DOMAIN executions => executions[j.exec] \in Row
  BY DEF TypeOK, TablesOK
<1> HIDE DEF j
<1>4. NewRow(j.key, j.plan, j.at) \in Row
  BY <1>2, NewRowType
<1>5. ASSUME NEW row \in Row
      PROVE  /\ CancelledRow(row, now) \in Row
             /\ [row EXCEPT !.status = "running",
                            !.component[j.comp] = "running"] \in Row
             /\ FinishedRow(row, j.comp, j.result, j.detail, now) \in Row
  BY <1>2, CancelledRowType, StartedType, FinishedRowType
<1> QED
  BY <1>1, <1>3, <1>4, <1>5 DEF j

LEMMA CallerTables ==
  ASSUME TypeOK, NEW c \in Callers, job[c] # NoJob, CallerStep(c)
  PROVE  TablesOK'
<1> DEFINE j == job[c]
<1>1. TablesOK /\ j \in Job
  BY WrittenRows DEF TypeOK
<1>2. CASE UNCHANGED tables
  BY <1>1, <1>2 DEF tables, TablesOK
<1>3. CASE \E ok \in BOOLEAN : AdmitNew(c, ok)
  BY <1>1, <1>3, WrittenRows, InsertTables DEF AdmitNew
<1>4. CASE \E ok \in BOOLEAN : CancelBeforeStart(c, ok)
  BY <1>1, <1>4, WrittenRows, SetTables
  DEF CancelBeforeStart, CanCancel, Cancelled
<1>5. CASE \E ok \in BOOLEAN : Start(c, ok)
  BY <1>1, <1>5, WrittenRows, SetTables DEF Start, CanStart, Started
<1>6. CASE \E ok \in BOOLEAN : Finish(c, ok)
  <2>1. /\ j.exec \in DOMAIN executions
        /\ executions' = Set(executions, j.exec,
             FinishedRow(executions[j.exec], j.comp, j.result, j.detail, now))
        /\ UNCHANGED <<nextId, runs, timeline>>
    BY <1>6, FinishShape DEF CanFinish
  <2>2. FinishedRow(executions[j.exec], j.comp, j.result, j.detail, now) \in Row
    BY <2>1, WrittenRows
  <2> QED
    BY <1>1, <2>1, <2>2, SetTables
<1>7. CASE \E ok \in BOOLEAN : Retain(c, ok)
  BY <1>1, <1>7, DeleteTables DEF Retain
<1>8. CASE \E ok \in BOOLEAN, detail \in BOOLEAN : Persist(c, ok, detail)
  <2>1. /\ j.exec \in DOMAIN executions /\ j.comp \in Components
        /\ runs' = runs \cup {<<j.exec, j.comp>>}
        /\ UNCHANGED <<executions, nextId, timeline>>
    BY <1>1, <1>8 DEF Persist, Job
  <2> QED
    BY <1>1, <2>1 DEF TablesOK
<1>9. CASE Record(c)
  BY <1>1, <1>9 DEF Record, TablesOK
<1> QED
  BY <1>2, <1>3, <1>4, <1>5, <1>6, <1>7, <1>8, <1>9
  DEF CallerStep, AdmitReused, AdmitRefused, Precheck, SkipCode, CollectFails,
      Collected, PersistOrphan, Link, ScoreFails, Ineligible, DbFails

-----------------------------------------------------------------------------
(* Type correctness and ownership.                                         *)

\* An execution is driven by at most one caller, whether its row is still
\* there or not: ids are never used twice.
OneOwner ==
    \A c, d \in Callers :
        /\ job[c] # NoJob /\ job[d] # NoJob
        /\ job[c].exec = job[d].exec /\ job[c].exec # 0
        => c = d

LEMMA MoveJobs ==
  ASSUME TypeOK, OneOwner, NEW c \in Callers, JobMove(c)
  PROVE  /\ JobsOK'
         /\ \A d \in Callers : job'[d] # NoJob => job'[d].exec < nextId'
         /\ OneOwner'
<1>1. nextId \in Nat \ {0} /\ job \in [Callers -> Job \cup {NoJob}]
  BY DEF TypeOK, TablesOK, JobsOK
<1>2. \A d \in Callers : job[d] # NoJob =>
         job[d].exec \in Nat /\ job[d].exec < nextId
  BY <1>1 DEF TypeOK, Job
<1>3. \A d \in Callers : d # c => job'[d] = job[d]
  BY <1>1 DEF JobMove
<1>4. JobsOK'
  BY <1>1 DEF JobMove, JobsOK
<1>5. \A d \in Callers : job'[d] # NoJob => job'[d].exec < nextId'
  BY <1>1, <1>2, <1>3 DEF JobMove
<1>6. OneOwner'
  <2> SUFFICES ASSUME NEW x \in Callers, NEW y \in Callers,
                      job'[x] # NoJob, job'[y] # NoJob,
                      job'[x].exec = job'[y].exec, job'[x].exec # 0, x # y
               PROVE  FALSE
    BY DEF OneOwner
  <2>1. ASSUME NEW d \in Callers, d # c, job'[d] # NoJob, job'[c] # NoJob,
               job'[c].exec # 0
        PROVE  job'[c].exec # job'[d].exec
    BY <1>1, <1>2, <1>3, <2>1 DEF JobMove, OneOwner
  <2>2. CASE x # c /\ y # c
    BY <1>3, <2>2 DEF OneOwner
  <2> QED
    BY <2>1, <2>2
<1> QED
  BY <1>4, <1>5, <1>6

LEMMA InitType == Init => TypeOK /\ OneOwner
<1> SUFFICES ASSUME Init PROVE TypeOK /\ OneOwner
  OBVIOUS
<1>1. DOMAIN executions = {} /\ executions \in [{} -> Row]
  BY DEF Init
<1> QED
  BY <1>1 DEF Init, TypeOK, TablesOK, JobsOK, OneOwner

\* Each caller step hears answers for its own key and plan only.
LEMMA CallerRest ==
  ASSUME TypeOK, NEW c \in Callers, job[c] # NoJob, CallerStep(c)
  PROVE  /\ now' = now /\ crashes' = crashes
         /\ faults' \in Nat
         /\ answered' \in [Keys -> SUBSET Plans]
<1> DEFINE j == job[c]
<1>1. j \in Job /\ j.key \in Keys /\ j.plan \in Plans
  <2>1. j \in Job
    BY WrittenRows
  <2> QED
    BY <2>1 DEF Job
<1>2. /\ now' = now /\ crashes' = crashes
      /\ \/ answered' = answered
         \/ answered' = [answered EXCEPT ![j.key] = @ \cup {j.plan}]
      /\ faults' = faults \/ faults' = faults + 1
  <2>1. CASE \E ok \in BOOLEAN : Finish(c, ok)
    BY <2>1, FinishShape DEF Reply, NoFault, Fault
  <2>2. CASE ~\E ok \in BOOLEAN : Finish(c, ok)
    BY ONLY CallerStep(c), <2>2, Zenon DEF CallerStep, AdmitReused, AdmitRefused, Precheck, SkipCode,
       CollectFails, Collected, PersistOrphan, Link, ScoreFails, Record,
       AdmitNew, CancelBeforeStart, Start, Persist, Retain, Ineligible,
       DbFails, Reply, NoFault, Fault
  <2> QED
    BY <2>1, <2>2
<1> QED
  BY <1>1, <1>2 DEF TypeOK

\* Only a caller that has a job takes a step of a handler.
LEMMA StepHasJob ==
  ASSUME NEW c \in Callers, CallerStep(c)
  PROVE  job[c] # NoJob
BY FinishShape
DEF CallerStep, At, AdmitReused, AdmitRefused, Precheck, SkipCode,
    CollectFails, Collected, PersistOrphan, Link, ScoreFails, Record,
    AdmitNew, CancelBeforeStart, Start, Persist, Retain, Ineligible, DbFails

LEMMA NextType == TypeOK /\ OneOwner /\ [Next]_vars => (TypeOK /\ OneOwner)'
<1> SUFFICES ASSUME TypeOK, OneOwner, [Next]_vars PROVE (TypeOK /\ OneOwner)'
  OBVIOUS
<1>1. ASSUME NEW c \in Callers, CallerStep(c)
      PROVE  (TypeOK /\ OneOwner)'
  <2>1. job[c] # NoJob
    BY <1>1, StepHasJob
  <2>2. TablesOK'
    BY <1>1, <2>1, CallerTables
  <2>3. JobMove(c)
    BY <1>1, CallerMove
  <2> QED
    BY <1>1, <2>1, <2>2, <2>3, MoveJobs, CallerRest DEF TypeOK
<1>2. ASSUME NEW c \in Callers, NEW k \in Keys, NEW p \in Plans,
             Request(c, k, p)
      PROVE  (TypeOK /\ OneOwner)'
  <2>1. UNCHANGED <<tables, now, answered, faults, crashes>>
    BY <1>2 DEF Request
  <2> QED
    BY <1>2, <2>1, RequestMove, MoveJobs DEF TypeOK, TablesOK, tables
<1>3. ASSUME NEW c \in Callers, Cancel(c)
      PROVE  (TypeOK /\ OneOwner)'
  <2>1. UNCHANGED <<tables, now, answered, faults, crashes>>
    BY <1>3 DEF Cancel
  <2> QED
    BY <1>3, <2>1, CancelMove, MoveJobs DEF TypeOK, TablesOK, tables
<1>4. CASE Tick
  BY <1>4 DEF Tick, TypeOK, TablesOK, JobsOK, OneOwner, tables
<1>5. CASE Sweep
  <2>1. TablesOK'
    BY <1>5, DeleteTables DEF Sweep, TypeOK
  <2> QED
    BY <1>5, <2>1 DEF Sweep, TypeOK, JobsOK, OneOwner
<1>6. CASE Crash
  <2>1. /\ job' = [c \in Callers |-> NoJob] /\ crashes' = crashes + 1
        /\ UNCHANGED <<tables, now, answered, faults>>
    BY <1>6 DEF Crash
  <2> QED
    BY <2>1 DEF TypeOK, TablesOK, JobsOK, OneOwner, tables
<1>7. CASE UNCHANGED vars
  BY <1>7 DEF vars, tables, TypeOK, TablesOK, JobsOK, OneOwner
<1> QED
  BY <1>1, <1>2, <1>3, <1>4, <1>5, <1>6, <1>7 DEF Next

\* Every reachable table and job has its type, whatever fails or crashes.
THEOREM TypeCorrect == Spec => []TypeOK
<1>1. Spec => [](TypeOK /\ OneOwner)
  BY InitType, NextType, PTL DEF Spec
<1> QED
  BY <1>1, PTL

\* No two handlers ever work on one execution (run_scan_execution_internal,
\* over admit_scan_execution): a repeated request is answered from the record.
THEOREM ExecutionHasOneOwner == Spec => []SingleOwner
<1>1. Spec => [](TypeOK /\ OneOwner)
  BY InitType, NextType, PTL DEF Spec
<1>2. OneOwner => SingleOwner
  BY DEF OneOwner, SingleOwner, Drives
<1> QED
  BY <1>1, <1>2, PTL

-----------------------------------------------------------------------------
(* Evidence.  EvidenceBacksStatus and CompleteIsWhole are not inductive:   *)
(* what a handler is about to write must agree with the runs as well, and  *)
(* the row must say what the handler in hand believes of it.               *)

\* A row and its runs agree, and a complete row is whole.
RowInv(i) ==
    LET row == executions[i] IN
    /\ \A x \in Components :
         /\ row.component[x] = "complete" => <<i, x>> \in runs
         /\ row.component[x] \in {"planned", "cancelled", "skipped", "none"} =>
              <<i, x>> \notin runs
         /\ row.plan.component[x] = "planned" =>
              row.component[x] \notin {"skipped", "none"}
         /\ row.status = "complete" /\ row.plan.component[x] = "planned" =>
              row.component[x] = "complete" /\ ~row.detail[x]

\* A handler that has not settled its row yet agrees with it, as long as the
\* sweep has not taken it.
HandInv(c) ==
    LET j == job[c] row == executions[job[c].exec] run == <<j.exec, j.comp>> IN
    job[c] # NoJob /\ job[c].exec \in DOMAIN executions =>
      /\ /\ j.pc \in {"precheck", "start", "collect", "persist", "finish"}
         /\ j.comp = "web"
         => row.component["code"] = j.plan.component["code"]
      /\ j.pc \in {"precheck", "start"} => row.component[j.comp] = "planned"
      /\ j.pc \in {"collect", "persist"} =>
           row.component[j.comp] = "running" /\ run \notin runs
      /\ j.pc = "finish" =>
           /\ j.result \in {"complete", "failed", "cancelled"}
           /\ j.result = "complete" => run \in runs
           /\ j.result = "cancelled" => run \notin runs

EvidenceInv ==
    /\ \A i \in DOMAIN executions : RowInv(i)
    /\ \A c \in Callers : HandInv(c)

\* A step of a caller touches its own row and the row it inserts; another row
\* it can only delete, with its runs.
LEMMA OtherRows ==
  ASSUME TypeOK, NEW c \in Callers, CallerStep(c),
         NEW i \in DOMAIN executions', i # job[c].exec, i # nextId
  PROVE  /\ i \in DOMAIN executions
         /\ executions'[i] = executions[i]
         /\ \A x \in Components : <<i, x>> \in runs' <=> <<i, x>> \in runs
<1> DEFINE j == job[c]
<1>1. job[c] # NoJob /\ j \in Job
  BY StepHasJob, WrittenRows
<1>2. executions \in [DOMAIN executions -> Row]
  BY DEF TypeOK, TablesOK
<1>3. CASE UNCHANGED <<executions, runs>>
  BY <1>3
<1>4. CASE \E ok \in BOOLEAN : AdmitNew(c, ok)
  BY <1>2, <1>4 DEF AdmitNew, Insert
<1>5. CASE \E ok \in BOOLEAN : CancelBeforeStart(c, ok) \/ Start(c, ok)
  BY <1>2, <1>5
  DEF CancelBeforeStart, CanCancel, Cancelled, Start, CanStart, Started, Set
<1>6. CASE \E ok \in BOOLEAN : Finish(c, ok)
  BY <1>2, <1>6, FinishShape DEF CanFinish, Set
<1>7. CASE \E ok \in BOOLEAN : Retain(c, ok)
  BY <1>2, <1>7 DEF Retain, Delete, RunsWithout
<1>8. CASE \E ok \in BOOLEAN, detail \in BOOLEAN : Persist(c, ok, detail)
  BY <1>8 DEF Persist
<1> QED
  BY <1>3, <1>4, <1>5, <1>6, <1>7, <1>8
  DEF CallerStep, AdmitReused, AdmitRefused, Precheck, SkipCode, CollectFails,
      Collected, PersistOrphan, Link, ScoreFails, Ineligible, DbFails, Record,
      tables

\* The steps of a handler that write neither the table nor the runs.
QuietStep(c) ==
    \/ AdmitReused(c) \/ AdmitRefused(c) \/ Precheck(c) \/ SkipCode(c)
    \/ \E result \in {"failed", "cancelled"} : CollectFails(c, result)
    \/ Collected(c) \/ PersistOrphan(c) \/ Link(c) \/ ScoreFails(c)
    \/ Record(c) \/ Ineligible(c) \/ DbFails(c)

LEMMA QuietHand ==
  ASSUME TypeOK, EvidenceInv, NEW c \in Callers, QuietStep(c)
  PROVE  /\ HandInv(c)'
         /\ UNCHANGED <<executions, runs>>
<1> DEFINE j == job[c]
<1>1. j # NoJob /\ j \in Job
  BY StepHasJob, WrittenRows DEF QuietStep, CallerStep
<1>2. HandInv(c) /\ job \in [Callers -> Job \cup {NoJob}]
  BY DEF EvidenceInv, TypeOK, JobsOK
<1>3. UNCHANGED <<executions, runs>>
  BY DEF QuietStep, AdmitReused, AdmitRefused, Precheck, SkipCode,
     CollectFails, Collected, PersistOrphan, Link, ScoreFails, Record,
     Ineligible, DbFails, tables
<1>4. CASE job'[c] = NoJob
  BY <1>3, <1>4 DEF HandInv
<1>5. CASE \E p \in {"link", "retain", "record"} :
             job'[c] = [j EXCEPT !.pc = p]
  BY <1>1, <1>3, <1>5 DEF HandInv, Job
<1>6. CASE Precheck(c)
  <2>1. job'[c] = [j EXCEPT !.pc = "start"] /\ j.pc = "precheck"
    BY <1>2, <1>6 DEF Precheck, At, Goto
  <2> QED
    BY <1>1, <1>2, <1>3, <2>1 DEF HandInv, Job
<1>7. CASE SkipCode(c)
  <2>1. /\ job'[c] = [j EXCEPT !.pc = "finish", !.result = "cancelled",
                               !.detail = TRUE]
        /\ j.pc = "start" /\ j.comp = "code"
    BY <1>2, <1>7 DEF SkipCode, SkipsCode, At, Goto
  <2>2. ASSUME j.exec \in DOMAIN executions
        PROVE  <<j.exec, "code">> \notin runs
    <3>1. executions[j.exec].component["code"] = "planned"
      BY <1>1, <1>2, <2>1, <2>2 DEF HandInv
    <3>2. RowInv(j.exec) /\ "code" \in Components
      BY <2>2 DEF EvidenceInv, Components
    <3> QED
      BY ONLY <3>1, <3>2 DEF RowInv
  <2> QED
    BY <1>1, <1>2, <1>3, <2>1, <2>2 DEF HandInv, Job
<1>8. CASE \E r \in {"failed", "cancelled"} : CollectFails(c, r)
  <2>1. PICK r \in {"failed", "cancelled"} :
          /\ job'[c] = [j EXCEPT !.pc = "finish", !.result = r,
                                 !.detail = TRUE]
          /\ j.pc = "collect"
    BY <1>2, <1>8 DEF CollectFails, At, Goto
  <2> QED
    BY <1>1, <1>2, <1>3, <2>1 DEF HandInv, Job
<1>9. CASE Collected(c)
  <2>1. job'[c] = [j EXCEPT !.pc = "persist"] /\ j.pc = "collect"
    BY <1>2, <1>9 DEF Collected, At, Goto
  <2> QED
    BY <1>1, <1>2, <1>3, <2>1 DEF HandInv, Job
<1>10. CASE /\ j.pc = "persist"
            /\ job'[c] = [j EXCEPT !.pc = "finish", !.result = "failed",
                                   !.detail = TRUE]
  BY <1>1, <1>2, <1>3, <1>10 DEF HandInv, Job
<1>11. CASE PersistOrphan(c) \/ DbFails(c)
  <2>1. job'[c] = OnError(j)
    BY <1>2, <1>11 DEF PersistOrphan, DbFails, Goto
  <2>2. CASE j.pc = "persist"
    BY <1>10, <2>1, <2>2, OnErrorCases
  <2>3. CASE j.pc = "retain"
    BY <1>5, <2>1, <2>3, OnErrorCases
  <2>4. CASE j.pc \notin {"persist", "retain"}
    BY <1>4, <2>1, <2>4, OnErrorCases
  <2> QED
    BY <1>3, <2>2, <2>3, <2>4
<1>12. CASE Link(c) \/ ScoreFails(c)
  BY <1>2, <1>3, <1>5, <1>12 DEF Link, ScoreFails, Goto
<1>13. CASE AdmitReused(c) \/ AdmitRefused(c) \/ Ineligible(c) \/ Record(c)
  BY <1>2, <1>3, <1>4, <1>13
  DEF AdmitReused, AdmitRefused, Ineligible, Record, Return, Goto
<1> QED
  BY <1>3, <1>6, <1>7, <1>8, <1>9, <1>11, <1>12, <1>13 DEF QuietStep

\* The statements that write a row keep it in agreement with the runs.
LEMMA NewRowInv ==
  ASSUME TypeOK, NEW c \in Callers, NEW ok \in BOOLEAN, AdmitNew(c, ok),
         NEW i, i = nextId
  PROVE  RowInv(i)' /\ HandInv(c)'
<1> DEFINE j == job[c]
           row == NewRow(j.key, j.plan, j.at)
           x == [j EXCEPT !.exec = nextId, !.comp = FirstComponent(j.plan),
                          !.pc = IF j.plan.class = "verification"
                                   THEN "start" ELSE "precheck"]
<1>1. j # NoJob /\ j \in Job /\ j.pc = "admit"
  BY DEF AdmitNew, At, TypeOK, JobsOK
<1>2. /\ executions' = Insert(executions, nextId, row)
      /\ runs' = runs /\ Reply(c, ok, x)
  BY DEF AdmitNew
<1>3. executions'[i] = row
  BY <1>2 DEF Insert
<1>4. \A y \in Components : <<i, y>> \notin runs'
  BY <1>2 DEF TypeOK, TablesOK
<1>5. /\ row.component = j.plan.component /\ row.plan = j.plan
      /\ row.status = "planned"
  BY DEF NewRow
<1>6. /\ j.plan \in Plans
      /\ j.plan.component \in [Components -> {"planned", "skipped", "none"}]
      /\ \E y \in Components : j.plan.component[y] = "planned"
  BY <1>1, ScanExecutionAssumption DEF Job
<1> HIDE DEF row
<1>7. \A y \in Components :
        row.component[y] \in {"planned", "skipped", "none"}
  BY <1>5, <1>6
<1>8. RowInv(i)'
  BY <1>3, <1>4, <1>5, <1>7 DEF RowInv
<1>9. j.plan.component[FirstComponent(j.plan)] = "planned"
  BY <1>6 DEF FirstComponent, Components
<1>10. /\ x.exec = i /\ x.comp = FirstComponent(j.plan)
       /\ x.pc \in {"start", "precheck"} /\ x.plan = j.plan
  BY <1>1 DEF Job
<1> HIDE DEF x
<1>11. CASE ok
  <2>1. job'[c] = x
    BY <1>2, <1>11 DEF Reply, Goto, TypeOK, JobsOK
  <2> QED
    BY <1>3, <1>5, <1>8, <1>9, <1>10, <2>1 DEF HandInv
<1>12. CASE ~ok
  <2>1. job'[c] = NoJob
    BY <1>1, <1>2, <1>12, OnErrorCases DEF Reply, Goto, TypeOK, JobsOK
  <2> QED
    BY <1>8, <2>1 DEF HandInv
<1> QED
  BY <1>11, <1>12

\* An execution that comes out complete is whole: it is settled only when no
\* collector is left, and complete only if none failed or was cancelled.
LEMMA FinishedWhole ==
  ASSUME NEW r \in Row, NEW c \in Components, NEW result \in ComponentStatus,
         NEW det \in BOOLEAN, NEW n \in Nat, r.status \in OpenStatus
  PROVE  LET f == FinishedRow(r, c, result, det, n) IN
         /\ f.plan = r.plan
         /\ f.status = "complete" =>
              \A x \in Components :
                 f.component[x] \notin {"skipped", "none"} =>
                    f.component[x] = "complete" /\ ~f.detail[x]
<1> DEFINE component == [r.component EXCEPT ![c] = result]
           detail == [r.detail EXCEPT ![c] = det]
           row == [r EXCEPT !.component = component, !.detail = detail]
           o == Outcome(component, detail)
           f == FinishedRow(r, c, result, det, n)
<1>1. component \in [Components -> ComponentStatus]
  BY DEF Row
<1>2. o = "complete" =>
        /\ \A x \in Components : component[x] \notin {"failed", "cancelled"}
        /\ \A x \in Components : component[x] = "complete" => ~detail[x]
  BY DEF Outcome
<1>3. f = IF Unsettled(component) THEN row
          ELSE [row EXCEPT !.status = o, !.completed = n]
  BY DEF FinishedRow
<1> HIDE DEF component, detail, o, f
<1>4. /\ row.status = r.status /\ row.plan = r.plan
      /\ row.component = component /\ row.detail = detail
      /\ row \in [key : {r.key}, plan : {r.plan}, status : {r.status},
                  component : {component}, detail : {detail},
                  started : {r.started}, completed : {r.completed}]
  BY DEF Row
<1> HIDE DEF row
<1>5. /\ f.plan = r.plan /\ f.component = component /\ f.detail = detail
      /\ f.status = IF Unsettled(component) THEN r.status ELSE o
  BY <1>3, <1>4
<1>6. f.status = "complete" => ~Unsettled(component) /\ o = "complete"
  BY <1>5 DEF OpenStatus
<1>7. ~Unsettled(component) =>
        \A x \in Components :
          component[x] \in {"complete", "failed", "cancelled", "skipped", "none"}
  BY <1>1 DEF Unsettled, OpenStatus, ComponentStatus
<1>8. f.status = "complete" =>
        \A x \in Components : component[x] \notin {"skipped", "none"} =>
           component[x] = "complete" /\ ~detail[x]
  BY <1>2, <1>6, <1>7
<1> QED
  BY <1>5, <1>8 DEF f

\* The steps that change the caller's own row: what they write, and where they
\* leave the caller if the answer arrives.
LEMMA OwnRowInv ==
  ASSUME TypeOK, EvidenceInv, NEW c \in Callers, NEW ok \in BOOLEAN,
         \/ CancelBeforeStart(c, ok) \/ Start(c, ok) \/ Finish(c, ok),
         NEW i, i = job[c].exec
  PROVE  HandInv(c)' /\ RowInv(i)'
<1> DEFINE j == job[c]
           row == executions[i]
<1>1. j # NoJob /\ j \in Job /\ i \in DOMAIN executions /\ row \in Row
  BY FinishShape DEF CancelBeforeStart, CanCancel, Start, CanStart, CanFinish,
     At, TypeOK, TablesOK, JobsOK
<1>2. RowInv(i) /\ HandInv(c) /\ job \in [Callers -> Job \cup {NoJob}]
  BY <1>1 DEF EvidenceInv, TypeOK, JobsOK
<1>3. /\ executions \in [DOMAIN executions -> Row]
      /\ j.comp \in Components /\ j.exec = i
  BY <1>1 DEF TypeOK, TablesOK, Job
<1>4. CASE CancelBeforeStart(c, ok)
  <2> DEFINE r == CancelledRow(row, now)
  <2>1. /\ executions' = Set(executions, i, r) /\ runs' = runs
        /\ Reply(c, ok, [j EXCEPT !.pc = "retain"]) /\ j.pc = "precheck"
    BY <1>4 DEF CancelBeforeStart, Cancelled, At
  <2>2. executions'[i] = r
    BY <1>1, <2>1 DEF Set
  <2>3. /\ r.status = "cancelled" /\ r.plan = row.plan
        /\ \A x \in Components :
             r.component[x] = IF row.component[x] = "planned" THEN "cancelled"
                              ELSE row.component[x]
    BY <1>1 DEF CancelledRow, Row
  <2> HIDE DEF r
  <2>4. RowInv(i)'
    BY <1>2, <2>1, <2>2, <2>3 DEF RowInv
  <2>5. job'[c] = NoJob \/ job'[c] = [j EXCEPT !.pc = "retain"]
    BY <1>2, <2>1, OnErrorCases DEF Reply, Goto
  <2>6. HandInv(c)'
    BY <1>1, <2>5 DEF HandInv, Job
  <2> QED
    BY <2>4, <2>6
<1>5. CASE Start(c, ok)
  <2> DEFINE r == [row EXCEPT !.status = "running",
                              !.component[j.comp] = "running"]
  <2>1. /\ executions' = Set(executions, i, r) /\ runs' = runs
        /\ Reply(c, ok, [j EXCEPT !.pc = "collect"]) /\ j.pc = "start"
        /\ row.component[j.comp] = "planned"
    BY <1>5 DEF Start, Started, CanStart, At
  <2>2. executions'[i] = r
    BY <1>1, <2>1 DEF Set
  <2>3. /\ r.status = "running" /\ r.plan = row.plan
        /\ r.component = [row.component EXCEPT ![j.comp] = "running"]
        /\ row.component \in [Components -> ComponentStatus]
    BY <1>1 DEF Row
  <2> HIDE DEF r
  <2>4. RowInv(i)'
    BY <1>2, <1>3, <2>1, <2>2, <2>3 DEF RowInv
  <2>5. job'[c] = NoJob \/ job'[c] = [j EXCEPT !.pc = "collect"]
    BY <1>2, <2>1, OnErrorCases DEF Reply, Goto
  <2>6. <<i, j.comp>> \notin runs
    BY <1>2, <1>3, <2>1 DEF RowInv
  <2>7. HandInv(c)'
    BY <1>1, <1>2, <1>3, <2>1, <2>2, <2>3, <2>5, <2>6
    DEF HandInv, Job, Components
  <2> QED
    BY <2>4, <2>7
<1>6. CASE Finish(c, ok)
  <2> DEFINE r == FinishedRow(row, j.comp, j.result, j.detail, now)
             n == AfterFinish(j, r)
  <2>1. /\ executions' = Set(executions, i, r) /\ runs' = runs
        /\ Reply(c, ok, AfterFinish(j, Set(executions, i, r)[i]))
        /\ j.pc = "finish" /\ row.status \in OpenStatus
    BY <1>6, FinishShape DEF At, CanFinish
  <2>2. executions'[i] = r /\ Reply(c, ok, n)
    BY <1>1, <2>1 DEF Set
  <2>3. /\ j.result \in {"complete", "failed", "cancelled"}
        /\ j.result = "complete" => <<i, j.comp>> \in runs
        /\ j.result = "cancelled" => <<i, j.comp>> \notin runs
        /\ j.comp = "web" => row.component["code"] = j.plan.component["code"]
    BY <1>1, <1>2, <2>1 DEF HandInv
  <2>4. /\ r.component = [row.component EXCEPT ![j.comp] = j.result]
        /\ row.component \in [Components -> ComponentStatus]
    <3>1. /\ j.comp \in Components /\ j.result \in ComponentStatus
          /\ j.detail \in BOOLEAN /\ now \in Nat
      BY <1>1 DEF Job, TypeOK
    <3>2. row.component \in [Components -> ComponentStatus]
      BY <1>1 DEF Row
    <3> HIDE DEF row, j
    <3>3. r.component = [row.component EXCEPT ![j.comp] = j.result]
      BY <1>1, <3>1, FinishedRowType
    <3> QED
      BY <3>2, <3>3
  <2>5. /\ r.plan = row.plan
        /\ r.status = "complete" =>
             \A x \in Components :
                r.component[x] \notin {"skipped", "none"} =>
                   r.component[x] = "complete" /\ ~r.detail[x]
    BY <1>1, <2>1, FinishedWhole DEF Job, TypeOK
  <2> HIDE DEF r, n
  <2>6. RowInv(i)'
    BY <1>2, <1>3, <2>1, <2>2, <2>3, <2>4, <2>5 DEF RowInv
  <2>7. job'[c] = NoJob \/ job'[c] = n
    BY <1>2, <2>1, <2>2, OnErrorCases DEF Reply, Goto
  <2>8. n.pc = "start" =>
           /\ n.comp = "code" /\ n.exec = i /\ j.comp = "web"
           /\ j.plan.component["code"] = "planned"
    BY <1>1 DEF n, AfterFinish, Job
  <2>9. n.pc \in {"start", "link", "retain"}
    BY <1>1, AfterFinishType DEF n
  <2>10. HandInv(c)'
    BY <1>3, <2>2, <2>3, <2>4, <2>7, <2>8, <2>9 DEF HandInv, Components
  <2> QED
    BY <2>6, <2>10
<1> QED
  BY <1>4, <1>5, <1>6

LEMMA OwnRunInv ==
  ASSUME TypeOK, EvidenceInv, NEW c \in Callers, NEW ok \in BOOLEAN,
         NEW detail \in BOOLEAN, Persist(c, ok, detail),
         NEW i, i = job[c].exec
  PROVE  HandInv(c)' /\ RowInv(i)'
<1> DEFINE j == job[c]
           x == [j EXCEPT !.pc = "finish", !.result = "complete",
                          !.detail = detail]
<1>1. /\ j # NoJob /\ j \in Job /\ i \in DOMAIN executions
      /\ job \in [Callers -> Job \cup {NoJob}]
  BY DEF Persist, At, TypeOK, JobsOK
<1>2. /\ runs' = runs \cup {<<i, j.comp>>} /\ executions' = executions
      /\ Reply(c, ok, x) /\ j.pc = "persist"
  BY DEF Persist, At
<1>3. RowInv(i) /\ HandInv(c)
  BY <1>1 DEF EvidenceInv
<1>4. executions[i].component[j.comp] = "running"
  BY <1>1, <1>2, <1>3 DEF HandInv
<1>5. RowInv(i)'
  BY <1>2, <1>3, <1>4 DEF RowInv
<1>6. CASE ok
  <2>1. job'[c] = x
    BY <1>1, <1>2, <1>6 DEF Reply, Goto
  <2> QED
    BY <1>1, <1>2, <1>3, <1>5, <2>1 DEF HandInv, Job
<1>7. CASE ~ok
  <2>1. job'[c] = [j EXCEPT !.pc = "finish", !.result = "failed",
                            !.detail = TRUE]
    BY <1>1, <1>2, <1>7, OnErrorCases DEF Reply, Goto
  <2> QED
    BY <1>1, <1>2, <1>3, <1>5, <2>1 DEF HandInv, Job
<1> QED
  BY <1>6, <1>7

LEMMA OwnPruneInv ==
  ASSUME TypeOK, EvidenceInv, NEW c \in Callers, NEW ok \in BOOLEAN,
         Retain(c, ok)
  PROVE  /\ HandInv(c)'
         /\ \A i \in DOMAIN executions' : RowInv(i)'
<1> DEFINE j == job[c]
           pruned == Pruned(executions, j.plan)
<1>1. /\ j # NoJob /\ j \in Job /\ j.pc = "retain"
      /\ job \in [Callers -> Job \cup {NoJob}]
  BY DEF Retain, At, TypeOK, JobsOK
<1>2. /\ executions' = Delete(executions, pruned)
      /\ runs' = RunsWithout(pruned)
      /\ Reply(c, ok, [j EXCEPT !.pc = "record"])
  BY DEF Retain
<1> HIDE DEF pruned
<1>3. ASSUME NEW i \in DOMAIN executions' PROVE RowInv(i)'
  <2>1. /\ i \in DOMAIN executions /\ executions'[i] = executions[i]
        /\ \A x \in Components : <<i, x>> \in runs' <=> <<i, x>> \in runs
    BY <1>2 DEF Delete, RunsWithout
  <2> QED
    BY <2>1 DEF EvidenceInv, RowInv
<1>4. job'[c] = [j EXCEPT !.pc = "record"]
  BY <1>1, <1>2, OnErrorCases DEF Reply, Goto
<1>5. HandInv(c)'
  BY <1>1, <1>4 DEF HandInv, Job
<1> QED
  BY <1>3, <1>5

LEMMA CallerEvidence ==
  ASSUME TypeOK, OneOwner, EvidenceInv, NEW c \in Callers, CallerStep(c)
  PROVE  EvidenceInv'
<1>1. job[c] # NoJob
  BY StepHasJob
<1>2. JobMove(c) /\ job \in [Callers -> Job \cup {NoJob}]
  BY CallerMove DEF TypeOK, JobsOK
<1>3. /\ HandInv(c)'
      /\ \A i \in DOMAIN executions' :
            i = job[c].exec \/ i = nextId => RowInv(i)'
  <2>1. nextId \notin DOMAIN executions
    BY DEF TypeOK, TablesOK
  <2>2. CASE QuietStep(c)
    <3>1. HandInv(c)' /\ UNCHANGED <<executions, runs>>
      BY <2>2, QuietHand
    <3> QED
      BY <3>1 DEF EvidenceInv, RowInv
  <2>3. CASE \E ok \in BOOLEAN : AdmitNew(c, ok)
    <3>1. PICK ok \in BOOLEAN : AdmitNew(c, ok)
      BY <2>3
    <3>2. HandInv(c)' /\ \A i : i = nextId => RowInv(i)'
      <4>1. ASSUME NEW i, i = nextId PROVE RowInv(i)' /\ HandInv(c)'
        BY ONLY TypeOK, <3>1, <4>1, NewRowInv, Zenon
      <4> QED
        BY ONLY <4>1, Zenon
    <3>3. ASSUME NEW i \in DOMAIN executions', i = job[c].exec, i # nextId
          PROVE  RowInv(i)'
      BY <3>1, <3>3 DEF AdmitNew, Insert, EvidenceInv, RowInv
    <3> QED
      BY <3>2, <3>3
  <2>4. CASE \E ok \in BOOLEAN :
                CancelBeforeStart(c, ok) \/ Start(c, ok) \/ Finish(c, ok)
    <3>1. PICK ok \in BOOLEAN :
            CancelBeforeStart(c, ok) \/ Start(c, ok) \/ Finish(c, ok)
      BY <2>4
    <3>2. DOMAIN executions' = DOMAIN executions
      BY <3>1, FinishShape DEF CancelBeforeStart, Cancelled, Start, Started, Set
    <3>3. HandInv(c)' /\ \A i : i = job[c].exec => RowInv(i)'
      BY <3>1, OwnRowInv
    <3> QED
      BY <2>1, <3>2, <3>3
  <2>5. CASE \E ok \in BOOLEAN, detail \in BOOLEAN : Persist(c, ok, detail)
    <3>1. PICK ok \in BOOLEAN, detail \in BOOLEAN : Persist(c, ok, detail)
      BY <2>5
    <3>2. executions' = executions
      BY <3>1 DEF Persist
    <3>3. HandInv(c)' /\ \A i : i = job[c].exec => RowInv(i)'
      BY <3>1, OwnRunInv
    <3> QED
      BY <2>1, <3>2, <3>3
  <2>6. CASE \E ok \in BOOLEAN : Retain(c, ok)
    BY <2>6, OwnPruneInv
  <2> QED
    BY <2>2, <2>3, <2>4, <2>5, <2>6 DEF CallerStep, QuietStep
<1>4. ASSUME NEW i \in DOMAIN executions' PROVE RowInv(i)'
  <2>1. CASE i = job[c].exec \/ i = nextId
    BY <1>3, <2>1
  <2>2. CASE i # job[c].exec /\ i # nextId
    <3>1. /\ i \in DOMAIN executions /\ executions'[i] = executions[i]
          /\ \A x \in Components : <<i, x>> \in runs' <=> <<i, x>> \in runs
      BY <2>2, OtherRows
    <3> QED
      BY <3>1 DEF EvidenceInv, RowInv
  <2> QED
    BY <2>1, <2>2
<1>5. ASSUME NEW d \in Callers, d # c PROVE HandInv(d)'
  <2>1. job'[d] = job[d]
    BY <1>2, <1>5 DEF JobMove
  <2>2. SUFFICES ASSUME job[d] # NoJob, job[d].exec \in DOMAIN executions'
                 PROVE  HandInv(d)'
    BY <2>1 DEF HandInv
  <2> DEFINE i == job[d].exec
  <2>3. i \in Nat /\ i < nextId
    BY <2>2, <1>2 DEF TypeOK, Job
  <2>4. i # nextId /\ nextId \in Nat
    BY <2>3 DEF TypeOK, TablesOK
  <2>5. i # job[c].exec
    <3>1. nextId' \in Nat /\ DOMAIN executions' \subseteq 1 .. nextId' - 1
      BY <1>1, CallerTables DEF TablesOK
    <3>2. i # 0
      BY <2>2, <3>1
    <3> QED
      BY <1>1, <1>5, <2>2, <3>2 DEF OneOwner
  <2>6. /\ i \in DOMAIN executions /\ executions'[i] = executions[i]
        /\ \A x \in Components : <<i, x>> \in runs' <=> <<i, x>> \in runs
    BY <2>2, <2>4, <2>5, OtherRows
  <2>7. job[d].comp \in Components
    BY <1>2, <2>2 DEF Job
  <2> QED
    BY <2>1, <2>2, <2>6, <2>7 DEF EvidenceInv, HandInv
<1> QED
  BY <1>3, <1>4, <1>5 DEF EvidenceInv

Inv == TypeOK /\ OneOwner /\ EvidenceInv

LEMMA InitInv == Init => Inv
<1> SUFFICES ASSUME Init PROVE EvidenceInv
  BY InitType DEF Inv
<1> QED
  BY DEF Init, EvidenceInv, HandInv

\* Steps that leave the table and the runs alone, and each job either alone or
\* without an execution in the table, or as it was but for `cancelled`.
LEMMA StillEvidence ==
  ASSUME TypeOK, EvidenceInv, UNCHANGED <<executions, runs>>,
         \A c \in Callers :
           \/ job'[c] = job[c]
           \/ job'[c] = NoJob
           \/ job'[c].exec = 0
           \/ job[c] # NoJob /\ job'[c] = [job[c] EXCEPT !.cancelled = TRUE]
  PROVE  EvidenceInv'
<1>1. \A i \in DOMAIN executions' : RowInv(i)'
  BY DEF EvidenceInv, RowInv
<1>2. ASSUME NEW c \in Callers PROVE HandInv(c)'
  <2>1. HandInv(c) /\ job[c] \in Job \cup {NoJob}
    BY DEF EvidenceInv, TypeOK, JobsOK
  <2>2. CASE job'[c] = job[c] \/ job'[c] = NoJob
    BY <2>1, <2>2 DEF HandInv
  <2>3. CASE job'[c].exec = 0
    BY <2>3 DEF HandInv, TypeOK, TablesOK
  <2>4. CASE job[c] # NoJob /\ job'[c] = [job[c] EXCEPT !.cancelled = TRUE]
    BY <2>1, <2>4 DEF HandInv, Job
  <2> QED
    BY <1>2, <2>2, <2>3, <2>4
<1> QED
  BY <1>1, <1>2 DEF EvidenceInv

LEMMA NextInv == Inv /\ [Next]_vars => Inv'
<1> SUFFICES ASSUME Inv, [Next]_vars PROVE EvidenceInv'
  BY NextType DEF Inv
<1>1. TypeOK /\ OneOwner /\ EvidenceInv
      /\ job \in [Callers -> Job \cup {NoJob}]
  BY DEF Inv, TypeOK, JobsOK
<1>2. ASSUME NEW c \in Callers, CallerStep(c) PROVE EvidenceInv'
  BY <1>1, <1>2, CallerEvidence
<1>3. ASSUME NEW c \in Callers, NEW k \in Keys, NEW p \in Plans,
             Request(c, k, p)
      PROVE  EvidenceInv'
  BY <1>1, <1>3, StillEvidence DEF Request, Goto, tables
<1>4. ASSUME NEW c \in Callers, Cancel(c) PROVE EvidenceInv'
  BY <1>1, <1>4, StillEvidence DEF Cancel, Goto, tables
<1>5. CASE Tick \/ UNCHANGED vars
  BY <1>1, <1>5, StillEvidence DEF Tick, vars, tables
<1>6. CASE Crash
  BY <1>1, <1>6, StillEvidence DEF Crash, tables
<1>7. CASE Sweep
  <2> DEFINE gone == Abandoned(executions, now)
  <2>1. /\ executions' = Delete(executions, gone)
        /\ runs' = RunsWithout(gone) /\ job' = job
    BY <1>7 DEF Sweep
  <2> HIDE DEF gone
  <2>2. ASSUME NEW i \in DOMAIN executions'
        PROVE  /\ i \in DOMAIN executions /\ executions'[i] = executions[i]
               /\ \A x \in Components : <<i, x>> \in runs' <=> <<i, x>> \in runs
    BY <2>1 DEF Delete, RunsWithout
  <2>3. ASSUME NEW c \in Callers PROVE HandInv(c)'
    <3>1. job[c] # NoJob => job[c].comp \in Components
      BY <1>1 DEF Job
    <3> QED
      BY <1>1, <2>1, <2>2, <3>1 DEF EvidenceInv, HandInv
  <2>4. \A i \in DOMAIN executions' : RowInv(i)'
    BY <1>1, <2>2 DEF EvidenceInv, RowInv
  <2> QED
    BY <2>3, <2>4 DEF EvidenceInv
<1> QED
  BY <1>2, <1>3, <1>4, <1>5, <1>6, <1>7 DEF Next

\* In every reachable state, after any failures and crashes, a component shown
\* as complete has its run in the history and a cancelled one has none.
THEOREM EvidenceIsBacked == Spec => []EvidenceBacksStatus
<1>1. Inv => EvidenceBacksStatus
  BY DEF Inv, EvidenceInv, RowInv, EvidenceBacksStatus
<1> QED
  BY InitInv, NextInv, <1>1, PTL DEF Spec

\* Partial evidence never appears complete: an execution shown as complete has
\* every planned component complete, without a reservation, with its run.
THEOREM CompleteMeansWhole == Spec => []CompleteIsWhole
<1>1. Inv => CompleteIsWhole
  BY DEF Inv, EvidenceInv, RowInv, CompleteIsWhole
<1> QED
  BY InitInv, NextInv, <1>1, PTL DEF Spec

-----------------------------------------------------------------------------
(* Keys, frozen rows and owners of open rows: what a handler at work may    *)
(* take for granted about its row, on top of the invariant above.           *)

Work == {"precheck", "start", "collect", "persist", "finish"}

Idle(j) == j = NoJob \/ j.pc \notin Work

\* The row of a handler at work is its own and open, and planned until a
\* component starts; at the code component the web component has settled.  If
\* the row is gone, the sweep took it.
WorkInv(c) ==
    LET j == job[c] row == executions[job[c].exec] IN
    ~Idle(job[c]) =>
      IF j.exec \in DOMAIN executions
        THEN /\ row.key = j.key /\ row.started = j.at
             /\ row.status \in OpenStatus
             /\ j.pc = "precheck" => row.status = "planned"
             /\ j.comp = "code" => row.component["web"] \notin OpenStatus
        ELSE now - j.at > AbandonAfter

\* The UNIQUE index on the idempotency key.
OneRowPerKey ==
    \A i, k \in DOMAIN executions :
        executions[i].key = executions[k].key => i = k

KeyInv == OneRowPerKey /\ \A c \in Callers : WorkInv(c)

FullInv == Inv /\ KeyInv

LEMMA WorkingIsNotIdle ==
  ASSUME NEW c PROVE Working(c) <=> ~Idle(job[c])
BY DEF Working, At, Idle, Work

-----------------------------------------------------------------------------
(* Handlers that go on with the row they have.                             *)

\* A handler at work stays at work, on the same component of the same row.
Carried(c) ==
    /\ ~Idle(job[c]) /\ ~Idle(job'[c])
    /\ job'[c].exec = job[c].exec /\ job'[c].key = job[c].key
    /\ job'[c].at = job[c].at /\ job'[c].comp = job[c].comp
    /\ job'[c].pc = "precheck" => job[c].pc = "precheck"

\* The row of i is as it was, or gone, and then only when it was settled or old.
RowStays(i) ==
    /\ i \in DOMAIN executions' =>
         i \in DOMAIN executions /\ executions'[i] = executions[i]
    /\ i \in DOMAIN executions \ DOMAIN executions' =>
         \/ executions[i].status \notin OpenStatus
         \/ executions[i].started < now - AbandonAfter

LEMMA CarriedWork ==
  ASSUME TypeOK, now' \in Nat, now' >= now, NEW c \in Callers, WorkInv(c),
         Carried(c) \/ Idle(job'[c]), RowStays(job[c].exec)
  PROVE  WorkInv(c)'
<1> SUFFICES ASSUME Carried(c) PROVE WorkInv(c)'
  BY DEF WorkInv
<1> DEFINE i == job[c].exec
<1>1. job[c] # NoJob /\ job[c] \in Job
  BY DEF Carried, Idle, TypeOK, JobsOK
<1>2. /\ job[c].at \in Nat /\ now \in Nat /\ now' \in Nat /\ now' >= now
      /\ AbandonAfter \in Nat
  BY <1>1, ScanExecutionAssumption DEF Job, TypeOK
<1>3. CASE i \in DOMAIN executions'
  BY <1>3 DEF RowStays, Carried, WorkInv
<1>4. CASE i \in DOMAIN executions \ DOMAIN executions'
  <2>1. executions[i].started = job[c].at /\ executions[i].status \in OpenStatus
    BY <1>4 DEF WorkInv, Carried
  <2>2. job[c].at < now - AbandonAfter
    BY <1>4, <2>1 DEF RowStays
  <2>3. now' - job[c].at > AbandonAfter
    BY <1>2, <2>2
  <2> QED
    BY <1>4, <2>3 DEF WorkInv, Carried
<1>5. CASE i \notin DOMAIN executions /\ i \notin DOMAIN executions'
  <2>1. now - job[c].at > AbandonAfter
    BY <1>5 DEF WorkInv, Carried
  <2>2. now' - job[c].at > AbandonAfter
    BY <1>2, <2>1
  <2> QED
    BY <1>5, <2>2 DEF WorkInv, Carried
<1> QED
  BY <1>3, <1>4, <1>5

\* A step that leaves the jobs alone carries whoever is at work.
LEMMA SameJobCarried ==
  ASSUME NEW c, job'[c] = job[c]
  PROVE  Carried(c) \/ Idle(job'[c])
BY DEF Carried

\* A step of a handler that writes nothing goes on or ends; what ends a handler
\* at work is a statement that found no row to change, or a failed operation.
LEMMA QuietMove ==
  ASSUME TypeOK, NEW c \in Callers, QuietStep(c)
  PROVE  /\ UNCHANGED executions
         /\ \/ Carried(c)
            \/ /\ Idle(job'[c])
               /\ Idle(job[c]) \/ Ineligible(c) \/ DbFails(c)
<1> DEFINE j == job[c]
<1>1. j # NoJob /\ j \in Job /\ job \in [Callers -> Job \cup {NoJob}]
  BY StepHasJob, WrittenRows DEF QuietStep, CallerStep, TypeOK, JobsOK
<1>2. UNCHANGED executions
  BY DEF QuietStep, AdmitReused, AdmitRefused, Precheck, SkipCode,
     CollectFails, Collected, PersistOrphan, Link, ScoreFails, Record,
     Ineligible, DbFails, tables
<1>3. ASSUME NEW x \in Job, x.exec = j.exec, x.key = j.key, x.at = j.at,
             x.comp = j.comp, j.pc \in Work, x.pc \in Work \ {"precheck"},
             job'[c] = x
      PROVE  Carried(c)
  BY <1>1, <1>3, NoJobAssumption DEF Carried, Idle
<1>4. CASE Precheck(c) \/ Collected(c)
  <2>1. PICK p \in {"start", "persist"} : job'[c] = [j EXCEPT !.pc = p]
    BY <1>1, <1>4 DEF Precheck, Collected, Goto
  <2>2. j.pc \in Work
    BY <1>4 DEF Precheck, Collected, At, Work
  <2>3. [j EXCEPT !.pc = p] \in Job
    BY <1>1 DEF Job, PC
  <2>4. Carried(c)
    BY <1>1, <1>3, <2>1, <2>2, <2>3 DEF Work, Job
  <2> QED
    BY <1>2, <2>4
<1>5. ASSUME NEW r \in {"failed", "cancelled"}, j.pc \in Work,
             job'[c] = [j EXCEPT !.pc = "finish", !.result = r, !.detail = TRUE]
      PROVE  Carried(c)
  <2>1. [j EXCEPT !.pc = "finish", !.result = r, !.detail = TRUE] \in Job
    BY <1>1, <1>5 DEF Job, PC, ComponentStatus
  <2> QED
    BY <1>1, <1>3, <1>5, <2>1 DEF Work, Job
<1>6. CASE SkipCode(c) \/ \E r \in {"failed", "cancelled"} : CollectFails(c, r)
  <2>1. \E r \in {"failed", "cancelled"} :
           /\ j.pc \in Work
           /\ job'[c] = [j EXCEPT !.pc = "finish", !.result = r,
                                  !.detail = TRUE]
    BY <1>1, <1>6 DEF SkipCode, CollectFails, At, Goto, Work
  <2> QED
    BY <1>2, <1>5, <2>1
<1>7. CASE PersistOrphan(c) \/ DbFails(c)
  <2>1. job'[c] = OnError(j) /\ (PersistOrphan(c) => j.pc = "persist")
    BY <1>1, <1>7 DEF PersistOrphan, DbFails, Goto, At
  <2>2. CASE j.pc = "persist"
    BY <1>2, <1>5, <2>1, <2>2, OnErrorCases DEF Work
  <2>3. CASE j.pc = "retain"
    <3>1. job'[c] = [j EXCEPT !.pc = "record"]
      BY <2>1, <2>3, OnErrorCases
    <3>2. job'[c].pc = "record" /\ ~PersistOrphan(c)
      BY <1>1, <2>1, <2>3, <3>1 DEF Job
    <3> QED
      BY <1>2, <1>7, <2>3, <3>2 DEF Idle, Work
  <2>4. CASE j.pc \notin {"persist", "retain"}
    <3>1. OnError(j) = NoJob
      BY <2>4, OnErrorCases
    <3> HIDE DEF j
    <3>2. job'[c] = NoJob /\ ~PersistOrphan(c)
      BY <2>1, <2>4, <3>1
    <3> QED
      BY <1>2, <1>7, <3>2 DEF Idle
  <2> QED
    BY <2>2, <2>3, <2>4
<1>8. CASE Link(c) \/ ScoreFails(c)
  BY <1>1, <1>2, <1>8 DEF Link, ScoreFails, At, Goto, Idle, Work, Job
<1>9. CASE AdmitReused(c) \/ AdmitRefused(c) \/ Record(c) \/ Ineligible(c)
  BY <1>1, <1>2, <1>9
  DEF AdmitReused, AdmitRefused, Record, Ineligible, Return, Goto, At, Idle,
      Work
<1> QED
  BY <1>4, <1>6, <1>7, <1>8, <1>9 DEF QuietStep

-----------------------------------------------------------------------------
(* The steps that write a row.                                             *)

LEMMA AdmitWork ==
  ASSUME TypeOK, KeyInv, NEW c \in Callers, NEW ok \in BOOLEAN, AdmitNew(c, ok)
  PROVE  /\ WorkInv(c)' /\ OneRowPerKey'
         /\ ok => ~Idle(job'[c]) /\ job'[c].exec = nextId
<1> DEFINE j == job[c]
           row == NewRow(j.key, j.plan, j.at)
           x == [j EXCEPT !.exec = nextId, !.comp = FirstComponent(j.plan),
                          !.pc = IF j.plan.class = "verification"
                                   THEN "start" ELSE "precheck"]
<1>1. /\ j # NoJob /\ j \in Job /\ j.pc = "admit" /\ nextId \in Nat \ {0}
      /\ job \in [Callers -> Job \cup {NoJob}]
      /\ ~Held(executions, j.key) /\ nextId \notin DOMAIN executions
  BY DEF AdmitNew, At, TypeOK, TablesOK, JobsOK
<1>2. /\ executions' = Insert(executions, nextId, row)
      /\ Reply(c, ok, x)
  BY DEF AdmitNew
<1>3. /\ executions'[nextId] = row
      /\ DOMAIN executions' = DOMAIN executions \cup {nextId}
      /\ \A i \in DOMAIN executions : executions'[i] = executions[i]
  BY <1>1, <1>2 DEF Insert
<1>4. /\ row.key = j.key /\ row.started = j.at /\ row.status = "planned"
      /\ row.component = j.plan.component
  BY DEF NewRow
<1>5. j.plan.component["web"] # "planned" =>
        j.plan.component["web"] \notin OpenStatus
  <2>1. j.plan.component \in [Components -> {"planned", "skipped", "none"}]
    BY <1>1, ScanExecutionAssumption DEF Job
  <2> QED
    BY <2>1 DEF Components, OpenStatus
<1> HIDE DEF row
<1>6. OneRowPerKey'
  BY <1>1, <1>3, <1>4 DEF KeyInv, OneRowPerKey, Held, Holds
<1>7. /\ x \in Job /\ x.exec = nextId /\ x.key = j.key /\ x.at = j.at
      /\ x.comp = FirstComponent(j.plan) /\ x.pc \in {"start", "precheck"}
  BY <1>1 DEF Job, PC, FirstComponent, Components
<1> HIDE DEF x
<1>8. CASE ok
  <2>1. job'[c] = x
    BY <1>1, <1>2, <1>8 DEF Reply, Goto
  <2>2. x.comp = "code" => row.component["web"] \notin OpenStatus
    BY <1>4, <1>5, <1>7 DEF FirstComponent
  <2>3. WorkInv(c)'
    BY <1>3, <1>4, <1>7, <2>1, <2>2 DEF WorkInv, OpenStatus
  <2>4. ~Idle(x)
    BY <1>7, NoJobAssumption DEF Idle, Work
  <2> QED
    BY <1>6, <1>7, <2>1, <2>3, <2>4
<1>9. CASE ~ok
  <2>1. job'[c] = NoJob
    BY <1>1, <1>2, <1>9, OnErrorCases DEF Reply, Goto
  <2> QED
    BY <1>6, <1>9, <2>1 DEF WorkInv, Idle
<1> QED
  BY <1>8, <1>9

LEMMA FinishedRest ==
  ASSUME NEW r \in Row, NEW c \in Components, NEW result \in ComponentStatus,
         NEW det \in BOOLEAN, NEW n \in Nat, r.status \in OpenStatus
  PROVE  LET f == FinishedRow(r, c, result, det, n) IN
         /\ f.key = r.key /\ f.plan = r.plan /\ f.started = r.started
         /\ f.status \in OpenStatus <=>
              Unsettled([r.component EXCEPT ![c] = result])
<1> DEFINE component == [r.component EXCEPT ![c] = result]
           detail == [r.detail EXCEPT ![c] = det]
           row == [r EXCEPT !.component = component, !.detail = detail]
           o == Outcome(component, detail)
           f == FinishedRow(r, c, result, det, n)
<1>1. o \in TerminalStatus
  BY OutcomeType
<1>2. f = IF Unsettled(component) THEN row
          ELSE [row EXCEPT !.status = o, !.completed = n]
  BY DEF FinishedRow
<1> HIDE DEF component, detail, o, f
<1>3. /\ row.status = r.status /\ row.key = r.key /\ row.plan = r.plan
      /\ row.started = r.started
      /\ row \in [key : {r.key}, plan : {r.plan}, status : {r.status},
                  component : {component}, detail : {detail},
                  started : {r.started}, completed : {r.completed}]
  BY DEF Row
<1> HIDE DEF row
<1>4. /\ f.key = r.key /\ f.plan = r.plan /\ f.started = r.started
      /\ f.status = IF Unsettled(component) THEN r.status ELSE o
  BY <1>2, <1>3
<1> QED
  BY <1>1, <1>4 DEF f, component, OpenStatus, TerminalStatus

LEMMA OwnRowWork ==
  ASSUME TypeOK, EvidenceInv, NEW c \in Callers, WorkInv(c), NEW ok \in BOOLEAN,
         \/ CancelBeforeStart(c, ok) \/ Start(c, ok) \/ Finish(c, ok),
         NEW i, i = job[c].exec
  PROVE  /\ WorkInv(c)'
         /\ DOMAIN executions' = DOMAIN executions /\ i \in DOMAIN executions
         /\ executions[i].status \in OpenStatus
         /\ executions'[i].key = executions[i].key
         /\ executions'[i].plan = executions[i].plan
         /\ ok => \/ executions'[i].status \notin OpenStatus
                  \/ ~Idle(job'[c]) /\ job'[c].exec = i
<1> DEFINE j == job[c]
           row == executions[i]
<1>1. /\ j # NoJob /\ j \in Job /\ i \in DOMAIN executions /\ row \in Row
      /\ job \in [Callers -> Job \cup {NoJob}] /\ ~Idle(j) /\ j.exec = i
      /\ j.comp \in Components
  BY FinishShape DEF CancelBeforeStart, CanCancel, Start, CanStart, CanFinish,
     At, TypeOK, TablesOK, JobsOK, Idle, Work, Job
<1>2. /\ HandInv(c)
      /\ row.key = j.key /\ row.started = j.at /\ row.status \in OpenStatus
      /\ j.comp = "code" => row.component["web"] \notin OpenStatus
  BY <1>1 DEF EvidenceInv, WorkInv
<1>3. row.component \in [Components -> ComponentStatus]
  BY <1>1 DEF Row
<1>4. CASE CancelBeforeStart(c, ok)
  <2> DEFINE r == CancelledRow(row, now)
  <2>1. /\ executions' = Set(executions, i, r)
        /\ Reply(c, ok, [j EXCEPT !.pc = "retain"]) /\ j.pc = "precheck"
    BY <1>4 DEF CancelBeforeStart, Cancelled, At
  <2>2. executions'[i] = r /\ DOMAIN executions' = DOMAIN executions
    BY <1>1, <2>1 DEF Set
  <2>3. r.status = "cancelled" /\ r.key = row.key /\ r.plan = row.plan
    BY <1>1 DEF CancelledRow, Row
  <2>4. Idle(job'[c])
    <3>1. CASE ok
      BY <1>1, <2>1, <3>1 DEF Reply, Goto, Idle, Work, Job
    <3>2. CASE ~ok
      BY <1>1, <2>1, <3>2, OnErrorCases DEF Reply, Goto, Idle
    <3> QED
      BY <3>1, <3>2
  <2> QED
    BY <1>1, <1>2, <2>2, <2>3, <2>4 DEF WorkInv, OpenStatus
<1>5. CASE Start(c, ok)
  <2> DEFINE r == [row EXCEPT !.status = "running",
                              !.component[j.comp] = "running"]
             x == [j EXCEPT !.pc = "collect"]
  <2>1. /\ executions' = Set(executions, i, r)
        /\ Reply(c, ok, x) /\ j.pc = "start"
    BY <1>5 DEF Start, Started, At
  <2>2. executions'[i] = r /\ DOMAIN executions' = DOMAIN executions
    BY <1>1, <2>1 DEF Set
  <2>3. /\ r.status = "running" /\ r.key = row.key /\ r.plan = row.plan
        /\ r.started = row.started
        /\ j.comp = "code" => r.component["web"] = row.component["web"]
    BY <1>1 DEF Row
  <2>4. /\ x \in Job /\ x.exec = i /\ x.key = j.key /\ x.at = j.at
        /\ x.comp = j.comp /\ x.pc = "collect"
    BY <1>1 DEF Job, PC
  <2> HIDE DEF r, x
  <2>5. CASE ok
    <3>1. job'[c] = x
      BY <1>1, <2>1, <2>5 DEF Reply, Goto
    <3>2. ~Idle(x)
      BY <2>4, NoJobAssumption DEF Idle, Work
    <3>3. WorkInv(c)'
      BY <1>1, <1>2, <2>2, <2>3, <2>4, <3>1 DEF WorkInv, OpenStatus
    <3> QED
      BY <1>1, <1>2, <2>2, <2>3, <2>4, <3>1, <3>2, <3>3
  <2>6. CASE ~ok
    <3>1. job'[c] = NoJob
      BY <1>1, <2>1, <2>6, OnErrorCases DEF Reply, Goto
    <3>2. Idle(job'[c])
      BY <3>1 DEF Idle
    <3> QED
      BY <1>1, <1>2, <2>2, <2>3, <2>6, <3>2 DEF WorkInv
  <2> QED
    BY <2>5, <2>6
<1>6. CASE Finish(c, ok)
  <2> DEFINE r == FinishedRow(row, j.comp, j.result, j.detail, now)
             n == AfterFinish(j, r)
  <2>1. /\ executions' = Set(executions, i, r)
        /\ Reply(c, ok, AfterFinish(j, Set(executions, i, r)[i]))
        /\ j.pc = "finish"
    BY <1>6, FinishShape DEF At
  <2>2. /\ executions'[i] = r /\ DOMAIN executions' = DOMAIN executions
        /\ Reply(c, ok, n)
    BY <1>1, <2>1 DEF Set
  <2>3. /\ j.result \in {"complete", "failed", "cancelled"}
        /\ j.comp = "web" => row.component["code"] = j.plan.component["code"]
    BY <1>1, <1>2, <2>1 DEF HandInv
  <2> DEFINE comps == [row.component EXCEPT ![j.comp] = j.result]
  <2>4. /\ r.key = row.key /\ r.plan = row.plan /\ r.started = row.started
        /\ r.status \in OpenStatus <=> Unsettled(comps)
        /\ r.component = comps
    <3>1. /\ j.result \in ComponentStatus /\ j.detail \in BOOLEAN
          /\ now \in Nat
      BY <1>1 DEF Job, TypeOK
    <3>2. row \in Row /\ j.comp \in Components /\ row.status \in OpenStatus
      BY <1>1, <1>2
    <3> HIDE DEF row, j
    <3>3. r.component = comps
      BY <3>1, <3>2, FinishedRowType
    <3>4. /\ r.key = row.key /\ r.plan = row.plan /\ r.started = row.started
          /\ r.status \in OpenStatus <=> Unsettled(comps)
      BY <3>1, <3>2, FinishedRest
    <3> QED
      BY <3>3, <3>4
  <2>5. j.plan.component["code"] \in {"planned", "skipped", "none"}
    <3>1. j.plan \in Plans /\ "code" \in Components
      BY <1>1 DEF Job, Components
    <3> QED
      BY ONLY <3>1, ScanExecutionAssumption
  <2>6. /\ n.exec = i /\ n \in Job
        /\ IF j.comp = "web" /\ j.plan.component["code"] = "planned"
             THEN n.comp = "code" /\ n.pc = "start" /\ n.key = j.key
                    /\ n.at = j.at
             ELSE n.pc \in {"link", "retain"}
    BY <1>1, AfterFinishType DEF AfterFinish, Job
  <2> HIDE DEF r, n
  <2>7. CASE ok /\ j.comp = "web" /\ j.plan.component["code"] = "planned"
    <3>1. job'[c] = n
      BY <1>1, <2>2, <2>7 DEF Reply, Goto
    <3>2. comps["code"] = "planned" /\ comps["web"] \notin OpenStatus
      BY <1>3, <2>3, <2>7 DEF Components, OpenStatus
    <3>3. r.status \in OpenStatus
      BY <2>4, <3>2 DEF Unsettled, Components, OpenStatus
    <3>4. ~Idle(n)
      BY <2>6, <2>7, NoJobAssumption DEF Idle, Work
    <3>5. WorkInv(c)'
      <4>1. n.exec \in DOMAIN executions' /\ executions'[n.exec] = r
        BY <1>1, <2>2, <2>6
      <4>2. r.key = n.key /\ r.started = n.at
        BY <1>2, <2>4, <2>6, <2>7
      <4>3. n.pc # "precheck" /\ r.component["web"] \notin OpenStatus
        BY <2>4, <2>6, <2>7, <3>2
      <4> QED
        BY ONLY <3>1, <3>3, <4>1, <4>2, <4>3 DEF WorkInv
    <3> QED
      BY <1>1, <1>2, <2>2, <2>4, <2>6, <3>1, <3>4, <3>5
  <2>8. CASE ok /\ ~(j.comp = "web" /\ j.plan.component["code"] = "planned")
    <3>1. job'[c] = n
      BY <1>1, <2>2, <2>8 DEF Reply, Goto
    <3>2. Idle(job'[c])
      BY <2>6, <2>8, <3>1 DEF Idle, Work
    <3>3. \A x \in Components : comps[x] \notin OpenStatus
      BY <1>1, <1>2, <1>3, <2>3, <2>5, <2>8 DEF Components, OpenStatus
    <3>4. r.status \notin OpenStatus
      BY <2>4, <3>3 DEF Unsettled
    <3> QED
      BY <1>1, <1>2, <2>2, <2>4, <3>2, <3>4 DEF WorkInv
  <2>9. CASE ~ok
    <3>1. job'[c] = NoJob
      BY <1>1, <2>1, <2>2, <2>9, OnErrorCases DEF Reply, Goto
    <3>2. Idle(job'[c])
      BY <3>1 DEF Idle
    <3> QED
      BY <1>1, <1>2, <2>2, <2>4, <2>9, <3>2 DEF WorkInv
  <2> QED
    BY <2>7, <2>8, <2>9
<1> QED
  BY <1>4, <1>5, <1>6

-----------------------------------------------------------------------------
(* A step of a handler, for itself and for the others.                     *)

\* A handler deletes settled rows only.
LEMMA DeletedRows ==
  ASSUME TypeOK, NEW c \in Callers, CallerStep(c),
         NEW i \in DOMAIN executions \ DOMAIN executions'
  PROVE  executions[i].status \notin OpenStatus
<1>1. CASE \E ok \in BOOLEAN : Retain(c, ok)
  BY <1>1 DEF Retain, Delete, Pruned, Terminal, TerminalStatus, OpenStatus
<1>2. CASE UNCHANGED executions
  BY <1>2
<1>3. CASE \E ok \in BOOLEAN : AdmitNew(c, ok)
  BY <1>3 DEF AdmitNew, Insert
<1>4. CASE \E ok \in BOOLEAN :
             CancelBeforeStart(c, ok) \/ Start(c, ok) \/ Finish(c, ok)
  BY <1>4, FinishShape DEF CancelBeforeStart, Cancelled, Start, Started, Set
<1>5. CASE QuietStep(c)
  BY <1>2, <1>5, QuietMove
<1>6. CASE \E ok \in BOOLEAN, detail \in BOOLEAN : Persist(c, ok, detail)
  BY <1>2, <1>6 DEF Persist
<1> QED
  BY <1>1, <1>3, <1>4, <1>5, <1>6 DEF CallerStep, QuietStep

LEMMA PersistMove ==
  ASSUME TypeOK, NEW c \in Callers, NEW ok \in BOOLEAN, NEW detail \in BOOLEAN,
         Persist(c, ok, detail)
  PROVE  UNCHANGED executions /\ Carried(c)
<1> DEFINE j == job[c]
<1>1. /\ j # NoJob /\ j \in Job /\ j.pc = "persist"
      /\ job \in [Callers -> Job \cup {NoJob}]
      /\ UNCHANGED executions
  BY DEF Persist, At, TypeOK, JobsOK
<1>2. PICK r \in {"complete", "failed"}, d \in BOOLEAN :
        job'[c] = [j EXCEPT !.pc = "finish", !.result = r, !.detail = d]
  BY <1>1, OnErrorCases DEF Persist, Reply, Goto
<1>3. job'[c] \in Job
  BY <1>1, <1>2 DEF Job, PC, ComponentStatus
<1>4. /\ job'[c].pc = "finish" /\ job'[c].exec = j.exec /\ job'[c].at = j.at
      /\ job'[c].key = j.key /\ job'[c].comp = j.comp
  BY <1>1, <1>2 DEF Job
<1> QED
  BY <1>1, <1>3, <1>4, NoJobAssumption DEF Carried, Idle, Work

LEMMA RetainIdle ==
  ASSUME TypeOK, NEW c \in Callers, NEW ok \in BOOLEAN, Retain(c, ok)
  PROVE  Idle(job[c]) /\ Idle(job'[c])
<1> DEFINE j == job[c]
<1>1. /\ j # NoJob /\ j \in Job /\ j.pc = "retain"
      /\ job \in [Callers -> Job \cup {NoJob}]
  BY DEF Retain, At, TypeOK, JobsOK
<1>2. job'[c] = [j EXCEPT !.pc = "record"]
  BY <1>1, OnErrorCases DEF Retain, Reply, Goto
<1> QED
  BY <1>1, <1>2 DEF Idle, Work, Job

LEMMA OthersWork ==
  ASSUME Inv, KeyInv, NEW c \in Callers, CallerStep(c),
         NEW d \in Callers, d # c
  PROVE  /\ job'[d] = job[d] /\ WorkInv(d)'
         /\ job[d] # NoJob /\ job[d].exec # 0 => job[d].exec # job[c].exec
<1> DEFINE i == job[d].exec
<1>1. TypeOK /\ OneOwner /\ WorkInv(d) /\ job[c] # NoJob
      /\ job \in [Callers -> Job \cup {NoJob}]
  BY StepHasJob DEF Inv, KeyInv, TypeOK, JobsOK
<1>2. job'[d] = job[d]
  BY <1>1, CallerMove DEF JobMove
<1>3. job[d] # NoJob /\ i # 0 => i # job[c].exec
  BY <1>1 DEF OneOwner
<1>4. CASE job[d] = NoJob
  BY <1>2, <1>3, <1>4 DEF WorkInv, Idle
<1>5. CASE job[d] # NoJob
  <2>1. i \in Nat /\ i < nextId /\ nextId \in Nat
    BY <1>1, <1>5 DEF TypeOK, TablesOK, Job
  <2>2. RowStays(i)
    <3>1. ASSUME i \in DOMAIN executions'
          PROVE  i \in DOMAIN executions /\ executions'[i] = executions[i]
      <4>1. i # 0
        BY <1>1, <3>1, CallerTables DEF TablesOK
      <4> QED
        BY <1>1, <1>3, <1>5, <2>1, <3>1, <4>1, OtherRows
    <3>2. ASSUME i \in DOMAIN executions \ DOMAIN executions'
          PROVE  executions[i].status \notin OpenStatus
      BY <1>1, <3>2, DeletedRows
    <3> QED
      BY <3>1, <3>2 DEF RowStays
  <2>3. now' = now /\ now \in Nat
    BY <1>1, CallerRest DEF TypeOK
  <2>4. now' \in Nat /\ now' >= now
    BY <2>3
  <2>5. WorkInv(d)'
    BY <1>1, <1>2, <2>2, <2>4, CarriedWork, SameJobCarried
  <2> QED
    BY <1>2, <1>3, <2>5
<1> QED
  BY <1>4, <1>5

LEMMA CallerKey ==
  ASSUME Inv, KeyInv, NEW c \in Callers, CallerStep(c)
  PROVE  KeyInv'
<1>1. TypeOK /\ EvidenceInv /\ WorkInv(c) /\ OneRowPerKey
  BY DEF Inv, KeyInv
<1>2. now' \in Nat /\ now' >= now
  <2>1. now' = now /\ now \in Nat
    BY <1>1, StepHasJob, CallerRest DEF TypeOK
  <2> QED
    BY <2>1
<1>3. \A d \in Callers : d # c => WorkInv(d)'
  BY OthersWork
<1>4. CASE \E ok \in BOOLEAN : AdmitNew(c, ok)
  BY <1>1, <1>3, <1>4, AdmitWork DEF KeyInv
<1>5. CASE \E ok \in BOOLEAN :
             CancelBeforeStart(c, ok) \/ Start(c, ok) \/ Finish(c, ok)
  <2> DEFINE i == job[c].exec
  <2>1. /\ WorkInv(c)'
        /\ DOMAIN executions' = DOMAIN executions
        /\ executions'[i].key = executions[i].key
    BY <1>1, <1>5, OwnRowWork
  <2>2. ASSUME NEW k \in DOMAIN executions', k # i
        PROVE  executions'[k] = executions[k]
    <3>1. k # nextId
      BY <1>1, <2>1 DEF TypeOK, TablesOK
    <3> QED
      BY <1>1, <2>2, <3>1, OtherRows
  <2>3. OneRowPerKey'
    BY <1>1, <2>1, <2>2 DEF OneRowPerKey
  <2> QED
    BY <1>3, <2>1, <2>3 DEF KeyInv
<1>6. CASE QuietStep(c) \/ \E ok, detail \in BOOLEAN : Persist(c, ok, detail)
  <2>1. UNCHANGED executions /\ (Carried(c) \/ Idle(job'[c]))
    BY <1>1, <1>6, QuietMove, PersistMove
  <2>2. RowStays(job[c].exec)
    BY <2>1 DEF RowStays
  <2>3. WorkInv(c)'
    BY <1>1, <1>2, <2>1, <2>2, CarriedWork
  <2> QED
    BY <1>1, <1>3, <2>1, <2>3 DEF KeyInv, OneRowPerKey
<1>7. CASE \E ok \in BOOLEAN : Retain(c, ok)
  <2>1. WorkInv(c)'
    BY <1>1, <1>7, RetainIdle DEF WorkInv
  <2>2. \A k \in DOMAIN executions' :
          k \in DOMAIN executions /\ executions'[k] = executions[k]
    BY <1>7 DEF Retain, Delete
  <2> QED
    BY <1>1, <1>3, <2>1, <2>2 DEF KeyInv, OneRowPerKey
<1> QED
  BY <1>4, <1>5, <1>6, <1>7 DEF CallerStep, QuietStep

-----------------------------------------------------------------------------
(* The invariant.                                                          *)

LEMMA InitFull == Init => FullInv
<1> SUFFICES ASSUME Init PROVE KeyInv
  BY InitInv DEF FullInv
<1> QED
  BY DEF Init, KeyInv, OneRowPerKey, WorkInv, Idle

\* Steps of the environment that leave each job alone, or carry it, or end it.
LEMMA StillKey ==
  ASSUME TypeOK, KeyInv, now' \in Nat, now' >= now,
         \A i \in DOMAIN executions : RowStays(i),
         DOMAIN executions' \subseteq DOMAIN executions,
         \A c \in Callers : Carried(c) \/ Idle(job'[c])
  PROVE  KeyInv'
<1>1. \A i : RowStays(i)
  BY DEF RowStays
<1>2. \A c \in Callers : WorkInv(c)'
  BY <1>1, CarriedWork DEF KeyInv
<1>3. OneRowPerKey'
  BY <1>1 DEF RowStays, KeyInv, OneRowPerKey
<1> QED
  BY <1>2, <1>3 DEF KeyInv

LEMMA NextFull == FullInv /\ [Next]_vars => FullInv'
<1> SUFFICES ASSUME FullInv, [Next]_vars PROVE KeyInv'
  BY NextInv DEF FullInv
<1>1. /\ Inv /\ KeyInv /\ TypeOK /\ now \in Nat
      /\ job \in [Callers -> Job \cup {NoJob}]
  BY DEF FullInv, Inv, TypeOK, JobsOK
<1>2. ASSUME UNCHANGED <<executions, now>>,
             \A c \in Callers : Carried(c) \/ Idle(job'[c])
      PROVE  KeyInv'
  <2>1. now' \in Nat /\ now' >= now
    BY <1>1, <1>2
  <2> QED
    BY <1>1, <1>2, <2>1, StillKey DEF RowStays
<1>3. ASSUME NEW c \in Callers, CallerStep(c) PROVE KeyInv'
  BY <1>1, <1>3, CallerKey
<1>4. ASSUME NEW c \in Callers, NEW k \in Keys, NEW p \in Plans,
             Request(c, k, p)
      PROVE  KeyInv'
  <2>1. job'[c].pc = "admit" /\ \A d \in Callers : d # c => job'[d] = job[d]
    BY <1>1, <1>4 DEF Request, Goto
  <2>2. Idle(job'[c])
    BY <2>1 DEF Idle, Work
  <2> QED
    BY <1>2, <1>4, <2>1, <2>2, SameJobCarried DEF Request, tables
<1>5. ASSUME NEW c \in Callers, Cancel(c) PROVE KeyInv'
  <2>1. /\ job[c] # NoJob /\ job[c] \in Job
        /\ job'[c] = [job[c] EXCEPT !.cancelled = TRUE]
        /\ \A d \in Callers : d # c => job'[d] = job[d]
        /\ UNCHANGED <<executions, now>>
    BY <1>1, <1>5 DEF Cancel, Goto, tables
  <2>2. /\ job'[c].pc = job[c].pc /\ job'[c].exec = job[c].exec
        /\ job'[c].key = job[c].key /\ job'[c].at = job[c].at
        /\ job'[c].comp = job[c].comp
    BY <2>1 DEF Job
  <2>3. Carried(c) \/ Idle(job'[c])
    BY <2>1, <2>2 DEF Carried, Idle
  <2> QED
    BY <1>2, <2>1, <2>3, SameJobCarried
<1>6. CASE Tick
  <2>1. /\ UNCHANGED <<executions, job>> /\ now' \in Nat /\ now' >= now
    BY <1>1, <1>6 DEF Tick, tables
  <2> QED
    BY <1>1, <2>1, StillKey, SameJobCarried DEF RowStays
<1>7. CASE Sweep
  <2>1. /\ executions' = Delete(executions, Abandoned(executions, now))
        /\ UNCHANGED <<job, now>>
    BY <1>7 DEF Sweep
  <2>2. \A i \in DOMAIN executions : RowStays(i)
    BY <2>1 DEF RowStays, Delete, Abandoned
  <2>3. DOMAIN executions' \subseteq DOMAIN executions
        /\ now' \in Nat /\ now' >= now
    BY <1>1, <2>1 DEF Delete
  <2> QED
    BY <1>1, <2>1, <2>2, <2>3, StillKey, SameJobCarried
<1>8. CASE Crash
  BY <1>2, <1>8 DEF Crash, tables, Idle
<1>9. CASE UNCHANGED vars
  BY <1>2, <1>9, SameJobCarried DEF vars, tables
<1> QED
  BY <1>3, <1>4, <1>5, <1>6, <1>7, <1>8, <1>9 DEF Next

LEMMA AlwaysFull == Spec => []FullInv
BY InitFull, NextFull, PTL DEF Spec

\* In every reachable state two requests with one key collect at the same time
\* only if the sweep has taken the row of one of them, which is then older than
\* the abandonment window (admit_scan_execution, run_retention_sweep).
THEOREM OneCollectionPerKey == Spec => []KeyCollectsOnce
<1>1. ASSUME FullInv PROVE KeyCollectsOnce
  <2> SUFFICES ASSUME NEW c \in Callers, NEW d \in Callers,
                      Working(c), Working(d), job[c].key = job[d].key, c # d,
                      \A x \in {c, d} : job[x].exec \in DOMAIN executions \/
                                        ~(now - job[x].at > AbandonAfter)
               PROVE  FALSE
    BY DEF KeyCollectsOnce
  <2>1. /\ WorkInv(c) /\ WorkInv(d) /\ OneRowPerKey /\ OneOwner /\ TypeOK
        /\ ~Idle(job[c]) /\ ~Idle(job[d])
    BY <1>1, WorkingIsNotIdle DEF FullInv, Inv, KeyInv
  <2>2. \A x \in {c, d} : /\ job[x].exec \in DOMAIN executions
                          /\ executions[job[x].exec].key = job[x].key
    BY <2>1 DEF WorkInv
  <2>3. job[c].exec = job[d].exec
    BY <2>1, <2>2 DEF OneRowPerKey
  <2>4. job[c].exec # 0
    BY <2>1, <2>2 DEF TypeOK, TablesOK
  <2> QED
    BY <2>1, <2>3, <2>4 DEF OneOwner, Idle
<1> QED
  BY <1>1, AlwaysFull, PTL

-----------------------------------------------------------------------------
(* What has settled, and what has not.                                     *)

\* A step keeps the row i and its runs.
Frozen(i) ==
    /\ executions'[i] = executions[i]
    /\ \A c \in Components : <<i, c>> \in runs' <=> <<i, c>> \in runs

LEMMA SettledStep ==
  ASSUME FullInv, [Next]_vars,
         NEW i \in DOMAIN executions, i \in DOMAIN executions',
         executions[i].status \notin OpenStatus
  PROVE  Frozen(i)
<1>1. TypeOK /\ EvidenceInv /\ KeyInv /\ i # nextId
  BY DEF FullInv, Inv, TypeOK, TablesOK
<1>2. CASE UNCHANGED <<executions, runs>>
  BY <1>2 DEF Frozen
<1>3. ASSUME NEW c \in Callers, CallerStep(c) PROVE Frozen(i)
  <2>1. CASE i # job[c].exec
    BY <1>1, <1>3, <2>1, OtherRows DEF Frozen
  <2>2. CASE i = job[c].exec
    <3>1. WorkInv(c)
      BY <1>1 DEF KeyInv
    <3>2. CASE QuietStep(c)
      BY <1>1, <1>2, <3>2, QuietHand
    <3>3. CASE \E ok \in BOOLEAN : AdmitNew(c, ok)
      BY <1>1, <3>3 DEF AdmitNew, Insert, Frozen
    <3>4. CASE \E ok \in BOOLEAN :
                 CancelBeforeStart(c, ok) \/ Start(c, ok) \/ Finish(c, ok)
      BY <1>1, <2>2, <3>1, <3>4, OwnRowWork
    <3>5. CASE \E ok, detail \in BOOLEAN : Persist(c, ok, detail)
      <4>1. ~Idle(job[c])
        BY <1>1, <3>5, PersistMove DEF Carried
      <4> QED
        BY <2>2, <3>1, <4>1 DEF WorkInv
    <3>6. CASE \E ok \in BOOLEAN : Retain(c, ok)
      BY <3>6 DEF Retain, Delete, RunsWithout, Frozen
    <3> QED
      BY <1>3, <3>2, <3>3, <3>4, <3>5, <3>6 DEF CallerStep, QuietStep
  <2> QED
    BY <2>1, <2>2
<1>4. CASE Sweep
  BY <1>4 DEF Sweep, Delete, RunsWithout, Frozen
<1>5. CASE \/ \E c \in Callers, k \in Keys, p \in Plans : Request(c, k, p)
           \/ \E c \in Callers : Cancel(c)
           \/ Tick \/ Crash \/ UNCHANGED vars
  BY <1>2, <1>5 DEF Request, Cancel, Tick, Crash, vars, tables
<1> QED
  BY <1>3, <1>4, <1>5 DEF Next

\* No step, late, lost or concurrent, changes an execution that has settled or
\* its evidence: the statements of db/scan_executions.rs write open rows only,
\* and a handler that still has a run to save has its row open.
THEOREM SettledStaysFrozen == Spec => SettledIsFrozen
<1> DEFINE A == \A i \in DOMAIN executions \cap DOMAIN executions' :
                  Terminal(executions[i]) =>
                    /\ executions'[i] = executions[i]
                    /\ \A c \in Components :
                         <<i, c>> \in runs' <=> <<i, c>> \in runs
<1>1. ASSUME FullInv, [Next]_vars PROVE A
  <2> SUFFICES ASSUME NEW i \in DOMAIN executions, i \in DOMAIN executions',
                      Terminal(executions[i])
               PROVE  Frozen(i)
    BY DEF Frozen
  <2>1. executions[i].status \notin OpenStatus
    BY DEF Terminal, TerminalStatus, OpenStatus
  <2> QED
    BY <1>1, <2>1, SettledStep
<1>2. FullInv /\ [Next]_vars => [A]_vars
  BY <1>1
<1> HIDE DEF A
<1>3. Spec => [][A]_vars
  BY AlwaysFull, <1>2, PTL DEF Spec
<1> QED
  BY <1>3 DEF A, SettledIsFrozen

\* Without failures and crashes a handler at work leaves its work only with its
\* row settled: its statements find the row in the state it expects.
LEMMA NoEarlyEnd ==
  ASSUME FullInv, NEW c \in Callers, QuietStep(c), faults' = 0,
         ~Idle(job[c]), job[c].exec \in DOMAIN executions
  PROVE  Carried(c)
<1> DEFINE j == job[c]
           i == job[c].exec
<1>1. TypeOK /\ EvidenceInv /\ WorkInv(c) /\ HandInv(c)
  BY DEF FullInv, Inv, KeyInv, EvidenceInv
<1>2. faults \in Nat
  BY <1>1 DEF TypeOK
<1>3. ~DbFails(c)
  BY <1>2 DEF DbFails, Fault
<1>4. /\ executions[i].status \in OpenStatus
      /\ j.pc = "precheck" => executions[i].status = "planned"
  BY <1>1 DEF WorkInv
<1>5. j.pc \in {"precheck", "start"} =>
        executions[i].component[j.comp] = "planned"
  BY <1>1 DEF HandInv, Idle
<1>6. ~Ineligible(c)
  BY <1>4, <1>5 DEF Ineligible, At, CanCancel, CanStart, CanFinish
<1> QED
  BY <1>1, <1>3, <1>6, QuietMove

LEMMA OwnerStep == FullInv /\ OpenHasOwner /\ [Next]_vars => OpenHasOwner'
<1> SUFFICES ASSUME FullInv, OpenHasOwner, [Next]_vars,
                    faults' = 0, crashes' = 0, NEW i,
                    i \in DOMAIN executions',
                    executions'[i].status \in OpenStatus
             PROVE  \E c \in Callers : ~Idle(job'[c]) /\ job'[c].exec = i
  <2>1. FullInv /\ [Next]_vars => \A k \in DOMAIN executions' : k # 0
    BY NextFull DEF FullInv, Inv, TypeOK, TablesOK
  <2>2. \A c \in Callers : ~Idle(job'[c]) => Working(c)'
    BY DEF Working, At, Idle, Work
  <2> QED
    BY <2>1, <2>2 DEF OpenHasOwner, Faultless, Drives, Idle
<1>1. /\ TypeOK /\ OneOwner /\ EvidenceInv /\ KeyInv
      /\ Inv /\ faults \in Nat /\ crashes \in Nat
      /\ job \in [Callers -> Job \cup {NoJob}]
  BY DEF FullInv, Inv, TypeOK, JobsOK
<1>2. ASSUME faults = 0, crashes = 0, i \in DOMAIN executions,
             executions[i].status \in OpenStatus
      PROVE  \E d \in Callers : /\ ~Idle(job[d]) /\ job[d].exec = i
                                /\ job[d] # NoJob /\ i # 0
  BY <1>2, WorkingIsNotIdle DEF OpenHasOwner, Faultless, Drives
<1>3. ASSUME NEW c \in Callers, CallerStep(c)
      PROVE  \E d \in Callers : ~Idle(job'[d]) /\ job'[d].exec = i
  <2>1. faults = 0 /\ crashes = 0
    <3>1. crashes' = crashes
      <4>1. job[c] # NoJob
        BY <1>3, StepHasJob, Zenon
      <4> QED
        BY ONLY <1>1, <1>3, <4>1, CallerRest, Zenon
    <3>2. faults' = faults \/ faults' = faults + 1
      BY <1>3, FinishShape
      DEF CallerStep, AdmitReused, AdmitRefused, Precheck, SkipCode,
          CollectFails, Collected, PersistOrphan, Link, ScoreFails, Record,
          AdmitNew, CancelBeforeStart, Start, Persist, Retain, Ineligible,
          DbFails, Reply, NoFault, Fault
    <3> QED
      BY <1>1, <3>1, <3>2
  <2>2. ASSUME NEW ok \in BOOLEAN, NEW j, Reply(c, ok, j) PROVE ok
    BY <1>1, <2>1, <2>2 DEF Reply, Fault
  <2>3. CASE i # job[c].exec /\ i # nextId
    <3>1. i \in DOMAIN executions /\ executions'[i] = executions[i]
      BY <1>1, <1>3, <2>3, OtherRows
    <3>2. PICK d \in Callers : ~Idle(job[d]) /\ job[d].exec = i
      BY <1>2, <2>1, <3>1
    <3>3. job'[d] = job[d]
      BY <1>1, <1>3, <2>3, <3>2, OthersWork
    <3> QED
      BY <3>2, <3>3
  <2>4. CASE \E ok \in BOOLEAN : AdmitNew(c, ok)
    <3>1. PICK ok \in BOOLEAN : AdmitNew(c, ok)
      BY <2>4
    <3>2. ~Idle(job'[c]) /\ job'[c].exec = nextId
      BY <1>1, <2>2, <3>1, AdmitWork DEF AdmitNew
    <3>3. CASE i = nextId
      BY <3>2, <3>3
    <3>4. CASE i # nextId
      <4>1. i \in DOMAIN executions /\ executions'[i] = executions[i]
        BY <3>1, <3>4 DEF AdmitNew, Insert
      <4>2. PICK d \in Callers : ~Idle(job[d]) /\ job[d].exec = i
        BY <1>2, <2>1, <4>1
      <4>3. d # c
        BY <3>1, <4>2 DEF AdmitNew, At, Idle, Work
      <4>4. job'[d] = job[d]
        BY <1>1, <1>3, <4>3, OthersWork
      <4> QED
        BY <4>2, <4>4
    <3> QED
      BY <3>3, <3>4
  <2>5. CASE \E ok \in BOOLEAN :
               CancelBeforeStart(c, ok) \/ Start(c, ok) \/ Finish(c, ok)
    <3>1. PICK ok \in BOOLEAN :
            CancelBeforeStart(c, ok) \/ Start(c, ok) \/ Finish(c, ok)
      BY <2>5
    <3>2. ok
      BY <2>2, <3>1, FinishShape DEF CancelBeforeStart, Start
    <3>3. /\ DOMAIN executions' = DOMAIN executions
          /\ \/ executions'[job[c].exec].status \notin OpenStatus
             \/ ~Idle(job'[c]) /\ job'[c].exec = job[c].exec
      <4>1. TypeOK /\ EvidenceInv /\ WorkInv(c)
        BY <1>1 DEF KeyInv
      <4> QED
        BY ONLY <3>1, <3>2, <4>1, OwnRowWork, Zenon
    <3>4. CASE i = job[c].exec
      BY <3>3, <3>4
    <3>5. CASE i # job[c].exec
      <4>1. nextId \notin DOMAIN executions
        BY <1>1 DEF TypeOK, TablesOK
      <4> QED
        BY <2>3, <3>3, <3>5, <4>1
    <3> QED
      BY <3>4, <3>5
  <2>6. ASSUME UNCHANGED executions,
               ~Idle(job[c]) /\ job[c].exec \in DOMAIN executions => Carried(c)
        PROVE  \E d \in Callers : ~Idle(job'[d]) /\ job'[d].exec = i
    <3>1. PICK d \in Callers : ~Idle(job[d]) /\ job[d].exec = i
      BY <1>2, <2>1, <2>6
    <3>2. CASE d = c
      BY <2>6, <3>1, <3>2 DEF Carried
    <3>3. CASE d # c
      <4>1. job'[d] = job[d]
        BY <1>1, <1>3, <3>3, OthersWork
      <4> QED
        BY <3>1, <4>1
    <3> QED
      BY <3>2, <3>3
  <2>7. CASE QuietStep(c)
    BY <1>1, <2>6, <2>7, QuietMove, NoEarlyEnd
  <2>8. CASE \E ok, detail \in BOOLEAN : Persist(c, ok, detail)
    BY <1>1, <2>6, <2>8, PersistMove
  <2>9. CASE \E ok \in BOOLEAN : Retain(c, ok)
    <3>1. i \in DOMAIN executions /\ executions'[i] = executions[i]
      BY <2>9 DEF Retain, Delete
    <3>2. PICK d \in Callers : ~Idle(job[d]) /\ job[d].exec = i
      BY <1>2, <2>1, <3>1
    <3>3. d # c
      BY <1>1, <2>9, <3>2, RetainIdle
    <3>4. job'[d] = job[d]
      BY <1>1, <1>3, <3>3, OthersWork
    <3> QED
      BY <3>2, <3>4
  <2> QED
    BY <1>3, <2>4, <2>5, <2>7, <2>8, <2>9 DEF CallerStep, QuietStep
<1>4. ASSUME UNCHANGED <<faults, crashes>>,
             i \in DOMAIN executions, executions'[i] = executions[i],
             \A d \in Callers : ~Idle(job[d]) =>
                ~Idle(job'[d]) /\ job'[d].exec = job[d].exec
      PROVE  \E d \in Callers : ~Idle(job'[d]) /\ job'[d].exec = i
  BY <1>2, <1>4
<1>5. ASSUME NEW c \in Callers, NEW k \in Keys, NEW p \in Plans,
             Request(c, k, p)
      PROVE  \E d \in Callers : ~Idle(job'[d]) /\ job'[d].exec = i
  <2>1. job[c] = NoJob /\ \A d \in Callers : d # c => job'[d] = job[d]
    BY <1>1, <1>5 DEF Request, Goto
  <2> QED
    BY <1>4, <1>5, <2>1 DEF Request, tables, Idle
<1>6. ASSUME NEW c \in Callers, Cancel(c)
      PROVE  \E d \in Callers : ~Idle(job'[d]) /\ job'[d].exec = i
  <2>1. /\ job[c] # NoJob /\ job[c] \in Job
        /\ job'[c] = [job[c] EXCEPT !.cancelled = TRUE]
        /\ \A d \in Callers : d # c => job'[d] = job[d]
        /\ UNCHANGED <<executions, faults, crashes>>
    BY <1>1, <1>6 DEF Cancel, Goto, tables
  <2>2. /\ job'[c].pc = job[c].pc /\ job'[c].exec = job[c].exec
        /\ job'[c] \in Job
    BY <2>1 DEF Job
  <2>3. ~Idle(job[c]) => ~Idle(job'[c])
    BY <2>1, <2>2, NoJobAssumption DEF Idle
  <2> QED
    BY <1>4, <2>1, <2>2, <2>3
<1>7. CASE Tick \/ UNCHANGED vars
  BY <1>4, <1>7 DEF Tick, vars, tables
<1>8. CASE Sweep
  BY <1>4, <1>8 DEF Sweep, Delete
<1>9. CASE Crash
  BY <1>1, <1>9 DEF Crash
<1> QED
  BY <1>3, <1>5, <1>6, <1>7, <1>8, <1>9 DEF Next

\* Without a failed operation and without a crash every open execution has a
\* handler at work on it, whatever is cancelled and whatever the sweep takes:
\* no path of run_scan_execution_internal leaves one behind.
THEOREM OpenExecutionHasOwner == Spec => []OpenHasOwner
<1>1. Init => OpenHasOwner
  BY DEF Init, OpenHasOwner
<1> QED
  BY <1>1, OwnerStep, AlwaysFull, PTL DEF Spec

-----------------------------------------------------------------------------
(* The orchestrator implements IdempotentExecution.                        *)

\* What the key k holds in the table T.
SlotIn(T, k) ==
    IF Held(T, k)
      THEN SlotOf(T[CHOOSE i \in DOMAIN T : Holds(T[i], k)])
      ELSE Free

LEMMA SlotParts ==
  ASSUME NEW row
  PROVE  /\ SlotOf(row).plan = row.plan
         /\ SlotOf(row).outcome = Open <=> ~Terminal(row)
BY OpenAssumption DEF SlotOf, Terminal

\* No two rows of T have one key.
Unique(T) == \A i, k \in DOMAIN T : T[i].key = T[k].key => i = k

LEMMA SlotOfRow ==
  ASSUME NEW T, Unique(T), NEW i \in DOMAIN T
  PROVE  SlotIn(T, T[i].key) = SlotOf(T[i])
<1>1. Held(T, T[i].key)
  BY DEF Held, Holds
<1>2. i = CHOOSE x \in DOMAIN T : Holds(T[x], T[i].key)
  BY DEF Unique, Holds
<1> QED
  BY <1>1, <1>2 DEF SlotIn

LEMMA FreeSlot ==
  ASSUME NEW T, NEW k, ~Held(T, k) PROVE SlotIn(T, k) = Free
BY DEF SlotIn

\* A key that the same rows hold in two tables has the same slot in both.
LEMMA SameSlot ==
  ASSUME NEW T, NEW U, Unique(T), Unique(U), NEW k,
         \A i \in DOMAIN U : U[i].key = k =>
            i \in DOMAIN T /\ T[i].key = k /\ SlotOf(U[i]) = SlotOf(T[i]),
         \A i \in DOMAIN T : T[i].key = k => i \in DOMAIN U /\ U[i].key = k
  PROVE  SlotIn(U, k) = SlotIn(T, k)
<1>1. CASE Held(U, k)
  <2>1. PICK i \in DOMAIN U : U[i].key = k
    BY <1>1 DEF Held, Holds
  <2>2. i \in DOMAIN T /\ T[i].key = k /\ SlotOf(U[i]) = SlotOf(T[i])
    BY <2>1
  <2> QED
    BY <2>1, <2>2, SlotOfRow
<1>2. CASE ~Held(U, k)
  BY <1>2, FreeSlot DEF Held, Holds
<1> QED
  BY <1>1, <1>2

LEMMA SlotShape ==
  /\ slot = [k \in Keys |-> SlotIn(executions, k)]
  /\ slot' = [k \in Keys |-> SlotIn(executions', k)]
BY DEF slot, SlotIn

LEMMA Uniques ==
  ASSUME FullInv, [Next]_vars PROVE Unique(executions) /\ Unique(executions')
<1>1. FullInv'
  BY NextFull
<1> QED
  BY <1>1 DEF FullInv, KeyInv, OneRowPerKey, Unique

\* A key that is held is not free.
LEMMA HeldSlot ==
  ASSUME TypeOK, Unique(executions), NEW i \in DOMAIN executions
  PROVE  /\ executions[i].key \in Keys
         /\ slot[executions[i].key] = SlotOf(executions[i])
         /\ SlotOf(executions[i]) # Free
<1>1. executions[i] \in Row
  BY DEF TypeOK, TablesOK
<1>2. SlotOf(executions[i])
        \in [plan : Plans, outcome : TerminalStatus \cup {Open}]
  BY <1>1 DEF SlotOf, Row, Terminal
<1> QED
  BY <1>1, <1>2, SlotShape, SlotOfRow, FreeAssumption DEF Row

-----------------------------------------------------------------------------
(* Each step of the orchestrator is a step of the promise or a stutter.    *)

LEMMA StutterStep ==
  ASSUME UNCHANGED <<executions, answered>>
  PROVE  UNCHANGED Promise!vars
BY SlotShape DEF Promise!vars

LEMMA ClaimStep ==
  ASSUME FullInv, Next, NEW c \in Callers, NEW ok \in BOOLEAN, AdmitNew(c, ok)
  PROVE  Promise!Next
<1> DEFINE j == job[c]
           row == NewRow(j.key, j.plan, j.at)
<1>1. /\ Unique(executions) /\ Unique(executions') /\ TypeOK
      /\ j \in Job /\ j.key \in Keys /\ j.plan \in Plans
      /\ nextId \notin DOMAIN executions
  BY Uniques DEF AdmitNew, At, FullInv, Inv, TypeOK, TablesOK, JobsOK, Job
<1>2. /\ ~Held(executions, j.key)
      /\ executions' = Insert(executions, nextId, row)
      /\ answered' = IF ok THEN [answered EXCEPT ![j.key] = @ \cup {j.plan}]
                           ELSE answered
  BY DEF AdmitNew
<1>3. /\ DOMAIN executions' = DOMAIN executions \cup {nextId}
      /\ executions'[nextId] = row
      /\ \A i \in DOMAIN executions : executions'[i] = executions[i]
  BY <1>1, <1>2 DEF Insert
<1>4. row.key = j.key /\ SlotOf(row) = [plan |-> j.plan, outcome |-> Open]
  BY DEF NewRow, SlotOf, Terminal, TerminalStatus
<1> HIDE DEF row
<1>5. SlotIn(executions', j.key) = [plan |-> j.plan, outcome |-> Open]
  BY <1>1, <1>3, <1>4, SlotOfRow
<1>6. ASSUME NEW k \in Keys, k # j.key
      PROVE  SlotIn(executions', k) = SlotIn(executions, k)
  BY <1>1, <1>3, <1>4, <1>6, SameSlot
<1>7. slot' = [slot EXCEPT ![j.key] = [plan |-> j.plan, outcome |-> Open]]
  BY <1>5, <1>6, SlotShape
<1>8. ~Promise!Held(j.key)
  BY <1>1, <1>2, FreeSlot, SlotShape DEF Promise!Held
<1>9. Promise!Claim(j.key, j.plan)
  BY <1>2, <1>7, <1>8 DEF Promise!Claim, Promise!Hear
<1> QED
  BY <1>1, <1>9 DEF Promise!Next

LEMMA RepeatStep ==
  ASSUME FullInv, Next, NEW c \in Callers, AdmitReused(c)
  PROVE  Promise!Next
<1> DEFINE j == job[c]
<1>1. Unique(executions) /\ TypeOK
  BY Uniques DEF FullInv, Inv
<1>2. PICK i \in DOMAIN executions : Answers(executions[i], j.key, j.plan, j.at)
  BY DEF AdmitReused
<1>3. executions[i].key = j.key /\ executions[i].plan = j.plan
  BY <1>2 DEF Answers, Holds
<1>4. /\ j.key \in Keys /\ slot[j.key] # Free /\ slot[j.key].plan = j.plan
  <2>1. SlotOf(executions[i]).plan = executions[i].plan
    BY SlotParts
  <2> HIDE DEF j
  <2> QED
    BY <1>1, <1>3, <2>1, HeldSlot
<1>5. /\ answered' = [answered EXCEPT ![j.key] = @ \cup {j.plan}]
      /\ UNCHANGED slot
  BY SlotShape DEF AdmitReused, tables
<1>6. Promise!Repeat(j.key)
  BY <1>4, <1>5 DEF Promise!Repeat, Promise!Held, Promise!Hear
<1> QED
  BY <1>4, <1>6 DEF Promise!Next

LEMMA SettleStep ==
  ASSUME FullInv, Next, NEW c \in Callers, NEW ok \in BOOLEAN,
         \/ CancelBeforeStart(c, ok) \/ Start(c, ok) \/ Finish(c, ok)
  PROVE  [Promise!Next]_(Promise!vars)
<1> DEFINE i == job[c].exec
           k == executions[i].key
           o == executions'[i].status
<1>1. /\ Unique(executions) /\ Unique(executions') /\ TypeOK /\ EvidenceInv
      /\ WorkInv(c) /\ TypeOK'
  BY Uniques, NextFull DEF FullInv, Inv, KeyInv
<1>2. /\ DOMAIN executions' = DOMAIN executions /\ i \in DOMAIN executions
      /\ executions[i].status \in OpenStatus
      /\ executions'[i].key = executions[i].key
      /\ executions'[i].plan = executions[i].plan
  BY <1>1, OwnRowWork
<1>3. \A x \in DOMAIN executions : x # i => executions'[x] = executions[x]
  BY FinishShape DEF CancelBeforeStart, Cancelled, Start, Started, Set
<1>4. UNCHANGED answered
  BY FinishShape DEF CancelBeforeStart, Start
<1>5. /\ k \in Keys /\ slot[k] # Free
      /\ slot[k] = [plan |-> executions[i].plan, outcome |-> Open]
  <2>1. SlotOf(executions[i]) = [plan |-> executions[i].plan, outcome |-> Open]
    BY <1>2 DEF SlotOf, Terminal, TerminalStatus, OpenStatus
  <2> QED
    BY <1>1, <1>2, <2>1, HeldSlot
<1>6. ASSUME NEW l \in Keys, l # k
      PROVE  SlotIn(executions', l) = SlotIn(executions, l)
  BY <1>1, <1>2, <1>3, <1>6, SameSlot
<1>7. SlotIn(executions', k) = SlotOf(executions'[i])
  BY <1>1, <1>2, SlotOfRow
<1>8. slot' = [slot EXCEPT ![k] = SlotOf(executions'[i])]
  BY <1>6, <1>7, SlotShape
<1>9. CASE o \in TerminalStatus
  <2>1. SlotOf(executions'[i]) = [slot[k] EXCEPT !.outcome = o]
    BY <1>2, <1>5, <1>9 DEF SlotOf, Terminal
  <2>2. Promise!Settle(k, o)
    BY <1>4, <1>5, <1>8, <2>1 DEF Promise!Settle, Promise!Held
  <2> QED
    BY <1>5, <1>9, <2>2 DEF Promise!Next
<1>10. CASE o \notin TerminalStatus
  <2>1. SlotOf(executions'[i]) = slot[k]
    BY <1>2, <1>5, <1>10 DEF SlotOf, Terminal
  <2>2. slot' = slot
    BY <1>8, <2>1, SlotShape
  <2> QED
    BY <1>4, <2>2 DEF Promise!vars
<1> QED
  BY <1>9, <1>10

\* Rows that are deleted together, all settled or all open, free their keys.
LEMMA ReleaseStep ==
  ASSUME TypeOK, Unique(executions), Unique(executions'), NEW S,
         S \subseteq DOMAIN executions,
         executions' = Delete(executions, S), UNCHANGED answered,
         \/ \A i \in S : Terminal(executions[i])
         \/ \A i \in S : ~Terminal(executions[i])
  PROVE  Promise!Next
<1> DEFINE K == {executions[i].key : i \in S}
<1>1. K \in SUBSET Keys
  BY HeldSlot
<1>2. \A k \in K : Promise!Held(k)
  BY HeldSlot DEF Promise!Held
<1>3. \A k, l \in K : slot[k].outcome = Open <=> slot[l].outcome = Open
  <2>1. \A i \in S : slot[executions[i].key].outcome = Open <=>
                       ~Terminal(executions[i])
    BY HeldSlot, SlotParts
  <2> QED
    BY <2>1
<1>4. /\ DOMAIN executions' = DOMAIN executions \ S
      /\ \A i \in DOMAIN executions' : executions'[i] = executions[i]
  BY DEF Delete
<1>5. ASSUME NEW k \in K PROVE SlotIn(executions', k) = Free
  <2>1. PICK i \in S : k = executions[i].key
    BY <1>5
  <2>2. ~Held(executions', k)
    BY <1>4, <2>1 DEF Held, Holds, Unique
  <2> QED
    BY <2>2, FreeSlot
<1>6. ASSUME NEW k \in Keys \ K
      PROVE  SlotIn(executions', k) = SlotIn(executions, k)
  <2>1. \A i \in DOMAIN executions : executions[i].key = k => i \notin S
    BY <1>6
  <2> QED
    BY <1>4, <2>1, SameSlot
<1>7. slot' = [k \in Keys |-> IF k \in K THEN Free ELSE slot[k]]
  BY <1>5, <1>6, SlotShape
<1>8. Promise!Release(K)
  BY <1>2, <1>3, <1>7 DEF Promise!Release
<1> QED
  BY <1>1, <1>8 DEF Promise!Next

LEMMA StepImplements ==
  FullInv /\ [Next]_vars => [Promise!Next]_(Promise!vars)
<1> SUFFICES ASSUME FullInv, Next PROVE [Promise!Next]_(Promise!vars)
  BY StutterStep DEF vars, tables
<1>1. TypeOK /\ Unique(executions) /\ Unique(executions')
  BY Uniques DEF FullInv, Inv
<1>2. CASE UNCHANGED <<executions, answered>>
  BY <1>2, StutterStep
<1>3. ASSUME NEW c \in Callers, CallerStep(c)
      PROVE  [Promise!Next]_(Promise!vars)
  <2>1. CASE AdmitReused(c)
    BY <2>1, RepeatStep
  <2>2. CASE \E ok \in BOOLEAN : AdmitNew(c, ok)
    BY <2>2, ClaimStep
  <2>3. CASE \E ok \in BOOLEAN :
               CancelBeforeStart(c, ok) \/ Start(c, ok) \/ Finish(c, ok)
    BY <2>3, SettleStep
  <2>4. CASE \E ok \in BOOLEAN : Retain(c, ok)
    <3> DEFINE S == Pruned(executions, job[c].plan)
    <3>1. /\ executions' = Delete(executions, S) /\ UNCHANGED answered
          /\ S \subseteq DOMAIN executions
          /\ \A i \in S : Terminal(executions[i])
      BY <2>4 DEF Retain, Pruned
    <3> HIDE DEF S
    <3> QED
      BY <1>1, <3>1, ReleaseStep
  <2>5. CASE \/ AdmitRefused(c) \/ Precheck(c) \/ SkipCode(c)
             \/ \E r \in {"failed", "cancelled"} : CollectFails(c, r)
             \/ Collected(c) \/ PersistOrphan(c) \/ Link(c) \/ ScoreFails(c)
             \/ Record(c) \/ Ineligible(c) \/ DbFails(c)
             \/ \E ok, detail \in BOOLEAN : Persist(c, ok, detail)
    BY <1>2, <2>5
    DEF AdmitRefused, Precheck, SkipCode, CollectFails, Collected,
        PersistOrphan, Link, ScoreFails, Record, Ineligible, DbFails, Persist,
        tables
  <2> QED
    BY <1>3, <2>1, <2>2, <2>3, <2>4, <2>5 DEF CallerStep
<1>4. CASE Sweep
  <2> DEFINE S == Abandoned(executions, now)
  <2>1. /\ executions' = Delete(executions, S) /\ UNCHANGED answered
        /\ S \subseteq DOMAIN executions
        /\ \A i \in S : ~Terminal(executions[i])
    BY <1>4 DEF Sweep, Abandoned, Terminal, TerminalStatus, OpenStatus
  <2> HIDE DEF S
  <2> QED
    BY <1>1, <2>1, ReleaseStep
<1>5. CASE \/ \E c \in Callers, k \in Keys, p \in Plans : Request(c, k, p)
           \/ \E c \in Callers : Cancel(c)
           \/ Tick \/ Crash
  BY <1>2, <1>5 DEF Request, Cancel, Tick, Crash, tables
<1> QED
  BY <1>3, <1>4, <1>5 DEF Next

\* Through failures, crashes, cancels and retention the scan_executions table
\* keeps what admit_scan_execution promises: a key is claimed once, answers for
\* its plan only, and keeps its outcome until retention frees it.
THEOREM KeepsPromise == Spec => ImplementsPromise
<1>1. Init => Promise!Init
  <2> SUFFICES ASSUME Init PROVE Promise!Init
    OBVIOUS
  <2>1. \A k : ~Held(executions, k)
    BY DEF Init, Held
  <2>2. slot = [k \in Keys |-> Free]
    BY <2>1, FreeSlot, SlotShape
  <2> QED
    BY <2>2 DEF Init, Promise!Init
<1> QED
  BY <1>1, StepImplements, AlwaysFull, PTL
  DEF Spec, ImplementsPromise, Promise!Spec

-----------------------------------------------------------------------------
(* Retention.                                                              *)

\* The rank of a statement's ORDER BY: of the rows of a window that are newer
\* than one of them, those newer still are fewer.
LEMMA RankFalls ==
  ASSUME NEW T, T \in [DOMAIN T -> Row], DOMAIN T \subseteq Nat,
         NEW i \in DOMAIN T, NEW j \in NewerInWindow(T, i)
  PROVE  /\ j \in DOMAIN T /\ Terminal(T[j]) /\ SameWindow(T[j], T[i])
         /\ NewerInWindow(T, j) \subseteq NewerInWindow(T, i)
         /\ j \notin NewerInWindow(T, j)
<1>1. j \in DOMAIN T /\ Terminal(T[j]) /\ SameWindow(T[j], T[i]) /\ Newer(T, j, i)
  BY DEF NewerInWindow
<1>2. \A k \in DOMAIN T : T[k].started \in Nat /\ k \in Nat
  BY DEF Row
<1>3. ~Newer(T, j, j)
  BY <1>1, <1>2 DEF Newer
<1>4. ASSUME NEW k \in NewerInWindow(T, j) PROVE k \in NewerInWindow(T, i)
  <2>1. k \in DOMAIN T /\ Terminal(T[k]) /\ SameWindow(T[k], T[j]) /\ Newer(T, k, j)
    BY DEF NewerInWindow
  <2>2. Newer(T, k, i)
    BY <1>1, <1>2, <2>1 DEF Newer
  <2>3. SameWindow(T[k], T[i])
    BY <1>1, <2>1 DEF SameWindow
  <2> QED
    BY <2>1, <2>2, <2>3 DEF NewerInWindow
<1> QED
  BY <1>1, <1>3, <1>4 DEF NewerInWindow

\* A set of rows has one of which none in the set is newer in its window.
LEMMA NewestThere ==
  ASSUME NEW T, T \in [DOMAIN T -> Row], DOMAIN T \subseteq Nat, IsFiniteSet(DOMAIN T),
         NEW A \in SUBSET DOMAIN T, A # {}
  PROVE  \E m \in A : \A j \in A : j \notin NewerInWindow(T, m)
<1> DEFINE Above == {NewerInWindow(T, j) : j \in A}
           Order == StrictSubsetOrdering(DOMAIN T)
<1>1. Above \subseteq SUBSET DOMAIN T /\ Above # {}
  BY DEF NewerInWindow
<1>2. Above \subseteq FiniteSubsetsOf(DOMAIN T)
  BY <1>1, FS_FiniteSubsetsOfFinite
<1>3. PICK s \in Above : \A t \in Above : <<t, s>> \notin Order
  <2>1. IsWellFoundedOn(Order, FiniteSubsetsOf(DOMAIN T))
    BY FS_StrictSubsetOrderingWellFounded
  <2> HIDE DEF Above, Order
  <2> QED
    BY <1>1, <1>2, <2>1, WFMin
<1>4. PICK m \in A : s = NewerInWindow(T, m)
  BY <1>3
<1>5. ASSUME NEW j \in A, j \in NewerInWindow(T, m) PROVE FALSE
  <2>1. /\ NewerInWindow(T, j) \subseteq s /\ NewerInWindow(T, j) # s
    BY <1>4, <1>5, RankFalls
  <2>2. NewerInWindow(T, j) \in Above /\ s \in SUBSET DOMAIN T
    BY <1>1, <1>3
  <2>3. <<NewerInWindow(T, j), s>> \in Order
    BY <1>1, <2>1, <2>2 DEF StrictSubsetOrdering
  <2> QED
    BY <1>3, <2>2, <2>3
<1> QED
  BY <1>5

\* The prune of a scope takes a row only if Keep newer rows of its window stay:
\* the newest of those it takes has Keep above it that it does not take.
LEMMA PrunedKeeps ==
  ASSUME NEW T, T \in [DOMAIN T -> Row], DOMAIN T \subseteq Nat, IsFiniteSet(DOMAIN T),
         NEW p, NEW i \in Pruned(T, p)
  PROVE  Cardinality(NewerInWindow(T, i) \ Pruned(T, p)) >= Keep
<1> DEFINE N == NewerInWindow(T, i)
           A == N \cap Pruned(T, p)
           B == N \ Pruned(T, p)
<1>1. i \in DOMAIN T /\ N \subseteq DOMAIN T /\ Cardinality(N) >= Keep
  BY DEF Pruned, NewerInWindow
<1>2. IsFiniteSet(N) /\ IsFiniteSet(B) /\ Cardinality(B) \in Nat
  BY <1>1, FS_Subset, FS_CardinalityType
<1>3. CASE A = {}
  <2>1. B = N
    BY <1>3
  <2> QED
    BY <1>1, <2>1
<1>4. CASE A # {}
  <2>1. PICK m \in A : \A j \in A : j \notin NewerInWindow(T, m)
    <3>1. A \in SUBSET DOMAIN T
      BY <1>1
    <3> HIDE DEF A
    <3> QED
      BY <1>4, <3>1, NewestThere
  <2>2. m \in Pruned(T, p) /\ m \in N
    BY <2>1
  <2>3. Cardinality(NewerInWindow(T, m)) >= Keep
    BY <2>2 DEF Pruned
  <2>4. NewerInWindow(T, m) \subseteq B
    BY <1>1, <2>1, <2>2, RankFalls
  <2>5. /\ IsFiniteSet(NewerInWindow(T, m)) /\ Cardinality(NewerInWindow(T, m)) \in Nat
        /\ Cardinality(NewerInWindow(T, m)) <= Cardinality(B)
    BY <1>2, <2>4, FS_Subset, FS_CardinalityType
  <2> HIDE DEF N, B
  <2>6. Keep \in Nat
    BY ScanExecutionAssumption
  <2> QED
    BY <1>2, <2>3, <2>5, <2>6 DEF B, N
<1> QED
  BY <1>3, <1>4

\* What a step removes, and why it may.
LEMMA RetentionStep ==
  ASSUME TypeOK, [Next]_vars, NEW i \in DOMAIN executions \ DOMAIN executions'
  PROVE  IF Terminal(executions[i])
           THEN Cardinality(NewerInWindow(executions, i) \cap DOMAIN executions') >= Keep
           ELSE now - executions[i].started > AbandonAfter
<1>1. /\ executions \in [DOMAIN executions -> Row] /\ nextId \in Nat
      /\ DOMAIN executions \subseteq 1 .. nextId - 1 /\ now \in Nat
      /\ DOMAIN executions \subseteq Nat
  <2>1. executions \in [DOMAIN executions -> Row]
    BY Zenon DEF TypeOK, TablesOK
  <2>2. nextId \in Nat /\ DOMAIN executions \subseteq 1 .. nextId - 1 /\ now \in Nat
    BY DEF TypeOK, TablesOK
  <2>3. DOMAIN executions \subseteq Nat
    BY <2>2
  <2> QED
    BY <2>1, <2>2, <2>3
<1>2. IsFiniteSet(DOMAIN executions)
  <2>1. IsFiniteSet(1 .. nextId - 1)
    <3>1. nextId - 1 \in Int /\ 1 \in Int
      BY <1>1
    <3> QED
      BY <3>1, FS_Interval, Zenon
  <2> QED
    BY <1>1, <2>1, FS_Subset
<1>3. ASSUME NEW c \in Callers, NEW ok \in BOOLEAN, Retain(c, ok)
      PROVE  /\ Terminal(executions[i])
             /\ Cardinality(NewerInWindow(executions, i) \cap DOMAIN executions') >= Keep
  <2> DEFINE p == job[c].plan
  <2>1. DOMAIN executions' = DOMAIN executions \ Pruned(executions, p)
    BY <1>3 DEF Retain, Delete
  <2>2. i \in Pruned(executions, p) /\ Terminal(executions[i])
    BY <2>1 DEF Pruned
  <2>3. NewerInWindow(executions, i) \cap DOMAIN executions'
          = NewerInWindow(executions, i) \ Pruned(executions, p)
    BY <2>1 DEF NewerInWindow
  <2> HIDE DEF p
  <2> QED
    BY <1>1, <1>2, <2>2, <2>3, PrunedKeeps
<1>4. CASE Sweep
  <2>1. DOMAIN executions' = DOMAIN executions \ Abandoned(executions, now)
    BY <1>4 DEF Sweep, Delete
  <2>2. executions[i].status \in OpenStatus /\ executions[i].started < now - AbandonAfter
    BY <2>1 DEF Abandoned
  <2>3. executions[i].started \in Nat /\ AbandonAfter \in Nat
    BY <1>1, ScanExecutionAssumption DEF Row
  <2>4. ~Terminal(executions[i])
    BY <2>2 DEF Terminal, TerminalStatus, OpenStatus
  <2> QED
    BY <1>1, <2>2, <2>3, <2>4
<1>5. ASSUME NEW c \in Callers, CallerStep(c), ~ \E ok \in BOOLEAN : Retain(c, ok)
      PROVE  FALSE
  <2>1. CASE UNCHANGED executions
    BY <2>1
  <2>2. CASE \E ok \in BOOLEAN : AdmitNew(c, ok)
    BY <2>2 DEF AdmitNew, Insert
  <2>3. CASE \E ok \in BOOLEAN :
               CancelBeforeStart(c, ok) \/ Start(c, ok) \/ Finish(c, ok)
    BY <2>3, FinishShape DEF CancelBeforeStart, Cancelled, Start, Started, Set
  <2>4. CASE QuietStep(c)
    BY <2>1, <2>4, QuietMove
  <2>5. CASE \E ok \in BOOLEAN, detail \in BOOLEAN : Persist(c, ok, detail)
    BY <2>1, <2>5 DEF Persist
  <2> QED
    BY <1>5, <2>2, <2>3, <2>4, <2>5 DEF CallerStep, QuietStep
<1>6. CASE \/ \E c \in Callers, k \in Keys, p \in Plans : Request(c, k, p)
           \/ \E c \in Callers : Cancel(c)
           \/ Tick \/ Crash \/ UNCHANGED vars
  BY <1>6 DEF Request, Cancel, Tick, Crash, vars, tables
<1> QED
  BY <1>3, <1>4, <1>5, <1>6 DEF Next

\* Retention removes a settled execution only when Keep newer ones of its own
\* window are left, so verifications never evict visible history, whoever
\* prunes which scope; and an open one only when it is older than the
\* abandonment window (prune_scan_executions_for_scope, run_retention_sweep).
THEOREM RetentionKeeps == Spec => RetentionKeepsNewest
<1> DEFINE A == \A i \in DOMAIN executions \ DOMAIN executions' :
                  IF Terminal(executions[i])
                    THEN Cardinality(NewerInWindow(executions, i)
                                       \cap DOMAIN executions') >= Keep
                    ELSE now - executions[i].started > AbandonAfter
<1>1. TypeOK /\ [Next]_vars => [A]_vars
  BY RetentionStep
<1> HIDE DEF A
<1>2. Spec => [][A]_vars
  BY TypeCorrect, <1>1, PTL DEF Spec
<1> QED
  BY <1>2 DEF A, RetentionKeepsNewest

-----------------------------------------------------------------------------
(* What HandlerReturns rests on besides fairness: a handler only goes        *)
(* forward, whatever others do meanwhile to its row.                         *)

\* How many steps a handler at a place has left at the most; a web component
\* may have the code component after it.
LeftAt(pc, comp) ==
    LET then == IF comp = "web" THEN 4 ELSE 0 IN
    CASE pc = "admit" -> 13
      [] pc = "precheck" -> 12
      [] pc = "start" -> 7 + then
      [] pc = "collect" -> 6 + then
      [] pc = "persist" -> 5 + then
      [] pc = "finish" -> 4 + then
      [] pc = "link" -> 3
      [] pc = "retain" -> 2
      [] OTHER -> 1

StepsLeft(c) == IF job[c] = NoJob THEN 0 ELSE LeftAt(job[c].pc, job[c].comp)

\* The ways of a handler from one place, with its component, to the next.
HandlerMove(p, x, q, y) ==
    \/ p = "admit" /\ q \in {"precheck", "start"}
    \/ p = "finish" /\ x = "web" /\ q = "start" /\ y = "code"
    \/ /\ x = y
       /\ \/ p = "precheck" /\ q \in {"start", "retain"}
          \/ p = "start" /\ q \in {"collect", "finish"}
          \/ p = "collect" /\ q \in {"persist", "finish"}
          \/ p = "persist" /\ q = "finish"
          \/ p = "finish" /\ q \in {"link", "retain"}
          \/ p = "link" /\ q = "retain"
          \/ p = "retain" /\ q = "record"

MovesTo(j, k) == k = NoJob \/ HandlerMove(j.pc, j.comp, k.pc, k.comp)

LEMMA GotoOwn ==
  ASSUME TypeOK, NEW c \in Callers, NEW k, Goto(c, k)
  PROVE  job'[c] = k
BY DEF TypeOK, JobsOK, Goto

\* An error takes the handler on, or out.
LEMMA ErrorMoves ==
  ASSUME NEW j \in Job PROVE MovesTo(j, OnError(j))
<1>1. CASE j.pc = "persist"
  <2> DEFINE k == [j EXCEPT !.pc = "finish", !.result = "failed", !.detail = TRUE]
  <2>1. OnError(j) = k
    BY <1>1, OnErrorCases
  <2>2. k.pc = "finish" /\ k.comp = j.comp
    BY DEF Job
  <2> QED
    BY <1>1, <2>1, <2>2 DEF MovesTo, HandlerMove
<1>2. CASE j.pc = "retain"
  <2> DEFINE k == [j EXCEPT !.pc = "record"]
  <2>1. OnError(j) = k
    BY <1>2, OnErrorCases
  <2>2. k.pc = "record" /\ k.comp = j.comp
    BY DEF Job
  <2> QED
    BY <1>2, <2>1, <2>2 DEF MovesTo, HandlerMove
<1>3. CASE j.pc \notin {"persist", "retain"}
  BY <1>3, OnErrorCases DEF MovesTo
<1> QED
  BY <1>1, <1>2, <1>3

\* So where an operation takes it and where its lost answer does are both on.
LEMMA ReplyMoves ==
  ASSUME TypeOK, NEW c \in Callers, job[c] # NoJob, NEW ok \in BOOLEAN, NEW k,
         Reply(c, ok, k), MovesTo(job[c], k)
  PROVE  MovesTo(job[c], job'[c])
<1>1. job[c] \in Job
  BY DEF TypeOK, JobsOK
<1>2. job'[c] = k \/ job'[c] = OnError(job[c])
  BY GotoOwn DEF Reply
<1> QED
  BY <1>1, <1>2, ErrorMoves

LEMMA HandlerMoves ==
  ASSUME TypeOK, NEW c \in Callers, CallerStep(c)
  PROVE  MovesTo(job[c], job'[c])
<1> DEFINE j == job[c]
<1>1. j # NoJob /\ j \in Job
  BY StepHasJob DEF TypeOK, JobsOK
<1> HIDE DEF j
<1>2. CASE AdmitReused(c) \/ AdmitRefused(c) \/ Ineligible(c) \/ Record(c)
  BY <1>2, GotoOwn
  DEF AdmitReused, AdmitRefused, Ineligible, Record, Return, MovesTo
<1>3. CASE Precheck(c) \/ Collected(c) \/ Link(c) \/ ScoreFails(c)
  <2>1. PICK q \in PC :
          /\ Goto(c, [j EXCEPT !.pc = q])
          /\ \/ j.pc = "precheck" /\ q = "start"
             \/ j.pc = "collect" /\ q = "persist"
             \/ j.pc = "link" /\ q = "retain"
    BY <1>3 DEF Precheck, Collected, Link, ScoreFails, PC, At, j
  <2>2. [j EXCEPT !.pc = q].pc = q /\ [j EXCEPT !.pc = q].comp = j.comp
    BY <1>1 DEF Job
  <2> QED
    BY <2>1, <2>2, GotoOwn DEF MovesTo, HandlerMove, j
<1>4. CASE SkipCode(c) \/ \E result \in {"failed", "cancelled"} : CollectFails(c, result)
  <2>1. PICK r \in {"failed", "cancelled"} :
          /\ Goto(c, [j EXCEPT !.pc = "finish", !.result = r, !.detail = TRUE])
          /\ j.pc \in {"start", "collect"}
    BY <1>4 DEF SkipCode, CollectFails, At, j
  <2> DEFINE k == [j EXCEPT !.pc = "finish", !.result = r, !.detail = TRUE]
  <2>2. k.pc = "finish" /\ k.comp = j.comp
    BY <1>1 DEF Job
  <2> QED
    BY <2>1, <2>2, GotoOwn DEF MovesTo, HandlerMove, j
<1>5. CASE PersistOrphan(c) \/ DbFails(c)
  BY <1>1, <1>5, GotoOwn, ErrorMoves DEF PersistOrphan, DbFails, j
<1>6. CASE \E ok \in BOOLEAN :
             CancelBeforeStart(c, ok) \/ Start(c, ok) \/ Retain(c, ok)
  <2>1. PICK ok \in BOOLEAN, q \in PC :
          /\ Reply(c, ok, [j EXCEPT !.pc = q])
          /\ \/ j.pc = "precheck" /\ q = "retain"
             \/ j.pc = "start" /\ q = "collect"
             \/ j.pc = "retain" /\ q = "record"
    BY <1>6 DEF CancelBeforeStart, Start, Retain, PC, At, j
  <2>2. [j EXCEPT !.pc = q].pc = q /\ [j EXCEPT !.pc = q].comp = j.comp
    BY <1>1 DEF Job
  <2>3. MovesTo(j, [j EXCEPT !.pc = q])
    BY <2>1, <2>2 DEF MovesTo, HandlerMove
  <2> QED
    BY <1>1, <2>1, <2>3, ReplyMoves DEF j
<1>7. CASE \E ok \in BOOLEAN, detail \in BOOLEAN : Persist(c, ok, detail)
  <2>1. PICK ok \in BOOLEAN, detail \in BOOLEAN : Persist(c, ok, detail)
    BY <1>7
  <2> DEFINE k == [j EXCEPT !.pc = "finish", !.result = "complete",
                            !.detail = detail]
  <2>2. Reply(c, ok, k) /\ j.pc = "persist"
    BY <2>1 DEF Persist, At, j
  <2>3. k.pc = "finish" /\ k.comp = j.comp
    BY <1>1 DEF Job
  <2>4. MovesTo(j, k)
    BY <2>2, <2>3 DEF MovesTo, HandlerMove
  <2> QED
    BY <1>1, <2>2, <2>4, ReplyMoves DEF j
<1>8. CASE \E ok \in BOOLEAN : Finish(c, ok)
  <2>1. PICK ok \in BOOLEAN : Finish(c, ok)
    BY <1>8
  <2>2. PICK row : Reply(c, ok, AfterFinish(j, row)) /\ j.pc = "finish"
    BY <2>1, FinishShape DEF At, j
  <2> DEFINE k == AfterFinish(j, row)
             next == [j EXCEPT !.result = "planned", !.detail = FALSE]
  <2>3. /\ k.pc = "start" => j.comp = "web" /\ k.comp = "code"
        /\ k.pc # "start" => k.comp = j.comp
    <3>1. \A q : [next EXCEPT !.pc = q].comp = j.comp
      BY <1>1 DEF Job
    <3>2. /\ [next EXCEPT !.comp = "code", !.pc = "start"].comp = "code"
          /\ [next EXCEPT !.comp = "code", !.pc = "start"].pc = "start"
      BY <1>1 DEF Job
    <3>3. \A q \in {"link", "retain"} : [next EXCEPT !.pc = q].pc = q
      BY <1>1 DEF Job
    <3>4. \/ j.comp = "web" /\ k = [next EXCEPT !.comp = "code", !.pc = "start"]
          \/ \E q \in {"link", "retain"} : k = [next EXCEPT !.pc = q]
      BY DEF AfterFinish
    <3> HIDE DEF next, k
    <3> QED
      BY <3>1, <3>2, <3>3, <3>4
  <2>4. k.pc \in {"start", "link", "retain"}
    BY <1>1, AfterFinishType
  <2> HIDE DEF k
  <2>5. MovesTo(j, k)
    BY <2>2, <2>3, <2>4 DEF MovesTo, HandlerMove
  <2> QED
    BY <1>1, <2>2, <2>5, ReplyMoves DEF j, k
<1>9. CASE \E ok \in BOOLEAN : AdmitNew(c, ok)
  <2>1. PICK ok \in BOOLEAN : AdmitNew(c, ok)
    BY <1>9
  <2> DEFINE k == [j EXCEPT !.exec = nextId, !.comp = FirstComponent(j.plan),
                            !.pc = IF j.plan.class = "verification"
                                     THEN "start" ELSE "precheck"]
  <2>2. Reply(c, ok, k) /\ j.pc = "admit"
    BY <2>1 DEF AdmitNew, At, j
  <2>3. k.pc \in {"start", "precheck"}
    BY <1>1 DEF Job
  <2>4. MovesTo(j, k)
    BY <2>2, <2>3 DEF MovesTo, HandlerMove
  <2> QED
    BY <1>1, <2>2, <2>4, ReplyMoves DEF j
<1> QED
  BY <1>2, <1>3, <1>4, <1>5, <1>6, <1>7, <1>8, <1>9 DEF CallerStep

LEMMA HandlerNearer ==
  ASSUME TypeOK, NEW c \in Callers, CallerStep(c)
  PROVE  StepsLeft(c)' < StepsLeft(c)
<1>1. job[c] # NoJob /\ job[c] \in Job
  BY StepHasJob DEF TypeOK, JobsOK
<1>2. MovesTo(job[c], job'[c])
  BY HandlerMoves
<1>3. LeftAt(job[c].pc, job[c].comp) \in Nat \ {0}
  BY DEF LeftAt
<1>4. ASSUME NEW p \in PC, NEW q \in PC, NEW x \in Components, NEW y \in Components,
             HandlerMove(p, x, q, y)
      PROVE  LeftAt(q, y) < LeftAt(p, x)
  BY <1>4 DEF HandlerMove, LeftAt, PC, Components
<1>5. CASE job'[c] = NoJob
  BY <1>1, <1>3, <1>5 DEF StepsLeft
<1>6. CASE job'[c] # NoJob
  <2>1. job'[c] \in Job
    BY <1>6, CallerMove DEF JobMove
  <2> QED
    BY <1>1, <1>2, <1>4, <1>6, <2>1 DEF MovesTo, StepsLeft, Job
<1> QED
  BY <1>5, <1>6

\* Every handler always comes nearer to its return (what HandlerReturns rests
\* on): each of its own steps, also one that fails or finds its row gone,
\* leaves it fewer of the at most 13 it has, a request only begins where there
\* is no handler, and no other handler, cancel, sweep or clock sends it back.
THEOREM HandlersRunOut ==
  /\ Spec => [](\A c \in Callers : /\ StepsLeft(c) \in 0 .. 13
                                   /\ StepsLeft(c) = 0 <=> job[c] = NoJob)
  /\ Spec => [][\A c \in Callers :
                  /\ CallerStep(c) => StepsLeft(c)' < StepsLeft(c)
                  /\ StepsLeft(c)' <= StepsLeft(c) \/ job[c] = NoJob]_vars
<1> DEFINE Nearer == \A c \in Callers :
                       /\ CallerStep(c) => StepsLeft(c)' < StepsLeft(c)
                       /\ StepsLeft(c)' <= StepsLeft(c) \/ job[c] = NoJob
           Few == \A c \in Callers : /\ StepsLeft(c) \in 0 .. 13
                                     /\ StepsLeft(c) = 0 <=> job[c] = NoJob
<1>1. Few
  BY DEF StepsLeft, LeftAt
<1>2. ASSUME TypeOK, Next, NEW c \in Callers, job[c] # NoJob
      PROVE  StepsLeft(c)' <= StepsLeft(c)
  <2>1. StepsLeft(c) \in Nat /\ StepsLeft(c)' \in Nat
    BY DEF StepsLeft, LeftAt
  <2>2. ASSUME NEW d \in Callers, CallerStep(d) PROVE StepsLeft(c)' <= StepsLeft(c)
    <3>1. CASE d = c
      BY <1>2, <2>1, <2>2, <3>1, HandlerNearer
    <3>2. CASE d # c
      <4>1. job'[c] = job[c]
        BY <1>2, <2>2, <3>2, CallerMove DEF JobMove, TypeOK, JobsOK
      <4> QED
        BY <2>1, <4>1 DEF StepsLeft
    <3> QED
      BY <3>1, <3>2
  <2>3. ASSUME NEW d \in Callers, NEW k \in Keys, NEW p \in Plans, Request(d, k, p)
        PROVE  job'[c] = job[c]
    BY <1>2, <2>3 DEF Request, Goto, TypeOK, JobsOK
  <2>4. ASSUME NEW d \in Callers, Cancel(d)
        PROVE  StepsLeft(c)' = StepsLeft(c)
    <3>1. job[c] \in Job /\ job'[c] \in {job[c], [job[c] EXCEPT !.cancelled = TRUE]}
      BY <1>2, <2>4 DEF Cancel, Goto, TypeOK, JobsOK
    <3>2. /\ [job[c] EXCEPT !.cancelled = TRUE] \in Job
          /\ [job[c] EXCEPT !.cancelled = TRUE].pc = job[c].pc
          /\ [job[c] EXCEPT !.cancelled = TRUE].comp = job[c].comp
      BY <3>1 DEF Job
    <3> QED
      BY <1>2, <3>1, <3>2, NoJobAssumption DEF StepsLeft
  <2>5. CASE Tick \/ Sweep
    <3>1. job' = job
      BY <2>5 DEF Tick, Sweep
    <3> QED
      BY <2>1, <3>1 DEF StepsLeft
  <2>6. CASE Crash
    <3>1. job'[c] = NoJob
      BY <2>6 DEF Crash
    <3> QED
      BY <2>1, <3>1 DEF StepsLeft
  <2>7. ASSUME job'[c] = job[c] PROVE StepsLeft(c)' <= StepsLeft(c)
    BY <2>1, <2>7 DEF StepsLeft
  <2> QED
    BY <1>2, <2>1, <2>2, <2>3, <2>4, <2>5, <2>6, <2>7 DEF Next
<1>3. TypeOK /\ [Next]_vars => [Nearer]_vars
  BY <1>2, HandlerNearer
<1> HIDE DEF Nearer, Few
<1>4. Spec => []Few
  BY <1>1, PTL
<1>5. Spec => [][Nearer]_vars
  BY <1>3, TypeCorrect, PTL DEF Spec
<1> QED
  BY <1>4, <1>5 DEF Few, Nearer
=============================================================================
