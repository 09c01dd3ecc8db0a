---------------------------- MODULE LicenseProofs ----------------------------
(***************************************************************************)
(* Proofs about the license of the installation, for any number of         *)
(* commands, license keys, ticks, imports and failures.                    *)
(***************************************************************************)
EXTENDS License, SequenceTheorems, TLAPS

\* The names are different things, and the user has a license key.
LicenseAssumption ==
    /\ Loop \notin Handlers /\ Nobody \notin Actors
    /\ Original \notin Handlers /\ NoInst \notin Insts
    /\ LicenseKeys \in Nat \ {0} /\ Roles \subseteq Role
    /\ MaxTruth \in Nat /\ MaxTicks \in Nat /\ MaxImports \in Nat /\ MaxFaults \in Nat

-----------------------------------------------------------------------------
(* The invariant, first part: what a command has in hand where it is.      *)

\* An activation before it has minted an installation, before it writes what
\* it minted, and after it has failed to write it or has written it.
Early == {"load", "plan", "recheck", "mint", "remint", "releaseOwn", "recordOwn"}
Unwritten == {"teardown", "releaseOld", "recordOld", "stray", "persist", "save"}
Late == {"rekey", "restore", "releaseNew", "recordNew", "sweep"}
Ensuring == {"ensure", "check", "issue"}

RowOK(r) == r.inst = NoInst => r = NoRow

ValidateOK(j) ==
    /\ j.pc \in {"capture", "load", "ask", "commit"}
    /\ j.pc \in {"ask", "commit"} => j.old \in Insts

DeactivateOK(j) ==
    /\ j.pc \in {"load", "plan", "recheck", "clear", "forget", "reread", "tombstone",
                 "credential", "releaseSeat", "recordSeat"}
    /\ j.pc # "load" => j.old \in Insts
    /\ j.pc \in {"credential", "releaseSeat", "recordSeat", "tombstone"} => j.key \in Keys

PlanOK(j) ==
    /\ j.pc \in {"load", "plan"} <=> j.plan = "none"
    /\ j.plan = "active" => j.pc \in Ensuring /\ j.old \in Insts /\ j.new = NoInst
    /\ j.plan = "teardown" => j.old \in Insts /\ j.oldKey \in Keys
    /\ j.plan = "fresh" => j.old = NoInst \/ j.oldKey = NoKey
    /\ j.pc = "sweep" => j.plan = "teardown"
    /\ j.pc = "stray" => j.plan = "fresh"

\* `again` says that the seat of the installation that is replaced went first.
AgainOK(j) ==
    /\ j.pc \in {"remint", "releaseOwn", "recordOwn"} => j.again
    /\ j.again => /\ j.old \in Insts
                  /\ j.pc \notin {"load", "plan", "recheck", "mint", "releaseOld", "recordOld"}
                  /\ j.plan = "teardown" => j.oldKey = j.key
    /\ j.pc \in {"releaseOld", "recordOld"} => j.old \in Insts

ActivateOK(h, j) ==
    /\ j.key \in Keys
    /\ j.pc \in Early \cup Unwritten \cup Late \cup Ensuring
    /\ j.pc \in Early => j.new = NoInst
    /\ j.pc \notin Early /\ j.plan # "active" => j.new = h
    /\ PlanOK(j) /\ AgainOK(j)

JobOK(h, j) ==
    /\ RowOK(j.prev) /\ j.role # "tick"
    /\ j.role = "none" => j = NoJob \/ j.pc = "over"
    /\ j.role = "validate" => ValidateOK(j)
    /\ j.role = "deactivate" => DeactivateOK(j)
    /\ j.role = "activate" => ActivateOK(h, j)

LoopOK(j) ==
    \/ j = NoJob
    \/ /\ j.role = "tick" /\ j.prev = NoRow
       /\ j.pc \in {"drain", "load", "token", "fetch", "reject", "adopt"} \cup Ensuring
       /\ j.pc \notin {"drain", "load"} => j.old \in Insts
       /\ j.pc \in Ensuring => j.key \in Keys

Jobs == (\A h \in Handlers : JobOK(h, job[h])) /\ LoopOK(job[Loop])
Rows == RowOK(row) /\ \A n \in DOMAIN queue : RowOK(queue[n].row)

Typed == TypeOK /\ Jobs /\ Rows

-----------------------------------------------------------------------------
(* What the statements of a step come to.                                  *)

LEMMA Names ==
  ASSUME LicenseAssumption
  PROVE  /\ 1 \in Keys /\ Keys \subseteq Nat /\ NoKey \notin Keys /\ 0 \in 0 .. MaxTruth
         /\ NoRow \in Row /\ RowOK(NoRow) /\ NoJob \in Job
         /\ Handlers \subseteq Actors /\ Loop \in Actors
         /\ Handlers \subseteq Insts /\ Original \in Insts
BY DEF LicenseAssumption, Keys, NoKey, NoRow, Row, RowOK, NoJob, Job, Actors, Insts,
       PC, Role

LEMMA GotoFacts ==
  ASSUME job \in [Actors -> Job], NEW a \in Actors, NEW p \in PC, Goto(a, p)
  PROVE  /\ job' \in [Actors -> Job] /\ job'[a] \in Job
         /\ \A b \in Actors : b # a => job'[b] = job[b]
         /\ job'[a] = [job[a] EXCEPT !.pc = p] /\ job'[a].pc = p
         /\ job'[a].role = job[a].role /\ job'[a].key = job[a].key
         /\ job'[a].old = job[a].old /\ job'[a].oldKey = job[a].oldKey
         /\ job'[a].new = job[a].new /\ job'[a].verdict = job[a].verdict
         /\ job'[a].ok = job[a].ok /\ job'[a].plan = job[a].plan
         /\ job'[a].again = job[a].again /\ job'[a].prev = job[a].prev
BY DEF Goto, Job

Over == [NoJob EXCEPT !.pc = "over"]

LEMMA DoneFacts ==
  ASSUME LicenseAssumption, job \in [Actors -> Job], NEW a \in Actors, Done(a)
  PROVE  /\ job' \in [Actors -> Job] /\ job'[a] \in Job
         /\ \A b \in Actors : b # a => job'[b] = job[b]
         /\ job'[a] = IF a = Loop THEN NoJob ELSE Over
<1>1. Over \in Job
  <2>1. "over" \in PC
    BY DEF PC
  <2> QED
    <3>1. NoJob \in Job
      BY Names
    <3> QED
      BY <2>1, <3>1, Zenon DEF Over, Job
<1> QED
  BY <1>1, Names DEF Done, Over

\* The jobs stay as they should be when the one that changes does.
LEMMA JobsStep ==
  ASSUME LicenseAssumption, Jobs, NEW a \in Actors,
         \A b \in Actors : b # a => job'[b] = job[b],
         a \in Handlers => JobOK(a, job'[a]), a = Loop => LoopOK(job'[a])
  PROVE  Jobs'
BY Names DEF Jobs, LicenseAssumption, Actors

LEMMA JobsSame == ASSUME Jobs, UNCHANGED job PROVE Jobs'
BY DEF Jobs

LEMMA OverOK == ASSUME NEW h PROVE JobOK(h, Over)
BY DEF Over, NoJob, JobOK, RowOK, NoRow

LEMMA DoneJobs ==
  ASSUME LicenseAssumption, Typed, NEW a \in Actors, Done(a)
  PROVE  job' \in [Actors -> Job] /\ Jobs'
<1>1. a \in Handlers => a # Loop
  BY DEF LicenseAssumption
<1>2. LoopOK(NoJob)
  BY DEF LoopOK
<1> QED
  BY <1>1, <1>2, DoneFacts, JobsStep, OverOK DEF Typed, TypeOK

\* An operation of the worker and a fault keep the types.
LEMMA AppliedOK ==
  ASSUME LicenseAssumption, TypeOK, RowOK(row), NEW op \in Operation, RowOK(op.row)
  PROVE  Applied(op) \in Row /\ RowOK(Applied(op))
<1>1. CASE op.op = "update"
  <2>1. CASE row = NoRow
    BY <1>1, <2>1, Names DEF Applied
  <2>2. CASE row # NoRow
    <3>1. /\ row \in Row /\ op.row \in Row
          /\ Applied(op) = [row EXCEPT !.verdict = op.row.verdict, !.ok = op.row.ok]
      BY <1>1, <2>2 DEF Applied, TypeOK, Operation
    <3>2. Applied(op) \in Row /\ Applied(op).inst = row.inst
      BY <3>1 DEF Row
    <3> QED
      BY <2>2, <3>2 DEF RowOK
  <2> QED
    BY <2>1, <2>2
<1>2. CASE op.op = "undo"
  BY <1>2 DEF Applied, TypeOK, Operation
<1>3. CASE op.op \notin {"update", "undo"}
  BY <1>3 DEF Applied, Operation
<1> QED
  BY <1>1, <1>2, <1>3

Operable(op) == op \in Operation /\ RowOK(op.row)

LEMMA OpFacts ==
  ASSUME LicenseAssumption, NEW kind \in {"update", "save", "clear", "import"},
         NEW r \in Row, RowOK(r)
  PROVE  Operable(Op(kind, r))
BY DEF Op, Operation, Operable

\* What is known of the row, the queue and the faults after an operation.
LEMMA WriteTypes ==
  ASSUME LicenseAssumption, Typed, NEW op, Operable(op),
         Write(op) \/ Refuse \/ Postpone(op)
  PROVE  /\ row' \in Row /\ queue' \in Seq(Operation) /\ faults' \in 0 .. MaxFaults
         /\ RowOK(row') /\ \A n \in DOMAIN queue' : RowOK(queue'[n].row)
<1> USE DEF Typed, TypeOK, Rows
<1>1. op \in Operation /\ RowOK(op.row)
  BY DEF Operable
<1>2. faults' \in 0 .. MaxFaults
  BY DEF Write, Refuse, Postpone, NoFault, Fault, LicenseAssumption
<1>3. CASE Write(op)
  BY <1>1, <1>2, <1>3, AppliedOK DEF Write
<1>4. CASE Refuse
  BY <1>2, <1>4 DEF Refuse
<1>5. CASE Postpone(op)
  <2>1. queue' = Append(queue, op) /\ UNCHANGED row
    BY <1>5 DEF Postpone
  <2>2. /\ queue' \in Seq(Operation) /\ Len(queue') = Len(queue) + 1
        /\ \A n \in 1 .. Len(queue) : queue'[n] = queue[n]
        /\ queue'[Len(queue) + 1] = op
    BY <2>1, <1>1, AppendProperties
  <2> QED
    BY <1>1, <1>2, <2>1, <2>2
<1> QED
  BY <1>3, <1>4, <1>5

\* Whatever else a step does, this much of it stays as it is in most.
LEMMA Counters ==
  ASSUME LicenseAssumption, TypeOK
  PROVE  /\ NoFault \/ Fault \/ Faults(2) => faults' \in 0 .. MaxFaults
         /\ Asking \subseteq Handlers /\ (Bump => behind' \subseteq Handlers)
BY DEF NoFault, Fault, Faults, TypeOK, LicenseAssumption, Bump, Asking

LEMMA RowsSame == ASSUME Rows, UNCHANGED <<row, queue>> PROVE Rows'
BY DEF Rows

-----------------------------------------------------------------------------
(* Types, command by command.                                              *)

\* Where a command is tells which command it is.
LEMMA RoleOf ==
  ASSUME LicenseAssumption, Typed, NEW h \in Handlers
  PROVE  /\ job \in [Actors -> Job] /\ h \in Actors /\ h # Loop /\ job[h] \in Job
         /\ JobOK(h, job[h])
         /\ job[h].old \in Insts \cup {NoInst} /\ job[h].new \in Insts \cup {NoInst}
         /\ job[h].key \in Keys \cup {NoKey} /\ job[h].oldKey \in Keys \cup {NoKey}
         /\ job[h].verdict \in 0 .. MaxTruth /\ job[h].ok \in BOOLEAN /\ job[h].prev \in Row
         /\ job[h].pc = "idle" => job[h] = NoJob
         /\ job[h].pc \in {"capture", "ask", "commit"} => job[h].role = "validate"
         /\ job[h].pc \in {"clear", "forget", "reread", "tombstone", "credential",
                           "releaseSeat", "recordSeat"} => job[h].role = "deactivate"
         /\ job[h].pc \in ((Early \ {"load", "plan", "recheck"}) \cup Unwritten \cup Late
                            \cup Ensuring) => job[h].role = "activate"
         /\ job[h].pc \in {"plan", "recheck"} => job[h].role \in {"activate", "deactivate"}
         /\ job[h].pc = "load" => job[h].role \in Role
         /\ job[h].role = "validate" => ValidateOK(job[h])
         /\ job[h].role = "deactivate" => DeactivateOK(job[h])
         /\ job[h].role = "activate" => ActivateOK(h, job[h])
<1>1. /\ job \in [Actors -> Job] /\ h \in Actors /\ h # Loop /\ job[h] \in Job
      /\ JobOK(h, job[h])
  BY Names DEF Typed, TypeOK, Jobs, LicenseAssumption
<1>7. /\ job[h].old \in Insts \cup {NoInst} /\ job[h].new \in Insts \cup {NoInst}
      /\ job[h].key \in Keys \cup {NoKey} /\ job[h].oldKey \in Keys \cup {NoKey}
      /\ job[h].verdict \in 0 .. MaxTruth /\ job[h].ok \in BOOLEAN /\ job[h].prev \in Row
  BY <1>1 DEF Job
<1>2. job[h].role \in Role \cup {"none"}
  BY <1>1 DEF JobOK, Job
<1>3. CASE job[h].role = "none"
  BY <1>1, <1>7, <1>3 DEF JobOK, NoJob, Early, Unwritten, Late, Ensuring
<1>4. CASE job[h].role = "validate"
  BY <1>1, <1>7, <1>4 DEF JobOK, ValidateOK, Early, Unwritten, Late, Ensuring, Role
<1>5. CASE job[h].role = "deactivate"
  BY <1>1, <1>7, <1>5 DEF JobOK, DeactivateOK, Early, Unwritten, Late, Ensuring, Role
<1>6. CASE job[h].role = "activate"
  BY <1>1, <1>7, <1>6 DEF JobOK, ActivateOK, Early, Unwritten, Late, Ensuring, Role
<1> QED
  BY <1>1, <1>2, <1>3, <1>4, <1>5, <1>6, <1>7 DEF Role

\* What a command keeps when it goes on.
LEMMA HandlerGoto ==
  ASSUME LicenseAssumption, Typed, NEW h \in Handlers, NEW p \in PC, Goto(h, p)
  PROVE  /\ job' \in [Actors -> Job] /\ h \in Actors
         /\ \A b \in Actors : b # h => job'[b] = job[b]
         /\ job'[h].pc = p
         /\ job'[h].role = job[h].role /\ job'[h].key = job[h].key
         /\ job'[h].old = job[h].old /\ job'[h].oldKey = job[h].oldKey
         /\ job'[h].new = job[h].new /\ job'[h].verdict = job[h].verdict
         /\ job'[h].ok = job[h].ok /\ job'[h].plan = job[h].plan
         /\ job'[h].again = job[h].again /\ job'[h].prev = job[h].prev
<1>1. job \in [Actors -> Job] /\ h \in Actors
  BY RoleOf
<1> HIDE DEF Job
<1> QED
  BY <1>1, GotoFacts, Zenon

LEMMA GotoJobs ==
  ASSUME LicenseAssumption, Typed, NEW h \in Handlers, NEW p \in PC, Goto(h, p),
         JobOK(h, job'[h])
  PROVE  job' \in [Actors -> Job] /\ Jobs'
<1>1. /\ job' \in [Actors -> Job] /\ h \in Actors /\ h # Loop
      /\ \A b \in Actors : b # h => job'[b] = job[b]
  BY HandlerGoto DEF LicenseAssumption
<1>2. Jobs
  BY DEF Typed
<1> QED
  BY <1>1, <1>2, JobsStep

LEMMA StartTypes ==
  ASSUME LicenseAssumption, Typed, NEW h \in Handlers, NEW role \in Roles, NEW k \in Keys,
         Start(h, role, k)
  PROVE  Typed'
<1>1. job[h] = NoJob /\ role \in Role
  BY RoleOf DEF Start, At, LicenseAssumption
<1>2. /\ job' \in [Actors -> Job] /\ \A b \in Actors : b # h => job'[b] = job[b]
      /\ job'[h] = [NoJob EXCEPT !.role = role, !.key = k,
                       !.pc = IF role = "validate" THEN "capture" ELSE "load"]
  BY <1>1, RoleOf, Names DEF Start, Job, PC, Role, NoJob
<1>3. JobOK(h, job'[h])
  BY <1>1, <1>2, Names DEF JobOK, ValidateOK, DeactivateOK, ActivateOK, PlanOK, AgainOK,
     Early, Role, RowOK, NoJob, Unwritten, Late, Ensuring
<1> QED
  BY <1>2, <1>3, RoleOf, JobsStep, RowsSame
  DEF Typed, TypeOK, Start, local, ring, debts, locks, remote, rest

LEMMA CaptureTypes ==
  ASSUME LicenseAssumption, Typed, NEW h \in Handlers, Capture(h)
  PROVE  Typed'
<1>1. /\ job[h].pc = "capture" /\ job[h].role = "validate" /\ h \in Actors
      /\ JobOK(h, job[h]) /\ job \in [Actors -> Job]
  BY RoleOf DEF Capture, At
<1>2. Goto(h, "load") /\ "load" \in PC
  BY DEF Capture, PC
<1>3. JobOK(h, job'[h])
  BY <1>1, <1>2, GotoFacts DEF JobOK, ValidateOK
<1> QED
  BY <1>1, <1>2, <1>3, GotoFacts, RoleOf, JobsStep, RowsSame
  DEF Typed, TypeOK, Capture, local, ring, debts, locks, remote, rest

LEMMA ConfirmTypes ==
  ASSUME LicenseAssumption, Typed, NEW h \in Handlers, Confirm(h)
  PROVE  Typed'
<1>1. /\ job[h].pc = "recheck" /\ job[h].role = "activate" /\ h \in Actors
      /\ JobOK(h, job[h]) /\ job \in [Actors -> Job]
  BY RoleOf DEF Confirm, At
<1>2. job' \in [Actors -> Job] /\ Jobs'
  <2>1. CASE Done(h)
    BY <1>1, <2>1, DoneJobs
  <2>2. CASE Goto(h, "mint")
    <3>0. "mint" \in PC
      BY DEF PC
    <3>1. JobOK(h, job'[h])
      BY <1>1, <2>2, <3>0, HandlerGoto
      DEF JobOK, ActivateOK, PlanOK, AgainOK, Early, Unwritten, Late, Ensuring
    <3> QED
      BY <2>2, <3>0, <3>1, GotoJobs
  <2> QED
    BY <2>1, <2>2 DEF Confirm
<1> QED
  BY <1>2, Counters, RowsSame
  DEF Typed, TypeOK, Confirm, local, ring, debts, locks, remote, rest

LEMMA UnlinkTypes ==
  ASSUME LicenseAssumption, Typed, NEW h \in Handlers, Unlink(h)
  PROVE  Typed'
<1>1. /\ job[h].pc = "recheck" /\ job[h].role = "deactivate" /\ h \in Actors
      /\ JobOK(h, job[h]) /\ job \in [Actors -> Job]
  BY RoleOf DEF Unlink, At
<1>2. job' \in [Actors -> Job] /\ Jobs'
  <2>1. CASE Done(h)
    BY <1>1, <2>1, DoneJobs
  <2>2. CASE Goto(h, "clear")
    <3>0. "clear" \in PC
      BY DEF PC
    <3>1. JobOK(h, job'[h])
      BY <1>1, <2>2, <3>0, HandlerGoto
      DEF JobOK, DeactivateOK
    <3> QED
      BY <2>2, <3>0, <3>1, GotoJobs
  <2> QED
    BY <2>1, <2>2 DEF Unlink
<1> QED
  BY <1>2, Counters, RowsSame
  DEF Typed, TypeOK, Unlink, local, ring, debts, locks, remote, rest

LEMMA StrayTypes ==
  ASSUME LicenseAssumption, Typed, NEW h \in Handlers, Stray(h)
  PROVE  Typed'
<1>1. /\ job[h].pc = "stray" /\ job[h].role = "activate" /\ h \in Actors
      /\ JobOK(h, job[h]) /\ job \in [Actors -> Job]
  BY RoleOf DEF Stray, At, Early, Unwritten, Late, Ensuring
<1>2. job' \in [Actors -> Job] /\ Jobs'
  <2>1. CASE Goto(h, "persist")
    <3>0. "persist" \in PC
      BY DEF PC
    <3>1. JobOK(h, job'[h])
      BY <1>1, <2>1, <3>0, HandlerGoto
      DEF JobOK, ActivateOK, PlanOK, AgainOK, Early, Unwritten, Late, Ensuring
    <3> QED
      BY <2>1, <3>0, <3>1, GotoJobs
  <2>2. CASE Goto(h, "releaseNew")
    <3>0. "releaseNew" \in PC
      BY DEF PC
    <3>1. JobOK(h, job'[h])
      BY <1>1, <2>2, <3>0, HandlerGoto
      DEF JobOK, ActivateOK, PlanOK, AgainOK, Early, Unwritten, Late, Ensuring
    <3> QED
      BY <2>2, <3>0, <3>1, GotoJobs
  <2> QED
    BY <2>1, <2>2 DEF Stray
<1> QED
  BY <1>2, Counters, RowsSame
  DEF Typed, TypeOK, Stray, local, ring, debts, locks, remote, rest

LEMMA RekeyTypes ==
  ASSUME LicenseAssumption, Typed, NEW h \in Handlers, Rekey(h)
  PROVE  Typed'
<1>1. /\ job[h].pc = "rekey" /\ job[h].role = "activate" /\ h \in Actors
      /\ JobOK(h, job[h]) /\ job \in [Actors -> Job]
  BY RoleOf DEF Rekey, At, Early, Unwritten, Late, Ensuring
<1>2. job' \in [Actors -> Job] /\ Jobs'
  <2>1. CASE Goto(h, "restore")
    <3>0. "restore" \in PC
      BY DEF PC
    <3>1. JobOK(h, job'[h])
      BY <1>1, <2>1, <3>0, HandlerGoto
      DEF JobOK, ActivateOK, PlanOK, AgainOK, Early, Unwritten, Late, Ensuring
    <3> QED
      BY <2>1, <3>0, <3>1, GotoJobs
  <2> QED
    BY <2>1 DEF Rekey
<1>3. key' \in Keys \cup {NoKey} /\ torn' \in BOOLEAN
  <2>1. /\ job[h].oldKey \in Keys \cup {NoKey} /\ job[h].key \in Keys \cup {NoKey}
    BY RoleOf
  <2>2. key \in Keys \cup {NoKey} /\ torn \in BOOLEAN
    BY DEF Typed, TypeOK
  <2> QED
    BY <2>1, <2>2 DEF Rekey, RestoredKey
<1> QED
  BY <1>2, <1>3, Counters, RowsSame
  DEF Typed, TypeOK, Rekey, local, ring, debts, locks, remote, rest, RestoredKey

LEMMA ForgetTypes ==
  ASSUME LicenseAssumption, Typed, NEW h \in Handlers, Forget(h)
  PROVE  Typed'
<1>1. /\ job[h].pc = "forget" /\ job[h].role = "deactivate" /\ h \in Actors
      /\ JobOK(h, job[h]) /\ job \in [Actors -> Job]
  BY RoleOf DEF Forget, At
<1>2. job' \in [Actors -> Job] /\ Jobs'
  <2>1. CASE Done(h)
    BY <1>1, <2>1, DoneJobs
  <2>2. CASE Goto(h, "credential") /\ job[h].key # NoKey
    <3>0. "credential" \in PC
      BY DEF PC
    <3>1. JobOK(h, job'[h])
      <4>1. job[h].key \in Keys
        BY <2>2, RoleOf
      <4> QED
        BY <1>1, <2>2, <4>1, <3>0, HandlerGoto DEF JobOK, DeactivateOK
    <3> QED
      BY <2>2, <3>0, <3>1, GotoJobs
  <2> QED
    BY <2>1, <2>2 DEF Forget
<1>3. Out(h) \subseteq Insts \X Sides
  BY <1>1 DEF Out, JobOK, DeactivateOK, Typed, TypeOK
<1>4. key' \in Keys \cup {NoKey} /\ license' \in Handlers \cup {Nobody}
  BY DEF Forget, Typed, TypeOK
<1>5. stranded' \subseteq Insts \X Sides
  BY <1>3 DEF Forget, Typed, TypeOK
<1> QED
  BY <1>2, <1>4, <1>5, Counters, RowsSame
  DEF Typed, TypeOK, Forget, local, ring, debts, locks, remote, rest

LEMMA RereadTypes ==
  ASSUME LicenseAssumption, Typed, NEW h \in Handlers, Reread(h)
  PROVE  Typed'
<1>1. /\ job[h].pc = "reread" /\ job[h].role = "deactivate" /\ h \in Actors
      /\ JobOK(h, job[h]) /\ job \in [Actors -> Job]
  BY RoleOf DEF Reread, At
<1>2. job' \in [Actors -> Job] /\ Jobs'
  <2>1. CASE Done(h)
    BY <1>1, <2>1, DoneJobs
  <2>2. CASE Goto(h, "tombstone") /\ job[h].key # NoKey
    <3>0. "tombstone" \in PC
      BY DEF PC
    <3>1. JobOK(h, job'[h])
      <4>1. job[h].key \in Keys
        BY <2>2, RoleOf
      <4> QED
        BY <1>1, <2>2, <4>1, <3>0, HandlerGoto DEF JobOK, DeactivateOK
    <3> QED
      BY <2>2, <3>0, <3>1, GotoJobs
  <2> QED
    BY <2>1, <2>2 DEF Reread
<1>3. Out(h) \subseteq Insts \X Sides
  BY <1>1 DEF Out, JobOK, DeactivateOK, Typed, TypeOK
<1>4. stranded' \subseteq Insts \X Sides /\ license' \in Handlers \cup {Nobody}
  BY <1>3 DEF Reread, Typed, TypeOK
<1> QED
  BY <1>2, <1>4, Counters, RowsSame
  DEF Typed, TypeOK, Reread, local, ring, debts, locks, remote, rest

LEMMA ClearTypes ==
  ASSUME LicenseAssumption, Typed, NEW h \in Handlers, Clear(h)
  PROVE  Typed'
<1>1. /\ job[h].pc = "clear" /\ job[h].role = "deactivate" /\ h \in Actors
      /\ JobOK(h, job[h]) /\ job \in [Actors -> Job]
  BY RoleOf DEF Clear, At
<1>2. job' \in [Actors -> Job] /\ Jobs'
  <2>1. CASE Done(h)
    BY <1>1, <2>1, DoneJobs
  <2>2. CASE Goto(h, "forget")
    <3>0. "forget" \in PC
      BY DEF PC
    <3>1. JobOK(h, job'[h])
      BY <1>1, <2>2, <3>0, HandlerGoto
      DEF JobOK, DeactivateOK
    <3> QED
      BY <2>2, <3>0, <3>1, GotoJobs
  <2>3. CASE Goto(h, "reread")
    <3>0. "reread" \in PC
      BY DEF PC
    <3>1. JobOK(h, job'[h])
      BY <1>1, <2>3, <3>0, HandlerGoto
      DEF JobOK, DeactivateOK
    <3> QED
      BY <2>3, <3>0, <3>1, GotoJobs
  <2> QED
    BY <2>1, <2>2, <2>3 DEF Clear
<1>3. /\ row' \in Row /\ queue' \in Seq(Operation) /\ faults' \in 0 .. MaxFaults
      /\ Rows'
  BY WriteTypes, OpFacts, Names DEF Clear, Rows
<1> QED
  BY <1>2, <1>3, Counters
  DEF Typed, TypeOK, Clear, local, ring, debts, locks, remote, rest

\* The verdict of a validation is written, discarded, or asked for once more.
LEMMA CommitTypes ==
  ASSUME LicenseAssumption, Typed, NEW h \in Handlers, Commit(h)
  PROVE  Typed'
<1>1. /\ job[h].pc = "commit" /\ job[h].role = "validate" /\ h \in Actors /\ h # Loop
      /\ JobOK(h, job[h]) /\ job \in [Actors -> Job] /\ job[h].old \in Insts
  BY RoleOf DEF Commit, At, ValidateOK
<1> DEFINE Again == [NoJob EXCEPT !.role = "validate", !.pc = "capture", !.again = TRUE]
<1>2. Again \in Job /\ JobOK(h, Again)
  <2>1. "capture" \in PC /\ "validate" \in Role \cup {"none", "tick"}
    BY DEF PC, Role
  <2>2. Again \in Job
    <3>1. NoJob \in Job
      BY Names
    <3> QED
      BY <2>1, <3>1, Zenon DEF Job
  <2>3. Again.role = "validate" /\ Again.pc = "capture" /\ Again.prev = NoRow
    BY DEF NoJob
  <2> HIDE DEF Again
  <2>4. JobOK(h, Again)
    BY <2>3, Names DEF JobOK, ValidateOK
  <2> QED
    BY <2>2, <2>4
<1>3. job' \in [Actors -> Job] /\ Jobs'
  <2>1. CASE Done(h)
    BY <1>1, <2>1, DoneJobs
  <2>2. CASE job' = [job EXCEPT ![h] = Again]
    BY <1>1, <1>2, <2>2, JobsStep DEF Typed
  <2> QED
    BY <2>1, <2>2 DEF Commit
<1> DEFINE r == [inst |-> job[h].old, verdict |-> job[h].verdict, ok |-> job[h].ok]
<1>4. r \in Row /\ RowOK(r)
  <2>1. job[h].verdict \in 0 .. MaxTruth /\ job[h].ok \in BOOLEAN
    BY RoleOf
  <2> QED
    BY <1>1, <2>1 DEF Row, RowOK, LicenseAssumption
<1>5. /\ row' \in Row /\ queue' \in Seq(Operation) /\ faults' \in 0 .. MaxFaults
      /\ Rows'
  <2>1. CASE Write(Op("update", r)) \/ Refuse \/ Postpone(Op("update", r))
    <3> HIDE DEF r
    <3>1. Operable(Op("update", r))
      BY <1>4, OpFacts
    <3> QED
      BY <2>1, <3>1, WriteTypes DEF Rows
  <2>2. CASE UNCHANGED <<local, faults>>
    BY <2>2 DEF Typed, TypeOK, Rows, local
  <2> QED
    BY <2>1, <2>2 DEF Commit
<1>6. behind' \subseteq Handlers
  BY Counters DEF Commit, local, Typed, TypeOK
<1> QED
  BY <1>3, <1>5, <1>6 DEF Typed, TypeOK, Commit, ring, debts, locks, remote, rest

LEMMA OweTypes ==
  ASSUME LicenseAssumption, TypeOK, NEW k \in Keys, NEW i \in Insts,
         NEW sides \in SUBSET Sides, Owe({<<k, i, side>> : side \in sides})
  PROVE  owed' \subseteq Release /\ overtaken' \subseteq Release
BY DEF Owe, TypeOK, Release

\* The release of a credential changes what types can say nothing about.
LEMMA ReleaseCredentialTypes ==
  ASSUME LicenseAssumption, Typed, NEW h \in Handlers, NEW k \in Keys, NEW i \in Insts,
         ReleaseCredential(h, k, i), job' \in [Actors -> Job], Jobs'
  PROVE  Typed'
<1>1. faults' \in 0 .. MaxFaults
  BY Counters DEF ReleaseCredential, Typed
<1>2. token' \in Insts \cup {NoInst} /\ creds' \subseteq Keys \X Insts
  BY DEF ReleaseCredential, Typed, TypeOK
<1>3. stranded' \subseteq Insts \X Sides
  BY DEF ReleaseCredential, Typed, TypeOK, Sides
<1>4. owed' \subseteq Release /\ overtaken' \subseteq Release
  <2>1. CASE UNCHANGED debts
    BY <2>1 DEF debts, Typed, TypeOK
  <2>2. CASE Owe({<<k, i, "catalog">>})
    BY <2>2 DEF Owe, Typed, TypeOK, Release, Sides
  <2> QED
    BY <2>1, <2>2 DEF ReleaseCredential
<1> QED
  BY <1>1, <1>2, <1>3, <1>4, RowsSame
  DEF Typed, TypeOK, ReleaseCredential, local, locks, rest

LEMMA LoadTypes ==
  ASSUME LicenseAssumption, Typed, NEW h \in Handlers, Load(h)
  PROVE  Typed'
<1>1. /\ job[h].pc = "load" /\ job[h].role \in Role /\ h \in Actors /\ h # Loop
      /\ JobOK(h, job[h]) /\ job \in [Actors -> Job] /\ job[h] \in Job
  BY RoleOf DEF Load, At
<1>2. job' \in [Actors -> Job] /\ Jobs'
  <2>1. CASE Done(h)
    BY <1>1, <2>1, DoneJobs
  <2>2. CASE /\ row = NoRow => job[h].role = "activate"
             /\ job' = [job EXCEPT ![h].old = row.inst, ![h].ok = row.ok,
                 ![h].pc = IF job[h].role = "validate" THEN "ask" ELSE "plan"]
    <3> DEFINE j == [job[h] EXCEPT !.old = row.inst, !.ok = row.ok,
                       !.pc = IF job[h].role = "validate" THEN "ask" ELSE "plan"]
    <3>1. /\ row.inst \in Insts \cup {NoInst} /\ row.ok \in BOOLEAN
          /\ row # NoRow => row.inst \in Insts
      BY DEF Typed, TypeOK, Rows, RowOK, Row
    <3>2. j \in Job /\ job' = [job EXCEPT ![h] = j]
      BY <1>1, <2>2, <3>1 DEF Job, PC
    <3>3. /\ j.pc = IF job[h].role = "validate" THEN "ask" ELSE "plan"
          /\ j.old = row.inst /\ j.role = job[h].role /\ j.key = job[h].key
          /\ j.new = job[h].new /\ j.plan = job[h].plan /\ j.again = job[h].again
          /\ j.prev = job[h].prev /\ j.oldKey = job[h].oldKey
      BY <1>1, <3>1 DEF Job
    <3> HIDE DEF j
    <3>4. JobOK(h, j)
      <4>1. CASE job[h].role = "validate"
        BY <1>1, <2>2, <3>1, <3>3, <4>1 DEF JobOK, ValidateOK
      <4>2. CASE job[h].role = "deactivate"
        BY <1>1, <2>2, <3>1, <3>3, <4>2 DEF JobOK, DeactivateOK
      <4>3. CASE job[h].role = "activate"
        BY <1>1, <2>2, <3>1, <3>3, <4>3
        DEF JobOK, ActivateOK, PlanOK, AgainOK, Early, Unwritten, Late, Ensuring
      <4> QED
        BY <1>1, <4>1, <4>2, <4>3 DEF Role
    <3> QED
      BY <1>1, <3>2, <3>4, JobsStep DEF Typed
  <2> QED
    BY <2>1, <2>2 DEF Load
<1> QED
  BY <1>2, RowsSame DEF Typed, TypeOK, Load, local, ring, debts, locks, remote, rest

LEMMA AskTypes ==
  ASSUME LicenseAssumption, Typed, NEW h \in Handlers, Ask(h)
  PROVE  Typed'
<1>1. /\ job[h].pc = "ask" /\ job[h].role = "validate" /\ h \in Actors
      /\ JobOK(h, job[h]) /\ job \in [Actors -> Job] /\ job[h] \in Job
  BY RoleOf DEF Ask, At
<1>2. job' \in [Actors -> Job] /\ Jobs'
  <2>1. CASE Done(h)
    BY <1>1, <2>1, DoneJobs
  <2>2. CASE job' = [job EXCEPT ![h].pc = "commit", ![h].verdict = truth,
               ![h].ok = Active /\ job[h].old \in seats /\ keyOf[job[h].old] = key]
    <3> DEFINE ok == Active /\ job[h].old \in seats /\ keyOf[job[h].old] = key
               j == [job[h] EXCEPT !.pc = "commit", !.verdict = truth, !.ok = ok]
    <3>1. ok \in BOOLEAN /\ truth \in 0 .. MaxTruth
      BY DEF Typed, TypeOK
    <3>5. job' = [job EXCEPT ![h].pc = "commit", ![h].verdict = truth, ![h].ok = ok]
      BY <2>2
    <3> HIDE DEF ok
    <3>6. "commit" \in PC
      BY DEF PC
    <3>7. j \in Job
      BY <1>1, <3>1, <3>6, Zenon DEF Job
    <3>2. j \in Job /\ job' = [job EXCEPT ![h] = j]
      BY <1>1, <3>5, <3>7, Zenon
    <3>3. /\ j.pc = "commit" /\ j.old = job[h].old /\ j.role = "validate"
          /\ j.prev = job[h].prev
      BY <1>1 DEF Job
    <3> HIDE DEF j
    <3>4. JobOK(h, j)
      BY <1>1, <3>3 DEF JobOK, ValidateOK
    <3> QED
      BY <1>1, <3>2, <3>4, RoleOf, JobsStep DEF Typed
  <2> QED
    BY <2>1, <2>2 DEF Ask
<1> QED
  BY <1>2, RowsSame DEF Typed, TypeOK, Ask, local, ring, debts, locks, remote, rest

LEMMA PlanTypes ==
  ASSUME LicenseAssumption, Typed, NEW h \in Handlers, Plan(h)
  PROVE  Typed'
<1>1. /\ job[h].pc = "plan" /\ job[h].role = "activate" /\ h \in Actors
      /\ JobOK(h, job[h]) /\ job \in [Actors -> Job] /\ job[h] \in Job
      /\ job[h].old \in Insts \cup {NoInst} /\ key \in Keys \cup {NoKey}
  BY RoleOf DEF Plan, At, Typed, TypeOK
<1>2. PICK plan \in {"active", "teardown", "fresh"}, p \in {"ensure", "recheck", "mint"} :
        /\ job' = [job EXCEPT ![h].plan = plan, ![h].oldKey = key, ![h].pc = p]
        /\ plan # "fresh" => job[h].old # NoInst /\ key # NoKey
        /\ plan = "fresh" => job[h].old = NoInst \/ key = NoKey
        /\ plan = "active" <=> p = "ensure"
  <2> DEFINE plan == IF job[h].old = NoInst \/ key = NoKey THEN "fresh"
                     ELSE IF key = job[h].key /\ job[h].ok THEN "active" ELSE "teardown"
             p == IF plan = "active" THEN "ensure"
                  ELSE IF plan = "teardown" /\ key # job[h].key /\ job[h].ok
                  THEN "recheck" ELSE "mint"
  <2>1. job' = [job EXCEPT ![h].plan = plan, ![h].oldKey = key, ![h].pc = p]
    BY DEF Plan
  <2> QED
    BY <2>1
<1> DEFINE j == [job[h] EXCEPT !.plan = plan, !.oldKey = key, !.pc = p]
<1>3. j \in Job /\ job' = [job EXCEPT ![h] = j]
  BY <1>1, <1>2 DEF Job, PC
<1>4. /\ j.pc = p /\ j.plan = plan /\ j.oldKey = key /\ j.old = job[h].old
      /\ j.role = "activate" /\ j.key = job[h].key /\ j.new = job[h].new
      /\ j.again = job[h].again /\ j.prev = job[h].prev
  BY <1>1 DEF Job
<1> HIDE DEF j
<1>5. JobOK(h, j)
  BY <1>1, <1>2, <1>4
  DEF JobOK, ActivateOK, PlanOK, AgainOK, Early, Unwritten, Late, Ensuring
<1>6. job' \in [Actors -> Job] /\ Jobs'
  BY <1>1, <1>3, <1>5, RoleOf, JobsStep DEF Typed
<1> QED
  BY <1>6, RowsSame DEF Typed, TypeOK, Plan, local, ring, debts, locks, remote, rest

LEMMA FindKeyTypes ==
  ASSUME LicenseAssumption, Typed, NEW h \in Handlers, FindKey(h)
  PROVE  Typed'
<1>1. /\ job[h].pc = "plan" /\ job[h].role = "deactivate" /\ h \in Actors
      /\ JobOK(h, job[h]) /\ job \in [Actors -> Job] /\ job[h] \in Job
      /\ key \in Keys \cup {NoKey}
  BY RoleOf DEF FindKey, At, Typed, TypeOK
<1> DEFINE j == [job[h] EXCEPT !.key = key, !.pc = "recheck"]
<1>2. j \in Job /\ job' = [job EXCEPT ![h] = j]
  BY <1>1 DEF Job, PC, FindKey
<1>3. /\ j.pc = "recheck" /\ j.old = job[h].old /\ j.role = "deactivate"
      /\ j.prev = job[h].prev
  BY <1>1 DEF Job
<1> HIDE DEF j
<1>4. JobOK(h, j)
  BY <1>1, <1>3 DEF JobOK, DeactivateOK
<1>5. job' \in [Actors -> Job] /\ Jobs'
  BY <1>1, <1>2, <1>4, RoleOf, JobsStep DEF Typed
<1> QED
  BY <1>5, RowsSame DEF Typed, TypeOK, FindKey, local, ring, debts, locks, remote, rest

LEMMA MintTypes ==
  ASSUME LicenseAssumption, Typed, NEW h \in Handlers, Mint(h)
  PROVE  Typed'
<1>1. /\ job[h].pc \in {"mint", "remint"} /\ job[h].role = "activate" /\ h \in Actors
      /\ JobOK(h, job[h]) /\ job \in [Actors -> Job] /\ job[h] \in Job
      /\ job[h].key \in Keys /\ h \in Insts
  BY RoleOf, Names DEF Mint, At, Early, Unwritten, Late, Ensuring, ActivateOK
<1>2. job' \in [Actors -> Job] /\ Jobs'
  <2>1. CASE Done(h)
    BY <1>1, <2>1, DoneJobs
  <2>2. ASSUME NEW p \in {"teardown", "releaseNew"},
               job' = [job EXCEPT ![h].new = h, ![h].verdict = truth, ![h].pc = p]
        PROVE  job' \in [Actors -> Job] /\ Jobs'
    <3> DEFINE j == [job[h] EXCEPT !.new = h, !.verdict = truth, !.pc = p]
    <3>1. j \in Job /\ job' = [job EXCEPT ![h] = j]
      BY <1>1, <2>2 DEF Job, PC, Typed, TypeOK
    <3>2. /\ j.pc = p /\ j.plan = job[h].plan /\ j.oldKey = job[h].oldKey
          /\ j.old = job[h].old /\ j.role = "activate" /\ j.key = job[h].key
          /\ j.new = h /\ j.again = job[h].again /\ j.prev = job[h].prev
      BY <1>1 DEF Job
    <3> HIDE DEF j
    <3>3. JobOK(h, j)
      BY <1>1, <3>2
      DEF JobOK, ActivateOK, PlanOK, AgainOK, Early, Unwritten, Late, Ensuring
    <3> QED
      BY <1>1, <3>1, <3>3, RoleOf, JobsStep DEF Typed
  <2>3. CASE /\ OwnSeat(h)
             /\ job' = [job EXCEPT ![h].pc = "releaseOwn", ![h].again = TRUE]
    <3> DEFINE j == [job[h] EXCEPT !.pc = "releaseOwn", !.again = TRUE]
    <3>5. "releaseOwn" \in PC
      BY DEF PC
    <3>6. j \in Job
      BY <1>1, <3>5, Zenon DEF Job
    <3>1. j \in Job /\ job' = [job EXCEPT ![h] = j]
      BY <1>1, <2>3, <3>6, Zenon
    <3>2. /\ j.pc = "releaseOwn" /\ j.plan = job[h].plan /\ j.oldKey = job[h].oldKey
          /\ j.old = job[h].old /\ j.role = "activate" /\ j.key = job[h].key
          /\ j.new = job[h].new /\ j.again = TRUE /\ j.prev = job[h].prev
      BY <1>1 DEF Job
    <3> HIDE DEF j
    <3>3. /\ job[h].old \in Insts
          /\ job[h].plan = "teardown" => job[h].oldKey = job[h].key
      BY <2>3, RoleOf DEF OwnSeat
    <3>4. JobOK(h, j)
      BY <1>1, <3>2, <3>3
      DEF JobOK, ActivateOK, PlanOK, AgainOK, Early, Unwritten, Late, Ensuring
    <3> QED
      BY <1>1, <3>1, <3>4, RoleOf, JobsStep DEF Typed
  <2> QED
    BY <2>1, <2>2, <2>3 DEF Mint, Minted
<1>3. /\ keyOf' \in [Insts -> Keys \cup {NoKey}] /\ seats' \subseteq Insts
      /\ stranded' \subseteq Insts \X Sides
  BY <1>1 DEF Mint, Minted, Typed, TypeOK, Sides
<1> QED
  BY <1>2, <1>3, Counters, RowsSame
  DEF Typed, TypeOK, Mint, local, ring, debts, locks, rest

LEMMA TeardownTypes ==
  ASSUME LicenseAssumption, Typed, NEW h \in Handlers, Teardown(h)
  PROVE  Typed'
<1>1. /\ job[h].pc = "teardown" /\ job[h].role = "activate" /\ h \in Actors
      /\ JobOK(h, job[h]) /\ job \in [Actors -> Job] /\ job[h].old \in Insts \cup {NoInst}
      /\ job[h].key \in Keys /\ (job[h].plan = "teardown" => job[h].oldKey \in Keys)
      /\ job[h].plan \in {"teardown", "fresh"} /\ RowOK(job[h].prev)
      /\ job[h].new = h /\ AgainOK(job[h]) /\ PlanOK(job[h])
  BY RoleOf
  DEF Teardown, At, Early, Unwritten, Late, Ensuring, ActivateOK, PlanOK, Job, JobOK
<1>2. PICK p \in {"stray", "releaseOld", "persist"} :
        /\ Goto(h, p)
        /\ p = "releaseOld" => ~job[h].again /\ job[h].old # NoInst
        /\ p = "stray" => job[h].plan # "teardown"
  BY <1>1 DEF Teardown, JobOK, ActivateOK, PlanOK, LicenseAssumption
<1>3. p \in PC
  BY DEF PC
<1>8. /\ job'[h].pc = p /\ job'[h].role = "activate" /\ job'[h].key = job[h].key
      /\ job'[h].old = job[h].old /\ job'[h].oldKey = job[h].oldKey
      /\ job'[h].new = job[h].new /\ job'[h].plan = job[h].plan
      /\ job'[h].again = job[h].again /\ job'[h].prev = job[h].prev
  BY <1>1, <1>2, <1>3, GotoFacts
<1>4. JobOK(h, job'[h])
  BY <1>1, <1>2, <1>8
  DEF JobOK, ActivateOK, PlanOK, AgainOK, Early, Unwritten, Late, Ensuring
<1>5. job' \in [Actors -> Job] /\ Jobs'
  BY <1>1, <1>2, <1>3, <1>4, GotoFacts, RoleOf, JobsStep DEF Typed
<1>6. CASE job[h].old = NoInst
  BY <1>5, <1>6, RowsSame
  DEF Typed, TypeOK, Teardown, local, ring, debts, locks, remote, rest
<1>7. CASE job[h].old # NoInst
  <2> DEFINE k == IF job[h].plan = "teardown" THEN job[h].oldKey ELSE job[h].key
  <2>1. ReleaseCredential(h, k, job[h].old)
    BY <1>7 DEF Teardown
  <2>2. k \in Keys /\ job[h].old \in Insts
    BY <1>1, <1>7
  <2> QED
    BY <1>5, <2>1, <2>2, ReleaseCredentialTypes
<1> QED
  BY <1>6, <1>7

LEMMA PersistTypes ==
  ASSUME LicenseAssumption, Typed, NEW h \in Handlers, Persist(h)
  PROVE  Typed'
<1>1. /\ job[h].pc = "persist" /\ job[h].role = "activate" /\ h \in Actors
      /\ JobOK(h, job[h]) /\ job \in [Actors -> Job] /\ job[h] \in Job
      /\ job[h].key \in Keys
  BY RoleOf DEF Persist, At, Early, Unwritten, Late, Ensuring, ActivateOK
<1>2. job' \in [Actors -> Job] /\ Jobs'
  <2>1. CASE Goto(h, "releaseNew")
    <3>0. "releaseNew" \in PC
      BY DEF PC
    <3>1. JobOK(h, job'[h])
      BY <1>1, <2>1, <3>0, HandlerGoto
      DEF JobOK, ActivateOK, PlanOK, AgainOK, Early, Unwritten, Late, Ensuring
    <3> QED
      BY <2>1, <3>0, <3>1, GotoJobs
  <2>2. CASE job' = [job EXCEPT ![h].pc = "save", ![h].prev = row]
    <3> DEFINE j == [job[h] EXCEPT !.pc = "save", !.prev = row]
    <3>5. "save" \in PC /\ row \in Row
      BY DEF PC, Typed, TypeOK
    <3>6. j \in Job
      BY <1>1, <3>5, Zenon DEF Job
    <3>1. j \in Job /\ job' = [job EXCEPT ![h] = j]
      BY <1>1, <2>2, <3>6, Zenon
    <3>2. /\ j.pc = "save" /\ j.plan = job[h].plan /\ j.oldKey = job[h].oldKey
          /\ j.old = job[h].old /\ j.role = "activate" /\ j.key = job[h].key
          /\ j.new = job[h].new /\ j.again = job[h].again /\ j.prev = row
      BY <1>1 DEF Job
    <3>3. RowOK(row)
      BY DEF Typed, Rows
    <3> HIDE DEF j
    <3>4. JobOK(h, j)
      BY <1>1, <3>2, <3>3
      DEF JobOK, ActivateOK, PlanOK, AgainOK, Early, Unwritten, Late, Ensuring
    <3> QED
      BY <1>1, <3>1, <3>4, RoleOf, JobsStep DEF Typed
  <2> QED
    BY <2>1, <2>2 DEF Persist
<1>3. key' \in Keys \cup {NoKey} /\ license' \in Handlers \cup {Nobody}
      /\ faults' \in 0 .. MaxFaults
  BY <1>1, Counters DEF Persist, Typed, TypeOK
<1> QED
  BY <1>2, <1>3, RowsSame
  DEF Typed, TypeOK, Persist, local, debts, remote, rest

LEMMA SaveTypes ==
  ASSUME LicenseAssumption, Typed, NEW h \in Handlers, Save(h)
  PROVE  Typed'
<1>1. /\ job[h].pc = "save" /\ job[h].role = "activate" /\ h \in Actors
      /\ JobOK(h, job[h]) /\ job \in [Actors -> Job] /\ job[h].plan # "active"
      /\ job[h].new = h /\ h \in Insts /\ job[h].verdict \in 0 .. MaxTruth
  BY RoleOf, Names DEF Save, At, Early, Unwritten, Late, Ensuring, ActivateOK, PlanOK
<1>2. PICK p \in {"sweep", "ensure", "rekey"} :
        Goto(h, p) /\ (p = "sweep" => job[h].plan = "teardown")
  BY DEF Save
<1>3. p \in PC
  BY DEF PC
<1>4. JobOK(h, job'[h])
  BY <1>1, <1>2, <1>3, HandlerGoto
  DEF JobOK, ActivateOK, PlanOK, AgainOK, Early, Unwritten, Late, Ensuring
<1>5. job' \in [Actors -> Job] /\ Jobs'
  BY <1>1, <1>2, <1>3, <1>4, GotoFacts, RoleOf, JobsStep DEF Typed
<1> DEFINE r == [inst |-> job[h].new, verdict |-> job[h].verdict, ok |-> TRUE]
<1>6. /\ row' \in Row /\ queue' \in Seq(Operation) /\ faults' \in 0 .. MaxFaults
      /\ Rows'
  <2>1. r \in Row /\ RowOK(r)
    BY <1>1 DEF Row, RowOK, LicenseAssumption
  <2>2. Write(Op("save", r)) \/ Refuse \/ Postpone(Op("save", r))
    BY DEF Save
  <2> HIDE DEF r
  <2>3. Operable(Op("save", r))
    BY <2>1, OpFacts
  <2> QED
    BY <2>2, <2>3, WriteTypes DEF Rows
<1>7. license' \in Handlers \cup {Nobody}
  BY DEF Save, Typed, TypeOK
<1> QED
  BY <1>5, <1>6, <1>7, Counters
  DEF Typed, TypeOK, Save, ring, debts, remote, rest

LEMMA RestoreTypes ==
  ASSUME LicenseAssumption, Typed, NEW h \in Handlers, Restore(h)
  PROVE  Typed'
<1>1. /\ job[h].pc = "restore" /\ job[h].role = "activate" /\ h \in Actors
      /\ JobOK(h, job[h]) /\ job \in [Actors -> Job] /\ job[h].new \in Insts \cup {NoInst}
      /\ job[h].prev \in Row /\ RowOK(job[h].prev)
  BY RoleOf DEF Restore, At, Early, Unwritten, Late, Ensuring, JobOK
<1>2. Goto(h, "releaseNew") /\ "releaseNew" \in PC
  BY DEF Restore, PC
<1>8. /\ job'[h].pc = "releaseNew" /\ job'[h].role = "activate" /\ job'[h].key = job[h].key
      /\ job'[h].old = job[h].old /\ job'[h].oldKey = job[h].oldKey
      /\ job'[h].new = job[h].new /\ job'[h].plan = job[h].plan
      /\ job'[h].again = job[h].again /\ job'[h].prev = job[h].prev
  BY <1>1, <1>2, GotoFacts
<1>3. JobOK(h, job'[h])
  BY <1>1, <1>2, <1>8, RoleOf
  DEF JobOK, ActivateOK, PlanOK, AgainOK, Early, Unwritten, Late, Ensuring
<1>4. job' \in [Actors -> Job] /\ Jobs'
  BY <1>1, <1>2, <1>3, GotoFacts, RoleOf, JobsStep DEF Typed
<1> DEFINE op == [op |-> "undo", row |-> job[h].prev, inst |-> job[h].new]
<1>5. Operable(op)
  BY <1>1 DEF Operable, Operation
<1>6. /\ row' \in Row /\ queue' \in Seq(Operation) /\ faults' \in 0 .. MaxFaults
      /\ Rows'
  <2>1. Write(op) \/ Refuse \/ Postpone(op)
    BY DEF Restore
  <2> HIDE DEF op
  <2> QED
    BY <1>5, <2>1, WriteTypes DEF Rows
<1>7. torn' \in BOOLEAN
  BY DEF Restore, Typed, TypeOK
<1> QED
  BY <1>4, <1>6, <1>7, Counters
  DEF Typed, TypeOK, Restore, ring, debts, remote, rest

LEMMA SweepTypes ==
  ASSUME LicenseAssumption, Typed, NEW h \in Handlers, Sweep(h)
  PROVE  Typed'
<1>1. /\ job[h].pc = "sweep" /\ job[h].role = "activate" /\ h \in Actors
      /\ JobOK(h, job[h]) /\ job \in [Actors -> Job]
      /\ job[h].old \in Insts /\ job[h].oldKey \in Keys
  BY RoleOf DEF Sweep, At, Early, Unwritten, Late, Ensuring, ActivateOK, PlanOK
<1>2. Goto(h, "ensure") /\ "ensure" \in PC
  BY DEF Sweep, PC
<1>8. /\ job'[h].pc = "ensure" /\ job'[h].role = "activate" /\ job'[h].key = job[h].key
      /\ job'[h].old = job[h].old /\ job'[h].oldKey = job[h].oldKey
      /\ job'[h].new = job[h].new /\ job'[h].plan = job[h].plan
      /\ job'[h].again = job[h].again /\ job'[h].prev = job[h].prev
  BY <1>1, <1>2, GotoFacts
<1>3. JobOK(h, job'[h])
  BY <1>1, <1>2, <1>8, RoleOf
  DEF JobOK, ActivateOK, PlanOK, AgainOK, Early, Unwritten, Late, Ensuring
<1>4. job' \in [Actors -> Job] /\ Jobs'
  BY <1>1, <1>2, <1>3, GotoFacts, RoleOf, JobsStep DEF Typed
<1> QED
  BY <1>1, <1>4, ReleaseCredentialTypes DEF Sweep

LEMMA TombstoneTypes ==
  ASSUME LicenseAssumption, Typed, NEW h \in Handlers, Tombstone(h)
  PROVE  Typed'
<1>1. /\ job[h].pc = "tombstone" /\ h \in Actors /\ job[h].key \in Keys
      /\ job[h].old \in Insts
  BY RoleOf DEF Tombstone, At, DeactivateOK
<1>2. job' \in [Actors -> Job] /\ Jobs'
  BY <1>1, DoneJobs DEF Tombstone
<1>3. owed' \subseteq Release /\ overtaken' \subseteq Release
  BY <1>1, OweTypes DEF Tombstone, debts, Typed, TypeOK
<1>4. stranded' \subseteq Insts \X Sides /\ license' \in Handlers \cup {Nobody}
  BY <1>1 DEF Tombstone, Out, Typed, TypeOK
<1> QED
  BY <1>2, <1>3, <1>4, Counters, RowsSame
  DEF Typed, TypeOK, Tombstone, local, remote, rest

LEMMA CredentialTypes ==
  ASSUME LicenseAssumption, Typed, NEW h \in Handlers, Credential(h)
  PROVE  Typed'
<1>1. /\ job[h].pc = "credential" /\ job[h].role = "deactivate" /\ h \in Actors
      /\ JobOK(h, job[h]) /\ job \in [Actors -> Job]
      /\ job[h].old \in Insts /\ job[h].key \in Keys
  BY RoleOf DEF Credential, At, DeactivateOK
<1>2. Goto(h, "releaseSeat") /\ "releaseSeat" \in PC
  BY DEF Credential, PC
<1>8. /\ job'[h].pc = "releaseSeat" /\ job'[h].role = "deactivate" /\ job'[h].key = job[h].key
      /\ job'[h].old = job[h].old /\ job'[h].oldKey = job[h].oldKey
      /\ job'[h].new = job[h].new /\ job'[h].plan = job[h].plan
      /\ job'[h].again = job[h].again /\ job'[h].prev = job[h].prev
  BY <1>1, <1>2, GotoFacts
<1>3. JobOK(h, job'[h])
  BY <1>1, <1>2, <1>8, RoleOf DEF JobOK, DeactivateOK
<1>4. job' \in [Actors -> Job] /\ Jobs'
  BY <1>1, <1>2, <1>3, GotoFacts, RoleOf, JobsStep DEF Typed
<1> QED
  BY <1>1, <1>4, ReleaseCredentialTypes DEF Credential

Releasing == {"releaseOwn", "releaseOld", "releaseNew", "releaseSeat"}
Recording == {"recordOwn", "recordOld", "recordNew", "recordSeat"}

\* Whose seat is released where.
LEMMA HandleFacts ==
  ASSUME LicenseAssumption, Typed, NEW h \in Handlers,
         job[h].pc \in Releasing \cup Recording
  PROVE  /\ Handle(h).key \in Keys /\ Handle(h).inst \in Insts
         /\ Handle(h).next \in {"remint", "persist", "stray", "over"}
         /\ Handle(h).record \in Recording
         /\ Handle(h).next = "remint" =>
              job[h].role = "activate" /\ job[h].pc \in {"releaseOwn", "recordOwn"}
         /\ Handle(h).next \in {"persist", "stray"} =>
              job[h].role = "activate" /\ job[h].pc \in {"releaseOld", "recordOld"}
         /\ Handle(h).next = "stray" <=>
              job[h].pc \in {"releaseOld", "recordOld"} /\ job[h].plan # "teardown"
<1>1. h \in Insts
  BY Names
<1>2. CASE job[h].pc \in {"releaseOwn", "recordOwn"}
  <2>1. job[h].role = "activate" /\ job[h].key \in Keys /\ job[h].old \in Insts
    BY <1>2, RoleOf DEF Early, Unwritten, Late, Ensuring, ActivateOK, AgainOK
  <2> QED
    BY <1>2, <2>1 DEF Handle, Recording
<1>3. CASE job[h].pc \in {"releaseOld", "recordOld"}
  <2>1. /\ job[h].role = "activate" /\ job[h].key \in Keys /\ job[h].old \in Insts
        /\ job[h].plan = "teardown" => job[h].oldKey \in Keys
    BY <1>3, RoleOf DEF Early, Unwritten, Late, Ensuring, ActivateOK, AgainOK, PlanOK
  <2> QED
    BY <1>3, <2>1 DEF Handle, Recording
<1>4. CASE job[h].pc \in {"releaseNew", "recordNew"}
  <2>1. job[h].role = "activate" /\ job[h].key \in Keys /\ job[h].new = h
    BY <1>4, RoleOf DEF Early, Unwritten, Late, Ensuring, ActivateOK, PlanOK
  <2> QED
    BY <1>1, <1>4, <2>1 DEF Handle, Recording
<1>5. CASE job[h].pc \in {"releaseSeat", "recordSeat"}
  <2>1. job[h].key \in Keys /\ job[h].old \in Insts
    BY <1>5, RoleOf DEF DeactivateOK
  <2> QED
    BY <1>5, <2>1 DEF Handle, Recording
<1> QED
  BY <1>2, <1>3, <1>4, <1>5 DEF Releasing, Recording

LEMMA HandleJobs ==
  ASSUME LicenseAssumption, Typed, NEW h \in Handlers,
         job[h].pc \in Releasing \cup Recording,
         Goon(h, Handle(h).next) \/ Goto(h, Handle(h).record)
  PROVE  job' \in [Actors -> Job] /\ Jobs'
<1>1. /\ h \in Actors /\ JobOK(h, job[h]) /\ job \in [Actors -> Job]
      /\ job[h].plan \in {"none", "active", "teardown", "fresh"}
  BY RoleOf DEF Job
<1>2. CASE Done(h)
  BY <1>1, <1>2, DoneJobs
<1>3. ASSUME NEW p, p \in {Handle(h).next, Handle(h).record}, p # "over", Goto(h, p)
      PROVE  job' \in [Actors -> Job] /\ Jobs'
  <2>1. p \in PC
    BY <1>3, HandleFacts DEF PC, Recording
  <2>2. /\ job'[h].pc = p /\ job'[h].role = job[h].role /\ job'[h].key = job[h].key
        /\ job'[h].old = job[h].old /\ job'[h].oldKey = job[h].oldKey
        /\ job'[h].new = job[h].new /\ job'[h].plan = job[h].plan
        /\ job'[h].again = job[h].again /\ job'[h].prev = job[h].prev
    BY <1>1, <1>3, <2>1, GotoFacts
  <2>3. CASE job[h].role = "deactivate"
    <3>1. p = "recordSeat"
      BY <1>3, <2>3, HandleFacts, RoleOf DEF Handle, DeactivateOK, Releasing, Recording
    <3>2. JobOK(h, job'[h])
      BY <1>1, <2>2, <2>3, <3>1, RoleOf DEF JobOK, DeactivateOK, Releasing, Recording
    <3> QED
      BY <1>1, <1>3, <2>1, <3>2, GotoFacts, RoleOf, JobsStep DEF Typed
  <2>4. CASE job[h].role = "activate"
    <3>1. /\ job[h].pc \in {"releaseOwn", "recordOwn"} => p \in {"remint", "recordOwn"}
          /\ job[h].pc \in {"releaseNew", "recordNew"} => p = "recordNew"
          /\ job[h].pc \in {"releaseOld", "recordOld"} =>
               p \in {"recordOld", IF job[h].plan = "teardown" THEN "persist" ELSE "stray"}
          /\ job[h].pc \notin {"releaseSeat", "recordSeat"}
      BY <1>3, <2>4, RoleOf DEF Handle
    <3>2. ActivateOK(h, job[h]) /\ RowOK(job[h].prev)
      BY <1>1, <2>4 DEF JobOK
    <3>3. ActivateOK(h, job'[h])
      BY <1>1, <2>2, <3>1, <3>2
      DEF ActivateOK, PlanOK, AgainOK, Early, Unwritten, Late, Ensuring, Releasing, Recording
    <3>4. JobOK(h, job'[h])
      BY <2>2, <2>4, <3>2, <3>3 DEF JobOK
    <3> QED
      BY <1>1, <1>3, <2>1, <3>4, GotoFacts, RoleOf, JobsStep DEF Typed
  <2> QED
    BY <2>3, <2>4, RoleOf DEF Releasing, Recording, Early, Unwritten, Late, Ensuring
<1> QED
  BY <1>2, <1>3, HandleFacts DEF Goon, Recording

LEMMA ReleasedTypes ==
  ASSUME LicenseAssumption, Typed, NEW h \in Handlers, Released(h)
  PROVE  Typed'
<1>1. job[h].pc \in Releasing \cup Recording
  BY DEF Released, Releasing
<1>2. Handle(h).key \in Keys /\ Handle(h).inst \in Insts
  BY <1>1, HandleFacts
<1>3. job' \in [Actors -> Job] /\ Jobs'
  BY <1>1, HandleJobs DEF Released
<1>4. /\ faults' \in 0 .. MaxFaults /\ seats' \subseteq Insts
      /\ stranded' \subseteq Insts \X Sides
  BY <1>2, Counters DEF Released, Freed, Typed, TypeOK, Sides
<1> QED
  BY <1>3, <1>4, RowsSame
  DEF Typed, TypeOK, Released, local, ring, debts, locks, rest

LEMMA RecordedTypes ==
  ASSUME LicenseAssumption, Typed, NEW h \in Handlers, Recorded(h)
  PROVE  Typed'
<1>1. job[h].pc \in Releasing \cup Recording
  BY DEF Recorded, Recording
<1>2. Handle(h).key \in Keys /\ Handle(h).inst \in Insts
  BY <1>1, HandleFacts
<1>3. job' \in [Actors -> Job] /\ Jobs'
  BY <1>1, HandleJobs DEF Recorded
<1>4. faults' \in 0 .. MaxFaults /\ stranded' \subseteq Insts \X Sides
  BY <1>2, Counters DEF Recorded, Typed, TypeOK, Sides
<1>5. owed' \subseteq Release /\ overtaken' \subseteq Release
  BY <1>2 DEF Recorded, debts, Owe, Typed, TypeOK, Release, Sides
<1> QED
  BY <1>3, <1>4, <1>5, RowsSame
  DEF Typed, TypeOK, Recorded, local, locks, remote, rest

-----------------------------------------------------------------------------
(* Types, of the loop, of what a command shares with it, and of the rest.  *)

\* What the loop has in hand.
LEMMA LoopFacts ==
  ASSUME LicenseAssumption, Typed
  PROVE  /\ job \in [Actors -> Job] /\ Loop \in Actors /\ Loop \notin Handlers
         /\ job[Loop] \in Job /\ LoopOK(job[Loop])
         /\ job[Loop].pc \in {"drain", "load", "token", "fetch", "reject", "adopt"}
              \cup Ensuring => job[Loop].role = "tick" /\ job[Loop].prev = NoRow
         /\ job[Loop].pc \in {"token", "fetch", "reject", "adopt"} \cup Ensuring
              => job[Loop].old \in Insts
         /\ job[Loop].pc \in Ensuring => job[Loop].key \in Keys
         /\ job[Loop].pc = "idle" => job[Loop] = NoJob
BY Names DEF Typed, TypeOK, Jobs, LoopOK, LicenseAssumption, Ensuring, NoJob

\* A tick that goes on.
LEMMA LoopStep ==
  ASSUME LicenseAssumption, Typed, NEW j \in Job, job' = [job EXCEPT ![Loop] = j],
         LoopOK(j)
  PROVE  job' \in [Actors -> Job] /\ Jobs'
BY LoopFacts, JobsStep DEF Typed

LEMMA TickTypes == ASSUME LicenseAssumption, Typed, Tick PROVE Typed'
<1> DEFINE j == [job[Loop] EXCEPT !.role = "tick",
                    !.pc = IF owed = {} THEN "load" ELSE "drain"]
<1>1. /\ job[Loop] = NoJob /\ job[Loop] \in Job
      /\ job \in [Actors -> Job] /\ Loop \in Actors
  BY LoopFacts DEF Tick, At
<1>8. job' = [job EXCEPT ![Loop] = j]
  BY <1>1 DEF Tick
<1>9. (IF owed = {} THEN "load" ELSE "drain") \in PC
  BY DEF PC
<1>2. j \in Job
  <2>1. "tick" \in Role \cup {"none", "tick"}
    OBVIOUS
  <2> DEFINE p == IF owed = {} THEN "load" ELSE "drain"
  <2>2. p \in PC
    BY <1>9
  <2> HIDE DEF p
  <2>3. [job[Loop] EXCEPT !.role = "tick", !.pc = p] \in Job
    BY <1>1, <2>1, <2>2, Zenon DEF Job
  <2> QED
    BY <2>3 DEF p
<1>3. j.role = "tick" /\ j.prev = NoRow /\ j.pc \in {"load", "drain"}
  BY <1>1 DEF NoJob
<1> HIDE DEF j
<1>4. LoopOK(j)
  BY <1>3 DEF LoopOK, Ensuring
<1>5. job' \in [Actors -> Job] /\ Jobs'
  BY <1>2, <1>4, <1>8, LoopStep
<1>6. ticks' \in 0 .. MaxTicks
  BY DEF Tick, Typed, TypeOK, LicenseAssumption
<1>7. drain' \in [left : SUBSET Release, settled : SUBSET Release]
  BY DEF Tick, Typed, TypeOK
<1> QED
  BY <1>5, <1>6, <1>7, RowsSame
  DEF Typed, TypeOK, Tick, local, ring, debts, locks, remote, rest

LEMMA RetryTypes ==
  ASSUME LicenseAssumption, Typed, NEW r \in drain.left, Retry(r)
  PROVE  Typed'
<1>1. r \in Release /\ drain.left \subseteq Release /\ drain.settled \subseteq Release
  BY DEF Typed, TypeOK
<1>2. <<r[2], r[3]>> \in Insts \X Sides
  BY <1>1 DEF Release
<1>3. /\ seats' \subseteq Insts /\ creds' \subseteq Keys \X Insts
      /\ stranded' \subseteq Insts \X Sides
  BY <1>2 DEF Retry, Freed, Typed, TypeOK
<1>4. drain' \in [left : SUBSET Release, settled : SUBSET Release]
  <2>1. drain \in [left : SUBSET Release, settled : SUBSET Release]
    BY DEF Typed, TypeOK
  <2>2. \/ drain' = [drain EXCEPT !.left = @ \ {r}]
        \/ drain' = [[drain EXCEPT !.left = @ \ {r}] EXCEPT !.settled = @ \cup {r}]
    BY DEF Retry
  <2> DEFINE fewer == drain.left \ {r}
             more == drain.settled \cup {r}
  <2>3. fewer \in SUBSET Release /\ more \in SUBSET Release
    BY <1>1
  <2>4. \/ drain' = [drain EXCEPT !.left = fewer]
        \/ drain' = [[drain EXCEPT !.left = fewer] EXCEPT !.settled = more]
    BY <2>2
  <2> HIDE DEF fewer, more
  <2> QED
    BY <2>1, <2>3, <2>4, Zenon
<1>5. faults' \in 0 .. MaxFaults
  BY Counters DEF Retry, Typed
<1> QED
  BY <1>3, <1>4, <1>5, JobsSame, RowsSame
  DEF Typed, TypeOK, Retry, local, ring, debts, locks, rest

LEMMA LoopGoto ==
  ASSUME LicenseAssumption, Typed, NEW p \in {"load", "fetch", "check", "issue"},
         job[Loop].role = "tick", job[Loop].prev = NoRow,
         p # "load" => job[Loop].old \in Insts,
         p \in {"check", "issue"} => job[Loop].key \in Keys, Goto(Loop, p)
  PROVE  job' \in [Actors -> Job] /\ Jobs'
<1>1. p \in PC
  BY DEF PC
<1>2. /\ job' \in [Actors -> Job] /\ \A b \in Actors : b # Loop => job'[b] = job[b]
      /\ job'[Loop].pc = p /\ job'[Loop].role = "tick" /\ job'[Loop].prev = NoRow
      /\ job'[Loop].old = job[Loop].old /\ job'[Loop].key = job[Loop].key
  BY <1>1, LoopFacts, GotoFacts
<1>3. LoopOK(job'[Loop])
  BY <1>2 DEF LoopOK, Ensuring
<1> QED
  BY <1>2, <1>3, LoopFacts, JobsStep DEF Typed

LEMMA SettleTypes == ASSUME LicenseAssumption, Typed, Settle PROVE Typed'
<1>1. job' \in [Actors -> Job] /\ Jobs'
  BY LoopFacts, LoopGoto DEF Settle, At
<1>2. owed' \subseteq Release /\ NoDrain \in [left : SUBSET Release, settled : SUBSET Release]
  BY DEF Settle, Unsettled, Typed, TypeOK, NoDrain
<1> QED
  BY <1>1, <1>2, RowsSame
  DEF Typed, TypeOK, Settle, local, locks, remote, rest

LEMMA LookTypes == ASSUME LicenseAssumption, Typed, Look PROVE Typed'
<1>1. job' \in [Actors -> Job] /\ Jobs'
  <2>1. CASE Done(Loop)
    BY <2>1, LoopFacts, DoneJobs
  <2>2. CASE row.ok /\ job' = [job EXCEPT ![Loop].old = row.inst, ![Loop].pc = "token"]
    <3> DEFINE j == [job[Loop] EXCEPT !.old = row.inst, !.pc = "token"]
    <3>1. row \in Row /\ row.inst \in Insts
      BY <2>2 DEF Typed, TypeOK, Rows, RowOK, NoRow, Row
    <3>5. job[Loop] \in Job /\ job \in [Actors -> Job] /\ Loop \in Actors
      BY LoopFacts
    <3>6. job' = [job EXCEPT ![Loop] = j]
      BY <2>2, <3>5
    <3>7. "token" \in PC
      BY DEF PC
    <3>2. j \in Job
      BY <3>1, <3>5, <3>7, Zenon DEF Job
    <3>3. /\ j.role = job[Loop].role /\ j.prev = job[Loop].prev /\ j.pc = "token"
          /\ j.old = row.inst
      BY LoopFacts DEF Job
    <3> HIDE DEF j
    <3>4. LoopOK(j)
      BY <3>1, <3>3, LoopFacts DEF LoopOK, Ensuring, Look, At
    <3> QED
      BY <3>2, <3>4, <3>6, LoopStep
  <2> QED
    BY <2>1, <2>2 DEF Look
<1> QED
  BY <1>1, RowsSame
  DEF Typed, TypeOK, Look, local, ring, debts, locks, remote, rest

LEMMA PresentJobs ==
  ASSUME LicenseAssumption, Typed, Present, job[Loop].pc \in {"token", "fetch"}
  PROVE  job' \in [Actors -> Job] /\ Jobs'
<1>1. PICK p \in {"reject", "adopt"} :
        job' = [job EXCEPT ![Loop].new = token, ![Loop].pc = p]
  BY DEF Present
<1> DEFINE j == [job[Loop] EXCEPT !.new = token, !.pc = p]
<1>2. j \in Job /\ job' = [job EXCEPT ![Loop] = j]
  <2>1. p \in PC /\ token \in Insts \cup {NoInst}
    BY DEF PC, Typed, TypeOK
  <2>2. job[Loop] \in Job /\ job \in [Actors -> Job] /\ Loop \in Actors
    BY LoopFacts
  <2>3. j \in Job
    <3>1. job[Loop] \in Job
      BY <2>2
    <3> HIDE <1>1
    <3> QED
      BY <2>1, <3>1, Zenon DEF Job
  <2>4. job' = [job EXCEPT ![Loop] = j]
    BY <1>1, <2>2, Zenon
  <2> QED
    BY <2>3, <2>4
<1>3. /\ j.role = "tick" /\ j.prev = NoRow /\ j.pc = p /\ j.old \in Insts
  BY LoopFacts DEF Job
<1> HIDE DEF j
<1>4. LoopOK(j)
  BY <1>3 DEF LoopOK, Ensuring
<1> QED
  BY <1>2, <1>4, LoopStep

LEMMA FindTokenTypes == ASSUME LicenseAssumption, Typed, FindToken PROVE Typed'
<1>1. job' \in [Actors -> Job] /\ Jobs'
  <2>1. CASE Done(Loop)
    BY <2>1, LoopFacts, DoneJobs
  <2>2. CASE Present
    BY <2>2, PresentJobs DEF FindToken, At
  <2>3. CASE key # NoKey /\ job' = [job EXCEPT ![Loop].key = key, ![Loop].pc = "ensure"]
    <3> DEFINE j == [job[Loop] EXCEPT !.key = key, !.pc = "ensure"]
    <3>1. key \in Keys
      BY <2>3 DEF Typed, TypeOK
    <3>5. job[Loop] \in Job /\ job \in [Actors -> Job] /\ Loop \in Actors
      BY LoopFacts
    <3>6. job' = [job EXCEPT ![Loop] = j]
      BY <2>3, <3>5
    <3>7. "ensure" \in PC
      BY DEF PC
    <3>2. j \in Job
      BY <3>1, <3>5, <3>7, Zenon DEF Job
    <3>3. /\ j.role = "tick" /\ j.prev = NoRow /\ j.pc = "ensure" /\ j.old \in Insts
          /\ j.key = key
      BY LoopFacts DEF Job, FindToken, At
    <3> HIDE DEF j
    <3>4. LoopOK(j)
      BY <3>1, <3>3 DEF LoopOK, Ensuring
    <3> QED
      BY <3>2, <3>4, <3>6, LoopStep
  <2> QED
    BY <2>1, <2>2, <2>3 DEF FindToken
<1> QED
  BY <1>1, RowsSame
  DEF Typed, TypeOK, FindToken, local, ring, debts, locks, remote, rest

LEMMA FetchTypes == ASSUME LicenseAssumption, Typed, Fetch PROVE Typed'
<1>1. job' \in [Actors -> Job] /\ Jobs'
  BY LoopFacts, DoneJobs, PresentJobs DEF Fetch, At
<1> QED
  BY <1>1, RowsSame
  DEF Typed, TypeOK, Fetch, local, ring, debts, locks, remote, rest

LEMMA RejectTypes == ASSUME LicenseAssumption, Typed, Reject PROVE Typed'
<1>1. job' \in [Actors -> Job] /\ Jobs'
  BY LoopFacts, DoneJobs DEF Reject
<1>2. token' \in Insts \cup {NoInst}
  BY DEF Reject, Typed, TypeOK
<1> QED
  BY <1>1, <1>2, RowsSame
  DEF Typed, TypeOK, Reject, local, debts, locks, remote, rest

LEMMA AdoptTypes == ASSUME LicenseAssumption, Typed, Adopt PROVE Typed'
<1>1. job' \in [Actors -> Job] /\ Jobs'
  BY LoopFacts, DoneJobs DEF Adopt
<1>2. /\ row' \in Row /\ queue' \in Seq(Operation) /\ faults' \in 0 .. MaxFaults
      /\ Rows' /\ behind' \subseteq Handlers
  <2>1. CASE UNCHANGED <<local, faults>>
    BY <2>1 DEF local, Typed, TypeOK, Rows
  <2>2. CASE /\ Write(Op("save", row)) \/ Refuse \/ Postpone(Op("save", row))
             /\ Bump
    <3>1. Operable(Op("save", row))
      BY OpFacts DEF Typed, TypeOK, Rows
    <3> QED
      BY <2>2, <3>1, WriteTypes, Counters DEF Typed, Rows
  <2> QED
    BY <2>1, <2>2 DEF Adopt
<1> QED
  BY <1>1, <1>2 DEF Typed, TypeOK, Adopt, ring, debts, locks, remote, rest

\* Who is ensuring a credential, and for what.
LEMMA EnsureFacts ==
  ASSUME LicenseAssumption, Typed, NEW a \in Actors, job[a].pc \in Ensuring
  PROVE  /\ job[a].key \in Keys /\ For(a) \in Insts
         /\ a \in Handlers => job[a].role = "activate" /\ ActivateOK(a, job[a])
<1>1. CASE a = Loop
  BY <1>1, LoopFacts DEF For
<1>2. CASE a \in Handlers
  <2>1. /\ ActivateOK(a, job[a]) /\ job[a].role = "activate" /\ a \in Insts /\ a # NoInst
        /\ a # Loop
    BY <1>2, RoleOf, Names DEF Early, Unwritten, Late, Ensuring, LicenseAssumption
  <2> QED
    BY <1>2, <2>1 DEF For, ActivateOK, PlanOK, Ensuring, Early
<1> QED
  BY <1>1, <1>2 DEF Actors

LEMMA AfterEnsureJobs ==
  ASSUME LicenseAssumption, Typed, NEW a \in Actors, job[a].pc \in Ensuring,
         NEW got \in BOOLEAN, AfterEnsure(a, got)
  PROVE  job' \in [Actors -> Job] /\ Jobs'
<1>1. CASE Done(a)
  BY <1>1, DoneJobs
<1>2. CASE a = Loop /\ Goto(a, "fetch")
  BY <1>2, LoopFacts, LoopGoto
<1>3. CASE a # Loop /\ job' = [job EXCEPT ![a] =
                [NoJob EXCEPT !.role = "validate", !.pc = "capture"]]
  <2> DEFINE j == [NoJob EXCEPT !.role = "validate", !.pc = "capture"]
  <2>1. a \in Handlers /\ job \in [Actors -> Job]
    BY <1>3 DEF Actors, Typed, TypeOK
  <2>2. j \in Job /\ JobOK(a, j)
    <3>1. "capture" \in PC /\ "validate" \in Role \cup {"none", "tick"}
      BY DEF PC, Role
    <3>2. j \in Job
      <4>1. NoJob \in Job
        BY Names
      <4> QED
        BY <3>1, <4>1, Zenon DEF Job
    <3>3. j.role = "validate" /\ j.pc = "capture" /\ j.prev = NoRow
      BY DEF NoJob
    <3> HIDE DEF j
    <3>4. JobOK(a, j)
      BY <3>3, Names DEF JobOK, ValidateOK
    <3> QED
      BY <3>2, <3>4
  <2> QED
    BY <1>3, <2>1, <2>2, JobsStep DEF Typed
<1> QED
  BY <1>1, <1>2, <1>3 DEF AfterEnsure

LEMMA EnsureJobs ==
  ASSUME LicenseAssumption, Typed, NEW a \in Actors, job[a].pc \in Ensuring,
         NEW p \in {"check", "issue"}, Goto(a, p)
  PROVE  job' \in [Actors -> Job] /\ Jobs'
<1>1. CASE a = Loop
  BY <1>1, LoopFacts, LoopGoto
<1>2. CASE a \in Handlers
  <2>1. p \in PC /\ job \in [Actors -> Job] /\ RowOK(job[a].prev)
    BY <1>2, RoleOf DEF PC, JobOK
  <2>2. /\ job'[a].pc = p /\ job'[a].role = job[a].role /\ job'[a].key = job[a].key
        /\ job'[a].old = job[a].old /\ job'[a].oldKey = job[a].oldKey
        /\ job'[a].new = job[a].new /\ job'[a].plan = job[a].plan
        /\ job'[a].again = job[a].again /\ job'[a].prev = job[a].prev
    BY <2>1, GotoFacts
  <2>3. job[a].role = "activate" /\ ActivateOK(a, job[a])
    BY <1>2, EnsureFacts
  <2>4. JobOK(a, job'[a])
    BY <2>1, <2>2, <2>3
    DEF JobOK, ActivateOK, PlanOK, AgainOK, Early, Unwritten, Late, Ensuring
  <2> QED
    BY <2>1, <2>4, <1>2, RoleOf, GotoFacts, JobsStep DEF Typed
<1> QED
  BY <1>1, <1>2 DEF Actors

LEMMA EnsureTypes ==
  ASSUME LicenseAssumption, Typed, NEW a \in Actors, Ensure(a) PROVE Typed'
<1>1. job[a].pc \in Ensuring
  BY DEF Ensure, At, Ensuring
<1>2. job' \in [Actors -> Job] /\ Jobs'
  BY <1>1, AfterEnsureJobs, EnsureJobs DEF Ensure
<1>3. guard' \in Actors \cup {Nobody}
  BY DEF Ensure, Typed, TypeOK
<1> QED
  BY <1>2, <1>3, RowsSame
  DEF Typed, TypeOK, Ensure, local, ring, debts, remote, rest

LEMMA CheckTypes ==
  ASSUME LicenseAssumption, Typed, NEW a \in Actors, Check(a) PROVE Typed'
<1>1. job[a].pc \in Ensuring
  BY DEF Check, At, Ensuring
<1>2. job' \in [Actors -> Job] /\ Jobs'
  BY <1>1, AfterEnsureJobs, EnsureJobs DEF Check
<1>3. guard' \in Actors \cup {Nobody}
  BY DEF Check, Typed, TypeOK
<1> QED
  BY <1>2, <1>3, RowsSame
  DEF Typed, TypeOK, Check, local, ring, debts, remote, rest

LEMMA IssueTypes ==
  ASSUME LicenseAssumption, Typed, NEW a \in Actors, Issue(a) PROVE Typed'
<1>1. job[a].pc \in Ensuring
  BY DEF Issue, At, Ensuring
<1>2. job' \in [Actors -> Job] /\ Jobs'
  BY <1>1, AfterEnsureJobs DEF Issue
<1>4. job[a].key \in Keys /\ For(a) \in Insts
  BY <1>1, EnsureFacts
<1>3. guard' \in Actors \cup {Nobody} /\ token' \in Insts \cup {NoInst}
  BY <1>4 DEF Issue, Typed, TypeOK
<1>5. creds' \subseteq Keys \X Insts
  <2>1. creds \subseteq Keys \X Insts /\ <<job[a].key, For(a)>> \in Keys \X Insts
    BY <1>4 DEF Typed, TypeOK
  <2>2. creds' \in {creds, creds \cup {<<job[a].key, For(a)>>}}
    BY DEF Issue
  <2> QED
    BY <2>1, <2>2
<1> QED
  BY <1>2, <1>3, <1>5, RowsSame DEF Typed, TypeOK, Issue, local, debts, rest

LEMMA LandTypes == ASSUME LicenseAssumption, Typed, Land PROVE Typed'
<1>1. queue \in Seq(Operation) /\ queue # <<>> /\ queue' = Tail(queue)
  BY DEF Land, Typed, TypeOK
<1>2. /\ Head(queue) = queue[1] /\ 1 \in DOMAIN queue /\ queue' \in Seq(Operation)
      /\ \A n \in DOMAIN queue' : n + 1 \in DOMAIN queue /\ queue'[n] = queue[n + 1]
  BY <1>1, HeadTailProperties
<1>3. Head(queue) \in Operation /\ RowOK(Head(queue).row) /\ RowOK(row)
  BY <1>1, <1>2 DEF Typed, Rows
<1>4. Applied(Head(queue)) \in Row /\ RowOK(Applied(Head(queue)))
  BY <1>3, AppliedOK DEF Typed
<1>5. row' \in Row /\ RowOK(row')
  BY <1>3, <1>4 DEF Land, Typed, TypeOK
<1>6. behind' \subseteq Handlers /\ torn' \in BOOLEAN
  BY Counters DEF Land, Typed, TypeOK
<1>7. Rows'
  BY <1>2, <1>5 DEF Typed, Rows
<1> QED
  BY <1>2, <1>5, <1>6, <1>7, JobsSame
  DEF Typed, TypeOK, Land, ring, debts, locks, remote

LEMMA FirstRow ==
  ASSUME LicenseAssumption
  PROVE  \A r \in {NoRow, [inst |-> Original, verdict |-> 0, ok |-> TRUE]} :
            r \in Row /\ RowOK(r)
<1>1. NoRow \in Row /\ RowOK(NoRow)
  BY Names
<1> DEFINE r == [inst |-> Original, verdict |-> 0, ok |-> TRUE]
<1>2. r \in Row
  BY Names DEF Row
<1>3. RowOK(r)
  BY DEF RowOK, LicenseAssumption, Insts
<1> QED
  BY <1>1, <1>2, <1>3

LEMMA ImportTypes ==
  ASSUME LicenseAssumption, Typed, NEW backup \in Backups, Import(backup) PROVE Typed'
<1>1. backup \in Row /\ RowOK(backup)
  BY FirstRow DEF Backups
<1>2. /\ row' \in Row /\ queue' \in Seq(Operation) /\ faults' \in 0 .. MaxFaults
      /\ Rows'
  BY <1>1, OpFacts, WriteTypes DEF Import, Rows
<1>3. behind' \subseteq Handlers /\ imports' \in 0 .. MaxImports
  BY Counters DEF Import, Typed, TypeOK, LicenseAssumption
<1> QED
  BY <1>2, <1>3, JobsSame
  DEF Typed, TypeOK, Import, ring, debts, locks, remote, rest

LEMMA TurnTypes == ASSUME LicenseAssumption, Typed, Turn PROVE Typed'
<1>1. truth' \in 0 .. MaxTruth
  BY DEF Turn, Typed, TypeOK, LicenseAssumption
<1> QED
  BY <1>1, JobsSame, RowsSame
  DEF Typed, TypeOK, Turn, local, ring, debts, locks, remote

LEMMA StutterTypes == ASSUME LicenseAssumption, Typed, UNCHANGED vars PROVE Typed'
BY JobsSame, RowsSame
DEF vars, Typed, TypeOK, local, ring, debts, locks, remote, rest

LEMMA InitTypes == ASSUME LicenseAssumption, Init PROVE Typed
<1>1. row \in Row /\ RowOK(row)
  BY FirstRow DEF Init
<1>2. /\ key \in Keys \cup {NoKey} /\ token \in Insts \cup {NoInst}
      /\ keyOf \in [Insts -> Keys \cup {NoKey}] /\ seats \subseteq Insts
      /\ stranded \subseteq Insts \X Sides
  BY Names DEF Init
<1>3. job \in [Actors -> Job] /\ Jobs
  BY Names DEF Init, Jobs, JobOK, LoopOK, NoJob
<1>4. Rows
  BY <1>1 DEF Init, Rows
<1>5. /\ queue \in Seq(Operation) /\ behind \subseteq Handlers
      /\ owed \subseteq Release /\ overtaken \subseteq Release
      /\ drain \in [left : SUBSET Release, settled : SUBSET Release]
  BY DEF Init, NoDrain
<1>7. license \in Handlers \cup {Nobody} /\ guard \in Actors \cup {Nobody}
  BY DEF Init
<1>8. creds = {} /\ torn = FALSE /\ truth = 0 /\ ticks = 0 /\ imports = 0 /\ faults = 0
  BY DEF Init
<1>9. creds \subseteq Keys \X Insts /\ torn \in BOOLEAN
  BY <1>8
<1>6. /\ truth \in 0 .. MaxTruth /\ ticks \in 0 .. MaxTicks
      /\ imports \in 0 .. MaxImports /\ faults \in 0 .. MaxFaults
  BY <1>8 DEF LicenseAssumption
<1> QED
  BY <1>1, <1>2, <1>3, <1>4, <1>5, <1>6, <1>7, <1>9 DEF Typed, TypeOK

LEMMA NextTypes == ASSUME LicenseAssumption, Typed, [Next]_vars PROVE Typed'
<1>1. CASE UNCHANGED vars
  BY <1>1, StutterTypes
<1>2. ASSUME NEW h \in Handlers, Handler(h) PROVE Typed'
  <2>1. CASE \/ \E role \in Roles, k \in Keys : Start(h, role, k)
             \/ Capture(h) \/ Load(h) \/ Ask(h) \/ Commit(h)
             \/ Plan(h) \/ Confirm(h) \/ Mint(h) \/ Teardown(h) \/ Stray(h)
    BY <2>1, StartTypes, CaptureTypes, LoadTypes, AskTypes, CommitTypes, PlanTypes,
       ConfirmTypes, MintTypes, TeardownTypes, StrayTypes
  <2>2. CASE \/ Persist(h) \/ Save(h) \/ Rekey(h) \/ Restore(h) \/ Sweep(h)
             \/ FindKey(h) \/ Unlink(h) \/ Clear(h) \/ Forget(h) \/ Reread(h)
    BY <2>2, PersistTypes, SaveTypes, RekeyTypes, RestoreTypes, SweepTypes, FindKeyTypes,
       UnlinkTypes, ClearTypes, ForgetTypes, RereadTypes
  <2>3. CASE Tombstone(h) \/ Credential(h) \/ Released(h) \/ Recorded(h)
    BY <2>3, TombstoneTypes, CredentialTypes, ReleasedTypes, RecordedTypes
  <2> QED
    BY <1>2, <2>1, <2>2, <2>3 DEF Handler
<1>3. CASE Refresh
  BY <1>3, TickTypes, RetryTypes, SettleTypes, LookTypes, FindTokenTypes, FetchTypes,
     RejectTypes, AdoptTypes DEF Refresh
<1>4. ASSUME NEW a \in Actors, Ensure(a) \/ Check(a) \/ Issue(a) PROVE Typed'
  BY <1>4, EnsureTypes, CheckTypes, IssueTypes
<1>5. CASE Land \/ Turn \/ \E backup \in Backups : Import(backup)
  BY <1>5, LandTypes, TurnTypes, ImportTypes
<1> QED
  BY <1>1, <1>2, <1>3, <1>4, <1>5 DEF Next

\* Every variable keeps its type, and every command has in hand what the code
\* of the place where it is relies on: a key and an installation wherever
\* something is released, a minted one from there on where it is written.
THEOREM TypeCorrect == LicenseAssumption /\ Spec => []TypeOK
<1> SUFFICES ASSUME LicenseAssumption PROVE Spec => []TypeOK
  OBVIOUS
<1>1. Init => Typed
  BY InitTypes
<1>2. Typed /\ [Next]_vars => Typed'
  BY NextTypes
<1>3. Typed => TypeOK
  BY DEF Typed
<1> QED
  BY <1>1, <1>2, <1>3, PTL DEF Spec

-----------------------------------------------------------------------------
(* The invariant, second part: in which order the row is written.          *)

\* Who is at one of these has the license lock.
Holding == {"save", "rekey", "restore", "clear", "forget", "reread", "tombstone"}

\* A command that has not yet written the installation it mints.
Unsaved(j) == j = NoJob \/ (j.role = "activate" /\ j.pc \in Early \cup Unwritten)

\* An installation that neither the row nor what is queued for it names.
Foreign(h) == /\ row.inst # h
              /\ \A n \in DOMAIN queue : queue[n].op # "update" => queue[n].row.inst # h

OnlyImports == \A n \in DOMAIN queue : queue[n].op = "import"

\* An answer of the provider that is current is not older than the row, and
\* nothing is queued that could make it so but a backup.
Asks(h, j) ==
    j.pc \in {"ask", "commit"} /\ h \notin behind =>
        OnlyImports /\ (j.pc = "commit" => row.verdict <= j.verdict)

Writes(h, j) ==
    /\ j.role = "activate" /\ j.pc \notin Ensuring => j.old # h
    /\ j.pc \in {"save", "rekey", "restore"} => j.prev.inst # h
    /\ j.pc = "save" => queue = <<>> /\ j.prev = row
    /\ j.pc = "clear" => queue = <<>>
    /\ j.pc \in {"rekey", "restore"} =>
         queue = <<>> \/ (Len(queue) = 1 /\ queue[1].op = "save")
    /\ Unsaved(j) => Foreign(h)

Known(j) == j.verdict <= truth /\ j.prev.verdict <= truth

\* What waits for the worker: one write, a save perhaps with its undo, and
\* then backups.
QueueOK ==
    /\ row.verdict <= truth /\ \A n \in DOMAIN queue : queue[n].row.verdict <= truth
    /\ \A n \in DOMAIN queue : queue[n].op = "undo" => queue[n].row.inst # queue[n].inst
    /\ \A n \in DOMAIN queue : n > 1 =>
         \/ queue[n].op = "import"
         \/ n = 2 /\ queue[n].op = "undo" /\ queue[1].op = "save"
    /\ queue # <<>> =>
         /\ queue[1].op = "save" => queue[1].row = row \/ queue[1].row.inst # row.inst
         /\ queue[1].op = "update" => row.verdict <= queue[1].row.verdict
         /\ queue[1].op = "clear" => queue[1].row = NoRow

Holders == \A h \in Handlers : job[h].pc \in Holding <=> license = h

Order ==
    /\ Holders /\ QueueOK
    /\ \A h \in Handlers : Asks(h, job[h]) /\ Writes(h, job[h]) /\ Known(job[h])
    /\ \A h, g \in Handlers : Unsaved(job[h]) => job[g].prev.inst # h

\* The license lock is kept, taken or given back with the step of `a`.
Lock(a) ==
    \/ a = Loop /\ license' = license
    \/ license' = license /\ (job'[a].pc \in Holding <=> job[a].pc \in Holding)
    \/ a # Loop /\ license = Nobody /\ license' = a /\ job'[a].pc \in Holding
    \/ a # Loop /\ job[a].pc \in Holding /\ license' = Nobody /\ job'[a].pc \notin Holding

LEMMA HoldersStep ==
  ASSUME LicenseAssumption, Holders, NEW a \in Actors, Lock(a),
         \A b \in Actors : b # a => job'[b] = job[b]
  PROVE  Holders'
<1>1. /\ Nobody \notin Handlers /\ \A h \in Handlers : h \in Actors /\ h # Loop
      /\ a \in Handlers \/ a = Loop
  BY DEF LicenseAssumption, Actors
<1>2. CASE license' = license
  BY <1>1, <1>2 DEF Holders, Lock
<1>3. CASE a # Loop /\ license = Nobody /\ license' = a /\ job'[a].pc \in Holding
  BY <1>1, <1>3 DEF Holders
<1>4. CASE a # Loop /\ job[a].pc \in Holding /\ license' = Nobody /\ job'[a].pc \notin Holding
  BY <1>1, <1>4 DEF Holders
<1> QED
  BY <1>1, <1>2, <1>3, <1>4 DEF Lock

\* A step that writes nothing.
Quiet(a) ==
    /\ \A b \in Actors : b # a => job'[b] = job[b]
    /\ UNCHANGED <<row, queue>> /\ truth' = truth /\ behind' \in {behind, behind \ {a}}

LEMMA OrderQuiet ==
  ASSUME LicenseAssumption, Typed, Order, NEW a \in Actors, Quiet(a), Lock(a),
         a \in Handlers =>
           /\ job'[a].pc \in {"ask", "commit"} => behind' = behind
           /\ Asks(a, job'[a]) /\ Writes(a, job'[a]) /\ Known(job'[a])
           /\ Unsaved(job'[a]) => Unsaved(job[a])
           /\ job'[a].prev.inst \in {job[a].prev.inst, row.inst, NoInst}
  PROVE  Order'
<1>1. /\ \A h \in Handlers : h \in Actors /\ h \in Insts /\ h # Loop /\ h # NoInst
      /\ a \in Handlers \/ a = Loop
  BY DEF LicenseAssumption, Actors, Insts
<1>2. Holders'
  BY HoldersStep DEF Order, Quiet
<1>3. QueueOK'
  BY DEF Order, Quiet, QueueOK
<1>4. ASSUME NEW h \in Handlers
      PROVE  Asks(h, job[h])' /\ Writes(h, job[h])' /\ Known(job[h])'
  <2>1. CASE h # a
    <3>1. job'[h] = job[h] /\ (h \in behind' <=> h \in behind)
      BY <1>1, <2>1 DEF Quiet
    <3>2. Asks(h, job[h]) /\ Writes(h, job[h]) /\ Known(job[h])
      BY DEF Order
    <3> QED
      BY <3>1, <3>2 DEF Quiet, Asks, Writes, Known, Foreign, OnlyImports
  <2>2. CASE h = a
    BY <1>1, <2>2 DEF Quiet, Asks, Writes, Known, Foreign, OnlyImports
  <2> QED
    BY <2>1, <2>2
<1>5. ASSUME NEW h \in Handlers, NEW g \in Handlers, Unsaved(job'[h])
      PROVE  job'[g].prev.inst # h
  <2>1. Unsaved(job[h])
    BY <1>1, <1>5 DEF Quiet
  <2>2. row.inst # h /\ job[g].prev.inst # h
    BY <2>1 DEF Order, Writes, Foreign
  <2> QED
    BY <1>1, <2>2 DEF Quiet
<1> QED
  BY <1>2, <1>3, <1>4, <1>5 DEF Order, Unsaved

\* A step that only goes on, from where nothing is written to such a place.
Plain == {"over", "capture", "load", "plan", "recheck", "mint", "remint", "teardown",
          "persist", "sweep", "ensure", "check", "issue", "forget", "reread",
          "tombstone", "credential", "stray", "drain", "token", "fetch", "reject", "adopt"}
         \cup Releasing \cup Recording

LEMMA OrderDone ==
  ASSUME LicenseAssumption, Typed, Order, NEW a \in Actors, Done(a),
         UNCHANGED <<row, queue, behind>>, truth' = truth,
         license' = IF job[a].pc \in Holding THEN Nobody ELSE license
  PROVE  Order'
<1>1. /\ \A b \in Actors : b # a => job'[b] = job[b]
      /\ a = Loop \/ (a \in Handlers /\ job'[a] = Over)
  BY DoneFacts DEF Typed, TypeOK, Actors
<1>2. a = Loop => job[a].pc \notin Holding
  BY LoopFacts DEF LoopOK, Holding, Ensuring, NoJob
<1>3. Quiet(a)
  BY <1>1 DEF Quiet
<1>4. Lock(a)
  <2>1. Over.pc \notin Holding
    BY DEF Over, NoJob, Holding
  <2> QED
    BY <1>1, <1>2, <2>1, LoopFacts DEF Lock
<1>5. a \in Handlers =>
         /\ Over.pc \notin {"ask", "commit"} /\ Over # NoJob
         /\ Asks(a, Over) /\ Writes(a, Over) /\ Known(Over) /\ ~Unsaved(Over)
         /\ Over.prev.inst = NoInst
  <2>1. 0 <= truth
    BY DEF Typed, TypeOK, LicenseAssumption
  <2> QED
    BY <2>1 DEF Over, NoJob, NoRow, Asks, Writes, Known, Unsaved
<1>6. a \in Handlers =>
         /\ job'[a].pc \in {"ask", "commit"} => behind' = behind
         /\ Asks(a, job'[a]) /\ Writes(a, job'[a]) /\ Known(job'[a])
         /\ Unsaved(job'[a]) => Unsaved(job[a])
         /\ job'[a].prev.inst \in {job[a].prev.inst, row.inst, NoInst}
  <2>1. a \in Handlers => job'[a] = Over
    BY <1>1 DEF LicenseAssumption
  <2> QED
    BY <1>5, <2>1
<1> QED
  BY <1>1, <1>3, <1>4, <1>6, OrderQuiet

LEMMA OrderGoto ==
  ASSUME LicenseAssumption, Typed, Order, NEW h \in Handlers,
         NEW p \in Plain, Goto(h, p), UNCHANGED <<row, queue>>, truth' = truth,
         behind' \in {behind, behind \ {h}},
         job[h].role = "activate" /\ job[h].pc \in Ensuring => p \in Ensuring,
         job[h].role = "activate" /\ p \in Early \cup Unwritten =>
           job[h].pc \in Early \cup Unwritten,
         job[h].role # "none",
         \/ license' = license /\ (p \in Holding <=> job[h].pc \in Holding)
         \/ license = Nobody /\ license' = h /\ p \in Holding
         \/ job[h].pc \in Holding /\ license' = Nobody /\ p \notin Holding
  PROVE  Order'
<1>1. /\ p \in PC /\ h \in Actors /\ h # Loop
      /\ p \notin {"ask", "commit", "save", "clear", "rekey", "restore"}
  BY Names DEF Plain, PC, Releasing, Recording, LicenseAssumption
<1>2. /\ \A b \in Actors : b # h => job'[b] = job[b]
      /\ job'[h].pc = p /\ job'[h].role = job[h].role /\ job'[h].old = job[h].old
      /\ job'[h].verdict = job[h].verdict /\ job'[h].prev = job[h].prev
  BY <1>1, HandlerGoto
<1>3. Quiet(h) /\ Lock(h)
  BY <1>1, <1>2 DEF Quiet, Lock
<1>4. Writes(h, job[h]) /\ Known(job[h])
  BY DEF Order
<1>5. Asks(h, job'[h]) /\ Known(job'[h])
  BY <1>1, <1>2, <1>4 DEF Asks, Known
<1>6. Unsaved(job'[h]) => Unsaved(job[h])
  BY <1>2 DEF Unsaved, NoJob
<1>7. Writes(h, job'[h])
  BY <1>1, <1>2, <1>4, <1>6 DEF Writes
<1> QED
  BY <1>1, <1>2, <1>3, <1>5, <1>6, <1>7, OrderQuiet

LEMMA OrderStart ==
  ASSUME LicenseAssumption, Typed, Order, NEW h \in Handlers, NEW role \in Roles,
         NEW k \in Keys, Start(h, role, k)
  PROVE  Order'
<1>1. job[h] = NoJob /\ job \in [Actors -> Job] /\ h \in Actors /\ h # Loop
  BY RoleOf DEF Start, At
<1>2. /\ job'[h] = [NoJob EXCEPT !.role = role, !.key = k,
                       !.pc = IF role = "validate" THEN "capture" ELSE "load"]
      /\ \A b \in Actors : b # h => job'[b] = job[b]
  BY <1>1 DEF Start, NoJob
<1>3. /\ job'[h].pc \in {"capture", "load"} /\ job'[h].old = NoInst /\ job'[h].prev = NoRow
      /\ job'[h].verdict = 0 /\ job[h].pc = "idle" /\ NoRow.inst = NoInst
      /\ NoRow.verdict = 0
  BY <1>1, <1>2 DEF NoJob, NoRow
<1>4. h # NoInst /\ 0 <= truth
  BY DEF LicenseAssumption, Insts, Typed, TypeOK
<1>5. Unsaved(job[h]) /\ Foreign(h)
  BY <1>1 DEF Unsaved, Order, Writes
<1>6. Asks(h, job'[h]) /\ Writes(h, job'[h]) /\ Known(job'[h])
  BY <1>3, <1>4, <1>5 DEF Asks, Writes, Known
<1>7. Quiet(h) /\ Lock(h)
  BY <1>2, <1>3 DEF Start, Quiet, Lock, Holding, local, locks, rest
<1> QED
  BY <1>1, <1>3, <1>5, <1>6, <1>7, OrderQuiet

LEMMA OrderCapture ==
  ASSUME LicenseAssumption, Typed, Order, NEW h \in Handlers, Capture(h)
  PROVE  Order'
<1>1. /\ job[h].role = "validate" /\ job[h].pc = "capture" /\ Goto(h, "load")
      /\ "load" \in Plain
  BY RoleOf DEF Capture, At, Plain
<1> QED
  BY <1>1, OrderGoto DEF Capture, locks, rest, Holding

LEMMA OrderLoad ==
  ASSUME LicenseAssumption, Typed, Order, NEW h \in Handlers, Load(h)
  PROVE  Order'
<1>1. /\ job[h].pc = "load" /\ job[h].role \in Role /\ h \in Actors /\ h # Loop
      /\ job \in [Actors -> Job] /\ job[h] \in Job
      /\ UNCHANGED <<row, queue, behind, truth, license>>
  BY RoleOf DEF Load, At, local, locks, rest
<1>2. CASE Done(h)
  BY <1>1, <1>2, OrderDone DEF Holding
<1>3. CASE /\ queue = <<>>
           /\ job' = [job EXCEPT ![h].old = row.inst, ![h].ok = row.ok,
                ![h].pc = IF job[h].role = "validate" THEN "ask" ELSE "plan"]
  <2>1. /\ \A b \in Actors : b # h => job'[b] = job[b]
        /\ job'[h].pc = IF job[h].role = "validate" THEN "ask" ELSE "plan"
        /\ job'[h].old = row.inst /\ job'[h].role = job[h].role
        /\ job'[h].verdict = job[h].verdict /\ job'[h].prev = job[h].prev
    BY <1>1, <1>3 DEF Job
  <2>2. Quiet(h) /\ Lock(h)
    BY <1>1, <2>1 DEF Quiet, Lock, Holding
  <2>3. Writes(h, job[h]) /\ Known(job[h]) /\ Known(job'[h])
    BY <2>1 DEF Order, Known
  <2>4. Asks(h, job'[h])
    BY <1>3, <2>1 DEF Asks, OnlyImports
  <2>5. job[h].role = "activate" => Unsaved(job[h])
    BY <1>1 DEF Unsaved, Early
  <2>6. Unsaved(job'[h]) => Unsaved(job[h])
    BY <2>1, <2>5 DEF Unsaved, NoJob
  <2>7. Writes(h, job'[h])
    BY <2>1, <2>3, <2>5, <2>6 DEF Writes, Foreign
  <2> QED
    BY <1>1, <2>1, <2>2, <2>3, <2>4, <2>6, <2>7, OrderQuiet
<1> QED
  BY <1>2, <1>3 DEF Load

LEMMA OrderAsk ==
  ASSUME LicenseAssumption, Typed, Order, NEW h \in Handlers, Ask(h)
  PROVE  Order'
<1>1. /\ job[h].pc = "ask" /\ job[h].role = "validate" /\ h \in Actors /\ h # Loop
      /\ job \in [Actors -> Job] /\ job[h] \in Job
      /\ UNCHANGED <<row, queue, behind, truth, license>>
  BY RoleOf DEF Ask, At, local, locks, rest
<1>2. CASE Done(h)
  BY <1>1, <1>2, OrderDone DEF Holding
<1>3. CASE ~Done(h)
  <2> DEFINE ok == Active /\ job[h].old \in seats /\ keyOf[job[h].old] = key
  <2>1. job' = [job EXCEPT ![h].pc = "commit", ![h].verdict = truth, ![h].ok = ok]
    BY <1>3 DEF Ask
  <2> HIDE DEF ok
  <2>2. /\ \A b \in Actors : b # h => job'[b] = job[b]
        /\ job'[h].pc = "commit" /\ job'[h].old = job[h].old /\ job'[h].role = "validate"
        /\ job'[h].verdict = truth /\ job'[h].prev = job[h].prev
    BY <1>1, <2>1 DEF Job
  <2>3. Quiet(h) /\ Lock(h)
    BY <1>1, <2>2 DEF Quiet, Lock, Holding
  <2>4. Asks(h, job[h]) /\ Writes(h, job[h]) /\ Known(job[h]) /\ row.verdict <= truth
    BY DEF Order, QueueOK
  <2>5. Asks(h, job'[h])
    BY <1>1, <2>2, <2>4 DEF Asks
  <2>6. Known(job'[h])
    BY <2>2, <2>4 DEF Known, Typed, TypeOK
  <2>7. ~Unsaved(job'[h]) /\ Writes(h, job'[h])
    BY <2>2, <2>4 DEF Writes, Unsaved, NoJob
  <2> QED
    BY <1>1, <2>2, <2>3, <2>5, <2>6, <2>7, OrderQuiet
<1> QED
  BY <1>2, <1>3

LEMMA OrderPlan ==
  ASSUME LicenseAssumption, Typed, Order, NEW h \in Handlers, Plan(h)
  PROVE  Order'
<1>1. /\ job[h].pc = "plan" /\ job[h].role = "activate" /\ h \in Actors /\ h # Loop
      /\ job \in [Actors -> Job] /\ job[h] \in Job
      /\ UNCHANGED <<row, queue, behind, truth, license>>
  BY RoleOf DEF Plan, At, local, locks, rest
<1>2. PICK plan \in {"active", "teardown", "fresh"}, p \in {"ensure", "recheck", "mint"} :
        job' = [job EXCEPT ![h].plan = plan, ![h].oldKey = key, ![h].pc = p]
  BY DEF Plan
<1>3. /\ \A b \in Actors : b # h => job'[b] = job[b]
      /\ job'[h].pc = p /\ job'[h].old = job[h].old /\ job'[h].role = "activate"
      /\ job'[h].verdict = job[h].verdict /\ job'[h].prev = job[h].prev
  BY <1>1, <1>2 DEF Job
<1>4. Quiet(h) /\ Lock(h)
  BY <1>1, <1>3 DEF Quiet, Lock, Holding
<1>5. Writes(h, job[h]) /\ Known(job[h]) /\ Unsaved(job[h])
  BY <1>1 DEF Order, Unsaved, Early
<1>6. Asks(h, job'[h]) /\ Known(job'[h]) /\ Writes(h, job'[h])
  BY <1>1, <1>3, <1>5 DEF Asks, Known, Writes, Ensuring
<1> QED
  BY <1>1, <1>3, <1>4, <1>5, <1>6, OrderQuiet

LEMMA OrderConfirm ==
  ASSUME LicenseAssumption, Typed, Order, NEW h \in Handlers, Confirm(h)
  PROVE  Order'
<1>1. /\ job[h].pc = "recheck" /\ job[h].role = "activate" /\ h \in Actors
      /\ UNCHANGED <<row, queue, behind, truth, license>> /\ "mint" \in Plain
  BY RoleOf DEF Confirm, At, local, locks, rest, Plain
<1>2. CASE Done(h)
  BY <1>1, <1>2, OrderDone DEF Holding
<1>3. CASE Goto(h, "mint")
  BY <1>1, <1>3, OrderGoto DEF Holding, Early, Ensuring
<1> QED
  BY <1>2, <1>3 DEF Confirm

LEMMA OrderMint ==
  ASSUME LicenseAssumption, Typed, Order, NEW h \in Handlers, Mint(h)
  PROVE  Order'
<1>1. /\ job[h].pc \in {"mint", "remint"} /\ job[h].role = "activate"
      /\ h \in Actors /\ h # Loop /\ job \in [Actors -> Job] /\ job[h] \in Job
      /\ UNCHANGED <<row, queue, behind, truth, license>>
  BY RoleOf DEF Mint, At, local, locks, rest, Early, Unwritten, Late, Ensuring
<1>2. CASE Done(h)
  BY <1>1, <1>2, OrderDone DEF Holding
<1>3. CASE ~Done(h)
  <2>1. /\ \A b \in Actors : b # h => job'[b] = job[b]
        /\ job'[h].pc \in {"teardown", "releaseNew", "releaseOwn"}
        /\ job'[h].old = job[h].old /\ job'[h].role = "activate"
        /\ job'[h].verdict \in {truth, job[h].verdict} /\ job'[h].prev = job[h].prev
    <3>1. CASE \E p \in {"teardown", "releaseNew"} :
                 job' = [job EXCEPT ![h].new = h, ![h].verdict = truth, ![h].pc = p]
      BY <1>1, <3>1 DEF Job
    <3>2. CASE job' = [job EXCEPT ![h].pc = "releaseOwn", ![h].again = TRUE]
      BY <1>1, <3>2 DEF Job
    <3> QED
      BY <1>3, <3>1, <3>2 DEF Mint, Minted
  <2>2. Quiet(h) /\ Lock(h)
    BY <1>1, <2>1 DEF Quiet, Lock, Holding
  <2>3. Writes(h, job[h]) /\ Known(job[h]) /\ Unsaved(job[h])
    BY <1>1 DEF Order, Unsaved, Early
  <2>4. truth <= truth
    BY DEF Typed, TypeOK
  <2>5. Asks(h, job'[h]) /\ Known(job'[h]) /\ Writes(h, job'[h])
    BY <1>1, <2>1, <2>3, <2>4 DEF Asks, Known, Writes, Ensuring
  <2> QED
    BY <1>1, <2>1, <2>2, <2>3, <2>5, OrderQuiet
<1> QED
  BY <1>2, <1>3

LEMMA OrderTeardown ==
  ASSUME LicenseAssumption, Typed, Order, NEW h \in Handlers, Teardown(h)
  PROVE  Order'
<1>1. /\ job[h].pc = "teardown" /\ job[h].role = "activate" /\ h \in Actors
      /\ UNCHANGED <<row, queue, behind, truth, license>>
  BY RoleOf
  DEF Teardown, ReleaseCredential, At, local, locks, rest, Early, Unwritten, Late, Ensuring
<1>2. PICK p \in {"stray", "releaseOld", "persist"} : Goto(h, p)
  BY DEF Teardown
<1>3. p \in Plain /\ p \notin Holding
  BY DEF Plain, Releasing, Holding
<1> QED
  BY <1>1, <1>2, <1>3, OrderGoto DEF Holding, Unwritten, Ensuring

LEMMA OrderStray ==
  ASSUME LicenseAssumption, Typed, Order, NEW h \in Handlers, Stray(h)
  PROVE  Order'
<1>1. /\ job[h].pc = "stray" /\ job[h].role = "activate" /\ h \in Actors
      /\ UNCHANGED <<row, queue, behind, truth, license>>
  BY RoleOf DEF Stray, At, local, locks, rest, Early, Unwritten, Late, Ensuring
<1>2. PICK p \in {"persist", "releaseNew"} : Goto(h, p)
  BY DEF Stray
<1>3. p \in Plain /\ p \notin Holding
  BY DEF Plain, Releasing, Holding
<1> QED
  BY <1>1, <1>2, <1>3, OrderGoto DEF Holding, Unwritten, Ensuring

LEMMA OrderPersist ==
  ASSUME LicenseAssumption, Typed, Order, NEW h \in Handlers, Persist(h)
  PROVE  Order'
<1>1. /\ job[h].pc = "persist" /\ job[h].role = "activate" /\ h \in Actors /\ h # Loop
      /\ job \in [Actors -> Job] /\ job[h] \in Job
      /\ UNCHANGED <<row, queue, behind, truth>>
  BY RoleOf DEF Persist, At, local, rest, Early, Unwritten, Late, Ensuring
<1>2. CASE Goto(h, "releaseNew") /\ UNCHANGED license
  <2>1. "releaseNew" \in Plain /\ "releaseNew" \notin Holding
    BY DEF Plain, Releasing, Holding
  <2> QED
    BY <1>1, <1>2, <2>1, OrderGoto DEF Holding, Unwritten, Ensuring, Early
<1>3. CASE /\ queue = <<>> /\ license = Nobody /\ license' = h
           /\ job' = [job EXCEPT ![h].pc = "save", ![h].prev = row]
  <2>1. /\ \A b \in Actors : b # h => job'[b] = job[b]
        /\ job'[h].pc = "save" /\ job'[h].old = job[h].old /\ job'[h].role = "activate"
        /\ job'[h].verdict = job[h].verdict /\ job'[h].prev = row
    BY <1>1, <1>3 DEF Job
  <2>2. Quiet(h) /\ Lock(h)
    BY <1>1, <1>3, <2>1 DEF Quiet, Lock, Holding
  <2>3. Writes(h, job[h]) /\ Known(job[h]) /\ Unsaved(job[h]) /\ row.verdict <= truth
    BY <1>1 DEF Order, Unsaved, Unwritten, QueueOK
  <2>4. Asks(h, job'[h]) /\ Known(job'[h])
    BY <2>1, <2>3 DEF Asks, Known
  <2>5. Writes(h, job'[h])
    BY <1>1, <1>3, <2>1, <2>3 DEF Writes, Foreign, Ensuring
  <2> QED
    BY <1>1, <2>1, <2>2, <2>3, <2>4, <2>5, OrderQuiet
<1> QED
  BY <1>2, <1>3 DEF Persist

LEMMA OrderRekey ==
  ASSUME LicenseAssumption, Typed, Order, NEW h \in Handlers, Rekey(h)
  PROVE  Order'
<1>1. /\ job[h].pc = "rekey" /\ job[h].role = "activate" /\ h \in Actors /\ h # Loop
      /\ job \in [Actors -> Job] /\ job[h] \in Job /\ Goto(h, "restore") /\ "restore" \in PC
      /\ UNCHANGED <<row, queue, behind, truth, license>>
  BY RoleOf DEF Rekey, At, local, locks, PC, Early, Unwritten, Late, Ensuring
<1>2. /\ \A b \in Actors : b # h => job'[b] = job[b]
      /\ job'[h].pc = "restore" /\ job'[h].old = job[h].old /\ job'[h].role = "activate"
      /\ job'[h].verdict = job[h].verdict /\ job'[h].prev = job[h].prev
  BY <1>1, GotoFacts
<1>3. Quiet(h) /\ Lock(h)
  BY <1>1, <1>2 DEF Quiet, Lock, Holding
<1>4. Writes(h, job[h]) /\ Known(job[h])
  BY DEF Order
<1>5. Asks(h, job'[h]) /\ Known(job'[h]) /\ ~Unsaved(job'[h])
  BY <1>2, <1>4 DEF Asks, Known, Unsaved, Early, Unwritten, NoJob
<1>6. Writes(h, job'[h])
  BY <1>1, <1>2, <1>4, <1>5 DEF Writes, Ensuring
<1> QED
  BY <1>1, <1>2, <1>3, <1>5, <1>6, OrderQuiet

LEMMA OrderSweep ==
  ASSUME LicenseAssumption, Typed, Order, NEW h \in Handlers, Sweep(h)
  PROVE  Order'
<1>1. /\ job[h].pc = "sweep" /\ job[h].role = "activate" /\ Goto(h, "ensure")
      /\ UNCHANGED <<row, queue, behind, truth, license>> /\ "ensure" \in Plain
  BY RoleOf DEF Sweep, ReleaseCredential, At, local, locks, rest, Plain, Early,
     Unwritten, Late, Ensuring
<1> QED
  BY <1>1, OrderGoto DEF Holding, Ensuring, Early, Unwritten

LEMMA OrderFindKey ==
  ASSUME LicenseAssumption, Typed, Order, NEW h \in Handlers, FindKey(h)
  PROVE  Order'
<1>1. /\ job[h].pc = "plan" /\ job[h].role = "deactivate" /\ h \in Actors /\ h # Loop
      /\ job \in [Actors -> Job] /\ job[h] \in Job
      /\ job' = [job EXCEPT ![h].key = key, ![h].pc = "recheck"]
      /\ UNCHANGED <<row, queue, behind, truth, license>>
  BY RoleOf DEF FindKey, At, local, locks, rest
<1>2. /\ \A b \in Actors : b # h => job'[b] = job[b]
      /\ job'[h].pc = "recheck" /\ job'[h].role = "deactivate"
      /\ job'[h].verdict = job[h].verdict /\ job'[h].prev = job[h].prev
  BY <1>1 DEF Job
<1>3. Quiet(h) /\ Lock(h)
  BY <1>1, <1>2 DEF Quiet, Lock, Holding
<1>4. Known(job[h]) /\ ~Unsaved(job'[h])
  BY <1>2 DEF Order, Unsaved, NoJob
<1>5. Asks(h, job'[h]) /\ Known(job'[h]) /\ Writes(h, job'[h])
  BY <1>2, <1>4 DEF Asks, Known, Writes
<1> QED
  BY <1>1, <1>2, <1>3, <1>4, <1>5, OrderQuiet

LEMMA OrderUnlink ==
  ASSUME LicenseAssumption, Typed, Order, NEW h \in Handlers, Unlink(h)
  PROVE  Order'
<1>1. /\ job[h].pc = "recheck" /\ job[h].role = "deactivate" /\ h \in Actors /\ h # Loop
      /\ job \in [Actors -> Job] /\ job[h] \in Job /\ "clear" \in PC
      /\ UNCHANGED <<row, queue, behind, truth>>
  BY RoleOf DEF Unlink, At, local, rest, PC
<1>2. CASE Done(h) /\ UNCHANGED license
  BY <1>1, <1>2, OrderDone DEF Holding
<1>3. CASE Goto(h, "clear") /\ queue = <<>> /\ license = Nobody /\ license' = h
  <2>1. /\ \A b \in Actors : b # h => job'[b] = job[b]
        /\ job'[h].pc = "clear" /\ job'[h].role = "deactivate"
        /\ job'[h].verdict = job[h].verdict /\ job'[h].prev = job[h].prev
    BY <1>1, <1>3, GotoFacts
  <2>2. Quiet(h) /\ Lock(h)
    BY <1>1, <1>3, <2>1 DEF Quiet, Lock, Holding
  <2>3. Known(job[h]) /\ ~Unsaved(job'[h])
    BY <2>1 DEF Order, Unsaved, NoJob
  <2>4. Asks(h, job'[h]) /\ Known(job'[h]) /\ Writes(h, job'[h])
    BY <1>3, <2>1, <2>3 DEF Asks, Known, Writes
  <2> QED
    BY <1>1, <2>1, <2>2, <2>3, <2>4, OrderQuiet
<1> QED
  BY <1>2, <1>3 DEF Unlink

LEMMA OrderForget ==
  ASSUME LicenseAssumption, Typed, Order, NEW h \in Handlers, Forget(h)
  PROVE  Order'
<1>1. /\ job[h].pc = "forget" /\ job[h].role = "deactivate" /\ h \in Actors
      /\ UNCHANGED <<row, queue, behind, truth>> /\ license' = Nobody
      /\ "credential" \in Plain /\ (Done(h) \/ Goto(h, "credential"))
  BY RoleOf DEF Forget, At, local, rest, Plain
<1> QED
  BY <1>1, OrderDone, OrderGoto DEF Holding

LEMMA OrderReread ==
  ASSUME LicenseAssumption, Typed, Order, NEW h \in Handlers, Reread(h)
  PROVE  Order'
<1>1. /\ job[h].pc = "reread" /\ job[h].role = "deactivate" /\ h \in Actors
      /\ UNCHANGED <<row, queue, behind, truth>> /\ "tombstone" \in Plain
      /\ \/ Done(h) /\ license' = Nobody
         \/ Goto(h, "tombstone") /\ UNCHANGED license
  BY RoleOf DEF Reread, At, local, rest, Plain
<1> QED
  BY <1>1, OrderDone, OrderGoto DEF Holding

LEMMA OrderTombstone ==
  ASSUME LicenseAssumption, Typed, Order, NEW h \in Handlers, Tombstone(h)
  PROVE  Order'
<1>1. /\ job[h].pc = "tombstone" /\ h \in Actors /\ Done(h)
      /\ UNCHANGED <<row, queue, behind, truth>> /\ license' = Nobody
  BY RoleOf DEF Tombstone, At, local, rest
<1> QED
  BY <1>1, OrderDone DEF Holding

LEMMA OrderCredential ==
  ASSUME LicenseAssumption, Typed, Order, NEW h \in Handlers, Credential(h)
  PROVE  Order'
<1>1. /\ job[h].pc = "credential" /\ job[h].role = "deactivate" /\ Goto(h, "releaseSeat")
      /\ UNCHANGED <<row, queue, behind, truth, license>> /\ "releaseSeat" \in Plain
  BY RoleOf DEF Credential, ReleaseCredential, At, local, locks, rest, Plain, Releasing
<1> QED
  BY <1>1, OrderGoto DEF Holding

LEMMA OrderHandle ==
  ASSUME LicenseAssumption, Typed, Order, NEW h \in Handlers, Released(h) \/ Recorded(h)
  PROVE  Order'
<1>1. /\ job[h].pc \in Releasing \cup Recording /\ job[h].pc \notin Holding
      /\ job[h].pc \notin Ensuring /\ h \in Actors /\ job[h].role # "none"
      /\ UNCHANGED <<row, queue, behind, truth, license>>
      /\ Goon(h, Handle(h).next) \/ Goto(h, Handle(h).record)
  BY RoleOf DEF Released, Recorded, Releasing, Recording, Holding, Ensuring, local, locks,
     rest, Early, Unwritten, Late
<1>2. CASE Done(h)
  BY <1>1, <1>2, OrderDone
<1>3. ASSUME NEW p, p \in {Handle(h).next, Handle(h).record}, p # "over", Goto(h, p)
      PROVE  Order'
  <2>1. p \in Plain /\ p \notin Holding
    BY <1>1, <1>3, HandleFacts DEF Plain, Recording, Holding
  <2>2. job[h].role = "activate" /\ p \in Early \cup Unwritten =>
          job[h].pc \in Early \cup Unwritten
    BY <1>1, <1>3, RoleOf DEF Handle, Early, Unwritten, Late, Ensuring, Releasing, Recording
  <2> QED
    BY <1>1, <1>3, <2>1, <2>2, OrderGoto
<1> QED
  BY <1>1, <1>2, <1>3, HandleFacts DEF Goon, Recording

\* Of the loop's steps only the adoption writes.
LEMMA OrderLoop ==
  ASSUME LicenseAssumption, Typed, Order,
         \A b \in Actors : b # Loop => job'[b] = job[b],
         UNCHANGED <<row, queue, behind, license>>, truth' = truth
  PROVE  Order'
<1>1. Loop \in Actors /\ Loop \notin Handlers /\ Quiet(Loop) /\ Lock(Loop)
  BY LoopFacts DEF Quiet, Lock
<1> QED
  BY <1>1, OrderQuiet

LEMMA LoopOnly ==
  ASSUME LicenseAssumption, Typed,
         \/ Tick \/ (\E r \in drain.left : Retry(r)) \/ Settle
         \/ Look \/ FindToken \/ Fetch \/ Reject
  PROVE  \A b \in Actors : b # Loop => job'[b] = job[b]
<1>9. job \in [Actors -> Job] /\ Loop \in Actors
  BY LoopFacts
<1>1. CASE Tick
  BY <1>9, <1>1 DEF Tick
<1>2. CASE \E r \in drain.left : Retry(r)
  BY <1>9, <1>2 DEF Retry
<1>3. CASE Settle
  BY <1>9, <1>3 DEF Settle, Goto
<1>4. CASE Look
  BY <1>9, <1>4 DEF Look, Done
<1>5. CASE FindToken
  BY <1>9, <1>5 DEF FindToken, Present, Done
<1>6. CASE Fetch
  BY <1>9, <1>6 DEF Fetch, Present, Done
<1>7. CASE Reject
  BY <1>9, <1>7 DEF Reject, Done
<1> QED
  BY <1>1, <1>2, <1>3, <1>4, <1>5, <1>6, <1>7

LEMMA OrderRefresh ==
  ASSUME LicenseAssumption, Typed, Order,
         \/ Tick \/ (\E r \in drain.left : Retry(r)) \/ Settle
         \/ Look \/ FindToken \/ Fetch \/ Reject
  PROVE  Order'
<1>1. UNCHANGED <<row, queue, behind, license>> /\ truth' = truth
  BY DEF Tick, Retry, Settle, Look, FindToken, Fetch, Reject, local, locks, rest
<1>3. \A b \in Actors : b # Loop => job'[b] = job[b]
  BY LoopOnly
<1> QED
  BY <1>1, <1>3, OrderLoop

\* Ensuring a credential writes neither.
LEMMA OrderEnsure ==
  ASSUME LicenseAssumption, Typed, Order, NEW a \in Actors,
         Ensure(a) \/ Check(a) \/ Issue(a)
  PROVE  Order'
<1>1. /\ UNCHANGED <<row, queue, behind, license>> /\ truth' = truth
      /\ job[a].pc \in Ensuring /\ job \in [Actors -> Job]
      /\ \/ \E got \in BOOLEAN : AfterEnsure(a, got)
         \/ \E p \in {"check", "issue"} : Goto(a, p)
  BY DEF Ensure, Check, Issue, local, locks, rest, At, Ensuring, Typed, TypeOK
<1>2. CASE a = Loop
  <2>1. \A b \in Actors : b # Loop => job'[b] = job[b]
    BY <1>1, <1>2 DEF AfterEnsure, Goto, Done
  <2> QED
    BY <1>1, <2>1, OrderLoop
<1>3. CASE a \in Handlers
  <2>1. job[a].role = "activate" /\ a # Loop /\ job[a].pc \notin Holding
    BY <1>1, <1>3, EnsureFacts DEF LicenseAssumption, Holding, Ensuring
  <2>2. CASE Done(a)
    BY <1>1, <2>1, <2>2, OrderDone
  <2>3. CASE \E p \in {"check", "issue"} : Goto(a, p)
    <3>1. PICK p \in {"check", "issue"} : Goto(a, p)
      BY <2>3
    <3>2. p \in Plain /\ p \notin Holding /\ p \in Ensuring /\ p \notin Early \cup Unwritten
      BY DEF Plain, Holding, Ensuring, Early, Unwritten
    <3> QED
      BY <1>1, <1>3, <2>1, <3>1, <3>2, OrderGoto
  <2>4. CASE job' = [job EXCEPT ![a] = [NoJob EXCEPT !.role = "validate", !.pc = "capture"]]
    <3> DEFINE j == [NoJob EXCEPT !.role = "validate", !.pc = "capture"]
    <3>1. /\ \A b \in Actors : b # a => job'[b] = job[b]
          /\ job'[a] = j
      BY <1>1, <2>4
    <3>2. /\ j.pc = "capture" /\ j.role = "validate" /\ j.verdict = 0 /\ j.prev = NoRow
          /\ NoRow.inst = NoInst /\ NoRow.verdict = 0 /\ j # NoJob
      BY DEF NoJob, NoRow
    <3> HIDE DEF j
    <3>3. Quiet(a) /\ Lock(a)
      BY <1>1, <2>1, <3>1, <3>2 DEF Quiet, Lock, Holding
    <3>4. 0 <= truth
      BY DEF Typed, TypeOK
    <3>5. Asks(a, j) /\ Known(j) /\ Writes(a, j) /\ ~Unsaved(j)
      BY <3>2, <3>4 DEF Asks, Known, Writes, Unsaved
    <3> QED
      BY <3>1, <3>2, <3>3, <3>5, OrderQuiet
  <2> QED
    BY <1>1, <2>1, <2>2, <2>3, <2>4 DEF AfterEnsure
<1> QED
  BY <1>2, <1>3 DEF Actors

\* What an operation makes of the row.
LEMMA AppliedFacts ==
  ASSUME LicenseAssumption, TypeOK, NEW op \in Operation
  PROVE  \/ Applied(op) = row
         \/ Applied(op) = op.row /\ op.op # "update"
            /\ (op.op = "undo" => row.inst = op.inst)
         \/ op.op = "update" /\ row # NoRow /\ Applied(op).inst = row.inst
            /\ Applied(op).verdict = op.row.verdict
<1>1. row \in Row /\ op.row \in Row
  BY DEF TypeOK, Operation
<1>2. CASE op.op = "update" /\ row # NoRow
  <2>1. Applied(op) = [row EXCEPT !.verdict = op.row.verdict, !.ok = op.row.ok]
    BY <1>2 DEF Applied
  <2> QED
    BY <1>1, <1>2, <2>1 DEF Row
<1> QED
  BY <1>1, <1>2 DEF Applied, Operation

\* An operation that may be done now or once the queue is empty.
Fair(op) ==
    /\ op.row.verdict <= truth /\ op.op # "import"
    /\ op.op = "undo" => op.row.inst # op.inst
    /\ op.op = "save" => op.row = row \/ op.row.inst # row.inst
    /\ op.op = "update" => row.verdict <= op.row.verdict
    /\ op.op = "clear" => op.row = NoRow
    /\ queue = <<>> \/ (op.op = "undo" /\ Len(queue) = 1 /\ queue[1].op = "save")

LEMMA FairQueue ==
  ASSUME LicenseAssumption, Typed, QueueOK, NEW op \in Operation, Fair(op),
         Write(op) \/ Refuse \/ Postpone(op), truth' = truth
  PROVE  QueueOK'
<1>1. queue \in Seq(Operation) /\ truth \in Nat
  BY DEF Typed, TypeOK, LicenseAssumption
<1>2. CASE Write(op)
  <2>1. queue = <<>> /\ queue' = <<>> /\ row' = Applied(op)
    BY <1>2 DEF Write
  <2>2. row'.verdict <= truth
    BY <2>1, AppliedFacts DEF Typed, QueueOK, Fair
  <2> QED
    BY <2>1, <2>2 DEF QueueOK
<1>3. CASE Refuse
  BY <1>3 DEF Refuse, QueueOK
<1>4. CASE Postpone(op)
  <2>1. row' = row /\ queue' = Append(queue, op)
    BY <1>4 DEF Postpone
  <2>2. CASE queue = <<>>
    <3>1. Len(queue') = 1 /\ queue'[1] = op /\ queue' # <<>> /\ DOMAIN queue' = {1}
      BY <1>1, <2>1, <2>2
    <3> QED
      BY <2>1, <3>1 DEF QueueOK, Fair
  <2>3. CASE op.op = "undo" /\ Len(queue) = 1 /\ queue[1].op = "save"
    <3>1. /\ Len(queue') = 2 /\ queue'[1] = queue[1] /\ queue'[2] = op /\ queue' # <<>>
          /\ DOMAIN queue' = {1, 2} /\ queue # <<>> /\ 1 \in DOMAIN queue
      <4>1. queue # <<>> /\ 1 \in DOMAIN queue /\ 1 \in 1 .. Len(queue)
        BY <1>1, <2>3, EmptySeq, LenProperties
      <4>2. /\ queue' \in Seq(Operation) /\ Len(queue') = Len(queue) + 1
            /\ \A n \in 1 .. Len(queue) : queue'[n] = queue[n]
            /\ queue'[Len(queue) + 1] = op
        BY <1>1, <2>1, AppendProperties
      <4>3. DOMAIN queue' = 1 .. Len(queue')
        BY <4>2, LenProperties
      <4>4. queue'[1] = queue[1] /\ queue'[2] = op /\ Len(queue') = 2
        BY <2>3, <4>1, <4>2
      <4>5. DOMAIN queue' = {1, 2}
        BY <4>3, <4>4
      <4>6. queue' # <<>>
        BY <4>4, EmptySeq
      <4> QED
        BY <4>1, <4>4, <4>5, <4>6
    <3> QED
      BY <2>1, <2>3, <3>1 DEF QueueOK, Fair
  <2> QED
    BY <2>2, <2>3 DEF Fair
<1> QED
  BY <1>2, <1>3, <1>4

LEMMA OrderWrite ==
  ASSUME LicenseAssumption, Typed, Order, NEW a \in Actors,
         \A b \in Actors : b # a => job'[b] = job[b],
         license \in {Nobody, a}, Lock(a), Bump, truth' = truth,
         NEW op, Operable(op), Fair(op), Write(op) \/ Refuse \/ Postpone(op),
         op.op # "update" =>
           \A h \in Handlers : h # a /\ Unsaved(job[h]) => op.row.inst # h,
         a \in Handlers =>
           /\ Asks(a, job[a])' /\ Writes(a, job[a])' /\ Known(job'[a])
           /\ ~Unsaved(job'[a]) /\ job'[a].prev.inst \in {job[a].prev.inst, NoInst}
  PROVE  Order'
<1>1. /\ \A h \in Handlers : h \in Actors /\ h # Loop /\ h # NoInst
      /\ a \in Handlers \/ a = Loop
      /\ Nobody \notin Handlers
  BY DEF LicenseAssumption, Actors, Insts
<1>2. Holders' /\ QueueOK'
  BY HoldersStep, FairQueue DEF Order, Operable
<1>3. ASSUME NEW h \in Handlers
      PROVE  Asks(h, job[h])' /\ Writes(h, job[h])' /\ Known(job[h])'
  <2>1. CASE h = a
    BY <1>3, <2>1 DEF Known
  <2>2. CASE h # a
    <3>1. job'[h] = job[h]
      BY <1>1, <2>2
    <3>2. Writes(h, job[h]) /\ Known(job[h]) /\ Known(job[h])'
      BY <3>1 DEF Order, Known
    <3>3. job[h].pc \notin Holding
      BY <1>1, <2>2 DEF Order, Holders
    <3>4. Asks(h, job[h])'
      <4>1. job[h].pc \in {"ask", "commit"} => h \in behind'
        BY RoleOf DEF Bump, Asking
      <4> QED
        BY <3>1, <4>1 DEF Asks
    <3>5. Unsaved(job[h]) => Foreign(h)'
      <4> SUFFICES ASSUME Unsaved(job[h]) PROVE Foreign(h)'
        OBVIOUS
      <4>1. Foreign(h) /\ (op.op # "update" => op.row.inst # h)
        BY <2>2, <3>2 DEF Writes
      <4>2. row' \in {row, Applied(op)}
        BY DEF Write, Refuse, Postpone
      <4>3. row'.inst # h
        BY <4>1, <4>2, AppliedFacts DEF Operable, Typed, Foreign
      <4>4. queue' = queue \/ queue' = Append(queue, op)
        BY DEF Write, Refuse, Postpone
      <4>5. queue \in Seq(Operation) /\ op \in Operation
        BY DEF Typed, TypeOK, Operable
      <4>6. \A n \in DOMAIN queue' : queue'[n] = op \/ (n \in DOMAIN queue /\ queue'[n] = queue[n])
        BY <4>4, <4>5, AppendProperties
      <4> QED
        BY <4>1, <4>3, <4>6 DEF Foreign
    <3> QED
      BY <3>1, <3>2, <3>3, <3>4, <3>5 DEF Writes, Holding
  <2> QED
    BY <2>1, <2>2
<1>4. ASSUME NEW h \in Handlers, NEW g \in Handlers, Unsaved(job'[h])
      PROVE  job'[g].prev.inst # h
  <2>1. h # a /\ Unsaved(job[h])
    BY <1>1, <1>4
  <2>2. job[g].prev.inst # h
    BY <2>1 DEF Order
  <2> QED
    BY <1>1, <2>2
<1> QED
  BY <1>2, <1>3, <1>4 DEF Order, Unsaved

\* The same of a command that is over, or of the loop.
LEMMA OrderWritten ==
  ASSUME LicenseAssumption, Typed, Order, NEW a \in Actors, Done(a),
         job[a].pc \notin Holding, license = Nobody, license' = Nobody, Bump, truth' = truth,
         NEW op, Operable(op), Fair(op), Write(op) \/ Refuse \/ Postpone(op),
         op.op # "update" =>
           \A h \in Handlers : h # a /\ Unsaved(job[h]) => op.row.inst # h
  PROVE  Order'
<1>1. /\ \A b \in Actors : b # a => job'[b] = job[b]
      /\ a = Loop \/ (a \in Handlers /\ a # Loop /\ job'[a] = Over)
  BY DoneFacts DEF Typed, TypeOK, Actors, LicenseAssumption
<1>2. /\ Over.pc = "over" /\ Over.role = "none" /\ Over.verdict = 0 /\ Over # NoJob
      /\ Over.prev.inst = NoInst /\ Over.prev.verdict = 0
  BY DEF Over, NoJob, NoRow
<1>3. Lock(a)
  BY <1>1, <1>2 DEF Lock, Holding
<1>4. 0 <= truth
  BY DEF Typed, TypeOK
<1>5. a \in Handlers =>
        /\ Asks(a, job[a])' /\ Writes(a, job[a])' /\ Known(job'[a])
        /\ ~Unsaved(job'[a]) /\ job'[a].prev.inst = NoInst
  <2> SUFFICES ASSUME a \in Handlers
               PROVE  /\ Asks(a, job[a])' /\ Writes(a, job[a])' /\ Known(job'[a])
                      /\ ~Unsaved(job'[a]) /\ job'[a].prev.inst = NoInst
    OBVIOUS
  <2>1. job'[a] = Over
    BY <1>1 DEF LicenseAssumption
  <2> HIDE DEF Over
  <2> QED
    BY <1>2, <1>4, <2>1 DEF Asks, Writes, Known, Unsaved
<1> QED
  BY <1>1, <1>3, <1>5, OrderWrite

LEMMA OrderCommit ==
  ASSUME LicenseAssumption, Typed, Order, NEW h \in Handlers, Commit(h)
  PROVE  Order'
<1>1. /\ job[h].pc = "commit" /\ job[h].role = "validate" /\ h \in Actors /\ h # Loop
      /\ job \in [Actors -> Job] /\ job[h] \in Job /\ job[h].old \in Insts
      /\ job[h].verdict \in 0 .. MaxTruth /\ job[h].ok \in BOOLEAN
      /\ license = Nobody /\ license' = Nobody /\ truth' = truth
  BY RoleOf DEF Commit, At, locks, rest, ValidateOK
<1>2. CASE Done(h) /\ UNCHANGED <<local, faults>>
  BY <1>1, <1>2, OrderDone DEF local, Holding
<1> DEFINE j == [NoJob EXCEPT !.role = "validate", !.pc = "capture", !.again = TRUE]
<1>3. CASE job' = [job EXCEPT ![h] = j] /\ UNCHANGED <<local, faults>>
  <2>1. (\A b \in Actors : b # h => job'[b] = job[b]) /\ job'[h] = j
    BY <1>1, <1>3
  <2>2. /\ j.pc = "capture" /\ j.role = "validate" /\ j.verdict = 0 /\ j.prev = NoRow
        /\ NoRow.inst = NoInst /\ NoRow.verdict = 0 /\ j # NoJob
    BY DEF NoJob, NoRow
  <2> HIDE DEF j
  <2>3. Quiet(h) /\ Lock(h)
    BY <1>1, <1>3, <2>1, <2>2 DEF Quiet, Lock, Holding, local
  <2>4. 0 <= truth
    BY DEF Typed, TypeOK
  <2>5. Asks(h, j) /\ Known(j) /\ Writes(h, j) /\ ~Unsaved(j)
    BY <2>2, <2>4 DEF Asks, Known, Writes, Unsaved
  <2> QED
    BY <1>1, <2>1, <2>2, <2>3, <2>5, OrderQuiet
<1> DEFINE r == [inst |-> job[h].old, verdict |-> job[h].verdict, ok |-> job[h].ok]
           op == Op("update", r)
<1>4. CASE /\ queue = <<>> /\ IsCurrent(h)
           /\ Write(op) \/ Refuse \/ Postpone(op)
           /\ Bump /\ Done(h)
  <2>1. r \in Row /\ RowOK(r)
    BY <1>1 DEF Row, RowOK, LicenseAssumption
  <2>2. Operable(op)
    <3> HIDE DEF r
    <3> QED
      BY <2>1, OpFacts
  <2>3. Asks(h, job[h]) /\ Known(job[h])
    BY DEF Order
  <2>4. op.op = "update" /\ op.row.verdict = job[h].verdict
    BY DEF Op
  <2>5. Fair(op)
    BY <1>1, <1>4, <2>3, <2>4 DEF Fair, IsCurrent, Asks, Known
  <2> HIDE DEF op
  <2> QED
    BY <1>1, <1>4, <2>2, <2>4, <2>5, OrderWritten DEF Holding
<1> QED
  BY <1>2, <1>3, <1>4 DEF Commit

LEMMA OrderAdopt ==
  ASSUME LicenseAssumption, Typed, Order, Adopt
  PROVE  Order'
<1>1. /\ job[Loop].pc = "adopt" /\ Loop \in Actors /\ Loop \notin Handlers /\ Done(Loop)
      /\ license = Nobody /\ license' = Nobody /\ truth' = truth
  BY LoopFacts DEF Adopt, At, locks, rest
<1>2. CASE UNCHANGED <<local, faults>>
  BY <1>1, <1>2, OrderDone DEF local, Holding
<1> DEFINE op == Op("save", row)
<1>3. CASE queue = <<>> /\ (Write(op) \/ Refuse \/ Postpone(op)) /\ Bump
  <2>1. Operable(op)
    BY OpFacts DEF Typed, TypeOK, Rows
  <2>2. op.op = "save" /\ op.row = row
    BY DEF Op
  <2>3. Fair(op)
    BY <1>3, <2>2 DEF Fair, Order, QueueOK
  <2>4. \A h \in Handlers : Unsaved(job[h]) => row.inst # h
    BY DEF Order, Writes, Foreign
  <2> HIDE DEF op
  <2> QED
    BY <1>1, <1>3, <2>1, <2>2, <2>3, <2>4, OrderWritten DEF Holding
<1> QED
  BY <1>2, <1>3 DEF Adopt

LEMMA OrderSave ==
  ASSUME LicenseAssumption, Typed, Order, NEW h \in Handlers, Save(h)
  PROVE  Order'
<1>1. /\ job[h].pc = "save" /\ job[h].role = "activate" /\ h \in Actors /\ h # Loop
      /\ job \in [Actors -> Job] /\ job[h] \in Job /\ job[h].new = h
      /\ job[h].verdict \in 0 .. MaxTruth /\ truth' = truth /\ Bump
      /\ license = h /\ queue = <<>> /\ job[h].prev = row /\ row.inst # h
      /\ Writes(h, job[h]) /\ Known(job[h]) /\ h \in Insts
  BY RoleOf, Names DEF Save, At, rest, Early, Unwritten, Late, Ensuring, Order, Writes, Holders,
     Holding, Foreign, Unsaved, ActivateOK, PlanOK
<1> DEFINE r == [inst |-> job[h].new, verdict |-> job[h].verdict, ok |-> TRUE]
           op == Op("save", r)
<1>2. r \in Row /\ RowOK(r)
  BY <1>1 DEF Row, RowOK, LicenseAssumption
<1>3. /\ Write(op) \/ Refuse \/ Postpone(op)
      /\ \/ Write(op) /\ license' = Nobody /\ \E p \in {"sweep", "ensure"} : Goto(h, p)
         \/ (Refuse \/ Postpone(op)) /\ UNCHANGED license /\ Goto(h, "rekey")
  BY DEF Save
<1>4. op.op = "save" /\ op.row.inst = h /\ op.row.verdict = job[h].verdict
  BY <1>1 DEF Op
<1>5. Operable(op)
  <2> HIDE DEF r
  <2> QED
    BY <1>2, OpFacts
<1> HIDE DEF op
<1>6. Fair(op)
  BY <1>1, <1>4 DEF Fair, Known
<1>7. PICK p \in {"sweep", "ensure", "rekey"} :
        /\ Goto(h, p)
        /\ p = "rekey" => license' = license /\ (Refuse \/ Postpone(op))
        /\ p # "rekey" => license' = Nobody
  BY <1>3
<1>8. p \in PC /\ p \notin Early \cup Unwritten /\ (p \in Holding <=> p = "rekey")
  BY DEF PC, Early, Unwritten, Holding
<1>9. /\ \A b \in Actors : b # h => job'[b] = job[b]
      /\ job'[h].pc = p /\ job'[h].old = job[h].old /\ job'[h].role = "activate"
      /\ job'[h].verdict = job[h].verdict /\ job'[h].prev = job[h].prev
  BY <1>1, <1>7, <1>8, GotoFacts
<1>10. Lock(h)
  BY <1>1, <1>7, <1>8, <1>9 DEF Lock, Holding
<1>11. Asks(h, job[h])' /\ Known(job'[h]) /\ ~Unsaved(job'[h])
  BY <1>1, <1>8, <1>9 DEF Asks, Known, Unsaved, NoJob
<1>12. Writes(h, job[h])'
  <2>1. p = "rekey" => queue' = <<>> \/ (Len(queue') = 1 /\ queue'[1].op = "save")
    <3>1. CASE Refuse
      BY <1>1, <3>1 DEF Refuse
    <3>2. CASE Postpone(op)
      BY <1>1, <1>4, <3>2 DEF Postpone
    <3> QED
      BY <1>7, <3>1, <3>2
  <2> QED
    BY <1>1, <1>9, <1>11, <2>1 DEF Writes, Ensuring
<1> QED
  BY <1>1, <1>3, <1>4, <1>5, <1>6, <1>9, <1>10, <1>11, <1>12, OrderWrite

LEMMA OrderClear ==
  ASSUME LicenseAssumption, Typed, Order, NEW h \in Handlers, Clear(h)
  PROVE  Order'
<1>1. /\ job[h].pc = "clear" /\ job[h].role = "deactivate" /\ h \in Actors /\ h # Loop
      /\ job \in [Actors -> Job] /\ job[h] \in Job /\ truth' = truth /\ Bump
      /\ license = h /\ queue = <<>> /\ Known(job[h])
  BY RoleOf DEF Clear, At, rest, Order, Writes, Holders, Holding
<1> DEFINE op == Op("clear", NoRow)
<1>2. /\ Write(op) \/ Refuse \/ Postpone(op)
      /\ \/ \E p \in {"forget", "reread"} : Goto(h, p) /\ UNCHANGED license
         \/ Done(h) /\ license' = Nobody
  BY DEF Clear
<1>3. op.op = "clear" /\ op.row = NoRow /\ NoRow.inst = NoInst /\ NoRow.verdict = 0
  BY DEF Op, NoRow
<1>4. Operable(op)
  BY Names, OpFacts
<1> HIDE DEF op
<1>5. 0 <= truth /\ NoInst \notin Handlers
  BY DEF Typed, TypeOK, LicenseAssumption, Insts
<1>6. Fair(op)
  BY <1>1, <1>3, <1>5 DEF Fair
<1>7. /\ \A b \in Actors : b # h => job'[b] = job[b]
      /\ Asks(h, job[h])' /\ Writes(h, job[h])' /\ Known(job'[h]) /\ ~Unsaved(job'[h])
      /\ job'[h].prev.inst \in {job[h].prev.inst, NoInst} /\ Lock(h)
  <2>1. CASE \E p \in {"forget", "reread"} : Goto(h, p) /\ UNCHANGED license
    <3>1. PICK p \in {"forget", "reread"} : Goto(h, p) /\ UNCHANGED license
      BY <2>1
    <3>2. p \in PC
      BY DEF PC
    <3>3. /\ \A b \in Actors : b # h => job'[b] = job[b]
          /\ job'[h].pc = p /\ job'[h].role = "deactivate"
          /\ job'[h].verdict = job[h].verdict /\ job'[h].prev = job[h].prev
      BY <1>1, <3>1, <3>2, GotoFacts
    <3>4. ~Unsaved(job'[h])
      BY <3>3 DEF Unsaved, NoJob
    <3> QED
      BY <1>1, <3>1, <3>3, <3>4 DEF Asks, Writes, Known, Lock, Holding
  <2>2. CASE Done(h) /\ license' = Nobody
    <3>1. /\ \A b \in Actors : b # h => job'[b] = job[b]
          /\ job'[h] = Over
      BY <1>1, <2>2, DoneFacts
    <3>2. /\ Over.pc = "over" /\ Over.role = "none" /\ Over.verdict = 0 /\ Over # NoJob
          /\ Over.prev.inst = NoInst /\ Over.prev.verdict = 0
      BY DEF Over, NoJob, NoRow
    <3> HIDE DEF Over
    <3> QED
      BY <1>1, <1>5, <2>2, <3>1, <3>2 DEF Asks, Writes, Known, Lock, Holding, Unsaved
  <2> QED
    BY <1>2, <2>1, <2>2
<1> QED
  BY <1>1, <1>2, <1>3, <1>4, <1>5, <1>6, <1>7, OrderWrite

LEMMA OrderRestore ==
  ASSUME LicenseAssumption, Typed, Order, NEW h \in Handlers, Restore(h)
  PROVE  Order'
<1>1. /\ job[h].pc = "restore" /\ job[h].role = "activate" /\ h \in Actors /\ h # Loop
      /\ job \in [Actors -> Job] /\ job[h] \in Job /\ truth' = truth /\ Bump
      /\ license = h /\ license' = Nobody /\ Known(job[h]) /\ Writes(h, job[h])
      /\ Goto(h, "releaseNew") /\ job[h].new = h /\ h \in Insts
      /\ job[h].prev \in Row /\ RowOK(job[h].prev)
  BY RoleOf, Names DEF Restore, At, Order, Holders, Holding, Early, Unwritten, Late, Ensuring,
     ActivateOK, PlanOK, JobOK
<1> DEFINE op == [op |-> "undo", row |-> job[h].prev, inst |-> job[h].new]
<1>2. Write(op) \/ Refuse \/ Postpone(op)
  BY DEF Restore
<1>3. op.op = "undo" /\ op.row = job[h].prev /\ op.inst = h
  BY <1>1
<1>4. Operable(op)
  BY <1>1 DEF Operable, Operation
<1> HIDE DEF op
<1>5. Fair(op)
  BY <1>1, <1>3 DEF Fair, Known, Writes
<1>6. "releaseNew" \in PC /\ "releaseNew" \notin Holding /\ "releaseNew" \notin Early \cup Unwritten
  BY DEF PC, Holding, Early, Unwritten
<1>7. /\ \A b \in Actors : b # h => job'[b] = job[b]
      /\ job'[h].pc = "releaseNew" /\ job'[h].old = job[h].old /\ job'[h].role = "activate"
      /\ job'[h].verdict = job[h].verdict /\ job'[h].prev = job[h].prev
  BY <1>1, <1>6, GotoFacts
<1>8. Lock(h) /\ ~Unsaved(job'[h])
  BY <1>1, <1>6, <1>7 DEF Lock, Holding, Unsaved, NoJob
<1>9. Asks(h, job[h])' /\ Writes(h, job[h])' /\ Known(job'[h])
  BY <1>1, <1>7, <1>8 DEF Asks, Writes, Known, Ensuring
<1>10. \A g \in Handlers : Unsaved(job[g]) => job[h].prev.inst # g
  BY DEF Order
<1> QED
  BY <1>1, <1>2, <1>3, <1>4, <1>5, <1>7, <1>8, <1>9, <1>10, OrderWrite

LEMMA OrderLand ==
  ASSUME LicenseAssumption, Typed, Order, Land
  PROVE  Order'
<1> DEFINE op == Head(queue)
<1>1. /\ queue \in Seq(Operation) /\ queue # <<>> /\ queue' = Tail(queue)
      /\ UNCHANGED <<job, license>> /\ truth' = truth
      /\ \/ row' = Applied(op) /\ behind' = IF op.op = "import" THEN Asking ELSE behind
         \/ row' = row /\ behind' \in {behind, IF op.op = "import" THEN Asking ELSE behind}
  BY DEF Land, Typed, TypeOK, locks
<1>2. /\ op = queue[1] /\ 1 \in DOMAIN queue /\ queue' \in Seq(Operation)
      /\ Len(queue') = Len(queue) - 1
      /\ \A n \in DOMAIN queue' : n + 1 \in DOMAIN queue /\ queue'[n] = queue[n + 1]
                                  /\ n \in Nat \ {0}
  BY <1>1, HeadTailProperties, LenProperties
<1>3. op \in Operation
  BY <1>1, <1>2
<1> HIDE DEF op
<1>4. QueueOK
  BY DEF Order
<1>5. QueueOK'
  <2>1. row'.verdict <= truth
    BY <1>1, <1>2, <1>3, <1>4, AppliedFacts DEF Typed, QueueOK
  <2>2. \A n \in DOMAIN queue' : n > 1 => queue'[n].op = "import"
    BY <1>2, <1>4 DEF QueueOK
  <2>3. queue' # <<>> => queue'[1].op \in {"import", "undo"}
    <3> SUFFICES ASSUME queue' # <<>> PROVE queue'[1].op \in {"import", "undo"}
      OBVIOUS
    <3>1. 1 \in DOMAIN queue'
      BY <1>2, EmptySeq, LenProperties
    <3>2. 2 \in DOMAIN queue /\ queue'[1] = queue[2]
      BY <1>2, <3>1
    <3> QED
      BY <1>4, <3>2 DEF QueueOK
  <2> QED
    BY <1>1, <1>2, <1>4, <2>1, <2>2, <2>3 DEF QueueOK
<1>6. ASSUME NEW h \in Handlers
      PROVE  Asks(h, job[h])' /\ Writes(h, job[h])' /\ Known(job[h])'
  <2>1. Asks(h, job[h]) /\ Writes(h, job[h]) /\ Known(job[h])
    BY DEF Order
  <2>2. Asks(h, job[h])'
    <3> SUFFICES ASSUME job[h].pc \in {"ask", "commit"}, h \notin behind'
                 PROVE  OnlyImports' /\ (job[h].pc = "commit" => row'.verdict <= job[h].verdict)
      BY <1>1 DEF Asks
    <3>1. h \in Asking
      BY RoleOf DEF Asking
    <3>2. h \notin behind /\ ~(op.op = "import" /\ behind' = Asking)
      BY <1>1, <3>1
    <3>3. OnlyImports /\ (job[h].pc = "commit" => row.verdict <= job[h].verdict)
      BY <2>1, <3>2 DEF Asks
    <3>4. op.op = "import" /\ row' = row
      BY <1>1, <1>2, <3>2, <3>3 DEF OnlyImports
    <3>5. OnlyImports'
      BY <1>2, <3>3 DEF OnlyImports
    <3> QED
      BY <3>3, <3>4, <3>5
  <2>3. Unsaved(job[h]) => Foreign(h)'
    <3> SUFFICES ASSUME Unsaved(job[h]) PROVE Foreign(h)'
      OBVIOUS
    <3>1. Foreign(h) /\ (op.op # "update" => op.row.inst # h)
      BY <1>2, <2>1 DEF Writes, Foreign
    <3>2. row'.inst # h
      BY <1>1, <1>3, <3>1, AppliedFacts DEF Typed, Foreign
    <3> QED
      BY <1>2, <3>1, <3>2 DEF Foreign
  <2>4. Len(queue) = 1 => queue' = <<>>
    BY <1>2, EmptySeq
  <2> QED
    BY <1>1, <2>1, <2>2, <2>3, <2>4 DEF Writes, Known
<1>7. Holders' /\ \A h, g \in Handlers : Unsaved(job'[h]) => job'[g].prev.inst # h
  BY <1>1 DEF Order, Holders
<1> QED
  BY <1>5, <1>6, <1>7 DEF Order, Unsaved

LEMMA OrderImport ==
  ASSUME LicenseAssumption, Typed, Order, NEW backup \in Backups, Import(backup)
  PROVE  Order'
<1> DEFINE op == Op("import", backup)
<1>1. /\ license = Nobody /\ UNCHANGED <<job, license>> /\ truth' = truth
      /\ \/ Write(op) /\ Bump
         \/ Refuse /\ behind' \in {behind, Asking}
         \/ Postpone(op) /\ UNCHANGED behind
  BY DEF Import, locks, rest
<1>2. /\ op.op = "import" /\ op.row = backup /\ op \in Operation /\ backup.verdict = 0
      /\ backup.inst \notin Handlers
  <2>1. backup \in Row /\ RowOK(backup)
    BY FirstRow DEF Backups
  <2>2. backup.verdict = 0 /\ backup.inst \in {NoInst, Original}
    BY DEF Backups, NoRow
  <2>3. op.op = "import" /\ op.row = backup
    BY DEF Op
  <2>4. op \in Operation
    BY <2>1, OpFacts DEF Operable
  <2> QED
    BY <2>2, <2>3, <2>4 DEF LicenseAssumption, Insts
<1>3. queue \in Seq(Operation) /\ 0 <= truth
  BY DEF Typed, TypeOK
<1>4. row' = row \/ (queue = <<>> /\ queue' = <<>> /\ row' = backup /\ behind' = Asking)
  BY <1>1, <1>2 DEF Write, Refuse, Postpone, Bump, Applied
<1>5. /\ queue' = queue \/ (queue' = Append(queue, op) /\ behind' = behind)
      /\ behind' \in {behind, Asking}
  BY <1>1 DEF Write, Refuse, Postpone, Bump
<1> HIDE DEF op
<1>6. /\ \A n \in DOMAIN queue' : queue'[n] = op \/ (n \in DOMAIN queue /\ queue'[n] = queue[n])
      /\ queue' # <<>> => queue'[1] = op \/ (queue # <<>> /\ queue'[1] = queue[1])
  <2>1. CASE queue' = queue
    BY <2>1
  <2>2. CASE queue' = Append(queue, op)
    <3>1. /\ queue' \in Seq(Operation) /\ Len(queue') = Len(queue) + 1
          /\ \A n \in 1 .. Len(queue) : queue'[n] = queue[n]
          /\ queue'[Len(queue) + 1] = op
      BY <1>2, <1>3, <2>2, AppendProperties
    <3>2. DOMAIN queue' = 1 .. Len(queue) + 1 /\ DOMAIN queue = 1 .. Len(queue)
      BY <1>3, <3>1, LenProperties
    <3>3. Len(queue) \in Nat /\ (Len(queue) = 0 <=> queue = <<>>)
      BY <1>3, EmptySeq, LenProperties
    <3> QED
      BY <3>1, <3>2, <3>3
  <2> QED
    BY <1>5, <2>1, <2>2
<1>7. QueueOK'
  <2>1. QueueOK
    BY DEF Order
  <2>2. row'.verdict <= truth
    BY <1>2, <1>3, <1>4, <2>1 DEF QueueOK
  <2>3. queue # <<>> => row' = row
    BY <1>4
  <2>4. \A n \in DOMAIN queue' : n > 1 => queue'[n].op = "import"
          \/ (n = 2 /\ queue'[n].op = "undo" /\ queue'[1].op = "save")
    <3> SUFFICES ASSUME NEW n \in DOMAIN queue', n > 1, queue'[n].op # "import"
                 PROVE  n = 2 /\ queue'[n].op = "undo" /\ queue'[1].op = "save"
      OBVIOUS
    <3>1. n \in DOMAIN queue /\ queue'[n] = queue[n]
      BY <1>2, <1>6
    <3>2. n = 2 /\ queue[n].op = "undo" /\ queue[1].op = "save"
      BY <2>1, <3>1 DEF QueueOK
    <3>3. queue'[1] = queue[1]
      <4>1. CASE queue' = queue
        BY <4>1
      <4>2. CASE queue' = Append(queue, op)
        <5>1. 1 \in 1 .. Len(queue)
          BY <1>3, <3>1, <3>2, LenProperties
        <5> QED
          BY <1>2, <1>3, <4>2, <5>1, AppendProperties
      <4> QED
        BY <1>5, <4>1, <4>2
    <3> QED
      BY <3>1, <3>2, <3>3
  <2> QED
    BY <1>1, <1>2, <1>3, <1>6, <2>1, <2>2, <2>3, <2>4 DEF QueueOK
<1>8. ASSUME NEW h \in Handlers
      PROVE  Asks(h, job[h])' /\ Writes(h, job[h])' /\ Known(job[h])'
  <2>1. Asks(h, job[h]) /\ Writes(h, job[h]) /\ Known(job[h]) /\ h # Nobody
    BY DEF Order, LicenseAssumption, Actors
  <2>2. job[h].pc \notin Holding
    BY <1>1, <2>1 DEF Order, Holders
  <2>3. Asks(h, job[h])'
    <3> SUFFICES ASSUME job[h].pc \in {"ask", "commit"}, h \notin behind'
                 PROVE  OnlyImports' /\ (job[h].pc = "commit" => row'.verdict <= job[h].verdict)
      BY <1>1 DEF Asks
    <3>1. h \in Asking
      BY RoleOf DEF Asking
    <3>2. h \notin behind /\ row' = row
      BY <1>4, <1>5, <3>1
    <3>3. OnlyImports /\ (job[h].pc = "commit" => row.verdict <= job[h].verdict)
      BY <2>1, <3>2 DEF Asks
    <3> QED
      BY <1>2, <1>6, <3>2, <3>3 DEF OnlyImports
  <2>4. Unsaved(job[h]) => Foreign(h)'
    BY <1>2, <1>4, <1>6, <2>1 DEF Writes, Foreign
  <2> QED
    BY <1>1, <2>1, <2>2, <2>3, <2>4 DEF Writes, Known, Holding
<1>9. Holders' /\ \A h, g \in Handlers : Unsaved(job'[h]) => job'[g].prev.inst # h
  BY <1>1 DEF Order, Holders
<1> QED
  BY <1>7, <1>8, <1>9 DEF Order, Unsaved

LEMMA OrderTurn ==
  ASSUME LicenseAssumption, Typed, Order, Turn
  PROVE  Order'
<1>1. UNCHANGED <<row, queue, behind, job, license>> /\ truth' = truth + 1
  BY DEF Turn, local, locks
<1>2. /\ truth \in Nat /\ row.verdict \in Nat
      /\ \A n \in DOMAIN queue : queue[n].row.verdict \in Nat
      /\ \A h \in Handlers : job[h].verdict \in Nat /\ job[h].prev.verdict \in Nat
  <2>4. \A r \in Row : r.verdict \in Nat
    BY DEF Row
  <2>1. truth \in Nat /\ row.verdict \in Nat
    BY <2>4 DEF Typed, TypeOK
  <2>2. \A n \in DOMAIN queue : queue[n].row.verdict \in Nat
    <3>1. \A n \in DOMAIN queue : queue[n] \in Operation
      BY DEF Typed, TypeOK
    <3>2. \A op \in Operation : op.row \in Row
      BY DEF Operation
    <3> QED
      BY <2>4, <3>1, <3>2
  <2>3. ASSUME NEW h \in Handlers
        PROVE  job[h].verdict \in Nat /\ job[h].prev.verdict \in Nat
    <3>1. job[h].verdict \in 0 .. MaxTruth /\ job[h].prev \in Row
      BY RoleOf
    <3> QED
      BY <2>4, <3>1
  <2> QED
    BY <2>1, <2>2, <2>3
<1>3. QueueOK'
  BY <1>1, <1>2 DEF Order, QueueOK
<1>4. ASSUME NEW h \in Handlers
      PROVE  Asks(h, job[h])' /\ Writes(h, job[h])' /\ Known(job[h])'
  BY <1>1, <1>2 DEF Order, Asks, Writes, Known, OnlyImports, Foreign
<1>5. Holders' /\ \A h, g \in Handlers : Unsaved(job'[h]) => job'[g].prev.inst # h
  BY <1>1 DEF Order, Holders
<1> QED
  BY <1>3, <1>4, <1>5 DEF Order, Unsaved

LEMMA OrderStutter ==
  ASSUME LicenseAssumption, Typed, Order, UNCHANGED vars
  PROVE  Order'
<1>1. UNCHANGED <<row, queue, behind, job, license, truth>>
  BY DEF vars, local, locks, rest
<1> QED
  BY <1>1 DEF Order, Holders, QueueOK, Asks, Writes, Known, OnlyImports, Foreign, Unsaved

LEMMA OrderInit == ASSUME LicenseAssumption, Init PROVE Order
<1>1. /\ queue = <<>> /\ license = Nobody /\ truth = 0
      /\ \A a \in Actors : job[a] = NoJob
      /\ row \in {NoRow, [inst |-> Original, verdict |-> 0, ok |-> TRUE]}
  BY DEF Init
<1>2. row.verdict = 0 /\ row.inst \notin Handlers
  BY <1>1 DEF NoRow, LicenseAssumption, Insts
<1>3. /\ NoJob.pc = "idle" /\ NoJob.role = "none" /\ NoJob.verdict = 0
      /\ NoJob.prev.inst = NoInst /\ NoJob.prev.verdict = 0
  BY DEF NoJob, NoRow
<1>4. \A h \in Handlers : job[h] = NoJob /\ h # Nobody /\ h # NoInst
  BY <1>1 DEF LicenseAssumption, Actors, Insts
<1> QED
  BY <1>1, <1>2, <1>3, <1>4
  DEF Order, Holders, Holding, QueueOK, Asks, Writes, Known, Foreign

LEMMA OrderNext == ASSUME LicenseAssumption, Typed, Order, [Next]_vars PROVE Order'
<1>1. CASE UNCHANGED vars
  BY <1>1, OrderStutter
<1>2. ASSUME NEW h \in Handlers, Handler(h) PROVE Order'
  <2>1. CASE \/ \E role \in Roles, k \in Keys : Start(h, role, k)
             \/ Capture(h) \/ Load(h) \/ Ask(h) \/ Commit(h)
             \/ Plan(h) \/ Confirm(h) \/ Mint(h) \/ Teardown(h) \/ Stray(h)
    BY <2>1, OrderStart, OrderCapture, OrderLoad, OrderAsk, OrderCommit, OrderPlan,
       OrderConfirm, OrderMint, OrderTeardown, OrderStray
  <2>2. CASE \/ Persist(h) \/ Save(h) \/ Rekey(h) \/ Restore(h) \/ Sweep(h)
             \/ FindKey(h) \/ Unlink(h) \/ Clear(h) \/ Forget(h) \/ Reread(h)
    BY <2>2, OrderPersist, OrderSave, OrderRekey, OrderRestore, OrderSweep, OrderFindKey,
       OrderUnlink, OrderClear, OrderForget, OrderReread
  <2>3. CASE Tombstone(h) \/ Credential(h) \/ Released(h) \/ Recorded(h)
    BY <2>3, OrderTombstone, OrderCredential, OrderHandle
  <2> QED
    BY <1>2, <2>1, <2>2, <2>3 DEF Handler
<1>3. CASE Refresh
  BY <1>3, OrderRefresh, OrderAdopt DEF Refresh
<1>4. ASSUME NEW a \in Actors, Ensure(a) \/ Check(a) \/ Issue(a) PROVE Order'
  BY <1>4, OrderEnsure
<1>5. CASE Land \/ Turn \/ \E backup \in Backups : Import(backup)
  BY <1>5, OrderLand, OrderTurn, OrderImport
<1> QED
  BY <1>1, <1>2, <1>3, <1>4, <1>5 DEF Next

-----------------------------------------------------------------------------
(* What the row says of an installation does not grow older.               *)

LEMMA Advances ==
  ASSUME LicenseAssumption, Typed, Order, [Next]_vars
  PROVE  row # NoRow /\ row'.inst = row.inst /\ ~Restores => row'.verdict >= row.verdict
<1> SUFFICES ASSUME row # NoRow, row'.inst = row.inst, ~Restores
             PROVE  row'.verdict >= row.verdict
  OBVIOUS
<1>1. row.verdict \in Nat /\ row.inst # NoInst
  <2>1. \A r \in Row : r.verdict \in Nat
    BY DEF Row
  <2> QED
    BY <2>1 DEF Typed, TypeOK, Rows, RowOK
<1>2. ASSUME NEW op, op \in Operation, op.op # "import", Fair(op) \/ op = Head(queue),
             queue # <<>> \/ Fair(op), row' \in {row, Applied(op)}
      PROVE  row'.verdict >= row.verdict
  <2>1. /\ op.op = "undo" => op.row.inst # op.inst
        /\ op.op = "save" => op.row = row \/ op.row.inst # row.inst
        /\ op.op = "update" => row.verdict <= op.row.verdict
        /\ op.op = "clear" => op.row = NoRow
    <3>1. CASE Fair(op)
      BY <3>1 DEF Fair
    <3>2. CASE queue # <<>> /\ op = Head(queue)
      <4>1. op = queue[1] /\ 1 \in DOMAIN queue
        BY <3>2, HeadTailProperties DEF Typed, TypeOK
      <4> QED
        BY <3>2, <4>1 DEF Order, QueueOK
    <3> QED
      BY <1>2, <3>1, <3>2
  <2>2. NoRow.inst = NoInst
    BY DEF NoRow
  <2>3. op.op \in {"update", "save", "clear", "undo", "import"}
    BY <1>2 DEF Operation
  <2> QED
    BY <1>1, <1>2, <2>1, <2>2, <2>3, AppliedFacts DEF Typed
<1>3. CASE row' = row
  BY <1>1, <1>3
<1>4. CASE Land
  <2> DEFINE op == Head(queue)
  <2>1. queue # <<>> /\ queue' = Tail(queue) /\ row' \in {row, Applied(op)}
    BY <1>4 DEF Land
  <2>2. op \in Operation
    BY <2>1, HeadTailProperties DEF Typed, TypeOK
  <2>3. op.op # "import"
    BY <2>1 DEF Restores
  <2> QED
    BY <1>2, <2>1, <2>2, <2>3
<1>5. ASSUME NEW h \in Handlers, Commit(h), row' # row PROVE row'.verdict >= row.verdict
  <2> DEFINE r == [inst |-> job[h].old, verdict |-> job[h].verdict, ok |-> job[h].ok]
             op == Op("update", r)
  <2>1. queue = <<>> /\ IsCurrent(h) /\ row' = Applied(op) /\ job[h].pc = "commit"
    BY <1>5 DEF Commit, Write, Refuse, Postpone, local, At
  <2>2. /\ job[h].old \in Insts /\ job[h].verdict \in 0 .. MaxTruth /\ job[h].ok \in BOOLEAN
        /\ job[h].verdict <= truth
    BY <2>1, RoleOf DEF ValidateOK, Order, Known
  <2>3. r \in Row /\ RowOK(r)
    BY <2>2 DEF Row, RowOK, LicenseAssumption
  <2>4. op \in Operation
    <3> HIDE DEF r
    <3> QED
      BY <2>3, OpFacts DEF Operable
  <2>5. op.op = "update" /\ op.row.verdict = job[h].verdict
    BY DEF Op
  <2>6. row.verdict <= job[h].verdict
    BY <2>1 DEF Order, Asks, IsCurrent
  <2> HIDE DEF op
  <2>7. Fair(op)
    BY <2>1, <2>2, <2>5, <2>6 DEF Fair
  <2> QED
    BY <1>2, <2>1, <2>4, <2>5, <2>7
<1>6. ASSUME NEW h \in Handlers, Save(h) PROVE row'.verdict >= row.verdict
  <2>1. job[h].pc = "save" /\ job[h].role = "activate" /\ job[h].new = h
    BY <1>6, RoleOf DEF Save, At, Early, Unwritten, Late, Ensuring, ActivateOK, PlanOK
  <2>2. row.inst # h
    BY <2>1 DEF Order, Writes, Unsaved, Unwritten, Foreign
  <2>3. row' = row \/ row'.inst = h
    BY <1>6, <2>1 DEF Save, Write, Refuse, Postpone, Applied, Op
  <2> QED
    BY <1>1, <2>2, <2>3
<1>7. ASSUME NEW h \in Handlers, Clear(h) PROVE row'.verdict >= row.verdict
  <2>1. row' = row \/ row' = NoRow
    BY <1>7 DEF Clear, Write, Refuse, Postpone, Applied, Op
  <2> QED
    BY <1>1, <2>1 DEF NoRow
<1>8. ASSUME NEW h \in Handlers, Restore(h) PROVE row'.verdict >= row.verdict
  <2>1. job[h].pc = "restore" /\ job[h].role = "activate" /\ job[h].new = h
    BY <1>8, RoleOf DEF Restore, At, Early, Unwritten, Late, Ensuring, ActivateOK, PlanOK
  <2>2. job[h].prev.inst # h
    BY <2>1 DEF Order, Writes
  <2>3. row' = row \/ (row.inst = h /\ row' = job[h].prev)
    BY <1>8, <2>1 DEF Restore, Write, Refuse, Postpone, Applied
  <2> QED
    BY <1>1, <2>2, <2>3
<1>9. CASE Adopt
  <2>1. row' = row
    BY <1>9 DEF Adopt, Write, Refuse, Postpone, Applied, Op, local
  <2> QED
    BY <1>1, <2>1
<1>10. ASSUME NEW backup \in Backups, Import(backup) PROVE FALSE
  BY <1>10 DEF Import, Restores, Typed, TypeOK
<1>11. ASSUME NEW h \in Handlers, Handler(h) PROVE row'.verdict >= row.verdict
  <2>1. CASE Commit(h) \/ Save(h) \/ Clear(h) \/ Restore(h)
    BY <2>1, <1>3, <1>5, <1>6, <1>7, <1>8
  <2>2. CASE \/ \E role \in Roles, k \in Keys : Start(h, role, k)
             \/ Capture(h) \/ Load(h) \/ Ask(h) \/ Plan(h) \/ Confirm(h) \/ Mint(h)
             \/ Teardown(h) \/ Stray(h) \/ Persist(h) \/ Rekey(h) \/ Sweep(h)
    <3>1. row' = row
      BY ONLY <2>2, Zenon
      DEF Start, Capture, Load, Ask, Plan, Confirm, Mint, Teardown, Stray, Persist,
         Rekey, Sweep, ReleaseCredential, local
    <3> QED
      BY <1>3, <3>1
  <2>3. CASE \/ FindKey(h) \/ Unlink(h) \/ Forget(h) \/ Reread(h) \/ Tombstone(h)
             \/ Credential(h) \/ Released(h) \/ Recorded(h)
    <3>1. row' = row
      BY <2>3 DEF FindKey, Unlink, Forget, Reread, Tombstone, Credential, Released, Recorded,
         ReleaseCredential, local
    <3> QED
      BY <1>3, <3>1
  <2> QED
    BY <1>11, <2>1, <2>2, <2>3 DEF Handler
<1>12. CASE Refresh
  <2>1. Adopt \/ row' = row
    BY <1>12 DEF Refresh, Tick, Retry, Settle, Look, FindToken, Fetch, Reject, local
  <2> QED
    BY <1>3, <1>9, <2>1
<1>13. ASSUME NEW a \in Actors, Ensure(a) \/ Check(a) \/ Issue(a) PROVE row' = row
  BY <1>13 DEF Ensure, Check, Issue, local
<1>14. CASE Turn \/ UNCHANGED vars
  <2>1. row' = row
    BY <1>14 DEF Turn, vars, local
  <2> QED
    BY <1>3, <2>1
<1> QED
  BY <1>3, <1>4, <1>10, <1>11, <1>12, <1>13, <1>14 DEF Next

\* What the row says of an installation never goes back to an older state of
\* the subscription, for any number of commands and failures: a current answer
\* was asked for after the row was last written, and nothing else is queued.
THEOREM VerdictsDoAdvance == LicenseAssumption /\ Spec => VerdictsAdvance
<1> SUFFICES ASSUME LicenseAssumption PROVE Spec => VerdictsAdvance
  OBVIOUS
<1>1. Init => Typed /\ Order
  BY InitTypes, OrderInit
<1>2. Typed /\ Order /\ [Next]_vars => (Typed /\ Order)'
  BY NextTypes, OrderNext
<1>3. Typed /\ Order /\ [Next]_vars =>
        [row # NoRow /\ row'.inst = row.inst /\ ~Restores
           => row'.verdict >= row.verdict]_vars
  BY Advances
<1> QED
  BY <1>1, <1>2, <1>3, PTL DEF Spec, VerdictsAdvance

-----------------------------------------------------------------------------
(* The invariant, third part: the key in the keychain and the row.         *)

\* No backup was imported and what was written could be put back.
Works == imports = 0 /\ ~torn

\* The key is the one the row's installation was minted with; without one
\* nobody here can release what the row stands for.
Fits(r, k) ==
    r # NoRow => IF k = NoKey THEN {r.inst} \X Sides \subseteq stranded
                              ELSE keyOf[r.inst] = k

Writing(j) == j.pc \in {"save", "rekey", "restore"}

\* An undo of the save of this installation waits for the worker.
Undone(i) == \E n \in DOMAIN queue : queue[n].op = "undo" /\ queue[n].inst = i

Minting(h, j) ==
    j.role = "activate" /\ j.pc \notin Early /\ j.plan # "active" => keyOf[h] = j.key

KeyJob(h, j) ==
    /\ j.pc \in {"save", "rekey"} => key = j.key
    /\ j.pc = "restore" => key = j.oldKey
    /\ Writing(j) => Fits(j.prev, j.oldKey) /\ j.prev.inst = j.old
    /\ j.pc \in {"rekey", "restore"} =>
         /\ queue = <<>> => row = j.prev \/ row.inst = h
         /\ queue # <<>> => queue[1].row.inst = h /\ row = j.prev
    /\ j.pc = "forget" => queue = <<>> /\ row = NoRow

\* A save that timed out is of a command that is about to undo it, or its undo
\* is queued behind it, or it writes the row that is there.
SaveOK ==
    queue # <<>> /\ queue[1].op = "save" /\ queue[1].row # row =>
        \/ \E h \in Handlers : job[h].pc \in {"rekey", "restore"}
        \/ Len(queue) = 2 /\ queue[2].op = "undo" /\ queue[2].inst = queue[1].row.inst

Settled == \A h \in Handlers : ~Writing(job[h])

FitsOK ==
    /\ \A n \in DOMAIN queue : queue[n].op = "undo" => Fits(queue[n].row, key)
    /\ Fits(row, key) \/ Undone(row.inst)

Fitting ==
    /\ \A h \in Handlers : KeyJob(h, job[h])
    /\ \A n \in DOMAIN queue : queue[n].op # "import"
    /\ SaveOK /\ (Settled => FitsOK)

KeyInv == (\A h \in Handlers : Minting(h, job[h])) /\ (Works => Fitting)

\* While nothing is written that concerns them.
Apart(a) ==
    /\ \A b \in Actors : b # a => job'[b] = job[b]
    /\ UNCHANGED <<row, queue, key, torn, imports>> /\ stranded \subseteq stranded'

\* Only an installation that nothing names yet gets another key.
KeysStay == \A i \in Insts : keyOf'[i] = keyOf[i] \/ (i \in Handlers /\ Unsaved(job[i]))

LEMMA QueueRows ==
  ASSUME LicenseAssumption, Typed, NEW n \in DOMAIN queue
  PROVE  queue[n] \in Operation /\ queue[n].row \in Row /\ RowOK(queue[n].row)
<1>1. queue[n] \in Operation
  BY DEF Typed, TypeOK
<1> QED
  BY <1>1 DEF Operation, Typed, Rows

LEMMA FitsStays ==
  ASSUME LicenseAssumption, Typed, KeysStay, stranded \subseteq stranded',
         NEW r \in Row, RowOK(r), NEW k, Fits(r, k),
         \A h \in Handlers : Unsaved(job[h]) => r.inst # h
  PROVE  Fits(r, k)'
<1>1. r # NoRow => r.inst \in Insts
  BY DEF Row, RowOK
<1> QED
  BY <1>1 DEF Fits, KeysStay

LEMMA KeyQuiet ==
  ASSUME LicenseAssumption, Typed, Order, KeyInv, NEW a \in Actors, Apart(a), KeysStay,
         \A h \in Handlers : h # a => keyOf'[h] = keyOf[h],
         a \in Handlers =>
           /\ Minting(a, job[a])'
           /\ ~Writing(job[a]) /\ job[a].pc # "forget"
           /\ ~Writing(job'[a]) /\ job'[a].pc # "forget"
  PROVE  KeyInv'
<1>1. \A h \in Handlers : h \in Actors
  BY DEF Actors
<1>2. ASSUME NEW h \in Handlers PROVE Minting(h, job[h])'
  BY <1>1 DEF KeyInv, Minting, Apart
<1>3. ASSUME Works' PROVE Fitting'
  <2>1. Works /\ Fitting
    BY <1>3 DEF Works, Apart, KeyInv
  <2>2. ASSUME NEW h \in Handlers PROVE KeyJob(h, job[h])'
    <3>1. CASE h = a
      BY <3>1 DEF KeyJob, Writing
    <3>2. CASE h # a
      <4>1. job'[h] = job[h] /\ KeyJob(h, job[h])
        BY <1>1, <2>1, <3>2 DEF Apart, Fitting
      <4>2. Writing(job[h]) => Fits(job[h].prev, job[h].oldKey)'
        <5> SUFFICES ASSUME Writing(job[h]) PROVE Fits(job[h].prev, job[h].oldKey)'
          OBVIOUS
        <5>1. job[h].prev \in Row /\ RowOK(job[h].prev)
          BY RoleOf DEF JobOK
        <5>2. \A g \in Handlers : Unsaved(job[g]) => job[h].prev.inst # g
          BY DEF Order
        <5>3. Fits(job[h].prev, job[h].oldKey)
          BY <4>1 DEF KeyJob
        <5> QED
          BY <4>1, <5>1, <5>2, <5>3, FitsStays DEF Apart
      <4> QED
        BY <4>1, <4>2 DEF KeyJob, Apart, Writing
    <3> QED
      BY <3>1, <3>2
  <2>3. SaveOK'
    BY <1>1, <2>1 DEF Fitting, SaveOK, Apart, Writing
  <2>4. Settled' => FitsOK'
    <3> SUFFICES ASSUME Settled' PROVE FitsOK'
      OBVIOUS
    <3>1. Settled
      BY <1>1 DEF Settled, Apart, Writing
    <3>2. FitsOK
      BY <2>1, <3>1 DEF Fitting
    <3>3. \A h \in Handlers : Unsaved(job[h]) => Foreign(h)
      BY DEF Order, Writes
    <3>4. Fits(row, key) => Fits(row, key)'
      <4>1. row \in Row /\ RowOK(row)
        BY DEF Typed, TypeOK, Rows
      <4> QED
        BY <3>3, <4>1, FitsStays DEF Foreign, Apart, Fits
    <3>5. ASSUME NEW n \in DOMAIN queue, queue[n].op = "undo"
          PROVE  Fits(queue[n].row, key)'
      <4>1. queue[n].row \in Row /\ RowOK(queue[n].row)
        BY QueueRows
      <4>2. Fits(queue[n].row, key) /\ \A h \in Handlers : Unsaved(job[h]) => queue[n].row.inst # h
        BY <3>2, <3>3, <3>5 DEF FitsOK, Foreign
      <4> QED
        BY <4>1, <4>2, FitsStays DEF Apart, Fits
    <3> QED
      BY <3>2, <3>4, <3>5 DEF FitsOK, Undone, Apart
  <2> QED
    BY <2>1, <2>2, <2>3, <2>4 DEF Fitting, Apart
<1> QED
  BY <1>2, <1>3 DEF KeyInv

\* The same of a command that is over or goes on.
Rewriting == Holding \ {"clear", "reread", "tombstone"}

LEMMA KeyDone ==
  ASSUME LicenseAssumption, Typed, Order, KeyInv, NEW a \in Actors, Done(a),
         UNCHANGED <<row, queue, key, torn, imports, keyOf>>, stranded \subseteq stranded',
         job[a].pc \notin Rewriting
  PROVE  KeyInv'
<1>1. /\ \A b \in Actors : b # a => job'[b] = job[b]
      /\ a \in Handlers => job'[a] = Over
  BY DoneFacts DEF Typed, TypeOK, LicenseAssumption
<1>2. Over.pc = "over" /\ Over.role = "none"
  BY DEF Over, NoJob
<1> HIDE DEF Over
<1>3. Apart(a) /\ KeysStay
  BY <1>1 DEF Apart, KeysStay
<1> QED
  BY <1>1, <1>2, <1>3, KeyQuiet DEF Rewriting, Holding, Writing, Minting

LEMMA KeyGoto ==
  ASSUME LicenseAssumption, Typed, Order, KeyInv, NEW h \in Handlers, NEW p \in Plain,
         Goto(h, p), p # "forget", job[h].pc \notin Rewriting,
         job[h].role = "activate" /\ job[h].pc \in Early => p \in Early,
         UNCHANGED <<row, queue, key, torn, imports, keyOf>>, stranded \subseteq stranded'
  PROVE  KeyInv'
<1>1. p \in PC /\ h \in Actors /\ p \notin Rewriting
  BY RoleOf DEF Plain, PC, Releasing, Recording, Rewriting, Holding
<1>2. /\ \A b \in Actors : b # h => job'[b] = job[b]
      /\ job'[h].pc = p /\ job'[h].role = job[h].role /\ job'[h].key = job[h].key
      /\ job'[h].plan = job[h].plan
  BY <1>1, HandlerGoto
<1>3. Apart(h) /\ KeysStay
  BY <1>2 DEF Apart, KeysStay
<1>4. Minting(h, job[h])'
  BY <1>2 DEF KeyInv, Minting
<1> QED
  BY <1>1, <1>2, <1>3, <1>4, KeyQuiet DEF Rewriting, Holding, Writing

LEMMA KeyStart ==
  ASSUME LicenseAssumption, Typed, Order, KeyInv, NEW h \in Handlers, NEW role \in Roles,
         NEW k \in Keys, Start(h, role, k)
  PROVE  KeyInv'
<1>1. job[h] = NoJob /\ job \in [Actors -> Job] /\ h \in Actors /\ h # Loop
  BY RoleOf DEF Start, At
<1>2. /\ job'[h] = [NoJob EXCEPT !.role = role, !.key = k,
                       !.pc = IF role = "validate" THEN "capture" ELSE "load"]
      /\ \A b \in Actors : b # h => job'[b] = job[b]
  BY <1>1 DEF Start, NoJob
<1>3. job'[h].pc \in {"capture", "load"} /\ job[h].pc = "idle"
      /\ (job'[h].pc = "capture" => job'[h].role # "activate")
  BY <1>1, <1>2 DEF NoJob
<1>4. Apart(h) /\ KeysStay
  BY <1>2 DEF Start, Apart, KeysStay, local, ring, remote, rest
<1>5. Minting(h, job[h])'
  BY <1>3 DEF Minting, Early
<1> QED
  BY <1>1, <1>3, <1>4, <1>5, KeyQuiet DEF Writing, Start, remote

LEMMA KeyReads ==
  ASSUME LicenseAssumption, Typed, Order, KeyInv, NEW h \in Handlers,
         Capture(h) \/ Load(h) \/ Ask(h) \/ FindKey(h)
  PROVE  KeyInv'
<1>1. /\ UNCHANGED <<row, queue, key, torn, imports, keyOf, stranded>>
      /\ job[h].pc \in {"capture", "load", "ask", "plan"} /\ job \in [Actors -> Job]
      /\ h \in Actors /\ h # Loop /\ job[h] \in Job
      /\ job[h].pc \in {"capture", "ask"} => job[h].role = "validate"
      /\ FindKey(h) => job[h].role = "deactivate"
  BY RoleOf DEF Capture, Load, Ask, FindKey, local, ring, remote, rest, At
<1>2. job[h].pc \notin Rewriting
  BY <1>1 DEF Rewriting, Holding
<1>3. CASE Done(h)
  BY <1>1, <1>2, <1>3, KeyDone
<1>4. CASE ~Done(h)
  <2>1. /\ \A b \in Actors : b # h => job'[b] = job[b]
        /\ job'[h].pc \in {"load", "ask", "plan", "commit", "recheck"}
        /\ job'[h].role = "activate" => job'[h].pc \in {"load", "plan"}
    <3>1. CASE Capture(h)
      <4>1. Goto(h, "load") /\ "load" \in PC
        BY <3>1 DEF Capture, PC
      <4> QED
        BY <1>1, <4>1, GotoFacts
    <3>2. CASE Load(h)
      <4>1. job' = [job EXCEPT ![h].old = row.inst, ![h].ok = row.ok,
               ![h].pc = IF job[h].role = "validate" THEN "ask" ELSE "plan"]
        BY <1>4, <3>2 DEF Load
      <4> QED
        BY <1>1, <4>1 DEF Job
    <3>3. CASE Ask(h)
      <4> DEFINE ok == Active /\ job[h].old \in seats /\ keyOf[job[h].old] = key
      <4>1. job' = [job EXCEPT ![h].pc = "commit", ![h].verdict = truth, ![h].ok = ok]
            /\ job[h].role = "validate"
        BY <1>1, <1>4, <3>3 DEF Ask, At
      <4> HIDE DEF ok
      <4> QED
        BY <1>1, <4>1 DEF Job
    <3>4. CASE FindKey(h)
      <4>1. job' = [job EXCEPT ![h].key = key, ![h].pc = "recheck"]
        BY <3>4 DEF FindKey
      <4> QED
        BY <1>1, <3>4, <4>1 DEF Job
    <3> QED
      BY <3>1, <3>2, <3>3, <3>4
  <2>2. Apart(h) /\ KeysStay
    BY <1>1, <2>1 DEF Apart, KeysStay
  <2>3. Minting(h, job[h])'
    BY <2>1 DEF Minting, Early
  <2> QED
    BY <1>1, <1>2, <2>1, <2>2, <2>3, KeyQuiet DEF Rewriting, Holding, Writing
<1> QED
  BY <1>3, <1>4

LEMMA KeyPlan ==
  ASSUME LicenseAssumption, Typed, Order, KeyInv, NEW h \in Handlers, Plan(h)
  PROVE  KeyInv'
<1>1. /\ job[h].pc = "plan" /\ job[h].role = "activate" /\ h \in Actors /\ h # Loop
      /\ job \in [Actors -> Job] /\ job[h] \in Job
      /\ UNCHANGED <<row, queue, key, torn, imports, keyOf, stranded>>
  BY RoleOf DEF Plan, At, local, ring, remote, rest
<1>2. PICK plan \in {"active", "teardown", "fresh"}, p \in {"ensure", "recheck", "mint"} :
        /\ job' = [job EXCEPT ![h].plan = plan, ![h].oldKey = key, ![h].pc = p]
        /\ p = "ensure" => plan = "active"
  BY DEF Plan
<1>3. /\ \A b \in Actors : b # h => job'[b] = job[b]
      /\ job'[h].pc = p /\ job'[h].plan = plan
  BY <1>1, <1>2 DEF Job
<1>4. Apart(h) /\ KeysStay
  BY <1>1, <1>3 DEF Apart, KeysStay
<1>5. Minting(h, job[h])'
  BY <1>2, <1>3 DEF Minting, Early
<1> QED
  BY <1>1, <1>3, <1>4, <1>5, KeyQuiet DEF Writing

LEMMA KeyConfirm ==
  ASSUME LicenseAssumption, Typed, Order, KeyInv, NEW h \in Handlers,
         Confirm(h)
  PROVE  KeyInv'
<1>1. /\ UNCHANGED <<row, queue, key, torn, imports, keyOf, stranded>>
      /\ job[h].pc = "recheck" /\ h \in Actors
      /\ "mint" \in Plain /\ "mint" \in Early /\ "recheck" \notin Rewriting
      /\ Done(h) \/ Goto(h, "mint")
  BY RoleOf DEF Confirm, local, ring, remote, rest, At, Plain, Early, Rewriting, Holding
<1> QED
  BY <1>1, KeyDone, KeyGoto

LEMMA KeyUnlink ==
  ASSUME LicenseAssumption, Typed, Order, KeyInv, NEW h \in Handlers, Unlink(h)
  PROVE  KeyInv'
<1>1. /\ UNCHANGED <<row, queue, key, torn, imports, keyOf, stranded>>
      /\ job[h].pc = "recheck" /\ job[h].role = "deactivate" /\ h \in Actors /\ h # Loop
      /\ job \in [Actors -> Job] /\ "clear" \in PC
      /\ "recheck" \notin Rewriting /\ (Done(h) \/ Goto(h, "clear"))
  BY RoleOf DEF Unlink, local, ring, remote, rest, At, Rewriting, Holding, PC
<1>2. CASE Done(h)
  BY <1>1, <1>2, KeyDone
<1>3. CASE Goto(h, "clear")
  <2>1. /\ \A b \in Actors : b # h => job'[b] = job[b]
        /\ job'[h].pc = "clear" /\ job'[h].role = "deactivate"
    BY <1>1, <1>3, GotoFacts
  <2>2. Apart(h) /\ KeysStay /\ Minting(h, job[h])'
    BY <1>1, <2>1 DEF Apart, KeysStay, Minting
  <2> QED
    BY <1>1, <2>1, <2>2, KeyQuiet DEF Writing
<1> QED
  BY <1>1, <1>2, <1>3

LEMMA KeyMint ==
  ASSUME LicenseAssumption, Typed, Order, KeyInv, NEW h \in Handlers, Mint(h)
  PROVE  KeyInv'
<1>1. /\ job[h].pc \in {"mint", "remint"} /\ job[h].role = "activate" /\ h \in Insts
      /\ h \in Actors /\ h # Loop /\ job \in [Actors -> Job] /\ job[h] \in Job
      /\ UNCHANGED <<row, queue, key, torn, imports>> /\ stranded \subseteq stranded'
      /\ Unsaved(job[h]) /\ keyOf \in [Insts -> Keys \cup {NoKey}]
  BY RoleOf, Names DEF Mint, At, local, ring, rest, Early, Unwritten, Late, Ensuring, Unsaved,
     Typed, TypeOK
<1>2. keyOf' = keyOf \/ keyOf' = [keyOf EXCEPT ![h] = job[h].key]
  BY DEF Mint, Minted
<1>3. /\ \A g \in Handlers : g # h => keyOf'[g] = keyOf[g]
      /\ KeysStay
  BY <1>1, <1>2, Names DEF KeysStay
<1>4. CASE Done(h)
  <2>1. job'[h] = Over /\ \A b \in Actors : b # h => job'[b] = job[b]
    BY <1>1, <1>4, DoneFacts
  <2>2. Over.pc = "over" /\ Over.role = "none"
    BY DEF Over, NoJob
  <2> HIDE DEF Over
  <2>3. Apart(h) /\ Minting(h, job[h])'
    BY <1>1, <2>1, <2>2 DEF Apart, Minting
  <2> QED
    BY <1>1, <1>3, <2>1, <2>2, <2>3, KeyQuiet DEF Writing
<1>5. CASE ~Done(h)
  <2>1. /\ \A b \in Actors : b # h => job'[b] = job[b]
        /\ job'[h].pc \in {"teardown", "releaseNew", "releaseOwn"}
        /\ job'[h].key = job[h].key
        /\ job'[h].pc # "releaseOwn" => keyOf'[h] = job[h].key
    <3>1. CASE /\ \E p \in {"teardown", "releaseNew"} :
                     job' = [job EXCEPT ![h].new = h, ![h].verdict = truth, ![h].pc = p]
               /\ keyOf' = [keyOf EXCEPT ![h] = job[h].key]
      BY <1>1, <3>1 DEF Job
    <3>2. CASE job' = [job EXCEPT ![h].pc = "releaseOwn", ![h].again = TRUE]
      BY <1>1, <3>2 DEF Job
    <3> QED
      BY <1>5, <3>1, <3>2 DEF Mint, Minted
  <2>2. Apart(h) /\ Minting(h, job[h])'
    BY <1>1, <2>1 DEF Apart, Minting, Early
  <2> QED
    BY <1>1, <1>3, <2>1, <2>2, KeyQuiet DEF Writing
<1> QED
  BY <1>4, <1>5

LEMMA KeyCredentials ==
  ASSUME LicenseAssumption, Typed, Order, KeyInv, NEW h \in Handlers,
         Teardown(h) \/ Stray(h) \/ Sweep(h) \/ Credential(h)
  PROVE  KeyInv'
<1>1. /\ UNCHANGED <<row, queue, key, torn, imports, keyOf>> /\ stranded \subseteq stranded'
      /\ job[h].pc \in {"teardown", "stray", "sweep", "credential"}
  BY DEF Teardown, Stray, Sweep, Credential, ReleaseCredential, local, ring, remote, rest, At
<1>2. PICK p : /\ p \in {"stray", "releaseOld", "persist", "releaseNew", "ensure", "releaseSeat"}
               /\ Goto(h, p)
  BY DEF Teardown, Stray, Sweep, Credential
<1>3. p \in Plain /\ p # "forget" /\ job[h].pc \notin Early /\ job[h].pc \notin Rewriting
  BY <1>1, <1>2 DEF Plain, Releasing, Early, Rewriting, Holding
<1> QED
  BY <1>1, <1>2, <1>3, KeyGoto

LEMMA KeyDeactivate ==
  ASSUME LicenseAssumption, Typed, Order, KeyInv, NEW h \in Handlers,
         Reread(h) \/ Tombstone(h)
  PROVE  KeyInv'
<1>1. /\ UNCHANGED <<row, queue, key, torn, imports, keyOf>> /\ stranded \subseteq stranded'
      /\ job[h].pc \in {"reread", "tombstone"} /\ h \in Actors
      /\ Done(h) \/ Goto(h, "tombstone")
  BY RoleOf DEF Reread, Tombstone, Out, local, ring, remote, rest, At
<1>2. /\ "tombstone" \in Plain /\ job[h].pc \notin Early /\ job[h].pc \notin Rewriting
  BY <1>1 DEF Plain, Early, Rewriting, Holding
<1> QED
  BY <1>1, <1>2, KeyDone, KeyGoto

LEMMA KeyHandle ==
  ASSUME LicenseAssumption, Typed, Order, KeyInv, NEW h \in Handlers,
         Released(h) \/ Recorded(h)
  PROVE  KeyInv'
<1>1. /\ UNCHANGED <<row, queue, key, torn, imports, keyOf>> /\ stranded \subseteq stranded'
      /\ job[h].pc \in Releasing \cup Recording /\ h \in Actors
      /\ job[h].pc \notin Rewriting
      /\ Goon(h, Handle(h).next) \/ Goto(h, Handle(h).record)
  BY RoleOf DEF Released, Recorded, local, ring, remote, rest, Releasing, Recording,
     Rewriting, Holding
<1>2. CASE Done(h)
  BY <1>1, <1>2, KeyDone
<1>3. ASSUME NEW p, p \in {Handle(h).next, Handle(h).record}, p # "over", Goto(h, p)
      PROVE  KeyInv'
  <2>1. p \in Plain /\ p # "forget"
    BY <1>1, <1>3, HandleFacts DEF Plain, Recording
  <2>2. job[h].role = "activate" /\ job[h].pc \in Early => p \in Early
    BY <1>1, <1>3 DEF Handle, Early, Releasing, Recording
  <2> QED
    BY <1>1, <1>3, <2>1, <2>2, KeyGoto
<1> QED
  BY <1>1, <1>2, <1>3, HandleFacts DEF Goon, Recording

LEMMA KeyRefresh ==
  ASSUME LicenseAssumption, Typed, Order, KeyInv,
         \/ Tick \/ (\E r \in drain.left : Retry(r)) \/ Settle
         \/ Look \/ FindToken \/ Fetch \/ Reject
  PROVE  KeyInv'
<1>1. /\ UNCHANGED <<row, queue, key, torn, imports, keyOf>> /\ stranded \subseteq stranded'
  BY DEF Tick, Retry, Settle, Look, FindToken, Fetch, Reject, local, ring, remote, rest
<1>2. job \in [Actors -> Job] /\ Loop \in Actors /\ Loop \notin Handlers
  BY LoopFacts
<1>3. \A b \in Actors : b # Loop => job'[b] = job[b]
  BY <1>2, LoopOnly
<1>4. Apart(Loop) /\ KeysStay
  BY <1>1, <1>3 DEF Apart, KeysStay
<1> QED
  BY <1>1, <1>2, <1>4, KeyQuiet

LEMMA KeyEnsure ==
  ASSUME LicenseAssumption, Typed, Order, KeyInv, NEW a \in Actors,
         Ensure(a) \/ Check(a) \/ Issue(a)
  PROVE  KeyInv'
<1>1. /\ UNCHANGED <<row, queue, key, torn, imports, keyOf, stranded>>
      /\ job[a].pc \in Ensuring /\ job \in [Actors -> Job]
      /\ \/ \E got \in BOOLEAN : AfterEnsure(a, got)
         \/ \E p \in {"check", "issue"} : Goto(a, p)
  BY DEF Ensure, Check, Issue, local, ring, remote, rest, At, Ensuring, Typed, TypeOK
<1>2. CASE a = Loop
  <2>1. \A b \in Actors : b # a => job'[b] = job[b]
    BY <1>1, <1>2 DEF AfterEnsure, Goto, Done
  <2>2. Apart(a) /\ KeysStay /\ a \notin Handlers
    BY <1>1, <1>2, <2>1 DEF Apart, KeysStay, LicenseAssumption
  <2> QED
    BY <1>1, <2>2, KeyQuiet
<1>3. CASE a \in Handlers
  <2>1. a # Loop /\ job[a].pc \notin Rewriting /\ job[a].pc \notin Early
    BY <1>1, <1>3 DEF LicenseAssumption, Rewriting, Holding, Ensuring, Early
  <2>2. CASE Done(a)
    BY <1>1, <2>1, <2>2, KeyDone
  <2>3. CASE \E p \in {"check", "issue"} : Goto(a, p)
    <3>1. PICK p \in {"check", "issue"} : Goto(a, p)
      BY <2>3
    <3>2. p \in Plain /\ p # "forget"
      BY DEF Plain
    <3> QED
      BY <1>1, <1>3, <2>1, <3>1, <3>2, KeyGoto
  <2>4. CASE job' = [job EXCEPT ![a] = [NoJob EXCEPT !.role = "validate", !.pc = "capture"]]
    <3>1. /\ \A b \in Actors : b # a => job'[b] = job[b]
          /\ job'[a].pc = "capture" /\ job'[a].role = "validate"
      BY <1>1, <2>4 DEF NoJob
    <3>2. Apart(a) /\ KeysStay /\ Minting(a, job[a])'
      BY <1>1, <3>1 DEF Apart, KeysStay, Minting
    <3> QED
      BY <1>1, <2>1, <3>1, <3>2, KeyQuiet DEF Writing, Rewriting, Holding
  <2> QED
    BY <1>1, <2>1, <2>2, <2>3, <2>4 DEF AfterEnsure
<1> QED
  BY <1>2, <1>3 DEF Actors

\* Beside the holder of the license lock nobody is writing.
LEMMA Alone ==
  ASSUME LicenseAssumption, Order, NEW a \in Actors, license \in {Nobody, a},
         NEW h \in Handlers, h # a
  PROVE  job[h].pc \notin Holding /\ ~Writing(job[h]) /\ job[h].pc # "forget"
<1>1. h # license
  BY DEF LicenseAssumption, Actors
<1>2. job[h].pc \notin Holding
  BY <1>1 DEF Order, Holders
<1> QED
  BY <1>2 DEF Holding, Writing

\* The key matters to nobody else while the lock is held.
LEMMA OthersKey ==
  ASSUME LicenseAssumption, Order, NEW a \in Actors, license \in {Nobody, a},
         \A b \in Actors : b # a => job'[b] = job[b],
         NEW h \in Handlers, h # a
  PROVE  KeyJob(h, job[h])' /\ ~Writing(job'[h])
<1>1. job'[h] = job[h]
  BY DEF Actors
<1>2. job[h].pc \notin Holding
  BY Alone
<1> QED
  BY <1>1, <1>2 DEF KeyJob, Writing, Holding

\* Unless a backup waits, what waits is one write, or a save and its undo.
LEMMA ShortQueue ==
  ASSUME LicenseAssumption, Typed, Order, \A n \in DOMAIN queue : queue[n].op # "import"
  PROVE  /\ queue \in Seq(Operation) /\ Len(queue) \in {0, 1, 2}
         /\ DOMAIN queue = 1 .. Len(queue) /\ (queue = <<>> <=> Len(queue) = 0)
         /\ Len(queue) = 2 => queue[1].op = "save" /\ queue[2].op = "undo"
<1>1. queue \in Seq(Operation)
  BY DEF Typed, TypeOK
<1>2. /\ Len(queue) \in Nat /\ DOMAIN queue = 1 .. Len(queue)
      /\ (queue = <<>> <=> Len(queue) = 0)
  BY <1>1, EmptySeq, LenProperties
<1>3. \A n \in DOMAIN queue : n > 1 =>
        n = 2 /\ queue[n].op = "undo" /\ queue[1].op = "save"
  BY DEF Order, QueueOK
<1>4. Len(queue) <= 2
  <2> SUFFICES ASSUME Len(queue) > 2 PROVE FALSE
    BY <1>2
  <2>1. 3 \in DOMAIN queue
    BY <1>2
  <2> QED
    BY <1>3, <2>1
<1> QED
  BY <1>1, <1>2, <1>3, <1>4

LEMMA KeyRewrite ==
  ASSUME LicenseAssumption, Typed, Order, KeyInv, NEW a \in Actors,
         \A b \in Actors : b # a => job'[b] = job[b],
         license \in {Nobody, a}, queue = <<>>,
         UNCHANGED <<key, torn, imports, keyOf, stranded>>,
         row' # NoRow => row # NoRow /\ row'.inst = row.inst,
         NEW op, op.op \in {"update", "save", "clear"}, op.op = "save" => op.row = row,
         queue' = <<>> \/ (queue' = <<op>> /\ row' = row),
         a \in Handlers =>
           /\ Minting(a, job[a])' /\ ~Writing(job[a]) /\ ~Writing(job'[a])
           /\ job'[a].pc = "forget" => queue' = <<>> /\ row' = NoRow
  PROVE  KeyInv'
<1>1. \A h \in Handlers : h # a => KeyJob(h, job[h])' /\ ~Writing(job'[h])
  BY OthersKey
<1>2. ASSUME NEW h \in Handlers PROVE Minting(h, job[h])'
  <2>1. h \in Actors
    BY DEF Actors
  <2> QED
    BY <2>1 DEF KeyInv, Minting
<1>3. ASSUME Works' PROVE Fitting'
  <2>1. Works /\ Fitting
    BY <1>3 DEF Works, KeyInv
  <2>2. \A h \in Handlers : KeyJob(h, job[h])'
    BY <1>1 DEF KeyJob, Writing
  <2>3. FitsOK
    <3>1. Settled
      BY Alone DEF Settled
    <3> QED
      BY <2>1, <3>1 DEF Fitting
  <2>4. Fits(row, key)
    BY <2>3 DEF FitsOK, Undone
  <2>5. Fits(row, key)'
    BY <2>4 DEF Fits
  <2>6. \A n \in DOMAIN queue' : n = 1 /\ queue'[n] = op
    OBVIOUS
  <2>7. queue' # <<>> => queue'[1] = op
    OBVIOUS
  <2>8. SaveOK' /\ \A n \in DOMAIN queue' : queue'[n].op \notin {"import", "undo"}
    BY <2>6, <2>7 DEF SaveOK
  <2> QED
    BY <2>2, <2>5, <2>8 DEF Fitting, FitsOK
<1> QED
  BY <1>2, <1>3 DEF KeyInv

LEMMA KeyCommit ==
  ASSUME LicenseAssumption, Typed, Order, KeyInv, NEW h \in Handlers, Commit(h)
  PROVE  KeyInv'
<1>1. /\ job[h].pc = "commit" /\ job[h].role = "validate" /\ h \in Actors /\ h # Loop
      /\ job \in [Actors -> Job] /\ license = Nobody
      /\ UNCHANGED <<key, torn, imports, keyOf, stranded>>
  BY RoleOf DEF Commit, At, ring, remote, rest
<1>2. /\ \A b \in Actors : b # h => job'[b] = job[b]
      /\ job'[h].pc \in {"over", "capture"} /\ job'[h].role # "activate"
  <2>1. CASE Done(h)
    <3>1. (\A b \in Actors : b # h => job'[b] = job[b]) /\ job'[h] = Over
      BY <1>1, <2>1, DoneFacts
    <3> QED
      BY <3>1 DEF Over, NoJob
  <2>2. CASE job' = [job EXCEPT ![h] = [NoJob EXCEPT !.role = "validate",
                                          !.pc = "capture", !.again = TRUE]]
    BY <1>1, <2>2 DEF NoJob
  <2> QED
    BY <2>1, <2>2 DEF Commit
<1>3. Minting(h, job[h])' /\ ~Writing(job[h]) /\ ~Writing(job'[h])
  BY <1>1, <1>2 DEF Minting, Writing
<1>4. CASE UNCHANGED <<row, queue>>
  <2>1. Apart(h) /\ KeysStay
    BY <1>1, <1>2, <1>4 DEF Apart, KeysStay
  <2> QED
    BY <1>1, <1>2, <1>3, <2>1, KeyQuiet
<1> DEFINE r == [inst |-> job[h].old, verdict |-> job[h].verdict, ok |-> job[h].ok]
           op == Op("update", r)
<1>5. CASE queue = <<>> /\ (Write(op) \/ Postpone(op))
  <2>1. op.op = "update"
    BY DEF Op
  <2> HIDE DEF op
  <2>2. row' = row \/ (row # NoRow /\ row' = [row EXCEPT !.verdict = op.row.verdict,
                                                         !.ok = op.row.ok])
    BY <1>5, <2>1 DEF Write, Postpone, Applied
  <2>3. row' # NoRow => row # NoRow /\ row'.inst = row.inst
    BY <2>2 DEF Typed, TypeOK, Row
  <2>4. queue' = <<>> \/ (queue' = <<op>> /\ row' = row)
    BY <1>5 DEF Write, Postpone
  <2> QED
    BY <1>1, <1>2, <1>3, <1>5, <2>1, <2>3, <2>4, KeyRewrite
<1> QED
  BY <1>4, <1>5 DEF Commit, Refuse, local

LEMMA KeyAdopt ==
  ASSUME LicenseAssumption, Typed, Order, KeyInv, Adopt
  PROVE  KeyInv'
<1>1. /\ Loop \in Actors /\ Loop \notin Handlers /\ license = Nobody
      /\ \A b \in Actors : b # Loop => job'[b] = job[b]
      /\ UNCHANGED <<key, torn, imports, keyOf, stranded>>
  BY LoopFacts, DoneFacts DEF Adopt, ring, remote, rest
<1>2. CASE UNCHANGED <<row, queue>>
  <2>1. Apart(Loop) /\ KeysStay
    BY <1>1, <1>2 DEF Apart, KeysStay
  <2> QED
    BY <1>1, <2>1, KeyQuiet
<1> DEFINE op == Op("save", row)
<1>3. CASE queue = <<>> /\ (Write(op) \/ Postpone(op))
  <2>1. op.op = "save" /\ op.row = row
    BY DEF Op
  <2> HIDE DEF op
  <2>2. row' = row
    BY <1>3, <2>1 DEF Write, Postpone, Applied
  <2>3. queue' = <<>> \/ queue' = <<op>>
    BY <1>3 DEF Write, Postpone
  <2> QED
    BY <1>1, <1>3, <2>1, <2>2, <2>3, KeyRewrite
<1> QED
  BY <1>2, <1>3 DEF Adopt, Refuse, local

LEMMA KeyClear ==
  ASSUME LicenseAssumption, Typed, Order, KeyInv, NEW h \in Handlers, Clear(h)
  PROVE  KeyInv'
<1>1. /\ job[h].pc = "clear" /\ job[h].role = "deactivate" /\ h \in Actors /\ h # Loop
      /\ job \in [Actors -> Job] /\ license = h /\ queue = <<>>
      /\ UNCHANGED <<key, torn, imports, keyOf, stranded>>
  BY RoleOf DEF Clear, At, Order, Writes, Holders, Holding, ring, remote, rest
<1> DEFINE op == Op("clear", NoRow)
<1>2. op.op = "clear" /\ op.row = NoRow
  BY DEF Op
<1>3. /\ \/ Write(op) /\ Goto(h, "forget")
         \/ Refuse /\ Done(h)
         \/ Postpone(op) /\ Goto(h, "reread")
  BY DEF Clear
<1> HIDE DEF op
<1>4. /\ \A b \in Actors : b # h => job'[b] = job[b]
      /\ job'[h].role # "activate" /\ job'[h].pc \in {"forget", "reread", "over"}
      /\ job'[h].pc = "forget" => queue' = <<>> /\ row' = NoRow
  <2>1. CASE Write(op) /\ Goto(h, "forget")
    <3>1. "forget" \in PC
      BY DEF PC
    <3> QED
      BY <1>1, <1>2, <2>1, <3>1, GotoFacts DEF Write, Applied
  <2>2. CASE Goto(h, "reread")
    <3>1. "reread" \in PC
      BY DEF PC
    <3> QED
      BY <1>1, <2>2, <3>1, GotoFacts
  <2>3. CASE Done(h)
    <3>1. (\A b \in Actors : b # h => job'[b] = job[b]) /\ job'[h] = Over
      BY <1>1, <2>3, DoneFacts
    <3> QED
      BY <3>1 DEF Over, NoJob
  <2> QED
    BY <1>3, <2>1, <2>2, <2>3
<1>5. Minting(h, job[h])' /\ ~Writing(job[h]) /\ ~Writing(job'[h])
  BY <1>1, <1>4 DEF Minting, Writing
<1>6. /\ row' # NoRow => row # NoRow /\ row'.inst = row.inst
      /\ queue' = <<>> \/ (queue' = <<op>> /\ row' = row)
  BY <1>1, <1>2, <1>3 DEF Write, Refuse, Postpone, Applied
<1> QED
  BY <1>1, <1>2, <1>4, <1>5, <1>6, KeyRewrite

\* A step of the command that holds the license lock, or takes it.
LEMMA KeyWriter ==
  ASSUME LicenseAssumption, Typed, Order, KeyInv, NEW h \in Handlers,
         \A b \in Actors : b # h => job'[b] = job[b],
         license \in {Nobody, h}, UNCHANGED keyOf, Minting(h, job[h])',
         Works' => /\ Works /\ KeyJob(h, job[h])'
                   /\ \A n \in DOMAIN queue' : queue'[n].op # "import"
                   /\ SaveOK' /\ (~Writing(job'[h]) => FitsOK')
  PROVE  KeyInv'
<1>1. h \in Actors /\ \A g \in Handlers : g \in Actors
  BY DEF Actors
<1>2. \A g \in Handlers : g # h => KeyJob(g, job[g])'
  BY <1>1, OthersKey
<1>3. ASSUME NEW g \in Handlers PROVE Minting(g, job[g])'
  BY <1>1 DEF KeyInv, Minting
<1>4. Works' => Fitting'
  BY <1>2 DEF Fitting, Settled
<1> QED
  BY <1>3, <1>4 DEF KeyInv

LEMMA KeyPersist ==
  ASSUME LicenseAssumption, Typed, Order, KeyInv, NEW h \in Handlers, Persist(h)
  PROVE  KeyInv'
<1>1. /\ job[h].pc = "persist" /\ job[h].role = "activate" /\ h \in Actors /\ h # Loop
      /\ job \in [Actors -> Job] /\ job[h] \in Job /\ license = Nobody
      /\ UNCHANGED <<row, queue, torn, imports, keyOf, stranded>>
  BY RoleOf DEF Persist, At, local, rest, remote, Early, Unwritten, Late, Ensuring
<1>2. CASE Goto(h, "releaseNew") /\ UNCHANGED key
  <2>1. "releaseNew" \in Plain /\ "persist" \notin Early /\ "persist" \notin Rewriting
    BY DEF Plain, Releasing, Early, Rewriting, Holding
  <2> QED
    BY <1>1, <1>2, <2>1, KeyGoto
<1>3. CASE /\ queue = <<>> /\ SnapshotUnchanged(h) /\ key' = job[h].key
           /\ job' = [job EXCEPT ![h].pc = "save", ![h].prev = row]
  <2>1. /\ \A b \in Actors : b # h => job'[b] = job[b]
        /\ job'[h].pc = "save" /\ job'[h].old = job[h].old /\ job'[h].role = "activate"
        /\ job'[h].key = job[h].key /\ job'[h].oldKey = job[h].oldKey
        /\ job'[h].plan = job[h].plan /\ job'[h].prev = row
    BY <1>1, <1>3 DEF Job
  <2>2. row.inst = job[h].old /\ key = job[h].oldKey
    BY <1>1, <1>3 DEF SnapshotUnchanged
  <2>3. Minting(h, job[h])'
    BY <1>1, <2>1 DEF KeyInv, Minting, Early
  <2>4. ASSUME Works'
        PROVE  Works /\ KeyJob(h, job[h])' /\ SaveOK'
    <3>1. Works /\ Fitting
      BY <1>1, <2>4 DEF Works, KeyInv
    <3>2. Settled
      <4>1. ~Writing(job[h]) /\ \A g \in Handlers : g # h => ~Writing(job[g])
        BY <1>1, Alone DEF Writing
      <4> QED
        BY <4>1 DEF Settled
    <3>3. Fits(row, job[h].oldKey)
      BY <1>3, <2>2, <3>1, <3>2 DEF Fitting, FitsOK, Undone
    <3>4. Fits(job[h].prev, job[h].oldKey)'
      BY <1>1, <2>1, <3>3 DEF Fits
    <3>5. KeyJob(h, job[h])'
      BY <1>3, <2>1, <2>2, <3>4 DEF KeyJob
    <3> QED
      BY <1>1, <1>3, <3>1, <3>5 DEF SaveOK
  <2>5. Writing(job'[h]) /\ \A n \in DOMAIN queue' : queue'[n].op # "import"
    BY <1>1, <1>3, <2>1 DEF Writing
  <2> QED
    BY <1>1, <2>1, <2>3, <2>4, <2>5, KeyWriter
<1> QED
  BY <1>2, <1>3 DEF Persist

LEMMA KeySave ==
  ASSUME LicenseAssumption, Typed, Order, KeyInv, NEW h \in Handlers, Save(h)
  PROVE  KeyInv'
<1>1. /\ job[h].pc = "save" /\ job[h].role = "activate" /\ h \in Actors /\ h # Loop
      /\ job \in [Actors -> Job] /\ job[h] \in Job /\ job[h].new = h
      /\ job[h].plan # "active" /\ job[h].key \in Keys
      /\ UNCHANGED <<key, torn, imports, keyOf, stranded>>
  BY RoleOf, Names DEF Save, At, rest, ring, remote, Early, Unwritten, Late, Ensuring, JobOK,
     ActivateOK, PlanOK
<1>2. license = h /\ queue = <<>> /\ job[h].prev = row
  BY <1>1 DEF Order, Writes, Holders, Holding
<1> DEFINE r == [inst |-> job[h].new, verdict |-> job[h].verdict, ok |-> TRUE]
           op == Op("save", r)
<1>3. op.op = "save" /\ op.row.inst = h
  BY <1>1 DEF Op
<1>4. \/ Write(op) /\ \E p \in {"sweep", "ensure"} : Goto(h, p)
      \/ (Refuse \/ Postpone(op)) /\ Goto(h, "rekey")
  BY DEF Save
<1> HIDE DEF op
<1>5. PICK p \in {"sweep", "ensure", "rekey"} :
        /\ Goto(h, p)
        /\ p = "rekey" => Refuse \/ Postpone(op)
        /\ p # "rekey" => Write(op)
  BY <1>4
<1>6. p \in PC
  BY DEF PC
<1>7. /\ \A b \in Actors : b # h => job'[b] = job[b]
      /\ job'[h].pc = p /\ job'[h].old = job[h].old /\ job'[h].role = "activate"
      /\ job'[h].key = job[h].key /\ job'[h].oldKey = job[h].oldKey
      /\ job'[h].plan = job[h].plan /\ job'[h].prev = job[h].prev
  BY <1>1, <1>5, <1>6, GotoFacts
<1>8. keyOf[h] = job[h].key
  BY <1>1 DEF KeyInv, Minting, Early
<1>9. Minting(h, job[h])'
  BY <1>1, <1>7, <1>8 DEF Minting
<1>10. /\ p # "rekey" => queue' = <<>> /\ row' = op.row
       /\ p = "rekey" => row' = row /\ (queue' = <<>> \/ queue' = <<op>>)
  BY <1>2, <1>3, <1>5 DEF Write, Refuse, Postpone, Applied
<1>11. ASSUME Works'
       PROVE  /\ Works /\ KeyJob(h, job[h])'
              /\ \A n \in DOMAIN queue' : queue'[n].op # "import"
              /\ SaveOK' /\ (~Writing(job'[h]) => FitsOK')
  <2>1. Works /\ KeyJob(h, job[h])
    BY <1>1, <1>11 DEF Works, KeyInv, Fitting
  <2>2. Writing(job[h]) /\ key = job[h].key
    BY <1>1, <2>1 DEF Writing, KeyJob
  <2>3. Fits(job[h].prev, job[h].oldKey) /\ job[h].prev.inst = job[h].old
    BY <2>1, <2>2 DEF KeyJob
  <2>4. Fits(job[h].prev, job[h].oldKey)'
    BY <1>1, <1>7, <2>3 DEF Fits
  <2>5. queue' # <<>> => queue' = <<op>> /\ queue'[1] = op
    BY <1>10
  <2>6. \A n \in DOMAIN queue' : queue'[n] = op
    BY <2>5
  <2>7. KeyJob(h, job[h])'
    BY <1>1, <1>2, <1>3, <1>5, <1>7, <1>10, <2>2, <2>3, <2>4, <2>5 DEF KeyJob
  <2>8. SaveOK'
    BY <1>7, <1>10 DEF SaveOK
  <2>9. ~Writing(job'[h]) => FitsOK'
    <3> SUFFICES ASSUME p # "rekey" PROVE FitsOK'
      BY <1>7 DEF Writing
    <3>1. key # NoKey /\ row'.inst = h /\ queue' = <<>>
      BY <1>1, <1>3, <1>10, <2>2, Names
    <3> QED
      BY <1>1, <1>8, <2>2, <3>1 DEF FitsOK, Fits
  <2> QED
    BY <1>3, <2>1, <2>6, <2>7, <2>8, <2>9
<1> QED
  BY <1>1, <1>2, <1>7, <1>9, <1>11, KeyWriter

LEMMA KeyRekey ==
  ASSUME LicenseAssumption, Typed, Order, KeyInv, NEW h \in Handlers, Rekey(h)
  PROVE  KeyInv'
<1>1. /\ job[h].pc = "rekey" /\ job[h].role = "activate" /\ h \in Actors /\ h # Loop
      /\ job \in [Actors -> Job] /\ Goto(h, "restore") /\ "restore" \in PC
      /\ UNCHANGED <<row, queue, imports, keyOf, stranded>>
  BY RoleOf DEF Rekey, At, local, locks, remote, PC, Early, Unwritten, Late, Ensuring
<1>2. /\ \A b \in Actors : b # h => job'[b] = job[b]
      /\ job'[h].pc = "restore" /\ job'[h].old = job[h].old /\ job'[h].role = "activate"
      /\ job'[h].key = job[h].key /\ job'[h].oldKey = job[h].oldKey
      /\ job'[h].plan = job[h].plan /\ job'[h].prev = job[h].prev
  BY <1>1, GotoFacts
<1>3. license = h /\ Writing(job'[h])
  BY <1>1, <1>2 DEF Order, Holders, Holding, Writing
<1>4. Minting(h, job[h])'
  BY <1>1, <1>2 DEF KeyInv, Minting, Early
<1>5. ASSUME Works'
      PROVE  /\ Works /\ KeyJob(h, job[h])' /\ SaveOK'
             /\ \A n \in DOMAIN queue' : queue'[n].op # "import"
  <2>1. UNCHANGED torn /\ key' = job[h].oldKey
    BY <1>5 DEF Works, Rekey, RestoredKey
  <2>2. Works /\ Fitting
    BY <1>1, <1>5, <2>1 DEF Works, KeyInv
  <2>3. KeyJob(h, job[h]) /\ Writing(job[h])
    BY <1>1, <2>2 DEF Fitting, Writing
  <2>4. Fits(job[h].prev, job[h].oldKey)'
    BY <1>1, <1>2, <2>3 DEF KeyJob, Fits
  <2>5. KeyJob(h, job[h])'
    BY <1>1, <1>2, <2>1, <2>3, <2>4 DEF KeyJob
  <2>6. SaveOK'
    BY <1>2 DEF SaveOK
  <2> QED
    BY <1>1, <2>2, <2>5, <2>6 DEF Fitting
<1> QED
  BY <1>1, <1>2, <1>3, <1>4, <1>5, KeyWriter

LEMMA KeyForget ==
  ASSUME LicenseAssumption, Typed, Order, KeyInv, NEW h \in Handlers, Forget(h)
  PROVE  KeyInv'
<1>1. /\ job[h].pc = "forget" /\ job[h].role = "deactivate" /\ h \in Actors /\ h # Loop
      /\ job \in [Actors -> Job] /\ "credential" \in PC
      /\ UNCHANGED <<row, queue, torn, imports, keyOf>>
      /\ Done(h) \/ Goto(h, "credential")
  BY RoleOf DEF Forget, At, local, remote, rest, PC
<1>2. license = h
  BY <1>1 DEF Order, Holders, Holding
<1>3. /\ \A b \in Actors : b # h => job'[b] = job[b]
      /\ job'[h].pc \in {"over", "credential"} /\ job'[h].role # "activate"
  <2>1. CASE Done(h)
    <3>1. (\A b \in Actors : b # h => job'[b] = job[b]) /\ job'[h] = Over
      BY <1>1, <2>1, DoneFacts
    <3> QED
      BY <3>1 DEF Over, NoJob
  <2>2. CASE Goto(h, "credential")
    BY <1>1, <2>2, GotoFacts
  <2> QED
    BY <1>1, <2>1, <2>2
<1>4. Minting(h, job[h])'
  BY <1>3 DEF Minting
<1>5. ASSUME Works'
      PROVE  /\ Works /\ KeyJob(h, job[h])' /\ SaveOK' /\ FitsOK'
             /\ \A n \in DOMAIN queue' : queue'[n].op # "import"
  <2>1. Works /\ Fitting
    BY <1>1, <1>5 DEF Works, KeyInv
  <2>2. queue' = <<>> /\ row' = NoRow
    BY <1>1, <2>1 DEF Fitting, KeyJob
  <2>3. KeyJob(h, job[h])'
    BY <1>3 DEF KeyJob, Writing
  <2> QED
    BY <2>1, <2>2, <2>3 DEF SaveOK, FitsOK, Fits
<1> QED
  BY <1>1, <1>2, <1>3, <1>4, <1>5, KeyWriter

LEMMA KeyRestore ==
  ASSUME LicenseAssumption, Typed, Order, KeyInv, NEW h \in Handlers, Restore(h)
  PROVE  KeyInv'
<1>1. /\ job[h].pc = "restore" /\ job[h].role = "activate" /\ h \in Actors /\ h # Loop
      /\ job \in [Actors -> Job] /\ Goto(h, "releaseNew") /\ "releaseNew" \in PC
      /\ UNCHANGED <<key, imports, keyOf, stranded>> /\ job[h].new = h
  BY RoleOf DEF Restore, At, ring, remote, PC, Early, Unwritten, Late, Ensuring, JobOK,
     ActivateOK, PlanOK
<1>2. /\ \A b \in Actors : b # h => job'[b] = job[b]
      /\ job'[h].pc = "releaseNew" /\ job'[h].role = "activate"
      /\ job'[h].key = job[h].key /\ job'[h].plan = job[h].plan
      /\ job'[h].prev = job[h].prev
  BY <1>1, GotoFacts
<1>3. license = h
  BY <1>1 DEF Order, Holders, Holding
<1>4. Minting(h, job[h])'
  BY <1>1, <1>2 DEF KeyInv, Minting, Early
<1> DEFINE op == [op |-> "undo", row |-> job[h].prev, inst |-> job[h].new]
<1>5. op.op = "undo" /\ op.row = job[h].prev /\ op.inst = h
  BY <1>1
<1>6. torn' = TRUE \/ ((Write(op) \/ Postpone(op)) /\ UNCHANGED torn)
  BY DEF Restore
<1> HIDE DEF op
<1>7. ASSUME Works'
      PROVE  /\ Works /\ KeyJob(h, job[h])' /\ SaveOK' /\ FitsOK'
             /\ \A n \in DOMAIN queue' : queue'[n].op # "import"
  <2>1. Works /\ Fitting /\ (Write(op) \/ Postpone(op))
    BY <1>1, <1>6, <1>7 DEF Works, KeyInv
  <2>2. /\ key = job[h].oldKey /\ Fits(job[h].prev, job[h].oldKey)
        /\ queue = <<>> => row = job[h].prev \/ row.inst = h
        /\ queue # <<>> => queue[1].row.inst = h /\ row = job[h].prev
    <3>1. KeyJob(h, job[h])
      BY <2>1 DEF Fitting
    <3>2. Writing(job[h])
      BY <1>1 DEF Writing
    <3> QED
      BY <1>1, <3>1, <3>2 DEF KeyJob
  <2>3. Fits(job[h].prev, key)' /\ job[h].prev.inst # h
    <3>1. Writes(h, job[h])
      BY DEF Order
    <3> QED
      BY <1>1, <1>2, <2>2, <3>1 DEF Fits, Writes
  <2>4. KeyJob(h, job[h])'
    BY <1>2 DEF KeyJob, Writing
  <2>5. queue = <<>> \/ (Len(queue) = 1 /\ queue[1].op = "save")
    BY <1>1 DEF Order, Writes
  <2>6. CASE Write(op)
    <3>1. queue' = <<>> /\ row' = job[h].prev
      BY <1>1, <1>5, <2>2, <2>3, <2>6 DEF Write, Applied
    <3>2. Fits(row, key)'
      BY <1>2, <2>3, <3>1
    <3> QED
      BY <2>1, <2>4, <3>1, <3>2 DEF SaveOK, FitsOK
  <2>7. CASE Postpone(op)
    <3>1. queue \in Seq(Operation) /\ queue' = Append(queue, op) /\ row' = row
      BY <2>7 DEF Postpone, Typed, TypeOK
    <3>2. CASE queue = <<>>
      <4>1. queue' = <<op>>
        BY <3>1, <3>2
      <4>2. queue'[1] = op /\ 1 \in DOMAIN queue' /\ \A n \in DOMAIN queue' : queue'[n] = op
        BY <4>1
      <4>3. Undone(row.inst)' \/ row' = job[h].prev
        BY <1>5, <2>2, <3>1, <3>2, <4>2 DEF Undone
      <4>4. SaveOK'
        BY <1>5, <4>2 DEF SaveOK
      <4>5. Fits(row, key)' \/ Undone(row.inst)'
        BY <1>2, <2>3, <4>3
      <4>6. \A n \in DOMAIN queue' : Fits(queue[n].row, key)'
        BY <1>2, <1>5, <2>3, <4>2
      <4> QED
        BY <1>5, <2>1, <2>4, <4>2, <4>4, <4>5, <4>6 DEF FitsOK
    <3>3. CASE queue # <<>>
      <4>1. Len(queue) = 1 /\ queue[1].op = "save"
        BY <2>5, <3>3
      <4>2. /\ Len(queue') = 2 /\ DOMAIN queue' = {1, 2}
            /\ queue'[1] = queue[1] /\ queue'[2] = op
        <5>1. op \in Operation
          BY <1>1, <1>5, RoleOf DEF op, Operation
        <5>2. /\ queue' \in Seq(Operation) /\ Len(queue') = Len(queue) + 1
              /\ queue'[Len(queue) + 1] = op
              /\ \A i \in 1 .. Len(queue) : queue'[i] = queue[i]
          BY <3>1, <5>1, AppendProperties
        <5>3. DOMAIN queue' = 1 .. Len(queue')
          BY <5>2, LenProperties
        <5> QED
          BY <4>1, <5>2, <5>3
      <4>3. SaveOK'
        BY <1>5, <2>2, <3>3, <4>2 DEF SaveOK
      <4>4. row' = job[h].prev
        BY <2>2, <3>1, <3>3
      <4>5. Fits(row, key)' /\ \A n \in DOMAIN queue' : queue'[n].op = "undo" =>
                                 Fits(queue[n].row, key)'
        BY <1>2, <1>5, <2>3, <4>1, <4>2, <4>4
      <4>6. FitsOK'
        BY <4>5 DEF FitsOK
      <4> QED
        BY <1>5, <2>1, <2>4, <4>1, <4>2, <4>3, <4>6
    <3> QED
      BY <3>2, <3>3
  <2> QED
    BY <2>1, <2>6, <2>7
<1> QED
  BY <1>1, <1>2, <1>3, <1>4, <1>7, KeyWriter

LEMMA KeyLand ==
  ASSUME LicenseAssumption, Typed, Order, KeyInv, Land
  PROVE  KeyInv'
<1> DEFINE op == Head(queue)
<1>1. /\ queue \in Seq(Operation) /\ queue # <<>> /\ queue' = Tail(queue)
      /\ UNCHANGED <<job, key, keyOf, imports, stranded>>
      /\ \/ row' = Applied(op) /\ torn' = torn
         \/ row' = row /\ torn' = (torn \/ op.op = "undo")
  BY DEF Land, Typed, TypeOK, ring, remote
<1>2. /\ op = queue[1] /\ 1 \in DOMAIN queue /\ queue' \in Seq(Operation)
      /\ Len(queue') = Len(queue) - 1 /\ DOMAIN queue' = 1 .. Len(queue')
      /\ \A n \in DOMAIN queue' : n + 1 \in DOMAIN queue /\ queue'[n] = queue[n + 1]
      /\ (queue' = <<>> <=> Len(queue') = 0)
  <2>1. /\ op = queue[1] /\ 1 \in DOMAIN queue /\ queue' \in Seq(Operation)
        /\ Len(queue') = Len(queue) - 1 /\ Len(queue) \in Nat
        /\ \A n \in DOMAIN queue' : n + 1 \in DOMAIN queue /\ queue'[n] = queue[n + 1]
    BY <1>1, HeadTailProperties, LenProperties
  <2> QED
    BY <2>1, EmptySeq, LenProperties
<1> HIDE DEF op
<1>3. \A h \in Handlers : Minting(h, job[h])'
  BY <1>1 DEF KeyInv, Minting
<1>4. ASSUME Works' PROVE Fitting'
  <2>1. /\ Works /\ Fitting
        /\ row' = Applied(op) \/ (row' = row /\ op.op # "undo")
    <3>1. ~torn' /\ imports = 0 /\ torn \in BOOLEAN
      BY <1>1, <1>4 DEF Works, Typed, TypeOK
    <3>2. ~torn
      BY <1>1, <3>1
    <3> QED
      BY <1>1, <3>1, <3>2 DEF Works, KeyInv
  <2>2. /\ Len(queue) \in {1, 2}
        /\ Len(queue) = 2 => queue[1].op = "save" /\ queue[2].op = "undo"
    BY <1>1, <2>1, ShortQueue DEF Fitting
  <2>3. op \in Operation /\ op.op # "import"
    BY <1>1, <1>2, <2>1 DEF Fitting
  <2>4. \A n \in DOMAIN queue' : n = 1 /\ Len(queue) = 2 /\ queue'[n] = queue[2]
    BY <1>2, <2>2
  <2>5. \A n \in DOMAIN queue' : queue'[n].op = "undo"
    BY <2>2, <2>4
  <2>6. SaveOK'
    <3>1. queue' # <<>> => 1 \in DOMAIN queue'
      BY <1>2
    <3> QED
      BY <2>5, <3>1 DEF SaveOK
  <2>7. ASSUME NEW h \in Handlers
        PROVE  /\ job[h].pc \notin {"save", "forget"}
               /\ job[h].pc \in {"rekey", "restore"} =>
                    queue' = <<>> /\ op.op = "save" /\ op.row.inst = h /\ row = job[h].prev
    <3>1. KeyJob(h, job[h]) /\ Writes(h, job[h])
      BY <2>1 DEF Fitting, Order
    <3> QED
      BY <1>1, <1>2, <3>1 DEF KeyJob, Writes
  <2>8. ASSUME NEW h \in Handlers PROVE KeyJob(h, job[h])'
    <3>1. KeyJob(h, job[h])
      BY <2>1 DEF Fitting
    <3>2. Writing(job[h]) => Fits(job[h].prev, job[h].oldKey)'
      BY <1>1, <3>1 DEF KeyJob, Fits
    <3>3. job[h].pc \in {"rekey", "restore"} => row' = job[h].prev \/ row'.inst = h
      BY <2>1, <2>7 DEF Applied
    <3> QED
      BY <1>1, <2>7, <3>1, <3>2, <3>3 DEF KeyJob, Writing
  <2>9. Settled' => FitsOK'
    <3> SUFFICES ASSUME Settled' PROVE FitsOK'
      OBVIOUS
    <3>1. Settled /\ FitsOK
      BY <1>1, <2>1 DEF Settled, Fitting
    <3>2. \A n \in DOMAIN queue' : queue'[n].op = "undo" => Fits(queue[n].row, key)'
      <4>1. ASSUME NEW n \in DOMAIN queue' PROVE Fits(queue'[n].row, key)
        BY <1>2, <2>5, <3>1, <4>1 DEF FitsOK
      <4> QED
        BY <1>1, <4>1 DEF Fits
    <3>3. (row' # NoRow => row # NoRow /\ row'.inst = row.inst) /\ op.op # "undo"
          => (Fits(row, key)' \/ Undone(row.inst)')
      <4> SUFFICES ASSUME row' # NoRow, row # NoRow, row'.inst = row.inst, op.op # "undo"
                   PROVE  Fits(row, key)' \/ Undone(row.inst)'
        BY DEF Fits
      <4>1. CASE Fits(row, key)
        BY <1>1, <4>1 DEF Fits
      <4>2. CASE Undone(row.inst)
        <5>1. PICK n \in DOMAIN queue : queue[n].op = "undo" /\ queue[n].inst = row.inst
          BY <4>2 DEF Undone
        <5>2. n = 2 /\ Len(queue) = 2
          BY <1>1, <1>2, <2>2, <5>1, LenProperties
        <5>3. 1 \in DOMAIN queue' /\ queue'[1] = queue[2]
          BY <1>2, <5>2
        <5> QED
          BY <5>1, <5>2, <5>3 DEF Undone
      <4> QED
        BY <3>1, <4>1, <4>2 DEF FitsOK
    <3>4. CASE op.op = "undo"
      <4>1. Len(queue) = 1
        BY <1>2, <2>2, <3>4
      <4>2. row' = op.row \/ (row' = row /\ row.inst # op.inst)
        BY <2>1, <3>4 DEF Applied
      <4>3. Fits(op.row, key)
        BY <1>2, <3>1, <3>4 DEF FitsOK
      <4>4. row.inst # op.inst => ~Undone(row.inst)
        BY <1>1, <1>2, <4>1, LenProperties DEF Undone
      <4>5. Fits(row', key)
        BY <3>1, <4>2, <4>3, <4>4 DEF FitsOK
      <4>6. Fits(row, key)'
        BY <1>1, <4>5 DEF Fits
      <4> QED
        BY <3>2, <4>6 DEF FitsOK
    <3>5. CASE op.op = "save"
      <4>1. row' = row \/ row' = op.row
        BY <2>1, <3>5 DEF Applied
      <4>2. CASE row' = row
        <5>1. op.op # "undo"
          BY <3>5
        <5>2. row' = NoRow \/ Fits(row, key)' \/ Undone(row.inst)'
          BY <3>3, <4>2, <5>1
        <5>3. row' # NoRow \/ Fits(row, key)'
          BY DEF Fits
        <5> QED
          BY <3>2, <4>2, <5>2, <5>3 DEF FitsOK
      <4>3. CASE row' = op.row /\ op.row # row
        <5>1. Len(queue) = 2 /\ queue[2].op = "undo" /\ queue[2].inst = op.row.inst
          BY <1>1, <1>2, <2>1, <2>7, <3>1, <3>5, <4>3 DEF Fitting, SaveOK, Settled, Writing
        <5>2. 1 \in DOMAIN queue' /\ queue'[1] = queue[2]
          BY <1>2, <5>1
        <5>3. Undone(row.inst)'
          BY <4>3, <5>1, <5>2 DEF Undone
        <5> QED
          BY <3>2, <5>3 DEF FitsOK
      <4> QED
        BY <4>1, <4>2, <4>3
    <3>6. CASE op.op \in {"update", "clear"}
      <4>1. op.op = "clear" => op.row = NoRow
        BY <1>1, <1>2 DEF Order, QueueOK
      <4>2. row' # NoRow => row # NoRow /\ row'.inst = row.inst
        BY <2>1, <2>3, <3>6, <4>1, AppliedFacts DEF Typed
      <4> QED
        BY <3>2, <3>3, <3>6, <4>2 DEF FitsOK, Undone
    <3> QED
      BY <2>3, <3>4, <3>5, <3>6 DEF Operation
  <2> QED
    BY <2>5, <2>6, <2>8, <2>9 DEF Fitting
<1> QED
  BY <1>3, <1>4 DEF KeyInv

LEMMA KeyImport ==
  ASSUME LicenseAssumption, Typed, Order, KeyInv, NEW backup \in Backups, Import(backup)
  PROVE  KeyInv'
<1>1. UNCHANGED <<job, keyOf>> /\ imports' = imports + 1 /\ imports \in Nat
  BY DEF Import, remote, Typed, TypeOK, LicenseAssumption
<1>2. ~Works'
  BY <1>1 DEF Works
<1> QED
  BY <1>1, <1>2 DEF KeyInv, Minting

LEMMA KeyStill ==
  ASSUME LicenseAssumption, Typed, Order, KeyInv,
         UNCHANGED <<row, queue, key, torn, imports, keyOf, stranded, job>>
  PROVE  KeyInv'
<1>1. Loop \in Actors /\ Loop \notin Handlers /\ Apart(Loop) /\ KeysStay
  BY LoopFacts DEF Apart, KeysStay
<1> QED
  BY <1>1, KeyQuiet

LEMMA KeyInit == ASSUME LicenseAssumption, Init PROVE KeyInv
<1>1. /\ queue = <<>> /\ \A h \in Handlers : job[h] = NoJob
      /\ row = NoRow \/ row = [inst |-> Original, verdict |-> 0, ok |-> TRUE]
      /\ key \in IF row = NoRow THEN {NoKey} ELSE {NoKey, 1}
      /\ keyOf = [i \in Insts |-> IF i = row.inst THEN 1 ELSE NoKey]
      /\ stranded = IF row # NoRow /\ key = NoKey THEN {Original} \X Sides ELSE {}
  BY DEF Init, Actors
<1>2. NoJob.pc = "idle" /\ NoJob.role = "none"
  BY DEF NoJob
<1>3. \A h \in Handlers : Minting(h, job[h]) /\ KeyJob(h, job[h])
  BY <1>1, <1>2 DEF Minting, KeyJob, Writing
<1>4. Fits(row, key)
  BY <1>1, Names DEF Fits
<1> QED
  BY <1>1, <1>3, <1>4 DEF KeyInv, Fitting, SaveOK, FitsOK

LEMMA KeyNext ==
  ASSUME LicenseAssumption, Typed, Order, KeyInv, [Next]_vars
  PROVE  KeyInv'
<1>1. ASSUME NEW h \in Handlers, Handler(h) PROVE KeyInv'
  <2>1. CASE \E role \in Roles, k \in Keys : (role = "activate" \/ k = 1) /\ Start(h, role, k)
    BY <2>1, KeyStart
  <2>2. CASE Capture(h) \/ Load(h) \/ Ask(h) \/ FindKey(h)
    BY <2>2, KeyReads
  <2>3. CASE Commit(h) \/ Plan(h) \/ Confirm(h) \/ Mint(h)
    BY <2>3, KeyCommit, KeyPlan, KeyConfirm, KeyMint
  <2>4. CASE Teardown(h) \/ Stray(h) \/ Sweep(h) \/ Credential(h)
    BY <2>4, KeyCredentials
  <2>5. CASE Persist(h) \/ Save(h) \/ Rekey(h) \/ Restore(h)
    BY <2>5, KeyPersist, KeySave, KeyRekey, KeyRestore
  <2>6. CASE Unlink(h) \/ Clear(h) \/ Forget(h)
    BY <2>6, KeyUnlink, KeyClear, KeyForget
  <2>7. CASE Reread(h) \/ Tombstone(h) \/ Released(h) \/ Recorded(h)
    BY <2>7, KeyDeactivate, KeyHandle
  <2> QED
    BY <1>1, <2>1, <2>2, <2>3, <2>4, <2>5, <2>6, <2>7 DEF Handler
<1>2. CASE Refresh
  BY <1>2, KeyRefresh, KeyAdopt DEF Refresh
<1>3. CASE \E a \in Actors : Ensure(a) \/ Check(a) \/ Issue(a)
  BY <1>3, KeyEnsure
<1>4. CASE Land
  BY <1>4, KeyLand
<1>5. CASE Turn
  BY <1>5, KeyStill DEF Turn, local, ring, remote
<1>6. CASE \E backup \in Backups : Import(backup)
  BY <1>6, KeyImport
<1>7. CASE UNCHANGED vars
  BY <1>7, KeyStill DEF vars, local, ring, remote, rest
<1> QED
  BY <1>1, <1>2, <1>3, <1>4, <1>5, <1>6, <1>7 DEF Next

\* When nobody is writing them, the key in the keychain is that of the
\* installed row, or one of the two is missing, also after operations that
\* failed or were done late, unless putting back what was written failed too:
\* what LICENSE_MUTATION serializes and persist_generation restores.
THEOREM KeyDoesFit == LicenseAssumption /\ Spec => []KeyFitsRow
<1> SUFFICES ASSUME LicenseAssumption PROVE Spec => []KeyFitsRow
  OBVIOUS
<1>1. Init => Typed /\ Order /\ KeyInv
  BY InitTypes, OrderInit, KeyInit
<1>2. Typed /\ Order /\ KeyInv /\ [Next]_vars => (Typed /\ Order /\ KeyInv)'
  BY NextTypes, OrderNext, KeyNext
<1>3. Typed /\ Order /\ KeyInv => KeyFitsRow
  <2> SUFFICES ASSUME Typed, Order, KeyInv, license = Nobody, queue = <<>>, ~torn,
                      imports = 0, row # NoRow, key # NoKey
               PROVE  keyOf[row.inst] = key
    BY DEF KeyFitsRow
  <2>1. \A h \in Handlers : job[h].pc \notin Holding
    BY DEF Order, Holders, LicenseAssumption, Actors
  <2>2. Settled
    BY <2>1 DEF Settled, Writing, Holding
  <2>3. FitsOK
    BY <2>2 DEF KeyInv, Works, Fitting
  <2> QED
    BY <2>3 DEF FitsOK, Fits, Undone
<1> QED
  BY <1>1, <1>2, <1>3, PTL DEF Spec

-----------------------------------------------------------------------------
(* The invariant, fourth part: the credential lock, and who is named.      *)

Guarding == {"check", "issue"}
Guarded == \A a \in Actors : job[a].pc \in Guarding <=> guard = a

\* What is recorded to be released, or was when the pass under way began.
Debts == owed \cup drain.left \cup drain.settled

\* Of an installation that has not been written yet nobody else knows.
Unheard(h) ==
    /\ \A a \in Actors : job[a].old # h
    /\ \A r \in Debts : r[2] # h
    /\ \A c \in creds : c[2] # h

News == \A h \in Handlers : Unsaved(job[h]) => Unheard(h)

\* What a step of `a` may name: what it has in hand.
Only(a) == \A b \in Actors : b # a => job'[b] = job[b]
Named(a, i) == i = job[a].old \/ (i = a /\ ~Unsaved(job[a]))
Owes(a) ==
    /\ \A r \in Debts' : r \in Debts \/ Named(a, r[2])
    /\ \A c \in creds' : c \in creds \/ Named(a, c[2])
Hands(a) ==
    /\ Only(a) /\ job'[a].old \in {job[a].old, row.inst, NoInst}
    /\ a \in Handlers =>
         /\ Unsaved(job'[a]) => Unsaved(job[a])
         /\ job'[a].role \in {job[a].role, "none", "validate"} \/ job'[a].pc = "load"

LEMMA NewsStep ==
  ASSUME LicenseAssumption, Typed, Order, News, NEW a \in Actors, Hands(a), Owes(a)
  PROVE  News'
<1>1. SUFFICES ASSUME NEW h \in Handlers, Unsaved(job'[h]) PROVE Unheard(h)'
  BY DEF News, Unsaved
<1>2. h \in Actors /\ h # NoInst
  BY DEF LicenseAssumption, Actors, Insts
<1>3. Unsaved(job[h])
  BY <1>1, <1>2 DEF Hands, Only
<1>4. Unheard(h) /\ row.inst # h
  BY <1>3 DEF News, Order, Writes, Foreign
<1>5. ~Named(a, h)
  BY <1>3, <1>4 DEF Named, Unheard
<1>6. \A b \in Actors : job'[b].old # h
  BY <1>2, <1>4 DEF Hands, Only, Unheard
<1>7. (\A r \in Debts' : r[2] # h) /\ (\A c \in creds' : c[2] # h)
  BY <1>4, <1>5 DEF Owes, Unheard
<1> QED
  BY <1>6, <1>7 DEF Unheard

LEMMA GuardedStep ==
  ASSUME LicenseAssumption, Guarded, NEW a \in Actors, Only(a),
         \/ guard' = guard /\ (job'[a].pc \in Guarding <=> job[a].pc \in Guarding)
         \/ guard = Nobody /\ guard' = a /\ job'[a].pc \in Guarding
         \/ job[a].pc \in Guarding /\ guard' = Nobody /\ job'[a].pc \notin Guarding
  PROVE  Guarded'
<1>1. Nobody \notin Actors
  BY DEF LicenseAssumption
<1> QED
  BY <1>1 DEF Guarded, Only

\* What the steps of a command come to for others.
LEMMA HandsGoto ==
  ASSUME LicenseAssumption, Typed, NEW a \in Actors, NEW p \in PC, Goto(a, p),
         a \in Handlers =>
           /\ job[a].role # "none"
           /\ p \in Early \cup Unwritten /\ job[a].role = "activate" =>
                job[a].pc \in Early \cup Unwritten
  PROVE  Hands(a) /\ job'[a].pc = p
<1>1. job \in [Actors -> Job]
  BY DEF Typed, TypeOK
<1>2. /\ Only(a) /\ job'[a].pc = p /\ job'[a].role = job[a].role
      /\ job'[a].old = job[a].old
  BY <1>1, GotoFacts DEF Only
<1>3. a \in Handlers /\ Unsaved(job'[a]) => Unsaved(job[a])
  BY <1>2 DEF Unsaved, NoJob
<1> QED
  BY <1>2, <1>3 DEF Hands

LEMMA HandsDone ==
  ASSUME LicenseAssumption, Typed, NEW a \in Actors, Done(a)
  PROVE  /\ Hands(a) /\ job'[a].pc \in {"idle", "over"}
         /\ a \in Handlers => job'[a] = Over /\ job'[a].role = "none" /\ job'[a].pc = "over"
<1>1. job \in [Actors -> Job]
  BY DEF Typed, TypeOK
<1>2. Only(a) /\ job'[a] = IF a = Loop THEN NoJob ELSE Over
  BY <1>1, DoneFacts DEF Only
<1>3. Over.pc = "over" /\ Over.role = "none" /\ Over.old = NoInst
  BY DEF Over, NoJob
<1>4. NoJob.old = NoInst /\ NoJob.pc = "idle"
  BY DEF NoJob
<1>5. a \in Handlers => a # Loop
  BY DEF LicenseAssumption
<1>6. ~Unsaved(Over)
  BY <1>3, <1>4 DEF Unsaved
<1> QED
  BY <1>2, <1>3, <1>4, <1>5, <1>6 DEF Hands

LEMMA OwesNothing ==
  ASSUME NEW a, UNCHANGED <<owed, drain, creds>>
  PROVE  Owes(a)
BY DEF Owes, Debts

LEMMA OwesThese ==
  ASSUME NEW a, NEW releases, Owe(releases) \/ UNCHANGED debts, UNCHANGED drain,
         creds' \subseteq creds, \A r \in releases : Named(a, r[2])
  PROVE  Owes(a)
<1>1. Debts' \subseteq Debts \cup releases
  BY DEF Debts, Owe, debts
<1> QED
  BY <1>1 DEF Owes

LEMMA ReleaseOwes ==
  ASSUME NEW a, NEW h, NEW k, NEW i, ReleaseCredential(h, k, i), Named(a, i)
  PROVE  Owes(a) /\ guard' = guard /\ guard = Nobody
<1>1. Owe({<<k, i, "catalog">>}) \/ UNCHANGED debts
  BY DEF ReleaseCredential
<1>2. UNCHANGED drain /\ creds' \subseteq creds /\ guard' = guard /\ guard = Nobody
  BY DEF ReleaseCredential, locks
<1>3. \A r \in {<<k, i, "catalog">>} : Named(a, r[2])
  OBVIOUS
<1> QED
  BY <1>1, <1>2, <1>3, OwesThese

\* A step beside the credential lock that names only what is in hand.
Modest(a) ==
    /\ Hands(a) /\ Owes(a) /\ guard' = guard
    /\ job[a].pc \notin Guarding /\ job'[a].pc \notin Guarding

LEMMA ModestGoto ==
  ASSUME LicenseAssumption, Typed, NEW h \in Handlers, NEW p \in PC \ Guarding, Goto(h, p),
         job[h].pc \notin Guarding, job[h].role # "none",
         p \in Early \cup Unwritten /\ job[h].role = "activate" =>
           job[h].pc \in Early \cup Unwritten,
         Owes(h), guard' = guard
  PROVE  Modest(h)
<1>1. h \in Actors
  BY RoleOf
<1> QED
  BY <1>1, HandsGoto DEF Modest

LEMMA ModestDone ==
  ASSUME LicenseAssumption, Typed, NEW h \in Handlers, Done(h),
         job[h].pc \notin Guarding, Owes(h), guard' = guard
  PROVE  Modest(h)
<1>1. h \in Actors
  BY RoleOf
<1> QED
  BY <1>1, HandsDone DEF Modest, Guarding

\* The steps of a command that only look.
Looks(h) ==
    \/ \E role \in Roles, k \in Keys : Start(h, role, k)
    \/ Capture(h) \/ Load(h) \/ Ask(h) \/ Plan(h) \/ Confirm(h) \/ FindKey(h)

LEMMA LooksKeeps ==
  ASSUME NEW h, Looks(h)
  PROVE  /\ UNCHANGED <<row, queue, ring, guard, remote, drain, stranded>>
         /\ job[h].pc \in {"idle", "capture", "load", "ask", "plan", "recheck"}
<1>1. CASE \E role \in Roles, k \in Keys : Start(h, role, k)
  BY <1>1 DEF Start, At, local, locks
<1>2. CASE Capture(h) \/ Load(h)
  BY <1>2 DEF Capture, Load, At, local, locks
<1>3. CASE Ask(h) \/ Plan(h)
  BY <1>3 DEF Ask, Plan, At, local, locks
<1>4. CASE Confirm(h) \/ FindKey(h)
  BY <1>4 DEF Confirm, FindKey, At, local, locks
<1> QED
  BY <1>1, <1>2, <1>3, <1>4 DEF Looks

LEMMA ModestReads ==
  ASSUME LicenseAssumption, Typed, NEW h \in Handlers,
         Looks(h)
  PROVE  /\ Modest(h)
         /\ job'[h].pc \in {"capture", "load", "ask", "plan", "commit", "ensure", "recheck",
                            "mint", "over"}
<1>1. Owes(h) /\ guard' = guard
  BY LooksKeeps, OwesNothing DEF ring, debts, remote
<1>2. /\ job[h].pc \in {"idle", "capture", "load", "ask", "plan", "recheck"}
      /\ job[h].pc = "idle" => job[h] = NoJob
      /\ job \in [Actors -> Job] /\ h \in Actors /\ h # Loop /\ job[h] \in Job
  BY LooksKeeps, RoleOf
<1>3. job[h].pc \notin Guarding
  BY <1>2 DEF Guarding
<1>4. CASE \E role \in Roles, k \in Keys : Start(h, role, k)
  <2>1. PICK role \in Roles, k \in Keys : Start(h, role, k)
    BY <1>4
  <2>2. /\ job'[h] = [NoJob EXCEPT !.role = role, !.key = k,
                        !.pc = IF role = "validate" THEN "capture" ELSE "load"]
        /\ Only(h) /\ job[h] = NoJob
    BY <1>2, <2>1 DEF Start, NoJob, Only, At
  <2>3. /\ job'[h].old = NoInst /\ job[h].old = NoInst /\ job'[h].pc \in {"capture", "load"}
        /\ job'[h].role = "validate" \/ job'[h].pc = "load"
    BY <2>2 DEF NoJob
  <2> QED
    BY <1>1, <1>3, <2>2, <2>3 DEF Modest, Hands, Unsaved, Guarding
<1>5. CASE Done(h)
  BY <1>1, <1>2, <1>3, <1>5, ModestDone, HandsDone
<1>6. CASE Capture(h) \/ (Confirm(h) /\ ~Done(h))
  <2>1. PICK p \in {"load", "mint"} : Goto(h, p) /\ (p = "mint" => job[h].pc = "recheck")
                                     /\ (p = "load" => job[h].pc = "capture")
    BY <1>6 DEF Capture, Confirm, At
  <2>2. /\ p \in PC \ Guarding /\ job[h].role # "none"
        /\ p \in Early \cup Unwritten /\ job[h].role = "activate" =>
             job[h].pc \in Early \cup Unwritten
    BY <2>1, RoleOf DEF PC, Guarding, Early
  <2> QED
    BY <1>1, <1>2, <1>3, <2>1, <2>2, ModestGoto, HandsGoto
<1>7. CASE (Load(h) \/ Ask(h) \/ Plan(h) \/ FindKey(h)) /\ ~Done(h)
  <2>1. /\ Only(h) /\ job'[h].role = job[h].role
        /\ job'[h].old \in {job[h].old, row.inst}
        /\ job'[h].pc \in {"ask", "plan", "commit", "ensure", "recheck", "mint"}
    <3>1. CASE Load(h)
      <4>1. job' = [job EXCEPT ![h].old = row.inst, ![h].ok = row.ok,
               ![h].pc = IF job[h].role = "validate" THEN "ask" ELSE "plan"]
        BY <1>7, <3>1 DEF Load
      <4> QED
        BY <1>2, <4>1 DEF Job, Only
    <3>2. CASE Ask(h)
      <4> DEFINE ok == Active /\ job[h].old \in seats /\ keyOf[job[h].old] = key
      <4>1. job' = [job EXCEPT ![h].pc = "commit", ![h].verdict = truth, ![h].ok = ok]
        BY <1>7, <3>2 DEF Ask
      <4> HIDE DEF ok
      <4> QED
        BY <1>2, <4>1 DEF Job, Only
    <3>3. CASE Plan(h)
      <4>1. PICK plan \in {"active", "teardown", "fresh"}, p \in {"ensure", "recheck", "mint"} :
              job' = [job EXCEPT ![h].plan = plan, ![h].oldKey = key, ![h].pc = p]
        BY <3>3 DEF Plan
      <4> QED
        BY <1>2, <4>1 DEF Job, Only
    <3>4. CASE FindKey(h)
      <4>1. job' = [job EXCEPT ![h].key = key, ![h].pc = "recheck"]
        BY <3>4 DEF FindKey
      <4> QED
        BY <1>2, <4>1 DEF Job, Only
    <3> QED
      BY <1>7, <3>1, <3>2, <3>3, <3>4
  <2>2. job[h].role = "activate" => job[h].pc \in Early
    BY <1>2, RoleOf, <1>7 DEF Early, Load, Ask, Plan, FindKey, At
  <2>3. job'[h].pc # "idle"
    BY <2>1
  <2>4. Unsaved(job'[h]) => Unsaved(job[h])
    BY <2>1, <2>2, <2>3 DEF Unsaved, NoJob
  <2> QED
    BY <1>1, <1>3, <2>1, <2>4 DEF Modest, Hands, Guarding
<1> QED
  BY <1>4, <1>5, <1>6, <1>7 DEF Looks

LEMMA ModestCommit ==
  ASSUME LicenseAssumption, Typed, NEW h \in Handlers, Commit(h)
  PROVE  Modest(h) /\ job'[h].pc \in {"over", "capture"}
<1>1. /\ Owes(h) /\ guard' = guard /\ job[h].pc = "commit"
      /\ job \in [Actors -> Job] /\ h \in Actors
  BY OwesNothing, RoleOf DEF Commit, ring, debts, locks, remote, At
<1>2. job[h].pc \notin Guarding
  BY <1>1 DEF Guarding
<1>3. CASE Done(h)
  BY <1>1, <1>2, <1>3, ModestDone, HandsDone
<1>4. CASE job' = [job EXCEPT ![h] = [NoJob EXCEPT !.role = "validate",
                                          !.pc = "capture", !.again = TRUE]]
  <2>1. /\ Only(h) /\ job'[h].old = NoInst /\ job'[h].pc = "capture"
        /\ job'[h].role = "validate"
    BY <1>1, <1>4 DEF NoJob, Only
  <2>2. ~Unsaved(job'[h])
    BY <2>1 DEF Unsaved, NoJob
  <2> QED
    BY <1>1, <1>2, <2>1, <2>2 DEF Modest, Hands, Guarding
<1> QED
  BY <1>3, <1>4 DEF Commit

LEMMA ModestMint ==
  ASSUME LicenseAssumption, Typed, NEW h \in Handlers, Mint(h)
  PROVE  Modest(h) /\ job'[h].pc \in {"over", "teardown", "releaseNew", "releaseOwn"}
<1>1. /\ Owes(h) /\ guard' = guard /\ job[h].pc \in {"mint", "remint"}
      /\ job \in [Actors -> Job] /\ h \in Actors /\ job[h] \in Job
      /\ job[h].role = "activate"
  BY OwesNothing, RoleOf DEF Mint, ring, debts, locks, At, Early
<1>2. job[h].pc \notin Guarding /\ Unsaved(job[h])
  BY <1>1 DEF Guarding, Unsaved, Early
<1>3. CASE Done(h)
  BY <1>1, <1>2, <1>3, ModestDone, HandsDone
<1>4. CASE ~Done(h)
  <2>1. /\ Only(h) /\ job'[h].old = job[h].old /\ job'[h].role = job[h].role
        /\ job'[h].pc \in {"teardown", "releaseNew", "releaseOwn"}
    <3>1. CASE \E p \in {"teardown", "releaseNew"} :
                 job' = [job EXCEPT ![h].new = h, ![h].verdict = truth, ![h].pc = p]
      BY <1>1, <3>1 DEF Job, Only
    <3>2. CASE job' = [job EXCEPT ![h].pc = "releaseOwn", ![h].again = TRUE]
      BY <1>1, <3>2 DEF Job, Only
    <3> QED
      BY <1>4, <3>1, <3>2 DEF Mint, Minted
  <2> QED
    BY <1>1, <1>2, <2>1 DEF Modest, Hands, Guarding
<1> QED
  BY <1>3, <1>4

LEMMA ModestCredential ==
  ASSUME LicenseAssumption, Typed, NEW h \in Handlers,
         Teardown(h) \/ Sweep(h) \/ Credential(h)
  PROVE  Modest(h)
<1>1. /\ job[h].pc \in {"teardown", "sweep", "credential"} /\ job[h].role # "none"
      /\ job[h].pc \notin Guarding
  BY RoleOf DEF Teardown, Sweep, Credential, At, Unwritten, Late, Guarding
<1>2. Owes(h) /\ guard' = guard
  <2>1. CASE \E k : ReleaseCredential(h, k, job[h].old)
    BY <2>1, ReleaseOwes DEF Named
  <2>2. CASE UNCHANGED <<ring, drain, locks, remote>>
    BY <2>2, OwesNothing DEF ring, debts, locks, remote
  <2> QED
    BY <2>1, <2>2 DEF Teardown, Sweep, Credential
<1>3. PICK p \in {"stray", "releaseOld", "persist", "ensure", "releaseSeat"} :
        Goto(h, p) /\ (p \in Early \cup Unwritten => job[h].pc = "teardown")
  BY DEF Teardown, Sweep, Credential, Early, Unwritten, At
<1>4. p \in PC \ Guarding /\ "teardown" \in Unwritten
  BY DEF PC, Guarding, Unwritten
<1> QED
  BY <1>1, <1>2, <1>3, <1>4, ModestGoto

LEMMA ModestWrites ==
  ASSUME LicenseAssumption, Typed, NEW h \in Handlers,
         Stray(h) \/ Save(h) \/ Rekey(h) \/ Restore(h)
  PROVE  Modest(h)
<1>1. /\ job[h].pc \in {"stray", "save", "rekey", "restore"} /\ job[h].role # "none"
      /\ job[h].pc \notin Guarding /\ Owes(h) /\ guard' = guard
  BY RoleOf, OwesNothing DEF Stray, Save, Rekey, Restore, At, Unwritten, Late, Guarding,
     ring, debts, locks, remote
<1>2. PICK p \in {"persist", "releaseNew", "sweep", "ensure", "rekey", "restore"} :
        Goto(h, p) /\ (p = "persist" => job[h].pc = "stray")
  BY DEF Stray, Save, Rekey, Restore, At
<1>3. p \in PC \ Guarding /\ (p \in Early \cup Unwritten => p = "persist")
  BY DEF PC, Guarding, Unwritten, Early
<1>4. "stray" \in Unwritten
  BY DEF Unwritten
<1> QED
  BY <1>1, <1>2, <1>3, <1>4, ModestGoto

LEMMA ModestPersist ==
  ASSUME LicenseAssumption, Typed, NEW h \in Handlers, Persist(h)
  PROVE  Modest(h)
<1>1. /\ Owes(h) /\ guard' = guard /\ job[h].pc = "persist" /\ job[h].role = "activate"
      /\ job \in [Actors -> Job] /\ h \in Actors /\ job[h] \in Job
  BY OwesNothing, RoleOf DEF Persist, debts, remote, At, Unwritten
<1>2. job[h].pc \notin Guarding /\ Unsaved(job[h])
  BY <1>1 DEF Guarding, Unsaved, Unwritten
<1>3. CASE Goto(h, "releaseNew")
  <2>1. "releaseNew" \in PC \ Guarding /\ "releaseNew" \notin Early \cup Unwritten
    BY DEF PC, Guarding, Early, Unwritten
  <2> QED
    BY <1>1, <1>2, <1>3, <2>1, ModestGoto
<1>4. CASE job' = [job EXCEPT ![h].pc = "save", ![h].prev = row]
  <2>1. /\ Only(h) /\ job'[h].old = job[h].old /\ job'[h].pc = "save"
        /\ job'[h].role = job[h].role
    BY <1>1, <1>4 DEF Job, Only
  <2> QED
    BY <1>1, <1>2, <2>1 DEF Modest, Hands, Guarding
<1> QED
  BY <1>3, <1>4 DEF Persist

LEMMA ModestDeactivate ==
  ASSUME LicenseAssumption, Typed, NEW h \in Handlers,
         Unlink(h) \/ Clear(h) \/ Forget(h) \/ Reread(h) \/ Tombstone(h)
  PROVE  Modest(h)
<1>1. /\ job[h].pc \in {"recheck", "clear", "forget", "reread", "tombstone"}
      /\ job[h].pc \notin Guarding /\ job[h].role = "deactivate" /\ guard' = guard
  BY RoleOf DEF Unlink, Clear, Forget, Reread, Tombstone, At, Guarding, locks
<1>2. Owes(h)
  <2>1. CASE Tombstone(h)
    <3>1. \A r \in {<<job[h].key, job[h].old, side>> : side \in Sides} : Named(h, r[2])
      BY DEF Named
    <3>2. /\ Owe({<<job[h].key, job[h].old, side>> : side \in Sides}) \/ UNCHANGED debts
          /\ UNCHANGED <<drain, creds>>
      BY <2>1 DEF Tombstone, remote
    <3> QED
      BY <3>1, <3>2, OwesThese
  <2>2. CASE ~Tombstone(h)
    BY <2>2, OwesNothing DEF Unlink, Clear, Forget, Reread, ring, debts, remote
  <2> QED
    BY <2>1, <2>2
<1>3. CASE Done(h)
  BY <1>1, <1>2, <1>3, ModestDone
<1>4. CASE ~Done(h)
  <2>1. PICK p \in {"clear", "forget", "reread", "tombstone", "credential"} : Goto(h, p)
    BY <1>4 DEF Unlink, Clear, Forget, Reread, Tombstone
  <2>2. p \in PC \ Guarding /\ p \notin Early \cup Unwritten
    BY DEF PC, Guarding, Early, Unwritten
  <2> QED
    BY <1>1, <1>2, <2>1, <2>2, ModestGoto
<1> QED
  BY <1>3, <1>4

LEMMA ModestHandle ==
  ASSUME LicenseAssumption, Typed, NEW h \in Handlers, Released(h) \/ Recorded(h)
  PROVE  Modest(h)
<1>1. /\ job[h].pc \in Releasing \cup Recording /\ guard' = guard
      /\ job[h].pc \notin Guarding /\ job[h].role # "none"
      /\ Goon(h, Handle(h).next) \/ Goto(h, Handle(h).record)
  BY RoleOf DEF Released, Recorded, locks, Releasing, Recording, Guarding, Early, Unwritten,
     Late
<1>2. Named(h, Handle(h).inst)
  <2>1. CASE job[h].pc \in {"releaseNew", "recordNew"}
    <3>1. job[h].role = "activate" /\ job[h].new = h /\ Handle(h).inst = job[h].new
      BY <2>1, RoleOf DEF Late, ActivateOK, PlanOK, Early, Handle, Ensuring
    <3>2. ~Unsaved(job[h])
      BY <2>1 DEF Unsaved, NoJob, Early, Unwritten
    <3> QED
      BY <3>1, <3>2 DEF Named
  <2>2. CASE job[h].pc \notin {"releaseNew", "recordNew"}
    <3>1. Handle(h).inst = job[h].old
      BY <2>2 DEF Handle
    <3> QED
      BY <3>1 DEF Named
  <2> QED
    BY <2>1, <2>2
<1>3. Owes(h)
  <2>1. CASE Released(h)
    BY <2>1, OwesNothing DEF Released, ring, debts
  <2>2. CASE Recorded(h)
    <3>1. /\ Owe({<<Handle(h).key, Handle(h).inst, "provider">>}) \/ UNCHANGED debts
          /\ UNCHANGED <<drain, creds>>
      BY <2>2 DEF Recorded, remote
    <3>2. \A r \in {<<Handle(h).key, Handle(h).inst, "provider">>} : Named(h, r[2])
      BY <1>2
    <3> QED
      BY <3>1, <3>2, OwesThese
  <2> QED
    BY <2>1, <2>2
<1>4. CASE Done(h)
  BY <1>1, <1>3, <1>4, ModestDone
<1>5. ASSUME NEW p, p \in {Handle(h).next, Handle(h).record}, p # "over", Goto(h, p)
      PROVE  Modest(h)
  <2>1. p \in PC \ Guarding
    BY <1>1, <1>5, HandleFacts DEF PC, Recording, Guarding
  <2>2. p \in Early \cup Unwritten /\ job[h].role = "activate" =>
          job[h].pc \in Early \cup Unwritten
    BY <1>1, <1>5 DEF Handle, Early, Unwritten, Releasing, Recording
  <2> QED
    BY <1>1, <1>3, <1>5, <2>1, <2>2, ModestGoto
<1> QED
  BY <1>1, <1>4, <1>5, HandleFacts DEF Goon, Recording

LEMMA HandlerModest ==
  ASSUME LicenseAssumption, Typed, NEW h \in Handlers, Handler(h)
  PROVE  Modest(h)
<1>1. CASE \E role \in Roles, k \in Keys : (role = "activate" \/ k = 1) /\ Start(h, role, k)
  BY <1>1, ModestReads DEF Looks
<1>2. CASE Capture(h) \/ Load(h) \/ Ask(h) \/ Plan(h) \/ Confirm(h) \/ FindKey(h)
  BY <1>2, ModestReads DEF Looks
<1>3. CASE Commit(h) \/ Mint(h) \/ Persist(h)
  BY <1>3, ModestCommit, ModestMint, ModestPersist
<1>4. CASE Teardown(h) \/ Sweep(h) \/ Credential(h)
  BY <1>4, ModestCredential
<1>5. CASE Stray(h) \/ Save(h) \/ Rekey(h) \/ Restore(h)
  BY <1>5, ModestWrites
<1>6. CASE Unlink(h) \/ Clear(h) \/ Forget(h) \/ Reread(h) \/ Tombstone(h)
  BY <1>6, ModestDeactivate
<1>7. CASE Released(h) \/ Recorded(h)
  BY <1>7, ModestHandle
<1> QED
  BY <1>1, <1>2, <1>3, <1>4, <1>5, <1>6, <1>7 DEF Handler

\* The steps of the loop, but for the credential's, do the same.
LEMMA RefreshModest ==
  ASSUME LicenseAssumption, Typed, Refresh
  PROVE  Modest(Loop)
<1>1. /\ job \in [Actors -> Job] /\ Loop \in Actors /\ Loop \notin Handlers
      /\ guard' = guard /\ Only(Loop)
      /\ job[Loop].pc \in {"idle", "drain", "load", "token", "fetch", "reject", "adopt"}
      /\ job[Loop] \in Job
  <2>1. Only(Loop)
    BY LoopOnly, LoopFacts, DoneFacts DEF Refresh, Adopt, Only
  <2> QED
    BY <2>1, LoopFacts DEF Refresh, Tick, Retry, Settle, Look, FindToken, Fetch, Reject, Adopt,
       locks,
       At, Typed, TypeOK
<1>2. Owes(Loop)
  <2>1. CASE Tick \/ Settle \/ \E r \in drain.left : Retry(r)
    <3>1. Debts' \subseteq Debts /\ creds' \subseteq creds
      <4>1. drain.left \subseteq Debts /\ owed \subseteq Debts /\ drain.settled \subseteq Debts
        BY DEF Debts
      <4>2. CASE Tick
        BY <4>2 DEF Tick, Debts, ring, debts, remote
      <4>3. CASE Settle
        BY <4>3 DEF Settle, Debts, NoDrain, Unsettled, remote
      <4>4. ASSUME NEW r \in drain.left, Retry(r)
            PROVE  Debts' \subseteq Debts /\ creds' \subseteq creds
        <5>1. drain \in [left : SUBSET Release, settled : SUBSET Release]
          BY DEF Typed, TypeOK
        <5>2. /\ drain'.left \subseteq drain.left /\ drain'.settled \subseteq drain.settled \cup {r}
              /\ owed' = owed /\ creds' \subseteq creds
          BY <5>1, <4>4 DEF Retry, ring, debts
        <5> QED
          BY <5>2, <4>4 DEF Debts
      <4> QED
        BY <2>1, <4>2, <4>3, <4>4
    <3> QED
      BY <3>1 DEF Owes
  <2>2. CASE Look \/ FindToken \/ Fetch \/ Reject \/ Adopt
    BY <2>2, OwesNothing DEF Look, FindToken, Fetch, Reject, Adopt, ring, debts, remote
  <2> QED
    BY <2>1, <2>2 DEF Refresh
<1>3. job'[Loop].old \in {job[Loop].old, row.inst, NoInst} /\ job'[Loop].pc \notin Guarding
  <2>1. CASE Done(Loop)
    BY <1>1, <2>1, HandsDone DEF Hands, Guarding
  <2>2. CASE job' = job
    BY <1>1, <2>2 DEF Guarding
  <2>3. CASE ~Done(Loop) /\ job' # job
    <3>1. \/ \E p \in {"load", "drain"} : \E role :
                job' = [job EXCEPT ![Loop].role = role, ![Loop].pc = p]
          \/ Goto(Loop, "load")
          \/ job' = [job EXCEPT ![Loop].old = row.inst, ![Loop].pc = "token"]
          \/ \E p \in {"reject", "adopt"} : job' = [job EXCEPT ![Loop].new = token, ![Loop].pc = p]
          \/ job' = [job EXCEPT ![Loop].key = key, ![Loop].pc = "ensure"]
      BY <2>3 DEF Refresh, Tick, Retry, Settle, Look, FindToken, Fetch, Reject, Adopt, Present
    <3>2. CASE \E p \in {"load", "drain"} : \E role :
                 job' = [job EXCEPT ![Loop].role = role, ![Loop].pc = p]
      <4>1. PICK p \in {"load", "drain"} : \E role :
              job' = [job EXCEPT ![Loop].role = role, ![Loop].pc = p]
        BY <3>2
      <4>2. PICK role : job' = [job EXCEPT ![Loop].role = role, ![Loop].pc = p]
        BY <4>1
      <4> QED
        BY <1>1, <4>2 DEF Job, Guarding
    <3>3. CASE Goto(Loop, "load")
      BY <1>1, <3>3 DEF Goto, Job, Guarding
    <3>4. CASE job' = [job EXCEPT ![Loop].old = row.inst, ![Loop].pc = "token"]
      BY <1>1, <3>4 DEF Job, Guarding
    <3>5. CASE \E p \in {"reject", "adopt"} :
                 job' = [job EXCEPT ![Loop].new = token, ![Loop].pc = p]
      BY <1>1, <3>5 DEF Job, Guarding
    <3>6. CASE job' = [job EXCEPT ![Loop].key = key, ![Loop].pc = "ensure"]
      BY <1>1, <3>6 DEF Job, Guarding
    <3> QED
      BY <3>1, <3>2, <3>3, <3>4, <3>5, <3>6
  <2> QED
    BY <2>1, <2>2, <2>3
<1>4. job[Loop].pc \notin Guarding
  BY <1>1 DEF Guarding
<1> QED
  BY <1>1, <1>2, <1>3, <1>4 DEF Modest, Hands

\* The credential a step asks for, and whose it is.
LEMMA ForFacts ==
  ASSUME LicenseAssumption, Typed, NEW a \in Actors, job[a].pc \in Ensuring
  PROVE  /\ For(a) \in Insts /\ job[a].key \in Keys /\ Named(a, For(a))
         /\ a \in Handlers => job[a].role = "activate"
<1>1. CASE a = Loop
  <2>1. LoopOK(job[Loop])
    BY DEF Typed, Jobs
  <2>2. job[Loop].old \in Insts /\ job[Loop].key \in Keys
    BY <1>1, <2>1 DEF LoopOK, NoJob, Ensuring
  <2> QED
    BY <1>1, <2>2 DEF For, Named, LicenseAssumption
<1>2. CASE a \in Handlers
  <2>1. /\ job[a].role = "activate" /\ ActivateOK(a, job[a]) /\ a # Loop /\ a \in Insts
        /\ job[a].pc \notin Early \cup Unwritten /\ NoInst \notin Insts /\ job[a].pc # "idle"
        /\ job[a].plan \in {"none", "active", "teardown", "fresh"}
    BY <1>2, RoleOf, Names DEF Ensuring, Early, Unwritten, LicenseAssumption, Job
  <2>2. ~Unsaved(job[a])
    BY <2>1 DEF Unsaved, NoJob
  <2>3. CASE job[a].plan = "active"
    BY <1>2, <2>1, <2>3 DEF ActivateOK, PlanOK, For, Named
  <2>4. CASE job[a].plan # "active"
    BY <1>2, <2>1, <2>2, <2>4 DEF ActivateOK, For, Named
  <2> QED
    BY <2>3, <2>4
<1> QED
  BY <1>1, <1>2 DEF Actors

LEMMA AfterEnsureHands ==
  ASSUME LicenseAssumption, Typed, NEW a \in Actors, job[a].pc \in Ensuring,
         NEW got \in BOOLEAN, AfterEnsure(a, got)
  PROVE  /\ Hands(a) /\ job'[a].pc \in {"over", "idle", "fetch", "capture"}
         /\ a \in Handlers => job'[a].role \in {"none", "validate"}
<1>1. /\ job \in [Actors -> Job]
      /\ a \in Handlers \/ a = Loop
      /\ a \in Handlers => a # Loop
  BY DEF Typed, TypeOK, LicenseAssumption, Actors
<1>2. CASE Done(a)
  BY <1>1, <1>2, HandsDone
<1>3. CASE a = Loop /\ Goto(a, "fetch")
  <2>1. "fetch" \in PC
    BY DEF PC
  <2> QED
    BY <1>1, <1>3, <2>1, HandsGoto
<1>4. CASE a # Loop /\ job' = [job EXCEPT ![a] =
                [NoJob EXCEPT !.role = "validate", !.pc = "capture"]]
  <2>1. /\ Only(a) /\ job'[a].old = NoInst /\ job'[a].pc = "capture"
        /\ job'[a].role = "validate"
    BY <1>1, <1>4 DEF NoJob, Only
  <2>2. ~Unsaved(job'[a])
    BY <2>1 DEF Unsaved, NoJob
  <2> QED
    BY <2>1, <2>2 DEF Hands
<1> QED
  BY <1>2, <1>3, <1>4 DEF AfterEnsure

LEMMA GuardingHands ==
  ASSUME LicenseAssumption, Typed, NEW a \in Actors, job[a].pc \in Ensuring,
         NEW p \in Guarding, Goto(a, p)
  PROVE  Hands(a) /\ job'[a].pc = p
<1>1. p \in PC /\ p \notin Early \cup Unwritten
  BY DEF PC, Guarding, Early, Unwritten
<1>2. a \in Handlers => job[a].role = "activate"
  BY ForFacts
<1> QED
  BY <1>1, <1>2, HandsGoto

LEMMA EnsureNews ==
  ASSUME LicenseAssumption, Typed, Order, News, Guarded, NEW a \in Actors,
         Ensure(a) \/ Check(a) \/ Issue(a)
  PROVE  News' /\ Guarded' /\ Hands(a)
<1>1. job[a].pc \in Ensuring /\ UNCHANGED <<owed, drain>>
  BY DEF Ensure, Check, Issue, At, Ensuring, ring, debts
<1>2. Owes(a)
  <2>1. creds' \subseteq creds \cup {<<job[a].key, For(a)>>}
    BY DEF Ensure, Check, Issue, remote
  <2>2. Named(a, For(a))
    BY <1>1, ForFacts
  <2> QED
    BY <1>1, <2>1, <2>2 DEF Owes, Debts
<1>3. CASE \E got \in BOOLEAN : AfterEnsure(a, got)
  <2>1. Hands(a) /\ job'[a].pc \notin Guarding
    BY <1>1, <1>3, AfterEnsureHands DEF Guarding
  <2>2. \/ guard' = guard /\ job[a].pc \notin Guarding
        \/ guard' = Nobody /\ job[a].pc \in Guarding
        \/ \E p \in {"check", "issue"} : Goto(a, p)
    BY DEF Ensure, Check, Issue, At, Guarding
  <2>3. ~ \E p \in {"check", "issue"} : Goto(a, p)
    BY <1>1, <2>1, GuardingHands DEF Guarding
  <2>4. Guarded'
    BY <2>1, <2>2, <2>3, GuardedStep DEF Hands
  <2> QED
    BY <1>2, <2>1, <2>4, NewsStep
<1>4. CASE Ensure(a) /\ Goto(a, "check") /\ guard = Nobody /\ guard' = a
  <2>1. Hands(a) /\ job'[a].pc \in Guarding
    BY <1>1, <1>4, GuardingHands DEF Guarding
  <2>2. Guarded'
    BY <1>4, <2>1, GuardedStep DEF Hands
  <2> QED
    BY <1>2, <2>1, <2>2, NewsStep
<1>5. CASE Check(a) /\ Goto(a, "issue") /\ guard' = guard
  <2>1. Hands(a) /\ job'[a].pc \in Guarding /\ job[a].pc \in Guarding
    BY <1>1, <1>5, GuardingHands DEF Guarding, Check, At
  <2>2. Guarded'
    BY <1>5, <2>1, GuardedStep DEF Hands
  <2> QED
    BY <1>2, <2>1, <2>2, NewsStep
<1> QED
  BY <1>3, <1>4, <1>5 DEF Ensure, Check, Issue

LEMMA NewsNext ==
  ASSUME LicenseAssumption, Typed, Order, News, Guarded, [Next]_vars
  PROVE  News' /\ Guarded'
<1>1. ASSUME NEW a \in Actors, Modest(a) PROVE News' /\ Guarded'
  BY <1>1, NewsStep, GuardedStep DEF Modest, Hands
<1>2. CASE \E h \in Handlers : Handler(h)
  BY <1>1, <1>2, HandlerModest DEF Actors
<1>3. CASE Refresh
  BY <1>1, <1>3, RefreshModest DEF Actors
<1>4. CASE \E a \in Actors : Ensure(a) \/ Check(a) \/ Issue(a)
  BY <1>4, EnsureNews
<1>5. ASSUME UNCHANGED <<job, guard, owed, drain, creds>> PROVE News' /\ Guarded'
  BY <1>5 DEF News, Guarded, Unheard, Debts
<1>6. Land \/ Turn \/ (\E backup \in Backups : Import(backup)) \/ UNCHANGED vars
        => UNCHANGED <<job, guard, owed, drain, creds>>
  BY DEF Land, Turn, Import, vars, ring, debts, locks, remote
<1> QED
  BY <1>2, <1>3, <1>4, <1>5, <1>6 DEF Next

LEMMA NewsInit == ASSUME LicenseAssumption, Init PROVE News /\ Guarded
<1>1. /\ owed = {} /\ creds = {} /\ drain.left = {} /\ drain.settled = {} /\ guard = Nobody
      /\ \A a \in Actors : job[a].old = NoInst /\ job[a].pc = "idle"
  BY DEF Init, NoDrain, NoJob
<1>2. Nobody \notin Actors /\ NoInst \notin Handlers
  BY DEF LicenseAssumption, Insts
<1> QED
  BY <1>1, <1>2 DEF News, Unheard, Debts, Guarded, Guarding

-----------------------------------------------------------------------------
(* The invariant, fifth part: what waits, and what is being unlinked.      *)

\* An undo finds the row it restores or the one it undoes, and a save that
\* waits before it is the one it undoes.
Waiting ==
    /\ \A n \in DOMAIN queue : queue[n].op = "undo" =>
         row = queue[n].row \/ row.inst = queue[n].inst
    /\ Len(queue) = 2 => queue[1].row.inst = queue[2].inst /\ row = queue[2].row

\* A deactivation from its write on.
Unlinked == {"forget", "reread", "tombstone", "credential", "releaseSeat", "recordSeat"}

Unlinking(j) ==
    /\ j.pc = "clear" => row.inst = j.old /\ key = j.key
    /\ j.pc \in Unlinked /\ j.key # NoKey => keyOf[j.old] = j.key

LinkInv == Works => Waiting /\ \A h \in Handlers : Unlinking(job[h])

\* What was torn stays so.
Spares == imports' = imports /\ (torn => torn')

LEMMA WorksBefore ==
  ASSUME LicenseAssumption, Typed, [Next]_vars, Works'
  PROVE  Works
<1>1. imports \in Nat /\ imports' = 0 /\ ~torn'
  BY DEF Typed, TypeOK, LicenseAssumption, Works
<1> SUFFICES Spares
  BY <1>1 DEF Works, Spares
<1>2. ASSUME NEW h \in Handlers, Handler(h) PROVE Spares
  <2>1. CASE \E role \in Roles, k \in Keys : (role = "activate" \/ k = 1) /\ Start(h, role, k)
    BY <2>1 DEF Start, rest, Spares
  <2>2. CASE Capture(h) \/ Load(h) \/ Ask(h)
    BY <2>2 DEF Capture, Load, Ask, rest, Spares
  <2>3. CASE Plan(h) \/ Confirm(h) \/ FindKey(h)
    BY <2>3 DEF Plan, Confirm, FindKey, rest, Spares
  <2>4. CASE Commit(h)
    BY <2>4 DEF Commit, rest, Spares
  <2>5. CASE Mint(h)
    BY <2>5 DEF Mint, rest, Spares
  <2>6. CASE Teardown(h) \/ Sweep(h) \/ Credential(h)
    BY <2>6 DEF Teardown, Sweep, Credential, ReleaseCredential, rest, Spares
  <2>7. CASE Stray(h) \/ Persist(h)
    BY <2>7 DEF Stray, Persist, rest, Spares
  <2>8. CASE Save(h)
    BY <2>8 DEF Save, rest, Spares
  <2>9. CASE Rekey(h)
    BY <2>9 DEF Rekey, Spares
  <2>10. CASE Restore(h)
    BY <2>10 DEF Restore, Spares
  <2>11. CASE Unlink(h) \/ Forget(h)
    BY <2>11 DEF Unlink, Forget, rest, Spares
  <2>12. CASE Clear(h)
    BY <2>12 DEF Clear, rest, Spares
  <2>13. CASE Reread(h) \/ Tombstone(h)
    BY <2>13 DEF Reread, Tombstone, rest, Spares
  <2>14. CASE Released(h) \/ Recorded(h)
    BY <2>14 DEF Released, Recorded, rest, Spares
  <2> QED
    BY <1>2, <2>1, <2>2, <2>3, <2>4, <2>5, <2>6, <2>7, <2>8, <2>9, <2>10, <2>11, <2>12,
       <2>13, <2>14 DEF Handler
<1>3. CASE Refresh
  <2>1. CASE Tick \/ Settle
    BY <2>1 DEF Tick, Settle, rest, Spares
  <2>4. ASSUME NEW r, Retry(r) PROVE Spares
    BY <2>4 DEF Retry, rest, Spares
  <2>2. CASE Look \/ FindToken \/ Fetch \/ Reject
    BY <2>2 DEF Look, FindToken, Fetch, Reject, rest, Spares
  <2>3. CASE Adopt
    BY <2>3 DEF Adopt, rest, Spares
  <2> QED
    BY <1>3, <2>1, <2>2, <2>3, <2>4 DEF Refresh
<1>4. ASSUME NEW a \in Actors, Ensure(a) \/ Check(a) \/ Issue(a) PROVE Spares
  <2>1. CASE Ensure(a)
    BY <2>1 DEF Ensure, rest, Spares
  <2>2. CASE Check(a)
    BY <2>2 DEF Check, rest, Spares
  <2>3. CASE Issue(a)
    BY <2>3 DEF Issue, rest, Spares
  <2> QED
    BY <1>4, <2>1, <2>2, <2>3
<1>5. CASE Land \/ Turn
  <2>1. imports' = imports
    BY <1>5 DEF Land, Turn
  <2>2. torn' = torn \/ torn' = (torn \/ Head(queue).op = "undo")
    BY <1>5 DEF Land, Turn
  <2>3. torn => torn'
    BY <2>2, Zenon
  <2> QED
    BY <2>1, <2>3 DEF Spares
<1>6. CASE \E backup \in Backups : Import(backup)
  BY <1>1, <1>6 DEF Import, Works, Spares
<1>7. CASE UNCHANGED vars
  BY <1>7 DEF vars, rest, Spares
<1> QED
  BY <1>2, <1>3, <1>4, <1>5, <1>6, <1>7 DEF Next

\* The key an installation was made with stays where somebody names it.
LEMMA KeyOfOld ==
  ASSUME LicenseAssumption, Typed, News, KeysStay, NEW a \in Actors, job[a].old \in Insts
  PROVE  keyOf'[job[a].old] = keyOf[job[a].old]
BY DEF KeysStay, News, Unheard

LEMMA LinkOther ==
  ASSUME LicenseAssumption, Typed, Order, News, LinkInv, Works, NEW a \in Actors, Only(a),
         KeysStay, NEW h \in Handlers, h # a,
         license \in {Nobody, a} \/ UNCHANGED <<row, key>>
  PROVE  Unlinking(job[h])'
<1>1. h \in Actors /\ job'[h] = job[h] /\ Unlinking(job[h])
  BY DEF Actors, Only, LinkInv
<1>2. CASE job[h].pc = "clear"
  <2>1. UNCHANGED <<row, key>>
    BY <1>2, Alone DEF Holding
  <2> QED
    BY <1>1, <1>2, <2>1 DEF Unlinking, Unlinked
<1>3. CASE job[h].pc \in Unlinked
  <2>1. job[h].old \in Insts
    BY <1>3, RoleOf DEF Unlinked, DeactivateOK
  <2> QED
    BY <1>1, <1>3, <2>1, KeyOfOld DEF Unlinking, Unlinked
<1> QED
  BY <1>1, <1>2, <1>3 DEF Unlinking

LEMMA LinkQuiet ==
  ASSUME LicenseAssumption, Typed, Order, News, LinkInv, Works, NEW a \in Actors, Only(a),
         UNCHANGED <<row, queue>>, KeysStay, license \in {Nobody, a} \/ UNCHANGED key,
         a \in Handlers => Unlinking(job[a])'
  PROVE  LinkInv'
<1>1. \A h \in Handlers : Unlinking(job[h])'
  BY LinkOther
<1>2. Waiting'
  BY DEF LinkInv, Waiting
<1> QED
  BY <1>1, <1>2 DEF LinkInv

\* A write of the row finds nothing that waits.
LEMMA LinkWrite ==
  ASSUME LicenseAssumption, Typed, Order, News, LinkInv, Works, NEW a \in Actors, Only(a),
         keyOf' = keyOf, license \in {Nobody, a}, a \in Handlers => Unlinking(job[a])',
         NEW op, op.op # "undo", queue' = <<>> \/ queue' = <<op>>
  PROVE  LinkInv'
<1>1. \A h \in Handlers : Unlinking(job[h])'
  BY LinkOther DEF KeysStay
<1>2. Len(queue') # 2 /\ \A n \in DOMAIN queue' : queue'[n] = op
  OBVIOUS
<1> QED
  BY <1>1, <1>2 DEF LinkInv, Waiting

LEMMA LinkGoto ==
  ASSUME LicenseAssumption, Typed, Order, News, LinkInv, Works, NEW h \in Handlers,
         NEW p \in PC, Goto(h, p), UNCHANGED <<row, queue, keyOf>>,
         license \in {Nobody, h} \/ UNCHANGED key,
         p # "clear", p \in Unlinked => job[h].pc \in Unlinked
  PROVE  LinkInv'
<1>1. /\ h \in Actors /\ Only(h) /\ job'[h].pc = p /\ job'[h].key = job[h].key
      /\ job'[h].old = job[h].old
  BY HandlerGoto DEF Only
<1>2. Unlinking(job[h])'
  BY <1>1 DEF LinkInv, Unlinking
<1> QED
  BY <1>1, <1>2, LinkQuiet DEF KeysStay

LEMMA LinkDone ==
  ASSUME LicenseAssumption, Typed, Order, News, LinkInv, Works, NEW h \in Handlers,
         Done(h), UNCHANGED <<row, queue, keyOf>>,
         license \in {Nobody, h} \/ UNCHANGED key
  PROVE  LinkInv'
<1>1. h \in Actors
  BY RoleOf
<1>2. Only(h) /\ job'[h].pc = "over"
  BY <1>1, HandsDone DEF Hands
<1>3. Unlinking(job[h])'
  BY <1>2 DEF Unlinking, Unlinked
<1> QED
  BY <1>1, <1>2, <1>3, LinkQuiet DEF KeysStay

LEMMA MintKeys ==
  ASSUME LicenseAssumption, Typed, NEW h \in Handlers, Mint(h)
  PROVE  KeysStay /\ \A i \in Insts : i # h => keyOf'[i] = keyOf[i]
<1>1. /\ Unsaved(job[h]) /\ keyOf \in [Insts -> Keys \cup {NoKey}] /\ h \in Insts
  BY RoleOf, Names DEF Mint, At, Early, Unsaved, Typed, TypeOK
<1>2. keyOf' = keyOf \/ keyOf' = [keyOf EXCEPT ![h] = job[h].key]
  BY DEF Mint, Minted
<1> QED
  BY <1>1, <1>2 DEF KeysStay

LEMMA LinkReads ==
  ASSUME LicenseAssumption, Typed, Order, News, LinkInv, Works, NEW h \in Handlers,
         Looks(h)
  PROVE  LinkInv'
<1>1. UNCHANGED <<row, queue, key, keyOf>>
  BY LooksKeeps DEF ring, remote
<1>2. Only(h) /\ Unlinking(job[h])'
  BY ModestReads DEF Modest, Hands, Unlinking, Unlinked
<1> QED
  BY <1>1, <1>2, LinkQuiet, RoleOf DEF KeysStay

LEMMA LinkMint ==
  ASSUME LicenseAssumption, Typed, Order, News, LinkInv, Works, NEW h \in Handlers, Mint(h)
  PROVE  LinkInv'
<1>1. UNCHANGED <<row, queue, key>>
  BY DEF Mint, local, ring
<1>2. Only(h) /\ Unlinking(job[h])'
  BY ModestMint DEF Modest, Hands, Unlinking, Unlinked
<1> QED
  BY <1>1, <1>2, LinkQuiet, MintKeys, RoleOf

LEMMA LinkMoves ==
  ASSUME LicenseAssumption, Typed, Order, News, LinkInv, Works, NEW h \in Handlers,
         Teardown(h) \/ Stray(h) \/ Sweep(h) \/ Credential(h)
  PROVE  LinkInv'
<1>1. UNCHANGED <<row, queue, key, keyOf>>
  BY DEF Teardown, Stray, Sweep, Credential, ReleaseCredential, local, ring, remote
<1>2. PICK p \in {"stray", "releaseOld", "persist", "ensure", "releaseNew", "releaseSeat"} :
        Goto(h, p) /\ (p = "releaseSeat" => job[h].pc = "credential")
  BY DEF Teardown, Stray, Sweep, Credential, At
<1>3. p \in PC /\ p # "clear" /\ (p \in Unlinked => job[h].pc \in Unlinked)
  BY <1>2 DEF PC, Unlinked
<1> QED
  BY <1>1, <1>2, <1>3, LinkGoto

LEMMA LinkHandle ==
  ASSUME LicenseAssumption, Typed, Order, News, LinkInv, Works, NEW h \in Handlers,
         Released(h) \/ Recorded(h)
  PROVE  LinkInv'
<1>1. UNCHANGED <<row, queue, key, keyOf>> /\ job[h].pc \in Releasing \cup Recording
  BY DEF Released, Recorded, local, ring, remote, Releasing, Recording
<1>2. CASE Done(h)
  BY <1>1, <1>2, LinkDone
<1>3. CASE Goto(h, Handle(h).next) /\ Handle(h).next # "over"
  <2>1. Handle(h).next \in {"remint", "persist", "stray"}
    BY <1>1, <1>3, HandleFacts
  <2>2. Handle(h).next \in PC \ (Unlinked \cup {"clear"})
    BY <2>1 DEF PC, Unlinked
  <2> QED
    BY <1>1, <1>3, <2>2, LinkGoto
<1>4. CASE Goto(h, Handle(h).record)
  <2>1. /\ Handle(h).record \in Recording
        /\ Handle(h).record = "recordSeat" => job[h].pc \in {"releaseSeat", "recordSeat"}
    BY <1>1 DEF Handle, Releasing, Recording
  <2>2. /\ Handle(h).record \in PC /\ Handle(h).record # "clear"
        /\ Handle(h).record \in Unlinked => job[h].pc \in Unlinked
    BY <2>1 DEF PC, Unlinked, Recording
  <2> QED
    BY <1>1, <1>4, <2>2, LinkGoto
<1> QED
  BY <1>2, <1>3, <1>4 DEF Released, Recorded, Goon

LEMMA LinkRekey ==
  ASSUME LicenseAssumption, Typed, Order, News, LinkInv, Works, NEW h \in Handlers,
         Rekey(h) \/ Forget(h) \/ Reread(h) \/ Tombstone(h)
  PROVE  LinkInv'
<1>1. /\ UNCHANGED <<row, queue, keyOf>>
      /\ job[h].pc \in {"rekey", "forget", "reread", "tombstone"}
  BY DEF Rekey, Forget, Reread, Tombstone, local, remote, At
<1>2. license = h
  BY <1>1 DEF Order, Holders, Holding
<1>3. CASE Done(h)
  BY <1>1, <1>2, <1>3, LinkDone
<1>4. CASE \E p \in {"restore", "credential", "tombstone"} :
             Goto(h, p) /\ (p # "restore" => job[h].pc \in {"forget", "reread"})
  <2>1. PICK p \in {"restore", "credential", "tombstone"} :
          Goto(h, p) /\ (p # "restore" => job[h].pc \in {"forget", "reread"})
    BY <1>4
  <2>2. p \in PC /\ p # "clear" /\ (p \in Unlinked => job[h].pc \in Unlinked)
    BY <2>1 DEF PC, Unlinked
  <2> QED
    BY <1>1, <1>2, <2>1, <2>2, LinkGoto
<1> QED
  BY <1>3, <1>4 DEF Rekey, Forget, Reread, Tombstone, At

LEMMA LinkPersist ==
  ASSUME LicenseAssumption, Typed, Order, News, LinkInv, Works, NEW h \in Handlers,
         Persist(h)
  PROVE  LinkInv'
<1>1. UNCHANGED <<row, queue, keyOf>> /\ license = Nobody
  BY DEF Persist, local, remote
<1>2. CASE Goto(h, "releaseNew")
  <2>1. "releaseNew" \in PC \ Unlinked /\ "releaseNew" # "clear"
    BY DEF PC, Unlinked
  <2> QED
    BY <1>1, <1>2, <2>1, LinkGoto
<1>3. CASE job' = [job EXCEPT ![h].pc = "save", ![h].prev = row]
  <2>1. job'[h].pc = "save"
    BY <1>3, RoleOf DEF Job
  <2>2. Unlinking(job[h])' /\ Only(h)
    BY <2>1, ModestPersist DEF Unlinking, Unlinked, Modest, Hands
  <2> QED
    BY <1>1, <2>2, LinkQuiet, RoleOf DEF KeysStay
<1> QED
  BY <1>2, <1>3 DEF Persist

LEMMA LinkUnlink ==
  ASSUME LicenseAssumption, Typed, Order, News, LinkInv, Works, NEW h \in Handlers,
         Unlink(h)
  PROVE  LinkInv'
<1>1. /\ UNCHANGED <<row, queue, key, keyOf>> /\ h \in Actors
      /\ job[h].role = "deactivate" /\ job \in [Actors -> Job]
  BY RoleOf DEF Unlink, local, ring, remote
<1>2. CASE Done(h)
  BY <1>1, <1>2, LinkDone
<1>3. CASE Goto(h, "clear") /\ SnapshotUnchanged(h)
  <2>1. "clear" \in PC
    BY DEF PC
  <2>2. /\ Only(h) /\ job'[h].pc = "clear" /\ job'[h].key = job[h].key
        /\ job'[h].old = job[h].old
    BY <1>1, <1>3, <2>1, GotoFacts DEF Only
  <2>3. Unlinking(job[h])'
    BY <1>1, <1>3, <2>2 DEF Unlinking, Unlinked, SnapshotUnchanged
  <2> QED
    BY <1>1, <2>2, <2>3, LinkQuiet DEF KeysStay
<1> QED
  BY <1>2, <1>3 DEF Unlink

LEMMA BehindOne ==
  ASSUME NEW op \in Operation, queue \in Seq(Operation), Len(queue) = 1,
         queue' = Append(queue, op)
  PROVE  /\ DOMAIN queue' = {1, 2} /\ Len(queue') = 2
         /\ queue'[1] = queue[1] /\ queue'[2] = op
<1> DEFINE longer == Append(queue, op)
<1>3. /\ longer \in Seq(Operation) /\ Len(longer) = Len(queue) + 1
      /\ longer[Len(queue) + 1] = op
      /\ \A i \in 1 .. Len(queue) : longer[i] = queue[i]
  BY ONLY op \in Operation, queue \in Seq(Operation), AppendProperties
<1>1. /\ queue' \in Seq(Operation) /\ Len(queue') = Len(queue) + 1
      /\ queue'[Len(queue) + 1] = op
      /\ \A i \in 1 .. Len(queue) : queue'[i] = queue[i]
  BY <1>3
<1>2. DOMAIN queue' = 1 .. Len(queue')
  BY <1>1, LenProperties
<1> QED
  BY <1>1, <1>2

LEMMA LastOne ==
  ASSUME queue \in Seq(Operation), Len(queue) = 2, queue' = Tail(queue)
  PROVE  /\ DOMAIN queue' = {1} /\ Len(queue') = 1 /\ queue' # <<>>
         /\ queue'[1] = queue[2] /\ Head(queue) = queue[1]
<1>1. queue' \in Seq(Operation) /\ Len(queue') = Len(queue) - 1
  BY ONLY queue \in Seq(Operation), Len(queue) = 2, queue' = Tail(queue),
          HeadTailProperties
<1>2. DOMAIN queue' = 1 .. Len(queue') /\ Len(queue') = 1
  BY <1>1, LenProperties
<1>3. 1 \in 1 .. Len(queue') /\ 1 + 1 = 2 /\ 1 .. 1 = {1}
  BY <1>2
<1>4. \A i \in 1 .. Len(Tail(queue)) : Tail(queue)[i] = queue[i + 1]
  BY HeadTailProperties
<1>5. queue'[1] = queue[2]
  BY <1>3, <1>4
<1>6. Head(queue) = queue[1] /\ Len(<<>>) = 0
  OBVIOUS
<1> QED
  BY <1>2, <1>3, <1>5, <1>6

LEMMA LinkCommit ==
  ASSUME LicenseAssumption, Typed, Order, News, LinkInv, Works, NEW h \in Handlers,
         Commit(h)
  PROVE  LinkInv'
<1>1. UNCHANGED <<key, keyOf>> /\ license = Nobody /\ h \in Actors
  BY RoleOf DEF Commit, ring, remote
<1>2. Only(h) /\ Unlinking(job[h])'
  BY ModestCommit DEF Modest, Hands, Unlinking, Unlinked
<1>3. CASE UNCHANGED local
  BY <1>1, <1>2, <1>3, LinkQuiet DEF local, KeysStay
<1>4. CASE ~UNCHANGED local
  <2> DEFINE op == Op("update", [inst |-> job[h].old, verdict |-> job[h].verdict,
                                 ok |-> job[h].ok])
  <2>1. queue = <<>> /\ (Write(op) \/ Refuse \/ Postpone(op))
    BY <1>4 DEF Commit
  <2>2. op.op = "update"
    BY DEF Op
  <2> HIDE DEF op
  <2>3. queue' = <<>> \/ queue' = <<op>>
    BY <2>1 DEF Write, Refuse, Postpone
  <2> QED
    BY <1>1, <1>2, <2>2, <2>3, LinkWrite
<1> QED
  BY <1>3, <1>4

LEMMA LinkAdopt ==
  ASSUME LicenseAssumption, Typed, Order, News, LinkInv, Works, Adopt
  PROVE  LinkInv'
<1>1. /\ UNCHANGED <<key, keyOf>> /\ license = Nobody /\ Loop \in Actors
      /\ Loop \notin Handlers /\ Done(Loop)
  BY LoopFacts DEF Adopt, ring, remote
<1>2. Only(Loop)
  BY <1>1, HandsDone DEF Hands
<1>3. CASE UNCHANGED local
  BY <1>1, <1>2, <1>3, LinkQuiet DEF local, KeysStay
<1>4. CASE ~UNCHANGED local
  <2> DEFINE op == Op("save", row)
  <2>1. queue = <<>> /\ (Write(op) \/ Refuse \/ Postpone(op))
    BY <1>4 DEF Adopt
  <2>2. op.op = "save"
    BY DEF Op
  <2> HIDE DEF op
  <2>3. queue' = <<>> \/ queue' = <<op>>
    BY <2>1 DEF Write, Refuse, Postpone
  <2> QED
    BY <1>1, <1>2, <2>2, <2>3, LinkWrite
<1> QED
  BY <1>3, <1>4

LEMMA LinkSave ==
  ASSUME LicenseAssumption, Typed, Order, News, LinkInv, Works, NEW h \in Handlers,
         Save(h)
  PROVE  LinkInv'
<1>1. UNCHANGED <<key, keyOf>> /\ h \in Actors /\ job[h].pc = "save"
  BY RoleOf DEF Save, ring, remote, At
<1>2. license = h /\ queue = <<>>
  BY <1>1 DEF Order, Holders, Holding, Writes
<1>3. PICK p \in {"sweep", "ensure", "rekey"} : Goto(h, p)
  BY DEF Save
<1>4. Only(h) /\ Unlinking(job[h])'
  <2>1. p \in PC
    BY DEF PC
  <2>2. Only(h) /\ job'[h].pc = p
    BY <1>3, <2>1, HandlerGoto DEF Only
  <2> QED
    BY <2>2 DEF Unlinking, Unlinked
<1> DEFINE op == Op("save", [inst |-> job[h].new, verdict |-> job[h].verdict, ok |-> TRUE])
<1>5. Write(op) \/ Refuse \/ Postpone(op)
  BY DEF Save
<1>6. op.op = "save"
  BY DEF Op
<1> HIDE DEF op
<1>7. queue' = <<>> \/ queue' = <<op>>
  BY <1>2, <1>5 DEF Write, Refuse, Postpone
<1> QED
  BY <1>1, <1>2, <1>4, <1>6, <1>7, LinkWrite

\* The key of the installed row, while nobody writes and nothing waits.
LEMMA RowKey ==
  ASSUME LicenseAssumption, Typed, Order, KeyInv, Works, queue = <<>>,
         \A h \in Handlers : ~Writing(job[h])
  PROVE  Fits(row, key)
<1>1. FitsOK
  BY DEF KeyInv, Fitting, Settled
<1> QED
  BY <1>1 DEF FitsOK, Undone

LEMMA LinkClear ==
  ASSUME LicenseAssumption, Typed, Order, KeyInv, News, LinkInv, Works, NEW h \in Handlers,
         Clear(h)
  PROVE  LinkInv'
<1>1. /\ UNCHANGED <<key, keyOf>> /\ h \in Actors /\ job[h].pc = "clear"
      /\ job[h].old \in Insts /\ job[h].key \in Keys \cup {NoKey}
  BY RoleOf DEF Clear, ring, remote, At, DeactivateOK
<1>2. license = h /\ queue = <<>>
  BY <1>1 DEF Order, Holders, Holding, Writes
<1>3. PICK p \in {"over", "forget", "reread"} :
        IF p = "over" THEN Done(h) ELSE Goto(h, p)
  BY DEF Clear
<1>4. Only(h) /\ Unlinking(job[h])'
  <2>1. CASE p = "over"
    <3>1. Only(h) /\ job'[h].pc = "over"
      BY <1>1, <1>3, <2>1, HandsDone DEF Hands
    <3> QED
      BY <3>1 DEF Unlinking, Unlinked
  <2>2. CASE p # "over"
    <3>1. p \in PC
      BY DEF PC
    <3>2. /\ Only(h) /\ job'[h].pc = p /\ job'[h].key = job[h].key
          /\ job'[h].old = job[h].old
      BY <1>3, <2>2, <3>1, HandlerGoto DEF Only
    <3>3. \A g \in Handlers : ~Writing(job[g])
      BY <1>1, <1>2, Alone DEF Writing
    <3>4. Fits(row, key) /\ row.inst = job[h].old /\ key = job[h].key
      BY <1>1, <1>2, <3>3, RowKey DEF LinkInv, Unlinking
    <3>5. job[h].key # NoKey => keyOf[job[h].old] = job[h].key
      BY <1>1, <3>4 DEF Fits, NoRow, LicenseAssumption
    <3> QED
      BY <1>1, <2>2, <3>2, <3>5 DEF Unlinking
  <2> QED
    BY <2>1, <2>2
<1> DEFINE op == Op("clear", NoRow)
<1>5. Write(op) \/ Refuse \/ Postpone(op)
  BY DEF Clear
<1>6. op.op = "clear"
  BY DEF Op
<1> HIDE DEF op
<1>7. queue' = <<>> \/ queue' = <<op>>
  BY <1>2, <1>5 DEF Write, Refuse, Postpone
<1> QED
  BY <1>1, <1>2, <1>4, <1>6, <1>7, LinkWrite

LEMMA LinkRestore ==
  ASSUME LicenseAssumption, Typed, Order, KeyInv, News, LinkInv, Works, NEW h \in Handlers,
         Restore(h), Works'
  PROVE  LinkInv'
<1>1. /\ UNCHANGED <<key, keyOf>> /\ h \in Actors /\ job[h].pc = "restore"
      /\ job[h].new = h
  BY RoleOf DEF Restore, ring, remote, At, ActivateOK, PlanOK, Ensuring, Early, Late
<1>2. license = h /\ KeyJob(h, job[h]) /\ \A n \in DOMAIN queue : queue[n].op # "import"
  BY <1>1 DEF Order, Holders, Holding, KeyInv, Fitting
<1>3. \A g \in Handlers : Unlinking(job[g])'
  <2>1. "releaseNew" \in PC /\ Goto(h, "releaseNew")
    BY DEF PC, Restore
  <2>2. Only(h) /\ job'[h].pc = "releaseNew"
    BY <2>1, HandlerGoto DEF Only
  <2>3. Unlinking(job[h])'
    BY <2>2 DEF Unlinking, Unlinked
  <2> QED
    BY <1>1, <1>2, <2>2, <2>3, LinkOther DEF KeysStay
<1> DEFINE op == [op |-> "undo", row |-> job[h].prev, inst |-> job[h].new]
<1>6. op \in Operation
  BY <1>1, RoleOf, Names DEF Operation
<1>4. CASE queue' = <<>>
  BY <1>3, <1>4 DEF LinkInv, Waiting
<1>5. CASE queue' = Append(queue, op) /\ row' = row
  <2>1. op.op = "undo" /\ op.row = job[h].prev /\ op.inst = h
    BY <1>1
  <2> HIDE DEF op
  <2>2. CASE queue = <<>>
    <3>1. queue' = <<op>> /\ (row = job[h].prev \/ row.inst = h)
      BY <1>1, <1>2, <1>5, <2>2 DEF KeyJob
    <3>2. Len(queue') = 1 /\ \A n \in DOMAIN queue' : queue'[n] = op
      BY <3>1
    <3>3. Waiting'
      BY <1>5, <2>1, <3>1, <3>2 DEF Waiting
    <3> QED
      BY <1>3, <3>3 DEF LinkInv
  <2>3. CASE queue # <<>>
    <3>1. /\ Len(queue) = 1 /\ queue[1].op = "save" /\ queue \in Seq(Operation)
          /\ queue[1].row.inst = h /\ row = job[h].prev
      BY <1>1, <1>2, <2>3 DEF KeyJob, Order, Writes, Typed, TypeOK
    <3>2. /\ DOMAIN queue' = {1, 2} /\ Len(queue') = 2
          /\ queue'[1] = queue[1] /\ queue'[2] = op
      BY <1>5, <1>6, <3>1, BehindOne
    <3>3. Waiting'
      BY <1>5, <2>1, <3>1, <3>2 DEF Waiting
    <3> QED
      BY <1>3, <3>3 DEF LinkInv
  <2> QED
    BY <2>2, <2>3
<1> QED
  BY <1>4, <1>5 DEF Restore, Works, Write, Postpone

LEMMA LinkLand ==
  ASSUME LicenseAssumption, Typed, Order, KeyInv, News, LinkInv, Works, Land, Works'
  PROVE  LinkInv'
<1>1. UNCHANGED <<job, keyOf>> /\ queue # <<>> /\ queue' = Tail(queue)
  BY DEF Land, remote
<1>2. \A h \in Handlers : job[h].pc # "clear" /\ Unlinking(job[h])'
  BY <1>1 DEF Order, Writes, LinkInv, Unlinking, Unlinked
<1>3. /\ queue \in Seq(Operation) /\ Len(queue) \in {1, 2}
      /\ Len(queue) = 2 => queue[1].op = "save"
  BY <1>1, ShortQueue DEF KeyInv, Fitting
<1>4. CASE Len(queue) = 1
  <2>1. queue' = <<>>
    BY <1>1, <1>3, <1>4
  <2> QED
    BY <1>2, <2>1 DEF LinkInv, Waiting
<1>5. CASE Len(queue) = 2
  <2>1. /\ DOMAIN queue' = {1} /\ Len(queue') = 1 /\ queue'[1] = queue[2]
        /\ Head(queue) = queue[1] /\ queue[1].op = "save"
        /\ queue[1].row.inst = queue[2].inst /\ row = queue[2].row
    BY <1>1, <1>3, <1>5, LastOne DEF LinkInv, Waiting
  <2>2. row' = Applied(queue[1]) \/ row' = row
    BY <2>1 DEF Land
  <2>3. Applied(queue[1]) = queue[1].row
    BY <2>1 DEF Applied
  <2>4. \A n \in DOMAIN queue' : queue'[n] = queue[2]
    BY <2>1
  <2>5. Waiting'
    BY <2>1, <2>2, <2>3, <2>4 DEF Waiting
  <2> QED
    BY <1>2, <2>5 DEF LinkInv
<1> QED
  BY <1>3, <1>4, <1>5

LEMMA LinkNext ==
  ASSUME LicenseAssumption, Typed, Order, KeyInv, News, LinkInv, [Next]_vars
  PROVE  LinkInv'
<1> SUFFICES ASSUME Works', Works PROVE LinkInv'
  BY WorksBefore DEF LinkInv
<1>1. ASSUME NEW h \in Handlers, Handler(h) PROVE LinkInv'
  <2>1. CASE \/ \E role \in Roles, k \in Keys : (role = "activate" \/ k = 1) /\ Start(h, role, k)
             \/ Capture(h) \/ Load(h) \/ Ask(h) \/ Plan(h) \/ Confirm(h) \/ FindKey(h)
    BY <2>1, LinkReads DEF Looks
  <2>2. CASE Commit(h) \/ Mint(h) \/ Unlink(h) \/ Clear(h)
    BY <2>2, LinkCommit, LinkMint, LinkUnlink, LinkClear
  <2>3. CASE Teardown(h) \/ Stray(h) \/ Sweep(h) \/ Credential(h)
    BY <2>3, LinkMoves
  <2>4. CASE Persist(h) \/ Save(h) \/ Restore(h)
    BY <2>4, LinkPersist, LinkSave, LinkRestore
  <2>5. CASE Rekey(h) \/ Forget(h) \/ Reread(h) \/ Tombstone(h)
    BY <2>5, LinkRekey
  <2>6. CASE Released(h) \/ Recorded(h)
    BY <2>6, LinkHandle
  <2> QED
    BY <1>1, <2>1, <2>2, <2>3, <2>4, <2>5, <2>6 DEF Handler
<1>2. CASE Refresh /\ ~Adopt
  <2>1. Only(Loop) /\ Loop \in Actors /\ Loop \notin Handlers
    BY <1>2, RefreshModest, LoopFacts DEF Modest, Hands
  <2>2. CASE Tick \/ (\E r \in drain.left : Retry(r)) \/ Settle
    <3>1. UNCHANGED <<row, queue, key, keyOf>>
      BY <2>2 DEF Tick, Retry, Settle, local, ring, remote
    <3> QED
      BY <2>1, <3>1, LinkQuiet DEF KeysStay
  <2>3. CASE Look \/ FindToken \/ Fetch \/ Reject
    <3>1. UNCHANGED <<row, queue, key, keyOf>>
      BY <2>3 DEF Look, FindToken, Fetch, Reject, local, ring, remote
    <3> QED
      BY <2>1, <3>1, LinkQuiet DEF KeysStay
  <2> QED
    BY <1>2, <2>2, <2>3 DEF Refresh
<1>3. ASSUME NEW a \in Actors, Ensure(a) \/ Check(a) \/ Issue(a) PROVE LinkInv'
  <2>1. UNCHANGED <<row, queue, key, keyOf>> /\ job[a].pc \in Ensuring
    BY <1>3 DEF Ensure, Check, Issue, local, ring, remote, At, Ensuring
  <2>2. /\ Only(a)
        /\ job'[a].pc \in {"over", "idle", "fetch", "capture"} \cup Guarding
    <3>1. CASE \E got \in BOOLEAN : AfterEnsure(a, got)
      BY <2>1, <3>1, AfterEnsureHands DEF Hands
    <3>2. CASE \E p \in Guarding : Goto(a, p)
      BY <2>1, <3>2, GuardingHands DEF Hands
    <3> QED
      BY <1>3, <3>1, <3>2 DEF Ensure, Check, Issue, Guarding
  <2>3. a \in Handlers => Unlinking(job[a])'
    BY <2>2 DEF Unlinking, Unlinked, Guarding
  <2> QED
    BY <2>1, <2>2, <2>3, LinkQuiet DEF KeysStay
<1>4. CASE Turn \/ UNCHANGED vars
  <2>1. UNCHANGED <<row, queue, key, keyOf, job>>
    BY <1>4 DEF Turn, vars, local, ring, remote
  <2> QED
    BY <2>1 DEF LinkInv, Waiting, Unlinking
<1>5. CASE \E backup \in Backups : Import(backup)
  BY <1>5 DEF Import, Works
<1> QED
  BY <1>1, <1>2, <1>3, <1>4, <1>5, LinkAdopt, LinkLand DEF Next

LEMMA LinkInit == ASSUME LicenseAssumption, Init PROVE LinkInv
<1>1. queue = <<>> /\ \A h \in Handlers : job[h].pc = "idle"
  BY DEF Init, NoJob, Actors
<1> QED
  BY <1>1 DEF LinkInv, Waiting, Unlinking, Unlinked

-----------------------------------------------------------------------------
(* The invariant, sixth part: the seats.                                   *)

\* The row stands for the installation, also when the first of what waits is
\* done.
Installed(i) == row.inst = i /\ (queue = <<>> \/ Applied(queue[1]).inst = i)

OwedStill(i, side) == <<keyOf[i], i, side>> \in owed \ drain.settled

\* There is no seat, or nobody here can release it, or it is owed.
Gone(i) ==
    \/ i \notin seats \/ <<i, "provider">> \in stranded
    \/ OwedStill(i, "provider")

\* A command has the seat of the installation to bring in or to release.
Bringing == {"teardown", "releaseOld", "recordOld", "stray", "persist", "save", "rekey",
             "restore", "releaseNew", "recordNew"}
Tends(h, j, i) ==
    \/ j.role = "activate" /\ h = i /\ j.pc \in Bringing
    \/ j.role = "deactivate" /\ j.old = i /\ j.pc \in Unlinked

\* The seat of the installation that is replaced is gone: after the own seat
\* was released, after its release, and while the row is written.
Owning == Ensuring \cup {"releaseOwn", "recordOwn"}
Changing == {"persist", "save", "rekey", "restore"}
Replacing(j) ==
    /\ j.role = "activate" /\ j.again /\ j.pc \notin Owning
         => (keyOf[j.old] = j.key => Gone(j.old))
    /\ j.role = "activate" /\ j.plan = "teardown" /\ j.pc \in Changing
         => (keyOf[j.old] = j.oldKey => Gone(j.old))
    /\ Writing(j) /\ j.prev # NoRow => Gone(j.old)

\* What a pass has settled is released, or cannot be.
Settling ==
    \A r \in drain.settled : r[3] = "provider" /\ keyOf[r[2]] = r[1] =>
        r[2] \notin seats \/ <<r[2], "provider">> \in stranded

SeatInv ==
    Works =>
      /\ \A i \in Insts : \/ Gone(i) \/ Installed(i)
                          \/ \E h \in Handlers : Tends(h, job[h], i)
      /\ Settling /\ \A h \in Handlers : Replacing(job[h])

\* What is gone stays so, except that an installation is minted.
Steady(i) == keyOf'[i] = keyOf[i] /\ (Gone(i) => Gone(i)')

Frugal ==
    /\ UNCHANGED <<keyOf, drain>> /\ seats' \subseteq seats
    /\ stranded \subseteq stranded' /\ owed \subseteq owed'
    /\ creds' \subseteq creds /\ overtaken \subseteq overtaken'

LEMMA HandlerFrugal ==
  ASSUME NEW h \in Handlers, Handler(h), ~Mint(h)
  PROVE  Frugal
<1>1. CASE \E role \in Roles, k \in Keys : (role = "activate" \/ k = 1) /\ Start(h, role, k)
  BY <1>1 DEF Start, ring, debts, remote, Frugal
<1>2. CASE Capture(h) \/ Load(h) \/ Ask(h)
  BY <1>2 DEF Capture, Load, Ask, ring, debts, remote, Frugal
<1>3. CASE Plan(h) \/ Confirm(h) \/ FindKey(h)
  BY <1>3 DEF Plan, Confirm, FindKey, ring, debts, remote, Frugal
<1>4. CASE Commit(h)
  BY <1>4 DEF Commit, ring, debts, remote, Frugal
<1>5. CASE Teardown(h) \/ Sweep(h) \/ Credential(h)
  BY <1>5 DEF Teardown, Sweep, Credential, ReleaseCredential, Owe, ring, debts, remote, Frugal
<1>6. CASE Stray(h) \/ Persist(h)
  BY <1>6 DEF Stray, Persist, debts, remote, Frugal
<1>7. CASE Save(h) \/ Rekey(h) \/ Restore(h)
  BY <1>7 DEF Save, Rekey, Restore, ring, debts, remote, Frugal
<1>8. CASE Unlink(h) \/ Clear(h)
  BY <1>8 DEF Unlink, Clear, ring, debts, remote, Frugal
<1>9. CASE Forget(h) \/ Reread(h) \/ Tombstone(h)
  BY <1>9 DEF Forget, Reread, Tombstone, Out, Owe, ring, debts, remote, Frugal
<1>10. CASE Released(h)
  BY <1>10 DEF Released, Freed, ring, debts, Frugal
<1>11. CASE Recorded(h)
  BY <1>11 DEF Recorded, Owe, debts, remote, Frugal
<1> QED
  BY <1>1, <1>2, <1>3, <1>4, <1>5, <1>6, <1>7, <1>8, <1>9, <1>10, <1>11 DEF Handler

LEMMA FrugalSteady ==
  ASSUME Frugal, Settling
  PROVE  Settling' /\ \A i : Steady(i)
BY DEF Frugal, Settling, Steady, Gone, OwedStill

LEMMA MintSteady ==
  ASSUME LicenseAssumption, Typed, News, Settling, NEW h \in Handlers, Mint(h)
  PROVE  Settling' /\ \A i \in Insts : i # h => Steady(i)
<1>1. /\ \A i \in Insts : i # h => keyOf'[i] = keyOf[i]
      /\ Unsaved(job[h]) /\ Unheard(h)
  BY MintKeys, RoleOf DEF Mint, At, Early, Unsaved, News
<1>2. /\ seats' \subseteq seats \cup {h} /\ stranded \subseteq stranded'
      /\ UNCHANGED <<owed, drain>>
  BY DEF Mint, Minted, ring, debts
<1>3. \A i \in Insts : i # h => Steady(i)
  BY <1>1, <1>2 DEF Steady, Gone, OwedStill
<1>4. \A r \in drain.settled : r[2] # h /\ r[2] \in Insts
  BY <1>1 DEF Unheard, Debts, Typed, TypeOK, Release
<1>5. Settling'
  BY <1>1, <1>2, <1>4 DEF Settling
<1> QED
  BY <1>3, <1>5

LEMMA LoopSteady ==
  ASSUME LicenseAssumption, Typed, Settling, Refresh
  PROVE  Settling' /\ \A i \in Insts : Steady(i)
<1>1. CASE Tick
  BY <1>1 DEF Tick, Settling, Steady, Gone, OwedStill, ring, debts, remote
<1>2. ASSUME NEW r \in drain.left, Retry(r)
      PROVE  Settling' /\ \A i \in Insts : Steady(i)
  <2>1. /\ seats' \subseteq seats /\ stranded \subseteq stranded' /\ UNCHANGED <<owed, keyOf>>
        /\ drain'.settled \in {drain.settled, drain.settled \cup {r}}
    BY <1>2 DEF Retry, Freed, ring, debts, Typed, TypeOK
  <2>2. r \in drain'.settled \ drain.settled /\ r[3] = "provider" /\ keyOf[r[2]] = r[1] =>
          r[2] \notin seats' \/ <<r[2], "provider">> \in stranded'
    BY <1>2 DEF Retry, Freed, Typed, TypeOK
  <2>3. Settling'
    BY <2>1, <2>2 DEF Settling
  <2>4. \A i \in Insts : OwedStill(i, "provider") => Gone(i)'
    <3>1. SUFFICES ASSUME NEW i \in Insts, OwedStill(i, "provider"), ~OwedStill(i, "provider")'
                   PROVE  Gone(i)'
      BY DEF Gone
    <3>2. r = <<keyOf[i], i, "provider">> /\ r \in drain'.settled \ drain.settled
      BY <2>1, <3>1 DEF OwedStill
    <3> QED
      BY <2>2, <3>2 DEF Gone
  <2>5. \A i \in Insts : Steady(i)
    BY <2>1, <2>4 DEF Steady, Gone
  <2> QED
    BY <2>3, <2>5
<1>3. CASE Settle
  BY <1>3 DEF Settle, Unsettled, NoDrain, Settling, Steady, Gone, OwedStill, remote
<1>4. CASE Look \/ FindToken \/ Fetch \/ Reject \/ Adopt
  <2>1. Frugal
    <3>1. CASE Adopt
      BY <3>1 DEF Adopt, ring, debts, remote, Frugal
    <3> QED
      BY <1>4, <3>1 DEF Look, FindToken, Fetch, Reject, ring, debts, remote, Frugal
  <2> QED
    BY <2>1, FrugalSteady
<1> QED
  BY <1>1, <1>2, <1>3, <1>4 DEF Refresh

LEMMA OthersSteady ==
  ASSUME Settling,
         \/ \E a \in Actors : Ensure(a) \/ Check(a) \/ Issue(a)
         \/ Land \/ Turn \/ UNCHANGED vars
  PROVE  Settling' /\ \A i \in Insts : Steady(i)
<1>1. UNCHANGED <<keyOf, seats, stranded, owed, drain>>
  <2>1. CASE \E a \in Actors : Ensure(a) \/ Check(a) \/ Issue(a)
    BY <2>1 DEF Ensure, Check, Issue, ring, debts, remote
  <2>2. CASE Land \/ Turn \/ UNCHANGED vars
    BY <2>2 DEF Land, Turn, vars, ring, debts, remote
  <2> QED
    BY <2>1, <2>2
<1> QED
  BY <1>1 DEF Settling, Steady, Gone, OwedStill

\* The installation that Replacing speaks of.
LEMMA ReplacingOld ==
  ASSUME LicenseAssumption, Typed, KeyInv, Works, NEW h \in Handlers
  PROVE  /\ job[h].role = "activate" /\ job[h].again => job[h].old \in Insts
         /\ job[h].role = "activate" /\ job[h].plan = "teardown" => job[h].old \in Insts
         /\ Writing(job[h]) /\ job[h].prev # NoRow =>
              job[h].old \in Insts /\ job[h].old = job[h].prev.inst
<1>1. job[h].role = "activate" => AgainOK(job[h]) /\ PlanOK(job[h])
  BY RoleOf DEF ActivateOK
<1>2. job[h].prev \in Row /\ RowOK(job[h].prev)
  BY RoleOf DEF JobOK
<1>3. Writing(job[h]) => job[h].prev.inst = job[h].old
  BY DEF KeyInv, Fitting, KeyJob
<1>4. job[h].prev # NoRow => job[h].prev.inst \in Insts
  BY <1>2 DEF RowOK, Row
<1> QED
  BY <1>1, <1>3, <1>4 DEF AgainOK, PlanOK

LEMMA ReplacingStays ==
  ASSUME LicenseAssumption, Typed, KeyInv, Works, NEW h \in Handlers, Replacing(job[h]),
         job[h].old \in Insts => Steady(job[h].old),
         /\ job'[h].role = job[h].role /\ job'[h].again = job[h].again
         /\ job'[h].plan = job[h].plan /\ job'[h].key = job[h].key
         /\ job'[h].oldKey = job[h].oldKey /\ job'[h].old = job[h].old
         /\ job'[h].prev = job[h].prev,
         job[h].pc \in Owning => job'[h].pc \in Owning \/ ~job[h].again,
         job'[h].pc \in Changing => job[h].pc \in Changing \/ job[h].plan # "teardown",
         Writing(job'[h]) => Writing(job[h])
  PROVE  Replacing(job[h])'
BY ReplacingOld DEF Replacing, Steady

LEMMA SeatStep ==
  ASSUME LicenseAssumption, Typed, KeyInv, News, SeatInv, Works, NEW a \in Actors, Only(a),
         Settling',
         \A i \in Insts :
           \/ Steady(i)
           \/ /\ a \in Handlers /\ Unsaved(job[a]) /\ i = a
              /\ Gone(i)' \/ Tends(a, job'[a], i),
         \A i \in Insts : Installed(i) =>
           Installed(i)' \/ Gone(i)' \/ (a \in Handlers /\ Tends(a, job'[a], i)),
         a \in Handlers =>
           /\ Replacing(job[a])'
           /\ \A i \in Insts : Tends(a, job[a], i) =>
                Tends(a, job'[a], i) \/ Gone(i)' \/ Installed(i)'
  PROVE  SeatInv'
<1>1. ASSUME NEW h \in Handlers, h # a PROVE Replacing(job[h])'
  <2>1. job'[h] = job[h] /\ Replacing(job[h])
    BY <1>1 DEF Only, SeatInv, Actors
  <2>2. job[h].old \in Insts => Steady(job[h].old)
    BY <1>1 DEF News, Unheard, Actors
  <2> QED
    BY <2>1, <2>2, ReplacingStays
<1>2. ASSUME NEW i \in Insts
      PROVE  Gone(i)' \/ Installed(i)' \/ \E h \in Handlers : Tends(h, job'[h], i)
  <2>1. CASE Gone(i) \/ ~Steady(i)
    BY <1>2, <2>1 DEF Steady
  <2>2. CASE Installed(i)
    BY <1>2, <2>2
  <2>3. ASSUME NEW h \in Handlers, Tends(h, job[h], i)
        PROVE  Gone(i)' \/ Installed(i)' \/ Tends(h, job'[h], i)
    <3>1. h # a => job'[h] = job[h]
      BY DEF Only, Actors
    <3> QED
      BY <1>2, <2>3, <3>1
  <2> QED
    BY <2>1, <2>2, <2>3 DEF SeatInv
<1> QED
  BY <1>1, <1>2 DEF SeatInv

LEMMA InstalledSame ==
  ASSUME UNCHANGED <<row, queue>>
  PROVE  \A i \in Insts : Installed(i)' <=> Installed(i)
BY DEF Installed, Applied

\* A step from one point of a command to another, of which the row knows
\* nothing.
LEMMA SeatGoto ==
  ASSUME LicenseAssumption, Typed, KeyInv, News, SeatInv, Works, NEW h \in Handlers,
         Frugal, UNCHANGED <<row, queue>>, NEW p \in PC, Goto(h, p),
         job[h].role = "activate" /\ job[h].pc \in Bringing => p \in Bringing \/ Gone(h)',
         job[h].role = "deactivate" /\ job[h].pc \in Unlinked => p \in Unlinked,
         Replacing(job[h])'
  PROVE  SeatInv'
<1>1. /\ h \in Actors /\ Only(h) /\ job'[h].pc = p /\ job'[h].role = job[h].role
      /\ job'[h].old = job[h].old
  BY HandlerGoto DEF Only
<1>2. Settling' /\ \A i : Steady(i)
  BY FrugalSteady DEF SeatInv
<1>3. \A i \in Insts : Installed(i)' <=> Installed(i)
  BY DEF Installed, Applied
<1>4. \A i \in Insts : Tends(h, job[h], i) => Tends(h, job'[h], i) \/ Gone(i)'
  BY <1>1 DEF Tends
<1> QED
  BY <1>1, <1>2, <1>3, <1>4, SeatStep

LEMMA SeatDone ==
  ASSUME LicenseAssumption, Typed, KeyInv, News, SeatInv, Works, NEW h \in Handlers,
         Frugal, UNCHANGED <<row, queue>>, Done(h),
         \A i \in Insts : Tends(h, job[h], i) => Gone(i)' \/ Installed(i)
  PROVE  SeatInv'
<1>1. h \in Actors /\ Only(h) /\ job'[h].pc = "over" /\ job'[h].role = "none"
  BY RoleOf, HandsDone DEF Hands
<1>2. Settling' /\ \A i : Steady(i)
  BY FrugalSteady DEF SeatInv
<1>3. \A i \in Insts : Installed(i)' <=> Installed(i)
  BY InstalledSame
<1>4. \A i \in Insts : Tends(h, job[h], i) => Gone(i)' \/ Installed(i)'
  BY <1>3
<1>5. Replacing(job[h])'
  BY <1>1 DEF Replacing, Writing
<1> QED
  BY <1>1, <1>2, <1>3, <1>4, <1>5, SeatStep

\* The steps of a command that only look.
LEMMA SeatReads ==
  ASSUME LicenseAssumption, Typed, KeyInv, News, SeatInv, Works, NEW h \in Handlers,
         Looks(h)
  PROVE  SeatInv'
<1>1. Frugal /\ UNCHANGED <<row, queue>>
  BY LooksKeeps DEF ring, debts, remote, Frugal
<1>2. /\ h \in Actors /\ Only(h)
      /\ job'[h].pc \in {"capture", "load", "ask", "plan", "commit", "ensure", "recheck",
                         "mint", "over"}
      /\ job[h].pc \in {"idle", "capture", "load", "ask", "plan", "recheck"}
  BY LooksKeeps, ModestReads, RoleOf DEF Modest, Hands
<1>3. Settling' /\ \A i : Steady(i)
  BY <1>1, FrugalSteady DEF SeatInv
<1>4. \A i \in Insts : Installed(i)' <=> Installed(i)
  BY <1>1 DEF Installed, Applied
<1>5. \A i \in Insts : ~Tends(h, job[h], i)
  BY <1>2 DEF Tends, Bringing, Unlinked
<1>6. job'[h].role = "activate" => ~job'[h].again
  <2>1. job[h].role = "activate" => ~job[h].again
    <3>1. job[h].role = "activate" => job[h].pc \in {"load", "plan", "recheck"}
      BY <1>2, RoleOf DEF NoJob
    <3>2. job[h].role = "activate" => AgainOK(job[h]) /\ job[h].again \in BOOLEAN
      BY RoleOf DEF ActivateOK, Job
    <3> QED
      BY <3>1, <3>2 DEF AgainOK
  <2>2. ASSUME NEW role, NEW k, Start(h, role, k) PROVE ~job'[h].again
    <3>1. job[h] = NoJob /\ job \in [Actors -> Job] /\ h \in Actors
      BY <2>2, RoleOf DEF Start, At
    <3>2. job'[h].again = job[h].again
      BY <2>2, <3>1 DEF Start, NoJob
    <3> QED
      BY <3>1, <3>2 DEF NoJob
  <2>3. CASE Done(h)
    BY <1>2, <2>3, HandsDone
  <2>4. CASE ~Done(h) /\ (Capture(h) \/ Load(h) \/ Ask(h))
    <3>1. /\ job'[h].role = job[h].role /\ job'[h].again = job[h].again
      BY <2>4, RoleOf DEF Capture, Load, Ask, Goto, Job
    <3> QED
      BY <2>1, <3>1
  <2>5. CASE ~Done(h) /\ (Plan(h) \/ Confirm(h) \/ FindKey(h))
    <3>1. /\ job'[h].role = job[h].role /\ job'[h].again = job[h].again
      BY <2>5, RoleOf DEF Plan, Confirm, FindKey, Goto, Job
    <3> QED
      BY <2>1, <3>1
  <2> QED
    BY <2>2, <2>3, <2>4, <2>5 DEF Looks
<1>7. Replacing(job[h])'
  BY <1>2, <1>6 DEF Replacing, Writing, Changing
<1> QED
  BY <1>2, <1>3, <1>4, <1>5, <1>7, SeatStep

LEMMA SeatMint ==
  ASSUME LicenseAssumption, Typed, KeyInv, News, SeatInv, Works, NEW h \in Handlers,
         Mint(h), Typed'
  PROVE  SeatInv'
<1>1. /\ h \in Actors /\ Only(h) /\ Unsaved(job[h]) /\ h \in Insts
      /\ job[h].role = "activate" /\ job[h].pc \in {"mint", "remint"}
      /\ UNCHANGED <<row, queue>>
  BY ModestMint, RoleOf, Names DEF Modest, Hands, Mint, At, Early, Unsaved, local
<1>2. Settling' /\ \A i \in Insts : i # h => Steady(i)
  BY MintSteady DEF SeatInv
<1>3. \A i \in Insts : Installed(i)' <=> Installed(i)
  BY <1>1 DEF Installed, Applied
<1>4. \A i \in Insts : ~Tends(h, job[h], i)
  BY <1>1 DEF Tends, Bringing
<1>5. job[h].old # h /\ job[h] \in Job /\ job \in [Actors -> Job]
  BY <1>1, RoleOf DEF News, Unheard
<1>6. Steady(h) \/ Gone(h)' \/ Tends(h, job'[h], h)
  <2>1. CASE UNCHANGED <<seats, keyOf, stranded>>
    BY <2>1 DEF Mint, Steady, Gone, OwedStill, ring, debts
  <2>2. CASE \E p \in {"teardown", "releaseNew"} :
               job' = [job EXCEPT ![h].new = h, ![h].verdict = truth, ![h].pc = p]
    <3>1. job'[h].role = "activate" /\ job'[h].pc \in {"teardown", "releaseNew"}
      BY <1>1, <1>5, <2>2 DEF Job
    <3> QED
      BY <3>1 DEF Tends, Bringing
  <2>3. CASE stranded' = stranded \cup {<<h, "provider">>}
    BY <2>3 DEF Gone
  <2> QED
    BY <2>1, <2>2, <2>3 DEF Mint, Minted
<1>7. Replacing(job[h])'
  <2>1. CASE Done(h)
    BY <1>1, <2>1, HandsDone DEF Replacing, Writing
  <2>2. CASE \E p \in {"teardown", "releaseNew"} :
               job' = [job EXCEPT ![h].new = h, ![h].verdict = truth, ![h].pc = p]
    <3>1. /\ job'[h].pc \in {"teardown", "releaseNew"} /\ job'[h].again = job[h].again
          /\ job'[h].role = job[h].role /\ job'[h].plan = job[h].plan
          /\ job'[h].key = job[h].key /\ job'[h].oldKey = job[h].oldKey
          /\ job'[h].old = job[h].old /\ job'[h].prev = job[h].prev
      BY <1>1, <1>5, <2>2 DEF Job
    <3>2. job[h].old \in Insts => Steady(job[h].old)
      BY <1>2, <1>5
    <3>3. job'[h].pc \notin Changing /\ ~Writing(job'[h]) /\ job[h].pc \notin Owning
      BY <1>1, <3>1 DEF Changing, Writing, Owning, Ensuring
    <3>4. Replacing(job[h])
      BY DEF SeatInv
    <3> QED
      BY <3>1, <3>2, <3>3, <3>4, ReplacingStays
  <2>3. CASE job' = [job EXCEPT ![h].pc = "releaseOwn", ![h].again = TRUE]
    <3>1. job'[h].pc = "releaseOwn"
      BY <1>1, <1>5, <2>3 DEF Job
    <3> QED
      BY <3>1 DEF Replacing, Owning, Changing, Writing
  <2> QED
    BY <2>1, <2>2, <2>3 DEF Mint, Minted
<1> QED
  BY <1>1, <1>2, <1>3, <1>4, <1>6, <1>7, SeatStep

LEMMA GotoReplacing ==
  ASSUME LicenseAssumption, Typed, KeyInv, SeatInv, Works, NEW h \in Handlers,
         Frugal, NEW p \in PC, Goto(h, p),
         job[h].pc \in Owning => p \in Owning \/ ~job[h].again,
         p \in Changing => job[h].pc \in Changing \/ job[h].plan # "teardown",
         p \in {"save", "rekey", "restore"} => Writing(job[h])
  PROVE  Replacing(job[h])'
<1>1. /\ job'[h].pc = p /\ job'[h].role = job[h].role /\ job'[h].again = job[h].again
      /\ job'[h].plan = job[h].plan /\ job'[h].key = job[h].key
      /\ job'[h].oldKey = job[h].oldKey /\ job'[h].old = job[h].old
      /\ job'[h].prev = job[h].prev
  BY HandlerGoto
<1>2. Replacing(job[h]) /\ \A i : Steady(i)
  BY FrugalSteady DEF SeatInv
<1>3. Writing(job'[h]) => Writing(job[h])
  BY <1>1 DEF Writing
<1> QED
  BY <1>1, <1>2, <1>3, ReplacingStays

LEMMA SeatMoves ==
  ASSUME LicenseAssumption, Typed, KeyInv, News, SeatInv, Works, NEW h \in Handlers,
         Stray(h) \/ Sweep(h) \/ Credential(h) \/ Rekey(h), Frugal
  PROVE  SeatInv'
<1>1. /\ UNCHANGED <<row, queue>> /\ job[h].pc \in {"stray", "sweep", "credential", "rekey"}
      /\ job[h].pc \in {"stray", "sweep", "rekey"} => job[h].role = "activate"
      /\ job[h].pc = "credential" => job[h].role = "deactivate"
      /\ job[h].pc = "stray" => job[h].plan = "fresh"
  BY RoleOf DEF Stray, Sweep, Credential, Rekey, ReleaseCredential, local, At, Unwritten,
     Late, ActivateOK, PlanOK
<1>2. PICK p \in {"persist", "releaseNew", "ensure", "releaseSeat", "restore"} :
        /\ Goto(h, p)
        /\ p \in {"persist", "releaseNew"} => job[h].pc = "stray"
        /\ p = "ensure" => job[h].pc = "sweep"
        /\ p = "releaseSeat" => job[h].pc = "credential"
        /\ p = "restore" => job[h].pc = "rekey"
  BY DEF Stray, Sweep, Credential, Rekey, At
<1>3. p \in PC
  BY DEF PC
<1>4. job[h].pc \notin Owning
  BY <1>1 DEF Owning, Ensuring
<1>5. /\ p \in Changing => job[h].pc \in Changing \/ job[h].plan # "teardown"
      /\ p \in {"save", "rekey", "restore"} => Writing(job[h])
  BY <1>1, <1>2 DEF Changing, Writing
<1>6. Replacing(job[h])'
  BY <1>2, <1>3, <1>4, <1>5, GotoReplacing
<1>7. /\ job[h].role = "activate" /\ job[h].pc \in Bringing => p \in Bringing
      /\ job[h].role = "deactivate" /\ job[h].pc \in Unlinked => p \in Unlinked
  BY <1>1, <1>2 DEF Bringing, Unlinked
<1> QED
  BY <1>1, <1>2, <1>3, <1>6, <1>7, SeatGoto

LEMMA SeatTeardown ==
  ASSUME LicenseAssumption, Typed, KeyInv, News, SeatInv, Works, NEW h \in Handlers,
         Teardown(h), Frugal
  PROVE  SeatInv'
<1>1. /\ UNCHANGED <<row, queue>> /\ job[h].pc = "teardown" /\ job[h].role = "activate"
      /\ AgainOK(job[h]) /\ job[h].again \in BOOLEAN
  BY RoleOf DEF Teardown, ReleaseCredential, local, At, Unwritten, ActivateOK, Job
<1>2. PICK p \in {"stray", "releaseOld", "persist"} :
        Goto(h, p) /\ (p = "persist" => job[h].again /\ job[h].plan = "teardown")
  BY DEF Teardown
<1>3. p \in PC /\ p \in Bringing /\ job[h].pc \notin Owning
  BY <1>1 DEF PC, Bringing, Owning, Ensuring
<1>4. Replacing(job[h])'
  <2>1. CASE p # "persist"
    <3>1. p \notin Changing
      BY <2>1 DEF Changing
    <3> QED
      BY <1>2, <1>3, <3>1, GotoReplacing DEF Changing
  <2>2. CASE p = "persist"
    <3>4. "persist" \in PC /\ Goto(h, "persist")
      BY <1>2, <1>3, <2>2
    <3>1. /\ job'[h].pc = "persist" /\ job'[h].key = job[h].key
          /\ job'[h].oldKey = job[h].oldKey /\ job'[h].old = job[h].old
      BY <3>4, HandlerGoto
    <3>2. /\ job[h].oldKey = job[h].key
          /\ keyOf[job[h].old] = job[h].key => Gone(job[h].old)
      BY <1>1, <1>2, <1>3, <2>2 DEF AgainOK, SeatInv, Replacing
    <3>3. Steady(job[h].old) /\ ~Writing(job'[h])
      BY <3>1, FrugalSteady DEF SeatInv, Writing
    <3> QED
      BY <3>1, <3>2, <3>3 DEF Replacing, Steady
  <2> QED
    BY <2>1, <2>2
<1> QED
  BY <1>1, <1>2, <1>3, <1>4, SeatGoto

LEMMA SeatPersist ==
  ASSUME LicenseAssumption, Typed, Order, KeyInv, News, SeatInv, Works, NEW h \in Handlers,
         Persist(h), Frugal
  PROVE  SeatInv'
<1>1. /\ UNCHANGED <<row, queue>> /\ job[h].pc = "persist" /\ job[h].role = "activate"
      /\ PlanOK(job[h]) /\ license = Nobody /\ job \in [Actors -> Job] /\ h \in Actors
      /\ job[h].plan \in {"none", "active", "teardown", "fresh"}
      /\ job[h] \in Job
  BY RoleOf DEF Persist, local, At, Unwritten, ActivateOK, Job
<1>2. CASE Goto(h, "releaseNew")
  <2>1. /\ "releaseNew" \in PC /\ "releaseNew" \in Bringing /\ "releaseNew" \notin Changing
        /\ job[h].pc \notin Owning
    BY <1>1 DEF PC, Bringing, Changing, Owning, Ensuring
  <2>2. Replacing(job[h])'
    BY <1>2, <2>1, GotoReplacing DEF Changing
  <2> QED
    BY <1>1, <1>2, <2>1, <2>2, SeatGoto
<1>3. CASE /\ queue = <<>> /\ SnapshotUnchanged(h)
           /\ job' = [job EXCEPT ![h].pc = "save", ![h].prev = row]
  <2>1. /\ job'[h].pc = "save" /\ job'[h].role = job[h].role /\ job'[h].again = job[h].again
        /\ job'[h].plan = job[h].plan /\ job'[h].key = job[h].key
        /\ job'[h].oldKey = job[h].oldKey /\ job'[h].old = job[h].old
        /\ job'[h].prev = row /\ Only(h)
    BY <1>1, <1>3 DEF Job, Only
  <2>2. Settling' /\ \A i : Steady(i)
    BY FrugalSteady DEF SeatInv
  <2>3. \A g \in Handlers : ~Writing(job[g])
    BY <1>1, Alone DEF Writing
  <2>4. Fits(row, job[h].oldKey) /\ row.inst = job[h].old
    BY <1>1, <1>3, <2>3, RowKey DEF SnapshotUnchanged
  <2>5. row # NoRow => Gone(job[h].old)
    <3> SUFFICES ASSUME row # NoRow PROVE Gone(job[h].old)
      OBVIOUS
    <3>1. job[h].old # NoInst
      BY <2>4 DEF Typed, Rows, RowOK
    <3>2. CASE job[h].oldKey = NoKey
      BY <2>4, <3>2 DEF Fits, Gone, Sides
    <3>3. CASE job[h].oldKey # NoKey
      <4>1. job[h].plan = "teardown"
        BY <1>1, <3>1, <3>3 DEF PlanOK, Ensuring
      <4>2. Replacing(job[h])
        BY DEF SeatInv
      <4> QED
        BY <1>1, <2>4, <3>3, <4>1, <4>2 DEF Replacing, Changing, Fits
    <3> QED
      BY <3>2, <3>3
  <2>6. Replacing(job[h])'
    <3>1. Replacing(job[h]) /\ job[h].pc \notin Owning /\ job[h].pc \in Changing
      BY <1>1 DEF SeatInv, Owning, Ensuring, Changing
    <3>2. job[h].role = "activate" /\ (job[h].again \/ job[h].plan = "teardown")
            => job[h].old \in Insts
      BY ReplacingOld
    <3> QED
      BY <2>1, <2>2, <2>5, <3>1 DEF Replacing, Steady
  <2>7. \A i \in Insts : Tends(h, job[h], i) => Tends(h, job'[h], i)
    BY <1>1, <2>1 DEF Tends, Bringing
  <2> QED
    BY <1>1, <2>1, <2>2, <2>6, <2>7, InstalledSame, SeatStep
<1> QED
  BY <1>2, <1>3 DEF Persist

LEMMA SeatUnlink ==
  ASSUME LicenseAssumption, Typed, KeyInv, News, SeatInv, Works, NEW h \in Handlers,
         Unlink(h), Frugal
  PROVE  SeatInv'
<1>1. /\ UNCHANGED <<row, queue>> /\ job[h].pc = "recheck" /\ job[h].role = "deactivate"
  BY DEF Unlink, local, At
<1>2. job[h].pc \notin Owning \cup Unlinked \cup Bringing
  BY <1>1 DEF Owning, Ensuring, Unlinked, Bringing
<1>3. CASE Done(h)
  BY <1>1, <1>2, <1>3, SeatDone DEF Tends
<1>4. CASE Goto(h, "clear")
  <2>1. "clear" \in PC /\ "clear" \notin Changing
    BY DEF PC, Changing
  <2>2. Replacing(job[h])'
    BY <1>2, <1>4, <2>1, GotoReplacing DEF Changing
  <2> QED
    BY <1>1, <1>2, <1>4, <2>1, <2>2, SeatGoto
<1> QED
  BY <1>3, <1>4 DEF Unlink

\* A seat that is released under its key, or whose release is recorded.
LEMMA FreedGone ==
  ASSUME NEW k, NEW i, keyOf' = keyOf, keyOf[i] = k,
         \/ seats' = Freed(k, i)
         \/ stranded' = stranded \cup {<<i, "provider">>}
  PROVE  Gone(i)'
BY DEF Freed, Gone

LEMMA OwedGone ==
  ASSUME Settling, Frugal, NEW k, NEW i, keyOf[i] = k,
         <<k, i, "provider">> \in owed' \/ <<i, "provider">> \in stranded'
  PROVE  Gone(i)'
<1>1. keyOf'[i] = k
  BY DEF Frugal
<1>2. CASE <<k, i, "provider">> \in drain.settled
  BY <1>2 DEF Settling, Frugal, Gone
<1> QED
  BY <1>1, <1>2 DEF Gone, OwedStill, Frugal

\* What a release leaves: it is recorded, or the seat is gone, if it is asked
\* for under its key.
LEMMA HandleGone ==
  ASSUME LicenseAssumption, Typed, SeatInv, Works, NEW h \in Handlers,
         Released(h) \/ Recorded(h), Frugal, Goon(h, Handle(h).next) /\ ~Goto(h, Handle(h).record)
  PROVE  keyOf[Handle(h).inst] = Handle(h).key =>
           \A i \in Insts : i = Handle(h).inst => Gone(i)'
<1> SUFFICES ASSUME NEW i \in Insts, i = Handle(h).inst, keyOf[i] = Handle(h).key
             PROVE  Gone(i)'
  OBVIOUS
<1>1. CASE Released(h)
  <2>1. seats' = Freed(Handle(h).key, i) \/ stranded' = stranded \cup {<<i, "provider">>}
    BY <1>1 DEF Released
  <2> QED
    BY <2>1, FreedGone DEF Frugal
<1>2. CASE Recorded(h)
  <2>1. <<Handle(h).key, i, "provider">> \in owed' \/ <<i, "provider">> \in stranded'
    BY <1>2 DEF Recorded, Owe
  <2> QED
    BY <2>1, OwedGone DEF SeatInv
<1> QED
  BY <1>1, <1>2

\* Whose release a command has in hand, and when under its key.
LEMMA HandleWhose ==
  ASSUME LicenseAssumption, Typed, KeyInv, LinkInv, Works, NEW h \in Handlers,
         job[h].pc \in Releasing \cup Recording
  PROVE  /\ job[h].pc \in {"releaseNew", "recordNew"} =>
              /\ Handle(h).inst = h /\ keyOf[h] = Handle(h).key /\ Handle(h).next = "over"
              /\ Handle(h).record = "recordNew" /\ job[h].role = "activate"
         /\ job[h].pc \in {"releaseSeat", "recordSeat"} =>
              /\ Handle(h).inst = job[h].old /\ keyOf[job[h].old] = Handle(h).key
              /\ Handle(h).next = "over" /\ Handle(h).record = "recordSeat"
              /\ job[h].role = "deactivate"
         /\ job[h].pc \in {"releaseOwn", "recordOwn"} =>
              /\ Handle(h).inst = job[h].old /\ Handle(h).key = job[h].key
              /\ Handle(h).next = "remint" /\ Handle(h).record = "recordOwn"
              /\ job[h].role = "activate"
         /\ job[h].pc \in {"releaseOld", "recordOld"} =>
              /\ Handle(h).inst = job[h].old /\ Handle(h).record = "recordOld"
              /\ Handle(h).next \in {"persist", "stray"} /\ job[h].role = "activate"
              /\ Handle(h).next = "persist" <=> job[h].plan = "teardown"
              /\ job[h].plan = "teardown" => Handle(h).key = job[h].oldKey
              /\ ~job[h].again
<1>1. CASE job[h].pc \in {"releaseNew", "recordNew"}
  <2>1. /\ job[h].role = "activate" /\ job[h].new = h /\ Minting(h, job[h])
        /\ job[h].plan # "active" /\ job[h].pc \notin Early
    BY <1>1, RoleOf DEF ActivateOK, PlanOK, Late, Early, Ensuring, KeyInv
  <2>2. keyOf[h] = job[h].key
    BY <2>1 DEF Minting
  <2> QED
    BY <1>1, <2>1, <2>2 DEF Handle
<1>2. CASE job[h].pc \in {"releaseSeat", "recordSeat"}
  <2>1. /\ job[h].role = "deactivate" /\ job[h].key \in Keys /\ Unlinking(job[h])
    BY <1>2, RoleOf DEF DeactivateOK, LinkInv
  <2>2. keyOf[job[h].old] = job[h].key
    BY <1>2, <2>1, Names DEF Unlinking, Unlinked
  <2> QED
    BY <1>2, <2>1, <2>2 DEF Handle
<1>3. CASE job[h].pc \in {"releaseOwn", "recordOwn"}
  BY <1>3, RoleOf DEF Handle, Early
<1>4. CASE job[h].pc \in {"releaseOld", "recordOld"}
  <2>1. job[h].role = "activate" /\ AgainOK(job[h]) /\ job[h].again \in BOOLEAN
    BY <1>4, RoleOf DEF ActivateOK, Unwritten, Job
  <2> QED
    BY <1>4, <2>1 DEF Handle, AgainOK
<1> QED
  BY <1>1, <1>2, <1>3, <1>4 DEF Releasing, Recording

LEMMA SeatHandle ==
  ASSUME LicenseAssumption, Typed, KeyInv, News, LinkInv, SeatInv, Works, NEW h \in Handlers,
         Released(h) \/ Recorded(h), Frugal
  PROVE  SeatInv'
<1>1. /\ UNCHANGED <<row, queue>> /\ job[h].pc \in Releasing \cup Recording
      /\ Handle(h).inst \in Insts
  BY HandleFacts DEF Released, Recorded, local, Releasing, Recording
<1>2. CASE Goto(h, Handle(h).record)
  <2>1. /\ Handle(h).record \in PC \ Changing
        /\ job[h].pc \in Owning => Handle(h).record \in Owning
        /\ job[h].pc \in Bringing => Handle(h).record \in Bringing
        /\ job[h].pc \in Unlinked => Handle(h).record \in Unlinked
    BY <1>1 DEF Handle, Releasing, Recording, PC, Changing, Owning, Ensuring, Bringing,
       Unlinked
  <2>2. Replacing(job[h])'
    BY <1>2, <2>1, GotoReplacing DEF Changing
  <2> QED
    BY <1>1, <1>2, <2>1, <2>2, SeatGoto
<1>3. CASE ~Goto(h, Handle(h).record) /\ Goon(h, Handle(h).next)
  <2>1. keyOf[Handle(h).inst] = Handle(h).key =>
          \A i \in Insts : i = Handle(h).inst => Gone(i)'
    BY <1>3, HandleGone
  <2>2. CASE job[h].pc \in {"releaseNew", "recordNew"}
    <3>1. /\ Done(h) /\ job[h].role = "activate" /\ \A i \in Insts : i = h => Gone(i)'
      BY <1>1, <1>3, <2>1, <2>2, HandleWhose DEF Goon
    <3> QED
      BY <1>1, <3>1, SeatDone DEF Tends
  <2>3. CASE job[h].pc \in {"releaseSeat", "recordSeat"}
    <3>1. /\ Done(h) /\ job[h].role = "deactivate"
          /\ \A i \in Insts : i = job[h].old => Gone(i)'
      BY <1>1, <1>3, <2>1, <2>3, HandleWhose DEF Goon
    <3> QED
      BY <1>1, <3>1, SeatDone DEF Tends
  <2>4. CASE job[h].pc \in {"releaseOwn", "recordOwn", "releaseOld", "recordOld"}
    <3>1. PICK p \in {"remint", "persist", "stray"} :
            /\ p = Handle(h).next /\ Goto(h, p)
            /\ p = "remint" <=> job[h].pc \in {"releaseOwn", "recordOwn"}
            /\ p = "persist" => job[h].plan = "teardown"
      BY <1>1, <1>3, <2>4, HandleWhose DEF Goon
    <3>2. /\ p \in PC /\ job[h].role = "activate"
          /\ job[h].pc \in Bringing => p \in Bringing
      BY <1>1, <2>4, <3>1, HandleWhose DEF PC, Bringing
    <3>3. /\ job'[h].pc = p /\ job'[h].key = job[h].key /\ job'[h].old = job[h].old
          /\ job'[h].oldKey = job[h].oldKey /\ job'[h].again = job[h].again
          /\ job'[h].plan = job[h].plan /\ ~Writing(job'[h])
      BY <3>1, <3>2, HandlerGoto DEF Writing
    <3>4. /\ Handle(h).inst = job[h].old
          /\ p = "remint" => Handle(h).key = job[h].key
          /\ p # "remint" => ~job[h].again
          /\ p = "persist" => Handle(h).key = job[h].oldKey
      BY <1>1, <2>4, <3>1, HandleWhose
    <3>5. p \in Changing => p = "persist"
      BY <3>1 DEF Changing
    <3>6. job[h].old \in Insts
      BY <1>1, <3>4
    <3>7. keyOf' = keyOf
      BY DEF Frugal
    <3>8. (p = "remint" /\ keyOf[job[h].old] = job[h].key => Gone(job[h].old)')
      BY <2>1, <3>3, <3>4, <3>6 DEF Gone, OwedStill
    <3>9. (p = "persist" /\ keyOf[job[h].old] = job[h].oldKey => Gone(job[h].old)')
      BY <2>1, <3>3, <3>4, <3>6 DEF Gone, OwedStill
    <3>10. p # "remint" => ~job'[h].again
      BY <3>3, <3>4
    <3>11. Replacing(job[h])'
      BY <3>3, <3>5, <3>7, <3>8, <3>9, <3>10, <3>1 DEF Replacing, Changing
    <3> QED
      BY <1>1, <3>1, <3>2, <3>11, SeatGoto
  <2> QED
    BY <1>1, <2>2, <2>3, <2>4 DEF Releasing, Recording
<1> QED
  BY <1>2, <1>3 DEF Released, Recorded

LEMMA SeatUnlinked ==
  ASSUME LicenseAssumption, Typed, KeyInv, News, LinkInv, SeatInv, Works, NEW h \in Handlers,
         Forget(h) \/ Reread(h) \/ Tombstone(h), Frugal
  PROVE  SeatInv'
<1>1. /\ UNCHANGED <<row, queue>> /\ job[h].pc \in {"forget", "reread", "tombstone"}
      /\ job[h].role = "deactivate" /\ job[h].old \in Insts
      /\ job[h].pc = "tombstone" => job[h].key \in Keys
  BY RoleOf DEF Forget, Reread, Tombstone, local, At, DeactivateOK
<1>2. CASE \E p \in {"credential", "tombstone"} : Goto(h, p)
  <2>1. PICK p \in {"credential", "tombstone"} : Goto(h, p)
    BY <1>2
  <2>2. p \in PC /\ p \in Unlinked /\ p \notin Changing /\ job[h].pc \notin Owning
    BY <1>1 DEF PC, Unlinked, Changing, Owning, Ensuring
  <2>3. Replacing(job[h])'
    BY <2>1, <2>2, GotoReplacing DEF Changing
  <2> QED
    BY <1>1, <2>1, <2>2, <2>3, SeatGoto
<1>3. CASE Done(h)
  <2>1. Gone(job[h].old) \/ Installed(job[h].old) \/ \A i \in Insts : i = job[h].old => Gone(i)'
    <3>1. CASE stranded' = Out(h)
      BY <1>1, <3>1 DEF Out, Sides, Gone
    <3>2. CASE queue = <<>> /\ row.inst = job[h].old
      BY <3>2 DEF Installed
    <3>3. CASE Tombstone(h) /\ Owe({<<job[h].key, job[h].old, side>> : side \in Sides})
      <4>1. keyOf[job[h].old] = job[h].key
        BY <1>1, <3>3, Names DEF Tombstone, At, LinkInv, Unlinking, Unlinked
      <4>2. <<job[h].key, job[h].old, "provider">> \in owed'
        BY <3>3 DEF Owe, Sides
      <4> QED
        BY <4>1, <4>2, OwedGone DEF SeatInv
    <3>4. ~ \E p \in {"credential", "tombstone"} : Goto(h, p)
      <4>1. SUFFICES ASSUME NEW p \in {"credential", "tombstone"}, Goto(h, p) PROVE FALSE
        OBVIOUS
      <4>2. p \in PC /\ p # "over"
        BY DEF PC
      <4>3. job'[h].pc = "over"
        BY <1>3, HandsDone, RoleOf
      <4>4. job'[h].pc = p
        BY <4>1, <4>2, HandlerGoto
      <4> QED
        BY <4>2, <4>3, <4>4
    <3> QED
      BY <3>1, <3>2, <3>3, <3>4 DEF Forget, Reread, Tombstone
  <2>2. Gone(job[h].old) => \A i \in Insts : i = job[h].old => Gone(i)'
    BY FrugalSteady DEF SeatInv, Steady
  <2> QED
    BY <1>1, <1>3, <2>1, <2>2, SeatDone DEF Tends
<1> QED
  BY <1>2, <1>3 DEF Forget, Reread, Tombstone

LEMMA SeatClear ==
  ASSUME LicenseAssumption, Typed, Order, KeyInv, News, LinkInv, SeatInv, Works,
         NEW h \in Handlers, Clear(h), Frugal
  PROVE  SeatInv'
<1>1. /\ job[h].pc = "clear" /\ job[h].role = "deactivate" /\ h \in Actors
      /\ row.inst = job[h].old
  BY RoleOf DEF Clear, At, LinkInv, Unlinking
<1>2. Settling' /\ \A i : Steady(i)
  BY FrugalSteady DEF SeatInv
<1>3. \A i \in Insts : ~Tends(h, job[h], i)
  BY <1>1 DEF Tends, Unlinked
<1>4. CASE UNCHANGED <<row, queue>> /\ Done(h)
  BY <1>3, <1>4, SeatDone
<1>5. CASE \E p \in {"forget", "reread"} : Goto(h, p)
  <2>1. PICK p \in {"forget", "reread"} : Goto(h, p)
    BY <1>5
  <2>2. p \in PC /\ p \in Unlinked /\ p \notin Changing /\ job[h].pc \notin Owning
    BY <1>1 DEF PC, Unlinked, Changing, Owning, Ensuring
  <2>3. Replacing(job[h])'
    BY <2>1, <2>2, GotoReplacing DEF Changing
  <2>4. Only(h) /\ job'[h].pc = p /\ job'[h].role = job[h].role /\ job'[h].old = job[h].old
    BY <2>1, <2>2, HandlerGoto DEF Only
  <2>5. \A i \in Insts : Installed(i) => Tends(h, job'[h], i)
    BY <1>1, <2>2, <2>4 DEF Installed, Tends
  <2> QED
    BY <1>1, <1>2, <1>3, <2>3, <2>4, <2>5, SeatStep
<1> QED
  BY <1>4, <1>5 DEF Clear, Refuse

\* While the row is written, the seat of the one it replaces is gone.
LEMMA WritingGone ==
  ASSUME LicenseAssumption, Typed, Order, KeyInv, SeatInv, Works, NEW h \in Handlers,
         job[h].pc \in {"save", "restore"}, NEW i \in Insts, Installed(i)
  PROVE  Gone(i) \/ (i = h /\ job[h].pc = "restore")
<1>1. KeyJob(h, job[h]) /\ Writing(job[h]) /\ Replacing(job[h]) /\ Writes(h, job[h])
  BY DEF KeyInv, Fitting, Writing, SeatInv, Order
<1>2. row = job[h].prev \/ (row.inst = h /\ job[h].pc = "restore")
  BY <1>1 DEF KeyJob, Writes
<1>3. CASE row = job[h].prev
  <2>1. job[h].prev.inst = i /\ job[h].prev # NoRow /\ job[h].old = i
    BY <1>1, <1>3 DEF Installed, KeyJob, NoRow, LicenseAssumption
  <2> QED
    BY <1>1, <2>1 DEF Replacing
<1> QED
  BY <1>2, <1>3 DEF Installed

LEMMA SeatWrites ==
  ASSUME LicenseAssumption, Typed, Order, KeyInv, News, SeatInv, Works, NEW h \in Handlers,
         Save(h) \/ Restore(h), Frugal
  PROVE  SeatInv'
<1>1. /\ job[h].pc \in {"save", "restore"} /\ job[h].role = "activate" /\ h \in Actors
      /\ job[h].new = h
  BY RoleOf DEF Save, Restore, At, Unwritten, Late, ActivateOK, PlanOK, Ensuring, Early
<1>2. Settling' /\ \A i : Steady(i)
  BY FrugalSteady DEF SeatInv
<1>3. \A i \in Insts : Installed(i) => Gone(i)' \/ (i = h /\ job[h].pc = "restore")
  BY <1>1, <1>2, WritingGone DEF Steady
<1>4. PICK p \in {"sweep", "ensure", "rekey", "releaseNew"} :
        /\ Goto(h, p) /\ (job[h].pc = "restore" <=> p = "releaseNew")
        /\ p \in {"sweep", "ensure"} =>
             Write(Op("save", [inst |-> job[h].new, verdict |-> job[h].verdict, ok |-> TRUE]))
  BY DEF Save, Restore, At
<1>5. p \in PC
  BY DEF PC
<1>6. /\ Only(h) /\ job'[h].pc = p /\ job'[h].role = "activate"
  BY <1>1, <1>4, <1>5, HandlerGoto DEF Only
<1>7. Replacing(job[h])'
  <2>1. job[h].pc \notin Owning /\ job[h].pc \in Changing /\ Writing(job[h])
    BY <1>1 DEF Owning, Ensuring, Changing, Writing
  <2> QED
    BY <1>4, <1>5, <2>1, GotoReplacing
<1>8. p \in {"sweep", "ensure"} => Installed(h)'
  BY <1>1, <1>4 DEF Write, Op, Applied, Installed
<1>9. Tends(h, job'[h], h) \/ Installed(h)'
  BY <1>6, <1>8 DEF Tends, Bringing
<1>10. \A i \in Insts : Installed(i) => Gone(i)' \/ Tends(h, job'[h], i)
  BY <1>3, <1>4, <1>6 DEF Tends, Bringing
<1>11. \A i \in Insts : Tends(h, job[h], i) => i = h
  BY <1>1 DEF Tends
<1> QED
  BY <1>1, <1>2, <1>6, <1>7, <1>9, <1>10, <1>11, SeatStep

\* A write that leaves the installation in its place.
LEMMA InstalledRewrite ==
  ASSUME queue = <<>>, NEW op, Write(op) \/ Refuse \/ Postpone(op),
         op.op \in {"update", "save"}, op.op = "save" => op.row = row, row \in Row
  PROVE  \A i \in Insts : Installed(i) => Installed(i)'
<1>1. Applied(op).inst = row.inst
  BY DEF Applied, NoRow, Row
<1>2. CASE Write(op)
  BY <1>1, <1>2 DEF Write, Installed
<1>3. CASE Refuse
  BY <1>3, InstalledSame DEF Refuse
<1>4. CASE Postpone(op)
  <2>1. row' = row /\ queue' = <<op>>
    BY <1>4 DEF Postpone
  <2>2. queue'[1] = op
    BY <2>1
  <2>3. Applied(queue[1])' = Applied(op)
    BY <2>1, <2>2 DEF Applied
  <2> QED
    BY <1>1, <2>1, <2>3 DEF Installed
<1> QED
  BY <1>2, <1>3, <1>4

LEMMA CommitInstalled ==
  ASSUME LicenseAssumption, Typed, NEW h \in Handlers, Commit(h)
  PROVE  /\ \A i \in Insts : Installed(i) => Installed(i)'
         /\ UNCHANGED local \/ (queue = <<>> /\ \E op : op.op # "undo" /\
                                 (queue' = <<>> \/ queue' = <<op>>))
<1>1. row \in Row
  BY DEF Typed, TypeOK
<1>2. CASE UNCHANGED local
  BY <1>2, InstalledSame DEF local
<1>3. CASE ~UNCHANGED local
  <2> DEFINE op == Op("update", [inst |-> job[h].old, verdict |-> job[h].verdict,
                                 ok |-> job[h].ok])
  <2>1. queue = <<>> /\ (Write(op) \/ Refuse \/ Postpone(op)) /\ op.op = "update"
    BY <1>3 DEF Commit, Op
  <2> HIDE DEF op
  <2>2. queue' = <<>> \/ queue' = <<op>>
    BY <2>1 DEF Write, Refuse, Postpone
  <2> QED
    BY <1>1, <2>1, <2>2, InstalledRewrite
<1> QED
  BY <1>2, <1>3

LEMMA RefreshInstalled ==
  ASSUME LicenseAssumption, Typed, Refresh
  PROVE  /\ \A i \in Insts : Installed(i) => Installed(i)'
         /\ UNCHANGED <<row, queue>> \/ (queue = <<>> /\ \E op : op.op # "undo" /\
                                 (queue' = <<>> \/ queue' = <<op>>))
<1>1. row \in Row
  BY DEF Typed, TypeOK
<1>2. CASE Tick \/ Settle \/ \E r \in drain.left : Retry(r)
  BY <1>2, InstalledSame DEF Tick, Settle, Retry, local
<1>3. CASE Look \/ FindToken \/ Fetch \/ Reject
  BY <1>3, InstalledSame DEF Look, FindToken, Fetch, Reject, local
<1>4. CASE Adopt /\ UNCHANGED local
  BY <1>4, InstalledSame DEF local
<1>5. CASE Adopt /\ ~UNCHANGED local
  <2> DEFINE op == Op("save", row)
  <2>1. queue = <<>> /\ (Write(op) \/ Refuse \/ Postpone(op))
        /\ op.op = "save" /\ op.row = row
    BY <1>5 DEF Adopt, Op
  <2> HIDE DEF op
  <2>2. queue' = <<>> \/ queue' = <<op>>
    BY <2>1 DEF Write, Refuse, Postpone
  <2> QED
    BY <1>1, <2>1, <2>2, InstalledRewrite
<1> QED
  BY <1>2, <1>3, <1>4, <1>5 DEF Refresh

LEMMA SeatCommit ==
  ASSUME LicenseAssumption, Typed, KeyInv, News, SeatInv, Works, NEW h \in Handlers,
         Commit(h), Frugal
  PROVE  SeatInv'
<1>1. /\ job[h].pc = "commit" /\ job[h].role = "validate" /\ h \in Actors /\ Only(h)
      /\ job \in [Actors -> Job] /\ row \in Row
  BY RoleOf, ModestCommit DEF Commit, At, Modest, Hands, Typed, TypeOK
<1>2. Settling' /\ \A i : Steady(i)
  BY FrugalSteady DEF SeatInv
<1>3. \A i \in Insts : ~Tends(h, job[h], i)
  BY <1>1 DEF Tends
<1>4. Replacing(job[h])'
  <2>1. CASE Done(h)
    <3>1. job'[h].role = "none" /\ job'[h].pc = "over"
      BY <1>1, <2>1, HandsDone
    <3> QED
      BY <3>1 DEF Replacing, Writing
  <2>2. CASE job' = [job EXCEPT ![h] = [NoJob EXCEPT !.role = "validate",
                                            !.pc = "capture", !.again = TRUE]]
    <3>1. job'[h].role = "validate" /\ job'[h].pc = "capture"
      BY <1>1, <2>2 DEF NoJob
    <3> QED
      BY <3>1 DEF Replacing, Writing
  <2> QED
    BY <2>1, <2>2 DEF Commit
<1>5. \A i \in Insts : Installed(i) => Installed(i)'
  BY CommitInstalled
<1> QED
  BY <1>1, <1>2, <1>3, <1>4, <1>5, SeatStep

LEMMA SeatRefresh ==
  ASSUME LicenseAssumption, Typed, KeyInv, News, SeatInv, Works, Refresh
  PROVE  SeatInv'
<1>1. Only(Loop) /\ Loop \in Actors /\ Loop \notin Handlers
  BY RefreshModest, LoopFacts DEF Modest, Hands
<1>2. Settling' /\ \A i \in Insts : Steady(i)
  BY LoopSteady DEF SeatInv
<1>3. \A i \in Insts : Installed(i) => Installed(i)'
  BY RefreshInstalled
<1> QED
  BY <1>1, <1>2, <1>3, SeatStep

LEMMA SeatEnsure ==
  ASSUME LicenseAssumption, Typed, KeyInv, News, SeatInv, Works, NEW a \in Actors,
         Ensure(a) \/ Check(a) \/ Issue(a)
  PROVE  SeatInv'
<1>1. UNCHANGED <<row, queue>> /\ job[a].pc \in Ensuring
  BY DEF Ensure, Check, Issue, local, At, Ensuring
<1>2. Settling' /\ \A i \in Insts : Steady(i)
  BY OthersSteady DEF SeatInv
<1>3. CASE \E got \in BOOLEAN : AfterEnsure(a, got)
  <2>1. /\ Only(a) /\ job'[a].pc \in {"over", "idle", "fetch", "capture"}
        /\ a \in Handlers => job'[a].role \in {"none", "validate"}
    BY <1>1, <1>3, AfterEnsureHands DEF Hands
  <2>2. a \in Handlers => job[a].role = "activate"
    BY <1>1, ForFacts
  <2>3. a \in Handlers => \A i \in Insts : ~Tends(a, job[a], i)
    BY <1>1, <2>2 DEF Tends, Bringing, Ensuring
  <2>4. a \in Handlers => Replacing(job[a])'
    BY <2>1 DEF Replacing, Writing
  <2> QED
    BY <1>1, <1>2, <2>1, <2>3, <2>4, InstalledSame, SeatStep
<1>4. CASE \E p \in Guarding : Goto(a, p)
  <2>1. PICK p \in Guarding : Goto(a, p)
    BY <1>4
  <2>2. /\ Only(a) /\ job'[a].pc = p
    BY <1>1, <2>1, GuardingHands DEF Hands
  <2>3. a \in Handlers => job[a].role = "activate"
    BY <1>1, ForFacts
  <2>4. a \in Handlers => \A i \in Insts : ~Tends(a, job[a], i)
    BY <1>1, <2>3 DEF Tends, Bringing, Ensuring
  <2>5. Replacing(job[a])'
    <3>1. p \in Owning /\ p \notin Changing /\ p \notin {"save", "rekey", "restore"}
      BY DEF Guarding, Owning, Ensuring, Changing
    <3> QED
      BY <2>2, <3>1 DEF Replacing, Writing
  <2> QED
    BY <1>1, <1>2, <2>2, <2>4, <2>5, InstalledSame, SeatStep
<1> QED
  BY <1>3, <1>4 DEF Ensure, Check, Issue, Guarding

\* What is done late: the installation stays in its place, or it was not in it.
LEMMA LandInstalled ==
  ASSUME LicenseAssumption, Typed, Order, KeyInv, LinkInv, Works, Land
  PROVE  \A i \in Insts : Installed(i) => Installed(i)'
<1>1. /\ queue \in Seq(Operation) /\ Len(queue) \in {1, 2} /\ queue # <<>>
      /\ DOMAIN queue = 1 .. Len(queue) /\ queue' = Tail(queue)
      /\ row' = row \/ row' = Applied(Head(queue))
      /\ Head(queue) = queue[1]
      /\ Len(queue) = 2 => queue[1].op = "save" /\ queue[2].op = "undo"
  BY ShortQueue DEF KeyInv, Fitting, Land
<1>2. CASE Len(queue) = 1
  <2>1. queue' = <<>>
    BY <1>1, <1>2
  <2> QED
    BY <1>1, <2>1 DEF Installed
<1>3. CASE Len(queue) = 2
  <2>1. /\ queue[1].row.inst = queue[2].inst /\ row = queue[2].row
        /\ queue[2].row.inst # queue[2].inst
    BY <1>1, <1>3 DEF LinkInv, Waiting, Order, QueueOK
  <2>2. Applied(queue[1]) = queue[1].row
    BY <1>1, <1>3 DEF Applied
  <2> QED
    BY <1>1, <2>1, <2>2 DEF Installed
<1> QED
  BY <1>1, <1>2, <1>3

LEMMA SeatStill ==
  ASSUME LicenseAssumption, Typed, KeyInv, SeatInv, Works, UNCHANGED job,
         Settling', \A i \in Insts : Steady(i),
         \A i \in Insts : Installed(i) => Installed(i)'
  PROVE  SeatInv'
<1>1. ASSUME NEW h \in Handlers PROVE Replacing(job[h])'
  <2>1. job'[h] = job[h] /\ Replacing(job[h])
    BY DEF SeatInv
  <2> QED
    BY <2>1, ReplacingStays
<1>2. \A i \in Insts : Gone(i)' \/ Installed(i)' \/ \E h \in Handlers : Tends(h, job'[h], i)
  BY DEF SeatInv, Steady
<1> QED
  BY <1>1, <1>2 DEF SeatInv

LEMMA SeatNext ==
  ASSUME LicenseAssumption, Typed, Typed', Order, KeyInv, News, LinkInv, SeatInv, [Next]_vars
  PROVE  SeatInv'
<1> SUFFICES ASSUME Works', Works PROVE SeatInv'
  BY WorksBefore DEF SeatInv
<1>1. ASSUME NEW h \in Handlers, Handler(h) PROVE SeatInv'
  <2>1. CASE Mint(h)
    BY <2>1, SeatMint
  <2>2. CASE ~Mint(h)
    <3>1. Frugal
      BY <1>1, <2>2, HandlerFrugal
    <3>2. CASE \/ \E role \in Roles, k \in Keys :
                    (role = "activate" \/ k = 1) /\ Start(h, role, k)
               \/ Capture(h) \/ Load(h) \/ Ask(h) \/ Plan(h) \/ Confirm(h) \/ FindKey(h)
      BY <3>2, SeatReads DEF Looks
    <3>3. CASE Commit(h) \/ Unlink(h) \/ Clear(h)
      BY <3>1, <3>3, SeatCommit, SeatUnlink, SeatClear
    <3>4. CASE Teardown(h) \/ Persist(h)
      BY <3>1, <3>4, SeatTeardown, SeatPersist
    <3>5. CASE Stray(h) \/ Sweep(h) \/ Credential(h) \/ Rekey(h)
      BY <3>1, <3>5, SeatMoves
    <3>6. CASE Save(h) \/ Restore(h)
      BY <3>1, <3>6, SeatWrites
    <3>7. CASE Forget(h) \/ Reread(h) \/ Tombstone(h)
      BY <3>1, <3>7, SeatUnlinked
    <3>8. CASE Released(h) \/ Recorded(h)
      BY <3>1, <3>8, SeatHandle
    <3> QED
      BY <1>1, <2>2, <3>2, <3>3, <3>4, <3>5, <3>6, <3>7, <3>8 DEF Handler
  <2> QED
    BY <2>1, <2>2
<1>2. CASE Land \/ Turn \/ UNCHANGED vars
  <2>1. UNCHANGED job /\ Settling' /\ \A i \in Insts : Steady(i)
    BY <1>2, OthersSteady DEF Land, Turn, vars, SeatInv
  <2>2. CASE Land
    BY <2>1, <2>2, LandInstalled, SeatStill
  <2>3. CASE Turn \/ UNCHANGED vars
    BY <2>1, <2>3, InstalledSame, SeatStill DEF Turn, vars, local
  <2> QED
    BY <1>2, <2>2, <2>3
<1>3. CASE \E backup \in Backups : Import(backup)
  BY <1>3 DEF Import, Works
<1> QED
  BY <1>1, <1>2, <1>3, SeatRefresh, SeatEnsure DEF Next

LEMMA SeatInit == ASSUME LicenseAssumption, Init PROVE SeatInv
<1>1. /\ queue = <<>> /\ drain.settled = {} /\ seats = Insts \cap {row.inst}
      /\ \A h \in Handlers : job[h] = NoJob
  BY DEF Init, NoDrain, Actors
<1>2. NoJob.role = "none" /\ NoJob.pc = "idle"
  BY DEF NoJob
<1>3. \A h \in Handlers : Replacing(job[h])
  BY <1>1, <1>2 DEF Replacing, Writing
<1>4. \A i \in Insts : Gone(i) \/ Installed(i)
  BY <1>1 DEF Gone, Installed
<1> QED
  BY <1>1, <1>3, <1>4 DEF SeatInv, Settling

-----------------------------------------------------------------------------
(* The invariant, seventh part: the credentials.                           *)

UndoneTo(i) == \E n \in DOMAIN queue : queue[n].op = "undo" /\ queue[n].row.inst = i

\* No credential was issued for the installation so far.
Uncredited(h) == \/ Unsaved(job[h]) \/ job[h].pc \in {"rekey", "restore"} \/ Undone(h)

\* A command will put the row back, or release the credential.
Covering == {"rekey", "restore", "forget", "credential", "reread", "tombstone", "sweep"}
Covers(j, i) == j.old = i /\ j.pc \in Covering

Covered(i) ==
    \/ <<i, "catalog">> \in stranded \/ Installed(i) \/ UndoneTo(i)
    \/ \E h \in Handlers : Covers(job[h], i)

\* The release of the credential is recorded, or was when a pass took it off.
Due(k, i) == OwedStill(i, "catalog") \/ <<k, i, "catalog">> \in overtaken

Issuing(a) ==
    job[a].pc = "issue" =>
      /\ keyOf[For(a)] = job[a].key /\ Covered(For(a))
      /\ \A h \in Handlers : Uncredited(h) => For(a) # h

Sweeping(j) == j.pc = "sweep" => keyOf[j.old] = j.oldKey

CredInv ==
    Works =>
      /\ \A c \in creds : /\ c[1] = keyOf[c[2]]
                          /\ Covered(c[2]) \/ Due(c[1], c[2])
      /\ \A h \in Handlers : Uncredited(h) => \A c \in creds : c[2] # h
      /\ \A h \in Handlers : Sweeping(job[h])
      /\ \A a \in Actors : Issuing(a)

\* What becomes of a cover: it stays, there is no credential, or nobody asks for
\* one and the release of those there are is recorded.
Uncovers(i) ==
    \/ Covered(i)' \/ (i \in Handlers /\ Uncredited(i))
    \/ guard = Nobody /\ \A c \in creds' : c[2] = i => Due(c[1], i)'

\* No step makes an installation one that has no credential yet.
Crediting == \A h \in Handlers : Uncredited(h)' => Uncredited(h)

\* A credential that is new is for an installation it may be for.
Issued ==
    \A c \in creds' : \/ c \in creds
                      \/ /\ c[1] = keyOf'[c[2]] /\ Covered(c[2])'
                         /\ \A h \in Handlers : Uncredited(h) => c[2] # h

LEMMA CredStep ==
  ASSUME LicenseAssumption, Typed, News, Guarded, CredInv, Works, NEW a \in Actors, Only(a),
         \A i \in Insts :
           keyOf'[i] = keyOf[i] \/ (a \in Handlers /\ i = a /\ Unsaved(job[a])),
         Issued, Crediting,
         \A c \in creds' : Due(c[1], c[2]) => Covered(c[2])' \/ Due(c[1], c[2])',
         \A i \in Insts : Covered(i) => Uncovers(i),
         a \in Handlers => Sweeping(job[a])',
         Issuing(a)'
  PROVE  CredInv'
<1>1. \A c \in creds : c[2] \in Insts
  BY DEF Typed, TypeOK
<1>2. \A c \in creds : keyOf'[c[2]] = keyOf[c[2]]
  BY <1>1 DEF News, Unheard
<1>3. ASSUME NEW c \in creds', c \in creds
      PROVE  c[1] = keyOf'[c[2]] /\ (Covered(c[2])' \/ Due(c[1], c[2])')
  <2>1. c \in creds /\ c[1] = keyOf[c[2]] /\ c[2] \in Insts
    BY <1>1, <1>3 DEF CredInv
  <2>2. CASE Due(c[1], c[2])
    BY <1>2, <1>3, <2>1, <2>2
  <2>3. CASE Covered(c[2])
    <3>1. Uncovers(c[2])
      BY <2>1, <2>3
    <3>2. ~(c[2] \in Handlers /\ Uncredited(c[2]))
      BY <2>1 DEF CredInv
    <3>3. Covered(c[2])' \/ Due(c[1], c[2])'
      BY <1>3, <3>1, <3>2 DEF Uncovers
    <3> QED
      BY <1>2, <2>1, <3>3
  <2> QED
    BY <2>1, <2>2, <2>3 DEF CredInv
<1>4. ASSUME NEW h \in Handlers, Uncredited(h)', NEW c \in creds' PROVE c[2] # h
  BY <1>4 DEF CredInv, Crediting, Issued
<1>5. ASSUME NEW h \in Handlers, h # a PROVE Sweeping(job[h])'
  <2>1. h \in Actors /\ job'[h] = job[h] /\ Sweeping(job[h])
    BY <1>5 DEF Only, Actors, CredInv
  <2>2. job[h].pc = "sweep" => job[h].old \in Insts
    BY RoleOf DEF Late, ActivateOK, PlanOK
  <2>3. job[h].pc = "sweep" => keyOf'[job[h].old] = keyOf[job[h].old]
    BY <2>1, <2>2 DEF News, Unheard
  <2> QED
    BY <2>1, <2>3 DEF Sweeping
<1>6. ASSUME NEW b \in Actors, b # a, job'[b].pc = "issue"
      PROVE  /\ keyOf'[For(b)'] = job'[b].key /\ Covered(For(b))'
             /\ \A h \in Handlers : Uncredited(h)' => For(b)' # h
  <2>1. job'[b] = job[b] /\ job[b].pc = "issue" /\ job[b].pc \in Ensuring
    BY <1>6 DEF Only, Ensuring
  <2>2. PICK i \in Insts : i = For(b) /\ Named(b, i)
    BY <2>1, ForFacts
  <2>3. For(b)' = i
    BY <2>1, <2>2 DEF For
  <2>4. /\ keyOf[i] = job[b].key /\ Covered(i)
        /\ \A h \in Handlers : Uncredited(h) => i # h
    BY <2>1, <2>2 DEF CredInv, Issuing
  <2>5. guard # Nobody
    BY <2>1 DEF Guarded, Guarding, LicenseAssumption
  <2>6. Covered(i)'
    BY <2>4, <2>5 DEF Uncovers
  <2>7. keyOf'[i] = keyOf[i]
    BY <2>4 DEF Uncredited
  <2>8. Covered(For(b))'
    BY <2>3, <2>6 DEF Covered, Installed, UndoneTo
  <2> QED
    BY <2>1, <2>3, <2>4, <2>7, <2>8 DEF Crediting
<1>7. \A b \in Actors : Issuing(b)'
  BY <1>6 DEF Issuing
<1> QED
  BY <1>3, <1>4, <1>5, <1>7 DEF CredInv, Issued

LEMMA CreditStep ==
  ASSUME LicenseAssumption, NEW a \in Actors, Hands(a),
         a \in Handlers /\ job'[a].pc \in {"rekey", "restore"} =>
           Unsaved(job[a]) \/ job[a].pc \in {"rekey", "restore"},
         \A h \in Handlers : Undone(h)' => Undone(h) \/ (h = a /\ job[a].pc = "restore")
  PROVE  Crediting
<1>1. SUFFICES ASSUME NEW h \in Handlers, Uncredited(h)' PROVE Uncredited(h)
  BY DEF Crediting
<1>2. h # a => job'[h] = job[h]
  BY DEF Hands, Only, Actors
<1>3. Unsaved(job'[h]) => Unsaved(job[h])
  BY <1>2 DEF Hands
<1> QED
  BY <1>1, <1>2, <1>3 DEF Uncredited

LEMMA UndoneNone ==
  ASSUME NEW op, op.op # "undo", queue' = <<>> \/ queue' = <<op>>
  PROVE  (\A i : ~Undone(i)') /\ \A i : ~UndoneTo(i)'
<1>1. \A n \in DOMAIN queue' : queue'[n] = op
  OBVIOUS
<1> QED
  BY <1>1 DEF Undone, UndoneTo

LEMMA CoverQuiet ==
  ASSUME NEW a \in Actors, Only(a), UNCHANGED queue, stranded \subseteq stranded',
         NEW i \in Insts, Covered(i), Installed(i) => Installed(i)',
         a \in Handlers => (Covers(job[a], i) => Covers(job'[a], i))
  PROVE  Covered(i)'
<1>1. UndoneTo(i) => UndoneTo(i)'
  BY DEF UndoneTo
<1>2. \A h \in Handlers : Covers(job[h], i) => Covers(job'[h], i)
  BY DEF Only, Actors
<1> QED
  BY <1>1, <1>2 DEF Covered

LEMMA DueStays ==
  ASSUME Frugal, NEW k, NEW i, Due(k, i)
  PROVE  Due(k, i)'
BY DEF Frugal, Due, OwedStill

\* A step of a command that frees nothing but what it has in hand.
LEMMA CredFrugal ==
  ASSUME LicenseAssumption, Typed, News, Guarded, CredInv, Works, NEW h \in Handlers,
         Modest(h), Frugal,
         job'[h].pc \in {"rekey", "restore"} =>
           Unsaved(job[h]) \/ job[h].pc \in {"rekey", "restore"},
         \A g \in Handlers : Undone(g)' => Undone(g) \/ (g = h /\ job[h].pc = "restore"),
         \A i \in Insts : Covered(i) => Uncovers(i),
         Sweeping(job[h])'
  PROVE  CredInv'
<1>1. h \in Actors /\ Hands(h) /\ Only(h) /\ job'[h].pc # "issue"
  BY RoleOf DEF Modest, Hands, Guarding
<1>2. Crediting
  BY <1>1, CreditStep
<1>3. Issuing(h)'
  BY <1>1 DEF Issuing
<1>4. \A c \in creds' : Due(c[1], c[2]) => Due(c[1], c[2])'
  BY DueStays
<1>5. Issued /\ keyOf' = keyOf
  BY DEF Frugal, Issued
<1> QED
  BY <1>1, <1>2, <1>3, <1>4, <1>5, CredStep

\* ... of which the row knows nothing.
LEMMA CredQuiet ==
  ASSUME LicenseAssumption, Typed, News, Guarded, CredInv, Works, NEW h \in Handlers,
         Modest(h), Frugal, UNCHANGED <<row, queue>>,
         job'[h].pc \in {"rekey", "restore"} =>
           Unsaved(job[h]) \/ job[h].pc \in {"rekey", "restore"},
         \A i \in Insts : Covers(job[h], i) => Covers(job'[h], i) \/ Uncovers(i),
         job'[h].pc # "sweep"
  PROVE  CredInv'
<1>1. h \in Actors /\ Only(h)
  BY RoleOf DEF Modest, Hands
<1>2. ASSUME NEW i \in Insts, Covered(i) PROVE Uncovers(i)
  <2>1. CASE Covers(job[h], i) => Covers(job'[h], i)
    BY <1>1, <1>2, <2>1, CoverQuiet, InstalledSame DEF Frugal, Uncovers
  <2> QED
    BY <2>1
<1>3. \A g \in Handlers : Undone(g)' => Undone(g)
  BY DEF Undone
<1>4. Sweeping(job[h])'
  BY DEF Sweeping
<1> QED
  BY <1>2, <1>3, <1>4, CredFrugal

LEMMA CredReads ==
  ASSUME LicenseAssumption, Typed, News, Guarded, CredInv, Works, NEW h \in Handlers,
         Looks(h),
         Frugal
  PROVE  CredInv'
<1>1. UNCHANGED <<row, queue>>
  BY LooksKeeps
<1>2. /\ Modest(h)
      /\ job'[h].pc \in {"capture", "load", "ask", "plan", "commit", "ensure", "recheck",
                         "mint", "over"}
  BY ModestReads
<1>3. job[h].pc \notin Covering
  BY LooksKeeps DEF Covering
<1>4. \A i \in Insts : ~Covers(job[h], i)
  BY <1>3 DEF Covers
<1>5. job'[h].pc \notin {"rekey", "restore", "sweep"}
  BY <1>2
<1> QED
  BY <1>1, <1>2, <1>4, <1>5, CredQuiet

LEMMA CredCommit ==
  ASSUME LicenseAssumption, Typed, News, Guarded, CredInv, Works, NEW h \in Handlers,
         Commit(h), Frugal
  PROVE  CredInv'
<1>1. Modest(h) /\ job'[h].pc \in {"over", "capture"} /\ h \in Actors /\ Only(h)
  BY ModestCommit, RoleOf DEF Modest, Hands
<1>2. /\ \A i \in Insts : Installed(i) => Installed(i)'
      /\ UNCHANGED queue \/ (queue = <<>> /\ \E op : op.op # "undo" /\
                                  (queue' = <<>> \/ queue' = <<op>>))
  BY CommitInstalled DEF local
<1>3. job[h].pc \notin Covering /\ job'[h].pc \notin {"rekey", "restore", "sweep"}
  BY <1>1 DEF Commit, At, Covering
<1>4. \A i \in Insts : ~Covers(job[h], i)
  BY <1>3 DEF Covers
<1>5. \A g \in Handlers : Undone(g)' => Undone(g)
  BY <1>2, UndoneNone DEF Undone
<1>6. \A i \in Insts : UndoneTo(i) => UndoneTo(i)'
  BY <1>2 DEF UndoneTo
<1>7. ASSUME NEW i \in Insts, Covered(i) PROVE Covered(i)'
  <2>1. \A g \in Handlers : Covers(job[g], i) => Covers(job'[g], i)
    BY <1>1, <1>4 DEF Only, Actors
  <2> QED
    BY <1>2, <1>6, <1>7, <2>1 DEF Covered, Frugal
<1>8. Sweeping(job[h])'
  BY <1>3 DEF Sweeping
<1> QED
  BY <1>1, <1>3, <1>5, <1>7, <1>8, CredFrugal DEF Uncovers

LEMMA CredMoves ==
  ASSUME LicenseAssumption, Typed, News, Guarded, CredInv, Works, NEW h \in Handlers,
         \/ Teardown(h) \/ Stray(h) \/ Persist(h) \/ Unlink(h) \/ Rekey(h)
         \/ Released(h) \/ Recorded(h),
         Frugal
  PROVE  CredInv'
<1>1. UNCHANGED <<row, queue>> /\ Modest(h) /\ job \in [Actors -> Job] /\ h \in Actors
  <2>1. Handler(h)
    BY DEF Handler
  <2> QED
    BY <2>1, HandlerModest, RoleOf DEF Teardown, ReleaseCredential, Stray, Persist, Unlink,
       Rekey, Released, Recorded, local
<1>2. CASE Rekey(h)
  <2>1. Goto(h, "restore") /\ "restore" \in PC /\ job[h].pc = "rekey"
    BY <1>2 DEF Rekey, PC, At
  <2>2. job'[h].pc = "restore" /\ job'[h].old = job[h].old
    BY <1>1, <2>1, GotoFacts
  <2>3. \A i \in Insts : Covers(job[h], i) => Covers(job'[h], i)
    BY <2>1, <2>2 DEF Covers, Covering
  <2> QED
    BY <1>1, <2>1, <2>2, <2>3, CredQuiet
<1>3. CASE ~Rekey(h)
  <2>1. job[h].pc \in {"teardown", "stray", "persist", "recheck"} \cup Releasing \cup Recording
    BY <1>3 DEF Teardown, Stray, Persist, Unlink, Released, Recorded, At, Releasing, Recording
  <2>2. \A i \in Insts : ~Covers(job[h], i)
    BY <2>1 DEF Covers, Covering, Releasing, Recording
  <2>3. job'[h].pc \notin {"rekey", "restore", "sweep"}
    <3>1. CASE Done(h)
      BY <1>1, <3>1, HandsDone
    <3>2. CASE job' = [job EXCEPT ![h].pc = "save", ![h].prev = row]
      <4>1. job'[h].pc = "save"
        BY <1>1, <3>2 DEF Job
      <4> QED
        BY <4>1
    <3>3. ASSUME NEW p \in PC \ {"rekey", "restore", "sweep"}, Goto(h, p)
          PROVE  job'[h].pc \notin {"rekey", "restore", "sweep"}
      BY <1>1, <3>3, GotoFacts
    <3>4. CASE Released(h) \/ Recorded(h)
      <4>1. \/ Done(h) \/ Goto(h, Handle(h).record)
            \/ Goto(h, Handle(h).next) /\ Handle(h).next # "over"
        BY <3>4 DEF Released, Recorded, Goon
      <4>2. job[h].pc \in Releasing \cup Recording
        BY <3>4 DEF Released, Recorded, Releasing, Recording
      <4>3. Handle(h).record \in PC \ {"rekey", "restore", "sweep"}
        BY <4>2 DEF Handle, PC, Releasing, Recording
      <4>4. Handle(h).next # "over" => Handle(h).next \in PC \ {"rekey", "restore", "sweep"}
        BY <4>2, HandleFacts DEF PC
      <4> QED
        BY <3>1, <3>3, <4>1, <4>3, <4>4
    <3>5. CASE Teardown(h) \/ Stray(h) \/ Persist(h) \/ Unlink(h)
      <4>1. {"stray", "releaseOld", "persist", "releaseNew", "clear"}
              \subseteq PC \ {"rekey", "restore", "sweep"}
        BY DEF PC
      <4>2. \/ Done(h) \/ job' = [job EXCEPT ![h].pc = "save", ![h].prev = row]
            \/ \E p \in {"stray", "releaseOld", "persist", "releaseNew", "clear"} : Goto(h, p)
        BY <3>5 DEF Teardown, Stray, Persist, Unlink
      <4> QED
        BY <3>1, <3>2, <3>3, <4>1, <4>2
    <3> QED
      BY <1>3, <3>4, <3>5
  <2> QED
    BY <1>1, <2>2, <2>3, CredQuiet
<1> QED
  BY <1>2, <1>3

\* What is recorded for an installation under its key.
LEMMA OwedDue ==
  ASSUME Typed, CredInv, Works, Frugal, NEW i \in Insts,
         NEW releases, Owe(releases), <<keyOf[i], i, "catalog">> \in releases, guard = Nobody
  PROVE  Uncovers(i)
<1>1. \A c \in creds' : c[2] = i => c[1] = keyOf[i]
  BY DEF CredInv, Frugal
<1>2. <<keyOf[i], i, "catalog">> \in drain.settled =>
        <<keyOf[i], i, "catalog">> \in overtaken'
  BY DEF Owe
<1>3. \A k : k = keyOf[i] => Due(k, i)'
  BY <1>2 DEF Due, OwedStill, Owe, Frugal
<1> QED
  BY <1>1, <1>3 DEF Uncovers

LEMMA ReleaseUncovers ==
  ASSUME Typed, CredInv, Works, Frugal, NEW h, NEW i \in Insts, NEW k,
         ReleaseCredential(h, k, i), keyOf[i] = k
  PROVE  Uncovers(i)
<1>1. guard = Nobody
  BY DEF ReleaseCredential
<1>2. CASE creds' = creds \ {<<k, i>>}
  <2>1. \A c \in creds : c = <<c[1], c[2]>>
    BY DEF Typed, TypeOK
  <2>2. \A c \in creds' : c[2] # i
    BY <1>2, <2>1 DEF CredInv
  <2> QED
    BY <1>1, <2>2 DEF Uncovers
<1>3. CASE stranded' = stranded \cup {<<i, "catalog">>}
  BY <1>3 DEF Uncovers, Covered
<1>4. CASE Owe({<<k, i, "catalog">>})
  BY <1>1, <1>4, OwedDue
<1> QED
  BY <1>2, <1>3, <1>4 DEF ReleaseCredential

LEMMA CredReleases ==
  ASSUME LicenseAssumption, Typed, LinkInv, News, Guarded, CredInv, Works, NEW h \in Handlers,
         Sweep(h) \/ Credential(h), Frugal
  PROVE  CredInv'
<1>1. /\ UNCHANGED <<row, queue>> /\ Modest(h) /\ job[h].pc \in {"sweep", "credential"}
  BY ModestCredential DEF Sweep, Credential, ReleaseCredential, local, At
<1>2. PICK p \in {"ensure", "releaseSeat"} : Goto(h, p)
  BY DEF Sweep, Credential
<1>3. p \in PC
  BY DEF PC
<1>4. job'[h].pc = p
  BY <1>2, <1>3, HandlerGoto
<1>5. PICK k \in Keys : ReleaseCredential(h, k, job[h].old) /\ keyOf[job[h].old] = k
  <2>1. CASE Sweep(h)
    <3>1. keyOf[job[h].old] = job[h].oldKey /\ job[h].oldKey \in Keys
      BY <2>1, RoleOf DEF CredInv, Sweeping, Sweep, At, ActivateOK, PlanOK, Late
    <3> QED
      BY <2>1, <3>1 DEF Sweep
  <2>2. CASE Credential(h)
    <3>1. job[h].pc = "credential" /\ job[h].key \in Keys
      BY <2>2, RoleOf DEF Credential, At, DeactivateOK
    <3>2. keyOf[job[h].old] = job[h].key
      BY <3>1, Names DEF LinkInv, Unlinking, Unlinked
    <3> QED
      BY <2>2, <3>1, <3>2 DEF Credential
  <2> QED
    BY <2>1, <2>2
<1>6. \A i \in Insts : Covers(job[h], i) => Uncovers(i)
  <2>1. SUFFICES ASSUME NEW i \in Insts, i = job[h].old PROVE Uncovers(i)
    BY DEF Covers
  <2>2. ReleaseCredential(h, k, i) /\ keyOf[i] = k
    BY <1>5, <2>1
  <2> QED
    BY <2>2, ReleaseUncovers
<1> QED
  BY <1>1, <1>2, <1>4, <1>6, CredQuiet

LEMMA CredUnlinked ==
  ASSUME LicenseAssumption, Typed, LinkInv, News, Guarded, CredInv, Works, NEW h \in Handlers,
         Forget(h) \/ Reread(h) \/ Tombstone(h), Frugal
  PROVE  CredInv'
<1>1. /\ UNCHANGED <<row, queue>> /\ Modest(h) /\ job[h].pc \in {"forget", "reread", "tombstone"}
      /\ job[h].pc = "tombstone" => job[h].key \in Keys
  BY ModestDeactivate, RoleOf DEF Forget, Reread, Tombstone, local, At, DeactivateOK
<1>2. CASE \E p \in {"credential", "tombstone"} : Goto(h, p)
  <2>1. PICK p \in {"credential", "tombstone"} : Goto(h, p)
    BY <1>2
  <2>2. p \in PC /\ p \in Covering
    BY DEF PC, Covering
  <2>3. job'[h].pc = p /\ job'[h].old = job[h].old
    BY <2>1, <2>2, HandlerGoto
  <2> QED
    BY <1>1, <2>2, <2>3, CredQuiet DEF Covers
<1>3. CASE Done(h) /\ ~ \E p \in {"credential", "tombstone"} : Goto(h, p)
  <2>1. job'[h].pc = "over"
    BY <1>3, HandsDone, RoleOf
  <2>2. ASSUME NEW i \in Insts, i = job[h].old PROVE Uncovers(i)
    <3>1. CASE stranded' = Out(h)
      BY <2>2, <3>1 DEF Out, Sides, Uncovers, Covered
    <3>2. CASE queue = <<>> /\ row.inst = job[h].old
      <4>1. Installed(i)'
        BY <1>1, <2>2, <3>2 DEF Installed
      <4> QED
        BY <4>1 DEF Uncovers, Covered
    <3>3. CASE Tombstone(h) /\ Owe({<<job[h].key, job[h].old, side>> : side \in Sides})
      <4> DEFINE releases == {<<job[h].key, job[h].old, side>> : side \in Sides}
      <4>1. keyOf[i] = job[h].key /\ guard = Nobody
        BY <1>1, <2>2, <3>3, Names DEF Tombstone, At, LinkInv, Unlinking, Unlinked
      <4>2. <<keyOf[i], i, "catalog">> \in releases /\ Owe(releases)
        BY <2>2, <3>3, <4>1 DEF Sides
      <4> HIDE DEF releases
      <4> QED
        BY <4>1, <4>2, OwedDue
    <3> QED
      BY <1>3, <3>1, <3>2, <3>3 DEF Forget, Reread, Tombstone
  <2>3. \A i \in Insts : Covers(job[h], i) => Uncovers(i)
    BY <2>2 DEF Covers
  <2> QED
    BY <1>1, <2>1, <2>3, CredQuiet
<1> QED
  BY <1>2, <1>3 DEF Forget, Reread, Tombstone

\* The first write of a row that nothing waits for.
LEMMA WriteCovers ==
  ASSUME queue = <<>>, NEW h \in Handlers, h \in Actors, Only(h), stranded \subseteq stranded',
         ~ \E i \in Insts : Covers(job[h], i), NEW i \in Insts, Covered(i),
         Installed(i) => Covered(i)'
  PROVE  Covered(i)'
<1>1. ~UndoneTo(i)
  BY DEF UndoneTo
<1>2. \A g \in Handlers : Covers(job[g], i) => Covers(job'[g], i)
  BY DEF Only, Actors
<1> QED
  BY <1>1, <1>2 DEF Covered

LEMMA CredClear ==
  ASSUME LicenseAssumption, Typed, Order, LinkInv, News, Guarded, CredInv, Works,
         NEW h \in Handlers, Clear(h), Frugal
  PROVE  CredInv'
<1>1. /\ job[h].pc = "clear" /\ row.inst = job[h].old /\ queue = <<>> /\ h \in Actors
      /\ Modest(h) /\ Only(h)
  BY RoleOf, ModestDeactivate DEF Clear, At, LinkInv, Unlinking, Order, Writes, Modest, Hands
<1>2. ~ \E i \in Insts : Covers(job[h], i)
  BY <1>1 DEF Covers, Covering
<1>3. CASE Refuse /\ Done(h)
  <2>1. job'[h].pc = "over"
    BY <1>1, <1>3, HandsDone
  <2> QED
    BY <1>1, <1>2, <1>3, <2>1, CredQuiet DEF Refuse
<1>4. CASE \E p \in {"forget", "reread"} :
             Goto(h, p) /\ (Write(Op("clear", NoRow)) \/ Postpone(Op("clear", NoRow)))
  <2>1. PICK p \in {"forget", "reread"} :
          Goto(h, p) /\ (Write(Op("clear", NoRow)) \/ Postpone(Op("clear", NoRow)))
    BY <1>4
  <2>2. p \in PC /\ p \in Covering
    BY DEF PC, Covering
  <2>3. job'[h].pc = p /\ job'[h].old = job[h].old
    BY <2>1, <2>2, HandlerGoto
  <2>4. \A g \in Handlers : ~Undone(g)'
    <3>1. PICK op : op = Op("clear", NoRow)
      OBVIOUS
    <3>2. op.op # "undo" /\ (queue' = <<>> \/ queue' = <<op>>)
      BY <1>1, <2>1, <3>1 DEF Write, Postpone, Op
    <3> QED
      BY <3>2, UndoneNone
  <2>5. ASSUME NEW i \in Insts, Covered(i) PROVE Covered(i)'
    <3>1. Installed(i) => Covers(job'[h], i)
      BY <1>1, <2>2, <2>3 DEF Installed, Covers
    <3>2. Installed(i) => Covered(i)'
      BY <3>1 DEF Covered
    <3>3. stranded \subseteq stranded'
      BY DEF Frugal
    <3> QED
      BY <1>1, <1>2, <2>5, <3>2, <3>3, WriteCovers
  <2>6. Sweeping(job[h])' /\ job'[h].pc \notin {"rekey", "restore"}
    BY <2>1, <2>3 DEF Sweeping
  <2> QED
    BY <1>1, <2>4, <2>5, <2>6, CredFrugal DEF Uncovers
<1> QED
  BY <1>3, <1>4 DEF Clear

LEMMA CredSave ==
  ASSUME LicenseAssumption, Typed, Order, KeyInv, News, Guarded, CredInv, Works,
         NEW h \in Handlers, Save(h), Frugal
  PROVE  CredInv'
<1> DEFINE saved == Op("save", [inst |-> job[h].new, verdict |-> job[h].verdict, ok |-> TRUE])
<1>1. /\ job[h].pc = "save" /\ queue = <<>> /\ job[h].prev = row /\ h \in Actors
      /\ Fits(job[h].prev, job[h].oldKey) /\ row.inst = job[h].old
      /\ Modest(h) /\ Only(h)
  BY RoleOf, ModestWrites DEF Save, At, Order, Writes, KeyInv, Fitting, KeyJob, Writing,
     Modest, Hands
<1>2. job[h].role = "activate" /\ PlanOK(job[h]) /\ job[h].plan \in {"teardown", "fresh"}
      /\ Unsaved(job[h])
  BY <1>1, RoleOf DEF Unwritten, ActivateOK, PlanOK, Ensuring, Job, Unsaved
<1>3. PICK p \in {"sweep", "ensure", "rekey"} :
        /\ Goto(h, p) /\ (p = "sweep" => job[h].plan = "teardown")
        /\ p = "ensure" => job[h].plan # "teardown"
        /\ (Write(saved) \/ Refuse \/ Postpone(saved))
  BY DEF Save
<1>4. /\ p \in PC /\ (p # "ensure" => p \in Covering)
  BY DEF PC, Covering
<1>5. job'[h].pc = p /\ job'[h].old = job[h].old /\ job'[h].oldKey = job[h].oldKey
  BY <1>3, <1>4, HandlerGoto
<1>6. \A g \in Handlers : ~Undone(g)'
  <2>1. PICK op : op = saved
    OBVIOUS
  <2>2. op.op # "undo" /\ (queue' = <<>> \/ queue' = <<op>>)
    BY <1>1, <1>3, <2>1 DEF Write, Postpone, Refuse, Op
  <2> QED
    BY <2>2, UndoneNone
<1>7. job[h].old \in Insts =>
        IF job[h].oldKey = NoKey THEN {job[h].old} \X Sides \subseteq stranded
                                 ELSE keyOf[job[h].old] = job[h].oldKey
  BY <1>1 DEF Fits, NoRow, LicenseAssumption
<1>8. ASSUME NEW i \in Insts, Covered(i) PROVE Covered(i)'
  <2>1. ~ \E g \in Insts : Covers(job[h], g)
    BY <1>1 DEF Covers, Covering
  <2>2. stranded \subseteq stranded'
    BY DEF Frugal
  <2>3. ASSUME Installed(i), p = "ensure" PROVE <<i, "catalog">> \in stranded
    <3>1. job[h].old = i /\ i # NoInst
      BY <1>1, <2>3 DEF Installed, LicenseAssumption
    <3>2. job[h].oldKey = NoKey
      BY <1>2, <1>3, <2>3, <3>1 DEF PlanOK
    <3> QED
      BY <1>7, <3>1, <3>2 DEF Sides
  <2>4. Installed(i) /\ p # "ensure" => Covers(job'[h], i)
    BY <1>1, <1>4, <1>5 DEF Installed, Covers
  <2>5. Installed(i) => Covered(i)'
    BY <2>2, <2>3, <2>4 DEF Covered
  <2> QED
    BY <1>1, <1>8, <2>1, <2>2, <2>5, WriteCovers
<1>9. Sweeping(job[h])'
  <2>1. SUFFICES ASSUME p = "sweep" PROVE keyOf'[job'[h].old] = job'[h].oldKey
    BY <1>5 DEF Sweeping
  <2>2. job[h].old \in Insts /\ job[h].oldKey # NoKey
    BY <1>2, <1>3, <2>1, Names DEF PlanOK
  <2> QED
    BY <1>5, <1>7, <2>2 DEF Frugal
<1> QED
  BY <1>1, <1>2, <1>6, <1>8, <1>9, CredFrugal DEF Uncovers

LEMMA CredRestore ==
  ASSUME LicenseAssumption, Typed, Order, KeyInv, News, Guarded, CredInv, Works, Works',
         NEW h \in Handlers, Restore(h), Frugal
  PROVE  CredInv'
<1> DEFINE undo == [op |-> "undo", row |-> job[h].prev, inst |-> job[h].new]
<1>1. /\ job[h].pc = "restore" /\ job[h].new = h /\ h \in Actors /\ Modest(h) /\ Only(h)
      /\ job[h].prev.inst = job[h].old /\ queue \in Seq(Operation)
      /\ queue = <<>> \/ (Len(queue) = 1 /\ queue[1].op = "save")
      /\ IF queue = <<>> THEN row = job[h].prev \/ row.inst = h ELSE row = job[h].prev
  BY RoleOf, ModestWrites DEF Restore, At, ActivateOK, PlanOK, Ensuring, Early, Late, Modest,
     Hands, Order, Writes, KeyInv, Fitting, KeyJob, Writing, Typed, TypeOK
<1>2. Goto(h, "releaseNew") /\ "releaseNew" \in PC
  BY DEF Restore, PC
<1>3. job'[h].pc = "releaseNew"
  BY <1>2, HandlerGoto
<1>4. Write(undo) \/ Postpone(undo)
  BY DEF Restore, Works
<1>5. undo \in Operation
  BY RoleOf DEF Operation
<1>6. CASE Write(undo)
  <2>1. row'.inst = job[h].old /\ queue = <<>> /\ queue' = <<>>
    BY <1>1, <1>6 DEF Write, Applied
  <2> QED
    <3>1. ASSUME NEW i \in Insts, Covered(i) PROVE Uncovers(i)
      <4>1. i = job[h].old => Covered(i)'
        BY <2>1 DEF Covered, Installed
      <4>2. ~UndoneTo(i)
        BY <2>1 DEF UndoneTo
      <4>3. CASE Installed(i) \/ Covers(job[h], i)
        <5>1. i = job[h].old \/ i = h
          BY <1>1, <4>3 DEF Installed, Covers
        <5> QED
          BY <1>1, <4>1, <5>1 DEF Uncovers, Uncredited
      <4>4. CASE <<i, "catalog">> \in stranded
        BY <4>4 DEF Frugal, Covered, Uncovers
      <4>5. ASSUME NEW g \in Handlers, g # h, Covers(job[g], i) PROVE Uncovers(i)
        BY <1>1, <4>5 DEF Only, Actors, Covered, Uncovers, Covers
      <4> QED
        BY <3>1, <4>2, <4>3, <4>4, <4>5 DEF Covered
    <3>2. \A g \in Handlers : Undone(g)' => Undone(g)
      BY <2>1 DEF Undone
    <3>3. Sweeping(job[h])'
      BY <1>3 DEF Sweeping
    <3> QED
      BY <1>1, <1>3, <3>1, <3>2, <3>3, CredFrugal
<1>7. CASE Postpone(undo)
  <2>1. PICK op \in Operation : op = undo
    BY <1>5
  <2>2. op.op = "undo" /\ op.row.inst = job[h].old /\ op.inst = h
    BY <1>1, <2>1
  <2>3. /\ \E n \in DOMAIN queue' : queue'[n] = op
        /\ \A n \in DOMAIN queue' : queue'[n] = op \/ queue'[n].op = "save"
    <3>1. CASE queue = <<>>
      <4>1. queue' = <<op>>
        BY <1>7, <2>1, <3>1 DEF Postpone
      <4>2. DOMAIN queue' = {1} /\ queue'[1] = op
        BY <4>1
      <4> QED
        BY <4>2
    <3>2. CASE Len(queue) = 1 /\ queue[1].op = "save"
      <4>1. queue' = Append(queue, op)
        BY <1>7, <2>1 DEF Postpone
      <4>2. DOMAIN queue' = {1, 2} /\ queue'[1] = queue[1] /\ queue'[2] = op
        BY <1>1, <3>2, <4>1, BehindOne
      <4> QED
        BY <3>2, <4>2
    <3> QED
      BY <1>1, <3>1, <3>2
  <2>4. \A n \in DOMAIN queue : queue[n].op # "undo"
    BY <1>1
  <2>5. ASSUME NEW i \in Insts, Covered(i) PROVE Uncovers(i)
    <3>1. i = job[h].old => Covered(i)'
      BY <2>2, <2>3 DEF Covered, UndoneTo
    <3>2. ~UndoneTo(i)
      BY <2>4 DEF UndoneTo
    <3>3. CASE Installed(i) \/ Covers(job[h], i)
      <4>1. i = job[h].old \/ i = h
        BY <1>1, <3>3 DEF Installed, Covers
      <4> QED
        BY <1>1, <3>1, <4>1 DEF Uncovers, Uncredited
    <3>4. CASE <<i, "catalog">> \in stranded
      BY <3>4 DEF Frugal, Covered, Uncovers
    <3>5. ASSUME NEW g \in Handlers, g # h, Covers(job[g], i) PROVE Uncovers(i)
      BY <1>1, <3>5 DEF Only, Actors, Covered, Uncovers, Covers
    <3> QED
      BY <2>5, <3>2, <3>3, <3>4, <3>5 DEF Covered
  <2>6. \A g \in Handlers : Undone(g)' => g = h
    BY <2>2, <2>3 DEF Undone
  <2>7. Sweeping(job[h])'
    BY <1>3 DEF Sweeping
  <2> QED
    BY <1>1, <1>3, <2>5, <2>6, <2>7, CredFrugal
<1> QED
  BY <1>4, <1>6, <1>7

LEMMA CredMint ==
  ASSUME LicenseAssumption, Typed, News, Guarded, CredInv, Works, NEW h \in Handlers, Mint(h)
  PROVE  CredInv'
<1>1. /\ Modest(h) /\ job'[h].pc \in {"over", "teardown", "releaseNew", "releaseOwn"}
      /\ h \in Actors /\ Hands(h) /\ Only(h)
  BY ModestMint, RoleOf DEF Modest, Hands
<1>2. /\ UNCHANGED <<row, queue, creds, owed, overtaken, drain>> /\ stranded \subseteq stranded'
      /\ job[h].pc \in {"mint", "remint"}
  BY DEF Mint, local, ring, debts, At
<1>3. job[h].role = "activate" /\ Unsaved(job[h])
  BY <1>2, RoleOf DEF Early, Unsaved
<1>4. \A i \in Insts : i # h => keyOf'[i] = keyOf[i]
  BY MintKeys
<1>5. \A i \in Insts : keyOf'[i] = keyOf[i] \/ (i = h /\ Unsaved(job[h]))
  BY <1>3, <1>4
<1>6. \A g \in Handlers : Undone(g)' => Undone(g)
  BY <1>2 DEF Undone
<1>7. Crediting
  BY <1>1, <1>6, CreditStep
<1>8. ASSUME NEW c \in creds', Due(c[1], c[2]) PROVE Due(c[1], c[2])'
  <2>1. c \in creds /\ c[2] \in Insts /\ c[2] # h
    BY <1>2, <1>3, <1>8 DEF Typed, TypeOK, News, Unheard
  <2> QED
    BY <1>2, <1>4, <1>8, <2>1 DEF Due, OwedStill
<1>9. ASSUME NEW i \in Insts, Covered(i) PROVE Uncovers(i)
  <2>1. ~Covers(job[h], i)
    BY <1>2 DEF Covers, Covering
  <2> QED
    BY <1>1, <1>2, <1>9, <2>1, CoverQuiet, InstalledSame DEF Uncovers
<1>10. Sweeping(job[h])' /\ Issuing(h)'
  BY <1>1 DEF Sweeping, Issuing
<1> QED
  BY <1>1, <1>2, <1>5, <1>7, <1>8, <1>9, <1>10, CredStep DEF Issued

LEMMA RefreshDue ==
  ASSUME LicenseAssumption, Typed, CredInv, Works, Refresh
  PROVE  /\ UNCHANGED keyOf /\ creds' \subseteq creds /\ stranded \subseteq stranded'
         /\ \A c \in creds' : Due(c[1], c[2]) => Covered(c[2])' \/ Due(c[1], c[2])'
<1>1. CASE Tick
  BY <1>1 DEF Tick, ring, debts, remote, Due, OwedStill
<1>2. ASSUME NEW r \in drain.left, Retry(r)
      PROVE  /\ UNCHANGED keyOf /\ creds' \subseteq creds /\ stranded \subseteq stranded'
             /\ \A c \in creds' : Due(c[1], c[2]) => Covered(c[2])' \/ Due(c[1], c[2])'
  <2>1. /\ UNCHANGED <<keyOf, owed, overtaken>> /\ creds' \subseteq creds
        /\ stranded \subseteq stranded'
        /\ drain'.settled \in {drain.settled, drain.settled \cup {r}}
    BY <1>2 DEF Retry, ring, debts, Typed, TypeOK
  <2>2. r \in drain'.settled \ drain.settled /\ r[3] = "catalog" =>
          <<r[1], r[2]>> \notin creds' \/ <<r[2], "catalog">> \in stranded'
    BY <1>2 DEF Retry, Typed, TypeOK
  <2>3. ASSUME NEW c \in creds', Due(c[1], c[2]), ~Due(c[1], c[2])' PROVE Covered(c[2])'
    <3>1. c = <<keyOf[c[2]], c[2]>>
      BY <2>1 DEF CredInv, Typed, TypeOK
    <3>2. r = <<keyOf[c[2]], c[2], "catalog">> /\ r \in drain'.settled \ drain.settled
      BY <2>1, <2>3 DEF Due, OwedStill
    <3>3. <<c[2], "catalog">> \in stranded'
      BY <2>2, <3>1, <3>2
    <3> QED
      BY <3>3 DEF Covered
  <2> QED
    BY <2>1, <2>3
<1>3. CASE Settle
  BY <1>3 DEF Settle, Unsettled, NoDrain, remote, Due, OwedStill
<1>4. CASE Look \/ FindToken \/ Fetch \/ Reject \/ Adopt
  <2>1. Frugal
    <3>1. CASE Adopt
      BY <3>1 DEF Adopt, ring, debts, remote, Frugal
    <3> QED
      BY <1>4, <3>1 DEF Look, FindToken, Fetch, Reject, ring, debts, remote, Frugal
  <2> QED
    BY <2>1, DueStays DEF Frugal
<1> QED
  BY <1>1, <1>2, <1>3, <1>4 DEF Refresh

LEMMA CredRefresh ==
  ASSUME LicenseAssumption, Typed, News, Guarded, CredInv, Works, Refresh
  PROVE  CredInv'
<1>1. /\ Modest(Loop) /\ Hands(Loop) /\ Only(Loop) /\ Loop \in Actors /\ Loop \notin Handlers
      /\ job'[Loop].pc # "issue"
  BY RefreshModest, LoopFacts DEF Modest, Hands, Guarding
<1>2. /\ \A i \in Insts : Installed(i) => Installed(i)'
      /\ UNCHANGED queue \/ (queue = <<>> /\ \E op : op.op # "undo" /\
                                  (queue' = <<>> \/ queue' = <<op>>))
  BY RefreshInstalled
<1>3. /\ UNCHANGED keyOf /\ creds' \subseteq creds /\ stranded \subseteq stranded'
      /\ \A c \in creds' : Due(c[1], c[2]) => Covered(c[2])' \/ Due(c[1], c[2])'
  BY RefreshDue
<1>4. \A g \in Handlers : Undone(g)' => Undone(g)
  BY <1>2, UndoneNone DEF Undone
<1>5. \A i \in Insts : UndoneTo(i) => UndoneTo(i)'
  BY <1>2 DEF UndoneTo
<1>6. Crediting
  BY <1>1, <1>4, CreditStep
<1>7. ASSUME NEW i \in Insts, Covered(i) PROVE Covered(i)'
  <2>1. \A g \in Handlers : Covers(job[g], i) => Covers(job'[g], i)
    BY <1>1 DEF Only, Actors
  <2> QED
    BY <1>2, <1>3, <1>5, <1>7, <2>1 DEF Covered
<1>8. Issuing(Loop)' /\ Issued
  BY <1>1, <1>3 DEF Issuing, Issued
<1> QED
  BY <1>1, <1>3, <1>6, <1>7, <1>8, CredStep DEF Uncovers

\* The steps of ensure_credential, but for what is issued.
LEMMA EnsureStays ==
  ASSUME LicenseAssumption, Typed, Order, News, Guarded, CredInv, Works, NEW a \in Actors,
         Ensure(a) \/ Check(a) \/ Issue(a)
  PROVE  /\ Only(a) /\ UNCHANGED keyOf /\ Crediting
         /\ \A k, i : Due(k, i) => Due(k, i)'
         /\ \A i \in Insts : Covered(i) => Covered(i)'
         /\ a \in Handlers => Sweeping(job[a])'
<1>1. Hands(a) /\ Only(a)
  BY EnsureNews DEF Hands
<1>2. /\ UNCHANGED <<row, queue, keyOf, owed, overtaken, drain, stranded>>
      /\ job[a].pc \in Ensuring
  BY DEF Ensure, Check, Issue, local, ring, debts, remote, At, Ensuring
<1>3. job'[a].pc \in {"over", "idle", "fetch", "capture", "check", "issue"}
  <2>1. CASE \E got \in BOOLEAN : AfterEnsure(a, got)
    BY <1>2, <2>1, AfterEnsureHands
  <2>2. CASE \E p \in Guarding : Goto(a, p)
    BY <1>2, <2>2, GuardingHands DEF Guarding
  <2> QED
    BY <2>1, <2>2 DEF Ensure, Check, Issue, Guarding
<1>4. \A g \in Handlers : Undone(g)' => Undone(g)
  BY <1>2 DEF Undone
<1>5. Crediting
  BY <1>1, <1>3, <1>4, CreditStep
<1>6. \A k, i : Due(k, i) => Due(k, i)'
  BY <1>2 DEF Due, OwedStill
<1>7. ASSUME NEW i \in Insts, Covered(i) PROVE Covered(i)'
  <2>1. ~Covers(job[a], i)
    BY <1>2 DEF Covers, Covering, Ensuring
  <2> QED
    BY <1>1, <1>2, <1>7, <2>1, CoverQuiet, InstalledSame
<1>8. Sweeping(job[a])'
  BY <1>3 DEF Sweeping
<1> QED
  BY <1>1, <1>2, <1>5, <1>6, <1>7, <1>8

\* What StillInstalled sees under both locks.
LEMMA CheckIssuing ==
  ASSUME LicenseAssumption, Typed, Order, KeyInv, Works, NEW a \in Actors,
         Check(a), StillInstalled(job[a].key, For(a)), NEW i \in Insts, i = For(a)
  PROVE  /\ keyOf[i] = job[a].key /\ Covered(i)
         /\ \A h \in Handlers : Uncredited(h) => i # h
<1>1. /\ license = Nobody /\ queue = <<>> /\ key = job[a].key /\ row.inst = i
      /\ job[a].pc \in Ensuring
  BY DEF Check, StillInstalled, At, Ensuring
<1>2. \A h \in Handlers : job[h].pc \notin Holding
  BY <1>1 DEF Order, Holders, LicenseAssumption, Actors
<1>3. Fits(row, key)
  BY <1>1, <1>2, RowKey DEF Writing, Holding
<1>4. row # NoRow /\ key # NoKey
  BY <1>1, ForFacts, Names DEF NoRow, LicenseAssumption
<1>5. keyOf[i] = job[a].key
  BY <1>1, <1>3, <1>4 DEF Fits
<1>6. Covered(i)
  BY <1>1 DEF Covered, Installed
<1>7. \A h \in Handlers : Uncredited(h) => i # h
  BY <1>1, <1>2 DEF Uncredited, Undone, Holding, Order, Writes, Foreign
<1> QED
  BY <1>5, <1>6, <1>7

LEMMA CredEnsure ==
  ASSUME LicenseAssumption, Typed, Order, KeyInv, News, Guarded, CredInv, Works,
         NEW a \in Actors, Ensure(a) \/ Check(a) \/ Issue(a)
  PROVE  CredInv'
<1>1. /\ Only(a) /\ UNCHANGED keyOf /\ Crediting
      /\ \A k, i : Due(k, i) => Due(k, i)'
      /\ \A i \in Insts : Covered(i) => Covered(i)'
      /\ a \in Handlers => Sweeping(job[a])'
  BY EnsureStays
<1>2. job[a].pc \in Ensuring /\ job \in [Actors -> Job]
  BY DEF Ensure, Check, Issue, At, Ensuring, Typed, TypeOK
<1>3. PICK i \in Insts : i = For(a)
  BY <1>2, ForFacts
<1>4. Issuing(a)'
  <2>1. CASE \E got \in BOOLEAN : AfterEnsure(a, got)
    <3>1. job'[a].pc # "issue"
      BY <1>2, <2>1, AfterEnsureHands
    <3> QED
      BY <3>1 DEF Issuing
  <2>2. CASE Goto(a, "check")
    <3>1. job'[a].pc = "check"
      BY <1>2, <2>2, GuardingHands DEF Guarding
    <3> QED
      BY <3>1 DEF Issuing
  <2>3. CASE Check(a) /\ StillInstalled(job[a].key, For(a)) /\ Goto(a, "issue")
    <3>1. /\ keyOf[i] = job[a].key /\ Covered(i)
          /\ \A h \in Handlers : Uncredited(h) => i # h
      BY <1>3, <2>3, CheckIssuing
    <3>2. "issue" \in PC
      BY DEF PC
    <3>3. job'[a].key = job[a].key /\ job'[a].old = job[a].old /\ job'[a].new = job[a].new
      BY <1>2, <2>3, <3>2, GotoFacts
    <3>4. For(a)' = i
      BY <1>3, <3>3 DEF For
    <3>5. Covered(i)'
      BY <1>1, <3>1
    <3>6. Covered(For(a))'
      BY <3>4, <3>5 DEF Covered, Installed, UndoneTo
    <3> QED
      BY <1>1, <3>1, <3>3, <3>4, <3>6 DEF Issuing, Crediting
  <2> QED
    BY <2>1, <2>2, <2>3 DEF Ensure, Check, Issue
<1>5. Issued
  <2>1. CASE Ensure(a) \/ Check(a)
    BY <2>1 DEF Ensure, Check, remote, Issued
  <2>2. CASE Issue(a)
    <3>1. /\ keyOf[i] = job[a].key /\ Covered(i)
          /\ \A h \in Handlers : Uncredited(h) => i # h
      BY <1>3, <2>2 DEF Issue, At, CredInv, Issuing, Covered, Installed, UndoneTo
    <3>2. creds' \subseteq creds \cup {<<job[a].key, i>>}
      BY <1>3, <2>2 DEF Issue
    <3>3. ASSUME NEW c \in creds', c \notin creds
          PROVE  /\ c[1] = keyOf'[c[2]] /\ Covered(c[2])'
                 /\ \A h \in Handlers : Uncredited(h) => c[2] # h
      <4>1. c = <<job[a].key, i>> /\ c[1] = job[a].key /\ c[2] = i
        BY <3>2, <3>3
      <4>2. Covered(i)'
        BY <1>1, <3>1
      <4>3. Covered(c[2])'
        BY <4>1, <4>2
      <4> QED
        BY <1>1, <3>1, <4>1, <4>3
    <3> QED
      BY <3>3 DEF Issued
  <2> QED
    BY <2>1, <2>2
<1> QED
  BY <1>1, <1>4, <1>5, CredStep DEF Uncovers

LEMMA CredStill ==
  ASSUME LicenseAssumption, Typed, CredInv, Works,
         UNCHANGED <<job, keyOf, creds, owed, overtaken, drain>>,
         \A g \in Handlers : Undone(g)' => Undone(g),
         \A i \in Insts : Covered(i) => Covered(i)'
  PROVE  CredInv'
<1>1. \A c \in creds : c[2] \in Insts
  BY DEF Typed, TypeOK
<1>2. \A k, i : Due(k, i) => Due(k, i)'
  BY DEF Due, OwedStill
<1>3. \A c \in creds' : c[1] = keyOf'[c[2]] /\ (Covered(c[2])' \/ Due(c[1], c[2])')
  BY <1>1, <1>2 DEF CredInv
<1>4. Crediting
  BY DEF Crediting, Uncredited
<1>5. \A h \in Handlers : Sweeping(job[h])'
  BY DEF CredInv, Sweeping
<1>6. ASSUME NEW a \in Actors PROVE Issuing(a)'
  <2>1. SUFFICES ASSUME job[a].pc = "issue" PROVE Issuing(a)'
    BY DEF Issuing
  <2>2. PICK i \in Insts : i = For(a)
    BY <2>1, ForFacts DEF Ensuring
  <2>3. For(a)' = i
    BY <2>2 DEF For
  <2>4. /\ keyOf[i] = job[a].key /\ Covered(i)
        /\ \A h \in Handlers : Uncredited(h) => i # h
    BY <2>1, <2>2 DEF CredInv, Issuing, Covered, Installed, UndoneTo
  <2>5. Covered(i)'
    BY <2>4
  <2>6. Covered(For(a))'
    BY <2>3, <2>5 DEF Covered, Installed, UndoneTo
  <2> QED
    BY <1>4, <2>3, <2>4, <2>6 DEF Issuing, Crediting
<1> QED
  BY <1>3, <1>4, <1>5, <1>6 DEF CredInv, Crediting

LEMMA CredLand ==
  ASSUME LicenseAssumption, Typed, Order, KeyInv, LinkInv, CredInv, Works, Works', Land
  PROVE  CredInv'
<1>1. /\ UNCHANGED <<job, keyOf, creds, owed, overtaken, drain, stranded>>
      /\ queue' = Tail(queue) /\ queue # <<>>
      /\ row' = Applied(Head(queue)) \/ (row' = row /\ Head(queue).op # "undo")
  BY DEF Land, ring, debts, remote, Works
<1>2. /\ queue \in Seq(Operation) /\ Len(queue) \in {1, 2}
      /\ DOMAIN queue = 1 .. Len(queue) /\ Head(queue) = queue[1]
      /\ Len(queue) = 2 => queue[1].op = "save" /\ queue[2].op = "undo"
  BY <1>1, ShortQueue DEF KeyInv, Fitting
<1>3. \A i \in Insts : Installed(i) => Installed(i)'
  BY LandInstalled
<1>4. (\A g \in Handlers : Undone(g)' => Undone(g))
      /\ \A i \in Insts : UndoneTo(i) => UndoneTo(i)' \/ Installed(i)'
  <2>1. CASE Len(queue) = 1
    <3>1. queue' = <<>> /\ DOMAIN queue = {1}
      BY <1>1, <1>2, <2>1
    <3>2. queue[1].op = "undo" => row = queue[1].row \/ row.inst = queue[1].inst
      BY <3>1 DEF LinkInv, Waiting
    <3>3. queue[1].op = "undo" => row'.inst = queue[1].row.inst
      BY <1>1, <1>2, <3>2 DEF Applied
    <3> QED
      BY <3>1, <3>3 DEF Undone, UndoneTo, Installed
  <2>2. CASE Len(queue) = 2
    <3>1. DOMAIN queue' = {1} /\ queue'[1] = queue[2] /\ DOMAIN queue = {1, 2}
      BY <1>1, <1>2, <2>2, LastOne
    <3> QED
      BY <1>2, <2>2, <3>1 DEF Undone, UndoneTo
  <2> QED
    BY <1>2, <2>1, <2>2
<1>5. ASSUME NEW i \in Insts, Covered(i) PROVE Covered(i)'
  BY <1>1, <1>3, <1>4, <1>5 DEF Covered
<1> QED
  BY <1>1, <1>4, <1>5, CredStill

LEMMA CredNext ==
  ASSUME LicenseAssumption, Typed, Order, KeyInv, News, Guarded, LinkInv, CredInv,
         [Next]_vars
  PROVE  CredInv'
<1> SUFFICES ASSUME Works', Works PROVE CredInv'
  BY WorksBefore DEF CredInv
<1>1. ASSUME NEW h \in Handlers, Handler(h) PROVE CredInv'
  <2>1. CASE Mint(h)
    BY <2>1, CredMint
  <2>2. CASE ~Mint(h)
    <3>1. Frugal
      BY <1>1, <2>2, HandlerFrugal
    <3>2. CASE \/ \E role \in Roles, k \in Keys :
                    (role = "activate" \/ k = 1) /\ Start(h, role, k)
               \/ Capture(h) \/ Load(h) \/ Ask(h) \/ Plan(h) \/ Confirm(h) \/ FindKey(h)
      BY <3>1, <3>2, CredReads DEF Looks
    <3>3. CASE Commit(h) \/ Clear(h) \/ Save(h) \/ Restore(h)
      BY <3>1, <3>3, CredCommit, CredClear, CredSave, CredRestore
    <3>4. CASE \/ Teardown(h) \/ Stray(h) \/ Persist(h) \/ Unlink(h) \/ Rekey(h)
               \/ Released(h) \/ Recorded(h)
      BY <3>1, <3>4, CredMoves
    <3>5. CASE Sweep(h) \/ Credential(h)
      BY <3>1, <3>5, CredReleases
    <3>6. CASE Forget(h) \/ Reread(h) \/ Tombstone(h)
      BY <3>1, <3>6, CredUnlinked
    <3> QED
      BY <1>1, <2>2, <3>2, <3>3, <3>4, <3>5, <3>6 DEF Handler
  <2> QED
    BY <2>1, <2>2
<1>2. CASE Turn \/ UNCHANGED vars
  <2>1. /\ UNCHANGED <<job, keyOf, creds, owed, overtaken, drain, stranded, row, queue>>
    BY <1>2 DEF Turn, vars, local, ring, debts, remote
  <2>2. \A i \in Insts : Covered(i) => Covered(i)'
    BY <2>1 DEF Covered, Installed, Applied, UndoneTo
  <2> QED
    BY <2>1, <2>2, CredStill DEF Undone
<1>3. CASE \E backup \in Backups : Import(backup)
  BY <1>3 DEF Import, Works
<1> QED
  BY <1>1, <1>2, <1>3, CredRefresh, CredEnsure, CredLand DEF Next

LEMMA CredInit == ASSUME LicenseAssumption, Init PROVE CredInv
<1>1. creds = {} /\ \A a \in Actors : job[a].pc = "idle"
  BY DEF Init, NoJob
<1>2. \A h \in Handlers : job[h].pc = "idle"
  BY <1>1 DEF Actors
<1> QED
  BY <1>1, <1>2 DEF CredInv, Sweeping, Issuing

-----------------------------------------------------------------------------

\* All that the steps of the license keep.
Kept == Typed /\ Order /\ KeyInv /\ Guarded /\ News /\ LinkInv /\ SeatInv /\ CredInv

LEMMA KeptInit == ASSUME LicenseAssumption, Init PROVE Kept
BY InitTypes, OrderInit, KeyInit, NewsInit, LinkInit, SeatInit, CredInit DEF Kept

LEMMA KeptNext == ASSUME LicenseAssumption, Kept, [Next]_vars PROVE Kept'
<1>1. Typed' /\ Order' /\ KeyInv' /\ News' /\ Guarded'
  BY NextTypes, OrderNext, KeyNext, NewsNext DEF Kept
<1>2. LinkInv' /\ SeatInv' /\ CredInv'
  BY <1>1, LinkNext, SeatNext, CredNext DEF Kept
<1> QED
  BY <1>1, <1>2 DEF Kept

LEMMA KeptForgets ==
  ASSUME LicenseAssumption, Kept
  PROVE  NothingIsForgotten
<1> SUFFICES ASSUME imports = 0, ~torn, queue = <<>>
             PROVE  /\ \A i \in seats : SeatKept(i)
                    /\ \A c \in creds :
                         CredentialKept(c[1], c[2]) \/ <<c[1], c[2], "catalog">> \in overtaken
  BY DEF NothingIsForgotten
<1>1. Works
  BY DEF Works
<1>2. ASSUME NEW h \in Handlers, NEW i \in Insts,
             Tends(h, job[h], i) \/ Covers(job[h], i)
      PROVE  InHand(i)
  <2>1. CASE job[h].role = "activate" /\ h = i /\ job[h].pc \in Bringing
    <3>1. ActivateOK(h, job[h]) /\ job[h].pc \notin Early /\ job[h].pc \notin Ensuring
      BY <2>1, RoleOf DEF Kept, Bringing, Early, Ensuring
    <3>2. job[h].new = i
      BY <2>1, <3>1 DEF ActivateOK, PlanOK
    <3> QED
      BY <2>1, <3>2 DEF InHand
  <2>2. CASE job[h].role = "deactivate" /\ job[h].old = i
    BY <2>2 DEF InHand
  <2>3. CASE Covers(job[h], i)
    <3>1. job[h].role \in {"activate", "deactivate"}
      BY <2>3, RoleOf DEF Kept, Covers, Covering, Late
    <3> QED
      BY <2>3, <3>1 DEF InHand, Covers
  <2> QED
    BY <1>2, <2>1, <2>2, <2>3 DEF Tends
<1>3. ASSUME NEW i \in seats PROVE SeatKept(i)
  <2>1. i \in Insts
    BY DEF Kept, Typed, TypeOK
  <2>2. \/ <<i, "provider">> \in stranded \/ OwedStill(i, "provider") \/ Installed(i)
        \/ \E h \in Handlers : Tends(h, job[h], i)
    BY <1>1, <2>1 DEF Kept, SeatInv, Gone
  <2> QED
    BY <1>2, <2>1, <2>2 DEF SeatKept, OwedStill, Installed
<1>4. ASSUME NEW c \in creds
      PROVE  CredentialKept(c[1], c[2]) \/ <<c[1], c[2], "catalog">> \in overtaken
  <2>1. c[2] \in Insts /\ c[1] = keyOf[c[2]]
    BY <1>1 DEF Kept, Typed, TypeOK, CredInv
  <2>2. Covered(c[2]) \/ Due(c[1], c[2])
    BY <1>1 DEF Kept, CredInv
  <2>3. ~UndoneTo(c[2])
    BY DEF UndoneTo
  <2> QED
    BY <1>2, <2>1, <2>2, <2>3 DEF CredentialKept, Covered, Due, OwedStill, Installed
<1> QED
  BY <1>3, <1>4

\* No seat at the provider and no credential at the catalog service is
\* forgotten once the worker has done what timed out: it belongs to the
\* installed row, is in the hand of a command, is recorded to be released, or
\* nobody here can release it.  That is what activate_license does with
\* release_orphaned_instance, persist_generation's restore and its sweep, and
\* deactivate_license with its unlinking first and its tombstone, beside a
\* loop that issues credentials and takes off the record what it has settled.
THEOREM NothingForgotten == LicenseAssumption /\ Spec => []NothingIsForgotten
<1> SUFFICES ASSUME LicenseAssumption PROVE Spec => []NothingIsForgotten
  OBVIOUS
<1>1. Init => Kept
  BY KeptInit
<1>2. Kept /\ [Next]_vars => Kept'
  BY KeptNext
<1>3. Kept => NothingIsForgotten
  BY KeptForgets
<1> QED
  BY <1>1, <1>2, <1>3, PTL DEF Spec
=============================================================================
