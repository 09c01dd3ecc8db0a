----------------------- MODULE MCFixesAndLicenseProofs -----------------------
(***************************************************************************)
(* The attempts to fix, for any defects and lines, any number of attempts, *)
(* edits, scans, faults and crashes, and all waits in the order of the     *)
(* code's; and the license that MCFixesAndLicense puts beside them, which  *)
(* keeps its properties there.                                             *)
(*                                                                         *)
(* The theorems on the license are about a copy of it, the one its module  *)
(* of proofs extends; the copy and the part of MCFixesAndLicense are equal *)
(* once the definitions are expanded, which is all the long lists below    *)
(* do.                                                                     *)
(***************************************************************************)
EXTENDS MCFixesAndLicense, FiniteSetTheorems, TLAPS

LicThms == INSTANCE LicenseProofs WITH MaxFaults <- LicenseFaults,
                                       faults <- licenseFaults

-----------------------------------------------------------------------------
(* The attempts: tables and types.                                         *)

\* Every status of a row, and every state of a group that an action gives it.
LEMMA Words ==
  /\ Active \cap Settled = {} /\ "absent" \notin Active \cup Settled
  /\ Decisions \subseteq Life
  /\ \A state \in Life : Reobserved(state) \in Life
BY DEF Active, Settled, Decisions, Life, Reobserved, ProvesAbsence

LEMMA CountOK ==
  ASSUME NEW w \in World
  PROVE  Cardinality(Found(w)) \in 0 .. Cardinality(Defects)
<1>1. Found(w) \subseteq Defects /\ IsFiniteSet(Defects)
  BY FixAttemptsAssumption DEF Found
<1>2. /\ IsFiniteSet(Found(w)) /\ Cardinality(Found(w)) <= Cardinality(Defects)
      /\ Cardinality(Found(w)) \in Nat /\ Cardinality(Defects) \in Nat
  BY <1>1, FS_Subset, FS_CardinalityType
<1> QED
  BY <1>2

LEMMA RowTypes ==
  /\ NoAttempt \in Attempt
  /\ \A attempt \in Attempt :
       \A status \in Active \cup Settled : [attempt EXCEPT !.status = status] \in Attempt
  /\ \A age \in 0 .. Old : Older(age) \in 0 .. Old
<1>1. 0 \in 0 .. Old /\ 0 \in 0 .. Cardinality(Defects)
  BY FixAttemptsAssumption, FS_CardinalityType DEF Old
<1>2. \A age \in 0 .. Old : Older(age) \in 0 .. Old
  BY FixAttemptsAssumption DEF Old, Older
<1> QED
  BY <1>1, <1>2 DEF NoAttempt, Attempt, Places

LEMMA RowUpdates ==
  ASSUME NEW was \in Attempt, NEW status \in Active \cup Settled \cup {"absent"},
         NEW quiet \in 0 .. Old, NEW waited \in 0 .. Old, NEW b \in BOOLEAN
  PROVE  /\ [was EXCEPT !.status = status, !.quiet = quiet] \in Attempt
         /\ [was EXCEPT !.status = status, !.quiet = quiet, !.waited = waited] \in Attempt
         /\ [was EXCEPT !.status = status, !.quiet = quiet, !.started = b,
                        !.waited = waited] \in Attempt
         /\ [was EXCEPT !.fetched = b, !.quiet = quiet] \in Attempt
         /\ [was EXCEPT !.quiet = quiet, !.waited = waited] \in Attempt
         /\ [was EXCEPT !.quiet = quiet] \in Attempt
<1>1. [was EXCEPT !.status = status, !.quiet = quiet] \in Attempt
  BY Zenon DEF Attempt
<1>2. [was EXCEPT !.status = status, !.quiet = quiet, !.waited = waited] \in Attempt
  BY Zenon DEF Attempt
<1>3. [was EXCEPT !.status = status, !.quiet = quiet, !.started = b,
                  !.waited = waited] \in Attempt
  BY Zenon DEF Attempt
<1>4. [was EXCEPT !.fetched = b, !.quiet = quiet] \in Attempt
  BY Zenon DEF Attempt
<1>5. [was EXCEPT !.quiet = quiet, !.waited = waited] \in Attempt
  BY Zenon DEF Attempt
<1>6. [was EXCEPT !.quiet = quiet] \in Attempt
  BY Zenon DEF Attempt
<1> QED
  BY <1>1, <1>2, <1>3, <1>4, <1>5, <1>6

\* What the writes of a was are, was by was.
LEMMA ClosedRows ==
  ASSUME attempts \in [Ids -> Attempt], NEW a \in Ids, NEW status
  PROVE  Closed(a, status) =
           [attempts EXCEPT ![a] =
              [attempts[a] EXCEPT !.status = status, !.quiet = 0, !.waited = 0]]
BY DEF Closed, Attempt

LEMMA VerifyingRows ==
  ASSUME attempts \in [Ids -> Attempt], NEW a \in Ids
  PROVE  Verifying(a) =
           [attempts EXCEPT ![a] =
              [attempts[a] EXCEPT !.status = "verifying", !.quiet = 0, !.started = TRUE,
                 !.waited = IF attempts[a].started THEN attempts[a].waited ELSE 0]]
BY DEF Verifying, Attempt

LEMMA TouchedRows ==
  ASSUME attempts \in [Ids -> Attempt], NEW a
  PROVE  Touched(a) = [attempts EXCEPT ![a] = [attempts[a] EXCEPT !.quiet = 0]]
BY DEF Touched, Attempt

\* What writes the table keeps its type.
LEMMA WritesType ==
  ASSUME TypeOK
  PROVE  /\ \A a \in Ids, status \in Settled :
              /\ Closed(a, status) \in [Ids -> Attempt]
              /\ SetStatus(a, status) \in [Ids -> Attempt]
         /\ \A a \in Ids : Verifying(a) \in [Ids -> Attempt]
         /\ \A a \in 0 .. MaxAttempts : Touched(a) \in [Ids -> Attempt]
         /\ Expired \in [Ids -> Attempt]
<1> USE DEF TypeOK
<1>1. 0 \in 0 .. Old
  BY FixAttemptsAssumption DEF Old
<1>2. ASSUME NEW a \in Ids, NEW status \in Settled
      PROVE  Closed(a, status) \in [Ids -> Attempt]
  <2>1. [attempts[a] EXCEPT !.status = status, !.quiet = 0, !.waited = 0] \in Attempt
    <3>1. attempts[a] \in Attempt /\ status \in Active \cup Settled \cup {"absent"}
      OBVIOUS
    <3> QED
      BY ONLY <1>1, <3>1, RowUpdates, Zenon
  <2>2. Closed(a, status) =
          [attempts EXCEPT ![a] =
             [attempts[a] EXCEPT !.status = status, !.quiet = 0, !.waited = 0]]
    BY ClosedRows
  <2> QED
    BY <2>1, <2>2
<1>3. ASSUME NEW a \in Ids PROVE Verifying(a) \in [Ids -> Attempt]
  <2>1. [attempts[a] EXCEPT !.status = "verifying", !.quiet = 0, !.started = TRUE,
           !.waited = IF attempts[a].started THEN attempts[a].waited ELSE 0] \in Attempt
    <3>1. "verifying" \in Active \cup Settled \cup {"absent"}
      BY DEF Active
    <3>2. attempts[a] \in Attempt
      OBVIOUS
    <3>3. attempts[a].waited \in 0 .. Old
      BY ONLY <3>2 DEF Attempt
    <3>4. (IF attempts[a].started THEN attempts[a].waited ELSE 0) \in 0 .. Old
      BY ONLY <1>1, <3>3
    <3> QED
      BY ONLY <1>1, <3>1, <3>2, <3>4, RowUpdates, Zenon
  <2> QED
    BY <2>1, VerifyingRows
<1>4. ASSUME NEW a \in 0 .. MaxAttempts PROVE Touched(a) \in [Ids -> Attempt]
  <2>1. a \in Ids => [attempts[a] EXCEPT !.quiet = 0] \in Attempt
    BY <1>1 DEF Attempt
  <2> QED
    BY <2>1, TouchedRows
<1>5. Expired \in [Ids -> Attempt]
  <2>1. \A a \in Ids : Closed(a, "expired")[a] \in Attempt
    BY <1>2 DEF Settled
  <2> QED
    BY <2>1 DEF Expired
<1> QED
  BY <1>2, <1>3, <1>4, <1>5 DEF SetStatus

LEMMA InsertedType ==
  ASSUME TypeOK, NEW a \in Ids, NEW target \in {Group, "occurrence"},
         NEW line \in Places, NEW aim \in Defects \cup {Group},
         NEW status \in {"briefed", "canceled"}
  PROVE  Inserted(a, target, line, aim, status) \in [Ids -> Attempt]
<1>1. [NoAttempt EXCEPT !.status = status, !.target = target, !.line = line,
         !.aim = aim, !.count = Cardinality(Found(open))] \in Attempt
  <2>1. Cardinality(Found(open)) \in 0 .. Cardinality(Defects)
    BY CountOK DEF TypeOK
  <2>2. 0 \in 0 .. Old
    BY FixAttemptsAssumption DEF Old
  <2> QED
    BY <2>1, <2>2 DEF NoAttempt, Attempt, Active, Settled
<1>2. \A b \in Ids : Closed(b, "canceled")[b] \in Attempt
  BY WritesType DEF Settled
<1> QED
  BY <1>1, <1>2 DEF Inserted, TypeOK

LEMMA WatcherTypes ==
  ASSUME TypeOK
  PROVE  /\ \A p \in WatcherPC : OnWith(p) \in Watcher
         /\ Next1 \in WatcherPC /\ Asleep \in Watcher /\ NoOther \in Other
         /\ 0 \in 0 .. MaxAttempts /\ Ids \subseteq 0 .. MaxAttempts
<1>1. Nothing \in World
  BY DEF Nothing, World, Places
<1>2. 0 \in 0 .. MaxAttempts /\ Ids \subseteq 0 .. MaxAttempts
  BY FixAttemptsAssumption DEF Ids
<1> QED
  BY <1>1, <1>2 DEF TypeOK, OnWith, Watcher, Next1, WatcherPC, Asleep, NoOther, Other

LEMMA WatcherUpdates ==
  ASSUME NEW w \in Watcher
  PROVE  /\ \A p \in WatcherPC : [w EXCEPT !.pc = p] \in Watcher
         /\ \A p \in WatcherPC, a \in 0 .. MaxAttempts :
              [w EXCEPT !.pc = p, !.a = a] \in Watcher
         /\ \A p \in WatcherPC, T \in SUBSET Ids :
              [w EXCEPT !.pc = p, !.todo = T] \in Watcher
         /\ \A p \in WatcherPC, seen \in World :
              [w EXCEPT !.pc = p, !.scan = seen] \in Watcher
         /\ \A p \in WatcherPC, b \in BOOLEAN :
              [w EXCEPT !.pc = p, !.waits = b] \in Watcher
         /\ \A T \in SUBSET Ids : [w EXCEPT !.todo = T] \in Watcher
         /\ \A T \in SUBSET Ids, b \in BOOLEAN :
              [w EXCEPT !.todo = T, !.deduped = b] \in Watcher
         /\ \A T \in SUBSET Ids, a \in 0 .. MaxAttempts :
              [w EXCEPT !.todo = T, !.a = a] \in Watcher
         /\ \A a \in 0 .. MaxAttempts : [w EXCEPT !.a = a] \in Watcher
         /\ \A b \in BOOLEAN : [w EXCEPT !.deduped = b] \in Watcher
BY DEF Watcher

\* Of these, the ones that a step of a larger proof cites alone.
LEMMA WatcherScans ==
  ASSUME NEW w \in Watcher, NEW p \in WatcherPC, NEW seen \in World
  PROVE  [w EXCEPT !.pc = p, !.scan = seen] \in Watcher
BY Zenon DEF Watcher

LEMMA WatcherWaits ==
  ASSUME NEW w \in Watcher, NEW p \in WatcherPC, NEW b \in BOOLEAN
  PROVE  [w EXCEPT !.pc = p, !.waits = b] \in Watcher
BY Zenon DEF Watcher

LEMMA WatcherLists ==
  ASSUME NEW w \in Watcher, NEW T \in SUBSET Ids
  PROVE  [w EXCEPT !.todo = T, !.deduped = FALSE] \in Watcher
BY Zenon DEF Watcher

LEMMA WatcherMoves ==
  ASSUME NEW w \in Watcher, NEW p \in WatcherPC
  PROVE  [w EXCEPT !.pc = p] \in Watcher
BY Zenon DEF Watcher

\* The states of the watcher that the actions name.
LEMMA WatcherNames ==
  /\ {"requested", "started", "scanned", "giveup", "verifying", "sources",
      "verified", "mark", "failed", "touch"} \subseteq WatcherPC
  /\ Nothing \in World
BY DEF WatcherPC, Nothing, World, Places

\* The bounds, whatever happens in a step.
BoundsOK ==
    /\ edits \in 0 .. MaxEdits /\ others \in 0 .. MaxOthers
    /\ faults \in 0 .. MaxFaults /\ crashes \in 0 .. MaxCrashes

LEMMA FaultTypes == ASSUME BoundsOK, Fault \/ NoFault PROVE BoundsOK'
BY FixAttemptsAssumption DEF BoundsOK, Fault, NoFault, bounds

LEMMA ProjectTypes ==
  ASSUME TypeOK, NEW seen \in World, Project(seen)
  PROVE  open' \in World /\ life' \in Life /\ cleared' \in BOOLEAN
BY Words DEF TypeOK, Project

LEMMA UsersType ==
  ASSUME TypeOK,
         \/ \E a \in Ids : FetchBrief(a) \/ Request(a) \/ Cancel(a)
         \/ \E a \in Ids : Create(a, Group, 0, Group)
         \/ \E a \in Ids, d \in Defects, l \in Lines : Create(a, "occurrence", l, d)
  PROVE  TypeOK'
<1> USE DEF TypeOK
<1>1. 0 \in 0 .. Old
  BY FixAttemptsAssumption DEF Old
<1>2. ASSUME NEW a \in Ids, FetchBrief(a) PROVE TypeOK'
  <2>1. attempts' = [attempts EXCEPT ![a] =
                       [attempts[a] EXCEPT !.fetched = TRUE, !.quiet = 0]]
    BY <1>2 DEF FetchBrief, Attempt
  <2>2. [attempts[a] EXCEPT !.fetched = TRUE, !.quiet = 0] \in Attempt
    <3>1. attempts[a] \in Attempt
      OBVIOUS
    <3> QED
      BY ONLY <1>1, <3>1, Zenon DEF Attempt
  <2> QED
    BY <1>2, <2>1, <2>2 DEF FetchBrief, bounds
<1>3. ASSUME NEW a \in Ids, Request(a) PROVE TypeOK'
  <2>1. attempts' = [attempts EXCEPT ![a] =
                       [attempts[a] EXCEPT !.status = "verify_requested", !.quiet = 0]]
    BY <1>3 DEF Request, Attempt
  <2>2. [attempts[a] EXCEPT !.status = "verify_requested", !.quiet = 0] \in Attempt
    <3>1. "verify_requested" \in Active \cup Settled \cup {"absent"}
      BY DEF Active
    <3>2. attempts[a] \in Attempt
      OBVIOUS
    <3> QED
      BY ONLY <1>1, <3>1, <3>2, RowUpdates, Zenon
  <2> QED
    BY <1>3, <2>1, <2>2 DEF Request, bounds
<1>4. ASSUME NEW a \in Ids, Cancel(a) PROVE TypeOK'
  BY <1>4, WritesType DEF Cancel, Settled, bounds
<1>5. ASSUME NEW a \in Ids, NEW target \in {Group, "occurrence"}, NEW line \in Places,
             NEW aim \in Defects \cup {Group}, Create(a, target, line, aim)
      PROVE  TypeOK'
  <2>1. attempts' \in [Ids -> Attempt]
    BY <1>5, InsertedType DEF Create
  <2>2. BoundsOK'
    BY <1>5, FaultTypes DEF Create, BoundsOK
  <2> QED
    BY <1>5, <2>1, <2>2 DEF Create, BoundsOK
<1> QED
  BY <1>2, <1>3, <1>4, <1>5 DEF Places

LEMMA OthersType ==
  ASSUME TypeOK,
         \/ \E d \in Defects, place \in Places : Edit(d, place)
         \/ \E decision \in UserDecides : Decide(decision)
         \/ \E by \in {"user", "background"} : OtherObserves(by)
         \/ OtherWrites \/ OtherFails \/ UserChecks \/ UserMarks
         \/ Crash \/ Launch \/ Time
  PROVE  TypeOK'
<1> USE DEF TypeOK
<1>1. ASSUME NEW d \in Defects, NEW place \in Places, Edit(d, place) PROVE TypeOK'
  BY <1>1, FixAttemptsAssumption DEF Edit, World
<1>2. ASSUME NEW decision \in UserDecides, Decide(decision) PROVE TypeOK'
  BY <1>2, Words, FixAttemptsAssumption DEF Decide, bounds
<1>3. ASSUME NEW by \in {"user", "background"}, OtherObserves(by) PROVE TypeOK'
  BY <1>3, FixAttemptsAssumption DEF OtherObserves, Other
<1>4. CASE OtherWrites
  <2>1. other.scan \in World
    BY DEF Other
  <2>2. other' \in Other
    BY <1>4, WatcherTypes DEF OtherWrites, Other
  <2> QED
    BY <1>4, <2>1, <2>2, ProjectTypes DEF OtherWrites, bounds
<1>5. CASE OtherFails \/ UserChecks \/ UserMarks
  <2>1. [other EXCEPT !.pc = "clear"] \in Other /\ "verified" \in Life
    BY DEF Other, Life
  <2>2. other' \in Other /\ life' \in Life
    BY <1>5, <2>1, WatcherTypes DEF OtherFails, UserChecks, UserMarks
  <2>3. UNCHANGED <<kind, code, open, attempts, watcher, up, ticked, cleared, bounds>>
    BY <1>5 DEF OtherFails, UserChecks, UserMarks
  <2> QED
    BY <2>2, <2>3 DEF bounds
<1>6. CASE Crash \/ Launch
  <2>1. watcher' \in Watcher /\ other' \in Other /\ up' \in BOOLEAN /\ ticked' \in BOOLEAN
    BY <1>6, WatcherTypes DEF Crash, Launch
  <2>2. BoundsOK'
    BY <1>6, FixAttemptsAssumption DEF Crash, Launch, bounds, BoundsOK
  <2>3. UNCHANGED <<kind, code, open, life, attempts, cleared>>
    BY <1>6 DEF Crash, Launch
  <2> QED
    BY <2>1, <2>2, <2>3 DEF BoundsOK
<1>7. CASE Time
  <2>1. ASSUME NEW a \in Ids
        PROVE  [attempts[a] EXCEPT !.quiet = Older(@),
            !.waited = IF attempts[a].started THEN Older(@) ELSE @] \in Attempt
    <3>1. attempts[a] \in Attempt
      OBVIOUS
    <3>2. attempts[a].quiet \in 0 .. Old /\ attempts[a].waited \in 0 .. Old
      BY <3>1 DEF Attempt
    <3>3. Older(attempts[a].quiet) \in 0 .. Old /\ Older(attempts[a].waited) \in 0 .. Old
      BY <3>2, RowTypes
    <3> QED
      BY <3>1, <3>2, <3>3 DEF Attempt
  <2>2. attempts' \in [Ids -> Attempt]
    BY <1>7, <2>1 DEF Time
  <2> QED
    BY <1>7, <2>2 DEF Time, bounds
<1> QED
  BY <1>1, <1>2, <1>3, <1>4, <1>5, <1>6, <1>7

LEMMA WatcherType == ASSUME TypeOK, WatcherStep PROVE TypeOK'
<1> USE DEF TypeOK
<1>1. BoundsOK
  BY DEF BoundsOK
<1>2. Fault \/ NoFault => BoundsOK'
  BY <1>1, FaultTypes
<1>3. /\ watcher \in Watcher /\ watcher.a \in 0 .. MaxAttempts
      /\ watcher.scan \in World /\ watcher.todo \subseteq Ids
  BY DEF Watcher
<1>4. ASSUME NEW p \in WatcherPC
      PROVE  OnWith(p) \in Watcher /\ OnWith(p).todo \subseteq Ids
  BY WatcherTypes DEF Watcher
<1>5. CASE TickBegins
  <2>1. attempts' \in [Ids -> Attempt] /\ (Fault \/ NoFault)
    BY <1>5, WritesType DEF TickBegins
  <2>2. \E T \in SUBSET Ids : watcher' = [Asleep EXCEPT !.pc = "requested", !.todo = T]
    BY <1>5 DEF TickBegins, InStatus
  <2>3. PICK T \in SUBSET Ids : watcher' = [Asleep EXCEPT !.pc = "requested", !.todo = T]
    BY <2>2
  <2>4. Asleep \in Watcher /\ "requested" \in WatcherPC
    BY WatcherTypes DEF WatcherPC
  <2>5. watcher' \in Watcher
    BY ONLY <2>3, <2>4 DEF Watcher
  <2> QED
    BY <1>2, <1>5, <2>1, <2>5 DEF TickBegins, BoundsOK
<1>6. ASSUME NEW a \in Ids, Start(a) PROVE TypeOK'
  <2> DEFINE rest == [OnWith("requested") EXCEPT !.todo = @ \ {a}]
  <2>1. attempts' \in [Ids -> Attempt] /\ (Fault \/ NoFault)
    BY <1>6, WritesType DEF Start
  <2>2. rest \in Watcher
    <3>1. OnWith("requested") \in Watcher /\ OnWith("requested").todo \subseteq Ids
      BY <1>4, WatcherNames
    <3> QED
      BY <3>1, WatcherUpdates, Zenon
  <2> HIDE DEF rest
  <2>3. [rest EXCEPT !.pc = "started", !.a = a] \in Watcher
    <3>1. a \in 0 .. MaxAttempts
      BY WatcherTypes
    <3> QED
      BY ONLY <2>2, <3>1, WatcherUpdates, WatcherNames
  <2>4. watcher' \in Watcher
    BY <1>6, <2>2, <2>3, Zenon DEF Start, rest
  <2> QED
    BY <1>2, <1>6, <2>1, <2>4 DEF Start, BoundsOK
<1>7. CASE Trigger
  <2>1. OnWith(Next1) \in Watcher
    BY WatcherTypes
  <2>2. [watcher EXCEPT !.pc = "scanned", !.scan = code] \in Watcher
    <3>1. code \in World
      OBVIOUS
    <3> QED
      BY ONLY <1>3, <3>1, WatcherScans, WatcherNames, Zenon
  <2>3. watcher' \in Watcher
    BY <1>7, <2>1, <2>2 DEF Trigger
  <2> QED
    BY <1>7, <2>3 DEF Trigger, bounds
<1>8. CASE Write
  <2>1. watcher' \in Watcher
    BY <1>8, WatcherTypes, WatcherUpdates DEF Write
  <2> QED
    BY <1>3, <1>8, <2>1, ProjectTypes DEF Write, bounds
<1>9. CASE CheckFails
  <2>2. [watcher EXCEPT !.pc = "giveup", !.scan = Nothing] \in Watcher
    BY ONLY <1>3, WatcherScans, WatcherNames, Zenon
  <2>3. watcher' \in Watcher
    BY <1>4, <1>9, <2>2 DEF CheckFails, WatcherPC
  <2> QED
    BY <1>2, <1>9, <2>3 DEF CheckFails, BoundsOK
<1>10. ASSUME NEW status \in Settled
       PROVE  SetStatus(watcher.a, status) \in [Ids -> Attempt]
  <2>1. CASE watcher.a \in Ids
    BY <2>1, WritesType
  <2>2. CASE watcher.a \notin Ids
    <3>1. Closed(watcher.a, status) = attempts
      BY <2>2 DEF Closed
    <3> QED
      BY <3>1 DEF SetStatus
  <2> QED
    BY <2>1, <2>2
<1>11. CASE GiveUp \/ Fail
  <2>1. attempts' \in [Ids -> Attempt] /\ (Fault \/ NoFault)
    BY <1>10, <1>11 DEF GiveUp, Fail, Settled
  <2>2. watcher' \in Watcher
    BY <1>4, <1>11 DEF GiveUp, Fail, WatcherPC
  <2>3. UNCHANGED <<kind, code, open, life, other, up, ticked, cleared>>
    BY <1>11 DEF GiveUp, Fail
  <2> QED
    BY <1>2, <2>1, <2>2, <2>3 DEF BoundsOK
<1>12. CASE ListVerifying
  <2>1. InStatus(attempts, "verifying") \in SUBSET Ids
    BY DEF InStatus
  <2>2. watcher' \in Watcher
    <3>1. OnWith("verifying") \in Watcher
      BY <1>4, WatcherNames
    <3>2. /\ [OnWith("verifying") EXCEPT !.todo = InStatus(attempts, "verifying"),
                                         !.deduped = FALSE] \in Watcher
          /\ [OnWith("verifying") EXCEPT !.todo = {}, !.deduped = FALSE] \in Watcher
      BY ONLY <2>1, <3>1, WatcherLists, Zenon
    <3> QED
      BY <1>12, <3>2, Zenon DEF ListVerifying
  <2>3. Fault \/ NoFault
    BY <1>12 DEF ListVerifying
  <2> QED
    BY <1>2, <1>12, <2>2, <2>3 DEF ListVerifying, BoundsOK
<1>13. ASSUME NEW a \in Ids, Evaluate(a) PROVE TypeOK'
  <2> DEFINE turn == [watcher EXCEPT !.todo = @ \ {a}, !.a = a]
  <2>1. turn \in Watcher /\ (Fault \/ NoFault)
    BY <1>3, <1>13, WatcherTypes, WatcherUpdates DEF Evaluate
  <2>2. /\ [turn EXCEPT !.pc = "sources"] \in Watcher
        /\ [turn EXCEPT !.pc = "verified"] \in Watcher
        /\ [turn EXCEPT !.a = 0] \in Watcher
    <3>1. turn \in Watcher /\ 0 \in 0 .. MaxAttempts
      BY <2>1, WatcherTypes
    <3> HIDE DEF turn
    <3> QED
      BY ONLY <3>1, WatcherUpdates, WatcherNames
  <2>3. watcher' \in Watcher /\ (Fault \/ NoFault)
    BY <1>13, <2>2 DEF Evaluate
  <2> QED
    BY <1>2, <1>13, <2>3 DEF Evaluate, BoundsOK
<1>14. CASE DecideOutcome
  <2>1. Outcome(watcher.a) \in WatcherPC
    BY DEF Outcome, WatcherPC
  <2>2. OnWith("verifying") \in Watcher
    BY <1>4, WatcherNames
  <2>3. [watcher EXCEPT !.pc = Outcome(watcher.a)] \in Watcher
    BY <1>3, <2>1, WatcherUpdates
  <2>4. watcher' \in Watcher /\ (Fault \/ NoFault)
    BY <1>14, <2>2, <2>3 DEF DecideOutcome
  <2> QED
    BY <1>2, <1>14, <2>4 DEF DecideOutcome, BoundsOK
<1>15. CASE Verify
  <2>1. attempts' \in [Ids -> Attempt] /\ (Fault \/ NoFault)
    <3>1. SetStatus(watcher.a, "verified") \in [Ids -> Attempt]
      BY <1>10 DEF Settled
    <3> QED
      BY <1>15, <3>1, Zenon DEF Verify
  <2>2. watcher' \in Watcher
    <3>1. /\ [watcher EXCEPT !.pc = "mark"] \in Watcher
          /\ OnWith("verifying") \in Watcher
      BY ONLY <1>3, <1>4, WatcherMoves, WatcherNames, Zenon
    <3> QED
      BY <1>15, <3>1, Zenon DEF Verify
  <2> QED
    BY <1>2, <1>15, <2>1, <2>2 DEF Verify, BoundsOK
<1>16. CASE Mark
  <2>1. watcher' \in Watcher /\ life' \in Life /\ (Fault \/ NoFault)
    BY <1>4, <1>16 DEF Mark, WatcherPC, Life
  <2> QED
    BY <1>2, <1>16, <2>1 DEF Mark, BoundsOK
<1>17. CASE Touch
  <2>1. attempts' \in [Ids -> Attempt] /\ (Fault \/ NoFault)
    BY <1>3, <1>17, WritesType DEF Touch
  <2>2. watcher' \in Watcher
    <3>1. [watcher EXCEPT !.pc = "started", !.waits = TRUE] \in Watcher
      BY ONLY <1>3, WatcherWaits, WatcherNames, Zenon
    <3> QED
      BY ONLY <1>17, <3>1, Zenon DEF Touch
  <2> QED
    BY <1>2, <1>17, <2>1, <2>2 DEF Touch, BoundsOK
<1>18. CASE TickEnds
  BY <1>18, WatcherTypes DEF TickEnds, bounds
<1> QED
  BY <1>5, <1>6, <1>7, <1>8, <1>9, <1>11, <1>12, <1>13, <1>14, <1>15, <1>16, <1>17,
     <1>18 DEF WatcherStep

LEMMA InitType == Init => TypeOK
<1> SUFFICES ASSUME Init PROVE TypeOK
  OBVIOUS
<1>1. open \in World /\ code \in World /\ life \in Life
  BY DEF Init, Life
<1>2. watcher \in Watcher /\ other \in Other
  <2>1. Nothing \in World
    BY DEF Nothing, World, Places
  <2>2. 0 \in 0 .. MaxAttempts
    BY FixAttemptsAssumption
  <2> QED
    BY <2>1, <2>2 DEF Init, Asleep, NoOther, Watcher, Other, WatcherPC
<1>3. attempts \in [Ids -> Attempt]
  BY RowTypes DEF Init
<1>4. BoundsOK
  BY FixAttemptsAssumption DEF Init, BoundsOK
<1>5. kind \in Kinds /\ up \in BOOLEAN /\ ticked \in BOOLEAN /\ cleared \in BOOLEAN
  BY DEF Init
<1> QED
  BY <1>1, <1>2, <1>3, <1>4, <1>5 DEF TypeOK, BoundsOK

LEMMA TypeStep == ASSUME TypeOK, [Next]_vars PROVE TypeOK'
<1>1. CASE UNCHANGED vars
  BY <1>1 DEF vars, bounds, TypeOK
<1>2. CASE Next
  BY <1>2, UsersType, OthersType, WatcherType DEF Next
<1> QED
  BY <1>1, <1>2

\* The table, the watcher and the other scan hold what their columns, locals
\* and results can hold, and every bounded count stays within its bound.
THEOREM TypeCorrect == Spec => []TypeOK
BY InitType, TypeStep, PTL DEF Spec

-----------------------------------------------------------------------------
(* Targets.                                                                *)

Creates ==
    \/ \E a \in Ids : Create(a, Group, 0, Group)
    \/ \E a \in Ids, d \in Defects, l \in Lines : Create(a, "occurrence", l, d)

\* Whatever happens to a row that is in the table, it stays there, with its
\* target; no row that was settled is active again.
Kept ==
    \A a \in Ids :
        /\ attempts'[a].target = attempts[a].target
        /\ attempts'[a].line = attempts[a].line
        /\ IsActive(a)' => IsActive(a)
        /\ attempts[a].status # "absent" => attempts'[a].status # "absent"

LEMMA WritesKeep ==
  ASSUME TypeOK
  PROVE  /\ attempts' = attempts => Kept
         /\ \A a \in Ids, status \in Settled : attempts' = Closed(a, status) => Kept
         /\ \A a : \A status \in Settled : attempts' = SetStatus(a, status) => Kept
         /\ \A a \in Ids : IsActive(a) /\ attempts' = Verifying(a) => Kept
         /\ \A a : attempts' = Touched(a) => Kept
         /\ attempts' = Expired => Kept
<1>1. attempts \in [Ids -> Attempt]
  BY DEF TypeOK
<1>2. attempts' = attempts => Kept
  BY DEF Kept, IsActive
<1>3. ASSUME NEW a \in Ids, NEW status \in Settled
      PROVE  /\ Closed(a, status)[a].target = attempts[a].target
             /\ Closed(a, status)[a].line = attempts[a].line
             /\ Closed(a, status)[a].status = status
             /\ \A b \in Ids \ {a} : Closed(a, status)[b] = attempts[b]
  BY <1>1 DEF Closed, Attempt
<1>4. ASSUME NEW a \in Ids, NEW status \in Settled, attempts' = Closed(a, status)
      PROVE  Kept
  BY <1>3, <1>4, Words DEF Kept, IsActive
<1>5. ASSUME NEW a, NEW status \in Settled, attempts' = SetStatus(a, status)
      PROVE  Kept
  <2>1. CASE a \in Ids
    BY <1>2, <1>4, <1>5, <2>1 DEF SetStatus
  <2>2. CASE a \notin Ids
    BY <1>1, <1>2, <1>5, <2>2 DEF SetStatus, Closed
  <2> QED
    BY <2>1, <2>2
<1>6. ASSUME NEW a \in Ids, IsActive(a), attempts' = Verifying(a)
      PROVE  Kept
  <2>1. attempts' = [attempts EXCEPT ![a] =
          [attempts[a] EXCEPT !.status = "verifying", !.quiet = 0, !.started = TRUE,
             !.waited = IF attempts[a].started THEN attempts[a].waited ELSE 0]]
    BY <1>1, <1>6, VerifyingRows
  <2>2. /\ attempts'[a].target = attempts[a].target
        /\ attempts'[a].line = attempts[a].line
        /\ attempts'[a].status = "verifying"
        /\ \A b \in Ids \ {a} : attempts'[b] = attempts[b]
    BY <1>1, <2>1 DEF Attempt
  <2> QED
    BY <1>6, <2>2 DEF Kept, IsActive, Active
<1>7. ASSUME NEW a, attempts' = Touched(a)
      PROVE  Kept
  <2>1. attempts' = [attempts EXCEPT ![a] = [attempts[a] EXCEPT !.quiet = 0]]
    BY <1>1, <1>7, TouchedRows
  <2>2. \A b \in Ids : /\ attempts'[b].target = attempts[b].target
                       /\ attempts'[b].line = attempts[b].line
                       /\ attempts'[b].status = attempts[b].status
    BY <1>1, <2>1 DEF Attempt
  <2> QED
    BY <2>2 DEF Kept, IsActive
<1>8. ASSUME attempts' = Expired
      PROVE  Kept
  <2> SUFFICES ASSUME NEW a \in Ids
               PROVE  /\ attempts'[a].target = attempts[a].target
                      /\ attempts'[a].line = attempts[a].line
                      /\ attempts'[a].status = attempts[a].status
                           \/ attempts'[a].status = "expired"
    BY Words DEF Kept, IsActive, Active
  <2>1. attempts'[a] = attempts[a] \/ attempts'[a] = Closed(a, "expired")[a]
    BY <1>8 DEF Expired
  <2> QED
    BY <1>3, <2>1 DEF Settled
<1> QED
  BY <1>2, <1>4, <1>5, <1>6, <1>7, <1>8

LEMMA StepKeeps == ASSUME TypeOK, [Next]_vars, ~Creates PROVE Kept
<1>1. attempts \in [Ids -> Attempt]
  BY DEF TypeOK
<1>2. UNCHANGED attempts => Kept
  BY WritesKeep
<1>3. CASE UNCHANGED vars
  BY <1>2, <1>3 DEF vars
<1>4. ASSUME NEW a \in Ids, FetchBrief(a) \/ Request(a) PROVE Kept
  <2>1. \A b \in Ids \ {a} : attempts'[b] = attempts[b]
    BY <1>1, <1>4 DEF FetchBrief, Request
  <2>2. /\ attempts'[a].target = attempts[a].target
        /\ attempts'[a].line = attempts[a].line
    BY <1>1, <1>4 DEF FetchBrief, Request, Attempt
  <2>3. IsActive(a) /\ attempts'[a].status \in Active
    BY <1>1, <1>4 DEF FetchBrief, Request, Attempt, IsActive, Active
  <2> QED
    BY <2>1, <2>2, <2>3 DEF Kept, IsActive, Active
<1>5. ASSUME NEW a \in Ids, Cancel(a) PROVE Kept
  BY <1>5, WritesKeep DEF Cancel, Settled
<1>6. ASSUME NEW a \in Ids, Start(a) PROVE Kept
  BY <1>2, <1>6, WritesKeep DEF Start
<1>7. CASE TickBegins
  BY <1>2, <1>7, WritesKeep DEF TickBegins
<1>8. CASE GiveUp \/ Fail \/ Verify \/ Touch
  <2>1. \/ attempts' = attempts
        \/ attempts' = SetStatus(watcher.a, "verify_failed")
        \/ attempts' = SetStatus(watcher.a, "verified")
        \/ attempts' = Touched(watcher.a)
    BY <1>8 DEF GiveUp, Fail, Verify, Touch
  <2>2. "verified" \in Settled /\ "verify_failed" \in Settled
    BY DEF Settled
  <2> QED
    BY <1>2, <2>1, <2>2, WritesKeep
<1>9. CASE Time
  <2>1. \A a \in Ids : /\ attempts'[a].target = attempts[a].target
                       /\ attempts'[a].line = attempts[a].line
                       /\ attempts'[a].status = attempts[a].status
    BY <1>1, <1>9 DEF Time, Attempt
  <2> QED
    BY <2>1 DEF Kept, IsActive
<1>10. ASSUME NEW a \in Ids, Evaluate(a) PROVE UNCHANGED attempts
  BY <1>10 DEF Evaluate
<1>11. CASE \/ ListVerifying \/ TickEnds \/ Trigger \/ Write \/ CheckFails
            \/ DecideOutcome \/ Mark
  BY <1>2, <1>11
     DEF ListVerifying, TickEnds, Trigger, Write, CheckFails, DecideOutcome, Mark
<1>12. CASE \/ \E d \in Defects, place \in Places : Edit(d, place)
            \/ \E decision \in UserDecides : Decide(decision)
            \/ \E by \in {"user", "background"} : OtherObserves(by)
            \/ OtherWrites \/ OtherFails \/ UserChecks \/ UserMarks
            \/ Crash \/ Launch
  BY <1>2, <1>12 DEF Edit, Decide, OtherObserves, OtherWrites, OtherFails, UserChecks,
                     UserMarks, Crash, Launch
<1> QED
  BY <1>2, <1>3, <1>4, <1>5, <1>6, <1>7, <1>8, <1>9, <1>10, <1>11, <1>12
     DEF Next, WatcherStep, Creates

\* The new row takes the place of those at its target.
LEMMA CreateReplaces ==
  ASSUME TypeOK, NEW a \in Ids, NEW target, NEW line, NEW aim,
         Create(a, target, line, aim)
  PROVE  /\ attempts[a].status = "absent" /\ attempts'[a].status # "absent"
         /\ attempts'[a].target = target /\ attempts'[a].line = line
         /\ \A b \in Ids \ {a} :
              /\ attempts'[b].target = attempts[b].target
              /\ attempts'[b].line = attempts[b].line
              /\ attempts'[b].status = attempts[b].status
                   \/ attempts'[b].status = "canceled"
              /\ IsActive(b) /\ attempts[b].target = target /\ attempts[b].line = line
                   => attempts'[b].status = "canceled"
<1>1. PICK status \in {"briefed", "canceled"} :
         attempts' = Inserted(a, target, line, aim, status)
  BY DEF Create
<1>2. \A b \in Ids : /\ Closed(b, "canceled")[b].target = attempts[b].target
                     /\ Closed(b, "canceled")[b].line = attempts[b].line
                     /\ Closed(b, "canceled")[b].status = "canceled"
  BY DEF TypeOK, Closed, Attempt
<1>3. /\ attempts'[a].status = status /\ attempts'[a].target = target
      /\ attempts'[a].line = line
  BY <1>1 DEF Inserted, NoAttempt
<1>4. \A b \in Ids \ {a} :
        attempts'[b] = IF IsActive(b) /\ attempts[b].target = target
                                      /\ attempts[b].line = line
                       THEN Closed(b, "canceled")[b] ELSE attempts[b]
  BY <1>1 DEF Inserted
<1> QED
  BY <1>2, <1>3, <1>4 DEF Create

LEMMA OneActiveStep ==
  ASSUME TypeOK, OneActivePerTarget, [Next]_vars PROVE OneActivePerTarget'
<1>1. CASE ~Creates
  BY <1>1, StepKeeps DEF Kept, OneActivePerTarget
<1>2. ASSUME NEW a \in Ids, NEW target, NEW line, NEW aim, Create(a, target, line, aim)
      PROVE  OneActivePerTarget'
  <2>1. \A b \in Ids \ {a} : IsActive(b)' =>
          /\ IsActive(b)
          /\ ~(attempts'[b].target = attempts'[a].target
                 /\ attempts'[b].line = attempts'[a].line)
    BY <1>2, CreateReplaces DEF IsActive, Active
  <2>2. \A b \in Ids \ {a} : /\ attempts'[b].target = attempts[b].target
                             /\ attempts'[b].line = attempts[b].line
    BY <1>2, CreateReplaces
  <2> QED
    BY <2>1, <2>2 DEF OneActivePerTarget
<1> QED
  BY <1>1, <1>2 DEF Creates

\* However often the user asks for a brief, and whatever the watcher and the
\* agents do with the rows, there is one active attempt per target.
THEOREM TargetsAreShared == Spec => []OneActivePerTarget
<1>1. Init => OneActivePerTarget
  BY DEF Init, OneActivePerTarget, IsActive, Active, NoAttempt
<1>2. TypeOK /\ OneActivePerTarget /\ [Next]_vars => OneActivePerTarget'
  BY OneActiveStep
<1> QED
  BY <1>1, <1>2, TypeCorrect, PTL DEF Spec

-----------------------------------------------------------------------------
(* Absence.                                                                *)

\* What says of the group that it is gone, or will, was seen to be.  The list
\* in hand is one of rows, so the target of the attempt in hand, by which the
\* group is marked, is the one it was evaluated for.
Gone ==
    /\ life \in {"verified", "regressed"} => cleared
    /\ Found(open) = {} => cleared
    /\ other.pc = "clear" => cleared
    /\ At("mark") => cleared
    /\ \A a \in watcher.todo : attempts[a].status # "absent"
    /\ At("verified") =>
         /\ watcher.a \in Ids /\ attempts[watcher.a].status # "absent"
         /\ attempts[watcher.a].target = Group => cleared

GroupGone ==
    /\ life \in {"verified", "regressed"} => cleared
    /\ Found(open) = {} => cleared

RowsGone ==
    /\ At("mark") => cleared
    /\ \A a \in watcher.todo : attempts[a].status # "absent"
    /\ At("verified") =>
         /\ watcher.a \in Ids /\ attempts[watcher.a].status # "absent"
         /\ attempts[watcher.a].target = Group => cleared

\* A row that is in the table keeps its target, also when one is created.
LEMMA RowsStay ==
  ASSUME TypeOK, [Next]_vars, NEW a \in Ids, attempts[a].status # "absent"
  PROVE  /\ attempts'[a].status # "absent"
         /\ attempts'[a].target = attempts[a].target
<1>1. CASE ~Creates
  BY <1>1, StepKeeps DEF Kept
<1>2. ASSUME NEW b \in Ids, NEW target, NEW line, NEW aim, Create(b, target, line, aim)
      PROVE  /\ attempts'[a].status # "absent"
             /\ attempts'[a].target = attempts[a].target
  BY <1>2, CreateReplaces
<1> QED
  BY <1>1, <1>2 DEF Creates

\* What a scan saw is written: nothing, or something that comes back.
LEMMA ProjectGone ==
  ASSUME GroupGone, NEW seen \in World, Project(seen)
  PROVE  GroupGone' /\ (cleared => cleared')
<1>1. cleared => cleared'
  BY DEF Project
<1>2. Found(open)' = {} => cleared'
  BY DEF Project, Found
<1>3. life' \in {"verified", "regressed"} => life \in {"verified", "regressed"}
  BY DEF Project, Reobserved, ProvesAbsence
<1> QED
  BY <1>1, <1>2, <1>3 DEF GroupGone

LEMMA GroupGoneStep ==
  ASSUME TypeOK, Gone, [Next]_vars
  PROVE  GroupGone' /\ (cleared => cleared')
<1>1. GroupGone
  BY DEF Gone, GroupGone
<1>2. ASSUME UNCHANGED <<open, life, cleared>> PROVE GroupGone' /\ (cleared => cleared')
  BY <1>1, <1>2 DEF GroupGone, Found
<1>3. CASE OtherWrites \/ Write
  <2>1. other.scan \in World /\ watcher.scan \in World
    BY DEF TypeOK, Other, Watcher
  <2>2. Project(other.scan) \/ Project(watcher.scan)
    BY <1>3 DEF OtherWrites, Write
  <2> QED
    BY <1>1, <2>1, <2>2, ProjectGone
<1>4. CASE UserMarks \/ Mark
  <2>1. cleared /\ UNCHANGED <<open, cleared>>
    BY <1>4 DEF UserMarks, Mark, Gone
  <2> QED
    BY <2>1 DEF GroupGone, Found
<1>5. ASSUME NEW decision \in UserDecides, Decide(decision)
      PROVE  GroupGone' /\ (cleared => cleared')
  <2>1. life' \notin {"verified", "regressed"}
    BY <1>5, FixAttemptsAssumption DEF Decide, Decisions
  <2> QED
    BY <1>1, <1>5, <2>1 DEF Decide, GroupGone, Found
<1>6. CASE UNCHANGED vars
  BY <1>2, <1>6, Zenon DEF vars
<1>7. ASSUME \/ \E a \in Ids : FetchBrief(a) \/ Request(a) \/ Cancel(a)
             \/ Creates
             \/ \E d \in Defects, place \in Places : Edit(d, place)
             \/ \E by \in {"user", "background"} : OtherObserves(by)
             \/ OtherFails \/ UserChecks \/ Crash \/ Launch \/ Time
      PROVE  UNCHANGED <<open, life, cleared>>
  <2>1. ASSUME \/ \E a \in Ids : FetchBrief(a) \/ Request(a) \/ Cancel(a)
               \/ \E d \in Defects, place \in Places : Edit(d, place)
               \/ \E by \in {"user", "background"} : OtherObserves(by)
        PROVE  UNCHANGED <<open, life, cleared>>
    BY ONLY <2>1, Zenon DEF FetchBrief, Request, Cancel, Edit, OtherObserves
  <2>2. ASSUME Creates PROVE UNCHANGED <<open, life, cleared>>
    BY ONLY <2>2, Zenon DEF Creates, Create
  <2>3. ASSUME OtherFails \/ UserChecks \/ Crash \/ Launch \/ Time
        PROVE  UNCHANGED <<open, life, cleared>>
    BY ONLY <2>3, Zenon DEF OtherFails, UserChecks, Crash, Launch, Time
  <2> QED
    BY <1>7, <2>1, <2>2, <2>3, Zenon
<1>8. ASSUME \/ TickBegins \/ ListVerifying \/ TickEnds \/ Trigger \/ CheckFails
             \/ GiveUp \/ DecideOutcome \/ Verify \/ Fail \/ Touch
             \/ \E a \in Ids : Start(a) \/ Evaluate(a)
      PROVE  UNCHANGED <<open, life, cleared>>
  BY ONLY <1>8, Zenon
  DEF TickBegins, ListVerifying, TickEnds, Trigger, CheckFails, GiveUp,
      DecideOutcome, Verify, Fail, Touch, Start, Evaluate
<1> QED
  BY <1>2, <1>3, <1>4, <1>5, <1>6, <1>7, <1>8 DEF Next, WatcherStep, Creates

\* The list and the attempt in hand.
LEMMA RowsGoneStep ==
  ASSUME TypeOK, Gone, [Next]_vars, cleared => cleared'
  PROVE  RowsGone'
<1>1. /\ watcher \in Watcher /\ watcher.todo \subseteq Ids
      /\ attempts \in [Ids -> Attempt] /\ attempts' \in [Ids -> Attempt]
  BY TypeStep DEF TypeOK, Watcher
<1>2. \A a \in watcher.todo : a \in Ids /\ attempts'[a].status # "absent"
  BY <1>1, RowsStay DEF Gone
\* A turn that ends leaves no attempt in hand.
<1>3. ASSUME NEW pc, watcher'.todo \subseteq watcher.todo, watcher'.pc = pc,
             pc \notin {"verified", "mark"}
      PROVE  RowsGone'
  BY <1>2, <1>3 DEF RowsGone, At
<1>4. CASE UNCHANGED watcher
  <2>1. At("verified") => /\ attempts'[watcher.a].status # "absent"
                          /\ attempts'[watcher.a].target = attempts[watcher.a].target
    BY RowsStay DEF Gone
  <2> QED
    BY <1>2, <1>4, <2>1 DEF Gone, RowsGone, At
<1>5. ASSUME NEW p \in WatcherPC
      PROVE  OnWith(p).pc = p /\ OnWith(p).todo = watcher.todo
  BY <1>1 DEF OnWith, Watcher
<1>6. CASE TickBegins
  <2>1. watcher'.pc = "requested"
    BY <1>6 DEF TickBegins, Asleep
  <2>2. watcher'.todo \subseteq InStatus(attempts', "verify_requested")
    BY <1>6 DEF TickBegins, Asleep
  <2> QED
    BY <2>1, <2>2 DEF InStatus, RowsGone, At
<1>7. CASE ListVerifying
  <2>1. watcher'.pc = "verifying"
    BY <1>1, <1>7 DEF ListVerifying, OnWith, Watcher
  <2>2. watcher'.todo \subseteq InStatus(attempts, "verifying") /\ UNCHANGED attempts
    BY <1>1, <1>7 DEF ListVerifying, OnWith, Watcher
  <2> QED
    BY <2>1, <2>2 DEF InStatus, RowsGone, At
<1>8. ASSUME NEW a \in Ids, Start(a) PROVE RowsGone'
  <2> DEFINE rest == [OnWith("requested") EXCEPT !.todo = @ \ {a}]
  <2>1. /\ rest.todo \subseteq watcher.todo /\ rest.pc = "requested"
        /\ [rest EXCEPT !.pc = "started", !.a = a].todo = rest.todo
        /\ [rest EXCEPT !.pc = "started", !.a = a].pc = "started"
    BY <1>1 DEF OnWith, Watcher
  <2>2. watcher' = rest \/ watcher' = [rest EXCEPT !.pc = "started", !.a = a]
    BY <1>8 DEF Start
  <2>3. watcher'.todo \subseteq watcher.todo /\ watcher'.pc \in {"requested", "started"}
    BY <2>1, <2>2
  <2> QED
    BY <1>3, <2>3
<1>9. ASSUME NEW a \in Ids, Evaluate(a) PROVE RowsGone'
  <2>1. a \in watcher.todo /\ watcher'.todo \subseteq watcher.todo
    BY <1>1, <1>9 DEF Evaluate, First, Watcher
  <2>2. CASE watcher'.pc # "verified"
    <3>1. watcher'.pc \in {"sources", "verifying"}
      BY <1>1, <1>9, <2>2 DEF Evaluate, At, Watcher
    <3> QED
      BY <1>3, <2>1, <3>1
  <2>3. CASE watcher'.pc = "verified"
    <3>1. watcher'.a = a /\ ~TargetActive(a)
      BY <1>1, <1>9, <2>3 DEF Evaluate, At, Watcher
    <3>2. attempts[a].target = Group => cleared
      BY <3>1 DEF TargetActive, Gone
    <3>3. /\ attempts'[a].status # "absent"
          /\ attempts'[a].target = Group => cleared'
      BY <1>9, <2>1, <3>2 DEF Evaluate, Gone
    <3> QED
      BY <1>2, <2>1, <2>3, <3>1, <3>3 DEF RowsGone, At
  <2> QED
    BY <2>2, <2>3
<1>10. CASE Verify
  <2>1. watcher'.todo = watcher.todo /\ watcher'.pc \in {"mark", "verifying"}
    BY <1>1, <1>10 DEF Verify, OnWith, Watcher
  <2>2. watcher'.pc = "mark" => cleared
    BY <1>1, <1>10 DEF Verify, OnWith, Watcher, MarksGroup, Gone
  <2> QED
    BY <1>2, <2>1, <2>2 DEF RowsGone, At
<1>11. CASE DecideOutcome
  <2>1. Outcome(watcher.a) \in {"failed", "touch", "verifying"}
    BY DEF Outcome
  <2>2. watcher'.todo = watcher.todo /\ watcher'.pc \in {"failed", "touch", "verifying"}
    BY <1>1, <1>11, <2>1 DEF DecideOutcome, OnWith, Watcher
  <2> QED
    BY <1>3, <2>2
<1>12. CASE Trigger \/ Write
  <2>1. Next1 \in {"verifying", "requested"}
    BY DEF Next1
  <2>2. watcher'.todo = watcher.todo /\ watcher'.pc \in {"scanned", "verifying", "requested"}
    BY <1>1, <1>12, <2>1 DEF Trigger, Write, OnWith, Watcher
  <2> QED
    BY <1>3, <2>2
<1>13. CASE CheckFails \/ GiveUp \/ Mark \/ Fail \/ Touch
  <2>1. /\ watcher'.todo = watcher.todo
        /\ watcher'.pc \in {"verifying", "giveup", "requested", "started"}
    BY <1>1, <1>13 DEF CheckFails, GiveUp, Mark, Fail, Touch, OnWith, Watcher
  <2> QED
    BY <1>3, <2>1
<1>14. CASE TickEnds \/ Crash
  BY <1>3, <1>14 DEF TickEnds, Crash, Asleep
<1>15. CASE \/ UNCHANGED vars
            \/ \E a \in Ids : FetchBrief(a) \/ Request(a) \/ Cancel(a)
            \/ Creates
            \/ \E d \in Defects, place \in Places : Edit(d, place)
            \/ \E decision \in UserDecides : Decide(decision)
            \/ \E by \in {"user", "background"} : OtherObserves(by)
            \/ OtherWrites \/ OtherFails \/ UserChecks \/ UserMarks \/ Launch \/ Time
  <2>1. UNCHANGED watcher
    BY <1>15 DEF vars, FetchBrief, Request, Cancel, Creates, Create, Edit, Decide,
       OtherObserves, OtherWrites, OtherFails, UserChecks, UserMarks, Launch, Time
  <2> QED
    BY <1>4, <2>1, Zenon
<1> QED
  BY <1>6, <1>7, <1>8, <1>9, <1>10, <1>11, <1>12, <1>13, <1>14, <1>15
     DEF Next, WatcherStep, Creates

LEMMA GoneStep == ASSUME TypeOK, Gone, [Next]_vars PROVE Gone'
<1>1. GroupGone' /\ (cleared => cleared')
  BY GroupGoneStep
<1>2. RowsGone'
  BY <1>1, RowsGoneStep
<1>3. other'.pc = "clear" => cleared'
  <2>1. CASE UNCHANGED other
    BY <1>1, <2>1 DEF Gone
  <2>2. CASE UserChecks
    <3>1. /\ Found(open) # {} => other' = NoOther
          /\ UNCHANGED cleared
      BY <2>2 DEF UserChecks
    <3>2. CASE Found(open) = {}
      BY <3>1, <3>2 DEF Gone
    <3>3. CASE Found(open) # {}
      BY <3>1, <3>3 DEF NoOther
    <3> QED
      BY <3>2, <3>3
  <2>3. CASE OtherWrites \/ OtherFails \/ UserMarks \/ Crash
    <3>1. /\ NoOther.pc = "none"
          /\ [NoOther EXCEPT !.by = "user", !.pc = "written"].pc = "written"
      BY DEF NoOther
    <3>2. \/ other' = NoOther
          \/ other' = [NoOther EXCEPT !.by = "user", !.pc = "written"]
      BY <2>3 DEF OtherWrites, OtherFails, UserMarks, Crash
    <3> QED
      BY <3>1, <3>2
  <2>4. ASSUME NEW by, OtherObserves(by) PROVE other'.pc # "clear"
    BY <2>4 DEF OtherObserves
  <2>5. CASE \/ UNCHANGED vars
             \/ \E a \in Ids : FetchBrief(a) \/ Request(a) \/ Cancel(a)
             \/ Creates
             \/ \E d \in Defects, place \in Places : Edit(d, place)
             \/ \E decision \in UserDecides : Decide(decision)
             \/ Launch \/ Time
    <3>1. ASSUME \/ UNCHANGED vars \/ Creates
                 \/ \E decision \in UserDecides : Decide(decision)
          PROVE  UNCHANGED other
      BY ONLY <3>1, Zenon DEF vars, Creates, Create, Decide
    <3>2. ASSUME \/ \E a \in Ids : FetchBrief(a) \/ Request(a) \/ Cancel(a)
                 \/ \E d \in Defects, place \in Places : Edit(d, place)
                 \/ Launch \/ Time
          PROVE  UNCHANGED other
      BY ONLY <3>2, Zenon DEF FetchBrief, Request, Cancel, Edit, Launch, Time
    <3>3. UNCHANGED other
      BY <2>5, <3>1, <3>2, Zenon
    <3> QED
      BY <2>1, <3>3, Zenon
  <2>6. CASE WatcherStep
    <3>1. UNCHANGED other
      BY ONLY <2>6, Zenon
      DEF WatcherStep, TickBegins, ListVerifying, TickEnds, Trigger, Write, CheckFails,
          GiveUp, DecideOutcome, Verify, Mark, Fail, Touch, Start, Evaluate
    <3> QED
      BY <2>1, <3>1, Zenon
  <2> QED
    BY <2>2, <2>3, <2>4, <2>5, <2>6 DEF Next, Creates
<1> QED
  BY <1>1, <1>2, <1>3 DEF Gone, GroupGone, RowsGone

\* No claim of a user or an agent, no failed operation and no order of scans,
\* verifications and marks makes a regression of what no scan saw gone.
THEOREM RegressionsWereGone == Spec => []RegressedWasGone
<1>1. Init => Gone
  BY DEF Init, Gone, Asleep, NoOther, At
<1>2. TypeOK /\ Gone /\ [Next]_vars => Gone'
  BY GoneStep
<1>3. Gone => RegressedWasGone
  BY DEF Gone, RegressedWasGone
<1> QED
  BY <1>1, <1>2, <1>3, TypeCorrect, PTL DEF Spec

-----------------------------------------------------------------------------
(* The status of an attempt.                                               *)

\* The steps that a status can take.
Onward(old, new) ==
    \/ new = old
    \/ old = "absent" /\ new \in {"briefed", "canceled"}
    \/ old = "briefed" /\ new = "verify_requested"
    \/ old \in {"briefed", "verify_requested"} /\ new = "verifying"
    \/ old \in Active /\ new \in Settled

AllOnward == \A a \in Ids : Onward(attempts[a].status, attempts'[a].status)

\* What every statement does that writes an attempt of the table.
LEMMA WritesOnward ==
  ASSUME TypeOK
  PROVE  /\ attempts' = attempts => AllOnward
         /\ \A a \in Ids, status \in Settled :
              IsActive(a) /\ attempts' = Closed(a, status) => AllOnward
         /\ \A a : \A status \in Settled : attempts' = SetStatus(a, status) => AllOnward
         /\ \A a \in Ids : IsActive(a) /\ attempts' = Verifying(a) => AllOnward
         /\ \A a : attempts' = Touched(a) => AllOnward
         /\ attempts' = Expired => AllOnward
<1>1. attempts \in [Ids -> Attempt]
  BY DEF TypeOK
<1>2. attempts' = attempts => AllOnward
  BY DEF AllOnward, Onward
<1>3. ASSUME NEW a \in Ids, NEW status \in Settled
      PROVE  /\ Closed(a, status)[a].status = status
             /\ \A b \in Ids \ {a} : Closed(a, status)[b] = attempts[b]
  BY <1>1 DEF Closed, Attempt
<1>4. ASSUME NEW a \in Ids, NEW status \in Settled, IsActive(a),
             attempts' = Closed(a, status)
      PROVE  AllOnward
  BY <1>3, <1>4 DEF AllOnward, Onward, IsActive
<1>5. ASSUME NEW a, NEW status \in Settled, attempts' = SetStatus(a, status)
      PROVE  AllOnward
  <2>1. CASE a \in Ids
    BY <1>2, <1>4, <1>5, <2>1 DEF SetStatus
  <2>2. CASE a \notin Ids
    BY <1>1, <1>2, <1>5, <2>2 DEF SetStatus, Closed
  <2> QED
    BY <2>1, <2>2
<1>6. ASSUME NEW a \in Ids, IsActive(a), attempts' = Verifying(a)
      PROVE  AllOnward
  <2>1. attempts' = [attempts EXCEPT ![a] =
          [attempts[a] EXCEPT !.status = "verifying", !.quiet = 0, !.started = TRUE,
             !.waited = IF attempts[a].started THEN attempts[a].waited ELSE 0]]
    BY <1>1, <1>6, VerifyingRows
  <2>2. /\ attempts'[a].status = "verifying"
        /\ \A b \in Ids \ {a} : attempts'[b] = attempts[b]
    BY <1>1, <2>1 DEF Attempt
  <2>3. attempts[a].status \in {"briefed", "verify_requested", "verifying"}
    BY <1>6 DEF IsActive, Active
  <2> QED
    BY <2>2, <2>3 DEF AllOnward, Onward
<1>7. ASSUME NEW a, attempts' = Touched(a)
      PROVE  AllOnward
  <2>1. attempts' = [attempts EXCEPT ![a] = [attempts[a] EXCEPT !.quiet = 0]]
    BY <1>1, <1>7, TouchedRows
  <2>2. \A b \in Ids : attempts'[b].status = attempts[b].status
    BY <1>1, <2>1 DEF Attempt
  <2> QED
    BY <2>2 DEF AllOnward, Onward
<1>8. ASSUME attempts' = Expired, NEW a \in Ids
      PROVE  Onward(attempts[a].status, attempts'[a].status)
  <2>1. attempts'[a] = IF Stale(a) THEN Closed(a, "expired")[a] ELSE attempts[a]
    BY <1>8 DEF Expired
  <2>2. Stale(a) => attempts[a].status \in Active
    BY DEF Stale, IsActive
  <2> QED
    BY <1>3, <2>1, <2>2 DEF Onward, Settled
<1> QED
  BY <1>2, <1>4, <1>5, <1>6, <1>7, <1>8 DEF AllOnward

LEMMA CreateOnward ==
  ASSUME TypeOK, NEW a \in Ids, NEW target, NEW line, NEW aim,
         Create(a, target, line, aim)
  PROVE  AllOnward
<1>1. PICK status \in {"briefed", "canceled"} :
         attempts' = Inserted(a, target, line, aim, status)
  BY DEF Create
<1>2. \A b \in Ids : Closed(b, "canceled")[b].status = "canceled"
  BY DEF TypeOK, Closed, Attempt
<1>3. attempts[a].status = "absent" /\ attempts'[a].status = status
  BY <1>1 DEF Create, Inserted, NoAttempt
<1>4. \A b \in Ids \ {a} :
        attempts'[b] = IF IsActive(b) /\ attempts[b].target = target
                                      /\ attempts[b].line = line
                       THEN Closed(b, "canceled")[b] ELSE attempts[b]
  BY <1>1 DEF Inserted
<1>5. ASSUME NEW b \in Ids \ {a}
      PROVE  Onward(attempts[b].status, attempts'[b].status)
  BY <1>2, <1>4 DEF Onward, IsActive, Settled
<1> QED
  BY <1>3, <1>5 DEF AllOnward, Onward

LEMMA StepOnward == ASSUME TypeOK, [Next]_vars PROVE AllOnward
<1>1. attempts \in [Ids -> Attempt]
  BY DEF TypeOK
<1>2. UNCHANGED attempts => AllOnward
  BY WritesOnward
<1>3. CASE UNCHANGED vars
  BY <1>2, <1>3 DEF vars
<1>4. ASSUME NEW a \in Ids, FetchBrief(a) \/ Request(a) PROVE AllOnward
  <2>1. \A b \in Ids \ {a} : attempts'[b] = attempts[b]
    BY <1>1, <1>4 DEF FetchBrief, Request
  <2>2. \/ attempts'[a].status = attempts[a].status
        \/ /\ attempts[a].status \in {"briefed", "verify_requested"}
           /\ attempts'[a].status = "verify_requested"
    BY <1>1, <1>4 DEF FetchBrief, Request, Attempt
  <2> QED
    BY <2>1, <2>2 DEF AllOnward, Onward
<1>5. ASSUME NEW a \in Ids, Cancel(a) PROVE AllOnward
  BY <1>5, WritesOnward DEF Cancel, Settled
<1>6. ASSUME NEW a \in Ids, Start(a) PROVE AllOnward
  BY <1>2, <1>6, WritesOnward DEF Start
<1>7. CASE TickBegins
  BY <1>2, <1>7, WritesOnward DEF TickBegins
<1>8. CASE GiveUp \/ Fail \/ Verify \/ Touch
  <2>1. \/ attempts' = attempts
        \/ attempts' = SetStatus(watcher.a, "verify_failed")
        \/ attempts' = SetStatus(watcher.a, "verified")
        \/ attempts' = Touched(watcher.a)
    BY <1>8 DEF GiveUp, Fail, Verify, Touch
  <2>2. "verified" \in Settled /\ "verify_failed" \in Settled
    BY DEF Settled
  <2> QED
    BY <1>2, <2>1, <2>2, WritesOnward
<1>9. CASE Time
  <2>1. \A a \in Ids : attempts'[a].status = attempts[a].status
    BY <1>1, <1>9 DEF Time, Attempt
  <2> QED
    BY <2>1 DEF AllOnward, Onward
<1>10. ASSUME NEW a \in Ids, Evaluate(a) PROVE UNCHANGED attempts
  BY <1>10 DEF Evaluate
<1>11. CASE \/ ListVerifying \/ TickEnds \/ Trigger \/ Write \/ CheckFails
            \/ DecideOutcome \/ Mark
  BY <1>2, <1>11
     DEF ListVerifying, TickEnds, Trigger, Write, CheckFails, DecideOutcome, Mark
<1>12. CASE \/ \E d \in Defects, place \in Places : Edit(d, place)
            \/ \E decision \in UserDecides : Decide(decision)
            \/ \E by \in {"user", "background"} : OtherObserves(by)
            \/ OtherWrites \/ OtherFails \/ UserChecks \/ UserMarks
            \/ Crash \/ Launch
  BY <1>2, <1>12 DEF Edit, Decide, OtherObserves, OtherWrites, OtherFails, UserChecks,
                     UserMarks, Crash, Launch
<1>13. CASE Creates
  BY <1>13, CreateOnward DEF Creates
<1> QED
  BY <1>2, <1>3, <1>4, <1>5, <1>6, <1>7, <1>8, <1>9, <1>10, <1>11, <1>12, <1>13
     DEF Next, WatcherStep, Creates

\* An attempt only goes onward (what AttemptSettles rests on besides fairness):
\* from briefed over requested to verifying and, from any of them, to the one
\* status it is settled with, which neither a late verification nor an agent's
\* request, a second brief, the sweep or a crash takes back or replaces.
THEOREM AttemptsGoOnward ==
  Spec => [][\A a \in Ids : Onward(attempts[a].status, attempts'[a].status)]_vars
<1>1. TypeOK /\ [Next]_vars => [AllOnward]_vars
  BY StepOnward
<1>2. Spec => [][AllOnward]_vars
  BY <1>1, TypeCorrect, PTL DEF Spec
<1> QED
  BY <1>2 DEF AllOnward

-----------------------------------------------------------------------------
(* The wait.                                                               *)

\* While a tick works off what was requested, and after it has listed what is
\* being verified; the attempt in hand while its outcome is still open.
Requests == \/ At("requested") \/ At("giveup")
            \/ (At("started") \/ At("scanned")) /\ ~watcher.waits
Verifies == ~At("asleep") /\ ~Requests
InHand(a) == watcher.a = a /\ watcher.pc \in {"sources", "verified", "failed", "touch"}

Calm == faults = 0 /\ crashes = 0

RowStarted(a) == IsActive(a) => (attempts[a].started <=> attempts[a].status = "verifying")
RowAge(a) == attempts[a].status = "verifying" =>
               attempts[a].quiet <= attempts[a].waited /\ attempts[a].quiet <= Expiry
RowYoung(a) == attempts[a].status = "verifying" => attempts[a].quiet < Expiry
Owed(a) == Verifies /\ (a \in watcher.todo \/ InHand(a))

\* As long as nothing failed: time passes only once a tick has gone through
\* the list, and what it has gone through was written a moment ago or is not
\* near its expiry.  So no row is swept that the tick has not looked at.
Waits ==
    /\ \A a \in Ids : RowStarted(a)
    /\ Calm =>
         /\ up
         /\ \A a \in Ids : RowAge(a)
         /\ \A a \in Ids : (At("asleep") /\ ticked) \/ Verifies => RowYoung(a) \/ Owed(a)

\* What a step that is not the clock's makes of a row.
RowStep(a) ==
    \/ attempts'[a] = attempts[a]
    \/ attempts'[a].status \in Settled \ {"expired"}
    \/ Stale(a) /\ TickBegins /\ attempts'[a].status = "expired"
    \/ /\ attempts'[a].status = attempts[a].status
       /\ attempts'[a].started = attempts[a].started /\ attempts'[a].quiet = 0
    \/ /\ attempts[a].status \in {"briefed", "verify_requested"}
       /\ attempts'[a].status = "verify_requested"
       /\ attempts'[a].started = attempts[a].started
    \/ attempts'[a].status = "verifying" /\ attempts'[a].started /\ attempts'[a].quiet = 0
    \/ attempts'[a].status = "briefed" /\ ~attempts'[a].started

LEMMA WritesRows ==
  ASSUME TypeOK, NEW b \in Ids
  PROVE  /\ attempts' = attempts => RowStep(b)
         /\ \A a : \A status \in Settled \ {"expired"} :
              attempts' = Closed(a, status) \/ attempts' = SetStatus(a, status)
              => RowStep(b)
         /\ \A a \in Ids : attempts' = Verifying(a) => RowStep(b)
         /\ \A a : attempts' = Touched(a) => RowStep(b)
         /\ TickBegins => RowStep(b)
<1>1. attempts \in [Ids -> Attempt]
  BY DEF TypeOK
<1>2. attempts' = attempts => RowStep(b)
  BY DEF RowStep
<1>3. ASSUME NEW a, NEW status \in Settled \ {"expired"}, attempts' = Closed(a, status)
      PROVE  RowStep(b)
  <2>1. attempts'[b] = attempts[b] \/ attempts'[b].status = status
    BY <1>1, <1>3 DEF Closed, Attempt
  <2> QED
    BY <2>1 DEF RowStep
<1>4. ASSUME NEW a, NEW status \in Settled \ {"expired"}, attempts' = SetStatus(a, status)
      PROVE  RowStep(b)
  BY <1>2, <1>3, <1>4 DEF SetStatus
<1>5. ASSUME NEW a \in Ids, attempts' = Verifying(a)
      PROVE  RowStep(b)
  <2>1. attempts' = [attempts EXCEPT ![a] =
          [attempts[a] EXCEPT !.status = "verifying", !.quiet = 0, !.started = TRUE,
             !.waited = IF attempts[a].started THEN attempts[a].waited ELSE 0]]
    BY <1>1, <1>5, VerifyingRows
  <2>2. \/ attempts'[b] = attempts[b]
        \/ attempts'[b].status = "verifying" /\ attempts'[b].started /\ attempts'[b].quiet = 0
    BY <1>1, <2>1 DEF Attempt
  <2> QED
    BY <2>2 DEF RowStep
<1>6. ASSUME NEW a, attempts' = Touched(a)
      PROVE  RowStep(b)
  <2>1. attempts' = [attempts EXCEPT ![a] = [attempts[a] EXCEPT !.quiet = 0]]
    BY <1>1, <1>6, TouchedRows
  <2>2. \/ attempts'[b] = attempts[b]
        \/ /\ attempts'[b].status = attempts[b].status
           /\ attempts'[b].started = attempts[b].started /\ attempts'[b].quiet = 0
    BY <1>1, <2>1 DEF Attempt
  <2> QED
    BY <2>2 DEF RowStep
<1>7. ASSUME TickBegins
      PROVE  RowStep(b)
  <2>1. attempts' = attempts \/ attempts' = Expired
    BY <1>7 DEF TickBegins
  <2>2. ASSUME attempts' = Expired PROVE RowStep(b)
    <3>1. attempts'[b] = IF Stale(b) THEN Closed(b, "expired")[b] ELSE attempts[b]
      BY <2>2 DEF Expired
    <3>2. Closed(b, "expired")[b].status = "expired"
      BY <1>1 DEF Closed, Attempt
    <3> QED
      BY <1>7, <3>1, <3>2 DEF RowStep
  <2> QED
    BY <1>2, <2>1, <2>2
<1> QED
  BY <1>2, <1>3, <1>4, <1>5, <1>6, <1>7

LEMMA RowSteps ==
  ASSUME TypeOK, [Next]_vars, ~Time, NEW b \in Ids PROVE RowStep(b)
<1>1. attempts \in [Ids -> Attempt]
  BY DEF TypeOK
<1>2. UNCHANGED attempts => RowStep(b)
  BY WritesRows
<1>3. CASE UNCHANGED vars
  BY <1>2, <1>3 DEF vars
<1>4. ASSUME NEW a \in Ids, FetchBrief(a) \/ Request(a) PROVE RowStep(b)
  <2>1. CASE FetchBrief(a)
    <3>1. \/ attempts'[b] = attempts[b]
          \/ /\ attempts'[b].status = attempts[b].status
             /\ attempts'[b].started = attempts[b].started /\ attempts'[b].quiet = 0
      BY <1>1, <2>1 DEF FetchBrief, Attempt
    <3> QED
      BY <3>1 DEF RowStep
  <2>2. CASE Request(a)
    <3>1. \/ attempts'[b] = attempts[b]
          \/ /\ attempts[b].status \in {"briefed", "verify_requested"}
             /\ attempts'[b].status = "verify_requested"
             /\ attempts'[b].started = attempts[b].started
      BY <1>1, <2>2 DEF Request, Attempt
    <3> QED
      BY <3>1 DEF RowStep
  <2> QED
    BY <1>4, <2>1, <2>2
<1>5. ASSUME NEW a \in Ids, Cancel(a) PROVE RowStep(b)
  <2>1. "canceled" \in Settled \ {"expired"}
    BY DEF Settled
  <2> QED
    BY <1>5, <2>1, WritesRows DEF Cancel
<1>6. ASSUME NEW a \in Ids, Start(a) PROVE RowStep(b)
  <2>1. attempts' = attempts \/ attempts' = Verifying(a)
    BY <1>6 DEF Start
  <2> QED
    BY <1>2, <2>1, WritesRows
<1>7. CASE TickBegins
  BY <1>7, WritesRows
<1>8. CASE GiveUp \/ Fail \/ Verify \/ Touch
  <2>1. \/ attempts' = attempts
        \/ attempts' = SetStatus(watcher.a, "verify_failed")
        \/ attempts' = SetStatus(watcher.a, "verified")
        \/ attempts' = Touched(watcher.a)
    BY <1>8 DEF GiveUp, Fail, Verify, Touch
  <2>2. "verified" \in Settled \ {"expired"} /\ "verify_failed" \in Settled \ {"expired"}
    BY DEF Settled
  <2> QED
    BY <1>2, <2>1, <2>2, WritesRows
<1>9. ASSUME NEW a \in Ids, NEW target, NEW line, NEW aim, Create(a, target, line, aim)
      PROVE  RowStep(b)
  <2>1. PICK status \in {"briefed", "canceled"} :
           attempts' = Inserted(a, target, line, aim, status)
    BY <1>9 DEF Create
  <2>2. CASE a = b
    <3>1. attempts'[b].status = status /\ attempts'[b].started = FALSE
      BY <2>1, <2>2 DEF Inserted, NoAttempt
    <3> QED
      BY <3>1 DEF RowStep, Settled
  <2>3. CASE a # b
    <3>1. attempts'[b] = attempts[b] \/ attempts'[b] = Closed(b, "canceled")[b]
      BY <2>1, <2>3 DEF Inserted
    <3>2. Closed(b, "canceled")[b].status = "canceled"
      BY <1>1 DEF Closed, Attempt
    <3> QED
      BY <3>1, <3>2 DEF RowStep, Settled
  <2> QED
    BY <2>2, <2>3
<1>10. ASSUME NEW a \in Ids, Evaluate(a) PROVE UNCHANGED attempts
  BY <1>10 DEF Evaluate
<1>11. CASE \/ ListVerifying \/ TickEnds \/ Trigger \/ Write \/ CheckFails
            \/ DecideOutcome \/ Mark
  BY <1>2, <1>11
     DEF ListVerifying, TickEnds, Trigger, Write, CheckFails, DecideOutcome, Mark
<1>12. CASE \/ \E d \in Defects, place \in Places : Edit(d, place)
            \/ \E decision \in UserDecides : Decide(decision)
            \/ \E by \in {"user", "background"} : OtherObserves(by)
            \/ OtherWrites \/ OtherFails \/ UserChecks \/ UserMarks
            \/ Crash \/ Launch
  BY <1>2, <1>12 DEF Edit, Decide, OtherObserves, OtherWrites, OtherFails, UserChecks,
                     UserMarks, Crash, Launch
<1> QED
  BY <1>2, <1>3, <1>4, <1>5, <1>6, <1>7, <1>8, <1>9, <1>10, <1>11, <1>12
     DEF Next, WatcherStep

\* A fault and a crash are counted and never forgotten.
LEMMA CalmBefore ==
  ASSUME TypeOK, [Next]_vars, Calm' PROVE Calm /\ ~Fault /\ ~Crash
<1>1. faults \in Nat /\ crashes \in Nat /\ (faults' = 0) /\ (crashes' = 0)
  BY FixAttemptsAssumption DEF TypeOK, Calm
<1>2. ~Fault /\ ~Crash
  BY <1>1 DEF Fault, Crash
<1>3. UNCHANGED <<faults, crashes>>
  <2>1. CASE UNCHANGED vars \/ NoFault
    BY <2>1 DEF vars, NoFault, bounds
  <2>2. CASE WatcherStep
    <3>1. UNCHANGED bounds
      BY ONLY <1>2, <2>2, Zenon
      DEF WatcherStep, TickBegins, ListVerifying, TickEnds, Trigger, Write, CheckFails,
          GiveUp, DecideOutcome, Verify, Mark, Fail, Touch, Start, Evaluate, NoFault
    <3> QED
      BY ONLY <3>1 DEF bounds
  <2>3. CASE Creates
    BY ONLY <1>2, <2>3, Zenon DEF Creates, Create, NoFault, bounds
  <2>4. CASE \/ \E a \in Ids : FetchBrief(a) \/ Request(a) \/ Cancel(a)
             \/ \E d \in Defects, place \in Places : Edit(d, place)
             \/ \E decision \in UserDecides : Decide(decision)
             \/ \E by \in {"user", "background"} : OtherObserves(by)
             \/ OtherWrites \/ OtherFails \/ UserChecks \/ UserMarks \/ Launch \/ Time
    BY <2>4 DEF FetchBrief, Request, Cancel, Edit, Decide, OtherObserves, OtherWrites,
       OtherFails, UserChecks, UserMarks, Launch, Time, bounds
  <2> QED
    BY <1>2, <2>1, <2>2, <2>3, <2>4 DEF Next, Creates
<1> QED
  BY <1>1, <1>2, <1>3 DEF Calm

\* The clock: a tick has gone through the list.
LEMMA TimeWaits == ASSUME TypeOK, Waits, Time PROVE Waits'
<1>1. attempts \in [Ids -> Attempt] /\ Expiry \in Nat
  BY FixAttemptsAssumption DEF TypeOK
<1>2. ASSUME NEW a \in Ids
      PROVE  /\ attempts'[a].status = attempts[a].status
             /\ attempts'[a].started = attempts[a].started
             /\ IsActive(a) => attempts'[a].quiet = Older(attempts[a].quiet)
             /\ IsActive(a) /\ attempts[a].started =>
                  attempts'[a].waited = Older(attempts[a].waited)
  BY <1>1 DEF Time, Attempt
<1>3. \A a \in Ids : RowStarted(a)'
  BY <1>2 DEF Waits, RowStarted, IsActive
<1>4. At("asleep")' /\ ~ticked' => ~(((At("asleep") /\ ticked) \/ Verifies)')
  BY DEF At, Verifies
<1>5. ASSUME Calm'
      PROVE  /\ up' /\ \A a \in Ids : RowAge(a)'
             /\ ~(((At("asleep") /\ ticked) \/ Verifies)')
  <2>1. Calm /\ up /\ At("asleep") /\ ticked
    BY <1>5 DEF Time, Calm, bounds, Waits
  <2>2. At("asleep")' /\ ~ticked' /\ up'
    BY <2>1 DEF Time, At
  <2>3. ASSUME NEW a \in Ids, attempts[a].status = "verifying"
        PROVE  attempts'[a].quiet <= attempts'[a].waited /\ attempts'[a].quiet <= Expiry
    <3>1. IsActive(a) /\ attempts[a].started
      BY <2>3 DEF Waits, RowStarted, IsActive, Active
    <3>2. /\ attempts[a].quiet \in 0 .. Old /\ attempts[a].waited \in 0 .. Old
          /\ attempts[a].quiet <= attempts[a].waited
      BY <1>1, <2>1, <2>3 DEF Waits, RowAge, Attempt
    <3>3. attempts[a].quiet < Expiry
      BY <2>1, <2>3 DEF Waits, RowYoung, Owed, Verifies
    <3> QED
      BY <1>1, <1>2, <3>1, <3>2, <3>3 DEF Older, Old
  <2> QED
    BY <1>2, <1>4, <2>2, <2>3 DEF RowAge
<1> QED
  BY <1>3, <1>5 DEF Waits

\* What a row that is still verifying was before, and that it is as young.
LEMMA RowsWait ==
  ASSUME TypeOK, Waits, [Next]_vars, ~Time, NEW a \in Ids
  PROVE  /\ RowStarted(a)'
         /\ Calm => RowAge(a)' /\ (RowYoung(a) => RowYoung(a)')
<1>1. attempts'[a] \in Attempt /\ Expiry \in Nat \ {0}
  BY TypeStep, FixAttemptsAssumption DEF TypeOK
<1>2. attempts'[a].waited \in Nat
  BY <1>1 DEF Attempt, Old
<1>3. RowStep(a)
  BY RowSteps
<1>4. RowStarted(a)'
  BY <1>3 DEF Waits, RowStarted, RowStep, IsActive, Active, Settled
<1>5. attempts'[a] = attempts[a] \/ attempts'[a].status # "verifying" \/ attempts'[a].quiet = 0
  BY <1>3 DEF RowStep, Settled
<1>6. Calm => RowAge(a)'
  BY <1>1, <1>2, <1>5 DEF Waits, RowAge
<1>7. RowYoung(a) => RowYoung(a)'
  BY <1>1, <1>5 DEF RowYoung
<1> QED
  BY <1>4, <1>6, <1>7

\* What is still verifying when its outcome is open is young.
LEMMA OpenIsYoung ==
  ASSUME TypeOK, Waits, Calm, watcher.a \in Ids, Outcome(watcher.a) = "verifying"
  PROVE  RowYoung(watcher.a)
<1> DEFINE own == attempts[watcher.a]
<1>1. own \in Attempt
  BY DEF TypeOK
<1>2. own.quiet \in Nat /\ own.waited \in Nat
  BY <1>1 DEF Attempt, Old
<1>3. /\ Grace \in Nat /\ Recheck \in Nat /\ Expiry \in Nat
      /\ Grace < Expiry /\ Recheck <= Expiry
  BY FixAttemptsAssumption
<1>4. ~(own.quiet >= Recheck) \/ ~(own.waited > Grace)
  BY DEF Outcome
<1>5. own.status = "verifying" => own.quiet <= own.waited
  BY DEF Waits, RowAge
<1> QED
  BY <1>2, <1>3, <1>4, <1>5 DEF RowYoung

\* The part of Waits that is about the watcher's turns.
Young == \A a \in Ids : (At("asleep") /\ ticked) \/ Verifies => RowYoung(a) \/ Owed(a)

LEMMA TurnsWait ==
  ASSUME TypeOK, Waits, [Next]_vars, ~Time, Calm'
  PROVE  Young'
<1>1. Calm /\ up /\ Young /\ ~Fault /\ ~Crash
  BY CalmBefore DEF Waits, Young
<1>2. ASSUME NEW a \in Ids PROVE RowYoung(a) => RowYoung(a)'
  BY <1>1, RowsWait
<1>3. /\ watcher \in Watcher /\ watcher' \in Watcher
      /\ attempts \in [Ids -> Attempt]
  BY TypeStep DEF TypeOK
<1>4. ASSUME NEW p \in WatcherPC
      PROVE  OnWith(p).pc = p /\ OnWith(p).todo = watcher.todo
  BY <1>3 DEF OnWith, Watcher
<1>5. ASSUME \/ watcher'.pc \in {"requested", "giveup"}
             \/ watcher'.pc \in {"started", "scanned"} /\ ~watcher'.waits
      PROVE  Young'
  BY <1>5 DEF Young, Verifies, Requests, At
\* On with the list, with nothing in hand or with what is young.
<1>6. ASSUME Verifies, watcher'.todo = watcher.todo,
             watcher'.pc \notin {"asleep", "requested", "giveup"},
             \A a \in Ids : InHand(a) => RowYoung(a)' \/ InHand(a)'
      PROVE  Young'
  BY <1>1, <1>2, <1>6 DEF Young, Owed, Verifies, Requests, At
<1>7. CASE UNCHANGED <<watcher, ticked>>
  <2>1. ASSUME NEW a \in Ids PROVE Owed(a) => Owed(a)'
    BY <1>7 DEF Owed, Verifies, Requests, At, InHand
  <2>2. ((At("asleep") /\ ticked) \/ Verifies)' => (At("asleep") /\ ticked) \/ Verifies
    BY <1>7 DEF Verifies, Requests, At
  <2> QED
    BY <1>1, <1>2, <2>1, <2>2 DEF Young
<1>8. CASE TickBegins
  <2>1. watcher'.pc = "requested"
    BY <1>8 DEF TickBegins, Asleep
  <2> QED
    BY <1>5, <2>1
<1>9. ASSUME NEW a \in Ids, Start(a) PROVE Young'
  <2> DEFINE rest == [OnWith("requested") EXCEPT !.todo = @ \ {a}]
  <2>1. /\ rest.pc = "requested"
        /\ [rest EXCEPT !.pc = "started", !.a = a].pc = "started"
        /\ [rest EXCEPT !.pc = "started", !.a = a].waits = FALSE
    BY <1>3 DEF OnWith, Watcher
  <2>2. watcher' = rest \/ watcher' = [rest EXCEPT !.pc = "started", !.a = a]
    BY <1>9 DEF Start
  <2> QED
    BY <1>5, <2>1, <2>2
<1>10. CASE Trigger \/ Write \/ CheckFails
  <2>1. watcher.pc \in {"started", "scanned"}
    BY <1>10 DEF Trigger, Write, CheckFails, At
  <2>2. CASE ~watcher.waits
    <3>1. /\ watcher'.pc \in {"requested", "scanned", "giveup"}
          /\ watcher'.pc = "scanned" => watcher'.waits = watcher.waits
      BY <1>3, <1>10, <2>2
         DEF Trigger, Write, CheckFails, Next1, OnWith, Watcher
    <3> QED
      BY <1>5, <2>2, <3>1
  <2>3. CASE watcher.waits
    <3>1. Verifies /\ \A a \in Ids : ~InHand(a)
      BY <2>1, <2>3 DEF Verifies, Requests, At, InHand
    <3>2. watcher'.todo = watcher.todo /\ watcher'.pc \in {"verifying", "scanned"}
      BY <1>3, <1>10, <2>3 DEF Trigger, Write, CheckFails, Next1, OnWith, Watcher
    <3> QED
      BY <1>6, <3>1, <3>2
  <2> QED
    BY <2>2, <2>3, <1>3 DEF Watcher
<1>11. CASE GiveUp
  <2>1. watcher'.pc = "requested"
    BY <1>3, <1>11 DEF GiveUp, OnWith, Watcher
  <2> QED
    BY <1>5, <2>1
<1>12. CASE ListVerifying
  <2>1. watcher'.pc = "verifying" /\ watcher'.todo = InStatus(attempts, "verifying")
    BY <1>1, <1>3, <1>12 DEF ListVerifying, OnWith, Watcher
  <2>2. UNCHANGED attempts
    BY <1>12 DEF ListVerifying
  <2> QED
    BY <2>1, <2>2 DEF Young, RowYoung, Owed, InStatus, Verifies, Requests, At
<1>13. ASSUME NEW b \in Ids, Evaluate(b) PROVE Young'
  <2>1. /\ Verifies /\ \A a \in Ids : ~InHand(a)
        /\ UNCHANGED attempts
    BY <1>13 DEF Evaluate, At, Verifies, Requests, InHand
  <2>2. /\ watcher'.pc \in {"sources", "verified"} /\ watcher'.a = b
        /\ watcher'.todo = watcher.todo \ {b}
    BY <1>1, <1>3, <1>13 DEF Evaluate, Watcher
  <2>3. ASSUME NEW a \in Ids PROVE Owed(a) => Owed(a)'
    BY <2>1, <2>2 DEF Owed, Verifies, Requests, At, InHand
  <2> QED
    BY <1>1, <1>2, <2>1, <2>3 DEF Young
<1>14. CASE DecideOutcome
  <2>1. Verifies /\ watcher.pc = "sources"
    BY <1>14 DEF DecideOutcome, At, Verifies, Requests
  <2>2. Outcome(watcher.a) \in {"failed", "touch", "verifying"}
    BY DEF Outcome
  <2>3. CASE Outcome(watcher.a) = "verifying"
    <3>1. watcher'.pc = "verifying" /\ watcher'.todo = watcher.todo
      BY <1>1, <1>3, <1>14, <2>3 DEF DecideOutcome, OnWith, Watcher
    <3>2. \A a \in Ids : InHand(a) => RowYoung(a)'
      BY <1>1, <1>2, <2>3, OpenIsYoung DEF InHand
    <3> QED
      BY <1>6, <2>1, <3>1, <3>2
  <2>4. CASE Outcome(watcher.a) # "verifying"
    <3>1. /\ watcher'.pc \in {"failed", "touch"} /\ watcher'.todo = watcher.todo
          /\ watcher'.a = watcher.a
      BY <1>1, <1>3, <1>14, <2>2, <2>4 DEF DecideOutcome, Watcher
    <3>2. \A a \in Ids : InHand(a) => InHand(a)'
      BY <3>1 DEF InHand
    <3> QED
      BY <1>6, <2>1, <3>1, <3>2
  <2> QED
    BY <2>3, <2>4
<1>15. CASE Verify \/ Fail
  <2>1. Verifies
    BY <1>15 DEF Verify, Fail, At, Verifies, Requests
  <2>2. \/ attempts' = SetStatus(watcher.a, "verified")
        \/ attempts' = SetStatus(watcher.a, "verify_failed")
    BY <1>1, <1>15 DEF Verify, Fail
  <2>3. ASSUME NEW a \in Ids, a = watcher.a PROVE attempts'[a].status # "verifying"
    BY <1>3, <2>2, <2>3 DEF SetStatus, Closed, IsActive, Active, Attempt
  <2>4. watcher'.pc \in {"mark", "verifying"} /\ watcher'.todo = watcher.todo
    BY <1>1, <1>3, <1>15 DEF Verify, Fail, OnWith, Watcher
  <2>5. \A a \in Ids : InHand(a) => RowYoung(a)'
    BY <2>3 DEF InHand, RowYoung
  <2> QED
    BY <1>6, <2>1, <2>4, <2>5
<1>16. CASE Mark
  <2>1. Verifies /\ \A a \in Ids : ~InHand(a)
    BY <1>16 DEF Mark, At, Verifies, Requests, InHand
  <2>2. watcher'.pc = "verifying" /\ watcher'.todo = watcher.todo
    BY <1>3, <1>16 DEF Mark, OnWith, Watcher
  <2> QED
    BY <1>6, <2>1, <2>2
<1>17. CASE Touch
  <2>1. Verifies
    BY <1>17 DEF Touch, At, Verifies, Requests
  <2>2. /\ watcher'.pc = "started" /\ watcher'.waits /\ watcher'.todo = watcher.todo
    BY <1>3, <1>17 DEF Touch, Watcher
  <2>3. attempts' = Touched(watcher.a)
    BY <1>1, <1>17 DEF Touch
  <2>4. ASSUME NEW a \in Ids, InHand(a) PROVE RowYoung(a)'
    <3>1. attempts'[a].quiet = 0
      BY <1>3, <2>3, <2>4 DEF Touched, InHand, Attempt
    <3>2. 0 < Expiry
      BY FixAttemptsAssumption
    <3> QED
      BY <3>1, <3>2 DEF RowYoung
  <2> QED
    BY <1>6, <2>1, <2>2, <2>4
<1>18. CASE TickEnds
  <2>1. Verifies /\ watcher.todo = {} /\ \A a \in Ids : ~InHand(a)
    BY <1>18 DEF TickEnds, At, Verifies, Requests, InHand
  <2>2. \A a \in Ids : RowYoung(a)
    BY <1>1, <2>1 DEF Young, Owed
  <2> QED
    BY <1>2, <2>2 DEF Young
<1>19. CASE \/ UNCHANGED vars
            \/ \E a \in Ids : FetchBrief(a) \/ Request(a) \/ Cancel(a)
            \/ Creates
            \/ \E d \in Defects, place \in Places : Edit(d, place)
            \/ \E decision \in UserDecides : Decide(decision)
            \/ \E by \in {"user", "background"} : OtherObserves(by)
            \/ OtherWrites \/ OtherFails \/ UserChecks \/ UserMarks \/ Launch
  <2>1. UNCHANGED <<watcher, ticked>>
    BY <1>19 DEF vars, FetchBrief, Request, Cancel, Creates, Create, Edit, Decide,
       OtherObserves, OtherWrites, OtherFails, UserChecks, UserMarks, Launch
  <2> QED
    BY <1>7, <2>1
<1> QED
  BY <1>1, <1>8, <1>9, <1>10, <1>11, <1>12, <1>13, <1>14, <1>15, <1>16, <1>17, <1>18,
     <1>19 DEF Next, WatcherStep, Creates

LEMMA WaitsStep == ASSUME TypeOK, Waits, [Next]_vars PROVE Waits'
<1>1. CASE Time
  BY <1>1, TimeWaits
<1>2. CASE ~Time
  <2>1. \A a \in Ids : RowStarted(a)'
    BY <1>2, RowsWait
  <2>2. ASSUME Calm' PROVE up' /\ Young' /\ \A a \in Ids : RowAge(a)'
    <3>1. Calm /\ up /\ ~Crash
      BY <2>2, CalmBefore DEF Waits
    <3>2. up'
      <4>1. CASE WatcherStep
        BY ONLY <3>1, <4>1, Zenon
        DEF WatcherStep, TickBegins, ListVerifying, TickEnds, Trigger, Write, CheckFails,
            GiveUp, DecideOutcome, Verify, Mark, Fail, Touch, Start, Evaluate
      <4>2. CASE ~WatcherStep
        BY <1>2, <3>1, <4>2 DEF Next, vars, FetchBrief, Request, Cancel, Create, Edit,
           Decide, OtherObserves, OtherWrites, OtherFails, UserChecks, UserMarks, Launch
      <4> QED
        BY ONLY <4>1, <4>2
    <3>3. \A a \in Ids : RowAge(a)'
      BY <1>2, <3>1, RowsWait
    <3> QED
      BY <1>2, <2>2, <3>2, <3>3, TurnsWait
  <2> QED
    BY <2>1, <2>2 DEF Waits, Young
<1> QED
  BY <1>1, <1>2

\* While the application runs and nothing fails, no attempt that waits for a
\* deploy, for an integration or for its turn is swept as stale.
THEOREM WaitsAreSpared == Spec => WaitSurvivesSweep
<1> DEFINE Spared == \A a \in Ids :
              attempts[a].status = "verifying" /\ attempts'[a].status = "expired"
              => faults > 0 \/ crashes > 0
<1>1. Init => Waits
  <2>1. ASSUME Init, NEW a \in Ids PROVE ~IsActive(a) /\ attempts[a].status # "verifying"
    BY <2>1 DEF Init, IsActive, Active, NoAttempt
  <2> QED
    BY <2>1 DEF Init, Waits, RowStarted, RowAge, RowYoung
<1>2. TypeOK /\ Waits /\ [Next]_vars => Waits'
  BY WaitsStep
<1>3. TypeOK /\ Waits /\ [Next]_vars => Spared
  <2> SUFFICES ASSUME TypeOK, Waits, [Next]_vars, NEW a \in Ids,
                      attempts[a].status = "verifying", attempts'[a].status = "expired"
               PROVE  faults > 0 \/ crashes > 0
    OBVIOUS
  <2>1. attempts[a] \in Attempt /\ Expiry \in Nat /\ faults \in Nat /\ crashes \in Nat
    BY FixAttemptsAssumption DEF TypeOK
  <2>2. ~Time
    <3>1. attempts \in [Ids -> Attempt]
      BY DEF TypeOK
    <3> SUFFICES ASSUME Time PROVE attempts'[a].status = attempts[a].status
      OBVIOUS
    <3>2. attempts' = [b \in Ids |-> IF ~IsActive(b) THEN attempts[b]
             ELSE [attempts[b] EXCEPT !.quiet = Older(@),
                     !.waited = IF attempts[b].started THEN Older(@) ELSE @]]
      BY DEF Time
    <3> QED
      BY <3>1, <3>2 DEF Attempt
  <2>3. Stale(a)
    BY <2>2, RowSteps DEF RowStep, Settled
  <2>4. attempts[a].quiet \in Nat /\ attempts[a].quiet > Expiry
    BY <2>1, <2>3 DEF Stale, Attempt, Old
  <2>5. Calm => attempts[a].quiet <= Expiry
    BY DEF Waits, RowAge
  <2> QED
    BY <2>1, <2>4, <2>5 DEF Calm
<1>4. Spec => [][Spared]_vars
  BY <1>1, <1>2, <1>3, TypeCorrect, PTL DEF Spec
<1> QED
  BY <1>4 DEF WaitSurvivesSweep

-----------------------------------------------------------------------------
(* The license: the copy.                                                  *)

LEMMA SameLicenseInit == Lic!Init => LicThms!Init
BY Zenon
   DEF Lic!Actors, Lic!NoKey, Lic!Insts, Lic!NoRow, Lic!NoJob,
       Lic!NoDrain, Lic!Sides, Lic!Init, LicThms!Actors, LicThms!NoKey,
       LicThms!Insts, LicThms!NoRow, LicThms!NoJob, LicThms!NoDrain,
       LicThms!Sides, LicThms!Init

LEMMA SameLicenseNext == Lic!Next => LicThms!Next
BY Zenon
   DEF Lic!Actors, Lic!Keys, Lic!NoKey, Lic!Minted, Lic!local, Lic!debts,
       Lic!ring, Lic!locks, Lic!remote, Lic!rest, Lic!NoRow, Lic!NoJob,
       Lic!NoDrain, Lic!Sides, Lic!At, Lic!Goto, Lic!Done, Lic!NoFault,
       Lic!Fault, Lic!Faults, Lic!Asking, Lic!Bump, Lic!Active,
       Lic!Applied, Lic!Op, Lic!Write, Lic!Refuse, Lic!Postpone, Lic!Land,
       Lic!Handle, Lic!Goon, Lic!Freed, Lic!Released, Lic!Owe,
       Lic!Recorded, Lic!ReleaseCredential, Lic!AfterEnsure, Lic!For,
       Lic!Ensure, Lic!StillInstalled, Lic!Check, Lic!Issue, Lic!Start,
       Lic!Capture, Lic!Load, Lic!Ask, Lic!IsCurrent, Lic!Commit,
       Lic!Plan, Lic!SnapshotUnchanged, Lic!Confirm, Lic!OwnSeat,
       Lic!Mint, Lic!Teardown, Lic!Stray, Lic!Persist, Lic!Save,
       Lic!RestoredKey, Lic!Rekey, Lic!Restore, Lic!Sweep, Lic!FindKey,
       Lic!Unlink, Lic!Clear, Lic!Out, Lic!Forget, Lic!Reread,
       Lic!Tombstone, Lic!Credential, Lic!Tick, Lic!Retry, Lic!Unsettled,
       Lic!Settle, Lic!Look, Lic!Present, Lic!FindToken, Lic!Fetch,
       Lic!Reject, Lic!Adopt, Lic!Backups, Lic!Import, Lic!Turn,
       Lic!Handler, Lic!Refresh, Lic!Next, LicThms!Actors, LicThms!Keys,
       LicThms!NoKey, LicThms!Minted, LicThms!local, LicThms!debts,
       LicThms!ring, LicThms!locks, LicThms!remote, LicThms!rest,
       LicThms!NoRow, LicThms!NoJob, LicThms!NoDrain, LicThms!Sides,
       LicThms!At, LicThms!Goto, LicThms!Done, LicThms!NoFault,
       LicThms!Fault, LicThms!Faults, LicThms!Asking, LicThms!Bump,
       LicThms!Active, LicThms!Applied, LicThms!Op, LicThms!Write,
       LicThms!Refuse, LicThms!Postpone, LicThms!Land, LicThms!Handle,
       LicThms!Goon, LicThms!Freed, LicThms!Released, LicThms!Owe,
       LicThms!Recorded, LicThms!ReleaseCredential, LicThms!AfterEnsure,
       LicThms!For, LicThms!Ensure, LicThms!StillInstalled, LicThms!Check,
       LicThms!Issue, LicThms!Start, LicThms!Capture, LicThms!Load,
       LicThms!Ask, LicThms!IsCurrent, LicThms!Commit, LicThms!Plan,
       LicThms!SnapshotUnchanged, LicThms!Confirm, LicThms!OwnSeat,
       LicThms!Mint, LicThms!Teardown, LicThms!Stray, LicThms!Persist,
       LicThms!Save, LicThms!RestoredKey, LicThms!Rekey, LicThms!Restore,
       LicThms!Sweep, LicThms!FindKey, LicThms!Unlink, LicThms!Clear,
       LicThms!Out, LicThms!Forget, LicThms!Reread, LicThms!Tombstone,
       LicThms!Credential, LicThms!Tick, LicThms!Retry, LicThms!Unsettled,
       LicThms!Settle, LicThms!Look, LicThms!Present, LicThms!FindToken,
       LicThms!Fetch, LicThms!Reject, LicThms!Adopt, LicThms!Backups,
       LicThms!Import, LicThms!Turn, LicThms!Handler, LicThms!Refresh,
       LicThms!Next

LEMMA SameLicenseVars == UNCHANGED licenseVars => UNCHANGED LicThms!vars
BY DEF licenseVars, LicThms!vars, LicThms!local, LicThms!debts, LicThms!ring,
       LicThms!locks, LicThms!remote, LicThms!rest

LEMMA LicenseNames == LicThms!LicenseAssumption
BY PartsAssumption
   DEF LicThms!LicenseAssumption, LicThms!Actors, LicThms!Insts, LicThms!Role,
       Lic!Actors, Lic!Insts, Lic!Role

-----------------------------------------------------------------------------
(* A behavior of the two parts is one of each.                             *)

LEMMA FixesRun == PartsSpec => Spec
<1>1. PartsInit => Init
  BY DEF PartsInit
<1>2. [PartsNext]_allVars => [Next]_vars
  BY DEF PartsNext, FixesMove, LicenseMove, allVars
<1> QED
  BY <1>1, <1>2, PTL DEF PartsSpec, Spec

LEMMA LicenseRuns == PartsSpec => LicThms!Spec
<1>1. PartsInit => LicThms!Init
  BY SameLicenseInit DEF PartsInit
<1>2. [PartsNext]_allVars => [LicThms!Next]_(LicThms!vars)
  <2>1. PartsNext \/ UNCHANGED allVars => Lic!Next \/ UNCHANGED licenseVars
    BY DEF PartsNext, FixesMove, LicenseMove, allVars
  <2> QED
    BY <2>1, SameLicenseNext, SameLicenseVars
<1> QED
  BY <1>1, <1>2, PTL DEF PartsSpec, LicThms!Spec

-----------------------------------------------------------------------------
(* The license: the theorems.                                              *)

\* Every row, key, release and local of a handler has its type, whatever fails.
THEOREM PartsTypes == PartsSpec => []PartsTypeOK
<1>1. TypeOK /\ LicThms!TypeOK => PartsTypeOK
  <2>1. LicThms!TypeOK => Lic!TypeOK
    BY
       DEF Lic!Role, Lic!Actors, Lic!Keys, Lic!NoKey, Lic!Insts, Lic!Row,
           Lic!PC, Lic!Job, Lic!Sides, Lic!Release, Lic!Operation,
           Lic!TypeOK, LicThms!Role, LicThms!Actors, LicThms!Keys,
           LicThms!NoKey, LicThms!Insts, LicThms!Row, LicThms!PC,
           LicThms!Job, LicThms!Sides, LicThms!Release, LicThms!Operation,
           LicThms!TypeOK
  <2> QED
    BY <2>1 DEF PartsTypeOK
<1>2. LicThms!Spec => []LicThms!TypeOK
  BY LicThms!TypeCorrect, LicenseNames
<1> QED
  BY <1>1, <1>2, FixesRun, TypeCorrect, LicenseRuns, PTL

\* For any number of commands, keys, ticks and failures, what the row says of an
\* installation never goes back to an older state of the subscription: what
\* LicenseWriteGeneration is for.
THEOREM LicenseAdvances == PartsSpec => VerdictsAdvance
<1>1. LicThms!VerdictsAdvance => VerdictsAdvance
  BY DEF VerdictsAdvance, Lic!NoRow, Lic!Restores, Lic!VerdictsAdvance,
     Lic!vars, Lic!local, Lic!debts, Lic!ring, Lic!locks, Lic!remote, Lic!rest,
     LicThms!NoRow, LicThms!Restores, LicThms!VerdictsAdvance,
     LicThms!vars, LicThms!local, LicThms!debts, LicThms!ring, LicThms!locks,
     LicThms!remote, LicThms!rest
<1>2. LicThms!Spec => LicThms!VerdictsAdvance
  BY LicThms!VerdictsDoAdvance, LicenseNames
<1> QED
  BY <1>1, <1>2, LicenseRuns, PTL

\* When nobody writes them, the key in the keychain is that of the row: what
\* LICENSE_MUTATION serializes and persist_generation restores.
THEOREM LicenseFits == PartsSpec => []KeyFitsRow
<1>1. LicThms!KeyFitsRow => KeyFitsRow
  BY DEF KeyFitsRow, Lic!NoKey, Lic!NoRow, Lic!KeyFitsRow, LicThms!NoKey,
         LicThms!NoRow, LicThms!KeyFitsRow
<1>2. LicThms!Spec => []LicThms!KeyFitsRow
  BY LicThms!KeyDoesFit, LicenseNames
<1> QED
  BY <1>1, <1>2, LicenseRuns, PTL

\* Once the worker has done what timed out, no seat and no credential is
\* forgotten: what the releases of activate_license and the unlinking of
\* deactivate_license are ordered for.
THEOREM LicenseForgetsNothing == PartsSpec => []NothingIsForgotten
<1>1. LicThms!NothingIsForgotten => NothingIsForgotten
  BY DEF NothingIsForgotten, Lic!NothingIsForgotten, Lic!SeatKept, Lic!CredentialKept,
         Lic!InHand, LicThms!NothingIsForgotten, LicThms!SeatKept,
         LicThms!CredentialKept, LicThms!InHand
<1>2. LicThms!Spec => []LicThms!NothingIsForgotten
  BY LicThms!NothingForgotten, LicenseNames
<1> QED
  BY <1>1, <1>2, LicenseRuns, PTL
=============================================================================
