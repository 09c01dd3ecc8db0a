-------------------------- MODULE AgentRequestsProofs --------------------------
(***************************************************************************)
(* Proofs about the agent request queue, for any number of requests,       *)
(* failures, panics and ends of the process, and any expiry.               *)
(***************************************************************************)
EXTENDS AgentRequests, FiniteSetTheorems, TLAPS

\* What a row says about the work on it.  A claimed request has not been begun,
\* but for the one whose settlement is the next step.
Work ==
    \A i \in Ids :
      /\ requests[i].status \in {"absent", "requested"} =>
           starts[i] = 0 /\ i \notin watcher.claimed /\ tasks[i] = "none"
      /\ i \in watcher.claimed =>
           \/ starts[i] = 0
           \/ At("settle") /\ First(watcher.claimed, i) /\ starts[i] = 1
      /\ starts[i] <= 1

\* A success in hand, or in the row, was earned.
Earned ==
    \A i \in Ids :
      /\ tasks[i] = "ok" => i \in done
      /\ At("settle") /\ watcher.outcome = "ok" /\ First(watcher.claimed, i)
           => i \in done
      /\ requests[i].status = "fulfilled" => i \in done

\* A running row carries the time of its claim, and the loop's clock is never
\* ahead.
Timed ==
    /\ watcher.at <= now
    /\ \A i \in Ids : Running(i) => requests[i].updated = claimedAt[i]

\* A scan that holds the gate.
Holds(i) == InFlight(i) /\ Running(i)

\* One scan holds the gate, and none while the loop may claim another.
Gate ==
    /\ \A i, j \in Ids : Holds(i) /\ Holds(j) => i = j
    /\ At("claim") /\ ~watcher.scanRunning => \A i \in Ids : ~Holds(i)

Inv == TypeOK /\ Work /\ Earned /\ Timed /\ Gate

LEMMA InitInv == Init => Inv
BY AgentRequestsAssumption
DEF Init, Inv, TypeOK, Work, Earned, Timed, Gate, Holds, InFlight, Running, IsScan,
    At, First, Restarted, Row, Kinds, Status, Terminal, Watcher, PC, TaskPC, Ids

\* What the settling statements do to the table.
LEMMA SettledRows ==
    ASSUME TypeOK, NEW i \in Ids, NEW status \in Terminal
    PROVE  /\ Settled(i, status) \in [Ids -> Row]
           /\ \A j \in Ids :
                /\ Settled(i, status)[j].kind = requests[j].kind
                /\ j # i => Settled(i, status)[j] = requests[j]
           /\ \/ Settled(i, status)[i] = requests[i]
              \/ Open(i) /\ Settled(i, status)[i].status = status
BY DEF TypeOK, Settled, Open, Row, Status, Terminal

\* A row that is claimed, or that the expiry passes over or takes, stays a row.
LEMMA ClaimedType == ASSUME TypeOK, NEW i \in Ids PROVE ClaimedRow(i) \in Row
<1>1. requests[i] \in Row /\ watcher.at \in Nat /\ "running" \in Status
  BY DEF TypeOK, Watcher, Status
<1> QED
  BY ONLY <1>1, Zenon DEF ClaimedRow, Row

LEMMA ExpireType ==
    ASSUME TypeOK, NEW ok \in BOOLEAN, Expire(ok), NEW i \in Ids
    PROVE  requests'[i] \in Row
<1>1. /\ requests[i] \in Row /\ watcher.at \in Nat
      /\ "expired" \in Status
  BY DEF TypeOK, Watcher, Status, Terminal
<1>2. \/ requests'[i] = requests[i]
      \/ requests'[i] = [requests[i] EXCEPT !.status = "expired",
                                            !.updated = watcher.at]
  BY DEF Expire
<1> QED
  BY ONLY <1>1, <1>2, Zenon DEF Row

LEMMA TypeStep == Inv /\ [Next]_vars => TypeOK'
<1> SUFFICES ASSUME Inv, [Next]_vars PROVE TypeOK'
  OBVIOUS
<1> USE AgentRequestsAssumption DEF Inv, Goto, At, Answer, Fault, NoFault, bounds, history, Restarted, TypeOK,
           Row, Kinds, Status, Terminal, Watcher, PC, TaskPC
<1>1. ASSUME NEW i \in Ids, NEW kind \in Kinds, Insert(i, kind)
     PROVE TypeOK'
  BY <1>1 DEF Insert
<1>2. ASSUME ReconcileList
     PROVE TypeOK'
  BY <1>2 DEF ReconcileList
<1>3. ASSUME NEW i \in Ids, ReconcileFail(i)
     PROVE TypeOK'
  <2>1. requests' \in [Ids -> Row]
    BY <1>3, SettledRows DEF ReconcileFail
  <2>2. watcher' \in Watcher
    BY <1>3 DEF ReconcileFail
  <2> QED
    BY <1>3, <2>1, <2>2 DEF ReconcileFail
<1>4. ASSUME Reconciled
     PROVE TypeOK'
  BY <1>4 DEF Reconciled
<1>5. ASSUME ReconcileStops
     PROVE TypeOK'
  <2>1. requests' \in [Ids -> Row]
    BY <1>5, SettledRows DEF ReconcileStops
  <2>2. watcher' \in Watcher
    BY <1>5 DEF ReconcileStops
  <2> QED
    BY <1>5, <2>1, <2>2 DEF ReconcileStops
<1>6. ASSUME TickBegins
     PROVE TypeOK'
  BY <1>6 DEF TickBegins
<1>7. ASSUME NEW ok \in BOOLEAN, Expire(ok)
     PROVE TypeOK'
  <2>1. ASSUME NEW i \in Ids PROVE requests'[i] \in Row
    BY <1>7, ExpireType
  <2>2. requests' \in [Ids -> Row]
    BY <1>7, <2>1 DEF Expire
  <2>3. faults' \in Nat /\ crashes' \in Nat /\ panics' \in Nat
    <3>1. Answer(ok)
      BY <1>7 DEF Expire
    <3> QED
      BY <3>1
  <2> QED
    BY <1>7, <2>2, <2>3 DEF Expire
<1>8. ASSUME NEW ok \in BOOLEAN, List(ok)
     PROVE TypeOK'
  <2>1. watcher' \in Watcher
    BY <1>8 DEF List
  <2>2. faults' \in Nat /\ crashes' \in Nat /\ panics' \in Nat
    BY <1>8 DEF List
  <2> QED
    BY <1>8, <2>1, <2>2 DEF List
<1>9. ASSUME NEW ok \in BOOLEAN, Probe(ok)
     PROVE TypeOK'
  <2>1. watcher' \in Watcher
    BY <1>9 DEF Probe
  <2>2. faults' \in Nat /\ crashes' \in Nat /\ panics' \in Nat
    BY <1>9 DEF Probe
  <2> QED
    BY <1>9, <2>1, <2>2 DEF Probe
<1>10. ASSUME NEW i \in Ids, Skip(i)
     PROVE TypeOK'
  BY <1>10 DEF Skip
<1>11. ASSUME NEW i \in Ids, Claim(i)
     PROVE TypeOK'
  <2>1. requests' \in [Ids -> Row]
    BY <1>11, ClaimedType DEF Claim
  <2>2. watcher' \in Watcher
    BY <1>11 DEF Claim, Claimable, ClaimedRow
  <2> QED
    BY <1>11, <2>1, <2>2 DEF Claim, Claimable, ClaimedRow
<1>12. ASSUME NEW i \in Ids, ClaimFails(i)
     PROVE TypeOK'
  <2>1. ClaimedRow(i) \in Row
    BY ClaimedType
  <2>2. requests' \in [Ids -> Row] /\ claimedAt' \in [Ids -> Nat]
    BY <1>12, <2>1 DEF ClaimFails
  <2>3. watcher' \in Watcher
    BY <1>12 DEF ClaimFails
  <2>4. faults' \in Nat /\ crashes' \in Nat /\ panics' \in Nat
    BY <1>12 DEF ClaimFails
  <2>5. UNCHANGED <<tasks, now, done, starts>>
    BY <1>12 DEF ClaimFails
  <2> QED
    BY <2>2, <2>3, <2>4, <2>5
<1>13. ASSUME Claimed
     PROVE TypeOK'
  BY <1>13 DEF Claimed
<1>14. ASSUME NEW i \in Ids, NEW created \in BOOLEAN,
               NEW outcome \in {"ok", "error"}, StartFix(i, created, outcome)
     PROVE TypeOK'
  <2>1. requests' \in [Ids -> Row]
    BY <1>14 DEF StartFix, Begun
  <2>2. watcher' \in Watcher
    BY <1>14 DEF StartFix, Begun
  <2> QED
    BY <1>14, <2>1, <2>2 DEF StartFix, Begun
<1>15. ASSUME NEW i \in Ids, NEW ok \in BOOLEAN, SettleFix(i, ok)
     PROVE TypeOK'
  <2>1. requests' \in [Ids -> Row]
    BY <1>15, SettledRows DEF SettleFix, ResultOf
  <2>2. watcher' \in Watcher
    BY <1>15 DEF SettleFix, ResultOf
  <2> QED
    BY <1>15, <2>1, <2>2 DEF SettleFix, ResultOf
<1>16. ASSUME NEW i \in Ids, SpawnScan(i)
     PROVE TypeOK'
  <2>1. requests' \in [Ids -> Row]
    BY <1>16 DEF SpawnScan, Begun
  <2>2. watcher' \in Watcher
    BY <1>16 DEF SpawnScan, Begun
  <2>3. tasks' \in [Ids -> TaskPC] /\ starts' \in [Ids -> Nat]
    BY <1>16 DEF SpawnScan, Begun
  <2>4. UNCHANGED <<now, done, claimedAt, faults, crashes, panics>>
    BY <1>16 DEF SpawnScan
  <2> QED
    BY <2>1, <2>2, <2>3, <2>4
<1>17. ASSUME TickEnds
     PROVE TypeOK'
  BY <1>17 DEF TickEnds
<1>18. ASSUME NEW i \in Ids, NEW outcome \in {"ok", "error"}, ScanEnds(i, outcome)
     PROVE TypeOK'
  BY <1>18 DEF ScanEnds
<1>19. ASSUME NEW i \in Ids, NEW ok \in BOOLEAN, SettleScan(i, ok)
     PROVE TypeOK'
  <2>1. requests' \in [Ids -> Row]
    BY <1>19, SettledRows DEF SettleScan, ResultOf
  <2>2. watcher' \in Watcher
    BY <1>19 DEF SettleScan, ResultOf
  <2> QED
    BY <1>19, <2>1, <2>2 DEF SettleScan, ResultOf
<1>20. ASSUME NEW i \in Ids, TaskPanics(i)
     PROVE TypeOK'
  BY <1>20 DEF TaskPanics
<1>21. ASSUME Tick
     PROVE TypeOK'
  BY <1>21 DEF Tick
<1>22. ASSUME LoopPanics
     PROVE TypeOK'
  <2>1. requests' \in [Ids -> Row]
    BY <1>22 DEF LoopPanics
  <2>2. watcher' \in Watcher
    BY <1>22 DEF LoopPanics
  <2> QED
    BY <1>22, <2>1, <2>2 DEF LoopPanics
<1>23. ASSUME Crash
     PROVE TypeOK'
  <2>1. requests' \in [Ids -> Row]
    BY <1>23 DEF Crash
  <2>2. watcher' \in Watcher
    BY <1>23 DEF Crash
  <2> QED
    BY <1>23, <2>1, <2>2 DEF Crash
<1>24. CASE UNCHANGED vars
  BY <1>24 DEF vars, history, bounds
<1> HIDE DEF Inv, Goto, At, Answer, Fault, NoFault, bounds, history, Restarted, TypeOK,
           Row, Kinds, Status, Terminal, Watcher, PC, TaskPC
<1> QED
  BY <1>1, <1>2, <1>3, <1>4, <1>5, <1>6, <1>7, <1>8, <1>9, <1>10, <1>11, <1>12, <1>13, <1>14, <1>15, <1>16, <1>17, <1>18, <1>19, <1>20, <1>21, <1>22, <1>23, <1>24 DEF Next, WatcherStep, TaskStep

\* A row that a step settles was open, and only its status and time change.
SettlesOnly(i, result) ==
    \A j \in Ids :
      \/ requests'[j] = requests[j]
      \/ /\ j = i /\ Open(j)
         /\ requests'[j].status = result
         /\ requests'[j].kind = requests[j].kind

LEMMA SettleMoves ==
    ASSUME TypeOK, NEW i \in Ids, NEW result \in Terminal,
           requests' = requests \/ requests' = Settled(i, result)
    PROVE  SettlesOnly(i, result)
BY SettledRows DEF SettlesOnly

\* A claim, answered or not.
LEMMA ClaimMoves ==
    ASSUME TypeOK, NEW i \in Ids, ClaimFails(i)
    PROVE  \A j \in Ids :
             \/ requests'[j] = requests[j] /\ claimedAt'[j] = claimedAt[j]
             \/ /\ requests[j].status = "requested"
                /\ requests'[j].status = "running"
                /\ requests'[j].kind = requests[j].kind
                /\ requests'[j].updated = watcher.at
                /\ claimedAt'[j] = watcher.at
<1>1. CASE UNCHANGED <<requests, claimedAt>>
  BY <1>1
<1>2. CASE /\ requests[i].status = "requested"
           /\ requests' = [requests EXCEPT ![i] = ClaimedRow(i)]
           /\ claimedAt' = [claimedAt EXCEPT ![i] = watcher.at]
  BY <1>2 DEF TypeOK, ClaimedRow, Row
<1> QED
  BY <1>1, <1>2 DEF ClaimFails

LEMMA WorkStep == Inv /\ [Next]_vars => Work'
<1> SUFFICES ASSUME Inv, [Next]_vars PROVE Work'
  OBVIOUS
<1> USE AgentRequestsAssumption DEF Inv, Goto, At, Answer, Fault, NoFault, bounds, history, Restarted, TypeOK,
           Row, Kinds, Status, Terminal, Watcher, PC, TaskPC,
           Work, First, Running
<1>1. ASSUME NEW i \in Ids, NEW kind \in Kinds, Insert(i, kind)
     PROVE Work'
  BY <1>1 DEF Insert
<1>2. ASSUME ReconcileList
     PROVE Work'
  BY <1>2 DEF ReconcileList
<1>3. ASSUME NEW i \in Ids, ReconcileFail(i)
     PROVE Work'
  <2>1. SettlesOnly(i, "failed")
    BY <1>3, SettleMoves DEF ReconcileFail
  <2> QED
    BY <1>3, <2>1 DEF ReconcileFail, SettlesOnly, Open
<1>4. ASSUME Reconciled
     PROVE Work'
  BY <1>4 DEF Reconciled
<1>5. ASSUME ReconcileStops
     PROVE Work'
  <2>1. \A j \in Ids :
          \/ requests'[j] = requests[j]
          \/ Open(j) /\ requests'[j].status = "failed"
             /\ requests'[j].kind = requests[j].kind
    BY <1>5, SettleMoves DEF ReconcileStops, SettlesOnly
  <2> QED
    BY <1>5, <2>1 DEF ReconcileStops, Open
<1>6. ASSUME TickBegins
     PROVE Work'
  BY <1>6 DEF TickBegins
<1>7. ASSUME NEW ok \in BOOLEAN, Expire(ok)
     PROVE Work'
  BY <1>7 DEF Expire, Stale, Open
<1>8. ASSUME NEW ok \in BOOLEAN, List(ok)
     PROVE Work'
  BY <1>8 DEF List
<1>9. ASSUME NEW ok \in BOOLEAN, Probe(ok)
     PROVE Work'
  BY <1>9 DEF Probe
<1>10. ASSUME NEW i \in Ids, Skip(i)
     PROVE Work'
  BY <1>10 DEF Skip
<1>11. ASSUME NEW i \in Ids, Claim(i)
     PROVE Work'
  BY <1>11 DEF Claim, Claimable, ClaimedRow
<1>12. ASSUME NEW i \in Ids, ClaimFails(i)
     PROVE Work'
  BY <1>12, ClaimMoves DEF ClaimFails
<1>13. ASSUME Claimed
     PROVE Work'
  BY <1>13 DEF Claimed
<1>14. ASSUME NEW i \in Ids, NEW created \in BOOLEAN,
               NEW outcome \in {"ok", "error"}, StartFix(i, created, outcome)
     PROVE Work'
  <2>1. \A j \in Ids : First(watcher.claimed, j) => j = i
    BY <1>14 DEF StartFix, Ids
  <2> QED
    BY <1>14, <2>1 DEF StartFix, Begun
<1>15. ASSUME NEW i \in Ids, NEW ok \in BOOLEAN, SettleFix(i, ok)
     PROVE Work'
  <2>1. SettlesOnly(i, ResultOf(watcher.outcome))
    BY <1>15, SettleMoves DEF SettleFix, ResultOf
  <2>2. \A j \in Ids : First(watcher.claimed, j) => j = i
    BY <1>15 DEF SettleFix, Ids
  <2> QED
    BY <1>15, <2>1, <2>2 DEF SettleFix, SettlesOnly, Open, ResultOf
<1>16. ASSUME NEW i \in Ids, SpawnScan(i)
     PROVE Work'
  BY <1>16 DEF SpawnScan, Begun
<1>17. ASSUME TickEnds
     PROVE Work'
  BY <1>17 DEF TickEnds
<1>18. ASSUME NEW i \in Ids, NEW outcome \in {"ok", "error"}, ScanEnds(i, outcome)
     PROVE Work'
  BY <1>18 DEF ScanEnds
<1>19. ASSUME NEW i \in Ids, NEW ok \in BOOLEAN, SettleScan(i, ok)
     PROVE Work'
  <2>1. SettlesOnly(i, ResultOf(tasks[i]))
    BY <1>19, SettleMoves DEF SettleScan, ResultOf
  <2> QED
    BY <1>19, <2>1 DEF SettleScan, SettlesOnly, Open, ResultOf
<1>20. ASSUME NEW i \in Ids, TaskPanics(i)
     PROVE Work'
  BY <1>20 DEF TaskPanics
<1>21. ASSUME Tick
     PROVE Work'
  BY <1>21 DEF Tick
<1>22. ASSUME LoopPanics
     PROVE Work'
  BY <1>22 DEF LoopPanics
<1>23. ASSUME Crash
     PROVE Work'
  BY <1>23 DEF Crash
<1>24. CASE UNCHANGED vars
  BY <1>24 DEF vars, history, bounds
<1> HIDE DEF Inv, Goto, At, Answer, Fault, NoFault, bounds, history, Restarted, TypeOK,
           Row, Kinds, Status, Terminal, Watcher, PC, TaskPC,
           Work, First, Running
<1> QED
  BY <1>1, <1>2, <1>3, <1>4, <1>5, <1>6, <1>7, <1>8, <1>9, <1>10, <1>11, <1>12, <1>13, <1>14, <1>15, <1>16, <1>17, <1>18, <1>19, <1>20, <1>21, <1>22, <1>23, <1>24 DEF Next, WatcherStep, TaskStep

LEMMA EarnedStep == Inv /\ [Next]_vars => Earned'
<1> SUFFICES ASSUME Inv, [Next]_vars PROVE Earned'
  OBVIOUS
<1> USE AgentRequestsAssumption DEF Inv, Goto, At, Answer, Fault, NoFault, bounds, history, Restarted, TypeOK,
           Row, Kinds, Status, Terminal, Watcher, PC, TaskPC,
           Work, Earned, First, Running
<1>1. ASSUME NEW i \in Ids, NEW kind \in Kinds, Insert(i, kind)
     PROVE Earned'
  BY <1>1 DEF Insert
<1>2. ASSUME ReconcileList
     PROVE Earned'
  BY <1>2 DEF ReconcileList
<1>3. ASSUME NEW i \in Ids, ReconcileFail(i)
     PROVE Earned'
  <2>1. SettlesOnly(i, "failed")
    BY <1>3, SettleMoves DEF ReconcileFail
  <2> QED
    BY <1>3, <2>1 DEF ReconcileFail, SettlesOnly, Open
<1>4. ASSUME Reconciled
     PROVE Earned'
  BY <1>4 DEF Reconciled
<1>5. ASSUME ReconcileStops
     PROVE Earned'
  <2>1. \A j \in Ids :
          \/ requests'[j] = requests[j]
          \/ Open(j) /\ requests'[j].status = "failed"
             /\ requests'[j].kind = requests[j].kind
    BY <1>5, SettleMoves DEF ReconcileStops, SettlesOnly
  <2> QED
    BY <1>5, <2>1 DEF ReconcileStops, Open
<1>6. ASSUME TickBegins
     PROVE Earned'
  BY <1>6 DEF TickBegins
<1>7. ASSUME NEW ok \in BOOLEAN, Expire(ok)
     PROVE Earned'
  BY <1>7 DEF Expire, Stale, Open
<1>8. ASSUME NEW ok \in BOOLEAN, List(ok)
     PROVE Earned'
  BY <1>8 DEF List
<1>9. ASSUME NEW ok \in BOOLEAN, Probe(ok)
     PROVE Earned'
  BY <1>9 DEF Probe
<1>10. ASSUME NEW i \in Ids, Skip(i)
     PROVE Earned'
  BY <1>10 DEF Skip
<1>11. ASSUME NEW i \in Ids, Claim(i)
     PROVE Earned'
  BY <1>11 DEF Claim, Claimable, ClaimedRow
<1>12. ASSUME NEW i \in Ids, ClaimFails(i)
     PROVE Earned'
  BY <1>12, ClaimMoves DEF ClaimFails
<1>13. ASSUME Claimed
     PROVE Earned'
  BY <1>13 DEF Claimed
<1>14. ASSUME NEW i \in Ids, NEW created \in BOOLEAN,
               NEW outcome \in {"ok", "error"}, StartFix(i, created, outcome)
     PROVE Earned'
  <2>1. \A j \in Ids : First(watcher.claimed, j) => j = i
    BY <1>14 DEF StartFix, Ids
  <2> QED
    BY <1>14, <2>1 DEF StartFix, Begun
<1>15. ASSUME NEW i \in Ids, NEW ok \in BOOLEAN, SettleFix(i, ok)
     PROVE Earned'
  <2>1. SettlesOnly(i, ResultOf(watcher.outcome))
    BY <1>15, SettleMoves DEF SettleFix, ResultOf
  <2>2. \A j \in Ids : First(watcher.claimed, j) => j = i
    BY <1>15 DEF SettleFix, Ids
  <2> QED
    BY <1>15, <2>1, <2>2 DEF SettleFix, SettlesOnly, Open, ResultOf
<1>16. ASSUME NEW i \in Ids, SpawnScan(i)
     PROVE Earned'
  BY <1>16 DEF SpawnScan, Begun
<1>17. ASSUME TickEnds
     PROVE Earned'
  BY <1>17 DEF TickEnds
<1>18. ASSUME NEW i \in Ids, NEW outcome \in {"ok", "error"}, ScanEnds(i, outcome)
     PROVE Earned'
  BY <1>18 DEF ScanEnds
<1>19. ASSUME NEW i \in Ids, NEW ok \in BOOLEAN, SettleScan(i, ok)
     PROVE Earned'
  <2>1. SettlesOnly(i, ResultOf(tasks[i]))
    BY <1>19, SettleMoves DEF SettleScan, ResultOf
  <2> QED
    BY <1>19, <2>1 DEF SettleScan, SettlesOnly, Open, ResultOf
<1>20. ASSUME NEW i \in Ids, TaskPanics(i)
     PROVE Earned'
  BY <1>20 DEF TaskPanics
<1>21. ASSUME Tick
     PROVE Earned'
  BY <1>21 DEF Tick
<1>22. ASSUME LoopPanics
     PROVE Earned'
  BY <1>22 DEF LoopPanics
<1>23. ASSUME Crash
     PROVE Earned'
  BY <1>23 DEF Crash
<1>24. CASE UNCHANGED vars
  BY <1>24 DEF vars, history, bounds
<1> HIDE DEF Inv, Goto, At, Answer, Fault, NoFault, bounds, history, Restarted, TypeOK,
           Row, Kinds, Status, Terminal, Watcher, PC, TaskPC,
           Work, Earned, First, Running
<1> QED
  BY <1>1, <1>2, <1>3, <1>4, <1>5, <1>6, <1>7, <1>8, <1>9, <1>10, <1>11, <1>12, <1>13, <1>14, <1>15, <1>16, <1>17, <1>18, <1>19, <1>20, <1>21, <1>22, <1>23, <1>24 DEF Next, WatcherStep, TaskStep

LEMMA TimedStep == Inv /\ [Next]_vars => Timed'
<1> SUFFICES ASSUME Inv, [Next]_vars PROVE Timed'
  OBVIOUS
<1> USE AgentRequestsAssumption DEF Inv, Goto, At, Answer, Fault, NoFault, bounds, history, Restarted, TypeOK,
           Row, Kinds, Status, Terminal, Watcher, PC, TaskPC,
           Timed, Running
<1>1. ASSUME NEW i \in Ids, NEW kind \in Kinds, Insert(i, kind)
     PROVE Timed'
  BY <1>1 DEF Insert
<1>2. ASSUME ReconcileList
     PROVE Timed'
  BY <1>2 DEF ReconcileList
<1>3. ASSUME NEW i \in Ids, ReconcileFail(i)
     PROVE Timed'
  <2>1. SettlesOnly(i, "failed")
    BY <1>3, SettleMoves DEF ReconcileFail
  <2> QED
    BY <1>3, <2>1 DEF ReconcileFail, SettlesOnly, Open
<1>4. ASSUME Reconciled
     PROVE Timed'
  BY <1>4 DEF Reconciled
<1>5. ASSUME ReconcileStops
     PROVE Timed'
  <2>1. \A j \in Ids :
          \/ requests'[j] = requests[j]
          \/ Open(j) /\ requests'[j].status = "failed"
             /\ requests'[j].kind = requests[j].kind
    BY <1>5, SettleMoves DEF ReconcileStops, SettlesOnly
  <2> QED
    BY <1>5, <2>1 DEF ReconcileStops, Open
<1>6. ASSUME TickBegins
     PROVE Timed'
  BY <1>6 DEF TickBegins
<1>7. ASSUME NEW ok \in BOOLEAN, Expire(ok)
     PROVE Timed'
  BY <1>7 DEF Expire, Stale, Open
<1>8. ASSUME NEW ok \in BOOLEAN, List(ok)
     PROVE Timed'
  BY <1>8 DEF List
<1>9. ASSUME NEW ok \in BOOLEAN, Probe(ok)
     PROVE Timed'
  BY <1>9 DEF Probe
<1>10. ASSUME NEW i \in Ids, Skip(i)
     PROVE Timed'
  BY <1>10 DEF Skip
<1>11. ASSUME NEW i \in Ids, Claim(i)
     PROVE Timed'
  BY <1>11 DEF Claim, Claimable, ClaimedRow
<1>12. ASSUME NEW i \in Ids, ClaimFails(i)
     PROVE Timed'
  BY <1>12, ClaimMoves DEF ClaimFails
<1>13. ASSUME Claimed
     PROVE Timed'
  BY <1>13 DEF Claimed
<1>14. ASSUME NEW i \in Ids, NEW created \in BOOLEAN,
               NEW outcome \in {"ok", "error"}, StartFix(i, created, outcome)
     PROVE Timed'
  BY <1>14 DEF StartFix, Begun
<1>15. ASSUME NEW i \in Ids, NEW ok \in BOOLEAN, SettleFix(i, ok)
     PROVE Timed'
  <2>1. SettlesOnly(i, ResultOf(watcher.outcome))
    BY <1>15, SettleMoves DEF SettleFix, ResultOf
  <2> QED
    BY <1>15, <2>1 DEF SettleFix, SettlesOnly, Open, ResultOf
<1>16. ASSUME NEW i \in Ids, SpawnScan(i)
     PROVE Timed'
  BY <1>16 DEF SpawnScan, Begun
<1>17. ASSUME TickEnds
     PROVE Timed'
  BY <1>17 DEF TickEnds
<1>18. ASSUME NEW i \in Ids, NEW outcome \in {"ok", "error"}, ScanEnds(i, outcome)
     PROVE Timed'
  BY <1>18 DEF ScanEnds
<1>19. ASSUME NEW i \in Ids, NEW ok \in BOOLEAN, SettleScan(i, ok)
     PROVE Timed'
  <2>1. SettlesOnly(i, ResultOf(tasks[i]))
    BY <1>19, SettleMoves DEF SettleScan, ResultOf
  <2> QED
    BY <1>19, <2>1 DEF SettleScan, SettlesOnly, Open, ResultOf
<1>20. ASSUME NEW i \in Ids, TaskPanics(i)
     PROVE Timed'
  BY <1>20 DEF TaskPanics
<1>21. ASSUME Tick
     PROVE Timed'
  BY <1>21 DEF Tick
<1>22. ASSUME LoopPanics
     PROVE Timed'
  BY <1>22 DEF LoopPanics
<1>23. ASSUME Crash
     PROVE Timed'
  BY <1>23 DEF Crash
<1>24. CASE UNCHANGED vars
  BY <1>24 DEF vars, history, bounds
<1> HIDE DEF Inv, Goto, At, Answer, Fault, NoFault, bounds, history, Restarted, TypeOK,
           Row, Kinds, Status, Terminal, Watcher, PC, TaskPC,
           Timed, Running
<1> QED
  BY <1>1, <1>2, <1>3, <1>4, <1>5, <1>6, <1>7, <1>8, <1>9, <1>10, <1>11, <1>12, <1>13, <1>14, <1>15, <1>16, <1>17, <1>18, <1>19, <1>20, <1>21, <1>22, <1>23, <1>24 DEF Next, WatcherStep, TaskStep

\* No step but a claim gives a scan the gate, and none but the probe opens it.
NoMoreHolders == \A j \in Ids : Holds(j)' => Holds(j)
NotOpened ==
    watcher'.pc = "claim" /\ ~watcher'.scanRunning
      => watcher.pc = "claim" /\ ~watcher.scanRunning

LEMMA GateKept == Gate /\ NoMoreHolders /\ NotOpened => Gate'
BY DEF Gate, NoMoreHolders, NotOpened, At

LEMMA GateStep == Inv /\ [Next]_vars => Gate'
<1> SUFFICES ASSUME Inv, [Next]_vars PROVE Gate'
  OBVIOUS
<1> USE AgentRequestsAssumption DEF Inv, Goto, At, Answer, Fault, NoFault, bounds, history, Restarted, TypeOK,
           Row, Kinds, Status, Terminal, Watcher, PC, TaskPC, Work
<1>1. ASSUME NEW i \in Ids, NEW kind \in Kinds, Insert(i, kind)
     PROVE Gate'
  <2>1. NoMoreHolders
    BY <1>1 DEF Insert, NoMoreHolders, Holds, InFlight, Running, IsScan
  <2>2. NotOpened
    BY <1>1 DEF Insert, NotOpened
  <2> QED
    BY <2>1, <2>2, GateKept
<1>2. ASSUME ReconcileList
     PROVE Gate'
  <2>1. NoMoreHolders
    BY <1>2 DEF ReconcileList, NoMoreHolders, Holds, InFlight, Running, IsScan
  <2>2. NotOpened
    BY <1>2 DEF ReconcileList, NotOpened
  <2> QED
    BY <2>1, <2>2, GateKept
<1>3. ASSUME NEW i \in Ids, ReconcileFail(i)
     PROVE Gate'
  <2>0. SettlesOnly(i, "failed")
    BY <1>3, SettleMoves DEF ReconcileFail
  <2>1. NoMoreHolders
    BY <1>3, <2>0 DEF ReconcileFail, SettlesOnly, Open, NoMoreHolders, Holds, InFlight, Running, IsScan
  <2>2. NotOpened
    BY <1>3 DEF ReconcileFail, NotOpened
  <2> QED
    BY <2>1, <2>2, GateKept
<1>4. ASSUME Reconciled
     PROVE Gate'
  <2>1. NoMoreHolders
    BY <1>4 DEF Reconciled, NoMoreHolders, Holds, InFlight, Running, IsScan
  <2>2. NotOpened
    BY <1>4 DEF Reconciled, NotOpened
  <2> QED
    BY <2>1, <2>2, GateKept
<1>5. ASSUME ReconcileStops
     PROVE Gate'
  <2>0. \A j \in Ids :
          \/ requests'[j] = requests[j]
          \/ Open(j) /\ requests'[j].status = "failed"
             /\ requests'[j].kind = requests[j].kind
    BY <1>5, SettleMoves DEF ReconcileStops, SettlesOnly
  <2>1. NoMoreHolders
    BY <1>5, <2>0 DEF ReconcileStops, Open, NoMoreHolders, Holds, InFlight, Running, IsScan
  <2>2. NotOpened
    BY <1>5 DEF ReconcileStops, NotOpened
  <2> QED
    BY <2>1, <2>2, GateKept
<1>6. ASSUME TickBegins
     PROVE Gate'
  <2>1. NoMoreHolders
    BY <1>6 DEF TickBegins, NoMoreHolders, Holds, InFlight, Running, IsScan
  <2>2. NotOpened
    BY <1>6 DEF TickBegins, NotOpened
  <2> QED
    BY <2>1, <2>2, GateKept
<1>7. ASSUME NEW ok \in BOOLEAN, Expire(ok)
     PROVE Gate'
  <2>1. NoMoreHolders
    BY <1>7 DEF Expire, Stale, Open, NoMoreHolders, Holds, InFlight, Running, IsScan
  <2>2. NotOpened
    BY <1>7 DEF Expire, NotOpened
  <2> QED
    BY <2>1, <2>2, GateKept
<1>8. ASSUME NEW ok \in BOOLEAN, List(ok)
     PROVE Gate'
  <2>1. NoMoreHolders
    BY <1>8 DEF List, NoMoreHolders, Holds, InFlight, Running, IsScan
  <2>2. NotOpened
    BY <1>8 DEF List, NotOpened
  <2> QED
    BY <2>1, <2>2, GateKept
<1>9. ASSUME NEW ok \in BOOLEAN, Probe(ok)
     PROVE Gate'
  <2>1. ~watcher'.scanRunning => \A j \in Ids : ~(Running(j) /\ IsScan(j))
    BY <1>9 DEF Probe
  <2> QED
    BY <1>9, <2>1 DEF Probe, Gate, Holds, InFlight, Running, IsScan
<1>10. ASSUME NEW i \in Ids, Skip(i)
     PROVE Gate'
  <2>1. NoMoreHolders
    BY <1>10 DEF Skip, NoMoreHolders, Holds, InFlight, Running, IsScan
  <2>2. NotOpened
    BY <1>10 DEF Skip, NotOpened
  <2> QED
    BY <2>1, <2>2, GateKept
<1>11. ASSUME NEW i \in Ids, Claim(i)
     PROVE Gate'
  <2>1. \A j \in Ids : Holds(j)' => Holds(j) \/ j = i
    BY <1>11 DEF Claim, ClaimedRow, Holds, InFlight, Running, IsScan
  <2>2. CASE IsScan(i)
    <3>1. \A j \in Ids : ~Holds(j)
      BY <1>11, <2>2 DEF Claim, Claimable, Gate
    <3>2. watcher'.scanRunning
      BY <1>11, <2>2 DEF Claim
    <3> QED
      BY <2>1, <3>1, <3>2 DEF Gate
  <2>3. CASE ~IsScan(i)
    <3>1. ~Holds(i)'
      BY <1>11, <2>3 DEF Claim, ClaimedRow, Holds, InFlight, IsScan
    <3>2. NoMoreHolders
      BY <2>1, <3>1 DEF NoMoreHolders
    <3>3. NotOpened
      BY <1>11 DEF Claim, Claimable, NotOpened
    <3> QED
      BY <3>2, <3>3, GateKept
  <2> QED
    BY <2>2, <2>3
<1>12. ASSUME NEW i \in Ids, ClaimFails(i)
     PROVE Gate'
  <2>1. NoMoreHolders
    BY <1>12, ClaimMoves DEF ClaimFails, Claimable, NoMoreHolders, Holds, InFlight, Running, IsScan
  <2>2. NotOpened
    BY <1>12 DEF ClaimFails, NotOpened
  <2> QED
    BY <2>1, <2>2, GateKept
<1>13. ASSUME Claimed
     PROVE Gate'
  <2>1. NoMoreHolders
    BY <1>13 DEF Claimed, NoMoreHolders, Holds, InFlight, Running, IsScan
  <2>2. NotOpened
    BY <1>13 DEF Claimed, NotOpened
  <2> QED
    BY <2>1, <2>2, GateKept
<1>14. ASSUME NEW i \in Ids, NEW created \in BOOLEAN,
               NEW outcome \in {"ok", "error"}, StartFix(i, created, outcome)
     PROVE Gate'
  <2>1. NoMoreHolders
    BY <1>14 DEF StartFix, Begun, NoMoreHolders, Holds, InFlight, Running, IsScan
  <2>2. NotOpened
    BY <1>14 DEF StartFix, NotOpened
  <2> QED
    BY <2>1, <2>2, GateKept
<1>15. ASSUME NEW i \in Ids, NEW ok \in BOOLEAN, SettleFix(i, ok)
     PROVE Gate'
  <2>0. SettlesOnly(i, ResultOf(watcher.outcome))
    BY <1>15, SettleMoves DEF SettleFix, ResultOf
  <2>1. NoMoreHolders
    BY <1>15, <2>0 DEF SettleFix, SettlesOnly, Open, ResultOf, NoMoreHolders, Holds, InFlight, Running, IsScan
  <2>2. NotOpened
    BY <1>15 DEF SettleFix, NotOpened
  <2> QED
    BY <2>1, <2>2, GateKept
<1>16. ASSUME NEW i \in Ids, SpawnScan(i)
     PROVE Gate'
  <2>1. NoMoreHolders
    BY <1>16 DEF SpawnScan, Begun, First, NoMoreHolders, Holds, InFlight, Running, IsScan
  <2>2. NotOpened
    BY <1>16 DEF SpawnScan, NotOpened
  <2> QED
    BY <2>1, <2>2, GateKept
<1>17. ASSUME TickEnds
     PROVE Gate'
  <2>1. NoMoreHolders
    BY <1>17 DEF TickEnds, NoMoreHolders, Holds, InFlight, Running, IsScan
  <2>2. NotOpened
    BY <1>17 DEF TickEnds, NotOpened
  <2> QED
    BY <2>1, <2>2, GateKept
<1>18. ASSUME NEW i \in Ids, NEW outcome \in {"ok", "error"}, ScanEnds(i, outcome)
     PROVE Gate'
  <2>1. NoMoreHolders
    BY <1>18 DEF ScanEnds, NoMoreHolders, Holds, InFlight, Running, IsScan
  <2>2. NotOpened
    BY <1>18 DEF ScanEnds, NotOpened
  <2> QED
    BY <2>1, <2>2, GateKept
<1>19. ASSUME NEW i \in Ids, NEW ok \in BOOLEAN, SettleScan(i, ok)
     PROVE Gate'
  <2>0. SettlesOnly(i, ResultOf(tasks[i]))
    BY <1>19, SettleMoves DEF SettleScan, ResultOf
  <2>1. NoMoreHolders
    BY <1>19, <2>0 DEF SettleScan, SettlesOnly, Open, ResultOf, NoMoreHolders, Holds, InFlight, Running, IsScan
  <2>2. NotOpened
    BY <1>19 DEF SettleScan, NotOpened
  <2> QED
    BY <2>1, <2>2, GateKept
<1>20. ASSUME NEW i \in Ids, TaskPanics(i)
     PROVE Gate'
  <2>1. NoMoreHolders
    BY <1>20 DEF TaskPanics, NoMoreHolders, Holds, InFlight, Running, IsScan
  <2>2. NotOpened
    BY <1>20 DEF TaskPanics, NotOpened
  <2> QED
    BY <2>1, <2>2, GateKept
<1>21. ASSUME Tick
     PROVE Gate'
  <2>1. NoMoreHolders
    BY <1>21 DEF Tick, NoMoreHolders, Holds, InFlight, Running, IsScan
  <2>2. NotOpened
    BY <1>21 DEF Tick, NotOpened
  <2> QED
    BY <2>1, <2>2, GateKept
<1>22. ASSUME LoopPanics
     PROVE Gate'
  <2>1. NoMoreHolders
    BY <1>22 DEF LoopPanics, NoMoreHolders, Holds, InFlight, Running, IsScan
  <2>2. NotOpened
    BY <1>22 DEF LoopPanics, NotOpened
  <2> QED
    BY <2>1, <2>2, GateKept
<1>23. ASSUME Crash
     PROVE Gate'
  <2>1. NoMoreHolders
    BY <1>23 DEF Crash, NoMoreHolders, Holds, InFlight, Running, IsScan
  <2>2. NotOpened
    BY <1>23 DEF Crash, NotOpened
  <2> QED
    BY <2>1, <2>2, GateKept
<1>24. CASE UNCHANGED vars
  BY <1>24 DEF vars, history, bounds, Gate, Holds, InFlight, Running, IsScan
<1> HIDE DEF Inv, Goto, At, Answer, Fault, NoFault, bounds, history, Restarted, TypeOK,
           Row, Kinds, Status, Terminal, Watcher, PC, TaskPC, Work
<1> QED
  BY <1>1, <1>2, <1>3, <1>4, <1>5, <1>6, <1>7, <1>8, <1>9, <1>10, <1>11, <1>12, <1>13, <1>14, <1>15, <1>16, <1>17, <1>18, <1>19, <1>20, <1>21, <1>22, <1>23, <1>24 DEF Next, WatcherStep, TaskStep

\* What a step may do to a row.  Only the expiry expires it, a window after its
\* claim.
RowStep ==
    \A j \in Ids :
      /\ requests[j].status \in Terminal => requests'[j] = requests[j]
      /\ Running(j) /\ requests'[j].status = "expired"
           => now - claimedAt[j] > Expiry

LEMMA RowSteps == Inv /\ [Next]_vars => RowStep
<1> SUFFICES ASSUME Inv, [Next]_vars PROVE RowStep
  OBVIOUS
<1> USE AgentRequestsAssumption DEF Inv, Goto, At, Answer, Fault, NoFault, bounds, history, Restarted, TypeOK,
           Row, Kinds, Status, Terminal, Watcher, PC, TaskPC,
           Timed, Running, RowStep
<1>1. ASSUME NEW i \in Ids, NEW kind \in Kinds, Insert(i, kind)
     PROVE RowStep
  BY <1>1 DEF Insert
<1>2. ASSUME ReconcileList
     PROVE RowStep
  BY <1>2 DEF ReconcileList
<1>3. ASSUME NEW i \in Ids, ReconcileFail(i)
     PROVE RowStep
  <2>1. SettlesOnly(i, "failed")
    BY <1>3, SettleMoves DEF ReconcileFail
  <2> QED
    BY <2>1 DEF SettlesOnly, Open, ResultOf
<1>4. ASSUME Reconciled
     PROVE RowStep
  BY <1>4 DEF Reconciled
<1>5. ASSUME ReconcileStops
     PROVE RowStep
  <2>1. \A j \in Ids :
          \/ requests'[j] = requests[j]
          \/ Open(j) /\ requests'[j].status = "failed"
             /\ requests'[j].kind = requests[j].kind
    BY <1>5, SettleMoves DEF ReconcileStops, SettlesOnly
  <2> QED
    BY <2>1 DEF SettlesOnly, Open, ResultOf
<1>6. ASSUME TickBegins
     PROVE RowStep
  BY <1>6 DEF TickBegins
<1>7. ASSUME NEW ok \in BOOLEAN, Expire(ok)
     PROVE RowStep
  <2>1. ASSUME NEW j \in Ids, requests[j].status \in Terminal
        PROVE  requests'[j] = requests[j]
    BY <1>7, <2>1 DEF Expire, Stale, Open
  <2>2. ASSUME NEW j \in Ids, Running(j), requests'[j].status = "expired"
        PROVE  now - claimedAt[j] > Expiry
    <3>1. Stale(j)
      BY <1>7, <2>2 DEF Expire
    <3>2. /\ requests[j].updated < watcher.at - Expiry
          /\ requests[j].updated = claimedAt[j]
          /\ watcher.at <= now
      BY <2>2, <3>1 DEF Stale
    <3>3. claimedAt[j] \in Nat /\ watcher.at \in Nat /\ now \in Nat /\ Expiry \in Nat
      OBVIOUS
    <3> HIDE DEF TypeOK, Inv
    <3> QED
      BY <3>2, <3>3
  <2> QED
    BY <2>1, <2>2
<1>8. ASSUME NEW ok \in BOOLEAN, List(ok)
     PROVE RowStep
  BY <1>8 DEF List
<1>9. ASSUME NEW ok \in BOOLEAN, Probe(ok)
     PROVE RowStep
  BY <1>9 DEF Probe
<1>10. ASSUME NEW i \in Ids, Skip(i)
     PROVE RowStep
  BY <1>10 DEF Skip
<1>11. ASSUME NEW i \in Ids, Claim(i)
     PROVE RowStep
  BY <1>11 DEF Claim, Claimable, ClaimedRow
<1>12. ASSUME NEW i \in Ids, ClaimFails(i)
     PROVE RowStep
  BY <1>12, ClaimMoves
<1>13. ASSUME Claimed
     PROVE RowStep
  BY <1>13 DEF Claimed
<1>14. ASSUME NEW i \in Ids, NEW created \in BOOLEAN,
               NEW outcome \in {"ok", "error"}, StartFix(i, created, outcome)
     PROVE RowStep
  BY <1>14 DEF StartFix, Begun
<1>15. ASSUME NEW i \in Ids, NEW ok \in BOOLEAN, SettleFix(i, ok)
     PROVE RowStep
  <2>1. SettlesOnly(i, ResultOf(watcher.outcome))
    BY <1>15, SettleMoves DEF SettleFix, ResultOf
  <2> QED
    BY <2>1 DEF SettlesOnly, Open, ResultOf
<1>16. ASSUME NEW i \in Ids, SpawnScan(i)
     PROVE RowStep
  BY <1>16 DEF SpawnScan, Begun
<1>17. ASSUME TickEnds
     PROVE RowStep
  BY <1>17 DEF TickEnds
<1>18. ASSUME NEW i \in Ids, NEW outcome \in {"ok", "error"}, ScanEnds(i, outcome)
     PROVE RowStep
  BY <1>18 DEF ScanEnds
<1>19. ASSUME NEW i \in Ids, NEW ok \in BOOLEAN, SettleScan(i, ok)
     PROVE RowStep
  <2>1. SettlesOnly(i, ResultOf(tasks[i]))
    BY <1>19, SettleMoves DEF SettleScan, ResultOf
  <2> QED
    BY <2>1 DEF SettlesOnly, Open, ResultOf
<1>20. ASSUME NEW i \in Ids, TaskPanics(i)
     PROVE RowStep
  BY <1>20 DEF TaskPanics
<1>21. ASSUME Tick
     PROVE RowStep
  BY <1>21 DEF Tick
<1>22. ASSUME LoopPanics
     PROVE RowStep
  BY <1>22 DEF LoopPanics
<1>23. ASSUME Crash
     PROVE RowStep
  BY <1>23 DEF Crash
<1>24. CASE UNCHANGED vars
  BY <1>24 DEF vars, history, bounds
<1> HIDE DEF Inv, Goto, At, Answer, Fault, NoFault, bounds, history, Restarted, TypeOK,
           Row, Kinds, Status, Terminal, Watcher, PC, TaskPC,
           Timed, Running, RowStep
<1> QED
  BY <1>1, <1>2, <1>3, <1>4, <1>5, <1>6, <1>7, <1>8, <1>9, <1>10, <1>11, <1>12, <1>13, <1>14, <1>15, <1>16, <1>17, <1>18, <1>19, <1>20, <1>21, <1>22, <1>23, <1>24 DEF Next, WatcherStep, TaskStep

-----------------------------------------------------------------------------
(* Theorems                                                                *)

LEMMA Invariance == Spec => []Inv
<1>1. Inv /\ [Next]_vars => Inv'
  BY TypeStep, WorkStep, EarnedStep, TimedStep, GateStep DEF Inv
<1> QED
  BY <1>1, InitInv, PTL DEF Spec

\* The queue, the loop and the tasks keep their types.
THEOREM TypeCorrect == Spec => []TypeOK
BY Invariance, PTL DEF Inv

\* Of the scans in flight at most one has its row running: the gate of
\* claim_due_requests holds across failed operations, panics and crashes.
THEOREM ScansSerialized == Spec => []ScansAreSerialized
<1>1. Inv => ScansAreSerialized
  BY DEF Inv, Gate, Holds, ScansAreSerialized
<1> QED
  BY <1>1, Invariance, PTL

\* What was begun is never begun again: claims are not retried.
THEOREM RunsOnce == Spec => []RequestRunsOnce
<1>1. Inv => RequestRunsOnce
  BY DEF Inv, Work, RequestRunsOnce
<1> QED
  BY <1>1, Invariance, PTL

\* settle is told of a success only when there was one.
THEOREM FulfilledMeansDone == Spec => []FulfilledWasDone
<1>1. Inv => FulfilledWasDone
  BY DEF Inv, Earned, FulfilledWasDone
<1> QED
  BY <1>1, Invariance, PTL

\* No later step rewrites a settled row: not a late task, not the expiry, not
\* the reconciliation of a restarted loop.
THEOREM SettledStays == Spec => SettledIsFinal
<1>1. Inv /\ [Next]_vars
        => [\A i \in Ids :
              requests[i].status \in Terminal => requests'[i] = requests[i]]_vars
  BY RowSteps DEF RowStep
<1> QED
  BY <1>1, Invariance, PTL DEF Spec, SettledIsFinal

\* A claimed request has the whole window from its claim.
THEOREM WindowFromClaim == Spec => ExpiryCountsFromClaim
<1>1. Inv /\ [Next]_vars
        => [\A i \in Ids :
              Running(i) /\ requests'[i].status = "expired"
                => now - claimedAt[i] > Expiry]_vars
  BY RowSteps DEF RowStep
<1> QED
  BY <1>1, Invariance, PTL DEF Spec, ExpiryCountsFromClaim

-----------------------------------------------------------------------------
(* What EveryRequestSettles rests on besides fairness: a request that runs   *)
(* is in somebody's hands, and the loop always comes back to its next tick.  *)

\* The loop holds the claim, a task scans for it, or the loop that was started
\* anew is going to fail it.
InHand(i) ==
    \/ i \in watcher.claimed
    \/ tasks[i] # "none"
    \/ At("reconcile")
    \/ At("failing") /\ i \in watcher.todo

\* Claims are made and used up between "claim" and the end of the tick.
HandInv ==
    /\ watcher.pc \in {"reconcile", "failing", "tick", "expire", "list", "probe"}
         => watcher.claimed = {}
    /\ \A i \in Ids : Running(i) => InHand(i) \/ faults > 0 \/ panics > 0

LEMMA InitHand == Init => HandInv
BY DEF Init, HandInv, Running, Restarted

LEMMA HandStep == Inv /\ HandInv /\ [Next]_vars => HandInv'
<1> SUFFICES ASSUME Inv, HandInv, [Next]_vars PROVE HandInv'
  OBVIOUS
<1>0. /\ requests \in [Ids -> Row] /\ tasks \in [Ids -> TaskPC]
      /\ watcher \in Watcher /\ faults \in Nat /\ panics \in Nat
  BY DEF Inv, TypeOK
<1> USE <1>0 DEF Goto, At, Answer, Fault, NoFault, bounds, history, Restarted,
           Watcher, HandInv, InHand, Running
<1>1. ASSUME NEW i \in Ids, NEW kind \in Kinds, Insert(i, kind)
      PROVE HandInv'
  BY <1>1 DEF Insert
<1>2. ASSUME ReconcileList PROVE HandInv'
  BY <1>2 DEF ReconcileList
<1>3. ASSUME NEW i \in Ids, ReconcileFail(i) PROVE HandInv'
  <2>1. requests' = Settled(i, "failed")
    BY <1>3 DEF ReconcileFail
  <2>2. /\ requests'[i].status # "running"
        /\ \A j \in Ids : j # i => requests'[j] = requests[j]
    BY <2>1 DEF Settled, Open, Row
  <2> QED
    BY <1>3, <2>2 DEF ReconcileFail
<1>4. ASSUME Reconciled PROVE HandInv'
  BY <1>4 DEF Reconciled
<1>5. ASSUME ReconcileStops PROVE HandInv'
  BY <1>5 DEF ReconcileStops
<1>6. ASSUME TickBegins PROVE HandInv'
  BY <1>6 DEF TickBegins
<1>7. ASSUME NEW ok \in BOOLEAN, Expire(ok) PROVE HandInv'
  <2>1. \A i \in Ids : requests'[i].status = "running"
                         => requests[i].status = "running"
    BY <1>7 DEF Expire, Row
  <2>2. /\ watcher.pc = "expire" /\ watcher'.pc = "list"
        /\ watcher'.claimed = watcher.claimed /\ watcher'.todo = watcher.todo
        /\ tasks' = tasks
    <3>1. watcher.pc = "expire" /\ watcher' = [watcher EXCEPT !.pc = "list"]
          /\ tasks' = tasks
      BY <1>7 DEF Expire
    <3> QED
      BY <3>1
  <2>3. (faults > 0 => faults' > 0) /\ (panics > 0 => panics' > 0)
    <3>1. Answer(ok)
      BY <1>7 DEF Expire
    <3> QED
      BY <3>1
  <2>4. ASSUME NEW i \in Ids, requests'[i].status = "running"
        PROVE  i \in watcher'.claimed \/ tasks'[i] # "none"
               \/ faults' > 0 \/ panics' > 0
    BY <2>1, <2>2, <2>3, <2>4
  <2> QED
    BY <2>2, <2>4
<1>8. ASSUME NEW ok \in BOOLEAN, List(ok) PROVE HandInv'
  BY <1>8 DEF List
<1>9. ASSUME NEW ok \in BOOLEAN, Probe(ok) PROVE HandInv'
  BY <1>9 DEF Probe
<1>10. ASSUME NEW i \in Ids, Skip(i) PROVE HandInv'
  BY <1>10 DEF Skip
<1>11. ASSUME NEW i \in Ids, Claim(i) PROVE HandInv'
  BY <1>11 DEF Claim, Claimable
<1>12. ASSUME NEW i \in Ids, ClaimFails(i) PROVE HandInv'
  BY <1>12 DEF ClaimFails, Claimable
<1>13. ASSUME Claimed PROVE HandInv'
  BY <1>13 DEF Claimed
<1>14. ASSUME NEW i \in Ids, NEW created \in BOOLEAN,
              NEW outcome \in {"ok", "error"}, StartFix(i, created, outcome)
       PROVE HandInv'
  BY <1>14 DEF StartFix
<1>15. ASSUME NEW i \in Ids, NEW ok \in BOOLEAN, SettleFix(i, ok) PROVE HandInv'
  <2>1. CASE ok
    <3>1. requests' = Settled(i, ResultOf(watcher.outcome))
      BY <1>15, <2>1 DEF SettleFix
    <3>2. /\ requests'[i].status # "running"
          /\ \A j \in Ids : j # i => requests'[j] = requests[j]
      BY <3>1 DEF Settled, Open, Row, ResultOf
    <3> QED
      BY <1>15, <3>2 DEF SettleFix
  <2>2. CASE ~ok
    BY <1>15, <2>2 DEF SettleFix
  <2> QED
    BY <2>1, <2>2
<1>16. ASSUME NEW i \in Ids, SpawnScan(i) PROVE HandInv'
  BY <1>16 DEF SpawnScan
<1>17. ASSUME TickEnds PROVE HandInv'
  BY <1>17 DEF TickEnds
<1>18. ASSUME NEW i \in Ids, NEW outcome \in {"ok", "error"}, ScanEnds(i, outcome)
       PROVE HandInv'
  BY <1>18 DEF ScanEnds
<1>19. ASSUME NEW i \in Ids, NEW ok \in BOOLEAN, SettleScan(i, ok) PROVE HandInv'
  <2>1. CASE ok
    <3>1. requests' = Settled(i, ResultOf(tasks[i]))
      BY <1>19, <2>1 DEF SettleScan
    <3>2. /\ requests'[i].status # "running"
          /\ \A j \in Ids : j # i => requests'[j] = requests[j]
      BY <3>1 DEF Settled, Open, Row, ResultOf
    <3> QED
      BY <1>19, <3>2 DEF SettleScan
  <2>2. CASE ~ok
    BY <1>19, <2>2 DEF SettleScan
  <2> QED
    BY <2>1, <2>2
<1>20. ASSUME NEW i \in Ids, TaskPanics(i) PROVE HandInv'
  BY <1>20 DEF TaskPanics
<1>21. ASSUME Tick PROVE HandInv'
  BY <1>21 DEF Tick
<1>22. ASSUME LoopPanics PROVE HandInv'
  BY <1>22 DEF LoopPanics
<1>23. ASSUME Crash PROVE HandInv'
  BY <1>23 DEF Crash
<1>24. CASE UNCHANGED vars
  BY <1>24 DEF vars
<1> HIDE DEF Goto, At, Answer, Fault, NoFault, bounds, history, Restarted, Watcher,
           HandInv, InHand, Running
<1> QED
  BY <1>1, <1>2, <1>3, <1>4, <1>5, <1>6, <1>7, <1>8, <1>9, <1>10, <1>11, <1>12,
     <1>13, <1>14, <1>15, <1>16, <1>17, <1>18, <1>19, <1>20, <1>21, <1>22, <1>23,
     <1>24 DEF Next, WatcherStep, TaskStep

LEMMA HandInvariance == Spec => [](Inv /\ HandInv)
<1>1. Inv /\ HandInv /\ [Next]_vars => (Inv /\ HandInv)'
  BY TypeStep, WorkStep, EarnedStep, TimedStep, GateStep, HandStep DEF Inv
<1>2. Init => Inv /\ HandInv
  BY InitInv, InitHand
<1> QED
  BY <1>1, <1>2, PTL DEF Spec

\* No running request is forgotten (the heart of EveryRequestSettles): without
\* a failed operation or a panic its claim is in the loop, its scan has a task,
\* or the loop that reconcile_orphaned_requests begins with will fail it.
THEOREM RunningIsInHand ==
  Spec => [](\A i \in Ids :
               Running(i) => InHand(i) \/ faults > 0 \/ panics > 0)
<1>1. HandInv => \A i \in Ids :
                   Running(i) => InHand(i) \/ faults > 0 \/ panics > 0
  BY DEF HandInv
<1> QED
  BY <1>1, HandInvariance, PTL

\* How many steps the loop is from its next tick, or how many at the most: a
\* claim leads to two more, a row that is listed to three.
ToNextTick ==
    LET todo == Cardinality(watcher.todo)
        claimed == Cardinality(watcher.claimed)
    IN  CASE At("reconcile") -> MaxRequests + 2
          [] At("failing") -> todo + 1
          [] At("expire") -> 3 * MaxRequests + 5
          [] At("list") -> 3 * MaxRequests + 4
          [] At("probe") -> 3 * todo + 3
          [] At("claim") -> 3 * todo + 2 * claimed + 2
          [] At("fulfil") -> 2 * claimed + 1
          [] At("settle") -> 2 * claimed
          [] OTHER -> 0

\* The rows in the loop's hands are finitely many.
LEMMA FewInHand ==
    ASSUME NEW S \in SUBSET Ids
    PROVE  /\ IsFiniteSet(S) /\ Cardinality(S) \in 0 .. MaxRequests
           /\ \A i \in S : Cardinality(S \ {i}) = Cardinality(S) - 1
           /\ \A i \in Ids : Cardinality(S \cup {i}) <= Cardinality(S) + 1
           /\ S # {} => Cardinality(S) >= 1
<1>1. IsFiniteSet(Ids) /\ Cardinality(Ids) = MaxRequests
  BY AgentRequestsAssumption, FS_Interval DEF Ids
<1>2. IsFiniteSet(S) /\ Cardinality(S) <= MaxRequests /\ Cardinality(S) \in Nat
  BY <1>1, FS_Subset, FS_CardinalityType
<1>3. \A i \in S : Cardinality(S \ {i}) = Cardinality(S) - 1
  BY <1>2, FS_RemoveElement
<1>4. \A i \in Ids : Cardinality(S \cup {i}) <= Cardinality(S) + 1
  <2>1. ASSUME NEW i \in Ids, i \notin S
        PROVE  Cardinality(S \cup {i}) = Cardinality(S) + 1
    BY <1>2, <2>1, FS_AddElement
  <2>2. ASSUME NEW i \in Ids, i \in S PROVE S \cup {i} = S
    BY <2>2
  <2> QED
    BY <1>2, <2>1, <2>2
<1>5. S # {} => Cardinality(S) >= 1
  BY <1>2, FS_EmptySet
<1> QED
  BY <1>2, <1>3, <1>4, <1>5, AgentRequestsAssumption

\* A row less to do, or to fulfil.
OneLessTodo == \E i \in watcher.todo : watcher'.todo = watcher.todo \ {i}
OneLessClaimed == \E i \in watcher.claimed : watcher'.claimed = watcher.claimed \ {i}
SameTodo == watcher'.todo = watcher.todo
SameClaimed == watcher'.claimed = watcher.claimed

\* The ways of the loop from one place to the next, but for the beginning of a
\* tick.
LoopMove(p, q) ==
    \/ p = "reconcile" /\ q \in {"failing", "tick"}
    \/ p = "failing" /\ q = "failing" /\ OneLessTodo
    \/ p = "failing" /\ q = "tick"
    \/ p = "expire" /\ q = "list"
    \/ p = "list" /\ q = "probe"
    \/ p = "probe" /\ q = "claim" /\ SameTodo /\ SameClaimed
    \/ /\ p = "claim" /\ q = "claim" /\ OneLessTodo
       /\ SameClaimed \/ \E i \in Ids : watcher'.claimed = watcher.claimed \cup {i}
    \/ p = "claim" /\ q = "fulfil" /\ SameTodo /\ SameClaimed
    \/ p = "fulfil" /\ q = "settle" /\ SameClaimed
    \/ p \in {"fulfil", "settle"} /\ q = "fulfil" /\ OneLessClaimed
    \/ p = "fulfil" /\ q = "tick"

LEMMA LoopMoves ==
    ASSUME watcher \in Watcher, WatcherStep, ~TickBegins
    PROVE  LoopMove(watcher.pc, watcher'.pc)
<1> USE DEF At, Goto, First, Watcher, Restarted, OneLessTodo, OneLessClaimed,
            SameTodo, SameClaimed
<1>1. CASE ReconcileList
  BY <1>1 DEF ReconcileList, LoopMove
<1>2. CASE \E i \in Ids : ReconcileFail(i)
  BY <1>2 DEF ReconcileFail, LoopMove
<1>3. CASE Reconciled
  BY <1>3 DEF Reconciled, LoopMove
<1>4. CASE ReconcileStops
  BY <1>4 DEF ReconcileStops, LoopMove
<1>5. CASE \E ok \in BOOLEAN : Expire(ok)
  <2>1. watcher.pc = "expire" /\ watcher' = [watcher EXCEPT !.pc = "list"]
    BY <1>5 DEF Expire
  <2> QED
    BY <2>1 DEF LoopMove
<1>6. CASE \E ok \in BOOLEAN : List(ok)
  BY <1>6 DEF List, LoopMove
<1>7. CASE \E ok \in BOOLEAN : Probe(ok)
  BY <1>7 DEF Probe, LoopMove
<1>8. CASE \E i \in Ids : Skip(i) \/ ClaimFails(i)
  <2>1. /\ watcher.pc = "claim"
        /\ \E i \in watcher.todo :
             watcher' = [watcher EXCEPT !.todo = watcher.todo \ {i}]
    BY <1>8 DEF Skip, ClaimFails, Claimable
  <2> QED
    BY <2>1 DEF LoopMove
<1>9. CASE \E i \in Ids : Claim(i)
  BY <1>9 DEF Claim, Claimable, LoopMove
<1>10. CASE Claimed
  BY <1>10 DEF Claimed, LoopMove
<1>11. CASE \E i \in Ids, created \in BOOLEAN, outcome \in {"ok", "error"} :
              StartFix(i, created, outcome)
  BY <1>11 DEF StartFix, LoopMove
<1>12. CASE \E i \in Ids, ok \in BOOLEAN : SettleFix(i, ok)
  BY <1>12 DEF SettleFix, LoopMove
<1>13. CASE \E i \in Ids : SpawnScan(i)
  BY <1>13 DEF SpawnScan, LoopMove
<1>14. CASE TickEnds
  BY <1>14 DEF TickEnds, LoopMove
<1> QED
  BY <1>1, <1>2, <1>3, <1>4, <1>5, <1>6, <1>7, <1>8, <1>9, <1>10, <1>11, <1>12,
     <1>13, <1>14 DEF WatcherStep

LEMMA ToNextTickType ==
    ASSUME watcher \in Watcher
    PROVE  /\ ToNextTick \in Nat
           /\ Cardinality(watcher.todo) \in 0 .. MaxRequests
           /\ Cardinality(watcher.claimed) \in 0 .. MaxRequests
<1> DEFINE todo == Cardinality(watcher.todo)
           claimed == Cardinality(watcher.claimed)
<1>1. todo \in 0 .. MaxRequests /\ claimed \in 0 .. MaxRequests
  BY FewInHand DEF Watcher
<1>2. todo \in Nat /\ claimed \in Nat /\ MaxRequests \in Nat
  BY <1>1, AgentRequestsAssumption
<1> HIDE DEF todo, claimed
<1>3. ToNextTick \in Nat
  BY <1>2 DEF ToNextTick, todo, claimed
<1> QED
  BY <1>1, <1>3 DEF todo, claimed

LEMMA LoopSteps ==
    ASSUME Inv, HandInv, WatcherStep, ~TickBegins
    PROVE  ToNextTick' < ToNextTick
<1>1. watcher \in Watcher /\ watcher' \in Watcher
  BY TypeStep DEF Inv, TypeOK, Next
<1>2. LoopMove(watcher.pc, watcher'.pc)
  BY <1>1, LoopMoves
<1> DEFINE t == Cardinality(watcher.todo)    c == Cardinality(watcher.claimed)
           t2 == Cardinality(watcher'.todo)  c2 == Cardinality(watcher'.claimed)
<1>3. /\ t \in Nat /\ c \in Nat /\ t2 \in Nat /\ c2 \in Nat /\ MaxRequests \in Nat
      /\ t2 <= MaxRequests
  BY <1>1, FewInHand, AgentRequestsAssumption DEF Watcher
<1>4. /\ SameTodo => t2 = t
      /\ SameClaimed => c2 = c
      /\ OneLessTodo => t2 = t - 1
      /\ OneLessClaimed => c2 = c - 1
  BY <1>1, FewInHand DEF Watcher, SameTodo, SameClaimed, OneLessTodo, OneLessClaimed
<1>5. (\E i \in Ids : watcher'.claimed = watcher.claimed \cup {i}) => c2 <= c + 1
  BY <1>1, FewInHand DEF Watcher
<1>6. watcher.pc = "probe" => c = 0
  BY FS_EmptySet DEF HandInv
<1> DEFINE p == watcher.pc  q == watcher'.pc
           left(place, todo, claimed) ==
             CASE place = "reconcile" -> MaxRequests + 2
               [] place = "failing" -> todo + 1
               [] place = "expire" -> 3 * MaxRequests + 5
               [] place = "list" -> 3 * MaxRequests + 4
               [] place = "probe" -> 3 * todo + 3
               [] place = "claim" -> 3 * todo + 2 * claimed + 2
               [] place = "fulfil" -> 2 * claimed + 1
               [] place = "settle" -> 2 * claimed
               [] OTHER -> 0
<1>7. ToNextTick = left(p, t, c) /\ ToNextTick' = left(q, t2, c2)
  BY DEF ToNextTick, At
<1>8. \/ p = "reconcile" /\ q \in {"failing", "tick"}
      \/ p = "failing" /\ q = "failing" /\ t2 = t - 1
      \/ p = "failing" /\ q = "tick"
      \/ p = "expire" /\ q = "list"
      \/ p = "list" /\ q = "probe"
      \/ p = "probe" /\ q = "claim" /\ t2 = t /\ c2 = 0
      \/ p = "claim" /\ q = "claim" /\ t2 = t - 1 /\ c2 <= c + 1
      \/ p = "claim" /\ q = "fulfil" /\ t2 = t /\ c2 = c
      \/ p = "fulfil" /\ q = "settle" /\ c2 = c
      \/ p \in {"fulfil", "settle"} /\ q = "fulfil" /\ c2 = c - 1
      \/ p = "fulfil" /\ q = "tick"
  <2> HIDE DEF t, c, t2, c2
  <2>1. SameClaimed => c2 <= c + 1
    BY <1>3, <1>4
  <2> QED
    BY <1>2, <1>4, <1>5, <1>6, <2>1 DEF LoopMove
<1> HIDE DEF t, c, t2, c2, p, q
<1>9. left(q, t2, c2) < left(p, t, c)
  BY <1>3, <1>8
<1> HIDE DEF left
<1> QED
  BY <1>7, <1>9

\* The loop always comes to its next tick: from its start it takes at most
\* MaxRequests + 2 steps to it, from the beginning of a tick at most
\* 3 * MaxRequests + 5, whatever fails on the way; nothing but a tick, a panic
\* and an end of the process makes the way longer, and no task or agent does.
THEOREM TickComesBack ==
  /\ Spec => [](ToNextTick \in Nat)
  /\ Spec => [][/\ WatcherStep /\ ~TickBegins => ToNextTick' < ToNextTick
                /\ TickBegins => ToNextTick' = 3 * MaxRequests + 5
                /\ LoopPanics \/ Crash => ToNextTick' = MaxRequests + 2
                /\ ~(WatcherStep \/ LoopPanics \/ Crash)
                     => ToNextTick' = ToNextTick]_vars
<1> DEFINE Way ==
      /\ WatcherStep /\ ~TickBegins => ToNextTick' < ToNextTick
      /\ TickBegins => ToNextTick' = 3 * MaxRequests + 5
      /\ LoopPanics \/ Crash => ToNextTick' = MaxRequests + 2
      /\ ~(WatcherStep \/ LoopPanics \/ Crash) => ToNextTick' = ToNextTick
<1>1. Inv => ToNextTick \in Nat
  BY ToNextTickType DEF Inv, TypeOK
<1>2. ASSUME TickBegins PROVE ToNextTick' = 3 * MaxRequests + 5
  BY <1>2 DEF TickBegins, ToNextTick, At, Restarted
<1>3. ASSUME LoopPanics \/ Crash PROVE ToNextTick' = MaxRequests + 2
  BY <1>3 DEF LoopPanics, Crash, ToNextTick, At, Restarted
<1>4. ASSUME Next, ~(WatcherStep \/ LoopPanics \/ Crash)
      PROVE  ToNextTick' = ToNextTick
  <2>1. watcher' = watcher
    BY <1>4 DEF Next, Insert, TaskStep, ScanEnds, SettleScan, Tick, TaskPanics
  <2> QED
    BY <2>1 DEF ToNextTick, At
<1>5. Inv /\ HandInv /\ [Next]_vars => [Way]_vars
  BY <1>2, <1>3, <1>4, LoopSteps
<1> HIDE DEF Way
<1>6. Spec => [](ToNextTick \in Nat)
  BY <1>1, Invariance, PTL
<1>7. Spec => [][Way]_vars
  BY <1>5, HandInvariance, PTL DEF Spec
<1> QED
  BY <1>6, <1>7 DEF Way
=============================================================================
