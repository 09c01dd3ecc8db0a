--------------------------- MODULE PageScanProofs ---------------------------
(***************************************************************************)
(* Proofs about a scan of several pages, for any number of selected pages, *)
(* routes and failures.                                                    *)
(***************************************************************************)
EXTENDS PageScan, FiniteSetTheorems, TLAPS

\* There is a site, and pages of it are selected.
SelectionAssumption == Selected \in Nat /\ Routes \in Nat \ {0} /\ MaxFaults \in Nat

LEMMA Ranges ==
  ASSUME SelectionAssumption
  PROVE  /\ NoOutput \in Output /\ NoRoute \notin Route
         /\ Pages \subseteq Nat /\ IsFiniteSet(Pages)
         /\ \A n \in Nat : n <= Selected => n \in 0 .. Selected
<1>1. 1 \in Route /\ NoRoute \notin Route
  BY DEF SelectionAssumption, Route, NoRoute
<1>2. IsFiniteSet(Pages)
  BY FS_Interval DEF SelectionAssumption, Pages
<1> QED
  BY <1>1, <1>2 DEF NoOutput, Output, Verdict, Pages, SelectionAssumption

-----------------------------------------------------------------------------
(* The invariant.  The tally of the pages that were stored, and what a loop *)
(* that is still complete has behind it, are about every page before the   *)
(* one in hand.                                                            *)

Stored == {p \in Pages : children[p] # "none"}

Ahead == {"start", "snapshot", "poll", "scan", "persist"}
During == {"poll", "scan", "persist", "progress"}

\* The pages to come have no run; when the progress is reported, the page in
\* hand has one.
ChildInv ==
    /\ pc \in Ahead => \A p \in Pages : p >= page => children[p] = "none"
    /\ pc = "progress" => /\ page \in Pages
                          /\ children[page] = IF output.browser THEN "complete"
                                              ELSE "failed"
                          /\ \A p \in Pages : p > page => children[p] = "none"
    /\ pc \in {"scan", "persist"} => page \in Pages
    /\ pc \in {"start", "snapshot"} => page = 1

\* Every page that was counted has a run.
TallyInv ==
    /\ loop.persisted <= page - 1 /\ loop.signals <= loop.persisted
    /\ loop.persisted + (IF pc = "progress" THEN 1 ELSE 0) <= Cardinality(Stored)
    /\ parent.completed <= Cardinality(Stored)

\* A loop that is still complete has a complete run of every page so far.
LoopInv ==
    loop.status = "Complete" =>
        /\ \A p \in Pages : p < page => children[p] = "complete"
        /\ loop.persisted = page - 1
        /\ pc = "ended" => page = Selected + 1

ParentInv ==
    /\ pc = "start" => parent.status = "none"
    /\ pc \in {"snapshot", "ended"} \cup During => parent.status = "running"
    /\ parent.status = "complete" => AllComplete
    /\ parent.scored => parent.status = "complete"

Inv == TypeOK /\ ChildInv /\ TallyInv /\ LoopInv /\ ParentInv

LEMMA InitInv == ASSUME SelectionAssumption, Init PROVE Inv
<1>1. TypeOK
  <2>1. /\ 0 \in 0 .. Selected /\ 1 \in 1 .. Selected + 1 /\ 0 \in 0 .. MaxFaults
        /\ output \in Output /\ open \subseteq Route \cup {NoRoute}
        /\ children \in [Pages -> {"none", "complete", "failed"}]
    BY Ranges DEF Init, SelectionAssumption
  <2>2. parent \in Parent /\ loop \in Loop
    BY <2>1 DEF Init, Parent, RunStatus, Loop, LoopStatus
  <2> QED
    BY <2>1, <2>2 DEF Init, TypeOK, PC
<1>2. Stored = {}
  BY DEF Init, Stored
<1>3. Cardinality(Stored) = 0
  BY <1>2, FS_EmptySet
<1>4. ChildInv /\ TallyInv /\ ParentInv
  BY <1>3 DEF Init, ChildInv, TallyInv, ParentInv, Ahead, During
<1>5. LoopInv
  BY DEF Init, LoopInv, Pages
<1> QED
  BY <1>1, <1>4, <1>5 DEF Inv

-----------------------------------------------------------------------------
(* Steps that leave the runs of the pages alone.                           *)

LEMMA ReplyType ==
  ASSUME SelectionAssumption, TypeOK, NEW ok \in BOOLEAN, NEW next \in PC,
         Reply(ok, next)
  PROVE  /\ faults' \in 0 .. MaxFaults /\ pc' \in PC
         /\ pc' \in {next, "abort"}
BY DEF Reply, Fault, NoFault, SelectionAssumption, TypeOK, PC

LEMMA SameStored == ASSUME UNCHANGED children PROVE Stored' = Stored
BY DEF Stored

LEMMA StartInv == ASSUME SelectionAssumption, Inv, Start PROVE Inv'
<1>1. TypeOK'
  BY DEF Start, Inv, TypeOK, Parent, RunStatus, PC, NoFault, Fault, At,
     SelectionAssumption
<1>2. parent'.completed = parent.completed /\ parent'.scored = parent.scored
      /\ parent'.status \in {"none", "running"} /\ parent.status = "none"
      /\ (pc' = "noSession" \/ parent'.status = "running")
  BY DEF Start, Inv, TypeOK, Parent, ParentInv, At
<1> QED
  BY <1>1, <1>2, SameStored
  DEF Start, At, Inv, ChildInv, TallyInv, LoopInv, ParentInv, Ahead, During,
      AllComplete

LEMMA SnapshotInv == ASSUME SelectionAssumption, Inv, Snapshot PROVE Inv'
<1>1. /\ faults' \in 0 .. MaxFaults /\ pc' \in {"poll", "abort"}
      /\ pc = "snapshot" /\ UNCHANGED <<tables, page, output, loop, cancelled>>
  BY ReplyType DEF Snapshot, At, Inv, PC
<1> QED
  BY <1>1, SameStored
  DEF tables, Inv, TypeOK, PC, ChildInv, TallyInv, LoopInv, ParentInv, Ahead,
      During, AllComplete

LEMMA PollInv == ASSUME SelectionAssumption, Inv, Poll PROVE Inv'
<1>1. /\ pc = "poll" /\ page \in Pages /\ UNCHANGED <<tables, page, output, cancelled, faults>>
      /\ \/ pc' = "scan" /\ UNCHANGED loop
         \/ pc' = "ended" /\ loop' = [loop EXCEPT !.status = "Cancelled"]
  BY DEF Poll, At
<1>2. TypeOK'
  BY <1>1 DEF tables, Inv, TypeOK, PC, Loop, LoopStatus
<1>3. loop'.persisted = loop.persisted /\ loop'.signals = loop.signals
      /\ (loop'.status = "Complete" => UNCHANGED loop /\ pc' = "scan")
  BY <1>1 DEF Inv, TypeOK, Loop
<1> QED
  BY <1>1, <1>2, <1>3, SameStored
  DEF tables, Inv, ChildInv, TallyInv, LoopInv, ParentInv, Ahead,
      During, AllComplete

LEMMA ScannedInv == ASSUME SelectionAssumption, Inv, PageScanned PROVE Inv'
<1>1. /\ pc = "scan" /\ pc' = "persist" /\ output' \in Output
      /\ UNCHANGED <<tables, page, loop, cancelled, faults>>
  BY DEF PageScanned, At
<1> QED
  BY <1>1, SameStored
  DEF tables, Inv, TypeOK, PC, ChildInv, TallyInv, LoopInv, ParentInv, Ahead,
      During, AllComplete

LEMMA ErrsInv == ASSUME SelectionAssumption, Inv, PageErrs PROVE Inv'
<1>1. /\ pc = "scan" /\ pc' = "poll" /\ page' = page + 1 /\ page \in Pages
      /\ loop' = [loop EXCEPT !.status = Partially(loop.status)]
      /\ UNCHANGED <<tables, output, cancelled, faults>>
      /\ loop \in Loop /\ page \in Nat /\ loop.persisted \in Nat
  BY DEF PageErrs, At, Inv, ChildInv, TypeOK, Pages, Loop
<1>2. /\ loop' \in Loop /\ loop'.status # "Complete"
      /\ loop'.persisted = loop.persisted /\ loop'.signals = loop.signals
  BY <1>1 DEF Partially, Loop, LoopStatus
<1>3. page' \in 1 .. Selected + 1
  BY <1>1 DEF Pages, SelectionAssumption
<1>4. TypeOK'
  BY <1>1, <1>2, <1>3 DEF tables, Inv, TypeOK, PC
<1>5. \A p \in Pages : p >= page' => p > page /\ p >= page
  BY <1>1 DEF Pages
<1>6. loop'.persisted <= page' - 1
  BY <1>1, <1>2 DEF Inv, TallyInv
<1> QED
  BY <1>1, <1>2, <1>4, <1>5, <1>6, SameStored
  DEF tables, Inv, ChildInv, TallyInv, LoopInv, ParentInv, Ahead,
      During, AllComplete

LEMMA CancelledInv == ASSUME SelectionAssumption, Inv, PageCancelled PROVE Inv'
<1>1. /\ pc = "scan" /\ pc' = "ended"
      /\ loop' = [loop EXCEPT !.status = "Cancelled"] /\ loop \in Loop
      /\ UNCHANGED <<tables, page, output, cancelled, faults>>
  BY DEF PageCancelled, At, Inv, TypeOK
<1>2. /\ loop' \in Loop /\ loop'.status = "Cancelled"
      /\ loop'.persisted = loop.persisted /\ loop'.signals = loop.signals
  BY <1>1 DEF Loop, LoopStatus
<1>3. TypeOK'
  BY <1>1, <1>2 DEF tables, Inv, TypeOK, PC
<1> QED
  BY <1>1, <1>2, <1>3, SameStored
  DEF tables, Inv, ChildInv, TallyInv, LoopInv, ParentInv, Ahead,
      During, AllComplete

LEMMA EndsInv == ASSUME SelectionAssumption, Inv, LoopEnds PROVE Inv'
<1>1. /\ pc = "poll" /\ pc' = "ended" /\ page \notin Pages
      /\ loop' = IF loop.persisted = 0 THEN [loop EXCEPT !.status = "Failed"]
                 ELSE loop
      /\ UNCHANGED <<tables, page, output, cancelled, faults>> /\ loop \in Loop
  BY DEF LoopEnds, At, Inv, TypeOK
<1>2. /\ loop' \in Loop /\ loop'.persisted = loop.persisted
      /\ loop'.signals = loop.signals
      /\ loop'.status = "Complete" => UNCHANGED loop
  BY <1>1 DEF Loop, LoopStatus
<1>3. page = Selected + 1
  BY <1>1 DEF Inv, TypeOK, Pages, SelectionAssumption
<1>4. TypeOK'
  BY <1>1, <1>2 DEF tables, Inv, TypeOK, PC
<1> QED
  BY <1>1, <1>2, <1>3, <1>4, SameStored
  DEF tables, Inv, ChildInv, TallyInv, LoopInv, ParentInv, Ahead,
      During, AllComplete

LEMMA CountsInv == ASSUME SelectionAssumption, Inv, Counts PROVE Inv'
<1>1. /\ faults' \in 0 .. MaxFaults /\ pc' \in {"over", "abort"}
      /\ pc = "counts" /\ UNCHANGED <<tables, page, output, loop, cancelled>>
  BY ReplyType DEF Counts, At, Inv, PC
<1> QED
  BY <1>1, SameStored
  DEF tables, Inv, TypeOK, PC, ChildInv, TallyInv, LoopInv, ParentInv, Ahead,
      During, AllComplete

LEMMA AbortInv == ASSUME SelectionAssumption, Inv, Abort PROVE Inv'
<1>1. /\ pc = "abort" /\ pc' = "over" /\ faults' \in 0 .. MaxFaults
      /\ parent' \in {parent, FailRun(parent)} /\ parent \in Parent
      /\ UNCHANGED <<open, children, page, output, loop, cancelled>>
  BY DEF Abort, At, NoFault, Fault, Inv, TypeOK, SelectionAssumption
<1>2. /\ parent' \in Parent /\ parent'.completed = parent.completed
      /\ parent'.scored = parent.scored
      /\ parent'.status = "complete" <=> parent.status = "complete"
      /\ parent.scored => parent.status = "complete"
  BY <1>1 DEF FailRun, Parent, RunStatus, Inv, ParentInv
<1>3. TypeOK'
  BY <1>1, <1>2 DEF Inv, TypeOK, PC
<1> QED
  BY <1>1, <1>2, <1>3, SameStored
  DEF Inv, ChildInv, TallyInv, LoopInv, ParentInv, Ahead, During, AllComplete

LEMMA CancelInv == ASSUME SelectionAssumption, Inv, Cancel PROVE Inv'
<1>1. /\ cancelled' = TRUE /\ UNCHANGED <<tables, pc, page, output, loop, faults>>
  BY DEF Cancel
<1> QED
  BY <1>1, SameStored
  DEF tables, Inv, TypeOK, ChildInv, TallyInv, LoopInv, ParentInv, AllComplete

-----------------------------------------------------------------------------
(* Steps that store a run.                                                 *)

LEMMA StoredFacts ==
  ASSUME SelectionAssumption
  PROVE  IsFiniteSet(Stored) /\ Cardinality(Stored) \in Nat
<1>1. IsFiniteSet(Stored)
  BY Ranges, FS_Subset DEF Stored
<1> QED
  BY <1>1, FS_CardinalityType

LEMMA ReconciledType ==
  ASSUME NEW items, NEW coverage, NEW observed
  PROVE  /\ Reconciled(items, coverage, observed) \subseteq open \cup observed
         /\ \A r \in open \ Reconciled(items, coverage, observed) :
              r \in items /\ r \notin observed /\ Covers(coverage, r)
BY DEF Reconciled

LEMMA PersistInv == ASSUME SelectionAssumption, Inv, PersistPage PROVE Inv'
<1> DEFINE mark == IF output.browser THEN "complete" ELSE "failed"
<1>1. PICK done \in BOOLEAN, ok \in BOOLEAN :
        /\ ok => done
        /\ IF done
             THEN /\ children' = [children EXCEPT ![page] = mark]
                  /\ open' = Reconciled(Route, PageCoverage(page, output),
                                        Observed(output))
             ELSE UNCHANGED <<children, open>>
        /\ Reply(ok, "progress")
  BY DEF PersistPage
<1>2. /\ pc = "persist" /\ page \in Pages /\ pc' \in {"progress", "abort"}
      /\ faults' \in 0 .. MaxFaults
      /\ pc' = "progress" => done
      /\ UNCHANGED <<parent, page, output, loop, cancelled>>
  BY <1>1, ReplyType DEF PersistPage, At, Inv, ChildInv, PC, Reply
<1>3. /\ children \in [Pages -> {"none", "complete", "failed"}]
      /\ mark \in {"complete", "failed"} /\ children[page] = "none"
      /\ \A p \in Pages : p >= page => children[p] = "none"
      /\ page \in Nat /\ Pages \subseteq Nat
  BY <1>2, Ranges DEF Inv, TypeOK, ChildInv, Ahead
<1> HIDE DEF mark
<1>4. /\ children' \in [Pages -> {"none", "complete", "failed"}]
      /\ \A p \in Pages : p # page => children'[p] = children[p]
      /\ done => children'[page] = mark
      /\ ~done => UNCHANGED children
  BY <1>1, <1>2, <1>3
<1>5. open' \subseteq Route \cup {NoRoute}
  <2>1. Observed(output) \subseteq Route /\ open \subseteq Route \cup {NoRoute}
    BY DEF Observed, Inv, TypeOK, Output
  <2> QED
    BY <1>1, <2>1, ReconciledType
<1>6. TypeOK'
  BY <1>2, <1>4, <1>5 DEF Inv, TypeOK, PC
<1>7. Stored' = IF done THEN Stored \cup {page} ELSE Stored
  BY <1>2, <1>3, <1>4 DEF Stored
<1>8. /\ Cardinality(Stored') = Cardinality(Stored) + (IF done THEN 1 ELSE 0)
      /\ Cardinality(Stored) \in Nat
  <2>1. page \notin Stored
    BY <1>3 DEF Stored
  <2> QED
    BY <1>7, <2>1, StoredFacts, FS_AddElement
<1>9. TallyInv'
  <2>1. /\ loop.persisted <= page - 1 /\ loop.signals <= loop.persisted
        /\ loop.persisted <= Cardinality(Stored) /\ loop.persisted \in Nat
        /\ parent.completed <= Cardinality(Stored) /\ parent.completed \in Nat
    BY <1>2 DEF Inv, TallyInv, TypeOK, Loop, Parent
  <2> QED
    BY <1>2, <1>8, <2>1 DEF TallyInv
<1>10. ChildInv'
  <2>1. \A p \in Pages : p > page => children'[p] = "none"
    BY <1>3, <1>4
  <2> QED
    BY <1>2, <1>4, <2>1 DEF ChildInv, Ahead, mark
<1>11. LoopInv'
  <2>1. \A p \in Pages : p < page => children'[p] = children[p]
    BY <1>3, <1>4
  <2> QED
    BY <1>2, <2>1 DEF Inv, LoopInv
<1>12. ParentInv'
  BY <1>2 DEF Inv, ParentInv, During
<1> QED
  BY <1>6, <1>9, <1>10, <1>11, <1>12 DEF Inv

LEMMA ProgressInv == ASSUME SelectionAssumption, Inv, Progress PROVE Inv'
<1>1. PICK done \in BOOLEAN, ok \in BOOLEAN :
         /\ ok => done
         /\ parent' = IF done /\ parent.status = "running"
                      THEN [parent EXCEPT !.completed = Completed] ELSE parent
         /\ Reply(ok, "poll")
         /\ IF ok THEN /\ loop' = [status |-> IF output.browser THEN loop.status
                                              ELSE Partially(loop.status),
                                   persisted |-> loop.persisted + 1,
                                   signals |-> loop.signals + IF output.signal THEN 1 ELSE 0]
                       /\ page' = page + 1
                  ELSE UNCHANGED <<loop, page>>
  BY DEF Progress
<1>2. /\ pc = "progress" /\ page \in Pages /\ page \in Nat /\ Pages \subseteq Nat
      /\ pc' \in {"poll", "abort"} /\ (pc' = "poll" => ok) /\ (pc' = "abort" => ~ok)
      /\ faults' \in 0 .. MaxFaults /\ output' = NoOutput
      /\ UNCHANGED <<open, children, cancelled>>
  BY <1>1, ReplyType, Ranges DEF Progress, At, Inv, ChildInv, PC, Reply
<1>3. /\ loop \in Loop /\ parent \in Parent /\ parent.status = "running"
      /\ page <= Selected /\ Selected \in Nat
      /\ loop.persisted \in Nat /\ loop.signals \in Nat
      /\ loop.persisted <= page - 1 /\ loop.signals <= loop.persisted
      /\ loop.persisted + 1 <= Cardinality(Stored) /\ Cardinality(Stored) \in Nat
      /\ parent.completed <= Cardinality(Stored) /\ parent.completed \in Nat
  BY <1>2, StoredFacts
  DEF Inv, TypeOK, TallyInv, ParentInv, During, Pages, Loop, Parent,
      SelectionAssumption
<1> DEFINE more == IF output.signal THEN 1 ELSE 0
<1>12. more \in {0, 1}
  OBVIOUS
<1> HIDE DEF more
<1>4. /\ loop.persisted + 1 \in 0 .. Selected
      /\ loop.signals + more \in 0 .. Selected
  <2>1. /\ loop.persisted + 1 <= Selected /\ loop.signals + 1 <= Selected
        /\ loop.signals \in Nat /\ loop.persisted \in Nat
    BY <1>2, <1>3
  <2>2. more = 0 \/ more = 1
    BY <1>12
  <2> QED
    BY <1>3, <2>1, <2>2
<1>5. /\ loop' \in Loop
      /\ loop'.status = "Complete" => loop.status = "Complete"
      /\ ok => /\ loop'.persisted = loop.persisted + 1
               /\ loop'.signals = loop.signals + more
               /\ loop'.status = "Complete" => output.browser
  BY <1>1, <1>3, <1>4 DEF Loop, LoopStatus, Partially, more
<1>6. /\ parent' \in Parent /\ parent'.status = parent.status
      /\ parent'.scored = parent.scored
      /\ parent'.completed \in {parent.completed, loop.persisted + 1}
  BY <1>1, <1>3, <1>4 DEF Parent, Completed
<1>7. TypeOK'
  <2>1. page' \in 1 .. Selected + 1
    BY <1>1, <1>2, <1>3 DEF Pages
  <2> QED
    BY <1>2, <1>5, <1>6, <2>1, Ranges DEF Inv, TypeOK, PC
<1>8. TallyInv'
  <2>1. Stored' = Stored
    BY <1>2, SameStored
  <2>2. loop'.persisted <= page' - 1 /\ loop'.signals <= loop'.persisted
        /\ loop'.persisted <= Cardinality(Stored)
    <3>1. CASE ok
      BY <1>1, <1>2, <1>3, <1>5, <1>12, <3>1
    <3>2. CASE ~ok
      BY <1>1, <1>2, <1>3, <3>2
    <3> QED
      BY <3>1, <3>2
  <2>3. parent'.completed <= Cardinality(Stored) /\ loop'.persisted \in Nat
    BY <1>3, <1>5, <1>6 DEF Loop
  <2> QED
    BY <1>2, <1>3, <2>1, <2>2, <2>3 DEF TallyInv
<1>9. ChildInv'
  <2>1. \A p \in Pages : p > page => children[p] = "none"
    BY <1>2 DEF Inv, ChildInv
  <2>2. ok => \A p \in Pages : p >= page' => p > page
    BY <1>1, <1>2
  <2> QED
    BY <1>2, <2>1, <2>2 DEF ChildInv, Ahead
<1>10. LoopInv'
  <2>1. ASSUME loop'.status = "Complete"
        PROVE  /\ \A p \in Pages : p < page' => children'[p] = "complete"
               /\ loop'.persisted = page' - 1
    <3>1. /\ \A p \in Pages : p < page => children[p] = "complete"
          /\ loop.persisted = page - 1
      BY <1>5, <2>1 DEF Inv, LoopInv
    <3>2. CASE ok
      <4>1. children[page] = "complete"
        BY <1>2, <1>5, <2>1, <3>2 DEF Inv, ChildInv
      <4>2. \A p \in Pages : p < page + 1 => p < page \/ p = page
        BY <1>2
      <4>3. page + 1 - 1 = page - 1 + 1
        BY <1>2
      <4> QED
        BY <1>1, <1>2, <1>5, <3>1, <3>2, <4>1, <4>2, <4>3
    <3>3. CASE ~ok
      BY <1>1, <1>2, <3>1, <3>3
    <3> QED
      BY <3>2, <3>3
  <2> QED
    BY <1>2, <2>1 DEF LoopInv
<1>11. ParentInv'
  BY <1>2, <1>3, <1>6 DEF Inv, ParentInv
<1> QED
  BY <1>7, <1>8, <1>9, <1>10, <1>11 DEF Inv

\* What the end of the loop says of the pages.
LEMMA CompleteLoop ==
  ASSUME SelectionAssumption, Inv, pc = "ended", loop.status = "Complete"
  PROVE  AllComplete
<1>1. page = Selected + 1 /\ \A p \in Pages : p < page => children[p] = "complete"
  BY DEF Inv, LoopInv
<1>2. \A p \in Pages : p < Selected + 1
  BY DEF Pages, SelectionAssumption
<1> QED
  BY <1>1, <1>2 DEF AllComplete

LEMMA CompleteInv == ASSUME SelectionAssumption, Inv, CompleteParent PROVE Inv'
<1>1. PICK done \in BOOLEAN, ok \in BOOLEAN,
           verdict \in IF Analyzed THEN Verdict ELSE {"notRun"} :
         /\ ok => done
         /\ IF done
              THEN /\ parent' = [status |-> ParentStatus, completed |-> loop.persisted,
                                 scored |-> loop.status = "Complete" /\ loop.persisted > 0]
                   /\ open' = Reconciled({NoRoute}, ParentCoverage(Analyzed, verdict),
                                         IF verdict = "fail" THEN {NoRoute} ELSE {})
              ELSE UNCHANGED <<parent, open>>
         /\ Reply(ok, "counts")
  BY DEF CompleteParent
<1>2. /\ pc = "ended" /\ pc' \in {"counts", "abort"} /\ faults' \in 0 .. MaxFaults
      /\ UNCHANGED <<children, page, output, loop, cancelled>>
      /\ loop \in Loop /\ parent \in Parent /\ open \subseteq Route \cup {NoRoute}
  BY <1>1, ReplyType DEF CompleteParent, At, Inv, PC, TypeOK
<1>3. open' \subseteq Route \cup {NoRoute}
  BY <1>1, <1>2, ReconciledType
<1>4. /\ ParentStatus \in RunStatus
      /\ ParentStatus = "complete" <=> loop.status = "Complete"
  BY <1>2 DEF ParentStatus, RunStatus, Loop, LoopStatus
<1>5. /\ parent' \in Parent
      /\ parent'.completed \in {parent.completed, loop.persisted}
      /\ \/ parent' = parent
         \/ /\ parent'.status = "complete" <=> loop.status = "Complete"
            /\ parent'.scored => loop.status = "Complete"
  <2>1. CASE done
    <3> DEFINE scored == loop.status = "Complete" /\ loop.persisted > 0
    <3>1. scored \in BOOLEAN /\ loop.persisted \in 0 .. Selected
      BY <1>2 DEF Loop
    <3>2. parent' = [status |-> ParentStatus, completed |-> loop.persisted,
                     scored |-> scored]
      BY <1>1, <2>1
    <3>3. scored => loop.status = "Complete"
      OBVIOUS
    <3> HIDE DEF scored
    <3>4. parent' \in Parent
      BY <1>4, <3>1, <3>2 DEF Parent
    <3> QED
      BY <1>4, <3>2, <3>3, <3>4
  <2>2. CASE ~done
    BY <1>1, <1>2, <2>2
  <2> QED
    BY <2>1, <2>2
<1>6. TypeOK'
  BY <1>2, <1>3, <1>5 DEF Inv, TypeOK, PC
<1>7. TallyInv'
  <2>1. Stored' = Stored
    BY <1>2, SameStored
  <2>2. /\ loop.persisted <= Cardinality(Stored)
        /\ parent.completed <= Cardinality(Stored)
        /\ loop.persisted \in Nat /\ Cardinality(Stored) \in Nat
    BY <1>2, StoredFacts DEF Inv, TallyInv, Loop
  <2>3. parent'.completed <= Cardinality(Stored)
    BY <1>5, <2>2
  <2> QED
    BY <1>2, <2>1, <2>2, <2>3 DEF Inv, TallyInv
<1>8. ParentInv'
  <2>1. loop.status = "Complete" => AllComplete
    BY <1>2, CompleteLoop
  <2> QED
    BY <1>2, <1>5, <2>1 DEF Inv, ParentInv, AllComplete, During
<1> QED
  BY <1>2, <1>6, <1>7, <1>8 DEF Inv, ChildInv, LoopInv, Ahead

LEMMA NextInv == ASSUME SelectionAssumption, Inv, [Next]_vars PROVE Inv'
<1>1. CASE UNCHANGED vars
  BY <1>1, SameStored
  DEF vars, tables, Inv, TypeOK, ChildInv, TallyInv, LoopInv, ParentInv, AllComplete
<1>2. CASE Next
  BY <1>2, StartInv, SnapshotInv, PollInv, ScannedInv, ErrsInv, CancelledInv,
     PersistInv, ProgressInv, EndsInv, CompleteInv, CountsInv, AbortInv,
     CancelInv DEF Next, Step
<1> QED
  BY <1>1, <1>2

LEMMA Invariance == ASSUME SelectionAssumption PROVE Spec => []Inv
BY InitInv, NextInv, PTL DEF Spec

-----------------------------------------------------------------------------
(* The theorems.                                                           *)

\* The tables of a session and the handler's locals keep their types: the
\* counts never go beyond the pages selected.
THEOREM SessionTypes ==
  ASSUME SelectionAssumption PROVE Spec => []TypeOK
<1>1. Inv => TypeOK
  BY DEF Inv
<1> QED
  BY <1>1, Invariance, PTL

\* A session that complete_multi_page_scan_run shows as complete has a complete
\* run of every page, only such a one has a score, and the progress that is
\* reported never counts a run that is not there.
THEOREM ParentBacked ==
  ASSUME SelectionAssumption PROVE Spec => []ParentIsBacked
<1>1. Inv => ParentIsBacked
  BY DEF Inv, ParentInv, TallyInv, ParentIsBacked, Stored
<1> QED
  BY <1>1, Invariance, PTL

\* reconcile_scan_projection resolves nothing but what the coverage of the page
\* or of the session proves: the item of a page by a run of the check on its
\* route or the one it led to, that of the set by a session that is whole.
THEOREM ResolvedSeenAbsent ==
  ASSUME SelectionAssumption PROVE Spec => ResolvedWasSeenAbsent
<1> DEFINE Seen ==
       /\ \A r \in Route \cap (open \ open') :
             /\ At("persist") /\ output.browser /\ output.verdict \in {"pass", "fail"}
             /\ output.verdict = "fail" => r # output.lands
             /\ r \in {page, output.lands}
       /\ NoRoute \in open \ open' => AllComplete /\ parent'.status = "complete"
<1>1. ASSUME Inv, PersistPage PROVE Seen
  <2>1. /\ pc = "persist" /\ output.verdict \in Verdict /\ NoRoute \notin Route
        /\ page \in Pages /\ output.lands \in Route
    BY <1>1, Ranges DEF PersistPage, At, Inv, TypeOK, Output, ChildInv
  <2>2. ASSUME NEW r \in open \ open'
        PROVE  /\ r \in Route /\ r \notin Observed(output)
               /\ Covers(PageCoverage(page, output), r)
    BY <1>1, <2>2, ReconciledType DEF PersistPage
  <2>3. ASSUME NEW r \in Route, Covers(PageCoverage(page, output), r)
        PROVE  /\ output.browser /\ output.verdict \in {"pass", "fail"}
               /\ r \in {page, output.lands}
    <3> DEFINE outcomes == OnRoutes(page, output)
               coverage == PageCoverage(page, output)
    <3>1. /\ coverage.successful = output.browser
          /\ coverage.claims = (outcomes # {})
          /\ coverage.routes = {page, output.lands}
          /\ coverage.excepted =
               {o.route : o \in {x \in outcomes : x.verdict = "skipped"}}
      BY DEF PageCoverage, Derive
    <3>2. output.browser /\ outcomes # {} /\ r \in {page, output.lands}
          /\ r \notin coverage.excepted
      BY <2>1, <2>3, <3>1 DEF Covers
    <3>3. output.verdict # "notRun"
      BY <3>2 DEF OnRoutes
    <3>4. output.verdict # "skipped"
      <4>1. SUFFICES ASSUME output.verdict = "skipped" PROVE r \in coverage.excepted
        BY <3>2
      <4>2. [route |-> r, verdict |-> "skipped"] \in outcomes
        BY <3>2, <3>3, <4>1 DEF OnRoutes
      <4> QED
        BY <3>1, <4>2
    <3> QED
      BY <2>1, <3>2, <3>3, <3>4 DEF Verdict
  <2> QED
    BY <2>1, <2>2, <2>3 DEF At, Observed
<1>2. ASSUME Inv, CompleteParent PROVE Seen
  <2>1. PICK verdict :
         \/ UNCHANGED open
         \/ /\ parent'.status = ParentStatus
            /\ open' = Reconciled({NoRoute}, ParentCoverage(Analyzed, verdict),
                                  IF verdict = "fail" THEN {NoRoute} ELSE {})
    BY <1>2 DEF CompleteParent
  <2>2. ASSUME NEW r \in open \ open'
        PROVE  /\ r = NoRoute /\ Covers(ParentCoverage(Analyzed, verdict), r)
               /\ parent'.status = ParentStatus
    BY <2>1, <2>2, ReconciledType
  <2>3. ParentCoverage(Analyzed, verdict).successful
          = (Analyzed /\ loop.status = "Complete")
    BY DEF ParentCoverage, Derive
  <2>4. ASSUME NEW r \in open \ open'
        PROVE  AllComplete /\ parent'.status = "complete"
    <3>1. loop.status = "Complete"
      BY <2>2, <2>3, <2>4 DEF Covers
    <3> QED
      BY <1>2, <2>2, <2>4, <3>1, CompleteLoop
      DEF CompleteParent, At, ParentStatus
  <2> QED
    BY <2>2, <2>4, Ranges
<1>3. ASSUME UNCHANGED open PROVE Seen
  BY <1>3
<1>4. Inv /\ [Next]_vars => [Seen]_vars
  <2>1. Inv /\ Next => Seen
    BY <1>1, <1>2, <1>3
    DEF Next, Step, Start, Snapshot, Poll, PageScanned, PageErrs, PageCancelled,
        Progress, LoopEnds, Counts, Abort, Cancel, tables
  <2> QED
    BY <2>1
<1>5. [][Seen]_vars <=> ResolvedWasSeenAbsent
  BY DEF ResolvedWasSeenAbsent
<1> HIDE DEF Seen
<1> QED
  BY <1>4, <1>5, Invariance, PTL DEF Spec

-----------------------------------------------------------------------------
(* How a session ends.  ParentSettles promises that it does, which needs     *)
(* fairness; what it needs besides, and what a step must never do, is proved *)
(* here: a step brings the end nearer, a settled session stays as it is, and *)
(* the end leaves none running but by two failures or a start whose answer   *)
(* was lost.                                                                 *)

\* Where the handler is says how the session stands.
EndInv ==
    /\ parent.status \in Final => pc \in {"counts", "abort", "over"}
    /\ pc = "counts" => parent.status \in Final
    /\ pc = "abort" => parent.status \in Final \/ (parent.status = "running" /\ faults >= 1)
    /\ pc = "over" => parent.status \in Final \/ faults >= 2
    /\ pc = "noSession" => /\ parent.status \in {"none", "running"} /\ faults >= 1
                           /\ \A p \in Pages : children[p] = "none"

\* How many steps are left at the most: four to a page, and the last ones.
StepsLeft ==
    LET onPages == 4 * (Selected + 1 - page)
    IN  CASE pc = "start" -> onPages + 6
          [] pc = "snapshot" -> onPages + 5
          [] pc = "poll" -> onPages + 4
          [] pc = "scan" -> onPages + 3
          [] pc = "persist" -> onPages + 2
          [] pc = "progress" -> onPages + 1
          [] pc = "ended" -> 3
          [] pc = "counts" -> 2
          [] pc = "abort" -> 1
          [] OTHER -> 0

\* An operation is answered, or there is a failure and the handler aborts.
LEMMA EndOfReply ==
  ASSUME SelectionAssumption, TypeOK, NEW ok \in BOOLEAN, NEW next \in PC,
         Reply(ok, next)
  PROVE  /\ faults' >= faults /\ faults \in Nat /\ faults' \in Nat
         /\ pc' = next \/ (pc' = "abort" /\ faults' >= 1)
BY DEF Reply, Fault, NoFault, TypeOK, SelectionAssumption

LEMMA InitEnd == ASSUME Init PROVE EndInv
BY DEF Init, EndInv, Final

LEMMA StepEnd == ASSUME SelectionAssumption, Inv, EndInv, Step PROVE EndInv'
<1> faults \in Nat
  BY DEF Inv, TypeOK, SelectionAssumption
<1>1. CASE Start
  <2>1. parent.status = "none" /\ parent \in Parent
    BY <1>1 DEF Start, At, Inv, ParentInv, TypeOK
  <2>2. \/ pc' = "snapshot" /\ parent'.status = "running"
        \/ /\ pc' = "noSession" /\ parent'.status \in {"none", "running"}
           /\ faults' = faults + 1
    BY <1>1, <2>1 DEF Start, NoFault, Fault, Parent
  <2>3. \A p \in Pages : children'[p] = "none"
    BY <1>1 DEF Start, At, Inv, ChildInv, Ahead, Pages
  <2> QED
    BY <2>2, <2>3 DEF EndInv, Final
<1>2. CASE Snapshot
  <2>1. parent' = parent /\ parent.status = "running"
    BY <1>2 DEF Snapshot, At, tables, Inv, ParentInv
  <2>2. pc' = "poll" \/ (pc' = "abort" /\ faults' >= 1)
    BY <1>2, EndOfReply DEF Snapshot, Inv, PC
  <2> QED
    BY <2>1, <2>2 DEF EndInv, Final
<1>3. CASE Poll \/ PageScanned \/ PageErrs \/ PageCancelled \/ LoopEnds
  <2>1. /\ parent' = parent /\ parent.status = "running"
        /\ pc' \in {"ended", "scan", "persist", "poll"}
    BY <1>3
    DEF Poll, PageScanned, PageErrs, PageCancelled, LoopEnds, At, tables, Inv,
        ParentInv, During
  <2> QED
    BY <2>1 DEF EndInv, Final
<1>4. CASE PersistPage
  <2>1. parent' = parent /\ parent.status = "running"
    BY <1>4 DEF PersistPage, At, Inv, ParentInv, During
  <2>2. pc' = "progress" \/ (pc' = "abort" /\ faults' >= 1)
    BY <1>4, EndOfReply DEF PersistPage, Inv, PC
  <2> QED
    BY <2>1, <2>2 DEF EndInv, Final
<1>5. CASE Progress
  <2>1. parent.status = "running" /\ parent \in Parent
    BY <1>5 DEF Progress, At, Inv, ParentInv, During, TypeOK
  <2>2. parent'.status = "running"
    BY <1>5, <2>1 DEF Progress, Parent
  <2>3. pc' = "poll" \/ (pc' = "abort" /\ faults' >= 1)
    BY <1>5, EndOfReply DEF Progress, Inv, PC
  <2> QED
    BY <2>2, <2>3 DEF EndInv, Final
<1>6. CASE CompleteParent
  <2>1. PICK done \in BOOLEAN, ok \in BOOLEAN :
          /\ ok => done
          /\ done => parent'.status = ParentStatus
          /\ ~done => UNCHANGED parent
          /\ Reply(ok, "counts")
    BY <1>6 DEF CompleteParent
  <2>2. ParentStatus \in Final /\ parent.status = "running"
    BY <1>6 DEF ParentStatus, Final, CompleteParent, At, Inv, ParentInv
  <2>3. (pc' = "counts" /\ ok) \/ (pc' = "abort" /\ faults' >= 1)
    BY <2>1, EndOfReply DEF Inv, PC, Reply
  <2> QED
    BY <2>1, <2>2, <2>3 DEF EndInv
<1>7. CASE Counts
  <2>1. parent' = parent /\ parent.status \in Final
    BY <1>7 DEF Counts, At, tables, EndInv
  <2>2. pc' \in {"abort", "over"}
    BY <1>7 DEF Counts, Reply
  <2> QED
    BY <2>1, <2>2 DEF EndInv, Final
<1>8. CASE Abort
  <2>1. /\ pc = "abort" /\ pc' = "over" /\ parent \in Parent
        /\ parent' = FailRun(parent) \/ faults' = faults + 1
    BY <1>8 DEF Abort, At, NoFault, Fault, Inv, TypeOK
  <2>2. FailRun(parent).status \in Final
    BY <1>8, <2>1 DEF EndInv, FailRun, Parent, Final
  <2>3. parent' \in {parent, FailRun(parent)}
    BY <1>8 DEF Abort
  <2>4. parent.status \in Final => parent' = parent
    BY <2>3 DEF FailRun, Final
  <2> QED
    BY <2>1, <2>2, <2>3, <2>4 DEF EndInv, Final
<1> QED
  BY <1>1, <1>2, <1>3, <1>4, <1>5, <1>6, <1>7, <1>8 DEF Step

LEMMA NextEnd ==
  ASSUME SelectionAssumption, Inv, EndInv, [Next]_vars PROVE EndInv'
<1>1. CASE Step
  BY <1>1, StepEnd
<1>2. CASE Cancel
  BY <1>2 DEF Cancel, tables, EndInv
<1>3. CASE UNCHANGED vars
  BY <1>3 DEF vars, tables, EndInv
<1> QED
  BY <1>1, <1>2, <1>3 DEF Next

LEMMA EndInvariance ==
  ASSUME SelectionAssumption PROVE Spec => [](Inv /\ EndInv)
<1>1. Init => Inv /\ EndInv
  BY InitInv, InitEnd
<1>2. Inv /\ EndInv /\ [Next]_vars => (Inv /\ EndInv)'
  BY NextInv, NextEnd
<1> QED
  BY <1>1, <1>2, PTL DEF Spec

\* A session is settled once (the first half of ParentSettles): neither an
\* error after complete_multi_page_scan_run, whose answer was lost perhaps, nor
\* the fail_scan_run that answers it, nor a cancel, gives it another status.
THEOREM SettledOnce ==
  ASSUME SelectionAssumption
  PROVE  Spec => [][parent.status \in Final => parent'.status = parent.status]_vars
<1>1. ASSUME Inv, EndInv, Step, parent.status \in Final
      PROVE  parent'.status = parent.status
  <2>1. pc \in {"counts", "abort"}
    <3>1. pc \in {"counts", "abort", "over"}
      BY <1>1 DEF EndInv
    <3>2. pc # "over"
      BY <1>1
      DEF Step, Start, Snapshot, Poll, PageScanned, PageErrs, PageCancelled,
          PersistPage, Progress, LoopEnds, CompleteParent, Counts, Abort, At
    <3> QED
      BY <3>1, <3>2
  <2>2. Counts \/ Abort
    BY <1>1, <2>1
    DEF Step, Start, Snapshot, Poll, PageScanned, PageErrs, PageCancelled,
        PersistPage, Progress, LoopEnds, CompleteParent, At
  <2>3. CASE Counts
    BY <2>3 DEF Counts, tables
  <2>4. CASE Abort
    BY <1>1, <2>4 DEF Abort, FailRun, Final
  <2> QED
    BY <2>2, <2>3, <2>4
<1>2. ASSUME Cancel PROVE parent' = parent
  BY <1>2 DEF Cancel, tables
<1>3. Inv /\ EndInv /\ [Next]_vars
        => [parent.status \in Final => parent'.status = parent.status]_vars
  BY <1>1, <1>2 DEF Next
<1> QED
  BY <1>3, EndInvariance, PTL DEF Spec

\* What a handler that has returned may leave running (the bounds in
\* ParentSettles).  One that had its session: only when an operation failed and
\* the fail_scan_run that answers it failed too; otherwise the session is settled.
\* One that got no id: a session without any page, whose start was done although
\* its answer failed.
THEOREM LeftRunning ==
  ASSUME SelectionAssumption
  PROVE  Spec => [](/\ At("over") => parent.status \in Final \/ faults >= 2
                    /\ At("noSession") => /\ parent.status \in {"none", "running"}
                                          /\ faults >= 1
                                          /\ \A p \in Pages : children[p] = "none")
<1>1. EndInv => /\ At("over") => parent.status \in Final \/ faults >= 2
                /\ At("noSession") => /\ parent.status \in {"none", "running"}
                                      /\ faults >= 1
                                      /\ \A p \in Pages : children[p] = "none"
  BY DEF EndInv, At
<1> QED
  BY <1>1, EndInvariance, PTL

LEMMA StepsLeftType ==
  ASSUME SelectionAssumption, TypeOK
  PROVE  /\ StepsLeft \in Nat
         /\ StepsLeft <= 4 * Selected + 6
<1> DEFINE onPages == 4 * (Selected + 1 - page)
<1>1. onPages \in Nat /\ onPages <= 4 * Selected
  BY DEF TypeOK, SelectionAssumption
<1> HIDE DEF onPages
<1>2. pc \in PC /\ Selected \in Nat
  BY DEF TypeOK, SelectionAssumption
<1> QED
  BY <1>1, <1>2 DEF StepsLeft, PC, onPages

\* A session always comes to its end: every step of run_multi_page_scan uses
\* one of the at most 4 * Selected + 6 it has, also those that fail, and a
\* cancel adds none.
THEOREM SessionRunsOut ==
  ASSUME SelectionAssumption
  PROVE  /\ Spec => [](StepsLeft \in 0 .. 4 * Selected + 6)
         /\ Spec => [][IF Step THEN StepsLeft' < StepsLeft
                       ELSE StepsLeft' = StepsLeft]_vars
<1>1. Inv => StepsLeft \in 0 .. 4 * Selected + 6
  BY StepsLeftType DEF Inv, SelectionAssumption
<1>2. ASSUME Inv, Step PROVE StepsLeft' < StepsLeft
  <2> DEFINE onPages == 4 * (Selected + 1 - page)
  <2>1. /\ page \in Nat /\ page <= Selected + 1 /\ Selected \in Nat
        /\ onPages \in Nat
        /\ pc \in {"scan", "progress"} => page <= Selected
    BY <1>2 DEF Inv, TypeOK, ChildInv, Pages, SelectionAssumption
  <2>2. CASE Start
    <3>1. pc = "start" /\ pc' \in {"snapshot", "noSession"} /\ page' = page
      BY <2>2 DEF Start, At
    <3> QED
      BY <2>1, <3>1 DEF StepsLeft
  <2>3. CASE Snapshot
    <3>1. pc = "snapshot" /\ pc' \in {"poll", "abort"} /\ page' = page
      BY <2>3 DEF Snapshot, At, Reply
    <3> QED
      BY <2>1, <3>1 DEF StepsLeft
  <2>4. CASE Poll \/ LoopEnds
    <3>1. pc = "poll" /\ pc' \in {"scan", "ended"} /\ page' = page
      BY <2>4 DEF Poll, LoopEnds, At
    <3> QED
      BY <2>1, <3>1 DEF StepsLeft
  <2>5. CASE PageScanned \/ PageCancelled
    <3>1. pc = "scan" /\ pc' \in {"persist", "ended"} /\ page' = page
      BY <2>5 DEF PageScanned, PageCancelled, At
    <3> QED
      BY <2>1, <3>1 DEF StepsLeft
  <2>6. CASE PageErrs
    <3>1. pc = "scan" /\ pc' = "poll" /\ page' = page + 1
      BY <2>6 DEF PageErrs, At
    <3> QED
      BY <2>1, <3>1 DEF StepsLeft
  <2>7. CASE PersistPage
    <3>1. pc = "persist" /\ pc' \in {"progress", "abort"} /\ page' = page
      BY <2>7 DEF PersistPage, At, Reply
    <3> QED
      BY <2>1, <3>1 DEF StepsLeft
  <2>8. CASE Progress
    <3>1. /\ pc = "progress"
          /\ (pc' = "poll" /\ page' = page + 1) \/ (pc' = "abort" /\ page' = page)
      BY <2>8 DEF Progress, At, Reply
    <3> QED
      BY <2>1, <3>1 DEF StepsLeft
  <2>9. CASE CompleteParent
    <3>1. pc = "ended" /\ pc' \in {"counts", "abort"}
      BY <2>9 DEF CompleteParent, At, Reply
    <3> QED
      BY <2>1, <3>1 DEF StepsLeft
  <2>10. CASE Counts
    <3>1. pc = "counts" /\ pc' \in {"abort", "over"}
      BY <2>10 DEF Counts, At, Reply
    <3> QED
      BY <2>1, <3>1 DEF StepsLeft
  <2>11. CASE Abort
    <3>1. pc = "abort" /\ pc' = "over"
      BY <2>11 DEF Abort, At
    <3> QED
      BY <2>1, <3>1 DEF StepsLeft
  <2> QED
    BY <1>2, <2>2, <2>3, <2>4, <2>5, <2>6, <2>7, <2>8, <2>9, <2>10, <2>11
    DEF Step
<1>3. ASSUME Cancel PROVE StepsLeft' = StepsLeft
  BY <1>3 DEF Cancel, StepsLeft
<1> DEFINE Nearer == IF Step THEN StepsLeft' < StepsLeft
                     ELSE StepsLeft' = StepsLeft
<1>4. Inv /\ [Next]_vars => [Nearer]_vars
  BY <1>2, <1>3 DEF Next
<1> HIDE DEF Nearer
<1>5. Spec => [](StepsLeft \in 0 .. 4 * Selected + 6)
  BY <1>1, Invariance, PTL
<1>6. Spec => [][Nearer]_vars
  BY <1>4, Invariance, PTL DEF Spec
<1> QED
  BY <1>5, <1>6 DEF Nearer
=============================================================================
