-------------------------- MODULE MCServicesProofs --------------------------
(***************************************************************************)
(* The cancellation registry, for any attempts, cancels and ids, fresh or  *)
(* reused; and the parts that MCServices puts beside it, which keep their  *)
(* properties there, for any number of pages, routes, schedules, groups    *)
(* and failures.                                                           *)
(*                                                                         *)
(* The theorems on these parts are about a copy of each, the one its       *)
(* module of proofs extends; the copy and the part of MCServices are equal *)
(* once the definitions are expanded, which is all the long lists below    *)
(* do.                                                                     *)
(***************************************************************************)
EXTENDS MCServices, TLAPS

PagesThms == INSTANCE PageScanProofs WITH pc <- pagePc, cancelled <- scanCancelled,
                                           faults <- pageFaults
SchedulerThms == INSTANCE ScanSchedulerProofs
OutboxThms == INSTANCE ConnectedOutboxProofs

-----------------------------------------------------------------------------
(* The registry.                                                           *)

\* An attempt that has been dispatched and is not over.
Active(a) == pc[a] \in AttemptPC \ ({"idle"} \cup Over)

\* Two active attempts carry different ids, and running_request_ids holds the
\* ids of the attempts between their registration and the first step of
\* finish_request.
Registered ==
    /\ \A a, b \in Attempts : Active(a) /\ Active(b) /\ id[a] = id[b] => a = b
    /\ \A a \in Attempts : pc[a] # "idle" => id[a] \in Ids
    /\ \A r \in running : \E a \in Attempts :
         id[a] = r /\ pc[a] \in {"inserted", "consumed", "running"}
    /\ \A a \in Attempts :
         pc[a] \in {"inserted", "consumed", "running"} => id[a] \in running

\* Where the intent of a cancel is kept until its attempt polls it: parked in
\* the set, then in the local of begin_request, then recorded as cancelled.
Kept(c) ==
    LET a == target[c] IN
    /\ cpc[c] # "idle" => a \in Attempts /\ pc[a] # "idle"
    /\ cpc[c] # "returned" => until[c] = "idle"
    /\ cpc[c] = "idle" => since[c] = "idle"
    /\ cpc[c] = "checked" /\ pc[a] = "dispatched" => ~wasRunning[c]
    /\ cpc[c] = "checked" /\ since[c] = "running" => wasRunning[c]
    /\ since[c] = "running" =>
         pc[a] \in {"running", "leaving", "cleared", "done"}
    /\ until[c] = "dispatched" =>
         /\ pc[a] \in {"dispatched", "inserted"} => id[a] \in pending
         /\ pc[a] = "consumed" => parked[a]
    /\ (since[c] = "running" \/ until[c] = "dispatched") /\ Landed(c) =>
         (pc[a] = "running" => id[a] \in cancelled)

Inv == TypeOK /\ Registered /\ \A c \in Cancels : Kept(c)

\* The call c put the id r where it is, for an attempt that is still to be
\* cleared of it, or as a stray cancel.
Put(c, r) ==
    /\ cpc[c] = "returned" /\ until[c] # "idle"
    /\ target[c] \in Attempts /\ id[target[c]] = r
    /\ Stray(c) \/ Active(target[c])

\* Whatever the sets and the locals of begin_request hold was put there.  What
\* finish_request has cleared from the cancelled set is not there any more.
Backed ==
    /\ \A r \in pending : \E c \in Cancels : Put(c, r)
    /\ \A r \in cancelled : \E c \in Cancels :
         Put(c, r) /\ (Stray(c) \/ pc[target[c]] # "cleared")
    /\ \A a \in Attempts : parked[a] /\ pc[a] = "consumed" =>
         \E c \in Cancels : Put(c, id[a])

LEMMA InitInv == Init => Inv
BY ScanControlAssumption
DEF Init, Inv, TypeOK, Registered, Kept, Active, Landed, Live, Over, AttemptPC,
    CancelPC

-----------------------------------------------------------------------------
(* The three parts of Inv, one lemma each; one step per action.            *)

LEMMA TypeStep == Inv /\ [Next]_vars => TypeOK'
<1> SUFFICES ASSUME Inv, [Next]_vars PROVE TypeOK'
  OBVIOUS
<1> USE DEF Inv, TypeOK, AttemptPC, CancelPC, registry, attemptVars, cancelVars
<1>1. ASSUME NEW a \in Attempts, NEW r \in Ids, Dispatch(a, r) PROVE TypeOK'
  BY <1>1 DEF Dispatch
<1>2. ASSUME NEW a \in Attempts, AttemptStep(a) PROVE TypeOK'
  <2>0. pc[a] # "idle" => id[a] \in Ids
    BY DEF Registered
  <2>1. CASE Refuse(a) \/ FinishCancelled(a) \/ FinishPending(a)
    BY <2>1 DEF Refuse, FinishCancelled, FinishPending
  <2>2. CASE FinishRunning(a)
    BY <2>2 DEF FinishRunning
  <2>3. CASE BeginConsume(a)
    BY <2>3 DEF BeginConsume
  <2>4. CASE BeginInsert(a)
    BY <2>0, <2>4 DEF BeginInsert
  <2>5. CASE BeginSettle(a)
    BY <2>0, <2>5 DEF BeginSettle
  <2> QED
    BY <1>2, <2>1, <2>2, <2>3, <2>4, <2>5 DEF AttemptStep
<1>3. ASSUME NEW c \in Cancels, NEW a \in Attempts, CancelCheck(c, a)
      PROVE  TypeOK'
  BY <1>3 DEF CancelCheck
<1>4. ASSUME NEW c \in Cancels, CancelRecord(c) PROVE TypeOK'
  <2>1. target[c] \in Attempts /\ id[target[c]] \in Ids
    BY <1>4 DEF CancelRecord, Kept, Registered
  <2> QED
    BY <1>4, <2>1 DEF CancelRecord
<1>5. CASE UNCHANGED vars
  BY <1>5 DEF vars
<1> QED
  BY <1>1, <1>2, <1>3, <1>4, <1>5 DEF Next

LEMMA RegisteredStep == Inv /\ [Next]_vars => Registered'
<1> SUFFICES ASSUME Inv, [Next]_vars PROVE Registered'
  OBVIOUS
<1> USE DEF Inv, TypeOK, Registered, Active, AttemptPC, Over, registry,
            attemptVars, cancelVars
<1>1. ASSUME NEW a \in Attempts, NEW r \in Ids, Dispatch(a, r)
      PROVE  Registered'
  BY <1>1, ScanControlAssumption DEF Dispatch, Available
<1>2. ASSUME NEW a \in Attempts, AttemptStep(a) PROVE Registered'
  <2>1. CASE Refuse(a)
    BY <2>1 DEF Refuse
  <2>2. CASE BeginInsert(a)
    BY <2>2 DEF BeginInsert
  <2>3. CASE BeginConsume(a)
    BY <2>3 DEF BeginConsume
  <2>4. CASE BeginSettle(a)
    BY <2>4 DEF BeginSettle
  <2>5. CASE FinishRunning(a)
    BY <2>5 DEF FinishRunning
  <2>6. CASE FinishCancelled(a)
    BY <2>6 DEF FinishCancelled
  <2>7. CASE FinishPending(a)
    BY <2>7 DEF FinishPending
  <2> QED
    BY <1>2, <2>1, <2>2, <2>3, <2>4, <2>5, <2>6, <2>7 DEF AttemptStep
<1>3. ASSUME NEW c \in Cancels, NEW a \in Attempts, CancelCheck(c, a)
      PROVE  Registered'
  BY <1>3 DEF CancelCheck
<1>4. ASSUME NEW c \in Cancels, CancelRecord(c) PROVE Registered'
  BY <1>4 DEF CancelRecord
<1>5. CASE UNCHANGED vars
  BY <1>5 DEF vars
<1> QED
  BY <1>1, <1>2, <1>3, <1>4, <1>5 DEF Next

LEMMA KeptStep == Inv /\ [Next]_vars => \A c \in Cancels : Kept(c)'
<1> SUFFICES ASSUME Inv, [Next]_vars, NEW c \in Cancels PROVE Kept(c)'
  OBVIOUS
<1> DEFINE t == target[c]
<1> USE DEF Inv, TypeOK, AttemptPC, CancelPC, Over, Live, Landed, registry,
            attemptVars, cancelVars
<1>0. Kept(c)
  OBVIOUS
<1>1. ASSUME NEW a \in Attempts, NEW r \in Ids, Dispatch(a, r) PROVE Kept(c)'
  BY <1>0, <1>1 DEF Dispatch, Kept
<1>2. ASSUME NEW a \in Attempts, AttemptStep(a) PROVE Kept(c)'
  \* The step of another attempt does not touch the id of this one.
  <2>0. ASSUME cpc[c] # "idle", Active(t), Active(a), a # t
        PROVE  id[a] # id[t]
    BY <1>0, <2>0 DEF Registered, Kept
  <2>1. CASE Refuse(a)
    BY <1>0, <2>1 DEF Refuse, Kept
  <2>2. CASE BeginInsert(a)
    BY <1>0, <2>2 DEF BeginInsert, Kept
  <2>3. CASE BeginConsume(a)
    <3>1. pc[t] \in {"dispatched", "inserted"} /\ cpc[c] # "idle" => Active(t)
      BY DEF Active
    <3>2. Active(a)
      BY <2>3 DEF BeginConsume, Active
    <3>3. /\ \A b \in Attempts : pc'[b] = IF b = a THEN "consumed" ELSE pc[b]
          /\ \A b \in Attempts :
                parked'[b] = IF b = a THEN id[a] \in pending ELSE parked[b]
          /\ pc[a] = "inserted" /\ pending' = pending \ {id[a]}
          /\ UNCHANGED <<running, cancelled, id, cancelVars>>
      BY <2>3 DEF BeginConsume
    <3> QED
      <4>1. CASE t = a
        BY <1>0, <3>3, <4>1 DEF Kept
      <4>2. CASE t # a
        \* What is parked for the target stays parked.
        <5>1. cpc[c] # "idle" /\ pc[t] \in {"dispatched", "inserted"} =>
                (id[t] \in pending => id[t] \in pending')
          BY <2>0, <3>1, <3>2, <3>3, <4>2
        <5>2. t \in Attempts => pc'[t] = pc[t] /\ parked'[t] = parked[t]
          BY <3>3, <4>2
        <5>3. until[c] = "dispatched" => cpc[c] # "idle"
          BY <1>0 DEF Kept
        <5> HIDE DEF t
        <5> QED
          BY <1>0, <3>3, <5>1, <5>2, <5>3 DEF Kept, t
      <4> QED
        BY <4>1, <4>2
  <2>4. CASE BeginSettle(a)
    BY <1>0, <2>0, <2>4 DEF BeginSettle, Kept, Active
  <2>5. CASE FinishRunning(a)
    BY <1>0, <2>5 DEF FinishRunning, Kept
  <2>6. CASE FinishCancelled(a)
    BY <1>0, <2>0, <2>6 DEF FinishCancelled, Kept, Active
  <2>7. CASE FinishPending(a)
    BY <1>0, <2>0, <2>7 DEF FinishPending, Kept, Active
  <2> QED
    BY <1>2, <2>1, <2>2, <2>3, <2>4, <2>5, <2>6, <2>7 DEF AttemptStep
<1>3. ASSUME NEW d \in Cancels, NEW a \in Attempts, CancelCheck(d, a)
      PROVE  Kept(c)'
  <2>1. pc[a] = "dispatched" => id[a] \notin running
    BY DEF Registered, Active
  <2>2. pc[a] = "running" => id[a] \in running
    BY DEF Registered
  <2> QED
    <3>1. CASE c = d
      <4>1. /\ target'[c] = a /\ since'[c] = pc[a] /\ cpc'[c] = "checked"
            /\ wasRunning'[c] = (id[a] \in running) /\ until'[c] = until[c]
            /\ UNCHANGED <<pc, id, parked, running, pending, cancelled>>
            /\ cpc[c] = "idle" /\ pc[a] # "idle"
        BY <1>3, <3>1 DEF CancelCheck
      <4>2. until[c] = "idle"
        BY <1>0, <4>1 DEF Kept
      <4> QED
        BY <1>3, <2>1, <2>2, <4>1, <4>2 DEF Kept
    <3>2. CASE c # d
      <4>1. /\ target'[c] = target[c] /\ since'[c] = since[c]
            /\ cpc'[c] = cpc[c] /\ until'[c] = until[c]
            /\ wasRunning'[c] = wasRunning[c]
            /\ UNCHANGED <<pc, id, parked, running, pending, cancelled>>
        BY <1>3, <3>2 DEF CancelCheck
      <4> QED
        BY ONLY <1>0, <4>1, Zenon DEF Kept, Landed
    <3> QED
      BY <3>1, <3>2
<1>4. ASSUME NEW d \in Cancels, CancelRecord(d) PROVE Kept(c)'
  BY <1>0, <1>4 DEF CancelRecord, Kept
<1>5. CASE UNCHANGED vars
  BY <1>0, <1>5 DEF vars, Kept
<1> QED
  BY <1>1, <1>2, <1>3, <1>4, <1>5 DEF Next

\* What a call put somewhere it has put there for good, until finish_request
\* takes the id out of the pending set.
LEMMA PutStays ==
  ASSUME Inv, [Next]_vars, NEW c \in Cancels, NEW r, Put(c, r)
  PROVE  /\ Stray(c) => (Put(c, r) /\ Stray(c))'
         /\ ~FinishPending(target[c]) => Put(c, r)'
         /\ ~FinishCancelled(target[c]) /\ pc[target[c]] # "cleared" =>
              (Put(c, r) /\ pc[target[c]] # "cleared")'
<1> DEFINE t == target[c]
<1> USE DEF Inv, TypeOK, AttemptPC, CancelPC, Over, Put, Stray, Active, registry,
            attemptVars, cancelVars
<1>0. /\ cpc[c] = "returned" /\ t \in Attempts /\ pc[t] # "idle" /\ id[t] = r
      /\ until[c] # "idle"
  BY DEF Kept
<1>1. ASSUME NEW a \in Attempts, NEW q \in Ids, Dispatch(a, q)
      PROVE  /\ UNCHANGED <<cpc, target, until>> /\ pc'[t] = pc[t] /\ id'[t] = id[t]
  BY <1>0, <1>1 DEF Dispatch
<1>2. ASSUME NEW a \in Attempts, AttemptStep(a), a # t
      PROVE  /\ UNCHANGED <<cpc, target, until>> /\ pc'[t] = pc[t] /\ id'[t] = id[t]
  BY <1>0, <1>2 DEF AttemptStep, Refuse, BeginInsert, BeginConsume, BeginSettle,
                    FinishRunning, FinishCancelled, FinishPending
<1>3. ASSUME NEW d \in Cancels, NEW a \in Attempts, CancelCheck(d, a)
      PROVE  /\ cpc'[c] = cpc[c] /\ target'[c] = target[c] /\ until'[c] = until[c]
             /\ UNCHANGED <<pc, id>>
  BY <1>0, <1>3 DEF CancelCheck
<1>4. ASSUME NEW d \in Cancels, CancelRecord(d)
      PROVE  /\ cpc'[c] = cpc[c] /\ target'[c] = target[c] /\ until'[c] = until[c]
             /\ UNCHANGED <<pc, id>>
  BY <1>0, <1>4 DEF CancelRecord
<1>5. CASE AttemptStep(t)
  <2>1. UNCHANGED <<cpc, target, until, id>>
    BY <1>5 DEF AttemptStep, Refuse, BeginInsert, BeginConsume, BeginSettle,
                FinishRunning, FinishCancelled, FinishPending
  <2>2. CASE Refuse(t)
    BY <1>0, <2>1, <2>2 DEF Refuse
  <2>3. CASE BeginInsert(t) \/ BeginConsume(t) \/ BeginSettle(t) \/ FinishRunning(t)
    BY <1>0, <2>1, <2>3 DEF BeginInsert, BeginConsume, BeginSettle, FinishRunning
  <2>4. CASE FinishCancelled(t)
    BY <1>0, <2>1, <2>4 DEF FinishCancelled
  <2>5. CASE FinishPending(t)
    BY <1>0, <2>1, <2>5 DEF FinishPending
  <2> QED
    BY <1>5, <2>2, <2>3, <2>4, <2>5 DEF AttemptStep
<1>6. CASE UNCHANGED vars
  BY <1>0, <1>6 DEF vars
<1> QED
  BY <1>0, <1>1, <1>2, <1>3, <1>4, <1>5, <1>6 DEF Next

LEMMA BackedStep == Inv /\ Backed /\ [Next]_vars => Backed'
<1> SUFFICES ASSUME Inv, Backed, [Next]_vars PROVE Backed'
  OBVIOUS
<1> USE DEF registry, attemptVars, cancelVars
\* What was there and stays is backed as it was ...
<1>1. ASSUME NEW r \in pending, r \in pending'
      PROVE  (\E c \in Cancels : Put(c, r))'
  <2>1. PICK c \in Cancels : Put(c, r)
    BY DEF Backed
  <2>2. ~FinishPending(target[c])
    BY <1>1, <2>1 DEF FinishPending, Put
  <2> QED
    BY <2>1, <2>2, PutStays
<1>2. ASSUME NEW r \in cancelled, r \in cancelled'
      PROVE  (\E c \in Cancels : Put(c, r) /\ (Stray(c) \/ pc[target[c]] # "cleared"))'
  <2>1. PICK c \in Cancels : Put(c, r) /\ (Stray(c) \/ pc[target[c]] # "cleared")
    BY DEF Backed
  <2>2. ~FinishCancelled(target[c])
    BY <1>2, <2>1 DEF FinishCancelled, Put
  <2> QED
    BY <2>1, <2>2, PutStays
<1>3. ASSUME NEW a \in Attempts, parked[a], pc[a] = "consumed", pc'[a] = "consumed"
      PROVE  (\E c \in Cancels : Put(c, id[a]))'
  <2>1. PICK c \in Cancels : Put(c, id[a])
    BY <1>3 DEF Backed
  <2>2. ~FinishPending(target[c])
    BY <1>3, <2>1 DEF FinishPending, Put, Active, Inv, Registered, AttemptPC, Over
  <2>3. id'[a] = id[a]
    BY <1>3 DEF Next, AttemptStep, Dispatch, Refuse, BeginInsert, BeginConsume,
       BeginSettle, FinishRunning, FinishCancelled, FinishPending, CancelCheck,
       CancelRecord, vars, Inv, TypeOK
  <2> QED
    BY <2>1, <2>2, <2>3, PutStays
\* ... and what is new is backed by the call, or by what it was made of.
<1>4. ASSUME NEW d \in Cancels, CancelRecord(d) PROVE Backed'
  <2> DEFINE t == target[d]
  <2>1. /\ t \in Attempts /\ pc[t] # "idle" /\ pc[t] \in AttemptPC
        /\ cpc'[d] = "returned" /\ until'[d] = pc[t]
        /\ UNCHANGED <<pc, id, parked, target>>
    BY <1>4 DEF CancelRecord, Inv, TypeOK, Kept
  <2>2. (Put(d, id[t]) /\ (Stray(d) \/ pc[t] # "cleared"))'
    BY <2>1 DEF Put, Stray, Active, AttemptPC, Over
  <2>3. pending' \subseteq pending \cup {id[t]} /\ cancelled' \subseteq cancelled \cup {id[t]}
    BY <1>4 DEF CancelRecord
  <2> QED
    BY <1>1, <1>2, <1>3, <2>1, <2>2, <2>3 DEF Backed
<1>5. ASSUME NEW a \in Attempts, BeginConsume(a) PROVE Backed'
  <2>1. /\ pending' \subseteq pending /\ UNCHANGED <<cancelled, id>>
        /\ \A b \in Attempts : b # a => pc'[b] = pc[b] /\ parked'[b] = parked[b]
        /\ parked'[a] => id[a] \in pending
    BY <1>5 DEF BeginConsume, Inv, TypeOK
  <2>2. ASSUME id[a] \in pending PROVE (\E c \in Cancels : Put(c, id[a]))'
    <3>1. PICK c \in Cancels : Put(c, id[a])
      BY <2>2 DEF Backed
    <3>2. ~FinishPending(target[c])
      BY <1>5, <3>1 DEF FinishPending, BeginConsume, Put, Inv, TypeOK
    <3> QED
      BY <2>1, <3>1, <3>2, PutStays
  <2> QED
    BY <1>1, <1>2, <1>3, <2>1, <2>2 DEF Backed
<1>6. ASSUME NEW a \in Attempts, BeginSettle(a) PROVE Backed'
  <2>1. /\ UNCHANGED <<pending, id, parked>>
        /\ \A b \in Attempts : b # a => pc'[b] = pc[b]
        /\ pc[a] = "consumed" /\ pc'[a] = "running"
        /\ cancelled' \subseteq cancelled \cup (IF parked[a] THEN {id[a]} ELSE {})
    BY <1>6 DEF BeginSettle, Inv, TypeOK
  <2>2. ASSUME parked[a]
        PROVE  (\E c \in Cancels :
                  Put(c, id[a]) /\ (Stray(c) \/ pc[target[c]] # "cleared"))'
    <3>1. PICK c \in Cancels : Put(c, id[a])
      BY <2>1, <2>2 DEF Backed
    <3>2. Stray(c) \/ target[c] = a
      BY <2>1, <3>1 DEF Put, Active, Inv, Registered, AttemptPC, Over
    <3>3. (~FinishPending(target[c]) /\ ~FinishCancelled(target[c])) \/ Stray(c)
      BY <2>1, <3>2 DEF FinishPending, FinishCancelled
    <3> QED
      BY <2>1, <3>1, <3>2, <3>3, PutStays
  <2> QED
    BY <1>1, <1>2, <1>3, <2>1, <2>2 DEF Backed
<1>7. ASSUME NEW a \in Attempts,
             Refuse(a) \/ BeginInsert(a) \/ FinishRunning(a) \/ FinishCancelled(a)
               \/ FinishPending(a)
      PROVE  Backed'
  <2>1. /\ pending' \subseteq pending /\ cancelled' \subseteq cancelled
        /\ UNCHANGED parked
        /\ \A b \in Attempts : pc'[b] = "consumed" => pc[b] = "consumed"
        /\ UNCHANGED id
    BY <1>7 DEF Refuse, BeginInsert, FinishRunning, FinishCancelled, FinishPending,
       Inv, TypeOK
  <2> QED
    BY <1>1, <1>2, <1>3, <2>1 DEF Backed
<1>8. ASSUME NEW a \in Attempts, NEW r \in Ids, Dispatch(a, r) PROVE Backed'
  <2>1. /\ UNCHANGED <<pending, cancelled, parked>>
        /\ \A b \in Attempts : pc'[b] = "consumed" =>
             pc[b] = "consumed" /\ id'[b] = id[b]
    BY <1>8 DEF Dispatch, Inv, TypeOK
  <2> QED
    BY <1>1, <1>2, <1>3, <2>1 DEF Backed
<1>9. ASSUME NEW d \in Cancels, NEW a \in Attempts, CancelCheck(d, a) PROVE Backed'
  <2>1. UNCHANGED <<registry, attemptVars>>
    BY <1>9 DEF CancelCheck
  <2> QED
    BY <1>1, <1>2, <1>3, <2>1 DEF Backed
<1>10. CASE UNCHANGED vars
  <2>1. UNCHANGED <<registry, attemptVars>>
    BY <1>10 DEF vars
  <2> QED
    BY <1>1, <1>2, <1>3, <2>1 DEF Backed
<1> QED
  BY <1>4, <1>5, <1>6, <1>7, <1>8, <1>9, <1>10 DEF Next, AttemptStep

LEMMA InvStep == Inv /\ [Next]_vars => Inv'
BY TypeStep, RegisteredStep, KeptStep DEF Inv

LEMMA RegistryInv == Spec => []Inv
<1>1. Init => Inv
  BY InitInv
<1>2. Inv /\ [Next]_vars => Inv'
  BY InvStep
<1> QED
  BY <1>1, <1>2, PTL DEF Spec

-----------------------------------------------------------------------------
\* The three sets hold request ids only, whatever calls interleave, and every
\* begin_request, finish_request and request_cancel is where its code can be.
THEOREM RegistryTypes == Spec => []TypeOK
<1>1. Inv => TypeOK
  BY DEF Inv
<1> QED
  BY <1>1, RegistryInv, PTL

\* For any number of attempts, cancels and ids, fresh or reused: a cancel that
\* does not overlap begin_request is seen by its attempt as long as it runs.
THEOREM SequentialCancelIsSeen == Spec => []SequentialCancelIsHonoured
<1>1. Inv => SequentialCancelIsHonoured
  BY DEF Inv, Kept, SequentialCancelIsHonoured, SeesCancel
<1> QED
  BY <1>1, RegistryInv, PTL

\* A cancel reaches no attempt but the one it was made for, unless it was stray,
\* and when all calls are over and none was stray the three sets are empty.
THEOREM NothingLeaks == Spec => []NoCancelLeaks
<1>1. Init => Backed
  BY DEF Init, Backed
<1>2. Inv /\ Backed => NoCancelLeaks
  <2> SUFFICES ASSUME Inv, Backed PROVE OnlyStrayCancelsLeak /\ RegistryDrains
    BY DEF NoCancelLeaks
  <2>1. OnlyStrayCancelsLeak
    <3> SUFFICES ASSUME NEW a \in Attempts, SeesCancel(a)
                 PROVE  \E c \in Cancels :
                          target[c] = a \/ (Stray(c) /\ id[target[c]] = id[a])
      BY DEF OnlyStrayCancelsLeak
    <3>1. PICK c \in Cancels : Put(c, id[a])
      BY DEF SeesCancel, Backed
    <3>2. Active(target[c]) => target[c] = a
      BY <3>1 DEF SeesCancel, Put, Active, Inv, Registered, AttemptPC, Over
    <3> QED
      BY <3>1, <3>2 DEF Put
  <2>2. RegistryDrains
    <3> SUFFICES ASSUME \A a \in Attempts : pc[a] \in {"idle"} \cup Over,
                        \A c \in Cancels : ~Stray(c)
                 PROVE  running = {} /\ cancelled = {} /\ pending = {}
      BY DEF RegistryDrains
    <3>1. running = {}
      BY DEF Inv, Registered, Over
    <3>2. \A c \in Cancels : \A r : ~Put(c, r)
      BY DEF Put, Active, Over
    <3> QED
      BY <3>1, <3>2 DEF Backed
  <2> QED
    BY <2>1, <2>2
<1> QED
  BY <1>1, <1>2, BackedStep, RegistryInv, PTL DEF Spec

-----------------------------------------------------------------------------
(* The copies.                                                             *)

LEMMA SamePagesInit == Pages!Init => PagesThms!Init
BY
   DEF Pages!Pages, Pages!Route, Pages!NoRoute, Pages!NoOutput, Pages!Init,
       PagesThms!Pages, PagesThms!Route, PagesThms!NoRoute,
       PagesThms!NoOutput, PagesThms!Init

LEMMA SamePagesNext == Pages!Next => PagesThms!Next
BY
   DEF Pages!Pages, Pages!Route, Pages!NoRoute, Pages!Verdict, Pages!tables,
       Pages!Output, Pages!NoOutput, Pages!Derive, Pages!Covers,
       Pages!Reconciled, Pages!OnRoutes, Pages!PageCoverage,
       Pages!ParentCoverage, Pages!At, Pages!Fault, Pages!NoFault,
       Pages!Reply, Pages!Start, Pages!Snapshot, Pages!Poll,
       Pages!Partially, Pages!PageScanned, Pages!PageErrs,
       Pages!PageCancelled, Pages!Observed, Pages!PersistPage,
       Pages!Completed, Pages!Progress, Pages!LoopEnds, Pages!Analyzed,
       Pages!ParentStatus, Pages!CompleteParent, Pages!Counts,
       Pages!FailRun, Pages!Abort, Pages!Cancel, Pages!Step, Pages!Next,
       PagesThms!Pages, PagesThms!Route, PagesThms!NoRoute,
       PagesThms!Verdict, PagesThms!tables, PagesThms!Output,
       PagesThms!NoOutput, PagesThms!Derive, PagesThms!Covers,
       PagesThms!Reconciled, PagesThms!OnRoutes, PagesThms!PageCoverage,
       PagesThms!ParentCoverage, PagesThms!At, PagesThms!Fault,
       PagesThms!NoFault, PagesThms!Reply, PagesThms!Start,
       PagesThms!Snapshot, PagesThms!Poll, PagesThms!Partially,
       PagesThms!PageScanned, PagesThms!PageErrs, PagesThms!PageCancelled,
       PagesThms!Observed, PagesThms!PersistPage, PagesThms!Completed,
       PagesThms!Progress, PagesThms!LoopEnds, PagesThms!Analyzed,
       PagesThms!ParentStatus, PagesThms!CompleteParent, PagesThms!Counts,
       PagesThms!FailRun, PagesThms!Abort, PagesThms!Cancel, PagesThms!Step,
       PagesThms!Next

LEMMA SameSchedulerInit == Scheduler!Init => SchedulerThms!Init
BY
   DEF Scheduler!Time, Scheduler!NoTime, Scheduler!Plan, Scheduler!Key,
       Scheduler!Idle, Scheduler!Today, Scheduler!DayOfWeek,
       Scheduler!DaysAhead, Scheduler!DailyRun, Scheduler!NextRun,
       Scheduler!Saved, Scheduler!Init, SchedulerThms!Time,
       SchedulerThms!NoTime, SchedulerThms!Plan, SchedulerThms!Key,
       SchedulerThms!Idle, SchedulerThms!Today, SchedulerThms!DayOfWeek,
       SchedulerThms!DaysAhead, SchedulerThms!DailyRun,
       SchedulerThms!NextRun, SchedulerThms!Saved, SchedulerThms!Init

LEMMA SameSchedulerNext == Scheduler!Next => SchedulerThms!Next
BY
   DEF Scheduler!NoTime, Scheduler!Plan, Scheduler!bounds, Scheduler!Idle,
       Scheduler!Today, Scheduler!DayOfWeek, Scheduler!DaysAhead,
       Scheduler!DailyRun, Scheduler!NextRun, Scheduler!Saved,
       Scheduler!Tick, Scheduler!SetBack, Scheduler!Edit, Scheduler!IsDue,
       Scheduler!List, Scheduler!Take, Scheduler!OccurrenceKey,
       Scheduler!Execute, Scheduler!ExecuteFails, Scheduler!Marked,
       Scheduler!Mark, Scheduler!Crash, Scheduler!Step, Scheduler!Next,
       SchedulerThms!NoTime, SchedulerThms!Plan, SchedulerThms!bounds,
       SchedulerThms!Idle, SchedulerThms!Today, SchedulerThms!DayOfWeek,
       SchedulerThms!DaysAhead, SchedulerThms!DailyRun,
       SchedulerThms!NextRun, SchedulerThms!Saved, SchedulerThms!Tick,
       SchedulerThms!SetBack, SchedulerThms!Edit, SchedulerThms!IsDue,
       SchedulerThms!List, SchedulerThms!Take, SchedulerThms!OccurrenceKey,
       SchedulerThms!Execute, SchedulerThms!ExecuteFails,
       SchedulerThms!Marked, SchedulerThms!Mark, SchedulerThms!Crash,
       SchedulerThms!Step, SchedulerThms!Next

LEMMA SameOutboxInit == Outbox!Init => OutboxThms!Init
BY Zenon
   DEF Outbox!Number, Outbox!None, Outbox!NoRow, Outbox!NoPayload,
       Outbox!Idle, Outbox!Init, OutboxThms!Number, OutboxThms!None,
       OutboxThms!NoRow, OutboxThms!NoPayload, OutboxThms!Idle,
       OutboxThms!Init

LEMMA SameOutboxNext == Outbox!Step => OutboxThms!Step
BY Zenon
   DEF Outbox!Number, Outbox!None, Outbox!Revision, Outbox!NoRow,
       Outbox!local, Outbox!remote, Outbox!Mutation, Outbox!NoPayload,
       Outbox!Idle, Outbox!At, Outbox!Goto, Outbox!Connect, Outbox!Decide,
       Outbox!Answers, Outbox!Accepts, Outbox!Mutates, Outbox!Bootstraps,
       Outbox!ArrivesLate, Outbox!OtherDecides, Outbox!OtherBootstraps,
       Outbox!SyncStarts, Outbox!Abort, Outbox!Raised, Outbox!Pulled,
       Outbox!Pull, Outbox!Recover, Outbox!Build, Outbox!Submit,
       Outbox!Mark, Outbox!List, Outbox!Key, Outbox!Entry, Outbox!Send,
       Outbox!IsRow, Outbox!Learn, Outbox!Settle, Outbox!Conflict,
       Outbox!Finish, Outbox!Step, OutboxThms!Number, OutboxThms!None,
       OutboxThms!Revision, OutboxThms!NoRow, OutboxThms!local,
       OutboxThms!remote, OutboxThms!Mutation, OutboxThms!NoPayload,
       OutboxThms!Idle, OutboxThms!At, OutboxThms!Goto, OutboxThms!Connect,
       OutboxThms!Decide, OutboxThms!Answers, OutboxThms!Accepts,
       OutboxThms!Mutates, OutboxThms!Bootstraps, OutboxThms!ArrivesLate,
       OutboxThms!OtherDecides, OutboxThms!OtherBootstraps,
       OutboxThms!SyncStarts, OutboxThms!Abort, OutboxThms!Raised,
       OutboxThms!Pulled, OutboxThms!Pull, OutboxThms!Recover,
       OutboxThms!Build, OutboxThms!Submit, OutboxThms!Mark,
       OutboxThms!List, OutboxThms!Key, OutboxThms!Entry, OutboxThms!Send,
       OutboxThms!IsRow, OutboxThms!Learn, OutboxThms!Settle,
       OutboxThms!Conflict, OutboxThms!Finish, OutboxThms!Step

-----------------------------------------------------------------------------
(* A behavior of the services is one of each part.                         *)

LEMMA PagesRuns == ServicesSpec => PagesThms!Spec
<1>1. ServicesInit => PagesThms!Init
  BY SamePagesInit DEF ServicesInit
<1>2. [ServicesNext]_allVars => [PagesThms!Next]_(PagesThms!vars)
  <2>1. PagesFrame /\ Pages!Next => PagesThms!Next
    BY SamePagesNext
  <2>2. UNCHANGED pageVars => UNCHANGED PagesThms!vars
    BY DEF pageVars, PagesThms!tables, PagesThms!vars
  <2>3. ServicesNext \/ UNCHANGED allVars =>
          (PagesFrame /\ Pages!Next) \/ UNCHANGED pageVars
    BY DEF ServicesNext, Registry, PagesFrame, SchedulerFrame, OutboxMoves, allVars
  <2> QED
    BY <2>1, <2>2, <2>3
<1> QED
  BY <1>1, <1>2, PTL DEF ServicesSpec, PagesThms!Spec

LEMMA SchedulerRuns == ServicesSpec => SchedulerThms!Spec
<1>1. ServicesInit => SchedulerThms!Init
  BY SameSchedulerInit DEF ServicesInit
<1>2. [ServicesNext]_allVars => [SchedulerThms!Next]_(SchedulerThms!vars)
  <2>1. SchedulerFrame /\ Scheduler!Next => SchedulerThms!Next
    BY SameSchedulerNext
  <2>2. UNCHANGED scheduleVars => UNCHANGED SchedulerThms!vars
    BY DEF scheduleVars, SchedulerThms!bounds, SchedulerThms!vars
  <2>3. ServicesNext \/ UNCHANGED allVars =>
          (SchedulerFrame /\ Scheduler!Next) \/ UNCHANGED scheduleVars
    BY DEF ServicesNext, Registry, PagesFrame, SchedulerFrame, OutboxMoves, allVars
  <2> QED
    BY <2>1, <2>2, <2>3
<1> QED
  BY <1>1, <1>2, PTL DEF ServicesSpec, SchedulerThms!Spec

LEMMA OutboxRuns == ServicesSpec => OutboxThms!Spec
<1>1. ServicesInit => OutboxThms!Init
  BY SameOutboxInit DEF ServicesInit
<1>2. [ServicesNext]_allVars => [OutboxThms!Step]_(OutboxThms!vars)
  <2>1. OutboxMoves => OutboxThms!Step
    BY SameOutboxNext DEF OutboxMoves
  <2>2. UNCHANGED outboxVars => UNCHANGED OutboxThms!vars
    BY DEF outboxVars, OutboxThms!local, OutboxThms!remote, OutboxThms!vars
  <2>3. ServicesNext \/ UNCHANGED allVars =>
          OutboxMoves \/ UNCHANGED outboxVars
    BY DEF ServicesNext, Registry, PagesFrame, SchedulerFrame, OutboxMoves, allVars
  <2> QED
    BY <2>1, <2>2, <2>3
<1> QED
  BY <1>1, <1>2, PTL DEF ServicesSpec, OutboxThms!Spec

-----------------------------------------------------------------------------
(* The theorems.                                                           *)

\* A decision that went to the outbox stays there until the service has taken it
\* or a newer one has replaced it (settle_group_mutation).
THEOREM OutboxRecorded == ServicesSpec => []RecordedIsKept
<1>1. OutboxThms!RecordedIsKept => RecordedIsKept
  BY DEF RecordedIsKept, Outbox!RecordedIsKept, OutboxThms!RecordedIsKept,
     Outbox!Receipts, OutboxThms!Receipts, Outbox!None, OutboxThms!None
<1> QED
  BY <1>1, OutboxRuns, OutboxThms!RecordedStays, PTL

\* A decision that the service has taken is never marked as refused
\* (record_mutation_conflict).
THEOREM OutboxTaken == ServicesSpec => []TakenIsNoConflict
<1>1. OutboxThms!TakenIsNoConflict => TakenIsNoConflict
  BY DEF TakenIsNoConflict, Outbox!TakenIsNoConflict,
     OutboxThms!TakenIsNoConflict, Outbox!Receipts, OutboxThms!Receipts
<1> QED
  BY <1>1, OutboxRuns, OutboxThms!TakenNeverConflicts, PTL

\* A decision that is delivered overrules only the revision its user could have
\* seen (mutate_group).
THEOREM OutboxOverrules == ServicesSpec => OverrulesWhatWasSeen
<1>1. OutboxThms!OverrulesWhatWasSeen => OverrulesWhatWasSeen
  BY DEF OverrulesWhatWasSeen, Outbox!OverrulesWhatWasSeen,
     OutboxThms!OverrulesWhatWasSeen, Outbox!Number, OutboxThms!Number,
     Outbox!vars, OutboxThms!vars, Outbox!local, OutboxThms!local,
     Outbox!remote, OutboxThms!remote
<1> QED
  BY <1>1, OutboxRuns, OutboxThms!OverrulesOnlySeen, PTL

\* A session that complete_multi_page_scan_run shows as complete has a complete
\* run of every page, and the progress counts no run that is not there.
THEOREM PagesBacked == ServicesSpec => []ParentIsBacked
<1>1. PagesThms!ParentIsBacked => ParentIsBacked
  <2>1. PagesThms!Pages = Pages!Pages
    BY DEF Pages!Pages, PagesThms!Pages
  <2>2. {p \in PagesThms!Pages : children[p] # "none"}
          = {p \in Pages!Pages : children[p] # "none"}
    BY <2>1
  <2>3. PagesThms!AllComplete <=> Pages!AllComplete
    BY <2>1 DEF Pages!AllComplete, PagesThms!AllComplete
  <2>4. PagesThms!Cardinality({p \in PagesThms!Pages : children[p] # "none"})
          = Pages!Cardinality({p \in Pages!Pages : children[p] # "none"})
    BY <2>2, Zenon DEF PagesThms!Cardinality, Pages!Cardinality
  <2> QED
    BY <2>3, <2>4
       DEF ParentIsBacked, Pages!ParentIsBacked, PagesThms!ParentIsBacked
<1>2. PagesThms!Spec => []PagesThms!ParentIsBacked
  BY PagesThms!ParentBacked, ServicesAssumption DEF PagesThms!SelectionAssumption
<1> QED
  BY <1>1, <1>2, PagesRuns, PTL

\* reconcile_scan_projection resolves only what the coverage of a page or of the
\* session proves absent.
THEOREM PagesResolved == ServicesSpec => ResolvedWasSeenAbsent
<1>1. PagesThms!ResolvedWasSeenAbsent => ResolvedWasSeenAbsent
  BY DEF ResolvedWasSeenAbsent, Pages!ResolvedWasSeenAbsent,
     PagesThms!ResolvedWasSeenAbsent, Pages!Route, PagesThms!Route,
     Pages!NoRoute, PagesThms!NoRoute, Pages!At, PagesThms!At,
     Pages!AllComplete, PagesThms!AllComplete, Pages!Pages, PagesThms!Pages,
     Pages!vars, PagesThms!vars, Pages!tables, PagesThms!tables
<1>2. PagesThms!Spec => PagesThms!ResolvedWasSeenAbsent
  BY PagesThms!ResolvedSeenAbsent, ServicesAssumption DEF PagesThms!SelectionAssumption
<1> QED
  BY <1>1, <1>2, PagesRuns, PTL

\* An occurrence of a schedule is collected once at most (run_due_schedules).
THEOREM SchedulesOnce == ServicesSpec => []OneScanPerOccurrence
<1>1. SchedulerThms!OneScanPerOccurrence => OneScanPerOccurrence
  BY DEF OneScanPerOccurrence, Scheduler!OneScanPerOccurrence,
     SchedulerThms!OneScanPerOccurrence, Scheduler!Key, SchedulerThms!Key,
     Scheduler!Time, SchedulerThms!Time
<1> QED
  BY <1>1, SchedulerRuns, SchedulerThms!OneScan, PTL

\* compute_next_run_from returns the soonest time after now that fits the plan.
THEOREM SchedulesSoonest == ServicesSpec => []NextRunIsSoonest
<1>1. SchedulerThms!NextRunIsSoonest => NextRunIsSoonest
  BY DEF NextRunIsSoonest, Scheduler!NextRunIsSoonest,
     SchedulerThms!NextRunIsSoonest, Scheduler!Plan, SchedulerThms!Plan,
     Scheduler!NextRun, SchedulerThms!NextRun, Scheduler!NoTime,
     SchedulerThms!NoTime, Scheduler!DailyRun, SchedulerThms!DailyRun,
     Scheduler!DaysAhead, SchedulerThms!DaysAhead, Scheduler!Today,
     SchedulerThms!Today, Scheduler!DayOfWeek, SchedulerThms!DayOfWeek,
     Scheduler!Fits, SchedulerThms!Fits
<1>2. SchedulerThms!Spec => []SchedulerThms!NextRunIsSoonest
  BY SchedulerThms!NextIsSoonest, ServicesAssumption DEF SchedulerThms!CalendarAssumption
<1> QED
  BY <1>1, <1>2, SchedulerRuns, PTL

\* Every variable of the registry, of the session, of the schedules and of the
\* outbox has a value of its type, whatever fails and whenever the process ends.
THEOREM ServicesTypes == ServicesSpec => []ServicesTypeOK
<1>1. PagesThms!TypeOK => Pages!TypeOK
  BY DEF Pages!Pages, Pages!Route, Pages!NoRoute, Pages!Verdict,
     Pages!RunStatus, Pages!Parent, Pages!Output, Pages!LoopStatus,
     Pages!Loop, Pages!PC, Pages!TypeOK, PagesThms!Pages, PagesThms!Route,
     PagesThms!NoRoute, PagesThms!Verdict, PagesThms!RunStatus,
     PagesThms!Parent, PagesThms!Output, PagesThms!LoopStatus,
     PagesThms!Loop, PagesThms!PC, PagesThms!TypeOK
<1>2. SchedulerThms!TypeOK => Scheduler!TypeOK
  BY DEF Scheduler!Time, Scheduler!NoTime, Scheduler!Plan, Scheduler!Row,
     Scheduler!Key, Scheduler!Copy, Scheduler!Idle, Scheduler!TypeOK,
     SchedulerThms!Time, SchedulerThms!NoTime, SchedulerThms!Plan,
     SchedulerThms!Row, SchedulerThms!Key, SchedulerThms!Copy,
     SchedulerThms!Idle, SchedulerThms!TypeOK
<1>3. OutboxThms!TypeOK => Outbox!TypeOK
  BY DEF Outbox!Number, Outbox!None, Outbox!Revision, Outbox!Outbound,
     Outbox!NoRow, Outbox!Receipt, Outbox!Mutation, Outbox!Payload,
     Outbox!Request, Outbox!SyncAt, Outbox!Sync, Outbox!TypeOK,
     OutboxThms!Number, OutboxThms!None, OutboxThms!Revision,
     OutboxThms!Outbound, OutboxThms!NoRow, OutboxThms!Receipt,
     OutboxThms!Mutation, OutboxThms!Payload, OutboxThms!Request,
     OutboxThms!SyncAt, OutboxThms!Sync, OutboxThms!TypeOK
<1>4. PagesThms!Spec => []PagesThms!TypeOK
  BY PagesThms!SessionTypes, ServicesAssumption DEF PagesThms!SelectionAssumption
<1>5. SchedulerThms!Spec => []SchedulerThms!TypeOK
  BY SchedulerThms!SchedulerTypes, ServicesAssumption
     DEF SchedulerThms!CalendarAssumption, SchedulerThms!BoundsAssumption
<1>6. OutboxThms!Spec => []OutboxThms!TypeOK
  BY OutboxThms!OutboxTypes
<1>7. ServicesSpec => Spec
  <2>1. ServicesInit => Init
    BY DEF ServicesInit
  <2>2. [ServicesNext]_allVars => [Next]_vars
    BY DEF ServicesNext, Registry, PagesFrame, SchedulerFrame, OutboxMoves, allVars
  <2> QED
    BY <2>1, <2>2, PTL DEF ServicesSpec, Spec
<1>8. TypeOK /\ Pages!TypeOK /\ Scheduler!TypeOK /\ Outbox!TypeOK => ServicesTypeOK
  BY DEF ServicesTypeOK
<1> QED
  BY <1>1, <1>2, <1>3, <1>4, <1>5, <1>6, <1>7, <1>8, RegistryTypes, PagesRuns,
     SchedulerRuns, OutboxRuns, PTL
=============================================================================
