------------------------ MODULE ConnectedOutboxProofs ------------------------
(***************************************************************************)
(* Proofs about the decisions on their way to the connected service, for   *)
(* any groups, decisions and changes by others.                            *)
(***************************************************************************)
EXTENDS ConnectedOutbox, TLAPS

LEMMA NumberFacts == Number \subseteq Nat /\ None \notin Number
BY DEF Number, None

LEMMA RowFacts ==
  /\ Idle \in Sync /\ NoPayload \in Payload /\ NoRow.number = None
  /\ ~NoRow.conflict
  /\ \A row \in Outbound : row.number \in Number /\ row.based \in Nat
                             /\ row.number # None /\ row # NoRow
BY NumberFacts DEF Idle, Sync, SyncAt, NoPayload, Payload, NoRow, Outbound,
   Revision

-----------------------------------------------------------------------------
(* Types.                                                                  *)

LocalOK ==
    /\ decided \in Payload /\ site \in {"none", "connected", "bootstrapped"}
    /\ known \in [Groups -> Revision] /\ outbox \in [Groups -> Outbound \cup {NoRow}]
    /\ recorded \in Payload /\ seen \in [Groups -> [Number -> Revision]]

HandOK ==
    /\ sync \in Sync
    /\ sync.at \in {"settle", "conflict"} =>
         sync.group \in Groups /\ sync.row \in Outbound

RemoteOK ==
    /\ phase \in {"pending_bootstrap", "connected"}
    /\ service \in [Groups -> [revision : Revision, number : Number \cup {None}]]
    /\ taken \in [Groups -> SUBSET Receipt]

LEMMA Types ==
  TypeOK <=> LocalOK /\ RemoteOK /\ wire \subseteq Request /\ HandOK
               /\ others \in Nat
BY DEF TypeOK, LocalOK, RemoteOK, HandOK

LEMMA EntryType ==
  ASSUME NEW g \in Groups, NEW row \in Outbound
  PROVE  /\ Entry(g, row) \in Mutation
         /\ Entry(g, row).number = row.number /\ Entry(g, row).key = row.number
         /\ Entry(g, row).based = row.based /\ Entry(g, row).group = g
BY DEF Entry, Key, Mutation, Outbound

LEMMA MutatesType ==
  ASSUME RemoteOK, NEW m \in Mutation, Mutates(m) PROVE RemoteOK'
<1>1. CASE ~Accepts(m)
  BY <1>1 DEF Mutates, RemoteOK, remote
<1>2. CASE Accepts(m)
  <2> DEFINE rev == m.based + 1
             s == [revision |-> rev, number |-> m.number]
             r == [number |-> m.number, key |-> m.key, revision |-> rev]
  <2>1. /\ m.group \in Groups /\ s \in [revision : Revision,
                                        number : Number \cup {None}]
        /\ r \in Receipt
    BY DEF Mutation, Receipt, Revision
  <2>2. /\ service' = [service EXCEPT ![m.group] = s]
        /\ taken' = [taken EXCEPT ![m.group] = @ \cup {r}]
        /\ phase' = phase
    BY <1>2 DEF Mutates
  <2> HIDE DEF s, r
  <2> QED
    BY <2>1, <2>2 DEF RemoteOK
<1> QED
  BY <1>1, <1>2

LEMMA BootstrapsType ==
  ASSUME RemoteOK, NEW p \in Payload, Bootstraps(p) PROVE RemoteOK'
<1>1. CASE phase # "pending_bootstrap"
  BY <1>1 DEF Bootstraps, RemoteOK, remote
<1>2. CASE phase = "pending_bootstrap"
  <2> DEFINE s(g) == IF p[g] # None
                       THEN [revision |-> service[g].revision + 1,
                             number |-> p[g]]
                       ELSE service[g]
             t(g) == IF p[g] # None
                       THEN {[number |-> p[g], key |-> p[g],
                              revision |-> service[g].revision + 1]}
                       ELSE taken[g]
  <2>1. /\ phase' = "connected"
        /\ service' = [g \in Groups |-> s(g)] /\ taken' = [g \in Groups |-> t(g)]
    BY <1>2 DEF Bootstraps
  <2>2. ASSUME NEW g \in Groups
        PROVE  /\ s(g) \in [revision : Revision, number : Number \cup {None}]
               /\ t(g) \in SUBSET Receipt
    <3>1. /\ service[g] \in [revision : Revision, number : Number \cup {None}]
          /\ taken[g] \in SUBSET Receipt /\ p[g] \in Number \cup {None}
      BY DEF RemoteOK, Payload
    <3> QED
      BY <3>1 DEF Receipt, Revision
  <2> HIDE DEF s, t
  <2> QED
    BY <2>1, <2>2 DEF RemoteOK
<1> QED
  BY <1>1, <1>2

\* Whether the request that is late is a mutation or a bootstrap.
LEMMA LateType ==
  ASSUME TypeOK, ArrivesLate
  PROVE  /\ UNCHANGED <<local, sync, others>> /\ wire' \subseteq wire
         /\ \/ \E m \in wire \cap Mutation : Mutates(m)
            \/ \E p \in Payload : Bootstraps(p)
<1>1. PICK r \in wire :
         /\ wire' = wire \ {r}
         /\ IF r \in Mutation THEN Mutates(r) ELSE Bootstraps(r.payload)
  BY DEF ArrivesLate
<1>2. r \notin Mutation => r.payload \in Payload
  BY DEF TypeOK, Request
<1> QED
  BY <1>1, <1>2 DEF ArrivesLate

\* What a step makes of the service.
RemoteMove ==
    \/ UNCHANGED remote
    \/ \E m \in wire \cap Mutation : Mutates(m)
    \/ \E c \in sync.queue : Mutates(Entry(c.group, c.row))
    \/ \E p \in Payload : Bootstraps(p)
    \/ \E g \in Groups : OtherDecides(g)
    \/ OtherBootstraps

LEMMA StepRemote == ASSUME TypeOK, Step PROVE RemoteMove
<1>1. CASE ArrivesLate
  BY <1>1, LateType DEF RemoteMove
<1>2. CASE Submit
  BY <1>2 DEF Submit, RemoteMove, TypeOK, Sync
<1>3. CASE Send
  BY <1>3 DEF Send, RemoteMove
<1> QED
  BY <1>1, <1>2, <1>3
  DEF Step, RemoteMove, Connect, Decide, SyncStarts, Abort, Pull, Recover,
      Build, Mark, List, Settle, Conflict, Finish

LEMMA RemoteType == ASSUME TypeOK, RemoteMove PROVE RemoteOK'
<1>1. RemoteOK /\ \A c \in sync.queue : Entry(c.group, c.row) \in Mutation
  BY Types, EntryType DEF TypeOK, Sync
<1>2. ASSUME NEW g \in Groups, OtherDecides(g) PROVE RemoteOK'
  BY <1>1, <1>2 DEF OtherDecides, RemoteOK, Revision
<1> QED
  BY <1>1, <1>2, MutatesType, BootstrapsType
  DEF RemoteMove, RemoteOK, remote, OtherBootstraps

LEMMA GotoType ==
  ASSUME sync \in Sync, NEW p \in SyncAt, Goto(p)
  PROVE  /\ sync' \in Sync /\ sync'.at = p
         /\ sync'.bootstrapped = sync.bootstrapped /\ sync'.queue = sync.queue
         /\ sync'.group = sync.group /\ sync'.row = sync.row
         /\ sync'.revision = sync.revision
BY DEF Goto, Sync

\* The rows and revisions that a step writes.
LEMMA LearnType ==
  ASSUME LocalOK, NEW rev \in Nat, NEW g, Learn(g, rev)
  PROVE  known' \in [Groups -> Revision]
BY DEF Learn, Raised, LocalOK, Revision

LEMMA PulledType ==
  ASSUME TypeOK, Pulled
  PROVE  /\ known' \in [Groups -> Revision]
         /\ \A g \in Groups : known'[g] = Raised(known[g], service[g].revision)
<1>1. \A g \in Groups : known[g] \in Nat /\ service[g].revision \in Nat
  BY DEF TypeOK, Revision
<1> QED
  BY <1>1 DEF Pulled, Raised, Revision

\* The answer to a request, if one arrives.
Answered(c, p, rev) ==
    sync' = [sync EXCEPT !.at = p, !.queue = @ \ {c}, !.group = c.group,
                         !.row = c.row, !.revision = rev]

LEMMA AnsweredType ==
  ASSUME sync \in Sync, NEW c \in sync.queue, NEW p \in {"settle", "conflict"},
         NEW rev \in Nat, Answered(c, p, rev)
  PROVE  /\ sync' \in Sync /\ sync'.at = p /\ sync'.queue = sync.queue \ {c}
         /\ sync'.bootstrapped = sync.bootstrapped
         /\ sync'.group = c.group /\ sync'.row = c.row /\ sync'.revision = rev
         /\ c.group \in Groups /\ c.row \in Outbound
<1>1. /\ p \in SyncAt /\ rev \in Revision
      /\ c \in [group : Groups, row : Outbound]
  BY DEF Sync, SyncAt, Revision
<1> QED
  BY <1>1, Zenon DEF Answered, Sync

\* What a sync may do when it sends a row.
LEMMA SendCases ==
  ASSUME TypeOK, Send
  PROVE  \E c \in sync.queue :
           LET m == Entry(c.group, c.row) IN
           /\ c.group \in Groups /\ c.row \in Outbound /\ m \in Mutation
           /\ \/ wire' = wire \cup {m} /\ sync' = Idle /\ UNCHANGED remote
              \/ /\ Mutates(m) /\ UNCHANGED wire
                 /\ \/ sync' = Idle
                    \/ Accepts(m) /\ Answered(c, "settle", m.based + 1)
                    \/ \E r \in Answers(m) : Answered(c, "settle", r.revision)
                    \/ /\ ~Accepts(m) /\ Answers(m) = {}
                       /\ Answered(c, "conflict", service[m.group].revision)
<1>1. \A c \in sync.queue : c.group \in Groups /\ c.row \in Outbound
  BY DEF TypeOK, Sync
<1> QED
  BY <1>1, EntryType, Zenon DEF Send, Answered

LEMMA IdleHand == ASSUME sync' = Idle PROVE HandOK'
BY RowFacts DEF HandOK, Idle

LEMMA SendType ==
  ASSUME TypeOK, Send
  PROVE  wire' \subseteq Request /\ HandOK'
<1>1. PICK c \in sync.queue :
           LET m == Entry(c.group, c.row) IN
           /\ c.group \in Groups /\ c.row \in Outbound /\ m \in Mutation
           /\ \/ wire' = wire \cup {m} /\ sync' = Idle /\ UNCHANGED remote
              \/ /\ Mutates(m) /\ UNCHANGED wire
                 /\ \/ sync' = Idle
                    \/ Accepts(m) /\ Answered(c, "settle", m.based + 1)
                    \/ \E r \in Answers(m) : Answered(c, "settle", r.revision)
                    \/ /\ ~Accepts(m) /\ Answers(m) = {}
                       /\ Answered(c, "conflict", service[m.group].revision)
  BY SendCases
<1> DEFINE m == Entry(c.group, c.row)
<1>2. /\ m \in Mutation /\ m.based + 1 \in Nat /\ sync \in Sync
      /\ service[m.group].revision \in Nat
      /\ \A r \in Answers(m) : r.revision \in Nat
  BY <1>1 DEF Mutation, TypeOK, Answers, Receipt, Revision
<1> HIDE DEF m
<1>3. wire' \subseteq Request
  BY <1>1, <1>2 DEF m, TypeOK, Request
<1>4. \/ sync' = Idle
      \/ \E p \in {"settle", "conflict"}, rev \in Nat : Answered(c, p, rev)
  BY <1>1, <1>2 DEF m
<1>5. HandOK'
  BY <1>1, <1>2, <1>4, RowFacts, IdleHand, AnsweredType DEF HandOK
<1> QED
  BY <1>3, <1>5

LEMMA StepType == ASSUME TypeOK, Step PROVE TypeOK'
<1>1. LocalOK /\ RemoteOK' /\ HandOK /\ sync \in Sync /\ wire \subseteq Request
      /\ others \in Nat
  BY Types, StepRemote, RemoteType DEF HandOK
<1>2. SUFFICES /\ LocalOK' /\ wire' \subseteq Request /\ HandOK'
               /\ others' \in Nat
  BY <1>1 DEF TypeOK, LocalOK, RemoteOK, HandOK
<1>3. ASSUME UNCHANGED local PROVE LocalOK'
  BY <1>1, <1>3 DEF LocalOK, local
<1>4. ASSUME UNCHANGED sync PROVE HandOK'
  BY <1>1, <1>4 DEF HandOK
<1>21. ASSUME sync' \in Sync, sync'.at \notin {"settle", "conflict"} PROVE HandOK'
  BY <1>21 DEF HandOK
<1>22. CASE Connect
  BY <1>1, <1>4, <1>22 DEF Connect, LocalOK
<1>5. ASSUME NEW g \in Groups, Decide(g)
      PROVE  LocalOK' /\ UNCHANGED <<wire, sync, others>>
  <2> DEFINE n == decided[g] + 1
             row == [number |-> n, based |-> known[g], conflict |-> FALSE]
  <2>1. /\ n \in Number /\ known[g] \in Revision /\ row \in Outbound
    BY <1>1, <1>5 DEF Decide, LocalOK, Outbound
  <2>2. /\ decided' = [decided EXCEPT ![g] = n]
        /\ seen' = [seen EXCEPT ![g][n] = known[g]]
        /\ outbox' \in {outbox, [outbox EXCEPT ![g] = row]}
        /\ recorded' \in {recorded, [recorded EXCEPT ![g] = n]}
        /\ UNCHANGED <<site, known, wire, sync, others>>
    BY <1>5 DEF Decide
  <2> HIDE DEF n, row
  <2>3. decided' \in Payload /\ recorded' \in Payload
        /\ outbox' \in [Groups -> Outbound \cup {NoRow}]
    BY <1>1, <2>1, <2>2 DEF LocalOK, Payload
  <2>4. seen' \in [Groups -> [Number -> Revision]]
    BY <1>1, <2>1, <2>2 DEF LocalOK
  <2> QED
    BY <1>1, <2>2, <2>3, <2>4 DEF LocalOK
<1>6. ASSUME NEW g \in Groups, OtherDecides(g)
      PROVE  UNCHANGED <<local, wire, sync>> /\ others' \in Nat
  BY <1>1, <1>6 DEF OtherDecides
<1>7. CASE OtherBootstraps
  BY <1>1, <1>3, <1>4, <1>7 DEF OtherBootstraps
<1>8. CASE ArrivesLate
  BY <1>1, <1>3, <1>4, <1>8, LateType
<1>9. CASE SyncStarts
  <2>1. Idle \in Sync /\ "pull" \in SyncAt /\ (site = "bootstrapped") \in BOOLEAN
    BY RowFacts DEF SyncAt
  <2>2. sync' \in Sync /\ sync'.at = "pull"
    BY ONLY <1>9, <2>1, Zenon DEF SyncStarts, Sync
  <2> QED
    BY <1>1, <1>3, <1>9, <1>21, <2>2 DEF SyncStarts
<1>10. CASE Abort
  BY <1>1, <1>3, <1>10, IdleHand DEF Abort
<1>11. CASE Pull
  <2>1. HandOK'
    BY <1>1, <1>11, <1>21, IdleHand, GotoType DEF Pull, SyncAt
  <2> QED
    BY <1>1, <1>11, <2>1, PulledType DEF Pull, LocalOK
<1>12. CASE Recover
  BY <1>1, <1>12, <1>21 DEF Recover, LocalOK, Sync, SyncAt
<1>13. CASE Build
  <2>1. decided \in Payload /\ NoPayload \in Payload
    BY <1>1, RowFacts DEF LocalOK
  <2> QED
    BY <1>1, <1>3, <1>13, <1>21, <2>1 DEF Build, Sync, SyncAt
<1>14. CASE Submit
  <2>1. sync.payload \in Payload
    BY <1>1 DEF Sync
  <2>2. HandOK'
    BY <1>1, <1>14, <1>21, IdleHand, GotoType DEF Submit, Sync, SyncAt
  <2>3. wire' \subseteq Request
    BY <1>1, <1>14, <2>1 DEF Submit, Request
  <2> QED
    BY <1>1, <1>3, <1>14, <2>2, <2>3 DEF Submit
<1>15. CASE Mark
  BY <1>1, <1>15, <1>21, GotoType DEF Mark, LocalOK, SyncAt
<1>16. CASE List
  <2>1. {[group |-> g, row |-> outbox[g]] : g \in
           {x \in Groups : outbox[x] # NoRow /\ ~outbox[x].conflict}}
          \in SUBSET [group : Groups, row : Outbound]
    BY <1>1 DEF LocalOK
  <2> QED
    <3>1. sync' \in Sync /\ sync'.at = "next"
      <4>1. "next" \in SyncAt
        BY DEF SyncAt
      <4> QED
        BY ONLY <1>1, <1>16, <2>1, <4>1, Zenon DEF List, Sync
    <3> QED
      BY <1>1, <1>3, <1>16, <1>21, <3>1 DEF List
<1>17. CASE Send
  BY <1>1, <1>3, <1>17, SendType, Zenon DEF Send
<1>18. CASE Settle
  <2>1. outbox' \in [Groups -> Outbound \cup {NoRow}]
    BY <1>1, <1>18 DEF Settle, LocalOK
  <2>2. known' \in [Groups -> Revision]
    BY <1>1, <1>18, LearnType DEF Settle, LocalOK, Sync, Revision
  <2> QED
    BY <1>1, <1>18, <1>21, <2>1, <2>2, GotoType DEF Settle, LocalOK, SyncAt
<1>19. CASE Conflict
  <2>1. outbox' \in [Groups -> Outbound \cup {NoRow}]
    <3>1. ASSUME IsRow(outbox[sync.group], sync.row)
          PROVE  outbox[sync.group] \in Outbound /\ sync.group \in Groups
      BY <1>1, <1>19, <3>1, RowFacts DEF Conflict, At, HandOK, IsRow, LocalOK
    <3>2. ASSUME NEW row \in Outbound
          PROVE  [row EXCEPT !.conflict = TRUE] \in Outbound
      BY DEF Outbound
    <3> QED
      BY <1>1, <1>19, <3>1, <3>2 DEF Conflict, LocalOK
  <2>2. known' \in [Groups -> Revision]
    BY <1>1, <1>19, LearnType DEF Conflict, LocalOK, Sync, Revision
  <2> QED
    BY <1>1, <1>19, <1>21, <2>1, <2>2, GotoType DEF Conflict, LocalOK, SyncAt
<1>20. CASE Finish
  BY <1>1, <1>20, IdleHand, PulledType DEF Finish, LocalOK
<1> QED
  BY <1>1, <1>3, <1>4, <1>5, <1>6, <1>7, <1>8, <1>9, <1>10, <1>11, <1>12,
     <1>13, <1>14, <1>15, <1>16, <1>17, <1>18, <1>19, <1>20, <1>22 DEF Step

LEMMA InitType == Init => TypeOK
BY RowFacts DEF Init, TypeOK, NoPayload, Payload, Idle, Revision, Number

-----------------------------------------------------------------------------
(* The invariant.  A decision keeps the revision its user could see through *)
(* the outbox, the queue of the sync and a late request; a refused one is   *)
(* behind its group for ever.                                              *)

\* What travels under the number n of g is that decision as it was made.
Faithful(g, n, b) ==
    /\ g \in Groups /\ n \in Number /\ n <= decided[g]
    /\ b = seen[g][n] /\ b <= service[g].revision

\* The service has not taken n and will not: its group has moved on.
Refused(g, n, b) == Receipts(g, n) = {} /\ b < service[g].revision

Committed ==
    \/ site = "bootstrapped" \/ sync.bootstrapped
    \/ sync.at \in {"recover", "mark", "list", "next", "settle", "conflict"}

PhaseInv ==
    /\ Committed => phase = "connected"
    /\ \A g \in Groups :
         outbox[g] # NoRow \/ recorded[g] # None => site = "bootstrapped"

ServiceInv ==
    \A g \in Groups :
        /\ known[g] <= service[g].revision
        /\ \A r \in taken[g] :
             r.key = r.number /\ r.revision <= service[g].revision

RowInv ==
    \A g \in Groups : outbox[g] # NoRow =>
        /\ Faithful(g, outbox[g].number, outbox[g].based)
        /\ outbox[g].conflict => Refused(g, outbox[g].number, outbox[g].based)

SentInv ==
    /\ \A c \in sync.queue : Faithful(c.group, c.row.number, c.row.based)
    /\ \A m \in wire \cap Mutation :
         Faithful(m.group, m.number, m.based) /\ m.key = m.number

HandInv ==
    sync.at \in {"settle", "conflict"} =>
        /\ Faithful(sync.group, sync.row.number, sync.row.based)
        /\ sync.revision <= service[sync.group].revision
        /\ sync.at = "settle" => Receipts(sync.group, sync.row.number) # {}
        /\ sync.at = "conflict" =>
             Refused(sync.group, sync.row.number, sync.row.based)

Inv ==
    /\ TypeOK /\ PhaseInv /\ ServiceInv /\ RowInv /\ SentInv /\ HandInv
    /\ RecordedIsKept

LEMMA InitInv == Init => Inv
<1> SUFFICES ASSUME Init PROVE Inv
  OBVIOUS
<1>1. TypeOK
  BY InitType
<1>2. PhaseInv
  BY DEF Init, PhaseInv, Committed, Idle, NoPayload
<1>3. ServiceInv /\ RowInv /\ SentInv /\ HandInv /\ RecordedIsKept
  BY DEF Init, ServiceInv, RowInv, SentInv, HandInv, RecordedIsKept, Idle,
     NoPayload
<1> QED
  BY <1>1, <1>2, <1>3 DEF Inv

\* What the service does, for what depends on it.  Revisions only grow; once
\* the site is connected receipts stay, and a new one is of a mutation that was
\* based on the revision of its group.
Onwards ==
    /\ \A g \in Groups : service'[g].revision >= service[g].revision
    /\ \A g \in Groups : \A r \in taken'[g] :
         r.key = r.number /\ r.revision <= service'[g].revision
    /\ phase = "connected" =>
         /\ phase' = "connected"
         /\ \A g \in Groups : taken[g] \subseteq taken'[g]
         /\ \A g \in Groups : \A r \in taken'[g] : r \notin taken[g] =>
              r.number \in Number /\ seen[g][r.number] = service[g].revision
         /\ \A g \in Groups : service'[g] # service[g] =>
              \/ service'[g].number = None
              \/ seen[g][service'[g].number] = service[g].revision

LEMMA SameOnwards == ASSUME Inv, UNCHANGED remote PROVE Onwards
<1>1. /\ \A g \in Groups : service[g].revision \in Nat
      /\ UNCHANGED <<phase, service, taken>>
  BY DEF Inv, TypeOK, Revision, remote
<1> QED
  BY <1>1 DEF Onwards, Inv, ServiceInv

LEMMA MutationOnwards ==
  ASSUME Inv, NEW m \in Mutation, Mutates(m), m.key = m.number,
         Faithful(m.group, m.number, m.based)
  PROVE  Onwards
<1>1. CASE ~Accepts(m)
  BY <1>1, SameOnwards DEF Mutates
<1>2. CASE Accepts(m)
  <2> DEFINE h == m.group
             rev == m.based + 1
             s == [revision |-> rev, number |-> m.number]
             r == [number |-> m.number, key |-> m.key, revision |-> rev]
  <2>1. /\ h \in Groups /\ m.number \in Number /\ m.based \in Nat
        /\ m.based = service[h].revision /\ seen[h][m.number] = m.based
    BY <1>2 DEF Mutation, Accepts, Faithful, Revision
  <2>2. /\ service \in [Groups -> [revision : Nat, number : Number \cup {None}]]
        /\ taken \in [Groups -> SUBSET Receipt]
    BY DEF Inv, TypeOK, Revision
  <2>3. /\ service'[h] = s /\ taken'[h] = taken[h] \cup {r}
        /\ \A g \in Groups : g # h =>
             service'[g] = service[g] /\ taken'[g] = taken[g]
        /\ phase' = phase
    BY <1>2, <2>1, <2>2 DEF Mutates
  <2>4. /\ s.revision = rev /\ s.number = m.number /\ r.number = m.number
        /\ r.key = m.number /\ r.revision = rev
    OBVIOUS
  <2>5. ServiceInv
    BY DEF Inv
  <2> HIDE DEF s, r
  <2>6. \A g \in Groups : service'[g].revision >= service[g].revision
    BY <2>1, <2>2, <2>3, <2>4
  <2>7. ASSUME NEW g \in Groups, NEW x \in taken'[g]
        PROVE  x.key = x.number /\ x.revision <= service'[g].revision
    <3>1. CASE x \in taken[g]
      <4>1. /\ x.key = x.number /\ x.revision <= service[g].revision
            /\ x.revision \in Nat /\ service[g].revision \in Nat
            /\ service'[g].revision \in Nat
        BY <2>1, <2>2, <2>3, <2>4, <2>5, <3>1 DEF ServiceInv, Receipt, Revision
      <4> QED
        BY <2>6, <4>1
    <3>2. CASE x \notin taken[g]
      BY <2>1, <2>3, <2>4, <2>7, <3>2
    <3> QED
      BY <3>1, <3>2
  <2>8. \A g \in Groups : /\ taken[g] \subseteq taken'[g]
                          /\ \A x \in taken'[g] : x \notin taken[g] =>
                               g = h /\ x = r
    BY <2>3
  <2>9. \A g \in Groups : service'[g] # service[g] => g = h
    BY <2>3
  <2> QED
    BY <2>1, <2>3, <2>4, <2>6, <2>7, <2>8, <2>9 DEF Onwards
<1> QED
  BY <1>1, <1>2

LEMMA BootstrapOnwards ==
  ASSUME Inv, NEW p \in Payload, Bootstraps(p) PROVE Onwards
<1>1. CASE phase # "pending_bootstrap"
  BY <1>1, SameOnwards DEF Bootstraps
<1>2. CASE phase = "pending_bootstrap"
  <2>1. ASSUME NEW g \in Groups
        PROVE  /\ service'[g].revision >= service[g].revision
               /\ \A r \in taken'[g] :
                    r.key = r.number /\ r.revision <= service'[g].revision
    <3>1. service[g].revision \in Nat
          /\ \A r \in taken[g] :
               r.key = r.number /\ r.revision <= service[g].revision
      BY DEF Inv, TypeOK, Revision, ServiceInv
    <3>2. CASE p[g] # None
      BY <1>2, <3>1, <3>2 DEF Bootstraps
    <3>3. CASE p[g] = None
      BY <1>2, <3>1, <3>3 DEF Bootstraps
    <3> QED
      BY <3>2, <3>3
  <2> QED
    BY <1>2, <2>1 DEF Onwards
<1> QED
  BY <1>1, <1>2

LEMMA StepOnwards == ASSUME Inv, Step PROVE Onwards
<1>1. TypeOK /\ SentInv
  BY DEF Inv
<1>2. RemoteMove
  BY <1>1, StepRemote
<1>3. ASSUME NEW m \in wire \cap Mutation, Mutates(m) PROVE Onwards
  BY <1>1, <1>3, MutationOnwards DEF SentInv
<1>4. ASSUME NEW c \in sync.queue, Mutates(Entry(c.group, c.row)) PROVE Onwards
  <2>1. c.group \in Groups /\ c.row \in Outbound
    BY <1>1 DEF TypeOK, Sync
  <2> QED
    BY <1>1, <1>4, <2>1, EntryType, MutationOnwards DEF SentInv
<1>5. ASSUME NEW h \in Groups, OtherDecides(h) PROVE Onwards
  <2>1. /\ service \in [Groups -> [revision : Nat, number : Number \cup {None}]]
        /\ ServiceInv /\ taken \in [Groups -> SUBSET Receipt]
    BY DEF Inv, TypeOK, Revision
  <2>2. /\ service'[h] = [revision |-> service[h].revision + 1, number |-> None]
        /\ \A g \in Groups : g # h => service'[g] = service[g]
        /\ UNCHANGED <<phase, taken>>
    BY <1>5, <2>1 DEF OtherDecides
  <2>3. \A g \in Groups : /\ service[g].revision \in Nat
                          /\ service'[g].revision \in Nat
                          /\ service'[g].revision >= service[g].revision
    BY <2>1, <2>2
  <2>4. \A g \in Groups : \A r \in taken[g] : r.revision \in Nat
    BY <2>1 DEF Receipt, Revision
  <2>5. \A g \in Groups : \A r \in taken'[g] :
          r.key = r.number /\ r.revision <= service'[g].revision
    BY <2>1, <2>2, <2>3, <2>4 DEF ServiceInv
  <2> QED
    BY <2>2, <2>3, <2>5 DEF Onwards
<1>6. CASE OtherBootstraps
  <2>1. /\ UNCHANGED <<service, taken>> /\ phase = "pending_bootstrap"
    BY <1>6 DEF OtherBootstraps
  <2>2. \A g \in Groups : service[g].revision \in Nat
    <3>1. TypeOK
      BY Zenon DEF Inv
    <3> QED
      BY ONLY <3>1 DEF TypeOK, Revision
  <2> QED
    BY <2>1, <2>2 DEF Onwards, Inv, ServiceInv
<1> QED
  BY <1>2, <1>3, <1>4, <1>5, <1>6, SameOnwards, BootstrapOnwards DEF RemoteMove

-----------------------------------------------------------------------------
(* What stays, whatever the step.                                          *)

LEMMA StepLocal ==
  ASSUME Step
  PROVE  UNCHANGED <<decided, seen, recorded>> \/ \E g \in Groups : Decide(g)
BY LateType
DEF Step, Connect, OtherDecides, ArrivesLate, OtherBootstraps, SyncStarts,
    Abort, Pull, Recover, Build, Submit, Mark, List, Send, Settle, Conflict,
    Finish, local

LEMMA DecidedType ==
  ASSUME TypeOK, NEW g \in Groups PROVE decided[g] \in Nat
<1>1. decided[g] \in Number \cup {None}
  BY DEF TypeOK, Payload
<1>2. None \in Nat
  BY DEF None
<1> QED
  BY <1>1, <1>2, NumberFacts

\* The steps of the service leave everything here alone.
LEMMA StepCases ==
  ASSUME TypeOK, Step
  PROVE  \/ UNCHANGED <<local, sync>>
         \/ Connect \/ (\E g \in Groups : Decide(g)) \/ SyncStarts \/ Abort
         \/ Pull \/ Recover \/ Build \/ Submit \/ Mark \/ List \/ Send
         \/ Settle \/ Conflict \/ Finish
<1>1. ASSUME NEW g \in Groups, OtherDecides(g) PROVE UNCHANGED <<local, sync>>
  BY <1>1 DEF OtherDecides
<1>2. CASE ArrivesLate
  BY <1>2, LateType
<1>3. CASE OtherBootstraps
  BY <1>3 DEF OtherBootstraps
<1> QED
  BY <1>1, <1>2, <1>3 DEF Step

LEMMA FaithfulStays ==
  ASSUME Inv, Step, NEW g, NEW n, NEW b, Faithful(g, n, b)
  PROVE  Faithful(g, n, b)'
<1>1. /\ g \in Groups /\ n \in Number /\ n \in Nat /\ n <= decided[g]
      /\ decided[g] \in Nat
      /\ b = seen[g][n] /\ b <= service[g].revision
  BY NumberFacts, DecidedType DEF Faithful, Inv
<1>2. b <= service'[g].revision
  <2>1. /\ b \in Nat /\ service[g].revision \in Nat
        /\ service'[g].revision \in Nat
        /\ service'[g].revision >= service[g].revision
    BY <1>1, StepOnwards, StepType DEF Inv, TypeOK, Revision, Onwards
  <2> QED
    BY <1>1, <2>1
<1>3. CASE UNCHANGED <<decided, seen>>
  BY <1>1, <1>2, <1>3 DEF Faithful
<1>4. ASSUME NEW h \in Groups, Decide(h)
      PROVE  n <= decided'[g] /\ seen'[g][n] = seen[g][n]
  <2>1. /\ decided' = [decided EXCEPT ![h] = decided[h] + 1]
        /\ seen' = [seen EXCEPT ![h][decided[h] + 1] = known[h]]
        /\ DOMAIN decided = Groups /\ seen \in [Groups -> [Number -> Nat]]
    BY <1>4 DEF Decide, Inv, TypeOK, Payload, Revision
  <2>2. CASE g = h
    BY <1>1, <2>1, <2>2
  <2>3. CASE g # h
    BY <1>1, <2>1, <2>3
  <2> QED
    BY <2>2, <2>3
<1> QED
  BY <1>1, <1>2, <1>3, <1>4, StepLocal DEF Faithful

LEMMA RefusedStays ==
  ASSUME Inv, Step, phase = "connected", NEW g, NEW n, NEW b,
         Faithful(g, n, b), Refused(g, n, b)
  PROVE  Refused(g, n, b)'
<1>1. /\ g \in Groups /\ n \in Number /\ b = seen[g][n]
      /\ b \in Nat /\ b < service[g].revision /\ Receipts(g, n) = {}
  BY DEF Faithful, Refused, Inv, TypeOK, Revision
<1>2. /\ service[g].revision \in Nat /\ service'[g].revision \in Nat
      /\ service'[g].revision >= service[g].revision
  BY <1>1, StepOnwards, StepType DEF Inv, TypeOK, Revision, Onwards
<1>3. b < service'[g].revision
  BY <1>1, <1>2
<1>4. ASSUME NEW r \in taken'[g], r.number = n PROVE FALSE
  <2>1. CASE r \in taken[g]
    BY <1>1, <1>4, <2>1 DEF Receipts
  <2>2. CASE r \notin taken[g]
    BY <1>1, <1>2, <1>4, <2>2, StepOnwards DEF Onwards
  <2> QED
    BY <2>1, <2>2
<1> QED
  BY <1>3, <1>4 DEF Refused, Receipts

LEMMA ReceiptsStay ==
  ASSUME Inv, Step, phase = "connected", NEW g \in Groups, NEW n,
         Receipts(g, n) # {}
  PROVE  Receipts(g, n)' # {}
BY StepOnwards DEF Receipts, Onwards

-----------------------------------------------------------------------------
(* The conjuncts.                                                          *)

LEMMA StepPhase == ASSUME Inv, Step PROVE PhaseInv'
<1>1. /\ TypeOK /\ PhaseInv /\ HandOK /\ sync \in Sync
      /\ phase = "connected" => phase' = "connected"
  BY StepOnwards, Types DEF Inv, Onwards, HandOK
<1>2. Committed' => phase' = "connected"
  <2>1. CASE UNCHANGED <<site, sync>>
    BY <1>1, <2>1 DEF PhaseInv, Committed
  <2>2. CASE Connect
    BY <1>1, <2>2 DEF Connect, PhaseInv, Committed
  <2>3. CASE SyncStarts
    BY <1>1, <2>3 DEF SyncStarts, PhaseInv, Committed, Idle, local
  <2>4. ASSUME sync' = Idle, UNCHANGED site PROVE Committed' => phase' = "connected"
    BY <1>1, <2>4 DEF PhaseInv, Committed, Idle
  <2>5. CASE Pull
    BY <1>1, <2>4, <2>5, GotoType DEF Pull, PhaseInv, Committed, SyncAt
  <2>6. CASE Recover \/ Mark
    BY <1>1, <2>6 DEF Recover, Mark, At, PhaseInv, Committed
  <2>7. CASE Build
    BY <1>1, <2>7 DEF Build, PhaseInv, Committed, Sync, local
  <2>8. CASE Submit
    <3>1. CASE sync.bootstrapped
      BY <1>1, <3>1 DEF PhaseInv, Committed
    <3>2. CASE ~sync.bootstrapped
      BY <1>1, <2>4, <2>8, <3>2 DEF Submit, Bootstraps, local
    <3> QED
      BY <3>1, <3>2
  <2>9. CASE List \/ Send \/ Settle \/ Conflict \/ Finish
    BY <1>1, <2>9 DEF List, Send, Settle, Conflict, Finish, At, PhaseInv, Committed
  <2> QED
    BY <1>1, <2>1, <2>2, <2>3, <2>4, <2>5, <2>6, <2>7, <2>8, <2>9, StepCases
    DEF Decide, Abort, local
<1>3. ASSUME NEW g \in Groups, outbox'[g] # NoRow \/ recorded'[g] # None
      PROVE  site' = "bootstrapped"
  <2>1. CASE UNCHANGED <<site, outbox, recorded>>
    BY <1>1, <1>3, <2>1 DEF PhaseInv
  <2>2. ASSUME NEW h \in Groups, Decide(h) PROVE site' = "bootstrapped"
    BY <1>1, <1>3, <2>2 DEF Decide, PhaseInv
  <2>3. CASE Connect
    BY <1>1, <1>3, <2>3 DEF Connect, PhaseInv
  <2>4. CASE Recover \/ Mark
    BY <2>4 DEF Recover, Mark
  <2>5. CASE Settle
    <3>1. outbox'[g] # NoRow => outbox[g] # NoRow
      BY <1>1, <2>5 DEF Settle, TypeOK
    <3> QED
      BY <1>1, <1>3, <2>5, <3>1 DEF Settle, PhaseInv
  <2>6. CASE Conflict
    <3>1. outbox[g] = NoRow => outbox'[g] = NoRow
      BY <1>1, <2>6, RowFacts DEF Conflict, At, IsRow, HandOK, TypeOK
    <3> QED
      BY <1>1, <1>3, <2>6, <3>1 DEF Conflict, PhaseInv
  <2> QED
    BY <1>1, <2>1, <2>2, <2>3, <2>4, <2>5, <2>6, StepCases
    DEF SyncStarts, Abort, Pull, Build, Submit, List, Send, Finish, local
<1> QED
  BY <1>2, <1>3 DEF PhaseInv

LEMMA StepService == ASSUME Inv, Step PROVE ServiceInv'
<1>1. TypeOK /\ TypeOK' /\ Onwards /\ ServiceInv /\ HandInv /\ HandOK
  <2>1. TypeOK /\ ServiceInv /\ HandInv
    BY Zenon DEF Inv
  <2> QED
    BY <2>1, StepType, StepOnwards, Types, Zenon
<1>2. ASSUME NEW g \in Groups PROVE known'[g] <= service'[g].revision
  <2>1. /\ known[g] \in Nat /\ known'[g] \in Nat /\ service[g].revision \in Nat
        /\ service'[g].revision \in Nat /\ known[g] <= service[g].revision
        /\ service'[g].revision >= service[g].revision
    BY <1>1 DEF TypeOK, Revision, Onwards, ServiceInv
  <2>2. SUFFICES known'[g] <= service[g].revision
    BY <2>1
  <2>3. CASE UNCHANGED known
    BY <2>1, <2>3
  <2>4. CASE Pulled
    BY <1>1, <2>1, <2>4, PulledType DEF Raised
  <2>5. CASE Settle \/ Conflict
    <3>1. CASE UNCHANGED known
      BY <2>3, <3>1
    <3>2. CASE Learn(sync.group, sync.revision)
      <4> DEFINE h == sync.group rev == sync.revision
      <4>1. known \in [Groups -> Revision] /\ rev \in Nat
        BY <1>1 DEF TypeOK, Sync, Revision
      <4>2. rev <= service[h].revision
        BY <1>1, <2>5 DEF Settle, Conflict, At, HandInv
      <4>3. known'[g] = IF g = h THEN Raised(known[h], rev) ELSE known[g]
        BY ONLY <3>2, <4>1, g \in Groups, Zenon DEF Learn
      <4> HIDE DEF h, rev
      <4> QED
        BY ONLY <2>1, <4>1, <4>2, <4>3 DEF Raised
    <3> QED
      BY <2>5, <3>1, <3>2 DEF Settle, Conflict
  <2> QED
    BY <1>1, <2>3, <2>4, <2>5, StepCases
    DEF Connect, Decide, SyncStarts, Abort, Pull, Recover, Build, Submit,
        Mark, List, Send, Finish, local
<1> QED
  BY <1>1, <1>2 DEF ServiceInv, Onwards

LEMMA StepRow == ASSUME Inv, Step PROVE RowInv'
<1> SUFFICES ASSUME NEW g \in Groups, outbox'[g] # NoRow
             PROVE  /\ Faithful(g, outbox[g].number, outbox[g].based)'
                    /\ outbox'[g].conflict =>
                         Refused(g, outbox[g].number, outbox[g].based)'
  BY DEF RowInv
<1>1. TypeOK /\ PhaseInv /\ RowInv /\ HandInv /\ HandOK /\ ServiceInv
  BY Types DEF Inv
<1>2. ASSUME outbox'[g] = outbox[g]
      PROVE  /\ Faithful(g, outbox[g].number, outbox[g].based)'
             /\ outbox'[g].conflict =>
                  Refused(g, outbox[g].number, outbox[g].based)'
  <2>1. /\ Faithful(g, outbox[g].number, outbox[g].based)
        /\ outbox[g].conflict =>
             Refused(g, outbox[g].number, outbox[g].based)
        /\ phase = "connected"
    BY <1>1, <1>2 DEF RowInv, PhaseInv, Committed
  <2> DEFINE n == outbox[g].number
             b == outbox[g].based
  <2>2. Faithful(g, n, b) /\ (outbox[g].conflict => Refused(g, n, b))
    BY <2>1
  <2>3. outbox'[g].number = n /\ outbox'[g].based = b
    BY <1>2
  <2> HIDE DEF n, b
  <2>4. \A x, y : Faithful(g, x, y) => Faithful(g, x, y)'
    BY FaithfulStays
  <2>5. \A x, y : Faithful(g, x, y) /\ Refused(g, x, y) => Refused(g, x, y)'
    BY <2>1, RefusedStays
  <2> QED
    BY <1>2, <2>2, <2>3, <2>4, <2>5 DEF Faithful, Refused, Receipts
<1>3. ASSUME NEW h \in Groups, Decide(h)
      PROVE  \/ outbox'[g] = outbox[g]
             \/ /\ Faithful(g, outbox[g].number, outbox[g].based)'
                /\ ~outbox'[g].conflict
  <2> DEFINE n == decided[h] + 1
             row == [number |-> n, based |-> known[h], conflict |-> FALSE]
  <2>1. /\ n \in Number /\ decided'[h] = n /\ seen'[h][n] = known[h]
        /\ outbox' \in {outbox, [outbox EXCEPT ![h] = row]}
        /\ UNCHANGED service
    BY <1>1, <1>3 DEF Decide, TypeOK, Payload, remote
  <2>2. row.number = n /\ row.based = known[h] /\ ~row.conflict
    OBVIOUS
  <2> HIDE DEF n, row
  <2>3. n <= n /\ known[h] <= service[h].revision
    <3>1. n \in Nat
      BY <2>1, NumberFacts
    <3>2. known[h] <= service[h].revision
      BY <1>1 DEF ServiceInv
    <3> QED
      BY <3>1, <3>2
  <2>4. CASE g = h /\ outbox' = [outbox EXCEPT ![h] = row]
    <3>1. outbox'[g] = row
      BY <1>1, <2>4 DEF TypeOK
    <3> QED
      BY <1>3, <2>1, <2>2, <2>3, <2>4, <3>1 DEF Faithful
  <2> QED
    BY <1>1, <2>1, <2>4 DEF TypeOK
<1>4. CASE Settle
  <2>1. \/ outbox'[g] = outbox[g] \/ outbox'[g] = NoRow
    BY <1>1, <1>4 DEF Settle, TypeOK
  <2> QED
    BY <1>2, <2>1
<1>5. CASE Conflict
  <2>1. CASE g = sync.group /\ IsRow(outbox[g], sync.row)
    <3> DEFINE n == sync.row.number
               b == sync.row.based
    <3>1. /\ Faithful(g, n, b) /\ Refused(g, n, b) /\ phase = "connected"
          /\ sync.row \in Outbound
      BY <1>1, <1>5, <2>1
      DEF Conflict, At, HandInv, PhaseInv, Committed, HandOK
    <3>2. outbox[g] # NoRow /\ outbox[g] \in Outbound
      BY <1>1, <2>1, <3>1, RowFacts DEF IsRow, TypeOK
    <3>3. outbox[g].number = n /\ outbox[g].based = b
      BY <1>1, <2>1, <3>1, <3>2 DEF IsRow, RowInv, Faithful
    <3>4. outbox'[g] = [outbox[g] EXCEPT !.conflict = TRUE]
      BY <1>1, <1>5, <2>1 DEF Conflict, TypeOK
    <3>5. outbox'[g].number = n /\ outbox'[g].based = b
      BY <3>2, <3>3, <3>4 DEF Outbound
    <3> HIDE DEF n, b
    <3>6. \A x, y : Faithful(g, x, y) => Faithful(g, x, y)'
      BY FaithfulStays
    <3>7. \A x, y : Faithful(g, x, y) /\ Refused(g, x, y) => Refused(g, x, y)'
      BY <3>1, RefusedStays
    <3> QED
      BY <3>1, <3>5, <3>6, <3>7 DEF Faithful, Refused, Receipts
  <2>2. CASE ~(g = sync.group /\ IsRow(outbox[g], sync.row))
    <3>1. outbox'[g] = outbox[g]
      BY <1>1, <1>5, <2>2 DEF Conflict, TypeOK
    <3> QED
      BY <1>2, <3>1
  <2> QED
    BY <2>1, <2>2
<1>6. CASE UNCHANGED outbox
  BY <1>2, <1>6
<1> QED
  BY <1>1, <1>2, <1>3, <1>4, <1>5, <1>6, StepCases
  DEF Connect, SyncStarts, Abort, Pull, Recover, Build, Submit, Mark, List,
      Send, Finish, local

LEMMA StepSent == ASSUME Inv, Step PROVE SentInv'
<1>1. TypeOK /\ RowInv /\ SentInv /\ sync \in Sync
  BY DEF Inv, TypeOK
<1>2. \A h, x, y : Faithful(h, x, y) => Faithful(h, x, y)'
  BY FaithfulStays
<1>3. ASSUME NEW c \in sync'.queue
      PROVE  Faithful(c.group, c.row.number, c.row.based)
  <2>1. CASE c \in sync.queue
    BY <1>1, <2>1 DEF SentInv
  <2>2. CASE List
    <3>1. sync'.queue = {[group |-> g, row |-> outbox[g]] : g \in
            {x \in Groups : outbox[x] # NoRow /\ ~outbox[x].conflict}}
      BY <1>1, <2>2 DEF List, Sync
    <3>2. PICK g \in Groups :
            outbox[g] # NoRow /\ c = [group |-> g, row |-> outbox[g]]
      BY <1>3, <3>1
    <3>3. c.group = g /\ c.row = outbox[g]
      BY <3>2
    <3> QED
      BY <1>1, <3>2, <3>3 DEF RowInv
  <2>3. sync'.queue \subseteq sync.queue \/ List
    <3>1. \A p \in SyncAt : Goto(p) => sync'.queue = sync.queue
      BY <1>1, GotoType
    <3>2. CASE Send
      <4>1. \A d, p, rev : Answered(d, p, rev) => sync'.queue = sync.queue \ {d}
        BY <1>1 DEF Answered, Sync
      <4>2. sync' = Idle \/ \E d, p, rev : Answered(d, p, rev)
        BY <1>1, <3>2, SendCases
      <4> QED
        BY <4>1, <4>2 DEF Idle
    <3>3. CASE Submit
      BY <1>1, <3>1, <3>3 DEF Submit, Idle, Sync, SyncAt
    <3>4. CASE Pull
      BY <1>1, <3>1, <3>4 DEF Pull, Idle, Sync, SyncAt
    <3>5. CASE Mark \/ Settle \/ Conflict
      BY <1>1, <3>1, <3>5 DEF Mark, Settle, Conflict, SyncAt
    <3>6. CASE SyncStarts \/ Abort \/ Finish
      <4>1. Idle \in Sync /\ Idle.queue = {}
        BY RowFacts DEF Idle
      <4> QED
        BY <3>6, <4>1 DEF SyncStarts, Abort, Finish, Sync
    <3>7. CASE Recover \/ Build
      BY <1>1, <3>7 DEF Recover, Build, Sync
    <3>8. CASE UNCHANGED sync
      BY <3>8
    <3> QED
      BY <1>1, <3>2, <3>3, <3>4, <3>5, <3>6, <3>7, <3>8, StepCases
      DEF Connect, Decide
  <2> QED
    BY <1>3, <2>1, <2>2, <2>3
<1>4. ASSUME NEW m \in wire' \cap Mutation
      PROVE  Faithful(m.group, m.number, m.based) /\ m.key = m.number
  <2>1. CASE m \in wire
    BY <1>1, <1>4, <2>1 DEF SentInv
  <2>2. CASE m \notin wire /\ Send
    <3>1. PICK c \in sync.queue :
            /\ c.group \in Groups /\ c.row \in Outbound
            /\ m = Entry(c.group, c.row)
      BY <1>1, <1>4, <2>2, SendCases
    <3> QED
      BY <1>1, <3>1, EntryType DEF SentInv
  <2>3. wire' \subseteq wire \/ Send \/ Submit
    BY <1>1, LateType
    DEF Step, Connect, Decide, OtherDecides, ArrivesLate, OtherBootstraps,
        SyncStarts, Abort, Pull, Recover, Build, Mark, List, Settle, Conflict,
        Finish
  <2>4. CASE Submit /\ m \notin wire
    <3>1. m = [payload |-> sync.payload]
      BY <1>4, <2>4 DEF Submit
    <3>2. DOMAIN m = {"payload"} /\ DOMAIN m = {"group", "number", "key", "based"}
      BY <1>4, <3>1 DEF Mutation
    <3> QED
      BY <3>2
  <2> QED
    BY <1>4, <2>1, <2>2, <2>3, <2>4
<1>5. \A c \in sync'.queue : Faithful(c.group, c.row.number, c.row.based)'
  BY <1>2, <1>3
<1>6. \A m \in wire' \cap Mutation : Faithful(m.group, m.number, m.based)'
  BY <1>2, <1>4
<1> QED
  BY <1>4, <1>5, <1>6 DEF SentInv

LEMMA StepHand == ASSUME Inv, Step PROVE HandInv'
<1>1. TypeOK /\ HandOK /\ HandInv /\ SentInv /\ PhaseInv /\ sync \in Sync
  BY Types DEF Inv, TypeOK
<1>2. SUFFICES ASSUME sync'.at \in {"settle", "conflict"} PROVE HandInv'
  BY DEF HandInv
<1>3. \A g, x, y : Faithful(g, x, y) => Faithful(g, x, y)'
  BY FaithfulStays
<1>4. \A g \in Groups : service[g].revision \in Nat /\ service'[g].revision \in Nat
                          /\ service'[g].revision >= service[g].revision
  BY StepOnwards, StepType DEF Inv, TypeOK, Revision, Onwards
<1>5. CASE UNCHANGED sync
  <2>0. PICK g, n, b : g = sync.group /\ n = sync.row.number /\ b = sync.row.based
    OBVIOUS
  <2>1. /\ phase = "connected" /\ g \in Groups /\ sync.revision \in Nat
        /\ Faithful(g, n, b) /\ sync.revision <= service[g].revision
        /\ sync.at = "settle" => Receipts(g, n) # {}
        /\ sync.at = "conflict" => Refused(g, n, b)
    BY <1>1, <1>2, <1>5, <2>0
    DEF HandInv, HandOK, PhaseInv, Committed, Sync, Revision
  <2>2. sync'.group = g /\ sync'.row.number = n /\ sync'.row.based = b
    BY <1>5, <2>0
  <2>3. \A x, y : Faithful(g, x, y) /\ Refused(g, x, y) => Refused(g, x, y)'
    BY <2>1, RefusedStays
  <2>4. \A x : Receipts(g, x) # {} => Receipts(g, x)' # {}
    BY <2>1, ReceiptsStay
  <2>5. sync.revision <= service'[g].revision
    BY <1>4, <2>1
  <2> QED
    BY <1>3, <1>5, <2>1, <2>2, <2>3, <2>4, <2>5
    DEF HandInv, Faithful, Refused, Receipts
<1>6. CASE Send /\ sync' # Idle
  <2>1. PICK c \in sync.queue :
           LET m == Entry(c.group, c.row) IN
           /\ c.group \in Groups /\ c.row \in Outbound /\ m \in Mutation
           /\ \/ wire' = wire \cup {m} /\ sync' = Idle /\ UNCHANGED remote
              \/ /\ Mutates(m) /\ UNCHANGED wire
                 /\ \/ sync' = Idle
                    \/ Accepts(m) /\ Answered(c, "settle", m.based + 1)
                    \/ \E r \in Answers(m) : Answered(c, "settle", r.revision)
                    \/ /\ ~Accepts(m) /\ Answers(m) = {}
                       /\ Answered(c, "conflict", service[m.group].revision)
    BY <1>1, <1>6, SendCases
  <2> DEFINE g == c.group
             n == c.row.number
             b == c.row.based
             m == Entry(c.group, c.row)
  <2>2. /\ Faithful(g, n, b) /\ g \in Groups /\ n \in Number /\ b \in Nat
        /\ m.group = g /\ m.number = n /\ m.key = n /\ m.based = b
        /\ c.row \in Outbound /\ c \in sync.queue
    BY <1>1, <2>1, EntryType, RowFacts DEF SentInv
  <2>3. /\ Mutates(m)
        /\ \/ Accepts(m) /\ Answered(c, "settle", m.based + 1)
           \/ \E r \in Answers(m) : Answered(c, "settle", r.revision)
           \/ /\ ~Accepts(m) /\ Answers(m) = {}
              /\ Answered(c, "conflict", service[m.group].revision)
    BY <1>6, <2>1
  <2>4. /\ ServiceInv /\ taken \in [Groups -> SUBSET Receipt]
        /\ service \in [Groups -> [revision : Nat, number : Number \cup {None}]]
    BY DEF Inv, TypeOK, Revision
  <2> HIDE DEF m
  <2>5. ASSUME NEW p \in {"settle", "conflict"}, NEW rev \in Nat,
               Answered(c, p, rev)
        PROVE  /\ sync'.at = p /\ sync'.group = g /\ sync'.row.number = n
               /\ sync'.row.based = b /\ sync'.revision = rev
    BY <1>1, <2>5, AnsweredType
  <2> HIDE DEF g, n, b
  <2>6. CASE Accepts(m) /\ Answered(c, "settle", m.based + 1)
    <3>1. /\ service'[g].revision = b + 1
          /\ [number |-> n, key |-> n, revision |-> b + 1] \in taken'[g]
      BY <2>2, <2>3, <2>4, <2>6 DEF Mutates
    <3>2. Receipts(g, n)' # {}
      BY <3>1 DEF Receipts
    <3>3. /\ sync'.at = "settle" /\ sync'.group = g /\ sync'.row.number = n
          /\ sync'.row.based = b /\ sync'.revision = b + 1
      BY <2>2, <2>5, <2>6
    <3>4. b + 1 <= b + 1
      BY <2>2
    <3> QED
      BY <1>3, <2>2, <3>1, <3>2, <3>3, <3>4 DEF HandInv, Faithful, Receipts
  <2>7. CASE \E r \in Answers(m) : Answered(c, "settle", r.revision)
    <3>1. PICK r \in Answers(m) : Answered(c, "settle", r.revision)
      BY <2>7
    <3>2. /\ r \in taken[g] /\ r.key = n /\ r.revision \in Nat
          /\ r.key = r.number /\ r.revision <= service[g].revision
      BY <2>2, <2>4, <3>1 DEF Answers, ServiceInv, Receipt, Revision
    <3>3. ~Accepts(m)
      BY <3>1 DEF Accepts
    <3>4. UNCHANGED remote
      BY <2>3, <3>3 DEF Mutates
    <3>5. Receipts(g, n)' # {} /\ r.revision <= service'[g].revision
      BY <3>2, <3>4 DEF Receipts, remote
    <3>6. /\ sync'.at = "settle" /\ sync'.group = g /\ sync'.row.number = n
          /\ sync'.row.based = b /\ sync'.revision = r.revision
      BY <2>5, <3>1, <3>2
    <3> QED
      BY <1>3, <2>2, <3>5, <3>6 DEF HandInv, Faithful, Receipts
  <2>8. CASE /\ ~Accepts(m) /\ Answers(m) = {}
             /\ Answered(c, "conflict", service[m.group].revision)
    <3>1. UNCHANGED remote
      BY <2>3, <2>8 DEF Mutates
    <3>2. service[g].revision \in Nat /\ b <= service[g].revision
      BY <1>4, <2>2 DEF Faithful
    <3>3. b # service[g].revision
      BY <2>2, <2>8 DEF Accepts
    <3>4. Receipts(g, n) = {}
      <4>1. \A r \in taken[g] : r.key = r.number /\ r.key # n
        BY <2>2, <2>4, <2>8 DEF Answers, ServiceInv
      <4> QED
        BY <4>1 DEF Receipts
    <3>5. Refused(g, n, b)'
      BY <2>2, <3>1, <3>2, <3>3, <3>4 DEF Refused, Receipts, remote
    <3>6. /\ sync'.at = "conflict" /\ sync'.group = g /\ sync'.row.number = n
          /\ sync'.row.based = b /\ sync'.revision = service[g].revision
      BY <2>2, <2>5, <2>8, <3>2
    <3>7. service[g].revision <= service'[g].revision
      BY <3>1, <3>2 DEF remote
    <3> QED
      BY <1>3, <2>2, <3>5, <3>6, <3>7 DEF HandInv, Faithful, Refused, Receipts
  <2> QED
    BY <2>3, <2>6, <2>7, <2>8
<1>7. CASE ~Send /\ ~UNCHANGED sync
  <2>1. \A p \in SyncAt : Goto(p) => sync'.at = p
    BY <1>1, GotoType
  <2>2. ASSUME sync' = Idle PROVE FALSE
    BY <1>2, <2>2 DEF Idle
  <2>3. ~Pull /\ ~Submit
    BY <1>1, <1>2, <2>1, <2>2 DEF Pull, Submit, Sync, SyncAt
  <2>4. ~Mark /\ ~Settle /\ ~Conflict
    BY <1>2, <2>1 DEF Mark, Settle, Conflict, SyncAt
  <2>5. ~Abort /\ ~Finish
    BY <2>2 DEF Abort, Finish
  <2>6. ~SyncStarts
    BY <1>2 DEF SyncStarts, Idle
  <2>7. ~Recover /\ ~Build /\ ~List
    BY <1>1, <1>2 DEF Recover, Build, List, Sync
  <2> QED
    BY <1>1, <1>7, <2>3, <2>4, <2>5, <2>6, <2>7, StepCases DEF Connect, Decide
<1> QED
  BY <1>2, <1>5, <1>6, <1>7 DEF Idle

LEMMA StepRecorded == ASSUME Inv, Step PROVE RecordedIsKept'
<1> SUFFICES ASSUME NEW g \in Groups, recorded'[g] # None
             PROVE  outbox'[g].number = recorded'[g]
                      \/ Receipts(g, recorded[g])' # {}
  BY DEF RecordedIsKept
<1>1. TypeOK /\ HandOK /\ HandInv /\ PhaseInv /\ RecordedIsKept
  BY Types DEF Inv
<1>2. ASSUME recorded'[g] = recorded[g], outbox'[g].number = outbox[g].number
      PROVE  outbox'[g].number = recorded'[g] \/ Receipts(g, recorded[g])' # {}
  <2>1. phase = "connected"
    BY <1>1, <1>2 DEF PhaseInv, Committed
  <2>2. outbox[g].number = recorded[g] \/ Receipts(g, recorded[g]) # {}
    BY <1>1, <1>2 DEF RecordedIsKept
  <2>3. \A x : Receipts(g, x) # {} => Receipts(g, x)' # {}
    BY <2>1, ReceiptsStay
  <2> QED
    BY <1>2, <2>2, <2>3 DEF Receipts
<1>3. ASSUME NEW h \in Groups, Decide(h)
      PROVE  outbox'[g].number = recorded'[g] \/ Receipts(g, recorded[g])' # {}
  <2>1. CASE g = h /\ site = "bootstrapped"
    BY <1>1, <1>3, <2>1 DEF Decide, TypeOK, Payload
  <2>2. CASE ~(g = h /\ site = "bootstrapped")
    BY <1>1, <1>2, <1>3, <2>2 DEF Decide, TypeOK, Payload
  <2> QED
    BY <2>1, <2>2
<1>4. CASE Settle
  <2>1. CASE g = sync.group /\ IsRow(outbox[g], sync.row)
    <3> DEFINE n == sync.row.number
    <3>1. /\ phase = "connected" /\ Receipts(g, n) # {}
          /\ outbox[g].number = n
      BY <1>1, <1>4, <2>1 DEF Settle, At, HandInv, PhaseInv, Committed, IsRow
    <3>2. recorded'[g] = recorded[g]
      BY <1>4 DEF Settle
    <3>3. recorded[g] = n \/ Receipts(g, recorded[g]) # {}
      BY <1>1, <3>1, <3>2 DEF RecordedIsKept
    <3> HIDE DEF n
    <3>4. \A x : Receipts(g, x) # {} => Receipts(g, x)' # {}
      BY <3>1, ReceiptsStay
    <3> QED
      BY <3>1, <3>2, <3>3, <3>4 DEF Receipts
  <2>2. CASE ~(g = sync.group /\ IsRow(outbox[g], sync.row))
    BY <1>1, <1>2, <1>4, <2>2 DEF Settle, TypeOK
  <2> QED
    BY <2>1, <2>2
<1>5. CASE Conflict
  <2>1. /\ sync.group \in Groups /\ sync.row \in Outbound
        /\ outbox \in [Groups -> Outbound \cup {NoRow}]
    BY <1>1, <1>5 DEF Conflict, At, HandOK, TypeOK
  <2>2. outbox'[g].number = outbox[g].number
    <3>1. CASE outbox'[g] = outbox[g]
      BY <3>1
    <3>2. CASE outbox'[g] # outbox[g]
      <4>1. IsRow(outbox[g], sync.row)
            /\ outbox'[g] = [outbox[g] EXCEPT !.conflict = TRUE]
        BY <1>5, <2>1, <3>2 DEF Conflict
      <4>2. outbox[g] \in Outbound
        BY <2>1, <4>1, RowFacts DEF IsRow
      <4> QED
        BY <4>1, <4>2 DEF Outbound
    <3> QED
      BY <3>1, <3>2
  <2> QED
    BY <1>2, <1>5, <2>2 DEF Conflict
<1>6. CASE UNCHANGED <<outbox, recorded>>
  BY <1>2, <1>6
<1> QED
  BY <1>1, <1>3, <1>4, <1>5, <1>6, StepCases
  DEF Connect, SyncStarts, Abort, Pull, Recover, Build, Submit, Mark, List,
      Send, Finish, local

LEMMA NextInv == ASSUME Inv, [Step]_vars PROVE Inv'
<1>1. CASE Step
  BY <1>1, StepType, StepPhase, StepService, StepRow, StepSent, StepHand,
     StepRecorded DEF Inv
<1>2. CASE UNCHANGED vars
  <2>1. UNCHANGED <<decided, site, known, outbox, recorded, seen, phase,
                    service, taken, wire, sync, others>>
    BY <1>2 DEF vars, local, remote
  <2> QED
    BY <2>1
    DEF Inv, TypeOK, PhaseInv, ServiceInv, RowInv, SentInv, HandInv,
        RecordedIsKept, Committed, Faithful, Refused, Receipts
<1> QED
  BY <1>1, <1>2

LEMMA Invariance == Spec => []Inv
BY InitInv, NextInv, PTL DEF Spec

-----------------------------------------------------------------------------
(* The theorems.                                                           *)

\* Rows, revisions, requests and the hand of the sync keep their types,
\* whatever sync_connected_site, the user and the service do.
THEOREM OutboxTypes == Spec => []TypeOK
<1>1. Inv => TypeOK
  BY DEF Inv
<1> QED
  BY <1>1, Invariance, PTL

\* A decision that went to the outbox (record_group_decision) stays there until
\* the service has taken it or a newer one has replaced it: settle_group_mutation
\* takes out only the row of the decision that was sent.
THEOREM RecordedStays == Spec => []RecordedIsKept
<1>1. Inv => RecordedIsKept
  BY DEF Inv
<1> QED
  BY <1>1, Invariance, PTL

\* A row that record_mutation_conflict marked as refused is of a decision the
\* service has never taken, although answers are lost and requests are late.
THEOREM TakenNeverConflicts == Spec => []TakenIsNoConflict
<1>1. Inv => TakenIsNoConflict
  <2> SUFFICES ASSUME Inv, NEW g \in Groups, outbox[g].conflict
               PROVE  Receipts(g, outbox[g].number) = {}
    BY DEF TakenIsNoConflict
  <2>1. outbox[g] # NoRow
    BY RowFacts
  <2> QED
    BY <2>1 DEF Inv, RowInv, Refused
<1> QED
  BY <1>1, Invariance, PTL

\* Once the site is bootstrapped, mutate_group sends every decision on the
\* revision that was known when it was made, so that it overrules no state its
\* user could not have seen.
THEOREM OverrulesOnlySeen == Spec => OverrulesWhatWasSeen
<1> DEFINE Overrules ==
      \A g \in Groups : \A n \in Number :
        (phase = "connected" /\ service'[g].number = n /\ service'[g] # service[g])
            => seen[g][n] = service[g].revision
<1>1. Inv /\ [Step]_vars => [Overrules]_vars
  <2>1. ASSUME Inv, Step PROVE Overrules
    BY <2>1, StepOnwards, NumberFacts DEF Onwards
  <2> HIDE DEF Overrules
  <2> QED
    BY <2>1
<1>2. [][Overrules]_vars <=> OverrulesWhatWasSeen
  BY DEF OverrulesWhatWasSeen
<1> HIDE DEF Overrules
<1> QED
  BY <1>1, <1>2, Invariance, PTL DEF Spec
=============================================================================
