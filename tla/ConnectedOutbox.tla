-------------------------- MODULE ConnectedOutbox --------------------------
(***************************************************************************)
(* The user's decisions on issue groups on their way to the connected      *)
(* service: the outbox (db/connected_outbox.rs), the binding and the known *)
(* revisions (db/connected_sites.rs) and the sync that drains them         *)
(* (commands/connected.rs sync_connected_site).                            *)
(*                                                                         *)
(* The decisions on a group are numbered; the number stands for what was   *)
(* decided and for the key minted then.  A request is sent once: it is     *)
(* answered, or its answer is lost, or it arrives after the sync has given *)
(* up, or never.  The service is external: it keeps a revision of every    *)
(* group, refuses a mutation based on another, and answers a key it has    *)
(* taken as it did the first time.  Other people change groups there, and  *)
(* another installation may send the bootstrap.  One sync is in flight and *)
(* the site is not disconnected during it.                                 *)
(***************************************************************************)
EXTENDS Integers, FiniteSets

CONSTANTS
    Groups,         \* issue groups of the environment
    MaxDecisions,   \* bound: decisions on a group
    MaxOthers       \* bound: changes by others of a group, and 1 for a bootstrap

Number == 1 .. MaxDecisions
None == 0
Revision == Nat
Outbound == [number : Number, based : Revision, conflict : BOOLEAN]
NoRow == [number |-> None, based |-> 0, conflict |-> FALSE]
Receipt == [number : Number, key : Number, revision : Revision]

VARIABLES
    decided,    \* the decision in force here, by group
    site,       \* connected_sites: "none", "connected", "bootstrapped"
    known,      \* connected_group_revisions
    outbox,     \* connected_mutation_outbox
    recorded,   \* history: the last decision that went to the outbox
    seen,       \* history: the known revision when a decision was made
    phase,      \* of the site at the service
    service,    \* its groups: revision, and whose decision is in force
    taken,      \* receipts of what it has taken from here
    wire,       \* requests that are late
    sync,       \* the sync: where it is, and what it holds
    others

local == <<decided, site, known, outbox, recorded, seen>>
remote == <<phase, service, taken>>
vars == <<local, remote, wire, sync, others>>

Mutation == [group : Groups, number : Number, key : Number, based : Revision]
Payload == [Groups -> Number \cup {None}]
Request == Mutation \cup [payload : Payload]
NoPayload == [g \in Groups |-> None]
Idle == [at |-> "idle", bootstrapped |-> FALSE, payload |-> NoPayload,
         queue |-> {}, row |-> NoRow, group |-> None, revision |-> 0]
SyncAt == {"idle", "pull", "recover", "build", "submit", "mark", "list", "next",
           "settle", "conflict"}
Sync == [at : SyncAt, bootstrapped : BOOLEAN, payload : Payload,
         queue : SUBSET [group : Groups, row : Outbound],
         row : Outbound \cup {NoRow}, group : Groups \cup {None},
         revision : Revision]

Init ==
    /\ decided = NoPayload /\ site = "none"
    /\ known = [g \in Groups |-> 0]
    /\ outbox = [g \in Groups |-> NoRow]
    /\ recorded = NoPayload /\ seen = [g \in Groups |-> [n \in Number |-> 0]]
    /\ phase = "pending_bootstrap"
    /\ service = [g \in Groups |-> [revision |-> 0, number |-> None]]
    /\ taken = [g \in Groups |-> {}]
    /\ wire = {} /\ sync = Idle /\ others = 0

At(p) == sync.at = p
Goto(p) == sync' = [sync EXCEPT !.at = p]

-----------------------------------------------------------------------------
(* Decisions                                                               *)

\* connect_site.
Connect ==
    /\ site = "none" /\ site' = "connected"
    /\ UNCHANGED <<decided, known, outbox, recorded, seen, remote, wire, sync, others>>

\* record_group_decision: in the outbox it takes the place of the group's
\* undelivered one; before the bootstrap it is left to that.
Decide(g) ==
    LET n == decided[g] + 1 IN
    /\ n \in Number
    /\ decided' = [decided EXCEPT ![g] = n]
    /\ seen' = [seen EXCEPT ![g][n] = known[g]]
    /\ IF site = "bootstrapped"
         THEN /\ outbox' = [outbox EXCEPT ![g] = [number |-> n, based |-> known[g],
                                                  conflict |-> FALSE]]
              /\ recorded' = [recorded EXCEPT ![g] = n]
         ELSE UNCHANGED <<outbox, recorded>>
    /\ UNCHANGED <<site, known, remote, wire, sync, others>>

-----------------------------------------------------------------------------
(* The service                                                             *)

Receipts(g, n) == {r \in taken[g] : r.number = n}

Answers(m) == {r \in taken[m.group] : r.key = m.key}
Accepts(m) == Answers(m) = {} /\ m.based = service[m.group].revision

\* The service on a mutation ...
Mutates(m) ==
    IF Accepts(m)
      THEN LET rev == m.based + 1 IN
           /\ service' = [service EXCEPT ![m.group] = [revision |-> rev, number |-> m.number]]
           /\ taken' = [taken EXCEPT ![m.group] =
                  @ \cup {[number |-> m.number, key |-> m.key, revision |-> rev]}]
           /\ UNCHANGED phase
      ELSE UNCHANGED remote

\* ... and on a bootstrap, which it takes once.
Bootstraps(payload) ==
    IF phase = "pending_bootstrap"
      THEN LET Carried(g) == payload[g] # None
               rev(g) == service[g].revision + 1
           IN
           /\ phase' = "connected"
           /\ service' = [g \in Groups |-> IF Carried(g)
                 THEN [revision |-> rev(g), number |-> payload[g]] ELSE service[g]]
           /\ taken' = [g \in Groups |-> IF Carried(g)
                 THEN {[number |-> payload[g], key |-> payload[g], revision |-> rev(g)]}
                 ELSE taken[g]]
      ELSE UNCHANGED remote

\* A request whose sender gave up arrives.
ArrivesLate ==
    /\ \E r \in wire :
         /\ wire' = wire \ {r}
         /\ IF r \in Mutation THEN Mutates(r) ELSE Bootstraps(r.payload)
    /\ UNCHANGED <<local, sync, others>>

OtherDecides(g) ==
    /\ others < MaxOthers /\ others' = others + 1
    /\ service' = [service EXCEPT ![g] = [revision |-> @.revision + 1, number |-> None]]
    /\ UNCHANGED <<local, phase, taken, wire, sync>>

OtherBootstraps ==
    /\ phase = "pending_bootstrap" /\ phase' = "connected"
    /\ others < MaxOthers /\ others' = others + 1
    /\ UNCHANGED <<local, service, taken, wire, sync>>

-----------------------------------------------------------------------------
(* sync_connected_site                                                     *)

\* The user starts it; the binding is read once.
SyncStarts ==
    /\ At("idle") /\ site # "none"
    /\ sync' = [Idle EXCEPT !.at = "pull", !.bootstrapped = (site = "bootstrapped")]
    /\ UNCHANGED <<local, remote, wire, others>>

\* Any step fails, a request is not sent or is refused, or the process ends.
Abort ==
    /\ ~At("idle") /\ sync' = Idle
    /\ UNCHANGED <<local, remote, wire, others>>

\* raise_group_revision.
Raised(old, new) == IF new > old THEN new ELSE old

\* record_connected_pull with what pull_remote_state read.
Pulled == known' = [g \in Groups |-> Raised(known[g], service[g].revision)]

\* The first pull, and what the phase of the site says to that.
Pull ==
    /\ At("pull") /\ Pulled
    /\ IF phase = "connected"
         THEN IF sync.bootstrapped THEN Goto("build") ELSE Goto("recover")
         ELSE IF sync.bootstrapped THEN sync' = Idle ELSE Goto("build")
    /\ UNCHANGED <<decided, site, outbox, recorded, seen, remote, wire, others>>

\* The bootstrap was committed before: mark_site_bootstrapped.
Recover ==
    /\ At("recover") /\ site' = "bootstrapped"
    /\ sync' = [sync EXCEPT !.at = "build", !.bootstrapped = TRUE]
    /\ UNCHANGED <<decided, known, outbox, recorded, seen, remote, wire, others>>

\* build_connected_submission: with the groups as they are now, if they are due.
Build ==
    /\ At("build")
    /\ sync' = [sync EXCEPT !.at = "submit",
                            !.payload = IF sync.bootstrapped THEN NoPayload ELSE decided]
    /\ UNCHANGED <<local, remote, wire, others>>

\* sync_desktop.  The observations it also carries change no decision.
Submit ==
    /\ At("submit")
    /\ IF sync.bootstrapped
         THEN Goto("list") /\ UNCHANGED <<remote, wire>>
         ELSE \/ /\ phase = "pending_bootstrap" /\ Bootstraps(sync.payload)
                 /\ sync' \in {[sync EXCEPT !.at = "mark"], Idle} /\ UNCHANGED wire
              \/ /\ wire' = wire \cup {[payload |-> sync.payload]}
                 /\ sync' = Idle /\ UNCHANGED remote
    /\ UNCHANGED <<local, others>>

\* mark_site_bootstrapped.
Mark ==
    /\ At("mark") /\ site' = "bootstrapped" /\ Goto("list")
    /\ UNCHANGED <<decided, known, outbox, recorded, seen, remote, wire, others>>

\* pending_group_mutations, without those that wait for the user.
List ==
    /\ At("list")
    /\ sync' = [sync EXCEPT !.at = "next",
                 !.queue = {[group |-> g, row |-> outbox[g]] : g \in
                               {x \in Groups : outbox[x] # NoRow /\ ~outbox[x].conflict}}]
    /\ UNCHANGED <<local, remote, wire, others>>

\* Mutant of Key: minted when the decision is sent.
KeyOfSending(g, row) == row.number + MaxDecisions * (1 + known[g])

\* The key of the row, minted with the decision.
Key(g, row) == row.number

\* Mutant of Entry: an older decision is sent as one on what is known now.
EntryRebased(g, row) ==
    [group |-> g, number |-> row.number, key |-> Key(g, row), based |-> known[g]]

\* mutation_entry.
Entry(g, row) ==
    [group |-> g, number |-> row.number, key |-> Key(g, row), based |-> row.based]

\* mutate_group: it is answered, or its answer is lost, or it is late.
Send ==
    /\ At("next") /\ sync.queue # {}
    /\ \E c \in sync.queue :
         LET m == Entry(c.group, c.row)
             Answered(p, rev) == sync' = [sync EXCEPT !.at = p, !.queue = @ \ {c},
                                    !.group = c.group, !.row = c.row, !.revision = rev]
         IN
         \/ /\ Mutates(m) /\ UNCHANGED wire
            /\ \/ sync' = Idle
               \/ Accepts(m) /\ Answered("settle", m.based + 1)
               \/ \E r \in Answers(m) : Answered("settle", r.revision)
               \/ /\ ~Accepts(m) /\ Answers(m) = {}
                  /\ Answered("conflict", service[m.group].revision)
         \/ wire' = wire \cup {m} /\ sync' = Idle /\ UNCHANGED remote
    /\ UNCHANGED <<local, others>>

\* Mutant of IsRow: the row is found by its id, which a newer decision keeps.
IsRowById(row, sent) == row # NoRow

\* The row is still that of the decision that was sent.
IsRow(row, sent) == row.number = sent.number

Learn(g, rev) == known' = [known EXCEPT ![g] = Raised(@, rev)]

\* settle_group_mutation.
Settle ==
    /\ At("settle") /\ Goto("next")
    /\ IF IsRow(outbox[sync.group], sync.row)
         THEN /\ outbox' = [outbox EXCEPT ![sync.group] = NoRow]
              /\ Learn(sync.group, sync.revision)
         ELSE UNCHANGED <<outbox, known>>
    /\ UNCHANGED <<decided, site, recorded, seen, remote, wire, others>>

\* record_mutation_conflict.
Conflict ==
    /\ At("conflict") /\ Goto("next")
    /\ IF IsRow(outbox[sync.group], sync.row)
         THEN /\ outbox' = [outbox EXCEPT ![sync.group].conflict = TRUE]
              /\ Learn(sync.group, sync.revision)
         ELSE UNCHANGED <<outbox, known>>
    /\ UNCHANGED <<decided, site, recorded, seen, remote, wire, others>>

\* All are sent: the second pull, and the sync is over.
Finish ==
    /\ At("next") /\ sync.queue = {}
    /\ Pulled /\ sync' = Idle
    /\ UNCHANGED <<decided, site, outbox, recorded, seen, remote, wire, others>>

Step ==
    \/ Connect \/ (\E g \in Groups : Decide(g) \/ OtherDecides(g))
    \/ ArrivesLate \/ OtherBootstraps \/ SyncStarts \/ Abort \/ Pull \/ Recover
    \/ Build \/ Submit \/ Mark \/ List \/ Send \/ Settle \/ Conflict \/ Finish

Spec == Init /\ [][Step]_vars

-----------------------------------------------------------------------------
TypeOK ==
    /\ decided \in Payload /\ site \in {"none", "connected", "bootstrapped"}
    /\ known \in [Groups -> Revision] /\ outbox \in [Groups -> Outbound \cup {NoRow}]
    /\ recorded \in Payload /\ seen \in [Groups -> [Number -> Revision]]
    /\ phase \in {"pending_bootstrap", "connected"}
    /\ service \in [Groups -> [revision : Revision, number : Number \cup {None}]]
    /\ taken \in [Groups -> SUBSET Receipt] /\ wire \subseteq Request
    /\ sync \in Sync
    /\ sync.at \in {"settle", "conflict"} =>
         sync.group \in Groups /\ sync.row \in Outbound
    /\ others \in Nat

\* A decision that went to the outbox is there until the service has taken it
\* or the user has decided again: it is not removed by the answer to an earlier
\* one, nor by a sync that was cut off anywhere.
RecordedIsKept ==
    \A g \in Groups : recorded[g] # None =>
        outbox[g].number = recorded[g] \/ Receipts(g, recorded[g]) # {}

\* A decision overrules only the state of the group its user could have seen:
\* the service takes it on the revision that was known when it was made, "never
\* a later one" (connected_outbox.rs), although pulls between the decision and
\* the sync make newer ones known.
OverrulesWhatWasSeen ==
    [][\A g \in Groups : \A n \in Number :
          (phase = "connected" /\ service'[g].number = n /\ service'[g] # service[g])
              => seen[g][n] = service[g].revision]_vars

\* A decision the service has taken is not shown as refused, although its
\* answer was lost and it is sent again: "a retry after a crash mid-send is the
\* same request rather than a second decision" (connected_outbox.rs).
TakenIsNoConflict ==
    \A g \in Groups : outbox[g].conflict => Receipts(g, outbox[g].number) = {}

\* What the code says of a decision before the bootstrap: "Connected, but
\* bootstrap has not committed.  The bootstrap payload carries this group's
\* state already" (connected_outbox.rs).  Once the environment is bootstrapped,
\* the decision in force was sent or waits in the outbox.
CarriedByBootstrap ==
    site = "bootstrapped" => \A g \in Groups :
        decided[g] = None \/ outbox[g].number = decided[g] \/ Receipts(g, decided[g]) # {}
=============================================================================
