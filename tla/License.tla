------------------------------ MODULE License -------------------------------
(***************************************************************************)
(* The license of the installation: the commands of licensing/commands/    *)
(* (activate, validate, deactivate), the write generation of               *)
(* licensing/generation.rs, the loop of background/catalog_refresh.rs with *)
(* its credential and its retries, and the import of a backup.             *)
(*                                                                         *)
(* A row of the database, a key in the keychain, a seat at the provider    *)
(* and a credential at the catalog service belong together, and no two of  *)
(* them are written in one transaction.  Writers of the row and of the key *)
(* hold LICENSE_MUTATION; the credential, its token and the releases that  *)
(* are owed are under CREDENTIAL_LOCK.  The network and the dialogs are    *)
(* awaited without the former.                                             *)
(*                                                                         *)
(* A lock that is taken and given back without an await that matters to    *)
(* others is one step.  An operation of the database is done, refused, or  *)
(* timed out and done later, in the order of the worker's queue: whoever   *)
(* reads the row waits for what is queued.  What the commands answer, the  *)
(* tier and the dates of the row are left out, and so is an end of the     *)
(* process, which loses what a handler has in hand.                        *)
(***************************************************************************)
EXTENDS Integers, Sequences

CONSTANTS
    Handlers,     \* the commands that are called
    Loop,         \* the catalog loop
    Nobody,       \* who holds a lock that is free
    Original,     \* the installation that was there before
    NoInst,       \* no installation
    Roles,        \* which commands, a subset of Role
    LicenseKeys,  \* how many license keys the user has
    MaxTruth,     \* bound: changes of the subscription at the provider
    MaxTicks,     \* bound: ticks of the catalog loop
    MaxImports,   \* bound: imports of a backup
    MaxFaults     \* bound: operations that fail

Role == {"validate", "activate", "deactivate"}
Actors == Handlers \cup {Loop}

Keys == 1 .. LicenseKeys
NoKey == 0

\* A command mints at most one installation, which is named after it.
Insts == Handlers \cup {Original}
Minted(h) == h

VARIABLES
    row,       \* the row of license_state
    queue,     \* operations that timed out and that the worker has yet to do
    key,       \* the license key in the keychain
    token,     \* whose catalog token is in the keychain
    owed,      \* the pending releases in the keychain
    behind,    \* handlers whose captured write generation is not the current
    license,   \* who holds LICENSE_MUTATION
    guard,     \* who holds CREDENTIAL_LOCK
    job,       \* the locals of the commands and of the loop
    drain,     \* the loop's pass over the pending releases
    keyOf,     \* the key an installation was minted with
    seats,     \* the provider's activations
    creds,     \* the catalog service's credentials, by key and installation
    truth,     \* how often the subscription changed: active while even
    stranded,  \* history: seats and credentials nobody here can release: the
               \* service refuses, no record could be made, or no answer told
    torn,      \* history: what was written could not be put back
    overtaken, \* history: releases that were recorded again after the pass
               \* under way had settled them
    ticks, imports, faults

local == <<row, queue, behind>>
debts == <<owed, overtaken>>
ring == <<key, token, debts>>
locks == <<license, guard>>
remote == <<keyOf, seats, creds>>
rest == <<truth, torn>>
vars == <<local, ring, locks, remote, job, drain, rest, stranded,
          ticks, imports, faults>>

\* `verdict` is the provider's truth the row reflects, `ok` its entitlement.
NoRow == [inst |-> NoInst, verdict |-> 0, ok |-> FALSE]
Row == [inst : Insts \cup {NoInst}, verdict : 0 .. MaxTruth, ok : BOOLEAN]

\* `key` is the key in hand, `old` and `oldKey` what was installed when the
\* handler looked, `new` what it minted (of the loop: the token it presents),
\* `verdict` and `ok` the provider's answer, `plan` the ActivationPlan, `again`
\* that a verdict was discarded or the own seat released, `prev` the row that
\* is replaced.
PC == {"idle", "over", "capture", "load", "ask", "commit", "plan", "recheck",
       "mint", "remint", "teardown", "persist", "save", "restore", "sweep",
       "ensure", "check", "issue", "clear", "reread", "tombstone", "forget",
       "credential", "drain", "token", "fetch", "reject", "adopt",
       "rekey", "stray",
       "releaseOwn", "releaseOld", "releaseNew", "releaseSeat",
       "recordOwn", "recordOld", "recordNew", "recordSeat"}
Job == [role : Role \cup {"none", "tick"}, pc : PC,
        key : Keys \cup {NoKey}, old : Insts \cup {NoInst},
        oldKey : Keys \cup {NoKey}, new : Insts \cup {NoInst},
        verdict : 0 .. MaxTruth, ok : BOOLEAN,
        plan : {"none", "active", "teardown", "fresh"}, again : BOOLEAN,
        prev : Row]
NoJob == [role |-> "none", pc |-> "idle", key |-> NoKey, old |-> NoInst,
          oldKey |-> NoKey, new |-> NoInst, verdict |-> 0, ok |-> FALSE,
          plan |-> "none", again |-> FALSE, prev |-> NoRow]
NoDrain == [left |-> {}, settled |-> {}]

Sides == {"provider", "catalog"}
Release == Keys \X Insts \X Sides
Operation == [op : {"update", "save", "clear", "undo", "import"}, row : Row,
              inst : Insts \cup {NoInst}]

\* Nothing is installed, or the first installation with its seat, its key
\* perhaps gone from the keychain: then nobody here can release it.
Init ==
    /\ row \in {NoRow, [inst |-> Original, verdict |-> 0, ok |-> TRUE]}
    /\ key \in IF row = NoRow THEN {NoKey} ELSE {NoKey, 1}
    /\ queue = <<>> /\ token = NoInst /\ owed = {} /\ behind = {}
    /\ license = Nobody /\ guard = Nobody
    /\ job = [a \in Actors |-> NoJob] /\ drain = NoDrain
    /\ keyOf = [i \in Insts |-> IF i = row.inst THEN 1 ELSE NoKey]
    /\ seats = Insts \cap {row.inst} /\ creds = {} /\ truth = 0
    /\ stranded = IF row # NoRow /\ key = NoKey THEN {Original} \X Sides ELSE {}
    /\ torn = FALSE /\ overtaken = {} /\ ticks = 0 /\ imports = 0 /\ faults = 0

-----------------------------------------------------------------------------
At(a, p) == job[a].pc = p
Goto(a, p) == job' = [job EXCEPT ![a].pc = p]
Done(a) == job' = [job EXCEPT ![a] = IF a = Loop THEN NoJob
                                     ELSE [NoJob EXCEPT !.pc = "over"]]

NoFault == UNCHANGED faults
Fault == faults < MaxFaults /\ faults' = faults + 1
Faults(n) == faults + n <= MaxFaults /\ faults' = faults + n

\* The generation matters to whom it is captured and not yet compared by.
Asking == {h \in Handlers : job[h].role = "validate" /\ job[h].pc # "capture"}

\* record_license_write, note_license_rows_replaced.
Bump == behind' = Asking

Active == truth % 2 = 0

-----------------------------------------------------------------------------
(* The database worker                                                     *)

\* update_validation changes the row whosever it is; `undo` is persist_
\* generation's restore, which looks whether its own row is the one there.
Applied(op) ==
    CASE op.op = "update" -> IF row = NoRow THEN row
                             ELSE [row EXCEPT !.verdict = op.row.verdict, !.ok = op.row.ok]
      [] op.op = "undo" -> IF row.inst = op.inst THEN op.row ELSE row
      [] OTHER -> op.row

Op(kind, r) == [op |-> kind, row |-> r, inst |-> NoInst]

\* The outcomes of a write: done, refused, or queued and unanswered.
Write(op) == /\ queue = <<>> /\ row' = Applied(op) /\ UNCHANGED queue /\ NoFault
Refuse == Fault /\ UNCHANGED <<row, queue>>
Postpone(op) == Fault /\ queue' = Append(queue, op) /\ UNCHANGED row

\* What was queued is done late, or fails late.
Land ==
    /\ queue # <<>> /\ queue' = Tail(queue)
    /\ LET op == Head(queue) IN
       \/ /\ row' = Applied(op) /\ UNCHANGED torn
          /\ behind' = IF op.op = "import" THEN Asking ELSE behind
       \/ /\ UNCHANGED row /\ torn' = (torn \/ op.op = "undo")
          /\ behind' \in {behind, IF op.op = "import" THEN Asking ELSE behind}
    /\ UNCHANGED <<ring, locks, remote, job, drain, truth, stranded,
                   ticks, imports, faults>>

-----------------------------------------------------------------------------
(* Releasing a seat and a credential                                       *)

\* release_orphaned_instance: which key and installation, and what is next.
Handle(h) ==
    LET j == job[h] IN
    CASE j.pc \in {"releaseOwn", "recordOwn"} ->
           [key |-> j.key, inst |-> j.old, next |-> "remint", record |-> "recordOwn"]
      [] j.pc \in {"releaseOld", "recordOld"} ->
           [key |-> IF j.plan = "teardown" THEN j.oldKey ELSE j.key,
            inst |-> j.old, record |-> "recordOld",
            next |-> IF j.plan = "teardown" THEN "persist" ELSE "stray"]
      [] j.pc \in {"releaseNew", "recordNew"} ->
           [key |-> j.key, inst |-> j.new, next |-> "over", record |-> "recordNew"]
      [] OTHER ->
           [key |-> j.key, inst |-> j.old, next |-> "over", record |-> "recordSeat"]

Goon(h, next) == IF next = "over" THEN Done(h) ELSE Goto(h, next)

\* An installation is known to the provider under its own key only.
Freed(k, i) == IF i \in seats /\ keyOf[i] = k THEN seats \ {i} ELSE seats

Released(h) ==
    /\ job[h].pc \in {"releaseOwn", "releaseOld", "releaseNew", "releaseSeat"}
    /\ LET r == Handle(h) IN
       \/ /\ seats' = Freed(r.key, r.inst) /\ NoFault
          /\ Goon(h, r.next) /\ UNCHANGED stranded
       \/ /\ Fault /\ UNCHANGED seats               \* a terminal refusal
          /\ stranded' = stranded \cup {<<r.inst, "provider">>}
          /\ Goon(h, r.next)
       \/ /\ Fault /\ seats' \in {seats, Freed(r.key, r.inst)}
          /\ Goto(h, r.record) /\ UNCHANGED stranded
    /\ UNCHANGED <<local, ring, locks, keyOf, creds, drain, rest, ticks, imports>>

\* store_pending_release: a side that is recorded already stays as it is.
Owe(releases) ==
    /\ owed' = owed \cup releases
    /\ overtaken' = overtaken \cup (releases \cap drain.settled)

\* record_pending_provider_release.
Recorded(h) ==
    /\ job[h].pc \in {"recordOwn", "recordOld", "recordNew", "recordSeat"}
    /\ guard = Nobody
    /\ LET r == Handle(h) IN
       /\ \/ /\ Owe({<<r.key, r.inst, "provider">>})
             /\ NoFault /\ UNCHANGED stranded
          \/ /\ Fault /\ UNCHANGED debts
             /\ stranded' = stranded \cup {<<r.inst, "provider">>}
       /\ Goon(h, r.next)
    /\ UNCHANGED <<local, key, token, locks, remote, drain, rest, ticks, imports>>

\* release_credential: released, refused, or failed and recorded or not; the
\* token goes in any case, unless the keychain fails.
ReleaseCredential(h, k, i) ==
    /\ guard = Nobody
    /\ LET freed == creds \ {<<k, i>>} IN
       \/ /\ creds' = freed /\ token' = NoInst /\ NoFault
          /\ UNCHANGED <<debts, stranded>>
       \/ /\ creds' = freed /\ Fault /\ UNCHANGED <<token, debts, stranded>>
       \/ /\ Fault /\ token' = NoInst /\ UNCHANGED <<creds, debts>>
          /\ stranded' = stranded \cup {<<i, "catalog">>}
       \/ /\ Fault /\ token' = NoInst /\ creds' \in {creds, freed}
          /\ Owe({<<k, i, "catalog">>}) /\ UNCHANGED stranded
       \/ /\ Faults(2) /\ token' = NoInst /\ creds' \in {creds, freed}
          /\ stranded' = stranded \cup {<<i, "catalog">>} /\ UNCHANGED debts
    /\ UNCHANGED <<local, key, locks, keyOf, seats, drain, rest, ticks, imports>>

-----------------------------------------------------------------------------
(* ensure_credential, of a command and of the loop                         *)

AfterEnsure(a, got) ==
    IF a = Loop THEN IF got THEN Goto(a, "fetch") ELSE Done(a)
    ELSE IF job[a].plan = "active"
         THEN job' = [job EXCEPT ![a] = [NoJob EXCEPT !.role = "validate", !.pc = "capture"]]
         ELSE Done(a)

\* The installation the credential is for.
For(a) == IF job[a].new = NoInst \/ a = Loop THEN job[a].old ELSE job[a].new

Ensure(a) ==
    /\ At(a, "ensure") /\ guard = Nobody
    /\ IF token # NoInst THEN AfterEnsure(a, TRUE) /\ UNCHANGED guard
                         ELSE Goto(a, "check") /\ guard' = a
    /\ UNCHANGED <<local, ring, license, remote, drain, rest, stranded, ticks,
                   imports, faults>>

\* Mutant of StillInstalled: the generation is not looked at again.
StillInstalledAnyhow(k, i) == TRUE

StillInstalled(k, i) == key = k /\ row.inst = i

\* Key and row are of the generation asked for, under both locks.
Check(a) ==
    /\ At(a, "check") /\ license = Nobody /\ queue = <<>>
    /\ IF StillInstalled(job[a].key, For(a))
         THEN Goto(a, "issue") /\ UNCHANGED guard
         ELSE AfterEnsure(a, FALSE) /\ guard' = Nobody
    /\ UNCHANGED <<local, ring, license, remote, drain, rest, stranded, ticks,
                   imports, faults>>

\* obtain_token: issued and stored, or not, whatever the service has done.
Issue(a) ==
    /\ At(a, "issue")
    /\ LET issued == creds \cup {<<job[a].key, For(a)>>} IN
       \/ creds' = issued /\ token' = For(a) /\ AfterEnsure(a, TRUE)
       \/ creds' \in {creds, issued} /\ UNCHANGED token /\ AfterEnsure(a, FALSE)
    /\ guard' = Nobody
    /\ UNCHANGED <<local, key, debts, license, keyOf, seats, drain, rest,
                   stranded, ticks, imports, faults>>

-----------------------------------------------------------------------------
(* validate_license                                                        *)

Start(h, role, k) ==
    /\ At(h, "idle")
    /\ job' = [job EXCEPT ![h].role = role, ![h].key = k,
                          ![h].pc = IF role = "validate" THEN "capture" ELSE "load"]
    /\ UNCHANGED <<local, ring, locks, remote, drain, rest, stranded, ticks,
                   imports, faults>>

Capture(h) ==
    /\ At(h, "capture") /\ behind' = behind \ {h} /\ Goto(h, "load")
    /\ UNCHANGED <<row, queue, ring, locks, remote, drain, rest, stranded,
                   ticks, imports, faults>>

\* load_cached_license_state, without the lock.  A read that fails ends the
\* command, and a validation may be answered from the cache.
Load(h) ==
    /\ At(h, "load")
    /\ \/ /\ queue = <<>>
          /\ row = NoRow => job[h].role = "activate"
          /\ job' = [job EXCEPT ![h].old = row.inst, ![h].ok = row.ok,
               ![h].pc = IF job[h].role = "validate" THEN "ask" ELSE "plan"]
       \/ Done(h)
    /\ UNCHANGED <<local, ring, locks, remote, drain, rest, stranded, ticks,
                   imports, faults>>

\* The provider on an installation under the key in the keychain.
Ask(h) ==
    /\ At(h, "ask")
    /\ \/ /\ key # NoKey
          /\ job' = [job EXCEPT ![h].pc = "commit", ![h].verdict = truth,
               ![h].ok = Active /\ job[h].old \in seats /\ keyOf[job[h].old] = key]
       \/ Done(h)
    /\ UNCHANGED <<local, ring, locks, remote, drain, rest, stranded, ticks,
                   imports, faults>>

\* Mutant of IsCurrent: only a replaced installation makes a verdict stale.
IsCurrentInstance(h) == row.inst = job[h].old

IsCurrent(h) == h \notin behind /\ row.inst = job[h].old

\* Under the lock a verdict of another generation is discarded, and the
\* provider asked once more.
Commit(h) ==
    /\ At(h, "commit") /\ license = Nobody
    /\ \/ /\ queue = <<>> /\ IsCurrent(h)
          /\ LET op == Op("update", [inst |-> job[h].old, verdict |-> job[h].verdict,
                                     ok |-> job[h].ok]) IN
             Write(op) \/ Refuse \/ Postpone(op)
          /\ Bump /\ Done(h)
       \/ /\ queue = <<>> /\ ~IsCurrent(h) /\ ~job[h].again
          /\ job' = [job EXCEPT ![h] = [NoJob EXCEPT !.role = "validate",
                                          !.pc = "capture", !.again = TRUE]]
          /\ UNCHANGED <<local, faults>>
       \/ Done(h) /\ UNCHANGED <<local, faults>>
    /\ UNCHANGED <<ring, locks, remote, drain, rest, stranded, ticks, imports>>

-----------------------------------------------------------------------------
(* activate_license                                                        *)

\* activation_plan, from the row that was read and the key that is.
Plan(h) ==
    /\ At(h, "plan") /\ job[h].role = "activate"
    /\ LET installed == job[h].old # NoInst /\ key # NoKey
           same == key = job[h].key
           plan == IF ~installed THEN "fresh"
                   ELSE IF same /\ job[h].ok THEN "active" ELSE "teardown"
       IN job' = [job EXCEPT ![h].plan = plan, ![h].oldKey = key,
            ![h].pc = IF plan = "active" THEN "ensure"
                      ELSE IF plan = "teardown" /\ ~same /\ job[h].ok
                      THEN "recheck" ELSE "mint"]
    /\ UNCHANGED <<local, ring, locks, remote, drain, rest, stranded, ticks,
                   imports, faults>>

SnapshotUnchanged(h) ==
    /\ row.inst = job[h].old
    /\ key = IF job[h].role = "activate" THEN job[h].oldKey ELSE job[h].key

\* The dialog; what it asked about must still be there.  (The row and the key
\* are read one after the other; persist_generation looks at both again.)
Confirm(h) ==
    /\ At(h, "recheck") /\ job[h].role = "activate"
    /\ \/ queue = <<>> /\ SnapshotUnchanged(h) /\ Goto(h, "mint")
       \/ Done(h)
    /\ UNCHANGED <<local, ring, locks, remote, drain, rest, stranded, ticks,
                   imports, faults>>

\* own_seat_retry_applies, once.
OwnSeat(h) ==
    /\ At(h, "mint") /\ job[h].old # NoInst
    /\ job[h].plan = "teardown" => job[h].oldKey = job[h].key

\* The provider mints an installation; one that cannot be used is released,
\* one that no answer told of cannot be.  At the limit the own seat is
\* released first.
Mint(h) ==
    /\ At(h, "mint") \/ At(h, "remint")
    /\ LET i == Minted(h) IN
       \/ /\ Active /\ seats' = seats \cup {i}
          /\ keyOf' = [keyOf EXCEPT ![i] = job[h].key]
          /\ \/ /\ \E p \in {"teardown", "releaseNew"} :
                    job' = [job EXCEPT ![h].new = i, ![h].verdict = truth, ![h].pc = p]
                /\ NoFault /\ UNCHANGED stranded
             \/ /\ Done(h) /\ Fault
                /\ stranded' = stranded \cup {<<i, "provider">>}
       \/ /\ OwnSeat(h)
          /\ job' = [job EXCEPT ![h].pc = "releaseOwn", ![h].again = TRUE]
          /\ NoFault /\ UNCHANGED <<seats, keyOf, stranded>>
       \/ Done(h) /\ NoFault /\ UNCHANGED <<seats, keyOf, stranded>>
    /\ UNCHANGED <<local, ring, locks, creds, drain, rest, ticks, imports>>

\* The predecessor's credential goes before its seat.
Teardown(h) ==
    /\ At(h, "teardown")
    /\ LET j == job[h]
           next == IF ~j.again THEN "releaseOld"
                   ELSE IF j.plan = "teardown" THEN "persist" ELSE "stray"
       IN IF j.old = NoInst
          THEN /\ Goto(h, "stray")
               /\ UNCHANGED <<local, ring, locks, remote, drain, rest, stranded,
                              ticks, imports, faults>>
          ELSE /\ ReleaseCredential(h, IF j.plan = "teardown" THEN j.oldKey ELSE j.key, j.old)
               /\ Goto(h, next)

\* delete_catalog_token, without the credential lock.
Stray(h) ==
    /\ At(h, "stray")
    /\ \/ token' = NoInst /\ NoFault /\ Goto(h, "persist")
       \/ UNCHANGED token /\ Fault /\ Goto(h, "releaseNew")
    /\ UNCHANGED <<local, key, debts, locks, remote, drain, rest, stranded,
                   ticks, imports>>

\* persist_generation: under the lock, if nothing has changed since the plan,
\* first the key ...
Persist(h) ==
    /\ At(h, "persist") /\ license = Nobody
    /\ \/ /\ queue = <<>> /\ SnapshotUnchanged(h)
          /\ \/ /\ key' = job[h].key /\ license' = h /\ NoFault
                /\ job' = [job EXCEPT ![h].pc = "save", ![h].prev = row]
             \/ Fault /\ Goto(h, "releaseNew") /\ UNCHANGED <<key, license>>
       \/ Goto(h, "releaseNew") /\ UNCHANGED <<key, license, faults>>
    /\ UNCHANGED <<local, token, debts, guard, remote, drain, rest, stranded,
                   ticks, imports>>

\* ... then the row.
Save(h) ==
    /\ At(h, "save")
    /\ LET op == Op("save", [inst |-> job[h].new, verdict |-> job[h].verdict, ok |-> TRUE]) IN
       \/ /\ Write(op) /\ license' = Nobody
          /\ Goto(h, IF job[h].plan = "teardown" THEN "sweep" ELSE "ensure")
       \/ (Refuse \/ Postpone(op)) /\ UNCHANGED license /\ Goto(h, "rekey")
    /\ Bump
    /\ UNCHANGED <<ring, guard, remote, drain, rest, stranded, ticks, imports>>

\* Mutant of RestoredKey: only the row is restored.
RestoredKeyNot(h) == key

RestoredKey(h) == job[h].oldKey

\* When the row could not be saved, the key is restored ...
Rekey(h) ==
    /\ At(h, "rekey")
    /\ \/ key' = RestoredKey(h) /\ NoFault /\ UNCHANGED torn
       \/ UNCHANGED key /\ Fault /\ torn' = TRUE
    /\ Goto(h, "restore")
    /\ UNCHANGED <<local, token, debts, locks, remote, drain, truth, stranded,
                   ticks, imports>>

\* ... and the row, behind a save that may yet be done.
Restore(h) ==
    /\ At(h, "restore")
    /\ LET op == [op |-> "undo", row |-> job[h].prev, inst |-> job[h].new]
       IN \/ (Write(op) \/ Postpone(op)) /\ UNCHANGED torn
          \/ Refuse /\ torn' = TRUE
    /\ Bump /\ license' = Nobody /\ Goto(h, "releaseNew")
    /\ UNCHANGED <<ring, guard, remote, drain, truth, stranded, ticks, imports>>

\* The loop may have got a credential for the predecessor since its teardown.
Sweep(h) ==
    /\ At(h, "sweep")
    /\ ReleaseCredential(h, job[h].oldKey, job[h].old)
    /\ Goto(h, "ensure")

-----------------------------------------------------------------------------
(* deactivate_license                                                      *)

FindKey(h) ==
    /\ At(h, "plan") /\ job[h].role = "deactivate"
    /\ job' = [job EXCEPT ![h].key = key, ![h].pc = "recheck"]
    /\ UNCHANGED <<local, ring, locks, remote, drain, rest, stranded, ticks,
                   imports, faults>>

\* After the dialog, under the lock, if nothing has changed.
Unlink(h) ==
    /\ At(h, "recheck") /\ job[h].role = "deactivate"
    /\ \/ /\ license = Nobody /\ queue = <<>> /\ SnapshotUnchanged(h)
          /\ license' = h /\ Goto(h, "clear")
       \/ Done(h) /\ UNCHANGED license
    /\ UNCHANGED <<local, ring, guard, remote, drain, rest, stranded, ticks,
                   imports, faults>>

Clear(h) ==
    /\ At(h, "clear")
    /\ LET op == Op("clear", NoRow) IN
       \/ Write(op) /\ Goto(h, "forget") /\ UNCHANGED license
       \/ Refuse /\ Done(h) /\ license' = Nobody
       \/ Postpone(op) /\ Goto(h, "reread") /\ UNCHANGED license
    /\ Bump
    /\ UNCHANGED <<ring, guard, remote, drain, rest, stranded, ticks, imports>>

\* Without a key nothing upstream can be released, as the dialog said.
Out(h) == stranded \cup {job[h].old} \X Sides

Forget(h) ==
    /\ At(h, "forget") /\ license' = Nobody
    /\ (key' = NoKey /\ NoFault) \/ (UNCHANGED key /\ Fault)
    /\ IF job[h].key = NoKey THEN Done(h) /\ stranded' = Out(h)
                             ELSE Goto(h, "credential") /\ UNCHANGED stranded
    /\ UNCHANGED <<local, token, debts, guard, remote, drain, rest, ticks, imports>>

\* An unanswered clear: the row is read again.  One that is still there proves
\* that nothing was cleared.
Reread(h) ==
    /\ At(h, "reread")
    /\ \/ /\ queue = <<>> /\ row.inst = job[h].old
          /\ Done(h) /\ license' = Nobody /\ UNCHANGED <<stranded, faults>>
       \/ /\ \/ queue = <<>> /\ row.inst # job[h].old /\ NoFault
             \/ Fault
          /\ IF job[h].key = NoKey
               THEN Done(h) /\ license' = Nobody /\ stranded' = Out(h)
               ELSE Goto(h, "tombstone") /\ UNCHANGED <<license, stranded>>
    /\ UNCHANGED <<local, ring, guard, remote, drain, rest, ticks, imports>>

\* record_pending_provider_release, while LICENSE_MUTATION is held.
Tombstone(h) ==
    /\ At(h, "tombstone") /\ guard = Nobody
    /\ \/ /\ Owe({<<job[h].key, job[h].old, side>> : side \in Sides})
          /\ NoFault /\ UNCHANGED stranded
       \/ Fault /\ stranded' = Out(h) /\ UNCHANGED debts
    /\ license' = Nobody /\ Done(h)
    /\ UNCHANGED <<local, key, token, guard, remote, drain, rest, ticks, imports>>

\* Unlinked here first, then upstream.
Credential(h) ==
    /\ At(h, "credential")
    /\ ReleaseCredential(h, job[h].key, job[h].old) /\ Goto(h, "releaseSeat")

-----------------------------------------------------------------------------
(* The loop: retry_pending_release, then tick                              *)

Tick ==
    /\ At(Loop, "idle") /\ ticks < MaxTicks /\ ticks' = ticks + 1
    /\ guard = Nobody
    /\ drain' = [left |-> owed, settled |-> {}]
    /\ job' = [job EXCEPT ![Loop].role = "tick",
                          ![Loop].pc = IF owed = {} THEN "load" ELSE "drain"]
    /\ UNCHANGED <<local, ring, locks, remote, rest, stranded, imports, faults>>

\* Each release that was owed at the snapshot; a terminal refusal settles it.
Retry(r) ==
    /\ At(Loop, "drain") /\ r \in drain.left
    /\ LET freed == IF r[3] = "provider" THEN Freed(r[1], r[2]) ELSE seats
           gone == IF r[3] = "catalog" THEN creds \ {<<r[1], r[2]>>} ELSE creds
           kept == [drain EXCEPT !.left = @ \ {r}]
           settles == [kept EXCEPT !.settled = @ \cup {r}]
       IN \/ /\ seats' = freed /\ creds' = gone /\ drain' = settles
             /\ NoFault /\ UNCHANGED stranded
          \/ /\ Fault /\ drain' = settles /\ UNCHANGED <<seats, creds>>
             /\ stranded' = stranded \cup {<<r[2], r[3]>>}
          \/ /\ Fault /\ drain' = kept /\ UNCHANGED stranded
             /\ \/ seats' = freed /\ creds' = gone
                \/ UNCHANGED <<seats, creds>>
    /\ UNCHANGED <<local, ring, locks, keyOf, job, rest, ticks, imports>>

\* settle_pending_release: what was recorded meanwhile stays.
Unsettled == owed \ drain.settled

Settle ==
    /\ At(Loop, "drain") /\ drain.left = {} /\ guard = Nobody
    /\ owed' = Unsettled \/ UNCHANGED owed
    /\ UNCHANGED overtaken
    /\ drain' = NoDrain /\ Goto(Loop, "load")
    /\ UNCHANGED <<local, key, token, locks, remote, rest, stranded, ticks,
                   imports, faults>>

\* Of an installation that is not entitled there is nothing to do.
Look ==
    /\ At(Loop, "load")
    /\ \/ /\ queue = <<>> /\ row.ok
          /\ job' = [job EXCEPT ![Loop].old = row.inst, ![Loop].pc = "token"]
       \/ Done(Loop)
    /\ UNCHANGED <<local, ring, locks, remote, drain, rest, stranded, ticks,
                   imports, faults>>

\* The manifest: the token is rejected, or the answer has a tier.
Present ==
    /\ token # NoInst
    /\ \E p \in {"reject", "adopt"} :
          job' = [job EXCEPT ![Loop].new = token, ![Loop].pc = p]

\* current_or_new_token; an error, or an answer without a tier, ends the tick.
FindToken ==
    /\ At(Loop, "token")
    /\ \/ Present
       \/ /\ token = NoInst /\ key # NoKey
          /\ job' = [job EXCEPT ![Loop].key = key, ![Loop].pc = "ensure"]
       \/ Done(Loop)
    /\ UNCHANGED <<local, ring, locks, remote, drain, rest, stranded, ticks,
                   imports, faults>>

Fetch ==
    /\ At(Loop, "fetch")
    /\ Present \/ Done(Loop)
    /\ UNCHANGED <<local, ring, locks, remote, drain, rest, stranded, ticks,
                   imports, faults>>

\* clear_rejected_token, if it is still the one that was presented.
Reject ==
    /\ At(Loop, "reject") /\ guard = Nobody
    /\ token' \in {token, IF token = job[Loop].new THEN NoInst ELSE token}
    /\ Done(Loop)
    /\ UNCHANGED <<local, key, debts, locks, remote, drain, rest, stranded,
                   ticks, imports, faults>>

\* adopt_server_tier writes the whole row back, with another tier.
Adopt ==
    /\ At(Loop, "adopt") /\ license = Nobody
    /\ \/ /\ queue = <<>> /\ row.inst = job[Loop].old
          /\ Write(Op("save", row)) \/ Refuse \/ Postpone(Op("save", row))
          /\ Bump
       \/ UNCHANGED <<local, faults>>
    /\ Done(Loop)
    /\ UNCHANGED <<ring, locks, remote, drain, rest, stranded, ticks, imports>>

-----------------------------------------------------------------------------
(* The backup and the provider                                             *)

\* What a backup may hold: no license, or the first installation as it was.
Backups == {NoRow, [inst |-> Original, verdict |-> 0, ok |-> TRUE]}

Import(backup) ==
    /\ imports < MaxImports /\ imports' = imports + 1
    /\ license = Nobody
    /\ LET op == Op("import", backup) IN
       \/ Write(op) /\ Bump
       \/ Refuse /\ behind' \in {behind, Asking}
       \/ Postpone(op) /\ UNCHANGED behind
    /\ UNCHANGED <<ring, locks, remote, job, drain, rest, stranded, ticks>>

\* The subscription is ended, or taken up again.
Turn ==
    /\ truth < MaxTruth /\ truth' = truth + 1 /\ UNCHANGED torn
    /\ UNCHANGED <<local, ring, locks, remote, job, drain, stranded, ticks,
                   imports, faults>>

Handler(h) ==
    \/ \E role \in Roles, k \in Keys :
          (role = "activate" \/ k = 1) /\ Start(h, role, k)
    \/ Capture(h) \/ Load(h) \/ Ask(h) \/ Commit(h)
    \/ Plan(h) \/ Confirm(h) \/ Mint(h) \/ Teardown(h) \/ Stray(h)
    \/ Persist(h) \/ Save(h) \/ Rekey(h) \/ Restore(h) \/ Sweep(h)
    \/ FindKey(h) \/ Unlink(h) \/ Clear(h) \/ Forget(h) \/ Reread(h)
    \/ Tombstone(h) \/ Credential(h) \/ Released(h) \/ Recorded(h)

Refresh ==
    \/ Tick \/ (\E r \in drain.left : Retry(r)) \/ Settle
    \/ Look \/ FindToken \/ Fetch \/ Reject \/ Adopt

Next ==
    \/ \E h \in Handlers : Handler(h)
    \/ Refresh
    \/ \E a \in Actors : Ensure(a) \/ Check(a) \/ Issue(a)
    \/ Land \/ Turn
    \/ \E backup \in Backups : Import(backup)

Spec == Init /\ [][Next]_vars

-----------------------------------------------------------------------------
TypeOK ==
    /\ row \in Row /\ key \in Keys \cup {NoKey} /\ token \in Insts \cup {NoInst}
    /\ queue \in Seq(Operation)
    /\ owed \subseteq Release /\ overtaken \subseteq Release
    /\ drain \in [left : SUBSET Release, settled : SUBSET Release]
    /\ behind \subseteq Handlers
    /\ license \in Handlers \cup {Nobody} /\ guard \in Actors \cup {Nobody}
    /\ job \in [Actors -> Job]
    /\ keyOf \in [Insts -> Keys \cup {NoKey}] /\ seats \subseteq Insts
    /\ creds \subseteq Keys \X Insts /\ stranded \subseteq Insts \X Sides
    /\ torn \in BOOLEAN /\ truth \in 0 .. MaxTruth /\ ticks \in 0 .. MaxTicks
    /\ imports \in 0 .. MaxImports /\ faults \in 0 .. MaxFaults

\* A backup is put in place of the database.
Restores ==
    \/ imports' # imports
    \/ queue # <<>> /\ Head(queue).op = "import" /\ queue' = Tail(queue)

\* "Invalidates asynchronous license verdicts after database writes and
\* restores": what the row says of an installation never goes back to an older
\* state of the subscription, although answers of the provider arrive in any
\* order, writes time out and are done later, and a whole row is written back
\* to adopt a tier; only the import of a backup may.
VerdictsAdvance ==
    [][row # NoRow /\ row'.inst = row.inst /\ ~Restores
         => row'.verdict >= row.verdict]_vars

\* A command that is changing the license still has this installation in hand.
InHand(i) ==
    \E h \in Handlers :
        /\ job[h].role \in {"activate", "deactivate"}
        /\ i \in {job[h].old, job[h].new}

\* What is to be done about a seat or a credential is known: it belongs to the
\* installed row, is in the hand of a command, is recorded to be released, or
\* nobody here can release it.
SeatKept(i) ==
    \/ row.inst = i \/ InHand(i) \/ <<i, "provider">> \in stranded
    \/ <<keyOf[i], i, "provider">> \in owed
CredentialKept(k, i) ==
    \/ row.inst = i \/ InHand(i) \/ <<i, "catalog">> \in stranded
    \/ <<k, i, "catalog">> \in owed

\* No seat and no credential is forgotten ("Unlink locally before releasing
\* upstream seats so a concurrent refresh cannot mint a credential after the
\* final release"), once the worker has done what timed out.  (A backup
\* replaces the row without a look at what it stood for, and so does a save
\* that could not be undone; of the releases that a pass over the record takes
\* off too much see AppendsSurvive.)
NothingIsForgotten ==
    imports = 0 /\ ~torn /\ queue = <<>> =>
        /\ \A i \in seats : SeatKept(i)
        /\ \A c \in creds :
             CredentialKept(c[1], c[2]) \/ <<c[1], c[2], "catalog">> \in overtaken

\* "Serializes keyring and row generation comparisons and writes": when nobody
\* is writing them the key in the keychain is that of the installed row, or
\* one of the two is missing, also after operations that failed, unless
\* putting them back failed too.
KeyFitsRow ==
    license = Nobody /\ queue = <<>> /\ ~torn /\ imports = 0
    /\ row # NoRow /\ key # NoKey => keyOf[row.inst] = key

-----------------------------------------------------------------------------
(* What a comment says and the code does not keep                          *)

\* "The credential lock may acquire this lock for bounded reads, but this lock
\* is never held while acquiring that one": no two actors hold one lock each
\* and wait for the other.
LocksAreOrdered ==
    ~ \E h \in Handlers, a \in Actors :
        license = h /\ At(h, "tombstone") /\ guard = a /\ At(a, "check")

\* "Snapshot without holding the credential lock across network waits, then
\* subtract only settled entries so concurrent appends survive": a credential
\* whose release is recorded while a pass is under way is not forgotten, also
\* when the pass has settled an earlier record of the same release.
AppendsSurvive ==
    imports = 0 /\ ~torn /\ queue = <<>> =>
        \A c \in creds : CredentialKept(c[1], c[2])
=============================================================================
