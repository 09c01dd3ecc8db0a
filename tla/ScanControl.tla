---------------------------- MODULE ScanControl ----------------------------
(***************************************************************************)
(* The cancellation registry of core/scan_control.rs.                      *)
(*                                                                         *)
(* Three sets of request ids, each behind a mutex of its own, are changed  *)
(* by `begin_request`, `request_cancel` and `finish_request`.  No mutex is *)
(* held from one set to the next, so every critical section below is one   *)
(* action and calls of different threads interleave between them.          *)
(*                                                                         *)
(* An attempt is one call of the backend that registers an id: the         *)
(* frontend mints the id and dispatches the call (`Dispatch`), the handler *)
(* registers, works, and unregisters when its guard is dropped.  A cancel  *)
(* is one call of the `cancel_scan` command.                               *)
(***************************************************************************)
EXTENDS FiniteSets

CONSTANTS
    Attempts,   \* calls that register a request id
    Cancels,    \* calls of the cancel_scan command
    Ids,        \* request ids
    NoId,       \* "no id yet"
    FreshIds    \* TRUE iff an id is never dispatched twice

ASSUME ScanControlAssumption ==
    /\ NoId \notin Ids
    /\ FreshIds \in BOOLEAN

VARIABLES
    running,      \* running_request_ids
    cancelled,    \* cancelled_request_ids
    pending,      \* pending_cancel_request_ids
    pc,           \* where each attempt is
    id,           \* the request id of each attempt
    parked,       \* what begin_request found in `pending`, per attempt
    cpc,          \* where each cancel call is
    target,       \* the attempt a cancel call was made for
    wasRunning,   \* request_cancel's local `is_running`
    since,        \* history: where the attempt was when the cancel call began
    until         \* history: where the attempt was when the cancel call returned

registry == <<running, cancelled, pending>>
attemptVars == <<pc, id, parked>>
cancelVars == <<cpc, target, wasRunning, since, until>>
vars == <<registry, attemptVars, cancelVars>>

AttemptPC == {"idle", "dispatched", "inserted", "consumed", "running",
              "leaving", "cleared", "done", "refused"}
Over == {"done", "refused"}
Live == {"dispatched", "inserted", "consumed", "running"}
CancelPC == {"idle", "checked", "returned"}

Init ==
    /\ running = {} /\ cancelled = {} /\ pending = {}
    /\ pc = [a \in Attempts |-> "idle"]
    /\ id = [a \in Attempts |-> NoId]
    /\ parked = [a \in Attempts |-> FALSE]
    /\ cpc = [c \in Cancels |-> "idle"]
    /\ target = [c \in Cancels |-> NoId]
    /\ wasRunning = [c \in Cancels |-> FALSE]
    /\ since = [c \in Cancels |-> "idle"]
    /\ until = [c \in Cancels |-> "idle"]

-----------------------------------------------------------------------------
(* begin_request, one action per critical section.                         *)

\* An id is in use while an attempt that carries it has not finished; with
\* FreshIds it stays in use for good.
Available(r) ==
    \A a \in Attempts : id[a] = r => ~FreshIds /\ pc[a] \in Over

\* The caller picks the id and sends the request; nothing is registered yet.
Dispatch(a, r) ==
    /\ pc[a] = "idle"
    /\ Available(r)
    /\ pc' = [pc EXCEPT ![a] = "dispatched"]
    /\ id' = [id EXCEPT ![a] = r]
    /\ UNCHANGED <<registry, parked, cancelVars>>

\* A verification request is validated, and admitted, before it registers:
\* refused there, its id never enters the registry.
Refuse(a) ==
    /\ pc[a] = "dispatched"
    /\ pc' = [pc EXCEPT ![a] = "refused"]
    /\ UNCHANGED <<registry, id, parked, cancelVars>>

BeginInsert(a) ==
    /\ pc[a] = "dispatched"
    /\ running' = running \cup {id[a]}
    /\ pc' = [pc EXCEPT ![a] = "inserted"]
    /\ UNCHANGED <<cancelled, pending, id, parked, cancelVars>>

BeginConsume(a) ==
    /\ pc[a] = "inserted"
    /\ parked' = [parked EXCEPT ![a] = id[a] \in pending]
    /\ pending' = pending \ {id[a]}
    /\ pc' = [pc EXCEPT ![a] = "consumed"]
    /\ UNCHANGED <<running, cancelled, id, cancelVars>>

\* Mutant of BeginSettle: the parked cancel is forgotten with older ones.
BeginSettleClears(a) ==
    /\ pc[a] = "consumed"
    /\ cancelled' = cancelled \ {id[a]}
    /\ pc' = [pc EXCEPT ![a] = "running"]
    /\ UNCHANGED <<running, pending, id, parked, cancelVars>>

BeginSettle(a) ==
    /\ pc[a] = "consumed"
    /\ cancelled' = IF parked[a] THEN cancelled \cup {id[a]}
                                 ELSE cancelled \ {id[a]}
    /\ pc' = [pc EXCEPT ![a] = "running"]
    /\ UNCHANGED <<running, pending, id, parked, cancelVars>>

(* finish_request, called when the guard is dropped.                       *)

FinishRunning(a) ==
    /\ pc[a] = "running"
    /\ running' = running \ {id[a]}
    /\ pc' = [pc EXCEPT ![a] = "leaving"]
    /\ UNCHANGED <<cancelled, pending, id, parked, cancelVars>>

\* Mutant of FinishCancelled: the cancel of a finished run stays.
FinishCancelledKeeps(a) ==
    /\ pc[a] = "leaving"
    /\ pc' = [pc EXCEPT ![a] = "cleared"]
    /\ UNCHANGED <<registry, id, parked, cancelVars>>

FinishCancelled(a) ==
    /\ pc[a] = "leaving"
    /\ cancelled' = cancelled \ {id[a]}
    /\ pc' = [pc EXCEPT ![a] = "cleared"]
    /\ UNCHANGED <<running, pending, id, parked, cancelVars>>

FinishPending(a) ==
    /\ pc[a] = "cleared"
    /\ pending' = pending \ {id[a]}
    /\ pc' = [pc EXCEPT ![a] = "done"]
    /\ UNCHANGED <<running, cancelled, id, parked, cancelVars>>

-----------------------------------------------------------------------------
(* request_cancel: read one set, then write one of the other two.          *)

CancelCheck(c, a) ==
    /\ cpc[c] = "idle"
    /\ pc[a] # "idle"
    /\ target' = [target EXCEPT ![c] = a]
    /\ since' = [since EXCEPT ![c] = pc[a]]
    /\ wasRunning' = [wasRunning EXCEPT ![c] = id[a] \in running]
    /\ cpc' = [cpc EXCEPT ![c] = "checked"]
    /\ UNCHANGED <<registry, attemptVars, until>>

\* The write, after which the command returns to the frontend.
CancelRecord(c) ==
    LET a == target[c] IN
    /\ cpc[c] = "checked"
    /\ IF wasRunning[c]
         THEN cancelled' = cancelled \cup {id[a]} /\ pending' = pending
         ELSE pending' = pending \cup {id[a]} /\ cancelled' = cancelled
    /\ cpc' = [cpc EXCEPT ![c] = "returned"]
    /\ until' = [until EXCEPT ![c] = pc[a]]
    /\ UNCHANGED <<running, attemptVars, target, wasRunning, since>>

-----------------------------------------------------------------------------
AttemptStep(a) ==
    \/ Refuse(a) \/ BeginInsert(a) \/ BeginConsume(a) \/ BeginSettle(a)
    \/ FinishRunning(a) \/ FinishCancelled(a) \/ FinishPending(a)

Next ==
    \/ \E a \in Attempts, r \in Ids : Dispatch(a, r)
    \/ \E a \in Attempts : AttemptStep(a)
    \/ \E c \in Cancels, a \in Attempts : CancelCheck(c, a)
    \/ \E c \in Cancels : CancelRecord(c)

Spec == Init /\ [][Next]_vars

-----------------------------------------------------------------------------
(* Properties                                                              *)

TypeOK ==
    /\ running \subseteq Ids /\ cancelled \subseteq Ids /\ pending \subseteq Ids
    /\ pc \in [Attempts -> AttemptPC]
    /\ id \in [Attempts -> Ids \cup {NoId}]
    /\ parked \in [Attempts -> BOOLEAN]
    /\ cpc \in [Cancels -> CancelPC]
    /\ target \in [Cancels -> Attempts \cup {NoId}]
    /\ wasRunning \in [Cancels -> BOOLEAN]
    /\ since \in [Cancels -> AttemptPC]
    /\ until \in [Cancels -> AttemptPC]

\* The answer of is_cancelled, polled only by a registered attempt.
SeesCancel(a) == pc[a] = "running" /\ id[a] \in cancelled

\* A cancel that returned while its attempt was still to run or running, and
\* one that found nothing to cancel: its attempt was already unregistering, or
\* was refused.
Landed(c) == until[c] \in Live
Stray(c) ==
    \/ until[c] \in {"leaving", "cleared"} \cup Over
    \/ until[c] # "idle" /\ pc[target[c]] = "refused"

\* A cancel whose call does not overlap begin_request (it returned before the
\* registration began, or began when it was over) is never lost: from then on
\* the attempt it was made for polls TRUE from is_cancelled until it finishes
\* (test cancel_before_registration_is_honored_when_the_request_begins).
SequentialCancelIsHonoured ==
    \A c \in Cancels :
        LET a == target[c] IN
        (since[c] = "running" \/ until[c] = "dispatched") /\ Landed(c)
            => (pc[a] = "running" => SeesCancel(a))

\* A cancel acts on the attempt it was made for, also when a later attempt
\* carries the same id: a running attempt polls TRUE only if a cancel was made
\* for it, or a stray one for an earlier holder of its id (begin_request's
\* "without leaking it to reused IDs").
OnlyStrayCancelsLeak ==
    \A a \in Attempts :
        SeesCancel(a) =>
            \E c \in Cancels :
                \/ target[c] = a
                \/ Stray(c) /\ id[target[c]] = id[a]

\* When no attempt is under way and no cancel call was stray, the three
\* sets are empty: neither an aborted registration nor a cancel that raced it
\* leaves an entry behind that a later request could pick up.
RegistryDrains ==
    /\ \A a \in Attempts : pc[a] \in {"idle"} \cup Over
    /\ \A c \in Cancels : cpc[c] # "checked" /\ ~Stray(c)
    => running = {} /\ cancelled = {} /\ pending = {}

\* The two together: a cancel does nothing to a request it was not made for,
\* and no entry outlives the calls it came from.
NoCancelLeaks == OnlyStrayCancelsLeak /\ RegistryDrains

\* The comment at request_cancel ("Intent for an unregistered id is parked to
\* cover start/cancel races"): a cancel that returned while its attempt was
\* registering is honoured like any other.  The registry does not do this.
RacingCancelIsHonoured ==
    \A c \in Cancels :
        Landed(c) /\ pc[target[c]] = "running" => SeesCancel(target[c])
=============================================================================
