------------------------ MODULE IdempotentExecution ------------------------
(***************************************************************************)
(* What admission promises to whoever holds an idempotency key, without    *)
(* tables, handlers or time (docs/engineering/unified-scan-architecture.md,*)
(* "Idempotency"; the comment at admit_scan_execution).                    *)
(*                                                                         *)
(* A key is free or holds one plan.  A free key is claimed by a plan; while*)
(* it is held it answers for that plan only; what it holds is settled once *)
(* and keeps its outcome; then retention frees the key.  Open claims are   *)
(* freed only as abandoned.                                                *)
(***************************************************************************)
CONSTANTS Keys, Plans, Outcomes, Free, Open  \* Open is not an outcome

VARIABLES
    slot,      \* what each key holds: a plan and its outcome, or Free
    answered   \* the plans each key was answered for

vars == <<slot, answered>>

Held(k) == slot[k] # Free

Init ==
    /\ slot = [k \in Keys |-> Free]
    /\ answered = [k \in Keys |-> {}]

Hear(k, p) == answered' = [answered EXCEPT ![k] = @ \cup {p}]

\* The claim's answer may be lost on its way.
Claim(k, p) ==
    /\ ~Held(k)
    /\ slot' = [slot EXCEPT ![k] = [plan |-> p, outcome |-> Open]]
    /\ Hear(k, p) \/ UNCHANGED answered

Repeat(k) ==
    /\ Held(k)
    /\ Hear(k, slot[k].plan)
    /\ UNCHANGED slot

Settle(k, o) ==
    /\ Held(k)
    /\ slot[k].outcome = Open
    /\ slot' = [slot EXCEPT ![k].outcome = o]
    /\ UNCHANGED answered

\* Retention frees settled keys, the sweep abandoned ones; never both at once.
Release(S) ==
    /\ \A k \in S : Held(k)
    /\ \A k, l \in S : slot[k].outcome = Open <=> slot[l].outcome = Open
    /\ slot' = [k \in Keys |-> IF k \in S THEN Free ELSE slot[k]]
    /\ UNCHANGED answered

Next ==
    \/ \E k \in Keys, p \in Plans : Claim(k, p)
    \/ \E k \in Keys : Repeat(k)
    \/ \E k \in Keys, o \in Outcomes : Settle(k, o)
    \/ \E S \in SUBSET Keys : Release(S)

Spec == Init /\ [][Next]_vars
=============================================================================
