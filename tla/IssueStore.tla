----------------------------- MODULE IssueStore -----------------------------
(***************************************************************************)
(* The lifecycle state of an issue group, db/issue_states.rs, and what the *)
(* decisions of a user and the observations of a scan make of it.          *)
(*                                                                         *)
(* A state is the status column joined with the one column that changes    *)
(* what a later observation does: `verified` by a user's claim is          *)
(* "claimed", by a local scan "verified".                                  *)
(***************************************************************************)

Life == {"new", "snoozed", "ignored", "blocked", "claimed", "verified",
         "regressed"}

\* Mutant of ProvesAbsence: a claim counts as an observation.
AnyoneProvesAbsence(life) == life \in {"verified", "claimed"}

\* VerifiedBy::proves_absence: a claim is not an observation.
ProvesAbsence(life) == life = "verified"

\* GroupDecision::lifecycle, what a user's decision writes.
Decisions == {"snoozed", "ignored", "blocked", "claimed", "new"}

\* reconcile_reobserved_lifecycle for a group that a scan reports: a fix that
\* was seen is a regression when the issue comes back, one that was claimed
\* and an ignored issue are open again, snoozed and blocked ones stay.
Reobserved(life) ==
    IF ProvesAbsence(life) THEN "regressed"
    ELSE IF life \in {"claimed", "ignored"} THEN "new"
    ELSE life
=============================================================================
