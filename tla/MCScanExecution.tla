-------------------------- MODULE MCScanExecution --------------------------
(* Small instances of the scan orchestrator for TLC.                       *)
EXTENDS ScanExecutionRefinement, TLC

CONSTANTS s1, s2  \* scopes

Plan(scope, class, web, code) ==
    [scope |-> scope, class |-> class,
     component |-> [c \in Components |-> IF c = "web" THEN web ELSE code]]

full == Plan(s1, "general", "planned", "planned")
webOnly == Plan(s1, "general", "planned", "none")
codeOnly == Plan(s1, "general", "skipped", "planned")
verify == Plan(s1, "verification", "planned", "none")
elsewhere == Plan(s2, "general", "planned", "none")

FullAndVerify == {full, verify}
WebAndCode == {webOnly, codeOnly}
Windows == {webOnly, verify, elsewhere}
JustFull == {full}
JustWeb == {webOnly}

Symmetry == Permutations(Callers) \cup Permutations(Keys)
=============================================================================
