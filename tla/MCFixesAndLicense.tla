-------------------------- MODULE MCFixesAndLicense --------------------------
(***************************************************************************)
(* Two parts that share only the process: the attempts to fix a defect and *)
(* the license.  A behavior is one of one of them; the other stays as it   *)
(* begins.                                                                 *)
(*                                                                         *)
(* The defects are model values that nothing tells apart, and so are the   *)
(* commands.  Initially any of the defects is in the code, on any line.    *)
(***************************************************************************)
EXTENDS FixAttempts, TLC

CONSTANTS Handlers, Loop, Nobody, Original, NoInst, Roles, LicenseKeys,
          MaxTruth, MaxTicks, MaxImports, LicenseFaults,
          MaxHard  \* bound: how much of all this there is at a time

VARIABLES
    active,  \* the part whose behavior it is
    row, queue, key, token, owed, behind, license, guard, job, drain, keyOf,
    seats, creds, truth, torn, overtaken, stranded, ticks, imports,
    licenseFaults

licenseVars == <<row, queue, key, token, owed, behind, license, guard, job,
                 drain, keyOf, seats, creds, truth, torn, overtaken, stranded,
                 ticks, imports, licenseFaults>>
allVars == <<active, vars, licenseVars>>

Lic == INSTANCE License WITH MaxFaults <- LicenseFaults, faults <- licenseFaults

\* The names are different things, and the user has a license key.
ASSUME PartsAssumption ==
    /\ Loop \notin Handlers /\ Nobody \notin Lic!Actors
    /\ Original \notin Handlers /\ NoInst \notin Lic!Insts
    /\ LicenseKeys \in Nat \ {0} /\ Roles \subseteq Lic!Role
    /\ MaxTruth \in Nat /\ MaxTicks \in Nat /\ MaxImports \in Nat
    /\ LicenseFaults \in Nat

Symmetry == Permutations(Defects) \cup Permutations(Handlers)

PartsInit ==
    /\ active \in {"fixes", "license"}
    /\ Init /\ Lic!Init
    /\ active = "fixes" => row = Lic!NoRow
    /\ active = "license" => Found(code) = Defects

\* With a second attempt there is an edit or another scan; with a claim that
\* stands, only the second attempt or one of the others.
FixesMove ==
    /\ active = "fixes" /\ Next /\ UNCHANGED <<active, licenseVars>>
    /\ edits' + others' + Cardinality({a \in Ids : attempts'[a] # NoAttempt})
         <= IF life' = "claimed" THEN 2 ELSE 3

\* The license, with few of what makes it hard at a time: events, a minted
\* installation, a second license key.
LicenseMove ==
    /\ active = "license" /\ Lic!Next /\ UNCHANGED <<active, vars>>
    /\ truth' + ticks' + imports' + licenseFaults'
         + Cardinality({keyOf'[h] : h \in Handlers} \ {Lic!NoKey})
         + Cardinality({job'[h].key : h \in Handlers} \ {Lic!NoKey, 1}) <= MaxHard
    /\ imports' > 0 => ticks' = 0

PartsNext == FixesMove \/ LicenseMove

PartsSpec == PartsInit /\ [][PartsNext]_allVars

-----------------------------------------------------------------------------
(* The properties of the license, under a name for the configuration.      *)

\* Every variable of the part whose behavior it is has a value of its type.
PartsTypeOK == IF active = "fixes" THEN TypeOK ELSE Lic!TypeOK

\* See License: what the row says of the subscription never goes back.
VerdictsAdvance == Lic!VerdictsAdvance
\* See License: no seat and no credential is forgotten.
NothingIsForgotten == Lic!NothingIsForgotten
\* See License: the key in the keychain is that of the row.
KeyFitsRow == Lic!KeyFitsRow
=============================================================================
