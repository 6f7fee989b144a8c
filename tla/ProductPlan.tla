----------------------------- MODULE ProductPlan -----------------------------
(***************************************************************************)
(* crates/planning/src/product.rs: the choices only the user may make, and  *)
(* the plan that carries them. A caller proposes control assignments, takes *)
(* decision evidence from collections that were accepted, proposes setting  *)
(* changes and builds a plan, in any order. Evidence outlives the           *)
(* collection it came from, as in the code.                                 *)
(***************************************************************************)
EXTENDS Optional, Naturals, Sequences, FiniteSets

CONSTANTS
  UserChoices,     \* assignments [input, function] the user may propose
  Settings,        \* setting ids [domain, key]
  MaxAssignments,  \* bound on a proposed collection
  MaxChanges       \* bound on the changes of one plan

VARIABLES
  assignments,  \* the last collection accepted
  decisions,    \* the decision evidence taken so far
  changes,      \* the changes accepted so far, oldest first
  plan,         \* the last plan built, or None
  chosen        \* history: every assignment of an accepted collection

productVars == <<assignments, decisions, changes, plan, chosen>>

(* `responsibility`: one domain is the user's. *)
Responsibility(domain) ==
  IF domain = "ControlFunctionAssignments" THEN "user" ELSE "program"

Control(choice) == [control |-> choice]
Plain(value) == [plain |-> value]
IsControl(value) == "control" \in DOMAIN value

Values == {Control(c) : c \in UserChoices \cup {None}} \cup {Plain(b) : b \in BOOLEAN}

(* Where a change comes from: the program, or a decision of the user. *)
Sources == {None} \cup decisions

Conflict(a, b) == a.input = b.input \/ a.function = b.function

(* `ManualControlAssignments::new`. *)
AcceptsAssignments(proposal) ==
  \A n \in DOMAIN proposal : \A m \in 1 .. n - 1 : ~Conflict(proposal[m], proposal[n])

(* Mutant: any control assignment serves once the user confirmed one. *)
SourceErrorAnyChoice(c) ==
  IF Responsibility(c.setting.domain) = "program"
    THEN IF c.source # None THEN "ResponsibilityMismatch"
         ELSE IF IsControl(c.before) \/ IsControl(c.after)
           THEN "ControlAssignmentValueOutsideDomain" ELSE "none"
  ELSE IF c.source = None THEN "ResponsibilityMismatch"
  ELSE IF ~IsControl(c.before) THEN "ControlAssignmentValueRequired"
  ELSE IF ~IsControl(c.after) THEN "UserDecisionMismatch" ELSE "none"

(* Who may propose what: the match of `PlannedSettingChange::new`. *)
SourceError(c) ==
  IF Responsibility(c.setting.domain) = "program"
    THEN IF c.source # None THEN "ResponsibilityMismatch"
         ELSE IF IsControl(c.before) \/ IsControl(c.after)
           THEN "ControlAssignmentValueOutsideDomain" ELSE "none"
  ELSE IF c.source = None THEN "ResponsibilityMismatch"
  ELSE IF ~IsControl(c.before) THEN "ControlAssignmentValueRequired"
  ELSE IF c.after # Control(c.source) THEN "UserDecisionMismatch" ELSE "none"

UnusableRecoveries == {"NotApplicableNoWrite", "StateUnknownRecoveryRequired"}

(* `PlannedSettingChange::new`. *)
ChangeError(c, recovery, provenance) ==
  IF c.before = c.after THEN "NoChange"
  ELSE IF SourceError(c) # "none" THEN SourceError(c)
  ELSE IF recovery \in UnusableRecoveries THEN "InvalidRecoveryClass"
  ELSE IF provenance = "absent" THEN "MissingProvenance"
  ELSE IF provenance = "blank" THEN "EmptyProvenanceId" ELSE "none"

(* `ProductConfigurationPlan::new`. *)
AcceptsPlan(list) ==
  \A n \in DOMAIN list : \A m \in 1 .. n - 1 : list[m].setting # list[n].setting

-----------------------------------------------------------------------------
ProductInit ==
  /\ assignments = <<>>
  /\ decisions = {}
  /\ changes = <<>>
  /\ plan = None
  /\ chosen = {}

(* A proposal that is refused leaves the earlier collection in use. *)
ProposeAssignments ==
  \E size \in 0 .. MaxAssignments : \E proposal \in [1 .. size -> UserChoices] :
    /\ AcceptsAssignments(proposal)
    /\ assignments' = proposal
    /\ chosen' = chosen \cup {proposal[n] : n \in 1 .. size}
    /\ UNCHANGED <<decisions, changes, plan>>

(* `confirmed_decision` of an index. *)
Confirm ==
  \E n \in DOMAIN assignments :
    /\ decisions' = decisions \cup {assignments[n]}
    /\ UNCHANGED <<assignments, changes, plan, chosen>>

ProposeChange ==
  /\ Len(changes) < MaxChanges
  /\ \E setting \in Settings, before \in Values, after \in Values, source \in Sources,
        recovery \in {"RestoreFromBackupSupported"} \cup UnusableRecoveries,
        provenance \in {"absent", "blank", "named"} :
       LET c == [setting |-> setting, before |-> before, after |-> after,
                 source |-> source]
       IN  /\ ChangeError(c, recovery, provenance) = "none"
           /\ changes' = Append(changes, c)
  /\ UNCHANGED <<assignments, decisions, plan, chosen>>

BuildPlan ==
  /\ AcceptsPlan(changes)
  /\ plan' = changes
  /\ UNCHANGED <<assignments, decisions, changes, chosen>>

ProductNext == ProposeAssignments \/ Confirm \/ ProposeChange \/ BuildPlan

ProductSpec == ProductInit /\ [][ProductNext]_productVars

-----------------------------------------------------------------------------
(* Properties. *)

PlannedChanges == IF plan = None THEN {} ELSE {plan[n] : n \in DOMAIN plan}

(* The program never invents a user's choice: a planned control assignment   *)
(* was in a collection the user had accepted, and no other setting carries   *)
(* or replaces one.                                                          *)
ChoicesAreTheUsers ==
  \A c \in PlannedChanges :
    IF c.setting.domain = "ControlFunctionAssignments"
      THEN c.after \in {Control(choice) : choice \in chosen} /\ IsControl(c.before)
      ELSE ~IsControl(c.before) /\ ~IsControl(c.after)
=============================================================================
