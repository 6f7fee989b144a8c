----------------------------- MODULE SafetyGate -----------------------------
(***************************************************************************)
(* crates/safety: what a write must be declared as before it is approved.   *)
(* A `WriteApproval` has no public constructor, so the approvals that exist *)
(* are those the gate grants.                                               *)
(***************************************************************************)

ExecutionTargets == {"Mock", "Replay", "Hardware"}

(* `recovery_is_compatible`: the recovery postures each class admits. *)
CompatibleRecoveries ==
  [NoWrite          |-> {},
   TransientConfig  |-> {"TransientWritePendingReconcileOnResume",
                         "RestoreFromBackupSupported"},
   PersistentConfig |-> {"AutomaticRollbackSupported", "RestoreFromBackupSupported"},
   Reboot           |-> {"ManualRecoveryRequired"}]

(* `authorize_write`: the hardware gate is asked first. *)
GateRefusal(target, class, recovery) ==
  IF target = "Hardware" THEN "HardwareGateNotApproved"
  ELSE IF class = "NoWrite" THEN "NotAWrite"
  ELSE IF recovery \notin CompatibleRecoveries[class] THEN "IncompatibleRecoveryClass"
  ELSE "none"

(* The approvals the gate grants among the recovery classes given.          *)
Approvals(recoveries) ==
  {a \in [target : ExecutionTargets, class : DOMAIN CompatibleRecoveries,
          recovery : recoveries] :
     GateRefusal(a.target, a.class, a.recovery) = "none"}
=============================================================================
