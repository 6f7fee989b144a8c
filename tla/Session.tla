------------------------------ MODULE Session ------------------------------
(***************************************************************************)
(* The session state machine of crates/session: which state may follow     *)
(* which, and which class of command each state may send.  The tables are  *)
(* constant-level; a session is a record [at, refused] so that the engine, *)
(* which discards the error of an illegal transition, can be modelled as   *)
(* doing exactly that.                                                     *)
(***************************************************************************)

SessionStates ==
  {"Disconnected", "Connecting", "Identifying", "SnapshotRead", "Planning",
   "AwaitingApproval", "BackingUp", "ApplyingTransient",
   "TransientWritePendingReconcileOnResume", "Saving", "Rebooting",
   "Reconnecting", "Verifying", "Recovering", "CompletedVerified",
   "CompletedRestored", "StateUnknownRecoveryRequired"}

(* `next_states`: the states reachable in one step. *)
NextStates ==
  LET Unknown == "StateUnknownRecoveryRequired"
  IN  [Disconnected      |-> {"Connecting"},
       Connecting        |-> {"Identifying", "Disconnected", Unknown},
       Identifying       |-> {"SnapshotRead", "Disconnected", Unknown},
       SnapshotRead      |-> {"Planning", "Disconnected", Unknown},
       Planning          |-> {"AwaitingApproval", Unknown},
       AwaitingApproval  |-> {"BackingUp", Unknown},
       BackingUp         |-> {"ApplyingTransient", Unknown},
       ApplyingTransient |-> {"TransientWritePendingReconcileOnResume",
                              "Saving", "Recovering", Unknown},
       TransientWritePendingReconcileOnResume |->
                             {"Saving", "Recovering", Unknown},
       Saving            |-> {"Rebooting", "Recovering", Unknown},
       Rebooting         |-> {"Reconnecting", "Recovering", Unknown},
       Reconnecting      |-> {"Verifying", "Recovering", Unknown},
       Verifying         |-> {"CompletedVerified", "Recovering", Unknown},
       Recovering        |-> {"Saving", "Rebooting", "Reconnecting",
                              "CompletedRestored", Unknown},
       CompletedVerified |-> {},
       CompletedRestored |-> {},
       StateUnknownRecoveryRequired |-> {}]

(* `permits_command_class`: the strict allow-list of each command class. *)
PermittedIn ==
  [NoWrite          |-> {"Identifying", "SnapshotRead", "ApplyingTransient",
                         "TransientWritePendingReconcileOnResume",
                         "Verifying", "Recovering"},
   TransientConfig  |-> {"ApplyingTransient", "Recovering"},
   PersistentConfig |-> {"Saving", "Recovering"},
   Reboot           |-> {"Rebooting", "Recovering"}]

(* `permits_identification`: narrower than NoWrite. *)
PermitsIdentification == {"Identifying", "Verifying", "Recovering"}

Sessions == [at : SessionStates, refused : BOOLEAN]

NewSession == [at |-> "Disconnected", refused |-> FALSE]

(* `Engine::tr` around `Session::transition_to`: an illegal transition      *)
(* leaves the state where it is and its error is dropped; `refused`         *)
(* remembers that this happened, which the code does not.                   *)
Tr(s, next) ==
  IF next \in NextStates[s.at] THEN [s EXCEPT !.at = next]
                               ELSE [s EXCEPT !.refused = TRUE]
=============================================================================
