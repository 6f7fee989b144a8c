-------------------------- MODULE BeeperLifecycle --------------------------
(***************************************************************************)
(* The M1 lifecycle engine of crates/core-api with the restore of          *)
(* crates/recovery: one process that takes a case from identification      *)
(* through backup, SET, save, reboot and verification, or into recovery,   *)
(* writing the case journal before and after each step; and the restarts   *)
(* that resume the case from the journal and the caller's backup.          *)
(*                                                                         *)
(* The engine is sequential, so `pc` names the next journal append or MSP  *)
(* exchange: between any two of them the process may die, the controller   *)
(* may lose power and the cable may move to another board.                 *)
(***************************************************************************)
EXTENDS Session, CaseJournal, FlightController

CONSTANTS
  Goal,          \* "Enable" or "Disable": the SystemInitBeeperGoal
  InScope,       \* the units `check_scope` accepts
  JournalLimits, \* the max_bytes a journal may have been created with
  MaxRuns,       \* bound: processes that work on the case
  None           \* no identity, plan, backup or terminal

ASSUME GoalAssumption == Goal \in {"Enable", "Disable"}
ASSUME ScopeAssumption == InScope \subseteq Units
ASSUME LimitAssumption == JournalLimits \subseteq Nat
ASSUME RunsAssumption == MaxRuns \in Nat \ {0}

VARIABLES
  pc,             \* the next append or exchange, or "done", or "off"
  session,        \* Engine.session
  mode,           \* "fresh", "reconcile" (resume_reconcile), "verifySave"
  mayHaveWritten, \* Engine.write_may_have_occurred
  identity,       \* Engine.identity, or the backup's when resuming
  plan,           \* Engine.plan
  backup,         \* Engine.backup; the caller's copy outlives the process
  terminal,       \* classification of the last report
  run,            \* how many processes have worked on the case
  touched         \* history: a SET or SAVE of this case reached a controller

caseVars == <<mode, mayHaveWritten, identity, plan, backup, touched, run>>
engineVars == <<pc, session, terminal, caseVars>>
vars == <<journalVars, deviceVars, engineVars>>

Terminals ==
  {"CompletedVerified", "NoOpVerified", "CompletedRestored",
   "StateUnknownRecoveryRequired", "AbortedBeforeAnyWrite", "ScopeMismatch"}

ConnectSteps ==
  {"recStarted", "open", "identify", "recIdentity", "readSnapshot",
   "recSnapshot", "verifyNoop", "recNoop", "recBackedUp"}
ApplySteps ==
  {"aheadSet", "set", "recSet", "reread", "recReread", "aheadSave", "save",
   "recSaved", "aheadReboot", "reboot", "recRebooted", "reopen",
   "recReconnected", "reidentify", "verifyRead", "recVerified"}
RestoreSteps ==
  {"rStart", "rIdentify", "rRead", "rInPlace", "rAheadSet", "rSet", "rRecSet",
   "rReread", "rRecReread", "rAheadSave", "rSave", "rRecSaved",
   "rAheadReboot", "rReboot", "rRecRebooted", "rReopen", "rReidentify",
   "rFinalRead", "rRecRestored"}
Stopped == {"done", "off"}
Steps == ConnectSteps \cup ApplySteps \cup RestoreSteps \cup {"unknown"} \cup Stopped

(* `desired_off_flags`: only the SYSTEM_INIT off bit follows the goal.      *)
Desired(snapshot) == [snapshot EXCEPT !.init = (Goal = "Disable")]

(* `build_plan`: it cannot fail, the delta is that bit or nothing.          *)
PlanFor(snapshot) == [previous |-> snapshot, desired |-> Desired(snapshot)]
Plans == [previous : Snapshots, desired : Snapshots]
Backups == [unit : Units, plan : Plans]

ASSUME NoneAssumption == None \notin Units \cup Plans \cup Backups \cup Terminals

ControlTypeOK ==
  /\ pc \in Steps
  /\ session \in Sessions
  /\ terminal \in Terminals \cup {None}

CaseTypeOK ==
  /\ mode \in {"fresh", "reconcile", "verifySave"}
  /\ mayHaveWritten \in BOOLEAN /\ touched \in BOOLEAN
  /\ identity \in Units \cup {None}
  /\ plan \in Plans \cup {None}
  /\ backup \in Backups \cup {None}
  /\ run \in 1..MaxRuns

TypeOK == /\ DeviceTypeOK /\ JournalTypeOK /\ limit \in JournalLimits
          /\ ControlTypeOK /\ CaseTypeOK

(* A fresh run on an empty journal. *)
Init ==
  /\ DeviceInit
  /\ JournalInit /\ limit \in JournalLimits
  /\ pc = "recStarted" /\ session = NewSession /\ mode = "fresh"
  /\ mayHaveWritten = FALSE /\ touched = FALSE
  /\ identity = None /\ plan = None /\ backup = None /\ terminal = None
  /\ run = 1

-----------------------------------------------------------------------------
(* Control.  Each of these fixes pc, session, terminal and the transport.   *)

GoTo(there, s) ==
  pc' = there /\ session' = s /\ UNCHANGED <<terminal, board, link>>

Finish(t, s) ==
  pc' = "done" /\ session' = s /\ terminal' = t /\ UNCHANGED <<board, link>>

(* Close the transport, disconnect and report t. *)
Disconnect(t) ==
  /\ pc' = "done" /\ terminal' = t
  /\ session' = Tr(session, "Disconnected")
  /\ link' = FALSE /\ UNCHANGED board

Abort == Disconnect("AbortedBeforeAnyWrite")

(* Enter recovery; without a backup the only honest end is state-unknown.   *)
Recover ==
  GoTo(IF backup = None THEN "unknown" ELSE "rStart", Tr(session, "Recovering"))

JournalFailure == IF mayHaveWritten THEN Recover ELSE Abort

(* The failure of a step that a fresh run may abort and a resume may not.   *)
FailConnecting(s) ==
  IF mode = "fresh"
  THEN /\ pc' = "done" /\ terminal' = "AbortedBeforeAnyWrite"
       /\ session' = Tr(s, "Disconnected") /\ link' = FALSE /\ UNCHANGED board
  ELSE GoTo("unknown", s)

(* Any failure inside `run_restore`: nothing is proven. *)
RestoreFails == GoTo("unknown", session)

-----------------------------------------------------------------------------
(* Journal appends. *)

(* `Engine::record`, then on to `there` with session s. *)
Record(here, e, there, s) ==
  /\ pc = here
  /\ \/ Appended(e) /\ GoTo(there, s)
     \/ AppendFailed(e) /\ JournalFailure
  /\ UNCHANGED <<ram, eeprom, caseVars>>

(* Mutant: write_may_have_occurred is left to be set by the acknowledgement. *)
RecordAheadOnly(here, e, there) ==
  /\ pc = here
  /\ \/ Appended(e) /\ GoTo(there, session)
     \/ AppendFailed(e) /\ JournalFailure
  /\ UNCHANGED <<ram, eeprom, caseVars>>

(* A write-ahead: from here on a write may have occurred. *)
RecordAhead(here, e, there) ==
  /\ pc = here
  /\ \/ Appended(e) /\ GoTo(there, session) /\ mayHaveWritten' = TRUE
     \/ AppendFailed(e) /\ JournalFailure /\ UNCHANGED mayHaveWritten
  /\ UNCHANGED <<ram, eeprom, mode, identity, plan, backup, touched, run>>

(* An append of `run_restore`; a failure ends the recovery. *)
RestoreRecord(here, e, there) ==
  /\ pc = here
  /\ \/ Appended(e) /\ GoTo(there, session)
     \/ AppendFailed(e) /\ RestoreFails
  /\ UNCHANGED <<ram, eeprom, caseVars>>

-----------------------------------------------------------------------------
(* Exchanges.  Any of them may fail: a timeout, a NACK, a malformed reply.   *)

Reachable(class) == link /\ session.at \in PermittedIn[class]
Identifiable == link /\ session.at \in PermitsIdentification

(* `Executor::write`: the command takes effect and is acknowledged, or takes *)
(* effect and the reply is lost, or does nothing and fails.                 *)
Write(here, reachable, effect, there, failure) ==
  /\ pc = here
  /\ \/ /\ reachable /\ effect /\ touched' = TRUE
        /\ GoTo(there, session) \/ failure
     \/ NoEffect /\ failure /\ UNCHANGED touched
  /\ UNCHANGED <<journalVars, mode, mayHaveWritten, identity, plan, backup, run>>

(* EEPROM_WRITE may be acknowledged and dropped. *)
SaveOrDrop == SaveEeprom \/ NoEffect

Exchanging(here) == pc = here /\ UNCHANGED <<journalVars, ram, eeprom>>

(* Opening the port reaches whatever is plugged in now. *)
Opened(there, s) ==
  pc' = there /\ session' = s /\ link' = TRUE /\ UNCHANGED <<board, terminal>>

-----------------------------------------------------------------------------
(* `drive`: from the start of a fresh run to the backup.                    *)

RecordStarted == Record("recStarted", "Started", "open", session)

(* `connect_and_identify`, shared by the fresh run and the resumes. *)
OpenTransport ==
  LET connecting == Tr(session, "Connecting")
  IN  /\ Exchanging("open")
      /\ \/ Opened("identify", Tr(connecting, "Identifying"))
         \/ FailConnecting(connecting)
      /\ UNCHANGED caseVars

Identify ==
  /\ Exchanging("identify")
  /\ \/ /\ Identifiable
        /\ mode # "fresh" => board = backup.unit
        /\ identity' = board
        /\ GoTo("recIdentity", session)
     \/ /\ FailConnecting(session)
        /\ UNCHANGED identity
  /\ UNCHANGED <<mode, mayHaveWritten, plan, backup, touched, run>>

(* The scope gate follows the record; only a fresh run is gated by it.      *)
RecordIdentity ==
  IF mode = "fresh" /\ identity \notin InScope
  THEN /\ pc = "recIdentity"
       /\ \/ Appended("IdentityRead") /\ Disconnect("ScopeMismatch")
          \/ AppendFailed("IdentityRead") /\ JournalFailure
       /\ UNCHANGED <<ram, eeprom, caseVars>>
  ELSE Record("recIdentity", "IdentityRead", "readSnapshot",
              Tr(session, "SnapshotRead"))

(* The transitions a resume makes before it rejoins the apply path. *)
ToApplying == Tr(Tr(Tr(Tr(session, "Planning"), "AwaitingApproval"),
                    "BackingUp"), "ApplyingTransient")

(* `resume_reconcile`: the flags read decide whether the SET is still due.  *)
ReconcileWith(current) ==
  CASE current = plan.desired  -> GoTo("reread", ToApplying)
    [] current = plan.previous -> GoTo("aheadSet", ToApplying)
    [] OTHER                   -> GoTo("unknown", session)

(* The snapshot read that follows identification in the three drivers.      *)
ReadSnapshot ==
  /\ Exchanging("readSnapshot")
  /\ \/ /\ Reachable("NoWrite")
        /\ CASE mode = "fresh"      -> /\ plan' = PlanFor(ram[board])
                                       /\ GoTo("recSnapshot", session)
             [] mode = "reconcile"  -> /\ ReconcileWith(ram[board])
                                       /\ UNCHANGED plan
             [] mode = "verifySave" -> /\ GoTo("aheadReboot",
                                               Tr(Tr(ToApplying, "Saving"), "Rebooting"))
                                       /\ UNCHANGED plan
     \/ Abort /\ UNCHANGED plan
  /\ UNCHANGED <<mode, mayHaveWritten, identity, backup, touched, run>>

(* Record the snapshot; a change that is needed gets its backup built.      *)
RecordSnapshot ==
  /\ pc = "recSnapshot"
  /\ \/ /\ Appended("SnapshotRead")
        /\ IF plan.previous = plan.desired
           THEN GoTo("verifyNoop", session) /\ UNCHANGED backup
           ELSE /\ backup' = [unit |-> identity, plan |-> plan]
                /\ GoTo("recBackedUp", Tr(Tr(Tr(session, "Planning"),
                                             "AwaitingApproval"), "BackingUp"))
     \/ AppendFailed("SnapshotRead") /\ JournalFailure /\ UNCHANGED backup
  /\ UNCHANGED <<ram, eeprom, mode, mayHaveWritten, identity, plan, touched, run>>

(* An explicit no-op is verified by a second read. *)
VerifyNoOp ==
  /\ Exchanging("verifyNoop")
  /\ \/ Reachable("NoWrite") /\ ram[board] = plan.desired /\ GoTo("recNoop", session)
     \/ Abort
  /\ UNCHANGED caseVars

RecordNoOp ==
  /\ pc = "recNoop"
  /\ \/ Appended("Verified") /\ Finish("NoOpVerified", Tr(session, "Planning"))
     \/ AppendFailed("Verified") /\ JournalFailure
  /\ UNCHANGED <<ram, eeprom, caseVars>>

(* Mutant: the backup in memory is taken for the checkpoint.                 *)
RecordBackedUpInMemory ==
  /\ pc = "recBackedUp" /\ GoTo("aheadSet", Tr(session, "ApplyingTransient"))
  /\ UNCHANGED <<journalVars, ram, eeprom, caseVars>>

RecordBackedUp ==
  Record("recBackedUp", "BackedUp", "aheadSet", Tr(session, "ApplyingTransient"))

-----------------------------------------------------------------------------
(* `apply_and_finish`: SET, re-read, save.                                  *)

RecordAheadSet == RecordAhead("aheadSet", "AheadSet", "set")

SendSet ==
  Write("set", Reachable("TransientConfig"), SetFlags(plan.desired),
        "recSet", Recover)

RecordSet == Record("recSet", "SetApplied", "reread", session)

ReRead ==
  /\ Exchanging("reread")
  /\ \/ Reachable("NoWrite") /\ ram[board] = plan.desired /\ GoTo("recReread", session)
     \/ Recover
  /\ UNCHANGED caseVars

(* Mutant: the transition to Saving is missing. *)
RecordReReadStaying == Record("recReread", "ReReadBeforeSave", "aheadSave", session)

RecordReRead ==
  Record("recReread", "ReReadBeforeSave", "aheadSave", Tr(session, "Saving"))

RecordAheadSave == RecordAhead("aheadSave", "AheadSave", "save")

SendSave ==
  Write("save", Reachable("PersistentConfig"), SaveOrDrop, "recSaved", Recover)

(* Mutant: the save is verified by reading RAM, without the reboot.          *)
RecordSavedSkippingReboot ==
  Record("recSaved", "Saved", "verifyRead",
         Tr(Tr(Tr(session, "Rebooting"), "Reconnecting"), "Verifying"))

RecordSaved == Record("recSaved", "Saved", "aheadReboot", Tr(session, "Rebooting"))

-----------------------------------------------------------------------------
(* `reboot_and_verify`. *)

RecordAheadReboot == RecordAhead("aheadReboot", "AheadReboot", "reboot")

SendReboot ==
  Write("reboot", Reachable("Reboot"), Restart, "recRebooted", Recover)

(* Once the reboot is recorded the stale handle is closed. *)
RecordRebooted ==
  /\ pc = "recRebooted"
  /\ \/ /\ Appended("Rebooted")
        /\ pc' = "reopen" /\ session' = Tr(session, "Reconnecting")
        /\ link' = FALSE /\ UNCHANGED <<board, terminal>>
     \/ AppendFailed("Rebooted") /\ JournalFailure
  /\ UNCHANGED <<ram, eeprom, caseVars>>

Reopened ==
  /\ Exchanging("reopen")
  /\ Opened("recReconnected", session) \/ Recover
  /\ UNCHANGED caseVars

RecordReconnected ==
  Record("recReconnected", "Reconnected", "reidentify", Tr(session, "Verifying"))

(* Another device came back: stop, no recovery write may be aimed at it.    *)
ReIdentify ==
  /\ Exchanging("reidentify")
  /\ \/ Identifiable /\ board = identity /\ GoTo("verifyRead", session)
     \/ Identifiable /\ board # identity /\ GoTo("unknown", session)
     \/ Recover
  /\ UNCHANGED caseVars

(* Mutant: only the intended bit is compared. *)
VerifyReadOneBit ==
  /\ Exchanging("verifyRead")
  /\ \/ /\ Reachable("NoWrite") /\ ram[board].init = plan.desired.init
        /\ GoTo("recVerified", session)
     \/ Recover
  /\ UNCHANGED caseVars

VerifyRead ==
  /\ Exchanging("verifyRead")
  /\ \/ Reachable("NoWrite") /\ ram[board] = plan.desired /\ GoTo("recVerified", session)
     \/ Recover
  /\ UNCHANGED caseVars

RecordVerified ==
  /\ pc = "recVerified"
  /\ \/ Appended("Verified") /\ Finish("CompletedVerified", Tr(session, "CompletedVerified"))
     \/ AppendFailed("Verified") /\ JournalFailure
  /\ UNCHANGED <<ram, eeprom, caseVars>>

-----------------------------------------------------------------------------
(* `run_restore`.  Its exchanges are authorised by the constant state       *)
(* Recovering, whatever the session says.                                   *)

(* Mutant: recovery waits for the journal to accept its first record.        *)
RestoreStartRetrying ==
  /\ pc = "rStart"
  /\ \/ Appended("RecoveryStarted") /\ GoTo("rIdentify", session)
     \/ AppendFailed("RecoveryStarted") /\ GoTo("rStart", session)
  /\ UNCHANGED <<ram, eeprom, caseVars>>

RestoreStart == RestoreRecord("rStart", "RecoveryStarted", "rIdentify")

(* Mutant: any controller that identifies itself will do. *)
RestoreIdentifyAnyUnit ==
  /\ Exchanging("rIdentify")
  /\ \/ link /\ GoTo("rRead", session)
     \/ RestoreFails
  /\ UNCHANGED caseVars

(* Identity is proven again before anything else. *)
RestoreIdentify ==
  /\ Exchanging("rIdentify")
  /\ \/ link /\ board = backup.unit /\ GoTo("rRead", session)
     \/ RestoreFails
  /\ UNCHANGED caseVars

(* Mutant: the DShot fields are not compared. *)
RestoreReadFlagsOnly ==
  /\ Exchanging("rRead")
  /\ \/ /\ link
        /\ GoTo(IF [ram[board] EXCEPT !.dshot = backup.plan.previous.dshot]
                     = backup.plan.previous THEN "rInPlace" ELSE "rAheadSet",
                session)
     \/ RestoreFails
  /\ UNCHANGED caseVars

(* Nothing is written if the previous value is already there. *)
RestoreRead ==
  /\ Exchanging("rRead")
  /\ \/ /\ link
        /\ GoTo(IF ram[board] = backup.plan.previous THEN "rInPlace" ELSE "rAheadSet",
                session)
     \/ RestoreFails
  /\ UNCHANGED caseVars

RecordRestored(here) ==
  /\ pc = here
  /\ \/ Appended("Restored")
        /\ Finish("CompletedRestored", Tr(session, "CompletedRestored"))
     \/ AppendFailed("Restored") /\ RestoreFails
  /\ UNCHANGED <<ram, eeprom, caseVars>>

RestoreInPlace == RecordRestored("rInPlace")

RestoreAheadSet == RestoreRecord("rAheadSet", "AheadRestoreSet", "rSet")

RestoreSet ==
  Write("rSet", link, SetFlags(backup.plan.previous), "rRecSet", RestoreFails)

RestoreRecordSet == RestoreRecord("rRecSet", "SetApplied", "rReread")

(* Flags and DShot fields must both match before the save. *)
RestoreReRead ==
  /\ Exchanging("rReread")
  /\ \/ link /\ ram[board] = backup.plan.previous /\ GoTo("rRecReread", session)
     \/ RestoreFails
  /\ UNCHANGED caseVars

RestoreRecordReRead == RestoreRecord("rRecReread", "ReReadBeforeSave", "rAheadSave")
RestoreAheadSave == RestoreRecord("rAheadSave", "AheadRestoreSave", "rSave")

RestoreSave == Write("rSave", link, SaveOrDrop, "rRecSaved", RestoreFails)

RestoreRecordSaved == RestoreRecord("rRecSaved", "Saved", "rAheadReboot")
RestoreAheadReboot == RestoreRecord("rAheadReboot", "AheadReboot", "rReboot")

RestoreReboot == Write("rReboot", link, Restart, "rRecRebooted", RestoreFails)

RestoreRecordRebooted == RestoreRecord("rRecRebooted", "Rebooted", "rReopen")

(* The close that precedes the open fails the exchanges if the open fails.   *)
RestoreReopen ==
  /\ Exchanging("rReopen")
  /\ \/ Opened("rReidentify", session)
     \/ /\ pc' = "unknown" /\ link' = FALSE
        /\ UNCHANGED <<session, terminal, board>>
  /\ UNCHANGED caseVars

RestoreReIdentify ==
  /\ Exchanging("rReidentify")
  /\ \/ link /\ board = backup.unit /\ GoTo("rFinalRead", session)
     \/ RestoreFails
  /\ UNCHANGED caseVars

RestoreFinalRead ==
  /\ Exchanging("rFinalRead")
  /\ \/ link /\ ram[board] = backup.plan.previous /\ GoTo("rRecRestored", session)
     \/ RestoreFails
  /\ UNCHANGED caseVars

RestoreVerified == RecordRestored("rRecRestored")

(* `let _ = journal.try_append(StateUnknown)`, whatever became of it.       *)
DeclareUnknown ==
  /\ pc = "unknown"
  /\ TryAppend("StateUnknown")
  /\ Finish("StateUnknownRecoveryRequired", Tr(session, "StateUnknownRecoveryRequired"))
  /\ UNCHANGED <<ram, eeprom, caseVars>>

-----------------------------------------------------------------------------
(* The process and the bench. *)

(* The process dies; its memory and its open port are gone. *)
Crash ==
  /\ pc \notin Stopped
  /\ pc' = "off" /\ link' = FALSE /\ session' = NewSession
  /\ identity' = None /\ plan' = None /\ mayHaveWritten' = FALSE /\ mode' = "fresh"
  /\ UNCHANGED <<journalVars, board, ram, eeprom, backup, touched, terminal, run>>

(* `resume_beeper_lifecycle` on the reopened journal and the kept backup,   *)
(* which the caller has once the journal says BackedUp.                     *)
Resume ==
  /\ pc \in Stopped /\ Recorded(disk, "BackedUp")
  /\ run < MaxRuns /\ run' = run + 1
  /\ Reopen
  /\ mayHaveWritten' = WriteMayHaveOccurred(disk)
  /\ identity' = None /\ plan' = backup.plan
  /\ session' = NewSession /\ link' = FALSE
  /\ LET decision == Decision(disk)
     IN  /\ mode' = IF decision = "VerifySaveOutcome" THEN "verifySave" ELSE "reconcile"
         /\ terminal' = IF decision = "AlreadyTerminal" THEN Rebuilt(disk) ELSE None
         /\ pc' = CASE decision = "AlreadyTerminal" -> "done"
                    [] decision = "StateUnknown"    -> "unknown"
                    [] OTHER                        -> "open"
  /\ UNCHANGED <<board, ram, eeprom, backup, touched>>

PowerLoss == PowerCycle /\ UNCHANGED <<journalVars, engineVars>>

SwapBoard(u) == Replug(u) /\ UNCHANGED <<journalVars, engineVars>>

(* Another configurator may be used between two processes, while the case   *)
(* is open.                                                                 *)
EditElsewhere(value, kind) ==
  /\ pc \in Stopped /\ run < MaxRuns /\ ~Closed(disk)
  /\ OtherTool(value, kind)
  /\ UNCHANGED <<journalVars, engineVars>>

Connect == RecordStarted \/ OpenTransport \/ Identify \/ RecordIdentity
           \/ ReadSnapshot \/ RecordSnapshot \/ VerifyNoOp \/ RecordNoOp
           \/ RecordBackedUp

Apply == RecordAheadSet \/ SendSet \/ RecordSet \/ ReRead \/ RecordReRead
         \/ RecordAheadSave \/ SendSave \/ RecordSaved \/ RecordAheadReboot
         \/ SendReboot \/ RecordRebooted \/ Reopened \/ RecordReconnected
         \/ ReIdentify \/ VerifyRead \/ RecordVerified

Restore == RestoreStart \/ RestoreIdentify \/ RestoreRead \/ RestoreInPlace
           \/ RestoreAheadSet \/ RestoreSet \/ RestoreRecordSet \/ RestoreReRead
           \/ RestoreRecordReRead \/ RestoreAheadSave \/ RestoreSave
           \/ RestoreRecordSaved \/ RestoreAheadReboot \/ RestoreReboot
           \/ RestoreRecordRebooted \/ RestoreReopen \/ RestoreReIdentify
           \/ RestoreFinalRead \/ RestoreVerified

Engine == Connect \/ Apply \/ Restore \/ DeclareUnknown

Bench == \/ PowerLoss
         \/ \E u \in Units : SwapBoard(u)
         \/ \E value \in Snapshots, kind \in EditKinds : EditElsewhere(value, kind)

Next == Engine \/ Crash \/ Resume \/ Bench

Spec == Init /\ [][Next]_vars

(* The engine is a plain sequential call: unless its process dies it takes   *)
(* its next step, because every exchange ends by a reply or a timeout.      *)
FairSpec == Spec /\ WF_vars(Engine)

-----------------------------------------------------------------------------
(* Safety. *)

(* A SET, EEPROM_WRITE or REBOOT is only ever sent with its own write-ahead  *)
(* as the last durable record, also after a failed append or a restart.     *)
WriteAheadIsDurable ==
  LET AheadOf == [set |-> "AheadSet", save |-> "AheadSave",
                  reboot |-> "AheadReboot", rSet |-> "AheadRestoreSet",
                  rSave |-> "AheadRestoreSave", rReboot |-> "AheadReboot"]
  IN  pc \in DOMAIN AheadOf => disk # <<>> /\ Last(disk) = AheadOf[pc]

(* No controller has received a command of this case that changes it before  *)
(* a backup existed and the journal said so durably.                        *)
BackupPrecedesWrites == touched => backup # None /\ Recorded(disk, "BackedUp")

(* The engine changes the configuration of the unit the backup was taken     *)
(* from and of no other, whatever is plugged in, swapped or resumed.        *)
OnlyTheBackedUpUnit ==
  [][pc' # pc => \A u \in Units :
       ram'[u] # ram[u] \/ eeprom'[u] # eeprom[u]
         => backup # None /\ u = backup.unit]_vars

(* When a report says CompletedVerified, or a journal of a case that wrote   *)
(* holds Verified, the EEPROM holds the desired configuration, not just RAM. *)
VerifiedIsPersistent ==
  terminal = "CompletedVerified" \/ (touched /\ Recorded(disk, "Verified"))
    => eeprom[backup.unit] = backup.plan.desired

(* When a report or the journal says restored, the EEPROM holds the          *)
(* configuration of the backup, all flag bits and the DShot fields.         *)
RestoredIsPersistent ==
  terminal = "CompletedRestored" \/ Recorded(disk, "Restored")
    => eeprom[backup.unit] = backup.plan.previous

(* A fresh run that reports an abort, a no-op or a scope mismatch has not    *)
(* let a changing command reach any controller, whichever append or         *)
(* exchange failed.                                                         *)
FreshAbortIsClean ==
  pc = "done" /\ mode = "fresh"
  /\ terminal \in {"AbortedBeforeAnyWrite", "NoOpVerified", "ScopeMismatch"}
    => ~touched

(* Once RecoveryStarted is durable the apply path never runs again and       *)
(* recovery is not tried twice, over any number of restarts.                *)
RecoveryIsFinal ==
  \A i \in DOMAIN disk : disk[i] = "RecoveryStarted" =>
    \A k \in (i + 1)..Len(disk) :
      disk[k] \in {"AheadRestoreSet", "SetApplied", "ReReadBeforeSave",
                  "AheadRestoreSave", "Saved", "AheadReboot", "Rebooted",
                  "Restored", "StateUnknown"}

(* A closed case stays closed: nothing follows a terminal record, whether    *)
(* the process that appended it saw it succeed or not.                      *)
TerminalIsLast ==
  \A i \in DOMAIN disk : disk[i] \in TerminalEvents => i = Len(disk)

(* The session never stands in the way of the engine's own exchange: each    *)
(* normal-path exchange is reached in a state whose allow-list admits it,    *)
(* although the engine drops the errors of its transitions.                 *)
AuthorityHeld ==
  LET in == session.at
  IN  /\ pc \in {"identify", "reidentify"} => in \in PermitsIdentification
      /\ pc \in {"readSnapshot", "verifyNoop", "reread", "verifyRead"}
           => in \in PermittedIn["NoWrite"]
      /\ pc = "set"    => in \in PermittedIn["TransientConfig"]
      /\ pc = "save"   => in \in PermittedIn["PersistentConfig"]
      /\ pc = "reboot" => in \in PermittedIn["Reboot"]

(* Whatever terminal a fresh run reports over a journal it closed, a resume  *)
(* rebuilds the same terminal from that journal.                            *)
FreshReportRebuilds ==
  pc = "done" /\ mode = "fresh" /\ Closed(journal) => terminal = Rebuilt(journal)

(* What the engine has in hand at each point, over crashes and resumes: the  *)
(* invariant the proofs rest on.  No step uses an identity, plan or backup   *)
(* that is not there, and whoever may write, or may have written, can point  *)
(* to a durable BackedUp.                                                   *)
Identified == {"recIdentity", "readSnapshot", "recSnapshot"}
Planned == {"recSnapshot", "verifyNoop", "recNoop", "recBackedUp"} \cup ApplySteps
Writing == ApplySteps \cup RestoreSteps

EvidenceInHand ==
  /\ pc \in Identified => identity \in Units
  /\ pc \in Planned \/ (mode # "fresh" /\ pc \in ConnectSteps) => plan \in Plans
  /\ pc = "recBackedUp" \/ Recorded(disk, "BackedUp") => backup \in Backups
  /\ mode # "fresh" \/ mayHaveWritten \/ touched \/ pc \in Writing
       => Recorded(disk, "BackedUp")

-----------------------------------------------------------------------------
(* Liveness. *)

(* A run that is not killed reaches its report: no failure, in whatever      *)
(* order, leaves the engine going round.                                    *)
EngineStops == (pc \notin Stopped) ~> (pc \in Stopped)

-----------------------------------------------------------------------------
(* What the repository says of the engine and the engine does not do.       *)

(* core-api/src/lib.rs:990: "a journal that already reached a terminal state *)
(* is rebuilt idempotently": the rebuilt terminal is the reported one.      *)
RebuildIsIdempotent ==
  pc = "done" /\ Closed(journal) => terminal = Rebuilt(journal)

(* core-api/src/lib.rs:164, of AbortedBeforeAnyWrite: "The run aborted       *)
(* before any write reached the device."                                    *)
AbortMeansNoWrite ==
  pc = "done" /\ terminal = "AbortedBeforeAnyWrite" => ~touched
=============================================================================
