----------------------- MODULE BeeperLifecycleProofs -----------------------
(***************************************************************************)
(* The lifecycle, bottom up.  The journal discipline by itself: whatever    *)
(* its owner does through TryAppend and Reopen, the handle never runs ahead *)
(* of the disk.  The types of the engine, which uses the journal only so,   *)
(* and sends a changing command only on top of its durable write-ahead.     *)
(* Then its safety: the session admits each exchange the engine reaches, a  *)
(* fresh run that reports an abort wrote nothing, no command that changes a *)
(* controller reaches another unit than the one backed up, and what a case  *)
(* ends with, over failed appends and restarts: the order of the records in *)
(* its journal, what Verified or Restored says of the EEPROM, and that the  *)
(* report of a fresh run can be rebuilt from its journal.                   *)
(***************************************************************************)
EXTENDS BeeperLifecycle, SequenceTheorems, WellFoundedInduction, TLAPS

-----------------------------------------------------------------------------
(* The journal. *)

(* Every journal operation keeps the journal's types. *)
LEMMA TryAppendType ==
  ASSUME JournalTypeOK, NEW e \in Events, Appended(e) \/ AppendFailed(e)
  PROVE  JournalTypeOK' /\ limit' = limit
<1>1. CASE Appended(e)
  BY <1>1 DEF JournalTypeOK, Appended
<1>2. CASE AppendFailed(e)
  <2>1. /\ journal' = journal /\ limit' = limit
        /\ disk' = disk \/ disk' = Append(disk, e)
        /\ poisoned' = TRUE \/ poisoned' = poisoned
    BY <1>2 DEF AppendFailed
  <2>2. disk' \in Seq(Events)
    BY <2>1 DEF JournalTypeOK
  <2>3. poisoned' \in BOOLEAN
    BY <2>1 DEF JournalTypeOK
  <2> QED  BY <2>1, <2>2, <2>3 DEF JournalTypeOK
<1> QED  BY <1>1, <1>2

LEMMA ReopenType ==
  ASSUME JournalTypeOK, Reopen
  PROVE  JournalTypeOK' /\ limit' = limit
BY DEF JournalTypeOK, Reopen

(* The journal agreement is preserved by every journal operation.           *)
LEMMA JournalAgreesStep ==
  ASSUME JournalTypeOK, JournalAgrees, [JournalNext]_journalVars
  PROVE  JournalAgrees'
<1>1. ASSUME NEW e \in Events, Appended(e)
      PROVE  JournalAgrees'
  <2>1. journal = disk /\ journal' = disk' /\ journal' \in Seq(Events)
    BY <1>1 DEF JournalTypeOK, JournalAgrees, Appended, CanAppend
  <2> QED  BY <2>1 DEF JournalAgrees, IsPrefix
<1>2. ASSUME NEW e \in Events, AppendFailed(e)
      PROVE  JournalAgrees'
  <2>1. CASE CanAppend(e)
    <3>1. journal = disk /\ journal' = disk /\ poisoned' = TRUE
      BY <1>2, <2>1 DEF JournalAgrees, AppendFailed, CanAppend
    <3>2. disk' = disk \/ disk' = Append(disk, e)
      BY <1>2, <2>1 DEF AppendFailed
    <3>3. IsPrefix(disk, disk) /\ IsPrefix(disk, Append(disk, e))
      BY DEF IsPrefix, JournalTypeOK
    <3> QED  BY <3>1, <3>2, <3>3 DEF JournalAgrees
  <2>2. CASE ~CanAppend(e)
    BY <1>2, <2>2 DEF JournalAgrees, AppendFailed
  <2> QED  BY <2>1, <2>2
<1>3. CASE Reopen
  BY <1>3 DEF JournalAgrees, Reopen, IsPrefix, JournalTypeOK
<1>4. CASE UNCHANGED journalVars
  BY <1>4 DEF JournalAgrees, journalVars
<1> QED  BY <1>1, <1>2, <1>3, <1>4 DEF JournalNext, TryAppend

(* The handle and the disk agree in every reachable state of a journal.     *)
THEOREM JournalsAgree == JournalSpec => []JournalAgrees
<1>1. JournalInit => JournalTypeOK /\ JournalAgrees
  <2>1. <<>> \in Seq(Events) /\ IsPrefix(<<>>, <<>>)
    BY EmptySeq DEF IsPrefix
  <2> QED  BY <2>1 DEF JournalInit, JournalTypeOK, JournalAgrees
<1>2. JournalTypeOK /\ JournalAgrees /\ [JournalNext]_journalVars
        => JournalTypeOK' /\ JournalAgrees'
  <2>1. ASSUME JournalTypeOK, [JournalNext]_journalVars
        PROVE  JournalTypeOK'
    <3>1. CASE UNCHANGED journalVars
      BY <2>1, <3>1 DEF JournalTypeOK, journalVars
    <3> QED  BY <2>1, <3>1, TryAppendType, ReopenType DEF JournalNext, TryAppend
  <2> QED  BY <2>1, JournalAgreesStep
<1> QED  BY <1>1, <1>2, PTL DEF JournalSpec

-----------------------------------------------------------------------------
(* Recorded grows with the journal. *)
LEMMA RecordedAppend ==
  ASSUME NEW s \in Seq(Events), NEW e \in Events, NEW x
  PROVE  Recorded(Append(s, e), x) <=> Recorded(s, x) \/ e = x
<1>1. ASSUME Recorded(s, x) PROVE Recorded(Append(s, e), x)
  <2>1. PICK i \in DOMAIN s : s[i] = x
    BY <1>1 DEF Recorded
  <2>2. i \in DOMAIN Append(s, e) /\ Append(s, e)[i] = x
    BY <2>1
  <2> QED  BY <2>2 DEF Recorded
<1>2. ASSUME e = x PROVE Recorded(Append(s, e), x)
  <2>1. Len(s) + 1 \in DOMAIN Append(s, e) /\ Append(s, e)[Len(s) + 1] = x
    BY <1>2
  <2> QED  BY <2>1 DEF Recorded
<1>3. ASSUME Recorded(Append(s, e), x) PROVE Recorded(s, x) \/ e = x
  <2>1. PICK i \in DOMAIN Append(s, e) : Append(s, e)[i] = x
    BY <1>3 DEF Recorded
  <2>2. CASE i = Len(s) + 1
    BY <2>1, <2>2
  <2>3. CASE i # Len(s) + 1
    <3>1. i \in DOMAIN s /\ s[i] = x
      BY <2>1, <2>3
    <3> QED  BY <3>1 DEF Recorded
  <2> QED  BY <2>2, <2>3
<1> QED  BY <1>1, <1>2, <1>3

(* What an append does to the one record the evidence is about. *)
LEMMA AppendKeepsBackedUp ==
  ASSUME JournalTypeOK, NEW e \in Events, Appended(e) \/ AppendFailed(e)
  PROVE  /\ Recorded(disk, "BackedUp") => Recorded(disk', "BackedUp")
         /\ Recorded(disk', "BackedUp") => Recorded(disk, "BackedUp") \/ e = "BackedUp"
         /\ Appended(e) /\ e = "BackedUp" => Recorded(disk', "BackedUp")
<1>1. disk \in Seq(Events)
  BY DEF JournalTypeOK
<1>2. disk' = disk \/ disk' = Append(disk, e)
  BY DEF Appended, AppendFailed
<1>3. Recorded(Append(disk, e), "BackedUp") <=> Recorded(disk, "BackedUp") \/ e = "BackedUp"
  BY <1>1, RecordedAppend
<1>4. Appended(e) => disk' = Append(disk, e)
  BY DEF Appended
<1> QED  BY <1>2, <1>3, <1>4

-----------------------------------------------------------------------------
(* Sessions: a transition, legal or refused, yields a session.              *)
LEMMA TrType ==
  ASSUME NEW s \in Sessions, NEW next \in SessionStates
  PROVE  Tr(s, next) \in Sessions
BY DEF Tr, Sessions

LEMMA NewSessionType == NewSession \in Sessions
BY DEF NewSession, Sessions, SessionStates

-----------------------------------------------------------------------------
(* Control. *)

(* Where a step may end up: its own next point, a stop, or recovery.        *)
ControlStep(there) ==
  /\ ControlTypeOK'
  /\ board' = board /\ link' \in BOOLEAN
  /\ pc' \in {there, "done", "unknown"}

LEMMA GoToStep ==
  ASSUME TypeOK, NEW there \in Steps, NEW s \in Sessions, GoTo(there, s)
  PROVE  ControlStep(there) /\ pc' = there
BY DEF GoTo, ControlStep, TypeOK, ControlTypeOK, DeviceTypeOK

LEMMA FinishStep ==
  ASSUME TypeOK, NEW t \in Terminals, NEW s \in Sessions, Finish(t, s)
  PROVE  ControlStep("done") /\ pc' = "done"
BY DEF Finish, ControlStep, TypeOK, ControlTypeOK, DeviceTypeOK, Steps, Stopped

LEMMA DisconnectStep ==
  ASSUME TypeOK, NEW t \in Terminals, Disconnect(t)
  PROVE  ControlStep("done") /\ pc' = "done"
<1>1. Tr(session, "Disconnected") \in Sessions
  BY TrType DEF TypeOK, ControlTypeOK, SessionStates
<1> QED
  BY <1>1 DEF Disconnect, ControlStep, TypeOK, ControlTypeOK, DeviceTypeOK, Steps, Stopped

LEMMA AbortStep ==
  ASSUME TypeOK, Abort
  PROVE  ControlStep("done") /\ pc' = "done"
BY DisconnectStep DEF Abort, Terminals

LEMMA RecoverStep ==
  ASSUME TypeOK, Recover
  PROVE  ControlStep("rStart")
<1>1. Tr(session, "Recovering") \in Sessions
  BY TrType DEF TypeOK, ControlTypeOK, SessionStates
<1>2. "rStart" \in Steps /\ "unknown" \in Steps
  BY DEF Steps, RestoreSteps
<1>3. CASE backup = None
  BY <1>1, <1>2, <1>3, GoToStep DEF Recover, ControlStep
<1>4. CASE backup # None
  BY <1>1, <1>2, <1>4, GoToStep DEF Recover, ControlStep
<1> QED  BY <1>3, <1>4

LEMMA JournalFailureStep ==
  ASSUME TypeOK, JournalFailure
  PROVE  ControlStep("rStart") /\ (pc' = "rStart" => mayHaveWritten)
<1>1. CASE mayHaveWritten
  BY <1>1, RecoverStep DEF JournalFailure
<1>2. CASE ~mayHaveWritten
  BY <1>2, AbortStep DEF JournalFailure, ControlStep
<1> QED  BY <1>1, <1>2

LEMMA FailConnectingStep ==
  ASSUME TypeOK, NEW s \in Sessions, FailConnecting(s)
  PROVE  ControlStep("unknown")
<1>1. Tr(s, "Disconnected") \in Sessions
  BY TrType DEF SessionStates
<1>2. CASE mode = "fresh"
  BY <1>1, <1>2 DEF FailConnecting, ControlStep, TypeOK, ControlTypeOK,
                    DeviceTypeOK, Steps, Stopped, Terminals
<1>3. CASE mode # "fresh"
  BY <1>3, GoToStep DEF FailConnecting, Steps
<1> QED  BY <1>2, <1>3

LEMMA RestoreFailsStep ==
  ASSUME TypeOK, RestoreFails
  PROVE  ControlStep("unknown")
BY GoToStep DEF RestoreFails, Steps, TypeOK, ControlTypeOK

-----------------------------------------------------------------------------
(* The inductive invariant and the frame argument every action shares.      *)

IInv == TypeOK /\ EvidenceInHand

(* Going from here to there needs nothing that was not in hand at here.      *)
Onward(here, there) ==
  /\ there \in Steps
  /\ there \in Identified => here \in Identified
  /\ there \in Planned => here \in Planned
  /\ there \in ConnectSteps => here \in ConnectSteps
  /\ there # "recBackedUp"

(* The journal part of a step: nothing, or one append. *)
JournalKept == /\ JournalTypeOK' /\ limit' = limit
               /\ Recorded(disk, "BackedUp") => Recorded(disk', "BackedUp")
               /\ Recorded(disk', "BackedUp") => Recorded(disk, "BackedUp") \/ pc = "recBackedUp"

LEMMA UnchangedJournal ==
  ASSUME TypeOK, UNCHANGED journalVars
  PROVE  JournalKept
BY DEF TypeOK, JournalTypeOK, JournalKept, journalVars, Recorded

LEMMA AppendKept ==
  ASSUME TypeOK, NEW e \in Events, Appended(e) \/ AppendFailed(e),
         e = "BackedUp" => pc = "recBackedUp"
  PROVE  JournalKept
BY TryAppendType, AppendKeepsBackedUp DEF TypeOK, JournalKept

(* A step that leaves the evidence as it is preserves the invariant if it    *)
(* moves onward, stops, or starts a recovery it may start.                  *)
LEMMA FrameStep ==
  ASSUME IInv, NEW there, Onward(pc, there),
         ControlTypeOK', DeviceTypeOK', JournalKept,
         UNCHANGED <<mode, identity, plan, backup, run>>,
         mayHaveWritten' \in BOOLEAN, touched' \in BOOLEAN,
         mayHaveWritten' => mayHaveWritten \/ pc \in Writing,
         touched' => touched \/ pc \in Writing,
         pc' \in {there, "done", "unknown", "rStart"},
         pc' \in Writing => pc \in Writing \/ Recorded(disk', "BackedUp")
  PROVE  IInv'
<1>1. TypeOK'
  BY DEF IInv, TypeOK, CaseTypeOK, JournalKept
<1>2. /\ "done" \notin Identified \cup Planned \cup ConnectSteps
      /\ "unknown" \notin Identified \cup Planned \cup ConnectSteps
      /\ "rStart" \notin Identified \cup Planned \cup ConnectSteps
  BY DEF Identified, Planned, ConnectSteps, ApplySteps
<1>3. /\ pc' \in Identified => pc \in Identified
      /\ pc' \in Planned => pc \in Planned
      /\ pc' \in ConnectSteps => pc \in ConnectSteps
      /\ pc' # "recBackedUp"
  BY <1>2 DEF Onward
<1>4. (pc \in Identified => identity \in Units)'
  BY <1>3 DEF IInv, EvidenceInHand
<1>5. (pc \in Planned \/ (mode # "fresh" /\ pc \in ConnectSteps) => plan \in Plans)'
  BY <1>3 DEF IInv, EvidenceInHand
<1>6. (pc = "recBackedUp" \/ Recorded(disk, "BackedUp") => backup \in Backups)'
  BY <1>3 DEF IInv, EvidenceInHand, JournalKept
<1>7. (mode # "fresh" \/ mayHaveWritten \/ touched \/ pc \in Writing
         => Recorded(disk, "BackedUp"))'
  BY DEF IInv, EvidenceInHand, JournalKept
<1> QED  BY <1>1, <1>4, <1>5, <1>6, <1>7 DEF IInv, EvidenceInHand

-----------------------------------------------------------------------------
(* The shapes an engine step has. *)

LEMMA RecordKeeps ==
  ASSUME IInv, NEW here, NEW e \in Events, NEW there, NEW s \in Sessions,
         Onward(here, there), e = "BackedUp" => here = "recBackedUp",
         there \in Writing => here \in Writing \/ e = "BackedUp",
         Record(here, e, there, s)
  PROVE  IInv'
<1>1. TypeOK /\ pc = here
  BY DEF IInv, Record
<1>2. JournalKept /\ (Appended(e) /\ e = "BackedUp" => Recorded(disk', "BackedUp"))
  BY <1>1, AppendKept, AppendKeepsBackedUp DEF Record, TypeOK
<1>3. \/ /\ ControlStep(there)
         /\ pc' = there /\ Appended(e)
      \/ /\ ControlStep("rStart")
         /\ pc' = "rStart" => mayHaveWritten
  BY <1>1, GoToStep, JournalFailureStep DEF Record, Onward
<1>4. UNCHANGED <<ram, eeprom, caseVars>>
  BY DEF Record
<1>5. DeviceTypeOK' /\ ControlTypeOK'
  BY <1>1, <1>3, <1>4 DEF ControlStep, TypeOK, DeviceTypeOK
<1>6. pc' \in {there, "done", "unknown", "rStart"}
  BY <1>3 DEF ControlStep
<1>7. mayHaveWritten => Recorded(disk', "BackedUp")
  BY <1>2 DEF IInv, EvidenceInHand, JournalKept
<1>8. pc' \in Writing => pc \in Writing \/ Recorded(disk', "BackedUp")
  <2>1. "done" \notin Writing /\ "unknown" \notin Writing
    BY DEF Writing, ApplySteps, RestoreSteps
  <2> QED  BY <2>1, <1>1, <1>2, <1>3, <1>7 DEF ControlStep
<1>9. mayHaveWritten' \in BOOLEAN /\ touched' \in BOOLEAN
  BY <1>1, <1>4 DEF TypeOK, CaseTypeOK, caseVars
<1> QED
  BY <1>1, <1>2, <1>4, <1>5, <1>6, <1>8, <1>9, FrameStep DEF caseVars

LEMMA RecordAheadKeeps ==
  ASSUME IInv, NEW here \in ApplySteps, NEW e \in Events, NEW there \in ApplySteps,
         Onward(here, there), e # "BackedUp", RecordAhead(here, e, there)
  PROVE  IInv'
<1>1. TypeOK /\ pc = here
  BY DEF IInv, RecordAhead
<1>2. JournalKept
  BY <1>1, AppendKept DEF RecordAhead
<1>3. ControlStep(there) \/ ControlStep("rStart")
  BY <1>1, GoToStep, JournalFailureStep DEF RecordAhead, Onward, TypeOK, ControlTypeOK
<1>4. UNCHANGED <<ram, eeprom, mode, identity, plan, backup, touched, run>>
  BY DEF RecordAhead
<1>5. DeviceTypeOK' /\ ControlTypeOK'
  BY <1>1, <1>3, <1>4 DEF ControlStep, TypeOK, DeviceTypeOK
<1>6. pc' \in {there, "done", "unknown", "rStart"}
  BY <1>3 DEF ControlStep
<1>7. pc \in Writing
  BY <1>1 DEF Writing
<1>8. mayHaveWritten' \in BOOLEAN /\ touched' \in BOOLEAN
  BY <1>1, <1>4 DEF TypeOK, CaseTypeOK, RecordAhead
<1> QED
  BY <1>1, <1>2, <1>4, <1>5, <1>6, <1>7, <1>8, FrameStep

LEMMA RestoreRecordKeeps ==
  ASSUME IInv, NEW here \in RestoreSteps, NEW e \in Events,
         NEW there \in RestoreSteps,
         Onward(here, there), e # "BackedUp", RestoreRecord(here, e, there)
  PROVE  IInv'
<1>1. TypeOK /\ pc = here
  BY DEF IInv, RestoreRecord
<1>2. JournalKept
  BY <1>1, AppendKept DEF RestoreRecord
<1>3. ControlStep(there) \/ ControlStep("unknown")
  BY <1>1, GoToStep, RestoreFailsStep DEF RestoreRecord, Onward, TypeOK, ControlTypeOK
<1>4. UNCHANGED <<ram, eeprom, caseVars>>
  BY DEF RestoreRecord
<1>5. DeviceTypeOK' /\ ControlTypeOK'
  BY <1>1, <1>3, <1>4 DEF ControlStep, TypeOK, DeviceTypeOK
<1>6. pc' \in {there, "done", "unknown", "rStart"}
  BY <1>3 DEF ControlStep
<1>7. pc \in Writing
  BY <1>1 DEF Writing
<1>8. mayHaveWritten' \in BOOLEAN /\ touched' \in BOOLEAN
  BY <1>1, <1>4 DEF TypeOK, CaseTypeOK, caseVars
<1> QED
  BY <1>1, <1>2, <1>4, <1>5, <1>6, <1>7, <1>8, FrameStep DEF caseVars

(* A read, an identification or an open: only control and the link move.    *)
LEMMA ExchangeKeeps ==
  ASSUME IInv, NEW there, Onward(pc, there), Exchanging(pc), UNCHANGED caseVars,
         ControlStep(there) \/ ControlStep("rStart"),
         pc' \in Writing => pc \in Writing
  PROVE  IInv'
<1>1. TypeOK
  BY DEF IInv
<1>2. JournalKept
  BY <1>1, UnchangedJournal DEF Exchanging
<1>3. DeviceTypeOK' /\ ControlTypeOK' /\ pc' \in {there, "done", "unknown", "rStart"}
  BY <1>1 DEF ControlStep, TypeOK, DeviceTypeOK, Exchanging
<1>4. mayHaveWritten' \in BOOLEAN /\ touched' \in BOOLEAN
  BY <1>1 DEF TypeOK, CaseTypeOK, caseVars
<1> QED
  BY <1>2, <1>3, <1>4, FrameStep DEF caseVars

(* A command that may change the device. *)
LEMMA WriteKeeps ==
  ASSUME IInv, NEW there, Onward(pc, there), pc \in Writing,
         UNCHANGED <<journalVars, mode, mayHaveWritten, identity, plan, backup, run>>,
         ControlStep(there) \/ ControlStep("rStart"),
         ram' \in [Units -> Snapshots], eeprom' \in [Units -> Snapshots],
         touched' \in BOOLEAN
  PROVE  IInv'
<1>1. TypeOK
  BY DEF IInv
<1>2. JournalKept
  BY <1>1, UnchangedJournal
<1>3. DeviceTypeOK' /\ ControlTypeOK' /\ pc' \in {there, "done", "unknown", "rStart"}
  BY <1>1 DEF ControlStep, TypeOK, DeviceTypeOK
<1>4. mayHaveWritten' \in BOOLEAN
  BY <1>1 DEF TypeOK, CaseTypeOK
<1> QED
  BY <1>2, <1>3, <1>4, FrameStep

LEMMA SetFlagsType ==
  ASSUME DeviceTypeOK, NEW v \in Snapshots, SetFlags(v)
  PROVE  ram' \in [Units -> Snapshots] /\ eeprom' \in [Units -> Snapshots]
<1>1. ram[board] \in Snapshots
  BY DEF DeviceTypeOK
<1>2. [v EXCEPT !.dshot = ram[board].dshot] \in Snapshots
  BY <1>1 DEF Snapshots
<1> QED  BY <1>2 DEF DeviceTypeOK, SetFlags

LEMMA EepromCommandType ==
  ASSUME DeviceTypeOK, SaveEeprom \/ Restart \/ NoEffect
  PROVE  ram' \in [Units -> Snapshots] /\ eeprom' \in [Units -> Snapshots]
BY DEF DeviceTypeOK, SaveEeprom, Restart, NoEffect

-----------------------------------------------------------------------------
(* Every step keeps the invariant. *)

(* The control points and the terminals are what they are. *)
LEMMA SessionsReached ==
  ASSUME TypeOK
  PROVE  /\ session \in Sessions
         /\ \A n \in SessionStates : Tr(session, n) \in Sessions
         /\ Tr(Tr(Tr(session, "Planning"), "AwaitingApproval"), "BackingUp") \in Sessions
         /\ ToApplying \in Sessions
         /\ Tr(Tr(ToApplying, "Saving"), "Rebooting") \in Sessions
         /\ Tr(Tr(session, "Connecting"), "Identifying") \in Sessions
<1>1. session \in Sessions
  BY DEF TypeOK, ControlTypeOK
<1>2. \A s \in Sessions : \A n \in SessionStates : Tr(s, n) \in Sessions
  BY TrType
<1>3. {"Planning", "AwaitingApproval", "BackingUp", "ApplyingTransient", "Saving",
       "Rebooting", "Connecting", "Identifying"} \subseteq SessionStates
  BY DEF SessionStates
<1> QED  BY <1>1, <1>2, <1>3 DEF ToApplying

LEMMA PlanForType ==
  ASSUME NEW s \in Snapshots
  PROVE  PlanFor(s) \in Plans
BY DEF PlanFor, Plans, Desired, Snapshots

(* The append that closes a case, on the apply path. *)
LEMMA FinalRecordKeeps ==
  ASSUME IInv, pc \in {"recNoop", "recVerified"},
         UNCHANGED <<ram, eeprom, caseVars>>,
         NEW t \in Terminals, NEW n \in SessionStates,
         \/ Appended("Verified") /\ Finish(t, Tr(session, n))
         \/ AppendFailed("Verified") /\ JournalFailure
  PROVE  IInv'
<1>1. TypeOK
  BY DEF IInv
<1>2. JournalKept
  BY <1>1, AppendKept DEF Events
<1>3. \/ ControlStep("done") /\ pc' = "done"
      \/ ControlStep("rStart") /\ (pc' = "rStart" => mayHaveWritten)
  BY <1>1, FinishStep, JournalFailureStep, SessionsReached
<1>4. pc' \in Writing => Recorded(disk', "BackedUp")
  BY <1>2, <1>3 DEF ControlStep, IInv, EvidenceInHand, JournalKept, Writing, ApplySteps,
     RestoreSteps
<1>5. ControlTypeOK' /\ DeviceTypeOK' /\ pc' \in {"done", "unknown", "rStart"}
  BY <1>1, <1>3 DEF ControlStep, TypeOK, DeviceTypeOK
<1>6. mayHaveWritten' \in BOOLEAN /\ touched' \in BOOLEAN
  BY <1>1 DEF TypeOK, CaseTypeOK, caseVars
<1>7. Onward(pc, "done")
  BY DEF Onward, Steps, Stopped, Identified, Planned, ConnectSteps, ApplySteps
<1> QED  BY <1>2, <1>4, <1>5, <1>6, <1>7, FrameStep DEF caseVars

LEMMA ConnectKeeps ==
  ASSUME IInv, Connect
  PROVE  IInv'
<1> USE DEF Onward, Steps, Stopped, ConnectSteps, ApplySteps, RestoreSteps,
            Identified, Planned, Writing
<1>1. TypeOK /\ EvidenceInHand
  BY DEF IInv
<1>2. /\ session \in Sessions
      /\ \A n \in SessionStates : Tr(session, n) \in Sessions
  BY <1>1, SessionsReached
<1>3. CASE RecordStarted
  BY <1>2, <1>3, RecordKeeps DEF RecordStarted, Events
<1>4. CASE OpenTransport
  <2> DEFINE c == Tr(session, "Connecting")
  <2>1. c \in Sessions /\ Tr(c, "Identifying") \in Sessions
    BY <1>1, SessionsReached DEF SessionStates
  <2>2. /\ Exchanging("open") /\ UNCHANGED caseVars
        /\ Opened("identify", Tr(c, "Identifying")) \/ FailConnecting(c)
    BY <1>4 DEF OpenTransport
  <2>3. CASE Opened("identify", Tr(c, "Identifying"))
    <3>1. ControlStep("identify") /\ pc' = "identify"
      BY <1>1, <2>1, <2>3 DEF Opened, ControlStep, ControlTypeOK, TypeOK, DeviceTypeOK
    <3> QED  BY <2>2, <3>1, ExchangeKeeps DEF Exchanging
  <2>4. CASE FailConnecting(c)
    <3>1. ControlStep("unknown")
      BY <1>1, <2>1, <2>4, FailConnectingStep
    <3> QED  BY <2>2, <3>1, ExchangeKeeps DEF Exchanging, ControlStep
  <2> HIDE DEF c
  <2> QED  BY <2>2, <2>3, <2>4
<1>5. CASE Identify
  <2>1. Exchanging("identify") /\ pc = "identify"
    BY <1>5 DEF Identify, Exchanging
  <2>2. CASE GoTo("recIdentity", session) /\ identity' = board
    <3>1. ControlStep("recIdentity") /\ pc' = "recIdentity"
      BY <1>1, <1>2, <2>2, GoToStep
    <3>2. identity' \in Units
      BY <1>1, <2>2 DEF TypeOK, DeviceTypeOK
    <3>3. TypeOK'
      BY <1>1, <1>5, <2>1, <3>1, <3>2 DEF Identify, Exchanging, TypeOK, CaseTypeOK,
         ControlStep, DeviceTypeOK, JournalTypeOK, journalVars
    <3>4. EvidenceInHand'
      BY <1>1, <1>5, <2>1, <3>1, <3>2 DEF Identify, Exchanging, EvidenceInHand,
         journalVars, Recorded
    <3> QED  BY <3>3, <3>4 DEF IInv
  <2>3. CASE FailConnecting(session) /\ UNCHANGED identity
    <3>1. ControlStep("unknown")
      BY <1>1, <1>2, <2>3, FailConnectingStep
    <3>2. UNCHANGED caseVars
      BY <1>5, <2>3 DEF Identify, caseVars
    <3> QED  BY <2>1, <3>1, <3>2, ExchangeKeeps DEF ControlStep
  <2> QED  BY <1>5, <2>2, <2>3 DEF Identify
<1>6. CASE RecordIdentity
  <2>1. CASE mode = "fresh" /\ identity \notin InScope
    <3>1. /\ pc = "recIdentity" /\ UNCHANGED <<ram, eeprom, caseVars>>
          /\ \/ Appended("IdentityRead") /\ Disconnect("ScopeMismatch")
             \/ AppendFailed("IdentityRead") /\ JournalFailure
      BY <1>6, <2>1 DEF RecordIdentity
    <3>2. JournalKept
      BY <1>1, <3>1, AppendKept DEF Events
    <3>3. \/ ControlStep("done") /\ pc' = "done"
          \/ ControlStep("rStart") /\ (pc' = "rStart" => mayHaveWritten)
      BY <1>1, <3>1, DisconnectStep, JournalFailureStep DEF Terminals
    <3>4. pc' \in Writing => Recorded(disk', "BackedUp")
      BY <1>1, <3>2, <3>3 DEF ControlStep, EvidenceInHand, JournalKept
    <3>5. /\ ControlTypeOK' /\ DeviceTypeOK'
          /\ pc' \in {"readSnapshot", "done", "unknown", "rStart"}
      BY <1>1, <3>1, <3>3 DEF ControlStep, TypeOK, DeviceTypeOK
    <3>6. mayHaveWritten' \in BOOLEAN /\ touched' \in BOOLEAN
      BY <1>1, <3>1 DEF TypeOK, CaseTypeOK, caseVars
    <3>7. Onward(pc, "readSnapshot")
      BY <3>1
    <3> QED  BY <3>1, <3>2, <3>4, <3>5, <3>6, <3>7, FrameStep DEF caseVars
  <2>2. CASE ~(mode = "fresh" /\ identity \notin InScope)
    BY <1>2, <1>6, <2>2, RecordKeeps DEF RecordIdentity, Events, SessionStates
  <2> QED  BY <2>1, <2>2
<1>7. CASE ReadSnapshot
  <2>1. /\ Exchanging("readSnapshot")
        /\ UNCHANGED <<mode, mayHaveWritten, identity, backup, touched, run>>
    BY <1>7 DEF ReadSnapshot
  <2>2. CASE mode = "fresh" /\ plan' = PlanFor(ram[board]) /\ GoTo("recSnapshot", session)
    <3>1. ControlStep("recSnapshot") /\ pc' = "recSnapshot"
      BY <1>1, <1>2, <2>2, GoToStep
    <3>2. plan' \in Plans
      BY <1>1, <2>2, PlanForType DEF TypeOK, DeviceTypeOK
    <3>3. TypeOK'
      BY <1>1, <2>1, <3>1, <3>2 DEF Exchanging, TypeOK, CaseTypeOK,
         ControlStep, DeviceTypeOK, JournalTypeOK, journalVars
    <3>4. EvidenceInHand'
      BY <1>1, <2>1, <2>2, <3>1, <3>2 DEF Exchanging, EvidenceInHand, journalVars, Recorded
    <3> QED  BY <3>3, <3>4 DEF IInv
  <2>3. CASE mode # "fresh" /\ UNCHANGED plan
             /\ (ReconcileWith(ram[board])
                  \/ GoTo("aheadReboot", Tr(Tr(ToApplying, "Saving"), "Rebooting")))
    <3>1. \/ ControlStep("reread") /\ pc' = "reread"
          \/ ControlStep("aheadSet") /\ pc' = "aheadSet"
          \/ ControlStep("unknown") /\ pc' = "unknown"
          \/ ControlStep("aheadReboot") /\ pc' = "aheadReboot"
      BY <1>1, <1>2, <2>3, GoToStep, SessionsReached DEF ReconcileWith
    <3>2. TypeOK'
      BY <1>1, <2>1, <2>3, <3>1 DEF Exchanging, TypeOK, CaseTypeOK,
         ControlStep, DeviceTypeOK, JournalTypeOK, journalVars
    <3>3. EvidenceInHand'
      BY <1>1, <2>1, <2>3, <3>1 DEF Exchanging, EvidenceInHand, journalVars, Recorded
    <3> QED  BY <3>2, <3>3 DEF IInv
  <2>4. CASE Abort /\ UNCHANGED plan
    <3>1. ControlStep("done") /\ pc' = "done"
      BY <1>1, <2>4, AbortStep
    <3> QED  BY <2>1, <2>4, <3>1, ExchangeKeeps DEF Exchanging, caseVars
  <2>5. mode \in {"fresh", "reconcile", "verifySave"}
    BY <1>1 DEF TypeOK, CaseTypeOK
  <2> QED  BY <1>7, <2>2, <2>3, <2>4, <2>5 DEF ReadSnapshot
<1>8. CASE RecordSnapshot
  <2>1. /\ pc = "recSnapshot"
        /\ UNCHANGED <<ram, eeprom, mode, mayHaveWritten, identity, plan, touched, run>>
        /\ Appended("SnapshotRead") \/ AppendFailed("SnapshotRead")
    BY <1>8 DEF RecordSnapshot
  <2>2. JournalKept
    BY <1>1, <2>1, AppendKept DEF Events
  <2>3. CASE UNCHANGED backup /\ (GoTo("verifyNoop", session) \/ JournalFailure)
    <3>1. \/ ControlStep("verifyNoop") /\ pc' = "verifyNoop"
          \/ ControlStep("rStart") /\ (pc' = "rStart" => mayHaveWritten)
      BY <1>1, <1>2, <2>3, GoToStep, JournalFailureStep
    <3>2. pc' \in Writing => Recorded(disk', "BackedUp")
      BY <1>1, <2>2, <3>1 DEF ControlStep, EvidenceInHand, JournalKept
    <3>3. /\ ControlTypeOK' /\ DeviceTypeOK'
          /\ pc' \in {"verifyNoop", "done", "unknown", "rStart"}
      BY <1>1, <2>1, <3>1 DEF ControlStep, TypeOK, DeviceTypeOK
    <3>4. mayHaveWritten' \in BOOLEAN /\ touched' \in BOOLEAN
      BY <1>1, <2>1 DEF TypeOK, CaseTypeOK
    <3>5. Onward(pc, "verifyNoop")
      BY <2>1
    <3> QED  BY <2>1, <2>2, <2>3, <3>2, <3>3, <3>4, <3>5, FrameStep
  <2>4. CASE /\ backup' = [unit |-> identity, plan |-> plan]
             /\ GoTo("recBackedUp", Tr(Tr(Tr(session, "Planning"),
                                         "AwaitingApproval"), "BackingUp"))
    <3>1. ControlStep("recBackedUp") /\ pc' = "recBackedUp"
      BY <1>1, <2>4, GoToStep, SessionsReached
    <3>2. backup' \in Backups
      BY <1>1, <2>1, <2>4 DEF EvidenceInHand, Backups
    <3>3. TypeOK'
      BY <1>1, <2>1, <2>2, <3>1, <3>2 DEF TypeOK, CaseTypeOK, ControlStep, DeviceTypeOK,
         JournalKept
    <3>4. EvidenceInHand'
      BY <1>1, <2>1, <2>2, <3>1, <3>2 DEF EvidenceInHand, JournalKept
    <3> QED  BY <3>3, <3>4 DEF IInv
  <2> QED  BY <1>8, <2>3, <2>4 DEF RecordSnapshot
<1>9. CASE VerifyNoOp
  <2>1. /\ Exchanging("verifyNoop") /\ UNCHANGED caseVars
        /\ GoTo("recNoop", session) \/ Abort
    BY <1>9 DEF VerifyNoOp
  <2>2. (ControlStep("recNoop") /\ pc' = "recNoop") \/ (ControlStep("done") /\ pc' = "done")
    BY <1>1, <1>2, <2>1, GoToStep, AbortStep
  <2> QED  BY <2>1, <2>2, ExchangeKeeps DEF Exchanging, ControlStep
<1>10. CASE RecordNoOp
  BY <1>1, <1>10, FinalRecordKeeps DEF RecordNoOp, SessionStates, Terminals
<1>11. CASE RecordBackedUp
  BY <1>2, <1>11, RecordKeeps DEF RecordBackedUp, Events, SessionStates
<1> QED
  BY <1>3, <1>4, <1>5, <1>6, <1>7, <1>8, <1>9, <1>10, <1>11 DEF Connect

LEMMA ApplyKeeps ==
  ASSUME IInv, Apply
  PROVE  IInv'
<1> USE DEF Onward, Steps, Stopped, ConnectSteps, ApplySteps, RestoreSteps,
            Identified, Planned, Writing
<1>1. TypeOK /\ EvidenceInHand
  BY DEF IInv
<1>2. /\ session \in Sessions
      /\ \A n \in SessionStates : Tr(session, n) \in Sessions
  BY <1>1, SessionsReached
<1>3. CASE RecordAheadSet
  BY <1>3, RecordAheadKeeps DEF RecordAheadSet, Events, WriteAheads
<1>4. CASE SendSet
  <2>1. ControlStep("recSet") \/ ControlStep("rStart")
    BY <1>1, <1>2, <1>4, GoToStep, RecoverStep DEF SendSet, Write
  <2>2. plan.desired \in Snapshots
    BY <1>1, <1>4 DEF SendSet, Write, EvidenceInHand, Plans
  <2>3. ram' \in [Units -> Snapshots] /\ eeprom' \in [Units -> Snapshots]
    BY <1>1, <2>2, <1>4, SetFlagsType, EepromCommandType DEF SendSet, Write, TypeOK
  <2>4. touched' \in BOOLEAN
    BY <1>1, <1>4 DEF SendSet, Write, TypeOK, CaseTypeOK
  <2> QED  BY <1>4, <2>1, <2>3, <2>4, WriteKeeps DEF SendSet, Write
<1>5. CASE RecordSet
  BY <1>2, <1>5, RecordKeeps DEF RecordSet, Events, SessionStates
<1>6. CASE ReRead
  <2>1. Exchanging("reread") /\ UNCHANGED caseVars
    BY <1>6 DEF ReRead
  <2>2. ControlStep("recReread") \/ ControlStep("rStart")
    BY <1>1, <1>2, <1>6, GoToStep, RecoverStep DEF ReRead, ControlStep
  <2> QED  BY <2>1, <2>2, ExchangeKeeps DEF Exchanging
<1>7. CASE RecordReRead
  BY <1>2, <1>7, RecordKeeps DEF RecordReRead, Events, SessionStates
<1>8. CASE RecordAheadSave
  BY <1>8, RecordAheadKeeps DEF RecordAheadSave, Events, WriteAheads
<1>9. CASE SendSave
  <2>1. ControlStep("recSaved") \/ ControlStep("rStart")
    BY <1>1, <1>2, <1>9, GoToStep, RecoverStep DEF SendSave, Write
  <2>3. ram' \in [Units -> Snapshots] /\ eeprom' \in [Units -> Snapshots]
    BY <1>1, <1>9, EepromCommandType DEF SendSave, Write, SaveOrDrop, TypeOK
  <2>4. touched' \in BOOLEAN
    BY <1>1, <1>9 DEF SendSave, Write, TypeOK, CaseTypeOK
  <2> QED  BY <1>9, <2>1, <2>3, <2>4, WriteKeeps DEF SendSave, Write
<1>10. CASE RecordSaved
  BY <1>2, <1>10, RecordKeeps DEF RecordSaved, Events, SessionStates
<1>11. CASE RecordAheadReboot
  BY <1>11, RecordAheadKeeps DEF RecordAheadReboot, Events, WriteAheads
<1>12. CASE SendReboot
  <2>1. ControlStep("recRebooted") \/ ControlStep("rStart")
    BY <1>1, <1>2, <1>12, GoToStep, RecoverStep DEF SendReboot, Write
  <2>3. ram' \in [Units -> Snapshots] /\ eeprom' \in [Units -> Snapshots]
    BY <1>1, <1>12, EepromCommandType DEF SendReboot, Write, SaveOrDrop, TypeOK
  <2>4. touched' \in BOOLEAN
    BY <1>1, <1>12 DEF SendReboot, Write, TypeOK, CaseTypeOK
  <2> QED  BY <1>12, <2>1, <2>3, <2>4, WriteKeeps DEF SendReboot, Write
<1>13. CASE RecordRebooted
  <2>1. pc = "recRebooted" /\ UNCHANGED <<ram, eeprom, caseVars>>
    BY <1>13 DEF RecordRebooted
  <2>2. JournalKept
    BY <1>1, <1>13, AppendKept DEF RecordRebooted, Events
  <2>3. Tr(session, "Reconnecting") \in Sessions
    BY <1>2 DEF SessionStates
  <2>4. ControlStep("reopen") \/ ControlStep("rStart")
    BY <1>1, <2>3, <1>13, JournalFailureStep DEF RecordRebooted, ControlStep, ControlTypeOK,
       TypeOK, DeviceTypeOK
  <2>5. /\ ControlTypeOK' /\ DeviceTypeOK'
        /\ pc' \in {"reopen", "done", "unknown", "rStart"}
    BY <1>1, <2>1, <2>4 DEF ControlStep, TypeOK, DeviceTypeOK
  <2>6. mayHaveWritten' \in BOOLEAN /\ touched' \in BOOLEAN
    BY <1>1, <2>1 DEF TypeOK, CaseTypeOK, caseVars
  <2>7. Onward(pc, "reopen") /\ pc \in Writing
    BY <2>1
  <2> QED  BY <2>1, <2>2, <2>5, <2>6, <2>7, FrameStep DEF caseVars
<1>14. CASE Reopened
  <2>1. Exchanging("reopen") /\ UNCHANGED caseVars
    BY <1>14 DEF Reopened
  <2>2. ControlStep("recReconnected") \/ ControlStep("rStart")
    BY <1>1, <1>2, <1>14, RecoverStep DEF Reopened, Opened, ControlStep, ControlTypeOK,
       TypeOK, DeviceTypeOK
  <2> QED  BY <2>1, <2>2, ExchangeKeeps DEF Exchanging
<1>15. CASE RecordReconnected
  BY <1>2, <1>15, RecordKeeps DEF RecordReconnected, Events, SessionStates
<1>16. CASE ReIdentify
  <2>1. Exchanging("reidentify") /\ UNCHANGED caseVars
    BY <1>16 DEF ReIdentify
  <2>2. ControlStep("verifyRead") \/ ControlStep("rStart")
    BY <1>1, <1>2, <1>16, GoToStep, RecoverStep DEF ReIdentify, ControlStep
  <2> QED  BY <2>1, <2>2, ExchangeKeeps DEF Exchanging
<1>17. CASE VerifyRead
  <2>1. Exchanging("verifyRead") /\ UNCHANGED caseVars
    BY <1>17 DEF VerifyRead
  <2>2. ControlStep("recVerified") \/ ControlStep("rStart")
    BY <1>1, <1>2, <1>17, GoToStep, RecoverStep DEF VerifyRead, ControlStep
  <2> QED  BY <2>1, <2>2, ExchangeKeeps DEF Exchanging
<1>18. CASE RecordVerified
  BY <1>1, <1>18, FinalRecordKeeps DEF RecordVerified, SessionStates, Terminals
<1> QED
  BY <1>3, <1>4, <1>5, <1>6, <1>7, <1>8, <1>9, <1>10, <1>11,
     <1>12, <1>13, <1>14, <1>15, <1>16, <1>17, <1>18 DEF Apply

(* The append that closes a recovery. *)
LEMMA RestoredRecordKeeps ==
  ASSUME IInv, NEW here \in {"rInPlace", "rRecRestored"}, RecordRestored(here)
  PROVE  IInv'
<1>1. TypeOK /\ pc = here /\ UNCHANGED <<ram, eeprom, caseVars>>
  BY DEF IInv, RecordRestored
<1>2. JournalKept
  BY <1>1, AppendKept DEF Events, RecordRestored
<1>3. Tr(session, "CompletedRestored") \in Sessions
  BY <1>1, SessionsReached DEF SessionStates
<1>4. ControlStep("done") \/ ControlStep("unknown")
  BY <1>1, <1>3, FinishStep, RestoreFailsStep DEF RecordRestored, Terminals
<1>5. ControlTypeOK' /\ DeviceTypeOK' /\ pc' \in {"done", "unknown", "rStart"}
  BY <1>1, <1>4 DEF ControlStep, TypeOK, DeviceTypeOK
<1>6. mayHaveWritten' \in BOOLEAN /\ touched' \in BOOLEAN
  BY <1>1 DEF TypeOK, CaseTypeOK, caseVars
<1>7. Onward(pc, "done") /\ pc \in Writing
  BY <1>1 DEF Onward, Steps, Stopped, Identified, Planned, ConnectSteps, ApplySteps,
     Writing, RestoreSteps
<1> QED  BY <1>1, <1>2, <1>5, <1>6, <1>7, FrameStep DEF caseVars

LEMMA RestoreKeeps ==
  ASSUME IInv, Restore
  PROVE  IInv'
<1> USE DEF Onward, Steps, Stopped, ConnectSteps, ApplySteps, RestoreSteps,
            Identified, Planned, Writing
<1>1. TypeOK /\ EvidenceInHand
  BY DEF IInv
<1>2. /\ session \in Sessions
      /\ \A n \in SessionStates : Tr(session, n) \in Sessions
  BY <1>1, SessionsReached
<1>3. CASE RestoreStart
  BY <1>3, RestoreRecordKeeps DEF RestoreStart, Events, WriteAheads
<1>4. CASE RestoreIdentify
  <2>1. Exchanging("rIdentify") /\ UNCHANGED caseVars
    BY <1>4 DEF RestoreIdentify
  <2>2. ControlStep("rRead") \/ ControlStep("unknown")
    BY <1>1, <1>2, <1>4, GoToStep, RestoreFailsStep DEF RestoreIdentify
  <2> QED  BY <2>1, <2>2, ExchangeKeeps DEF Exchanging, ControlStep
<1>5. CASE RestoreRead
  <2>1. Exchanging("rRead") /\ UNCHANGED caseVars
    BY <1>5 DEF RestoreRead
  <2>2. ControlStep("rInPlace") \/ ControlStep("rAheadSet") \/ ControlStep("unknown")
    BY <1>1, <1>2, <1>5, GoToStep, RestoreFailsStep DEF RestoreRead
  <2> QED  BY <2>1, <2>2, ExchangeKeeps DEF Exchanging, ControlStep
<1>6. CASE RestoreInPlace
  BY <1>6, RestoredRecordKeeps DEF RestoreInPlace
<1>7. CASE RestoreAheadSet
  BY <1>7, RestoreRecordKeeps DEF RestoreAheadSet, Events, WriteAheads
<1>8. CASE RestoreSet
  <2>1. ControlStep("rRecSet") \/ ControlStep("unknown")
    BY <1>1, <1>2, <1>8, GoToStep, RestoreFailsStep DEF RestoreSet, Write
  <2>2. backup.plan.previous \in Snapshots
    BY <1>1, <1>8 DEF RestoreSet, Write, EvidenceInHand, Backups, Plans
  <2>3. ram' \in [Units -> Snapshots] /\ eeprom' \in [Units -> Snapshots]
    BY <1>1, <2>2, <1>8, SetFlagsType, EepromCommandType DEF RestoreSet, Write, TypeOK
  <2>4. touched' \in BOOLEAN
    BY <1>1, <1>8 DEF RestoreSet, Write, TypeOK, CaseTypeOK
  <2> QED
    BY <1>8, <2>1, <2>3, <2>4, WriteKeeps DEF RestoreSet, Write, ControlStep
<1>9. CASE RestoreRecordSet
  BY <1>9, RestoreRecordKeeps DEF RestoreRecordSet, Events, WriteAheads
<1>10. CASE RestoreReRead
  <2>1. Exchanging("rReread") /\ UNCHANGED caseVars
    BY <1>10 DEF RestoreReRead
  <2>2. ControlStep("rRecReread") \/ ControlStep("unknown")
    BY <1>1, <1>2, <1>10, GoToStep, RestoreFailsStep DEF RestoreReRead
  <2> QED  BY <2>1, <2>2, ExchangeKeeps DEF Exchanging, ControlStep
<1>11. CASE RestoreRecordReRead
  BY <1>11, RestoreRecordKeeps DEF RestoreRecordReRead, Events, WriteAheads
<1>12. CASE RestoreAheadSave
  BY <1>12, RestoreRecordKeeps DEF RestoreAheadSave, Events, WriteAheads
<1>13. CASE RestoreSave
  <2>1. ControlStep("rRecSaved") \/ ControlStep("unknown")
    BY <1>1, <1>2, <1>13, GoToStep, RestoreFailsStep DEF RestoreSave, Write
  <2>3. ram' \in [Units -> Snapshots] /\ eeprom' \in [Units -> Snapshots]
    BY <1>1, <1>13, EepromCommandType DEF RestoreSave, Write, SaveOrDrop, TypeOK
  <2>4. touched' \in BOOLEAN
    BY <1>1, <1>13 DEF RestoreSave, Write, TypeOK, CaseTypeOK
  <2> QED
    BY <1>13, <2>1, <2>3, <2>4, WriteKeeps DEF RestoreSave, Write, ControlStep
<1>14. CASE RestoreRecordSaved
  BY <1>14, RestoreRecordKeeps DEF RestoreRecordSaved, Events, WriteAheads
<1>15. CASE RestoreAheadReboot
  BY <1>15, RestoreRecordKeeps DEF RestoreAheadReboot, Events, WriteAheads
<1>16. CASE RestoreReboot
  <2>1. ControlStep("rRecRebooted") \/ ControlStep("unknown")
    BY <1>1, <1>2, <1>16, GoToStep, RestoreFailsStep DEF RestoreReboot, Write
  <2>3. ram' \in [Units -> Snapshots] /\ eeprom' \in [Units -> Snapshots]
    BY <1>1, <1>16, EepromCommandType DEF RestoreReboot, Write, SaveOrDrop, TypeOK
  <2>4. touched' \in BOOLEAN
    BY <1>1, <1>16 DEF RestoreReboot, Write, TypeOK, CaseTypeOK
  <2> QED
    BY <1>16, <2>1, <2>3, <2>4, WriteKeeps DEF RestoreReboot, Write, ControlStep
<1>17. CASE RestoreRecordRebooted
  BY <1>17, RestoreRecordKeeps DEF RestoreRecordRebooted, Events, WriteAheads
<1>18. CASE RestoreReopen
  <2>1. Exchanging("rReopen") /\ UNCHANGED caseVars
    BY <1>18 DEF RestoreReopen
  <2>2. ControlStep("rReidentify") \/ ControlStep("unknown")
    BY <1>1, <1>2, <1>18 DEF RestoreReopen, Opened, ControlStep, ControlTypeOK, TypeOK, DeviceTypeOK
  <2> QED  BY <2>1, <2>2, ExchangeKeeps DEF Exchanging, ControlStep
<1>19. CASE RestoreReIdentify
  <2>1. Exchanging("rReidentify") /\ UNCHANGED caseVars
    BY <1>19 DEF RestoreReIdentify
  <2>2. ControlStep("rFinalRead") \/ ControlStep("unknown")
    BY <1>1, <1>2, <1>19, GoToStep, RestoreFailsStep DEF RestoreReIdentify
  <2> QED  BY <2>1, <2>2, ExchangeKeeps DEF Exchanging, ControlStep
<1>20. CASE RestoreFinalRead
  <2>1. Exchanging("rFinalRead") /\ UNCHANGED caseVars
    BY <1>20 DEF RestoreFinalRead
  <2>2. ControlStep("rRecRestored") \/ ControlStep("unknown")
    BY <1>1, <1>2, <1>20, GoToStep, RestoreFailsStep DEF RestoreFinalRead
  <2> QED  BY <2>1, <2>2, ExchangeKeeps DEF Exchanging, ControlStep
<1>21. CASE RestoreVerified
  BY <1>21, RestoredRecordKeeps DEF RestoreVerified
<1> QED
  BY <1>3, <1>4, <1>5, <1>6, <1>7, <1>8, <1>9, <1>10, <1>11, <1>12,
     <1>13, <1>14, <1>15, <1>16, <1>17, <1>18, <1>19, <1>20, <1>21 DEF Restore

-----------------------------------------------------------------------------
(* The remaining steps, and the theorem. *)

LEMMA DeclareUnknownKeeps ==
  ASSUME IInv, DeclareUnknown
  PROVE  IInv'
<1>1. TypeOK /\ pc = "unknown" /\ UNCHANGED <<ram, eeprom, caseVars>>
  BY DEF IInv, DeclareUnknown
<1>2. JournalKept
  BY <1>1, AppendKept DEF DeclareUnknown, TryAppend, Events
<1>3. Tr(session, "StateUnknownRecoveryRequired") \in Sessions
  BY <1>1, SessionsReached DEF SessionStates
<1>4. ControlStep("done") /\ pc' = "done"
  BY <1>1, <1>3, FinishStep DEF DeclareUnknown, Terminals
<1>5. ControlTypeOK' /\ DeviceTypeOK'
  BY <1>1, <1>4 DEF ControlStep, TypeOK, DeviceTypeOK
<1>6. mayHaveWritten' \in BOOLEAN /\ touched' \in BOOLEAN
  BY <1>1 DEF TypeOK, CaseTypeOK, caseVars
<1>7. Onward(pc, "done") /\ "done" \notin Writing
  BY <1>1 DEF Onward, Steps, Stopped, Identified, Planned, ConnectSteps, ApplySteps,
     Writing, RestoreSteps
<1> QED  BY <1>1, <1>2, <1>4, <1>5, <1>6, <1>7, FrameStep DEF caseVars

LEMMA CrashKeeps ==
  ASSUME IInv, Crash
  PROVE  IInv'
<1> USE DEF Crash, IInv
<1>1. TypeOK'
  BY NewSessionType DEF TypeOK, DeviceTypeOK, JournalTypeOK, journalVars, ControlTypeOK,
     CaseTypeOK, Steps, Stopped
<1>2. EvidenceInHand'
  BY DEF EvidenceInHand, journalVars, Recorded, Identified, Planned, Writing,
     ConnectSteps, ApplySteps, RestoreSteps
<1> QED  BY <1>1, <1>2

(* A resume finds its backup because the journal says BackedUp. *)
LEMMA ResumeKeeps ==
  ASSUME IInv, Resume
  PROVE  IInv'
<1>1. /\ TypeOK /\ EvidenceInHand /\ pc \in Stopped /\ Recorded(disk, "BackedUp")
      /\ Reopen /\ disk' = disk
  BY DEF IInv, Resume, Reopen
<1>2. backup \in Backups /\ backup.plan \in Plans
  BY <1>1 DEF EvidenceInHand, Backups
<1>3. pc' \in {"done", "unknown", "open"}
  BY DEF Resume
<1>4. terminal' \in Terminals \cup {None}
  BY DEF Resume, Rebuilt, Terminals
<1>5. ControlTypeOK'
  BY <1>3, <1>4, NewSessionType DEF Resume, ControlTypeOK, Steps, Stopped, ConnectSteps
<1>6. DeviceTypeOK'
  BY <1>1 DEF Resume, TypeOK, DeviceTypeOK
<1>7. CaseTypeOK'
  <2>1. mayHaveWritten' \in BOOLEAN /\ touched' \in BOOLEAN
    BY <1>1 DEF Resume, WriteMayHaveOccurred, TypeOK, CaseTypeOK
  <2>2. run' \in 1..MaxRuns
    BY <1>1, RunsAssumption DEF Resume, TypeOK, CaseTypeOK
  <2>3. mode' \in {"fresh", "reconcile", "verifySave"}
    BY DEF Resume
  <2>4. identity' \in Units \cup {None} /\ plan' \in Plans \cup {None}
        /\ backup' \in Backups \cup {None}
    BY <1>1, <1>2 DEF Resume
  <2> QED  BY <2>1, <2>2, <2>3, <2>4 DEF CaseTypeOK
<1>8. TypeOK'
  BY <1>1, <1>5, <1>6, <1>7, ReopenType DEF TypeOK
<1>9. EvidenceInHand'
  <2>1. backup' = backup /\ plan' = backup.plan
    BY DEF Resume
  <2>2. Recorded(disk', "BackedUp")
    BY <1>1
  <2> QED  BY <1>2, <1>3, <2>1, <2>2 DEF EvidenceInHand, Identified
<1> QED  BY <1>8, <1>9 DEF IInv

LEMMA BenchKeeps ==
  ASSUME IInv, Bench
  PROVE  IInv'
<1>1. UNCHANGED <<journalVars, engineVars>>
  BY DEF Bench, PowerLoss, SwapBoard, EditElsewhere
<1>2. DeviceTypeOK
  BY DEF IInv, TypeOK
<1>3. DeviceTypeOK'
  <2>1. CASE PowerCycle
    BY <1>2, <2>1 DEF DeviceTypeOK, PowerCycle, Restart
  <2>2. ASSUME NEW u \in Units, Replug(u)
        PROVE  DeviceTypeOK'
    BY <1>2, <2>2 DEF DeviceTypeOK, Replug
  <2>3. ASSUME NEW value \in Snapshots, NEW kind \in EditKinds, OtherTool(value, kind)
        PROVE  DeviceTypeOK'
    BY <1>2, <2>3 DEF DeviceTypeOK, OtherTool
  <2> QED  BY <2>1, <2>2, <2>3 DEF Bench, PowerLoss, SwapBoard, EditElsewhere
<1>4. TypeOK'
  BY <1>1, <1>3 DEF IInv, TypeOK, JournalTypeOK, ControlTypeOK, CaseTypeOK,
     journalVars, engineVars, caseVars
<1>5. EvidenceInHand'
  BY <1>1 DEF IInv, EvidenceInHand, Recorded, journalVars, engineVars, caseVars
<1> QED  BY <1>4, <1>5 DEF IInv

LEMMA StutterKeeps ==
  ASSUME IInv, UNCHANGED vars
  PROVE  IInv'
BY DEF IInv, TypeOK, DeviceTypeOK, JournalTypeOK, ControlTypeOK, CaseTypeOK,
   EvidenceInHand, Recorded, vars, journalVars, deviceVars, engineVars, caseVars

LEMMA InitEstablishes ==
  ASSUME Init
  PROVE  IInv
<1> USE DEF Init
<1>1. DeviceTypeOK
  BY DEF DeviceInit, DeviceTypeOK
<1>2. JournalTypeOK /\ limit \in JournalLimits
  BY EmptySeq DEF JournalInit, JournalTypeOK
<1>3. ControlTypeOK
  BY NewSessionType DEF ControlTypeOK, Steps, ConnectSteps
<1>4. CaseTypeOK
  <2>1. run \in 1..MaxRuns
    BY RunsAssumption
  <2>2. mayHaveWritten \in BOOLEAN /\ touched \in BOOLEAN
    OBVIOUS
  <2> QED  BY <2>1, <2>2 DEF CaseTypeOK
<1>5. ~Recorded(disk, "BackedUp")
  BY DEF JournalInit, Recorded
<1>6. EvidenceInHand
  BY <1>5 DEF EvidenceInHand, Identified, Planned, Writing, ConnectSteps, ApplySteps,
     RestoreSteps
<1> QED  BY <1>1, <1>2, <1>3, <1>4, <1>6 DEF IInv, TypeOK

LEMMA StepKeeps ==
  ASSUME IInv, [Next]_vars
  PROVE  IInv'
BY ConnectKeeps, ApplyKeeps, RestoreKeeps, DeclareUnknownKeeps, CrashKeeps,
   ResumeKeeps, BenchKeeps, StutterKeeps DEF Next, Engine

(* Every reachable state is well typed and has its evidence in hand.        *)
THEOREM Inductive == Spec => []IInv
<1>1. Init => IInv
  BY InitEstablishes
<1>2. IInv /\ [Next]_vars => IInv'
  BY StepKeeps
<1> QED  BY <1>1, <1>2, PTL DEF Spec

(* Every variable of the lifecycle keeps its type, for any number of boards, *)
(* configurations, journal bounds and processes.                            *)
THEOREM TypeCorrect == Spec => []TypeOK
<1>1. IInv => TypeOK
  BY DEF IInv
<1> QED  BY <1>1, Inductive, PTL

(* No command of the case that changes a controller is delivered before a    *)
(* backup exists and the journal durably says so.                           *)
THEOREM BackupFirst == Spec => []BackupPrecedesWrites
<1>1. IInv => BackupPrecedesWrites
  BY NoneAssumption DEF IInv, EvidenceInHand, BackupPrecedesWrites
<1> QED  BY <1>1, Inductive, PTL

-----------------------------------------------------------------------------
(* The engine as the owner of a journal. *)

(* A run uses its journal as JournalSpec allows: no step touches the handle  *)
(* or the disk except by an append, whole or failed, or by reopening.       *)
THEOREM JournalRefinement == Spec => JournalSpec
<1>1. Init => JournalInit
  BY DEF Init
<1>2. [Next]_vars => [JournalNext]_journalVars
  <2> SUFFICES ASSUME [Next]_vars PROVE [JournalNext]_journalVars
    OBVIOUS
  <2> USE DEF JournalNext, TryAppend, Events, WriteAheads
  <2>1. CASE Connect
    BY <2>1 DEF Connect, RecordStarted, OpenTransport, Identify, RecordIdentity,
       ReadSnapshot, RecordSnapshot, VerifyNoOp, RecordNoOp, RecordBackedUp,
       Record, Exchanging
  <2>2. CASE Apply
    BY <2>2 DEF Apply, RecordAheadSet, SendSet, RecordSet, ReRead, RecordReRead,
       RecordAheadSave, SendSave, RecordSaved, RecordAheadReboot, SendReboot,
       RecordRebooted, Reopened, RecordReconnected, ReIdentify, VerifyRead,
       RecordVerified, Record, RecordAhead, Write, Exchanging
  <2>3. CASE Restore
    BY <2>3 DEF Restore, RestoreStart, RestoreIdentify, RestoreRead, RestoreInPlace,
       RestoreAheadSet, RestoreSet, RestoreRecordSet, RestoreReRead,
       RestoreRecordReRead, RestoreAheadSave, RestoreSave, RestoreRecordSaved,
       RestoreAheadReboot, RestoreReboot, RestoreRecordRebooted, RestoreReopen,
       RestoreReIdentify, RestoreFinalRead, RestoreVerified, RestoreRecord,
       RecordRestored, Write, Exchanging
  <2>4. CASE DeclareUnknown
    BY <2>4 DEF DeclareUnknown
  <2>5. CASE Crash
    BY <2>5 DEF Crash
  <2>6. CASE Resume
    BY <2>6 DEF Resume
  <2>7. CASE Bench
    BY <2>7 DEF Bench, PowerLoss, SwapBoard, EditElsewhere
  <2>8. CASE UNCHANGED vars
    BY <2>8 DEF vars
  <2> QED
    BY <2>1, <2>2, <2>3, <2>4, <2>5, <2>6, <2>7, <2>8 DEF Next, Engine
<1> QED  BY <1>1, <1>2, PTL DEF Spec, JournalSpec

(* The open handle never believes in a record a reopen would not find, and   *)
(* until an append fails it knows every record there is.                    *)
THEOREM JournalHonest == Spec => []JournalAgrees
BY JournalRefinement, JournalsAgree, PTL

-----------------------------------------------------------------------------
(* The write-ahead discipline. *)

Sending == {"set", "save", "reboot", "rSet", "rSave", "rReboot"}

(* A step that arrives at a command has just appended its write-ahead.      *)
Arrival(e, there) == Appended(e) /\ pc' = there

LEMMA ArrivalIsDurable ==
  ASSUME JournalTypeOK, NEW e \in Events, Appended(e)
  PROVE  disk' # <<>> /\ Last(disk') = e
BY DEF JournalTypeOK, Appended, Last

LEMMA ArrivesAhead ==
  ASSUME IInv, Next, pc' \in Sending
  PROVE  \/ Arrival("AheadSet", "set")
         \/ Arrival("AheadSave", "save")
         \/ Arrival("AheadReboot", "reboot")
         \/ Arrival("AheadRestoreSet", "rSet")
         \/ Arrival("AheadRestoreSave", "rSave")
         \/ Arrival("AheadReboot", "rReboot")
         \/ UNCHANGED <<pc, disk>>
<1> USE DEF Sending, Arrival, GoTo, Finish, Disconnect, Abort, Recover, JournalFailure,
            FailConnecting, RestoreFails, Opened
<1>1. CASE Connect
  <2>1. CASE ReadSnapshot
    <3>1. mode \in {"fresh", "reconcile", "verifySave"}
      BY DEF IInv, TypeOK, CaseTypeOK
    <3> QED  BY <2>1, <3>1 DEF ReadSnapshot, ReconcileWith
  <2>2. CASE RecordIdentity \/ RecordSnapshot \/ RecordBackedUp \/ RecordNoOp
             \/ RecordStarted
    BY <2>2 DEF RecordIdentity, RecordSnapshot, RecordBackedUp, RecordNoOp,
       RecordStarted, Record
  <2>3. CASE OpenTransport \/ Identify \/ VerifyNoOp
    BY <2>3 DEF OpenTransport, Identify, VerifyNoOp
  <2> QED  BY <1>1, <2>1, <2>2, <2>3 DEF Connect
<1>2. CASE Apply
  BY <1>2 DEF Apply, RecordAheadSet, SendSet, RecordSet, ReRead, RecordReRead,
     RecordAheadSave, SendSave, RecordSaved, RecordAheadReboot, SendReboot,
     RecordRebooted, Reopened, RecordReconnected, ReIdentify, VerifyRead,
     RecordVerified, Record, RecordAhead, Write
<1>3. CASE Restore
  BY <1>3 DEF Restore, RestoreStart, RestoreIdentify, RestoreRead, RestoreInPlace,
     RestoreAheadSet, RestoreSet, RestoreRecordSet, RestoreReRead,
     RestoreRecordReRead, RestoreAheadSave, RestoreSave, RestoreRecordSaved,
     RestoreAheadReboot, RestoreReboot, RestoreRecordRebooted, RestoreReopen,
     RestoreReIdentify, RestoreFinalRead, RestoreVerified, RestoreRecord,
     RecordRestored, Write
<1>4. CASE DeclareUnknown \/ Crash \/ Resume
  BY <1>4 DEF DeclareUnknown, Crash, Resume
<1>5. CASE Bench
  BY <1>5 DEF Bench, PowerLoss, SwapBoard, EditElsewhere, journalVars, engineVars
<1> QED  BY <1>1, <1>2, <1>3, <1>4, <1>5 DEF Next, Engine

(* Every SET, EEPROM_WRITE and REBOOT is sent on top of its own durable      *)
(* write-ahead, for any journal bound and after any number of restarts.     *)
THEOREM WriteAheadFirst == Spec => []WriteAheadIsDurable
<1>1. Init => WriteAheadIsDurable
  BY DEF Init, WriteAheadIsDurable
<1>2. IInv /\ WriteAheadIsDurable /\ [Next]_vars => WriteAheadIsDurable'
  <2> SUFFICES ASSUME IInv, WriteAheadIsDurable, [Next]_vars
               PROVE  WriteAheadIsDurable'
    OBVIOUS
  <2>1. CASE UNCHANGED <<pc, disk>>
    BY <2>1 DEF WriteAheadIsDurable
  <2>2. CASE Next /\ pc' \notin Sending
    BY <2>2 DEF WriteAheadIsDurable, Sending
  <2>3. ASSUME NEW e \in Events, NEW there, Arrival(e, there)
        PROVE  disk' # <<>> /\ Last(disk') = e /\ pc' = there
    BY <2>3, ArrivalIsDurable DEF Arrival, IInv, TypeOK
  <2>4. CASE Next /\ pc' \in Sending /\ ~UNCHANGED <<pc, disk>>
    BY <2>3, <2>4, ArrivesAhead DEF WriteAheadIsDurable, Events, WriteAheads
  <2>5. CASE UNCHANGED vars
    BY <2>5, <2>1 DEF vars, journalVars, engineVars
  <2> QED  BY <2>1, <2>2, <2>4, <2>5
<1> QED  BY <1>1, <1>2, Inductive, PTL DEF Spec

-----------------------------------------------------------------------------
(* The session.  The engine drops the error of every transition, so nothing *)
(* at run time says that a transition was refused: the invariant gives the   *)
(* state each control point is reached in.                                  *)
AtStep ==
  LET in(state, steps) == pc \in steps => session.at = state
  IN  /\ in("Disconnected", {"recStarted", "open"})
      /\ in("Identifying", {"identify", "recIdentity"})
      /\ in("SnapshotRead", {"readSnapshot", "recSnapshot", "verifyNoop", "recNoop"})
      /\ in("BackingUp", {"recBackedUp"})
      /\ in("ApplyingTransient", {"aheadSet", "set", "recSet", "reread", "recReread"})
      /\ in("Saving", {"aheadSave", "save", "recSaved"})
      /\ in("Rebooting", {"aheadReboot", "reboot", "recRebooted"})
      /\ in("Reconnecting", {"reopen", "recReconnected"})
      /\ in("Verifying", {"reidentify", "verifyRead", "recVerified"})

(* The transitions of a case that goes well are all legal. *)
LEMMA Transitions ==
  ASSUME NEW s \in Sessions
  PROVE  /\ s.at = "Disconnected" => Tr(s, "Connecting").at = "Connecting"
         /\ s.at = "Connecting" => Tr(s, "Identifying").at = "Identifying"
         /\ s.at = "Identifying" => Tr(s, "SnapshotRead").at = "SnapshotRead"
         /\ s.at = "SnapshotRead" => Tr(s, "Planning").at = "Planning"
         /\ s.at = "Planning" => Tr(s, "AwaitingApproval").at = "AwaitingApproval"
         /\ s.at = "AwaitingApproval" => Tr(s, "BackingUp").at = "BackingUp"
         /\ s.at = "BackingUp" => Tr(s, "ApplyingTransient").at = "ApplyingTransient"
         /\ s.at = "ApplyingTransient" => Tr(s, "Saving").at = "Saving"
         /\ s.at = "Saving" => Tr(s, "Rebooting").at = "Rebooting"
         /\ s.at = "Rebooting" => Tr(s, "Reconnecting").at = "Reconnecting"
         /\ s.at = "Reconnecting" => Tr(s, "Verifying").at = "Verifying"
BY DEF Tr, NextStates, Sessions, SessionStates

(* The chains of transitions the engine makes in one go. *)
LEMMA Chains ==
  ASSUME TypeOK
  PROVE  /\ session.at = "Disconnected"
              => Tr(Tr(session, "Connecting"), "Identifying").at = "Identifying"
         /\ session.at = "SnapshotRead"
              => /\ Tr(Tr(Tr(session, "Planning"), "AwaitingApproval"),
                       "BackingUp").at = "BackingUp"
                 /\ ToApplying.at = "ApplyingTransient"
                 /\ Tr(Tr(ToApplying, "Saving"), "Rebooting").at = "Rebooting"
<1> DEFINE connecting == Tr(session, "Connecting")
           planning == Tr(session, "Planning")
           awaiting == Tr(planning, "AwaitingApproval")
           backing  == Tr(awaiting, "BackingUp")
           applying == Tr(backing, "ApplyingTransient")
           saving   == Tr(applying, "Saving")
<1>1. \A s \in Sessions : \A n \in SessionStates : Tr(s, n) \in Sessions
  BY TrType
<1>2. session \in Sessions
  BY DEF TypeOK, ControlTypeOK
<1>3. {"Connecting", "Planning", "AwaitingApproval", "BackingUp", "ApplyingTransient",
       "Saving"} \subseteq SessionStates
  BY DEF SessionStates
<1>4. connecting \in Sessions /\ planning \in Sessions
  BY <1>1, <1>2, <1>3
<1>5. awaiting \in Sessions
  BY <1>1, <1>3, <1>4
<1>6. backing \in Sessions
  BY <1>1, <1>3, <1>5
<1>7. applying \in Sessions
  BY <1>1, <1>3, <1>6
<1>8. saving \in Sessions
  BY <1>1, <1>3, <1>7
<1>9. session.at = "Disconnected" => Tr(connecting, "Identifying").at = "Identifying"
  BY <1>2, <1>4, Transitions
<1>10. session.at = "SnapshotRead" => backing.at = "BackingUp"
  BY <1>2, <1>4, <1>5, Transitions
<1>11. session.at = "SnapshotRead" => applying.at = "ApplyingTransient"
  BY <1>6, <1>10, Transitions
<1>12. session.at = "SnapshotRead" => Tr(saving, "Rebooting").at = "Rebooting"
  BY <1>7, <1>8, <1>11, Transitions
<1> QED  BY <1>9, <1>10, <1>11, <1>12 DEF ToApplying

(* A step that leaves the normal path leaves the invariant alone. *)
Leaves == pc' \in RestoreSteps \cup {"unknown"} \cup Stopped

LEMMA LeavesAtStep ==
  ASSUME Leaves
  PROVE  AtStep'
BY DEF Leaves, AtStep, RestoreSteps, Stopped

LEMMA RefusalsLeave ==
  /\ Abort => Leaves
  /\ Recover => Leaves
  /\ JournalFailure => Leaves
  /\ \A s : FailConnecting(s) => Leaves
  /\ \A t : Disconnect(t) => Leaves
  /\ \A t, s : Finish(t, s) => Leaves
BY DEF Leaves, Abort, Disconnect, Recover, JournalFailure, FailConnecting, GoTo, Finish,
   RestoreSteps, Stopped

LEMMA RecordAtStep ==
  ASSUME NEW here, NEW e, NEW there, NEW s, Record(here, e, there, s)
  PROVE  Leaves \/ (pc = here /\ pc' = there /\ session' = s)
BY RefusalsLeave DEF Record, GoTo

LEMMA ConnectAtStep ==
  ASSUME IInv, AtStep, Connect
  PROVE  AtStep'
<1> USE DEF AtStep
<1>1. TypeOK
  BY DEF IInv
<1>2. session \in Sessions
  BY <1>1 DEF TypeOK, ControlTypeOK
<1>3. CASE RecordStarted
  BY <1>3, RecordAtStep, LeavesAtStep DEF RecordStarted
<1>4. CASE OpenTransport
  <2>1. \/ Leaves
        \/ pc = "open" /\ pc' = "identify" /\ session' = Tr(Tr(session, "Connecting"), "Identifying")
    BY <1>4, RefusalsLeave DEF OpenTransport, Opened, Exchanging
  <2> QED  BY <1>1, <2>1, Chains, LeavesAtStep
<1>5. CASE Identify
  <2>1. Leaves \/ (pc = "identify" /\ pc' = "recIdentity" /\ session' = session)
    BY <1>5, RefusalsLeave DEF Identify, Exchanging, GoTo
  <2> QED  BY <2>1, LeavesAtStep
<1>6. CASE RecordIdentity
  <2>1. \/ Leaves
        \/ pc = "recIdentity" /\ pc' = "readSnapshot" /\ session' = Tr(session, "SnapshotRead")
    BY <1>6, RefusalsLeave, RecordAtStep DEF RecordIdentity
  <2> QED  BY <1>2, <2>1, Transitions, LeavesAtStep
<1>7. CASE ReadSnapshot
  <2>1. mode \in {"fresh", "reconcile", "verifySave"}
    BY <1>1 DEF TypeOK, CaseTypeOK
  <2>2. \/ Leaves
        \/ /\ pc = "readSnapshot"
           /\ \/ pc' = "recSnapshot" /\ session' = session
              \/ pc' \in {"reread", "aheadSet"} /\ session' = ToApplying
              \/ pc' = "aheadReboot" /\ session' = Tr(Tr(ToApplying, "Saving"), "Rebooting")
    BY <1>7, <2>1, RefusalsLeave DEF ReadSnapshot, ReconcileWith, Exchanging, GoTo, Leaves
  <2> QED  BY <1>1, <2>2, Chains, LeavesAtStep
<1>8. CASE RecordSnapshot
  <2>1. \/ Leaves
        \/ /\ pc = "recSnapshot"
           /\ \/ pc' = "verifyNoop" /\ session' = session
              \/ /\ pc' = "recBackedUp"
                 /\ session' = Tr(Tr(Tr(session, "Planning"), "AwaitingApproval"), "BackingUp")
    BY <1>8, RefusalsLeave DEF RecordSnapshot, GoTo
  <2> QED  BY <1>1, <2>1, Chains, LeavesAtStep
<1>9. CASE VerifyNoOp
  <2>1. Leaves \/ (pc = "verifyNoop" /\ pc' = "recNoop" /\ session' = session)
    BY <1>9, RefusalsLeave DEF VerifyNoOp, Exchanging, GoTo
  <2> QED  BY <2>1, LeavesAtStep
<1>10. CASE RecordNoOp
  BY <1>10, RefusalsLeave, LeavesAtStep DEF RecordNoOp
<1>11. CASE RecordBackedUp
  <2>1. \/ Leaves
        \/ pc = "recBackedUp" /\ pc' = "aheadSet" /\ session' = Tr(session, "ApplyingTransient")
    BY <1>11, RecordAtStep DEF RecordBackedUp
  <2> QED  BY <1>2, <2>1, Transitions, LeavesAtStep
<1> QED
  BY <1>3, <1>4, <1>5, <1>6, <1>7, <1>8, <1>9, <1>10, <1>11 DEF Connect

LEMMA ApplyAtStep ==
  ASSUME IInv, AtStep, Apply
  PROVE  AtStep'
<1> USE DEF AtStep
<1>1. session \in Sessions
  BY DEF IInv, TypeOK, ControlTypeOK
<1>2. ASSUME NEW here, NEW e, NEW there, RecordAhead(here, e, there)
      PROVE  Leaves \/ (pc = here /\ pc' = there /\ session' = session)
  BY <1>2, RefusalsLeave DEF RecordAhead, GoTo
<1>4. CASE RecordAheadSet \/ RecordAheadSave \/ RecordAheadReboot
  BY <1>2, <1>4, LeavesAtStep DEF RecordAheadSet, RecordAheadSave, RecordAheadReboot
<1>5. CASE SendSet \/ SendSave \/ SendReboot
  BY <1>5, RefusalsLeave, LeavesAtStep DEF SendSet, SendSave, SendReboot, Write, GoTo
<1>6. CASE RecordSet \/ RecordReRead \/ RecordSaved \/ RecordReconnected
  <2>1. \/ Leaves
        \/ pc = "recSet" /\ pc' = "reread" /\ session' = session
        \/ pc = "recReread" /\ pc' = "aheadSave" /\ session' = Tr(session, "Saving")
        \/ pc = "recSaved" /\ pc' = "aheadReboot" /\ session' = Tr(session, "Rebooting")
        \/ pc = "recReconnected" /\ pc' = "reidentify" /\ session' = Tr(session, "Verifying")
    BY <1>6, RecordAtStep DEF RecordSet, RecordReRead, RecordSaved, RecordReconnected
  <2> QED  BY <1>1, <2>1, Transitions, LeavesAtStep
<1>7. CASE RecordRebooted
  <2>1. \/ Leaves
        \/ pc = "recRebooted" /\ pc' = "reopen" /\ session' = Tr(session, "Reconnecting")
    BY <1>7, RefusalsLeave DEF RecordRebooted
  <2> QED  BY <1>1, <2>1, Transitions, LeavesAtStep
<1>8. CASE ReRead \/ Reopened \/ ReIdentify \/ VerifyRead
  <2>1. \/ Leaves
        \/ /\ \/ pc = "reread" /\ pc' = "recReread"
              \/ pc = "reopen" /\ pc' = "recReconnected"
              \/ pc = "reidentify" /\ pc' = "verifyRead"
              \/ pc = "verifyRead" /\ pc' = "recVerified"
           /\ session' = session
    BY <1>8, RefusalsLeave DEF ReRead, Reopened, ReIdentify, VerifyRead, Opened,
       Exchanging, GoTo, Leaves
  <2> QED  BY <2>1, LeavesAtStep
<1>9. CASE RecordVerified
  BY <1>9, RefusalsLeave, LeavesAtStep DEF RecordVerified
<1> QED
  BY <1>4, <1>5, <1>6, <1>7, <1>8, <1>9 DEF Apply

(* From recovery and from state-unknown no step returns to the normal path. *)
LEMMA RestoreLeaves ==
  ASSUME Restore \/ DeclareUnknown \/ Crash
  PROVE  Leaves
<1> USE DEF Leaves, RestoreSteps, Stopped, GoTo, Finish, RestoreFails
<1>1. CASE Restore
  BY <1>1 DEF Restore, RestoreStart, RestoreIdentify, RestoreRead, RestoreInPlace,
     RestoreAheadSet, RestoreSet, RestoreRecordSet, RestoreReRead,
     RestoreRecordReRead, RestoreAheadSave, RestoreSave, RestoreRecordSaved,
     RestoreAheadReboot, RestoreReboot, RestoreRecordRebooted, RestoreReopen,
     RestoreReIdentify, RestoreFinalRead, RestoreVerified, RestoreRecord,
     RecordRestored, Write, Opened
<1>2. CASE DeclareUnknown \/ Crash
  BY <1>2 DEF DeclareUnknown, Crash
<1> QED  BY <1>1, <1>2

LEMMA AtStepInductive ==
  ASSUME IInv, AtStep, [Next]_vars
  PROVE  AtStep'
<1>1. CASE Restore \/ DeclareUnknown \/ Crash
  BY <1>1, RestoreLeaves, LeavesAtStep
<1>2. CASE Resume
  <2>1. Leaves \/ (pc' = "open" /\ session' = NewSession)
    BY <1>2 DEF Resume, Leaves, Stopped
  <2> QED  BY <2>1, LeavesAtStep DEF AtStep, NewSession
<1>3. CASE Bench \/ UNCHANGED vars
  BY <1>3 DEF AtStep, Bench, PowerLoss, SwapBoard, EditElsewhere, engineVars, vars
<1> QED
  BY <1>1, <1>2, <1>3, ConnectAtStep, ApplyAtStep DEF Next, Engine

(* Each exchange of the normal path finds the session in a state that admits *)
(* its command, in fresh runs and in resumes of either kind, although a     *)
(* refused transition would go unnoticed.                                   *)
THEOREM AuthorityNeverMissing == Spec => []AuthorityHeld
<1>1. Init => AtStep
  BY DEF Init, AtStep, NewSession
<1>2. IInv /\ AtStep /\ [Next]_vars => AtStep'
  BY AtStepInductive
<1>3. AtStep => AuthorityHeld
  BY DEF AtStep, AuthorityHeld, PermitsIdentification, PermittedIn
<1> QED  BY <1>1, <1>2, <1>3, Inductive, PTL DEF Spec

-----------------------------------------------------------------------------
(* Fresh runs.  A command of a fresh run reaches a controller only after the *)
(* flag that turns every later failure from an abort into a recovery is set. *)
CleanlyFresh ==
  mode = "fresh" =>
    /\ touched /\ pc # "off" => mayHaveWritten
    /\ pc \in ConnectSteps \cup {"aheadSet"} => ~mayHaveWritten
    /\ pc \in Writing \ {"aheadSet"} => mayHaveWritten

FreshInv == CleanlyFresh /\ FreshAbortIsClean

LEMMA ConnectFresh ==
  ASSUME IInv, FreshInv, Connect
  PROVE  FreshInv'
<1> USE DEF FreshInv, CleanlyFresh, FreshAbortIsClean, ConnectSteps, Writing, ApplySteps,
            RestoreSteps, GoTo, Finish, Abort, Disconnect, Recover, JournalFailure,
            FailConnecting
<1>1. CASE RecordStarted \/ RecordBackedUp
  BY <1>1 DEF RecordStarted, RecordBackedUp, Record, caseVars
<1>2. CASE RecordIdentity
  BY <1>2 DEF RecordIdentity, Record, caseVars
<1>3. CASE OpenTransport \/ Identify \/ VerifyNoOp
  BY <1>3 DEF OpenTransport, Identify, VerifyNoOp, Exchanging, Opened, caseVars
<1>4. CASE ReadSnapshot
  <2>1. mode \in {"fresh", "reconcile", "verifySave"}
    BY DEF IInv, TypeOK, CaseTypeOK
  <2> QED  BY <1>4, <2>1 DEF ReadSnapshot, ReconcileWith, Exchanging
<1>5. CASE RecordSnapshot \/ RecordNoOp
  BY <1>5 DEF RecordSnapshot, RecordNoOp, caseVars
<1> QED  BY <1>1, <1>2, <1>3, <1>4, <1>5 DEF Connect

LEMMA ApplyFresh ==
  ASSUME IInv, FreshInv, Apply
  PROVE  FreshInv'
<1> USE DEF FreshInv, CleanlyFresh, FreshAbortIsClean, ConnectSteps, Writing, ApplySteps,
            RestoreSteps, GoTo, Finish, Abort, Disconnect, Recover, JournalFailure
<1>1. CASE RecordAheadSet \/ RecordAheadSave \/ RecordAheadReboot
  BY <1>1 DEF RecordAheadSet, RecordAheadSave, RecordAheadReboot, RecordAhead
<1>2. CASE SendSet \/ SendSave \/ SendReboot
  BY <1>2 DEF SendSet, SendSave, SendReboot, Write
<1>3. CASE RecordSet \/ RecordReRead \/ RecordSaved \/ RecordReconnected
  BY <1>3 DEF RecordSet, RecordReRead, RecordSaved, RecordReconnected, Record, caseVars
<1>4. CASE RecordRebooted \/ RecordVerified
  BY <1>4 DEF RecordRebooted, RecordVerified, caseVars
<1>5. CASE ReRead \/ Reopened \/ ReIdentify \/ VerifyRead
  BY <1>5 DEF ReRead, Reopened, ReIdentify, VerifyRead, Exchanging, Opened, caseVars
<1> QED  BY <1>1, <1>2, <1>3, <1>4, <1>5 DEF Apply

LEMMA RestoreFresh ==
  ASSUME IInv, FreshInv, Restore \/ DeclareUnknown
  PROVE  FreshInv'
<1> USE DEF FreshInv, CleanlyFresh, FreshAbortIsClean, ConnectSteps, Writing, ApplySteps,
            RestoreSteps, GoTo, Finish, RestoreFails
<1>1. CASE RestoreStart \/ RestoreAheadSet \/ RestoreRecordSet \/ RestoreRecordReRead
           \/ RestoreAheadSave \/ RestoreRecordSaved \/ RestoreAheadReboot
           \/ RestoreRecordRebooted
  BY <1>1 DEF RestoreStart, RestoreAheadSet, RestoreRecordSet, RestoreRecordReRead,
     RestoreAheadSave, RestoreRecordSaved, RestoreAheadReboot, RestoreRecordRebooted,
     RestoreRecord, caseVars
<1>2. CASE RestoreSet \/ RestoreSave \/ RestoreReboot
  BY <1>2 DEF RestoreSet, RestoreSave, RestoreReboot, Write
<1>3. CASE RestoreIdentify \/ RestoreRead \/ RestoreReRead \/ RestoreReopen
           \/ RestoreReIdentify \/ RestoreFinalRead
  BY <1>3 DEF RestoreIdentify, RestoreRead, RestoreReRead, RestoreReopen,
     RestoreReIdentify, RestoreFinalRead, Exchanging, Opened, caseVars
<1>4. CASE RestoreInPlace \/ RestoreVerified \/ DeclareUnknown
  BY <1>4 DEF RestoreInPlace, RestoreVerified, RecordRestored, DeclareUnknown, caseVars
<1> QED  BY <1>1, <1>2, <1>3, <1>4 DEF Restore

LEMMA FreshInductive ==
  ASSUME IInv, FreshInv, [Next]_vars
  PROVE  FreshInv'
<1>1. CASE Crash
  BY <1>1 DEF Crash, FreshInv, CleanlyFresh, FreshAbortIsClean, ConnectSteps, Writing,
     ApplySteps, RestoreSteps
<1>2. CASE Resume
  BY <1>2 DEF Resume, FreshInv, CleanlyFresh, FreshAbortIsClean
<1>3. CASE Bench \/ UNCHANGED vars
  BY <1>3 DEF Bench, PowerLoss, SwapBoard, EditElsewhere, vars, engineVars, caseVars,
     FreshInv, CleanlyFresh, FreshAbortIsClean
<1> QED
  BY <1>1, <1>2, <1>3, ConnectFresh, ApplyFresh, RestoreFresh DEF Next, Engine

(* Whichever append or exchange fails, a fresh run that reports an abort, a  *)
(* no-op or a scope mismatch let no changing command reach a controller.    *)
THEOREM FreshAbortsAreClean == Spec => []FreshAbortIsClean
<1>1. Init => FreshInv
  BY DEF Init, FreshInv, CleanlyFresh, FreshAbortIsClean, Writing, ApplySteps, RestoreSteps
<1>2. IInv /\ FreshInv /\ [Next]_vars => FreshInv'
  BY FreshInductive
<1>3. FreshInv => FreshAbortIsClean
  BY DEF FreshInv
<1> QED  BY <1>1, <1>2, <1>3, Inductive, PTL DEF Spec

-----------------------------------------------------------------------------
(* The unit on the bench.  An open handle keeps to the board it was opened   *)
(* on, so what was identified through it stays identified until it closes.  *)
FreshlyRead == {"recIdentity", "readSnapshot", "recSnapshot"}
Reconnecting == {"recReconnected", "reidentify"}
Proven == (ApplySteps \ Reconnecting)
          \cup (RestoreSteps \ {"rStart", "rIdentify", "rReidentify"})

RightBoard ==
  /\ pc \in FreshlyRead \cup {"recBackedUp"} /\ link => board = identity
  /\ mode # "fresh" /\ pc \in FreshlyRead => identity = backup.unit
  /\ pc \in ApplySteps \cup {"recBackedUp"} => identity = backup.unit
  /\ pc \in Proven /\ link => board = backup.unit

LEMMA ConnectRightBoard ==
  ASSUME IInv, RightBoard, Connect
  PROVE  RightBoard'
<1> USE DEF RightBoard, FreshlyRead, Reconnecting, Proven, ApplySteps, RestoreSteps,
            GoTo, Finish, Abort, Disconnect, Recover, JournalFailure, FailConnecting
<1>1. CASE RecordStarted \/ RecordBackedUp
  BY <1>1 DEF RecordStarted, RecordBackedUp, Record, caseVars
<1>2. CASE RecordIdentity
  BY <1>2 DEF RecordIdentity, Record, caseVars
<1>3. CASE OpenTransport \/ VerifyNoOp
  BY <1>3 DEF OpenTransport, VerifyNoOp, Exchanging, Opened, caseVars
<1>4. CASE Identify
  BY <1>4 DEF Identify, Exchanging
<1>5. CASE ReadSnapshot
  <2>1. mode \in {"fresh", "reconcile", "verifySave"}
    BY DEF IInv, TypeOK, CaseTypeOK
  <2> QED  BY <1>5, <2>1 DEF ReadSnapshot, ReconcileWith, Exchanging
<1>6. CASE RecordSnapshot \/ RecordNoOp
  BY <1>6 DEF RecordSnapshot, RecordNoOp, caseVars
<1> QED  BY <1>1, <1>2, <1>3, <1>4, <1>5, <1>6 DEF Connect

LEMMA ApplyRightBoard ==
  ASSUME IInv, RightBoard, Apply
  PROVE  RightBoard'
<1> USE DEF RightBoard, FreshlyRead, Reconnecting, Proven, ApplySteps, RestoreSteps,
            GoTo, Finish, Abort, Disconnect, Recover, JournalFailure
<1>1. CASE RecordAheadSet \/ RecordAheadSave \/ RecordAheadReboot
  BY <1>1 DEF RecordAheadSet, RecordAheadSave, RecordAheadReboot, RecordAhead
<1>2. CASE SendSet \/ SendSave \/ SendReboot
  BY <1>2 DEF SendSet, SendSave, SendReboot, Write
<1>3. CASE RecordSet \/ RecordReRead \/ RecordSaved \/ RecordReconnected
  BY <1>3 DEF RecordSet, RecordReRead, RecordSaved, RecordReconnected, Record, caseVars
<1>4. CASE RecordRebooted \/ RecordVerified
  BY <1>4 DEF RecordRebooted, RecordVerified, caseVars
<1>5. CASE ReRead \/ Reopened \/ ReIdentify \/ VerifyRead
  BY <1>5 DEF ReRead, Reopened, ReIdentify, VerifyRead, Exchanging, Opened, caseVars
<1> QED  BY <1>1, <1>2, <1>3, <1>4, <1>5 DEF Apply

LEMMA RestoreRightBoard ==
  ASSUME IInv, RightBoard, Restore \/ DeclareUnknown
  PROVE  RightBoard'
<1> USE DEF RightBoard, FreshlyRead, Reconnecting, Proven, ApplySteps, RestoreSteps,
            GoTo, Finish, RestoreFails
<1>1. CASE RestoreStart \/ RestoreAheadSet \/ RestoreRecordSet \/ RestoreRecordReRead
           \/ RestoreAheadSave \/ RestoreRecordSaved \/ RestoreAheadReboot
           \/ RestoreRecordRebooted
  BY <1>1 DEF RestoreStart, RestoreAheadSet, RestoreRecordSet, RestoreRecordReRead,
     RestoreAheadSave, RestoreRecordSaved, RestoreAheadReboot, RestoreRecordRebooted,
     RestoreRecord, caseVars
<1>2. CASE RestoreSet \/ RestoreSave \/ RestoreReboot
  BY <1>2 DEF RestoreSet, RestoreSave, RestoreReboot, Write
<1>3. CASE RestoreIdentify \/ RestoreRead \/ RestoreReRead \/ RestoreReopen
           \/ RestoreReIdentify \/ RestoreFinalRead
  BY <1>3 DEF RestoreIdentify, RestoreRead, RestoreReRead, RestoreReopen,
     RestoreReIdentify, RestoreFinalRead, Exchanging, Opened, caseVars
<1>4. CASE RestoreInPlace \/ RestoreVerified \/ DeclareUnknown
  BY <1>4 DEF RestoreInPlace, RestoreVerified, RecordRestored, DeclareUnknown, caseVars
<1> QED  BY <1>1, <1>2, <1>3, <1>4 DEF Restore

LEMMA RightBoardInductive ==
  ASSUME IInv, RightBoard, [Next]_vars
  PROVE  RightBoard'
<1>1. CASE Crash \/ Resume
  BY <1>1 DEF Crash, Resume, RightBoard, FreshlyRead, Proven, ApplySteps, RestoreSteps
<1>2. CASE PowerLoss \/ UNCHANGED vars
  BY <1>2 DEF PowerLoss, PowerCycle, vars, deviceVars, engineVars, caseVars, RightBoard
<1>3. ASSUME NEW u \in Units, SwapBoard(u)
      PROVE  RightBoard'
  BY <1>3 DEF SwapBoard, Replug, engineVars, caseVars, RightBoard
<1>4. ASSUME NEW value \in Snapshots, NEW kind \in EditKinds, EditElsewhere(value, kind)
      PROVE  RightBoard'
  BY <1>4 DEF EditElsewhere, OtherTool, engineVars, caseVars, RightBoard
<1> QED
  BY <1>1, <1>2, <1>3, <1>4, ConnectRightBoard, ApplyRightBoard, RestoreRightBoard
     DEF Next, Engine, Bench

(* A command changes the configuration of the board behind the handle. *)
LEMMA EffectOnBoard ==
  ASSUME DeviceTypeOK, NEW value, SetFlags(value) \/ SaveOrDrop \/ Restart,
         NEW u \in Units, u # board
  PROVE  ram'[u] = ram[u] /\ eeprom'[u] = eeprom[u]
BY DEF DeviceTypeOK, SetFlags, SaveOrDrop, SaveEeprom, Restart, NoEffect

(* The engine never changes any unit but the one its backup came from,       *)
(* however boards are swapped and whichever process is at work.             *)
THEOREM NoOtherUnitChanges == Spec => OnlyTheBackedUpUnit
<1> DEFINE Changes(u) == ram'[u] # ram[u] \/ eeprom'[u] # eeprom[u]
           Confined == pc' # pc => \A u \in Units :
                         Changes(u) => backup # None /\ u = backup.unit
<1>1. Init => RightBoard
  BY DEF Init, RightBoard, FreshlyRead, Proven, ApplySteps, RestoreSteps
<1>2. IInv /\ RightBoard /\ [Next]_vars => RightBoard'
  BY RightBoardInductive
<1>3. ASSUME IInv, RightBoard, [Next]_vars PROVE [Confined]_vars
  <2>1. CASE UNCHANGED <<ram, eeprom>> \/ pc' = pc
    BY <2>1
  <2>2. ASSUME NEW value, pc \in {"set", "save", "reboot", "rSet", "rSave", "rReboot"}, link,
               SetFlags(value) \/ SaveOrDrop \/ Restart
        PROVE  Confined
    <3>1. backup # None
      BY <1>3, <2>2, NoneAssumption DEF IInv, EvidenceInHand, Writing, ApplySteps, RestoreSteps
    <3>2. board = backup.unit
      BY <1>3, <2>2 DEF RightBoard, Proven, Reconnecting, ApplySteps, RestoreSteps
    <3> QED  BY <1>3, <2>2, <3>1, <3>2, EffectOnBoard DEF IInv, TypeOK
  <2>3. CASE SendSet \/ SendSave \/ SendReboot \/ RestoreSet \/ RestoreSave \/ RestoreReboot
    BY <2>1, <2>2, <2>3 DEF SendSet, SendSave, SendReboot, RestoreSet, RestoreSave,
       RestoreReboot, Write, Reachable, NoEffect
  <2>4. CASE Connect
    BY <2>1, <2>4 DEF Connect, RecordStarted, OpenTransport, Identify, RecordIdentity,
       ReadSnapshot, RecordSnapshot, VerifyNoOp, RecordNoOp, RecordBackedUp, Record,
       Exchanging
  <2>5. CASE Apply
    BY <2>1, <2>3, <2>5 DEF Apply, RecordAheadSet, RecordSet, ReRead, RecordReRead,
       RecordAheadSave, RecordSaved, RecordAheadReboot, RecordRebooted, Reopened,
       RecordReconnected, ReIdentify, VerifyRead, RecordVerified, Record, RecordAhead,
       Exchanging
  <2>6. CASE Restore
    BY <2>1, <2>3, <2>6 DEF Restore, RestoreStart, RestoreIdentify, RestoreRead,
       RestoreInPlace, RestoreAheadSet, RestoreRecordSet, RestoreReRead,
       RestoreRecordReRead, RestoreAheadSave, RestoreRecordSaved, RestoreAheadReboot,
       RestoreRecordRebooted, RestoreReopen, RestoreReIdentify, RestoreFinalRead,
       RestoreVerified, RestoreRecord, RecordRestored, Exchanging
  <2>7. CASE DeclareUnknown \/ Crash \/ Resume
    BY <2>1, <2>7 DEF DeclareUnknown, Crash, Resume
  <2>8. CASE Bench \/ UNCHANGED vars
    BY <2>1, <2>8 DEF Bench, PowerLoss, SwapBoard, EditElsewhere, engineVars, vars
  <2> QED  BY <1>3, <2>3, <2>4, <2>5, <2>6, <2>7, <2>8 DEF Next, Engine
<1> QED  BY <1>1, <1>2, <1>3, Inductive, PTL DEF Spec, OnlyTheBackedUpUnit

-----------------------------------------------------------------------------
(* Journal order. *)

(* Where a case may be once its recovery has begun. *)
Late == (RestoreSteps \ {"rStart"}) \cup {"unknown"} \cup Stopped

(* The records that may follow RecoveryStarted. *)
RecoveryEvents ==
  {"AheadRestoreSet", "SetApplied", "ReReadBeforeSave", "AheadRestoreSave", "Saved",
   "AheadReboot", "Rebooted", "Restored", "StateUnknown"}

(* Where a case may be once a Verified is recorded. *)
Closing == {"rStart", "unknown"} \cup Stopped

(* A handle over a closed journal, or outside recovery over a journal whose  *)
(* recovery has begun, is poisoned: nothing more can be appended.           *)
OrderInv ==
  /\ TerminalIsLast
  /\ RecoveryIsFinal
  /\ Closed(disk) /\ pc \notin Stopped => poisoned
  /\ Recorded(disk, "RecoveryStarted") => pc \in Late \/ poisoned

(* A report of success: it follows its own record and nothing else. *)
Successes == {"CompletedVerified", "CompletedRestored"}
NewSuccess == terminal' \in Successes /\ terminal' # terminal

Reports(e) ==
  /\ Appended(e) /\ pc' = "done"
  /\ \/ terminal' = "CompletedVerified" /\ pc = "recVerified" /\ e = "Verified"
     \/ terminal' = "CompletedRestored" /\ pc \in {"rInPlace", "rRecRestored"}
                                        /\ e = "Restored"

(* Where the records that matter to the outcome come from, and lead to. *)
FromStep(e) ==
  /\ e = "RecoveryStarted" => pc = "rStart"
  /\ e = "SetApplied" => pc \in {"recSet", "rRecSet"}
  /\ e = "Verified" => pc \in {"recNoop", "recVerified"} /\ pc' \in Closing
  /\ e = "Restored" => pc \in {"rInPlace", "rRecRestored"}
                       /\ pc' \in {"unknown"} \cup Stopped

(* How a step moves the journal, the control point and the report together.  *)
Quiet == /\ UNCHANGED <<disk, poisoned>> /\ ~NewSuccess
         /\ pc \in Stopped => pc' \in Stopped /\ pc' = pc
         /\ pc \in Late => pc' \in Late

Appends(e) ==
  /\ pc \notin Stopped /\ FromStep(e)
  /\ NewSuccess => Reports(e)
  /\ UNCHANGED <<ram, eeprom, touched>>
  /\ pc \in Late => pc' \in Late /\ e \in RecoveryEvents
  /\ \/ Appended(e) /\ (e = "RecoveryStarted" => pc' \in Late)
                    /\ (e \in TerminalEvents => pc' \in Stopped)
     \/ AppendFailed(e)

LEMMA ConnectMoves ==
  ASSUME IInv, Connect
  PROVE  Quiet \/ \E e \in Events : Appends(e)
<1> USE DEF Quiet, Appends, FromStep, Reports, NewSuccess, Successes, Closing, Late,
            Stopped, RestoreSteps, caseVars, GoTo, Finish, Abort, Disconnect,
            Recover, JournalFailure, FailConnecting, Events, TerminalEvents
<1>1. CASE RecordStarted
  <2>1. Appends("Started")
    BY <1>1 DEF RecordStarted, Record
  <2> QED  BY <2>1
<1>2. CASE RecordIdentity
  <2>1. Appends("IdentityRead")
    BY <1>2 DEF RecordIdentity, Record
  <2> QED  BY <2>1
<1>3. CASE RecordSnapshot
  <2>1. Appends("SnapshotRead")
    BY <1>3 DEF RecordSnapshot
  <2> QED  BY <2>1
<1>4. CASE RecordNoOp
  <2>1. Appends("Verified")
    BY <1>4 DEF RecordNoOp
  <2> QED  BY <2>1
<1>5. CASE RecordBackedUp
  <2>1. Appends("BackedUp")
    BY <1>5 DEF RecordBackedUp, Record
  <2> QED  BY <2>1
<1>6. CASE OpenTransport \/ Identify \/ VerifyNoOp
  BY <1>6 DEF OpenTransport, Identify, VerifyNoOp, Exchanging, Opened, journalVars
<1>7. CASE ReadSnapshot
  <2>1. mode \in {"fresh", "reconcile", "verifySave"}
    BY DEF IInv, TypeOK, CaseTypeOK
  <2> QED  BY <1>7, <2>1 DEF ReadSnapshot, ReconcileWith, Exchanging, journalVars
<1> QED  BY <1>1, <1>2, <1>3, <1>4, <1>5, <1>6, <1>7 DEF Connect

LEMMA ApplyMoves ==
  ASSUME IInv, Apply
  PROVE  Quiet \/ \E e \in Events : Appends(e)
<1> USE DEF Quiet, Appends, FromStep, Reports, NewSuccess, Successes, Closing, Late,
            Stopped, RestoreSteps, caseVars, GoTo, Finish, Abort, Disconnect,
            Recover, JournalFailure, Events, WriteAheads, TerminalEvents
<1>1. CASE RecordAheadSet \/ RecordAheadSave \/ RecordAheadReboot
  <2>1. Appends("AheadSet") \/ Appends("AheadSave") \/ Appends("AheadReboot")
    BY <1>1 DEF RecordAheadSet, RecordAheadSave, RecordAheadReboot, RecordAhead
  <2> QED  BY <2>1
<1>2. CASE RecordSet \/ RecordReRead \/ RecordSaved \/ RecordReconnected
  <2>1. Appends("SetApplied") \/ Appends("ReReadBeforeSave") \/ Appends("Saved")
        \/ Appends("Reconnected")
    BY <1>2 DEF RecordSet, RecordReRead, RecordSaved, RecordReconnected, Record
  <2> QED  BY <2>1
<1>3. CASE RecordRebooted \/ RecordVerified
  <2>1. Appends("Rebooted") \/ Appends("Verified")
    BY <1>3 DEF RecordRebooted, RecordVerified
  <2> QED  BY <2>1
<1>4. CASE SendSet \/ SendSave \/ SendReboot
  BY <1>4 DEF SendSet, SendSave, SendReboot, Write, journalVars
<1>5. CASE ReRead \/ Reopened \/ ReIdentify \/ VerifyRead
  BY <1>5 DEF ReRead, Reopened, ReIdentify, VerifyRead, Exchanging, Opened, journalVars
<1> QED  BY <1>1, <1>2, <1>3, <1>4, <1>5 DEF Apply

LEMMA RestoreMoves ==
  ASSUME IInv, Restore \/ DeclareUnknown
  PROVE  Quiet \/ \E e \in Events : Appends(e)
<1> USE DEF Quiet, Appends, FromStep, Reports, NewSuccess, Successes, Closing, Late,
            Stopped, RestoreSteps, caseVars, GoTo, Finish, RestoreFails,
            Events, WriteAheads, TerminalEvents, RecoveryEvents
<1>1. CASE RestoreStart
  <2>1. Appends("RecoveryStarted")
    BY <1>1 DEF RestoreStart, RestoreRecord
  <2> QED  BY <2>1
<1>2. CASE RestoreAheadSet \/ RestoreAheadSave \/ RestoreAheadReboot
  <2>1. Appends("AheadRestoreSet") \/ Appends("AheadRestoreSave") \/ Appends("AheadReboot")
    BY <1>2 DEF RestoreAheadSet, RestoreAheadSave, RestoreAheadReboot, RestoreRecord
  <2> QED  BY <2>1
<1>3. CASE RestoreRecordSet \/ RestoreRecordReRead \/ RestoreRecordSaved
           \/ RestoreRecordRebooted
  <2>1. Appends("SetApplied") \/ Appends("ReReadBeforeSave") \/ Appends("Saved")
        \/ Appends("Rebooted")
    BY <1>3 DEF RestoreRecordSet, RestoreRecordReRead, RestoreRecordSaved,
       RestoreRecordRebooted, RestoreRecord
  <2> QED  BY <2>1
<1>4. CASE RestoreInPlace \/ RestoreVerified
  <2>1. Appends("Restored")
    BY <1>4 DEF RestoreInPlace, RestoreVerified, RecordRestored
  <2> QED  BY <2>1
<1>5. CASE DeclareUnknown
  <2>1. Appends("StateUnknown")
    BY <1>5 DEF DeclareUnknown, TryAppend
  <2> QED  BY <2>1
<1>6. CASE RestoreSet \/ RestoreSave \/ RestoreReboot
  BY <1>6 DEF RestoreSet, RestoreSave, RestoreReboot, Write, journalVars
<1>7. CASE RestoreIdentify \/ RestoreRead \/ RestoreReRead \/ RestoreReopen
           \/ RestoreReIdentify \/ RestoreFinalRead
  BY <1>7 DEF RestoreIdentify, RestoreRead, RestoreReRead, RestoreReopen,
     RestoreReIdentify, RestoreFinalRead, Exchanging, Opened, journalVars
<1> QED  BY <1>1, <1>2, <1>3, <1>4, <1>5, <1>6, <1>7 DEF Restore

(* Every step but a resume is quiet or one append. *)
LEMMA Moves ==
  ASSUME IInv, [Next]_vars
  PROVE  Quiet \/ (\E e \in Events : Appends(e)) \/ Resume
<1>1. CASE Crash
  BY <1>1 DEF Crash, Quiet, NewSuccess, Late, Stopped, journalVars
<1>2. CASE Bench \/ UNCHANGED vars
  BY <1>2 DEF Bench, PowerLoss, SwapBoard, EditElsewhere, Quiet, NewSuccess, vars,
     journalVars, engineVars
<1> QED  BY <1>1, <1>2, ConnectMoves, ApplyMoves, RestoreMoves DEF Next, Engine

(* A journal whose terminals are last holds a terminal only when closed.     *)
LEMMA TerminalCloses ==
  ASSUME disk \in Seq(Events), TerminalIsLast, NEW e \in TerminalEvents,
         Recorded(disk, e)
  PROVE  Closed(disk) /\ Last(disk) = e
<1>1. PICK i \in DOMAIN disk : disk[i] = e
  BY DEF Recorded
<1>2. i = Len(disk)
  BY <1>1 DEF TerminalIsLast
<1> QED  BY <1>1, <1>2 DEF Closed, Last

LEMMA AppendsKeepOrder ==
  ASSUME IInv, OrderInv, NEW e \in Events, Appends(e)
  PROVE  OrderInv'
<1>1. disk \in Seq(Events) /\ poisoned \in BOOLEAN
  BY DEF IInv, TypeOK, JournalTypeOK
<1>2. CASE disk' = disk /\ poisoned' = poisoned /\ ~CanAppend(e)
  BY <1>2 DEF OrderInv, Appends, FromStep, Appended, TerminalIsLast, RecoveryIsFinal, Closed, Recorded
<1>3. CASE disk' = disk /\ poisoned'
  BY <1>3 DEF OrderInv, TerminalIsLast, RecoveryIsFinal, Closed, Recorded
<1>4. CASE disk' = Append(disk, e) /\ CanAppend(e) /\ (poisoned' \/ Appended(e))
  <2>1. ~poisoned /\ ~Closed(disk)
    BY <1>4 DEF CanAppend, OrderInv, Appends
  <2>2. \A i \in DOMAIN disk : disk[i] \notin TerminalEvents
    BY <1>1, <2>1, TerminalCloses DEF OrderInv, Recorded
  <2>3. /\ DOMAIN disk' = 1..(Len(disk) + 1) /\ Len(disk') = Len(disk) + 1
        /\ \A i \in DOMAIN disk : disk'[i] = disk[i]
        /\ disk'[Len(disk) + 1] = e
    BY <1>1, <1>4
  <2>4. TerminalIsLast'
    BY <1>1, <2>2, <2>3 DEF TerminalIsLast
  <2>5. Recorded(disk, "RecoveryStarted") => pc \in Late /\ pc' \in Late /\ e \in RecoveryEvents
    BY <2>1 DEF OrderInv, Appends
  <2>6. RecoveryIsFinal'
    <3> SUFFICES ASSUME NEW i \in DOMAIN disk', disk'[i] = "RecoveryStarted",
                        NEW k \in (i + 1)..Len(disk')
                 PROVE  disk'[k] \in RecoveryEvents
      BY DEF RecoveryIsFinal, RecoveryEvents
    <3>1. i \in DOMAIN disk /\ disk[i] = "RecoveryStarted"
      BY <1>1, <2>3
    <3>2. CASE k \in DOMAIN disk
      BY <1>1, <2>3, <3>1, <3>2 DEF OrderInv, RecoveryIsFinal, RecoveryEvents
    <3>3. CASE k = Len(disk) + 1
      BY <2>3, <2>5, <3>1, <3>3 DEF Recorded
    <3> QED  BY <1>1, <2>3, <3>1, <3>2, <3>3
  <2>7. (Closed(disk) /\ pc \notin Stopped => poisoned)'
    BY <1>1, <1>4, <2>3 DEF Closed, Last, Appends, AppendFailed, Appended
  <2>8. (Recorded(disk, "RecoveryStarted") => pc \in Late \/ poisoned)'
    <3>1. Recorded(disk', "RecoveryStarted")
            => Recorded(disk, "RecoveryStarted") \/ e = "RecoveryStarted"
      BY <1>1, <1>4, RecordedAppend
    <3> QED  BY <1>4, <2>5, <3>1 DEF Appends, FromStep, AppendFailed
  <2> QED  BY <2>4, <2>6, <2>7, <2>8 DEF OrderInv
<1> QED
  BY <1>1, <1>2, <1>3, <1>4 DEF Appends, Appended, AppendFailed

LEMMA OrderInductive ==
  ASSUME IInv, OrderInv, [Next]_vars
  PROVE  OrderInv'
<1>1. CASE Quiet
  BY <1>1 DEF Quiet, OrderInv, TerminalIsLast, RecoveryIsFinal, Closed, Recorded
<1>2. CASE Resume
  <2>1. disk' = disk
    BY <1>2 DEF Resume, Reopen
  <2>2. Closed(disk) => pc' = "done"
    BY <1>2 DEF Resume, Decision
  <2>3. Recorded(disk, "RecoveryStarted") => pc' \in {"done", "unknown"}
    BY <1>2 DEF Resume, Decision
  <2> QED
    BY <2>1, <2>2, <2>3 DEF OrderInv, TerminalIsLast, RecoveryIsFinal, Closed, Recorded,
       Late, Stopped
<1> QED  BY <1>1, <1>2, Moves, AppendsKeepOrder

(* What engine, restore and resume know of the records before them: nothing  *)
(* is appended to a closed case, and after RecoveryStarted nothing but the  *)
(* restore or a poisoned handle is left.                                    *)
THEOREM Ordered == Spec => []OrderInv
<1>1. Init => OrderInv
  BY DEF Init, JournalInit, OrderInv, TerminalIsLast, RecoveryIsFinal, Closed, Recorded
<1>2. IInv /\ OrderInv /\ [Next]_vars => OrderInv'
  BY OrderInductive
<1> QED  BY <1>1, <1>2, Inductive, PTL DEF Spec

(* A closed case stays closed, also when the append that closed it reported  *)
(* a failure and the engine went on into recovery.                          *)
THEOREM ClosedCasesStayClosed == Spec => []TerminalIsLast
<1>1. OrderInv => TerminalIsLast
  BY DEF OrderInv
<1> QED  BY <1>1, Ordered, PTL

(* Once RecoveryStarted is durable no record of the apply path and no second *)
(* RecoveryStarted follows it, over any number of restarts.                 *)
THEOREM RecoveryRunsOnce == Spec => []RecoveryIsFinal
<1>1. OrderInv => RecoveryIsFinal
  BY DEF OrderInv
<1> QED  BY <1>1, Ordered, PTL

-----------------------------------------------------------------------------
(* Verified.  From the reboot to the report nothing but a power loss touches *)
(* the unit, so RAM and EEPROM agree and the final read speaks of both.     *)
Rebooted == {"recRebooted", "reopen", "recReconnected", "reidentify", "verifyRead",
             "recVerified"}

InSync == ram[backup.unit] = eeprom[backup.unit]

PlanIsBacked ==
  pc \in ApplySteps \cup {"recBackedUp"} \/ (mode # "fresh" /\ pc \in ConnectSteps)
    => plan = backup.plan

TouchedFirst ==
  pc \in {"recSet", "rRecSet"} \cup Rebooted \/ Recorded(disk, "SetApplied") => touched

FreshOnly == pc \in {"recSnapshot", "verifyNoop", "recNoop"} => mode = "fresh"

VerifiedInv ==
  /\ PlanIsBacked
  /\ FreshOnly
  /\ TouchedFirst
  /\ pc \in Rebooted => InSync
  /\ pc = "recVerified" => eeprom[backup.unit] = backup.plan.desired
  /\ Recorded(disk, "Verified") => pc \in Closing
  /\ terminal = "CompletedVerified"
       => touched /\ Recorded(disk, "Verified") /\ pc \in Stopped
  /\ VerifiedIsPersistent

(* The journal of a step, as far as the outcome needs it. *)
LEMMA AppendRecords ==
  ASSUME IInv, NEW e \in Events, Appended(e) \/ AppendFailed(e), NEW x
  PROVE  /\ Recorded(disk, x) => Recorded(disk', x)
         /\ Recorded(disk', x) => Recorded(disk, x) \/ e = x
         /\ Appended(e) => Recorded(disk', e)
<1>1. disk \in Seq(Events)
  BY DEF IInv, TypeOK, JournalTypeOK
<1>2. disk' = disk \/ disk' = Append(disk, e)
  BY DEF Appended, AppendFailed
<1>3. Appended(e) => disk' = Append(disk, e)
  BY DEF Appended
<1>4. Recorded(Append(disk, e), x) <=> Recorded(disk, x) \/ e = x
  BY <1>1, RecordedAppend
<1>5. Recorded(Append(disk, e), e)
  BY <1>1, RecordedAppend
<1> QED  BY <1>2, <1>3, <1>4, <1>5

LEMMA PlanStaysBacked ==
  ASSUME IInv, PlanIsBacked, [Next]_vars
  PROVE  PlanIsBacked'
<1> USE DEF PlanIsBacked, ConnectSteps, ApplySteps, RestoreSteps, GoTo, Finish, Abort,
            Disconnect, Recover, JournalFailure, FailConnecting, RestoreFails
<1>1. CASE Connect
  <2>1. CASE ReadSnapshot
    <3>1. mode \in {"fresh", "reconcile", "verifySave"}
      BY DEF IInv, TypeOK, CaseTypeOK
    <3> QED  BY <2>1, <3>1 DEF ReadSnapshot, ReconcileWith, Exchanging
  <2>2. CASE RecordStarted \/ RecordBackedUp \/ RecordIdentity
    BY <2>2 DEF RecordStarted, RecordBackedUp, RecordIdentity, Record, caseVars
  <2>3. CASE OpenTransport \/ Identify \/ VerifyNoOp
    BY <2>3 DEF OpenTransport, Identify, VerifyNoOp, Exchanging, Opened, caseVars
  <2>4. CASE RecordSnapshot \/ RecordNoOp
    BY <2>4 DEF RecordSnapshot, RecordNoOp, caseVars
  <2> QED  BY <1>1, <2>1, <2>2, <2>3, <2>4 DEF Connect
<1>2. CASE Apply
  BY <1>2 DEF Apply, RecordAheadSet, SendSet, RecordSet, ReRead, RecordReRead,
     RecordAheadSave, SendSave, RecordSaved, RecordAheadReboot, SendReboot,
     RecordRebooted, Reopened, RecordReconnected, ReIdentify, VerifyRead,
     RecordVerified, Record, RecordAhead, Write, Exchanging, Opened, caseVars
<1>3. CASE Restore \/ DeclareUnknown \/ Crash
  BY <1>3, RestoreLeaves DEF Leaves, Stopped
<1>4. CASE Resume
  BY <1>4 DEF Resume
<1>5. CASE Bench \/ UNCHANGED vars
  BY <1>5 DEF Bench, PowerLoss, SwapBoard, EditElsewhere, vars, engineVars, caseVars
<1> QED  BY <1>1, <1>2, <1>3, <1>4, <1>5 DEF Next, Engine

LEMMA FreshOnlyInductive ==
  ASSUME IInv, FreshOnly, [Next]_vars
  PROVE  FreshOnly'
<1> USE DEF FreshOnly, GoTo, Finish, Abort, Disconnect, Recover, JournalFailure,
            FailConnecting
<1>1. CASE Connect
  <2>1. CASE ReadSnapshot
    <3>1. mode \in {"fresh", "reconcile", "verifySave"}
      BY DEF IInv, TypeOK, CaseTypeOK
    <3> QED  BY <2>1, <3>1 DEF ReadSnapshot, ReconcileWith, Exchanging
  <2>2. CASE RecordStarted \/ RecordBackedUp \/ RecordIdentity
    BY <2>2 DEF RecordStarted, RecordBackedUp, RecordIdentity, Record, caseVars
  <2>3. CASE OpenTransport \/ Identify \/ VerifyNoOp
    BY <2>3 DEF OpenTransport, Identify, VerifyNoOp, Exchanging, Opened, caseVars
  <2>4. CASE RecordSnapshot \/ RecordNoOp
    BY <2>4 DEF RecordSnapshot, RecordNoOp, caseVars
  <2> QED  BY <1>1, <2>1, <2>2, <2>3, <2>4 DEF Connect
<1>2. CASE Apply
  BY <1>2 DEF Apply, RecordAheadSet, SendSet, RecordSet, ReRead, RecordReRead,
     RecordAheadSave, SendSave, RecordSaved, RecordAheadReboot, SendReboot,
     RecordRebooted, Reopened, RecordReconnected, ReIdentify, VerifyRead,
     RecordVerified, Record, RecordAhead, Write, Exchanging, Opened
<1>3. CASE Restore \/ DeclareUnknown \/ Crash
  BY <1>3, RestoreLeaves DEF Leaves, RestoreSteps, Stopped
<1>4. CASE Resume
  BY <1>4 DEF Resume
<1>5. CASE Bench \/ UNCHANGED vars
  BY <1>5 DEF Bench, PowerLoss, SwapBoard, EditElsewhere, vars, engineVars, caseVars
<1> QED  BY <1>1, <1>2, <1>3, <1>4, <1>5 DEF Next, Engine

(* The way to a Rebooted point: the reboot itself, or the point before it.   *)
LEMMA RebootedFrom ==
  ASSUME IInv, [Next]_vars, pc' \in Rebooted
  PROVE  \/ /\ pc = "reboot" /\ pc' = "recRebooted" /\ link /\ Restart
            /\ touched' /\ UNCHANGED <<board, backup, plan>>
         \/ /\ pc \in Rebooted /\ UNCHANGED <<ram, eeprom, touched, backup, plan>>
            /\ pc' = "recVerified" /\ pc # "recVerified"
                 => pc = "verifyRead" /\ link /\ ram[board] = plan.desired
         \/ /\ pc' = pc /\ UNCHANGED <<touched, backup, plan>>
            /\ PowerCycle \/ \E u \in Units : Replug(u)
<1> USE DEF Rebooted, GoTo, Finish, Abort, Disconnect, Recover, JournalFailure,
            FailConnecting
<1>1. CASE Connect
  <2>1. CASE ReadSnapshot
    <3>1. mode \in {"fresh", "reconcile", "verifySave"}
      BY DEF IInv, TypeOK, CaseTypeOK
    <3> QED  BY <2>1, <3>1 DEF ReadSnapshot, ReconcileWith, Exchanging
  <2>2. CASE RecordStarted \/ RecordBackedUp \/ RecordIdentity
    BY <2>2 DEF RecordStarted, RecordBackedUp, RecordIdentity, Record
  <2>3. CASE OpenTransport \/ Identify \/ VerifyNoOp
    BY <2>3 DEF OpenTransport, Identify, VerifyNoOp, Exchanging, Opened
  <2>4. CASE RecordSnapshot \/ RecordNoOp
    BY <2>4 DEF RecordSnapshot, RecordNoOp
  <2> QED  BY <1>1, <2>1, <2>2, <2>3, <2>4 DEF Connect
<1>2. CASE RecordAheadSet \/ RecordAheadSave \/ RecordAheadReboot \/ SendSet \/ SendSave
           \/ RecordSet \/ ReRead \/ RecordReRead \/ RecordSaved
  BY <1>2 DEF RecordAheadSet, RecordAheadSave, RecordAheadReboot, SendSet, SendSave,
     RecordSet, ReRead, RecordReRead, RecordSaved, Record, RecordAhead, Write, Exchanging
<1>3. CASE SendReboot
  BY <1>3 DEF SendReboot, Write, Reachable
<1>4. CASE RecordRebooted \/ Reopened \/ RecordReconnected \/ ReIdentify \/ VerifyRead
           \/ RecordVerified
  BY <1>4 DEF RecordRebooted, Reopened, RecordReconnected, ReIdentify, VerifyRead,
     RecordVerified, Record, Exchanging, Opened, Reachable, caseVars
<1>5. CASE Restore \/ DeclareUnknown \/ Crash
  BY <1>5, RestoreLeaves DEF Leaves, RestoreSteps, Stopped
<1>6. CASE Resume
  BY <1>6 DEF Resume
<1>7. CASE Bench \/ UNCHANGED vars
  BY <1>7 DEF Bench, PowerLoss, SwapBoard, EditElsewhere, vars, deviceVars, engineVars,
     caseVars, Stopped
<1> QED  BY <1>1, <1>2, <1>3, <1>4, <1>5, <1>6, <1>7 DEF Next, Engine, Apply

LEMMA BackupKept ==
  ASSUME IInv, [Next]_vars, pc # "recSnapshot"
  PROVE  backup' = backup
<1>1. CASE Connect
  BY <1>1 DEF Connect, RecordStarted, OpenTransport, Identify, RecordIdentity,
     ReadSnapshot, RecordSnapshot, VerifyNoOp, RecordNoOp, RecordBackedUp, Record, caseVars
<1>2. CASE Apply
  BY <1>2 DEF Apply, RecordAheadSet, SendSet, RecordSet, ReRead, RecordReRead,
     RecordAheadSave, SendSave, RecordSaved, RecordAheadReboot, SendReboot,
     RecordRebooted, Reopened, RecordReconnected, ReIdentify, VerifyRead,
     RecordVerified, Record, RecordAhead, Write, caseVars
<1>3. CASE Restore
  BY <1>3 DEF Restore, RestoreStart, RestoreIdentify, RestoreRead, RestoreInPlace,
     RestoreAheadSet, RestoreSet, RestoreRecordSet, RestoreReRead,
     RestoreRecordReRead, RestoreAheadSave, RestoreSave, RestoreRecordSaved,
     RestoreAheadReboot, RestoreReboot, RestoreRecordRebooted, RestoreReopen,
     RestoreReIdentify, RestoreFinalRead, RestoreVerified, RestoreRecord,
     RecordRestored, Write, caseVars
<1>4. CASE DeclareUnknown \/ Crash \/ Resume
  BY <1>4 DEF DeclareUnknown, Crash, Resume, caseVars
<1>5. CASE Bench \/ UNCHANGED vars
  BY <1>5 DEF Bench, PowerLoss, SwapBoard, EditElsewhere, vars, engineVars, caseVars
<1> QED  BY <1>1, <1>2, <1>3, <1>4, <1>5 DEF Next, Engine

LEMMA SyncInductive ==
  ASSUME IInv, RightBoard, VerifiedInv, [Next]_vars, pc' \in Rebooted
  PROVE  /\ InSync' /\ touched'
         /\ pc' = "recVerified" => eeprom'[backup'.unit] = backup'.plan.desired
<1>1. pc \in Writing
  BY RebootedFrom DEF Rebooted, Writing, ApplySteps
<1>2. backup \in Backups /\ backup.unit \in Units
  BY <1>1 DEF IInv, EvidenceInHand, Backups
<1>3. DeviceTypeOK
  BY DEF IInv, TypeOK
<1>4. pc \in Rebooted => InSync /\ touched /\ plan = backup.plan
  BY DEF VerifiedInv, TouchedFirst, PlanIsBacked, Rebooted, ApplySteps
<1>5. CASE pc = "reboot" /\ pc' = "recRebooted" /\ link /\ Restart /\ touched'
           /\ UNCHANGED <<board, backup, plan>>
  <2>1. board = backup.unit
    BY <1>5 DEF RightBoard, Proven, ApplySteps, Reconnecting
  <2> QED  BY <1>3, <1>5, <2>1 DEF Restart, InSync, DeviceTypeOK
<1>6. CASE /\ pc \in Rebooted /\ UNCHANGED <<ram, eeprom, touched, backup, plan>>
           /\ pc' = "recVerified" /\ pc # "recVerified"
                => pc = "verifyRead" /\ link /\ ram[board] = plan.desired
  <2>1. pc = "verifyRead" /\ link => board = backup.unit
    BY DEF RightBoard, Proven, ApplySteps, Reconnecting
  <2> QED  BY <1>4, <1>6, <2>1 DEF InSync, VerifiedInv
<1>7. CASE /\ pc' = pc /\ UNCHANGED <<touched, backup, plan>>
           /\ PowerCycle \/ \E u \in Units : Replug(u)
  <2>1. eeprom' = eeprom /\ \A v \in Units : ram'[v] = ram[v] \/ ram'[v] = eeprom[v]
    BY <1>3, <1>7 DEF PowerCycle, Restart, Replug, DeviceTypeOK
  <2> QED  BY <1>2, <1>4, <1>7, <2>1 DEF InSync, VerifiedInv
<1> QED  BY <1>5, <1>6, <1>7, RebootedFrom

(* A closed case is left alone: nothing the engine or the bench may still do *)
(* changes an EEPROM or the backup.                                         *)
LEMMA ClosedIsLeftAlone ==
  ASSUME IInv, OrderInv, [Next]_vars, Closed(disk), pc \in Closing
  PROVE  UNCHANGED <<eeprom, backup, touched>> /\ pc' \in (Closing \ {"rStart"}) \cup {pc}
<1> USE DEF Closing, Stopped
<1>1. pc = "rStart" => poisoned
  BY DEF OrderInv
<1>2. CASE RestoreStart \/ DeclareUnknown
  BY <1>1, <1>2 DEF RestoreStart, RestoreRecord, RestoreFails, DeclareUnknown, GoTo, Finish,
     Appended, CanAppend, caseVars
<1>3. CASE Crash \/ Resume
  <2>1. CASE Crash
    BY <2>1 DEF Crash
  <2>2. CASE Resume
    BY <2>2 DEF Resume, Decision
  <2> QED  BY <1>3, <2>1, <2>2
<1>4. CASE Bench \/ UNCHANGED vars
  <2>1. UNCHANGED engineVars \/ UNCHANGED vars
    BY <1>4 DEF Bench, PowerLoss, SwapBoard, EditElsewhere
  <2>2. eeprom' = eeprom
    <3>1. ASSUME NEW value, NEW kind, EditElsewhere(value, kind) PROVE FALSE
      BY <3>1 DEF EditElsewhere
    <3>2. ASSUME NEW u, SwapBoard(u) PROVE eeprom' = eeprom
      BY <3>2 DEF SwapBoard, Replug
    <3>3. PowerLoss \/ UNCHANGED vars => eeprom' = eeprom
      BY DEF PowerLoss, PowerCycle, Restart, vars, deviceVars
    <3> QED  BY <1>4, <3>1, <3>2, <3>3 DEF Bench
  <2> QED  BY <2>1, <2>2 DEF vars, engineVars, caseVars
<1>5. CASE Connect
  BY <1>5 DEF Connect, RecordStarted, OpenTransport, Identify, RecordIdentity,
     ReadSnapshot, RecordSnapshot, VerifyNoOp, RecordNoOp, RecordBackedUp, Record, Exchanging
<1>6. CASE Apply
  BY <1>6 DEF Apply, RecordAheadSet, SendSet, RecordSet, ReRead, RecordReRead,
     RecordAheadSave, SendSave, RecordSaved, RecordAheadReboot, SendReboot,
     RecordRebooted, Reopened, RecordReconnected, ReIdentify, VerifyRead,
     RecordVerified, Record, RecordAhead, Write, Exchanging
<1>7. CASE Restore /\ ~RestoreStart
  BY <1>7 DEF Restore, RestoreIdentify, RestoreRead, RestoreInPlace,
     RestoreAheadSet, RestoreSet, RestoreRecordSet, RestoreReRead,
     RestoreRecordReRead, RestoreAheadSave, RestoreSave, RestoreRecordSaved,
     RestoreAheadReboot, RestoreReboot, RestoreRecordRebooted, RestoreReopen,
     RestoreReIdentify, RestoreFinalRead, RestoreVerified, RestoreRecord,
     RecordRestored, Write, Exchanging
<1> QED  BY <1>2, <1>3, <1>4, <1>5, <1>6, <1>7 DEF Next, Engine

(* A case that touched a controller has always touched it, and a SET that    *)
(* is about to be recorded did.                                             *)
LEMMA TouchedStays ==
  ASSUME IInv, [Next]_vars
  PROVE  /\ touched => touched'
         /\ pc' \in {"recSet", "rRecSet"} => touched' \/ pc' = pc
<1> USE DEF GoTo, Finish, Abort, Disconnect, Recover, JournalFailure, FailConnecting,
            RestoreFails
<1>1. CASE Connect
  <2>1. CASE ReadSnapshot
    <3>1. mode \in {"fresh", "reconcile", "verifySave"}
      BY DEF IInv, TypeOK, CaseTypeOK
    <3> QED  BY <2>1, <3>1 DEF ReadSnapshot, ReconcileWith
  <2>2. CASE ~ReadSnapshot
    BY <1>1, <2>2 DEF Connect, RecordStarted, OpenTransport, Identify, RecordIdentity,
       RecordSnapshot, VerifyNoOp, RecordNoOp, RecordBackedUp, Record, Opened, caseVars
  <2> QED  BY <2>1, <2>2
<1>2. CASE Apply
  BY <1>2 DEF Apply, RecordAheadSet, SendSet, RecordSet, ReRead, RecordReRead,
     RecordAheadSave, SendSave, RecordSaved, RecordAheadReboot, SendReboot,
     RecordRebooted, Reopened, RecordReconnected, ReIdentify, VerifyRead,
     RecordVerified, Record, RecordAhead, Write, Opened, caseVars
<1>3. CASE Restore
  BY <1>3 DEF Restore, RestoreStart, RestoreIdentify, RestoreRead, RestoreInPlace,
     RestoreAheadSet, RestoreSet, RestoreRecordSet, RestoreReRead,
     RestoreRecordReRead, RestoreAheadSave, RestoreSave, RestoreRecordSaved,
     RestoreAheadReboot, RestoreReboot, RestoreRecordRebooted, RestoreReopen,
     RestoreReIdentify, RestoreFinalRead, RestoreVerified, RestoreRecord,
     RecordRestored, Write, Opened, caseVars
<1>4. CASE DeclareUnknown \/ Crash \/ Resume
  BY <1>4 DEF DeclareUnknown, Crash, Resume, caseVars
<1>5. CASE Bench \/ UNCHANGED vars
  BY <1>5 DEF Bench, PowerLoss, SwapBoard, EditElsewhere, vars, engineVars, caseVars
<1> QED  BY <1>1, <1>2, <1>3, <1>4, <1>5 DEF Next, Engine

(* A new success report comes from its own record, or from a closed journal. *)
LEMMA SuccessFrom ==
  ASSUME IInv, [Next]_vars, NewSuccess
  PROVE  \/ \E e \in Events : Appends(e) /\ Reports(e)
         \/ /\ Resume /\ Closed(disk) /\ terminal' = Rebuilt(disk) /\ pc' = "done"
<1>1. CASE Resume
  <2>1. Closed(disk)
    BY <1>1, NoneAssumption DEF Resume, Decision, NewSuccess, Successes, Terminals
  <2> QED  BY <1>1, <2>1 DEF Resume, Decision
<1> QED  BY <1>1, Moves DEF Quiet, Appends

(* What a step does to the records and to a report that was already there.   *)
LEMMA RecordsKept ==
  ASSUME IInv, [Next]_vars, NEW x
  PROVE  /\ Recorded(disk, x) => Recorded(disk', x)
         /\ Recorded(disk', x) => Recorded(disk, x) \/ (Appends(x) /\ x \in Events)
<1>1. CASE Quiet \/ Resume
  <2>1. disk' = disk
    BY <1>1 DEF Quiet, Resume, Reopen
  <2> QED  BY <2>1 DEF Recorded
<1>2. ASSUME NEW e \in Events, Appends(e)
      PROVE  /\ Recorded(disk, x) => Recorded(disk', x)
             /\ Recorded(disk', x) => Recorded(disk, x) \/ e = x
  <2>1. Appended(e) \/ AppendFailed(e)
    BY <1>2 DEF Appends
  <2> QED  BY <2>1, AppendRecords
<1>3. ASSUME NEW e \in Events, Appends(e), e = x
      PROVE  Appends(x) /\ x \in Events
  BY <1>3
<1> QED  BY <1>1, <1>2, <1>3, Moves

LEMMA VerifiedInductive ==
  ASSUME IInv, OrderInv, FreshInv, RightBoard, VerifiedInv, [Next]_vars
  PROVE  VerifiedInv'
<1>1. disk \in Seq(Events) /\ TerminalIsLast
  BY DEF IInv, TypeOK, JournalTypeOK, OrderInv
<1>2. Recorded(disk, "Verified") => Closed(disk) /\ pc \in Closing
  BY <1>1, TerminalCloses DEF VerifiedInv, TerminalEvents
<1>3. (Recorded(disk, "Verified") => pc \in Closing)'
  BY <1>2, ClosedIsLeftAlone, RecordsKept DEF Appends, FromStep, Closing
<1>4. (pc \in Rebooted => InSync /\ touched)'
  BY SyncInductive
<1>5. (pc = "recVerified" => eeprom[backup.unit] = backup.plan.desired)'
  BY SyncInductive DEF Rebooted
<1>6. TouchedFirst'
  <2>1. Recorded(disk', "SetApplied") => touched'
    BY RecordsKept, TouchedStays DEF Appends, FromStep, VerifiedInv, TouchedFirst
  <2>2. pc' \in {"recSet", "rRecSet"} => touched'
    BY TouchedStays DEF VerifiedInv, TouchedFirst
  <2> QED  BY <1>4, <2>1, <2>2 DEF TouchedFirst
<1>7. (terminal = "CompletedVerified"
         => touched /\ Recorded(disk, "Verified") /\ pc \in Stopped)'
  <2> SUFFICES ASSUME terminal' = "CompletedVerified"
               PROVE  touched' /\ Recorded(disk', "Verified") /\ pc' \in Stopped
    OBVIOUS
  <2>1. CASE terminal = "CompletedVerified"
    <3>1. touched /\ Recorded(disk, "Verified") /\ pc \in Stopped /\ Closed(disk)
      BY <1>2, <2>1 DEF VerifiedInv
    <3>2. pc' \in Stopped
      BY <3>1, Moves DEF Quiet, Appends, Resume, Decision, Stopped
    <3> QED  BY <3>1, <3>2, TouchedStays, RecordsKept
  <2>2. CASE terminal # "CompletedVerified"
    <3>1. NewSuccess
      BY <2>2 DEF NewSuccess, Successes
    <3>2. ASSUME NEW e \in Events, Appends(e), Reports(e)
          PROVE  touched' /\ Recorded(disk', "Verified") /\ pc' \in Stopped
      <4>1. pc = "recVerified" /\ e = "Verified" /\ pc' = "done" /\ Appended(e)
        BY <3>2 DEF Reports
      <4> QED
        BY <3>2, <4>1, AppendRecords DEF VerifiedInv, TouchedFirst, Rebooted, Appends, Stopped
    <3>3. CASE Resume /\ Closed(disk) /\ terminal' = Rebuilt(disk) /\ pc' = "done"
      <4>1. Last(disk) = "Verified" /\ Recorded(disk, "SetApplied")
        BY <3>3 DEF Rebuilt
      <4>2. Recorded(disk, "Verified")
        <5>1. disk # <<>> /\ Len(disk) \in DOMAIN disk
          BY <1>1, <3>3 DEF Closed
        <5> QED  BY <4>1, <5>1 DEF Last, Recorded
      <4> QED
        BY <3>3, <4>1, <4>2, TouchedStays, RecordsKept DEF VerifiedInv, TouchedFirst, Stopped
    <3> QED  BY <3>1, <3>2, <3>3, SuccessFrom
  <2> QED  BY <2>1, <2>2
<1>8. VerifiedIsPersistent'
  <2> SUFFICES ASSUME touched', Recorded(disk', "Verified")
               PROVE  eeprom'[backup'.unit] = backup'.plan.desired
    BY <1>7 DEF VerifiedIsPersistent
  <2>1. CASE Recorded(disk, "Verified")
    <3>1. UNCHANGED <<eeprom, backup, touched>>
      BY <1>2, <2>1, ClosedIsLeftAlone
    <3> QED  BY <2>1, <3>1 DEF VerifiedInv, VerifiedIsPersistent
  <2>2. CASE Appends("Verified")
    <3>1. pc \in {"recNoop", "recVerified"} /\ UNCHANGED <<eeprom, touched>>
      BY <2>2 DEF Appends, FromStep
    <3>2. pc # "recNoop"
      BY <3>1 DEF VerifiedInv, FreshOnly, FreshInv, CleanlyFresh, ConnectSteps
    <3>3. backup' = backup
      BY <3>1, <3>2, BackupKept
    <3> QED  BY <3>1, <3>2, <3>3 DEF VerifiedInv
  <2> QED  BY <2>1, <2>2, RecordsKept
<1> QED
  BY <1>3, <1>4, <1>5, <1>6, <1>7, <1>8, PlanStaysBacked, FreshOnlyInductive DEF VerifiedInv

(* Whoever reports CompletedVerified, a run or a resume that rebuilds the    *)
(* report, and whatever failed or restarted on the way, the EEPROM of the   *)
(* unit holds the desired configuration from then on.                       *)
THEOREM VerifiedPersists == Spec => []VerifiedIsPersistent
<1>1. Init => VerifiedInv
  BY NoneAssumption DEF Init, JournalInit, VerifiedInv, PlanIsBacked, FreshOnly, TouchedFirst,
     VerifiedIsPersistent, Recorded, Terminals, Rebooted, ConnectSteps, ApplySteps
<1>2. Init => FreshInv /\ RightBoard
  BY DEF Init, FreshInv, CleanlyFresh, FreshAbortIsClean, Writing, ApplySteps, RestoreSteps,
     RightBoard, FreshlyRead, Proven
<1>3. IInv /\ OrderInv /\ FreshInv /\ RightBoard /\ VerifiedInv /\ [Next]_vars
        => FreshInv' /\ RightBoard' /\ VerifiedInv'
  BY VerifiedInductive, RightBoardInductive, FreshInductive
<1>4. VerifiedInv => VerifiedIsPersistent
  BY DEF VerifiedInv
<1> QED  BY <1>1, <1>2, <1>3, <1>4, Inductive, Ordered, PTL DEF Spec

-----------------------------------------------------------------------------
(* Restored.  If other tools save what they edit, RAM differs from EEPROM    *)
(* only on the unit of the case and, before its recovery rewrites it, only  *)
(* by the SET of the desired flags: RAM found in the previous configuration *)
(* is the EEPROM's.                                                         *)
Early == ConnectSteps \cup ApplySteps
         \cup {"rStart", "rIdentify", "rRead", "rInPlace", "rAheadSet", "rSet"}
RestoreRebooted == {"rInPlace", "rRecRebooted", "rReopen", "rReidentify", "rFinalRead",
                    "rRecRestored"}

BackupTells ==
  /\ backup # None => backup.plan.desired.init # backup.plan.previous.init
  /\ pc = "recSnapshot" => plan.desired = Desired(plan.previous)
  /\ mode = "fresh" /\ pc \in ConnectSteps \ {"recBackedUp"} => backup = None

RestoreBegun == pc \in RestoreSteps \ {"rStart"} => Recorded(disk, "RecoveryStarted")

Settled == \A u \in Units :
             ram[u] = eeprom[u] \/ (backup # None /\ u = backup.unit)

Explained ==
  backup # None /\ (pc \in Early \/ ~Recorded(disk, "RecoveryStarted"))
    => InSync \/ ram[backup.unit].init = backup.plan.desired.init

RestoredInv ==
  /\ BackupTells /\ RestoreBegun /\ Settled /\ Explained
  /\ pc \in RestoreRebooted => InSync
  /\ pc \in {"rInPlace", "rRecRestored"} => eeprom[backup.unit] = backup.plan.previous
  /\ Recorded(disk, "Restored") => pc \in {"unknown"} \cup Stopped
  /\ terminal = "CompletedRestored" => Recorded(disk, "Restored") /\ pc \in Stopped
  /\ RestoredIsPersistent

(* The backup and the plan tell the previous configuration from the desired. *)
LEMMA BackupTellsInductive ==
  ASSUME IInv, FreshOnly, BackupTells, [Next]_vars
  PROVE  BackupTells'
<1> USE DEF BackupTells, ConnectSteps, GoTo, Finish, Abort, Disconnect, Recover,
            JournalFailure, FailConnecting
<1>1. CASE RecordSnapshot
  <2>1. pc = "recSnapshot" /\ plan' = plan /\ mode' = mode
    BY <1>1 DEF RecordSnapshot
  <2>2. plan \in Plans /\ plan.previous \in Snapshots
    BY <2>1 DEF IInv, EvidenceInHand, Planned, Plans
  <2>3. plan.desired = Desired(plan.previous)
    BY <2>1
  <2>4. plan.previous # plan.desired => plan.desired.init # plan.previous.init
    BY <2>2, <2>3 DEF Desired, Snapshots
  <2>5. \/ backup' = backup /\ pc' \in {"verifyNoop", "done", "rStart", "unknown"}
        \/ /\ backup' = [unit |-> identity, plan |-> plan]
           /\ plan.previous # plan.desired /\ pc' = "recBackedUp"
    BY <1>1 DEF RecordSnapshot
  <2>6. CASE backup' = backup /\ pc' \in {"verifyNoop", "done", "rStart", "unknown"}
    BY <2>1, <2>6
  <2>7. CASE /\ backup' = [unit |-> identity, plan |-> plan]
             /\ plan.previous # plan.desired /\ pc' = "recBackedUp"
    <3>1. backup'.plan = plan
      BY <2>7
    <3> QED  BY <2>4, <2>7, <3>1
  <2> QED  BY <2>5, <2>6, <2>7
<1>2. CASE ReadSnapshot
  <2>1. mode \in {"fresh", "reconcile", "verifySave"}
    BY DEF IInv, TypeOK, CaseTypeOK
  <2>2. \/ pc' # "recSnapshot"
        \/ plan' = [previous |-> ram[board], desired |-> Desired(ram[board])]
    BY <1>2, <2>1 DEF ReadSnapshot, ReconcileWith, PlanFor
  <2>3. pc' = "recSnapshot" => plan'.desired = Desired(plan'.previous)
    BY <2>2
  <2>4. backup' = backup /\ mode' = mode /\ pc = "readSnapshot"
        /\ (pc' = "recSnapshot" => mode = "fresh")
    BY <1>2, <2>1 DEF ReadSnapshot, ReconcileWith, Exchanging
  <2>5. pc' \in ConnectSteps => pc' = "recSnapshot"
    BY <1>2, <2>1 DEF ReadSnapshot, ReconcileWith
  <2> QED  BY <2>3, <2>4, <2>5
<1>3. CASE RecordStarted \/ RecordBackedUp \/ RecordIdentity
  BY <1>3 DEF RecordStarted, RecordBackedUp, RecordIdentity, Record, caseVars
<1>4. CASE OpenTransport \/ Identify \/ VerifyNoOp \/ RecordNoOp
  BY <1>4 DEF OpenTransport, Identify, VerifyNoOp, RecordNoOp, Exchanging, Opened, caseVars
<1>5. CASE Apply
  BY <1>5 DEF Apply, RecordAheadSet, SendSet, RecordSet, ReRead, RecordReRead,
     RecordAheadSave, SendSave, RecordSaved, RecordAheadReboot, SendReboot,
     RecordRebooted, Reopened, RecordReconnected, ReIdentify, VerifyRead,
     RecordVerified, Record, RecordAhead, Write, Exchanging, Opened, caseVars
<1>6. CASE Restore \/ DeclareUnknown \/ Crash
  <2>1. backup' = backup
    BY <1>6, BackupKept DEF Restore, RestoreStart, RestoreIdentify, RestoreRead, RestoreInPlace,
       RestoreAheadSet, RestoreSet, RestoreRecordSet, RestoreReRead,
       RestoreRecordReRead, RestoreAheadSave, RestoreSave, RestoreRecordSaved,
       RestoreAheadReboot, RestoreReboot, RestoreRecordRebooted, RestoreReopen,
       RestoreReIdentify, RestoreFinalRead, RestoreVerified, RestoreRecord,
       RecordRestored, Write, DeclareUnknown, Crash, caseVars
  <2> QED  BY <1>6, <2>1, RestoreLeaves DEF Leaves, RestoreSteps, Stopped
<1>7. CASE Resume
  BY <1>7 DEF Resume
<1>8. CASE Bench \/ UNCHANGED vars
  BY <1>8 DEF Bench, PowerLoss, SwapBoard, EditElsewhere, vars, engineVars, caseVars
<1> QED
  BY <1>1, <1>2, <1>3, <1>4, <1>5, <1>6, <1>7, <1>8 DEF Next, Engine, Connect

(* No step returns from a recovery under way to a point before its SET, but  *)
(* for a resume that finds no RecoveryStarted.                              *)
LEMMA EarlyFrom ==
  ASSUME IInv, [Next]_vars, pc' \in Early, pc \notin Early
  PROVE  Resume /\ ~Recorded(disk, "RecoveryStarted")
<1> USE DEF Early, ConnectSteps, ApplySteps, GoTo, Finish, RestoreFails
<1>1. CASE Connect
  BY <1>1 DEF Connect, RecordStarted, OpenTransport, Identify, RecordIdentity,
     ReadSnapshot, RecordSnapshot, VerifyNoOp, RecordNoOp, RecordBackedUp, Record, Exchanging
<1>2. CASE Apply
  BY <1>2 DEF Apply, RecordAheadSet, SendSet, RecordSet, ReRead, RecordReRead,
     RecordAheadSave, SendSave, RecordSaved, RecordAheadReboot, SendReboot,
     RecordRebooted, Reopened, RecordReconnected, ReIdentify, VerifyRead,
     RecordVerified, Record, RecordAhead, Write, Exchanging
<1>3. CASE Restore
  BY <1>3 DEF Restore, RestoreStart, RestoreIdentify, RestoreRead, RestoreInPlace,
     RestoreAheadSet, RestoreSet, RestoreRecordSet, RestoreReRead,
     RestoreRecordReRead, RestoreAheadSave, RestoreSave, RestoreRecordSaved,
     RestoreAheadReboot, RestoreReboot, RestoreRecordRebooted, RestoreReopen,
     RestoreReIdentify, RestoreFinalRead, RestoreVerified, RestoreRecord,
     RecordRestored, Write, Exchanging, Opened
<1>4. CASE DeclareUnknown \/ Crash
  BY <1>4 DEF DeclareUnknown, Crash
<1>5. CASE Resume
  BY <1>5 DEF Resume, Decision
<1>6. CASE Bench \/ UNCHANGED vars
  BY <1>6 DEF Bench, PowerLoss, SwapBoard, EditElsewhere, vars, engineVars
<1> QED  BY <1>1, <1>2, <1>3, <1>4, <1>5, <1>6 DEF Next, Engine

LEMMA RestoreBegunInductive ==
  ASSUME IInv, RestoreBegun, [Next]_vars
  PROVE  RestoreBegun'
<1> SUFFICES ASSUME pc' \in RestoreSteps \ {"rStart"}
             PROVE  Recorded(disk', "RecoveryStarted")
  BY DEF RestoreBegun
<1> USE DEF RestoreSteps, GoTo, Finish, Abort, Disconnect, Recover, JournalFailure,
            FailConnecting, RestoreFails
<1>1. CASE RestoreStart
  <2>1. Appended("RecoveryStarted")
    BY <1>1 DEF RestoreStart, RestoreRecord
  <2> QED  BY <2>1, AppendRecords DEF Events
<1>2. CASE pc \in RestoreSteps \ {"rStart"}
  BY <1>2, RecordsKept DEF RestoreBegun
<1>3. CASE Connect
  <2>1. CASE ReadSnapshot
    <3>1. mode \in {"fresh", "reconcile", "verifySave"}
      BY DEF IInv, TypeOK, CaseTypeOK
    <3> QED  BY <2>1, <3>1 DEF ReadSnapshot, ReconcileWith
  <2> QED
    BY <1>3, <2>1 DEF Connect, RecordStarted, OpenTransport, Identify, RecordIdentity,
       RecordSnapshot, VerifyNoOp, RecordNoOp, RecordBackedUp, Record, Opened
<1>4. CASE Apply
  BY <1>4 DEF Apply, RecordAheadSet, SendSet, RecordSet, ReRead, RecordReRead,
     RecordAheadSave, SendSave, RecordSaved, RecordAheadReboot, SendReboot,
     RecordRebooted, Reopened, RecordReconnected, ReIdentify, VerifyRead,
     RecordVerified, Record, RecordAhead, Write, Opened
<1>5. CASE Restore /\ ~RestoreStart
  BY <1>2, <1>5 DEF Restore, RestoreIdentify, RestoreRead, RestoreInPlace,
     RestoreAheadSet, RestoreSet, RestoreRecordSet, RestoreReRead,
     RestoreRecordReRead, RestoreAheadSave, RestoreSave, RestoreRecordSaved,
     RestoreAheadReboot, RestoreReboot, RestoreRecordRebooted, RestoreReopen,
     RestoreReIdentify, RestoreFinalRead, RestoreVerified, RestoreRecord,
     RecordRestored, Write, Exchanging
<1>6. CASE DeclareUnknown \/ Crash \/ Resume
  BY <1>6 DEF DeclareUnknown, Crash, Resume
<1>7. CASE Bench \/ UNCHANGED vars
  BY <1>2, <1>7 DEF Bench, PowerLoss, SwapBoard, EditElsewhere, vars, engineVars
<1> QED  BY <1>1, <1>3, <1>4, <1>5, <1>6, <1>7 DEF Next, Engine

(* What can change a configuration: four commands, the power, the cable and  *)
(* another tool.                                                            *)
Commanded ==
  /\ link /\ UNCHANGED <<board, disk>>
  /\ \/ pc = "set" /\ SetFlags(plan.desired)
     \/ pc \in {"save", "rSave"} /\ SaveEeprom
     \/ pc \in {"reboot", "rReboot"} /\ Restart
     \/ pc = "rSet" /\ SetFlags(backup.plan.previous) /\ pc' \in {"rRecSet", "unknown"}

Disturbed ==
  /\ UNCHANGED <<pc, disk, backup>>
  /\ \/ PowerCycle
     \/ \E u \in Units : Replug(u)
     \/ \E value \in Snapshots, kind \in EditKinds :
          OtherTool(value, kind) /\ pc \in Stopped /\ ~Closed(disk)

LEMMA DeviceMoves ==
  ASSUME IInv, [Next]_vars
  PROVE  UNCHANGED <<ram, eeprom>> \/ Commanded \/ Disturbed
<1>1. CASE Connect
  BY <1>1 DEF Connect, RecordStarted, OpenTransport, Identify, RecordIdentity,
     ReadSnapshot, RecordSnapshot, VerifyNoOp, RecordNoOp, RecordBackedUp, Record, Exchanging
<1>2. CASE SendSet \/ SendSave \/ SendReboot
  BY <1>2 DEF SendSet, SendSave, SendReboot, Write, Reachable, SaveOrDrop, NoEffect, GoTo,
     Recover, Commanded, journalVars
<1>3. CASE Apply /\ ~(SendSet \/ SendSave \/ SendReboot)
  BY <1>3 DEF Apply, RecordAheadSet, RecordSet, ReRead, RecordReRead,
     RecordAheadSave, RecordSaved, RecordAheadReboot, RecordRebooted, Reopened,
     RecordReconnected, ReIdentify, VerifyRead, RecordVerified, Record, RecordAhead, Exchanging
<1>4. CASE RestoreSet \/ RestoreSave \/ RestoreReboot
  BY <1>4 DEF RestoreSet, RestoreSave, RestoreReboot, Write, SaveOrDrop, NoEffect, GoTo,
     RestoreFails, Commanded, journalVars
<1>5. CASE Restore /\ ~(RestoreSet \/ RestoreSave \/ RestoreReboot)
  BY <1>5 DEF Restore, RestoreStart, RestoreIdentify, RestoreRead, RestoreInPlace,
     RestoreAheadSet, RestoreRecordSet, RestoreReRead, RestoreRecordReRead,
     RestoreAheadSave, RestoreRecordSaved, RestoreAheadReboot, RestoreRecordRebooted,
     RestoreReopen, RestoreReIdentify, RestoreFinalRead, RestoreVerified, RestoreRecord,
     RecordRestored, Exchanging
<1>6. CASE DeclareUnknown \/ Crash \/ Resume \/ UNCHANGED vars
  BY <1>6 DEF DeclareUnknown, Crash, Resume, vars, deviceVars
<1>7. CASE Bench
  BY <1>7 DEF Bench, PowerLoss, SwapBoard, EditElsewhere, Disturbed, journalVars,
     engineVars, caseVars
<1> QED  BY <1>1, <1>2, <1>3, <1>4, <1>5, <1>6, <1>7 DEF Next, Engine

(* A disturbance leaves a unit as it was or in sync, if edits are saved.     *)
LEMMA DisturbedUnits ==
  ASSUME DeviceTypeOK, EditKinds \subseteq {"saved"}, Disturbed, NEW u \in Units
  PROVE  /\ (ram'[u] = ram[u] /\ eeprom'[u] = eeprom[u]) \/ ram'[u] = eeprom'[u]
         /\ ~Closed(disk) \/ eeprom'[u] = eeprom[u]
<1>1. CASE PowerCycle
  BY <1>1 DEF PowerCycle, Restart, DeviceTypeOK
<1>2. ASSUME NEW v \in Units, Replug(v)
      PROVE  eeprom'[u] = eeprom[u] /\ (ram'[u] = ram[u] \/ ram'[u] = eeprom[u])
  BY <1>2 DEF Replug, DeviceTypeOK
<1>3. ASSUME NEW value \in Snapshots, NEW kind \in EditKinds, OtherTool(value, kind)
      PROVE  (ram'[u] = ram[u] /\ eeprom'[u] = eeprom[u]) \/ ram'[u] = eeprom'[u]
  <2>1. kind = "saved"
    BY <1>3
  <2> QED  BY <1>3, <2>1 DEF OtherTool, DeviceTypeOK
<1> QED  BY <1>1, <1>2, <1>3 DEF Disturbed

(* A command is sent to the unit of the backup. *)
LEMMA CommandedUnit ==
  ASSUME IInv, RightBoard, Commanded
  PROVE  /\ backup \in Backups /\ backup # None /\ board = backup.unit
         /\ \A u \in Units : u # backup.unit => ram'[u] = ram[u] /\ eeprom'[u] = eeprom[u]
<1>1. pc \in {"set", "save", "reboot", "rSet", "rSave", "rReboot"} /\ link
  BY DEF Commanded
<1>2. backup \in Backups /\ backup # None
  BY <1>1, NoneAssumption DEF IInv, EvidenceInHand, Writing, ApplySteps, RestoreSteps
<1>3. board = backup.unit
  BY <1>1 DEF RightBoard, Proven, Reconnecting, ApplySteps, RestoreSteps
<1> QED
  BY <1>2, <1>3 DEF Commanded, SetFlags, SaveEeprom, Restart, IInv, TypeOK, DeviceTypeOK

LEMMA SettledInductive ==
  ASSUME EditKinds \subseteq {"saved"}, IInv, FreshOnly, RightBoard, BackupTells, Settled,
         [Next]_vars
  PROVE  Settled'
<1>1. DeviceTypeOK
  BY DEF IInv, TypeOK
<1>2. CASE pc = "recSnapshot"
  <2>1. backup = None /\ \A u \in Units : ram[u] = eeprom[u]
    BY <1>2 DEF FreshOnly, BackupTells, ConnectSteps, Settled
  <2>2. \A u \in Units : ram'[u] = eeprom'[u]
    BY <1>1, <1>2, <2>1, DeviceMoves, DisturbedUnits DEF Commanded
  <2> QED  BY <2>2 DEF Settled
<1>3. CASE pc # "recSnapshot"
  <2>1. backup' = backup
    BY <1>3, BackupKept
  <2>2. CASE UNCHANGED <<ram, eeprom>>
    BY <2>1, <2>2 DEF Settled
  <2>3. CASE Commanded
    BY <2>1, <2>3, CommandedUnit DEF Settled
  <2>4. CASE Disturbed
    BY <1>1, <2>1, <2>4, DisturbedUnits DEF Settled
  <2> QED  BY <2>2, <2>3, <2>4, DeviceMoves
<1> QED  BY <1>2, <1>3

LEMMA ExplainedInductive ==
  ASSUME EditKinds \subseteq {"saved"}, IInv, FreshOnly, RightBoard, PlanIsBacked,
         BackupTells, RestoreBegun, Settled, Explained, [Next]_vars
  PROVE  Explained'
<1>1. DeviceTypeOK
  BY DEF IInv, TypeOK
<1> SUFFICES ASSUME backup' # None, pc' \in Early \/ ~Recorded(disk', "RecoveryStarted")
             PROVE  \/ ram'[backup'.unit] = eeprom'[backup'.unit]
                    \/ ram'[backup'.unit].init = backup'.plan.desired.init
  BY DEF Explained, InSync
<1>2. backup' \in Backups /\ backup'.unit \in Units
  BY StepKeeps DEF IInv, TypeOK, CaseTypeOK, Backups
<1>3. CASE pc = "recSnapshot"
  <2>1. backup = None
    BY <1>3 DEF FreshOnly, BackupTells, ConnectSteps
  <2>2. UNCHANGED <<ram, eeprom>> \/ Disturbed
    BY <1>3, DeviceMoves DEF Commanded
  <2>3. \A u \in Units : ram[u] = eeprom[u]
    BY <2>1 DEF Settled
  <2> QED  BY <1>1, <1>2, <2>2, <2>3, DisturbedUnits
<1>4. CASE pc # "recSnapshot"
  <2>1. backup' = backup
    BY <1>4, BackupKept
  <2>2. pc \in Early \/ ~Recorded(disk, "RecoveryStarted")
    BY EarlyFrom, RecordsKept
  <2>3. ram[backup.unit] = eeprom[backup.unit]
        \/ ram[backup.unit].init = backup.plan.desired.init
    BY <2>1, <2>2 DEF Explained, InSync
  <2>4. CASE UNCHANGED <<ram, eeprom>>
    BY <2>1, <2>3, <2>4
  <2>5. CASE Disturbed
    BY <1>1, <1>2, <2>1, <2>3, <2>5, DisturbedUnits
  <2>6. CASE Commanded
    <3>1. board = backup.unit
      BY <2>6, CommandedUnit
    <3>2. CASE pc = "set" /\ SetFlags(plan.desired)
      <4>1. plan = backup.plan
        BY <3>2 DEF PlanIsBacked, ApplySteps
      <4>2. plan.desired \in Snapshots
        BY <1>2, <2>1, <4>1 DEF Backups, Plans
      <4>3. ram'[board] = [plan.desired EXCEPT !.dshot = ram[board].dshot]
        BY <1>1, <3>2 DEF SetFlags, DeviceTypeOK
      <4>4. ram'[board].init = plan.desired.init
        BY <4>2, <4>3 DEF Snapshots
      <4> QED  BY <2>1, <3>1, <4>1, <4>4
    <3>3. CASE SaveEeprom \/ Restart
      BY <1>1, <2>1, <3>1, <3>3 DEF SaveEeprom, Restart, DeviceTypeOK
    <3>4. CASE pc = "rSet" /\ pc' \in {"rRecSet", "unknown"} /\ disk' = disk
      BY <3>4 DEF RestoreBegun, RestoreSteps, Early, ConnectSteps, ApplySteps
    <3> QED  BY <2>6, <3>2, <3>3, <3>4 DEF Commanded
  <2> QED  BY <2>4, <2>5, <2>6, DeviceMoves
<1> QED  BY <1>3, <1>4

(* The way to the points that end a restore. *)
LEMMA RestoreRebootedFrom ==
  ASSUME IInv, [Next]_vars, pc' \in RestoreRebooted
  PROVE  \/ /\ pc = "rReboot" /\ pc' = "rRecRebooted" /\ link /\ Restart /\ UNCHANGED board
         \/ /\ pc = "rRead" /\ pc' = "rInPlace" /\ link
            /\ ram[board] = backup.plan.previous /\ UNCHANGED <<ram, eeprom>>
         \/ /\ pc \in RestoreRebooted /\ UNCHANGED <<ram, eeprom>> /\ pc' # "rInPlace"
            /\ pc' = "rRecRestored" =>
                 pc = "rFinalRead" /\ link /\ ram[board] = backup.plan.previous
         \/ pc' = pc /\ (Disturbed \/ UNCHANGED <<ram, eeprom>>)
<1> USE DEF RestoreRebooted, GoTo, Finish, Abort, Disconnect, Recover, JournalFailure,
            FailConnecting, RestoreFails
<1>1. CASE Connect
  <2>1. CASE ReadSnapshot
    <3>1. mode \in {"fresh", "reconcile", "verifySave"}
      BY DEF IInv, TypeOK, CaseTypeOK
    <3> QED  BY <2>1, <3>1 DEF ReadSnapshot, ReconcileWith
  <2>2. CASE ~ReadSnapshot
    BY <1>1, <2>2 DEF Connect, RecordStarted, OpenTransport, Identify, RecordIdentity,
       RecordSnapshot, VerifyNoOp, RecordNoOp, RecordBackedUp, Record, Opened
  <2> QED  BY <2>1, <2>2
<1>2. CASE Apply
  BY <1>2 DEF Apply, RecordAheadSet, SendSet, RecordSet, ReRead, RecordReRead,
     RecordAheadSave, SendSave, RecordSaved, RecordAheadReboot, SendReboot,
     RecordRebooted, Reopened, RecordReconnected, ReIdentify, VerifyRead,
     RecordVerified, Record, RecordAhead, Write, Opened
<1>3. CASE Restore
  BY <1>3 DEF Restore, RestoreStart, RestoreIdentify, RestoreRead, RestoreInPlace,
     RestoreAheadSet, RestoreSet, RestoreRecordSet, RestoreReRead,
     RestoreRecordReRead, RestoreAheadSave, RestoreSave, RestoreRecordSaved,
     RestoreAheadReboot, RestoreReboot, RestoreRecordRebooted, RestoreReopen,
     RestoreReIdentify, RestoreFinalRead, RestoreVerified, RestoreRecord,
     RecordRestored, Write, Exchanging, Opened
<1>4. CASE DeclareUnknown \/ Crash \/ Resume
  BY <1>4 DEF DeclareUnknown, Crash, Resume
<1>5. CASE Bench \/ UNCHANGED vars
  BY <1>5 DEF Bench, PowerLoss, SwapBoard, EditElsewhere, Disturbed, vars, deviceVars,
     journalVars, engineVars, caseVars
<1> QED  BY <1>1, <1>2, <1>3, <1>4, <1>5 DEF Next, Engine

LEMMA RestoredSync ==
  ASSUME EditKinds \subseteq {"saved"}, IInv, RightBoard, RestoredInv, [Next]_vars,
         pc' \in RestoreRebooted
  PROVE  /\ InSync'
         /\ pc' \in {"rInPlace", "rRecRestored"}
              => eeprom'[backup'.unit] = backup'.plan.previous
<1>1. pc \in RestoreSteps
  BY RestoreRebootedFrom DEF RestoreRebooted, RestoreSteps
<1>2. backup \in Backups /\ backup # None /\ backup.unit \in Units
  BY <1>1, NoneAssumption DEF IInv, EvidenceInHand, Writing, Backups
<1>3. backup' = backup
  BY <1>1, BackupKept DEF RestoreSteps
<1>4. DeviceTypeOK
  BY DEF IInv, TypeOK
<1>5. pc \in {"rReboot", "rRead", "rFinalRead"} /\ link => board = backup.unit
  BY DEF RightBoard, Proven, RestoreSteps
<1>6. CASE pc = "rReboot" /\ pc' = "rRecRebooted" /\ link /\ Restart
  BY <1>3, <1>4, <1>5, <1>6 DEF Restart, InSync, DeviceTypeOK
<1>7. CASE /\ pc = "rRead" /\ pc' = "rInPlace" /\ link
           /\ ram[board] = backup.plan.previous /\ UNCHANGED <<ram, eeprom>>
  <2>1. backup.plan.desired.init # backup.plan.previous.init
    BY <1>2 DEF RestoredInv, BackupTells
  <2>2. InSync \/ ram[backup.unit].init = backup.plan.desired.init
    BY <1>2, <1>7 DEF RestoredInv, Explained, Early
  <2>3. ram[backup.unit] = backup.plan.previous
    BY <1>5, <1>7
  <2> QED  BY <1>3, <1>7, <2>1, <2>2, <2>3 DEF InSync
<1>8. CASE /\ pc \in RestoreRebooted /\ UNCHANGED <<ram, eeprom>> /\ pc' # "rInPlace"
           /\ pc' = "rRecRestored" =>
                pc = "rFinalRead" /\ link /\ ram[board] = backup.plan.previous
  BY <1>3, <1>5, <1>8 DEF RestoredInv, InSync
<1>9. CASE pc' = pc /\ (Disturbed \/ UNCHANGED <<ram, eeprom>>)
  <2>1. pc \notin Stopped
    BY <1>1 DEF RestoreSteps, Stopped
  <2>2. eeprom' = eeprom \/ (Disturbed /\ eeprom'[backup.unit] = eeprom[backup.unit])
    BY <1>2, <1>4, <1>9, <2>1 DEF Disturbed, PowerCycle, Restart, Replug
  <2> QED  BY <1>2, <1>3, <1>4, <1>9, <2>2, DisturbedUnits DEF RestoredInv, InSync
<1> QED  BY <1>6, <1>7, <1>8, <1>9, RestoreRebootedFrom

LEMMA RestoredInductive ==
  ASSUME EditKinds \subseteq {"saved"}, IInv, OrderInv, RightBoard, PlanIsBacked, FreshOnly,
         RestoredInv, [Next]_vars
  PROVE  RestoredInv'
<1>1. disk \in Seq(Events) /\ TerminalIsLast
  BY DEF IInv, TypeOK, JournalTypeOK, OrderInv
<1>2. Recorded(disk, "Restored") => /\ Closed(disk) /\ pc \in Closing /\ pc # "rStart"
                                    /\ UNCHANGED <<eeprom, backup>>
  BY <1>1, TerminalCloses, ClosedIsLeftAlone DEF RestoredInv, TerminalEvents, Closing, Stopped
<1>3. (Recorded(disk, "Restored") => pc \in {"unknown"} \cup Stopped)'
  BY <1>2, ClosedIsLeftAlone, RecordsKept DEF Appends, FromStep, Closing
<1>4. (terminal = "CompletedRestored" => Recorded(disk, "Restored") /\ pc \in Stopped)'
  <2> SUFFICES ASSUME terminal' = "CompletedRestored"
               PROVE  Recorded(disk', "Restored") /\ pc' \in Stopped
    OBVIOUS
  <2>1. CASE terminal = "CompletedRestored"
    <3>1. Recorded(disk, "Restored") /\ pc \in Stopped /\ Closed(disk)
      BY <1>2, <2>1 DEF RestoredInv
    <3>2. pc' \in Stopped
      BY <3>1, Moves DEF Quiet, Appends, Resume, Decision, Stopped
    <3> QED  BY <3>1, <3>2, RecordsKept
  <2>2. CASE terminal # "CompletedRestored"
    <3>1. NewSuccess
      BY <2>2 DEF NewSuccess, Successes
    <3>2. ASSUME NEW e \in Events, Appends(e), Reports(e)
          PROVE  Recorded(disk', "Restored") /\ pc' \in Stopped
      <4>1. e = "Restored" /\ pc' = "done" /\ Appended(e)
        BY <3>2 DEF Reports
      <4> QED  BY <3>2, <4>1, AppendRecords DEF Stopped
    <3>3. CASE Closed(disk) /\ terminal' = Rebuilt(disk) /\ pc' = "done"
      <4>1. Last(disk) = "Restored"
        BY <3>3 DEF Rebuilt
      <4>2. disk # <<>> /\ Len(disk) \in DOMAIN disk
        BY <1>1, <3>3 DEF Closed
      <4>3. Recorded(disk, "Restored")
        BY <4>1, <4>2 DEF Last, Recorded
      <4> QED  BY <3>3, <4>3, RecordsKept DEF Stopped
    <3> QED  BY <3>1, <3>2, <3>3, SuccessFrom
  <2> QED  BY <2>1, <2>2
<1>5. RestoredIsPersistent'
  <2> SUFFICES ASSUME Recorded(disk', "Restored")
               PROVE  eeprom'[backup'.unit] = backup'.plan.previous
    BY <1>4 DEF RestoredIsPersistent
  <2>1. CASE Recorded(disk, "Restored")
    BY <1>2, <2>1 DEF RestoredInv, RestoredIsPersistent
  <2>2. CASE Appends("Restored")
    <3>1. pc \in {"rInPlace", "rRecRestored"} /\ eeprom' = eeprom
      BY <2>2 DEF Appends, FromStep
    <3>2. backup' = backup
      BY <3>1, BackupKept
    <3> QED  BY <3>1, <3>2 DEF RestoredInv
  <2> QED  BY <2>1, <2>2, RecordsKept
<1>6. BackupTells' /\ RestoreBegun' /\ Settled' /\ Explained'
  BY BackupTellsInductive, RestoreBegunInductive, SettledInductive, ExplainedInductive
     DEF RestoredInv
<1>7. /\ (pc \in RestoreRebooted => InSync)'
      /\ (pc \in {"rInPlace", "rRecRestored"} => eeprom[backup.unit] = backup.plan.previous)'
  BY RestoredSync DEF RestoreRebooted
<1> QED  BY <1>3, <1>4, <1>5, <1>6, <1>7 DEF RestoredInv

(* Whoever reports CompletedRestored, the EEPROM of the unit holds the        *)
(* configuration of the backup, provided other tools save what they edit:    *)
(* an edit left in RAM is what the run restored_in_ram refutes.              *)
THEOREM RestoredPersists ==
  ASSUME EditKinds \subseteq {"saved"}
  PROVE  Spec => []RestoredIsPersistent
<1>1. Init => VerifiedInv /\ RestoredInv
  <2> SUFFICES ASSUME Init PROVE VerifiedInv /\ RestoredInv
    OBVIOUS
  <2>1. VerifiedInv
    BY NoneAssumption DEF Init, JournalInit, VerifiedInv, PlanIsBacked, FreshOnly,
       TouchedFirst, VerifiedIsPersistent, Recorded, Terminals, Rebooted, ConnectSteps, ApplySteps
  <2>2. BackupTells /\ RestoreBegun /\ Settled /\ Explained
    BY DEF Init, DeviceInit, BackupTells, RestoreBegun, RestoreSteps, Settled, Explained
  <2>3. ~Recorded(disk, "Restored") /\ terminal # "CompletedRestored"
        /\ pc \notin RestoreRebooted
    BY NoneAssumption DEF Init, JournalInit, Recorded, Terminals, RestoreRebooted
  <2> QED  BY <2>1, <2>2, <2>3 DEF RestoredInv, RestoredIsPersistent, RestoreRebooted
<1>2. Init => FreshInv /\ RightBoard
  BY DEF Init, FreshInv, CleanlyFresh, FreshAbortIsClean, Writing, ApplySteps, RestoreSteps,
     RightBoard, FreshlyRead, Proven
<1>3. ASSUME IInv, OrderInv, FreshInv, RightBoard, VerifiedInv, RestoredInv, [Next]_vars
      PROVE  FreshInv' /\ RightBoard' /\ VerifiedInv' /\ RestoredInv'
  <2>1. FreshInv' /\ RightBoard' /\ VerifiedInv'
    BY <1>3, VerifiedInductive, RightBoardInductive, FreshInductive
  <2>2. PlanIsBacked /\ FreshOnly
    BY <1>3 DEF VerifiedInv
  <2>3. RestoredInv'
    BY <1>3, <2>2, RestoredInductive
  <2> QED  BY <2>1, <2>3
<1>4. RestoredInv => RestoredIsPersistent
  BY DEF RestoredInv
<1> QED  BY <1>1, <1>2, <1>3, <1>4, Inductive, Ordered, PTL DEF Spec

-----------------------------------------------------------------------------
(* Rebuilding a report.  `Matched` is recursive: that it is what its equation *)
(* says, and what it finds, is by induction, here of a set of numbers.       *)

(* Induction, of a set of numbers. *)
LEMMA SetInduction ==
  ASSUME NEW S \in SUBSET Nat, 0 \in S, \A n \in S : n + 1 \in S
  PROVE  S = Nat
<1> DEFINE R == {p \in Nat \X Nat : p[1] < p[2]}
           T == Nat \ S
<1>1. IsWellFoundedOn(R, Nat)
  <2>1. OpToRel(<, Nat) = R
    BY Zenon DEF OpToRel
  <2> QED  BY Zenon, <2>1, NatLessThanWellFounded
<1> SUFFICES ASSUME T # {}
             PROVE  FALSE
  OBVIOUS
<1>2. PICK x \in T : \A y \in T : ~(<<y, x>> \in R)
  <2>1. T \subseteq Nat
    OBVIOUS
  <2> HIDE DEF R, T
  <2> QED  BY <1>1, <2>1, WFMin
<1>3. x \in Nat /\ x # 0
  BY <1>2
<1>4. x - 1 \in Nat /\ x - 1 < x
  BY <1>3
<1>5. x - 1 \in S
  BY <1>2, <1>4
<1>6. (x - 1) + 1 = x
  BY <1>3
<1> QED  BY <1>2, <1>5, <1>6

(* One event of the greedy pass. *)
MatchedNext(events, required, m, n) ==
  IF m < Len(required) /\ required[m + 1] = events[n] THEN m + 1 ELSE m

LEMMA MatchedSteps ==
  ASSUME NEW S, NEW events \in Seq(S), NEW required \in Seq(S)
  PROVE  LET matched == Matched(events, required)
         IN  /\ matched \in [0..Len(events) -> 0..Len(required)]
             /\ matched[0] = 0
             /\ \A n \in 1..Len(events) :
                  matched[n] = MatchedNext(events, required, matched[n - 1], n)
<1> DEFINE L == Len(events)
           K == Len(required)
           Step(g) == [n \in 0..L |->
                         IF n = 0 THEN 0
                         ELSE IF g[n - 1] < K /\ required[g[n - 1] + 1] = events[n]
                              THEN g[n - 1] + 1 ELSE g[n - 1]]
           Upto(g, k) == /\ g[0] = 0
                         /\ \A n \in 1..k : g[n] = MatchedNext(events, required, g[n - 1], n)
           P == {k \in Nat : k <= L => \E g \in [0..L -> 0..K] : Upto(g, k)}
<1>1. L \in Nat /\ K \in Nat
  OBVIOUS
<1>2. 0 \in P
  <2> SUFFICES \E g \in [0..L -> 0..K] : Upto(g, 0)
    OBVIOUS
  <2>1. [n \in 0..L |-> 0] \in [0..L -> 0..K]
    BY <1>1
  <2>2. Upto([n \in 0..L |-> 0], 0)
    BY <1>1
  <2> HIDE DEF Upto
  <2> QED  BY <2>1, <2>2
<1>3. ASSUME NEW k \in Nat, k + 1 <= L, NEW g \in [0..L -> 0..K], Upto(g, k)
      PROVE  \E h \in [0..L -> 0..K] : Upto(h, k + 1)
  <2> DEFINE h == [g EXCEPT ![k + 1] = MatchedNext(events, required, g[k], k + 1)]
  <2>2. k \in 0..L /\ k + 1 \in 0..L
    BY <1>1, <1>3
  <2>3. MatchedNext(events, required, g[k], k + 1) \in 0..K
    BY <1>1, <2>2 DEF MatchedNext
  <2>4. h \in [0..L -> 0..K]
    BY <2>3
  <2>5. \A n \in 0..L : h[n] = IF n = k + 1 THEN MatchedNext(events, required, g[k], k + 1)
                               ELSE g[n]
    OBVIOUS
  <2>6. Upto(h, k + 1)
    <3>1. h[0] = 0
      BY <1>3, <2>2, <2>5
    <3>2. ASSUME NEW n \in 1..(k + 1)
          PROVE  h[n] = MatchedNext(events, required, h[n - 1], n)
      <4>1. n \in 0..L /\ n - 1 \in 0..L /\ n - 1 # k + 1
        BY <1>1, <1>3
      <4>2. h[n - 1] = g[n - 1]
        BY <2>5, <4>1
      <4>3. CASE n = k + 1
        <5>1. n - 1 = k
          BY <4>3
        <5> HIDE DEF h
        <5> QED  BY <2>5, <4>1, <4>2, <4>3, <5>1
      <4>4. CASE n # k + 1
        <5>1. n \in 1..k
          BY <4>4
        <5>2. g[n] = MatchedNext(events, required, g[n - 1], n)
          BY <1>3, <5>1
        <5> HIDE DEF h
        <5> QED  BY <2>5, <4>1, <4>2, <4>4, <5>2
      <4> QED  BY <4>3, <4>4
    <3> HIDE DEF h
    <3> QED  BY <3>1, <3>2
  <2> HIDE DEF h, Upto
  <2> QED  BY <2>4, <2>6
<1>4. ASSUME NEW k \in P
       PROVE  k + 1 \in P
  <2> HIDE DEF Upto
  <2> QED  BY <1>1, <1>3
<1>5. L \in P
  <2>1. P \in SUBSET Nat
    OBVIOUS
  <2>2. P = Nat
    <3> HIDE DEF P
    <3> QED  BY <1>2, <1>4, <2>1, SetInduction
  <2> HIDE DEF P
  <2> QED  BY <1>1, <2>2
<1>6. PICK f \in [0..L -> 0..K] : Upto(f, L)
  BY <1>1, <1>5
<1>7. f = Step(f)
  <2>1. \A n \in 0..L : f[n] = Step(f)[n]
    BY <1>1, <1>6 DEF MatchedNext
  <2>2. Step(f) = [n \in 0..L |-> Step(f)[n]] /\ f = [n \in 0..L |-> f[n]]
    OBVIOUS
  <2> HIDE DEF Step
  <2> QED  BY <2>1, <2>2
<1> DEFINE m == CHOOSE g : g = Step(g)
<1>8. m = Step(m)
  <2> HIDE DEF Step
  <2> QED  BY <1>7
<1>9. Matched(events, required) = m
  BY DEF Matched
<1>10. m \in [0..L -> 0..K]
  <2> DEFINE Q == {k \in Nat : k <= L => m[k] \in 0..K}
  <2>1. 0 \in Q
    <3> HIDE DEF m
    <3> QED  BY <1>1, <1>8
  <2>2. ASSUME NEW k \in Q
        PROVE  k + 1 \in Q
    <3> SUFFICES ASSUME k + 1 <= L
                 PROVE  m[k + 1] \in 0..K
      OBVIOUS
    <3>1. m[k] \in 0..K /\ k + 1 \in 0..L /\ (k + 1) - 1 = k /\ k + 1 # 0
      BY <1>1
    <3>2. m[k + 1] = IF m[k] < K /\ required[m[k] + 1] = events[k + 1]
                     THEN m[k] + 1 ELSE m[k]
      <4> HIDE DEF m
      <4> QED  BY <1>8, <3>1
    <3> HIDE DEF m
    <3> QED  BY <1>1, <3>1, <3>2
  <2>3. Q = Nat
    <3>1. Q \in SUBSET Nat
      OBVIOUS
    <3> HIDE DEF Q
    <3> QED  BY <2>1, <2>2, <3>1, SetInduction
  <2>4. \A k \in 0..L : m[k] \in 0..K
    <3> HIDE DEF m
    <3> QED  BY <1>1, <2>3
  <2>5. m = [n \in 0..L |-> m[n]]
    <3> HIDE DEF m
    <3> QED  BY <1>8
  <2> HIDE DEF m
  <2> QED  BY <2>4, <2>5
<1>11. m[0] = 0
  <2> HIDE DEF m
  <2> QED  BY <1>1, <1>8
<1>12. ASSUME NEW n \in 1..L
       PROVE  m[n] = MatchedNext(events, required, m[n - 1], n)
  <2> HIDE DEF m
  <2>1. n \in 0..L /\ n # 0
    BY <1>1
  <2> QED  BY <1>8, <2>1 DEF MatchedNext
<1> HIDE DEF m
<1> QED  BY <1>9, <1>10, <1>11, <1>12

(* The greedy pass finds a subsequence wherever there is one. *)
LEMMA GreedyFinds ==
  ASSUME NEW S, NEW events \in Seq(S), NEW required \in Seq(S),
         NEW f \in [1..Len(required) -> 1..Len(events)],
         \A i, j \in 1..Len(required) : i < j => f[i] < f[j],
         \A i \in 1..Len(required) : events[f[i]] = required[i]
  PROVE  ContainsSubsequence(events, required)
<1> DEFINE L == Len(events)
           K == Len(required)
           m == Matched(events, required)
           P == {n \in Nat : n <= L => \A i \in 1..K : f[i] <= n => i <= m[n]}
<1>1. L \in Nat /\ K \in Nat
  OBVIOUS
<1>2. /\ m \in [0..L -> 0..K]
      /\ \A n \in 1..L : m[n] = MatchedNext(events, required, m[n - 1], n)
  BY MatchedSteps
<1> HIDE DEF m
<1>3. 0 \in P
  BY <1>1
<1>4. ASSUME NEW n \in P
      PROVE  n + 1 \in P
  <2> SUFFICES ASSUME n + 1 <= L, NEW i \in 1..K, f[i] <= n + 1
               PROVE  i <= m[n + 1]
    OBVIOUS
  <2>1. n \in 0..L /\ n + 1 \in 1..L /\ (n + 1) - 1 = n
    BY <1>1
  <2>2. m[n] \in 0..K /\ m[n + 1] = MatchedNext(events, required, m[n], n + 1)
    BY <1>2, <2>1
  <2>3. \A k \in 1..K : f[k] <= n => k <= m[n]
    BY <2>1
  <2>4. CASE f[i] <= n
    BY <1>1, <2>2, <2>3, <2>4 DEF MatchedNext
  <2>5. CASE f[i] = n + 1
    <3>1. i - 1 <= m[n]
      <4>1. CASE i = 1
        BY <2>2, <4>1
      <4>2. CASE i # 1
        <5>1. i - 1 \in 1..K /\ i - 1 < i
          BY <1>1, <4>2
        <5>2. f[i - 1] < f[i]
          BY <5>1
        <5>3. n \in Nat
          OBVIOUS
        <5>4. f[i - 1] \in 1..L
          BY <5>1
        <5>5. f[i - 1] <= n
          BY <1>1, <2>5, <5>2, <5>3, <5>4
        <5> QED  BY <2>3, <5>1, <5>5
      <4> QED  BY <4>1, <4>2
    <3>2. CASE m[n] = i - 1
      <4>1. required[m[n] + 1] = events[n + 1] /\ m[n] < K
        BY <1>1, <2>5, <3>2
      <4> QED  BY <2>2, <3>2, <4>1 DEF MatchedNext
    <3>3. CASE m[n] # i - 1
      BY <1>1, <2>2, <3>1, <3>3 DEF MatchedNext
    <3> QED  BY <3>2, <3>3
  <2>6. f[i] \in 1..L
    OBVIOUS
  <2> QED  BY <1>1, <2>4, <2>5, <2>6
<1>5. L \in P
  <2>1. P \in SUBSET Nat
    OBVIOUS
  <2>2. P = Nat
    <3> HIDE DEF P
    <3> QED  BY <1>3, <1>4, <2>1, SetInduction
  <2> HIDE DEF P
  <2> QED  BY <1>1, <2>2
<1>6. m[L] \in 0..K
  BY <1>1, <1>2
<1>7. K <= m[L]
  <2>1. CASE K = 0
    BY <1>6, <2>1
  <2>2. CASE K # 0
    <3>1. K \in 1..K /\ f[K] <= L
      BY <1>1, <2>2
    <3> QED  BY <1>1, <1>5, <3>1
  <2> QED  BY <2>1, <2>2
<1> QED  BY <1>1, <1>6, <1>7 DEF ContainsSubsequence, m

-----------------------------------------------------------------------------
(* What a fresh run has recorded.  It goes along one chain, and from each    *)
(* point of the apply path, nowhere else, may turn into the restore: so the  *)
(* journal at each pc is known up to where it turned.                       *)

(* From j on, s is the first k records of a chain. *)
Holds(s, j, chain, k) == Len(s) = j + k /\ \A i \in 1..k : s[j + i] = chain[i]

LEMMA ChainTypes ==
  /\ VerifiedChain \in Seq(Events) /\ Len(VerifiedChain) = 13
  /\ NoOpChain \in Seq(Events) /\ Len(NoOpChain) = 4
  /\ RestoredChain \in Seq(Events) /\ Len(RestoredChain) = 6
  /\ RestoreWriteChain \in Seq(Events) /\ Len(RestoreWriteChain) = 9
<1>1. {"Started", "IdentityRead", "SnapshotRead", "BackedUp", "AheadSet",
       "SetApplied", "ReReadBeforeSave", "AheadSave", "Saved", "AheadReboot",
       "Rebooted", "Reconnected", "Verified", "RecoveryStarted", "AheadRestoreSet",
       "AheadRestoreSave", "Restored"} \subseteq Events
  BY DEF Events, WriteAheads
<1>2. VerifiedChain \in Seq(Events) /\ Len(VerifiedChain) = 13
  BY <1>1 DEF VerifiedChain
<1>3. NoOpChain \in Seq(Events) /\ Len(NoOpChain) = 4
  BY <1>1 DEF NoOpChain
<1>4. RestoredChain \in Seq(Events) /\ Len(RestoredChain) = 6
  BY <1>1 DEF RestoredChain
<1>5. RestoreWriteChain \in Seq(Events) /\ Len(RestoreWriteChain) = 9
  BY <1>1 DEF RestoreWriteChain
<1> QED  BY <1>2, <1>3, <1>4, <1>5

LEMMA NoOpRebuilds ==
  ASSUME NEW s \in Seq(Events), Holds(s, 0, NoOpChain, 4)
  PROVE  Rebuilt(s) = "NoOpVerified"
<1>1. Len(s) = 4 /\ \A i \in 1..4 : s[i] = NoOpChain[i]
  BY DEF Holds
<1>2. ContainsSubsequence(s, NoOpChain)
  <2> DEFINE f == [i \in 1..4 |-> i]
  <2>1. f \in [1..4 -> 1..4] /\ (\A i, j \in 1..4 : i < j => f[i] < f[j])
        /\ (\A i \in 1..4 : s[f[i]] = NoOpChain[i])
    BY <1>1
  <2> HIDE DEF f
  <2> QED  BY <1>1, <2>1, ChainTypes, GreedyFinds, ZenonT(40)
<1>3. ~Recorded(s, "SetApplied")
  BY <1>1 DEF Recorded, NoOpChain
<1>4. Last(s) = "Verified"
  BY <1>1 DEF Last, NoOpChain
<1> QED  BY <1>2, <1>3, <1>4, ZenonT(40) DEF Rebuilt

LEMMA VerifiedRebuilds ==
  ASSUME NEW s \in Seq(Events), Holds(s, 0, VerifiedChain, 13)
  PROVE  Rebuilt(s) = "CompletedVerified"
<1>1. Len(s) = 13 /\ \A i \in 1..13 : s[i] = VerifiedChain[i]
  BY DEF Holds
<1>2. ContainsSubsequence(s, VerifiedChain)
  <2> DEFINE f == [i \in 1..13 |-> i]
  <2>1. f \in [1..13 -> 1..13] /\ (\A i, j \in 1..13 : i < j => f[i] < f[j])
        /\ (\A i \in 1..13 : s[f[i]] = VerifiedChain[i])
    BY <1>1
  <2> HIDE DEF f
  <2> QED  BY <1>1, <2>1, ChainTypes, GreedyFinds, ZenonT(40)
<1>3. Recorded(s, "SetApplied")
  <2>1. s[6] = "SetApplied" /\ 6 \in DOMAIN s
    BY <1>1 DEF VerifiedChain
  <2> QED  BY <2>1 DEF Recorded
<1>4. Last(s) = "Verified"
  BY <1>1 DEF Last, VerifiedChain
<1> QED  BY <1>2, <1>3, <1>4, ZenonT(40) DEF Rebuilt

(* A case that was backed up and then restored, in place or by writing. *)
BegunAs(s) == \A i \in 1..4 : s[i] = VerifiedChain[i]

LEMMA RestoredRebuilds ==
  ASSUME NEW s \in Seq(Events), NEW j \in Nat, j >= 4, BegunAs(s),
         \/ Holds(s, j, <<"RecoveryStarted", "Restored">>, 2)
         \/ Holds(s, j, RestoreWriteChain, 9)
  PROVE  Rebuilt(s) = "CompletedRestored"
<1> DEFINE k == Len(s)
<1>1. k \in Nat /\ j + 2 <= k /\ s[j + 1] = "RecoveryStarted" /\ s[k] = "Restored"
  BY DEF Holds, RestoreWriteChain
<1>2. ContainsSubsequence(s, RestoredChain)
  <2> DEFINE f == [i \in 1..6 |-> IF i < 5 THEN i ELSE IF i = 5 THEN j + 1 ELSE k]
  <2>1. f \in [1..6 -> 1..k] /\ (\A i, l \in 1..6 : i < l => f[i] < f[l])
    BY <1>1
  <2>2. \A i \in 1..6 : s[f[i]] = RestoredChain[i]
    <3>1. \A i \in 1..4 : s[f[i]] = RestoredChain[i]
      BY DEF BegunAs, VerifiedChain, RestoredChain
    <3>2. s[f[5]] = RestoredChain[5]
      BY <1>1 DEF RestoredChain
    <3>3. s[f[6]] = RestoredChain[6]
      BY <1>1 DEF RestoredChain
    <3> HIDE DEF f
    <3> QED  BY <3>1, <3>2, <3>3
  <2> HIDE DEF f
  <2>3. /\ f \in [1..Len(RestoredChain) -> 1..Len(s)]
        /\ \A i, l \in 1..Len(RestoredChain) : i < l => f[i] < f[l]
        /\ \A i \in 1..Len(RestoredChain) : s[f[i]] = RestoredChain[i]
    BY <2>1, <2>2, ChainTypes
  <2> QED  BY <2>3, ChainTypes, GreedyFinds
<1>3. RecoveryWrote(s) => ContainsSubsequence(s, RestoreWriteChain)
  <2>1. CASE Holds(s, j, <<"RecoveryStarted", "Restored">>, 2)
    <3>1. k = j + 2
      BY <2>1 DEF Holds
    <3>2. ~RecoveryWrote(s)
      <4> SUFFICES ASSUME NEW i \in DOMAIN s, s[i] \in WriteAheads,
                          \A l \in i..Len(s) : s[l] # "RecoveryStarted"
                   PROVE  FALSE
        BY DEF RecoveryWrote
      <4>1. i \in 1..k
        OBVIOUS
      <4>2. i > j + 1
        BY <1>1, <3>1, <4>1
      <4>3. i = k
        BY <1>1, <3>1, <4>1, <4>2
      <4>4. s[k] \in WriteAheads
        BY <4>3
      <4> QED  BY <1>1, <4>4 DEF WriteAheads
    <3> QED  BY <3>2
  <2>2. CASE Holds(s, j, RestoreWriteChain, 9)
    <3> DEFINE f == [i \in 1..9 |-> j + i]
    <3>1. k = j + 9 /\ \A i \in 1..9 : s[j + i] = RestoreWriteChain[i]
      BY <2>2 DEF Holds
    <3>2. f \in [1..9 -> 1..k] /\ (\A i, l \in 1..9 : i < l => f[i] < f[l])
          /\ \A i \in 1..9 : s[f[i]] = RestoreWriteChain[i]
      BY <3>1
    <3> HIDE DEF f
    <3> QED  BY <3>2, ChainTypes, GreedyFinds
  <2> QED  BY <2>1, <2>2
<1>4. Last(s) = "Restored"
  BY <1>1 DEF Last
<1> QED  BY <1>2, <1>3, <1>4, ZenonT(40) DEF Rebuilt

(* The journal at each pc: one chain, and the restore begun on it.           *)
JournalSoFar ==
  LET at(k, steps) == pc \in steps => Holds(journal, 0, VerifiedChain, k)
      back(k, steps) ==
        pc \in steps => \E j \in 4..12 : Holds(journal, j, RestoreWriteChain, k)
  IN  /\ at(0, {"recStarted"})
      /\ at(1, {"open", "identify", "recIdentity"})
      /\ at(2, {"readSnapshot", "recSnapshot"})
      /\ at(3, {"verifyNoop", "recNoop", "recBackedUp"})
      /\ at(4, {"aheadSet"})
      /\ at(5, {"set", "recSet"})
      /\ at(6, {"reread", "recReread"})
      /\ at(7, {"aheadSave"})
      /\ at(8, {"save", "recSaved"})
      /\ at(9, {"aheadReboot"})
      /\ at(10, {"reboot", "recRebooted"})
      /\ at(11, {"reopen", "recReconnected"})
      /\ at(12, {"reidentify", "verifyRead", "recVerified"})
      /\ back(0, {"rStart"})
      /\ back(1, {"rIdentify", "rRead", "rInPlace", "rAheadSet"})
      /\ back(2, {"rSet", "rRecSet"})
      /\ back(3, {"rReread", "rRecReread"})
      /\ back(4, {"rAheadSave"})
      /\ back(5, {"rSave", "rRecSaved"})
      /\ back(6, {"rAheadReboot"})
      /\ back(7, {"rReboot", "rRecRebooted"})
      /\ back(8, {"rReopen", "rReidentify", "rFinalRead", "rRecRestored"})

(* What is known of a fresh run's journal. That nothing follows its closing   *)
(* record is only known of a run that has not stopped.                       *)
RebuildInv ==
  mode = "fresh" =>
    /\ JournalSoFar
    /\ pc \in RestoreSteps => BegunAs(journal)
    /\ pc \notin Stopped => ~Closed(journal)
    /\ FreshReportRebuilds

(* How an append lengthens what is there. *)
LEMMA Grows ==
  ASSUME journal \in Seq(Events), NEW e \in Events, Appended(e)
  PROVE  /\ journal' \in Seq(Events)
         /\ e \notin TerminalEvents => ~Closed(journal')
         /\ \A j, k \in Nat : \A chain :
              Holds(journal, j, chain, k) /\ chain[k + 1] = e
                => Holds(journal', j, chain, k + 1)
         /\ Len(journal) >= 4 /\ BegunAs(journal) => BegunAs(journal')
<1>1. journal' = Append(journal, e)
  BY DEF Appended
<1>2. /\ journal' \in Seq(Events) /\ Len(journal') = Len(journal) + 1
      /\ \A i \in 1..Len(journal) : journal'[i] = journal[i]
      /\ journal'[Len(journal) + 1] = e
  BY <1>1
<1>3. ASSUME NEW j \in Nat, NEW k \in Nat, NEW chain, Holds(journal, j, chain, k),
             chain[k + 1] = e
      PROVE  Holds(journal', j, chain, k + 1)
  <2>1. Len(journal) = j + k /\ Len(journal') = j + (k + 1)
    BY <1>2, <1>3 DEF Holds
  <2>2. ASSUME NEW i \in 1..(k + 1)
        PROVE  journal'[j + i] = chain[i]
    <3>1. CASE i = k + 1
      BY <1>2, <1>3, <2>1, <3>1
    <3>2. CASE i # k + 1
      <4>1. i \in 1..k /\ j + i \in 1..Len(journal)
        BY <2>1, <3>2
      <4> QED  BY <1>2, <1>3, <4>1 DEF Holds
    <3> QED  BY <3>1, <3>2
  <2> QED  BY <2>1, <2>2 DEF Holds
<1>4. e \notin TerminalEvents => ~Closed(journal')
  BY <1>2 DEF Closed, Last
<1>5. Len(journal) >= 4 /\ BegunAs(journal) => BegunAs(journal')
  <2> SUFFICES ASSUME Len(journal) >= 4, BegunAs(journal), NEW i \in 1..4
               PROVE  journal'[i] = VerifiedChain[i]
    BY DEF BegunAs
  <2>1. i \in 1..Len(journal)
    OBVIOUS
  <2> QED  BY <1>2, <2>1 DEF BegunAs
<1> QED  BY <1>2, <1>3, <1>4, <1>5

(* The ways a fresh run goes on. *)
Kept == UNCHANGED <<journal, mode, terminal>>
Goes(there) == Kept /\ pc' = there
GivesUp == UNCHANGED <<journal, mode>> /\ pc' \in {"unknown", "done"}
Records(e, there) == Appended(e) /\ mode' = mode /\ pc' = there

LEMMA ConnectPath ==
  ASSUME mode = "fresh", CleanlyFresh, Connect
  PROVE  \/ GivesUp
         \/ pc = "recStarted" /\ Records("Started", "open")
         \/ pc = "open" /\ Goes("identify")
         \/ pc = "identify" /\ Goes("recIdentity")
         \/ pc = "recIdentity" /\ Records("IdentityRead", "readSnapshot")
         \/ pc = "recIdentity" /\ Records("IdentityRead", "done")
         \/ pc = "readSnapshot" /\ Goes("recSnapshot")
         \/ pc = "recSnapshot" /\ Records("SnapshotRead", "verifyNoop")
         \/ pc = "recSnapshot" /\ Records("SnapshotRead", "recBackedUp")
         \/ pc = "verifyNoop" /\ Goes("recNoop")
         \/ pc = "recNoop" /\ Records("Verified", "done") /\ terminal' = "NoOpVerified"
         \/ pc = "recBackedUp" /\ Records("BackedUp", "aheadSet")
<1> USE DEF GivesUp, Goes, Kept, Records, GoTo, Finish, Abort, Disconnect, JournalFailure,
            FailConnecting, CleanlyFresh, ConnectSteps, AppendFailed, caseVars
<1>1. CASE RecordStarted \/ RecordBackedUp
  BY <1>1 DEF RecordStarted, RecordBackedUp, Record
<1>2. CASE RecordIdentity
  BY <1>2 DEF RecordIdentity, Record
<1>3. CASE OpenTransport \/ Identify \/ VerifyNoOp \/ ReadSnapshot
  BY <1>3 DEF OpenTransport, Identify, VerifyNoOp, ReadSnapshot, Exchanging, Opened, journalVars
<1>4. CASE RecordSnapshot \/ RecordNoOp
  BY <1>4 DEF RecordSnapshot, RecordNoOp
<1> QED  BY <1>1, <1>2, <1>3, <1>4 DEF Connect

(* A failure of the apply path. *)
FallsBack ==
  pc \in ApplySteps /\ UNCHANGED <<journal, mode>> /\ pc' \in {"unknown", "done", "rStart"}

LEMMA ApplyPath ==
  ASSUME mode = "fresh", CleanlyFresh, Apply
  PROVE  \/ FallsBack
         \/ pc = "aheadSet" /\ Records("AheadSet", "set")
         \/ pc = "set" /\ Goes("recSet")
         \/ pc = "recSet" /\ Records("SetApplied", "reread")
         \/ pc = "reread" /\ Goes("recReread")
         \/ pc = "recReread" /\ Records("ReReadBeforeSave", "aheadSave")
         \/ pc = "aheadSave" /\ Records("AheadSave", "save")
         \/ pc = "save" /\ Goes("recSaved")
         \/ pc = "recSaved" /\ Records("Saved", "aheadReboot")
         \/ pc = "aheadReboot" /\ Records("AheadReboot", "reboot")
         \/ pc = "reboot" /\ Goes("recRebooted")
         \/ pc = "recRebooted" /\ Records("Rebooted", "reopen")
         \/ pc = "reopen" /\ Goes("recReconnected")
         \/ pc = "recReconnected" /\ Records("Reconnected", "reidentify")
         \/ pc = "reidentify" /\ Goes("verifyRead")
         \/ pc = "verifyRead" /\ Goes("recVerified")
         \/ /\ pc = "recVerified" /\ Records("Verified", "done")
            /\ terminal' = "CompletedVerified"
<1> USE DEF FallsBack, Goes, Kept, Records, GoTo, Finish, Abort, Disconnect, Recover,
            JournalFailure, ApplySteps, AppendFailed, caseVars
<1>1. CASE RecordAheadSet \/ RecordAheadSave \/ RecordAheadReboot
  BY <1>1 DEF RecordAheadSet, RecordAheadSave, RecordAheadReboot, RecordAhead
<1>2. CASE SendSet \/ SendSave \/ SendReboot
  BY <1>2 DEF SendSet, SendSave, SendReboot, Write, journalVars
<1>3. CASE RecordSet \/ RecordReRead \/ RecordSaved \/ RecordReconnected
  BY <1>3 DEF RecordSet, RecordReRead, RecordSaved, RecordReconnected, Record
<1>4. CASE RecordRebooted \/ RecordVerified
  BY <1>4 DEF RecordRebooted, RecordVerified
<1>5. CASE ReRead \/ Reopened \/ ReIdentify \/ VerifyRead
  BY <1>5 DEF ReRead, Reopened, ReIdentify, VerifyRead, Exchanging, Opened, journalVars
<1> QED  BY <1>1, <1>2, <1>3, <1>4, <1>5 DEF Apply

LEMMA RestorePath ==
  ASSUME Restore \/ DeclareUnknown
  PROVE  \/ pc \in RestoreSteps /\ UNCHANGED <<journal, mode>> /\ pc' = "unknown"
         \/ pc = "rStart" /\ Records("RecoveryStarted", "rIdentify")
         \/ pc = "rIdentify" /\ Goes("rRead")
         \/ pc = "rRead" /\ (Goes("rInPlace") \/ Goes("rAheadSet"))
         \/ pc = "rAheadSet" /\ Records("AheadRestoreSet", "rSet")
         \/ pc = "rSet" /\ Goes("rRecSet")
         \/ pc = "rRecSet" /\ Records("SetApplied", "rReread")
         \/ pc = "rReread" /\ Goes("rRecReread")
         \/ pc = "rRecReread" /\ Records("ReReadBeforeSave", "rAheadSave")
         \/ pc = "rAheadSave" /\ Records("AheadRestoreSave", "rSave")
         \/ pc = "rSave" /\ Goes("rRecSaved")
         \/ pc = "rRecSaved" /\ Records("Saved", "rAheadReboot")
         \/ pc = "rAheadReboot" /\ Records("AheadReboot", "rReboot")
         \/ pc = "rReboot" /\ Goes("rRecRebooted")
         \/ pc = "rRecRebooted" /\ Records("Rebooted", "rReopen")
         \/ pc = "rReopen" /\ Goes("rReidentify")
         \/ pc = "rReidentify" /\ Goes("rFinalRead")
         \/ pc = "rFinalRead" /\ Goes("rRecRestored")
         \/ /\ pc \in {"rInPlace", "rRecRestored"} /\ Records("Restored", "done")
            /\ terminal' = "CompletedRestored"
         \/ /\ pc = "unknown" /\ mode' = mode /\ pc' = "done"
            /\ terminal' = "StateUnknownRecoveryRequired"
            /\ Appended("StateUnknown") \/ UNCHANGED journal
<1> USE DEF Goes, Kept, Records, GoTo, Finish, RestoreFails, AppendFailed, caseVars,
            RestoreSteps
<1>1. CASE RestoreStart \/ RestoreAheadSet \/ RestoreRecordSet \/ RestoreRecordReRead
           \/ RestoreAheadSave \/ RestoreRecordSaved \/ RestoreAheadReboot
           \/ RestoreRecordRebooted
  BY <1>1 DEF RestoreStart, RestoreAheadSet, RestoreRecordSet, RestoreRecordReRead,
     RestoreAheadSave, RestoreRecordSaved, RestoreAheadReboot, RestoreRecordRebooted,
     RestoreRecord
<1>2. CASE RestoreSet \/ RestoreSave \/ RestoreReboot
  BY <1>2 DEF RestoreSet, RestoreSave, RestoreReboot, Write, journalVars
<1>3. CASE RestoreIdentify \/ RestoreRead \/ RestoreReRead \/ RestoreReopen
           \/ RestoreReIdentify \/ RestoreFinalRead
  BY <1>3 DEF RestoreIdentify, RestoreRead, RestoreReRead, RestoreReopen,
     RestoreReIdentify, RestoreFinalRead, Exchanging, Opened, journalVars
<1>4. CASE RestoreInPlace \/ RestoreVerified \/ DeclareUnknown
  BY <1>4 DEF RestoreInPlace, RestoreVerified, RecordRestored, DeclareUnknown, TryAppend
<1> QED  BY <1>1, <1>2, <1>3, <1>4 DEF Restore

(* The records of the two chains, by their places. *)
LEMMA ChainRecords ==
  /\ VerifiedChain[1] = "Started" /\ VerifiedChain[2] = "IdentityRead"
  /\ VerifiedChain[3] = "SnapshotRead" /\ VerifiedChain[4] = "BackedUp"
  /\ VerifiedChain[5] = "AheadSet" /\ VerifiedChain[6] = "SetApplied"
  /\ VerifiedChain[7] = "ReReadBeforeSave" /\ VerifiedChain[8] = "AheadSave"
  /\ VerifiedChain[9] = "Saved" /\ VerifiedChain[10] = "AheadReboot"
  /\ VerifiedChain[11] = "Rebooted" /\ VerifiedChain[12] = "Reconnected"
  /\ VerifiedChain[13] = "Verified"
  /\ RestoreWriteChain[1] = "RecoveryStarted" /\ RestoreWriteChain[2] = "AheadRestoreSet"
  /\ RestoreWriteChain[3] = "SetApplied" /\ RestoreWriteChain[4] = "ReReadBeforeSave"
  /\ RestoreWriteChain[5] = "AheadRestoreSave" /\ RestoreWriteChain[6] = "Saved"
  /\ RestoreWriteChain[7] = "AheadReboot" /\ RestoreWriteChain[8] = "Rebooted"
  /\ RestoreWriteChain[9] = "Restored"
BY DEF VerifiedChain, RestoreWriteChain

(* One record more, in the run so far or in its restore. *)
LEMMA NextRecord ==
  ASSUME journal \in Seq(Events), NEW e \in Events, Appended(e), NEW k \in Nat
  PROVE  /\ Holds(journal, 0, VerifiedChain, k) /\ VerifiedChain[k + 1] = e
              => Holds(journal', 0, VerifiedChain, k + 1)
         /\ (\E j \in 4..12 : Holds(journal, j, RestoreWriteChain, k))
            /\ RestoreWriteChain[k + 1] = e /\ BegunAs(journal)
              => /\ \E j \in 4..12 : Holds(journal', j, RestoreWriteChain, k + 1)
                 /\ BegunAs(journal')
         /\ e \notin TerminalEvents => ~Closed(journal')
<1>1. Holds(journal, 0, VerifiedChain, k) /\ VerifiedChain[k + 1] = e
        => Holds(journal', 0, VerifiedChain, k + 1)
  BY Grows
<1>2. ASSUME NEW j \in 4..12, Holds(journal, j, RestoreWriteChain, k),
             RestoreWriteChain[k + 1] = e, BegunAs(journal)
      PROVE  Holds(journal', j, RestoreWriteChain, k + 1) /\ BegunAs(journal')
  <2>1. Len(journal) >= 4 /\ j \in Nat
    BY <1>2 DEF Holds
  <2> QED  BY <1>2, <2>1, Grows
<1>3. e \notin TerminalEvents => ~Closed(journal')
  BY Grows
<1> QED  BY <1>1, <1>2, <1>3

LEMMA StopsFollow ==
  ASSUME RebuildInv, mode = "fresh", GivesUp, pc \notin Stopped
  PROVE  RebuildInv'
BY DEF RebuildInv, JournalSoFar, GivesUp, RestoreSteps, Stopped, FreshReportRebuilds, Closed

LEMMA ConnectFollows ==
  ASSUME IInv, CleanlyFresh, RebuildInv, mode = "fresh", Connect
  PROVE  RebuildInv'
<1> USE DEF RebuildInv, JournalSoFar, RestoreSteps, Stopped, Records
<1>1. journal \in Seq(Events)
  BY DEF IInv, TypeOK, JournalTypeOK
<1>2. pc \in ConnectSteps /\ ConnectSteps \cap Stopped = {}
  BY DEF Connect, ConnectSteps, RecordStarted, OpenTransport, Identify, RecordIdentity,
     ReadSnapshot, RecordSnapshot, VerifyNoOp, RecordNoOp, RecordBackedUp, Record, Exchanging
<1>0. {"Started", "IdentityRead", "SnapshotRead", "BackedUp"} \subseteq Events \ TerminalEvents
  BY DEF Events, TerminalEvents
<1>3. CASE GivesUp
  BY <1>2, <1>3, StopsFollow
<1>4. CASE pc = "recStarted" /\ Records("Started", "open")
  <2>1. Holds(journal', 0, VerifiedChain, 0 + 1) /\ ~Closed(journal')
    BY <1>0, <1>1, <1>4, NextRecord, ChainRecords
  <2> QED  BY <1>4, <2>1 DEF FreshReportRebuilds
<1>5. CASE pc = "recIdentity" /\ Records("IdentityRead", "readSnapshot")
  <2>1. Holds(journal', 0, VerifiedChain, 1 + 1) /\ ~Closed(journal')
    BY <1>0, <1>1, <1>5, NextRecord, ChainRecords
  <2> QED  BY <1>5, <2>1 DEF FreshReportRebuilds
<1>6. CASE pc = "recIdentity" /\ Records("IdentityRead", "done")
  <2>1. ~Closed(journal')
    BY <1>0, <1>1, <1>6, NextRecord
  <2> QED  BY <1>6, <2>1 DEF FreshReportRebuilds, Closed
<1>7. CASE pc = "recSnapshot" /\ (Records("SnapshotRead", "verifyNoop")
                                  \/ Records("SnapshotRead", "recBackedUp"))
  <2>1. Holds(journal', 0, VerifiedChain, 2 + 1) /\ ~Closed(journal')
    BY <1>0, <1>1, <1>7, NextRecord, ChainRecords
  <2> QED  BY <1>7, <2>1 DEF FreshReportRebuilds
<1>8. CASE pc = "recBackedUp" /\ Records("BackedUp", "aheadSet")
  <2>1. Holds(journal', 0, VerifiedChain, 3 + 1) /\ ~Closed(journal')
    BY <1>0, <1>1, <1>8, NextRecord, ChainRecords
  <2> QED  BY <1>8, <2>1 DEF FreshReportRebuilds
<1>9. CASE \/ pc = "open" /\ Goes("identify")
           \/ pc = "identify" /\ Goes("recIdentity")
           \/ pc = "readSnapshot" /\ Goes("recSnapshot")
           \/ pc = "verifyNoop" /\ Goes("recNoop")
  BY <1>9 DEF Goes, Kept, FreshReportRebuilds, Closed
<1>10. CASE pc = "recNoop" /\ Records("Verified", "done") /\ terminal' = "NoOpVerified"
  <2>1. Holds(journal, 0, NoOpChain, 3)
    BY <1>10, ChainRecords DEF Holds, NoOpChain
  <2>2. Holds(journal', 0, NoOpChain, 3 + 1) /\ journal' \in Seq(Events)
    <3>1. NoOpChain[3 + 1] = "Verified" /\ "Verified" \in Events
      BY DEF NoOpChain, Events
    <3> QED  BY <1>1, <1>10, <2>1, <3>1, Grows
  <2>3. Rebuilt(journal') = "NoOpVerified"
    BY <2>2, NoOpRebuilds
  <2> QED  BY <1>10, <2>3 DEF FreshReportRebuilds
<1> HIDE DEF RebuildInv, JournalSoFar, RestoreSteps, Stopped, Records
<1> QED
  BY <1>3, <1>4, <1>5, <1>6, <1>7, <1>8, <1>9, <1>10, ConnectPath

LEMMA ApplyFollows ==
  ASSUME IInv, CleanlyFresh, RebuildInv, mode = "fresh", Apply
  PROVE  RebuildInv'
<1> USE DEF RebuildInv, JournalSoFar, RestoreSteps, Stopped, Records
<1>1. journal \in Seq(Events)
  BY DEF IInv, TypeOK, JournalTypeOK
<1>2. {"AheadSet", "SetApplied", "ReReadBeforeSave", "AheadSave", "Saved", "AheadReboot",
       "Rebooted", "Reconnected"} \subseteq Events \ TerminalEvents
  BY DEF Events, WriteAheads, TerminalEvents
<1>3. CASE FallsBack
  <2>1. \E k \in 4..12 : Holds(journal, 0, VerifiedChain, k)
    BY <1>3 DEF FallsBack, ApplySteps
  <2>2. (\E k \in 4..12 : Holds(journal, k, RestoreWriteChain, 0)) /\ BegunAs(journal)
    BY <2>1 DEF Holds, BegunAs
  <2>3. ~Closed(journal)
    BY <1>3 DEF FallsBack, ApplySteps
  <2>4. \/ GivesUp
        \/ pc' = "rStart" /\ UNCHANGED <<journal, mode>>
    BY <1>3 DEF FallsBack, GivesUp
  <2>5. pc \notin Stopped
    BY <1>3 DEF FallsBack, ApplySteps
  <2>6. CASE pc' = "rStart" /\ UNCHANGED <<journal, mode>>
    BY <2>2, <2>3, <2>6 DEF FreshReportRebuilds, BegunAs, Closed
  <2> QED  BY <2>4, <2>5, <2>6, StopsFollow
<1>4. CASE pc = "aheadSet" /\ Records("AheadSet", "set")
  <2>1. Holds(journal', 0, VerifiedChain, 4 + 1) /\ ~Closed(journal')
    BY <1>1, <1>2, <1>4, NextRecord, ChainRecords
  <2> QED  BY <1>4, <2>1 DEF FreshReportRebuilds
<1>5. CASE pc = "recSet" /\ Records("SetApplied", "reread")
  <2>1. Holds(journal', 0, VerifiedChain, 5 + 1) /\ ~Closed(journal')
    BY <1>1, <1>2, <1>5, NextRecord, ChainRecords
  <2> QED  BY <1>5, <2>1 DEF FreshReportRebuilds
<1>6. CASE pc = "recReread" /\ Records("ReReadBeforeSave", "aheadSave")
  <2>1. Holds(journal', 0, VerifiedChain, 6 + 1) /\ ~Closed(journal')
    BY <1>1, <1>2, <1>6, NextRecord, ChainRecords
  <2> QED  BY <1>6, <2>1 DEF FreshReportRebuilds
<1>7. CASE pc = "aheadSave" /\ Records("AheadSave", "save")
  <2>1. Holds(journal', 0, VerifiedChain, 7 + 1) /\ ~Closed(journal')
    BY <1>1, <1>2, <1>7, NextRecord, ChainRecords
  <2> QED  BY <1>7, <2>1 DEF FreshReportRebuilds
<1>8. CASE pc = "recSaved" /\ Records("Saved", "aheadReboot")
  <2>1. Holds(journal', 0, VerifiedChain, 8 + 1) /\ ~Closed(journal')
    BY <1>1, <1>2, <1>8, NextRecord, ChainRecords
  <2> QED  BY <1>8, <2>1 DEF FreshReportRebuilds
<1>9. CASE pc = "aheadReboot" /\ Records("AheadReboot", "reboot")
  <2>1. Holds(journal', 0, VerifiedChain, 9 + 1) /\ ~Closed(journal')
    BY <1>1, <1>2, <1>9, NextRecord, ChainRecords
  <2> QED  BY <1>9, <2>1 DEF FreshReportRebuilds
<1>10. CASE pc = "recRebooted" /\ Records("Rebooted", "reopen")
  <2>1. Holds(journal', 0, VerifiedChain, 10 + 1) /\ ~Closed(journal')
    BY <1>1, <1>2, <1>10, NextRecord, ChainRecords
  <2> QED  BY <1>10, <2>1 DEF FreshReportRebuilds
<1>11. CASE pc = "recReconnected" /\ Records("Reconnected", "reidentify")
  <2>1. Holds(journal', 0, VerifiedChain, 11 + 1) /\ ~Closed(journal')
    BY <1>1, <1>2, <1>11, NextRecord, ChainRecords
  <2> QED  BY <1>11, <2>1 DEF FreshReportRebuilds
<1>12. CASE \/ pc = "set" /\ Goes("recSet")
            \/ pc = "reread" /\ Goes("recReread")
            \/ pc = "save" /\ Goes("recSaved")
            \/ pc = "reboot" /\ Goes("recRebooted")
            \/ pc = "reopen" /\ Goes("recReconnected")
            \/ pc = "reidentify" /\ Goes("verifyRead")
            \/ pc = "verifyRead" /\ Goes("recVerified")
  BY <1>12 DEF Goes, Kept, FreshReportRebuilds, Closed
<1>13. CASE pc = "recVerified" /\ Records("Verified", "done")
            /\ terminal' = "CompletedVerified"
  <2>1. Holds(journal', 0, VerifiedChain, 12 + 1) /\ journal' \in Seq(Events)
    <3>1. "Verified" \in Events
      BY DEF Events
    <3> QED  BY <1>1, <1>13, <3>1, ChainRecords, NextRecord, Grows
  <2>2. Rebuilt(journal') = "CompletedVerified"
    BY <2>1, VerifiedRebuilds
  <2> QED  BY <1>13, <2>2 DEF FreshReportRebuilds
<1> HIDE DEF RebuildInv, JournalSoFar, RestoreSteps, Stopped, Records
<1> QED
  BY <1>3, <1>4, <1>5, <1>6, <1>7, <1>8, <1>9, <1>10, <1>11, <1>12, <1>13, ApplyPath

LEMMA RestoreFollows ==
  ASSUME IInv, RebuildInv, mode = "fresh", Restore \/ DeclareUnknown
  PROVE  RebuildInv'
<1> USE DEF RebuildInv, JournalSoFar, RestoreSteps, Stopped, Records
<1>1. journal \in Seq(Events)
  BY DEF IInv, TypeOK, JournalTypeOK
<1>2. {"RecoveryStarted", "AheadRestoreSet", "SetApplied", "ReReadBeforeSave",
       "AheadRestoreSave", "Saved", "AheadReboot", "Rebooted"}
        \subseteq Events \ TerminalEvents
  BY DEF Events, WriteAheads, TerminalEvents
<1> DEFINE Back(s, k) == \E j \in 4..12 : Holds(s, j, RestoreWriteChain, k)
<1>3. CASE pc \in RestoreSteps /\ UNCHANGED <<journal, mode>> /\ pc' = "unknown"
  BY <1>3 DEF FreshReportRebuilds, Closed
<1>4. CASE pc = "rStart" /\ Records("RecoveryStarted", "rIdentify")
  <2>1. Back(journal', 0 + 1) /\ BegunAs(journal') /\ ~Closed(journal')
    BY <1>1, <1>2, <1>4, NextRecord, ChainRecords
  <2> QED  BY <1>4, <2>1 DEF FreshReportRebuilds
<1>5. CASE pc = "rAheadSet" /\ Records("AheadRestoreSet", "rSet")
  <2>1. Back(journal', 1 + 1) /\ BegunAs(journal') /\ ~Closed(journal')
    BY <1>1, <1>2, <1>5, NextRecord, ChainRecords
  <2> QED  BY <1>5, <2>1 DEF FreshReportRebuilds
<1>6. CASE pc = "rRecSet" /\ Records("SetApplied", "rReread")
  <2>1. Back(journal', 2 + 1) /\ BegunAs(journal') /\ ~Closed(journal')
    BY <1>1, <1>2, <1>6, NextRecord, ChainRecords
  <2> QED  BY <1>6, <2>1 DEF FreshReportRebuilds
<1>7. CASE pc = "rRecReread" /\ Records("ReReadBeforeSave", "rAheadSave")
  <2>1. Back(journal', 3 + 1) /\ BegunAs(journal') /\ ~Closed(journal')
    BY <1>1, <1>2, <1>7, NextRecord, ChainRecords
  <2> QED  BY <1>7, <2>1 DEF FreshReportRebuilds
<1>8. CASE pc = "rAheadSave" /\ Records("AheadRestoreSave", "rSave")
  <2>1. Back(journal', 4 + 1) /\ BegunAs(journal') /\ ~Closed(journal')
    BY <1>1, <1>2, <1>8, NextRecord, ChainRecords
  <2> QED  BY <1>8, <2>1 DEF FreshReportRebuilds
<1>9. CASE pc = "rRecSaved" /\ Records("Saved", "rAheadReboot")
  <2>1. Back(journal', 5 + 1) /\ BegunAs(journal') /\ ~Closed(journal')
    BY <1>1, <1>2, <1>9, NextRecord, ChainRecords
  <2> QED  BY <1>9, <2>1 DEF FreshReportRebuilds
<1>10. CASE pc = "rAheadReboot" /\ Records("AheadReboot", "rReboot")
  <2>1. Back(journal', 6 + 1) /\ BegunAs(journal') /\ ~Closed(journal')
    BY <1>1, <1>2, <1>10, NextRecord, ChainRecords
  <2> QED  BY <1>10, <2>1 DEF FreshReportRebuilds
<1>11. CASE pc = "rRecRebooted" /\ Records("Rebooted", "rReopen")
  <2>1. Back(journal', 7 + 1) /\ BegunAs(journal') /\ ~Closed(journal')
    BY <1>1, <1>2, <1>11, NextRecord, ChainRecords
  <2> QED  BY <1>11, <2>1 DEF FreshReportRebuilds
<1>12. CASE \/ pc = "rIdentify" /\ Goes("rRead")
            \/ pc = "rRead" /\ (Goes("rInPlace") \/ Goes("rAheadSet"))
            \/ pc = "rSet" /\ Goes("rRecSet")
            \/ pc = "rReread" /\ Goes("rRecReread")
            \/ pc = "rSave" /\ Goes("rRecSaved")
            \/ pc = "rReboot" /\ Goes("rRecRebooted")
            \/ pc = "rReopen" /\ Goes("rReidentify")
            \/ pc = "rReidentify" /\ Goes("rFinalRead")
            \/ pc = "rFinalRead" /\ Goes("rRecRestored")
  BY <1>12, SMTT(20) DEF Goes, Kept, FreshReportRebuilds, Closed, BegunAs
<1>13. CASE pc \in {"rInPlace", "rRecRestored"} /\ Records("Restored", "done")
            /\ terminal' = "CompletedRestored"
  <2> DEFINE inPlace == <<"RecoveryStarted", "Restored">>
  <2>1. "Restored" \in Events /\ inPlace[1] = "RecoveryStarted" /\ inPlace[1 + 1] = "Restored"
    BY DEF Events
  <2>2. PICK j \in 4..12 : \/ Holds(journal, j, inPlace, 1)
                           \/ Holds(journal, j, RestoreWriteChain, 8)
    <3>1. CASE pc = "rInPlace"
      <4>1. PICK j \in 4..12 : Holds(journal, j, RestoreWriteChain, 1)
        BY <1>13, <3>1
      <4>2. Holds(journal, j, inPlace, 1)
        BY <2>1, <4>1, ChainRecords DEF Holds
      <4> QED  BY <4>2
    <3>2. CASE pc = "rRecRestored"
      BY <1>13, <3>2
    <3> QED  BY <1>13, <3>1, <3>2
  <2> HIDE DEF inPlace
  <2>3. BegunAs(journal) /\ Len(journal) >= 4 /\ j \in Nat
    BY <1>13, <2>2 DEF Holds
  <2>4. journal' \in Seq(Events) /\ BegunAs(journal')
    BY <1>1, <1>13, <2>1, <2>3, Grows
  <2>5. Holds(journal', j, inPlace, 1 + 1) \/ Holds(journal', j, RestoreWriteChain, 8 + 1)
    BY <1>1, <1>13, <2>1, <2>2, <2>3, Grows, ChainRecords
  <2>6. Rebuilt(journal') = "CompletedRestored"
    BY <2>3, <2>4, <2>5, RestoredRebuilds DEF inPlace
  <2> QED  BY <1>13, <2>6 DEF FreshReportRebuilds
<1>14. CASE /\ pc = "unknown" /\ mode' = mode /\ pc' = "done"
            /\ terminal' = "StateUnknownRecoveryRequired"
            /\ Appended("StateUnknown") \/ UNCHANGED journal
  <2>1. CASE UNCHANGED journal
    BY <1>14, <2>1 DEF FreshReportRebuilds, Closed
  <2>2. CASE Appended("StateUnknown")
    <3>1. Last(journal') = "StateUnknown"
      <4>1. journal' = Append(journal, "StateUnknown")
        BY <2>2 DEF Appended
      <4>2. Len(journal') = Len(journal) + 1 /\ journal'[Len(journal) + 1] = "StateUnknown"
        BY <1>1, <4>1
      <4> QED  BY <4>2 DEF Last
    <3>2. Rebuilt(journal') = "StateUnknownRecoveryRequired"
      BY <3>1 DEF Rebuilt
    <3> QED  BY <1>14, <3>2 DEF FreshReportRebuilds
  <2> QED  BY <1>14, <2>1, <2>2
<1> HIDE DEF RebuildInv, JournalSoFar, RestoreSteps, Stopped, Records
<1> QED
  BY <1>3, <1>4, <1>5, <1>6, <1>7, <1>8, <1>9, <1>10, <1>11, <1>12, <1>13, <1>14,
     RestorePath

LEMMA ModeKept ==
  ASSUME Engine
  PROVE  mode' = mode
<1> USE DEF caseVars
<1>1. CASE Connect
  BY <1>1 DEF Connect, RecordStarted, OpenTransport, Identify, RecordIdentity, ReadSnapshot,
     RecordSnapshot, VerifyNoOp, RecordNoOp, RecordBackedUp, Record
<1>2. CASE Apply
  BY <1>2 DEF Apply, RecordAheadSet, SendSet, RecordSet, ReRead, RecordReRead,
     RecordAheadSave, SendSave, RecordSaved, RecordAheadReboot, SendReboot,
     RecordRebooted, Reopened, RecordReconnected, ReIdentify, VerifyRead,
     RecordVerified, Record, RecordAhead, Write
<1>3. CASE Restore \/ DeclareUnknown
  BY <1>3, RestorePath DEF Goes, Kept, Records
<1> QED  BY <1>1, <1>2, <1>3 DEF Engine

LEMMA RebuildInductive ==
  ASSUME IInv, FreshInv, RebuildInv, [Next]_vars
  PROVE  RebuildInv'
<1>1. CASE mode # "fresh" /\ Engine
  BY <1>1, ModeKept DEF RebuildInv
<1>2. CASE mode = "fresh" /\ Engine
  BY <1>2, ConnectFollows, ApplyFollows, RestoreFollows DEF Engine, FreshInv
<1>3. CASE Crash
  BY <1>3 DEF Crash, RebuildInv, JournalSoFar, RestoreSteps, Stopped, FreshReportRebuilds
<1>4. CASE Resume
  BY <1>4 DEF Resume, RebuildInv
<1>5. CASE Bench \/ UNCHANGED vars
  <2>1. UNCHANGED <<journal, mode, pc, terminal>>
    BY <1>5 DEF Bench, PowerLoss, SwapBoard, EditElsewhere, vars, journalVars, engineVars,
       caseVars
  <2> QED
    BY <2>1 DEF RebuildInv, JournalSoFar, FreshReportRebuilds, Closed, BegunAs
<1> QED  BY <1>1, <1>2, <1>3, <1>4, <1>5 DEF Next

(* Whatever a fresh run reports over the journal it closed, `rebuild_report` *)
(* makes the same of that journal: the chains it looks for are the ones      *)
(* `drive`, `apply_and_finish` and `run_restore` leave behind, wherever the  *)
(* run turned back.                                                          *)
THEOREM ReportsRebuild == Spec => []FreshReportRebuilds
<1>1. Init => RebuildInv
  BY DEF Init, JournalInit, RebuildInv, JournalSoFar, RestoreSteps, FreshReportRebuilds, Closed,
     Holds
<1>2. IInv /\ FreshInv /\ RebuildInv /\ [Next]_vars => RebuildInv'
  BY RebuildInductive
<1>3. IInv /\ RebuildInv => FreshReportRebuilds
  BY DEF RebuildInv, FreshReportRebuilds
<1>4. Init => FreshInv
  BY DEF Init, FreshInv, CleanlyFresh, FreshAbortIsClean, Writing, ApplySteps, RestoreSteps
<1>5. IInv /\ FreshInv /\ [Next]_vars => FreshInv'
  BY FreshInductive
<1> QED  BY <1>1, <1>2, <1>3, <1>4, <1>5, Inductive, PTL DEF Spec
=============================================================================
