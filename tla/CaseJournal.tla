---------------------------- MODULE CaseJournal ----------------------------
(***************************************************************************)
(* The append-only case journal of crates/casebook behind a durable        *)
(* backend (crates/casebook-native): what the handle believes (`journal`), *)
(* what a reopened file would decode to (`disk`), and the poisoned flag a  *)
(* failed append leaves behind.  Records are events; a torn final record   *)
(* is one that `Journal::decode` drops, so it is simply absent from disk.  *)
(***************************************************************************)
EXTENDS Naturals, Sequences, SequencesExt

VARIABLES
  journal,   \* events of the open handle (Journal.events)
  disk,      \* events a fresh decode of the durable bytes would yield
  poisoned,  \* the handle refuses appends until it is reopened
  limit      \* max_bytes of the handle

journalVars == <<journal, disk, poisoned, limit>>

(* WriteAhead{class, recovery} occurs with five pairs only, one name each; *)
(* "AheadReboot" is shared by the apply path and the recovery path.        *)
WriteAheads == {"AheadSet", "AheadSave", "AheadReboot",
                "AheadRestoreSet", "AheadRestoreSave"}

Events == WriteAheads \cup
  {"Started", "IdentityRead", "SnapshotRead", "BackedUp", "SetApplied",
   "ReReadBeforeSave", "Saved", "Rebooted", "Reconnected", "Verified",
   "RecoveryStarted", "Restored", "StateUnknown"}

TerminalEvents == {"Verified", "Restored", "StateUnknown"}

-----------------------------------------------------------------------------
(* Bytes.  A record is a four-byte length, the payload, a four-byte         *)
(* checksum; the file starts with an eight-byte header.                     *)
HeaderLen == 8
RecordOverhead == 8

PayloadLen(e) == CASE e = "Started"          -> 2
                   [] e = "SetApplied"       -> 6
                   [] e \in WriteAheads      -> 3
                   [] OTHER                  -> 1

EncodedLen(events) ==
  FoldLeft(LAMBDA n, e : n + RecordOverhead + PayloadLen(e), HeaderLen, events)

-----------------------------------------------------------------------------
(* `try_append`: prepare_append refuses a poisoned handle or a record past   *)
(* the bound; the backend makes the record durable or poisons the handle.   *)

(* `prepare_append` accepts e. *)
CanAppend(e) ==
  /\ ~poisoned
  /\ EncodedLen(journal) + RecordOverhead + PayloadLen(e) <= limit

(* Mutant: the record is reported written before it is durable.              *)
AppendedUnsynced(e) ==
  /\ CanAppend(e)
  /\ journal' = Append(journal, e)
  /\ UNCHANGED <<disk, poisoned, limit>>

Appended(e) ==
  /\ CanAppend(e)
  /\ journal' = Append(journal, e)
  /\ disk' = Append(disk, e)
  /\ UNCHANGED <<poisoned, limit>>

(* Mutant: a failed write leaves the handle usable. *)
AppendFailedUnpoisoned(e) ==
  /\ UNCHANGED <<journal, poisoned, limit>>
  /\ disk' \in IF CanAppend(e) THEN {disk, Append(disk, e)} ELSE {disk}

(* A refusal before the backend changes nothing; a failed write, flush or    *)
(* sync poisons the handle and leaves the record durable or torn.           *)
AppendFailed(e) ==
  /\ UNCHANGED <<journal, limit>>
  /\ IF CanAppend(e)
     THEN poisoned' = TRUE /\ disk' \in {disk, Append(disk, e)}
     ELSE UNCHANGED <<poisoned, disk>>

(* `let _ = journal.try_append(e)` *)
TryAppend(e) == Appended(e) \/ AppendFailed(e)

(* `open`: validate the durable bytes, cut a torn tail, start unpoisoned.    *)
Reopen == journal' = disk /\ poisoned' = FALSE /\ UNCHANGED <<disk, limit>>

(* What any owner of a journal may do to it: the promise the engine is held  *)
(* to, whatever it is in the middle of.                                     *)
JournalInit == journal = <<>> /\ disk = <<>> /\ poisoned = FALSE

JournalNext == \/ \E e \in Events : TryAppend(e)
               \/ Reopen

JournalSpec == JournalInit /\ [][JournalNext]_journalVars

JournalTypeOK == /\ journal \in Seq(Events) /\ disk \in Seq(Events)
                 /\ poisoned \in BOOLEAN

(* The open handle never believes in a record a reopen would not find, and   *)
(* unless an append has failed it knows every record there is.              *)
JournalAgrees == IsPrefix(journal, disk) /\ (~poisoned => journal = disk)

-----------------------------------------------------------------------------
(* `reconcile_on_resume`: what a restart does with the events it finds.      *)
Recorded(events, e) == \E i \in DOMAIN events : events[i] = e

Closed(events) == events # <<>> /\ Last(events) \in TerminalEvents

(* Mutant: only the last record is looked at, not an earlier RecoveryStarted. *)
DecisionIgnoringRecovery(events) ==
  IF Closed(events) THEN "AlreadyTerminal"
  ELSE CASE events # <<>> /\ Last(events) \in {"Saved", "AheadSave", "AheadReboot"}
              -> "VerifySaveOutcome"
         [] OTHER -> "ReconcileTransientWrite"

(* Mutant: a terminal record is treated like any other checkpoint.           *)
DecisionIgnoringTerminal(events) ==
  IF Recorded(events, "RecoveryStarted") THEN "StateUnknown" ELSE "Continue"

Decision(events) ==
  CASE Closed(events)                      -> "AlreadyTerminal"
    [] ~Closed(events) /\ Recorded(events, "RecoveryStarted")
                                           -> "StateUnknown"
    [] OTHER ->
       IF events = <<>> THEN "Continue"
       ELSE CASE Last(events) \in {"SetApplied", "AheadSet"}
                                           -> "ReconcileTransientWrite"
              [] Last(events) \in {"Saved", "AheadSave", "AheadReboot"}
                                           -> "VerifySaveOutcome"
              [] Last(events) \in {"AheadRestoreSet", "AheadRestoreSave"}
                                           -> "StateUnknown"
              [] OTHER                     -> "Continue"

(* `Engine::new`: whether a write may have occurred before this process.     *)
WriteMayHaveOccurred(events) ==
  \E i \in DOMAIN events :
     events[i] \in WriteAheads \cup {"SetApplied", "Saved", "Rebooted"}

-----------------------------------------------------------------------------
(* `rebuild_report`: the terminal a closed journal is worth.                *)

(* How many records of `required` the first n events have matched, in one    *)
(* greedy pass.                                                             *)
Matched(events, required) ==
  LET matched[n \in 0..Len(events)] ==
        IF n = 0 THEN 0
        ELSE LET m == matched[n - 1]
             IN  IF m < Len(required) /\ required[m + 1] = events[n] THEN m + 1 ELSE m
  IN  matched

(* `contains_subsequence` *)
ContainsSubsequence(events, required) ==
  Matched(events, required)[Len(events)] = Len(required)

VerifiedChain ==
  <<"Started", "IdentityRead", "SnapshotRead", "BackedUp", "AheadSet",
    "SetApplied", "ReReadBeforeSave", "AheadSave", "Saved", "AheadReboot",
    "Rebooted", "Reconnected", "Verified">>

NoOpChain == <<"Started", "IdentityRead", "SnapshotRead", "Verified">>

RestoredChain ==
  <<"Started", "IdentityRead", "SnapshotRead", "BackedUp",
    "RecoveryStarted", "Restored">>

(* Mutant: the apply path's chain copied, although a restore records no      *)
(* Reconnected.                                                             *)
RestoreWriteChainReconnecting ==
  <<"RecoveryStarted", "AheadRestoreSet", "SetApplied", "ReReadBeforeSave",
    "AheadRestoreSave", "Saved", "AheadReboot", "Rebooted", "Reconnected",
    "Restored">>

RestoreWriteChain ==
  <<"RecoveryStarted", "AheadRestoreSet", "SetApplied", "ReReadBeforeSave",
    "AheadRestoreSave", "Saved", "AheadReboot", "Rebooted", "Restored">>

(* Whether a write-ahead follows the last RecoveryStarted. *)
RecoveryWrote(events) ==
  \E i \in DOMAIN events :
     /\ events[i] \in WriteAheads
     /\ \E k \in 1..i : events[k] = "RecoveryStarted"
     /\ \A k \in i..Len(events) : events[k] # "RecoveryStarted"

Rebuilt(events) ==
  LET proves(chain) == ContainsSubsequence(events, chain)
      wrote == Recorded(events, "SetApplied")
  IN  CASE Last(events) = "Verified" /\ wrote /\ proves(VerifiedChain)
             -> "CompletedVerified"
        [] Last(events) = "Verified" /\ ~wrote /\ proves(NoOpChain)
             -> "NoOpVerified"
        [] /\ Last(events) = "Restored"
           /\ proves(RestoredChain)
           /\ RecoveryWrote(events) => proves(RestoreWriteChain)
             -> "CompletedRestored"
        [] OTHER -> "StateUnknownRecoveryRequired"
=============================================================================
