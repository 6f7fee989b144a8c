--------------------------- MODULE EffectJournal ---------------------------
(***************************************************************************)
(* The case journal kept in a browser: tabs of one origin, each with its    *)
(* own `EffectJournalStore` (crates/casebook), behind the wasm bridge and   *)
(* the JavaScript host, sharing one IndexedDB record (web/src/storage).     *)
(* The store emits one effect at a time and believes nothing until the      *)
(* answer to that effect proves it.                                         *)
(*                                                                          *)
(* A record of the journal is known by the tab that wrote it; bytes are     *)
(* the records they hold and what follows the last whole one.               *)
(***************************************************************************)
EXTENDS Naturals, Sequences, SequencesExt, FiniteSets, IoCoordinator

CONSTANTS
  Tabs,
  InitialBytes,  \* values the origin may hold when the tabs open
  MaxRecords,    \* the store's byte bound, in records
  MaxRevision    \* MAX_STORAGE_REVISION, the last revision

ASSUME StoreAssumption ==
  /\ MaxRecords \in Nat /\ MaxRevision \in Nat \ {0}
  /\ InitialBytes \subseteq
       [events : Seq(Tabs), tail : {"none", "torn", "corrupt"}]

VARIABLES
  stored,       \* the IndexedDB record of the key, None if there is none
  loaded,       \* tab -> the journal, bytes and revision it has proved
  pending,      \* tab -> the operation its next answer completes
  coordinator,  \* tab -> its request ids
  repair,       \* tab -> the repair effect the bridge holds for the host
  calls,        \* tab -> effects the host is executing
  answers       \* tab -> answers the host has, any of which it may repeat

vars == <<stored, loaded, pending, coordinator, repair, calls, answers>>

-----------------------------------------------------------------------------
(* Bytes. *)
Tails == {"none", "torn", "corrupt"}

Bytes == [events : Seq(Tabs), tail : Tails]

Clean(events) == [events |-> events, tail |-> "none"]

(* A torn record has fewer bytes than a whole one, and at least one. *)
Size(bytes) == Len(bytes.events) + IF bytes.tail = "torn" THEN 1 ELSE 0

(* `Journal::decode` refuses corrupt bytes and bytes past the bound. *)
Decodes(bytes) == bytes.tail # "corrupt" /\ Size(bytes) <= MaxRecords

(* A record that follows a torn one is read as a part of it. *)
Extend(bytes, event) ==
  IF bytes.tail = "none" THEN Clean(Append(bytes.events, event))
                         ELSE [bytes EXCEPT !.tail = "corrupt"]

-----------------------------------------------------------------------------
(* State. *)
Kinds == {"load", "commit"}

Revisions == 0 .. MaxRevision

Values == [revision : Revisions, bytes : Bytes]

(* `revision` is None for a journal that the store does not hold yet. *)
Views == [journal : Seq(Tabs), bytes : Bytes, revision : Revisions \cup {None}]

Operations ==
       [kind : {"load"}]
  \cup [kind : {"append"}, event : Tabs, at : Nat, bytes : Bytes,
        expected : Revisions \cup {None}]
  \cup [kind : {"repair"}, journal : Seq(Tabs), bytes : Bytes,
        expected : Revisions]

Effects == [id : 1 .. MaxRequestId, kind : Kinds,
            expected : Revisions \cup {None}, bytes : Bytes \cup {None}]

(* A commit answers with a revision and no bytes. *)
HostValues == [revision : Revisions, bytes : Bytes \cup {None}]

HostAnswers == [id : 1 .. MaxRequestId, kind : Kinds, ok : BOOLEAN,
                value : HostValues \cup {None}]

(* An absent value is none of the values that could be there. *)
ASSUME NoneAssumption ==
  None \notin Values \cup HostValues \cup Views \cup Operations \cup Effects
                    \cup Requests(Kinds) \cup Revisions \cup Seq(Tabs)

StoreTypeOK ==
  /\ stored \in Values \cup {None}
  /\ loaded \in [Tabs -> Views \cup {None}]
  /\ pending \in [Tabs -> Operations \cup {None}]
  /\ coordinator \in [Tabs -> Coordinators(Kinds)]
  /\ repair \in [Tabs -> Effects \cup {None}]
  /\ calls \in [Tabs -> SUBSET Effects]
  /\ answers \in [Tabs -> SUBSET HostAnswers]

Init ==
  /\ stored \in [revision : Revisions, bytes : InitialBytes] \cup {None}
  /\ loaded = [t \in Tabs |-> None]
  /\ pending = [t \in Tabs |-> None]
  /\ coordinator = [t \in Tabs |-> NewCoordinator]
  /\ repair = [t \in Tabs |-> None]
  /\ calls = [t \in Tabs |-> {}]
  /\ answers = [t \in Tabs |-> {}]

-----------------------------------------------------------------------------
(* The store's requests.  The host executes an effect it is handed at once. *)
Effect(t, kind, expected, bytes) ==
  [id |-> coordinator[t].nextId, kind |-> kind,
   expected |-> expected, bytes |-> bytes]

Issue(t, kind, operation) ==
  /\ coordinator' = [coordinator EXCEPT ![t] = Begin(@, kind)]
  /\ pending' = [pending EXCEPT ![t] = operation]

BeginLoad(t) ==
  /\ loaded[t] = None
  /\ CanBegin(coordinator[t])
  /\ Issue(t, "load", [kind |-> "load"])
  /\ calls' = [calls EXCEPT ![t] = @ \cup {Effect(t, "load", None, None)}]
  /\ UNCHANGED <<stored, loaded, repair, answers>>

BeginAppend(t) ==
  /\ loaded[t] # None
  /\ Len(loaded[t].journal) < MaxRecords
  /\ CanBegin(coordinator[t])
  /\ LET view  == loaded[t]
         bytes == Extend(view.bytes, t)
     IN /\ Issue(t, "commit",
                 [kind |-> "append", event |-> t, at |-> Len(view.journal),
                  bytes |-> bytes, expected |-> view.revision])
        /\ calls' = [calls EXCEPT ![t] =
                       @ \cup {Effect(t, "commit", view.revision, bytes)}]
  /\ UNCHANGED <<stored, loaded, repair, answers>>

-----------------------------------------------------------------------------
(* The host and the object store: one IndexedDB transaction per effect.     *)
Answered(t, call, ok, value) ==
  /\ calls' = [calls EXCEPT ![t] = @ \ {call}]
  /\ answers' = [answers EXCEPT ![t] = @ \cup
                   {[id |-> call.id, kind |-> call.kind,
                     ok |-> ok, value |-> value]}]
  /\ UNCHANGED <<loaded, pending, coordinator, repair>>

HostLoad(t, call) ==
  /\ call.kind = "load"
  /\ Answered(t, call, TRUE, stored)
  /\ UNCHANGED stored

(* Mutant: the last revision may be advanced. *)
MayCommitPastLast(expected) ==
  expected = IF stored = None THEN None ELSE stored.revision

(* Mutant: the last writer wins. *)
MayCommitAnything(expected) == stored # None => stored.revision < MaxRevision

(* `decideCompareAndSwap` decides "commit". *)
MayCommit(expected) ==
  /\ expected = IF stored = None THEN None ELSE stored.revision
  /\ stored # None => stored.revision < MaxRevision

(* Mutant: a commit keeps the revision it replaces. *)
RevisionKept == IF stored = None THEN 1 ELSE stored.revision

NextRevision == IF stored = None THEN 1 ELSE stored.revision + 1

HostCommit(t, call) ==
  /\ call.kind = "commit"
  /\ MayCommit(call.expected)
  /\ stored' = [revision |-> NextRevision, bytes |-> call.bytes]
  /\ Answered(t, call, TRUE, [revision |-> NextRevision, bytes |-> None])

(* A conflict, the last revision reached, quota, an aborted transaction or a *)
(* database that does not open: the browser may fail any call.               *)
HostFails(t, call) ==
  /\ Answered(t, call, FALSE, None)
  /\ UNCHANGED stored

Host(t) == \E call \in calls[t] :
             HostLoad(t, call) \/ HostCommit(t, call) \/ HostFails(t, call)

-----------------------------------------------------------------------------
(* `accept_response`.  A refused answer changes nothing; an accepted one is  *)
(* consumed with the pending operation, whatever it says.                   *)
Completes(t, a) ==
  /\ Answers(coordinator[t], a)
  /\ pending' = [pending EXCEPT ![t] = None]
  /\ coordinator' = [coordinator EXCEPT ![t] = Consumed(@)]
  /\ UNCHANGED repair

Establish(t, view) == loaded' = [loaded EXCEPT ![t] = view]

AcceptFailure(t, a) ==
  /\ ~a.ok
  /\ Completes(t, a)
  /\ UNCHANGED loaded

AcceptMissing(t, a) ==
  /\ pending[t].kind = "load"
  /\ a.ok /\ a.value = None
  /\ Completes(t, a)
  /\ Establish(t, [journal |-> <<>>, bytes |-> Clean(<<>>), revision |-> None])

AcceptUnreadable(t, a) ==
  /\ pending[t].kind = "load"
  /\ a.ok /\ a.value # None
  /\ ~Decodes(a.value.bytes)
  /\ Completes(t, a)
  /\ UNCHANGED loaded

(* Mutant: a torn value is established as if it were whole. *)
AcceptFoundAny(t, a) ==
  /\ pending[t].kind = "load"
  /\ a.ok /\ a.value # None
  /\ Decodes(a.value.bytes)
  /\ Completes(t, a)
  /\ Establish(t, [journal |-> a.value.bytes.events, bytes |-> a.value.bytes,
                   revision |-> a.value.revision])

AcceptFound(t, a) ==
  /\ pending[t].kind = "load"
  /\ a.ok /\ a.value # None
  /\ Decodes(a.value.bytes) /\ a.value.bytes.tail = "none"
  /\ Completes(t, a)
  /\ Establish(t, [journal |-> a.value.bytes.events, bytes |-> a.value.bytes,
                   revision |-> a.value.revision])

(* The torn tail is cut by a compare-and-swap of its own, which the bridge   *)
(* holds until the host takes it; without a request id the load is lost.    *)
AcceptTorn(t, a) ==
  /\ pending[t].kind = "load"
  /\ a.ok /\ a.value # None
  /\ Decodes(a.value.bytes) /\ a.value.bytes.tail = "torn"
  /\ Answers(coordinator[t], a)
  /\ UNCHANGED loaded
  /\ LET idle  == Consumed(coordinator[t])
         bytes == Clean(a.value.bytes.events)
     IN IF CanBegin(idle)
        THEN /\ coordinator' = [coordinator EXCEPT ![t] = Begin(idle, "commit")]
             /\ pending' = [pending EXCEPT ![t] =
                  [kind |-> "repair", journal |-> a.value.bytes.events,
                   bytes |-> bytes, expected |-> a.value.revision]]
             /\ repair' = [repair EXCEPT ![t] =
                  Effect(t, "commit", a.value.revision, bytes)]
        ELSE Completes(t, a)

(* `ensure_revision_advanced` *)
Advances(expected, revision) == expected = None \/ revision > expected

AcceptAppended(t, a) ==
  /\ pending[t].kind = "append"
  /\ a.ok
  /\ Completes(t, a)
  /\ LET operation == pending[t]
         view      == loaded[t]
     IN IF /\ Advances(operation.expected, a.value.revision)
           /\ operation.at = Len(view.journal)
        THEN Establish(t, [journal  |-> Append(view.journal, operation.event),
                           bytes    |-> operation.bytes,
                           revision |-> a.value.revision])
        ELSE UNCHANGED loaded

AcceptRepaired(t, a) ==
  /\ pending[t].kind = "repair"
  /\ a.ok
  /\ Completes(t, a)
  /\ IF Advances(pending[t].expected, a.value.revision)
     THEN Establish(t, [journal  |-> pending[t].journal,
                        bytes    |-> pending[t].bytes,
                        revision |-> a.value.revision])
     ELSE UNCHANGED loaded

Accept(t) ==
  /\ \E a \in answers[t] :
       /\ pending[t] # None
       /\ \/ AcceptFailure(t, a)
          \/ AcceptMissing(t, a)
          \/ AcceptUnreadable(t, a)
          \/ AcceptFound(t, a)
          \/ AcceptTorn(t, a)
          \/ AcceptAppended(t, a)
          \/ AcceptRepaired(t, a)
  /\ UNCHANGED <<stored, calls, answers>>

(* Mutant: the host does not come back for the repair. *)
TakeRepairLost(t) ==
  /\ repair[t] # None
  /\ repair' = [repair EXCEPT ![t] = None]
  /\ UNCHANGED <<stored, loaded, pending, coordinator, calls, answers>>

(* `WasmJournalHost.load` takes the repair and executes it. *)
TakeRepair(t) ==
  /\ repair[t] # None
  /\ repair' = [repair EXCEPT ![t] = None]
  /\ calls' = [calls EXCEPT ![t] = @ \cup {repair[t]}]
  /\ UNCHANGED <<stored, loaded, pending, coordinator, answers>>

-----------------------------------------------------------------------------
(* The page goes away, with all it waits for, and is opened again. *)
Reload(t) ==
  /\ loaded' = [loaded EXCEPT ![t] = None]
  /\ pending' = [pending EXCEPT ![t] = None]
  /\ coordinator' = [coordinator EXCEPT ![t] = NewCoordinator]
  /\ repair' = [repair EXCEPT ![t] = None]
  /\ calls' = [calls EXCEPT ![t] = {}]
  /\ answers' = [answers EXCEPT ![t] = {}]
  /\ UNCHANGED stored

Tab(t) == \/ BeginLoad(t)
          \/ BeginAppend(t)
          \/ Host(t)
          \/ Accept(t)
          \/ TakeRepair(t)
          \/ Reload(t)

Next == \E t \in Tabs : Tab(t)

Spec == Init /\ [][Next]_vars

(* IndexedDB settles every transaction, and the host awaits it and hands the *)
(* outcome, or the repair, straight on.  Nothing is assumed of the callers.  *)
FairSpec ==
  /\ Spec
  /\ \A t \in Tabs : /\ WF_vars(Host(t))
                     /\ WF_vars(Accept(t))
                     /\ WF_vars(TakeRepair(t))
-----------------------------------------------------------------------------
(* Properties. *)

(* What a tab shows is what the store holds, or held: its journal is a      *)
(* prefix of the stored one, made of exactly the bytes it would append to;  *)
(* and two tabs that name the same revision mean the same bytes, so that a  *)
(* compare of revisions is a compare of journals.  accept_load_result and   *)
(* accept_response move journal, bytes and revision together.               *)
ViewsAreProven ==
  \A t \in Tabs : loaded[t] # None =>
    LET view == loaded[t]
    IN /\ view.bytes = Clean(view.journal)
       /\ IF view.revision = None THEN view.journal = <<>>
          ELSE /\ stored # None
               /\ view.revision <= stored.revision
               /\ view.revision = stored.revision => stored.bytes = view.bytes
               /\ IsPrefix(view.journal, stored.bytes.events)

(* The store and its coordinator never disagree on what is under way, so    *)
(* OperationStateMismatch, StalePreparedAppend and NonAdvancingRevision,    *)
(* which accept_response can return after it has consumed the operation,    *)
(* are never its answer; and the operation under way can still be answered: *)
(* its effect is with the bridge, with the host, or answered.               *)
OperationsAgree ==
  \A t \in Tabs :
    LET c == coordinator[t]
        op == pending[t]
    IN /\ (op = None) <=> (c.awaited = None)
       /\ op # None =>
            /\ (op.kind = "load") <=> (c.awaited.kind = "load")
            /\ (op.kind = "append") <=> (loaded[t] # None)
            /\ op.kind = "append" => /\ op.at = Len(loaded[t].journal)
                                     /\ op.expected = loaded[t].revision
            /\ \A a \in answers[t] :
                 (Answers(c, a) /\ a.ok /\ op.kind # "load") =>
                    Advances(op.expected, a.value.revision)
            /\ Cardinality({a \in answers[t] : a.id = c.awaited.id})
               + Cardinality({call \in calls[t] : call.id = c.awaited.id})
               + (IF repair[t] # None /\ repair[t].id = c.awaited.id
                  THEN 1 ELSE 0) = 1

(* Every commit writes a journal that the next load will accept: no record  *)
(* is put behind a torn one (accept_load_result cuts the tail before it is  *)
(* built on), and none is written past the bound that `decode` enforces.    *)
CommitsDecode ==
  [][stored' # stored =>
       stored' # None /\ Decodes(stored'.bytes) /\ stored'.bytes.tail = "none"]_vars

(* No tab's commit is lost or reordered by another's, by a repair, a        *)
(* repeated answer or a reload: the stored journal only grows, a tab adds   *)
(* to it only when it has seen all of it, and what a tab shows grows by its *)
(* own confirmed records ("never becomes last-write-wins").                 *)
StoredJournal == IF stored = None THEN <<>> ELSE stored.bytes.events

ShownJournals ==
  [t \in Tabs |-> IF loaded[t] = None THEN None ELSE loaded[t].journal]

Shared == INSTANCE SharedLog WITH
  Clients <- Tabs, log <- StoredJournal, view <- ShownJournals

SharedLogSpec == Shared!LogSpec

(* Every load, append and repair ends, whatever the host answers: no        *)
(* failure, refused answer or exhausted counter leaves the store refusing   *)
(* all further work with StorageRequestAlreadyPending.                      *)
OperationsEnd == \A t \in Tabs : (pending[t] # None) ~> (pending[t] = None)
=============================================================================
