------------------------ MODULE EffectJournalProofs ------------------------
(***************************************************************************)
(* The journal of a browser, for any number of tabs, any bounds and any     *)
(* bytes the origin may hold when they open: what a tab has proved stays    *)
(* true of the store, and the store is the log that SharedLog promises.     *)
(***************************************************************************)
EXTENDS EffectJournal, SequenceTheorems, FiniteSetTheorems, TLAPS

-----------------------------------------------------------------------------
(* The inductive invariant.  Everything a tab knows, holds or waits for is   *)
(* a statement about the store that the commits of other tabs do not undo.  *)

(* The store held these bytes at this revision, and has only grown since. *)
Seen(store, revision, bytes) ==
  /\ store # None
  /\ revision <= store.revision
  /\ revision = store.revision => store.bytes = bytes
  /\ IsPrefix(bytes.events, store.bytes.events)

(* What a tab shows is a whole journal that the store held. *)
Shown(store, view) ==
  /\ view.bytes = Clean(view.journal)
  /\ IF view.revision = None THEN view.journal = <<>>
     ELSE Seen(store, view.revision, view.bytes)

ViewSeen(t) == loaded[t] # None => Shown(stored, loaded[t])

(* Request ids: the awaited one is handed out already, and so is every one   *)
(* an answer may still carry.                                               *)
IdsSpent(t) ==
  /\ coordinator[t].awaited # None =>
       coordinator[t].awaited.id < coordinator[t].nextId
  /\ \A a \in answers[t] : a.id < coordinator[t].nextId

(* The operation under way and the request the coordinator awaits. *)
OperationAwaited(t) ==
  /\ pending[t] = None <=> coordinator[t].awaited = None
  /\ pending[t] # None =>
       /\ coordinator[t].awaited.kind =
            IF pending[t].kind = "load" THEN "load" ELSE "commit"
       /\ pending[t].kind = "append" <=> loaded[t] # None

(* An append extends exactly what the tab shows, within the bound. *)
AppendGrounded(t) ==
  pending[t] # None /\ pending[t].kind = "append" =>
    /\ pending[t].event = t
    /\ pending[t].at = Len(loaded[t].journal)
    /\ pending[t].at < MaxRecords
    /\ pending[t].bytes = Clean(Append(loaded[t].journal, t))
    /\ pending[t].expected = loaded[t].revision

(* A repair cuts a tail that the store did hold. *)
RepairGrounded(t) ==
  pending[t] # None /\ pending[t].kind = "repair" =>
    /\ pending[t].bytes = Clean(pending[t].journal)
    /\ Len(pending[t].journal) < MaxRecords
    /\ Seen(stored, pending[t].expected,
            [events |-> pending[t].journal, tail |-> "torn"])

(* The one effect that the operation under way has asked for. *)
Wanted(t) ==
  [id       |-> coordinator[t].awaited.id,
   kind     |-> coordinator[t].awaited.kind,
   expected |-> IF pending[t].kind = "load" THEN None ELSE pending[t].expected,
   bytes    |-> IF pending[t].kind = "load" THEN None ELSE pending[t].bytes]

Replies(t) == {a \in answers[t] : a.id = coordinator[t].awaited.id}

(* That effect is in one place: with the host, with the bridge, or answered. *)
OnePlace(t) ==
  IF pending[t] = None THEN calls[t] = {} /\ repair[t] = None
  ELSE \/ calls[t] = {Wanted(t)} /\ repair[t] = None /\ Replies(t) = {}
       \/ calls[t] = {} /\ repair[t] = Wanted(t) /\ Replies(t) = {}
       \/ /\ calls[t] = {} /\ repair[t] = None
          /\ \E a \in answers[t] : Replies(t) = {a}

(* What the answer says of the store is true of it. *)
ReplySeen(t) ==
  pending[t] # None =>
    \A a \in answers[t] :
      a.id = coordinator[t].awaited.id /\ a.ok =>
        IF pending[t].kind = "load"
        THEN a.value # None => a.value \in Values
                               /\ Seen(stored, a.value.revision, a.value.bytes)
        ELSE /\ a.value # None
             /\ Advances(pending[t].expected, a.value.revision)
             /\ Seen(stored, a.value.revision, pending[t].bytes)

TabSound(t) == /\ ViewSeen(t)
               /\ IdsSpent(t)
               /\ OperationAwaited(t)
               /\ AppendGrounded(t)
               /\ RepairGrounded(t)
               /\ OnePlace(t)
               /\ ReplySeen(t)

IInv == StoreTypeOK /\ \A t \in Tabs : TabSound(t)

-----------------------------------------------------------------------------
(* Sequences and stores. *)

LEMMA PrefixOfAppend ==
  ASSUME NEW s \in Seq(Tabs), NEW t \in Tabs
  PROVE  IsPrefix(s, s) /\ IsPrefix(s, Append(s, t))
BY DEF IsPrefix

LEMMA PrefixTransitive ==
  ASSUME NEW r \in Seq(Tabs), NEW s \in Seq(Tabs), NEW u \in Seq(Tabs),
         IsPrefix(r, s), IsPrefix(s, u)
  PROVE  IsPrefix(r, u)
<1>1. Len(r) <= Len(s) /\ Len(s) <= Len(u)
  BY DEF IsPrefix
<1>2. ASSUME NEW i \in 1 .. Len(r)
      PROVE  r[i] = u[i]
  <2>1. SubSeq(r, 1, Len(r))[i] = SubSeq(s, 1, Len(r))[i]
    BY DEF IsPrefix
  <2>2. SubSeq(s, 1, Len(s))[i] = SubSeq(u, 1, Len(s))[i]
    BY DEF IsPrefix
  <2> QED  BY <1>1, <2>1, <2>2
<1>3. SubSeq(r, 1, Len(r)) = SubSeq(u, 1, Len(r))
  BY <1>1, <1>2
<1> QED  BY <1>1, <1>3 DEF IsPrefix

(* What a step may make of the store. *)
Grown(old, new) ==
  \/ new = old
  \/ /\ new \in Values
     /\ old # None => /\ old.revision < new.revision
                      /\ IsPrefix(old.bytes.events, new.bytes.events)

(* What was once seen stays seen: the compare of revisions that guards a     *)
(* commit fails for every tab that has not seen the latest one.             *)
LEMMA SeenPersists ==
  ASSUME NEW old \in Values \cup {None}, NEW new \in Values \cup {None},
         NEW revision \in Revisions, NEW bytes \in Bytes,
         Grown(old, new), Seen(old, revision, bytes)
  PROVE  Seen(new, revision, bytes)
<1>1. CASE new = old
  BY <1>1
<1>2. CASE new # old
  <2>1. old \in Values /\ new \in Values /\ new # None
    BY <1>2, NoneAssumption DEF Seen, Grown
  <2>2. /\ old.revision < new.revision /\ revision <= old.revision
        /\ IsPrefix(bytes.events, old.bytes.events)
        /\ IsPrefix(old.bytes.events, new.bytes.events)
    BY <1>2, <2>1 DEF Seen, Grown
  <2>3. /\ bytes.events \in Seq(Tabs) /\ old.bytes.events \in Seq(Tabs)
        /\ new.bytes.events \in Seq(Tabs)
        /\ old.revision \in Nat /\ new.revision \in Nat
    BY <2>1 DEF Values, Bytes, Revisions
  <2>4. IsPrefix(bytes.events, new.bytes.events)
    BY <2>2, <2>3, PrefixTransitive
  <2>5. revision <= new.revision /\ revision # new.revision
    BY <2>2, <2>3, StoreAssumption DEF Revisions
  <2> QED  BY <2>1, <2>4, <2>5 DEF Seen
<1> QED  BY <1>1, <1>2

-----------------------------------------------------------------------------
(* What the types say of one tab. *)

LEMMA OperationType ==
  ASSUME StoreTypeOK, NEW t \in Tabs, pending[t] # None
  PROVE  /\ pending[t].kind \in {"load", "append", "repair"}
         /\ pending[t].kind = "append" =>
              /\ pending[t].bytes \in Bytes
              /\ pending[t].at \in Nat /\ pending[t].event \in Tabs
              /\ pending[t].expected \in Revisions \cup {None}
         /\ pending[t].kind = "repair" =>
              /\ pending[t].bytes \in Bytes /\ pending[t].journal \in Seq(Tabs)
              /\ pending[t].expected \in Revisions
<1>1. pending[t] \in Operations
  BY DEF StoreTypeOK
<1> QED  BY <1>1 DEF Operations

LEMMA TabTypes ==
  ASSUME StoreTypeOK, NEW t \in Tabs
  PROVE  /\ loaded[t] # None =>
              /\ loaded[t].journal \in Seq(Tabs) /\ loaded[t].bytes \in Bytes
              /\ loaded[t].revision \in Revisions \cup {None}
         /\ coordinator[t].nextId \in 1 .. MaxRequestId
         /\ coordinator[t].awaited # None =>
              /\ coordinator[t].awaited.id \in 1 .. MaxRequestId
              /\ coordinator[t].awaited.kind \in Kinds
         /\ \A a \in answers[t] :
              /\ a.id \in 1 .. MaxRequestId /\ a.kind \in Kinds
              /\ a.ok \in BOOLEAN
              /\ a.value # None => a.value.revision \in Revisions
         /\ \A call \in calls[t] :
              call.id \in 1 .. MaxRequestId /\ call.kind \in Kinds
<1>1. /\ loaded[t] \in Views \cup {None}
      /\ coordinator[t] \in Coordinators(Kinds)
      /\ answers[t] \subseteq HostAnswers /\ calls[t] \subseteq Effects
  BY DEF StoreTypeOK
<1>2. loaded[t] # None => /\ loaded[t].journal \in Seq(Tabs)
                          /\ loaded[t].bytes \in Bytes
                          /\ loaded[t].revision \in Revisions \cup {None}
  BY <1>1 DEF Views
<1>3. /\ coordinator[t].nextId \in 1 .. MaxRequestId
      /\ coordinator[t].awaited # None =>
           /\ coordinator[t].awaited.id \in 1 .. MaxRequestId
           /\ coordinator[t].awaited.kind \in Kinds
  BY <1>1 DEF Coordinators, Requests
<1>4. ASSUME NEW a \in answers[t]
      PROVE  /\ a.id \in 1 .. MaxRequestId /\ a.kind \in Kinds
             /\ a.ok \in BOOLEAN
             /\ a.value # None => a.value.revision \in Revisions
  BY <1>1 DEF HostAnswers, HostValues
<1>5. ASSUME NEW call \in calls[t]
      PROVE  call.id \in 1 .. MaxRequestId /\ call.kind \in Kinds
  BY <1>1 DEF Effects
<1> QED  BY <1>2, <1>3, <1>4, <1>5

(* The effect an operation asks for carries what the operation recorded. *)
LEMMA WantedFields ==
  ASSUME IInv, NEW t \in Tabs, pending[t] # None
  PROVE  /\ Wanted(t) \in Effects
         /\ Wanted(t).id = coordinator[t].awaited.id
         /\ Wanted(t).kind = coordinator[t].awaited.kind
         /\ pending[t].kind # "load" =>
              /\ Wanted(t).kind = "commit"
              /\ Wanted(t).bytes = pending[t].bytes
              /\ Wanted(t).expected = pending[t].expected
         /\ pending[t].kind = "load" => Wanted(t).kind = "load"
<1> USE DEF IInv
<1>1. OperationAwaited(t)
  BY DEF TabSound
<1>2. coordinator[t].awaited # None
  BY <1>1 DEF OperationAwaited
<1>3. /\ Wanted(t).id = coordinator[t].awaited.id
      /\ Wanted(t).kind = coordinator[t].awaited.kind
      /\ pending[t].kind # "load" => /\ Wanted(t).bytes = pending[t].bytes
                                     /\ Wanted(t).expected = pending[t].expected
  BY DEF Wanted
<1>4. Wanted(t) \in Effects
  <2>1. CASE pending[t].kind = "load"
    BY <2>1, <1>2, TabTypes DEF Wanted, Effects
  <2>2. CASE pending[t].kind # "load"
    BY <2>2, <1>2, TabTypes, OperationType DEF Wanted, Effects
  <2> QED  BY <2>1, <2>2
<1> QED  BY <1>1, <1>3, <1>4 DEF OperationAwaited

-----------------------------------------------------------------------------
(* What a tab shows, and what it is about to repair, outlive the commits of  *)
(* others.                                                                  *)
LEMMA KnowledgeKept ==
  ASSUME IInv, StoreTypeOK', Grown(stored, stored'), NEW t \in Tabs,
         loaded'[t] = loaded[t], pending'[t] = pending[t]
  PROVE  ViewSeen(t)' /\ RepairGrounded(t)'
<1> USE DEF IInv
<1>1. TabSound(t) /\ StoreTypeOK
  OBVIOUS
<1>2. stored \in Values \cup {None} /\ stored' \in Values \cup {None}
  BY DEF StoreTypeOK
<1>3. ViewSeen(t)'
  <2>1. CASE loaded[t] # None /\ loaded[t].revision # None
    <3>1. Seen(stored, loaded[t].revision, loaded[t].bytes)
      BY <1>1, <2>1 DEF TabSound, ViewSeen, Shown
    <3>2. loaded[t].revision \in Revisions /\ loaded[t].bytes \in Bytes
      BY <2>1, TabTypes
    <3>3. Seen(stored', loaded[t].revision, loaded[t].bytes)
      BY <3>1, <3>2, <1>2, SeenPersists
    <3> QED  BY <3>3, <1>1, <2>1 DEF TabSound, ViewSeen, Shown
  <2> QED  BY <1>1, <2>1 DEF TabSound, ViewSeen, Shown
<1>4. RepairGrounded(t)'
  <2>1. CASE pending[t] # None /\ pending[t].kind = "repair"
    <3> DEFINE b == [events |-> pending[t].journal, tail |-> "torn"]
    <3>1. Seen(stored, pending[t].expected, b)
      BY <1>1, <2>1 DEF TabSound, RepairGrounded
    <3>2. pending[t].expected \in Revisions /\ pending[t].journal \in Seq(Tabs)
      BY <2>1, OperationType
    <3>3. b \in Bytes
      BY <3>2 DEF Bytes, Tails
    <3> HIDE DEF b
    <3>4. Seen(stored', pending[t].expected, b)
      BY <3>1, <3>2, <3>3, <1>2, SeenPersists
    <3> QED  BY <3>4, <1>1, <2>1 DEF TabSound, RepairGrounded, b
  <2> QED  BY <1>1, <2>1 DEF TabSound, RepairGrounded
<1> QED  BY <1>3, <1>4

(* A step of one tab leaves what the others hold, and the store only grows:  *)
(* what the others know stays sound.                                        *)
LEMMA OthersKeep ==
  ASSUME IInv, StoreTypeOK', Grown(stored, stored'), NEW t \in Tabs,
         loaded'[t] = loaded[t], pending'[t] = pending[t],
         coordinator'[t] = coordinator[t], repair'[t] = repair[t],
         calls'[t] = calls[t], answers'[t] = answers[t]
  PROVE  TabSound(t)'
<1> USE DEF IInv
<1>1. TabSound(t) /\ StoreTypeOK
  OBVIOUS
<1>2. stored \in Values \cup {None} /\ stored' \in Values \cup {None}
  BY DEF StoreTypeOK
<1>3. ViewSeen(t)' /\ RepairGrounded(t)'
  BY KnowledgeKept
<1>4. IdsSpent(t)' /\ OperationAwaited(t)' /\ AppendGrounded(t)'
  BY <1>1 DEF TabSound, IdsSpent, OperationAwaited, AppendGrounded
<1>5. OnePlace(t)'
  <2>1. Wanted(t)' = Wanted(t) /\ Replies(t)' = Replies(t)
    BY DEF Wanted, Replies
  <2> QED  BY <1>1, <2>1 DEF TabSound, OnePlace
<1>6. ReplySeen(t)'
  <2> SUFFICES ASSUME pending[t] # None, NEW a \in answers[t],
                      a.id = coordinator[t].awaited.id, a.ok
               PROVE  IF pending[t].kind = "load"
                      THEN a.value # None => a.value \in Values
                             /\ Seen(stored', a.value.revision, a.value.bytes)
                      ELSE /\ a.value # None
                           /\ Advances(pending[t].expected, a.value.revision)
                           /\ Seen(stored', a.value.revision, pending[t].bytes)
    BY DEF ReplySeen
  <2>1. CASE pending[t].kind = "load"
    <3> SUFFICES ASSUME a.value # None
                 PROVE  /\ a.value \in Values
                        /\ Seen(stored', a.value.revision, a.value.bytes)
      BY <2>1
    <3>1. /\ a.value \in Values
          /\ Seen(stored, a.value.revision, a.value.bytes)
      BY <1>1, <2>1 DEF TabSound, ReplySeen
    <3>2. a.value.revision \in Revisions /\ a.value.bytes \in Bytes
      BY <3>1 DEF Values
    <3> QED  BY <3>1, <3>2, <1>2, SeenPersists
  <2>2. CASE pending[t].kind # "load"
    <3>1. /\ a.value # None /\ Advances(pending[t].expected, a.value.revision)
          /\ Seen(stored, a.value.revision, pending[t].bytes)
      BY <1>1, <2>2 DEF TabSound, ReplySeen
    <3>2. a.value.revision \in Revisions /\ pending[t].bytes \in Bytes
      BY <3>1, <2>2, TabTypes, OperationType
    <3> QED  BY <2>2, <3>1, <3>2, <1>2, SeenPersists
  <2> QED  BY <2>1, <2>2
<1> QED  BY <1>3, <1>4, <1>5, <1>6 DEF TabSound

-----------------------------------------------------------------------------
(* Types. *)

LEMMA CoordinatorType ==
  /\ NewCoordinator \in Coordinators(Kinds)
  /\ \A c \in Coordinators(Kinds) :
       /\ Consumed(c) \in Coordinators(Kinds)
       /\ CanBegin(c) => \A k \in Kinds : Begin(c, k) \in Coordinators(Kinds)
<1>1. NewCoordinator \in Coordinators(Kinds)
  BY RequestIdAssumption DEF NewCoordinator, Coordinators
<1>2. ASSUME NEW c \in Coordinators(Kinds)
      PROVE  Consumed(c) \in Coordinators(Kinds)
  BY DEF Consumed, Coordinators
<1>3. ASSUME NEW c \in Coordinators(Kinds), CanBegin(c), NEW k \in Kinds
      PROVE  Begin(c, k) \in Coordinators(Kinds)
  <2>1. c.nextId \in 1 .. MaxRequestId /\ c.nextId < MaxRequestId
    BY <1>3 DEF CanBegin, Coordinators
  <2>2. c.nextId + 1 \in 1 .. MaxRequestId
    BY <2>1, RequestIdAssumption
  <2> QED  BY <2>1, <2>2 DEF Begin, Coordinators, Requests
<1> QED  BY <1>1, <1>2, <1>3

(* What `Extend` makes of a journal that is whole. *)
LEMMA ExtendClean ==
  ASSUME NEW events \in Seq(Tabs), NEW t \in Tabs
  PROVE  /\ Clean(events) \in Bytes
         /\ Extend(Clean(events), t) = Clean(Append(events, t))
         /\ Clean(Append(events, t)) \in Bytes
BY DEF Clean, Extend, Bytes, Tails

LEMMA RequestsKeepType ==
  ASSUME IInv, NEW t \in Tabs, BeginLoad(t) \/ BeginAppend(t) \/ TakeRepair(t)
  PROVE  StoreTypeOK'
<1> USE DEF IInv
<1>1. StoreTypeOK
  OBVIOUS
<1>2. ASSUME CanBegin(coordinator[t]), NEW k \in Kinds
      PROVE  [coordinator EXCEPT ![t] = Begin(@, k)]
               \in [Tabs -> Coordinators(Kinds)]
  BY <1>1, <1>2, CoordinatorType DEF StoreTypeOK
<1>3. CASE BeginLoad(t)
  <2>1. Effect(t, "load", None, None) \in Effects
    BY <1>1, TabTypes DEF Effect, Effects, Kinds
  <2>2. [kind |-> "load"] \in Operations
    BY DEF Operations
  <2> QED
    BY <1>1, <1>2, <1>3, <2>1, <2>2 DEF StoreTypeOK, BeginLoad, Issue, Kinds
<1>4. CASE BeginAppend(t)
  <2> DEFINE view == loaded[t]
             bytes == Extend(view.bytes, t)
             op == [kind |-> "append", event |-> t, at |-> Len(view.journal),
                    bytes |-> bytes, expected |-> view.revision]
             effect == Effect(t, "commit", view.revision, bytes)
  <2>1. view.journal \in Seq(Tabs) /\ view.revision \in Revisions \cup {None}
    BY <1>1, <1>4, TabTypes DEF BeginAppend
  <2>2. view.bytes = Clean(view.journal)
    BY <1>4 DEF BeginAppend, TabSound, ViewSeen, Shown
  <2>3. bytes \in Bytes
    BY <2>1, <2>2, ExtendClean
  <2>4. op \in Operations
    <3> HIDE DEF bytes
    <3> QED  BY <2>1, <2>3 DEF Operations
  <2>5. effect \in Effects
    <3> HIDE DEF bytes
    <3> QED  BY <1>1, <2>1, <2>3, TabTypes DEF Effect, Effects, Kinds
  <2>6. /\ CanBegin(coordinator[t])
        /\ coordinator' = [coordinator EXCEPT ![t] = Begin(@, "commit")]
        /\ pending' = [pending EXCEPT ![t] = op]
        /\ calls' = [calls EXCEPT ![t] = @ \cup {effect}]
        /\ UNCHANGED <<stored, loaded, repair, answers>>
    BY <1>4 DEF BeginAppend, Issue
  <2> HIDE DEF op, effect
  <2> QED
    BY <1>1, <1>2, <2>4, <2>5, <2>6 DEF StoreTypeOK, Kinds
<1>5. CASE TakeRepair(t)
  BY <1>1, <1>5 DEF StoreTypeOK, TakeRepair
<1> QED  BY <1>3, <1>4, <1>5

(* What the host may find in `calls`. *)
LEMMA CallWanted ==
  ASSUME IInv, NEW t \in Tabs, NEW call \in calls[t]
  PROVE  /\ pending[t] # None /\ call = Wanted(t) /\ calls[t] = {call}
         /\ repair[t] = None /\ Replies(t) = {}
BY DEF IInv, TabSound, OnePlace

(* What a commit writes, and over what: an append only over the journal its  *)
(* tab shows, a repair only over the torn bytes it was made from.           *)
LEMMA CommitWrites ==
  ASSUME IInv, NEW t \in Tabs, NEW call \in calls[t], HostCommit(t, call)
  PROVE  /\ pending[t].kind \in {"append", "repair"}
         /\ stored' \in Values /\ Grown(stored, stored')
         /\ stored'.bytes = pending[t].bytes
         /\ stored'.bytes.tail = "none" /\ Decodes(stored'.bytes)
         /\ stored'.revision = NextRevision
         /\ Advances(pending[t].expected, NextRevision)
         /\ pending[t].kind = "append" =>
              /\ loaded[t] # None
              /\ loaded[t].journal
                   = IF stored = None THEN <<>> ELSE stored.bytes.events
              /\ stored'.bytes.events = Append(loaded[t].journal, t)
         /\ pending[t].kind = "repair" =>
              stored # None /\ stored'.bytes.events = stored.bytes.events
<1> USE DEF IInv
<1>1. StoreTypeOK /\ TabSound(t)
  OBVIOUS
<1>2. /\ pending[t] # None /\ call = Wanted(t) /\ call.kind = "commit"
      /\ MayCommit(call.expected)
      /\ stored' = [revision |-> NextRevision, bytes |-> call.bytes]
  BY CallWanted DEF HostCommit
<1>3. /\ pending[t].kind \in {"append", "repair"}
      /\ call.bytes = pending[t].bytes /\ call.expected = pending[t].expected
  BY <1>1, <1>2, WantedFields, OperationType
<1>4. stored # None => stored.revision \in Revisions /\ stored.bytes \in Bytes
  BY <1>1 DEF StoreTypeOK, Values
<1>5. /\ NextRevision \in Revisions
      /\ stored # None => stored.revision < NextRevision
      /\ pending[t].expected = IF stored = None THEN None ELSE stored.revision
  BY <1>2, <1>3, <1>4, StoreAssumption DEF MayCommit, NextRevision, Revisions
<1>6. Advances(pending[t].expected, NextRevision)
  BY <1>5 DEF Advances
<1>7. pending[t].bytes \in Bytes
  BY <1>1, <1>2, <1>3, OperationType
<1>8. /\ stored' \in Values /\ stored'.revision = NextRevision
      /\ stored'.bytes = pending[t].bytes
  BY <1>2, <1>3, <1>5, <1>7 DEF Values
<1>9. CASE pending[t].kind = "append"
  <2>1. loaded[t] # None /\ loaded[t].journal \in Seq(Tabs)
    BY <1>1, <1>2, <1>9, TabTypes DEF TabSound, OperationAwaited
  <2>2. /\ pending[t].bytes = Clean(Append(loaded[t].journal, t))
        /\ Len(loaded[t].journal) < MaxRecords
        /\ pending[t].expected = loaded[t].revision
    BY <1>1, <1>2, <1>9 DEF TabSound, AppendGrounded
  <2>3. /\ pending[t].bytes.events = Append(loaded[t].journal, t)
        /\ pending[t].bytes.tail = "none"
    BY <2>2 DEF Clean
  <2>4. loaded[t].journal = IF stored = None THEN <<>> ELSE stored.bytes.events
    <3>1. CASE stored = None
      BY <1>1, <1>5, <2>1, <2>2, <3>1 DEF TabSound, ViewSeen, Shown
    <3>2. CASE stored # None
      <4>1. loaded[t].revision = stored.revision /\ loaded[t].revision # None
        BY <1>4, <1>5, <2>2, <3>2, NoneAssumption
      <4>2. /\ Seen(stored, loaded[t].revision, loaded[t].bytes)
            /\ loaded[t].bytes = Clean(loaded[t].journal)
        BY <1>1, <2>1, <4>1 DEF TabSound, ViewSeen, Shown
      <4> QED  BY <3>2, <4>1, <4>2 DEF Seen, Clean
    <3> QED  BY <3>1, <3>2
  <2>5. Grown(stored, stored')
    BY <1>5, <1>8, <2>1, <2>3, <2>4, PrefixOfAppend DEF Grown
  <2>6. Decodes(pending[t].bytes)
    <3>1. Len(Append(loaded[t].journal, t)) = Len(loaded[t].journal) + 1
      BY <2>1
    <3>2. Len(loaded[t].journal) \in Nat
      BY <2>1
    <3> HIDE DEF IInv
    <3> QED  BY <2>2, <2>3, <3>1, <3>2, StoreAssumption DEF Decodes, Size
  <2> QED  BY <1>3, <1>6, <1>8, <1>9, <2>1, <2>3, <2>4, <2>5, <2>6
<1>10. CASE pending[t].kind = "repair"
  <2>1. /\ pending[t].bytes = Clean(pending[t].journal)
        /\ Len(pending[t].journal) < MaxRecords
        /\ Seen(stored, pending[t].expected,
                [events |-> pending[t].journal, tail |-> "torn"])
    BY <1>1, <1>2, <1>10 DEF TabSound, RepairGrounded
  <2>2. pending[t].journal \in Seq(Tabs)
    BY <1>1, <1>2, <1>10, OperationType
  <2>3. /\ pending[t].bytes.events = pending[t].journal
        /\ pending[t].bytes.tail = "none"
    BY <2>1 DEF Clean
  <2>4. stored # None /\ pending[t].expected = stored.revision
    BY <1>5, <2>1 DEF Seen
  <2>5. stored.bytes.events = pending[t].journal
    BY <2>1, <2>4 DEF Seen
  <2>6. Grown(stored, stored')
    BY <1>5, <1>8, <2>2, <2>3, <2>4, <2>5, PrefixOfAppend DEF Grown, IsPrefix
  <2>7. Decodes(pending[t].bytes)
    <3>1. Len(pending[t].journal) \in Nat
      BY <2>2
    <3> QED  BY <2>1, <2>3, <3>1, StoreAssumption DEF Decodes, Size
  <2> QED  BY <1>3, <1>6, <1>8, <1>10, <2>3, <2>4, <2>5, <2>6, <2>7
<1> QED  BY <1>3, <1>9, <1>10

LEMMA HostKeepsType ==
  ASSUME IInv, NEW t \in Tabs, Host(t)
  PROVE  StoreTypeOK'
<1> USE DEF IInv
<1>1. StoreTypeOK
  OBVIOUS
<1>2. ASSUME NEW call \in calls[t], NEW ok \in BOOLEAN,
             NEW value \in HostValues \cup {None},
             Answered(t, call, ok, value), stored' \in Values \cup {None}
      PROVE  StoreTypeOK'
  <2> DEFINE a == [id |-> call.id, kind |-> call.kind, ok |-> ok, value |-> value]
  <2>1. a \in HostAnswers
    BY <1>1, TabTypes DEF HostAnswers
  <2> HIDE DEF a
  <2>2. /\ calls' = [calls EXCEPT ![t] = @ \ {call}]
        /\ answers' = [answers EXCEPT ![t] = @ \cup {a}]
        /\ UNCHANGED <<loaded, pending, coordinator, repair>>
    BY <1>2 DEF Answered, a
  <2> QED  BY <1>1, <1>2, <2>1, <2>2 DEF StoreTypeOK
<1>3. PICK call \in calls[t] :
        HostLoad(t, call) \/ HostCommit(t, call) \/ HostFails(t, call)
  BY DEF Host
<1>4. stored \in Values \cup {None}
  BY <1>1 DEF StoreTypeOK
<1>5. CASE HostLoad(t, call)
  <2>1. stored \in HostValues \cup {None}
    BY <1>4 DEF Values, HostValues
  <2> QED  BY <1>2, <1>4, <1>5, <2>1 DEF HostLoad
<1>6. CASE HostFails(t, call)
  BY <1>2, <1>4, <1>6 DEF HostFails
<1>7. CASE HostCommit(t, call)
  <2>1. stored' \in Values /\ stored'.revision = NextRevision
    BY <1>7, CommitWrites
  <2>2. [revision |-> NextRevision, bytes |-> None] \in HostValues
    BY <2>1 DEF Values, HostValues
  <2> QED  BY <1>2, <1>7, <2>1, <2>2 DEF HostCommit
<1> QED  BY <1>3, <1>5, <1>6, <1>7

-----------------------------------------------------------------------------
(* An answer that the coordinator takes is the only one there is, and the    *)
(* effect it answers is in no one's hands any more.                         *)
LEMMA AnswerTaken ==
  ASSUME IInv, NEW t \in Tabs, NEW a \in answers[t],
         pending[t] # None, Answers(coordinator[t], a)
  PROVE  /\ calls[t] = {} /\ repair[t] = None
         /\ a.id = coordinator[t].awaited.id
         /\ a.ok => IF pending[t].kind = "load"
                    THEN a.value # None => /\ a.value \in Values
                           /\ Seen(stored, a.value.revision, a.value.bytes)
                    ELSE /\ a.value # None
                         /\ a.value.revision \in Revisions
                         /\ Advances(pending[t].expected, a.value.revision)
                         /\ Seen(stored, a.value.revision, pending[t].bytes)
<1> USE DEF IInv
<1>1. StoreTypeOK /\ TabSound(t)
  OBVIOUS
<1>2. a.id = coordinator[t].awaited.id
  BY DEF Answers
<1>3. calls[t] = {} /\ repair[t] = None
  BY <1>1, <1>2 DEF TabSound, OnePlace, Replies
<1>4. a.value # None => a.value.revision \in Revisions
  BY <1>1, TabTypes
<1> QED  BY <1>1, <1>2, <1>3, <1>4 DEF TabSound, ReplySeen

(* What an answer may make of what the tab shows: nothing, a first view, or   *)
(* the tab's own append, which the store holds.                             *)
Learnt(t, view) ==
  \/ view = loaded[t]
  \/ /\ view \in Views /\ Shown(stored, view)
     /\ \/ loaded[t] = None
        \/ /\ loaded[t] # None
           /\ view.revision # None
           /\ view.journal = Append(loaded[t].journal, t)

(* The answer ends the operation, and the tab is free to begin another. *)
Settled(t) ==
  /\ calls[t] = {} /\ repair[t] = None
  /\ pending' = [pending EXCEPT ![t] = None]
  /\ coordinator' = [coordinator EXCEPT ![t] = Consumed(@)]
  /\ UNCHANGED repair
  /\ \E view : loaded' = [loaded EXCEPT ![t] = view] /\ Learnt(t, view)

(* The answer to a load makes the tab cut a torn tail first. *)
Repairing(t) ==
  /\ calls[t] = {} /\ CanBegin(Consumed(coordinator[t]))
  /\ pending[t].kind = "load"
  /\ coordinator' = [coordinator EXCEPT
                       ![t] = Begin(Consumed(coordinator[t]), "commit")]
  /\ UNCHANGED loaded
  /\ \E value \in Values :
       /\ Len(value.bytes.events) < MaxRecords
       /\ Seen(stored, value.revision,
               [events |-> value.bytes.events, tail |-> "torn"])
       /\ pending' = [pending EXCEPT ![t] =
            [kind |-> "repair", journal |-> value.bytes.events,
             bytes |-> Clean(value.bytes.events), expected |-> value.revision]]
       /\ repair' = [repair EXCEPT ![t] =
            Effect(t, "commit", value.revision, Clean(value.bytes.events))]

LEMMA AcceptOutcome ==
  ASSUME IInv, NEW t \in Tabs, Accept(t)
  PROVE  /\ UNCHANGED <<stored, calls, answers>> /\ pending[t] # None
         /\ Settled(t) \/ Repairing(t)
<1> USE DEF IInv
<1>1. StoreTypeOK /\ TabSound(t)
  OBVIOUS
<1>2. PICK a \in answers[t] :
        /\ pending[t] # None
        /\ \/ AcceptFailure(t, a) \/ AcceptMissing(t, a)
           \/ AcceptUnreadable(t, a) \/ AcceptFound(t, a)
           \/ AcceptTorn(t, a) \/ AcceptAppended(t, a) \/ AcceptRepaired(t, a)
  BY DEF Accept
<1> SUFFICES Settled(t) \/ Repairing(t)
  BY <1>2 DEF Accept
<1>3. Answers(coordinator[t], a)
  BY <1>2 DEF Completes, AcceptFailure, AcceptMissing, AcceptUnreadable,
              AcceptFound, AcceptTorn, AcceptAppended, AcceptRepaired
<1>4. /\ calls[t] = {} /\ repair[t] = None
      /\ a.ok => IF pending[t].kind = "load"
                 THEN a.value # None => /\ a.value \in Values
                        /\ Seen(stored, a.value.revision, a.value.bytes)
                 ELSE /\ a.value # None /\ a.value.revision \in Revisions
                      /\ Advances(pending[t].expected, a.value.revision)
                      /\ Seen(stored, a.value.revision, pending[t].bytes)
  BY <1>2, <1>3, AnswerTaken
<1>5. loaded = [loaded EXCEPT ![t] = loaded[t]]
  BY <1>1 DEF StoreTypeOK
<1>6. ASSUME Completes(t, a), NEW view, Learnt(t, view),
             loaded' = [loaded EXCEPT ![t] = view]
      PROVE  Settled(t)
  BY <1>4, <1>6 DEF Settled, Completes
<1>7. ASSUME Completes(t, a), UNCHANGED loaded
      PROVE  Settled(t)
  BY <1>5, <1>6, <1>7 DEF Learnt
<1>8. pending[t].kind = "load" => loaded[t] = None
  BY <1>1, <1>2, OperationType DEF TabSound, OperationAwaited
<1>9. CASE AcceptFailure(t, a) \/ AcceptUnreadable(t, a)
  <2>1. Completes(t, a) /\ UNCHANGED loaded
    BY <1>9 DEF AcceptFailure, AcceptUnreadable
  <2> QED  BY <2>1, <1>7
<1>10. CASE AcceptMissing(t, a)
  <2> DEFINE view == [journal |-> <<>>, bytes |-> Clean(<<>>), revision |-> None]
  <2>1. Completes(t, a) /\ loaded' = [loaded EXCEPT ![t] = view]
    BY <1>10 DEF AcceptMissing, Establish
  <2>2. loaded[t] = None
    BY <1>8, <1>10 DEF AcceptMissing
  <2>3. <<>> \in Seq(Tabs)
    OBVIOUS
  <2>4. view \in Views
    BY <2>3 DEF Views, Clean, Bytes, Tails
  <2>5. Shown(stored, view)
    BY DEF Shown
  <2> QED  BY <1>6, <2>1, <2>2, <2>4, <2>5 DEF Learnt
<1>11. CASE AcceptFound(t, a)
  <2> DEFINE view == [journal |-> a.value.bytes.events, bytes |-> a.value.bytes,
                      revision |-> a.value.revision]
  <2>1. Completes(t, a) /\ loaded' = [loaded EXCEPT ![t] = view]
    BY <1>11 DEF AcceptFound, Establish
  <2>2. loaded[t] = None
    BY <1>8, <1>11 DEF AcceptFound
  <2>3. /\ a.value \in Values /\ a.value.bytes.tail = "none"
        /\ Seen(stored, a.value.revision, a.value.bytes)
    BY <1>4, <1>11 DEF AcceptFound
  <2>4. view \in Views
    BY <2>3 DEF Views, Values, Bytes
  <2>5. a.value.bytes = Clean(a.value.bytes.events)
    BY <2>3 DEF Values, Bytes, Clean
  <2>6. Shown(stored, view)
    BY <2>3, <2>5, NoneAssumption DEF Shown, Values
  <2> QED  BY <1>6, <2>1, <2>2, <2>4, <2>6 DEF Learnt
<1>12. CASE AcceptTorn(t, a)
  <2>1. CASE CanBegin(Consumed(coordinator[t]))
    <3>1. /\ pending[t].kind = "load" /\ a.value \in Values
          /\ a.value.bytes.tail = "torn" /\ Decodes(a.value.bytes)
          /\ Seen(stored, a.value.revision, a.value.bytes)
      BY <1>4, <1>12 DEF AcceptTorn
    <3>2. a.value.bytes = [events |-> a.value.bytes.events, tail |-> "torn"]
      BY <3>1 DEF Values, Bytes
    <3>3. Len(a.value.bytes.events) < MaxRecords
      <4>1. Len(a.value.bytes.events) \in Nat
        BY <3>1 DEF Values, Bytes
      <4> QED  BY <3>1, <4>1, StoreAssumption DEF Decodes, Size
    <3>4. /\ coordinator' = [coordinator EXCEPT
                 ![t] = Begin(Consumed(coordinator[t]), "commit")]
          /\ pending' = [pending EXCEPT ![t] =
               [kind |-> "repair", journal |-> a.value.bytes.events,
                bytes |-> Clean(a.value.bytes.events),
                expected |-> a.value.revision]]
          /\ repair' = [repair EXCEPT ![t] =
               Effect(t, "commit", a.value.revision, Clean(a.value.bytes.events))]
          /\ UNCHANGED loaded
      BY <1>12, <2>1 DEF AcceptTorn
    <3>5. Seen(stored, a.value.revision,
               [events |-> a.value.bytes.events, tail |-> "torn"])
      BY <3>1, <3>2
    <3>6. Repairing(t)
      BY <1>4, <2>1, <3>1, <3>3, <3>4, <3>5 DEF Repairing
    <3> QED  BY <3>6
  <2>2. CASE ~CanBegin(Consumed(coordinator[t]))
    <3>1. Completes(t, a) /\ UNCHANGED loaded
      BY <1>12, <2>2 DEF AcceptTorn
    <3> QED  BY <3>1, <1>7
  <2> QED  BY <2>1, <2>2
<1>13. CASE AcceptAppended(t, a)
  <2> DEFINE view == [journal  |-> Append(loaded[t].journal, pending[t].event),
                      bytes    |-> pending[t].bytes,
                      revision |-> a.value.revision]
  <2>1. Completes(t, a) /\ pending[t].kind = "append" /\ a.ok
    BY <1>13 DEF AcceptAppended
  <2>2. UNCHANGED loaded \/ loaded' = [loaded EXCEPT ![t] = view]
    BY <1>13 DEF AcceptAppended, Establish
  <2>3. loaded[t] # None /\ loaded[t].journal \in Seq(Tabs)
    BY <1>1, <1>2, <2>1, TabTypes DEF TabSound, OperationAwaited
  <2>4. /\ pending[t].event = t
        /\ pending[t].bytes = Clean(Append(loaded[t].journal, t))
    BY <1>1, <1>2, <2>1 DEF TabSound, AppendGrounded
  <2>5. /\ a.value.revision \in Revisions
        /\ Seen(stored, a.value.revision, pending[t].bytes)
    BY <1>4, <2>1
  <2>6. pending[t].bytes \in Bytes
    BY <1>1, <1>2, <2>1, OperationType
  <2>7. view \in Views /\ view.journal = Append(loaded[t].journal, t)
    BY <2>3, <2>4, <2>5, <2>6 DEF Views
  <2>8. Shown(stored, view) /\ view.revision # None
    BY <2>4, <2>5, NoneAssumption DEF Shown
  <2>9. Learnt(t, view)
    BY <2>3, <2>7, <2>8 DEF Learnt
  <2> HIDE DEF view
  <2> QED  BY <1>6, <1>7, <2>1, <2>2, <2>9
<1>14. CASE AcceptRepaired(t, a)
  <2> DEFINE view == [journal  |-> pending[t].journal, bytes |-> pending[t].bytes,
                      revision |-> a.value.revision]
  <2>1. Completes(t, a) /\ pending[t].kind = "repair" /\ a.ok
    BY <1>14 DEF AcceptRepaired
  <2>2. UNCHANGED loaded \/ loaded' = [loaded EXCEPT ![t] = view]
    BY <1>14 DEF AcceptRepaired, Establish
  <2>3. loaded[t] = None
    BY <1>1, <1>2, <2>1 DEF TabSound, OperationAwaited
  <2>4. pending[t].bytes = Clean(pending[t].journal)
    BY <1>1, <1>2, <2>1 DEF TabSound, RepairGrounded
  <2>5. /\ a.value.revision \in Revisions
        /\ Seen(stored, a.value.revision, pending[t].bytes)
    BY <1>4, <2>1
  <2>6. pending[t].bytes \in Bytes /\ pending[t].journal \in Seq(Tabs)
    BY <1>1, <1>2, <2>1, OperationType
  <2>7. view \in Views
    BY <2>5, <2>6 DEF Views
  <2>8. Shown(stored, view)
    BY <2>4, <2>5, NoneAssumption DEF Shown
  <2>9. Learnt(t, view)
    BY <2>3, <2>7, <2>8 DEF Learnt
  <2> HIDE DEF view
  <2> QED  BY <1>6, <1>7, <2>1, <2>2, <2>9
<1> QED  BY <1>2, <1>9, <1>10, <1>11, <1>12, <1>13, <1>14

LEMMA AcceptKeepsType ==
  ASSUME IInv, NEW t \in Tabs, Accept(t)
  PROVE  StoreTypeOK'
<1> USE DEF IInv
<1>1. StoreTypeOK /\ UNCHANGED <<stored, calls, answers>>
  BY AcceptOutcome
<1>2. /\ coordinator[t] \in Coordinators(Kinds)
      /\ Consumed(coordinator[t]) \in Coordinators(Kinds)
  BY <1>1, CoordinatorType DEF StoreTypeOK
<1>3. CASE Settled(t)
  <2>1. PICK view : loaded' = [loaded EXCEPT ![t] = view] /\ Learnt(t, view)
    BY <1>3 DEF Settled
  <2>2. view \in Views \cup {None}
    BY <1>1, <2>1 DEF Learnt, StoreTypeOK
  <2> QED  BY <1>1, <1>2, <1>3, <2>1, <2>2 DEF Settled, StoreTypeOK
<1>4. CASE Repairing(t)
  <2>1. PICK value \in Values :
          /\ pending' = [pending EXCEPT ![t] =
               [kind |-> "repair", journal |-> value.bytes.events,
                bytes |-> Clean(value.bytes.events), expected |-> value.revision]]
          /\ repair' = [repair EXCEPT ![t] =
               Effect(t, "commit", value.revision, Clean(value.bytes.events))]
    BY <1>4 DEF Repairing
  <2>2. value.bytes.events \in Seq(Tabs) /\ value.revision \in Revisions
    BY DEF Values, Bytes
  <2>3. Clean(value.bytes.events) \in Bytes
    BY <2>2 DEF Clean, Bytes, Tails
  <2>4. [kind |-> "repair", journal |-> value.bytes.events,
         bytes |-> Clean(value.bytes.events), expected |-> value.revision]
          \in Operations
    BY <2>2, <2>3 DEF Operations
  <2>5. Effect(t, "commit", value.revision, Clean(value.bytes.events)) \in Effects
    BY <1>1, <2>2, <2>3, TabTypes DEF Effect, Effects, Kinds
  <2>6. Begin(Consumed(coordinator[t]), "commit") \in Coordinators(Kinds)
    BY <1>2, <1>4, CoordinatorType DEF Repairing, Kinds
  <2> QED  BY <1>1, <1>4, <2>1, <2>4, <2>5, <2>6 DEF Repairing, StoreTypeOK
<1> QED  BY <1>3, <1>4, AcceptOutcome

LEMMA ReloadKeepsType ==
  ASSUME IInv, NEW t \in Tabs, Reload(t)
  PROVE  StoreTypeOK'
BY CoordinatorType DEF IInv, StoreTypeOK, Reload

-----------------------------------------------------------------------------
(* The acting tab stays sound, action by action. *)

LEMMA BeginLoadSound ==
  ASSUME IInv, StoreTypeOK', NEW t \in Tabs, BeginLoad(t)
  PROVE  TabSound(t)'
<1> USE DEF IInv
<1>1. StoreTypeOK /\ TabSound(t)
  OBVIOUS
<1>2. /\ loaded[t] = None /\ pending[t] = None /\ calls[t] = {}
      /\ repair[t] = None
  BY <1>1 DEF BeginLoad, CanBegin, TabSound, OperationAwaited, OnePlace
<1>3. /\ pending'[t] = [kind |-> "load"]
      /\ coordinator'[t].awaited = [id |-> coordinator[t].nextId, kind |-> "load"]
      /\ coordinator'[t].nextId = coordinator[t].nextId + 1
      /\ calls'[t] = {[id |-> coordinator[t].nextId, kind |-> "load",
                       expected |-> None, bytes |-> None]}
      /\ loaded'[t] = None /\ repair'[t] = None /\ answers'[t] = answers[t]
  BY <1>1, <1>2 DEF BeginLoad, Issue, Begin, Effect, StoreTypeOK
<1>4. pending'[t] # None /\ coordinator'[t].awaited # None
  <2>1. [kind |-> "load"] \in Operations
    BY DEF Operations
  <2>2. [id |-> coordinator[t].nextId, kind |-> "load"] \in Requests(Kinds)
    BY <1>1, TabTypes DEF Requests, Kinds
  <2> QED  BY <1>3, <2>1, <2>2, NoneAssumption
<1>5. \A a \in answers[t] : a.id # coordinator[t].nextId
  BY <1>1, TabTypes DEF TabSound, IdsSpent
<1>6. ViewSeen(t)' /\ OperationAwaited(t)'
  BY <1>3, <1>4 DEF ViewSeen, OperationAwaited
<1>7. IdsSpent(t)'
  BY <1>1, <1>3, TabTypes DEF TabSound, IdsSpent
<1>8. AppendGrounded(t)' /\ RepairGrounded(t)'
  BY <1>3 DEF AppendGrounded, RepairGrounded
<1>9. OnePlace(t)'
  <2>1. Replies(t)' = {}
    BY <1>3, <1>5 DEF Replies
  <2>2. calls'[t] = {Wanted(t)'}
    BY <1>3 DEF Wanted
  <2> QED  BY <1>3, <1>4, <2>1, <2>2 DEF OnePlace
<1>10. ReplySeen(t)'
  BY <1>3, <1>5 DEF ReplySeen
<1> QED  BY <1>6, <1>7, <1>8, <1>9, <1>10 DEF TabSound

LEMMA BeginAppendSound ==
  ASSUME IInv, StoreTypeOK', NEW t \in Tabs, BeginAppend(t)
  PROVE  TabSound(t)'
<1> USE DEF IInv
<1>1. StoreTypeOK /\ TabSound(t)
  OBVIOUS
<1>2. /\ loaded[t] # None /\ pending[t] = None /\ calls[t] = {}
      /\ repair[t] = None /\ Len(loaded[t].journal) < MaxRecords
  BY <1>1 DEF BeginAppend, CanBegin, TabSound, OperationAwaited, OnePlace
<1>3. loaded[t].journal \in Seq(Tabs)
  BY <1>1, <1>2, TabTypes
<1>4. Extend(loaded[t].bytes, t) = Clean(Append(loaded[t].journal, t))
  BY <1>1, <1>2, <1>3, ExtendClean DEF TabSound, ViewSeen, Shown
<1> DEFINE bytes == Clean(Append(loaded[t].journal, t))
<1> HIDE DEF bytes
<1>5. /\ pending'[t] = [kind |-> "append", event |-> t,
                        at |-> Len(loaded[t].journal), bytes |-> bytes,
                        expected |-> loaded[t].revision]
      /\ coordinator'[t].awaited
           = [id |-> coordinator[t].nextId, kind |-> "commit"]
      /\ coordinator'[t].nextId = coordinator[t].nextId + 1
      /\ calls'[t] = {[id |-> coordinator[t].nextId, kind |-> "commit",
                       expected |-> loaded[t].revision, bytes |-> bytes]}
      /\ loaded'[t] = loaded[t] /\ repair'[t] = None
      /\ answers'[t] = answers[t] /\ stored' = stored
  BY <1>1, <1>2, <1>4 DEF BeginAppend, Issue, Begin, Effect, StoreTypeOK, bytes
<1>6. pending'[t] # None /\ coordinator'[t].awaited # None
  <2>1. pending'[t] \in Operations
    <3>1. bytes \in Bytes
      BY <1>3, ExtendClean DEF bytes
    <3> QED  BY <1>1, <1>2, <1>3, <1>5, <3>1, TabTypes DEF Operations
  <2>2. [id |-> coordinator[t].nextId, kind |-> "commit"] \in Requests(Kinds)
    BY <1>1, TabTypes DEF Requests, Kinds
  <2> QED  BY <1>5, <2>1, <2>2, NoneAssumption
<1>7. \A a \in answers[t] : a.id # coordinator[t].nextId
  BY <1>1, TabTypes DEF TabSound, IdsSpent
<1>8. ViewSeen(t)'
  BY <1>1, <1>5 DEF TabSound, ViewSeen
<1>9. OperationAwaited(t)'
  BY <1>2, <1>5, <1>6 DEF OperationAwaited
<1>10. IdsSpent(t)'
  BY <1>1, <1>5, TabTypes DEF TabSound, IdsSpent
<1>11. AppendGrounded(t)' /\ RepairGrounded(t)'
  BY <1>2, <1>5 DEF AppendGrounded, RepairGrounded, bytes
<1>12. OnePlace(t)'
  <2>1. Replies(t)' = {}
    BY <1>5, <1>7 DEF Replies
  <2>2. calls'[t] = {Wanted(t)'}
    BY <1>5 DEF Wanted
  <2> QED  BY <1>5, <1>6, <2>1, <2>2 DEF OnePlace
<1>13. ReplySeen(t)'
  BY <1>5, <1>7 DEF ReplySeen
<1> QED  BY <1>8, <1>9, <1>10, <1>11, <1>12, <1>13 DEF TabSound

LEMMA TakeRepairSound ==
  ASSUME IInv, StoreTypeOK', NEW t \in Tabs, TakeRepair(t)
  PROVE  TabSound(t)'
<1> USE DEF IInv
<1>1. StoreTypeOK /\ TabSound(t)
  OBVIOUS
<1>2. /\ repair[t] = Wanted(t) /\ calls[t] = {} /\ Replies(t) = {}
      /\ pending[t] # None
  BY <1>1 DEF TabSound, OnePlace, TakeRepair
<1>3. /\ calls'[t] = {Wanted(t)} /\ repair'[t] = None
      /\ UNCHANGED <<stored, loaded, pending, coordinator, answers>>
  BY <1>1, <1>2 DEF TakeRepair, StoreTypeOK
<1>4. Wanted(t)' = Wanted(t) /\ Replies(t)' = Replies(t)
  BY <1>3 DEF Wanted, Replies
<1>5. OnePlace(t)'
  BY <1>2, <1>3, <1>4 DEF OnePlace
<1>6. /\ ViewSeen(t)' /\ IdsSpent(t)' /\ OperationAwaited(t)'
      /\ AppendGrounded(t)' /\ RepairGrounded(t)' /\ ReplySeen(t)'
  BY <1>1, <1>3 DEF TabSound, ViewSeen, IdsSpent, OperationAwaited,
       AppendGrounded, RepairGrounded, ReplySeen
<1> QED  BY <1>5, <1>6 DEF TabSound

LEMMA ReloadSound ==
  ASSUME IInv, StoreTypeOK', NEW t \in Tabs, Reload(t)
  PROVE  TabSound(t)'
<1>1. /\ loaded'[t] = None /\ pending'[t] = None /\ calls'[t] = {}
      /\ coordinator'[t].awaited = None /\ repair'[t] = None
      /\ answers'[t] = {}
  BY DEF IInv, StoreTypeOK, Reload, NewCoordinator
<1> QED
  BY <1>1 DEF TabSound, ViewSeen, IdsSpent, OperationAwaited, AppendGrounded,
       RepairGrounded, OnePlace, ReplySeen

LEMMA HostSound ==
  ASSUME IInv, StoreTypeOK', NEW t \in Tabs, Host(t)
  PROVE  TabSound(t)' /\ Grown(stored, stored')
<1> USE DEF IInv
<1>1. StoreTypeOK /\ TabSound(t)
  OBVIOUS
<1>2. PICK call \in calls[t] :
        HostLoad(t, call) \/ HostCommit(t, call) \/ HostFails(t, call)
  BY DEF Host
<1>3. /\ pending[t] # None /\ call = Wanted(t) /\ calls[t] = {call}
      /\ repair[t] = None /\ Replies(t) = {}
      /\ call.id = coordinator[t].awaited.id
      /\ call.kind = coordinator[t].awaited.kind
  BY CallWanted, WantedFields
<1>4. Grown(stored, stored')
  BY <1>2, CommitWrites DEF Grown, HostLoad, HostFails
<1>5. PICK a :
        /\ a.id = call.id
        /\ answers' = [answers EXCEPT ![t] = @ \cup {a}]
        /\ \/ HostFails(t, call) /\ ~a.ok
           \/ HostLoad(t, call) /\ a.value = stored
           \/ HostCommit(t, call)
              /\ a.value = [revision |-> NextRevision, bytes |-> None]
  <2>1. ASSUME NEW ok, NEW value, Answered(t, call, ok, value)
        PROVE  \E a : /\ a.id = call.id /\ a.ok = ok /\ a.value = value
                      /\ answers' = [answers EXCEPT ![t] = @ \cup {a}]
    <3> DEFINE a == [id |-> call.id, kind |-> call.kind, ok |-> ok, value |-> value]
    <3>1. /\ a.id = call.id /\ a.ok = ok /\ a.value = value
          /\ answers' = [answers EXCEPT ![t] = @ \cup {a}]
      BY <2>1 DEF Answered
    <3> HIDE DEF a
    <3> QED  BY <3>1
  <2>2. CASE HostFails(t, call)
    BY <2>1, <2>2 DEF HostFails
  <2>3. CASE HostLoad(t, call)
    <3>1. Answered(t, call, TRUE, stored)
      BY <2>3 DEF HostLoad
    <3>2. \E a : /\ a.id = call.id /\ a.value = stored
                /\ answers' = [answers EXCEPT ![t] = @ \cup {a}]
      BY <2>1, <3>1
    <3> QED  BY <2>3, <3>2
  <2>4. CASE HostCommit(t, call)
    <3> DEFINE value == [revision |-> NextRevision, bytes |-> None]
    <3>1. Answered(t, call, TRUE, value)
      BY <2>4 DEF HostCommit
    <3> HIDE DEF value
    <3>2. \E a : /\ a.id = call.id /\ a.value = value
                /\ answers' = [answers EXCEPT ![t] = @ \cup {a}]
      BY <2>1, <3>1
    <3> QED  BY <2>4, <3>2 DEF value
  <2> QED  BY <1>2, <2>2, <2>3, <2>4
<1>6. /\ calls' = [calls EXCEPT ![t] = @ \ {call}]
      /\ UNCHANGED <<loaded, pending, coordinator, repair>>
  BY <1>2 DEF HostLoad, HostCommit, HostFails, Answered
<1>7. answers'[t] = answers[t] \cup {a} /\ calls'[t] = {}
  BY <1>1, <1>3, <1>5, <1>6 DEF StoreTypeOK
<1>8. ViewSeen(t)' /\ RepairGrounded(t)'
  BY <1>4, <1>6, KnowledgeKept
<1>9. OperationAwaited(t)' /\ AppendGrounded(t)'
  BY <1>1, <1>6 DEF TabSound, OperationAwaited, AppendGrounded
<1>10. coordinator[t].awaited # None
  BY <1>1, <1>3 DEF TabSound, OperationAwaited
<1>11. IdsSpent(t)'
  BY <1>1, <1>3, <1>5, <1>6, <1>7, <1>10 DEF TabSound, IdsSpent
<1>12. OnePlace(t)'
  <2>1. Replies(t)' = {a}
    BY <1>3, <1>5, <1>6, <1>7 DEF Replies
  <2> QED  BY <1>3, <1>6, <1>7, <2>1 DEF OnePlace
<1>13. ReplySeen(t)'
  <2>1. SUFFICES
          ASSUME a.ok
          PROVE  IF pending[t].kind = "load"
                 THEN a.value # None => a.value \in Values
                        /\ Seen(stored', a.value.revision, a.value.bytes)
                 ELSE /\ a.value # None
                      /\ Advances(pending[t].expected, a.value.revision)
                      /\ Seen(stored', a.value.revision, pending[t].bytes)
    <3>1. ASSUME NEW b \in answers'[t], b.id = coordinator[t].awaited.id
          PROVE  b = a
      BY <1>3, <1>7, <3>1 DEF Replies
    <3> QED  BY <1>6, <3>1 DEF ReplySeen
  <2>2. CASE HostLoad(t, call)
    <3>1. /\ pending[t].kind = "load" /\ a.value = stored /\ stored' = stored
      BY <1>3, <1>5, <2>1, <2>2, WantedFields DEF HostLoad, HostFails, HostCommit
    <3>2. ASSUME stored # None
          PROVE  stored \in Values /\ IsPrefix(stored.bytes.events, stored.bytes.events)
                 /\ stored.revision <= stored.revision
      <4>1. /\ stored \in Values /\ stored.bytes.events \in Seq(Tabs)
            /\ stored.revision \in Nat
        BY <1>1, <3>2 DEF StoreTypeOK, Values, Bytes, Revisions
      <4> QED  BY <4>1 DEF IsPrefix
    <3> QED  BY <3>1, <3>2 DEF Seen
  <2>3. CASE HostCommit(t, call)
    <3>1. /\ pending[t].kind \in {"append", "repair"}
          /\ stored' \in Values /\ stored'.bytes = pending[t].bytes
          /\ stored'.revision = NextRevision
          /\ Advances(pending[t].expected, NextRevision)
      BY <2>3, CommitWrites
    <3>2. a.value = [revision |-> NextRevision, bytes |-> None]
      BY <1>3, <1>5, <2>1, <2>3, <3>1, WantedFields DEF HostLoad, HostFails, HostCommit
    <3>3. a.value # None
      <4>1. a.value \in HostValues
        BY <3>1, <3>2 DEF Values, HostValues
      <4> QED  BY <4>1, NoneAssumption
    <3>4. stored'.bytes.events \in Seq(Tabs) /\ stored'.revision \in Nat
      BY <3>1 DEF Values, Bytes, Revisions
    <3>5. Seen(stored', NextRevision, pending[t].bytes)
      BY <3>1, <3>4, NoneAssumption DEF Seen, IsPrefix
    <3> QED  BY <3>1, <3>2, <3>3, <3>5
  <2> QED  BY <1>2, <1>5, <2>1, <2>2, <2>3
<1> QED  BY <1>4, <1>8, <1>9, <1>11, <1>12, <1>13 DEF TabSound

LEMMA AcceptSound ==
  ASSUME IInv, StoreTypeOK', NEW t \in Tabs, Accept(t)
  PROVE  TabSound(t)'
<1> USE DEF IInv
<1>1. /\ StoreTypeOK /\ TabSound(t) /\ pending[t] # None
      /\ UNCHANGED <<stored, calls, answers>>
  BY AcceptOutcome
<1>2. coordinator[t].awaited # None
  BY <1>1 DEF TabSound, OperationAwaited
<1>3. CASE Settled(t)
  <2>1. PICK view : loaded' = [loaded EXCEPT ![t] = view] /\ Learnt(t, view)
    BY <1>3 DEF Settled
  <2>2. /\ pending'[t] = None /\ coordinator'[t].awaited = None
        /\ coordinator'[t].nextId = coordinator[t].nextId
        /\ calls'[t] = {} /\ repair'[t] = None /\ loaded'[t] = view
        /\ answers'[t] = answers[t]
    BY <1>1, <1>3, <2>1 DEF Settled, Consumed, StoreTypeOK, Coordinators
  <2>3. ViewSeen(t)'
    BY <1>1, <2>1, <2>2 DEF TabSound, ViewSeen, Learnt
  <2>4. IdsSpent(t)'
    BY <1>1, <2>2 DEF TabSound, IdsSpent
  <2>5. /\ OperationAwaited(t)' /\ AppendGrounded(t)' /\ RepairGrounded(t)'
        /\ OnePlace(t)' /\ ReplySeen(t)'
    BY <2>2 DEF OperationAwaited, AppendGrounded, RepairGrounded, OnePlace,
         ReplySeen
  <2> QED  BY <2>3, <2>4, <2>5 DEF TabSound
<1>4. CASE Repairing(t)
  <2>1. PICK value \in Values :
          /\ Len(value.bytes.events) < MaxRecords
          /\ Seen(stored, value.revision,
                  [events |-> value.bytes.events, tail |-> "torn"])
          /\ pending' = [pending EXCEPT ![t] =
               [kind |-> "repair", journal |-> value.bytes.events,
                bytes |-> Clean(value.bytes.events), expected |-> value.revision]]
          /\ repair' = [repair EXCEPT ![t] =
               Effect(t, "commit", value.revision, Clean(value.bytes.events))]
    BY <1>4 DEF Repairing
  <2>2. loaded[t] = None
    BY <1>1, <1>4 DEF TabSound, OperationAwaited, Repairing
  <2>3. /\ pending'[t] = [kind |-> "repair", journal |-> value.bytes.events,
                          bytes |-> Clean(value.bytes.events),
                          expected |-> value.revision]
        /\ coordinator'[t].awaited
             = [id |-> coordinator[t].nextId, kind |-> "commit"]
        /\ coordinator'[t].nextId = coordinator[t].nextId + 1
        /\ repair'[t] = [id |-> coordinator[t].nextId, kind |-> "commit",
                         expected |-> value.revision,
                         bytes |-> Clean(value.bytes.events)]
        /\ calls'[t] = {} /\ loaded'[t] = None /\ answers'[t] = answers[t]
        /\ stored' = stored
    BY <1>1, <1>4, <2>1, <2>2
       DEF Repairing, Begin, Consumed, Effect, StoreTypeOK, Coordinators
  <2>4. pending'[t] # None /\ coordinator'[t].awaited # None
    <3>1. pending'[t] \in Operations
      BY <2>3, OperationType, ExtendClean DEF Operations, Values, Bytes, Clean, Tails
    <3>2. coordinator'[t].awaited \in Requests(Kinds)
      BY <1>1, <2>3, TabTypes DEF Requests, Kinds
    <3> QED  BY <3>1, <3>2, NoneAssumption
  <2>5. \A a \in answers[t] : a.id # coordinator[t].nextId
    BY <1>1, TabTypes DEF TabSound, IdsSpent
  <2>6. ViewSeen(t)' /\ OperationAwaited(t)'
    BY <2>3, <2>4 DEF ViewSeen, OperationAwaited
  <2>7. IdsSpent(t)'
    BY <1>1, <2>3, TabTypes DEF TabSound, IdsSpent
  <2>8. AppendGrounded(t)'
    BY <2>3 DEF AppendGrounded
  <2>9. RepairGrounded(t)'
    BY <2>1, <2>3 DEF RepairGrounded
  <2>10. OnePlace(t)'
    <3>1. Replies(t)' = {}
      BY <2>3, <2>5 DEF Replies
    <3>2. repair'[t] = Wanted(t)'
      BY <2>3 DEF Wanted
    <3> QED  BY <2>3, <2>4, <3>1, <3>2 DEF OnePlace
  <2>11. ReplySeen(t)'
    BY <2>3, <2>5 DEF ReplySeen
  <2> QED  BY <2>6, <2>7, <2>8, <2>9, <2>10, <2>11 DEF TabSound
<1> QED  BY <1>3, <1>4, AcceptOutcome

-----------------------------------------------------------------------------
(* The invariant is inductive. *)

LEMMA InitSound == Init => IInv
<1> SUFFICES ASSUME Init
             PROVE  IInv
  OBVIOUS
<1>1. InitialBytes \subseteq Bytes
  BY StoreAssumption DEF Bytes, Tails
<1>2. StoreTypeOK
  BY <1>1, CoordinatorType DEF Init, StoreTypeOK, Values
<1>3. ASSUME NEW t \in Tabs
      PROVE  TabSound(t)
  <2>1. /\ loaded[t] = None /\ pending[t] = None /\ calls[t] = {}
        /\ coordinator[t].awaited = None /\ repair[t] = None /\ answers[t] = {}
    BY DEF Init, NewCoordinator
  <2> QED
    BY <2>1 DEF TabSound, ViewSeen, IdsSpent, OperationAwaited, AppendGrounded,
         RepairGrounded, OnePlace, ReplySeen
<1> QED  BY <1>2, <1>3 DEF IInv

(* One tab's step leaves the other tabs' own state alone. *)
LEMMA OneTabActs ==
  ASSUME StoreTypeOK, NEW t \in Tabs, Tab(t), NEW u \in Tabs, u # t
  PROVE  /\ loaded'[u] = loaded[u] /\ pending'[u] = pending[u]
         /\ coordinator'[u] = coordinator[u] /\ repair'[u] = repair[u]
         /\ calls'[u] = calls[u] /\ answers'[u] = answers[u]
<1> USE DEF StoreTypeOK
<1>1. CASE BeginLoad(t) \/ BeginAppend(t)
  BY <1>1 DEF BeginLoad, BeginAppend, Issue
<1>2. CASE Host(t)
  BY <1>2 DEF Host, HostLoad, HostCommit, HostFails, Answered
<1>3. CASE Accept(t)
  BY <1>3 DEF Accept, AcceptFailure, AcceptMissing, AcceptUnreadable, AcceptFound,
       AcceptTorn, AcceptAppended, AcceptRepaired, Completes, Establish
<1>4. CASE TakeRepair(t) \/ Reload(t)
  BY <1>4 DEF TakeRepair, Reload
<1> QED  BY <1>1, <1>2, <1>3, <1>4 DEF Tab

LEMMA TabStep ==
  ASSUME IInv, NEW t \in Tabs, Tab(t)
  PROVE  IInv' /\ Grown(stored, stored')
<1>1. StoreTypeOK'
  BY RequestsKeepType, HostKeepsType, AcceptKeepsType, ReloadKeepsType DEF Tab
<1>2. Grown(stored, stored')
  <2>1. CASE Host(t)
    BY <1>1, <2>1, HostSound
  <2>2. CASE ~Host(t)
    BY <2>2 DEF Tab, BeginLoad, BeginAppend, Accept, TakeRepair, Reload, Grown
  <2> QED  BY <2>1, <2>2
<1>3. TabSound(t)'
  BY <1>1, BeginLoadSound, BeginAppendSound, HostSound, AcceptSound,
     TakeRepairSound, ReloadSound DEF Tab
<1>4. ASSUME NEW u \in Tabs, u # t
      PROVE  TabSound(u)'
  BY <1>1, <1>2, <1>4, OneTabActs, OthersKeep DEF IInv
<1> QED  BY <1>1, <1>2, <1>3, <1>4 DEF IInv

LEMMA StepKeeps ==
  ASSUME IInv, [Next]_vars
  PROVE  IInv' /\ Grown(stored, stored')
<1>1. CASE UNCHANGED vars
  BY <1>1 DEF vars, IInv, StoreTypeOK, TabSound, ViewSeen, IdsSpent, OperationAwaited,
       AppendGrounded, RepairGrounded, OnePlace, ReplySeen, Wanted, Replies, Grown
<1>2. CASE Next
  BY <1>2, TabStep DEF Next
<1> QED  BY <1>1, <1>2

(* Every tab stays sound: what it has loaded was stored, its operation is one *)
(* place's to end, and what a call or an answer carries fits what it saw.    *)
THEOREM Inductive == Spec => []IInv
<1>1. IInv /\ [Next]_vars => IInv'
  BY StepKeeps
<1> QED  BY <1>1, InitSound, PTL DEF Spec

(* Every reachable state of the shared journal has its types.               *)
THEOREM TypeCorrect == Spec => []StoreTypeOK
<1>1. IInv => StoreTypeOK
  BY DEF IInv
<1> QED  BY <1>1, Inductive, PTL

(* What a tab shows is what the store holds, or held, and two tabs that name *)
(* one revision mean the same bytes, for any number of tabs.                *)
THEOREM ViewsProven == Spec => []ViewsAreProven
<1>1. IInv => ViewsAreProven
  BY DEF IInv, TabSound, ViewSeen, Shown, Seen, ViewsAreProven, Clean
<1> QED  BY <1>1, Inductive, PTL

(* The store only ever becomes a whole journal within the bound.            *)
THEOREM CommitsAlwaysDecode == Spec => CommitsDecode
<1>1. IInv /\ [Next]_vars =>
        [stored' # stored =>
           /\ stored' # None /\ Decodes(stored'.bytes)
           /\ stored'.bytes.tail = "none"]_vars
  <2> SUFFICES ASSUME IInv, Next, stored' # stored
               PROVE  /\ stored' # None /\ Decodes(stored'.bytes)
                      /\ stored'.bytes.tail = "none"
    BY DEF vars
  <2>1. PICK t \in Tabs : Tab(t)
    BY DEF Next
  <2>2. Host(t)
    BY <2>1 DEF Tab, BeginLoad, BeginAppend, Accept, TakeRepair, Reload
  <2>3. PICK call \in calls[t] : HostCommit(t, call)
    BY <2>2 DEF Host, HostLoad, HostFails
  <2> QED  BY <2>3, CommitWrites, NoneAssumption
<1> QED  BY <1>1, Inductive, PTL DEF Spec, CommitsDecode

(* The store and its coordinator agree on what is under way, and its effect  *)
(* is in exactly one place, however many tabs there are.                    *)
THEOREM OperationsAlwaysAgree == Spec => []OperationsAgree
<1>1. IInv => OperationsAgree
  <2> SUFFICES ASSUME IInv, NEW t \in Tabs
               PROVE  LET c  == coordinator[t]
                          op == pending[t]
                      IN  /\ (op = None) <=> (c.awaited = None)
                          /\ op # None =>
                               /\ (op.kind = "load") <=> (c.awaited.kind = "load")
                               /\ (op.kind = "append") <=> (loaded[t] # None)
                               /\ op.kind = "append" =>
                                    /\ op.at = Len(loaded[t].journal)
                                    /\ op.expected = loaded[t].revision
                               /\ \A a \in answers[t] :
                                    (Answers(c, a) /\ a.ok /\ op.kind # "load")
                                      => Advances(op.expected, a.value.revision)
                               /\ Cardinality({a \in answers[t] : a.id = c.awaited.id})
                                  + Cardinality({call \in calls[t] :
                                                   call.id = c.awaited.id})
                                  + (IF repair[t] # None
                                        /\ repair[t].id = c.awaited.id
                                     THEN 1 ELSE 0) = 1
    BY DEF OperationsAgree
  <2> DEFINE asked == {call \in calls[t] : call.id = coordinator[t].awaited.id}
             held  == IF repair[t] # None
                         /\ repair[t].id = coordinator[t].awaited.id
                      THEN 1 ELSE 0
  <2>1. TabSound(t) /\ StoreTypeOK
    BY DEF IInv
  <2>2. (pending[t] = None) <=> (coordinator[t].awaited = None)
    BY <2>1 DEF TabSound, OperationAwaited
  <2>3. ASSUME pending[t] # None
        PROVE  /\ (pending[t].kind = "load")
                    <=> (coordinator[t].awaited.kind = "load")
               /\ (pending[t].kind = "append") <=> (loaded[t] # None)
               /\ pending[t].kind = "append" =>
                    /\ pending[t].at = Len(loaded[t].journal)
                    /\ pending[t].expected = loaded[t].revision
    BY <2>1, <2>3 DEF TabSound, OperationAwaited, AppendGrounded
  <2>4. ASSUME pending[t] # None, NEW a \in answers[t],
               Answers(coordinator[t], a), a.ok, pending[t].kind # "load"
        PROVE  Advances(pending[t].expected, a.value.revision)
    BY <2>4, AnswerTaken
  <2>5. ASSUME pending[t] # None
        PROVE  Cardinality(Replies(t)) + Cardinality(asked) + held = 1
    <3>1. Wanted(t).id = coordinator[t].awaited.id /\ Wanted(t) # None
      BY <2>5, WantedFields, NoneAssumption
    <3>2. /\ Cardinality({}) = 0
          /\ \A x : Cardinality({x}) = 1
      BY FS_EmptySet, FS_Singleton
    <3>3. CASE calls[t] = {Wanted(t)} /\ repair[t] = None /\ Replies(t) = {}
      <4>1. asked = {Wanted(t)} /\ held = 0
        BY <3>1, <3>3
      <4>2. Cardinality(asked) = 1 /\ Cardinality(Replies(t)) = 0
        BY <3>2, <3>3, <4>1, Zenon
      <4> QED  BY <4>1, <4>2
    <3>4. CASE calls[t] = {} /\ repair[t] = Wanted(t) /\ Replies(t) = {}
      <4>1. asked = {} /\ held = 1
        BY <3>1, <3>4
      <4>2. Cardinality(asked) = 0 /\ Cardinality(Replies(t)) = 0
        BY <3>2, <3>4, <4>1, Zenon
      <4> QED  BY <4>1, <4>2
    <3>5. CASE /\ calls[t] = {} /\ repair[t] = None
               /\ \E a \in answers[t] : Replies(t) = {a}
      <4>1. asked = {} /\ held = 0
        BY <3>5
      <4>2. Cardinality(asked) = 0 /\ Cardinality(Replies(t)) = 1
        BY <3>2, <3>5, <4>1, Zenon
      <4> QED  BY <4>1, <4>2
    <3> QED  BY <2>1, <2>5, <3>3, <3>4, <3>5 DEF TabSound, OnePlace
  <2>6. \A a \in answers[t] :
          pending[t] # None =>
            ((Answers(coordinator[t], a) /\ a.ok /\ pending[t].kind # "load")
              => Advances(pending[t].expected, a.value.revision))
    BY <2>4
  <2> HIDE DEF asked, held
  <2> QED  BY <2>2, <2>3, <2>5, <2>6 DEF asked, held, Replies
<1> QED  BY <1>1, Inductive, PTL

-----------------------------------------------------------------------------
(* The refinement: each step of the tabs is a step of the shared log.       *)

LEMMA InitIsLogInit == Init => Shared!LogInit
<1> SUFFICES ASSUME Init
             PROVE  Shared!LogInit
  OBVIOUS
<1>1. InitialBytes \subseteq Bytes
  BY StoreAssumption DEF Bytes, Tails
<1>2. StoredJournal \in Seq(Tabs)
  BY <1>1 DEF StoredJournal, Init, Bytes
<1>3. ShownJournals = [t \in Tabs |-> None]
  BY DEF Init, ShownJournals
<1> QED  BY <1>2, <1>3 DEF Shared!LogInit

(* A commit of an append writes what follows the journal its tab has seen to  *)
(* the end; a commit of a repair leaves the records as they are.            *)
LEMMA HostLogs ==
  ASSUME IInv, NEW t \in Tabs, Host(t)
  PROVE  Shared!Write(t) \/ UNCHANGED <<StoredJournal, ShownJournals>>
<1>1. StoreTypeOK
  BY DEF IInv
<1>2. PICK call \in calls[t] :
        HostLoad(t, call) \/ HostCommit(t, call) \/ HostFails(t, call)
  BY DEF Host
<1>3. UNCHANGED ShownJournals
  BY <1>2 DEF HostLoad, HostCommit, HostFails, Answered, ShownJournals
<1>4. CASE HostLoad(t, call) \/ HostFails(t, call)
  BY <1>3, <1>4 DEF HostLoad, HostFails, StoredJournal
<1>5. CASE HostCommit(t, call)
  <2>1. stored' # None
    BY <1>5, CommitWrites, NoneAssumption
  <2>2. CASE pending[t].kind = "append"
    <3>1. /\ loaded[t] # None /\ loaded[t].journal = StoredJournal
          /\ stored'.bytes.events = Append(loaded[t].journal, t)
      BY <1>5, <2>2, CommitWrites DEF StoredJournal
    <3>2. ShownJournals[t] = StoredJournal
      BY <3>1 DEF ShownJournals
    <3>3. StoredJournal' = Append(StoredJournal, t)
      BY <2>1, <3>1 DEF StoredJournal
    <3> QED  BY <1>3, <3>2, <3>3 DEF Shared!Write
  <2>3. CASE pending[t].kind = "repair"
    BY <1>3, <1>5, <2>1, <2>3, CommitWrites DEF StoredJournal
  <2> QED  BY <1>5, <2>2, <2>3, CommitWrites
<1> QED  BY <1>2, <1>4, <1>5

(* An answer is a first look at the log, news of the tab's own write, or      *)
(* nothing that shows.                                                      *)
LEMMA AcceptLogs ==
  ASSUME IInv, NEW t \in Tabs, Accept(t)
  PROVE  \/ Shared!Learn(t) \/ Shared!Hear(t)
         \/ UNCHANGED <<StoredJournal, ShownJournals>>
<1>1. StoreTypeOK /\ stored' = stored
  BY AcceptOutcome DEF IInv
<1>2. StoredJournal' = StoredJournal
  BY <1>1 DEF StoredJournal
<1>3. CASE Repairing(t)
  BY <1>2, <1>3 DEF Repairing, ShownJournals
<1>4. CASE Settled(t)
  <2>1. PICK view : loaded' = [loaded EXCEPT ![t] = view] /\ Learnt(t, view)
    BY <1>4 DEF Settled
  <2>2. CASE view = loaded[t]
    <3>1. loaded' = loaded
      BY <1>1, <2>1, <2>2 DEF StoreTypeOK
    <3> QED  BY <1>2, <3>1 DEF ShownJournals
  <2>3. CASE view # loaded[t]
    <3>1. view \in Views /\ Shown(stored, view) /\ view # None
      BY <2>1, <2>3, NoneAssumption DEF Learnt
    <3>2. /\ view.journal \in Seq(Tabs) /\ StoredJournal \in Seq(Tabs)
          /\ IsPrefix(view.journal, StoredJournal)
      <4>1. view.journal \in Seq(Tabs) /\ view.bytes.events = view.journal
        BY <3>1 DEF Views, Shown, Clean
      <4>2. StoredJournal \in Seq(Tabs)
        BY <1>1 DEF StoreTypeOK, StoredJournal, Values, Bytes
      <4>3. CASE view.revision = None
        <5>1. view.journal = <<>>
          BY <3>1, <4>3 DEF Shown
        <5> QED  BY <4>1, <4>2, <5>1 DEF IsPrefix
      <4>4. CASE view.revision # None
        BY <3>1, <4>1, <4>2, <4>4 DEF Shown, Seen, StoredJournal
      <4> QED  BY <4>3, <4>4
    <3>3. ShownJournals' = [ShownJournals EXCEPT ![t] = view.journal]
      BY <1>1, <2>1, <3>1 DEF ShownJournals, StoreTypeOK
    <3>4. CASE loaded[t] = None
      <4>1. ShownJournals[t] = None
        BY <3>4 DEF ShownJournals
      <4>2. /\ Len(view.journal) \in 0 .. Len(StoredJournal)
            /\ view.journal = SubSeq(StoredJournal, 1, Len(view.journal))
        BY <3>2 DEF IsPrefix
      <4> QED  BY <1>2, <3>3, <4>1, <4>2 DEF Shared!Learn
    <3>5. CASE loaded[t] # None
      <4>1. view.journal = Append(loaded[t].journal, t)
        BY <2>1, <2>3, <3>5 DEF Learnt
      <4>2. ShownJournals[t] = loaded[t].journal /\ ShownJournals[t] # None
        BY <1>1, <3>5, TabTypes, NoneAssumption DEF ShownJournals
      <4>3. /\ ShownJournals'
                 = [ShownJournals EXCEPT ![t] = Append(ShownJournals[t], t)]
            /\ Shared!IsPrefix(Append(ShownJournals[t], t), StoredJournal)
        BY <3>2, <3>3, <4>1, <4>2 DEF IsPrefix, Shared!IsPrefix
      <4> QED  BY <1>2, <4>2, <4>3 DEF Shared!Hear
    <3> QED  BY <3>4, <3>5
  <2> QED  BY <2>2, <2>3
<1> QED  BY <1>3, <1>4, AcceptOutcome

LEMMA StepIsLogStep ==
  ASSUME IInv, [Next]_vars
  PROVE  [Shared!LogNext]_(Shared!logVars)
<1>1. StoreTypeOK
  BY DEF IInv
<1>2. CASE UNCHANGED vars
  BY <1>2 DEF vars, Shared!logVars, StoredJournal, ShownJournals
<1>3. ASSUME NEW t \in Tabs, Tab(t)
      PROVE  [Shared!LogNext]_(Shared!logVars)
  <2>1. CASE Host(t)
    BY <2>1, HostLogs DEF Shared!LogNext, Shared!logVars
  <2>2. CASE Accept(t)
    BY <2>2, AcceptLogs DEF Shared!LogNext, Shared!logVars
  <2>3. CASE Reload(t)
    <3>1. /\ StoredJournal' = StoredJournal
          /\ ShownJournals' = [ShownJournals EXCEPT ![t] = None]
      BY <1>1, <2>3 DEF Reload, StoredJournal, ShownJournals, StoreTypeOK
    <3> QED  BY <3>1 DEF Shared!LogNext, Shared!Forget
  <2>4. CASE BeginLoad(t) \/ BeginAppend(t) \/ TakeRepair(t)
    BY <2>4 DEF BeginLoad, BeginAppend, TakeRepair, Shared!logVars,
         StoredJournal, ShownJournals
  <2> QED  BY <1>3, <2>1, <2>2, <2>3, <2>4 DEF Tab
<1> QED  BY <1>2, <1>3 DEF Next

(* Browser storage under any number of tabs is the log it promises to be: no *)
(* commit is lost or reordered, and every tab shows a prefix of it.         *)
THEOREM StorageIsSharedLog == Spec => SharedLogSpec
<1>1. IInv /\ [Next]_vars => [Shared!LogNext]_(Shared!logVars)
  BY StepIsLogStep
<1> QED
  BY <1>1, InitIsLogInit, Inductive, PTL DEF Spec, SharedLogSpec, Shared!LogSpec
=============================================================================
