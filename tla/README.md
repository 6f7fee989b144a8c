# Verification of the beeper lifecycle, its journals and its links

TLA+ models of this repository's core, the TLC runs that check them and the
TLAPS proofs about them.  Every definition is translated from the source code;
`PROJECT.json` maps each to its lines.

## The system

The program changes one setting of a Betaflight flight controller (the
SYSTEM_INIT beeper bit) as a *case*: identify the board, back up, write to RAM,
re-read, save to EEPROM, reboot, re-identify, verify; and restore the backup if
anything fails after a write may have happened.  The native code reaches a
simulation through a transport; a browser page so far only reads: it identifies a
board over Web Serial and keeps a journal in IndexedDB.

| component | state | operations | interacts with |
|---|---|---|---|
| `core-api` `Engine` | session, journal, identity, plan, backup, `write_may_have_occurred` | `drive`, `apply_and_finish`, `reboot_and_verify`, `resume_reconcile`, `resume_verify_save`, `rebuild_report` | calls all of the below, sequentially |
| `recovery` `run_restore` | none of its own | the restore | executor, journal |
| `session` | state | `transition_to`, permission tables | consulted by executor and engine |
| `casebook` `Journal` | events, length, poisoned | `prepare_append`, `try_append`, `decode`, `reconcile_on_resume` | a durable backend |
| `casebook-native` | the file | `create_new`, `open`, `append_durable` | `Journal` |
| `casebook` `EffectJournalStore`, `runtime-ports` `IoCoordinator` | loaded journal, revision, pending operation, request ids | `begin_load`, `begin_append`, `accept_response` | an asynchronous host |
| `web/src/storage`, `web-storage-wasm-bridge` | IndexedDB record, in-flight calls | `load`, `compareAndSwap` | the store above, other tabs |
| `execution` `Executor`, `ReadonlyIdentification` | target, correlator; stage and profile of an identification | `read`, `write`, `identify`; `next_request`, `accept_reply` | transport, session tables |
| `safety` | none | granting a `WriteApproval` | executor, transports |
| `transport` mock and replay, `EffectTransport` with its host | phase, port, audit, divergence; awaited effect | `exchange`, `open`, `close`, phases | executor above, responder or coordinator below |
| `mock-fc`, `fault-injection` | RAM, EEPROM, armed; a schedule of faults | `handle` | transport |
| `protocol-msp`, `readonly-profile` | the bytes of one reply; a cursor | `push`, `finish`, the typed decoders, `Correlator` | executor, serial bridge |
| `web-readonly-serial-wasm-bridge` | the directive awaited, accumulator, identification, outcome, trace | `begin_open`, `accept_*`, `push_chunk`, `finish` | the browser host |
| `webserial-readonly-host.mjs`, `readonly-fc-connection.mjs` | port, reader and writer locks, first failure | `discover`, cleanup | the bridge, Web Serial |
| `capability`, `capability-resolution`, `facts` | none | validating and resolving descriptors, scope checks | engine, bridge |
| `planning` | none (`product.rs`: a list of changes) | `build_plan`; assignments, decisions, changes, product plans | engine, user interface |
| `backup` | none | the snapshot | engine |

What is hard about it: the process may die between any two steps and a later
process must decide from the journal alone; a command may take effect and its
reply be lost; a save may be acknowledged and not performed; RAM and EEPROM may
differ; the board on the cable may change; an append may become durable and
still be reported as failed; the journal may fill up in the middle of a case;
and the engine drops the errors of its session transitions.  On the serial link a
reply may be cut anywhere, arrive after its timeout or be another command's, and
every await of the host may reject; behind typed effects a request may be refused,
failed or never begun, and the caller must not be able to tell.  `hazards` in
`PROJECT.json` lists each at its line with the properties that cover it.

## The modules

| module | models |
|---|---|
| `Session` | `crates/session`: the transition table, the two permission tables, and `Tr`, a transition whose error is dropped |
| `CaseJournal` | the journal: the handle's events, the durable events, poisoning, the byte bound, reopening; the resume decision and the rebuilt terminal as operators. `JournalSpec` is what a user of the journal may do |
| `FlightController` | `crates/mock-fc` for several units: RAM, EEPROM, the unit plugged in, whether our handle reaches it |
| `BeeperLifecycle` | the engine and the restore over the three above, with crashes, resumes, power loss, swapped boards and another configurator |
| `MCBeeperLifecycle` | the module TLC runs |
| `BeeperLifecycleProofs` | the theorems about the journal and its use, the types of the engine, what a run may send and to whom, what a closed case means, and how a report is rebuilt |
| `IoCoordinator` | request ids of `crates/runtime-ports`: one awaited answer, consumed once |
| `EffectJournal` | `EffectJournalStore`, the wasm bridge, its JavaScript host and the IndexedDB record, for several tabs of one origin |
| `SharedLog` | the abstract log that `EffectJournal` implements |
| `MCEffectJournal`, `EffectJournalProofs` | the shared journal for TLC, and the theorems about it |
| `Optional` | the value `None` |
| `Correlator`, `ReadonlyIdentification` | `crates/protocol-msp` `Correlator`; the four-read identification of `crates/execution`, used by executor and bridge alike |
| `MspFrame`, `MspAccumulator` | the MSPv1 frame over real bytes with its checksum, and one reply put together from chunks |
| `MspPayload` | the typed decoders, one field per step |
| `MspProofs` | the theorems about accumulator and decoders |
| `OutboundPacket` | typed packets of `crates/runtime-ports`: what may be read, what needs which approval |
| `ReadonlyDiscovery`, `ReadonlyDiscoveryProofs` | the Rust machine of the serial bridge, as operators on a record, and what each method does in each place, which both proofs below use |
| `ReadonlyCaller`, `ReadonlyCallerProofs` | that machine under a caller that may call anything, and the theorems about it |
| `ReadonlySerial`, `ReadonlySerialProofs` | that machine under the real host, with the port, the line and a board, and the theorems about it |
| `IdentityRead` | the abstract read that `ReadonlySerial` implements |
| `MCReadonlySerial` | the boards TLC tries |
| `SafetyGate` | `crates/safety`: which approvals exist |
| `MockFc` | the responder with both copies of its configuration, behind the fault injector |
| `SimTransport` | mock and replay transport: phase guard, cancellation, authority, audit, divergence |
| `EffectTransport` | the adapter over `IoCoordinator`, and the host that executes its effects |
| `Executor` | `read`, `write` and `identify` with every check of a reply |
| `TransportParity`, `MCTransportParity` | one caller driving an executor over each stack |
| `TransportParityProofs` | the theorems about both stacks |
| `Capability` | descriptors, resolution, the scope checks of facts and engine |
| `ProductPlan` | assignments, decision evidence, changes and plans |
| `ProductRulesProofs` | the theorems about both |
| `MCSequentialRules` | accumulator, decoders, capability and plan for TLC, one at a time while the others rest |

`pc` names the engine's next journal append or exchange: `recX` appends X,
`aheadX` appends the write-ahead of X, the others are exchanges; names that start
with `r` belong to `run_restore`.  One action is one append or one exchange with
everything the code does up to the next one (transitions, assignments, the
comparison of what was read).  Between two actions anything on the bench may
happen.

An append either succeeds, or fails with nothing written, or fails with the record
durable (a torn record is cut at the next open, so it counts as not written); any
failure in the backend poisons the handle.  An exchange either succeeds, or takes
effect and fails, or fails.  A save may succeed and do nothing.

A crash clears everything the process holds; the journal, the controllers and
the caller's backup survive.  `Resume` is `resume_beeper_lifecycle` on the
reopened journal.

### Simplifications

* A snapshot is the SYSTEM_INIT bit, an opaque value for the other 31 flag bits
  and one for the DShot fields.
* A unit is its composite identity.  Boards that `DeviceIdentity::compare` calls
  the same are one unit.
* Identification is one exchange; the four of the code fail for the same
  reasons and change nothing.
* `WriteAhead{class, recovery}` takes the five pairs the code ever uses.
* Approvals always match and `build_plan` never fails: the values come from
  constructors that make it so.  The hardware target is refused before the
  engine starts and is not modelled.
* REBOOT that is acknowledged has happened.
* Unplugging always breaks our handle.  A board swapped behind an adapter that
  keeps the port open is not modelled.
* `Resume` requires `BackedUp` in the journal: the engine returns the backup to
  its caller and does not store it, so the model takes the caller to have it
  from then on.
* The journal keeps one bound over all resumes and starts empty.
* Another configurator is used only between two of our processes, while the case
  is open: during a process we own the port, and after the case is closed the
  configuration is the pilot's.

### The shared journal

`EffectJournal` is the same journal in a browser, where storage is asynchronous
and shared.  A tab's store has at most one operation `pending`; its effect is
handed to the host (`calls`), or waits in the bridge's slot (`repair`) until
`WasmJournalHost.load` takes it, and ends as one of `answers`.  `HostLoad` and
`HostCommit` are one IndexedDB transaction each; `HostFails` is every way a
transaction can abort or never start.  An answer stays in `answers` once given:
the coordinator is written for hosts that repeat them.  `Reload` may come anywhere, so
also between a completed transaction and the answer that reports it.

* A record is the tab that wrote it; all records have one size, and the byte
  bound is a number of records.  A torn tail is shorter than a record.
* Torn, corrupt and over-long values are initial contents of the origin:
  a transaction writes the whole value or nothing.
* `begin_append` is the library's; the bridge exports it to its tests only, so
  a shipped page loads and repairs and does not yet append.
* Storage is not cleared while a tab is open; the repository's durability claim
  excludes it.
* A call made by a page that has gone is dropped.

### Replies: bytes and payloads

`MspAccumulator` works on real bytes and computes the checksum; `fed` keeps every
byte pushed, so that the property can speak of the whole stream.  After a refusal
nothing is pushed: the bridge fails the exchange.  `MspPayload` abstracts a payload
to its length, the values its length prefixes have and which of its texts are
undecodable.  A prefix value stands at its place whatever the cursor does, so a
decoder that trusted one would be seen to run past the end.

### The read-only path

A method of the Rust bridge is an operator on one record, so that two modules can
drive the same machine.  In `ReadonlyCaller` a caller uses any method with any
request id, label or judgement of the bytes.  In `ReadonlySerial` the host is a
sequence of awaits: one action is the settling of one await, well or badly, and
all that runs until the next.  `App.tsx` allows one attempt at a time.

* Replies arrive as pieces (whole, head, tail, garbled), tagged with the request
  they answer; `MspAccumulator` justifies that only the bytes matter.  XOR
  collisions between a head and another reply's tail are left out.
* `rx` is what the board has sent and the host has not read.  How much of it has
  arrived is left open: a read may settle with any beginning of it or time out, and
  cancelling the reader or closing the port loses any beginning of it (`DropArrived`).
  Nothing makes the board forget a request, so the rest, and answers to requests given
  up, may come at any time later, also into the next attempt.  A read left pending by a
  timeout is cancelled with its reader.
* `disturbed` and `crossed` are history variables: that the board or the line did wrong
  in this attempt, and that something of an earlier attempt was read in it.
* All attempts of a session are with one board: what is late comes over the port it was
  asked on.
* The boards' replies can be decoded: `Truth` has no verdict on any other board.
  `ReadonlyCaller` has the undecodable ones.
* Every promise the host awaits is assumed to settle.
* The trace limit of the copied diagnostic is not checked against what a real
  attempt emits; in `ReadonlyCaller` the limit is small enough to be met.

### The transports

A simulation, a stack and an executor are records and their methods operators, so
that one step of `TransportParity` can run the same call on a stack of each kind.
Where more than one call is made (`identify`), all of it is one step: the code is
sequential and nothing else runs.

* The audit is kept as the number of entries per disposition, and the frame that
  got through in the last call (`arrived`) with the phase and approval it had.
* Clock and cancellation token are one `control` value: what checking them finds.
* Frames whose direction byte is not a request's are not tried: nothing in the
  repository sends one.
* `EffectTransport` refuses an unapproved write before the host sees it, hence
  without an audit entry or a replay divergence; the module comment
  (`crates/transport/src/lib.rs:10-19`) speaks of every refusal.  `Parity`
  therefore compares what was sent and not what was blocked.
* `EffectTransport::close` is dropped when no request id is left, so `Parity` is
  stated while ids remain (`WellWired`).

### Capability and product plans

Two rules decide what is known of a board, the reviewed descriptor and the M1 scope
check; `Capability` has both.  `ProductPlan` lets a caller use its constructors in any order;
evidence of a decision outlives the collection it came from, as in the code.  A
plan may therefore hold two clashing assignments whose evidence comes from
different collections: no rule of the code compares them.  Goal texts, provenance labels
and the dashboard's wording are left out.

## What the runs check

Passing runs, all complete state spaces:

| run | instance | shows |
|---|---|---|
| `crash_resume` | one board, up to three processes, saved and unsaved foreign edits | `WriteAheadIsDurable`, `JournalAgrees`, `BackupPrecedesWrites`, `VerifiedIsPersistent`, `RecoveryIsFinal`, `TerminalIsLast` |
| `journal_limits` | two boards in scope that may be swapped; bounds at which each record of the case is the one that no longer fits; fairness | `TypeOK`, `AuthorityHeld`, `OnlyTheBackedUpUnit`, `FreshAbortIsClean`, `FreshReportRebuilds`, `EngineStops` |
| `foreign_flags` | a second board out of scope; two values each of the other flags and the DShot fields | `VerifiedIsPersistent`, `RestoredIsPersistent` for the whole configuration |
| `shared_tabs` | two tabs, three records, revisions 0 to 3, request ids 1 to 4 | `StoreTypeOK`, `ViewsAreProven`, `OperationsAgree`, `CommitsDecode`, `OperationsEnd`, and the refinement `SharedLogSpec` |
| `sequential_rules` | one part at a time: every stream over nine byte values in every cut; every decoder on lengths around its boundaries with prefixes inside, at and past the end; ten identities at the edges of the scope with catalogues of up to three descriptors; plans of three assignments and two changes | `AccumulatorTypeOK`, `SegmentationFree`, `NeverReadsPastTheEnd`, `AcceptsOnlyTheLayout`, `DocumentedIsAccepted`, `ReviewedIsInScope`, `KnowledgeIsUnique`, `ChoicesAreTheUsers` |
| `readonly_caller` | any call at any time, six request ids, a trace of four | `InFlightAgrees`, `IdentityIsEarned`, `RefusalsAreInert` |
| `serial_reads` | five boards, two attempts, every await settling either way, replies that come an attempt late | `OnlyLateRepliesPoison`, `ReleasedOrReported`, `HostIsNeverRefused`, and the refinement `ReadsTheTruth` (with liveness) |
| `transports` | a healthy, a faulty and an armed mock, two transcripts, right and wrong wiring, one written flag word beside the initial one | `NothingOutstanding`, `OnlyApprovedWritesArrive`, `NoDivergenceMeansFaithful`, `Parity`, `AnswersMatchTheDevice` |

Runs that end in a counterexample, where the repository's own words and its code
part (`findings` in `PROJECT.json` quotes both):

| run | what happens |
|---|---|
| `rebuild` | a resume of a closed case is rebuilt as something other than what was reported; one instance is a SET delivered, a crash before its record, and the completed case rebuilt as `NoOpVerified` |
| `abort_after_write` | a resume whose snapshot read fails reports `AbortedBeforeAnyWrite` |
| `restored_in_ram` | an unsaved foreign edit puts the previous value in RAM; recovery reports `Restored` from RAM alone |
| `late_reply` | a reply that a failed attempt gave up is read in the next and fails it with `MSP_FRAME` (`NotPoisoned`), although `docs/m2/WEB-SERIAL-SAFETY-REVIEW.md:46` says that one failed attempt cannot poison the next |

One more divergence was met while modelling and has no run of its own: a `BackedUp` append that
fails leaves the session in `BackingUp`, because the transition the engine asks for
is refused and the refusal dropped (`core-api/src/lib.rs:641`, against the comment at
433).

What is true in place of `NotPoisoned` is `OnlyLateRepliesPoison` (`serial_reads`): the
exchanges of one attempt never spoil each other, and a late reply costs an attempt but
never gives a wrong verdict (`ReadsTheTruth`).

`RestoredIsPersistent` holds when foreign edits are saved and fails when they may
stay in RAM: `foreign_flags` allows the first kind, `restored_in_ram` the second.

**Bounds.** `MaxRuns` (processes on a case) is 2 or 3: a third process is needed
to resume a case that a second one closed.  `JournalLimits` holds byte bounds; 4096
never fills.  Two boards are enough to be the wrong one, two values of a field to
be changed and changed back.  Nothing else is bounded.

For the shared journal `MaxRevision` and `MaxRequestId` stand for `u64::MAX`: the
code treats the last value like the model does, and a stored record may start at any
revision, so both limits are met within a few steps.  Three records leave room for
a tab to fall two commits behind.  Reloads are not bounded: a reload starts the
tab's ids again.

For replies, a chunk holds at most two bytes and a reply at most eight: with
`ApiVersion` expected this leaves room for the preamble, every header field, a payload
of two, and one byte too many; the bound on a reply (128 in the code) is met like
there.  Two attempts and three chunks per exchange are enough for a reply to cross into the next
attempt and for the chunk bound to end an exchange; a third attempt would only meet what the
second one met.  `MaxFrames` bounds the calls that reached a
simulation or were blocked; two are enough for a write and the call that shows its effect, and an
identification counts four in one call.  An attempt needs six request ids and has exactly
six; the transports run out of them.

**Fairness.** `FairSpec` has weak fairness of the engine's steps together: the
engine is a plain sequential call and every exchange ends in a reply or a
timeout.  Nothing is assumed of crashes, the bench or resumes.

`EffectJournal!FairSpec` has, per tab, weak fairness of the host's executing a call, of
handing the awaited answer to the store, and of taking a repair: IndexedDB settles
every transaction, and `WasmJournalHost` awaits it and passes the result on in the
same function.  Callers need never begin anything.

`SerialSpec` has weak fairness of the host's awaits together: the browser settles
each, and the read timer fires.  Nothing is assumed of the user, of a device that
sends empty chunks, or of the board.  `PayloadSpec` has weak fairness of the decoder, which
is a function call.

**Deadlock** is checked in the runs of the engine, of the shared journal and of
the free caller.  It does not occur, since the bench may always act, a tab may always
be reloaded and a caller may always call, so it says little here.  It is not checked
where the program really stops: after the last attempt
(`serial_reads`), when the bound on calls is met (`transports`), and after a reply was
judged or when a catalogue or a plan is full (`sequential_rules`).

## What is proved

TLC explores the instances above; the theorems hold for every value of the constants
that satisfies the named `ASSUME`s.  Every assumption is about the inputs: constants
are of their kind, bytes are bytes, `None` is none of the other values.
`theorems` in `PROJECT.json` lists the results; this is how they are argued.

### The engine

For any units, scope, configurations, journal bounds and number of processes
(`Goal` is one of the two goals, `InScope \subseteq Units`,
`JournalLimits \subseteq Nat`, `MaxRuns` positive):

* **Types and evidence** (`BeeperLifecycleProofs`).  `TypeOK` alone is not inductive:
  a step that uses `plan.desired` or `backup.unit` needs to know that they are there.
  `EvidenceInHand` says, by `pc`, what the engine has, and that whoever writes or has
  written can point to a durable `BackedUp`.  It survives crashes because it is stated
  of `disk`, and resumes because a resume starts from `disk`.  `TypeCorrect` and
  `BackupFirst` follow.
* **The journal** (`JournalHonest`).  Any user of the
  journal keeps `JournalAgrees`; every step of the engine is a step of `JournalSpec`
  or leaves the journal alone (`JournalRefinement`), hence `JournalHonest`.
  `WriteAheadFirst` adds that a step that goes to a sending `pc` has just made its
  record the last one.
* **Authority** (`AuthorityNeverMissing`).  Inductive is `AtStep`: the
  exact session state at each `pc` of the apply path.  It is needed because the engine
  drops the errors of its transitions: only the exact state shows that a transition
  was not refused.
* **Clean aborts** (`FreshAbortsAreClean`).  `CleanlyFresh`: a run that was not resumed
  has sent nothing before the first `SET`, and no later step ends in one of the three
  clean terminals.
* **The right board** (`NoOtherUnitChanges`).  `RightBoard`: while our handle reaches a
  board and the identity read since it was opened is trusted, the board is the one
  identified, and from the backup on that is the unit backed up.  Only the two
  steps of reconnecting are exempt, and they change nothing.
* **The order of records** (`Ordered`).  `OrderInv` adds to `TerminalIsLast`
  and `RecoveryIsFinal` why they are kept: the engine may go on after an append that
  closed the case and reported a failure, but then its handle is poisoned; and after a
  durable `RecoveryStarted` it is in the restore, stopped or poisoned.
* **What `Verified` means** (`VerifiedPersists`).  RAM and EEPROM agree from the reboot
  on (`Rebooted`), however the save went, so what is read back is what persists; once
  `Verified` is durable nothing that sends is reached again.  `TouchedFirst` separates a
  case that sent a command from a case that had nothing to do.
* **What `Restored` means** (`RestoredPersists`).  Here RAM may be read without a
  reboot, so the invariant must explain the RAM: only the unit backed up can differ from
  its EEPROM (`Settled`), and until the restore has written it does so only because the
  desired bit is in RAM (`Explained`), never because the previous one is.  The theorem assumes
  that other configurators save what they change (`EditKinds \subseteq {"saved"}`, in its
  statement); run `restored_in_ram` shows that it is false without.
* **Rebuilt reports** (`ReportsRebuild`).  A fresh run goes along one chain of records and
  turns into the restore only from the apply path, so what its journal holds is known at
  each `pc` (`JournalSoFar`); `CleanlyFresh` is what excludes a turn before the backup.
  What is left is that a greedy search for a chain finds it whenever it is there
  (`GreedyFinds`), for journals of any length.  `Matched` is a recursive function for
  the sake of this proof, and the induction is over a set of numbers that has no least
  counterexample (`SetInduction`), not over a predicate, which the prover could not
  instantiate.

### The shared journal

For any number of tabs, any bounds and any initial bytes (`EffectJournalProofs`):

* `Inductive`: the types, and for every tab that what it shows, holds or waits for is a
  statement about the store which other tabs' commits do not undo.  A revision is
  `Seen` when the store held these bytes at it and has only grown since.
  `ViewsAreProven` is not inductive without the same of every value that is still on its
  way: in an operation (`AppendGrounded`, `RepairGrounded`) or in an answer
  (`ReplySeen`).  `OnePlace` says that the effect of an operation is with the host, in the
  repair slot or answered, never in two of these; `IdsSpent` that a repeated answer
  cannot be taken for a later one.
* `TypeCorrect`, `ViewsProven`, `CommitsAlwaysDecode` and `OperationsAlwaysAgree` follow.
* `StorageIsSharedLog`: tabs, bridge, host and IndexedDB implement `SharedLog`.  A commit
  of an append is a `Write` because its expected revision makes what the tab had seen the
  whole of the log; an accepted answer is what a tab learns or hears, a reload forgets,
  and a repair, which cuts no whole record, changes nothing of the log.

### The transports

For any transcripts, schedules, sessions of the caller and number of calls
(`TransportParityProofs`).  `ParityAssumption` asks that a world begins with a
transport as its constructor makes it, a controller just powered on, and a schedule of
`Faults`:

* `SoundParity`, one stack at a time: nothing is awaited between calls, what arrived had
  the phase and approval it needed, and a replay without divergence stands at the step
  it has followed to.  `NothingIsLeftBehind`, `WritesAreApproved` and
  `ReplaysAreFaithful` follow.
* `ParityInv`, both stacks: the two simulations are twins, equal except for
  what was blocked (`Twin`), as long as they are wired alike and ids remain (`Wired`).
  Every operation of a transport, then of an executor, then a whole identification, takes
  twins to twins and returns the same.  `EffectsChangeNothing` is `Parity`.
* `DeviceInv` adds that controllers and schedules stay what they are.  An exchange either
  performed the command or left the controller alone, and in the second case no reply
  says that it was performed (`Told`), whatever fault the schedule put on it.
  `AnswersAreTrue` is `AnswersMatchTheDevice`.

### Replies, packs and plans

* `MspProofs!CursorBounded` and `OnlyTheLayout`, for any lengths and prefixes that
  bytes can have: the cursor stands exactly where the fields already read leave it
  (`Offset`), the frame passed its expectation and every text passed was decodable; the
  last field then meets the end of the payload only if the whole layout does.
* `StorageBounded` and `OnlyTheStreamCounts`, for any bytes, chunks, awaited command and
  bound that fits an empty frame.  `SegmentationFree` speaks of the frames there are,
  the accumulator looks at the bytes it has; so both are first put in the same terms: a
  stream is an encoding when it `IsWhole`, the beginning of one when it `IsBegun` (the
  missing payload can be made up, the checksum always exists).  Inductive is that until
  something is refused the buffer is all that was fed and was judged as a whole
  (`AllInHand`).  No fact about the checksum is used.  `MspFrame` defines XOR itself,
  because the library's is recursive and would keep the prover out.
* `ProductRulesProofs!NoInventedChoice`: a plan is built from changes that may be
  older than the current assignments, so the invariant speaks of the waiting changes and
  of the evidence as well as of the plan.
* `TheRulesAgree`: for any device whose numbers are bytes, the reviewed range and the M1
  scope admit the same ones.  `GrowthKeepsKnowledge`: the matches of a catalogue are
  finite and only grow with it, so that a second match or a malformed entry is never undone.

### The read-only path

For any caller, labels, length of the trace and more than six request ids
(`ReadonlyCallerProofs`).  None of the three properties is inductive: that an identity
is earned depends on what the machine remembers of earlier replies, and that a refusal
is inert on checks that come after the state has moved.

* `CallerInv`: the machine is in one of five places (`IsReady`, `IsOpening`,
  `IsExchanging`, `IsClosing`, `IsComplete`), in each of which every field but the trace is
  known; at its n-th read it holds the facts of the n-1 replies taken (`IdentAt`), which
  are the acceptable ones (`Led`), and has used n + 1 request ids.
* `ReplyTaken` says what an identification makes of its n-th reply: it goes on, ends with
  the facts gathered or stops without an identity.  `FrameTaken` carries it through the
  bridge.
* Every method, in each place, is refused with the machine as it was or goes to the next
  place (`CallerKeeps`).  `WhatIsInFlightAgrees`, `EveryIdentityIsEarned` and
  `EveryRefusalIsInert` follow; the checks of `begin_effect` never fail where they are
  reached.

For any boards whose replies can be decoded, any number of attempts and chunks, and more
than six request ids (`ReadonlySerialProofs`):

* `SerialInv` joins the two sequential programs that share the machine.  `Placed` says in
  which place the machine is while the host is in each of its awaits, with which request
  outstanding; `Said` that the replies taken so far are those the board gives; `Ending`
  that a verdict is a failure or the truth about the board.  Because the host is always
  in step with the machine, no call of it is refused: `HostObeysMachine`.
  `PortReleasedOrReported` follows from what the host knows of port and locks at the same
  awaits.
* `ShowsTheTruth` is the safety part of the refinement: every step is a `Start` or an `End`
  of `IdentityRead` or leaves what it shows as it was.
* `LateRepliesOnly` is `OnlyLateRepliesPoison`.  `LineInv`: while an attempt is faultless
  and has read nothing of an earlier one, either pieces of the reply in hand are all that is
  on the way (`InHand`), or something of an earlier attempt comes before them (`Behind`) and
  the host has nothing to judge; the board answers in order, so what comes first is read
  first.  It needs that nothing on the line is tagged with a later attempt (`Tagged`), which
  is what makes everything that is left over at a click belong to an earlier one.

### Checked by TLC only

Liveness and fairness, which are beyond the prover: `EngineStops`, `OperationsEnd`,
`DocumentedIsAccepted`, and that a started read ends (the fairness part of
`ReadsTheTruth`).  Every safety property of the runs is also a theorem, except the four
that the repository claims and TLC refutes.

## Not modelled

The byte codec of journal records (a record is its length and what its tail decodes
as), the schema checks and decimal parsing of the browser storage, report rendering,
the hardware refusal of the engine's entry points, the provenance labels of facts,
goal texts of product plans, the trace kept for copying and the view text of the
connection, the user interface, the service worker, packaging, and the two stub
crates.  `PROJECT.json` gives the reason for each component, and for each hazard
no property covers: a backup lost with its process, and two boards that compare equal.

## Plan

What the project would gain most from next: the record codec of `casebook` (a journal
record as bytes, with every cut of its tail), and identity comparison of `facts` as
a relation on more than one kind of signature.
