--------------------------- MODULE ReadonlySerial ---------------------------
(***************************************************************************)
(* The read-only path end to end: App.tsx starts an attempt, the browser    *)
(* host (webserial-readonly-host.mjs) runs the Rust directives against a    *)
(* Web Serial port, and a flight controller answers when it likes. The host *)
(* is a sequence of awaits; each action below is the settling of one await  *)
(* and everything the host then does up to the next. The port, the line and *)
(* the board are external: they may fail, be silent, answer late or garble. *)
(***************************************************************************)
EXTENDS ReadonlyDiscovery

CONSTANTS
  Devices,      \* boards: what each of the four reads finds
  MaxAttempts,  \* bound on the attempts of one session
  MaxChunks     \* MAX_CHUNKS_PER_EXCHANGE (128)

(* What a board says of itself can be decoded. *)
ASSUME SerialAssumption ==
  /\ MaxAttempts \in Nat \ {0}
  /\ MaxChunks \in Nat \ {0}
  /\ \A b \in Devices : \A c \in ToSet(Stages) : b[c] \in Contents[c] \ {"unreadable"}

VARIABLES
  board,      \* the connected board
  attempt,    \* attempts started
  disturbed,  \* history: the board or the line did wrong in this attempt
  crossed,    \* history: a piece of an earlier attempt's reply was read in this one
  machine,    \* the Rust discovery of this attempt
  host,       \* the host object and the await it is in
  port,       \* the browser's port: opened, locked
  inbox,      \* requests the board has not answered
  rx,         \* pieces of replies on their way to the host
  buffer,     \* pieces in the accumulator of the current exchange
  shown       \* the result the user sees

serialVars ==
  <<board, attempt, disturbed, crossed, machine, host, port, inbox, rx, buffer, shown>>

NewHost ==
  [pc |-> "idle", selected |-> FALSE, opened |-> FALSE, reader |-> FALSE,
   cancelled |-> FALSE, writer |-> FALSE, failure |-> None, origin |-> None,
   chunks |-> 0, refused |-> FALSE]

SerialInit ==
  /\ board \in Devices
  /\ attempt = 0
  /\ disturbed = FALSE
  /\ crossed = FALSE
  /\ machine = NewDiscovery
  /\ host = NewHost
  /\ port = [open |-> FALSE, readLock |-> FALSE, writeLock |-> FALSE]
  /\ inbox = <<>>
  /\ rx = <<>>
  /\ buffer = <<>>
  /\ shown = None

-----------------------------------------------------------------------------
(* Results and origins. *)

(* Where an attempt can have failed. *)
CleanupOrigins == {"READER_CANCEL", "READER_RELEASE", "WRITER_RELEASE", "PORT_CLOSE"}

MachineOrigins == {"MSP_FRAME", "IDENTITY_STAGE"}

Origins ==
  CleanupOrigins \cup MachineOrigins \cup
  {"PORT_SELECTION", "PORT_OPEN", "WRITER_ACQUISITION", "READER_ACQUISITION",
   "SERIAL_WRITE", "SERIAL_READ", "SERIAL_TIMEOUT", "FINAL_RESULT",
   "DIRECTIVE_REFUSAL"}

Results ==
  [outcome : {"failed", "cancelled", "unavailable", "api-unsupported",
              "read-profile-unsupported", "read-only-complete", "in-scope",
              "scope-mismatch", "pending"},
   class : FailureClasses \cup {None}, origin : Origins \cup {None}]

(* An origin and a result are something. *)
ASSUME ResultAssumption == None \notin Origins \cup Results

Shown(outcome, class, origin) == [outcome |-> outcome, class |-> class, origin |-> origin]

OriginOfEvent == [FRAME_REJECTED |-> "MSP_FRAME", IDENTITY_STAGE_FAILED |-> "IDENTITY_STAGE"]

(* `#drainRustTrace` takes every event; the last origin among them stays.    *)
DrainedOrigin(d, origin) ==
  LET named == {n \in DOMAIN d.trace : d.trace[n][1] \in DOMAIN OriginOfEvent}
  IN  IF named = {} THEN origin
      ELSE OriginOfEvent[d.trace[CHOOSE n \in named : \A k \in named : k <= n][1]]

Drained(d) == [d EXCEPT !.trace = <<>>]

(* What `discover` returns once the loop has ended. *)
ResultOf(d, h) ==
  IF h.refused THEN Shown("failed", "Unknown", "DIRECTIVE_REFUSAL")
  ELSE Shown(OutcomeKind(d), FailureClass(d),
             IF FailureClass(d) = None THEN None
             ELSE IF h.origin = None THEN "FINAL_RESULT" ELSE h.origin)

(* The host object is left empty, the result shown. *)
Finish(d, h) ==
  /\ machine' = Drained(d)
  /\ host' = [NewHost EXCEPT !.refused = h.refused]
  /\ shown' = ResultOf(d, h)

Await(d, h, pc) ==
  /\ machine' = d
  /\ host' = [h EXCEPT !.pc = pc]
  /\ UNCHANGED shown

-----------------------------------------------------------------------------
(* `#cleanup`: cancel, release both locks, close; the first failure is kept. *)

Remembered(h, origin) == [h EXCEPT !.failure = IF @ = None THEN origin ELSE @]

(* The close directive is answered with the cleanup's first failure. *)
AnswerClose(d, h) ==
  IF h.refused THEN Finish(d, h)
  ELSE IF h.failure = None
    THEN LET call == AcceptCloseOk(d, d.pendingId)
         IN  Finish(call.d, [h EXCEPT !.refused = call.answer.kind = "refused"])
    ELSE LET call == AcceptCloseErr(d, d.pendingId, "Unknown")
         IN  Finish(call.d, [h EXCEPT !.origin = h.failure,
                                      !.refused = call.answer.kind = "refused"])

(* Mutant: the port is closed only on the way through an open failure. *)
ReleaseWithoutClose(d, h, p) ==
  /\ port' = [p EXCEPT !.readLock = IF h.reader THEN FALSE ELSE @,
                       !.writeLock = IF h.writer THEN FALSE ELSE @]
  /\ AnswerClose(d, [h EXCEPT !.reader = FALSE, !.cancelled = FALSE, !.writer = FALSE])

(* Locks are released one by one; a lock that cannot be released stays on    *)
(* the port `p`, while the host forgets it.                                  *)
Release(d, h, p) ==
  \E readFails, writeFails \in BOOLEAN :
    LET one == IF readFails THEN Remembered(h, "READER_RELEASE") ELSE h
        two == IF writeFails THEN Remembered(one, "WRITER_RELEASE") ELSE one
        freed == [two EXCEPT !.reader = FALSE, !.cancelled = FALSE, !.writer = FALSE]
    IN  /\ readFails => h.reader
        /\ writeFails => h.writer
        /\ port' = [p EXCEPT !.readLock = IF h.reader THEN readFails ELSE @,
                             !.writeLock = IF h.writer THEN writeFails ELSE @]
        /\ IF h.opened /\ h.selected
             THEN Await(d, freed, "closing")
             ELSE AnswerClose(d, freed)

CleanUp(d, h, p) ==
  IF h.reader /\ ~h.cancelled
    THEN Await(d, h, "cleaning") /\ port' = p
    ELSE Release(d, h, p)

-----------------------------------------------------------------------------
(* `#exchange` up to its first await, and the directive that follows a call. *)

(* An exchange that fails is reported to Rust, whose directive is to close.  *)
FailExchangeOf(d, h, p, class, origin) ==
  LET call == AcceptExchangeErr(d, d.pendingId, class)
  IN  CleanUp(Drained(call.d),
        [h EXCEPT !.origin = DrainedOrigin(call.d, origin),
                  !.refused = call.answer.kind # "close"], p)

(* Locks are taken once and kept for the later exchanges. *)
StartExchange(d, h, p) ==
  \/ /\ h.writer \/ ~p.writeLock
     /\ h.reader \/ ~p.readLock
     /\ port' = [p EXCEPT !.readLock = TRUE, !.writeLock = TRUE]
     /\ Await(d, [h EXCEPT !.writer = TRUE, !.reader = TRUE, !.chunks = 0], "writing")
  \/ /\ ~h.writer
     /\ FailExchangeOf(d, h, p, "Disconnected", "WRITER_ACQUISITION")
  \/ /\ ~h.reader
     /\ h.writer \/ ~p.writeLock
     /\ FailExchangeOf(d, [h EXCEPT !.writer = TRUE], p, "Disconnected",
                       "READER_ACQUISITION")

(* The next turn of `discover`'s loop after a call of the Rust machine.      *)
Follow(call, h, p) ==
  LET d == Drained(call.d)
      g == [h EXCEPT !.origin = DrainedOrigin(call.d, @)]
  IN  CASE call.answer.kind = "exchange" -> StartExchange(d, g, p)
        [] call.answer.kind = "close" -> CleanUp(d, g, p)
        [] call.answer.kind \notin {"exchange", "close"} ->
             CleanUp(d, [g EXCEPT !.refused = TRUE], p)

-----------------------------------------------------------------------------
(* The attempt: App.tsx `connectReadonlyFc`, port selection, opening.        *)

(* The button is enabled only while no attempt runs. *)
Click ==
  /\ host.pc = "idle"
  /\ attempt < MaxAttempts
  /\ attempt' = attempt + 1
  /\ disturbed' = FALSE
  /\ crossed' = FALSE
  /\ host' = [NewHost EXCEPT !.pc = "choosing"]
  /\ shown' = None
  /\ UNCHANGED <<board, machine, port, inbox, rx, buffer>>

ChoiceOutcome == [Cancelled |-> "cancelled", Unavailable |-> "unavailable",
                  PermissionDenied |-> "failed"]

ChooseFails ==
  /\ host.pc = "choosing"
  /\ \E class \in DOMAIN ChoiceOutcome :
       shown' = Shown(ChoiceOutcome[class], class, "PORT_SELECTION")
  /\ host' = NewHost
  /\ UNCHANGED <<board, attempt, disturbed, crossed, machine, port, inbox, rx, buffer>>

(* A port was chosen, and a fresh discovery asks to open it. *)
ChooseOk ==
  /\ host.pc = "choosing"
  /\ Await(BeginOpen(NewDiscovery).d, [host EXCEPT !.selected = TRUE], "opening")
  /\ UNCHANGED <<board, attempt, disturbed, crossed, port, inbox, rx, buffer>>

(* The Rust object cannot be constructed: nothing is open yet. *)
ConstructionFails ==
  /\ host.pc = "choosing"
  /\ host' = NewHost
  /\ shown' = Shown("failed", "Unknown", "DIRECTIVE_REFUSAL")
  /\ UNCHANGED <<board, attempt, disturbed, crossed, machine, port, inbox, rx, buffer>>

OpenOk ==
  /\ host.pc = "opening"
  /\ ~port.open
  /\ Follow(AcceptOpenOk(machine, machine.pendingId), [host EXCEPT !.opened = TRUE],
            [port EXCEPT !.open = TRUE])
  /\ UNCHANGED <<board, attempt, disturbed, crossed, inbox, rx, buffer>>

(* A port that an earlier attempt could not close is busy. *)
OpenFails ==
  /\ host.pc = "opening"
  /\ LET call == AcceptOpenErr(machine, machine.pendingId,
                   IF port.open THEN "PortBusy" ELSE "Unknown")
     IN  Finish(call.d, [host EXCEPT !.origin = "PORT_OPEN",
                                     !.refused = call.answer.kind = "refused"])
  /\ UNCHANGED <<board, attempt, disturbed, crossed, port, inbox, rx, buffer>>

-----------------------------------------------------------------------------
(* One exchange. *)

Request == [command |-> machine.accumulating, attempt |-> attempt]

(* Mutant: the accumulator of the last exchange is used again. *)
WriteOkSameAccumulator ==
  /\ host.pc = "writing"
  /\ inbox' = Append(inbox, Request)
  /\ Await(machine, host, "reading")
  /\ UNCHANGED <<board, attempt, disturbed, crossed, port, rx, buffer>>

(* The request is out; its accumulator is empty. *)
WriteOk ==
  /\ host.pc = "writing"
  /\ inbox' = Append(inbox, Request)
  /\ buffer' = <<>>
  /\ Await(machine, host, "reading")
  /\ UNCHANGED <<board, attempt, disturbed, crossed, port, rx>>

(* A write that is rejected may have reached the board. *)
WriteFails ==
  /\ host.pc = "writing"
  /\ inbox' \in {inbox, Append(inbox, Request)}
  /\ FailExchangeOf(machine, host, port, "Disconnected", "SERIAL_WRITE")
  /\ UNCHANGED <<board, attempt, disturbed, crossed, rx, buffer>>

(* What the accumulator says of the pieces it holds (MspAccumulator shows   *)
(* that only the bytes matter, not how they were cut).                      *)
Judgement(pieces) ==
  LET malformed(reason) == [kind |-> "malformed", reason |-> reason]
      one == pieces[1]
      two == pieces[2]
      reply == [kind |-> "frame",
                frame |-> [command |-> one.command, direction |-> one.direction,
                           content |-> board[one.command]]]
  IN  IF pieces = <<>> THEN [kind |-> "more"]
      ELSE IF one.part = "tail" THEN malformed("BadPreamble")
      ELSE IF one.command # machine.accumulating THEN malformed("WrongCommand")
      ELSE IF one.part = "garbled" THEN malformed("BadChecksum")
      ELSE IF one.part = "whole"
        THEN IF Len(pieces) = 1 THEN reply ELSE malformed("TrailingBytes")
      ELSE IF Len(pieces) = 1 THEN [kind |-> "more"]
      ELSE IF two # [one EXCEPT !.part = "tail"] THEN malformed("BadChecksum")
      ELSE IF Len(pieces) = 2 THEN reply ELSE malformed("TrailingBytes")

(* The chunk is pushed; if the frame is still incomplete the host reads on,  *)
(* until its bound on chunks.                                               *)
Pushed ==
  LET call == AcceptChunk(machine, machine.pendingId, Judgement(buffer'))
      read == [host EXCEPT !.chunks = @ + 1]
  IN  IF call.answer.kind # "none" THEN Follow(call, read, port)
      ELSE IF read.chunks < MaxChunks
        THEN Await(call.d, read, "reading") /\ UNCHANGED port
        ELSE FailExchangeOf(call.d, read, port, "Timeout", "SERIAL_TIMEOUT")

(* A read settles with what has arrived, in any cut. *)
ReadChunk ==
  /\ host.pc = "reading"
  /\ \E n \in 1 .. Len(rx) :
       /\ buffer' = buffer \o SubSeq(rx, 1, n)
       /\ rx' = SubSeq(rx, n + 1, Len(rx))
       /\ crossed' = (crossed \/ \E k \in 1 .. n : rx[k].attempt # attempt)
  /\ Pushed
  /\ UNCHANGED <<board, attempt, disturbed, inbox>>

ReadEmpty ==
  /\ host.pc = "reading"
  /\ buffer' = buffer
  /\ Pushed
  /\ UNCHANGED <<board, attempt, disturbed, crossed, inbox, rx>>

(* The stream ends or the read is rejected. *)
ReadFails ==
  /\ host.pc = "reading"
  /\ FailExchangeOf(machine, host, port, "Disconnected", "SERIAL_READ")
  /\ UNCHANGED <<board, attempt, disturbed, crossed, inbox, rx, buffer>>

(* The timer wins the race: whatever the board sent has not arrived. *)
ReadTimesOut ==
  /\ host.pc = "reading"
  /\ Await(machine, host, "cancelling")
  /\ UNCHANGED <<board, attempt, disturbed, crossed, port, inbox, rx, buffer>>

(* A stream that is cancelled or closed loses what has arrived; the rest is  *)
(* still on its way, and nothing makes the board forget a request.          *)
DropArrived == \E n \in 0 .. Len(rx) : rx' = SubSeq(rx, n + 1, Len(rx))

(* `reader.cancel()` after a timeout; if it is rejected the cleanup retries. *)
CancelSettles ==
  /\ host.pc = "cancelling"
  /\ \E ok \in BOOLEAN :
       /\ FailExchangeOf(machine, [host EXCEPT !.cancelled = ok], port,
                         "Timeout", "SERIAL_TIMEOUT")
       /\ IF ok THEN DropArrived ELSE UNCHANGED rx
  /\ UNCHANGED <<board, attempt, disturbed, crossed, inbox, buffer>>

-----------------------------------------------------------------------------
(* The awaits of `#cleanup`. *)

CleanupCancelSettles ==
  /\ host.pc = "cleaning"
  /\ \/ /\ Release(machine, [host EXCEPT !.cancelled = TRUE], port)
        /\ DropArrived
     \/ /\ Release(machine, Remembered(host, "READER_CANCEL"), port)
        /\ UNCHANGED rx
  /\ UNCHANGED <<board, attempt, disturbed, crossed, inbox, buffer>>

(* A port closes only when nothing holds its streams. *)
CloseOk ==
  /\ host.pc = "closing"
  /\ ~port.readLock
  /\ ~port.writeLock
  /\ port' = [port EXCEPT !.open = FALSE]
  /\ DropArrived
  /\ AnswerClose(machine, host)
  /\ UNCHANGED <<board, attempt, disturbed, crossed, inbox, buffer>>

CloseFails ==
  /\ host.pc = "closing"
  /\ AnswerClose(machine, Remembered(host, "PORT_CLOSE"))
  /\ UNCHANGED <<board, attempt, disturbed, crossed, port, inbox, rx, buffer>>

-----------------------------------------------------------------------------
(* The board. *)

Piece(request, direction, part) ==
  [command |-> request.command, attempt |-> request.attempt,
   direction |-> direction, part |-> part]

(* Its replies to a request, whole or cut, good or not. *)
Replies(request) ==
  {<<Piece(request, "Reply", "whole")>>,
   <<Piece(request, "Reply", "head"), Piece(request, "Reply", "tail")>>}

BadReplies(request) ==
  {<<>>, <<Piece(request, "Error", "whole")>>, <<Piece(request, "Reply", "garbled")>>}

BoardAnswers ==
  /\ inbox # <<>>
  /\ rx' \in {rx \o r : r \in Replies(Head(inbox))}
  /\ inbox' = Tail(inbox)
  /\ UNCHANGED <<board, attempt, disturbed, crossed, machine, host, port, buffer, shown>>

(* Silence, an MSP error or a garbled reply. *)
BoardMisbehaves ==
  /\ inbox # <<>>
  /\ rx' \in {rx \o r : r \in BadReplies(Head(inbox))}
  /\ inbox' = Tail(inbox)
  /\ disturbed' = TRUE
  /\ UNCHANGED <<board, attempt, crossed, machine, host, port, buffer, shown>>

HostSettles ==
  \/ ChooseFails \/ ChooseOk \/ ConstructionFails
  \/ OpenOk \/ OpenFails
  \/ WriteOk \/ WriteFails
  \/ ReadChunk \/ ReadFails \/ ReadTimesOut \/ CancelSettles
  \/ CleanupCancelSettles \/ CloseOk \/ CloseFails

SerialNext ==
  Click \/ HostSettles \/ ReadEmpty \/ BoardAnswers \/ BoardMisbehaves

(* The browser settles every promise the host awaits, and the read timer     *)
(* fires; nothing is assumed of the user or of the board.                    *)
SerialSpec == SerialInit /\ [][SerialNext]_serialVars /\ WF_serialVars(HostSettles)

-----------------------------------------------------------------------------

Truth(b) ==
  CASE b.ApiVersion \in {"otherApi", "otherProtocol"} -> "api-unsupported"
    [] b.ApiVersion \in DOMAIN ProfileOf /\ b.FcVariant = "otherVariant" ->
         "read-profile-unsupported"
    [] b.ApiVersion = "api147" /\ b.FcVariant = "BTFL" -> "read-only-complete"
    [] b.ApiVersion = "api146" /\ b.FcVariant = "BTFL" ->
         IF b.FcVersion = "pinned" /\ b.BoardInfo = "pinned"
           THEN "in-scope" ELSE "scope-mismatch"

JudgedBad == shown # None /\ shown.origin \in MachineOrigins

(* "One failed attempt therefore cannot poison the next" (WEB-SERIAL-SAFETY- *)
(* REVIEW.md): a reply is judged bad only if the board or the line did wrong *)
(* in this very attempt.  The code does not see to it: what the host gave up *)
(* waiting for may arrive in the next attempt.                              *)
NotPoisoned == JudgedBad => disturbed

(* What is true of it: an attempt with a faultless board fails over a bad    *)
(* reply only after it has read a piece of a reply to an earlier attempt.    *)
(* The exchanges of one attempt never spoil each other, however their        *)
(* replies are cut and delayed.                                             *)
OnlyLateRepliesPoison == JudgedBad => disturbed \/ crossed

(* An attempt that shows anything but a failure has released both locks and  *)
(* closed the port; a port that stays behind is never hidden by a result.    *)
ReleasedOrReported ==
  shown # None /\ shown.outcome \notin {"failed", "cancelled", "unavailable"} =>
    port = [open |-> FALSE, readLock |-> FALSE, writeLock |-> FALSE]

(* The host never makes a call the Rust machine refuses. *)
HostIsNeverRefused == ~host.refused

(* The read-only path implements what IdentityRead promises, its end under  *)
(* fairness of the browser included.                                        *)
Read == INSTANCE IdentityRead WITH
          NoVerdict <- None, truth <- Truth(board), reading <- host.pc # "idle",
          verdict <- IF shown = None THEN None
                     ELSE IF shown.outcome = "unavailable" THEN "failed"
                     ELSE shown.outcome

ReadsTheTruth == Read!ReadSpec
=============================================================================
