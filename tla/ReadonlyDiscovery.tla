------------------------- MODULE ReadonlyDiscovery -------------------------
(***************************************************************************)
(* `WasmReadonlySerialDiscovery` (crates/web-readonly-serial-wasm-bridge):  *)
(* the Rust state machine that tells the browser host which of open,        *)
(* exchange and close comes next. Its state is one record, each method of   *)
(* its ABI an operator returning the new record and the answer, so that the *)
(* host's module and the arbitrary caller below drive the same machine.     *)
(* The accumulator is abstracted to what MspAccumulator shows it to say of  *)
(* the bytes so far: more, a refusal, or the one frame.                     *)
(***************************************************************************)
EXTENDS ReadonlyIdentification, OutboundPacket

CONSTANT TraceLimit   \* TRACE_EVENT_LIMIT (32)

ASSUME TraceAssumption == TraceLimit \in Nat \ {0}

(* One discovery uses six request ids: the open, four exchanges, the close. *)
ASSUME IdsAssumption == MaxRequestId > 6

(* `IdentityFailureReason`; "Payload" is whatever a payload decoder refused,  *)
(* which no gate tells apart.                                               *)
FailureReasons ==
  {"PayloadTooLong", "FrameTooLarge", "Truncated", "TrailingBytes", "BadPreamble",
   "BadDirection", "BadChecksum", "WrongCommand", "WrongDirection", "ErrorReply",
   "ReplyMisclassified", "WrongLength", "FieldOverrun", "TrailingPayload",
   "InvalidUtf8", "Payload", "OtherProtocolIdentityFailure"}

FailureClasses ==
  TransportFailures \cup {"MalformedResponse", "ProtocolIdentityFailure", "CloseFailure"}

Failures ==
  [kind : {"failed"}, class : FailureClasses,
   diagnostic : [stage : ToSet(Stages), reason : FailureReasons] \cup {None}]

(* `FinalOutcome`, its payload facts as their decoders class them. *)
Outcomes ==
  LET versions == Contents["FcVersion"]
      boards == Contents["BoardInfo"]
      fields == {"protocol_version", "msp_api_version", "fc_variant",
                 "fc_version", "target_name"}
  IN  Failures
      \cup [kind : {"api-unsupported", "read-profile-unsupported"}, field : fields]
      \cup [kind : {"in-scope", "read-only-complete"}, version : versions, board : boards]
      \cup [kind : {"scope-mismatch"}, version : versions, board : boards, field : fields]

(* A command, a fact, a request and an outcome are something. *)
ASSUME NoneAssumption ==
  None \notin Known \cup Profiles \cup {"BTFL", "pinned", "otherVersion"}
               \cup Requests(TransportKinds) \cup Outcomes

(* A frame that is whole is of the awaited command: the accumulator refuses *)
(* the others.                                                              *)
FramesOf(command) ==
  [command : {command}, direction : {"Reply", "Error"}, content : Contents[command]]

FailedOutcome(class, diagnostic) ==
  [kind |-> "failed", class |-> class, diagnostic |-> diagnostic]

NewDiscovery ==
  [phase |-> "Ready", pendingId |-> None, coordinator |-> NewCoordinator,
   ident |-> NewIdentification, accumulating |-> None, outcome |-> None,
   trace |-> <<>>]

Answered(d, answer) == [d |-> d, answer |-> answer]

(* An `Err` of the ABI; `d` is what the failed method left behind. *)
RefusedCall(d) == Answered(d, [kind |-> "refused"])

NoDirective(d) == Answered(d, [kind |-> "none"])

(* The queue keeps the newest events. *)
Traced(d, event) ==
  [d EXCEPT !.trace =
     Append(IF Len(@) = TraceLimit THEN Tail(@) ELSE @, event)]

(* `directive_from` re-checks a packet against what may be sent here. *)
MaySend(packet, expected) ==
  /\ packet.class = "NoWrite"
  /\ packet.approval = None
  /\ packet.frame.direction = "Request"
  /\ packet.frame.command \in ToSet(Stages)
  /\ packet.frame.command = expected
  /\ packet.frame.payload = <<>>

(* `begin_effect`: the request is pending, and the phase entered, before the *)
(* directive is checked.                                                     *)
BeginEffect(d, kind, packet, phase) ==
  IF ~CanBegin(d.coordinator) THEN RefusedCall(d)
  ELSE LET begun == [d EXCEPT !.coordinator = Begin(@, kind),
                              !.pendingId = d.coordinator.nextId,
                              !.phase = phase]
       IN  IF kind = "exchange" /\ ~MaySend(packet, d.accumulating)
             THEN RefusedCall(begun)
             ELSE Answered(begun,
                    [kind |-> kind, id |-> begun.pendingId, command |-> d.accumulating])

BeginOpen(d) ==
  IF d.phase # "Ready" THEN RefusedCall(d)
  ELSE BeginEffect(d, "open", None, "Opening")

NextExchange(d) ==
  IF ~CanRequest(d.ident) THEN RefusedCall(d)
  ELSE LET command == d.ident.stage
           asked   == [d EXCEPT !.ident = Requested(@), !.accumulating = command]
           begun   == BeginEffect(asked, "exchange",
                        ReadOnlyPacket(RequestFrame(command, <<>>)), "Exchanging")
       IN  IF begun.answer.kind = "refused" THEN begun
           ELSE [begun EXCEPT !.d = Traced(@, <<"DIRECTIVE", command>>)]

(* Mutant: the accumulator survives the exchange. *)
StartCloseKeeping(d) == BeginEffect(d, "close", None, "Closing")

StartClose(d) ==
  BeginEffect([d EXCEPT !.accumulating = None], "close", None, "Closing")

(* `verify_pending`, first in every answering method. *)
Pending(d, id, phase) == d.phase = phase /\ d.pendingId = id

(* The coordinator consumes the answer to the pending request. *)
AnswerAccepted(d, kind) == Answers(d.coordinator, [id |-> d.pendingId, kind |-> kind])

Consume(d) == [d EXCEPT !.coordinator = Consumed(@), !.pendingId = None]

AcceptOpenOk(d, id) ==
  IF ~Pending(d, id, "Opening") \/ ~AnswerAccepted(d, "open") THEN RefusedCall(d)
  ELSE NextExchange(Consume(d))

AcceptOpenErr(d, id, failure) ==
  IF \/ ~Pending(d, id, "Opening")
     \/ failure \notin TransportFailures
     \/ ~AnswerAccepted(d, "open")
    THEN RefusedCall(d)
    ELSE NoDirective([Consume(d) EXCEPT !.outcome = FailedOutcome(failure, None),
                                        !.phase = "Complete"])

(* A malformed frame cancels the exchange instead of answering it. *)
FailExchange(d, class, diagnostic) ==
  IF ~CanCancel(d.coordinator, d.pendingId) THEN RefusedCall(d)
  ELSE StartClose([Consume(d) EXCEPT !.outcome = FailedOutcome(class, diagnostic)])

(* `IdentityFailureReason::from_exec`: errors without a label of their own   *)
(* become one.                                                               *)
ReasonOf(error) ==
  CASE error = "ReplyCommandMismatch"  -> "WrongCommand"
    [] error = "ReplyDirectionInvalid" -> "WrongDirection"
    [] error = "ErrorReply"            -> "ErrorReply"
    [] error = "ReplyMisclassified"    -> "ReplyMisclassified"
    [] error = "Payload"               -> "Payload"
    [] OTHER                           -> "OtherProtocolIdentityFailure"

OutcomeOf(result) ==
  CASE result.kind = "apiScopeMismatch" ->
         [kind |-> "api-unsupported", field |-> result.field]
    [] result.kind = "readProfileMismatch" ->
         [kind |-> "read-profile-unsupported", field |-> result.field]
    [] result.kind = "readOnlyComplete" ->
         [kind |-> "read-only-complete", version |-> result.version,
          board |-> result.board]
    [] result.kind = "complete" /\ ScopeField(result) = "none" ->
         [kind |-> "in-scope", version |-> result.version, board |-> result.board]
    [] result.kind = "complete" /\ ScopeField(result) # "none" ->
         [kind |-> "scope-mismatch", version |-> result.version,
          board |-> result.board, field |-> ScopeField(result)]

(* The whole frame is in: the exchange is over whatever the frame says. *)
AcceptFrame(d, frame) ==
  LET stage    == d.ident.stage
      answered == [Consume(Traced(d, <<"FRAME_ACCEPTED", stage>>))
                     EXCEPT !.accumulating = None]
      progress == AcceptResponse(d.ident, frame)
      result   == progress.result
      moved    == [answered EXCEPT !.ident = progress.i]
      passed   == Traced(moved, <<"IDENTITY_STAGE_OK", stage>>)
      stopped  == Traced(moved, <<"IDENTITY_STAGE_FAILED", stage>>)
  IN  CASE result.kind = "pending" -> NextExchange(passed)
        [] result.kind = "error" ->
             StartClose([stopped EXCEPT !.outcome =
               FailedOutcome("ProtocolIdentityFailure",
                 [stage |-> stage, reason |-> ReasonOf(result.error)])])
        [] result.kind \notin {"pending", "error"} ->
             StartClose([passed EXCEPT !.outcome = OutcomeOf(result)])

(* A chunk is what the accumulator made of it. *)
AcceptChunk(d, id, chunk) ==
  IF ~Pending(d, id, "Exchanging") \/ d.accumulating = None THEN RefusedCall(d)
  ELSE IF chunk.kind = "more" THEN NoDirective(d)
  ELSE IF chunk.kind = "malformed"
    THEN FailExchange(Traced(d, <<"FRAME_REJECTED", d.ident.stage>>),
           "MalformedResponse", [stage |-> d.ident.stage, reason |-> chunk.reason])
  ELSE IF ~AnswerAccepted(d, "exchange") THEN RefusedCall(d)
  ELSE AcceptFrame(d, chunk.frame)

(* Mutant: the failure is stored before its label is read. *)
AcceptExchangeErrStoring(d, id, failure) ==
  IF ~Pending(d, id, "Exchanging") THEN RefusedCall(d)
  ELSE IF failure \notin TransportFailures \/ ~AnswerAccepted(d, "exchange")
    THEN RefusedCall([d EXCEPT !.outcome = FailedOutcome(failure, None)])
    ELSE StartClose([Consume(d) EXCEPT !.outcome = FailedOutcome(failure, None)])

AcceptExchangeErr(d, id, failure) ==
  IF \/ ~Pending(d, id, "Exchanging")
     \/ failure \notin TransportFailures
     \/ ~AnswerAccepted(d, "exchange")
    THEN RefusedCall(d)
    ELSE StartClose([Consume(d) EXCEPT !.outcome = FailedOutcome(failure, None)])

AcceptCloseOk(d, id) ==
  IF ~Pending(d, id, "Closing") \/ ~AnswerAccepted(d, "close") THEN RefusedCall(d)
  ELSE NoDirective([Consume(d) EXCEPT !.phase = "Complete"])

(* Whatever was found out before, a port that did not close is a failure. *)
AcceptCloseErr(d, id, failure) ==
  IF \/ ~Pending(d, id, "Closing")
     \/ failure \notin TransportFailures
     \/ ~AnswerAccepted(d, "close")
    THEN RefusedCall(d)
    ELSE NoDirective([Consume(d) EXCEPT !.outcome = FailedOutcome("CloseFailure", None),
                                        !.phase = "Complete"])

TakeTrace(d) == [d EXCEPT !.trace = IF @ = <<>> THEN @ ELSE Tail(@)]

-----------------------------------------------------------------------------
(* What the getters expose. Only `outcomeKind` waits for the end; the others *)
(* show the outcome as soon as it is stored.                                 *)

OutcomeKind(d) ==
  IF d.phase = "Complete" /\ d.outcome # None THEN d.outcome.kind ELSE "pending"

FailureClass(d) ==
  IF d.outcome # None /\ d.outcome.kind = "failed" THEN d.outcome.class ELSE None

HasDiagnostic(d) == FailureClass(d) # None /\ d.outcome.diagnostic # None

FailureStage(d) == IF HasDiagnostic(d) THEN d.outcome.diagnostic.stage ELSE None

FailureReason(d) == IF HasDiagnostic(d) THEN d.outcome.diagnostic.reason ELSE None

MismatchField(d) ==
  IF d.outcome # None /\ "field" \in DOMAIN d.outcome THEN d.outcome.field ELSE None

IdentityKinds == {"in-scope", "scope-mismatch", "read-only-complete"}

(* `targetName` and the other identity getters. *)
Identity(d) ==
  IF d.outcome # None /\ d.outcome.kind \in IdentityKinds
    THEN [version |-> d.outcome.version, board |-> d.outcome.board] ELSE None
=============================================================================
