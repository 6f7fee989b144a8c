------------------------------ MODULE Executor ------------------------------
(***************************************************************************)
(* `Executor` of crates/execution: the one path from the lifecycle to a     *)
(* transport. A caller names an operation and the session state it is in;   *)
(* the executor checks both against the approval, sends the frame and takes *)
(* nothing but the matching reply. An executor is a transport stack with a  *)
(* target of its own and a correlator.                                      *)
(***************************************************************************)
EXTENDS EffectTransport, ReadonlyIdentification, Session

(* `new_simulation` refuses the hardware target. *)
CanExecute(target) == target # "Hardware"

NewExecutor(target, stack) ==
  [target |-> target, transport |-> stack, correlator |-> NewCorrelator]

Ran(x, result) == [x |-> x, result |-> result]

(* What `exchange_inner` finds wrong with the reply to a command. *)
ReplyRefusal(correlator, command, frame) ==
  IF frame = None THEN "Decode"
  ELSE IF frame.direction = "Request" THEN "ReplyDirectionInvalid"
  ELSE IF frame.command \notin Known THEN "ReplyCommandMismatch"
  ELSE IF ReplyClass(correlator, frame.command) # "Expected" THEN "ReplyMisclassified"
  ELSE IF frame.command # command THEN "ReplyCommandMismatch"
  ELSE IF frame.direction = "Error" THEN "ErrorReply" ELSE "none"

(* Mutant: a failed exchange leaves its request outstanding. *)
FailedKeeping(x, error) == Ran(x, Err(error))

(* The correlator starts afresh after any failure. *)
Failed(x, error) == Ran([x EXCEPT !.correlator = NewCorrelator], Err(error))

(* `exchange` and `exchange_with_approval` around `exchange_inner`. *)
Exchange(x, control, command, payload, approval, declared) ==
  LET asked  == OnRequest(x.correlator, command)
      came   == TransportExchange(x.transport, control, RequestFrame(command, payload),
                                  approval, declared)
      after  == [x EXCEPT !.transport = came.stack]
      refusal == IF ~came.result.ok THEN came.result.error
                 ELSE ReplyRefusal(asked, command, came.result.frame)
  IN  IF refusal # "none" THEN Failed([after EXCEPT !.correlator = asked], refusal)
      ELSE Ran([after EXCEPT !.correlator = OnReply(asked, command)], came.result)

Read(x, control, state, command) ==
  IF state \notin PermittedIn["NoWrite"] THEN Ran(x, Err("NotPermittedInState"))
  ELSE Exchange(x, control, command, <<>>, None, None)

PayloadOf(command, flags) ==
  IF command = "SetBeeperConfig" THEN FlagBytes(flags) ELSE <<>>

(* What `write` checks before it sends anything. *)
WriteRefusal(x, state, command, approval, declared) ==
  IF state \notin PermittedIn[ClassOf(command)] THEN "NotPermittedInState"
  ELSE IF approval.target # x.target THEN "ApprovalTargetMismatch"
  ELSE IF approval.class # ClassOf(command) THEN "ApprovalClassMismatch"
  ELSE IF approval.recovery # declared THEN "ApprovalRecoveryMismatch" ELSE "none"

(* An acknowledgement is empty. *)
Write(x, control, state, command, flags, approval, declared) ==
  IF WriteRefusal(x, state, command, approval, declared) # "none"
    THEN Ran(x, Err(WriteRefusal(x, state, command, approval, declared)))
    ELSE LET went == Exchange(x, control, command, PayloadOf(command, flags),
                              approval, declared)
         IN  IF went.result.ok /\ went.result.frame.content # "empty"
               THEN Ran(went.x, Err("WriteAckNotEmpty")) ELSE went

(* What one round of `identify` makes of the progress it is told. *)
IdentifyResult(progress) ==
  CASE progress.kind = "pending"  -> None
    [] progress.kind = "error"    -> Err(progress.error)
    [] progress.kind = "complete" -> Ok([version |-> progress.version,
                                         board |-> progress.board])
    [] progress.kind = "readProfileMismatch" -> Err("ReadProfileMismatch")
    [] progress.kind \in {"readOnlyComplete", "apiScopeMismatch"} -> Err("ApiScopeMismatch")

IdentifyRound(run, control) ==
  LET came == TransportExchange(run.stack, control,
                                RequestFrame(run.i.stage, <<>>), None, None)
      told == AcceptResponse(Requested(run.i), came.result.frame)
  IN  IF run.result # None THEN run
      ELSE IF ~CanRequest(run.i) THEN [run EXCEPT !.result = Err("RequestRefused")]
      ELSE IF ~came.result.ok THEN [run EXCEPT !.stack = came.stack, !.result = came.result]
      ELSE IF came.result.frame = None
        THEN [run EXCEPT !.stack = came.stack, !.result = Err("Decode")]
      ELSE [stack |-> came.stack, i |-> told.i, result |-> IdentifyResult(told.result)]

(* One round per stage. *)
EachStage(Round(_), run) == Round(Round(Round(Round(run))))

(* `identify` does not go through the correlator of the executor. *)
Identify(x, control, state) ==
  IF state \notin PermitsIdentification THEN Ran(x, Err("NotPermittedInState"))
  ELSE LET run == EachStage(LAMBDA r : IdentifyRound(r, control),
                            [stack |-> x.transport, i |-> NewIdentification,
                             result |-> None])
       IN  Ran([x EXCEPT !.transport = run.stack], run.result)
=============================================================================
