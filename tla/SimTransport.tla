---------------------------- MODULE SimTransport ----------------------------
(***************************************************************************)
(* crates/transport: the two simulations behind the logical transport.      *)
(* MockTransport hands a guarded frame to a responder, ReplayTransport to a *)
(* transcript. A simulation is a record and its methods are operators, so   *)
(* that the direct stack and the one behind host effects share them. The    *)
(* audit keeps how many entries there are of each disposition.              *)
(***************************************************************************)
EXTENDS MockFc, SafetyGate

IdentifyCommands == {"ApiVersion", "FcVariant", "FcVersion", "BoardInfo"}

NewSim(kind, fc, schedule, steps) ==
  [kind |-> kind, phase |-> "Identifying", open |-> FALSE,
   sent |-> 0, blocked |-> 0,
   fc |-> fc, schedule |-> schedule, calls |-> 0,
   steps |-> steps, cursor |-> 0, divergence |-> None,
   arrived |-> None]

Done(s, result) == [s |-> s, result |-> result]

(* `control` is what `TransportControl::check` finds: "none", "Cancelled" or, *)
(* when not cancelled, "DeadlineExceeded".                                   *)
SimOpen(s, control) ==
  IF control # "none" THEN Done(s, Err(control))
  ELSE Done([s EXCEPT !.open = TRUE], Ok(None))

SimClose(s) == [s EXCEPT !.open = FALSE]

(* Mutant: only the known writes are refused while identifying. *)
IdentifyRefusalOpen(command) ==
  IF command \in DOMAIN WriteCommands THEN "WriteDuringIdentify" ELSE "none"

(* `identify_refusal`: fail-closed, by allow-list. *)
IdentifyRefusal(command) ==
  IF command \in IdentifyCommands THEN "none"
  ELSE IF command \in DOMAIN WriteCommands THEN "WriteDuringIdentify"
  ELSE "CommandNotAllowedDuringIdentify"

(* Mutant: a granted approval serves for every class. *)
AuthorityRefusalAnyClass(kind, command, approval, declared) ==
  IF command \notin ReadCommands \cup DOMAIN WriteCommands THEN "UnknownCommand"
  ELSE IF ClassOf(command) = "NoWrite"
    THEN IF approval = None THEN "none" ELSE "ReadBorrowedWriteApproval"
  ELSE IF approval = None THEN "WriteApprovalRequired"
  ELSE IF approval.target # kind THEN "ApprovalTargetMismatch"
  ELSE IF approval.recovery # declared THEN "ApprovalRecoveryMismatch"
  ELSE "none"

(* `authority_refusal`. *)
AuthorityRefusal(kind, command, approval, declared) ==
  IF command \notin ReadCommands \cup DOMAIN WriteCommands THEN "UnknownCommand"
  ELSE IF ClassOf(command) = "NoWrite"
    THEN IF approval = None THEN "none" ELSE "ReadBorrowedWriteApproval"
  ELSE IF approval = None THEN "WriteApprovalRequired"
  ELSE IF approval.target # kind THEN "ApprovalTargetMismatch"
  ELSE IF approval.class # ClassOf(command) THEN "ApprovalClassMismatch"
  ELSE IF approval.recovery # declared THEN "ApprovalRecoveryMismatch"
  ELSE "none"

GuardRefusal(s, command, approval, declared) ==
  IF s.phase = "Identifying" /\ IdentifyRefusal(command) # "none"
    THEN IdentifyRefusal(command)
    ELSE AuthorityRefusal(s.kind, command, approval, declared)

(* `AuditSink::record`: metadata only. *)
AuditedSent(s) == [s EXCEPT !.sent = @ + 1]

AuditedBlocked(s) == [s EXCEPT !.blocked = @ + 1]

(* Only the first divergence is kept. *)
Diverged(s, error) ==
  [s EXCEPT !.divergence = IF @ = None THEN [step |-> s.cursor, kind |-> error] ELSE @]

(* The injector counts what reaches it. *)
Answer(s, frame) ==
  LET handled == Respond(s.fc, frame, s.schedule, s.calls)
  IN  Done([s EXCEPT !.fc = handled.fc, !.calls = @ + 1], handled.result)

Misplay(s, frame) ==
  IF s.cursor >= Len(s.steps) THEN "ReplayExhausted"
  ELSE IF s.steps[s.cursor + 1].expected = frame THEN "none"
  ELSE IF \E n \in s.cursor + 2 .. Len(s.steps) : s.steps[n].expected = frame
    THEN "OrderMismatch" ELSE "UnexpectedFrame"

(* Mutant: a frame the transcript did not expect is not remembered. *)
PlayForgetting(s, frame) ==
  IF Misplay(s, frame) # "none" THEN Done(s, Err(Misplay(s, frame)))
  ELSE Done([s EXCEPT !.cursor = @ + 1], s.steps[s.cursor + 1].response)

(* `exchange_after_guard`: a step is consumed only by its own frame. *)
Play(s, frame) ==
  IF Misplay(s, frame) # "none"
    THEN Done(Diverged(s, Misplay(s, frame)), Err(Misplay(s, frame)))
    ELSE Done([s EXCEPT !.cursor = @ + 1], s.steps[s.cursor + 1].response)

(* `exchange` and `exchange_with_approval`; `arrived` remembers the evidence *)
(* a frame came with.                                                        *)
SimExchange(s, control, frame, approval, declared) ==
  IF ~s.open THEN Done(s, Err("NotOpen"))
  ELSE IF control # "none" THEN Done(s, Err(control))
  ELSE IF frame = None THEN Done(s, Err("Malformed"))
  ELSE LET refusal == GuardRefusal(s, frame.command, approval, declared)
           blocked == AuditedBlocked(s)
           passed  == [AuditedSent(s) EXCEPT
                         !.arrived = [frame |-> frame, approval |-> approval,
                                      declared |-> declared, phase |-> s.phase]]
       IN  IF refusal # "none"
             THEN Done(IF s.kind = "Replay" THEN Diverged(blocked, refusal) ELSE blocked,
                       Err(refusal))
           ELSE IF s.kind = "Mock" THEN Answer(passed, frame)
           ELSE Play(passed, frame)
=============================================================================
