--------------------------- MODULE EffectTransport ---------------------------
(***************************************************************************)
(* The same simulation reached through typed host effects: the adapter asks *)
(* the coordinator for a request id, the host executes the effect on the    *)
(* simulation it owns, and the coordinator consumes the answer. A stack is  *)
(* a simulation with what lies above it; `boundary` is None when nothing    *)
(* does.                                                                    *)
(***************************************************************************)
EXTENDS SimTransport

NewStack(sim, boundary, targets) ==
  [sim |-> sim, boundary |-> boundary, targets |-> targets]

Came(stack, result) == [stack |-> stack, result |-> result]

Through(stack, done) == Came([stack EXCEPT !.sim = done.s], done.result)

(* `LogicalEffectHost::execute` of an exchange. *)
HostExchange(stack, control, packet) ==
  IF packet.approval = None
    THEN Through(stack, SimExchange(stack.sim, control, packet.frame, None, None))
  ELSE IF packet.approval.target # stack.targets.host
    THEN Came(stack, Err("ApprovalTargetMismatch"))
  ELSE Through(stack, SimExchange(stack.sim, control, packet.frame, packet.approval,
                                  packet.approval.recovery))

(* Mutant: a failed effect is not cancelled. *)
SettleAnswered(ran) ==
  IF ran.result.ok THEN [ran EXCEPT !.stack.boundary = Consumed(@)] ELSE ran

(* Mutant: the device's own error is lost at the boundary. *)
SettleMasking(ran) ==
  [ran EXCEPT !.stack.boundary = Consumed(@),
              !.result = IF @.ok THEN @ ELSE Err("EffectBoundary")]

(* The answer is accepted, or the request cancelled when the host fails. *)
Settle(ran) == [ran EXCEPT !.stack.boundary = Consumed(@)]

(* What the host sees of a request that has begun. *)
Begun(stack, kind) == [stack EXCEPT !.boundary = Begin(@, kind)]

(* `round_trip`: what the host made of a request that could begin. *)
RoundTrip(stack, ran) ==
  IF ~CanBegin(stack.boundary) THEN Came(stack, Err("EffectBoundary")) ELSE Settle(ran)

ExchangePacket(stack, control, packet) ==
  RoundTrip(stack, HostExchange(Begun(stack, "exchange"), control, packet))

(* `exchange` and `exchange_with_approval` of EffectTransport: the packet is *)
(* typed before anything is asked of the host.                              *)
EffectExchange(stack, control, frame, approval, declared) ==
  IF approval = None
    THEN IF CanReadOnly(frame) THEN ExchangePacket(stack, control, ReadOnlyPacket(frame))
         ELSE Came(stack, Err("EffectBoundary"))
  ELSE IF approval.target # stack.targets.effect
    THEN Came(stack, Err("ApprovalTargetMismatch"))
  ELSE IF approval.recovery # declared THEN Came(stack, Err("ApprovalRecoveryMismatch"))
  ELSE IF CanApprove(frame, approval)
    THEN ExchangePacket(stack, control, ApprovedPacket(frame, approval))
    ELSE Came(stack, Err("EffectBoundary"))

-----------------------------------------------------------------------------
(* The logical transport a caller sees. *)

TransportExchange(stack, control, frame, approval, declared) ==
  IF stack.boundary = None
    THEN Through(stack, SimExchange(stack.sim, control, frame, approval, declared))
    ELSE EffectExchange(stack, control, frame, approval, declared)

TransportOpen(stack, control) ==
  LET inner(s) == Through(s, SimOpen(s.sim, control))
  IN  IF stack.boundary = None THEN inner(stack) ELSE RoundTrip(stack, inner(Begun(stack, "open")))

(* A close that cannot begin is dropped. *)
TransportClose(stack) ==
  LET inner(s) == Came([s EXCEPT !.sim = SimClose(@)], Ok(None))
  IN  IF stack.boundary = None THEN inner(stack)
      ELSE [RoundTrip(stack, inner(Begun(stack, "close"))) EXCEPT !.result = Ok(None)]

InPhase(stack, phase) == [stack EXCEPT !.sim.phase = phase]
=============================================================================
