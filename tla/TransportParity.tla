--------------------------- MODULE TransportParity ---------------------------
(***************************************************************************)
(* One caller drives two executors over the same simulation, one directly   *)
(* and one through host effects, as the parity tests of crates/transport    *)
(* and crates/core-api do. The caller may call anything at any time, in any *)
(* session state, with any approval the gate grants, and may hand the       *)
(* transport frames of its own making. A request whose direction byte is    *)
(* not a request's is left out: nothing in the repository sends one.        *)
(***************************************************************************)
EXTENDS Executor

CONSTANTS
  Worlds,        \* [sim, targets]: a simulation in its initial state, and the
                 \* targets its executor, effect adapter and host are given
  CallerStates,  \* the session states the caller names
  Recoveries,    \* the recovery classes it declares and asks approval for
  Flags,         \* the flag words it writes
  MaxFrames      \* bound on the frames the direct audit records

ASSUME ParityAssumption ==
  /\ CallerStates \subseteq SessionStates
  /\ \A w \in Worlds :
       /\ w.sim = NewSim(w.sim.kind, w.sim.fc, w.sim.schedule, w.sim.steps)
       /\ w.sim.fc = PowerOn(w.sim.fc.ram, w.sim.fc.armed)
       /\ \A ordinal \in DOMAIN w.sim.schedule : w.sim.schedule[ordinal] \in Faults

Divergences ==
  [step : Nat,
   kind : {"WriteDuringIdentify", "CommandNotAllowedDuringIdentify",
           "UnknownCommand", "ReadBorrowedWriteApproval", "WriteApprovalRequired",
           "ApprovalTargetMismatch", "ApprovalClassMismatch",
           "ApprovalRecoveryMismatch", "ReplayExhausted", "OrderMismatch",
           "UnexpectedFrame"}]

(* The requests an executor can build. *)
Outgoing ==
  {RequestFrame(command, payload) :
     command \in ReadCommands \cup DOMAIN WriteCommands,
     payload \in {<<>>} \cup {FlagBytes(flags) : flags \in Flags}}

(* A coordinator, a divergence, a request and an approval are something. *)
ASSUME NoneAssumption ==
  None \notin Coordinators(TransportKinds) \cup Divergences \cup Outgoing
               \cup Approvals(Recoveries)

VARIABLES
  control,   \* what the injected token and clock of both transports refuse with
  direct,    \* the executor over the simulation
  effects,   \* the executor over the effects
  outcome    \* history: the last call, how it ended on each stack, and
             \* whether the two answers are the same

parityVars == <<control, direct, effects, outcome>>

(* A call, as far as the properties tell calls apart: a write of the          *)
(* executor, or a frame handed to the transport.                            *)
NoCall == [call |-> "none", command |-> None, flags |-> None]

RawCall == [NoCall EXCEPT !.call = "raw"]

(* How a call ended, as far as the properties tell. *)
Ending(result) ==
  IF result.ok THEN "done" ELSE IF result.error = "Decode" THEN "unsure" ELSE "failed"

Compared(asked, d, e) ==
  [asked |-> asked, direct |-> Ending(d), effects |-> Ending(e), alike |-> d = e]

NoOutcome == Compared(NoCall, Ok(None), Ok(None))

ParityInit ==
  /\ control = "none"
  /\ \E w \in Worlds :
       /\ CanExecute(w.targets.executor)
       /\ direct = NewExecutor(w.targets.executor, NewStack(w.sim, None, w.targets))
       /\ effects = NewExecutor(w.targets.executor,
                               NewStack(w.sim, NewCoordinator, w.targets))
  /\ outcome = NoOutcome

Fresh(x) == [x EXCEPT !.transport.sim.arrived = None]

(* Both stacks serve one call. *)
Call(asked, Op(_)) ==
  LET d == Op(Fresh(direct))
      e == Op(Fresh(effects))
  IN  /\ direct.transport.sim.sent + direct.transport.sim.blocked < MaxFrames
      /\ direct' = d.x
      /\ effects' = e.x
      /\ outcome' = Compared(asked, d.result, e.result)
      /\ UNCHANGED control

OnTransport(x, came) == Ran([x EXCEPT !.transport = came.stack], came.result)

Open == Call(NoCall, LAMBDA x : OnTransport(x, TransportOpen(x.transport, control)))

Close == Call(NoCall, LAMBDA x : OnTransport(x, TransportClose(x.transport)))

(* `enter_operational` and `begin_identification`. *)
ChangePhase ==
  \E phase \in {"Identifying", "Operational"} :
    /\ phase # direct.transport.sim.phase
    /\ Call(NoCall,
            LAMBDA x : Ran([x EXCEPT !.transport = InPhase(@, phase)], Ok(None)))

CallRead ==
  \E state \in CallerStates :
    Call(NoCall, LAMBDA x : Read(x, control, state, "BeeperConfig"))

(* The approvals at hand: all for this simulation, and those to change the   *)
(* configuration of another.                                                *)
Granted ==
  {a \in Approvals(Recoveries) :
     a.target = direct.transport.sim.kind \/ a.class = "TransientConfig"}

(* Only a beeper write carries flags. *)
Writes ==
  [call : {"write"}, command : {"SetBeeperConfig"}, flags : Flags]
  \cup [call : {"write"}, command : {"EepromWrite", "Reboot"}, flags : {None}]

CallWrite ==
  \E state \in CallerStates, w \in Writes, approval \in Granted, declared \in Recoveries :
    Call(w,
         LAMBDA x : Write(x, control, state, w.command, w.flags, approval, declared))

CallIdentify ==
  \E state \in CallerStates :
    Call(NoCall, LAMBDA x : Identify(x, control, state))

(* Undecodable bytes, an unknown command, a read outside the identification  *)
(* allow-list, and writes with a payload of the wrong and the right length.  *)
RawFrames ==
  {None, RequestFrame("unknown", <<>>), RequestFrame("BeeperConfig", <<>>),
   RequestFrame("SetBeeperConfig", <<"oneByte">>), RequestFrame("Reboot", <<>>)}

(* A frame handed to the transport without the executor. *)
CallRaw ==
  \E frame \in RawFrames, approval \in Granted \cup {None} :
  \E declared \in IF approval = None THEN {None} ELSE Recoveries :
    Call(RawCall,
         LAMBDA x : OnTransport(x, TransportExchange(x.transport, control, frame,
                                                     approval, declared)))

(* `CancellationFlag::cancel` and `reset`; `ManualClock::advance` past the   *)
(* deadline, which no call takes back.                                      *)
SetControl ==
  /\ \/ control = "none" /\ control' \in {"Cancelled", "DeadlineExceeded"}
     \/ control = "Cancelled" /\ control' = "none"
  /\ outcome' = NoOutcome
  /\ UNCHANGED <<direct, effects>>

ParityNext ==
  \/ Open \/ Close \/ ChangePhase \/ SetControl
  \/ CallRead \/ CallWrite \/ CallIdentify \/ CallRaw

ParitySpec == ParityInit /\ [][ParityNext]_parityVars

-----------------------------------------------------------------------------
(* Properties. *)

Stacks == {direct, effects}

Sims == {x.transport.sim : x \in Stacks}

(* Between two calls nothing waits: no effect is in flight and no request is *)
(* outstanding, whatever the last call ended with. Were one left behind,     *)
(* every later effect or reply would be refused.                             *)
NothingOutstanding ==
  /\ effects.transport.boundary.awaited = None
  /\ \A x \in Stacks : x.correlator.outstanding = <<>>

(* Whatever the wiring, a write reaches a device or a transcript only        *)
(* outside identification and with an approval for its class, for this       *)
(* simulation and for the recovery declared; identification lets nothing     *)
(* through but its four reads.                                               *)
OnlyApprovedWritesArrive ==
  \A s \in Sims :
    s.arrived # None =>
      LET command  == s.arrived.frame.command
          approval == s.arrived.approval
      IN  /\ command \notin IdentifyCommands => s.arrived.phase = "Operational"
          /\ command \notin ReadCommands =>
               /\ command \in DOMAIN WriteCommands
               /\ approval \in Approvals(Recoveries)
               /\ approval.target = s.kind
               /\ approval.class = WriteCommands[command]
               /\ approval.recovery = s.arrived.declared

(* A replay that reports no divergence has heard its transcript's frames in  *)
(* order and nothing else, refused attempts included.                        *)
NoDivergenceMeansFaithful ==
  \A s \in Sims :
    s.kind = "Replay" /\ s.divergence = None => s.sent = s.cursor /\ s.blocked = 0

(* The layers are given the target of the simulation, and ids remain. *)
WellWired ==
  LET kind == direct.transport.sim.kind
  IN  /\ direct.transport.targets = [executor |-> kind, effect |-> kind, host |-> kind]
      /\ effects.transport.boundary.nextId < MaxRequestId

Visible(s) ==
  [phase |-> s.phase, open |-> s.open, fc |-> s.fc, calls |-> s.calls,
   cursor |-> s.cursor, sent |-> s.sent]

SimOf(stack) == (IF stack = "direct" THEN direct ELSE effects).transport.sim

(* What an acknowledged write says of the controller's state. *)
WrittenTo(fc, asked) ==
  CASE asked.command = "SetBeeperConfig" -> fc.ram = asked.flags
    [] asked.command = "EepromWrite"     -> fc.eeprom = fc.ram /\ ~fc.armed
    [] asked.command = "Reboot"          -> fc.ram = fc.eeprom /\ fc.rebooted

(* Behind effects the device, the port and the transcript go through exactly *)
(* what they go through directly, and both stacks answer alike: word for     *)
(* word through the executor, in success and its reply for a frame handed to *)
(* the transport. The blocked attempts are not compared: the effect adapter  *)
(* refuses some frames before the simulation can audit them.                 *)
Parity ==
  WellWired =>
    /\ Visible(direct.transport.sim) = Visible(effects.transport.sim)
    /\ \/ outcome.alike
       \/ outcome.asked.call = "raw" /\ outcome.direct = "failed" /\ outcome.effects = "failed"

(* What an executor answers is true of the mock controller. A write reported *)
(* done was done; one reported failed, because it was refused or its fault   *)
(* came before the device, changed nothing; only an undecodable reply leaves *)
(* the caller unsure, and the lifecycle must then recover.                   *)
AnswersMatchTheDevice ==
  [][\A stack \in {"direct", "effects"} :
       /\ /\ outcome'[stack] = "done"
          /\ outcome'.asked.call = "write"
          /\ SimOf(stack)'.kind = "Mock"
          => WrittenTo(SimOf(stack)'.fc, outcome'.asked)
       /\ outcome'[stack] = "failed" => SimOf(stack)'.fc = SimOf(stack).fc]_parityVars
=============================================================================
