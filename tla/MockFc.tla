------------------------------- MODULE MockFc -------------------------------
(***************************************************************************)
(* crates/mock-fc and crates/fault-injection: a responder is a controller   *)
(* with two copies of one configuration word, behind an injector that       *)
(* breaks the reply to chosen requests. A flag word is one value; its four  *)
(* payload bytes stay together.                                             *)
(***************************************************************************)
EXTENDS OutboundPacket, Sequences

FlagBytes(flags) == [byte \in 1 .. 4 |-> flags]

PowerOn(flags, armed) ==
  [ram |-> flags, eeprom |-> flags, armed |-> armed, rebooted |-> FALSE]

Ok(frame) == [ok |-> TRUE, frame |-> frame]
Err(error) == [ok |-> FALSE, error |-> error]

Reply(direction, command, content) ==
  Ok([direction |-> direction, command |-> command, content |-> content])

(* The identity a mock reports: the pinned device of the M1 scope. *)
IdentityOf ==
  [ApiVersion |-> "api146", FcVariant |-> "BTFL", FcVersion |-> "pinned",
   BoardInfo |-> "pinned"]

Handled(fc, result) == [fc |-> fc, result |-> result]

Accepts(fc, frame) ==
  CASE frame.command = "SetBeeperConfig" -> Len(frame.payload) = 4
    [] frame.command = "EepromWrite"     -> frame.payload = <<>> /\ ~fc.armed
    [] frame.command = "Reboot"          -> frame.payload = <<>>

Applied(fc, frame) ==
  CASE frame.command = "SetBeeperConfig" -> [fc EXCEPT !.ram = frame.payload[1]]
    [] frame.command = "EepromWrite"     -> [fc EXCEPT !.eeprom = fc.ram]
    [] frame.command = "Reboot"          -> [fc EXCEPT !.ram = fc.eeprom, !.rebooted = TRUE]

(* `MockFc::respond`: a refused command is answered and changes nothing. *)
Handle(fc, frame) ==
  IF ~IsRequest(frame) THEN Handled(fc, Err("UnexpectedFrame"))
  ELSE IF frame.command \in DOMAIN IdentityOf
    THEN Handled(fc, Reply("Reply", frame.command, IdentityOf[frame.command]))
  ELSE IF frame.command = "BeeperConfig"
    THEN Handled(fc, Reply("Reply", "BeeperConfig", fc.ram))
  ELSE IF Accepts(fc, frame)
    THEN Handled(Applied(fc, frame), Reply("Reply", frame.command, "empty"))
    ELSE Handled(fc, Reply("Error", frame.command, "empty"))

FaultErrors ==
  {"Timeout", "NoReply", "Disconnected", "PortBusy", "PermissionDenied", "MissingDriver"}

Faults == FaultErrors \cup {"CorruptFrame", "BadChecksum"}

(* A reply that does not decode. *)
Broken == Ok(None)

(* Mutant: the request is served and then the fault is reported. *)
InjectedAfter(fault, fc, frame) ==
  LET passed == Handle(fc, frame)
  IN  [passed EXCEPT !.result = IF fault \in FaultErrors THEN Err(fault) ELSE Broken]

(* `ScheduledFaultInjector::respond`, the fault at this ordinal known: only  *)
(* a flipped checksum lets the request through to the controller.            *)
Injected(fault, fc, frame) ==
  CASE fault \in FaultErrors  -> Handled(fc, Err(fault))
    [] fault = "CorruptFrame" -> Handled(fc, Broken)
    [] fault = "BadChecksum"  ->
         LET passed == Handle(fc, frame)
         IN  [passed EXCEPT !.result = IF passed.result.ok THEN Broken ELSE @]

Respond(fc, frame, schedule, ordinal) ==
  IF ordinal \in DOMAIN schedule
    THEN Injected(schedule[ordinal], fc, frame) ELSE Handle(fc, frame)
=============================================================================
