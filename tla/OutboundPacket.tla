--------------------------- MODULE OutboundPacket ---------------------------
(***************************************************************************)
(* `OutboundPacket` of crates/runtime-ports: bytes a host may send, typed   *)
(* by what they would do to the device. A packet that writes exists only    *)
(* with an approval for its own class. Its bytes are abstracted to the      *)
(* frame they hold, or to none.                                             *)
(***************************************************************************)
EXTENDS IoCoordinator

WriteCommands ==
  [SetBeeperConfig |-> "TransientConfig", EepromWrite |-> "PersistentConfig",
   Reboot |-> "Reboot"]

ReadCommands == {"ApiVersion", "FcVariant", "FcVersion", "BoardInfo", "BeeperConfig"}

WriteClasses == {WriteCommands[c] : c \in DOMAIN WriteCommands}

ClassOf(command) ==
  IF command \in DOMAIN WriteCommands THEN WriteCommands[command] ELSE "NoWrite"

RequestFrame(command, payload) ==
  [direction |-> "Request", command |-> command, payload |-> payload]

(* `classify_packet` succeeds: one whole request frame of a known command. *)
IsRequest(frame) ==
  /\ frame # None
  /\ frame.direction = "Request"
  /\ frame.command \in ReadCommands \cup DOMAIN WriteCommands

CanReadOnly(frame) == IsRequest(frame) /\ ClassOf(frame.command) = "NoWrite"

ReadOnlyPacket(frame) == [frame |-> frame, class |-> "NoWrite", approval |-> None]

CanApprove(frame, approval) ==
  IsRequest(frame) /\ ClassOf(frame.command) = approval.class

ApprovedPacket(frame, approval) ==
  [frame |-> frame, class |-> approval.class, approval |-> approval]

TransportKinds == {"open", "exchange", "close"}

(* Mutant: the failure vocabulary lacks a label of the host. *)
TransportFailuresNoTimeout ==
  {"PortBusy", "PermissionDenied", "Unavailable", "Disconnected", "Cancelled", "Unknown"}

(* By label; Unavailable stands for MissingDriver. *)
TransportFailures ==
  {"PortBusy", "PermissionDenied", "Unavailable", "Disconnected", "Timeout",
   "Cancelled", "Unknown"}

(* `cancel_transport` refuses an id that is not the awaited one. *)
CanCancel(c, id) == c.awaited # None /\ c.awaited.id = id
=============================================================================
