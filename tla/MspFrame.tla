------------------------------ MODULE MspFrame ------------------------------
(***************************************************************************)
(* crates/protocol-msp: the MSPv1 frame on the wire, `$ M dir size cmd      *)
(* payload checksum`, as sequences of bytes. Decoding is written in the     *)
(* order of the code's checks, because the reason of a refusal is reported  *)
(* to the user.                                                             *)
(***************************************************************************)
EXTENDS Naturals, Sequences, SequencesExt

Dollar == 36
LetterM == 77

DirectionByte == [Request |-> 60, Reply |-> 62, Error |-> 33]

CommandByte ==
  [ApiVersion |-> 1, FcVariant |-> 2, FcVersion |-> 3, BoardInfo |-> 4,
   Reboot |-> 68, BeeperConfig |-> 184, SetBeeperConfig |-> 185,
   EepromWrite |-> 250]

(* `$ M dir size cmd` before the payload and the checksum after it. *)
FrameOverhead == 6

FrameLen(size) == FrameOverhead + size

(* XOR of two bytes, bit by bit. (Module Bitwise is recursive, and so cannot *)
(* be used in a module something is proved about.)                          *)
Xor(a, b) ==
  MapThenSumSet(LAMBDA bit : 2^bit * (((a \div 2^bit) + (b \div 2^bit)) % 2), 0 .. 7)

(* XOR of the size byte, the command byte and the payload. *)
Checksum(size, command, payload) == FoldLeft(Xor, Xor(size, command), payload)

EncodeFrame(direction, command, payload) ==
  <<Dollar, LetterM, DirectionByte[direction], Len(payload), command>>
    \o payload \o <<Checksum(Len(payload), command, payload)>>

(* `Direction::from_byte`: the direction a byte stands for, if any. *)
DirectionsOf(byte) == {d \in DOMAIN DirectionByte : DirectionByte[d] = byte}

PreambleIsBad(bytes) ==
  \/ Len(bytes) >= 1 /\ bytes[1] # Dollar
  \/ Len(bytes) >= 2 /\ bytes[2] # LetterM

Refused(reason) == [verdict |-> "refused", reason |-> reason]

(* What `decode_frame` returns: the frame, or why the bytes are refused. *)
DecodeFrame(bytes) ==
  IF Len(bytes) < FrameOverhead THEN Refused("Truncated")
  ELSE IF PreambleIsBad(bytes) THEN Refused("BadPreamble")
  ELSE IF DirectionsOf(bytes[3]) = {} THEN Refused("BadDirection")
  ELSE IF Len(bytes) < FrameLen(bytes[4]) THEN Refused("Truncated")
  ELSE IF Len(bytes) > FrameLen(bytes[4]) THEN Refused("TrailingBytes")
  ELSE LET payload == SubSeq(bytes, 6, 5 + bytes[4])
       IN  IF bytes[Len(bytes)] # Checksum(bytes[4], bytes[5], payload)
             THEN Refused("BadChecksum")
             ELSE [verdict |-> "complete",
                   direction |-> CHOOSE d \in DirectionsOf(bytes[3]) : TRUE,
                   command |-> bytes[5],
                   payload |-> payload]
=============================================================================
