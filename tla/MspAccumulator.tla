--------------------------- MODULE MspAccumulator ---------------------------
(***************************************************************************)
(* `MspV1ResponseAccumulator` (crates/protocol-msp): one expected reply is  *)
(* put together from browser chunks, which have no protocol meaning. The    *)
(* question is whether the way a reply is cut into chunks, or anything that *)
(* follows or precedes it, can change what is accepted.                     *)
(***************************************************************************)
EXTENDS MspFrame

CONSTANTS
  Bytes,        \* the byte values a device may send in this instance
  MaxChunk,     \* bound on the length of a chunk
  MaxResponse,  \* MAX_DISCOVERY_RESPONSE_FRAME (128 in the code)
  Expected      \* the command whose reply is awaited

ASSUME AccumulatorAssumption ==
  /\ Bytes \subseteq 0 .. 255
  /\ MaxChunk \in Nat \ {0}
  /\ MaxResponse \in Nat /\ MaxResponse >= FrameOverhead
  /\ Expected \in DOMAIN CommandByte

VARIABLES
  buffer,    \* the accumulator's bytes
  complete,  \* a frame was returned
  progress,  \* what the last push returned
  fed        \* history: every byte pushed so far

accumulatorVars == <<buffer, complete, progress, fed>>

NeedMore == [verdict |-> "more"]

AccumulatorInit ==
  /\ buffer = <<>>
  /\ complete = FALSE
  /\ progress = NeedMore
  /\ fed = <<>>

(* The header is judged as far as it has arrived. *)
HeaderProblem(bytes) ==
  IF PreambleIsBad(bytes) THEN "BadPreamble"
  ELSE IF Len(bytes) >= 3 /\ DirectionsOf(bytes[3]) = {} THEN "BadDirection"
  ELSE IF Len(bytes) >= 3 /\ DirectionsOf(bytes[3]) = {"Request"}
    THEN "WrongDirection"
  ELSE IF Len(bytes) >= 5 /\ bytes[5] # CommandByte[Expected]
    THEN "WrongCommand"
  ELSE "none"

(* Mutant: bytes that follow a complete reply in one chunk are ignored. *)
JudgedPrefix(bytes) ==
  IF HeaderProblem(bytes) # "none" THEN Refused(HeaderProblem(bytes))
  ELSE IF Len(bytes) < 4 THEN NeedMore
  ELSE IF FrameLen(bytes[4]) > MaxResponse THEN Refused("FrameTooLarge")
  ELSE IF Len(bytes) < FrameLen(bytes[4]) THEN NeedMore
  ELSE DecodeFrame(SubSeq(bytes, 1, FrameLen(bytes[4])))

(* The outcome of a push once the chunk is in the buffer. *)
Judged(bytes) ==
  IF HeaderProblem(bytes) # "none" THEN Refused(HeaderProblem(bytes))
  ELSE IF Len(bytes) < 4 THEN NeedMore
  ELSE IF FrameLen(bytes[4]) > MaxResponse THEN Refused("FrameTooLarge")
  ELSE IF Len(bytes) < FrameLen(bytes[4]) THEN NeedMore
  ELSE IF Len(bytes) > FrameLen(bytes[4]) THEN Refused("TrailingBytes")
  ELSE DecodeFrame(bytes)

(* `finish`: how many bytes a stream that ends here would have needed. *)
Needed(bytes) == IF Len(bytes) >= 4 THEN FrameLen(bytes[4]) ELSE FrameOverhead

(* Mutant: only the declared frame length is bounded, not what is stored. *)
PushUnbounded(chunk) ==
  /\ progress.verdict # "refused"
  /\ complete => chunk # <<>>
  /\ fed' = fed \o chunk
  /\ buffer' = buffer \o chunk
  /\ progress' = IF complete THEN Refused("TrailingBytes") ELSE Judged(buffer')
  /\ complete' = (progress'.verdict = "complete")

(* The bytes are kept even when the frame they make is refused; a chunk     *)
(* over the bound, or after completion, is not taken in at all. (Nothing is  *)
(* pushed after a refusal: the bridge fails the exchange; an empty push      *)
(* after completion would be refused too, and no caller makes one.)         *)
Push(chunk) ==
  /\ progress.verdict # "refused"
  /\ complete => chunk # <<>>
  /\ fed' = fed \o chunk
  /\ IF complete
       THEN /\ progress' = Refused("TrailingBytes")
            /\ UNCHANGED <<buffer, complete>>
       ELSE IF Len(buffer) + Len(chunk) > MaxResponse
         THEN /\ progress' = Refused("FrameTooLarge")
              /\ UNCHANGED <<buffer, complete>>
         ELSE /\ buffer' = buffer \o chunk
              /\ progress' = Judged(buffer')
              /\ complete' = (progress'.verdict = "complete")

Chunks == UNION {[1 .. n -> Bytes] : n \in 0 .. MaxChunk}

AccumulatorNext == \E chunk \in Chunks : Push(chunk)

AccumulatorSpec == AccumulatorInit /\ [][AccumulatorNext]_accumulatorVars

-----------------------------------------------------------------------------

(* Types, and the bound on what a port can make the program store. *)
AccumulatorTypeOK ==
  /\ buffer \in Seq(Bytes)
  /\ Len(buffer) <= MaxResponse
  /\ complete \in BOOLEAN
  /\ progress.verdict \in {"more", "complete", "refused"}
  /\ fed \in Seq(Bytes)

(* The replies the discovery may accept: whole frames of the awaited        *)
(* command, a reply or an error, within the bound.                          *)
Acceptable ==
  {[direction |-> d, command |-> CommandByte[Expected], payload |-> p] :
     d \in {"Reply", "Error"},
     p \in UNION {[1 .. n -> Bytes] : n \in 0 .. MaxResponse - FrameOverhead}}

Wire(f) == EncodeFrame(f.direction, f.command, f.payload)

Encodings == {Wire(f) : f \in Acceptable}

Beginnings == UNION {{SubSeq(w, 1, n) : n \in 0 .. Len(w) - 1} : w \in Encodings}

(* However the stream was cut, the accumulator says what the whole stream   *)
(* is: a reply when the bytes are exactly one acceptable frame, more when   *)
(* they begin one, refused when no continuation can become one. A cut may   *)
(* neither lose a good reply nor let a coalesced or stale byte through, and *)
(* what is returned is the very frame that was sent.                        *)
SegmentationFree ==
  /\ progress.verdict = IF fed \in Encodings THEN "complete"
                        ELSE IF fed \in Beginnings THEN "more" ELSE "refused"
  /\ progress.verdict = "complete" =>
       EncodeFrame(progress.direction, progress.command, progress.payload) = fed
=============================================================================
