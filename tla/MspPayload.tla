----------------------------- MODULE MspPayload -----------------------------
(***************************************************************************)
(* The typed decoders of crates/protocol-msp and the two FC_VERSION layouts *)
(* of crates/readonly-profile. A payload is abstracted to what a decoder    *)
(* branches on: its length, the values its length prefixes would have and   *)
(* which of its texts are not UTF-8. A decoder is a Reader that takes one   *)
(* field per step, so that "read before checked" is a reachable mistake.    *)
(***************************************************************************)
EXTENDS Naturals, Sequences, FiniteSets

CONSTANTS
  Lengths,    \* payload lengths a device may send in this instance
  PrefixValues    \* length-prefix values a device may send

ASSUME PayloadAssumption ==
  /\ Lengths \subseteq 0 .. 255
  /\ PrefixValues \subseteq 0 .. 255

VARIABLES
  decoder,   \* which typed decoder runs
  frame,     \* the frame it was given
  field,     \* the field to be read next; 0 before the frame was checked
  pos,       \* Reader::pos
  verdict    \* "reading", "accepted" or the error

payloadVars == <<decoder, frame, field, pos, verdict>>

Fixed(n) == [kind |-> "fixed", size |-> n]
Text(n) == [kind |-> "text", nth |-> n]

(* The complete API 1.46 board information: every field, in order. *)
BoardInfoLayout ==
  <<Fixed(4), Fixed(2), Fixed(1), Fixed(1), Text(1), Text(2), Text(3),
    Fixed(32), Fixed(1), Fixed(1), Fixed(2), Fixed(4), Fixed(1), Fixed(1)>>

ExactLength == [ApiVersion |-> 3, FcVariant |-> 4, LegacyFcVersion |-> 3,
                BeeperConfig |-> 9]

Decoders == DOMAIN ExactLength \cup {"BoardInfo", "CalendarFcVersion"}

CommandOf(d) ==
  IF d \in {"LegacyFcVersion", "CalendarFcVersion"} THEN "FcVersion" ELSE d

Frames ==
  [command : {CommandOf(d) : d \in Decoders}, direction : {"Reply", "Error"},
   len : Lengths, prefix : [1 .. 3 -> PrefixValues], badText : SUBSET (1 .. 3)]

PayloadInit ==
  /\ decoder \in Decoders
  /\ frame \in Frames
  /\ field = 0
  /\ pos = 0
  /\ verdict = "reading"

Stop(result) ==
  /\ verdict' = result
  /\ UNCHANGED <<decoder, frame, field, pos>>

ExpectationFailure ==
  IF frame.command # CommandOf(decoder) THEN "WrongCommand"
  ELSE IF frame.direction # "Reply" THEN "WrongDirection" ELSE "none"

(* `Frame::expect`, first in every decoder. *)
Expect ==
  /\ verdict = "reading"
  /\ field = 0
  /\ IF ExpectationFailure # "none"
       THEN Stop(ExpectationFailure)
       ELSE /\ field' = 1
            /\ UNCHANGED <<decoder, frame, pos, verdict>>

(* The fixed-size replies are taken whole or refused. *)
ReadExact ==
  /\ verdict = "reading"
  /\ field = 1
  /\ decoder \in DOMAIN ExactLength
  /\ Stop(IF frame.len = ExactLength[decoder] THEN "accepted" ELSE "WrongLength")

Remaining == frame.len - pos

(* `Reader::take`, `u8`, `u16_le`, `u32_le`. *)
ReadFixed ==
  /\ verdict = "reading"
  /\ decoder = "BoardInfo"
  /\ field \in DOMAIN BoardInfoLayout
  /\ BoardInfoLayout[field].kind = "fixed"
  /\ IF Remaining < BoardInfoLayout[field].size
       THEN Stop("FieldOverrun")
       ELSE /\ pos' = pos + BoardInfoLayout[field].size
            /\ field' = field + 1
            /\ UNCHANGED <<decoder, frame, verdict>>

(* Mutant: the prefix is trusted; only the prefix byte itself is checked. *)
TextFailureTrusting(t) ==
  IF Remaining < 1 THEN "FieldOverrun"
  ELSE IF t \in frame.badText THEN "InvalidUtf8" ELSE "none"

(* A text: its prefix byte, its bytes, and only then their encoding. *)
TextFailure(t) ==
  IF Remaining < 1 THEN "FieldOverrun"
  ELSE IF Remaining - 1 < frame.prefix[t] THEN "FieldOverrun"
  ELSE IF t \in frame.badText THEN "InvalidUtf8" ELSE "none"

(* `Reader::length_prefixed_string`. *)
ReadText ==
  /\ verdict = "reading"
  /\ decoder = "BoardInfo"
  /\ field \in DOMAIN BoardInfoLayout
  /\ BoardInfoLayout[field].kind = "text"
  /\ LET t == BoardInfoLayout[field].nth
     IN  IF TextFailure(t) # "none"
           THEN Stop(TextFailure(t))
           ELSE /\ pos' = pos + 1 + frame.prefix[t]
                /\ field' = field + 1
                /\ UNCHANGED <<decoder, frame, verdict>>

(* Mutant: an undocumented tail is ignored. *)
FinishIgnoringTail ==
  /\ verdict = "reading"
  /\ decoder = "BoardInfo"
  /\ field = Len(BoardInfoLayout) + 1
  /\ Stop("accepted")

(* `Reader::finish`: no byte may be left over. *)
Finish ==
  /\ verdict = "reading"
  /\ decoder = "BoardInfo"
  /\ field = Len(BoardInfoLayout) + 1
  /\ Stop(IF Remaining # 0 THEN "TrailingPayload" ELSE "accepted")

(* Mutant: a text that fills the payload exactly is taken for an overrun. *)
ReadCalendarStrict ==
  /\ verdict = "reading"
  /\ field = 1
  /\ decoder = "CalendarFcVersion"
  /\ Stop(IF frame.len < 4 THEN "FieldOverrun"
          ELSE IF frame.len - 4 <= frame.prefix[1] THEN "FieldOverrun"
          ELSE "TrailingPayload")

(* The calendar layout of API 1.47: three version bytes and one text that   *)
(* takes the rest; unlike BOARD_INFO, the tail is judged before the text.   *)
ReadCalendar ==
  /\ verdict = "reading"
  /\ field = 1
  /\ decoder = "CalendarFcVersion"
  /\ Stop(IF frame.len < 4 THEN "FieldOverrun"
          ELSE IF frame.len - 4 < frame.prefix[1] THEN "FieldOverrun"
          ELSE IF frame.len - 4 > frame.prefix[1] THEN "TrailingPayload"
          ELSE IF 1 \in frame.badText THEN "InvalidUtf8" ELSE "accepted")

PayloadNext ==
  Expect \/ ReadExact \/ ReadFixed \/ ReadText \/ Finish \/ ReadCalendar

PayloadSpec == PayloadInit /\ [][PayloadNext]_payloadVars /\ WF_payloadVars(PayloadNext)

-----------------------------------------------------------------------------
(* What the two layouts say about a payload as a whole, without a cursor.   *)

Unprefixed(d) == IF d = "BoardInfo" THEN 53 ELSE 4

Texts(d) == IF d = "BoardInfo" THEN 1 .. 3 ELSE IF d = "CalendarFcVersion" THEN {1} ELSE {}

(* The sum of the first n prefixes. *)
TextBytes(n) == CASE n = 0 -> 0
                  [] n = 1 -> frame.prefix[1]
                  [] n = 2 -> frame.prefix[1] + frame.prefix[2]
                  [] n = 3 -> frame.prefix[1] + frame.prefix[2] + frame.prefix[3]

WholeLength(d) ==
  IF d \in DOMAIN ExactLength THEN ExactLength[d]
  ELSE Unprefixed(d) + TextBytes(Cardinality(Texts(d)))

Documented ==
  /\ ExpectationFailure = "none"
  /\ frame.len = WholeLength(decoder)
  /\ frame.badText \cap Texts(decoder) = {}

(* The cursor never passes the end of the payload, whatever the prefixes    *)
(* say: `&bytes[pos .. pos + n]` would panic in the browser otherwise.      *)
NeverReadsPastTheEnd == pos <= frame.len

(* A payload is accepted only when it is exactly a documented layout with   *)
(* every text valid: a tail or a lossy text may not enter a device identity. *)
AcceptsOnlyTheLayout == verdict = "accepted" => Documented

(* Every decoder ends, and a payload that is exactly the documented layout  *)
(* is accepted, not refused for a reason of the cursor's own.               *)
DocumentedIsAccepted ==
  [](Documented => <>(verdict = "accepted")) /\ <>(verdict # "reading")
=============================================================================
