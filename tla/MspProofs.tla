------------------------------ MODULE MspProofs ------------------------------
(***************************************************************************)
(* The two halves of receiving a reply, for every value of the constants:   *)
(* first the typed decoders on every payload, then the accumulator on every *)
(* stream of bytes in every cut. Nothing below depends on what a checksum   *)
(* is.                                                                      *)
(***************************************************************************)
EXTENDS MspAccumulator, MspPayload, FiniteSetTheorems, SequenceTheorems, TLAPS

-----------------------------------------------------------------------------
(* The typed decoders.                                                       *)

(* Where the cursor stands before each field, if every earlier one was read. *)
Offset(n) ==
  CASE n <= 1 -> 0
    [] n = 2 -> 4
    [] n = 3 -> 6
    [] n = 4 -> 7
    [] n = 5 -> 8
    [] n = 6 -> 9 + frame.prefix[1]
    [] n = 7 -> 10 + frame.prefix[1] + frame.prefix[2]
    [] n = 8 -> 11 + TextBytes(3)
    [] n = 9 -> 43 + TextBytes(3)
    [] n = 10 -> 44 + TextBytes(3)
    [] n = 11 -> 45 + TextBytes(3)
    [] n = 12 -> 47 + TextBytes(3)
    [] n = 13 -> 51 + TextBytes(3)
    [] n = 14 -> 52 + TextBytes(3)
    [] n = 15 -> 53 + TextBytes(3)

PayloadTypeOK ==
  /\ decoder \in Decoders
  /\ frame \in Frames
  /\ field \in 0 .. 15
  /\ pos \in Nat

(* A cursor that has come to a field has read all before it, and every text  *)
(* it has passed was valid.                                                 *)
CursorIsProven ==
  /\ pos = Offset(field)
  /\ field > 0 => ExpectationFailure = "none"
  /\ decoder # "BoardInfo" => field \in {0, 1}
  /\ \A t \in 1 .. 3 : field > t + 4 => t \notin frame.badText

PayloadInv ==
  /\ PayloadTypeOK
  /\ CursorIsProven
  /\ NeverReadsPastTheEnd
  /\ AcceptsOnlyTheLayout

-----------------------------------------------------------------------------
(* The layout, field by field. *)
LEMMA Layout ==
  /\ Len(BoardInfoLayout) = 14
  /\ DOMAIN BoardInfoLayout = 1 .. 14
  /\ \A n \in {5, 6, 7} : BoardInfoLayout[n] = Text(n - 4)
  /\ \A n \in (1 .. 14) \ {5, 6, 7} : BoardInfoLayout[n].kind = "fixed"
  /\ BoardInfoLayout[1].size = 4 /\ BoardInfoLayout[2].size = 2
  /\ BoardInfoLayout[3].size = 1 /\ BoardInfoLayout[4].size = 1
  /\ BoardInfoLayout[8].size = 32 /\ BoardInfoLayout[9].size = 1
  /\ BoardInfoLayout[10].size = 1 /\ BoardInfoLayout[11].size = 2
  /\ BoardInfoLayout[12].size = 4 /\ BoardInfoLayout[13].size = 1
  /\ BoardInfoLayout[14].size = 1
<1> DEFINE L == BoardInfoLayout
<1>1. Len(L) = 14 /\ DOMAIN L = 1 .. 14
  BY DEF BoardInfoLayout, Fixed, Text
<1>2. L[5] = Text(1) /\ L[6] = Text(2) /\ L[7] = Text(3)
  BY DEF BoardInfoLayout
<1>3. /\ L[1] = Fixed(4) /\ L[2] = Fixed(2) /\ L[3] = Fixed(1) /\ L[4] = Fixed(1)
      /\ L[8] = Fixed(32) /\ L[9] = Fixed(1) /\ L[10] = Fixed(1)
      /\ L[11] = Fixed(2) /\ L[12] = Fixed(4) /\ L[13] = Fixed(1) /\ L[14] = Fixed(1)
  BY DEF BoardInfoLayout
<1>4. \A n \in {5, 6, 7} : L[n] = Text(n - 4)
  BY <1>2
<1>5. \A n \in (1 .. 14) \ {5, 6, 7} : L[n].kind = "fixed"
  BY <1>3 DEF Fixed
<1>6. QED
  BY <1>1, <1>3, <1>4, <1>5 DEF Fixed

(* Lengths and prefixes are numbers. *)
LEMMA FrameTypes ==
  ASSUME frame \in Frames
  PROVE  /\ frame.len \in Nat
         /\ frame.prefix[1] \in Nat /\ frame.prefix[2] \in Nat /\ frame.prefix[3] \in Nat
         /\ TextBytes(3) = frame.prefix[1] + frame.prefix[2] + frame.prefix[3]
<1>1. frame.len \in Lengths /\ frame.prefix \in [1 .. 3 -> PrefixValues]
  BY DEF Frames
<1>2. QED
  BY <1>1, PayloadAssumption, SMTT(30) DEF TextBytes

(* The board information holds three texts. *)
LEMMA ThreeTexts == Cardinality(Texts("BoardInfo")) = 3
<1>1. 1 \in Int /\ 3 \in Int
  OBVIOUS
<1>2. Cardinality(1 .. 3) = IF 1 > 3 THEN 0 ELSE 3 - 1 + 1
  BY <1>1, FS_Interval, Zenon
<1>3. QED
  BY <1>2 DEF Texts

LEMMA PayloadStart == PayloadInit => PayloadInv
<1> SUFFICES ASSUME PayloadInit PROVE PayloadInv
  OBVIOUS
<1>1. frame.len \in Nat
  BY FrameTypes DEF PayloadInit
<1>2. QED
  BY <1>1 DEF PayloadInit, PayloadInv, PayloadTypeOK, CursorIsProven, Offset,
              NeverReadsPastTheEnd, AcceptsOnlyTheLayout

(* A decoder that stops keeps its cursor, and owes only the last conjunct.   *)
LEMMA Stopping ==
  ASSUME PayloadInv, NEW result, Stop(result), result = "accepted" => Documented
  PROVE  PayloadInv'
BY DEF PayloadInv, PayloadTypeOK, CursorIsProven, Offset, NeverReadsPastTheEnd, Stop,
       AcceptsOnlyTheLayout, TextBytes, ExpectationFailure, CommandOf, Documented,
       WholeLength, Unprefixed, Texts

(* A decoder that goes on has moved its cursor to the next field.            *)
LEMMA GoingOn ==
  ASSUME PayloadInv, verdict = "reading",
         UNCHANGED <<decoder, frame, verdict>>,
         field' \in 1 .. 15, decoder # "BoardInfo" => field' = 1,
         pos' \in Nat, pos' <= frame.len,
         pos' = Offset(field'),
         ExpectationFailure = "none",
         \A t \in 1 .. 3 : field' > t + 4 => t \notin frame.badText
  PROVE  PayloadInv'
<1>1. PayloadTypeOK'
  BY DEF PayloadInv, PayloadTypeOK
<1>2. pos' = Offset(field)'
  BY DEF Offset, TextBytes
<1>3. CursorIsProven'
  BY <1>2 DEF CursorIsProven, ExpectationFailure, CommandOf
<1>4. QED
  BY <1>1, <1>3 DEF PayloadInv, NeverReadsPastTheEnd, AcceptsOnlyTheLayout

LEMMA PayloadStep == PayloadInv /\ [PayloadNext]_payloadVars => PayloadInv'
<1> SUFFICES ASSUME PayloadInv, [PayloadNext]_payloadVars PROVE PayloadInv'
  OBVIOUS
<1> USE DEF PayloadInv, PayloadTypeOK
<1>0. /\ frame.len \in Nat
      /\ frame.prefix[1] \in Nat /\ frame.prefix[2] \in Nat /\ frame.prefix[3] \in Nat
      /\ TextBytes(3) = frame.prefix[1] + frame.prefix[2] + frame.prefix[3]
  BY FrameTypes
<1>1. CASE Expect
  <2>1. CASE ExpectationFailure # "none"
    <3>1. Stop(ExpectationFailure) /\ ExpectationFailure # "accepted"
      BY <1>1, <2>1 DEF Expect, ExpectationFailure
    <3>2. QED
      BY <3>1, Stopping
  <2>2. CASE ExpectationFailure = "none"
    <3>1. /\ verdict = "reading" /\ field' = 1 /\ pos' = pos
          /\ UNCHANGED <<decoder, frame, verdict>>
      BY <1>1, <2>2 DEF Expect
    <3>2. pos' = Offset(field')
      BY <1>1, <3>1 DEF Expect, CursorIsProven, Offset
    <3>3. QED
      BY <2>2, <3>1, <3>2, GoingOn DEF NeverReadsPastTheEnd
  <2>3. QED
    BY <2>1, <2>2
<1>2. CASE ReadExact
  <2>1. PICK result : /\ Stop(result)
                      /\ result = "accepted" => frame.len = ExactLength[decoder]
    BY <1>2 DEF ReadExact
  <2>2. decoder \in DOMAIN ExactLength /\ ExpectationFailure = "none"
    BY <1>2 DEF ReadExact, CursorIsProven
  <2>3. decoder # "BoardInfo" /\ decoder # "CalendarFcVersion"
    BY <2>2 DEF ExactLength
  <2>4. result = "accepted" => Documented
    BY <2>1, <2>2, <2>3 DEF Documented, WholeLength, Texts
  <2>5. QED
    BY <2>1, <2>4, Stopping
<1>3. CASE ReadFixed
  <2>1. CASE Remaining < BoardInfoLayout[field].size
    <3>1. Stop("FieldOverrun")
      BY <1>3, <2>1 DEF ReadFixed
    <3>2. QED
      BY <3>1, Stopping
  <2>2. CASE ~(Remaining < BoardInfoLayout[field].size)
    <3>1. /\ verdict = "reading" /\ decoder = "BoardInfo"
          /\ field \in (1 .. 14) \ {5, 6, 7}
          /\ pos' = pos + BoardInfoLayout[field].size /\ field' = field + 1
          /\ UNCHANGED <<decoder, frame, verdict>>
      BY <1>3, <2>2, Layout DEF ReadFixed, Text
    <3>2. BoardInfoLayout[field].size \in Nat
      BY <3>1, Layout
    <3>3. pos' \in Nat /\ pos' <= frame.len
      BY <1>0, <2>2, <3>1, <3>2 DEF Remaining
    <3>4. pos' = Offset(field')
      BY <1>0, <3>1, Layout DEF Offset, CursorIsProven
    <3>5. \A t \in 1 .. 3 : field' > t + 4 => t \notin frame.badText
      BY <3>1 DEF CursorIsProven
    <3>6. ExpectationFailure = "none"
      BY <3>1 DEF CursorIsProven
    <3>7. QED
      BY <3>1, <3>3, <3>4, <3>5, <3>6, GoingOn
  <2>3. QED
    BY <2>1, <2>2
<1>4. CASE ReadText
  <2> DEFINE t == BoardInfoLayout[field].nth
  <2>1. /\ verdict = "reading" /\ decoder = "BoardInfo" /\ field \in {5, 6, 7}
        /\ t = field - 4
    <3>1. field \in 1 .. 14 /\ BoardInfoLayout[field].kind = "text"
      BY <1>4, Layout DEF ReadText
    <3>2. field \in {5, 6, 7}
      BY <3>1, Layout
    <3>3. QED
      BY <1>4, <3>2, Layout DEF ReadText, Text
  <2>2. CASE TextFailure(t) # "none"
    <3>1. Stop(TextFailure(t)) /\ TextFailure(t) # "accepted"
      BY <1>4, <2>2 DEF ReadText, TextFailure
    <3>2. QED
      BY <3>1, Stopping
  <2>3. CASE TextFailure(t) = "none"
    <3>1. /\ pos' = pos + 1 + frame.prefix[t] /\ field' = field + 1
          /\ UNCHANGED <<decoder, frame, verdict>>
      BY <1>4, <2>3 DEF ReadText
    <3>2. /\ ~(Remaining < 1) /\ ~(Remaining - 1 < frame.prefix[t])
          /\ t \notin frame.badText
      BY <2>3 DEF TextFailure
    <3>3. frame.prefix[t] \in Nat
      BY <1>0, <2>1
    <3>4. pos' \in Nat /\ pos' <= frame.len
      BY <1>0, <3>1, <3>2, <3>3 DEF Remaining
    <3>5. pos' = Offset(field')
      BY <1>0, <2>1, <3>1 DEF Offset, CursorIsProven
    <3>6. \A u \in 1 .. 3 : field' > u + 4 => u \notin frame.badText
      BY <2>1, <3>1, <3>2 DEF CursorIsProven
    <3>7. ExpectationFailure = "none"
      BY <2>1 DEF CursorIsProven
    <3>8. QED
      BY <2>1, <3>1, <3>4, <3>5, <3>6, <3>7, GoingOn
  <2>4. QED
    BY <2>2, <2>3
<1>5. CASE Finish
  <2>1. decoder = "BoardInfo" /\ field = 15
    BY <1>5, Layout DEF Finish
  <2>2. PICK result : Stop(result) /\ (result = "accepted" => Remaining = 0)
    BY <1>5 DEF Finish
  <2>3. /\ pos = 53 + TextBytes(3) /\ ExpectationFailure = "none"
        /\ frame.badText \cap (1 .. 3) = {}
    BY <2>1 DEF CursorIsProven, Offset
  <2>4. ASSUME result = "accepted" PROVE Documented
    <3>1. frame.len = 53 + TextBytes(3)
      BY <1>0, <2>2, <2>3, <2>4 DEF Remaining
    <3>2. Cardinality(Texts("BoardInfo")) = 3
      BY ThreeTexts
    <3>3. WholeLength("BoardInfo") = 53 + TextBytes(3)
      BY <3>2 DEF WholeLength, Unprefixed, ExactLength
    <3>4. QED
      BY <2>1, <2>3, <3>1, <3>3 DEF Documented, Texts
  <2>5. QED
    BY <2>2, <2>4, Stopping
<1>6. CASE ReadCalendar
  <2>1. decoder = "CalendarFcVersion" /\ ExpectationFailure = "none"
    BY <1>6 DEF ReadCalendar, CursorIsProven
  <2>2. PICK result :
          /\ Stop(result)
          /\ result = "accepted" =>
               /\ ~(frame.len < 4) /\ ~(frame.len - 4 < frame.prefix[1])
               /\ ~(frame.len - 4 > frame.prefix[1]) /\ 1 \notin frame.badText
    BY <1>6 DEF ReadCalendar
  <2>3. ASSUME result = "accepted" PROVE Documented
    <3>1. frame.len = 4 + frame.prefix[1] /\ 1 \notin frame.badText
      BY <1>0, <2>2, <2>3
    <3>2. Cardinality(Texts("CalendarFcVersion")) = 1
      BY FS_Singleton DEF Texts
    <3>3. WholeLength("CalendarFcVersion") = 4 + frame.prefix[1]
      BY <3>2 DEF WholeLength, Unprefixed, ExactLength, TextBytes
    <3>4. QED
      BY <2>1, <3>1, <3>3 DEF Documented, Texts
  <2>4. QED
    BY <2>2, <2>3, Stopping
<1>7. CASE UNCHANGED payloadVars
  BY <1>7 DEF payloadVars, CursorIsProven, Offset, NeverReadsPastTheEnd,
       AcceptsOnlyTheLayout, TextBytes, ExpectationFailure, CommandOf, Documented,
       WholeLength, Unprefixed, Texts
<1>8. QED
  BY <1>1, <1>2, <1>3, <1>4, <1>5, <1>6, <1>7 DEF PayloadNext

(* The cursor of a decoder is proven in every reachable state, for any       *)
(* payload lengths and prefixes a byte can hold.                            *)
THEOREM PayloadInductive == PayloadSpec => []PayloadInv
<1>1. QED
  BY PayloadStart, PayloadStep, PTL DEF PayloadSpec

(* No decoder reads past the end of a payload: `Reader` cannot panic.        *)
THEOREM CursorBounded == PayloadSpec => []NeverReadsPastTheEnd
<1>1. PayloadInv => NeverReadsPastTheEnd
  BY DEF PayloadInv
<1>2. QED
  BY <1>1, PayloadInductive, PTL

(* What a decoder accepts is a whole documented layout with valid texts.     *)
THEOREM OnlyTheLayout == PayloadSpec => []AcceptsOnlyTheLayout
<1>1. PayloadInv => AcceptsOnlyTheLayout
  BY DEF PayloadInv
<1>2. QED
  BY <1>1, PayloadInductive, PTL

-----------------------------------------------------------------------------
(* The accumulator, for any bytes, chunks, bound and awaited command.        *)

LEMMA BytesAreNumbers ==
  /\ MaxResponse \in Nat /\ MaxResponse >= 6
  /\ \A s \in Seq(Bytes) : Len(s) \in Nat /\ \A i \in 1..Len(s) : s[i] \in Nat
<1>1. Bytes \subseteq Nat /\ MaxResponse \in Nat /\ MaxResponse >= 6
  BY AccumulatorAssumption DEF FrameOverhead
<1>2. ASSUME NEW s \in Seq(Bytes)
      PROVE  Len(s) \in Nat
  OBVIOUS
<1>3. ASSUME NEW s \in Seq(Bytes), NEW i \in 1..Len(s)
      PROVE  s[i] \in Nat
  <2>1. s[i] \in Bytes
    BY ElementOfSeq
  <2> QED  BY <1>1, <2>1
<1> QED  BY <1>1, <1>2, <1>3

(* The directions of the wire. *)
LEMMA DirectionBytes ==
  ASSUME NEW byte
  PROVE  /\ DirectionsOf(byte) = {} <=> byte \notin {60, 62, 33}
         /\ DirectionsOf(byte) = {"Request"} <=> byte = 60
         /\ byte = 62 => DirectionsOf(byte) = {"Reply"}
         /\ byte = 33 => DirectionsOf(byte) = {"Error"}
<1>1. DOMAIN DirectionByte = {"Request", "Reply", "Error"}
  BY DEF DirectionByte
<1>2. /\ DirectionByte["Request"] = 60 /\ DirectionByte["Reply"] = 62
      /\ DirectionByte["Error"] = 33
  BY DEF DirectionByte
<1>3. \A d : d \in DirectionsOf(byte) <=>
               \/ d = "Request" /\ byte = 60
               \/ d = "Reply" /\ byte = 62
               \/ d = "Error" /\ byte = 33
  BY <1>1, <1>2 DEF DirectionsOf
<1> QED  BY <1>3

(* The direction of a reply the discovery may accept. *)
DirectionOf(byte) == IF byte = 62 THEN "Reply" ELSE "Error"

(* The header of an acceptable frame, as far as it has arrived. *)
HeaderFits(s) ==
  /\ Len(s) >= 1 => s[1] = Dollar
  /\ Len(s) >= 2 => s[2] = LetterM
  /\ Len(s) >= 3 => s[3] \in {62, 33}
  /\ Len(s) >= 5 => s[5] = CommandByte[Expected]

LEMMA HeaderJudged ==
  ASSUME NEW S, NEW s \in Seq(S)
  PROVE  HeaderProblem(s) = "none" <=> HeaderFits(s)
<1>1. Len(s) \in Nat
  OBVIOUS
<1>2. DirectionsOf(s[3]) = {} <=> s[3] \notin {60, 62, 33}
  BY DirectionBytes
<1>3. DirectionsOf(s[3]) = {"Request"} <=> s[3] = 60
  BY DirectionBytes
<1> QED
  BY <1>1, <1>2, <1>3 DEF HeaderProblem, HeaderFits, PreambleIsBad, Dollar, LetterM

Payload(s) == SubSeq(s, 6, 5 + s[4])

(* The bytes of one acceptable frame, and of a strict beginning of one. *)
IsWhole(s) ==
  /\ HeaderFits(s)
  /\ Len(s) >= 6
  /\ Len(s) = 6 + s[4]
  /\ Len(s) <= MaxResponse
  /\ s[Len(s)] = Checksum(s[4], s[5], Payload(s))

IsBegun(s) ==
  /\ HeaderFits(s)
  /\ Len(s) < 4 \/ (Len(s) < 6 + s[4] /\ 6 + s[4] <= MaxResponse)

(* What a frame puts on the wire. *)
LEMMA OnTheWire ==
  ASSUME NEW d, NEW c, NEW S, NEW p \in Seq(S)
  PROVE  LET w == EncodeFrame(d, c, p)
         IN  /\ \E T : w \in Seq(T)
             /\ Len(w) = Len(p) + 6
             /\ w[1] = Dollar /\ w[2] = LetterM /\ w[3] = DirectionByte[d]
             /\ w[4] = Len(p) /\ w[5] = c
             /\ \A i \in 1..Len(p) : w[5 + i] = p[i]
             /\ w[Len(p) + 6] = Checksum(Len(p), c, p)
<1> DEFINE sum == Checksum(Len(p), c, p)
           h == <<Dollar, LetterM, DirectionByte[d], Len(p), c>>
           T == S \cup {Dollar, LetterM, DirectionByte[d], Len(p), c, sum}
<1> HIDE DEF sum
<1>1. h \in Seq(T) /\ p \in Seq(T) /\ <<sum>> \in Seq(T) /\ Len(p) \in Nat
  <2>1. p \in Seq(T)
    BY SeqMonotonic
  <2> QED  BY <2>1
<1>2. /\ Len(h) = 5 /\ h[1] = Dollar /\ h[2] = LetterM /\ h[3] = DirectionByte[d]
      /\ h[4] = Len(p) /\ h[5] = c
  OBVIOUS
<1>3. Len(<<sum>>) = 1 /\ <<sum>>[1] = sum
  OBVIOUS
<1>4. EncodeFrame(d, c, p) = (h \o p) \o <<sum>>
  BY DEF EncodeFrame, sum
<1> HIDE DEF h, T
<1>5. /\ h \o p \in Seq(T) /\ Len(h \o p) = 5 + Len(p)
      /\ \A i \in 1..(5 + Len(p)) : (h \o p)[i] = IF i <= 5 THEN h[i] ELSE p[i - 5]
  <2>1. Len(h) = 5
    BY <1>2
  <2> HIDE DEF h, T
  <2>2. /\ h \o p \in Seq(T) /\ Len(h \o p) = Len(h) + Len(p)
        /\ \A i \in 1..(Len(h) + Len(p)) :
             (h \o p)[i] = IF i <= Len(h) THEN h[i] ELSE p[i - Len(h)]
    BY <1>1, ConcatProperties
  <2> QED  BY <2>1, <2>2
<1> DEFINE g == h \o p
<1> HIDE DEF g
<1>6. /\ g \o <<sum>> \in Seq(T) /\ Len(g \o <<sum>>) = 6 + Len(p)
      /\ \A i \in 1..(6 + Len(p)) :
           (g \o <<sum>>)[i] = IF i <= 5 + Len(p) THEN g[i] ELSE <<sum>>[i - (5 + Len(p))]
  BY <1>1, <1>3, <1>5, ConcatProperties DEF g
<1> DEFINE w == g \o <<sum>>
<1>7. EncodeFrame(d, c, p) = w
  BY <1>4 DEF g
<1> HIDE DEF w
<1>8. w \in Seq(T) /\ Len(w) = Len(p) + 6 /\ w[Len(p) + 6] = sum
  BY <1>1, <1>3, <1>6 DEF w
<1>9. \A i \in 1..(5 + Len(p)) : w[i] = IF i <= 5 THEN h[i] ELSE p[i - 5]
  BY <1>1, <1>5, <1>6 DEF w, g
<1>10. \A i \in 1..5 : w[i] = h[i]
  BY <1>1, <1>9
<1>11. \A i \in 1..Len(p) : w[5 + i] = p[i]
  <2> TAKE i \in 1..Len(p)
  <2>1. 5 + i \in 1..(5 + Len(p)) /\ ~(5 + i <= 5) /\ (5 + i) - 5 = i
    BY <1>1
  <2> QED  BY <1>9, <2>1
<1>12. /\ w[1] = Dollar /\ w[2] = LetterM /\ w[3] = DirectionByte[d]
       /\ w[4] = Len(p) /\ w[5] = c
  BY <1>2, <1>10
<1> QED  BY <1>7, <1>8, <1>11, <1>12 DEF sum

(* The payloads, and with them the frames, the discovery may accept. *)
LEMMA AcceptableFrames ==
  ASSUME NEW f \in Acceptable
  PROVE  /\ f.payload \in Seq(Bytes)
         /\ Len(f.payload) \in Nat
         /\ Len(f.payload) + 6 <= MaxResponse
         /\ DirectionByte[f.direction] \in {62, 33}
         /\ f.command = CommandByte[Expected]
<1>1. MaxResponse \in Nat
  BY AccumulatorAssumption
<1>2. PICK d \in {"Reply", "Error"},
           p \in UNION {[1 .. n -> Bytes] : n \in 0 .. MaxResponse - FrameOverhead} :
        f = [direction |-> d, command |-> CommandByte[Expected], payload |-> p]
  BY DEF Acceptable
<1>3. PICK n \in 0 .. MaxResponse - 6 : p \in [1 .. n -> Bytes]
  BY <1>2 DEF FrameOverhead
<1>4. p \in Seq(Bytes) /\ Len(p) = n
  BY <1>3, IsASeq
<1>5. DirectionByte["Reply"] = 62 /\ DirectionByte["Error"] = 33
  BY DEF DirectionByte
<1> QED  BY <1>1, <1>2, <1>3, <1>4, <1>5

LEMMA Framed ==
  ASSUME NEW n \in Nat, n + 6 <= MaxResponse, NEW p \in [1 .. n -> Bytes],
         NEW d \in {"Reply", "Error"}
  PROVE  EncodeFrame(d, CommandByte[Expected], p) \in Encodings
<1>1. MaxResponse \in Nat
  BY AccumulatorAssumption
<1> DEFINE f == [direction |-> d, command |-> CommandByte[Expected], payload |-> p]
<1>2. n \in 0 .. MaxResponse - FrameOverhead
  BY <1>1 DEF FrameOverhead
<1>3. f \in Acceptable
  <2> DEFINE Payloads == UNION {[1 .. m -> Bytes] : m \in 0 .. MaxResponse - FrameOverhead}
  <2>1. p \in Payloads
    BY <1>2
  <2>2. Acceptable = {[direction |-> e, command |-> CommandByte[Expected], payload |-> q] :
                        e \in {"Reply", "Error"}, q \in Payloads}
    BY DEF Acceptable
  <2> HIDE DEF Payloads
  <2> QED  BY <2>1, <2>2
<1>4. Wire(f) = EncodeFrame(d, CommandByte[Expected], p)
  BY DEF Wire
<1> QED  BY <1>3, <1>4 DEF Encodings

(* Encodings are the whole frames. *)
LEMMA EncodingsAreWhole ==
  ASSUME NEW s \in Encodings
  PROVE  IsWhole(s)
<1>1. PICK f \in Acceptable : s = EncodeFrame(f.direction, f.command, f.payload)
  BY DEF Encodings, Wire
<1> DEFINE p == f.payload
<1>2. /\ p \in Seq(Bytes) /\ Len(p) \in Nat /\ Len(p) + 6 <= MaxResponse
      /\ DirectionByte[f.direction] \in {62, 33} /\ f.command = CommandByte[Expected]
  BY AcceptableFrames
<1> HIDE DEF p
<1>3. /\ \E T : s \in Seq(T)
      /\ Len(s) = Len(p) + 6
      /\ s[1] = Dollar /\ s[2] = LetterM /\ s[3] = DirectionByte[f.direction]
      /\ s[4] = Len(p) /\ s[5] = f.command
      /\ \A i \in 1..Len(p) : s[5 + i] = p[i]
      /\ s[Len(p) + 6] = Checksum(Len(p), f.command, p)
  BY <1>1, <1>2, OnTheWire, SMTT(30) DEF p
<1>4. Payload(s) = p
  <2>1. PICK T : s \in Seq(T)
    BY <1>3
  <2>2. /\ SubSeq(s, 6, 5 + Len(p)) \in Seq(T)
        /\ Len(SubSeq(s, 6, 5 + Len(p))) = Len(p)
        /\ \A i \in 1..Len(p) : SubSeq(s, 6, 5 + Len(p))[i] = s[5 + i]
    BY <1>2, <1>3, <2>1
  <2> QED  BY <1>2, <1>3, <2>2, SeqEqual DEF Payload
<1> QED  BY <1>2, <1>3, <1>4 DEF IsWhole, HeaderFits

LEMMA WholeIsEncoded ==
  ASSUME NEW s \in Seq(Bytes), IsWhole(s)
  PROVE  /\ EncodeFrame(DirectionOf(s[3]), s[5], Payload(s)) = s
         /\ s \in Encodings
<1> DEFINE d == DirectionOf(s[3])
           p == Payload(s)
           n == s[4]
           w == EncodeFrame(d, s[5], p)
<1>1. /\ Len(s) \in Nat /\ Len(s) >= 6 /\ Len(s) = 6 + n /\ Len(s) <= MaxResponse
      /\ s[1] = Dollar /\ s[2] = LetterM /\ s[3] \in {62, 33}
      /\ s[5] = CommandByte[Expected] /\ s[Len(s)] = Checksum(n, s[5], p)
  BY DEF IsWhole, HeaderFits
<1>2. n \in Nat
  BY <1>1, BytesAreNumbers
<1>3. p \in Seq(Bytes) /\ Len(p) = n /\ \A i \in 1..n : p[i] = s[5 + i]
  BY <1>1, <1>2 DEF Payload
<1>4. DirectionByte[d] = s[3] /\ d \in {"Reply", "Error"}
  BY <1>1 DEF DirectionByte, DirectionOf
<1>5. /\ \E T : w \in Seq(T)
      /\ Len(w) = n + 6
      /\ w[1] = Dollar /\ w[2] = LetterM /\ w[3] = s[3]
      /\ w[4] = n /\ w[5] = s[5]
      /\ \A i \in 1..n : w[5 + i] = p[i]
      /\ w[n + 6] = Checksum(n, s[5], p)
  <2> HIDE DEF p, d
  <2>1. /\ \E T : w \in Seq(T)
        /\ Len(w) = Len(p) + 6
        /\ w[1] = Dollar /\ w[2] = LetterM /\ w[3] = DirectionByte[d]
        /\ w[4] = Len(p) /\ w[5] = s[5]
        /\ \A i \in 1..Len(p) : w[5 + i] = p[i]
        /\ w[Len(p) + 6] = Checksum(Len(p), s[5], p)
    BY <1>3, OnTheWire, SMTT(30)
  <2> HIDE DEF w, n
  <2> QED  BY <1>3, <1>4, <2>1
<1> HIDE DEF w, p, d
<1>6. w = s
  <2>1. PICK T : w \in Seq(T)
    BY <1>5
  <2>2. ASSUME NEW i \in 1..(n + 6)
        PROVE  w[i] = s[i]
    <3>1. CASE i \in 1..5
      BY <1>1, <1>5, <3>1
    <3>2. CASE i = n + 6
      <4>1. i = Len(s)
        BY <1>1, <1>2, <3>2
      <4> QED  BY <1>1, <1>5, <3>2, <4>1
    <3>3. CASE i > 5 /\ i < n + 6
      <4>1. i - 5 \in 1..n /\ 5 + (i - 5) = i
        BY <1>2, <3>3
      <4> QED  BY <1>3, <1>5, <4>1
    <3> QED  BY <1>2, <3>1, <3>2, <3>3
  <2>3. Len(w) = Len(s) /\ Len(s) = n + 6
    BY <1>1, <1>2, <1>5
  <2>4. w \in Seq(T \cup Bytes) /\ s \in Seq(T \cup Bytes)
    BY <2>1, SeqMonotonic
  <2> QED  BY <2>2, <2>3, <2>4, SeqEqual
<1>7. p \in [1 .. n -> Bytes]
  BY <1>3
<1>8. w \in Encodings
  <2>1. n + 6 <= MaxResponse
    BY <1>1, <1>2, BytesAreNumbers
  <2> HIDE DEF n
  <2> QED  BY <1>1, <1>2, <1>4, <1>7, <2>1, Framed DEF w
<1> QED  BY <1>6, <1>8 DEF w, d, p

(* Beginnings are what can still become a whole frame. *)
LEMMA BeginningsAreBegun ==
  ASSUME NEW s \in Beginnings
  PROVE  IsBegun(s)
<1>1. PICK w \in Encodings : s \in {SubSeq(w, 1, n) : n \in 0 .. Len(w) - 1}
  BY DEF Beginnings
<1>2. PICK n \in 0 .. Len(w) - 1 : s = SubSeq(w, 1, n)
  BY <1>1
<1>3. IsWhole(w)
  BY EncodingsAreWhole
<1>4. \E T : w \in Seq(T)
  <2>1. PICK f \in Acceptable : w = EncodeFrame(f.direction, f.command, f.payload)
    BY DEF Encodings, Wire
  <2> QED  BY <2>1, AcceptableFrames, OnTheWire
<1>5. PICK T : w \in Seq(T)
  BY <1>4
<1>6. Len(w) \in Nat /\ n \in Nat /\ n < Len(w)
  BY <1>5
<1>7. Len(s) = n /\ \A i \in 1..n : s[i] = w[i]
  BY <1>2, <1>5, <1>6
<1> QED  BY <1>3, <1>6, <1>7 DEF IsWhole, IsBegun, HeaderFits

LEMMA BegunCanEnd ==
  ASSUME NEW s \in Seq(Bytes), IsBegun(s)
  PROVE  s \in Beginnings
<1> DEFINE k == Len(s)
           n == IF k < 4 THEN 0 ELSE s[4]
           b == CHOOSE byte : byte \in Bytes
           p == [i \in 1..n |-> IF 5 + i <= k THEN s[5 + i] ELSE b]
           d == IF k < 3 THEN "Reply" ELSE DirectionOf(s[3])
           w == EncodeFrame(d, CommandByte[Expected], p)
<1>1. MaxResponse \in Nat /\ MaxResponse >= 6 /\ Bytes \subseteq Nat
  BY AccumulatorAssumption DEF FrameOverhead
<1>2. k \in Nat /\ n \in Nat /\ n + 6 <= MaxResponse /\ k < n + 6
  <2>1. k >= 4 => s[4] \in Nat
    BY BytesAreNumbers
  <2> QED  BY <1>1, <2>1 DEF IsBegun
<1>3. p \in [1 .. n -> Bytes]
  <2>1. ASSUME NEW i \in 1..n, ~(5 + i <= k)
        PROVE  b \in Bytes
    <3>1. ~(k < 4)
      BY <2>1
    <3>2. s[4] \in Bytes
      BY <1>2, <3>1
    <3> QED  BY <3>2
  <2>2. ASSUME NEW i \in 1..n, 5 + i <= k
        PROVE  s[5 + i] \in Bytes
    BY <1>2, <2>2
  <2> HIDE DEF b, n
  <2> QED  BY <2>1, <2>2
<1>4. d \in {"Reply", "Error"} /\ (k >= 3 => DirectionByte[d] = s[3])
  BY <1>2 DEF IsBegun, HeaderFits, DirectionByte, DirectionOf
<1> HIDE DEF w, d, b
<1>5. w \in Encodings
  <2> HIDE DEF p, n
  <2> QED  BY <1>2, <1>3, <1>4, Framed DEF w
<1>6. p \in Seq(Bytes) /\ Len(p) = n
  <2> HIDE DEF p, n
  <2> QED  BY <1>2, <1>3, IsASeq
<1>7. /\ \E T : w \in Seq(T)
      /\ Len(w) = n + 6
      /\ w[1] = Dollar /\ w[2] = LetterM /\ w[3] = DirectionByte[d]
      /\ w[4] = n /\ w[5] = CommandByte[Expected]
      /\ \A i \in 1..n : w[5 + i] = p[i]
  <2> HIDE DEF p, n
  <2> QED  BY <1>6, OnTheWire DEF w
<1>8. ASSUME NEW i \in 1..k
      PROVE  s[i] = w[i]
  <2>1. CASE i \in {1, 2, 3, 5}
    <3>1. s[1] = w[1]
      BY <1>2, <1>7 DEF IsBegun, HeaderFits
    <3>2. k >= 2 => s[2] = w[2]
      BY <1>7 DEF IsBegun, HeaderFits
    <3>3. k >= 3 => s[3] = w[3]
      BY <1>4, <1>7
    <3>4. k >= 5 => s[5] = w[5]
      BY <1>7 DEF IsBegun, HeaderFits
    <3> HIDE DEF k
    <3> QED  BY <1>2, <2>1, <3>1, <3>2, <3>3, <3>4
  <2>2. CASE i = 4
    BY <1>2, <1>7, <2>2
  <2>3. CASE i > 5
    <3>1. i - 5 \in 1..n /\ 5 + (i - 5) = i /\ i <= k
      BY <1>2, <2>3
    <3>2. p[i - 5] = s[i]
      <4> HIDE DEF n
      <4> QED  BY <3>1
    <3>3. w[i] = p[i - 5]
      <4> HIDE DEF n, p
      <4> QED  BY <1>7, <3>1
    <3> QED  BY <3>2, <3>3
  <2> QED  BY <1>2, <2>1, <2>2, <2>3
<1> HIDE DEF p, n
<1>9. PICK T : w \in Seq(T)
  BY <1>7
<1>10. k \in 0 .. Len(w) - 1
  BY <1>2, <1>7
<1>11. s = SubSeq(w, 1, k)
  <2>1. /\ SubSeq(w, 1, k) \in Seq(T) /\ Len(SubSeq(w, 1, k)) = k
        /\ \A i \in 1..k : SubSeq(w, 1, k)[i] = w[i]
    BY <1>2, <1>7, <1>9, SMTT(30)
  <2>2. SubSeq(w, 1, k) \in Seq(T \cup Bytes) /\ s \in Seq(T \cup Bytes)
    BY <2>1, SeqMonotonic
  <2> QED  BY <1>8, <2>1, <2>2, SeqEqual
<1>12. s \in {SubSeq(w, 1, m) : m \in 0 .. Len(w) - 1}
  BY <1>10, <1>11
<1> QED  BY <1>5, <1>12 DEF Beginnings

(* What the whole stream is. *)
VerdictOn(s) == IF s \in Encodings THEN "complete"
                ELSE IF s \in Beginnings THEN "more" ELSE "refused"

LEMMA StreamsClassified ==
  ASSUME NEW s \in Seq(Bytes)
  PROVE  /\ s \in Encodings <=> IsWhole(s)
         /\ s \in Beginnings <=> IsBegun(s)
  BY EncodingsAreWhole, WholeIsEncoded, BeginningsAreBegun, BegunCanEnd

(* A buffer within the bound is judged as what it is. *)
LEMMA JudgedRightly ==
  ASSUME NEW s \in Seq(Bytes), Len(s) <= MaxResponse
  PROVE  LET j == Judged(s)
         IN  /\ j.verdict = VerdictOn(s)
             /\ j.verdict = "complete" =>
                  EncodeFrame(j.direction, j.command, j.payload) = s
<1>1. /\ Len(s) \in Nat /\ MaxResponse \in Nat
      /\ Len(s) >= 4 => s[4] \in Nat
  BY BytesAreNumbers
<1>2. CASE ~HeaderFits(s)
  <2>1. Judged(s) = Refused(HeaderProblem(s))
    BY <1>2, HeaderJudged DEF Judged
  <2>2. VerdictOn(s) = "refused"
    BY <1>2, StreamsClassified DEF VerdictOn, IsWhole, IsBegun
  <2> QED  BY <2>1, <2>2 DEF Refused
<1>3. CASE HeaderFits(s) /\ Len(s) < 4
  <2>1. Judged(s) = NeedMore
    BY <1>3, HeaderJudged DEF Judged
  <2>2. VerdictOn(s) = "more"
    BY <1>1, <1>3, StreamsClassified DEF VerdictOn, IsWhole, IsBegun
  <2> QED  BY <2>1, <2>2 DEF NeedMore
<1>4. CASE HeaderFits(s) /\ ~(Len(s) < 4) /\ 6 + s[4] > MaxResponse
  <2>1. Judged(s) = Refused("FrameTooLarge")
    BY <1>4, HeaderJudged DEF Judged, FrameLen, FrameOverhead
  <2>2. VerdictOn(s) = "refused"
    BY <1>1, <1>4, StreamsClassified DEF VerdictOn, IsWhole, IsBegun
  <2> QED  BY <2>1, <2>2 DEF Refused
<1>5. CASE HeaderFits(s) /\ ~(Len(s) < 4) /\ ~(6 + s[4] > MaxResponse) /\ Len(s) < 6 + s[4]
  <2>1. Judged(s) = NeedMore
    BY <1>5, HeaderJudged DEF Judged, FrameLen, FrameOverhead
  <2>2. VerdictOn(s) = "more"
    BY <1>1, <1>5, StreamsClassified DEF VerdictOn, IsWhole, IsBegun
  <2> QED  BY <2>1, <2>2 DEF NeedMore
<1>6. CASE HeaderFits(s) /\ ~(Len(s) < 4) /\ ~(6 + s[4] > MaxResponse) /\ Len(s) > 6 + s[4]
  <2>1. Judged(s) = Refused("TrailingBytes")
    BY <1>1, <1>6, HeaderJudged DEF Judged, FrameLen, FrameOverhead
  <2>2. VerdictOn(s) = "refused"
    BY <1>1, <1>6, StreamsClassified DEF VerdictOn, IsWhole, IsBegun
  <2> QED  BY <2>1, <2>2 DEF Refused
<1>7. CASE HeaderFits(s) /\ ~(Len(s) < 4) /\ ~(6 + s[4] > MaxResponse) /\ Len(s) = 6 + s[4]
  <2>1. Judged(s) = DecodeFrame(s)
    BY <1>1, <1>7, HeaderJudged DEF Judged, FrameLen, FrameOverhead
  <2>2. Len(s) >= 6 /\ s[3] \in {62, 33} /\ s[1] = Dollar /\ s[2] = LetterM
    BY <1>1, <1>7 DEF HeaderFits
  <2>3. /\ ~PreambleIsBad(s) /\ DirectionsOf(s[3]) = {DirectionOf(s[3])}
    BY <1>1, <2>2, DirectionBytes DEF PreambleIsBad, DirectionOf
  <2>4. ~(Len(s) < 6) /\ ~(Len(s) < 6 + s[4]) /\ ~(Len(s) > 6 + s[4])
    BY <1>1, <1>7, <2>2
  <2>5. CASE s[Len(s)] # Checksum(s[4], s[5], Payload(s))
    <3>1. DecodeFrame(s) = Refused("BadChecksum")
      BY <2>3, <2>4, <2>5 DEF DecodeFrame, FrameLen, FrameOverhead, Payload
    <3>2. VerdictOn(s) = "refused"
      BY <1>1, <1>7, <2>5, StreamsClassified DEF VerdictOn, IsWhole, IsBegun
    <3> QED  BY <2>1, <3>1, <3>2 DEF Refused
  <2>6. CASE s[Len(s)] = Checksum(s[4], s[5], Payload(s))
    <3>1. DecodeFrame(s) = [verdict |-> "complete", direction |-> DirectionOf(s[3]),
                            command |-> s[5], payload |-> Payload(s)]
      BY <2>3, <2>4, <2>6 DEF DecodeFrame, FrameLen, FrameOverhead, Payload
    <3>2. IsWhole(s)
      BY <1>7, <2>2, <2>6 DEF IsWhole
    <3>3. VerdictOn(s) = "complete"
      BY <3>2, StreamsClassified DEF VerdictOn
    <3>4. EncodeFrame(DirectionOf(s[3]), s[5], Payload(s)) = s
      BY <3>2, WholeIsEncoded
    <3> QED  BY <2>1, <3>1, <3>3, <3>4
  <2> QED  BY <2>5, <2>6
<1> QED  BY <1>1, <1>2, <1>3, <1>4, <1>5, <1>6, <1>7

(* Nothing longer than the bound, and nothing after a whole frame, is or     *)
(* begins an acceptable one.                                                *)
LEMMA TooLong ==
  ASSUME NEW s \in Seq(Bytes), Len(s) > MaxResponse
  PROVE  VerdictOn(s) = "refused"
<1>1. Len(s) \in Nat /\ MaxResponse \in Nat /\ MaxResponse >= 6
      /\ (Len(s) >= 4 => s[4] \in Nat)
  BY BytesAreNumbers
<1> QED  BY <1>1, StreamsClassified DEF VerdictOn, IsWhole, IsBegun

LEMMA Coalesced ==
  ASSUME NEW s \in Encodings, s \in Seq(Bytes), NEW c \in Seq(Bytes), c # <<>>
  PROVE  VerdictOn(s \o c) = "refused"
<1>1. IsWhole(s) /\ Len(s) \in Nat /\ Len(c) \in Nat /\ Len(c) > 0
  BY EncodingsAreWhole, EmptySeq, LenProperties
<1>2. Len(s) >= 6 /\ Len(s) = 6 + s[4] /\ s[4] \in Nat
  BY <1>1, BytesAreNumbers DEF IsWhole
<1>3. s \o c \in Seq(Bytes) /\ Len(s \o c) = Len(s) + Len(c) /\ (s \o c)[4] = s[4]
  <2>1. 4 \in 1 .. Len(s) + Len(c) /\ 4 <= Len(s)
    BY <1>1, <1>2
  <2>2. s \o c \in Seq(Bytes) /\ Len(s \o c) = Len(s) + Len(c)
    BY ConcatProperties
  <2>3. \A i \in 1 .. Len(s) + Len(c) :
          (s \o c)[i] = IF i <= Len(s) THEN s[i] ELSE c[i - Len(s)]
    BY ConcatProperties
  <2> QED  BY <2>1, <2>2, <2>3
<1>4. ~IsWhole(s \o c) /\ ~IsBegun(s \o c)
  BY <1>1, <1>2, <1>3 DEF IsWhole, IsBegun
<1> QED  BY <1>3, <1>4, StreamsClassified DEF VerdictOn

(* Until something is refused, all that was fed is in the buffer, and has    *)
(* been judged as a whole.                                                  *)
AllInHand ==
  progress.verdict # "refused" =>
    /\ buffer = fed
    /\ progress = Judged(fed)
    /\ complete = (progress.verdict = "complete")

AccumulatorInv ==
  /\ AccumulatorTypeOK
  /\ AllInHand
  /\ SegmentationFree

LEMMA NothingYet ==
  ASSUME NEW s \in Seq(Bytes), Len(s) < 1
  PROVE  Judged(s) = NeedMore /\ VerdictOn(s) = "more"
<1>1. HeaderFits(s)
  BY DEF HeaderFits
<1>2. Judged(s) = NeedMore
  BY <1>1, BytesAreNumbers, HeaderJudged DEF Judged
<1>3. Judged(s).verdict = VerdictOn(s)
  BY BytesAreNumbers, JudgedRightly
<1> QED  BY <1>2, <1>3 DEF NeedMore

LEMMA AccumulatorStart ==
  ASSUME AccumulatorInit
  PROVE  AccumulatorInv
<1>1. /\ buffer \in Seq(Bytes) /\ Len(buffer) < 1 /\ fed = buffer
      /\ complete = FALSE /\ progress = NeedMore
  BY DEF AccumulatorInit
<1>2. Judged(fed) = NeedMore /\ VerdictOn(fed) = "more"
  BY <1>1, NothingYet
<1>3. progress.verdict = "more"
  BY <1>1 DEF NeedMore
<1>4. AccumulatorTypeOK
  <2>1. complete \in BOOLEAN
    BY <1>1
  <2>2. Len(buffer) <= MaxResponse
    BY <1>1, BytesAreNumbers
  <2> QED  BY <1>1, <1>3, <2>1, <2>2, Zenon DEF AccumulatorTypeOK
<1>5. AllInHand
  BY <1>1, <1>2, <1>3 DEF AllInHand
<1>6. SegmentationFree
  BY <1>2, <1>3 DEF SegmentationFree, VerdictOn
<1> QED  BY <1>4, <1>5, <1>6 DEF AccumulatorInv

LEMMA AccumulatorStep ==
  ASSUME AccumulatorInv, [AccumulatorNext]_accumulatorVars
  PROVE  AccumulatorInv'
<1>1. CASE UNCHANGED accumulatorVars
  BY <1>1 DEF accumulatorVars, AccumulatorInv, AccumulatorTypeOK, AllInHand, SegmentationFree
<1>2. ASSUME NEW chunk \in Chunks, Push(chunk)
      PROVE  AccumulatorInv'
  <2>1. chunk \in Seq(Bytes)
    BY <1>2, IsASeq DEF Chunks
  <2>2. /\ buffer \in Seq(Bytes) /\ Len(buffer) <= MaxResponse /\ complete \in BOOLEAN
        /\ fed \in Seq(Bytes) /\ progress.verdict # "refused"
        /\ buffer = fed /\ progress = Judged(fed)
        /\ complete = (progress.verdict = "complete")
        /\ progress.verdict = VerdictOn(fed)
    BY <1>2 DEF AccumulatorInv, AccumulatorTypeOK, AllInHand, SegmentationFree, Push, VerdictOn
  <2>3. fed' = fed \o chunk /\ fed' \in Seq(Bytes) /\ MaxResponse \in Nat
        /\ Len(fed') = Len(buffer) + Len(chunk)
    BY <1>2, <2>1, <2>2, AccumulatorAssumption, ConcatProperties DEF Push
  <2>4. CASE complete
    <3>1. chunk # <<>> /\ progress' = Refused("TrailingBytes") /\ UNCHANGED <<buffer, complete>>
      BY <1>2, <2>4 DEF Push
    <3>2. fed \in Encodings
      BY <2>2, <2>4 DEF VerdictOn
    <3>3. VerdictOn(fed') = "refused"
      BY <2>1, <2>2, <2>3, <3>1, <3>2, Coalesced
    <3> QED
      BY <2>2, <2>3, <3>1, <3>3
      DEF AccumulatorInv, AccumulatorTypeOK, AllInHand, SegmentationFree, Refused, VerdictOn
  <2>5. CASE ~complete /\ Len(buffer) + Len(chunk) > MaxResponse
    <3>1. progress' = Refused("FrameTooLarge") /\ UNCHANGED <<buffer, complete>>
      BY <1>2, <2>5 DEF Push
    <3>2. VerdictOn(fed') = "refused"
      BY <2>3, <2>5, TooLong
    <3> QED
      BY <2>2, <2>3, <3>1, <3>2
      DEF AccumulatorInv, AccumulatorTypeOK, AllInHand, SegmentationFree, Refused, VerdictOn
  <2>6. CASE ~complete /\ ~(Len(buffer) + Len(chunk) > MaxResponse)
    <3>1. /\ buffer' = fed' /\ progress' = Judged(fed')
          /\ complete' = (progress'.verdict = "complete")
      BY <1>2, <2>2, <2>3, <2>6 DEF Push
    <3>2. Len(fed') <= MaxResponse
      BY <2>1, <2>2, <2>3, <2>6
    <3>3. /\ progress'.verdict = VerdictOn(fed')
          /\ progress'.verdict = "complete" =>
               EncodeFrame(progress'.direction, progress'.command, progress'.payload) = fed'
      BY <2>3, <3>1, <3>2, JudgedRightly
    <3>4. AccumulatorTypeOK'
      BY <2>3, <3>1, <3>2, <3>3 DEF AccumulatorTypeOK, VerdictOn
    <3>5. AllInHand'
      BY <3>1 DEF AllInHand
    <3>6. SegmentationFree'
      BY <3>3 DEF SegmentationFree, VerdictOn
    <3> QED  BY <3>4, <3>5, <3>6 DEF AccumulatorInv
  <2> QED  BY <2>2, <2>4, <2>5, <2>6
<1> QED  BY <1>1, <1>2 DEF AccumulatorNext

(* Whatever a device sends, in whatever pieces: no more than the bound is    *)
(* ever stored.                                                             *)
THEOREM StorageBounded == AccumulatorSpec => []AccumulatorTypeOK
<1>1. AccumulatorInit => AccumulatorInv
  BY AccumulatorStart
<1>2. AccumulatorInv /\ [AccumulatorNext]_accumulatorVars => AccumulatorInv'
  BY AccumulatorStep
<1>3. AccumulatorInv => AccumulatorTypeOK
  BY DEF AccumulatorInv
<1> QED  BY <1>1, <1>2, <1>3, PTL DEF AccumulatorSpec

(* The verdict depends on the bytes alone, never on how they were cut into   *)
(* chunks; a stream is accepted exactly when it is one acceptable frame, for *)
(* whatever checksum.                                                       *)
THEOREM OnlyTheStreamCounts == AccumulatorSpec => []SegmentationFree
<1>1. AccumulatorInit => AccumulatorInv
  BY AccumulatorStart
<1>2. AccumulatorInv /\ [AccumulatorNext]_accumulatorVars => AccumulatorInv'
  BY AccumulatorStep
<1>3. AccumulatorInv => SegmentationFree
  BY DEF AccumulatorInv
<1> QED  BY <1>1, <1>2, <1>3, PTL DEF AccumulatorSpec
=============================================================================
