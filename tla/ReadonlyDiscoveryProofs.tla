----------------------- MODULE ReadonlyDiscoveryProofs -----------------------
(***************************************************************************)
(* What the discovery machine answers to each call, and in which of its     *)
(* places the call leaves it: lemmas for every owner of a machine, with any *)
(* number of request ids and any length of the trace.                       *)
(***************************************************************************)
EXTENDS ReadonlyDiscovery, TLAPS

-----------------------------------------------------------------------------
(* The machine. Between two calls it is in one of five places, and in each   *)
(* the phase, the pending id, the coordinator, the identification and the    *)
(* accumulator are all known; the request ids are counted as they are used.  *)

Machine(phase, pendingId, coordinator, ident, accumulating, outcome, trace) ==
  [phase |-> phase, pendingId |-> pendingId, coordinator |-> coordinator,
   ident |-> ident, accumulating |-> accumulating, outcome |-> outcome, trace |-> trace]

Idle(m) == [nextId |-> m, awaited |-> None]

Awaiting(m, kind) == [nextId |-> m + 1, awaited |-> [id |-> m, kind |-> kind]]

Ident(stage, pending, correlator, profile, variant, version) ==
  [stage |-> stage, pending |-> pending, correlator |-> correlator,
   profile |-> profile, variant |-> variant, version |-> version]

(* What it remembers at its n-th read: the command answered last, and the    *)
(* facts in the replies `h`.                                                *)
LastAt(n) == IF n = 1 THEN None ELSE Stages[n - 1]

ProfileAt(n, h) == IF n = 1 THEN None ELSE ProfileOf[h[1].content]

VariantAt(n) == IF n < 3 THEN None ELSE "BTFL"

VersionAt(n, h) == IF n < 4 THEN None ELSE h[3].content

(* The identification at its n-th read, before it asks and while it waits.   *)
IdentAt(n, h, waits) ==
  Ident(Stages[n], waits,
        [outstanding |-> IF waits THEN <<Stages[n]>> ELSE <<>>, last |-> LastAt(n)],
        ProfileAt(n, h), VariantAt(n), VersionAt(n, h))

IsReady(d) ==
  d = Machine("Ready", None, Idle(1), NewIdentification, None, None, d.trace)

IsOpening(d) ==
  d = Machine("Opening", 1, Awaiting(1, "open"), NewIdentification, None, None, d.trace)

IsExchanging(d, n, h) ==
  d = Machine("Exchanging", n + 1, Awaiting(n + 1, "exchange"), IdentAt(n, h, TRUE),
              Stages[n], None, d.trace)

(* A close may be due after any exchange. *)
IsClosing(d) ==
  \E m \in 3 .. 6 :
    d = Machine("Closing", m, Awaiting(m, "close"), d.ident, None, d.outcome, d.trace)

IsComplete(d) ==
  \E m \in 2 .. 7 :
    d = Machine("Complete", None, Idle(m), d.ident, None, d.outcome, d.trace)

Frames == UNION {FramesOf(c) : c \in ToSet(Stages)}

(* The replies that let an identification come to its n-th read. *)
Led(h, n) ==
  /\ h \in Seq(Frames) /\ Len(h) = n - 1
  /\ \A k \in 1 .. n - 1 : /\ h[k].command = Stages[k]
                           /\ h[k].direction = "Reply" /\ h[k].content # "unreadable"
  /\ n > 1 => h[1].content \in DOMAIN ProfileOf
  /\ n > 2 => h[2].content = "BTFL"
  /\ n > 3 => h[3].content \in {"pinned", "otherVersion"}

-----------------------------------------------------------------------------
(* The trace. Most events only say what happened; two of them say what went  *)
(* wrong.                                                                   *)

QuietEvents ==
  {"DIRECTIVE", "FRAME_ACCEPTED", "IDENTITY_STAGE_OK"} \X ToSet(Stages)

TraceEvents ==
  ({"DIRECTIVE", "FRAME_ACCEPTED", "IDENTITY_STAGE_OK"}
     \cup {"FRAME_REJECTED", "IDENTITY_STAGE_FAILED"}) \X ToSet(Stages)

Logs(t, u) == t \in Seq(TraceEvents) => u \in Seq(TraceEvents)

Calm(t, u) == Logs(t, u) /\ (t \in Seq(QuietEvents) => u \in Seq(QuietEvents))

LEMMA LogKept ==
  ASSUME NEW S, NEW t \in Seq(S), NEW event \in S
  PROVE  Append(IF Len(t) = TraceLimit THEN Tail(t) ELSE t, event) \in Seq(S)
<1>1. CASE Len(t) = TraceLimit
  <2>1. t # <<>>
    BY <1>1, TraceAssumption
  <2>2. Tail(t) \in Seq(S)
    BY <2>1
  <2> QED  BY <1>1, <2>2
<1>2. CASE Len(t) # TraceLimit
  BY <1>2
<1> QED  BY <1>1, <1>2

LEMMA Calmly ==
  /\ \A t : Calm(t, t)
  /\ \A t, u, v : Calm(t, u) /\ Calm(u, v) => Calm(t, v)
  /\ \A t, u, v : Logs(t, u) /\ Logs(u, v) => Logs(t, v)
  /\ \A t, u : Calm(t, u) => Logs(t, u)
BY DEF Calm, Logs

-----------------------------------------------------------------------------
(* The record. *)

LEMMA Fields ==
  ASSUME NEW f, NEW p, NEW c, NEW i, NEW a, NEW o, NEW t
  PROVE  LET d == Machine(f, p, c, i, a, o, t)
         IN  /\ d.phase = f /\ d.pendingId = p /\ d.coordinator = c /\ d.ident = i
             /\ d.accumulating = a /\ d.outcome = o /\ d.trace = t
BY DEF Machine

LEMMA ConsumedMachine ==
  ASSUME NEW f, NEW p, NEW m, NEW kind, NEW i, NEW a, NEW o, NEW t
  PROVE  Consume(Machine(f, p, Awaiting(m, kind), i, a, o, t))
           = Machine(f, None, Idle(m + 1), i, a, o, t)
<1> DEFINE d == Machine(f, p, Awaiting(m, kind), i, a, o, t)
<1>1. Consumed(Awaiting(m, kind)) = Idle(m + 1)
  BY DEF Consumed, Awaiting, Idle
<1>2. d.coordinator = Awaiting(m, kind)
  BY Fields
<1>3. [d EXCEPT !.coordinator = Idle(m + 1)] = Machine(f, p, Idle(m + 1), i, a, o, t)
  BY DEF Machine
<1>4. [Machine(f, p, Idle(m + 1), i, a, o, t) EXCEPT !.pendingId = None]
        = Machine(f, None, Idle(m + 1), i, a, o, t)
  BY DEF Machine
<1> HIDE DEF d
<1>5. Consume(d) = [[d EXCEPT !.coordinator = Idle(m + 1)] EXCEPT !.pendingId = None]
  BY <1>1, <1>2 DEF Consume
<1> QED  BY <1>3, <1>4, <1>5 DEF d

LEMMA TracedMachine ==
  ASSUME NEW f, NEW p, NEW c, NEW i, NEW a, NEW o, NEW t, NEW event
  PROVE  \E u : /\ Traced(Machine(f, p, c, i, a, o, t), event)
                     = Machine(f, p, c, i, a, o, u)
                /\ event \in TraceEvents => Logs(t, u)
                /\ event \in QuietEvents => Calm(t, u)
<1> DEFINE d == Machine(f, p, c, i, a, o, t)
           u == Append(IF Len(d.trace) = TraceLimit THEN Tail(d.trace) ELSE d.trace, event)
<1>1. Traced(d, event) = [d EXCEPT !.trace = u]
  BY DEF Traced
<1>2. [d EXCEPT !.trace = u] = Machine(f, p, c, i, a, o, u)
  <2> HIDE DEF u
  <2> QED  BY DEF Machine
<1>3. d.trace = t
  BY Fields
<1> HIDE DEF d
<1>4. ASSUME NEW S, t \in Seq(S), event \in S
      PROVE  u \in Seq(S)
  BY <1>3, <1>4, LogKept
<1> HIDE DEF u
<1>5. event \in TraceEvents => Logs(t, u)
  BY <1>4 DEF Logs
<1>6. event \in QuietEvents => event \in TraceEvents
  BY DEF QuietEvents, TraceEvents
<1>7. event \in QuietEvents => Calm(t, u)
  BY <1>4, <1>5, <1>6 DEF Calm
<1> QED  BY <1>1, <1>2, <1>5, <1>7 DEF d

-----------------------------------------------------------------------------
(* Effects. *)

LEMMA IdsSuffice ==
  ASSUME NEW m \in 1 .. 6
  PROVE  CanBegin(Idle(m))
BY IdsAssumption, RequestIdAssumption DEF CanBegin, Idle

LEMMA StageNames ==
  /\ Len(Stages) = 4 /\ DOMAIN Stages = 1 .. 4
  /\ Stages[1] = "ApiVersion" /\ Stages[2] = "FcVariant"
  /\ Stages[3] = "FcVersion" /\ Stages[4] = "BoardInfo"
  /\ ToSet(Stages) = {"ApiVersion", "FcVariant", "FcVersion", "BoardInfo"}
  /\ \A n \in 1 .. 4 : Stages[n] \in ToSet(Stages) /\ Stages[n] # None
                       /\ Stages[n] # "Complete"
<1>1. /\ Len(Stages) = 4 /\ DOMAIN Stages = 1 .. 4
      /\ Stages[1] = "ApiVersion" /\ Stages[2] = "FcVariant"
      /\ Stages[3] = "FcVersion" /\ Stages[4] = "BoardInfo"
  BY DEF Stages
<1>2. \A n \in 1 .. 4 : n = 1 \/ n = 2 \/ n = 3 \/ n = 4
  OBVIOUS
<1>3. ToSet(Stages) = {"ApiVersion", "FcVariant", "FcVersion", "BoardInfo"}
  BY <1>1, <1>2 DEF ToSet
<1>4. None \notin ToSet(Stages)
  BY NoneAssumption DEF Known
<1>5. \A n \in 1 .. 4 : Stages[n] \in ToSet(Stages)
  BY <1>1, <1>2, <1>3
<1> QED  BY <1>1, <1>3, <1>4, <1>5


LEMMA EffectBegins ==
  ASSUME NEW m \in 1 .. 6, NEW f, NEW i, NEW a, NEW o, NEW t, NEW kind, NEW phase,
         NEW packet,
         kind = "exchange" => MaySend(packet, a)
  PROVE  BeginEffect(Machine(f, None, Idle(m), i, a, o, t), kind, packet, phase)
           = Answered(Machine(phase, m, Awaiting(m, kind), i, a, o, t),
                      [kind |-> kind, id |-> m, command |-> a])
<1> DEFINE d == Machine(f, None, Idle(m), i, a, o, t)
           begun == Machine(phase, m, Awaiting(m, kind), i, a, o, t)
<1>1. d.coordinator = Idle(m) /\ d.accumulating = a /\ begun.pendingId = m
  BY Fields
<1>2. CanBegin(d.coordinator) /\ d.coordinator.nextId = m
  BY <1>1, IdsSuffice DEF Idle
<1>3. Begin(d.coordinator, kind) = Awaiting(m, kind)
  BY <1>1 DEF Begin, Idle, Awaiting
<1>4. [d EXCEPT !.coordinator = Begin(@, kind), !.pendingId = d.coordinator.nextId,
                !.phase = phase] = begun
  <2> DEFINE c == Awaiting(m, kind)
             d1 == Machine(f, None, c, i, a, o, t)
             d2 == Machine(f, m, c, i, a, o, t)
  <2>1. [d EXCEPT !.coordinator = c] = d1
    <3> HIDE DEF c
    <3> QED  BY DEF Machine
  <2>2. [d1 EXCEPT !.pendingId = m] = d2
    <3> HIDE DEF c
    <3> QED  BY DEF Machine
  <2>3. [d2 EXCEPT !.phase = phase] = begun
    <3> HIDE DEF c
    <3> QED  BY DEF Machine, c
  <2> HIDE DEF d, d1, d2, begun, c
  <2>4. Begin(d.coordinator, kind) = c
    BY <1>3 DEF c
  <2> QED  BY <1>2, <2>1, <2>2, <2>3, <2>4
<1> HIDE DEF d, begun
<1>5. BeginEffect(d, kind, packet, phase)
        = Answered(begun, [kind |-> kind, id |-> m, command |-> a])
  BY <1>1, <1>2, <1>4 DEF BeginEffect
<1> QED  BY <1>5 DEF d, begun

LEMMA Opens ==
  ASSUME NEW d, IsReady(d)
  PROVE  /\ IsOpening(BeginOpen(d).d) /\ BeginOpen(d).answer.kind = "open"
         /\ BeginOpen(d).d.trace = d.trace
<1> DEFINE opening == Machine("Opening", 1, Awaiting(1, "open"), NewIdentification,
                              None, None, d.trace)
           said == [kind |-> "open", id |-> 1, command |-> None]
<1>1. d.phase = "Ready"
  BY Fields DEF IsReady
<1>2. BeginEffect(d, "open", None, "Opening") = Answered(opening, said)
  BY EffectBegins DEF IsReady
<1>3. BeginOpen(d) = Answered(opening, said)
  BY <1>1, <1>2 DEF BeginOpen
<1>4. BeginOpen(d).d = opening /\ BeginOpen(d).answer = said
  BY <1>3 DEF Answered
<1>5. opening.trace = d.trace
  BY Fields
<1> QED  BY <1>4, <1>5 DEF IsOpening

LEMMA Closes ==
  ASSUME NEW m \in 3 .. 6, NEW f, NEW i, NEW a, NEW o, NEW t
  PROVE  LET call == StartClose(Machine(f, None, Idle(m), i, a, o, t))
         IN  /\ IsClosing(call.d) /\ call.d.outcome = o /\ call.answer.kind = "close"
             /\ call.d.trace = t
<1> DEFINE d == Machine(f, None, Idle(m), i, a, o, t)
           closing == Machine("Closing", m, Awaiting(m, "close"), i, None, o, t)
           said == [kind |-> "close", id |-> m, command |-> None]
<1>1. [d EXCEPT !.accumulating = None] = Machine(f, None, Idle(m), i, None, o, t)
  BY DEF Machine
<1>2. BeginEffect(Machine(f, None, Idle(m), i, None, o, t), "close", None, "Closing")
        = Answered(closing, said)
  BY EffectBegins
<1>3. StartClose(d) = Answered(closing, said)
  BY <1>1, <1>2 DEF StartClose
<1>4. StartClose(d).d = closing /\ StartClose(d).answer = said
  BY <1>3 DEF Answered
<1>5. closing.ident = i /\ closing.outcome = o /\ closing.trace = t
  BY Fields
<1>6. IsClosing(closing)
  BY <1>5 DEF IsClosing
<1> QED  BY <1>4, <1>5, <1>6

Asking(n, h, call) ==
  /\ IsExchanging(call.d, n, h)
  /\ call.answer.kind = "exchange" /\ call.answer.command = Stages[n]

LEMMA Asks ==
  ASSUME NEW n \in 1 .. 4, NEW h, NEW f, NEW t
  PROVE  LET call == NextExchange(Machine(f, None, Idle(n + 1), IdentAt(n, h, FALSE),
                                         None, None, t))
         IN  Asking(n, h, call) /\ Calm(t, call.d.trace)
<1> DEFINE i == IdentAt(n, h, FALSE)
           j == IdentAt(n, h, TRUE)
           d == Machine(f, None, Idle(n + 1), i, None, None, t)
           asking == Machine(f, None, Idle(n + 1), j, Stages[n], None, t)
           begun == Machine("Exchanging", n + 1, Awaiting(n + 1, "exchange"), j,
                            Stages[n], None, t)
           packet == ReadOnlyPacket(RequestFrame(Stages[n], <<>>))
           said == [kind |-> "exchange", id |-> n + 1, command |-> Stages[n]]
<1> SUFFICES /\ IsExchanging(NextExchange(d).d, n, h)
             /\ NextExchange(d).answer.kind = "exchange"
             /\ NextExchange(d).answer.command = Stages[n]
             /\ Calm(t, NextExchange(d).d.trace)
  BY Zenon DEF Asking
<1>1. CanRequest(i) /\ i.stage = Stages[n]
  BY StageNames DEF CanRequest, IdentAt, Ident
<1>2. Requested(i) = j
  <2> DEFINE in(waits, correlator) ==
               Ident(Stages[n], waits, correlator, ProfileAt(n, h), VariantAt(n),
                     VersionAt(n, h))
             rests == [outstanding |-> <<>>, last |-> LastAt(n)]
             asks == [outstanding |-> <<Stages[n]>>, last |-> LastAt(n)]
             yes == TRUE
             no == FALSE
  <2>1. i = in(no, rests) /\ j = in(yes, asks)
    BY DEF IdentAt
  <2>2. OnRequest(rests, Stages[n]) = asks
    BY DEF OnRequest
  <2>3. in(no, rests).correlator = rests /\ in(no, rests).stage = Stages[n]
    BY DEF Ident
  <2> HIDE DEF rests, asks, yes, no
  <2>4. [in(no, rests) EXCEPT !.pending = yes] = in(yes, rests)
    BY DEF Ident
  <2>5. [in(yes, rests) EXCEPT !.correlator = asks] = in(yes, asks)
    BY DEF Ident
  <2> HIDE DEF in, i, j
  <2>6. [in(no, rests) EXCEPT !.pending = TRUE] = in(yes, rests)
    BY <2>4 DEF yes
  <2>7. Requested(in(no, rests)) = in(yes, asks)
    BY <2>2, <2>3, <2>5, <2>6 DEF Requested
  <2> QED  BY <2>1, <2>7
<1> HIDE DEF i, j
<1>3. [d EXCEPT !.ident = j, !.accumulating = Stages[n]] = asking
  <2>1. [d EXCEPT !.ident = j] = Machine(f, None, Idle(n + 1), j, None, None, t)
    BY DEF Machine
  <2>2. [Machine(f, None, Idle(n + 1), j, None, None, t) EXCEPT !.accumulating = Stages[n]]
          = asking
    BY DEF Machine
  <2> QED  BY <2>1, <2>2
<1>4. d.ident = i
  BY Fields
<1>5. MaySend(packet, Stages[n])
  BY StageNames DEF MaySend, ReadOnlyPacket, RequestFrame
<1>6. BeginEffect(asking, "exchange", packet, "Exchanging") = Answered(begun, said)
  <2> HIDE DEF packet
  <2> QED  BY <1>5, EffectBegins
<1>7. Answered(begun, said).answer = said /\ Answered(begun, said).d = begun
  BY DEF Answered
<1>8. PICK u : /\ Traced(begun, <<"DIRECTIVE", Stages[n]>>)
                    = Machine("Exchanging", n + 1, Awaiting(n + 1, "exchange"), j,
                              Stages[n], None, u)
               /\ Calm(t, u)
  <2> DEFINE event == <<"DIRECTIVE", Stages[n]>>
  <2>1. event \in QuietEvents
    BY StageNames DEF QuietEvents
  <2> HIDE DEF event
  <2>2. PICK u : /\ Traced(begun, event)
                      = Machine("Exchanging", n + 1, Awaiting(n + 1, "exchange"), j,
                                Stages[n], None, u)
                 /\ Calm(t, u)
    BY <2>1, TracedMachine
  <2> QED  BY <2>2 DEF event
<1>9. /\ NextExchange(d).d = Traced(begun, <<"DIRECTIVE", Stages[n]>>)
      /\ NextExchange(d).answer = said
  <2>1. said.kind # "refused"
    OBVIOUS
  <2> HIDE DEF asking, begun, d, said
  <2>2. NextExchange(d) = [Answered(begun, said) EXCEPT
                             !.d = Traced(@, <<"DIRECTIVE", Stages[n]>>)]
    BY <1>1, <1>2, <1>3, <1>4, <1>6, <1>7, <2>1 DEF NextExchange
  <2> QED  BY <1>7, <2>2 DEF Answered
<1>10. IsExchanging(NextExchange(d).d, n, h) /\ NextExchange(d).d.trace = u
  <2>1. NextExchange(d).d.trace = u
    BY <1>8, <1>9, Fields
  <2> QED  BY <1>8, <1>9, <2>1 DEF IsExchanging, j
<1> QED  BY <1>8, <1>9, <1>10

-----------------------------------------------------------------------------
(* The replies. *)

(* What an acceptable n-th reply is. *)
Good(n, f) ==
  /\ f.direction = "Reply" /\ f.content # "unreadable"
  /\ n = 1 => f.content \in DOMAIN ProfileOf
  /\ n = 2 => f.content = "BTFL"

Extended(g, h, f, n) == g[n] = f /\ \A k \in 1 .. n - 1 : g[k] = h[k]

LEMMA LedFurther ==
  ASSUME NEW n \in 1 .. 4, NEW h, Led(h, n), NEW f \in FramesOf(Stages[n]), Good(n, f)
  PROVE  Led(Append(h, f), n + 1) /\ Extended(Append(h, f), h, f, n)
<1> DEFINE g == Append(h, f)
<1>1. f \in Frames /\ f.command = Stages[n] /\ f.content \in Contents[Stages[n]]
  BY StageNames DEF Frames, FramesOf
<1>2. h \in Seq(Frames) /\ Len(h) = n - 1
  BY DEF Led
<1>3. g \in Seq(Frames) /\ Len(g) = n /\ g[n] = f /\ \A k \in 1 .. n - 1 : g[k] = h[k]
  BY <1>1, <1>2
<1> HIDE DEF g
<1>4. \A k \in 1 .. n : /\ g[k].command = Stages[k]
                        /\ g[k].direction = "Reply" /\ g[k].content # "unreadable"
  <2> SUFFICES ASSUME NEW k \in 1 .. n
               PROVE  /\ g[k].command = Stages[k]
                      /\ g[k].direction = "Reply" /\ g[k].content # "unreadable"
    OBVIOUS
  <2>1. CASE k = n
    BY <1>1, <1>3, <2>1 DEF Good
  <2>2. CASE k \in 1 .. n - 1
    BY <1>3, <2>2 DEF Led
  <2> QED  BY <2>1, <2>2
<1>5. n + 1 > 1 => g[1].content \in DOMAIN ProfileOf
  BY <1>3 DEF Led, Good
<1>6. n + 1 > 2 => g[2].content = "BTFL"
  BY <1>3 DEF Led, Good
<1>7. n + 1 > 3 => g[3].content \in {"pinned", "otherVersion"}
  <2>1. CASE n = 3
    <3>1. Contents["FcVersion"] = {"pinned", "otherVersion", "unreadable"}
      BY DEF Contents
    <3> QED  BY <1>1, <1>3, <2>1, <3>1, StageNames DEF Good
  <2>2. CASE n = 4
    BY <1>3, <2>2 DEF Led
  <2>3. CASE n < 3
    BY <2>3
  <2> QED  BY <2>1, <2>2, <2>3
<1>8. Led(g, n + 1)
  BY <1>3, <1>4, <1>5, <1>6, <1>7 DEF Led
<1> QED  BY <1>3, <1>8 DEF g, Extended

(* The identification once the n-th reply is correlated. *)
AnsweredAt(n, h) ==
  Ident(Stages[n], FALSE, [outstanding |-> <<>>, last |-> Stages[n]],
        ProfileAt(n, h), VariantAt(n), VersionAt(n, h))

LEMMA Correlates ==
  ASSUME NEW n \in 1 .. 4, NEW h, NEW f, f.command = Stages[n],
         f.direction \in {"Reply", "Error"}
  PROVE  LET i == IdentAt(n, h, TRUE)
         IN  /\ ResponseRefusal(i, f) = IF f.direction = "Error" THEN "ErrorReply" ELSE "none"
             /\ [i EXCEPT !.pending = FALSE, !.correlator = OnReply(@, f.command)]
                  = AnsweredAt(n, h)
<1> DEFINE i == IdentAt(n, h, TRUE)
           before == [outstanding |-> <<Stages[n]>>, last |-> LastAt(n)]
           after == [outstanding |-> <<>>, last |-> Stages[n]]
           in(waits, correlator) ==
             Ident(Stages[n], waits, correlator, ProfileAt(n, h), VariantAt(n),
                   VersionAt(n, h))
           yes == TRUE
           no == FALSE
<1>1. i = in(yes, before)
  BY DEF IdentAt
<1>2. ReplyClass(before, Stages[n]) = "Expected" /\ OnReply(before, Stages[n]) = after
  <2>1. <<Stages[n]>> # <<>> /\ Head(<<Stages[n]>>) = Stages[n] /\ Tail(<<Stages[n]>>) = <<>>
    OBVIOUS
  <2> QED  BY <2>1 DEF ReplyClass, OnReply
<1>3. i.correlator = before /\ i.stage = Stages[n] /\ i.pending
  <2> HIDE DEF yes, before
  <2>1. /\ in(yes, before).correlator = before /\ in(yes, before).stage = Stages[n]
        /\ in(yes, before).pending = yes
    BY DEF Ident
  <2> HIDE DEF i, in
  <2>2. i.pending = TRUE
    BY <1>1, <2>1 DEF yes
  <2> QED  BY <1>1, <2>1, <2>2
<1>4. Stages[n] \in Known /\ Stages[n] # "Complete"
  BY StageNames DEF Known
<1> HIDE DEF before, after, yes, no
<1>5. [in(yes, before) EXCEPT !.pending = no] = in(no, before)
  BY DEF Ident
<1>6. [in(no, before) EXCEPT !.correlator = after] = in(no, after)
  BY DEF Ident
<1>7. in(yes, before).correlator = before
  BY DEF Ident
<1>8. in(no, after) = AnsweredAt(n, h)
  BY DEF AnsweredAt, no, after
<1> HIDE DEF in, i
<1>9. ResponseRefusal(i, f) = IF f.direction = "Error" THEN "ErrorReply" ELSE "none"
  BY <1>2, <1>3, <1>4 DEF ResponseRefusal
<1>10. [in(yes, before) EXCEPT !.pending = FALSE] = in(no, before)
  BY <1>5 DEF no
<1>11. [i EXCEPT !.pending = FALSE, !.correlator = OnReply(@, f.command)] = AnsweredAt(n, h)
  BY <1>1, <1>2, <1>3, <1>6, <1>8, <1>10
<1> QED  BY <1>9, <1>11 DEF i

(* The facts that a whole identification has gathered. *)
Gathered(h, f) ==
  [kind |-> IF ProfileOf[h[1].content] = "legacy" THEN "complete" ELSE "readOnlyComplete",
   version |-> h[3].content, board |-> f.content]

LEMMA AnsweredFields ==
  ASSUME NEW n \in 1 .. 4, NEW h
  PROVE  LET i == AnsweredAt(n, h)
         IN  /\ i.stage = Stages[n] /\ i.profile = ProfileAt(n, h)
             /\ i.variant = VariantAt(n) /\ i.version = VersionAt(n, h)
<1> DEFINE no == FALSE
           last == [outstanding |-> <<>>, last |-> Stages[n]]
           i == Ident(Stages[n], no, last, ProfileAt(n, h), VariantAt(n), VersionAt(n, h))
<1>1. i = AnsweredAt(n, h)
  BY DEF AnsweredAt
<1> HIDE DEF no, last
<1>2. /\ i.stage = Stages[n] /\ i.profile = ProfileAt(n, h)
      /\ i.variant = VariantAt(n) /\ i.version = VersionAt(n, h)
  BY DEF Ident
<1> HIDE DEF i
<1> QED  BY <1>1, <1>2

LEMMA FirstReply ==
  ASSUME NEW h, Led(h, 1), NEW f \in FramesOf("ApiVersion"), f.content # "unreadable",
         f.direction = "Reply"
  PROVE  LET came == AcceptApi(AnsweredAt(1, h), f.content)
         IN  \/ /\ came.result.kind = "pending" /\ Good(1, f)
                /\ came.i = IdentAt(2, Append(h, f), FALSE)
             \/ /\ came.result.kind = "apiScopeMismatch"
                /\ came.result.field \in {"protocol_version", "msp_api_version"}
                /\ f.content \notin DOMAIN ProfileOf
<1> DEFINE i == AnsweredAt(1, h)
           g == Append(h, f)
           came == AcceptApi(i, f.content)
<1> SUFFICES \/ /\ came.result.kind = "pending" /\ Good(1, f)
                /\ came.i = IdentAt(2, g, FALSE)
             \/ /\ came.result.kind = "apiScopeMismatch"
                /\ came.result.field \in {"protocol_version", "msp_api_version"}
                /\ f.content \notin DOMAIN ProfileOf
  OBVIOUS
<1>1. CASE f.content \in DOMAIN ProfileOf
  <2>1. Good(1, f)
    BY <1>1 DEF Good
  <2>2. g[1] = f
    <3>1. f \in FramesOf(Stages[1])
      BY StageNames
    <3>2. Extended(g, h, f, 1)
      BY <2>1, <3>1, LedFurther
    <3> QED  BY <3>2 DEF Extended
  <2> DEFINE no == FALSE
             last == [outstanding |-> <<>>, last |-> Stages[1]]
             in(stage, profile) == Ident(stage, no, last, profile, None, None)
             profile == ProfileOf[f.content]
  <2>3. i = in(Stages[1], None)
    BY DEF AnsweredAt, ProfileAt, VariantAt, VersionAt
  <2>4. in(Stages[2], profile) = IdentAt(2, g, FALSE)
    <3>1. /\ LastAt(2) = Stages[1] /\ ProfileAt(2, g) = profile
          /\ VariantAt(2) = None /\ VersionAt(2, g) = None
      BY <2>2 DEF LastAt, ProfileAt, VariantAt, VersionAt
    <3> HIDE DEF profile
    <3> QED  BY <3>1 DEF IdentAt
  <2> HIDE DEF no, last, profile
  <2>5. [in(Stages[1], None) EXCEPT !.profile = profile] = in(Stages[1], profile)
    BY DEF Ident
  <2>6. [in(Stages[1], profile) EXCEPT !.stage = "FcVariant"] = in(Stages[2], profile)
    BY StageNames DEF Ident
  <2> HIDE DEF in, i
  <2>7. [i EXCEPT !.profile = profile, !.stage = "FcVariant"] = IdentAt(2, g, FALSE)
    BY <2>3, <2>4, <2>5, <2>6
  <2>8. came = Progressed(IdentAt(2, g, FALSE), [kind |-> "pending"])
    BY <1>1, <2>7 DEF AcceptApi, profile
  <2> QED  BY <2>1, <2>8 DEF Progressed
<1>2. CASE f.content \notin DOMAIN ProfileOf
  BY <1>2 DEF AcceptApi, Progressed
<1> QED  BY <1>1, <1>2

LEMMA SecondReply ==
  ASSUME NEW h, Led(h, 2), NEW f \in FramesOf("FcVariant"), f.content # "unreadable",
         f.direction = "Reply"
  PROVE  LET came == AcceptVariant(AnsweredAt(2, h), f.content)
         IN  \/ /\ came.result.kind = "pending" /\ Good(2, f)
                /\ came.i = IdentAt(3, Append(h, f), FALSE)
             \/ /\ came.result.kind = "readProfileMismatch"
                /\ came.result.field = "fc_variant" /\ f.content # "BTFL"
<1> DEFINE i == AnsweredAt(2, h)
           g == Append(h, f)
           came == AcceptVariant(i, f.content)
           profile == ProfileOf[h[1].content]
<1> SUFFICES \/ /\ came.result.kind = "pending" /\ Good(2, f)
                /\ came.i = IdentAt(3, g, FALSE)
             \/ /\ came.result.kind = "readProfileMismatch"
                /\ came.result.field = "fc_variant" /\ f.content # "BTFL"
  OBVIOUS
<1>1. profile \in Profiles
  <2>1. h[1].content \in DOMAIN ProfileOf
    BY DEF Led
  <2> QED  BY <2>1 DEF ProfileOf, Profiles
<1>2. i.profile # None
  <2>1. i.profile = ProfileAt(2, h)
    BY AnsweredFields
  <2>2. ProfileAt(2, h) = profile
    BY DEF ProfileAt
  <2> HIDE DEF i, profile
  <2> QED  BY <1>1, <2>1, <2>2, NoneAssumption
<1>3. CASE f.content = "BTFL"
  <2>1. Good(2, f)
    BY <1>3 DEF Good
  <2>2. g[1] = h[1]
    <3>1. f \in FramesOf(Stages[2])
      BY StageNames
    <3>2. Extended(g, h, f, 2)
      BY <2>1, <3>1, LedFurther
    <3> QED  BY <3>2 DEF Extended
  <2> DEFINE no == FALSE
             last == [outstanding |-> <<>>, last |-> Stages[2]]
             in(stage, variant) == Ident(stage, no, last, profile, variant, None)
  <2>3. i = in(Stages[2], None)
    BY DEF AnsweredAt, ProfileAt, VariantAt, VersionAt
  <2>4. in(Stages[3], "BTFL") = IdentAt(3, g, FALSE)
    <3>1. /\ LastAt(3) = Stages[2] /\ ProfileAt(3, g) = profile
          /\ VariantAt(3) = "BTFL" /\ VersionAt(3, g) = None
      BY <2>2 DEF LastAt, ProfileAt, VariantAt, VersionAt
    <3> HIDE DEF profile
    <3> QED  BY <3>1 DEF IdentAt
  <2> HIDE DEF no, last, profile
  <2>5. [in(Stages[2], None) EXCEPT !.variant = "BTFL"] = in(Stages[2], "BTFL")
    BY DEF Ident
  <2>6. [in(Stages[2], "BTFL") EXCEPT !.stage = "FcVersion"] = in(Stages[3], "BTFL")
    BY StageNames DEF Ident
  <2> HIDE DEF in, i
  <2>7. [i EXCEPT !.variant = "BTFL", !.stage = "FcVersion"] = IdentAt(3, g, FALSE)
    BY <2>3, <2>4, <2>5, <2>6
  <2>8. came = Progressed(IdentAt(3, g, FALSE), [kind |-> "pending"])
    BY <1>2, <1>3, <2>7 DEF AcceptVariant
  <2> QED  BY <2>1, <2>8 DEF Progressed
<1>4. CASE f.content # "BTFL"
  BY <1>2, <1>4 DEF AcceptVariant, Progressed
<1> QED  BY <1>3, <1>4

LEMMA ThirdReply ==
  ASSUME NEW h, Led(h, 3), NEW f \in FramesOf("FcVersion"), f.content # "unreadable",
         f.direction = "Reply"
  PROVE  LET came == AcceptVersion(AnsweredAt(3, h), f.content)
         IN  /\ came.result.kind = "pending" /\ Good(3, f)
             /\ came.i = IdentAt(4, Append(h, f), FALSE)
<1> DEFINE i == AnsweredAt(3, h)
           g == Append(h, f)
           came == AcceptVersion(i, f.content)
           profile == ProfileOf[h[1].content]
<1> SUFFICES /\ came.result.kind = "pending" /\ Good(3, f)
             /\ came.i = IdentAt(4, g, FALSE)
  OBVIOUS
<1>1. profile \in Profiles
  <2>1. h[1].content \in DOMAIN ProfileOf
    BY DEF Led
  <2> QED  BY <2>1 DEF ProfileOf, Profiles
<1>2. i.profile # None /\ i.variant # None
  <2>1. i.profile = ProfileAt(3, h) /\ i.variant = VariantAt(3)
    BY AnsweredFields
  <2>2. ProfileAt(3, h) = profile /\ VariantAt(3) = "BTFL"
    BY DEF ProfileAt, VariantAt
  <2> HIDE DEF i, profile
  <2> QED  BY <1>1, <2>1, <2>2, NoneAssumption
<1>3. Good(3, f)
  BY DEF Good
<1>4. g[1] = h[1] /\ g[3] = f
  <2>1. f \in FramesOf(Stages[3])
    BY StageNames
  <2>2. Extended(g, h, f, 3)
    BY <1>3, <2>1, LedFurther
  <2> QED  BY <2>2 DEF Extended
<1> DEFINE no == FALSE
           last == [outstanding |-> <<>>, last |-> Stages[3]]
           in(stage, version) == Ident(stage, no, last, profile, "BTFL", version)
<1>5. i = in(Stages[3], None)
  BY DEF AnsweredAt, ProfileAt, VariantAt, VersionAt
<1>6. in(Stages[4], f.content) = IdentAt(4, g, FALSE)
  <2>1. /\ LastAt(4) = Stages[3] /\ ProfileAt(4, g) = profile
        /\ VariantAt(4) = "BTFL" /\ VersionAt(4, g) = f.content
    BY <1>4 DEF LastAt, ProfileAt, VariantAt, VersionAt
  <2> HIDE DEF profile
  <2> QED  BY <2>1 DEF IdentAt
<1> HIDE DEF no, last, profile
<1>7. [in(Stages[3], None) EXCEPT !.version = f.content] = in(Stages[3], f.content)
  BY DEF Ident
<1>8. [in(Stages[3], f.content) EXCEPT !.stage = "BoardInfo"] = in(Stages[4], f.content)
  BY StageNames DEF Ident
<1> HIDE DEF in, i
<1>9. [i EXCEPT !.version = f.content, !.stage = "BoardInfo"] = IdentAt(4, g, FALSE)
  BY <1>5, <1>6, <1>7, <1>8
<1>10. came = Progressed(IdentAt(4, g, FALSE), [kind |-> "pending"])
  BY <1>2, <1>9 DEF AcceptVersion
<1> QED  BY <1>3, <1>10 DEF Progressed

LEMMA LastReply ==
  ASSUME NEW h, Led(h, 4), NEW content
  PROVE  AcceptBoard(AnsweredAt(4, h), content).result
           = [kind |-> IF ProfileOf[h[1].content] = "legacy"
                       THEN "complete" ELSE "readOnlyComplete",
              version |-> h[3].content, board |-> content]
<1> DEFINE i == AnsweredAt(4, h)
           profile == ProfileOf[h[1].content]
<1>1. profile \in Profiles
  <2>1. h[1].content \in DOMAIN ProfileOf
    BY DEF Led
  <2> QED  BY <2>1 DEF ProfileOf, Profiles
<1>2. i.profile = profile /\ i.variant = "BTFL" /\ i.version = h[3].content
  BY AnsweredFields DEF ProfileAt, VariantAt, VersionAt
<1>3. h[3].content # None
  BY NoneAssumption DEF Led
<1>4. None \notin {i.profile, i.variant, i.version}
  BY <1>1, <1>2, <1>3, NoneAssumption
<1> HIDE DEF i, profile
<1>5. AcceptBoard(i, content).result
        = [kind |-> IF i.profile = "legacy" THEN "complete" ELSE "readOnlyComplete",
           version |-> i.version, board |-> content]
  BY <1>4 DEF AcceptBoard, Progressed
<1> QED  BY <1>2, <1>5 DEF i, profile

(* What an identification makes of its n-th reply. *)
Continues(n, h, f, came) ==
  /\ n < 4 /\ came.result.kind = "pending" /\ Good(n, f)
  /\ came.i = IdentAt(n + 1, Append(h, f), FALSE)

Ends(n, h, f, came) ==
  /\ n = 4 /\ f.direction = "Reply" /\ f.content # "unreadable"
  /\ came.result = Gathered(h, f)

(* The reply itself is no use: an MSP error, or nothing its decoder can read. *)
Useless(f) == f.direction = "Error" \/ f.content = "unreadable"

Fails(f, came) == came.result.kind = "error" /\ Useless(f)

(* It can be read, and what it says is outside what is supported. *)
Declines(n, f, came) ==
  /\ f.direction = "Reply" /\ f.content # "unreadable"
  /\ \/ /\ n = 1 /\ f.content \notin DOMAIN ProfileOf
        /\ came.result.kind = "apiScopeMismatch"
        /\ came.result.field \in {"protocol_version", "msp_api_version"}
     \/ /\ n = 2 /\ f.content # "BTFL"
        /\ came.result.kind = "readProfileMismatch"
        /\ came.result.field = "fc_variant"

LEMMA ReplyTaken ==
  ASSUME NEW n \in 1 .. 4, NEW h, Led(h, n), NEW f \in FramesOf(Stages[n])
  PROVE  LET came == AcceptResponse(IdentAt(n, h, TRUE), f)
         IN  \/ Continues(n, h, f, came) \/ Ends(n, h, f, came)
             \/ Declines(n, f, came) \/ Fails(f, came)
<1> DEFINE i == IdentAt(n, h, TRUE)
           came == AcceptResponse(i, f)
           answered == [i EXCEPT !.pending = FALSE,
                                 !.correlator = OnReply(@, f.command)]
           refusal == ResponseRefusal(i, f)
<1> SUFFICES \/ Continues(n, h, f, came) \/ Ends(n, h, f, came)
             \/ Declines(n, f, came) \/ Fails(f, came)
  OBVIOUS
<1>1. /\ f.command = Stages[n] /\ f.direction \in {"Reply", "Error"}
      /\ f.content \in Contents[Stages[n]]
  BY DEF FramesOf
<1>2. /\ refusal = IF f.direction = "Error" THEN "ErrorReply" ELSE "none"
      /\ answered = AnsweredAt(n, h)
  BY <1>1, Correlates
<1>3. i.stage = Stages[n]
  <2> DEFINE yes == TRUE
             one == [outstanding |-> IF yes THEN <<Stages[n]>> ELSE <<>>, last |-> LastAt(n)]
             same == Ident(Stages[n], yes, one, ProfileAt(n, h), VariantAt(n), VersionAt(n, h))
  <2>1. i = same
    BY DEF IdentAt
  <2> HIDE DEF yes, one
  <2>2. same.stage = Stages[n]
    BY DEF Ident
  <2> HIDE DEF same, i
  <2> QED  BY <2>1, <2>2
<1> HIDE DEF i
<1>4. CASE f.direction = "Error"
  <2>1. came = Progressed(AfterRefusal(i, f), Failing("ErrorReply"))
    BY <1>2, <1>4 DEF AcceptResponse
  <2> QED  BY <1>4, <2>1 DEF Fails, Useless, Progressed, Failing
<1>5. CASE f.direction = "Reply"
  <2>1. refusal = "none"
    BY <1>2, <1>5
  <2> HIDE DEF answered, refusal
  <2>2. came = CASE f.content = "unreadable" -> Progressed(answered, Failing("Payload"))
                 [] f.content # "unreadable" /\ i.stage = "ApiVersion" ->
                      AcceptApi(answered, f.content)
                 [] f.content # "unreadable" /\ i.stage = "FcVariant" ->
                      AcceptVariant(answered, f.content)
                 [] f.content # "unreadable" /\ i.stage = "FcVersion" ->
                      AcceptVersion(answered, f.content)
                 [] f.content # "unreadable" /\ i.stage = "BoardInfo" ->
                      AcceptBoard(answered, f.content)
    BY <2>1 DEF AcceptResponse, answered, refusal
  <2> HIDE DEF came
  <2>3. CASE f.content = "unreadable"
    <3>1. came = Progressed(answered, Failing("Payload"))
      BY <2>2, <2>3
    <3> QED  BY <2>3, <3>1 DEF Fails, Useless, Progressed, Failing
  <2>4. CASE f.content # "unreadable" /\ n = 1
    <3>1. came = AcceptApi(AnsweredAt(1, h), f.content)
      BY <1>2, <1>3, <2>2, <2>4, StageNames
    <3>2. Led(h, 1) /\ f \in FramesOf("ApiVersion")
      BY <2>4, StageNames
    <3>3. \/ /\ came.result.kind = "pending" /\ Good(1, f)
             /\ came.i = IdentAt(2, Append(h, f), FALSE)
          \/ /\ came.result.kind = "apiScopeMismatch"
             /\ came.result.field \in {"protocol_version", "msp_api_version"}
             /\ f.content \notin DOMAIN ProfileOf
      BY Zenon, <1>5, <2>4, <3>1, <3>2, FirstReply
    <3>4. n < 4 /\ n + 1 = 2
      BY <2>4
    <3>5. ASSUME came.result.kind = "pending", Good(1, f),
                 came.i = IdentAt(2, Append(h, f), FALSE)
          PROVE  Continues(n, h, f, came)
      BY Zenon, <2>4, <3>4, <3>5 DEF Continues
    <3>6. ASSUME came.result.kind = "apiScopeMismatch",
                 came.result.field \in {"protocol_version", "msp_api_version"},
                 f.content \notin DOMAIN ProfileOf
          PROVE  Declines(n, f, came)
      BY Zenon, <1>5, <2>4, <3>6 DEF Declines
    <3> QED  BY Zenon, <3>3, <3>5, <3>6
  <2>5. CASE f.content # "unreadable" /\ n = 2
    <3>1. came = AcceptVariant(AnsweredAt(2, h), f.content)
      BY <1>2, <1>3, <2>2, <2>5, StageNames
    <3>2. Led(h, 2) /\ f \in FramesOf("FcVariant")
      BY <2>5, StageNames
    <3>3. \/ /\ came.result.kind = "pending" /\ Good(2, f)
             /\ came.i = IdentAt(3, Append(h, f), FALSE)
          \/ /\ came.result.kind = "readProfileMismatch"
             /\ came.result.field = "fc_variant" /\ f.content # "BTFL"
      BY Zenon, <1>5, <2>5, <3>1, <3>2, SecondReply
    <3>4. n < 4 /\ n + 1 = 3
      BY <2>5
    <3>5. ASSUME came.result.kind = "pending", Good(2, f),
                 came.i = IdentAt(3, Append(h, f), FALSE)
          PROVE  Continues(n, h, f, came)
      BY Zenon, <2>5, <3>4, <3>5 DEF Continues
    <3>6. ASSUME came.result.kind = "readProfileMismatch",
                 came.result.field = "fc_variant", f.content # "BTFL"
          PROVE  Declines(n, f, came)
      BY Zenon, <1>5, <2>5, <3>6 DEF Declines
    <3> QED  BY Zenon, <3>3, <3>5, <3>6
  <2>6. CASE f.content # "unreadable" /\ n = 3
    <3>1. came = AcceptVersion(AnsweredAt(3, h), f.content)
      BY <1>2, <1>3, <2>2, <2>6, StageNames
    <3>2. Led(h, 3) /\ f \in FramesOf("FcVersion")
      BY <2>6, StageNames
    <3>3. /\ came.result.kind = "pending" /\ Good(3, f)
          /\ came.i = IdentAt(4, Append(h, f), FALSE)
      BY Zenon, <1>5, <2>6, <3>1, <3>2, ThirdReply
    <3> QED  BY <2>6, <3>3 DEF Continues
  <2>7. CASE f.content # "unreadable" /\ n = 4
    <3>1. came = AcceptBoard(AnsweredAt(4, h), f.content)
      BY <1>2, <1>3, <2>2, <2>7, StageNames
    <3> QED  BY <1>5, <2>7, <3>1, LastReply DEF Ends, Gathered
  <2> QED  BY <2>3, <2>4, <2>5, <2>6, <2>7
<1> QED  BY <1>1, <1>4, <1>5
-----------------------------------------------------------------------------
(* The calls. *)

NoIdentity(d) == d.outcome = None \/ d.outcome.kind \notin IdentityKinds

LEMMA FailureNamesNobody ==
  ASSUME NEW d, d.outcome \in Failures
  PROVE  NoIdentity(d) /\ d.outcome \in Outcomes /\ d.outcome.kind = "failed"
BY DEF NoIdentity, Failures, Outcomes, IdentityKinds

(* The machine closes after a failure. *)
GivesUp(call) ==
  IsClosing(call.d) /\ call.d.outcome \in Failures /\ call.answer.kind = "close"

(* It closes because of what the board is. *)
Rejects(n, f, call) ==
  /\ f.direction = "Reply" /\ f.content # "unreadable"
  /\ \/ /\ n = 1 /\ f.content \notin DOMAIN ProfileOf
        /\ call.d.outcome.kind = "api-unsupported"
     \/ /\ n = 2 /\ f.content # "BTFL"
        /\ call.d.outcome.kind = "read-profile-unsupported"
  /\ IsClosing(call.d) /\ call.d.outcome \in Outcomes /\ call.answer.kind = "close"

GoesOn(n, h, f, call) ==
  n < 4 /\ Led(Append(h, f), n + 1) /\ Asking(n + 1, Append(h, f), call)

FindsOut(n, h, f, call) ==
  /\ n = 4 /\ f.direction = "Reply" /\ f.content # "unreadable"
  /\ IsClosing(call.d) /\ call.d.outcome = OutcomeOf(Gathered(h, f))
  /\ call.answer.kind = "close"

(* A frame is taken: only a useless one is noted as something going wrong.   *)
Taken(n, h, f, d, call) ==
  \/ /\ GoesOn(n, h, f, call) \/ FindsOut(n, h, f, call) \/ Rejects(n, f, call)
     /\ Calm(d.trace, call.d.trace)
  \/ /\ GivesUp(call) /\ Useless(f)
     /\ Logs(d.trace, call.d.trace)

LEMMA WaitsForReply ==
  ASSUME NEW n \in 1 .. 4, NEW h
  PROVE  IdentAt(n, h, TRUE).pending /\ IdentAt(n, h, TRUE).stage = Stages[n]
<1> DEFINE yes == TRUE
           one == [outstanding |-> <<Stages[n]>>, last |-> LastAt(n)]
           i == Ident(Stages[n], yes, one, ProfileAt(n, h), VariantAt(n), VersionAt(n, h))
<1>1. i = IdentAt(n, h, TRUE)
  BY DEF IdentAt
<1> HIDE DEF yes, one
<1>2. i.pending = yes /\ i.stage = Stages[n]
  BY DEF Ident
<1> HIDE DEF i
<1>3. i.pending
  BY <1>2 DEF yes
<1> QED  BY Zenon, <1>1, <1>2, <1>3

(* Closing after an exchange, with what came of it. *)
Closing(d, new) ==
  LET call == StartClose([d EXCEPT !.outcome = new])
  IN  /\ IsClosing(call.d) /\ call.d.outcome = new /\ call.answer.kind = "close"
      /\ call.d.trace = d.trace

LEMMA ClosesWith ==
  ASSUME NEW m \in 3 .. 6, NEW f, NEW i, NEW a, NEW o, NEW t, NEW new
  PROVE  Closing(Machine(f, None, Idle(m), i, a, o, t), new)
<1>1. [Machine(f, None, Idle(m), i, a, o, t) EXCEPT !.outcome = new]
        = Machine(f, None, Idle(m), i, a, new, t)
  BY DEF Machine
<1>2. Machine(f, None, Idle(m), i, a, o, t).trace = t
  BY Fields
<1> QED  BY <1>1, <1>2, Closes DEF Closing

LEMMA FrameTaken ==
  ASSUME NEW n \in 1 .. 4, NEW h, Led(h, n), NEW f \in FramesOf(Stages[n]),
         NEW d, IsExchanging(d, n, h)
  PROVE  Taken(n, h, f, d, AcceptFrame(d, f))
<1> DEFINE call == AcceptFrame(d, f)
           ident == IdentAt(n, h, TRUE)
           stage == d.ident.stage
           kept == Consume(Traced(d, <<"FRAME_ACCEPTED", stage>>))
           answered == [kept EXCEPT !.accumulating = None]
           came == AcceptResponse(ident, f)
           result == came.result
           moved == [answered EXCEPT !.ident = came.i]
           passed == Traced(moved, <<"IDENTITY_STAGE_OK", stage>>)
           stopped == Traced(moved, <<"IDENTITY_STAGE_FAILED", stage>>)
           at(u) == Machine("Exchanging", None, Idle(n + 2), came.i, None, None, u)
           failure == FailedOutcome("ProtocolIdentityFailure",
                        [stage |-> stage, reason |-> ReasonOf(result.error)])
<1> SUFFICES Taken(n, h, f, d, call)
  OBVIOUS
<1>0. d = Machine("Exchanging", n + 1, Awaiting(n + 1, "exchange"), ident, Stages[n],
                  None, d.trace)
  BY Zenon DEF IsExchanging
<1>1. d.ident = ident
  <2> HIDE DEF ident
  <2> QED  BY <1>0, Fields
<1>s. stage = Stages[n]
  BY <1>1, WaitsForReply
<1>2. call = CASE result.kind = "pending" -> NextExchange(passed)
               [] result.kind = "error" -> StartClose([stopped EXCEPT !.outcome = failure])
               [] result.kind \notin {"pending", "error"} ->
                    StartClose([passed EXCEPT !.outcome = OutcomeOf(result)])
  <2> HIDE DEF ident, stage
  <2> QED  BY <1>1, Zenon DEF AcceptFrame, stage
<1> HIDE DEF call, stage
<1>e. /\ <<"FRAME_ACCEPTED", stage>> \in QuietEvents
      /\ <<"IDENTITY_STAGE_OK", stage>> \in QuietEvents
      /\ <<"IDENTITY_STAGE_FAILED", stage>> \in TraceEvents
  BY <1>s, StageNames DEF QuietEvents, TraceEvents
<1>3. \E v, w : /\ passed = at(v) /\ stopped = at(w)
               /\ Calm(d.trace, v) /\ Logs(d.trace, w)
  <2> DEFINE accepted == <<"FRAME_ACCEPTED", stage>>
             good == <<"IDENTITY_STAGE_OK", stage>>
             bad == <<"IDENTITY_STAGE_FAILED", stage>>
  <2>e. accepted \in QuietEvents /\ good \in QuietEvents /\ bad \in TraceEvents
    BY <1>e
  <2> HIDE DEF accepted, good, bad
  <2>1. PICK u : /\ Traced(d, accepted)
                      = Machine("Exchanging", n + 1, Awaiting(n + 1, "exchange"), ident,
                                Stages[n], None, u)
                 /\ Calm(d.trace, u)
    <3> HIDE DEF ident
    <3> QED  BY <1>0, <2>e, TracedMachine
  <2> HIDE DEF ident, came
  <2>2. kept = Machine("Exchanging", None, Idle(n + 2), ident, Stages[n], None, u)
    <3>1. n + 1 + 1 = n + 2
      OBVIOUS
    <3> QED  BY <2>1, <3>1, ConsumedMachine DEF accepted
  <2>3. answered = Machine("Exchanging", None, Idle(n + 2), ident, None, None, u)
    <3> HIDE DEF kept
    <3> QED  BY <2>2 DEF Machine
  <2>4. moved = Machine("Exchanging", None, Idle(n + 2), came.i, None, None, u)
    <3> HIDE DEF answered
    <3> QED  BY <2>3 DEF Machine
  <2> HIDE DEF moved
  <2>5. PICK v : Traced(moved, good) = at(v) /\ Calm(u, v)
    BY <2>e, <2>4, TracedMachine
  <2>6. PICK w : Traced(moved, bad) = at(w) /\ Logs(u, w)
    BY <2>e, <2>4, TracedMachine
  <2> QED  BY <2>1, <2>5, <2>6, Calmly DEF good, bad
<1>4. PICK v, w : /\ passed = at(v) /\ stopped = at(w)
                  /\ Calm(d.trace, v) /\ Logs(d.trace, w)
  BY <1>3
<1>t. \A u : at(u).trace = u
  <2> HIDE DEF came
  <2> QED  BY Fields
<1>5. \/ Continues(n, h, f, came) \/ Ends(n, h, f, came)
      \/ Declines(n, f, came) \/ Fails(f, came)
  <2> HIDE DEF ident
  <2> QED  BY ReplyTaken DEF ident
<1>6. n + 2 \in 3 .. 6
  OBVIOUS
<1> HIDE DEF came, passed, stopped, failure
<1>7. \A new, u : Closing(at(u), new)
  BY <1>6, ClosesWith
<1>8. CASE Continues(n, h, f, came)
  <2> DEFINE g == Append(h, f)
  <2>1. result.kind = "pending" /\ n + 1 \in 1 .. 4 /\ n + 1 + 1 = n + 2 /\ n < 4
    BY <1>8 DEF Continues
  <2>2. came.i = IdentAt(n + 1, g, FALSE)
    BY <1>8 DEF Continues
  <2>3. call = NextExchange(passed)
    BY <1>2, <2>1
  <2>4. passed = Machine("Exchanging", None, Idle(n + 1 + 1), IdentAt(n + 1, g, FALSE),
                         None, None, v)
    BY <1>4, <2>1, <2>2
  <2>5. Asking(n + 1, g, call) /\ Calm(v, call.d.trace)
    <3> HIDE DEF g
    <3> DEFINE k == n + 1
               next == NextExchange(Machine("Exchanging", None, Idle(k + 1),
                                             IdentAt(k, g, FALSE), None, None, v))
    <3>1. k \in 1 .. 4
      BY <2>1
    <3>2. call = next
      BY Zenon, <2>3, <2>4
    <3> HIDE DEF k
    <3>3. Asking(k, g, next) /\ Calm(v, next.d.trace)
      BY Zenon, <3>1, Asks
    <3> HIDE DEF next
    <3> QED  BY <3>2, <3>3 DEF k
  <2>6. Led(g, n + 1)
    BY <1>8, LedFurther DEF Continues
  <2>7. Calm(d.trace, call.d.trace)
    BY <1>4, <2>5, Calmly
  <2> QED  BY <2>1, <2>5, <2>6, <2>7 DEF GoesOn, Taken
<1>9. CASE Ends(n, h, f, came)
  <2>1. result = Gathered(h, f) /\ n = 4 /\ f.direction = "Reply" /\ f.content # "unreadable"
    BY <1>9 DEF Ends
  <2>2. result.kind \in {"complete", "readOnlyComplete"}
    BY <2>1 DEF Gathered
  <2>3. call = StartClose([at(v) EXCEPT !.outcome = OutcomeOf(result)])
    <3> HIDE DEF at
    <3> QED  BY <1>2, <1>4, <2>2
  <2> HIDE DEF at, result
  <2>4. /\ IsClosing(call.d) /\ call.d.outcome = OutcomeOf(result)
        /\ call.answer.kind = "close" /\ call.d.trace = v
    BY <1>7, <1>t, <2>3 DEF Closing
  <2> QED  BY <1>4, <2>1, <2>4 DEF FindsOut, Taken
<1>10. CASE Declines(n, f, came) \/ Fails(f, came)
  <2>1. CASE Fails(f, came)
    <3>0. result.kind = "error" /\ Useless(f)
      BY <2>1 DEF Fails
    <3>1. call = StartClose([at(w) EXCEPT !.outcome = failure])
      <4> HIDE DEF at
      <4> QED  BY <1>2, <1>4, <3>0
    <3> HIDE DEF at
    <3>2. /\ IsClosing(call.d) /\ call.d.outcome = failure /\ call.answer.kind = "close"
          /\ call.d.trace = w
      BY <1>7, <1>t, <3>1 DEF Closing
    <3>3. failure \in Failures
      <4>1. ReasonOf(result.error) \in FailureReasons
        <5> HIDE DEF result
        <5> QED  BY DEF ReasonOf, FailureReasons
      <4>2. stage \in ToSet(Stages)
        BY <1>s, StageNames
      <4> HIDE DEF result
      <4> QED  BY <4>1, <4>2 DEF failure, FailedOutcome, Failures, FailureClasses
    <3> QED  BY <1>4, <3>0, <3>2, <3>3 DEF GivesUp, Taken
  <2>2. CASE Declines(n, f, came)
    <3>0. result.kind \in {"apiScopeMismatch", "readProfileMismatch"}
      BY <2>2 DEF Declines
    <3>1. call = StartClose([at(v) EXCEPT !.outcome = OutcomeOf(result)])
      <4> HIDE DEF at
      <4> QED  BY <1>2, <1>4, <3>0
    <3>2. /\ result.kind = "apiScopeMismatch" =>
               OutcomeOf(result) = [kind |-> "api-unsupported", field |-> result.field]
          /\ result.kind = "readProfileMismatch" =>
               OutcomeOf(result) = [kind |-> "read-profile-unsupported", field |-> result.field]
      <4> HIDE DEF result
      <4> QED  BY DEF OutcomeOf
    <3>3. OutcomeOf(result) \in Outcomes
      <4>1. result.field \in {"protocol_version", "msp_api_version", "fc_variant"}
        BY <2>2 DEF Declines
      <4> HIDE DEF result
      <4> QED  BY <3>0, <3>2, <4>1 DEF Outcomes
    <3>4. /\ result.kind = "apiScopeMismatch" => OutcomeOf(result).kind = "api-unsupported"
          /\ result.kind = "readProfileMismatch" =>
               OutcomeOf(result).kind = "read-profile-unsupported"
      <4> HIDE DEF result
      <4> QED  BY <3>2
    <3>5. Declines(n, f, came)
      BY <2>2
    <3> DEFINE kind == result.kind
               outcome == OutcomeOf(result)
    <3>6. /\ f.direction = "Reply" /\ f.content # "unreadable"
          /\ \/ n = 1 /\ f.content \notin DOMAIN ProfileOf /\ kind = "apiScopeMismatch"
             \/ n = 2 /\ f.content # "BTFL" /\ kind = "readProfileMismatch"
      BY <3>5 DEF Declines
    <3>7. /\ kind = "apiScopeMismatch" => outcome.kind = "api-unsupported"
          /\ kind = "readProfileMismatch" => outcome.kind = "read-profile-unsupported"
      BY <3>4
    <3>8. outcome \in Outcomes
      BY <3>3
    <3> HIDE DEF at, kind, outcome
    <3>9. /\ IsClosing(call.d) /\ call.d.outcome = outcome
          /\ call.answer.kind = "close" /\ call.d.trace = v
      BY <1>7, <1>t, <3>1 DEF Closing, outcome
    <3>10. Rejects(n, f, call)
      BY <3>6, <3>7, <3>8, <3>9 DEF Rejects
    <3> QED  BY <1>4, <3>9, <3>10 DEF Taken
  <2> QED  BY <1>10, <2>1, <2>2
<1> QED  BY <1>5, <1>8, <1>9, <1>10

(* Where a call finds the machine. *)
LEMMA Places ==
  ASSUME NEW d
  PROVE  /\ IsReady(d) => d.phase = "Ready"
         /\ IsOpening(d) => d.phase = "Opening" /\ d.pendingId = 1
         /\ \A n, h : IsExchanging(d, n, h) =>
              d.phase = "Exchanging" /\ d.pendingId = n + 1 /\ d.accumulating = Stages[n]
         /\ IsClosing(d) => d.phase = "Closing" /\ d.accumulating = None
         /\ IsComplete(d) => d.phase = "Complete" /\ d.accumulating = None
<1>1. IsReady(d) => d.phase = "Ready"
  BY Fields DEF IsReady
<1>2. IsOpening(d) => d.phase = "Opening" /\ d.pendingId = 1
  BY Fields DEF IsOpening
<1>3. ASSUME NEW n, NEW h, IsExchanging(d, n, h)
      PROVE  d.phase = "Exchanging" /\ d.pendingId = n + 1 /\ d.accumulating = Stages[n]
  <2> DEFINE i == IdentAt(n, h, TRUE)
  <2>1. d = Machine("Exchanging", n + 1, Awaiting(n + 1, "exchange"), i, Stages[n], None,
                    d.trace)
    BY Zenon, <1>3 DEF IsExchanging
  <2> HIDE DEF i
  <2> QED  BY <2>1, Fields
<1>4. IsClosing(d) => d.phase = "Closing" /\ d.accumulating = None
  BY Fields DEF IsClosing
<1>5. IsComplete(d) => d.phase = "Complete" /\ d.accumulating = None
  BY Fields DEF IsComplete
<1> QED  BY <1>1, <1>2, <1>3, <1>4, <1>5

LEMMA Awaited ==
  ASSUME NEW m \in 1 .. 6, NEW kind \in TransportKinds
  PROVE  /\ Answers(Awaiting(m, kind), [id |-> m, kind |-> kind])
         /\ CanCancel(Awaiting(m, kind), m)
         /\ Awaiting(m, kind).awaited # None
<1>1. [id |-> m, kind |-> kind] \in Requests(TransportKinds)
  BY IdsAssumption, RequestIdAssumption DEF Requests
<1>2. [id |-> m, kind |-> kind] # None
  BY <1>1, NoneAssumption
<1> QED  BY <1>2 DEF Answers, CanCancel, Awaiting

Refuses(d, call) == call.d = d /\ call.answer.kind = "refused"

LEMMA Refusing ==
  ASSUME NEW d
  PROVE  Refuses(d, RefusedCall(d))
BY DEF Refuses, RefusedCall, Answered

Rests(call) == IsComplete(call.d) /\ call.answer.kind = "none"

(* A machine that consumes an answer and is done. *)
Ended(d) == NoDirective([Consume(d) EXCEPT !.phase = "Complete"])

Failed(d, new) == NoDirective([Consume(d) EXCEPT !.outcome = new, !.phase = "Complete"])

LEMMA Finishes ==
  ASSUME NEW m \in 1 .. 6, NEW kind, NEW f, NEW i, NEW o, NEW t, NEW new
  PROVE  LET d == Machine(f, m, Awaiting(m, kind), i, None, o, t)
         IN  /\ Rests(Ended(d)) /\ Ended(d).d.outcome = o /\ Ended(d).d.trace = t
             /\ Rests(Failed(d, new)) /\ Failed(d, new).d.outcome = new
             /\ Failed(d, new).d.trace = t
<1> DEFINE d == Machine(f, m, Awaiting(m, kind), i, None, o, t)
           at(phase, outcome) == Machine(phase, None, Idle(m + 1), i, None, outcome, t)
<1>1. Consume(d) = at(f, o)
  BY ConsumedMachine
<1>2. [at(f, o) EXCEPT !.phase = "Complete"] = at("Complete", o)
  BY DEF Machine
<1>3. [at(f, o) EXCEPT !.outcome = new] = at(f, new)
  BY DEF Machine
<1>4. [at(f, new) EXCEPT !.phase = "Complete"] = at("Complete", new)
  BY DEF Machine
<1>5. \A outcome : /\ IsComplete(at("Complete", outcome))
                   /\ at("Complete", outcome).outcome = outcome
                   /\ at("Complete", outcome).trace = t
  <2> SUFFICES ASSUME NEW outcome
               PROVE  /\ IsComplete(at("Complete", outcome))
                      /\ at("Complete", outcome).outcome = outcome
                      /\ at("Complete", outcome).trace = t
    OBVIOUS
  <2>1. /\ at("Complete", outcome).outcome = outcome /\ at("Complete", outcome).ident = i
        /\ at("Complete", outcome).trace = t
    BY Fields
  <2>2. m + 1 \in 2 .. 7
    OBVIOUS
  <2> QED  BY <2>1, <2>2 DEF IsComplete
<1> HIDE DEF d, at
<1>6. /\ [Consume(d) EXCEPT !.phase = "Complete"] = at("Complete", o)
      /\ [Consume(d) EXCEPT !.outcome = new, !.phase = "Complete"] = at("Complete", new)
  BY <1>1, <1>2, <1>3, <1>4
<1>7. \A e : NoDirective(e).d = e /\ NoDirective(e).answer.kind = "none"
  BY DEF NoDirective, Answered
<1> QED  BY <1>5, <1>6, <1>7 DEF Rests, Ended, Failed, d

(* The machine is done, with a failure. *)
EndsFailed(d, call) ==
  Rests(call) /\ call.d.outcome \in Failures /\ call.d.trace = d.trace

LEMMA LabelledFailures ==
  /\ \A label \in TransportFailures : FailedOutcome(label, None) \in Failures
  /\ FailedOutcome("CloseFailure", None) \in Failures
BY DEF FailedOutcome, Failures, FailureClasses

LEMMA BeginOpenCalled ==
  ASSUME NEW d, d.phase # "Ready"
  PROVE  Refuses(d, BeginOpen(d))
BY Refusing DEF BeginOpen

LEMMA OpenOkCalled ==
  ASSUME NEW d, NEW id, d.phase = "Opening" => IsOpening(d)
  PROVE  LET call == AcceptOpenOk(d, id)
         IN  \/ Refuses(d, call) /\ ~Pending(d, id, "Opening")
             \/ IsOpening(d) /\ Asking(1, <<>>, call) /\ Calm(d.trace, call.d.trace)
<1> DEFINE call == AcceptOpenOk(d, id)
<1> SUFFICES \/ Refuses(d, call) /\ ~Pending(d, id, "Opening")
             \/ IsOpening(d) /\ Asking(1, <<>>, call) /\ Calm(d.trace, call.d.trace)
  OBVIOUS
<1>1. CASE ~Pending(d, id, "Opening")
  BY <1>1, Refusing DEF AcceptOpenOk
<1>2. CASE Pending(d, id, "Opening")
  <2> DEFINE new == IdentAt(1, <<>>, FALSE)
             opened == Machine("Opening", None, Idle(1 + 1), new, None, None, d.trace)
  <2>0. IsOpening(d)
    BY <1>2 DEF Pending
  <2>1. new = NewIdentification
    <3>1. Stages[1] = "ApiVersion"
      BY StageNames
    <3> QED  BY <3>1 DEF IdentAt, Ident, NewIdentification, NewCorrelator, LastAt, ProfileAt,
                         VariantAt, VersionAt
  <2>2. Consume(d) = opened
    <3> HIDE DEF new
    <3> QED  BY <2>0, <2>1, ConsumedMachine DEF IsOpening
  <2>3. AnswerAccepted(d, "open")
    <3>1. d.coordinator = Awaiting(1, "open") /\ d.pendingId = 1
      BY <2>0, Fields DEF IsOpening
    <3> QED  BY <3>1, Awaited DEF AnswerAccepted, TransportKinds
  <2> HIDE DEF opened
  <2>4. call = NextExchange(opened)
    BY <1>2, <2>2, <2>3 DEF AcceptOpenOk
  <2> HIDE DEF call
  <2>5. Asking(1, <<>>, NextExchange(opened)) /\ Calm(d.trace, NextExchange(opened).d.trace)
    <3>1. 1 \in 1 .. 4
      OBVIOUS
    <3> QED  BY Zenon, <3>1, Asks DEF opened
  <2> QED  BY <2>0, <2>4, <2>5
<1> QED  BY <1>1, <1>2

LEMMA OpenErrCalled ==
  ASSUME NEW d, NEW id, NEW label, d.phase = "Opening" => IsOpening(d)
  PROVE  LET call == AcceptOpenErr(d, id, label)
         IN  \/ /\ Refuses(d, call)
                /\ ~Pending(d, id, "Opening") \/ label \notin TransportFailures
             \/ IsOpening(d) /\ EndsFailed(d, call)
<1> DEFINE call == AcceptOpenErr(d, id, label)
           new == FailedOutcome(label, None)
<1> SUFFICES \/ /\ Refuses(d, call)
                /\ ~Pending(d, id, "Opening") \/ label \notin TransportFailures
             \/ IsOpening(d) /\ EndsFailed(d, call)
  OBVIOUS
<1>1. label \in TransportFailures => new \in Failures
  BY LabelledFailures
<1>a. IsOpening(d) => AnswerAccepted(d, "open")
  <2>1. IsOpening(d) => d.coordinator = Awaiting(1, "open") /\ d.pendingId = 1
    BY Fields DEF IsOpening
  <2> QED  BY <2>1, Awaited DEF AnswerAccepted, TransportKinds
<1>b. Pending(d, id, "Opening") => IsOpening(d)
  BY DEF Pending
<1>2. \/ /\ call = RefusedCall(d)
         /\ ~Pending(d, id, "Opening") \/ label \notin TransportFailures
      \/ /\ Pending(d, id, "Opening") /\ label \in TransportFailures
         /\ call = Failed(d, new)
  BY Zenon, <1>a, <1>b DEF AcceptOpenErr, Failed
<1> HIDE DEF call, new
<1>3. CASE /\ call = RefusedCall(d)
           /\ ~Pending(d, id, "Opening") \/ label \notin TransportFailures
  BY <1>3, Refusing
<1>4. CASE /\ Pending(d, id, "Opening") /\ label \in TransportFailures
           /\ call = Failed(d, new)
  <2> DEFINE o == Machine("Opening", 1, Awaiting(1, "open"), NewIdentification, None, None,
                          d.trace)
  <2>1. IsOpening(d)
    BY <1>4 DEF Pending
  <2>2. d = o
    BY <2>1 DEF IsOpening
  <2>3. /\ Rests(Failed(o, new)) /\ Failed(o, new).d.outcome = new
        /\ Failed(o, new).d.trace = d.trace
    BY Finishes
  <2> HIDE DEF o
  <2> QED  BY <1>1, <1>4, <2>1, <2>2, <2>3 DEF EndsFailed
<1> QED  BY <1>2, <1>3, <1>4
LEMMA OutsideExchange ==
  ASSUME NEW d, NEW id, d.phase # "Exchanging"
  PROVE  /\ \A chunk : Refuses(d, AcceptChunk(d, id, chunk))
         /\ \A label : Refuses(d, AcceptExchangeErr(d, id, label))
<1>1. ~Pending(d, id, "Exchanging")
  BY DEF Pending
<1>2. \A chunk : AcceptChunk(d, id, chunk) = RefusedCall(d)
  BY <1>1 DEF AcceptChunk
<1>3. \A label : AcceptExchangeErr(d, id, label) = RefusedCall(d)
  BY <1>1 DEF AcceptExchangeErr
<1> QED  BY <1>2, <1>3, Refusing

(* What the consumed answer to an exchange leaves, whatever was traced. *)
LEMMA ExchangeOver ==
  ASSUME NEW n \in 1 .. 4, NEW h, NEW t, NEW new
  PROVE  LET d == Machine("Exchanging", n + 1, Awaiting(n + 1, "exchange"),
                          IdentAt(n, h, TRUE), Stages[n], None, t)
         IN  /\ Closing(Consume(d), new) /\ Consume(d).trace = d.trace
             /\ AnswerAccepted(d, "exchange") /\ CanCancel(d.coordinator, d.pendingId)
<1> DEFINE i == IdentAt(n, h, TRUE)
           m == n + 1
           d == Machine("Exchanging", m, Awaiting(m, "exchange"), i, Stages[n], None, t)
<1> HIDE DEF i
<1>1. m \in 1 .. 6 /\ m + 1 \in 3 .. 6
  OBVIOUS
<1> HIDE DEF m
<1>2. Consume(d) = Machine("Exchanging", None, Idle(m + 1), i, Stages[n], None, t)
  BY ConsumedMachine
<1>3. Closing(Consume(d), new)
  BY <1>1, <1>2, ClosesWith
<1>4. d.coordinator = Awaiting(m, "exchange") /\ d.pendingId = m
  BY Fields
<1>6. Consume(d).trace = d.trace
  BY <1>2, Fields
<1> HIDE DEF d
<1>5. AnswerAccepted(d, "exchange") /\ CanCancel(d.coordinator, d.pendingId)
  BY <1>1, <1>4, Awaited DEF AnswerAccepted, TransportKinds
<1> QED  BY Zenon, <1>3, <1>5, <1>6 DEF d, i, m

LEMMA ExchangeEnds ==
  ASSUME NEW n \in 1 .. 4, NEW h, NEW d, IsExchanging(d, n, h), NEW new
  PROVE  /\ Closing(Consume(d), new) /\ AnswerAccepted(d, "exchange")
         /\ Consume(d).trace = d.trace
<1> DEFINE t == d.trace
           e == Machine("Exchanging", n + 1, Awaiting(n + 1, "exchange"),
                        IdentAt(n, h, TRUE), Stages[n], None, t)
<1>1. d = e
  BY Zenon DEF IsExchanging
<1> HIDE DEF t
<1>2. Closing(Consume(e), new) /\ Consume(e).trace = e.trace
  BY Zenon, ExchangeOver
<1>3. AnswerAccepted(e, "exchange")
  BY Zenon, ExchangeOver
<1> HIDE DEF e
<1> QED  BY <1>1, <1>2, <1>3

LEMMA ExchangeErrCalled ==
  ASSUME NEW n \in 1 .. 4, NEW h, NEW d, IsExchanging(d, n, h), NEW id, NEW label
  PROVE  LET call == AcceptExchangeErr(d, id, label)
         IN  \/ /\ Refuses(d, call)
                /\ ~Pending(d, id, "Exchanging") \/ label \notin TransportFailures
             \/ GivesUp(call) /\ call.d.trace = d.trace
<1> DEFINE call == AcceptExchangeErr(d, id, label)
           new == FailedOutcome(label, None)
<1> SUFFICES \/ /\ Refuses(d, call)
                /\ ~Pending(d, id, "Exchanging") \/ label \notin TransportFailures
             \/ GivesUp(call) /\ call.d.trace = d.trace
  OBVIOUS
<1>1. label \in TransportFailures => new \in Failures
  BY LabelledFailures
<1>2. Closing(Consume(d), new) /\ AnswerAccepted(d, "exchange") /\ Consume(d).trace = d.trace
  BY Zenon, ExchangeEnds
<1>3. \/ /\ call = RefusedCall(d)
         /\ ~Pending(d, id, "Exchanging") \/ label \notin TransportFailures
      \/ /\ label \in TransportFailures
         /\ call = StartClose([Consume(d) EXCEPT !.outcome = new])
  BY Zenon, <1>2 DEF AcceptExchangeErr
<1> HIDE DEF call, new
<1>4. CASE /\ call = RefusedCall(d)
           /\ ~Pending(d, id, "Exchanging") \/ label \notin TransportFailures
  BY <1>4, Refusing
<1>5. CASE /\ label \in TransportFailures
           /\ call = StartClose([Consume(d) EXCEPT !.outcome = new])
  BY <1>1, <1>2, <1>5 DEF Closing, GivesUp
<1> QED  BY <1>3, <1>4, <1>5

LEMMA PartCalled ==
  ASSUME NEW n \in 1 .. 4, NEW h, NEW d, IsExchanging(d, n, h), NEW id
  PROVE  LET call == AcceptChunk(d, id, [kind |-> "more"])
         IN  \/ Refuses(d, call) /\ ~Pending(d, id, "Exchanging")
             \/ call.d = d /\ call.answer.kind = "none"
<1> DEFINE chunk == [kind |-> "more"]
           call == AcceptChunk(d, id, chunk)
<1>1. chunk.kind = "more"
  OBVIOUS
<1> HIDE DEF chunk
<1>p. d.accumulating # None
  BY Places, StageNames
<1>2. (call = RefusedCall(d) /\ ~Pending(d, id, "Exchanging")) \/ call = NoDirective(d)
  BY <1>1, <1>p, Zenon DEF AcceptChunk
<1> HIDE DEF call
<1>3. NoDirective(d).d = d /\ NoDirective(d).answer.kind = "none"
  BY DEF NoDirective, Answered
<1>4. \/ Refuses(d, call) /\ ~Pending(d, id, "Exchanging")
      \/ call.d = d /\ call.answer.kind = "none"
  BY <1>2, <1>3, Refusing
<1> QED  BY <1>4 DEF call, chunk

LEMMA MalformedCalled ==
  ASSUME NEW n \in 1 .. 4, NEW h, NEW d, IsExchanging(d, n, h), NEW id,
         NEW reason \in FailureReasons
  PROVE  LET call == AcceptChunk(d, id, [kind |-> "malformed", reason |-> reason])
         IN  \/ Refuses(d, call) /\ ~Pending(d, id, "Exchanging")
             \/ GivesUp(call) /\ Logs(d.trace, call.d.trace)
<1> DEFINE chunk == [kind |-> "malformed", reason |-> reason]
           call == AcceptChunk(d, id, chunk)
           i == IdentAt(n, h, TRUE)
           event == <<"FRAME_REJECTED", d.ident.stage>>
           diagnostic == [stage |-> d.ident.stage, reason |-> chunk.reason]
           new == FailedOutcome("MalformedResponse", diagnostic)
           traced == Traced(d, event)
<1>1. chunk.kind = "malformed" /\ chunk.reason = reason
  OBVIOUS
<1>2. d.ident.stage \in ToSet(Stages) /\ d.accumulating # None
  <2>1. d = Machine("Exchanging", n + 1, Awaiting(n + 1, "exchange"), i, Stages[n], None,
                    d.trace)
    BY Zenon DEF IsExchanging
  <2>2. i.stage = Stages[n]
    BY WaitsForReply
  <2> HIDE DEF i
  <2>3. d.ident = i /\ d.accumulating = Stages[n]
    BY <2>1, Fields
  <2> QED  BY <2>2, <2>3, StageNames
<1>3. new \in Failures
  BY <1>2 DEF FailedOutcome, Failures, FailureClasses
<1>4. event \in TraceEvents
  BY <1>2 DEF TraceEvents
<1> HIDE DEF chunk
<1>5. \/ call = RefusedCall(d) /\ ~Pending(d, id, "Exchanging")
      \/ call = FailExchange(traced, "MalformedResponse", diagnostic)
  BY <1>1, <1>2, Zenon DEF AcceptChunk
<1>6. PICK u : /\ traced = Machine("Exchanging", n + 1, Awaiting(n + 1, "exchange"), i,
                                   Stages[n], None, u)
               /\ Logs(d.trace, u)
  <2>1. d = Machine("Exchanging", n + 1, Awaiting(n + 1, "exchange"), i, Stages[n], None,
                    d.trace)
    BY Zenon DEF IsExchanging
  <2> HIDE DEF i, event
  <2> QED  BY <1>4, <2>1, TracedMachine
<1>7. /\ Closing(Consume(traced), new) /\ CanCancel(traced.coordinator, traced.pendingId)
      /\ Consume(traced).trace = traced.trace
  <2> HIDE DEF traced, new
  <2> QED  BY Zenon, <1>6, ExchangeOver
<1>8. traced.trace = u
  <2> HIDE DEF traced, i
  <2> QED  BY <1>6, Fields
<1> HIDE DEF traced, diagnostic
<1>9. FailExchange(traced, "MalformedResponse", diagnostic)
        = StartClose([Consume(traced) EXCEPT !.outcome = new])
  BY <1>7 DEF FailExchange
<1> HIDE DEF new, call
<1>10. \/ Refuses(d, call) /\ ~Pending(d, id, "Exchanging")
       \/ GivesUp(call) /\ Logs(d.trace, call.d.trace)
  BY <1>3, <1>5, <1>6, <1>7, <1>8, <1>9, Refusing DEF Closing, GivesUp
<1> QED  BY <1>10 DEF call, chunk

LEMMA FrameCalled ==
  ASSUME NEW n \in 1 .. 4, NEW h, Led(h, n), NEW f \in FramesOf(Stages[n]),
         NEW d, IsExchanging(d, n, h), NEW id
  PROVE  LET call == AcceptChunk(d, id, [kind |-> "frame", frame |-> f])
         IN  \/ Refuses(d, call) /\ ~Pending(d, id, "Exchanging")
             \/ Taken(n, h, f, d, call)
<1> DEFINE chunk == [kind |-> "frame", frame |-> f]
           call == AcceptChunk(d, id, chunk)
<1>1. chunk.kind = "frame" /\ chunk.frame = f
  OBVIOUS
<1> HIDE DEF chunk
<1>p. d.accumulating # None
  BY Places, StageNames
<1>a. AnswerAccepted(d, "exchange")
  BY Zenon, ExchangeEnds
<1>2. \/ call = RefusedCall(d) /\ ~Pending(d, id, "Exchanging")
      \/ call = AcceptFrame(d, f)
  BY <1>1, <1>p, <1>a, Zenon DEF AcceptChunk
<1> HIDE DEF call
<1>3. CASE call = RefusedCall(d) /\ ~Pending(d, id, "Exchanging")
  BY <1>3, Refusing DEF call, chunk
<1>4. CASE call = AcceptFrame(d, f)
  BY Zenon, <1>4, FrameTaken DEF call, chunk
<1> QED  BY <1>2, <1>3, <1>4

LEMMA CloseAccepted ==
  ASSUME NEW d, IsClosing(d)
  PROVE  AnswerAccepted(d, "close")
<1>1. PICK m \in 3 .. 6 :
        d = Machine("Closing", m, Awaiting(m, "close"), d.ident, None, d.outcome, d.trace)
  BY DEF IsClosing
<1>2. d.coordinator = Awaiting(m, "close") /\ d.pendingId = m /\ m \in 1 .. 6
  BY <1>1, Fields
<1> QED  BY <1>2, Awaited DEF AnswerAccepted, TransportKinds

LEMMA CloseCalled ==
  ASSUME NEW d, NEW id, d.phase = "Closing" => IsClosing(d)
  PROVE  LET call == AcceptCloseOk(d, id)
         IN  \/ Refuses(d, call) /\ ~Pending(d, id, "Closing")
             \/ /\ IsClosing(d) /\ Rests(call)
                /\ call.d.outcome = d.outcome /\ call.d.trace = d.trace
<1> DEFINE call == AcceptCloseOk(d, id)
<1> SUFFICES \/ Refuses(d, call) /\ ~Pending(d, id, "Closing")
             \/ /\ IsClosing(d) /\ Rests(call)
                /\ call.d.outcome = d.outcome /\ call.d.trace = d.trace
  OBVIOUS
<1>1. CASE ~Pending(d, id, "Closing")
  BY <1>1, Refusing DEF AcceptCloseOk
<1>2. CASE Pending(d, id, "Closing")
  <2>1. IsClosing(d)
    BY <1>2 DEF Pending
  <2>2. PICK m \in 3 .. 6 :
          d = Machine("Closing", m, Awaiting(m, "close"), d.ident, None, d.outcome, d.trace)
    BY <2>1 DEF IsClosing
  <2>3. m \in 1 .. 6
    OBVIOUS
  <2>4. Rests(Ended(d)) /\ Ended(d).d.outcome = d.outcome /\ Ended(d).d.trace = d.trace
    BY <2>2, <2>3, Finishes
  <2>5. AnswerAccepted(d, "close")
    BY <2>1, CloseAccepted
  <2>6. call = Ended(d)
    BY <1>2, <2>5, Zenon DEF AcceptCloseOk, Ended
  <2> HIDE DEF call
  <2> QED  BY <2>1, <2>4, <2>6
<1> QED  BY <1>1, <1>2

LEMMA CloseErrCalled ==
  ASSUME NEW d, NEW id, NEW label, d.phase = "Closing" => IsClosing(d)
  PROVE  LET call == AcceptCloseErr(d, id, label)
         IN  \/ /\ Refuses(d, call)
                /\ ~Pending(d, id, "Closing") \/ label \notin TransportFailures
             \/ IsClosing(d) /\ EndsFailed(d, call)
<1> DEFINE call == AcceptCloseErr(d, id, label)
           new == FailedOutcome("CloseFailure", None)
<1> SUFFICES \/ /\ Refuses(d, call)
                /\ ~Pending(d, id, "Closing") \/ label \notin TransportFailures
             \/ IsClosing(d) /\ EndsFailed(d, call)
  OBVIOUS
<1>1. CASE ~Pending(d, id, "Closing") \/ label \notin TransportFailures
  BY <1>1, Refusing DEF AcceptCloseErr
<1>2. CASE Pending(d, id, "Closing") /\ label \in TransportFailures
  <2>1. IsClosing(d)
    BY <1>2 DEF Pending
  <2>2. PICK m \in 3 .. 6 :
          d = Machine("Closing", m, Awaiting(m, "close"), d.ident, None, d.outcome, d.trace)
    BY <2>1 DEF IsClosing
  <2>3. m \in 1 .. 6 /\ new \in Failures
    BY LabelledFailures
  <2>5. AnswerAccepted(d, "close")
    BY <2>1, CloseAccepted
  <2>6. call = Failed(d, new)
    BY <1>2, <2>5, Zenon DEF AcceptCloseErr, Failed
  <2> HIDE DEF call, new
  <2>4. /\ Rests(Failed(d, new)) /\ Failed(d, new).d.outcome = new
        /\ Failed(d, new).d.trace = d.trace
    BY <2>2, <2>3, Finishes
  <2> QED  BY <2>1, <2>3, <2>4, <2>6 DEF EndsFailed
<1> QED  BY <1>1, <1>2

Retraced(d, u) == [d EXCEPT !.trace = u]

(* Reading the trace moves nothing else. *)
LEMMA TraceRead ==
  ASSUME NEW d, NEW u
  PROVE  /\ IsReady(d) => IsReady(Retraced(d, u))
         /\ IsOpening(d) => IsOpening(Retraced(d, u))
         /\ \A n, h : IsExchanging(d, n, h) => IsExchanging(Retraced(d, u), n, h)
         /\ IsClosing(d) => IsClosing(Retraced(d, u)) /\ Retraced(d, u).outcome = d.outcome
         /\ IsComplete(d) => IsComplete(Retraced(d, u)) /\ Retraced(d, u).outcome = d.outcome
         /\ IsOpening(d) \/ IsClosing(d) => Retraced(d, u).trace = u
         /\ \A n, h : IsExchanging(d, n, h) => Retraced(d, u).trace = u
<1>1. Retraced(d, u) = [d EXCEPT !.trace = u]
  BY DEF Retraced
<1>2. ASSUME NEW f, NEW p, NEW c, NEW i, NEW a, NEW o,
             d = Machine(f, p, c, i, a, o, d.trace)
      PROVE  /\ Retraced(d, u) = Machine(f, p, c, i, a, o, u)
             /\ Retraced(d, u).trace = u
  <2>1. [Machine(f, p, c, i, a, o, d.trace) EXCEPT !.trace = u] = Machine(f, p, c, i, a, o, u)
    BY DEF Machine
  <2> QED  BY <1>1, <1>2, <2>1, Fields
<1>3. IsReady(d) => IsReady(Retraced(d, u))
  BY <1>2, Fields DEF IsReady
<1>4. IsOpening(d) => IsOpening(Retraced(d, u)) /\ Retraced(d, u).trace = u
  BY <1>2, Fields DEF IsOpening
<1>5. ASSUME NEW n, NEW h, IsExchanging(d, n, h)
      PROVE  IsExchanging(Retraced(d, u), n, h) /\ Retraced(d, u).trace = u
  <2> DEFINE i == IdentAt(n, h, TRUE)
             at(t) == Machine("Exchanging", n + 1, Awaiting(n + 1, "exchange"), i,
                              Stages[n], None, t)
  <2>1. d = at(d.trace)
    BY Zenon, <1>5 DEF IsExchanging
  <2> HIDE DEF i
  <2>2. Retraced(d, u) = at(u) /\ at(u).trace = u
    BY <1>2, <2>1, Fields
  <2>3. Retraced(d, u) = at(Retraced(d, u).trace)
    BY <2>2
  <2> QED  BY Zenon, <2>2, <2>3 DEF IsExchanging, i
<1>6. IsClosing(d) => /\ IsClosing(Retraced(d, u)) /\ Retraced(d, u).outcome = d.outcome
                      /\ Retraced(d, u).trace = u
  <2> SUFFICES ASSUME IsClosing(d)
               PROVE  /\ IsClosing(Retraced(d, u)) /\ Retraced(d, u).outcome = d.outcome
                      /\ Retraced(d, u).trace = u
    OBVIOUS
  <2>1. PICK m \in 3 .. 6 :
          d = Machine("Closing", m, Awaiting(m, "close"), d.ident, None, d.outcome, d.trace)
    BY DEF IsClosing
  <2> DEFINE e == Machine("Closing", m, Awaiting(m, "close"), d.ident, None, d.outcome, u)
  <2>2. Retraced(d, u) = e
    BY <1>2, <2>1
  <2>3. e.ident = d.ident /\ e.outcome = d.outcome /\ e.trace = u
    BY Fields
  <2> QED  BY <2>2, <2>3 DEF IsClosing
<1>7. IsComplete(d) => IsComplete(Retraced(d, u)) /\ Retraced(d, u).outcome = d.outcome
  <2> SUFFICES ASSUME IsComplete(d)
               PROVE  IsComplete(Retraced(d, u)) /\ Retraced(d, u).outcome = d.outcome
    OBVIOUS
  <2>1. PICK m \in 2 .. 7 :
          d = Machine("Complete", None, Idle(m), d.ident, None, d.outcome, d.trace)
    BY DEF IsComplete
  <2> DEFINE e == Machine("Complete", None, Idle(m), d.ident, None, d.outcome, u)
  <2>2. Retraced(d, u) = e
    BY <1>2, <2>1
  <2>3. e.ident = d.ident /\ e.outcome = d.outcome /\ e.trace = u
    BY Fields
  <2> QED  BY <2>2, <2>3 DEF IsComplete
<1> QED  BY <1>3, <1>4, <1>5, <1>6, <1>7

LEMMA TraceTaken ==
  ASSUME NEW d
  PROVE  /\ IsReady(d) => IsReady(TakeTrace(d))
         /\ IsOpening(d) => IsOpening(TakeTrace(d))
         /\ \A n, h : IsExchanging(d, n, h) => IsExchanging(TakeTrace(d), n, h)
         /\ IsClosing(d) => IsClosing(TakeTrace(d)) /\ TakeTrace(d).outcome = d.outcome
         /\ IsComplete(d) => IsComplete(TakeTrace(d)) /\ TakeTrace(d).outcome = d.outcome
<1> DEFINE u == IF d.trace = <<>> THEN d.trace ELSE Tail(d.trace)
<1>1. TakeTrace(d) = Retraced(d, u)
  BY DEF TakeTrace, Retraced
<1> HIDE DEF u
<1> QED  BY <1>1, TraceRead

(* What four replies say of the board. *)
LEMMA VerdictTold ==
  ASSUME NEW h, Led(h, 4), NEW f \in FramesOf(Stages[4]), f.content # "unreadable"
  PROVE  LET outcome == OutcomeOf(Gathered(h, f))
         IN  /\ outcome \in Outcomes
             /\ outcome.kind =
                  IF h[1].content = "api147" THEN "read-only-complete"
                  ELSE IF h[3].content = "pinned" /\ f.content = "pinned"
                    THEN "in-scope" ELSE "scope-mismatch"
<1> DEFINE found == Gathered(h, f)
           outcome == OutcomeOf(found)
           version == h[3].content
           target == f.content
<1>1. h[1].content \in {"api146", "api147"}
  <2>1. DOMAIN ProfileOf = {"api146", "api147"}
    BY DEF ProfileOf
  <2> QED  BY <2>1 DEF Led
<1>2. version \in Contents["FcVersion"] /\ target \in Contents["BoardInfo"]
  <2>1. version \in {"pinned", "otherVersion"}
    BY DEF Led
  <2>2. target \in Contents["BoardInfo"]
    BY StageNames DEF FramesOf
  <2> QED  BY <2>1, <2>2 DEF Contents
<1>3. found = [kind |-> IF h[1].content = "api146" THEN "complete" ELSE "readOnlyComplete",
               version |-> version, board |-> target]
  BY <1>1 DEF Gathered, ProfileOf
<1> HIDE DEF version, target
<1>4. CASE h[1].content = "api147"
  <2>1. outcome = [kind |-> "read-only-complete", version |-> version, board |-> target]
    BY <1>3, <1>4 DEF OutcomeOf
  <2> QED  BY <1>2, <1>4, <2>1 DEF Outcomes
<1>5. CASE h[1].content = "api146" /\ version = "pinned" /\ target = "pinned"
  <2>1. outcome = [kind |-> "in-scope", version |-> version, board |-> target]
    BY <1>3, <1>5 DEF OutcomeOf, ScopeField
  <2> QED  BY <1>2, <1>5, <2>1 DEF Outcomes, version, target
<1>6. CASE h[1].content = "api146" /\ ~(version = "pinned" /\ target = "pinned")
  <2>1. /\ found.kind = "complete" /\ found.version = version /\ found.board = target
    BY <1>3, <1>6
  <2>2. ScopeField(found) \in {"fc_version", "target_name"}
    BY <1>6, <2>1 DEF ScopeField
  <2> HIDE DEF found
  <2> DEFINE field == ScopeField(found)
  <2>3. field # "none"
    BY <2>2
  <2>4. outcome = [kind |-> "scope-mismatch", version |-> version, board |-> target,
                   field |-> field]
    BY <2>1, <2>3 DEF OutcomeOf
  <2>5. field \in {"fc_version", "target_name"}
    BY <2>2
  <2> HIDE DEF field, outcome
  <2>6. outcome \in Outcomes /\ outcome.kind = "scope-mismatch"
    BY <1>2, <2>4, <2>5 DEF Outcomes
  <2> QED  BY <1>1, <1>6, <2>6 DEF version, target, outcome, found
<1> QED  BY <1>1, <1>4, <1>5, <1>6
=============================================================================
