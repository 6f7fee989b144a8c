------------------------ MODULE ReadonlyCallerProofs ------------------------
(***************************************************************************)
(* The discovery machine under any caller: with any number of request ids,  *)
(* any labels and any length of the trace, and whatever is called in        *)
(* whatever order.                                                          *)
(***************************************************************************)
EXTENDS ReadonlyCaller, ReadonlyDiscoveryProofs

-----------------------------------------------------------------------------
(* The invariant. *)

(* The machine is in one of these places, and what was asked and heard agrees *)
(* with it.                                                                 *)
CallerInv ==
  \/ (IsReady(machine) \/ IsOpening(machine)) /\ asked = <<>> /\ heard = <<>>
  \/ \E n \in 1 .. 4 :
       /\ Led(heard, n)
       /\ IsExchanging(machine, n, heard)
       /\ asked = SubSeq(Stages, 1, n)
  \/ (IsClosing(machine) \/ IsComplete(machine)) /\ IdentityIsEarned

LEMMA StagesGrow ==
  /\ \A n \in 1 .. 3 : Append(SubSeq(Stages, 1, n), Stages[n + 1]) = SubSeq(Stages, 1, n + 1)
  /\ Append(<<>>, Stages[1]) = SubSeq(Stages, 1, 1)
  /\ SubSeq(Stages, 1, 4) = Stages
<1>1. Stages \in Seq(ToSet(Stages)) /\ Len(Stages) = 4
  BY StageNames DEF Stages
<1> QED  BY <1>1

(* A verdict follows from the four replies that were taken. *)
EarnedBy(g, outcome) ==
  /\ [k \in DOMAIN g |-> g[k].command] = Stages
  /\ \A k \in DOMAIN g : g[k].direction = "Reply" /\ g[k].content # "unreadable"
  /\ g[2].content = "BTFL"
  /\ g[1].content = IF outcome.kind = "read-only-complete" THEN "api147" ELSE "api146"
  /\ (outcome.kind = "in-scope") =
       (g[1].content = "api146" /\ g[3].content = "pinned" /\ g[4].content = "pinned")

LEMMA VerdictEarned ==
  ASSUME NEW h, Led(h, 4), NEW f \in FramesOf(Stages[4]),
         f.direction = "Reply", f.content # "unreadable"
  PROVE  EarnedBy(Append(h, f), OutcomeOf(Gathered(h, f)))
<1> DEFINE g == Append(h, f)
           found == Gathered(h, f)
           outcome == OutcomeOf(found)
<1>1. Led(g, 5) /\ Extended(g, h, f, 4)
  <2>1. Good(4, f) /\ 4 \in 1 .. 4
    BY DEF Good
  <2>2. Led(g, 4 + 1) /\ Extended(g, h, f, 4)
    BY <2>1, LedFurther
  <2> QED  BY <2>2
<1> HIDE DEF g
<1>2. DOMAIN g = 1 .. 4
  BY <1>1 DEF Led
<1>3. g[4] = f /\ g[1] = h[1] /\ g[2] = h[2] /\ g[3] = h[3]
  BY <1>1 DEF Extended
<1>4. \A k \in 1 .. 4 : /\ g[k].command = Stages[k]
                        /\ g[k].direction = "Reply" /\ g[k].content # "unreadable"
  BY <1>1 DEF Led
<1>5. [k \in DOMAIN g |-> g[k].command] = Stages
  <2>1. Stages = [k \in 1 .. 4 |-> Stages[k]]
    BY DEF Stages
  <2> QED  BY <1>2, <1>4, <2>1
<1>6. g[2].content = "BTFL" /\ g[1].content \in {"api146", "api147"}
  <2>1. DOMAIN ProfileOf = {"api146", "api147"}
    BY DEF ProfileOf
  <2> QED  BY <1>3, <2>1 DEF Led
<1>7. /\ found.kind = IF g[1].content = "api146" THEN "complete" ELSE "readOnlyComplete"
      /\ found.version = g[3].content /\ found.board = g[4].content
  BY <1>3, <1>6 DEF Gathered, ProfileOf
<1> HIDE DEF found
<1>8. outcome.kind = IF g[1].content = "api147" THEN "read-only-complete"
                     ELSE IF g[3].content = "pinned" /\ g[4].content = "pinned"
                       THEN "in-scope" ELSE "scope-mismatch"
  <2>1. CASE g[1].content = "api147"
    BY <1>7, <2>1 DEF OutcomeOf
  <2>2. CASE g[1].content = "api146" /\ g[3].content = "pinned" /\ g[4].content = "pinned"
    BY <1>7, <2>2 DEF OutcomeOf, ScopeField
  <2>3. CASE /\ g[1].content = "api146"
             /\ ~(g[3].content = "pinned" /\ g[4].content = "pinned")
    BY <1>7, <2>3 DEF OutcomeOf, ScopeField
  <2> QED  BY <1>6, <2>1, <2>2, <2>3
<1> HIDE DEF outcome
<1>9. /\ g[1].content = IF outcome.kind = "read-only-complete" THEN "api147" ELSE "api146"
      /\ (outcome.kind = "in-scope") =
           (g[1].content = "api146" /\ g[3].content = "pinned" /\ g[4].content = "pinned")
  BY <1>6, <1>8
<1>10. EarnedBy(g, outcome)
  BY <1>2, <1>4, <1>5, <1>6, <1>9 DEF EarnedBy
<1> QED  BY <1>10 DEF g, outcome, found

(* A refused call leaves everything where it was. *)
LEMMA AfterRefusing ==
  ASSUME CallerInv, NEW call, Returns(call), Refuses(machine, call), heard' = heard
  PROVE  CallerInv' /\ machine' = machine
<1>1. machine' = machine /\ asked' = asked
  BY DEF Returns, Refuses
<1> QED  BY <1>1 DEF CallerInv, IdentityIsEarned

(* Nothing is claimed by a machine that has no identity. *)
LEMMA NothingClaimed ==
  ASSUME NEW call, Returns(call), NoIdentity(call.d),
         IsClosing(call.d) \/ IsComplete(call.d)
  PROVE  CallerInv'
<1>1. machine' = call.d
  BY DEF Returns
<1>2. IdentityIsEarned'
  BY <1>1 DEF IdentityIsEarned, NoIdentity
<1> QED  BY <1>1, <1>2 DEF CallerInv

LEMMA AfterAsking ==
  ASSUME NEW n \in 1 .. 4, NEW call, Returns(call), Asking(n, heard', call), Led(heard', n),
         asked = IF n = 1 THEN <<>> ELSE SubSeq(Stages, 1, n - 1)
  PROVE  CallerInv' /\ answer'.kind # "refused"
<1>1. /\ machine' = call.d /\ answer' = call.answer
      /\ asked' = Append(asked, Stages[n])
  BY DEF Returns, Asking
<1>2. asked' = SubSeq(Stages, 1, n)
  <2>1. CASE n = 1
    BY <1>1, <2>1, StagesGrow
  <2>2. CASE n # 1
    <3>1. n - 1 \in 1 .. 3 /\ (n - 1) + 1 = n
      BY <2>2
    <3> QED  BY <1>1, <2>2, <3>1, StagesGrow
  <2> QED  BY <2>1, <2>2
<1>3. IsExchanging(machine', n, heard')
  BY <1>1 DEF Asking
<1> QED  BY <1>1, <1>2, <1>3 DEF CallerInv, Asking

LEMMA AfterVerdict ==
  ASSUME NEW n \in 1 .. 4, Led(heard, n), asked = SubSeq(Stages, 1, n),
         NEW f \in FramesOf(Stages[n]), NEW call, Returns(call),
         FindsOut(n, heard, f, call), heard' = Append(heard, f)
  PROVE  CallerInv' /\ answer'.kind # "refused"
<1>1. /\ n = 4 /\ f.direction = "Reply" /\ f.content # "unreadable"
      /\ IsClosing(call.d) /\ call.d.outcome = OutcomeOf(Gathered(heard, f))
      /\ call.answer.kind = "close"
  BY DEF FindsOut
<1>2. /\ machine' = call.d /\ asked' = Stages /\ answer' = call.answer
  BY <1>1, StagesGrow DEF Returns
<1> DEFINE outcome == OutcomeOf(Gathered(heard, f))
<1> HIDE DEF outcome
<1>3. machine'.outcome = outcome
  BY <1>1, <1>2 DEF outcome
<1>4. EarnedBy(heard', outcome)
  BY <1>1, VerdictEarned DEF outcome
<1>5. IdentityIsEarned'
  BY <1>2, <1>3, <1>4 DEF IdentityIsEarned, EarnedBy
<1> QED  BY <1>1, <1>2, <1>5 DEF CallerInv
LEMMA CallerStarts ==
  ASSUME CallerInit
  PROVE  CallerInv
<1> DEFINE first == Machine("Ready", None, Idle(1), NewIdentification, None, None, <<>>)
<1>1. machine = first
  BY DEF CallerInit, NewDiscovery, NewCoordinator, Machine, Idle
<1>2. first.trace = <<>>
  BY Fields
<1>3. IsReady(machine)
  BY <1>1, <1>2 DEF IsReady
<1> QED  BY <1>3 DEF CallerInit, CallerInv

(* The three places in which a caller finds the machine. *)
AtStart == (IsReady(machine) \/ IsOpening(machine)) /\ asked = <<>> /\ heard = <<>>

AtRead(n) ==
  IsExchanging(machine, n, heard) /\ Led(heard, n) /\ asked = SubSeq(Stages, 1, n)

AtEnd == (IsClosing(machine) \/ IsComplete(machine)) /\ IdentityIsEarned

LEMMA Somewhere ==
  CallerInv <=> AtStart \/ (\E n \in 1 .. 4 : AtRead(n)) \/ AtEnd
BY Zenon DEF CallerInv, AtStart, AtRead, AtEnd

(* The phase tells the place. *)
LEMMA PhaseTells ==
  ASSUME CallerInv
  PROVE  /\ machine.phase = "Ready" => AtStart /\ IsReady(machine)
         /\ machine.phase = "Opening" => AtStart /\ IsOpening(machine)
         /\ machine.phase = "Exchanging" => \E n \in 1 .. 4 : AtRead(n)
         /\ machine.phase = "Closing" => AtEnd /\ IsClosing(machine)
         /\ machine.accumulating # None => machine.phase = "Exchanging"
<1>1. CASE AtStart
  <2>1. IsReady(machine) => machine.phase = "Ready" /\ machine.accumulating = None
    BY Fields DEF IsReady
  <2>2. IsOpening(machine) => machine.phase = "Opening" /\ machine.accumulating = None
    BY Fields DEF IsOpening
  <2> QED  BY <1>1, <2>1, <2>2 DEF AtStart
<1>2. CASE \E n \in 1 .. 4 : AtRead(n)
  <2>1. machine.phase = "Exchanging"
    BY <1>2, Places DEF AtRead
  <2> QED  BY <1>2, <2>1
<1>3. CASE AtEnd
  BY <1>3, Places DEF AtEnd
<1> QED  BY <1>1, <1>2, <1>3, Somewhere

(* What every call keeps, and what a refused one does not touch. *)
Sound == CallerInv' /\ (answer'.kind = "refused" => machine' = machine)

LEMMA CallBeginKeeps ==
  ASSUME CallerInv, CallBegin
  PROVE  Sound
<1> DEFINE call == BeginOpen(machine)
<1>1. Returns(call) /\ heard' = heard
  BY DEF CallBegin
<1>2. CASE machine.phase # "Ready"
  <2>1. Refuses(machine, call)
    BY <1>2, BeginOpenCalled
  <2> HIDE DEF call
  <2> QED  BY <1>1, <2>1, AfterRefusing DEF Sound
<1>3. CASE machine.phase = "Ready"
  <2>1. AtStart /\ IsReady(machine)
    BY <1>3, PhaseTells
  <2>2. IsOpening(call.d) /\ call.answer.kind = "open"
    BY <2>1, Opens
  <2> HIDE DEF call
  <2>3. IsOpening(machine') /\ asked' = asked /\ answer'.kind = "open"
    BY <1>1, <2>2 DEF Returns
  <2> QED  BY <1>1, <2>1, <2>3 DEF Sound, CallerInv, AtStart
<1> QED  BY <1>2, <1>3

LEMMA CallOpenOkKeeps ==
  ASSUME CallerInv, CallOpenOk
  PROVE  Sound
<1> PICK id \in Ids : Returns(AcceptOpenOk(machine, id)) /\ heard' = heard
  BY DEF CallOpenOk
<1> DEFINE call == AcceptOpenOk(machine, id)
<1>1. Refuses(machine, call) \/ (IsOpening(machine) /\ Asking(1, <<>>, call))
  BY PhaseTells, OpenOkCalled
<1> HIDE DEF call
<1>2. CASE Refuses(machine, call)
  BY <1>2, AfterRefusing DEF Sound, call
<1>3. CASE IsOpening(machine) /\ Asking(1, <<>>, call)
  <2>1. AtStart
    BY <1>3, Places, PhaseTells
  <2>2. heard' = <<>> /\ asked = <<>>
    BY <2>1 DEF AtStart
  <2>3. Led(heard', 1)
    BY <2>2 DEF Led
  <2>4. Returns(call)
    BY DEF call
  <2> QED  BY <1>3, <2>2, <2>3, <2>4, AfterAsking DEF Sound
<1> QED  BY <1>1, <1>2, <1>3

LEMMA CallOpenErrKeeps ==
  ASSUME CallerInv, CallOpenErr
  PROVE  Sound
<1> PICK id \in Ids, label \in Labels :
       Returns(AcceptOpenErr(machine, id, label)) /\ heard' = heard
  BY DEF CallOpenErr
<1> DEFINE call == AcceptOpenErr(machine, id, label)
<1>1. \/ Refuses(machine, call)
      \/ IsOpening(machine) /\ Rests(call) /\ NoIdentity(call.d)
  BY PhaseTells, OpenErrCalled, FailureNamesNobody DEF EndsFailed
<1>2. Returns(call)
  OBVIOUS
<1> HIDE DEF call
<1>3. CASE Refuses(machine, call)
  BY <1>2, <1>3, AfterRefusing DEF Sound
<1>4. CASE Rests(call) /\ NoIdentity(call.d)
  <2>1. CallerInv'
    BY <1>2, <1>4, NothingClaimed DEF Rests
  <2> QED  BY <1>2, <1>4, <2>1 DEF Sound, Rests, Returns
<1> QED  BY <1>1, <1>3, <1>4

LEMMA AfterGivingUp ==
  ASSUME NEW call, Returns(call), GivesUp(call)
  PROVE  Sound
<1>1. CallerInv'
  BY NothingClaimed, FailureNamesNobody DEF GivesUp
<1> QED  BY <1>1 DEF Sound, GivesUp, Returns

LEMMA AfterRejecting ==
  ASSUME NEW n, NEW f, NEW call, Returns(call), Rejects(n, f, call)
  PROVE  Sound
<1>1. NoIdentity(call.d)
  BY DEF Rejects, NoIdentity, IdentityKinds
<1>2. CallerInv'
  BY <1>1, NothingClaimed DEF Rejects
<1> QED  BY <1>2 DEF Sound, Rejects, Returns

LEMMA CallExchangeErrKeeps ==
  ASSUME CallerInv, CallExchangeErr
  PROVE  Sound
<1> PICK id \in Ids, label \in Labels :
       Returns(AcceptExchangeErr(machine, id, label)) /\ heard' = heard
  BY DEF CallExchangeErr
<1> DEFINE call == AcceptExchangeErr(machine, id, label)
<1>1. Refuses(machine, call) \/ GivesUp(call)
  <2>1. CASE machine.phase # "Exchanging"
    BY <2>1, OutsideExchange
  <2>2. CASE machine.phase = "Exchanging"
    BY <2>2, PhaseTells, ExchangeErrCalled DEF AtRead
  <2> QED  BY <2>1, <2>2
<1>2. Returns(call)
  OBVIOUS
<1> HIDE DEF call
<1> QED  BY <1>1, <1>2, AfterRefusing, AfterGivingUp DEF Sound

LEMMA CallCloseOkKeeps ==
  ASSUME CallerInv, CallCloseOk
  PROVE  Sound
<1> PICK id \in Ids : Returns(AcceptCloseOk(machine, id)) /\ heard' = heard
  BY DEF CallCloseOk
<1> DEFINE call == AcceptCloseOk(machine, id)
<1>1. \/ Refuses(machine, call)
      \/ IsClosing(machine) /\ Rests(call) /\ call.d.outcome = machine.outcome
  BY PhaseTells, CloseCalled
<1>2. Returns(call)
  OBVIOUS
<1> HIDE DEF call
<1>3. CASE Refuses(machine, call)
  BY <1>2, <1>3, AfterRefusing DEF Sound
<1>4. CASE IsClosing(machine) /\ Rests(call) /\ call.d.outcome = machine.outcome
  <2>1. IdentityIsEarned
    BY <1>4, Places, PhaseTells DEF AtEnd
  <2>2. /\ machine' = call.d /\ asked' = asked /\ answer'.kind = "none"
        /\ machine'.outcome = machine.outcome
    BY <1>2, <1>4 DEF Returns, Rests
  <2>3. IdentityIsEarned'
    BY <2>1, <2>2 DEF IdentityIsEarned
  <2> QED  BY <1>4, <2>2, <2>3 DEF Sound, CallerInv, Rests
<1> QED  BY <1>1, <1>3, <1>4

LEMMA CallCloseErrKeeps ==
  ASSUME CallerInv, CallCloseErr
  PROVE  Sound
<1> PICK id \in Ids, label \in Labels :
       Returns(AcceptCloseErr(machine, id, label)) /\ heard' = heard
  BY DEF CallCloseErr
<1> DEFINE call == AcceptCloseErr(machine, id, label)
<1>1. \/ Refuses(machine, call)
      \/ IsClosing(machine) /\ Rests(call) /\ NoIdentity(call.d)
  BY PhaseTells, CloseErrCalled, FailureNamesNobody DEF EndsFailed
<1>2. Returns(call)
  OBVIOUS
<1> HIDE DEF call
<1>3. CASE Refuses(machine, call)
  BY <1>2, <1>3, AfterRefusing DEF Sound
<1>4. CASE Rests(call) /\ NoIdentity(call.d)
  <2>1. CallerInv'
    BY <1>2, <1>4, NothingClaimed DEF Rests
  <2> QED  BY <1>2, <1>4, <2>1 DEF Sound, Rests, Returns
<1> QED  BY <1>1, <1>3, <1>4

LEMMA CallTakeTraceKeeps ==
  ASSUME CallerInv, CallTakeTrace
  PROVE  Sound
<1>1. machine' = TakeTrace(machine) /\ asked' = asked /\ heard' = heard
  BY DEF CallTakeTrace
<1>2. answer'.kind # "refused"
  BY DEF CallTakeTrace
<1>3. CASE AtStart
  BY <1>1, <1>2, <1>3, TraceTaken DEF AtStart, Sound, CallerInv
<1>4. CASE \E n \in 1 .. 4 : AtRead(n)
  <2>1. PICK n \in 1 .. 4 : AtRead(n)
    BY <1>4
  <2>2. IsExchanging(machine', n, heard')
    BY <1>1, <2>1, TraceTaken DEF AtRead
  <2> QED  BY <1>1, <1>2, <2>1, <2>2 DEF AtRead, Sound, CallerInv
<1>5. CASE AtEnd
  <2>1. (IsClosing(machine') \/ IsComplete(machine')) /\ machine'.outcome = machine.outcome
    BY <1>1, <1>5, TraceTaken DEF AtEnd
  <2>2. IdentityIsEarned'
    BY <1>1, <1>5, <2>1 DEF AtEnd, IdentityIsEarned
  <2> QED  BY <1>2, <2>1, <2>2 DEF Sound, CallerInv
<1> QED  BY <1>3, <1>4, <1>5, Somewhere
LEMMA CallChunkKeeps ==
  ASSUME CallerInv, CallChunk
  PROVE  Sound
<1> PICK id \in Ids :
       \/ /\ Returns(AcceptChunk(machine, id, [kind |-> "more"]))
          /\ heard' = heard
       \/ /\ Returns(AcceptChunk(machine, id,
                [kind |-> "malformed", reason |-> "BadChecksum"]))
          /\ heard' = heard
       \/ /\ machine.accumulating # None
          /\ \E frame \in FramesOf(machine.accumulating) :
               /\ Returns(AcceptChunk(machine, id, [kind |-> "frame", frame |-> frame]))
               /\ heard' = IF answer'.kind = "refused" THEN heard ELSE Append(heard, frame)
  BY DEF CallChunk
<1>1. ASSUME Returns(AcceptChunk(machine, id, [kind |-> "more"])), heard' = heard
      PROVE  Sound
  <2> DEFINE call == AcceptChunk(machine, id, [kind |-> "more"])
  <2>1. Refuses(machine, call) \/ (call.d = machine /\ call.answer.kind = "none")
    <3>1. CASE machine.phase # "Exchanging"
      BY <3>1, OutsideExchange
    <3>2. CASE machine.phase = "Exchanging"
      BY <3>2, PhaseTells, PartCalled DEF AtRead
    <3> QED  BY <3>1, <3>2
  <2>2. Returns(call)
    BY <1>1
  <2> HIDE DEF call
  <2>3. machine' = machine /\ asked' = asked
    BY <2>1, <2>2 DEF Returns, Refuses
  <2> QED  BY <1>1, <2>3 DEF Sound, CallerInv, IdentityIsEarned
<1>2. ASSUME Returns(AcceptChunk(machine, id,
               [kind |-> "malformed", reason |-> "BadChecksum"])), heard' = heard
      PROVE  Sound
  <2> DEFINE call == AcceptChunk(machine, id,
                       [kind |-> "malformed", reason |-> "BadChecksum"])
  <2>1. Refuses(machine, call) \/ GivesUp(call)
    <3>1. CASE machine.phase # "Exchanging"
      BY <3>1, OutsideExchange
    <3>2. CASE machine.phase = "Exchanging"
      <4>1. "BadChecksum" \in FailureReasons
        BY DEF FailureReasons
      <4> QED  BY <3>2, <4>1, PhaseTells, MalformedCalled DEF AtRead
    <3> QED  BY <3>1, <3>2
  <2>2. Returns(call)
    BY <1>2
  <2> HIDE DEF call
  <2> QED  BY <1>2, <2>1, <2>2, AfterRefusing, AfterGivingUp DEF Sound
<1>3. ASSUME machine.accumulating # None, NEW frame \in FramesOf(machine.accumulating),
             Returns(AcceptChunk(machine, id, [kind |-> "frame", frame |-> frame])),
             heard' = IF answer'.kind = "refused" THEN heard ELSE Append(heard, frame)
      PROVE  Sound
  <2> DEFINE call == AcceptChunk(machine, id, [kind |-> "frame", frame |-> frame])
  <2>1. PICK n \in 1 .. 4 : AtRead(n)
    BY <1>3, PhaseTells
  <2>2. frame \in FramesOf(Stages[n])
    BY <1>3, <2>1, Places DEF AtRead
  <2>3. \/ Refuses(machine, call) \/ GivesUp(call)
        \/ GoesOn(n, heard, frame, call) \/ FindsOut(n, heard, frame, call)
        \/ Rejects(n, frame, call)
    BY Zenon, <2>1, <2>2, FrameCalled DEF AtRead, Taken
  <2>4. Returns(call) /\ answer' = call.answer
    BY <1>3 DEF Returns
  <2> HIDE DEF call
  <2>5. CASE Refuses(machine, call)
    <3>1. heard' = heard
      BY <1>3, <2>4, <2>5 DEF Refuses
    <3> QED  BY <2>4, <2>5, <3>1, AfterRefusing DEF Sound
  <2>6. CASE GivesUp(call)
    BY <2>4, <2>6, AfterGivingUp
  <2>7. CASE GoesOn(n, heard, frame, call)
    <3>1. heard' = Append(heard, frame)
      BY <1>3, <2>4, <2>7 DEF GoesOn, Asking
    <3>2. /\ n + 1 \in 1 .. 4 /\ Asking(n + 1, heard', call) /\ Led(heard', n + 1)
      BY <2>7, <3>1 DEF GoesOn
    <3>3. asked = IF n + 1 = 1 THEN <<>> ELSE SubSeq(Stages, 1, (n + 1) - 1)
      BY <2>1 DEF AtRead
    <3> QED  BY <2>4, <3>2, <3>3, AfterAsking DEF Sound
  <2>8. CASE FindsOut(n, heard, frame, call)
    <3>1. heard' = Append(heard, frame)
      BY <1>3, <2>4, <2>8 DEF FindsOut
    <3> QED  BY <2>1, <2>2, <2>4, <2>8, <3>1, AfterVerdict DEF AtRead, Sound
  <2>9. CASE Rejects(n, frame, call)
    BY <2>4, <2>9, AfterRejecting
  <2> QED  BY <2>3, <2>5, <2>6, <2>7, <2>8, <2>9
<1> QED  BY <1>1, <1>2, <1>3

LEMMA CallerKeeps ==
  ASSUME CallerInv, CallerNext
  PROVE  Sound
BY CallBeginKeeps, CallOpenOkKeeps, CallOpenErrKeeps, CallChunkKeeps, CallExchangeErrKeeps,
   CallCloseOkKeeps, CallCloseErrKeeps, CallTakeTraceKeeps DEF CallerNext

LEMMA CallerStutters ==
  ASSUME CallerInv, UNCHANGED callerVars
  PROVE  CallerInv'
BY DEF CallerInv, IdentityIsEarned, callerVars

LEMMA InFlight ==
  ASSUME CallerInv
  PROVE  InFlightAgrees
<1> DEFINE c == machine.coordinator
<1>1. ASSUME NEW f, NEW p, NEW m \in 1 .. 7, NEW i, NEW a, NEW o, f \in {"Ready", "Complete"},
             machine = Machine(f, None, Idle(m), i, None, o, machine.trace)
      PROVE  InFlightAgrees
  <2>1. /\ machine.phase = f /\ machine.pendingId = None /\ machine.coordinator = Idle(m)
        /\ machine.accumulating = None
    BY <1>1, Fields
  <2>2. machine.coordinator.awaited = None
    BY <2>1 DEF Idle
  <2> QED  BY <1>1, <2>1, <2>2 DEF InFlightAgrees
<1>2. ASSUME NEW f, NEW m \in 1 .. 6, NEW i, NEW o, NEW kind, NEW a,
             kind \in TransportKinds, f \in {"Opening", "Exchanging", "Closing"},
             kind = AwaitedKind(f), (f = "Exchanging") = (a # None),
             f = "Exchanging" => i.pending /\ a = i.stage,
             machine = Machine(f, m, Awaiting(m, kind), i, a, o, machine.trace)
      PROVE  InFlightAgrees
  <2>1. /\ machine.phase = f /\ machine.pendingId = m
        /\ machine.coordinator = Awaiting(m, kind)
        /\ machine.accumulating = a /\ machine.ident = i
    BY <1>2, Fields
  <2>2. machine.coordinator.awaited # None
    BY <1>2, <2>1, Awaited
  <2>3. machine.coordinator.awaited.id = m /\ machine.coordinator.awaited.kind = kind
    BY <2>1 DEF Awaiting
  <2> QED  BY <1>2, <2>1, <2>2, <2>3 DEF InFlightAgrees
<1>3. CASE AtStart
  <2>1. CASE IsReady(machine)
    <3>1. 1 \in 1 .. 7 /\ "Ready" \in {"Ready", "Complete"}
      OBVIOUS
    <3> QED  BY <1>1, <2>1, <3>1 DEF IsReady
  <2>2. CASE IsOpening(machine)
    <3>1. /\ 1 \in 1 .. 6 /\ "open" \in TransportKinds
          /\ "Opening" \in {"Opening", "Exchanging", "Closing"}
          /\ "open" = AwaitedKind("Opening") /\ ("Opening" = "Exchanging") = (None # None)
          /\ "Opening" # "Exchanging"
      BY DEF TransportKinds, AwaitedKind
    <3> QED  BY <1>2, <2>2, <3>1 DEF IsOpening
  <2> QED  BY <1>3, <2>1, <2>2 DEF AtStart
<1>4. CASE \E n \in 1 .. 4 : AtRead(n)
  <2>1. PICK n \in 1 .. 4 : AtRead(n)
    BY <1>4
  <2> DEFINE i == IdentAt(n, heard, TRUE)
  <2>2. machine = Machine("Exchanging", n + 1, Awaiting(n + 1, "exchange"), i, Stages[n],
                          None, machine.trace)
    BY Zenon, <2>1 DEF AtRead, IsExchanging
  <2>3. i.pending /\ i.stage = Stages[n]
    BY WaitsForReply
  <2> HIDE DEF i
  <2>4. /\ n + 1 \in 1 .. 6 /\ "exchange" \in TransportKinds
        /\ "Exchanging" \in {"Opening", "Exchanging", "Closing"}
        /\ "exchange" = AwaitedKind("Exchanging") /\ Stages[n] # None
    BY StageNames DEF TransportKinds, AwaitedKind
  <2>5. ("Exchanging" = "Exchanging") = (Stages[n] # None)
    BY <2>4
  <2> QED  BY <1>2, <2>2, <2>3, <2>4, <2>5
<1>5. CASE IsClosing(machine)
  <2>1. PICK m \in 3 .. 6 :
          machine = Machine("Closing", m, Awaiting(m, "close"), machine.ident, None,
                            machine.outcome, machine.trace)
    BY <1>5 DEF IsClosing
  <2>2. /\ m \in 1 .. 6 /\ "close" \in TransportKinds
        /\ "Closing" \in {"Opening", "Exchanging", "Closing"}
        /\ "close" = AwaitedKind("Closing") /\ ("Closing" = "Exchanging") = (None # None)
        /\ "Closing" # "Exchanging"
    BY DEF TransportKinds, AwaitedKind
  <2> QED  BY <1>2, <2>1, <2>2
<1>6. CASE IsComplete(machine)
  <2>1. PICK m \in 2 .. 7 :
          machine = Machine("Complete", None, Idle(m), machine.ident, None,
                            machine.outcome, machine.trace)
    BY <1>6 DEF IsComplete
  <2>2. m \in 1 .. 7 /\ "Complete" \in {"Ready", "Complete"}
    OBVIOUS
  <2> QED  BY <1>1, <2>1, <2>2
<1> QED  BY <1>3, <1>4, <1>5, <1>6, Somewhere DEF AtEnd

(* CallerInv is an invariant: whatever a caller does, and in whatever order, *)
(* the machine is in one of its five places.                                *)
THEOREM CallerIsPlaced == CallerSpec => []CallerInv
<1>1. CallerInit => CallerInv
  BY CallerStarts
<1>2. CallerInv /\ [CallerNext]_callerVars => CallerInv'
  BY CallerKeeps, CallerStutters DEF Sound
<1> QED  BY <1>1, <1>2, PTL DEF CallerSpec

(* The four records of what is in flight never part, with any caller, any    *)
(* labels and any number of request ids.                                    *)
THEOREM WhatIsInFlightAgrees == CallerSpec => []InFlightAgrees
<1>1. CallerInv => InFlightAgrees
  BY InFlight
<1> QED  BY <1>1, CallerIsPlaced, PTL

LEMMA Earned ==
  ASSUME CallerInv
  PROVE  IdentityIsEarned
<1>1. CASE AtStart
  <2>1. machine.outcome = None
    BY <1>1, Fields DEF AtStart, IsReady, IsOpening
  <2> QED  BY <2>1 DEF IdentityIsEarned
<1>2. ASSUME NEW n \in 1 .. 4, AtRead(n)
      PROVE  IdentityIsEarned
  <2> DEFINE i == IdentAt(n, heard, TRUE)
  <2>1. machine = Machine("Exchanging", n + 1, Awaiting(n + 1, "exchange"), i, Stages[n],
                          None, machine.trace)
    BY Zenon, <1>2 DEF AtRead, IsExchanging
  <2> HIDE DEF i
  <2>2. machine.outcome = None
    BY <2>1, Fields
  <2> QED  BY <2>2 DEF IdentityIsEarned
<1>3. CASE AtEnd
  BY <1>3 DEF AtEnd
<1> QED  BY <1>1, <1>2, <1>3, Somewhere

(* No caller, whatever it calls and in whatever order, brings the machine to *)
(* report an identity that four replies have not earned.                    *)
THEOREM EveryIdentityIsEarned == CallerSpec => []IdentityIsEarned
<1>1. CallerInv => IdentityIsEarned
  BY Earned
<1> QED  BY <1>1, CallerIsPlaced, PTL

(* A stale, duplicated or mislabelled call changes nothing, in any state a   *)
(* caller can reach (ADR-0013).                                             *)
THEOREM EveryRefusalIsInert == CallerSpec => RefusalsAreInert
<1>1. /\ CallerInv /\ [CallerNext]_callerVars
      => [answer'.kind = "refused" => machine' = machine]_callerVars
  BY CallerKeeps DEF Sound
<1> QED  BY <1>1, CallerIsPlaced, PTL DEF CallerSpec, RefusalsAreInert
=============================================================================
