----------------------- MODULE TransportParityProofs -----------------------
(***************************************************************************)
(* The executor over both transports, for any simulations, wirings, flag    *)
(* words, recovery classes and number of calls.                             *)
(***************************************************************************)
EXTENDS TransportParity, TLAPS

-----------------------------------------------------------------------------
(* Shapes: what the operators of the stack expect their records to be.      *)

IsSim(s) ==
  s = [kind |-> s.kind, phase |-> s.phase, open |-> s.open,
       sent |-> s.sent, blocked |-> s.blocked,
       fc |-> s.fc, schedule |-> s.schedule, calls |-> s.calls,
       steps |-> s.steps, cursor |-> s.cursor, divergence |-> s.divergence,
       arrived |-> s.arrived]

IsStack(k) == k = [sim |-> k.sim, boundary |-> k.boundary, targets |-> k.targets]

IsExecutor(x) ==
  x = [target |-> x.target, transport |-> x.transport, correlator |-> x.correlator]

(* What arrived came with the evidence its command needs.                   *)
Evidence(s) ==
  s.arrived # None =>
    LET command  == s.arrived.frame.command
        approval == s.arrived.approval
    IN  /\ command \notin IdentifyCommands => s.arrived.phase = "Operational"
        /\ command \notin ReadCommands =>
             /\ command \in DOMAIN WriteCommands
             /\ approval \in Approvals(Recoveries)
             /\ approval.target = s.kind
             /\ approval.class = WriteCommands[command]
             /\ approval.recovery = s.arrived.declared

(* A transcript was followed, or the divergence is remembered. *)
Followed(s) ==
  s.kind = "Replay" /\ s.divergence = None => s.sent = s.cursor /\ s.blocked = 0

SoundSim(s) ==
  /\ IsSim(s)
  /\ s.phase \in {"Identifying", "Operational"}
  /\ s.sent \in Nat /\ s.blocked \in Nat /\ s.cursor \in Nat
  /\ Evidence(s)
  /\ Followed(s)

-----------------------------------------------------------------------------
(* One simulation. *)

(* The guard lets a write through only with an approval that fits it. *)
LEMMA GuardPasses ==
  ASSUME NEW s, SoundSim(s), NEW command,
         NEW approval \in Approvals(Recoveries) \cup {None}, NEW declared,
         GuardRefusal(s, command, approval, declared) = "none"
  PROVE  /\ command \notin IdentifyCommands => s.phase = "Operational"
         /\ command \notin ReadCommands =>
              /\ command \in DOMAIN WriteCommands
              /\ approval \in Approvals(Recoveries)
              /\ approval.target = s.kind
              /\ approval.class = WriteCommands[command]
              /\ approval.recovery = declared
<1>1. command \notin IdentifyCommands => s.phase = "Operational"
  BY DEF GuardRefusal, IdentifyRefusal, SoundSim
<1>2. AuthorityRefusal(s.kind, command, approval, declared) = "none"
  BY DEF GuardRefusal
<1>3. ASSUME command \notin ReadCommands
      PROVE  /\ command \in DOMAIN WriteCommands
             /\ approval \in Approvals(Recoveries)
             /\ approval.target = s.kind
             /\ approval.class = WriteCommands[command]
             /\ approval.recovery = declared
  <2>1. command \in DOMAIN WriteCommands
    BY <1>2, <1>3 DEF AuthorityRefusal
  <2>2. ClassOf(command) = WriteCommands[command] /\ ClassOf(command) # "NoWrite"
    BY <2>1 DEF ClassOf, WriteCommands
  <2> QED  BY <1>2, <2>1, <2>2 DEF AuthorityRefusal
<1> QED  BY <1>1, <1>3

(* What diverges is a refusal or a misplayed step, and is remembered. *)
LEMMA DivergenceKinds ==
  /\ \A s, command, approval, declared :
       GuardRefusal(s, command, approval, declared) # "none" =>
         \A n \in Nat : [step |-> n, kind |-> GuardRefusal(s, command, approval, declared)]
                        \in Divergences
  /\ \A s, frame :
       Misplay(s, frame) # "none" =>
         \A n \in Nat : [step |-> n, kind |-> Misplay(s, frame)] \in Divergences
<1>1. ASSUME NEW s, NEW command, NEW approval, NEW declared,
             GuardRefusal(s, command, approval, declared) # "none", NEW n \in Nat
      PROVE  [step |-> n, kind |-> GuardRefusal(s, command, approval, declared)]
                \in Divergences
  BY <1>1 DEF GuardRefusal, IdentifyRefusal, AuthorityRefusal, Divergences
<1>2. ASSUME NEW s, NEW frame, Misplay(s, frame) # "none", NEW n \in Nat
      PROVE  [step |-> n, kind |-> Misplay(s, frame)] \in Divergences
  BY <1>2 DEF Misplay, Divergences
<1> QED  BY <1>1, <1>2

LEMMA DivergedSound ==
  ASSUME NEW s, IsSim(s), s.phase \in {"Identifying", "Operational"},
         s.sent \in Nat, s.blocked \in Nat, s.cursor \in Nat, Evidence(s),
         NEW error, [step |-> s.cursor, kind |-> error] \in Divergences
  PROVE  SoundSim(Diverged(s, error)) /\ Diverged(s, error).kind = s.kind
<1>1. [step |-> s.cursor, kind |-> error] # None
  BY NoneAssumption
<1>2. PICK d : d # None /\ Diverged(s, error) = [s EXCEPT !.divergence = d]
  BY <1>1, SMTT(30) DEF Diverged, IsSim
<1> DEFINE t == Diverged(s, error)
<1>3. /\ IsSim(t) /\ t.kind = s.kind /\ t.phase = s.phase /\ t.sent = s.sent
      /\ t.blocked = s.blocked /\ t.cursor = s.cursor /\ t.arrived = s.arrived
      /\ t.divergence = d
  BY <1>2 DEF IsSim
<1> HIDE DEF t
<1>4. Evidence(t)
  BY <1>3 DEF Evidence
<1>5. Followed(t)
  BY <1>2, <1>3 DEF Followed
<1> QED  BY <1>3, <1>4, <1>5 DEF SoundSim, t

(* What is not in the fields below cannot spoil a simulation. *)
LEMMA SoundFrom ==
  ASSUME NEW s, SoundSim(s), NEW t, IsSim(t), t.kind = s.kind,
         t.phase \in {"Identifying", "Operational"}, t.arrived \in {s.arrived, None},
         t.sent = s.sent, t.blocked = s.blocked, t.cursor = s.cursor,
         t.divergence = s.divergence
  PROVE  SoundSim(t)
<1>1. Evidence(t)
  BY DEF SoundSim, Evidence
<1>2. Followed(t)
  BY DEF SoundSim, Followed
<1> QED  BY <1>1, <1>2 DEF SoundSim

(* Whatever is handed to a simulation, it stays sound, of one kind, and in    *)
(* the phase it is in.                                                      *)
LEMMA SimExchangeSound ==
  ASSUME NEW s, SoundSim(s), NEW frame,
         NEW approval \in Approvals(Recoveries) \cup {None}, NEW declared
  PROVE  LET t == SimExchange(s, control, frame, approval, declared).s
         IN  SoundSim(t) /\ t.kind = s.kind
<1> DEFINE refusal == GuardRefusal(s, frame.command, approval, declared)
           blocked == AuditedBlocked(s)
           passed  == [AuditedSent(s) EXCEPT
                         !.arrived = [frame |-> frame, approval |-> approval,
                                      declared |-> declared, phase |-> s.phase]]
           t == SimExchange(s, control, frame, approval, declared).s
<1> SUFFICES SoundSim(t) /\ t.kind = s.kind
  OBVIOUS
<1>1. CASE ~s.open \/ control # "none" \/ frame = None
  BY <1>1 DEF SimExchange, Done
<1>2. CASE s.open /\ control = "none" /\ frame # None /\ refusal # "none"
  <2>1. blocked = [s EXCEPT !.blocked = s.blocked + 1]
    BY DEF AuditedBlocked
  <2>2. IsSim(blocked) /\ blocked.cursor \in Nat
    BY <2>1 DEF SoundSim, IsSim
  <2>3. [step |-> blocked.cursor, kind |-> refusal] \in Divergences
    BY <1>2, <2>2, DivergenceKinds
  <2> HIDE DEF blocked, refusal
  <2>4. CASE s.kind = "Replay"
    <3>1. t = Diverged(blocked, refusal)
      BY <1>2, <2>4 DEF SimExchange, Done, blocked, refusal
    <3>2. /\ blocked.phase = s.phase /\ blocked.sent = s.sent /\ blocked.kind = s.kind
          /\ blocked.blocked = s.blocked + 1 /\ blocked.arrived = s.arrived
      BY <2>1 DEF SoundSim, IsSim
    <3>3. Evidence(blocked)
      BY <3>2 DEF SoundSim, Evidence
    <3>4. /\ blocked.phase \in {"Identifying", "Operational"}
          /\ blocked.sent \in Nat /\ blocked.blocked \in Nat
      BY <3>2 DEF SoundSim
    <3> HIDE DEF t
    <3> QED  BY <2>2, <2>3, <3>1, <3>2, <3>3, <3>4, DivergedSound
  <2>5. CASE s.kind # "Replay"
    <3>1. t = blocked
      BY <1>2, <2>5 DEF SimExchange, Done, blocked, refusal
    <3> HIDE DEF t
    <3> QED  BY <2>1, <2>5, <3>1 DEF SoundSim, IsSim, Evidence, Followed
  <2> QED  BY <2>4, <2>5
<1>3. CASE s.open /\ control = "none" /\ frame # None /\ refusal = "none"
  <2>1. passed = [s EXCEPT !.sent = s.sent + 1,
                           !.arrived = [frame |-> frame, approval |-> approval,
                                        declared |-> declared, phase |-> s.phase]]
    BY DEF AuditedSent, SoundSim, IsSim
  <2>2. /\ frame.command \notin IdentifyCommands => s.phase = "Operational"
        /\ frame.command \notin ReadCommands =>
             /\ frame.command \in DOMAIN WriteCommands
             /\ approval \in Approvals(Recoveries)
             /\ approval.target = s.kind
             /\ approval.class = WriteCommands[frame.command]
             /\ approval.recovery = declared
    <3>1. GuardRefusal(s, frame.command, approval, declared) = "none"
      BY <1>3
    <3> HIDE DEF refusal, passed, t
    <3> QED  BY <3>1, GuardPasses
  <2> HIDE DEF refusal, passed
  <2>3. /\ IsSim(passed) /\ passed.cursor \in Nat
        /\ passed.kind = s.kind /\ passed.cursor = s.cursor
        /\ passed.divergence = s.divergence /\ passed.phase = s.phase
        /\ passed.sent = s.sent + 1 /\ passed.blocked = s.blocked
    BY <2>1 DEF SoundSim, IsSim
  <2>4. Evidence(passed)
    BY <2>1, <2>2, <2>3 DEF Evidence, SoundSim, IsSim
  <2>5. CASE s.kind = "Mock"
    <3>1. t = Answer(passed, frame).s
      BY <1>3, <2>5 DEF SimExchange, refusal, passed
    <3>2. t = [passed EXCEPT
                 !.fc = Respond(passed.fc, frame, passed.schedule, passed.calls).fc,
                 !.calls = passed.calls + 1]
      BY <3>1 DEF Answer, Done
    <3> HIDE DEF t
    <3>3. /\ IsSim(t) /\ t.kind = passed.kind /\ t.phase = passed.phase
          /\ t.sent = passed.sent /\ t.blocked = passed.blocked
          /\ t.cursor = passed.cursor /\ t.arrived = passed.arrived
          /\ t.divergence = passed.divergence
      BY <2>3, <3>2 DEF IsSim
    <3>4. Evidence(t)
      BY <2>4, <3>3 DEF Evidence
    <3>5. Followed(t)
      BY <2>3, <2>5, <3>3 DEF Followed
    <3> QED  BY <2>3, <3>3, <3>4, <3>5 DEF SoundSim
  <2>6. CASE s.kind # "Mock" /\ Misplay(passed, frame) # "none"
    <3>1. t = Diverged(passed, Misplay(passed, frame))
      BY <1>3, <2>6 DEF SimExchange, Play, Done, refusal, passed
    <3>2. [step |-> passed.cursor, kind |-> Misplay(passed, frame)] \in Divergences
      BY <2>3, <2>6, DivergenceKinds
    <3>3. /\ passed.phase \in {"Identifying", "Operational"}
          /\ passed.sent \in Nat /\ passed.blocked \in Nat
      BY <2>3 DEF SoundSim
    <3> HIDE DEF t
    <3> QED  BY <2>3, <2>4, <3>1, <3>2, <3>3, DivergedSound
  <2>7. CASE s.kind # "Mock" /\ Misplay(passed, frame) = "none"
    <3>1. t = [passed EXCEPT !.cursor = passed.cursor + 1]
      BY <1>3, <2>7 DEF SimExchange, Play, Done, refusal, passed
    <3> HIDE DEF t
    <3>3. /\ IsSim(t) /\ t.kind = passed.kind /\ t.phase = passed.phase
          /\ t.sent = passed.sent /\ t.blocked = passed.blocked
          /\ t.cursor = passed.cursor + 1 /\ t.arrived = passed.arrived
          /\ t.divergence = passed.divergence
      BY <2>3, <3>1 DEF IsSim
    <3>4. Evidence(t)
      BY <2>4, <3>3 DEF Evidence
    <3>5. Followed(t)
      BY <2>3, <3>3 DEF Followed, SoundSim
    <3> QED  BY <2>3, <3>3, <3>4, <3>5 DEF SoundSim
  <2> QED  BY <2>5, <2>6, <2>7
<1> QED  BY <1>1, <1>2, <1>3

(* Opening, closing and changing phase touch nothing else. *)
LEMMA SimControlSound ==
  ASSUME NEW s, SoundSim(s), NEW phase \in {"Identifying", "Operational"}
  PROVE  /\ SoundSim(SimOpen(s, control).s) /\ SimOpen(s, control).s.kind = s.kind
         /\ SoundSim(SimClose(s)) /\ SimClose(s).kind = s.kind
         /\ SoundSim([s EXCEPT !.phase = phase])
         /\ [s EXCEPT !.phase = phase].kind = s.kind
         /\ SoundSim([s EXCEPT !.arrived = None])
         /\ [s EXCEPT !.arrived = None].kind = s.kind
<1>1. IsSim(s) /\ s.phase \in {"Identifying", "Operational"}
  BY DEF SoundSim
<1>2. ASSUME NEW open
      PROVE  SoundSim([s EXCEPT !.open = open]) /\ [s EXCEPT !.open = open].kind = s.kind
  <2> DEFINE t == [s EXCEPT !.open = open]
  <2>1. /\ IsSim(t) /\ t.kind = s.kind /\ t.phase = s.phase /\ t.arrived = s.arrived
        /\ t.sent = s.sent /\ t.blocked = s.blocked /\ t.cursor = s.cursor
        /\ t.divergence = s.divergence
    BY <1>1 DEF IsSim
  <2> HIDE DEF t
  <2>2. SoundSim(t)
    BY <1>1, <2>1, SoundFrom
  <2> QED  BY <2>1, <2>2 DEF t
<1>3. SoundSim([s EXCEPT !.phase = phase]) /\ [s EXCEPT !.phase = phase].kind = s.kind
  <2> DEFINE t == [s EXCEPT !.phase = phase]
  <2>1. /\ IsSim(t) /\ t.kind = s.kind /\ t.phase = phase /\ t.arrived = s.arrived
        /\ t.sent = s.sent /\ t.blocked = s.blocked /\ t.cursor = s.cursor
        /\ t.divergence = s.divergence
    BY <1>1 DEF IsSim
  <2> HIDE DEF t
  <2>2. SoundSim(t)
    BY <2>1, SoundFrom
  <2> QED  BY <2>1, <2>2 DEF t
<1>4. /\ SoundSim([s EXCEPT !.arrived = None])
      /\ [s EXCEPT !.arrived = None].kind = s.kind
  <2> DEFINE t == [s EXCEPT !.arrived = None]
  <2>1. /\ IsSim(t) /\ t.kind = s.kind /\ t.phase = s.phase /\ t.arrived = None
        /\ t.sent = s.sent /\ t.blocked = s.blocked /\ t.cursor = s.cursor
        /\ t.divergence = s.divergence
    BY <1>1 DEF IsSim
  <2> HIDE DEF t
  <2>2. SoundSim(t)
    BY <1>1, <2>1, SoundFrom
  <2> QED  BY <2>1, <2>2 DEF t
<1>5. SimOpen(s, control).s = s \/ SimOpen(s, control).s = [s EXCEPT !.open = TRUE]
  BY DEF SimOpen, Done
<1>6. SimClose(s) = [s EXCEPT !.open = FALSE]
  BY DEF SimClose
<1>7. SoundSim(SimOpen(s, control).s) /\ SimOpen(s, control).s.kind = s.kind
  BY <1>2, <1>5
<1>8. SoundSim(SimClose(s)) /\ SimClose(s).kind = s.kind
  BY <1>2, <1>6
<1> QED  BY <1>3, <1>4, <1>7, <1>8

-----------------------------------------------------------------------------
(* One stack. *)

SoundStack(k) ==
  /\ IsStack(k) /\ SoundSim(k.sim)
  /\ k.boundary # None =>
       /\ k.boundary \in Coordinators(TransportKinds)
       /\ k.boundary.awaited = None

(* A stack after one id was spent on what came of the simulation. *)
Spent(k, s) ==
  [sim |-> s, boundary |-> [nextId |-> k.boundary.nextId + 1, awaited |-> None],
   targets |-> k.targets]

(* What no call changes of a stack, and the ids it may only spend. *)
Kept(k, r) ==
  /\ SoundStack(r) /\ r.targets = k.targets /\ r.sim.kind = k.sim.kind
  /\ (r.boundary = None) <=> (k.boundary = None)
  /\ k.boundary # None => k.boundary.nextId <= r.boundary.nextId

LEMMA KeptItself ==
  ASSUME NEW k, SoundStack(k)
  PROVE  Kept(k, k)
<1>1. k.boundary # None => k.boundary.nextId \in Nat
  BY RequestIdAssumption DEF SoundStack, Coordinators
<1> QED  BY <1>1 DEF Kept

LEMMA KeptSim ==
  ASSUME NEW k, SoundStack(k), NEW s, SoundSim(s), s.kind = k.sim.kind
  PROVE  Kept(k, [k EXCEPT !.sim = s])
<1> DEFINE r == [k EXCEPT !.sim = s]
<1>1. IsStack(r) /\ r.sim = s /\ r.boundary = k.boundary /\ r.targets = k.targets
  BY DEF SoundStack, IsStack
<1>2. k.boundary # None => k.boundary.nextId \in Nat
  BY RequestIdAssumption DEF SoundStack, Coordinators
<1> HIDE DEF r
<1>3. SoundStack(r)
  BY <1>1 DEF SoundStack
<1>4. Kept(k, r)
  BY <1>1, <1>2, <1>3 DEF Kept
<1> QED  BY <1>4 DEF r

LEMMA KeptSpent ==
  ASSUME NEW k, SoundStack(k), k.boundary # None, CanBegin(k.boundary),
         NEW s, SoundSim(s), s.kind = k.sim.kind
  PROVE  Kept(k, Spent(k, s))
<1> DEFINE r == Spent(k, s)
           c == [nextId |-> k.boundary.nextId + 1, awaited |-> None]
<1>1. k.boundary.nextId \in 1 .. MaxRequestId /\ k.boundary.nextId < MaxRequestId
  BY DEF SoundStack, Coordinators, CanBegin
<1>2. k.boundary.nextId + 1 \in 1 .. MaxRequestId
  BY <1>1, RequestIdAssumption
<1>3. c \in Coordinators(TransportKinds)
  BY <1>2 DEF Coordinators
<1>4. c # None
  BY <1>3, NoneAssumption
<1>5. /\ IsStack(r) /\ r.sim = s /\ r.boundary = c /\ r.targets = k.targets
      /\ c.awaited = None /\ c.nextId = k.boundary.nextId + 1
  BY DEF IsStack, Spent
<1> HIDE DEF r, c
<1>6. SoundStack(r)
  BY <1>3, <1>5 DEF SoundStack
<1>7. k.boundary.nextId <= r.boundary.nextId
  BY <1>1, <1>5, RequestIdAssumption
<1>8. Kept(k, r)
  BY <1>4, <1>5, <1>6, <1>7 DEF Kept
<1> QED  BY <1>8 DEF r

(* An effect that can begin spends its id and is gone when it returns. *)
LEMMA RoundTripIs ==
  ASSUME NEW k, SoundStack(k), k.boundary # None, NEW kind, NEW s, NEW result
  PROVE  RoundTrip(k, Came([Begun(k, kind) EXCEPT !.sim = s], result))
           = IF CanBegin(k.boundary) THEN Came(Spent(k, s), result)
             ELSE Came(k, Err("EffectBoundary"))
<1> DEFINE begun == [nextId |-> k.boundary.nextId + 1,
                     awaited |-> [id |-> k.boundary.nextId, kind |-> kind]]
           mid == [sim |-> s, boundary |-> begun, targets |-> k.targets]
<1>1. [Begun(k, kind) EXCEPT !.sim = s] = mid
  <2>1. Begin(k.boundary, kind) = begun
    BY DEF Begin
  <2> HIDE DEF begun
  <2>2. Begun(k, kind) = [sim |-> k.sim, boundary |-> begun, targets |-> k.targets]
    BY <2>1 DEF Begun, SoundStack, IsStack
  <2> QED  BY <2>2
<1>2. Consumed(begun) = [nextId |-> k.boundary.nextId + 1, awaited |-> None]
  BY DEF Consumed
<1>3. [mid EXCEPT !.boundary = Consumed(begun)] = Spent(k, s)
  BY <1>2 DEF Spent
<1>4. mid.boundary = begun
  OBVIOUS
<1> HIDE DEF begun, mid
<1>5. Settle(Came(mid, result)) = Came([mid EXCEPT !.boundary = Consumed(begun)], result)
  BY <1>4 DEF Settle, Came
<1> QED  BY <1>1, <1>3, <1>5 DEF RoundTrip

(* What the effects stack makes of an exchange: nothing, a request the host   *)
(* refuses, or what its simulation makes of it.                             *)
LEMMA BehindEffects ==
  ASSUME NEW k, SoundStack(k), k.boundary # None, NEW frame,
         NEW approval \in Approvals(Recoveries) \cup {None}, NEW declared
  PROVE  LET came == TransportExchange(k, control, frame, approval, declared)
             host == SimExchange(k.sim, control, frame, approval,
                                 IF approval = None THEN None ELSE approval.recovery)
         IN  \/ \E e \in {"EffectBoundary", "ApprovalTargetMismatch",
                          "ApprovalRecoveryMismatch"} : came = Came(k, Err(e))
             \/ /\ CanBegin(k.boundary)
                /\ \/ came = Came(Spent(k, k.sim), Err("ApprovalTargetMismatch"))
                   \/ came = Came(Spent(k, host.s), host.result)
<1> DEFINE came == TransportExchange(k, control, frame, approval, declared)
           host == SimExchange(k.sim, control, frame, approval,
                               IF approval = None THEN None ELSE approval.recovery)
           begun == Begun(k, "exchange")
           refused == \E e \in {"EffectBoundary", "ApprovalTargetMismatch",
                                "ApprovalRecoveryMismatch"} : came = Came(k, Err(e))
           served == /\ CanBegin(k.boundary)
                     /\ \/ came = Came(Spent(k, k.sim), Err("ApprovalTargetMismatch"))
                        \/ came = Came(Spent(k, host.s), host.result)
<1> SUFFICES refused \/ served
  OBVIOUS
<1>1. came = EffectExchange(k, control, frame, approval, declared)
  BY DEF TransportExchange
<1>2. /\ begun = [begun EXCEPT !.sim = k.sim] /\ begun.sim = k.sim
      /\ begun.targets = k.targets
  BY DEF Begun, SoundStack, IsStack
<1>3. Came(begun, Err("ApprovalTargetMismatch"))
        = Came([begun EXCEPT !.sim = k.sim], Err("ApprovalTargetMismatch"))
  BY <1>2
<1>4. Through(begun, host) = Came([begun EXCEPT !.sim = host.s], host.result)
  BY DEF Through
<1> HIDE DEF host, came
<1>5. RoundTrip(k, Through(begun, host))
        = IF CanBegin(k.boundary) THEN Came(Spent(k, host.s), host.result)
          ELSE Came(k, Err("EffectBoundary"))
  BY <1>4, RoundTripIs
<1>6. RoundTrip(k, Came(begun, Err("ApprovalTargetMismatch")))
        = IF CanBegin(k.boundary)
          THEN Came(Spent(k, k.sim), Err("ApprovalTargetMismatch"))
          ELSE Came(k, Err("EffectBoundary"))
  BY <1>3, RoundTripIs
<1> HIDE DEF begun
<1>7. CASE approval = None
  <2>1. ExchangePacket(k, control, ReadOnlyPacket(frame))
          = RoundTrip(k, Through(begun, host))
    BY <1>2, <1>7 DEF ExchangePacket, HostExchange, ReadOnlyPacket, begun, host
  <2>2. came = Came(k, Err("EffectBoundary")) \/ came = RoundTrip(k, Through(begun, host))
    BY <1>1, <1>7, <2>1 DEF EffectExchange
  <2> QED  BY <1>5, <2>2
<1>8. CASE approval # None
  <2>1. \/ ExchangePacket(k, control, ApprovedPacket(frame, approval))
             = RoundTrip(k, Through(begun, host))
        \/ ExchangePacket(k, control, ApprovedPacket(frame, approval))
             = RoundTrip(k, Came(begun, Err("ApprovalTargetMismatch")))
    BY <1>2, <1>8 DEF ExchangePacket, HostExchange, ApprovedPacket, begun, host
  <2>2. \/ came \in {Came(k, Err("EffectBoundary")), Came(k, Err("ApprovalTargetMismatch")),
                     Came(k, Err("ApprovalRecoveryMismatch"))}
        \/ came = ExchangePacket(k, control, ApprovedPacket(frame, approval))
    BY <1>1, <1>8 DEF EffectExchange
  <2> QED  BY <1>5, <1>6, <2>1, <2>2
<1> QED  BY <1>7, <1>8

(* A stack stays sound whatever is exchanged over it. *)
LEMMA ExchangeKept ==
  ASSUME NEW k, SoundStack(k), NEW frame,
         NEW approval \in Approvals(Recoveries) \cup {None}, NEW declared
  PROVE  Kept(k, TransportExchange(k, control, frame, approval, declared).stack)
<1> DEFINE r == TransportExchange(k, control, frame, approval, declared).stack
<1>1. CASE k.boundary = None
  <2> DEFINE t == SimExchange(k.sim, control, frame, approval, declared).s
  <2>1. r = [k EXCEPT !.sim = t]
    BY <1>1 DEF TransportExchange, Through, Came
  <2>2. SoundSim(t) /\ t.kind = k.sim.kind
    BY SimExchangeSound DEF SoundStack
  <2> HIDE DEF r, t
  <2>3. Kept(k, r)
    BY <2>1, <2>2, KeptSim
  <2> QED  BY <2>3 DEF r
<1>2. CASE k.boundary # None
  <2> DEFINE t == SimExchange(k.sim, control, frame, approval,
                              IF approval = None THEN None ELSE approval.recovery).s
  <2>1. \/ r = k
        \/ CanBegin(k.boundary) /\ (r = Spent(k, k.sim) \/ r = Spent(k, t))
    BY <1>2, BehindEffects DEF Came
  <2>2. SoundSim(t) /\ t.kind = k.sim.kind
    BY SimExchangeSound DEF SoundStack
  <2>3. SoundSim(k.sim)
    BY DEF SoundStack
  <2> HIDE DEF r, t
  <2>4. Kept(k, r)
    BY <1>2, <2>1, <2>2, <2>3, KeptItself, KeptSpent
  <2> QED  BY <2>4 DEF r
<1> QED  BY <1>1, <1>2

LEMMA OpenKept ==
  ASSUME NEW k, SoundStack(k)
  PROVE  Kept(k, TransportOpen(k, control).stack)
<1> DEFINE t == SimOpen(k.sim, control)
           r == TransportOpen(k, control).stack
<1>1. SoundSim(t.s) /\ t.s.kind = k.sim.kind
  BY SimControlSound DEF SoundStack
<1>2. CASE k.boundary = None
  <2>1. r = [k EXCEPT !.sim = t.s]
    BY <1>2 DEF TransportOpen, Through, Came
  <2> HIDE DEF r, t
  <2>2. Kept(k, r)
    BY <1>1, <2>1, KeptSim
  <2> QED  BY <2>2 DEF r
<1>3. CASE k.boundary # None
  <2>1. Begun(k, "open").sim = k.sim
    BY DEF Begun, SoundStack, IsStack
  <2>2. TransportOpen(k, control)
          = RoundTrip(k, Came([Begun(k, "open") EXCEPT !.sim = t.s], t.result))
    BY <1>3, <2>1 DEF TransportOpen, Through
  <2> HIDE DEF t
  <2>3. r = (IF CanBegin(k.boundary) THEN Came(Spent(k, t.s), t.result)
             ELSE Came(k, Err("EffectBoundary"))).stack
    BY <1>3, <2>2, RoundTripIs
  <2>4. r = k \/ (CanBegin(k.boundary) /\ r = Spent(k, t.s))
    BY <2>3 DEF Came
  <2> HIDE DEF r
  <2>5. Kept(k, r)
    BY <1>1, <1>3, <2>4, KeptItself, KeptSpent
  <2> QED  BY <2>5 DEF r
<1> QED  BY <1>2, <1>3

LEMMA CloseKept ==
  ASSUME NEW k, SoundStack(k)
  PROVE  Kept(k, TransportClose(k).stack)
<1> DEFINE t == SimClose(k.sim)
           r == TransportClose(k).stack
<1>1. SoundSim(t) /\ t.kind = k.sim.kind
  BY SimControlSound DEF SoundStack
<1>2. CASE k.boundary = None
  <2>1. r = [k EXCEPT !.sim = t]
    BY <1>2 DEF TransportClose, Came
  <2> HIDE DEF r, t
  <2>2. Kept(k, r)
    BY <1>1, <2>1, KeptSim
  <2> QED  BY <2>2 DEF r
<1>3. CASE k.boundary # None
  <2> DEFINE trip == RoundTrip(k, Came([Begun(k, "close") EXCEPT !.sim = t], Ok(None)))
  <2>1. Begun(k, "close").sim = k.sim
    BY DEF Begun, SoundStack, IsStack
  <2>2. TransportClose(k) = [trip EXCEPT !.result = Ok(None)]
    BY <1>3, <2>1 DEF TransportClose
  <2> HIDE DEF t
  <2>3. trip = IF CanBegin(k.boundary) THEN Came(Spent(k, t), Ok(None))
               ELSE Came(k, Err("EffectBoundary"))
    BY <1>3, RoundTripIs
  <2> HIDE DEF trip
  <2>4. r = k \/ (CanBegin(k.boundary) /\ r = Spent(k, t))
    BY <2>2, <2>3 DEF Came
  <2> HIDE DEF r
  <2>5. Kept(k, r)
    BY <1>1, <1>3, <2>4, KeptItself, KeptSpent
  <2> QED  BY <2>5 DEF r
<1> QED  BY <1>2, <1>3

-----------------------------------------------------------------------------
(* One executor. *)

SoundExecutor(x) ==
  /\ IsExecutor(x) /\ SoundStack(x.transport)
  /\ x.correlator = [outstanding |-> <<>>, last |-> x.correlator.last]

KeptBy(x, r) ==
  SoundExecutor(r) /\ r.target = x.target /\ Kept(x.transport, r.transport)

LEMMA KeptTwice ==
  ASSUME NEW k, SoundStack(k), NEW r, Kept(k, r), NEW l, Kept(r, l)
  PROVE  Kept(k, l)
<1>1. /\ k.boundary # None => k.boundary.nextId \in Nat
      /\ r.boundary # None => r.boundary.nextId \in Nat
      /\ l.boundary # None => l.boundary.nextId \in Nat
  BY RequestIdAssumption DEF Kept, SoundStack, Coordinators
<1> QED  BY <1>1 DEF Kept

LEMMA OnTransportKept ==
  ASSUME NEW x, SoundExecutor(x), NEW came, Kept(x.transport, came.stack)
  PROVE  KeptBy(x, OnTransport(x, came).x) /\ OnTransport(x, came).result = came.result
<1> DEFINE r == OnTransport(x, came).x
<1>1. /\ IsExecutor(r) /\ r.target = x.target /\ r.transport = came.stack
      /\ r.correlator = x.correlator
  BY DEF OnTransport, Ran, SoundExecutor, IsExecutor
<1>2. OnTransport(x, came).result = came.result
  BY DEF OnTransport, Ran
<1> HIDE DEF r
<1>3. SoundStack(came.stack)
  BY DEF Kept
<1>4. SoundExecutor(r)
  BY <1>1, <1>3 DEF SoundExecutor
<1>5. KeptBy(x, r)
  BY <1>1, <1>4 DEF KeptBy
<1> QED  BY <1>2, <1>5 DEF r

(* The one request of an exchange is answered or forgotten. *)
LEMMA ExchangeKeptBy ==
  ASSUME NEW x, SoundExecutor(x), NEW command, NEW payload,
         NEW approval \in Approvals(Recoveries) \cup {None}, NEW declared
  PROVE  KeptBy(x, Exchange(x, control, command, payload, approval, declared).x)
<1> DEFINE asked == OnRequest(x.correlator, command)
           came == TransportExchange(x.transport, control, RequestFrame(command, payload),
                                     approval, declared)
           r == Exchange(x, control, command, payload, approval, declared).x
<1>1. asked = [outstanding |-> <<command>>, last |-> x.correlator.last]
  BY DEF OnRequest, SoundExecutor
<1>2. OnReply(asked, command) = [outstanding |-> <<>>, last |-> command]
  BY <1>1 DEF OnReply, ReplyClass
<1>3. Kept(x.transport, came.stack)
  BY ExchangeKept DEF SoundExecutor
<1>4. \/ r = [[[x EXCEPT !.transport = came.stack] EXCEPT !.correlator = asked]
                EXCEPT !.correlator = NewCorrelator]
      \/ r = [[x EXCEPT !.transport = came.stack] EXCEPT !.correlator = OnReply(asked, command)]
  BY DEF Exchange, Failed, Ran
<1> HIDE DEF asked, came, r
<1>5. PICK last : r = [target |-> x.target, transport |-> came.stack,
                       correlator |-> [outstanding |-> <<>>, last |-> last]]
  BY <1>2, <1>4 DEF SoundExecutor, IsExecutor, NewCorrelator
<1>6. /\ IsExecutor(r) /\ r.target = x.target /\ r.transport = came.stack
      /\ r.correlator = [outstanding |-> <<>>, last |-> r.correlator.last]
  BY <1>5 DEF IsExecutor
<1>7. SoundExecutor(r)
  BY <1>3, <1>6 DEF SoundExecutor, Kept
<1>8. KeptBy(x, r)
  BY <1>3, <1>6, <1>7 DEF KeptBy
<1> QED  BY <1>8 DEF r

LEMMA ItselfKeptBy ==
  ASSUME NEW x, SoundExecutor(x)
  PROVE  KeptBy(x, x)
BY KeptItself DEF KeptBy, SoundExecutor

LEMMA ReadKeptBy ==
  ASSUME NEW x, SoundExecutor(x), NEW state, NEW command
  PROVE  KeptBy(x, Read(x, control, state, command).x)
<1> DEFINE r == Exchange(x, control, command, <<>>, None, None)
<1>1. KeptBy(x, r.x)
  BY ExchangeKeptBy
<1>2. Read(x, control, state, command).x = x \/ Read(x, control, state, command) = r
  BY DEF Read, Ran
<1> HIDE DEF r
<1> QED  BY <1>1, <1>2, ItselfKeptBy

LEMMA WriteKeptBy ==
  ASSUME NEW x, SoundExecutor(x), NEW state, NEW command, NEW flags,
         NEW approval \in Approvals(Recoveries), NEW declared
  PROVE  KeptBy(x, Write(x, control, state, command, flags, approval, declared).x)
<1> DEFINE went == Exchange(x, control, command, PayloadOf(command, flags), approval, declared)
           r == Write(x, control, state, command, flags, approval, declared).x
<1>1. KeptBy(x, went.x)
  BY ExchangeKeptBy
<1>2. r = x \/ r = went.x
  BY DEF Write, Ran
<1> HIDE DEF went, r
<1>3. KeptBy(x, r)
  BY <1>1, <1>2, ItselfKeptBy
<1> QED  BY <1>3 DEF r

(* A round of the identification exchanges at most one frame. *)
IsRun(run) == run = [stack |-> run.stack, i |-> run.i, result |-> run.result]

RoundMakes(run, came) ==
  LET told == AcceptResponse(Requested(run.i), came.result.frame)
  IN  IF run.result # None THEN run
      ELSE IF ~CanRequest(run.i) THEN [run EXCEPT !.result = Err("RequestRefused")]
      ELSE IF ~came.result.ok THEN [run EXCEPT !.stack = came.stack, !.result = came.result]
      ELSE IF came.result.frame = None
        THEN [run EXCEPT !.stack = came.stack, !.result = Err("Decode")]
      ELSE [stack |-> came.stack, i |-> told.i, result |-> IdentifyResult(told.result)]

LEMMA RoundIs ==
  \A run :
    IdentifyRound(run, control)
      = RoundMakes(run, TransportExchange(run.stack, control,
                                          RequestFrame(run.i.stage, <<>>), None, None))
BY DEF IdentifyRound, RoundMakes

LEMMA RoundMakesRun ==
  ASSUME NEW run, IsRun(run), NEW came
  PROVE  /\ IsRun(RoundMakes(run, came))
         /\ RoundMakes(run, came).stack \in {run.stack, came.stack}
<1>1. CASE run.result # None
  BY <1>1 DEF RoundMakes
<1>2. CASE run.result = None /\ ~CanRequest(run.i)
  BY <1>2 DEF RoundMakes, IsRun
<1>3. CASE run.result = None /\ CanRequest(run.i) /\ ~came.result.ok
  BY <1>3 DEF RoundMakes, IsRun
<1>4. CASE /\ run.result = None /\ CanRequest(run.i)
           /\ came.result.ok /\ came.result.frame = None
  BY <1>4 DEF RoundMakes, IsRun
<1>5. CASE /\ run.result = None /\ CanRequest(run.i)
           /\ came.result.ok /\ came.result.frame # None
  BY <1>5 DEF RoundMakes, IsRun
<1> QED  BY <1>1, <1>2, <1>3, <1>4, <1>5

LEMMA RoundKept ==
  ASSUME NEW k, SoundStack(k), NEW run, IsRun(run), Kept(k, run.stack)
  PROVE  IsRun(IdentifyRound(run, control)) /\ Kept(k, IdentifyRound(run, control).stack)
<1> DEFINE came == TransportExchange(run.stack, control, RequestFrame(run.i.stage, <<>>),
                                     None, None)
           next == IdentifyRound(run, control)
<1>1. Kept(run.stack, came.stack)
  BY ExchangeKept DEF Kept
<1>2. next = RoundMakes(run, came)
  BY RoundIs
<1> HIDE DEF came, next
<1>3. IsRun(next) /\ next.stack \in {run.stack, came.stack}
  BY <1>2, RoundMakesRun
<1>4. Kept(k, next.stack)
  BY <1>1, <1>3, KeptTwice
<1> QED  BY <1>3, <1>4 DEF next

LEMMA IdentifyKeptBy ==
  ASSUME NEW x, SoundExecutor(x), NEW state
  PROVE  KeptBy(x, Identify(x, control, state).x)
<1> DEFINE Round(run) == IdentifyRound(run, control)
           Run(run) == IsRun(run) /\ Kept(x.transport, run.stack)
           start == [stack |-> x.transport, i |-> NewIdentification, result |-> None]
           last  == Round(Round(Round(Round(start))))
           r == Identify(x, control, state).x
<1>1. SoundStack(x.transport)
  BY DEF SoundExecutor
<1>2. Run(start)
  BY <1>1, KeptItself DEF IsRun
<1>3. ASSUME NEW run, Run(run)
      PROVE  Run(Round(run))
  BY <1>1, <1>3, RoundKept
<1>4. r = x \/ r = OnTransport(x, Came(last.stack, last.result)).x
  BY DEF Identify, EachStage, Ran, OnTransport, Came
<1> HIDE DEF Run, Round, start, r
<1>5. Run(last)
  BY <1>2, <1>3
<1> HIDE DEF last
<1>6. KeptBy(x, OnTransport(x, Came(last.stack, last.result)).x)
  BY <1>5, OnTransportKept DEF Run, Came
<1>7. KeptBy(x, r)
  BY <1>4, <1>6, ItselfKeptBy
<1> QED  BY <1>7 DEF r

LEMMA PhaseKeptBy ==
  ASSUME NEW x, SoundExecutor(x), NEW phase \in {"Identifying", "Operational"}
  PROVE  KeptBy(x, [x EXCEPT !.transport = InPhase(@, phase)])
<1> DEFINE s == [x.transport.sim EXCEPT !.phase = phase]
           k == [x.transport EXCEPT !.sim = s]
<1>1. SoundStack(x.transport) /\ SoundSim(x.transport.sim)
  BY DEF SoundExecutor, SoundStack
<1>2. Kept(x.transport, k)
  BY <1>1, KeptSim, SimControlSound
<1>3. InPhase(x.transport, phase) = k
  BY DEF InPhase
<1>4. [x EXCEPT !.transport = InPhase(@, phase)] = OnTransport(x, Came(k, None)).x
  BY <1>3 DEF OnTransport, Came, Ran
<1>5. Came(k, None).stack = k
  BY DEF Came
<1> HIDE DEF k
<1> QED  BY <1>2, <1>4, <1>5, OnTransportKept

(* What a call starts from is what the last one left. *)
LEMMA FreshKeptBy ==
  ASSUME NEW x, SoundExecutor(x)
  PROVE  KeptBy(x, Fresh(x))
<1> DEFINE s == [x.transport.sim EXCEPT !.arrived = None]
           k == [x.transport EXCEPT !.sim = s]
<1>1. SoundStack(x.transport) /\ SoundSim(x.transport.sim)
  BY DEF SoundExecutor, SoundStack
<1>2. Kept(x.transport, k)
  BY <1>1, KeptSim, SimControlSound
<1>3. Fresh(x) = [x EXCEPT !.transport = k]
  BY DEF Fresh
<1>4. Fresh(x) = OnTransport(x, Came(k, None)).x
  BY <1>3 DEF OnTransport, Came, Ran
<1>5. Came(k, None).stack = k
  BY DEF Came
<1> HIDE DEF k
<1> QED  BY <1>2, <1>4, <1>5, OnTransportKept

-----------------------------------------------------------------------------
(* Both executors. *)

SoundParity ==
  /\ SoundExecutor(direct) /\ SoundExecutor(effects)
  /\ direct.transport.boundary = None
  /\ effects.transport.boundary # None

LEMMA SoundInitially ==
  ASSUME ParityInit
  PROVE  SoundParity
<1>1. PICK w \in Worlds :
        /\ direct = NewExecutor(w.targets.executor, NewStack(w.sim, None, w.targets))
        /\ effects = NewExecutor(w.targets.executor,
                                 NewStack(w.sim, NewCoordinator, w.targets))
  BY DEF ParityInit
<1>2. w.sim = NewSim(w.sim.kind, w.sim.fc, w.sim.schedule, w.sim.steps)
  BY ParityAssumption
<1> DEFINE s == w.sim
<1>3. /\ IsSim(s) /\ s.phase = "Identifying" /\ s.sent = 0 /\ s.blocked = 0
      /\ s.cursor = 0 /\ s.arrived = None
  BY <1>2 DEF NewSim, IsSim
<1> HIDE DEF s
<1>4. SoundSim(s)
  BY <1>3 DEF SoundSim, Evidence, Followed
<1>5. NewCoordinator \in Coordinators(TransportKinds)
  BY RequestIdAssumption DEF NewCoordinator, Coordinators
<1>6. NewCoordinator # None /\ NewCoordinator.awaited = None
  BY <1>5, NoneAssumption DEF NewCoordinator
<1>7. ASSUME NEW boundary \in {None, NewCoordinator}
      PROVE  /\ SoundExecutor(NewExecutor(w.targets.executor,
                                          NewStack(s, boundary, w.targets)))
             /\ NewExecutor(w.targets.executor,
                            NewStack(s, boundary, w.targets)).transport.boundary = boundary
  <2> DEFINE k == NewStack(s, boundary, w.targets)
             x == NewExecutor(w.targets.executor, k)
  <2>1. /\ IsStack(k) /\ k.sim = s /\ k.boundary = boundary
    BY DEF NewStack, IsStack
  <2> HIDE DEF k
  <2>2. SoundStack(k)
    BY <1>4, <1>5, <1>6, <2>1 DEF SoundStack
  <2>3. /\ IsExecutor(x) /\ x.transport = k
        /\ x.correlator = [outstanding |-> <<>>, last |-> x.correlator.last]
    BY DEF NewExecutor, NewCorrelator, IsExecutor
  <2> HIDE DEF x
  <2>4. SoundExecutor(x) /\ x.transport.boundary = boundary
    BY <2>1, <2>2, <2>3 DEF SoundExecutor
  <2> QED  BY <2>4 DEF x, k
<1> QED  BY <1>1, <1>6, <1>7 DEF SoundParity, s

(* What both stacks made of one call. *)
LEMMA CallSound ==
  ASSUME SoundParity,
         KeptBy(Fresh(direct), direct'), KeptBy(Fresh(effects), effects')
  PROVE  SoundParity'
<1>1. /\ KeptBy(direct, Fresh(direct)) /\ KeptBy(effects, Fresh(effects))
  BY FreshKeptBy DEF SoundParity
<1>2. Fresh(direct).transport.boundary = None /\ Fresh(effects).transport.boundary # None
  BY <1>1 DEF SoundParity, KeptBy, Kept
<1>3. direct'.transport.boundary = None /\ effects'.transport.boundary # None
  BY <1>2 DEF KeptBy, Kept
<1> QED  BY <1>3 DEF SoundParity, KeptBy

LEMMA StepSound ==
  ASSUME SoundParity, [ParityNext]_parityVars
  PROVE  SoundParity'
<1> DEFINE d == Fresh(direct)
           e == Fresh(effects)
<1>1. SoundExecutor(d) /\ SoundExecutor(e)
  BY FreshKeptBy DEF SoundParity, KeptBy
<1>2. SoundStack(d.transport) /\ SoundStack(e.transport)
  BY <1>1 DEF SoundExecutor
<1> SUFFICES \/ KeptBy(d, direct') /\ KeptBy(e, effects')
             \/ UNCHANGED <<direct, effects>>
  BY CallSound DEF SoundParity
<1>3. CASE Open
  <2>1. /\ direct' = OnTransport(d, TransportOpen(d.transport, control)).x
        /\ effects' = OnTransport(e, TransportOpen(e.transport, control)).x
    BY <1>3 DEF Open, Call
  <2> HIDE DEF d, e
  <2> QED  BY <1>1, <1>2, <2>1, OpenKept, OnTransportKept
<1>4. CASE Close
  <2>1. /\ direct' = OnTransport(d, TransportClose(d.transport)).x
        /\ effects' = OnTransport(e, TransportClose(e.transport)).x
    BY <1>4 DEF Close, Call
  <2> HIDE DEF d, e
  <2> QED  BY <1>1, <1>2, <2>1, CloseKept, OnTransportKept
<1>5. CASE ChangePhase
  <2>1. PICK phase \in {"Identifying", "Operational"} :
          /\ direct' = [d EXCEPT !.transport = InPhase(@, phase)]
          /\ effects' = [e EXCEPT !.transport = InPhase(@, phase)]
    BY <1>5 DEF ChangePhase, Call, Ran
  <2> HIDE DEF d, e
  <2> QED  BY <1>1, <2>1, PhaseKeptBy
<1>6. CASE CallRead
  <2>1. PICK state \in CallerStates :
          /\ direct' = Read(d, control, state, "BeeperConfig").x
          /\ effects' = Read(e, control, state, "BeeperConfig").x
    BY <1>6 DEF CallRead, Call
  <2> HIDE DEF d, e
  <2> QED  BY <1>1, <2>1, ReadKeptBy
<1>7. CASE CallWrite
  <2>1. PICK state \in CallerStates, w \in Writes, approval \in Granted,
             declared \in Recoveries :
          /\ direct' = Write(d, control, state, w.command, w.flags, approval, declared).x
          /\ effects' = Write(e, control, state, w.command, w.flags, approval, declared).x
    <3>1. \E state \in CallerStates, w \in Writes, approval \in Granted,
             declared \in Recoveries :
             Call(w, LAMBDA x : Write(x, control, state, w.command, w.flags,
                                      approval, declared))
      BY <1>7 DEF CallWrite
    <3>2. PICK state \in CallerStates, w \in Writes, approval \in Granted,
               declared \in Recoveries :
             Call(w, LAMBDA x : Write(x, control, state, w.command, w.flags,
                                      approval, declared))
      BY <3>1
    <3>3. /\ direct' = Write(d, control, state, w.command, w.flags, approval, declared).x
          /\ effects' = Write(e, control, state, w.command, w.flags, approval, declared).x
      BY <3>2 DEF Call
    <3> QED  BY <3>3
  <2>2. approval \in Approvals(Recoveries)
    BY DEF Granted
  <2> HIDE DEF d, e
  <2> QED  BY <1>1, <2>1, <2>2, WriteKeptBy
<1>8. CASE CallIdentify
  <2>1. PICK state \in CallerStates :
          /\ direct' = Identify(d, control, state).x
          /\ effects' = Identify(e, control, state).x
    BY <1>8 DEF CallIdentify, Call
  <2> HIDE DEF d, e
  <2> QED  BY <1>1, <2>1, IdentifyKeptBy
<1>9. CASE CallRaw
  <2>1. \E frame \in RawFrames, approval \in Granted \cup {None} :
        \E declared \in IF approval = None THEN {None} ELSE Recoveries :
          /\ direct' = OnTransport(d, TransportExchange(d.transport, control, frame,
                                                        approval, declared)).x
          /\ effects' = OnTransport(e, TransportExchange(e.transport, control, frame,
                                                         approval, declared)).x
    BY <1>9 DEF CallRaw, Call
  <2> HIDE DEF d, e
  <2>2. PICK frame \in RawFrames, approval \in Granted \cup {None} :
        \E declared \in IF approval = None THEN {None} ELSE Recoveries :
          /\ direct' = OnTransport(d, TransportExchange(d.transport, control, frame,
                                                        approval, declared)).x
          /\ effects' = OnTransport(e, TransportExchange(e.transport, control, frame,
                                                         approval, declared)).x
    BY <2>1
  <2>3. approval \in Approvals(Recoveries) \cup {None}
    BY DEF Granted
  <2> QED  BY <1>1, <1>2, <2>2, <2>3, ExchangeKept, OnTransportKept
<1>10. CASE SetControl
  BY <1>10 DEF SetControl
<1>11. CASE UNCHANGED parityVars
  BY <1>11 DEF parityVars
<1> QED  BY <1>3, <1>4, <1>5, <1>6, <1>7, <1>8, <1>9, <1>10, <1>11 DEF ParityNext

LEMMA AlwaysSound == ParitySpec => []SoundParity
<1>1. ParityInit => SoundParity
  BY SoundInitially
<1>2. SoundParity /\ [ParityNext]_parityVars => SoundParity'
  BY StepSound
<1> QED  BY <1>1, <1>2, PTL DEF ParitySpec

(* Between two calls no effect is in flight and no request outstanding, on    *)
(* either stack, whatever the last call ended with.                         *)
THEOREM NothingIsLeftBehind == ParitySpec => []NothingOutstanding
<1>1. SoundParity => NothingOutstanding
  <2> SUFFICES ASSUME SoundParity
               PROVE  NothingOutstanding
    OBVIOUS
  <2>1. effects.transport.boundary.awaited = None
    BY DEF SoundParity, SoundExecutor, SoundStack
  <2>2. direct.correlator.outstanding = <<>> /\ effects.correlator.outstanding = <<>>
    BY DEF SoundParity, SoundExecutor
  <2> QED  BY <2>1, <2>2 DEF NothingOutstanding, Stacks
<1> QED  BY <1>1, AlwaysSound, PTL

(* Whatever the wiring, a write reaches a device or a transcript only outside *)
(* identification and with an approval for its class, for this simulation   *)
(* and for the recovery declared.                                           *)
THEOREM WritesAreApproved == ParitySpec => []OnlyApprovedWritesArrive
<1>1. SoundParity => OnlyApprovedWritesArrive
  <2> SUFFICES ASSUME SoundParity, NEW s \in Sims
               PROVE  Evidence(s)
    BY DEF OnlyApprovedWritesArrive, Evidence
  <2> QED  BY DEF Sims, Stacks, SoundParity, SoundExecutor, SoundStack, SoundSim
<1> QED  BY <1>1, AlwaysSound, PTL

(* A replay that reports no divergence has heard its transcript's frames in  *)
(* order and nothing else.                                                  *)
THEOREM ReplaysAreFaithful == ParitySpec => []NoDivergenceMeansFaithful
<1>1. SoundParity => NoDivergenceMeansFaithful
  <2> SUFFICES ASSUME SoundParity, NEW s \in Sims
               PROVE  Followed(s)
    BY DEF NoDivergenceMeansFaithful, Followed
  <2> QED  BY DEF Sims, Stacks, SoundParity, SoundExecutor, SoundStack, SoundSim
<1> QED  BY <1>1, AlwaysSound, PTL

-----------------------------------------------------------------------------
(* Two simulations that have gone through the same. *)

Alike(s, t) ==
  /\ Visible(s) = Visible(t)
  /\ s.kind = t.kind /\ s.schedule = t.schedule /\ s.steps = t.steps

(* The same, field by field. *)
LEMMA AlikeFields ==
  \A s, t :
    Alike(s, t) <=>
      /\ s.phase = t.phase /\ s.open = t.open /\ s.fc = t.fc /\ s.calls = t.calls
      /\ s.cursor = t.cursor /\ s.sent = t.sent
      /\ s.kind = t.kind /\ s.schedule = t.schedule /\ s.steps = t.steps
BY DEF Alike, Visible

(* A refusal, which the caller can tell from a reply that did not decode. *)
Refuses(result) == \E e : e # "Decode" /\ result = Err(e)

LEMMA DivergedAlike ==
  ASSUME NEW s, IsSim(s), NEW error
  PROVE  IsSim(Diverged(s, error)) /\ Alike(s, Diverged(s, error))
<1> DEFINE t == Diverged(s, error)
<1>1. PICK d : t = [s EXCEPT !.divergence = d]
  BY DEF Diverged, IsSim
<1> HIDE DEF t
<1>2. IsSim(t) /\ Alike(s, t)
  BY <1>1, AlikeFields DEF IsSim
<1> QED  BY <1>2 DEF t

(* What a simulation refuses changes nothing a caller sees. *)
LEMMA RefusedUnseen ==
  ASSUME NEW s, SoundSim(s), NEW frame, NEW approval, NEW declared,
         control \in {"none", "Cancelled", "DeadlineExceeded"},
         \/ frame = None
         \/ GuardRefusal(s, frame.command, approval, declared) # "none"
  PROVE  LET done == SimExchange(s, control, frame, approval, declared)
         IN  Alike(s, done.s) /\ Refuses(done.result)
<1> DEFINE refusal == GuardRefusal(s, frame.command, approval, declared)
           blocked == AuditedBlocked(s)
           done == SimExchange(s, control, frame, approval, declared)
<1> SUFFICES Alike(s, done.s) /\ Refuses(done.result)
  OBVIOUS
<1>1. Alike(s, s)
  BY AlikeFields
<1>2. CASE ~s.open \/ control # "none" \/ frame = None
  <2>1. \E e \in {"NotOpen", "Cancelled", "DeadlineExceeded", "Malformed"} :
          done = Done(s, Err(e))
    BY <1>2 DEF SimExchange
  <2> HIDE DEF done
  <2> QED  BY <1>1, <2>1 DEF Done, Refuses
<1>3. CASE s.open /\ control = "none" /\ frame # None
  <2>1. refusal # "none"
    BY <1>3
  <2>2. refusal # "Decode"
    BY DEF GuardRefusal, IdentifyRefusal, AuthorityRefusal
  <2>3. done = Done(IF s.kind = "Replay" THEN Diverged(blocked, refusal) ELSE blocked,
                    Err(refusal))
    BY <1>3, <2>1 DEF SimExchange
  <2>4. IsSim(blocked) /\ Alike(s, blocked)
    BY AlikeFields DEF AuditedBlocked, SoundSim, IsSim
  <2> HIDE DEF refusal, blocked, done
  <2>5. Alike(blocked, Diverged(blocked, refusal))
    BY <2>4, DivergedAlike
  <2>6. Alike(s, done.s)
    BY <2>3, <2>4, <2>5 DEF Alike, Done
  <2>7. Refuses(done.result)
    BY <2>2, <2>3 DEF Done, Refuses
  <2> QED  BY <2>6, <2>7
<1> QED  BY <1>2, <1>3

Passed(s, evidence) == [AuditedSent(s) EXCEPT !.arrived = evidence]

LEMMA PassedFields ==
  ASSUME NEW s, IsSim(s), NEW evidence
  PROVE  LET p == Passed(s, evidence)
         IN  /\ IsSim(p) /\ p.phase = s.phase /\ p.open = s.open
             /\ p.fc = s.fc /\ p.calls = s.calls /\ p.cursor = s.cursor
             /\ p.sent = s.sent + 1 /\ p.kind = s.kind
             /\ p.schedule = s.schedule /\ p.steps = s.steps
<1> DEFINE p == Passed(s, evidence)
<1>1. p = [s EXCEPT !.sent = s.sent + 1, !.arrived = evidence]
  BY DEF Passed, AuditedSent, IsSim
<1> HIDE DEF p
<1>2. /\ IsSim(p) /\ p.phase = s.phase /\ p.open = s.open
      /\ p.fc = s.fc /\ p.calls = s.calls /\ p.cursor = s.cursor
      /\ p.sent = s.sent + 1 /\ p.kind = s.kind
      /\ p.schedule = s.schedule /\ p.steps = s.steps
  BY <1>1 DEF IsSim
<1> QED  BY <1>2 DEF p

(* What two such simulations make of the same request is the same. *)
LEMMA SimsStayAlike ==
  ASSUME NEW s, SoundSim(s), NEW t, SoundSim(t), Alike(s, t), NEW frame,
         NEW approval, NEW declared
  PROVE  LET ds == SimExchange(s, control, frame, approval, declared)
             dt == SimExchange(t, control, frame, approval, declared)
         IN  Alike(ds.s, dt.s) /\ ds.result = dt.result
<1> DEFINE evidence(a) == [frame |-> frame, approval |-> approval,
                           declared |-> declared, phase |-> a.phase]
           passed(a) == Passed(a, evidence(a))
           blocked(a) == AuditedBlocked(a)
           refusal(a) == GuardRefusal(a, frame.command, approval, declared)
           ds == SimExchange(s, control, frame, approval, declared)
           dt == SimExchange(t, control, frame, approval, declared)
<1> SUFFICES Alike(ds.s, dt.s) /\ ds.result = dt.result
  OBVIOUS
<1>1. /\ s.phase = t.phase /\ s.open = t.open /\ s.fc = t.fc /\ s.calls = t.calls
      /\ s.cursor = t.cursor /\ s.sent = t.sent
      /\ s.kind = t.kind /\ s.schedule = t.schedule /\ s.steps = t.steps
  BY AlikeFields
<1>2. IsSim(s) /\ IsSim(t)
  BY DEF SoundSim
<1>3. refusal(s) = refusal(t)
  BY <1>1 DEF GuardRefusal
<1>4. CASE ~s.open \/ control # "none" \/ frame = None
  BY <1>1, <1>4 DEF SimExchange, Done
<1>5. CASE s.open /\ control = "none" /\ frame # None /\ refusal(s) # "none"
  <2>1. ASSUME NEW a \in {s, t}
        PROVE  /\ IsSim(blocked(a)) /\ Alike(a, blocked(a))
               /\ blocked(a).kind = a.kind
    BY <1>2, AlikeFields DEF AuditedBlocked, IsSim
  <2>2. ASSUME NEW a \in {s, t}
        PROVE  /\ SimExchange(a, control, frame, approval, declared).result = Err(refusal(a))
               /\ SimExchange(a, control, frame, approval, declared).s
                    \in {blocked(a), Diverged(blocked(a), refusal(a))}
    BY <1>1, <1>3, <1>5 DEF SimExchange, Done
  <2> HIDE DEF blocked, refusal
  <2>3. ASSUME NEW a \in {s, t}
        PROVE  Alike(blocked(a), Diverged(blocked(a), refusal(a)))
    BY <2>1, DivergedAlike
  <2>4. ASSUME NEW a \in {s, t}
        PROVE  Alike(a, SimExchange(a, control, frame, approval, declared).s)
    BY <2>1, <2>2, <2>3 DEF Alike
  <2>5. Alike(s, ds.s) /\ Alike(t, dt.s)
    BY <2>4
  <2>6. ds.result = dt.result
    BY <1>3, <2>2
  <2> HIDE DEF ds, dt
  <2> QED  BY <2>5, <2>6 DEF Alike
<1>6. CASE s.open /\ control = "none" /\ frame # None /\ refusal(s) = "none"
  <2> DEFINE p == passed(s)
             q == passed(t)
  <2>1. ASSUME NEW a \in {s, t}
        PROVE  /\ IsSim(passed(a))
               /\ passed(a).phase = a.phase /\ passed(a).open = a.open
               /\ passed(a).fc = a.fc /\ passed(a).calls = a.calls
               /\ passed(a).cursor = a.cursor /\ passed(a).sent = a.sent + 1
               /\ passed(a).kind = a.kind /\ passed(a).schedule = a.schedule
               /\ passed(a).steps = a.steps
    BY <1>2, PassedFields
  <2>2. IsSim(p) /\ IsSim(q)
    BY <2>1
  <2>3. /\ p.phase = q.phase /\ p.open = q.open /\ p.fc = q.fc /\ p.calls = q.calls
        /\ p.cursor = q.cursor /\ p.sent = q.sent
        /\ p.kind = q.kind /\ p.schedule = q.schedule /\ p.steps = q.steps
    BY <1>1, <2>1
  <2>4. /\ ds = IF s.kind = "Mock" THEN Answer(p, frame) ELSE Play(p, frame)
        /\ dt = IF s.kind = "Mock" THEN Answer(q, frame) ELSE Play(q, frame)
    BY <1>1, <1>3, <1>6 DEF SimExchange, Passed
  <2> HIDE DEF p, q, ds, dt
  <2>5. CASE s.kind = "Mock"
    <3>1. ds = Answer(p, frame) /\ dt = Answer(q, frame)
      BY <2>4, <2>5
    <3> DEFINE handled == Respond(p.fc, frame, p.schedule, p.calls)
    <3>2. handled = Respond(q.fc, frame, q.schedule, q.calls)
      BY <2>3
    <3>3. /\ ds = Done([p EXCEPT !.fc = handled.fc, !.calls = @ + 1], handled.result)
          /\ dt = Done([q EXCEPT !.fc = handled.fc, !.calls = @ + 1], handled.result)
      BY <3>1, <3>2 DEF Answer
    <3> HIDE DEF handled
    <3>4. ds.result = dt.result
      BY <3>3 DEF Done
    <3>5. /\ ds.s = [p EXCEPT !.fc = handled.fc, !.calls = p.calls + 1]
          /\ dt.s = [q EXCEPT !.fc = handled.fc, !.calls = q.calls + 1]
      BY <3>3 DEF Done
    <3> DEFINE u == ds.s
               v == dt.s
    <3> HIDE DEF u, v
    <3>6. /\ u.fc = handled.fc /\ u.calls = p.calls + 1 /\ u.phase = p.phase
          /\ u.open = p.open /\ u.cursor = p.cursor /\ u.sent = p.sent
          /\ u.kind = p.kind /\ u.schedule = p.schedule /\ u.steps = p.steps
      BY <2>2, <3>5 DEF IsSim, u
    <3>7. /\ v.fc = handled.fc /\ v.calls = q.calls + 1 /\ v.phase = q.phase
          /\ v.open = q.open /\ v.cursor = q.cursor /\ v.sent = q.sent
          /\ v.kind = q.kind /\ v.schedule = q.schedule /\ v.steps = q.steps
      BY <2>2, <3>5 DEF IsSim, v
    <3>8. Alike(u, v)
      BY <2>3, <3>6, <3>7, AlikeFields
    <3> QED  BY <3>4, <3>8 DEF u, v
  <2>6. CASE s.kind # "Mock"
    <3> DEFINE misplay == Misplay(p, frame)
    <3>1. misplay = Misplay(q, frame)
      BY <2>3 DEF Misplay
    <3>2. ds = Play(p, frame) /\ dt = Play(q, frame)
      BY <2>4, <2>6
    <3> HIDE DEF misplay
    <3>3. CASE misplay # "none"
      <4>1. ds = Done(Diverged(p, misplay), Err(misplay))
        BY <3>2, <3>3 DEF Play, misplay
      <4>2. dt = Done(Diverged(q, misplay), Err(misplay))
        BY <3>1, <3>2, <3>3 DEF Play
      <4>3. Alike(p, Diverged(p, misplay)) /\ Alike(q, Diverged(q, misplay))
        BY <2>2, DivergedAlike
      <4>4. Alike(p, q)
        BY <2>3, AlikeFields
      <4> QED  BY <4>1, <4>2, <4>3, <4>4 DEF Done, Alike
    <3>4. CASE misplay = "none"
      <4>1. ds = Done([p EXCEPT !.cursor = @ + 1], p.steps[p.cursor + 1].response)
        BY <3>2, <3>4 DEF Play, misplay
      <4>2. dt = Done([q EXCEPT !.cursor = @ + 1], q.steps[q.cursor + 1].response)
        BY <3>1, <3>2, <3>4 DEF Play
      <4>3. ds.result = dt.result
        BY <2>3, <4>1, <4>2 DEF Done
      <4>4. /\ ds.s = [p EXCEPT !.cursor = p.cursor + 1]
            /\ dt.s = [q EXCEPT !.cursor = q.cursor + 1]
        BY <4>1, <4>2 DEF Done
      <4>5. Alike(ds.s, dt.s)
        BY <2>2, <2>3, <4>4, AlikeFields DEF IsSim
      <4> QED  BY <4>3, <4>5
    <3> QED  BY <3>3, <3>4
  <2> QED  BY <2>5, <2>6
<1> QED  BY <1>4, <1>5, <1>6

-----------------------------------------------------------------------------
(* Two stacks over such simulations. *)

(* All layers are given the target of the simulation, and ids remain. *)
Wired(k, l) ==
  /\ k.targets = [executor |-> k.sim.kind, effect |-> k.sim.kind, host |-> k.sim.kind]
  /\ l.boundary.nextId < MaxRequestId

Twin(k, l) ==
  /\ SoundStack(k) /\ SoundStack(l)
  /\ k.boundary = None /\ l.boundary # None
  /\ k.targets = l.targets /\ k.sim.kind = l.sim.kind
  /\ Wired(k, l) => Alike(k.sim, l.sim)

(* What the effect adapter asks the host for. *)
Typed(kind, frame, approval, declared) ==
  IF approval = None THEN CanReadOnly(frame)
  ELSE /\ approval.target = kind /\ approval.recovery = declared
       /\ CanApprove(frame, approval)

(* The wiring is never changed, and ids are never given back. *)
LEMMA WiredBefore ==
  ASSUME NEW k, NEW l, Twin(k, l), NEW kk, Kept(k, kk), NEW ll, Kept(l, ll),
         Wired(kk, ll)
  PROVE  /\ Wired(k, l) /\ Alike(k.sim, l.sim) /\ CanBegin(l.boundary)
         /\ l.targets.effect = l.sim.kind /\ l.targets.host = l.sim.kind
<1>1. l.boundary # None /\ ll.boundary # None
  BY DEF Twin, Kept
<1>2. l.boundary.nextId \in Nat /\ ll.boundary.nextId \in Nat
  BY <1>1, RequestIdAssumption DEF Twin, Kept, SoundStack, Coordinators
<1>3. l.boundary.nextId < MaxRequestId
  BY <1>1, <1>2, RequestIdAssumption DEF Kept, Wired
<1>4. k.targets = [executor |-> k.sim.kind, effect |-> k.sim.kind, host |-> k.sim.kind]
  BY DEF Wired, Kept
<1>5. Wired(k, l)
  BY <1>3, <1>4 DEF Wired
<1>6. CanBegin(l.boundary)
  BY <1>1, <1>3 DEF CanBegin, Twin, SoundStack
<1>7. l.targets.effect = l.sim.kind /\ l.targets.host = l.sim.kind
  BY <1>4 DEF Twin
<1> QED  BY <1>5, <1>6, <1>7 DEF Twin

LEMMA TwinKept ==
  ASSUME NEW k, NEW l, Twin(k, l), NEW kk, Kept(k, kk), NEW ll, Kept(l, ll),
         Wired(kk, ll) => Alike(kk.sim, ll.sim)
  PROVE  Twin(kk, ll)
BY DEF Twin, Kept

(* A typed request reaches the simulation behind well-wired effects. *)
LEMMA TypedServed ==
  ASSUME NEW l, SoundStack(l), l.boundary # None, CanBegin(l.boundary),
         l.targets.effect = l.sim.kind, l.targets.host = l.sim.kind,
         NEW frame, NEW approval, NEW declared, approval = None => declared = None,
         Typed(l.sim.kind, frame, approval, declared)
  PROVE  LET host == SimExchange(l.sim, control, frame, approval, declared)
         IN  TransportExchange(l, control, frame, approval, declared)
               = Came(Spent(l, host.s), host.result)
<1> DEFINE host == SimExchange(l.sim, control, frame, approval, declared)
           begun == Begun(l, "exchange")
           came == TransportExchange(l, control, frame, approval, declared)
<1>1. begun.sim = l.sim /\ begun.targets = l.targets
  BY DEF Begun, SoundStack, IsStack
<1>2. came = EffectExchange(l, control, frame, approval, declared)
  BY DEF TransportExchange
<1> HIDE DEF came
<1>3. CASE approval = None
  <2>1. ExchangePacket(l, control, ReadOnlyPacket(frame))
          = RoundTrip(l, Through(begun, host))
    BY <1>1, <1>3 DEF ExchangePacket, HostExchange, ReadOnlyPacket
  <2>2. came = ExchangePacket(l, control, ReadOnlyPacket(frame))
    BY <1>2, <1>3 DEF EffectExchange, Typed
  <2> HIDE DEF begun, host
  <2>3. came = RoundTrip(l, Came([begun EXCEPT !.sim = host.s], host.result))
    BY <2>1, <2>2 DEF Through
  <2>4. came = Came(Spent(l, host.s), host.result)
    BY <2>3, RoundTripIs DEF begun
  <2> QED  BY <2>4 DEF came, host
<1>4. CASE approval # None
  <2>1. approval.target = l.sim.kind /\ approval.recovery = declared /\ CanApprove(frame, approval)
    BY <1>4 DEF Typed
  <2>2. ExchangePacket(l, control, ApprovedPacket(frame, approval))
          = RoundTrip(l, Through(begun, host))
    BY <1>1, <1>4, <2>1 DEF ExchangePacket, HostExchange, ApprovedPacket
  <2>3. came = ExchangePacket(l, control, ApprovedPacket(frame, approval))
    BY <1>2, <1>4, <2>1 DEF EffectExchange
  <2> HIDE DEF begun, host
  <2>4. came = RoundTrip(l, Came([begun EXCEPT !.sim = host.s], host.result))
    BY <2>2, <2>3 DEF Through
  <2>5. came = Came(Spent(l, host.s), host.result)
    BY <2>4, RoundTripIs DEF begun
  <2> QED  BY <2>5 DEF came, host
<1> QED  BY <1>3, <1>4

(* What the adapter does not type, a simulation refuses as well. *)
LEMMA UntypedRefused ==
  ASSUME NEW l, SoundStack(l), l.boundary # None, l.targets.effect = l.sim.kind,
         NEW frame, frame # None => frame.direction = "Request",
         NEW approval \in Approvals(Recoveries) \cup {None}, NEW declared,
         approval = None => declared = None,
         ~Typed(l.sim.kind, frame, approval, declared)
  PROVE  /\ \E e \in {"EffectBoundary", "ApprovalTargetMismatch",
                      "ApprovalRecoveryMismatch"} :
              TransportExchange(l, control, frame, approval, declared) = Came(l, Err(e))
         /\ \/ frame = None
            \/ GuardRefusal(l.sim, frame.command, approval, declared) # "none"
<1> DEFINE came == TransportExchange(l, control, frame, approval, declared)
<1>1. came = EffectExchange(l, control, frame, approval, declared)
  BY DEF TransportExchange
<1>2. came \in {Came(l, Err("EffectBoundary")), Came(l, Err("ApprovalTargetMismatch")),
                Came(l, Err("ApprovalRecoveryMismatch"))}
  BY <1>1 DEF EffectExchange, Typed
<1>3. ASSUME frame # None
      PROVE  AuthorityRefusal(l.sim.kind, frame.command, approval, declared) # "none"
  <2>1. CASE approval = None
    <3>1. frame.command \notin ReadCommands \cup DOMAIN WriteCommands
            \/ ClassOf(frame.command) # "NoWrite"
      BY <1>3, <2>1 DEF Typed, CanReadOnly, IsRequest
    <3> QED  BY <2>1, <3>1 DEF AuthorityRefusal
  <2>2. CASE approval # None
    <3>1. \/ approval.target # l.sim.kind \/ approval.recovery # declared
          \/ frame.command \notin ReadCommands \cup DOMAIN WriteCommands
          \/ ClassOf(frame.command) # approval.class
      BY <1>3, <2>2 DEF Typed, CanApprove, IsRequest
    <3> QED  BY <2>2, <3>1 DEF AuthorityRefusal
  <2> QED  BY <2>1, <2>2
<1>4. frame = None \/ GuardRefusal(l.sim, frame.command, approval, declared) # "none"
  BY <1>3 DEF GuardRefusal
<1> QED  BY <1>2, <1>4

(* An exchange over both. *)
LEMMA ExchangeTwins ==
  ASSUME NEW k, NEW l, Twin(k, l),
         control \in {"none", "Cancelled", "DeadlineExceeded"},
         NEW frame, frame # None => frame.direction = "Request",
         NEW approval \in Approvals(Recoveries) \cup {None}, NEW declared,
         approval = None => declared = None
  PROVE  LET ck == TransportExchange(k, control, frame, approval, declared)
             cl == TransportExchange(l, control, frame, approval, declared)
         IN  /\ Twin(ck.stack, cl.stack)
             /\ Wired(ck.stack, cl.stack) =>
                  \/ ck.result = cl.result
                  \/ /\ ~Typed(k.sim.kind, frame, approval, declared)
                     /\ Refuses(ck.result) /\ Refuses(cl.result)
<1> DEFINE ck == TransportExchange(k, control, frame, approval, declared)
           cl == TransportExchange(l, control, frame, approval, declared)
           dk == SimExchange(k.sim, control, frame, approval, declared)
           dl == SimExchange(l.sim, control, frame, approval, declared)
           typed == Typed(k.sim.kind, frame, approval, declared)
           same == \/ ck.result = cl.result
                   \/ ~typed /\ Refuses(ck.result) /\ Refuses(cl.result)
<1>1. Kept(k, ck.stack) /\ Kept(l, cl.stack)
  BY ExchangeKept DEF Twin
<1>2. ck = Came([k EXCEPT !.sim = dk.s], dk.result)
  BY DEF TransportExchange, Through, Twin
<1>3. ck.stack.sim = dk.s /\ ck.result = dk.result
  BY <1>2 DEF Came, Twin, SoundStack, IsStack
<1>4. SoundSim(k.sim) /\ SoundSim(l.sim) /\ k.sim.kind = l.sim.kind
  BY DEF Twin, SoundStack
<1>5. ASSUME Wired(ck.stack, cl.stack)
      PROVE  Alike(ck.stack.sim, cl.stack.sim) /\ same
  <2> HIDE DEF ck, cl, typed
  <2>1. /\ Alike(k.sim, l.sim) /\ CanBegin(l.boundary)
        /\ l.targets.effect = l.sim.kind /\ l.targets.host = l.sim.kind
    BY <1>1, <1>5, WiredBefore
  <2>2. CASE typed
    <3>1. cl = Came(Spent(l, dl.s), dl.result)
      BY <1>4, <2>1, <2>2, TypedServed DEF Twin, cl, typed
    <3>2. Alike(dk.s, dl.s) /\ dk.result = dl.result
      BY <1>4, <2>1, SimsStayAlike
    <3> HIDE DEF dk, dl
    <3> QED  BY <1>3, <3>1, <3>2 DEF Came, Spent
  <2>3. CASE ~typed
    <3>1. ~Typed(l.sim.kind, frame, approval, declared)
      BY <1>4, <2>3 DEF typed
    <3>2. /\ \E e \in {"EffectBoundary", "ApprovalTargetMismatch",
                       "ApprovalRecoveryMismatch"} : cl = Came(l, Err(e))
          /\ \/ frame = None
             \/ GuardRefusal(l.sim, frame.command, approval, declared) # "none"
      BY <2>1, <3>1, UntypedRefused DEF Twin, cl
    <3>3. GuardRefusal(l.sim, frame.command, approval, declared)
            = GuardRefusal(k.sim, frame.command, approval, declared)
      BY <2>1, AlikeFields DEF GuardRefusal
    <3>4. Alike(k.sim, dk.s) /\ Refuses(dk.result)
      BY <1>4, <3>2, <3>3, RefusedUnseen
    <3> HIDE DEF dk, dl
    <3>5. cl.stack = l /\ Refuses(cl.result)
      BY <3>2 DEF Came, Refuses
    <3>6. Alike(ck.stack.sim, cl.stack.sim)
      BY <1>3, <2>1, <3>4, <3>5 DEF Alike
    <3> QED  BY <1>3, <2>3, <3>4, <3>5, <3>6
  <2> QED  BY <2>2, <2>3
<1> HIDE DEF ck, cl
<1>6. Twin(ck.stack, cl.stack)
  BY <1>1, <1>5, TwinKept
<1> QED  BY <1>5, <1>6 DEF ck, cl

LEMMA OpenTwins ==
  ASSUME NEW k, NEW l, Twin(k, l)
  PROVE  LET ck == TransportOpen(k, control)
             cl == TransportOpen(l, control)
         IN  /\ Twin(ck.stack, cl.stack)
             /\ Wired(ck.stack, cl.stack) => ck.result = cl.result
<1> DEFINE ck == TransportOpen(k, control)
           cl == TransportOpen(l, control)
           dk == SimOpen(k.sim, control)
           dl == SimOpen(l.sim, control)
<1>1. Kept(k, ck.stack) /\ Kept(l, cl.stack)
  BY OpenKept DEF Twin
<1>2. ck = Came([k EXCEPT !.sim = dk.s], dk.result)
  BY DEF TransportOpen, Through, Twin
<1>3. ck.stack.sim = dk.s /\ ck.result = dk.result
  BY <1>2 DEF Came, Twin, SoundStack, IsStack
<1>4. cl = RoundTrip(l, Came([Begun(l, "open") EXCEPT !.sim = dl.s], dl.result))
  <2>1. Begun(l, "open").sim = l.sim
    BY DEF Begun, Twin, SoundStack, IsStack
  <2> QED  BY <2>1 DEF TransportOpen, Through, Twin
<1>5. ASSUME Alike(k.sim, l.sim)
      PROVE  Alike(dk.s, dl.s) /\ dk.result = dl.result
  <2>1. IsSim(k.sim) /\ IsSim(l.sim)
    BY DEF Twin, SoundStack, SoundSim
  <2>2. Alike([k.sim EXCEPT !.open = TRUE], [l.sim EXCEPT !.open = TRUE])
    BY <1>5, <2>1, AlikeFields DEF IsSim
  <2> QED  BY <1>5, <2>2 DEF SimOpen, Done
<1>6. ASSUME Wired(ck.stack, cl.stack)
      PROVE  Alike(ck.stack.sim, cl.stack.sim) /\ ck.result = cl.result
  <2> HIDE DEF ck, cl, dk, dl
  <2>1. Alike(k.sim, l.sim) /\ CanBegin(l.boundary)
    BY <1>1, <1>6, WiredBefore
  <2>2. cl = Came(Spent(l, dl.s), dl.result)
    BY <1>4, <2>1, RoundTripIs DEF Twin
  <2> QED  BY <1>3, <1>5, <2>1, <2>2 DEF Came, Spent
<1> HIDE DEF ck, cl
<1>7. Twin(ck.stack, cl.stack)
  BY <1>1, <1>6, TwinKept
<1> QED  BY <1>6, <1>7 DEF ck, cl

LEMMA CloseTwins ==
  ASSUME NEW k, NEW l, Twin(k, l)
  PROVE  LET ck == TransportClose(k)
             cl == TransportClose(l)
         IN  Twin(ck.stack, cl.stack) /\ ck.result = cl.result
<1> DEFINE ck == TransportClose(k)
           cl == TransportClose(l)
           dk == SimClose(k.sim)
           dl == SimClose(l.sim)
           trip == RoundTrip(l, Came([Begun(l, "close") EXCEPT !.sim = dl], Ok(None)))
<1>1. Kept(k, ck.stack) /\ Kept(l, cl.stack)
  BY CloseKept DEF Twin
<1>2. ck = Came([k EXCEPT !.sim = dk], Ok(None))
  BY DEF TransportClose, Twin
<1>3. ck.stack.sim = dk /\ ck.result = Ok(None)
  BY <1>2 DEF Came, Twin, SoundStack, IsStack
<1>4. cl = [trip EXCEPT !.result = Ok(None)]
  <2>1. Begun(l, "close").sim = l.sim
    BY DEF Begun, Twin, SoundStack, IsStack
  <2> QED  BY <2>1 DEF TransportClose, Twin
<1> HIDE DEF dk, dl
<1>5. trip = IF CanBegin(l.boundary) THEN Came(Spent(l, dl), Ok(None))
             ELSE Came(l, Err("EffectBoundary"))
  BY RoundTripIs DEF Twin
<1> HIDE DEF trip
<1>6. cl.result = Ok(None)
  BY <1>4, <1>5 DEF Came
<1>7. ASSUME Wired(ck.stack, cl.stack)
      PROVE  Alike(ck.stack.sim, cl.stack.sim)
  <2>1. Alike(k.sim, l.sim) /\ CanBegin(l.boundary)
    <3> HIDE DEF ck, cl
    <3> QED  BY <1>1, <1>7, WiredBefore
  <2>2. cl.stack.sim = dl
    BY <1>4, <1>5, <2>1 DEF Came, Spent
  <2>3. IsSim(k.sim) /\ IsSim(l.sim)
    BY DEF Twin, SoundStack, SoundSim
  <2>4. Alike(dk, dl)
    BY <2>1, <2>3, AlikeFields DEF SimClose, IsSim, dk, dl
  <2> QED  BY <1>3, <2>2, <2>4
<1> HIDE DEF ck, cl
<1>8. Twin(ck.stack, cl.stack)
  BY <1>1, <1>7, TwinKept
<1> QED  BY <1>3, <1>6, <1>8 DEF ck, cl

-----------------------------------------------------------------------------
(* Two executors over such stacks. *)

TwinExecutors(x, y) ==
  /\ SoundExecutor(x) /\ SoundExecutor(y)
  /\ x.target = y.target /\ x.target = x.transport.targets.executor
  /\ Twin(x.transport, y.transport)
  /\ Wired(x.transport, y.transport) => x.correlator = y.correlator

TwinCalls(d, e) ==
  /\ TwinExecutors(d.x, e.x)
  /\ Wired(d.x.transport, e.x.transport) => d.result = e.result

LEMMA ControlTwins ==
  ASSUME NEW x, NEW y, TwinExecutors(x, y), NEW ck, NEW cl,
         Kept(x.transport, ck.stack), Kept(y.transport, cl.stack),
         Twin(ck.stack, cl.stack)
  PROVE  LET d == OnTransport(x, ck)
             e == OnTransport(y, cl)
         IN  /\ TwinExecutors(d.x, e.x)
             /\ d.x.transport = ck.stack /\ e.x.transport = cl.stack
             /\ d.result = ck.result /\ e.result = cl.result
<1> DEFINE d == OnTransport(x, ck)
           e == OnTransport(y, cl)
<1>1. SoundExecutor(x) /\ SoundExecutor(y)
  BY DEF TwinExecutors
<1>2. /\ KeptBy(x, d.x) /\ d.result = ck.result
      /\ KeptBy(y, e.x) /\ e.result = cl.result
  BY <1>1, OnTransportKept
<1>3. /\ d.x.transport = ck.stack /\ d.x.correlator = x.correlator
      /\ e.x.transport = cl.stack /\ e.x.correlator = y.correlator
  BY <1>1 DEF OnTransport, Ran, SoundExecutor, IsExecutor
<1> HIDE DEF d, e
<1>4. Wired(ck.stack, cl.stack) => Wired(x.transport, y.transport)
  BY WiredBefore DEF TwinExecutors
<1>5. TwinExecutors(d.x, e.x)
  BY <1>2, <1>3, <1>4 DEF TwinExecutors, KeptBy, Kept
<1> QED  BY <1>2, <1>3, <1>5 DEF d, e

LEMMA ExecutorWith ==
  ASSUME NEW x, IsExecutor(x), NEW k, NEW c
  PROVE  [[x EXCEPT !.transport = k] EXCEPT !.correlator = c]
           = [target |-> x.target, transport |-> k, correlator |-> c]
<1>1. [x EXCEPT !.transport = k]
        = [target |-> x.target, transport |-> k, correlator |-> x.correlator]
  BY DEF IsExecutor
<1>2. [[target |-> x.target, transport |-> k, correlator |-> x.correlator]
         EXCEPT !.correlator = c]
        = [target |-> x.target, transport |-> k, correlator |-> c]
  OBVIOUS
<1> QED  BY <1>1, <1>2

(* An exchange, its one request answered or forgotten. *)
LEMMA ExchangeIs ==
  ASSUME NEW x, SoundExecutor(x), NEW command, NEW payload, NEW approval, NEW declared
  PROVE  LET asked == OnRequest(x.correlator, command)
             came == TransportExchange(x.transport, control,
                                       RequestFrame(command, payload), approval, declared)
             refusal == IF ~came.result.ok THEN came.result.error
                        ELSE ReplyRefusal(asked, command, came.result.frame)
         IN  Exchange(x, control, command, payload, approval, declared)
               = IF refusal # "none"
                 THEN Ran([target |-> x.target, transport |-> came.stack,
                           correlator |-> NewCorrelator], Err(refusal))
                 ELSE Ran([target |-> x.target, transport |-> came.stack,
                           correlator |-> [outstanding |-> <<>>, last |-> command]],
                          came.result)
<1> DEFINE asked == OnRequest(x.correlator, command)
           came == TransportExchange(x.transport, control,
                                     RequestFrame(command, payload), approval, declared)
           refusal == IF ~came.result.ok THEN came.result.error
                      ELSE ReplyRefusal(asked, command, came.result.frame)
           answered == OnReply(asked, command)
           went == Exchange(x, control, command, payload, approval, declared)
<1>1. asked = [outstanding |-> <<command>>, last |-> x.correlator.last]
  BY DEF OnRequest, SoundExecutor
<1>2. answered = [outstanding |-> <<>>, last |-> command]
  BY <1>1 DEF OnReply, ReplyClass
<1>3. went = IF refusal # "none"
             THEN Failed([[x EXCEPT !.transport = came.stack] EXCEPT !.correlator = asked],
                         refusal)
             ELSE Ran([[x EXCEPT !.transport = came.stack] EXCEPT !.correlator = answered],
                      came.result)
  BY DEF Exchange
<1> HIDE DEF asked, came, answered, went, refusal
<1>4. [[x EXCEPT !.transport = came.stack] EXCEPT !.correlator = answered]
        = [target |-> x.target, transport |-> came.stack, correlator |-> answered]
  <2>1. IsExecutor(x)
    BY DEF SoundExecutor
  <2> QED  BY <2>1, ExecutorWith
<1>5. Failed([[x EXCEPT !.transport = came.stack] EXCEPT !.correlator = asked], refusal)
        = Ran([target |-> x.target, transport |-> came.stack,
               correlator |-> NewCorrelator], Err(refusal))
  <2>1. [[x EXCEPT !.transport = came.stack] EXCEPT !.correlator = asked]
          = [target |-> x.target, transport |-> came.stack, correlator |-> asked]
    <3>1. IsExecutor(x)
      BY DEF SoundExecutor
    <3> QED  BY <3>1, ExecutorWith
  <2>2. [[target |-> x.target, transport |-> came.stack, correlator |-> asked]
           EXCEPT !.correlator = NewCorrelator]
          = [target |-> x.target, transport |-> came.stack, correlator |-> NewCorrelator]
    OBVIOUS
  <2> QED  BY <2>1, <2>2 DEF Failed
<1>6. went = IF refusal # "none"
             THEN Ran([target |-> x.target, transport |-> came.stack,
                       correlator |-> NewCorrelator], Err(refusal))
             ELSE Ran([target |-> x.target, transport |-> came.stack,
                       correlator |-> [outstanding |-> <<>>, last |-> command]],
                      came.result)
  BY <1>2, <1>3, <1>4, <1>5
<1> QED  BY <1>6 DEF went, refusal, came, asked

LEMMA ExecutorExchangeTwins ==
  ASSUME NEW x, NEW y, TwinExecutors(x, y),
         control \in {"none", "Cancelled", "DeadlineExceeded"},
         NEW command, NEW payload,
         NEW approval \in Approvals(Recoveries) \cup {None}, NEW declared,
         approval = None => declared = None,
         Wired(x.transport, y.transport) =>
           Typed(x.transport.sim.kind, RequestFrame(command, payload), approval, declared)
  PROVE  TwinCalls(Exchange(x, control, command, payload, approval, declared),
                   Exchange(y, control, command, payload, approval, declared))
<1> DEFINE frame == RequestFrame(command, payload)
           ck == TransportExchange(x.transport, control, frame, approval, declared)
           cl == TransportExchange(y.transport, control, frame, approval, declared)
           ax == OnRequest(x.correlator, command)
           ay == OnRequest(y.correlator, command)
           rx == IF ~ck.result.ok THEN ck.result.error
                 ELSE ReplyRefusal(ax, command, ck.result.frame)
           ry == IF ~cl.result.ok THEN cl.result.error
                 ELSE ReplyRefusal(ay, command, cl.result.frame)
           d == Exchange(x, control, command, payload, approval, declared)
           e == Exchange(y, control, command, payload, approval, declared)
<1>1. SoundExecutor(x) /\ SoundExecutor(y)
  BY DEF TwinExecutors
<1>2. Kept(x.transport, ck.stack) /\ Kept(y.transport, cl.stack)
  BY <1>1, ExchangeKept DEF SoundExecutor
<1>3. KeptBy(x, d.x) /\ KeptBy(y, e.x)
  BY <1>1, ExchangeKeptBy
<1>4. d = IF rx # "none"
          THEN Ran([target |-> x.target, transport |-> ck.stack,
                    correlator |-> NewCorrelator], Err(rx))
          ELSE Ran([target |-> x.target, transport |-> ck.stack,
                    correlator |-> [outstanding |-> <<>>, last |-> command]], ck.result)
  BY <1>1, ExchangeIs
<1>5. e = IF ry # "none"
          THEN Ran([target |-> y.target, transport |-> cl.stack,
                    correlator |-> NewCorrelator], Err(ry))
          ELSE Ran([target |-> y.target, transport |-> cl.stack,
                    correlator |-> [outstanding |-> <<>>, last |-> command]], cl.result)
  BY <1>1, ExchangeIs
<1>6. frame.direction = "Request"
  BY DEF RequestFrame
<1>7. /\ Twin(ck.stack, cl.stack)
      /\ Wired(ck.stack, cl.stack) =>
           \/ ck.result = cl.result
           \/ ~Typed(x.transport.sim.kind, frame, approval, declared)
  <2> HIDE DEF frame
  <2> QED  BY <1>6, ExchangeTwins DEF TwinExecutors
<1>8. ASSUME Wired(ck.stack, cl.stack)
      PROVE  ck.result = cl.result /\ x.correlator = y.correlator
  <2> HIDE DEF ck, cl
  <2>1. Wired(x.transport, y.transport)
    BY <1>2, <1>8, WiredBefore DEF TwinExecutors
  <2> QED  BY <1>7, <1>8, <2>1 DEF TwinExecutors
<1>9. Wired(ck.stack, cl.stack) => rx = ry
  BY <1>8
<1> HIDE DEF ck, cl, rx, ry, d, e
<1>10. d.x.transport = ck.stack /\ e.x.transport = cl.stack
  BY <1>4, <1>5 DEF Ran
<1>11. Wired(ck.stack, cl.stack) => d.result = e.result /\ d.x.correlator = e.x.correlator
  BY <1>4, <1>5, <1>8, <1>9 DEF Ran
<1>12. TwinExecutors(d.x, e.x)
  BY <1>3, <1>7, <1>10, <1>11 DEF TwinExecutors, KeptBy, Kept
<1> QED  BY <1>10, <1>11, <1>12 DEF TwinCalls, d, e

(* What neither stack is asked. *)
LEMMA RefusedTwins ==
  ASSUME NEW x, NEW y, TwinExecutors(x, y), NEW result
  PROVE  TwinCalls(Ran(x, result), Ran(y, result))
BY DEF TwinCalls, Ran

LEMMA OutgoingRequests ==
  ASSUME NEW command \in ReadCommands \cup DOMAIN WriteCommands,
         NEW payload \in {<<>>} \cup {FlagBytes(flags) : flags \in Flags}
  PROVE  IsRequest(RequestFrame(command, payload))
<1>1. RequestFrame(command, payload) \in Outgoing
  BY DEF Outgoing
<1>2. RequestFrame(command, payload) # None
  BY <1>1, NoneAssumption
<1> QED  BY <1>2 DEF IsRequest, RequestFrame

LEMMA ReadTwins ==
  ASSUME NEW x, NEW y, TwinExecutors(x, y),
         control \in {"none", "Cancelled", "DeadlineExceeded"}, NEW state
  PROVE  TwinCalls(Read(x, control, state, "BeeperConfig"),
                   Read(y, control, state, "BeeperConfig"))
<1>1. IsRequest(RequestFrame("BeeperConfig", <<>>))
  BY OutgoingRequests DEF ReadCommands
<1>2. CanReadOnly(RequestFrame("BeeperConfig", <<>>))
  BY <1>1 DEF CanReadOnly, ClassOf, WriteCommands, RequestFrame
<1>3. Typed(x.transport.sim.kind, RequestFrame("BeeperConfig", <<>>), None, None)
  BY <1>2 DEF Typed
<1>4. TwinCalls(Exchange(x, control, "BeeperConfig", <<>>, None, None),
                Exchange(y, control, "BeeperConfig", <<>>, None, None))
  BY <1>3, ExecutorExchangeTwins
<1>5. CASE state \notin PermittedIn["NoWrite"]
  BY <1>5, RefusedTwins DEF Read
<1>6. CASE state \in PermittedIn["NoWrite"]
  BY <1>4, <1>6 DEF Read
<1> QED  BY <1>5, <1>6

LEMMA WriteTwins ==
  ASSUME NEW x, NEW y, TwinExecutors(x, y),
         control \in {"none", "Cancelled", "DeadlineExceeded"}, NEW state,
         NEW w \in Writes, NEW approval \in Approvals(Recoveries), approval # None,
         NEW declared
  PROVE  TwinCalls(Write(x, control, state, w.command, w.flags, approval, declared),
                   Write(y, control, state, w.command, w.flags, approval, declared))
<1> DEFINE payload == PayloadOf(w.command, w.flags)
           refusal == WriteRefusal(x, state, w.command, approval, declared)
           gx == Exchange(x, control, w.command, payload, approval, declared)
           gy == Exchange(y, control, w.command, payload, approval, declared)
           d == Write(x, control, state, w.command, w.flags, approval, declared)
           e == Write(y, control, state, w.command, w.flags, approval, declared)
<1>1. refusal = WriteRefusal(y, state, w.command, approval, declared)
  BY DEF WriteRefusal, TwinExecutors
<1>2. /\ w.command \in DOMAIN WriteCommands
      /\ payload \in {<<>>} \cup {FlagBytes(flags) : flags \in Flags}
  BY DEF Writes, WriteCommands, PayloadOf
<1>3. CASE refusal # "none"
  <2>1. d = Ran(x, Err(refusal))
    BY <1>3 DEF Write
  <2>2. e = Ran(y, Err(refusal))
    BY <1>1, <1>3 DEF Write
  <2> HIDE DEF d, e, refusal
  <2>3. TwinCalls(d, e)
    BY <2>1, <2>2, RefusedTwins
  <2> QED  BY <2>3 DEF d, e
<1>4. CASE refusal = "none"
  <2>1. /\ approval.target = x.target /\ approval.class = ClassOf(w.command)
        /\ approval.recovery = declared
    BY <1>4 DEF WriteRefusal
  <2>2. IsRequest(RequestFrame(w.command, payload))
    BY <1>2, OutgoingRequests
  <2>3. CanApprove(RequestFrame(w.command, payload), approval)
    BY <2>1, <2>2 DEF CanApprove, RequestFrame
  <2>4. Wired(x.transport, y.transport) => x.target = x.transport.sim.kind
    BY DEF Wired, TwinExecutors
  <2>5. Wired(x.transport, y.transport) =>
          Typed(x.transport.sim.kind, RequestFrame(w.command, payload), approval, declared)
    BY <2>1, <2>3, <2>4 DEF Typed
  <2>6. TwinCalls(gx, gy)
    <3> HIDE DEF payload
    <3> QED  BY <2>5, ExecutorExchangeTwins
  <2>7. d = IF gx.result.ok /\ gx.result.frame.content # "empty"
            THEN Ran(gx.x, Err("WriteAckNotEmpty")) ELSE gx
    BY <1>4 DEF Write
  <2>8. e = IF gy.result.ok /\ gy.result.frame.content # "empty"
            THEN Ran(gy.x, Err("WriteAckNotEmpty")) ELSE gy
    BY <1>1, <1>4 DEF Write
  <2> HIDE DEF gx, gy, d, e
  <2>9. TwinCalls(d, e)
    BY <2>6, <2>7, <2>8 DEF TwinCalls, Ran
  <2> QED  BY <2>9 DEF d, e
<1> QED  BY <1>3, <1>4

-----------------------------------------------------------------------------
(* Two identifications. *)

StageOf(i) == i.stage \in IdentifyCommands \cup {"Complete"}

IsIdentification(i) ==
  i = [stage |-> i.stage, pending |-> i.pending, correlator |-> i.correlator,
       profile |-> i.profile, variant |-> i.variant, version |-> i.version]

LEMMA StageStays ==
  ASSUME NEW i, IsIdentification(i), StageOf(i), NEW f
  PROVE  LET next == AcceptResponse(Requested(i), f).i
         IN  IsIdentification(next) /\ StageOf(next)
<1> DEFINE asked == Requested(i)
           next == AcceptResponse(asked, f).i
           answered == [asked EXCEPT !.pending = FALSE,
                                     !.correlator = OnReply(asked.correlator, f.command)]
<1> SUFFICES IsIdentification(next) /\ StageOf(next)
  OBVIOUS
<1>1. IsIdentification(asked) /\ asked.stage = i.stage
  <2> DEFINE c == OnRequest(i.correlator, i.stage)
  <2>1. asked = [i EXCEPT !.pending = TRUE, !.correlator = c]
    BY DEF Requested
  <2> HIDE DEF c, asked
  <2> QED  BY <2>1 DEF IsIdentification
<1> HIDE DEF asked
<1>2. IsIdentification(answered) /\ answered.stage = i.stage
  <2> DEFINE c == OnReply(asked.correlator, f.command)
  <2>1. answered = [asked EXCEPT !.pending = FALSE, !.correlator = c]
    OBVIOUS
  <2> HIDE DEF c, answered
  <2> QED  BY <1>1, <2>1 DEF IsIdentification
<1>3. CASE ResponseRefusal(asked, f) # "none"
  <2> DEFINE c == OnReply(asked.correlator, f.command)
  <2>1. next = AfterRefusal(asked, f)
    BY <1>3 DEF AcceptResponse, Progressed
  <2>2. next = asked \/ next = [asked EXCEPT !.correlator = c]
    BY <2>1 DEF AfterRefusal
  <2> HIDE DEF c, next
  <2>3. IsIdentification(next) /\ next.stage = i.stage
    BY <1>1, <2>2 DEF IsIdentification
  <2> QED  BY <2>3 DEF StageOf
<1>4. CASE ResponseRefusal(asked, f) = "none"
  <2>1. answered.stage \in IdentifyCommands
    BY <1>1, <1>2, <1>4 DEF ResponseRefusal, StageOf
  <2>2. AcceptResponse(asked, f)
          = CASE f.content = "unreadable" -> Progressed(answered, Failing("Payload"))
              [] f.content # "unreadable" /\ asked.stage = "ApiVersion" ->
                   AcceptApi(answered, f.content)
              [] f.content # "unreadable" /\ asked.stage = "FcVariant" ->
                   AcceptVariant(answered, f.content)
              [] f.content # "unreadable" /\ asked.stage = "FcVersion" ->
                   AcceptVersion(answered, f.content)
              [] f.content # "unreadable" /\ asked.stage = "BoardInfo" ->
                   AcceptBoard(answered, f.content)
    BY <1>4 DEF AcceptResponse
  <2> HIDE DEF answered
  <2>3. \/ next = answered
        \/ next = AcceptApi(answered, f.content).i
        \/ next = AcceptVariant(answered, f.content).i
        \/ next = AcceptVersion(answered, f.content).i
        \/ next = AcceptBoard(answered, f.content).i
    BY <1>1, <1>2, <2>1, <2>2 DEF Progressed, IdentifyCommands
  <2> HIDE DEF next
  <2>4. CASE next = answered
    BY <1>2, <2>4 DEF StageOf
  <2>5. CASE next = AcceptApi(answered, f.content).i
    BY <1>2, <2>5 DEF AcceptApi, Progressed, IsIdentification, StageOf, IdentifyCommands
  <2>6. CASE next = AcceptVariant(answered, f.content).i
    BY <1>2, <2>6 DEF AcceptVariant, Progressed, IsIdentification, StageOf, IdentifyCommands
  <2>7. CASE next = AcceptVersion(answered, f.content).i
    BY <1>2, <2>7 DEF AcceptVersion, Progressed, IsIdentification, StageOf, IdentifyCommands
  <2>8. CASE next = AcceptBoard(answered, f.content).i
    BY <1>2, <2>8 DEF AcceptBoard, Progressed, IsIdentification, StageOf, IdentifyCommands
  <2> QED  BY <2>3, <2>4, <2>5, <2>6, <2>7, <2>8
<1> QED  BY <1>3, <1>4

(* The identifications of both stacks are at the same point.                *)
TwinRuns(p, q) ==
  /\ IsRun(p) /\ IsRun(q) /\ Twin(p.stack, q.stack)
  /\ IsIdentification(p.i) /\ StageOf(p.i)
  /\ Wired(p.stack, q.stack) => p.i = q.i /\ p.result = q.result

LEMMA RoundMakesIdentification ==
  ASSUME NEW run, IsRun(run), IsIdentification(run.i), StageOf(run.i), NEW came
  PROVE  IsIdentification(RoundMakes(run, came).i) /\ StageOf(RoundMakes(run, came).i)
<1> DEFINE told == AcceptResponse(Requested(run.i), came.result.frame)
           next == RoundMakes(run, came)
<1>1. IsIdentification(told.i) /\ StageOf(told.i)
  BY StageStays
<1>2. \/ next = run
      \/ \E stack, result : next = [run EXCEPT !.stack = stack, !.result = result]
      \/ \E result : next = [run EXCEPT !.result = result]
      \/ next = [stack |-> came.stack, i |-> told.i, result |-> IdentifyResult(told.result)]
  BY Zenon DEF RoundMakes
<1> HIDE DEF told, next
<1>3. next.i \in {run.i, told.i}
  <2>1. ASSUME NEW stack, NEW result, next = [run EXCEPT !.stack = stack, !.result = result]
        PROVE  next.i = run.i
    BY <2>1 DEF IsRun
  <2>2. ASSUME NEW result, next = [run EXCEPT !.result = result]
        PROVE  next.i = run.i
    BY <2>2 DEF IsRun
  <2>3. ASSUME next = [stack |-> came.stack, i |-> told.i,
                       result |-> IdentifyResult(told.result)]
        PROVE  next.i = told.i
    BY <2>3
  <2>4. next.i = run.i \/ next.i = told.i
    BY Zenon, <1>2, <2>1, <2>2, <2>3
  <2> QED  BY <2>4
<1>4. IsIdentification(next.i) /\ StageOf(next.i)
  BY <1>1, <1>3
<1> QED  BY <1>4 DEF next

LEMMA RoundTwins ==
  ASSUME NEW p, NEW q, TwinRuns(p, q),
         control \in {"none", "Cancelled", "DeadlineExceeded"}
  PROVE  TwinRuns(IdentifyRound(p, control), IdentifyRound(q, control))
<1> DEFINE a == TransportExchange(p.stack, control, RequestFrame(p.i.stage, <<>>), None, None)
           b == TransportExchange(q.stack, control, RequestFrame(q.i.stage, <<>>), None, None)
           pp == IdentifyRound(p, control)
           qq == IdentifyRound(q, control)
<1>1. pp = RoundMakes(p, a) /\ qq = RoundMakes(q, b)
  BY RoundIs
<1>2. /\ IsRun(p) /\ IsRun(q) /\ Twin(p.stack, q.stack)
      /\ SoundStack(p.stack) /\ SoundStack(q.stack)
      /\ Wired(p.stack, q.stack) => p.i = q.i /\ p.result = q.result
  BY DEF TwinRuns, Twin
<1>3. Kept(p.stack, a.stack) /\ Kept(q.stack, b.stack)
  BY <1>2, ExchangeKept
<1>4. /\ Wired(p.stack, q.stack) /\ p.i.stage = q.i.stage /\ p.i.stage \in IdentifyCommands
         => Twin(a.stack, b.stack) /\ (Wired(a.stack, b.stack) => a.result = b.result)
  <2> SUFFICES ASSUME Wired(p.stack, q.stack), p.i.stage = q.i.stage,
                      p.i.stage \in IdentifyCommands
               PROVE  Twin(a.stack, b.stack) /\ (Wired(a.stack, b.stack) => a.result = b.result)
    OBVIOUS
  <2> DEFINE frame == RequestFrame(p.i.stage, <<>>)
  <2>1. IsRequest(frame)
    BY OutgoingRequests DEF IdentifyCommands, ReadCommands
  <2>2. frame.direction = "Request" /\ CanReadOnly(frame)
    BY <2>1 DEF CanReadOnly, ClassOf, WriteCommands, RequestFrame, IdentifyCommands
  <2>3. Typed(p.stack.sim.kind, frame, None, None)
    BY <2>2 DEF Typed
  <2>4. /\ a = TransportExchange(p.stack, control, frame, None, None)
        /\ b = TransportExchange(q.stack, control, frame, None, None)
    OBVIOUS
  <2> HIDE DEF frame, a, b
  <2> QED  BY <1>2, <2>2, <2>3, <2>4, ExchangeTwins
<1> HIDE DEF a, b, pp, qq
<1>5. /\ IsRun(pp) /\ pp.stack \in {p.stack, a.stack}
      /\ IsRun(qq) /\ qq.stack \in {q.stack, b.stack}
  BY <1>1, <1>2, RoundMakesRun
<1>6. Kept(p.stack, pp.stack) /\ Kept(q.stack, qq.stack)
  BY <1>2, <1>3, <1>5, KeptItself
<1>7. IsIdentification(pp.i) /\ StageOf(pp.i)
  BY <1>1, RoundMakesIdentification DEF TwinRuns
<1>8. ASSUME Wired(pp.stack, qq.stack)
      PROVE  Alike(pp.stack.sim, qq.stack.sim) /\ pp.i = qq.i /\ pp.result = qq.result
  <2>1. Wired(p.stack, q.stack) /\ Alike(p.stack.sim, q.stack.sim)
    BY <1>2, <1>6, <1>8, WiredBefore
  <2>2. p.i = q.i /\ p.result = q.result
    BY <1>2, <2>1
  <2>3. CASE p.result # None
    BY <1>1, <2>1, <2>2, <2>3 DEF RoundMakes
  <2>4. CASE p.result = None /\ ~CanRequest(p.i)
    <3>1. /\ pp = [p EXCEPT !.result = Err("RequestRefused")]
          /\ qq = [q EXCEPT !.result = Err("RequestRefused")]
      BY <1>1, <2>2, <2>4 DEF RoundMakes
    <3> QED  BY <1>2, <2>1, <2>2, <3>1 DEF IsRun
  <2>5. CASE p.result = None /\ CanRequest(p.i)
    <3>1. p.i.stage \in IdentifyCommands
      BY <2>5 DEF CanRequest, TwinRuns, StageOf
    <3>2. Twin(a.stack, b.stack) /\ (Wired(a.stack, b.stack) => a.result = b.result)
      BY <1>4, <2>1, <2>2, <3>1
    <3> DEFINE told == AcceptResponse(Requested(p.i), a.result.frame)
    <3>3. pp = IF ~a.result.ok
                 THEN [p EXCEPT !.stack = a.stack, !.result = a.result]
               ELSE IF a.result.frame = None
                 THEN [p EXCEPT !.stack = a.stack, !.result = Err("Decode")]
               ELSE [stack |-> a.stack, i |-> told.i,
                     result |-> IdentifyResult(told.result)]
      BY <1>1, <2>5 DEF RoundMakes
    <3>4. qq = IF ~b.result.ok
                 THEN [q EXCEPT !.stack = b.stack, !.result = b.result]
               ELSE IF b.result.frame = None
                 THEN [q EXCEPT !.stack = b.stack, !.result = Err("Decode")]
               ELSE LET other == AcceptResponse(Requested(p.i), b.result.frame)
                    IN  [stack |-> b.stack, i |-> other.i,
                         result |-> IdentifyResult(other.result)]
      BY <1>1, <2>2, <2>5 DEF RoundMakes
    <3>5. pp.stack = a.stack /\ qq.stack = b.stack
      BY <1>2, <3>3, <3>4 DEF IsRun
    <3>6. a.result = b.result
      BY <1>8, <3>2, <3>5
    <3>7. qq = IF ~a.result.ok
                 THEN [q EXCEPT !.stack = b.stack, !.result = a.result]
               ELSE IF a.result.frame = None
                 THEN [q EXCEPT !.stack = b.stack, !.result = Err("Decode")]
               ELSE [stack |-> b.stack, i |-> told.i,
                     result |-> IdentifyResult(told.result)]
      BY <3>4, <3>6
    <3> HIDE DEF told
    <3>8. pp.i = qq.i /\ pp.result = qq.result
      BY <1>2, <2>2, <3>3, <3>7 DEF IsRun
    <3>9. Alike(pp.stack.sim, qq.stack.sim)
      BY <1>8, <3>2, <3>5 DEF Twin
    <3> QED  BY <3>8, <3>9
  <2> QED  BY <2>3, <2>4, <2>5
<1>9. Twin(pp.stack, qq.stack)
  BY <1>2, <1>6, <1>8, TwinKept
<1>10. TwinRuns(pp, qq)
  BY <1>5, <1>7, <1>8, <1>9 DEF TwinRuns
<1> QED  BY <1>10 DEF pp, qq

LEMMA IdentifyTwins ==
  ASSUME NEW x, NEW y, TwinExecutors(x, y),
         control \in {"none", "Cancelled", "DeadlineExceeded"}, NEW state
  PROVE  TwinCalls(Identify(x, control, state), Identify(y, control, state))
<1> DEFINE Round(run) == IdentifyRound(run, control)
           Start(z) == [stack |-> z.transport, i |-> NewIdentification, result |-> None]
           AfterAll(z) == Round(Round(Round(Round(Start(z)))))
           Run(z, run) == IsRun(run) /\ Kept(z.transport, run.stack)
           d == Identify(x, control, state)
           e == Identify(y, control, state)
           p == AfterAll(x)
           q == AfterAll(y)
<1>1. CASE state \notin PermitsIdentification
  BY <1>1, RefusedTwins DEF Identify
<1>2. CASE state \in PermitsIdentification
  <2>1. TwinRuns(Start(x), Start(y))
    <3>1. /\ Start(x).i = NewIdentification /\ Start(y).i = NewIdentification
          /\ Start(x).result = None /\ Start(y).result = None
          /\ Start(x).stack = x.transport /\ Start(y).stack = y.transport
          /\ IsRun(Start(x)) /\ IsRun(Start(y))
      BY DEF IsRun
    <3>2. IsIdentification(NewIdentification) /\ StageOf(NewIdentification)
      BY DEF NewIdentification, IsIdentification, StageOf, IdentifyCommands
    <3> HIDE DEF Start
    <3> QED  BY <3>1, <3>2 DEF TwinRuns, TwinExecutors
  <2>2. ASSUME NEW a, NEW b, TwinRuns(a, b)
        PROVE  TwinRuns(Round(a), Round(b))
    BY <2>2, RoundTwins
  <2>3. ASSUME NEW z \in {x, y}
        PROVE  Run(z, Start(z))
               /\ \A run : Run(z, run) => Run(z, Round(run))
    <3>1. SoundStack(z.transport)
      BY DEF TwinExecutors, SoundExecutor
    <3>2. Run(z, Start(z))
      BY <3>1, KeptItself DEF IsRun
    <3>3. ASSUME NEW run, Run(z, run)
          PROVE  Run(z, Round(run))
      BY <3>1, <3>3, RoundKept
    <3> QED  BY <3>2, <3>3
  <2>4. /\ d = OnTransport(x, Came(p.stack, p.result))
        /\ e = OnTransport(y, Came(q.stack, q.result))
    BY <1>2 DEF Identify, EachStage, OnTransport, Came
  <2> HIDE DEF Round, Start, Run
  <2>5. TwinRuns(p, q)
    BY <2>1, <2>2
  <2>6. Run(x, p) /\ Run(y, q)
    BY <2>3
  <2> HIDE DEF p, q, d, e
  <2>7. Twin(p.stack, q.stack) /\ Kept(x.transport, p.stack) /\ Kept(y.transport, q.stack)
    BY <2>5, <2>6 DEF TwinRuns, Run
  <2>8. /\ Came(p.stack, p.result).stack = p.stack /\ Came(p.stack, p.result).result = p.result
        /\ Came(q.stack, q.result).stack = q.stack /\ Came(q.stack, q.result).result = q.result
    BY DEF Came
  <2>9. /\ TwinExecutors(d.x, e.x)
        /\ d.x.transport = p.stack /\ e.x.transport = q.stack
        /\ d.result = p.result /\ e.result = q.result
    BY <2>4, <2>7, <2>8, ControlTwins
  <2>10. TwinCalls(d, e)
    BY <2>5, <2>9 DEF TwinCalls, TwinRuns
  <2> QED  BY <2>10 DEF d, e
<1> QED  BY <1>1, <1>2

(* What is set on both simulations alike keeps them alike. *)
LEMMA PhaseTwins ==
  ASSUME NEW x, NEW y, TwinExecutors(x, y), NEW phase \in {"Identifying", "Operational"},
         NEW result
  PROVE  TwinCalls(Ran([x EXCEPT !.transport = InPhase(@, phase)], result),
                   Ran([y EXCEPT !.transport = InPhase(@, phase)], result))
<1> DEFINE Set(k) == [k EXCEPT !.sim = [k.sim EXCEPT !.phase = phase]]
           d == Ran([x EXCEPT !.transport = InPhase(@, phase)], result)
           e == Ran([y EXCEPT !.transport = InPhase(@, phase)], result)
           k == x.transport
           l == y.transport
           ck == Came(Set(k), result)
           cl == Came(Set(l), result)
<1>1. /\ Twin(k, l) /\ SoundStack(k) /\ SoundStack(l)
      /\ SoundSim(k.sim) /\ SoundSim(l.sim)
      /\ IsSim(k.sim) /\ IsSim(l.sim)
  BY DEF TwinExecutors, Twin, SoundStack, SoundSim
<1>2. Kept(k, Set(k)) /\ Kept(l, Set(l))
  BY <1>1, KeptSim, SimControlSound
<1>3. Set(k).sim = [k.sim EXCEPT !.phase = phase] /\ Set(l).sim = [l.sim EXCEPT !.phase = phase]
  BY <1>1 DEF SoundStack, IsStack
<1>4. Alike(k.sim, l.sim) => Alike(Set(k).sim, Set(l).sim)
  BY <1>1, <1>3, AlikeFields DEF IsSim
<1>5. d = OnTransport(x, ck) /\ e = OnTransport(y, cl)
  BY DEF InPhase, OnTransport, Came
<1>6. ck.stack = Set(k) /\ cl.stack = Set(l) /\ ck.result = result /\ cl.result = result
  BY DEF Came
<1> HIDE DEF Set, ck, cl, d, e
<1>7. Twin(Set(k), Set(l))
  BY <1>1, <1>2, <1>4, TwinKept, WiredBefore
<1>8. TwinExecutors(d.x, e.x) /\ d.result = result /\ e.result = result
  BY <1>2, <1>5, <1>6, <1>7, ControlTwins
<1>9. TwinCalls(d, e)
  BY <1>8 DEF TwinCalls
<1> QED  BY <1>9 DEF d, e

LEMMA FreshTwins ==
  ASSUME NEW x, NEW y, TwinExecutors(x, y)
  PROVE  TwinExecutors(Fresh(x), Fresh(y))
<1> DEFINE Set(k) == [k EXCEPT !.sim = [k.sim EXCEPT !.arrived = None]]
           k == x.transport
           l == y.transport
           ck == Came(Set(k), None)
           cl == Came(Set(l), None)
<1>1. /\ Twin(k, l) /\ SoundStack(k) /\ SoundStack(l)
      /\ SoundSim(k.sim) /\ SoundSim(l.sim)
      /\ IsSim(k.sim) /\ IsSim(l.sim)
  BY DEF TwinExecutors, Twin, SoundStack, SoundSim
<1>2. Kept(k, Set(k)) /\ Kept(l, Set(l))
  BY <1>1, KeptSim, SimControlSound
<1>3. Set(k).sim = [k.sim EXCEPT !.arrived = None] /\ Set(l).sim = [l.sim EXCEPT !.arrived = None]
  BY <1>1 DEF SoundStack, IsStack
<1>4. Alike(k.sim, l.sim) => Alike(Set(k).sim, Set(l).sim)
  BY <1>1, <1>3, AlikeFields DEF IsSim
<1>5. Fresh(x) = OnTransport(x, ck).x /\ Fresh(y) = OnTransport(y, cl).x
  BY DEF Fresh, OnTransport, Came, Ran
<1>6. ck.stack = Set(k) /\ cl.stack = Set(l)
  BY DEF Came
<1> HIDE DEF Set, ck, cl
<1>7. Twin(Set(k), Set(l))
  BY <1>1, <1>2, <1>4, TwinKept, WiredBefore
<1> QED  BY <1>2, <1>5, <1>6, <1>7, ControlTwins

-----------------------------------------------------------------------------
(* Both stacks go through the same. *)

ParityInv ==
  /\ control \in {"none", "Cancelled", "DeadlineExceeded"}
  /\ TwinExecutors(direct, effects)
  /\ Parity

(* How the two answers to a call compare. *)
TwinAnswers(asked, d, e) ==
  /\ TwinExecutors(d.x, e.x)
  /\ Wired(d.x.transport, e.x.transport) =>
       \/ d.result = e.result
       \/ asked.call = "raw" /\ Refuses(d.result) /\ Refuses(e.result)

LEMMA CallTwins ==
  ASSUME ParityInv, NEW asked, NEW d, NEW e, TwinAnswers(asked, d, e),
         direct' = d.x, effects' = e.x,
         outcome' = Compared(asked, d.result, e.result), control' = control
  PROVE  ParityInv'
<1>1. TwinExecutors(direct, effects)'
  BY DEF TwinAnswers
<1>2. /\ outcome'.asked = asked /\ outcome'.alike = (d.result = e.result)
      /\ outcome'.direct = Ending(d.result) /\ outcome'.effects = Ending(e.result)
  BY DEF Compared
<1>3. \A result : Refuses(result) => Ending(result) = "failed"
  BY DEF Refuses, Err, Ending
<1>4. WellWired' = Wired(d.x.transport, e.x.transport)
  BY DEF WellWired, Wired
<1>5. ASSUME WellWired'
      PROVE  /\ Visible(direct.transport.sim)' = Visible(effects.transport.sim)'
             /\ \/ outcome'.alike
                \/ /\ outcome'.asked.call = "raw" /\ outcome'.direct = "failed"
                   /\ outcome'.effects = "failed"
  <2>1. Alike(d.x.transport.sim, e.x.transport.sim)
    BY <1>4, <1>5 DEF TwinAnswers, TwinExecutors, Twin
  <2>2. Visible(direct.transport.sim)' = Visible(effects.transport.sim)'
    BY <2>1 DEF Alike
  <2>3. \/ d.result = e.result
        \/ asked.call = "raw" /\ Refuses(d.result) /\ Refuses(e.result)
    BY <1>4, <1>5 DEF TwinAnswers
  <2>4. CASE d.result = e.result
    BY <1>2, <2>2, <2>4
  <2>5. CASE asked.call = "raw" /\ Refuses(d.result) /\ Refuses(e.result)
    BY <1>2, <1>3, <2>2, <2>5
  <2> QED  BY <2>3, <2>4, <2>5
<1>6. Parity'
  BY <1>5 DEF Parity
<1> QED  BY <1>1, <1>6 DEF ParityInv

LEMMA TwinInitially ==
  ASSUME ParityInit
  PROVE  ParityInv
<1>1. PICK w \in Worlds :
        /\ direct = NewExecutor(w.targets.executor, NewStack(w.sim, None, w.targets))
        /\ effects = NewExecutor(w.targets.executor,
                                 NewStack(w.sim, NewCoordinator, w.targets))
  BY DEF ParityInit
<1>2. /\ direct.target = w.targets.executor /\ effects.target = w.targets.executor
      /\ direct.transport.targets = w.targets /\ effects.transport.targets = w.targets
      /\ direct.transport.sim = w.sim /\ effects.transport.sim = w.sim
      /\ direct.correlator = NewCorrelator /\ effects.correlator = NewCorrelator
  BY <1>1 DEF NewExecutor, NewStack
<1>3. SoundParity
  BY SoundInitially
<1>4. Alike(direct.transport.sim, effects.transport.sim)
  BY <1>2, AlikeFields
<1>5. Twin(direct.transport, effects.transport)
  BY <1>2, <1>3, <1>4 DEF Twin, SoundParity, SoundExecutor
<1>6. TwinExecutors(direct, effects)
  BY <1>2, <1>3, <1>5 DEF TwinExecutors, SoundParity
<1>7. outcome.alike = TRUE
  BY DEF ParityInit, NoOutcome, Compared
<1>8. Parity
  BY <1>4, <1>7 DEF Parity, Alike
<1> QED  BY <1>6, <1>8 DEF ParityInv, ParityInit

LEMMA StepTwins ==
  ASSUME ParityInv, [ParityNext]_parityVars
  PROVE  ParityInv'
<1> DEFINE x == Fresh(direct)
           y == Fresh(effects)
           Ended(asked, d, e) ==
             /\ direct' = d.x /\ effects' = e.x /\ control' = control
             /\ outcome' = Compared(asked, d.result, e.result)
<1>1. TwinExecutors(x, y) /\ control \in {"none", "Cancelled", "DeadlineExceeded"}
  BY FreshTwins DEF ParityInv
<1>2. /\ Twin(x.transport, y.transport)
      /\ SoundStack(x.transport) /\ SoundStack(y.transport)
  BY <1>1 DEF TwinExecutors, Twin
<1>3. ASSUME NEW asked, NEW d, NEW e, TwinCalls(d, e), Ended(asked, d, e)
      PROVE  ParityInv'
  <2>1. TwinAnswers(asked, d, e)
    BY <1>3 DEF TwinCalls, TwinAnswers
  <2> QED  BY <1>3, <2>1, CallTwins
<1>4. CASE Open
  <2> DEFINE ck == TransportOpen(x.transport, control)
             cl == TransportOpen(y.transport, control)
             d == OnTransport(x, ck)
             e == OnTransport(y, cl)
  <2>1. Ended(NoCall, d, e)
    BY <1>4 DEF Open, Call
  <2>2. Kept(x.transport, ck.stack) /\ Kept(y.transport, cl.stack)
    BY <1>2, OpenKept
  <2>3. /\ Twin(ck.stack, cl.stack)
        /\ Wired(ck.stack, cl.stack) => ck.result = cl.result
    BY <1>2, OpenTwins
  <2> HIDE DEF x, y, ck, cl, Ended
  <2>4. TwinCalls(d, e)
    BY <1>1, <2>2, <2>3, ControlTwins DEF TwinCalls
  <2> HIDE DEF d, e
  <2> QED  BY <1>3, <2>1, <2>4
<1>5. CASE Close
  <2> DEFINE ck == TransportClose(x.transport)
             cl == TransportClose(y.transport)
             d == OnTransport(x, ck)
             e == OnTransport(y, cl)
  <2>1. Ended(NoCall, d, e)
    BY <1>5 DEF Close, Call
  <2>2. Kept(x.transport, ck.stack) /\ Kept(y.transport, cl.stack)
    BY <1>2, CloseKept
  <2>3. Twin(ck.stack, cl.stack) /\ ck.result = cl.result
    BY <1>2, CloseTwins
  <2> HIDE DEF x, y, ck, cl, Ended
  <2>4. TwinCalls(d, e)
    BY <1>1, <2>2, <2>3, ControlTwins DEF TwinCalls
  <2> HIDE DEF d, e
  <2> QED  BY <1>3, <2>1, <2>4
<1>6. CASE ChangePhase
  <2>1. PICK phase \in {"Identifying", "Operational"} :
          Ended(NoCall, Ran([x EXCEPT !.transport = InPhase(@, phase)], Ok(None)),
                           Ran([y EXCEPT !.transport = InPhase(@, phase)], Ok(None)))
    BY <1>6 DEF ChangePhase, Call
  <2> HIDE DEF x, y, Ended
  <2>2. TwinCalls(Ran([x EXCEPT !.transport = InPhase(@, phase)], Ok(None)),
                  Ran([y EXCEPT !.transport = InPhase(@, phase)], Ok(None)))
    BY <1>1, PhaseTwins
  <2> QED  BY <1>3, <2>1, <2>2
<1>7. CASE CallRead
  <2>1. PICK state \in CallerStates :
          Ended(NoCall, Read(x, control, state, "BeeperConfig"),
                           Read(y, control, state, "BeeperConfig"))
    BY <1>7 DEF CallRead, Call
  <2> HIDE DEF x, y, Ended
  <2> QED  BY <1>1, <1>3, <2>1, ReadTwins
<1>8. CASE CallWrite
  <2>1. PICK state \in CallerStates, w \in Writes, approval \in Granted,
             declared \in Recoveries :
          Call(w, LAMBDA z : Write(z, control, state, w.command, w.flags,
                                   approval, declared))
    BY <1>8 DEF CallWrite
  <2>2. Ended(w, Write(x, control, state, w.command, w.flags, approval, declared),
                    Write(y, control, state, w.command, w.flags, approval, declared))
    BY <2>1 DEF Call
  <2>3. approval \in Approvals(Recoveries) /\ approval # None
    BY NoneAssumption DEF Granted
  <2> HIDE DEF x, y, Ended
  <2> QED  BY <1>1, <1>3, <2>2, <2>3, WriteTwins, SMTT(30)
<1>9. CASE CallIdentify
  <2>1. PICK state \in CallerStates :
          Ended(NoCall, Identify(x, control, state), Identify(y, control, state))
    BY <1>9 DEF CallIdentify, Call
  <2> HIDE DEF x, y, Ended
  <2> QED  BY <1>1, <1>3, <2>1, IdentifyTwins
<1>10. CASE CallRaw
  <2>1. PICK frame \in RawFrames, approval \in Granted \cup {None} :
        \E declared \in IF approval = None THEN {None} ELSE Recoveries :
          Call(RawCall, LAMBDA z : OnTransport(z, TransportExchange(z.transport, control,
                                                    frame, approval, declared)))
    BY <1>10 DEF CallRaw
  <2>2. PICK declared \in IF approval = None THEN {None} ELSE Recoveries :
          Call(RawCall, LAMBDA z : OnTransport(z, TransportExchange(z.transport, control,
                                                    frame, approval, declared)))
    BY <2>1
  <2> DEFINE ck == TransportExchange(x.transport, control, frame, approval, declared)
             cl == TransportExchange(y.transport, control, frame, approval, declared)
             d == OnTransport(x, ck)
             e == OnTransport(y, cl)
  <2>3. Ended(RawCall, d, e)
    BY <2>2 DEF Call
  <2>4. /\ approval \in Approvals(Recoveries) \cup {None}
        /\ approval = None => declared = None
        /\ frame # None => frame.direction = "Request"
    BY DEF Granted, RawFrames, RequestFrame
  <2>5. Kept(x.transport, ck.stack) /\ Kept(y.transport, cl.stack)
    BY <1>2, <2>4, ExchangeKept
  <2>6. /\ Twin(ck.stack, cl.stack)
        /\ Wired(ck.stack, cl.stack) =>
             \/ ck.result = cl.result
             \/ Refuses(ck.result) /\ Refuses(cl.result)
    <3> HIDE DEF x, y
    <3> QED  BY <1>1, <1>2, <2>4, ExchangeTwins
  <2>7. RawCall.call = "raw"
    BY DEF RawCall, NoCall
  <2> HIDE DEF x, y, ck, cl
  <2>8. TwinAnswers(RawCall, d, e)
    BY <1>1, <2>5, <2>6, <2>7, ControlTwins DEF TwinAnswers
  <2> HIDE DEF d, e
  <2> QED  BY <2>3, <2>8, CallTwins
<1>11. CASE SetControl
  <2>1. outcome'.alike = TRUE
    BY <1>11 DEF SetControl, NoOutcome, Compared
  <2>2. control' \in {"none", "Cancelled", "DeadlineExceeded"}
    BY <1>11 DEF SetControl
  <2>3. direct' = direct /\ effects' = effects
    BY <1>11 DEF SetControl
  <2>4. Parity'
    BY <2>1, <2>3 DEF ParityInv, Parity, WellWired
  <2> QED  BY <2>2, <2>3, <2>4 DEF ParityInv
<1>12. CASE UNCHANGED parityVars
  BY <1>12 DEF parityVars, ParityInv, Parity, WellWired
<1> QED  BY <1>4, <1>5, <1>6, <1>7, <1>8, <1>9, <1>10, <1>11, <1>12 DEF ParityNext

(* Behind effects the device, the port and the transcript go through exactly *)
(* what they go through directly, and both stacks answer alike, for any      *)
(* simulation, any faults and any number of calls.                          *)
THEOREM EffectsChangeNothing == ParitySpec => []Parity
<1>1. ParityInit => ParityInv
  BY TwinInitially
<1>2. ParityInv /\ [ParityNext]_parityVars => ParityInv'
  BY StepTwins
<1>3. ParityInv => Parity
  BY DEF ParityInv
<1> QED  BY <1>1, <1>2, <1>3, PTL DEF ParitySpec

-----------------------------------------------------------------------------
(* What an answer says of the device. *)

IsFc(fc) ==
  fc = [ram |-> fc.ram, eeprom |-> fc.eeprom, armed |-> fc.armed,
        rebooted |-> fc.rebooted]

SoundDevice(s) ==
  /\ IsFc(s.fc)
  /\ \A ordinal \in DOMAIN s.schedule : s.schedule[ordinal] \in Faults

(* No reply, none that decodes, or the controller's refusal. *)
Untold(result) ==
  ~result.ok \/ result.frame = None \/ result.frame.direction = "Error"

(* The controller did what a frame asks, and says so if it is heard. *)
Performed(fc, after, frame, result) ==
  /\ IsRequest(frame) /\ frame.command \in DOMAIN WriteCommands
  /\ Accepts(fc, frame) /\ after = Applied(fc, frame)
  /\ result \in {Broken, Reply("Reply", frame.command, "empty")}

(* It did nothing, and did not say that it did. *)
LeftAlone(fc, after, frame, result) ==
  after = fc /\ (frame.command \in DOMAIN WriteCommands => Untold(result))

LEMMA HandleTells ==
  ASSUME NEW fc, NEW frame
  PROVE  LET handled == Handle(fc, frame)
         IN  /\ \/ Performed(fc, handled.fc, frame, handled.result)
                \/ LeftAlone(fc, handled.fc, frame, handled.result)
             /\ ~handled.result.ok => handled.fc = fc
<1> DEFINE handled == Handle(fc, frame)
<1> SUFFICES /\ \/ Performed(fc, handled.fc, frame, handled.result)
                \/ LeftAlone(fc, handled.fc, frame, handled.result)
             /\ ~handled.result.ok => handled.fc = fc
  OBVIOUS
<1>1. CASE ~IsRequest(frame)
  BY <1>1 DEF Handle, Handled, Err, LeftAlone, Untold
<1>2. CASE IsRequest(frame) /\ frame.command \in ReadCommands
  <2>1. frame.command \notin DOMAIN WriteCommands
    BY <1>2 DEF ReadCommands, WriteCommands
  <2>2. handled.fc = fc
    BY <1>2 DEF Handle, Handled, IdentityOf, ReadCommands
  <2> QED  BY <2>1, <2>2 DEF LeftAlone
<1>3. CASE IsRequest(frame) /\ frame.command \in DOMAIN WriteCommands
  <2>1. frame.command \notin DOMAIN IdentityOf /\ frame.command # "BeeperConfig"
    BY <1>3 DEF WriteCommands, IdentityOf
  <2>2. CASE Accepts(fc, frame)
    <3>1. handled = Handled(Applied(fc, frame), Reply("Reply", frame.command, "empty"))
      BY <1>3, <2>1, <2>2 DEF Handle
    <3> QED  BY <1>3, <2>2, <3>1 DEF Handled, Performed, Reply, Ok
  <2>3. CASE ~Accepts(fc, frame)
    <3>1. handled = Handled(fc, Reply("Error", frame.command, "empty"))
      BY <1>3, <2>1, <2>3 DEF Handle
    <3> QED  BY <3>1 DEF Handled, LeftAlone, Untold, Reply, Ok
  <2> QED  BY <2>2, <2>3
<1> QED  BY <1>1, <1>2, <1>3 DEF IsRequest

LEMMA RespondTells ==
  ASSUME NEW fc, NEW frame, NEW ordinal, NEW schedule,
         ordinal \in DOMAIN schedule => schedule[ordinal] \in Faults
  PROVE  LET handled == Respond(fc, frame, schedule, ordinal)
         IN  /\ \/ Performed(fc, handled.fc, frame, handled.result)
                \/ LeftAlone(fc, handled.fc, frame, handled.result)
             /\ ~handled.result.ok => handled.fc = fc
<1> DEFINE fault == schedule[ordinal]
           handled == Respond(fc, frame, schedule, ordinal)
           passed == Handle(fc, frame)
<1> SUFFICES /\ \/ Performed(fc, handled.fc, frame, handled.result)
                \/ LeftAlone(fc, handled.fc, frame, handled.result)
             /\ ~handled.result.ok => handled.fc = fc
  OBVIOUS
<1>1. CASE ordinal \notin DOMAIN schedule
  BY <1>1, HandleTells DEF Respond
<1>2. CASE ordinal \in DOMAIN schedule
  <2>1. handled = Injected(fault, fc, frame)
    BY <1>2 DEF Respond
  <2> HIDE DEF handled, fault
  <2>2. CASE fault \in FaultErrors
    <3>1. handled = Handled(fc, Err(fault))
      BY <2>1, <2>2 DEF Injected, FaultErrors
    <3> QED  BY <3>1 DEF Handled, Err, LeftAlone, Untold
  <2>3. CASE fault = "CorruptFrame"
    <3>1. handled = Handled(fc, Broken)
      BY <2>1, <2>3 DEF Injected, FaultErrors
    <3> QED  BY <3>1 DEF Handled, Broken, Ok, LeftAlone, Untold
  <2>4. CASE fault = "BadChecksum"
    <3>1. handled = [passed EXCEPT !.result = IF passed.result.ok THEN Broken
                                              ELSE passed.result]
      BY <2>1, <2>4 DEF Injected, FaultErrors
    <3>2. passed = Handled(passed.fc, passed.result)
      BY DEF Handle, Handled
    <3>3. /\ \/ Performed(fc, passed.fc, frame, passed.result)
             \/ LeftAlone(fc, passed.fc, frame, passed.result)
          /\ ~passed.result.ok => passed.fc = fc
      BY HandleTells
    <3> HIDE DEF passed
    <3>4. /\ handled.fc = passed.fc
          /\ handled.result = IF passed.result.ok THEN Broken ELSE passed.result
      BY <3>1, <3>2 DEF Handled
    <3>5. Broken.ok = TRUE /\ Untold(Broken)
      BY DEF Broken, Ok, Untold
    <3>6. CASE passed.result.ok
      BY <3>3, <3>4, <3>5, <3>6 DEF Performed, LeftAlone
    <3>7. CASE ~passed.result.ok
      BY <3>3, <3>4, <3>7
    <3> QED  BY <3>6, <3>7
  <2>5. fault \in FaultErrors \cup {"CorruptFrame", "BadChecksum"}
    BY <1>2 DEF Faults, fault
  <2> QED  BY <2>2, <2>3, <2>4, <2>5
<1> QED  BY <1>1, <1>2

(* What an exchange leaves of a simulation, told by what it returns. *)
Told(s, t, frame, result) ==
  /\ t.schedule = s.schedule
  /\ ~result.ok => t.fc = s.fc
  /\ \/ s.kind = "Mock" /\ Performed(s.fc, t.fc, frame, result)
     \/ t.fc = s.fc /\ (s.kind = "Mock" => LeftAlone(s.fc, t.fc, frame, result))

LEMMA SimTells ==
  ASSUME NEW s, SoundSim(s), SoundDevice(s), NEW frame, NEW approval, NEW declared
  PROVE  LET done == SimExchange(s, control, frame, approval, declared)
         IN  Told(s, done.s, frame, done.result)
<1> DEFINE evidence == [frame |-> frame, approval |-> approval,
                        declared |-> declared, phase |-> s.phase]
           passed == Passed(s, evidence)
           blocked == AuditedBlocked(s)
           refusal == GuardRefusal(s, frame.command, approval, declared)
           done == SimExchange(s, control, frame, approval, declared)
<1> SUFFICES Told(s, done.s, frame, done.result)
  OBVIOUS
<1>1. IsSim(s)
  BY DEF SoundSim
<1>2. ASSUME NEW t, Alike(s, t), NEW e
      PROVE  Told(s, t, frame, Err(e))
  BY <1>2, AlikeFields DEF Told, LeftAlone, Untold, Err
<1>3. Alike(s, s)
  BY AlikeFields
<1>4. CASE ~s.open \/ control # "none" \/ frame = None
  <2>1. \E e \in {"NotOpen", control, "Malformed"} : done = Done(s, Err(e))
    BY <1>4 DEF SimExchange
  <2> HIDE DEF done
  <2> QED  BY <1>2, <1>3, <2>1 DEF Done
<1>5. CASE s.open /\ control = "none" /\ frame # None /\ refusal # "none"
  <2>1. done = Done(IF s.kind = "Replay" THEN Diverged(blocked, refusal) ELSE blocked,
                    Err(refusal))
    BY <1>5 DEF SimExchange
  <2>2. IsSim(blocked) /\ Alike(s, blocked)
    BY <1>1, AlikeFields DEF AuditedBlocked, IsSim
  <2> HIDE DEF refusal, blocked, done
  <2>3. Alike(blocked, Diverged(blocked, refusal))
    BY <2>2, DivergedAlike
  <2>4. Alike(s, done.s) /\ done.result = Err(refusal)
    BY <2>1, <2>2, <2>3 DEF Alike, Done
  <2> QED  BY <1>2, <2>4
<1>6. CASE s.open /\ control = "none" /\ frame # None /\ refusal = "none"
  <2>1. /\ IsSim(passed) /\ passed.fc = s.fc /\ passed.schedule = s.schedule
        /\ passed.kind = s.kind
    BY <1>1, PassedFields
  <2>2. done = IF s.kind = "Mock" THEN Answer(passed, frame) ELSE Play(passed, frame)
    BY <1>6 DEF SimExchange, Passed
  <2> HIDE DEF passed, done
  <2>3. CASE s.kind = "Mock"
    <3> DEFINE handled == Respond(passed.fc, frame, passed.schedule, passed.calls)
    <3>1. done = Done([passed EXCEPT !.fc = handled.fc, !.calls = @ + 1], handled.result)
      BY <2>2, <2>3 DEF Answer
    <3>2. /\ \/ Performed(s.fc, handled.fc, frame, handled.result)
             \/ LeftAlone(s.fc, handled.fc, frame, handled.result)
          /\ ~handled.result.ok => handled.fc = s.fc
      BY <2>1, RespondTells DEF SoundDevice
    <3> HIDE DEF handled
    <3>3. done.result = handled.result /\ done.s.fc = handled.fc
          /\ done.s.schedule = s.schedule
      BY <2>1, <3>1 DEF Done, IsSim
    <3> QED  BY <2>3, <3>2, <3>3 DEF Told, LeftAlone
  <2>4. CASE s.kind # "Mock"
    <3> DEFINE misplay == Misplay(passed, frame)
               response == passed.steps[passed.cursor + 1].response
    <3>1. \/ done = Done(Diverged(passed, misplay), Err(misplay))
          \/ done = Done([passed EXCEPT !.cursor = @ + 1], response)
      BY <2>2, <2>4 DEF Play
    <3> HIDE DEF misplay, response
    <3>2. Alike(passed, Diverged(passed, misplay))
      BY <2>1, DivergedAlike
    <3>3. done.s.fc = passed.fc /\ done.s.schedule = passed.schedule
      BY <2>1, <3>1, <3>2, AlikeFields DEF Done, IsSim
    <3> QED  BY <2>1, <2>4, <3>3 DEF Told
  <2> QED  BY <2>3, <2>4
<1> QED  BY <1>4, <1>5, <1>6

LEMMA TransportTells ==
  ASSUME NEW k, SoundStack(k), SoundDevice(k.sim), NEW frame,
         NEW approval \in Approvals(Recoveries) \cup {None}, NEW declared
  PROVE  LET came == TransportExchange(k, control, frame, approval, declared)
         IN  Told(k.sim, came.stack.sim, frame, came.result)
<1> DEFINE came == TransportExchange(k, control, frame, approval, declared)
<1>1. SoundSim(k.sim) /\ IsStack(k)
  BY DEF SoundStack
<1>2. ASSUME NEW e
      PROVE  Told(k.sim, k.sim, frame, Err(e))
  BY DEF Told, LeftAlone, Untold, Err
<1>3. CASE k.boundary = None
  <2> DEFINE done == SimExchange(k.sim, control, frame, approval, declared)
  <2>1. came = Came([k EXCEPT !.sim = done.s], done.result)
    BY <1>3 DEF TransportExchange, Through
  <2>2. Told(k.sim, done.s, frame, done.result)
    BY <1>1, SimTells
  <2> HIDE DEF came, done
  <2>3. came.stack.sim = done.s /\ came.result = done.result
    BY <1>1, <2>1 DEF Came, IsStack
  <2>4. Told(k.sim, came.stack.sim, frame, came.result)
    BY <2>2, <2>3
  <2> QED  BY <2>4 DEF came
<1>4. CASE k.boundary # None
  <2> DEFINE host == SimExchange(k.sim, control, frame, approval,
                                 IF approval = None THEN None ELSE approval.recovery)
  <2>1. \/ \E e \in {"EffectBoundary", "ApprovalTargetMismatch",
                     "ApprovalRecoveryMismatch"} : came = Came(k, Err(e))
        \/ /\ CanBegin(k.boundary)
           /\ \/ came = Came(Spent(k, k.sim), Err("ApprovalTargetMismatch"))
              \/ came = Came(Spent(k, host.s), host.result)
    BY <1>4, BehindEffects
  <2>2. Told(k.sim, host.s, frame, host.result)
    BY <1>1, SimTells
  <2> HIDE DEF came, host
  <2>3. Told(k.sim, came.stack.sim, frame, came.result)
    BY <1>2, <2>1, <2>2 DEF Came, Spent
  <2> QED  BY <2>3 DEF came
<1> QED  BY <1>3, <1>4

(* What an executor answers is true of the device. *)
Truthful(asked, x, r) ==
  LET s == x.transport.sim
      t == r.x.transport.sim
      ending == Ending(r.result)
  IN  /\ SoundDevice(t)
      /\ ending = "failed" => t.fc = s.fc
      /\ ending = "done" /\ asked.call = "write" /\ t.kind = "Mock" => WrittenTo(t.fc, asked)

(* What leaves the device alone and is not a write. *)
LEMMA UntouchedTruthful ==
  ASSUME NEW x, SoundDevice(x.transport.sim), NEW asked, NEW r,
         r.x.transport.sim.fc = x.transport.sim.fc,
         r.x.transport.sim.schedule = x.transport.sim.schedule,
         asked.call # "write" \/ Ending(r.result) # "done"
  PROVE  Truthful(asked, x, r)
BY DEF Truthful, SoundDevice

LEMMA ToldDevice ==
  ASSUME NEW s, SoundDevice(s), NEW t, NEW frame, NEW result, Told(s, t, frame, result)
  PROVE  SoundDevice(t)
<1>1. t.schedule = s.schedule
  BY DEF Told
<1>2. CASE t.fc = s.fc
  BY <1>1, <1>2 DEF SoundDevice
<1>3. CASE Performed(s.fc, t.fc, frame, result)
  <2>1. IsFc(Applied(s.fc, frame))
    <3>1. CASE frame.command = "SetBeeperConfig"
      BY <3>1 DEF SoundDevice, IsFc, Applied
    <3>2. CASE frame.command = "EepromWrite"
      BY <3>2 DEF SoundDevice, IsFc, Applied
    <3>3. CASE frame.command = "Reboot"
      <4>1. Applied(s.fc, frame) = [s.fc EXCEPT !.ram = s.fc.eeprom, !.rebooted = TRUE]
        BY <3>3 DEF Applied
      <4>2. s.fc = [ram |-> s.fc.ram, eeprom |-> s.fc.eeprom, armed |-> s.fc.armed,
                    rebooted |-> s.fc.rebooted]
        BY DEF SoundDevice, IsFc
      <4>3. Applied(s.fc, frame) = [ram |-> s.fc.eeprom, eeprom |-> s.fc.eeprom,
                                    armed |-> s.fc.armed, rebooted |-> TRUE]
        BY <4>1, <4>2
      <4> QED  BY <4>3 DEF IsFc
    <3> QED  BY <1>3, <3>1, <3>2, <3>3 DEF Performed, WriteCommands
  <2> QED  BY <1>1, <1>3, <2>1 DEF SoundDevice, Performed
<1> QED  BY <1>2, <1>3 DEF Told

(* An exchange of an executor, and what its answer tells. *)
Served(x, command, payload, r) ==
  LET s == x.transport.sim
      t == r.x.transport.sim
      frame == RequestFrame(command, payload)
  IN  /\ SoundDevice(t) /\ t.schedule = s.schedule
      /\ command \notin DOMAIN WriteCommands \/ s.kind # "Mock" => t.fc = s.fc
      /\ Ending(r.result) = "failed" => t.fc = s.fc
      /\ r.result.ok /\ s.kind = "Mock" /\ command \in DOMAIN WriteCommands =>
           /\ Accepts(s.fc, frame) /\ t.fc = Applied(s.fc, frame)
           /\ r.result.frame.content = "empty"

LEMMA ExchangeTells ==
  ASSUME NEW x, SoundExecutor(x), SoundDevice(x.transport.sim), NEW command, NEW payload,
         NEW approval \in Approvals(Recoveries) \cup {None}, NEW declared
  PROVE  Served(x, command, payload,
                Exchange(x, control, command, payload, approval, declared))
<1> DEFINE frame == RequestFrame(command, payload)
           asked == OnRequest(x.correlator, command)
           came == TransportExchange(x.transport, control, frame, approval, declared)
           refusal == IF ~came.result.ok THEN came.result.error
                      ELSE ReplyRefusal(asked, command, came.result.frame)
           r == Exchange(x, control, command, payload, approval, declared)
           s == x.transport.sim
           t == r.x.transport.sim
<1>1. r = IF refusal # "none"
          THEN Ran([target |-> x.target, transport |-> came.stack,
                    correlator |-> NewCorrelator], Err(refusal))
          ELSE Ran([target |-> x.target, transport |-> came.stack,
                    correlator |-> [outstanding |-> <<>>, last |-> command]], came.result)
  BY ExchangeIs
<1>2. Told(s, came.stack.sim, frame, came.result)
  BY TransportTells DEF SoundExecutor
<1>3. frame.command = command
  BY DEF RequestFrame
<1>4. asked.outstanding # <<>> /\ Head(asked.outstanding) = command
  <2>1. asked = [outstanding |-> <<command>>, last |-> x.correlator.last]
    BY DEF OnRequest, SoundExecutor
  <2> HIDE DEF asked
  <2> QED  BY <2>1
<1>5. Performed(s.fc, came.stack.sim.fc, frame, came.result) =>
        \/ came.result.ok /\ refusal = "Decode"
        \/ /\ came.result.ok /\ refusal = "none"
           /\ came.result.frame.content = "empty"
  <2>1. SUFFICES ASSUME Performed(s.fc, came.stack.sim.fc, frame, came.result)
                 PROVE  \/ came.result.ok /\ refusal = "Decode"
                        \/ /\ came.result.ok /\ refusal = "none"
                           /\ came.result.frame.content = "empty"
    OBVIOUS
  <2>2. CASE came.result = Broken
    BY <2>2 DEF Broken, Ok, ReplyRefusal
  <2>3. CASE came.result = Reply("Reply", command, "empty") /\ came.result # Broken
    <3>1. /\ came.result.ok /\ came.result.frame # None
          /\ came.result.frame = [direction |-> "Reply", command |-> command,
                                  content |-> "empty"]
      <4> DEFINE reply == [direction |-> "Reply", command |-> command, content |-> "empty"]
      <4> HIDE DEF came
      <4>1. came.result = Ok(reply) /\ Ok(reply) # Ok(None)
        BY <2>3 DEF Reply, Broken
      <4>2. reply # None
        BY <4>1
      <4> HIDE DEF reply
      <4>3. came.result.ok /\ came.result.frame = reply
        BY <4>1 DEF Ok
      <4> QED  BY <4>2, <4>3 DEF reply
    <3>2. command \in Known
      BY <1>3, <2>1 DEF Performed, Known, WriteCommands
    <3>3. ReplyClass(asked, command) = "Expected"
      BY <1>4 DEF ReplyClass
    <3> HIDE DEF asked, came
    <3>4. ReplyRefusal(asked, command, came.result.frame) = "none"
      BY <3>1, <3>2, <3>3 DEF ReplyRefusal
    <3> QED  BY <3>1, <3>4
  <2> QED  BY <1>3, <2>1, <2>2, <2>3 DEF Performed
<1>6. LeftAlone(s.fc, came.stack.sim.fc, frame, came.result) /\ command \in DOMAIN WriteCommands
        => ~came.result.ok \/ refusal # "none"
  BY <1>3 DEF LeftAlone, Untold, ReplyRefusal
<1> HIDE DEF frame, asked, came, refusal, r
<1>7. /\ t = came.stack.sim
      /\ refusal # "none" => r.result = Err(refusal)
      /\ refusal = "none" => r.result = came.result
  BY <1>1 DEF Ran
<1>8. SoundDevice(t) /\ t.schedule = s.schedule
  BY <1>2, <1>7, ToldDevice DEF Told
<1>9. command \notin DOMAIN WriteCommands \/ s.kind # "Mock" => t.fc = s.fc
  BY <1>2, <1>3, <1>7 DEF Told, Performed
<1>10. Ending(r.result) = "failed" => t.fc = s.fc
  <2>1. CASE came.stack.sim.fc = s.fc
    BY <1>7, <2>1
  <2>2. CASE Performed(s.fc, came.stack.sim.fc, frame, came.result)
    <3>1. Ending(r.result) # "failed"
      BY <1>5, <1>7, <2>2 DEF Err, Ending
    <3> QED  BY <3>1
  <2> QED  BY <1>2, <2>1, <2>2 DEF Told
<1>11. ASSUME r.result.ok, s.kind = "Mock", command \in DOMAIN WriteCommands
       PROVE  /\ Accepts(s.fc, frame) /\ t.fc = Applied(s.fc, frame)
              /\ r.result.frame.content = "empty"
  <2>1. refusal = "none" /\ r.result = came.result
    BY <1>7, <1>11 DEF Err
  <2>2. Performed(s.fc, came.stack.sim.fc, frame, came.result)
    BY <1>2, <1>6, <1>11, <2>1 DEF Told
  <2> QED  BY <1>5, <1>7, <2>1, <2>2 DEF Performed
<1>12. Served(x, command, payload, r)
  BY <1>8, <1>9, <1>10, <1>11 DEF Served, frame
<1> QED  BY <1>12 DEF r

LEMMA ReadTells ==
  ASSUME NEW x, SoundExecutor(x), SoundDevice(x.transport.sim), NEW state
  PROVE  Truthful(NoCall, x, Read(x, control, state, "BeeperConfig"))
<1> DEFINE went == Exchange(x, control, "BeeperConfig", <<>>, None, None)
           r == Read(x, control, state, "BeeperConfig")
<1>1. "BeeperConfig" \notin DOMAIN WriteCommands
  BY DEF WriteCommands
<1>2. Served(x, "BeeperConfig", <<>>, went)
  BY ExchangeTells
<1>3. r = went \/ r = Ran(x, Err("NotPermittedInState"))
  BY DEF Read
<1>4. NoCall.call # "write"
  BY DEF NoCall
<1> HIDE DEF went, r
<1>5. /\ r.x.transport.sim.fc = x.transport.sim.fc
      /\ r.x.transport.sim.schedule = x.transport.sim.schedule
  BY <1>1, <1>2, <1>3 DEF Ran, Served
<1>6. Truthful(NoCall, x, r)
  BY <1>4, <1>5, UntouchedTruthful
<1> QED  BY <1>6 DEF r

(* What the controller has when it has applied a write. *)
LEMMA AppliedIsWritten ==
  ASSUME NEW w \in Writes, NEW fc, IsFc(fc),
         Accepts(fc, RequestFrame(w.command, PayloadOf(w.command, w.flags)))
  PROVE  WrittenTo(Applied(fc, RequestFrame(w.command, PayloadOf(w.command, w.flags))), w)
<1> DEFINE frame == RequestFrame(w.command, PayloadOf(w.command, w.flags))
           after == Applied(fc, frame)
<1>1. frame.command = w.command /\ frame.payload = PayloadOf(w.command, w.flags)
  BY DEF RequestFrame
<1>2. fc = [ram |-> fc.ram, eeprom |-> fc.eeprom, armed |-> fc.armed,
            rebooted |-> fc.rebooted]
  BY DEF IsFc
<1>3. w.command \in {"SetBeeperConfig", "EepromWrite", "Reboot"}
  BY DEF Writes
<1> HIDE DEF frame
<1> SUFFICES WrittenTo(after, w)
  BY DEF frame
<1>4. CASE w.command = "SetBeeperConfig"
  <2>1. frame.payload[1] = w.flags
    BY <1>1, <1>4 DEF PayloadOf, FlagBytes
  <2>2. after = [fc EXCEPT !.ram = w.flags]
    BY <1>1, <1>4, <2>1 DEF Applied
  <2> HIDE DEF after
  <2>3. after.ram = w.flags
    BY <1>2, <2>2
  <2> QED  BY <1>4, <2>3 DEF WrittenTo
<1>5. CASE w.command = "EepromWrite"
  <2>1. ~fc.armed
    BY <1>1, <1>5 DEF Accepts, frame
  <2>2. after = [fc EXCEPT !.eeprom = fc.ram]
    BY <1>1, <1>5 DEF Applied
  <2> HIDE DEF after
  <2>3. after.eeprom = after.ram /\ ~after.armed
    BY <1>2, <2>1, <2>2
  <2> QED  BY <1>5, <2>3 DEF WrittenTo
<1>6. CASE w.command = "Reboot"
  <2>1. after = [[fc EXCEPT !.ram = fc.eeprom] EXCEPT !.rebooted = TRUE]
    BY <1>1, <1>6 DEF Applied
  <2> HIDE DEF after
  <2>2. [fc EXCEPT !.ram = fc.eeprom]
          = [ram |-> fc.eeprom, eeprom |-> fc.eeprom, armed |-> fc.armed,
             rebooted |-> fc.rebooted]
    BY <1>2
  <2>3. after = [ram |-> fc.eeprom, eeprom |-> fc.eeprom, armed |-> fc.armed,
                 rebooted |-> TRUE]
    BY <2>1, <2>2
  <2> QED  BY <1>6, <2>3 DEF WrittenTo
<1> QED  BY <1>3, <1>4, <1>5, <1>6

LEMMA WriteTells ==
  ASSUME NEW x, SoundExecutor(x), SoundDevice(x.transport.sim), NEW state,
         NEW w \in Writes, NEW approval \in Approvals(Recoveries), NEW declared
  PROVE  Truthful(w, x, Write(x, control, state, w.command, w.flags, approval, declared))
<1> DEFINE payload == PayloadOf(w.command, w.flags)
           frame == RequestFrame(w.command, payload)
           went == Exchange(x, control, w.command, payload, approval, declared)
           refusal == WriteRefusal(x, state, w.command, approval, declared)
           r == Write(x, control, state, w.command, w.flags, approval, declared)
           s == x.transport.sim
           t == went.x.transport.sim
<1>1. w.command \in DOMAIN WriteCommands
  BY DEF Writes, WriteCommands
<1>2. CASE refusal # "none"
  <2>1. r = Ran(x, Err(refusal))
    BY <1>2 DEF Write
  <2> HIDE DEF r, refusal
  <2>2. r.x = x /\ Ending(r.result) # "done"
    BY <2>1 DEF Ran, Err, Ending
  <2>3. Truthful(w, x, r)
    BY <2>2, UntouchedTruthful
  <2> QED  BY <2>3 DEF r
<1>3. CASE refusal = "none"
  <2>1. r = IF went.result.ok /\ went.result.frame.content # "empty"
            THEN Ran(went.x, Err("WriteAckNotEmpty")) ELSE went
    BY <1>3 DEF Write
  <2>2. Served(x, w.command, payload, went)
    BY ExchangeTells
  <2>3. t.kind = s.kind
    BY ExchangeKeptBy DEF KeptBy, Kept
  <2> HIDE DEF went, r, payload
  <2>4. /\ SoundDevice(t)
        /\ s.kind # "Mock" => t.fc = s.fc
        /\ Ending(went.result) = "failed" => t.fc = s.fc
        /\ went.result.ok /\ s.kind = "Mock" =>
             /\ Accepts(s.fc, frame) /\ t.fc = Applied(s.fc, frame)
             /\ went.result.frame.content = "empty"
    BY <1>1, <2>2 DEF Served
  <2>5. went.result.ok /\ s.kind = "Mock" => WrittenTo(t.fc, w)
    BY <2>4, AppliedIsWritten DEF SoundDevice, payload
  <2>6. CASE went.result.ok /\ went.result.frame.content # "empty"
    <3>1. r = Ran(went.x, Err("WriteAckNotEmpty"))
      BY <2>1, <2>6
    <3>2. r.x = went.x /\ Ending(r.result) = "failed"
      BY <3>1 DEF Ran, Err, Ending
    <3>3. t.fc = s.fc
      BY <2>4, <2>6
    <3> QED  BY <2>4, <3>2, <3>3 DEF Truthful, r
  <2>7. CASE ~(went.result.ok /\ went.result.frame.content # "empty")
    <3>1. r = went
      BY <2>1, <2>7
    <3>2. Ending(r.result) = "done" => went.result.ok
      BY <3>1 DEF Ending
    <3> QED  BY <2>3, <2>4, <2>5, <3>1, <3>2 DEF Truthful, r
  <2> QED  BY <2>6, <2>7
<1> QED  BY <1>2, <1>3

(* Opening, closing, changing phase and identifying leave the device alone. *)
SameDevice(s, t) == t.fc = s.fc /\ t.schedule = s.schedule

LEMMA ControlLeavesDevice ==
  ASSUME NEW s, IsSim(s)
  PROVE  /\ SameDevice(s, SimOpen(s, control).s)
         /\ SameDevice(s, SimClose(s))
         /\ \A phase : SameDevice(s, [s EXCEPT !.phase = phase])
         /\ SameDevice(s, [s EXCEPT !.arrived = None])
<1>1. \A open : SameDevice(s, [s EXCEPT !.open = open])
  BY DEF IsSim, SameDevice
<1>2. SameDevice(s, SimOpen(s, control).s)
  <2>1. SimOpen(s, control).s = s \/ SimOpen(s, control).s = [s EXCEPT !.open = TRUE]
    BY DEF SimOpen, Done
  <2> QED  BY <1>1, <2>1 DEF SameDevice
<1>3. SameDevice(s, SimClose(s))
  BY <1>1 DEF SimClose
<1>4. /\ \A phase : SameDevice(s, [s EXCEPT !.phase = phase])
      /\ SameDevice(s, [s EXCEPT !.arrived = None])
  BY DEF IsSim, SameDevice
<1> QED  BY <1>2, <1>3, <1>4

LEMMA OpenLeavesDevice ==
  ASSUME NEW k, SoundStack(k)
  PROVE  SameDevice(k.sim, TransportOpen(k, control).stack.sim)
<1> DEFINE t == SimOpen(k.sim, control)
           r == TransportOpen(k, control).stack
<1>1. SameDevice(k.sim, t.s)
  <2>1. IsSim(k.sim)
    BY DEF SoundStack, SoundSim
  <2> QED  BY Zenon, <2>1, ControlLeavesDevice
<1>2. CASE k.boundary = None
  <2>1. r = [k EXCEPT !.sim = t.s]
    BY <1>2 DEF TransportOpen, Through, Came
  <2> HIDE DEF r, t
  <2>2. r.sim = t.s
    BY <2>1 DEF SoundStack, IsStack
  <2> QED  BY <1>1, <2>2 DEF r
<1>3. CASE k.boundary # None
  <2>1. Begun(k, "open").sim = k.sim
    BY DEF Begun, SoundStack, IsStack
  <2>2. TransportOpen(k, control)
          = RoundTrip(k, Came([Begun(k, "open") EXCEPT !.sim = t.s], t.result))
    BY <1>3, <2>1 DEF TransportOpen, Through
  <2> HIDE DEF t
  <2>3. r = (IF CanBegin(k.boundary) THEN Came(Spent(k, t.s), t.result)
             ELSE Came(k, Err("EffectBoundary"))).stack
    BY <1>3, <2>2, RoundTripIs
  <2> HIDE DEF r
  <2>4. r.sim = k.sim \/ r.sim = t.s
    BY <2>3 DEF Came, Spent
  <2> QED  BY <1>1, <2>4 DEF r, SameDevice
<1> QED  BY <1>2, <1>3

LEMMA CloseLeavesDevice ==
  ASSUME NEW k, SoundStack(k)
  PROVE  SameDevice(k.sim, TransportClose(k).stack.sim)
<1> DEFINE t == SimClose(k.sim)
           r == TransportClose(k).stack
<1>1. SameDevice(k.sim, t)
  <2>1. IsSim(k.sim)
    BY DEF SoundStack, SoundSim
  <2> QED  BY Zenon, <2>1, ControlLeavesDevice
<1>2. CASE k.boundary = None
  <2>1. r = [k EXCEPT !.sim = t]
    BY <1>2 DEF TransportClose, Came
  <2> HIDE DEF r, t
  <2>2. r.sim = t
    BY <2>1 DEF SoundStack, IsStack
  <2> QED  BY <1>1, <2>2 DEF r
<1>3. CASE k.boundary # None
  <2> DEFINE trip == RoundTrip(k, Came([Begun(k, "close") EXCEPT !.sim = t], Ok(None)))
  <2>1. Begun(k, "close").sim = k.sim
    BY DEF Begun, SoundStack, IsStack
  <2>2. TransportClose(k) = [trip EXCEPT !.result = Ok(None)]
    BY <1>3, <2>1 DEF TransportClose
  <2> HIDE DEF t
  <2>3. trip = IF CanBegin(k.boundary) THEN Came(Spent(k, t), Ok(None))
               ELSE Came(k, Err("EffectBoundary"))
    BY <1>3, RoundTripIs
  <2> HIDE DEF trip
  <2>4. r = k \/ r = Spent(k, t)
    BY <2>2, <2>3 DEF Came
  <2> HIDE DEF r
  <2>5. r.sim = k.sim \/ r.sim = t
    BY <2>4 DEF Spent
  <2> QED  BY <1>1, <2>5 DEF r, SameDevice
<1> QED  BY <1>2, <1>3

(* A call that only handles the transport. *)
LEMMA OnTransportTells ==
  ASSUME NEW x, SoundExecutor(x), SoundDevice(x.transport.sim), NEW asked, NEW came,
         SameDevice(x.transport.sim, came.stack.sim), asked.call # "write"
  PROVE  Truthful(asked, x, OnTransport(x, came))
<1> DEFINE r == OnTransport(x, came)
<1>1. r.x.transport = came.stack
  BY DEF OnTransport, Ran, SoundExecutor, IsExecutor
<1> HIDE DEF r
<1>2. Truthful(asked, x, r)
  BY <1>1, UntouchedTruthful DEF SameDevice
<1> QED  BY <1>2 DEF r

LEMMA RawTells ==
  ASSUME NEW x, SoundExecutor(x), SoundDevice(x.transport.sim), NEW frame,
         NEW approval \in Approvals(Recoveries) \cup {None}, NEW declared
  PROVE  Truthful(RawCall, x, OnTransport(x, TransportExchange(x.transport, control, frame,
                                                               approval, declared)))
<1> DEFINE came == TransportExchange(x.transport, control, frame, approval, declared)
           r == OnTransport(x, came)
<1>1. Told(x.transport.sim, came.stack.sim, frame, came.result)
  BY TransportTells DEF SoundExecutor
<1>2. r.x.transport = came.stack /\ r.result = came.result
  BY DEF OnTransport, Ran, SoundExecutor, IsExecutor
<1>3. RawCall.call # "write"
  BY DEF RawCall, NoCall
<1> HIDE DEF came, r
<1>4. SoundDevice(came.stack.sim)
  BY <1>1, ToldDevice
<1>5. Ending(r.result) = "failed" => came.stack.sim.fc = x.transport.sim.fc
  BY <1>1, <1>2 DEF Told, Ending
<1> QED  BY <1>2, <1>3, <1>4, <1>5 DEF Truthful, r, came

LEMMA RoundLeavesDevice ==
  ASSUME NEW run, IsRun(run), SoundStack(run.stack), SoundDevice(run.stack.sim),
         StageOf(run.i)
  PROVE  SameDevice(run.stack.sim, IdentifyRound(run, control).stack.sim)
<1> DEFINE frame == RequestFrame(run.i.stage, <<>>)
           came == TransportExchange(run.stack, control, frame, None, None)
           next == IdentifyRound(run, control)
<1>1. Told(run.stack.sim, came.stack.sim, frame, came.result)
  BY TransportTells
<1>2. frame.command = run.i.stage
  BY DEF RequestFrame
<1>3. frame.command \notin DOMAIN WriteCommands
  BY <1>2 DEF StageOf, IdentifyCommands, WriteCommands
<1>4. next = RoundMakes(run, came)
  BY RoundIs
<1> HIDE DEF frame, came, next
<1>5. SameDevice(run.stack.sim, came.stack.sim)
  BY <1>1, <1>3 DEF Told, Performed, SameDevice
<1>6. next.stack \in {run.stack, came.stack}
  BY <1>4, RoundMakesRun
<1> QED  BY <1>5, <1>6 DEF SameDevice, next

LEMMA IdentifyTells ==
  ASSUME NEW x, SoundExecutor(x), SoundDevice(x.transport.sim), NEW state
  PROVE  Truthful(NoCall, x, Identify(x, control, state))
<1> DEFINE Round(run) == IdentifyRound(run, control)
           Run(run) == /\ IsRun(run) /\ Kept(x.transport, run.stack)
                       /\ IsIdentification(run.i) /\ StageOf(run.i)
                       /\ SameDevice(x.transport.sim, run.stack.sim)
           start == [stack |-> x.transport, i |-> NewIdentification, result |-> None]
           last  == Round(Round(Round(Round(start))))
           r == Identify(x, control, state)
<1>1. SoundStack(x.transport)
  BY DEF SoundExecutor
<1>2. Run(start)
  <2>1. IsIdentification(NewIdentification) /\ StageOf(NewIdentification)
    BY DEF NewIdentification, IsIdentification, StageOf, IdentifyCommands
  <2> QED  BY <1>1, <2>1, KeptItself DEF IsRun, SameDevice
<1>3. ASSUME NEW run, Run(run)
      PROVE  Run(Round(run))
  <2> DEFINE came == TransportExchange(run.stack, control, RequestFrame(run.i.stage, <<>>),
                                       None, None)
             next == Round(run)
  <2>1. SoundStack(run.stack) /\ SoundDevice(run.stack.sim)
    BY <1>3 DEF Kept, SameDevice, SoundDevice
  <2>2. IsRun(next) /\ Kept(x.transport, next.stack)
    BY <1>1, <1>3, RoundKept
  <2>3. next = RoundMakes(run, came)
    BY RoundIs
  <2>4. IsIdentification(next.i) /\ StageOf(next.i)
    <3> HIDE DEF next, came
    <3> QED  BY <1>3, <2>3, RoundMakesIdentification
  <2>5. SameDevice(run.stack.sim, next.stack.sim)
    BY <1>3, <2>1, RoundLeavesDevice
  <2> HIDE DEF next
  <2>6. Run(next)
    BY <1>3, <2>2, <2>4, <2>5 DEF SameDevice
  <2> QED  BY <2>6 DEF next
<1>4. \/ r = Ran(x, Err("NotPermittedInState"))
      \/ r = OnTransport(x, Came(last.stack, last.result))
  BY DEF Identify, EachStage, Ran, OnTransport, Came
<1>5. NoCall.call # "write"
  BY DEF NoCall
<1> HIDE DEF Run, Round, start, r
<1>6. Run(last)
  BY <1>2, <1>3
<1> HIDE DEF last
<1>7. Truthful(NoCall, x, OnTransport(x, Came(last.stack, last.result)))
  BY <1>5, <1>6, OnTransportTells DEF Run, Came
<1>8. Truthful(NoCall, x, Ran(x, Err("NotPermittedInState")))
  BY <1>5, UntouchedTruthful DEF Ran
<1>9. Truthful(NoCall, x, r)
  BY <1>4, <1>7, <1>8
<1> QED  BY <1>9 DEF r

LEMMA PhaseTells ==
  ASSUME NEW x, SoundExecutor(x), SoundDevice(x.transport.sim),
         NEW phase \in {"Identifying", "Operational"}
  PROVE  Truthful(NoCall, x, Ran([x EXCEPT !.transport = InPhase(@, phase)], Ok(None)))
<1> DEFINE s == x.transport.sim
           came == Came(InPhase(x.transport, phase), Ok(None))
<1>1. IsSim(s) /\ IsStack(x.transport)
  BY DEF SoundExecutor, SoundStack, SoundSim
<1>2. came.stack = [x.transport EXCEPT !.sim = [s EXCEPT !.phase = phase]]
  BY DEF Came, InPhase
<1>3. SameDevice(s, [s EXCEPT !.phase = phase])
  BY Zenon, <1>1, ControlLeavesDevice
<1>4. NoCall.call # "write"
  BY DEF NoCall
<1>5. Ran([x EXCEPT !.transport = InPhase(@, phase)], Ok(None)) = OnTransport(x, came)
  BY DEF OnTransport, Came
<1> HIDE DEF came
<1>6. came.stack.sim = [s EXCEPT !.phase = phase]
  BY <1>1, <1>2 DEF IsStack
<1>7. Truthful(NoCall, x, OnTransport(x, came))
  BY <1>3, <1>4, <1>6, OnTransportTells
<1> QED  BY <1>5, <1>7

LEMMA FreshLeavesDevice ==
  ASSUME NEW x, SoundExecutor(x)
  PROVE  SameDevice(x.transport.sim, Fresh(x).transport.sim)
<1> DEFINE s == x.transport.sim
<1>1. IsSim(s) /\ IsStack(x.transport) /\ IsExecutor(x)
  BY DEF SoundExecutor, SoundStack, SoundSim
<1>2. Fresh(x) = [x EXCEPT !.transport = [x.transport EXCEPT !.sim = [s EXCEPT !.arrived = None]]]
  BY DEF Fresh
<1>3. Fresh(x).transport.sim = [s EXCEPT !.arrived = None]
  BY <1>1, <1>2 DEF IsExecutor, IsStack
<1> QED  BY Zenon, <1>1, <1>3, ControlLeavesDevice

-----------------------------------------------------------------------------
(* Both devices. *)

DeviceInv ==
  SoundParity /\ SoundDevice(direct.transport.sim) /\ SoundDevice(effects.transport.sim)

LEMMA DevicesInitially ==
  ASSUME ParityInit
  PROVE  DeviceInv
<1>1. PICK w \in Worlds :
        /\ direct = NewExecutor(w.targets.executor, NewStack(w.sim, None, w.targets))
        /\ effects = NewExecutor(w.targets.executor,
                                 NewStack(w.sim, NewCoordinator, w.targets))
  BY DEF ParityInit
<1>2. direct.transport.sim = w.sim /\ effects.transport.sim = w.sim
  BY <1>1 DEF NewExecutor, NewStack
<1>3. /\ w.sim.fc = PowerOn(w.sim.fc.ram, w.sim.fc.armed)
      /\ \A ordinal \in DOMAIN w.sim.schedule : w.sim.schedule[ordinal] \in Faults
  BY ParityAssumption
<1>4. IsFc(w.sim.fc)
  BY <1>3 DEF PowerOn, IsFc
<1>5. SoundDevice(w.sim)
  BY <1>3, <1>4 DEF SoundDevice
<1> QED  BY <1>2, <1>5, SoundInitially DEF DeviceInv

(* What the property says of one call. *)
AnswersMatch ==
  \A stack \in {"direct", "effects"} :
    /\ /\ outcome'[stack] = "done"
       /\ outcome'.asked.call = "write"
       /\ SimOf(stack)'.kind = "Mock"
       => WrittenTo(SimOf(stack)'.fc, outcome'.asked)
    /\ outcome'[stack] = "failed" => SimOf(stack)'.fc = SimOf(stack).fc

LEMMA CallTells ==
  ASSUME DeviceInv, NEW asked, NEW d, NEW e,
         Truthful(asked, Fresh(direct), d), Truthful(asked, Fresh(effects), e),
         direct' = d.x, effects' = e.x,
         outcome' = Compared(asked, d.result, e.result)
  PROVE  /\ SoundDevice(direct'.transport.sim) /\ SoundDevice(effects'.transport.sim)
         /\ AnswersMatch
<1>1. /\ Fresh(direct).transport.sim.fc = direct.transport.sim.fc
      /\ Fresh(effects).transport.sim.fc = effects.transport.sim.fc
  BY FreshLeavesDevice DEF DeviceInv, SoundParity, SameDevice
<1>2. /\ outcome'.asked = asked
      /\ outcome'["direct"] = Ending(d.result) /\ outcome'["effects"] = Ending(e.result)
  BY DEF Compared
<1>3. /\ SimOf("direct")' = d.x.transport.sim /\ SimOf("direct") = direct.transport.sim
      /\ SimOf("effects")' = e.x.transport.sim /\ SimOf("effects") = effects.transport.sim
  BY DEF SimOf
<1>4. SoundDevice(direct'.transport.sim) /\ SoundDevice(effects'.transport.sim)
  BY DEF Truthful
<1>5. AnswersMatch
  BY <1>1, <1>2, <1>3 DEF AnswersMatch, Truthful
<1> QED  BY <1>4, <1>5

LEMMA StepTells ==
  ASSUME DeviceInv, [ParityNext]_parityVars
  PROVE  DeviceInv' /\ [AnswersMatch]_parityVars
<1> DEFINE x == Fresh(direct)
           y == Fresh(effects)
           Ended(asked, d, e) ==
             /\ direct' = d.x /\ effects' = e.x
             /\ outcome' = Compared(asked, d.result, e.result)
<1>1. SoundExecutor(x) /\ SoundExecutor(y)
  BY FreshKeptBy DEF DeviceInv, SoundParity, KeptBy
<1>2. SoundDevice(x.transport.sim) /\ SoundDevice(y.transport.sim)
  <2>1. /\ SameDevice(direct.transport.sim, x.transport.sim)
        /\ SameDevice(effects.transport.sim, y.transport.sim)
    BY FreshLeavesDevice DEF DeviceInv, SoundParity
  <2> HIDE DEF x, y
  <2> QED  BY <2>1 DEF DeviceInv, SameDevice, SoundDevice
<1>3. SoundStack(x.transport) /\ SoundStack(y.transport)
  BY <1>1 DEF SoundExecutor
<1>4. SoundParity'
  BY StepSound DEF DeviceInv
<1>5. ASSUME NEW asked, NEW d, NEW e, Truthful(asked, x, d), Truthful(asked, y, e),
             Ended(asked, d, e)
      PROVE  DeviceInv' /\ [AnswersMatch]_parityVars
  BY <1>4, <1>5, CallTells DEF DeviceInv
<1>6. CASE Open
  <2>1. Ended(NoCall, OnTransport(x, TransportOpen(x.transport, control)),
                      OnTransport(y, TransportOpen(y.transport, control)))
    BY <1>6 DEF Open, Call
  <2>2. NoCall.call # "write"
    BY DEF NoCall
  <2> HIDE DEF x, y, Ended
  <2>3. /\ Truthful(NoCall, x, OnTransport(x, TransportOpen(x.transport, control)))
        /\ Truthful(NoCall, y, OnTransport(y, TransportOpen(y.transport, control)))
    BY <1>1, <1>2, <1>3, <2>2, OpenLeavesDevice, OnTransportTells
  <2> QED  BY <1>5, <2>1, <2>3
<1>7. CASE Close
  <2>1. Ended(NoCall, OnTransport(x, TransportClose(x.transport)),
                      OnTransport(y, TransportClose(y.transport)))
    BY <1>7 DEF Close, Call
  <2>2. NoCall.call # "write"
    BY DEF NoCall
  <2> HIDE DEF x, y, Ended
  <2>3. /\ Truthful(NoCall, x, OnTransport(x, TransportClose(x.transport)))
        /\ Truthful(NoCall, y, OnTransport(y, TransportClose(y.transport)))
    BY <1>1, <1>2, <1>3, <2>2, CloseLeavesDevice, OnTransportTells
  <2> QED  BY <1>5, <2>1, <2>3
<1>8. CASE ChangePhase
  <2>1. PICK phase \in {"Identifying", "Operational"} :
          Ended(NoCall, Ran([x EXCEPT !.transport = InPhase(@, phase)], Ok(None)),
                        Ran([y EXCEPT !.transport = InPhase(@, phase)], Ok(None)))
    BY <1>8 DEF ChangePhase, Call
  <2> HIDE DEF x, y, Ended
  <2>2. /\ Truthful(NoCall, x, Ran([x EXCEPT !.transport = InPhase(@, phase)], Ok(None)))
        /\ Truthful(NoCall, y, Ran([y EXCEPT !.transport = InPhase(@, phase)], Ok(None)))
    BY <1>1, <1>2, PhaseTells
  <2> QED  BY <1>5, <2>1, <2>2
<1>9. CASE CallRead
  <2>1. PICK state \in CallerStates :
          Ended(NoCall, Read(x, control, state, "BeeperConfig"),
                        Read(y, control, state, "BeeperConfig"))
    BY <1>9 DEF CallRead, Call
  <2> HIDE DEF x, y, Ended
  <2> QED  BY <1>1, <1>2, <1>5, <2>1, ReadTells
<1>10. CASE CallWrite
  <2>1. PICK state \in CallerStates, w \in Writes, approval \in Granted,
             declared \in Recoveries :
          Call(w, LAMBDA z : Write(z, control, state, w.command, w.flags,
                                   approval, declared))
    BY <1>10 DEF CallWrite
  <2>2. Ended(w, Write(x, control, state, w.command, w.flags, approval, declared),
                 Write(y, control, state, w.command, w.flags, approval, declared))
    BY <2>1 DEF Call
  <2>3. approval \in Approvals(Recoveries)
    BY DEF Granted
  <2> HIDE DEF x, y, Ended
  <2> QED  BY <1>1, <1>2, <1>5, <2>2, <2>3, WriteTells
<1>11. CASE CallIdentify
  <2>1. PICK state \in CallerStates :
          Ended(NoCall, Identify(x, control, state), Identify(y, control, state))
    BY <1>11 DEF CallIdentify, Call
  <2> HIDE DEF x, y, Ended
  <2> QED  BY <1>1, <1>2, <1>5, <2>1, IdentifyTells
<1>12. CASE CallRaw
  <2>1. PICK frame \in RawFrames, approval \in Granted \cup {None} :
        \E declared \in IF approval = None THEN {None} ELSE Recoveries :
          Call(RawCall, LAMBDA z : OnTransport(z, TransportExchange(z.transport, control,
                                                    frame, approval, declared)))
    BY <1>12 DEF CallRaw
  <2>2. PICK declared \in IF approval = None THEN {None} ELSE Recoveries :
          Call(RawCall, LAMBDA z : OnTransport(z, TransportExchange(z.transport, control,
                                                    frame, approval, declared)))
    BY <2>1
  <2>3. Ended(RawCall,
              OnTransport(x, TransportExchange(x.transport, control, frame, approval, declared)),
              OnTransport(y, TransportExchange(y.transport, control, frame, approval, declared)))
    BY <2>2 DEF Call
  <2>4. approval \in Approvals(Recoveries) \cup {None}
    BY DEF Granted
  <2> HIDE DEF x, y, Ended
  <2> QED  BY <1>1, <1>2, <1>5, <2>3, <2>4, RawTells
<1>13. CASE SetControl
  <2>1. /\ \A stack \in {"direct", "effects"} : outcome'[stack] = "done"
        /\ outcome'.asked.call # "write"
    BY <1>13 DEF SetControl, NoOutcome, Compared, NoCall, Ending, Ok
  <2>2. AnswersMatch
    BY <2>1 DEF AnswersMatch
  <2>3. direct' = direct /\ effects' = effects
    BY <1>13 DEF SetControl
  <2> QED  BY <1>4, <2>2, <2>3 DEF DeviceInv
<1>14. CASE UNCHANGED parityVars
  BY <1>4, <1>14 DEF parityVars, DeviceInv
<1> QED  BY <1>6, <1>7, <1>8, <1>9, <1>10, <1>11, <1>12, <1>13, <1>14 DEF ParityNext

(* A write reported done was done, one reported failed changed nothing, on    *)
(* either stack, whatever faults are injected.                              *)
THEOREM AnswersAreTrue == ParitySpec => AnswersMatchTheDevice
<1>1. ParityInit => DeviceInv
  BY DevicesInitially
<1>2. DeviceInv /\ [ParityNext]_parityVars => DeviceInv' /\ [AnswersMatch]_parityVars
  BY StepTells
<1>3. ParitySpec => [][AnswersMatch]_parityVars
  BY <1>1, <1>2, PTL DEF ParitySpec
<1> QED  BY <1>3, PTL DEF AnswersMatchTheDevice, AnswersMatch
=============================================================================
