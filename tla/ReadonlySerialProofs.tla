------------------------ MODULE ReadonlySerialProofs ------------------------
(***************************************************************************)
(* The read-only path with any boards, any number of attempts and chunks,   *)
(* and a port, a line and a board that fail when they like: every result is *)
(* the truth about the board or a failure, the port is released or reported *)
(* and the host never makes a call the machine refuses. A faultless board is *)
(* blamed for a bad reply only after a late one of an earlier attempt.      *)
(***************************************************************************)
EXTENDS ReadonlySerial, ReadonlyDiscoveryProofs, SequenceTheorems, WellFoundedInduction

-----------------------------------------------------------------------------
(* Types. *)

Waits ==
  {"idle", "choosing", "opening", "writing", "reading", "cancelling", "cleaning",
   "closing"}

Hosts ==
  [pc : Waits, selected : BOOLEAN, opened : BOOLEAN, reader : BOOLEAN,
   cancelled : BOOLEAN, writer : BOOLEAN, failure : CleanupOrigins \cup {None},
   origin : Origins \cup {None}, chunks : Nat, refused : BOOLEAN]

Ports == [open : BOOLEAN, readLock : BOOLEAN, writeLock : BOOLEAN]

Asked == [command : ToSet(Stages), attempt : Nat]

Pieces ==
  [command : ToSet(Stages), attempt : Nat, direction : {"Reply", "Error"},
   part : {"whole", "head", "tail", "garbled"}]

LineTypeOK ==
  /\ board \in Devices
  /\ attempt \in Nat
  /\ disturbed \in BOOLEAN
  /\ crossed \in BOOLEAN
  /\ port \in Ports
  /\ inbox \in Seq(Asked)
  /\ rx \in Seq(Pieces)
  /\ buffer \in Seq(Pieces)

-----------------------------------------------------------------------------
(* Where the host is, and where it has brought the machine.                 *)

(* The replies of a board that let an identification come to its n-th read. *)
Said(b, n) ==
  [k \in 1 .. n - 1 |->
     [command |-> Stages[k], direction |-> "Reply", content |-> b[Stages[k]]]]

Reading(d, b, n) == Led(Said(b, n), n) /\ IsExchanging(d, n, Said(b, n))

(* The verdict is in, and it is a failure or the truth. *)
Ending(d, b) ==
  /\ IsClosing(d)
  /\ d.outcome \in Outcomes
  /\ d.outcome.kind \in {"failed", Truth(b)}

Holding(h) == h.selected /\ h.opened

Placed(d, h, b) ==
  \/ h.pc \in {"idle", "choosing"}
  \/ h.pc = "opening" /\ IsOpening(d) /\ h.selected
  \/ h.pc \in {"writing", "reading", "cancelling"} /\ Holding(h)
       /\ \E n \in 1 .. 4 : Reading(d, b, n)
  \/ h.pc \in {"cleaning", "closing"} /\ Holding(h) /\ Ending(d, b)

Released == [open |-> FALSE, readLock |-> FALSE, writeLock |-> FALSE]

GivenUpOn == {"failed", "cancelled", "unavailable"}

(* What is shown, while the port is `p`. *)
ShownRight(result, p, b) ==
  /\ result \in Results
  /\ result.outcome \in GivenUpOn \cup {Truth(b)}
  /\ result.outcome \notin GivenUpOn => p = Released

HostInv ==
  /\ host \in Hosts /\ ~host.refused
  /\ machine.trace = <<>>
  /\ Placed(machine, host, board)
  /\ shown = None \/ (host.pc = "idle" /\ ShownRight(shown, port, board))

SerialInv == LineTypeOK /\ HostInv

-----------------------------------------------------------------------------
(* The line. As long as nothing goes wrong outside and nothing of an earlier *)
(* attempt was read, either the reply in hand is all there is on the way, or *)
(* something of an earlier attempt comes before it.                         *)

Faultless == ~disturbed /\ ~crossed

Tagged ==
  /\ \A k \in 1 .. Len(rx) : rx[k].attempt <= attempt
  /\ \A k \in 1 .. Len(inbox) : inbox[k].attempt <= attempt

(* What the host will read next was asked for in an earlier attempt.         *)
Behind ==
  \/ rx # <<>> /\ rx[1].attempt # attempt
  \/ rx = <<>> /\ inbox # <<>> /\ inbox[1].attempt # attempt

Quiescent == inbox = <<>> /\ rx = <<>>

InHand ==
  \/ inbox = <<Request>> /\ rx = <<>> /\ buffer = <<>>
  \/ inbox = <<>> /\ buffer \o rx \in Replies(Request)

Clear == Quiescent \/ Behind

ReplyDue == InHand \/ (buffer = <<>> /\ Behind)

Unasked == {"choosing", "opening", "writing"}

LineInv ==
  /\ Tagged
  /\ Faultless =>
       /\ host.pc \in Unasked => Clear
       /\ host.pc = "reading" => ReplyDue
       /\ host.origin \notin MachineOrigins
       /\ shown # None => shown.origin \notin MachineOrigins

-----------------------------------------------------------------------------
(* The host object. *)

At(h, pc) == [h EXCEPT !.pc = pc]

From(h, origin) == [h EXCEPT !.origin = origin, !.refused = FALSE]

Unlocked(h) == [h EXCEPT !.reader = FALSE, !.cancelled = FALSE, !.writer = FALSE]

Locked(h) == [h EXCEPT !.writer = TRUE, !.reader = TRUE, !.chunks = 0]

Busy(h) == h \in Hosts /\ Holding(h) /\ ~h.refused

Innocent(h) == h.origin \notin MachineOrigins

LEMMA AtMoves ==
  ASSUME NEW h \in Hosts, ~h.refused, NEW pc \in Waits
  PROVE  /\ At(h, pc) \in Hosts /\ ~At(h, pc).refused
         /\ At(h, pc).pc = pc /\ At(h, pc).origin = h.origin
         /\ Holding(h) => Holding(At(h, pc))
         /\ h.selected => At(h, pc).selected
BY DEF Hosts, At, Holding

LEMMA RememberedMoves ==
  ASSUME NEW h, Busy(h), NEW origin \in CleanupOrigins
  PROVE  /\ Busy(Remembered(h, origin)) /\ Remembered(h, origin).origin = h.origin
         /\ Remembered(h, origin).failure \in CleanupOrigins
<1> DEFINE first == IF h.failure = None THEN origin ELSE h.failure
<1>1. h \in Hosts /\ ~h.refused /\ Holding(h)
  BY DEF Busy
<1>2. first \in CleanupOrigins
  BY <1>1 DEF Hosts
<1>3. Remembered(h, origin) = [h EXCEPT !.failure = first]
  BY DEF Remembered
<1> HIDE DEF first
<1> QED  BY <1>1, <1>2, <1>3 DEF Busy, Hosts, Holding

LEMMA UnlockedMoves ==
  ASSUME NEW h, Busy(h)
  PROVE  Busy(Unlocked(h)) /\ Unlocked(h).origin = h.origin
BY DEF Busy, Hosts, Unlocked, Holding

LEMMA LockedMoves ==
  ASSUME NEW h, Busy(h)
  PROVE  Busy(Locked(h)) /\ Locked(h).origin = h.origin
BY DEF Busy, Hosts, Locked, Holding

LEMMA FromMoves ==
  ASSUME NEW h \in Hosts, ~h.refused, NEW origin \in Origins \cup {None}
  PROVE  /\ From(h, origin) \in Hosts /\ ~From(h, origin).refused
         /\ From(h, origin).origin = origin /\ From(h, origin).pc = h.pc
         /\ Holding(h) => Holding(From(h, origin))
BY DEF Hosts, From, Holding

LEMMA NewHostType ==
  NewHost \in Hosts /\ ~NewHost.refused /\ NewHost.pc = "idle" /\ NewHost.origin = None
BY DEF NewHost, Hosts, Waits

-----------------------------------------------------------------------------
(* The trace, drained. *)

LEMMA Largest ==
  ASSUME NEW n \in Nat, NEW S \in SUBSET (1 .. n), S # {}
  PROVE  \E m \in S : \A k \in S : k <= m
<1> DEFINE R == {p \in Nat \X Nat : p[1] < p[2]}
           T == {k \in Nat : n - k \in S}
<1>1. IsWellFoundedOn(R, Nat)
  <2>1. OpToRel(<, Nat) = R
    BY Zenon DEF OpToRel
  <2> QED  BY Zenon, <2>1, NatLessThanWellFounded
<1>2. T \subseteq Nat /\ T # {}
  <2>1. PICK s \in S : TRUE
    OBVIOUS
  <2>2. n - s \in Nat /\ n - (n - s) = s
    OBVIOUS
  <2> QED  BY <2>1, <2>2
<1>3. PICK x \in T : \A y \in T : ~(<<y, x>> \in R)
  <2> HIDE DEF R, T
  <2> QED  BY <1>1, <1>2, WFMin
<1>4. ASSUME NEW k \in S
      PROVE  k <= n - x
  <2>1. n - k \in T
    <3>1. n - k \in Nat /\ n - (n - k) = k
      OBVIOUS
    <3> QED  BY <3>1
  <2>2. ~(n - k < x)
    BY <1>3, <2>1
  <2> QED  BY <2>1, <2>2
<1> QED  BY <1>4

(* The origin that stays is the last one named, or the one there was.        *)
LEMMA OriginDrained ==
  ASSUME NEW d, NEW origin, d.trace \in Seq(TraceEvents)
  PROVE  /\ DrainedOrigin(d, origin) \in MachineOrigins \cup {origin}
         /\ d.trace \in Seq(QuietEvents) => DrainedOrigin(d, origin) = origin
<1> DEFINE t == d.trace
           named == {k \in DOMAIN t : t[k][1] \in DOMAIN OriginOfEvent}
           last == CHOOSE m \in named : \A k \in named : k <= m
<1>1. DrainedOrigin(d, origin)
        = IF named = {} THEN origin ELSE OriginOfEvent[t[last][1]]
  BY DEF DrainedOrigin
<1>2. DOMAIN t = 1 .. Len(t) /\ Len(t) \in Nat
  OBVIOUS
<1>3. named # {} => OriginOfEvent[t[last][1]] \in MachineOrigins
  <2> SUFFICES ASSUME named # {}
               PROVE  OriginOfEvent[t[last][1]] \in MachineOrigins
    OBVIOUS
  <2>1. named \in SUBSET (1 .. Len(t))
    BY <1>2
  <2>2. \E m \in named : \A k \in named : k <= m
    <3> HIDE DEF named
    <3> QED  BY <1>2, <2>1, Largest
  <2>3. last \in named
    <3> HIDE DEF named
    <3> QED  BY <2>2
  <2>4. t[last][1] \in DOMAIN OriginOfEvent
    <3> HIDE DEF last
    <3> QED  BY <2>3
  <2> HIDE DEF last, t, named
  <2> QED  BY <2>4 DEF OriginOfEvent, MachineOrigins
<1>4. t \in Seq(QuietEvents) => named = {}
  <2> SUFFICES ASSUME t \in Seq(QuietEvents), NEW k \in DOMAIN t
               PROVE  t[k][1] \notin DOMAIN OriginOfEvent
    OBVIOUS
  <2>1. t[k] \in QuietEvents
    BY <1>2
  <2>2. t[k][1] \in {"DIRECTIVE", "FRAME_ACCEPTED", "IDENTITY_STAGE_OK"}
    BY <2>1 DEF QuietEvents
  <2>3. DOMAIN OriginOfEvent = {"FRAME_REJECTED", "IDENTITY_STAGE_FAILED"}
    BY DEF OriginOfEvent
  <2> QED  BY <2>2, <2>3
<1> HIDE DEF t, named, last
<1> QED  BY <1>1, <1>3, <1>4 DEF t

LEMMA NothingTraced ==
  <<>> \in Seq(TraceEvents) /\ <<>> \in Seq(QuietEvents)
OBVIOUS

LEMMA DrainedMachine ==
  ASSUME NEW d
  PROVE  /\ \A b, n : Reading(d, b, n) => Reading(Drained(d), b, n) /\ Drained(d).trace = <<>>
         /\ \A b : Ending(d, b) => Ending(Drained(d), b) /\ Drained(d).trace = <<>>
<1>1. Drained(d) = Retraced(d, <<>>)
  BY DEF Drained, Retraced
<1> DEFINE e == Retraced(d, <<>>)
<1>2. ASSUME NEW b, NEW n, Reading(d, b, n)
      PROVE  Reading(Drained(d), b, n) /\ Drained(d).trace = <<>>
  <2> DEFINE h == Said(b, n)
  <2>1. Led(h, n) /\ IsExchanging(d, n, h)
    BY <1>2 DEF Reading
  <2> HIDE DEF h
  <2>2. IsExchanging(e, n, h) /\ e.trace = <<>>
    BY <2>1, TraceRead
  <2> HIDE DEF e
  <2>3. Reading(e, b, n) /\ e.trace = <<>>
    BY <2>1, <2>2 DEF Reading, h
  <2> QED  BY <1>1, <2>3 DEF e
<1>3. ASSUME NEW b, Ending(d, b)
      PROVE  Ending(Drained(d), b) /\ Drained(d).trace = <<>>
  BY <1>1, <1>3, TraceRead DEF Ending
<1> QED  BY <1>2, <1>3

LEMMA DrainedEmpties ==
  ASSUME NEW d, IsComplete(d)
  PROVE  Drained(d).trace = <<>>
<1>1. PICK m \in 2 .. 7 :
        d = Machine("Complete", None, Idle(m), d.ident, None, d.outcome, d.trace)
  BY DEF IsComplete
<1>2. [Machine("Complete", None, Idle(m), d.ident, None, d.outcome, d.trace)
         EXCEPT !.trace = <<>>]
        = Machine("Complete", None, Idle(m), d.ident, None, d.outcome, <<>>)
  BY DEF Machine
<1> QED  BY <1>1, <1>2, Fields DEF Drained

-----------------------------------------------------------------------------
(* The parts of the host's steps. From port `p`, a part leaves the host in   *)
(* one of the awaits `waits`, and the machine where it then is.             *)

Stops == {"cleaning", "closing"}

Leads(p, waits) ==
  /\ host' \in Hosts /\ ~host'.refused
  /\ host'.pc \in waits /\ Placed(machine', host', board)
  /\ machine'.trace = <<>>
  /\ port' \in Ports /\ port'.open = p.open
  /\ shown' = shown

LEMMA AwaitLeads ==
  ASSUME NEW d, NEW h \in Hosts, ~h.refused, NEW pc \in Waits, Await(d, h, pc)
  PROVE  /\ machine' = d /\ shown' = shown
         /\ host' \in Hosts /\ ~host'.refused /\ host'.pc = pc
         /\ host'.origin = h.origin
         /\ Holding(h) => Holding(host')
         /\ h.selected => host'.selected
<1>1. host' = At(h, pc) /\ machine' = d /\ shown' = shown
  BY DEF Await, At
<1> QED  BY <1>1, AtMoves

LEMMA ReleaseLeads ==
  ASSUME NEW d, Ending(d, board), d.trace = <<>>, NEW h, Busy(h), NEW p \in Ports,
         Release(d, h, p)
  PROVE  Leads(p, Stops) /\ host'.origin = h.origin
<1>1. PICK readFails \in BOOLEAN, writeFails \in BOOLEAN :
        LET one == IF readFails THEN Remembered(h, "READER_RELEASE") ELSE h
            two == IF writeFails THEN Remembered(one, "WRITER_RELEASE") ELSE one
            freed == [two EXCEPT !.reader = FALSE, !.cancelled = FALSE, !.writer = FALSE]
        IN  /\ port' = [p EXCEPT !.readLock = IF h.reader THEN readFails ELSE @,
                                 !.writeLock = IF h.writer THEN writeFails ELSE @]
            /\ IF h.opened /\ h.selected
                 THEN Await(d, freed, "closing")
                 ELSE AnswerClose(d, freed)
  BY DEF Release
<1> DEFINE one == IF readFails THEN Remembered(h, "READER_RELEASE") ELSE h
           two == IF writeFails THEN Remembered(one, "WRITER_RELEASE") ELSE one
<1>2. Busy(one) /\ one.origin = h.origin
  BY RememberedMoves DEF CleanupOrigins
<1>3. Busy(two) /\ two.origin = h.origin
  <2> HIDE DEF one
  <2> QED  BY <1>2, RememberedMoves DEF CleanupOrigins
<1>4. Await(d, Unlocked(two), "closing")
  BY <1>1 DEF Unlocked, Busy, Holding
<1> HIDE DEF two
<1>5. Busy(Unlocked(two)) /\ Unlocked(two).origin = h.origin
  BY <1>3, UnlockedMoves
<1>6. /\ machine' = d /\ shown' = shown
      /\ host' \in Hosts /\ ~host'.refused /\ host'.pc = "closing"
      /\ host'.origin = h.origin /\ Holding(host')
  <2> DEFINE u == Unlocked(two)
  <2>1. Await(d, u, "closing") /\ u \in Hosts /\ ~u.refused /\ u.origin = h.origin
        /\ Holding(u)
    BY <1>4, <1>5 DEF Busy
  <2> HIDE DEF u
  <2> QED  BY <2>1, AwaitLeads DEF Waits
<1>7. port' \in Ports /\ port'.open = p.open
  <2>1. port' = [p EXCEPT !.readLock = IF h.reader THEN readFails ELSE @,
                          !.writeLock = IF h.writer THEN writeFails ELSE @]
    BY <1>1
  <2>2. h.reader \in BOOLEAN /\ h.writer \in BOOLEAN
    BY DEF Busy, Hosts
  <2> QED  BY <2>1, <2>2 DEF Ports
<1>8. Placed(machine', host', board)
  BY <1>6 DEF Placed
<1> QED  BY <1>6, <1>7, <1>8 DEF Leads, Stops

LEMMA CleanUpLeads ==
  ASSUME NEW d, Ending(d, board), d.trace = <<>>, NEW h, Busy(h), NEW p \in Ports,
         CleanUp(d, h, p)
  PROVE  Leads(p, Stops) /\ host'.origin = h.origin
<1>1. CASE Await(d, h, "cleaning") /\ port' = p
  <2>1. /\ machine' = d /\ shown' = shown
        /\ host' \in Hosts /\ ~host'.refused /\ host'.pc = "cleaning"
        /\ host'.origin = h.origin /\ Holding(host')
    BY <1>1, AwaitLeads DEF Waits, Busy
  <2>2. Placed(machine', host', board)
    BY <2>1 DEF Placed
  <2> QED  BY <1>1, <2>1, <2>2 DEF Leads, Stops
<1>2. CASE Release(d, h, p)
  BY <1>2, ReleaseLeads
<1> QED  BY <1>1, <1>2 DEF CleanUp

(* An exchange that fails names its own origin and closes. *)
LEMMA FailExchangeLeads ==
  ASSUME NEW n \in 1 .. 4, NEW d, Reading(d, board, n), d.trace = <<>>,
         NEW h, Busy(h), NEW p \in Ports, NEW class \in TransportFailures,
         NEW origin \in Origins, FailExchangeOf(d, h, p, class, origin)
  PROVE  Leads(p, Stops) /\ host'.origin = origin
<1> DEFINE call == AcceptExchangeErr(d, d.pendingId, class)
<1>1. IsExchanging(d, n, Said(board, n))
  BY DEF Reading
<1>2. Pending(d, d.pendingId, "Exchanging")
  BY <1>1, Places DEF Pending
<1>3. GivesUp(call) /\ call.d.trace = <<>>
  BY <1>1, <1>2, ExchangeErrCalled
<1>4. CleanUp(Drained(call.d),
              [h EXCEPT !.origin = DrainedOrigin(call.d, origin),
                        !.refused = call.answer.kind # "close"], p)
  BY DEF FailExchangeOf
<1> HIDE DEF call
<1>5. Ending(call.d, board)
  BY <1>3, FailureNamesNobody DEF GivesUp, Ending
<1>6. DrainedOrigin(call.d, origin) = origin
  BY <1>3, NothingTraced, OriginDrained
<1>7. CleanUp(Drained(call.d), From(h, origin), p)
  <2>1. (call.answer.kind # "close") = FALSE
    BY <1>3 DEF GivesUp
  <2> QED  BY <1>4, <1>6, <2>1 DEF From
<1> DEFINE e == Drained(call.d)
           g == From(h, origin)
<1>8. Ending(e, board) /\ e.trace = <<>>
  BY <1>5, DrainedMachine
<1>9. Busy(g) /\ g.origin = origin
  BY FromMoves DEF Busy
<1> HIDE DEF e, g
<1> QED  BY <1>7, <1>8, <1>9, CleanUpLeads DEF e, g

(* The locks are taken, or one of them is not to be had. *)
LEMMA StartExchangeLeads ==
  ASSUME NEW n \in 1 .. 4, NEW d, Reading(d, board, n), d.trace = <<>>,
         NEW h, Busy(h), NEW p \in Ports, StartExchange(d, h, p)
  PROVE  /\ Leads(p, {"writing"} \cup Stops)
         /\ Innocent(h) => Innocent(host')
<1>1. CASE /\ port' = [p EXCEPT !.readLock = TRUE, !.writeLock = TRUE]
           /\ Await(d, [h EXCEPT !.writer = TRUE, !.reader = TRUE, !.chunks = 0], "writing")
  <2> DEFINE g == Locked(h)
  <2>1. Await(d, g, "writing")
    BY <1>1 DEF Locked
  <2>2. Busy(g) /\ g.origin = h.origin
    BY LockedMoves
  <2> HIDE DEF g
  <2>3. /\ machine' = d /\ shown' = shown
        /\ host' \in Hosts /\ ~host'.refused /\ host'.pc = "writing"
        /\ host'.origin = h.origin /\ Holding(host')
    BY <2>1, <2>2, AwaitLeads DEF Waits, Busy
  <2>4. port' \in Ports /\ port'.open = p.open
    BY <1>1 DEF Ports
  <2>5. Placed(machine', host', board)
    BY <2>3 DEF Placed
  <2> QED  BY <2>3, <2>4, <2>5 DEF Leads, Innocent
<1>2. CASE FailExchangeOf(d, h, p, "Disconnected", "WRITER_ACQUISITION")
  <2>1. Leads(p, Stops) /\ host'.origin = "WRITER_ACQUISITION"
    BY <1>2, FailExchangeLeads DEF TransportFailures, Origins
  <2> QED  BY <2>1 DEF Leads, Innocent, MachineOrigins
<1>3. CASE FailExchangeOf(d, [h EXCEPT !.writer = TRUE], p, "Disconnected",
                          "READER_ACQUISITION")
  <2> DEFINE g == [h EXCEPT !.writer = TRUE]
  <2>1. Busy(g)
    BY DEF Busy, Hosts, Holding
  <2> HIDE DEF g
  <2>2. Leads(p, Stops) /\ host'.origin = "READER_ACQUISITION"
    BY <1>3, <2>1, FailExchangeLeads DEF TransportFailures, Origins, g
  <2> QED  BY <2>2 DEF Leads, Innocent, MachineOrigins
<1> QED  BY <1>1, <1>2, <1>3 DEF StartExchange

(* The directive that follows a call. A quiet trace blames nobody.           *)
LEMMA FollowLeads ==
  ASSUME NEW call, call.d.trace \in Seq(TraceEvents), NEW h, Busy(h), NEW p \in Ports,
         \/ /\ call.answer.kind = "exchange"
            /\ \E n \in 1 .. 4 : Reading(call.d, board, n)
         \/ call.answer.kind = "close" /\ Ending(call.d, board),
         Follow(call, h, p)
  PROVE  /\ Leads(p, {"writing"} \cup Stops)
         /\ call.answer.kind = "close" => Leads(p, Stops)
         /\ call.d.trace \in Seq(QuietEvents) /\ Innocent(h) => Innocent(host')
<1> DEFINE d == Drained(call.d)
           origin == DrainedOrigin(call.d, h.origin)
           g == [h EXCEPT !.origin = DrainedOrigin(call.d, @)]
<1>1. origin \in MachineOrigins \cup {h.origin}
  BY OriginDrained
<1>2. call.d.trace \in Seq(QuietEvents) => origin = h.origin
  BY OriginDrained
<1>3. Busy(g) /\ g.origin = origin
  <2>1. g = [h EXCEPT !.origin = origin]
    OBVIOUS
  <2>2. origin \in Origins \cup {None}
    BY <1>1 DEF Busy, Hosts, Origins
  <2> HIDE DEF origin, g
  <2> QED  BY <2>1, <2>2 DEF Busy, Hosts, Holding
<1>4. call.answer.kind = "exchange" => StartExchange(d, g, p)
  BY DEF Follow
<1>5. call.answer.kind = "close" => CleanUp(d, g, p)
  BY DEF Follow
<1> HIDE DEF g, d, origin
<1>6. CASE call.answer.kind = "exchange" /\ \E n \in 1 .. 4 : Reading(call.d, board, n)
  <2>1. PICK n \in 1 .. 4 : Reading(call.d, board, n)
    BY <1>6
  <2>2. Reading(d, board, n) /\ d.trace = <<>>
    BY <2>1, DrainedMachine DEF d
  <2>3. Leads(p, {"writing"} \cup Stops) /\ (Innocent(g) => Innocent(host'))
    BY <1>3, <1>4, <1>6, <2>2, StartExchangeLeads
  <2> QED  BY <1>2, <1>3, <1>6, <2>3 DEF Innocent
<1>7. CASE call.answer.kind = "close" /\ Ending(call.d, board)
  <2>1. Ending(d, board) /\ d.trace = <<>>
    BY <1>7, DrainedMachine DEF d
  <2>2. Leads(p, Stops) /\ host'.origin = g.origin
    BY <1>3, <1>5, <1>7, <2>1, CleanUpLeads
  <2> QED  BY <1>2, <1>3, <2>2 DEF Innocent, Leads
<1> QED  BY <1>6, <1>7

-----------------------------------------------------------------------------
(* The end of an attempt. *)

Tells(h) ==
  /\ host' = NewHost /\ machine'.trace = <<>>
  /\ shown' \in Results /\ shown' # None
  /\ Innocent(h) => shown'.origin \notin MachineOrigins

LEMMA FinishLeads ==
  ASSUME NEW d, IsComplete(d), d.outcome \in Outcomes, NEW h \in Hosts, ~h.refused,
         Finish(d, h)
  PROVE  Tells(h) /\ shown'.outcome = d.outcome.kind
<1>1. d.phase = "Complete" /\ d.outcome # None
  BY Places, NoneAssumption
<1>2. OutcomeKind(d) = d.outcome.kind
  BY <1>1 DEF OutcomeKind
<1>3. FailureClass(d) \in FailureClasses \cup {None}
  <2>1. CASE d.outcome.kind = "failed"
    <3>1. d.outcome \in Failures
      BY <2>1 DEF Outcomes
    <3> QED  BY <1>1, <2>1, <3>1 DEF FailureClass, Failures
  <2>2. CASE d.outcome.kind # "failed"
    BY <2>2 DEF FailureClass
  <2> QED  BY <2>1, <2>2
<1> DEFINE origin == IF FailureClass(d) = None THEN None
                     ELSE IF h.origin = None THEN "FINAL_RESULT" ELSE h.origin
<1>4. origin \in Origins \cup {None} /\ (Innocent(h) => origin \notin MachineOrigins)
  <2>1. h.origin \in Origins \cup {None}
    BY DEF Hosts
  <2>2. "FINAL_RESULT" \in Origins /\ "FINAL_RESULT" \notin MachineOrigins
    BY DEF Origins, MachineOrigins
  <2>3. None \notin MachineOrigins
    BY ResultAssumption DEF Origins
  <2> QED  BY <2>1, <2>2, <2>3 DEF Innocent
<1>5. shown' = [outcome |-> d.outcome.kind, class |-> FailureClass(d), origin |-> origin]
  BY <1>2 DEF Finish, ResultOf, Shown
<1> HIDE DEF origin
<1>6. d.outcome.kind \in {"failed", "api-unsupported", "read-profile-unsupported",
                          "in-scope", "read-only-complete", "scope-mismatch"}
  BY DEF Outcomes, Failures
<1>7. shown' \in Results
  BY <1>3, <1>4, <1>5, <1>6 DEF Results
<1>8. shown' # None
  BY <1>7, ResultAssumption
<1>9. host' = NewHost
  <2>1. host' = [NewHost EXCEPT !.refused = h.refused]
    BY DEF Finish
  <2>2. h.refused = FALSE
    BY DEF Hosts
  <2> QED  BY <2>1, <2>2 DEF NewHost
<1>10. machine'.trace = <<>>
  BY DrainedEmpties DEF Finish
<1> QED  BY <1>4, <1>5, <1>7, <1>8, <1>9, <1>10 DEF Tells

LEMMA AnswerCloseLeads ==
  ASSUME NEW d, Ending(d, board), NEW h, Busy(h), AnswerClose(d, h)
  PROVE  /\ Tells(h)
         /\ shown'.outcome \in {"failed", Truth(board)}
         /\ h.failure # None => shown'.outcome = "failed"
<1>1. IsClosing(d) /\ Pending(d, d.pendingId, "Closing")
  BY Places DEF Pending, Ending
<1>2. CASE h.failure = None
  <2> DEFINE call == AcceptCloseOk(d, d.pendingId)
             g == [h EXCEPT !.refused = call.answer.kind = "refused"]
  <2>1. Finish(call.d, g)
    BY <1>2 DEF AnswerClose, Busy
  <2>2. Rests(call) /\ call.d.outcome = d.outcome
    BY <1>1, CloseCalled DEF Refuses
  <2> HIDE DEF call
  <2>3. g \in Hosts /\ ~g.refused /\ g.origin = h.origin
    <3>1. (call.answer.kind = "refused") = FALSE
      BY <2>2 DEF Rests
    <3>2. g = [h EXCEPT !.refused = FALSE]
      BY <3>1
    <3> HIDE DEF g
    <3> QED  BY <3>2 DEF Busy, Hosts
  <2> HIDE DEF g
  <2>4. Tells(g) /\ shown'.outcome = d.outcome.kind
    <3> DEFINE e == call.d
    <3>1. IsComplete(e) /\ e.outcome = d.outcome /\ e.outcome \in Outcomes /\ Finish(e, g)
      BY <2>1, <2>2 DEF Rests, Ending
    <3> HIDE DEF e
    <3> QED  BY <2>3, <3>1, FinishLeads
  <2> QED  BY <1>2, <2>3, <2>4 DEF Tells, Innocent, Ending
<1>3. CASE h.failure # None
  <2> DEFINE call == AcceptCloseErr(d, d.pendingId, "Unknown")
             g == [h EXCEPT !.origin = h.failure,
                            !.refused = call.answer.kind = "refused"]
  <2>1. Finish(call.d, g)
    BY <1>3 DEF AnswerClose, Busy
  <2>2. EndsFailed(d, call)
    <3>1. "Unknown" \in TransportFailures
      BY DEF TransportFailures
    <3> QED  BY <1>1, <3>1, CloseErrCalled
  <2> HIDE DEF call
  <2>3. h.failure \in CleanupOrigins
    BY <1>3 DEF Busy, Hosts
  <2>4. g \in Hosts /\ ~g.refused /\ g.origin = h.failure
    <3>1. (call.answer.kind = "refused") = FALSE
      BY <2>2 DEF EndsFailed, Rests
    <3>2. g = From(h, h.failure)
      BY <3>1 DEF From
    <3>3. h.failure \in Origins
      BY <2>3 DEF Origins
    <3> HIDE DEF g
    <3>4. h \in Hosts /\ ~h.refused
      BY DEF Busy
    <3> QED  BY <3>2, <3>3, <3>4, FromMoves
  <2> HIDE DEF g
  <2>5. Tells(g) /\ shown'.outcome = "failed"
    <3> DEFINE e == call.d
    <3>1. IsComplete(e) /\ e.outcome \in Outcomes /\ e.outcome.kind = "failed"
      BY <2>2, FailureNamesNobody DEF EndsFailed, Rests
    <3>2. Finish(e, g)
      BY <2>1
    <3> HIDE DEF e
    <3> QED  BY <2>4, <3>1, <3>2, FinishLeads
  <2>6. Innocent(g)
    BY <2>3, <2>4 DEF Innocent, CleanupOrigins, MachineOrigins
  <2> QED  BY <2>5, <2>6 DEF Tells
<1> QED  BY <1>2, <1>3

-----------------------------------------------------------------------------
(* The board's answers, and the truth.                                      *)

LEMMA BoardSays ==
  ASSUME NEW b \in Devices, NEW n \in 1 .. 4
  PROVE  b[Stages[n]] \in Contents[Stages[n]] /\ b[Stages[n]] # "unreadable"
BY SerialAssumption, StageNames

FrameFrom(b, n, direction) ==
  [command |-> Stages[n], direction |-> direction, content |-> b[Stages[n]]]

LEMMA SaidMore ==
  ASSUME NEW b, NEW n \in 1 .. 4
  PROVE  Append(Said(b, n), FrameFrom(b, n, "Reply")) = Said(b, n + 1)
<1> DEFINE Reply(k) == FrameFrom(b, k, "Reply")
<1>1. Said(b, n) = [k \in 1 .. n - 1 |-> Reply(k)]
  BY DEF Said, FrameFrom
<1>2. Said(b, n + 1) = [k \in 1 .. n |-> Reply(k)]
  BY DEF Said, FrameFrom
<1> HIDE DEF Reply
<1>3. Append([k \in 1 .. n - 1 |-> Reply(k)], Reply(n)) = [k \in 1 .. n |-> Reply(k)]
  <2> DEFINE s == [k \in 1 .. n - 1 |-> Reply(k)]
  <2>1. s \in Seq({Reply(k) : k \in 1 .. n}) /\ Len(s) = n - 1
    OBVIOUS
  <2>2. \A k \in 1 .. n - 1 : s[k] = Reply(k)
    OBVIOUS
  <2> HIDE DEF s
  <2> DEFINE a == Append(s, Reply(n))
  <2>3. a \in Seq({Reply(k) : k \in 1 .. n}) /\ Len(a) = n
    <3>1. Reply(n) \in {Reply(k) : k \in 1 .. n}
      OBVIOUS
    <3> QED  BY <2>1, <3>1, AppendProperties
  <2>4. \A k \in 1 .. n : a[k] = Reply(k)
    BY <2>1, <2>2
  <2> HIDE DEF a
  <2>5. a = [k \in 1 .. n |-> a[k]]
    <3> DEFINE T == {Reply(k) : k \in 1 .. n}
    <3>1. a \in Seq(T) /\ Len(a) = n
      BY <2>3
    <3> HIDE DEF T
    <3>2. a \in [1 .. n -> T]
      BY <3>1
    <3> QED  BY <3>2
  <2>6. a = [k \in 1 .. n |-> Reply(k)]
    BY <2>4, <2>5
  <2> QED  BY <2>6 DEF a, s
<1> QED  BY <1>1, <1>2, <1>3 DEF Reply

(* A verdict reached from what a board says is the truth about it.           *)
LEMMA TruthTold ==
  ASSUME NEW b \in Devices, NEW n \in 1 .. 4, Led(Said(b, n), n), NEW d, NEW call,
         NEW direction \in {"Reply", "Error"},
         Taken(n, Said(b, n), FrameFrom(b, n, direction), d, call)
  PROVE  /\ Logs(d.trace, call.d.trace)
         /\ direction = "Reply" => Calm(d.trace, call.d.trace)
         /\ \/ /\ call.answer.kind = "exchange" /\ direction = "Reply"
               /\ \E k \in 1 .. 4 : Reading(call.d, b, k)
            \/ call.answer.kind = "close" /\ Ending(call.d, b)
<1> DEFINE f == FrameFrom(b, n, direction)
           h == Said(b, n)
<1>1. f.direction = direction /\ f.content = b[Stages[n]] /\ f.command = Stages[n]
  BY DEF FrameFrom
<1>2. f.content \in Contents[Stages[n]] /\ f.content # "unreadable"
  BY <1>1, BoardSays
<1>3. f \in FramesOf(Stages[n])
  BY <1>2 DEF FramesOf, FrameFrom
<1>4. \A k \in 1 .. n - 1 : h[k].content = b[Stages[k]]
  BY DEF Said
<1>5. /\ b.ApiVersion = b[Stages[1]] /\ b.FcVariant = b[Stages[2]]
      /\ b.FcVersion = b[Stages[3]] /\ b.BoardInfo = b[Stages[4]]
  BY StageNames
<1>6. b.ApiVersion \in {"api146", "api147", "otherApi", "otherProtocol"}
  BY <1>5, BoardSays, StageNames DEF Contents
<1>7. DOMAIN ProfileOf = {"api146", "api147"}
  BY DEF ProfileOf
<1>8. Led(h, n)
  OBVIOUS
<1>9. Taken(n, h, f, d, call)
  OBVIOUS
<1> HIDE DEF f
<1>10. CASE GoesOn(n, h, f, call) /\ Calm(d.trace, call.d.trace)
  <2>1. n < 4 /\ Led(Append(h, f), n + 1) /\ Asking(n + 1, Append(h, f), call)
    BY <1>10 DEF GoesOn
  <2>2. direction = "Reply"
    <3>1. h \in Seq(Frames) /\ Len(h) = n - 1
      BY <1>8 DEF Led
    <3>2. Append(h, f)[n] = f
      <4> HIDE DEF h
      <4> QED  BY <3>1
    <3>3. Append(h, f)[n].direction = "Reply"
      <4> DEFINE g == Append(h, f)
                 m == n + 1
      <4>1. Led(g, m) /\ n \in 1 .. m - 1
        BY <2>1
      <4> HIDE DEF g, m
      <4> QED  BY <4>1 DEF Led, g
    <3> QED  BY <1>1, <3>2, <3>3
  <2>3. Append(h, f) = Said(b, n + 1)
    BY <2>2, SaidMore DEF f
  <2> HIDE DEF h
  <2>4. Reading(call.d, b, n + 1) /\ n + 1 \in 1 .. 4
    BY <2>1, <2>3 DEF Reading, Asking
  <2> QED  BY <1>10, <2>1, <2>2, <2>4, Calmly DEF Asking
<1>11. CASE FindsOut(n, h, f, call) /\ Calm(d.trace, call.d.trace)
  <2>1. n = 4 /\ call.answer.kind = "close" /\ IsClosing(call.d)
        /\ call.d.outcome = OutcomeOf(Gathered(h, f)) /\ f.direction = "Reply"
    BY <1>11 DEF FindsOut
  <2>2. /\ call.d.outcome \in Outcomes
        /\ call.d.outcome.kind =
             IF h[1].content = "api147" THEN "read-only-complete"
             ELSE IF h[3].content = "pinned" /\ f.content = "pinned"
               THEN "in-scope" ELSE "scope-mismatch"
    <3> HIDE DEF h
    <3>1. Led(h, 4) /\ f \in FramesOf(Stages[4])
      BY <1>3, <1>8, <2>1
    <3> QED  BY <1>2, <2>1, <3>1, VerdictTold
  <2>3. /\ h[1].content = b.ApiVersion /\ h[2].content = b.FcVariant
        /\ h[3].content = b.FcVersion /\ f.content = b.BoardInfo
    <3> HIDE DEF h
    <3> QED  BY <1>1, <1>4, <1>5, <2>1
  <2>4. b.ApiVersion \in DOMAIN ProfileOf /\ b.FcVariant = "BTFL"
    <3> HIDE DEF h
    <3> QED  BY <1>8, <2>1, <2>3 DEF Led
  <2>5. Truth(b) = call.d.outcome.kind
    <3> HIDE DEF h
    <3>1. CASE b.ApiVersion = "api147"
      BY <1>7, <2>2, <2>3, <2>4, <3>1 DEF Truth
    <3>2. CASE b.ApiVersion = "api146"
      BY <1>7, <2>2, <2>3, <2>4, <3>2 DEF Truth
    <3> QED  BY <1>7, <2>4, <3>1, <3>2
  <2> QED  BY <1>11, <2>1, <2>2, <2>5, Calmly DEF Ending
<1>12. CASE Rejects(n, f, call) /\ Calm(d.trace, call.d.trace)
  <2>1. call.answer.kind = "close" /\ IsClosing(call.d) /\ call.d.outcome \in Outcomes
    BY <1>12 DEF Rejects
  <2>2. Truth(b) = call.d.outcome.kind
    <3>1. CASE /\ n = 1 /\ f.content \notin DOMAIN ProfileOf
               /\ call.d.outcome.kind = "api-unsupported"
      <4>1. b.ApiVersion \in {"otherApi", "otherProtocol"}
        BY <1>1, <1>5, <1>6, <1>7, <3>1
      <4> QED  BY <1>7, <3>1, <4>1 DEF Truth
    <3>2. CASE /\ n = 2 /\ f.content # "BTFL"
               /\ call.d.outcome.kind = "read-profile-unsupported"
      <4>1. b.FcVariant = "otherVariant"
        BY <1>1, <1>2, <1>5, <3>2, StageNames DEF Contents
      <4>2. h[1].content = b.ApiVersion /\ h[1].content \in DOMAIN ProfileOf
        <5> HIDE DEF h
        <5> QED  BY <1>4, <1>5, <1>8, <3>2 DEF Led
      <4> QED  BY <1>7, <3>2, <4>1, <4>2 DEF Truth
    <3> QED  BY <1>12, <3>1, <3>2 DEF Rejects
  <2> QED  BY <1>12, <2>1, <2>2, Calmly DEF Ending
<1>13. CASE GivesUp(call) /\ Useless(f) /\ Logs(d.trace, call.d.trace)
  <2>1. direction = "Error"
    BY <1>1, <1>2, <1>13 DEF Useless
  <2>2. Ending(call.d, b) /\ call.answer.kind = "close"
    BY <1>13, FailureNamesNobody DEF GivesUp, Ending
  <2> QED  BY <1>13, <2>1, <2>2
<1> HIDE DEF h
<1> QED  BY <1>9, <1>10, <1>11, <1>12, <1>13 DEF Taken

(* What the accumulator says: more, a reason, or the frame the board sent.   *)
LEMMA Judged ==
  ASSUME NEW n \in 1 .. 4, machine.accumulating = Stages[n], NEW pieces \in Seq(Pieces)
  PROVE  \/ Judgement(pieces) = [kind |-> "more"]
         \/ \E reason \in FailureReasons :
              Judgement(pieces) = [kind |-> "malformed", reason |-> reason]
         \/ \E direction \in {"Reply", "Error"} :
              Judgement(pieces) = [kind |-> "frame",
                                   frame |-> FrameFrom(board, n, direction)]
<1> DEFINE Malformed(reason) == [kind |-> "malformed", reason |-> reason]
           one == pieces[1]
           reply == [kind |-> "frame",
                     frame |-> [command |-> one.command, direction |-> one.direction,
                                content |-> board[one.command]]]
           Refused(j) == \E reason \in FailureReasons : j = Malformed(reason)
           Framed(j) == \E direction \in {"Reply", "Error"} :
                          j = [kind |-> "frame", frame |-> FrameFrom(board, n, direction)]
<1>1. /\ Refused(Malformed("BadPreamble")) /\ Refused(Malformed("WrongCommand"))
      /\ Refused(Malformed("BadChecksum")) /\ Refused(Malformed("TrailingBytes"))
  BY DEF FailureReasons
<1>2. \/ Judgement(pieces) = [kind |-> "more"]
      \/ Judgement(pieces) \in {Malformed("BadPreamble"), Malformed("WrongCommand"),
                                Malformed("BadChecksum"), Malformed("TrailingBytes")}
      \/ pieces # <<>> /\ one.command = machine.accumulating /\ Judgement(pieces) = reply
  BY Zenon DEF Judgement
<1>3. ASSUME pieces # <<>>, one.command = machine.accumulating
      PROVE  Framed(reply)
  <2>1. one \in Pieces
    BY <1>3
  <2>2. one.direction \in {"Reply", "Error"}
    BY <2>1 DEF Pieces
  <2>3. reply = [kind |-> "frame", frame |-> FrameFrom(board, n, one.direction)]
    BY <1>3 DEF FrameFrom
  <2> HIDE DEF one
  <2> QED  BY <2>2, <2>3
<1> HIDE DEF reply, one, Refused, Malformed, Framed
<1>4. Judgement(pieces) = [kind |-> "more"] \/ Refused(Judgement(pieces))
      \/ Framed(Judgement(pieces))
  BY <1>1, <1>2, <1>3
<1> QED  BY <1>4, Zenon DEF Refused, Malformed, Framed

(* Of a good reply, as far as it has come, it wants more until it has all.   *)
LEMMA JudgedWell ==
  ASSUME NEW n \in 1 .. 4, machine.accumulating = Stages[n], NEW pieces \in Seq(Pieces),
         NEW rest \in Seq(Pieces), pieces \o rest \in Replies(Request)
  PROVE  \/ Judgement(pieces) = [kind |-> "more"]
         \/ /\ pieces \in Replies(Request)
            /\ Judgement(pieces) = [kind |-> "frame",
                                    frame |-> FrameFrom(board, n, "Reply")]
<1> DEFINE whole == Piece(Request, "Reply", "whole")
           head == Piece(Request, "Reply", "head")
           tail == Piece(Request, "Reply", "tail")
<1>1. /\ whole.part = "whole" /\ whole.command = Stages[n] /\ whole.direction = "Reply"
      /\ head.part = "head" /\ head.command = Stages[n] /\ head.direction = "Reply"
      /\ tail = [head EXCEPT !.part = "tail"]
  BY DEF Piece, Request
<1>2. pieces \o rest = <<whole>> \/ pieces \o rest = <<head, tail>>
  BY DEF Replies
<1>3. Replies(Request) = {<<whole>>, <<head, tail>>}
  BY DEF Replies
<1>4. /\ Len(pieces \o rest) = Len(pieces) + Len(rest)
      /\ \A k \in 1 .. Len(pieces) : pieces[k] = (pieces \o rest)[k]
      /\ Len(pieces) \in Nat /\ Len(rest) \in Nat
  OBVIOUS
<1> HIDE DEF whole, head, tail
<1>5. CASE pieces = <<>>
  BY <1>5 DEF Judgement
<1>6. CASE pieces # <<>> /\ pieces \o rest = <<whole>>
  <2>1. Len(pieces) = 1 /\ pieces[1] = whole
    BY <1>4, <1>6
  <2>2. pieces = <<whole>>
    BY <2>1
  <2>3. Judgement(pieces)
          = [kind |-> "frame",
             frame |-> [command |-> whole.command, direction |-> whole.direction,
                        content |-> board[whole.command]]]
    BY <1>1, <1>6, <2>1 DEF Judgement
  <2> QED  BY <1>1, <1>3, <2>2, <2>3 DEF FrameFrom
<1>7. CASE pieces # <<>> /\ pieces \o rest = <<head, tail>> /\ Len(pieces) = 1
  <2>1. pieces[1] = head
    BY <1>4, <1>7
  <2> QED  BY <1>1, <1>7, <2>1 DEF Judgement
<1>8. CASE pieces # <<>> /\ pieces \o rest = <<head, tail>> /\ Len(pieces) # 1
  <2> DEFINE both == <<head, tail>>
  <2>1. Len(both) = 2 /\ both[1] = head /\ both[2] = tail
    OBVIOUS
  <2>2. pieces \o rest = both
    BY <1>8
  <2>3. Len(pieces) # 0 /\ Len(pieces) # 1
    BY <1>8
  <2> HIDE DEF both
  <2> DEFINE came == Len(pieces)
             due == Len(rest)
  <2>4. Len(both) = came + due
    BY Zenon, <1>4, <2>2
  <2>5. came \in Nat /\ due \in Nat /\ came # 0 /\ came # 1
    BY <1>4, <2>3
  <2> HIDE DEF came, due
  <2>6. came + due = 2
    BY <2>1, <2>4
  <2>7. came = 2
    BY <2>5, <2>6
  <2>8. Len(pieces) = 2
    BY <2>7 DEF came
  <2>9. 1 \in 1 .. Len(pieces) /\ 2 \in 1 .. Len(pieces)
    BY <2>8
  <2>10. pieces[1] = both[1] /\ pieces[2] = both[2]
    BY Zenon, <1>4, <2>2, <2>9
  <2>11. Len(pieces) = 2 /\ pieces[1] = head /\ pieces[2] = tail
    BY <2>1, <2>8, <2>10
  <2>12. pieces = <<head, tail>>
    BY <2>11
  <2>13. Judgement(pieces)
          = [kind |-> "frame",
             frame |-> [command |-> head.command, direction |-> head.direction,
                        content |-> board[head.command]]]
    BY <1>1, <1>8, <2>11 DEF Judgement
  <2> QED  BY <1>1, <1>3, <2>12, <2>13 DEF FrameFrom
<1> QED  BY <1>2, <1>5, <1>6, <1>7, <1>8

LEMMA FrameSent ==
  ASSUME NEW b \in Devices, NEW n \in 1 .. 4, NEW direction \in {"Reply", "Error"}
  PROVE  FrameFrom(b, n, direction) \in FramesOf(Stages[n])
BY BoardSays DEF FrameFrom, FramesOf

(* A chunk: the host reads on, asks the next question, or closes.            *)
LEMMA PushedLeads ==
  ASSUME board \in Devices, NEW n \in 1 .. 4, Reading(machine, board, n),
         machine.trace = <<>>, Busy(host), port \in Ports, buffer' \in Seq(Pieces), Pushed
  PROVE  /\ Leads(port, {"reading", "writing"} \cup Stops)
         /\ host'.pc = "reading" => machine' = machine
         /\ \A rest \in Seq(Pieces) :
              buffer' \o rest \in Replies(Request) =>
                /\ Innocent(host) => Innocent(host')
                /\ host'.pc = "writing" => buffer' \in Replies(Request)
<1> DEFINE j == Judgement(buffer')
           call == AcceptChunk(machine, machine.pendingId, j)
           read == [host EXCEPT !.chunks = @ + 1]
           Well == \E rest \in Seq(Pieces) : buffer' \o rest \in Replies(Request)
           Goal == /\ Leads(port, {"reading", "writing"} \cup Stops)
                   /\ host'.pc = "reading" => machine' = machine
                   /\ Well => /\ Innocent(host) => Innocent(host')
                              /\ host'.pc = "writing" => buffer' \in Replies(Request)
<1>1. Led(Said(board, n), n) /\ IsExchanging(machine, n, Said(board, n))
  BY DEF Reading
<1>2. machine.accumulating = Stages[n] /\ Pending(machine, machine.pendingId, "Exchanging")
  BY <1>1, Places DEF Pending
<1>3. \/ j = [kind |-> "more"]
      \/ \E reason \in FailureReasons : j = [kind |-> "malformed", reason |-> reason]
      \/ \E direction \in {"Reply", "Error"} :
           j = [kind |-> "frame", frame |-> FrameFrom(board, n, direction)]
  BY <1>2, Judged
<1>4. Well => \/ j = [kind |-> "more"]
              \/ /\ buffer' \in Replies(Request)
                 /\ j = [kind |-> "frame", frame |-> FrameFrom(board, n, "Reply")]
  <2> DEFINE pieces == buffer'
  <2> SUFFICES ASSUME NEW rest \in Seq(Pieces), pieces \o rest \in Replies(Request)
               PROVE  \/ j = [kind |-> "more"]
                      \/ /\ pieces \in Replies(Request)
                         /\ j = [kind |-> "frame", frame |-> FrameFrom(board, n, "Reply")]
    OBVIOUS
  <2> QED  BY <1>2, JudgedWell
<1>5. Busy(read) /\ read.origin = host.origin
  BY DEF Busy, Hosts, Holding
<1>6. /\ call.answer.kind # "none" => Follow(call, read, port)
      /\ call.answer.kind = "none" =>
           \/ Await(call.d, read, "reading") /\ port' = port
           \/ FailExchangeOf(call.d, read, port, "Timeout", "SERIAL_TIMEOUT")
  BY DEF Pushed
<1> HIDE DEF read, Well
<1>7. ASSUME j = [kind |-> "more"]
      PROVE  Goal
  <2>1. call.d = machine /\ call.answer.kind = "none"
    BY <1>1, <1>2, <1>7, PartCalled DEF Refuses
  <2> HIDE DEF call
  <2>2. CASE Await(machine, read, "reading") /\ port' = port
    <3>1. /\ machine' = machine /\ shown' = shown
          /\ host' \in Hosts /\ ~host'.refused /\ host'.pc = "reading"
          /\ host'.origin = read.origin /\ Holding(host')
      BY <1>5, <2>2, AwaitLeads DEF Waits, Busy
    <3>2. Placed(machine', host', board)
      BY <3>1 DEF Placed
    <3> QED  BY <1>5, <2>2, <3>1, <3>2 DEF Leads, Innocent
  <2>3. CASE FailExchangeOf(machine, read, port, "Timeout", "SERIAL_TIMEOUT")
    <3>1. Leads(port, Stops) /\ host'.origin = "SERIAL_TIMEOUT"
      BY <1>5, <2>3, FailExchangeLeads DEF TransportFailures, Origins
    <3> QED  BY <3>1 DEF Leads, Innocent, MachineOrigins, Stops
  <2> QED  BY <1>6, <2>1, <2>2, <2>3
<1>8. ASSUME NEW reason \in FailureReasons,
             j = [kind |-> "malformed", reason |-> reason]
      PROVE  Goal
  <2>1. GivesUp(call) /\ Logs(machine.trace, call.d.trace)
    BY <1>1, <1>2, <1>8, MalformedCalled DEF Refuses
  <2> HIDE DEF call
  <2>2. call.answer.kind = "close" /\ Ending(call.d, board)
    BY <2>1, FailureNamesNobody DEF GivesUp, Ending
  <2>3. call.d.trace \in Seq(TraceEvents)
    BY <2>1, NothingTraced DEF Logs
  <2>4. Leads(port, Stops)
    BY <1>5, <1>6, <2>2, <2>3, FollowLeads
  <2>5. ~Well
    BY <1>4, <1>8
  <2> QED  BY <2>4, <2>5 DEF Leads, Stops
<1>9. ASSUME NEW direction \in {"Reply", "Error"},
             j = [kind |-> "frame", frame |-> FrameFrom(board, n, direction)]
      PROVE  Goal
  <2> DEFINE f == FrameFrom(board, n, direction)
             h == Said(board, n)
  <2>1. f \in FramesOf(Stages[n])
    BY FrameSent
  <2>2. Taken(n, h, f, machine, call)
    <3> HIDE DEF f, h
    <3> QED  BY <1>1, <1>2, <1>9, <2>1, FrameCalled DEF f, h
  <2> HIDE DEF call
  <2>3. /\ Logs(machine.trace, call.d.trace)
        /\ direction = "Reply" => Calm(machine.trace, call.d.trace)
        /\ \/ /\ call.answer.kind = "exchange" /\ direction = "Reply"
              /\ \E k \in 1 .. 4 : Reading(call.d, board, k)
           \/ call.answer.kind = "close" /\ Ending(call.d, board)
    BY <1>1, <2>2, TruthTold
  <2>4. /\ call.d.trace \in Seq(TraceEvents)
        /\ direction = "Reply" => call.d.trace \in Seq(QuietEvents)
    BY <2>3, NothingTraced DEF Logs, Calm
  <2>5. Follow(call, read, port)
    BY <1>6, <2>3
  <2>6. /\ Leads(port, {"writing"} \cup Stops)
        /\ call.d.trace \in Seq(QuietEvents) /\ Innocent(read) => Innocent(host')
    BY <1>5, <2>3, <2>4, <2>5, FollowLeads
  <2>7. Well => direction = "Reply" /\ buffer' \in Replies(Request)
    <3>1. FrameFrom(board, n, direction) = FrameFrom(board, n, "Reply") => direction = "Reply"
      BY DEF FrameFrom
    <3> QED  BY <1>4, <1>9, <3>1
  <2> QED  BY <1>5, <2>4, <2>6, <2>7 DEF Leads, Innocent, Stops
<1>10. Goal
  <2> HIDE DEF j, Goal
  <2> QED  BY <1>3, <1>7, <1>8, <1>9 DEF Goal
<1> QED  BY <1>10 DEF Well

-----------------------------------------------------------------------------
(* What every step keeps, and what the user sees of it: nothing, the start   *)
(* of an attempt, or its end.                                               *)

ReadStep ==
  /\ board' = board
  /\ \/ (host.pc = "idle" <=> host'.pc = "idle") /\ shown' = shown
     \/ host.pc = "idle" /\ host'.pc # "idle" /\ shown' = None
     \/ host.pc # "idle" /\ host'.pc = "idle" /\ shown' # None

Kept ==
  /\ SerialInv' /\ ReadStep
  /\ LineInv => LineInv'

(* A step that leaves board and attempt alone.                              *)
LineKept ==
  /\ board' = board /\ attempt' = attempt /\ disturbed' = disturbed
  /\ crossed' \in BOOLEAN /\ (crossed => crossed')
  /\ inbox' \in Seq(Asked) /\ rx' \in Seq(Pieces) /\ buffer' \in Seq(Pieces)
  /\ Tagged => Tagged'

LEMMA SameLineTagged ==
  ASSUME UNCHANGED <<attempt, inbox, rx>>
  PROVE  Tagged => Tagged'
BY DEF Tagged

(* What is left when arrived pieces are dropped. *)
LEMMA Dropped ==
  ASSUME SerialInv, DropArrived, UNCHANGED <<attempt, inbox>>
  PROVE  rx' \in Seq(Pieces) /\ (Tagged => Tagged')
<1>1. PICK n \in 0 .. Len(rx) : rx' = SubSeq(rx, n + 1, Len(rx))
  BY DEF DropArrived
<1>2. rx \in Seq(Pieces)
  BY DEF SerialInv, LineTypeOK
<1>3. rx' \in Seq(Pieces) /\ (Len(rx') = Len(rx) - n)
  BY <1>1, <1>2
<1>4. \A k \in 1 .. Len(rx') : k + n \in 1 .. Len(rx) /\ rx'[k] = rx[k + n]
  BY <1>1, <1>2, <1>3
<1>5. ASSUME Tagged PROVE Tagged'
  BY <1>4, <1>5 DEF Tagged
<1> QED  BY <1>3, <1>5

LEMMA Uninvolved ==
  /\ None \notin MachineOrigins
  /\ \A origin \in CleanupOrigins : origin \notin MachineOrigins
BY ResultAssumption DEF Origins, CleanupOrigins, MachineOrigins

LEMMA LeadsKeep ==
  ASSUME SerialInv, host.pc # "idle", LineKept, NEW p,
         NEW waits \in SUBSET (Waits \ {"idle"}), Leads(p, waits)
  PROVE  SerialInv' /\ ReadStep
<1>1. shown = None
  BY DEF SerialInv, HostInv
<1>2. LineTypeOK'
  BY DEF SerialInv, LineTypeOK, LineKept, Leads
<1>3. Placed(machine', host', board')
  BY DEF Leads, LineKept
<1>4. HostInv'
  BY <1>1, <1>3 DEF HostInv, Leads
<1>5. ReadStep
  BY DEF ReadStep, Leads, LineKept
<1> QED  BY <1>2, <1>4, <1>5 DEF SerialInv

LEMMA LeadsLine ==
  ASSUME SerialInv, LineInv, host.pc # "idle", LineKept, NEW p,
         NEW waits \in SUBSET (Waits \ {"idle"}), Leads(p, waits),
         Faultless' => /\ Innocent(host')
                       /\ host'.pc \in Unasked => Clear'
                       /\ host'.pc = "reading" => ReplyDue'
  PROVE  LineInv'
<1>1. shown' = None
  BY DEF SerialInv, HostInv, Leads
<1>2. Tagged'
  BY DEF LineInv, LineKept
<1> QED  BY <1>1, <1>2 DEF LineInv, Innocent

(* What was right of a faultless attempt is still at hand after such a step. *)
LEMMA StillFaultless ==
  ASSUME LineInv, LineKept, Faultless'
  PROVE  /\ Faultless /\ Innocent(host)
         /\ host.pc \in Unasked => Clear
         /\ host.pc = "reading" => ReplyDue
<1>1. Faultless
  BY DEF Faultless, LineKept
<1> QED  BY <1>1 DEF LineInv, Innocent

LEMMA SameLineClear ==
  ASSUME Clear, UNCHANGED <<attempt, inbox, rx>>
  PROVE  Clear'
BY DEF Clear, Quiescent, Behind

LEMMA TellsKeep ==
  ASSUME SerialInv, host.pc # "idle", LineKept, NEW h, Tells(h), port' \in Ports,
         shown'.outcome \in GivenUpOn \cup {Truth(board)},
         shown'.outcome \notin GivenUpOn => port' = Released
  PROVE  SerialInv' /\ ReadStep
<1>1. LineTypeOK'
  BY DEF SerialInv, LineTypeOK, LineKept
<1>2. host' \in Hosts /\ ~host'.refused /\ host'.pc = "idle"
  BY NewHostType DEF Tells
<1>3. Placed(machine', host', board')
  BY <1>2 DEF Placed
<1>4. ShownRight(shown', port', board')
  BY DEF ShownRight, LineKept, Tells
<1>5. HostInv'
  BY <1>2, <1>3, <1>4 DEF HostInv, Tells
<1>6. ReadStep
  BY <1>2 DEF ReadStep, Tells, LineKept
<1> QED  BY <1>1, <1>5, <1>6 DEF SerialInv

LEMMA TellsLine ==
  ASSUME LineInv, LineKept, NEW h, Tells(h), Faultless' => Innocent(h)
  PROVE  LineInv'
<1>1. host'.pc \notin Unasked \cup {"reading"} /\ host'.origin = None
  BY NewHostType DEF Tells, Unasked
<1>2. Tagged'
  BY DEF LineInv, LineKept
<1>3. Faultless' => shown'.origin \notin MachineOrigins
  BY DEF Tells, Innocent
<1> QED  BY <1>1, <1>2, <1>3, Uninvolved DEF LineInv

-----------------------------------------------------------------------------
(* The steps of an attempt up to its first exchange.                        *)

LEMMA ClickKeeps ==
  ASSUME SerialInv, Click
  PROVE  Kept
<1>1. host' = At(NewHost, "choosing")
  BY DEF Click, At
<1>2. host' \in Hosts /\ ~host'.refused /\ host'.pc = "choosing" /\ host'.origin = None
  BY <1>1, NewHostType, AtMoves DEF Waits
<1>3. /\ board' = board /\ machine' = machine /\ port' = port /\ inbox' = inbox
      /\ rx' = rx /\ buffer' = buffer /\ shown' = None /\ disturbed' = FALSE
      /\ crossed' = FALSE
      /\ attempt' = attempt + 1 /\ host.pc = "idle"
  BY DEF Click
<1>4. LineTypeOK'
  <2>1. attempt' \in Nat
    BY <1>3 DEF SerialInv, LineTypeOK
  <2>2. disturbed' \in BOOLEAN /\ crossed' \in BOOLEAN
    BY <1>3
  <2> QED  BY <1>3, <2>1, <2>2 DEF SerialInv, LineTypeOK
<1>5. HostInv'
  BY <1>2, <1>3 DEF SerialInv, HostInv, Placed
<1>6. ASSUME LineInv PROVE LineInv'
  <2>1. /\ attempt \in Nat /\ rx \in Seq(Pieces) /\ inbox \in Seq(Asked)
        /\ attempt' = attempt + 1 /\ rx' = rx /\ inbox' = inbox
    BY <1>3 DEF SerialInv, LineTypeOK
  <2>2. /\ \A k \in 1 .. Len(rx) : rx[k].attempt \in Nat /\ rx[k].attempt <= attempt
        /\ \A k \in 1 .. Len(inbox) : inbox[k].attempt \in Nat /\ inbox[k].attempt <= attempt
    <3>1. /\ \A k \in 1 .. Len(rx) : rx[k] \in Pieces
          /\ \A k \in 1 .. Len(inbox) : inbox[k] \in Asked
      BY <2>1
    <3>2. /\ \A piece \in Pieces : piece.attempt \in Nat
          /\ \A request \in Asked : request.attempt \in Nat
      BY DEF Pieces, Asked
    <3>3. Tagged
      BY <1>6 DEF LineInv
    <3> QED  BY <3>1, <3>2, <3>3 DEF Tagged
  <2>3. Tagged'
    BY <2>1, <2>2 DEF Tagged
  <2>4. /\ rx # <<>> => rx[1].attempt # attempt + 1
        /\ inbox # <<>> => inbox[1].attempt # attempt + 1
    BY <2>1, <2>2
  <2>5. Clear'
    BY <2>1, <2>4 DEF Clear, Quiescent, Behind
  <2> QED  BY <1>2, <1>3, <2>3, <2>5, Uninvolved DEF LineInv
<1> QED  BY <1>2, <1>3, <1>4, <1>5, <1>6 DEF Kept, SerialInv, ReadStep

(* Nothing was opened: the attempt ends at once. *)
LEMMA EndsUnopened ==
  ASSUME SerialInv, host.pc = "choosing", host' = NewHost,
         shown' \in Results, shown'.outcome \in GivenUpOn,
         shown'.origin \notin MachineOrigins,
         UNCHANGED <<board, attempt, disturbed, crossed, machine, port, inbox, rx, buffer>>
  PROVE  Kept
<1>1. Tells(NewHost)
  <2>1. machine'.trace = <<>>
    BY DEF SerialInv, HostInv
  <2>2. shown' # None
    BY ResultAssumption
  <2> QED  BY <2>1, <2>2 DEF Tells
<1>2. LineKept /\ port' = port /\ port \in Ports
  BY SameLineTagged DEF LineKept, SerialInv, LineTypeOK
<1>3. SerialInv' /\ ReadStep
  BY <1>1, <1>2, TellsKeep
<1>4. Innocent(NewHost)
  BY NewHostType, Uninvolved DEF Innocent
<1>5. LineInv => LineInv'
  BY <1>1, <1>2, <1>4, TellsLine
<1> QED  BY <1>3, <1>5 DEF Kept

LEMMA ChooseFailsKeeps ==
  ASSUME SerialInv, ChooseFails
  PROVE  Kept
<1>1. PICK class \in DOMAIN ChoiceOutcome :
        shown' = Shown(ChoiceOutcome[class], class, "PORT_SELECTION")
  BY DEF ChooseFails
<1>2. DOMAIN ChoiceOutcome = {"Cancelled", "Unavailable", "PermissionDenied"}
  BY DEF ChoiceOutcome
<1>3. class \in FailureClasses /\ ChoiceOutcome[class] \in GivenUpOn
  BY <1>2 DEF ChoiceOutcome, FailureClasses, TransportFailures, GivenUpOn
<1> DEFINE outcome == ChoiceOutcome[class]
<1> HIDE DEF outcome
<1>4. shown' = Shown(outcome, class, "PORT_SELECTION") /\ outcome \in GivenUpOn
  BY <1>1, <1>3 DEF outcome
<1>5. /\ shown' \in Results /\ shown'.outcome = outcome
      /\ shown'.origin \notin MachineOrigins
  BY <1>3, <1>4 DEF Shown, Results, Origins, MachineOrigins, GivenUpOn
<1> QED  BY <1>4, <1>5, EndsUnopened DEF ChooseFails

LEMMA ConstructionFailsKeeps ==
  ASSUME SerialInv, ConstructionFails
  PROVE  Kept
<1>1. shown' = Shown("failed", "Unknown", "DIRECTIVE_REFUSAL")
  BY DEF ConstructionFails
<1>2. /\ shown' \in Results /\ shown'.outcome \in GivenUpOn
      /\ shown'.origin \notin MachineOrigins
  BY <1>1 DEF Shown, Results, Origins, MachineOrigins, GivenUpOn, FailureClasses,
              TransportFailures
<1> QED  BY <1>2, EndsUnopened DEF ConstructionFails

LEMMA NewDiscoveryReady ==
  IsReady(NewDiscovery) /\ NewDiscovery.trace = <<>>
BY DEF IsReady, NewDiscovery, Machine, NewCoordinator, Idle

LEMMA ChooseOkKeeps ==
  ASSUME SerialInv, ChooseOk
  PROVE  Kept
<1> DEFINE d == BeginOpen(NewDiscovery).d
           g == [host EXCEPT !.selected = TRUE]
<1>1. IsOpening(d) /\ d.trace = <<>>
  BY NewDiscoveryReady, Opens
<1>2. g \in Hosts /\ ~g.refused /\ g.selected /\ g.origin = host.origin
  BY DEF SerialInv, HostInv, Hosts
<1>3. Await(d, g, "opening")
  BY DEF ChooseOk
<1>4. /\ board' = board /\ attempt' = attempt /\ disturbed' = disturbed
      /\ crossed' = crossed /\ port' = port
      /\ inbox' = inbox /\ rx' = rx /\ buffer' = buffer /\ host.pc = "choosing"
  BY DEF ChooseOk
<1> HIDE DEF d, g
<1>5. /\ machine' = d /\ shown' = shown
      /\ host' \in Hosts /\ ~host'.refused /\ host'.pc = "opening"
      /\ host'.origin = host.origin /\ host'.selected
  BY <1>2, <1>3, AwaitLeads DEF Waits
<1>6. LineKept
  BY <1>4, SameLineTagged DEF LineKept, SerialInv, LineTypeOK
<1>7. Leads(port, {"opening"})
  <2>1. Placed(machine', host', board)
    BY <1>1, <1>5 DEF Placed
  <2> QED  BY <1>1, <1>4, <1>5, <2>1 DEF Leads, SerialInv, LineTypeOK
<1>8. {"opening"} \in SUBSET (Waits \ {"idle"})
  BY DEF Waits
<1>9. SerialInv' /\ ReadStep
  BY <1>4, <1>6, <1>7, <1>8, LeadsKeep
<1>10. ASSUME LineInv PROVE LineInv'
  <2>1. ASSUME Faultless' PROVE Innocent(host') /\ Clear'
    <3>1. Innocent(host) /\ Clear
      BY <1>4, <1>6, <1>10, <2>1, StillFaultless DEF Unasked
    <3> QED  BY <1>4, <1>5, <3>1, SameLineClear DEF Innocent
  <2> QED  BY <1>4, <1>5, <1>6, <1>7, <1>8, <1>10, <2>1, LeadsLine
<1> QED  BY <1>9, <1>10 DEF Kept

LEMMA FirstAsked ==
  ASSUME NEW b
  PROVE  Said(b, 1) = <<>> /\ Led(Said(b, 1), 1)
<1>1. Said(b, 1) = <<>>
  BY DEF Said
<1>2. Led(<<>>, 1)
  BY DEF Led
<1> QED  BY <1>1, <1>2

LEMMA OpenOkKeeps ==
  ASSUME SerialInv, OpenOk
  PROVE  Kept
<1> DEFINE call == AcceptOpenOk(machine, machine.pendingId)
           g == [host EXCEPT !.opened = TRUE]
           p == [port EXCEPT !.open = TRUE]
<1>1. IsOpening(machine) /\ host.selected /\ host.pc = "opening"
  BY DEF SerialInv, HostInv, Placed, OpenOk
<1>2. Asking(1, <<>>, call) /\ Calm(machine.trace, call.d.trace)
  <2>1. Pending(machine, machine.pendingId, "Opening")
    BY <1>1, Places DEF Pending
  <2> QED  BY <1>1, <2>1, OpenOkCalled
<1>3. Follow(call, g, p)
  BY DEF OpenOk
<1>4. /\ board' = board /\ attempt' = attempt /\ disturbed' = disturbed
      /\ crossed' = crossed /\ inbox' = inbox /\ rx' = rx /\ buffer' = buffer
  BY DEF OpenOk
<1>5. Busy(g) /\ g.origin = host.origin
  BY <1>1 DEF SerialInv, HostInv, Busy, Hosts, Holding
<1>6. p \in Ports
  BY DEF SerialInv, LineTypeOK, Ports
<1> HIDE DEF call, g, p
<1>7. call.d.trace \in Seq(TraceEvents) /\ call.d.trace \in Seq(QuietEvents)
  BY <1>2, NothingTraced DEF SerialInv, HostInv, Calm, Logs
<1>8. call.answer.kind = "exchange" /\ \E n \in 1 .. 4 : Reading(call.d, board, n)
  BY <1>2, FirstAsked DEF Asking, Reading
<1>9. Leads(p, {"writing"} \cup Stops) /\ (Innocent(g) => Innocent(host'))
  BY <1>3, <1>5, <1>6, <1>7, <1>8, FollowLeads
<1>10. LineKept
  BY <1>4, SameLineTagged DEF LineKept, SerialInv, LineTypeOK
<1>11. {"writing"} \cup Stops \in SUBSET (Waits \ {"idle"})
  BY DEF Waits, Stops
<1>12. SerialInv' /\ ReadStep
  BY <1>1, <1>9, <1>10, <1>11, LeadsKeep
<1>13. ASSUME LineInv PROVE LineInv'
  <2>1. ASSUME Faultless' PROVE Innocent(host') /\ Clear'
    <3>1. Innocent(host) /\ Clear
      BY <1>1, <1>10, <1>13, <2>1, StillFaultless DEF Unasked
    <3>2. Innocent(host')
      BY <1>5, <1>9, <3>1 DEF Innocent
    <3> QED  BY <1>4, <3>1, <3>2, SameLineClear
  <2>2. host'.pc # "reading"
    BY <1>9 DEF Leads, Stops
  <2> QED  BY <1>1, <1>9, <1>10, <1>11, <1>13, <2>1, <2>2, LeadsLine
<1> QED  BY <1>12, <1>13 DEF Kept

LEMMA OpenFailsKeeps ==
  ASSUME SerialInv, OpenFails
  PROVE  Kept
<1> DEFINE label == IF port.open THEN "PortBusy" ELSE "Unknown"
           call == AcceptOpenErr(machine, machine.pendingId, label)
           g == [host EXCEPT !.origin = "PORT_OPEN",
                             !.refused = call.answer.kind = "refused"]
<1>1. IsOpening(machine) /\ host.pc = "opening" /\ host \in Hosts /\ ~host.refused
  BY DEF SerialInv, HostInv, Placed, OpenFails
<1>2. EndsFailed(machine, call)
  <2>1. Pending(machine, machine.pendingId, "Opening")
    BY <1>1, Places DEF Pending
  <2>2. label \in TransportFailures
    BY DEF TransportFailures
  <2> HIDE DEF label
  <2> QED  BY <1>1, <2>1, <2>2, OpenErrCalled
<1>3. Finish(call.d, g)
  BY DEF OpenFails
<1>4. /\ board' = board /\ attempt' = attempt /\ disturbed' = disturbed
      /\ crossed' = crossed /\ port' = port
      /\ inbox' = inbox /\ rx' = rx /\ buffer' = buffer
  BY DEF OpenFails
<1> HIDE DEF call
<1>5. g \in Hosts /\ ~g.refused /\ g.origin = "PORT_OPEN"
  <2>1. (call.answer.kind = "refused") = FALSE
    BY <1>2 DEF EndsFailed, Rests
  <2>2. g = From(host, "PORT_OPEN")
    BY <2>1 DEF From
  <2>3. "PORT_OPEN" \in Origins
    BY DEF Origins
  <2> HIDE DEF g
  <2> QED  BY <1>1, <2>2, <2>3, FromMoves
<1> HIDE DEF g
<1>6. Tells(g) /\ shown'.outcome = "failed"
  <2> DEFINE d == call.d
  <2>1. IsComplete(d) /\ d.outcome \in Outcomes /\ d.outcome.kind = "failed" /\ Finish(d, g)
    BY <1>2, <1>3, FailureNamesNobody DEF EndsFailed, Rests
  <2> HIDE DEF d
  <2> QED  BY <1>5, <2>1, FinishLeads
<1>7. LineKept /\ port' \in Ports
  BY <1>4, SameLineTagged DEF LineKept, SerialInv, LineTypeOK
<1>8. SerialInv' /\ ReadStep
  BY <1>1, <1>6, <1>7, TellsKeep DEF GivenUpOn
<1>9. Innocent(g)
  BY <1>5 DEF Innocent, MachineOrigins
<1>10. LineInv => LineInv'
  BY <1>6, <1>7, <1>9, TellsLine
<1> QED  BY <1>8, <1>10 DEF Kept

-----------------------------------------------------------------------------
(* The steps of an exchange.                                                *)

LEMMA InExchange ==
  ASSUME SerialInv, host.pc \in {"writing", "reading", "cancelling"}
  PROVE  /\ \E n \in 1 .. 4 : Reading(machine, board, n)
         /\ Busy(host) /\ machine.trace = <<>> /\ port \in Ports /\ board \in Devices
         /\ Request \in Asked
<1>1. PICK n \in 1 .. 4 : Reading(machine, board, n)
  BY DEF SerialInv, HostInv, Placed
<1>2. Busy(host)
  BY DEF SerialInv, HostInv, Placed, Busy
<1>3. machine.accumulating = Stages[n]
  BY <1>1, Places DEF Reading
<1>4. Request \in Asked
  BY <1>3, StageNames DEF Request, Asked, SerialInv, LineTypeOK
<1> QED  BY <1>1, <1>2, <1>4 DEF SerialInv, HostInv, LineTypeOK

LEMMA FailKeeps ==
  ASSUME SerialInv, host.pc \in {"writing", "reading", "cancelling"},
         NEW h, Busy(h), NEW class \in TransportFailures,
         NEW origin \in Origins, origin \notin MachineOrigins,
         FailExchangeOf(machine, h, port, class, origin), LineKept
  PROVE  Kept
<1>1. PICK n \in 1 .. 4 : Reading(machine, board, n)
  BY InExchange
<1>2. machine.trace = <<>> /\ port \in Ports
  BY InExchange
<1>3. Leads(port, Stops) /\ host'.origin = origin
  BY <1>1, <1>2, FailExchangeLeads
<1>4. Stops \in SUBSET (Waits \ {"idle"}) /\ host.pc # "idle"
  BY DEF Waits, Stops
<1>5. SerialInv' /\ ReadStep
  BY <1>3, <1>4, LeadsKeep
<1>6. ASSUME LineInv PROVE LineInv'
  <2>1. host'.pc \notin Unasked /\ host'.pc # "reading" /\ Innocent(host')
    BY <1>3 DEF Leads, Stops, Innocent, Unasked
  <2> QED  BY <1>3, <1>4, <1>6, <2>1, LeadsLine
<1> QED  BY <1>5, <1>6 DEF Kept

LEMMA NothingOnTheWay ==
  <<>> \in Seq(Pieces) /\ <<>> \in Seq(Asked)
OBVIOUS

LEMMA AskedTagged ==
  ASSUME SerialInv, Request \in Asked, inbox' = Append(inbox, Request),
         UNCHANGED <<attempt, rx>>
  PROVE  inbox' \in Seq(Asked) /\ (Tagged => Tagged')
<1>1. inbox \in Seq(Asked) /\ attempt \in Nat
  BY DEF SerialInv, LineTypeOK
<1>2. Request.attempt <= attempt
  BY <1>1 DEF Request
<1>3. /\ inbox' \in Seq(Asked) /\ Len(inbox') = Len(inbox) + 1
      /\ \A k \in 1 .. Len(inbox') :
           IF k = Len(inbox) + 1 THEN inbox'[k] = Request
           ELSE k \in 1 .. Len(inbox) /\ inbox'[k] = inbox[k]
  BY <1>1
<1>4. ASSUME Tagged PROVE Tagged'
  <2>1. \A k \in 1 .. Len(rx') : rx'[k].attempt <= attempt'
    BY <1>4 DEF Tagged
  <2>2. \A k \in 1 .. Len(inbox') : inbox'[k].attempt <= attempt'
    BY <1>2, <1>3, <1>4 DEF Tagged
  <2> QED  BY <2>1, <2>2 DEF Tagged
<1> QED  BY <1>3, <1>4

LEMMA WriteOkKeeps ==
  ASSUME SerialInv, WriteOk
  PROVE  Kept
<1>1. host.pc = "writing" /\ Await(machine, host, "reading")
  BY DEF WriteOk
<1>2. /\ board' = board /\ attempt' = attempt /\ disturbed' = disturbed
      /\ crossed' = crossed /\ port' = port
      /\ inbox' = Append(inbox, Request) /\ rx' = rx /\ buffer' = <<>>
  BY DEF WriteOk
<1>3. PICK n \in 1 .. 4 : Reading(machine, board, n)
  BY <1>1, InExchange
<1>4. Busy(host) /\ machine.trace = <<>> /\ Request \in Asked /\ port \in Ports
  BY <1>1, InExchange
<1>5. /\ machine' = machine /\ shown' = shown
      /\ host' \in Hosts /\ ~host'.refused /\ host'.pc = "reading"
      /\ host'.origin = host.origin /\ Holding(host')
  BY <1>1, <1>4, AwaitLeads DEF Waits, Busy
<1>6. LineKept
  BY <1>2, <1>4, AskedTagged, NothingOnTheWay DEF LineKept, SerialInv, LineTypeOK
<1>7. Leads(port, {"reading"})
  <2>1. Placed(machine', host', board)
    BY <1>3, <1>5 DEF Placed
  <2> QED  BY <1>2, <1>4, <1>5, <2>1 DEF Leads
<1>8. {"reading"} \in SUBSET (Waits \ {"idle"})
  BY DEF Waits
<1>9. SerialInv' /\ ReadStep
  BY <1>1, <1>6, <1>7, <1>8, LeadsKeep
<1>10. ASSUME LineInv PROVE LineInv'
  <2>1. ASSUME Faultless' PROVE Innocent(host') /\ ReplyDue'
    <3>1. Innocent(host) /\ Clear
      BY <1>1, <1>6, <1>10, <2>1, StillFaultless DEF Unasked
    <3>2. Request' = Request
      BY <1>2, <1>5 DEF Request
    <3>3. Quiescent => InHand'
      <4>1. Quiescent => inbox' = <<Request>> /\ rx' = <<>> /\ buffer' = <<>>
        BY <1>2 DEF Quiescent
      <4> QED  BY <3>2, <4>1 DEF InHand
    <3>4. Behind => Behind'
      <4>1. inbox # <<>> => inbox' # <<>> /\ inbox'[1] = inbox[1]
        BY <1>2, <1>4 DEF SerialInv, LineTypeOK
      <4> QED  BY <1>2, <4>1 DEF Behind
    <3>5. ReplyDue'
      BY <1>2, <3>1, <3>3, <3>4 DEF Clear, ReplyDue
    <3> QED  BY <1>5, <3>1, <3>5 DEF Innocent
  <2>2. host'.pc \notin Unasked
    BY <1>5 DEF Unasked
  <2> QED  BY <1>1, <1>6, <1>7, <1>8, <1>10, <2>1, <2>2, LeadsLine
<1> QED  BY <1>9, <1>10 DEF Kept

LEMMA WriteFailsKeeps ==
  ASSUME SerialInv, WriteFails
  PROVE  Kept
<1>1. host.pc = "writing" /\ FailExchangeOf(machine, host, port, "Disconnected", "SERIAL_WRITE")
  BY DEF WriteFails
<1>2. /\ board' = board /\ attempt' = attempt /\ disturbed' = disturbed /\ crossed' = crossed
      /\ inbox' \in {inbox, Append(inbox, Request)} /\ rx' = rx /\ buffer' = buffer
  BY DEF WriteFails
<1>3. Busy(host) /\ Request \in Asked
  BY <1>1, InExchange
<1>4. LineKept
  <2>1. inbox' \in Seq(Asked) /\ (Tagged => Tagged')
    <3>1. CASE inbox' = inbox
      BY <1>2, <3>1, SameLineTagged DEF SerialInv, LineTypeOK
    <3>2. CASE inbox' = Append(inbox, Request)
      BY <1>2, <1>3, <3>2, AskedTagged
    <3> QED  BY <1>2, <3>1, <3>2
  <2> QED  BY <1>2, <2>1 DEF LineKept, SerialInv, LineTypeOK
<1>5. /\ "Disconnected" \in TransportFailures /\ "SERIAL_WRITE" \in Origins
      /\ "SERIAL_WRITE" \notin MachineOrigins
  BY DEF TransportFailures, Origins, MachineOrigins
<1> QED  BY <1>1, <1>3, <1>4, <1>5, FailKeeps

LEMMA ReadFailsKeeps ==
  ASSUME SerialInv, ReadFails
  PROVE  Kept
<1>1. host.pc = "reading" /\ FailExchangeOf(machine, host, port, "Disconnected", "SERIAL_READ")
  BY DEF ReadFails
<1>2. LineKept
  BY SameLineTagged DEF ReadFails, LineKept, SerialInv, LineTypeOK
<1>3. Busy(host)
  BY <1>1, InExchange
<1>4. /\ "Disconnected" \in TransportFailures /\ "SERIAL_READ" \in Origins
      /\ "SERIAL_READ" \notin MachineOrigins
  BY DEF TransportFailures, Origins, MachineOrigins
<1> QED  BY <1>1, <1>2, <1>3, <1>4, FailKeeps

LEMMA CancelSettlesKeeps ==
  ASSUME SerialInv, CancelSettles
  PROVE  Kept
<1>1. PICK ok \in BOOLEAN :
        /\ FailExchangeOf(machine, [host EXCEPT !.cancelled = ok], port,
                          "Timeout", "SERIAL_TIMEOUT")
        /\ IF ok THEN DropArrived ELSE UNCHANGED rx
  BY DEF CancelSettles
<1> DEFINE h == [host EXCEPT !.cancelled = ok]
<1>2. host.pc = "cancelling"
  BY DEF CancelSettles
<1>3. LineKept
  <2>1. /\ board' = board /\ attempt' = attempt /\ disturbed' = disturbed
        /\ crossed' = crossed /\ inbox' = inbox /\ buffer' = buffer
    BY DEF CancelSettles
  <2>2. rx' \in Seq(Pieces) /\ (Tagged => Tagged')
    <3>1. CASE DropArrived
      BY <2>1, <3>1, Dropped
    <3>2. CASE rx' = rx
      BY <2>1, <3>2, SameLineTagged DEF SerialInv, LineTypeOK
    <3> QED  BY <1>1, <3>1, <3>2
  <2> QED  BY <2>1, <2>2 DEF LineKept, SerialInv, LineTypeOK
<1>4. Busy(h)
  <2>1. Busy(host)
    BY <1>2, InExchange
  <2> QED  BY <2>1 DEF Busy, Hosts, Holding
<1> HIDE DEF h
<1>5. /\ "Timeout" \in TransportFailures /\ "SERIAL_TIMEOUT" \in Origins
      /\ "SERIAL_TIMEOUT" \notin MachineOrigins
  BY DEF TransportFailures, Origins, MachineOrigins
<1>6. FailExchangeOf(machine, h, port, "Timeout", "SERIAL_TIMEOUT")
  BY <1>1 DEF h
<1> QED  BY <1>2, <1>3, <1>4, <1>5, <1>6, FailKeeps

LEMMA ReadTimesOutKeeps ==
  ASSUME SerialInv, ReadTimesOut
  PROVE  Kept
<1>1. host.pc = "reading" /\ Await(machine, host, "cancelling")
  BY DEF ReadTimesOut
<1>2. LineKept /\ port' = port
  BY SameLineTagged DEF ReadTimesOut, LineKept, SerialInv, LineTypeOK
<1>3. PICK n \in 1 .. 4 : Reading(machine, board, n)
  BY <1>1, InExchange
<1>4. Busy(host) /\ machine.trace = <<>> /\ port \in Ports
  BY <1>1, InExchange
<1>5. /\ machine' = machine /\ shown' = shown
      /\ host' \in Hosts /\ ~host'.refused /\ host'.pc = "cancelling"
      /\ host'.origin = host.origin /\ Holding(host')
  BY <1>1, <1>4, AwaitLeads DEF Waits, Busy
<1>6. Leads(port, {"cancelling"})
  <2>1. Placed(machine', host', board)
    BY <1>3, <1>5 DEF Placed
  <2> QED  BY <1>2, <1>4, <1>5, <2>1 DEF Leads
<1>7. {"cancelling"} \in SUBSET (Waits \ {"idle"})
  BY DEF Waits
<1>8. SerialInv' /\ ReadStep
  BY <1>1, <1>2, <1>6, <1>7, LeadsKeep
<1>9. ASSUME LineInv PROVE LineInv'
  <2>1. Faultless' => Innocent(host')
    BY <1>2, <1>5, <1>9, StillFaultless DEF Innocent
  <2>2. host'.pc \notin Unasked /\ host'.pc # "reading"
    BY <1>5 DEF Unasked
  <2> QED  BY <1>1, <1>2, <1>6, <1>7, <1>9, <2>1, <2>2, LeadsLine
<1> QED  BY <1>8, <1>9 DEF Kept

LEMMA ReplyLengths ==
  ASSUME NEW pieces \in Replies(Request), NEW rest \in Seq(Pieces),
         pieces \in Seq(Pieces), pieces \o rest \in Replies(Request)
  PROVE  rest = <<>> /\ pieces # <<>>
<1> DEFINE whole == Piece(Request, "Reply", "whole")
           head == Piece(Request, "Reply", "head")
           tail == Piece(Request, "Reply", "tail")
           all == pieces \o rest
<1>1. whole # head
  BY DEF Piece
<1>2. /\ pieces \in {<<whole>>, <<head, tail>>}
      /\ all \in {<<whole>>, <<head, tail>>}
  BY DEF Replies
<1> HIDE DEF whole, head, tail
<1>3. pieces # <<>> /\ Len(pieces) \in {1, 2} /\ Len(all) \in {1, 2}
  <2>1. /\ Len(<<whole>>) = 1 /\ <<whole>> # <<>>
        /\ Len(<<head, tail>>) = 2 /\ <<head, tail>> # <<>>
    OBVIOUS
  <2> DEFINE good == {<<whole>>, <<head, tail>>}
  <2>2. \A s \in good : s # <<>> /\ Len(s) \in {1, 2}
    BY <2>1
  <2>3. pieces \in good /\ all \in good
    BY <1>2
  <2> HIDE DEF good, all
  <2> QED  BY <2>2, <2>3
<1>4. Len(all) = Len(pieces) + Len(rest) /\ all[1] = pieces[1] /\ Len(rest) \in Nat
  <2>1. /\ Len(all) = Len(pieces) + Len(rest) /\ Len(rest) \in Nat
        /\ \A k \in 1 .. Len(pieces) : all[k] = pieces[k]
    OBVIOUS
  <2>2. 1 \in 1 .. Len(pieces)
    BY <1>3
  <2> QED  BY Zenon, <2>1, <2>2
<1>5. Len(pieces) = Len(all)
  <2>1. CASE pieces = <<whole>>
    <3>1. all # <<head, tail>>
      <4>1. pieces[1] = whole
        BY <2>1
      <4>2. all[1] = whole
        BY <1>4, <4>1
      <4> HIDE DEF all
      <4> QED  BY <1>1, <4>2
    <3> QED  BY <1>2, <2>1, <3>1
  <2>2. CASE pieces = <<head, tail>>
    <3>1. all # <<whole>>
      <4>1. pieces[1] = head
        BY <2>2
      <4>2. all[1] = head
        BY <1>4, <4>1
      <4> HIDE DEF all
      <4> QED  BY <1>1, <4>2
    <3> QED  BY <1>2, <2>2, <3>1
  <2> QED  BY <1>2, <2>1, <2>2
<1>6. Len(rest) = 0
  <2> HIDE DEF all
  <2> QED  BY <1>3, <1>4, <1>5
<1> QED  BY <1>3, <1>6

(* A read that settles, with or without something new. *)
LEMMA ReadKeeps ==
  ASSUME SerialInv, host.pc = "reading", Pushed, LineKept, inbox' = inbox,
         \/ /\ rx # <<>> /\ buffer' \o rx' = buffer \o rx
            /\ rx[1].attempt # attempt => crossed'
         \/ /\ buffer' = buffer /\ rx' = rx
  PROVE  Kept
<1>1. PICK n \in 1 .. 4 : Reading(machine, board, n)
  BY InExchange
<1>2. /\ Busy(host) /\ machine.trace = <<>> /\ Request \in Asked /\ port \in Ports
      /\ board \in Devices
  BY InExchange
<1>3. /\ buffer' \in Seq(Pieces) /\ rx' \in Seq(Pieces)
  BY DEF LineKept
<1> DEFINE waits == {"reading", "writing"} \cup Stops
<1>4. /\ Leads(port, waits)
      /\ host'.pc = "reading" => machine' = machine
      /\ \A rest \in Seq(Pieces) :
           buffer' \o rest \in Replies(Request) =>
             /\ Innocent(host) => Innocent(host')
             /\ host'.pc = "writing" => buffer' \in Replies(Request)
  BY <1>1, <1>2, <1>3, PushedLeads
<1>5. waits \in SUBSET (Waits \ {"idle"})
  BY DEF Waits, Stops
<1> HIDE DEF waits
<1>6. SerialInv' /\ ReadStep
  BY <1>4, <1>5, LeadsKeep
<1>7. ASSUME LineInv PROVE LineInv'
  <2>1. ASSUME Faultless'
        PROVE  /\ Innocent(host')
               /\ host'.pc = "writing" => Quiescent'
               /\ host'.pc = "reading" => ReplyDue'
    <3>1. ReplyDue /\ Innocent(host)
      BY <1>7, <2>1, StillFaultless
    <3>2. attempt' = attempt /\ (host'.pc = "reading" => Request' = Request)
      BY <1>4 DEF Request, LineKept
    <3>3. CASE buffer' = <<>> /\ rx' = rx /\ buffer = <<>>
      <4> DEFINE whole == <<Piece(Request, "Reply", "whole")>>
      <4>1. whole \in Seq(Pieces) /\ whole \in Replies(Request)
        BY <1>2 DEF Replies, Piece, Pieces, Asked
      <4>2. buffer' \o whole = whole
        BY <3>3
      <4>3. Innocent(host') /\ (host'.pc = "writing" => buffer' \in Replies(Request))
        BY <1>4, <3>1, <4>1, <4>2
      <4>4. buffer' \notin Replies(Request)
        BY <3>3 DEF Replies
      <4>5. ASSUME host'.pc = "reading" PROVE ReplyDue'
        <5>1. Request' = Request /\ attempt' = attempt /\ inbox' = inbox /\ rx' = rx
              /\ buffer' = buffer
          BY <3>2, <3>3, <4>5
        <5>2. Behind => Behind'
          BY <5>1 DEF Behind
        <5>3. InHand => InHand'
          BY <5>1 DEF InHand, Replies, Piece
        <5> QED  BY <3>1, <3>3, <5>2, <5>3 DEF ReplyDue
      <4> QED  BY <4>3, <4>4, <4>5
    <3>4. CASE inbox = <<>> /\ buffer \o rx \in Replies(Request)
      <4>1. buffer' \o rx' \in Replies(Request)
        BY <3>4
      <4>2. Innocent(host') /\ (host'.pc = "writing" => buffer' \in Replies(Request))
        BY <1>3, <1>4, <3>1, <4>1
      <4>3. host'.pc = "writing" => rx' = <<>>
        BY <1>3, <4>1, <4>2, ReplyLengths
      <4>4. host'.pc = "writing" => Quiescent'
        BY <3>4, <4>3 DEF Quiescent
      <4>5. host'.pc = "reading" => InHand'
        BY <3>2, <3>4, <4>1 DEF InHand
      <4> QED  BY <4>2, <4>4, <4>5 DEF ReplyDue
    <3>5. CASE inbox = <<Request>> /\ rx = <<>> /\ buffer = <<>>
      <4>1. buffer' = <<>> /\ rx' = rx
        BY <3>5
      <4> QED  BY <3>3, <3>5, <4>1
    <3>6. CASE buffer = <<>> /\ Behind
      <4>1. ~crossed'
        BY <2>1 DEF Faultless
      <4>2. rx # <<>> => rx[1].attempt # attempt
        BY <3>6 DEF Behind
      <4>3. buffer' = buffer /\ rx' = rx
        BY <4>1, <4>2
      <4> QED  BY <3>3, <3>6, <4>3
    <3>7. \/ inbox = <<>> /\ buffer \o rx \in Replies(Request)
          \/ inbox = <<Request>> /\ rx = <<>> /\ buffer = <<>>
          \/ buffer = <<>> /\ Behind
      BY Zenon, <3>1 DEF ReplyDue, InHand
    <3> QED  BY Zenon, <3>4, <3>5, <3>6, <3>7
  <2>2. host'.pc \in Unasked => host'.pc = "writing"
    BY <1>4 DEF Leads, Stops, Unasked, waits
  <2> QED  BY <1>4, <1>5, <1>7, <2>1, <2>2, LeadsLine DEF Clear
<1> QED  BY <1>6, <1>7 DEF Kept

LEMMA Cut ==
  ASSUME NEW s \in Seq(Pieces), NEW t \in Seq(Pieces), NEW k \in 1 .. Len(t)
  PROVE  /\ s \o SubSeq(t, 1, k) \in Seq(Pieces) /\ SubSeq(t, k + 1, Len(t)) \in Seq(Pieces)
         /\ (s \o SubSeq(t, 1, k)) \o SubSeq(t, k + 1, Len(t)) = s \o t
         /\ t # <<>>
<1> DEFINE u == SubSeq(t, 1, k)
           v == SubSeq(t, k + 1, Len(t))
<1>1. u \in Seq(Pieces) /\ v \in Seq(Pieces)
  OBVIOUS
<1>2. u \o v = t
  <2>1. /\ 1 \in 1 .. Len(t) + 1 /\ k \in 1 - 1 .. Len(t) /\ Len(t) \in k .. Len(t)
    OBVIOUS
  <2>2. SubSeq(t, 1, k) \o SubSeq(t, k + 1, Len(t)) = SubSeq(t, 1, Len(t))
    BY <2>1, ConcatAdjacentSubSeq, SMTT(30)
  <2> QED  BY <2>2, SubSeqFull
<1>3. t # <<>>
  OBVIOUS
<1> HIDE DEF u, v
<1>4. (s \o u) \o v = s \o (u \o v)
  BY <1>1, ConcatAssociative, SMTT(40)
<1>5. (s \o u) \o v = s \o t /\ s \o u \in Seq(Pieces) /\ v \in Seq(Pieces)
  BY <1>1, <1>2, <1>4
<1> QED  BY Zenon, <1>3, <1>5 DEF u, v

LEMMA ReadChunkKeeps ==
  ASSUME SerialInv, ReadChunk
  PROVE  Kept
<1>1. PICK k \in 1 .. Len(rx) :
        /\ buffer' = buffer \o SubSeq(rx, 1, k)
        /\ rx' = SubSeq(rx, k + 1, Len(rx))
        /\ crossed' = (crossed \/ \E m \in 1 .. k : rx[m].attempt # attempt)
  BY DEF ReadChunk
<1>2. buffer \in Seq(Pieces) /\ rx \in Seq(Pieces)
  BY DEF SerialInv, LineTypeOK
<1>3. /\ rx # <<>> /\ buffer' \o rx' = buffer \o rx
      /\ buffer' \in Seq(Pieces) /\ rx' \in Seq(Pieces)
  BY <1>1, <1>2, Cut
<1>4. UNCHANGED <<board, attempt, disturbed, inbox>>
  BY DEF ReadChunk
<1>5. rx[1].attempt # attempt => crossed'
  <2>1. 1 \in 1 .. k
    BY <1>2
  <2> QED  BY Zenon, <1>1, <2>1
<1>6. Tagged => Tagged'
  <2>1. DropArrived
    BY <1>1, <1>2 DEF DropArrived
  <2> QED  BY <1>4, <2>1, Dropped
<1>7. crossed' \in BOOLEAN /\ (crossed => crossed')
  BY <1>1
<1>8. LineKept
  BY <1>3, <1>4, <1>6, <1>7 DEF LineKept, SerialInv, LineTypeOK
<1> QED  BY <1>3, <1>5, <1>8, ReadKeeps DEF ReadChunk

LEMMA ReadEmptyKeeps ==
  ASSUME SerialInv, ReadEmpty
  PROVE  Kept
<1>1. LineKept
  BY SameLineTagged DEF ReadEmpty, LineKept, SerialInv, LineTypeOK
<1> QED  BY <1>1, ReadKeeps DEF ReadEmpty

-----------------------------------------------------------------------------
(* The cleanup, and the board.                                              *)

LEMMA InCleanup ==
  ASSUME SerialInv, host.pc \in Stops
  PROVE  /\ Busy(host) /\ Ending(machine, board) /\ machine.trace = <<>>
         /\ port \in Ports /\ host.pc # "idle"
BY DEF SerialInv, HostInv, Placed, Busy, Stops, LineTypeOK

LEMMA CleanupCancelSettlesKeeps ==
  ASSUME SerialInv, CleanupCancelSettles
  PROVE  Kept
<1>1. host.pc \in Stops
  BY DEF CleanupCancelSettles, Stops
<1>2. /\ Busy(host) /\ Ending(machine, board) /\ machine.trace = <<>> /\ port \in Ports
      /\ host.pc # "idle"
  BY <1>1, InCleanup
<1>3. LineKept
  <2>1. UNCHANGED <<board, attempt, disturbed, crossed, inbox, buffer>>
    BY DEF CleanupCancelSettles
  <2>2. rx' \in Seq(Pieces) /\ (Tagged => Tagged')
    <3>1. CASE DropArrived
      BY <2>1, <3>1, Dropped
    <3>2. CASE rx' = rx
      BY <2>1, <3>2, SameLineTagged DEF SerialInv, LineTypeOK
    <3> QED  BY <3>1, <3>2 DEF CleanupCancelSettles
  <2> QED  BY <2>1, <2>2 DEF LineKept, SerialInv, LineTypeOK
<1>4. Leads(port, Stops) /\ host'.origin = host.origin
  <2>1. CASE Release(machine, [host EXCEPT !.cancelled = TRUE], port)
    <3> DEFINE h == [host EXCEPT !.cancelled = TRUE]
    <3>1. Busy(h) /\ h.origin = host.origin
      BY <1>2 DEF Busy, Hosts, Holding
    <3>2. Release(machine, h, port)
      BY <2>1
    <3> HIDE DEF h
    <3> QED  BY <1>2, <3>1, <3>2, ReleaseLeads
  <2>2. CASE Release(machine, Remembered(host, "READER_CANCEL"), port)
    <3> DEFINE h == Remembered(host, "READER_CANCEL")
    <3>1. Busy(h) /\ h.origin = host.origin
      BY <1>2, RememberedMoves DEF CleanupOrigins
    <3> HIDE DEF h
    <3> QED  BY <1>2, <2>2, <3>1, ReleaseLeads DEF h
  <2> QED  BY <2>1, <2>2 DEF CleanupCancelSettles
<1>5. Stops \in SUBSET (Waits \ {"idle"})
  BY DEF Waits, Stops
<1>6. SerialInv' /\ ReadStep
  BY <1>2, <1>3, <1>4, <1>5, LeadsKeep
<1>7. ASSUME LineInv PROVE LineInv'
  <2>1. host'.pc \notin Unasked /\ host'.pc # "reading"
    BY <1>4 DEF Leads, Stops, Unasked
  <2>2. Faultless' => Innocent(host')
    BY <1>3, <1>4, <1>7, StillFaultless DEF Innocent
  <2> QED  BY <1>2, <1>3, <1>4, <1>5, <1>7, <2>1, <2>2, LeadsLine
<1> QED  BY <1>6, <1>7 DEF Kept

LEMMA CloseOkKeeps ==
  ASSUME SerialInv, CloseOk
  PROVE  Kept
<1>1. host.pc \in Stops
  BY DEF CloseOk, Stops
<1>2. Busy(host) /\ Ending(machine, board) /\ port \in Ports /\ host.pc # "idle"
  BY <1>1, InCleanup
<1>3. LineKept
  <2>1. DropArrived /\ UNCHANGED <<board, attempt, disturbed, crossed, inbox, buffer>>
    BY DEF CloseOk
  <2>2. rx' \in Seq(Pieces) /\ (Tagged => Tagged')
    BY <2>1, Dropped
  <2> QED  BY <2>1, <2>2 DEF LineKept, SerialInv, LineTypeOK
<1>4. port' = Released /\ port' \in Ports
  BY <1>2 DEF CloseOk, Ports, Released
<1>5. Tells(host) /\ shown'.outcome \in {"failed", Truth(board)}
  BY <1>2, AnswerCloseLeads DEF CloseOk
<1>6. SerialInv' /\ ReadStep
  BY <1>2, <1>3, <1>4, <1>5, TellsKeep DEF GivenUpOn
<1>7. ASSUME LineInv PROVE LineInv'
  <2>1. Faultless' => Innocent(host)
    BY <1>3, <1>7, StillFaultless
  <2> QED  BY <1>3, <1>5, <1>7, <2>1, TellsLine
<1> QED  BY <1>6, <1>7 DEF Kept

LEMMA CloseFailsKeeps ==
  ASSUME SerialInv, CloseFails
  PROVE  Kept
<1>1. host.pc \in Stops
  BY DEF CloseFails, Stops
<1>2. Busy(host) /\ Ending(machine, board) /\ port \in Ports /\ host.pc # "idle"
  BY <1>1, InCleanup
<1>3. LineKept /\ port' = port
  BY SameLineTagged DEF CloseFails, LineKept, SerialInv, LineTypeOK
<1> DEFINE h == Remembered(host, "PORT_CLOSE")
<1>4. Busy(h) /\ h.failure # None /\ h.origin = host.origin
  <2>1. None \notin CleanupOrigins
    BY ResultAssumption DEF Origins
  <2>2. h.failure \in CleanupOrigins
    BY <1>2, RememberedMoves DEF CleanupOrigins
  <2>3. Busy(h) /\ h.origin = host.origin
    BY <1>2, RememberedMoves DEF CleanupOrigins
  <2> QED  BY Zenon, <2>1, <2>2, <2>3
<1>5. AnswerClose(machine, h)
  BY DEF CloseFails
<1> HIDE DEF h
<1>6. Tells(h) /\ shown'.outcome = "failed"
  BY <1>2, <1>4, <1>5, AnswerCloseLeads
<1>7. SerialInv' /\ ReadStep
  BY <1>2, <1>3, <1>6, TellsKeep DEF GivenUpOn
<1>8. ASSUME LineInv PROVE LineInv'
  <2>1. Faultless' => Innocent(h)
    BY <1>3, <1>4, <1>8, StillFaultless DEF Innocent
  <2> QED  BY <1>3, <1>6, <1>8, <2>1, TellsLine
<1> QED  BY <1>7, <1>8 DEF Kept

LEMMA BoardSpeaks ==
  ASSUME SerialInv, inbox # <<>>, NEW reply \in Replies(Head(inbox)) \cup BadReplies(Head(inbox))
  PROVE  /\ rx \o reply \in Seq(Pieces) /\ Tail(inbox) \in Seq(Asked)
         /\ reply \in Seq(Pieces)
<1>1. inbox \in Seq(Asked) /\ rx \in Seq(Pieces)
  BY DEF SerialInv, LineTypeOK
<1> DEFINE request == Head(inbox)
<1>2. request \in Asked /\ Tail(inbox) \in Seq(Asked)
  BY <1>1
<1> HIDE DEF request
<1>3. reply \in Seq(Pieces)
  <2>1. \A direction \in {"Reply", "Error"} : \A part \in {"whole", "head", "tail", "garbled"} :
          Piece(request, direction, part) \in Pieces
    BY <1>2 DEF Piece, Pieces, Asked
  <2>2. reply \in Replies(request) \cup BadReplies(request)
    BY DEF request
  <2> DEFINE P(direction, part) == Piece(request, direction, part)
  <2>3. \A direction \in {"Reply", "Error"} : \A part \in {"whole", "head", "tail", "garbled"} :
          P(direction, part) \in Pieces
    BY <2>1
  <2>4. reply \in {<<P("Reply", "whole")>>, <<P("Reply", "head"), P("Reply", "tail")>>, <<>>,
                   <<P("Error", "whole")>>, <<P("Reply", "garbled")>>}
    BY <2>2 DEF Replies, BadReplies
  <2> HIDE DEF P
  <2>5. /\ <<P("Reply", "whole")>> \in Seq(Pieces)
        /\ <<P("Reply", "head"), P("Reply", "tail")>> \in Seq(Pieces)
        /\ <<P("Error", "whole")>> \in Seq(Pieces) /\ <<P("Reply", "garbled")>> \in Seq(Pieces)
    BY <2>3
  <2> QED  BY Zenon, <2>4, <2>5, NothingOnTheWay
<1> QED  BY <1>1, <1>2, <1>3

LEMMA ReplyTagged ==
  ASSUME SerialInv, inbox # <<>>, NEW reply \in Replies(Head(inbox)) \cup BadReplies(Head(inbox))
  PROVE  /\ \A k \in 1 .. Len(reply) : reply[k].attempt = inbox[1].attempt
         /\ reply \in Replies(Head(inbox)) => reply # <<>>
<1>1. Head(inbox) = inbox[1]
  BY DEF SerialInv, LineTypeOK
<1> QED  BY <1>1 DEF Replies, BadReplies, Piece

(* What the board does, the host does not see at once. *)
LEMMA BoardKeeps ==
  ASSUME SerialInv, inbox # <<>>, NEW reply \in Replies(Head(inbox)) \cup BadReplies(Head(inbox)),
         rx' = rx \o reply, inbox' = Tail(inbox), disturbed' \in BOOLEAN,
         UNCHANGED <<board, attempt, crossed, machine, host, port, buffer, shown>>
  PROVE  SerialInv' /\ ReadStep /\ (Tagged => Tagged')
<1>1. LineTypeOK'
  BY BoardSpeaks DEF SerialInv, LineTypeOK
<1>2. HostInv'
  BY DEF SerialInv, HostInv
<1>3. \A k \in 1 .. Len(reply) : reply[k].attempt = inbox[1].attempt
  BY ReplyTagged
<1>4. ASSUME Tagged PROVE Tagged'
  <2>1. /\ inbox \in Seq(Asked) /\ rx \in Seq(Pieces) /\ rx' \in Seq(Pieces)
        /\ reply \in Seq(Pieces)
    BY <1>1, BoardSpeaks DEF SerialInv, LineTypeOK
  <2>2. \A k \in 1 .. Len(inbox') : k + 1 \in 1 .. Len(inbox) /\ inbox'[k] = inbox[k + 1]
    BY <2>1
  <2>3. \A k \in 1 .. Len(inbox') : inbox'[k].attempt <= attempt'
    BY <1>4, <2>2 DEF Tagged
  <2>4. \A k \in 1 .. Len(rx') : \/ k \in 1 .. Len(rx) /\ rx'[k] = rx[k]
                                 \/ k - Len(rx) \in 1 .. Len(reply) /\ rx'[k] = reply[k - Len(rx)]
    BY <2>1
  <2>5. inbox[1].attempt <= attempt
    BY <1>4, <2>1 DEF Tagged
  <2>6. \A k \in 1 .. Len(rx') : rx'[k].attempt <= attempt'
    BY <1>3, <1>4, <2>4, <2>5 DEF Tagged
  <2> QED  BY <2>3, <2>6 DEF Tagged
<1> QED  BY <1>1, <1>2, <1>4 DEF SerialInv, ReadStep

LEMMA BoardAnswersKeeps ==
  ASSUME SerialInv, BoardAnswers
  PROVE  Kept
<1>1. PICK reply \in Replies(Head(inbox)) : rx' = rx \o reply
  BY DEF BoardAnswers
<1>2. /\ inbox # <<>> /\ inbox' = Tail(inbox) /\ disturbed' = disturbed
      /\ UNCHANGED <<board, attempt, crossed, machine, host, port, buffer, shown>>
  BY DEF BoardAnswers
<1>3. SerialInv' /\ ReadStep /\ (Tagged => Tagged')
  BY <1>1, <1>2, BoardKeeps DEF SerialInv, LineTypeOK
<1>4. ASSUME LineInv PROVE LineInv'
  <2>1. Behind => Behind'
    <3>1. reply \in Seq(Pieces) /\ rx \in Seq(Pieces) /\ inbox \in Seq(Asked)
      BY <1>1, <1>2, BoardSpeaks DEF SerialInv, LineTypeOK
    <3>2. reply # <<>> /\ reply[1].attempt = inbox[1].attempt
      BY <1>1, <1>2, <3>1, ReplyTagged
    <3>3. rx' # <<>> /\ rx'[1] = IF rx = <<>> THEN reply[1] ELSE rx[1]
      BY <1>1, <3>1, <3>2
    <3> QED  BY <1>2, <3>2, <3>3 DEF Behind
  <2>2. Clear => Clear'
    BY <1>2, <2>1 DEF Clear, Quiescent
  <2>3. ASSUME InHand PROVE InHand'
    <3>1. inbox = <<Request>> /\ rx = <<>> /\ buffer = <<>>
      BY <1>2, <2>3 DEF InHand
    <3>2. reply \in Replies(Request)
      BY <1>1, <3>1
    <3>3. inbox' = <<>> /\ rx' = reply /\ buffer' = <<>>
      <4>1. reply \in Seq({reply[k] : k \in DOMAIN reply})
        BY <3>2 DEF Replies
      <4> QED  BY <1>1, <1>2, <3>1, <4>1
    <3>4. buffer' \o rx' = reply
      <4>1. reply \in Seq({reply[k] : k \in DOMAIN reply})
        BY <3>2 DEF Replies
      <4> QED  BY <3>3, <4>1
    <3>5. Request' = Request
      BY <1>2 DEF Request
    <3>6. Replies(Request)' = Replies(Request)
      BY <3>5 DEF Replies, Piece
    <3> QED  BY <3>2, <3>3, <3>4, <3>6 DEF InHand
  <2>4. ReplyDue => ReplyDue'
    BY <1>2, <2>1, <2>3 DEF ReplyDue
  <2> QED  BY <1>2, <1>3, <1>4, <2>2, <2>4 DEF LineInv, Faultless
<1> QED  BY <1>3, <1>4 DEF Kept

LEMMA BoardMisbehavesKeeps ==
  ASSUME SerialInv, BoardMisbehaves
  PROVE  Kept
<1>1. PICK reply \in BadReplies(Head(inbox)) : rx' = rx \o reply
  BY DEF BoardMisbehaves
<1>2. /\ inbox # <<>> /\ inbox' = Tail(inbox) /\ disturbed' = TRUE
      /\ UNCHANGED <<board, attempt, crossed, machine, host, port, buffer, shown>>
  BY DEF BoardMisbehaves
<1>3. SerialInv' /\ ReadStep /\ (Tagged => Tagged')
  BY <1>1, <1>2, BoardKeeps
<1>4. LineInv => LineInv'
  BY <1>2, <1>3 DEF LineInv, Faultless
<1> QED  BY <1>3, <1>4 DEF Kept

-----------------------------------------------------------------------------
(* The theorems.                                                            *)

LEMMA SerialStarts ==
  ASSUME SerialInit
  PROVE  SerialInv /\ LineInv
<1>1. /\ board \in Devices /\ attempt = 0 /\ disturbed = FALSE /\ crossed = FALSE
      /\ machine = NewDiscovery
      /\ host = NewHost /\ port = Released /\ inbox = <<>> /\ rx = <<>> /\ buffer = <<>>
      /\ shown = None
  BY DEF SerialInit, Released
<1>2. LineTypeOK
  <2>1. Released \in Ports
    BY DEF Released, Ports
  <2>2. attempt \in Nat
    BY <1>1
  <2>3. disturbed \in BOOLEAN /\ crossed \in BOOLEAN
    BY <1>1
  <2> QED  BY <1>1, <2>1, <2>2, <2>3, NothingOnTheWay DEF LineTypeOK
<1>3. HostInv
  BY <1>1, NewHostType, NewDiscoveryReady DEF HostInv, Placed
<1>4. LineInv
  BY <1>1, NewHostType, Uninvolved DEF LineInv, Tagged, Unasked
<1> QED  BY <1>2, <1>3, <1>4 DEF SerialInv

LEMMA NothingHappens ==
  ASSUME SerialInv, UNCHANGED serialVars
  PROVE  Kept
<1>1. /\ board' = board /\ attempt' = attempt /\ disturbed' = disturbed
      /\ crossed' = crossed /\ machine' = machine /\ host' = host /\ port' = port /\ inbox' = inbox
      /\ rx' = rx /\ buffer' = buffer /\ shown' = shown
  BY DEF serialVars
<1>2. SerialInv'
  BY <1>1 DEF SerialInv, LineTypeOK, HostInv
<1>3. LineInv => LineInv'
  <2>1. Request' = Request
    BY <1>1 DEF Request
  <2>2. InHand => InHand'
    BY <1>1, <2>1 DEF InHand, Replies, Piece
  <2>3. Behind => Behind'
    BY <1>1 DEF Behind
  <2>4. (Clear => Clear') /\ (ReplyDue => ReplyDue')
    BY <1>1, <2>2, <2>3 DEF Clear, ReplyDue, Quiescent
  <2>5. Tagged => Tagged'
    BY <1>1, SameLineTagged
  <2> QED  BY <1>1, <2>4, <2>5 DEF LineInv, Faultless
<1>4. ReadStep
  BY <1>1 DEF ReadStep
<1> QED  BY <1>2, <1>3, <1>4 DEF Kept

LEMMA StepsKeep ==
  ASSUME SerialInv, [SerialNext]_serialVars
  PROVE  Kept
<1>1. CASE Click
  BY <1>1, ClickKeeps
<1>2. CASE ChooseFails
  BY <1>2, ChooseFailsKeeps
<1>3. CASE ChooseOk
  BY <1>3, ChooseOkKeeps
<1>4. CASE ConstructionFails
  BY <1>4, ConstructionFailsKeeps
<1>5. CASE OpenOk
  BY <1>5, OpenOkKeeps
<1>6. CASE OpenFails
  BY <1>6, OpenFailsKeeps
<1>7. CASE WriteOk
  BY <1>7, WriteOkKeeps
<1>8. CASE WriteFails
  BY <1>8, WriteFailsKeeps
<1>9. CASE ReadChunk
  BY <1>9, ReadChunkKeeps
<1>10. CASE ReadEmpty
  BY <1>10, ReadEmptyKeeps
<1>11. CASE ReadFails
  BY <1>11, ReadFailsKeeps
<1>12. CASE ReadTimesOut
  BY <1>12, ReadTimesOutKeeps
<1>13. CASE CancelSettles
  BY <1>13, CancelSettlesKeeps
<1>14. CASE CleanupCancelSettles
  BY <1>14, CleanupCancelSettlesKeeps
<1>15. CASE CloseOk
  BY <1>15, CloseOkKeeps
<1>16. CASE CloseFails
  BY <1>16, CloseFailsKeeps
<1>17. CASE BoardAnswers
  BY <1>17, BoardAnswersKeeps
<1>18. CASE BoardMisbehaves
  BY <1>18, BoardMisbehavesKeeps
<1>19. CASE UNCHANGED serialVars
  BY <1>19, NothingHappens
<1> QED  BY <1>1, <1>2, <1>3, <1>4, <1>5, <1>6, <1>7, <1>8, <1>9, <1>10, <1>11, <1>12,
            <1>13, <1>14, <1>15, <1>16, <1>17, <1>18, <1>19 DEF SerialNext, HostSettles

(* At every await the host and the machine are where each expects the other: *)
(* the inductive invariant of the read-only path.                           *)
THEOREM HostAndMachineAgree == SerialSpec => []SerialInv
<1>1. SerialInit => SerialInv
  BY SerialStarts
<1>2. SerialInv /\ [SerialNext]_serialVars => SerialInv'
  BY StepsKeep DEF Kept
<1> QED  BY <1>1, <1>2, PTL DEF SerialSpec

(* The browser host never makes a call that the Rust machine refuses,        *)
(* whatever the port, the line and the board do (webserial-readonly-host.mjs *)
(* against the ABI of web-readonly-serial-wasm-bridge).                      *)
THEOREM HostObeysMachine == SerialSpec => []HostIsNeverRefused
<1>1. SerialInv => HostIsNeverRefused
  BY DEF SerialInv, HostInv, HostIsNeverRefused
<1> QED  BY <1>1, HostAndMachineAgree, PTL

(* A result that is not a failure is shown only when both locks are released *)
(* and the port is closed: `#cleanup` leaves nothing behind unreported.      *)
THEOREM PortReleasedOrReported == SerialSpec => []ReleasedOrReported
<1>1. SerialInv => ReleasedOrReported
  BY DEF SerialInv, HostInv, ShownRight, GivenUpOn, Released, ReleasedOrReported
<1> QED  BY <1>1, HostAndMachineAgree, PTL

(* Whatever is cut, delayed or left over when a port is closed, an attempt   *)
(* with a faultless board ends over a bad reply only if a reply that an      *)
(* earlier attempt gave up was read in it: the exchanges of one attempt do   *)
(* not spoil each other.                                                    *)
THEOREM LateRepliesOnly == SerialSpec => []OnlyLateRepliesPoison
<1>1. SerialInit => SerialInv /\ LineInv
  BY SerialStarts
<1>2. SerialInv /\ LineInv /\ [SerialNext]_serialVars => (SerialInv /\ LineInv)'
  BY StepsKeep DEF Kept
<1>3. LineInv => OnlyLateRepliesPoison
  BY DEF LineInv, Faultless, OnlyLateRepliesPoison, JudgedBad
<1> QED  BY <1>1, <1>2, <1>3, PTL DEF SerialSpec

(* Every attempt starts from nothing shown and ends in one step with the     *)
(* truth about the connected board or a failure: what the user sees is what  *)
(* IdentityRead promises.                                                   *)
THEOREM ShowsTheTruth == SerialSpec => Read!ReadSafety
<1>1. SerialInit => Read!ReadInit
  BY NewHostType DEF SerialInit, Read!ReadInit
<1>2. SerialInv /\ [SerialNext]_serialVars => [Read!Start \/ Read!End]_(Read!readVars)
  <2> SUFFICES ASSUME SerialInv, SerialInv', ReadStep
               PROVE  [Read!Start \/ Read!End]_(Read!readVars)
    BY StepsKeep DEF Kept
  <2>1. Truth(board)' = Truth(board)
    BY DEF ReadStep, Truth
  <2>2. CASE (host.pc = "idle" <=> host'.pc = "idle") /\ shown' = shown
    BY <2>1, <2>2 DEF Read!readVars
  <2>3. CASE host.pc = "idle" /\ host'.pc # "idle" /\ shown' = None
    BY <2>1, <2>3 DEF Read!Start
  <2>4. CASE host.pc # "idle" /\ host'.pc = "idle" /\ shown' # None
    <3>1. shown'.outcome \in GivenUpOn \cup {Truth(board)}
      BY <2>1, <2>4 DEF SerialInv, HostInv, ShownRight
    <3>2. (IF shown' = None THEN None
           ELSE IF shown'.outcome = "unavailable" THEN "failed" ELSE shown'.outcome)
             \in {Truth(board)} \cup {"failed", "cancelled"}
      BY <2>4, <3>1 DEF GivenUpOn
    <3> QED  BY <2>1, <2>4, <3>2 DEF Read!End, Read!GivenUp
  <2> QED  BY <2>2, <2>3, <2>4 DEF ReadStep
<1> QED  BY <1>1, <1>2, HostAndMachineAgree, PTL DEF SerialSpec, Read!ReadSafety
=============================================================================
