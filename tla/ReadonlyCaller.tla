--------------------------- MODULE ReadonlyCaller ---------------------------
(***************************************************************************)
(* The discovery state machine under a caller that knows nothing: any ABI   *)
(* method, with any request id, any failure label and anything the          *)
(* accumulator may say, in any order. It is what a page script can do with  *)
(* the exported object; the real host is in ReadonlySerial.                 *)
(***************************************************************************)
EXTENDS ReadonlyDiscovery

CONSTANT Labels   \* the failure labels the caller tries, known or not

VARIABLES
  machine,   \* the Rust state
  answer,    \* what the last call returned
  asked,     \* history: the commands of the exchange directives issued
  heard      \* history: the frames the machine took

callerVars == <<machine, answer, asked, heard>>

CallerInit ==
  /\ machine = NewDiscovery
  /\ answer = [kind |-> "none"]
  /\ asked = <<>>
  /\ heard = <<>>

Ids == 1 .. MaxRequestId

(* The effect of a call on the machine and on the history. *)
Returns(call) ==
  /\ machine' = call.d
  /\ answer' = call.answer
  /\ asked' = IF call.answer.kind = "exchange"
                THEN Append(asked, call.answer.command) ELSE asked

CallBegin == Returns(BeginOpen(machine)) /\ UNCHANGED heard

CallOpenOk ==
  \E id \in Ids : Returns(AcceptOpenOk(machine, id)) /\ UNCHANGED heard

CallOpenErr ==
  \E id \in Ids, label \in Labels :
    Returns(AcceptOpenErr(machine, id, label)) /\ UNCHANGED heard

CallChunk ==
  \E id \in Ids :
    \/ /\ Returns(AcceptChunk(machine, id, [kind |-> "more"]))
       /\ UNCHANGED heard
    \/ /\ Returns(AcceptChunk(machine, id,
             [kind |-> "malformed", reason |-> "BadChecksum"]))
       /\ UNCHANGED heard
    \/ /\ machine.accumulating # None
       /\ \E frame \in FramesOf(machine.accumulating) :
            /\ Returns(AcceptChunk(machine, id, [kind |-> "frame", frame |-> frame]))
            /\ heard' = IF answer'.kind = "refused" THEN heard ELSE Append(heard, frame)

CallExchangeErr ==
  \E id \in Ids, label \in Labels :
    Returns(AcceptExchangeErr(machine, id, label)) /\ UNCHANGED heard

CallCloseOk ==
  \E id \in Ids : Returns(AcceptCloseOk(machine, id)) /\ UNCHANGED heard

CallCloseErr ==
  \E id \in Ids, label \in Labels :
    Returns(AcceptCloseErr(machine, id, label)) /\ UNCHANGED heard

CallTakeTrace ==
  /\ machine.trace # <<>>
  /\ machine' = TakeTrace(machine)
  /\ answer' = [kind |-> "none"]
  /\ UNCHANGED <<asked, heard>>

CallerNext ==
  \/ CallBegin
  \/ CallOpenOk
  \/ CallOpenErr
  \/ CallChunk
  \/ CallExchangeErr
  \/ CallCloseOk
  \/ CallCloseErr
  \/ CallTakeTrace

CallerSpec == CallerInit /\ [][CallerNext]_callerVars

-----------------------------------------------------------------------------

AwaitedKind(phase) ==
  CASE phase = "Opening" -> "open"
    [] phase = "Exchanging" -> "exchange"
    [] phase = "Closing" -> "close"

(* The four places that remember what is in flight agree: the phase, the id *)
(* the bridge waits for, the coordinator's request and the accumulator. One *)
(* of them left behind would strand the discovery with an open port.        *)
InFlightAgrees ==
  /\ machine.pendingId =
       IF machine.coordinator.awaited = None THEN None
       ELSE machine.coordinator.awaited.id
  /\ IF machine.phase \in {"Ready", "Complete"}
       THEN machine.coordinator.awaited = None
       ELSE /\ machine.coordinator.awaited # None
            /\ machine.coordinator.awaited.kind = AwaitedKind(machine.phase)
  /\ (machine.phase = "Exchanging") = (machine.accumulating # None)
  /\ machine.phase = "Exchanging" =>
       machine.ident.pending /\ machine.accumulating = machine.ident.stage

(* An identity is reported only for four replies, none of them an error, the *)
(* API and the firmware family among the reviewed ones; the M1 verdict only  *)
(* for the pinned API.                                                       *)
IdentityIsEarned ==
  machine.outcome # None /\ machine.outcome.kind \in IdentityKinds =>
    /\ asked = Stages
    /\ [n \in DOMAIN heard |-> heard[n].command] = Stages
    /\ \A n \in DOMAIN heard :
         heard[n].direction = "Reply" /\ heard[n].content # "unreadable"
    /\ heard[2].content = "BTFL"
    /\ heard[1].content =
         IF machine.outcome.kind = "read-only-complete" THEN "api147" ELSE "api146"
    /\ (machine.outcome.kind = "in-scope") =
         (heard[1].content = "api146" /\ heard[3].content = "pinned"
            /\ heard[4].content = "pinned")

(* A call that is refused leaves no trace: a stale or duplicated completion  *)
(* of an earlier request cannot move the machine (ADR-0013).                 *)
RefusalsAreInert == [][answer'.kind = "refused" => machine' = machine]_callerVars
=============================================================================
