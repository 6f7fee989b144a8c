------------------------- MODULE MCSequentialRules -------------------------
(***************************************************************************)
(* The parts that are plain functions of their input: receiving a reply     *)
(* (accumulator, then decoders), what the product may know of a device, and *)
(* what it may plan for it. They share no state, so a behaviour of this     *)
(* instance exercises one of them while the others are at rest.             *)
(***************************************************************************)
EXTENDS MspAccumulator, MspPayload, Capability, ProductPlan

(* The preamble, both reply directions and the request's, every size up to   *)
(* one past the bound, and values closed under XOR.                          *)
MCBytes == {36, 77, 60, 62, 33, 0, 1, 2, 3}

(* An accumulator that has refused its first byte. *)
AccumulatorRests ==
  /\ buffer = <<0>>
  /\ fed = <<0>>
  /\ complete = FALSE
  /\ progress = Refused("BadPreamble")

(* A decoder that was given another command's reply. *)
DecoderRests ==
  /\ decoder = "ApiVersion"
  /\ frame = [command |-> "FcVariant", direction |-> "Reply", len |-> 4,
              prefix |-> [t \in 1 .. 3 |-> 0], badText |-> {}]
  /\ field = 0
  /\ pos = 0
  /\ verdict = "WrongCommand"

Api(protocol, major, minor) == [protocol |-> protocol, major |-> major, minor |-> minor]

Pinned ==
  [api |-> Api(0, 1, 46), variant |-> "BTFL", version |-> <<4, 5, 5>>,
   target |-> "SPEEDYBEEF405V4"]

(* The pinned device and its neighbours on each side of every boundary. *)
MCIdentities ==
  {Pinned, [Pinned EXCEPT !.variant = "INAV"], [Pinned EXCEPT !.target = "OTHER"],
   [Pinned EXCEPT !.api = Api(0, 1, 45)], [Pinned EXCEPT !.api = Api(0, 1, 47)],
   [Pinned EXCEPT !.api = Api(1, 1, 46)], [Pinned EXCEPT !.api = Api(0, 2, 46)],
   [Pinned EXCEPT !.version = <<4, 5, 4>>], [Pinned EXCEPT !.version = <<4, 6, 0>>],
   [Pinned EXCEPT !.version = <<3, 9, 9>>]}

(* Descriptors that overlap the embedded one, exclude it, or are malformed. *)
MCPacks ==
  {[EmbeddedPack EXCEPT !.packId = "range", !.maxMinor = 47, !.maxVersion = <<4, 6, 1>>],
   [EmbeddedPack EXCEPT !.packId = "inav", !.family = "Inav"],
   [EmbeddedPack EXCEPT !.packId = "other", !.target = "OTHER"],
   [EmbeddedPack EXCEPT !.packId = ""], [EmbeddedPack EXCEPT !.schemaVersion = 0],
   [EmbeddedPack EXCEPT !.packVersion = 0], [EmbeddedPack EXCEPT !.revocationId = ""],
   [EmbeddedPack EXCEPT !.minMinor = 47], [EmbeddedPack EXCEPT !.minVersion = <<4, 6, 0>>],
   [EmbeddedPack EXCEPT !.target = "", !.schemaVersion = 0]}

Choice(input, function) == [input |-> input, function |-> function]

MCUserChoices ==
  {Choice("switch1", "Arm"), Choice("switch2", "Buzzer"), Choice("switch1", "Buzzer")}

MCSettings ==
  {[domain |-> "ControlFunctionAssignments", key |-> 1],
   [domain |-> "Failsafe", key |-> 1]}

MessagesRest == AccumulatorRests /\ DecoderRests

RulesRest == CapabilityInit /\ identity = Pinned /\ ProductInit

MCInit ==
  \/ AccumulatorInit /\ DecoderRests /\ RulesRest
  \/ AccumulatorRests /\ PayloadInit /\ RulesRest
  \/ MessagesRest /\ CapabilityInit /\ ProductInit

messageVars == <<accumulatorVars, payloadVars>>
ruleVars == <<capabilityVars, productVars>>

MCNext ==
  \/ AccumulatorNext /\ UNCHANGED <<payloadVars, ruleVars>>
  \/ PayloadNext /\ UNCHANGED <<accumulatorVars, ruleVars>>
  \/ MessagesRest /\ ProductInit /\ AddPack /\ UNCHANGED <<messageVars, productVars>>
  \/ /\ MessagesRest /\ catalog = <<>> /\ identity = Pinned
     /\ ProductNext /\ UNCHANGED <<messageVars, capabilityVars>>

MCSpec ==
  /\ MCInit
  /\ [][MCNext]_<<messageVars, ruleVars>>
  /\ WF_payloadVars(PayloadNext /\ UNCHANGED <<accumulatorVars, ruleVars>>)
=============================================================================
