----------------------------- MODULE Capability -----------------------------
(***************************************************************************)
(* crates/capability, crates/capability-resolution and the scope checks of  *)
(* crates/facts and crates/core-api: what the product knows of a device it  *)
(* has identified. Two rules decide it separately, the catalogue of         *)
(* reviewed packs and the M1 write scope. Here a caller resolves one        *)
(* identity against a catalogue that grows.                                 *)
(***************************************************************************)
EXTENDS Naturals, Sequences, FiniteSets

CONSTANTS
  Identities,  \* the decoded identities a device may present
  Packs,       \* the descriptors a catalogue may be given
  MaxPacks     \* bound on the catalogue

(* Every number a device reports is a byte. *)
ASSUME IdentityAssumption ==
  \A device \in Identities :
    device.api.minor \in 0 .. 255 /\ device.version \in [1 .. 3 -> 0 .. 255]

VARIABLES
  identity,    \* the device
  catalog,     \* the descriptors, in order
  resolution   \* what the last resolution returned

capabilityVars == <<identity, catalog, resolution>>

(* Versions are compared byte by byte, the first difference deciding. *)
AtMost(v, w) ==
  \E n \in 1 .. 3 :
    /\ \A k \in 1 .. n - 1 : v[k] = w[k]
    /\ IF n = 3 THEN v[3] <= w[3] ELSE v[n] < w[n]

(* `validate_pack_descriptor`, in its order. *)
DescriptorErrors(pack) ==
  <<IF pack.packId = "" THEN "EmptyPackId" ELSE "none",
    IF pack.schemaVersion = 0 THEN "ZeroSchemaVersion" ELSE "none",
    IF pack.packVersion = 0 THEN "ZeroPackVersion" ELSE "none",
    IF pack.revocationId = "" THEN "EmptyRevocationId" ELSE "none",
    IF pack.minMinor > pack.maxMinor THEN "InvertedApiRange" ELSE "none",
    IF ~AtMost(pack.minVersion, pack.maxVersion) THEN "InvertedVersionRange" ELSE "none",
    IF pack.target = "" THEN "EmptyExactTarget" ELSE "none">>

IsValid(pack) == \A n \in 1 .. 7 : DescriptorErrors(pack)[n] = "none"

FirstError(pack) ==
  LET n == CHOOSE n \in 1 .. 7 :
             /\ DescriptorErrors(pack)[n] # "none"
             /\ \A k \in 1 .. n - 1 : DescriptorErrors(pack)[k] = "none"
  IN  DescriptorErrors(pack)[n]

ApiContains(pack, api) ==
  /\ api.protocol = pack.protocol
  /\ api.major = pack.major
  /\ api.minor \in pack.minMinor .. pack.maxMinor

VersionContains(pack, version) ==
  AtMost(pack.minVersion, version) /\ AtMost(version, pack.maxVersion)

(* `matches`; no selector stands for more than one target. *)
Matches(pack, seen) ==
  /\ pack.family = seen.family
  /\ ApiContains(pack, seen.api)
  /\ VersionContains(pack, seen.version)
  /\ pack.target = seen.target

NoPack == [kind |-> "noMatch"]

(* Mutant: a malformed descriptor is ignored. *)
ResolveIgnoringBad(seen, packs) ==
  LET hits == {n \in DOMAIN packs : IsValid(packs[n]) /\ Matches(packs[n], seen)}
  IN  IF Cardinality(hits) > 1 THEN [kind |-> "ambiguous"]
      ELSE IF hits = {} THEN NoPack
      ELSE [kind |-> "match", pack |-> packs[CHOOSE n \in hits : TRUE]]

(* `resolve_read_only_pack`: all descriptors are validated before any match. *)
Resolve(seen, packs) ==
  LET bad  == {n \in DOMAIN packs : ~IsValid(packs[n])}
      hits == {n \in DOMAIN packs : Matches(packs[n], seen)}
  IN  IF bad # {}
        THEN LET first == CHOOSE n \in bad : \A k \in bad : n <= k
             IN  [kind |-> "invalidPack", index |-> first - 1,
                  reason |-> FirstError(packs[first])]
      ELSE IF Cardinality(hits) > 1 THEN [kind |-> "ambiguous"]
      ELSE IF hits = {} THEN NoPack
      ELSE [kind |-> "match", pack |-> packs[CHOOSE n \in hits : TRUE]]

(* `observed_capability_identity`: only BTFL has a family. *)
FamilyOf(variant) == IF variant = "BTFL" THEN "Betaflight" ELSE "unknown"

Observed(device) ==
  [family |-> FamilyOf(device.variant), api |-> device.api,
   version |-> device.version, target |-> device.target]

(* `resolve_review_only_capability` over a catalogue; the one it is called  *)
(* with holds EmbeddedPack alone.                                           *)
Status(device, packs) ==
  IF FamilyOf(device.variant) = "unknown" THEN [kind |-> "unknownFamily"]
  ELSE Resolve(Observed(device), packs)

(* Mutant: the reviewed range was widened to the next API. *)
WidenedPack ==
  [packId |-> "review", schemaVersion |-> 1, packVersion |-> 1,
   revocationId |-> "review-v1", family |-> "Betaflight",
   protocol |-> 0, major |-> 1, minMinor |-> 46, maxMinor |-> 47,
   minVersion |-> <<4, 5, 5>>, maxVersion |-> <<4, 5, 5>>, target |-> "SPEEDYBEEF405V4"]

(* `m3_review_only_betaflight_4_5_5_pack`. *)
EmbeddedPack ==
  [packId |-> "review", schemaVersion |-> 1, packVersion |-> 1,
   revocationId |-> "review-v1", family |-> "Betaflight",
   protocol |-> 0, major |-> 1, minMinor |-> 46, maxMinor |-> 46,
   minVersion |-> <<4, 5, 5>>, maxVersion |-> <<4, 5, 5>>, target |-> "SPEEDYBEEF405V4"]

(* `check_m1_api_scope`: all that is known after the first reply. *)
ApiScope(api) ==
  IF api.protocol # 0 THEN "protocol_version"
  ELSE IF api.major # 1 \/ api.minor # 46 THEN "msp_api_version" ELSE "none"

(* `check_scope` against `m1_proposed_target`. *)
CheckScope(device) ==
  IF ApiScope(device.api) # "none" THEN ApiScope(device.api)
  ELSE IF device.variant # "BTFL" THEN "fc_variant"
  ELSE IF device.version # <<4, 5, 5>> THEN "fc_version"
  ELSE IF device.target # "SPEEDYBEEF405V4" THEN "target_name" ELSE "none"

CapabilityInit ==
  /\ identity \in Identities
  /\ catalog = <<>>
  /\ resolution = Status(identity, <<>>)

AddPack ==
  /\ Len(catalog) < MaxPacks
  /\ \E pack \in Packs \cup {EmbeddedPack} :
       /\ catalog' = Append(catalog, pack)
       /\ resolution' = Status(identity, Append(catalog, pack))
  /\ UNCHANGED identity

CapabilitySpec == CapabilityInit /\ [][AddPack]_capabilityVars

-----------------------------------------------------------------------------
(* Properties. *)

(* Knowledge is never chosen by the order or the quality of the catalogue: a *)
(* device has a pack only when every descriptor is sound and exactly one     *)
(* entry fits, and a pack once found is lost, never exchanged for another,   *)
(* when the catalogue grows.                                                 *)
KnowledgeIsUnique ==
  [][/\ resolution'.kind = "match" =>
          /\ \A n \in DOMAIN catalog' : IsValid(catalog'[n])
          /\ Cardinality({n \in DOMAIN catalog' :
                            Matches(catalog'[n], Observed(identity'))}) = 1
     /\ resolution.kind = "match" /\ resolution'.kind = "match" =>
          resolution'.pack = resolution.pack
     /\ resolution.kind \in {"ambiguous", "invalidPack"} =>
          resolution'.kind = "invalidPack" \/ resolution'.kind = resolution.kind]_capabilityVars

(* The two rules agree: the embedded pack describes a device exactly when    *)
(* the M1 scope check lets the lifecycle go on to write to it.               *)
ReviewedIsInScope ==
  catalog = <<EmbeddedPack>> =>
    (resolution.kind = "match" <=> CheckScope(identity) = "none")
=============================================================================
