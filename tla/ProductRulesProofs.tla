-------------------------- MODULE ProductRulesProofs --------------------------
(***************************************************************************)
(* What the product may know of a device and what it may plan for it. TLC   *)
(* explores catalogues of a few descriptors, collections of three           *)
(* assignments and plans of two changes; the theorems have no such bound    *)
(* and any set of devices, descriptors, choices and settings.               *)
(***************************************************************************)
EXTENDS Capability, ProductPlan, FiniteSetTheorems, TLAPS

(* What is known of a device. *)

(* The state is what the last resolution made of the whole catalogue. *)
CapabilityInv ==
  /\ identity \in Identities
  /\ catalog \in Seq(Packs \cup {EmbeddedPack})
  /\ resolution = Status(identity, catalog)

Bad(packs) == {n \in DOMAIN packs : ~IsValid(packs[n])}

Hits(seen, packs) == {n \in DOMAIN packs : Matches(packs[n], seen)}

LEMMA CapabilityStart ==
  ASSUME CapabilityInit
  PROVE  CapabilityInv
BY DEF CapabilityInit, CapabilityInv

LEMMA CapabilityStep ==
  ASSUME CapabilityInv, [AddPack]_capabilityVars
  PROVE  CapabilityInv'
<1>1. CASE AddPack
  BY <1>1 DEF AddPack, CapabilityInv
<1>2. CASE UNCHANGED capabilityVars
  BY <1>2 DEF capabilityVars, CapabilityInv
<1> QED  BY <1>1, <1>2

(* The four ends a resolution can have. *)
LEMMA Resolved ==
  ASSUME NEW seen, NEW packs
  PROVE  /\ Resolve(seen, packs).kind = "invalidPack" <=> Bad(packs) # {}
         /\ Resolve(seen, packs).kind = "ambiguous"
              <=> Bad(packs) = {} /\ Cardinality(Hits(seen, packs)) > 1
         /\ Resolve(seen, packs).kind = "match"
              <=> /\ Bad(packs) = {} /\ ~(Cardinality(Hits(seen, packs)) > 1)
                  /\ Hits(seen, packs) # {}
         /\ Resolve(seen, packs).kind = "match" =>
              \E n \in Hits(seen, packs) : Resolve(seen, packs).pack = packs[n]
<1> DEFINE bad == Bad(packs)
           hits == Hits(seen, packs)
           first == CHOOSE n \in bad : \A k \in bad : n <= k
<1>1. Resolve(seen, packs) =
        IF bad # {} THEN [kind |-> "invalidPack", index |-> first - 1,
                          reason |-> FirstError(packs[first])]
        ELSE IF Cardinality(hits) > 1 THEN [kind |-> "ambiguous"]
        ELSE IF hits = {} THEN NoPack
        ELSE [kind |-> "match", pack |-> packs[CHOOSE n \in hits : TRUE]]
  BY DEF Resolve, Bad, Hits
<1> HIDE DEF bad, hits, first
<1>2. hits # {} => (CHOOSE n \in hits : TRUE) \in hits
  OBVIOUS
<1> DEFINE result == Resolve(seen, packs)
<1> HIDE DEF result
<1>3. CASE bad # {}
  <2>1. result = [kind |-> "invalidPack", index |-> first - 1,
                  reason |-> FirstError(packs[first])]
    BY <1>1, <1>3 DEF result
  <2>2. result.kind = "invalidPack"
    BY <2>1
  <2> QED  BY <1>3, <2>2 DEF bad, hits, result
<1>4. CASE bad = {} /\ Cardinality(hits) > 1
  <2>1. result.kind = "ambiguous"
    BY <1>1, <1>4 DEF result
  <2> QED  BY <1>4, <2>1 DEF bad, hits, result
<1>5. CASE bad = {} /\ ~(Cardinality(hits) > 1) /\ hits = {}
  <2>1. result.kind = "noMatch"
    BY <1>1, <1>5 DEF result, NoPack
  <2> QED  BY <1>5, <2>1 DEF bad, hits, result
<1>6. CASE bad = {} /\ ~(Cardinality(hits) > 1) /\ hits # {}
  <2>1. result.kind = "match" /\ result.pack = packs[CHOOSE n \in hits : TRUE]
    BY <1>1, <1>6 DEF result
  <2>2. \E n \in hits : result.pack = packs[n]
    BY <1>2, <1>6, <2>1
  <2> QED  BY <1>6, <2>1, <2>2 DEF bad, hits, result
<1> QED  BY <1>3, <1>4, <1>5, <1>6

LEMMA StatusResolves ==
  ASSUME NEW device, NEW packs
  PROVE  IF FamilyOf(device.variant) = "unknown"
         THEN Status(device, packs).kind = "unknownFamily"
         ELSE Status(device, packs) = Resolve(Observed(device), packs)
BY DEF Status

Grown(seen, packs, more) ==
  /\ IsFiniteSet(Hits(seen, more)) /\ Hits(seen, packs) \subseteq Hits(seen, more)
  /\ Cardinality(Hits(seen, packs)) \in Nat /\ Cardinality(Hits(seen, more)) \in Nat
  /\ Cardinality(Hits(seen, packs)) <= Cardinality(Hits(seen, more))
  /\ Bad(packs) \subseteq Bad(more)
  /\ \A n \in DOMAIN packs : more[n] = packs[n]

(* A catalogue has finitely many entries, and keeps them when it grows. *)
LEMMA HitsGrow ==
  ASSUME NEW S, NEW packs \in Seq(S), NEW pack \in S, NEW seen
  PROVE  Grown(seen, packs, Append(packs, pack))
<1> DEFINE more == Append(packs, pack)
<1>1. /\ DOMAIN packs = 1 .. Len(packs) /\ DOMAIN more = 1 .. Len(packs) + 1
      /\ \A n \in DOMAIN packs : more[n] = packs[n]
      /\ Len(packs) \in Nat
  OBVIOUS
<1> HIDE DEF more
<1>2. IsFiniteSet(DOMAIN more)
  BY <1>1, FS_Interval
<1>3. Hits(seen, more) \in SUBSET DOMAIN more /\ Hits(seen, packs) \subseteq Hits(seen, more)
  BY <1>1 DEF Hits
<1>4. Bad(packs) \subseteq Bad(more)
  BY <1>1 DEF Bad
<1>5. IsFiniteSet(Hits(seen, more))
  BY <1>2, <1>3, FS_Subset
<1>6. /\ IsFiniteSet(Hits(seen, packs))
      /\ Cardinality(Hits(seen, packs)) <= Cardinality(Hits(seen, more))
  BY <1>3, <1>5, FS_Subset
<1>7. Cardinality(Hits(seen, packs)) \in Nat /\ Cardinality(Hits(seen, more)) \in Nat
  BY <1>5, <1>6, FS_CardinalityType
<1> QED  BY <1>1, <1>3, <1>4, <1>5, <1>6, <1>7 DEF more, Grown

(* What KnowledgeIsUnique says of one step. *)
Unique ==
  /\ resolution'.kind = "match" =>
       /\ \A n \in DOMAIN catalog' : IsValid(catalog'[n])
       /\ Cardinality({n \in DOMAIN catalog' :
                         Matches(catalog'[n], Observed(identity'))}) = 1
  /\ resolution.kind = "match" /\ resolution'.kind = "match" =>
       resolution'.pack = resolution.pack
  /\ resolution.kind \in {"ambiguous", "invalidPack"} =>
       resolution'.kind = "invalidPack" \/ resolution'.kind = resolution.kind

LEMMA GrowthIsUnique ==
  ASSUME CapabilityInv, AddPack
  PROVE  Unique
<1> DEFINE seen == Observed(identity)
           known == FamilyOf(identity.variant) # "unknown"
           hits == Hits(seen, catalog)
           more == Hits(seen, catalog')
<1>1. PICK pack \in Packs \cup {EmbeddedPack} : catalog' = Append(catalog, pack)
  BY DEF AddPack
<1>2. /\ identity' = identity /\ resolution = Status(identity, catalog)
      /\ resolution' = Status(identity, catalog')
  BY DEF AddPack, CapabilityInv
<1>0. catalog \in Seq(Packs \cup {EmbeddedPack})
  BY DEF CapabilityInv
<1>3. Grown(seen, catalog, catalog')
  <2> HIDE DEF seen
  <2> QED  BY <1>0, <1>1, HitsGrow
<1>4. CASE ~known
  <2>1. resolution.kind = "unknownFamily" /\ resolution'.kind = "unknownFamily"
    BY <1>2, <1>4, StatusResolves
  <2> QED  BY <2>1 DEF Unique
<1>5. CASE known
  <2>1. resolution = Resolve(seen, catalog) /\ resolution' = Resolve(seen, catalog')
    BY <1>2, <1>5, StatusResolves
  <2>2. ASSUME resolution'.kind = "match"
        PROVE  Bad(catalog') = {} /\ Cardinality(more) = 1
               /\ \E n \in more : resolution'.pack = catalog'[n]
    <3>1. /\ Bad(catalog') = {} /\ ~(Cardinality(more) > 1) /\ more # {}
          /\ \E n \in more : resolution'.pack = catalog'[n]
      BY <2>1, <2>2, Resolved
    <3>2. Cardinality(more) # 0
      BY <1>3, <3>1, FS_EmptySet DEF Grown
    <3> QED  BY <1>3, <3>1, <3>2 DEF Grown
  <2>3. ASSUME resolution.kind = "match", resolution'.kind = "match"
        PROVE  resolution'.pack = resolution.pack
    <3>1. PICK n \in hits : resolution.pack = catalog[n]
      BY <2>1, <2>3, Resolved
    <3>2. PICK m \in more : resolution'.pack = catalog'[m]
      BY <2>2, <2>3
    <3>3. PICK k : more = {k}
      BY <1>3, <2>2, <2>3, FS_Singleton DEF Grown
    <3>4. n = m
      BY <1>3, <3>3 DEF Grown
    <3> QED  BY <1>3, <3>1, <3>2, <3>4 DEF Hits, Grown
  <2>4. resolution.kind = "invalidPack" => resolution'.kind = "invalidPack"
    BY <1>3, <2>1, Resolved DEF Grown
  <2>5. resolution.kind = "ambiguous" => resolution'.kind \in {"invalidPack", "ambiguous"}
    <3>1. ASSUME resolution.kind = "ambiguous"
          PROVE  Cardinality(more) > 1
      <4>1. Cardinality(hits) > 1
        BY <2>1, <3>1, Resolved
      <4> QED  BY <1>3, <4>1 DEF Grown
    <3> QED  BY <2>1, <3>1, Resolved
  <2>6. more = {n \in DOMAIN catalog' : Matches(catalog'[n], Observed(identity'))}
    BY <1>2 DEF Hits
  <2> QED  BY <2>2, <2>3, <2>4, <2>5, <2>6 DEF Unique, Bad
<1> QED  BY <1>4, <1>5

LEMMA EmbeddedIsValid == IsValid(EmbeddedPack)
<1>1. AtMost(EmbeddedPack.minVersion, EmbeddedPack.maxVersion)
  BY DEF AtMost, EmbeddedPack
<1>2. \A n \in 1 .. 7 : DescriptorErrors(EmbeddedPack)[n] = "none"
  <2> DEFINE p == EmbeddedPack
  <2>1. /\ p.packId # "" /\ p.schemaVersion # 0 /\ p.packVersion # 0
        /\ p.revocationId # "" /\ ~(p.minMinor > p.maxMinor) /\ p.target # ""
    BY DEF EmbeddedPack
  <2>2. DescriptorErrors(p) = <<"none", "none", "none", "none", "none", "none", "none">>
    <3> HIDE DEF p
    <3> QED  BY <1>1, <2>1 DEF DescriptorErrors, p
  <2> QED  BY <2>2
<1> QED  BY <1>2 DEF IsValid

(* Being between a version and itself is being that version. *)
LEMMA OneVersion ==
  ASSUME NEW v \in [1 .. 3 -> Nat], NEW w \in [1 .. 3 -> Nat]
  PROVE  AtMost(v, w) /\ AtMost(w, v) <=> v = w
<1>1. ASSUME v = w PROVE AtMost(v, w) /\ AtMost(w, v)
  BY <1>1 DEF AtMost
<1>2. ASSUME AtMost(v, w), AtMost(w, v) PROVE v = w
  <2>1. v[1] \in Nat /\ v[2] \in Nat /\ v[3] \in Nat /\ w[1] \in Nat /\ w[2] \in Nat /\ w[3] \in Nat
    OBVIOUS
  <2>2. v[1] = w[1] /\ v[2] = w[2] /\ v[3] = w[3]
    BY <1>2, <2>1 DEF AtMost
  <2>3. \A n \in 1 .. 3 : v[n] = w[n]
    BY <2>2
  <2> QED  BY <2>3
<1> QED  BY <1>1, <1>2

(* The embedded pack fits the devices the scope check admits, and no other. *)
LEMMA EmbeddedFitsScope ==
  ASSUME CapabilityInv, FamilyOf(identity.variant) # "unknown"
  PROVE  Matches(EmbeddedPack, Observed(identity)) <=> CheckScope(identity) = "none"
<1> DEFINE v == identity.version
           api == identity.api
           seen == Observed(identity)
<1>1. /\ api.minor \in 0 .. 255 /\ v \in [1 .. 3 -> Nat]
  <2>1. identity \in Identities
    BY DEF CapabilityInv
  <2>2. identity.api.minor \in 0 .. 255 /\ identity.version \in [1 .. 3 -> 0 .. 255]
    BY <2>1, IdentityAssumption
  <2>3. [1 .. 3 -> 0 .. 255] \subseteq [1 .. 3 -> Nat]
    OBVIOUS
  <2> QED  BY <2>2, <2>3
<1>2. identity.variant = "BTFL"
  BY DEF FamilyOf
<1>3. seen = [family |-> "Betaflight", api |-> api, version |-> v,
              target |-> identity.target]
  BY <1>2 DEF Observed, FamilyOf
<1>4. /\ EmbeddedPack.family = "Betaflight" /\ EmbeddedPack.target = "SPEEDYBEEF405V4"
      /\ EmbeddedPack.protocol = 0 /\ EmbeddedPack.major = 1
      /\ EmbeddedPack.minMinor = 46 /\ EmbeddedPack.maxMinor = 46
      /\ EmbeddedPack.minVersion = <<4, 5, 5>> /\ EmbeddedPack.maxVersion = <<4, 5, 5>>
  BY DEF EmbeddedPack
<1>5. VersionContains(EmbeddedPack, seen.version) <=> v = <<4, 5, 5>>
  <2>1. <<4, 5, 5>> \in [1 .. 3 -> Nat] /\ seen.version = v
    BY <1>3
  <2> HIDE DEF v, seen
  <2> QED  BY <1>1, <1>4, <2>1, OneVersion DEF VersionContains
<1>6. ApiContains(EmbeddedPack, seen.api) <=> ApiScope(api) = "none"
  <2>1. seen.api = api
    BY <1>3
  <2>2. api.minor \in 46 .. 46 <=> api.minor = 46
    BY <1>1
  <2> HIDE DEF api, seen
  <2> QED  BY <1>4, <2>1, <2>2 DEF ApiContains, ApiScope
<1>7. seen.family = "Betaflight" /\ seen.target = identity.target
  BY <1>3
<1>8. Matches(EmbeddedPack, seen) <=>
        ApiScope(api) = "none" /\ v = <<4, 5, 5>> /\ identity.target = "SPEEDYBEEF405V4"
  BY <1>4, <1>5, <1>6, <1>7 DEF Matches
<1>9. CheckScope(identity) = "none" <=>
        ApiScope(api) = "none" /\ v = <<4, 5, 5>> /\ identity.target = "SPEEDYBEEF405V4"
  BY <1>2 DEF CheckScope
<1> QED  BY <1>8, <1>9

LEMMA ScopeFollows ==
  ASSUME CapabilityInv
  PROVE  ReviewedIsInScope
<1> SUFFICES ASSUME catalog = <<EmbeddedPack>>
             PROVE  resolution.kind = "match" <=> CheckScope(identity) = "none"
  BY DEF ReviewedIsInScope
<1>1. resolution = Status(identity, catalog)
  BY DEF CapabilityInv
<1>2. CASE FamilyOf(identity.variant) = "unknown"
  <2>1. resolution.kind = "unknownFamily"
    BY <1>1, <1>2, StatusResolves
  <2>2. identity.variant # "BTFL"
    BY <1>2 DEF FamilyOf
  <2>3. CheckScope(identity) # "none"
    BY <2>2 DEF CheckScope
  <2> QED  BY <2>1, <2>3
<1>3. CASE FamilyOf(identity.variant) # "unknown"
  <2> DEFINE seen == Observed(identity)
             hits == Hits(seen, catalog)
  <2>1. DOMAIN catalog = {1} /\ catalog[1] = EmbeddedPack
    OBVIOUS
  <2>2. Bad(catalog) = {}
    BY <2>1, EmbeddedIsValid DEF Bad
  <2>3. hits = IF Matches(EmbeddedPack, seen) THEN {1} ELSE {}
    <3> HIDE DEF seen
    <3> QED  BY <2>1 DEF Hits
  <2>4. ~(Cardinality(hits) > 1)
    BY <2>3, FS_EmptySet, FS_Singleton
  <2>5. resolution = Resolve(seen, catalog)
    BY <1>1, <1>3, StatusResolves
  <2>6. Resolve(seen, catalog).kind = "match"
          <=> /\ Bad(catalog) = {} /\ ~(Cardinality(hits) > 1) /\ hits # {}
    BY Resolved
  <2> HIDE DEF seen, hits
  <2>7. resolution.kind = "match" <=> Matches(EmbeddedPack, seen)
    BY <2>2, <2>3, <2>4, <2>5, <2>6
  <2> QED  BY <1>3, <2>7, EmbeddedFitsScope DEF seen
<1> QED  BY <1>2, <1>3

(* The two rules for what may be written to agree on every identity a device *)
(* may present, whatever is added to the catalogue later.                    *)
THEOREM TheRulesAgree == CapabilitySpec => []ReviewedIsInScope
BY CapabilityStart, CapabilityStep, ScopeFollows, PTL DEF CapabilitySpec

(* A pack is found only in a sound catalogue, by one entry alone, and what   *)
(* was found, found twice or refused is not undone by another entry, for     *)
(* every set of descriptors and however long the catalogue.                  *)
THEOREM GrowthKeepsKnowledge == CapabilitySpec => KnowledgeIsUnique
<1>1. CapabilityInv /\ [AddPack]_capabilityVars => [Unique]_capabilityVars
  BY GrowthIsUnique
<1>2. KnowledgeIsUnique <=> [][Unique]_capabilityVars
  BY DEF KnowledgeIsUnique, Unique
<1> QED  BY <1>1, <1>2, CapabilityStart, CapabilityStep, PTL DEF CapabilitySpec

-----------------------------------------------------------------------------
(* What may be planned. *)

(* What ChoicesAreTheUsers asks of one change. *)
Earned(c) ==
  IF c.setting.domain = "ControlFunctionAssignments"
    THEN c.after \in {Control(choice) : choice \in chosen} /\ IsControl(c.before)
    ELSE ~IsControl(c.before) /\ ~IsControl(c.after)

Changes ==
  [setting : Settings, before : Values, after : Values, source : {None} \cup UserChoices]

(* Evidence is only about what was accepted, and so is every change that     *)
(* waits for a plan: the plan alone would not be inductive, as it is built   *)
(* from changes whose evidence outlives its collection.                      *)
ChoiceInv ==
  /\ \A n \in DOMAIN assignments : assignments[n] \in chosen
  /\ decisions \subseteq chosen
  /\ chosen \subseteq UserChoices
  /\ changes \in Seq(Changes)
  /\ \A n \in DOMAIN changes : Earned(changes[n])
  /\ \A c \in PlannedChanges : Earned(c)

-----------------------------------------------------------------------------
(* Earned is kept when more is chosen. *)
LEMMA EarnedStays ==
  ASSUME chosen \subseteq chosen', NEW c, Earned(c)
  PROVE  Earned(c)'
BY DEF Earned

(* A change without an error is earned, if its evidence is. *)
LEMMA SourceEarns ==
  ASSUME NEW c, SourceError(c) = "none", c.source \in {None} \cup chosen
  PROVE  Earned(c)
<1>1. CASE Responsibility(c.setting.domain) = "program"
  <2>1. c.setting.domain # "ControlFunctionAssignments"
    BY <1>1 DEF Responsibility
  <2>2. ~IsControl(c.before) /\ ~IsControl(c.after)
    BY <1>1 DEF SourceError
  <2>3. QED
    BY <2>1, <2>2 DEF Earned
<1>2. CASE Responsibility(c.setting.domain) # "program"
  <2>1. c.setting.domain = "ControlFunctionAssignments"
    BY <1>2 DEF Responsibility
  <2>2. c.source # None /\ IsControl(c.before) /\ c.after = Control(c.source)
    BY <1>2 DEF SourceError
  <2>3. QED
    BY <2>1, <2>2 DEF Earned
<1>3. QED
  BY <1>1, <1>2

LEMMA ChoiceStart == ProductInit => ChoiceInv
BY DEF ProductInit, ChoiceInv, PlannedChanges

LEMMA ChoiceStep == ChoiceInv /\ [ProductNext]_productVars => ChoiceInv'
<1> SUFFICES ASSUME ChoiceInv, [ProductNext]_productVars PROVE ChoiceInv'
  OBVIOUS
<1>1. CASE ProposeAssignments
  <2>0. PICK size \in 0 .. MaxAssignments : \E proposal \in [1 .. size -> UserChoices] :
          /\ assignments' = proposal
          /\ chosen' = chosen \cup {proposal[n] : n \in 1 .. size}
          /\ UNCHANGED <<decisions, changes, plan>>
    BY <1>1 DEF ProposeAssignments
  <2>1. PICK proposal \in [1 .. size -> UserChoices] :
          /\ assignments' = proposal
          /\ chosen' = chosen \cup {proposal[n] : n \in 1 .. size}
          /\ UNCHANGED <<decisions, changes, plan>>
    BY <2>0
  <2>2. \A n \in DOMAIN assignments' : assignments'[n] \in chosen'
    BY <2>1
  <2>3. decisions' \subseteq chosen'
    BY <2>1 DEF ChoiceInv
  <2>4. chosen' \subseteq UserChoices /\ changes' \in Seq(Changes)
    BY <2>1 DEF ChoiceInv
  <2>5. \A n \in DOMAIN changes : Earned(changes[n])'
    BY <2>1, EarnedStays DEF ChoiceInv
  <2>6. \A c \in PlannedChanges : Earned(c)'
    BY <2>1, EarnedStays DEF ChoiceInv
  <2>7. PlannedChanges' = PlannedChanges
    BY <2>1 DEF PlannedChanges
  <2>8. QED
    BY <2>1, <2>2, <2>3, <2>4, <2>5, <2>6, <2>7 DEF ChoiceInv
<1>2. CASE Confirm
  BY <1>2 DEF Confirm, ChoiceInv, Earned, PlannedChanges
<1>3. CASE ProposeChange
  <2>1. PICK c : /\ c \in [setting : Settings, before : Values, after : Values,
                          source : Sources]
                 /\ SourceError(c) = "none"
                 /\ changes' = Append(changes, c)
                 /\ UNCHANGED <<assignments, decisions, plan, chosen>>
    BY <1>3 DEF ProposeChange, ChangeError
  <2>2. Earned(c)
    BY <2>1, SourceEarns DEF ChoiceInv, Sources
  <2>3. c \in Changes
    BY <2>1 DEF Changes, Sources, ChoiceInv
  <2>4. changes' \in Seq(Changes) /\ \A n \in DOMAIN changes' : Earned(changes'[n])
    BY <2>1, <2>2, <2>3 DEF ChoiceInv
  <2>5. QED
    BY <2>1, <2>4 DEF ChoiceInv, Earned, PlannedChanges
<1>4. CASE BuildPlan
  BY <1>4 DEF BuildPlan, ChoiceInv, Earned, PlannedChanges
<1>5. CASE UNCHANGED productVars
  BY <1>5 DEF productVars, ChoiceInv, Earned, PlannedChanges
<1>6. QED
  BY <1>1, <1>2, <1>3, <1>4, <1>5 DEF ProductNext

(* The program never invents a user's choice, whatever is proposed, in       *)
(* whatever order, and however long the plan.                                *)
THEOREM NoInventedChoice == ProductSpec => []ChoicesAreTheUsers
<1>1. ChoiceInv => ChoicesAreTheUsers
  BY DEF ChoiceInv, ChoicesAreTheUsers, Earned
<1>2. QED
  BY <1>1, ChoiceStart, ChoiceStep, PTL DEF ProductSpec
=============================================================================
