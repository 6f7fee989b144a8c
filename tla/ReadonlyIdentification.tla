----------------------- MODULE ReadonlyIdentification -----------------------
(***************************************************************************)
(* `ReadonlyIdentification` of crates/execution: the four-read identity     *)
(* sequence that the native executor and the browser bridge both run. Its   *)
(* state is a record; each method is an operator that returns the new state *)
(* and what the method returned. A reply's payload is abstracted to what    *)
(* its typed decoder makes of it (see MspPayload).                          *)
(***************************************************************************)
EXTENDS Correlator

Stages == <<"ApiVersion", "FcVariant", "FcVersion", "BoardInfo">>

Known ==
  ToSet(Stages) \cup {"Reboot", "BeeperConfig", "SetBeeperConfig", "EepromWrite"}

Directions == {"Request", "Reply", "Error"}

(* What a decoder can find in the reply to each identity read: the pinned   *)
(* values of the M1 scope, other well-formed values, or no valid payload.   *)
Contents ==
  [ApiVersion |-> {"api146", "api147", "otherApi", "otherProtocol", "unreadable"},
   FcVariant  |-> {"BTFL", "otherVariant", "unreadable"},
   FcVersion  |-> {"pinned", "otherVersion", "unreadable"},
   BoardInfo  |-> {"pinned", "otherTarget", "unreadable"}]

Profiles == {"legacy", "calendar"}

Identifications ==
  [stage : ToSet(Stages) \cup {"Complete"}, pending : BOOLEAN,
   correlator : [outstanding : Seq(Known), last : Known \cup {None}],
   profile : Profiles \cup {None}, variant : {"BTFL", None},
   version : {"pinned", "otherVersion", None}]

NewIdentification ==
  [stage |-> "ApiVersion", pending |-> FALSE, correlator |-> NewCorrelator,
   profile |-> None, variant |-> None, version |-> None]

(* `next_request` refuses while a reply is awaited and after the end. *)
CanRequest(i) == ~i.pending /\ i.stage # "Complete"

(* The request is for the stage's own command, with an empty payload. *)
Requested(i) ==
  [i EXCEPT !.pending = TRUE, !.correlator = OnRequest(@, i.stage)]

(* Why `accept_response` refuses a frame before it decodes it, in order. *)
ResponseRefusal(i, f) ==
  IF ~i.pending THEN "NoIdentificationRequestPending"
  ELSE IF f.direction = "Request" THEN "ReplyDirectionInvalid"
  ELSE IF i.stage = "Complete" THEN "IdentificationAlreadyComplete"
  ELSE IF f.command \notin Known THEN "ReplyCommandMismatch"
  ELSE IF ReplyClass(i.correlator, f.command) # "Expected" THEN "ReplyMisclassified"
  ELSE IF f.command # i.stage THEN "ReplyCommandMismatch"
  ELSE IF f.direction = "Error" THEN "ErrorReply"
  ELSE "none"

(* A refused frame may still have been correlated. *)
AfterRefusal(i, f) ==
  IF ResponseRefusal(i, f) \in {"ReplyCommandMismatch", "ErrorReply"} /\ f.command \in Known
    THEN [i EXCEPT !.correlator = OnReply(@, f.command)]
    ELSE i

Progressed(i, result) == [i |-> i, result |-> result]

Failing(error) == [kind |-> "error", error |-> error]

(* `classify_readonly_api_profile`: the two reviewed read profiles. *)
ProfileOf == [api146 |-> "legacy", api147 |-> "calendar"]

AcceptApi(i, content) ==
  IF content \in DOMAIN ProfileOf
    THEN Progressed([i EXCEPT !.profile = ProfileOf[content], !.stage = "FcVariant"],
                    [kind |-> "pending"])
    ELSE Progressed([i EXCEPT !.stage = "Complete"],
                    [kind |-> "apiScopeMismatch",
                     field |-> IF content = "otherProtocol" THEN "protocol_version"
                               ELSE "msp_api_version"])

(* Mutant: the firmware-family gate is only applied to the legacy profile. *)
AcceptVariantUngated(i, content) ==
  IF content = "BTFL" \/ i.profile = "calendar"
    THEN Progressed([i EXCEPT !.variant = "BTFL", !.stage = "FcVersion"],
                    [kind |-> "pending"])
    ELSE Progressed([i EXCEPT !.profile = None, !.stage = "Complete"],
                    [kind |-> "readProfileMismatch", field |-> "fc_variant"])

AcceptVariant(i, content) ==
  IF i.profile = None THEN Progressed(i, Failing("NoIdentificationRequestPending"))
  ELSE IF content = "BTFL"
    THEN Progressed([i EXCEPT !.variant = "BTFL", !.stage = "FcVersion"],
                    [kind |-> "pending"])
    ELSE Progressed([i EXCEPT !.profile = None, !.stage = "Complete"],
                    [kind |-> "readProfileMismatch", field |-> "fc_variant"])

AcceptVersion(i, content) ==
  IF None \in {i.profile, i.variant}
    THEN Progressed(i, Failing("NoIdentificationRequestPending"))
    ELSE Progressed([i EXCEPT !.version = content, !.stage = "BoardInfo"],
                    [kind |-> "pending"])

(* The facts are taken out; the profile decides which kind of identity they  *)
(* make, and only the legacy one may later meet the M1 write scope.         *)
AcceptBoard(i, content) ==
  IF None \in {i.profile, i.variant, i.version}
    THEN Progressed(i, Failing("NoIdentificationRequestPending"))
    ELSE Progressed(
           [i EXCEPT !.profile = None, !.variant = None, !.version = None,
                     !.stage = "Complete"],
           [kind |-> IF i.profile = "legacy" THEN "complete" ELSE "readOnlyComplete",
            version |-> i.version, board |-> content])

(* `accept_response`: the request is answered before its payload is decoded, *)
(* so an unreadable payload leaves the stage but no request behind.         *)
AcceptResponse(i, f) ==
  IF ResponseRefusal(i, f) # "none"
    THEN Progressed(AfterRefusal(i, f), Failing(ResponseRefusal(i, f)))
    ELSE LET answered == [i EXCEPT !.pending = FALSE,
                                   !.correlator = OnReply(@, f.command)]
         IN  CASE f.content = "unreadable" -> Progressed(answered, Failing("Payload"))
               [] f.content # "unreadable" /\ i.stage = "ApiVersion" ->
                    AcceptApi(answered, f.content)
               [] f.content # "unreadable" /\ i.stage = "FcVariant" ->
                    AcceptVariant(answered, f.content)
               [] f.content # "unreadable" /\ i.stage = "FcVersion" ->
                    AcceptVersion(answered, f.content)
               [] f.content # "unreadable" /\ i.stage = "BoardInfo" ->
                    AcceptBoard(answered, f.content)

(* Mutant: the target is not compared. *)
ScopeFieldVersionOnly(identity) ==
  IF identity.version # "pinned" THEN "fc_version" ELSE "none"

(* `check_scope` of crates/core-api for an identity of the legacy profile:  *)
(* the first field that differs from the pinned target, if any.             *)
ScopeField(identity) ==
  IF identity.version # "pinned" THEN "fc_version"
  ELSE IF identity.board # "pinned" THEN "target_name" ELSE "none"
=============================================================================
