---------------------------- MODULE IdentityRead ----------------------------
(***************************************************************************)
(* What the read-only path promises its user: an attempt ends, and it ends  *)
(* with the truth about the connected board or with a failure, never with   *)
(* something in between.                                                    *)
(***************************************************************************)
CONSTANT NoVerdict

VARIABLES
  truth,    \* the verdict an undisturbed read of the connected board gives
  reading,  \* an attempt is running
  verdict   \* what the last attempt showed

readVars == <<truth, reading, verdict>>

GivenUp == {"failed", "cancelled"}

ReadInit == reading = FALSE /\ verdict = NoVerdict

Start ==
  /\ ~reading
  /\ reading' = TRUE
  /\ verdict' = NoVerdict
  /\ UNCHANGED truth

End ==
  /\ reading
  /\ reading' = FALSE
  /\ verdict' \in {truth} \cup GivenUp
  /\ UNCHANGED truth

ReadSafety == ReadInit /\ [][Start \/ End]_readVars

ReadSpec == ReadSafety /\ WF_readVars(End)
=============================================================================
