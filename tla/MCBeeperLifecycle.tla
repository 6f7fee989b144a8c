------------------------- MODULE MCBeeperLifecycle -------------------------
(***************************************************************************)
(* The lifecycle engine for TLC.  The configurations give the constants     *)
(* their values: fc and other are boards, r0 and r1 values of the flag bits *)
(* outside BEEPER_SYSTEM_INIT, d0 and d1 values of the DShot fields.        *)
(***************************************************************************)
EXTENDS BeeperLifecycle
=============================================================================
