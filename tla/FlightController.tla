------------------------- MODULE FlightController --------------------------
(***************************************************************************)
(* The flight controllers the engine talks to, as crates/mock-fc builds    *)
(* one: a beeper configuration in RAM, another in EEPROM, and an identity.  *)
(* SET writes the flags of RAM only, EEPROM_WRITE commits RAM, REBOOT       *)
(* reloads RAM.  `link` says whether the engine's open handle still reaches *)
(* the unit on the bench.                                                  *)
(***************************************************************************)
EXTENDS FiniteSets

CONSTANTS
  Units,    \* composite identities of the boards that can be plugged in
  Rest,     \* values of the 31 flag bits outside BEEPER_SYSTEM_INIT
  Dshot,    \* values of the DShot fields, which no command writes
  EditKinds \* how another tool may leave its edit: {"saved", "unsaved"}

VARIABLES
  board,    \* the unit plugged in now
  link,     \* our transport is open and reaches it
  ram,      \* unit -> configuration in RAM
  eeprom    \* unit -> configuration in EEPROM

deviceVars == <<board, link, ram, eeprom>>

(* A nine-byte snapshot: the SYSTEM_INIT off bit, the other flags, DShot.    *)
Snapshots == [init : BOOLEAN, rest : Rest, dshot : Dshot]

DeviceTypeOK ==
  /\ board \in Units
  /\ link \in BOOLEAN
  /\ ram \in [Units -> Snapshots]
  /\ eeprom \in [Units -> Snapshots]

(* `MockFc::new`: power-on state, RAM loaded from EEPROM. *)
DeviceInit ==
  /\ board \in Units
  /\ link = FALSE
  /\ eeprom \in [Units -> Snapshots]
  /\ ram = eeprom

-----------------------------------------------------------------------------
(* `MockFc::handle`, one effect per command that changes the device.        *)

(* Mutant: the four bytes land on the DShot fields. *)
SetFlagsShifted(value) ==
  /\ ram' = [ram EXCEPT ![board].dshot = value.rest]
  /\ UNCHANGED eeprom

(* The four-byte SET replaces all 32 flag bits and never the DShot fields.   *)
SetFlags(value) ==
  /\ ram' = [ram EXCEPT ![board] = [value EXCEPT !.dshot = ram[board].dshot]]
  /\ UNCHANGED eeprom

SaveEeprom ==
  /\ eeprom' = [eeprom EXCEPT ![board] = ram[board]]
  /\ UNCHANGED ram

Restart ==
  /\ ram' = [ram EXCEPT ![board] = eeprom[board]]
  /\ UNCHANGED eeprom

(* Nothing happened on the device: the request never arrived, or it was      *)
(* NACKed (an armed controller refuses EEPROM_WRITE).                        *)
NoEffect == UNCHANGED <<ram, eeprom>>

-----------------------------------------------------------------------------
(* What happens to a controller without the engine: external to src/, taken  *)
(* from the failure scenarios its tests simulate.                            *)

(* Power loss: RAM is reloaded, and the adapter may keep the port open.      *)
PowerCycle == Restart /\ UNCHANGED <<board, link>>

(* The cable is pulled and a unit, the same or another, is plugged in: the   *)
(* open handle is stale until it is opened again.                            *)
Replug(u) ==
  /\ board' = u
  /\ link' = FALSE
  /\ ram' = [ram EXCEPT ![u] = eeprom[u]]
  /\ UNCHANGED eeprom

(* While we do not hold the port another tool rewrites the configuration,    *)
(* saving it or leaving it in RAM.                                           *)
OtherTool(value, kind) ==
  /\ kind \in EditKinds
  /\ ram' = [ram EXCEPT ![board] = value]
  /\ eeprom' = IF kind = "saved" THEN [eeprom EXCEPT ![board] = value] ELSE eeprom
  /\ UNCHANGED <<board, link>>
=============================================================================
