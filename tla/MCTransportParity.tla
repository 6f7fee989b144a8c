------------------------- MODULE MCTransportParity -------------------------
EXTENDS TransportParity

MCFlags == {"quiet"}

MCRecoveries ==
  {"RestoreFromBackupSupported", "ManualRecoveryRequired"}

MCStates == {"Recovering"}

NoFaults == [call \in {} |-> "Timeout"]

Mock(armed, schedule) == NewSim("Mock", PowerOn("loud", armed), schedule, <<>>)

Step(command, payload, response) ==
  [expected |-> RequestFrame(command, payload), response |-> response]

Replay(steps) == NewSim("Replay", PowerOn("loud", FALSE), NoFaults, steps)

(* Identification, then a write whose ack is wrong, and one that times out. *)
Identified ==
  [stage \in 1 .. 4 |->
     Step(Stages[stage], <<>>, Reply("Reply", Stages[stage], IdentityOf[Stages[stage]]))]

Healthy == Mock(FALSE, NoFaults)

Faulty ==
  Mock(FALSE, [call \in {0, 1} |-> IF call = 0 THEN "BadChecksum" ELSE "Disconnected"])

Armed == Mock(TRUE, [call \in {0} |-> "CorruptFrame"])

Recorded ==
  Replay(<<Step("BeeperConfig", <<>>, Reply("Reply", "ApiVersion", "api146")),
           Step("SetBeeperConfig", FlagBytes("quiet"),
                Reply("Reply", "SetBeeperConfig", "quiet")),
           Step("EepromWrite", <<>>, Err("Timeout")),
           Step("Reboot", <<>>, Reply("Request", "Reboot", "empty"))>>)

RecordedIdentity == Replay(Identified)

World(sim, executor, effect, host) ==
  [sim |-> sim, targets |-> [executor |-> executor, effect |-> effect, host |-> host]]

WiredTo(sim) == World(sim, sim.kind, sim.kind, sim.kind)

(* Well wired; the host, or all layers, told of another simulation; and a    *)
(* hardware target, which no executor accepts.                              *)
MCWorlds ==
  {WiredTo(sim) : sim \in {Healthy, Faulty, Armed, Recorded, RecordedIdentity}}
  \cup {World(Armed, "Mock", "Mock", "Replay"),
        World(Armed, "Replay", "Replay", "Replay"),
        World(Recorded, "Hardware", "Hardware", "Hardware")}
=============================================================================
