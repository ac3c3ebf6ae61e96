----------------------- MODULE MCJournaledSimulation ------------------------
(***************************************************************************)
(* JournaledSimulation on a four-bit RNG (the low bits of PCG32's state    *)
(* are this very generator: 13 is its multiplier modulo 16), with commands *)
(* that are refused among those that are not.                              *)
(***************************************************************************)
EXTENDS JournaledSimulation

SpawnCommand(kind, zone, amount, health) ==
  [op |-> "SpawnEntity", kind |-> kind, zone |-> zone, amount |-> amount, health |-> health]

MCCommands ==
  {[op |-> "CreateWorld", seed |-> 5], [op |-> "Tick"],
   [op |-> "TickN", n |-> 0], [op |-> "TickN", n |-> 2], [op |-> "TickN", n |-> 3],
   SpawnCommand("Resource", ORIGIN, 1, None), SpawnCommand("Resource", 1, 2, None),
   SpawnCommand("Creature", ORIGIN, None, 1),
   [op |-> "DespawnEntity", id |-> 1],
   [op |-> "CreateZone", zone |-> 1, name |-> "Mine"]}

MCDepletionHits   == {1, 3, 5, 6, 8, 10, 12, 15}
MCDegradationHits == {1, 5, 8, 12}

MCZoneNames == {"Origin", "Mine"}

=============================================================================
