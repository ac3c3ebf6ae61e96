--------------------------- MODULE MCDeterminism ----------------------------
(***************************************************************************)
(* Determinism on schedules of up to two commands over three ticks, the    *)
(* last one checkpointed only because it is the last, and a fourth tick    *)
(* that no run reaches.  The Tick command lets a world run ahead of its    *)
(* schedule; a second CreateZone is refused.                               *)
(***************************************************************************)
EXTENDS Determinism

MCCommands ==
  {[op |-> "Tick"],
   [op |-> "SpawnEntity", kind |-> "Resource", zone |-> ORIGIN, amount |-> 1, health |-> None],
   [op |-> "SpawnEntity", kind |-> "Creature", zone |-> ORIGIN, amount |-> None, health |-> 1],
   [op |-> "CreateZone", zone |-> 1, name |-> "Mine"]}

MCInputTicks == {0, 2, 3}

MCDepletionHits   == {1, 3, 5, 6, 8, 10, 12, 15}
MCDegradationHits == {1, 5, 8, 12}

MCNameBytes == [Origin |-> <<79, 114, 105, 103, 105, 110>>, Mine |-> <<77, 105, 110, 101>>]

MCZoneNames == {"Origin", "Mine"}

=============================================================================
