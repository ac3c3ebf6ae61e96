---------------------------- MODULE ReplayedLog -----------------------------
(***************************************************************************)
(* Replay of any log, not only of those the present kernel writes: every   *)
(* event type the API declares (six of them no command emits yet), in any  *)
(* order, right or wrong for the world it meets.                           *)
(***************************************************************************)
EXTENDS Replay, SnapshotCodec

CONSTANTS
  Seed,
  MaxTick,     \* bound on the world's tick
  U64,         \* 2^64 in the code: the number of entity ids
  Zones,       \* the zones events speak of
  Values       \* the amounts and healths events carry

ASSUME ValuesAssumption ==
  /\ MaxTick \in Nat /\ U64 \in Nat
  /\ Zones \subseteq Nat /\ Values \subseteq Nat

VARIABLE world

(***************************************************************************)
(* The events that can follow: about any tick around the world's own, any  *)
(* zone, any entity, any values.  The ids are those of EntityId, with the  *)
(* reserved 0 (EntityId::INVALID) but without the last, u64::MAX: its      *)
(* spawn overflows next_entity_id.                                         *)
(***************************************************************************)
Ticks == {t \in (world.tick - 1)..(world.tick + 2) : 0 <= t /\ t <= MaxTick}
Ids   == 0..(U64 - 2)

Events ==
       [type : {"WorldCreated"}, tick : Ticks, seed : {Seed, Seed + 1}]
  \cup [type : {"WorldLoaded", "WorldSaved"}, tick : Ticks, at : Ticks]
  \cup [type : {"TickProcessed"}, tick : Ticks, at : Ticks, rng : {7, None}]
  \cup [type : {"ZoneCreated"}, tick : Ticks, zone : Zones, name : ZoneNames]
  \cup [type : {"ZoneLoaded", "ZoneUnloaded"}, tick : Ticks, zone : Zones]
  \cup [type : {"EntitySpawned"}, tick : Ticks, id : Ids, kind : {"Resource"},
        zone : Zones, amount : {1, None}, health : {None}]
  \cup [type : {"EntitySpawned"}, tick : Ticks, id : Ids, kind : {"Creature"},
        zone : Zones, amount : {None}, health : {1}]
  \cup [type : {"EntityDespawned"}, tick : Ticks, id : Ids]
  \cup [type : {"EntityMoved"}, tick : Ticks, id : Ids, from : Zones, to : Zones]
  \cup [type : {"EntityStateChanged"}, tick : Ticks, id : Ids,
        old : {"Active", "Dead"}, new : {"Dead"}]
  \cup [type : {"EntityPropertyChanged"}, tick : Ticks, id : Ids,
        property : {"amount", "health"}, old : Values, new : Values \cup {U32}]
  \cup [type : {"ResourceDepleted"}, tick : Ticks, id : Ids,
        amount : Values, remaining : Values]
  \cup [type : {"EntityDegraded"}, tick : Ticks, id : Ids, old : Values, new : Values]

Init == world = NewWorld(Seed)

Replayed(e) == Accepts(world, e) /\ world' = Effect(world, e)

Next == \E e \in Events : Replayed(e)

Spec == Init /\ [][Next]_world

-----------------------------------------------------------------------------
(***************************************************************************)
(* The properties.                                                         *)
(***************************************************************************)
\* Replay has no check on an entity's id, though world.rs (sy_core) reserves 0
\* for INVALID; the snapshot codec has one.  That is the only way in which
\* accepted events make a world whose snapshot would not decode: a recovered
\* world can be saved and recovered again exactly when it has no entity of the
\* reserved id.
ReplayKeepsSnapshotsValid ==
  /\ ValidSnapshot(Stamped(world, 0)) <=> ~HasEntity(world, 0)
  /\ world.metaTick = world.tick

=============================================================================
