-------------------------- MODULE ReplayedLog_proofs --------------------------
(***************************************************************************)
(* Proof about the replay of any log: what it makes can be saved and       *)
(* loaded again.                                                           *)
(***************************************************************************)
EXTENDS ReplayedLog, Kernel_proofs

LEMMA EventsHaveTypes ==
  ASSUME WorldFrom(0, world), NEW e \in Events
  PROVE  EventFields(0, e)
<1>1. \A t \in Ticks : t \in Nat
  BY DEF Ticks, WorldFrom, IsWorld
<1>2. \A id \in Ids : id \in Nat /\ 0 <= id
  BY ValuesAssumption DEF Ids
<1>3. \A z \in Zones : z \in Nat
  BY ValuesAssumption
<1>4. (\A x \in Values : x \in Nat) /\ U32 \in Nat
  BY ValuesAssumption, U32Assumption
<1>5. CASE e \in [type : {"WorldCreated"}, tick : Ticks, seed : {Seed, Seed + 1}]
  BY <1>1, <1>5 DEF EventFields, EventTypes
<1>6. CASE e \in [type : {"WorldLoaded", "WorldSaved"}, tick : Ticks, at : Ticks]
  BY <1>1, <1>6 DEF EventFields, EventTypes
<1>7. CASE e \in [type : {"TickProcessed"}, tick : Ticks, at : Ticks, rng : {7, None}]
  BY <1>1, <1>7 DEF EventFields, EventTypes
<1>8. CASE e \in [type : {"ZoneCreated"}, tick : Ticks, zone : Zones, name : ZoneNames]
  BY <1>1, <1>3, <1>8 DEF EventFields, EventTypes
<1>9. CASE e \in [type : {"ZoneLoaded", "ZoneUnloaded"}, tick : Ticks, zone : Zones]
  BY <1>1, <1>9 DEF EventFields, EventTypes
<1>10. CASE e \in [type : {"EntitySpawned"}, tick : Ticks, id : Ids, kind : {"Resource"},
                   zone : Zones, amount : {1, None}, health : {None}]
  <2>1. NewEntity(e.kind, e.zone, e.tick, e.amount, e.health) \in Entity
    BY <1>1, <1>3, <1>10 DEF NewEntity, Entity, EntityKind, EntityState
  <2> QED
    BY <1>1, <1>2, <1>10, <2>1 DEF EventFields, EventTypes
<1>11. CASE e \in [type : {"EntitySpawned"}, tick : Ticks, id : Ids, kind : {"Creature"},
                   zone : Zones, amount : {None}, health : {1}]
  <2>1. NewEntity(e.kind, e.zone, e.tick, e.amount, e.health) \in Entity
    BY <1>1, <1>3, <1>11 DEF NewEntity, Entity, EntityKind, EntityState
  <2> QED
    BY <1>1, <1>2, <1>11, <2>1 DEF EventFields, EventTypes
<1>12. CASE e \in [type : {"EntityDespawned"}, tick : Ticks, id : Ids]
  BY <1>1, <1>12 DEF EventFields, EventTypes, OnEntity
<1>13. CASE e \in [type : {"EntityMoved"}, tick : Ticks, id : Ids, from : Zones, to : Zones]
  BY <1>1, <1>3, <1>13 DEF EventFields, EventTypes, OnEntity
<1>14. CASE e \in [type : {"EntityStateChanged"}, tick : Ticks, id : Ids,
                   old : {"Active", "Dead"}, new : {"Dead"}]
  BY <1>1, <1>14 DEF EventFields, EventTypes, OnEntity, EntityState
<1>15. CASE e \in [type : {"EntityPropertyChanged"}, tick : Ticks, id : Ids,
                   property : {"amount", "health"}, old : Values, new : Values \cup {U32}]
  BY <1>1, <1>4, <1>15 DEF EventFields, EventTypes, OnEntity
<1>16. CASE e \in [type : {"ResourceDepleted"}, tick : Ticks, id : Ids,
                   amount : Values, remaining : Values]
  BY <1>1, <1>4, <1>16 DEF EventFields, EventTypes, OnEntity
<1>17. CASE e \in [type : {"EntityDegraded"}, tick : Ticks, id : Ids, old : Values, new : Values]
  BY <1>1, <1>4, <1>17 DEF EventFields, EventTypes, OnEntity
<1> QED
  BY <1>5, <1>6, <1>7, <1>8, <1>9, <1>10, <1>11, <1>12, <1>13, <1>14, <1>15, <1>16, <1>17
  DEF Events

\* Ids from 0 on, with no entity of id 0, are ids from 1 on.
LEMMA WithoutReservedId ==
  ASSUME NEW w, WorldFrom(0, w), ~HasEntity(w, 0)
  PROVE  WorldInv(w)
<1>1. Placed(1, w)
  <2> SUFFICES ASSUME NEW id \in DOMAIN w.entities PROVE 1 <= id
    BY DEF WorldFrom, Placed
  <2>1. id \in Nat /\ id # 0
    BY DEF WorldFrom, Placed, HasEntity
  <2> QED
    BY <2>1
<1> QED
  BY <1>1 DEF WorldInv, WorldFrom

(***************************************************************************)
(* Whatever events replay accepts, of any types, in any order and of any   *)
(* entity ids but u64::MAX, the world they make can be saved and loaded    *)
(* again if and only if it has no entity of the reserved id 0: every check *)
(* of decode_world on entities and zones but that one follows from those   *)
(* of apply_event and from what it does.                                   *)
(***************************************************************************)
THEOREM ReplayStaysDecodable == Spec => []ReplayKeepsSnapshotsValid
<1>1. Init => WorldFrom(0, world)
  BY NewWorldIsValid DEF Init
<1>2. WorldFrom(0, world) /\ [Next]_world => WorldFrom(0, world)'
  <2> SUFFICES ASSUME WorldFrom(0, world), [Next]_world PROVE WorldFrom(0, world')
    OBVIOUS
  <2>1. CASE Next
    <3>1. PICK e \in Events : Accepts(world, e) /\ world' = Effect(world, e)
      BY <2>1 DEF Next, Replayed
    <3>2. EventFields(0, e)
      BY EventsHaveTypes
    <3> QED
      BY <3>1, <3>2, EffectKeeps
  <2>2. CASE UNCHANGED world
    BY <2>2
  <2> QED
    BY <2>1, <2>2
<1>3. WorldFrom(0, world) => ReplayKeepsSnapshotsValid
  <2> SUFFICES ASSUME WorldFrom(0, world) PROVE ReplayKeepsSnapshotsValid
    OBVIOUS
  <2> DEFINE saved == Stamped(world, 0)
  <2>1. /\ WorldFrom(0, saved) /\ saved.snapTick = saved.tick
        /\ saved.entities = world.entities
    BY StampsKeep
  <2> HIDE DEF saved
  <2>2. ASSUME ~HasEntity(world, 0) PROVE ValidSnapshot(saved)
    <3>1. WorldInv(saved)
      BY <2>1, <2>2, WithoutReservedId DEF HasEntity
    <3> QED
      BY <2>1, <3>1, ValidWorldsDecode
  <2>3. ASSUME HasEntity(world, 0) PROVE ~ValidSnapshot(saved)
    BY <2>1, <2>3 DEF ValidSnapshot, ValidEntityIds, HasEntity
  <2> QED
    BY <2>2, <2>3 DEF ReplayKeepsSnapshotsValid, WorldFrom, saved
<1> QED
  BY <1>1, <1>2, <1>3, PTL DEF Spec

=============================================================================
