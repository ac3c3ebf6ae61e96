----------------------------- MODULE WorldState -----------------------------
(***************************************************************************)
(* The simulated world as a value (sy_core, world.rs): its clock, its RNG  *)
(* state, its entities and its zones, each zone with an index of the       *)
(* entities in it, and the operations that keep them together.             *)
(*                                                                         *)
(* An entity's position is abstracted to its zone, names other than a      *)
(* zone's are left out, and so is sim_time, which the code always sets to  *)
(* SimTime::from_ticks of the tick it sets in the same statement.          *)
(***************************************************************************)
EXTENDS Integers, SequencesExt

CONSTANTS
  None,      \* Rust's Option::None, and the absence of a world
  ZoneNames  \* the names zones are given

EntityKind  == {"Resource", "Creature", "Item", "Structure"}
EntityState == {"Active", "Dormant", "Dead"}

Entity ==
  [kind : EntityKind, state : EntityState, zone : Nat, created : Nat,
   amount : Nat \cup {None}, health : Nat \cup {None}]

ASSUME NoneAssumption == None \notin Nat
ASSUME NamesAssumption == "Origin" \in ZoneNames

ORIGIN == 0

-----------------------------------------------------------------------------
Put(f, key, value) ==
  [k \in DOMAIN f \cup {key} |-> IF k = key THEN value ELSE f[k]]

\* An empty zone; zones are created loaded.
NewZone(name) == [name |-> name, loaded |-> TRUE, entities |-> << >>]

(***************************************************************************)
(* A world: WorldMeta's stamps (metaTick, snapTick, cursor: the tick it    *)
(* mirrors, the tick and the last event id of the last save), then the     *)
(* simulation's own state.                                                 *)
(***************************************************************************)
NewWorld(seed) ==
  [metaTick |-> 0, snapTick |-> 0, cursor |-> 0,
   seed |-> seed, tick |-> 0, rng |-> seed, nextId |-> 1,
   entities |-> << >>,
   zones |-> [z \in {ORIGIN} |-> NewZone("Origin")]]

HasZone(w, z) == z \in DOMAIN w.zones
HasEntity(w, id) == id \in DOMAIN w.entities
InZone(w, z, id) == Contains(w.zones[z].entities, id)

ActiveIds(w) == {id \in DOMAIN w.entities : w.entities[id].state = "Active"}
DeadIds(w)   == {id \in DOMAIN w.entities : w.entities[id].state = "Dead"}

-----------------------------------------------------------------------------
EnterZone(w, z, id) ==
  IF HasZone(w, z) /\ ~InZone(w, z, id)
    THEN [w EXCEPT !.zones[z].entities = Append(@, id)]
    ELSE w

\* The index without one id, the others in their order.
Without(index, id) ==
  LET kept[i \in 0..Len(index)] ==
        IF i = 0 THEN << >>
        ELSE IF index[i] = id THEN kept[i - 1]
        ELSE Append(kept[i - 1], index[i])
  IN  kept[Len(index)]

LeaveZone(w, z, id) ==
  IF HasZone(w, z)
    THEN [w EXCEPT !.zones[z].entities = Without(@, id)]
    ELSE w

NewEntity(kind, zone, tick, amount, health) ==
  [kind |-> kind, state |-> "Active", zone |-> zone, created |-> tick,
   amount |-> amount, health |-> health]

AddEntity(w, id, entity) ==
  EnterZone([w EXCEPT !.entities = Put(@, id, entity)], entity.zone, id)

\* Mutant of RemoveEntity: the zone keeps the id.
RemoveFromMapOnly(w, id) ==
  [w EXCEPT !.entities = Restrict(@, DOMAIN @ \ {id})]

RemoveEntity(w, id) ==
  LeaveZone([w EXCEPT !.entities = Restrict(@, DOMAIN @ \ {id})],
            w.entities[id].zone, id)

AddZone(w, z, name) == [w EXCEPT !.zones = Put(@, z, NewZone(name))]

AdvanceTick(w) == [w EXCEPT !.tick = @ + 1, !.metaTick = w.tick + 1]

=============================================================================
