------------------------------- MODULE Replay -------------------------------
(***************************************************************************)
(* Event replay (sy_core, replay.rs): the events a world's log can hold,   *)
(* which of them apply_event accepts in a given world, and the world it    *)
(* makes of them.  apply_event works on a clone and installs it only when  *)
(* the event was accepted, so a refused event has no effect.               *)
(***************************************************************************)
EXTENDS WorldState

CONSTANT U32  \* 2^32 in the code: the width an amount or a health is cut to

ASSUME U32Assumption == U32 \in Nat \ {0}

\* Events about an entity that must exist.
OnEntity ==
  {"EntityDespawned", "EntityMoved", "EntityStateChanged",
   "EntityPropertyChanged", "ResourceDepleted", "EntityDegraded"}

-----------------------------------------------------------------------------
(***************************************************************************)
(* The checks.  An event happens at the world's tick or opens the next.    *)
(***************************************************************************)
InTime(w, e) ==
  /\ e.type \in {"WorldLoaded", "WorldSaved"} => e.tick = w.tick /\ e.at = w.tick
  /\ e.type = "TickProcessed" => e.rng # None /\ e.at = e.tick
  /\ e.tick \in {w.tick, w.tick + 1}

\* The world a log starts with is the one it is replayed into.
CreatedFits(w, e) == e.type = "WorldCreated" => e.seed = w.seed

\* A zone may be announced again as long as it is as new.
ZoneFits(w, e) ==
  /\ e.type = "ZoneCreated" /\ HasZone(w, e.zone) =>
       w.zones[e.zone] = NewZone(e.name)
  /\ e.type \in {"ZoneLoaded", "ZoneUnloaded"} => HasZone(w, e.zone)

SpawnAgrees(w, e) ==
  LET old == w.entities[e.id]
  IN  /\ old = NewEntity(e.kind, e.zone, e.tick, e.amount, e.health)
      /\ InZone(w, e.zone, e.id)

SpawnFits(w, e) ==
  e.type = "EntitySpawned" =>
    /\ HasZone(w, e.zone)
    /\ HasEntity(w, e.id) => SpawnAgrees(w, e)

MoveFits(w, e) ==
  e.type = "EntityMoved" =>
    /\ w.entities[e.id].zone = e.from
    /\ HasZone(w, e.from) /\ HasZone(w, e.to)
    /\ InZone(w, e.from, e.id)

\* Changes carry the value they replace.
StateFits(w, e) ==
  e.type = "EntityStateChanged" => w.entities[e.id].state = e.old

\* Amount or health.  `name` is left out of the model, with its events; an
\* event about any other property is refused.
PropertyValue(entity, property) == entity[property]

PropertyFits(w, e) ==
  e.type = "EntityPropertyChanged" =>
    /\ PropertyValue(w.entities[e.id], e.property) = e.old
    /\ e.new \in Nat

DepletionFits(w, e) ==
  e.type = "ResourceDepleted" =>
    /\ w.entities[e.id].amount # None
    /\ w.entities[e.id].amount = e.remaining + e.amount

DegradationFits(w, e) ==
  e.type = "EntityDegraded" =>
    w.entities[e.id].health # None /\ w.entities[e.id].health = e.old

Fits(w, e) ==
  /\ e.type \in OnEntity => HasEntity(w, e.id)
  /\ CreatedFits(w, e) /\ ZoneFits(w, e)
  /\ SpawnFits(w, e) /\ MoveFits(w, e)
  /\ StateFits(w, e) /\ PropertyFits(w, e)
  /\ DepletionFits(w, e) /\ DegradationFits(w, e)

Accepts(w, e) == InTime(w, e) /\ Fits(w, e)

-----------------------------------------------------------------------------
(***************************************************************************)
(* The effects.                                                            *)
(***************************************************************************)
AtTick(w, tick) ==
  IF tick > w.tick THEN [w EXCEPT !.tick = tick, !.metaTick = tick] ELSE w

AnnounceZone(w, e) == IF HasZone(w, e.zone) THEN w ELSE AddZone(w, e.zone, e.name)

SetLoaded(w, e) == [w EXCEPT !.zones[e.zone].loaded = (e.type = "ZoneLoaded")]

\* Mutant of Spawn: next_entity_id stays.
SpawnOnly(w, e) ==
  AddEntity(w, e.id, NewEntity(e.kind, e.zone, e.tick, e.amount, e.health))

Spawn(w, e) ==
  LET raised == [w EXCEPT !.nextId = IF e.id >= @ THEN e.id + 1 ELSE @]
  IN  AddEntity(raised, e.id, NewEntity(e.kind, e.zone, e.tick, e.amount, e.health))

\* Mutant of Move: the index of the zone it leaves is forgotten.
MoveIntoOnly(w, e) == [EnterZone(w, e.to, e.id) EXCEPT !.entities[e.id].zone = e.to]

Move(w, e) ==
  LET indexed == IF e.from = e.to THEN w
                 ELSE EnterZone(LeaveZone(w, e.from, e.id), e.to, e.id)
  IN  [indexed EXCEPT !.entities[e.id].zone = e.to]

\* Mutant of Restored: rng_state_after is dropped.
ForgetRng(w, e) == w

Restored(w, e) == [w EXCEPT !.rng = e.rng]

ChangeState(w, e) == [w EXCEPT !.entities[e.id].state = e.new]

\* A property's new value comes as 64 bits and is cut to 32.
ChangeProperty(w, e) == [w EXCEPT !.entities[e.id][e.property] = e.new % U32]

Deplete(w, e) == [w EXCEPT !.entities[e.id].amount = e.remaining]

Degrade(w, e) == [w EXCEPT !.entities[e.id].health = e.new]

Effect(w, e) ==
  LET v == AtTick(w, e.tick)
  IN  CASE e.type \in {"WorldCreated", "WorldLoaded", "WorldSaved"} -> v
        [] e.type = "TickProcessed"                   -> Restored(v, e)
        [] e.type = "ZoneCreated"                     -> AnnounceZone(v, e)
        [] e.type \in {"ZoneLoaded", "ZoneUnloaded"}  -> SetLoaded(v, e)
        [] e.type = "EntitySpawned"         -> IF HasEntity(v, e.id) THEN v ELSE Spawn(v, e)
        [] e.type = "EntityDespawned"       -> RemoveEntity(v, e.id)
        [] e.type = "EntityMoved"           -> Move(v, e)
        [] e.type = "EntityStateChanged"    -> ChangeState(v, e)
        [] e.type = "EntityPropertyChanged" -> ChangeProperty(v, e)
        [] e.type = "ResourceDepleted"      -> Deplete(v, e)
        [] e.type = "EntityDegraded"        -> Degrade(v, e)

ApplyEvent(w, e) == IF w # None /\ Accepts(w, e) THEN Effect(w, e) ELSE None

\* replay_events: the world after every event, None when one was refused.
ReplayEvents(w, events) ==
  LET after[i \in 0..Len(events)] ==
        IF i = 0 THEN w ELSE ApplyEvent(after[i - 1], events[i])
  IN  after[Len(events)]

=============================================================================
