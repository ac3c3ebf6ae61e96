------------------------ MODULE JournaledSimulation -------------------------
(***************************************************************************)
(* The kernel under the persistent runtime, with the worlds and the events *)
(* in full: live mutation (Simulation) on one side, snapshot plus replay   *)
(* (SnapshotCodec, Replay) on the other, and the failures that switch from *)
(* the one to the other.  The log and the store keep here what             *)
(* PersistentSimulation shows they promise: a command's events enter the   *)
(* log together or not at all, an event's id is its place in the log, and  *)
(* a snapshot is replaced in one step.                                     *)
(*                                                                         *)
(* twin is a ghost: an engine that executed every journaled command, in    *)
(* order, and was never stopped, rolled back, saved or recovered.          *)
(***************************************************************************)
EXTENDS Simulation, SnapshotCodec, Replay, BatchShape

CONSTANTS
  Commands,  \* the commands callers issue
  MaxEvents  \* bound: no command is issued once the log has so many events

ASSUME CommandsAssumption == Commands \subseteq Command

VARIABLES pc, sim, journal, snapshot, twin

vars == <<pc, sim, journal, snapshot, twin>>

Init ==
  /\ pc = "down"
  /\ sim = NewEngine /\ twin = NewEngine
  /\ journal = << >>
  /\ snapshot = None

-----------------------------------------------------------------------------
Start ==
  /\ pc = "down"
  /\ pc' = "up"
  /\ sim' = NewEngine
  /\ UNCHANGED <<journal, snapshot, twin>>

Crash ==
  /\ pc # "down"
  /\ pc' = "down"
  /\ sim' = NewEngine
  /\ UNCHANGED <<journal, snapshot, twin>>

\* The events after the snapshot's cursor.
AfterCursor(w) == SubSeq(journal, w.cursor + 1, Len(journal))

LoadWorld ==
  /\ pc = "up"
  /\ snapshot # None /\ ValidSnapshot(snapshot)
  /\ LET recovered == ReplayEvents(snapshot, AfterCursor(snapshot))
     IN  /\ recovered # None
         /\ sim' = LoadWorldState(sim, recovered)
  /\ UNCHANGED <<pc, journal, snapshot, twin>>

-----------------------------------------------------------------------------
(***************************************************************************)
(* process_command of the persistent runtime.                              *)
(***************************************************************************)
Admitted(cmd) ==
  cmd.op = "CreateWorld" => journal = << >> /\ snapshot = None

RefuseCommand(cmd) ==
  /\ pc = "up" /\ Len(journal) < MaxEvents
  /\ ~Admitted(cmd) \/ ~Outcome(sim, cmd).ok
  /\ sim' = IF Admitted(cmd) THEN Outcome(sim, cmd).sim ELSE sim
  /\ UNCHANGED <<pc, journal, snapshot, twin>>

Execute(cmd) ==
  /\ pc = "up" /\ Len(journal) < MaxEvents
  /\ Admitted(cmd) /\ Outcome(sim, cmd).ok
  /\ UNCHANGED snapshot

Journal(cmd) ==
  /\ journal' = journal \o Outcome(sim, cmd).events
  /\ twin' = Outcome(twin, cmd).sim

Commit(cmd) ==
  /\ Execute(cmd)
  /\ Journal(cmd)
  /\ sim' = Outcome(sim, cmd).sim
  /\ UNCHANGED pc

(***************************************************************************)
(* The append failed before any byte was written (the record does not fit  *)
(* a WAL record, the file cannot be opened): the caller may go on.         *)
(***************************************************************************)
AppendFails(cmd) ==
  /\ Execute(cmd)
  /\ sim' = RestoreCheckpoint(Outcome(sim, cmd).sim, sim)
  /\ UNCHANGED <<pc, journal, twin>>

(***************************************************************************)
(* It failed after the record was in the file: server_d exits.             *)
(***************************************************************************)
AppendFailsLate(cmd) ==
  /\ Execute(cmd)
  /\ Journal(cmd)
  /\ sim' = RestoreCheckpoint(Outcome(sim, cmd).sim, sim)
  /\ pc' = "failed"

-----------------------------------------------------------------------------
\* save_world: the clone that was written replaces the live world.
SaveWorld ==
  /\ pc = "up" /\ sim.world # None
  /\ snapshot' = Stamped(sim.world, Len(journal))
  /\ sim' = LoadWorldState(sim, snapshot')
  /\ UNCHANGED <<pc, journal, twin>>

\* The snapshot was renamed, but not the meta: the save is an error.
SaveFailsLate ==
  /\ pc = "up" /\ sim.world # None
  /\ snapshot' = Stamped(sim.world, Len(journal))
  /\ pc' = "failed"
  /\ UNCHANGED <<sim, journal, twin>>

Next ==
  \/ Start \/ Crash \/ LoadWorld \/ SaveWorld \/ SaveFailsLate
  \/ \E cmd \in Commands :
       RefuseCommand(cmd) \/ Commit(cmd) \/ AppendFails(cmd) \/ AppendFailsLate(cmd)

Spec == Init /\ [][Next]_vars

-----------------------------------------------------------------------------
(***************************************************************************)
(* Properties.                                                             *)
(***************************************************************************)
WorldOK(w) ==
  /\ {w.metaTick, w.snapTick, w.cursor, w.seed, w.tick, w.rng, w.nextId} \subseteq Nat
  /\ w.rng < RngModulus
  /\ \A id \in DOMAIN w.entities : id \in Nat /\ w.entities[id] \in Entity
  /\ \A z \in DOMAIN w.zones :
       /\ z \in Nat /\ w.zones[z].loaded \in BOOLEAN
       /\ \A i \in DOMAIN w.zones[z].entities : w.zones[z].entities[i] \in Nat

\* The variables have their types.
TypeOK ==
  /\ pc \in {"down", "up", "failed"}
  /\ \A e \in {sim, twin} : /\ e.world # None => WorldOK(e.world)
                            /\ e.rng.state \in 0..(RngModulus - 1) /\ e.clock \in Nat
  /\ snapshot # None => WorldOK(snapshot)
  /\ \A i \in DOMAIN journal : journal[i].tick \in Nat

\* Equal up to what only a save writes.
SameWorld(v, w) ==
  [v EXCEPT !.snapTick = 0, !.cursor = 0] = [w EXCEPT !.snapTick = 0, !.cursor = 0]

\* Whatever was journaled, saved and interrupted, the snapshot decodes, replay
\* accepts every event after its cursor, and the world it gives is the one
\* live execution gave: entities, zone indexes, next id, RNG state and tick.
RecoveryParity ==
  snapshot # None =>
    /\ ValidSnapshot(snapshot)
    /\ LET recovered == ReplayEvents(snapshot, AfterCursor(snapshot))
       IN  recovered # None /\ SameWorld(recovered, twin.world)

\* A process that crashed, recovered, rolled failed appends back, was refused
\* commands and saved is in the state of one that did none of that: same
\* world, same RNG, same clock, so the next tick draws the same numbers.
TwinParity ==
  pc = "up" /\ sim.world # None =>
    /\ sim.rng = twin.rng /\ sim.clock = twin.clock
    /\ SameWorld(sim.world, twin.world)

\* Every world the engine reaches can be saved so that the save decodes: the
\* zone indexes agree with the positions, the next id is above every id.
SavesDecode ==
  pc = "up" /\ sim.world # None => ValidSnapshot(Stamped(sim.world, Len(journal)))

\* An entity id names one entity for ever: no two spawns in the log share one,
\* not even across a recovery or a roll-back of next_entity_id.
IdsNeverReused ==
  \A i, j \in DOMAIN journal :
    /\ journal[i].type = "EntitySpawned" /\ journal[j].type = "EntitySpawned"
    /\ journal[i].id = journal[j].id
    => i = j

\* What the systems took from a resource is what the log says: an entity's
\* amount is the amount it was spawned with less its depletions.
DepletionsAddUp ==
  sim.world # None /\ pc = "up" =>
    \A i \in DOMAIN journal :
      /\ journal[i].type = "EntitySpawned" /\ journal[i].amount # None
      /\ HasEntity(sim.world, journal[i].id)
      => sim.world.entities[journal[i].id].amount =
           journal[i].amount
             - Cardinality({k \in DOMAIN journal : /\ journal[k].type = "ResourceDepleted"
                                                   /\ journal[k].id = journal[i].id})

\* An entity that died by the last reaping tick is gone: only deaths since
\* then are still in the world (tick % 100 of run_tick_systems).
DeadAreReaped ==
  sim.world # None /\ pc = "up" =>
    \A i \in DOMAIN journal :
      /\ journal[i].type = "EntityStateChanged"
      /\ HasEntity(sim.world, journal[i].id)
      => journal[i].tick > (sim.world.tick \div ReapEvery) * ReapEvery

\* Every tick from 1 on is in the log exactly once, closed by its
\* TickProcessed: later events of the log belong to that tick only if a
\* command other than a tick wrote them.
TicksAreClosed ==
  \A i \in DOMAIN journal :
    journal[i].type = "TickProcessed" =>
      /\ journal[i].tick = 1 + Cardinality({k \in 1..(i - 1) : journal[k].type = "TickProcessed"})
      /\ \A k \in (i + 1)..Len(journal) :
           journal[k].tick = journal[i].tick =>
             journal[k].type \in {"EntitySpawned", "EntityDespawned", "ZoneCreated"}

\* The events of a command step through the ticks one at a time from the tick
\* before it, so replay can follow them and PersistentSimulation's assumption
\* on batches is justified.
BatchesAreShapes ==
  [][LET before == IF journal = << >> THEN 0 ELSE journal[Len(journal)].tick
     IN  IsShape([i \in 1..(Len(journal') - Len(journal)) |->
                    journal'[Len(journal) + i].tick - before])]_journal

=============================================================================
