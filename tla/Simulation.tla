----------------------------- MODULE Simulation -----------------------------
(***************************************************************************)
(* The simulation kernel (sy_core, sim.rs): commands as functions from the *)
(* state of the engine to a new state and the events that describe the     *)
(* change, or to a refusal.  The engine is the loaded world, the RNG and   *)
(* the clock; the world keeps a copy of the RNG's state and of the tick.   *)
(*                                                                         *)
(* The RNG is PCG32 (sy_infra, rng/mod.rs) on fewer bits.  Its increment   *)
(* comes from the seed.  Which states make chance(p) true is a constant;   *)
(* one draw of a state is below 0.005 only if it is below 0.01.            *)
(***************************************************************************)
EXTENDS WorldState

CONSTANTS
  RngModulus, Multiplier,  \* 2^64 and 6364136223846793005 in the code
  DepletionHits,           \* the RNG states for which chance(0.01) is true
  DegradationHits,         \* those for which chance(0.005) is
  TickLimit,               \* the longest TickN accepted, 10000 in the code
  ReapEvery                \* how many ticks apart the dead are removed, 100

ASSUME RngAssumption ==
  /\ RngModulus \in Nat \ {0} /\ Multiplier \in Nat
  /\ DegradationHits \subseteq DepletionHits
  /\ DepletionHits \subseteq 0..(RngModulus - 1)
ASSUME TickAssumption == TickLimit \in Nat \ {0} /\ ReapEvery \in Nat \ {0}

Command ==
       [op : {"CreateWorld"}, seed : 0..(RngModulus - 1)]
  \cup [op : {"Tick"}]
  \cup [op : {"TickN"}, n : Nat]
  \cup [op : {"SpawnEntity"}, kind : EntityKind, zone : Nat,
        amount : Nat \cup {None}, health : Nat \cup {None}]
  \cup [op : {"DespawnEntity"}, id : Nat]
  \cup [op : {"CreateZone"}, zone : Nat, name : ZoneNames]

(***************************************************************************)
(* The engine, and the ways it is set.                                     *)
(***************************************************************************)
NewEngine == [world |-> None, rng |-> [seed |-> 0, state |-> 0], clock |-> 0]

LoadWorldState(sim, w) ==
  [world |-> w, rng |-> [seed |-> w.seed, state |-> w.rng], clock |-> w.tick]

\* Mutant of RestoreCheckpoint: the RNG is not rewound.
RestoreWorldOnly(sim, cp) == [sim EXCEPT !.world = cp.world, !.clock = cp.clock]

RestoreCheckpoint(sim, cp) ==
  [world |-> cp.world, rng |-> cp.rng, clock |-> cp.clock]

-----------------------------------------------------------------------------
(***************************************************************************)
(* One tick.  The systems go through the entities that were active at its  *)
(* start, in ascending order of id; run is the world, the RNG and the      *)
(* events so far.  A draw is made only for a resource with an amount left  *)
(* or a creature with health left (the && of the code).                    *)
(***************************************************************************)
\* Mutant of Draw: the multiplication does not wrap.
DrawUnwrapped(rng) == [rng EXCEPT !.state = Multiplier * @ + 2 * rng.seed + 1]

Draw(rng) ==
  [rng EXCEPT !.state = (Multiplier * @ + 2 * rng.seed + 1) % RngModulus]

Field(kind) == IF kind = "Resource" THEN "amount" ELSE "health"

Hits(kind) == IF kind = "Resource" THEN DepletionHits ELSE DegradationHits

Wears(e) ==
  /\ e.kind \in {"Resource", "Creature"}
  /\ e[Field(e.kind)] # None
  /\ e[Field(e.kind)] > 0

\* Mutant of WearEvents: the last unit of a resource is not reported.
DeathOnly(tick, id, e) ==
  LET left == e[Field(e.kind)] - 1
      wear == [type |-> "ResourceDepleted", tick |-> tick, id |-> id,
               amount |-> 1, remaining |-> left]
      death == [type |-> "EntityStateChanged", tick |-> tick, id |-> id,
                old |-> e.state, new |-> "Dead"]
  IN  IF left = 0 THEN <<death>> ELSE <<wear>>

WearEvents(tick, id, e) ==
  LET left == e[Field(e.kind)] - 1
      wear == IF e.kind = "Resource"
                THEN [type |-> "ResourceDepleted", tick |-> tick, id |-> id,
                      amount |-> 1, remaining |-> left]
                ELSE [type |-> "EntityDegraded", tick |-> tick, id |-> id,
                      old |-> left + 1, new |-> left]
      death == [type |-> "EntityStateChanged", tick |-> tick, id |-> id,
                old |-> e.state, new |-> "Dead"]
  IN  IF left = 0 THEN <<wear, death>> ELSE <<wear>>

Worn(e) ==
  [e EXCEPT ![Field(e.kind)] = @ - 1,
            !.state = IF e[Field(e.kind)] = 1 THEN "Dead" ELSE @]

RunEntity(run, id) ==
  LET e == run.world.entities[id]
  IN  IF ~Wears(e) THEN run
      ELSE IF run.rng.state \notin Hits(e.kind) THEN [run EXCEPT !.rng = Draw(@)]
      ELSE [world  |-> [run.world EXCEPT !.entities[id] = Worn(e)],
            rng    |-> Draw(run.rng),
            events |-> run.events \o WearEvents(run.world.tick, id, e)]

RemoveDead(run, id) ==
  [run EXCEPT !.world = RemoveEntity(@, id),
              !.events = Append(@, [type |-> "EntityDespawned",
                                    tick |-> run.world.tick, id |-> id])]

(***************************************************************************)
(* The ids are collected before the loop and visited as the BTreeMap lists *)
(* them: in ascending order, all of them below the world's next id.        *)
(***************************************************************************)
WearActive(run) ==
  LET active == ActiveIds(run.world)
      after[i \in 0..run.world.nextId] ==
        IF i = 0 THEN run
        ELSE IF i \in active THEN RunEntity(after[i - 1], i)
        ELSE after[i - 1]
  IN  after[run.world.nextId]

ReapDead(run) ==
  LET dead == DeadIds(run.world)
      after[i \in 0..run.world.nextId] ==
        IF i = 0 THEN run
        ELSE IF i \in dead THEN RemoveDead(after[i - 1], i)
        ELSE after[i - 1]
  IN  after[run.world.nextId]

\* Mutant of RunTickSystems: the dead go before the systems run.
ReapThenWear(run) ==
  WearActive(IF run.world.tick % ReapEvery = 0 THEN ReapDead(run) ELSE run)

RunTickSystems(run) ==
  LET worn == WearActive(run)
  IN  IF run.world.tick % ReapEvery = 0 THEN ReapDead(worn) ELSE worn

\* Mutant of CmdTick: TickProcessed comes before the events of its tick.
AnnounceThenRun(sim, events) ==
  LET run == RunTickSystems([world |-> AdvanceTick(sim.world), rng |-> sim.rng,
                             events |-> << >>])
      tick == run.world.tick
  IN  [sim |-> [world |-> [run.world EXCEPT !.rng = run.rng.state],
                rng |-> run.rng, clock |-> tick],
       events |-> Append(events, [type |-> "TickProcessed", tick |-> tick,
                                  at |-> tick, rng |-> run.rng.state]) \o run.events]

CmdTick(sim, events) ==
  LET run == RunTickSystems([world |-> AdvanceTick(sim.world), rng |-> sim.rng,
                             events |-> events])
      tick == run.world.tick
  IN  [sim |-> [world |-> [run.world EXCEPT !.rng = run.rng.state],
                rng |-> run.rng, clock |-> tick],
       events |-> Append(run.events, [type |-> "TickProcessed", tick |-> tick,
                                      at |-> tick, rng |-> run.rng.state])]

-----------------------------------------------------------------------------
(***************************************************************************)
(* process_command: Outcome(sim, cmd) is what it returns and leaves behind.*)
(* Every check of a command comes before its first change, so a refusal    *)
(* leaves the engine as it was (TickN's early return included).            *)
(***************************************************************************)
Done(sim, events) == [ok |-> TRUE, sim |-> sim, events |-> events]

Refused(sim) == [ok |-> FALSE, sim |-> sim, events |-> << >>]

CmdCreateWorld(sim, seed) ==
  IF sim.world # None THEN Refused(sim)
  ELSE Done([world |-> NewWorld(seed), rng |-> [seed |-> seed, state |-> seed], clock |-> 0],
            <<[type |-> "WorldCreated", tick |-> 0, seed |-> seed],
              [type |-> "ZoneCreated", tick |-> 0, zone |-> ORIGIN, name |-> "Origin"]>>)

\* Mutant of CmdTickN: the clock moves n ticks, then the systems run once.
TicksAtOnce(sim, n) ==
  IF sim.world = None \/ n \notin 1..TickLimit THEN Refused(sim)
  ELSE LET skipped == [sim EXCEPT !.world.tick = @ + n - 1]
           run == CmdTick(skipped, << >>)
       IN  Done(run.sim, run.events)

CmdTickN(sim, n) ==
  IF sim.world = None \/ n \notin 1..TickLimit THEN Refused(sim)
  ELSE LET after[i \in 0..n] ==
             IF i = 0 THEN [sim |-> sim, events |-> << >>]
             ELSE CmdTick(after[i - 1].sim, after[i - 1].events)
       IN  Done(after[n].sim, after[n].events)

CmdSpawnEntity(sim, c) ==
  IF sim.world = None \/ ~HasZone(sim.world, c.zone) THEN Refused(sim)
  ELSE LET w == sim.world
           id == w.nextId
           e == NewEntity(c.kind, c.zone, w.tick, c.amount, c.health)
       IN  Done([sim EXCEPT !.world = AddEntity([w EXCEPT !.nextId = @ + 1], id, e)],
                <<[type |-> "EntitySpawned", tick |-> w.tick, id |-> id, kind |-> c.kind,
                   zone |-> c.zone, amount |-> c.amount, health |-> c.health]>>)

CmdDespawnEntity(sim, id) ==
  IF sim.world = None \/ ~HasEntity(sim.world, id) THEN Refused(sim)
  ELSE Done([sim EXCEPT !.world = RemoveEntity(@, id)],
            <<[type |-> "EntityDespawned", tick |-> sim.world.tick, id |-> id]>>)

CmdCreateZone(sim, c) ==
  IF sim.world = None \/ HasZone(sim.world, c.zone) THEN Refused(sim)
  ELSE Done([sim EXCEPT !.world = AddZone(@, c.zone, c.name)],
            <<[type |-> "ZoneCreated", tick |-> sim.world.tick,
               zone |-> c.zone, name |-> c.name]>>)

Outcome(sim, cmd) ==
  CASE cmd.op = "CreateWorld"   -> CmdCreateWorld(sim, cmd.seed)
    [] cmd.op = "Tick"          -> CmdTickN(sim, 1)
    [] cmd.op = "TickN"         -> CmdTickN(sim, cmd.n)
    [] cmd.op = "SpawnEntity"   -> CmdSpawnEntity(sim, cmd)
    [] cmd.op = "DespawnEntity" -> CmdDespawnEntity(sim, cmd.id)
    [] cmd.op = "CreateZone"    -> CmdCreateZone(sim, cmd)

=============================================================================
