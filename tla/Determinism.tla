---------------------------- MODULE Determinism -----------------------------
(***************************************************************************)
(* The determinism runner (sy_core, determinism.rs): run_deterministic     *)
(* feeds scheduled commands to a new simulation tick by tick and hashes    *)
(* its world at checkpoints; verify_determinism compares two runs.  The    *)
(* state machine makes two runs, one after the other, of schedules chosen  *)
(* freely.                                                                 *)
(*                                                                         *)
(* A hash stands for the values that are fed to the hasher: xxHash64 is    *)
(* taken to have no collision.  Ids, ticks and seeds are single values;    *)
(* the name of a zone is its bytes.  The name of the world, its creation   *)
(* tick and the format version are the same in every run and left out.     *)
(***************************************************************************)
EXTENDS Simulation

CONSTANTS
  Commands,         \* the commands of a schedule
  InputTicks,       \* the ticks they are scheduled at
  MaxInputs,        \* bound: how many there are
  Seed, TotalTicks, CheckpointEvery,  \* DeterministicRunConfig
  NameBytes         \* the bytes of a zone's name

VARIABLES
  inputs,   \* config.inputs of this run
  next,     \* input_idx: the first of the sorted inputs not fed yet
  tick,     \* tick_num
  sim,
  checkpoints,
  fed,      \* ghost: the inputs fed, each with the tick_num it was fed at
  results,  \* the runs that ended
  pc        \* "idle": between runs; a refused command panics

runVars == <<inputs, next, tick, sim, checkpoints, fed>>
detVars == <<runVars, results, pc>>

ASSUME RunAssumption ==
  /\ TotalTicks \in Nat /\ CheckpointEvery \in Nat /\ Seed \in 0..(RngModulus - 1)
  /\ InputTicks \subseteq Nat /\ Commands \subseteq Command /\ MaxInputs \in Nat

\* Two names have not the same bytes.
ASSUME NameAssumption ==
  \A m, n \in ZoneNames : /\ NameBytes[m] \in Seq(Nat)
                          /\ NameBytes[m] = NameBytes[n] => m = n

-----------------------------------------------------------------------------
(***************************************************************************)
(* compute_canonical_hash: what the hasher is fed, in order.               *)
(***************************************************************************)
KindByte == [Resource |-> 0, Creature |-> 1, Item |-> 2, Structure |-> 3]

StateByte == [Active |-> 0, Dormant |-> 1, Dead |-> 2]

WriteOption(v) == IF v = None THEN <<0>> ELSE <<1, v>>

WriteName(name) ==
  IF name = None THEN <<0>> ELSE <<1, Len(NameBytes[name])>> \o NameBytes[name]

WriteEntity(id, e) ==
  <<id, id, KindByte[e.kind], StateByte[e.state], e.zone, e.created>>
    \o WriteOption(e.amount) \o WriteOption(e.health)

WriteZone(z, zone) ==
  <<z, z>> \o WriteName(zone.name)
    \o <<IF zone.loaded THEN 1 ELSE 0, Len(zone.entities)>> \o zone.entities

WriteMeta(w) ==
  <<w.seed, w.metaTick, w.snapTick, w.cursor, w.tick, w.rng, w.nextId>>

\* A BTreeMap goes in the order of its keys, after their number.
Ascending(ids) ==
  CHOOSE keys \in [1..Cardinality(ids) -> ids] :
    \A i, j \in 1..Cardinality(ids) : i < j => keys[i] < keys[j]

WriteEntities(w) ==
  LET ids == Ascending(DOMAIN w.entities)
  IN  <<Len(ids)>> \o FlattenSeq([i \in DOMAIN ids |-> WriteEntity(ids[i], w.entities[ids[i]])])

WriteZones(w) ==
  LET ids == Ascending(DOMAIN w.zones)
  IN  <<Len(ids)>> \o FlattenSeq([i \in DOMAIN ids |-> WriteZone(ids[i], w.zones[ids[i]])])

\* Mutant of CanonicalHash: the entities themselves are not hashed.
HashWithoutEntities(w) == WriteMeta(w) \o WriteZones(w)

CanonicalHash(w) == WriteMeta(w) \o WriteEntities(w) \o WriteZones(w)

-----------------------------------------------------------------------------
(***************************************************************************)
(* run_deterministic.                                                      *)
(***************************************************************************)
Schedules == SeqOf([tick : InputTicks, command : Commands], MaxInputs)

\* Mutant of Sorted: the inputs are fed as they come.
Unsorted(schedule) == [i \in 1..Len(schedule) |-> i]

Earlier(schedule, i, j) ==
  \/ schedule[i].tick < schedule[j].tick
  \/ schedule[i].tick = schedule[j].tick /\ i < j

\* sort_by_key on the tick, which keeps the order of equal keys: where in
\* schedule the first, the second, ... input to feed stands.
Sorted(schedule) ==
  LET places == 1..Len(schedule)
  IN  CHOOSE order \in [places -> places] :
        \A i, j \in places : i < j => Earlier(schedule, order[i], order[j])

\* The engine before CreateWorld; its RNG and clock are the run's own.
BeginRun ==
  /\ pc = "idle" /\ Len(results) < 2
  /\ inputs' \in Schedules
  /\ sim' = Outcome(NewEngine, [op |-> "CreateWorld", seed |-> Seed]).sim
  /\ next' = 1 /\ tick' = 0 /\ checkpoints' = << >> /\ fed' = << >>
  /\ pc' = "running"
  /\ UNCHANGED results

InputDue ==
  /\ next <= Len(inputs)
  /\ inputs[Sorted(inputs)[next]].tick <= tick

\* The while loop before a tick.  A refused command is a panic (expect).
FeedInput ==
  /\ pc = "running" /\ tick < TotalTicks /\ InputDue
  /\ LET place == Sorted(inputs)[next]
         outcome == Outcome(sim, inputs[place].command)
     IN  IF outcome.ok
           THEN /\ sim' = outcome.sim
                /\ next' = next + 1
                /\ fed' = Append(fed, [place |-> place, at |-> tick])
                /\ UNCHANGED pc
           ELSE pc' = "panicked" /\ UNCHANGED <<sim, next, fed>>
  /\ UNCHANGED <<inputs, tick, checkpoints, results>>

\* Mutant of CheckpointDue: the last tick is no reason for a checkpoint.
OnIntervalOnly == CheckpointEvery > 0 /\ (tick + 1) % CheckpointEvery = 0

CheckpointDue ==
  \/ CheckpointEvery > 0 /\ (tick + 1) % CheckpointEvery = 0
  \/ tick + 1 = TotalTicks

Checkpoint(w) == [tick |-> w.tick, hash |-> CanonicalHash(w)]

RunTick ==
  /\ pc = "running" /\ tick < TotalTicks /\ ~InputDue
  /\ sim' = Outcome(sim, [op |-> "Tick"]).sim
  /\ tick' = tick + 1
  /\ checkpoints' = IF CheckpointDue THEN Append(checkpoints, Checkpoint(sim'.world))
                                     ELSE checkpoints
  /\ UNCHANGED <<inputs, next, fed, results, pc>>

EndRun ==
  /\ pc = "running" /\ tick = TotalTicks
  /\ results' = Append(results, [inputs |-> inputs, fed |-> fed,
                                 checkpoints |-> checkpoints, world |-> sim.world])
  /\ pc' = "idle"
  /\ UNCHANGED runVars

(***************************************************************************)
(* verify_determinism of two results: Ok, or the tick it blames.           *)
(***************************************************************************)
Same == [ok |-> TRUE, at |-> 0]

Differ(t) == [ok |-> FALSE, at |-> t]

\* Mutant of Verify: the ticks are compared, not the hashes.
VerifyTicks(a, b) ==
  IF [i \in DOMAIN a |-> a[i].tick] = [i \in DOMAIN b |-> b[i].tick] THEN Same ELSE Differ(0)

Verify(a, b) ==
  IF Len(a) # Len(b) THEN Differ(0)
  ELSE LET bad == {i \in DOMAIN a : a[i] # b[i]}
       IN  IF bad = {} THEN Same ELSE Differ(Min({a[Min(bad)].tick, b[Min(bad)].tick}))

-----------------------------------------------------------------------------
DetInit ==
  /\ inputs = << >> /\ next = 1 /\ tick = 0 /\ sim = NewEngine
  /\ checkpoints = << >> /\ fed = << >>
  /\ results = << >> /\ pc = "idle"

DetNext == BeginRun \/ FeedInput \/ RunTick \/ EndRun

DetSpec == DetInit /\ [][DetNext]_detVars

-----------------------------------------------------------------------------
(***************************************************************************)
(* Properties.                                                             *)
(***************************************************************************)
Both == Len(results) = 2

Verdict == Verify(results[1].checkpoints, results[2].checkpoints)

\* Two runs that verify_determinism finds equal ended in the same world: the
\* hash covers all of it, and what comes after the last checkpoint interval
\* is covered too.
EqualVerdictEqualWorld == Both /\ Verdict.ok => results[1].world = results[2].world

\* The inputs of one tick, in the order of the schedule.
At(schedule, t) ==
  LET places == Ascending({p \in DOMAIN schedule : schedule[p].tick = t})
  IN  [k \in DOMAIN places |-> schedule[places[k]]]

\* Runs of schedules that differ only in how inputs of different ticks are
\* mixed are found equal: the world does not depend on the order of arrival
\* across ticks (run_deterministic sorts), so no false alarm is raised.
ReorderedSchedulesAgree ==
  Both /\ (\A t \in InputTicks : At(results[1].inputs, t) = At(results[2].inputs, t))
    => Verdict.ok

\* A run that ended has fed each input scheduled before its end, once, just
\* before the tick it is scheduled for, those of one tick in the order of the
\* schedule; the others it has dropped.
InputsRunOnTime ==
  \A r \in {results[i] : i \in DOMAIN results} :
    /\ {r.fed[i].place : i \in DOMAIN r.fed} =
         {p \in DOMAIN r.inputs : r.inputs[p].tick < TotalTicks}
    /\ \A i \in DOMAIN r.fed : r.fed[i].at = r.inputs[r.fed[i].place].tick
    /\ \A i, j \in DOMAIN r.fed :
         i < j => \/ r.fed[i].at < r.fed[j].at
                  \/ r.fed[i].at = r.fed[j].at /\ r.fed[i].place < r.fed[j].place

=============================================================================
