----------------------- MODULE JournaledSimulation_proofs -----------------------
(***************************************************************************)
(* Proofs about the kernel under the persistent runtime: live execution,   *)
(* a save, a recovery and a roll-back agree on the world, for any          *)
(* commands, any RNG, any number of entities and zones and any log.        *)
(***************************************************************************)
EXTENDS JournaledSimulation, Kernel_proofs

-----------------------------------------------------------------------------
(***************************************************************************)
(* The inductive invariant.                                                *)
(***************************************************************************)
\* An engine with a world is one that has loaded it; one without is new.
Engines ==
  /\ sim.world = None => sim = NewEngine
  /\ sim.world # None => EngineInv(sim)
  /\ twin.world = None => twin = NewEngine
  /\ twin.world # None => EngineInv(twin)

\* Nothing is journaled or saved before the first world.
FirstWorld ==
  /\ journal \in Seq(KernelEvent)
  /\ twin.world = None <=> journal = << >>
  /\ twin.world = None => snapshot = None

LiveAgrees ==
  pc = "up" /\ sim.world # None =>
    twin.world # None /\ Alike(sim.world, twin.world)

SnapshotAgrees ==
  snapshot # None =>
    /\ WorldInv(snapshot) /\ snapshot.snapTick = snapshot.tick
    /\ snapshot.seed \in Nat /\ snapshot.rng \in Draws
    /\ snapshot.cursor \in 0..Len(journal)
    /\ LET recovered == ReplayEvents(snapshot, AfterCursor(snapshot))
       IN  recovered # None /\ WorldInv(recovered) /\ Alike(recovered, twin.world)

\* The log is what the undisturbed twin did, up to the end of a tick.
JournalAgrees ==
  twin.world # None => Logged(twin.world, journal) /\ Closed(twin.world, journal)

JInv ==
  /\ pc \in {"down", "up", "failed"}
  /\ Engines /\ FirstWorld /\ LiveAgrees /\ SnapshotAgrees /\ JournalAgrees

LEMMA SuccessKeeps ==
  ASSUME NoneIsNoWorld, JInv, NEW cmd \in Commands, Execute(cmd), Journal(cmd)
  PROVE  LET x == Outcome(sim, cmd)
         IN  /\ EngineInv(x.sim) /\ EngineInv(twin') /\ Alike(x.sim.world, twin'.world)
             /\ journal' \in Seq(KernelEvent) /\ journal' # << >>
             /\ SnapshotAgrees'
             /\ Logged(twin'.world, journal') /\ Closed(twin'.world, journal')
             /\ x.events \in Seq(KernelEvent) /\ x.events # << >>
<1> DEFINE x == Outcome(sim, cmd)
           y == Outcome(twin, cmd)
<1>1. /\ pc = "up" /\ Admitted(cmd) /\ x.ok /\ snapshot' = snapshot
      /\ journal' = journal \o x.events /\ twin' = y.sim
      /\ cmd \in Command
  BY CommandsAssumption DEF Execute, Journal
<1>2. Engines /\ FirstWorld /\ LiveAgrees /\ SnapshotAgrees /\ JournalAgrees
  BY DEF JInv
<1>3. CASE twin.world = None
  <2>1. sim = NewEngine /\ twin = NewEngine /\ journal = << >> /\ snapshot = None
    BY <1>1, <1>2, <1>3 DEF Engines, FirstWorld, LiveAgrees
  <2>2. /\ EngineInv(x.sim) /\ x.events \in Seq(KernelEvent) /\ x.events # << >>
        /\ Logged(x.sim.world, x.events) /\ Closed(x.sim.world, x.events)
    BY <1>1, <2>1, WorldIsCreated
  <2>3. twin' = x.sim
    BY <1>1, <2>1
  <2> HIDE DEF x
  <2>4. journal' = x.events
    BY <1>1, <2>1, <2>2
  <2>5. SnapshotAgrees'
    BY <1>1, <2>1 DEF SnapshotAgrees
  <2> QED
    BY <2>2, <2>3, <2>4, <2>5 DEF Alike, x
<1>4. CASE twin.world # None
  <2>1. EngineInv(twin) /\ journal \in Seq(KernelEvent) /\ journal # << >>
    BY <1>2, <1>4 DEF Engines, FirstWorld
  <2>2. sim.world # None
    <3> SUFFICES ASSUME sim.world = None PROVE FALSE
      OBVIOUS
    <3>1. sim = NewEngine /\ NewEngine.world = None
      BY <1>2 DEF Engines, NewEngine
    <3>2. cmd.op # "CreateWorld"
      BY <1>1, <2>1 DEF Admitted
    <3>3. cmd.op \in {"CreateWorld", "Tick", "TickN", "SpawnEntity", "DespawnEntity", "CreateZone"}
      BY <1>1 DEF Command
    <3>4. x = Refused(NewEngine)
      BY <3>1, <3>2, <3>3 DEF Outcome, CmdTickN, CmdSpawnEntity, CmdDespawnEntity, CmdCreateZone
    <3> QED
      BY <1>1, <3>4 DEF Refused
  <2>3. EngineInv(sim) /\ Alike(sim.world, twin.world)
    BY <1>1, <1>2, <2>2 DEF Engines, LiveAgrees
  <2>4. Steps(journal, sim.world, twin.world, x, y) /\ x.events # << >>
    <3>1. Logged(sim.world, journal) /\ Closed(sim.world, journal)
      BY <1>2, <1>4, <2>3, LoggedAlike DEF JournalAgrees
    <3> QED
      BY <1>1, <2>1, <2>3, <3>1, OutcomeBoth
  <2> HIDE DEF x, y
  <2>5. /\ EngineInv(x.sim) /\ EngineInv(y.sim) /\ Alike(x.sim.world, y.sim.world)
        /\ x.events \in Seq(KernelEvent)
        /\ ReplayEvents(twin.world, x.events) = y.sim.world
        /\ Logged(x.sim.world, journal \o x.events) /\ Closed(x.sim.world, journal \o x.events)
    BY <2>4 DEF Steps
  <2>6. journal' \in Seq(KernelEvent) /\ journal' # << >>
    <3>1. Len(x.events) # 0 /\ Len(x.events) \in Nat /\ Len(journal) \in Nat
      BY <2>1, <2>4, <2>5, EmptySeq
    <3>2. journal \o x.events \in Seq(KernelEvent)
      BY <2>1, <2>5
    <3>3. Len(journal \o x.events) = Len(journal) + Len(x.events)
      BY <2>1, <2>5
    <3> QED
      BY <1>1, <3>1, <3>2, <3>3
  <2>7. SnapshotAgrees'
    <3> SUFFICES ASSUME snapshot # None PROVE SnapshotAgrees'
      BY <1>1 DEF SnapshotAgrees
    <3> DEFINE n == snapshot.cursor
               tail == SubSeq(journal, n + 1, Len(journal))
               longer == SubSeq(journal', n + 1, Len(journal'))
               recovered == ReplayEvents(snapshot, tail)
               replayed == ReplayEvents(snapshot, longer)
    <3>1. /\ WorldInv(snapshot) /\ snapshot.snapTick = snapshot.tick
          /\ snapshot.seed \in Nat /\ snapshot.rng \in Draws
          /\ n \in 0..Len(journal)
          /\ recovered # None /\ WorldInv(recovered) /\ Alike(recovered, twin.world)
      BY <1>2 DEF SnapshotAgrees, AfterCursor
    <3>2. longer = tail \o x.events /\ tail \in Seq(KernelEvent)
      BY <1>1, <2>1, <2>5, <3>1, SuffixGrows
    <3> HIDE DEF n, tail, longer
    <3>3. replayed = ReplayEvents(recovered, x.events)
      BY <2>5, <3>2, ReplayConcat
    <3>4. twin.world # None /\ WorldInv(twin.world) /\ y.sim.world # None
      BY <2>1, <2>5 DEF EngineInv
    <3> HIDE DEF recovered, replayed
    <3>5. replayed # None /\ WorldInv(replayed) /\ Alike(replayed, y.sim.world)
      BY <2>5, <3>1, <3>3, <3>4, ReplayBoth
    <3>6. n \in 0..Len(journal')
      <4>1. Len(journal') = Len(journal) + Len(x.events) /\ Len(x.events) \in Nat
            /\ Len(journal) \in Nat
        BY <1>1, <2>1, <2>5
      <4> QED
        BY <3>1, <4>1
    <3>7. AfterCursor(snapshot)' = longer
      BY <1>1 DEF AfterCursor, longer, n
    <3> QED
      BY <1>1, <3>1, <3>5, <3>6, <3>7 DEF SnapshotAgrees, n, replayed
  <2>8. Logged(twin'.world, journal') /\ Closed(twin'.world, journal')
    <3>1. Alike(y.sim.world, x.sim.world)
      BY <2>5 DEF Alike
    <3> QED
      BY <1>1, <2>5, <3>1, LoggedAlike
  <2> QED
    BY <1>1, <2>4, <2>5, <2>6, <2>7, <2>8 DEF x
<1> QED
  BY <1>3, <1>4

\* A refusal leaves the engine as it was: every check precedes every change.
LEMMA RefusedUnchanged ==
  ASSUME NEW cmd \in Command, ~Outcome(sim, cmd).ok
  PROVE  Outcome(sim, cmd).sim = sim
<1>1. ASSUME NEW s, NEW events PROVE Done(s, events).ok
  BY DEF Done
<1>2. Refused(sim).sim = sim
  BY DEF Refused
<1>3. CASE cmd.op = "CreateWorld"
  BY <1>1, <1>2, <1>3 DEF Outcome, CmdCreateWorld
<1>4. CASE cmd.op = "Tick"
  BY <1>1, <1>2, <1>4 DEF Outcome, CmdTickN
<1>5. CASE cmd.op = "TickN"
  BY <1>1, <1>2, <1>5 DEF Outcome, CmdTickN
<1>6. CASE cmd.op = "SpawnEntity"
  BY <1>1, <1>2, <1>6 DEF Outcome, CmdSpawnEntity
<1>7. CASE cmd.op = "DespawnEntity"
  BY <1>1, <1>2, <1>7 DEF Outcome, CmdDespawnEntity
<1>8. CASE cmd.op = "CreateZone"
  BY <1>1, <1>2, <1>8 DEF Outcome, CmdCreateZone
<1>9. cmd.op \in {"CreateWorld", "Tick", "TickN", "SpawnEntity", "DespawnEntity", "CreateZone"}
  BY DEF Command
<1> QED
  BY <1>3, <1>4, <1>5, <1>6, <1>7, <1>8, <1>9

\* The checkpoint holds all of the engine.
LEMMA EngineRestored ==
  ASSUME Engines, NEW s
  PROVE  RestoreCheckpoint(s, sim) = sim
<1>1. sim = [world |-> sim.world, rng |-> sim.rng, clock |-> sim.clock]
  BY DEF Engines, EngineInv, LoadWorldState, NewEngine
<1> QED
  BY <1>1 DEF RestoreCheckpoint

LEMMA SaveKeeps ==
  ASSUME NoneIsNoWorld, JInv, pc = "up", sim.world # None,
         snapshot' = Stamped(sim.world, Len(journal)), UNCHANGED <<journal, twin>>
  PROVE  /\ SnapshotAgrees' /\ twin.world # None
         /\ EngineInv(LoadWorldState(sim, snapshot'))
         /\ Alike(snapshot', twin.world) /\ snapshot' # None
<1> DEFINE s == Stamped(sim.world, Len(journal))
<1>1. /\ EngineInv(sim) /\ twin.world # None /\ Alike(sim.world, twin.world)
      /\ journal \in Seq(KernelEvent)
  BY DEF JInv, Engines, FirstWorld, LiveAgrees
<1>2. Len(journal) \in Nat
  BY <1>1
<1>3. WorldInv(sim.world) /\ sim.world.seed \in Nat /\ sim.world.rng \in Draws
  BY <1>1 DEF EngineInv
<1>4. snapshot' = s
  OBVIOUS
<1>5. /\ WorldInv(s) /\ s.snapTick = s.tick /\ s.cursor = Len(journal)
      /\ s.seed \in Nat /\ s.rng \in Draws /\ Alike(s, sim.world)
  <2> DEFINE w == sim.world
             n == Len(journal)
  <2>1. s = Stamped(w, n) /\ WorldInv(w) /\ n \in Nat
    BY <1>2, <1>3
  <2> HIDE DEF s, w, n
  <2>2. /\ WorldInv(s) /\ s.snapTick = s.tick /\ s.cursor = n
        /\ s.metaTick = w.metaTick /\ s.seed = w.seed /\ s.tick = w.tick
        /\ s.rng = w.rng /\ s.nextId = w.nextId
        /\ s.entities = w.entities /\ s.zones = w.zones
    BY <2>1, StampsKeep DEF WorldInv
  <2> QED
    BY <1>3, <2>2 DEF Alike, w, n
<1> HIDE DEF s
<1>6. s # None /\ Alike(s, twin.world)
  BY <1>1, <1>5 DEF Alike, WorldInv, WorldFrom, NoneIsNoWorld
<1>7. ReplayEvents(s, SubSeq(journal, Len(journal) + 1, Len(journal))) = s
  <2>1. SubSeq(journal, Len(journal) + 1, Len(journal)) = << >>
    BY <1>2, SubSeqEmpty
  <2> QED
    BY <2>1, ReplayNothing
<1>8. SnapshotAgrees'
  <2>1. AfterCursor(snapshot)' = SubSeq(journal, Len(journal) + 1, Len(journal))
    BY <1>4, <1>5 DEF AfterCursor
  <2>2. s.cursor \in 0..Len(journal')
    BY <1>2, <1>5
  <2> QED
    BY <1>4, <1>5, <1>6, <1>7, <2>1, <2>2 DEF SnapshotAgrees
<1>9. EngineInv(LoadWorldState(sim, s))
  BY <1>5, <1>6, LoadedEngine
<1> QED
  BY <1>1, <1>4, <1>6, <1>8, <1>9

LEMMA JInvInit ==
  ASSUME Init
  PROVE  JInv
BY DEF Init, JInv, Engines, FirstWorld, LiveAgrees, SnapshotAgrees, JournalAgrees, NewEngine

LEMMA JInvNext ==
  ASSUME NoneIsNoWorld, JInv, [Next]_vars
  PROVE  JInv'
<1>1. /\ pc \in {"down", "up", "failed"}
      /\ Engines /\ FirstWorld /\ LiveAgrees /\ SnapshotAgrees /\ JournalAgrees
  BY DEF JInv
<1>2. NewEngine.world = None
  BY DEF NewEngine
<1>3. CASE Start
  BY <1>1, <1>2, <1>3
  DEF Start, JInv, Engines, FirstWorld, LiveAgrees, SnapshotAgrees, JournalAgrees, AfterCursor
<1>4. CASE Crash
  BY <1>1, <1>2, <1>4
  DEF Crash, JInv, Engines, FirstWorld, LiveAgrees, SnapshotAgrees, JournalAgrees, AfterCursor
<1>5. CASE LoadWorld
  <2> DEFINE recovered == ReplayEvents(snapshot, AfterCursor(snapshot))
  <2>1. /\ pc = "up" /\ snapshot # None /\ sim' = LoadWorldState(sim, recovered)
        /\ UNCHANGED <<pc, journal, snapshot, twin>>
    BY <1>5 DEF LoadWorld
  <2>2. recovered # None /\ WorldInv(recovered) /\ Alike(recovered, twin.world)
    BY <1>1, <2>1 DEF SnapshotAgrees
  <2>3. twin.world # None /\ EngineInv(twin)
    BY <1>1, <2>1 DEF FirstWorld, Engines
  <2>4. recovered.seed \in Nat /\ recovered.rng \in Draws
    BY <2>2, <2>3 DEF EngineInv, Alike
  <2> HIDE DEF recovered
  <2>5. EngineInv(sim') /\ sim'.world = recovered /\ sim'.world # None
    BY <2>1, <2>2, <2>4, LoadedEngine
  <2>6. Engines' /\ LiveAgrees'
    BY <1>1, <2>1, <2>2, <2>3, <2>5 DEF Engines, LiveAgrees
  <2>7. FirstWorld' /\ SnapshotAgrees' /\ JournalAgrees'
    BY <1>1, <2>1 DEF FirstWorld, SnapshotAgrees, JournalAgrees, AfterCursor
  <2> QED
    BY <1>1, <2>1, <2>6, <2>7 DEF JInv
<1>6. CASE SaveWorld
  <2>1. /\ pc = "up" /\ sim.world # None /\ snapshot' = Stamped(sim.world, Len(journal))
        /\ sim' = LoadWorldState(sim, snapshot')
        /\ UNCHANGED <<pc, journal, twin>>
    BY <1>6 DEF SaveWorld
  <2>2. /\ SnapshotAgrees' /\ twin.world # None /\ EngineInv(sim')
        /\ Alike(snapshot', twin.world) /\ snapshot' # None
    BY <2>1, SaveKeeps
  <2>3. sim'.world = snapshot'
    BY <2>1 DEF LoadWorldState
  <2>4. Engines' /\ FirstWorld' /\ LiveAgrees' /\ JournalAgrees'
    BY <1>1, <2>1, <2>2, <2>3 DEF Engines, FirstWorld, LiveAgrees, JournalAgrees
  <2> QED
    BY <1>1, <2>1, <2>2, <2>4 DEF JInv
<1>7. CASE SaveFailsLate
  <2>1. /\ pc = "up" /\ sim.world # None /\ snapshot' = Stamped(sim.world, Len(journal))
        /\ pc' = "failed" /\ UNCHANGED <<sim, journal, twin>>
    BY <1>7 DEF SaveFailsLate
  <2>2. SnapshotAgrees' /\ twin.world # None
    BY <2>1, SaveKeeps
  <2>3. Engines' /\ FirstWorld' /\ LiveAgrees' /\ JournalAgrees'
    BY <1>1, <2>1, <2>2 DEF Engines, FirstWorld, LiveAgrees, JournalAgrees
  <2> QED
    BY <1>1, <2>1, <2>2, <2>3 DEF JInv
<1>8. ASSUME NEW cmd \in Commands, RefuseCommand(cmd) PROVE JInv'
  <2>1. /\ ~Admitted(cmd) \/ ~Outcome(sim, cmd).ok
        /\ sim' = IF Admitted(cmd) THEN Outcome(sim, cmd).sim ELSE sim
        /\ UNCHANGED <<pc, journal, snapshot, twin>>
    BY <1>8 DEF RefuseCommand
  <2>2. ~Outcome(sim, cmd).ok => Outcome(sim, cmd).sim = sim
    BY CommandsAssumption, RefusedUnchanged
  <2>3. sim' = sim
    BY <2>1, <2>2
  <2> QED
    BY <1>1, <2>1, <2>3
    DEF JInv, Engines, FirstWorld, LiveAgrees, SnapshotAgrees, JournalAgrees, AfterCursor
<1>9. ASSUME NEW cmd \in Commands, Commit(cmd) PROVE JInv'
  <2>1. /\ Execute(cmd) /\ Journal(cmd) /\ sim' = Outcome(sim, cmd).sim /\ pc' = pc
    BY <1>9 DEF Commit
  <2>2. /\ EngineInv(sim') /\ EngineInv(twin') /\ Alike(sim'.world, twin'.world)
        /\ journal' \in Seq(KernelEvent) /\ journal' # << >>
        /\ SnapshotAgrees' /\ JournalAgrees'
    BY <2>1, SuccessKeeps DEF JournalAgrees
  <2>3. sim'.world # None /\ twin'.world # None
    BY <2>2 DEF EngineInv
  <2> QED
    BY <1>1, <2>1, <2>2, <2>3 DEF JInv, Engines, FirstWorld, LiveAgrees
<1>10. ASSUME NEW cmd \in Commands, AppendFails(cmd) PROVE JInv'
  <2>1. /\ snapshot' = snapshot /\ sim' = RestoreCheckpoint(Outcome(sim, cmd).sim, sim)
        /\ UNCHANGED <<pc, journal, twin>>
    BY <1>10 DEF AppendFails, Execute
  <2>2. sim' = sim
    BY <1>1, <2>1, EngineRestored
  <2> QED
    BY <1>1, <2>1, <2>2
    DEF JInv, Engines, FirstWorld, LiveAgrees, SnapshotAgrees, JournalAgrees, AfterCursor
<1>11. ASSUME NEW cmd \in Commands, AppendFailsLate(cmd) PROVE JInv'
  <2>1. /\ Execute(cmd) /\ Journal(cmd) /\ pc' = "failed"
        /\ sim' = RestoreCheckpoint(Outcome(sim, cmd).sim, sim)
    BY <1>11 DEF AppendFailsLate
  <2>2. /\ EngineInv(twin') /\ journal' \in Seq(KernelEvent) /\ journal' # << >>
        /\ SnapshotAgrees' /\ JournalAgrees'
    BY <2>1, SuccessKeeps DEF JournalAgrees
  <2>3. sim' = sim
    BY <1>1, <2>1, EngineRestored
  <2>4. twin'.world # None
    BY <2>2 DEF EngineInv
  <2> QED
    BY <1>1, <2>1, <2>2, <2>3, <2>4 DEF JInv, Engines, FirstWorld, LiveAgrees
<1>12. CASE UNCHANGED vars
  BY <1>1, <1>12
  DEF vars, JInv, Engines, FirstWorld, LiveAgrees, SnapshotAgrees, JournalAgrees, AfterCursor
<1> QED
  BY <1>3, <1>4, <1>5, <1>6, <1>7, <1>8, <1>9, <1>10, <1>11, <1>12 DEF Next

LEMMA JInvAlways ==
  ASSUME NoneIsNoWorld
  PROVE  Spec => []JInv
<1>1. Init => JInv
  BY JInvInit
<1>2. JInv /\ [Next]_vars => JInv'
  BY JInvNext
<1> QED
  BY <1>1, <1>2, PTL DEF Spec

-----------------------------------------------------------------------------
(***************************************************************************)
(* What follows from it.                                                   *)
(***************************************************************************)
LEMMA AlikeIsSame ==
  ASSUME NEW v, NEW w, IsWorld(v), IsWorld(w), Alike(v, w)
  PROVE  SameWorld(v, w)
<1> DEFINE v0 == [v EXCEPT !.snapTick = 0, !.cursor = 0]
           w0 == [w EXCEPT !.snapTick = 0, !.cursor = 0]
           Only == [metaTick : {w.metaTick}, snapTick : {0}, cursor : {0}, seed : {w.seed},
                    tick : {w.tick}, rng : {w.rng}, nextId : {w.nextId},
                    entities : {w.entities}, zones : {w.zones}]
<1>1. Shape(v) /\ Shape(w)
  BY WorldShape
<1>2. v0 \in Only /\ w0 \in Only
  BY <1>1 DEF Shape, Alike
<1> HIDE DEF v0, w0
<1>3. v0 = w0
  BY <1>2
<1> QED
  BY <1>3 DEF SameWorld, v0, w0

LEMMA WorldTypes ==
  ASSUME NEW w, WorldInv(w), w.seed \in Nat, w.rng \in Draws
  PROVE  WorldOK(w)
<1>1. IsWorld(w) /\ Placed(1, w)
  BY DEF WorldInv, WorldFrom
<1>2. /\ {w.metaTick, w.snapTick, w.cursor, w.seed, w.tick, w.rng, w.nextId} \subseteq Nat
      /\ w.rng < RngModulus
  BY <1>1, RngAssumption DEF IsWorld, Draws
<1>3. \A id \in DOMAIN w.entities : id \in Nat /\ w.entities[id] \in Entity
  BY <1>1 DEF IsWorld, Placed
<1>4. ASSUME NEW z \in DOMAIN w.zones
      PROVE  /\ z \in Nat /\ w.zones[z].loaded \in BOOLEAN
             /\ \A i \in DOMAIN w.zones[z].entities : w.zones[z].entities[i] \in Nat
  <2>1. z \in Nat /\ w.zones[z] \in Zone
    BY <1>1 DEF IsWorld
  <2>2. w.zones[z].entities \in Seq(Nat) /\ w.zones[z].loaded \in BOOLEAN
    BY <2>1 DEF Zone
  <2>3. \A i \in DOMAIN w.zones[z].entities : w.zones[z].entities[i] \in Nat
    BY <2>2, ElementOfSeq, LenProperties
  <2> QED
    BY <2>1, <2>2, <2>3
<1> QED
  BY <1>2, <1>3, <1>4 DEF WorldOK

LEMMA EngineTypes ==
  ASSUME NEW s, s.world = None => s = NewEngine, s.world # None => EngineInv(s)
  PROVE  /\ s.world # None => WorldOK(s.world)
         /\ s.rng.state \in 0..(RngModulus - 1) /\ s.clock \in Nat
<1>1. CASE s.world = None
  BY <1>1, RngAssumption DEF NewEngine
<1>2. CASE s.world # None
  <2>1. WorldInv(s.world) /\ s.world.seed \in Nat /\ s.world.rng \in Draws
    BY <1>2 DEF EngineInv
  <2>2. s.rng.state = s.world.rng /\ s.clock = s.world.tick
    <3>1. EngineInv(s)
      BY <1>2
    <3>2. s.rng = [seed |-> s.world.seed, state |-> s.world.rng] /\ s.clock = s.world.tick
      BY <3>1, EngineFields
    <3> QED
      BY <3>2
  <2>3. s.world.tick \in Nat
    BY <2>1 DEF WorldInv, WorldFrom, IsWorld
  <2>4. WorldOK(s.world)
    BY <2>1, WorldTypes
  <2> QED
    BY <2>1, <2>2, <2>3, <2>4 DEF Draws
<1> QED
  BY <1>1, <1>2

(***************************************************************************)
(* The variables have their types; in particular the state of the RNG      *)
(* stays below its modulus and every zone index holds numbers.             *)
(***************************************************************************)
THEOREM KernelTypeCorrect ==
  ASSUME NoneIsNoWorld
  PROVE  Spec => []TypeOK
<1>1. JInv => TypeOK
  <2> SUFFICES ASSUME JInv PROVE TypeOK
    OBVIOUS
  <2>1. \A e \in {sim, twin} : /\ e.world # None => WorldOK(e.world)
                               /\ e.rng.state \in 0..(RngModulus - 1) /\ e.clock \in Nat
    BY EngineTypes DEF JInv, Engines
  <2>2. snapshot # None => WorldOK(snapshot)
    BY WorldTypes DEF JInv, SnapshotAgrees
  <2>3. \A i \in DOMAIN journal : journal[i].tick \in Nat
    <3>1. journal \in Seq(KernelEvent)
      BY DEF JInv, FirstWorld
    <3>2. \A i \in DOMAIN journal : journal[i] \in KernelEvent
      BY <3>1, ElementOfSeq, LenProperties
    <3> QED
      BY <3>2, KernelEventTypes
  <2> QED
    BY <2>1, <2>2, <2>3 DEF JInv, TypeOK
<1> QED
  BY <1>1, JInvAlways, PTL

(***************************************************************************)
(* Recovery gives back what live execution gave: whatever was executed,    *)
(* saved, rolled back and interrupted, the snapshot decodes, replay takes  *)
(* every event after its cursor, and the world it makes is the one an      *)
(* engine has that ran all journaled commands and never stopped.           *)
(***************************************************************************)
THEOREM RecoveryGivesTheWorldBack ==
  ASSUME NoneIsNoWorld
  PROVE  Spec => []RecoveryParity
<1>1. JInv => RecoveryParity
  <2> SUFFICES ASSUME JInv, snapshot # None PROVE RecoveryParity
    BY DEF RecoveryParity
  <2> DEFINE recovered == ReplayEvents(snapshot, AfterCursor(snapshot))
  <2>1. /\ WorldInv(snapshot) /\ snapshot.snapTick = snapshot.tick
        /\ recovered # None /\ WorldInv(recovered) /\ Alike(recovered, twin.world)
    BY DEF JInv, SnapshotAgrees
  <2>2. ValidSnapshot(snapshot)
    BY <2>1, ValidWorldsDecode
  <2>3. WorldInv(twin.world)
    BY DEF JInv, FirstWorld, Engines, EngineInv
  <2> HIDE DEF recovered
  <2>4. SameWorld(recovered, twin.world)
    BY <2>1, <2>3, AlikeIsSame DEF WorldInv, WorldFrom
  <2> QED
    BY <2>1, <2>2, <2>4 DEF RecoveryParity, recovered
<1> QED
  BY <1>1, JInvAlways, PTL

(***************************************************************************)
(* A process that crashed, recovered, rolled failed appends back, was      *)
(* refused commands and saved is in the state of one that did none of it:  *)
(* same world, same RNG, same clock, so its next tick draws the same       *)
(* numbers.                                                                *)
(***************************************************************************)
THEOREM RecoveredProcessIsTheSame ==
  ASSUME NoneIsNoWorld
  PROVE  Spec => []TwinParity
<1>1. JInv => TwinParity
  <2> SUFFICES ASSUME JInv, pc = "up", sim.world # None PROVE TwinParity
    BY DEF TwinParity
  <2>1. /\ EngineInv(sim) /\ EngineInv(twin) /\ Alike(sim.world, twin.world)
    BY DEF JInv, Engines, LiveAgrees
  <2>2. /\ sim.rng = [seed |-> sim.world.seed, state |-> sim.world.rng]
        /\ twin.rng = [seed |-> twin.world.seed, state |-> twin.world.rng]
        /\ sim.clock = sim.world.tick /\ twin.clock = twin.world.tick
    BY <2>1, EngineFields
  <2>3. SameWorld(sim.world, twin.world)
    BY <2>1, AlikeIsSame DEF EngineInv, WorldInv, WorldFrom
  <2> QED
    BY <2>1, <2>2, <2>3 DEF TwinParity, Alike
<1> QED
  BY <1>1, JInvAlways, PTL

(***************************************************************************)
(* Every world the engine reaches can be saved so that the save decodes:   *)
(* its zone indexes agree with the positions of its entities and its next  *)
(* id is above all of theirs.                                              *)
(***************************************************************************)
THEOREM EveryWorldCanBeSaved ==
  ASSUME NoneIsNoWorld
  PROVE  Spec => []SavesDecode
<1>1. JInv => SavesDecode
  <2> SUFFICES ASSUME JInv, pc = "up", sim.world # None PROVE SavesDecode
    BY DEF SavesDecode
  <2> DEFINE w == sim.world
             n == Len(journal)
             s == Stamped(w, n)
  <2>1. WorldInv(w) /\ n \in Nat
    BY DEF JInv, Engines, FirstWorld, EngineInv
  <2> HIDE DEF w, n
  <2>2. WorldInv(s) /\ s.snapTick = s.tick
    BY <2>1, StampsKeep DEF WorldInv
  <2> HIDE DEF s
  <2>3. ValidSnapshot(s)
    BY <2>2, ValidWorldsDecode
  <2> QED
    BY <2>3 DEF SavesDecode, s, w, n
<1> QED
  BY <1>1, JInvAlways, PTL

-----------------------------------------------------------------------------
(***************************************************************************)
(* What the log says.                                                      *)
(***************************************************************************)
LEMMA LogOfTheWorld ==
  ASSUME JInv
  PROVE  /\ journal = << >> \/ (Logged(twin.world, journal) /\ Closed(twin.world, journal))
         /\ pc = "up" /\ sim.world # None =>
              Logged(sim.world, journal) /\ Closed(sim.world, journal)
<1>1. /\ twin.world = None <=> journal = << >>
      /\ twin.world # None => Logged(twin.world, journal) /\ Closed(twin.world, journal)
      /\ pc = "up" /\ sim.world # None => twin.world # None /\ Alike(sim.world, twin.world)
  BY DEF JInv, FirstWorld, LiveAgrees, JournalAgrees
<1>2. pc = "up" /\ sim.world # None =>
        Logged(sim.world, journal) /\ Closed(sim.world, journal)
  BY <1>1, LoggedAlike
<1> QED
  BY <1>1, <1>2

(***************************************************************************)
(* No two spawns of the log share an id, not even across a recovery or a   *)
(* roll-back of next_entity_id: an id names one entity for ever.           *)
(***************************************************************************)
THEOREM AnIdNamesOneEntity ==
  ASSUME NoneIsNoWorld
  PROVE  Spec => []IdsNeverReused
<1>1. JInv => IdsNeverReused
  <2> SUFFICES ASSUME JInv PROVE IdsNeverReused
    OBVIOUS
  <2>1. CASE journal = << >>
    BY <2>1 DEF IdsNeverReused
  <2>2. CASE Logged(twin.world, journal)
    BY <2>2 DEF Logged, SpawnsDiffer, IdsNeverReused
  <2> QED
    BY <2>1, <2>2, LogOfTheWorld
<1> QED
  BY <1>1, JInvAlways, PTL

(***************************************************************************)
(* What the systems took from a resource is what the log says they took,   *)
(* however often the world was rolled back, saved or replayed: its amount  *)
(* is the one it was spawned with less its depletions.                     *)
(***************************************************************************)
THEOREM AmountsAreLogged ==
  ASSUME NoneIsNoWorld
  PROVE  Spec => []DepletionsAddUp
<1>1. JInv => DepletionsAddUp
  <2> SUFFICES ASSUME JInv, sim.world # None, pc = "up" PROVE DepletionsAddUp
    BY DEF DepletionsAddUp
  <2>1. AmountsAddUp(sim.world, journal)
    BY LogOfTheWorld DEF Logged
  <2> QED
    BY <2>1 DEF AmountsAddUp, Depletions, DepletionsAddUp
<1> QED
  BY <1>1, JInvAlways, PTL

(***************************************************************************)
(* An entity that died by the last reaping tick is not in the world.       *)
(***************************************************************************)
THEOREM TheDeadAreReaped ==
  ASSUME NoneIsNoWorld
  PROVE  Spec => []DeadAreReaped
<1>1. JInv => DeadAreReaped
  <2> SUFFICES ASSUME JInv, sim.world # None, pc = "up" PROVE DeadAreReaped
    BY DEF DeadAreReaped
  <2>1. DeathsRecent(sim.world, journal) /\ TicksDone(journal) = sim.world.tick
    BY LogOfTheWorld DEF Logged, Closed
  <2> QED
    BY <2>1 DEF DeathsRecent, DeadAreReaped
<1> QED
  BY <1>1, JInvAlways, PTL

(***************************************************************************)
(* Every tick is in the log once, closed by its TickProcessed: what is     *)
(* logged at that tick later was not done by the systems.                  *)
(***************************************************************************)
THEOREM EveryTickIsClosedOnce ==
  ASSUME NoneIsNoWorld
  PROVE  Spec => []TicksAreClosed
<1>1. JInv => TicksAreClosed
  <2> SUFFICES ASSUME JInv PROVE TicksAreClosed
    OBVIOUS
  <2>1. CASE journal = << >>
    BY <2>1 DEF TicksAreClosed
  <2>2. CASE Logged(twin.world, journal)
    <3>1. Closing(journal)
      BY <2>2 DEF Logged
    <3> QED
      BY <3>1 DEF Closing, Ticked, TicksAreClosed
  <2> QED
    BY <2>1, <2>2, LogOfTheWorld
<1> QED
  BY <1>1, JInvAlways, PTL

\* A log that steps through the ticks never goes back.
LEMMA SteppingGrows ==
  ASSUME NEW log \in Seq(KernelEvent), NEW w, Stepping(w, log),
         NEW n \in 1..Len(log), NEW m \in n..Len(log)
  PROVE  log[n].tick <= log[m].tick
<1> DEFINE Bad == {k \in Nat : k \in n..Len(log) /\ ~(log[n].tick <= log[k].tick)}
<1>1. \A k \in 1..Len(log) : log[k].tick \in Nat
  BY ElementOfSeq, LenProperties, KernelEventTypes
<1>2. Len(log) \in Nat
  OBVIOUS
<1>3. SUFFICES ASSUME Bad # {} PROVE FALSE
  BY <1>2
<1>4. PICK k \in Bad : \A j \in 0..(k - 1) : j \notin Bad
  <2>1. Bad \subseteq Nat
    OBVIOUS
  <2> HIDE DEF Bad
  <2> QED
    BY <1>3, <2>1, LeastElement
<1>5. k # n
  BY <1>1, <1>2, <1>4
<1>6. k - 1 \in n..Len(log) /\ k - 1 \in 0..(k - 1) /\ k \in 2..Len(log)
  BY <1>2, <1>4, <1>5
<1>7. log[n].tick <= log[k - 1].tick
  BY <1>4, <1>6
<1>8. log[k].tick \in {log[k - 1].tick, log[k - 1].tick + 1}
  BY <1>6 DEF Stepping, TickBefore
<1> QED
  BY <1>1, <1>2, <1>4, <1>6, <1>7, <1>8

(***************************************************************************)
(* The events of a command step through the ticks one at a time from the   *)
(* tick before it: what PersistentSimulation assumes of the batches that   *)
(* it journals, and replay of those it reads.                              *)
(***************************************************************************)
THEOREM CommandsLogShapes ==
  ASSUME NoneIsNoWorld
  PROVE  Spec => BatchesAreShapes
<1> DEFINE before == IF journal = << >> THEN 0 ELSE journal[Len(journal)].tick
           batch == [i \in 1..(Len(journal') - Len(journal)) |->
                       journal'[Len(journal) + i].tick - before]
<1>1. JInv /\ JInv' /\ [Next]_vars => [IsShape(batch)]_journal
  <2> SUFFICES ASSUME JInv, JInv', [Next]_vars, journal' # journal
               PROVE  IsShape(batch)
    OBVIOUS
  <2>1. PICK cmd \in Commands : Execute(cmd) /\ Journal(cmd)
    BY DEF Next, Start, Crash, LoadWorld, SaveWorld, SaveFailsLate, RefuseCommand, Commit,
           AppendFails, AppendFailsLate, vars
  <2> DEFINE events == Outcome(sim, cmd).events
             n == Len(journal)
  <2>2. /\ journal \in Seq(KernelEvent) /\ journal' \in Seq(KernelEvent)
        /\ journal' = journal \o events
        /\ events \in Seq(KernelEvent) /\ events # << >>
        /\ Stepping(twin'.world, journal')
    BY <2>1, SuccessKeeps DEF JInv, FirstWorld, Journal, Logged
  <2> HIDE DEF events
  <2>3. /\ Len(journal') = n + Len(events) /\ n \in Nat /\ Len(events) \in Nat
        /\ Len(events) # 0
    BY <2>2, EmptySeq
  <2>4. \A i \in 1..Len(journal') : journal'[i].tick \in Nat
    BY <2>2, ElementOfSeq, LenProperties, KernelEventTypes
  <2>5. \A i \in 1..n : journal'[i] = journal[i]
    BY <2>2
  <2>6. before \in Nat /\ before = (IF n = 0 THEN 0 ELSE journal'[n].tick)
    <3>1. journal = << >> <=> n = 0
      BY <2>2, EmptySeq
    <3> QED
      BY <2>3, <2>4, <2>5, <3>1
  <2> HIDE DEF before
  <2>7. ASSUME NEW i \in 1..Len(events)
        PROVE  journal'[n + i].tick - before \in Nat
    <3>1. n + i \in 1..Len(journal') /\ i \in Nat /\ i >= 1
      BY <2>3
    <3>2. journal'[n + i].tick \in Nat
      BY <2>4, <3>1
    <3>3. n # 0 => journal'[n].tick <= journal'[n + i].tick
      <4>1. n # 0 => n \in 1..Len(journal') /\ n + i \in n..Len(journal')
        BY <2>3, <3>1
      <4> QED
        BY <2>2, <4>1, SteppingGrows
    <3> QED
      BY <2>4, <2>6, <3>1, <3>2, <3>3
  <2>8. ASSUME NEW i \in 1..Len(events)
        PROVE  LET last == IF i = 1 THEN 0 ELSE journal'[n + (i - 1)].tick - before
               IN  journal'[n + i].tick - before \in {last, last + 1}
    <3>1. n + i \in 1..Len(journal') /\ i \in Nat /\ i >= 1
      BY <2>3
    <3>2. /\ journal'[n + i].tick \in Nat
          /\ journal'[n + i].tick \in {TickBefore(journal', n + i), TickBefore(journal', n + i) + 1}
      BY <2>2, <2>4, <3>1 DEF Stepping
    <3>3. CASE i = 1
      <4>1. TickBefore(journal', n + i) = before
        BY <2>3, <2>6, <3>3 DEF TickBefore
      <4> DEFINE now == journal'[n + i].tick
      <4>2. now \in Nat /\ now \in {before, before + 1}
        BY <3>2, <4>1
      <4> HIDE DEF now
      <4>3. now - before \in {0, 0 + 1}
        BY <2>6, <4>2
      <4> QED
        BY <3>3, <4>3 DEF now
    <3>4. CASE i # 1
      <4>1. n + i # 1 /\ n + (i - 1) = (n + i) - 1 /\ n + (i - 1) \in 1..Len(journal')
        BY <2>3, <3>1, <3>4
      <4>2. TickBefore(journal', n + i) = journal'[n + (i - 1)].tick
        BY <4>1 DEF TickBefore
      <4>3. journal'[n + (i - 1)].tick \in Nat
        BY <2>4, <4>1
      <4> DEFINE now == journal'[n + i].tick
                 past == journal'[n + (i - 1)].tick
      <4>4. now \in Nat /\ past \in Nat /\ now \in {past, past + 1}
        BY <3>2, <4>2, <4>3
      <4> HIDE DEF now, past
      <4>5. now - before \in {past - before, (past - before) + 1}
        BY <2>6, <4>4
      <4> QED
        BY <3>4, <4>5 DEF now, past
    <3> QED
      BY <3>3, <3>4
  <2>9. /\ batch = [i \in 1..Len(events) |-> journal'[n + i].tick - before]
        /\ Len(journal') - Len(journal) = Len(events)
    BY <2>3
  <2> HIDE DEF batch, n
  <2>10. batch \in Seq(Nat) /\ Len(batch) = Len(events) /\ DOMAIN batch = 1..Len(events)
    BY <2>3, <2>7, <2>9
  <2>11. \A i \in 1..Len(events) :
           /\ batch[i] = journal'[n + i].tick - before
           /\ i # 1 => batch[i - 1] = journal'[n + (i - 1)].tick - before
    BY <2>3, <2>9
  <2>12. batch # << >>
    BY <2>3, <2>10
  <2>13. \A i \in 1..Len(events) :
           LET last == IF i = 1 THEN 0 ELSE batch[i - 1] IN batch[i] \in {last, last + 1}
    BY <2>8, <2>11
  <2> QED
    BY <2>10, <2>12, <2>13 DEF IsShape
<1>2. JInv /\ JInv' /\ [Next]_vars =>
        [LET first == IF journal = << >> THEN 0 ELSE journal[Len(journal)].tick
         IN  IsShape([i \in 1..(Len(journal') - Len(journal)) |->
                        journal'[Len(journal) + i].tick - first])]_journal
  BY <1>1
<1> HIDE DEF before, batch
<1> QED
  BY <1>2, JInvAlways, PTL DEF Spec, BatchesAreShapes

=============================================================================
