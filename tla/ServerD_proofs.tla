---------------------------- MODULE ServerD_proofs ----------------------------
(***************************************************************************)
(* Proofs about the daemon, which stops at the first error: what it leaves *)
(* behind when it ends, while it populates a world, and between the ticks  *)
(* of a run, with power cuts and whatever an earlier process left on disk. *)
(***************************************************************************)
EXTENDS ServerD, Recovery_proofs

Saving == {"saveSync", "saveSnapshot", "saveMeta"}

(***************************************************************************)
(* The place in the program and the place in a call of the runtime go      *)
(* together, and a place behind the first call has a world.                *)
(***************************************************************************)
PlaceInv ==
  /\ at \in {"none", "create", "saveGenesis", "populate", "load", "loop",
             "autoSave", "finalSave", "done"}
  /\ at = "none" <=> pc = "down"
  /\ at \in {"create", "load", "finalSave"} => pc \in {"idle", "failed"}
  /\ at \in {"saveGenesis", "autoSave"} => pc \notin Saving
  /\ at \in {"loop", "done"} => pc \notin {"append", "sync"}
  /\ at \notin {"none", "create", "load"} /\ pc \in Running => world # NoWorld

(***************************************************************************)
(* After a save, the meta file is the snapshot's; after the last one, the  *)
(* snapshot is the whole log.                                              *)
(***************************************************************************)
SaveInv ==
  /\ at \in {"populate", "done"} /\ pc \in {"idle", "append", "sync"} =>
       snap # NoFile /\ meta = MetaOf(snap)
  /\ at = "done" /\ pc = "idle" =>
       snap.cursor = Len(Wal) /\ snap.hist = Commands(Wal)

(***************************************************************************)
(* The ticks a run is ahead of its last save, or of the world it loaded.   *)
(***************************************************************************)
AheadOfSave ==
  /\ lastSave <= world.tick
  /\ SaveInterval > 0 =>
       world.tick - lastSave < SaveInterval + (IF at = "autoSave" THEN 1 ELSE 0)
  /\ snap.tick = lastSave \/ world.tick = lastSave + count

PaceInv ==
  /\ count \in Nat /\ lastSave \in Nat
  /\ at = "load" => count = 0
  /\ at \in {"loop", "autoSave"} /\ pc \in {"idle", "append", "sync"} => AheadOfSave
  /\ at = "loop" /\ pc \in Saving => lastSave = world.tick

DaemonInv == PlaceInv /\ SaveInv /\ PaceInv

-----------------------------------------------------------------------------
(***************************************************************************)
(* Every step of the daemon is a step of the runtime, or leaves it alone.  *)
(***************************************************************************)
LEMMA DaemonDrivesRuntime ==
  ASSUME PlaceInv, [DNext]_allVars
  PROVE  [Next]_vars
<1>1. CASE LaunchCreate \/ LaunchRun
  BY <1>1 DEF LaunchCreate, LaunchRun, Launch, Next
<1>2. CASE CallCreate
  BY <1>2 DEF CallCreate, Next
<1>3. CASE SaveGenesis \/ AutoSave \/ FinalSave
  BY <1>3 DEF SaveGenesis, AutoSave, FinalSave, Next
<1>4. CASE SpawnNext
  <2>1. at = "populate" /\ Execute(world, SpawnShape) /\ pc = "idle"
    BY <1>4 DEF SpawnNext, Execute
  <2>2. world # NoWorld
    BY <2>1 DEF PlaceInv, Running
  <2> QED
    BY <2>1, <2>2, SpawnShapeAssumption DEF RunCommand, Next
<1>5. CASE TickOnce
  <2>1. PICK shape \in TickShapes : at = "loop" /\ Execute(world, shape) /\ pc = "idle"
    BY <1>5 DEF TickOnce, Execute
  <2>2. world # NoWorld
    BY <2>1 DEF PlaceInv, Running
  <2> QED
    BY <2>1, <2>2, TickShapesAssumption DEF RunCommand, Next
<1>6. CASE CallLoad
  BY <1>6 DEF CallLoad, Next
<1>7. CASE Populated \/ LeaveLoop \/ NoAutoSave \/ Signal
  BY <1>7 DEF Populated, LeaveLoop, NoAutoSave, Signal
<1>8. CASE End \/ Killed
  BY <1>8 DEF End, Killed, Next
<1>9. CASE WithinCall
  BY <1>9 DEF WithinCall, Next
<1>10. CASE UNCHANGED allVars
  BY <1>10 DEF allVars
<1> QED
  BY <1>1, <1>2, <1>3, <1>4, <1>5, <1>6, <1>7, <1>8, <1>9, <1>10 DEF DNext, Work

-----------------------------------------------------------------------------
(***************************************************************************)
(* Between its calls, and while it saves, a process knows the whole log.   *)
(***************************************************************************)
LEMMA LiveHistory ==
  ASSUME RecoveryInv, pc \in Running \ {"append"}, world # NoWorld
  PROVE  Wal = file /\ world.hist = Commands(Wal)
<1>1. Wal = file /\ Wal \in Seq(Event)
  BY CleanLogIsFile, WalIsPrefix DEF RecoveryInv
<1>2. world \in World /\ Reflects(world)
  BY DEF RecoveryInv, IInv, TypeOK, WorldInv
<1>3. world.hist \in Seq(Nat)
  BY <1>2 DEF World
<1>4. /\ Commands(Wal) \in Seq(Nat) /\ Len(Commands(Wal)) = Len(Wal)
      /\ \A i \in 1..Len(Wal) : Commands(Wal)[i] = Wal[i].cmd
  BY <1>1, CommandsAt
<1>5. /\ Len(world.hist) = Len(Commands(Wal))
      /\ \A i \in 1..Len(world.hist) : world.hist[i] = Commands(Wal)[i]
  BY <1>1, <1>2, <1>4 DEF Reflects
<1>6. world.hist = Commands(Wal)
  BY <1>3, <1>4, <1>5, SeqEqual
<1> QED
  BY <1>1, <1>6

LEMMA InitDaemon == DInit => DaemonInv
BY DEF DInit, Init, DaemonInv, PlaceInv, SaveInv, PaceInv, Running, Saving

LEMMA LaunchDaemon ==
  ASSUME DaemonInv, LaunchCreate \/ LaunchRun
  PROVE  DaemonInv'
<1>1. /\ at' \in {"create", "load"} /\ pc' = "idle"
      /\ count' = 0 /\ lastSave' = 0
  BY DEF LaunchCreate, LaunchRun, Launch, Start
<1> QED
  BY <1>1 DEF DaemonInv, PlaceInv, SaveInv, PaceInv, Running, Saving

LEMMA EndedDaemon ==
  ASSUME DaemonInv, End \/ Killed
  PROVE  DaemonInv'
<1>1. at' = "none" /\ pc' = "down" /\ count' = 0 /\ lastSave' = 0
  BY DEF End, Killed, Ended, Exit, Kill, PowerLoss, Gone
<1> QED
  BY <1>1 DEF DaemonInv, PlaceInv, SaveInv, PaceInv, Running, Saving

LEMMA CommandDaemon ==
  ASSUME RecoveryInv, IInv', DaemonInv, CallCreate \/ SpawnNext \/ TickOnce
  PROVE  DaemonInv'
<1>1. pc = "idle" /\ pc' = "append" /\ UNCHANGED <<snap, meta>>
  BY DEF CallCreate, SpawnNext, TickOnce, CreateWorld, Execute, storeVars
<1>2. world' # NoWorld
  BY <1>1 DEF IInv, TypeOK
<1>3. CASE CallCreate
  <2>1. at' = "saveGenesis" /\ UNCHANGED <<count, lastSave>>
    BY <1>3 DEF CallCreate, Go
  <2> QED
    BY <1>1, <1>2, <2>1 DEF DaemonInv, PlaceInv, SaveInv, PaceInv, Running, Saving
<1>4. CASE SpawnNext
  <2>1. at = "populate" /\ at' = "populate" /\ count' = count + 1 /\ lastSave' = lastSave
    BY <1>4 DEF SpawnNext, Go
  <2> QED
    BY <1>1, <1>2, <2>1 DEF DaemonInv, PlaceInv, SaveInv, PaceInv, Running, Saving
<1>5. CASE TickOnce
  <2>1. at = "loop" /\ at' = "autoSave" /\ count' = count + 1 /\ lastSave' = lastSave
    BY <1>5 DEF TickOnce, Go
  <2>2. PICK shape \in TickShapes : Execute(world, shape)
    BY <1>5 DEF TickOnce
  <2>3. world \in World /\ world.tick \in Nat
    BY <1>1, <2>1 DEF DaemonInv, PlaceInv, Running, RecoveryInv, IInv, TypeOK, World
  <2>4. world'.tick = world.tick + 1
    <3>1. IsShape(shape) /\ \A i \in DOMAIN shape : shape[i] = 1
      BY ShapesAssumption, TickShapesAssumption
    <3>2. Len(shape) \in DOMAIN shape
      BY <3>1, LenProperties, EmptySeq DEF IsShape
    <3> QED
      BY <2>2, <3>1, <3>2 DEF Execute, Applied
  <2>5. AheadOfSave /\ count \in Nat /\ lastSave \in Nat
    BY <1>1, <2>1 DEF DaemonInv, PaceInv
  <2>6. AheadOfSave'
    BY <1>1, <2>1, <2>3, <2>4, <2>5, DaemonAssumption DEF AheadOfSave
  <2>7. PaceInv'
    BY <1>1, <2>1, <2>5, <2>6 DEF PaceInv
  <2> QED
    BY <1>1, <1>2, <2>1, <2>7 DEF DaemonInv, PlaceInv, SaveInv, Running, Saving
<1> QED
  BY <1>3, <1>4, <1>5

LEMMA BegunSaveDaemon ==
  ASSUME RecoveryInv, DaemonInv, SaveGenesis \/ AutoSave \/ FinalSave
  PROVE  DaemonInv'
<1>1. pc' = "saveSync" /\ world' = world /\ world # NoWorld
  BY DEF SaveGenesis, AutoSave, FinalSave, BeginSave
<1>2. world.tick \in Nat
  BY <1>1 DEF RecoveryInv, IInv, TypeOK, World
<1>3. CASE SaveGenesis \/ FinalSave
  <2>1. at' \in {"populate", "done"} /\ UNCHANGED <<count, lastSave>>
    BY <1>3 DEF SaveGenesis, FinalSave, Go
  <2> QED
    BY <1>1, <2>1 DEF DaemonInv, PlaceInv, SaveInv, PaceInv, Running, Saving
<1>4. CASE AutoSave
  <2>1. at' = "loop" /\ count' = count /\ lastSave' = world.tick
    BY <1>4 DEF AutoSave, Go
  <2> QED
    BY <1>1, <1>2, <2>1 DEF DaemonInv, PlaceInv, SaveInv, PaceInv, Running, Saving
<1> QED
  BY <1>3, <1>4

LEMMA CallLoadDaemon ==
  ASSUME RecoveryInv, DaemonInv, CallLoad
  PROVE  DaemonInv'
<1>1. /\ at = "load" /\ at' = "loop" /\ pc = "idle" /\ pc' = "idle"
      /\ count' = count /\ lastSave' = world'.tick
      /\ Recoverable(Wal, log.next - 1) /\ world' = Replayed(Wal)
  BY DEF CallLoad, LoadWorld, Go, Wal
<1>2. world' \in World
  BY <1>1, ReplayedHistory DEF RecoveryInv
<1>3. world' # NoWorld /\ world'.tick \in Nat /\ count = 0
  BY <1>1, <1>2, NoWorldAssumption DEF World, DaemonInv, PaceInv
<1>4. AheadOfSave'
  BY <1>1, <1>3, DaemonAssumption DEF AheadOfSave
<1> QED
  BY <1>1, <1>3, <1>4 DEF DaemonInv, PlaceInv, SaveInv, PaceInv, Running, Saving

LEMMA MovedOnDaemon ==
  ASSUME RecoveryInv, DaemonInv, Populated \/ LeaveLoop \/ NoAutoSave
  PROVE  DaemonInv'
<1>1. /\ pc = "idle" /\ at \in {"populate", "loop", "autoSave"}
      /\ UNCHANGED <<pc, world, snap, meta, count, lastSave>>
  BY DEF Populated, LeaveLoop, NoAutoSave, vars, procVars, storeVars
<1>2. world # NoWorld
  BY <1>1 DEF DaemonInv, PlaceInv, Running
<1>3. CASE Populated \/ LeaveLoop
  <2>1. at' = "finalSave"
    BY <1>3 DEF Populated, LeaveLoop, Go
  <2> QED
    BY <1>1, <1>2, <2>1 DEF DaemonInv, PlaceInv, SaveInv, PaceInv, Running, Saving
<1>4. CASE NoAutoSave
  <2>1. at = "autoSave" /\ at' = "loop" /\ ~SaveDue
    BY <1>4 DEF NoAutoSave, Go
  <2>2. AheadOfSave /\ world.tick \in Nat /\ lastSave \in Nat
    BY <1>1, <1>2, <2>1 DEF DaemonInv, PaceInv, RecoveryInv, IInv, TypeOK, World
  <2>3. AheadOfSave'
    BY <1>1, <2>1, <2>2, DaemonAssumption DEF AheadOfSave, SaveDue
  <2> QED
    BY <1>1, <1>2, <2>1, <2>3 DEF DaemonInv, PlaceInv, SaveInv, PaceInv, Running, Saving
<1> QED
  BY <1>3, <1>4

LEMMA WithinCallDaemon ==
  ASSUME RecoveryInv, IInv', TickInv, DaemonInv, WithinCall
  PROVE  DaemonInv'
<1>1. UNCHANGED <<at, count, lastSave>> /\ IInv
  BY DEF WithinCall, dVars, RecoveryInv
<1>2. CASE AppendFails \/ SyncFails \/ AbortSave \/ RefuseCall
  <2>1. pc # "down" /\ pc' = "failed"
    BY <1>2 DEF AppendFails, SyncFails, RollBack, AbortSave, RefuseCall
  <2> QED
    BY <1>1, <2>1 DEF DaemonInv, PlaceInv, SaveInv, PaceInv, Running, Saving
<1>3. CASE AppendRecord \/ Acknowledge
  <2>1. /\ pc \in {"append", "sync"} /\ pc' \in {"sync", "idle"}
        /\ UNCHANGED <<world, snap, meta>>
    BY <1>3 DEF AppendRecord, Acknowledge, storeVars
  <2>2. at \in {"saveGenesis", "populate", "autoSave"} /\ world # NoWorld
    BY <2>1 DEF DaemonInv, PlaceInv, Running
  <2>3. AheadOfSave' = AheadOfSave
    BY <1>1, <2>1 DEF AheadOfSave
  <2> QED
    BY <1>1, <2>1, <2>2, <2>3 DEF DaemonInv, PlaceInv, SaveInv, PaceInv, Running, Saving
<1>4. CASE SaveSync \/ WriteSnapshot
  <2>1. pc \in Saving /\ pc' \in Saving /\ world' = world
    BY <1>4 DEF SaveSync, WriteSnapshot, Saving
  <2>2. at \in {"populate", "loop", "done"} /\ world # NoWorld
    BY <2>1 DEF DaemonInv, PlaceInv, Running, Saving
  <2> QED
    BY <1>1, <2>1, <2>2 DEF DaemonInv, PlaceInv, SaveInv, PaceInv, Running, Saving
<1>5. CASE FinishSave
  <2>1. /\ pc = "saveMeta" /\ pc' = "idle" /\ world' = saving /\ snap' = snap
        /\ meta' = MetaOf(saving) /\ file' = file
    BY <1>5 DEF FinishSave, SaveMeta, walVars
  <2>2. world # NoWorld /\ saving # NoWorld /\ saving \in World
    BY <1>1, <2>1 DEF IInv, TypeOK
  <2>3. snap = saving /\ saving.tick = world.tick
    BY <2>1, <2>2 DEF TickInv, LiveTicks
  <2>4. at \in {"populate", "loop", "done"}
    BY <2>1 DEF DaemonInv, PlaceInv, Running, Saving
  <2>5. snap' # NoFile /\ meta' = MetaOf(snap')
    BY <2>1, <2>2, <2>3, NoFileAssumption
  <2>6. snap'.cursor = Len(Wal') /\ snap'.hist = Commands(Wal)'
    <3>1. Wal = file /\ world.hist = Commands(Wal)
      BY <2>1, <2>2, LiveHistory DEF Running
    <3>2. saving.cursor = Len(file) /\ saving.hist = world.hist
      BY <2>1 DEF RecoveryInv, WorldInv
    <3>3. Wal' = Wal /\ Commands(Wal)' = Commands(Wal)
      BY <2>1 DEF Wal, Commands
    <3> QED
      BY <2>1, <2>3, <3>1, <3>2, <3>3
  <2>7. ASSUME at = "loop" PROVE AheadOfSave'
    <3>1. lastSave = world.tick /\ world.tick \in Nat
      BY <2>1, <2>2, <2>3, <2>7 DEF DaemonInv, PaceInv, Saving, World
    <3> QED
      BY <1>1, <2>1, <2>3, <2>7, <3>1, DaemonAssumption DEF AheadOfSave
  <2>8. SaveInv'
    BY <2>1, <2>5, <2>6 DEF SaveInv
  <2>9. PaceInv'
    BY <1>1, <2>1, <2>4, <2>7 DEF DaemonInv, PaceInv, Saving
  <2> QED
    BY <1>1, <2>1, <2>2, <2>4, <2>8, <2>9 DEF DaemonInv, PlaceInv, Running, Saving
<1> QED
  BY <1>2, <1>3, <1>4, <1>5 DEF WithinCall

LEMMA QuietDaemon ==
  ASSUME DaemonInv, Signal \/ UNCHANGED allVars
  PROVE  DaemonInv'
<1>1. UNCHANGED <<at, count, lastSave, pc, world, snap, meta, file>>
  BY DEF Signal, allVars, dVars, vars, walVars, storeVars, procVars
<1>2. Wal' = Wal /\ Commands(Wal)' = Commands(Wal)
  BY <1>1 DEF Wal, Commands
<1>3. AheadOfSave' = AheadOfSave
  BY <1>1 DEF AheadOfSave
<1> QED
  BY <1>1, <1>2, <1>3 DEF DaemonInv, PlaceInv, SaveInv, PaceInv

-----------------------------------------------------------------------------
LEMMA NextDaemon ==
  ASSUME ~RetryAfterError, RuntimeInv, DaemonInv, [DNext]_allVars
  PROVE  RuntimeInv' /\ DaemonInv'
<1>1. [Next]_vars
  BY DaemonDrivesRuntime DEF DaemonInv
<1>2. RuntimeInv' /\ IInv'
  BY <1>1, NextRuntime
<1> SUFFICES DaemonInv'
  BY <1>2
<1>3. CASE LaunchCreate \/ LaunchRun
  BY <1>3, LaunchDaemon
<1>4. CASE CallCreate \/ SpawnNext \/ TickOnce
  BY <1>2, <1>4, CommandDaemon DEF RuntimeInv
<1>5. CASE SaveGenesis \/ AutoSave \/ FinalSave
  BY <1>5, BegunSaveDaemon DEF RuntimeInv
<1>6. CASE CallLoad
  BY <1>6, CallLoadDaemon DEF RuntimeInv
<1>7. CASE Populated \/ LeaveLoop \/ NoAutoSave
  BY <1>7, MovedOnDaemon DEF RuntimeInv
<1>8. CASE End \/ Killed
  BY <1>8, EndedDaemon
<1>9. CASE WithinCall
  BY <1>2, <1>9, WithinCallDaemon DEF RuntimeInv
<1>10. CASE Signal \/ UNCHANGED allVars
  BY <1>10, QuietDaemon
<1> QED
  BY <1>3, <1>4, <1>5, <1>6, <1>7, <1>8, <1>9, <1>10 DEF DNext, Work

LEMMA DaemonInvariant ==
  ASSUME ~RetryAfterError
  PROVE  DSpec => [](RuntimeInv /\ DaemonInv)
<1>1. DInit => RuntimeInv /\ DaemonInv
  BY InitRuntime, InitDaemon DEF DInit
<1>2. RuntimeInv /\ DaemonInv /\ [DNext]_allVars => RuntimeInv' /\ DaemonInv'
  BY NextDaemon
<1> QED
  BY <1>1, <1>2, PTL DEF DSpec

(***************************************************************************)
(* A daemon that ends without an error leaves a snapshot and a meta file   *)
(* of the world that the whole log records, whatever failed, was killed or *)
(* lost its power before: cmd_create and cmd_run save last, and a save     *)
(* takes the cursor of the log it has just synced.                         *)
(***************************************************************************)
THEOREM CleanEndStaysSaved ==
  ASSUME ~RetryAfterError
  PROVE  DSpec => []CleanEndIsSaved
<1>1. DaemonInv => CleanEndIsSaved
  BY DEF DaemonInv, SaveInv, CleanEndIsSaved
<1> QED
  BY <1>1, DaemonInvariant, PTL

(***************************************************************************)
(* Between two ticks a run is never SaveInterval ticks ahead of the world  *)
(* it saved last, or loaded: the loop of cmd_run saves after the tick that *)
(* makes a save due.                                                       *)
(***************************************************************************)
THEOREM AutoSaveStaysUp ==
  ASSUME ~RetryAfterError
  PROVE  DSpec => []AutoSaveKeepsUp
<1>1. ASSUME RuntimeInv, DaemonInv, at = "loop", pc = "idle", SaveInterval > 0
      PROVE  /\ world.tick - lastSave < SaveInterval
             /\ snap.tick = lastSave \/ world.tick = lastSave + count
  <2>1. AheadOfSave
    BY <1>1 DEF DaemonInv, PaceInv
  <2>2. world.tick \in Nat /\ lastSave \in Nat
    BY <1>1 DEF DaemonInv, PlaceInv, PaceInv, Running, RuntimeInv, RecoveryInv, IInv, TypeOK, World
  <2> QED
    BY <1>1, <2>1, <2>2, DaemonAssumption DEF AheadOfSave
<1>2. RuntimeInv /\ DaemonInv => AutoSaveKeepsUp
  BY <1>1 DEF AutoSaveKeepsUp
<1> QED
  BY <1>2, DaemonInvariant, PTL

-----------------------------------------------------------------------------
(***************************************************************************)
(* The save of the genesis world.  There is no meta.json before it; it     *)
(* syncs the log, whose writer the creation opened; behind it the snapshot *)
(* has its meta, and the log has been synced as far as both.               *)
(***************************************************************************)
Kept ==
  /\ snap # NoFile /\ meta = MetaOf(snap)
  /\ snap.cursor <= synced /\ snap.cursor <= Len(Wal)

GenesisInv ==
  /\ at = "saveGenesis" => meta = NoFile /\ (pc \in {"sync", "idle"} => log.open)
  /\ at = "populate" /\ pc \in Saving =>
       /\ meta = NoFile
       /\ pc = "saveSync" => log.open
       /\ pc # "saveSync" => synced = Len(file)
  /\ at = "populate" /\ pc \notin Saving /\ meta # NoFile => Kept

LEMMA KeptInside ==
  ASSUME ~RetryAfterError, RuntimeInv, [Next]_vars, ~PowerLoss, Kept,
         UNCHANGED <<snap, meta>>, synced' \in Nat, synced <= synced'
  PROVE  Kept'
<1>1. IInv /\ IInv' /\ WalGrows
  BY NextRuntime, NextGrows DEF RuntimeInv, RecoveryInv
<1>2. /\ snap.cursor \in Nat /\ synced \in Nat
      /\ Len(Wal) \in Nat /\ Wal' \in Seq(Event) /\ Len(Wal') \in Nat
  <2>1. snap \in World /\ synced \in 0..Len(file) /\ Len(file) \in Nat
    BY <1>1, FileFacts DEF Kept, IInv, TypeOK
  <2> QED
    BY <1>1, <2>1, TickTypes, NextFileFacts, LenProperties DEF World
<1> QED
  BY <1>1, <1>2 DEF Kept, WalGrows

LEMMA CreationGenesis ==
  ASSUME RenamesLast, RuntimeInv, CallCreate
  PROVE  GenesisInv'
<1>1. /\ ~dir /\ at' = "saveGenesis" /\ pc' = "append" /\ UNCHANGED <<snap, meta>>
  BY DEF CallCreate, CreateWorld, CreateAllowed, StorageStatus, Execute, Go, storeVars
<1>2. meta # NoFile => snap # NoFile
  BY DEF RuntimeInv, TickInv, DiskTicks, MetaInv, MetaTrails
<1>3. snap # NoFile => dir
  BY DEF RuntimeInv, RecoveryInv, SnapInv, Snapshots
<1> QED
  BY <1>1, <1>2, <1>3 DEF GenesisInv

LEMMA CommandGenesis ==
  ASSUME ~RetryAfterError, RuntimeInv, DaemonInv, GenesisInv, [Next]_vars,
         UNCHANGED at,
         AppendRecord \/ Acknowledge \/ AppendFails \/ SyncFails \/ RefuseCall
  PROVE  GenesisInv'
<1>1. IInv /\ IInv' /\ synced \in 0..Len(file) /\ Len(file) \in Nat
  BY NextRuntime, FileFacts DEF RuntimeInv, RecoveryInv
<1>2. /\ pc \in {"append", "sync", "idle"} /\ pc' \in {"sync", "idle", "failed"}
      /\ UNCHANGED <<snap, meta>>
  BY DEF AppendRecord, Acknowledge, AppendFails, SyncFails, RollBack, RefuseCall, storeVars
<1>3. ~PowerLoss
  BY <1>2 DEF PowerLoss, Gone
<1>4. synced' \in Nat /\ synced <= synced'
  <2>1. synced' = synced \/ synced' = Len(file)
    BY DEF AppendRecord, WriteAndFlush, Acknowledge, SyncAndNumber, AppendFails, WriteFails,
           SyncFails, RefuseCall, walVars
  <2> QED
    BY <1>1, <2>1
<1>5. at = "saveGenesis" /\ pc' \in {"sync", "idle"} => log'.open
  <2>1. CASE AppendRecord
    <3>1. log' = [log EXCEPT !.open = TRUE]
      BY <2>1 DEF AppendRecord, WriteAndFlush
    <3> QED
      BY <1>1, <3>1 DEF IInv, TypeOK
  <2>2. CASE Acknowledge
    <3>1. /\ pc = "sync"
          /\ log' = [log EXCEPT !.next = @ + Len(batch), !.total = @ + Len(batch)]
      BY <2>2 DEF Acknowledge, SyncAndNumber
    <3>2. log'.open = log.open
      BY <1>1, <3>1 DEF IInv, TypeOK
    <3> QED
      BY <3>1, <3>2 DEF GenesisInv
  <2>3. CASE AppendFails \/ SyncFails \/ RefuseCall
    BY <2>3 DEF AppendFails, SyncFails, RollBack, RefuseCall
  <2> QED
    BY <2>1, <2>2, <2>3
<1>6. Kept => Kept'
  BY <1>2, <1>3, <1>4, KeptInside
<1> QED
  BY <1>2, <1>5, <1>6 DEF GenesisInv, Saving

LEMMA SavingGenesis ==
  ASSUME ~RetryAfterError, RuntimeInv, DaemonInv, GenesisInv, [Next]_vars,
         UNCHANGED at, SaveSync \/ WriteSnapshot \/ FinishSave \/ AbortSave
  PROVE  GenesisInv'
<1>1. IInv /\ IInv' /\ RecoveryInv /\ pc \in Saving
  BY NextRuntime DEF RuntimeInv, RecoveryInv, SaveSync, WriteSnapshot, FinishSave, AbortSave,
                     Saving
<1>2. at # "saveGenesis"
  BY <1>1 DEF DaemonInv, PlaceInv
<1> SUFFICES ASSUME at = "populate" PROVE GenesisInv'
  BY <1>2 DEF GenesisInv
<1>3. meta = NoFile
  BY <1>1 DEF GenesisInv
<1>4. CASE SaveSync
  <2>1. log.open /\ pc' = "saveSnapshot" /\ meta' = meta /\ synced' = Len(file')
    BY <1>4 DEF SaveSync, SyncLog, GenesisInv, Saving, storeVars
  <2> QED
    BY <1>3, <2>1 DEF GenesisInv, Saving
<1>5. CASE WriteSnapshot
  <2>1. /\ pc = "saveSnapshot" /\ pc' = "saveMeta"
        /\ UNCHANGED <<meta, synced, file>>
    BY <1>5 DEF WriteSnapshot, SaveSnapshot, walVars
  <2>2. synced = Len(file)
    BY <2>1 DEF GenesisInv, Saving
  <2> QED
    BY <1>3, <2>1, <2>2 DEF GenesisInv, Saving
<1>6. CASE FinishSave
  <2>1. /\ pc = "saveMeta" /\ pc' = "idle" /\ snap' = snap
        /\ meta' = MetaOf(saving) /\ UNCHANGED <<file, synced>>
    BY <1>6 DEF FinishSave, SaveMeta, walVars
  <2>2. world # NoWorld /\ saving # NoWorld /\ saving \in World
    BY <1>1, <2>1 DEF IInv, TypeOK
  <2>3. snap = saving /\ saving.cursor = Len(file) /\ synced = Len(file)
    BY <2>1 DEF RuntimeInv, TickInv, LiveTicks, RecoveryInv, WorldInv, GenesisInv, Saving
  <2>4. Wal' = file /\ Len(file) \in Nat
    <3>1. Wal = file /\ Len(file) \in Nat
      BY <1>1, <2>1, <2>2, LiveHistory, FileFacts DEF Running
    <3> QED
      BY <2>1, <3>1 DEF Wal
  <2>5. Kept'
    BY <2>1, <2>2, <2>3, <2>4, NoFileAssumption DEF Kept, MetaOf
  <2> QED
    BY <1>2, <2>1, <2>5 DEF GenesisInv, Saving
<1>7. CASE AbortSave
  <2>1. pc' = "failed" /\ meta' = meta
    BY <1>7 DEF AbortSave, SaveFails, storeVars
  <2> QED
    BY <1>3, <2>1 DEF GenesisInv, Saving
<1> QED
  BY <1>4, <1>5, <1>6, <1>7

LEMMA NextGenesis ==
  ASSUME ~RetryAfterError, RenamesLast, RuntimeInv, DaemonInv, GenesisInv, [DNext]_allVars
  PROVE  GenesisInv'
<1>1. [Next]_vars
  BY DaemonDrivesRuntime DEF DaemonInv
<1>2. CASE CallCreate
  BY <1>2, CreationGenesis
<1>3. CASE SaveGenesis
  <2>1. /\ at = "saveGenesis" /\ at' = "populate" /\ pc = "idle" /\ pc' = "saveSync"
        /\ UNCHANGED <<log, meta>>
    BY <1>3 DEF SaveGenesis, BeginSave, Go, walVars, storeVars
  <2> QED
    BY <2>1 DEF GenesisInv, Saving
<1>4. CASE WithinCall
  <2>1. UNCHANGED at
    BY <1>4 DEF WithinCall, dVars
  <2> QED
    BY <1>1, <1>4, <2>1, CommandGenesis, SavingGenesis DEF WithinCall
<1>5. CASE SpawnNext
  <2>1. /\ at = "populate" /\ at' = "populate" /\ pc = "idle" /\ pc' = "append"
        /\ UNCHANGED <<file, synced, snap, meta>>
    BY <1>5 DEF SpawnNext, Execute, Go, walVars, storeVars
  <2>2. Kept' = Kept
    BY <2>1 DEF Kept, Wal, MetaOf
  <2> QED
    BY <2>1, <2>2 DEF GenesisInv, Saving
<1>6. CASE Signal \/ UNCHANGED allVars
  <2>1. UNCHANGED <<at, pc, log, file, synced, snap, meta>>
    BY <1>6 DEF Signal, allVars, dVars, vars, walVars, storeVars, procVars
  <2>2. Kept' = Kept
    BY <2>1 DEF Kept, Wal, MetaOf
  <2> QED
    BY <2>1, <2>2 DEF GenesisInv
<1>7. CASE \/ LaunchCreate \/ LaunchRun \/ Populated \/ CallLoad \/ LeaveLoop \/ TickOnce
           \/ AutoSave \/ NoAutoSave \/ FinalSave \/ End \/ Killed
  <2>1. at' \notin {"saveGenesis", "populate"}
    BY <1>7 DEF LaunchCreate, LaunchRun, Launch, Populated, CallLoad, LeaveLoop, TickOnce,
                AutoSave, NoAutoSave, FinalSave, End, Killed, Ended, Go
  <2> QED
    BY <2>1 DEF GenesisInv
<1> QED
  BY <1>2, <1>3, <1>4, <1>5, <1>6, <1>7 DEF DNext, Work

(***************************************************************************)
(* A power cut takes nothing that is synced, and no rename.                *)
(***************************************************************************)
LEMMA KeptInPowerLoss ==
  ASSUME ~RetryAfterError, RenamesLast, RuntimeInv, [Next]_vars, Kept, PowerLoss
  PROVE  Kept'
<1>1. IInv /\ IInv' /\ PowerLossPossible /\ CutPower
  BY NextRuntime DEF RuntimeInv, RecoveryInv, PowerLoss
<1>2. UNCHANGED <<snap, meta>>
  <2>1. kept = {[snap |-> snap, meta |-> meta]}
    BY <1>1 DEF RuntimeInv, TickInv, DiskTicks, MetaInv
  <2> QED
    BY <2>1 DEF PowerLoss, RevertRenames
<1>3. /\ snap.cursor \in Nat /\ snap.cursor <= synced /\ snap.cursor <= Len(Wal)
      /\ file \in Seq(Cell) /\ Len(file) \in Nat /\ synced \in 0..Len(file)
      /\ Len(Wal) \in Nat /\ Wal' \in Seq(Event) /\ Len(Wal') \in Nat
  <2>1. snap \in World
    BY <1>1 DEF Kept, IInv, TypeOK
  <2> QED
    BY <1>1, <2>1, TickTypes, FileFacts, NextFileFacts, LenProperties DEF Kept, World
<1>4. PICK n \in 0..Len(file), tail \in {<< >>, <<Torn>>} :
        n >= synced /\ file' = SubSeq(file, 1, n) \o tail
    BY <1>1 DEF CutPower, RecordEnds
<1>5. /\ Len(file') >= n /\ Len(file') \in Nat
      /\ \A i \in 1..n : file'[i] = file[i]
  <2>1. /\ SubSeq(file, 1, n) \in Seq(Cell) /\ Len(SubSeq(file, 1, n)) = n
        /\ \A i \in 1..n : SubSeq(file, 1, n)[i] = file[i]
    <3>1. \A i \in 1..n : file[i] \in Cell
      BY <1>3, <1>4, ElementOfSeq
    <3> QED
      BY <1>3, <1>4, <3>1, SubSeqProperties
  <2>2. tail \in Seq(Cell) /\ Len(tail) \in Nat
    <3>1. << >> \in Seq(Cell) /\ Len(<< >>) = 0
      OBVIOUS
    <3>2. Torn \in Cell
      BY DEF Cell
    <3>3. <<Torn>> \in Seq(Cell) /\ Len(<<Torn>>) = 1
      BY <3>2
    <3> QED
      BY <1>4, <3>1, <3>3
  <2> QED
    BY <1>4, <2>1, <2>2, ConcatProperties
<1>6. snap'.cursor <= synced' /\ snap'.cursor <= Len(Wal')
  <2>1. synced' = Len(file') /\ snap.cursor <= n
    BY <1>1, <1>3, <1>4 DEF CutPower
  <2>2. CASE snap.cursor = 0
    BY <1>2, <1>3, <1>5, <2>1, <2>2
  <2>3. CASE snap.cursor # 0
    <3>1. snap.cursor \in 1..n /\ snap.cursor \in 1..Len(Wal) /\ snap.cursor \in 1..Len(file')
      BY <1>3, <1>4, <1>5, <2>1, <2>3
    <3>2. file'[snap.cursor] # Torn
      BY <1>1, <1>5, <3>1, WalIsPrefix
    <3>3. snap.cursor <= Len(Wal')
      BY <1>1, <3>1, <3>2, NextFileFacts
    <3> QED
      BY <1>2, <1>3, <1>5, <2>1, <3>3
  <2> QED
    BY <2>2, <2>3
<1> QED
  BY <1>2, <1>6 DEF Kept, MetaOf

LEMMA KeptIsUsable ==
  ASSUME RuntimeInv, Kept
  PROVE  Usable
<1>1. RecoveryInv /\ IInv /\ DiskTicks /\ snap \in World
  BY DEF RuntimeInv, RecoveryInv, TickInv, IInv, TypeOK, Kept
<1>2. Listed /\ MetaAcceptable
  <2>1. MetaOf(snap) \in Meta
    BY <1>1 DEF MetaOf, Meta, World
  <2> QED
    BY <2>1, NoFileAssumption DEF Kept, Listed, MetaAcceptable
<1>3. Recoverable(Wal, LastId(Wal))
  BY <1>1, <1>2, SavedIsRecoverable DEF Kept
<1>4. Replayed(Wal).hist = Commands(Wal)
  BY <1>1, <1>3, ReplayedHistory DEF RecoveryInv
<1>5. ASSUME NEW c \in acked
      PROVE  c \in {Replayed(Wal).hist[i] : i \in DOMAIN Replayed(Wal).hist}
  <2>1. PICK i \in 1..synced : file[i] # Torn /\ file[i].cmd = c
    BY <1>1 DEF IInv, AckInv
  <2>2. i \in 1..Len(Wal) /\ Wal[i] = file[i]
    <3>1. i \in 1..Len(file)
      BY <1>1, FileFacts
    <3> QED
      BY <1>1, <2>1, <3>1, WalIsPrefix
  <2>3. i \in DOMAIN Commands(Wal) /\ Commands(Wal)[i] = c
    BY <2>1, <2>2 DEF Commands
  <2> QED
    BY <1>4, <2>3
<1> QED
  BY <1>2, <1>3, <1>5 DEF Usable

LEMMA GenesisStaysKept ==
  ASSUME ~RetryAfterError, RenamesLast, RuntimeInv, DaemonInv, GenesisInv,
         [DNext]_allVars, GenesisSaved
  PROVE  Kept'
<1>1. [Next]_vars /\ IInv /\ synced \in 0..Len(file) /\ Len(file) \in Nat
  BY DaemonDrivesRuntime, FileFacts DEF DaemonInv, RuntimeInv, RecoveryInv
<1>2. at = "populate" /\ pc \in {"idle", "append", "sync", "failed"} /\ Kept
  <2>1. at = "populate" /\ pc \in {"idle", "append", "sync", "failed"}
    BY DEF GenesisSaved
  <2>2. meta # NoFile
    <3>1. CASE pc = "failed"
      BY <3>1 DEF GenesisSaved, Listed
    <3>2. CASE pc # "failed"
      <4>1. snap # NoFile /\ meta = MetaOf(snap)
        BY <2>1, <3>2 DEF DaemonInv, SaveInv
      <4>2. MetaOf(snap) \in Meta
        BY <1>1, <4>1 DEF IInv, TypeOK, MetaOf, Meta, World
      <4> QED
        BY <4>1, <4>2, NoFileAssumption
    <3> QED
      BY <3>1, <3>2
  <2> QED
    BY <2>1, <2>2 DEF GenesisInv, Saving
<1>3. CASE PowerLoss
  BY <1>1, <1>2, <1>3, KeptInPowerLoss
<1>4. CASE ~PowerLoss
  <2>1. /\ UNCHANGED <<snap, meta>>
        /\ synced' = synced \/ synced' = Len(file)
    <3>1. CASE WithinCall
      BY <1>2, <3>1
         DEF WithinCall, AppendRecord, WriteAndFlush, Acknowledge, SyncAndNumber, AppendFails,
             WriteFails, SyncFails, RefuseCall, SaveSync, WriteSnapshot, FinishSave, AbortSave,
             Saving, walVars, storeVars
    <3>2. CASE SpawnNext \/ Populated \/ Signal \/ UNCHANGED allVars
      BY <3>2 DEF SpawnNext, Execute, Populated, Signal, allVars, vars, walVars, storeVars
    <3>3. CASE End \/ Killed
      BY <1>4, <3>3 DEF End, Exit, DropLog, Killed, Kill, KillLog, storeVars
    <3>4. CASE \/ LaunchCreate \/ LaunchRun \/ CallCreate \/ SaveGenesis \/ CallLoad
               \/ LeaveLoop \/ TickOnce \/ AutoSave \/ NoAutoSave \/ FinalSave
      BY <1>2, <3>4 DEF LaunchCreate, LaunchRun, Launch, Start, CallCreate, SaveGenesis,
                        CallLoad, LeaveLoop, TickOnce, AutoSave, NoAutoSave, FinalSave
    <3> QED
      BY <3>1, <3>2, <3>3, <3>4 DEF DNext, Work
  <2> QED
    BY <1>1, <1>2, <1>4, <2>1, KeptInside
<1> QED
  BY <1>3, <1>4

(***************************************************************************)
(* From the first spawn of cmd_create on, the disk holds a listed world    *)
(* that a run can load and that has every acknowledged command, whatever   *)
(* the next step is: of the process itself, its end after a failure, a     *)
(* kill, or a power cut.  For power cuts this takes directory syncs that   *)
(* work: without them a cut can undo the renames of the genesis save.      *)
(***************************************************************************)
THEOREM PopulatingStaysRecoverable ==
  ASSUME ~RetryAfterError, ~PowerLossPossible \/ ~DirectorySyncFails
  PROVE  DSpec => PopulatingIsRecoverable
<1>1. RenamesLast
  BY DEF RenamesLast
<1>2. DInit => GenesisInv
  BY DEF DInit, GenesisInv
<1>3. RuntimeInv /\ DaemonInv /\ GenesisInv /\ [DNext]_allVars => GenesisInv'
  BY <1>1, NextGenesis
<1>4. RuntimeInv /\ DaemonInv /\ GenesisInv /\ [DNext]_allVars =>
        (GenesisSaved => Kept')
  BY <1>1, GenesisStaysKept
<1>5. RuntimeInv /\ Kept => Usable
  BY KeptIsUsable
<1> QED
  BY <1>2, <1>3, <1>4, <1>5, DaemonInvariant, PTL DEF DSpec, PopulatingIsRecoverable

=============================================================================
