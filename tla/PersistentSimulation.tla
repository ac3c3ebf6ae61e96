------------------------ MODULE PersistentSimulation ------------------------
(***************************************************************************)
(* The persistent runtime of one world (sy_infra, runtime.rs): a process   *)
(* that opens the log, creates or recovers a world, journals the events of *)
(* each command before it keeps the command's effect, and saves snapshots. *)
(* The process is single-threaded; what interleaves with it are failures:  *)
(* any system call may return an error, the process may be killed between  *)
(* two steps, the machine may lose power, and a new process then recovers. *)
(*                                                                         *)
(* The kernel's commands are abstracted to the shape of the batch of       *)
(* events they emit.  A world is the history of the commands it reflects,  *)
(* one entry per event, so two worlds are equal here exactly when the      *)
(* same events in the same order produced them.                            *)
(***************************************************************************)
EXTENDS FileEventLog, FilesystemStore, BatchShape

CONSTANTS
  Shapes,              \* tick offsets of the events of a command's batch
  MaxCommands,         \* bound: how many commands are ever issued
  PowerLossPossible,   \* can unsynced bytes disappear
  RetryAfterError,     \* does the caller go on after an Err (server_d exits)
  NoWorld

VARIABLES
  pc,          \* where the process is in a call; "down": there is no process
  world,       \* Simulation's loaded world
  checkpoint,  \* the world before the command in flight
  batch,       \* the events of the command in flight
  saving,      \* save_world's clone of the world
  issued,      \* how many commands were issued so far (numbers them)
  acked,       \* commands whose process_command returned Ok
  refused      \* commands whose process_command returned Err from the append

procVars  == <<pc, world, checkpoint, batch, saving>>
ghostVars == <<issued, acked, refused>>
vars == <<walVars, storeVars, procVars, ghostVars>>

ASSUME ShapesAssumption == \A s \in Shapes : IsShape(s)
ASSUME BoundAssumption == MaxCommands \in Nat
ASSUME CallerAssumption ==
  RetryAfterError \in BOOLEAN /\ PowerLossPossible \in BOOLEAN
ASSUME NoWorldAssumption == NoWorld \notin World

\* WorldCreated and ZoneCreated, both at tick 0.
GenesisShape == <<0, 0>>

EmptyWorld == [hist |-> << >>, tick |-> 0, cursor |-> 0]

(***************************************************************************)
(* What command c does to world w, and the events it emits for it (their   *)
(* ids are assigned later, by append_batch).                               *)
(***************************************************************************)
Applied(w, c, shape) ==
  [hist   |-> w.hist \o [i \in 1..Len(shape) |-> c],
   tick   |-> w.tick + shape[Len(shape)],
   cursor |-> w.cursor]

Emitted(w, c, shape) ==
  [i \in 1..Len(shape) |->
     [id |-> 0, tick |-> w.tick + shape[i], cmd |-> c, rem |-> Len(shape) - i]]

-----------------------------------------------------------------------------
(***************************************************************************)
(* Recovery (load_recovered_world), as a function of what is on disk.      *)
(* events is what the log reads back, announced its last_event_id().       *)
(***************************************************************************)
\* Mutant of IsStaleMeta: only an exact mirror is accepted (load_snapshot_world).
NoStaleMeta == FALSE

IsStaleMeta ==
  /\ meta.cursor < snap.cursor
  /\ meta.tick <= snap.tick

MetaAcceptable ==
  \/ meta = NoFile
  \/ meta # NoFile /\ (meta = MetaOf(snap) \/ IsStaleMeta)

Contiguous(events) == \A i \in DOMAIN events : events[i].id = i

\* replay_events accepts an event at the world's tick or at the next one.
TicksReplay(events, from, tick) ==
  \A i \in (from + 1)..Len(events) :
    LET before == IF i = from + 1 THEN tick ELSE events[i - 1].tick
    IN  events[i].tick \in {before, before + 1}

\* Mutant of Recoverable: a log shorter than the snapshot is accepted.
RecoverableShort(events, announced) ==
  /\ snap # NoFile /\ MetaAcceptable /\ announced = LastId(events)
  /\ Contiguous(events) /\ TicksReplay(events, snap.cursor, snap.tick)

Recoverable(events, announced) ==
  /\ snap # NoFile
  /\ MetaAcceptable
  /\ announced = LastId(events)
  /\ Contiguous(events)
  /\ LastId(events) >= snap.cursor
  /\ TicksReplay(events, snap.cursor, snap.tick)

\* The history that a sequence of events records.
Commands(events) == [i \in 1..Len(events) |-> events[i].cmd]

\* Mutant of Replayed: the event at the cursor is replayed once more.
ReplayedFromCursor(events) ==
  [hist   |-> snap.hist \o Commands(SubSeq(events, snap.cursor, Len(events))),
   tick   |-> events[Len(events)].tick,
   cursor |-> snap.cursor]

Replayed(events) ==
  [hist   |-> snap.hist \o Commands(SubSeq(events, snap.cursor + 1, Len(events))),
   tick   |-> IF Len(events) = snap.cursor THEN snap.tick ELSE events[Len(events)].tick,
   cursor |-> snap.cursor]

-----------------------------------------------------------------------------
Init ==
  /\ file = << >> /\ synced = 0 /\ buf = EmptyBuffer
  /\ log = [next |-> 1, total |-> 0, open |-> FALSE]
  /\ dir = FALSE /\ snap = NoFile /\ meta = NoFile
  /\ kept = {[snap |-> NoFile, meta |-> NoFile]}
  /\ pc = "down" /\ world = NoWorld /\ checkpoint = NoWorld
  /\ batch = << >> /\ saving = NoWorld
  /\ issued = 0 /\ acked = {} /\ refused = {}

\* A new process: FileEventLog::new repairs the log, no world is loaded.
Start ==
  /\ pc = "down"
  /\ OpenRepair
  /\ pc' = "idle"
  /\ UNCHANGED <<storeVars, world, checkpoint, batch, saving, ghostVars>>

LoadWorld ==
  /\ pc = "idle"
  /\ Recoverable(Valid(file), log.next - 1)
  /\ world' = Replayed(Valid(file))
  /\ UNCHANGED <<walVars, storeVars, pc, checkpoint, batch, saving, ghostVars>>

(***************************************************************************)
(* Any call may return an error before it changes anything: recovery, the  *)
(* storage check or the kernel refuses, or a file cannot be read.          *)
(***************************************************************************)
RefuseCall ==
  /\ pc = "idle"
  /\ pc' = "failed"
  /\ UNCHANGED <<walVars, storeVars, world, checkpoint, batch, saving, ghostVars>>

-----------------------------------------------------------------------------
(***************************************************************************)
(* process_command.  The simulation runs the command on the live world,    *)
(* then its events are appended as one record and synced; an error of the  *)
(* append puts the world back.                                             *)
(***************************************************************************)
Execute(w, shape) ==
  LET c == issued + 1
  IN  /\ pc = "idle"
      /\ issued < MaxCommands
      /\ issued' = c
      /\ checkpoint' = world
      /\ world' = Applied(w, c, shape)
      /\ batch' = Emitted(w, c, shape)
      /\ pc' = "append"
      /\ UNCHANGED <<walVars, storeVars, saving, acked, refused>>

\* Mutant of CreateAllowed: no look at the storage or the log.
CreateAnyway == TRUE

\* Creating needs an id nothing durable belongs to.
CreateAllowed == StorageStatus = "Absent" /\ log.total = 0

CreateWorld ==
  /\ CreateAllowed
  /\ world = NoWorld
  /\ Execute(EmptyWorld, GenesisShape)

RunCommand ==
  /\ world # NoWorld
  /\ \E shape \in Shapes : Execute(world, shape)

AppendRecord ==
  /\ pc = "append"
  /\ WriteAndFlush(Numbered(batch))
  /\ dir' = TRUE
  /\ pc' = "sync"
  /\ UNCHANGED <<snap, meta, kept, world, checkpoint, batch, saving, ghostVars>>

Acknowledge ==
  /\ pc = "sync"
  /\ SyncAndNumber(batch)
  /\ acked' = acked \cup {issued}
  /\ pc' = "idle"
  /\ checkpoint' = NoWorld
  /\ batch' = << >>
  /\ UNCHANGED <<storeVars, world, saving, issued, refused>>

\* Mutant of RollBack: the checkpoint is not restored.
KeepEffect ==
  /\ checkpoint' = NoWorld /\ batch' = << >>
  /\ refused' = refused \cup {issued}
  /\ pc' = "failed"
  /\ UNCHANGED <<world, saving, issued, acked>>

RollBack ==
  /\ world' = checkpoint
  /\ checkpoint' = NoWorld
  /\ batch' = << >>
  /\ refused' = refused \cup {issued}
  /\ pc' = "failed"
  /\ UNCHANGED <<saving, issued, acked>>

AppendFails ==
  /\ pc = "append"
  /\ WriteFails(Numbered(batch))
  /\ dir' \in {dir, TRUE}
  /\ log'.open => dir'
  /\ RollBack
  /\ UNCHANGED <<snap, meta, kept>>

SyncFails ==
  /\ pc = "sync"
  /\ RollBack
  /\ UNCHANGED <<walVars, storeVars>>

-----------------------------------------------------------------------------
(***************************************************************************)
(* save_world: clone the world with the log's cursor, sync the log, rename *)
(* the snapshot into place, then the meta, then adopt the clone.           *)
(***************************************************************************)
\* Mutant of BeginSave: the cursor is the next id, not the last one.
BeginSaveAhead ==
  /\ pc = "idle" /\ world # NoWorld /\ log.next - 1 >= world.cursor
  /\ saving' = [world EXCEPT !.cursor = log.next]
  /\ pc' = "saveSync"
  /\ UNCHANGED <<walVars, storeVars, world, checkpoint, batch, ghostVars>>

BeginSave ==
  /\ pc = "idle"
  /\ world # NoWorld
  /\ log.next - 1 >= world.cursor
  /\ saving' = [world EXCEPT !.cursor = log.next - 1]
  /\ pc' = "saveSync"
  /\ UNCHANGED <<walVars, storeVars, world, checkpoint, batch, ghostVars>>

SaveSync ==
  /\ pc = "saveSync"
  /\ SyncLog
  /\ pc' = "saveSnapshot"
  /\ UNCHANGED <<storeVars, world, checkpoint, batch, saving, ghostVars>>

\* Mutant of WriteSnapshot: the meta is written first.
WriteMetaFirst ==
  /\ pc = "saveSnapshot"
  /\ SaveMeta(saving)
  /\ pc' = "saveMeta"
  /\ UNCHANGED <<walVars, world, checkpoint, batch, saving, ghostVars>>

WriteSnapshot ==
  /\ pc = "saveSnapshot"
  /\ SaveSnapshot(saving)
  /\ pc' = "saveMeta"
  /\ UNCHANGED <<walVars, world, checkpoint, batch, saving, ghostVars>>

FinishSave ==
  /\ pc = "saveMeta"
  /\ SaveMeta(saving)
  /\ world' = saving
  /\ saving' = NoWorld
  /\ pc' = "idle"
  /\ UNCHANGED <<walVars, checkpoint, batch, ghostVars>>

\* Mutant of AbortSave: the error of the save does not end the call.
SwallowSaveError ==
  /\ pc \in {"saveSnapshot", "saveMeta"} /\ SaveFails
  /\ saving' = NoWorld
  /\ UNCHANGED <<walVars, pc, world, checkpoint, batch, ghostVars>>

AbortSave ==
  /\ \/ pc = "saveSync" /\ SyncLogFails /\ UNCHANGED storeVars
     \/ pc \in {"saveSnapshot", "saveMeta"} /\ SaveFails /\ UNCHANGED walVars
  /\ saving' = NoWorld
  /\ pc' = "failed"
  /\ UNCHANGED <<world, checkpoint, batch, ghostVars>>

-----------------------------------------------------------------------------
(***************************************************************************)
(* The caller after an error, and the ends of a process.                   *)
(***************************************************************************)
Retry ==
  /\ RetryAfterError
  /\ pc = "failed"
  /\ pc' = "idle"
  /\ UNCHANGED <<walVars, storeVars, world, checkpoint, batch, saving, ghostVars>>

Gone ==
  /\ pc' = "down"
  /\ world' = NoWorld /\ checkpoint' = NoWorld /\ saving' = NoWorld
  /\ batch' = << >>
  /\ UNCHANGED ghostVars

Exit == pc \in {"idle", "failed"} /\ DropLog /\ Gone /\ UNCHANGED storeVars

Kill == pc # "down" /\ KillLog /\ Gone /\ UNCHANGED storeVars

PowerLoss == PowerLossPossible /\ CutPower /\ RevertRenames /\ Gone

-----------------------------------------------------------------------------
(***************************************************************************)
(* What another process that reads the file may find in it: while a record *)
(* is on its way, perhaps a piece of it already.                           *)
(***************************************************************************)
Visible ==
  {file} \cup IF pc = "append" \/ buf.recs # << >> THEN {Stem \o <<Torn>>} ELSE {}

-----------------------------------------------------------------------------
Next ==
  \/ Start \/ LoadWorld \/ RefuseCall
  \/ CreateWorld \/ RunCommand
  \/ AppendRecord \/ Acknowledge \/ AppendFails \/ SyncFails
  \/ BeginSave \/ SaveSync \/ WriteSnapshot \/ FinishSave \/ AbortSave
  \/ Retry \/ Exit \/ Kill \/ PowerLoss

Spec == Init /\ [][Next]_vars

-----------------------------------------------------------------------------
(***************************************************************************)
(* Properties.                                                             *)
(***************************************************************************)
Wal == Valid(file)

\* The variables have their types, and the parts that belong to a call are
\* there exactly while that call runs.
TypeOK ==
  /\ file \in Seq(Event \cup {Torn}) /\ synced \in 0..Len(file)
  /\ log \in [next : Nat \ {0}, total : Nat, open : BOOLEAN]
  /\ buf \in [recs : Seq(Event), begun : BOOLEAN]
  /\ dir \in BOOLEAN
  /\ snap \in World \cup {NoFile} /\ meta \in Meta \cup {NoFile}
  /\ kept \subseteq Contents
  /\ pc \in {"down", "idle", "append", "sync",
             "saveSync", "saveSnapshot", "saveMeta", "failed"}
  /\ world \in World \cup {NoWorld} /\ checkpoint \in World \cup {NoWorld}
  /\ saving \in World \cup {NoWorld}
  /\ batch \in Seq(Event)
  /\ issued \in 0..MaxCommands
  /\ acked \subseteq 1..issued /\ refused \subseteq 1..issued
  /\ pc \in {"append", "sync"} => world # NoWorld /\ batch # << >>
  /\ pc \in {"saveSync", "saveSnapshot", "saveMeta"} =>
       world # NoWorld /\ saving # NoWorld

\* Event ids in the log run 1, 2, 3, ... whatever failed, crashed or was
\* repaired in between (FileEventLog's next_event_id and its recovery).
WalContiguous == Contiguous(Wal)

\* A reader of the log never sees part of a command: the events of a batch
\* stand together, in order, down to the last (append_batch writes one record).
WholeCommands ==
  /\ Wal # << >> => Wal[Len(Wal)].rem = 0
  /\ \A i \in 1..(Len(Wal) - 1) :
       Wal[i].rem > 0 => /\ Wal[i + 1].rem = Wal[i].rem - 1
                         /\ Wal[i + 1].cmd = Wal[i].cmd

\* A command that process_command returned Ok for is in the log, before
\* anything unreadable, through every crash, restart and repair.
AckedDurable == acked \subseteq {Wal[i].cmd : i \in DOMAIN Wal}

\* Between calls, the live world is what the whole log produces and the next
\* id is the one that follows it: the process neither holds an effect that
\* is not journaled nor has missed a journaled one.
LiveWorldIsDurable ==
  pc = "idle" => /\ log.next = Len(Wal) + 1
                 /\ world # NoWorld => world.hist = Commands(Wal)

\* The snapshot is the world after a prefix of the log, the prefix its cursor
\* names (save_world syncs the log before it renames the snapshot).
SnapshotCovered ==
  snap # NoFile =>
    /\ snap.cursor <= Len(Wal)
    /\ snap.hist = Commands(SubSeq(Wal, 1, snap.cursor))

\* Whatever moment a new process is started at, a world that has a snapshot
\* is recovered, and the world it gets is the one the log records.
AlwaysRecoverable ==
  snap # NoFile => /\ Recoverable(Wal, LastId(Wal))
                   /\ Replayed(Wal).hist = Commands(Wal)

\* If recovery accepts what is on disk at all, it returns the world the log
\* records and never another one (the validations of load_recovered_world).
RecoveryIsFaithful ==
  Recoverable(Wal, LastId(Wal)) => Replayed(Wal).hist = Commands(Wal)

\* A listed world (meta.json exists) has a snapshot, and its meta is that
\* snapshot's or one an interrupted save left behind.
MetaMirrorsSnapshot == Listed => snap # NoFile /\ MetaAcceptable

\* A save replaces the snapshot only by one of a longer or equal history: no
\* save, and no creation, ever discards what a snapshot held.
SnapshotsExtend ==
  [][snap # NoFile =>
       /\ snap' # NoFile
       /\ Len(snap'.hist) >= Len(snap.hist)
       /\ SubSeq(snap'.hist, 1, Len(snap.hist)) = snap.hist]_snap

\* A command whose append returned Err has no effect on a world loaded later.
\* docs/DATA_FLOW.md says the transition is refused; see the findings.
RefusedStaysRefused ==
  pc = "idle" /\ world # NoWorld =>
    \A c \in refused : \A i \in DOMAIN world.hist : world.hist[i] # c

(***************************************************************************)
(* The runtime implements DurableWorld.  The view of a process is the      *)
(* world it would keep if the command in flight failed.                    *)
(***************************************************************************)
View ==
  LET w == IF pc \in {"append", "sync"} THEN checkpoint ELSE world
  IN  IF w = NoWorld THEN NoWorld ELSE w.hist

Promise ==
  INSTANCE DurableWorld WITH committed <- Commands(Wal), view <- View, NoView <- NoWorld

\* Every step of the runtime is a step DurableWorld allows, or none.
ImplementsDurableWorld == Promise!Spec

\* Until the caller loads it anew, a world changes only by the command that is
\* acknowledged in that very step, even when the caller goes on after errors
\* and old bytes linger in the BufWriter.
EffectsAreAcknowledged ==
  [][View # NoWorld /\ View' # NoWorld /\ ~LoadWorld =>
       /\ Len(View') >= Len(View)
       /\ SubSeq(View', 1, Len(View)) = View
       /\ \A i \in (Len(View) + 1)..Len(View') : View'[i] \in acked' \ acked]_View

=============================================================================
