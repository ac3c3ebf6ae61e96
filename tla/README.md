# A TLA+ verification development for Seej

Seej (`src/seej`) is a persistent world simulation server. At this commit it
is a deterministic simulation kernel (`sy_core`), a persistence layer that
journals every event in a write-ahead log before it keeps the event's effect
(`sy_infra`), and two binaries: `server_d`, which creates and runs a world, and
`sy_cli`, which inspects one. The modules here model the kernel and its
determinism runner, the persistence layer, the daemon and the inspection tool.
TLC checks them on small instances. For the persistent runtime, the
daemon and the inspection tool, TLAPS proves the invariants and the refinement
for every instance.

Contents:

1. The system: components, state, interactions, hard behaviours
2. The modules and the code they stand for
3. The runs, their bounds and what they show
4. Fairness and deadlock
5. The proofs
6. Where the code and its documents disagree
7. What is abstracted and what is not modelled
8. Plan

Paths below are relative to `src/seej/server` unless they start with `docs/`,
which stands for `src/seej/docs/`.

## 1. The system

### Components

| component | code | state | operations |
| --- | --- | --- | --- |
| Write-ahead log | `crates/sy_infra/src/store/wal.rs` | the record file, the page cache, a `BufWriter`, `next_event_id`, `total_events` | `new` (repairing open), `append_batch`, `sync`, `read_all`, `read_from`, drop; `append`, `truncate_after` |
| World directory | `crates/sy_infra/src/store/filesystem.rs` | `snapshot.json`, `meta.json`, the directory | atomic `save_snapshot` and `save_meta`, `storage_status`, `list_worlds`, `delete_world` |
| Persistent runtime | `crates/sy_infra/src/runtime.rs` | a `Simulation`, the log and the store | `process_command`, `save_world`, `load_world` |
| Kernel | `crates/sy_core/src/sim.rs`, `world.rs` | the world, the RNG, the clock | six commands, the tick systems, `checkpoint`, `restore_checkpoint`, `load_world_state` |
| Event replay | `crates/sy_core/src/replay.rs` | the world it is given | `replay_events` over thirteen event types |
| Snapshot codec | `crates/sy_infra/src/snapshot.rs` | none | `encode_world`, `decode_world` and its checks |
| RNG and clocks | `crates/sy_infra/src/rng/mod.rs`, `clock/mod.rs` | a PCG32 state and the seed; a tick | draws, `set_state`; `advance`, `set_tick` |
| API and types | `crates/sy_api`, `crates/sy_types` | none | commands, events, errors, validation |
| Daemon | `bin/server_d/src/main.rs` | `last_save_tick`, `ticks_run`, the `running` flag | `create`, `run`, `list`; the Ctrl+C handler |
| Inspection tool | `bin/sy_cli/src/main.rs` | none | `status`, `dump`, `events` and the other read-only commands |
| Determinism runner | `crates/sy_core/src/determinism.rs` | ordered inputs, checkpoints | `run_deterministic` |
| Test kit | `crates/sy_testkit` | in-memory mocks of the ports | none outside tests |
| Stubs | `sy_config`, `sy_protocol`, `sy_loader`, `sy_tools`, network and migrations | none | none at this commit |

### How they interact

All calls are synchronous, in one thread of one process per world:

```
server_d --> PersistentSimulation.process_command
                 |-- Simulation.process_command (live world, RNG, clock)  -> events
                 |-- FileEventLog.append_batch  (one record, flush, sync_all)
                 `-- on Err: Simulation.restore_checkpoint
         --> PersistentSimulation.save_world
                 |-- FileEventLog.sync
                 |-- save_snapshot (tmp, sync, rename)
                 `-- save_meta     (tmp, sync, rename)
         --> PersistentSimulation.load_world
                 |-- decode snapshot, compare with meta, scan the log
                 `-- replay_events on what follows the snapshot's cursor
```

Another thread exists for Ctrl+C only: it clears the atomic `running`, which the
loop reads between ticks. `sy_cli` reads the files of a world from its own
process, with no lock. Nor does a lock keep a second `server_d` away, whose `create`
opens, and repairs, the log before it refuses an id that is in use.

### What is hard, and what must be true

**Log.** `write_all`, `flush` and `sync_all` can each fail part-way; what was
not flushed stays in the `BufWriter` and goes out later, or at drop, or
never. A reopened log truncates what does not decode and numbers on. It must
hold whole commands with ids 1, 2, 3, ... and lose none that was acknowledged.

**Directory and runtime.** There are three files, and a crash fits between any
two writes. Snapshot, meta and log must stay such that recovery accepts them
and gives the world the log records; a refused command must have no effect on
the live world; no creation or save may discard history.

**Kernel and replay.** The same change is programmed twice: once as a direct
mutation of the world, once as the effect of an event. Any field the events do not
carry (RNG state, `next_entity_id`, a zone's index of entities) would come out
differently after a crash and show only ticks later. A rollback must also bring
back the RNG and the clock.

**Codec.** `decode_world` makes checks that a save does not make. A
world that got past one of them could be saved and never loaded again.

**Inspection.** The tool opens the log, reads `snapshot.json`, then `meta.json`,
then the log again, while the daemon appends and saves. What it prints must be a
world that was there, with everything acknowledged before it was started.

**Determinism runner.** Two runs it calls equal must be equal, whatever lies
behind the last checkpoint or outside the obvious fields, and the same inputs in
another order of arrival must not raise an alarm.

**Daemon.** A signal, an error, a kill or a power cut arrives at any step of a
create, a tick, an auto-save or the last save. Afterwards the world must be
listed and loadable, and a process that was told to stop must stop.

`PROJECT.json` lists each hazard with its line and the properties that cover it.

## 2. The modules

```
FileEventLog  FilesystemStore  BatchShape        WorldState
          \        |          /     |          /     |     \
         PersistentSimulation       |   Simulation  Replay  SnapshotCodec
                   |                |    |      |     |       |     |
                   |                `----|-- JournaledSimulation    |
                   |                     |            |             |
   ServerD, Inspector, SecondDaemon      |            `-- ReplayedLog
   DurableWorld (INSTANCE)          Determinism
   PersistentSimulation_proofs
     `-- Recovery_proofs (EXTENDS DurableWorld)
           |-- ServerD_proofs
           `-- Inspector_proofs

   Kernel_proofs
     |-- ReplayedLog_proofs
     |-- JournaledSimulation_proofs
     `-- Determinism_proofs
```

### The persistence side

**FileEventLog** (`wal.rs`). `file` is what a read returns now, as a
sequence of cells: a decodable event, or `Torn` for bytes that stop being a
record part-way. `synced` is the prefix a power cut cannot take. `log` holds the
two counters and whether the writer was opened in this process. `buf`
is the `BufWriter`. A record is a batch; `rem` counts the events of the batch
that follow, so `RecordEnds` gives the places where a file may be cut. Every
operation has its failures: `WriteFails` (before anything, the flush stops
after k records and perhaps a piece, a record larger than the buffer is
written directly), `SyncLogFails`, `DropLog` (drop flushes as far as it gets and ignores
the result), `KillLog`, `CutPower`.

**FilesystemStore** (`filesystem.rs`). The directory, `snapshot.json` and
`meta.json`. The atomic writes are one step each, or a failure with no
effect but the directory. `atomic_rename` ignores a failed sync of the directory:
`kept` holds the pairs of contents that a power cut may leave, one pair after a
sync that worked, more after one that failed (`DirectorySyncFails`). Renames
since the last good sync may be undone each on its own.

**PersistentSimulation** (`runtime.rs`). One action per system-call boundary:
`process_command` is `RunCommand` or `CreateWorld` (the kernel has run, `pc =
"append"`), `AppendRecord` (`pc = "sync"`), `Acknowledge`; or `AppendFails` and
`SyncFails`, which restore the checkpoint. `save_world` is `BeginSave`,
`SaveSync`, `WriteSnapshot`, `FinishSave`, or `AbortSave` at any of them.
`LoadWorld` is guarded by `Recoverable`, the conjunction of the validations of
`load_recovered_world`. `RefuseCall` is every error that changes nothing.
`Kill`, `Exit` and `PowerLoss` end a process at any step; a power cut takes
unsynced records and unsynced renames; `Start` is the next
one. A command is abstracted to the shape of its batch (the ticks of its events),
a world to the history of commands it reflects.

**BatchShape**. What the two sides agree on: how the ticks of one command's
events run. PersistentSimulation assumes it of its `Shapes`;
JournaledSimulation shows it of the kernel (`BatchesAreShapes`).

**DurableWorld** is the abstract specification: a committed history that only
whole commands extend, acknowledged commands that are never lost, a view that
is always what committed commands produced. No file, buffer or snapshot appears in
it. PersistentSimulation implements it under the mapping `committed <-
Commands(Wal)`, `view <-` the world the process would keep if the
command in flight failed.

**ServerD** (`server_d/main.rs`) extends PersistentSimulation with the
daemon's program: `at` is its next call. Each action is one step of the runtime
with its place in `cmd_create` or `cmd_run`, or a step of the program between
two calls. An `Err` leads to `End` (exit status 1). This is what
`RetryAfterError = FALSE` elsewhere stands for. `Signal` can come at any step.

**Inspector** (`sy_cli/main.rs`, and `open_read_only` and `read_all_valid` of
`wal.rs`) extends PersistentSimulation with a reader: `Ask`, `OpenReadOnly`,
`ReadSnapshot`, `ReadMeta`, `ReadAndReplay`, then `CountEvents` for `status`, or
`ListEvents` for `events`, and `Leave`. Any step of the writer fits between two of
them. A read sees the file or, while a flush is under way, any longer piece
of it (`Visible`). `seen` is what the reader has read, `shown` what it has to print.

**SecondDaemon** extends PersistentSimulation with the repairing open of another
process, in its two steps: `OtherScans` finds the length to keep,
`OtherTruncates` cuts the file there.

### The kernel side

**WorldState** (`world.rs`): the world as a record of its clock, RNG state,
next id, entities and zones, and the operations that keep entities and
zone indexes together.

**Simulation** (`sim.rs`, `rng/mod.rs`): each command as a function from the
engine (world, RNG, clock) to a new engine and its events, or a refusal. The
tick systems are recursive functions over the ids in ascending order, with one draw per
entity that can wear.

**Replay** (`replay.rs`): `Accepts` is every check of `apply_event`, `Effect` is
what it does, for all thirteen event types, six of which no command emits yet.
Each type has its line in `Fits` and in `Effect`.

**SnapshotCodec** (`snapshot.rs`): `ValidSnapshot` is what `decode_world`
demands; `Stamped` is what `save_world` writes into the clone.

**JournaledSimulation** composes the four: live execution on one side,
snapshot plus replay on the other, with refusals, failed appends, interrupted
saves and crashes that switch between them. A ghost engine, `twin`, runs every
journaled command and is never disturbed. Its log and store are those that
PersistentSimulation shows the runtime to have: a batch enters whole or not at all, an
event's id is its position (`WalContiguous`, `WholeCommands`), a snapshot changes in
one step and covers a prefix of the log (`SnapshotCovered`).

**ReplayedLog** replays any log at all: every event type, in any order, right or
wrong for the world it meets.

**Determinism** (`determinism.rs`) makes two runs, one after the other, of
schedules chosen freely: `BeginRun`, `FeedInput` for each input that is due, `RunTick` with
its checkpoint, `EndRun`; `Verify` is `verify_determinism`. `CanonicalHash` is the
sequence of values `compute_canonical_hash` feeds to its hasher.

**MC...** modules only give values to the constants.

## 3. The runs

| run | asks | states |
| --- | --- | --- |
| `crash` | kills, errors and restarts at every step, caller stops at the first error | 201 000 |
| `power_loss` | the same with power cuts and failed directory syncs; refinement of DurableWorld | 52 000 |
| `retry` | a caller that goes on after an error | 609 000 |
| `parity` | is a recovered, rolled-back, re-saved engine the undisturbed one | 256 000 |
| `any_log` | which accepted logs lead to a world that cannot be recovered from a save | 55 000 |
| `daemon` | `server_d create` and `run` one after another, with every failure; termination | 96 000 |
| `inspect` | `sy_cli status`, `dump` and `events` beside a running, failing, restarting writer | 1 400 000 |
| `determinism` | two runs of `run_deterministic` and the verdict on them | 150 000 |
| `retry_world`, `power_save`, `refused`, `second_daemon` | statements of the documents that the code does not meet (section 6) | violated |

`crash` shows that without power cuts the log stays contiguous and made of whole commands,
acknowledged commands stay, the live world is what the log produces, the snapshot is
covered by the log, and **every** crash point leaves a world that recovers to
the log's history. `power_loss` shows which of this survives the loss of
unsynced bytes and unsynced renames: acknowledged commands and the faithfulness of
whatever recovery accepts do; `SnapshotCovered` does not (`power_save`). `retry` shows that
the live world of a caller that goes on has only acknowledged effects, and that its
saves discard nothing. Its log is another matter: it takes four
commands to make recovery accept a wrong world (`retry_world`).

`inspect` shows that a printed world is always one the log went through, with
everything acknowledged before the tool was started, although the tool
reads three files at four moments; that an inspection is refused only for a reason if the
writer is quiet; that the count `status` prints, from an open of its own, is
never short of the world beside it, unless that open failed (then it is 0);
that a `dump`, put in the place of `snapshot.json`, is recovered together with the
`meta.json` and the log as they are by then, and refused exactly when a save of later events has
replaced `meta.json` since; and that `events` lists an unbroken stretch up to the end
of a command.

`determinism` shows that two runs with an equal verdict end in equal worlds (the
hash leaves out no field that can differ, and the last tick is always a
checkpoint), that the order of arrival of inputs for different ticks does not matter, and
that each input is fed once and just before its tick.

`parity` shows that live mutation and replay agree in every field, RNG state
included, and that neither reuses an entity id, loses a depletion, keeps a dead entity
past its reaping tick or makes a save that cannot be decoded. `any_log` shows
that replay's checks imply the codec's, for events the kernel does not emit yet too, with
one exception: nothing stops a log from spawning an entity of the reserved id 0, and
then the save does not decode (section 6).

`daemon` shows that a clean end leaves nothing to replay, that from the first spawn of a
`create` on each next step, a kill, a power cut or an end after a failure included,
leaves a disk with a listed and loadable world that has every acknowledged command, that
auto-saves are not late, and that a signalled run, a run with a limit and a create end.

### Bounds, and why they are enough

- `MaxCommands` (3 or 4) bounds commands over the whole behaviour, not failures:
  kills, restarts, saves and failed appends are unbounded. Four
  commands suffice for a creation, a saved command, an acknowledged unsaved one and
  one in flight; a torn cell needs one, an id used twice needs two after it.
- `Shapes`: an event within the tick (spawn), a tick with a system event, a
  `TickN(2)` that crosses ticks. They differ in length and in where the tick
  steps, which is all the log and recovery look at. `MCFewShapes` keeps the first and
  the last.
- `retry` has four commands and all shapes: with three, no record can be refused but
  kept, a second one torn and a third one acknowledged behind it.
- `MaxEvents = 8` (parity): no command starts once the log has 8 events. The
  genesis takes two; the rest allow, for instance, a spawn, ticks that wear and
  kill it, the reaping tick, and a spawn that would take its id.
- `TickLimit = 2` for 10000 and `ReapEvery = 3` for 100 keep the boundary cases
  (`TickN` of 0, the limit and one more; a tick that reaps and ones that do not)
  within reach.
- The RNG has four bits: `RngModulus = 16`, multiplier 13, which is PCG32's
  modulo 16, so its states are the low bits of the code's generator. The hit
  sets make both outcomes of a draw frequent; in the code they have probability
  0.01 and 0.005, and any set with one inside the other is possible.
- `U32` (2^32 in the code) is 8 in `parity`, above every value that occurs, and 2
  in `any_log`, where an event carries a value that is cut.
- `any_log`: `U64 = 3`, so the ids 0 and 1, the reserved one and another;
  two zones, ticks 0 and 1, values 0 and 1. The property relates one entity to
  one zone's index and its id to the next one, and moves need two zones. The last id,
  `u64::MAX` in the code, is left out: its spawn overflows `next_entity_id`, which panics
  in a debug build.
- `power_loss`: three commands and two shapes, with `DirectorySyncFails`; the other
  runs have it FALSE, since only a power cut can make the difference. Three
  commands allow two saves and a third command after them, so that either file may
  be put back by one save or by two, alone or with the other.
- `inspect`: three commands (a creation, one that is saved, one in flight), two
  shapes. `FromTicks` 0 and 1 select all and some of the events; `Counts` 1 and 3
  cut a command in two, or not. The tool may be started any number of times. Its
  writer does not lose power, which would end the tool too.
- `second_daemon`: two commands suffice for the counterexample.
- `determinism`: three ticks, checkpoints every two, so that the last one is due
  only because it is the last; at most two inputs, at ticks 0, 2 or 3 (3 is never
  reached, and dropped); four commands: two spawn an entity whose ticks draw from the RNG, one can be
  refused (a panic), one lets the world run ahead of its schedule.
- `daemon`: one entity to spawn, ticks of two events, limits of 0 (none) and 2,
  an auto-save every 2 ticks, four commands over all processes: a create (two
  commands) and a run of two ticks, with any number of failed processes
  around them. A launch that could not finish within the bound is not made.

No symmetry is used: commands, events and ids are ordered numbers.

Every property of a passing run has a mutant in `PROJECT.json`: a
change to one definition, of the kind a bug would make (no truncation on open,
no `sync_all`, meta before snapshot, RNG not rewound, `next_entity_id` not
raised, ...), under which TLC finds the property violated.

## 4. Fairness and deadlock

Only `ServerD` states fairness, because only there does code promise that something
happens. `WF_allVars(Work)` says that a process that is scheduled and whose
system calls return takes its next step: the program has no wait but the sleep
between ticks. Nothing is assumed of launches, of signals, of kills, of power, or of
calls succeeding: `Work` contains the failure of each call, and
both outcomes satisfy it. `SignalEndsRun` and `LimitedRunEnds` hold on that alone.

Deadlock is checked in the runs of PersistentSimulation, Inspector and
SecondDaemon, where a new process can always be started. Four specifications stop where the system or the bound
does. In `parity`, a crash between the genesis record and the first save leaves a log without
a snapshot, for which every command is refused (the hazard at
`runtime.rs:72`), and the bound on events ends the rest. `any_log` stops at a
world no event within the bounds changes, `daemon` once the commands are used up,
`determinism` after two runs or a panic.

## 5. The proofs

TLAPS proves all properties of the passing runs `crash`, `power_loss`, `retry` and
`inspect`, the refinement among them, of `any_log`, `parity` and `determinism`, and the
three safety properties of `daemon`, for every value of the constants: any batch shapes and number of
commands on the persistence side, any commands, zones, entities, draws, intervals and
schedules on the kernel's.
Every theorem has the form `Spec => ...`, about the whole behaviour. They assume the
modules' named assumptions on constants (`Torn`, `NoFile` and `NoWorld` are not records
they stand beside; `Shapes` are shapes; the daemon's shapes are among them, a tick of its
loop is one tick; the tool's limits are numbers; `None` is not a number; the hits of the
degradation draw are among those of the depletion draw; a schedule has commands at ticks
that are numbers; two names have not the same bytes), and what the last two columns say: *one error* is
`~RetryAfterError`, the caller stops at its first error, which `server_d` does (`ServerD`
has no `Retry`); *power* is `~PowerLossPossible`.

The theorems of `JournaledSimulation_proofs`, and `EqualRunsEndAlike` of
`Determinism_proofs`, assume besides `NoneIsNoWorld`: no world is the value `None`, as no `Some(world)` is `None` in Rust. In the runs `None` is a model
value, different from every record; that no record at all is equal to it is a statement over all
worlds, which TLC cannot evaluate, so it stands as a hypothesis of the theorems.

| module | theorem | property | one error | power |
| --- | --- | --- | --- | --- |
| `PersistentSimulation_proofs` | `TypeCorrect` | `TypeOK` | assumed | |
| | `IdsStayContiguous` | `WalContiguous` | assumed | |
| | `AckedStaysDurable` | `AckedDurable` | assumed | |
| | `TypeCorrectForAnyCaller` | `TypeOK` | | |
| | `CommandsStayWhole` | `WholeCommands` | | |
| | `EffectsStayAcknowledged` | `EffectsAreAcknowledged` | | |
| | `SnapshotsExtendForAnyCaller` | `SnapshotsExtend` | | `~PowerLossPossible \/ ~DirectorySyncFails` |
| `Recovery_proofs` | `LiveWorldStaysDurable` | `LiveWorldIsDurable` | assumed | |
| | `RecoveryStaysFaithful` | `RecoveryIsFaithful` | assumed | |
| | `SnapshotStaysCovered` | `SnapshotCovered` | assumed | assumed |
| | `RuntimeImplementsDurableWorld` | `ImplementsDurableWorld` | assumed | |
| | `SavedStaysRecoverable` | `AlwaysRecoverable` | assumed | assumed |
| | `MetaStaysAcceptable` | `MetaMirrorsSnapshot` | assumed | `~PowerLossPossible \/ ~DirectorySyncFails` |
| `ServerD_proofs` | `CleanEndStaysSaved` | `CleanEndIsSaved` | assumed | |
| | `PopulatingStaysRecoverable` | `PopulatingIsRecoverable` | assumed | `~PowerLossPossible \/ ~DirectorySyncFails` |
| | `AutoSaveStaysUp` | `AutoSaveKeepsUp` | assumed | |
| `Inspector_proofs` | `ShownWorldsHappened` | `ShownWorldHappened` | assumed | assumed |
| | `QuietInspectionsAnswer` | `QuietInspectionAnswers` | assumed | assumed |
| | `CountsCoverWorlds` | `CountCoversWorld` | assumed | assumed |
| | `DumpsAreSaves` | `DumpIsASave` | assumed | assumed |
| | `ListingsAreTails` | `ListingIsATail` | assumed | assumed |
| `ReplayedLog_proofs` | `ReplayStaysDecodable` | `ReplayKeepsSnapshotsValid` | | |
| `JournaledSimulation_proofs` | `KernelTypeCorrect` | `TypeOK` | | |
| | `RecoveryGivesTheWorldBack` | `RecoveryParity` | | |
| | `RecoveredProcessIsTheSame` | `TwinParity` | | |
| | `EveryWorldCanBeSaved` | `SavesDecode` | | |
| | `AnIdNamesOneEntity` | `IdsNeverReused` | | |
| | `AmountsAreLogged` | `DepletionsAddUp` | | |
| | `TheDeadAreReaped` | `DeadAreReaped` | | |
| | `EveryTickIsClosedOnce` | `TicksAreClosed` | | |
| | `CommandsLogShapes` | `BatchesAreShapes` | | |
| `Determinism_proofs` | `InputsAreFedOnTime` | `InputsRunOnTime` | | |
| | `ArrivalOrderIsIrrelevant` | `ReorderedSchedulesAgree` | | |
| | `EqualRunsEndAlike` | `EqualVerdictEqualWorld` | | |

An empty cell means that the theorem covers the failure: the refinement holds with power
cuts and failed directory syncs. The assumptions are needed: `retry_world` violates
`RecoveryIsFaithful` where the caller goes on, on a log that holds ids twice;
`power_save` violates `SnapshotCovered` where power is cut. The inspection tool is
assumed to outlive the writer, not the machine: a power cut ends the tool too.

**The log** (`PersistentSimulation_proofs`). The inductive invariant is `IInv ==
TypeOK /\ FileInv /\ BufferInv /\ LogInv /\ AckInv`.

- *FileInv*: only the last cell can be torn, and every event's id is
  its position. `WalContiguous` itself speaks of the readable prefix only, and a
  buffered remainder could complete a torn cell.
- *BufferInv*: the buffer is empty unless a write failed, and then its records
  continue the stem of the file. That is what the drop at exit, which
  flushes it, relies on.
- *LogInv*: a process without an error has a file with no torn cell, whose length
  is `next_event_id - 1` plus the record that is not yet synced. So the next
  batch gets the ids that continue the file.
- *AckInv*: every acknowledged command has an event within `synced`, which is
  stronger than `AckedDurable` and is what a power cut preserves.

There is one lemma per operation of the log (what an open, an append, a
stopped flush, a drop, a cut returns) and one step per action of `Next`, with
a step per conjunct it can disturb.

**Whole commands** (`PersistentSimulation_proofs` too). A caller that goes on can put torn
pieces in the middle of the file and use ids twice, so `IInv` is not available.
`AnyCallerInv` speaks of shape only: the file and the buffer are
sequences of whole batches with torn cells between them, so that a scan, which
stops at the first torn cell, stops at the end of a batch.

**The retrying caller** (`PersistentSimulation_proofs` too). The log of such a caller is unreliable, but
not its live world. *EffectInv*: what the world has beyond the checkpoint is the
command in flight, which is not acknowledged yet. *HeldInv*: every world in the process begins
with the history of the snapshot. Neither looks at the log.

**Recovery** (`Recovery_proofs`). `RecoveryInv` adds to `IInv`:

- *SnapInv*: what `snapshot.json` holds, or may hold after a power cut (`kept`), has
  the events up to its cursor as its history whenever the log still has them;
- *CoverInv*: the log has them, always if there are no power cuts, and otherwise
  while a process that has loaded the world may still write;
- *WorldInv*: the live world, the checkpoint and the clone being saved are what the
  log produces, up to the record in flight.

Faithful recovery follows without the second one, because
`load_recovered_world` refuses a log shorter than the cursor.

**Refinement** (`Recovery_proofs`). `PromiseInv` says where one command ends
and the next begins in the file, that commands in the file are older than the one
in flight, and that this one has a single number. Each action is then a step of
DurableWorld or a stutter: the record reaching the file is `Commit`, the end of a
call `Acknowledge`, a load `Load`, an end `Stop`, a power cut `Lose`; a roll-back is
a stutter.

**No refusal** (`Recovery_proofs`). Recovery also compares ticks, so `TickInv`
says that a world stands at the tick of the last event it reflects (`DiskTicks`
for the two files, `LiveTicks` for the process) and that each event has the tick of
the one before it or the next. That ticks never go down over any distance would
be an induction; the proof takes the least counterexample instead (`LeastElement`, from
`WellFoundedInduction`).

`TickInv` holds through power cuts as well; `RuntimeInv` is its conjunction with
`RecoveryInv` and `PromiseInv`, all that is known of the runtime, on which the next two
modules build.

**The daemon** (`ServerD_proofs`). Every step of the daemon is one of the runtime or
leaves it alone (`DaemonDrivesRuntime`), so `RuntimeInv` holds of it too. `DaemonInv`
adds what its program counter says:

- *PlaceInv*: which call of the runtime can be under way at which place, and that a
  place behind the first call has a world;
- *SaveInv*: after a save and until the next one writes, the meta file is the
  snapshot's, and after the last one the snapshot is the whole log. That `FinishSave`
  establishes this needs `RuntimeInv`: the cursor was taken at the start of the save;
- *PaceInv*: how far the world is ahead of the last save, counting from the tick of the
  snapshot or, if nothing was saved since the load, from that of the loaded world.

`PopulatingIsRecoverable` speaks of the disk after the step, where the process and its
place may be gone, so its proof is about the disk. *Kept*: the meta file is the
snapshot's, and its cursor is within the synced log. It implies what the property asks of
a disk (`KeptIsUsable`), survives the steps of a populating process and its end
(`KeptInside`) and a power cut, which takes nothing that is synced (`KeptInPowerLoss`).
*GenesisInv* says how it comes about: there is no meta file before the genesis save, and that save
syncs a log whose writer the creation has opened, so unlike the save of `power_save` it
covers what it claims. Directory syncs that work are assumed if there are power cuts: else
a cut can undo the two renames of that save.

**The inspection tool** (`Inspector_proofs`). The tool's reads are of different
moments of the writer. What relates them is that the log only grows (`NextGrows` of `Recovery_proofs`, an
action property proved from the writer's invariants: without power cuts an open, a drop and
an append leave every readable event in place), so what was read stays a prefix
of what is there. `VisibleReads` says the same of a read in the midst of a flush. `InspectionInv` adds
`ToolInv` to the writer's two invariants: each thing the tool has read is bounded by a
place `k` of the log (`SeenInv`), and each thing it shows is what the log gives up
to such a place (`ShownInv`, `ListedInv`, with `After` for "is the world of the first `k` events"). Whole
commands come from `AnyCallerInv`, which is proved without looking at errors.
`MetaStands` bounds `meta.json`, which may be of a later save than the dump: its cursor
is a place of the log and its tick the one there, so for two places their order and that of their
ticks agree, and recovery's comparison of a dump with it comes out as `DumpIsASave` says. `QuietInv` follows a tool beside which nothing moved; that it is not refused is
`SavedStaysRecoverable` for a reader. What the filter of `events` keeps is a tail of the log because
ticks never go down; this is a statement about a recursive function for all lengths,
proved by a least counterexample (`FromTickIsTail`).

**Replay** (`Kernel_proofs`, `ReplayedLog_proofs`). `WorldInv` is what makes a world's
snapshot decode: every entity stands in a zone that exists and has an id of at least 1 and below the next
one (`Placed`), and each zone's index lists exactly its entities, each once (`Indexed`). Any log may spawn
the id 0, so the lemmas are about `WorldFrom(k, w)`, the same with ids from `k` on: `WorldInv` is
`WorldFrom(1, w)`, and `WorldFrom(0, w)` is what any log keeps. `EffectKeeps`
says that every event replay accepts keeps it, by a lemma per effect. It is
inductive as it stands. A world with the one and without the reserved id has the other (`WithoutReservedId`). What `Without` leaves of an index is a recursive
function; that it keeps the others, in their order, is shown at the least place where it would not.

**The kernel** (`Kernel_proofs`, `JournaledSimulation_proofs`). `RecoveryParity` is not inductive: that
replay gives the twin's world at the end of a command says nothing of the middle of one, and
that is where the events are written. So there are two levels.

*Within a command.* `Follows(b, events, w)`: replaying the events so far from the world `b`
before the command gives the world `w` as it is now, up to the tick and the RNG state that
only `TickProcessed` brings. `Twins` adds a second execution of the same command on a world that is
`Alike` (equal up to the stamps of a save) and says that it draws the same numbers and
writes the same events. Wearing an entity, its death, a removal, a tick, `TickN` and
each other command keep it (`WearsBoth` ... `OutcomeBoth`); the loops over the
entities are recursive functions of the id (`Looped`), followed to their end by the
least id at which they would go wrong. `ReplayConcat` puts the events behind those that
were replayed before.

*Between commands.* `JInv` is inductive:

- *Engines*: an engine has no world and is new, or its RNG and clock are those of its
  world; so loading a world loses nothing, and the checkpoint holds all of an engine;
- *FirstWorld*: nothing is journaled or saved before there is a world;
- *LiveAgrees*: the live world is `Alike` the twin's;
- *SnapshotAgrees*: the snapshot has `WorldInv`, its cursor is within the log, and replaying the rest
  gives a world `Alike` the twin's;
- *JournalAgrees*: the log is that of the twin's world, up to the end of a tick.

Types, parity and `SavesDecode` follow from the first four.

*The log's own account.* `JournalAgrees` is `Logged /\ Closed`, and five properties
follow from it. `Logged(w, log)` relates a log to the world it leads to: ticks
step by one at most (`Stepping`), what is logged of an entity is of an id that was given
(`Known`, without which a new id could have depletions), ids differ, amounts add up, whoever
is logged as dead is dead or gone, and since the last reaping (`DeathsRecent`), and ticks
are closed in order (`Closing`). It is kept by each single event that is `Fresh`
for the world it is emitted from (`EventLogged`), so it can be carried through the loops
of a tick by the same `Twins`. Within a tick the log is one
`TickProcessed` short of the world's tick (`Open`), after it not (`Closed`).
`DeathsRecent` speaks of the ticks that are closed and not of the world's tick, because
within a reaping tick the dead of older ticks are still there. `CommandsLogShapes` is what
`PersistentSimulation` assumes of `Shapes`: the kernel's commands fulfil it.

**The determinism runner** (`Determinism_proofs`). The sorted order and the order of a
map's keys are each chosen by what they must fulfil (`Sorted`, `Ascending`). That there is such
an order, and that it lists everything, is shown by the rank of each element
(`ListingExists`, `ListingIsComplete`). Then one invariant per theorem, each with the one before it:

- *FeedInv*: the inputs fed so far are the first of the queue, each fed at its tick,
  and those that wait are scheduled for the current tick or later. The second half is
  what makes no input late: a tick runs only when nothing is due;
- *ReachInv*: the run is in a state of a `Trace` of its queue, and each result is the
  end of one. Two traces of the same queue agree as far as both go (`TracesAgree`), so a run is
  a function of its queue alone. Schedules that agree tick by tick have the same
  queue (`QueuesAgree`): the inputs of a tick stand in it as a block, behind as many
  inputs of earlier ticks in both (`TickBlock`, then tick by tick);
- *HashInv*: the world is one the kernel makes (`Healthy`, kept by any command through
  `OutcomeBoth`), and the last checkpoint of a run that has had its last tick is of its world.

`HashIsInjective` says that two such worlds with the same hash are equal. A hash is one list of
numbers without separators, so it has to be read from the front: two codes of an
entity, or of a zone, that start at the same place are of the same value (`EntityRead`,
`ZoneRead`), so they end at the same place, and the lists are read in step (`ReadInStep`).
That the number of entities comes before them, and the length of a name before its bytes, is what
makes this go through. With no ticks at all there is no checkpoint; then both runs ended where they
started, by `ReachInv`.

Only model-checked: the daemon's `SignalEndsRun` and `LimitedRunEnds`. Liveness under
fairness is beyond the prover and stays with TLC. So do the four violated statements of section 6.

## 6. Where the code and its documents disagree

The first four are runs that TLC finds violated; `PROJECT.json` quotes the lines. The
last is part of what `any_log` shows to hold of the code.

1. **`retry_world`.** `append_batch` moves `next_event_id` only after
   `sync_all`, and the runtime stays usable after an `Err`. So a refused record may be
   in the file (its flush came late, or only its `sync_all` failed) and the next
   command gets the same ids, though `docs/phase1/PERSISTENCE.md` calls ids
   monotonic. If the log then shows an id twice, recovery refuses it. But if the
   second record stops part-way and leaves a torn piece, a third is
   acknowledged behind it, under the ids of the first, and a save takes those ids
   as its cursor. After a restart the repair cuts at the torn piece, ids are
   contiguous up to the cursor and beyond, and recovery accepts a world that no log
   recorded: ids are compared, never contents. The same document says that the cursor
   points to the last event in the snapshot and that a log cut before it is
   refused. `server_d` does not meet this, because it exits.
2. **`power_save`.** A process killed between flush and `sync_all` leaves a record
   in the page cache only. The next process replays it and saves; its `sync` is a
   no-op because it has not opened the writer; the snapshot is synced with a
   cursor that covers the record. A power cut then takes the record, and
   recovery refuses the world: the cursor is behind the snapshot's.
3. **`refused`.** A command whose append returned `Err` can be part of the world the
   next process loads (its record reached the file before the error, or at
   drop), though `docs/DATA_FLOW.md` says the transition is refused.
4. **`second_daemon`.** A second `server_d create` of an id in use opens the log
   with its repair before it is refused. If its scan meets a record that the first process is
   writing, its `set_len` cuts the record off, perhaps after it was completed, and
   the first process acknowledges a command that is gone. The missing lock is
   open item P0-10 of `docs/phase1/EXIT_CHECKLIST.md`, where it is
   about the order of events between writers; here the second process writes nothing.
5. **`any_log`.** `apply_event` does not look at the id of an `EntitySpawned`, so it
   takes the id 0, which `world.rs` reserves for `INVALID`, though `replay.rs` says that
   invalid references return errors. The codec does look: the world's next save cannot be
   loaded. The kernel numbers entities from 1, so `server_d` never writes such an event; it
   takes another producer of the log. `ReplayKeepsSnapshotsValid` says that a save decodes
   exactly when the world has no such entity.

## 7. What is abstracted and what is not modelled

Abstracted within the modules:

- the byte layout and checksum of a record: a partial record does not decode;
- a created directory and the entry of a new log in it are durable, and so is a
  truncation by the repairing open. The documents leave creation durability
  open; it is listed as a hazard without a property;
- xxHash64 has no collision, so a hash is the values it is fed;
- what `sy_cli` prints of a loaded world beyond its history (`entity`, `entities`,
  `zones` select parts of it and change nothing);
- positions are zones; names other than a zone's, with the changes of the property `name`,
  coordinates and `sim_time` (always set from the tick) are left out;
- ticks and event ids do not saturate: that takes 2^64 steps. The code's id 0
  (`EventId::ZERO`) of an event not yet appended is the 0 of `Emitted`;
- PCG32's output permutation: which states make a draw true is a constant;
- what is only logged or printed.

Not modelled:

- the single-event `append` and the deprecated `truncate_after`, and
  `delete_world`: no caller in the binaries;
- a second daemon that gets past its refused creation and writes: the documents
  say that one world has one writer, and leave the lock that would ensure it open;
- the decoder of a record's bytes (length, checksum, limits);
- the test kit's mocks;
- JSON text, the format version, paths, string validation;
- `FixedStepClock`'s pacing and the RNG's `range_*` and `pick`: no caller;
- the stubs, the fuzz targets and CI: no behaviour of their own.

## 8. Plan

Written, the most important behaviour first: FileEventLog,
FilesystemStore, PersistentSimulation with its proofs, DurableWorld and
the refinement; WorldState, SnapshotCodec, Replay, Simulation,
JournaledSimulation, ReplayedLog; ServerD; Inspector, SecondDaemon,
Determinism; the proofs of wholeness, of the retrying caller, of recovery, refinement and
recoverability, then of the daemon, the tool, replay, the kernel and the determinism runner.

Next modules:

1. **TwoWriters**: two processes that both write, with counters and buffers of their
   own on one file; which invariants fail, and which a lock taken at open would
   restore.
2. **WalRecord**: the record decoder over small bytes; `append` and
   `truncate_after`, with a crash in its rewrite.
3. `delete_world`, between its steps and against `list_worlds`.

Next proofs: every safety property of a passing run is proved. What could be weakened are
hypotheses: how much of the tool's theorems survives power cuts, and which of the
runtime's a caller that goes on keeps until its first torn piece.
