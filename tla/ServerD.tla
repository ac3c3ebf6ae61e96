------------------------------ MODULE ServerD -------------------------------
(***************************************************************************)
(* The daemon (bin/server_d, main.rs) as the caller of the persistent      *)
(* runtime: `create` makes, saves, populates and saves a world, `run`      *)
(* loads one, ticks it until a limit or Ctrl+C, saving now and then, and   *)
(* saves it before it ends.  Any error ends the process.  Each action is a *)
(* step of the runtime with its place in the daemon's program, or a step   *)
(* of the program between two calls.                                       *)
(***************************************************************************)
EXTENDS PersistentSimulation

CONSTANTS
  TickShapes,    \* the batches a Tick can emit
  Population,    \* how many entities `create` spawns
  TickLimits,    \* the --ticks a run is started with; 0 means no limit
  SaveInterval   \* --save-interval; 0 means no auto-save

VARIABLES
  at,        \* the next call of the program
  limit,     \* max_ticks
  count,     \* entities spawned, or ticks run
  lastSave,  \* last_save_tick
  running    \* cleared by the signal handler

dVars == <<at, limit, count, lastSave, running>>
allVars == <<vars, dVars>>

SpawnShape == <<0>>

ASSUME TickShapesAssumption ==
  \A s \in TickShapes : s \in Shapes /\ \A i \in DOMAIN s : s[i] = 1
ASSUME SpawnShapeAssumption == SpawnShape \in Shapes
ASSUME DaemonAssumption ==
  Population \in Nat /\ SaveInterval \in Nat /\ TickLimits \subseteq Nat

DInit ==
  /\ Init
  /\ at = "none" /\ limit = 0 /\ count = 0 /\ lastSave = 0 /\ running = TRUE

-----------------------------------------------------------------------------
(***************************************************************************)
(* Starting.  Bound: a command is run only if the commands it needs can    *)
(* still be issued.                                                        *)
(***************************************************************************)
Launch(first, ticks, needed) ==
  /\ Start
  /\ issued + needed <= MaxCommands
  /\ at' = first /\ limit' = ticks
  /\ count' = 0 /\ lastSave' = 0 /\ running' = TRUE

LaunchCreate == Launch("create", 0, 1 + Population)

LaunchRun == \E ticks \in TickLimits : Launch("load", ticks, ticks)

\* The call is begun and, should it succeed, next is where the program goes on.
Go(next) == at' = next /\ UNCHANGED <<limit, running>>

-----------------------------------------------------------------------------
(***************************************************************************)
(* cmd_create.                                                             *)
(***************************************************************************)
CallCreate ==
  /\ at = "create" /\ CreateWorld
  /\ Go("saveGenesis") /\ UNCHANGED <<count, lastSave>>

\* Mutant of SaveGenesis: population starts at once.
PopulateAtOnce ==
  /\ at = "saveGenesis" /\ pc = "idle"
  /\ Go("populate") /\ UNCHANGED <<vars, count, lastSave>>

SaveGenesis ==
  /\ at = "saveGenesis" /\ BeginSave
  /\ Go("populate") /\ UNCHANGED <<count, lastSave>>

SpawnNext ==
  /\ at = "populate" /\ count < Population
  /\ Execute(world, SpawnShape)
  /\ count' = count + 1
  /\ Go("populate") /\ UNCHANGED lastSave

Populated ==
  /\ at = "populate" /\ count = Population /\ pc = "idle"
  /\ Go("finalSave") /\ UNCHANGED <<vars, count, lastSave>>

-----------------------------------------------------------------------------
(***************************************************************************)
(* cmd_run.                                                                *)
(***************************************************************************)
CallLoad ==
  /\ at = "load" /\ LoadWorld
  /\ lastSave' = world'.tick
  /\ Go("loop") /\ UNCHANGED count

LimitReached == limit > 0 /\ count >= limit

\* Mutant of LeaveLoop: only the limit ends the loop.
LeaveAtLimit ==
  /\ at = "loop" /\ pc = "idle" /\ LimitReached
  /\ Go("finalSave") /\ UNCHANGED <<vars, count, lastSave>>

LeaveLoop ==
  /\ at = "loop" /\ pc = "idle"
  /\ ~running \/ LimitReached
  /\ Go("finalSave") /\ UNCHANGED <<vars, count, lastSave>>

\* Mutant of TickOnce: ticks_run is not counted.
TickUncounted ==
  /\ at = "loop" /\ running /\ ~LimitReached
  /\ \E shape \in TickShapes : Execute(world, shape)
  /\ Go("autoSave") /\ UNCHANGED <<count, lastSave>>

TickOnce ==
  /\ at = "loop" /\ running /\ ~LimitReached
  /\ \E shape \in TickShapes : Execute(world, shape)
  /\ count' = count + 1
  /\ Go("autoSave") /\ UNCHANGED lastSave

\* Mutant of SaveDue: one tick late.
SaveOverdue == SaveInterval > 0 /\ world.tick - lastSave > SaveInterval

SaveDue == SaveInterval > 0 /\ world.tick - lastSave >= SaveInterval

AutoSave ==
  /\ at = "autoSave" /\ SaveDue
  /\ BeginSave
  /\ lastSave' = world.tick
  /\ Go("loop") /\ UNCHANGED count

NoAutoSave ==
  /\ at = "autoSave" /\ pc = "idle" /\ ~SaveDue
  /\ Go("loop") /\ UNCHANGED <<vars, count, lastSave>>

-----------------------------------------------------------------------------
(***************************************************************************)
(* The last save of both, and the end.                                     *)
(***************************************************************************)
\* Mutant of FinalSave: the program ends without it.
EndUnsaved ==
  /\ at = "finalSave" /\ pc = "idle"
  /\ Go("done") /\ UNCHANGED <<vars, count, lastSave>>

FinalSave ==
  /\ at = "finalSave" /\ BeginSave
  /\ Go("done") /\ UNCHANGED <<count, lastSave>>

Ended ==
  /\ at' = "none" /\ limit' = 0 /\ count' = 0 /\ lastSave' = 0 /\ running' = TRUE

\* The program returns from main, or exits with status 1 after an error.
End == (at = "done" \/ pc = "failed") /\ Exit /\ Ended

\* Is the program about to call the runtime?
CallDue ==
  \/ at \in {"create", "load", "saveGenesis", "finalSave"}
  \/ at = "populate" /\ count < Population
  \/ at = "loop" /\ running /\ ~LimitReached /\ issued < MaxCommands
  \/ at = "autoSave" /\ SaveDue

\* The steps inside a call of the runtime, and a call that is refused at once.
WithinCall ==
  /\ \/ AppendRecord \/ Acknowledge \/ AppendFails \/ SyncFails
     \/ SaveSync \/ WriteSnapshot \/ FinishSave \/ AbortSave
     \/ CallDue /\ RefuseCall
  /\ UNCHANGED dVars

Signal ==
  /\ pc # "down" /\ running
  /\ running' = FALSE
  /\ UNCHANGED <<vars, at, limit, count, lastSave>>

Killed == (Kill \/ PowerLoss) /\ Ended

\* What the process does by itself, whatever the outcome of each call.
Work ==
  \/ CallCreate \/ SaveGenesis \/ SpawnNext \/ Populated
  \/ CallLoad \/ LeaveLoop \/ TickOnce \/ AutoSave \/ NoAutoSave
  \/ FinalSave \/ End \/ WithinCall

DNext == LaunchCreate \/ LaunchRun \/ Work \/ Signal \/ Killed

(***************************************************************************)
(* Fairness: a process that is scheduled and whose system calls return     *)
(* keeps taking steps.  Nothing is assumed of launches, of signals and of  *)
(* failures.                                                               *)
(***************************************************************************)
DSpec == DInit /\ [][DNext]_allVars /\ WF_allVars(Work)

-----------------------------------------------------------------------------
(***************************************************************************)
(* Properties.                                                             *)
(***************************************************************************)
\* A process that ends without an error, whatever failed in the processes
\* before it, leaves a snapshot and a meta of the very world the whole log
\* records: nothing is left to replay (docs/phase1/BINARIES.md: Ctrl+C
\* triggers a graceful shutdown and saves the world).
CleanEndIsSaved ==
  at = "done" /\ pc = "idle" =>
    /\ snap # NoFile /\ meta = MetaOf(snap)
    /\ snap.cursor = Len(Wal) /\ snap.hist = Commands(Wal)

\* Is `create` past its save of the genesis world?  pc tells, unless a call has
\* failed since: then it is the meta.json that is there.
GenesisSaved ==
  /\ at = "populate"
  /\ pc \in {"idle", "append", "sync"} \/ (pc = "failed" /\ Listed)

\* The disk holds a world that is listed, that a run can load, and that has
\* every command reported done.
Usable ==
  /\ Listed /\ Recoverable(Wal, LastId(Wal))
  /\ acked \subseteq {Replayed(Wal).hist[i] : i \in DOMAIN Replayed(Wal).hist}

\* From the first spawn of `create` on, whatever comes next leaves a usable
\* world: a kill, a power cut and an end after a failure too (the comment at
\* its save of the genesis world).
PopulatingIsRecoverable == [][GenesisSaved => Usable']_allVars

\* In the loop, a run never has SaveInterval ticks or more that it has not
\* saved since it loaded the world.
AutoSaveKeepsUp ==
  at = "loop" /\ pc = "idle" /\ SaveInterval > 0 =>
    /\ world.tick - lastSave < SaveInterval
    /\ snap.tick = lastSave \/ world.tick = lastSave + count

\* A process that was told to stop stops, wherever it was, and so does a run
\* with a limit and a `create`: failing calls end it, others let it go on.
SignalEndsRun == ~running ~> pc = "down"

LimitedRunEnds == limit > 0 \/ at = "create" ~> pc = "down"

=============================================================================
