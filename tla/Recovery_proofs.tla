--------------------------- MODULE Recovery_proofs ---------------------------
(***************************************************************************)
(* Proofs about PersistentSimulation for a caller that stops at the first  *)
(* error: whatever recovery accepts is the world the log records, power    *)
(* cuts and undone renames included; the runtime implements DurableWorld;  *)
(* and a saved world can be recovered as long as the log reaches as far as *)
(* its snapshot.                                                           *)
(***************************************************************************)
EXTENDS PersistentSimulation_proofs

(***************************************************************************)
(* The snapshots that a power cut may leave; the current one is of them.   *)
(***************************************************************************)
Snapshots == {d.snap : d \in kept} \ {NoFile}

(***************************************************************************)
(* Where the log has an event that snapshot s reflects, it is the event    *)
(* that s reflects.  Covered: it has all of them.                          *)
(***************************************************************************)
Agrees(s) ==
  \A i \in 1..s.cursor : i <= Len(file) /\ file[i] # Torn => file[i].cmd = s.hist[i]

Covered(s) == s.cursor <= Len(file) /\ \A i \in 1..s.cursor : file[i] # Torn

SnapInv ==
  /\ snap \in {d.snap : d \in kept}
  /\ Snapshots # {} => dir
  /\ \A s \in Snapshots :
       /\ Len(s.hist) = s.cursor /\ Agrees(s)
       /\ snap # NoFile /\ s.cursor <= snap.cursor

(***************************************************************************)
(* A process that may still write has every snapshot covered.  Without     *)
(* power cuts they always are.                                             *)
(***************************************************************************)
Writing == buf.recs # << >> \/ (pc \in Running /\ world # NoWorld)

CoverInv == Writing \/ ~PowerLossPossible => \A s \in Snapshots : Covered(s)

(***************************************************************************)
(* The live world is what the log produces, once the command in flight is  *)
(* in the log; the world that is being saved is the live one.              *)
(***************************************************************************)
Reflects(w) == Len(w.hist) = Len(file) /\ \A i \in 1..Len(file) : w.hist[i] = file[i].cmd

Ahead ==
  /\ Len(world.hist) = Len(file) + Len(batch)
  /\ \A i \in 1..Len(file) : world.hist[i] = file[i].cmd
  /\ \A i \in 1..Len(batch) : world.hist[Len(file) + i] = issued

WorldInv ==
  /\ pc = "down" => world = NoWorld
  /\ pc \in Running =>
       Len(file) = log.total + (IF pc = "sync" THEN Len(batch) ELSE 0)
  /\ pc = "append" => Ahead
  /\ pc \in Running \ {"append"} /\ world # NoWorld => Reflects(world)
  /\ pc \in {"saveSync", "saveSnapshot", "saveMeta"} =>
       saving.hist = world.hist /\ saving.cursor = Len(file)

RecoveryInv == IInv /\ SnapInv /\ CoverInv /\ WorldInv

-----------------------------------------------------------------------------
(***************************************************************************)
(* A log without a torn cell reads back as it is, and a snapshot that      *)
(* agrees with the log, followed by the events after its cursor, is the    *)
(* whole log.                                                              *)
(***************************************************************************)
LEMMA CleanReadsBack ==
  ASSUME NEW f \in Seq(Cell), Clean(f)
  PROVE  Valid(f) = f /\ f \in Seq(Event)
<1>1. TornOnlyLast(f) /\ Len(f) \in Nat
  BY CleanIsTornOnlyLast, LenProperties
<1>2. /\ ValidLen(f) \in 0..Len(f) /\ Valid(f) \in Seq(Event) /\ Len(Valid(f)) = ValidLen(f)
      /\ \A i \in 1..ValidLen(f) : Valid(f)[i] = f[i]
      /\ \A i \in 1..Len(f) : f[i] # Torn => i <= ValidLen(f)
  BY <1>1, ValidPrefix
<1>3. ValidLen(f) = Len(f)
  <2>1. CASE Len(f) = 0
    BY <1>2, <2>1
  <2>2. CASE Len(f) > 0
    BY <1>1, <1>2, <2>2 DEF Clean
  <2> QED
    BY <1>1, <2>1, <2>2
<1>4. Valid(f) \in Seq(Cell)
  BY <1>2, EventsAreCells
<1>5. Valid(f) = f
  BY <1>2, <1>3, <1>4, SeqEqual
<1> QED
  BY <1>2, <1>5

LEMMA WalIsPrefix ==
  ASSUME IInv
  PROVE  /\ Wal \in Seq(Event) /\ Len(Wal) \in 0..Len(file) /\ Len(Wal) \in Nat
         /\ \A i \in 1..Len(Wal) : Wal[i] = file[i] /\ file[i] # Torn
         /\ \A i \in 1..Len(file) : file[i] # Torn => i <= Len(Wal)
BY FileFacts, ValidPrefix, LenProperties DEF Wal

LEMMA CommandsAt ==
  ASSUME NEW events \in Seq(Event)
  PROVE  /\ Commands(events) \in Seq(Nat) /\ Len(Commands(events)) = Len(events)
         /\ \A i \in 1..Len(events) : Commands(events)[i] = events[i].cmd
BY CommandsType DEF Commands

LEMMA ReplayedHistory ==
  ASSUME IInv, SnapInv, NEW announced, Recoverable(Wal, announced)
  PROVE  /\ Replayed(Wal) \in World
         /\ Replayed(Wal).hist = Commands(Wal)
         /\ snap \in Snapshots /\ snap.cursor <= Len(Wal)
<1>1. Wal \in Seq(Event) /\ Len(Wal) \in Nat
  BY WalIsPrefix
<1>2. /\ snap \in World /\ snap.cursor \in 0..Len(Wal) /\ Replayed(Wal) \in World
  <2>1. snap \in World \cup {NoFile}
    BY DEF IInv, TypeOK
  <2> QED
    BY <1>1, <2>1, ReplayedIsAWorld
<1>3. snap \in Snapshots
  BY <1>2, NoFileAssumption DEF SnapInv, Snapshots
<1> DEFINE c == snap.cursor
           rest == SubSeq(Wal, c + 1, Len(Wal))
<1>4. /\ snap.hist \in Seq(Nat) /\ Len(snap.hist) = c
      /\ \A i \in 1..c : snap.hist[i] = Wal[i].cmd
  <2>1. snap.hist \in Seq(Nat) /\ Len(snap.hist) = c /\ Agrees(snap)
    BY <1>2, <1>3 DEF SnapInv, World
  <2>2. \A i \in 1..c : i \in 1..Len(Wal)
    BY <1>1, <1>2
  <2>3. \A i \in 1..c : i <= Len(file) /\ file[i] # Torn /\ Wal[i] = file[i]
    BY <2>2, WalIsPrefix, FileFacts
  <2> QED
    BY <2>1, <2>3 DEF Agrees
<1>5. /\ rest \in Seq(Event) /\ Len(rest) = Len(Wal) - c
      /\ \A i \in 1..(Len(Wal) - c) : rest[i] = Wal[c + i]
  <2>1. \A i \in (c + 1)..Len(Wal) : Wal[i] \in Event
    BY <1>1, <1>2, ElementOfSeq
  <2>2. /\ rest \in Seq(Event)
        /\ Len(rest) = IF c + 1 <= Len(Wal) THEN Len(Wal) - (c + 1) + 1 ELSE 0
        /\ \A i \in 1..(Len(Wal) - (c + 1) + 1) : rest[i] = Wal[(c + 1) + i - 1]
    BY <1>1, <1>2, <2>1, SubSeqProperties
  <2> HIDE DEF rest
  <2>3. Len(rest) = Len(Wal) - c
    BY <1>1, <1>2, <2>2
  <2>4. ASSUME NEW i \in 1..(Len(Wal) - c) PROVE rest[i] = Wal[c + i]
    <3>1. i \in 1..(Len(Wal) - (c + 1) + 1) /\ (c + 1) + i - 1 = c + i
      BY <1>1, <1>2
    <3> QED
      BY <2>2, <3>1
  <2> QED
    BY <2>2, <2>3, <2>4
<1>6. Replayed(Wal).hist = snap.hist \o Commands(rest)
  BY DEF Replayed
<1> HIDE DEF rest
<1>7. /\ Commands(rest) \in Seq(Nat) /\ Len(Commands(rest)) = Len(Wal) - c
      /\ \A i \in 1..(Len(Wal) - c) : Commands(rest)[i] = Wal[c + i].cmd
  BY <1>5, CommandsAt
<1> DEFINE h == snap.hist \o Commands(rest)
<1>8. /\ h \in Seq(Nat) /\ Len(h) = Len(snap.hist) + Len(Commands(rest))
      /\ \A i \in 1..(Len(snap.hist) + Len(Commands(rest))) :
           h[i] = IF i <= Len(snap.hist) THEN snap.hist[i]
                                         ELSE Commands(rest)[i - Len(snap.hist)]
  BY <1>4, <1>7, ConcatProperties
<1> HIDE DEF h
<1>9. Len(h) = Len(Wal) /\ \A i \in 1..Len(Wal) : h[i] = Wal[i].cmd
  <2>1. /\ Len(snap.hist) + Len(Commands(rest)) = Len(Wal)
        /\ Len(snap.hist) = c /\ c \in Nat
    BY <1>1, <1>2, <1>4, <1>7
  <2>2. ASSUME NEW i \in 1..Len(Wal) PROVE h[i] = Wal[i].cmd
    <3>1. CASE i <= c
      BY <1>1, <1>4, <1>8, <2>1, <3>1
    <3>2. CASE ~(i <= c)
      <4>1. i - c \in 1..(Len(Wal) - c) /\ c + (i - c) = i
        BY <1>1, <2>1, <3>2
      <4> QED
        BY <1>7, <1>8, <2>1, <3>2, <4>1
    <3> QED
      BY <3>1, <3>2
  <2> QED
    BY <1>8, <2>1, <2>2
<1>10. h = Commands(Wal)
  BY <1>1, <1>8, <1>9, CommandsAt, SeqEqual
<1> QED
  BY <1>2, <1>3, <1>6, <1>10 DEF h

-----------------------------------------------------------------------------
(***************************************************************************)
(* Snapshots that stay while the file changes: it may lose cells, and gain *)
(* some when every snapshot is covered.                                    *)
(***************************************************************************)
LEMMA SnapshotFacts ==
  ASSUME RecoveryInv, NEW s \in Snapshots
  PROVE  /\ s \in World /\ s.cursor \in Nat
         /\ Len(s.hist) = s.cursor /\ Agrees(s) /\ s.cursor <= snap.cursor
         /\ snap \in Snapshots
<1>1. s \in World
  BY DEF RecoveryInv, IInv, TypeOK, Contents, Snapshots
<1>2. snap \in Snapshots
  BY DEF RecoveryInv, SnapInv, Snapshots
<1> QED
  BY <1>1, <1>2 DEF RecoveryInv, SnapInv, World

LEMMA FileShrinks ==
  ASSUME RecoveryInv, UNCHANGED <<snap, kept>>, dir => dir',
         \A i \in 1..Len(file') :
           file'[i] # Torn => i \in 1..Len(file) /\ file[i] # Torn /\ file'[i] = file[i],
         Len(file') \in Nat
  PROVE  SnapInv'
<1>1. Snapshots' = Snapshots
  BY DEF Snapshots
<1>2. ASSUME NEW s \in Snapshots PROVE Agrees(s)'
  <2>1. s.cursor \in Nat /\ Agrees(s)
    BY SnapshotFacts
  <2> SUFFICES ASSUME NEW i \in 1..s.cursor, i <= Len(file'), file'[i] # Torn
               PROVE  file'[i].cmd = s.hist[i]
    BY DEF Agrees
  <2>2. i \in 1..Len(file')
    BY <2>1
  <2> QED
    BY <2>1, <2>2, FileFacts DEF Agrees, RecoveryInv
<1> QED
  BY <1>1, <1>2 DEF RecoveryInv, SnapInv, Snapshots

LEMMA FileGrows ==
  ASSUME RecoveryInv, Writing, UNCHANGED <<snap, kept>>, dir => dir',
         \A i \in 1..Len(file) : file[i] # Torn => i <= Len(file') /\ file'[i] = file[i],
         Len(file') \in Nat
  PROVE  SnapInv' /\ CoverInv'
<1>1. Snapshots' = Snapshots
  BY DEF Snapshots
<1>2. ASSUME NEW s \in Snapshots PROVE Agrees(s)' /\ Covered(s)'
  <2>1. s.cursor \in Nat /\ Agrees(s) /\ Covered(s)
    BY SnapshotFacts DEF RecoveryInv, CoverInv
  <2>2. Len(file) \in Nat
    BY FileFacts DEF RecoveryInv
  <2>3. ASSUME NEW i \in 1..s.cursor
        PROVE  i <= Len(file') /\ file'[i] = file[i] /\ file[i] # Torn /\ i <= Len(file)
    <3>1. i \in 1..Len(file) /\ file[i] # Torn
      BY <2>1, <2>2 DEF Covered
    <3> QED
      BY <2>2, <3>1
  <2>4. Agrees(s)'
    BY <2>1, <2>3 DEF Agrees
  <2>5. s.cursor <= Len(file')
    <3>1. CASE s.cursor = 0
      BY <3>1
    <3>2. CASE s.cursor # 0
      <4>1. s.cursor \in 1..s.cursor
        BY <2>1, <3>2
      <4> QED
        BY <2>3, <4>1
    <3> QED
      BY <3>1, <3>2
  <2> QED
    BY <2>3, <2>4, <2>5 DEF Covered
<1>3. SnapInv'
  BY <1>1, <1>2 DEF RecoveryInv, SnapInv, Snapshots
<1> QED
  BY <1>1, <1>2, <1>3 DEF CoverInv

LEMMA FileStays ==
  ASSUME RecoveryInv, UNCHANGED <<file, snap, kept>>, dir => dir', Writing' => Writing
  PROVE  SnapInv' /\ CoverInv'
<1>1. Snapshots' = Snapshots
  BY DEF Snapshots
<1>2. \A s : Agrees(s)' = Agrees(s) /\ Covered(s)' = Covered(s)
  BY DEF Agrees, Covered
<1>3. SnapInv'
  BY <1>1, <1>2 DEF RecoveryInv, SnapInv, Snapshots
<1>4. CoverInv'
  BY <1>1, <1>2 DEF RecoveryInv, CoverInv
<1> QED
  BY <1>3, <1>4

-----------------------------------------------------------------------------
(***************************************************************************)
(* The steps.  That they keep IInv is known.                               *)
(***************************************************************************)
LEMMA InitRecovery == Init => RecoveryInv
<1> SUFFICES ASSUME Init PROVE RecoveryInv
  OBVIOUS
<1>1. /\ snap = NoFile /\ kept = {[snap |-> NoFile, meta |-> NoFile]}
      /\ pc = "down" /\ world = NoWorld
  BY DEF Init
<1>2. Snapshots = {}
  BY <1>1 DEF Snapshots
<1>3. snap \in {d.snap : d \in kept}
  BY <1>1
<1>4. SnapInv /\ CoverInv
  BY <1>2, <1>3 DEF SnapInv, CoverInv
<1>5. WorldInv
  BY <1>1 DEF WorldInv, Running
<1> QED
  BY <1>4, <1>5, InitIInv DEF RecoveryInv

LEMMA StartRecovery ==
  ASSUME RecoveryInv, IInv', Start
  PROVE  RecoveryInv'
<1>1. /\ file' = Wal /\ buf' = EmptyBuffer /\ pc = "down" /\ pc' = "idle"
      /\ log' = [next |-> LastId(Wal) + 1, total |-> Len(Wal), open |-> FALSE]
      /\ UNCHANGED <<dir, snap, meta, kept, world>>
  BY DEF Start, OpenRepair, storeVars, Wal
<1>2. /\ Len(Wal) \in Nat /\ Len(Wal) \in 0..Len(file)
      /\ \A i \in 1..Len(Wal) : Wal[i] = file[i] /\ file[i] # Torn
      /\ \A i \in 1..Len(file) : file[i] # Torn => i <= Len(Wal)
  BY WalIsPrefix DEF RecoveryInv
<1>3. world = NoWorld
  BY <1>1 DEF RecoveryInv, WorldInv
<1> HIDE DEF Wal
<1>4. \A i \in 1..Len(Wal) : i \in 1..Len(file)
  BY <1>2, FileFacts DEF RecoveryInv
<1>5. SnapInv'
  BY <1>1, <1>2, <1>4, FileShrinks
<1>6. CoverInv'
  <2>1. ~Writing'
    BY <1>1, <1>3 DEF Writing, EmptyBuffer
  <2> SUFFICES ASSUME ~PowerLossPossible, NEW s \in Snapshots PROVE Covered(s)'
    BY <1>1, <2>1 DEF CoverInv, Snapshots
  <2>2. Covered(s) /\ s.cursor \in Nat
    BY SnapshotFacts DEF RecoveryInv, CoverInv
  <2>3. s.cursor <= Len(Wal)
    <3>1. CASE s.cursor = 0
      BY <1>2, <3>1
    <3>2. CASE s.cursor # 0
      <4>1. s.cursor \in 1..s.cursor /\ s.cursor \in 1..Len(file)
        BY <2>2, <3>2, FileFacts DEF Covered, RecoveryInv
      <4> QED
        BY <1>2, <2>2, <4>1 DEF Covered
    <3> QED
      BY <3>1, <3>2
  <2>4. \A i \in 1..s.cursor : Wal[i] # Torn
    <3>1. \A i \in 1..s.cursor : i \in 1..Len(Wal)
      BY <1>2, <2>2, <2>3
    <3> QED
      BY <1>2, <3>1
  <2> QED
    BY <1>1, <2>3, <2>4 DEF Covered
<1>7. WorldInv'
  BY <1>1, <1>2, <1>3 DEF WorldInv, Running
<1> QED
  BY <1>5, <1>6, <1>7 DEF RecoveryInv

LEMMA LoadWorldRecovery ==
  ASSUME RecoveryInv, IInv', LoadWorld
  PROVE  RecoveryInv'
<1>1. /\ Recoverable(Wal, log.next - 1) /\ world' = Replayed(Wal)
      /\ pc = "idle" /\ pc' = "idle"
      /\ UNCHANGED <<file, synced, log, buf, dir, snap, meta, kept, batch, saving, issued>>
  BY DEF LoadWorld, walVars, storeVars, ghostVars, Wal
<1>2. Clean(file) /\ file \in Seq(Cell)
  BY <1>1, FileFacts DEF RecoveryInv, IInv, LogInv, Running
<1>3. Wal = file /\ file \in Seq(Event)
  BY <1>2, CleanReadsBack DEF Wal
<1>4. /\ world' \in World /\ world'.hist = Commands(Wal)
      /\ snap \in Snapshots /\ snap.cursor <= Len(Wal)
  BY <1>1, ReplayedHistory DEF RecoveryInv
<1>5. Len(file) \in Nat
  BY <1>2, LenProperties
<1>6. ASSUME NEW s \in Snapshots PROVE Covered(s)
  <2>1. s.cursor \in Nat /\ s.cursor <= snap.cursor /\ snap.cursor \in Nat
    BY <1>4, SnapshotFacts
  <2> QED
    BY <1>2, <1>3, <1>4, <1>5, <2>1 DEF Covered, Clean
<1>7. SnapInv'
  BY <1>1 DEF RecoveryInv, SnapInv, Snapshots, Agrees
<1>8. CoverInv'
  BY <1>1, <1>6 DEF CoverInv, Snapshots, Covered
<1>9. Reflects(world)'
  BY <1>1, <1>3, <1>4, CommandsAt DEF Reflects
<1>10. WorldInv'
  BY <1>1, <1>9 DEF RecoveryInv, WorldInv, Running
<1> QED
  BY <1>7, <1>8, <1>10 DEF RecoveryInv

LEMMA ExecuteAhead ==
  ASSUME RecoveryInv, NEW w \in World, Reflects(w), NEW shape, IsShape(shape),
         Execute(w, shape)
  PROVE  WorldInv'
<1> DEFINE c == issued + 1
           n == Len(shape)
           b == Emitted(w, c, shape)
           added == [i \in 1..n |-> c]
<1>1. /\ pc = "idle" /\ pc' = "append" /\ issued' = c /\ batch' = b
      /\ world' = Applied(w, c, shape)
      /\ UNCHANGED <<file, log>>
  BY DEF Execute, walVars
<1>2. c \in Nat
  BY DEF RecoveryInv, IInv, TypeOK
<1>3. b \in Seq(Event) /\ Len(b) = n /\ n \in Nat \ {0}
  BY <1>2, ExecutedTypes
<1> HIDE DEF b, c
<1>4. Len(file) \in Nat /\ Len(file) = log.total
  BY <1>1, FileFacts DEF RecoveryInv, IInv, TypeOK, WorldInv, Running
<1>5. w.hist \in Seq(Nat) /\ Len(w.hist) = Len(file)
  <2>1. w.hist \in Seq(Nat)
    BY DEF World
  <2>2. Len(w.hist) = Len(file)
    BY DEF Reflects
  <2> QED
    BY <2>1, <2>2
<1>6. added \in Seq(Nat) /\ Len(added) = n /\ \A i \in 1..n : added[i] = c
  <2>1. added \in [1..n -> Nat]
    BY <1>2
  <2>2. added \in Seq(Nat)
    BY <1>3, <2>1, SeqDef
  <2>3. Len(added) = n
    <3>1. DOMAIN added = 1..n /\ DOMAIN added = 1..Len(added) /\ Len(added) \in Nat
      BY <2>2, LenProperties
    <3> QED
      BY <1>3, <3>1
  <2> QED
    BY <2>2, <2>3
<1> DEFINE h == w.hist \o added
<1>7. world'.hist = h
  BY <1>1 DEF Applied
<1> HIDE DEF added, n
<1>8. /\ Len(h) = Len(w.hist) + Len(added)
      /\ \A i \in 1..(Len(w.hist) + Len(added)) :
           h[i] = IF i <= Len(w.hist) THEN w.hist[i] ELSE added[i - Len(w.hist)]
  BY <1>5, <1>6, ConcatProperties
<1> HIDE DEF h
<1>9. ASSUME NEW i \in 1..Len(file) PROVE h[i] = file[i].cmd
  <2>1. w.hist[i] = file[i].cmd
    BY DEF Reflects
  <2>2. i \in 1..(Len(w.hist) + Len(added)) /\ i <= Len(w.hist)
    BY <1>3, <1>4, <1>5, <1>6
  <2> QED
    BY <1>8, <2>1, <2>2
<1>10. ASSUME NEW i \in 1..n PROVE h[Len(file) + i] = c
  <2>1. /\ Len(file) + i \in 1..(Len(w.hist) + Len(added))
        /\ ~(Len(file) + i <= Len(w.hist)) /\ (Len(file) + i) - Len(w.hist) = i
    BY <1>3, <1>4, <1>5, <1>6
  <2> QED
    BY <1>6, <1>8, <2>1
<1>11. Len(h) = Len(file) + n
  BY <1>5, <1>6, <1>8
<1>12. Ahead'
  <2>1. Len(batch') = n
    BY <1>1, <1>3
  <2> QED
    BY <1>1, <1>7, <1>9, <1>10, <1>11, <2>1 DEF Ahead
<1> QED
  BY <1>1, <1>4, <1>12 DEF WorldInv, Running

LEMMA CommandRecovery ==
  ASSUME RecoveryInv, IInv', CreateWorld \/ RunCommand
  PROVE  RecoveryInv'
<1>1. CASE CreateWorld
  <2>1. /\ StorageStatus = "Absent" /\ log.total = 0 /\ pc = "idle"
        /\ Execute(EmptyWorld, GenesisShape)
    BY <1>1 DEF CreateWorld, CreateAllowed, Execute
  <2>2. UNCHANGED <<file, buf, snap, kept, dir>>
    BY <2>1 DEF Execute, walVars, storeVars
  <2>3. Snapshots = {}
    BY <2>1 DEF StorageStatus, RecoveryInv, SnapInv
  <2>4. SnapInv' /\ CoverInv'
    BY <2>2, <2>3 DEF RecoveryInv, SnapInv, CoverInv, Snapshots
  <2>5. file = << >> /\ Len(file) = 0
    BY <2>1, FileFacts, EmptySeq DEF RecoveryInv, WorldInv, Running
  <2>6. EmptyWorld \in World /\ Reflects(EmptyWorld) /\ IsShape(GenesisShape)
    <3>1. EmptyWorld \in World /\ Reflects(EmptyWorld)
      BY <2>5 DEF EmptyWorld, World, Reflects
    <3> QED
      BY <3>1 DEF GenesisShape, IsShape
  <2> QED
    BY <2>1, <2>4, <2>6, ExecuteAhead DEF RecoveryInv
<1>2. CASE RunCommand
  <2>1. PICK shape \in Shapes : Execute(world, shape)
    BY <1>2 DEF RunCommand
  <2>2. /\ UNCHANGED <<file, buf, snap, kept, dir>> /\ pc = "idle" /\ world # NoWorld
        /\ IsShape(shape)
    BY <1>2, <2>1, ShapesAssumption DEF RunCommand, Execute, walVars, storeVars
  <2>3. Writing /\ Reflects(world) /\ world \in World
    BY <2>2 DEF RecoveryInv, IInv, TypeOK, Writing, WorldInv, Running
  <2>4. SnapInv' /\ CoverInv'
    BY <2>2, <2>3, FileStays
  <2> QED
    BY <2>1, <2>2, <2>3, <2>4, ExecuteAhead DEF RecoveryInv
<1> QED
  BY <1>1, <1>2

LEMMA AppendRecordRecovery ==
  ASSUME RecoveryInv, IInv', AppendRecord
  PROVE  RecoveryInv'
<1> DEFINE g == Numbered(batch)
<1>1. /\ pc = "append" /\ pc' = "sync" /\ file' = Stem \o buf.recs \o g
      /\ log' = [log EXCEPT !.open = TRUE] /\ dir' = TRUE
      /\ UNCHANGED <<snap, kept, world, batch, issued>>
  BY DEF AppendRecord, WriteAndFlush, ghostVars
<1>2. IInv /\ TypeOK
  BY DEF RecoveryInv, IInv
<1>3. Stem \o buf.recs = file /\ file \in Seq(Cell) /\ Len(file) \in Nat
  BY <1>1, <1>2, EmptyBufferStem, FileFacts
<1>4. batch \in Seq(Event) /\ log.next \in Nat \ {0} /\ world # NoWorld
  BY <1>1, <1>2 DEF TypeOK
<1>5. g \in Seq(Event) /\ Len(g) = Len(batch) /\ Len(batch) \in Nat
  BY <1>4, NumberedEvents, LenProperties
<1>6. \A i \in 1..Len(batch) : g[i].cmd = batch[i].cmd
  BY <1>4, NumberedEvents
<1>7. \A i \in 1..Len(batch) : batch[i].cmd = issued
  BY <1>1, <1>2 DEF IInv, LogInv, Running
<1> HIDE DEF g
<1>8. g \in Seq(Cell)
  BY <1>5, EventsAreCells
<1> DEFINE f == file \o g
<1>9. file' = f
  BY <1>1, <1>3
<1>10. /\ f \in Seq(Cell) /\ Len(f) = Len(file) + Len(g)
       /\ \A i \in 1..(Len(file) + Len(g)) :
            f[i] = IF i <= Len(file) THEN file[i] ELSE g[i - Len(file)]
  BY <1>3, <1>8, ConcatProperties
<1> HIDE DEF f
<1>11. Len(f) = Len(file) + Len(batch) /\ Len(f) \in Nat
  BY <1>3, <1>5, <1>10
<1>12. \A i \in 1..Len(file) : i <= Len(f) /\ f[i] = file[i]
  BY <1>3, <1>5, <1>10
<1>13. SnapInv' /\ CoverInv'
  <2>1. Writing
    BY <1>1, <1>4 DEF Writing, Running
  <2> QED
    BY <1>1, <1>9, <1>11, <1>12, <2>1, FileGrows
<1>14. Ahead
  BY <1>1 DEF RecoveryInv, WorldInv
<1>15. Reflects(world)'
  <2>1. ASSUME NEW i \in 1..Len(f) PROVE world.hist[i] = f[i].cmd
    <3>1. CASE i <= Len(file)
      BY <1>3, <1>12, <1>14, <3>1 DEF Ahead
    <3>2. CASE ~(i <= Len(file))
      <4>1. i - Len(file) \in 1..Len(batch) /\ Len(file) + (i - Len(file)) = i
        BY <1>3, <1>5, <1>11, <3>2
      <4>2. f[i] = g[i - Len(file)]
        BY <1>3, <1>5, <1>10, <3>2
      <4>3. world.hist[i] = issued
        BY <1>14, <4>1 DEF Ahead
      <4>4. g[i - Len(file)].cmd = issued
        BY <1>6, <1>7, <4>1
      <4> QED
        BY <4>2, <4>3, <4>4
    <3> QED
      BY <3>1, <3>2
  <2>2. Len(world.hist) = Len(f)
    BY <1>11, <1>14 DEF Ahead
  <2> QED
    BY <1>1, <1>9, <2>1, <2>2 DEF Reflects
<1>16. Len(f) = log'.total + Len(batch)
  <2>1. Len(file) = log.total /\ log'.total = log.total
    BY <1>1, <1>2, <1>3 DEF RecoveryInv, WorldInv, Running, TypeOK
  <2> QED
    BY <1>11, <2>1
<1>17. WorldInv'
  BY <1>1, <1>9, <1>15, <1>16 DEF WorldInv, Running
<1> QED
  BY <1>13, <1>17 DEF RecoveryInv

LEMMA AcknowledgeRecovery ==
  ASSUME RecoveryInv, IInv', Acknowledge
  PROVE  RecoveryInv'
<1>1. /\ pc = "sync" /\ pc' = "idle"
      /\ log' = [log EXCEPT !.next = @ + Len(batch), !.total = @ + Len(batch)]
      /\ UNCHANGED <<file, buf, dir, snap, kept, world>>
  BY DEF Acknowledge, SyncAndNumber, storeVars
<1>2. /\ log \in [next : Nat \ {0}, total : Nat, open : BOOLEAN]
      /\ world # NoWorld
  BY <1>1 DEF RecoveryInv, IInv, TypeOK
<1>3. SnapInv' /\ CoverInv'
  BY <1>1, <1>2, FileStays DEF Writing, Running
<1>4. Len(file) = log.total + Len(batch) /\ Reflects(world)
  BY <1>1, <1>2 DEF RecoveryInv, WorldInv, Running
<1>5. log'.total = log.total + Len(batch)
  BY <1>1, <1>2
<1>6. Reflects(world)'
  BY <1>1, <1>4 DEF Reflects
<1>7. WorldInv'
  BY <1>1, <1>4, <1>5, <1>6 DEF WorldInv, Running
<1> QED
  BY <1>3, <1>7 DEF RecoveryInv

(***************************************************************************)
(* After an error nothing is said of the world; only the file matters.     *)
(***************************************************************************)
LEMMA FailedRecovery ==
  ASSUME RecoveryInv, IInv', RefuseCall \/ SyncFails \/ AppendFails \/ AbortSave
  PROVE  RecoveryInv'
<1>1. pc' = "failed" /\ UNCHANGED <<snap, kept>>
  BY DEF RefuseCall, SyncFails, AppendFails, AbortSave, RollBack, SaveFails, storeVars
<1>2. WorldInv'
  BY <1>1 DEF WorldInv, Running
<1>3. CASE RefuseCall \/ SyncFails
  <2>1. buf.recs = << >> /\ UNCHANGED <<file, buf, dir>>
    BY <1>3, EmptyBufferStem DEF RefuseCall, SyncFails, walVars, storeVars, RecoveryInv
  <2>2. ~Writing'
    BY <1>1, <2>1 DEF Writing, Running
  <2> QED
    BY <1>1, <1>2, <2>1, <2>2, FileStays DEF RecoveryInv
<1>4. CASE AppendFails
  <2>1. /\ pc = "append" /\ dir' \in {dir, TRUE}
        /\ Len(file) <= Len(file') /\ Len(file') \in Nat
        /\ \A i \in 1..Len(file) : file'[i] = file[i]
    BY <1>4, AppendFailsFile DEF AppendFails, RecoveryInv
  <2>2. Writing /\ Len(file) \in Nat /\ (dir => dir')
    <3>1. Writing /\ Len(file) \in Nat
      BY <2>1, FileFacts DEF Writing, Running, RecoveryInv, IInv, TypeOK
    <3>2. dir' = dir \/ dir' = TRUE
      BY <2>1
    <3> QED
      BY <3>1, <3>2
  <2>3. \A i \in 1..Len(file) : i <= Len(file')
    BY <2>1, <2>2
  <2>4. SnapInv' /\ CoverInv'
    BY <1>1, <2>1, <2>2, <2>3, FileGrows
  <2> QED
    BY <1>2, <2>4 DEF RecoveryInv
<1>5. CASE AbortSave
  <2>1. pc \in {"saveSync", "saveSnapshot", "saveMeta"} /\ (dir => dir')
    <3>1. /\ pc \in {"saveSync", "saveSnapshot", "saveMeta"}
          /\ dir' = dir \/ dir' = TRUE
      BY <1>5 DEF AbortSave, SaveFails, storeVars
    <3> QED
      BY <3>1
  <2>2. /\ buf.recs = << >> /\ ~buf.begun /\ Stem \o buf.recs = file
    BY <2>1, EmptyBufferStem DEF RecoveryInv
  <2>3. file' = file /\ buf'.recs = << >>
    <3>1. RecordEnds(buf.recs) \ {Len(buf.recs)} = {}
      BY <2>2, EmptySeq DEF RecordEnds
    <3>2. ~FlushStops(buf.recs)
      BY <3>1 DEF FlushStops
    <3> QED
      BY <1>5, <2>2, <3>2 DEF AbortSave, SyncLogFails, walVars, EmptyBuffer
  <2>4. ~Writing'
    BY <1>1, <2>3 DEF Writing, Running
  <2>5. SnapInv' /\ CoverInv'
    BY <1>1, <2>1, <2>3, <2>4, FileStays
  <2> QED
    BY <1>2, <2>5 DEF RecoveryInv
<1> QED
  BY <1>3, <1>4, <1>5

LEMMA BeginSaveRecovery ==
  ASSUME RecoveryInv, IInv', BeginSave \/ SaveSync
  PROVE  RecoveryInv'
<1>1. /\ pc \in {"idle", "saveSync"} /\ pc' \in {"saveSync", "saveSnapshot"}
      /\ UNCHANGED <<dir, snap, kept, world>>
  BY DEF BeginSave, SaveSync, storeVars
<1>2. Stem \o buf.recs = file
  BY <1>1, EmptyBufferStem DEF RecoveryInv
<1>3. file' = file /\ log' = log
  BY <1>2 DEF BeginSave, SaveSync, SyncLog, walVars
<1>4. world # NoWorld /\ world \in World /\ Len(file) \in Nat
  BY <1>1, FileFacts DEF BeginSave, RecoveryInv, IInv, TypeOK
<1>5. Writing
  BY <1>1, <1>4 DEF Writing, Running
<1>6. SnapInv' /\ CoverInv'
  BY <1>1, <1>3, <1>5, FileStays
<1>7. Reflects(world) /\ Len(file) = log.total
  BY <1>1, <1>4 DEF RecoveryInv, IInv, TypeOK, WorldInv, Running
<1>8. saving'.hist = world.hist /\ saving'.cursor = Len(file)
  <2>1. CASE BeginSave
    <3>1. Len(file) = log.next - 1
      BY <2>1 DEF BeginSave, RecoveryInv, IInv, TypeOK, LogInv, Running
    <3> QED
      BY <1>4, <2>1, <3>1 DEF BeginSave, World
  <2>2. CASE SaveSync
    BY <2>2 DEF SaveSync, RecoveryInv, WorldInv
  <2> QED
    BY <2>1, <2>2
<1>9. Reflects(world)'
  BY <1>1, <1>3, <1>7 DEF Reflects
<1>10. WorldInv'
  BY <1>1, <1>3, <1>7, <1>8, <1>9 DEF WorldInv, Running
<1> QED
  BY <1>6, <1>10 DEF RecoveryInv

LEMMA WriteSnapshotRecovery ==
  ASSUME RecoveryInv, IInv', WriteSnapshot
  PROVE  RecoveryInv'
<1>1. /\ pc = "saveSnapshot" /\ pc' = "saveMeta" /\ dir' = TRUE /\ snap' = saving
      /\ UNCHANGED <<file, buf, log, world, saving>>
      /\ \/ kept' = {[snap |-> snap', meta |-> meta']}
         \/ kept' = kept \cup {[d EXCEPT !.snap = saving] : d \in kept}
  BY DEF WriteSnapshot, SaveSnapshot, walVars, DirectorySynced
<1>2. /\ world # NoWorld /\ saving \in World /\ kept \subseteq Contents
      /\ Clean(file) /\ Len(file) \in Nat
  BY <1>1, FileFacts DEF RecoveryInv, IInv, TypeOK, LogInv, Running
<1>3. /\ saving.hist = world.hist /\ saving.cursor = Len(file) /\ Reflects(world)
  BY <1>1, <1>2 DEF RecoveryInv, WorldInv, Running
<1>4. \A d \in kept : [d EXCEPT !.snap = saving].snap = saving
  BY <1>2 DEF Contents
<1>5. Snapshots' \subseteq Snapshots \cup {saving}
  <2>1. \A d \in kept' : d.snap = saving \/ d.snap \in {e.snap : e \in kept}
    <3>1. CASE kept' = {[snap |-> snap', meta |-> meta']}
      BY <1>1, <3>1
    <3>2. CASE kept' = kept \cup {[d EXCEPT !.snap = saving] : d \in kept}
      BY <1>4, <3>2
    <3> QED
      BY <1>1, <3>1, <3>2
  <2> QED
    BY <2>1 DEF Snapshots
<1>6. snap' \in {d.snap : d \in kept'}
  <2>1. PICK d \in kept : TRUE
    BY DEF RecoveryInv, SnapInv
  <2> QED
    BY <1>1, <1>4, <2>1
<1>7. \A s \in Snapshots : s.cursor \in Nat /\ Len(s.hist) = s.cursor /\ Agrees(s)
  BY SnapshotFacts
<1>8. \A s \in Snapshots : Covered(s)
  BY <1>1, <1>2 DEF RecoveryInv, CoverInv, Writing, Running
<1>9. /\ Len(saving.hist) = saving.cursor /\ Agrees(saving) /\ Covered(saving)
  BY <1>2, <1>3 DEF Reflects, Agrees, Covered, Clean
<1>10. \A s : Agrees(s)' = Agrees(s) /\ Covered(s)' = Covered(s)
  BY <1>1 DEF Agrees, Covered
<1>11. snap' # NoFile /\ \A s \in Snapshots \cup {saving} : s.cursor <= saving.cursor
  <2>1. snap' # NoFile
    BY <1>1, <1>2, NoFileAssumption
  <2>2. \A s \in Snapshots : s.cursor <= Len(file)
    BY <1>8 DEF Covered
  <2> QED
    BY <1>2, <1>3, <2>1, <2>2
<1>12. SnapInv'
  BY <1>1, <1>5, <1>6, <1>7, <1>9, <1>10, <1>11 DEF SnapInv
<1>13. CoverInv'
  BY <1>5, <1>8, <1>9, <1>10 DEF CoverInv
<1>14. Reflects(world)'
  BY <1>1, <1>3 DEF Reflects
<1>15. WorldInv'
  BY <1>1, <1>3, <1>14 DEF RecoveryInv, WorldInv, Running
<1> QED
  BY <1>12, <1>13, <1>15 DEF RecoveryInv

LEMMA FinishSaveRecovery ==
  ASSUME RecoveryInv, IInv', FinishSave
  PROVE  RecoveryInv'
<1>1. /\ pc = "saveMeta" /\ pc' = "idle" /\ dir' = TRUE /\ world' = saving
      /\ UNCHANGED <<file, buf, log, snap>>
      /\ \/ kept' = {[snap |-> snap', meta |-> meta']}
         \/ kept' = kept \cup {[d EXCEPT !.meta = MetaOf(saving)] : d \in kept}
  BY DEF FinishSave, SaveMeta, walVars, DirectorySynced
<1>2. /\ world # NoWorld /\ kept \subseteq Contents
  BY <1>1 DEF RecoveryInv, IInv, TypeOK
<1>3. \A d \in kept : [d EXCEPT !.meta = MetaOf(saving)].snap = d.snap
  BY <1>2 DEF Contents
<1>4. snap \in {d.snap : d \in kept}
  BY DEF RecoveryInv, SnapInv
<1>5. snap' \in {d.snap : d \in kept'}
  <2>1. CASE kept' = {[snap |-> snap', meta |-> meta']}
    BY <2>1
  <2>2. CASE kept' = kept \cup {[d EXCEPT !.meta = MetaOf(saving)] : d \in kept}
    BY <1>1, <1>4, <2>2
  <2> QED
    BY <1>1, <2>1, <2>2
<1>6. Snapshots' \subseteq Snapshots
  <2>1. \A d \in kept' : d.snap \in {e.snap : e \in kept}
    <3>1. CASE kept' = {[snap |-> snap', meta |-> meta']}
      BY <1>1, <1>4, <3>1
    <3>2. CASE kept' = kept \cup {[d EXCEPT !.meta = MetaOf(saving)] : d \in kept}
      BY <1>3, <3>2
    <3> QED
      BY <1>1, <3>1, <3>2
  <2> QED
    BY <2>1 DEF Snapshots
<1>7. \A s : Agrees(s)' = Agrees(s) /\ Covered(s)' = Covered(s)
  BY <1>1 DEF Agrees, Covered
<1>8. SnapInv'
  BY <1>1, <1>5, <1>6, <1>7 DEF RecoveryInv, SnapInv
<1>9. \A s \in Snapshots : Covered(s)
  BY <1>1, <1>2 DEF RecoveryInv, CoverInv, Writing, Running
<1>10. CoverInv'
  BY <1>6, <1>7, <1>9 DEF CoverInv
<1>11. Reflects(world) /\ saving.hist = world.hist
  BY <1>1, <1>2 DEF RecoveryInv, WorldInv, Running
<1>12. Reflects(world)'
  BY <1>1, <1>11 DEF Reflects
<1>13. WorldInv'
  BY <1>1, <1>12 DEF RecoveryInv, WorldInv, Running
<1> QED
  BY <1>8, <1>10, <1>13 DEF RecoveryInv

(***************************************************************************)
(* The ends of a process: the file grows by what the buffer still gives    *)
(* up, stays, or loses what was not synced.                                *)
(***************************************************************************)
LEMMA DroppedRecovery ==
  ASSUME RecoveryInv, IInv', Exit \/ Kill
  PROVE  RecoveryInv'
<1>1. /\ pc' = "down" /\ world' = NoWorld /\ buf' = EmptyBuffer
      /\ UNCHANGED <<dir, snap, kept>>
  BY DEF Exit, Kill, DropLog, KillLog, Closed, Gone, storeVars
<1>2. WorldInv' /\ ~Writing'
  BY <1>1 DEF WorldInv, Writing, Running, EmptyBuffer
<1>3. CASE file' = file
  <2>1. SnapInv' /\ CoverInv'
    BY <1>1, <1>2, <1>3, FileStays
  <2> QED
    BY <1>2, <2>1 DEF RecoveryInv
<1>4. CASE file' # file
  <2>1. DropLog /\ pc \in {"idle", "failed"}
    BY <1>4 DEF Exit, Kill, KillLog
  <2>2. IInv /\ LeftoverFits
    <3>1. CASE pc = "failed"
      BY <3>1 DEF RecoveryInv, IInv, BufferInv
    <3>2. CASE pc = "idle"
      BY <3>2, EmptyBufferStem DEF RecoveryInv
    <3> QED
      BY <2>1, <3>1, <3>2 DEF RecoveryInv
  <2>3. /\ Len(file') \in Nat /\ (buf.recs = << >> => file' = file)
        /\ \A i \in 1..Len(file) : file[i] # Torn => i <= Len(file') /\ file'[i] = file[i]
    BY <2>1, <2>2, DroppedFile
  <2>4. Writing
    BY <1>4, <2>3 DEF Writing
  <2>5. SnapInv' /\ CoverInv'
    BY <1>1, <2>3, <2>4, FileGrows
  <2> QED
    BY <1>2, <2>5 DEF RecoveryInv
<1> QED
  BY <1>3, <1>4

LEMMA CutPowerFile ==
  ASSUME IInv, CutPower
  PROVE  /\ Len(file') \in Nat
         /\ \A i \in 1..Len(file') :
              file'[i] # Torn => i \in 1..Len(file) /\ file[i] # Torn /\ file'[i] = file[i]
<1>1. PICK k \in RecordEnds(file), torn \in BOOLEAN :
        /\ torn => k < Len(file)
        /\ file' = SubSeq(file, 1, k) \o (IF torn THEN <<Torn>> ELSE << >>)
  BY DEF CutPower
<1> DEFINE h == SubSeq(file, 1, k)
<1>2. k \in 0..Len(file) /\ Len(file) \in Nat
  BY <1>1, FileFacts DEF RecordEnds
<1>3. /\ h \in Seq(Cell) /\ Len(h) = k
      /\ \A i \in 1..k : h[i] = file[i]
      /\ TornOnlyLast(h) /\ IdsArePositions(h)
      /\ k < Len(file) => Clean(h)
  BY <1>2, FileFacts, CutFile
<1>4. CASE torn
  <2>1. Clean(h) /\ file' = h \o <<Torn>>
    BY <1>1, <1>3, <1>4
  <2> HIDE DEF h
  <2>2. /\ Len(file') = k + 1 /\ file'[Len(file')] = Torn
        /\ \A i \in 1..k : file'[i] = h[i]
    BY <1>3, <2>1, AppendTorn
  <2> QED
    BY <1>2, <1>3, <2>2
<1>5. CASE ~torn
  <2>1. file' = h
    <3>1. file' = h \o << >>
      BY <1>1, <1>5
    <3> QED
      BY <1>3, <3>1, ConcatEmptySeq
  <2> HIDE DEF h
  <2> QED
    BY <1>2, <1>3, <2>1
<1> QED
  BY <1>4, <1>5

LEMMA PowerLossRecovery ==
  ASSUME RecoveryInv, IInv', PowerLoss
  PROVE  RecoveryInv'
<1>1. /\ PowerLossPossible /\ pc' = "down" /\ world' = NoWorld /\ dir' = dir
      /\ buf' = EmptyBuffer
  BY DEF PowerLoss, RevertRenames, CutPower, Closed, Gone
<1>2. PICK d \in kept : snap' = d.snap /\ kept' = {d}
  BY DEF PowerLoss, RevertRenames
<1>3. WorldInv' /\ CoverInv'
  BY <1>1 DEF WorldInv, CoverInv, Writing, Running, EmptyBuffer
<1>4. Snapshots' = {snap'} \ {NoFile} /\ snap' \in {e.snap : e \in kept'}
  BY <1>2 DEF Snapshots
<1>5. Snapshots' \subseteq Snapshots
  BY <1>2, <1>4 DEF Snapshots
<1>6. /\ Len(file') \in Nat
      /\ \A i \in 1..Len(file') :
           file'[i] # Torn => i \in 1..Len(file) /\ file[i] # Torn /\ file'[i] = file[i]
  BY CutPowerFile DEF PowerLoss, RecoveryInv
<1>7. ASSUME NEW s \in Snapshots' PROVE Len(s.hist) = s.cursor /\ Agrees(s)'
  <2>1. s.cursor \in Nat /\ Agrees(s) /\ Len(s.hist) = s.cursor
    BY <1>5, SnapshotFacts
  <2>2. Len(file) \in Nat
    BY FileFacts DEF RecoveryInv
  <2>3. ASSUME NEW i \in 1..s.cursor, i <= Len(file'), file'[i] # Torn
        PROVE  file'[i].cmd = s.hist[i]
    <3>1. i \in 1..Len(file')
      BY <1>6, <2>1, <2>3
    <3>2. i <= Len(file) /\ file[i] # Torn /\ file'[i] = file[i]
      BY <1>6, <2>2, <2>3, <3>1
    <3> QED
      BY <2>1, <3>2 DEF Agrees
  <2>4. Agrees(s)'
    BY <2>3 DEF Agrees
  <2> QED
    BY <2>1, <2>4
<1>8. ASSUME NEW s \in Snapshots' PROVE snap' # NoFile /\ s.cursor <= snap'.cursor
  <2>1. s = snap' /\ snap' # NoFile
    BY <1>4
  <2>2. s.cursor \in Nat
    BY <1>5, SnapshotFacts
  <2> QED
    BY <2>1, <2>2
<1>9. Snapshots' # {} => dir'
  BY <1>1, <1>5 DEF RecoveryInv, SnapInv
<1>10. SnapInv'
  BY <1>4, <1>7, <1>8, <1>9 DEF SnapInv
<1> QED
  BY <1>3, <1>10 DEF RecoveryInv

LEMMA StutterRecovery ==
  ASSUME RecoveryInv, IInv', UNCHANGED vars
  PROVE  RecoveryInv'
<1> USE DEF vars, walVars, storeVars, procVars, ghostVars
<1>1. SnapInv' /\ CoverInv'
  BY FileStays DEF Writing
<1>2. WorldInv'
  BY DEF RecoveryInv, WorldInv, Ahead, Reflects
<1> QED
  BY <1>1, <1>2 DEF RecoveryInv

LEMMA NextRecovery ==
  ASSUME ~RetryAfterError, RecoveryInv, [Next]_vars
  PROVE  RecoveryInv'
<1>1. IInv'
  BY NextIInv DEF RecoveryInv
<1>2. CASE Start
  BY <1>1, <1>2, StartRecovery
<1>3. CASE LoadWorld
  BY <1>1, <1>3, LoadWorldRecovery
<1>4. CASE CreateWorld \/ RunCommand
  BY <1>1, <1>4, CommandRecovery
<1>5. CASE AppendRecord
  BY <1>1, <1>5, AppendRecordRecovery
<1>6. CASE Acknowledge
  BY <1>1, <1>6, AcknowledgeRecovery
<1>7. CASE RefuseCall \/ SyncFails \/ AppendFails \/ AbortSave
  BY <1>1, <1>7, FailedRecovery
<1>8. CASE BeginSave \/ SaveSync
  BY <1>1, <1>8, BeginSaveRecovery
<1>9. CASE WriteSnapshot
  BY <1>1, <1>9, WriteSnapshotRecovery
<1>10. CASE FinishSave
  BY <1>1, <1>10, FinishSaveRecovery
<1>11. CASE Retry
  BY <1>11 DEF Retry
<1>12. CASE Exit \/ Kill
  BY <1>1, <1>12, DroppedRecovery
<1>13. CASE PowerLoss
  BY <1>1, <1>13, PowerLossRecovery
<1>14. CASE UNCHANGED vars
  BY <1>1, <1>14, StutterRecovery
<1> QED
  BY <1>2, <1>3, <1>4, <1>5, <1>6, <1>7, <1>8, <1>9, <1>10, <1>11, <1>12, <1>13, <1>14
     DEF Next

-----------------------------------------------------------------------------
(***************************************************************************)
(* Between calls the live world is the one the whole log produces, and the *)
(* next id is the one that follows it, whatever failed before: commands    *)
(* journal their events before their effect is kept, and roll back else.   *)
(***************************************************************************)
THEOREM LiveWorldStaysDurable ==
  ASSUME ~RetryAfterError
  PROVE  Spec => []LiveWorldIsDurable
<1>1. ASSUME RecoveryInv, pc = "idle"
      PROVE  /\ log.next = Len(Wal) + 1
             /\ world # NoWorld => world.hist = Commands(Wal)
  <2>1. /\ file \in Seq(Cell) /\ Clean(file) /\ Len(file) = log.next - 1
        /\ log.next \in Nat
    BY <1>1, FileFacts DEF RecoveryInv, IInv, TypeOK, LogInv, Running
  <2>2. Wal = file /\ file \in Seq(Event)
    BY <2>1, CleanReadsBack DEF Wal
  <2>3. ASSUME world # NoWorld PROVE world.hist = Commands(Wal)
    <3>1. Reflects(world) /\ world \in World
      BY <1>1, <2>3 DEF RecoveryInv, IInv, TypeOK, WorldInv, Running
    <3>2. world.hist \in Seq(Nat)
      BY <3>1 DEF World
    <3>3. /\ Len(world.hist) = Len(Commands(file)) /\ Commands(file) \in Seq(Nat)
          /\ \A i \in 1..Len(world.hist) : world.hist[i] = Commands(file)[i]
      BY <2>2, <3>1, CommandsAt DEF Reflects
    <3> QED
      BY <2>2, <3>2, <3>3, SeqEqual
  <2> QED
    BY <2>1, <2>2, <2>3
<1>2. RecoveryInv => LiveWorldIsDurable
  BY <1>1 DEF LiveWorldIsDurable
<1>3. RecoveryInv /\ [Next]_vars => RecoveryInv'
  BY NextRecovery
<1> QED
  BY <1>2, <1>3, InitRecovery, PTL DEF Spec

(***************************************************************************)
(* What recovery accepts is the world that the log records, and never      *)
(* another one, with or without power cuts: the validations of             *)
(* load_recovered_world are enough.                                        *)
(***************************************************************************)
THEOREM RecoveryStaysFaithful ==
  ASSUME ~RetryAfterError
  PROVE  Spec => []RecoveryIsFaithful
<1>1. RecoveryInv => RecoveryIsFaithful
  BY ReplayedHistory DEF RecoveryInv, RecoveryIsFaithful
<1>2. RecoveryInv /\ [Next]_vars => RecoveryInv'
  BY NextRecovery
<1> QED
  BY <1>1, <1>2, InitRecovery, PTL DEF Spec

(***************************************************************************)
(* As long as the machine keeps its power, the snapshot on disk is the     *)
(* world after the events up to its cursor, and the log has them all.      *)
(***************************************************************************)
THEOREM SnapshotStaysCovered ==
  ASSUME ~RetryAfterError, ~PowerLossPossible
  PROVE  Spec => []SnapshotCovered
<1>1. ASSUME RecoveryInv, snap # NoFile
      PROVE  /\ snap.cursor <= Len(Wal)
             /\ snap.hist = Commands(SubSeq(Wal, 1, snap.cursor))
  <2> DEFINE c == snap.cursor
             part == SubSeq(Wal, 1, c)
  <2>1. snap \in Snapshots
    BY <1>1 DEF RecoveryInv, SnapInv, Snapshots
  <2>2. /\ c \in Nat /\ snap \in World /\ Len(snap.hist) = c /\ Agrees(snap)
        /\ Covered(snap)
    <3>1. RecoveryInv
      BY <1>1
    <3>2. \A s \in Snapshots : Covered(s)
      BY <3>1 DEF RecoveryInv, CoverInv
    <3> QED
      BY <2>1, <3>1, <3>2, SnapshotFacts
  <2>3. /\ Wal \in Seq(Event) /\ Len(Wal) \in 0..Len(file) /\ Len(file) \in Nat
        /\ \A i \in 1..Len(Wal) : Wal[i] = file[i] /\ file[i] # Torn
        /\ \A i \in 1..Len(file) : file[i] # Torn => i <= Len(Wal)
    <3>1. IInv
      BY <1>1 DEF RecoveryInv
    <3> QED
      BY <3>1, WalIsPrefix, FileFacts
  <2>4. c <= Len(Wal)
    <3>1. CASE c = 0
      BY <2>3, <3>1
    <3>2. CASE c # 0
      <4>1. c \in 1..c /\ c \in 1..Len(file)
        BY <2>2, <2>3, <3>2 DEF Covered
      <4> QED
        BY <2>2, <2>3, <4>1 DEF Covered
    <3> QED
      BY <3>1, <3>2
  <2>5. part \in Seq(Event) /\ Len(part) = c /\ \A i \in 1..c : part[i] = Wal[i]
    <3>1. \A i \in 1..c : Wal[i] \in Event
      BY <2>2, <2>3, <2>4, ElementOfSeq
    <3> QED
      BY <2>2, <2>3, <2>4, <3>1, SubSeqProperties
  <2> HIDE DEF part
  <2>6. \A i \in 1..c : part[i].cmd = snap.hist[i]
    <3>1. \A i \in 1..c : i \in 1..Len(Wal) /\ i <= Len(file)
      BY <2>2, <2>3, <2>4
    <3> QED
      BY <2>2, <2>3, <2>5, <3>1 DEF Agrees
  <2>7. snap.hist \in Seq(Nat)
    BY <2>2 DEF World
  <2>8. /\ Commands(part) \in Seq(Nat) /\ Len(Commands(part)) = c
        /\ \A i \in 1..c : Commands(part)[i] = part[i].cmd
    BY <2>5, CommandsAt
  <2>9. snap.hist = Commands(part)
    BY <2>2, <2>6, <2>7, <2>8, SeqEqual
  <2> QED
    BY <2>4, <2>9 DEF part
<1>2. RecoveryInv => SnapshotCovered
  BY <1>1 DEF SnapshotCovered
<1>3. RecoveryInv /\ [Next]_vars => RecoveryInv'
  BY NextRecovery
<1> QED
  BY <1>2, <1>3, InitRecovery, PTL DEF Spec

------------------------------------------------------------------------------
(***************************************************************************)
(* The proof that PersistentSimulation implements DurableWorld, for a      *)
(* caller that stops at the first error: every step of the runtime, its    *)
(* failures, kills and power cuts included, is a step of the promise under *)
(* the mapping of PersistentSimulation's View and Wal, or changes nothing  *)
(* that the promise shows.                                                 *)
(***************************************************************************)

(***************************************************************************)
(* What the recovery invariant leaves open and the promise needs: where a  *)
(* command ends in the file another one begins, and the events in flight   *)
(* or left in the buffer are all the events of one command that the file   *)
(* has nothing of.                                                         *)
(***************************************************************************)
Boundaries ==
  \A i \in 1..(Len(file) - 1) :
    file[i] # Torn /\ file[i + 1] # Torn /\ file[i].rem = 0 => file[i].cmd # file[i + 1].cmd

Older(c) == \A i \in 1..Len(file) : file[i] # Torn => file[i].cmd < c

OneCommand(events) ==
  \A i \in 1..Len(events) : events[i].rem = Len(events) - i /\ events[i].cmd = issued

PromiseInv ==
  /\ Boundaries
  /\ Older(issued + 1)
  /\ pc = "append" => Older(issued) /\ OneCommand(batch)
  /\ buf.recs # << >> => Older(issued) /\ OneCommand(buf.recs)

Simulated == [Promise!Next]_(Promise!dwVars)

-----------------------------------------------------------------------------
(***************************************************************************)
(* How the log that a reader sees follows the file: it keeps its first     *)
(* events, or gains a command.                                             *)
(***************************************************************************)
LEMMA NextFileFacts ==
  ASSUME IInv'
  PROVE  /\ file' \in Seq(Cell) /\ Len(file') \in Nat /\ TornOnlyLast(file')
         /\ Wal' \in Seq(Event) /\ Len(Wal') \in 0..Len(file')
         /\ \A i \in 1..Len(Wal') : Wal'[i] = file'[i] /\ file'[i] # Torn
         /\ \A i \in 1..Len(file') : file'[i] # Torn => i <= Len(Wal')
<1>1. file' \in Seq(Cell) /\ Len(file') \in Nat /\ TornOnlyLast(file')
  BY LenProperties DEF IInv, TypeOK, FileInv, Cell
<1> QED
  BY <1>1, ValidPrefix DEF Wal

LEMMA KeptEvents ==
  ASSUME IInv, IInv', NEW m \in 0..Len(Wal),
         \A i \in 1..m : i <= Len(file') /\ file'[i] = file[i],
         \A i \in 1..Len(file') : file'[i] # Torn => i <= m
  PROVE  Len(Wal') = m /\ \A i \in 1..m : Wal'[i] = Wal[i]
<1>1. /\ Len(Wal) \in 0..Len(file) /\ Len(file) \in Nat
      /\ \A i \in 1..Len(Wal) : Wal[i] = file[i] /\ file[i] # Torn
  BY WalIsPrefix, FileFacts
<1>2. /\ Len(file') \in Nat /\ Len(Wal') \in 0..Len(file')
      /\ \A i \in 1..Len(Wal') : Wal'[i] = file'[i] /\ file'[i] # Torn
      /\ \A i \in 1..Len(file') : file'[i] # Torn => i <= Len(Wal')
  BY NextFileFacts
<1>3. m <= Len(Wal')
  <2>1. CASE m = 0
    BY <1>2, <2>1
  <2>2. CASE m # 0
    <3>1. m \in 1..m /\ m \in 1..Len(Wal)
      BY <1>1, <2>2
    <3>2. m \in 1..Len(file') /\ file'[m] # Torn
      BY <1>1, <1>2, <3>1
    <3> QED
      BY <1>2, <3>2
  <2> QED
    BY <2>1, <2>2
<1>4. Len(Wal') <= m
  <2>1. CASE Len(Wal') = 0
    BY <2>1
  <2>2. CASE Len(Wal') # 0
    <3>1. Len(Wal') \in 1..Len(Wal') /\ Len(Wal') \in 1..Len(file')
      BY <1>2, <2>2
    <3> QED
      BY <1>2, <3>1
  <2> QED
    BY <2>1, <2>2
<1>5. Len(Wal') = m
  BY <1>1, <1>2, <1>3, <1>4
<1>6. ASSUME NEW i \in 1..m PROVE Wal'[i] = Wal[i]
  <2>1. i \in 1..Len(Wal) /\ i \in 1..Len(Wal')
    BY <1>1, <1>5
  <2> QED
    BY <1>1, <1>2, <2>1
<1> QED
  BY <1>5, <1>6

\* The file has the events it had, and nothing else but perhaps a torn piece.
EventsKept ==
  /\ \A i \in 1..Len(file) : file[i] # Torn => i <= Len(file') /\ file'[i] = file[i]
  /\ \A i \in 1..Len(file') :
       file'[i] # Torn => i \in 1..Len(file) /\ file[i] # Torn /\ file'[i] = file[i]

LEMMA SameLog ==
  ASSUME IInv, IInv', EventsKept
  PROVE  Wal' = Wal
<1>1. /\ Wal \in Seq(Event) /\ Len(Wal) \in 0..Len(file) /\ Len(file) \in Nat
      /\ \A i \in 1..Len(Wal) : Wal[i] = file[i] /\ file[i] # Torn
      /\ \A i \in 1..Len(file) : file[i] # Torn => i <= Len(Wal)
  BY WalIsPrefix, FileFacts
<1> DEFINE m == Len(Wal)
<1>2. \A i \in 1..m : i \in 1..Len(file)
  BY <1>1
<1>3. \A i \in 1..m : i <= Len(file') /\ file'[i] = file[i]
  BY <1>1, <1>2 DEF EventsKept
<1>4. \A i \in 1..Len(file') : file'[i] # Torn => i <= m
  BY <1>1 DEF EventsKept
<1>5. m \in 0..Len(Wal)
  BY <1>1
<1> HIDE DEF m
<1>6. Len(Wal') = m /\ \A i \in 1..m : Wal'[i] = Wal[i]
  BY <1>3, <1>4, <1>5, KeptEvents
<1> QED
  BY <1>1, <1>6, NextFileFacts, SeqEqual DEF m

LEMMA KeptOrder ==
  ASSUME PromiseInv, Len(file) \in Nat, Len(file') \in Nat,
         \A i \in 1..Len(file') :
           file'[i] # Torn => i \in 1..Len(file) /\ file[i] # Torn /\ file'[i] = file[i]
  PROVE  Boundaries' /\ \A c : Older(c) => Older(c)'
<1>1. ASSUME NEW i \in 1..(Len(file') - 1),
             file'[i] # Torn, file'[i + 1] # Torn, file'[i].rem = 0
      PROVE  file'[i].cmd # file'[i + 1].cmd
  <2>1. i \in 1..Len(file') /\ i + 1 \in 1..Len(file')
    OBVIOUS
  <2>2. /\ i + 1 <= Len(file) /\ file[i] # Torn /\ file[i + 1] # Torn
        /\ file'[i] = file[i] /\ file'[i + 1] = file[i + 1]
    BY <1>1, <2>1
  <2>3. i \in 1..(Len(file) - 1)
    BY <2>1, <2>2
  <2> QED
    BY <1>1, <2>2, <2>3 DEF PromiseInv, Boundaries
<1>2. Boundaries'
  BY <1>1 DEF Boundaries
<1>3. ASSUME NEW c, Older(c) PROVE Older(c)'
  BY <1>3 DEF Older
<1> QED
  BY <1>2, <1>3

LEMMA GrownByCommand ==
  ASSUME IInv, IInv', PromiseInv, Older(issued),
         NEW events \in Seq(Event), events # << >>, OneCommand(events),
         file' = Wal \o events
  PROVE  /\ Boundaries' /\ \A i \in 1..Len(file') : file'[i] # Torn => file'[i].cmd <= issued
         /\ Wal' = Wal \o events
         /\ \A i \in 1..Len(Wal) : Wal[i].cmd < issued
<1> DEFINE n == Len(Wal)
           g == Wal \o events
<1>1. /\ Wal \in Seq(Event) /\ n \in 0..Len(file) /\ Len(file) \in Nat
      /\ \A i \in 1..n : Wal[i] = file[i] /\ file[i] # Torn
  BY WalIsPrefix, FileFacts
<1>2. Len(events) \in Nat \ {0} /\ issued \in Nat
  BY LenProperties, EmptySeq DEF IInv, TypeOK
<1>3. /\ g \in Seq(Event) /\ Len(g) = n + Len(events)
      /\ \A i \in 1..(n + Len(events)) : g[i] = IF i <= n THEN Wal[i] ELSE events[i - n]
  BY <1>1, ConcatProperties
<1>4. \A i \in 1..n : i \in 1..Len(file)
  BY <1>1
<1>5. \A i \in 1..n : Wal[i].cmd < issued
  BY <1>1, <1>4 DEF Older
<1>6. \A i \in 1..n : Wal[i].cmd \in Nat
  <2>1. \A i \in 1..n : Wal[i] \in Event
    BY <1>1, ElementOfSeq
  <2> QED
    BY <2>1 DEF Event
<1>7. Clean(g) /\ g \in Seq(Cell)
  <2>1. \A i \in 1..Len(g) : g[i] \in Event
    BY <1>3, ElementOfSeq
  <2> QED
    BY <1>3, <2>1, TornIsNoEvent, EventsAreCells DEF Clean
<1>8. Wal' = g
  BY <1>7, CleanReadsBack DEF Wal
<1> HIDE DEF g, n
<1>9. file' = g
  BY DEF g
<1>10. ASSUME NEW i \in 1..(Len(g) - 1), g[i].rem = 0 PROVE g[i].cmd # g[i + 1].cmd
  <2>1. n \in Nat /\ i \in 1..(n + Len(events)) /\ i + 1 \in 1..(n + Len(events))
    BY <1>1, <1>2, <1>3
  <2>2. CASE i < n
    <3>1. i \in 1..n /\ i + 1 \in 1..n /\ i \in 1..(Len(file) - 1)
      BY <1>1, <2>1, <2>2
    <3>2. g[i] = Wal[i] /\ g[i + 1] = Wal[i + 1]
      BY <1>3, <2>1, <3>1
    <3>3. g[i] = file[i] /\ g[i + 1] = file[i + 1] /\ file[i] # Torn /\ file[i + 1] # Torn
      BY <1>1, <3>1, <3>2
    <3> QED
      BY <1>10, <3>1, <3>3 DEF PromiseInv, Boundaries
  <2>3. CASE i = n
    <3>1. g[i] = Wal[i] /\ g[i + 1] = events[1] /\ i \in 1..n
      BY <1>3, <2>1, <2>3
    <3>2. g[i].cmd < issued /\ g[i].cmd \in Nat
      BY <1>5, <1>6, <3>1
    <3>3. g[i + 1].cmd = issued
      BY <1>2, <3>1 DEF OneCommand
    <3> QED
      BY <1>2, <3>2, <3>3
  <2>4. CASE i > n
    <3>1. i - n \in 1..Len(events) /\ i - n < Len(events) /\ g[i] = events[i - n]
      BY <1>2, <1>3, <2>1, <2>4
    <3>2. events[i - n].rem = Len(events) - (i - n)
      BY <3>1 DEF OneCommand
    <3> QED
      BY <1>2, <1>10, <2>1, <3>1, <3>2
  <2> QED
    BY <2>1, <2>2, <2>3, <2>4
<1>11. ASSUME NEW i \in 1..Len(g) PROVE g[i].cmd <= issued
  <2>1. n \in Nat /\ i \in 1..(n + Len(events))
    BY <1>1, <1>2, <1>3
  <2>2. CASE i <= n
    BY <1>2, <1>3, <1>5, <1>6, <2>1, <2>2
  <2>3. CASE i > n
    <3>1. i - n \in 1..Len(events) /\ g[i] = events[i - n]
      BY <1>2, <1>3, <2>1, <2>3
    <3>2. g[i].cmd = issued
      BY <3>1 DEF OneCommand
    <3> QED
      BY <1>2, <3>2
  <2> QED
    BY <2>1, <2>2, <2>3
<1>12. Boundaries'
  BY <1>9, <1>10 DEF Boundaries
<1> QED
  BY <1>5, <1>8, <1>9, <1>11, <1>12 DEF g, n

-----------------------------------------------------------------------------
(***************************************************************************)
(* Steps of the promise.                                                   *)
(***************************************************************************)
LEMMA NothingShows ==
  ASSUME Wal' = Wal, View' = View, acked' = acked
  PROVE  Simulated
<1>1. Commands(Wal)' = Commands(Wal)
  BY DEF Commands
<1> QED
  BY <1>1 DEF Simulated, Promise!dwVars

LEMMA StopShows ==
  ASSUME Wal' = Wal, View' = NoWorld, acked' = acked
  PROVE  Simulated
<1>1. Commands(Wal)' = Commands(Wal)
  BY DEF Commands
<1>2. Promise!Stop
  BY <1>1 DEF Promise!Stop
<1> QED
  BY <1>2 DEF Simulated, Promise!Next

LEMMA CommandsGrow ==
  ASSUME NEW log1 \in Seq(Event), NEW events \in Seq(Event), NEW c \in Nat,
         \A i \in 1..Len(events) : events[i].cmd = c
  PROVE  LET old == Commands(log1)
             new == Commands(log1 \o events)
         IN  /\ Len(new) - Len(old) = Len(events)
             /\ new = old \o [i \in 1..Len(events) |-> c]
<1> DEFINE old == Commands(log1)
           new == Commands(log1 \o events)
           more == [i \in 1..Len(events) |-> c]
           both == log1 \o events
<1>1. Len(log1) \in Nat /\ Len(events) \in Nat
  BY LenProperties
<1>2. /\ both \in Seq(Event) /\ Len(both) = Len(log1) + Len(events)
      /\ \A i \in 1..(Len(log1) + Len(events)) :
           both[i] = IF i <= Len(log1) THEN log1[i] ELSE events[i - Len(log1)]
  BY ConcatProperties
<1> HIDE DEF both
<1>3. /\ old \in Seq(Nat) /\ Len(old) = Len(log1)
      /\ \A i \in 1..Len(log1) : old[i] = log1[i].cmd
  BY CommandsAt
<1>4. /\ Commands(both) \in Seq(Nat) /\ Len(Commands(both)) = Len(both)
      /\ \A i \in 1..Len(both) : Commands(both)[i] = both[i].cmd
  BY <1>2, CommandsAt
<1>5. new = Commands(both)
  BY DEF both
<1> HIDE DEF old, new
<1>6. more \in Seq(Nat) /\ Len(more) = Len(events) /\ \A i \in 1..Len(events) : more[i] = c
  <2>1. more \in [1..Len(events) -> Nat]
    OBVIOUS
  <2>2. more \in Seq(Nat)
    BY <1>1, <2>1, SeqDef
  <2>3. DOMAIN more = 1..Len(events) /\ DOMAIN more = 1..Len(more) /\ Len(more) \in Nat
    BY <2>2, LenProperties
  <2>4. Len(more) = Len(events)
    BY <1>1, <2>3
  <2> QED
    BY <2>2, <2>4
<1> HIDE DEF more
<1>7. /\ old \o more \in Seq(Nat) /\ Len(old \o more) = Len(old) + Len(more)
      /\ \A i \in 1..(Len(old) + Len(more)) :
           (old \o more)[i] = IF i <= Len(old) THEN old[i] ELSE more[i - Len(old)]
  BY <1>3, <1>6, ConcatProperties
<1>8. ASSUME NEW i \in 1..Len(new) PROVE new[i] = (old \o more)[i]
  <2>1. /\ i \in 1..(Len(log1) + Len(events)) /\ i \in 1..(Len(old) + Len(more))
        /\ new[i] = both[i].cmd
    BY <1>1, <1>2, <1>3, <1>4, <1>5, <1>6
  <2>2. CASE i <= Len(log1)
    BY <1>1, <1>2, <1>3, <1>7, <2>1, <2>2
  <2>3. CASE ~(i <= Len(log1))
    <3>1. i - Len(log1) \in 1..Len(events)
      BY <1>1, <2>1, <2>3
    <3>2. both[i] = events[i - Len(log1)] /\ (old \o more)[i] = more[i - Len(log1)]
      BY <1>2, <1>3, <1>7, <2>1, <2>3
    <3> QED
      BY <1>6, <2>1, <3>1, <3>2
  <2> QED
    BY <2>2, <2>3
<1>9. new \in Seq(Nat) /\ Len(new) = Len(old \o more)
  BY <1>1, <1>2, <1>3, <1>4, <1>5, <1>6, <1>7
<1>10. new = old \o more
  BY <1>7, <1>8, <1>9, SeqEqual
<1>11. Len(new) - Len(old) = Len(events)
  BY <1>1, <1>3, <1>6, <1>7, <1>9
<1> QED
  BY <1>10, <1>11 DEF old, new, more

LEMMA CommitShows ==
  ASSUME Wal \in Seq(Event), issued \in Nat,
         NEW events \in Seq(Event), events # << >>, OneCommand(events),
         Wal' = Wal \o events, \A i \in 1..Len(Wal) : Wal[i].cmd < issued,
         View' \in {View, NoWorld}, acked' = acked
  PROVE  Simulated
<1> DEFINE old == Commands(Wal)
           new == Commands(Wal \o events)
           more == [i \in 1..Len(events) |-> issued]
<1>1. Len(events) \in Nat \ {0}
  BY LenProperties, EmptySeq
<1>2. \A i \in 1..Len(events) : events[i].cmd = issued
  BY DEF OneCommand
<1>3. Len(new) - Len(old) = Len(events) /\ new = old \o more
  BY <1>2, CommandsGrow
<1>4. Commands(Wal)' = new
  BY DEF Commands
<1>5. /\ old \in Seq(Nat) /\ Len(old) = Len(Wal) /\ Len(old) \in Nat
      /\ \A i \in 1..Len(old) : old[i] = Wal[i].cmd
  BY CommandsAt, LenProperties
<1>6. /\ new \in Seq(Nat) /\ Len(new) \in Nat
  <2>1. (Wal \o events) \in Seq(Event)
    BY ConcatProperties
  <2> QED
    BY <2>1, CommandsAt, LenProperties
<1>7. Len(new) > Len(old)
  BY <1>1, <1>3, <1>5, <1>6
<1>8. new[Len(new)] = issued
  <2>1. more \in [1..Len(events) -> Nat]
    OBVIOUS
  <2>2. more \in Seq(Nat)
    BY <1>1, <2>1, SeqDef
  <2>3. DOMAIN more = 1..Len(events) /\ DOMAIN more = 1..Len(more) /\ Len(more) \in Nat
    BY <2>2, LenProperties
  <2>4. Len(more) = Len(events) /\ more[Len(events)] = issued
    BY <1>1, <2>3
  <2> HIDE DEF more, new, old
  <2>5. /\ Len(old \o more) = Len(old) + Len(more)
        /\ \A i \in 1..(Len(old) + Len(more)) :
             (old \o more)[i] = IF i <= Len(old) THEN old[i] ELSE more[i - Len(old)]
    BY <1>5, <2>2, ConcatProperties
  <2>6. /\ Len(new) = Len(old) + Len(events) /\ Len(new) \in 1..(Len(old) + Len(more))
        /\ ~(Len(new) <= Len(old)) /\ Len(new) - Len(old) = Len(events)
    BY <1>1, <1>3, <1>5, <1>6, <2>4
  <2> QED
    BY <1>3, <2>4, <2>5, <2>6
<1>9. issued \notin Promise!Happened(old)
  <2>1. DOMAIN old = 1..Len(old)
    BY <1>5, LenProperties
  <2>2. \A i \in 1..Len(old) : old[i] # issued
    <3>1. \A i \in 1..Len(old) : old[i] < issued /\ old[i] \in Nat
      BY <1>5, ElementOfSeq
    <3> QED
      BY <3>1
  <2> QED
    BY <2>1, <2>2 DEF Promise!Happened
<1> HIDE DEF new, old
<1>10. Commands(Wal) = old
  BY DEF old
<1>11. Promise!Commit
  BY <1>3, <1>4, <1>7, <1>8, <1>9, <1>10 DEF Promise!Commit
<1> QED
  BY <1>11 DEF Simulated, Promise!Next

-----------------------------------------------------------------------------
(***************************************************************************)
(* The steps that leave the events of the file as they are.                *)
(***************************************************************************)
LEMMA InitSimulated == Init => PromiseInv /\ Promise!Init
<1> SUFFICES ASSUME Init PROVE PromiseInv /\ Promise!Init
  OBVIOUS
<1>1. /\ file = << >> /\ Len(file) = 0 /\ buf.recs = << >> /\ pc = "down"
      /\ world = NoWorld /\ acked = {}
  BY EmptySeq DEF Init, EmptyBuffer
<1>2. PromiseInv
  BY <1>1 DEF PromiseInv, Boundaries, Older
<1>3. Wal \in Seq(Event) /\ Len(Wal) = 0
  <2>1. Len(Wal) \in 0..Len(file) /\ Wal \in Seq(Event)
    BY InitIInv, WalIsPrefix
  <2> QED
    BY <1>1, <2>1
<1>4. Commands(Wal) = << >>
  <2>1. Commands(Wal) \in Seq(Nat) /\ Len(Commands(Wal)) = 0
    BY <1>3, CommandsAt
  <2> QED
    BY <2>1, EmptySeq
<1>5. View = NoWorld
  BY <1>1 DEF View
<1> QED
  BY <1>1, <1>2, <1>4, <1>5 DEF Promise!Init

LEMMA QuietOrder ==
  ASSUME IInv, IInv', PromiseInv, EventsKept, issued' = issued,
         pc' # "append", buf'.recs = << >>
  PROVE  PromiseInv'
<1>1. /\ Len(file) \in Nat /\ Len(file') \in Nat
      /\ \A i \in 1..Len(file') :
           file'[i] # Torn => i \in 1..Len(file) /\ file[i] # Torn /\ file'[i] = file[i]
  BY FileFacts, NextFileFacts DEF EventsKept
<1>2. Boundaries'
  BY <1>1, KeptOrder
<1>3. Older(issued + 1)'
  BY <1>1 DEF PromiseInv, Older
<1> QED
  BY <1>2, <1>3 DEF PromiseInv

LEMMA QuietStep ==
  ASSUME IInv, IInv', PromiseInv, EventsKept, issued' = issued, acked' = acked,
         View' \in {View, NoWorld}, pc' # "append", buf'.recs = << >>
  PROVE  PromiseInv' /\ Simulated
<1>1. Wal' = Wal
  BY SameLog
<1>2. PromiseInv'
  BY QuietOrder
<1>3. Simulated
  BY <1>1, NothingShows, StopShows
<1> QED
  BY <1>2, <1>3

LEMMA SameFileKept ==
  ASSUME IInv, file' = file
  PROVE  EventsKept
BY FileFacts DEF EventsKept

LEMMA RepairKeepsEvents ==
  ASSUME IInv, Start
  PROVE  EventsKept
<1>1. file' = Wal
  BY DEF Start, OpenRepair, Wal
<1>2. /\ Len(Wal) \in 0..Len(file) /\ Len(file) \in Nat
      /\ \A i \in 1..Len(Wal) : Wal[i] = file[i] /\ file[i] # Torn
      /\ \A i \in 1..Len(file) : file[i] # Torn => i <= Len(Wal)
  BY WalIsPrefix, FileFacts
<1> HIDE DEF Wal
<1> QED
  BY <1>1, <1>2 DEF EventsKept

LEMMA StartSimulated ==
  ASSUME RecoveryInv, IInv', PromiseInv, Start
  PROVE  PromiseInv' /\ Simulated
<1>1. /\ buf' = EmptyBuffer /\ pc = "down" /\ pc' = "idle"
      /\ UNCHANGED <<world, issued, acked>>
  BY DEF Start, OpenRepair, ghostVars
<1>3. EventsKept
  BY RepairKeepsEvents DEF RecoveryInv
<1>4. View' = View
  BY <1>1 DEF View
<1>5. buf'.recs = << >>
  BY <1>1 DEF EmptyBuffer
<1> QED
  BY <1>1, <1>3, <1>4, <1>5, QuietStep DEF RecoveryInv

LEMMA LoadWorldSimulated ==
  ASSUME RecoveryInv, IInv', PromiseInv, LoadWorld
  PROVE  PromiseInv' /\ Simulated
<1>1. /\ Recoverable(Wal, log.next - 1) /\ world' = Replayed(Wal)
      /\ pc = "idle" /\ pc' = "idle" /\ UNCHANGED <<file, buf, issued, acked>>
  BY DEF LoadWorld, walVars, ghostVars, Wal
<1>2. EventsKept /\ buf.recs = << >>
  BY <1>1, SameFileKept, EmptyBufferStem DEF RecoveryInv
<1>3. PromiseInv'
  BY <1>1, <1>2, QuietOrder DEF RecoveryInv
<1>4. Commands(Wal)' = Commands(Wal)
  BY <1>1 DEF Commands, Wal
<1>5. world' \in World /\ world'.hist = Commands(Wal)
  BY <1>1, ReplayedHistory DEF RecoveryInv
<1>6. View' = Commands(Wal)
  BY <1>1, <1>5, NoWorldAssumption DEF View
<1>7. Promise!Load
  BY <1>1, <1>4, <1>6 DEF Promise!Load
<1> QED
  BY <1>3, <1>7 DEF Simulated, Promise!Next

LEMMA QuietFile ==
  ASSUME IInv,
         \/ RefuseCall \/ SyncFails \/ BeginSave \/ SaveSync \/ WriteSnapshot
         \/ FinishSave \/ AbortSave \/ Kill
  PROVE  file' = file /\ buf'.recs = << >>
<1>1. CASE Kill
  BY <1>1 DEF Kill, KillLog, Closed, EmptyBuffer
<1>2. CASE ~Kill
  <2>1. pc # "failed"
    BY <1>2 DEF RefuseCall, SyncFails, BeginSave, SaveSync, WriteSnapshot,
       FinishSave, AbortSave
  <2>2. buf.recs = << >> /\ Stem \o buf.recs = file
    BY <2>1, EmptyBufferStem
  <2>3. ~FlushStops(buf.recs)
    BY <2>2, EmptySeq DEF FlushStops, RecordEnds
  <2> QED
    BY <1>2, <2>2, <2>3 DEF RefuseCall, SyncFails, BeginSave, SaveSync, WriteSnapshot,
       FinishSave, AbortSave, SyncLog, SyncLogFails, walVars, EmptyBuffer
<1> QED
  BY <1>1, <1>2

LEMMA QuietSimulated ==
  ASSUME RecoveryInv, IInv', PromiseInv,
         \/ RefuseCall \/ SyncFails \/ BeginSave \/ SaveSync \/ WriteSnapshot
         \/ FinishSave \/ AbortSave \/ Kill
  PROVE  PromiseInv' /\ Simulated
<1>1. pc' # "append" /\ issued' = issued /\ acked' = acked
  BY DEF RefuseCall, SyncFails, RollBack, BeginSave, SaveSync, WriteSnapshot,
         FinishSave, AbortSave, Kill, Gone, ghostVars
<1>2. file' = file /\ buf'.recs = << >>
  BY QuietFile DEF RecoveryInv
<1>3. View' \in {View, NoWorld}
  <2>1. CASE SyncFails
    BY <2>1 DEF SyncFails, RollBack, View
  <2>2. CASE Kill
    BY <2>2 DEF Kill, Gone, View
  <2>3. CASE FinishSave
    <3>1. /\ pc = "saveMeta" /\ pc' = "idle" /\ world' = saving
          /\ world # NoWorld /\ saving # NoWorld /\ saving.hist = world.hist
      BY <2>3 DEF FinishSave, RecoveryInv, IInv, TypeOK, WorldInv
    <3> QED
      BY <3>1 DEF View
  <2>4. CASE RefuseCall \/ BeginSave \/ SaveSync \/ WriteSnapshot \/ AbortSave
    <3>1. /\ pc \notin {"append", "sync"} /\ pc' \notin {"append", "sync"}
          /\ world' = world
      BY <2>4 DEF RefuseCall, BeginSave, SaveSync, WriteSnapshot, AbortSave
    <3> QED
      BY <3>1 DEF View
  <2> QED
    BY <2>1, <2>2, <2>3, <2>4
<1>4. EventsKept
  BY <1>2, SameFileKept DEF RecoveryInv
<1> QED
  BY <1>1, <1>2, <1>3, <1>4, QuietStep DEF RecoveryInv

LEMMA ExecuteSimulated ==
  ASSUME RecoveryInv, IInv', PromiseInv, NEW w \in World, NEW shape, IsShape(shape),
         Execute(w, shape)
  PROVE  PromiseInv' /\ Simulated
<1> DEFINE c == issued + 1
           b == Emitted(w, c, shape)
<1>1. /\ pc = "idle" /\ pc' = "append" /\ issued' = c /\ batch' = b
      /\ checkpoint' = world /\ UNCHANGED <<file, buf, acked>>
  BY DEF Execute, walVars
<1>2. issued \in Nat /\ c \in Nat
  BY DEF RecoveryInv, IInv, TypeOK
<1>3. b \in Seq(Event) /\ Len(b) = Len(shape)
  BY <1>2, ExecutedTypes
<1>4. \A i \in 1..Len(shape) : b[i].rem = Len(shape) - i /\ b[i].cmd = c
  BY DEF Emitted
<1> HIDE DEF b
<1>5. OneCommand(batch)'
  BY <1>1, <1>3, <1>4 DEF OneCommand
<1>6. Older(issued)' /\ Older(issued + 1)' /\ Boundaries'
  <2>1. \A i \in 1..Len(file) : file[i] # Torn => file[i].cmd \in Nat
    <3>1. \A i \in 1..Len(file) : file[i] \in Cell
      BY FileFacts, ElementOfSeq DEF RecoveryInv
    <3> QED
      BY <3>1 DEF Cell, Event
  <2> QED
    BY <1>1, <1>2, <2>1 DEF PromiseInv, Older, Boundaries
<1>7. buf.recs = << >>
  BY <1>1, EmptyBufferStem DEF RecoveryInv
<1>8. PromiseInv'
  BY <1>1, <1>5, <1>6, <1>7 DEF PromiseInv
<1>9. View' = View
  BY <1>1 DEF View
<1>10. Wal' = Wal
  BY <1>1 DEF Wal
<1> QED
  BY <1>1, <1>8, <1>9, <1>10, NothingShows

LEMMA CommandSimulated ==
  ASSUME RecoveryInv, IInv', PromiseInv, CreateWorld \/ RunCommand
  PROVE  PromiseInv' /\ Simulated
<1>1. CASE CreateWorld
  <2>1. EmptyWorld \in World
    BY EmptySeq DEF EmptyWorld, World
  <2>2. IsShape(GenesisShape)
    BY DEF GenesisShape, IsShape
  <2> QED
    BY <1>1, <2>1, <2>2, ExecuteSimulated DEF CreateWorld
<1>2. CASE RunCommand
  <2>1. PICK shape \in Shapes : Execute(world, shape)
    BY <1>2 DEF RunCommand
  <2>2. world \in World
    BY <1>2 DEF RunCommand, RecoveryInv, IInv, TypeOK
  <2> QED
    BY <2>1, <2>2, ShapesAssumption, ExecuteSimulated
<1> QED
  BY <1>1, <1>2

-----------------------------------------------------------------------------
(***************************************************************************)
(* The steps of process_command that reach the log.                        *)
(***************************************************************************)
LEMMA NumberedIsOneCommand ==
  ASSUME IInv, PromiseInv, pc = "append"
  PROVE  /\ Numbered(batch) \in Seq(Event) /\ Numbered(batch) # << >>
         /\ OneCommand(Numbered(batch))
<1> DEFINE g == Numbered(batch)
<1>1. batch \in Seq(Event) /\ batch # << >> /\ log.next \in Nat \ {0}
  BY DEF IInv, TypeOK
<1>2. g \in Seq(Event) /\ Len(g) = Len(batch)
  BY <1>1, NumberedEvents
<1>3. \A i \in 1..Len(batch) : g[i].cmd = batch[i].cmd /\ g[i].rem = batch[i].rem
  BY <1>1, NumberedEvents
<1> HIDE DEF g
<1>4. OneCommand(g)
  BY <1>2, <1>3 DEF OneCommand, PromiseInv
<1>5. g # << >>
  BY <1>1, <1>2, EmptySeq
<1> QED
  BY <1>2, <1>4, <1>5 DEF g

LEMMA CleanLogIsFile ==
  ASSUME IInv, pc \in Running
  PROVE  Wal = file /\ file \in Seq(Event)
BY FileFacts, CleanReadsBack DEF IInv, LogInv, Wal

LEMMA AppendRecordSimulated ==
  ASSUME RecoveryInv, IInv', PromiseInv, AppendRecord
  PROVE  PromiseInv' /\ Simulated
<1> DEFINE g == Numbered(batch)
<1>1. /\ pc = "append" /\ pc' = "sync" /\ file' = Stem \o buf.recs \o g
      /\ buf' = EmptyBuffer /\ UNCHANGED <<checkpoint, issued, acked>>
  BY DEF AppendRecord, WriteAndFlush, ghostVars
<1>2. g \in Seq(Event) /\ g # << >> /\ OneCommand(g) /\ Older(issued) /\ IInv
  BY <1>1, NumberedIsOneCommand DEF RecoveryInv, PromiseInv
<1> HIDE DEF g
<1>3. Stem \o buf.recs = file /\ Wal = file /\ Wal \in Seq(Event) /\ issued \in Nat
  <2>1. Stem \o buf.recs = file
    BY <1>1, <1>2, EmptyBufferStem
  <2>2. Wal = file /\ Wal \in Seq(Event)
    BY <1>1, <1>2, CleanLogIsFile DEF Running
  <2>3. issued \in Nat
    BY <1>2 DEF IInv, TypeOK
  <2> QED
    BY <2>1, <2>2, <2>3
<1>4. file' = Wal \o g
  BY <1>1, <1>3
<1>5. /\ Boundaries' /\ \A i \in 1..Len(file') : file'[i] # Torn => file'[i].cmd <= issued
      /\ Wal' = Wal \o g
      /\ \A i \in 1..Len(Wal) : Wal[i].cmd < issued
  BY <1>2, <1>4, GrownByCommand
<1>6. Older(issued + 1)'
  <2>1. \A i \in 1..Len(file') : file'[i] # Torn => file'[i].cmd \in Nat
    <3>1. \A i \in 1..Len(file') : file'[i] \in Cell
      BY NextFileFacts, ElementOfSeq
    <3> QED
      BY <3>1 DEF Cell, Event
  <2> QED
    BY <1>1, <1>3, <1>5, <2>1 DEF Older
<1>7. buf'.recs = << >>
  BY <1>1 DEF EmptyBuffer
<1>8. PromiseInv'
  BY <1>1, <1>5, <1>6, <1>7 DEF PromiseInv
<1>9. View' = View
  BY <1>1 DEF View
<1>10. Simulated
  BY <1>1, <1>2, <1>3, <1>5, <1>9, CommitShows
<1> QED
  BY <1>8, <1>10

LEMMA AcknowledgeSimulated ==
  ASSUME RecoveryInv, IInv', PromiseInv, Acknowledge
  PROVE  PromiseInv' /\ Simulated
<1>1. /\ pc = "sync" /\ pc' = "idle" /\ acked' = acked \cup {issued}
      /\ UNCHANGED <<file, buf, world, issued>>
  BY DEF Acknowledge, SyncAndNumber
<1>2. /\ EventsKept /\ buf.recs = << >> /\ Wal = file /\ Wal \in Seq(Event) /\ IInv
  BY <1>1, SameFileKept, EmptyBufferStem, CleanLogIsFile DEF RecoveryInv, Running
<1>3. PromiseInv'
  BY <1>1, <1>2, QuietOrder
<1>4. world \in World /\ world # NoWorld /\ Reflects(world)
  BY <1>1 DEF RecoveryInv, IInv, TypeOK, WorldInv, Running
<1>5. /\ Commands(Wal) \in Seq(Nat) /\ Len(Commands(Wal)) = Len(file)
      /\ \A i \in 1..Len(file) : Commands(Wal)[i] = file[i].cmd
  BY <1>2, CommandsAt
<1>6. world.hist = Commands(Wal)
  <2>1. world.hist \in Seq(Nat)
    BY <1>4 DEF World
  <2> QED
    BY <1>4, <1>5, <2>1, SeqEqual DEF Reflects
<1>7. View' = Commands(Wal)
  BY <1>1, <1>4, <1>6 DEF View
<1>8. Len(file) \in Nat \ {0} /\ file[Len(file)].cmd = issued
  BY <1>1, <1>2, LenProperties DEF IInv, TypeOK, LogInv, Running
<1>9. Commands(Wal) # << >> /\ Commands(Wal)[Len(Commands(Wal))] = issued
  BY <1>5, <1>8, EmptySeq
<1>10. Commands(Wal)' = Commands(Wal)
  BY <1>1 DEF Commands, Wal
<1>11. Promise!Acknowledge
  BY <1>1, <1>7, <1>9, <1>10 DEF Promise!Acknowledge
<1> QED
  BY <1>3, <1>11 DEF Simulated, Promise!Next

\* A torn piece after the events of a file is not an event.
LEMMA TornAfter ==
  ASSUME NEW f \in Seq(Cell), Clean(f), IdsArePositions(f),
         \A i \in 1..Len(file) : file[i] # Torn => i <= Len(f) /\ f[i] = file[i],
         \A i \in 1..Len(f) : i \in 1..Len(file) /\ f[i] = file[i],
         file' \in {f, f \o <<Torn>>}
  PROVE  EventsKept
<1>1. Len(f) \in Nat
  BY LenProperties
<1>2. CASE file' = f
  BY <1>2 DEF EventsKept, Clean
<1>3. CASE file' = f \o <<Torn>>
  <2> DEFINE g == f \o <<Torn>>
  <2>1. /\ Len(g) = Len(f) + 1 /\ g[Len(f) + 1] = Torn
        /\ \A i \in 1..Len(f) : g[i] = f[i]
    BY AppendTorn
  <2> HIDE DEF g
  <2>2. file' = g
    BY <1>3 DEF g
  <2>3. \A i \in 1..Len(file) : file[i] # Torn => i <= Len(g) /\ g[i] = file[i]
    BY <1>1, <2>1
  <2>4. ASSUME NEW i \in 1..Len(g), g[i] # Torn
        PROVE  i \in 1..Len(file) /\ file[i] # Torn /\ g[i] = file[i]
    <3>1. i \in 1..Len(f)
      BY <1>1, <2>1, <2>4
    <3> QED
      BY <2>1, <3>1 DEF Clean
  <2> QED
    BY <2>2, <2>3, <2>4 DEF EventsKept
<1> QED
  BY <1>2, <1>3

LEMMA WholeRecordOnly ==
  ASSUME NEW events \in Seq(Event), OneCommand(events)
  PROVE  RecordEnds(events) \ {Len(events)} \subseteq {0}
<1>1. Len(events) \in Nat /\ \A i \in 1..Len(events) : events[i] # Torn
  BY LenProperties, ElementOfSeq, TornIsNoEvent
<1> SUFFICES ASSUME NEW k \in RecordEnds(events), k # Len(events), k # 0
             PROVE  FALSE
  OBVIOUS
<1>2. k \in 1..Len(events) /\ events[k].rem = 0
  BY <1>1 DEF RecordEnds
<1> QED
  BY <1>1, <1>2 DEF OneCommand

LEMMA NothingFlushed ==
  ASSUME NEW f \in Seq(Cell), NEW events \in Seq(Event), NEW torn \in BOOLEAN
  PROVE  /\ (f \o SubSeq(events, 1, 0)) \o (IF torn THEN <<Torn>> ELSE << >>)
              \in {f, f \o <<Torn>>}
         /\ SubSeq(events, 0 + 1, Len(events)) = events
<1>1. SubSeq(events, 1, 0) = << >>
  <2>1. SubSeq(events, 1, 0) \in Seq(Event) /\ Len(SubSeq(events, 1, 0)) = 0
    BY SubSeqProperties
  <2> QED
    BY <2>1, EmptySeq
<1>2. f \o SubSeq(events, 1, 0) = f /\ f \o << >> = f
  <2> DEFINE none == SubSeq(events, 1, 0)
  <2>1. f \o << >> = f
    BY ConcatEmptySeq
  <2>2. none = << >>
    BY <1>1
  <2> HIDE DEF none
  <2>3. f \o none = f
    BY <2>1, <2>2
  <2> QED
    BY <2>1, <2>3 DEF none
<1>3. SubSeq(events, 1, Len(events)) = events
  <2> DEFINE part == SubSeq(events, 1, Len(events))
  <2>1. Len(events) \in Nat /\ \A i \in 1..Len(events) : events[i] \in Event
    BY LenProperties, ElementOfSeq
  <2>2. /\ part \in Seq(Event) /\ Len(part) = Len(events)
        /\ \A i \in 1..Len(events) : part[i] = events[i]
    BY <2>1, SubSeqProperties
  <2> HIDE DEF part
  <2>3. part = events
    BY <2>2, SeqEqual
  <2> QED
    BY <2>3 DEF part
<1>4. (f \o SubSeq(events, 1, 0)) \o (IF torn THEN <<Torn>> ELSE << >>)
         \in {f, f \o <<Torn>>}
  <2>1. CASE torn
    BY <1>2, <2>1
  <2>2. CASE ~torn
    BY <1>2, <2>2
  <2> QED
    BY <2>1, <2>2
<1>5. SubSeq(events, 0 + 1, Len(events)) = events
  <2>1. 0 + 1 = 1
    OBVIOUS
  <2> QED
    BY <1>3, <2>1
<1> QED
  BY <1>4, <1>5

LEMMA AppendFailsKeeps ==
  ASSUME IInv, PromiseInv, AppendFails
  PROVE  EventsKept /\ buf'.recs \in {<< >>, Numbered(batch)}
<1> DEFINE g == Numbered(batch)
<1>1. pc = "append"
  BY DEF AppendFails
<1>2. g \in Seq(Event) /\ OneCommand(g)
  BY <1>1, NumberedIsOneCommand
<1>3. /\ buf.recs = << >> /\ ~buf.begun /\ Stem = file /\ Stem \o buf.recs = file
      /\ file \in Seq(Cell) /\ Clean(file) /\ IdsArePositions(file) /\ Len(file) \in Nat
  BY <1>1, EmptyBufferStem, FileFacts DEF IInv, LogInv, Running
<1>4. buf.recs \o g = g
  BY <1>2, <1>3, ConcatEmptySeq
<1>5. \/ UNCHANGED <<file, buf>>
      \/ FlushStops(buf.recs) \/ FlushStops(buf.recs \o g) \/ DirectWriteStops
  BY DEF AppendFails, WriteFails
<1> HIDE DEF g
<1>6. file' \in {file, file \o <<Torn>>} /\ buf'.recs \in {<< >>, g}
  <2>1. CASE UNCHANGED <<file, buf>>
    BY <1>3, <2>1
  <2>2. ~FlushStops(buf.recs)
    BY <1>3, EmptySeq DEF FlushStops, RecordEnds
  <2>3. CASE FlushStops(buf.recs \o g)
    <3>1. PICK k \in RecordEnds(g) \ {Len(g)}, torn \in BOOLEAN :
            /\ file' = FlushedTo(g, k, torn)
            /\ buf' = [recs |-> SubSeq(g, k + 1, Len(g)), begun |-> Resumed(k) \/ torn]
      BY <1>4, <2>3 DEF FlushStops
    <3>2. k = 0
      BY <1>2, <3>1, WholeRecordOnly
    <3>3. file' = (file \o SubSeq(g, 1, 0)) \o (IF torn THEN <<Torn>> ELSE << >>)
      BY <1>3, <3>1, <3>2 DEF FlushedTo, Resumed
    <3>4. buf'.recs = SubSeq(g, 0 + 1, Len(g))
      BY <3>1, <3>2
    <3> QED
      BY <1>2, <1>3, <3>3, <3>4, NothingFlushed
  <2>4. CASE DirectWriteStops
    <3>1. PICK torn \in BOOLEAN :
            file' = file \o (IF torn THEN <<Torn>> ELSE << >>) /\ buf' = EmptyBuffer
      BY <1>3, <2>4 DEF DirectWriteStops
    <3>2. file \o << >> = file
      BY <1>3, ConcatEmptySeq
    <3> QED
      BY <3>1, <3>2 DEF EmptyBuffer
  <2> QED
    BY <1>5, <2>1, <2>2, <2>3, <2>4
<1>7. EventsKept
  <2>1. \A i \in 1..Len(file) : i <= Len(file)
    BY <1>3
  <2> QED
    BY <1>3, <1>6, <2>1, TornAfter
<1> QED
  BY <1>6, <1>7 DEF g

LEMMA AppendFailsSimulated ==
  ASSUME RecoveryInv, IInv', PromiseInv, AppendFails
  PROVE  PromiseInv' /\ Simulated
<1> DEFINE g == Numbered(batch)
<1>1. /\ pc = "append" /\ pc' = "failed" /\ world' = checkpoint
      /\ UNCHANGED <<issued, acked>> /\ IInv
  BY DEF AppendFails, RollBack, RecoveryInv
<1>2. OneCommand(g) /\ Older(issued)
  BY <1>1, NumberedIsOneCommand DEF PromiseInv
<1>3. Len(file) \in Nat
  BY <1>1, FileFacts
<1>6. buf'.recs \in {<< >>, g}
  BY <1>1, AppendFailsKeeps
<1>7. EventsKept
  BY <1>1, AppendFailsKeeps
<1> HIDE DEF g
<1>8. /\ Len(file') \in Nat
      /\ \A i \in 1..Len(file') :
           file'[i] # Torn => i \in 1..Len(file) /\ file[i] # Torn /\ file'[i] = file[i]
  BY <1>7, NextFileFacts DEF EventsKept
<1>9. Boundaries'
  BY <1>3, <1>8, KeptOrder
<1>10. Older(issued + 1)' /\ Older(issued)'
  BY <1>1, <1>2, <1>8 DEF PromiseInv, Older
<1>11. buf'.recs # << >> => OneCommand(buf.recs)'
  BY <1>1, <1>2, <1>6 DEF OneCommand
<1>12. PromiseInv'
  BY <1>1, <1>9, <1>10, <1>11 DEF PromiseInv
<1>13. View' = View
  BY <1>1 DEF View
<1>14. Wal' = Wal
  BY <1>1, <1>7, SameLog
<1> QED
  BY <1>1, <1>12, <1>13, <1>14, NothingShows

-----------------------------------------------------------------------------
(***************************************************************************)
(* The ends of a process.  A dropped buffer may still commit the command   *)
(* that a failed append left in it, a power cut may undo the last ones.    *)
(***************************************************************************)
LEMMA StemIsLog ==
  ASSUME IInv, LeftoverFits, buf.recs # << >>
  PROVE  /\ Wal = Stem /\ Stem \in Seq(Cell) /\ Clean(Stem) /\ IdsArePositions(Stem)
         /\ \A i \in 1..Len(file) : file[i] # Torn => i <= Len(Stem) /\ Stem[i] = file[i]
         /\ \A i \in 1..Len(Stem) : i \in 1..Len(file) /\ Stem[i] = file[i]
<1>1. /\ Stem \in Seq(Cell) /\ Len(Stem) \in Nat /\ IdsArePositions(Stem) /\ Clean(Stem)
      /\ Len(Stem) <= Len(file)
      /\ \A i \in 1..Len(file) : file[i] # Torn => i <= Len(Stem) /\ Stem[i] = file[i]
  BY StemFacts DEF LeftoverFits
<1>2. Len(file) \in Nat /\ file \in Seq(Cell) /\ TornOnlyLast(file) /\ IdsArePositions(file)
  BY FileFacts
<1>3. ASSUME NEW i \in 1..Len(Stem) PROVE i \in 1..Len(file) /\ Stem[i] = file[i]
  <2>1. CASE buf.begun
    <3>1. Stem = SubSeq(file, 1, Len(file) - 1) /\ Len(file) # 0
      BY <1>2, <2>1, EmptySeq DEF Stem, LeftoverFits
    <3>2. Len(file) - 1 \in 0..Len(file)
      BY <1>2, <3>1
    <3>3. /\ Len(SubSeq(file, 1, Len(file) - 1)) = Len(file) - 1
          /\ \A j \in 1..(Len(file) - 1) : SubSeq(file, 1, Len(file) - 1)[j] = file[j]
      BY <1>2, <3>2, CutFile
    <3> QED
      BY <1>1, <1>2, <1>3, <3>1, <3>3
  <2>2. CASE ~buf.begun
    BY <1>3, <2>2 DEF Stem
  <2> QED
    BY <2>1, <2>2
<1>4. /\ Wal \in Seq(Event) /\ Len(Wal) \in 0..Len(file) /\ Len(Wal) \in Nat
      /\ \A i \in 1..Len(Wal) : Wal[i] = file[i] /\ file[i] # Torn
      /\ \A i \in 1..Len(file) : file[i] # Torn => i <= Len(Wal)
  BY WalIsPrefix
<1>5. Len(Stem) <= Len(Wal)
  <2>1. CASE Len(Stem) = 0
    BY <1>4, <2>1
  <2>2. CASE Len(Stem) # 0
    <3>1. Len(Stem) \in 1..Len(Stem)
      BY <1>1, <2>2
    <3>2. Len(Stem) \in 1..Len(file) /\ file[Len(Stem)] # Torn
      BY <1>1, <1>3, <3>1 DEF Clean
    <3> QED
      BY <1>4, <3>2
  <2> QED
    BY <2>1, <2>2
<1>6. Len(Wal) <= Len(Stem)
  <2>1. CASE Len(Wal) = 0
    BY <1>1, <2>1
  <2>2. CASE Len(Wal) # 0
    <3>1. Len(Wal) \in 1..Len(Wal) /\ Len(Wal) \in 1..Len(file)
      BY <1>2, <1>4, <2>2
    <3> QED
      BY <1>1, <1>4, <3>1
  <2> QED
    BY <2>1, <2>2
<1>7. Len(Wal) = Len(Stem)
  BY <1>1, <1>4, <1>5, <1>6
<1>8. \A i \in 1..Len(Wal) : Wal[i] = Stem[i]
  BY <1>3, <1>4, <1>7
<1>9. Wal \in Seq(Cell)
  BY <1>4, EventsAreCells
<1>10. Wal = Stem
  BY <1>1, <1>7, <1>8, <1>9, SeqEqual
<1> QED
  BY <1>1, <1>3, <1>10

LEMMA DroppedEvents ==
  ASSUME IInv, PromiseInv, LeftoverFits, DropLog
  PROVE  \/ EventsKept
         \/ buf.recs # << >> /\ file' = Wal \o buf.recs
<1>1. CASE buf.recs = << >>
  <2>1. file' = file
    BY <1>1, DroppedFile
  <2> QED
    BY <2>1, SameFileKept
<1>2. CASE buf.recs # << >>
  <2> DEFINE f == Stem
             recs == buf.recs
  <2>1. /\ Wal = f /\ f \in Seq(Cell) /\ Clean(f) /\ IdsArePositions(f)
        /\ \A i \in 1..Len(file) : file[i] # Torn => i <= Len(f) /\ f[i] = file[i]
        /\ \A i \in 1..Len(f) : i \in 1..Len(file) /\ f[i] = file[i]
    BY <1>2, StemIsLog
  <2>2. recs \in Seq(Event) /\ OneCommand(recs)
    BY <1>2 DEF IInv, TypeOK, PromiseInv
  <2>3. \/ file' = f \o recs
        \/ \E k \in RecordEnds(recs) \ {Len(recs)}, torn \in BOOLEAN :
             file' = FlushedTo(recs, k, torn)
    BY DEF DropLog
  <2>4. ASSUME NEW k \in RecordEnds(recs) \ {Len(recs)}, NEW torn \in BOOLEAN,
               file' = FlushedTo(recs, k, torn)
        PROVE  EventsKept
    <3>1. k = 0
      BY <2>2, WholeRecordOnly
    <3>2. CASE Resumed(k)
      <4>1. file' = file
        BY <2>4, <3>2 DEF FlushedTo
      <4> QED
        BY <4>1, SameFileKept
    <3>3. CASE ~Resumed(k)
      <4>1. file' = (f \o SubSeq(recs, 1, 0)) \o (IF torn THEN <<Torn>> ELSE << >>)
        BY <2>4, <3>1, <3>3 DEF FlushedTo
      <4> HIDE DEF f, recs
      <4>2. file' \in {f, f \o <<Torn>>}
        BY <2>1, <2>2, <4>1, NothingFlushed
      <4> QED
        BY <2>1, <4>2, TornAfter
    <3> QED
      BY <3>2, <3>3
  <2> QED
    BY <1>2, <2>1, <2>3, <2>4
<1> QED
  BY <1>1, <1>2

LEMMA ExitSimulated ==
  ASSUME RecoveryInv, IInv', PromiseInv, Exit
  PROVE  PromiseInv' /\ Simulated
<1>1. /\ pc \in {"idle", "failed"} /\ pc' = "down" /\ world' = NoWorld
      /\ buf' = EmptyBuffer /\ UNCHANGED <<issued, acked>> /\ DropLog /\ IInv
  BY DEF Exit, DropLog, Closed, Gone, ghostVars, RecoveryInv
<1>2. LeftoverFits
  BY <1>1, EmptyBufferStem DEF IInv, BufferInv
<1>3. View' = NoWorld /\ buf'.recs = << >>
  BY <1>1 DEF View, EmptyBuffer
<1>4. CASE EventsKept
  BY <1>1, <1>3, <1>4, QuietStep
<1>5. CASE buf.recs # << >> /\ file' = Wal \o buf.recs
  <2> DEFINE recs == buf.recs
  <2>1. /\ recs \in Seq(Event) /\ recs # << >> /\ OneCommand(recs) /\ Older(issued)
        /\ issued \in Nat
    BY <1>1, <1>5 DEF IInv, TypeOK, PromiseInv
  <2> HIDE DEF recs
  <2>2. file' = Wal \o recs
    BY <1>5 DEF recs
  <2>3. /\ Boundaries' /\ \A i \in 1..Len(file') : file'[i] # Torn => file'[i].cmd <= issued
        /\ Wal' = Wal \o recs
        /\ \A i \in 1..Len(Wal) : Wal[i].cmd < issued
    BY <1>1, <2>1, <2>2, GrownByCommand
  <2>4. Older(issued + 1)'
    <3>1. \A i \in 1..Len(file') : file'[i] # Torn => file'[i].cmd \in Nat
      <4>1. \A i \in 1..Len(file') : file'[i] \in Cell
        BY NextFileFacts, ElementOfSeq
      <4> QED
        BY <4>1 DEF Cell, Event
    <3> QED
      BY <1>1, <2>1, <2>3, <3>1 DEF Older
  <2>5. PromiseInv'
    BY <1>1, <1>3, <2>3, <2>4 DEF PromiseInv
  <2>6. Wal \in Seq(Event)
    BY <1>1, WalIsPrefix
  <2>7. Simulated
    BY <1>1, <1>3, <2>1, <2>3, <2>6, CommitShows
  <2> QED
    BY <2>5, <2>7
<1> QED
  BY <1>1, <1>2, <1>4, <1>5, DroppedEvents

\* A cut between two records of the file is one between two commands.
LEMMA CutEvents ==
  ASSUME IInv, IInv', CutPower
  PROVE  \E m \in 0..Len(Wal) :
           /\ Len(Wal') = m /\ \A i \in 1..m : Wal'[i] = Wal[i]
           /\ 0 < m /\ m < Len(Wal) => Wal[m].rem = 0
<1>1. PICK k \in RecordEnds(file), torn \in BOOLEAN :
        /\ torn => k < Len(file)
        /\ file' = SubSeq(file, 1, k) \o (IF torn THEN <<Torn>> ELSE << >>)
  BY DEF CutPower
<1> DEFINE h == SubSeq(file, 1, k)
           m == IF k <= Len(Wal) THEN k ELSE Len(Wal)
<1>2. k \in 0..Len(file) /\ Len(file) \in Nat
  BY <1>1, FileFacts DEF RecordEnds
<1>3. /\ h \in Seq(Cell) /\ Len(h) = k /\ IdsArePositions(h)
      /\ \A i \in 1..k : h[i] = file[i]
      /\ k < Len(file) => Clean(h)
  BY <1>2, FileFacts, CutFile
<1>4. /\ Len(Wal) \in 0..Len(file)
      /\ \A i \in 1..Len(Wal) : Wal[i] = file[i] /\ file[i] # Torn
      /\ \A i \in 1..Len(file) : file[i] # Torn => i <= Len(Wal)
  BY WalIsPrefix
<1> HIDE DEF h
<1>5. /\ k <= Len(file')
      /\ \A i \in 1..k : file'[i] = file[i]
      /\ \A i \in 1..Len(file') : file'[i] # Torn => i <= k
  <2>1. CASE torn
    <3>1. Clean(h) /\ file' = h \o <<Torn>>
      BY <1>1, <1>3, <2>1 DEF h
    <3>2. /\ Len(file') = k + 1 /\ file'[k + 1] = Torn
          /\ \A i \in 1..k : file'[i] = h[i]
      BY <1>3, <3>1, AppendTorn
    <3> QED
      BY <1>2, <1>3, <3>2
  <2>2. CASE ~torn
    <3>1. file' = h
      <4>1. file' = h \o << >>
        BY <1>1, <2>2 DEF h
      <4> QED
        BY <1>3, <4>1, ConcatEmptySeq
    <3> QED
      BY <1>2, <1>3, <3>1
  <2> QED
    BY <2>1, <2>2
<1>6. m \in 0..Len(Wal) /\ m <= k
  BY <1>2, <1>4
<1>7. \A i \in 1..m : i <= Len(file') /\ file'[i] = file[i]
  BY <1>2, <1>5, <1>6, NextFileFacts
<1>8. ASSUME NEW i \in 1..Len(file'), file'[i] # Torn PROVE i <= m
  <2>1. i \in 1..k /\ i \in 1..Len(file)
    BY <1>2, <1>5, <1>8
  <2>2. file[i] # Torn
    BY <1>5, <1>8, <2>1
  <2>3. i <= Len(Wal)
    BY <1>4, <2>1, <2>2
  <2> QED
    BY <2>1, <2>3
<1>9. ASSUME 0 < m, m < Len(Wal) PROVE Wal[m].rem = 0
  <2>1. m = k /\ k \in 1..Len(Wal)
    BY <1>2, <1>4, <1>9
  <2>2. file[k] # Torn /\ Wal[k] = file[k]
    BY <1>4, <2>1
  <2>3. file[k].rem = 0
    BY <1>1, <2>1, <2>2 DEF RecordEnds
  <2> QED
    BY <2>1, <2>2, <2>3
<1> HIDE DEF m
<1>10. Len(Wal') = m /\ \A i \in 1..m : Wal'[i] = Wal[i]
  BY <1>6, <1>7, <1>8, KeptEvents
<1> QED
  BY <1>6, <1>9, <1>10

LEMMA PowerLossSimulated ==
  ASSUME RecoveryInv, IInv', PromiseInv, PowerLoss
  PROVE  PromiseInv' /\ Simulated
<1>1. /\ CutPower /\ pc' = "down" /\ world' = NoWorld /\ buf' = EmptyBuffer
      /\ UNCHANGED <<issued, acked>> /\ IInv
  BY DEF PowerLoss, CutPower, Closed, Gone, ghostVars, RecoveryInv
<1>2. /\ Len(file') \in Nat
      /\ \A i \in 1..Len(file') :
           file'[i] # Torn => i \in 1..Len(file) /\ file[i] # Torn /\ file'[i] = file[i]
  BY <1>1, CutPowerFile
<1>3. PromiseInv'
  <2>1. Len(file) \in Nat
    BY <1>1, FileFacts
  <2>2. Boundaries'
    BY <1>2, <2>1, KeptOrder
  <2>3. Older(issued + 1)'
    BY <1>1, <1>2 DEF PromiseInv, Older
  <2>4. buf'.recs = << >>
    BY <1>1 DEF EmptyBuffer
  <2> QED
    BY <1>1, <2>2, <2>3, <2>4 DEF PromiseInv
<1>4. PICK m \in 0..Len(Wal) :
        /\ Len(Wal') = m /\ \A i \in 1..m : Wal'[i] = Wal[i]
        /\ 0 < m /\ m < Len(Wal) => Wal[m].rem = 0
  BY <1>1, CutEvents
<1>5. /\ Wal \in Seq(Event) /\ Len(Wal) \in 0..Len(file) /\ Len(file) \in Nat
      /\ \A i \in 1..Len(Wal) : Wal[i] = file[i] /\ file[i] # Torn
  BY <1>1, WalIsPrefix, FileFacts
<1>6. /\ Wal' \in Seq(Event) /\ Len(Wal') \in 0..Len(file') /\ Len(file') \in Nat
      /\ \A i \in 1..Len(Wal') : Wal'[i] = file'[i] /\ file'[i] # Torn
      /\ \A i \in 1..Len(file') : file'[i] # Torn => i <= Len(Wal')
  BY NextFileFacts
<1> DEFINE old == Commands(Wal)
           new == Commands(Wal')
<1>7. /\ old \in Seq(Nat) /\ Len(old) = Len(Wal)
      /\ \A i \in 1..Len(Wal) : old[i] = Wal[i].cmd
  BY <1>5, CommandsAt
<1>8. /\ new \in Seq(Nat) /\ Len(new) = m
      /\ \A i \in 1..m : new[i] = Wal'[i].cmd
  BY <1>4, <1>6, CommandsAt
<1>9. Commands(Wal)' = new
  BY DEF Commands
<1>10. Commands(Wal) = old
  OBVIOUS
<1> HIDE DEF old, new
<1>11. \A i \in 1..m : new[i] = old[i]
  <2>1. \A i \in 1..m : i \in 1..Len(Wal)
    BY <1>5
  <2> QED
    BY <1>4, <1>7, <1>8, <2>1
<1>12. new = SubSeq(old, 1, m)
  <2> DEFINE part == SubSeq(old, 1, m)
  <2>1. m \in 0..Len(old)
    BY <1>7
  <2>2. \A i \in 1..m : old[i] \in Nat
    BY <1>5, <1>7, <2>1, ElementOfSeq
  <2>3. part \in Seq(Nat) /\ Len(part) = m /\ \A i \in 1..m : part[i] = old[i]
    BY <1>5, <1>7, <2>1, <2>2, SubSeqProperties
  <2> HIDE DEF part
  <2>4. new = part
    BY <1>8, <1>11, <2>3, SeqEqual
  <2> QED
    BY <2>4 DEF part
<1>13. acked \subseteq Promise!Happened(new)
  <2> SUFFICES ASSUME NEW c \in acked PROVE c \in Promise!Happened(new)
    OBVIOUS
  <2>1. PICK i \in 1..synced' : file'[i] # Torn /\ file'[i].cmd = c
    BY <1>1 DEF IInv, AckInv
  <2>2. i \in 1..Len(file')
    BY <1>6, <2>1 DEF IInv, TypeOK
  <2>3. i \in 1..m
    BY <1>4, <1>6, <2>1, <2>2
  <2>4. Wal'[i] = file'[i]
    BY <1>4, <1>6, <2>3
  <2>5. new[i] = c
    BY <1>8, <2>1, <2>3, <2>4
  <2>6. DOMAIN new = 1..Len(new)
    BY <1>8, LenProperties
  <2> QED
    BY <1>8, <2>3, <2>5, <2>6 DEF Promise!Happened
<1>14. ASSUME 0 < m, m < Len(old) PROVE old[m] # old[m + 1]
  <2>1. m \in 1..Len(Wal) /\ m + 1 \in 1..Len(Wal) /\ m \in 1..(Len(file) - 1)
    BY <1>5, <1>7, <1>14
  <2>2. Wal[m].rem = 0
    BY <1>4, <1>7, <1>14
  <2>3. /\ file[m] = Wal[m] /\ file[m + 1] = Wal[m + 1]
        /\ file[m] # Torn /\ file[m + 1] # Torn
    BY <1>5, <2>1
  <2>4. file[m].cmd # file[m + 1].cmd
    BY <2>1, <2>2, <2>3 DEF PromiseInv, Boundaries
  <2> QED
    BY <1>7, <2>1, <2>3, <2>4
<1>15. View' = NoWorld
  BY <1>1 DEF View
<1>16. m \in 0..Len(old)
  BY <1>7
<1>17. Promise!Lose
  BY <1>1, <1>9, <1>10, <1>12, <1>13, <1>14, <1>15, <1>16 DEF Promise!Lose
<1> QED
  BY <1>3, <1>17 DEF Simulated, Promise!Next

LEMMA StutterSimulated ==
  ASSUME PromiseInv, UNCHANGED vars
  PROVE  PromiseInv' /\ Simulated
<1> USE DEF vars, walVars, storeVars, procVars, ghostVars
<1>1. PromiseInv'
  BY DEF PromiseInv, Boundaries, Older, OneCommand
<1>2. Wal' = Wal /\ View' = View
  BY DEF Wal, View
<1> QED
  BY <1>1, <1>2, NothingShows

LEMMA NextSimulated ==
  ASSUME ~RetryAfterError, RecoveryInv, PromiseInv, [Next]_vars
  PROVE  PromiseInv' /\ Simulated
<1>1. IInv'
  BY NextIInv DEF RecoveryInv
<1>2. CASE Start
  BY <1>1, <1>2, StartSimulated
<1>3. CASE LoadWorld
  BY <1>1, <1>3, LoadWorldSimulated
<1>4. CASE CreateWorld \/ RunCommand
  BY <1>1, <1>4, CommandSimulated
<1>5. CASE AppendRecord
  BY <1>1, <1>5, AppendRecordSimulated
<1>6. CASE Acknowledge
  BY <1>1, <1>6, AcknowledgeSimulated
<1>7. CASE AppendFails
  BY <1>1, <1>7, AppendFailsSimulated
<1>8. CASE \/ RefuseCall \/ SyncFails \/ BeginSave \/ SaveSync \/ WriteSnapshot
           \/ FinishSave \/ AbortSave \/ Kill
  BY <1>1, <1>8, QuietSimulated
<1>9. CASE Retry
  BY <1>9 DEF Retry
<1>10. CASE Exit
  BY <1>1, <1>10, ExitSimulated
<1>11. CASE PowerLoss
  BY <1>1, <1>11, PowerLossSimulated
<1>12. CASE UNCHANGED vars
  BY <1>12, StutterSimulated
<1> QED
  BY <1>2, <1>3, <1>4, <1>5, <1>6, <1>7, <1>8, <1>9, <1>10, <1>11, <1>12 DEF Next

-----------------------------------------------------------------------------
(***************************************************************************)
(* The runtime keeps the promise of DurableWorld: whole commands are       *)
(* committed one at a time, acknowledged only once committed and never     *)
(* lost after that, and every world a process works on is one that the     *)
(* committed commands produce.  For any shapes, any number of commands,    *)
(* with or without power cuts and directory syncs that fail.               *)
(***************************************************************************)
THEOREM RuntimeImplementsDurableWorld ==
  ASSUME ~RetryAfterError
  PROVE  Spec => ImplementsDurableWorld
<1>1. RecoveryInv /\ PromiseInv /\ [Next]_vars => RecoveryInv' /\ PromiseInv'
  BY NextRecovery, NextSimulated
<1>2. RecoveryInv /\ PromiseInv /\ [Next]_vars => [Promise!Next]_(Promise!dwVars)
  BY NextSimulated DEF Simulated
<1>3. Init => RecoveryInv /\ PromiseInv /\ Promise!Init
  BY InitRecovery, InitSimulated
<1> QED
  BY <1>1, <1>2, <1>3, PTL DEF Spec, ImplementsDurableWorld, Promise!Spec

------------------------------------------------------------------------------
(***************************************************************************)
(* The proof that PersistentSimulation can recover a world it has saved as *)
(* long as the log reaches as far as the snapshot, for a caller that stops *)
(* at the first error: whatever was killed, failed or cut off, the checks  *)
(* of load_recovered_world accept what is on disk.                         *)
(***************************************************************************)

(***************************************************************************)
(* The ticks of the log: each event is at the tick of the one before it or *)
(* at the next.  The live world, and a snapshot that the log reaches, have *)
(* the tick that the log has where they stand.                             *)
(***************************************************************************)
TickAt(n) == IF n = 0 THEN 0 ELSE Wal[n].tick

Steady ==
  \A i \in 1..Len(Wal) : Wal[i].tick \in {TickAt(i - 1), TickAt(i - 1) + 1}

Follows(events) ==
  \A i \in 1..Len(events) :
    LET before == IF i = 1 THEN TickAt(Len(Wal)) ELSE events[i - 1].tick
    IN  events[i].tick \in {before, before + 1}

StandsAt(s) == s.cursor <= Len(Wal) => s.tick = TickAt(s.cursor)

(***************************************************************************)
(* The meta file is the snapshot's or an older one, unless a power cut may *)
(* undo one of their renames and not the other.                            *)
(***************************************************************************)
RenamesLast == ~PowerLossPossible \/ ~DirectorySyncFails

MetaTrails ==
  meta # NoFile =>
    /\ snap # NoFile
    /\ meta.cursor <= snap.cursor /\ meta.tick <= snap.tick
    /\ meta.cursor = snap.cursor => meta.tick = snap.tick

MetaInv ==
  RenamesLast =>
    MetaTrails /\ (PowerLossPossible => kept = {[snap |-> snap, meta |-> meta]})

DiskTicks == Steady /\ (\A s \in Snapshots : StandsAt(s)) /\ MetaInv

LiveTicks ==
  /\ pc = "append" => Follows(batch) /\ world.tick = batch[Len(batch)].tick
  /\ pc \in Running \ {"append"} /\ world # NoWorld => world.tick = TickAt(Len(Wal))
  /\ pc \in {"saveSync", "saveSnapshot", "saveMeta"} => saving.tick = world.tick
  /\ pc = "saveMeta" => snap = saving
  /\ buf.recs # << >> => Follows(buf.recs)

TickInv == DiskTicks /\ LiveTicks

-----------------------------------------------------------------------------
(***************************************************************************)
(* Ticks never go back along the log, and a log that grows keeps the ticks *)
(* it had.                                                                 *)
(***************************************************************************)
LEMMA TickTypes ==
  ASSUME IInv
  PROVE  /\ Wal \in Seq(Event) /\ Len(Wal) \in Nat
         /\ \A n \in 0..Len(Wal) : TickAt(n) \in Nat
<1>1. Wal \in Seq(Event) /\ Len(Wal) \in Nat
  BY WalIsPrefix
<1>2. \A n \in 1..Len(Wal) : Wal[n] \in Event
  BY <1>1, ElementOfSeq
<1> QED
  BY <1>1, <1>2 DEF TickAt, Event

LEMMA TicksAscend ==
  ASSUME IInv, Steady, NEW i \in 0..Len(Wal), NEW j \in 0..Len(Wal), i <= j
  PROVE  TickAt(i) <= TickAt(j)
<1>1. Len(Wal) \in Nat /\ \A n \in 0..Len(Wal) : TickAt(n) \in Nat
  BY TickTypes
<1> SUFFICES ASSUME ~(TickAt(i) <= TickAt(j)) PROVE FALSE
  OBVIOUS
<1> DEFINE earlier == {n \in i..Len(Wal) : ~(TickAt(i) <= TickAt(n))}
<1>2. earlier \in SUBSET Nat /\ earlier # {}
  BY <1>1
<1>3. PICK n \in earlier : \A m \in earlier : n <= m
  BY <1>2, LeastElement
<1>4. n \in 1..Len(Wal) /\ n # i /\ n - 1 \in i..Len(Wal) /\ n - 1 \notin earlier
  BY <1>1, <1>3
<1>5. TickAt(i) <= TickAt(n - 1)
  BY <1>4
<1>6. TickAt(n) \in {TickAt(n - 1), TickAt(n - 1) + 1}
  BY <1>4 DEF Steady, TickAt
<1>7. TickAt(i) \in Nat /\ TickAt(n - 1) \in Nat /\ TickAt(n) \in Nat
  BY <1>1, <1>4
<1> QED
  BY <1>3, <1>5, <1>6, <1>7

LEMMA SameTicks ==
  ASSUME Wal' = Wal
  PROVE  /\ \A n : TickAt(n)' = TickAt(n)
         /\ Steady' = Steady
         /\ \A s : StandsAt(s)' = StandsAt(s)
         /\ \A events : Follows(events)' = Follows(events)
BY DEF TickAt, Steady, StandsAt, Follows

LEMMA SnapshotReached ==
  ASSUME RecoveryInv, NEW s \in Snapshots, Covered(s)
  PROVE  s.cursor \in 0..Len(Wal)
<1>1. s.cursor \in Nat /\ Len(Wal) \in Nat /\ Len(file) \in Nat
  BY SnapshotFacts, TickTypes, FileFacts DEF RecoveryInv
<1>2. CASE s.cursor = 0
  BY <1>1, <1>2
<1>3. CASE s.cursor # 0
  <2>1. s.cursor \in 1..s.cursor /\ s.cursor \in 1..Len(file)
    BY <1>1, <1>3 DEF Covered
  <2> QED
    BY <1>1, <2>1, WalIsPrefix DEF Covered, RecoveryInv
<1> QED
  BY <1>2, <1>3

LEMMA GrownTicks ==
  ASSUME IInv, Steady, NEW events \in Seq(Event), events # << >>, Follows(events),
         Wal' = Wal \o events
  PROVE  /\ Steady'
         /\ \A n \in 0..Len(Wal) : n <= Len(Wal') /\ TickAt(n)' = TickAt(n)
         /\ TickAt(Len(Wal))' = events[Len(events)].tick
<1> DEFINE n == Len(Wal)
           g == Wal \o events
<1>1. Wal \in Seq(Event) /\ n \in Nat /\ Len(events) \in Nat \ {0}
  BY TickTypes, LenProperties, EmptySeq
<1>2. /\ g \in Seq(Event) /\ Len(g) = n + Len(events)
      /\ \A i \in 1..(n + Len(events)) : g[i] = IF i <= n THEN Wal[i] ELSE events[i - n]
  BY <1>1, ConcatProperties
<1> HIDE DEF g
<1>3. Wal' = g
  BY DEF g
<1>4. \A k : TickAt(k)' = IF k = 0 THEN 0 ELSE g[k].tick
  BY <1>3 DEF TickAt
<1>5. ASSUME NEW k \in 0..n PROVE k <= Len(Wal') /\ TickAt(k)' = TickAt(k)
  <2>1. CASE k = 0
    BY <1>1, <1>2, <1>3, <1>4, <2>1 DEF TickAt
  <2>2. CASE k # 0
    <3>1. k \in 1..(n + Len(events)) /\ k <= n
      BY <1>1, <2>2
    <3> QED
      BY <1>2, <1>3, <1>4, <2>2, <3>1 DEF TickAt
  <2> QED
    BY <2>1, <2>2
<1>6. TickAt(Len(Wal))' = events[Len(events)].tick
  <2>1. TickAt(Len(Wal))' = IF Len(g) = 0 THEN 0 ELSE g[Len(g)].tick
    BY <1>3 DEF TickAt
  <2>2. Len(g) \in 1..(n + Len(events)) /\ ~(Len(g) <= n) /\ Len(g) - n = Len(events)
    BY <1>1, <1>2
  <2> QED
    BY <1>2, <2>1, <2>2
<1>7. ASSUME NEW i \in 1..Len(g)
      PROVE  g[i].tick \in {TickAt(i - 1)', TickAt(i - 1)' + 1}
  <2>1. i \in 1..(n + Len(events))
    BY <1>2
  <2>2. CASE i <= n
    <3>1. i \in 1..n /\ i - 1 \in 0..n /\ g[i] = Wal[i]
      BY <1>1, <1>2, <2>1, <2>2
    <3>2. TickAt(i - 1)' = TickAt(i - 1)
      BY <1>5, <3>1
    <3> QED
      BY <3>1, <3>2 DEF Steady
  <2>3. CASE ~(i <= n)
    <3>1. i - n \in 1..Len(events) /\ g[i] = events[i - n]
      BY <1>1, <1>2, <2>1, <2>3
    <3>2. CASE i = n + 1
      <4>1. i - n = 1 /\ i - 1 = n /\ i - 1 \in 0..n
        BY <1>1, <3>2
      <4>2. TickAt(i - 1)' = TickAt(i - 1)
        BY <1>5, <4>1
      <4>3. events[1].tick \in {TickAt(i - 1), TickAt(i - 1) + 1}
        BY <3>1, <4>1 DEF Follows
      <4> QED
        BY <3>1, <4>1, <4>2, <4>3
    <3>3. CASE i # n + 1
      <4>1. /\ i - n # 1 /\ i - 1 \in 1..(n + Len(events)) /\ ~(i - 1 <= n)
            /\ (i - 1) - n = (i - n) - 1 /\ i - 1 # 0
        BY <1>1, <2>1, <2>3, <3>3
      <4>2. TickAt(i - 1)' = events[(i - n) - 1].tick
        BY <1>2, <1>4, <4>1
      <4>3. events[i - n].tick \in {events[(i - n) - 1].tick, events[(i - n) - 1].tick + 1}
        BY <3>1, <4>1 DEF Follows
      <4> QED
        BY <3>1, <4>2, <4>3
    <3> QED
      BY <3>2, <3>3
  <2> QED
    BY <2>2, <2>3
<1>8. Steady'
  BY <1>3, <1>7 DEF Steady, TickAt
<1> QED
  BY <1>5, <1>6, <1>8

LEMMA DiskTicksStay ==
  ASSUME DiskTicks, Wal' = Wal, UNCHANGED <<snap, meta, kept>>
  PROVE  DiskTicks'
<1>1. Steady' = Steady /\ \A s : StandsAt(s)' = StandsAt(s)
  BY SameTicks
<1>2. Snapshots' = Snapshots /\ MetaInv' = MetaInv
  BY DEF Snapshots, MetaInv, MetaTrails
<1> QED
  BY <1>1, <1>2 DEF DiskTicks

LEMMA DiskTicksGrow ==
  ASSUME RecoveryInv, Writing, DiskTicks,
         NEW events \in Seq(Event), events # << >>, Follows(events),
         Wal' = Wal \o events, UNCHANGED <<snap, meta, kept>>
  PROVE  DiskTicks' /\ TickAt(Len(Wal))' = events[Len(events)].tick
<1>1. /\ Steady' /\ TickAt(Len(Wal))' = events[Len(events)].tick
      /\ \A n \in 0..Len(Wal) : n <= Len(Wal') /\ TickAt(n)' = TickAt(n)
  BY GrownTicks DEF DiskTicks, RecoveryInv
<1>2. Snapshots' = Snapshots /\ MetaInv' = MetaInv
  BY DEF Snapshots, MetaInv, MetaTrails
<1>3. ASSUME NEW s \in Snapshots PROVE StandsAt(s)'
  <2>1. s.cursor \in 0..Len(Wal)
    BY SnapshotReached DEF RecoveryInv, CoverInv
  <2>2. s.tick = TickAt(s.cursor)
    BY <2>1 DEF DiskTicks, StandsAt
  <2> QED
    BY <1>1, <2>1, <2>2 DEF StandsAt
<1> QED
  BY <1>1, <1>2, <1>3 DEF DiskTicks

-----------------------------------------------------------------------------
(***************************************************************************)
(* The steps.  That they keep the other invariants is known.               *)
(***************************************************************************)
LEMMA InitTicks == Init => TickInv
<1> SUFFICES ASSUME Init PROVE TickInv
  OBVIOUS
<1>1. /\ Len(file) = 0 /\ buf.recs = << >> /\ pc = "down" /\ snap = NoFile /\ meta = NoFile
  BY EmptySeq DEF Init, EmptyBuffer
<1>2. Len(Wal) = 0
  <2>1. Len(Wal) \in 0..Len(file)
    BY InitIInv, WalIsPrefix
  <2> QED
    BY <1>1, <2>1
<1>3. Snapshots = {} /\ kept = {[snap |-> snap, meta |-> meta]}
  BY DEF Init, Snapshots
<1>4. MetaInv
  BY <1>1, <1>3 DEF MetaInv, MetaTrails
<1> QED
  BY <1>1, <1>2, <1>3, <1>4 DEF TickInv, DiskTicks, LiveTicks, Steady, Running

LEMMA OpeningTicks ==
  ASSUME RecoveryInv, IInv', TickInv, Start \/ LoadWorld
  PROVE  TickInv'
<1>1. /\ pc' = "idle" /\ UNCHANGED <<snap, meta, kept>> /\ IInv
  BY DEF Start, LoadWorld, storeVars, RecoveryInv
<1>2. buf'.recs = << >>
  <2>1. CASE Start
    BY <2>1 DEF Start, OpenRepair, EmptyBuffer
  <2>2. CASE LoadWorld
    <3>1. pc # "failed" /\ buf' = buf
      BY <2>2 DEF LoadWorld, walVars
    <3> QED
      BY <1>1, <3>1, EmptyBufferStem
  <2> QED
    BY <2>1, <2>2
<1>3. Wal' = Wal
  <2>1. CASE Start
    BY <1>1, <2>1, RepairKeepsEvents, SameLog
  <2>2. CASE LoadWorld
    BY <2>2 DEF LoadWorld, walVars, Wal
  <2> QED
    BY <2>1, <2>2
<1>4. DiskTicks'
  BY <1>1, <1>3, DiskTicksStay DEF TickInv
<1>5. world' # NoWorld => world'.tick = TickAt(Len(Wal))
  <2>1. CASE Start
    <3>1. world' = NoWorld
      BY <2>1 DEF Start, RecoveryInv, WorldInv
    <3> QED
      BY <3>1
  <2>2. CASE LoadWorld
    <3>1. Recoverable(Wal, log.next - 1) /\ world' = Replayed(Wal)
      BY <2>2 DEF LoadWorld, Wal
    <3>2. snap \in Snapshots /\ snap.cursor <= Len(Wal)
      BY <1>1, <3>1, ReplayedHistory DEF RecoveryInv
    <3>3. snap.tick = TickAt(snap.cursor) /\ snap.cursor \in Nat
      BY <3>2, SnapshotFacts DEF TickInv, DiskTicks, StandsAt
    <3>4. Len(Wal) \in Nat
      BY <1>1, TickTypes
    <3> QED
      BY <3>1, <3>2, <3>3, <3>4 DEF Replayed, TickAt
  <2> QED
    BY <2>1, <2>2
<1>6. TickAt(Len(Wal))' = TickAt(Len(Wal))
  BY <1>3 DEF TickAt
<1>7. LiveTicks'
  BY <1>1, <1>2, <1>5, <1>6 DEF LiveTicks, Running
<1> QED
  BY <1>4, <1>7 DEF TickInv

LEMMA WriteSnapshotTicks ==
  ASSUME RecoveryInv, IInv', TickInv, WriteSnapshot
  PROVE  TickInv'
<1>1. /\ pc = "saveSnapshot" /\ pc' = "saveMeta" /\ snap' = saving
      /\ UNCHANGED <<file, buf, meta, world, saving>> /\ IInv
      /\ \/ kept' = {[snap |-> snap', meta |-> meta']}
         \/ DirectorySyncFails /\ kept' = kept \cup {[d EXCEPT !.snap = saving] : d \in kept}
  BY DEF WriteSnapshot, SaveSnapshot, DirectorySynced, walVars, RecoveryInv
<1>2. /\ Wal' = Wal /\ TickAt(Len(Wal))' = TickAt(Len(Wal)) /\ buf'.recs = << >>
  BY <1>1, EmptyBufferStem DEF Wal, TickAt
<1>3. world # NoWorld /\ saving \in World /\ saving # NoFile
  BY <1>1, NoFileAssumption DEF IInv, TypeOK
<1>4. world.tick = TickAt(Len(Wal)) /\ saving.tick = world.tick
  BY <1>1, <1>3 DEF TickInv, LiveTicks, Running
<1>5. saving.cursor = Len(Wal)
  <2>1. Wal = file
    BY <1>1, CleanLogIsFile DEF Running
  <2> QED
    BY <1>1, <2>1 DEF RecoveryInv, WorldInv
<1>6. \A s : StandsAt(s)' = StandsAt(s)
  BY <1>2, SameTicks
<1>7. Snapshots' \subseteq Snapshots \cup {saving}
  <2>1. CASE kept' = {[snap |-> snap', meta |-> meta']}
    BY <1>1, <2>1 DEF Snapshots
  <2>2. CASE kept' = kept \cup {[d EXCEPT !.snap = saving] : d \in kept}
    <3>1. \A d \in Contents : [d EXCEPT !.snap = saving].snap = saving
      BY DEF Contents
    <3>2. kept \subseteq Contents
      BY <1>1 DEF IInv, TypeOK
    <3> QED
      BY <2>2, <3>1, <3>2 DEF Snapshots
  <2> QED
    BY <1>1, <2>1, <2>2
<1>8. \A s \in Snapshots' : StandsAt(s)'
  BY <1>4, <1>5, <1>6, <1>7 DEF TickInv, DiskTicks, StandsAt
<1>9. ASSUME RenamesLast
      PROVE  /\ MetaTrails'
             /\ PowerLossPossible => kept' = {[snap |-> snap', meta |-> meta']}
  <2>1. PowerLossPossible => kept' = {[snap |-> snap', meta |-> meta']}
    BY <1>1, <1>9 DEF RenamesLast
  <2>2. CASE meta = NoFile
    BY <1>1, <2>1, <2>2 DEF MetaTrails
  <2>3. CASE meta # NoFile
    <3>1. /\ snap # NoFile /\ meta.cursor <= snap.cursor /\ meta.tick <= snap.tick
          /\ meta.cursor = snap.cursor => meta.tick = snap.tick
      BY <1>9, <2>3 DEF TickInv, DiskTicks, MetaInv, MetaTrails
    <3>2. snap \in Snapshots /\ snap \in World /\ meta \in Meta
      BY <1>1, <2>3, <3>1 DEF RecoveryInv, SnapInv, Snapshots, IInv, TypeOK
    <3>3. /\ snap.cursor \in Nat /\ snap.tick \in Nat
          /\ meta.cursor \in Nat /\ meta.tick \in Nat
      BY <3>2 DEF World, Meta
    <3>4. snap.cursor \in 0..Len(Wal)
      <4>1. Writing
        BY <1>1, <1>3 DEF Writing, Running
      <4> QED
        BY <3>2, <4>1, SnapshotReached DEF RecoveryInv, CoverInv
    <3>5. snap.tick = TickAt(snap.cursor)
      BY <3>2, <3>4 DEF TickInv, DiskTicks, StandsAt
    <3>6. Len(Wal) \in Nat /\ TickAt(Len(Wal)) \in Nat
      BY <1>1, TickTypes
    <3>7. TickAt(snap.cursor) <= TickAt(Len(Wal))
      <4>1. Len(Wal) \in 0..Len(Wal) /\ snap.cursor <= Len(Wal)
        BY <3>4, <3>6
      <4> QED
        BY <1>1, <3>4, <4>1, TicksAscend DEF TickInv, DiskTicks
    <3>8. /\ meta.cursor <= saving.cursor /\ meta.tick <= saving.tick
      BY <1>4, <1>5, <3>1, <3>3, <3>4, <3>5, <3>6, <3>7
    <3>9. ASSUME meta.cursor = saving.cursor PROVE meta.tick = saving.tick
      <4>1. snap.cursor = Len(Wal) /\ meta.cursor = snap.cursor
        BY <1>5, <3>1, <3>3, <3>4, <3>6, <3>9
      <4> QED
        BY <1>4, <3>1, <3>5, <4>1
    <3> QED
      BY <1>1, <1>3, <2>1, <3>8, <3>9 DEF MetaTrails
  <2> QED
    BY <2>2, <2>3
<1>10. Steady'
  BY <1>2, SameTicks DEF TickInv, DiskTicks
<1>11. DiskTicks'
  BY <1>8, <1>9, <1>10 DEF DiskTicks, MetaInv, RenamesLast
<1>12. LiveTicks'
  BY <1>1, <1>2, <1>3, <1>4 DEF LiveTicks, Running
<1> QED
  BY <1>11, <1>12 DEF TickInv

LEMMA FinishSaveTicks ==
  ASSUME RecoveryInv, IInv', TickInv, FinishSave
  PROVE  TickInv'
<1>1. /\ pc = "saveMeta" /\ pc' = "idle" /\ meta' = MetaOf(saving) /\ world' = saving
      /\ UNCHANGED <<file, buf, snap>> /\ IInv
      /\ \/ kept' = {[snap |-> snap', meta |-> meta']}
         \/ DirectorySyncFails /\ kept' = kept \cup {[d EXCEPT !.meta = MetaOf(saving)] : d \in kept}
  BY DEF FinishSave, SaveMeta, DirectorySynced, walVars, RecoveryInv
<1>2. /\ Wal' = Wal /\ TickAt(Len(Wal))' = TickAt(Len(Wal)) /\ buf'.recs = << >>
  BY <1>1, EmptyBufferStem DEF Wal, TickAt
<1>3. world # NoWorld /\ saving \in World
  BY <1>1 DEF IInv, TypeOK
<1>4. world.tick = TickAt(Len(Wal)) /\ saving.tick = world.tick /\ snap = saving
  BY <1>1, <1>3 DEF TickInv, LiveTicks, Running
<1>5. \A s : StandsAt(s)' = StandsAt(s)
  BY <1>2, SameTicks
<1>6. Snapshots' \subseteq Snapshots
  <2>1. CASE kept' = {[snap |-> snap', meta |-> meta']}
    BY <1>1, <2>1 DEF Snapshots, RecoveryInv, SnapInv
  <2>2. CASE kept' = kept \cup {[d EXCEPT !.meta = MetaOf(saving)] : d \in kept}
    <3> SUFFICES ASSUME NEW s \in Snapshots' PROVE s \in Snapshots
      OBVIOUS
    <3>1. PICK e \in kept' : e.snap = s /\ s # NoFile
      BY DEF Snapshots
    <3>2. CASE e \in kept
      BY <3>1, <3>2 DEF Snapshots
    <3>3. CASE e \notin kept
      <4>1. PICK d \in kept : e = [d EXCEPT !.meta = MetaOf(saving)]
        BY <2>2, <3>3
      <4>2. d \in Contents
        BY <1>1 DEF IInv, TypeOK
      <4>3. e.snap = d.snap
        BY <4>1, <4>2 DEF Contents
      <4> QED
        BY <3>1, <4>3 DEF Snapshots
    <3> QED
      BY <3>2, <3>3
  <2> QED
    BY <1>1, <2>1, <2>2
<1>7. Steady' /\ \A s \in Snapshots' : StandsAt(s)'
  BY <1>2, <1>5, <1>6, SameTicks DEF TickInv, DiskTicks
<1>8. MetaTrails'
  <2>1. meta'.cursor = snap'.cursor /\ meta'.tick = snap'.tick
    BY <1>1, <1>4 DEF MetaOf
  <2>2. snap' # NoFile /\ snap'.cursor \in Nat /\ snap'.tick \in Nat
    BY <1>1, <1>3, <1>4, NoFileAssumption DEF World
  <2> QED
    BY <2>1, <2>2 DEF MetaTrails
<1>9. MetaInv'
  BY <1>1, <1>8 DEF MetaInv, RenamesLast
<1>10. DiskTicks'
  BY <1>7, <1>9 DEF DiskTicks
<1>11. LiveTicks'
  BY <1>1, <1>2, <1>3, <1>4 DEF LiveTicks, Running
<1> QED
  BY <1>10, <1>11 DEF TickInv

LEMMA SavingTicks ==
  ASSUME RecoveryInv, IInv', TickInv,
         \/ RefuseCall \/ SyncFails \/ BeginSave \/ SaveSync \/ WriteSnapshot
         \/ FinishSave \/ AbortSave \/ Kill
  PROVE  TickInv'
<1>1. IInv /\ file' = file /\ buf'.recs = << >>
  BY QuietFile DEF RecoveryInv
<1>2. /\ Wal' = Wal /\ TickAt(Len(Wal))' = TickAt(Len(Wal))
  BY <1>1 DEF Wal, TickAt
<1>3. CASE RefuseCall \/ SyncFails \/ AbortSave \/ Kill
  <2>1. pc' \in {"failed", "down"} /\ UNCHANGED <<snap, meta, kept>>
    BY <1>3 DEF RefuseCall, SyncFails, RollBack, AbortSave, SaveFails, Kill, Gone, storeVars
  <2> QED
    BY <1>1, <1>2, <2>1, DiskTicksStay DEF TickInv, LiveTicks, Running
<1>4. CASE BeginSave \/ SaveSync
  <2>1. /\ pc \in {"idle", "saveSync"} /\ pc' \in {"saveSync", "saveSnapshot"}
        /\ UNCHANGED <<snap, meta, kept, world>>
    BY <1>4 DEF BeginSave, SaveSync, storeVars
  <2>2. world # NoWorld /\ world \in World
    BY <1>1, <1>4 DEF BeginSave, SaveSync, IInv, TypeOK
  <2>3. world.tick = TickAt(Len(Wal))
    BY <2>1, <2>2 DEF TickInv, LiveTicks, Running
  <2>4. saving'.tick = world.tick
    <3>1. CASE BeginSave
      BY <2>2, <3>1 DEF BeginSave, World
    <3>2. CASE SaveSync
      BY <3>2 DEF SaveSync, TickInv, LiveTicks
    <3> QED
      BY <1>4, <3>1, <3>2
  <2>5. LiveTicks'
    BY <1>1, <1>2, <2>1, <2>3, <2>4 DEF LiveTicks, Running
  <2> QED
    BY <1>2, <2>1, <2>5, DiskTicksStay DEF TickInv
<1>5. CASE WriteSnapshot
  BY <1>5, WriteSnapshotTicks
<1>6. CASE FinishSave
  BY <1>6, FinishSaveTicks
<1> QED
  BY <1>3, <1>4, <1>5, <1>6

LEMMA ExecuteTicks ==
  ASSUME RecoveryInv, IInv', TickInv, NEW w \in World, NEW shape, IsShape(shape),
         Execute(w, shape), w.tick = TickAt(Len(Wal))
  PROVE  TickInv'
<1> DEFINE c == issued + 1
           b == Emitted(w, c, shape)
           n == Len(shape)
<1>1. /\ pc = "idle" /\ pc' = "append" /\ batch' = b /\ world' = Applied(w, c, shape)
      /\ UNCHANGED <<file, buf, snap, meta, kept>> /\ IInv
  BY DEF Execute, walVars, storeVars, RecoveryInv
<1>2. Wal' = Wal /\ TickAt(Len(Wal))' = TickAt(Len(Wal)) /\ buf.recs = << >>
  BY <1>1, EmptyBufferStem DEF Wal, TickAt
<1>3. DiskTicks'
  BY <1>1, <1>2, DiskTicksStay DEF TickInv
<1>4. c \in Nat /\ w.tick \in Nat
  BY <1>1 DEF IInv, TypeOK, World
<1>5. n \in Nat \ {0} /\ Len(b) = n
  BY <1>4, ExecutedTypes
<1>6. \A i \in 1..n : shape[i] \in Nat
  BY ElementOfSeq DEF IsShape
<1>7. \A i \in 1..n : b[i].tick = w.tick + shape[i]
  BY DEF Emitted
<1>8. world'.tick = w.tick + shape[n]
  BY <1>1 DEF Applied
<1> HIDE DEF b
<1>9. ASSUME NEW i \in 1..n
      PROVE  LET before == IF i = 1 THEN TickAt(Len(Wal)) ELSE b[i - 1].tick
             IN  b[i].tick \in {before, before + 1}
  <2>1. shape[i] \in {IF i = 1 THEN 0 ELSE shape[i - 1],
                      (IF i = 1 THEN 0 ELSE shape[i - 1]) + 1}
    <3>1. i \in DOMAIN shape
      BY <1>5, LenProperties DEF IsShape
    <3> QED
      BY <3>1 DEF IsShape
  <2>2. CASE i = 1
    BY <1>4, <1>6, <1>7, <2>1, <2>2
  <2>3. CASE i # 1
    <3>1. i - 1 \in 1..n
      BY <1>5, <2>3
    <3> QED
      BY <1>4, <1>6, <1>7, <2>1, <2>3, <3>1
  <2> QED
    BY <2>2, <2>3
<1>10. Follows(batch)'
  BY <1>1, <1>2, <1>5, <1>9 DEF Follows
<1>11. world'.tick = b[n].tick
  BY <1>5, <1>7, <1>8
<1>12. LiveTicks'
  BY <1>1, <1>2, <1>5, <1>10, <1>11 DEF LiveTicks, Running
<1> QED
  BY <1>3, <1>12 DEF TickInv

LEMMA CommandTicks ==
  ASSUME RecoveryInv, IInv', TickInv, CreateWorld \/ RunCommand
  PROVE  TickInv'
<1>1. CASE CreateWorld
  <2>1. /\ Execute(EmptyWorld, GenesisShape) /\ log.total = 0 /\ pc = "idle"
    BY <1>1 DEF CreateWorld, CreateAllowed, Execute
  <2>2. Len(file) = 0
    BY <2>1 DEF RecoveryInv, WorldInv, Running
  <2>3. Len(Wal) = 0
    <3>1. Len(Wal) \in 0..Len(file)
      BY WalIsPrefix DEF RecoveryInv
    <3> QED
      BY <2>2, <3>1
  <2>4. EmptyWorld \in World /\ EmptyWorld.tick = TickAt(Len(Wal))
    BY <2>3, EmptySeq DEF EmptyWorld, World, TickAt
  <2>5. IsShape(GenesisShape)
    BY DEF GenesisShape, IsShape
  <2> QED
    BY <2>1, <2>4, <2>5, ExecuteTicks
<1>2. CASE RunCommand
  <2>1. PICK shape \in Shapes : Execute(world, shape)
    BY <1>2 DEF RunCommand
  <2>2. world # NoWorld /\ pc = "idle"
    BY <1>2, <2>1 DEF RunCommand, Execute
  <2>3. world \in World /\ world.tick = TickAt(Len(Wal))
    BY <2>2 DEF RecoveryInv, IInv, TypeOK, TickInv, LiveTicks, Running
  <2> QED
    BY <2>1, <2>3, ShapesAssumption, ExecuteTicks
<1> QED
  BY <1>1, <1>2

LEMMA NumberedTicks ==
  ASSUME IInv, pc = "append", Follows(batch)
  PROVE  /\ Follows(Numbered(batch))
         /\ Numbered(batch)[Len(Numbered(batch))].tick = batch[Len(batch)].tick
<1> DEFINE g == Numbered(batch)
<1>1. batch \in Seq(Event) /\ batch # << >> /\ log.next \in Nat \ {0}
  BY DEF IInv, TypeOK
<1>2. Len(g) = Len(batch) /\ Len(batch) \in Nat \ {0}
  BY <1>1, NumberedEvents, LenProperties, EmptySeq
<1>3. \A i \in 1..Len(batch) : batch[i] \in Event
  BY <1>1, ElementOfSeq
<1>4. \A i \in 1..Len(batch) : g[i] = [batch[i] EXCEPT !.id = log.next + i - 1]
  BY DEF Numbered
<1> HIDE DEF g
<1>5. \A i \in 1..Len(batch) : g[i].tick = batch[i].tick
  BY <1>3, <1>4 DEF Event
<1>6. Follows(g)
  <2> SUFFICES ASSUME NEW i \in 1..Len(batch)
               PROVE  LET before == IF i = 1 THEN TickAt(Len(Wal)) ELSE g[i - 1].tick
                      IN  g[i].tick \in {before, before + 1}
    BY <1>2 DEF Follows
  <2>1. i # 1 => i - 1 \in 1..Len(batch)
    BY <1>2
  <2> QED
    BY <1>5, <2>1 DEF Follows
<1>7. g[Len(g)].tick = batch[Len(batch)].tick
  BY <1>2, <1>5
<1> QED
  BY <1>6, <1>7 DEF g

LEMMA AppendRecordTicks ==
  ASSUME RecoveryInv, IInv', PromiseInv, TickInv, AppendRecord
  PROVE  TickInv'
<1> DEFINE g == Numbered(batch)
<1>1. /\ pc = "append" /\ pc' = "sync" /\ file' = Stem \o buf.recs \o g
      /\ buf' = EmptyBuffer /\ UNCHANGED <<snap, meta, kept, world>> /\ IInv
  BY DEF AppendRecord, WriteAndFlush, RecoveryInv
<1>2. /\ g \in Seq(Event) /\ g # << >> /\ OneCommand(g) /\ Older(issued)
      /\ Follows(g) /\ g[Len(g)].tick = world.tick
  BY <1>1, NumberedIsOneCommand, NumberedTicks DEF PromiseInv, TickInv, LiveTicks
<1> HIDE DEF g
<1>3. Stem \o buf.recs = file
  BY <1>1, EmptyBufferStem
<1>4. Wal = file
  BY <1>1, CleanLogIsFile DEF Running
<1>5. file' = Wal \o g
  BY <1>1, <1>3, <1>4
<1>6. Wal' = Wal \o g
  BY <1>1, <1>2, <1>5, GrownByCommand
<1>7. DiskTicks' /\ TickAt(Len(Wal))' = world.tick
  <2>1. Writing
    BY <1>1 DEF Writing, Running, IInv, TypeOK
  <2> QED
    BY <1>1, <1>2, <1>6, <2>1, DiskTicksGrow DEF TickInv
<1>8. buf'.recs = << >>
  BY <1>1 DEF EmptyBuffer
<1>9. LiveTicks'
  BY <1>1, <1>7, <1>8 DEF LiveTicks, Running
<1> QED
  BY <1>7, <1>9 DEF TickInv

LEMMA AcknowledgeTicks ==
  ASSUME RecoveryInv, IInv', TickInv, Acknowledge
  PROVE  TickInv'
<1>1. /\ pc = "sync" /\ pc' = "idle" /\ UNCHANGED <<file, buf, snap, meta, kept, world>> /\ IInv
  BY DEF Acknowledge, SyncAndNumber, storeVars, RecoveryInv
<1>2. Wal' = Wal /\ TickAt(Len(Wal))' = TickAt(Len(Wal)) /\ buf.recs = << >>
  BY <1>1, EmptyBufferStem DEF Wal, TickAt
<1>3. DiskTicks'
  BY <1>1, <1>2, DiskTicksStay DEF TickInv
<1>4. LiveTicks'
  BY <1>1, <1>2 DEF TickInv, LiveTicks, Running
<1> QED
  BY <1>3, <1>4 DEF TickInv

LEMMA AppendFailsTicks ==
  ASSUME RecoveryInv, IInv', PromiseInv, TickInv, AppendFails
  PROVE  TickInv'
<1> DEFINE g == Numbered(batch)
<1>1. /\ pc = "append" /\ pc' = "failed" /\ UNCHANGED <<snap, meta, kept>> /\ IInv
  BY DEF AppendFails, RollBack, RecoveryInv
<1>2. EventsKept /\ buf'.recs \in {<< >>, g} /\ Follows(g)
  BY <1>1, AppendFailsKeeps, NumberedTicks DEF TickInv, LiveTicks
<1> HIDE DEF g
<1>3. Wal' = Wal
  BY <1>1, <1>2, SameLog
<1>4. DiskTicks'
  BY <1>1, <1>3, DiskTicksStay DEF TickInv
<1>5. buf'.recs # << >> => Follows(buf.recs)'
  BY <1>2, <1>3 DEF Follows, TickAt
<1>6. LiveTicks'
  BY <1>1, <1>5 DEF LiveTicks, Running
<1> QED
  BY <1>4, <1>6 DEF TickInv

LEMMA ExitTicks ==
  ASSUME RecoveryInv, IInv', PromiseInv, TickInv, Exit
  PROVE  TickInv'
<1>1. /\ pc \in {"idle", "failed"} /\ pc' = "down" /\ buf' = EmptyBuffer
      /\ UNCHANGED <<snap, meta, kept>> /\ DropLog /\ IInv
  BY DEF Exit, DropLog, Closed, Gone, storeVars, RecoveryInv
<1>2. LeftoverFits
  BY <1>1, EmptyBufferStem DEF IInv, BufferInv
<1>3. LiveTicks'
  BY <1>1 DEF LiveTicks, Running, EmptyBuffer
<1>4. CASE EventsKept
  BY <1>1, <1>3, <1>4, SameLog, DiskTicksStay DEF TickInv
<1>5. CASE buf.recs # << >> /\ file' = Wal \o buf.recs
  <2> DEFINE recs == buf.recs
  <2>1. /\ recs \in Seq(Event) /\ recs # << >> /\ OneCommand(recs) /\ Older(issued)
        /\ Follows(recs)
    BY <1>1, <1>5 DEF IInv, TypeOK, PromiseInv, TickInv, LiveTicks
  <2> HIDE DEF recs
  <2>2. file' = Wal \o recs
    BY <1>5 DEF recs
  <2>3. Wal' = Wal \o recs
    BY <1>1, <2>1, <2>2, GrownByCommand
  <2>4. DiskTicks'
    BY <1>1, <1>5, <2>1, <2>3, DiskTicksGrow DEF TickInv, Writing
  <2> QED
    BY <1>3, <2>4 DEF TickInv
<1> QED
  BY <1>1, <1>2, <1>4, <1>5, DroppedEvents

LEMMA PowerLossTicks ==
  ASSUME RecoveryInv, IInv', TickInv, PowerLoss
  PROVE  TickInv'
<1>1. /\ PowerLossPossible /\ CutPower /\ pc' = "down" /\ buf' = EmptyBuffer /\ IInv
  BY DEF PowerLoss, CutPower, Closed, Gone, RecoveryInv
<1>2. PICK d \in kept : snap' = d.snap /\ meta' = d.meta /\ kept' = {d}
  BY DEF PowerLoss, RevertRenames
<1>3. PICK m \in 0..Len(Wal) : Len(Wal') = m /\ \A i \in 1..m : Wal'[i] = Wal[i]
  BY <1>1, CutEvents
<1>4. Len(Wal) \in Nat
  BY <1>1, TickTypes
<1>5. \A n \in 0..m : TickAt(n)' = TickAt(n)
  BY <1>3 DEF TickAt
<1>6. Steady'
  <2> SUFFICES ASSUME NEW i \in 1..m
               PROVE  Wal'[i].tick \in {TickAt(i - 1)', TickAt(i - 1)' + 1}
    BY <1>3 DEF Steady, TickAt
  <2>1. i \in 1..Len(Wal) /\ i - 1 \in 0..m /\ Wal'[i] = Wal[i]
    BY <1>3, <1>4
  <2>2. TickAt(i - 1)' = TickAt(i - 1)
    BY <1>5, <2>1
  <2> QED
    BY <2>1, <2>2 DEF TickInv, DiskTicks, Steady
<1>7. ASSUME NEW s \in Snapshots' PROVE StandsAt(s)'
  <2>1. s \in Snapshots
    BY <1>2 DEF Snapshots
  <2>2. s.cursor \in Nat /\ StandsAt(s)
    BY <2>1, SnapshotFacts DEF TickInv, DiskTicks
  <2>3. ASSUME s.cursor <= m PROVE s.tick = TickAt(s.cursor)'
    <3>1. s.cursor \in 0..m /\ s.cursor <= Len(Wal)
      BY <1>3, <1>4, <2>2, <2>3
    <3>2. TickAt(s.cursor)' = TickAt(s.cursor)
      BY <1>5, <3>1
    <3> QED
      BY <2>2, <3>1, <3>2 DEF StandsAt
  <2> QED
    BY <1>3, <2>3 DEF StandsAt, TickAt
<1>8. MetaInv'
  <2> SUFFICES ASSUME RenamesLast
               PROVE  MetaTrails' /\ kept' = {[snap |-> snap', meta |-> meta']}
    BY DEF MetaInv, RenamesLast
  <2>1. MetaTrails /\ kept = {[snap |-> snap, meta |-> meta]}
    BY <1>1 DEF TickInv, DiskTicks, MetaInv
  <2>2. snap' = snap /\ meta' = meta /\ d = [snap |-> snap, meta |-> meta]
    BY <1>2, <2>1
  <2> QED
    BY <1>2, <2>1, <2>2 DEF MetaTrails
<1>9. LiveTicks'
  BY <1>1 DEF LiveTicks, Running, EmptyBuffer
<1> QED
  BY <1>6, <1>7, <1>8, <1>9 DEF TickInv, DiskTicks

LEMMA StutterTicks ==
  ASSUME TickInv, UNCHANGED vars
  PROVE  TickInv'
<1> USE DEF vars, walVars, storeVars, procVars, ghostVars
<1>1. Wal' = Wal
  BY DEF Wal
<1>2. DiskTicks'
  BY <1>1, DiskTicksStay DEF TickInv
<1>3. LiveTicks'
  BY <1>1 DEF TickInv, LiveTicks, Follows, TickAt
<1> QED
  BY <1>2, <1>3 DEF TickInv

LEMMA NextTicks ==
  ASSUME ~RetryAfterError, RecoveryInv, PromiseInv, TickInv, [Next]_vars
  PROVE  TickInv'
<1>1. IInv'
  BY NextIInv DEF RecoveryInv
<1>2. CASE Start \/ LoadWorld
  BY <1>1, <1>2, OpeningTicks
<1>3. CASE CreateWorld \/ RunCommand
  BY <1>1, <1>3, CommandTicks
<1>4. CASE AppendRecord
  BY <1>1, <1>4, AppendRecordTicks
<1>5. CASE Acknowledge
  BY <1>1, <1>5, AcknowledgeTicks
<1>6. CASE AppendFails
  BY <1>1, <1>6, AppendFailsTicks
<1>7. CASE \/ RefuseCall \/ SyncFails \/ BeginSave \/ SaveSync \/ WriteSnapshot
           \/ FinishSave \/ AbortSave \/ Kill
  BY <1>1, <1>7, SavingTicks
<1>8. CASE Retry
  BY <1>8 DEF Retry
<1>9. CASE Exit
  BY <1>1, <1>9, ExitTicks
<1>10. CASE PowerLoss
  BY <1>1, <1>10, PowerLossTicks
<1>11. CASE UNCHANGED vars
  BY <1>11, StutterTicks
<1> QED
  BY <1>2, <1>3, <1>4, <1>5, <1>6, <1>7, <1>8, <1>9, <1>10, <1>11 DEF Next

-----------------------------------------------------------------------------
(***************************************************************************)
(* The invariants of a runtime whose caller stops at the first error.      *)
(***************************************************************************)
RuntimeInv == RecoveryInv /\ PromiseInv /\ TickInv

LEMMA InitRuntime == Init => RuntimeInv
BY InitRecovery, InitSimulated, InitTicks DEF RuntimeInv

LEMMA NextRuntime ==
  ASSUME ~RetryAfterError, RuntimeInv, [Next]_vars
  PROVE  RuntimeInv' /\ IInv'
BY NextRecovery, NextSimulated, NextTicks DEF RuntimeInv, RecoveryInv

-----------------------------------------------------------------------------
(***************************************************************************)
(* But for a power cut, no step takes an event from the log.               *)
(***************************************************************************)
WalGrows == Len(Wal) <= Len(Wal') /\ \A i \in 1..Len(Wal) : Wal'[i] = Wal[i]

LEMMA SameLogGrows ==
  ASSUME IInv, Wal' = Wal
  PROVE  WalGrows
BY TickTypes DEF WalGrows

LEMMA LongerLogGrows ==
  ASSUME IInv, NEW events \in Seq(Event), Wal' = Wal \o events
  PROVE  WalGrows
<1>1. Wal \in Seq(Event) /\ Len(Wal) \in Nat /\ Len(events) \in Nat
  BY TickTypes, LenProperties
<1>2. /\ Len(Wal') = Len(Wal) + Len(events)
      /\ \A i \in 1..(Len(Wal) + Len(events)) :
           Wal'[i] = IF i <= Len(Wal) THEN Wal[i] ELSE events[i - Len(Wal)]
  BY <1>1, ConcatProperties
<1> QED
  BY <1>1, <1>2 DEF WalGrows

LEMMA NextGrows ==
  ASSUME ~RetryAfterError, RuntimeInv, [Next]_vars, ~PowerLoss
  PROVE  WalGrows
<1>1. IInv /\ IInv' /\ PromiseInv
  BY NextRuntime DEF RuntimeInv, RecoveryInv
<1>2. CASE file' = file
  <2>1. Wal' = Wal
    BY <1>2 DEF Wal
  <2> QED
    BY <1>1, <2>1, SameLogGrows
<1>3. CASE Start
  BY <1>1, <1>3, RepairKeepsEvents, SameLog, SameLogGrows
<1>4. CASE AppendRecord
  <2> DEFINE g == Numbered(batch)
  <2>1. pc = "append" /\ file' = Stem \o buf.recs \o g
    BY <1>4 DEF AppendRecord, WriteAndFlush
  <2>2. g \in Seq(Event) /\ g # << >> /\ OneCommand(g) /\ Older(issued)
    BY <1>1, <2>1, NumberedIsOneCommand DEF PromiseInv
  <2> HIDE DEF g
  <2>3. file' = Wal \o g
    BY <1>1, <2>1, EmptyBufferStem, CleanLogIsFile DEF Running
  <2>4. Wal' = Wal \o g
    BY <1>1, <2>2, <2>3, GrownByCommand
  <2> QED
    BY <1>1, <2>2, <2>4, LongerLogGrows
<1>5. CASE AppendFails
  BY <1>1, <1>5, AppendFailsKeeps, SameLog, SameLogGrows
<1>6. CASE \/ RefuseCall \/ SyncFails \/ BeginSave \/ SaveSync \/ WriteSnapshot
           \/ FinishSave \/ AbortSave \/ Kill
  BY <1>1, <1>2, <1>6, QuietFile
<1>7. CASE Exit
  <2>1. LeftoverFits /\ DropLog
    BY <1>1, <1>7, EmptyBufferStem DEF Exit, IInv, BufferInv
  <2>2. CASE EventsKept
    BY <1>1, <2>2, SameLog, SameLogGrows
  <2>3. CASE buf.recs # << >> /\ file' = Wal \o buf.recs
    <3> DEFINE recs == buf.recs
    <3>1. recs \in Seq(Event) /\ recs # << >> /\ OneCommand(recs) /\ Older(issued)
      BY <1>1, <2>3 DEF IInv, TypeOK, PromiseInv
    <3>2. file' = Wal \o recs
      BY <2>3
    <3> HIDE DEF recs
    <3>3. Wal' = Wal \o recs
      BY <1>1, <3>1, <3>2, GrownByCommand
    <3> QED
      BY <1>1, <3>1, <3>3, LongerLogGrows
  <2> QED
    BY <1>1, <2>1, <2>2, <2>3, DroppedEvents
<1>8. CASE LoadWorld \/ CreateWorld \/ RunCommand \/ Acknowledge \/ UNCHANGED vars
  <2>1. file' = file
    BY <1>8 DEF LoadWorld, CreateWorld, RunCommand, Execute, Acknowledge, SyncAndNumber,
                vars, walVars
  <2> QED
    BY <1>2, <2>1
<1> QED
  BY <1>3, <1>4, <1>5, <1>6, <1>7, <1>8 DEF Next, Retry

-----------------------------------------------------------------------------
(***************************************************************************)
(* What the invariants say of a snapshot and its meta file.                *)
(***************************************************************************)
LEMMA MetaIsAcceptable ==
  ASSUME IInv, RenamesLast, DiskTicks
  PROVE  MetaAcceptable
<1> SUFFICES ASSUME meta # NoFile PROVE meta = MetaOf(snap) \/ IsStaleMeta
  BY DEF MetaAcceptable
<1>1. /\ snap # NoFile
      /\ meta.cursor <= snap.cursor /\ meta.tick <= snap.tick
      /\ meta.cursor = snap.cursor => meta.tick = snap.tick
  BY DEF DiskTicks, MetaInv, MetaTrails
<1>2. meta \in Meta /\ meta.cursor \in Nat /\ snap.cursor \in Nat
  BY <1>1 DEF IInv, TypeOK, Meta, World
<1>3. CASE meta.cursor = snap.cursor
  BY <1>1, <1>2, <1>3 DEF MetaOf, Meta
<1>4. CASE meta.cursor < snap.cursor
  BY <1>1, <1>4 DEF IsStaleMeta
<1> QED
  BY <1>1, <1>2, <1>3, <1>4

LEMMA SavedIsRecoverable ==
  ASSUME RecoveryInv, DiskTicks, MetaAcceptable, snap # NoFile, snap.cursor <= Len(Wal)
  PROVE  Recoverable(Wal, LastId(Wal))
<1>1. Wal \in Seq(Event) /\ Len(Wal) \in Nat /\ IInv
  BY TickTypes DEF RecoveryInv
<1>2. snap.tick = TickAt(snap.cursor) /\ snap.cursor \in Nat /\ Steady
  <2>1. snap \in Snapshots
    BY DEF RecoveryInv, SnapInv, Snapshots
  <2> QED
    BY <2>1, SnapshotFacts DEF DiskTicks, StandsAt
<1>3. Contiguous(Wal)
  BY <1>1, LogIsContiguous DEF WalContiguous
<1>4. LastId(Wal) = Len(Wal)
  <2>1. CASE Wal = << >>
    BY <1>1, <2>1, EmptySeq DEF LastId
  <2>2. CASE Wal # << >>
    <3>1. Len(Wal) \in DOMAIN Wal
      BY <1>1, <2>2, LenProperties, EmptySeq
    <3> QED
      BY <1>3, <2>2, <3>1 DEF LastId, Contiguous
  <2> QED
    BY <2>1, <2>2
<1>5. LastId(Wal) >= snap.cursor
  BY <1>1, <1>2, <1>4
<1>6. TicksReplay(Wal, snap.cursor, snap.tick)
  <2> SUFFICES ASSUME NEW i \in (snap.cursor + 1)..Len(Wal)
               PROVE  LET before == IF i = snap.cursor + 1 THEN snap.tick ELSE Wal[i - 1].tick
                      IN  Wal[i].tick \in {before, before + 1}
    BY DEF TicksReplay
  <2>1. i \in 1..Len(Wal)
    BY <1>1, <1>2
  <2>2. Wal[i].tick \in {TickAt(i - 1), TickAt(i - 1) + 1}
    BY <1>2, <2>1 DEF Steady
  <2>3. CASE i = snap.cursor + 1
    <3>1. i - 1 = snap.cursor
      BY <1>2, <2>3
    <3>2. snap.tick = TickAt(i - 1)
      BY <1>2, <3>1
    <3> QED
      BY <2>2, <2>3, <3>2
  <2>4. CASE i # snap.cursor + 1
    <3>1. i - 1 # 0
      BY <1>1, <1>2, <2>4
    <3> QED
      BY <2>2, <2>4, <3>1 DEF TickAt
  <2> QED
    BY <2>3, <2>4
<1> QED
  BY <1>3, <1>5, <1>6 DEF Recoverable

(***************************************************************************)
(* A saved world is recovered whenever a new process is started, after any *)
(* errors, kills and half-done saves, and the world it gets is the one the *)
(* log records: load_recovered_world never refuses what the runtime wrote. *)
(***************************************************************************)
THEOREM SavedStaysRecoverable ==
  ASSUME ~RetryAfterError, ~PowerLossPossible
  PROVE  Spec => []AlwaysRecoverable
<1>1. RuntimeInv => AlwaysRecoverable
  <2> SUFFICES ASSUME RuntimeInv, snap # NoFile
               PROVE  /\ Recoverable(Wal, LastId(Wal))
                      /\ Replayed(Wal).hist = Commands(Wal)
    BY DEF AlwaysRecoverable
  <2>1. snap.cursor <= Len(Wal)
    <3>1. snap \in Snapshots
      BY DEF RuntimeInv, RecoveryInv, SnapInv, Snapshots
    <3>2. snap.cursor \in 0..Len(Wal)
      BY <3>1, SnapshotReached DEF RuntimeInv, RecoveryInv, CoverInv
    <3> QED
      BY <3>2
  <2>2. Recoverable(Wal, LastId(Wal))
    BY <2>1, SavedIsRecoverable, MetaIsAcceptable
       DEF RuntimeInv, RecoveryInv, TickInv, RenamesLast
  <2> QED
    BY <2>2, ReplayedHistory DEF RuntimeInv, RecoveryInv
<1>2. RuntimeInv /\ [Next]_vars => RuntimeInv'
  BY NextRuntime
<1> QED
  BY <1>1, <1>2, InitRuntime, PTL DEF Spec

(***************************************************************************)
(* A world that list_worlds shows has a snapshot, and its meta file is the *)
(* snapshot's or an older one that an interrupted save left.  Power cuts   *)
(* change nothing about that as long as the renames they find are durable. *)
(***************************************************************************)
THEOREM MetaStaysAcceptable ==
  ASSUME ~RetryAfterError, ~PowerLossPossible \/ ~DirectorySyncFails
  PROVE  Spec => []MetaMirrorsSnapshot
<1>1. RuntimeInv => MetaMirrorsSnapshot
  <2> SUFFICES ASSUME RuntimeInv, meta # NoFile
               PROVE  snap # NoFile /\ MetaAcceptable
    BY DEF MetaMirrorsSnapshot, Listed
  <2>1. IInv /\ DiskTicks /\ RenamesLast
    BY DEF RuntimeInv, RecoveryInv, TickInv, RenamesLast
  <2> QED
    BY <2>1, MetaIsAcceptable DEF DiskTicks, MetaInv, MetaTrails
<1>2. RuntimeInv /\ [Next]_vars => RuntimeInv'
  BY NextRuntime
<1> QED
  BY <1>1, <1>2, InitRuntime, PTL DEF Spec
==============================================================================
