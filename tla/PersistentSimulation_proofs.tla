--------------------- MODULE PersistentSimulation_proofs ---------------------
(***************************************************************************)
(* Proofs about PersistentSimulation for a caller that stops at the first  *)
(* error, as server_d does, for every set of command shapes, any number of *)
(* commands, and with or without power cuts.                               *)
(***************************************************************************)
EXTENDS PersistentSimulation, SequenceTheorems, WellFoundedInduction, TLAPS

Cell == Event \cup {Torn}

Running == {"idle", "append", "sync", "saveSync", "saveSnapshot", "saveMeta"}

(***************************************************************************)
(* The inductive invariant.  The file: only its last cell can be torn, and *)
(* every event's id is its position.                                       *)
(***************************************************************************)
TornOnlyLast(f) == \A i \in 1..(Len(f) - 1) : f[i] # Torn

Clean(f) == \A i \in 1..Len(f) : f[i] # Torn

IdsArePositions(f) == \A i \in 1..Len(f) : f[i] # Torn => f[i].id = i

FileInv == TornOnlyLast(file) /\ IdsArePositions(file)

(***************************************************************************)
(* The buffer: empty unless a write failed.  What a failed write left in   *)
(* it continues the part of the file it would be appended to.              *)
(***************************************************************************)
LeftoverFits ==
  /\ buf.begun => file # << >> /\ file[Len(file)] = Torn /\ buf.recs # << >>
  /\ buf.recs # << >> =>
       Clean(Stem) /\ \A i \in 1..Len(buf.recs) : buf.recs[i].id = Len(Stem) + i

BufferInv == IF pc = "failed" THEN LeftoverFits ELSE buf = EmptyBuffer

(***************************************************************************)
(* The counters of a process that had no error match the file it writes.   *)
(***************************************************************************)
LogInv ==
  pc \in Running =>
    /\ Clean(file)
    /\ Len(file) = log.next - 1 + (IF pc = "sync" THEN Len(batch) ELSE 0)
    /\ pc = "append" => \A i \in 1..Len(batch) : batch[i].cmd = issued
    /\ pc = "sync" => file[Len(file)].cmd = issued
    /\ pc \in {"append", "sync"} => issued > 0

(***************************************************************************)
(* Acknowledged commands stand in the part of the file that is synced.     *)
(***************************************************************************)
AckInv ==
  \A c \in acked : \E i \in 1..synced : file[i] # Torn /\ file[i].cmd = c

IInv == TypeOK /\ FileInv /\ BufferInv /\ LogInv /\ AckInv

-----------------------------------------------------------------------------
(***************************************************************************)
(* What Valid returns when only the last cell can be torn.                 *)
(***************************************************************************)
LEMMA ValidPrefix ==
  ASSUME NEW f \in Seq(Cell), TornOnlyLast(f)
  PROVE  /\ ValidLen(f) \in 0..Len(f)
         /\ Valid(f) \in Seq(Event)
         /\ Len(Valid(f)) = ValidLen(f)
         /\ \A i \in 1..ValidLen(f) : Valid(f)[i] = f[i] /\ f[i] # Torn
         /\ \A i \in 1..Len(f) : f[i] # Torn => i <= ValidLen(f)
<1> DOMAIN f = 1..Len(f) /\ Len(f) \in Nat
  BY LenProperties
<1>1. /\ ValidLen(f) \in 0..Len(f)
      /\ \A i \in 1..ValidLen(f) : f[i] # Torn
      /\ \A i \in 1..Len(f) : f[i] # Torn => i <= ValidLen(f)
  <2>1. CASE \E i \in DOMAIN f : f[i] = Torn
    <3>1. f[Len(f)] = Torn /\ Len(f) \in DOMAIN f
      BY <2>1 DEF TornOnlyLast
    <3>2. \A i \in DOMAIN f :
            (f[i] = Torn /\ \A j \in 1..(i - 1) : f[j] # Torn) <=> i = Len(f)
      BY <3>1 DEF TornOnlyLast
    <3>3. ValidLen(f) = Len(f) - 1
      BY <2>1, <3>1, <3>2 DEF ValidLen
    <3> QED
      BY <3>1, <3>3 DEF TornOnlyLast
  <2>2. CASE ~ \E i \in DOMAIN f : f[i] = Torn
    BY <2>2 DEF ValidLen
  <2> QED
    BY <2>1, <2>2
<1>2. /\ Len(Valid(f)) = ValidLen(f)
      /\ Valid(f) \in Seq(Cell)
      /\ \A i \in 1..ValidLen(f) : Valid(f)[i] = f[i]
  BY <1>1, SubSeqProperties DEF Valid
<1>3. \A i \in 1..Len(Valid(f)) : Valid(f)[i] \in Event
  BY <1>1, <1>2, ElementOfSeq DEF Cell
<1>4. Valid(f) \in Seq(Event)
  BY <1>2, <1>3, SeqDef, LenProperties
<1> QED
  BY <1>1, <1>2, <1>4

\* A set of numbers with an element has a least one.
LEMMA LeastElement ==
  ASSUME NEW T \in SUBSET Nat, T # {}
  PROVE  \E x \in T : \A y \in T : x <= y
<1> DEFINE R == {ss \in Nat \X Nat : ss[1] < ss[2]}
<1>1. IsWellFoundedOn(R, Nat)
  BY NatLessThanWellFounded, Zenon DEF OpToRel
<1>2. PICK x \in T : \A y \in T : ~ (<<y, x>> \in R)
  <2> HIDE DEF R
  <2> QED
    BY <1>1, WFMin
<1>3. \A y \in T : <<y, x>> \in Nat \X Nat
  OBVIOUS
<1>4. \A y \in T : ~(y < x)
  BY <1>2, <1>3
<1> QED
  BY <1>4

LEMMA TornIsNoEvent == \A e \in Event : e # Torn
BY TornAssumption

LEMMA EventsAreCells == Seq(Event) \subseteq Seq(Cell)
BY SeqMonotonic DEF Cell

LEMMA CommandsType ==
  ASSUME NEW events \in Seq(Event)
  PROVE  Commands(events) \in Seq(Nat) /\ Len(Commands(events)) = Len(events)
<1>1. Len(events) \in Nat /\ \A i \in 1..Len(events) : events[i] \in Event
  BY LenProperties, ElementOfSeq
<1>2. \A i \in 1..Len(events) : events[i].cmd \in Nat
  BY <1>1 DEF Event
<1>3. Commands(events) \in [1..Len(events) -> Nat]
  BY <1>2 DEF Commands
<1> QED
  BY <1>1, <1>3, SeqDef, LenProperties

(***************************************************************************)
(* Appending events whose ids continue a clean file, and appending a piece *)
(* of a record to one.                                                     *)
(***************************************************************************)
LEMMA AppendEvents ==
  ASSUME NEW f \in Seq(Cell), Clean(f), IdsArePositions(f),
         NEW g \in Seq(Event), \A i \in 1..Len(g) : g[i].id = Len(f) + i
  PROVE  /\ f \o g \in Seq(Cell)
         /\ Clean(f \o g) /\ IdsArePositions(f \o g)
         /\ Len(f \o g) = Len(f) + Len(g)
         /\ \A i \in 1..Len(f) : (f \o g)[i] = f[i]
         /\ \A i \in 1..Len(g) : (f \o g)[Len(f) + i] = g[i]
<1>1. g \in Seq(Cell)
  BY EventsAreCells
<1>2. /\ f \o g \in Seq(Cell)
      /\ Len(f \o g) = Len(f) + Len(g)
      /\ \A i \in 1..(Len(f) + Len(g)) :
           (f \o g)[i] = IF i <= Len(f) THEN f[i] ELSE g[i - Len(f)]
  BY <1>1, ConcatProperties
<1>3. Len(f) \in Nat /\ Len(g) \in Nat
  BY LenProperties
<1>4. /\ \A i \in 1..Len(f) : (f \o g)[i] = f[i]
      /\ \A i \in 1..Len(g) : (f \o g)[Len(f) + i] = g[i]
  BY <1>2, <1>3
<1>5. \A i \in 1..Len(g) : g[i] # Torn
  BY ElementOfSeq, TornIsNoEvent
<1>6. Clean(f \o g)
  BY <1>2, <1>3, <1>5 DEF Clean
<1>7. IdsArePositions(f \o g)
  BY <1>2, <1>3 DEF IdsArePositions
<1> QED
  BY <1>2, <1>4, <1>6, <1>7

LEMMA AppendTorn ==
  ASSUME NEW f \in Seq(Cell), Clean(f), IdsArePositions(f)
  PROVE  /\ f \o <<Torn>> \in Seq(Cell)
         /\ TornOnlyLast(f \o <<Torn>>) /\ IdsArePositions(f \o <<Torn>>)
         /\ Len(f \o <<Torn>>) = Len(f) + 1
         /\ (f \o <<Torn>>)[Len(f) + 1] = Torn
         /\ \A i \in 1..Len(f) : (f \o <<Torn>>)[i] = f[i]
<1>1. <<Torn>> \in Seq(Cell) /\ Len(<<Torn>>) = 1 /\ <<Torn>>[1] = Torn
  BY DEF Cell
<1>2. /\ f \o <<Torn>> \in Seq(Cell)
      /\ Len(f \o <<Torn>>) = Len(f) + 1
      /\ \A i \in 1..(Len(f) + 1) :
           (f \o <<Torn>>)[i] = IF i <= Len(f) THEN f[i] ELSE <<Torn>>[i - Len(f)]
  BY <1>1, ConcatProperties
<1>3. Len(f) \in Nat
  BY LenProperties
<1> QED
  BY <1>1, <1>2, <1>3 DEF TornOnlyLast, IdsArePositions, Clean

LEMMA CleanIsTornOnlyLast ==
  ASSUME NEW f \in Seq(Cell), Clean(f)
  PROVE  TornOnlyLast(f)
BY LenProperties DEF Clean, TornOnlyLast

(***************************************************************************)
(* A prefix of a file, and that prefix with a torn piece after it.         *)
(***************************************************************************)
LEMMA CutFile ==
  ASSUME NEW f \in Seq(Cell), TornOnlyLast(f), IdsArePositions(f),
         NEW k \in 0..Len(f)
  PROVE  /\ SubSeq(f, 1, k) \in Seq(Cell)
         /\ Len(SubSeq(f, 1, k)) = k
         /\ \A i \in 1..k : SubSeq(f, 1, k)[i] = f[i]
         /\ TornOnlyLast(SubSeq(f, 1, k)) /\ IdsArePositions(SubSeq(f, 1, k))
         /\ k < Len(f) => Clean(SubSeq(f, 1, k))
<1>1. Len(f) \in Nat /\ \A i \in 1..k : f[i] \in Cell
  BY LenProperties, ElementOfSeq
<1>2. /\ SubSeq(f, 1, k) \in Seq(Cell)
      /\ Len(SubSeq(f, 1, k)) = k
      /\ \A i \in 1..k : SubSeq(f, 1, k)[i] = f[i]
  BY <1>1, SubSeqProperties
<1> QED
  BY <1>1, <1>2 DEF TornOnlyLast, IdsArePositions, Clean

-----------------------------------------------------------------------------
(***************************************************************************)
(* The initial state.                                                      *)
(***************************************************************************)
LEMMA InitIInv == Init => IInv
<1> SUFFICES ASSUME Init PROVE IInv
  OBVIOUS
<1> USE DEF Init
<1>1. TypeOK
  <2>1. << >> \in Seq(Event) /\ << >> \in Seq(Event \cup {Torn}) /\ Len(<< >>) = 0
    BY EmptySeq
  <2>2. buf \in [recs : Seq(Event), begun : BOOLEAN]
    BY <2>1 DEF EmptyBuffer
  <2>3. log \in [next : Nat \ {0}, total : Nat, open : BOOLEAN]
    OBVIOUS
  <2>4. dir \in BOOLEAN
    OBVIOUS
  <2>5. synced \in 0..Len(file)
    BY <2>1
  <2>6. issued \in 0..MaxCommands /\ acked \subseteq 1..issued /\ refused \subseteq 1..issued
    BY BoundAssumption
  <2> HIDE DEF Init
  <2>7. pc = "down" /\ file = << >> /\ batch = << >>
    BY DEF Init
  <2>8. /\ world = NoWorld /\ checkpoint = NoWorld /\ saving = NoWorld
        /\ snap = NoFile /\ meta = NoFile
    BY DEF Init
  <2>9. kept \subseteq Contents
    BY DEF Init, Contents
  <2> QED
    BY <2>1, <2>2, <2>3, <2>4, <2>5, <2>6, <2>7, <2>8, <2>9 DEF TypeOK
<1>2. FileInv
  BY DEF FileInv, TornOnlyLast, IdsArePositions
<1>3. BufferInv /\ LogInv /\ AckInv
  BY DEF BufferInv, LogInv, AckInv, Running
<1> QED
  BY <1>1, <1>2, <1>3 DEF IInv

(***************************************************************************)
(* Steps of a process that leave the log alone.                            *)
(***************************************************************************)
LEMMA StartIInv == IInv /\ Start => IInv'
<1> SUFFICES ASSUME IInv, Start PROVE IInv'
  OBVIOUS
<1> USE DEF Start, OpenRepair, storeVars, ghostVars
<1>1. /\ file \in Seq(Cell) /\ TornOnlyLast(file) /\ IdsArePositions(file)
      /\ synced \in 0..Len(file) /\ Len(file) \in Nat
  BY LenProperties DEF IInv, TypeOK, FileInv, Cell
<1>2. /\ ValidLen(file) \in 0..Len(file)
      /\ file' \in Seq(Event)
      /\ Len(file') = ValidLen(file)
      /\ \A i \in 1..ValidLen(file) : file'[i] = file[i] /\ file[i] # Torn
      /\ \A i \in 1..Len(file) : file[i] # Torn => i <= ValidLen(file)
  BY <1>1, ValidPrefix
<1>3. file' \in Seq(Cell)
  BY <1>2, EventsAreCells
<1>4. Clean(file') /\ IdsArePositions(file') /\ TornOnlyLast(file')
  <2>1. \A i \in 1..ValidLen(file) : i \in 1..Len(file)
    BY <1>1, <1>2
  <2>2. Clean(file')
    BY <1>2 DEF Clean
  <2>3. IdsArePositions(file')
    BY <1>1, <1>2, <2>1 DEF IdsArePositions
  <2> QED
    BY <1>3, <2>2, <2>3, CleanIsTornOnlyLast
<1>5. LastId(file') = Len(file')
  BY <1>1, <1>2, <1>3, <1>4, LenProperties, EmptySeq DEF LastId, IdsArePositions, Clean
<1>6. synced' \in 0..Len(file') /\ synced' <= synced
  BY <1>1, <1>2
<1>7. TypeOK'
  BY <1>2, <1>3, <1>5, <1>6, EmptySeq DEF IInv, TypeOK, EmptyBuffer, Cell
<1>8. FileInv' /\ BufferInv' /\ LogInv'
  BY <1>2, <1>4, <1>5 DEF FileInv, BufferInv, LogInv, Running
<1>9. AckInv'
  <2> SUFFICES ASSUME NEW c \in acked
               PROVE  \E i \in 1..synced' : file'[i] # Torn /\ file'[i].cmd = c
    BY DEF AckInv
  <2>1. PICK i \in 1..synced : file[i] # Torn /\ file[i].cmd = c
    BY DEF IInv, AckInv
  <2>2. i \in 1..synced'
    BY <1>1, <1>2, <2>1
  <2> QED
    BY <1>1, <1>2, <2>1, <2>2
<1> QED
  BY <1>7, <1>8, <1>9 DEF IInv

(***************************************************************************)
(* The file with the file's own invariant, as the other lemmas use it.     *)
(***************************************************************************)
LEMMA FileFacts ==
  ASSUME IInv
  PROVE  /\ file \in Seq(Cell) /\ Len(file) \in Nat /\ synced \in 0..Len(file)
         /\ TornOnlyLast(file) /\ IdsArePositions(file)
BY LenProperties DEF IInv, TypeOK, FileInv, Cell

LEMMA EmptyBufferStem ==
  ASSUME IInv, pc # "failed"
  PROVE  /\ buf.recs = << >> /\ ~buf.begun
         /\ Stem = file
         /\ Stem \o buf.recs = file
         /\ LeftoverFits
<1>1. buf.recs = << >> /\ ~buf.begun
  BY DEF IInv, BufferInv, EmptyBuffer
<1>2. Stem = file
  BY <1>1 DEF Stem
<1>3. Stem \o buf.recs = file
  BY <1>1, <1>2, FileFacts, ConcatEmptySeq
<1> QED
  BY <1>1, <1>2, <1>3 DEF LeftoverFits

(***************************************************************************)
(* Steps that neither touch the log nor acknowledge keep everything said   *)
(* about it, if the call they belong to goes on or fails.                  *)
(***************************************************************************)
LEMMA LogUntouched ==
  ASSUME IInv, UNCHANGED <<walVars, acked>>, pc \in Running,
         \/ pc' = "failed"
         \/ pc # "sync" /\ pc' \in {"idle", "saveSync", "saveSnapshot", "saveMeta"}
  PROVE  FileInv' /\ BufferInv' /\ LogInv' /\ AckInv'
<1> USE DEF walVars
<1>1. FileInv' /\ AckInv'
  BY DEF IInv, FileInv, AckInv
<1>2. BufferInv'
  <2>1. pc # "failed"
    BY DEF Running
  <2>2. LeftoverFits' /\ buf' = EmptyBuffer
    BY <2>1, EmptyBufferStem DEF IInv, BufferInv, LeftoverFits, Stem
  <2> QED
    BY <2>2 DEF BufferInv
<1>3. LogInv'
  BY DEF IInv, LogInv, Running
<1> QED
  BY <1>1, <1>2, <1>3

\* What recovery makes of a snapshot and the events after it is a world.
LEMMA ReplayedIsAWorld ==
  ASSUME NEW events \in Seq(Event), snap \in World \cup {NoFile},
         NEW announced, Recoverable(events, announced)
  PROVE  /\ snap \in World /\ snap.cursor \in 0..Len(events)
         /\ LastId(events) = Len(events)
         /\ Replayed(events) \in World
<1>1. Len(events) \in Nat /\ \A i \in 1..Len(events) : events[i] \in Event
  BY LenProperties, ElementOfSeq
<1>2. snap \in World /\ LastId(events) >= snap.cursor /\ Contiguous(events)
  BY DEF Recoverable
<1>3. LastId(events) = Len(events)
  BY <1>1, <1>2, LenProperties, EmptySeq DEF LastId, Contiguous
<1>4. snap.cursor \in 0..Len(events) /\ snap.hist \in Seq(Nat) /\ snap.tick \in Nat
  BY <1>1, <1>2, <1>3 DEF World
<1>5. SubSeq(events, snap.cursor + 1, Len(events)) \in Seq(Event)
  BY <1>1, <1>4, SubSeqProperties
<1>6. Commands(SubSeq(events, snap.cursor + 1, Len(events))) \in Seq(Nat)
  BY <1>5, CommandsType
<1>7. (snap.hist \o Commands(SubSeq(events, snap.cursor + 1, Len(events)))) \in Seq(Nat)
  BY <1>4, <1>6, ConcatProperties
<1>8. (IF Len(events) = snap.cursor THEN snap.tick ELSE events[Len(events)].tick) \in Nat
  BY <1>1, <1>4 DEF Event
<1>9. Replayed(events) \in World
  BY <1>4, <1>7, <1>8 DEF Replayed, World
<1> QED
  BY <1>2, <1>3, <1>4, <1>9

LEMMA LoadWorldIInv == IInv /\ LoadWorld => IInv'
<1> SUFFICES ASSUME IInv, LoadWorld PROVE IInv'
  OBVIOUS
<1> USE DEF LoadWorld, walVars, storeVars, ghostVars
<1>1. world' \in World \cup {NoWorld}
  <2>1. Valid(file) \in Seq(Event)
    BY FileFacts, ValidPrefix
  <2>2. snap \in World \cup {NoFile}
    BY DEF IInv, TypeOK
  <2> QED
    BY <2>1, <2>2, ReplayedIsAWorld
<1>2. pc = "idle" /\ pc' = "idle"
  OBVIOUS
<1>3. TypeOK'
  BY <1>1, <1>2 DEF IInv, TypeOK
<1>4. FileInv' /\ BufferInv' /\ LogInv' /\ AckInv'
  BY <1>2, LogUntouched DEF Running
<1> QED
  BY <1>3, <1>4 DEF IInv

LEMMA RefuseCallIInv == IInv /\ RefuseCall => IInv'
<1> SUFFICES ASSUME IInv, RefuseCall PROVE IInv'
  OBVIOUS
<1>1. TypeOK'
  BY DEF RefuseCall, walVars, storeVars, ghostVars, IInv, TypeOK
<1>2. FileInv' /\ BufferInv' /\ LogInv' /\ AckInv'
  BY LogUntouched DEF RefuseCall, Running, ghostVars
<1> QED
  BY <1>1, <1>2 DEF IInv

\* What a command makes of a world, and the events it emits.
LEMMA ExecutedTypes ==
  ASSUME NEW w \in World, NEW c \in Nat, NEW shape, IsShape(shape)
  PROVE  /\ Len(shape) \in Nat \ {0}
         /\ Applied(w, c, shape) \in World
         /\ Emitted(w, c, shape) \in Seq(Event)
         /\ Len(Emitted(w, c, shape)) = Len(shape)
         /\ \A i \in 1..Len(shape) : Emitted(w, c, shape)[i].cmd = c
<1>1. /\ shape \in Seq(Nat) /\ Len(shape) \in Nat \ {0}
      /\ \A i \in 1..Len(shape) : shape[i] \in Nat
  BY LenProperties, EmptySeq, ElementOfSeq DEF IsShape
<1>2. w.hist \in Seq(Nat) /\ w.tick \in Nat /\ w.cursor \in Nat
  BY DEF World
<1>3. Applied(w, c, shape) \in World
  <2>1. [i \in 1..Len(shape) |-> c] \in Seq(Nat)
    BY <1>1, SeqDef
  <2>2. (w.hist \o [i \in 1..Len(shape) |-> c]) \in Seq(Nat)
    BY <1>2, <2>1, ConcatProperties
  <2>3. w.tick + shape[Len(shape)] \in Nat
    BY <1>1, <1>2
  <2> QED
    BY <1>2, <2>2, <2>3 DEF Applied, World
<1> DEFINE b == Emitted(w, c, shape)
<1>4. \A i \in 1..Len(shape) :
        [id |-> 0, tick |-> w.tick + shape[i], cmd |-> c, rem |-> Len(shape) - i] \in Event
  BY <1>1, <1>2 DEF Event
<1>5. b \in [1..Len(shape) -> Event]
  BY <1>4 DEF Emitted
<1>6. \A i \in 1..Len(shape) : b[i].cmd = c
  BY DEF Emitted
<1> HIDE DEF b
<1>7. b \in Seq(Event)
  BY <1>1, <1>5, SeqDef
<1>8. Len(b) = Len(shape)
  <2>1. DOMAIN b = 1..Len(shape) /\ DOMAIN b = 1..Len(b) /\ Len(b) \in Nat
    BY <1>5, <1>7, LenProperties
  <2> QED
    BY <1>1, <2>1
<1> QED
  BY <1>1, <1>3, <1>6, <1>7, <1>8 DEF b

LEMMA ExecuteIInv ==
  ASSUME IInv, NEW w \in World, NEW shape, IsShape(shape), Execute(w, shape)
  PROVE  IInv'
<1> DEFINE c == issued + 1
           b == Emitted(w, c, shape)
<1>1. /\ issued \in Nat /\ issued' = c /\ issued' \in 0..MaxCommands
      /\ world' = Applied(w, c, shape) /\ batch' = b
  BY BoundAssumption DEF IInv, TypeOK, Execute
<1>2. c \in Nat
  BY <1>1
<1> HIDE DEF c
<1>3. /\ Len(shape) \in Nat \ {0}
      /\ Applied(w, c, shape) \in World
      /\ b \in Seq(Event) /\ Len(b) = Len(shape)
      /\ \A i \in 1..Len(shape) : b[i].cmd = c
  BY <1>2, ExecutedTypes
<1> HIDE DEF b
<1>4. world' \in World
  BY <1>3, <1>1
<1>5. /\ batch' \in Seq(Event)
      /\ Len(batch') = Len(shape)
      /\ \A i \in 1..Len(batch') : batch'[i].cmd = issued'
  BY <1>3, <1>1
<1> USE DEF Execute, walVars, storeVars, ghostVars, c
<1>6. batch' # << >>
  BY <1>3, <1>5, EmptySeq
<1>7. world' # NoWorld
  BY <1>4, NoWorldAssumption
<1>8. acked' \subseteq 1..issued' /\ refused' \subseteq 1..issued'
  BY <1>1 DEF IInv, TypeOK
<1>9. TypeOK'
  BY <1>1, <1>4, <1>5, <1>6, <1>7, <1>8 DEF IInv, TypeOK
<1>10. FileInv' /\ AckInv' /\ BufferInv'
  BY DEF IInv, FileInv, AckInv, BufferInv
<1>11. LogInv'
  <2>1. pc = "idle" /\ pc' = "append" /\ issued' > 0
    BY <1>1
  <2>2. Clean(file) /\ Len(file) = log.next - 1 + 0
    BY <2>1 DEF IInv, LogInv, Running
  <2> QED
    BY <1>5, <2>1, <2>2, Zenon DEF LogInv, Running
<1> QED
  BY <1>9, <1>10, <1>11 DEF IInv

LEMMA CommandIInv == IInv /\ (CreateWorld \/ RunCommand) => IInv'
<1>1. ASSUME IInv, CreateWorld PROVE IInv'
  <2>1. EmptyWorld \in World
    BY EmptySeq DEF EmptyWorld, World
  <2>2. IsShape(GenesisShape)
    BY DEF IsShape, GenesisShape
  <2> QED
    BY <1>1, <2>1, <2>2, ExecuteIInv DEF CreateWorld
<1>2. ASSUME IInv, RunCommand PROVE IInv'
  <2>1. world \in World
    BY <1>2 DEF RunCommand, IInv, TypeOK
  <2>2. PICK shape \in Shapes : Execute(world, shape)
    BY <1>2 DEF RunCommand
  <2> QED
    BY <1>2, <2>1, <2>2, ShapesAssumption, ExecuteIInv
<1> QED
  BY <1>1, <1>2

(***************************************************************************)
(* Steps that write to the log.                                            *)
(***************************************************************************)
LEMMA NumberedEvents ==
  ASSUME NEW b \in Seq(Event), log.next \in Nat \ {0}
  PROVE  /\ Numbered(b) \in Seq(Event) /\ Len(Numbered(b)) = Len(b)
         /\ \A i \in 1..Len(b) : /\ Numbered(b)[i].id = log.next + i - 1
                                 /\ Numbered(b)[i].cmd = b[i].cmd
                                 /\ Numbered(b)[i].rem = b[i].rem
<1>1. Len(b) \in Nat /\ \A i \in 1..Len(b) : b[i] \in Event
  BY LenProperties, ElementOfSeq
<1>2. ASSUME NEW i \in 1..Len(b)
      PROVE  /\ [b[i] EXCEPT !.id = log.next + i - 1] \in Event
             /\ [b[i] EXCEPT !.id = log.next + i - 1].id = log.next + i - 1
             /\ [b[i] EXCEPT !.id = log.next + i - 1].cmd = b[i].cmd
             /\ [b[i] EXCEPT !.id = log.next + i - 1].rem = b[i].rem
  <2>1. log.next + i - 1 \in Nat
    BY <1>1
  <2>2. b[i] \in Event
    BY <1>1
  <2> QED
    BY <2>1, <2>2 DEF Event
<1>3. Numbered(b) \in [1..Len(b) -> Event]
  BY <1>2 DEF Numbered
<1>4. Numbered(b) \in Seq(Event) /\ Len(Numbered(b)) = Len(b)
  BY <1>1, <1>3, SeqDef, LenProperties
<1>5. \A i \in 1..Len(b) : Numbered(b)[i] = [b[i] EXCEPT !.id = log.next + i - 1]
  BY DEF Numbered
<1> QED
  BY <1>2, <1>4, <1>5

LEMMA NumberedContinues ==
  ASSUME IInv, pc = "append"
  PROVE  /\ Numbered(batch) \in Seq(Event)
         /\ Len(Numbered(batch)) = Len(batch) /\ Len(batch) \in Nat \ {0}
         /\ \A i \in 1..Len(batch) : /\ Numbered(batch)[i].id = Len(file) + i
                                     /\ Numbered(batch)[i].cmd = issued
         /\ Clean(file)
<1>1. /\ batch \in Seq(Event) /\ batch # << >>
      /\ log.next \in Nat \ {0} /\ log.next - 1 = Len(file)
      /\ Clean(file)
      /\ \A i \in 1..Len(batch) : batch[i].cmd = issued
  BY FileFacts DEF IInv, TypeOK, LogInv, Running
<1>2. Len(batch) \in Nat \ {0}
  BY <1>1, EmptySeq
<1>3. \A i \in 1..Len(batch) : log.next + i - 1 = Len(file) + i
  <2>1. Len(file) = log.next - 1 /\ log.next \in Int
    BY <1>1
  <2> QED
    BY <2>1, <1>2
<1> QED
  BY <1>1, <1>2, <1>3, NumberedEvents

LEMMA AppendRecordIInv == IInv /\ AppendRecord => IInv'
<1> SUFFICES ASSUME IInv, AppendRecord PROVE IInv'
  OBVIOUS
<1> USE DEF AppendRecord, WriteAndFlush, ghostVars
<1>1. /\ file' = file \o Numbered(batch)
      /\ pc = "append" /\ pc' = "sync"
  BY EmptyBufferStem
<1>2. /\ file' \in Seq(Cell) /\ Clean(file') /\ IdsArePositions(file')
      /\ Len(file') = Len(file) + Len(batch)
      /\ \A i \in 1..Len(file) : file'[i] = file[i]
      /\ \A i \in 1..Len(batch) : file'[Len(file) + i] = Numbered(batch)[i]
  <2> DEFINE g == Numbered(batch)
  <2>1. /\ file \in Seq(Cell) /\ Clean(file) /\ IdsArePositions(file)
        /\ g \in Seq(Event) /\ Len(g) = Len(batch)
        /\ \A i \in 1..Len(g) : g[i].id = Len(file) + i
    BY <1>1, NumberedContinues, FileFacts
  <2> HIDE DEF g
  <2>2. /\ file \o g \in Seq(Cell) /\ Clean(file \o g) /\ IdsArePositions(file \o g)
        /\ Len(file \o g) = Len(file) + Len(g)
        /\ \A i \in 1..Len(file) : (file \o g)[i] = file[i]
        /\ \A i \in 1..Len(g) : (file \o g)[Len(file) + i] = g[i]
    BY <2>1, AppendEvents
  <2>3. file' = file \o g
    BY <1>1 DEF g
  <2> QED
    BY <2>1, <2>2, <2>3 DEF g
<1> HIDE DEF AppendRecord, WriteAndFlush
<1>3. TypeOK'
  <2>1. dir' \in BOOLEAN
    BY DEF AppendRecord
  <2>2. buf' \in [recs : Seq(Event), begun : BOOLEAN]
    BY EmptySeq DEF EmptyBuffer, AppendRecord, WriteAndFlush
  <2>3. synced' \in 0..Len(file')
    BY <1>1, <1>2, FileFacts, NumberedContinues DEF AppendRecord, WriteAndFlush
  <2>4. log' \in [next : Nat \ {0}, total : Nat, open : BOOLEAN]
    BY DEF IInv, TypeOK, AppendRecord, WriteAndFlush
  <2>5. /\ world # NoWorld /\ batch # << >> /\ pc' = "sync"
        /\ UNCHANGED <<snap, meta, kept, world, checkpoint, batch, saving, issued, acked, refused>>
    BY DEF IInv, TypeOK, AppendRecord
  <2> QED
    BY <1>2, <2>1, <2>2, <2>3, <2>4, <2>5 DEF IInv, TypeOK, Cell
<1>4. FileInv' /\ BufferInv'
  BY <1>1, <1>2, CleanIsTornOnlyLast DEF FileInv, BufferInv, AppendRecord, WriteAndFlush
<1>5. LogInv'
  <2>1. Len(batch) \in Nat \ {0} /\ Numbered(batch)[Len(batch)].cmd = issued
    BY <1>1, NumberedContinues
  <2>2. file'[Len(file')].cmd = issued
    BY <1>2, <2>1
  <2>3. log'.next = log.next
    BY DEF AppendRecord, WriteAndFlush, IInv, TypeOK
  <2>4. Len(file) = log.next - 1 + 0 /\ issued > 0
    BY <1>1 DEF IInv, LogInv, Running
  <2>5. UNCHANGED <<batch, issued>>
    BY DEF AppendRecord
  <2>6. log.next \in Nat
    BY DEF IInv, TypeOK
  <2>7. Len(file') = log'.next - 1 + Len(batch')
    BY <1>2, <2>1, <2>3, <2>4, <2>5, <2>6
  <2> QED
    BY <1>1, <1>2, <2>2, <2>4, <2>5, <2>7 DEF LogInv, Running
<1>6. AckInv'
  <2>1. UNCHANGED <<acked, synced>>
    BY DEF AppendRecord, WriteAndFlush
  <2>2. synced \in 0..Len(file) /\ Len(file) \in Nat
    BY FileFacts
  <2> SUFFICES ASSUME NEW c \in acked
               PROVE  \E i \in 1..synced : file'[i] # Torn /\ file'[i].cmd = c
    BY <2>1 DEF AckInv
  <2>3. PICK i \in 1..synced : file[i] # Torn /\ file[i].cmd = c
    BY DEF IInv, AckInv
  <2> QED
    BY <1>2, <2>2, <2>3
<1> QED
  BY <1>3, <1>4, <1>5, <1>6 DEF IInv

LEMMA AcknowledgeIInv == IInv /\ Acknowledge => IInv'
<1> SUFFICES ASSUME IInv, Acknowledge PROVE IInv'
  OBVIOUS
<1> USE DEF Acknowledge, SyncAndNumber, storeVars
<1>1. /\ batch \in Seq(Event) /\ Len(batch) \in Nat \ {0}
      /\ issued \in Nat /\ issued > 0
      /\ log \in [next : Nat \ {0}, total : Nat, open : BOOLEAN]
      /\ Len(file) = log.next - 1 + Len(batch) /\ Clean(file)
      /\ file[Len(file)].cmd = issued
  BY LenProperties, EmptySeq, BoundAssumption DEF IInv, TypeOK, LogInv, Running
<1>2. Len(file) \in Nat \ {0} /\ file[Len(file)] # Torn
  BY <1>1, FileFacts DEF Clean
<1>3. log' \in [next : Nat \ {0}, total : Nat, open : BOOLEAN]
      /\ log'.next = log.next + Len(batch)
  <2>1. /\ log.next + Len(batch) \in Nat \ {0}
        /\ log.total + Len(batch) \in Nat
    BY <1>1
  <2>2. log' = [log EXCEPT !.next = log.next + Len(batch), !.total = log.total + Len(batch)]
    OBVIOUS
  <2> QED
    BY <1>1, <2>1, <2>2
<1>4. TypeOK'
  <2>1. acked' \subseteq 1..issued' /\ synced' \in 0..Len(file')
    BY <1>1, <1>2 DEF IInv, TypeOK
  <2>2. batch' \in Seq(Event)
    BY EmptySeq
  <2> QED
    BY <1>3, <2>1, <2>2 DEF IInv, TypeOK
<1>5. FileInv' /\ BufferInv'
  BY DEF IInv, FileInv, BufferInv
<1>6. LogInv'
  BY <1>1, <1>3 DEF LogInv, Running
<1>7. AckInv'
  <2> SUFFICES ASSUME NEW c \in acked'
               PROVE  \E i \in 1..synced' : file'[i] # Torn /\ file'[i].cmd = c
    BY DEF AckInv
  <2>1. CASE c = issued
    BY <1>1, <1>2, <2>1
  <2>2. CASE c \in acked
    BY <2>2, FileFacts DEF IInv, AckInv
  <2> QED
    BY <2>1, <2>2
<1> QED
  BY <1>4, <1>5, <1>6, <1>7 DEF IInv

(***************************************************************************)
(* A write that stops: where it leaves the file and the buffer.            *)
(***************************************************************************)
LEMMA PartFlushed ==
  ASSUME NEW f \in Seq(Cell), Clean(f), IdsArePositions(f),
         NEW recs \in Seq(Event), \A i \in 1..Len(recs) : recs[i].id = Len(f) + i,
         NEW k \in 0..Len(recs)
  PROVE  LET h == f \o SubSeq(recs, 1, k)
             g == h \o <<Torn>>
         IN  /\ h \in Seq(Cell) /\ Clean(h) /\ TornOnlyLast(h) /\ IdsArePositions(h)
             /\ Len(h) = Len(f) + k
             /\ \A i \in 1..Len(f) : h[i] = f[i]
             /\ g \in Seq(Cell) /\ TornOnlyLast(g) /\ IdsArePositions(g)
             /\ Len(g) = Len(h) + 1 /\ g[Len(g)] = Torn
             /\ \A i \in 1..Len(h) : g[i] = h[i]
             /\ SubSeq(g, 1, Len(g) - 1) = h
<1> DEFINE part == SubSeq(recs, 1, k)
           h == f \o part
           g == h \o <<Torn>>
<1>1. Len(f) \in Nat /\ Len(recs) \in Nat /\ \A i \in 1..Len(recs) : recs[i] \in Event
  BY LenProperties, ElementOfSeq
<1>2. /\ part \in Seq(Event) /\ Len(part) = k
      /\ \A i \in 1..k : part[i].id = Len(f) + i
  <2>1. \A i \in 1..k : recs[i] \in Event
    BY <1>1
  <2>2. /\ part \in Seq(Event) /\ Len(part) = k
        /\ \A i \in 1..k : part[i] = recs[i]
    BY <1>1, <2>1, SubSeqProperties
  <2> QED
    BY <1>1, <2>2
<1>3. /\ h \in Seq(Cell) /\ Clean(h) /\ IdsArePositions(h)
      /\ Len(h) = Len(f) + k
      /\ \A i \in 1..Len(f) : h[i] = f[i]
  <2>1. \A i \in 1..Len(part) : part[i].id = Len(f) + i
    BY <1>2
  <2> HIDE DEF part
  <2>2. /\ h \in Seq(Cell) /\ Clean(h) /\ IdsArePositions(h)
        /\ Len(h) = Len(f) + Len(part)
        /\ \A i \in 1..Len(f) : h[i] = f[i]
    BY <1>2, <2>1, AppendEvents
  <2> QED
    BY <1>2, <2>2
<1> HIDE DEF h
<1>4. Len(h) \in Nat /\ TornOnlyLast(h)
  BY <1>1, <1>3, CleanIsTornOnlyLast
<1>5. /\ g \in Seq(Cell) /\ TornOnlyLast(g) /\ IdsArePositions(g)
      /\ Len(g) = Len(h) + 1 /\ g[Len(h) + 1] = Torn
      /\ \A i \in 1..Len(h) : g[i] = h[i]
  BY <1>3, AppendTorn
<1> HIDE DEF g
<1>6. SubSeq(g, 1, Len(g) - 1) = h
  <2>1. Len(g) - 1 = Len(h) /\ Len(h) \in 0..Len(g)
    BY <1>4, <1>5
  <2>2. /\ SubSeq(g, 1, Len(h)) \in Seq(Cell)
        /\ Len(SubSeq(g, 1, Len(h))) = Len(h)
        /\ \A i \in 1..Len(h) : SubSeq(g, 1, Len(h))[i] = g[i]
    BY <1>5, <2>1, CutFile
  <2>3. \A i \in 1..Len(h) : SubSeq(g, 1, Len(h))[i] = h[i]
    BY <1>5, <2>2
  <2>4. SubSeq(g, 1, Len(h)) = h
    BY <1>3, <2>2, <2>3, SeqEqual
  <2> QED
    BY <2>1, <2>4
<1>7. /\ g[Len(g)] = Torn
  BY <1>5
<1> QED
  BY <1>3, <1>4, <1>5, <1>6, <1>7 DEF h, g

(***************************************************************************)
(* A write that fails part-way leaves a file, and a buffer that fits it.   *)
(***************************************************************************)
LEMMA StoppedWriteFits ==
  ASSUME IInv, Clean(file),
         NEW g \in Seq(Event), \A i \in 1..Len(g) : g[i].id = Len(file) + i,
         NEW k \in 0..Len(g), NEW torn \in BOOLEAN,
         file' = (file \o SubSeq(g, 1, k)) \o (IF torn THEN <<Torn>> ELSE << >>),
         \/ buf' = EmptyBuffer
         \/ k < Len(g) /\ buf' = [recs |-> SubSeq(g, k + 1, Len(g)), begun |-> torn]
  PROVE  /\ file' \in Seq(Cell) /\ TornOnlyLast(file') /\ IdsArePositions(file')
         /\ Len(file') \in Nat /\ Len(file) <= Len(file')
         /\ \A i \in 1..Len(file) : file'[i] = file[i]
         /\ buf' \in [recs : Seq(Event), begun : BOOLEAN]
         /\ LeftoverFits'
<1> DEFINE h == file \o SubSeq(g, 1, k)
<1>1. /\ file \in Seq(Cell) /\ IdsArePositions(file)
      /\ Len(file) \in Nat /\ Len(g) \in Nat
  BY FileFacts, LenProperties
<1>2. /\ h \in Seq(Cell) /\ Clean(h) /\ TornOnlyLast(h) /\ IdsArePositions(h)
      /\ Len(h) = Len(file) + k
      /\ \A i \in 1..Len(file) : h[i] = file[i]
      /\ h \o <<Torn>> \in Seq(Cell)
      /\ TornOnlyLast(h \o <<Torn>>) /\ IdsArePositions(h \o <<Torn>>)
      /\ Len(h \o <<Torn>>) = Len(h) + 1
      /\ (h \o <<Torn>>)[Len(h \o <<Torn>>)] = Torn
      /\ \A i \in 1..Len(h) : (h \o <<Torn>>)[i] = h[i]
      /\ SubSeq(h \o <<Torn>>, 1, Len(h \o <<Torn>>) - 1) = h
  <2>1. LET u == file \o SubSeq(g, 1, k)
            v == u \o <<Torn>>
        IN  /\ u \in Seq(Cell) /\ Clean(u) /\ TornOnlyLast(u) /\ IdsArePositions(u)
            /\ Len(u) = Len(file) + k
            /\ \A i \in 1..Len(file) : u[i] = file[i]
            /\ v \in Seq(Cell) /\ TornOnlyLast(v) /\ IdsArePositions(v)
            /\ Len(v) = Len(u) + 1 /\ v[Len(v)] = Torn
            /\ \A i \in 1..Len(u) : v[i] = u[i]
            /\ SubSeq(v, 1, Len(v) - 1) = u
    BY <1>1, PartFlushed
  <2> QED
    BY <2>1, Zenon
<1> HIDE DEF h
<1>3. /\ torn => file' = h \o <<Torn>>
      /\ ~torn => file' = h
  <2>1. CASE torn
    BY <2>1 DEF h
  <2>2. CASE ~torn
    <3>1. file' = h \o << >>
      BY <2>2 DEF h
    <3> QED
      BY <1>2, <2>2, <3>1, ConcatEmptySeq
  <2> QED
    BY <2>1, <2>2
<1>4. /\ file' \in Seq(Cell) /\ TornOnlyLast(file') /\ IdsArePositions(file')
      /\ Len(file') \in Nat /\ Len(file) <= Len(file')
      /\ \A i \in 1..Len(file) : file'[i] = file[i]
  <2> DEFINE t == h \o <<Torn>>
  <2>1. Len(h) \in Nat /\ Len(file) <= Len(h) /\ Len(t) \in Nat /\ Len(file) <= Len(t)
    BY <1>1, <1>2
  <2>2. \A i \in 1..Len(file) : i \in 1..Len(h) /\ t[i] = file[i]
    <3>1. \A i \in 1..Len(file) : i \in 1..Len(h)
      BY <1>1, <2>1
    <3> QED
      BY <1>2, <3>1
  <2>3. t \in Seq(Cell) /\ TornOnlyLast(t) /\ IdsArePositions(t)
    BY <1>2
  <2> HIDE DEF t
  <2>4. CASE torn
    <3>1. file' = t
      BY <1>3, <2>4 DEF t
    <3> QED
      BY <2>1, <2>2, <2>3, <3>1
  <2>5. CASE ~torn
    <3>1. file' = h
      BY <1>3, <2>5
    <3> QED
      BY <1>2, <2>1, <3>1
  <2> QED
    BY <2>4, <2>5
<1>5. CASE buf' = EmptyBuffer
  <2>1. buf' \in [recs : Seq(Event), begun : BOOLEAN]
    BY <1>5, EmptySeq DEF EmptyBuffer
  <2>2. LeftoverFits'
    BY <1>5 DEF EmptyBuffer, LeftoverFits
  <2> QED
    BY <1>4, <2>1, <2>2
<1>6. CASE k < Len(g) /\ buf' = [recs |-> SubSeq(g, k + 1, Len(g)), begun |-> torn]
  <2> DEFINE rest == SubSeq(g, k + 1, Len(g))
  <2>1. \A i \in (k + 1)..Len(g) : g[i] \in Event
    BY ElementOfSeq
  <2>2. /\ rest \in Seq(Event) /\ Len(rest) = Len(g) - k
        /\ \A i \in 1..(Len(g) - k) : rest[i] = g[k + i]
    <3>1. /\ rest \in Seq(Event)
          /\ Len(rest) = Len(g) - (k + 1) + 1
          /\ \A i \in 1..(Len(g) - (k + 1) + 1) : rest[i] = g[(k + 1) + i - 1]
      BY <1>1, <1>6, <2>1, SubSeqProperties
    <3> QED
      BY <1>1, <3>1
  <2>3. \A i \in 1..Len(rest) : rest[i].id = Len(h) + i
    <3> SUFFICES ASSUME NEW i \in 1..(Len(g) - k) PROVE rest[i].id = Len(h) + i
      BY <2>2
    <3>1. k + i \in 1..Len(g) /\ Len(file) + (k + i) = (Len(file) + k) + i
      BY <1>1, <1>6
    <3>2. rest[i].id = Len(file) + (k + i)
      BY <2>2, <3>1
    <3> QED
      BY <1>2, <3>1, <3>2
  <2>4. rest # << >>
    <3>1. Len(rest) # 0
      BY <1>1, <1>6, <2>2
    <3> HIDE DEF rest
    <3> QED
      BY <3>1, EmptySeq
  <2>5. buf'.recs = rest /\ buf'.begun = torn
    BY <1>6
  <2>6. buf' \in [recs : Seq(Event), begun : BOOLEAN]
    BY <1>6, <2>2
  <2> HIDE DEF rest
  <2>7. Stem' = h
    <3>1. CASE torn
      BY <1>2, <1>3, <2>5, <3>1 DEF Stem
    <3>2. CASE ~torn
      BY <1>3, <2>5, <3>2 DEF Stem
    <3> QED
      BY <3>1, <3>2
  <2>8. buf'.begun => file' # << >> /\ file'[Len(file')] = Torn /\ buf'.recs # << >>
    <3>1. CASE torn
      <4>1. Len(file') = Len(h) + 1 /\ file'[Len(file')] = Torn /\ Len(h) \in Nat
        BY <1>1, <1>2, <1>3, <3>1
      <4> QED
        BY <2>4, <2>5, <4>1, EmptySeq
    <3>2. CASE ~torn
      BY <2>5, <3>2
    <3> QED
      BY <3>1, <3>2
  <2>9. LeftoverFits'
    BY <1>2, <2>3, <2>5, <2>7, <2>8 DEF LeftoverFits
  <2> QED
    BY <1>4, <2>6, <2>9
<1> QED
  BY <1>5, <1>6

(***************************************************************************)
(* A call that ends with an error keeps the invariant, if what it left on  *)
(* disk and in the buffer does.                                            *)
(***************************************************************************)
LEMMA RolledBackIInv ==
  ASSUME IInv, pc \in {"append", "sync"}, RollBack,
         UNCHANGED <<synced, snap, meta, kept>>, dir' \in BOOLEAN,
         log' \in [next : Nat \ {0}, total : Nat, open : BOOLEAN],
         file' \in Seq(Cell), TornOnlyLast(file'), IdsArePositions(file'),
         Len(file) <= Len(file'), Len(file') \in Nat,
         \A i \in 1..Len(file) : file'[i] = file[i],
         buf' \in [recs : Seq(Event), begun : BOOLEAN], LeftoverFits'
  PROVE  IInv'
<1>1. issued \in Nat /\ issued > 0
  BY BoundAssumption DEF IInv, TypeOK, LogInv, Running
<1>2. TypeOK'
  <2>1. refused' \subseteq 1..issued'
    <3>1. /\ refused \subseteq 1..issued /\ issued' = issued
          /\ refused' = refused \cup {issued}
      BY DEF RollBack, IInv, TypeOK
    <3>2. issued \in 1..issued
      BY <1>1
    <3> QED
      BY <3>1, <3>2
  <2>2. synced' \in 0..Len(file')
    BY FileFacts
  <2>3. << >> \in Seq(Event)
    BY EmptySeq
  <2> QED
    BY <2>1, <2>2, <2>3 DEF RollBack, IInv, TypeOK, Cell
<1>3. FileInv' /\ BufferInv' /\ LogInv'
  BY DEF FileInv, BufferInv, LogInv, Running, RollBack
<1>4. AckInv'
  <2>1. synced \in 0..Len(file) /\ Len(file) \in Nat /\ acked' = acked
    BY FileFacts DEF RollBack
  <2> SUFFICES ASSUME NEW c \in acked
               PROVE  \E i \in 1..synced : file'[i] # Torn /\ file'[i].cmd = c
    BY <2>1 DEF AckInv
  <2>2. PICK i \in 1..synced : file[i] # Torn /\ file[i].cmd = c
    BY DEF IInv, AckInv
  <2>3. i \in 1..Len(file)
    BY <2>1
  <2>4. file'[i] = file[i]
    BY <2>3
  <2> QED
    BY <2>2, <2>4
<1> QED
  BY <1>2, <1>3, <1>4 DEF IInv

LEMMA AppendFailsFile ==
  ASSUME IInv, AppendFails
  PROVE  /\ file' \in Seq(Cell) /\ TornOnlyLast(file') /\ IdsArePositions(file')
         /\ Len(file) <= Len(file') /\ Len(file') \in Nat
         /\ \A i \in 1..Len(file) : file'[i] = file[i]
         /\ buf' \in [recs : Seq(Event), begun : BOOLEAN] /\ LeftoverFits'
<1> DEFINE g == Numbered(batch)
<1>1. pc = "append"
  BY DEF AppendFails
<1>2. /\ g \in Seq(Event) /\ Len(g) \in Nat
      /\ \A i \in 1..Len(g) : g[i].id = Len(file) + i
      /\ Clean(file)
  BY <1>1, NumberedContinues
<1>3. /\ buf.recs = << >> /\ ~buf.begun /\ Stem = file /\ Stem \o buf.recs = file
      /\ LeftoverFits
  BY <1>1, EmptyBufferStem
<1>4. buf.recs \o g = g
  BY <1>2, <1>3, ConcatEmptySeq
<1>5. \/ UNCHANGED <<file, buf>>
      \/ FlushStops(buf.recs) \/ FlushStops(buf.recs \o g) \/ DirectWriteStops
  BY DEF AppendFails, WriteFails
<1> HIDE DEF g
<1>6. CASE UNCHANGED <<file, buf>>
  <2>1. LeftoverFits'
    BY <1>3, <1>6 DEF LeftoverFits, Stem
  <2>2. /\ file' \in Seq(Cell) /\ TornOnlyLast(file') /\ IdsArePositions(file')
        /\ Len(file) <= Len(file') /\ Len(file') \in Nat
        /\ \A i \in 1..Len(file) : file'[i] = file[i]
    BY <1>6, FileFacts
  <2>3. buf' \in [recs : Seq(Event), begun : BOOLEAN]
    BY <1>6 DEF IInv, TypeOK
  <2> QED
    BY <2>1, <2>2, <2>3
<1>7. ~FlushStops(buf.recs)
  BY <1>3, EmptySeq DEF FlushStops, RecordEnds
<1>8. CASE FlushStops(buf.recs \o g)
  <2>1. PICK k \in RecordEnds(g) \ {Len(g)}, torn \in BOOLEAN :
          /\ file' = FlushedTo(g, k, torn)
          /\ buf' = [recs |-> SubSeq(g, k + 1, Len(g)), begun |-> Resumed(k) \/ torn]
    BY <1>4, <1>8 DEF FlushStops
  <2>2. k \in 0..Len(g) /\ k < Len(g)
    BY <1>2, <2>1 DEF RecordEnds
  <2>3. ~Resumed(k)
    BY <1>3 DEF Resumed
  <2>4. file' = (file \o SubSeq(g, 1, k)) \o (IF torn THEN <<Torn>> ELSE << >>)
    BY <1>3, <2>1, <2>3 DEF FlushedTo
  <2>5. buf' = [recs |-> SubSeq(g, k + 1, Len(g)), begun |-> torn]
    BY <2>1, <2>3
  <2> QED
    BY <1>2, <2>2, <2>4, <2>5, StoppedWriteFits
<1>9. CASE DirectWriteStops
  <2>1. PICK torn \in BOOLEAN :
          file' = file \o (IF torn THEN <<Torn>> ELSE << >>) /\ buf' = EmptyBuffer
    BY <1>3, <1>9 DEF DirectWriteStops
  <2>2. << >> \in Seq(Event) /\ Len(<< >>) = 0 /\ SubSeq(<< >>, 1, 0) = << >>
    BY EmptySeq
  <2>3. file \o SubSeq(<< >>, 1, 0) = file
    BY <2>2, FileFacts, ConcatEmptySeq
  <2>4. file' = (file \o SubSeq(<< >>, 1, 0)) \o (IF torn THEN <<Torn>> ELSE << >>)
    BY <2>1, <2>3
  <2>5. \A i \in 1..Len(<< >>) : << >>[i].id = Len(file) + i
    BY <2>2
  <2>6. 0 \in 0..Len(<< >>)
    BY <2>2
  <2>7. /\ file' \in Seq(Cell) /\ TornOnlyLast(file') /\ IdsArePositions(file')
        /\ Len(file') \in Nat /\ Len(file) <= Len(file')
        /\ \A i \in 1..Len(file) : file'[i] = file[i]
        /\ buf' \in [recs : Seq(Event), begun : BOOLEAN]
        /\ LeftoverFits'
    BY <1>2, <2>1, <2>2, <2>4, <2>5, <2>6, StoppedWriteFits
  <2> QED
    BY <2>7
<1> QED
  BY <1>5, <1>6, <1>7, <1>8, <1>9

LEMMA AppendFailsIInv == IInv /\ AppendFails => IInv'
<1> SUFFICES ASSUME IInv, AppendFails PROVE IInv'
  OBVIOUS
<1>1. /\ pc = "append" /\ RollBack /\ UNCHANGED <<synced, snap, meta, kept>>
      /\ dir' \in BOOLEAN
      /\ log' \in [next : Nat \ {0}, total : Nat, open : BOOLEAN]
  <2>1. dir' \in BOOLEAN
    BY DEF AppendFails, IInv, TypeOK
  <2>2. log' \in [next : Nat \ {0}, total : Nat, open : BOOLEAN]
    BY DEF AppendFails, WriteFails, IInv, TypeOK
  <2>3. pc = "append" /\ RollBack /\ snap' = snap /\ meta' = meta
        /\ kept' = kept
    BY DEF AppendFails
  <2>4. synced' = synced
    BY DEF AppendFails, WriteFails
  <2> QED
    BY <2>1, <2>2, <2>3, <2>4
<1> QED
  BY <1>1, AppendFailsFile, RolledBackIInv

LEMMA SyncFailsIInv == IInv /\ SyncFails => IInv'
<1> SUFFICES ASSUME IInv, SyncFails PROVE IInv'
  OBVIOUS
<1>1. pc = "sync" /\ RollBack /\ UNCHANGED <<walVars, storeVars>>
  BY DEF SyncFails
<1>2. LeftoverFits'
  BY <1>1, EmptyBufferStem DEF LeftoverFits, Stem, walVars
<1>3. /\ dir' \in BOOLEAN
      /\ log' \in [next : Nat \ {0}, total : Nat, open : BOOLEAN]
      /\ buf' \in [recs : Seq(Event), begun : BOOLEAN]
  BY <1>1 DEF IInv, TypeOK, walVars, storeVars
<1>4. /\ file' = file /\ UNCHANGED <<synced, snap, meta, kept>>
  BY <1>1 DEF walVars, storeVars
<1> QED
  BY <1>1, <1>2, <1>3, <1>4, FileFacts, RolledBackIInv

-----------------------------------------------------------------------------
(***************************************************************************)
(* Saving.                                                                 *)
(***************************************************************************)
LEMMA SavingIInv ==
  ASSUME IInv, \/ BeginSave \/ SaveSync \/ WriteSnapshot \/ FinishSave \/ AbortSave
  PROVE  IInv'
<1>1. CASE BeginSave
  <2>1. saving' \in World
    <3>1. /\ world \in World /\ log.next - 1 \in Nat
          /\ saving' = [world EXCEPT !.cursor = log.next - 1]
      BY <1>1 DEF BeginSave, IInv, TypeOK
    <3> QED
      BY <3>1 DEF World
  <2>2. saving' # NoWorld
    BY <2>1, NoWorldAssumption
  <2>3. TypeOK'
    BY <1>1, <2>1, <2>2 DEF BeginSave, IInv, TypeOK, walVars, storeVars, ghostVars
  <2>4. FileInv' /\ BufferInv' /\ LogInv' /\ AckInv'
    BY <1>1, LogUntouched DEF BeginSave, Running, ghostVars
  <2> QED
    BY <2>3, <2>4 DEF IInv
<1>2. CASE SaveSync
  <2>1. /\ Stem \o buf.recs = file /\ buf = EmptyBuffer
        /\ pc = "saveSync" /\ pc' = "saveSnapshot"
    BY <1>2, EmptyBufferStem DEF SaveSync, IInv, BufferInv
  <2>2. /\ file' = file /\ buf' = buf /\ log' = log
        /\ synced' \in {synced, Len(file)}
        /\ UNCHANGED <<storeVars, world, checkpoint, batch, saving, ghostVars>>
    BY <1>2, <2>1 DEF SaveSync, SyncLog, walVars
  <2>3. synced \in 0..Len(file) /\ Len(file) \in Nat
    BY FileFacts
  <2>4. TypeOK'
    BY <2>1, <2>2, <2>3 DEF IInv, TypeOK, storeVars, ghostVars
  <2>5. FileInv' /\ BufferInv' /\ LogInv'
    BY <2>1, <2>2 DEF IInv, FileInv, BufferInv, LogInv, Running, ghostVars
  <2>6. AckInv'
    BY <2>2, <2>3 DEF IInv, AckInv, ghostVars
  <2> QED
    BY <2>4, <2>5, <2>6 DEF IInv
<1>3. CASE WriteSnapshot
  <2>1. saving \in World /\ saving # NoWorld /\ world # NoWorld
    BY <1>3 DEF WriteSnapshot, IInv, TypeOK
  <2>2. /\ dir' \in BOOLEAN /\ snap' \in World /\ meta' = meta /\ pc' = "saveMeta"
        /\ UNCHANGED <<walVars, world, checkpoint, batch, saving, ghostVars>>
    BY <1>3, <2>1 DEF WriteSnapshot, SaveSnapshot
  <2>5. kept' \subseteq Contents
    BY <1>3, <2>1, <2>2 DEF WriteSnapshot, SaveSnapshot, DirectorySynced, Contents, IInv, TypeOK
  <2>3. TypeOK'
    BY <2>1, <2>2, <2>5 DEF IInv, TypeOK, walVars, ghostVars
  <2>4. FileInv' /\ BufferInv' /\ LogInv' /\ AckInv'
    BY <1>3, <2>2, LogUntouched DEF WriteSnapshot, Running, ghostVars
  <2> QED
    BY <2>3, <2>4 DEF IInv
<1>4. CASE FinishSave
  <2>1. saving \in World /\ MetaOf(saving) \in Meta
    BY <1>4 DEF FinishSave, IInv, TypeOK, MetaOf, Meta, World
  <2>2. /\ dir' \in BOOLEAN /\ snap' = snap /\ meta' \in Meta /\ pc' = "idle"
        /\ world' \in World /\ saving' = NoWorld
        /\ UNCHANGED <<walVars, checkpoint, batch, ghostVars>>
    BY <1>4, <2>1 DEF FinishSave, SaveMeta
  <2>5. kept' \subseteq Contents
    BY <1>4, <2>1, <2>2 DEF FinishSave, SaveMeta, DirectorySynced, Contents, IInv, TypeOK
  <2>3. TypeOK'
    BY <2>2, <2>5 DEF IInv, TypeOK, walVars, ghostVars
  <2>4. FileInv' /\ BufferInv' /\ LogInv' /\ AckInv'
    BY <1>4, <2>2, LogUntouched DEF FinishSave, Running, ghostVars
  <2> QED
    BY <2>3, <2>4 DEF IInv
<1>5. CASE AbortSave
  <2>1. /\ pc \in {"saveSync", "saveSnapshot", "saveMeta"} /\ pc' = "failed"
        /\ saving' = NoWorld
        /\ UNCHANGED <<world, checkpoint, batch, issued, acked, refused, snap, meta, kept>>
    BY <1>5 DEF AbortSave, SaveFails, storeVars, ghostVars
  <2>2. UNCHANGED walVars
    <3>1. CASE pc = "saveSync" /\ SyncLogFails
      <4>1. /\ Stem \o buf.recs = file /\ buf = EmptyBuffer /\ buf.recs = << >>
        BY <3>1, EmptyBufferStem DEF IInv, BufferInv
      <4>2. ~FlushStops(buf.recs)
        BY <4>1, EmptySeq DEF FlushStops, RecordEnds
      <4> QED
        BY <3>1, <4>1, <4>2 DEF SyncLogFails, walVars
    <3> QED
      BY <1>5, <3>1 DEF AbortSave
  <2>3. dir' \in BOOLEAN
    BY <1>5 DEF AbortSave, SaveFails, storeVars, IInv, TypeOK
  <2>4. TypeOK'
    BY <2>1, <2>2, <2>3 DEF IInv, TypeOK, walVars
  <2>5. FileInv' /\ BufferInv' /\ LogInv' /\ AckInv'
    BY <2>1, <2>2, LogUntouched DEF Running
  <2> QED
    BY <2>4, <2>5 DEF IInv
<1> QED
  BY <1>1, <1>2, <1>3, <1>4, <1>5

-----------------------------------------------------------------------------
(***************************************************************************)
(* The ends of a process.  Whatever they make of the file, a process that  *)
(* is gone satisfies the rest.                                             *)
(***************************************************************************)
LEMMA GoneIInv ==
  ASSUME IInv, Gone, Closed,
         dir' \in BOOLEAN, snap' \in World \cup {NoFile},
         meta' \in Meta \cup {NoFile}, kept' \subseteq Contents,
         file' \in Seq(Cell), TornOnlyLast(file'), IdsArePositions(file'),
         synced' \in 0..Len(file'), Len(file') \in Nat,
         synced <= synced', synced <= Len(file'),
         \A i \in 1..synced : file[i] # Torn => file'[i] = file[i]
  PROVE  IInv'
<1> USE DEF Gone, Closed
<1>1. TypeOK'
  <2>1. << >> \in Seq(Event)
    BY EmptySeq
  <2>2. buf' \in [recs : Seq(Event), begun : BOOLEAN]
    BY <2>1 DEF EmptyBuffer
  <2>3. log' \in [next : Nat \ {0}, total : Nat, open : BOOLEAN]
    OBVIOUS
  <2>4. UNCHANGED <<issued, acked, refused>>
    BY DEF ghostVars
  <2> QED
    BY <2>1, <2>2, <2>3, <2>4 DEF IInv, TypeOK, Cell
<1>2. FileInv' /\ BufferInv' /\ LogInv'
  BY DEF FileInv, BufferInv, LogInv, Running
<1>3. AckInv'
  <2>1. synced \in Nat /\ acked' = acked
    BY FileFacts DEF ghostVars
  <2> SUFFICES ASSUME NEW c \in acked
               PROVE  \E i \in 1..synced' : file'[i] # Torn /\ file'[i].cmd = c
    BY <2>1 DEF AckInv
  <2>2. PICK i \in 1..synced : file[i] # Torn /\ file[i].cmd = c
    BY DEF IInv, AckInv
  <2> QED
    BY <2>1, <2>2
<1> QED
  BY <1>1, <1>2, <1>3 DEF IInv

LEMMA KillIInv == IInv /\ Kill => IInv'
<1>1. IInv => /\ dir \in BOOLEAN /\ snap \in World \cup {NoFile}
              /\ meta \in Meta \cup {NoFile} /\ kept \subseteq Contents
  BY DEF IInv, TypeOK
<1> QED
  BY <1>1, FileFacts, GoneIInv DEF Kill, KillLog, storeVars

LEMMA PowerLossIInv == IInv /\ PowerLoss => IInv'
<1> SUFFICES ASSUME IInv, PowerLoss PROVE IInv'
  OBVIOUS
<1>1. PICK k \in RecordEnds(file), torn \in BOOLEAN :
        /\ k >= synced
        /\ torn => k < Len(file)
        /\ file' = SubSeq(file, 1, k) \o (IF torn THEN <<Torn>> ELSE << >>)
  BY DEF PowerLoss, CutPower
<1>2. Gone /\ Closed /\ synced' = Len(file')
  BY DEF PowerLoss, CutPower
<1>7. /\ dir' \in BOOLEAN /\ snap' \in World \cup {NoFile}
      /\ meta' \in Meta \cup {NoFile} /\ kept' \subseteq Contents
  <2>1. PICK d \in kept : snap' = d.snap /\ meta' = d.meta /\ kept' = {d}
    BY DEF PowerLoss, RevertRenames
  <2>2. d \in Contents
    BY <2>1 DEF IInv, TypeOK
  <2>3. dir' \in BOOLEAN
    BY DEF PowerLoss, RevertRenames, IInv, TypeOK
  <2> QED
    BY <2>1, <2>2, <2>3 DEF Contents
<1> DEFINE h == SubSeq(file, 1, k)
<1>3. k \in 0..Len(file) /\ Len(file) \in Nat /\ synced \in Nat /\ synced <= k
  BY <1>1, FileFacts DEF RecordEnds
<1>4. /\ h \in Seq(Cell) /\ Len(h) = k
      /\ \A i \in 1..k : h[i] = file[i]
      /\ TornOnlyLast(h) /\ IdsArePositions(h)
      /\ k < Len(file) => Clean(h)
  BY <1>3, FileFacts, CutFile
<1>5. CASE torn
  <2>1. Clean(h) /\ file' = h \o <<Torn>>
    BY <1>1, <1>4, <1>5
  <2> HIDE DEF h
  <2>2. /\ file' \in Seq(Cell) /\ TornOnlyLast(file') /\ IdsArePositions(file')
        /\ Len(file') = k + 1 /\ \A i \in 1..k : file'[i] = h[i]
    BY <1>4, <2>1, AppendTorn
  <2>3. /\ Len(file') \in Nat /\ synced' \in 0..Len(file') /\ synced <= synced'
        /\ synced <= Len(file') /\ \A i \in 1..synced : file'[i] = file[i]
    BY <1>2, <1>3, <1>4, <2>2
  <2> QED
    BY <1>2, <1>7, <2>2, <2>3, GoneIInv
<1>6. CASE ~torn
  <2>1. file' = h
    <3>1. file' = h \o << >>
      BY <1>1, <1>6
    <3> QED
      BY <1>4, <3>1, ConcatEmptySeq
  <2> HIDE DEF h
  <2>2. /\ Len(file') \in Nat /\ synced' \in 0..Len(file') /\ synced <= synced'
        /\ synced <= Len(file') /\ \A i \in 1..synced : file'[i] = file[i]
    BY <1>2, <1>3, <1>4, <2>1
  <2> QED
    BY <1>2, <1>4, <1>7, <2>1, <2>2, GoneIInv
<1> QED
  BY <1>5, <1>6

LEMMA StemFacts ==
  ASSUME IInv, LeftoverFits
  PROVE  /\ Stem \in Seq(Cell) /\ Len(Stem) \in Nat /\ Len(Stem) <= Len(file)
         /\ TornOnlyLast(Stem) /\ IdsArePositions(Stem)
         /\ \A i \in 1..Len(file) : file[i] # Torn => i <= Len(Stem) /\ Stem[i] = file[i]
<1>1. CASE buf.begun
  <2>1. /\ Stem = SubSeq(file, 1, Len(file) - 1) /\ file # << >>
        /\ file[Len(file)] = Torn
    BY <1>1 DEF Stem, LeftoverFits
  <2>2. Len(file) \in Nat \ {0}
    BY <2>1, FileFacts, EmptySeq
  <2>3. Len(file) - 1 \in 0..Len(file)
    BY <2>2
  <2>4. /\ Stem \in Seq(Cell) /\ Len(Stem) = Len(file) - 1
        /\ \A i \in 1..(Len(file) - 1) : Stem[i] = file[i]
        /\ TornOnlyLast(Stem) /\ IdsArePositions(Stem)
    BY <2>1, <2>3, FileFacts, CutFile
  <2> QED
    BY <2>1, <2>2, <2>4
<1>2. CASE ~buf.begun
  <2>1. Stem = file
    BY <1>2 DEF Stem
  <2> QED
    BY <2>1, FileFacts
<1> QED
  BY <1>1, <1>2

LEMMA DroppedFile ==
  ASSUME IInv, LeftoverFits, DropLog
  PROVE  /\ file' \in Seq(Cell) /\ TornOnlyLast(file') /\ IdsArePositions(file')
         /\ Len(file') \in Nat /\ synced <= Len(file')
         /\ \A i \in 1..Len(file) : file[i] # Torn => i <= Len(file') /\ file'[i] = file[i]
         /\ buf.recs = << >> => file' = file
<1> DEFINE recs == buf.recs
<1>1. /\ recs \in Seq(Event) /\ Len(recs) \in Nat /\ buf.begun \in BOOLEAN
      /\ Len(file) \in Nat /\ synced \in 0..Len(file)
  BY FileFacts, LenProperties DEF IInv, TypeOK
<1>2. \/ file' = Stem \o recs
      \/ \E k \in RecordEnds(recs) \ {Len(recs)}, torn \in BOOLEAN :
           file' = FlushedTo(recs, k, torn)
  BY DEF DropLog
<1>3. CASE recs = << >>
  <2>1. Stem = file /\ ~buf.begun
    BY <1>3 DEF LeftoverFits, Stem
  <2>2. RecordEnds(recs) \ {Len(recs)} = {}
    BY <1>3, EmptySeq DEF RecordEnds
  <2>3. file' = file \o << >>
    BY <1>2, <1>3, <2>1, <2>2
  <2>4. file' = file
    BY <2>3, FileFacts, ConcatEmptySeq
  <2> QED
    BY <1>1, <2>4, FileFacts DEF recs
<1>4. CASE recs # << >>
  <2>1. /\ Clean(Stem) /\ \A i \in 1..Len(recs) : recs[i].id = Len(Stem) + i
        /\ Len(recs) > 0
    BY <1>1, <1>4, EmptySeq DEF LeftoverFits
  <2>2. /\ Stem \in Seq(Cell) /\ Len(Stem) \in Nat /\ IdsArePositions(Stem)
        /\ \A i \in 1..Len(file) : file[i] # Torn => i <= Len(Stem) /\ Stem[i] = file[i]
    BY StemFacts
  <2>3. /\ buf.begun => Len(Stem) = Len(file) - 1
        /\ ~buf.begun => Len(Stem) = Len(file)
    <3>1. CASE buf.begun
      <4>1. Len(file) \in Nat \ {0}
        BY <1>1, <3>1, EmptySeq DEF LeftoverFits
      <4>2. Len(file) - 1 \in 0..Len(file)
        BY <4>1
      <4>3. Len(SubSeq(file, 1, Len(file) - 1)) = Len(file) - 1
        BY <4>2, FileFacts, CutFile
      <4> QED
        BY <3>1, <4>3 DEF Stem
    <3>2. CASE ~buf.begun
      BY <3>2 DEF Stem
    <3> QED
      BY <1>1, <3>1, <3>2
  <2> HIDE DEF recs
  <2>4. Len(Stem) <= Len(file) /\ Len(file) <= Len(Stem) + 1
    <3>1. CASE buf.begun
      BY <1>1, <2>2, <2>3, <3>1
    <3>2. CASE ~buf.begun
      BY <1>1, <2>2, <2>3, <3>2
    <3> QED
      BY <3>1, <3>2
  <2>5. CASE file' = Stem \o recs
    <3>1. /\ file' \in Seq(Cell) /\ Clean(file') /\ IdsArePositions(file')
          /\ Len(file') = Len(Stem) + Len(recs)
          /\ \A i \in 1..Len(Stem) : file'[i] = Stem[i]
      BY <1>1, <2>1, <2>2, <2>5, AppendEvents
    <3>2. Len(file') \in Nat /\ synced <= Len(file')
      BY <1>1, <2>1, <2>2, <2>4, <3>1
    <3>3. \A i \in 1..Len(file) : file[i] # Torn => i <= Len(file') /\ file'[i] = file[i]
      BY <1>1, <2>2, <3>1
    <3> QED
      BY <1>4, <3>1, <3>2, <3>3, CleanIsTornOnlyLast DEF recs
  <2>6. ASSUME NEW k \in RecordEnds(recs) \ {Len(recs)}, NEW torn \in BOOLEAN,
               file' = FlushedTo(recs, k, torn)
        PROVE  /\ file' \in Seq(Cell) /\ TornOnlyLast(file') /\ IdsArePositions(file')
               /\ Len(file') \in Nat /\ synced <= Len(file')
               /\ \A i \in 1..Len(file) :
                    file[i] # Torn => i <= Len(file') /\ file'[i] = file[i]
    <3>1. k \in 0..Len(recs)
      BY <2>6 DEF RecordEnds
    <3>2. CASE Resumed(k)
      <4>1. file' = file
        BY <2>6, <3>2 DEF FlushedTo
      <4> QED
        BY <1>1, <4>1, FileFacts
    <3>3. CASE ~Resumed(k)
      <4> DEFINE h == Stem \o SubSeq(recs, 1, k)
                 t == h \o <<Torn>>
      <4>1. file' = h \o (IF torn THEN <<Torn>> ELSE << >>)
        BY <2>6, <3>3 DEF FlushedTo
      <4>2. /\ h \in Seq(Cell) /\ TornOnlyLast(h) /\ IdsArePositions(h)
            /\ Len(h) = Len(Stem) + k
            /\ \A i \in 1..Len(Stem) : h[i] = Stem[i]
            /\ t \in Seq(Cell) /\ TornOnlyLast(t) /\ IdsArePositions(t)
            /\ Len(t) = Len(h) + 1
            /\ \A i \in 1..Len(h) : t[i] = h[i]
        <5> DEFINE f == Stem
        <5>1. /\ f \in Seq(Cell) /\ Clean(f) /\ IdsArePositions(f)
              /\ recs \in Seq(Event)
              /\ \A i \in 1..Len(recs) : recs[i].id = Len(f) + i
          BY <1>1, <2>1, <2>2
        <5> HIDE DEF f
        <5>2. LET u == f \o SubSeq(recs, 1, k)
                  v == u \o <<Torn>>
              IN  /\ u \in Seq(Cell) /\ TornOnlyLast(u) /\ IdsArePositions(u)
                  /\ Len(u) = Len(f) + k
                  /\ \A i \in 1..Len(f) : u[i] = f[i]
                  /\ v \in Seq(Cell) /\ TornOnlyLast(v) /\ IdsArePositions(v)
                  /\ Len(v) = Len(u) + 1
                  /\ \A i \in 1..Len(u) : v[i] = u[i]
          BY <3>1, <5>1, PartFlushed
        <5> QED
          BY <5>2 DEF f
      <4>3. file' = t \/ file' = h
        <5>1. CASE torn
          BY <4>1, <5>1
        <5>2. CASE ~torn
          <6>1. file' = h \o << >>
            BY <4>1, <5>2
          <6> QED
            BY <4>2, <6>1, ConcatEmptySeq
        <5> QED
          BY <5>1, <5>2
      <4>4. Len(file) <= Len(Stem) + k
        <5>1. CASE buf.begun
          BY <1>1, <2>2, <2>3, <3>1, <3>3, <5>1 DEF Resumed
        <5>2. CASE ~buf.begun
          BY <1>1, <2>2, <2>3, <3>1, <5>2
        <5> QED
          BY <5>1, <5>2
      <4> HIDE DEF h, t
      <4>5. /\ Len(h) \in Nat /\ Len(t) \in Nat
            /\ synced <= Len(h) /\ synced <= Len(t) /\ Len(Stem) <= Len(h)
        BY <1>1, <2>2, <3>1, <4>2, <4>4
      <4>6. \A i \in 1..Len(file) :
              file[i] # Torn => /\ h[i] = file[i] /\ t[i] = file[i]
                                /\ i <= Len(h) /\ i <= Len(t)
        BY <1>1, <2>2, <4>2, <4>5
      <4> QED
        BY <4>2, <4>3, <4>5, <4>6
    <3> QED
      BY <3>2, <3>3
  <2> QED
    BY <1>2, <1>4, <2>5, <2>6 DEF recs
<1> QED
  BY <1>3, <1>4

LEMMA ExitIInv == IInv /\ Exit => IInv'
<1> SUFFICES ASSUME IInv, Exit PROVE IInv'
  OBVIOUS
<1>1. LeftoverFits
  <2>1. CASE pc = "failed"
    BY <2>1 DEF IInv, BufferInv
  <2>2. CASE pc # "failed"
    BY <2>2, EmptyBufferStem
  <2> QED
    BY <2>1, <2>2
<1>2. /\ DropLog /\ Gone /\ Closed /\ synced' = synced
  BY DEF Exit, DropLog
<1>7. /\ dir' \in BOOLEAN /\ snap' \in World \cup {NoFile}
      /\ meta' \in Meta \cup {NoFile} /\ kept' \subseteq Contents
  BY DEF Exit, storeVars, IInv, TypeOK
<1>3. /\ file' \in Seq(Cell) /\ TornOnlyLast(file') /\ IdsArePositions(file')
      /\ Len(file') \in Nat /\ synced <= Len(file')
      /\ \A i \in 1..Len(file) : file[i] # Torn => file'[i] = file[i]
  BY <1>1, <1>2, DroppedFile
<1>4. synced \in 0..Len(file) /\ Len(file) \in Nat
  BY FileFacts
<1>5. synced' \in 0..Len(file') /\ synced <= synced'
  BY <1>2, <1>3, <1>4
<1>6. \A i \in 1..synced : file[i] # Torn => file'[i] = file[i]
  BY <1>3, <1>4
<1> QED
  BY <1>2, <1>3, <1>5, <1>6, <1>7, GoneIInv

-----------------------------------------------------------------------------
(***************************************************************************)
(* The invariant is inductive for a caller that stops at the first error.  *)
(* (With RetryAfterError it is not: see the run retry_world.)              *)
(***************************************************************************)
LEMMA StutterIInv == IInv /\ UNCHANGED vars => IInv'
<1> SUFFICES ASSUME IInv, UNCHANGED vars PROVE IInv'
  OBVIOUS
<1> USE DEF vars, walVars, storeVars, procVars, ghostVars
<1>1. TypeOK'
  BY DEF IInv, TypeOK
<1>2. FileInv' /\ AckInv' /\ LogInv'
  BY DEF IInv, FileInv, AckInv, LogInv
<1>3. BufferInv'
  BY DEF IInv, BufferInv, LeftoverFits, Stem
<1> QED
  BY <1>1, <1>2, <1>3 DEF IInv

LEMMA NextIInv ==
  ASSUME ~RetryAfterError, IInv, [Next]_vars
  PROVE  IInv'
<1>1. CASE Start
  BY <1>1, StartIInv
<1>2. CASE LoadWorld
  BY <1>2, LoadWorldIInv
<1>3. CASE CreateWorld \/ RunCommand
  BY <1>3, CommandIInv
<1>4. CASE AppendRecord
  BY <1>4, AppendRecordIInv
<1>5. CASE Acknowledge
  BY <1>5, AcknowledgeIInv
<1>6. CASE AppendFails
  BY <1>6, AppendFailsIInv
<1>7. CASE SyncFails
  BY <1>7, SyncFailsIInv
<1>8. CASE BeginSave \/ SaveSync \/ WriteSnapshot \/ FinishSave \/ AbortSave
  BY <1>8, SavingIInv
<1>9. CASE Retry
  BY <1>9 DEF Retry
<1>10. CASE Exit
  BY <1>10, ExitIInv
<1>11. CASE Kill
  BY <1>11, KillIInv
<1>12. CASE PowerLoss
  BY <1>12, PowerLossIInv
<1>13. CASE UNCHANGED vars
  BY <1>13, StutterIInv
<1>14. CASE RefuseCall
  BY <1>14, RefuseCallIInv
<1> QED
  BY <1>14, <1>1, <1>2, <1>3, <1>4, <1>5, <1>6, <1>7, <1>8, <1>9, <1>10, <1>11, <1>12, <1>13 DEF Next

(***************************************************************************)
(* The variables keep their types, for every choice of the constants.      *)
(***************************************************************************)
THEOREM TypeCorrect ==
  ASSUME ~RetryAfterError
  PROVE  Spec => []TypeOK
<1>1. IInv => TypeOK
  BY DEF IInv
<1>2. IInv /\ [Next]_vars => IInv'
  BY NextIInv
<1> QED
  BY <1>1, <1>2, InitIInv, PTL DEF Spec

LEMMA LogIsContiguous ==
  ASSUME IInv
  PROVE  WalContiguous
<1>1. /\ Wal \in Seq(Event) /\ Len(Wal) = ValidLen(file)
      /\ \A i \in 1..ValidLen(file) : Wal[i] = file[i] /\ file[i] # Torn
      /\ ValidLen(file) \in 0..Len(file)
  BY FileFacts, ValidPrefix DEF Wal
<1>2. DOMAIN Wal = 1..ValidLen(file)
  BY <1>1, LenProperties
<1>3. \A i \in 1..ValidLen(file) : i \in 1..Len(file)
  BY <1>1, FileFacts
<1>4. \A i \in DOMAIN Wal : Wal[i].id = i
  BY <1>1, <1>2, <1>3, FileFacts DEF IdsArePositions
<1> QED
  BY <1>4 DEF WalContiguous, Contiguous

(***************************************************************************)
(* Event ids in the log are 1, 2, 3, ... across failed writes, crashes,    *)
(* power cuts and repairs, as long as the caller stops at an error.        *)
(***************************************************************************)
THEOREM IdsStayContiguous ==
  ASSUME ~RetryAfterError
  PROVE  Spec => []WalContiguous
<1>1. IInv => WalContiguous
  BY LogIsContiguous
<1>2. IInv /\ [Next]_vars => IInv'
  BY NextIInv
<1> QED
  BY <1>1, <1>2, InitIInv, PTL DEF Spec

\* An acknowledged command is in the part of the log that was synced.
LEMMA AckedInLog ==
  ASSUME IInv
  PROVE  AckedDurable
<1> SUFFICES ASSUME NEW c \in acked
             PROVE  c \in {Wal[i].cmd : i \in DOMAIN Wal}
  BY DEF AckedDurable
<1>1. PICK i \in 1..synced : file[i] # Torn /\ file[i].cmd = c
  BY DEF IInv, AckInv
<1>2. i \in 1..Len(file)
  BY <1>1, FileFacts
<1>3. /\ Wal \in Seq(Event) /\ Len(Wal) = ValidLen(file)
      /\ i <= ValidLen(file) /\ ValidLen(file) \in 0..Len(file)
      /\ \A j \in 1..ValidLen(file) : Wal[j] = file[j]
  BY <1>1, <1>2, FileFacts, ValidPrefix DEF Wal
<1>4. i \in DOMAIN Wal
  BY <1>2, <1>3, LenProperties
<1>5. Wal[i] = file[i]
  BY <1>2, <1>3, FileFacts
<1> QED
  BY <1>1, <1>4, <1>5

(***************************************************************************)
(* Every command that process_command returned Ok for can be read back     *)
(* from the log in every later state, whatever failed, crashed or lost     *)
(* power since.                                                            *)
(***************************************************************************)
THEOREM AckedStaysDurable ==
  ASSUME ~RetryAfterError
  PROVE  Spec => []AckedDurable
<1>1. IInv => AckedDurable
  BY AckedInLog
<1>2. IInv /\ [Next]_vars => IInv'
  BY NextIInv
<1> QED
  BY <1>1, <1>2, InitIInv, PTL DEF Spec


-----------------------------------------------------------------------------
(***************************************************************************)
(* Without any assumption on the caller: also one that goes on after an    *)
(* error keeps the types, never leaves part of a command where a reader of *)
(* the log could find it, has a live world with acknowledged effects only, *)
(* and never discards by a save what a snapshot held, although the log may *)
(* hold an id twice.                                                       *)
(***************************************************************************)
(***************************************************************************)
(* A cell with more of its command to come, and the cell that is next.     *)
(***************************************************************************)
Unfinished(c) == c # Torn /\ c.rem > 0

Continues(d, c) == d # Torn /\ d.rem = c.rem - 1 /\ d.cmd = c.cmd

Whole(cells) ==
  \A i \in 1..Len(cells) :
    Unfinished(cells[i]) => i < Len(cells) /\ Continues(cells[i + 1], cells[i])

(***************************************************************************)
(* The inductive invariant: the types, a buffer that begins with a piece   *)
(* of a record only where the file ends with one, a number for the command *)
(* in flight, and nothing but whole commands in the file, in the buffer    *)
(* and in flight.                                                          *)
(***************************************************************************)
BegunInv ==
  buf.begun => file # << >> /\ file[Len(file)] = Torn /\ buf.recs # << >>

WholeInv == Whole(file) /\ Whole(buf.recs) /\ Whole(batch)

InFlightInv == pc \in {"append", "sync"} => issued > 0

AnyCallerInv == TypeOK /\ BegunInv /\ InFlightInv /\ WholeInv

-----------------------------------------------------------------------------
(***************************************************************************)
(* Sequences of whole commands: put together, cut between records, ended   *)
(* by a torn piece.                                                        *)
(***************************************************************************)
LEMMA TornEndsRecord == ~ Unfinished(Torn)
BY DEF Unfinished

LEMMA NothingIsWhole == << >> \in Seq(Event) /\ << >> \in Seq(Cell) /\ Whole(<< >>)
BY EmptySeq DEF Whole

LEMMA WholeConcat ==
  ASSUME NEW f \in Seq(Cell), NEW g \in Seq(Cell), Whole(f), Whole(g)
  PROVE  /\ f \o g \in Seq(Cell) /\ Len(f \o g) = Len(f) + Len(g)
         /\ Whole(f \o g)
<1> DEFINE h == f \o g
<1>1. Len(f) \in Nat /\ Len(g) \in Nat
  BY LenProperties
<1>2. /\ h \in Seq(Cell) /\ Len(h) = Len(f) + Len(g)
      /\ \A i \in 1..Len(h) : h[i] = IF i <= Len(f) THEN f[i] ELSE g[i - Len(f)]
  BY ConcatProperties
<1> HIDE DEF h
<1>3. ASSUME NEW i \in 1..Len(h), Unfinished(h[i])
      PROVE  i < Len(h) /\ Continues(h[i + 1], h[i])
  <2>1. CASE i <= Len(f)
    <3>1. i \in 1..Len(f) /\ h[i] = f[i]
      BY <1>1, <1>2, <2>1
    <3>2. i < Len(f) /\ Continues(f[i + 1], f[i])
      BY <1>3, <3>1 DEF Whole
    <3>3. i < Len(h) /\ h[i + 1] = f[i + 1]
      BY <1>1, <1>2, <3>1, <3>2
    <3> QED
      BY <3>1, <3>2, <3>3
  <2>2. CASE i > Len(f)
    <3> DEFINE j == i - Len(f)
    <3>1. j \in 1..Len(g) /\ h[i] = g[j] /\ j + Len(f) = i
      BY <1>1, <1>2, <2>2
    <3>2. j < Len(g) /\ Continues(g[j + 1], g[j])
      BY <1>3, <3>1 DEF Whole
    <3>3. i < Len(h) /\ i + 1 \in 1..Len(h) /\ ~(i + 1 <= Len(f)) /\ (i + 1) - Len(f) = j + 1
      BY <1>1, <1>2, <2>2, <3>1, <3>2
    <3>4. h[i + 1] = g[j + 1]
      BY <1>2, <3>3
    <3> QED
      BY <3>1, <3>2, <3>3, <3>4
  <2> QED
    BY <1>1, <2>1, <2>2
<1> QED
  BY <1>2, <1>3 DEF Whole, h

LEMMA WholeTorn ==
  /\ <<Torn>> \in Seq(Cell) /\ Len(<<Torn>>) = 1 /\ <<Torn>>[1] = Torn
  /\ Whole(<<Torn>>)
<1>1. <<Torn>> \in Seq(Cell) /\ Len(<<Torn>>) = 1 /\ <<Torn>>[1] = Torn
  BY DEF Cell
<1>2. Whole(<<Torn>>)
  BY <1>1, TornEndsRecord DEF Whole
<1> QED
  BY <1>1, <1>2

LEMMA WholeCut ==
  ASSUME NEW f \in Seq(Cell), Whole(f),
         NEW k \in 0..Len(f), k = 0 \/ ~ Unfinished(f[k])
  PROVE  /\ SubSeq(f, 1, k) \in Seq(Cell) /\ Len(SubSeq(f, 1, k)) = k
         /\ \A i \in 1..k : SubSeq(f, 1, k)[i] = f[i]
         /\ Whole(SubSeq(f, 1, k))
         /\ SubSeq(f, k + 1, Len(f)) \in Seq(Cell)
         /\ Len(SubSeq(f, k + 1, Len(f))) = Len(f) - k
         /\ Whole(SubSeq(f, k + 1, Len(f)))
<1> DEFINE u == SubSeq(f, 1, k)
           v == SubSeq(f, k + 1, Len(f))
<1>1. Len(f) \in Nat /\ \A i \in 1..Len(f) : f[i] \in Cell
  BY LenProperties, ElementOfSeq
<1>2. /\ u \in Seq(Cell) /\ Len(u) = k /\ \A i \in 1..k : u[i] = f[i]
  <2>1. \A i \in 1..k : f[i] \in Cell
    BY <1>1
  <2> QED
    BY <2>1, SubSeqProperties
<1>3. /\ v \in Seq(Cell) /\ Len(v) = Len(f) - k
      /\ \A i \in 1..(Len(f) - k) : v[i] = f[k + i]
  <2>1. \A i \in (k + 1)..Len(f) : f[i] \in Cell
    BY <1>1
  <2>2. /\ v \in Seq(Cell)
        /\ Len(v) = IF k + 1 <= Len(f) THEN Len(f) - (k + 1) + 1 ELSE 0
        /\ \A i \in 1..(Len(f) - (k + 1) + 1) : v[i] = f[(k + 1) + i - 1]
    BY <1>1, <2>1, SubSeqProperties
  <2> HIDE DEF v
  <2>3. Len(v) = Len(f) - k
    BY <1>1, <2>2
  <2>4. ASSUME NEW i \in 1..(Len(f) - k) PROVE v[i] = f[k + i]
    <3>1. i \in 1..(Len(f) - (k + 1) + 1) /\ (k + 1) + i - 1 = k + i
      BY <1>1
    <3> QED
      BY <2>2, <3>1
  <2> QED
    BY <2>2, <2>3, <2>4
<1> HIDE DEF u, v
<1>4. Whole(u)
  <2> SUFFICES ASSUME NEW i \in 1..k, Unfinished(u[i])
               PROVE  i < k /\ Continues(u[i + 1], u[i])
    BY <1>2 DEF Whole
  <2>1. i \in 1..Len(f) /\ u[i] = f[i] /\ i # k
    BY <1>1, <1>2
  <2>2. Continues(f[i + 1], f[i]) /\ i < k
    BY <2>1 DEF Whole
  <2>3. u[i + 1] = f[i + 1]
    BY <1>2, <2>2
  <2> QED
    BY <2>1, <2>2, <2>3
<1>5. Whole(v)
  <2> SUFFICES ASSUME NEW i \in 1..(Len(f) - k), Unfinished(v[i])
               PROVE  i < Len(f) - k /\ Continues(v[i + 1], v[i])
    BY <1>3 DEF Whole
  <2>1. k + i \in 1..Len(f) /\ v[i] = f[k + i]
    BY <1>1, <1>3
  <2>2. k + i < Len(f) /\ Continues(f[(k + i) + 1], f[k + i])
    BY <2>1 DEF Whole
  <2>3. i + 1 \in 1..(Len(f) - k) /\ k + (i + 1) = (k + i) + 1 /\ i < Len(f) - k
    BY <1>1, <2>2
  <2>4. v[i + 1] = f[(k + i) + 1]
    BY <1>3, <2>3
  <2> QED
    BY <2>1, <2>2, <2>3, <2>4
<1> QED
  BY <1>2, <1>3, <1>4, <1>5 DEF u, v

\* A place where RecordEnds allows a cut does not split a command, nor does
\* the place before a torn cell.
LEMMA RecordEndsSplitNothing ==
  ASSUME NEW f \in Seq(Cell), NEW k \in RecordEnds(f)
  PROVE  k \in 0..Len(f) /\ (k = 0 \/ ~ Unfinished(f[k]))
<1>1. k \in 0..Len(f) /\ (k = 0 \/ f[k] = Torn \/ f[k].rem = 0)
  BY DEF RecordEnds
<1>2. CASE k # 0 /\ f[k] # Torn
  BY <1>1, <1>2 DEF Unfinished
<1> QED
  BY <1>1, <1>2 DEF Unfinished

LEMMA BeforeTornSplitsNothing ==
  ASSUME NEW f \in Seq(Cell), Whole(f),
         NEW k \in 0..Len(f), k < Len(f), f[k + 1] = Torn
  PROVE  k = 0 \/ ~ Unfinished(f[k])
<1>1. Len(f) \in Nat
  BY LenProperties
<1>2. ~ Continues(f[k + 1], f[k])
  BY DEF Continues
<1> QED
  BY <1>1, <1>2 DEF Whole

-----------------------------------------------------------------------------
(***************************************************************************)
(* What a scan returns, wherever the file is torn: the records before the  *)
(* first torn cell, which there is if there is one at all.                 *)
(***************************************************************************)
LEMMA ScanIsWhole ==
  ASSUME NEW f \in Seq(Cell), Whole(f)
  PROVE  /\ Valid(f) \in Seq(Event) /\ Len(Valid(f)) = ValidLen(f)
         /\ ValidLen(f) \in 0..Len(f)
         /\ Whole(Valid(f))
<1>1. DOMAIN f = 1..Len(f) /\ Len(f) \in Nat
  BY LenProperties
<1>2. /\ ValidLen(f) \in 0..Len(f)
      /\ \A i \in 1..ValidLen(f) : f[i] # Torn
      /\ ValidLen(f) < Len(f) => f[ValidLen(f) + 1] = Torn
  <2>1. CASE \E i \in DOMAIN f : f[i] = Torn
    <3> DEFINE First(i) == f[i] = Torn /\ \A j \in 1..(i - 1) : f[j] # Torn
               torn == {i \in DOMAIN f : f[i] = Torn}
    <3>1. torn \in SUBSET Nat /\ torn # {}
      BY <1>1, <2>1
    <3>2. PICK i \in torn : \A j \in torn : i <= j
      BY <3>1, LeastElement
    <3>3. i \in DOMAIN f /\ First(i)
      BY <1>1, <3>2
    <3> DEFINE first == CHOOSE n \in DOMAIN f : First(n)
    <3>4. first \in DOMAIN f /\ First(first)
      BY <3>3
    <3>5. ValidLen(f) = first - 1
      BY <2>1 DEF ValidLen
    <3> HIDE DEF first
    <3> QED
      BY <1>1, <3>4, <3>5
  <2>2. CASE ~ \E i \in DOMAIN f : f[i] = Torn
    BY <1>1, <2>2 DEF ValidLen
  <2> QED
    BY <2>1, <2>2
<1>3. ValidLen(f) = 0 \/ ~ Unfinished(f[ValidLen(f)])
  <2>1. CASE ValidLen(f) < Len(f)
    BY <1>2, <2>1, BeforeTornSplitsNothing
  <2>2. CASE ValidLen(f) = Len(f)
    BY <1>1, <1>2, <2>2 DEF Whole
  <2> QED
    BY <1>1, <1>2, <2>1, <2>2
<1>4. /\ Valid(f) \in Seq(Cell) /\ Len(Valid(f)) = ValidLen(f)
      /\ \A i \in 1..ValidLen(f) : Valid(f)[i] = f[i]
      /\ Whole(Valid(f))
  BY <1>2, <1>3, WholeCut DEF Valid
<1>5. \A i \in 1..Len(Valid(f)) : Valid(f)[i] \in Event
  BY <1>2, <1>4, ElementOfSeq DEF Cell
<1>6. Valid(f) \in Seq(Event)
  BY <1>4, <1>5, SeqDef, LenProperties
<1> QED
  BY <1>2, <1>4, <1>6

-----------------------------------------------------------------------------
(***************************************************************************)
(* What a flush makes of the file and the buffer.                          *)
(***************************************************************************)
LEMMA WalFacts ==
  ASSUME AnyCallerInv
  PROVE  /\ file \in Seq(Cell) /\ Len(file) \in Nat /\ Whole(file)
         /\ buf.recs \in Seq(Event) /\ Whole(buf.recs) /\ buf.begun \in BOOLEAN
         /\ batch \in Seq(Event) /\ Whole(batch)
         /\ synced \in 0..Len(file)
         /\ log \in [next : Nat \ {0}, total : Nat, open : BOOLEAN]
BY LenProperties DEF AnyCallerInv, TypeOK, WholeInv, Cell

LEMMA StemIsWhole ==
  ASSUME AnyCallerInv
  PROVE  /\ Stem \in Seq(Cell) /\ Len(Stem) \in Nat /\ Whole(Stem)
         /\ ~ buf.begun => Stem = file
         /\ Len(file) <= Len(Stem) + 1
<1>1. CASE buf.begun
  <2>1. file # << >> /\ file[Len(file)] = Torn
    BY <1>1 DEF AnyCallerInv, BegunInv
  <2>2. Len(file) \in Nat \ {0}
    BY <2>1, WalFacts, EmptySeq
  <2> DEFINE k == Len(file) - 1
  <2>3. k \in 0..Len(file) /\ k < Len(file) /\ k + 1 = Len(file)
    BY <2>2
  <2>4. k = 0 \/ ~ Unfinished(file[k])
    BY <2>1, <2>3, WalFacts, BeforeTornSplitsNothing
  <2>5. SubSeq(file, 1, k) \in Seq(Cell) /\ Len(SubSeq(file, 1, k)) = k
        /\ Whole(SubSeq(file, 1, k))
    BY <2>3, <2>4, WalFacts, WholeCut
  <2>6. Stem = SubSeq(file, 1, k)
    BY <1>1 DEF Stem
  <2> QED
    BY <1>1, <2>2, <2>5, <2>6
<1>2. CASE ~ buf.begun
  BY <1>2, WalFacts DEF Stem
<1> QED
  BY <1>1, <1>2, WalFacts

\* Everything in the buffer goes out.
LEMMA EmptiedIsWhole ==
  ASSUME AnyCallerInv
  PROVE  /\ Stem \o buf.recs \in Seq(Cell) /\ Whole(Stem \o buf.recs)
         /\ Len(file) <= Len(Stem \o buf.recs)
<1>1. buf.recs \in Seq(Cell) /\ Whole(buf.recs) /\ Len(buf.recs) \in Nat
  BY WalFacts, EventsAreCells, LenProperties
<1>2. /\ Stem \o buf.recs \in Seq(Cell) /\ Whole(Stem \o buf.recs)
      /\ Len(Stem \o buf.recs) = Len(Stem) + Len(buf.recs)
  BY <1>1, StemIsWhole, WholeConcat
<1>3. buf.begun => Len(buf.recs) > 0
  BY <1>1, EmptySeq DEF AnyCallerInv, BegunInv
<1> QED
  BY <1>1, <1>2, <1>3, StemIsWhole, WalFacts

\* A sequence of whole commands, perhaps with a torn piece after it.
LEMMA TornIsWhole ==
  ASSUME NEW f \in Seq(Cell), Whole(f), NEW torn \in BOOLEAN
  PROVE  LET g == f \o (IF torn THEN <<Torn>> ELSE << >>)
         IN  /\ g \in Seq(Cell) /\ Whole(g) /\ Len(f) <= Len(g) /\ Len(g) \in Nat
             /\ torn => g # << >> /\ g[Len(g)] = Torn
             /\ ~torn => g = f
<1>1. Len(f) \in Nat
  BY LenProperties
<1>2. CASE torn
  <2> DEFINE g == f \o <<Torn>>
  <2>1. /\ g \in Seq(Cell) /\ Whole(g) /\ Len(g) = Len(f) + 1
    BY WholeTorn, WholeConcat
  <2>2. g[Len(f) + 1] = Torn
    <3>1. \A i \in 1..(Len(f) + 1) :
            g[i] = IF i <= Len(f) THEN f[i] ELSE <<Torn>>[i - Len(f)]
      BY WholeTorn, ConcatProperties
    <3> QED
      BY <1>1, <3>1, WholeTorn
  <2> HIDE DEF g
  <2>3. g # << >>
    BY <1>1, <2>1, EmptySeq
  <2>4. /\ g \in Seq(Cell) /\ Whole(g) /\ Len(f) <= Len(g) /\ Len(g) \in Nat
        /\ g # << >> /\ g[Len(g)] = Torn
    BY <1>1, <2>1, <2>2, <2>3
  <2> QED
    BY <1>2, <2>4 DEF g
<1>3. CASE ~torn
  <2>1. f \o << >> = f
    BY ConcatEmptySeq
  <2> QED
    BY <1>1, <1>3, <2>1
<1> QED
  BY <1>2, <1>3

\* A flush that stops: the file it leaves, and what stays in the buffer.
LEMMA StoppedIsWhole ==
  ASSUME AnyCallerInv, NEW recs \in Seq(Event), Whole(recs),
         NEW k \in RecordEnds(recs) \ {Len(recs)}, NEW torn \in BOOLEAN
  PROVE  LET g    == FlushedTo(recs, k, torn)
             rest == SubSeq(recs, k + 1, Len(recs))
         IN  /\ g \in Seq(Cell) /\ Whole(g) /\ Len(file) <= Len(g) /\ Len(g) \in Nat
             /\ Resumed(k) \/ torn => g # << >> /\ g[Len(g)] = Torn
             /\ rest \in Seq(Event) /\ Whole(rest) /\ rest # << >>
<1> DEFINE g == FlushedTo(recs, k, torn)
           rest == SubSeq(recs, k + 1, Len(recs))
           part == SubSeq(recs, 1, k)
<1>1. recs \in Seq(Cell) /\ Len(recs) \in Nat
  BY EventsAreCells, LenProperties
<1>2. k \in 0..Len(recs) /\ k # Len(recs) /\ (k = 0 \/ ~ Unfinished(recs[k]))
  BY <1>1, RecordEndsSplitNothing
<1>3. /\ part \in Seq(Cell) /\ Len(part) = k /\ Whole(part)
      /\ rest \in Seq(Cell) /\ Len(rest) = Len(recs) - k /\ Whole(rest)
  BY <1>1, <1>2, WholeCut
<1>4. rest \in Seq(Event)
  <2>1. \A i \in (k + 1)..Len(recs) : recs[i] \in Event
    BY <1>1, <1>2, ElementOfSeq
  <2> QED
    BY <1>1, <1>2, <2>1, SubSeqProperties
<1> HIDE DEF rest, part
<1>5. rest # << >>
  <2>1. Len(rest) # 0
    BY <1>1, <1>2, <1>3
  <2> QED
    BY <2>1, EmptySeq
<1>6. /\ g \in Seq(Cell) /\ Whole(g) /\ Len(file) <= Len(g) /\ Len(g) \in Nat
      /\ Resumed(k) \/ torn => g # << >> /\ g[Len(g)] = Torn
  <2>1. CASE Resumed(k)
    <3>1. g = file /\ buf.begun
      BY <2>1 DEF FlushedTo, Resumed
    <3>2. file # << >> /\ file[Len(file)] = Torn
      BY <3>1 DEF AnyCallerInv, BegunInv
    <3> QED
      BY <3>1, <3>2, WalFacts
  <2>2. CASE ~ Resumed(k)
    <3> DEFINE h == Stem \o part
    <3>1. g = h \o (IF torn THEN <<Torn>> ELSE << >>)
      BY <2>2 DEF FlushedTo, part
    <3>2. h \in Seq(Cell) /\ Whole(h) /\ Len(h) = Len(Stem) + k
      BY <1>3, StemIsWhole, WholeConcat
    <3>3. Len(file) <= Len(h) /\ Len(h) \in Nat
      BY <1>2, <2>2, <3>2, StemIsWhole, WalFacts DEF Resumed
    <3> HIDE DEF h, g
    <3>4. LET t == h \o (IF torn THEN <<Torn>> ELSE << >>)
          IN  /\ t \in Seq(Cell) /\ Whole(t) /\ Len(h) <= Len(t) /\ Len(t) \in Nat
              /\ torn => t # << >> /\ t[Len(t)] = Torn
      BY <3>2, TornIsWhole
    <3>5. /\ g \in Seq(Cell) /\ Whole(g) /\ Len(h) <= Len(g) /\ Len(g) \in Nat
          /\ torn => g # << >> /\ g[Len(g)] = Torn
      BY <3>1, <3>4
    <3> QED
      BY <2>2, <3>3, <3>5, WalFacts
  <2> QED
    BY <2>1, <2>2
<1> QED
  BY <1>3, <1>4, <1>5, <1>6 DEF rest

\* What the steps that write to the log leave of it.
WalKept ==
  /\ file' \in Seq(Cell) /\ Whole(file') /\ Len(file') \in Nat
  /\ synced' \in 0..Len(file')
  /\ buf' \in [recs : Seq(Event), begun : BOOLEAN] /\ Whole(buf'.recs)
  /\ BegunInv'

LEMMA EmptyBufferIsWhole ==
  /\ EmptyBuffer \in [recs : Seq(Event), begun : BOOLEAN]
  /\ EmptyBuffer.recs = << >> /\ ~ EmptyBuffer.begun
  /\ Whole(EmptyBuffer.recs)
BY NothingIsWhole DEF EmptyBuffer

LEMMA EmptiedKeeps ==
  ASSUME AnyCallerInv, buf' = EmptyBuffer, synced' \in {synced, Len(file')},
         file' \in Seq(Cell), Whole(file'), Len(file) <= Len(file')
  PROVE  WalKept
BY WalFacts, EmptyBufferIsWhole, LenProperties DEF WalKept, BegunInv

LEMMA FlushStopsKeeps ==
  ASSUME AnyCallerInv, NEW recs \in Seq(Event), Whole(recs), FlushStops(recs),
         synced' = synced
  PROVE  WalKept
<1>1. PICK k \in RecordEnds(recs) \ {Len(recs)}, torn \in BOOLEAN :
        /\ file' = FlushedTo(recs, k, torn)
        /\ buf' = [recs |-> SubSeq(recs, k + 1, Len(recs)), begun |-> Resumed(k) \/ torn]
  BY DEF FlushStops
<1> DEFINE g    == FlushedTo(recs, k, torn)
           rest == SubSeq(recs, k + 1, Len(recs))
<1>2. /\ g \in Seq(Cell) /\ Whole(g) /\ Len(file) <= Len(g) /\ Len(g) \in Nat
      /\ Resumed(k) \/ torn => g # << >> /\ g[Len(g)] = Torn
      /\ rest \in Seq(Event) /\ Whole(rest) /\ rest # << >>
  BY StoppedIsWhole
<1>3. file' = g /\ buf'.recs = rest /\ buf'.begun = (Resumed(k) \/ torn)
  BY <1>1
<1>4. Resumed(k) \in BOOLEAN
  BY WalFacts DEF Resumed
<1>5. buf' \in [recs : Seq(Event), begun : BOOLEAN]
  BY <1>1, <1>2, <1>4
<1> HIDE DEF g, rest
<1>6. synced' \in 0..Len(file')
  BY <1>2, <1>3, WalFacts
<1>7. BegunInv'
  BY <1>2, <1>3 DEF BegunInv
<1> QED
  BY <1>2, <1>3, <1>5, <1>6, <1>7 DEF WalKept

LEMMA DirectWriteKeeps ==
  ASSUME AnyCallerInv, DirectWriteStops, synced' = synced
  PROVE  WalKept
<1>1. PICK torn \in BOOLEAN :
        /\ file' = (Stem \o buf.recs) \o (IF torn THEN <<Torn>> ELSE << >>)
        /\ buf' = EmptyBuffer
  BY DEF DirectWriteStops
<1> DEFINE f == Stem \o buf.recs
<1>2. f \in Seq(Cell) /\ Whole(f) /\ Len(file) <= Len(f) /\ Len(f) \in Nat
  BY EmptiedIsWhole, LenProperties
<1>3. file' = f \o (IF torn THEN <<Torn>> ELSE << >>)
  BY <1>1
<1> HIDE DEF f
<1>4. LET g == f \o (IF torn THEN <<Torn>> ELSE << >>)
      IN  g \in Seq(Cell) /\ Whole(g) /\ Len(f) <= Len(g) /\ Len(g) \in Nat
  BY <1>2, TornIsWhole
<1>5. /\ file' \in Seq(Cell) /\ Whole(file') /\ Len(file) <= Len(file')
  BY <1>2, <1>3, <1>4, WalFacts
<1> QED
  BY <1>1, <1>5, EmptiedKeeps

LEMMA WriteFailsKeeps ==
  ASSUME AnyCallerInv, NEW g \in Seq(Event), Whole(g), WriteFails(g)
  PROVE  WalKept /\ log' \in [next : Nat \ {0}, total : Nat, open : BOOLEAN]
<1>1. synced' = synced /\ log' \in [next : Nat \ {0}, total : Nat, open : BOOLEAN]
  BY WalFacts DEF WriteFails
<1>2. CASE UNCHANGED <<file, buf>>
  BY <1>1, <1>2, WalFacts DEF WalKept, AnyCallerInv, BegunInv, TypeOK
<1>3. CASE FlushStops(buf.recs)
  BY <1>1, <1>3, WalFacts, FlushStopsKeeps
<1>4. CASE FlushStops(buf.recs \o g)
  <2>1. buf.recs \o g \in Seq(Event)
    BY WalFacts, ConcatProperties
  <2>2. Whole(buf.recs \o g)
    BY WalFacts, EventsAreCells, WholeConcat
  <2> QED
    BY <1>1, <1>4, <2>1, <2>2, FlushStopsKeeps
<1>5. CASE DirectWriteStops
  BY <1>1, <1>5, DirectWriteKeeps
<1> QED
  BY <1>1, <1>2, <1>3, <1>4, <1>5 DEF WriteFails

-----------------------------------------------------------------------------
(***************************************************************************)
(* The steps.                                                              *)
(***************************************************************************)
LEMMA InitAnyCaller == Init => AnyCallerInv
<1>1. Init => TypeOK
  BY InitIInv DEF IInv
<1>2. Init => BegunInv /\ InFlightInv /\ WholeInv
  BY NothingIsWhole, EmptyBufferIsWhole DEF Init, BegunInv, InFlightInv, WholeInv
<1> QED
  BY <1>1, <1>2 DEF AnyCallerInv

\* Steps that leave the log, its buffer and the batch alone.
LEMMA LogUntouchedKeeps ==
  ASSUME AnyCallerInv, UNCHANGED <<file, buf, batch, issued>>, TypeOK',
         pc' \in {"append", "sync"} => pc' = pc
  PROVE  AnyCallerInv'
BY DEF AnyCallerInv, BegunInv, InFlightInv, WholeInv

LEMMA StartKeeps == AnyCallerInv /\ Start => AnyCallerInv'
<1> SUFFICES ASSUME AnyCallerInv, Start PROVE AnyCallerInv'
  OBVIOUS
<1> DEFINE events == Valid(file)
<1>1. /\ file' = events /\ buf' = EmptyBuffer
      /\ synced' = IF synced > Len(events) THEN Len(events) ELSE synced
      /\ log' = [next |-> LastId(events) + 1, total |-> Len(events), open |-> FALSE]
      /\ pc' = "idle" /\ pc = "down"
      /\ UNCHANGED <<storeVars, world, checkpoint, batch, saving, ghostVars>>
  BY DEF Start, OpenRepair
<1>2. events \in Seq(Event) /\ Whole(events)
  BY WalFacts, ScanIsWhole
<1> HIDE DEF events
<1>3. events \in Seq(Cell) /\ Len(events) \in Nat
  BY <1>2, EventsAreCells, LenProperties
<1>4. LastId(events) \in Nat
  <2>1. CASE events = << >>
    BY <2>1 DEF LastId
  <2>2. CASE events # << >>
    <3>1. Len(events) \in 1..Len(events)
      BY <1>2, <2>2, EmptySeq
    <3>2. events[Len(events)] \in Event
      BY <1>2, <3>1, ElementOfSeq
    <3> QED
      BY <2>2, <3>2 DEF LastId, Event
  <2> QED
    BY <2>1, <2>2
<1>5. log' \in [next : Nat \ {0}, total : Nat, open : BOOLEAN]
  BY <1>1, <1>3, <1>4
<1>6. synced' \in 0..Len(file')
  BY <1>1, <1>3, WalFacts
<1>7. TypeOK'
  BY <1>1, <1>3, <1>5, <1>6, EmptyBufferIsWhole
     DEF AnyCallerInv, TypeOK, storeVars, ghostVars, Cell
<1> QED
  BY <1>1, <1>2, <1>7, EmptyBufferIsWhole
     DEF AnyCallerInv, BegunInv, InFlightInv, WholeInv

LEMMA ReadingKeeps == AnyCallerInv /\ (LoadWorld \/ RefuseCall \/ Retry) => AnyCallerInv'
<1>1. ASSUME AnyCallerInv, LoadWorld PROVE AnyCallerInv'
  <2>1. Valid(file) \in Seq(Event) /\ snap \in World \cup {NoFile}
    BY <1>1, WalFacts, ScanIsWhole DEF AnyCallerInv, TypeOK
  <2>2. world' \in World
    BY <1>1, <2>1, ReplayedIsAWorld DEF LoadWorld
  <2>3. TypeOK'
    BY <1>1, <2>2
       DEF LoadWorld, walVars, storeVars, ghostVars, AnyCallerInv, TypeOK
  <2> QED
    BY <1>1, <2>3, LogUntouchedKeeps DEF LoadWorld, walVars, ghostVars
<1>2. ASSUME AnyCallerInv, RefuseCall \/ Retry PROVE AnyCallerInv'
  <2>1. TypeOK'
    BY <1>2 DEF RefuseCall, Retry, walVars, storeVars, ghostVars, AnyCallerInv, TypeOK
  <2> QED
    BY <1>2, <2>1, LogUntouchedKeeps DEF RefuseCall, Retry, walVars, ghostVars
<1> QED
  BY <1>1, <1>2

LEMMA ExecuteKeeps ==
  ASSUME AnyCallerInv, NEW w \in World, NEW shape, IsShape(shape), Execute(w, shape)
  PROVE  AnyCallerInv'
<1> DEFINE c == issued + 1
           b == Emitted(w, c, shape)
<1>1. /\ issued \in Nat /\ issued' = c /\ issued' \in 0..MaxCommands
      /\ world' = Applied(w, c, shape) /\ batch' = b /\ pc' = "append"
      /\ checkpoint' = world
      /\ UNCHANGED <<walVars, storeVars, saving, acked, refused>>
  BY BoundAssumption DEF AnyCallerInv, TypeOK, Execute
<1>2. c \in Nat /\ c > 0
  BY <1>1
<1>3. acked' \subseteq 1..issued' /\ refused' \subseteq 1..issued'
  BY <1>1 DEF AnyCallerInv, TypeOK
<1> HIDE DEF c
<1>4. /\ Len(shape) \in Nat \ {0}
      /\ Applied(w, c, shape) \in World
      /\ b \in Seq(Event) /\ Len(b) = Len(shape)
      /\ \A i \in 1..Len(shape) : b[i].cmd = c
  BY <1>2, ExecutedTypes
<1>5. \A i \in 1..Len(shape) : b[i].rem = Len(shape) - i
  BY DEF Emitted
<1> HIDE DEF b
<1>6. world' \in World /\ world' # NoWorld /\ batch' # << >>
  BY <1>1, <1>4, NoWorldAssumption, EmptySeq
<1>7. Whole(b)
  <2> SUFFICES ASSUME NEW i \in 1..Len(shape), Unfinished(b[i])
               PROVE  i < Len(shape) /\ Continues(b[i + 1], b[i])
    BY <1>4 DEF Whole
  <2>1. b[i].rem = Len(shape) - i /\ b[i].rem > 0
    BY <1>4, <1>5 DEF Unfinished
  <2>2. i < Len(shape) /\ i + 1 \in 1..Len(shape)
    BY <1>4, <2>1
  <2>3. b[i + 1].rem = b[i].rem - 1 /\ b[i + 1].cmd = b[i].cmd
    BY <1>4, <1>5, <2>1, <2>2
  <2>4. b[i + 1] # Torn
    <3>1. i + 1 \in 1..Len(b)
      BY <1>4, <2>2
    <3> QED
      BY <1>4, <3>1, ElementOfSeq, TornIsNoEvent
  <2> QED
    BY <2>2, <2>3, <2>4 DEF Continues
<1>8. TypeOK'
  BY <1>1, <1>3, <1>4, <1>6 DEF AnyCallerInv, TypeOK, walVars, storeVars
<1> QED
  BY <1>1, <1>2, <1>7, <1>8 DEF AnyCallerInv, BegunInv, InFlightInv, WholeInv, walVars

LEMMA CommandKeeps == AnyCallerInv /\ (CreateWorld \/ RunCommand) => AnyCallerInv'
<1>1. ASSUME AnyCallerInv, CreateWorld PROVE AnyCallerInv'
  <2>1. EmptyWorld \in World
    BY EmptySeq DEF EmptyWorld, World
  <2>2. IsShape(GenesisShape)
    BY DEF IsShape, GenesisShape
  <2> QED
    BY <1>1, <2>1, <2>2, ExecuteKeeps DEF CreateWorld
<1>2. ASSUME AnyCallerInv, RunCommand PROVE AnyCallerInv'
  <2>1. world \in World
    BY <1>2 DEF RunCommand, AnyCallerInv, TypeOK
  <2>2. PICK shape \in Shapes : Execute(world, shape)
    BY <1>2 DEF RunCommand
  <2> QED
    BY <1>2, <2>1, <2>2, ShapesAssumption, ExecuteKeeps
<1> QED
  BY <1>1, <1>2

LEMMA NumberedIsWhole ==
  ASSUME AnyCallerInv
  PROVE  Numbered(batch) \in Seq(Event) /\ Whole(Numbered(batch))
<1> DEFINE b == batch
           n == Numbered(batch)
<1>1. /\ b \in Seq(Event) /\ Whole(b) /\ Len(b) \in Nat
      /\ n \in Seq(Event) /\ Len(n) = Len(b)
      /\ \A i \in 1..Len(b) : n[i].cmd = b[i].cmd /\ n[i].rem = b[i].rem
  BY WalFacts, NumberedEvents, LenProperties
<1> HIDE DEF n, b
<1>2. \A i \in 1..Len(b) : b[i] # Torn /\ n[i] # Torn
  BY <1>1, ElementOfSeq, TornIsNoEvent
<1>3. Whole(n)
  <2> SUFFICES ASSUME NEW i \in 1..Len(b), Unfinished(n[i])
               PROVE  i < Len(b) /\ Continues(n[i + 1], n[i])
    BY <1>1 DEF Whole
  <2>1. Unfinished(b[i])
    BY <1>1, <1>2 DEF Unfinished
  <2>2. i < Len(b) /\ Continues(b[i + 1], b[i]) /\ i + 1 \in 1..Len(b)
    BY <1>1, <2>1 DEF Whole
  <2> QED
    BY <1>1, <1>2, <2>2 DEF Continues
<1> QED
  BY <1>1, <1>3 DEF n

LEMMA AppendRecordKeeps == AnyCallerInv /\ AppendRecord => AnyCallerInv'
<1> SUFFICES ASSUME AnyCallerInv, AppendRecord PROVE AnyCallerInv'
  OBVIOUS
<1> DEFINE f == Stem \o buf.recs
           n == Numbered(batch)
<1>1. f \in Seq(Cell) /\ Whole(f) /\ Len(file) <= Len(f) /\ Len(f) \in Nat
  BY EmptiedIsWhole, LenProperties
<1>2. n \in Seq(Cell) /\ Whole(n) /\ Len(n) \in Nat
  BY NumberedIsWhole, EventsAreCells, LenProperties
<1>3. /\ file' = f \o n /\ buf' = EmptyBuffer /\ synced' = synced
      /\ log' = [log EXCEPT !.open = TRUE]
      /\ pc = "append" /\ pc' = "sync" /\ dir' = TRUE
      /\ UNCHANGED <<snap, meta, kept, world, checkpoint, batch, saving,
                     issued, acked, refused>>
  BY DEF AppendRecord, WriteAndFlush, ghostVars
<1> HIDE DEF f, n
<1>4. file' \in Seq(Cell) /\ Whole(file') /\ Len(file') = Len(f) + Len(n)
  BY <1>1, <1>2, <1>3, WholeConcat
<1>5. Len(file) <= Len(file')
  BY <1>1, <1>2, <1>4, WalFacts
<1>6. WalKept
  BY <1>3, <1>4, <1>5, EmptiedKeeps
<1>7. log' \in [next : Nat \ {0}, total : Nat, open : BOOLEAN]
  BY <1>3, WalFacts
<1>8. TypeOK'
  BY <1>3, <1>6, <1>7 DEF WalKept, AnyCallerInv, TypeOK, Cell
<1> QED
  BY <1>3, <1>6, <1>8 DEF WalKept, AnyCallerInv, InFlightInv, WholeInv

LEMMA AcknowledgeKeeps == AnyCallerInv /\ Acknowledge => AnyCallerInv'
<1> SUFFICES ASSUME AnyCallerInv, Acknowledge PROVE AnyCallerInv'
  OBVIOUS
<1>1. /\ log' \in [next : Nat \ {0}, total : Nat, open : BOOLEAN]
  <2>1. Len(batch) \in Nat
    BY WalFacts, LenProperties
  <2>2. log' = [log EXCEPT !.next = log.next + Len(batch), !.total = log.total + Len(batch)]
    BY DEF Acknowledge, SyncAndNumber
  <2>3. log.next + Len(batch) \in Nat \ {0} /\ log.total + Len(batch) \in Nat
    BY <2>1, WalFacts
  <2> QED
    BY <2>2, <2>3, WalFacts
<1>2. /\ UNCHANGED <<file, buf, storeVars, world, saving, issued, refused>>
      /\ synced' = Len(file) /\ pc = "sync" /\ pc' = "idle"
      /\ acked' = acked \cup {issued} /\ checkpoint' = NoWorld /\ batch' = << >>
  BY DEF Acknowledge, SyncAndNumber
<1>3. acked' \subseteq 1..issued'
  BY <1>2, BoundAssumption DEF AnyCallerInv, InFlightInv, TypeOK
<1>4. TypeOK'
  BY <1>1, <1>2, <1>3, WalFacts, NothingIsWhole DEF AnyCallerInv, TypeOK, storeVars
<1> QED
  BY <1>2, <1>4, NothingIsWhole DEF AnyCallerInv, BegunInv, InFlightInv, WholeInv

\* A call that ends with an error, whatever it left in the file and the
\* buffer.
LEMMA RollBackKeeps ==
  ASSUME AnyCallerInv, pc \in {"append", "sync"}, RollBack, WalKept,
         UNCHANGED <<snap, meta, kept>>, dir' \in BOOLEAN,
         log' \in [next : Nat \ {0}, total : Nat, open : BOOLEAN]
  PROVE  AnyCallerInv'
<1>1. /\ world' = checkpoint /\ checkpoint' = NoWorld /\ batch' = << >>
      /\ refused' = refused \cup {issued} /\ pc' = "failed"
      /\ UNCHANGED <<saving, issued, acked>>
  BY DEF RollBack
<1>2. refused' \subseteq 1..issued'
  BY <1>1, BoundAssumption DEF AnyCallerInv, InFlightInv, TypeOK
<1>3. TypeOK'
  BY <1>1, <1>2, NothingIsWhole DEF WalKept, AnyCallerInv, TypeOK, Cell
<1> QED
  BY <1>1, <1>3, NothingIsWhole DEF WalKept, AnyCallerInv, InFlightInv, WholeInv

LEMMA FailingKeeps == AnyCallerInv /\ (AppendFails \/ SyncFails) => AnyCallerInv'
<1>1. ASSUME AnyCallerInv, AppendFails PROVE AnyCallerInv'
  <2>1. WalKept /\ log' \in [next : Nat \ {0}, total : Nat, open : BOOLEAN]
    BY <1>1, NumberedIsWhole, WriteFailsKeeps DEF AppendFails
  <2>2. dir' \in BOOLEAN
    BY <1>1 DEF AppendFails, AnyCallerInv, TypeOK
  <2> QED
    BY <1>1, <2>1, <2>2, RollBackKeeps DEF AppendFails
<1>2. ASSUME AnyCallerInv, SyncFails PROVE AnyCallerInv'
  <2>1. UNCHANGED <<walVars, storeVars>> /\ RollBack /\ pc = "sync"
    BY <1>2 DEF SyncFails
  <2>2. WalKept
    BY <1>2, <2>1, WalFacts DEF WalKept, AnyCallerInv, BegunInv, TypeOK, walVars
  <2>3. dir' \in BOOLEAN /\ log' \in [next : Nat \ {0}, total : Nat, open : BOOLEAN]
    BY <1>2, <2>1 DEF AnyCallerInv, TypeOK, walVars, storeVars
  <2> QED
    BY <1>2, <2>1, <2>2, <2>3, RollBackKeeps DEF storeVars
<1> QED
  BY <1>1, <1>2

LEMMA SavingKeeps ==
  ASSUME AnyCallerInv, \/ BeginSave \/ SaveSync \/ WriteSnapshot \/ FinishSave \/ AbortSave
  PROVE  AnyCallerInv'
<1>1. CASE BeginSave
  <2>1. saving' \in World
    <3>1. /\ world \in World /\ log.next - 1 \in Nat
          /\ saving' = [world EXCEPT !.cursor = log.next - 1]
      BY <1>1 DEF BeginSave, AnyCallerInv, TypeOK
    <3> QED
      BY <3>1 DEF World
  <2>2. TypeOK'
    BY <1>1, <2>1, NoWorldAssumption
       DEF BeginSave, AnyCallerInv, TypeOK, walVars, storeVars, ghostVars
  <2> QED
    BY <1>1, <2>2, LogUntouchedKeeps DEF BeginSave, walVars, ghostVars
<1>2. CASE SaveSync
  <2>1. /\ pc = "saveSync" /\ pc' = "saveSnapshot"
        /\ UNCHANGED <<log, storeVars, world, checkpoint, batch, saving, ghostVars>>
    BY <1>2 DEF SaveSync, SyncLog, walVars
  <2>2. WalKept
    <3>1. CASE log.open
      <4>1. file' = Stem \o buf.recs /\ buf' = EmptyBuffer /\ synced' = Len(file')
        BY <1>2, <3>1 DEF SaveSync, SyncLog
      <4> QED
        BY <4>1, EmptiedIsWhole, EmptiedKeeps
    <3>2. CASE ~ log.open
      <4>1. UNCHANGED walVars
        BY <1>2, <3>2 DEF SaveSync, SyncLog
      <4> QED
        BY <4>1, WalFacts DEF WalKept, AnyCallerInv, BegunInv, TypeOK, walVars
    <3> QED
      BY <3>1, <3>2
  <2>3. TypeOK'
    BY <2>1, <2>2 DEF WalKept, AnyCallerInv, TypeOK, storeVars, ghostVars, Cell
  <2> QED
    BY <2>1, <2>2, <2>3 DEF WalKept, AnyCallerInv, InFlightInv, WholeInv, ghostVars
<1>3. CASE WriteSnapshot
  <2>1. saving \in World /\ saving # NoWorld /\ world # NoWorld
    BY <1>3 DEF WriteSnapshot, AnyCallerInv, TypeOK
  <2>2. /\ dir' \in BOOLEAN /\ snap' \in World /\ meta' = meta /\ pc' = "saveMeta"
        /\ UNCHANGED <<walVars, world, checkpoint, batch, saving, ghostVars>>
    BY <1>3, <2>1 DEF WriteSnapshot, SaveSnapshot
  <2>3. kept' \subseteq Contents
    BY <1>3, <2>1, <2>2
       DEF WriteSnapshot, SaveSnapshot, DirectorySynced, Contents, AnyCallerInv, TypeOK
  <2>4. TypeOK'
    BY <2>1, <2>2, <2>3 DEF AnyCallerInv, TypeOK, walVars, ghostVars
  <2> QED
    BY <2>2, <2>4, LogUntouchedKeeps DEF walVars, ghostVars
<1>4. CASE FinishSave
  <2>1. saving \in World /\ MetaOf(saving) \in Meta
    BY <1>4 DEF FinishSave, AnyCallerInv, TypeOK, MetaOf, Meta, World
  <2>2. /\ dir' \in BOOLEAN /\ snap' = snap /\ meta' \in Meta /\ pc' = "idle"
        /\ world' \in World /\ saving' = NoWorld
        /\ UNCHANGED <<walVars, checkpoint, batch, ghostVars>>
    BY <1>4, <2>1 DEF FinishSave, SaveMeta
  <2>3. kept' \subseteq Contents
    BY <1>4, <2>1, <2>2
       DEF FinishSave, SaveMeta, DirectorySynced, Contents, AnyCallerInv, TypeOK
  <2>4. TypeOK'
    BY <2>2, <2>3 DEF AnyCallerInv, TypeOK, walVars, ghostVars
  <2> QED
    BY <2>2, <2>4, LogUntouchedKeeps DEF walVars, ghostVars
<1>5. CASE AbortSave
  <2>1. /\ pc' = "failed" /\ saving' = NoWorld
        /\ UNCHANGED <<synced, log, snap, meta, kept, world, checkpoint, batch, ghostVars>>
        /\ dir' \in BOOLEAN
    BY <1>5 DEF AbortSave, SyncLogFails, SaveFails, walVars, storeVars, AnyCallerInv, TypeOK
  <2>2. WalKept
    <3>1. CASE UNCHANGED walVars
      BY <3>1, WalFacts DEF WalKept, AnyCallerInv, BegunInv, TypeOK, walVars
    <3>2. CASE FlushStops(buf.recs)
      BY <2>1, <3>2, WalFacts, FlushStopsKeeps
    <3>3. CASE file' = Stem \o buf.recs /\ buf' = EmptyBuffer
      BY <2>1, <3>3, EmptiedIsWhole, EmptiedKeeps
    <3> QED
      BY <1>5, <3>1, <3>2, <3>3 DEF AbortSave, SyncLogFails
  <2>3. TypeOK'
    BY <2>1, <2>2 DEF WalKept, AnyCallerInv, TypeOK, ghostVars, Cell
  <2> QED
    BY <2>1, <2>2, <2>3 DEF WalKept, AnyCallerInv, InFlightInv, WholeInv, ghostVars
<1> QED
  BY <1>1, <1>2, <1>3, <1>4, <1>5

\* The ends of a process, whatever they make of the file.
LEMMA GoneKeeps ==
  ASSUME AnyCallerInv, Gone, Closed,
         dir' \in BOOLEAN, snap' \in World \cup {NoFile},
         meta' \in Meta \cup {NoFile}, kept' \subseteq Contents,
         file' \in Seq(Cell), Whole(file'), synced' \in 0..Len(file')
  PROVE  AnyCallerInv'
<1>1. /\ log' = [next |-> 1, total |-> 0, open |-> FALSE] /\ buf' = EmptyBuffer
      /\ pc' = "down" /\ world' = NoWorld /\ checkpoint' = NoWorld /\ saving' = NoWorld
      /\ batch' = << >> /\ UNCHANGED ghostVars
  BY DEF Gone, Closed
<1>2. TypeOK'
  BY <1>1, NothingIsWhole, EmptyBufferIsWhole DEF AnyCallerInv, TypeOK, ghostVars, Cell
<1> QED
  BY <1>1, <1>2, NothingIsWhole, EmptyBufferIsWhole
     DEF AnyCallerInv, BegunInv, InFlightInv, WholeInv

LEMMA StoreFacts ==
  ASSUME AnyCallerInv
  PROVE  /\ dir \in BOOLEAN /\ snap \in World \cup {NoFile}
         /\ meta \in Meta \cup {NoFile} /\ kept \subseteq Contents
BY DEF AnyCallerInv, TypeOK

LEMMA KillKeeps == AnyCallerInv /\ Kill => AnyCallerInv'
BY WalFacts, StoreFacts, GoneKeeps DEF Kill, KillLog, storeVars

LEMMA ExitKeeps == AnyCallerInv /\ Exit => AnyCallerInv'
<1> SUFFICES ASSUME AnyCallerInv, Exit PROVE AnyCallerInv'
  OBVIOUS
<1>1. Gone /\ Closed /\ synced' = synced /\ UNCHANGED storeVars
  BY DEF Exit, DropLog
<1>2. file' \in Seq(Cell) /\ Whole(file') /\ Len(file) <= Len(file') /\ Len(file') \in Nat
  <2>1. CASE file' = Stem \o buf.recs
    BY <2>1, EmptiedIsWhole, LenProperties
  <2>2. ASSUME NEW k \in RecordEnds(buf.recs) \ {Len(buf.recs)}, NEW torn \in BOOLEAN,
               file' = FlushedTo(buf.recs, k, torn)
        PROVE  file' \in Seq(Cell) /\ Whole(file') /\ Len(file) <= Len(file')
               /\ Len(file') \in Nat
    BY <2>2, WalFacts, StoppedIsWhole
  <2> QED
    BY <2>1, <2>2 DEF Exit, DropLog
<1>3. synced' \in 0..Len(file')
  BY <1>1, <1>2, WalFacts
<1> QED
  BY <1>1, <1>2, <1>3, StoreFacts, GoneKeeps DEF storeVars

LEMMA PowerLossKeeps == AnyCallerInv /\ PowerLoss => AnyCallerInv'
<1> SUFFICES ASSUME AnyCallerInv, PowerLoss PROVE AnyCallerInv'
  OBVIOUS
<1>1. PICK k \in RecordEnds(file), torn \in BOOLEAN :
        file' = SubSeq(file, 1, k) \o (IF torn THEN <<Torn>> ELSE << >>)
  BY DEF PowerLoss, CutPower
<1>2. Gone /\ Closed /\ synced' = Len(file')
  BY DEF PowerLoss, CutPower
<1>3. /\ dir' \in BOOLEAN /\ snap' \in World \cup {NoFile}
      /\ meta' \in Meta \cup {NoFile} /\ kept' \subseteq Contents
  <2>1. PICK d \in kept : snap' = d.snap /\ meta' = d.meta /\ kept' = {d} /\ dir' = dir
    BY DEF PowerLoss, RevertRenames
  <2>2. d \in Contents
    BY <2>1, StoreFacts
  <2> QED
    BY <2>1, <2>2, StoreFacts DEF Contents
<1> DEFINE h == SubSeq(file, 1, k)
<1>4. h \in Seq(Cell) /\ Whole(h)
  <2>1. k \in 0..Len(file) /\ (k = 0 \/ ~ Unfinished(file[k]))
    BY WalFacts, RecordEndsSplitNothing
  <2> QED
    BY <2>1, WalFacts, WholeCut
<1>5. file' = h \o (IF torn THEN <<Torn>> ELSE << >>)
  BY <1>1
<1> HIDE DEF h
<1>6. LET g == h \o (IF torn THEN <<Torn>> ELSE << >>)
      IN  g \in Seq(Cell) /\ Whole(g) /\ Len(g) \in Nat
  BY <1>4, TornIsWhole
<1>7. file' \in Seq(Cell) /\ Whole(file') /\ synced' \in 0..Len(file')
  BY <1>2, <1>5, <1>6
<1> QED
  BY <1>2, <1>3, <1>7, GoneKeeps

LEMMA NextKeeps ==
  ASSUME AnyCallerInv, [Next]_vars
  PROVE  AnyCallerInv'
<1>1. CASE Start
  BY <1>1, StartKeeps
<1>2. CASE LoadWorld \/ RefuseCall \/ Retry
  BY <1>2, ReadingKeeps
<1>3. CASE CreateWorld \/ RunCommand
  BY <1>3, CommandKeeps
<1>4. CASE AppendRecord
  BY <1>4, AppendRecordKeeps
<1>5. CASE Acknowledge
  BY <1>5, AcknowledgeKeeps
<1>6. CASE AppendFails \/ SyncFails
  BY <1>6, FailingKeeps
<1>7. CASE BeginSave \/ SaveSync \/ WriteSnapshot \/ FinishSave \/ AbortSave
  BY <1>7, SavingKeeps
<1>8. CASE Exit
  BY <1>8, ExitKeeps
<1>9. CASE Kill
  BY <1>9, KillKeeps
<1>10. CASE PowerLoss
  BY <1>10, PowerLossKeeps
<1>11. CASE UNCHANGED vars
  <2>1. TypeOK'
    BY <1>11 DEF AnyCallerInv, TypeOK, vars, walVars, storeVars, procVars, ghostVars
  <2> QED
    BY <1>11, <2>1, LogUntouchedKeeps DEF vars, walVars, procVars, ghostVars
<1> QED
  BY <1>1, <1>2, <1>3, <1>4, <1>5, <1>6, <1>7, <1>8, <1>9, <1>10, <1>11 DEF Next

-----------------------------------------------------------------------------
(***************************************************************************)
(* The variables keep their types, whatever the caller does after errors.  *)
(***************************************************************************)
THEOREM TypeCorrectForAnyCaller == Spec => []TypeOK
<1>1. AnyCallerInv => TypeOK
  BY DEF AnyCallerInv
<1>2. AnyCallerInv /\ [Next]_vars => AnyCallerInv'
  BY NextKeeps
<1> QED
  BY <1>1, <1>2, InitAnyCaller, PTL DEF Spec

\* The log as it stands is one of whole commands.
LEMMA LogIsWhole ==
  ASSUME AnyCallerInv
  PROVE  WholeCommands
<1>1. Wal \in Seq(Event) /\ Whole(Wal)
  BY WalFacts, ScanIsWhole DEF Wal
<1>2. Len(Wal) \in Nat /\ \A i \in 1..Len(Wal) : Wal[i] \in Event /\ Wal[i] # Torn
  BY <1>1, LenProperties, ElementOfSeq, TornIsNoEvent
<1>3. \A i \in 1..Len(Wal) :
        Wal[i].rem > 0 => i < Len(Wal) /\ Continues(Wal[i + 1], Wal[i])
  BY <1>1, <1>2 DEF Whole, Unfinished
<1>4. ASSUME Wal # << >> PROVE Wal[Len(Wal)].rem = 0
  <2>1. Len(Wal) \in 1..Len(Wal)
    BY <1>1, <1>4, EmptySeq
  <2>2. Wal[Len(Wal)].rem \in Nat /\ ~ (Wal[Len(Wal)].rem > 0)
    BY <1>2, <1>3, <2>1 DEF Event
  <2> QED
    BY <2>2
<1>5. ASSUME NEW i \in 1..(Len(Wal) - 1), Wal[i].rem > 0
      PROVE  Wal[i + 1].rem = Wal[i].rem - 1 /\ Wal[i + 1].cmd = Wal[i].cmd
  <2>1. i \in 1..Len(Wal)
    BY <1>2
  <2> QED
    BY <1>3, <1>5, <2>1 DEF Continues
<1> QED
  BY <1>4, <1>5 DEF WholeCommands

(***************************************************************************)
(* A reader of the log never finds part of a command: no failed write,     *)
(* kill, power cut, repair or retried command leaves one there, for        *)
(* batches of any shape.                                                   *)
(***************************************************************************)
THEOREM CommandsStayWhole == Spec => []WholeCommands
<1>1. AnyCallerInv => WholeCommands
  BY LogIsWhole
<1>2. AnyCallerInv /\ [Next]_vars => AnyCallerInv'
  BY NextKeeps
<1> QED
  BY <1>1, <1>2, InitAnyCaller, PTL DEF Spec

-----------------------------------------------------------------------------
(***************************************************************************)
(* The history new begins with the history old.                            *)
(***************************************************************************)
Grown(old, new) == Len(old) <= Len(new) /\ \A i \in 1..Len(old) : new[i] = old[i]

(***************************************************************************)
(* The command in flight has not been acknowledged, and is all that the    *)
(* world has beyond the checkpoint; the world being saved is the live one. *)
(***************************************************************************)
EffectInv ==
  /\ pc \in {"append", "sync"} => issued \notin acked
  /\ pc \in {"append", "sync"} /\ checkpoint # NoWorld =>
       /\ Grown(checkpoint.hist, world.hist)
       /\ \A i \in (Len(checkpoint.hist) + 1)..Len(world.hist) : world.hist[i] = issued
  /\ pc \in {"saveSync", "saveSnapshot", "saveMeta"} => saving.hist = world.hist

(***************************************************************************)
(* Every world a process has in its hands begins with the snapshot, which  *)
(* no power cut undoes as long as every directory sync works.              *)
(***************************************************************************)
HeldInv ==
  /\ snap # NoFile => dir
  /\ ~DirectorySyncFails => kept = {[snap |-> snap, meta |-> meta]}
  /\ snap # NoFile /\ world # NoWorld => Grown(snap.hist, world.hist)
  /\ snap # NoFile /\ pc \in {"append", "sync"} /\ checkpoint # NoWorld =>
       Grown(snap.hist, checkpoint.hist)

-----------------------------------------------------------------------------
LEMMA GrownBy ==
  ASSUME NEW s \in Seq(Nat), NEW added \in Seq(Nat), NEW c,
         \A i \in 1..Len(added) : added[i] = c
  PROVE  /\ s \o added \in Seq(Nat) /\ Grown(s, s \o added)
         /\ \A i \in (Len(s) + 1)..Len(s \o added) : (s \o added)[i] = c
<1> DEFINE h == s \o added
<1>1. h \in Seq(Nat) /\ Len(h) = Len(s) + Len(added) /\ Len(s) \in Nat /\ Len(added) \in Nat
  BY ConcatProperties, LenProperties
<1>2. \A i \in 1..(Len(s) + Len(added)) :
        h[i] = IF i <= Len(s) THEN s[i] ELSE added[i - Len(s)]
  BY ConcatProperties
<1> HIDE DEF h
<1>3. Grown(s, h)
  BY <1>1, <1>2 DEF Grown
<1>4. \A i \in (Len(s) + 1)..Len(h) : h[i] = c
  <2> TAKE i \in (Len(s) + 1)..Len(h)
  <2>1. i \in 1..(Len(s) + Len(added)) /\ ~(i <= Len(s)) /\ i - Len(s) \in 1..Len(added)
    BY <1>1
  <2> QED
    BY <1>2, <2>1
<1> QED
  BY <1>1, <1>3, <1>4 DEF h

LEMMA GrownTwice ==
  ASSUME NEW r \in Seq(Nat), NEW s \in Seq(Nat), NEW t \in Seq(Nat), Grown(r, s), Grown(s, t)
  PROVE  Grown(r, t)
BY LenProperties DEF Grown

LEMMA GrownIsCut ==
  ASSUME NEW s \in Seq(Nat), NEW t \in Seq(Nat), Grown(s, t)
  PROVE  SubSeq(t, 1, Len(s)) = s
<1> DEFINE part == SubSeq(t, 1, Len(s))
<1>1. Len(s) \in Nat /\ Len(t) \in Nat /\ Len(s) <= Len(t)
  BY LenProperties DEF Grown
<1>2. \A i \in 1..Len(s) : t[i] \in Nat /\ t[i] = s[i]
  BY <1>1, ElementOfSeq DEF Grown
<1>3. part \in Seq(Nat) /\ Len(part) = Len(s) /\ \A i \in 1..Len(s) : part[i] = t[i]
  BY <1>1, <1>2, SubSeqProperties
<1> HIDE DEF part
<1>4. part = s
  BY <1>2, <1>3, SeqEqual
<1> QED
  BY <1>4 DEF part

LEMMA WorldHistories == \A w \in World : w.hist \in Seq(Nat) /\ Len(w.hist) \in Nat
BY LenProperties DEF World

(***************************************************************************)
(* The world of a command in flight.                                       *)
(***************************************************************************)
LEMMA ExecutedGrows ==
  ASSUME AnyCallerInv, NEW w \in World, NEW shape, IsShape(shape), Execute(w, shape)
  PROVE  /\ world'.hist \in Seq(Nat) /\ Grown(w.hist, world'.hist)
         /\ \A i \in (Len(w.hist) + 1)..Len(world'.hist) : world'.hist[i] = issued'
         /\ issued' \notin acked
<1>1. Len(shape) \in Nat /\ issued + 1 \in Nat /\ w.hist \in Seq(Nat)
  BY WorldHistories, LenProperties DEF IsShape, AnyCallerInv, TypeOK, BoundAssumption
<1>2. world'.hist = w.hist \o [i \in 1..Len(shape) |-> issued + 1] /\ issued' = issued + 1
  BY DEF Execute, Applied
<1>3. issued + 1 \notin acked
  BY BoundAssumption DEF AnyCallerInv, TypeOK
<1> DEFINE added == [i \in 1..Len(shape) |-> issued + 1]
<1>4. added \in Seq(Nat) /\ \A i \in 1..Len(added) : added[i] = issued + 1
  <2>1. added \in [1..Len(shape) -> Nat]
    BY <1>1
  <2>2. added \in Seq(Nat)
    BY <1>1, <2>1, SeqDef
  <2>3. DOMAIN added = 1..Len(shape) /\ DOMAIN added = 1..Len(added)
    BY <2>2, LenProperties
  <2> QED
    BY <2>2, <2>3
<1>5. world'.hist = w.hist \o added
  BY <1>2
<1>6. issued' = issued + 1
  BY <1>2
<1> DEFINE c == issued + 1
           h == w.hist \o added
<1> HIDE DEF added, c
<1>7. /\ h \in Seq(Nat) /\ Grown(w.hist, h)
      /\ \A i \in (Len(w.hist) + 1)..Len(h) : h[i] = c
  <2>1. \A i \in 1..Len(added) : added[i] = c
    BY <1>4 DEF c
  <2> QED
    BY <1>1, <1>4, <2>1, GrownBy
<1> HIDE DEF h
<1>8. world'.hist = h
  BY <1>5 DEF h
<1> QED
  BY <1>3, <1>6, <1>7, <1>8 DEF c

LEMMA InitEffect == Init => EffectInv
BY DEF Init, EffectInv

LEMMA CommandEffect ==
  ASSUME AnyCallerInv, CreateWorld \/ RunCommand
  PROVE  EffectInv'
<1>1. CASE CreateWorld
  BY <1>1, NoWorldAssumption DEF CreateWorld, Execute, EffectInv, AnyCallerInv, TypeOK
<1>2. CASE RunCommand
  <2>1. PICK shape \in Shapes : Execute(world, shape)
    BY <1>2 DEF RunCommand
  <2>2. world \in World /\ IsShape(shape)
    BY <1>2, ShapesAssumption DEF RunCommand, AnyCallerInv, TypeOK
  <2>3. checkpoint' = world /\ pc' = "append" /\ UNCHANGED acked
    BY <2>1 DEF Execute
  <2> QED
    BY <2>1, <2>2, <2>3, ExecutedGrows DEF EffectInv
<1> QED
  BY <1>1, <1>2

LEMMA NextEffect ==
  ASSUME AnyCallerInv, EffectInv, [Next]_vars
  PROVE  EffectInv'
<1>1. CASE CreateWorld \/ RunCommand
  BY <1>1, CommandEffect
<1>2. CASE AppendRecord
  BY <1>2 DEF AppendRecord, EffectInv, ghostVars
<1>3. CASE BeginSave
  BY <1>3 DEF BeginSave, EffectInv
<1>4. CASE SaveSync \/ WriteSnapshot
  BY <1>4 DEF SaveSync, WriteSnapshot, EffectInv, ghostVars
<1>5. CASE UNCHANGED vars
  BY <1>5 DEF vars, procVars, ghostVars, EffectInv
<1>6. CASE pc' \notin {"append", "sync", "saveSync", "saveSnapshot", "saveMeta"}
  BY <1>6 DEF EffectInv
<1> QED
  BY <1>1, <1>2, <1>3, <1>4, <1>5, <1>6
     DEF Next, Start, LoadWorld, RefuseCall, Acknowledge, AppendFails, SyncFails, RollBack,
         FinishSave, AbortSave, Retry, Exit, Kill, PowerLoss, Gone

(***************************************************************************)
(* What the process would keep is disturbed by a load, by the end of the   *)
(* process and by an acknowledgement only.                                 *)
(***************************************************************************)
LEMMA ViewChanges ==
  ASSUME AnyCallerInv, EffectInv, [Next]_vars, ~LoadWorld, ~Acknowledge
  PROVE  View' = View \/ View' = NoWorld
<1>1. CASE Gone
  BY <1>1 DEF Gone, View
<1>2. CASE CreateWorld \/ RunCommand
  BY <1>2 DEF CreateWorld, RunCommand, Execute, View
<1>3. CASE AppendRecord
  BY <1>3 DEF AppendRecord, View
<1>4. CASE AppendFails \/ SyncFails
  BY <1>4 DEF AppendFails, SyncFails, RollBack, View
<1>5. CASE FinishSave
  <2>1. world # NoWorld /\ saving # NoWorld /\ saving.hist = world.hist
    BY <1>5 DEF FinishSave, AnyCallerInv, TypeOK, EffectInv
  <2> QED
    BY <1>5, <2>1 DEF FinishSave, View
<1>6. CASE Start \/ RefuseCall \/ BeginSave \/ SaveSync \/ WriteSnapshot \/ AbortSave \/ Retry
  BY <1>6 DEF Start, RefuseCall, BeginSave, SaveSync, WriteSnapshot, AbortSave, Retry, View
<1>7. CASE UNCHANGED vars
  BY <1>7 DEF vars, procVars, View
<1> QED
  BY <1>1, <1>2, <1>3, <1>4, <1>5, <1>6, <1>7 DEF Next, Exit, Kill, PowerLoss

(***************************************************************************)
(* Until the caller loads it anew, a world changes only by the command     *)
(* that is acknowledged in that step: whatever failed before, whatever is  *)
(* left in the BufWriter, and whatever the caller does after an error.     *)
(***************************************************************************)
THEOREM EffectsStayAcknowledged == Spec => EffectsAreAcknowledged
<1> DEFINE Step == /\ Len(View') >= Len(View)
                   /\ SubSeq(View', 1, Len(View)) = View
                   /\ \A i \in (Len(View) + 1)..Len(View') : View'[i] \in acked' \ acked
<1>1. ASSUME AnyCallerInv, EffectInv, [Next]_vars,
             View # NoWorld, View' # NoWorld, ~LoadWorld, View' # View
      PROVE  Step
  <2>1. Acknowledge
    BY <1>1, ViewChanges
  <2>2. /\ pc = "sync" /\ pc' = "idle" /\ UNCHANGED world
        /\ acked' = acked \cup {issued} /\ issued \notin acked
    BY <1>1, <2>1 DEF Acknowledge, EffectInv
  <2>3. /\ checkpoint # NoWorld /\ View = checkpoint.hist
        /\ world # NoWorld /\ View' = world.hist
    BY <1>1, <2>2 DEF View
  <2>4. checkpoint \in World /\ world \in World
    BY <1>1, <2>3 DEF AnyCallerInv, TypeOK
  <2>5. /\ Grown(View, View')
        /\ \A i \in (Len(View) + 1)..Len(View') : View'[i] = issued
    BY <1>1, <2>2, <2>3 DEF EffectInv
  <2>6. View \in Seq(Nat) /\ View' \in Seq(Nat)
    BY <2>3, <2>4, WorldHistories
  <2>7. SubSeq(View', 1, Len(View)) = View
    BY <2>5, <2>6, GrownIsCut
  <2> QED
    BY <2>2, <2>5, <2>6, <2>7, LenProperties DEF Grown
<1>2. AnyCallerInv /\ EffectInv /\ [Next]_vars
        => [View # NoWorld /\ View' # NoWorld /\ ~LoadWorld => Step]_View
  BY <1>1
<1>3. AnyCallerInv /\ EffectInv /\ [Next]_vars => AnyCallerInv' /\ EffectInv'
  BY NextKeeps, NextEffect
<1> QED
  BY <1>2, <1>3, InitAnyCaller, InitEffect, PTL DEF Spec, EffectsAreAcknowledged

-----------------------------------------------------------------------------
Durably == ~PowerLossPossible \/ ~DirectorySyncFails

LEMMA GrownAlready == \A s \in Seq(Nat) : Grown(s, s)
BY LenProperties DEF Grown

LEMMA InitHeld == Init => HeldInv
BY DEF Init, HeldInv

LEMMA SameStoreHeld ==
  ASSUME HeldInv, UNCHANGED <<snap, meta, kept>>, dir => dir',
         world' = NoWorld \/ UNCHANGED world,
         pc' \in {"append", "sync"} => pc \in {"append", "sync"} /\ UNCHANGED checkpoint
  PROVE  HeldInv'
BY DEF HeldInv

LEMMA LoadWorldHeld ==
  ASSUME AnyCallerInv, HeldInv, LoadWorld
  PROVE  HeldInv'
<1>1. UNCHANGED <<dir, snap, meta, kept>> /\ pc' = "idle" /\ world' = Replayed(Wal)
  BY DEF LoadWorld, storeVars, Wal
<1>2. snap \in World
  BY DEF LoadWorld, Recoverable, AnyCallerInv, TypeOK
<1> DEFINE later == Commands(SubSeq(Wal, snap.cursor + 1, Len(Wal)))
<1>3. snap.hist \in Seq(Nat) /\ later \in Seq(Nat)
  <2>1. Wal \in Seq(Event) /\ Len(Wal) \in Nat /\ snap.cursor \in Nat
    <3>1. Wal \in Seq(Event)
      BY WalFacts, ScanIsWhole DEF Wal
    <3> QED
      BY <1>2, <3>1, LenProperties DEF World
  <2>2. \A i \in (snap.cursor + 1)..Len(Wal) : Wal[i] \in Event
    BY <2>1, ElementOfSeq
  <2>3. SubSeq(Wal, snap.cursor + 1, Len(Wal)) \in Seq(Event)
    BY <2>1, <2>2, SubSeqProperties
  <2> QED
    BY <1>2, <2>3, CommandsType, WorldHistories
<1>4. world'.hist = snap.hist \o later
  BY <1>1 DEF Replayed
<1> HIDE DEF later
<1>5. Grown(snap.hist, snap.hist \o later)
  BY <1>3, ConcatProperties, LenProperties DEF Grown
<1> QED
  BY <1>1, <1>4, <1>5 DEF HeldInv

LEMMA CommandHeld ==
  ASSUME AnyCallerInv, HeldInv, CreateWorld \/ RunCommand
  PROVE  HeldInv'
<1>1. /\ UNCHANGED <<dir, snap, meta, kept>> /\ checkpoint' = world
  BY DEF CreateWorld, RunCommand, Execute, storeVars
<1>2. CASE CreateWorld
  <2>1. snap = NoFile
    BY <1>2 DEF CreateWorld, CreateAllowed, StorageStatus, HeldInv
  <2> QED
    BY <1>1, <2>1 DEF HeldInv
<1>3. CASE RunCommand
  <2>1. world \in World
    BY <1>3 DEF RunCommand, AnyCallerInv, TypeOK
  <2>2. world'.hist \in Seq(Nat) /\ Grown(world.hist, world'.hist)
    BY <1>3, <2>1, ShapesAssumption, ExecutedGrows DEF RunCommand
  <2>3. snap # NoFile => /\ snap.hist \in Seq(Nat) /\ world.hist \in Seq(Nat)
                         /\ Grown(snap.hist, world.hist)
    BY <1>3, <2>1, WorldHistories DEF RunCommand, AnyCallerInv, TypeOK, HeldInv
  <2>4. snap # NoFile => Grown(snap.hist, world'.hist)
    BY <2>2, <2>3, GrownTwice
  <2> QED
    BY <1>1, <2>3, <2>4 DEF HeldInv
<1> QED
  BY <1>2, <1>3

LEMMA RollBackHeld ==
  ASSUME HeldInv, AppendFails \/ SyncFails
  PROVE  HeldInv'
BY DEF HeldInv, AppendFails, SyncFails, RollBack, storeVars

LEMMA SaveHeld ==
  ASSUME AnyCallerInv, EffectInv, HeldInv, WriteSnapshot \/ FinishSave
  PROVE  HeldInv'
<1>1. /\ world \in World /\ saving \in World /\ saving.hist = world.hist
      /\ world.hist \in Seq(Nat) /\ pc' \in {"saveMeta", "idle"} /\ dir'
  BY WorldHistories
     DEF WriteSnapshot, FinishSave, SaveSnapshot, SaveMeta, AnyCallerInv, TypeOK, EffectInv
<1>2. ~DirectorySyncFails => kept' = {[snap |-> snap', meta |-> meta']}
  BY DEF WriteSnapshot, FinishSave, SaveSnapshot, SaveMeta, DirectorySynced
<1>3. CASE WriteSnapshot
  <2>1. snap' = saving /\ UNCHANGED world
    BY <1>3 DEF WriteSnapshot, SaveSnapshot
  <2>2. Grown(snap'.hist, world'.hist)
    BY <1>1, <2>1, GrownAlready
  <2> QED
    BY <1>1, <1>2, <2>2 DEF HeldInv
<1>4. CASE FinishSave
  <2>1. world' = saving /\ UNCHANGED snap
    BY <1>4 DEF FinishSave, SaveMeta
  <2>2. snap # NoFile => Grown(snap.hist, world.hist)
    BY <1>1, NoWorldAssumption DEF HeldInv
  <2> QED
    BY <1>1, <1>2, <2>1, <2>2 DEF HeldInv
<1> QED
  BY <1>3, <1>4

LEMMA PowerLossHeld ==
  ASSUME Durably, HeldInv, PowerLoss
  PROVE  HeldInv' /\ snap' = snap
<1>1. kept = {[snap |-> snap, meta |-> meta]}
  BY DEF Durably, PowerLoss, HeldInv
<1>2. UNCHANGED <<dir, snap, meta>> /\ kept' = {[snap |-> snap, meta |-> meta]}
  BY <1>1 DEF PowerLoss, RevertRenames
<1> QED
  BY <1>2 DEF HeldInv, PowerLoss, Gone

LEMMA NextHeld ==
  ASSUME Durably, AnyCallerInv, EffectInv, HeldInv, [Next]_vars
  PROVE  HeldInv'
<1>1. CASE LoadWorld
  BY <1>1, LoadWorldHeld
<1>2. CASE CreateWorld \/ RunCommand
  BY <1>2, CommandHeld
<1>3. CASE AppendFails \/ SyncFails
  BY <1>3, RollBackHeld
<1>4. CASE WriteSnapshot \/ FinishSave
  BY <1>4, SaveHeld
<1>5. CASE PowerLoss
  BY <1>5, PowerLossHeld
<1>6. CASE Start \/ RefuseCall \/ Acknowledge \/ BeginSave \/ SaveSync \/ Retry
  BY <1>6, SameStoreHeld
     DEF Start, RefuseCall, Acknowledge, BeginSave, SaveSync, Retry, storeVars
<1>7. CASE AppendRecord
  BY <1>7, SameStoreHeld DEF AppendRecord
<1>8. CASE AbortSave
  <2>1. UNCHANGED <<snap, meta, kept, world, checkpoint>> /\ dir' \in {dir, TRUE}
    BY <1>8 DEF AbortSave, SaveFails, storeVars
  <2>2. dir => dir'
    BY <2>1
  <2>3. pc' = "failed"
    BY <1>8 DEF AbortSave
  <2> QED
    BY <2>1, <2>2, <2>3, SameStoreHeld
<1>9. CASE Exit \/ Kill
  BY <1>9, SameStoreHeld DEF Exit, Kill, Gone, storeVars
<1>10. CASE UNCHANGED vars
  BY <1>10, SameStoreHeld DEF vars, storeVars, procVars
<1> QED
  BY <1>1, <1>2, <1>3, <1>4, <1>5, <1>6, <1>7, <1>8, <1>9, <1>10 DEF Next

(***************************************************************************)
(* No save and no creation discards what a snapshot held, whatever the     *)
(* caller does after errors; nor does a power cut, as long as the sync of  *)
(* the directory works after each rename.                                  *)
(***************************************************************************)
THEOREM SnapshotsExtendForAnyCaller ==
  ASSUME ~PowerLossPossible \/ ~DirectorySyncFails
  PROVE  Spec => SnapshotsExtend
<1> DEFINE Extended == /\ snap' # NoFile
                       /\ Len(snap'.hist) >= Len(snap.hist)
                       /\ SubSeq(snap'.hist, 1, Len(snap.hist)) = snap.hist
<1>1. ASSUME AnyCallerInv, EffectInv, HeldInv, [Next]_vars, snap # NoFile, snap' # snap
      PROVE  Extended
  <2>1. ~PowerLoss
    BY <1>1, PowerLossHeld DEF Durably
  <2>2. WriteSnapshot
    BY <1>1, <2>1 DEF Next, vars, storeVars, walVars, Start, LoadWorld, RefuseCall, CreateWorld,
       RunCommand, Execute, AppendRecord, Acknowledge, AppendFails, SyncFails, BeginSave,
       SaveSync, FinishSave, SaveMeta, AbortSave, SaveFails, Retry, Exit, Kill
  <2>3. /\ snap' = saving /\ world # NoWorld /\ saving.hist = world.hist
        /\ saving \in World /\ snap \in World
    BY <1>1, <2>2 DEF WriteSnapshot, SaveSnapshot, AnyCallerInv, TypeOK, EffectInv
  <2>4. Grown(snap.hist, snap'.hist)
    BY <1>1, <2>3 DEF HeldInv
  <2>5. /\ Len(snap'.hist) >= Len(snap.hist)
        /\ SubSeq(snap'.hist, 1, Len(snap.hist)) = snap.hist
    BY <2>3, <2>4, WorldHistories, GrownIsCut DEF Grown
  <2> QED
    BY <2>3, <2>5, NoFileAssumption
<1>2. AnyCallerInv /\ EffectInv /\ HeldInv /\ [Next]_vars => [snap # NoFile => Extended]_snap
  BY <1>1
<1>3. AnyCallerInv /\ EffectInv /\ HeldInv /\ [Next]_vars
        => AnyCallerInv' /\ EffectInv' /\ HeldInv'
  BY NextKeeps, NextEffect, NextHeld DEF Durably
<1> QED
  BY <1>2, <1>3, InitAnyCaller, InitEffect, InitHeld, PTL DEF Spec, SnapshotsExtend

=============================================================================
