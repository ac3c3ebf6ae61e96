--------------------------- MODULE Inspector_proofs ---------------------------
(***************************************************************************)
(* Proofs about the inspection tool beside a runtime that writes, fails,   *)
(* is killed and starts anew meanwhile, but whose machine keeps its power  *)
(* (a power cut would end the tool as well): whatever the tool shows is a  *)
(* state that the log went through.                                        *)
(***************************************************************************)
EXTENDS Inspector, Recovery_proofs

(***************************************************************************)
(* World w is what the first k events of the log make.                     *)
(***************************************************************************)
After(w, k) ==
  /\ w \in World /\ k \in 0..Len(Wal)
  /\ Len(w.hist) = k /\ w.tick = TickAt(k)
  /\ \A i \in 1..k : w.hist[i] = Wal[i].cmd

ScanStops == \E f \in Visible : ValidLen(f) < Len(f)

ToolTypes ==
  /\ at \in {"none", "open", "snapshot", "meta", "replay", "loaded", "counted",
             "list", "listed", "refused"}
  /\ query \in {"world", "events"}
  /\ seen \in [next : Nat, torn : BOOLEAN, snap : World \cup {NoFile},
               meta : Meta \cup {NoFile}]
  /\ shown \in [world : World \cup {NoWorld}, last : Nat, count : Nat,
                events : Seq(Event), from : Nat, limit : Nat]
  /\ began \in [acked : SUBSET Nat, quiet : BOOLEAN]

(***************************************************************************)
(* What was acknowledged before the tool began stays in the log; a         *)
(* snapshot stays a state that the log went through.                       *)
(***************************************************************************)
BeganInv == at # "none" => began.acked \subseteq {Wal[i].cmd : i \in 1..Len(Wal)}

SeenInv ==
  at \in {"meta", "replay"} => seen.snap # NoFile /\ After(seen.snap, seen.snap.cursor)

(***************************************************************************)
(* While the writer rests, the tool's picture of the files is theirs.      *)
(***************************************************************************)
QuietInv ==
  /\ at \in {"snapshot", "meta", "replay"} => query = "world"
  /\ began.quiet =>
       /\ at \in {"snapshot", "meta", "replay", "list"} /\ seen.torn => ScanStops
       /\ at \in {"snapshot", "meta", "replay"} => seen.next = Len(Wal) + 1
       /\ at \in {"meta", "replay"} => seen.snap = snap
       /\ at = "replay" => seen.meta = meta
       /\ at = "refused" => (query = "world" /\ snap = NoFile) \/ ScanStops

ShownInv ==
  /\ at \in {"loaded", "counted"} =>
       /\ After(shown.world, shown.last) /\ Covers(shown.last)
       /\ shown.world.cursor <= shown.last
  /\ at = "counted" => shown.count = 0 \/ shown.count \in shown.last..Len(Wal)

(***************************************************************************)
(* The listed events are the ones up to the k-th of the log.               *)
(***************************************************************************)
ListedUpTo(k) ==
  LET n == Len(shown.events)
  IN  /\ Covers(k) /\ n <= k
      /\ \A i \in 1..n : /\ shown.events[i] = Wal[k - n + i]
                         /\ shown.events[i].tick >= shown.from
      /\ n = shown.limit \/ n = k \/ Wal[k - n].tick < shown.from

ListedInv == at = "listed" => \E k \in 0..Len(Wal) : ListedUpTo(k)

ToolInv == ToolTypes /\ BeganInv /\ SeenInv /\ QuietInv /\ ShownInv /\ ListedInv

-----------------------------------------------------------------------------
(***************************************************************************)
(* What a process that reads the log beside the writer gets: the log as it *)
(* is, whatever piece of a record a write in flight has put after it.      *)
(***************************************************************************)
LEMMA CleanWithTorn ==
  ASSUME NEW f \in Seq(Event), IdsArePositions(f)
  PROVE  Valid(f \o <<Torn>>) = f /\ ValidLen(f \o <<Torn>>) = Len(f)
<1> DEFINE g == f \o <<Torn>>
<1>1. f \in Seq(Cell) /\ Len(f) \in Nat
  BY EventsAreCells, LenProperties
<1>2. Clean(f)
  BY ElementOfSeq, TornIsNoEvent DEF Clean
<1>3. /\ g \in Seq(Cell) /\ TornOnlyLast(g) /\ Len(g) = Len(f) + 1
      /\ g[Len(f) + 1] = Torn /\ \A i \in 1..Len(f) : g[i] = f[i]
  BY <1>1, <1>2, AppendTorn
<1> HIDE DEF g
<1>4. /\ ValidLen(g) \in 0..Len(g)
      /\ Valid(g) \in Seq(Event) /\ Len(Valid(g)) = ValidLen(g)
      /\ \A i \in 1..ValidLen(g) : Valid(g)[i] = g[i] /\ g[i] # Torn
      /\ \A i \in 1..Len(g) : g[i] # Torn => i <= ValidLen(g)
  BY <1>3, ValidPrefix
<1>5. ValidLen(g) <= Len(f)
  <2> SUFFICES ASSUME ~(ValidLen(g) <= Len(f)) PROVE FALSE
    OBVIOUS
  <2>1. Len(f) + 1 \in 1..ValidLen(g)
    BY <1>1, <1>3, <1>4
  <2> QED
    BY <1>3, <1>4, <2>1
<1>6. Len(f) <= ValidLen(g)
  <2>1. CASE Len(f) = 0
    BY <1>4, <2>1
  <2>2. CASE Len(f) # 0
    <3>1. Len(f) \in 1..Len(f) /\ Len(f) \in 1..Len(g)
      BY <1>1, <1>3, <2>2
    <3>2. g[Len(f)] # Torn
      BY <1>2, <1>3, <3>1 DEF Clean
    <3> QED
      BY <1>4, <3>1, <3>2
  <2> QED
    BY <2>1, <2>2
<1>7. ValidLen(g) = Len(f)
  BY <1>1, <1>4, <1>5, <1>6
<1>8. \A i \in 1..Len(f) : Valid(g)[i] = f[i]
  BY <1>3, <1>4, <1>7
<1>9. Valid(g) = f
  BY <1>4, <1>7, <1>8, SeqEqual
<1> QED
  BY <1>7, <1>9 DEF g

LEMMA VisibleReads ==
  ASSUME IInv, NEW f \in Visible
  PROVE  Valid(f) = Wal /\ ValidLen(f) = Len(Wal)
<1>1. CASE f = file
  BY <1>1, FileFacts, ValidPrefix DEF Wal
<1>2. CASE pc = "append" /\ f = Stem \o <<Torn>>
  <2>1. Stem = file /\ Wal = file /\ file \in Seq(Event)
    BY <1>2, EmptyBufferStem, CleanLogIsFile DEF Running
  <2>2. IdsArePositions(Stem)
    BY <2>1, FileFacts
  <2> QED
    BY <1>2, <2>1, <2>2, CleanWithTorn
<1>3. CASE buf.recs # << >> /\ f = Stem \o <<Torn>>
  <2>1. LeftoverFits
    <3>1. pc = "failed"
      BY <1>3, EmptyBufferStem
    <3> QED
      BY <3>1 DEF IInv, BufferInv
  <2>2. Wal = Stem /\ IdsArePositions(Stem)
    BY <1>3, <2>1, StemIsLog
  <2>3. Stem \in Seq(Event)
    BY <2>2, TickTypes
  <2> QED
    BY <1>3, <2>2, <2>3, CleanWithTorn
<1> QED
  BY <1>1, <1>2, <1>3 DEF Visible

(***************************************************************************)
(* What the writer does to the log: it only grows.                         *)
(***************************************************************************)
LEMMA GrownLog ==
  ASSUME IInv, IInv', WalGrows
  PROVE  /\ Len(Wal) \in Nat /\ Len(Wal)' \in Nat /\ Len(Wal) <= Len(Wal)'
         /\ \A i \in 1..Len(Wal) : i \in 1..Len(Wal)' /\ Wal'[i] = Wal[i]
         /\ \A n \in 0..Len(Wal) : n \in 0..Len(Wal)' /\ TickAt(n)' = TickAt(n)
<1>1. Len(Wal) \in Nat
  BY TickTypes
<1>2. Wal' \in Seq(Event) /\ Len(Wal') \in Nat
  BY NextFileFacts
<1> QED
  BY <1>1, <1>2 DEF WalGrows, TickAt

-----------------------------------------------------------------------------
(***************************************************************************)
(* A world that the log went through is recovered with the rest of it.     *)
(***************************************************************************)
LEMMA LogEnd ==
  ASSUME IInv
  PROVE  Contiguous(Wal) /\ LastId(Wal) = Len(Wal)
<1>1. Wal \in Seq(Event) /\ Contiguous(Wal)
  BY TickTypes, LogIsContiguous DEF WalContiguous
<1>2. CASE Wal = << >>
  BY <1>1, <1>2, EmptySeq DEF LastId
<1>3. CASE Wal # << >>
  <2>1. Len(Wal) \in DOMAIN Wal
    BY <1>1, <1>3, LenProperties, EmptySeq
  <2> QED
    BY <1>1, <1>3, <2>1 DEF LastId, Contiguous
<1> QED
  BY <1>1, <1>2, <1>3

LEMMA SnapshotIsAfter ==
  ASSUME RuntimeInv, ~PowerLossPossible, snap # NoFile
  PROVE  After(snap, snap.cursor)
<1>1. /\ RecoveryInv /\ DiskTicks /\ IInv /\ snap \in Snapshots /\ Covered(snap)
  BY DEF RuntimeInv, RecoveryInv, TickInv, SnapInv, CoverInv, Snapshots
<1>2. snap \in World /\ Len(snap.hist) = snap.cursor /\ Agrees(snap)
  BY <1>1, SnapshotFacts
<1>3. snap.cursor \in 0..Len(Wal)
  BY <1>1, SnapshotReached
<1>4. snap.tick = TickAt(snap.cursor)
  BY <1>1, <1>3 DEF DiskTicks, StandsAt
<1>5. ASSUME NEW i \in 1..snap.cursor PROVE snap.hist[i] = Wal[i].cmd
  <2>1. Len(Wal) \in Nat /\ i \in 1..Len(Wal)
    BY <1>1, <1>3, TickTypes
  <2>2. Wal[i] = file[i] /\ file[i] # Torn /\ i <= Len(file)
    BY <1>1, <2>1, WalIsPrefix, FileFacts
  <2> QED
    BY <1>2, <2>2 DEF Agrees
<1> QED
  BY <1>2, <1>3, <1>4, <1>5 DEF After

LEMMA AfterTicks ==
  ASSUME RuntimeInv, NEW w, NEW c, After(w, c)
  PROVE  TicksReplay(Wal, c, w.tick)
<1>1. Steady /\ Len(Wal) \in Nat /\ c \in Nat /\ w.tick = TickAt(c)
  BY TickTypes DEF RuntimeInv, RecoveryInv, TickInv, DiskTicks, After
<1> SUFFICES ASSUME NEW i \in (c + 1)..Len(Wal)
             PROVE  LET before == IF i = c + 1 THEN w.tick ELSE Wal[i - 1].tick
                    IN  Wal[i].tick \in {before, before + 1}
  BY DEF TicksReplay
<1>2. i \in 1..Len(Wal)
  BY <1>1
<1>3. Wal[i].tick \in {TickAt(i - 1), TickAt(i - 1) + 1}
  BY <1>1, <1>2 DEF Steady
<1>4. CASE i = c + 1
  <2>1. i - 1 = c
    BY <1>1, <1>4
  <2>2. w.tick = TickAt(i - 1)
    BY <1>1, <2>1
  <2> QED
    BY <1>3, <1>4, <2>2
<1>5. CASE i # c + 1
  <2>1. i - 1 # 0
    BY <1>1, <1>5
  <2> QED
    BY <1>3, <1>5, <2>1 DEF TickAt
<1> QED
  BY <1>4, <1>5

LEMMA AfterHistory ==
  ASSUME IInv, NEW w, NEW c, After(w, c)
  PROVE  LET h == w.hist \o Commands(SubSeq(Wal, c + 1, Len(Wal)))
         IN  /\ h \in Seq(Nat) /\ Len(h) = Len(Wal)
             /\ \A i \in 1..Len(Wal) : h[i] = Wal[i].cmd
             /\ h = Commands(Wal)
<1> DEFINE rest == SubSeq(Wal, c + 1, Len(Wal))
           h    == w.hist \o Commands(rest)
<1>1. /\ Wal \in Seq(Event) /\ Len(Wal) \in Nat /\ c \in 0..Len(Wal)
      /\ w.hist \in Seq(Nat) /\ Len(w.hist) = c
      /\ \A i \in 1..c : w.hist[i] = Wal[i].cmd
  BY TickTypes DEF After, World
<1>2. /\ rest \in Seq(Event) /\ Len(rest) = Len(Wal) - c
      /\ \A i \in 1..(Len(Wal) - c) : rest[i] = Wal[c + i]
  <2>1. \A i \in (c + 1)..Len(Wal) : Wal[i] \in Event
    BY <1>1, ElementOfSeq
  <2>2. /\ rest \in Seq(Event)
        /\ Len(rest) = IF c + 1 <= Len(Wal) THEN Len(Wal) - (c + 1) + 1 ELSE 0
        /\ \A i \in 1..(Len(Wal) - (c + 1) + 1) : rest[i] = Wal[(c + 1) + i - 1]
    BY <1>1, <2>1, SubSeqProperties
  <2> HIDE DEF rest
  <2>3. Len(rest) = Len(Wal) - c
    BY <1>1, <2>2
  <2>4. ASSUME NEW i \in 1..(Len(Wal) - c) PROVE rest[i] = Wal[c + i]
    <3>1. i \in 1..(Len(Wal) - (c + 1) + 1) /\ (c + 1) + i - 1 = c + i
      BY <1>1
    <3> QED
      BY <2>2, <3>1
  <2> QED
    BY <2>2, <2>3, <2>4
<1> HIDE DEF rest
<1>3. /\ Commands(rest) \in Seq(Nat) /\ Len(Commands(rest)) = Len(Wal) - c
      /\ \A i \in 1..(Len(Wal) - c) : Commands(rest)[i] = Wal[c + i].cmd
  BY <1>2, CommandsAt
<1>4. /\ h \in Seq(Nat) /\ Len(h) = Len(w.hist) + Len(Commands(rest))
      /\ \A i \in 1..(Len(w.hist) + Len(Commands(rest))) :
           h[i] = IF i <= Len(w.hist) THEN w.hist[i] ELSE Commands(rest)[i - Len(w.hist)]
  BY <1>1, <1>3, ConcatProperties
<1> HIDE DEF h
<1>5. Len(w.hist) + Len(Commands(rest)) = Len(Wal) /\ c \in Nat
  BY <1>1, <1>3
<1>6. ASSUME NEW i \in 1..Len(Wal) PROVE h[i] = Wal[i].cmd
  <2>1. CASE i <= c
    BY <1>1, <1>4, <1>5, <2>1
  <2>2. CASE ~(i <= c)
    <3>1. i - c \in 1..(Len(Wal) - c) /\ c + (i - c) = i
      BY <1>1, <1>5, <2>2
    <3> QED
      BY <1>1, <1>3, <1>4, <1>5, <2>2, <3>1
  <2> QED
    BY <2>1, <2>2
<1>7. h = Commands(Wal)
  <2>1. /\ Commands(Wal) \in Seq(Nat) /\ Len(Commands(Wal)) = Len(Wal)
        /\ \A i \in 1..Len(Wal) : Commands(Wal)[i] = Wal[i].cmd
    BY <1>1, CommandsAt
  <2>2. Len(h) = Len(Commands(Wal)) /\ \A i \in 1..Len(h) : h[i] = Commands(Wal)[i]
    BY <1>4, <1>5, <1>6, <2>1
  <2> QED
    BY <1>4, <2>1, <2>2, SeqEqual
<1> QED
  BY <1>4, <1>5, <1>6, <1>7 DEF h, rest

LEMMA AfterReplayed ==
  ASSUME RuntimeInv, NEW w, NEW c, After(w, c), w.cursor \in Nat,
         NEW v, v = [hist |-> v.hist, tick |-> v.tick, cursor |-> w.cursor],
         v.hist = w.hist \o Commands(SubSeq(Wal, c + 1, Len(Wal))),
         v.tick = IF Len(Wal) = c THEN w.tick ELSE Wal[Len(Wal)].tick
  PROVE  After(v, Len(Wal))
<1>1. IInv
  BY DEF RuntimeInv, RecoveryInv
<1>2. v.hist = w.hist \o Commands(SubSeq(Wal, c + 1, Len(Wal)))
  OBVIOUS
<1>3. /\ v.hist \in Seq(Nat) /\ Len(v.hist) = Len(Wal)
      /\ \A i \in 1..Len(Wal) : v.hist[i] = Wal[i].cmd
  BY <1>1, <1>2, AfterHistory
<1>4. Len(Wal) \in Nat /\ \A n \in 0..Len(Wal) : TickAt(n) \in Nat
  BY <1>1, TickTypes
<1>5. v.tick = TickAt(Len(Wal))
  <2>1. c \in 0..Len(Wal) /\ w.tick = TickAt(c)
    BY DEF After
  <2>2. CASE Len(Wal) = c
    BY <2>1, <2>2
  <2>3. CASE Len(Wal) # c
    BY <1>4, <2>1, <2>3 DEF TickAt
  <2> QED
    BY <2>2, <2>3
<1>6. Len(Wal) \in 0..Len(Wal)
  BY <1>4
<1>7. v.tick \in Nat
  BY <1>4, <1>5, <1>6
<1>8. v \in World
  <2>1. [hist |-> v.hist, tick |-> v.tick, cursor |-> w.cursor] \in World
    BY <1>3, <1>7 DEF World
  <2> QED
    BY <2>1
<1> QED
  BY <1>3, <1>5, <1>6, <1>8 DEF After

-----------------------------------------------------------------------------
(***************************************************************************)
(* What `events` prints.  The ticks of the log ascend, so that the filter  *)
(* keeps a tail of it, and the end of that is a tail again.                *)
(***************************************************************************)
LEMMA FromTickIsTail ==
  ASSUME NEW events \in Seq(Event), NEW from \in Nat, NEW m \in 0..Len(events),
         \A i \in 1..m : events[i].tick < from,
         \A i \in (m + 1)..Len(events) : events[i].tick >= from
  PROVE  FromTick(events, from) = SubSeq(events, m + 1, Len(events))
<1> DEFINE N == 0..Len(events)
           Step(f, i) ==
             IF i = 0 THEN << >>
             ELSE IF events[i].tick >= from THEN Append(f[i - 1], events[i])
             ELSE f[i - 1]
           tail == [i \in N |-> IF i <= m THEN << >> ELSE SubSeq(events, m + 1, i)]
           passed == CHOOSE f : f = [i \in N |-> Step(f, i)]
<1>1. Len(events) \in Nat /\ \A i \in 1..Len(events) : events[i] \in Event
  BY LenProperties, ElementOfSeq
<1>2. \A i \in N : tail[i] = IF i <= m THEN << >> ELSE SubSeq(events, m + 1, i)
  OBVIOUS
<1> HIDE DEF tail
<1>3. ASSUME NEW i \in N PROVE tail[i] = Step(tail, i)
  <2>1. CASE i = 0
    BY <1>1, <1>2, <2>1
  <2>2. CASE i # 0 /\ i <= m
    <3>1. i \in 1..m /\ i - 1 \in N /\ i - 1 <= m /\ i \in 1..Len(events)
      BY <1>1, <2>2
    <3>2. ~(events[i].tick >= from)
      <4>1. events[i].tick \in Nat
        BY <1>1, <3>1 DEF Event
      <4> QED
        BY <3>1, <4>1
    <3>3. tail[i] = << >> /\ tail[i - 1] = << >>
      BY <1>2, <2>2, <3>1
    <3> QED
      BY <2>2, <3>2, <3>3
  <2>3. CASE ~(i <= m)
    <3>1. i \in (m + 1)..Len(events) /\ i # 0 /\ i - 1 \in N
      BY <1>1, <2>3
    <3>2. tail[i] = SubSeq(events, m + 1, i) /\ events[i].tick >= from
      BY <1>2, <2>3, <3>1
    <3>3. SubSeq(events, m + 1, i) = SubSeq(events, m + 1, i - 1) \o << events[i] >>
      <4>1. m + 1 \in 1..Len(events) /\ i \in (m + 1)..Len(events)
        BY <1>1, <3>1
      <4> QED
        BY <4>1, SubSeqRecursiveSecond
    <3>4. tail[i - 1] = SubSeq(events, m + 1, i - 1)
      <4>1. CASE i - 1 <= m
        <5>1. i - 1 < m + 1 /\ i - 1 \in Int /\ m + 1 \in Int
          BY <1>1, <3>1, <4>1
        <5> QED
          BY <1>2, <3>1, <4>1, <5>1, SubSeqEmpty
      <4>2. CASE ~(i - 1 <= m)
        BY <1>2, <3>1, <4>2
      <4> QED
        BY <4>1, <4>2
    <3>5. SubSeq(events, m + 1, i - 1) \in Seq(Event)
      <4>1. \A j \in (m + 1)..(i - 1) : events[j] \in Event
        BY <1>1, <3>1
      <4> QED
        BY <1>1, <3>1, <4>1, SubSeqProperties
    <3>6. Append(tail[i - 1], events[i]) = tail[i - 1] \o << events[i] >>
      <4>1. events[i] \in Event
        BY <1>1, <3>1
      <4> QED
        BY <3>4, <3>5, <4>1, AppendIsConcat
    <3> QED
      BY <3>1, <3>2, <3>3, <3>4, <3>6
  <2> QED
    BY <2>1, <2>2, <2>3
<1>4. tail = [i \in N |-> Step(tail, i)]
  <2>1. tail = [i \in N |-> tail[i]]
    BY DEF tail
  <2> HIDE DEF tail, Step, N
  <2> QED
    BY <1>3, <2>1
<1>5. passed = [i \in N |-> Step(passed, i)]
  <2> HIDE DEF tail, Step, N
  <2> QED
    BY <1>4
<1>6. FromTick(events, from) = passed[Len(events)]
  BY DEF FromTick
<1> HIDE DEF passed
<1>7. \A i \in N : passed[i] = Step(passed, i)
  <2> HIDE DEF Step, N
  <2> QED
    BY <1>5
<1>8. ASSUME NEW j \in N PROVE passed[j] = tail[j]
  <2> SUFFICES ASSUME passed[j] # tail[j] PROVE FALSE
    OBVIOUS
  <2> DEFINE differ == {i \in N : passed[i] # tail[i]}
  <2>1. differ \in SUBSET Nat /\ differ # {}
    BY <1>1
  <2>2. PICK i \in differ : \A k \in differ : i <= k
    BY <2>1, LeastElement
  <2>3. i \in N /\ passed[i] # tail[i] /\ passed[i] = Step(passed, i) /\ tail[i] = Step(tail, i)
    BY <1>3, <1>7, <2>2
  <2>4. CASE i = 0
    BY <2>3, <2>4
  <2>5. CASE i # 0
    <3>1. i - 1 \in N /\ i - 1 \notin differ
      BY <1>1, <2>2, <2>5
    <3>2. passed[i - 1] = tail[i - 1]
      BY <3>1
    <3> QED
      BY <2>3, <3>2
  <2> QED
    BY <2>4, <2>5
<1>9. tail[Len(events)] = SubSeq(events, m + 1, Len(events))
  <2>1. CASE Len(events) <= m
    <3>1. Len(events) < m + 1 /\ m + 1 \in Int /\ Len(events) \in Int /\ Len(events) \in N
      BY <1>1, <2>1
    <3> QED
      BY <1>2, <2>1, <3>1, SubSeqEmpty
  <2>2. CASE ~(Len(events) <= m)
    <3>1. Len(events) \in N
      BY <1>1
    <3> QED
      BY <1>2, <2>2, <3>1
  <2> QED
    BY <2>1, <2>2
<1> QED
  BY <1>1, <1>6, <1>8, <1>9

LEMMA LastOfTail ==
  ASSUME NEW events \in Seq(Event), NEW m \in 0..Len(events), NEW n \in Nat
  PROVE  LET g == LastOf(SubSeq(events, m + 1, Len(events)), n)
             k == Len(events)
         IN  /\ g \in Seq(Event) /\ Len(g) \in Nat /\ Len(g) <= k - m
             /\ \A i \in 1..Len(g) : g[i] = events[k - Len(g) + i]
             /\ Len(g) = n \/ Len(g) = k - m
<1> DEFINE k == Len(events)
           t == SubSeq(events, m + 1, k)
           g == LastOf(t, n)
<1>1. k \in Nat /\ m \in 0..k /\ \A i \in 1..k : events[i] \in Event
  BY LenProperties, ElementOfSeq
<1>2. /\ t \in Seq(Event) /\ Len(t) = k - m
      /\ \A i \in 1..(k - m) : t[i] = events[m + i]
  <2>1. \A i \in (m + 1)..k : events[i] \in Event
    BY <1>1
  <2>2. /\ t \in Seq(Event) /\ Len(t) = IF m + 1 <= k THEN k - (m + 1) + 1 ELSE 0
        /\ \A i \in 1..(k - (m + 1) + 1) : t[i] = events[(m + 1) + i - 1]
    BY <1>1, <2>1, SubSeqProperties
  <2> HIDE DEF t, k
  <2>3. Len(t) = k - m
    BY <1>1, <2>2
  <2>4. ASSUME NEW i \in 1..(k - m) PROVE t[i] = events[m + i]
    <3>1. i \in 1..(k - (m + 1) + 1) /\ (m + 1) + i - 1 = m + i
      BY <1>1
    <3> QED
      BY <2>2, <3>1
  <2> QED
    BY <2>2, <2>3, <2>4
<1> HIDE DEF k, t
<1> DEFINE l == k - m
           a == IF n < l THEN l - n + 1 ELSE 1
<1>3. l \in Nat /\ a \in Nat \ {0} /\ a <= l + 1 /\ k = m + l
  BY <1>1
<1>4. g = SubSeq(t, a, l)
  BY <1>2 DEF LastOf
<1>5. (IF n < l THEN n ELSE l) = l - a + 1
  BY <1>3
<1>6. /\ g \in Seq(Event) /\ Len(g) = l - a + 1
      /\ \A i \in 1..(l - a + 1) : g[i] = t[a + i - 1]
  <2>1. \A i \in a..l : t[i] \in Event
    BY <1>2, <1>3, ElementOfSeq
  <2> HIDE DEF l, a, g
  <2>2. /\ SubSeq(t, a, l) \in Seq(Event)
        /\ Len(SubSeq(t, a, l)) = IF a <= l THEN l - a + 1 ELSE 0
        /\ \A i \in 1..(l - a + 1) : SubSeq(t, a, l)[i] = t[a + i - 1]
    BY <1>3, <2>1, SubSeqProperties
  <2> QED
    BY <1>3, <1>4, <2>2
<1> HIDE DEF g
<1>7. Len(g) \in Nat /\ Len(g) <= k - m /\ (Len(g) = n \/ Len(g) = k - m)
  BY <1>3, <1>5, <1>6
<1>8. ASSUME NEW i \in 1..Len(g) PROVE g[i] = events[k - Len(g) + i]
  <2>1. /\ i \in 1..(l - a + 1) /\ a + i - 1 \in 1..(k - m)
        /\ m + (a + i - 1) = k - Len(g) + i
    BY <1>1, <1>3, <1>6
  <2> QED
    BY <1>2, <1>6, <2>1
<1> QED
  BY <1>6, <1>7, <1>8 DEF g, t, k

LEMMA ListedEvents ==
  ASSUME IInv, Steady, NEW from \in Nat, NEW n \in Nat
  PROVE  LET g == LastOf(FromTick(Wal, from), n)
             k == Len(Wal)
         IN  /\ g \in Seq(Event) /\ Len(g) \in Nat /\ Len(g) <= k
             /\ \A i \in 1..Len(g) : g[i] = Wal[k - Len(g) + i] /\ g[i].tick >= from
             /\ Len(g) = n \/ Len(g) = k \/ Wal[k - Len(g)].tick < from
<1> DEFINE k == Len(Wal)
<1>1. Wal \in Seq(Event) /\ k \in Nat /\ \A i \in 1..k : Wal[i].tick \in Nat
  <2>1. Wal \in Seq(Event) /\ k \in Nat
    BY TickTypes
  <2>2. \A i \in 1..k : Wal[i] \in Event
    BY <2>1, ElementOfSeq
  <2> QED
    BY <2>1, <2>2 DEF Event
<1> HIDE DEF k
<1>2. PICK m \in 0..k : /\ \A i \in 1..m : Wal[i].tick < from
                        /\ \A i \in (m + 1)..k : Wal[i].tick >= from
  <2> DEFINE late == {i \in 1..k : Wal[i].tick >= from}
  <2>1. CASE late = {}
    <3>1. \A i \in 1..k : Wal[i].tick < from
      BY <1>1, <2>1
    <3>2. k \in 0..k /\ \A i \in (k + 1)..k : Wal[i].tick >= from
      BY <1>1
    <3> QED
      BY <3>1, <3>2
  <2>2. CASE late # {}
    <3>1. late \in SUBSET Nat
      OBVIOUS
    <3>2. PICK j \in late : \A i \in late : j <= i
      BY <2>2, <3>1, LeastElement
    <3>3. j \in 1..k /\ Wal[j].tick >= from
      BY <3>2
    <3>4. ASSUME NEW i \in 1..(j - 1) PROVE Wal[i].tick < from
      <4>1. i \in 1..k /\ i \notin late
        BY <1>1, <3>2, <3>3
      <4> QED
        BY <1>1, <4>1
    <3>5. ASSUME NEW i \in j..k PROVE Wal[i].tick >= from
      <4>1. i \in 1..k /\ i \in 0..k /\ j \in 0..k /\ j <= i /\ i # 0 /\ j # 0
        BY <1>1, <3>3
      <4>2. TickAt(j) <= TickAt(i)
        BY <4>1, TicksAscend DEF k
      <4>3. Wal[j].tick <= Wal[i].tick
        BY <4>1, <4>2 DEF TickAt
      <4> QED
        BY <1>1, <3>3, <4>1, <4>3
    <3>6. j - 1 \in 0..k /\ (j - 1) + 1 = j
      BY <1>1, <3>3
    <3> HIDE DEF late
    <3> QED
      BY <3>4, <3>5, <3>6
  <2> QED
    BY <2>1, <2>2
<1> DEFINE g == LastOf(FromTick(Wal, from), n)
<1>3. FromTick(Wal, from) = SubSeq(Wal, m + 1, k)
  BY <1>1, <1>2, FromTickIsTail DEF k
<1>4. /\ g \in Seq(Event) /\ Len(g) \in Nat /\ Len(g) <= k - m
      /\ \A i \in 1..Len(g) : g[i] = Wal[k - Len(g) + i]
      /\ Len(g) = n \/ Len(g) = k - m
  <2> DEFINE h == LastOf(SubSeq(Wal, m + 1, Len(Wal)), n)
  <2>1. m \in 0..Len(Wal)
    BY <1>2 DEF k
  <2>2. /\ h \in Seq(Event) /\ Len(h) \in Nat /\ Len(h) <= Len(Wal) - m
        /\ \A i \in 1..Len(h) : h[i] = Wal[Len(Wal) - Len(h) + i]
        /\ Len(h) = n \/ Len(h) = Len(Wal) - m
    BY <1>1, <2>1, LastOfTail
  <2>3. g = h
    BY <1>3 DEF k
  <2> HIDE DEF g, h
  <2> QED
    BY <2>2, <2>3 DEF k
<1> HIDE DEF g
<1>5. Len(g) <= k
  BY <1>1, <1>2, <1>4
<1>6. ASSUME NEW i \in 1..Len(g) PROVE g[i].tick >= from
  <2>1. k - Len(g) + i \in (m + 1)..k
    BY <1>1, <1>2, <1>4
  <2> QED
    BY <1>2, <1>4, <2>1
<1>7. Len(g) = n \/ Len(g) = k \/ Wal[k - Len(g)].tick < from
  <2>1. CASE Len(g) = k - m /\ m # 0
    <3>1. k - Len(g) = m /\ m \in 1..m
      BY <1>1, <1>2, <2>1
    <3> QED
      BY <1>2, <3>1
  <2>2. CASE m = 0 \/ Len(g) = n
    BY <1>1, <1>4, <2>2
  <2> QED
    BY <1>4, <2>1, <2>2
<1> QED
  BY <1>4, <1>5, <1>6, <1>7 DEF g, k

-----------------------------------------------------------------------------
(***************************************************************************)
(* meta.json tells a point of the log and its tick: nothing but a save     *)
(* writes it, and a save mirrors the snapshot it has just put in place.    *)
(***************************************************************************)
MetaStands ==
  meta # NoFile => meta.cursor <= Len(Wal) /\ meta.tick = TickAt(meta.cursor)

LEMMA NextMeta ==
  ASSUME ~RetryAfterError, ~PowerLossPossible, RuntimeInv, MetaStands, [Next]_vars
  PROVE  MetaStands'
<1>1. WalGrows /\ IInv /\ IInv' /\ meta \in Meta \cup {NoFile}
  BY NextGrows, NextRuntime DEF PowerLoss, RuntimeInv, RecoveryInv, IInv, TypeOK
<1>2. CASE FinishSave
  <2>1. /\ pc = "saveMeta" /\ meta' = MetaOf(saving) /\ UNCHANGED file
        /\ saving # NoWorld /\ saving \in World
    BY <1>1, <1>2 DEF FinishSave, SaveMeta, walVars, IInv, TypeOK
  <2>2. snap = saving /\ snap # NoFile
    BY <2>1, NoFileAssumption DEF RuntimeInv, TickInv, LiveTicks
  <2>3. saving.cursor \in 0..Len(Wal) /\ saving.tick = TickAt(saving.cursor)
    BY <2>2, SnapshotIsAfter DEF After
  <2>4. Wal' = Wal
    BY <2>1 DEF Wal
  <2>6. meta'.cursor = saving.cursor /\ meta'.tick = saving.tick
    BY <2>1 DEF MetaOf
  <2> QED
    BY <1>1, <2>3, <2>4, <2>6, TickTypes DEF MetaStands, TickAt
<1>3. CASE meta' = meta
  <2> SUFFICES ASSUME meta # NoFile
               PROVE  meta.cursor <= Len(Wal') /\ meta.tick = TickAt(meta.cursor)'
    BY <1>3 DEF MetaStands, TickAt
  <2>1. meta.cursor \in 0..Len(Wal) /\ meta.tick = TickAt(meta.cursor)
    BY <1>1, TickTypes DEF MetaStands, Meta
  <2>2. meta.cursor \in 0..Len(Wal)' /\ TickAt(meta.cursor)' = TickAt(meta.cursor)
    BY <1>1, <1>3, <2>1, GrownLog DEF TickAt
  <2> QED
    BY <1>1, <2>1, <2>2, NextFileFacts
<1>4. ~FinishSave => meta' = meta
  BY DEF Next, vars, storeVars, Start, LoadWorld, RefuseCall, CreateWorld, RunCommand, Execute,
         AppendRecord, Acknowledge, AppendFails, SyncFails, BeginSave, SaveSync,
         WriteSnapshot, SaveSnapshot, AbortSave, SaveFails, Retry, Exit, Kill, PowerLoss
<1> QED
  BY <1>2, <1>3, <1>4

(***************************************************************************)
(* The steps of the tool and of the writer.                                *)
(***************************************************************************)
InspectionInv == RuntimeInv /\ AnyCallerInv /\ ToolInv /\ MetaStands

LEMMA AfterGrows ==
  ASSUME IInv, IInv', WalGrows, NEW w, NEW k, After(w, k)
  PROVE  After(w, k)'
<1>1. /\ w \in World /\ k \in 0..Len(Wal) /\ Len(w.hist) = k /\ w.tick = TickAt(k)
      /\ \A i \in 1..k : w.hist[i] = Wal[i].cmd
  BY DEF After
<1>2. k \in 0..Len(Wal)' /\ TickAt(k)' = TickAt(k)
  BY <1>1, GrownLog
<1>3. ASSUME NEW i \in 1..k PROVE w.hist[i] = Wal'[i].cmd
  <2>1. i \in 1..Len(Wal)
    BY <1>1, GrownLog
  <2> QED
    BY <1>1, <2>1, GrownLog
<1> QED
  BY <1>1, <1>2, <1>3 DEF After

LEMMA CommandsStay ==
  ASSUME IInv, IInv', WalGrows, NEW k \in 0..Len(Wal)
  PROVE  {Wal[i].cmd : i \in 1..k} = {Wal'[i].cmd : i \in 1..k}
<1>1. \A i \in 1..k : Wal'[i] = Wal[i]
  BY GrownLog
<1> QED
  BY <1>1

LEMMA CoversGrows ==
  ASSUME IInv, IInv', WalGrows, NEW k \in 0..Len(Wal), Covers(k),
         began'.acked = began.acked
  PROVE  Covers(k)'
<1>1. k = 0 \/ Wal'[k].rem = 0
  <2>1. CASE k # 0
    <3>1. k \in 1..Len(Wal)
      BY <2>1, GrownLog
    <3>2. Wal'[k] = Wal[k]
      BY <3>1, GrownLog
    <3> QED
      BY <2>1, <3>2 DEF Covers
  <2> QED
    BY <2>1
<1>2. {Wal[i].cmd : i \in 1..k} = {Wal'[i].cmd : i \in 1..k}
  BY CommandsStay
<1> QED
  BY <1>1, <1>2 DEF Covers

LEMMA BeganGrows ==
  ASSUME IInv, IInv', WalGrows, BeganInv, at # "none", began'.acked = began.acked
  PROVE  BeganInv'
<1>1. began.acked \subseteq {Wal[i].cmd : i \in 1..Len(Wal)}
  BY DEF BeganInv
<1>2. Len(Wal) \in 0..Len(Wal)
  BY GrownLog
<1>3. {Wal[i].cmd : i \in 1..Len(Wal)} \subseteq {Wal'[i].cmd : i \in 1..Len(Wal)'}
  <2> SUFFICES ASSUME NEW i \in 1..Len(Wal)
               PROVE  Wal[i].cmd \in {Wal'[j].cmd : j \in 1..Len(Wal)'}
    OBVIOUS
  <2>1. i \in 1..Len(Wal)' /\ Wal'[i] = Wal[i]
    BY GrownLog
  <2> QED
    BY <2>1
<1> QED
  BY <1>1, <1>3 DEF BeganInv

LEMMA ShownGrows ==
  ASSUME IInv, IInv', WalGrows, ShownInv,
         UNCHANGED <<at, shown>>, began'.acked = began.acked
  PROVE  ShownInv'
<1>1. CASE at \notin {"loaded", "counted"}
  BY <1>1 DEF ShownInv
<1>2. CASE at \in {"loaded", "counted"}
  <2>1. PICK w, k : w = shown.world /\ k = shown.last
    OBVIOUS
  <2>2. /\ After(w, k) /\ Covers(k) /\ w.cursor <= k
        /\ at = "counted" => shown.count = 0 \/ shown.count \in k..Len(Wal)
    BY <1>2, <2>1 DEF ShownInv
  <2>3. k \in 0..Len(Wal)
    BY <2>2 DEF After
  <2>4. After(w, k)' /\ Covers(k)'
    BY <2>2, <2>3, AfterGrows, CoversGrows
  <2>5. shown'.world = w /\ shown'.last = k /\ shown'.count = shown.count
    BY <2>1
  <2>6. at = "counted" => shown.count = 0 \/ shown.count \in k..Len(Wal)'
    BY <2>2, <2>3, GrownLog
  <2>7. After(shown.world, shown.last)'
    BY <2>4, <2>5 DEF After
  <2>8. Covers(shown.last)'
    BY <2>4, <2>5 DEF Covers
  <2> QED
    BY <2>2, <2>5, <2>6, <2>7, <2>8 DEF ShownInv
<1> QED
  BY <1>1, <1>2

LEMMA SeenGrows ==
  ASSUME IInv, IInv', WalGrows, SeenInv, UNCHANGED <<at, seen>>
  PROVE  SeenInv'
<1>1. CASE at \notin {"meta", "replay"}
  BY <1>1 DEF SeenInv
<1>2. CASE at \in {"meta", "replay"}
  <2>1. PICK w, k : w = seen.snap /\ k = seen.snap.cursor
    OBVIOUS
  <2>2. After(w, k) /\ w # NoFile
    BY <1>2, <2>1 DEF SeenInv
  <2>3. After(w, k)'
    BY <2>2, AfterGrows
  <2>4. seen'.snap = w /\ seen'.snap.cursor = k
    BY <2>1
  <2>5. After(seen.snap, seen.snap.cursor)'
    BY <2>3, <2>4 DEF After
  <2> QED
    BY <2>2, <2>4, <2>5 DEF SeenInv
<1> QED
  BY <1>1, <1>2

LEMMA ListedGrows ==
  ASSUME IInv, IInv', WalGrows, ListedInv, ToolTypes,
         UNCHANGED <<at, shown>>, began'.acked = began.acked
  PROVE  ListedInv'
<1> SUFFICES ASSUME at = "listed" PROVE \E k \in 0..Len(Wal)' : ListedUpTo(k)'
  BY DEF ListedInv
<1>1. PICK k \in 0..Len(Wal) : ListedUpTo(k)
  BY DEF ListedInv
<1> DEFINE n == Len(shown.events)
<1>2. /\ Covers(k) /\ n <= k
      /\ \A i \in 1..n : /\ shown.events[i] = Wal[k - n + i]
                         /\ shown.events[i].tick >= shown.from
      /\ n = shown.limit \/ n = k \/ Wal[k - n].tick < shown.from
  BY <1>1 DEF ListedUpTo
<1>3. n \in Nat
  BY LenProperties DEF ToolTypes
<1>4. k \in 0..Len(Wal)' /\ Covers(k)'
  BY <1>2, GrownLog, CoversGrows
<1>5. ASSUME NEW i \in 1..n PROVE Wal'[k - n + i] = Wal[k - n + i]
  <2>1. k - n + i \in 1..Len(Wal)
    BY <1>2, <1>3, GrownLog
  <2> QED
    BY <2>1, GrownLog
<1>6. n = shown.limit \/ n = k \/ Wal'[k - n].tick < shown.from
  <2>1. CASE n # k
    <3>1. k - n \in 1..Len(Wal)
      BY <1>2, <1>3, <2>1, GrownLog
    <3>2. Wal'[k - n] = Wal[k - n]
      BY <3>1, GrownLog
    <3> QED
      BY <1>2, <2>1, <3>2
  <2> QED
    BY <2>1
<1>7. ListedUpTo(k)'
  BY <1>2, <1>4, <1>5, <1>6 DEF ListedUpTo
<1> QED
  BY <1>4, <1>7

LEMMA WriterKeepsTool ==
  ASSUME IInv, IInv', WalGrows, ToolInv,
         UNCHANGED <<at, query, seen, shown>>, began'.acked = began.acked,
         began' \in [acked : SUBSET Nat, quiet : BOOLEAN],
         began'.quiet => at = "none"
  PROVE  ToolInv'
<1>1. ToolTypes' /\ QuietInv'
  BY DEF ToolInv, ToolTypes, QuietInv
<1>2. BeganInv'
  <2>1. CASE at = "none"
    BY <2>1 DEF BeganInv
  <2>2. CASE at # "none"
    BY <2>2, BeganGrows DEF ToolInv
  <2> QED
    BY <2>1, <2>2
<1>3. SeenInv' /\ ShownInv' /\ ListedInv'
  BY SeenGrows, ShownGrows, ListedGrows DEF ToolInv
<1> QED
  BY <1>1, <1>2, <1>3 DEF ToolInv

\* The tool changes nothing.
LEMMA ToolLeavesFiles ==
  ASSUME IInv, UNCHANGED vars
  PROVE  /\ IInv' /\ Wal' = Wal /\ WalGrows
         /\ Visible' = Visible /\ ScanStops' = ScanStops
         /\ snap' = snap /\ meta' = meta /\ acked' = acked
<1>1. IInv'
  BY StutterIInv
<1>2. UNCHANGED <<file, buf, pc, snap, meta, acked>>
  BY DEF vars, walVars, storeVars, procVars, ghostVars
<1>3. Wal' = Wal /\ Visible' = Visible
  BY <1>2 DEF Wal, Visible, Stem
<1> QED
  BY <1>1, <1>2, <1>3, SameLogGrows DEF ScanStops

LEMMA AskKeeps ==
  ASSUME InspectionInv, Ask
  PROVE  ToolInv'
<1>1. /\ at' = "open" /\ query' \in {"world", "events"} /\ UNCHANGED <<vars, seen, shown>>
      /\ began' = [acked |-> acked, quiet |-> TRUE]
  BY DEF Ask
<1>2. IInv /\ ToolTypes
  BY DEF InspectionInv, RuntimeInv, RecoveryInv, ToolInv
<1>3. ToolTypes'
  <2>1. acked \in SUBSET Nat
    BY <1>2 DEF IInv, TypeOK
  <2> QED
    BY <1>1, <1>2, <2>1 DEF ToolTypes
<1>4. BeganInv'
  <2>1. acked \subseteq {Wal[i].cmd : i \in DOMAIN Wal}
    BY <1>2, AckedInLog DEF AckedDurable
  <2>2. DOMAIN Wal = 1..Len(Wal) /\ Wal' = Wal
    BY <1>1, <1>2, TickTypes, LenProperties, ToolLeavesFiles
  <2> QED
    BY <1>1, <2>1, <2>2 DEF BeganInv
<1> QED
  BY <1>1, <1>3, <1>4 DEF ToolInv, SeenInv, QuietInv, ShownInv, ListedInv

LEMMA LeaveKeeps ==
  ASSUME ToolInv, Leave
  PROVE  ToolInv'
<1>1. /\ at' = "none" /\ query' = "world" /\ seen' = Unread /\ shown' = NoAnswer
      /\ began' = [acked |-> {}, quiet |-> TRUE]
  BY DEF Leave
<1>2. ToolTypes'
  BY <1>1, EmptySeq DEF ToolTypes, Unread, NoAnswer
<1> QED
  BY <1>1, <1>2 DEF ToolInv, BeganInv, SeenInv, QuietInv, ShownInv, ListedInv

LEMMA OpenKeeps ==
  ASSUME InspectionInv, OpenReadOnly
  PROVE  ToolInv'
<1>1. /\ IInv /\ ToolInv /\ at = "open" /\ UNCHANGED <<vars, query, shown, began>>
      /\ at' = IF query = "events" THEN "list" ELSE "snapshot"
  BY DEF OpenReadOnly, InspectionInv, RuntimeInv, RecoveryInv
<1>2. /\ Wal' = Wal /\ WalGrows /\ IInv' /\ ScanStops' = ScanStops
  BY <1>1, ToolLeavesFiles
<1>3. PICK f \in Visible :
        seen' = [Unread EXCEPT !.next = LastId(Valid(f)) + 1, !.torn = ValidLen(f) < Len(f)]
  BY DEF OpenReadOnly
<1>4. LastId(Valid(f)) = Len(Wal) /\ Len(Wal) \in Nat
  BY <1>1, VisibleReads, LogEnd, TickTypes
<1>5. /\ seen'.next = Len(Wal) + 1 /\ seen'.torn \in BOOLEAN
      /\ seen'.torn => ScanStops
      /\ seen' \in [next : Nat, torn : BOOLEAN, snap : World \cup {NoFile},
                    meta : Meta \cup {NoFile}]
  <2> DEFINE torn == ValidLen(f) < Len(f)
  <2>1. torn \in BOOLEAN /\ (torn => ScanStops)
    BY DEF ScanStops
  <2>2. seen' = [Unread EXCEPT !.next = LastId(Valid(f)) + 1, !.torn = torn]
    BY <1>3
  <2> HIDE DEF torn
  <2>3. seen' = [next |-> Len(Wal) + 1, torn |-> torn, snap |-> NoFile, meta |-> NoFile]
    BY <1>4, <2>2 DEF Unread
  <2> QED
    BY <1>4, <2>1, <2>3
<1>6. ToolTypes'
  BY <1>1, <1>5 DEF ToolInv, ToolTypes
<1>7. BeganInv'
  BY <1>1, <1>2, BeganGrows DEF ToolInv
<1>8. QuietInv'
  <2>1. at' = "snapshot" => query' = "world"
    BY <1>1 DEF ToolInv, ToolTypes
  <2> QED
    BY <1>1, <1>2, <1>5, <2>1 DEF QuietInv
<1> QED
  BY <1>1, <1>6, <1>7, <1>8 DEF ToolInv, SeenInv, ShownInv, ListedInv

LEMMA ReadSnapshotKeeps ==
  ASSUME ~PowerLossPossible, InspectionInv, ReadSnapshot
  PROVE  ToolInv'
<1>1. /\ IInv /\ ToolInv /\ at = "snapshot" /\ UNCHANGED <<vars, query, shown, began>>
      /\ seen' = [seen EXCEPT !.snap = snap]
      /\ at' = IF snap = NoFile THEN "refused" ELSE "meta"
  BY DEF ReadSnapshot, InspectionInv, RuntimeInv, RecoveryInv
<1>2. /\ Wal' = Wal /\ WalGrows /\ IInv' /\ ScanStops' = ScanStops /\ snap' = snap
  BY <1>1, ToolLeavesFiles
<1>3. /\ seen'.next = seen.next /\ seen'.torn = seen.torn /\ seen'.snap = snap
      /\ seen' \in [next : Nat, torn : BOOLEAN, snap : World \cup {NoFile},
                    meta : Meta \cup {NoFile}]
  BY <1>1 DEF ToolInv, ToolTypes, IInv, TypeOK
<1>4. ToolTypes'
  BY <1>1, <1>3 DEF ToolInv, ToolTypes
<1>5. BeganInv'
  BY <1>1, <1>2, BeganGrows DEF ToolInv
<1>6. SeenInv'
  <2>1. CASE snap = NoFile
    BY <1>1, <2>1 DEF SeenInv
  <2>2. CASE snap # NoFile
    <3>1. After(snap, snap.cursor)
      BY <2>2, SnapshotIsAfter DEF InspectionInv
    <3>2. After(seen.snap, seen.snap.cursor)'
      BY <1>2, <1>3, <3>1 DEF After, TickAt
    <3> QED
      BY <1>3, <2>2, <3>2 DEF SeenInv
  <2> QED
    BY <2>1, <2>2
<1>7. QuietInv'
  BY <1>1, <1>2, <1>3 DEF ToolInv, QuietInv
<1> QED
  BY <1>1, <1>4, <1>5, <1>6, <1>7 DEF ToolInv, ShownInv, ListedInv

LEMMA ReadMetaKeeps ==
  ASSUME ~PowerLossPossible, InspectionInv, ReadMeta
  PROVE  ToolInv'
<1>1. /\ IInv /\ ToolInv /\ at = "meta" /\ UNCHANGED <<vars, query, shown, began>>
      /\ seen' = [seen EXCEPT !.meta = meta]
      /\ at' = IF Seen!MetaAcceptable' THEN "replay" ELSE "refused"
  BY DEF ReadMeta, InspectionInv, RuntimeInv, RecoveryInv
<1>2. /\ Wal' = Wal /\ WalGrows /\ IInv' /\ ScanStops' = ScanStops
      /\ snap' = snap /\ meta' = meta
  BY <1>1, ToolLeavesFiles
<1>3. /\ seen'.next = seen.next /\ seen'.torn = seen.torn
      /\ seen'.snap = seen.snap /\ seen'.meta = meta
      /\ seen' \in [next : Nat, torn : BOOLEAN, snap : World \cup {NoFile},
                    meta : Meta \cup {NoFile}]
  BY <1>1 DEF ToolInv, ToolTypes, IInv, TypeOK
<1>4. ToolTypes'
  BY <1>1, <1>3 DEF ToolInv, ToolTypes
<1>5. BeganInv'
  BY <1>1, <1>2, BeganGrows DEF ToolInv
<1>6. SeenInv'
  <2>1. seen.snap # NoFile /\ After(seen.snap, seen.snap.cursor)
    BY <1>1 DEF ToolInv, SeenInv
  <2>2. After(seen.snap, seen.snap.cursor)'
    BY <1>2, <1>3, <2>1 DEF After, TickAt
  <2> QED
    BY <1>3, <2>1, <2>2 DEF SeenInv
<1>7. ASSUME began.quiet PROVE at' = "replay"
  <2>1. seen'.snap = snap /\ seen'.meta = meta
    BY <1>1, <1>3, <1>7 DEF ToolInv, QuietInv
  <2>2. MetaAcceptable
    BY <1>1, MetaIsAcceptable DEF InspectionInv, RuntimeInv, TickInv, RenamesLast
  <2>3. Seen!MetaAcceptable'
    BY <2>1, <2>2 DEF MetaAcceptable, IsStaleMeta, MetaOf,
                      Seen!MetaAcceptable, Seen!IsStaleMeta, Seen!MetaOf
  <2> QED
    BY <1>1, <2>3
<1>8. QuietInv'
  <2>1. at' \in {"replay", "refused"}
    BY <1>1
  <2>2. query' = "world"
    BY <1>1 DEF ToolInv, QuietInv
  <2>3. ASSUME began'.quiet
        PROVE  /\ at' = "replay" /\ (seen'.torn => ScanStops')
               /\ seen'.next = Len(Wal)' + 1 /\ seen'.snap = snap' /\ seen'.meta = meta'
    BY <1>1, <1>2, <1>3, <1>7, <2>3 DEF ToolInv, QuietInv
  <2> QED
    BY <2>1, <2>2, <2>3 DEF QuietInv
<1> QED
  BY <1>1, <1>4, <1>5, <1>6, <1>8 DEF ToolInv, ShownInv, ListedInv

\* The whole log covers what was acknowledged when the tool began.
LEMMA LogCovers ==
  ASSUME InspectionInv, at # "none"
  PROVE  Covers(Len(Wal)) /\ Len(Wal) \in Nat
<1>1. IInv /\ AnyCallerInv /\ BeganInv
  BY DEF InspectionInv, RuntimeInv, RecoveryInv, ToolInv
<1>2. Wal \in Seq(Event) /\ Len(Wal) \in Nat
  BY <1>1, TickTypes
<1>3. Len(Wal) = 0 \/ Wal[Len(Wal)].rem = 0
  <2>1. CASE Wal = << >>
    BY <2>1, EmptySeq
  <2>2. CASE Wal # << >>
    BY <1>1, <2>2, LogIsWhole DEF WholeCommands
  <2> QED
    BY <2>1, <2>2
<1> QED
  BY <1>1, <1>2, <1>3 DEF Covers, BeganInv

\* Recovery with what the tool has read.
LEMMA SeenRecovers ==
  ASSUME InspectionInv, NEW s, s = seen.snap, s # NoFile, After(s, s.cursor), s.cursor \in Nat,
         Seen!MetaAcceptable
  PROVE  Seen!Recoverable(Wal, Len(Wal))
<1>1. IInv /\ RuntimeInv
  BY DEF InspectionInv, RuntimeInv, RecoveryInv
<1>2. Contiguous(Wal) /\ LastId(Wal) = Len(Wal) /\ TicksReplay(Wal, s.cursor, s.tick)
  BY <1>1, LogEnd, AfterTicks
<1>3. s.cursor \in 0..Len(Wal) /\ Len(Wal) \in Nat
  BY <1>1, TickTypes DEF After
<1>4. Seen!Contiguous(Wal) /\ Seen!LastId(Wal) = Len(Wal)
  BY <1>2 DEF Contiguous, LastId, Seen!Contiguous, Seen!LastId
<1>5. Seen!TicksReplay(Wal, seen.snap.cursor, seen.snap.tick)
  BY <1>2 DEF TicksReplay, Seen!TicksReplay
<1> QED
  BY <1>3, <1>4, <1>5 DEF Seen!Recoverable

LEMMA ReadAndReplayKeeps ==
  ASSUME ~PowerLossPossible, InspectionInv, ReadAndReplay
  PROVE  ToolInv'
<1>1. /\ IInv /\ ToolInv /\ RuntimeInv /\ at = "replay"
      /\ UNCHANGED <<vars, query, seen, began>>
  BY DEF ReadAndReplay, InspectionInv, RuntimeInv, RecoveryInv
<1>2. /\ Wal' = Wal /\ WalGrows /\ IInv' /\ ScanStops' = ScanStops
  BY <1>1, ToolLeavesFiles
<1>3. PICK s : s = seen.snap
  OBVIOUS
<1>4. /\ s # NoFile /\ After(s, s.cursor) /\ s \in World
      /\ s.cursor \in 0..Len(Wal) /\ s.cursor \in Nat /\ Len(Wal) \in Nat
  BY <1>1, <1>3, TickTypes DEF ToolInv, SeenInv, After, World
<1>5. BeganInv'
  BY <1>1, <1>2, BeganGrows DEF ToolInv
<1>6. LastId(Wal) = Len(Wal)
  BY <1>1, LogEnd
<1>7. \/ /\ at' = "loaded"
         /\ shown' = [NoAnswer EXCEPT !.world = Seen!Replayed(Wal), !.last = Len(Wal)]
      \/ /\ at' = "refused" /\ UNCHANGED shown
         /\ seen.torn \/ ~Seen!Recoverable(Wal, seen.next - 1)
  BY <1>1, <1>6, VisibleReads DEF ReadAndReplay
<1>8. CASE /\ at' = "loaded"
           /\ shown' = [NoAnswer EXCEPT !.world = Seen!Replayed(Wal), !.last = Len(Wal)]
  <2>1. PICK v : v = Seen!Replayed(Wal)
    OBVIOUS
  <2>2. v = [hist   |-> s.hist \o Commands(SubSeq(Wal, s.cursor + 1, Len(Wal))),
             tick   |-> IF Len(Wal) = s.cursor THEN s.tick ELSE Wal[Len(Wal)].tick,
             cursor |-> s.cursor]
    BY <1>3, <2>1 DEF Seen!Replayed, Seen!Commands, Commands
  <2>3. After(v, Len(Wal)) /\ v.cursor = s.cursor
    <3>1. /\ v = [hist |-> v.hist, tick |-> v.tick, cursor |-> s.cursor]
          /\ v.hist = s.hist \o Commands(SubSeq(Wal, s.cursor + 1, Len(Wal)))
          /\ v.tick = IF Len(Wal) = s.cursor THEN s.tick ELSE Wal[Len(Wal)].tick
      BY <2>2
    <3>2. After(v, Len(Wal))
      BY <1>1, <1>4, <3>1, AfterReplayed
    <3> QED
      BY <2>2, <3>2
  <2>4. v \in World
    BY <2>3 DEF After
  <2>5. /\ shown'.world = v /\ shown'.last = Len(Wal)
        /\ shown' \in [world : World \cup {NoWorld}, last : Nat, count : Nat,
                       events : Seq(Event), from : Nat, limit : Nat]
    BY <1>4, <1>8, <2>1, <2>4, EmptySeq DEF NoAnswer
  <2>6. ToolTypes'
    BY <1>1, <1>8, <2>5 DEF ToolInv, ToolTypes
  <2>7. After(shown.world, shown.last)'
    BY <1>2, <2>3, <2>5 DEF After, TickAt
  <2>8. Covers(shown.last)'
    <3>1. Covers(Len(Wal))
      BY <1>1, LogCovers
    <3> QED
      BY <1>1, <1>2, <2>5, <3>1 DEF Covers
  <2>9. shown'.world.cursor <= shown'.last
    BY <1>4, <2>3, <2>5
  <2> QED
    BY <1>5, <1>8, <2>6, <2>7, <2>8, <2>9 DEF ToolInv, SeenInv, QuietInv, ShownInv, ListedInv
<1>9. CASE /\ at' = "refused" /\ UNCHANGED shown
           /\ seen.torn \/ ~Seen!Recoverable(Wal, seen.next - 1)
  <2>1. ToolTypes'
    BY <1>1, <1>9 DEF ToolInv, ToolTypes
  <2>2. ASSUME began.quiet PROVE ScanStops
    <3>1. /\ seen.torn => ScanStops
          /\ seen.next = Len(Wal) + 1 /\ seen.snap = snap /\ seen.meta = meta
      BY <1>1, <2>2 DEF ToolInv, QuietInv
    <3>2. MetaAcceptable
      BY <1>1, MetaIsAcceptable DEF InspectionInv, RuntimeInv, TickInv, RenamesLast
    <3>3. Seen!MetaAcceptable
      BY <3>1, <3>2 DEF MetaAcceptable, IsStaleMeta, MetaOf,
                        Seen!MetaAcceptable, Seen!IsStaleMeta, Seen!MetaOf
    <3>4. Seen!Recoverable(Wal, Len(Wal))
      BY <1>3, <1>4, <3>3, SeenRecovers
    <3>5. seen.next - 1 = Len(Wal)
      BY <1>4, <3>1
    <3> QED
      BY <1>9, <3>1, <3>4, <3>5
  <2>3. QuietInv'
    BY <1>1, <1>2, <1>9, <2>2 DEF QuietInv
  <2> QED
    BY <1>5, <1>9, <2>1, <2>3 DEF ToolInv, SeenInv, ShownInv, ListedInv
<1> QED
  BY <1>7, <1>8, <1>9

LEMMA CountKeeps ==
  ASSUME InspectionInv, CountEvents
  PROVE  ToolInv'
<1>1. /\ IInv /\ ToolInv /\ at = "loaded" /\ at' = "counted"
      /\ UNCHANGED <<vars, query, seen, began>>
  BY DEF CountEvents, InspectionInv, RuntimeInv, RecoveryInv
<1>2. /\ Wal' = Wal /\ WalGrows /\ IInv' /\ Len(Wal) \in Nat
  BY <1>1, ToolLeavesFiles, TickTypes
<1>3. \E n \in {0, Len(Wal)} : shown' = [shown EXCEPT !.count = n]
  BY <1>1, VisibleReads DEF CountEvents
<1>4. /\ shown'.world = shown.world /\ shown'.last = shown.last
      /\ shown'.count \in {0, Len(Wal)}
      /\ shown' \in [world : World \cup {NoWorld}, last : Nat, count : Nat,
                     events : Seq(Event), from : Nat, limit : Nat]
  BY <1>1, <1>2, <1>3 DEF ToolInv, ToolTypes
<1>5. ToolTypes'
  BY <1>1, <1>4 DEF ToolInv, ToolTypes
<1>6. BeganInv'
  BY <1>1, <1>2, BeganGrows DEF ToolInv
<1>7. After(shown.world, shown.last) /\ Covers(shown.last) /\ shown.world.cursor <= shown.last
  BY <1>1 DEF ToolInv, ShownInv
<1>8. /\ After(shown.world, shown.last)' /\ Covers(shown.last)'
      /\ shown'.world.cursor <= shown'.last
  BY <1>1, <1>2, <1>4, <1>7 DEF After, TickAt, Covers
<1>9. shown'.count = 0 \/ shown'.count \in shown'.last..Len(Wal)'
  BY <1>2, <1>4, <1>7 DEF After
<1> QED
  BY <1>1, <1>5, <1>6, <1>8, <1>9 DEF ToolInv, SeenInv, QuietInv, ShownInv, ListedInv

LEMMA ListKeeps ==
  ASSUME InspectionInv, ListEvents
  PROVE  ToolInv'
<1>1. /\ IInv /\ ToolInv /\ at = "list" /\ UNCHANGED <<vars, query, seen, began>>
  BY DEF ListEvents, InspectionInv, RuntimeInv, RecoveryInv
<1>2. /\ Wal' = Wal /\ WalGrows /\ IInv' /\ Len(Wal) \in Nat /\ ScanStops' = ScanStops
  BY <1>1, ToolLeavesFiles, TickTypes
<1>3. BeganInv'
  BY <1>1, <1>2, BeganGrows DEF ToolInv
<1>4. CASE seen.torn
  <2>1. at' = "refused" /\ shown' = shown
    BY <1>4 DEF ListEvents
  <2>2. ToolTypes'
    BY <1>1, <2>1 DEF ToolInv, ToolTypes
  <2>3. QuietInv'
    BY <1>1, <1>2, <1>4, <2>1 DEF ToolInv, QuietInv
  <2> QED
    BY <1>3, <2>1, <2>2, <2>3 DEF ToolInv, SeenInv, ShownInv, ListedInv
<1>5. CASE ~seen.torn
  <2>1. PICK from \in FromTicks, n \in Counts :
          shown' = [NoAnswer EXCEPT !.events = LastOf(FromTick(Wal, from), n),
                                    !.from = from, !.limit = n]
    BY <1>1, <1>5, VisibleReads DEF ListEvents
  <2>2. from \in Nat /\ n \in Nat /\ at' = "listed"
    BY <1>5, InspectorAssumption DEF ListEvents
  <2> DEFINE g == LastOf(FromTick(Wal, from), n)
             k == Len(Wal)
  <2>3. /\ g \in Seq(Event) /\ Len(g) \in Nat /\ Len(g) <= k
        /\ \A i \in 1..Len(g) : g[i] = Wal[k - Len(g) + i] /\ g[i].tick >= from
        /\ Len(g) = n \/ Len(g) = k \/ Wal[k - Len(g)].tick < from
    BY <1>1, <2>2, ListedEvents DEF InspectionInv, RuntimeInv, TickInv, DiskTicks
  <2>4. shown' = [NoAnswer EXCEPT !.events = g, !.from = from, !.limit = n]
    BY <2>1
  <2> HIDE DEF g
  <2>5. /\ shown'.events = g /\ shown'.from = from /\ shown'.limit = n
        /\ shown' \in [world : World \cup {NoWorld}, last : Nat, count : Nat,
                       events : Seq(Event), from : Nat, limit : Nat]
    BY <2>2, <2>3, <2>4 DEF NoAnswer
  <2>6. ToolTypes'
    BY <1>1, <2>2, <2>5 DEF ToolInv, ToolTypes
  <2>7. Covers(k)'
    BY <1>1, <1>2, LogCovers DEF Covers
  <2>8. k \in 0..Len(Wal)' /\ k' = k
    BY <1>2
  <2> HIDE DEF k
  <2>9. \E j \in 0..Len(Wal)' : ListedUpTo(j)'
    <3> SUFFICES ListedUpTo(k)'
      BY <2>8
    <3> QED
      BY <1>2, <2>3, <2>5, <2>7, <2>8 DEF ListedUpTo
  <2> QED
    BY <1>3, <2>2, <2>6, <2>9 DEF ToolInv, SeenInv, QuietInv, ShownInv, ListedInv
<1> QED
  BY <1>4, <1>5

LEMMA InitInspection == IInit => InspectionInv
<1> SUFFICES ASSUME IInit PROVE InspectionInv
  OBVIOUS
<1>1. /\ Init /\ at = "none" /\ query = "world" /\ seen = Unread /\ shown = NoAnswer
      /\ began = [acked |-> {}, quiet |-> TRUE]
  BY DEF IInit
<1>2. ToolTypes
  BY <1>1, EmptySeq DEF ToolTypes, Unread, NoAnswer
<1>3. ToolInv
  BY <1>1, <1>2 DEF ToolInv, BeganInv, SeenInv, QuietInv, ShownInv, ListedInv
<1>4. MetaStands
  BY <1>1 DEF Init, MetaStands
<1> QED
  BY <1>1, <1>3, <1>4, InitRuntime, InitAnyCaller DEF InspectionInv

LEMMA StutterKeepsTool ==
  ASSUME IInv, ToolInv, UNCHANGED allVars
  PROVE  ToolInv'
<1>1. UNCHANGED <<vars, at, query, seen, shown, began>>
  BY DEF allVars, toolVars
<1>2. /\ Wal' = Wal /\ WalGrows /\ IInv' /\ ScanStops' = ScanStops
      /\ snap' = snap /\ meta' = meta
  BY <1>1, ToolLeavesFiles
<1>3. ToolTypes' /\ QuietInv'
  BY <1>1, <1>2 DEF ToolInv, ToolTypes, QuietInv
<1>4. BeganInv'
  BY <1>1, <1>2 DEF ToolInv, BeganInv
<1>5. SeenInv' /\ ShownInv' /\ ListedInv'
  BY <1>1, <1>2, SeenGrows, ShownGrows, ListedGrows DEF ToolInv
<1> QED
  BY <1>3, <1>4, <1>5 DEF ToolInv

LEMMA WriterKeeps ==
  ASSUME ~RetryAfterError, ~PowerLossPossible, InspectionInv, Writer
  PROVE  ToolInv'
<1>1. /\ Next /\ UNCHANGED <<at, query, seen, shown>>
      /\ began' = [began EXCEPT !.quiet = (at = "none")]
  BY DEF Writer
<1>2. /\ RuntimeInv /\ ToolInv /\ IInv
      /\ began \in [acked : SUBSET Nat, quiet : BOOLEAN]
  BY DEF InspectionInv, RuntimeInv, RecoveryInv, ToolInv, ToolTypes
<1>3. WalGrows /\ IInv'
  BY <1>1, <1>2, NextGrows, NextRuntime DEF PowerLoss
<1>4. /\ began'.acked = began.acked /\ began'.quiet = (at = "none")
      /\ began' \in [acked : SUBSET Nat, quiet : BOOLEAN]
  BY <1>1, <1>2
<1> QED
  BY <1>1, <1>2, <1>3, <1>4, WriterKeepsTool

LEMMA NextInspection ==
  ASSUME ~RetryAfterError, ~PowerLossPossible, InspectionInv, [INext]_allVars
  PROVE  InspectionInv'
<1>1. [Next]_vars
  BY DEF INext, Writer, Tool, Ask, OpenReadOnly, ReadSnapshot, ReadMeta, ReadAndReplay,
         CountEvents, ListEvents, Leave, allVars
<1>2. RuntimeInv' /\ AnyCallerInv' /\ MetaStands' /\ IInv
  BY <1>1, NextRuntime, NextKeeps, NextMeta DEF InspectionInv, RuntimeInv, RecoveryInv
<1>3. CASE Ask
  BY <1>2, <1>3, AskKeeps DEF InspectionInv
<1>4. CASE OpenReadOnly
  BY <1>2, <1>4, OpenKeeps DEF InspectionInv
<1>5. CASE ReadSnapshot
  BY <1>2, <1>5, ReadSnapshotKeeps DEF InspectionInv
<1>6. CASE ReadMeta
  BY <1>2, <1>6, ReadMetaKeeps DEF InspectionInv
<1>7. CASE ReadAndReplay
  BY <1>2, <1>7, ReadAndReplayKeeps DEF InspectionInv
<1>8. CASE CountEvents
  BY <1>2, <1>8, CountKeeps DEF InspectionInv
<1>9. CASE ListEvents
  BY <1>2, <1>9, ListKeeps DEF InspectionInv
<1>10. CASE Leave
  BY <1>2, <1>10, LeaveKeeps DEF InspectionInv
<1>11. CASE Writer
  BY <1>2, <1>11, WriterKeeps DEF InspectionInv
<1>12. CASE UNCHANGED allVars
  BY <1>2, <1>12, StutterKeepsTool DEF InspectionInv
<1> QED
  BY <1>3, <1>4, <1>5, <1>6, <1>7, <1>8, <1>9, <1>10, <1>11, <1>12 DEF INext, Tool

LEMMA InspectionInvariant ==
  ASSUME ~RetryAfterError, ~PowerLossPossible
  PROVE  ISpec => []InspectionInv
<1>1. InspectionInv /\ [INext]_allVars => InspectionInv'
  BY NextInspection
<1> QED
  BY <1>1, InitInspection, PTL DEF ISpec

-----------------------------------------------------------------------------
(***************************************************************************)
(* A world that status, dump, entity, entities or zones prints is one the  *)
(* log went through, made of whole commands, with everything that was      *)
(* acknowledged before the tool was started, although the tool reads the   *)
(* three files one after the other while the writer goes on, saves, fails  *)
(* or is killed.                                                           *)
(***************************************************************************)
THEOREM ShownWorldsHappened ==
  ASSUME ~RetryAfterError, ~PowerLossPossible
  PROVE  ISpec => []ShownWorldHappened
<1>1. InspectionInv => ShownWorldHappened
  <2> SUFFICES ASSUME InspectionInv, at \in {"loaded", "counted"}
               PROVE  \E k \in 0..Len(Wal) :
                        Covers(k) /\ shown.world.hist = Commands(SubSeq(Wal, 1, k))
    BY DEF ShownWorldHappened
  <2>1. PICK w, k : w = shown.world /\ k = shown.last
    OBVIOUS
  <2>2. IInv /\ After(w, k) /\ Covers(k)
    BY <2>1 DEF InspectionInv, RuntimeInv, RecoveryInv, ToolInv, ShownInv
  <2>3. /\ Wal \in Seq(Event) /\ Len(Wal) \in Nat /\ k \in 0..Len(Wal)
        /\ w.hist \in Seq(Nat) /\ Len(w.hist) = k
        /\ \A i \in 1..k : w.hist[i] = Wal[i].cmd
    BY <2>2, TickTypes DEF After, World
  <2> DEFINE p == SubSeq(Wal, 1, k)
  <2>4. p \in Seq(Event) /\ Len(p) = k /\ \A i \in 1..k : p[i] = Wal[i]
    <3>1. \A i \in 1..k : Wal[i] \in Event
      BY <2>3, ElementOfSeq
    <3> QED
      BY <2>3, <3>1, SubSeqProperties
  <2> HIDE DEF p
  <2>5. /\ Commands(p) \in Seq(Nat) /\ Len(Commands(p)) = k
        /\ \A i \in 1..k : Commands(p)[i] = p[i].cmd
    BY <2>4, CommandsAt
  <2>6. \A i \in 1..Len(w.hist) : w.hist[i] = Commands(p)[i]
    BY <2>3, <2>4, <2>5
  <2>7. w.hist = Commands(p)
    BY <2>3, <2>5, <2>6, SeqEqual
  <2> QED
    BY <2>1, <2>2, <2>3, <2>7 DEF p
<1> QED
  BY <1>1, InspectionInvariant, PTL

(***************************************************************************)
(* While nothing is written, the tool refuses only a world that has no     *)
(* snapshot and a log that ends in a piece of a record: neither an old     *)
(* meta file nor anything else that an interrupted save leaves stops it.   *)
(***************************************************************************)
THEOREM QuietInspectionsAnswer ==
  ASSUME ~RetryAfterError, ~PowerLossPossible
  PROVE  ISpec => []QuietInspectionAnswers
<1>1. InspectionInv => QuietInspectionAnswers
  BY DEF InspectionInv, ToolInv, QuietInv, QuietInspectionAnswers, ScanStops
<1> QED
  BY <1>1, InspectionInvariant, PTL

(***************************************************************************)
(* The number of events that status prints is never less than the world it *)
(* prints it beside has, although it opens the log once more to count, or  *)
(* it is 0, because that second open failed.                               *)
(***************************************************************************)
THEOREM CountsCoverWorlds ==
  ASSUME ~RetryAfterError, ~PowerLossPossible
  PROVE  ISpec => []CountCoversWorld
<1>1. InspectionInv => CountCoversWorld
  <2> SUFFICES ASSUME InspectionInv, at = "counted"
               PROVE  shown.count = 0 \/ shown.count \in Len(shown.world.hist)..Len(Wal)
    BY DEF CountCoversWorld
  <2>1. shown.count = 0 \/ shown.count \in shown.last..Len(Wal)
    BY DEF InspectionInv, ToolInv, ShownInv
  <2>2. Len(shown.world.hist) = shown.last
    BY DEF InspectionInv, ToolInv, ShownInv, After
  <2> QED
    BY <2>1, <2>2
<1> QED
  BY <1>1, InspectionInvariant, PTL

(***************************************************************************)
(* What dump prints can take the place of snapshot.json: with the log and  *)
(* the meta.json as they have become by then, recovery accepts it and      *)
(* gives the world of the whole log, unless a save of later events was     *)
(* finished since the tool read the log and its meta.json is still there;  *)
(* then, and only then, recovery refuses the dump.                         *)
(***************************************************************************)
THEOREM DumpsAreSaves ==
  ASSUME ~RetryAfterError, ~PowerLossPossible
  PROVE  ISpec => []DumpIsASave
<1>1. InspectionInv => DumpIsASave
  <2> SUFFICES ASSUME InspectionInv, at = "loaded"
               PROVE  /\ Restored!Recoverable(Wal, LastId(Wal)) <=>
                           (meta = NoFile \/ meta.cursor <= Dump.cursor)
                      /\ Restored!Replayed(Wal).hist = Commands(Wal)
    BY DEF DumpIsASave
  <2>1. IInv /\ RuntimeInv /\ Steady /\ MetaStands
    BY DEF InspectionInv, RuntimeInv, RecoveryInv, TickInv, DiskTicks
  <2>2. PICK w, k : w = shown.world /\ k = shown.last
    OBVIOUS
  <2>3. After(w, k) /\ w.cursor <= k
    BY <2>2 DEF InspectionInv, ToolInv, ShownInv
  <2>4. PICK d : d = Dumped(w, k)
    OBVIOUS
  <2>5. w \in World /\ k \in Nat /\ k \in 0..Len(Wal) /\ Len(Wal) \in Nat
    BY <2>1, <2>3, TickTypes DEF After
  <2>6. d \in World /\ d.hist = w.hist /\ d.tick = w.tick /\ d.cursor = k
    <3>1. CASE k > w.cursor
      BY <2>4, <2>5, <3>1 DEF Dumped, World
    <3>2. CASE ~(k > w.cursor)
      <4>1. w.cursor = k /\ d = w
        BY <2>3, <2>4, <2>5, <3>2 DEF Dumped, World
      <4> QED
        BY <2>5, <4>1
    <3> QED
      BY <3>1, <3>2
  <2>7. After(d, k) /\ d # NoFile /\ d.tick = TickAt(k)
    BY <2>3, <2>6, NoFileAssumption DEF After
  <2>8. Contiguous(Wal) /\ LastId(Wal) = Len(Wal) /\ TicksReplay(Wal, k, d.tick)
    BY <2>1, <2>7, LogEnd, AfterTicks
  <2>9. Dump = d
    BY <2>2, <2>4 DEF Dump
  <2>10. Restored!MetaAcceptable <=> (meta = NoFile \/ meta.cursor <= k)
    <3>1. Restored!MetaAcceptable <=>
            \/ meta = NoFile
            \/ meta = MetaOf(d)
            \/ meta.cursor < k /\ meta.tick <= d.tick
      BY <2>6, <2>9 DEF Restored!MetaAcceptable, Restored!IsStaleMeta, Restored!MetaOf, MetaOf
    <3>2. ASSUME meta # NoFile PROVE meta \in Meta /\ meta.tick = TickAt(meta.cursor)
                                     /\ meta.cursor \in 0..Len(Wal)
      BY <2>1, <2>5, <3>2 DEF IInv, TypeOK, Meta, MetaStands
    <3>3. ASSUME meta = MetaOf(d) PROVE meta.cursor = k
      BY <2>6, <3>3 DEF MetaOf
    <3>4. ASSUME meta # NoFile, meta.cursor = k PROVE meta = MetaOf(d)
      <4>1. meta.tick = d.tick
        BY <2>7, <3>2, <3>4
      <4> QED
        BY <2>6, <3>2, <3>4, <4>1 DEF MetaOf, Meta
    <3>5. ASSUME meta # NoFile, meta.cursor < k PROVE meta.tick <= d.tick
      BY <2>1, <2>5, <2>7, <3>2, <3>5, TicksAscend
    <3> QED
      BY <2>5, <3>1, <3>2, <3>3, <3>4, <3>5
  <2>11. Restored!Recoverable(Wal, LastId(Wal)) <=> (meta = NoFile \/ meta.cursor <= Dump.cursor)
    <3>1. Restored!Contiguous(Wal) /\ Restored!LastId(Wal) = Len(Wal)
      BY <2>8 DEF Contiguous, LastId, Restored!Contiguous, Restored!LastId
    <3>2. Restored!TicksReplay(Wal, d.cursor, d.tick)
      BY <2>6, <2>8 DEF TicksReplay, Restored!TicksReplay
    <3> QED
      BY <2>5, <2>6, <2>7, <2>8, <2>9, <2>10, <3>1, <3>2 DEF Restored!Recoverable
  <2>12. Restored!Replayed(Wal).hist = d.hist \o Commands(SubSeq(Wal, d.cursor + 1, Len(Wal)))
    BY <2>9 DEF Restored!Replayed, Restored!Commands, Commands
  <2>13. d.hist \o Commands(SubSeq(Wal, k + 1, Len(Wal))) = Commands(Wal)
    BY <2>1, <2>7, AfterHistory
  <2> QED
    BY <2>6, <2>11, <2>12, <2>13
<1> QED
  BY <1>1, InspectionInvariant, PTL

(***************************************************************************)
(* What events prints is a stretch of the log without gaps, to the end of  *)
(* a command, with everything acknowledged before it began, as long as its *)
(* limit and its first tick allow, whatever they are.                      *)
(***************************************************************************)
THEOREM ListingsAreTails ==
  ASSUME ~RetryAfterError, ~PowerLossPossible
  PROVE  ISpec => []ListingIsATail
<1>1. InspectionInv => ListingIsATail
  <2> SUFFICES ASSUME InspectionInv, at = "listed" PROVE ListingIsATail
    BY DEF ListingIsATail
  <2>1. IInv /\ ToolTypes
    BY DEF InspectionInv, RuntimeInv, RecoveryInv, ToolInv
  <2>2. PICK k \in 0..Len(Wal) : ListedUpTo(k)
    BY DEF InspectionInv, ToolInv, ListedInv
  <2>3. PICK g : g = shown.events
    OBVIOUS
  <2>4. g \in Seq(Event) /\ Len(g) \in Nat /\ Wal \in Seq(Event) /\ Len(Wal) \in Nat
    BY <2>1, <2>3, TickTypes, LenProperties DEF ToolTypes
  <2>5. /\ Covers(k) /\ Len(g) <= k
        /\ \A i \in 1..Len(g) : g[i] = Wal[k - Len(g) + i] /\ g[i].tick >= shown.from
        /\ Len(g) = shown.limit \/ Len(g) = k \/ Wal[k - Len(g)].tick < shown.from
    BY <2>2, <2>3 DEF ListedUpTo
  <2>6. PICK first : first = k - Len(g) + 1
    OBVIOUS
  <2>7. first \in Nat /\ first >= 1 /\ first - 1 = k - Len(g) /\ k - first + 1 = Len(g)
        /\ k \in Nat /\ k <= Len(Wal)
    BY <2>4, <2>5, <2>6
  <2>8. g = SubSeq(Wal, first, k)
    <3> DEFINE t == SubSeq(Wal, first, k)
    <3>1. \A i \in first..k : Wal[i] \in Event
      BY <2>4, <2>7, ElementOfSeq
    <3>2. /\ t \in Seq(Event) /\ Len(t) = IF first <= k THEN k - first + 1 ELSE 0
          /\ \A i \in 1..(k - first + 1) : t[i] = Wal[first + i - 1]
      BY <2>7, <3>1, SubSeqProperties
    <3> HIDE DEF t
    <3>3. Len(t) = Len(g)
      BY <2>4, <2>7, <3>2
    <3>4. ASSUME NEW i \in 1..Len(g) PROVE g[i] = t[i]
      <4>1. i \in 1..(k - first + 1) /\ first + i - 1 = k - Len(g) + i
        BY <2>4, <2>6, <2>7
      <4> QED
        BY <2>5, <3>2, <4>1
    <3>5. g = t
      BY <2>4, <3>2, <3>3, <3>4, SeqEqual
    <3> QED
      BY <3>5 DEF t
  <2>9. ASSUME NEW i \in first..k PROVE Wal[i].tick >= shown.from
    <3>1. i - first + 1 \in 1..Len(g) /\ k - Len(g) + (i - first + 1) = i
      BY <2>4, <2>6, <2>7
    <3> QED
      BY <2>5, <3>1
  <2>10. Len(g) = shown.limit \/ first = 1 \/ Wal[first - 1].tick < shown.from
    <3>1. CASE Len(g) = k
      BY <2>4, <2>6, <2>7, <3>1
    <3>2. CASE Wal[k - Len(g)].tick < shown.from
      BY <2>7, <3>2
    <3> QED
      BY <2>5, <3>1, <3>2
  <2> QED
    BY <2>3, <2>5, <2>6, <2>7, <2>8, <2>9, <2>10 DEF ListingIsATail
<1> QED
  BY <1>1, InspectionInvariant, PTL

=============================================================================
