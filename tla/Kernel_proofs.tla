---------------------------- MODULE Kernel_proofs -----------------------------
(***************************************************************************)
(* Lemmas about worlds, event replay and the commands of the kernel, for   *)
(* any number of zones and entities, any RNG and any log: the indexes of   *)
(* the zones, what each effect changes, that what replay accepts keeps a   *)
(* world that a snapshot of it would decode, and that a command does to a  *)
(* world what the replay of its events does to it.                         *)
(***************************************************************************)
EXTENDS Simulation, Replay, SnapshotCodec,
        SequenceTheorems, FiniteSetTheorems, WellFoundedInduction, TLAPS

\* A set of numbers with an element has a least one.
LEMMA LeastElement ==
  ASSUME NEW T \in SUBSET Nat, T # {}
  PROVE  \E x \in T : \A y \in T : x <= y
<1> DEFINE R == {ss \in Nat \X Nat : ss[1] < ss[2]}
<1>1. IsWellFoundedOn(R, Nat)
  BY NatLessThanWellFounded, Zenon DEF OpToRel
<1>2. PICK x \in T : \A y \in T : ~ (<<y, x>> \in R)
  <2> HIDE DEF R
  <2> QED
    BY <1>1, WFMin
<1>3. \A y \in T : <<y, x>> \in Nat \X Nat
  OBVIOUS
<1>4. \A y \in T : ~(y < x)
  BY <1>2, <1>3
<1> QED
  BY <1>4

(***************************************************************************)
(* An index that lists every member of a set exactly once.                 *)
(***************************************************************************)
IsIndex(index, ids) ==
  /\ index \in Seq(Nat)
  /\ \A i, j \in 1..Len(index) : index[i] = index[j] => i = j
  /\ \A i \in 1..Len(index) : index[i] \in ids
  /\ \A id \in ids : \E i \in 1..Len(index) : index[i] = id

LEMMA EmptyIndex ==
  IsIndex(<< >>, {})
BY DEF IsIndex

LEMMA ContainsIsMember ==
  ASSUME NEW index, NEW ids, NEW id, IsIndex(index, ids)
  PROVE  Contains(index, id) <=> id \in ids
BY DEF IsIndex, Contains

LEMMA AppendedIndex ==
  ASSUME NEW index, NEW ids, NEW id \in Nat, IsIndex(index, ids), id \notin ids
  PROVE  IsIndex(Append(index, id), ids \cup {id})
<1> DEFINE longer == Append(index, id)
<1>1. index \in Seq(Nat) /\ Len(index) \in Nat
  BY DEF IsIndex
<1>2. /\ longer \in Seq(Nat)
      /\ Len(longer) = Len(index) + 1
      /\ longer[Len(index) + 1] = id
      /\ \A i \in 1..Len(index) : longer[i] = index[i]
  BY <1>1
<1> HIDE DEF longer
<1>3. ASSUME NEW i \in 1..Len(longer), NEW j \in 1..Len(longer), longer[i] = longer[j]
      PROVE  i = j
  <2>1. CASE i \in 1..Len(index) /\ j \in 1..Len(index)
    BY <1>2, <1>3, <2>1 DEF IsIndex
  <2>2. CASE i = Len(index) + 1 /\ j \in 1..Len(index)
    BY <1>2, <1>3, <2>2 DEF IsIndex
  <2>3. CASE i \in 1..Len(index) /\ j = Len(index) + 1
    BY <1>2, <1>3, <2>3 DEF IsIndex
  <2> QED
    BY <1>1, <1>2, <2>1, <2>2, <2>3
<1>4. ASSUME NEW i \in 1..Len(longer) PROVE longer[i] \in ids \cup {id}
  <2>1. i \in 1..Len(index) \/ i = Len(index) + 1
    BY <1>1, <1>2
  <2> QED
    BY <1>2, <2>1 DEF IsIndex
<1>5. ASSUME NEW e \in ids \cup {id} PROVE \E i \in 1..Len(longer) : longer[i] = e
  <2>1. CASE e = id
    <3>1. Len(index) + 1 \in 1..Len(longer)
      BY <1>1, <1>2
    <3> QED
      BY <1>2, <2>1, <3>1
  <2>2. CASE e \in ids
    <3>1. PICK i \in 1..Len(index) : index[i] = e
      BY <2>2 DEF IsIndex
    <3>2. i \in 1..Len(longer)
      BY <1>1, <1>2
    <3> QED
      BY <1>2, <3>1, <3>2
  <2> QED
    BY <2>1, <2>2
<1> QED
  BY <1>2, <1>3, <1>4, <1>5 DEF IsIndex, longer

(***************************************************************************)
(* Without, by its recursion: the recursive function exists, and each      *)
(* value of it indexes what the prefix lists, without the id.              *)
(***************************************************************************)
Kept(index, id, f, i) ==
  IF i = 0 THEN << >>
  ELSE IF index[i] = id THEN f[i - 1]
  ELSE Append(f[i - 1], index[i])

Recurs(index, id, n, f) == f = [i \in 0..n |-> Kept(index, id, f, i)]

LEMMA KeptExists ==
  ASSUME NEW index, NEW id, NEW n \in Nat
  PROVE  \E f : Recurs(index, id, n, f)
<1> DEFINE Missing == {m \in Nat : ~\E f : Recurs(index, id, m, f)}
<1> SUFFICES ASSUME Missing # {} PROVE FALSE
  OBVIOUS
<1>1. PICK m \in Missing : \A k \in Missing : m <= k
  <2>1. Missing \in SUBSET Nat
    OBVIOUS
  <2> QED
    BY <2>1, LeastElement
<1>2. m \in Nat /\ ~\E f : Recurs(index, id, m, f)
  OBVIOUS
<1>3. CASE m = 0
  <2> DEFINE f == [i \in 0..0 |-> << >>]
  <2>1. \A i \in 0..0 : Kept(index, id, f, i) = << >>
    BY DEF Kept
  <2>2. f = [i \in 0..0 |-> Kept(index, id, f, i)]
    BY <2>1
  <2>3. Recurs(index, id, 0, f)
    BY <2>2 DEF Recurs
  <2> QED
    BY <1>2, <1>3, <2>3
<1>4. CASE m # 0
  <2>1. m - 1 \in Nat /\ m - 1 \notin Missing
    BY <1>1, <1>2, <1>4
  <2>2. PICK g : Recurs(index, id, m - 1, g)
    BY <2>1
  <2> DEFINE f == [i \in 0..m |-> IF i = m THEN Kept(index, id, g, m) ELSE g[i]]
  <2>3. g = [i \in 0..(m - 1) |-> Kept(index, id, g, i)]
    BY <2>2 DEF Recurs
  <2>4. ASSUME NEW i \in 0..m PROVE f[i] = Kept(index, id, f, i)
    <3>1. f[i] = Kept(index, id, g, i)
      <4>1. CASE i = m
        BY <4>1
      <4>2. CASE i # m
        <5>1. i \in 0..(m - 1)
          BY <1>2, <4>2
        <5>2. g[i] = Kept(index, id, g, i)
          <6> HIDE DEF f
          <6> QED
            BY <2>3, <5>1
        <5> QED
          BY <4>2, <5>2
      <4> QED
        BY <4>1, <4>2
    <3>2. CASE i = 0
      BY <3>1, <3>2 DEF Kept
    <3>3. CASE i # 0
      <4>1. i - 1 \in 0..m /\ i - 1 # m
        BY <1>2, <3>3
      <4>2. f[i - 1] = g[i - 1]
        BY <4>1
      <4> HIDE DEF f
      <4> QED
        BY <3>1, <4>2 DEF Kept
    <3> QED
      BY <3>2, <3>3
  <2>5. f = [i \in 0..m |-> f[i]]
    OBVIOUS
  <2> HIDE DEF f
  <2>6. f = [i \in 0..m |-> Kept(index, id, f, i)]
    BY <2>4, <2>5
  <2> QED
    BY <1>2, <2>6 DEF Recurs
<1> QED
  BY <1>3, <1>4

Listed(index, n) == {index[i] : i \in 1..n}

LEMMA WithoutIndex ==
  ASSUME NEW index, NEW ids, NEW id \in Nat, IsIndex(index, ids)
  PROVE  IsIndex(Without(index, id), ids \ {id})
<1> DEFINE N == Len(index)
           kept == CHOOSE f : f = [i \in 0..N |-> Kept(index, id, f, i)]
           Good(i) == IsIndex(kept[i], Listed(index, i) \ {id})
           Bad == {i \in 0..N : ~Good(i)}
<1>1. index \in Seq(Nat) /\ N \in Nat /\ \A i \in 1..N : index[i] \in Nat
  BY DEF IsIndex
<1>2. kept = [i \in 0..N |-> Kept(index, id, kept, i)]
  <2>1. \E f : f = [i \in 0..N |-> Kept(index, id, f, i)]
    BY <1>1, KeptExists DEF Recurs
  <2> HIDE DEF N
  <2> QED
    BY <2>1
<1>3. Without(index, id) = kept[N]
  BY DEF Without, Kept
<1> HIDE DEF kept
<1>4. \A i \in 0..N : kept[i] = Kept(index, id, kept, i)
  <2> HIDE DEF N
  <2> QED
    BY <1>2
<1>5. Bad = {}
  <2> SUFFICES ASSUME Bad # {} PROVE FALSE
    OBVIOUS
  <2>1. PICK m \in Bad : \A k \in Bad : m <= k
    <3>1. Bad \in SUBSET Nat
      BY <1>1
    <3> QED
      BY <3>1, LeastElement
  <2>2. m \in 0..N /\ ~Good(m)
    OBVIOUS
  <2>3. CASE m = 0
    <3>1. kept[0] = << >>
      BY <1>4, <2>2, <2>3 DEF Kept
    <3>2. Listed(index, 0) \ {id} = {}
      BY DEF Listed
    <3> QED
      BY <2>2, <2>3, <3>1, <3>2, EmptyIndex
  <2>4. CASE m # 0
    <3>1. m \in 1..N /\ m - 1 \in 0..N /\ m - 1 < m
      BY <1>1, <2>2, <2>4
    <3>2. Good(m - 1)
      <4>1. m - 1 \notin Bad
        BY <1>1, <2>1, <3>1
      <4> QED
        BY <3>1, <4>1
    <3>3. Listed(index, m) = Listed(index, m - 1) \cup {index[m]}
      <4>1. 1..m = (1..(m - 1)) \cup {m}
        BY <1>1, <3>1
      <4> QED
        BY <4>1 DEF Listed
    <3>4. index[m] \notin Listed(index, m - 1)
      <4>1. ASSUME NEW i \in 1..(m - 1) PROVE index[i] # index[m]
        <5>1. i \in 1..N /\ i # m
          BY <1>1, <3>1
        <5> QED
          BY <3>1, <5>1 DEF IsIndex
      <4> QED
        BY <4>1 DEF Listed
    <3>5. CASE index[m] = id
      <4>1. kept[m] = kept[m - 1]
        BY <1>4, <2>2, <2>4, <3>5 DEF Kept
      <4>2. Listed(index, m) \ {id} = Listed(index, m - 1) \ {id}
        BY <3>3, <3>5
      <4> QED
        BY <2>2, <3>2, <4>1, <4>2
    <3>6. CASE index[m] # id
      <4>1. kept[m] = Append(kept[m - 1], index[m])
        BY <1>4, <2>2, <2>4, <3>6 DEF Kept
      <4>2. Listed(index, m) \ {id} = (Listed(index, m - 1) \ {id}) \cup {index[m]}
        BY <3>3, <3>6
      <4>3. index[m] \in Nat /\ index[m] \notin Listed(index, m - 1) \ {id}
        BY <1>1, <3>1, <3>4
      <4>4. IsIndex(Append(kept[m - 1], index[m]), (Listed(index, m - 1) \ {id}) \cup {index[m]})
        BY <3>2, <4>3, AppendedIndex
      <4> QED
        BY <2>2, <4>1, <4>2, <4>4
    <3> QED
      BY <3>5, <3>6
  <2> QED
    BY <2>3, <2>4
<1>6. Listed(index, N) = ids
  BY DEF IsIndex, Listed
<1>7. Good(N)
  <2>1. N \in 0..N
    BY <1>1
  <2>2. N \notin Bad
    <3> HIDE DEF Bad
    <3> QED
      BY <1>5
  <2> QED
    BY <2>1, <2>2
<1> QED
  BY <1>3, <1>6, <1>7

-----------------------------------------------------------------------------
(***************************************************************************)
(* The invariant of a world, for which the fields need a type too.  What   *)
(* ValidSnapshot demands of the zones is that their indexes are indexes of *)
(* the entities inside.  The ids of its entities start at k: at 1 in the   *)
(* kernel's worlds, and at 0 when a log's events may use the reserved id.  *)
(***************************************************************************)
Zone == [name : ZoneNames, loaded : BOOLEAN, entities : Seq(Nat)]

IsWorld(w) ==
  /\ DOMAIN w.zones \subseteq Nat /\ IsFiniteSet(DOMAIN w.zones)
  /\ w \in [metaTick : Nat, snapTick : Nat, cursor : Nat, seed : {w.seed},
            tick : Nat, rng : {w.rng}, nextId : Nat,
            entities : [DOMAIN w.entities -> Entity],
            zones : [DOMAIN w.zones -> Zone]]

Inside(entities, z) == {id \in DOMAIN entities : entities[id].zone = z}

Placed(k, w) ==
  \A id \in DOMAIN w.entities :
    id \in Nat /\ k <= id /\ id < w.nextId /\ HasZone(w, w.entities[id].zone)

Indexed(w) ==
  \A z \in DOMAIN w.zones : IsIndex(w.zones[z].entities, Inside(w.entities, z))

WorldFrom(k, w) ==
  IsWorld(w) /\ w.metaTick = w.tick /\ w.nextId # 0 /\ Placed(k, w) /\ Indexed(w)

WorldInv(w) == WorldFrom(1, w)

LEMMA TicksKeep ==
  ASSUME NEW k \in Nat, NEW w, WorldFrom(k, w), NEW t \in Nat, NEW v, v = AtTick(w, t)
  PROVE  /\ WorldFrom(k, v)
         /\ v.entities = w.entities /\ v.zones = w.zones
<1>1. /\ IsWorld(v) /\ v.metaTick = v.tick /\ v.nextId = w.nextId
      /\ v.entities = w.entities /\ v.zones = w.zones
  BY DEF AtTick, WorldFrom, IsWorld
<1> QED
  BY <1>1 DEF WorldFrom, Placed, Indexed, HasZone

LEMMA RngKeeps ==
  ASSUME NEW k \in Nat, NEW w, WorldFrom(k, w), NEW e, NEW v, v = Restored(w, e)
  PROVE  WorldFrom(k, v)
<1>1. /\ IsWorld(v) /\ v.metaTick = v.tick /\ v.nextId = w.nextId
      /\ v.entities = w.entities /\ v.zones = w.zones
  BY DEF Restored, WorldFrom, IsWorld
<1> QED
  BY <1>1 DEF WorldFrom, Placed, Indexed, HasZone

LEMMA NewZoneKeeps ==
  ASSUME NEW k \in Nat, NEW w, WorldFrom(k, w),
         NEW z \in Nat, ~HasZone(w, z), NEW name \in ZoneNames,
         NEW v, v = AddZone(w, z, name)
  PROVE  WorldFrom(k, v)
<1>1. NewZone(name) \in Zone /\ NewZone(name).entities = << >>
  BY DEF NewZone, Zone
<1>2. IsWorld(w) /\ Placed(k, w) /\ Indexed(w)
  BY DEF WorldFrom
<1>3. /\ v.metaTick = v.tick /\ v.nextId = w.nextId /\ v.nextId # 0
      /\ v.entities = w.entities
      /\ v.zones = Put(w.zones, z, NewZone(name))
  BY DEF AddZone, WorldFrom, IsWorld
<1>4. /\ DOMAIN v.zones = DOMAIN w.zones \cup {z}
      /\ v.zones[z] = NewZone(name)
      /\ \A y \in DOMAIN w.zones : v.zones[y] = w.zones[y]
  BY <1>3 DEF Put, HasZone
<1>5. v.zones \in [DOMAIN v.zones -> Zone]
  <2>1. \A y \in DOMAIN w.zones : w.zones[y] \in Zone
    BY <1>2 DEF IsWorld
  <2> QED
    BY <1>1, <1>3, <2>1 DEF Put
<1>6. IsWorld(v)
  <2>1. DOMAIN v.zones \subseteq Nat /\ IsFiniteSet(DOMAIN v.zones)
    <3>1. IsFiniteSet(DOMAIN w.zones) /\ DOMAIN w.zones \subseteq Nat
      BY <1>2 DEF IsWorld
    <3> QED
      BY <1>4, <3>1, FS_AddElement
  <2> QED
    BY <1>2, <1>3, <1>5, <2>1 DEF AddZone, IsWorld
<1>7. Inside(w.entities, z) = {}
  BY <1>2 DEF Placed, Inside, HasZone
<1>8. Indexed(v)
  BY <1>1, <1>2, <1>3, <1>4, <1>7, EmptyIndex DEF Indexed
<1>9. Placed(k, v)
  BY <1>2, <1>3, <1>4 DEF Placed, HasZone
<1> QED
  BY <1>3, <1>6, <1>8, <1>9 DEF WorldFrom

\* Changing one zone.
WithZone(w, z, zone) == [w EXCEPT !.zones[z] = zone]

LEMMA ZoneSet ==
  ASSUME NEW w, IsWorld(w), NEW z, HasZone(w, z), NEW zone \in Zone,
         NEW v, v = WithZone(w, z, zone)
  PROVE  /\ IsWorld(v)
         /\ v.metaTick = w.metaTick /\ v.tick = w.tick /\ v.nextId = w.nextId
         /\ v.entities = w.entities
         /\ DOMAIN v.zones = DOMAIN w.zones
         /\ v.zones[z] = zone
         /\ \A y \in DOMAIN w.zones : y # z => v.zones[y] = w.zones[y]
BY DEF IsWorld, HasZone, WithZone

LEMMA LoadingKeeps ==
  ASSUME NEW k \in Nat, NEW w, WorldFrom(k, w), NEW e, HasZone(w, e.zone),
         NEW v, v = SetLoaded(w, e)
  PROVE  WorldFrom(k, v)
<1> DEFINE loaded == e.type = "ZoneLoaded"
           zone == [w.zones[e.zone] EXCEPT !.loaded = loaded]
<1>1. IsWorld(w) /\ Placed(k, w) /\ Indexed(w)
  BY DEF WorldFrom
<1>2. loaded \in BOOLEAN
  OBVIOUS
<1>3. v = WithZone(w, e.zone, zone)
  BY DEF SetLoaded, WithZone
<1> HIDE DEF loaded
<1>4. w.zones[e.zone] \in Zone
  BY <1>1 DEF IsWorld, HasZone
<1>5. zone \in Zone /\ zone.entities = w.zones[e.zone].entities
  BY <1>2, <1>4 DEF Zone
<1> HIDE DEF zone
<1>6. /\ IsWorld(v)
      /\ v.metaTick = w.metaTick /\ v.tick = w.tick /\ v.nextId = w.nextId
      /\ v.entities = w.entities
      /\ DOMAIN v.zones = DOMAIN w.zones
      /\ v.zones[e.zone] = zone
      /\ \A y \in DOMAIN w.zones : y # e.zone => v.zones[y] = w.zones[y]
  BY <1>1, <1>3, <1>5, ZoneSet
<1>7. \A y \in DOMAIN w.zones : v.zones[y].entities = w.zones[y].entities
  BY <1>5, <1>6
<1> QED
  BY <1>1, <1>6, <1>7 DEF WorldFrom, Placed, Indexed, HasZone

LEMMA EntityKeeps ==
  ASSUME NEW k \in Nat, NEW w, WorldFrom(k, w), NEW id, HasEntity(w, id),
         NEW entity \in Entity, entity.zone = w.entities[id].zone,
         NEW v, v = [w EXCEPT !.entities[id] = entity]
  PROVE  WorldFrom(k, v)
<1>1. IsWorld(w) /\ Placed(k, w) /\ Indexed(w)
  BY DEF WorldFrom
<1>2. /\ IsWorld(v) /\ v.metaTick = v.tick /\ v.nextId = w.nextId /\ v.nextId # 0
      /\ v.zones = w.zones
      /\ DOMAIN v.entities = DOMAIN w.entities
      /\ \A i \in DOMAIN w.entities : v.entities[i].zone = w.entities[i].zone
  BY <1>1 DEF WorldFrom, IsWorld, HasEntity
<1>3. \A z : Inside(v.entities, z) = Inside(w.entities, z)
  BY <1>2 DEF Inside
<1> QED
  BY <1>1, <1>2, <1>3 DEF WorldFrom, Placed, Indexed, HasZone

-----------------------------------------------------------------------------
(***************************************************************************)
(* Entities that come, move and go.                                        *)
(***************************************************************************)
\* Changing the index of one zone.
WithIndex(w, z, index) == [w EXCEPT !.zones[z].entities = index]

IndexIs(w, v, z, index) ==
  /\ IsWorld(v)
  /\ v.metaTick = w.metaTick /\ v.tick = w.tick /\ v.nextId = w.nextId
  /\ v.entities = w.entities
  /\ DOMAIN v.zones = DOMAIN w.zones
  /\ v.zones[z].entities = index
  /\ \A y \in DOMAIN w.zones : y # z => v.zones[y] = w.zones[y]

LEMMA IndexSet ==
  ASSUME NEW w, IsWorld(w), NEW z, HasZone(w, z), NEW index \in Seq(Nat),
         NEW v, v = WithIndex(w, z, index)
  PROVE  IndexIs(w, v, z, index)
<1> DEFINE zone == [w.zones[z] EXCEPT !.entities = index]
<1>1. w.zones[z] \in Zone
  BY DEF IsWorld, HasZone
<1>2. zone \in Zone /\ zone.entities = index
  BY <1>1 DEF Zone
<1>3. v = WithZone(w, z, zone)
  BY DEF WithZone, WithIndex
<1> HIDE DEF zone
<1>4. /\ IsWorld(v)
      /\ v.metaTick = w.metaTick /\ v.tick = w.tick /\ v.nextId = w.nextId
      /\ v.entities = w.entities
      /\ DOMAIN v.zones = DOMAIN w.zones
      /\ v.zones[z] = zone
      /\ \A y \in DOMAIN w.zones : y # z => v.zones[y] = w.zones[y]
  BY <1>2, <1>3, ZoneSet
<1> QED
  BY <1>2, <1>4 DEF IndexIs

LEMMA Entered ==
  ASSUME NEW w, IsWorld(w), NEW z, HasZone(w, z), NEW id \in Nat, NEW ids,
         IsIndex(w.zones[z].entities, ids), id \notin ids,
         NEW v, v = EnterZone(w, z, id)
  PROVE  \E index : IsIndex(index, ids \cup {id}) /\ IndexIs(w, v, z, index)
<1> DEFINE index == Append(w.zones[z].entities, id)
<1>1. ~InZone(w, z, id)
  BY ContainsIsMember DEF InZone
<1>2. v = WithIndex(w, z, index)
  BY <1>1 DEF EnterZone, WithIndex
<1>3. IsIndex(index, ids \cup {id})
  BY AppendedIndex
<1> HIDE DEF index
<1>4. IndexIs(w, v, z, index)
  BY <1>2, <1>3, IndexSet DEF IsIndex
<1> QED
  BY <1>3, <1>4

LEMMA Left ==
  ASSUME NEW w, IsWorld(w), NEW z, HasZone(w, z), NEW id \in Nat, NEW ids,
         IsIndex(w.zones[z].entities, ids),
         NEW v, v = LeaveZone(w, z, id)
  PROVE  \E index : IsIndex(index, ids \ {id}) /\ IndexIs(w, v, z, index)
<1> DEFINE index == Without(w.zones[z].entities, id)
<1>1. v = WithIndex(w, z, index)
  BY DEF LeaveZone, WithIndex
<1>2. IsIndex(index, ids \ {id})
  BY WithoutIndex
<1> HIDE DEF index
<1>3. IndexIs(w, v, z, index)
  BY <1>1, <1>2, IndexSet DEF IsIndex
<1> QED
  BY <1>2, <1>3

LEMMA SpawnKeeps ==
  ASSUME NEW k \in Nat, NEW w, WorldFrom(k, w),
         NEW e, e.id \in Nat, k <= e.id, ~HasEntity(w, e.id),
         HasZone(w, e.zone),
         NewEntity(e.kind, e.zone, e.tick, e.amount, e.health) \in Entity,
         NEW v, v = Spawn(w, e)
  PROVE  WorldFrom(k, v)
<1> DEFINE entity == NewEntity(e.kind, e.zone, e.tick, e.amount, e.health)
           entities == Put(w.entities, e.id, entity)
           next == IF e.id >= w.nextId THEN e.id + 1 ELSE w.nextId
           u == [[w EXCEPT !.nextId = next] EXCEPT !.entities = entities]
<1>1. IsWorld(w) /\ Placed(k, w) /\ Indexed(w) /\ w.metaTick = w.tick
  BY DEF WorldFrom
<1>2. entity \in Entity /\ entity.zone = e.zone
  BY DEF NewEntity
<1>3. v = EnterZone(u, e.zone, e.id)
  <2>1. [w EXCEPT !.nextId = IF e.id >= @ THEN e.id + 1 ELSE @] = [w EXCEPT !.nextId = next]
    BY <1>1 DEF IsWorld
  <2>2. v = AddEntity([w EXCEPT !.nextId = next], e.id, entity)
    BY <2>1 DEF Spawn
  <2>3. ([w EXCEPT !.nextId = next]).entities = w.entities
    BY <1>1 DEF IsWorld
  <2> QED
    BY <1>2, <2>2, <2>3 DEF AddEntity
<1>4. next \in Nat /\ next # 0 /\ w.nextId <= next /\ e.id < next
  BY <1>1 DEF IsWorld
<1> HIDE DEF entity, next
<1>5. /\ DOMAIN entities = DOMAIN w.entities \cup {e.id}
      /\ entities[e.id] = entity
      /\ \A i \in DOMAIN w.entities : entities[i] = w.entities[i]
      /\ entities \in [DOMAIN entities -> Entity]
  <2>1. \A i \in DOMAIN w.entities : w.entities[i] \in Entity
    BY <1>1 DEF IsWorld
  <2> QED
    BY <1>2, <2>1 DEF Put, HasEntity
<1> HIDE DEF entities
<1>6. /\ IsWorld(u) /\ u.metaTick = u.tick /\ u.nextId = next
      /\ u.entities = entities /\ u.zones = w.zones
  BY <1>1, <1>4, <1>5 DEF IsWorld
<1> HIDE DEF u
<1> DEFINE ids == Inside(w.entities, e.zone)
<1>7. e.id \notin ids
  BY DEF Inside, HasEntity
<1>8. \A z : Inside(entities, z) = IF z = e.zone THEN Inside(w.entities, z) \cup {e.id}
                                   ELSE Inside(w.entities, z)
  BY <1>2, <1>5 DEF Inside, HasEntity
<1>9. IsIndex(u.zones[e.zone].entities, ids) /\ HasZone(u, e.zone)
  BY <1>1, <1>6 DEF Indexed, HasZone
<1>10. PICK index : IsIndex(index, ids \cup {e.id}) /\ IndexIs(u, v, e.zone, index)
  <2> HIDE DEF ids
  <2> QED
    BY <1>3, <1>6, <1>7, <1>9, Entered
<1>11. /\ IsWorld(v) /\ v.metaTick = v.tick /\ v.nextId = next /\ v.entities = entities
       /\ DOMAIN v.zones = DOMAIN w.zones
       /\ v.zones[e.zone].entities = index
       /\ \A y \in DOMAIN w.zones : y # e.zone => v.zones[y] = w.zones[y]
  BY <1>6, <1>10 DEF IndexIs
<1>12. Placed(k, v)
  <2> SUFFICES ASSUME NEW i \in DOMAIN entities
               PROVE  i \in Nat /\ k <= i /\ i < next /\ HasZone(w, entities[i].zone)
    BY <1>11 DEF Placed, HasZone
  <2>1. CASE i = e.id
    BY <1>2, <1>4, <1>5, <2>1
  <2>2. CASE i \in DOMAIN w.entities
    <3>1. i \in Nat /\ k <= i /\ i < w.nextId /\ HasZone(w, w.entities[i].zone)
      BY <1>1, <2>2 DEF Placed
    <3>2. w.nextId \in Nat /\ i < next
      BY <1>1, <1>4, <3>1 DEF IsWorld
    <3> QED
      BY <1>5, <2>2, <3>1, <3>2
  <2> QED
    BY <1>5, <2>1, <2>2
<1>13. Indexed(v)
  <2> SUFFICES ASSUME NEW y \in DOMAIN w.zones
               PROVE  IsIndex(v.zones[y].entities, Inside(entities, y))
    BY <1>11 DEF Indexed
  <2>1. CASE y = e.zone
    BY <1>8, <1>10, <1>11, <2>1
  <2>2. CASE y # e.zone
    BY <1>1, <1>8, <1>11, <2>2 DEF Indexed
  <2> QED
    BY <2>1, <2>2
<1> QED
  BY <1>4, <1>11, <1>12, <1>13 DEF WorldFrom

LEMMA DespawnKeeps ==
  ASSUME NEW k \in Nat, NEW w, WorldFrom(k, w), NEW id, HasEntity(w, id),
         NEW v, v = RemoveEntity(w, id)
  PROVE  WorldFrom(k, v)
<1> DEFINE entities == Restrict(w.entities, DOMAIN w.entities \ {id})
           u == [w EXCEPT !.entities = entities]
           zone == w.entities[id].zone
           ids == Inside(w.entities, zone)
<1>1. IsWorld(w) /\ Placed(k, w) /\ Indexed(w) /\ w.metaTick = w.tick /\ w.nextId # 0
  BY DEF WorldFrom
<1>2. v = LeaveZone(u, zone, id)
  BY DEF RemoveEntity
<1>3. /\ DOMAIN entities = DOMAIN w.entities \ {id}
      /\ \A i \in DOMAIN entities : entities[i] = w.entities[i]
      /\ entities \in [DOMAIN entities -> Entity]
  <2>1. \A i \in DOMAIN w.entities : w.entities[i] \in Entity
    BY <1>1 DEF IsWorld
  <2> QED
    BY <2>1 DEF Restrict
<1> HIDE DEF entities
<1>4. /\ IsWorld(u) /\ u.metaTick = u.tick /\ u.nextId = w.nextId
      /\ u.entities = entities /\ u.zones = w.zones
  BY <1>1, <1>3 DEF IsWorld
<1> HIDE DEF u
<1>5. \A z : Inside(entities, z) = Inside(w.entities, z) \ {id}
  BY <1>3 DEF Inside
<1>6. id \in Nat /\ HasZone(u, zone) /\ IsIndex(u.zones[zone].entities, ids)
  BY <1>1, <1>4 DEF Placed, Indexed, HasEntity, HasZone
<1>7. PICK index : IsIndex(index, ids \ {id}) /\ IndexIs(u, v, zone, index)
  <2> HIDE DEF ids, zone
  <2> QED
    BY <1>2, <1>4, <1>6, Left
<1>8. /\ IsWorld(v) /\ v.metaTick = v.tick /\ v.nextId = w.nextId /\ v.entities = entities
      /\ DOMAIN v.zones = DOMAIN w.zones
      /\ v.zones[zone].entities = index
      /\ \A y \in DOMAIN w.zones : y # zone => v.zones[y] = w.zones[y]
  BY <1>4, <1>7 DEF IndexIs
<1>9. Placed(k, v)
  BY <1>1, <1>3, <1>8 DEF Placed, HasZone
<1>10. Indexed(v)
  <2> SUFFICES ASSUME NEW y \in DOMAIN w.zones
               PROVE  IsIndex(v.zones[y].entities, Inside(entities, y))
    BY <1>8 DEF Indexed
  <2>1. CASE y = zone
    BY <1>5, <1>7, <1>8, <2>1
  <2>2. CASE y # zone
    <3>1. Inside(entities, y) = Inside(w.entities, y)
      BY <1>5, <2>2 DEF Inside
    <3> QED
      BY <1>1, <1>8, <2>2, <3>1 DEF Indexed
  <2> QED
    BY <2>1, <2>2
<1> QED
  BY <1>1, <1>8, <1>9, <1>10 DEF WorldFrom

LEMMA MoveKeeps ==
  ASSUME NEW k \in Nat, NEW w, WorldFrom(k, w), NEW e, HasEntity(w, e.id), e.to \in Nat,
         w.entities[e.id].zone = e.from, HasZone(w, e.from), HasZone(w, e.to),
         NEW v, v = Move(w, e)
  PROVE  WorldFrom(k, v)
<1> DEFINE entity == [w.entities[e.id] EXCEPT !.zone = e.to]
<1>1. IsWorld(w) /\ Placed(k, w) /\ Indexed(w) /\ w.metaTick = w.tick /\ w.nextId # 0
  BY DEF WorldFrom
<1>2. w.entities[e.id] \in Entity /\ e.id \in Nat
  BY <1>1 DEF IsWorld, Placed, HasEntity
<1>3. entity \in Entity /\ entity.zone = e.to
  BY <1>2 DEF Entity
<1>4. CASE e.from = e.to
  <2>1. v = [w EXCEPT !.entities[e.id] = entity] /\ entity.zone = w.entities[e.id].zone
    BY <1>3, <1>4 DEF Move
  <2> HIDE DEF entity
  <2> QED
    BY <1>3, <2>1, EntityKeeps
<1>5. CASE e.from # e.to
  <2> DEFINE left == LeaveZone(w, e.from, e.id)
             u == EnterZone(left, e.to, e.id)
             entities == [w.entities EXCEPT ![e.id] = entity]
  <2>1. v = [u EXCEPT !.entities[e.id].zone = e.to]
    BY <1>5 DEF Move
  <2>2. e.id \notin Inside(w.entities, e.to)
    BY <1>5 DEF Inside
  <2>3. PICK from : /\ IsIndex(from, Inside(w.entities, e.from) \ {e.id})
                    /\ IndexIs(w, left, e.from, from)
    <3>1. IsIndex(w.zones[e.from].entities, Inside(w.entities, e.from))
      BY <1>1 DEF Indexed, HasZone
    <3> HIDE DEF left
    <3> QED
      BY <1>1, <1>2, <3>1, Left DEF left
  <2> HIDE DEF left
  <2>4. IsWorld(left) /\ HasZone(left, e.to)
    BY <2>3 DEF IndexIs, HasZone
  <2>5. IsIndex(left.zones[e.to].entities, Inside(w.entities, e.to))
    BY <1>1, <1>5, <2>3 DEF IndexIs, Indexed, HasZone
  <2>6. PICK to : /\ IsIndex(to, Inside(w.entities, e.to) \cup {e.id})
                  /\ IndexIs(left, u, e.to, to)
    <3> HIDE DEF u
    <3> QED
      BY <1>2, <2>2, <2>4, <2>5, Entered DEF u
  <2> HIDE DEF u
  <2>7. /\ IsWorld(u) /\ u.metaTick = u.tick /\ u.nextId = w.nextId
        /\ u.entities = w.entities
        /\ DOMAIN u.zones = DOMAIN w.zones
        /\ u.zones[e.to].entities = to /\ u.zones[e.from].entities = from
        /\ \A y \in DOMAIN w.zones :
             y # e.to /\ y # e.from => u.zones[y].entities = w.zones[y].entities
    BY <1>1, <1>5, <2>3, <2>6 DEF IndexIs, HasZone
  <2>8. v = [u EXCEPT !.entities[e.id] = entity]
    BY <2>1, <2>7
  <2> HIDE DEF entity
  <2>9. /\ DOMAIN entities = DOMAIN w.entities
        /\ \A i \in DOMAIN w.entities :
             entities[i] = IF i = e.id THEN entity ELSE w.entities[i]
    BY <1>1 DEF IsWorld
  <2>10. /\ IsWorld(v) /\ v.metaTick = v.tick /\ v.nextId = w.nextId
         /\ v.entities = entities /\ v.zones = u.zones
    BY <1>3, <2>7, <2>8 DEF IsWorld, HasEntity
  <2> HIDE DEF entities
  <2>11. /\ Inside(entities, e.to) = Inside(w.entities, e.to) \cup {e.id}
         /\ Inside(entities, e.from) = Inside(w.entities, e.from) \ {e.id}
         /\ \A y : y # e.to /\ y # e.from => Inside(entities, y) = Inside(w.entities, y)
    BY <1>3, <1>5, <2>9 DEF Inside, HasEntity
  <2>12. Placed(k, v)
    BY <1>1, <1>3, <2>7, <2>9, <2>10 DEF Placed, HasZone
  <2>13. Indexed(v)
    <3> SUFFICES ASSUME NEW y \in DOMAIN w.zones
                 PROVE  IsIndex(u.zones[y].entities, Inside(entities, y))
      BY <2>7, <2>10 DEF Indexed
    <3>1. CASE y = e.to
      BY <2>6, <2>7, <2>11, <3>1
    <3>2. CASE y = e.from
      BY <2>3, <2>7, <2>11, <3>2
    <3>3. CASE y # e.to /\ y # e.from
      BY <1>1, <2>7, <2>11, <3>3 DEF Indexed
    <3> QED
      BY <3>1, <3>2, <3>3
  <2> QED
    BY <1>1, <2>10, <2>12, <2>13 DEF WorldFrom
<1> QED
  BY <1>4, <1>5

-----------------------------------------------------------------------------
(***************************************************************************)
(* The steps.  An event carries values of the types the API gives it.      *)
(***************************************************************************)
EventTypes ==
  {"WorldCreated", "WorldLoaded", "WorldSaved", "TickProcessed", "ZoneCreated",
   "ZoneLoaded", "ZoneUnloaded", "EntitySpawned"} \cup OnEntity

EventFields(k, e) ==
  /\ e.tick \in Nat
  /\ e.type \in EventTypes
  /\ e.type = "ZoneCreated" => e.zone \in Nat /\ e.name \in ZoneNames
  /\ e.type = "EntitySpawned" =>
       /\ e.id \in Nat /\ k <= e.id
       /\ NewEntity(e.kind, e.zone, e.tick, e.amount, e.health) \in Entity
  /\ e.type = "EntityMoved" => e.to \in Nat
  /\ e.type = "EntityStateChanged" => e.new \in EntityState
  /\ e.type = "EntityPropertyChanged" =>
       e.property \in {"amount", "health"} /\ e.new \in Nat
  /\ e.type = "ResourceDepleted" => e.remaining \in Nat
  /\ e.type = "EntityDegraded" => e.new \in Nat

(***************************************************************************)
(* Whatever event replay accepts, its effect keeps the world valid.        *)
(***************************************************************************)
LEMMA EffectKeeps ==
  ASSUME NEW k \in Nat, NEW w, WorldFrom(k, w), NEW e, EventFields(k, e), Accepts(w, e)
  PROVE  WorldFrom(k, Effect(w, e))
<1> DEFINE v == AtTick(w, e.tick)
           x == Effect(w, e)
<1>1. WorldFrom(k, v) /\ v.entities = w.entities /\ v.zones = w.zones
  <2>1. e.tick \in Nat
    BY DEF EventFields
  <2> HIDE DEF v
  <2> QED
    BY <2>1, TicksKeep DEF v
<1>2. /\ e.type \in OnEntity => HasEntity(v, e.id)
      /\ ZoneFits(w, e) /\ SpawnFits(w, e) /\ MoveFits(w, e)
  BY <1>1 DEF Accepts, Fits, HasEntity
<1>3. CASE e.type \in {"WorldCreated", "WorldLoaded", "WorldSaved"}
  <2>1. x = v
    BY <1>3 DEF Effect
  <2> QED
    BY <1>1, <2>1
<1>4. CASE e.type = "TickProcessed"
  <2>1. x = Restored(v, e)
    BY <1>4 DEF Effect
  <2> HIDE DEF v, x
  <2> QED
    BY <1>1, <2>1, RngKeeps DEF x
<1>5. CASE e.type = "ZoneCreated"
  <2>1. x = AnnounceZone(v, e)
    BY <1>5 DEF Effect
  <2>2. e.zone \in Nat /\ e.name \in ZoneNames
    BY <1>5 DEF EventFields
  <2> HIDE DEF v, x
  <2>3. CASE HasZone(v, e.zone)
    BY <1>1, <2>1, <2>3 DEF AnnounceZone, x
  <2>4. CASE ~HasZone(v, e.zone)
    <3>1. x = AddZone(v, e.zone, e.name)
      BY <2>1, <2>4 DEF AnnounceZone
    <3> QED
      BY <1>1, <2>2, <2>4, <3>1, NewZoneKeeps DEF x
  <2> QED
    BY <2>3, <2>4
<1>6. CASE e.type \in {"ZoneLoaded", "ZoneUnloaded"}
  <2>1. x = SetLoaded(v, e)
    BY <1>6 DEF Effect
  <2>2. HasZone(v, e.zone)
    BY <1>1, <1>2, <1>6 DEF ZoneFits, HasZone
  <2> HIDE DEF v, x
  <2> QED
    BY <1>1, <2>1, <2>2, LoadingKeeps DEF x
<1>7. CASE e.type = "EntitySpawned"
  <2>1. x = IF HasEntity(v, e.id) THEN v ELSE Spawn(v, e)
    BY <1>7 DEF Effect
  <2>2. /\ HasZone(v, e.zone)
        /\ e.id \in Nat /\ k <= e.id
        /\ NewEntity(e.kind, e.zone, e.tick, e.amount, e.health) \in Entity
    BY <1>1, <1>2, <1>7 DEF SpawnFits, HasZone, EventFields
  <2> HIDE DEF v, x
  <2>3. CASE HasEntity(v, e.id)
    BY <1>1, <2>1, <2>3 DEF x
  <2>4. CASE ~HasEntity(v, e.id)
    <3>1. x = Spawn(v, e)
      BY <2>1, <2>4
    <3> QED
      BY <1>1, <2>2, <2>4, <3>1, SpawnKeeps DEF x
  <2> QED
    BY <2>3, <2>4
<1>8. CASE e.type = "EntityDespawned"
  <2>1. x = RemoveEntity(v, e.id)
    BY <1>8 DEF Effect
  <2>2. HasEntity(v, e.id)
    BY <1>2, <1>8 DEF OnEntity
  <2> HIDE DEF v, x
  <2> QED
    BY <1>1, <2>1, <2>2, DespawnKeeps DEF x
<1>9. CASE e.type = "EntityMoved"
  <2>1. x = Move(v, e)
    BY <1>9 DEF Effect
  <2>2. /\ HasEntity(v, e.id) /\ e.to \in Nat
        /\ v.entities[e.id].zone = e.from /\ HasZone(v, e.from) /\ HasZone(v, e.to)
    BY <1>1, <1>2, <1>9 DEF OnEntity, MoveFits, HasZone, EventFields
  <2> HIDE DEF v, x
  <2> QED
    BY <1>1, <2>1, <2>2, MoveKeeps DEF x
<1>10. ASSUME e.type \in OnEntity \ {"EntityDespawned", "EntityMoved"}
       PROVE  WorldFrom(k, x)
  <2> DEFINE old == v.entities[e.id]
  <2>1. HasEntity(v, e.id) /\ old \in Entity
    BY <1>1, <1>2, <1>10 DEF WorldFrom, IsWorld, HasEntity
  <2>2. PICK entity \in Entity :
          entity.zone = old.zone /\ x = [v EXCEPT !.entities[e.id] = entity]
    <3>1. CASE e.type = "EntityStateChanged"
      <4> DEFINE entity == [old EXCEPT !.state = e.new]
      <4>1. entity \in Entity /\ entity.zone = old.zone
        BY <2>1, <3>1 DEF EventFields, Entity
      <4>2. x = [v EXCEPT !.entities[e.id] = entity]
        BY <3>1 DEF Effect, ChangeState
      <4> HIDE DEF entity
      <4> QED
        BY <4>1, <4>2
    <3>2. CASE e.type = "EntityPropertyChanged"
      <4> DEFINE entity == [old EXCEPT ![e.property] = e.new % U32]
      <4>1. e.new % U32 \in Nat
        BY <3>2, U32Assumption DEF EventFields
      <4>2. entity \in Entity /\ entity.zone = old.zone
        <5>1. CASE e.property = "amount"
          BY <2>1, <4>1, <5>1 DEF Entity
        <5>2. CASE e.property = "health"
          BY <2>1, <4>1, <5>2 DEF Entity
        <5> QED
          BY <3>2, <5>1, <5>2 DEF EventFields
      <4>3. x = [v EXCEPT !.entities[e.id] = entity]
        BY <3>2 DEF Effect, ChangeProperty
      <4> HIDE DEF entity
      <4> QED
        BY <4>2, <4>3
    <3>3. CASE e.type = "ResourceDepleted"
      <4> DEFINE entity == [old EXCEPT !.amount = e.remaining]
      <4>1. entity \in Entity /\ entity.zone = old.zone
        BY <2>1, <3>3 DEF EventFields, Entity
      <4>2. x = [v EXCEPT !.entities[e.id] = entity]
        BY <3>3 DEF Effect, Deplete
      <4> HIDE DEF entity
      <4> QED
        BY <4>1, <4>2
    <3>4. CASE e.type = "EntityDegraded"
      <4> DEFINE entity == [old EXCEPT !.health = e.new]
      <4>1. entity \in Entity /\ entity.zone = old.zone
        BY <2>1, <3>4 DEF EventFields, Entity
      <4>2. x = [v EXCEPT !.entities[e.id] = entity]
        BY <3>4 DEF Effect, Degrade
      <4> HIDE DEF entity
      <4> QED
        BY <4>1, <4>2
    <3> QED
      BY <1>10, <3>1, <3>2, <3>3, <3>4 DEF OnEntity
  <2> HIDE DEF v, x
  <2> QED
    BY <1>1, <2>1, <2>2, EntityKeeps
<1>11. e.type \in EventTypes
  BY DEF EventFields
<1> QED
  BY <1>3, <1>4, <1>5, <1>6, <1>7, <1>8, <1>9, <1>10, <1>11 DEF EventTypes

LEMMA NewWorldIsValid ==
  ASSUME NEW seed, NEW k \in Nat
  PROVE  WorldFrom(k, NewWorld(seed))
<1> DEFINE w == NewWorld(seed)
<1>1. /\ w.metaTick = 0 /\ w.tick = 0 /\ w.nextId = 1
      /\ w.entities = << >>
      /\ w.zones = [z \in {ORIGIN} |-> NewZone("Origin")]
  BY DEF NewWorld
<1>2. NewZone("Origin") \in Zone /\ NewZone("Origin").entities = << >>
  BY NamesAssumption DEF NewZone, Zone
<1>3. w.entities \in [DOMAIN w.entities -> Entity] /\ DOMAIN w.entities = {}
  BY <1>1
<1>4. w.zones \in [DOMAIN w.zones -> Zone]
  BY <1>1, <1>2
<1>5. IsWorld(w)
  <2>1. DOMAIN w.zones = {ORIGIN}
    BY <1>1
  <2>2. DOMAIN w.zones \subseteq Nat /\ IsFiniteSet(DOMAIN w.zones)
    <3>1. ORIGIN \in Nat
      BY DEF ORIGIN
    <3>2. IsFiniteSet({ORIGIN})
      BY FS_Singleton
    <3> QED
      BY <2>1, <3>1, <3>2
  <2>3. w \in [metaTick : Nat, snapTick : Nat, cursor : Nat, seed : {w.seed},
               tick : Nat, rng : {w.rng}, nextId : Nat,
               entities : {w.entities}, zones : {w.zones}]
    BY DEF NewWorld
  <2> HIDE DEF w
  <2> QED
    BY <1>3, <1>4, <2>2, <2>3 DEF IsWorld
<1>6. \A z : Inside(w.entities, z) = {}
  BY <1>3 DEF Inside
<1>7. \A z \in DOMAIN w.zones : w.zones[z].entities = << >>
  BY <1>1, <1>2
<1> HIDE DEF w
<1>8. Placed(k, w) /\ Indexed(w)
  BY <1>3, <1>6, <1>7, EmptyIndex DEF Placed, Indexed
<1> QED
  BY <1>1, <1>5, <1>8 DEF WorldFrom, w

\* A save of a valid world is a valid world, and decodes.
LEMMA StampsKeep ==
  ASSUME NEW k \in Nat, NEW w, WorldFrom(k, w), NEW cursor \in Nat,
         NEW s, s = Stamped(w, cursor)
  PROVE  /\ WorldFrom(k, s) /\ s.snapTick = s.tick /\ s.cursor = cursor
         /\ s.metaTick = w.metaTick /\ s.seed = w.seed /\ s.tick = w.tick
         /\ s.rng = w.rng /\ s.nextId = w.nextId
         /\ s.entities = w.entities /\ s.zones = w.zones
<1>1. IsWorld(w) /\ w.metaTick = w.tick
  BY DEF WorldFrom
<1>2. s = [[[w EXCEPT !.metaTick = w.tick] EXCEPT !.snapTick = w.tick] EXCEPT !.cursor = cursor]
  BY DEF Stamped
<1>3. /\ IsWorld(s) /\ s.snapTick = s.tick /\ s.cursor = cursor
      /\ s.metaTick = w.metaTick /\ s.seed = w.seed /\ s.tick = w.tick
      /\ s.rng = w.rng /\ s.nextId = w.nextId
      /\ s.entities = w.entities /\ s.zones = w.zones
  BY <1>1, <1>2 DEF IsWorld
<1> QED
  BY <1>3 DEF WorldFrom, Placed, Indexed, HasZone

LEMMA ValidWorldsDecode ==
  ASSUME NEW s, WorldInv(s), s.snapTick = s.tick
  PROVE  ValidSnapshot(s)
<1>1. IsWorld(s) /\ Placed(1, s) /\ Indexed(s) /\ s.nextId # 0 /\ s.metaTick = s.tick
  BY DEF WorldInv, WorldFrom
<1>2. ValidEntityIds(s)
  BY <1>1 DEF Placed, ValidEntityIds
<1>3. ValidZoneIndex(s)
  <2>1. \A id \in DOMAIN s.entities : HasZone(s, s.entities[id].zone)
    BY <1>1 DEF Placed, HasZone
  <2>2. ASSUME NEW z \in DOMAIN s.zones
        PROVE  LET index == s.zones[z].entities IN
               /\ \A i, j \in DOMAIN index : index[i] = index[j] => i = j
               /\ {index[i] : i \in DOMAIN index} =
                    {id \in DOMAIN s.entities : s.entities[id].zone = z}
    <3> DEFINE index == s.zones[z].entities
    <3>1. IsIndex(index, Inside(s.entities, z))
      BY <1>1 DEF Indexed
    <3> HIDE DEF index
    <3>2. DOMAIN index = 1..Len(index)
      BY <3>1, LenProperties DEF IsIndex
    <3>3. {index[i] : i \in DOMAIN index} = Inside(s.entities, z)
      BY <3>1, <3>2 DEF IsIndex
    <3> QED
      BY <3>1, <3>2, <3>3 DEF IsIndex, Inside, index
  <2> QED
    BY <2>1, <2>2 DEF ValidZoneIndex
<1> QED
  BY <1>1, <1>2, <1>3 DEF ValidSnapshot

-----------------------------------------------------------------------------
(***************************************************************************)
(* Replay of a sequence of events, by its recursion.                       *)
(***************************************************************************)
After(w, events, f, i) == IF i = 0 THEN w ELSE ApplyEvent(f[i - 1], events[i])

Replays(w, events, n, f) == f = [i \in 0..n |-> After(w, events, f, i)]

LEMMA ReplaysExists ==
  ASSUME NEW w, NEW events, NEW n \in Nat
  PROVE  \E f : Replays(w, events, n, f)
<1> DEFINE Missing == {m \in Nat : ~\E f : Replays(w, events, m, f)}
<1> SUFFICES ASSUME Missing # {} PROVE FALSE
  OBVIOUS
<1>1. PICK m \in Missing : \A k \in Missing : m <= k
  <2>1. Missing \in SUBSET Nat
    OBVIOUS
  <2> QED
    BY <2>1, LeastElement
<1>2. m \in Nat /\ ~\E f : Replays(w, events, m, f)
  OBVIOUS
<1>3. CASE m = 0
  <2> DEFINE f == [i \in 0..0 |-> w]
  <2>1. \A i \in 0..0 : After(w, events, f, i) = w
    BY DEF After
  <2>2. f = [i \in 0..0 |-> After(w, events, f, i)]
    BY <2>1
  <2>3. Replays(w, events, 0, f)
    BY <2>2 DEF Replays
  <2> QED
    BY <1>2, <1>3, <2>3
<1>4. CASE m # 0
  <2>1. m - 1 \in Nat /\ m - 1 \notin Missing
    BY <1>1, <1>2, <1>4
  <2>2. PICK g : Replays(w, events, m - 1, g)
    BY <2>1
  <2> DEFINE f == [i \in 0..m |-> IF i = m THEN After(w, events, g, m) ELSE g[i]]
  <2>3. g = [i \in 0..(m - 1) |-> After(w, events, g, i)]
    BY <2>2 DEF Replays
  <2>4. ASSUME NEW i \in 0..m PROVE f[i] = After(w, events, f, i)
    <3>1. f[i] = After(w, events, g, i)
      <4>1. CASE i = m
        BY <4>1
      <4>2. CASE i # m
        <5>1. i \in 0..(m - 1)
          BY <1>2, <4>2
        <5>2. g[i] = After(w, events, g, i)
          <6> HIDE DEF f
          <6> QED
            BY <2>3, <5>1
        <5> QED
          BY <4>2, <5>2
      <4> QED
        BY <4>1, <4>2
    <3>2. CASE i = 0
      BY <3>1, <3>2 DEF After
    <3>3. CASE i # 0
      <4>1. i - 1 \in 0..m /\ i - 1 # m
        BY <1>2, <3>3
      <4>2. f[i - 1] = g[i - 1]
        BY <4>1
      <4> HIDE DEF f
      <4> QED
        BY <3>1, <4>2 DEF After
    <3> QED
      BY <3>2, <3>3
  <2>5. f = [i \in 0..m |-> f[i]]
    OBVIOUS
  <2> HIDE DEF f
  <2>6. f = [i \in 0..m |-> After(w, events, f, i)]
    BY <2>4, <2>5
  <2> QED
    BY <1>2, <2>6 DEF Replays
<1> QED
  BY <1>3, <1>4

\* The function that ReplayEvents takes its value from.
LEMMA ReplayFunction ==
  ASSUME NEW w, NEW events, Len(events) \in Nat
  PROVE  \E f : /\ ReplayEvents(w, events) = f[Len(events)]
                /\ \A i \in 0..Len(events) : f[i] = After(w, events, f, i)
<1> DEFINE N == Len(events)
           after == CHOOSE f : f = [i \in 0..N |-> After(w, events, f, i)]
<1>1. after = [i \in 0..N |-> After(w, events, after, i)]
  <2>1. \E f : f = [i \in 0..N |-> After(w, events, f, i)]
    BY ReplaysExists DEF Replays
  <2> HIDE DEF N
  <2> QED
    BY <2>1
<1>2. ReplayEvents(w, events) = after[N]
  BY DEF ReplayEvents, After
<1> HIDE DEF after
<1>3. \A i \in 0..N : after[i] = After(w, events, after, i)
  <2> HIDE DEF N
  <2> QED
    BY <1>1
<1> QED
  BY <1>2, <1>3

LEMMA ReplayNothing ==
  ASSUME NEW w
  PROVE  ReplayEvents(w, << >>) = w
<1>1. Len(<< >>) = 0 /\ 0 \in 0..Len(<< >>)
  OBVIOUS
<1>2. PICK f : /\ ReplayEvents(w, << >>) = f[Len(<< >>)]
               /\ \A i \in 0..Len(<< >>) : f[i] = After(w, << >>, f, i)
  BY <1>1, ReplayFunction
<1>3. f[0] = After(w, << >>, f, 0)
  BY <1>1, <1>2
<1> QED
  BY <1>1, <1>2, <1>3 DEF After

LEMMA ReplayOneMore ==
  ASSUME NEW w, NEW S, NEW events \in Seq(S), NEW e \in S
  PROVE  ReplayEvents(w, Append(events, e)) = ApplyEvent(ReplayEvents(w, events), e)
<1> DEFINE longer == Append(events, e)
           N == Len(events)
<1>1. /\ longer \in Seq(S) /\ N \in Nat /\ Len(longer) = N + 1 /\ Len(longer) \in Nat
      /\ longer[N + 1] = e
      /\ \A i \in 1..N : longer[i] = events[i]
  OBVIOUS
<1> HIDE DEF longer
<1>2. PICK f : /\ ReplayEvents(w, events) = f[N]
               /\ \A i \in 0..N : f[i] = After(w, events, f, i)
  BY <1>1, ReplayFunction
<1>3. PICK g : /\ ReplayEvents(w, longer) = g[Len(longer)]
               /\ \A i \in 0..Len(longer) : g[i] = After(w, longer, g, i)
  BY <1>1, ReplayFunction
<1> DEFINE Differ == {i \in 0..N : f[i] # g[i]}
<1>4. Differ = {}
  <2> SUFFICES ASSUME Differ # {} PROVE FALSE
    OBVIOUS
  <2>1. PICK m \in Differ : \A k \in Differ : m <= k
    <3>1. Differ \in SUBSET Nat
      BY <1>1
    <3> QED
      BY <3>1, LeastElement
  <2>2. m \in 0..N /\ f[m] # g[m] /\ m \in 0..Len(longer)
    BY <1>1
  <2>3. f[m] = After(w, events, f, m) /\ g[m] = After(w, longer, g, m)
    BY <1>2, <1>3, <2>2
  <2>4. CASE m = 0
    BY <2>2, <2>3, <2>4 DEF After
  <2>5. CASE m # 0
    <3>1. m \in 1..N /\ m - 1 \in 0..N /\ m - 1 < m
      BY <1>1, <2>2, <2>5
    <3>2. m - 1 \notin Differ
      BY <1>1, <2>1, <3>1
    <3>3. f[m - 1] = g[m - 1]
      BY <3>1, <3>2
    <3> QED
      BY <1>1, <2>2, <2>3, <2>5, <3>1, <3>3 DEF After
  <2> QED
    BY <2>4, <2>5
<1>5. f[N] = g[N]
  <2>1. N \in 0..N /\ N \notin Differ
    <3> HIDE DEF Differ
    <3> QED
      BY <1>1, <1>4
  <2> QED
    BY <2>1
<1>6. g[N + 1] = ApplyEvent(g[N], longer[N + 1])
  <2>1. N + 1 \in 0..Len(longer) /\ N + 1 # 0 /\ (N + 1) - 1 = N
    BY <1>1
  <2> QED
    BY <1>3, <2>1 DEF After
<1> QED
  BY <1>1, <1>2, <1>3, <1>5, <1>6 DEF longer

LEMMA PrefixGrows ==
  ASSUME NEW S, NEW s \in Seq(S), NEW n \in 1..Len(s)
  PROVE  /\ SubSeq(s, 1, n - 1) \in Seq(S) /\ s[n] \in S
         /\ SubSeq(s, 1, n) = Append(SubSeq(s, 1, n - 1), s[n])
<1>1. Len(s) \in Nat /\ \A i \in 1..Len(s) : s[i] \in S
  BY LenProperties, ElementOfSeq
<1>2. \A i \in 1..(n - 1) : s[i] \in S
  BY <1>1
<1>3. SubSeq(s, 1, n - 1) \in Seq(S)
  BY <1>1, <1>2, SubSeqProperties
<1>4. SubSeq(s, 1, n) = SubSeq(s, 1, n - 1) \o << s[n] >>
  <2>1. 1 \in 1..Len(s) /\ n \in 1..Len(s)
    BY <1>1
  <2> QED
    BY <2>1, SubSeqRecursiveSecond
<1>5. Append(SubSeq(s, 1, n - 1), s[n]) = SubSeq(s, 1, n - 1) \o << s[n] >>
  BY <1>1, <1>3, AppendIsConcat
<1> QED
  BY <1>1, <1>3, <1>4, <1>5

LEMMA ReplayConcat ==
  ASSUME NEW w, NEW S, NEW s \in Seq(S), NEW r \in Seq(S)
  PROVE  ReplayEvents(w, s \o r) = ReplayEvents(ReplayEvents(w, s), r)
<1> DEFINE Prefix(n) == SubSeq(r, 1, n)
           Good(n) == ReplayEvents(w, s \o Prefix(n)) = ReplayEvents(ReplayEvents(w, s), Prefix(n))
           Bad == {n \in 0..Len(r) : ~Good(n)}
<1>1. Len(r) \in Nat
  OBVIOUS
<1>2. Bad = {}
  <2> SUFFICES ASSUME Bad # {} PROVE FALSE
    OBVIOUS
  <2>1. PICK m \in Bad : \A k \in Bad : m <= k
    <3>1. Bad \in SUBSET Nat
      BY <1>1
    <3> QED
      BY <3>1, LeastElement
  <2>2. m \in 0..Len(r) /\ ~Good(m)
    OBVIOUS
  <2>3. CASE m = 0
    <3>1. Prefix(0) = << >>
      BY SubSeqEmpty
    <3>2. s \o << >> = s
      BY ConcatEmptySeq
    <3> QED
      BY <2>2, <2>3, <3>1, <3>2, ReplayNothing
  <2>4. CASE m # 0
    <3>1. m \in 1..Len(r) /\ m - 1 \in 0..Len(r) /\ m - 1 < m
      BY <1>1, <2>2, <2>4
    <3>2. Good(m - 1)
      <4>1. m - 1 \notin Bad
        BY <1>1, <2>1, <3>1
      <4> QED
        BY <3>1, <4>1
    <3>3. /\ Prefix(m - 1) \in Seq(S) /\ r[m] \in S
          /\ Prefix(m) = Append(Prefix(m - 1), r[m])
      BY <3>1, PrefixGrows
    <3> HIDE DEF Prefix
    <3> DEFINE before == s \o Prefix(m - 1)
    <3>4. s \o Prefix(m) = Append(before, r[m]) /\ before \in Seq(S)
      BY <3>3
    <3> HIDE DEF before
    <3>5. ReplayEvents(w, s \o Prefix(m)) = ApplyEvent(ReplayEvents(w, before), r[m])
      <4>1. before \in Seq(S) /\ r[m] \in S
        BY <3>3, <3>4
      <4>2. ReplayEvents(w, Append(before, r[m])) = ApplyEvent(ReplayEvents(w, before), r[m])
        BY <4>1, ReplayOneMore
      <4> QED
        BY <3>4, <4>2
    <3>6. ReplayEvents(ReplayEvents(w, s), Prefix(m)) =
            ApplyEvent(ReplayEvents(ReplayEvents(w, s), Prefix(m - 1)), r[m])
      BY <3>3, ReplayOneMore
    <3> QED
      BY <2>2, <3>2, <3>5, <3>6 DEF before
  <2> QED
    BY <2>3, <2>4
<1>3. Good(Len(r))
  <2>1. Len(r) \in 0..Len(r)
    BY <1>1
  <2>2. Len(r) \notin Bad
    <3> HIDE DEF Bad
    <3> QED
      BY <1>2
  <2> QED
    BY <2>1, <2>2
<1>4. Prefix(Len(r)) = r
  BY SubSeqFull
<1> QED
  BY <1>3, <1>4

-----------------------------------------------------------------------------
(***************************************************************************)
(* Worlds that differ in nothing but what a save stamps.                   *)
(***************************************************************************)
Alike(v, w) ==
  /\ v.metaTick = w.metaTick /\ v.seed = w.seed /\ v.tick = w.tick
  /\ v.rng = w.rng /\ v.nextId = w.nextId
  /\ v.entities = w.entities /\ v.zones = w.zones

LEMMA AcceptsAlike ==
  ASSUME NEW v, NEW w, Alike(v, w), NEW e, Accepts(v, e)
  PROVE  Accepts(w, e)
BY DEF Alike, Accepts, InTime, Fits, CreatedFits, ZoneFits, SpawnFits, SpawnAgrees, MoveFits,
       StateFits, PropertyFits, PropertyValue, DepletionFits, DegradationFits,
       HasZone, HasEntity, InZone

\* A world's fields, of any type.
Shape(w) ==
  w \in [metaTick : {w.metaTick}, snapTick : {w.snapTick}, cursor : {w.cursor},
         seed : {w.seed}, tick : {w.tick}, rng : {w.rng}, nextId : {w.nextId},
         entities : {w.entities}, zones : {w.zones}]

\* v is w but for its entities, its zones and its next id.
Frame(w, v) ==
  /\ Shape(v)
  /\ v.metaTick = w.metaTick /\ v.snapTick = w.snapTick /\ v.cursor = w.cursor
  /\ v.seed = w.seed /\ v.tick = w.tick /\ v.rng = w.rng

LEMMA WorldShape ==
  ASSUME NEW w, IsWorld(w)
  PROVE  Shape(w)
BY DEF IsWorld, Shape

LEMMA TicksAlike ==
  ASSUME NEW v, NEW w, IsWorld(v), IsWorld(w), Alike(v, w), NEW t \in Nat
  PROVE  Alike(AtTick(v, t), AtTick(w, t))
BY DEF Alike, AtTick, IsWorld

LEMMA EnteredAlike ==
  ASSUME NEW v, NEW w, Shape(v), Shape(w), Alike(v, w), NEW z, NEW id
  PROVE  Alike(EnterZone(v, z, id), EnterZone(w, z, id))
<1>1. /\ HasZone(v, z) <=> HasZone(w, z)
      /\ InZone(v, z, id) <=> InZone(w, z, id)
  BY DEF Alike, HasZone, InZone
<1> DEFINE index == Append(w.zones[z].entities, id)
           zones == [w.zones EXCEPT ![z].entities = index]
<1>2. CASE HasZone(v, z) /\ ~InZone(v, z, id)
  <2>1. /\ EnterZone(v, z, id) = [v EXCEPT !.zones = zones]
        /\ EnterZone(w, z, id) = [w EXCEPT !.zones = zones]
    BY <1>1, <1>2 DEF EnterZone, Alike, Shape
  <2> HIDE DEF zones
  <2> QED
    BY <2>1 DEF Alike, Shape
<1>3. CASE ~(HasZone(v, z) /\ ~InZone(v, z, id))
  BY <1>1, <1>3 DEF EnterZone
<1> QED
  BY <1>2, <1>3

LEMMA EnteredFrame ==
  ASSUME NEW w, Shape(w), NEW z, NEW id
  PROVE  LET v == EnterZone(w, z, id)
         IN  Frame(w, v) /\ v.entities = w.entities /\ v.nextId = w.nextId
BY DEF EnterZone, Frame, Shape

LEMMA LeftAlike ==
  ASSUME NEW v, NEW w, Shape(v), Shape(w), Alike(v, w), NEW z, NEW id
  PROVE  Alike(LeaveZone(v, z, id), LeaveZone(w, z, id))
<1>1. HasZone(v, z) <=> HasZone(w, z)
  BY DEF Alike, HasZone
<1> DEFINE index == Without(w.zones[z].entities, id)
           zones == [w.zones EXCEPT ![z].entities = index]
<1>2. CASE HasZone(v, z)
  <2>1. /\ LeaveZone(v, z, id) = [v EXCEPT !.zones = zones]
        /\ LeaveZone(w, z, id) = [w EXCEPT !.zones = zones]
    BY <1>1, <1>2 DEF LeaveZone, Alike, Shape
  <2> HIDE DEF zones
  <2> QED
    BY <2>1 DEF Alike, Shape
<1>3. CASE ~HasZone(v, z)
  BY <1>1, <1>3 DEF LeaveZone
<1> QED
  BY <1>2, <1>3

LEMMA LeftFrame ==
  ASSUME NEW w, Shape(w), NEW z, NEW id
  PROVE  LET v == LeaveZone(w, z, id)
         IN  Frame(w, v) /\ v.entities = w.entities /\ v.nextId = w.nextId
BY DEF LeaveZone, Frame, Shape


-----------------------------------------------------------------------------
(***************************************************************************)
(* The absence of a world is told from every world (None is a model value  *)
(* when TLC runs).                                                         *)
(***************************************************************************)
NoneIsNoWorld == \A w : IsWorld(w) => w # None

(***************************************************************************)
(* The events the kernel writes.                                           *)
(***************************************************************************)
Draws == 0..(RngModulus - 1)

KernelEvent ==
       [type : {"WorldCreated"}, tick : Nat, seed : Nat]
  \cup [type : {"TickProcessed"}, tick : Nat, at : Nat, rng : Draws]
  \cup [type : {"ZoneCreated"}, tick : Nat, zone : Nat, name : ZoneNames]
  \cup [type : {"EntitySpawned"}, tick : Nat, id : Nat \ {0}, kind : EntityKind,
        zone : Nat, amount : Nat \cup {None}, health : Nat \cup {None}]
  \cup [type : {"EntityDespawned"}, tick : Nat, id : Nat]
  \cup [type : {"EntityStateChanged"}, tick : Nat, id : Nat,
        old : EntityState, new : {"Dead"}]
  \cup [type : {"ResourceDepleted"}, tick : Nat, id : Nat, amount : {1}, remaining : Nat]
  \cup [type : {"EntityDegraded"}, tick : Nat, id : Nat, old : Nat, new : Nat]

LEMMA KernelEventFields ==
  ASSUME NEW e \in KernelEvent
  PROVE  EventFields(1, e)
<1>1. CASE e \in [type : {"WorldCreated"}, tick : Nat, seed : Nat]
  BY <1>1 DEF EventFields, EventTypes
<1>2. CASE e \in [type : {"TickProcessed"}, tick : Nat, at : Nat, rng : Draws]
  BY <1>2 DEF EventFields, EventTypes
<1>3. CASE e \in [type : {"ZoneCreated"}, tick : Nat, zone : Nat, name : ZoneNames]
  BY <1>3 DEF EventFields, EventTypes
<1>4. CASE e \in [type : {"EntitySpawned"}, tick : Nat, id : Nat \ {0}, kind : EntityKind,
                  zone : Nat, amount : Nat \cup {None}, health : Nat \cup {None}]
  <2>1. NewEntity(e.kind, e.zone, e.tick, e.amount, e.health) \in Entity
    BY <1>4 DEF NewEntity, Entity, EntityKind, EntityState
  <2> QED
    BY <1>4, <2>1 DEF EventFields, EventTypes
<1>5. CASE e \in [type : {"EntityDespawned"}, tick : Nat, id : Nat]
  BY <1>5 DEF EventFields, EventTypes, OnEntity
<1>6. CASE e \in [type : {"EntityStateChanged"}, tick : Nat, id : Nat,
                  old : EntityState, new : {"Dead"}]
  BY <1>6 DEF EventFields, EventTypes, OnEntity, EntityState
<1>7. CASE e \in [type : {"ResourceDepleted"}, tick : Nat, id : Nat, amount : {1}, remaining : Nat]
  BY <1>7 DEF EventFields, EventTypes, OnEntity
<1>8. CASE e \in [type : {"EntityDegraded"}, tick : Nat, id : Nat, old : Nat, new : Nat]
  BY <1>8 DEF EventFields, EventTypes, OnEntity
<1> QED
  BY <1>1, <1>2, <1>3, <1>4, <1>5, <1>6, <1>7, <1>8 DEF KernelEvent

KernelTypes ==
  {"WorldCreated", "TickProcessed", "ZoneCreated", "EntitySpawned", "EntityDespawned",
   "EntityStateChanged", "ResourceDepleted", "EntityDegraded"}

LEMMA KernelEventTypes ==
  ASSUME NEW e \in KernelEvent
  PROVE  e.type \in KernelTypes /\ e.tick \in Nat
BY DEF KernelEvent, KernelTypes

(***************************************************************************)
(* The effect of such an event on two worlds that differ in the stamps     *)
(* only, and what it leaves alone.                                         *)
(***************************************************************************)
LEMMA SpawnedAlike ==
  ASSUME NEW v, NEW w, Shape(v), Shape(w), Alike(v, w), NEW e
  PROVE  Alike(Spawn(v, e), Spawn(w, e)) /\ Frame(w, Spawn(w, e))
<1> DEFINE entity == NewEntity(e.kind, e.zone, e.tick, e.amount, e.health)
           entities == Put(w.entities, e.id, entity)
           next == IF e.id >= w.nextId THEN e.id + 1 ELSE w.nextId
           v1 == [[v EXCEPT !.nextId = next] EXCEPT !.entities = entities]
           w1 == [[w EXCEPT !.nextId = next] EXCEPT !.entities = entities]
<1>1. /\ Spawn(v, e) = EnterZone(v1, e.zone, e.id)
      /\ Spawn(w, e) = EnterZone(w1, e.zone, e.id)
  BY DEF Spawn, AddEntity, NewEntity, Alike, Shape
<1> HIDE DEF entities, next
<1>2. Shape(v1) /\ Shape(w1) /\ Alike(v1, w1) /\ Frame(w, w1)
  BY DEF Shape, Alike, Frame
<1> HIDE DEF v1, w1
<1>3. Frame(w1, EnterZone(w1, e.zone, e.id))
  BY <1>2, EnteredFrame
<1> QED
  BY <1>1, <1>2, <1>3, EnteredAlike DEF Frame

LEMMA RemovedAlike ==
  ASSUME NEW v, NEW w, Shape(v), Shape(w), Alike(v, w), NEW id
  PROVE  /\ Alike(RemoveEntity(v, id), RemoveEntity(w, id))
         /\ Frame(w, RemoveEntity(w, id))
         /\ RemoveEntity(w, id).nextId = w.nextId
         /\ DOMAIN RemoveEntity(w, id).entities = DOMAIN w.entities \ {id}
         /\ \A i \in DOMAIN w.entities \ {id} :
              RemoveEntity(w, id).entities[i] = w.entities[i]
<1> DEFINE entities == Restrict(w.entities, DOMAIN w.entities \ {id})
           zone == w.entities[id].zone
           v1 == [v EXCEPT !.entities = entities]
           w1 == [w EXCEPT !.entities = entities]
<1>1. /\ RemoveEntity(v, id) = LeaveZone(v1, zone, id)
      /\ RemoveEntity(w, id) = LeaveZone(w1, zone, id)
  BY DEF RemoveEntity, Alike, Shape
<1> HIDE DEF entities, zone
<1>2. /\ Shape(v1) /\ Shape(w1) /\ Alike(v1, w1) /\ Frame(w, w1)
      /\ w1.nextId = w.nextId /\ w1.entities = entities
  BY DEF Shape, Alike, Frame
<1> HIDE DEF v1, w1
<1>3. /\ Frame(w1, LeaveZone(w1, zone, id)) /\ LeaveZone(w1, zone, id).nextId = w1.nextId
      /\ LeaveZone(w1, zone, id).entities = w1.entities
  BY <1>2, LeftFrame
<1>4. /\ DOMAIN entities = DOMAIN w.entities \ {id}
      /\ \A i \in DOMAIN w.entities \ {id} : entities[i] = w.entities[i]
  BY DEF Restrict, entities
<1> QED
  BY <1>1, <1>2, <1>3, <1>4, LeftAlike DEF Frame

LEMMA EffectAlike ==
  ASSUME NEW v, NEW w, WorldInv(v), WorldInv(w), Alike(v, w),
         NEW e \in KernelEvent, Accepts(v, e)
  PROVE  Alike(Effect(v, e), Effect(w, e))
<1> DEFINE v1 == AtTick(v, e.tick)
           w1 == AtTick(w, e.tick)
<1>1. e.type \in KernelTypes /\ e.tick \in Nat
  BY KernelEventTypes
<1>2. Shape(v1) /\ Shape(w1) /\ Alike(v1, w1)
  <2>1. WorldInv(v1) /\ WorldInv(w1)
    BY <1>1, TicksKeep DEF WorldInv
  <2>2. Alike(v1, w1)
    BY <1>1, TicksAlike DEF WorldInv, WorldFrom
  <2> QED
    BY <2>1, <2>2, WorldShape DEF WorldInv, WorldFrom
<1> HIDE DEF v1, w1
<1>3. HasEntity(v1, e.id) <=> HasEntity(w1, e.id)
  BY <1>2 DEF Alike, HasEntity
<1>4. CASE e.type = "WorldCreated"
  BY <1>2, <1>4 DEF Effect, v1, w1
<1>5. CASE e.type = "TickProcessed"
  <2>1. Effect(v, e) = Restored(v1, e) /\ Effect(w, e) = Restored(w1, e)
    BY <1>5 DEF Effect, v1, w1
  <2> QED
    BY <1>2, <2>1 DEF Restored, Shape, Alike
<1>6. CASE e.type = "ZoneCreated"
  <2>1. Effect(v, e) = AnnounceZone(v1, e) /\ Effect(w, e) = AnnounceZone(w1, e)
    BY <1>6 DEF Effect, v1, w1
  <2> DEFINE zones == Put(w1.zones, e.zone, NewZone(e.name))
  <2>2. CASE HasZone(w1, e.zone)
    <3>1. HasZone(v1, e.zone)
      BY <1>2, <2>2 DEF HasZone, Alike
    <3> QED
      BY <1>2, <2>1, <2>2, <3>1 DEF AnnounceZone
  <2>3. CASE ~HasZone(w1, e.zone)
    <3>1. ~HasZone(v1, e.zone)
      BY <1>2, <2>3 DEF HasZone, Alike
    <3>2. Effect(v, e) = [v1 EXCEPT !.zones = zones] /\ Effect(w, e) = [w1 EXCEPT !.zones = zones]
      BY <1>2, <2>1, <2>3, <3>1 DEF AnnounceZone, AddZone, Alike, Shape
    <3> HIDE DEF zones
    <3> QED
      BY <1>2, <3>2 DEF Shape, Alike
  <2> QED
    BY <2>2, <2>3
<1>7. CASE e.type = "EntitySpawned"
  <2>1. /\ Effect(v, e) = IF HasEntity(v1, e.id) THEN v1 ELSE Spawn(v1, e)
        /\ Effect(w, e) = IF HasEntity(w1, e.id) THEN w1 ELSE Spawn(w1, e)
    BY <1>7 DEF Effect, v1, w1
  <2>2. Alike(Spawn(v1, e), Spawn(w1, e))
    BY <1>2, SpawnedAlike
  <2> QED
    BY <1>2, <1>3, <2>1, <2>2
<1>8. CASE e.type = "EntityDespawned"
  <2>1. Effect(v, e) = RemoveEntity(v1, e.id) /\ Effect(w, e) = RemoveEntity(w1, e.id)
    BY <1>8 DEF Effect, v1, w1
  <2> QED
    BY <1>2, <2>1, RemovedAlike
<1> DEFINE state == [w1.entities EXCEPT ![e.id].state = e.new]
           amount == [w1.entities EXCEPT ![e.id].amount = e.remaining]
           health == [w1.entities EXCEPT ![e.id].health = e.new]
<1>9. CASE e.type = "EntityStateChanged"
  <2>1. Effect(v, e) = [v1 EXCEPT !.entities = state] /\ Effect(w, e) = [w1 EXCEPT !.entities = state]
    BY <1>2, <1>9 DEF Effect, v1, w1, ChangeState, Alike, Shape
  <2> HIDE DEF state
  <2> QED
    BY <1>2, <2>1 DEF Shape, Alike
<1>10. CASE e.type = "ResourceDepleted"
  <2>1. Effect(v, e) = [v1 EXCEPT !.entities = amount] /\ Effect(w, e) = [w1 EXCEPT !.entities = amount]
    BY <1>2, <1>10 DEF Effect, v1, w1, Deplete, Alike, Shape
  <2> HIDE DEF amount
  <2> QED
    BY <1>2, <2>1 DEF Shape, Alike
<1>11. CASE e.type = "EntityDegraded"
  <2>1. Effect(v, e) = [v1 EXCEPT !.entities = health] /\ Effect(w, e) = [w1 EXCEPT !.entities = health]
    BY <1>2, <1>11 DEF Effect, v1, w1, Degrade, Alike, Shape
  <2> HIDE DEF health
  <2> QED
    BY <1>2, <2>1 DEF Shape, Alike
<1> QED
  BY <1>1, <1>4, <1>5, <1>6, <1>7, <1>8, <1>9, <1>10, <1>11 DEF KernelTypes

LEMMA EffectFrame ==
  ASSUME NEW w, WorldInv(w), NEW e \in KernelEvent, Accepts(w, e)
  PROVE  LET v == Effect(w, e)
         IN  /\ Shape(v) /\ v.seed = w.seed /\ v.tick = e.tick
             /\ e.type # "TickProcessed" => v.rng = w.rng
<1> DEFINE w1 == AtTick(w, e.tick)
           v == Effect(w, e)
<1>1. e.type \in KernelTypes /\ e.tick \in Nat
  BY KernelEventTypes
<1>2. Shape(w1) /\ w1.seed = w.seed /\ w1.tick = e.tick /\ w1.rng = w.rng
  <2>1. w.tick \in Nat /\ e.tick \in {w.tick, w.tick + 1}
    BY DEF WorldInv, WorldFrom, IsWorld, Accepts, InTime
  <2>2. Shape(w)
    BY WorldShape DEF WorldInv, WorldFrom
  <2>3. CASE e.tick = w.tick
    BY <2>1, <2>2, <2>3 DEF AtTick
  <2>4. CASE e.tick = w.tick + 1
    <3>1. w1 = [w EXCEPT !.tick = e.tick, !.metaTick = e.tick]
      BY <2>1, <2>4 DEF AtTick
    <3> QED
      BY <2>2, <3>1 DEF Shape
  <2> QED
    BY <2>1, <2>3, <2>4
<1> HIDE DEF w1
<1> SUFFICES /\ Shape(v) /\ v.seed = w1.seed /\ v.tick = w1.tick
             /\ e.type # "TickProcessed" => v.rng = w1.rng
  BY <1>2
<1>4. CASE e.type = "WorldCreated"
  BY <1>2, <1>4 DEF Effect, w1, Frame
<1>5. CASE e.type = "TickProcessed"
  BY <1>2, <1>5 DEF Effect, w1, Frame, Restored, Shape
<1>6. CASE e.type = "ZoneCreated"
  <2>1. v = AnnounceZone(w1, e)
    BY <1>6 DEF Effect, w1
  <2> DEFINE zones == Put(w1.zones, e.zone, NewZone(e.name))
  <2>2. v = w1 \/ v = [w1 EXCEPT !.zones = zones]
    BY <2>1 DEF AnnounceZone, AddZone
  <2> HIDE DEF zones, v
  <2> QED
    BY <1>2, <2>2 DEF Frame, Shape
<1>7. CASE e.type = "EntitySpawned"
  <2>1. v = IF HasEntity(w1, e.id) THEN w1 ELSE Spawn(w1, e)
    BY <1>7 DEF Effect, w1
  <2>2. Frame(w1, Spawn(w1, e))
    BY <1>2, SpawnedAlike DEF Alike
  <2> QED
    BY <1>2, <2>1, <2>2 DEF Frame
<1>8. CASE e.type = "EntityDespawned"
  <2>1. v = RemoveEntity(w1, e.id)
    BY <1>8 DEF Effect, w1
  <2>2. Frame(w1, RemoveEntity(w1, e.id))
    BY <1>2, RemovedAlike DEF Alike
  <2> QED
    BY <2>1, <2>2 DEF Frame
<1>9. CASE e.type \in {"EntityStateChanged", "ResourceDepleted", "EntityDegraded"}
  BY <1>2, <1>9 DEF Effect, w1, ChangeState, Deplete, Degrade, Shape, Frame
<1> QED
  BY <1>1, <1>4, <1>5, <1>6, <1>7, <1>8, <1>9 DEF KernelTypes

-----------------------------------------------------------------------------
(***************************************************************************)
(* What the log of a world says of it: when its events happened, which ids *)
(* it has given, what was taken from its resources and which of its        *)
(* entities are dead.                                                      *)
(***************************************************************************)
TickBefore(log, i) == IF i = 1 THEN 0 ELSE log[i - 1].tick

LastTick(log) == IF Len(log) = 0 THEN 0 ELSE log[Len(log)].tick

Ticked(log, n) == {k \in 1..n : log[k].type = "TickProcessed"}

TicksDone(log) == Cardinality(Ticked(log, Len(log)))

Depletions(log, id) ==
  {k \in DOMAIN log : /\ log[k].type = "ResourceDepleted"
                      /\ log[k].id = id}

Stepping(w, log) ==
  /\ \A i \in 1..Len(log) : log[i].tick \in {TickBefore(log, i), TickBefore(log, i) + 1}
  /\ w.tick \in {LastTick(log), LastTick(log) + 1}

\* What is logged of an entity is of one that was given its id.
Known(w, log) ==
  \A i \in DOMAIN log :
    log[i].type \in {"EntitySpawned", "ResourceDepleted", "EntityStateChanged"} =>
      log[i].id < w.nextId

SpawnsDiffer(log) ==
  \A i, j \in DOMAIN log :
    /\ log[i].type = "EntitySpawned" /\ log[j].type = "EntitySpawned"
    /\ log[i].id = log[j].id
    => i = j

AmountsAddUp(w, log) ==
  \A i \in DOMAIN log :
    /\ log[i].type = "EntitySpawned" /\ log[i].amount # None
    /\ HasEntity(w, log[i].id)
    => w.entities[log[i].id].amount =
         log[i].amount - Cardinality(Depletions(log, log[i].id))

\* What died and was not removed is dead, and died since the last reaping of the ticks that are closed.
DeathsRecent(w, log) ==
  \A i \in DOMAIN log :
    /\ log[i].type = "EntityStateChanged"
    /\ HasEntity(w, log[i].id)
    => /\ w.entities[log[i].id].state = "Dead"
       /\ log[i].tick > (TicksDone(log) \div ReapEvery) * ReapEvery

Closing(log) ==
  \A i \in DOMAIN log :
    log[i].type = "TickProcessed" =>
      /\ log[i].tick = 1 + Cardinality(Ticked(log, i - 1))
      /\ log[i].tick <= TicksDone(log)
      /\ \A k \in (i + 1)..Len(log) :
           log[k].tick = log[i].tick =>
             log[k].type \in {"EntitySpawned", "EntityDespawned", "ZoneCreated"}

Logged(w, log) ==
  /\ Stepping(w, log) /\ Known(w, log) /\ SpawnsDiffer(log)
  /\ AmountsAddUp(w, log) /\ DeathsRecent(w, log) /\ Closing(log)

\* Between two ticks, and within one.
Closed(w, log) == TicksDone(log) = w.tick /\ LastTick(log) = w.tick

Open(w, log) == TicksDone(log) + 1 = w.tick

LEMMA OneMoreEvent ==
  ASSUME NEW log \in Seq(KernelEvent), NEW e \in KernelEvent
  PROVE  LET n == Len(log)
             more == Append(log, e)
         IN  /\ n \in Nat /\ Len(more) = n + 1 /\ more \in Seq(KernelEvent)
             /\ DOMAIN log = 1..n /\ DOMAIN more = 1..(n + 1)
             /\ \A i \in 1..n : more[i] = log[i] /\ log[i] \in KernelEvent
             /\ more[n + 1] = e
OBVIOUS

LEMMA TicksAppended ==
  ASSUME NEW log \in Seq(KernelEvent), NEW e \in KernelEvent
  PROVE  LET more == Append(log, e)
         IN  /\ TicksDone(log) \in Nat
             /\ TicksDone(more) = IF e.type = "TickProcessed" THEN TicksDone(log) + 1 ELSE TicksDone(log)
             /\ \A m \in 0..Len(log) : Ticked(more, m) = Ticked(log, m)
<1> DEFINE n == Len(log)
           more == Append(log, e)
           S == Ticked(log, n)
<1>1. /\ n \in Nat /\ Len(more) = n + 1
      /\ \A i \in 1..n : more[i] = log[i]
      /\ more[n + 1] = e
  BY OneMoreEvent
<1> HIDE DEF n, more
<1>2. ASSUME NEW m \in 0..n PROVE Ticked(more, m) = Ticked(log, m)
  BY <1>1 DEF Ticked
<1>3. IsFiniteSet(S) /\ Cardinality(S) \in Nat
  <2>1. IsFiniteSet(1..n)
    BY <1>1, FS_Interval
  <2>2. S \subseteq 1..n
    BY DEF Ticked
  <2> QED
    BY <2>1, <2>2, FS_Subset, FS_CardinalityType
<1>4. CASE e.type = "TickProcessed"
  <2>1. Ticked(more, n + 1) = S \cup {n + 1}
    BY <1>1, <1>4 DEF Ticked
  <2>2. n + 1 \notin S
    BY <1>1 DEF Ticked
  <2>3. Cardinality(S \cup {n + 1}) = Cardinality(S) + 1
    BY <1>3, <2>2, FS_AddElement
  <2> QED
    BY <1>1, <1>2, <1>3, <1>4, <2>1, <2>3 DEF TicksDone, n, more
<1>5. CASE e.type # "TickProcessed"
  <2>1. Ticked(more, n + 1) = S
    BY <1>1, <1>5 DEF Ticked
  <2> QED
    BY <1>1, <1>2, <1>3, <1>5, <2>1 DEF TicksDone, n, more
<1> QED
  BY <1>4, <1>5

LEMMA DepletionsAppended ==
  ASSUME NEW log \in Seq(KernelEvent), NEW e \in KernelEvent, NEW id
  PROVE  LET more == Append(log, e)
             taken == Cardinality(Depletions(log, id))
         IN  /\ taken \in Nat
             /\ Cardinality(Depletions(more, id)) =
                  IF e.type = "ResourceDepleted" /\ e.id = id THEN taken + 1 ELSE taken
<1> DEFINE n == Len(log)
           more == Append(log, e)
           S == Depletions(log, id)
<1>1. /\ n \in Nat /\ DOMAIN log = 1..n /\ DOMAIN more = 1..(n + 1)
      /\ \A i \in 1..n : more[i] = log[i]
      /\ more[n + 1] = e
  BY OneMoreEvent
<1> HIDE DEF n, more
<1>2. IsFiniteSet(S) /\ Cardinality(S) \in Nat
  <2>1. IsFiniteSet(1..n)
    BY <1>1, FS_Interval
  <2>2. S \subseteq 1..n
    BY <1>1 DEF Depletions
  <2> QED
    BY <2>1, <2>2, FS_Subset, FS_CardinalityType
<1>3. CASE e.type = "ResourceDepleted" /\ e.id = id
  <2>1. Depletions(more, id) = S \cup {n + 1}
    BY <1>1, <1>3 DEF Depletions
  <2>2. n + 1 \notin S
    BY <1>1 DEF Depletions
  <2>3. Cardinality(S \cup {n + 1}) = Cardinality(S) + 1
    BY <1>2, <2>2, FS_AddElement
  <2> QED
    BY <1>2, <1>3, <2>1, <2>3 DEF more
<1>4. CASE ~(e.type = "ResourceDepleted" /\ e.id = id)
  <2>1. Depletions(more, id) = S
    BY <1>1, <1>4 DEF Depletions
  <2> QED
    BY <1>2, <1>4, <2>1 DEF more
<1> QED
  BY <1>3, <1>4

\* Events of a world that has events, and how the kernel comes to write them.
Fresh(w, log, e) ==
  /\ e.type # "WorldCreated" /\ e.tick = w.tick
  /\ e.type = "EntitySpawned" => e.id = w.nextId
  /\ e.type \in {"EntitySpawned", "EntityDespawned", "ZoneCreated"} \/ Open(w, log)
  /\ e.type = "TickProcessed" /\ w.tick % ReapEvery = 0 => DeadIds(w) = {}

\* The events Known speaks of.
Named == {"EntitySpawned", "ResourceDepleted", "EntityStateChanged"}

LEMMA KernelEventValues ==
  ASSUME NEW e \in KernelEvent
  PROVE  /\ e.type \in Named => e.id \in Nat
         /\ e.type = "EntitySpawned" => e.amount \in Nat \cup {None}
         /\ e.type = "ResourceDepleted" => e.amount = 1 /\ e.remaining \in Nat
         /\ e.type = "EntityStateChanged" => e.new = "Dead"
BY DEF KernelEvent, Named

(***************************************************************************)
(* What a fresh event does to the entities.                                *)
(***************************************************************************)
LEMMA EntitiesAfter ==
  ASSUME NEW w, WorldInv(w), NEW e \in KernelEvent, e.tick = w.tick, Accepts(w, e),
         e.type = "EntitySpawned" => e.id = w.nextId
  PROVE  LET v == Effect(w, e)
         IN  /\ v.nextId \in Nat /\ w.nextId \in Nat /\ w.nextId <= v.nextId
             /\ e.type \in Named => e.id < v.nextId
             /\ \A id \in DOMAIN v.entities :
                  \/ /\ e.type = "EntitySpawned" /\ id = e.id
                     /\ v.entities[id].amount = e.amount
                  \/ /\ id \in DOMAIN w.entities /\ id < w.nextId
                     /\ v.entities[id].amount =
                          IF e.type = "ResourceDepleted" /\ e.id = id
                            THEN w.entities[id].amount - 1 ELSE w.entities[id].amount
                     /\ \/ w.entities[id].state = "Dead"
                        \/ e.type = "EntityStateChanged" /\ e.id = id
                        => v.entities[id].state = "Dead"
<1> DEFINE v == Effect(w, e)
           Same(id) == id \in DOMAIN w.entities /\ v.entities[id] = w.entities[id]
<1>1. /\ e.type \in KernelTypes /\ w.nextId \in Nat /\ Shape(w)
      /\ \A id \in DOMAIN w.entities : id \in Nat /\ id < w.nextId /\ w.entities[id] \in Entity
  BY KernelEventTypes, WorldShape DEF WorldInv, WorldFrom, IsWorld, Placed
<1>2. AtTick(w, e.tick) = w
  BY DEF AtTick, WorldInv, WorldFrom, IsWorld
<1>3. HasEntity(w, e.id) /\ e.type \in OnEntity => e.id \in DOMAIN w.entities /\ e.id < w.nextId
  BY <1>1 DEF HasEntity
<1>4. e.type \in OnEntity => HasEntity(w, e.id)
  BY DEF Accepts, Fits
<1>5. CASE e.type \in {"WorldCreated", "TickProcessed", "ZoneCreated"}
  <2>1. v.entities = w.entities /\ v.nextId = w.nextId
    BY <1>1, <1>2, <1>5 DEF Effect, Restored, AnnounceZone, AddZone, Shape
  <2> HIDE DEF v
  <2> QED
    BY <1>1, <1>5, <2>1 DEF Named, v
<1>6. CASE e.type = "EntitySpawned"
  <2> DEFINE entity == NewEntity(e.kind, e.zone, e.tick, e.amount, e.health)
             entities == Put(w.entities, e.id, entity)
             w1 == [[w EXCEPT !.nextId = e.id + 1] EXCEPT !.entities = entities]
  <2>1. e.id = w.nextId /\ ~HasEntity(w, e.id)
    BY <1>1, <1>6 DEF HasEntity
  <2>2. v = EnterZone(w1, e.zone, e.id)
    <3>1. v = Spawn(w, e)
      BY <1>2, <1>6, <2>1 DEF Effect
    <3>2. [w EXCEPT !.nextId = IF e.id >= @ THEN e.id + 1 ELSE @] = [w EXCEPT !.nextId = e.id + 1]
      BY <1>1, <2>1
    <3>3. Spawn(w, e) = AddEntity([w EXCEPT !.nextId = e.id + 1], e.id, entity)
      BY <3>2 DEF Spawn
    <3>4. AddEntity([w EXCEPT !.nextId = e.id + 1], e.id, entity) = EnterZone(w1, e.zone, e.id)
      BY <1>1 DEF AddEntity, NewEntity, Shape
    <3> QED
      BY <3>1, <3>3, <3>4
  <2>3. entity.amount = e.amount
    BY DEF NewEntity
  <2> HIDE DEF entity
  <2>4. /\ DOMAIN entities = DOMAIN w.entities \cup {e.id}
        /\ entities[e.id] = entity
        /\ \A id \in DOMAIN w.entities : id # e.id => entities[id] = w.entities[id]
    BY DEF Put
  <2> HIDE DEF entities
  <2>5. w1.entities = entities /\ w1.nextId = e.id + 1 /\ Shape(w1)
    BY <1>1 DEF Shape
  <2> HIDE DEF w1, v
  <2>6. v.entities = w1.entities /\ v.nextId = w1.nextId
    BY <2>2, <2>5 DEF EnterZone, Shape
  <2> QED
    BY <1>1, <1>6, <2>1, <2>3, <2>4, <2>5, <2>6 DEF v
<1>7. CASE e.type = "EntityDespawned"
  <2>1. v = RemoveEntity(w, e.id)
    BY <1>2, <1>7 DEF Effect
  <2> HIDE DEF v
  <2>2. /\ v.nextId = w.nextId
        /\ DOMAIN v.entities = DOMAIN w.entities \ {e.id}
        /\ \A id \in DOMAIN w.entities \ {e.id} : v.entities[id] = w.entities[id]
    BY <1>1, <2>1, RemovedAlike DEF Alike
  <2> QED
    BY <1>1, <1>7, <2>2 DEF v, Named
<1>8. CASE e.type \in {"EntityStateChanged", "ResourceDepleted", "EntityDegraded"}
  <2>1. /\ e.id \in DOMAIN w.entities /\ e.id < w.nextId /\ e.id \in Nat
    BY <1>1, <1>3, <1>4, <1>8 DEF OnEntity
  <2> DEFINE old == w.entities[e.id]
  <2>2. old \in Entity
    BY <1>1, <2>1
  <2>3. /\ v.nextId = w.nextId
        /\ DOMAIN v.entities = DOMAIN w.entities
        /\ \A id \in DOMAIN w.entities \ {e.id} : v.entities[id] = w.entities[id]
    BY <1>1, <1>2, <1>8, <2>1 DEF Effect, ChangeState, Deplete, Degrade, Shape
  <2>4. CASE e.type = "EntityStateChanged"
    <3>1. v.entities[e.id] = [old EXCEPT !.state = "Dead"]
      BY <1>1, <1>2, <2>1, <2>4, KernelEventValues DEF Effect, ChangeState, Shape
    <3> HIDE DEF v, old
    <3>2. v.entities[e.id].state = "Dead" /\ v.entities[e.id].amount = old.amount
      BY <2>2, <3>1 DEF Entity
    <3> QED
      BY <1>1, <2>1, <2>3, <2>4, <3>2 DEF v, old
  <2>5. CASE e.type = "ResourceDepleted"
    <3>1. v.entities[e.id] = [old EXCEPT !.amount = e.remaining]
      BY <1>1, <1>2, <2>1, <2>5 DEF Effect, Deplete, Shape
    <3>2. old.amount = e.remaining + 1 /\ e.remaining \in Nat
      BY <2>5, KernelEventValues DEF Accepts, Fits, DepletionFits
    <3> HIDE DEF v, old
    <3>3. v.entities[e.id].state = old.state /\ v.entities[e.id].amount = old.amount - 1
      BY <2>2, <3>1, <3>2 DEF Entity
    <3> QED
      BY <1>1, <2>1, <2>3, <2>5, <3>3 DEF v, old
  <2>6. CASE e.type = "EntityDegraded"
    <3>1. v.entities[e.id] = [old EXCEPT !.health = e.new]
      BY <1>1, <1>2, <2>1, <2>6 DEF Effect, Degrade, Shape
    <3> HIDE DEF v, old
    <3>2. v.entities[e.id].state = old.state /\ v.entities[e.id].amount = old.amount
      BY <2>2, <3>1 DEF Entity
    <3> QED
      BY <1>1, <2>1, <2>3, <2>6, <3>2 DEF v, old, Named
  <2> QED
    BY <1>8, <2>4, <2>5, <2>6
<1> QED
  BY <1>1, <1>5, <1>6, <1>7, <1>8 DEF KernelTypes

\* The last multiple of a number of ticks moves only with a multiple.
LEMMA LastMultiple ==
  ASSUME NEW t \in Nat, NEW n \in Nat \ {0}
  PROVE  /\ (t \div n) * n <= t
         /\ (t + 1) % n # 0 => (t + 1) \div n = t \div n
OBVIOUS

LEMMA SteppingKept ==
  ASSUME NEW w, WorldInv(w), NEW log \in Seq(KernelEvent), Stepping(w, log),
         NEW e \in KernelEvent, e.tick = w.tick, NEW v, v.tick = e.tick
  PROVE  LET more == Append(log, e)
         IN  Stepping(v, more) /\ LastTick(more) = v.tick
<1> DEFINE n == Len(log)
           more == Append(log, e)
<1>1. /\ n \in Nat /\ Len(more) = n + 1
      /\ \A i \in 1..n : more[i] = log[i]
      /\ more[n + 1] = e
  BY OneMoreEvent
<1> HIDE DEF more
<1>2. \A i \in 1..n : TickBefore(more, i) = TickBefore(log, i)
  BY <1>1 DEF TickBefore
<1>3. TickBefore(more, n + 1) = LastTick(log)
  BY <1>1 DEF TickBefore, LastTick
<1>4. LastTick(more) = e.tick
  BY <1>1 DEF LastTick
<1>5. ASSUME NEW i \in 1..(n + 1)
      PROVE  more[i].tick \in {TickBefore(more, i), TickBefore(more, i) + 1}
  <2>1. CASE i \in 1..n
    BY <1>1, <1>2, <2>1 DEF Stepping
  <2>2. CASE i = n + 1
    BY <1>1, <1>3, <2>2 DEF Stepping
  <2> QED
    BY <1>1, <2>1, <2>2
<1> QED
  BY <1>1, <1>4, <1>5 DEF Stepping, more

LEMMA EntitiesKept ==
  ASSUME NEW w, WorldInv(w), NEW log \in Seq(KernelEvent), Logged(w, log),
         NEW e \in KernelEvent, Accepts(w, e), Fresh(w, log, e)
  PROVE  LET v == Effect(w, e)
             more == Append(log, e)
         IN  Known(v, more) /\ SpawnsDiffer(more) /\ AmountsAddUp(v, more)
<1> DEFINE n == Len(log)
           more == Append(log, e)
           v == Effect(w, e)
<1>1. /\ n \in Nat /\ DOMAIN log = 1..n /\ DOMAIN more = 1..(n + 1)
      /\ \A i \in 1..n : more[i] = log[i] /\ log[i] \in KernelEvent
      /\ more[n + 1] = e
  BY OneMoreEvent
<1>2. /\ v.nextId \in Nat /\ w.nextId \in Nat /\ w.nextId <= v.nextId
      /\ e.type \in Named => e.id < v.nextId
      /\ \A id \in DOMAIN v.entities :
           \/ /\ e.type = "EntitySpawned" /\ id = e.id
              /\ v.entities[id].amount = e.amount
           \/ /\ id \in DOMAIN w.entities /\ id < w.nextId
              /\ v.entities[id].amount =
                   IF e.type = "ResourceDepleted" /\ e.id = id
                     THEN w.entities[id].amount - 1 ELSE w.entities[id].amount
  BY EntitiesAfter DEF Fresh
<1>3. \A i \in 1..n : log[i].type \in Named => log[i].id < w.nextId /\ log[i].id \in Nat
  BY <1>1, KernelEventValues DEF Logged, Known, Named
<1>4. e.type = "EntitySpawned" => e.id = w.nextId
  BY DEF Fresh
<1>5. /\ e.type \in Named => e.id \in Nat
      /\ e.type = "EntitySpawned" => e.amount \in Nat \cup {None}
  BY KernelEventValues
<1> HIDE DEF more, v
<1>6. Known(v, more)
  <2>1. ASSUME NEW i \in 1..(n + 1), more[i].type \in Named PROVE more[i].id < v.nextId
    BY <1>1, <1>2, <1>3, <2>1
  <2> QED
    BY <1>1, <2>1 DEF Known, Named
<1>7. SpawnsDiffer(more)
  <2>1. \A i \in 1..n : log[i].type = "EntitySpawned" /\ e.type = "EntitySpawned" => log[i].id # e.id
    BY <1>2, <1>3, <1>4 DEF Named
  <2>2. ASSUME NEW i \in 1..(n + 1), NEW j \in 1..(n + 1),
               more[i].type = "EntitySpawned", more[j].type = "EntitySpawned",
               more[i].id = more[j].id
        PROVE  i = j
    <3>1. CASE i \in 1..n /\ j \in 1..n
      BY <1>1, <2>2, <3>1 DEF Logged, SpawnsDiffer
    <3>2. CASE i \in 1..n /\ j = n + 1
      BY <1>1, <2>1, <2>2, <3>2
    <3>3. CASE i = n + 1 /\ j \in 1..n
      BY <1>1, <2>1, <2>2, <3>3
    <3> QED
      BY <1>1, <3>1, <3>2, <3>3
  <2> QED
    BY <1>1, <2>2 DEF SpawnsDiffer
<1>8. AmountsAddUp(v, more)
  <2> SUFFICES ASSUME NEW i \in 1..(n + 1), more[i].type = "EntitySpawned",
                      more[i].amount # None, more[i].id \in DOMAIN v.entities
               PROVE  v.entities[more[i].id].amount =
                        more[i].amount - Cardinality(Depletions(more, more[i].id))
    BY <1>1 DEF AmountsAddUp, HasEntity
  <2>1. CASE i \in 1..n
    <3> DEFINE id == log[i].id
               taken == Cardinality(Depletions(log, id))
    <3>1. /\ more[i] = log[i] /\ log[i].type = "EntitySpawned" /\ log[i].amount \in Nat
          /\ id < w.nextId /\ id \in Nat
      BY <1>1, <1>3, <2>1, KernelEventValues DEF Named
    <3>2. /\ id \in DOMAIN w.entities
          /\ v.entities[id].amount =
               IF e.type = "ResourceDepleted" /\ e.id = id
                 THEN w.entities[id].amount - 1 ELSE w.entities[id].amount
      BY <1>2, <1>4, <3>1
    <3>3. w.entities[id].amount = log[i].amount - taken
      BY <1>1, <2>1, <3>1, <3>2, NoneAssumption DEF Logged, AmountsAddUp, HasEntity
    <3>4. /\ taken \in Nat
          /\ Cardinality(Depletions(more, id)) =
               IF e.type = "ResourceDepleted" /\ e.id = id THEN taken + 1 ELSE taken
      BY DepletionsAppended DEF more
    <3> HIDE DEF id, taken
    <3>5. CASE e.type = "ResourceDepleted" /\ e.id = id
      <4>1. v.entities[id].amount = (log[i].amount - taken) - 1
        BY <3>2, <3>3, <3>5
      <4>2. (log[i].amount - taken) - 1 = log[i].amount - (taken + 1)
        BY <3>1, <3>4
      <4> QED
        BY <3>1, <3>4, <3>5, <4>1, <4>2 DEF id
    <3>6. CASE ~(e.type = "ResourceDepleted" /\ e.id = id)
      BY <3>1, <3>2, <3>3, <3>4, <3>6 DEF id
    <3> QED
      BY <3>5, <3>6
  <2>2. CASE i = n + 1
    <3>1. more[i] = e /\ e.type = "EntitySpawned" /\ e.id = w.nextId /\ e.amount \in Nat
      BY <1>1, <1>4, <1>5, <2>2
    <3>2. v.entities[e.id].amount = e.amount
      BY <1>2, <3>1
    <3>3. Depletions(more, e.id) = {}
      <4>1. ASSUME NEW k \in 1..(n + 1), more[k].type = "ResourceDepleted", more[k].id = e.id
            PROVE  FALSE
        BY <1>1, <1>2, <1>3, <3>1, <4>1 DEF Named
      <4> QED
        BY <1>1, <4>1 DEF Depletions
    <3>4. Cardinality(Depletions(more, e.id)) = 0
      BY <3>3, FS_EmptySet
    <3> QED
      BY <3>1, <3>2, <3>4
  <2> QED
    BY <1>1, <2>1, <2>2
<1> QED
  BY <1>6, <1>7, <1>8 DEF more, v

LEMMA TicksKept ==
  ASSUME NEW w, WorldInv(w), NEW log \in Seq(KernelEvent), Logged(w, log),
         NEW e \in KernelEvent, Accepts(w, e), Fresh(w, log, e)
  PROVE  LET v == Effect(w, e)
             more == Append(log, e)
         IN  DeathsRecent(v, more) /\ Closing(more)
<1> DEFINE n == Len(log)
           more == Append(log, e)
           v == Effect(w, e)
           T == TicksDone(log)
<1>1. /\ n \in Nat /\ DOMAIN log = 1..n /\ DOMAIN more = 1..(n + 1) /\ Len(more) = n + 1
      /\ \A i \in 1..n : more[i] = log[i] /\ log[i] \in KernelEvent
      /\ more[n + 1] = e
  BY OneMoreEvent
<1>2. /\ T \in Nat
      /\ TicksDone(more) = IF e.type = "TickProcessed" THEN T + 1 ELSE T
      /\ \A m \in 0..n : Ticked(more, m) = Ticked(log, m)
  BY TicksAppended
<1>3. /\ \A i \in 1..n : /\ log[i].type \in Named => log[i].id < w.nextId /\ log[i].id \in Nat
                        /\ log[i].tick \in Nat
      /\ w.nextId \in Nat
      /\ e.type = "EntitySpawned" => e.id = w.nextId
  BY <1>1, KernelEventValues, KernelEventTypes
  DEF Logged, Known, Named, Fresh, WorldInv, WorldFrom, IsWorld
<1>4. /\ e.tick = w.tick /\ w.tick \in Nat
      /\ e.type \in {"EntitySpawned", "EntityDespawned", "ZoneCreated"} \/ T + 1 = w.tick
      /\ e.type = "TickProcessed" /\ w.tick % ReapEvery = 0 => DeadIds(w) = {}
  BY DEF Fresh, Open, WorldInv, WorldFrom, IsWorld
<1>0. \A id \in DOMAIN v.entities :
        \/ e.type = "EntitySpawned" /\ id = e.id
        \/ /\ id \in DOMAIN w.entities
           /\ \/ w.entities[id].state = "Dead"
              \/ e.type = "EntityStateChanged" /\ e.id = id
              => v.entities[id].state = "Dead"
  BY EntitiesAfter DEF Fresh
<1> HIDE DEF more, T, v
<1>5. DeathsRecent(v, more)
  <2> SUFFICES ASSUME NEW i \in 1..(n + 1), more[i].type = "EntityStateChanged",
                      more[i].id \in DOMAIN v.entities
               PROVE  /\ v.entities[more[i].id].state = "Dead"
                      /\ more[i].tick > (TicksDone(more) \div ReapEvery) * ReapEvery
    BY <1>1 DEF DeathsRecent, HasEntity
  <2>0. ReapEvery \in Nat \ {0}
    BY TickAssumption
  <2>1. CASE i \in 1..n
    <3> DEFINE id == log[i].id
    <3>1. /\ more[i] = log[i] /\ log[i].type = "EntityStateChanged"
          /\ id < w.nextId /\ id \in Nat /\ log[i].tick \in Nat
      BY <1>1, <1>3, <2>1 DEF Named
    <3>2. /\ id \in DOMAIN w.entities
          /\ w.entities[id].state = "Dead" => v.entities[id].state = "Dead"
      <4>1. id \in DOMAIN v.entities
        BY <3>1
      <4> HIDE DEF id
      <4>2. ~(e.type = "EntitySpawned" /\ id = e.id)
        BY <1>3, <3>1
      <4> QED
        BY <1>0, <4>1, <4>2
    <3>3. w.entities[id].state = "Dead" /\ log[i].tick > (T \div ReapEvery) * ReapEvery
      BY <1>1, <2>1, <3>1, <3>2 DEF Logged, DeathsRecent, HasEntity, T
    <3>4. CASE e.type # "TickProcessed"
      BY <1>2, <3>1, <3>2, <3>3, <3>4
    <3>5. CASE e.type = "TickProcessed"
      <4>1. id \in DeadIds(w)
        BY <3>2, <3>3 DEF DeadIds
      <4>2. (T + 1) % ReapEvery # 0 /\ TicksDone(more) = T + 1
        BY <1>2, <1>4, <3>5, <4>1
      <4>3. (T + 1) \div ReapEvery = T \div ReapEvery
        BY <1>2, <2>0, <4>2, LastMultiple
      <4> QED
        BY <3>1, <3>2, <3>3, <4>2, <4>3
    <3> QED
      BY <3>4, <3>5
  <2>2. CASE i = n + 1
    <3>1. more[i] = e /\ e.type = "EntityStateChanged"
      BY <1>1, <2>2
    <3>2. v.entities[e.id].state = "Dead"
      BY <1>0, <1>3, <3>1
    <3>3. e.tick = T + 1 /\ TicksDone(more) = T
      BY <1>2, <1>4, <3>1
    <3>4. (T \div ReapEvery) * ReapEvery <= T
      BY <1>2, <2>0, LastMultiple
    <3>5. (T \div ReapEvery) * ReapEvery \in Nat
      BY <1>2, <2>0
    <3>6. e.tick > (T \div ReapEvery) * ReapEvery
      BY <1>2, <3>3, <3>4, <3>5
    <3> QED
      BY <3>1, <3>2, <3>3, <3>6
  <2> QED
    BY <1>1, <2>1, <2>2
<1>6. Closing(more)
  <2> DEFINE Other == {"EntitySpawned", "EntityDespawned", "ZoneCreated"}
  <2> SUFFICES ASSUME NEW i \in 1..(n + 1), more[i].type = "TickProcessed"
               PROVE  /\ more[i].tick = 1 + Cardinality(Ticked(more, i - 1))
                      /\ more[i].tick <= TicksDone(more)
                      /\ \A k \in (i + 1)..(n + 1) :
                           more[k].tick = more[i].tick => more[k].type \in Other
    BY <1>1 DEF Closing
  <2>1. CASE i \in 1..n
    <3>1. more[i] = log[i] /\ log[i].tick \in Nat /\ Ticked(more, i - 1) = Ticked(log, i - 1)
      <4>1. i - 1 \in 0..n
        BY <1>1, <2>1
      <4> QED
        BY <1>1, <1>2, <1>3, <2>1, <4>1
    <3>2. /\ log[i].tick = 1 + Cardinality(Ticked(log, i - 1))
          /\ log[i].tick <= T
          /\ \A k \in (i + 1)..n : log[k].tick = log[i].tick => log[k].type \in Other
      BY <1>1, <2>1, <3>1 DEF Logged, Closing, T
    <3>3. log[i].tick <= TicksDone(more)
      BY <1>2, <3>1, <3>2
    <3>4. ASSUME NEW k \in (i + 1)..(n + 1), more[k].tick = more[i].tick
          PROVE  more[k].type \in Other
      <4>1. CASE k = n + 1
        <5>1. e.type \in Other \/ T + 1 = log[i].tick
          BY <1>1, <1>4, <3>1, <3>4, <4>1
        <5> QED
          BY <1>1, <1>2, <3>1, <3>2, <4>1, <5>1
      <4>2. CASE k # n + 1
        <5>1. k \in 1..n /\ k \in (i + 1)..n
          BY <1>1, <2>1, <4>2
        <5> QED
          BY <1>1, <3>1, <3>2, <3>4, <5>1
      <4> QED
        BY <4>1, <4>2
    <3> QED
      BY <3>1, <3>2, <3>3, <3>4
  <2>2. CASE i = n + 1
    <3>1. more[i] = e /\ e.type = "TickProcessed" /\ i - 1 = n
      BY <1>1, <2>2
    <3>2. e.tick = T + 1 /\ TicksDone(more) = T + 1
      BY <1>2, <1>4, <3>1
    <3>3. Ticked(more, n) = Ticked(log, n) /\ T = Cardinality(Ticked(log, n))
      BY <1>1, <1>2 DEF T, TicksDone
    <3>4. 1 + Cardinality(Ticked(more, n)) = T + 1 /\ T + 1 <= T + 1
      BY <1>2, <3>3
    <3>5. (i + 1)..(n + 1) = {}
      BY <1>1, <2>2
    <3> QED
      BY <3>1, <3>2, <3>4, <3>5
  <2> QED
    BY <1>1, <2>1, <2>2
<1> QED
  BY <1>5, <1>6 DEF more, v

(***************************************************************************)
(* A fresh event keeps what is known of the log.                           *)
(***************************************************************************)
LEMMA EventLogged ==
  ASSUME NEW w, WorldInv(w), NEW log \in Seq(KernelEvent), Logged(w, log),
         NEW e \in KernelEvent, Accepts(w, e), Fresh(w, log, e)
  PROVE  LET v == Effect(w, e)
             more == Append(log, e)
         IN  /\ Logged(v, more)
             /\ e.type # "TickProcessed" /\ Open(w, log) => Open(v, more)
             /\ e.type # "TickProcessed" /\ Closed(w, log) => Closed(v, more)
             /\ e.type = "TickProcessed" => Closed(v, more)
<1> DEFINE v == Effect(w, e)
           more == Append(log, e)
<1>1. v.tick = e.tick /\ e.tick = w.tick
  BY EffectFrame DEF Fresh
<1>2. Stepping(v, more) /\ LastTick(more) = v.tick
  <2> HIDE DEF v
  <2> QED
    BY <1>1, SteppingKept DEF Logged
<1>3. Known(v, more) /\ SpawnsDiffer(more) /\ AmountsAddUp(v, more)
  BY EntitiesKept
<1>4. DeathsRecent(v, more) /\ Closing(more)
  BY TicksKept
<1>5. /\ TicksDone(log) \in Nat
      /\ TicksDone(more) = IF e.type = "TickProcessed" THEN TicksDone(log) + 1 ELSE TicksDone(log)
  BY TicksAppended
<1> HIDE DEF v, more
<1>6. e.type = "TickProcessed" => Open(w, log)
  BY DEF Fresh
<1>7. Logged(v, more)
  BY <1>2, <1>3, <1>4 DEF Logged
<1> QED
  BY <1>1, <1>2, <1>5, <1>6, <1>7 DEF Open, Closed, v, more

-----------------------------------------------------------------------------
(***************************************************************************)
(* A command in progress: replaying the events written so far into the     *)
(* world the command found gives the world it has now, but for the tick,   *)
(* which replay moves only with the first event of a tick.                 *)
(***************************************************************************)
Follows(b, events, w) ==
  LET x == ReplayEvents(b, events)
  IN  /\ x # None /\ WorldInv(x)
      /\ x.tick = w.tick \/ x.tick + 1 = w.tick
      /\ AtTick(x, w.tick) = w

LEMMA OneEvent ==
  ASSUME NoneIsNoWorld,
         NEW b, NEW events \in Seq(KernelEvent), NEW w, WorldInv(w), Follows(b, events, w),
         NEW e \in KernelEvent, e.tick = w.tick, Fits(w, e),
         e.type = "TickProcessed" => e.at = e.tick
  PROVE  /\ Accepts(w, e)
         /\ WorldInv(Effect(w, e))
         /\ Follows(b, Append(events, e), Effect(w, e))
         /\ ReplayEvents(b, Append(events, e)) = Effect(w, e)
<1> DEFINE x == ReplayEvents(b, events)
           v == Effect(w, e)
<1>1. /\ x # None /\ WorldInv(x) /\ AtTick(x, w.tick) = w
      /\ x.tick = w.tick \/ x.tick + 1 = w.tick
  BY DEF Follows
<1>2. x.tick \in Nat /\ w.tick \in Nat
  BY <1>1 DEF WorldInv, WorldFrom, IsWorld
<1>3. EventFields(1, e) /\ e.type \in KernelTypes
  BY KernelEventFields, KernelEventTypes
<1>4. e.type = "TickProcessed" => e.rng # None
  BY NoneAssumption, RngAssumption DEF KernelEvent, Draws
<1> HIDE DEF x
<1>5. InTime(w, e) /\ InTime(x, e)
  BY <1>1, <1>2, <1>3, <1>4 DEF InTime, KernelTypes
<1>6. x.entities = w.entities /\ x.zones = w.zones /\ x.seed = w.seed
  <2>1. Shape(x)
    BY <1>1, WorldShape DEF WorldInv, WorldFrom
  <2> QED
    BY <1>1, <2>1 DEF AtTick, Shape
<1>7. Fits(x, e)
  BY <1>6 DEF Fits, CreatedFits, ZoneFits, SpawnFits, SpawnAgrees, MoveFits, StateFits,
              PropertyFits, PropertyValue, DepletionFits, DegradationFits,
              HasZone, HasEntity, InZone
<1>8. AtTick(x, e.tick) = w /\ AtTick(w, e.tick) = w
  BY <1>1, <1>2 DEF AtTick
<1>9. Effect(x, e) = v
  BY <1>8 DEF Effect
<1>10. ReplayEvents(b, Append(events, e)) = v
  <2>1. ReplayEvents(b, Append(events, e)) = ApplyEvent(x, e)
    BY ReplayOneMore DEF x
  <2> QED
    BY <1>1, <1>5, <1>7, <1>9, <2>1 DEF ApplyEvent, Accepts
<1>11. Accepts(w, e)
  BY <1>5 DEF Accepts
<1> HIDE DEF v
<1>12. WorldInv(v)
  BY <1>3, <1>11, EffectKeeps DEF v, WorldInv
<1>13. v # None
  BY <1>12 DEF WorldInv, WorldFrom, NoneIsNoWorld
<1>14. AtTick(v, v.tick) = v
  <2>1. v.tick \in Nat
    BY <1>12 DEF WorldInv, WorldFrom, IsWorld
  <2> QED
    BY <2>1 DEF AtTick
<1> QED
  BY <1>10, <1>11, <1>12, <1>13, <1>14 DEF Follows, v

(***************************************************************************)
(* The same command executed in two worlds that differ in their stamps,    *)
(* the first of them with this log.                                        *)
(***************************************************************************)
Twins(log, b, c, w, u, events) ==
  /\ log \in Seq(KernelEvent) /\ events \in Seq(KernelEvent)
  /\ WorldInv(w) /\ WorldInv(u) /\ Alike(w, u)
  /\ Follows(b, events, w) /\ Follows(c, events, u)
  /\ Logged(w, log \o events)

LEMMA AppendedAfter ==
  ASSUME NEW log \in Seq(KernelEvent), NEW events \in Seq(KernelEvent), NEW e \in KernelEvent
  PROVE  /\ log \o events \in Seq(KernelEvent)
         /\ log \o Append(events, e) = Append(log \o events, e)
OBVIOUS

LEMMA BothEvents ==
  ASSUME NoneIsNoWorld,
         NEW log, NEW b, NEW c, NEW w, NEW u, NEW events, Twins(log, b, c, w, u, events),
         NEW e \in KernelEvent, Fits(w, e), Fresh(w, log \o events, e),
         e.type = "TickProcessed" => e.at = e.tick
  PROVE  LET v == Effect(w, e)
             more == Append(events, e)
         IN  /\ Twins(log, b, c, v, Effect(u, e), more)
             /\ v.tick = w.tick /\ v.seed = w.seed
             /\ ReplayEvents(b, more) = v /\ ReplayEvents(c, more) = Effect(u, e)
             /\ e.type # "TickProcessed" /\ Open(w, log \o events) => Open(v, log \o more)
             /\ e.type # "TickProcessed" /\ Closed(w, log \o events) => Closed(v, log \o more)
             /\ e.type = "TickProcessed" => Closed(v, log \o more)
<1>1. /\ events \in Seq(KernelEvent) /\ WorldInv(w) /\ WorldInv(u) /\ Alike(w, u)
      /\ Follows(b, events, w) /\ Follows(c, events, u)
      /\ log \in Seq(KernelEvent) /\ Logged(w, log \o events)
      /\ e.tick = w.tick
  BY DEF Twins, Fresh
<1>2. /\ Accepts(w, e) /\ WorldInv(Effect(w, e)) /\ Follows(b, Append(events, e), Effect(w, e))
      /\ ReplayEvents(b, Append(events, e)) = Effect(w, e)
  BY <1>1, OneEvent
<1>3. e.tick = u.tick /\ Fits(u, e)
  BY <1>1, <1>2, AcceptsAlike DEF Alike, Accepts
<1>4. /\ WorldInv(Effect(u, e)) /\ Follows(c, Append(events, e), Effect(u, e))
      /\ ReplayEvents(c, Append(events, e)) = Effect(u, e)
  BY <1>1, <1>3, OneEvent
<1>5. Alike(Effect(w, e), Effect(u, e))
  BY <1>1, <1>2, EffectAlike
<1>6. Append(events, e) \in Seq(KernelEvent)
  BY <1>1
<1>7. Effect(w, e).tick = w.tick /\ Effect(w, e).seed = w.seed
  BY <1>1, <1>2, EffectFrame
<1> DEFINE before == log \o events
<1>8. before \in Seq(KernelEvent) /\ log \o Append(events, e) = Append(before, e)
  BY <1>1, AppendedAfter
<1>9. Logged(w, before) /\ Fresh(w, before, e)
  BY <1>1
<1> HIDE DEF before
<1>10. LET v == Effect(w, e)
           after == Append(before, e)
       IN  /\ Logged(v, after)
           /\ e.type # "TickProcessed" /\ Open(w, before) => Open(v, after)
           /\ e.type # "TickProcessed" /\ Closed(w, before) => Closed(v, after)
           /\ e.type = "TickProcessed" => Closed(v, after)
  BY <1>1, <1>2, <1>8, <1>9, EventLogged
<1> QED
  BY <1>1, <1>2, <1>4, <1>5, <1>6, <1>7, <1>8, <1>10 DEF Twins, before

-----------------------------------------------------------------------------
(***************************************************************************)
(* One entity that wears.                                                  *)
(***************************************************************************)
WithEntity(w, id, entity) == [w EXCEPT !.entities[id] = entity]

WearEvent(tick, id, e) ==
  IF e.kind = "Resource"
    THEN [type |-> "ResourceDepleted", tick |-> tick, id |-> id,
          amount |-> 1, remaining |-> e.amount - 1]
    ELSE [type |-> "EntityDegraded", tick |-> tick, id |-> id,
          old |-> e.health, new |-> e.health - 1]

DeathEvent(tick, id, e) ==
  [type |-> "EntityStateChanged", tick |-> tick, id |-> id, old |-> e.state, new |-> "Dead"]

\* The entity between the two events.
Less(e) == [e EXCEPT ![Field(e.kind)] = @ - 1]

LEMMA WearingEntity ==
  ASSUME NEW e \in Entity, Wears(e)
  PROVE  /\ e.kind \in {"Resource", "Creature"}
         /\ e.kind = "Resource" => /\ e.amount \in Nat \ {0} /\ e[Field(e.kind)] = e.amount
                                   /\ Less(e) = [e EXCEPT !.amount = e.amount - 1]
         /\ e.kind = "Creature" => /\ e.health \in Nat \ {0} /\ e[Field(e.kind)] = e.health
                                   /\ Less(e) = [e EXCEPT !.health = e.health - 1]
         /\ Less(e) \in Entity /\ Less(e).state = e.state
<1>1. e.kind \in {"Resource", "Creature"}
  BY DEF Wears
<1>2. CASE e.kind = "Resource"
  <2>1. Field(e.kind) = "amount"
    BY <1>2 DEF Field
  <2>2. e.amount \in Nat \ {0}
    BY <2>1 DEF Wears, Entity
  <2>3. Less(e) = [e EXCEPT !.amount = e.amount - 1]
    BY <2>1 DEF Less
  <2>4. Less(e) \in Entity /\ Less(e).state = e.state
    <3>1. e.amount - 1 \in Nat
      BY <2>2
    <3> QED
      BY <2>3, <3>1 DEF Entity
  <2> QED
    BY <1>2, <2>1, <2>2, <2>3, <2>4
<1>3. CASE e.kind = "Creature"
  <2>1. Field(e.kind) = "health"
    BY <1>3 DEF Field
  <2>2. e.health \in Nat \ {0}
    BY <2>1 DEF Wears, Entity
  <2>3. Less(e) = [e EXCEPT !.health = e.health - 1]
    BY <2>1 DEF Less
  <2>4. Less(e) \in Entity /\ Less(e).state = e.state
    <3>1. e.health - 1 \in Nat
      BY <2>2
    <3> QED
      BY <2>3, <3>1 DEF Entity
  <2> QED
    BY <1>3, <2>1, <2>2, <2>3, <2>4
<1> QED
  BY <1>1, <1>2, <1>3

LEMMA WearsBoth ==
  ASSUME NoneIsNoWorld,
         NEW log, NEW b, NEW c, NEW w, NEW u, NEW events, Twins(log, b, c, w, u, events),
         Open(w, log \o events), NEW id, HasEntity(w, id), Wears(w.entities[id])
  PROVE  LET e == w.entities[id]
             v == WithEntity(w, id, Less(e))
         IN  /\ Twins(log, b, c, v, WithEntity(u, id, Less(e)),
                      Append(events, WearEvent(w.tick, id, e)))
             /\ v.tick = w.tick /\ v.seed = w.seed
             /\ Open(v, log \o Append(events, WearEvent(w.tick, id, e)))
<1> DEFINE e == w.entities[id]
           x == WearEvent(w.tick, id, e)
<1>1. /\ e \in Entity /\ id \in Nat /\ w.tick \in Nat /\ Shape(w) /\ Shape(u)
      /\ u.entities = w.entities /\ u.tick = w.tick
  BY WorldShape DEF Twins, WorldInv, WorldFrom, IsWorld, Placed, HasEntity, Alike
<1>2. Wears(e)
  OBVIOUS
<1> HIDE DEF e
<1>3. CASE e.kind = "Resource"
  <2>1. /\ e.amount \in Nat \ {0} /\ Less(e) = [e EXCEPT !.amount = e.amount - 1]
    BY <1>1, <1>2, <1>3, WearingEntity
  <2>2. x = [type |-> "ResourceDepleted", tick |-> w.tick, id |-> id,
             amount |-> 1, remaining |-> e.amount - 1]
    BY <1>3 DEF WearEvent
  <2> HIDE DEF x
  <2>3. x \in KernelEvent
    BY <1>1, <2>1, <2>2 DEF KernelEvent
  <2>4. Fits(w, x)
    BY <1>1, <2>1, <2>2, NoneAssumption
    DEF Fits, CreatedFits, ZoneFits, SpawnFits, MoveFits, StateFits, PropertyFits,
        DepletionFits, DegradationFits, e
  <2>5. Effect(w, x) = WithEntity(w, id, Less(e)) /\ Effect(u, x) = WithEntity(u, id, Less(e))
    <3>1. AtTick(w, x.tick) = w /\ AtTick(u, x.tick) = u
      BY <1>1, <2>2 DEF AtTick
    <3>2. Effect(w, x) = Deplete(w, x) /\ Effect(u, x) = Deplete(u, x)
      BY <2>2, <3>1 DEF Effect
    <3> QED
      BY <1>1, <2>1, <2>2, <3>2 DEF Deplete, WithEntity, Shape, e
  <2>6. Fresh(w, log \o events, x) /\ x.type # "TickProcessed"
    BY <2>2 DEF Fresh
  <2> QED
    BY <2>2, <2>3, <2>4, <2>5, <2>6, BothEvents DEF e, x
<1>4. CASE e.kind = "Creature"
  <2>1. /\ e.health \in Nat \ {0} /\ Less(e) = [e EXCEPT !.health = e.health - 1]
    BY <1>1, <1>2, <1>4, WearingEntity
  <2>2. x = [type |-> "EntityDegraded", tick |-> w.tick, id |-> id,
             old |-> e.health, new |-> e.health - 1]
    BY <1>4 DEF WearEvent
  <2> HIDE DEF x
  <2>3. x \in KernelEvent
    BY <1>1, <2>1, <2>2 DEF KernelEvent
  <2>4. Fits(w, x)
    BY <1>1, <2>1, <2>2, NoneAssumption
    DEF Fits, CreatedFits, ZoneFits, SpawnFits, MoveFits, StateFits, PropertyFits,
        DepletionFits, DegradationFits, e
  <2>5. Effect(w, x) = WithEntity(w, id, Less(e)) /\ Effect(u, x) = WithEntity(u, id, Less(e))
    <3>1. AtTick(w, x.tick) = w /\ AtTick(u, x.tick) = u
      BY <1>1, <2>2 DEF AtTick
    <3>2. Effect(w, x) = Degrade(w, x) /\ Effect(u, x) = Degrade(u, x)
      BY <2>2, <3>1 DEF Effect
    <3> QED
      BY <1>1, <2>1, <2>2, <3>2 DEF Degrade, WithEntity, Shape, e
  <2>6. Fresh(w, log \o events, x) /\ x.type # "TickProcessed"
    BY <2>2 DEF Fresh
  <2> QED
    BY <2>2, <2>3, <2>4, <2>5, <2>6, BothEvents DEF e, x
<1> QED
  BY <1>1, <1>2, <1>3, <1>4, WearingEntity DEF e

LEMMA DiesBoth ==
  ASSUME NoneIsNoWorld,
         NEW log, NEW b, NEW c, NEW w, NEW u, NEW events, Twins(log, b, c, w, u, events),
         Open(w, log \o events), NEW id, HasEntity(w, id)
  PROVE  LET e == w.entities[id]
             dead == [e EXCEPT !.state = "Dead"]
             v == WithEntity(w, id, dead)
         IN  /\ Twins(log, b, c, v, WithEntity(u, id, dead),
                      Append(events, DeathEvent(w.tick, id, e)))
             /\ v.tick = w.tick /\ v.seed = w.seed
             /\ Open(v, log \o Append(events, DeathEvent(w.tick, id, e)))
<1> DEFINE e == w.entities[id]
           dead == [e EXCEPT !.state = "Dead"]
           x == DeathEvent(w.tick, id, e)
<1>1. /\ e \in Entity /\ id \in Nat /\ w.tick \in Nat /\ Shape(w) /\ Shape(u)
      /\ u.entities = w.entities /\ u.tick = w.tick
  BY WorldShape DEF Twins, WorldInv, WorldFrom, IsWorld, Placed, HasEntity, Alike
<1> HIDE DEF e
<1>2. x = [type |-> "EntityStateChanged", tick |-> w.tick, id |-> id,
           old |-> e.state, new |-> "Dead"]
  BY DEF DeathEvent
<1> HIDE DEF x
<1>3. x \in KernelEvent
  BY <1>1, <1>2 DEF KernelEvent, Entity
<1>4. Fits(w, x)
  BY <1>1, <1>2
  DEF Fits, CreatedFits, ZoneFits, SpawnFits, MoveFits, StateFits, PropertyFits,
      DepletionFits, DegradationFits, e
<1>5. Effect(w, x) = WithEntity(w, id, dead) /\ Effect(u, x) = WithEntity(u, id, dead)
  <2>1. AtTick(w, x.tick) = w /\ AtTick(u, x.tick) = u
    BY <1>1, <1>2 DEF AtTick
  <2>2. Effect(w, x) = ChangeState(w, x) /\ Effect(u, x) = ChangeState(u, x)
    BY <1>2, <2>1 DEF Effect
  <2> QED
    BY <1>1, <1>2, <2>2 DEF ChangeState, WithEntity, Shape, e
<1>6. Fresh(w, log \o events, x) /\ x.type # "TickProcessed"
  BY <1>2 DEF Fresh
<1> QED
  BY <1>2, <1>3, <1>4, <1>5, <1>6, BothEvents DEF e, x

-----------------------------------------------------------------------------
(***************************************************************************)
(* The tick systems on two engines that differ in the stamps of the world. *)
(***************************************************************************)
IsRng(rng) == rng \in [seed : Nat, state : Draws]

LEMMA DrawKeeps ==
  ASSUME NEW rng, IsRng(rng)
  PROVE  IsRng(Draw(rng)) /\ Draw(rng).seed = rng.seed
<1> DEFINE n == Multiplier * rng.state + 2 * rng.seed + 1
<1>1. rng.state \in Nat /\ rng.seed \in Nat /\ Multiplier \in Nat /\ RngModulus \in Nat \ {0}
  BY RngAssumption DEF IsRng, Draws
<1>2. Multiplier * rng.state \in Nat
  BY <1>1
<1>3. n \in Nat
  BY <1>1, <1>2
<1>4. Draw(rng) = [rng EXCEPT !.state = n % RngModulus]
  BY DEF Draw
<1> HIDE DEF n
<1>5. n % RngModulus \in Draws
  BY <1>1, <1>3 DEF Draws
<1> QED
  BY <1>4, <1>5 DEF IsRng

IsRun(run) == run \in [world : {run.world}, rng : {run.rng}, events : {run.events}]

Runs(log, b, c, r, q) ==
  /\ IsRun(r) /\ IsRun(q)
  /\ IsRng(r.rng) /\ r.world.seed = r.rng.seed
  /\ q.rng = r.rng /\ q.events = r.events
  /\ Twins(log, b, c, r.world, q.world, r.events)
  /\ Open(r.world, log \o r.events)

LEMMA RunEntityBoth ==
  ASSUME NoneIsNoWorld, NEW log, NEW b, NEW c, NEW r, NEW q, Runs(log, b, c, r, q),
         NEW id, HasEntity(r.world, id)
  PROVE  /\ Runs(log, b, c, RunEntity(r, id), RunEntity(q, id))
         /\ DOMAIN RunEntity(r, id).world.entities = DOMAIN r.world.entities
         /\ RunEntity(r, id).world.tick = r.world.tick
<1> DEFINE w == r.world
           u == q.world
           e == w.entities[id]
           r1 == RunEntity(r, id)
           q1 == RunEntity(q, id)
<1>1. /\ IsRun(r) /\ IsRun(q) /\ IsRng(r.rng) /\ w.seed = r.rng.seed
      /\ q.rng = r.rng /\ q.events = r.events
      /\ Twins(log, b, c, w, u, r.events) /\ Open(w, log \o r.events)
  BY DEF Runs
<1>2. /\ e \in Entity /\ u.entities = w.entities /\ u.tick = w.tick /\ Shape(w) /\ Shape(u)
      /\ r.events \in Seq(KernelEvent)
      /\ w.entities = [i \in DOMAIN w.entities |-> w.entities[i]]
  BY <1>1, WorldShape DEF Twins, WorldInv, WorldFrom, IsWorld, HasEntity, Alike
<1>3. q.world.entities[id] = e
  BY <1>2
<1> HIDE DEF e
<1>4. CASE ~Wears(e)
  <2>1. r1 = r /\ q1 = q
    BY <1>3, <1>4 DEF RunEntity, e
  <2> QED
    BY <2>1
<1>5. CASE Wears(e) /\ r.rng.state \notin Hits(e.kind)
  <2>1. r1 = [r EXCEPT !.rng = Draw(r.rng)] /\ q1 = [q EXCEPT !.rng = Draw(r.rng)]
    BY <1>1, <1>3, <1>5 DEF RunEntity, e
  <2>2. IsRng(Draw(r.rng)) /\ Draw(r.rng).seed = w.seed
    BY <1>1, DrawKeeps
  <2> HIDE DEF r1, q1
  <2>3. /\ IsRun(r1) /\ r1.world = w /\ r1.rng = Draw(r.rng) /\ r1.events = r.events
        /\ IsRun(q1) /\ q1.world = u /\ q1.rng = Draw(r.rng) /\ q1.events = r.events
    BY <1>1, <2>1 DEF IsRun
  <2> QED
    BY <1>1, <2>2, <2>3 DEF Runs, r1, q1
<1>6. CASE Wears(e) /\ r.rng.state \in Hits(e.kind)
  <2> DEFINE worn == Worn(e)
             tail == WearEvents(w.tick, id, e)
             rng == Draw(r.rng)
             w1 == WithEntity(w, id, worn)
             u1 == WithEntity(u, id, worn)
  <2>1. /\ r1 = [world |-> w1, rng |-> rng, events |-> r.events \o tail]
        /\ q1 = [world |-> u1, rng |-> rng, events |-> r.events \o tail]
    BY <1>1, <1>2, <1>3, <1>6 DEF RunEntity, WithEntity, e
  <2>2. IsRng(rng) /\ rng.seed = w.seed
    BY <1>1, DrawKeeps
  <2> DEFINE wear == WearEvent(w.tick, id, e)
             w2 == WithEntity(w, id, Less(e))
             u2 == WithEntity(u, id, Less(e))
  <2>3. /\ Twins(log, b, c, w2, u2, Append(r.events, wear)) /\ w2.tick = w.tick /\ w2.seed = w.seed
        /\ Open(w2, log \o Append(r.events, wear))
    BY <1>1, <1>6, WearsBoth DEF e
  <2>4. /\ e.kind \in {"Resource", "Creature"}
        /\ e.kind = "Resource" => e[Field(e.kind)] = e.amount
        /\ e.kind = "Creature" => e[Field(e.kind)] = e.health
        /\ e[Field(e.kind)] \in Nat
        /\ Less(e) \in Entity /\ Less(e).state = e.state
    BY <1>2, <1>6, WearingEntity
  <2> HIDE DEF wear, worn, tail, w1, u1
  <2>5. /\ Twins(log, b, c, w1, u1, r.events \o tail) /\ w1.tick = w.tick /\ w1.seed = w.seed
        /\ Open(w1, log \o (r.events \o tail))
        /\ DOMAIN w1.entities = DOMAIN w.entities
    <3>1. CASE e[Field(e.kind)] # 1
      <4>1. worn = Less(e)
        BY <2>4, <3>1 DEF Worn, Less, Entity, worn, Field
      <4>2. tail = << wear >>
        BY <2>4, <3>1 DEF WearEvents, WearEvent, tail, wear
      <4>3. r.events \o tail = Append(r.events, wear)
        BY <1>2, <4>2
      <4> QED
        BY <1>2, <2>3, <4>1, <4>3 DEF w1, u1, WithEntity, Shape
    <3>2. CASE e[Field(e.kind)] = 1
      <4> DEFINE death == DeathEvent(w.tick, id, e)
                 dead == [Less(e) EXCEPT !.state = "Dead"]
      <4>1. worn = dead
        BY <2>4, <3>2 DEF Worn, Less, Entity, worn, Field
      <4>2. tail = << wear, death >>
        BY <2>4, <3>2 DEF WearEvents, WearEvent, DeathEvent, tail, wear
      <4> HIDE DEF dead
      <4>3. /\ HasEntity(w2, id) /\ w2.entities[id] = Less(e)
            /\ WithEntity(w2, id, dead) = w1 /\ WithEntity(u2, id, dead) = u1
            /\ DOMAIN w1.entities = DOMAIN w.entities
        BY <1>2, <4>1 DEF WithEntity, HasEntity, Shape, w1, u1
      <4>4. DeathEvent(w2.tick, id, Less(e)) = death
        BY <2>3, <2>4 DEF DeathEvent
      <4> HIDE DEF w2, u2, death
      <4>5. /\ Twins(log, b, c, w1, u1, Append(Append(r.events, wear), death))
            /\ w1.tick = w.tick /\ w1.seed = w.seed
            /\ Open(w1, log \o Append(Append(r.events, wear), death))
        BY <2>3, <4>3, <4>4, DiesBoth DEF dead
      <4>6. r.events \o tail = Append(Append(r.events, wear), death)
        BY <1>2, <4>2
      <4> QED
        BY <4>3, <4>5, <4>6
    <3> QED
      BY <3>1, <3>2
  <2> HIDE DEF r1, q1, rng
  <2>6. /\ IsRun(r1) /\ r1.world = w1 /\ r1.rng = rng /\ r1.events = r.events \o tail
        /\ IsRun(q1) /\ q1.world = u1 /\ q1.rng = rng /\ q1.events = r.events \o tail
    BY <2>1 DEF IsRun
  <2> QED
    BY <2>2, <2>5, <2>6 DEF Runs, r1, q1
<1> QED
  BY <1>4, <1>5, <1>6

LEMMA RemoveDeadBoth ==
  ASSUME NoneIsNoWorld, NEW log, NEW b, NEW c, NEW r, NEW q, Runs(log, b, c, r, q),
         NEW id, HasEntity(r.world, id)
  PROVE  /\ Runs(log, b, c, RemoveDead(r, id), RemoveDead(q, id))
         /\ DOMAIN RemoveDead(r, id).world.entities = DOMAIN r.world.entities \ {id}
         /\ DeadIds(RemoveDead(r, id).world) = DeadIds(r.world) \ {id}
         /\ RemoveDead(r, id).world.tick = r.world.tick
<1> DEFINE w == r.world
           u == q.world
           x == [type |-> "EntityDespawned", tick |-> w.tick, id |-> id]
           r1 == RemoveDead(r, id)
           q1 == RemoveDead(q, id)
           w1 == RemoveEntity(w, id)
           u1 == RemoveEntity(u, id)
<1>1. /\ IsRun(r) /\ IsRun(q) /\ IsRng(r.rng) /\ w.seed = r.rng.seed
      /\ q.rng = r.rng /\ q.events = r.events
      /\ Twins(log, b, c, w, u, r.events) /\ Open(w, log \o r.events)
  BY DEF Runs
<1>2. /\ id \in Nat /\ w.tick \in Nat /\ u.tick = w.tick /\ Shape(w) /\ Shape(u)
  BY <1>1, WorldShape DEF Twins, WorldInv, WorldFrom, IsWorld, Placed, HasEntity, Alike
<1>3. x \in KernelEvent
  BY <1>2 DEF KernelEvent
<1>4. Fits(w, x)
  BY <1>2 DEF Fits, CreatedFits, ZoneFits, SpawnFits, MoveFits, StateFits, PropertyFits,
              DepletionFits, DegradationFits
<1>5. Effect(w, x) = w1 /\ Effect(u, x) = u1
  <2>1. AtTick(w, x.tick) = w /\ AtTick(u, x.tick) = u
    BY <1>2 DEF AtTick
  <2> QED
    BY <2>1 DEF Effect
<1>6. /\ Twins(log, b, c, w1, u1, Append(r.events, x)) /\ w1.tick = w.tick /\ w1.seed = w.seed
      /\ Open(w1, log \o Append(r.events, x))
  <2>1. Fresh(w, log \o r.events, x) /\ x.type # "TickProcessed"
    BY <1>1 DEF Fresh
  <2> QED
    BY <1>1, <1>3, <1>4, <1>5, <2>1, BothEvents
<1>7. /\ r1 = [[r EXCEPT !.world = w1] EXCEPT !.events = Append(r.events, x)]
      /\ q1 = [[q EXCEPT !.world = u1] EXCEPT !.events = Append(r.events, x)]
  BY <1>1, <1>2 DEF RemoveDead, IsRun
<1>8. /\ DOMAIN w1.entities = DOMAIN w.entities \ {id}
      /\ \A i \in DOMAIN w.entities \ {id} : w1.entities[i] = w.entities[i]
  BY <1>2, RemovedAlike DEF Alike
<1> HIDE DEF x, w1, u1, r1, q1
<1>9. /\ IsRun(r1) /\ r1.world = w1 /\ r1.rng = r.rng /\ r1.events = Append(r.events, x)
      /\ IsRun(q1) /\ q1.world = u1 /\ q1.rng = r.rng /\ q1.events = Append(r.events, x)
  BY <1>1, <1>7 DEF IsRun
<1>10. DeadIds(w1) = DeadIds(w) \ {id}
  BY <1>8 DEF DeadIds
<1> QED
  BY <1>1, <1>6, <1>8, <1>9, <1>10 DEF Runs, r1, q1

-----------------------------------------------------------------------------
(***************************************************************************)
(* The loops, by their recursion: value i of a loop that started from x.   *)
(***************************************************************************)
Looped(loop, x, ids, f, i) ==
  IF i = 0 THEN x
  ELSE IF loop = "ticks" THEN CmdTick(f[i - 1].sim, f[i - 1].events)
  ELSE IF i \notin ids THEN f[i - 1]
  ELSE IF loop = "wear" THEN RunEntity(f[i - 1], i)
  ELSE RemoveDead(f[i - 1], i)

Loops(loop, x, ids, n, f) == f = [i \in 0..n |-> Looped(loop, x, ids, f, i)]

LEMMA LoopExists ==
  ASSUME NEW loop, NEW x, NEW ids, NEW n \in Nat
  PROVE  \E f : Loops(loop, x, ids, n, f)
<1> DEFINE Missing == {m \in Nat : ~\E f : Loops(loop, x, ids, m, f)}
<1> SUFFICES ASSUME Missing # {} PROVE FALSE
  OBVIOUS
<1>1. PICK m \in Missing : \A k \in Missing : m <= k
  <2>1. Missing \in SUBSET Nat
    OBVIOUS
  <2> QED
    BY <2>1, LeastElement
<1>2. m \in Nat /\ ~\E f : Loops(loop, x, ids, m, f)
  OBVIOUS
<1>3. CASE m = 0
  <2> DEFINE f == [i \in 0..0 |-> x]
  <2>1. \A i \in 0..0 : Looped(loop, x, ids, f, i) = x
    BY DEF Looped
  <2>2. f = [i \in 0..0 |-> Looped(loop, x, ids, f, i)]
    BY <2>1
  <2>3. Loops(loop, x, ids, 0, f)
    BY <2>2 DEF Loops
  <2> QED
    BY <1>2, <1>3, <2>3
<1>4. CASE m # 0
  <2>1. m - 1 \in Nat /\ m - 1 \notin Missing
    BY <1>1, <1>2, <1>4
  <2>2. PICK g : Loops(loop, x, ids, m - 1, g)
    BY <2>1
  <2> DEFINE f == [i \in 0..m |-> IF i = m THEN Looped(loop, x, ids, g, m) ELSE g[i]]
  <2>3. g = [i \in 0..(m - 1) |-> Looped(loop, x, ids, g, i)]
    BY <2>2 DEF Loops
  <2>4. ASSUME NEW i \in 0..m PROVE f[i] = Looped(loop, x, ids, f, i)
    <3>1. f[i] = Looped(loop, x, ids, g, i)
      <4>1. CASE i = m
        BY <4>1
      <4>2. CASE i # m
        <5>1. i \in 0..(m - 1)
          BY <1>2, <4>2
        <5>2. g[i] = Looped(loop, x, ids, g, i)
          <6> HIDE DEF f
          <6> QED
            BY <2>3, <5>1
        <5> QED
          BY <4>2, <5>2
      <4> QED
        BY <4>1, <4>2
    <3>2. CASE i = 0
      BY <3>1, <3>2 DEF Looped
    <3>3. CASE i # 0
      <4>1. i - 1 \in 0..m /\ i - 1 # m
        BY <1>2, <3>3
      <4>2. f[i - 1] = g[i - 1]
        BY <4>1
      <4> HIDE DEF f
      <4> QED
        BY <3>1, <4>2 DEF Looped
    <3> QED
      BY <3>2, <3>3
  <2>5. f = [i \in 0..m |-> f[i]]
    OBVIOUS
  <2> HIDE DEF f
  <2>6. f = [i \in 0..m |-> Looped(loop, x, ids, f, i)]
    BY <2>4, <2>5
  <2> QED
    BY <1>2, <2>6 DEF Loops
<1> QED
  BY <1>3, <1>4

LEMMA WearLoop ==
  ASSUME NEW run, run.world.nextId \in Nat
  PROVE  \E f : /\ WearActive(run) = f[run.world.nextId]
                /\ \A i \in 0..run.world.nextId :
                     f[i] = Looped("wear", run, ActiveIds(run.world), f, i)
<1> DEFINE N == run.world.nextId
           ids == ActiveIds(run.world)
           Value(f, i) == IF i = 0 THEN run
                          ELSE IF i \in ids THEN RunEntity(f[i - 1], i)
                          ELSE f[i - 1]
           after == CHOOSE f : f = [i \in 0..N |-> Value(f, i)]
<1>1. \E f : f = [i \in 0..N |-> Value(f, i)]
  <2>0. PICK f : Loops("wear", run, ids, N, f)
    BY LoopExists
  <2>1. f = [i \in 0..N |-> Looped("wear", run, ids, f, i)]
    BY <2>0 DEF Loops
  <2>2. \A i \in 0..N : Looped("wear", run, ids, f, i) = Value(f, i)
    BY DEF Looped
  <2> HIDE DEF N, Value
  <2> QED
    BY <2>1, <2>2
<1>2. after = [i \in 0..N |-> Value(after, i)]
  <2> HIDE DEF N, Value
  <2> QED
    BY <1>1
<1>3. WearActive(run) = after[N]
  BY DEF WearActive
<1> HIDE DEF after
<1>4. \A i \in 0..N : after[i] = Value(after, i)
  <2> HIDE DEF N, Value
  <2> QED
    BY <1>2
<1>5. \A i \in 0..N : after[i] = Looped("wear", run, ids, after, i)
  BY <1>4 DEF Looped
<1> QED
  BY <1>3, <1>5

LEMMA ReapLoop ==
  ASSUME NEW run, run.world.nextId \in Nat
  PROVE  \E f : /\ ReapDead(run) = f[run.world.nextId]
                /\ \A i \in 0..run.world.nextId :
                     f[i] = Looped("reap", run, DeadIds(run.world), f, i)
<1> DEFINE N == run.world.nextId
           ids == DeadIds(run.world)
           Value(f, i) == IF i = 0 THEN run
                          ELSE IF i \in ids THEN RemoveDead(f[i - 1], i)
                          ELSE f[i - 1]
           after == CHOOSE f : f = [i \in 0..N |-> Value(f, i)]
<1>1. \E f : f = [i \in 0..N |-> Value(f, i)]
  <2>0. PICK f : Loops("reap", run, ids, N, f)
    BY LoopExists
  <2>1. f = [i \in 0..N |-> Looped("reap", run, ids, f, i)]
    BY <2>0 DEF Loops
  <2>2. \A i \in 0..N : Looped("reap", run, ids, f, i) = Value(f, i)
    BY DEF Looped
  <2> HIDE DEF N, Value
  <2> QED
    BY <2>1, <2>2
<1>2. after = [i \in 0..N |-> Value(after, i)]
  <2> HIDE DEF N, Value
  <2> QED
    BY <1>1
<1>3. ReapDead(run) = after[N]
  BY DEF ReapDead
<1> HIDE DEF after
<1>4. \A i \in 0..N : after[i] = Value(after, i)
  <2> HIDE DEF N, Value
  <2> QED
    BY <1>2
<1>5. \A i \in 0..N : after[i] = Looped("reap", run, ids, after, i)
  BY <1>4 DEF Looped
<1> QED
  BY <1>3, <1>5

LEMMA TicksLoop ==
  ASSUME NEW s, s.world # None, NEW n \in 1..TickLimit
  PROVE  \E f : /\ CmdTickN(s, n) = Done(f[n].sim, f[n].events)
                /\ \A i \in 0..n :
                     f[i] = Looped("ticks", [sim |-> s, events |-> << >>], {}, f, i)
<1> DEFINE start == [sim |-> s, events |-> << >>]
           Value(f, i) == IF i = 0 THEN start
                          ELSE CmdTick(f[i - 1].sim, f[i - 1].events)
           after == CHOOSE f : f = [i \in 0..n |-> Value(f, i)]
<1>0. n \in Nat
  BY TickAssumption
<1>1. \E f : f = [i \in 0..n |-> Value(f, i)]
  <2>0. PICK f : Loops("ticks", start, {}, n, f)
    BY <1>0, LoopExists
  <2>1. f = [i \in 0..n |-> Looped("ticks", start, {}, f, i)]
    BY <2>0 DEF Loops
  <2>2. \A i \in 0..n : Looped("ticks", start, {}, f, i) = Value(f, i)
    BY DEF Looped
  <2> HIDE DEF Value
  <2> QED
    BY <2>1, <2>2
<1>2. after = [i \in 0..n |-> Value(after, i)]
  <2> HIDE DEF Value
  <2> QED
    BY <1>1
<1>3. CmdTickN(s, n) = Done(after[n].sim, after[n].events)
  BY DEF CmdTickN
<1> HIDE DEF after
<1>4. \A i \in 0..n : after[i] = Value(after, i)
  <2> HIDE DEF Value
  <2> QED
    BY <1>2
<1>5. \A i \in 0..n : after[i] = Looped("ticks", start, {}, after, i)
  BY <1>4 DEF Looped
<1> QED
  BY <1>3, <1>5

(***************************************************************************)
(* What the loops keep, by induction on the ids visited.                   *)
(***************************************************************************)
LEMMA WearActiveBoth ==
  ASSUME NoneIsNoWorld, NEW log, NEW b, NEW c, NEW r, NEW q, Runs(log, b, c, r, q)
  PROVE  /\ Runs(log, b, c, WearActive(r), WearActive(q))
         /\ WearActive(r).world.tick = r.world.tick
<1> DEFINE N == r.world.nextId
           ids == ActiveIds(r.world)
<1>1. /\ N \in Nat /\ q.world.nextId = N /\ ActiveIds(q.world) = ids
      /\ ids \subseteq DOMAIN r.world.entities
  BY DEF Runs, Twins, WorldInv, WorldFrom, IsWorld, Alike, ActiveIds
<1>2. PICK f : /\ WearActive(r) = f[N]
               /\ \A i \in 0..N : f[i] = Looped("wear", r, ids, f, i)
  BY <1>1, WearLoop
<1>3. PICK g : /\ WearActive(q) = g[N]
               /\ \A i \in 0..N : g[i] = Looped("wear", q, ids, g, i)
  <2>1. q.world.nextId \in Nat
    BY <1>1
  <2> QED
    BY <1>1, <2>1, WearLoop
<1> DEFINE Good(i) == /\ Runs(log, b, c, f[i], g[i])
                      /\ DOMAIN f[i].world.entities = DOMAIN r.world.entities
                      /\ f[i].world.tick = r.world.tick
           Bad == {i \in 0..N : ~Good(i)}
<1> HIDE DEF N, ids
<1>4. Bad = {}
  <2> SUFFICES ASSUME Bad # {} PROVE FALSE
    OBVIOUS
  <2>1. PICK m \in Bad : \A k \in Bad : m <= k
    <3>1. Bad \in SUBSET Nat
      BY <1>1
    <3> QED
      BY <3>1, LeastElement
  <2>2. m \in 0..N /\ ~Good(m)
    OBVIOUS
  <2>3. CASE m = 0
    <3>1. f[0] = r /\ g[0] = q
      BY <1>2, <1>3, <2>2, <2>3 DEF Looped
    <3> QED
      BY <2>2, <2>3, <3>1
  <2>4. CASE m # 0
    <3>1. m - 1 \in 0..N /\ m - 1 < m
      BY <1>1, <2>2, <2>4
    <3>2. Good(m - 1)
      <4>1. m - 1 \notin Bad
        BY <1>1, <2>1, <3>1
      <4> QED
        BY <3>1, <4>1
    <3>3. /\ f[m] = IF m \in ids THEN RunEntity(f[m - 1], m) ELSE f[m - 1]
          /\ g[m] = IF m \in ids THEN RunEntity(g[m - 1], m) ELSE g[m - 1]
      BY <1>2, <1>3, <2>2, <2>4 DEF Looped
    <3> DEFINE r1 == f[m - 1]
               q1 == g[m - 1]
    <3>4. CASE m \in ids
      <4>1. HasEntity(r1.world, m)
        BY <1>1, <3>2, <3>4 DEF HasEntity
      <4>2. /\ Runs(log, b, c, RunEntity(r1, m), RunEntity(q1, m))
            /\ DOMAIN RunEntity(r1, m).world.entities = DOMAIN r1.world.entities
            /\ RunEntity(r1, m).world.tick = r1.world.tick
        BY <3>2, <4>1, RunEntityBoth
      <4> QED
        BY <2>2, <3>2, <3>3, <3>4, <4>2
    <3>5. CASE m \notin ids
      BY <2>2, <3>2, <3>3, <3>5
    <3> QED
      BY <3>4, <3>5
  <2> QED
    BY <2>3, <2>4
<1>5. Good(N)
  <2>1. N \in 0..N
    BY <1>1
  <2>2. N \notin Bad
    <3> HIDE DEF Bad
    <3> QED
      BY <1>4
  <2> QED
    BY <2>1, <2>2
<1> QED
  BY <1>2, <1>3, <1>5

LEMMA ReapDeadBoth ==
  ASSUME NoneIsNoWorld, NEW log, NEW b, NEW c, NEW r, NEW q, Runs(log, b, c, r, q)
  PROVE  /\ Runs(log, b, c, ReapDead(r), ReapDead(q))
         /\ ReapDead(r).world.tick = r.world.tick
         /\ DeadIds(ReapDead(r).world) = {}
<1> DEFINE N == r.world.nextId
           ids == DeadIds(r.world)
<1>1. /\ N \in Nat /\ q.world.nextId = N /\ DeadIds(q.world) = ids
      /\ ids \subseteq DOMAIN r.world.entities
      /\ \A id \in DOMAIN r.world.entities : id \in Nat /\ 0 < id /\ id < N
  BY DEF Runs, Twins, WorldInv, WorldFrom, IsWorld, Placed, Alike, DeadIds
<1>2. PICK f : /\ ReapDead(r) = f[N]
               /\ \A i \in 0..N : f[i] = Looped("reap", r, ids, f, i)
  BY <1>1, ReapLoop
<1>3. PICK g : /\ ReapDead(q) = g[N]
               /\ \A i \in 0..N : g[i] = Looped("reap", q, ids, g, i)
  <2>1. q.world.nextId \in Nat
    BY <1>1
  <2> QED
    BY <1>1, <2>1, ReapLoop
<1> DEFINE Good(i) == /\ Runs(log, b, c, f[i], g[i])
                      /\ \A id \in ids : id > i => id \in DOMAIN f[i].world.entities
                      /\ DeadIds(f[i].world) \subseteq {id \in ids : id > i}
                      /\ f[i].world.tick = r.world.tick
           Bad == {i \in 0..N : ~Good(i)}
<1> HIDE DEF N, ids
<1>4. Bad = {}
  <2> SUFFICES ASSUME Bad # {} PROVE FALSE
    OBVIOUS
  <2>1. PICK m \in Bad : \A k \in Bad : m <= k
    <3>1. Bad \in SUBSET Nat
      BY <1>1
    <3> QED
      BY <3>1, LeastElement
  <2>2. m \in 0..N /\ ~Good(m)
    OBVIOUS
  <2>3. CASE m = 0
    <3>1. f[0] = r /\ g[0] = q
      BY <1>2, <1>3, <2>2, <2>3 DEF Looped
    <3>2. DeadIds(r.world) \subseteq {id \in ids : id > 0}
      BY <1>1 DEF ids
    <3> QED
      BY <1>1, <2>2, <2>3, <3>1, <3>2
  <2>4. CASE m # 0
    <3>1. m - 1 \in 0..N /\ m - 1 < m /\ m \in Nat
      BY <1>1, <2>2, <2>4
    <3>2. Good(m - 1)
      <4>1. m - 1 \notin Bad
        BY <1>1, <2>1, <3>1
      <4> QED
        BY <3>1, <4>1
    <3>3. /\ f[m] = IF m \in ids THEN RemoveDead(f[m - 1], m) ELSE f[m - 1]
          /\ g[m] = IF m \in ids THEN RemoveDead(g[m - 1], m) ELSE g[m - 1]
      BY <1>2, <1>3, <2>2, <2>4 DEF Looped
    <3> DEFINE r1 == f[m - 1]
               q1 == g[m - 1]
    <3>4. \A id \in ids : id > m => id \in DOMAIN r1.world.entities \ {m}
      BY <1>1, <3>1, <3>2
    <3>5. CASE m \in ids
      <4>1. HasEntity(r1.world, m)
        BY <3>1, <3>2, <3>5 DEF HasEntity
      <4>2. /\ Runs(log, b, c, RemoveDead(r1, m), RemoveDead(q1, m))
            /\ DOMAIN RemoveDead(r1, m).world.entities = DOMAIN r1.world.entities \ {m}
            /\ DeadIds(RemoveDead(r1, m).world) = DeadIds(r1.world) \ {m}
            /\ RemoveDead(r1, m).world.tick = r1.world.tick
        <5>1. Runs(log, b, c, r1, q1)
          BY <3>2
        <5> HIDE DEF r1, q1
        <5> QED
          BY <4>1, <5>1, RemoveDeadBoth
      <4>3. f[m].world.tick = r.world.tick /\ Runs(log, b, c, f[m], g[m])
        BY <3>2, <3>3, <3>5, <4>2
      <4>4. \A id \in ids : id > m => id \in DOMAIN f[m].world.entities
        BY <3>3, <3>4, <3>5, <4>2
      <4>5. DeadIds(f[m].world) \subseteq {id \in ids : id > m}
        BY <1>1, <3>1, <3>2, <3>3, <3>5, <4>2
      <4> QED
        BY <2>2, <4>3, <4>4, <4>5
    <3>6. CASE m \notin ids
      <4>1. f[m] = r1 /\ g[m] = q1
        BY <3>3, <3>6
      <4>2. DeadIds(r1.world) \subseteq {id \in ids : id > m}
        BY <1>1, <3>1, <3>2, <3>6
      <4> QED
        BY <2>2, <3>2, <3>4, <4>1, <4>2
    <3> QED
      BY <3>5, <3>6
  <2> QED
    BY <2>3, <2>4
<1>5. Good(N)
  <2>1. N \in 0..N
    BY <1>1
  <2>2. N \notin Bad
    <3> HIDE DEF Bad
    <3> QED
      BY <1>4
  <2> QED
    BY <2>1, <2>2
<1>6. {id \in ids : id > N} = {}
  BY <1>1
<1> QED
  BY <1>2, <1>3, <1>5, <1>6

LEMMA TickSystemsBoth ==
  ASSUME NoneIsNoWorld, NEW log, NEW b, NEW c, NEW r, NEW q, Runs(log, b, c, r, q)
  PROVE  /\ Runs(log, b, c, RunTickSystems(r), RunTickSystems(q))
         /\ RunTickSystems(r).world.tick = r.world.tick
         /\ r.world.tick % ReapEvery = 0 => DeadIds(RunTickSystems(r).world) = {}
<1> DEFINE r1 == WearActive(r)
           q1 == WearActive(q)
<1>1. Runs(log, b, c, r1, q1) /\ r1.world.tick = r.world.tick
  BY WearActiveBoth
<1>2. q.world.tick = r.world.tick
  BY DEF Runs, Twins, Alike
<1> HIDE DEF r1, q1
<1>3. Runs(log, b, c, ReapDead(r1), ReapDead(q1)) /\ ReapDead(r1).world.tick = r1.world.tick
      /\ DeadIds(ReapDead(r1).world) = {}
  BY <1>1, ReapDeadBoth
<1> QED
  BY <1>1, <1>2, <1>3 DEF RunTickSystems, r1, q1

-----------------------------------------------------------------------------
(***************************************************************************)
(* The engine, and its commands on two engines that differ in the stamps.  *)
(***************************************************************************)
EngineInv(s) ==
  /\ s = LoadWorldState(s, s.world)
  /\ s.world # None /\ WorldInv(s.world)
  /\ s.world.seed \in Nat /\ s.world.rng \in Draws

\* What two executions of a command are at between two of its ticks.
Steps(log, b, c, x, y) ==
  /\ EngineInv(x.sim) /\ EngineInv(y.sim)
  /\ Alike(x.sim.world, y.sim.world)
  /\ x.events \in Seq(KernelEvent) /\ y.events = x.events
  /\ ReplayEvents(b, x.events) = x.sim.world
  /\ ReplayEvents(c, x.events) = y.sim.world
  /\ log \in Seq(KernelEvent)
  /\ Logged(x.sim.world, log \o x.events) /\ Closed(x.sim.world, log \o x.events)

LEMMA EngineFields ==
  ASSUME NEW s, EngineInv(s)
  PROVE  /\ s.rng = [seed |-> s.world.seed, state |-> s.world.rng]
         /\ IsRng(s.rng) /\ s.clock = s.world.tick
BY DEF EngineInv, LoadWorldState, IsRng

\* The clock moves to the tick after the last one of the log.
LEMMA TickOpens ==
  ASSUME NEW w, IsWorld(w), NEW log, Logged(w, log), Closed(w, log), NEW v,
         v.tick = w.tick + 1, v.nextId = w.nextId, v.entities = w.entities
  PROVE  Logged(v, log) /\ Open(v, log)
<1>1. w.tick \in Nat
  BY DEF IsWorld
<1>2. Stepping(v, log) /\ Open(v, log)
  BY <1>1 DEF Logged, Closed, Stepping, Open
<1>3. Known(v, log) /\ AmountsAddUp(v, log) /\ DeathsRecent(v, log)
  BY DEF Logged, Known, AmountsAddUp, DeathsRecent, HasEntity
<1> QED
  BY <1>2, <1>3 DEF Logged

LEMMA TickBoth ==
  ASSUME NoneIsNoWorld, NEW log, NEW b, NEW c, NEW x, NEW y, Steps(log, b, c, x, y)
  PROVE  LET x1 == CmdTick(x.sim, x.events)
             y1 == CmdTick(y.sim, y.events)
         IN  Steps(log, b, c, x1, y1) /\ x1.sim.world.tick = x.sim.world.tick + 1
<1> DEFINE w == x.sim.world
           u == y.sim.world
           w1 == AdvanceTick(w)
           u1 == AdvanceTick(u)
           r == [world |-> w1, rng |-> x.sim.rng, events |-> x.events]
           q == [world |-> u1, rng |-> y.sim.rng, events |-> x.events]
           r1 == RunTickSystems(r)
           q1 == RunTickSystems(q)
<1>1. /\ w # None /\ u # None /\ WorldInv(w) /\ WorldInv(u) /\ Alike(w, u)
      /\ w.tick \in Nat /\ u.tick = w.tick /\ Shape(w) /\ Shape(u)
      /\ x.events \in Seq(KernelEvent) /\ y.events = x.events
      /\ ReplayEvents(b, x.events) = w /\ ReplayEvents(c, x.events) = u
      /\ IsWorld(w) /\ log \in Seq(KernelEvent)
      /\ Logged(w, log \o x.events) /\ Closed(w, log \o x.events)
  BY WorldShape DEF Steps, EngineInv, WorldInv, WorldFrom, IsWorld, Alike
<1>2. IsRng(x.sim.rng) /\ x.sim.rng.seed = w.seed /\ y.sim.rng = x.sim.rng
  <2>1. EngineInv(x.sim) /\ EngineInv(y.sim) /\ Alike(x.sim.world, y.sim.world)
    BY DEF Steps
  <2>2. /\ x.sim.rng = [seed |-> w.seed, state |-> w.rng] /\ IsRng(x.sim.rng)
        /\ y.sim.rng = [seed |-> u.seed, state |-> u.rng]
    BY <2>1, EngineFields
  <2> QED
    BY <2>1, <2>2 DEF Alike
<1>3. w1 = AtTick(w, w.tick + 1) /\ u1 = AtTick(u, w.tick + 1)
  BY <1>1 DEF AdvanceTick, AtTick, Shape
<1>4. WorldInv(w1) /\ WorldInv(u1) /\ Alike(w1, u1)
  <2>1. w.tick + 1 \in Nat
    BY <1>1
  <2> HIDE DEF w1, u1
  <2>2. WorldInv(w1) /\ WorldInv(u1)
    BY <1>1, <1>3, <2>1, TicksKeep DEF WorldInv
  <2>3. Alike(w1, u1)
    BY <1>1, <1>3, <2>1, TicksAlike DEF WorldInv, WorldFrom
  <2> QED
    BY <2>2, <2>3
<1>5. /\ w1.tick = w.tick + 1 /\ w1.seed = w.seed /\ u1.tick = w.tick + 1
      /\ w1.nextId = w.nextId /\ w1.entities = w.entities
  BY <1>1 DEF AdvanceTick, Shape
<1> HIDE DEF w1, u1
<1>6. Follows(b, x.events, w1) /\ Follows(c, x.events, u1)
  BY <1>1, <1>3, <1>5 DEF Follows
<1>7. Twins(log, b, c, w1, u1, x.events) /\ Open(w1, log \o x.events)
  <2>1. Logged(w1, log \o x.events) /\ Open(w1, log \o x.events)
    BY <1>1, <1>5, TickOpens
  <2> QED
    BY <1>1, <1>4, <1>6, <2>1 DEF Twins
<1>8. Runs(log, b, c, r, q)
  BY <1>2, <1>5, <1>7 DEF Runs, IsRun
<1>9. /\ Runs(log, b, c, r1, q1) /\ r1.world.tick = w.tick + 1
      /\ r1.world.tick % ReapEvery = 0 => DeadIds(r1.world) = {}
  <2>1. r.world.tick = w.tick + 1
    BY <1>5
  <2> HIDE DEF r, q
  <2> QED
    BY <1>8, <2>1, TickSystemsBoth
<1> DEFINE tick == r1.world.tick
           e == [type |-> "TickProcessed", tick |-> tick, at |-> tick, rng |-> r1.rng.state]
           w2 == [r1.world EXCEPT !.rng = r1.rng.state]
           u2 == [q1.world EXCEPT !.rng = r1.rng.state]
<1> HIDE DEF r, q, r1, q1
<1>10. /\ CmdTick(x.sim, x.events) =
            [sim |-> [world |-> w2, rng |-> r1.rng, clock |-> tick],
             events |-> Append(r1.events, e)]
       /\ CmdTick(y.sim, y.events) =
            [sim |-> [world |-> u2, rng |-> r1.rng, clock |-> tick],
             events |-> Append(r1.events, e)]
  <2>1. q1.rng = r1.rng /\ q1.events = r1.events /\ q1.world.tick = tick
    BY <1>9 DEF Runs, Twins, Alike
  <2>2. /\ r1 = RunTickSystems([world |-> AdvanceTick(x.sim.world), rng |-> x.sim.rng,
                                events |-> x.events])
        /\ q1 = RunTickSystems([world |-> AdvanceTick(y.sim.world), rng |-> y.sim.rng,
                                events |-> y.events])
    BY <1>1 DEF r, q, r1, q1, w1, u1
  <2> QED
    BY <2>1, <2>2 DEF CmdTick
<1>11. /\ IsRng(r1.rng) /\ r1.rng.seed = r1.world.seed
       /\ Twins(log, b, c, r1.world, q1.world, r1.events) /\ r1.events \in Seq(KernelEvent)
       /\ tick \in Nat /\ Shape(r1.world) /\ Shape(q1.world) /\ q1.world.tick = tick
       /\ Open(r1.world, log \o r1.events)
  BY <1>9, WorldShape DEF Runs, Twins, WorldInv, WorldFrom, IsWorld, Alike
<1>12. e \in KernelEvent /\ e.tick = r1.world.tick /\ e.at = e.tick
  BY <1>11 DEF KernelEvent, IsRng
<1>13. Fits(r1.world, e)
  BY DEF Fits, CreatedFits, ZoneFits, SpawnFits, MoveFits, StateFits, PropertyFits,
         DepletionFits, DegradationFits, OnEntity
<1>14. Effect(r1.world, e) = w2 /\ Effect(q1.world, e) = u2
  <2>1. AtTick(r1.world, e.tick) = r1.world /\ AtTick(q1.world, e.tick) = q1.world
    BY <1>11 DEF AtTick
  <2>2. /\ Effect(r1.world, e) = Restored(r1.world, e)
        /\ Effect(q1.world, e) = Restored(q1.world, e)
    BY <2>1 DEF Effect
  <2> QED
    BY <2>2 DEF Restored
<1> HIDE DEF e
<1>15. /\ Twins(log, b, c, w2, u2, Append(r1.events, e))
       /\ w2.tick = tick /\ w2.seed = r1.world.seed
       /\ ReplayEvents(b, Append(r1.events, e)) = w2
       /\ ReplayEvents(c, Append(r1.events, e)) = u2
       /\ Closed(w2, log \o Append(r1.events, e))
  <2>1. e.type = "TickProcessed" /\ Fresh(r1.world, log \o r1.events, e)
    BY <1>9, <1>11 DEF Fresh, e
  <2> HIDE DEF w2, u2
  <2> QED
    BY <1>11, <1>12, <1>13, <1>14, <2>1, BothEvents
<1>16. w2.rng = r1.rng.state
  BY <1>11 DEF Shape
<1> HIDE DEF w2, u2, tick
<1>17. /\ WorldInv(w2) /\ WorldInv(u2) /\ Alike(w2, u2) /\ w2 # None /\ u2 # None
       /\ Append(r1.events, e) \in Seq(KernelEvent)
       /\ log \in Seq(KernelEvent) /\ Logged(w2, log \o Append(r1.events, e))
  BY <1>15 DEF Twins, NoneIsNoWorld, WorldInv, WorldFrom
<1>18. r1.rng = [seed |-> w2.seed, state |-> w2.rng]
  BY <1>11, <1>15, <1>16 DEF IsRng
<1>19. /\ w2.seed \in Nat /\ w2.rng \in Draws
       /\ u2.seed = w2.seed /\ u2.rng = w2.rng /\ u2.tick = tick
  BY <1>11, <1>15, <1>16, <1>17 DEF IsRng, Alike
<1>20. /\ EngineInv([world |-> w2, rng |-> r1.rng, clock |-> tick])
       /\ EngineInv([world |-> u2, rng |-> r1.rng, clock |-> tick])
  BY <1>15, <1>17, <1>18, <1>19 DEF EngineInv, LoadWorldState
<1>21. tick = w.tick + 1
  BY <1>9 DEF tick
<1> QED
  BY <1>10, <1>15, <1>17, <1>20, <1>21 DEF Steps

LEMMA TicksBoth ==
  ASSUME NoneIsNoWorld, NEW s, NEW q, EngineInv(s), EngineInv(q),
         Alike(s.world, q.world), NEW n \in 1..TickLimit,
         NEW log \in Seq(KernelEvent), Logged(s.world, log), Closed(s.world, log)
  PROVE  LET x == CmdTickN(s, n)
             y == CmdTickN(q, n)
         IN  /\ Steps(log, s.world, q.world, x, y) /\ x.ok /\ y.ok
             /\ x.events # << >>
<1> DEFINE b == s.world
           c == q.world
           sx == [sim |-> s, events |-> << >>]
           qx == [sim |-> q, events |-> << >>]
<1>1. n \in Nat \ {0} /\ b # None /\ c # None
  BY TickAssumption DEF EngineInv
<1>2. PICK f : /\ CmdTickN(s, n) = Done(f[n].sim, f[n].events)
               /\ \A i \in 0..n : f[i] = Looped("ticks", sx, {}, f, i)
  BY <1>1, TicksLoop
<1>3. PICK g : /\ CmdTickN(q, n) = Done(g[n].sim, g[n].events)
               /\ \A i \in 0..n : g[i] = Looped("ticks", qx, {}, g, i)
  BY <1>1, TicksLoop
<1> DEFINE Good(i) == Steps(log, b, c, f[i], g[i]) /\ f[i].sim.world.tick = s.world.tick + i
           Bad == {i \in 0..n : ~Good(i)}
<1>4. Bad = {}
  <2> SUFFICES ASSUME Bad # {} PROVE FALSE
    OBVIOUS
  <2>1. PICK m \in Bad : \A k \in Bad : m <= k
    <3>1. Bad \in SUBSET Nat
      BY <1>1
    <3> QED
      BY <3>1, LeastElement
  <2>2. m \in 0..n /\ ~Good(m)
    OBVIOUS
  <2>3. CASE m = 0
    <3>1. f[0] = sx /\ g[0] = qx
      BY <1>2, <1>3, <2>2, <2>3 DEF Looped
    <3>2. ReplayEvents(b, << >>) = b /\ ReplayEvents(c, << >>) = c
      BY ReplayNothing
    <3>3. s.world.tick + 0 = s.world.tick
      BY DEF EngineInv, WorldInv, WorldFrom, IsWorld
    <3>4. Steps(log, b, c, sx, qx)
      <4>1. log \o << >> = log
        OBVIOUS
      <4> QED
        BY <3>2, <4>1 DEF Steps
    <3> QED
      BY <2>2, <2>3, <3>1, <3>3, <3>4
  <2>4. CASE m # 0
    <3>1. m - 1 \in 0..n /\ m - 1 < m
      BY <1>1, <2>2, <2>4
    <3>2. Good(m - 1)
      <4>1. m - 1 \notin Bad
        BY <1>1, <2>1, <3>1
      <4> QED
        BY <3>1, <4>1
    <3> DEFINE x == f[m - 1]
               y == g[m - 1]
    <3>3. f[m] = CmdTick(x.sim, x.events) /\ g[m] = CmdTick(y.sim, y.events)
      BY <1>2, <1>3, <2>2, <2>4 DEF Looped
    <3>4. Steps(log, b, c, x, y) /\ x.sim.world.tick = s.world.tick + (m - 1)
      BY <3>2
    <3> HIDE DEF x, y
    <3>5. Steps(log, b, c, f[m], g[m]) /\ f[m].sim.world.tick = x.sim.world.tick + 1
      BY <3>3, <3>4, TickBoth
    <3>6. f[m].sim.world.tick = s.world.tick + m
      <4>1. s.world.tick \in Nat /\ m \in Nat
        BY <2>2, <1>1 DEF EngineInv, WorldInv, WorldFrom, IsWorld
      <4> QED
        BY <3>4, <3>5, <4>1
    <3> QED
      BY <2>2, <3>5, <3>6
  <2> QED
    BY <2>3, <2>4
<1>5. Good(n)
  <2>1. n \in 0..n
    BY <1>1
  <2>2. n \notin Bad
    <3> HIDE DEF Bad
    <3> QED
      BY <1>4
  <2> QED
    BY <2>1, <2>2
<1>6. /\ CmdTickN(s, n).sim = f[n].sim /\ CmdTickN(s, n).events = f[n].events
      /\ CmdTickN(q, n).sim = g[n].sim /\ CmdTickN(q, n).events = g[n].events
      /\ CmdTickN(s, n).ok /\ CmdTickN(q, n).ok
  BY <1>2, <1>3 DEF Done
<1>7. f[n].events # << >>
  <2>1. f[n].sim.world # s.world
    <3>1. s.world.tick \in Nat /\ f[n].sim.world.tick = s.world.tick + n
      BY <1>5 DEF EngineInv, WorldInv, WorldFrom, IsWorld
    <3> QED
      BY <1>1, <3>1
  <2>2. ReplayEvents(b, f[n].events) = f[n].sim.world
    BY <1>5 DEF Steps
  <2> QED
    BY <2>1, <2>2, ReplayNothing
<1> QED
  BY <1>5, <1>6, <1>7 DEF Steps

LEMMA SingleEvent ==
  ASSUME NoneIsNoWorld, NEW s, NEW q, EngineInv(s), EngineInv(q), Alike(s.world, q.world),
         NEW log \in Seq(KernelEvent), Logged(s.world, log), Closed(s.world, log),
         NEW e \in KernelEvent, e.type # "TickProcessed",
         Fits(s.world, e), Fresh(s.world, log, e),
         NEW x, x = Done([s EXCEPT !.world = Effect(s.world, e)], << e >>),
         NEW y, y = Done([q EXCEPT !.world = Effect(q.world, e)], << e >>)
  PROVE  Steps(log, s.world, q.world, x, y) /\ x.ok /\ y.ok /\ x.events # << >>
<1> DEFINE w == s.world
           u == q.world
           w1 == Effect(w, e)
           u1 == Effect(u, e)
<1>1. /\ WorldInv(w) /\ WorldInv(u) /\ w # None /\ u # None /\ w.tick \in Nat
      /\ s = [world |-> w, rng |-> [seed |-> w.seed, state |-> w.rng], clock |-> w.tick]
      /\ q = [world |-> u, rng |-> [seed |-> u.seed, state |-> u.rng], clock |-> u.tick]
      /\ w.seed \in Nat /\ w.rng \in Draws
      /\ u.seed = w.seed /\ u.rng = w.rng /\ u.tick = w.tick
  BY DEF EngineInv, LoadWorldState, WorldInv, WorldFrom, IsWorld, Alike
<1>0. log \o << >> = log
  OBVIOUS
<1>2. Twins(log, w, u, w, u, << >>)
  <2>1. << >> \in Seq(KernelEvent)
    OBVIOUS
  <2>2. ReplayEvents(w, << >>) = w /\ ReplayEvents(u, << >>) = u
    BY ReplayNothing
  <2>3. AtTick(w, w.tick) = w /\ AtTick(u, u.tick) = u
    BY <1>1 DEF AtTick
  <2> QED
    BY <1>0, <1>1, <2>1, <2>2, <2>3 DEF Twins, Follows
<1>3. /\ Twins(log, w, u, w1, u1, Append(<< >>, e)) /\ w1.tick = w.tick /\ w1.seed = w.seed
      /\ ReplayEvents(w, Append(<< >>, e)) = w1 /\ ReplayEvents(u, Append(<< >>, e)) = u1
      /\ Closed(w1, log \o Append(<< >>, e))
  <2> DEFINE none == << >>
  <2>1. Twins(log, w, u, w, u, none) /\ Fresh(w, log \o none, e) /\ Closed(w, log \o none)
    BY <1>0, <1>2
  <2> HIDE DEF none
  <2>2. /\ Twins(log, w, u, w1, u1, Append(none, e)) /\ w1.tick = w.tick /\ w1.seed = w.seed
        /\ ReplayEvents(w, Append(none, e)) = w1 /\ ReplayEvents(u, Append(none, e)) = u1
        /\ Closed(w1, log \o Append(none, e))
    BY <2>1, BothEvents
  <2> QED
    BY <2>2 DEF none
<1>4. w1.rng = w.rng
  <2>1. Accepts(w, e)
    BY <1>1, <1>2, OneEvent DEF Twins, Fresh
  <2> QED
    BY <1>1, <2>1, EffectFrame
<1>5. Append(<< >>, e) = << e >>
  OBVIOUS
<1> HIDE DEF w1, u1
<1>6. /\ WorldInv(w1) /\ WorldInv(u1) /\ Alike(w1, u1) /\ w1 # None /\ u1 # None
      /\ << e >> \in Seq(KernelEvent) /\ Logged(w1, log \o Append(<< >>, e))
      /\ u1.seed = w1.seed /\ u1.rng = w1.rng /\ u1.tick = w1.tick
  BY <1>3 DEF Twins, NoneIsNoWorld, WorldInv, WorldFrom, Alike
<1>7. /\ x.sim = [world |-> w1, rng |-> [seed |-> w.seed, state |-> w.rng], clock |-> w.tick]
      /\ y.sim = [world |-> u1, rng |-> [seed |-> w.seed, state |-> w.rng], clock |-> w.tick]
      /\ x.events = << e >> /\ y.events = << e >> /\ x.ok /\ y.ok
  BY <1>1 DEF Done, w1, u1
<1> HIDE DEF w, u
<1>8. /\ EngineInv(x.sim) /\ EngineInv(y.sim)
  BY <1>1, <1>3, <1>4, <1>6, <1>7 DEF EngineInv, LoadWorldState
<1>9. x.sim.world = w1 /\ y.sim.world = u1
  BY <1>7
<1>10. x.events # << >>
  <2>1. << e >> # << >>
    OBVIOUS
  <2> QED
    BY <1>7, <2>1
<1> QED
  BY <1>3, <1>5, <1>6, <1>7, <1>8, <1>9, <1>10 DEF Steps, w, u

(***************************************************************************)
(* Any command: both executions are refused, or both succeed with the same *)
(* events, and replaying those makes the world that execution made.        *)
(***************************************************************************)
LEMMA OutcomeBoth ==
  ASSUME NoneIsNoWorld, NEW s, NEW q, EngineInv(s), EngineInv(q),
         Alike(s.world, q.world), NEW cmd \in Command,
         NEW log \in Seq(KernelEvent), Logged(s.world, log), Closed(s.world, log)
  PROVE  LET x == Outcome(s, cmd)
             y == Outcome(q, cmd)
         IN  \/ ~x.ok /\ x.sim = s
             \/ /\ x.ok /\ Steps(log, s.world, q.world, x, y)
                /\ x.events # << >>
<1> DEFINE w == s.world
           u == q.world
           x == Outcome(s, cmd)
           y == Outcome(q, cmd)
<1>1. /\ WorldInv(w) /\ WorldInv(u) /\ w # None /\ u # None /\ w.tick \in Nat
      /\ w.nextId \in Nat \ {0} /\ Shape(w) /\ Shape(u)
      /\ u.entities = w.entities /\ u.zones = w.zones /\ u.tick = w.tick /\ u.nextId = w.nextId
  BY WorldShape DEF EngineInv, WorldInv, WorldFrom, IsWorld, Alike
<1>2. ASSUME NEW engine PROVE Refused(engine).sim = engine /\ ~Refused(engine).ok
  BY DEF Refused
<1>3. CASE cmd.op = "CreateWorld"
  <2>1. x = Refused(s)
    BY <1>1, <1>3 DEF Outcome, CmdCreateWorld
  <2> QED
    BY <1>2, <2>1
<1>4. CASE cmd.op = "Tick"
  <2>1. x = CmdTickN(s, 1) /\ y = CmdTickN(q, 1)
    BY <1>4 DEF Outcome
  <2>2. 1 \in 1..TickLimit
    BY TickAssumption
  <2> HIDE DEF x, y
  <2> QED
    BY <2>1, <2>2, TicksBoth DEF x, y
<1>5. CASE cmd.op = "TickN"
  <2>1. x = CmdTickN(s, cmd.n) /\ y = CmdTickN(q, cmd.n)
    BY <1>5 DEF Outcome
  <2> HIDE DEF x, y
  <2>2. CASE cmd.n \in 1..TickLimit
    BY <2>1, <2>2, TicksBoth DEF x, y
  <2>3. CASE cmd.n \notin 1..TickLimit
    <3>1. x = Refused(s)
      BY <2>1, <2>3 DEF CmdTickN
    <3> QED
      BY <1>2, <3>1 DEF x
  <2> QED
    BY <2>2, <2>3
<1>6. CASE cmd.op = "SpawnEntity"
  <2>1. /\ cmd.kind \in EntityKind /\ cmd.zone \in Nat
        /\ cmd.amount \in Nat \cup {None} /\ cmd.health \in Nat \cup {None}
    BY <1>6 DEF Command
  <2>2. x = CmdSpawnEntity(s, cmd) /\ y = CmdSpawnEntity(q, cmd)
    BY <1>6 DEF Outcome
  <2> HIDE DEF x, y
  <2>3. CASE ~HasZone(w, cmd.zone)
    <3>1. x = Refused(s)
      BY <2>2, <2>3 DEF CmdSpawnEntity
    <3> QED
      BY <1>2, <3>1 DEF x
  <2>4. CASE HasZone(w, cmd.zone)
    <3> DEFINE id == w.nextId
               entity == NewEntity(cmd.kind, cmd.zone, w.tick, cmd.amount, cmd.health)
               e == [type |-> "EntitySpawned", tick |-> w.tick, id |-> id, kind |-> cmd.kind,
                     zone |-> cmd.zone, amount |-> cmd.amount, health |-> cmd.health]
    <3>1. e \in KernelEvent
      BY <1>1, <2>1 DEF KernelEvent
    <3>2. ~HasEntity(w, id)
      BY <1>1 DEF WorldInv, WorldFrom, Placed, HasEntity
    <3>3. Fits(w, e)
      BY <2>4, <3>2 DEF Fits, CreatedFits, ZoneFits, SpawnFits, MoveFits, StateFits,
                        PropertyFits, DepletionFits, DegradationFits, OnEntity
    <3>4. HasZone(u, cmd.zone) /\ ~HasEntity(u, id)
      BY <1>1, <2>4, <3>2 DEF HasZone, HasEntity
    <3>5. Effect(w, e) = Spawn(w, e) /\ Effect(u, e) = Spawn(u, e)
      <4>1. AtTick(w, e.tick) = w /\ AtTick(u, e.tick) = u
        BY <1>1 DEF AtTick
      <4> QED
        BY <3>2, <3>4, <4>1 DEF Effect
    <3>6. /\ Spawn(w, e) = AddEntity([w EXCEPT !.nextId = @ + 1], id, entity)
          /\ Spawn(u, e) = AddEntity([u EXCEPT !.nextId = @ + 1], id, entity)
      BY <1>1 DEF Spawn, Shape
    <3>7. /\ x = Done([s EXCEPT !.world = AddEntity([w EXCEPT !.nextId = @ + 1], id, entity)], << e >>)
          /\ y = Done([q EXCEPT !.world = AddEntity([u EXCEPT !.nextId = @ + 1], id, entity)], << e >>)
      BY <1>1, <2>2, <2>4, <3>4 DEF CmdSpawnEntity
    <3>8. Fresh(s.world, log, e) /\ e.type # "TickProcessed"
      BY DEF Fresh
    <3> HIDE DEF e, entity
    <3>9. /\ x = Done([s EXCEPT !.world = Effect(s.world, e)], << e >>)
          /\ y = Done([q EXCEPT !.world = Effect(q.world, e)], << e >>)
      BY <3>5, <3>6, <3>7
    <3>10. Steps(log, s.world, q.world, x, y) /\ x.ok /\ x.events # << >>
      BY <3>1, <3>3, <3>8, <3>9, SingleEvent
    <3> QED
      BY <3>10 DEF x, y
  <2> QED
    BY <2>3, <2>4
<1>7. CASE cmd.op = "DespawnEntity"
  <2>1. cmd.id \in Nat
    BY <1>7 DEF Command
  <2>2. x = CmdDespawnEntity(s, cmd.id) /\ y = CmdDespawnEntity(q, cmd.id)
    BY <1>7 DEF Outcome
  <2> HIDE DEF x, y
  <2>3. CASE ~HasEntity(w, cmd.id)
    <3>1. x = Refused(s)
      BY <2>2, <2>3 DEF CmdDespawnEntity
    <3> QED
      BY <1>2, <3>1 DEF x
  <2>4. CASE HasEntity(w, cmd.id)
    <3> DEFINE e == [type |-> "EntityDespawned", tick |-> w.tick, id |-> cmd.id]
    <3>1. e \in KernelEvent
      BY <1>1, <2>1 DEF KernelEvent
    <3>2. Fits(w, e)
      BY <2>4 DEF Fits, CreatedFits, ZoneFits, SpawnFits, MoveFits, StateFits,
                  PropertyFits, DepletionFits, DegradationFits
    <3>3. HasEntity(u, cmd.id)
      BY <1>1, <2>4 DEF HasEntity
    <3>4. Effect(w, e) = RemoveEntity(w, cmd.id) /\ Effect(u, e) = RemoveEntity(u, cmd.id)
      <4>1. AtTick(w, e.tick) = w /\ AtTick(u, e.tick) = u
        BY <1>1 DEF AtTick
      <4> QED
        BY <4>1 DEF Effect
    <3>5. /\ x = Done([s EXCEPT !.world = RemoveEntity(w, cmd.id)], << e >>)
          /\ y = Done([q EXCEPT !.world = RemoveEntity(u, cmd.id)], << e >>)
      BY <1>1, <2>2, <2>4, <3>3 DEF CmdDespawnEntity
    <3>6. Fresh(s.world, log, e) /\ e.type # "TickProcessed"
      BY DEF Fresh
    <3> HIDE DEF e
    <3>7. /\ x = Done([s EXCEPT !.world = Effect(s.world, e)], << e >>)
          /\ y = Done([q EXCEPT !.world = Effect(q.world, e)], << e >>)
      BY <3>4, <3>5
    <3>8. Steps(log, s.world, q.world, x, y) /\ x.ok /\ x.events # << >>
      BY <3>1, <3>2, <3>6, <3>7, SingleEvent
    <3> QED
      BY <3>8 DEF x, y
  <2> QED
    BY <2>3, <2>4
<1>8. CASE cmd.op = "CreateZone"
  <2>1. cmd.zone \in Nat /\ cmd.name \in ZoneNames
    BY <1>8 DEF Command
  <2>2. x = CmdCreateZone(s, cmd) /\ y = CmdCreateZone(q, cmd)
    BY <1>8 DEF Outcome
  <2> HIDE DEF x, y
  <2>3. CASE HasZone(w, cmd.zone)
    <3>1. x = Refused(s)
      BY <2>2, <2>3 DEF CmdCreateZone
    <3> QED
      BY <1>2, <3>1 DEF x
  <2>4. CASE ~HasZone(w, cmd.zone)
    <3> DEFINE e == [type |-> "ZoneCreated", tick |-> w.tick,
                     zone |-> cmd.zone, name |-> cmd.name]
    <3>1. e \in KernelEvent
      BY <1>1, <2>1 DEF KernelEvent
    <3>2. Fits(w, e)
      BY <2>4 DEF Fits, CreatedFits, ZoneFits, SpawnFits, MoveFits, StateFits,
                  PropertyFits, DepletionFits, DegradationFits, OnEntity
    <3>3. ~HasZone(u, cmd.zone)
      BY <1>1, <2>4 DEF HasZone
    <3>4. /\ Effect(w, e) = AddZone(w, cmd.zone, cmd.name)
          /\ Effect(u, e) = AddZone(u, cmd.zone, cmd.name)
      <4>1. AtTick(w, e.tick) = w /\ AtTick(u, e.tick) = u
        BY <1>1 DEF AtTick
      <4> QED
        BY <2>4, <3>3, <4>1 DEF Effect, AnnounceZone
    <3>5. /\ x = Done([s EXCEPT !.world = AddZone(w, cmd.zone, cmd.name)], << e >>)
          /\ y = Done([q EXCEPT !.world = AddZone(u, cmd.zone, cmd.name)], << e >>)
      BY <1>1, <2>2, <2>4, <3>3 DEF CmdCreateZone
    <3>6. Fresh(s.world, log, e) /\ e.type # "TickProcessed"
      BY DEF Fresh
    <3> HIDE DEF e
    <3>7. /\ x = Done([s EXCEPT !.world = Effect(s.world, e)], << e >>)
          /\ y = Done([q EXCEPT !.world = Effect(q.world, e)], << e >>)
      BY <3>4, <3>5
    <3>8. Steps(log, s.world, q.world, x, y) /\ x.ok /\ x.events # << >>
      BY <3>1, <3>2, <3>6, <3>7, SingleEvent
    <3> QED
      BY <3>8 DEF x, y
  <2> QED
    BY <2>3, <2>4
<1>9. cmd.op \in {"CreateWorld", "Tick", "TickN", "SpawnEntity", "DespawnEntity", "CreateZone"}
  BY DEF Command
<1> QED
  BY <1>3, <1>4, <1>5, <1>6, <1>7, <1>8, <1>9

-----------------------------------------------------------------------------
(***************************************************************************)
(* Replay from two worlds that differ in the stamps.                       *)
(***************************************************************************)
LEMMA ReplayBoth ==
  ASSUME NoneIsNoWorld,
         NEW v, NEW w, v # None, WorldInv(v), WorldInv(w), Alike(v, w),
         NEW events \in Seq(KernelEvent), ReplayEvents(w, events) # None
  PROVE  /\ ReplayEvents(v, events) # None
         /\ WorldInv(ReplayEvents(v, events)) /\ WorldInv(ReplayEvents(w, events))
         /\ Alike(ReplayEvents(v, events), ReplayEvents(w, events))
<1> DEFINE N == Len(events)
           Prefix(n) == SubSeq(events, 1, n)
           V(n) == ReplayEvents(v, Prefix(n))
           W(n) == ReplayEvents(w, Prefix(n))
           Good(n) == W(n) # None => /\ V(n) # None
                                     /\ WorldInv(V(n)) /\ WorldInv(W(n))
                                     /\ Alike(V(n), W(n))
           Bad == {n \in 0..N : ~Good(n)}
<1>1. N \in Nat
  OBVIOUS
<1>2. Bad = {}
  <2> SUFFICES ASSUME Bad # {} PROVE FALSE
    OBVIOUS
  <2>1. PICK m \in Bad : \A k \in Bad : m <= k
    <3>1. Bad \in SUBSET Nat
      BY <1>1
    <3> HIDE DEF Bad
    <3> QED
      BY <3>1, LeastElement
  <2>2. m \in 0..N /\ ~Good(m)
    OBVIOUS
  <2>3. CASE m = 0
    <3>1. Prefix(0) = << >>
      BY SubSeqEmpty
    <3>2. V(0) = v /\ W(0) = w
      BY <3>1, ReplayNothing
    <3> HIDE DEF V, W
    <3> QED
      BY <2>2, <2>3, <3>2
  <2>4. CASE m # 0
    <3>1. m \in 1..N /\ m - 1 \in 0..N /\ m - 1 < m
      BY <1>1, <2>2, <2>4
    <3>2. Good(m - 1)
      <4>1. m - 1 \notin Bad
        <5> HIDE DEF Bad
        <5> QED
          BY <1>1, <2>1, <3>1
      <4> HIDE DEF Good
      <4> QED
        BY <3>1, <4>1
    <3> DEFINE e == events[m]
    <3>3. /\ Prefix(m - 1) \in Seq(KernelEvent) /\ e \in KernelEvent
          /\ Prefix(m) = Append(Prefix(m - 1), e)
      BY <3>1, PrefixGrows
    <3> HIDE DEF Prefix, e
    <3>4. V(m) = ApplyEvent(V(m - 1), e) /\ W(m) = ApplyEvent(W(m - 1), e)
      BY <3>3, ReplayOneMore
    <3> DEFINE v1 == V(m - 1)
               w1 == W(m - 1)
    <3>5. V(m) = ApplyEvent(v1, e) /\ W(m) = ApplyEvent(w1, e)
      BY <3>4
    <3>6. w1 # None => v1 # None /\ WorldInv(v1) /\ WorldInv(w1) /\ Alike(v1, w1)
      BY <3>2
    <3> HIDE DEF v1, w1
    <3>7. SUFFICES ASSUME W(m) # None
                   PROVE  V(m) # None /\ WorldInv(V(m)) /\ WorldInv(W(m)) /\ Alike(V(m), W(m))
      BY <2>2
    <3> HIDE DEF V, W
    <3>8. /\ w1 # None /\ Accepts(w1, e) /\ W(m) = Effect(w1, e)
      BY <3>5, <3>7 DEF ApplyEvent
    <3>9. v1 # None /\ WorldInv(v1) /\ WorldInv(w1) /\ Alike(v1, w1) /\ Alike(w1, v1)
      BY <3>6, <3>8 DEF Alike
    <3>10. Accepts(v1, e)
      BY <3>8, <3>9, AcceptsAlike
    <3>11. V(m) = Effect(v1, e)
      BY <3>5, <3>9, <3>10 DEF ApplyEvent
    <3>12. WorldInv(V(m)) /\ WorldInv(W(m))
      BY <3>3, <3>8, <3>9, <3>10, <3>11, KernelEventFields, EffectKeeps DEF WorldInv
    <3>13. Alike(V(m), W(m))
      BY <3>3, <3>8, <3>9, <3>10, <3>11, EffectAlike
    <3>14. V(m) # None
      BY <3>12 DEF WorldInv, WorldFrom, NoneIsNoWorld
    <3> QED
      BY <3>12, <3>13, <3>14
  <2> QED
    BY <2>3, <2>4
<1>3. Good(N)
  <2>1. N \in 0..N
    BY <1>1
  <2>2. N \notin Bad
    <3> HIDE DEF Bad
    <3> QED
      BY <1>2
  <2> HIDE DEF Good
  <2> QED
    BY <2>1, <2>2
<1>4. Prefix(N) = events
  BY SubSeqFull
<1> QED
  BY <1>3, <1>4

\* What follows a place in a sequence grows with the sequence.
LEMMA SuffixGrows ==
  ASSUME NEW S, NEW s \in Seq(S), NEW r \in Seq(S), NEW n \in 0..Len(s)
  PROVE  /\ SubSeq(s \o r, n + 1, Len(s \o r)) = SubSeq(s, n + 1, Len(s)) \o r
         /\ SubSeq(s, n + 1, Len(s)) \in Seq(S)
<1> DEFINE both == s \o r
           tail == SubSeq(s, n + 1, Len(s))
           x == SubSeq(both, n + 1, Len(both))
           y == tail \o r
<1>1. Len(s) \in Nat /\ Len(r) \in Nat /\ n \in Nat /\ n <= Len(s)
  OBVIOUS
<1>2. /\ both \in Seq(S) /\ Len(both) = Len(s) + Len(r)
      /\ \A i \in 1..Len(both) : both[i] = IF i <= Len(s) THEN s[i] ELSE r[i - Len(s)]
  BY ConcatProperties
<1>3. /\ tail \in Seq(S) /\ Len(tail) = Len(s) - n
      /\ \A i \in 1..(Len(s) - n) : tail[i] = s[n + i]
  <2>1. \A i \in (n + 1)..Len(s) : s[i] \in S
    BY <1>1, ElementOfSeq
  <2>2. tail \in Seq(S)
    BY <1>1, <2>1, SubSeqProperties
  <2>3. Len(tail) = Len(s) - n
    BY <1>1, <2>1, SubSeqProperties
  <2>4. ASSUME NEW i \in 1..(Len(s) - n) PROVE tail[i] = s[n + i]
    <3>1. tail[i] = s[(n + 1) + i - 1]
      BY <1>1, <2>1, <2>3, SubSeqProperties
    <3>2. (n + 1) + i - 1 = n + i
      BY <1>1
    <3> QED
      BY <3>1, <3>2
  <2> QED
    BY <2>2, <2>3, <2>4
<1>4. /\ x \in Seq(S) /\ Len(x) = Len(both) - n
      /\ \A i \in 1..(Len(both) - n) : x[i] = both[n + i]
  <2> HIDE DEF both
  <2>0. Len(both) \in Nat
    BY <1>1, <1>2
  <2>1. \A i \in (n + 1)..Len(both) : both[i] \in S
    BY <1>1, <1>2, ElementOfSeq
  <2>2. x \in Seq(S)
    BY <1>1, <1>2, <2>0, <2>1, SubSeqProperties
  <2>3. Len(x) = Len(both) - n
    BY <1>1, <1>2, <2>0, <2>1, SubSeqProperties
  <2>4. ASSUME NEW i \in 1..(Len(both) - n) PROVE x[i] = both[n + i]
    <3>1. x[i] = both[(n + 1) + i - 1]
      BY <1>1, <1>2, <2>0, <2>1, <2>3, SubSeqProperties
    <3>2. (n + 1) + i - 1 = n + i
      BY <1>1
    <3> QED
      BY <3>1, <3>2
  <2> QED
    BY <2>2, <2>3, <2>4
<1> HIDE DEF both, tail, x
<1>5. /\ y \in Seq(S) /\ Len(y) = Len(tail) + Len(r)
      /\ \A i \in 1..Len(y) : y[i] = IF i <= Len(tail) THEN tail[i] ELSE r[i - Len(tail)]
  <2>1. tail \in Seq(S)
    BY <1>3
  <2>2. /\ y \in Seq(S) /\ Len(y) = Len(tail) + Len(r)
        /\ \A i \in 1..(Len(tail) + Len(r)) :
             y[i] = IF i <= Len(tail) THEN tail[i] ELSE r[i - Len(tail)]
    BY <2>1, ConcatProperties, Zenon
  <2> HIDE DEF y
  <2> QED
    BY <2>2
<1> HIDE DEF y
<1>6. Len(x) = Len(y)
  BY <1>1, <1>2, <1>3, <1>4, <1>5
<1>7. ASSUME NEW i \in 1..Len(x) PROVE x[i] = y[i]
  <2>1. n + i \in 1..Len(both) /\ x[i] = both[n + i]
    BY <1>1, <1>2, <1>4
  <2>2. CASE i <= Len(tail)
    <3>1. n + i <= Len(s) /\ i \in 1..(Len(s) - n)
      BY <1>1, <1>3, <2>2
    <3> QED
      BY <1>2, <1>3, <1>5, <1>6, <2>1, <2>2, <3>1
  <2>3. CASE i > Len(tail)
    <3>1. ~(n + i <= Len(s)) /\ ~(i <= Len(tail)) /\ (n + i) - Len(s) = i - Len(tail)
      BY <1>1, <1>3, <2>3
    <3>2. both[n + i] = r[(n + i) - Len(s)] /\ y[i] = r[i - Len(tail)]
      BY <1>2, <1>5, <1>6, <2>1, <3>1
    <3> QED
      BY <2>1, <3>1, <3>2
  <2> QED
    BY <1>1, <1>3, <2>2, <2>3
<1>8. x = y
  BY <1>4, <1>5, <1>6, <1>7, SeqEqual
<1> QED
  BY <1>3, <1>8 DEF x, y, both, tail

\* Whatever it was before, an engine that loads a valid world is that of the world.
LEMMA LoadedEngine ==
  ASSUME NEW w, w # None, WorldInv(w), w.seed \in Nat, w.rng \in Draws, NEW q, NEW s,
         s = LoadWorldState(q, w)
  PROVE  EngineInv(s) /\ s.world = w /\ s.world # None
BY DEF EngineInv, LoadWorldState

\* The command that makes the world.
LEMMA WorldIsCreated ==
  ASSUME NoneIsNoWorld, NEW cmd \in Command, Outcome(NewEngine, cmd).ok
  PROVE  LET x == Outcome(NewEngine, cmd)
         IN  /\ EngineInv(x.sim) /\ x.events \in Seq(KernelEvent) /\ x.events # << >>
             /\ Logged(x.sim.world, x.events) /\ Closed(x.sim.world, x.events)
<1> DEFINE x == Outcome(NewEngine, cmd)
<1>1. NewEngine.world = None
  BY DEF NewEngine
<1>2. cmd.op = "CreateWorld" /\ cmd.seed \in Draws
  <2>1. cmd.op \in {"CreateWorld", "Tick", "TickN", "SpawnEntity", "DespawnEntity", "CreateZone"}
    BY DEF Command
  <2>2. cmd.op # "CreateWorld" => x = Refused(NewEngine)
    BY <1>1, <2>1 DEF Outcome, CmdTickN, CmdSpawnEntity, CmdDespawnEntity, CmdCreateZone
  <2>3. cmd.op = "CreateWorld"
    BY <2>2 DEF Refused
  <2> QED
    BY <2>3 DEF Command, Draws
<1> DEFINE seed == cmd.seed
           made == << [type |-> "WorldCreated", tick |-> 0, seed |-> seed],
                      [type |-> "ZoneCreated", tick |-> 0, zone |-> ORIGIN, name |-> "Origin"] >>
<1>3. x = CmdCreateWorld(NewEngine, seed)
  BY <1>2 DEF Outcome
<1>4. /\ x.sim = [world |-> NewWorld(seed), rng |-> [seed |-> seed, state |-> seed], clock |-> 0]
      /\ x.events = made
  BY <1>1, <1>3 DEF CmdCreateWorld, Done
<1>5. seed \in Nat /\ seed \in Draws
  BY <1>2, RngAssumption DEF Draws
<1>6. made \in Seq(KernelEvent)
  <2>1. [type |-> "WorldCreated", tick |-> 0, seed |-> seed] \in KernelEvent
    BY <1>5 DEF KernelEvent
  <2>2. [type |-> "ZoneCreated", tick |-> 0, zone |-> ORIGIN, name |-> "Origin"] \in KernelEvent
    BY NamesAssumption DEF KernelEvent, ORIGIN
  <2> QED
    BY <2>1, <2>2
<1>7. WorldInv(NewWorld(seed)) /\ NewWorld(seed) # None
  BY NewWorldIsValid DEF WorldInv, WorldFrom, NoneIsNoWorld
<1>8. NewWorld(seed).seed = seed /\ NewWorld(seed).rng = seed /\ NewWorld(seed).tick = 0
  BY DEF NewWorld
<1>9. EngineInv(x.sim)
  BY <1>4, <1>5, <1>7, <1>8 DEF EngineInv, LoadWorldState
<1>10. Logged(x.sim.world, made) /\ Closed(x.sim.world, made)
  <2> DEFINE w == x.sim.world
  <2>1. w.tick = 0 /\ w.nextId = 1 /\ w.entities = << >>
    BY <1>4 DEF NewWorld
  <2>2. /\ Len(made) = 2 /\ DOMAIN made = 1..2
        /\ \A i \in 1..2 : made[i].tick = 0 /\ made[i].type \in {"WorldCreated", "ZoneCreated"}
    OBVIOUS
  <2> HIDE DEF made, w
  <2>3. Ticked(made, 2) = {}
    BY <2>2 DEF Ticked
  <2>4. TicksDone(made) = 0
    BY <2>2, <2>3, FS_EmptySet DEF TicksDone
  <2>5. LastTick(made) = 0 /\ \A i \in 1..2 : TickBefore(made, i) = 0
    BY <2>2 DEF LastTick, TickBefore
  <2> QED
    BY <2>1, <2>2, <2>4, <2>5
    DEF Logged, Closed, Stepping, Known, SpawnsDiffer, AmountsAddUp, DeathsRecent, Closing, w
<1> QED
  BY <1>4, <1>6, <1>9, <1>10

(***************************************************************************)
(* What the log says of a world it says of one that is alike.              *)
(***************************************************************************)
LEMMA LoggedAlike ==
  ASSUME NEW v, NEW w, Alike(v, w), NEW log
  PROVE  /\ Logged(w, log) => Logged(v, log)
         /\ Closed(w, log) => Closed(v, log)
BY DEF Alike, Logged, Closed, Stepping, Known, AmountsAddUp, DeathsRecent, HasEntity

=============================================================================
