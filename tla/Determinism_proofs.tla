--------------------------- MODULE Determinism_proofs ---------------------------
(***************************************************************************)
(* Proofs about the determinism runner, for any schedules, names, numbers  *)
(* of ticks and checkpoint intervals: when inputs are fed, that their      *)
(* order of arrival does not matter, and that runs with equal checkpoints  *)
(* ended in the same world.                                                *)
(***************************************************************************)
EXTENDS Determinism, Kernel_proofs, FunctionTheorems

-----------------------------------------------------------------------------
(***************************************************************************)
(* A finite set can be listed in the order of a total relation, and in one *)
(* way only.                                                               *)
(***************************************************************************)
\* R orders S.
Orders(R, S) ==
  /\ \A x \in S : <<x, x>> \notin R
  /\ \A x, y \in S : x = y \/ <<x, y>> \in R \/ <<y, x>> \in R
  /\ \A x, y, z \in S : <<x, y>> \in R /\ <<y, z>> \in R => <<x, z>> \in R

Lists(f, R, S) ==
  /\ f \in [1..Cardinality(S) -> S]
  /\ \A i, j \in 1..Cardinality(S) : i < j => <<f[i], f[j]>> \in R

LEMMA ListingIsComplete ==
  ASSUME NEW S, IsFiniteSet(S), NEW R, Orders(R, S), NEW f, Lists(f, R, S)
  PROVE  \A x \in S : \E i \in 1..Cardinality(S) : f[i] = x
<1> DEFINE n == Cardinality(S)
<1>1. n \in Nat /\ IsFiniteSet(1..n) /\ Cardinality(1..n) = n
  BY FS_CardinalityType, FS_Interval
<1>2. f \in [1..n -> S]
  BY DEF Lists
<1>3. ASSUME NEW i \in 1..n, NEW j \in 1..n, f[i] = f[j] PROVE i = j
  <2>1. ~(i < j) /\ ~(j < i)
    BY <1>2, <1>3 DEF Lists, Orders
  <2> QED
    BY <1>1, <2>1
<1>4. f \in Injection(1..n, S)
  BY <1>2, <1>3, Fun_IsInj
<1>5. f \in Surjection(1..n, S)
  BY <1>1, <1>4, FS_Injection
<1> QED
  BY <1>5 DEF Surjection

LEMMA ListingExists ==
  ASSUME NEW S, IsFiniteSet(S), NEW R, Orders(R, S)
  PROVE  \E f : Lists(f, R, S)
<1> DEFINE n == Cardinality(S)
           below(x) == {y \in S : <<y, x>> \in R}
           rank == [x \in S |-> 1 + Cardinality(below(x))]
<1>1. n \in Nat /\ IsFiniteSet(1..n) /\ Cardinality(1..n) = n
  BY FS_CardinalityType, FS_Interval
<1>2. ASSUME NEW x \in S
      PROVE  /\ IsFiniteSet(below(x)) /\ Cardinality(below(x)) \in Nat
             /\ rank[x] \in 1..n
  <2>1. IsFiniteSet(below(x)) /\ Cardinality(below(x)) <= n /\ (n = Cardinality(below(x)) => S = below(x))
    BY FS_Subset
  <2>2. Cardinality(below(x)) \in Nat
    BY <2>1, FS_CardinalityType
  <2>3. x \notin below(x)
    BY DEF Orders
  <2> HIDE DEF below, n
  <2> QED
    BY <1>1, <2>1, <2>2, <2>3
<1>3. ASSUME NEW x \in S, NEW y \in S, <<x, y>> \in R
      PROVE  rank[x] < rank[y]
  <2>1. below(x) \cup {x} \subseteq below(y)
    BY <1>3 DEF Orders
  <2>2. x \notin below(x)
    BY DEF Orders
  <2>3. /\ IsFiniteSet(below(x)) /\ Cardinality(below(x)) \in Nat
        /\ IsFiniteSet(below(y)) /\ Cardinality(below(y)) \in Nat
    BY <1>2
  <2>4. rank[x] = 1 + Cardinality(below(x)) /\ rank[y] = 1 + Cardinality(below(y))
    OBVIOUS
  <2> HIDE DEF below, rank
  <2>5. Cardinality(below(x) \cup {x}) = Cardinality(below(x)) + 1
    BY <2>2, <2>3, FS_AddElement
  <2>6. Cardinality(below(x) \cup {x}) <= Cardinality(below(y))
    BY <2>1, <2>3, FS_Subset
  <2> QED
    BY <2>3, <2>4, <2>5, <2>6
<1>4. rank \in [S -> 1..n]
  BY <1>2
<1> HIDE DEF rank, below
<1>5. ASSUME NEW x \in S, NEW y \in S, rank[x] = rank[y] PROVE x = y
  <2>1. ~(rank[x] < rank[y]) /\ ~(rank[y] < rank[x])
    BY <1>1, <1>4, <1>5
  <2> QED
    BY <1>3, <2>1 DEF Orders
<1>6. rank \in Injection(S, 1..n)
  BY <1>4, <1>5, Fun_IsInj
<1>7. rank \in Surjection(S, 1..n)
  BY <1>1, <1>6, FS_Injection
<1>8. \A i \in 1..n : \E x \in S : rank[x] = i
  BY <1>7 DEF Surjection
<1> DEFINE f == [i \in 1..n |-> CHOOSE x \in S : rank[x] = i]
<1>9. \A i \in 1..n : f[i] \in S /\ rank[f[i]] = i
  BY <1>8
<1>10. f \in [1..n -> S]
  BY <1>9
<1> HIDE DEF f
<1>11. ASSUME NEW i \in 1..n, NEW j \in 1..n, i < j PROVE <<f[i], f[j]>> \in R
  <2>1. f[i] \in S /\ f[j] \in S /\ rank[f[i]] = i /\ rank[f[j]] = j
    BY <1>9
  <2>2. f[i] # f[j] /\ <<f[j], f[i]>> \notin R
    BY <1>1, <1>3, <1>11, <2>1
  <2> QED
    BY <2>1, <2>2 DEF Orders
<1> QED
  BY <1>10, <1>11 DEF Lists

\* A BTreeMap's keys in their order are all of its keys.
LEMMA AscendingLists ==
  ASSUME NEW ids \in SUBSET Nat, IsFiniteSet(ids)
  PROVE  LET n == Cardinality(ids)
         IN  /\ n \in Nat /\ Ascending(ids) \in [1..n -> ids]
             /\ \A i, j \in 1..n : i < j => Ascending(ids)[i] < Ascending(ids)[j]
             /\ \A id \in ids : \E i \in 1..n : Ascending(ids)[i] = id
<1> DEFINE n == Cardinality(ids)
           R == {p \in ids \X ids : p[1] < p[2]}
<1>1. n \in Nat
  BY FS_CardinalityType
<1>2. \A x, y \in ids : <<x, y>> \in R <=> x < y
  OBVIOUS
<1>3. Orders(R, ids)
  <2> HIDE DEF R
  <2> QED
    BY <1>2 DEF Orders
<1>4. PICK f : Lists(f, R, ids)
  <2> HIDE DEF R
  <2> QED
    BY <1>3, ListingExists
<1> HIDE DEF R
<1>5. f \in [1..n -> ids] /\ \A i, j \in 1..n : i < j => f[i] < f[j]
  BY <1>2, <1>4 DEF Lists
<1>6. /\ Ascending(ids) \in [1..n -> ids]
      /\ \A i, j \in 1..n : i < j => Ascending(ids)[i] < Ascending(ids)[j]
  BY <1>5 DEF Ascending
<1>7. Lists(Ascending(ids), R, ids)
  BY <1>2, <1>6 DEF Lists
<1> QED
  BY <1>1, <1>3, <1>6, <1>7, ListingIsComplete

-----------------------------------------------------------------------------
(***************************************************************************)
(* The order in which the inputs of a schedule are fed.                    *)
(***************************************************************************)
Input == [tick : InputTicks, command : Commands]

LEMMA InputTypes ==
  ASSUME NEW schedule \in Seq(Input)
  PROVE  \A i \in 1..Len(schedule) :
           schedule[i].tick \in Nat /\ schedule[i].tick \in InputTicks
           /\ schedule[i].command \in Command
<1>1. \A i \in 1..Len(schedule) : schedule[i] \in Input
  BY ElementOfSeq, LenProperties
<1> QED
  BY <1>1, RunAssumption DEF Input

LEMMA SortedLists ==
  ASSUME NEW schedule \in Seq(Input)
  PROVE  LET n == Len(schedule)
             order == Sorted(schedule)
         IN  /\ n \in Nat /\ order \in [1..n -> 1..n]
             /\ \A i, j \in 1..n : i < j => Earlier(schedule, order[i], order[j])
             /\ \A k \in 1..n : \E i \in 1..n : order[i] = k
<1> DEFINE n == Len(schedule)
           places == 1..n
           R == {p \in places \X places : Earlier(schedule, p[1], p[2])}
<1>1. n \in Nat /\ \A i \in places : schedule[i].tick \in Nat
  BY InputTypes
<1>2. IsFiniteSet(places) /\ Cardinality(places) = n
  <2>1. 1 \in Int /\ n \in Int
    BY <1>1
  <2>2. IsFiniteSet(1..n) /\ Cardinality(1..n) = IF 1 > n THEN 0 ELSE n - 1 + 1
    BY <2>1, FS_Interval
  <2> QED
    BY <1>1, <2>2
<1>3. \A x, y \in places : <<x, y>> \in R <=> Earlier(schedule, x, y)
  OBVIOUS
<1> HIDE DEF R
<1>4. Orders(R, places)
  <2>1. \A x \in places : ~Earlier(schedule, x, x)
    BY <1>1 DEF Earlier
  <2>2. \A x, y \in places : x = y \/ Earlier(schedule, x, y) \/ Earlier(schedule, y, x)
    BY <1>1 DEF Earlier
  <2>3. \A x, y, z \in places :
          Earlier(schedule, x, y) /\ Earlier(schedule, y, z) => Earlier(schedule, x, z)
    BY <1>1 DEF Earlier
  <2> HIDE DEF places
  <2> QED
    BY <1>3, <2>1, <2>2, <2>3 DEF Orders
<1>5. PICK f : Lists(f, R, places)
  BY <1>2, <1>4, ListingExists
<1>6. /\ f \in [places -> places]
      /\ \A i, j \in places : i < j => Earlier(schedule, f[i], f[j])
  BY <1>2, <1>3, <1>5 DEF Lists
<1>7. /\ Sorted(schedule) \in [places -> places]
      /\ \A i, j \in places :
           i < j => Earlier(schedule, Sorted(schedule)[i], Sorted(schedule)[j])
  BY <1>6 DEF Sorted
<1>8. Lists(Sorted(schedule), R, places)
  BY <1>2, <1>3, <1>7 DEF Lists
<1>9. \A k \in places : \E i \in places : Sorted(schedule)[i] = k
  <2> HIDE DEF places, n
  <2>1. \A k \in places : \E i \in 1..Cardinality(places) : Sorted(schedule)[i] = k
    BY <1>2, <1>4, <1>8, ListingIsComplete
  <2>2. 1..Cardinality(places) = places
    BY <1>2 DEF places
  <2> QED
    BY <2>1, <2>2
<1> QED
  BY <1>1, <1>7, <1>9

-----------------------------------------------------------------------------
(***************************************************************************)
(* When the inputs are fed.                                                *)
(***************************************************************************)
\* The tick of the input that is fed in place i.
TickOf(schedule, i) == schedule[Sorted(schedule)[i]].tick

\* The first n inputs were fed at their ticks.
FedSoFar(schedule, log, n) ==
  /\ log \in Seq([place : Nat, at : Nat]) /\ Len(log) = n
  /\ \A i \in 1..n : /\ log[i].place = Sorted(schedule)[i]
                     /\ log[i].at = TickOf(schedule, i)
                     /\ TickOf(schedule, i) < TotalTicks

OnTime(schedule, log) ==
  /\ {log[i].place : i \in DOMAIN log} = {p \in DOMAIN schedule : schedule[p].tick < TotalTicks}
  /\ \A i \in DOMAIN log : log[i].at = schedule[log[i].place].tick
  /\ \A i, j \in DOMAIN log :
       i < j => \/ log[i].at < log[j].at
                \/ log[i].at = log[j].at /\ log[i].place < log[j].place

LEMMA TicksAscend ==
  ASSUME NEW schedule \in Seq(Input)
  PROVE  /\ \A i \in 1..Len(schedule) : TickOf(schedule, i) \in Nat
         /\ \A i, j \in 1..Len(schedule) :
              i < j => TickOf(schedule, i) <= TickOf(schedule, j)
<1> DEFINE n == Len(schedule)
           order == Sorted(schedule)
<1>1. /\ n \in Nat /\ order \in [1..n -> 1..n]
      /\ \A i, j \in 1..n : i < j => Earlier(schedule, order[i], order[j])
  BY SortedLists
<1>2. \A k \in 1..n : schedule[k].tick \in Nat
  BY InputTypes
<1> HIDE DEF order, n
<1>3. \A i \in 1..n : schedule[order[i]].tick \in Nat
  BY <1>1, <1>2
<1>4. ASSUME NEW i \in 1..n, NEW j \in 1..n, i < j
      PROVE  schedule[order[i]].tick <= schedule[order[j]].tick
  <2>1. Earlier(schedule, order[i], order[j])
    BY <1>1, <1>4
  <2>2. schedule[order[i]].tick \in Nat /\ schedule[order[j]].tick \in Nat
    BY <1>3
  <2> QED
    BY <2>1, <2>2 DEF Earlier
<1> QED
  BY <1>3, <1>4 DEF TickOf, order, n

LEMMA AllFedOnTime ==
  ASSUME NEW schedule \in Seq(Input), NEW n \in 0..Len(schedule), NEW log,
         FedSoFar(schedule, log, n),
         \A i \in (n + 1)..Len(schedule) : TickOf(schedule, i) >= TotalTicks
  PROVE  OnTime(schedule, log)
<1> DEFINE m == Len(schedule)
           order == Sorted(schedule)
<1>1. /\ m \in Nat /\ order \in [1..m -> 1..m]
      /\ \A i, j \in 1..m : i < j => Earlier(schedule, order[i], order[j])
      /\ \A k \in 1..m : \E i \in 1..m : order[i] = k
  BY SortedLists
<1>2. \A k \in 1..m : schedule[k].tick \in Nat
  BY InputTypes
<1>3. DOMAIN log = 1..n /\ DOMAIN schedule = 1..m
  BY DEF FedSoFar
<1>4. \A i \in 1..n : /\ log[i].place = order[i] /\ log[i].at = schedule[order[i]].tick
                      /\ schedule[order[i]].tick < TotalTicks
  BY DEF FedSoFar, TickOf
<1>5. \A i \in (n + 1)..m : schedule[order[i]].tick >= TotalTicks
  BY DEF TickOf
<1>6. n \in 0..m
  OBVIOUS
<1> HIDE DEF m, order
<1>7. ASSUME NEW k \in DOMAIN schedule, schedule[k].tick < TotalTicks
      PROVE  k \in {log[i].place : i \in DOMAIN log}
  <2>1. PICK i \in 1..m : order[i] = k
    BY <1>1, <1>3
  <2>2. i \notin (n + 1)..m
    <3>1. schedule[k].tick \in Nat /\ TotalTicks \in Nat
      BY <1>2, <1>3, RunAssumption
    <3> QED
      BY <1>5, <1>7, <2>1, <3>1
  <2>3. i \in 1..n
    BY <1>1, <1>6, <2>2
  <2> QED
    BY <1>3, <1>4, <2>1, <2>3
<1>8. ASSUME NEW i \in DOMAIN log
      PROVE  log[i].place \in DOMAIN schedule /\ schedule[log[i].place].tick < TotalTicks
  <2>1. i \in 1..n /\ i \in 1..m
    BY <1>1, <1>3, <1>6
  <2>2. order[i] \in 1..m
    BY <1>1, <2>1
  <2> QED
    BY <1>3, <1>4, <2>1, <2>2
<1>9. {log[i].place : i \in DOMAIN log} = {p \in DOMAIN schedule : schedule[p].tick < TotalTicks}
  BY <1>7, <1>8
<1>10. ASSUME NEW i \in 1..n, NEW j \in 1..n, i < j
       PROVE  \/ log[i].at < log[j].at
              \/ log[i].at = log[j].at /\ log[i].place < log[j].place
  <2>1. i \in 1..m /\ j \in 1..m
    BY <1>1, <1>6
  <2>2. Earlier(schedule, order[i], order[j])
    BY <1>1, <1>10, <2>1
  <2>3. /\ log[i].place = order[i] /\ log[i].at = schedule[order[i]].tick
        /\ log[j].place = order[j] /\ log[j].at = schedule[order[j]].tick
    BY <1>4
  <2> QED
    BY <2>2, <2>3 DEF Earlier
<1> QED
  BY <1>3, <1>4, <1>9, <1>10 DEF OnTime

Feeding ==
  pc = "running" =>
    /\ next \in 1..(Len(inputs) + 1) /\ tick \in 0..TotalTicks
    /\ FedSoFar(inputs, fed, next - 1)
    /\ \A i \in next..Len(inputs) : TickOf(inputs, i) >= tick

ResultsOnTime ==
  \A i \in 1..Len(results) : OnTime(results[i].inputs, results[i].fed)

AreResults == \E S : results \in Seq(S)

FeedInv == inputs \in Seq(Input) /\ Feeding /\ AreResults /\ ResultsOnTime

LEMMA SchedulesAreSequences ==
  ASSUME NEW schedule \in Schedules
  PROVE  schedule \in Seq(Input)
<1>1. PICK m \in 0..MaxInputs : schedule \in [1..m -> [tick : InputTicks, command : Commands]]
  BY DEF Schedules, SeqOf
<1>2. m \in Nat
  BY <1>1, RunAssumption
<1>3. schedule \in [1..m -> Input]
  BY <1>1 DEF Input
<1> HIDE DEF Input
<1> QED
  BY <1>2, <1>3, SeqDef

LEMMA OneMoreResult ==
  ASSUME AreResults, NEW r, results' = Append(results, r)
  PROVE  /\ AreResults' /\ Len(results') = Len(results) + 1
         /\ \A i \in 1..Len(results') :
              results'[i] = r \/ (i \in 1..Len(results) /\ results'[i] = results[i])
<1>1. PICK S : results \in Seq(S)
  BY DEF AreResults
<1> DEFINE T == S \cup {r}
<1>2. results \in Seq(T) /\ r \in T
  BY <1>1, SeqMonotonic
<1> HIDE DEF T
<1>3. /\ results' \in Seq(T) /\ Len(results') = Len(results) + 1 /\ Len(results) \in Nat
      /\ \A i \in 1..Len(results) : results'[i] = results[i]
      /\ results'[Len(results) + 1] = r
  BY <1>2, AppendProperties, LenProperties
<1>4. AreResults'
  BY <1>3 DEF AreResults
<1>5. ASSUME NEW i \in 1..Len(results')
      PROVE  results'[i] = r \/ (i \in 1..Len(results) /\ results'[i] = results[i])
  <2>1. i \in 1..Len(results) \/ i = Len(results) + 1
    BY <1>3
  <2> QED
    BY <1>3, <2>1
<1> QED
  BY <1>3, <1>4, <1>5

LEMMA FeedInvInit ==
  ASSUME DetInit
  PROVE  FeedInv
<1>1. inputs \in Seq(Input) /\ results \in Seq({})
  BY DEF DetInit
<1> QED
  BY <1>1 DEF DetInit, FeedInv, Feeding, AreResults, ResultsOnTime

LEMMA FeedInvNext ==
  ASSUME FeedInv, [DetNext]_detVars
  PROVE  FeedInv'
<1> USE DEF FeedInv
<1>1. /\ inputs \in Seq(Input) /\ Feeding /\ AreResults /\ ResultsOnTime
      /\ Len(inputs) \in Nat /\ TotalTicks \in Nat
      /\ \A i \in 1..Len(inputs) : TickOf(inputs, i) \in Nat
  BY TicksAscend, RunAssumption
<1>2. CASE BeginRun
  <2>1. /\ inputs' \in Seq(Input) /\ next' = 1 /\ tick' = 0 /\ fed' = << >>
        /\ results' = results
    BY <1>2, SchedulesAreSequences DEF BeginRun
  <2>2. /\ \A i \in 1..Len(inputs') : TickOf(inputs', i) >= 0
        /\ Len(inputs') \in Nat
    BY <2>1, TicksAscend
  <2>3. FedSoFar(inputs', fed', 0)
    BY <2>1 DEF FedSoFar
  <2>4. Feeding'
    BY <1>1, <2>1, <2>2, <2>3 DEF Feeding
  <2> QED
    BY <1>1, <2>1, <2>4 DEF AreResults, ResultsOnTime
<1>3. CASE FeedInput
  <2> DEFINE place == Sorted(inputs)[next]
  <2>1. /\ pc = "running" /\ tick < TotalTicks /\ UNCHANGED <<inputs, tick, results>>
        /\ next <= Len(inputs) /\ TickOf(inputs, next) <= tick
        /\ \/ next' = next + 1 /\ fed' = Append(fed, [place |-> place, at |-> tick])
           \/ pc' = "panicked"
    BY <1>3 DEF FeedInput, InputDue, TickOf
  <2>2. /\ next \in 1..(Len(inputs) + 1) /\ tick \in 0..TotalTicks
        /\ FedSoFar(inputs, fed, next - 1)
        /\ \A i \in next..Len(inputs) : TickOf(inputs, i) >= tick
    BY <1>1, <2>1 DEF Feeding
  <2>3. /\ next \in 1..Len(inputs) /\ next \in next..Len(inputs)
        /\ TickOf(inputs, next) = tick
    <3>1. next \in 1..Len(inputs) /\ next \in next..Len(inputs)
      BY <1>1, <2>1, <2>2
    <3>2. TickOf(inputs, next) \in Nat /\ TickOf(inputs, next) >= tick
      BY <1>1, <2>2, <3>1
    <3> QED
      BY <2>1, <2>2, <3>1, <3>2
  <2>4. CASE pc' = "panicked"
    BY <1>1, <2>1, <2>4 DEF Feeding, AreResults, ResultsOnTime
  <2>5. CASE next' = next + 1 /\ fed' = Append(fed, [place |-> place, at |-> tick])
    <3> DEFINE input == [place |-> place, at |-> tick]
               n == next - 1
    <3>1. place \in Nat /\ tick \in Nat
      <4>1. Sorted(inputs) \in [1..Len(inputs) -> 1..Len(inputs)]
        BY <1>1, SortedLists
      <4> QED
        BY <2>2, <2>3, <4>1
    <3>2. input \in [place : Nat, at : Nat] /\ input.place = place /\ input.at = tick
      BY <3>1
    <3>3. /\ fed \in Seq([place : Nat, at : Nat]) /\ Len(fed) = n /\ n \in Nat
          /\ \A i \in 1..n : /\ fed[i].place = Sorted(inputs)[i] /\ fed[i].at = TickOf(inputs, i)
                             /\ TickOf(inputs, i) < TotalTicks
      BY <1>1, <2>2 DEF FedSoFar
    <3> HIDE DEF input, place
    <3>4. /\ fed' \in Seq([place : Nat, at : Nat]) /\ Len(fed') = n + 1
          /\ \A i \in 1..n : fed'[i] = fed[i]
          /\ fed'[n + 1] = input
      BY <2>5, <3>2, <3>3, AppendProperties DEF input
    <3>5. n + 1 = next /\ next' - 1 = next
      BY <2>2, <2>5
    <3> HIDE DEF n
    <3>6. ASSUME NEW i \in 1..next
          PROVE  /\ fed'[i].place = Sorted(inputs)[i] /\ fed'[i].at = TickOf(inputs, i)
                 /\ TickOf(inputs, i) < TotalTicks
      <4>1. CASE i \in 1..n
        BY <3>3, <3>4, <4>1
      <4>2. CASE i = next
        BY <2>1, <2>3, <3>2, <3>4, <3>5, <4>2 DEF place
      <4> QED
        BY <2>3, <3>3, <3>5, <4>1, <4>2
    <3>7. FedSoFar(inputs, fed', next)
      BY <3>4, <3>5, <3>6 DEF FedSoFar
    <3>8. \A i \in (next + 1)..Len(inputs) : TickOf(inputs, i) >= tick
      BY <1>1, <2>2
    <3>9. Feeding'
      BY <1>1, <2>1, <2>2, <2>3, <2>5, <3>5, <3>7, <3>8 DEF Feeding
    <3> QED
      BY <1>1, <2>1, <3>9 DEF AreResults, ResultsOnTime
  <2> QED
    BY <2>1, <2>4, <2>5
<1>4. CASE RunTick
  <2>1. /\ pc = "running" /\ tick < TotalTicks /\ tick' = tick + 1
        /\ ~(next <= Len(inputs) /\ TickOf(inputs, next) <= tick)
        /\ UNCHANGED <<inputs, next, fed, results, pc>>
    BY <1>4 DEF RunTick, InputDue, TickOf
  <2>2. /\ next \in 1..(Len(inputs) + 1) /\ tick \in 0..TotalTicks
        /\ FedSoFar(inputs, fed, next - 1)
    BY <1>1, <2>1 DEF Feeding
  <2>3. ASSUME NEW i \in next..Len(inputs) PROVE TickOf(inputs, i) >= tick + 1
    <3>1. next \in 1..Len(inputs) /\ i \in 1..Len(inputs) /\ next <= i
      BY <1>1, <2>2
    <3>2. TickOf(inputs, next) \in Nat /\ TickOf(inputs, i) \in Nat
      BY <1>1, <3>1
    <3>3. TickOf(inputs, next) <= TickOf(inputs, i)
      <4>1. CASE next = i
        BY <3>2, <4>1
      <4>2. CASE next # i
        <5>1. next < i
          BY <1>1, <3>1, <4>2
        <5> QED
          BY <1>1, <3>1, <5>1, TicksAscend
      <4> QED
        BY <4>1, <4>2
    <3>4. tick < TickOf(inputs, next)
      BY <1>1, <2>1, <2>2, <3>1, <3>2
    <3> QED
      BY <2>2, <3>2, <3>3, <3>4
  <2>4. Feeding'
    BY <1>1, <2>1, <2>2, <2>3 DEF Feeding
  <2> QED
    BY <1>1, <2>1, <2>4 DEF AreResults, ResultsOnTime
<1>5. CASE EndRun
  <2> DEFINE r == [inputs |-> inputs, fed |-> fed, checkpoints |-> checkpoints, world |-> sim.world]
  <2>1. /\ pc = "running" /\ tick = TotalTicks /\ results' = Append(results, r)
        /\ pc' = "idle" /\ inputs' = inputs
    BY <1>5 DEF EndRun, runVars
  <2>2. /\ next - 1 \in 0..Len(inputs) /\ FedSoFar(inputs, fed, next - 1)
        /\ \A i \in ((next - 1) + 1)..Len(inputs) : TickOf(inputs, i) >= TotalTicks
    BY <1>1, <2>1 DEF Feeding
  <2>3. OnTime(inputs, fed)
    BY <1>1, <2>2, AllFedOnTime
  <2>4. r.inputs = inputs /\ r.fed = fed
    OBVIOUS
  <2> HIDE DEF r
  <2>5. /\ AreResults'
        /\ \A i \in 1..Len(results') :
             results'[i] = r \/ (i \in 1..Len(results) /\ results'[i] = results[i])
    BY <1>1, <2>1, OneMoreResult
  <2>6. ResultsOnTime'
    BY <1>1, <2>3, <2>4, <2>5 DEF ResultsOnTime
  <2> QED
    BY <1>1, <2>1, <2>5, <2>6 DEF Feeding
<1>6. CASE UNCHANGED detVars
  BY <1>1, <1>6 DEF detVars, runVars, Feeding, AreResults, ResultsOnTime
<1> QED
  BY <1>2, <1>3, <1>4, <1>5, <1>6 DEF DetNext

LEMMA FeedInvAlways == DetSpec => []FeedInv
BY FeedInvInit, FeedInvNext, PTL DEF DetSpec

(***************************************************************************)
(* A run that ended has fed the inputs that were scheduled before its end, *)
(* each once and just before its tick, those of one tick in the order of   *)
(* the schedule; it has dropped the others.                                *)
(***************************************************************************)
THEOREM InputsAreFedOnTime == DetSpec => []InputsRunOnTime
<1>1. FeedInv => InputsRunOnTime
  <2> SUFFICES ASSUME FeedInv PROVE InputsRunOnTime
    OBVIOUS
  <2>1. PICK S : results \in Seq(S)
    BY DEF FeedInv, AreResults
  <2>2. DOMAIN results = 1..Len(results)
    BY <2>1
  <2>3. \A i \in DOMAIN results : OnTime(results[i].inputs, results[i].fed)
    BY <2>2 DEF FeedInv, ResultsOnTime
  <2> QED
    BY <2>3 DEF OnTime, InputsRunOnTime
<1> QED
  BY <1>1, FeedInvAlways, PTL

-----------------------------------------------------------------------------
(***************************************************************************)
(* The order of arrival across ticks makes no difference to the queue.     *)
(***************************************************************************)
Rising(f, m, S) ==
  /\ m \in Nat
  /\ \A i \in 1..m : f[i] \in S
  /\ \A i, j \in 1..m : i < j => f[i] < f[j]
  /\ \A x \in S : \E i \in 1..m : f[i] = x

\* What one listing lists first, the other does too.
LEMMA RisingFollows ==
  ASSUME NEW S \in SUBSET Nat, NEW f, NEW m, Rising(f, m, S), NEW g, NEW n, Rising(g, n, S)
  PROVE  m <= n /\ \A i \in 1..m : f[i] = g[i]
<1> DEFINE Off == {i \in 1..m : i > n \/ f[i] # g[i]}
<1>1. m \in Nat /\ n \in Nat
  BY DEF Rising
<1>2. Off = {}
  <2> SUFFICES ASSUME Off # {} PROVE FALSE
    OBVIOUS
  <2>1. PICK k \in Off : \A i \in Off : k <= i
    <3>1. Off \in SUBSET Nat
      BY <1>1
    <3> QED
      BY <3>1, LeastElement
  <2>2. k \in 1..m /\ (k > n \/ f[k] # g[k])
    OBVIOUS
  <2>3. \A i \in 1..m : i < k => i <= n /\ f[i] = g[i]
    BY <1>1, <2>1, <2>2
  <2> HIDE DEF Off
  <2>4. PICK j \in 1..n : g[j] = f[k]
    BY <2>2 DEF Rising
  <2>5. j >= k
    <3> SUFFICES ASSUME j < k PROVE FALSE
      BY <1>1, <2>2
    <3>1. j \in 1..m /\ f[j] = g[j]
      BY <1>1, <2>2, <2>3
    <3>2. f[j] < f[k] /\ f[j] \in Nat /\ f[k] \in Nat
      BY <2>2, <3>1 DEF Rising
    <3> QED
      BY <2>4, <3>1, <3>2
  <2>6. k \in 1..n /\ f[k] # g[k]
    BY <1>1, <2>2, <2>5
  <2>7. g[k] < f[k] /\ g[k] \in Nat /\ f[k] \in Nat
    <3>1. k < j
      BY <1>1, <2>4, <2>5, <2>6
    <3> QED
      BY <2>2, <2>4, <2>6, <3>1 DEF Rising
  <2>8. PICK i \in 1..m : f[i] = g[k]
    BY <2>6 DEF Rising
  <2>9. i < k
    <3> SUFFICES ASSUME i >= k PROVE FALSE
      BY <1>1, <2>2
    <3>1. i = k \/ k < i
      BY <1>1, <2>2
    <3>2. f[i] = f[k] \/ f[k] < f[i]
      BY <2>2, <3>1 DEF Rising
    <3> QED
      BY <2>6, <2>7, <2>8, <3>2
  <2>10. i \in 1..n /\ g[i] = g[k]
    BY <1>1, <2>3, <2>8, <2>9
  <2>11. g[i] < g[k]
    BY <2>6, <2>9, <2>10 DEF Rising
  <2> QED
    BY <2>7, <2>10, <2>11
<1>3. \A i \in 1..m : i <= n /\ f[i] = g[i]
  BY <1>1, <1>2
<1>4. m <= n
  BY <1>1, <1>3
<1> QED
  BY <1>3, <1>4

Places(schedule, t) == {p \in DOMAIN schedule : schedule[p].tick = t}

\* The inputs of ticks before t are the first n of the queue.
Before(schedule, t, n) ==
  /\ n \in 0..Len(schedule)
  /\ \A i \in 1..Len(schedule) : TickOf(schedule, i) < t <=> i <= n

LEMMA BeforeExists ==
  ASSUME NEW schedule \in Seq(Input), NEW t \in Nat
  PROVE  \E n : Before(schedule, t, n)
<1> DEFINE m == Len(schedule)
           Later == {i \in 1..m : TickOf(schedule, i) >= t}
<1>1. /\ m \in Nat /\ \A i \in 1..m : TickOf(schedule, i) \in Nat
      /\ \A i, j \in 1..m : i < j => TickOf(schedule, i) <= TickOf(schedule, j)
  BY TicksAscend
<1>2. CASE Later = {}
  <2>1. \A i \in 1..m : TickOf(schedule, i) < t
    BY <1>1, <1>2
  <2>2. Before(schedule, t, m)
    BY <1>1, <2>1 DEF Before
  <2> QED
    BY <2>2
<1>3. CASE Later # {}
  <2>1. PICK k \in Later : \A i \in Later : k <= i
    <3>1. Later \in SUBSET Nat
      BY <1>1
    <3> QED
      BY <1>3, <3>1, LeastElement
  <2>2. k \in 1..m /\ TickOf(schedule, k) >= t
    OBVIOUS
  <2>3. ASSUME NEW i \in 1..m PROVE TickOf(schedule, i) < t <=> i <= k - 1
    <3>1. CASE i < k
      <4>1. i \notin Later
        BY <1>1, <2>1, <2>2, <3>1
      <4> QED
        BY <1>1, <2>2, <3>1, <4>1
    <3>2. CASE i >= k
      <4>1. TickOf(schedule, k) <= TickOf(schedule, i)
        <5>1. i = k \/ k < i
          BY <1>1, <2>2, <3>2
        <5> QED
          BY <1>1, <2>2, <5>1
      <4> QED
        BY <1>1, <2>2, <3>2, <4>1
    <3> QED
      BY <1>1, <2>2, <3>1, <3>2
  <2>4. Before(schedule, t, k - 1)
    BY <1>1, <2>2, <2>3 DEF Before
  <2> QED
    BY <2>4
<1> QED
  BY <1>2, <1>3

LEMMA PlacesListed ==
  ASSUME NEW schedule \in Seq(Input), NEW t
  PROVE  /\ Places(schedule, t) \in SUBSET Nat
         /\ Rising(Ascending(Places(schedule, t)), Cardinality(Places(schedule, t)),
                   Places(schedule, t))
         /\ DOMAIN Ascending(Places(schedule, t)) = 1..Cardinality(Places(schedule, t))
<1> DEFINE P == Places(schedule, t)
<1>1. Len(schedule) \in Nat /\ DOMAIN schedule = 1..Len(schedule)
  OBVIOUS
<1>2. P \in SUBSET Nat /\ P \subseteq 1..Len(schedule)
  BY <1>1 DEF Places
<1>3. IsFiniteSet(P)
  <2>1. IsFiniteSet(1..Len(schedule))
    BY <1>1, FS_Interval
  <2> QED
    BY <1>2, <2>1, FS_Subset
<1> HIDE DEF P
<1>4. /\ Cardinality(P) \in Nat /\ Ascending(P) \in [1..Cardinality(P) -> P]
      /\ \A i, j \in 1..Cardinality(P) : i < j => Ascending(P)[i] < Ascending(P)[j]
      /\ \A p \in P : \E i \in 1..Cardinality(P) : Ascending(P)[i] = p
  BY <1>2, <1>3, AscendingLists
<1>5. Rising(Ascending(P), Cardinality(P), P)
  BY <1>4 DEF Rising
<1> QED
  BY <1>2, <1>4, <1>5 DEF P

LEMMA TickBlock ==
  ASSUME NEW schedule \in Seq(Input), NEW t \in Nat, NEW l, Before(schedule, t, l)
  PROVE  LET m == Cardinality(Places(schedule, t))
         IN  /\ m \in Nat /\ Before(schedule, t + 1, l + m)
             /\ \A k \in 1..m : Sorted(schedule)[l + k] = Ascending(Places(schedule, t))[k]
<1> DEFINE n == Len(schedule)
           order == Sorted(schedule)
           P == Places(schedule, t)
           m == Cardinality(P)
<1>1. /\ n \in Nat /\ order \in [1..n -> 1..n]
      /\ \A i, j \in 1..n : i < j => Earlier(schedule, order[i], order[j])
      /\ \A k \in 1..n : \E i \in 1..n : order[i] = k
  BY SortedLists
<1>2. \A i \in 1..n : TickOf(schedule, i) \in Nat /\ TickOf(schedule, i) = schedule[order[i]].tick
  BY TicksAscend DEF TickOf
<1>3. PICK u : Before(schedule, t + 1, u)
  BY BeforeExists
<1>4. /\ l \in 0..n /\ u \in 0..n
      /\ \A i \in 1..n : TickOf(schedule, i) < t <=> i <= l
      /\ \A i \in 1..n : TickOf(schedule, i) < t + 1 <=> i <= u
  BY <1>3 DEF Before
<1>5. \A p : p \in P <=> p \in 1..n /\ schedule[p].tick = t
  BY DEF Places
<1>6. P \in SUBSET Nat /\ Rising(Ascending(P), m, P)
  BY PlacesListed
<1> HIDE DEF n, order, P
<1>7. l <= u
  <2> SUFFICES ASSUME u < l PROVE FALSE
    BY <1>1, <1>4
  <2>1. l \in 1..n
    BY <1>1, <1>4
  <2> QED
    BY <1>1, <1>2, <1>4, <2>1
<1> DEFINE w == u - l
           h == [k \in 1..w |-> order[l + k]]
<1>8. w \in Nat /\ \A k \in 1..w : l + k \in 1..n /\ l + k <= u /\ ~(l + k <= l)
  BY <1>1, <1>4, <1>7
<1>9. \A k \in 1..w : h[k] = order[l + k]
  OBVIOUS
<1> HIDE DEF h
<1>10. ASSUME NEW k \in 1..w PROVE h[k] \in P /\ schedule[h[k]].tick = t
  <2>1. TickOf(schedule, l + k) = t
    BY <1>2, <1>4, <1>8
  <2>2. order[l + k] \in 1..n
    BY <1>1, <1>8
  <2> QED
    BY <1>2, <1>5, <1>8, <1>9, <2>1, <2>2
<1>11. ASSUME NEW i \in 1..w, NEW j \in 1..w, i < j PROVE h[i] < h[j]
  <2>1. l + i < l + j
    BY <1>1, <1>4, <1>8, <1>11
  <2>2. Earlier(schedule, order[l + i], order[l + j])
    BY <1>1, <1>8, <2>1
  <2>3. Earlier(schedule, h[i], h[j])
    BY <1>9, <2>2
  <2> QED
    BY <1>10, <2>3 DEF Earlier
<1>12. ASSUME NEW p \in P PROVE \E k \in 1..w : h[k] = p
  <2>1. PICK i \in 1..n : order[i] = p
    BY <1>1, <1>5
  <2>2. TickOf(schedule, i) = t
    BY <1>2, <1>5, <2>1
  <2>3. i <= u /\ ~(i <= l)
    BY <1>4, <2>2
  <2>4. i - l \in 1..w /\ l + (i - l) = i
    BY <1>1, <1>4, <2>3
  <2> QED
    BY <1>9, <2>1, <2>4
<1>13. Rising(h, w, P)
  BY <1>8, <1>10, <1>11, <1>12 DEF Rising
<1>14. w = m /\ \A k \in 1..m : h[k] = Ascending(P)[k]
  <2> DEFINE a == Ascending(P)
  <2> HIDE DEF a, w, m
  <2>1. Rising(h, w, P) /\ Rising(a, m, P)
    BY <1>6, <1>13 DEF a
  <2>5. P \in SUBSET Nat
    BY <1>6
  <2>3. \A k \in 1..w : h[k] = a[k]
    <3> HIDE DEF P
    <3> SUFFICES ASSUME NEW k \in 1..w PROVE h[k] = a[k]
      OBVIOUS
    <3> QED
      BY <2>1, <2>5, RisingFollows
  <2>4. w <= m /\ m <= w
    BY <2>1, <2>5, RisingFollows
  <2>2. w \in Nat /\ m \in Nat
    BY <2>1 DEF Rising
  <2> QED
    BY <2>2, <2>3, <2>4 DEF a
<1>15. m \in Nat /\ l + m = u
  BY <1>1, <1>4, <1>8, <1>14
<1> QED
  BY <1>3, <1>9, <1>14, <1>15 DEF P, order

Queue(schedule) == [i \in 1..Len(schedule) |-> schedule[Sorted(schedule)[i]]]

LEMMA AtInTicks ==
  ASSUME NEW s1 \in Seq(Input), NEW s2 \in Seq(Input),
         \A t \in InputTicks : At(s1, t) = At(s2, t), NEW t \in Nat
  PROVE  LET P1 == Places(s1, t)
             P2 == Places(s2, t)
         IN  /\ Cardinality(P1) = Cardinality(P2)
             /\ \A k \in 1..Cardinality(P1) : s1[Ascending(P1)[k]] = s2[Ascending(P2)[k]]
<1> DEFINE P1 == Places(s1, t)
           P2 == Places(s2, t)
           m1 == Cardinality(P1)
           m2 == Cardinality(P2)
<1>1. /\ m1 \in Nat /\ DOMAIN Ascending(P1) = 1..m1
      /\ m2 \in Nat /\ DOMAIN Ascending(P2) = 1..m2
  BY PlacesListed DEF Rising
<1>2. CASE t \in InputTicks
  <2> DEFINE a1 == Ascending(P1)
             a2 == Ascending(P2)
  <2>1. At(s1, t) = [k \in DOMAIN a1 |-> s1[a1[k]]] /\ At(s2, t) = [k \in DOMAIN a2 |-> s2[a2[k]]]
    BY DEF At, Places
  <2> HIDE DEF a1, a2, P1, P2
  <2>2. DOMAIN At(s1, t) = 1..m1 /\ DOMAIN At(s2, t) = 1..m2
    BY <1>1, <2>1 DEF a1, a2
  <2>3. At(s1, t) = At(s2, t)
    BY <1>2
  <2>4. m1 = m2
    <3>1. 1..m1 = 1..m2
      BY <2>2, <2>3
    <3> HIDE DEF m1, m2
    <3>2. m1 \in 1..m2 \/ m1 = 0
      BY <1>1, <3>1
    <3>3. m2 \in 1..m1 \/ m2 = 0
      BY <1>1, <3>1
    <3> QED
      BY <1>1, <3>1, <3>2, <3>3
  <2>5. \A k \in 1..m1 : s1[a1[k]] = s2[a2[k]]
    <3>1. \A k \in 1..m1 : k \in DOMAIN a1 /\ k \in DOMAIN a2
      BY <1>1, <2>4 DEF a1, a2
    <3>2. \A k \in 1..m1 : At(s1, t)[k] = s1[a1[k]] /\ At(s2, t)[k] = s2[a2[k]]
      BY <2>1, <3>1
    <3> QED
      BY <2>3, <3>2
  <2> QED
    BY <2>4, <2>5 DEF a1, a2, P1, P2
<1>3. CASE t \notin InputTicks
  <2>1. P1 = {} /\ P2 = {}
    <3>1. /\ \A i \in DOMAIN s1 : s1[i].tick \in InputTicks
          /\ \A i \in DOMAIN s2 : s2[i].tick \in InputTicks
      BY InputTypes
    <3> QED
      BY <1>3, <3>1 DEF Places
  <2>2. m1 = 0 /\ m2 = 0
    BY <2>1, FS_EmptySet
  <2> HIDE DEF m1, m2
  <2>3. 1..m1 = {}
    BY <2>2
  <2> QED
    BY <2>2, <2>3 DEF m1, m2
<1> QED
  BY <1>2, <1>3

\* The queues agree on the inputs of ticks before t.
AgreeBefore(s1, s2, t) ==
  \E l : /\ Before(s1, t, l) /\ Before(s2, t, l)
         /\ \A i \in 1..l : s1[Sorted(s1)[i]] = s2[Sorted(s2)[i]]

LEMMA AgreeOneMoreTick ==
  ASSUME NEW s1 \in Seq(Input), NEW s2 \in Seq(Input),
         \A t \in InputTicks : At(s1, t) = At(s2, t),
         NEW t \in Nat, AgreeBefore(s1, s2, t)
  PROVE  AgreeBefore(s1, s2, t + 1)
<1> DEFINE P1 == Places(s1, t)
           P2 == Places(s2, t)
           m == Cardinality(P1)
<1>1. PICK l : /\ Before(s1, t, l) /\ Before(s2, t, l)
               /\ \A i \in 1..l : s1[Sorted(s1)[i]] = s2[Sorted(s2)[i]]
  BY DEF AgreeBefore
<1>2. l \in Nat
  BY <1>1 DEF Before
<1>3. /\ m = Cardinality(P2)
      /\ \A k \in 1..m : s1[Ascending(P1)[k]] = s2[Ascending(P2)[k]]
  BY AtInTicks
<1>4. /\ m \in Nat /\ Before(s1, t + 1, l + m)
      /\ \A k \in 1..m : Sorted(s1)[l + k] = Ascending(P1)[k]
  BY <1>1, TickBlock
<1>5. /\ Before(s2, t + 1, l + Cardinality(P2))
      /\ \A k \in 1..Cardinality(P2) : Sorted(s2)[l + k] = Ascending(P2)[k]
  BY <1>1, TickBlock
<1> HIDE DEF m, P1, P2
<1>6. ASSUME NEW i \in 1..(l + m) PROVE s1[Sorted(s1)[i]] = s2[Sorted(s2)[i]]
  <2>1. CASE i \in 1..l
    BY <1>1, <2>1
  <2>2. CASE i \notin 1..l
    <3>1. i - l \in 1..m /\ l + (i - l) = i
      BY <1>2, <1>4, <2>2
    <3> QED
      BY <1>3, <1>4, <1>5, <3>1
  <2> QED
    BY <2>1, <2>2
<1> QED
  BY <1>3, <1>4, <1>5, <1>6 DEF AgreeBefore

LEMMA AgreeAlways ==
  ASSUME NEW s1 \in Seq(Input), NEW s2 \in Seq(Input),
         \A t \in InputTicks : At(s1, t) = At(s2, t)
  PROVE  \A t \in Nat : AgreeBefore(s1, s2, t)
<1> DEFINE Bad == {t \in Nat : ~AgreeBefore(s1, s2, t)}
<1> SUFFICES ASSUME Bad # {} PROVE FALSE
  OBVIOUS
<1>1. PICK t \in Bad : \A k \in Bad : t <= k
  <2>1. Bad \in SUBSET Nat
    OBVIOUS
  <2> QED
    BY <2>1, LeastElement
<1>2. t \in Nat /\ ~AgreeBefore(s1, s2, t)
  OBVIOUS
<1>3. CASE t = 0
  <2>1. Before(s1, 0, 0) /\ Before(s2, 0, 0)
    <3>1. /\ Len(s1) \in Nat /\ \A i \in 1..Len(s1) : TickOf(s1, i) \in Nat
          /\ Len(s2) \in Nat /\ \A i \in 1..Len(s2) : TickOf(s2, i) \in Nat
      BY TicksAscend
    <3> QED
      BY <3>1 DEF Before
  <2>2. \A i \in 1..0 : s1[Sorted(s1)[i]] = s2[Sorted(s2)[i]]
    OBVIOUS
  <2>3. AgreeBefore(s1, s2, 0)
    BY <2>1, <2>2 DEF AgreeBefore
  <2> QED
    BY <1>2, <1>3, <2>3
<1>4. CASE t # 0
  <2>1. t - 1 \in Nat /\ t - 1 \notin Bad /\ (t - 1) + 1 = t
    BY <1>1, <1>2, <1>4
  <2>2. AgreeBefore(s1, s2, t - 1)
    BY <2>1
  <2>3. AgreeBefore(s1, s2, (t - 1) + 1)
    BY <2>1, <2>2, AgreeOneMoreTick
  <2> QED
    BY <1>2, <2>1, <2>3
<1> QED
  BY <1>3, <1>4

LEMMA QueueFollows ==
  ASSUME NEW s1 \in Seq(Input), NEW s2 \in Seq(Input),
         \A t \in InputTicks : At(s1, t) = At(s2, t)
  PROVE  /\ Len(s1) <= Len(s2)
         /\ \A i \in 1..Len(s1) : s1[Sorted(s1)[i]] = s2[Sorted(s2)[i]]
<1>1. Len(s1) \in Nat /\ Len(s2) \in Nat
  OBVIOUS
<1>2. ASSUME NEW i \in 1..Len(s1)
      PROVE  i <= Len(s2) /\ s1[Sorted(s1)[i]] = s2[Sorted(s2)[i]]
  <2>1. TickOf(s1, i) \in Nat
    BY TicksAscend
  <2>2. AgreeBefore(s1, s2, TickOf(s1, i) + 1)
    BY <2>1, AgreeAlways
  <2>3. PICK l : /\ Before(s1, TickOf(s1, i) + 1, l) /\ Before(s2, TickOf(s1, i) + 1, l)
                 /\ \A k \in 1..l : s1[Sorted(s1)[k]] = s2[Sorted(s2)[k]]
    BY <2>2 DEF AgreeBefore
  <2>4. l \in 0..Len(s1) /\ l \in 0..Len(s2) /\ i <= l
    BY <2>1, <2>3 DEF Before
  <2>5. i \in 1..l /\ i <= Len(s2)
    BY <1>1, <2>4
  <2> QED
    BY <2>3, <2>5
<1>3. Len(s1) <= Len(s2)
  BY <1>1, <1>2
<1> QED
  BY <1>2, <1>3

LEMMA QueuesAgree ==
  ASSUME NEW s1 \in Seq(Input), NEW s2 \in Seq(Input),
         \A t \in InputTicks : At(s1, t) = At(s2, t)
  PROVE  Queue(s1) = Queue(s2)
<1>1. Len(s1) <= Len(s2) /\ \A i \in 1..Len(s1) : s1[Sorted(s1)[i]] = s2[Sorted(s2)[i]]
  BY QueueFollows
<1>2. Len(s2) <= Len(s1)
  <2>1. \A t \in InputTicks : At(s2, t) = At(s1, t)
    OBVIOUS
  <2> QED
    BY <2>1, QueueFollows
<1>3. Len(s1) = Len(s2)
  BY <1>1, <1>2
<1> QED
  BY <1>1, <1>3 DEF Queue

-----------------------------------------------------------------------------
(***************************************************************************)
(* A run is a function of its queue: the states it goes through are those  *)
(* of a trace, and a trace goes on until its last tick in one way only.    *)
(***************************************************************************)
StateNow == [next |-> next, tick |-> tick, sim |-> sim, checkpoints |-> checkpoints]

StartState ==
  [next |-> 1, tick |-> 0, sim |-> Outcome(NewEngine, [op |-> "CreateWorld", seed |-> Seed]).sim,
   checkpoints |-> << >>]

FedState(queue, st) ==
  [next |-> st.next + 1, tick |-> st.tick, sim |-> Outcome(st.sim, queue[st.next].command).sim,
   checkpoints |-> st.checkpoints]

TickedState(st) ==
  LET s == Outcome(st.sim, [op |-> "Tick"]).sim
  IN  [next |-> st.next, tick |-> st.tick + 1, sim |-> s,
       checkpoints |-> IF (CheckpointEvery > 0 /\ (st.tick + 1) % CheckpointEvery = 0)
                          \/ st.tick + 1 = TotalTicks
                         THEN Append(st.checkpoints, Checkpoint(s.world))
                         ELSE st.checkpoints]

StateAfter(queue, st) ==
  IF st.next <= Len(queue) /\ queue[st.next].tick <= st.tick
    THEN FedState(queue, st) ELSE TickedState(st)

Trace(queue, f, n, st) ==
  /\ n \in Nat /\ f[0] = StartState /\ f[n] = st
  /\ \A i \in 0..(n - 1) : f[i].tick < TotalTicks /\ f[i + 1] = StateAfter(queue, f[i])

Reaches(queue, st) == \E n, f : Trace(queue, f, n, st)

LEMMA StartIsReached ==
  ASSUME NEW queue
  PROVE  Reaches(queue, StartState)
<1> DEFINE f == [i \in {0} |-> StartState]
<1>1. f[0] = StartState
  OBVIOUS
<1> HIDE DEF f
<1>2. Trace(queue, f, 0, StartState)
  BY <1>1 DEF Trace
<1> QED
  BY <1>2 DEF Reaches

LEMMA ReachesOneMore ==
  ASSUME NEW queue, NEW st, Reaches(queue, st), st.tick < TotalTicks
  PROVE  Reaches(queue, StateAfter(queue, st))
<1>1. PICK n, f : Trace(queue, f, n, st)
  BY DEF Reaches
<1>2. /\ n \in Nat /\ f[0] = StartState /\ f[n] = st
      /\ \A i \in 0..(n - 1) : f[i].tick < TotalTicks /\ f[i + 1] = StateAfter(queue, f[i])
  BY <1>1 DEF Trace
<1> DEFINE then == StateAfter(queue, st)
           g == [i \in 0..(n + 1) |-> IF i = n + 1 THEN then ELSE f[i]]
<1> HIDE DEF then
<1>3. /\ \A i \in 0..n : g[i] = f[i]
      /\ g[n + 1] = then
  BY <1>2
<1> HIDE DEF g
<1>4. ASSUME NEW i \in 0..n
      PROVE  g[i].tick < TotalTicks /\ g[i + 1] = StateAfter(queue, g[i])
  <2>1. CASE i = n
    BY <1>2, <1>3, <2>1 DEF then
  <2>2. CASE i # n
    <3>1. i \in 0..(n - 1) /\ i + 1 \in 0..n
      BY <1>2, <2>2
    <3> QED
      BY <1>2, <1>3, <3>1
  <2> QED
    BY <2>1, <2>2
<1>5. n + 1 \in Nat /\ (n + 1) - 1 = n /\ g[0] = StartState
  BY <1>2, <1>3
<1>6. Trace(queue, g, n + 1, then)
  BY <1>3, <1>4, <1>5 DEF Trace
<1> QED
  BY <1>6 DEF Reaches, then

\* Two traces agree as far as both go.
LEMMA TracesAgree ==
  ASSUME NEW queue, NEW f, NEW n, NEW st, Trace(queue, f, n, st),
         NEW g, NEW m, NEW sm, Trace(queue, g, m, sm)
  PROVE  \A i \in 0..n : i <= m => f[i] = g[i]
<1> DEFINE Bad == {i \in 0..n : i <= m /\ f[i] # g[i]}
<1>1. /\ n \in Nat /\ f[0] = StartState
      /\ \A i \in 0..(n - 1) : f[i + 1] = StateAfter(queue, f[i])
      /\ m \in Nat /\ g[0] = StartState
      /\ \A i \in 0..(m - 1) : g[i + 1] = StateAfter(queue, g[i])
  BY DEF Trace
<1>2. Bad = {}
  <2> SUFFICES ASSUME Bad # {} PROVE FALSE
    OBVIOUS
  <2>1. PICK k \in Bad : \A i \in Bad : k <= i
    <3>1. Bad \in SUBSET Nat
      BY <1>1
    <3> QED
      BY <3>1, LeastElement
  <2>2. k \in 0..n /\ k <= m /\ f[k] # g[k]
    OBVIOUS
  <2>3. k # 0
    BY <1>1, <2>2
  <2>4. /\ k - 1 \in 0..(n - 1) /\ k - 1 \in 0..(m - 1) /\ k - 1 \in 0..n /\ k - 1 <= m
        /\ (k - 1) + 1 = k /\ ~(k <= k - 1)
    BY <1>1, <2>2, <2>3
  <2>5. k - 1 \notin Bad
    BY <2>1, <2>4
  <2>6. f[k - 1] = g[k - 1]
    BY <2>4, <2>5
  <2> HIDE DEF Bad
  <2>7. f[(k - 1) + 1] = StateAfter(queue, f[k - 1])
    BY <1>1, <2>4
  <2>8. g[(k - 1) + 1] = StateAfter(queue, g[k - 1])
    BY <1>1, <2>4
  <2> QED
    BY <2>2, <2>4, <2>6, <2>7, <2>8
<1> QED
  BY <1>2

LEMMA EndIsNoMiddle ==
  ASSUME NEW queue, NEW f, NEW n, NEW st, Trace(queue, f, n, st), st.tick = TotalTicks,
         NEW g, NEW m, NEW sm, Trace(queue, g, m, sm)
  PROVE  m <= n
<1> SUFFICES ASSUME n < m PROVE FALSE
  BY DEF Trace
<1>1. n \in 0..n /\ n <= m /\ n \in 0..(m - 1)
  BY DEF Trace
<1>2. f[n] = g[n]
  BY <1>1, TracesAgree
<1>3. f[n] = st /\ g[n].tick < TotalTicks
  BY <1>1 DEF Trace
<1> QED
  BY <1>2, <1>3, RunAssumption

LEMMA RunsAreDetermined ==
  ASSUME NEW queue, NEW st, Reaches(queue, st), st.tick = TotalTicks,
         NEW sm, Reaches(queue, sm), sm.tick = TotalTicks
  PROVE  st = sm
<1>1. PICK n, f : Trace(queue, f, n, st)
  BY DEF Reaches
<1>2. PICK m, g : Trace(queue, g, m, sm)
  BY DEF Reaches
<1>3. n \in Nat /\ f[n] = st
  BY <1>1 DEF Trace
<1>4. m \in Nat /\ g[m] = sm
  BY <1>2 DEF Trace
<1>5. m <= n
  BY <1>1, <1>2, EndIsNoMiddle
<1>6. n <= m
  BY <1>1, <1>2, EndIsNoMiddle
<1>7. m = n /\ n \in 0..n /\ n <= m
  BY <1>3, <1>4, <1>5, <1>6
<1>8. f[n] = g[n]
  BY <1>1, <1>2, <1>7, TracesAgree
<1> QED
  BY <1>3, <1>4, <1>7, <1>8

Running == pc = "running" => Reaches(Queue(inputs), StateNow)

\* The end of a run with this result.
EndOf(r, st) ==
  /\ r.inputs \in Seq(Input) /\ Reaches(Queue(r.inputs), st) /\ st.tick = TotalTicks
  /\ r.checkpoints = st.checkpoints /\ r.world = st.sim.world

ResultsReached == \A i \in 1..Len(results) : \E st : EndOf(results[i], st)

LEMMA QueueLength ==
  ASSUME NEW schedule \in Seq(Input)
  PROVE  /\ Len(Queue(schedule)) = Len(schedule)
         /\ \A i \in 1..Len(schedule) : Queue(schedule)[i] = schedule[Sorted(schedule)[i]]
<1>1. Len(schedule) \in Nat
  OBVIOUS
<1> QED
  BY <1>1 DEF Queue

ReachInv == FeedInv /\ Running /\ ResultsReached

LEMMA QueueDue ==
  ASSUME FeedInv, pc = "running"
  PROVE  /\ InputDue <=> (next <= Len(Queue(inputs)) /\ Queue(inputs)[next].tick <= tick)
         /\ InputDue => Queue(inputs)[next] = inputs[Sorted(inputs)[next]]
<1>1. next \in 1..(Len(inputs) + 1) /\ inputs \in Seq(Input)
  BY DEF FeedInv, Feeding
<1>2. /\ Len(Queue(inputs)) = Len(inputs) /\ Len(inputs) \in Nat
      /\ \A i \in 1..Len(inputs) : Queue(inputs)[i] = inputs[Sorted(inputs)[i]]
  BY <1>1, QueueLength
<1>3. next <= Len(inputs) => Queue(inputs)[next] = inputs[Sorted(inputs)[next]]
  BY <1>1, <1>2
<1> QED
  BY <1>2, <1>3 DEF InputDue

LEMMA FeedIsAfter ==
  ASSUME FeedInv, FeedInput, pc' # "panicked"
  PROVE  StateNow' = StateAfter(Queue(inputs), StateNow) /\ tick < TotalTicks
<1> DEFINE queue == Queue(inputs)
<1>1. /\ pc = "running" /\ tick < TotalTicks /\ InputDue
      /\ sim' = Outcome(sim, inputs[Sorted(inputs)[next]].command).sim
      /\ next' = next + 1 /\ tick' = tick /\ checkpoints' = checkpoints
  BY DEF FeedInput
<1>2. /\ next <= Len(queue) /\ queue[next].tick <= tick
      /\ queue[next] = inputs[Sorted(inputs)[next]]
  BY <1>1, QueueDue
<1> HIDE DEF queue
<1>3. StateAfter(queue, StateNow) = FedState(queue, StateNow)
  BY <1>2 DEF StateAfter, StateNow
<1>4. FedState(queue, StateNow) =
        [next |-> next + 1, tick |-> tick, sim |-> Outcome(sim, queue[next].command).sim,
         checkpoints |-> checkpoints]
  BY DEF FedState, StateNow
<1>5. StateNow' = FedState(queue, StateNow)
  BY <1>1, <1>2, <1>4 DEF StateNow
<1> QED
  BY <1>1, <1>3, <1>5 DEF queue

LEMMA TickIsAfter ==
  ASSUME FeedInv, RunTick
  PROVE  StateNow' = StateAfter(Queue(inputs), StateNow) /\ tick < TotalTicks
<1> DEFINE queue == Queue(inputs)
           ticked == Outcome(sim, [op |-> "Tick"]).sim
<1>1. /\ pc = "running" /\ tick < TotalTicks /\ ~InputDue
      /\ sim' = ticked /\ tick' = tick + 1 /\ next' = next
      /\ checkpoints' = IF CheckpointDue THEN Append(checkpoints, Checkpoint(sim'.world))
                                         ELSE checkpoints
  BY DEF RunTick
<1>2. ~(next <= Len(queue) /\ queue[next].tick <= tick)
  BY <1>1, QueueDue
<1> HIDE DEF queue
<1>3. StateAfter(queue, StateNow) = TickedState(StateNow)
  BY <1>2 DEF StateAfter, StateNow
<1>4. TickedState(StateNow) =
        [next |-> next, tick |-> tick + 1, sim |-> ticked,
         checkpoints |-> IF CheckpointDue THEN Append(checkpoints, Checkpoint(ticked.world))
                                          ELSE checkpoints]
  BY DEF TickedState, StateNow, CheckpointDue
<1>5. StateNow' = TickedState(StateNow)
  <2> HIDE DEF ticked
  <2> QED
    BY <1>1, <1>4 DEF StateNow
<1> QED
  BY <1>1, <1>3, <1>5 DEF queue

LEMMA ReachInvInit ==
  ASSUME DetInit
  PROVE  ReachInv
<1>1. FeedInv
  BY FeedInvInit
<1>2. pc = "idle" /\ Len(results) = 0
  BY DEF DetInit
<1>3. 1..Len(results) = {}
  BY <1>2
<1> QED
  BY <1>1, <1>2, <1>3 DEF ReachInv, Running, ResultsReached

LEMMA ReachInvNext ==
  ASSUME ReachInv, [DetNext]_detVars
  PROVE  ReachInv'
<1>1. FeedInv /\ Running /\ ResultsReached /\ FeedInv'
  BY FeedInvNext DEF ReachInv
<1>2. CASE BeginRun
  <2>1. StateNow' = StartState /\ results' = results
    BY <1>2 DEF BeginRun, StateNow, StartState
  <2>2. Reaches(Queue(inputs'), StateNow')
    BY <2>1, StartIsReached
  <2> QED
    BY <1>1, <2>1, <2>2 DEF ReachInv, Running, ResultsReached
<1>3. CASE FeedInput
  <2>1. pc = "running" /\ inputs' = inputs /\ results' = results
    BY <1>3 DEF FeedInput
  <2>2. CASE pc' = "panicked"
    BY <1>1, <2>1, <2>2 DEF ReachInv, Running, ResultsReached
  <2>3. CASE pc' # "panicked"
    <3>1. StateNow' = StateAfter(Queue(inputs), StateNow) /\ tick < TotalTicks
      BY <1>1, <1>3, <2>3, FeedIsAfter
    <3>2. Reaches(Queue(inputs), StateNow) /\ StateNow.tick < TotalTicks
      BY <1>1, <2>1, <3>1 DEF Running, StateNow
    <3>3. Reaches(Queue(inputs'), StateNow')
      BY <2>1, <3>1, <3>2, ReachesOneMore
    <3> QED
      BY <1>1, <2>1, <3>3 DEF ReachInv, Running, ResultsReached
  <2> QED
    BY <2>2, <2>3
<1>4. CASE RunTick
  <2>1. pc = "running" /\ inputs' = inputs /\ results' = results
    BY <1>4 DEF RunTick
  <2>2. StateNow' = StateAfter(Queue(inputs), StateNow) /\ tick < TotalTicks
    BY <1>1, <1>4, TickIsAfter
  <2>3. Reaches(Queue(inputs), StateNow) /\ StateNow.tick < TotalTicks
    BY <1>1, <2>1, <2>2 DEF Running, StateNow
  <2>4. Reaches(Queue(inputs'), StateNow')
    BY <2>1, <2>2, <2>3, ReachesOneMore
  <2> QED
    BY <1>1, <2>1, <2>4 DEF ReachInv, Running, ResultsReached
<1>5. CASE EndRun
  <2> DEFINE r == [inputs |-> inputs, fed |-> fed, checkpoints |-> checkpoints, world |-> sim.world]
  <2>1. /\ pc = "running" /\ tick = TotalTicks /\ results' = Append(results, r) /\ pc' = "idle"
    BY <1>5 DEF EndRun
  <2>2. /\ inputs \in Seq(Input) /\ Reaches(Queue(inputs), StateNow)
        /\ StateNow.tick = tick /\ StateNow.checkpoints = checkpoints
        /\ StateNow.sim.world = sim.world
    BY <1>1, <2>1 DEF Running, FeedInv, StateNow
  <2>3. r.inputs = inputs /\ r.checkpoints = checkpoints /\ r.world = sim.world
    OBVIOUS
  <2> HIDE DEF r
  <2>4. EndOf(r, StateNow)
    BY <2>1, <2>2, <2>3 DEF EndOf
  <2>5. \A i \in 1..Len(results') :
             results'[i] = r \/ (i \in 1..Len(results) /\ results'[i] = results[i])
    BY <1>1, <2>1, OneMoreResult DEF FeedInv
  <2>6. ResultsReached'
    BY <1>1, <2>4, <2>5 DEF ResultsReached
  <2> QED
    BY <1>1, <2>1, <2>6 DEF ReachInv, Running
<1>6. CASE UNCHANGED detVars
  BY <1>1, <1>6 DEF detVars, runVars, ReachInv, Running, ResultsReached, StateNow
<1> QED
  BY <1>2, <1>3, <1>4, <1>5, <1>6 DEF DetNext

LEMMA ReachInvAlways == DetSpec => []ReachInv
BY ReachInvInit, ReachInvNext, PTL DEF DetSpec

\* Nothing to blame in equal checkpoints.
LEMMA EqualIsSame ==
  ASSUME NEW a
  PROVE  Verify(a, a).ok
<1>1. {i \in DOMAIN a : a[i] # a[i]} = {}
  OBVIOUS
<1> QED
  BY <1>1 DEF Verify, Same

(***************************************************************************)
(* Schedules that differ only in how inputs of different ticks are mixed   *)
(* give runs that verify_determinism finds equal.                          *)
(***************************************************************************)
THEOREM ArrivalOrderIsIrrelevant == DetSpec => []ReorderedSchedulesAgree
<1>1. ReachInv => ReorderedSchedulesAgree
  <2> SUFFICES ASSUME ReachInv, Both,
                      \A t \in InputTicks : At(results[1].inputs, t) = At(results[2].inputs, t)
               PROVE  Verdict.ok
    BY DEF ReorderedSchedulesAgree
  <2>1. 1 \in 1..Len(results) /\ 2 \in 1..Len(results)
    BY DEF Both
  <2>2. PICK st : EndOf(results[1], st)
    BY <2>1 DEF ReachInv, ResultsReached
  <2>3. PICK sm : EndOf(results[2], sm)
    BY <2>1 DEF ReachInv, ResultsReached
  <2>4. Queue(results[1].inputs) = Queue(results[2].inputs)
    BY <2>2, <2>3, QueuesAgree DEF EndOf
  <2>5. st = sm
    BY <2>2, <2>3, <2>4, RunsAreDetermined DEF EndOf
  <2>6. results[1].checkpoints = results[2].checkpoints
    BY <2>2, <2>3, <2>5 DEF EndOf
  <2> QED
    BY <2>6, EqualIsSame DEF Verdict
<1> QED
  BY <1>1, ReachInvAlways, PTL

-----------------------------------------------------------------------------
(***************************************************************************)
(* What is hashed can be read back: the numbers stand one after the other, *)
(* and how far the next part goes is told by what was read.                *)
(***************************************************************************)
\* The code stands in the text, from the place after k on.
Sits(code, text, k) == \A j \in 1..Len(code) : text[k + j] = code[j]

LEMMA SitsConcat ==
  ASSUME NEW a \in Seq(Nat), NEW b \in Seq(Nat), NEW text, NEW k \in Nat, Sits(a \o b, text, k)
  PROVE  Sits(a, text, k) /\ Sits(b, text, k + Len(a)) /\ k + Len(a) \in Nat
<1>1. /\ Len(a) \in Nat /\ Len(b) \in Nat /\ Len(a \o b) = Len(a) + Len(b)
      /\ \A j \in 1..(Len(a) + Len(b)) : (a \o b)[j] = IF j <= Len(a) THEN a[j] ELSE b[j - Len(a)]
  BY ConcatProperties, LenProperties
<1>2. \A j \in 1..(Len(a) + Len(b)) : text[k + j] = (a \o b)[j]
  BY <1>1 DEF Sits
<1>3. ASSUME NEW j \in 1..Len(a) PROVE text[k + j] = a[j]
  <2>1. j \in 1..(Len(a) + Len(b)) /\ j <= Len(a)
    BY <1>1
  <2> QED
    BY <1>1, <1>2, <2>1
<1>4. ASSUME NEW j \in 1..Len(b) PROVE text[k + Len(a) + j] = b[j]
  <2>1. /\ Len(a) + j \in 1..(Len(a) + Len(b)) /\ ~(Len(a) + j <= Len(a))
        /\ (Len(a) + j) - Len(a) = j /\ k + (Len(a) + j) = k + Len(a) + j
    BY <1>1
  <2>2. text[k + (Len(a) + j)] = (a \o b)[Len(a) + j]
    BY <1>2, <2>1
  <2>3. (a \o b)[Len(a) + j] = b[j]
    BY <1>1, <2>1
  <2> QED
    BY <2>1, <2>2, <2>3
<1> QED
  BY <1>1, <1>3, <1>4 DEF Sits

Flattened(codes, f, i) == IF i = 1 THEN codes[i] ELSE f[i - 1] \o codes[i]

Flattens(codes, n, f) == f = [i \in 1..n |-> Flattened(codes, f, i)]

LEMMA FlattenExists ==
  ASSUME NEW codes, NEW n \in Nat
  PROVE  \E f : Flattens(codes, n, f)
<1> DEFINE Missing == {m \in Nat : ~\E f : Flattens(codes, m, f)}
<1> SUFFICES ASSUME Missing # {} PROVE FALSE
  OBVIOUS
<1>1. PICK m \in Missing : \A k \in Missing : m <= k
  <2>1. Missing \in SUBSET Nat
    OBVIOUS
  <2> QED
    BY <2>1, LeastElement
<1>2. m \in Nat /\ ~\E f : Flattens(codes, m, f)
  OBVIOUS
<1>3. CASE m = 0
  <2> DEFINE f == [i \in 1..0 |-> << >>]
  <2>1. f = [i \in 1..0 |-> Flattened(codes, f, i)]
    OBVIOUS
  <2>2. Flattens(codes, 0, f)
    BY <2>1 DEF Flattens
  <2> QED
    BY <1>2, <1>3, <2>2
<1>4. CASE m # 0
  <2>1. m - 1 \in Nat /\ m - 1 \notin Missing
    BY <1>1, <1>2, <1>4
  <2>2. PICK g : Flattens(codes, m - 1, g)
    BY <2>1
  <2> DEFINE f == [i \in 1..m |-> IF i = m THEN Flattened(codes, g, m) ELSE g[i]]
  <2>3. g = [i \in 1..(m - 1) |-> Flattened(codes, g, i)]
    BY <2>2 DEF Flattens
  <2>4. ASSUME NEW i \in 1..m PROVE f[i] = Flattened(codes, f, i)
    <3>1. f[i] = Flattened(codes, g, i)
      <4>1. CASE i = m
        BY <4>1
      <4>2. CASE i # m
        <5>1. i \in 1..(m - 1)
          BY <1>2, <4>2
        <5>2. g[i] = Flattened(codes, g, i)
          <6> HIDE DEF f
          <6> QED
            BY <2>3, <5>1
        <5> QED
          BY <4>2, <5>2
      <4> QED
        BY <4>1, <4>2
    <3>2. CASE i = 1
      BY <3>1, <3>2 DEF Flattened
    <3>3. CASE i # 1
      <4>1. i - 1 \in 1..m /\ i - 1 # m
        BY <1>2, <3>3
      <4>2. f[i - 1] = g[i - 1]
        BY <4>1
      <4> HIDE DEF f
      <4> QED
        BY <3>1, <4>2 DEF Flattened
    <3> QED
      BY <3>2, <3>3
  <2>5. f = [i \in 1..m |-> f[i]]
    OBVIOUS
  <2> HIDE DEF f
  <2>6. f = [i \in 1..m |-> Flattened(codes, f, i)]
    BY <2>4, <2>5
  <2> QED
    BY <1>2, <2>6 DEF Flattens
<1> QED
  BY <1>3, <1>4

\* Where the codes stand in the text.
StandAt(codes, text, k, size, at) ==
  /\ at \in [0..Len(codes) -> Nat] /\ at[0] = k /\ at[Len(codes)] = k + size
  /\ \A i \in 1..Len(codes) : /\ at[i] = at[i - 1] + Len(codes[i])
                              /\ Sits(codes[i], text, at[i - 1])

LEMMA FlattenStands ==
  ASSUME NEW codes \in Seq(Seq(Nat)), NEW text, NEW k \in Nat
  PROVE  LET all == FlattenSeq(codes)
         IN  /\ all \in Seq(Nat)
             /\ Sits(all, text, k) => \E at : StandAt(codes, text, k, Len(all), at)
<1> DEFINE n == Len(codes)
           all == FlattenSeq(codes)
<1>1. n \in Nat /\ \A i \in 1..n : codes[i] \in Seq(Nat)
  BY LenProperties, ElementOfSeq
<1>2. CASE n = 0
  <2>1. all = codes
    BY <1>2 DEF FlattenSeq
  <2>2. all \in Seq(Nat) /\ Len(all) = 0
    <3>1. codes = << >>
      BY <1>2, EmptySeq
    <3> QED
      BY <2>1, <3>1
  <2> DEFINE at == [i \in 0..0 |-> k]
  <2>3. at \in [0..0 -> Nat] /\ at[0] = k /\ k = k + 0
    OBVIOUS
  <2> HIDE DEF at, all
  <2>4. StandAt(codes, text, k, Len(all), at)
    BY <1>2, <2>2, <2>3 DEF StandAt
  <2> QED
    BY <2>2, <2>4 DEF all
<1>3. CASE n # 0
  <2> DEFINE f == CHOOSE g : g = [i \in 1..n |-> IF i = 1 THEN codes[i] ELSE g[i - 1] \o codes[i]]
             at == [i \in 0..n |-> IF i = 0 THEN k ELSE k + Len(f[i])]
             Good(m) == /\ f[m] \in Seq(Nat)
                        /\ Sits(f[m], text, k) =>
                             \A i \in 1..m : Sits(codes[i], text, at[i - 1])
             Bad == {m \in 1..n : ~Good(m)}
  <2>1. all = f[n]
    BY <1>3 DEF FlattenSeq
  <2>2. f = [i \in 1..n |-> Flattened(codes, f, i)]
    <3>1. \E g : g = [i \in 1..n |-> Flattened(codes, g, i)]
      BY <1>1, FlattenExists DEF Flattens
    <3> HIDE DEF n
    <3>2. \E g : g = [i \in 1..n |-> IF i = 1 THEN codes[i] ELSE g[i - 1] \o codes[i]]
      BY <3>1 DEF Flattened
    <3>3. f = [i \in 1..n |-> IF i = 1 THEN codes[i] ELSE f[i - 1] \o codes[i]]
      BY <3>2
    <3> QED
      BY <3>3 DEF Flattened
  <2> HIDE DEF f
  <2>3. /\ f[1] = codes[1]
        /\ \A i \in 1..n : i # 1 => f[i] = f[i - 1] \o codes[i]
    <3> HIDE DEF n
    <3>1. \A i \in 1..n : f[i] = Flattened(codes, f, i)
      BY <2>2
    <3>2. 1 \in 1..n
      BY <1>1, <1>3
    <3> QED
      BY <3>1, <3>2 DEF Flattened
  <2>4. at[0] = k /\ \A i \in 1..n : at[i] = k + Len(f[i])
    BY <1>1
  <2> HIDE DEF at
  <2>5. Bad = {}
    <3> SUFFICES ASSUME Bad # {} PROVE FALSE
      OBVIOUS
    <3>1. PICK m \in Bad : \A i \in Bad : m <= i
      <4>1. Bad \in SUBSET Nat
        BY <1>1
      <4> QED
        BY <4>1, LeastElement
    <3>2. m \in 1..n /\ ~Good(m)
      OBVIOUS
    <3>3. CASE m = 1
      <4>1. f[m] \in Seq(Nat)
        BY <1>1, <2>3, <3>2, <3>3
      <4>2. \A i \in 1..m : codes[i] = f[m] /\ at[i - 1] = k
        BY <2>3, <2>4, <3>3
      <4> QED
        BY <3>2, <4>1, <4>2
    <3>4. CASE m # 1
      <4>1. m - 1 \in 1..n /\ m - 1 \notin Bad
        BY <1>1, <3>1, <3>2, <3>4
      <4>2. Good(m - 1)
        BY <4>1
      <4>3. /\ f[m - 1] \in Seq(Nat) /\ codes[m] \in Seq(Nat)
            /\ f[m] = f[m - 1] \o codes[m]
        BY <1>1, <2>3, <3>2, <3>4, <4>2
      <4>4. f[m] \in Seq(Nat)
        BY <4>3, ConcatProperties
      <4>5. ASSUME Sits(f[m], text, k), NEW i \in 1..m PROVE Sits(codes[i], text, at[i - 1])
        <5>1. Sits(f[m - 1], text, k) /\ Sits(codes[m], text, k + Len(f[m - 1]))
          BY <4>3, <4>5, SitsConcat
        <5>2. CASE i = m
          BY <2>4, <4>1, <5>1, <5>2
        <5>3. CASE i # m
          <6>1. i \in 1..(m - 1)
            BY <3>2, <5>3
          <6> QED
            BY <4>2, <5>1, <6>1
        <5> QED
          BY <5>2, <5>3
      <4> QED
        BY <3>2, <4>4, <4>5
    <3> QED
      BY <3>3, <3>4
  <2>6. \A m \in 1..n : Good(m)
    BY <2>5
  <2>7. n \in 1..n
    BY <1>1, <1>3
  <2>8. \A i \in 1..n : f[i] \in Seq(Nat) /\ Len(f[i]) \in Nat
    BY <2>6
  <2>9. at \in [0..n -> Nat]
    <3>1. \A i \in 0..n : at[i] \in Nat
      BY <1>1, <2>4, <2>8
    <3>2. at = [i \in 0..n |-> at[i]]
      BY DEF at
    <3> HIDE DEF n
    <3> QED
      BY <3>1, <3>2
  <2>10. ASSUME NEW i \in 1..n PROVE at[i] = at[i - 1] + Len(codes[i])
    <3>1. codes[i] \in Seq(Nat) /\ Len(codes[i]) \in Nat
      BY <1>1
    <3>2. CASE i = 1
      <4>1. at[i] = k + Len(f[i]) /\ f[i] = codes[i]
        BY <2>3, <2>4, <3>2
      <4>2. at[i - 1] = k
        BY <2>4, <3>2
      <4> QED
        BY <4>1, <4>2
    <3>3. CASE i # 1
      <4>1. i - 1 \in 1..n
        BY <1>1, <3>3
      <4>2. f[i] = f[i - 1] \o codes[i] /\ f[i - 1] \in Seq(Nat) /\ Len(f[i - 1]) \in Nat
        BY <2>3, <2>8, <3>3, <4>1
      <4>3. Len(f[i]) = Len(f[i - 1]) + Len(codes[i])
        BY <3>1, <4>2, ConcatProperties
      <4>4. at[i] = k + Len(f[i]) /\ at[i - 1] = k + Len(f[i - 1])
        BY <2>4, <4>1
      <4>5. at[i] = k + (Len(f[i - 1]) + Len(codes[i]))
        BY <4>3, <4>4
      <4> QED
        <5> DEFINE x == Len(f[i - 1])
                   y == Len(codes[i])
        <5>1. x \in Nat /\ y \in Nat /\ at[i] = k + (x + y) /\ at[i - 1] = k + x
          BY <3>1, <4>2, <4>4, <4>5
        <5> HIDE DEF x, y
        <5>2. at[i] = at[i - 1] + y
          BY <5>1
        <5> QED
          BY <5>2 DEF y
    <3> QED
      BY <3>2, <3>3
  <2>11. all \in Seq(Nat) /\ at[n] = k + Len(all)
    BY <2>1, <2>4, <2>7, <2>8
  <2> HIDE DEF all
  <2>12. ASSUME Sits(all, text, k) PROVE StandAt(codes, text, k, Len(all), at)
    <3>1. \A i \in 1..n : Sits(codes[i], text, at[i - 1])
      BY <2>1, <2>6, <2>7, <2>12
    <3> QED
      BY <2>4, <2>9, <2>10, <2>11, <3>1 DEF StandAt
  <2> QED
    BY <2>11, <2>12 DEF all
<1> QED
  BY <1>2, <1>3

\* Two lists of codes in one text, where the codes of a pair that start
\* together end together, are read in step.
LEMMA ReadInStep ==
  ASSUME NEW c \in Seq(Seq(Nat)), NEW d \in Seq(Seq(Nat)), Len(c) = Len(d),
         NEW text, NEW k \in Nat,
         Sits(FlattenSeq(c), text, k), Sits(FlattenSeq(d), text, k),
         \A i \in 1..Len(c) : \A o \in Nat :
           Sits(c[i], text, o) /\ Sits(d[i], text, o) => Len(c[i]) = Len(d[i])
  PROVE  /\ Len(FlattenSeq(c)) = Len(FlattenSeq(d))
         /\ \A i \in 1..Len(c) : \E o \in Nat : Sits(c[i], text, o) /\ Sits(d[i], text, o)
<1> DEFINE n == Len(c)
<1>1. PICK a : StandAt(c, text, k, Len(FlattenSeq(c)), a)
  BY FlattenStands
<1>2. PICK b : StandAt(d, text, k, Len(FlattenSeq(d)), b)
  BY FlattenStands
<1>3. /\ n \in Nat /\ a \in [0..n -> Nat] /\ a[0] = k /\ a[n] = k + Len(FlattenSeq(c))
      /\ \A i \in 1..n : a[i] = a[i - 1] + Len(c[i]) /\ Sits(c[i], text, a[i - 1])
  BY <1>1 DEF StandAt
<1>4. /\ b \in [0..n -> Nat] /\ b[0] = k /\ b[n] = k + Len(FlattenSeq(d))
      /\ \A i \in 1..n : b[i] = b[i - 1] + Len(d[i]) /\ Sits(d[i], text, b[i - 1])
  BY <1>2 DEF StandAt
<1>5. Len(FlattenSeq(c)) \in Nat /\ Len(FlattenSeq(d)) \in Nat
  BY FlattenStands
<1> DEFINE Bad == {i \in 0..n : a[i] # b[i]}
<1>6. Bad = {}
  <2> SUFFICES ASSUME Bad # {} PROVE FALSE
    OBVIOUS
  <2>1. PICK m \in Bad : \A i \in Bad : m <= i
    <3>1. Bad \in SUBSET Nat
      BY <1>3
    <3> QED
      BY <3>1, LeastElement
  <2>2. m \in 0..n /\ a[m] # b[m] /\ m # 0
    BY <1>3, <1>4
  <2>3. m \in 1..n /\ m - 1 \in 0..n /\ m - 1 \notin Bad
    BY <1>3, <2>1, <2>2
  <2>4. a[m - 1] = b[m - 1] /\ a[m - 1] \in Nat
    BY <1>3, <2>3
  <2> HIDE DEF Bad
  <2>5. Len(c[m]) = Len(d[m])
    BY <1>3, <1>4, <2>3, <2>4
  <2> QED
    BY <1>3, <1>4, <2>2, <2>3, <2>4, <2>5
<1>7. \A i \in 0..n : a[i] = b[i] /\ a[i] \in Nat
  BY <1>3, <1>6
<1>8. Len(FlattenSeq(c)) = Len(FlattenSeq(d))
  <2>1. a[n] = b[n]
    BY <1>3, <1>7
  <2> QED
    BY <1>3, <1>4, <1>5, <2>1
<1>9. ASSUME NEW i \in 1..n PROVE \E o \in Nat : Sits(c[i], text, o) /\ Sits(d[i], text, o)
  <2>1. i - 1 \in 0..n
    BY <1>3
  <2>2. a[i - 1] = b[i - 1] /\ a[i - 1] \in Nat
    BY <1>7, <2>1
  <2> QED
    BY <1>3, <1>4, <2>2
<1> QED
  BY <1>8, <1>9

(***************************************************************************)
(* What the parts of a world are read from.                                *)
(***************************************************************************)
LEMMA NumbersRead ==
  ASSUME NEW a \in Seq(Nat), NEW b \in Seq(Nat), Len(a) = Len(b), NEW text, NEW o \in Nat,
         Sits(a, text, o), Sits(b, text, o)
  PROVE  a = b
<1>1. \A j \in 1..Len(a) : a[j] = b[j]
  BY DEF Sits
<1> QED
  BY <1>1, SeqEqual

LEMMA OptionIsNumbers ==
  ASSUME NEW v \in Nat \cup {None}
  PROVE  WriteOption(v) \in Seq(Nat)
<1>1. CASE v = None
  BY <1>1 DEF WriteOption
<1>2. CASE v # None
  BY <1>2 DEF WriteOption
<1> QED
  BY <1>1, <1>2

LEMMA OptionRead ==
  ASSUME NEW u, NEW v, NEW text, NEW o \in Nat,
         Sits(WriteOption(u), text, o), Sits(WriteOption(v), text, o)
  PROVE  u = v
<1>1. ASSUME NEW w, Sits(WriteOption(w), text, o)
      PROVE  (w = None /\ text[o + 1] = 0) \/ (w # None /\ text[o + 1] = 1 /\ text[o + 2] = w)
  <2>1. CASE w = None
    <3>1. Sits(<<0>>, text, o)
      BY <1>1, <2>1 DEF WriteOption
    <3> QED
      BY <2>1, <3>1 DEF Sits
  <2>2. CASE w # None
    <3>1. Sits(<<1, w>>, text, o)
      BY <1>1, <2>2 DEF WriteOption
    <3> QED
      BY <2>2, <3>1 DEF Sits
  <2> QED
    BY <2>1, <2>2
<1>2. (u = None /\ text[o + 1] = 0) \/ (u # None /\ text[o + 1] = 1 /\ text[o + 2] = u)
  BY <1>1
<1>3. (v = None /\ text[o + 1] = 0) \/ (v # None /\ text[o + 1] = 1 /\ text[o + 2] = v)
  BY <1>1
<1> QED
  BY <1>2, <1>3

LEMMA BytesRead ==
  /\ \A k \in EntityKind : KindByte[k] \in Nat
  /\ \A k, m \in EntityKind : KindByte[k] = KindByte[m] => k = m
  /\ \A q \in EntityState : StateByte[q] \in Nat
  /\ \A q, r \in EntityState : StateByte[q] = StateByte[r] => q = r
<1>1. /\ KindByte["Resource"] = 0 /\ KindByte["Creature"] = 1
      /\ KindByte["Item"] = 2 /\ KindByte["Structure"] = 3
  BY DEF KindByte
<1>2. /\ StateByte["Active"] = 0 /\ StateByte["Dormant"] = 1 /\ StateByte["Dead"] = 2
  BY DEF StateByte
<1> QED
  BY <1>1, <1>2 DEF EntityKind, EntityState

EntityHead(id, e) == <<id, id, KindByte[e.kind], StateByte[e.state], e.zone, e.created>>

LEMMA EntityParts ==
  ASSUME NEW id \in Nat, NEW e \in Entity, NEW text, NEW o \in Nat
  PROVE  /\ WriteEntity(id, e) \in Seq(Nat)
         /\ Sits(WriteEntity(id, e), text, o) =>
              /\ text[o + 1] = id /\ text[o + 3] = KindByte[e.kind]
              /\ text[o + 4] = StateByte[e.state] /\ text[o + 5] = e.zone
              /\ text[o + 6] = e.created
              /\ Sits(WriteOption(e.amount), text, o + 6)
              /\ Sits(WriteOption(e.health), text, o + 6 + Len(WriteOption(e.amount)))
              /\ o + 6 + Len(WriteOption(e.amount)) \in Nat
<1> DEFINE head == EntityHead(id, e)
           amount == WriteOption(e.amount)
           health == WriteOption(e.health)
<1>1. amount \in Seq(Nat) /\ health \in Seq(Nat)
  BY OptionIsNumbers DEF Entity
<1>2. /\ KindByte[e.kind] \in Nat /\ StateByte[e.state] \in Nat
      /\ e.zone \in Nat /\ e.created \in Nat
  BY BytesRead DEF Entity
<1>3. head \in Seq(Nat) /\ Len(head) = 6
  BY <1>2 DEF EntityHead
<1>4. WriteEntity(id, e) = (head \o amount) \o health
  BY DEF WriteEntity, EntityHead
<1> HIDE DEF head, amount, health
<1>5. /\ head \o amount \in Seq(Nat) /\ Len(head \o amount) = 6 + Len(amount)
      /\ (head \o amount) \o health \in Seq(Nat) /\ Len(amount) \in Nat
  <2>1. head \o amount \in Seq(Nat) /\ Len(head \o amount) = Len(head) + Len(amount)
    BY <1>1, <1>3, ConcatProperties
  <2>2. (head \o amount) \o health \in Seq(Nat)
    BY <1>1, <2>1, ConcatProperties
  <2> QED
    BY <1>1, <1>3, <2>1, <2>2, LenProperties
<1>6. ASSUME Sits(WriteEntity(id, e), text, o)
      PROVE  /\ text[o + 1] = id /\ text[o + 3] = KindByte[e.kind]
             /\ text[o + 4] = StateByte[e.state] /\ text[o + 5] = e.zone
             /\ text[o + 6] = e.created
             /\ Sits(amount, text, o + 6) /\ Sits(health, text, o + 6 + Len(amount))
             /\ o + 6 + Len(amount) \in Nat
  <2>1. Sits((head \o amount) \o health, text, o)
    BY <1>4, <1>6
  <2>2. Sits(head \o amount, text, o) /\ Sits(health, text, o + Len(head \o amount))
    BY <1>1, <1>5, <2>1, SitsConcat
  <2>3. Sits(head, text, o) /\ Sits(amount, text, o + Len(head))
    BY <1>1, <1>3, <2>2, SitsConcat
  <2>4. o + Len(head \o amount) = o + 6 + Len(amount) /\ o + 6 + Len(amount) \in Nat
    <3> DEFINE m == Len(amount)
    <3>1. m \in Nat /\ Len(head \o amount) = 6 + m
      BY <1>5
    <3> HIDE DEF m
    <3>2. o + Len(head \o amount) = o + 6 + m /\ o + 6 + m \in Nat
      BY <3>1
    <3> QED
      BY <3>2 DEF m
  <2>5. \A j \in 1..6 : text[o + j] = head[j]
    BY <1>3, <2>3 DEF Sits
  <2>6. /\ text[o + 1] = id /\ text[o + 3] = KindByte[e.kind]
        /\ text[o + 4] = StateByte[e.state] /\ text[o + 5] = e.zone
        /\ text[o + 6] = e.created
    BY <2>5 DEF head, EntityHead
  <2>7. Sits(health, text, o + 6 + Len(amount)) /\ o + 6 + Len(amount) \in Nat
    BY <2>2, <2>4
  <2>8. Sits(amount, text, o + 6)
    BY <1>3, <2>3
  <2> QED
    BY <2>6, <2>7, <2>8
<1> QED
  BY <1>4, <1>5, <1>6 DEF amount, health

LEMMA EntityRead ==
  ASSUME NEW i \in Nat, NEW e \in Entity, NEW j \in Nat, NEW f \in Entity,
         NEW text, NEW o \in Nat,
         Sits(WriteEntity(i, e), text, o), Sits(WriteEntity(j, f), text, o)
  PROVE  i = j /\ e = f
<1>1. /\ i = j /\ KindByte[e.kind] = KindByte[f.kind] /\ StateByte[e.state] = StateByte[f.state]
      /\ e.zone = f.zone /\ e.created = f.created
  <2>1. /\ text[o + 1] = i /\ text[o + 3] = KindByte[e.kind] /\ text[o + 4] = StateByte[e.state]
        /\ text[o + 5] = e.zone /\ text[o + 6] = e.created
    BY EntityParts
  <2>2. /\ text[o + 1] = j /\ text[o + 3] = KindByte[f.kind] /\ text[o + 4] = StateByte[f.state]
        /\ text[o + 5] = f.zone /\ text[o + 6] = f.created
    BY EntityParts
  <2> QED
    BY <2>1, <2>2
<1>2. e.kind = f.kind /\ e.state = f.state
  BY <1>1, BytesRead DEF Entity
<1>3. e.amount = f.amount
  <2>1. o + 6 \in Nat
    OBVIOUS
  <2>2. Sits(WriteOption(e.amount), text, o + 6) /\ Sits(WriteOption(f.amount), text, o + 6)
    BY EntityParts
  <2> QED
    BY <2>1, <2>2, OptionRead
<1>4. e.health = f.health
  <2> DEFINE k == o + 6 + Len(WriteOption(e.amount))
  <2>1. k \in Nat /\ Sits(WriteOption(e.health), text, k)
    BY EntityParts
  <2>2. Sits(WriteOption(f.health), text, o + 6 + Len(WriteOption(f.amount)))
    BY EntityParts
  <2>3. Sits(WriteOption(f.health), text, k)
    BY <1>3, <2>2
  <2> HIDE DEF k
  <2> QED
    BY <2>1, <2>3, OptionRead
<1> QED
  BY <1>1, <1>2, <1>3, <1>4 DEF Entity

LEMMA NameRead ==
  ASSUME NEW m \in ZoneNames, NEW n \in ZoneNames, NEW text, NEW o \in Nat,
         Sits(WriteName(m), text, o), Sits(WriteName(n), text, o)
  PROVE  m = n
<1>1. ASSUME NEW w \in ZoneNames, Sits(WriteName(w), text, o)
      PROVE  \/ w = None /\ text[o + 1] = 0
             \/ /\ w # None /\ text[o + 1] = 1 /\ text[o + 2] = Len(NameBytes[w])
                /\ Sits(NameBytes[w], text, o + 2)
  <2>1. CASE w = None
    <3>1. Sits(<<0>>, text, o)
      BY <1>1, <2>1 DEF WriteName
    <3> QED
      BY <2>1, <3>1 DEF Sits
  <2>2. CASE w # None
    <3> DEFINE bytes == NameBytes[w]
               head == <<1, Len(bytes)>>
    <3>1. bytes \in Seq(Nat)
      BY NameAssumption
    <3>2. Sits(head \o bytes, text, o)
      BY <1>1, <2>2 DEF WriteName
    <3>3. head \in Seq(Nat) /\ Len(head) = 2 /\ head[1] = 1 /\ head[2] = Len(bytes)
      BY <3>1
    <3> HIDE DEF head, bytes
    <3>4. Sits(head, text, o) /\ Sits(bytes, text, o + 2)
      <4>1. Sits(head, text, o) /\ Sits(bytes, text, o + Len(head))
        BY <3>1, <3>2, <3>3, SitsConcat
      <4> QED
        BY <3>3, <4>1
    <3>5. text[o + 1] = 1 /\ text[o + 2] = Len(bytes)
      BY <3>3, <3>4 DEF Sits
    <3> QED
      BY <2>2, <3>4, <3>5 DEF bytes
  <2> QED
    BY <2>1, <2>2
<1>2. CASE text[o + 1] = 0
  <2>1. m = None
    BY <1>1, <1>2
  <2>2. n = None
    BY <1>1, <1>2
  <2> QED
    BY <2>1, <2>2
<1>3. CASE text[o + 1] # 0
  <2>1. text[o + 2] = Len(NameBytes[m]) /\ Sits(NameBytes[m], text, o + 2)
    BY <1>1, <1>3
  <2>2. text[o + 2] = Len(NameBytes[n]) /\ Sits(NameBytes[n], text, o + 2)
    BY <1>1, <1>3
  <2>3. o + 2 \in Nat /\ NameBytes[m] \in Seq(Nat) /\ NameBytes[n] \in Seq(Nat)
        /\ Len(NameBytes[m]) = Len(NameBytes[n])
    BY <2>1, <2>2, NameAssumption
  <2>4. NameBytes[m] = NameBytes[n]
    BY <2>1, <2>2, <2>3, NumbersRead
  <2> QED
    BY <2>4, NameAssumption
<1> QED
  BY <1>2, <1>3

ZoneTail(zone) == <<IF zone.loaded THEN 1 ELSE 0, Len(zone.entities)>>

LEMMA ZoneParts ==
  ASSUME NEW z \in Nat, NEW zone \in Zone, NEW text, NEW o \in Nat
  PROVE  LET k == o + 2 + Len(WriteName(zone.name))
         IN  /\ WriteZone(z, zone) \in Seq(Nat)
             /\ Sits(WriteZone(z, zone), text, o) =>
                  /\ text[o + 1] = z /\ Sits(WriteName(zone.name), text, o + 2)
                  /\ k \in Nat /\ text[k + 1] = (IF zone.loaded THEN 1 ELSE 0)
                  /\ text[k + 2] = Len(zone.entities)
                  /\ Sits(zone.entities, text, k + 2)
<1> DEFINE head == <<z, z>>
           name == WriteName(zone.name)
           tail == ZoneTail(zone)
           ids == zone.entities
           k == o + 2 + Len(name)
<1>1. zone.name \in ZoneNames /\ zone.loaded \in BOOLEAN /\ ids \in Seq(Nat)
  BY DEF Zone
<1>2. name \in Seq(Nat)
  <2>1. CASE zone.name = None
    BY <2>1 DEF WriteName
  <2>2. CASE zone.name # None
    <3>1. NameBytes[zone.name] \in Seq(Nat)
      BY <1>1, NameAssumption
    <3> DEFINE bytes == NameBytes[zone.name]
    <3>2. <<1, Len(bytes)>> \in Seq(Nat)
      BY <3>1
    <3>3. <<1, Len(bytes)>> \o bytes \in Seq(Nat)
      BY <3>1, <3>2, ConcatProperties
    <3> QED
      BY <2>2, <3>3 DEF WriteName
  <2> QED
    BY <2>1, <2>2
<1>3. head \in Seq(Nat) /\ Len(head) = 2 /\ head[1] = z
  OBVIOUS
<1>4. /\ tail \in Seq(Nat) /\ Len(tail) = 2
      /\ tail[1] = (IF zone.loaded THEN 1 ELSE 0) /\ tail[2] = Len(ids)
  <2>1. (IF zone.loaded THEN 1 ELSE 0) \in Nat /\ Len(ids) \in Nat
    BY <1>1
  <2> QED
    BY <2>1 DEF ZoneTail
<1>5. WriteZone(z, zone) = ((head \o name) \o tail) \o ids
  BY DEF WriteZone, ZoneTail
<1> HIDE DEF head, name, tail, ids
<1>6. /\ head \o name \in Seq(Nat) /\ (head \o name) \o tail \in Seq(Nat)
      /\ ((head \o name) \o tail) \o ids \in Seq(Nat)
      /\ Len(head \o name) = 2 + Len(name) /\ Len((head \o name) \o tail) = 2 + Len(name) + 2
      /\ Len(name) \in Nat
  <2>1. head \o name \in Seq(Nat) /\ Len(head \o name) = Len(head) + Len(name)
    BY <1>2, <1>3, ConcatProperties
  <2>2. /\ (head \o name) \o tail \in Seq(Nat)
        /\ Len((head \o name) \o tail) = Len(head \o name) + Len(tail)
    BY <1>4, <2>1, ConcatProperties
  <2>3. ((head \o name) \o tail) \o ids \in Seq(Nat)
    BY <1>1, <2>2, ConcatProperties
  <2> QED
    BY <1>2, <1>3, <1>4, <2>1, <2>2, <2>3, LenProperties
<1>7. ASSUME Sits(WriteZone(z, zone), text, o)
      PROVE  /\ text[o + 1] = z /\ Sits(name, text, o + 2)
             /\ k \in Nat /\ text[k + 1] = (IF zone.loaded THEN 1 ELSE 0)
             /\ text[k + 2] = Len(ids) /\ Sits(ids, text, k + 2)
  <2>1. Sits((head \o name) \o tail, text, o) /\ Sits(ids, text, o + Len((head \o name) \o tail))
    BY <1>1, <1>5, <1>6, <1>7, SitsConcat
  <2>2. Sits(head \o name, text, o) /\ Sits(tail, text, o + Len(head \o name))
    BY <1>4, <1>6, <2>1, SitsConcat
  <2>3. Sits(head, text, o) /\ Sits(name, text, o + Len(head))
    BY <1>2, <1>3, <2>2, SitsConcat
  <2>4. k \in Nat /\ o + Len(head \o name) = k /\ o + Len((head \o name) \o tail) = k + 2
    <3> DEFINE m == Len(name)
               a == Len(head \o name)
               b == Len((head \o name) \o tail)
    <3>1. m \in Nat /\ a = 2 + m /\ b = 2 + m + 2
      BY <1>6
    <3> HIDE DEF m, a, b
    <3>2. o + 2 + m \in Nat /\ o + a = o + 2 + m /\ o + b = o + 2 + m + 2
      BY <3>1
    <3> QED
      BY <3>2 DEF m, a, b
  <2> HIDE DEF k
  <2>5. Sits(tail, text, k) /\ Sits(ids, text, k + 2)
    BY <2>1, <2>2, <2>4
  <2>6. text[k + 1] = tail[1] /\ text[k + 2] = tail[2]
    BY <1>4, <2>5 DEF Sits
  <2>7. text[o + 1] = z
    BY <1>3, <2>3 DEF Sits
  <2>8. Sits(name, text, o + 2)
    BY <1>3, <2>3
  <2> QED
    BY <1>4, <2>4, <2>5, <2>6, <2>7, <2>8
<1> QED
  BY <1>5, <1>6, <1>7 DEF name, ids

LEMMA ZoneRead ==
  ASSUME NEW y \in Nat, NEW a \in Zone, NEW z \in Nat, NEW b \in Zone,
         NEW text, NEW o \in Nat,
         Sits(WriteZone(y, a), text, o), Sits(WriteZone(z, b), text, o)
  PROVE  y = z /\ a = b
<1> DEFINE k == o + 2 + Len(WriteName(a.name))
<1>1. /\ a.name \in ZoneNames /\ b.name \in ZoneNames /\ o + 2 \in Nat
      /\ a.loaded \in BOOLEAN /\ b.loaded \in BOOLEAN
      /\ a.entities \in Seq(Nat) /\ b.entities \in Seq(Nat)
  BY DEF Zone
<1>2. /\ text[o + 1] = y /\ Sits(WriteName(a.name), text, o + 2)
      /\ k \in Nat /\ text[k + 1] = (IF a.loaded THEN 1 ELSE 0)
      /\ text[k + 2] = Len(a.entities) /\ Sits(a.entities, text, k + 2)
  BY ZoneParts
<1>3. text[o + 1] = z /\ Sits(WriteName(b.name), text, o + 2)
  BY ZoneParts
<1>4. y = z /\ a.name = b.name
  BY <1>1, <1>2, <1>3, NameRead
<1>5. /\ text[k + 1] = (IF b.loaded THEN 1 ELSE 0)
      /\ text[k + 2] = Len(b.entities) /\ Sits(b.entities, text, k + 2)
  <2> DEFINE m == o + 2 + Len(WriteName(b.name))
  <2>1. /\ text[m + 1] = (IF b.loaded THEN 1 ELSE 0)
        /\ text[m + 2] = Len(b.entities) /\ Sits(b.entities, text, m + 2)
    BY ZoneParts
  <2>2. m = k
    BY <1>4
  <2> QED
    BY <2>1, <2>2
<1> HIDE DEF k
<1>6. a.loaded = b.loaded
  BY <1>1, <1>2, <1>5
<1>7. a.entities = b.entities
  <2>1. k + 2 \in Nat /\ Len(a.entities) = Len(b.entities)
    BY <1>2, <1>5
  <2> QED
    BY <1>1, <1>2, <1>5, <2>1, NumbersRead
<1> QED
  BY <1>4, <1>6, <1>7 DEF Zone

-----------------------------------------------------------------------------
(***************************************************************************)
(* Worlds with the same hash are the same.                                 *)
(***************************************************************************)
Hashable(w) == WorldInv(w) /\ w.seed \in Nat /\ w.rng \in Nat

EntityCodes(w) ==
  LET ids == Ascending(DOMAIN w.entities)
  IN  [i \in DOMAIN ids |-> WriteEntity(ids[i], w.entities[ids[i]])]

ZoneCodes(w) ==
  LET ids == Ascending(DOMAIN w.zones)
  IN  [i \in DOMAIN ids |-> WriteZone(ids[i], w.zones[ids[i]])]

LEMMA EntitiesCoded ==
  ASSUME NEW w, Hashable(w)
  PROVE  LET ids == Ascending(DOMAIN w.entities)
             n == Cardinality(DOMAIN w.entities)
         IN  /\ n \in Nat /\ ids \in [1..n -> DOMAIN w.entities] /\ Len(ids) = n
             /\ \A id \in DOMAIN w.entities : \E i \in 1..n : ids[i] = id
             /\ \A i \in 1..n : ids[i] \in Nat /\ w.entities[ids[i]] \in Entity
             /\ EntityCodes(w) \in Seq(Seq(Nat)) /\ Len(EntityCodes(w)) = n
             /\ \A i \in 1..n : EntityCodes(w)[i] = WriteEntity(ids[i], w.entities[ids[i]])
<1> DEFINE keys == DOMAIN w.entities
           ids == Ascending(keys)
           n == Cardinality(keys)
<1>1. w.entities \in [keys -> Entity] /\ w.nextId \in Nat
  BY DEF Hashable, WorldInv, WorldFrom, IsWorld
<1>2. keys \in SUBSET Nat /\ keys \subseteq 0..w.nextId
  BY <1>1 DEF Hashable, WorldInv, WorldFrom, Placed
<1>3. IsFiniteSet(keys)
  <2>0. 0 \in Int /\ w.nextId \in Int
    BY <1>1
  <2>1. IsFiniteSet(0..w.nextId)
    BY <2>0, FS_Interval
  <2> QED
    BY <1>2, <2>1, FS_Subset
<1> HIDE DEF keys
<1>4. /\ n \in Nat /\ ids \in [1..n -> keys]
      /\ \A id \in keys : \E i \in 1..n : ids[i] = id
  BY <1>2, <1>3, AscendingLists
<1> HIDE DEF ids, n
<1>5. Len(ids) = n /\ DOMAIN ids = 1..n
  BY <1>4
<1>6. \A i \in 1..n : ids[i] \in Nat /\ w.entities[ids[i]] \in Entity
  BY <1>1, <1>2, <1>4
<1>7. ASSUME NEW i \in 1..n PROVE WriteEntity(ids[i], w.entities[ids[i]]) \in Seq(Nat)
  <2> DEFINE id == ids[i]
             e == w.entities[id]
  <2>1. id \in Nat /\ e \in Entity
    BY <1>6
  <2> HIDE DEF id, e
  <2>2. WriteEntity(id, e) \in Seq(Nat)
    BY <2>1, EntityParts, 0 \in Nat
  <2> QED
    BY <2>2 DEF id, e
<1> DEFINE codes == [i \in 1..n |-> WriteEntity(ids[i], w.entities[ids[i]])]
<1>8. codes = EntityCodes(w)
  BY <1>5 DEF EntityCodes, ids, keys
<1>9. codes \in Seq(Seq(Nat)) /\ Len(codes) = n
  <2>1. codes \in [1..n -> Seq(Nat)]
    BY <1>7
  <2> HIDE DEF codes
  <2> QED
    BY <1>4, <2>1
<1>10. \A i \in 1..n : codes[i] = WriteEntity(ids[i], w.entities[ids[i]])
  OBVIOUS
<1> HIDE DEF codes
<1> QED
  BY <1>4, <1>5, <1>6, <1>8, <1>9, <1>10 DEF ids, n, keys

LEMMA ZonesCoded ==
  ASSUME NEW w, Hashable(w)
  PROVE  LET ids == Ascending(DOMAIN w.zones)
             n == Cardinality(DOMAIN w.zones)
         IN  /\ n \in Nat /\ ids \in [1..n -> DOMAIN w.zones] /\ Len(ids) = n
             /\ \A z \in DOMAIN w.zones : \E i \in 1..n : ids[i] = z
             /\ \A i \in 1..n : ids[i] \in Nat /\ w.zones[ids[i]] \in Zone
             /\ ZoneCodes(w) \in Seq(Seq(Nat)) /\ Len(ZoneCodes(w)) = n
             /\ \A i \in 1..n : ZoneCodes(w)[i] = WriteZone(ids[i], w.zones[ids[i]])
<1> DEFINE keys == DOMAIN w.zones
           ids == Ascending(keys)
           n == Cardinality(keys)
<1>1. w.zones \in [keys -> Zone] /\ keys \in SUBSET Nat /\ IsFiniteSet(keys)
  BY DEF Hashable, WorldInv, WorldFrom, IsWorld
<1> HIDE DEF keys
<1>4. /\ n \in Nat /\ ids \in [1..n -> keys]
      /\ \A id \in keys : \E i \in 1..n : ids[i] = id
  BY <1>1, AscendingLists
<1> HIDE DEF ids, n
<1>5. Len(ids) = n /\ DOMAIN ids = 1..n
  BY <1>4
<1>6. \A i \in 1..n : ids[i] \in Nat /\ w.zones[ids[i]] \in Zone
  BY <1>1, <1>4
<1>7. ASSUME NEW i \in 1..n PROVE WriteZone(ids[i], w.zones[ids[i]]) \in Seq(Nat)
  <2> DEFINE id == ids[i]
             e == w.zones[id]
  <2>1. id \in Nat /\ e \in Zone
    BY <1>6
  <2> HIDE DEF id, e
  <2>2. WriteZone(id, e) \in Seq(Nat)
    BY <2>1, ZoneParts, 0 \in Nat
  <2> QED
    BY <2>2 DEF id, e
<1> DEFINE codes == [i \in 1..n |-> WriteZone(ids[i], w.zones[ids[i]])]
<1>8. codes = ZoneCodes(w)
  BY <1>5 DEF ZoneCodes, ids, keys
<1>9. codes \in Seq(Seq(Nat)) /\ Len(codes) = n
  <2>1. codes \in [1..n -> Seq(Nat)]
    BY <1>7
  <2> HIDE DEF codes
  <2> QED
    BY <1>4, <2>1
<1>10. \A i \in 1..n : codes[i] = WriteZone(ids[i], w.zones[ids[i]])
  OBVIOUS
<1> HIDE DEF codes
<1> QED
  BY <1>4, <1>5, <1>6, <1>8, <1>9, <1>10 DEF ids, n, keys

LEMMA HashParts ==
  ASSUME NEW w, Hashable(w), NEW text, text = CanonicalHash(w)
  PROVE  LET k == 8 + Len(FlattenSeq(EntityCodes(w)))
         IN  /\ \A j \in 1..7 : text[j] = WriteMeta(w)[j]
             /\ text[8] = Len(EntityCodes(w)) /\ Sits(FlattenSeq(EntityCodes(w)), text, 8)
             /\ k \in Nat /\ text[k + 1] = Len(ZoneCodes(w))
             /\ Sits(FlattenSeq(ZoneCodes(w)), text, k + 1)
<1> DEFINE meta == WriteMeta(w)
           e == FlattenSeq(EntityCodes(w))
           z == FlattenSeq(ZoneCodes(w))
           n == <<Len(EntityCodes(w))>>
           m == <<Len(ZoneCodes(w))>>
<1>1. meta \in Seq(Nat) /\ Len(meta) = 7
  BY DEF WriteMeta, Hashable, WorldInv, WorldFrom, IsWorld
<1>2. e \in Seq(Nat) /\ z \in Seq(Nat)
  <2>1. EntityCodes(w) \in Seq(Seq(Nat)) /\ ZoneCodes(w) \in Seq(Seq(Nat)) /\ 0 \in Nat
    BY EntitiesCoded, ZonesCoded
  <2> QED
    BY <2>1, FlattenStands
<1>3. /\ n \in Seq(Nat) /\ Len(n) = 1 /\ n[1] = Len(EntityCodes(w))
      /\ m \in Seq(Nat) /\ Len(m) = 1 /\ m[1] = Len(ZoneCodes(w))
  <2>1. Len(EntityCodes(w)) \in Nat /\ Len(ZoneCodes(w)) \in Nat
    BY EntitiesCoded, ZonesCoded
  <2> QED
    BY <2>1
<1>4. text = (meta \o (n \o e)) \o (m \o z)
  <2>1. WriteEntities(w) = n \o e
    <3>1. Len(Ascending(DOMAIN w.entities)) = Len(EntityCodes(w))
      BY EntitiesCoded
    <3> QED
      BY <3>1 DEF WriteEntities, EntityCodes
  <2>2. WriteZones(w) = m \o z
    <3>1. Len(Ascending(DOMAIN w.zones)) = Len(ZoneCodes(w))
      BY ZonesCoded
    <3> QED
      BY <3>1 DEF WriteZones, ZoneCodes
  <2> QED
    BY <2>1, <2>2 DEF CanonicalHash
<1> HIDE DEF meta, e, z, n, m
<1>5. /\ n \o e \in Seq(Nat) /\ Len(n \o e) = 1 + Len(e) /\ m \o z \in Seq(Nat)
      /\ meta \o (n \o e) \in Seq(Nat) /\ Len(meta \o (n \o e)) = 8 + Len(e)
      /\ text \in Seq(Nat) /\ Len(e) \in Nat
  <2>1. n \o e \in Seq(Nat) /\ Len(n \o e) = Len(n) + Len(e) /\ m \o z \in Seq(Nat)
    BY <1>2, <1>3, ConcatProperties
  <2>2. meta \o (n \o e) \in Seq(Nat) /\ Len(meta \o (n \o e)) = Len(meta) + Len(n \o e)
    BY <1>1, <2>1, ConcatProperties
  <2>3. text \in Seq(Nat)
    BY <1>4, <2>1, <2>2, ConcatProperties
  <2> QED
    BY <1>1, <1>2, <1>3, <2>1, <2>2, <2>3, LenProperties
<1>6. Sits((meta \o (n \o e)) \o (m \o z), text, 0)
  BY <1>4 DEF Sits
<1>7. Sits(meta \o (n \o e), text, 0) /\ Sits(m \o z, text, 8 + Len(e))
  <2>1. /\ Sits(meta \o (n \o e), text, 0)
        /\ Sits(m \o z, text, 0 + Len(meta \o (n \o e)))
    BY <1>5, <1>6, SitsConcat
  <2>2. 0 + Len(meta \o (n \o e)) = 8 + Len(e)
    BY <1>5
  <2> QED
    BY <2>1, <2>2
<1>8. Sits(meta, text, 0) /\ Sits(n \o e, text, 7)
  <2>1. Sits(meta, text, 0) /\ Sits(n \o e, text, 0 + Len(meta))
    BY <1>1, <1>5, <1>7, SitsConcat
  <2> QED
    BY <1>1, <2>1
<1>9. Sits(n, text, 7) /\ Sits(e, text, 8)
  <2>1. Sits(n, text, 7) /\ Sits(e, text, 7 + Len(n))
    BY <1>2, <1>3, <1>8, SitsConcat
  <2> QED
    BY <1>3, <2>1
<1> DEFINE k == 8 + Len(e)
<1>10. k \in Nat
  BY <1>5
<1> HIDE DEF k
<1>11. Sits(m, text, k) /\ Sits(z, text, k + 1)
  <2>1. Sits(m, text, k) /\ Sits(z, text, k + Len(m))
    BY <1>2, <1>3, <1>7, <1>10, SitsConcat DEF k
  <2> QED
    BY <1>3, <2>1
<1>12. \A j \in 1..7 : text[j] = meta[j]
  BY <1>1, <1>8 DEF Sits
<1>13. text[8] = Len(EntityCodes(w)) /\ text[k + 1] = Len(ZoneCodes(w))
  <2>1. text[7 + 1] = n[1] /\ text[k + 1] = m[1]
    BY <1>3, <1>9, <1>11 DEF Sits
  <2> QED
    BY <1>3, <2>1
<1> QED
  BY <1>9, <1>10, <1>11, <1>12, <1>13 DEF meta, e, z, k

LEMMA ListedMapsAgree ==
  ASSUME NEW S, NEW A, NEW B, NEW f \in [A -> S], NEW g \in [B -> S], NEW n,
         NEW a \in [1..n -> A], \A x \in A : \E i \in 1..n : a[i] = x,
         NEW b \in [1..n -> B], \A x \in B : \E i \in 1..n : b[i] = x,
         \A i \in 1..n : a[i] = b[i] /\ f[a[i]] = g[b[i]]
  PROVE  f = g
<1>1. A = B
  <2>1. \A x \in A : x \in B
    OBVIOUS
  <2>2. \A x \in B : x \in A
    OBVIOUS
  <2> QED
    BY <2>1, <2>2
<1>2. \A x \in A : f[x] = g[x]
  OBVIOUS
<1> QED
  BY <1>1, <1>2

\* compute_canonical_hash misses nothing of a world.
LEMMA HashIsInjective ==
  ASSUME NEW w, Hashable(w), NEW v, Hashable(v), CanonicalHash(w) = CanonicalHash(v)
  PROVE  w = v
<1> DEFINE text == CanonicalHash(w)
           ew == EntityCodes(w)
           ev == EntityCodes(v)
           zw == ZoneCodes(w)
           zv == ZoneCodes(v)
           iw == Ascending(DOMAIN w.entities)
           iv == Ascending(DOMAIN v.entities)
           yw == Ascending(DOMAIN w.zones)
           yv == Ascending(DOMAIN v.zones)
           n == Len(ew)
           m == Len(zw)
           k == 8 + Len(FlattenSeq(ew))
<1>1. /\ \A j \in 1..7 : text[j] = WriteMeta(w)[j]
      /\ text[8] = Len(ew) /\ Sits(FlattenSeq(ew), text, 8)
      /\ k \in Nat /\ text[k + 1] = Len(zw) /\ Sits(FlattenSeq(zw), text, k + 1)
  BY HashParts
<1>2. /\ \A j \in 1..7 : text[j] = WriteMeta(v)[j]
      /\ text[8] = Len(ev) /\ Sits(FlattenSeq(ev), text, 8)
      /\ text[8 + Len(FlattenSeq(ev)) + 1] = Len(zv)
      /\ Sits(FlattenSeq(zv), text, 8 + Len(FlattenSeq(ev)) + 1)
  BY HashParts
<1>3. /\ n \in Nat /\ iw \in [1..n -> DOMAIN w.entities]
      /\ \A id \in DOMAIN w.entities : \E i \in 1..n : iw[i] = id
      /\ \A i \in 1..n : iw[i] \in Nat /\ w.entities[iw[i]] \in Entity
      /\ ew \in Seq(Seq(Nat)) /\ \A i \in 1..n : ew[i] = WriteEntity(iw[i], w.entities[iw[i]])
  BY EntitiesCoded
<1>4. n = Len(ev)
  BY <1>1, <1>2
<1>5. /\ iv \in [1..n -> DOMAIN v.entities]
      /\ \A id \in DOMAIN v.entities : \E i \in 1..n : iv[i] = id
      /\ \A i \in 1..n : iv[i] \in Nat /\ v.entities[iv[i]] \in Entity
      /\ ev \in Seq(Seq(Nat)) /\ \A i \in 1..n : ev[i] = WriteEntity(iv[i], v.entities[iv[i]])
  BY <1>4, EntitiesCoded
<1>6. /\ m \in Nat /\ yw \in [1..m -> DOMAIN w.zones]
      /\ \A z \in DOMAIN w.zones : \E i \in 1..m : yw[i] = z
      /\ \A i \in 1..m : yw[i] \in Nat /\ w.zones[yw[i]] \in Zone
      /\ zw \in Seq(Seq(Nat)) /\ \A i \in 1..m : zw[i] = WriteZone(yw[i], w.zones[yw[i]])
  BY ZonesCoded
<1>7. w.entities \in [DOMAIN w.entities -> Entity] /\ v.entities \in [DOMAIN v.entities -> Entity]
      /\ w.zones \in [DOMAIN w.zones -> Zone] /\ v.zones \in [DOMAIN v.zones -> Zone]
      /\ Shape(w) /\ Shape(v)
  BY WorldShape DEF Hashable, WorldInv, WorldFrom, IsWorld
<1>8. Len(zv) \in Nat /\ zv \in Seq(Seq(Nat))
  BY ZonesCoded
<1> HIDE DEF text, ew, ev, zw, zv, iw, iv, yw, yv, n, m
<1>9. ASSUME NEW i \in 1..n, NEW o \in Nat, Sits(ew[i], text, o), Sits(ev[i], text, o)
      PROVE  iw[i] = iv[i] /\ w.entities[iw[i]] = v.entities[iv[i]] /\ Len(ew[i]) = Len(ev[i])
  <2>1. iw[i] = iv[i] /\ w.entities[iw[i]] = v.entities[iv[i]]
    <3> DEFINE p == iw[i]
               q == iv[i]
               e == w.entities[p]
               f == v.entities[q]
    <3>1. /\ p \in Nat /\ q \in Nat /\ e \in Entity /\ f \in Entity
          /\ Sits(WriteEntity(p, e), text, o) /\ Sits(WriteEntity(q, f), text, o)
      BY <1>3, <1>5, <1>9
    <3> HIDE DEF p, q, e, f
    <3>2. p = q /\ e = f
      BY <3>1, EntityRead
    <3> QED
      BY <3>2 DEF p, q, e, f
  <2> QED
    BY <1>3, <1>5, <2>1
<1>10. /\ Len(FlattenSeq(ew)) = Len(FlattenSeq(ev))
       /\ \A i \in 1..n : \E o \in Nat : Sits(ew[i], text, o) /\ Sits(ev[i], text, o)
  <2>1. Len(ew) = Len(ev) /\ 8 \in Nat
    BY <1>4 DEF n
  <2>2. \A i \in 1..Len(ew) : \A o \in Nat :
           Sits(ew[i], text, o) /\ Sits(ev[i], text, o) => Len(ew[i]) = Len(ev[i])
    BY <1>9 DEF n
  <2> QED
    BY <1>1, <1>2, <1>3, <1>5, <2>1, <2>2, ReadInStep DEF n
<1>11. \A i \in 1..n : iw[i] = iv[i] /\ w.entities[iw[i]] = v.entities[iv[i]]
  BY <1>9, <1>10
<1>12. w.entities = v.entities
  <2> DEFINE A == DOMAIN w.entities
             B == DOMAIN v.entities
             f == w.entities
             g == v.entities
  <2>1. /\ f \in [A -> Entity] /\ g \in [B -> Entity]
        /\ iw \in [1..n -> A] /\ \A x \in A : \E i \in 1..n : iw[i] = x
        /\ iv \in [1..n -> B] /\ \A x \in B : \E i \in 1..n : iv[i] = x
        /\ \A i \in 1..n : iw[i] = iv[i] /\ f[iw[i]] = g[iv[i]]
    BY <1>3, <1>5, <1>7, <1>11
  <2> HIDE DEF A, B, f, g
  <2>2. f = g
    BY <2>1, ListedMapsAgree
  <2> QED
    BY <2>2 DEF f, g
<1>13. text[k + 1] = Len(zv) /\ Sits(FlattenSeq(zv), text, k + 1)
  <2>1. k = 8 + Len(FlattenSeq(ev))
    BY <1>10
  <2> HIDE DEF k
  <2> QED
    BY <1>2, <2>1
<1> HIDE DEF k
<1>14. m = Len(zv)
  BY <1>1, <1>13 DEF m
<1>15. /\ yv \in [1..m -> DOMAIN v.zones]
       /\ \A z \in DOMAIN v.zones : \E i \in 1..m : yv[i] = z
       /\ \A i \in 1..m : yv[i] \in Nat /\ v.zones[yv[i]] \in Zone
       /\ \A i \in 1..m : zv[i] = WriteZone(yv[i], v.zones[yv[i]])
  BY <1>14, ZonesCoded DEF zv, yv
<1>16. ASSUME NEW i \in 1..m, NEW o \in Nat, Sits(zw[i], text, o), Sits(zv[i], text, o)
       PROVE  yw[i] = yv[i] /\ w.zones[yw[i]] = v.zones[yv[i]] /\ Len(zw[i]) = Len(zv[i])
  <2>1. yw[i] = yv[i] /\ w.zones[yw[i]] = v.zones[yv[i]]
    <3> DEFINE p == yw[i]
               q == yv[i]
               a == w.zones[p]
               b == v.zones[q]
    <3>1. /\ p \in Nat /\ q \in Nat /\ a \in Zone /\ b \in Zone
          /\ Sits(WriteZone(p, a), text, o) /\ Sits(WriteZone(q, b), text, o)
      BY <1>6, <1>15, <1>16
    <3> HIDE DEF p, q, a, b
    <3>2. p = q /\ a = b
      BY <3>1, ZoneRead
    <3> QED
      BY <3>2 DEF p, q, a, b
  <2> QED
    BY <1>6, <1>15, <2>1
<1>17. \A i \in 1..m : \E o \in Nat : Sits(zw[i], text, o) /\ Sits(zv[i], text, o)
  <2>1. Len(zw) = Len(zv) /\ k + 1 \in Nat
    BY <1>1, <1>14 DEF m
  <2>2. \A i \in 1..Len(zw) : \A o \in Nat :
           Sits(zw[i], text, o) /\ Sits(zv[i], text, o) => Len(zw[i]) = Len(zv[i])
    BY <1>16 DEF m
  <2> QED
    BY <1>1, <1>6, <1>8, <1>13, <2>1, <2>2, ReadInStep DEF m
<1>18. \A i \in 1..m : yw[i] = yv[i] /\ w.zones[yw[i]] = v.zones[yv[i]]
  BY <1>16, <1>17
<1>19. w.zones = v.zones
  <2> DEFINE A == DOMAIN w.zones
             B == DOMAIN v.zones
             f == w.zones
             g == v.zones
  <2>1. /\ f \in [A -> Zone] /\ g \in [B -> Zone]
        /\ yw \in [1..m -> A] /\ \A x \in A : \E i \in 1..m : yw[i] = x
        /\ yv \in [1..m -> B] /\ \A x \in B : \E i \in 1..m : yv[i] = x
        /\ \A i \in 1..m : yw[i] = yv[i] /\ f[yw[i]] = g[yv[i]]
    BY <1>6, <1>7, <1>15, <1>18
  <2> HIDE DEF A, B, f, g
  <2>2. f = g
    BY <2>1, ListedMapsAgree
  <2> QED
    BY <2>2 DEF f, g
<1>20. /\ w.seed = v.seed /\ w.metaTick = v.metaTick /\ w.snapTick = v.snapTick
       /\ w.cursor = v.cursor /\ w.tick = v.tick /\ w.rng = v.rng /\ w.nextId = v.nextId
  <2>1. \A j \in 1..7 : WriteMeta(w)[j] = WriteMeta(v)[j]
    BY <1>1, <1>2
  <2>2. /\ WriteMeta(w)[1] = WriteMeta(v)[1] /\ WriteMeta(w)[2] = WriteMeta(v)[2]
        /\ WriteMeta(w)[3] = WriteMeta(v)[3] /\ WriteMeta(w)[4] = WriteMeta(v)[4]
        /\ WriteMeta(w)[5] = WriteMeta(v)[5] /\ WriteMeta(w)[6] = WriteMeta(v)[6]
        /\ WriteMeta(w)[7] = WriteMeta(v)[7]
    BY <2>1
  <2> QED
    BY <2>2 DEF WriteMeta
<1> QED
  BY <1>7, <1>12, <1>19, <1>20 DEF Shape

-----------------------------------------------------------------------------
(***************************************************************************)
(* The world of a run stays one that can be read back, and the last        *)
(* checkpoint is of the world the run ends in.                             *)
(***************************************************************************)
Healthy(s) ==
  EngineInv(s) /\ \E log \in Seq(KernelEvent) : Logged(s.world, log) /\ Closed(s.world, log)

LEMMA OutcomeIsHealthy ==
  ASSUME NoneIsNoWorld, NEW s, Healthy(s), NEW cmd \in Command
  PROVE  Healthy(Outcome(s, cmd).sim)
<1>1. PICK log \in Seq(KernelEvent) : Logged(s.world, log) /\ Closed(s.world, log)
  BY DEF Healthy
<1>2. EngineInv(s) /\ Alike(s.world, s.world)
  BY DEF Healthy, Alike
<1> DEFINE x == Outcome(s, cmd)
<1>3. \/ ~x.ok /\ x.sim = s
      \/ x.ok /\ Steps(log, s.world, s.world, x, x) /\ x.events # << >>
  BY <1>1, <1>2, OutcomeBoth
<1> HIDE DEF x
<1>4. CASE x.sim = s
  BY <1>4 DEF x
<1>5. CASE Steps(log, s.world, s.world, x, x)
  <2>1. /\ EngineInv(x.sim) /\ x.events \in Seq(KernelEvent)
        /\ Logged(x.sim.world, log \o x.events) /\ Closed(x.sim.world, log \o x.events)
    BY <1>5 DEF Steps
  <2>2. log \o x.events \in Seq(KernelEvent)
    BY <2>1, ConcatProperties
  <2> QED
    BY <2>1, <2>2 DEF Healthy, x
<1> QED
  BY <1>3, <1>4, <1>5

LEMMA CreatedIsHealthy ==
  ASSUME NoneIsNoWorld
  PROVE  Healthy(Outcome(NewEngine, [op |-> "CreateWorld", seed |-> Seed]).sim)
<1> DEFINE cmd == [op |-> "CreateWorld", seed |-> Seed]
           x == Outcome(NewEngine, cmd)
<1>1. cmd \in Command
  BY RunAssumption DEF Command
<1>2. x.ok
  <2>1. NewEngine.world = None /\ cmd.op = "CreateWorld"
    BY DEF NewEngine
  <2>2. x = CmdCreateWorld(NewEngine, cmd.seed)
    BY <2>1 DEF Outcome
  <2> HIDE DEF x
  <2> QED
    BY <2>1, <2>2 DEF CmdCreateWorld, Done
<1> HIDE DEF cmd
<1>3. /\ EngineInv(x.sim) /\ x.events \in Seq(KernelEvent)
      /\ Logged(x.sim.world, x.events) /\ Closed(x.sim.world, x.events)
  BY <1>1, <1>2, WorldIsCreated
<1> QED
  BY <1>3 DEF Healthy, cmd

LEMMA HealthyIsHashable ==
  ASSUME NEW s, Healthy(s)
  PROVE  Hashable(s.world)
BY RngAssumption DEF Healthy, EngineInv, Hashable, Draws

\* The last of the checkpoints is of this world.
LastIs(list, w) ==
  /\ \E S : list \in Seq(S)
  /\ TotalTicks > 0 => Len(list) > 0 /\ list[Len(list)].hash = CanonicalHash(w)

Hashing ==
  pc = "running" => /\ Healthy(sim) /\ \E S : checkpoints \in Seq(S)
                    /\ tick = TotalTicks => LastIs(checkpoints, sim.world)

ResultsHashed ==
  \A i \in 1..Len(results) :
    Hashable(results[i].world) /\ LastIs(results[i].checkpoints, results[i].world)

HashInv == ReachInv /\ Hashing /\ ResultsHashed

LEMMA CheckpointAdded ==
  ASSUME NEW list, NEW S, list \in Seq(S), NEW w, NEW longer, longer = Append(list, Checkpoint(w))
  PROVE  LastIs(longer, w)
<1> DEFINE c == Checkpoint(w)
           T == S \cup {c}
<1>1. list \in Seq(T) /\ c \in T
  BY SeqMonotonic
<1> HIDE DEF T
<1>2. c.hash = CanonicalHash(w)
  BY DEF Checkpoint
<1> HIDE DEF c
<1>3. longer \in Seq(T) /\ Len(longer) = Len(list) + 1 /\ longer[Len(list) + 1] = c /\ Len(list) \in Nat
  BY <1>1, AppendProperties, LenProperties DEF c
<1>4. Len(longer) > 0 /\ longer[Len(longer)] = c
  BY <1>3
<1> QED
  BY <1>2, <1>3, <1>4 DEF LastIs

LEMMA HashInvInit ==
  ASSUME DetInit
  PROVE  HashInv
<1>1. pc = "idle" /\ 1..Len(results) = {}
  BY DEF DetInit
<1> QED
  BY <1>1, ReachInvInit DEF HashInv, Hashing, ResultsHashed

LEMMA HashInvNext ==
  ASSUME NoneIsNoWorld, HashInv, [DetNext]_detVars
  PROVE  HashInv'
<1>1. ReachInv /\ Hashing /\ ResultsHashed /\ ReachInv'
  BY ReachInvNext DEF HashInv
<1>2. FeedInv /\ TotalTicks \in Nat
  BY <1>1, RunAssumption DEF ReachInv
<1>3. CASE BeginRun
  <2>1. /\ sim' = Outcome(NewEngine, [op |-> "CreateWorld", seed |-> Seed]).sim
        /\ tick' = 0 /\ checkpoints' = << >> /\ results' = results
    BY <1>3 DEF BeginRun
  <2>2. Healthy(sim')
    BY <2>1, CreatedIsHealthy
  <2>3. checkpoints' \in Seq({})
    BY <2>1
  <2>4. tick' = TotalTicks => LastIs(checkpoints', sim.world')
    BY <1>2, <2>1, <2>3 DEF LastIs
  <2> QED
    BY <1>1, <2>1, <2>2, <2>3, <2>4 DEF HashInv, Hashing, ResultsHashed
<1>4. CASE FeedInput
  <2>1. /\ pc = "running" /\ tick < TotalTicks /\ InputDue
        /\ tick' = tick /\ checkpoints' = checkpoints /\ results' = results
        /\ \/ sim' = Outcome(sim, inputs[Sorted(inputs)[next]].command).sim
           \/ pc' = "panicked"
    BY <1>4 DEF FeedInput
  <2>2. Healthy(sim) /\ \E S : checkpoints \in Seq(S)
    BY <1>1, <2>1 DEF Hashing
  <2>3. ~(tick' = TotalTicks)
    <3>1. tick \in 0..TotalTicks
      BY <1>2, <2>1 DEF FeedInv, Feeding
    <3> QED
      BY <1>2, <2>1, <3>1
  <2>4. CASE pc' = "panicked"
    BY <1>1, <2>1, <2>4 DEF HashInv, Hashing, ResultsHashed
  <2>5. CASE sim' = Outcome(sim, inputs[Sorted(inputs)[next]].command).sim
    <3>1. inputs[Sorted(inputs)[next]].command \in Command
      <4>1. inputs \in Seq(Input) /\ Len(inputs) \in Nat
        BY <1>2 DEF FeedInv
      <4>2. next \in 1..Len(inputs)
        BY <1>2, <2>1, <4>1 DEF FeedInv, Feeding, InputDue
      <4>3. Sorted(inputs)[next] \in 1..Len(inputs)
        BY <4>1, <4>2, SortedLists
      <4> QED
        BY <4>1, <4>3, InputTypes
    <3>2. Healthy(sim')
      BY <2>2, <2>5, <3>1, OutcomeIsHealthy
    <3> QED
      BY <1>1, <2>1, <2>2, <2>3, <3>2 DEF HashInv, Hashing, ResultsHashed
  <2> QED
    BY <2>1, <2>4, <2>5
<1>5. CASE RunTick
  <2>1. /\ pc = "running" /\ results' = results /\ tick' = tick + 1
        /\ sim' = Outcome(sim, [op |-> "Tick"]).sim
        /\ checkpoints' = IF CheckpointDue THEN Append(checkpoints, Checkpoint(sim'.world))
                                           ELSE checkpoints
    BY <1>5 DEF RunTick
  <2>2. PICK S : Healthy(sim) /\ checkpoints \in Seq(S)
    BY <1>1, <2>1 DEF Hashing
  <2>3. Healthy(sim')
    <3>1. [op |-> "Tick"] \in Command
      BY DEF Command
    <3> QED
      BY <2>1, <2>2, <3>1, OutcomeIsHealthy
  <2>4. CheckpointDue => LastIs(checkpoints', sim'.world)
    BY <2>1, <2>2, CheckpointAdded
  <2>5. \E T : checkpoints' \in Seq(T)
    <3>1. CASE CheckpointDue
      BY <2>4, <3>1 DEF LastIs
    <3>2. CASE ~CheckpointDue
      BY <2>1, <2>2, <3>2
    <3> QED
      BY <3>1, <3>2
  <2>6. tick' = TotalTicks => CheckpointDue
    BY <2>1 DEF CheckpointDue
  <2> QED
    BY <1>1, <2>1, <2>3, <2>4, <2>5, <2>6 DEF HashInv, Hashing, ResultsHashed
<1>6. CASE EndRun
  <2> DEFINE r == [inputs |-> inputs, fed |-> fed, checkpoints |-> checkpoints, world |-> sim.world]
  <2>1. pc = "running" /\ tick = TotalTicks /\ results' = Append(results, r) /\ pc' = "idle"
    BY <1>6 DEF EndRun
  <2>2. Hashable(sim.world) /\ LastIs(checkpoints, sim.world)
    BY <1>1, <2>1, HealthyIsHashable DEF Hashing
  <2>3. r.checkpoints = checkpoints /\ r.world = sim.world
    OBVIOUS
  <2> HIDE DEF r
  <2>4. \A i \in 1..Len(results') :
             results'[i] = r \/ (i \in 1..Len(results) /\ results'[i] = results[i])
    BY <1>2, <2>1, OneMoreResult DEF FeedInv
  <2>5. ResultsHashed'
    BY <1>1, <2>2, <2>3, <2>4 DEF ResultsHashed
  <2> QED
    BY <1>1, <2>1, <2>5 DEF HashInv, Hashing
<1>7. CASE UNCHANGED detVars
  BY <1>1, <1>7 DEF detVars, runVars, HashInv, Hashing, ResultsHashed
<1> QED
  BY <1>3, <1>4, <1>5, <1>6, <1>7 DEF DetNext

LEMMA HashInvAlways ==
  ASSUME NoneIsNoWorld
  PROVE  DetSpec => []HashInv
BY HashInvInit, HashInvNext, PTL DEF DetSpec

LEMMA OkIsEqual ==
  ASSUME NEW a, NEW b, Verify(a, b).ok
  PROVE  Len(a) = Len(b) /\ \A i \in DOMAIN a : a[i] = b[i]
<1>1. ASSUME NEW t PROVE ~Differ(t).ok
  BY DEF Differ
<1>2. Len(a) = Len(b)
  BY <1>1 DEF Verify
<1>3. {i \in DOMAIN a : a[i] # b[i]} = {}
  BY <1>1, <1>2 DEF Verify
<1> QED
  BY <1>2, <1>3

(***************************************************************************)
(* Two runs that verify_determinism finds equal ended in the same world.   *)
(***************************************************************************)
THEOREM EqualRunsEndAlike ==
  ASSUME NoneIsNoWorld
  PROVE  DetSpec => []EqualVerdictEqualWorld
<1>1. HashInv => EqualVerdictEqualWorld
  <2> SUFFICES ASSUME HashInv, Both, Verdict.ok
               PROVE  results[1].world = results[2].world
    BY DEF EqualVerdictEqualWorld
  <2> DEFINE a == results[1].checkpoints
             b == results[2].checkpoints
             w == results[1].world
             v == results[2].world
  <2>1. 1 \in 1..Len(results) /\ 2 \in 1..Len(results)
    BY DEF Both
  <2>2. /\ Hashable(w) /\ LastIs(a, w)
        /\ Hashable(v) /\ LastIs(b, v)
    BY <2>1 DEF HashInv, ResultsHashed
  <2>3. Len(a) = Len(b) /\ \A i \in DOMAIN a : a[i] = b[i]
    BY OkIsEqual DEF Verdict
  <2>4. CASE TotalTicks > 0
    <3> HIDE DEF a, b, w, v
    <3>1. PICK S : a \in Seq(S)
      BY <2>2 DEF LastIs
    <3>2. /\ Len(a) > 0 /\ a[Len(a)].hash = CanonicalHash(w)
          /\ b[Len(b)].hash = CanonicalHash(v)
      BY <2>2, <2>4 DEF LastIs
    <3>3. Len(a) \in DOMAIN a
      BY <3>1, <3>2
    <3>4. CanonicalHash(w) = CanonicalHash(v)
      BY <2>3, <3>2, <3>3
    <3> QED
      BY <2>2, <3>4, HashIsInjective DEF w, v
  <2>5. CASE ~(TotalTicks > 0)
    <3>1. StartState.tick = TotalTicks
      BY <2>5, RunAssumption DEF StartState
    <3>2. ASSUME NEW i \in 1..Len(results) PROVE results[i].world = StartState.sim.world
      <4>1. PICK st : EndOf(results[i], st)
        BY DEF HashInv, ReachInv, ResultsReached
      <4>2. st = StartState
        BY <3>1, <4>1, StartIsReached, RunsAreDetermined DEF EndOf
      <4> QED
        BY <4>1, <4>2 DEF EndOf
    <3> QED
      BY <2>1, <3>2
  <2> QED
    BY <2>4, <2>5
<1> QED
  BY <1>1, HashInvAlways, PTL

=============================================================================
