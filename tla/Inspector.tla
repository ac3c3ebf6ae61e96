----------------------------- MODULE Inspector ------------------------------
(***************************************************************************)
(* The inspection tool (bin/sy_cli, main.rs) beside a process that writes  *)
(* the same world.  Nothing keeps the two apart: the tool opens the log,   *)
(* reads snapshot.json, meta.json and the log once more, and `status`      *)
(* opens the log yet again, each at a moment of its own.  It changes       *)
(* nothing.                                                                *)
(*                                                                         *)
(* status, dump, entity, entities and zones all load the world the same    *)
(* way and print parts of it: the query "world".  events prints the end of *)
(* the log: the query "events".                                            *)
(***************************************************************************)
EXTENDS PersistentSimulation

CONSTANTS
  FromTicks,   \* the --from-tick of an events query; 0 stands for none
  Counts       \* its --count

VARIABLES
  at,      \* the tool's next step; "none": it is not running
  query,   \* what it was asked for
  seen,    \* what it has read
  shown,   \* what it has to print
  began    \* ghost: what was acknowledged when it began, and has the writer
           \* left everything alone since

toolVars == <<at, query, seen, shown, began>>
allVars == <<vars, toolVars>>

ASSUME InspectorAssumption == FromTicks \subseteq Nat /\ Counts \subseteq Nat

Unread == [next |-> 1, torn |-> FALSE, snap |-> NoFile, meta |-> NoFile]

\* No answer (yet), which is also what a refused inspection has to show.
NoAnswer ==
  [world |-> NoWorld, last |-> 0, count |-> 0,
   events |-> << >>, from |-> 0, limit |-> 0]

IInit ==
  /\ Init
  /\ at = "none" /\ query = "world"
  /\ seen = Unread /\ shown = NoAnswer
  /\ began = [acked |-> {}, quiet |-> TRUE]

\* Recovery with the snapshot and the meta that the tool has read.
Seen == INSTANCE PersistentSimulation WITH snap <- seen.snap, meta <- seen.meta

-----------------------------------------------------------------------------
Ask ==
  /\ at = "none"
  /\ query' \in {"world", "events"}
  /\ at' = "open"
  /\ began' = [acked |-> acked, quiet |-> TRUE]
  /\ UNCHANGED <<vars, seen, shown>>

(***************************************************************************)
(* open_read_only scans the log, repairs nothing, and remembers whether it *)
(* met an invalid record.                                                  *)
(***************************************************************************)
OpenReadOnly ==
  /\ at = "open"
  /\ \E f \in Visible :
       seen' = [Unread EXCEPT !.next = LastId(Valid(f)) + 1,
                              !.torn = ValidLen(f) < Len(f)]
  /\ at' = IF query = "events" THEN "list" ELSE "snapshot"
  /\ UNCHANGED <<vars, query, shown, began>>

ReadSnapshot ==
  /\ at = "snapshot"
  /\ seen' = [seen EXCEPT !.snap = snap]
  /\ at' = IF snap = NoFile THEN "refused" ELSE "meta"
  /\ UNCHANGED <<vars, query, shown, began>>

ReadMeta ==
  /\ at = "meta"
  /\ seen' = [seen EXCEPT !.meta = meta]
  /\ at' = IF Seen!MetaAcceptable' THEN "replay" ELSE "refused"
  /\ UNCHANGED <<vars, query, shown, began>>

(***************************************************************************)
(* read_all_valid refuses if the open met an invalid record, and stops     *)
(* without a word at one that it meets itself.                             *)
(***************************************************************************)
ReadAndReplay ==
  /\ at = "replay"
  /\ \E f \in Visible :
       LET events == Valid(f)
       IN  IF ~seen.torn /\ Seen!Recoverable(events, seen.next - 1)
             THEN /\ shown' = [NoAnswer EXCEPT !.world = Seen!Replayed(events),
                                               !.last  = LastId(events)]
                  /\ at' = "loaded"
             ELSE at' = "refused" /\ UNCHANGED shown
  /\ UNCHANGED <<vars, query, seen, began>>

\* Mutant of CountEvents: records are counted instead of events.
CountRecords ==
  /\ at = "loaded"
  /\ \E f \in Visible :
       shown' = [shown EXCEPT !.count =
                   Len(SelectSeq(Valid(f), LAMBDA e : e.rem = 0))]
  /\ at' = "counted"
  /\ UNCHANGED <<vars, query, seen, began>>

(***************************************************************************)
(* `status` opens the log anew for the number of its events: that of the   *)
(* valid records, whatever follows them, or 0 when the open fails.         *)
(***************************************************************************)
CountEvents ==
  /\ at = "loaded"
  /\ \/ \E f \in Visible : shown' = [shown EXCEPT !.count = ValidLen(f)]
     \/ shown' = [shown EXCEPT !.count = 0]
  /\ at' = "counted"
  /\ UNCHANGED <<vars, query, seen, began>>

\* Mutant of LastOf: the first ones instead of the last ones.
FirstOf(events, n) == SubSeq(events, 1, IF n < Len(events) THEN n ELSE Len(events))

LastOf(events, n) ==
  SubSeq(events, IF n < Len(events) THEN Len(events) - n + 1 ELSE 1, Len(events))

\* The events of one tick and later: what the filter of cmd_events keeps.
FromTick(events, from) ==
  LET passed[i \in 0..Len(events)] ==
        IF i = 0 THEN << >>
        ELSE IF events[i].tick >= from THEN Append(passed[i - 1], events[i])
        ELSE passed[i - 1]
  IN  passed[Len(events)]

ListEvents ==
  /\ at = "list"
  /\ IF seen.torn
       THEN at' = "refused" /\ UNCHANGED shown
       ELSE /\ \E f \in Visible, from \in FromTicks, n \in Counts :
                 shown' = [NoAnswer EXCEPT
                   !.events = LastOf(FromTick(Valid(f), from), n),
                   !.from = from, !.limit = n]
            /\ at' = "listed"
  /\ UNCHANGED <<vars, query, seen, began>>

\* Mutant of Dumped: the cursor stays the snapshot's.
DumpedAsLoaded(w, last) == w

\* `dump` moves the cursor to the last event it replayed, if there was one.
Dumped(w, last) == IF last > w.cursor THEN [w EXCEPT !.cursor = last] ELSE w

\* The tool prints and ends, or ends because a read failed.
Leave ==
  /\ at # "none"
  /\ at' = "none" /\ query' = "world"
  /\ seen' = Unread /\ shown' = NoAnswer
  /\ began' = [acked |-> {}, quiet |-> TRUE]
  /\ UNCHANGED vars

Tool ==
  \/ Ask \/ OpenReadOnly \/ ReadSnapshot \/ ReadMeta \/ ReadAndReplay
  \/ CountEvents \/ ListEvents \/ Leave

Writer ==
  /\ Next
  /\ began' = [began EXCEPT !.quiet = (at = "none")]
  /\ UNCHANGED <<at, query, seen, shown>>

INext == Tool \/ Writer

ISpec == IInit /\ [][INext]_allVars

-----------------------------------------------------------------------------
(***************************************************************************)
(* Properties.                                                             *)
(***************************************************************************)
\* The k first events of the log are those of whole commands, everything
\* acknowledged before the inspection began among them.
Covers(k) ==
  /\ k = 0 \/ Wal[k].rem = 0
  /\ began.acked \subseteq {Wal[i].cmd : i \in 1..k}

\* A printed world is one the writer's log went through: what whole commands
\* produced, none that was acknowledged when the tool was started missing, in
\* whatever order the two processes touched the three files.
ShownWorldHappened ==
  at \in {"loaded", "counted"} =>
    \E k \in 0..Len(Wal) : Covers(k) /\ shown.world.hist = Commands(SubSeq(Wal, 1, k))

\* If the writer does nothing meanwhile, only a world without a snapshot and
\* a log that ends in a piece of a record are refused: the meta that a save
\* is about to write, or that a crash kept it from writing, is not missed.
QuietInspectionAnswers ==
  at = "refused" /\ began.quiet =>
    \/ query = "world" /\ snap = NoFile
    \/ \E f \in Visible : ValidLen(f) < Len(f)

\* The number of events `status` prints beside a world includes the events of
\* that world, although a later open counted them (0: the open failed).
CountCoversWorld ==
  at = "counted" => shown.count = 0 \/ shown.count \in Len(shown.world.hist)..Len(Wal)

Dump == Dumped(shown.world, shown.last)

\* The disk with the dump in the place of snapshot.json, meta.json left as it is.
Restored == INSTANCE PersistentSimulation WITH snap <- Dump

\* A dump is a save.  In the place of snapshot.json it is recovered with the
\* log as it is by then and gives the world of the whole log, whatever an
\* interrupted save did to the meta meanwhile.  It is refused in one case: the
\* writer finished a save of later events since the tool read the log, and
\* that meta.json is still there.
DumpIsASave ==
  at = "loaded" =>
    /\ Restored!Recoverable(Wal, LastId(Wal)) <=>
         (meta = NoFile \/ meta.cursor <= Dump.cursor)
    /\ Restored!Replayed(Wal).hist = Commands(Wal)

\* `events` lists a stretch of the log without gaps, up to the end of a
\* command, with everything acknowledged before it began, and as far back as
\* the limit and the tick it was given allow.
ListingIsATail ==
  at = "listed" =>
    \E k \in 0..Len(Wal) :
      LET first == k - Len(shown.events) + 1
      IN  /\ Covers(k) /\ first >= 1
          /\ shown.events = SubSeq(Wal, first, k)
          /\ \A i \in first..k : Wal[i].tick >= shown.from
          /\ \/ Len(shown.events) = shown.limit
             \/ first = 1
             \/ Wal[first - 1].tick < shown.from

=============================================================================
