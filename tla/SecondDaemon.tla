---------------------------- MODULE SecondDaemon ----------------------------
(***************************************************************************)
(* A second server_d on a world that one already runs.  Nothing keeps it   *)
(* out, and create_simulation opens the log, with its repair, before       *)
(* anything else is looked at: a `create` of an id in use is refused only  *)
(* after that.  This module adds such refused creations to the runtime; it *)
(* leaves out power cuts, which end both processes.                        *)
(***************************************************************************)
EXTENDS PersistentSimulation

VARIABLE
  cut   \* where the second process is about to cut the file: the valid
        \* length its scan found, or nothing

SInit == Init /\ cut = {}

\* The scan of recover met an invalid record: perhaps one that the first
\* process is still writing.
OtherScans ==
  /\ cut = {}
  /\ \E f \in Visible : ValidLen(f) < Len(f) /\ cut' = {ValidLen(f)}
  /\ UNCHANGED vars

(***************************************************************************)
(* The first process does not know that the piece it has written of a      *)
(* record is gone: the rest of it, should it still be written, is torn.    *)
(***************************************************************************)
Orphaned ==
  IF buf.begun
    THEN LET first == CHOOSE k \in RecordEnds(buf.recs) \ {0} :
                        \A j \in RecordEnds(buf.recs) \ {0} : k <= j
         IN  [recs |-> <<Torn>> \o SubSeq(buf.recs, first + 1, Len(buf.recs)),
              begun |-> FALSE]
    ELSE buf

\* set_len to that length, whatever the file has become meanwhile; then the
\* creation is refused, because the directory exists.
OtherTruncates ==
  \E n \in cut :
    /\ file' = SubSeq(file, 1, n)
    /\ synced' = IF synced > n THEN n ELSE synced
    /\ buf' = Orphaned
    /\ cut' = {}
    /\ UNCHANGED <<log, storeVars, pc, world, checkpoint, batch, saving, ghostVars>>

\* The second process may also die before its set_len.
OtherDies == cut # {} /\ cut' = {} /\ UNCHANGED vars

SNext ==
  \/ Next /\ UNCHANGED cut
  \/ OtherScans \/ OtherTruncates \/ OtherDies

SSpec == SInit /\ [][SNext]_<<vars, cut>>

=============================================================================
