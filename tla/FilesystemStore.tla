-------------------------- MODULE FilesystemStore ---------------------------
(***************************************************************************)
(* The directory of one world (sy_infra, store/filesystem.rs): does it     *)
(* exist, and which snapshot.json and meta.json does it hold.  Both files  *)
(* are written to a temporary name, synced and renamed, so a reader finds  *)
(* the old content or the new one and a failed save changes neither.       *)
(*                                                                         *)
(* A snapshot is the serialised World; the parts kept of it are the        *)
(* history of commands it is the result of, its tick and its recovery      *)
(* cursor (WorldMeta.last_event_id).  meta.json mirrors tick and cursor.   *)
(***************************************************************************)
EXTENDS Integers, Sequences

CONSTANTS
  NoFile,
  DirectorySyncFails   \* can the sync of the directory after a rename fail

VARIABLES
  dir,    \* does the directory exist
  snap,   \* what snapshot.json holds
  meta,   \* what meta.json holds
  kept    \* the contents of the two files that a power cut may leave

storeVars == <<dir, snap, meta, kept>>

World == [hist : Seq(Nat), tick : Nat, cursor : Nat]
Meta  == [tick : Nat, cursor : Nat]

Contents == [snap : World \cup {NoFile}, meta : Meta \cup {NoFile}]

ASSUME DirectoryAssumption == DirectorySyncFails \in BOOLEAN
ASSUME NoFileAssumption == NoFile \notin World /\ NoFile \notin Meta

MetaOf(w) == [tick |-> w.tick, cursor |-> w.cursor]

StorageStatus ==
  CASE ~dir                                       -> "Absent"
    [] dir /\ snap # NoFile /\ meta # NoFile      -> "Complete"
    [] dir /\ (snap = NoFile \/ meta = NoFile)    -> "Incomplete"

\* list_worlds shows a directory when it holds a meta.json.
Listed == meta # NoFile

(***************************************************************************)
(* After the rename the directory is opened and synced, and a failure of   *)
(* either is ignored: the save succeeds, but a power cut may still undo    *)
(* this rename and any other since the last sync that worked.              *)
(***************************************************************************)
DirectorySynced == kept' = {[snap |-> snap', meta |-> meta']}

SaveSnapshot(w) ==
  /\ dir' = TRUE
  /\ snap' = w
  /\ UNCHANGED meta
  /\ \/ DirectorySynced
     \/ DirectorySyncFails /\ kept' = kept \cup {[d EXCEPT !.snap = w] : d \in kept}

SaveMeta(w) ==
  /\ dir' = TRUE
  /\ meta' = MetaOf(w)
  /\ UNCHANGED snap
  /\ \/ DirectorySynced
     \/ /\ DirectorySyncFails
        /\ kept' = kept \cup {[d EXCEPT !.meta = MetaOf(w)] : d \in kept}

\* Either save may fail after it made the directory, before the rename.
SaveFails ==
  /\ dir' \in {dir, TRUE}
  /\ UNCHANGED <<snap, meta, kept>>

\* A power cut: some of the renames the directory has not been synced since
\* are undone.
RevertRenames ==
  /\ \E d \in kept : snap' = d.snap /\ meta' = d.meta /\ kept' = {d}
  /\ UNCHANGED dir

=============================================================================
