--------------------------- MODULE SnapshotCodec ----------------------------
(***************************************************************************)
(* What a snapshot holds and what decoding one demands (sy_infra,          *)
(* snapshot.rs and the stamping of PersistentSimulation::save_world).  The *)
(* JSON text is not modelled: encode_world writes every field of the world *)
(* and decode_world reads them back, so a snapshot is the stamped world.   *)
(***************************************************************************)
EXTENDS WorldState

\* save_world's stamps on the clone it encodes.
Stamped(w, cursor) ==
  [w EXCEPT !.metaTick = w.tick, !.snapTick = w.tick, !.cursor = cursor]

ValidEntityIds(w) == \A id \in DOMAIN w.entities : 0 < id /\ id < w.nextId

(***************************************************************************)
(* Each zone's index lists, once each, exactly the entities whose position *)
(* is in that zone, and every entity is in a zone that exists.             *)
(***************************************************************************)
ValidZoneIndex(w) ==
  /\ \A id \in DOMAIN w.entities : HasZone(w, w.entities[id].zone)
  /\ \A z \in DOMAIN w.zones :
       LET index == w.zones[z].entities
       IN  /\ \A i, j \in DOMAIN index : index[i] = index[j] => i = j
           /\ {index[i] : i \in DOMAIN index} =
                {id \in DOMAIN w.entities : w.entities[id].zone = z}

ValidSnapshot(w) ==
  /\ w.metaTick = w.tick
  /\ w.snapTick = w.tick
  /\ w.nextId # 0
  /\ ValidEntityIds(w)
  /\ ValidZoneIndex(w)

=============================================================================
