--------------------------- MODULE MCReplayedLog ----------------------------
(***************************************************************************)
(* ReplayedLog on two ids, one of them the reserved one, two zones and     *)
(* values below two.                                                       *)
(***************************************************************************)
EXTENDS ReplayedLog

MCZones  == {0, 1}
MCValues == {0, 1}

MCZoneNames == {"Origin", "Mine"}

=============================================================================
