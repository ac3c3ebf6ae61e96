---------------------------- MODULE MCInspector -----------------------------
(***************************************************************************)
(* Inspector beside a writer of three commands.                            *)
(***************************************************************************)
EXTENDS Inspector

MCShapes == {<<0>>, <<1, 2>>}

MCFromTicks == {0, 1}

MCCounts == {1, 3}

=============================================================================
