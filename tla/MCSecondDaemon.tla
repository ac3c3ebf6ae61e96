--------------------------- MODULE MCSecondDaemon ---------------------------
(***************************************************************************)
(* SecondDaemon with a first process that issues two commands.             *)
(***************************************************************************)
EXTENDS SecondDaemon

MCShapes == {<<0>>, <<1, 2>>}

=============================================================================
