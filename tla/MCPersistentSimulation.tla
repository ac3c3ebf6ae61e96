----------------------- MODULE MCPersistentSimulation -----------------------
(***************************************************************************)
(* PersistentSimulation on instances small enough to check exhaustively.   *)
(***************************************************************************)
EXTENDS PersistentSimulation

\* One event within the tick (SpawnEntity); a Tick with one system event; a
\* TickN(2) whose ticks have one event each.
MCShapes == {<<0>>, <<1, 1>>, <<1, 2>>}

\* For the instances with more failures: SpawnEntity and TickN(2) only.
MCFewShapes == {<<0>>, <<1, 2>>}

=============================================================================
