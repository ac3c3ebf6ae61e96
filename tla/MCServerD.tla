----------------------------- MODULE MCServerD ------------------------------
(***************************************************************************)
(* ServerD with one entity to spawn and ticks of two events.               *)
(***************************************************************************)
EXTENDS ServerD

MCTickShapes == {<<1, 1>>}

MCShapes == {<<0>>} \cup MCTickShapes

MCTickLimits == {0, 2}

=============================================================================
