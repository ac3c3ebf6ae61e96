----------------------------- MODULE BatchShape -----------------------------
(***************************************************************************)
(* The ticks of the events of one command, counted from the world's tick   *)
(* before it.  An event's tick is that tick or one more than that of the   *)
(* event before it: Tick emits 1, 1, ..., TickN(2) 1, ..., 2, ..., the     *)
(* other commands 0.  PersistentSimulation assumes this of the commands it *)
(* journals, JournaledSimulation shows it of those the kernel executes.    *)
(***************************************************************************)
EXTENDS Integers, Sequences

IsShape(s) ==
  /\ s \in Seq(Nat)
  /\ s # << >>
  /\ \A i \in DOMAIN s :
       LET before == IF i = 1 THEN 0 ELSE s[i - 1] IN s[i] \in {before, before + 1}

=============================================================================
