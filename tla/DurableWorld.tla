---------------------------- MODULE DurableWorld ----------------------------
(***************************************************************************)
(* What the persistent runtime promises to whoever drives one world        *)
(* (docs/DATA_FLOW.md, "Snapshot + WAL Commit Flow"): commands commit one  *)
(* whole command at a time, a command is acknowledged only once it is      *)
(* committed, nothing acknowledged is ever lost, and a process only ever   *)
(* works on a world that committed commands produced.  Files, buffers,     *)
(* snapshots and recovery do not appear.                                   *)
(***************************************************************************)
EXTENDS Integers, Sequences

CONSTANT NoView

VARIABLES
  committed,  \* the durable history: the command of each event, in order
  acked,      \* the commands reported as done
  view        \* the history behind the loaded world, or NoView

dwVars == <<committed, acked, view>>

Happened(history) == {history[i] : i \in DOMAIN history}

Init == committed = << >> /\ acked = {} /\ view = NoView

\* A new command's events become durable, all at once.  The process that
\* issued it may be ending.
Commit ==
  /\ Len(committed') > Len(committed)
  /\ LET c == committed'[Len(committed')]
     IN  /\ c \notin Happened(committed)
         /\ committed' = committed \o [i \in 1..(Len(committed') - Len(committed)) |-> c]
  /\ view' \in {view, NoView}
  /\ UNCHANGED acked

\* The last committed command is reported done: the world now includes it.
Acknowledge ==
  /\ committed # << >>
  /\ acked' = acked \cup {committed[Len(committed)]}
  /\ view' = committed
  /\ UNCHANGED committed

\* A process loads the world.
Load == view' = committed /\ UNCHANGED <<committed, acked>>

Stop == view' = NoView /\ UNCHANGED <<committed, acked>>

\* A power cut may undo commands that nobody was told about, whole commands
\* and from the end.
Lose ==
  /\ view' = NoView
  /\ \E k \in 0..Len(committed) :
       /\ committed' = SubSeq(committed, 1, k)
       /\ acked \subseteq Happened(committed')
       /\ 0 < k /\ k < Len(committed) => committed[k] # committed[k + 1]
  /\ UNCHANGED acked

Next == Commit \/ Acknowledge \/ Load \/ Stop \/ Lose

Spec == Init /\ [][Next]_dwVars

=============================================================================
