------------------------------- MODULE TaskGroup -------------------------------
(***************************************************************************)
(* What a bounded wait group promises to the code that starts goroutines    *)
(* with it: at most Parallel of them run at a time (0: any number), and the *)
(* caller of Wait goes on only when none of them runs.                      *)
(***************************************************************************)
EXTENDS Naturals, FiniteSets

CONSTANTS Tasks, Parallel

VARIABLES running, joined

Room == Parallel = 0 \/ Cardinality(running) < Parallel

Init == running = {} /\ joined = FALSE

Start(t) ==
  /\ ~joined /\ t \notin running /\ Room
  /\ running' = running \cup {t}
  /\ UNCHANGED joined

Finish(t) ==
  /\ t \in running
  /\ running' = running \ {t}
  /\ UNCHANGED joined

Join == ~joined /\ running = {} /\ joined' = TRUE /\ UNCHANGED running

Renew == joined /\ joined' = FALSE /\ UNCHANGED running

Next == (\E t \in Tasks : Start(t) \/ Finish(t)) \/ Join \/ Renew

Spec == Init /\ [][Next]_<<running, joined>>
===============================================================================
