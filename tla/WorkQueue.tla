------------------------------ MODULE WorkQueue ------------------------------
(***************************************************************************)
(* What a pool of threads promises to those who hand it tasks: the tasks   *)
(* are started in the order in which they were handed over, at most        *)
(* Workers of them at a time, each of them once, and each is finished.     *)
(* How the pool finds a thread for a task, and when threads come and go,   *)
(* is left to the implementation.                                          *)
(***************************************************************************)
EXTENDS Naturals, Sequences, FiniteSets

CONSTANTS Task,      \* what may be handed over, once each
          Workers    \* how many tasks may run at the same time

VARIABLES waiting,   \* the tasks that wait for a worker, oldest first
          running,   \* the tasks that have a worker
          finished   \* the tasks that have been run
vars == <<waiting, running, finished>>

Known == {waiting[i] : i \in DOMAIN waiting} \cup running \cup finished

Init == waiting = <<>> /\ running = {} /\ finished = {}

\* The oldest task of the queue q gets a worker.
Begin(q) == /\ q # <<>>
            /\ Cardinality(running) < Workers
            /\ waiting' = Tail(q)
            /\ running' = running \cup {Head(q)}
            /\ UNCHANGED finished

\* A task is handed over; the oldest task may get a worker at once.
Submit(t) == /\ t \notin Known
             /\ \/ Begin(Append(waiting, t))
                \/ waiting' = Append(waiting, t) /\ UNCHANGED <<running, finished>>

Start == Begin(waiting)

Finish(t) == /\ t \in running
             /\ running' = running \ {t}
             /\ finished' = finished \cup {t}
             /\ UNCHANGED waiting

Next == Start \/ \E t \in Task : Submit(t) \/ Finish(t)

SafeSpec == Init /\ [][Next]_vars
Fairness == WF_vars(Start) /\ \A t \in Task : WF_vars(Finish(t))
Spec == SafeSpec /\ Fairness
==============================================================================
