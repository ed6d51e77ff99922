------------------------------ MODULE TaskPool ------------------------------
(***************************************************************************)
(* What a client of Fiber::ThreadPool may rely on, without workers,         *)
(* notifications or resizing: tasks are started in the order they were      *)
(* submitted, each at most once, at most Limit at a time, none once the     *)
(* pool is closing, and the pool is closed only when nothing runs.          *)
(* ThreadPool implements this specification (ThreadPool!ImplementsTaskPool).*)
(***************************************************************************)
EXTENDS Naturals, Sequences, FiniteSets, Queues

CONSTANTS Task,   \* the tasks that may be submitted, each once
          Limit   \* how many may run at the same time

VARIABLES pending,   \* submitted and not started, in order
          running,   \* started and not finished
          finished,  \* finished
          phase      \* "open", "closing" or "closed"

vars == <<pending, running, finished, phase>>

Init == /\ pending = <<>>
        /\ running = {}
        /\ finished = {}
        /\ phase = "open"

Submit(t) == /\ phase = "open"
             /\ t \notin Elements(pending) \cup running \cup finished
             /\ pending' = Append(pending, t)
             /\ UNCHANGED <<running, finished, phase>>

Start == /\ phase = "open"
         /\ pending # <<>>
         /\ Cardinality(running) < Limit
         /\ pending' = Tail(pending)
         /\ running' = running \cup {Head(pending)}
         /\ UNCHANGED <<finished, phase>>

Finish(t) == /\ t \in running
             /\ running' = running \ {t}
             /\ finished' = finished \cup {t}
             /\ UNCHANGED <<pending, phase>>

StartClosing == /\ phase = "open"
                /\ phase' = "closing"
                /\ UNCHANGED <<pending, running, finished>>

Close == /\ phase = "closing"
         /\ running = {}
         /\ phase' = "closed"
         /\ UNCHANGED <<pending, running, finished>>

Next == \/ \E t \in Task : Submit(t) \/ Finish(t)
        \/ Start
        \/ StartClosing
        \/ Close

Spec == Init /\ [][Next]_vars
=============================================================================
