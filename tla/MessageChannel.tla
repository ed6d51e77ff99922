--------------------------- MODULE MessageChannel ---------------------------
(***************************************************************************)
(* What a channel of the message queue promises, whatever its class: a     *)
(* message it has accepted waits in the order of arrival, is taken once,   *)
(* and leaves the channel only when its sender has been sent an answer.    *)
(* SyncQueue and SyncSAPI implement it.                                    *)
(***************************************************************************)
CONSTANT Message

VARIABLES
    waiting,    \* accepted messages nobody has taken
    older,      \* for each of them, the ones that wait and came before it
    taken,      \* messages somebody works on
    answered    \* messages whose sender has been sent an answer

vars == <<waiting, older, taken, answered>>

Init ==
    /\ waiting = {}
    /\ older = [m \in Message |-> {}]
    /\ taken = {}
    /\ answered = {}

\* A message is accepted, once.
Offer(m) ==
    /\ m \notin waiting \cup taken \cup answered
    /\ waiting' = waiting \cup {m}
    /\ older' = [older EXCEPT ![m] = waiting]
    /\ UNCHANGED <<taken, answered>>

\* A message waits no longer.
Forget(m) ==
    /\ waiting' = waiting \ {m}
    /\ older' = [x \in Message |-> IF x = m THEN {} ELSE older[x] \ {m}]

\* The oldest message is taken.
Take(m) ==
    /\ m \in waiting
    /\ older[m] = {}
    /\ Forget(m)
    /\ taken' = taken \cup {m}
    /\ UNCHANGED answered

\* The sender of a message in the channel is sent an answer, or has been; with
\* it, or later, the message leaves the channel.
Answer(m) ==
    /\ m \in waiting \cup taken
    /\ answered' = answered \cup {m}
    /\ \/ UNCHANGED <<waiting, older, taken>>
       \/ Forget(m) /\ taken' = taken \ {m}

\* A message leaves the channel unanswered: no step of a channel that is used as it
\* is meant to be.
Lose(m) ==
    /\ m \in waiting \cup taken
    /\ Forget(m)
    /\ taken' = taken \ {m}
    /\ UNCHANGED answered

Next == \E m \in Message : Offer(m) \/ Take(m) \/ Answer(m)

Spec == Init /\ [][Next]_vars
=============================================================================
