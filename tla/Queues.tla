------------------------------- MODULE Queues -------------------------------
(***************************************************************************)
(* What the specifications say of the contents of a std::queue, a sequence  *)
(* with its front first.                                                    *)
(***************************************************************************)
EXTENDS Naturals, Sequences

Elements(q) == {q[i] : i \in DOMAIN q}

\* Nothing is twice in q.
Distinct(q) == \A i, j \in DOMAIN q : q[i] = q[j] => i = j

\* x is in q, and nearer to the front than a y behind it.
Precedes(q, x, y) == \E i, j \in DOMAIN q : i < j /\ q[i] = x /\ q[j] = y
=============================================================================
