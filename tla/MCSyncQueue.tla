---------------------------- MODULE MCSyncQueue -----------------------------
(* Instances of SyncQueue for TLC.                                          *)
EXTENDS SyncQueue, TLC

\* Clients that answer once: up to three messages, two of them in the queue, for
\* two takers.  Clients that do not: two messages and two answers at once.
Mix == [polite \in BOOLEAN |-> [m \in Method |->
           IF polite THEN CASE m = "Put" -> 3
                            [] m \in {"Get", "Post"} -> 2
                            [] OTHER -> 1
                     ELSE CASE m \in {"Put", "Get"} -> 2
                            [] m = "Post" -> 2
                            [] OTHER -> 0]]

\* Requests and descriptors are interchangeable.
Symmetry == Permutations(Request) \cup Permutations(Fd)
=============================================================================
