-------------------------- MODULE MCCowMemoryOrder --------------------------
(* Readers multiply the states: a behaviour either lends one handle, and    *)
(* has no more than one other at a time, which stays with the thread that   *)
(* made it, and a count with one message less; or it lends none.            *)
EXTENDS CowMemoryOrder, FiniteSets, TLC

CONSTANTS t1, t2, t3, h1, h2, h3

VARIABLE lent   \* the handle this behaviour lends, or NoHandle

BoundedInit == Init /\ lent \in Handle \cup {NoHandle}

BoundedNext ==
  /\ UNCHANGED lent
  /\ Next
  /\ \A h \in Handle \ {lent} : reader'[h] = {}
  /\ lent # NoHandle =>
       /\ Len(count') < MaxMessages
       /\ Cardinality({h \in Handle : at'[h] # Dead}) <= 2
       /\ \A h \in Handle \ {lent} : at'[h] # Passed

BoundedSpec == BoundedInit /\ [][BoundedNext]_<<vars, lent>>

(* Threads are interchangeable, and so are handles. *)
Symmetry == Permutations(Thread) \cup Permutations(Handle)
=============================================================================
