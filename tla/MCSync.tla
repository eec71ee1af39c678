-------------------------------- MODULE MCSync --------------------------------
(* Small instances of SemSet (labs 3 and 4) and Threads (lab 6): a behaviour  *)
(* is one of the two, the other one does not move.                            *)
EXTENDS SemSet, Threads, TLC

VARIABLE lab

CONSTANTS i1, x1, x2, m1, s1, s2, d1, d2, g1, u1, u2

vars == <<lab, semVars, threadVars>>

ThreeInits == {i1, x1, x2}
Exclusive == {x1, x2}
\* INT_MAX is 1023 here, so -2045 is what -4294967293 is in the code: 3 as an int.
\* 600 3; 666 4; 600 -2045
Args == i1 :> <<[octal |-> TRUE, oct |-> 384, dec |-> 600], [octal |-> TRUE, oct |-> 3, dec |-> 3]>>
     @@ x1 :> <<[octal |-> TRUE, oct |-> Rw, dec |-> 666], [octal |-> TRUE, oct |-> 4, dec |-> 4]>>
     @@ x2 :> <<[octal |-> TRUE, oct |-> 384, dec |-> 600], [octal |-> TRUE, oct |-> -1061, dec |-> -2045]>>
OneMaker == {m1}
TwoSems == m1 :> 2
TwoSetters == {s1, s2}
\* VMax is 5 here, so 12 is what 65536 is in the code
Lists == s1 :> <<5, 12>> @@ s2 :> <<-1, 7>>
TwoTakers == {d1, d2}
TakerN == {d2}
OneGiver == {g1}
TwoUndoers == {u1, u2}
KeeperU2 == {u2}

\* The part that does not move starts in one way only.
Init ==
    /\ lab \in {"semaphores", "threads"}
    /\ SemInit /\ (lab = "threads" => val = << >>)
    /\ ThreadsInit /\ (lab = "semaphores" => prog = "race")

Next ==
    \/ lab = "semaphores" /\ SemNext /\ UNCHANGED <<lab, threadVars>>
    \/ lab = "threads" /\ ThreadsNext /\ UNCHANGED <<lab, semVars>>

Spec == Init /\ [][Next]_vars /\ ThreadsFairness
=============================================================================
