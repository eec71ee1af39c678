------------------------------- MODULE InitOnce -------------------------------
(***************************************************************************)
(* What lab4/03_good_init promises: of all the copies one is elected, once *)
(* and for good; only it writes, first zeros and then its values, each at  *)
(* most once; the others are told to go on, if ever, when the zeros are    *)
(* there.                                                                  *)
(***************************************************************************)
CONSTANT Procs

VARIABLES
    winner,  \* the elected copy, "nobody" while there is none
    content, \* what is in the set: "kernel", "zeros", or the values of a copy
    told     \* the copies that were told to go on

onceVars == <<winner, content, told>>

Init ==
    /\ winner = "nobody"
    /\ content = "kernel"
    /\ told = {}

Win(p) ==
    /\ winner = "nobody"
    /\ winner' = p
    /\ UNCHANGED <<content, told>>

Clear(p) ==
    /\ winner = p
    /\ content = "kernel"
    /\ content' = "zeros"
    /\ UNCHANGED <<winner, told>>

Fill(p) ==
    /\ winner = p
    /\ content = "zeros"
    /\ content' = p
    /\ UNCHANGED <<winner, told>>

Tell(p) ==
    /\ winner # p
    /\ p \notin told
    /\ content # "kernel"
    /\ told' = told \cup {p}
    /\ UNCHANGED <<winner, content>>

Next == \E p \in Procs : Win(p) \/ Clear(p) \/ Fill(p) \/ Tell(p)

Spec == Init /\ [][Next]_onceVars
=============================================================================
