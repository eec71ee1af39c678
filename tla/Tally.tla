--------------------------------- MODULE Tally ---------------------------------
(***************************************************************************)
(* What threads that count together promise: each has so much left to add, *)
(* adds it one by one, each addition in a single step that nobody else     *)
(* gets between, and the total is read once, when nothing is left.         *)
(***************************************************************************)
EXTENDS Naturals

CONSTANT Workers

VARIABLES
    todo,   \* what each worker has left to add
    total,
    answer  \* what was read of the total: nothing, or one number

tallyVars == <<todo, total, answer>>

Init ==
    /\ todo \in [Workers -> Nat]
    /\ total = 0
    /\ answer = {}

Add(t) ==
    /\ answer = {}
    /\ todo[t] > 0
    /\ todo' = [todo EXCEPT ![t] = @ - 1]
    /\ total' = total + 1
    /\ UNCHANGED answer

Report ==
    /\ answer = {}
    /\ \A t \in Workers : todo[t] = 0
    /\ answer' = {total}
    /\ UNCHANGED <<todo, total>>

Next == Report \/ \E t \in Workers : Add(t)

Spec == Init /\ [][Next]_tallyVars
=============================================================================
