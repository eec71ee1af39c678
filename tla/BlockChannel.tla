---------------------------- MODULE BlockChannel ----------------------------
(***************************************************************************)
(* What lab5/02_rw promises: a one-place channel.  The sender may send the *)
(* next of NBlocks blocks only when the previous one was received, closes  *)
(* the channel once everything was received, and the receiver then drains  *)
(* it.                                                                     *)
(***************************************************************************)
EXTENDS Naturals

CONSTANT NBlocks

VARIABLES sent, received, closed, drained

chanVars == <<sent, received, closed, drained>>

Init ==
    /\ sent = 0
    /\ received = 0
    /\ closed = FALSE
    /\ drained = FALSE

Send ==
    /\ ~closed
    /\ sent = received
    /\ sent < NBlocks
    /\ sent' = sent + 1
    /\ UNCHANGED <<received, closed, drained>>

Receive ==
    /\ received < sent
    /\ received' = received + 1
    /\ UNCHANGED <<sent, closed, drained>>

Close ==
    /\ ~closed
    /\ sent = NBlocks
    /\ received = NBlocks
    /\ closed' = TRUE
    /\ UNCHANGED <<sent, received, drained>>

Drain ==
    /\ closed
    /\ ~drained
    /\ drained' = TRUE
    /\ UNCHANGED <<sent, received, closed>>

Next == Send \/ Receive \/ Close \/ Drain

Spec == Init /\ [][Next]_chanVars
=============================================================================
