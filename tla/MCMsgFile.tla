------------------------------ MODULE MCMsgFile ------------------------------
(* Small instances of MsgFile.                                               *)
EXTENDS MsgFile, TLC

CONSTANTS c1, c2, c3

TwoClients == {c1, c2}
ThreeClients == {c1, c2, c3}

\* c1's file is longer than its queue, c3's cannot be opened.
ThreeFiles == c1 :> 4 @@ c2 :> 1 @@ c3 :> 0
TwoFiles == c1 :> 3 @@ c2 :> 1
OnlyC1 == {c1}
OnlyC2 == {c2}
OnlyC3 == {c3}
C1AndC2 == {c1, c2}
ServerOrC1 == {Server, c1}
C2HasNul == {<<c2, 1>>}
Nothing == {}
=============================================================================
