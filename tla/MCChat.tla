------------------------------- MODULE MCChat --------------------------------
(* Small instances of ChatServer.                                            *)
EXTENDS ChatServer, TLC

CONSTANTS c1, c2, c3

ThreeClients == {c1, c2, c3}
Talk == c1 :> 2 @@ c2 :> 2 @@ c3 :> 0
Narrow == c1 :> 1 @@ c2 :> 2 @@ c3 :> 1
OnlyC3 == {c3}
Both == {"inet", "unix"}
Lab7 == {"unix"}
=============================================================================
