-------------------------------- MODULE MCComm --------------------------------
(* Small instances of MsgQueue (labs 1 and 2), FileOnce (lab 2), EchoServer   *)
(* and Datagram (labs 7 and 8): a behaviour is one of the four, the others do *)
(* not move.                                                                  *)
EXTENDS MsgQueue, EchoServer, Datagram, FileOnce, TLC

VARIABLE part

CONSTANTS a1, a2, c1, c2, c3

vars == <<part, queueVars, echoVars, dgVars, fileVars>>

TwoServers == {a1, a2}
TwoClients == {c1, c2}
ThreeClients == {c1, c2, c3}
OnlyC1 == {c1}
OnlyC2 == {c2}
\* The first line of c1 is two pieces: it can get the answer in parts, and the
\* rest with the next one.
Texts == c1 :> <<2, 3>> @@ c2 :> <<1>>

\* MAX_DATA is 4 here: no file, one shorter and one longer than an answer; the
\* longer one has a zero byte within it
Sizes == c1 :> NoFile @@ c2 :> 1 @@ c3 :> 5
Zeros == c1 :> 0 @@ c2 :> 1 @@ c3 :> 2

SixRuns == 1 .. 6

\* Six runs in any order; 1025 is longer than message_receive_v1 accepts.
Sessions == {
    <<SendText(0, 5), SendTest, SendAs(20, 1025, FALSE), Drain, ReceiveNoError, SetLimit>>,
    <<SendText(3, 2000), SendTest, Drain, ReceiveNoWait, RemoveQueue(TRUE), CreateKeyed>>,
    <<SendTwenty, SendTestC, ReceiveFour, CreateNewC, RemoveGiven, SetLimitC>>,
    <<CreateAs(FALSE, TRUE, TRUE), SendAs(10, 1025, TRUE), SendAs(-1, 1, FALSE), SendAs(10, 9, FALSE),
      ReceiveAs(10, 8192, FALSE, FALSE, TRUE), ReceiveAs(10, 0, TRUE, TRUE, FALSE)>>,
    <<CreateNew, CreateAsC(FALSE, FALSE, TRUE), CreateKeyed, SendAsC(0, 3, FALSE),
      SendAsC(1, 600, TRUE), ReceiveAsC(-2, 511, FALSE, FALSE)>>,
    <<CreateAsC(FALSE, TRUE, FALSE), SendAsC(3, 7, FALSE), SendAsC(2, 512, FALSE),
      SendAsC(2, 512, TRUE), ReceiveAsC(-2, 512, FALSE, FALSE), ReceiveAsC(-3, 4, FALSE, TRUE)>>}

\* The parts that do not move start in one way only.
Init ==
    /\ part \in {"queue", "echo", "datagram", "file"}
    /\ QueueInit /\ (part # "queue" => job = CHOOSE l \in Lineups : TRUE)
    /\ EchoInit /\ (part # "echo" => kind = "plain" /\ name = Free)
    /\ DgInit /\ (part # "datagram" => proto = CHOOSE p \in Protocols : TRUE)
    /\ FileInit

Next ==
    \/ part = "queue" /\ QueueNext /\ UNCHANGED <<part, echoVars, dgVars, fileVars>>
    \/ part = "echo" /\ EchoNext /\ UNCHANGED <<part, queueVars, dgVars, fileVars>>
    \/ part = "datagram" /\ DgNext /\ UNCHANGED <<part, queueVars, echoVars, fileVars>>
    \/ part = "file" /\ FileNext /\ UNCHANGED <<part, queueVars, echoVars, dgVars>>

Spec == Init /\ [][Next]_vars /\ QueueFairness /\ EchoFairness /\ DgFairness
=============================================================================
