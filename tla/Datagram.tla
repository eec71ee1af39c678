------------------------------- MODULE Datagram -------------------------------
(***************************************************************************)
(* The datagram servers and their clients: lab 7 task 3 over AF_UNIX       *)
(* ("unix"), where the server repeats what it gets and all clients bind    *)
(* one path, and lab 8 over UDP ("ipv4", "ipv6"), where it answers in      *)
(* upper case and the network may lose, delay and duplicate.  Each client  *)
(* asks once, something that fits into the buffers with its terminating    *)
(* zero; a UDP port is not used again while an answer to it may be on its  *)
(* way.                                                                    *)
(***************************************************************************)
EXTENDS Integers, Sequences, FiniteSets, SequencesExt

CONSTANTS
    Askers,     \* runs of the client
    Empty,      \* those that send the empty message
    Impatient,  \* those whose user may interrupt them
    Protocols   \* unix, ipv4, ipv6

ASSUME DatagramAssumption ==
    /\ Empty \subseteq Askers /\ Impatient \subseteq Askers /\ "none" \notin Askers
    /\ Protocols \subseteq {"unix", "ipv4", "ipv6"}

VARIABLES
    proto,    \* which of the programs
    server,   \* new, bind, up
    inq,      \* the questions in the server's socket
    cur,      \* the question it is answering
    net,      \* UDP datagrams on their way
    path,     \* the client whose socket has the clients' path, which may be gone
    asker,    \* each client: new, bind, send, recv, done, failed, killed
    rq,       \* the answers in each client's socket
    printed,  \* what each client has printed
    alone,    \* history: no other client has used the path since it was bound,
              \* and none had a question open then
    lost      \* history: a datagram from or to the client was lost

dgVars == <<proto, server, inq, cur, net, path, asker, rq, printed, alone, lost>>
historyVars == <<alone, lost>>

None == "none"
NoText == [of |-> None, upper |-> FALSE]
Path == proto = "unix"
Text(c) == [of |-> c, upper |-> FALSE]
Words == [of : Askers, upper : BOOLEAN]
Step(c, l) == asker' = [asker EXCEPT ![c] = l]

DgTypeOK ==
    /\ proto \in Protocols
    /\ server \in {"new", "bind", "up"}
    /\ inq \in Seq(Askers) /\ cur \in Askers \cup {None}
    /\ net \in SUBSET [answer : BOOLEAN, client : Askers, text : Words]
    /\ (Path => net = {}) /\ (~Path => path = None)
    /\ path \in Askers \cup {None}
    /\ asker \in [Askers -> {"new", "bind", "send", "recv", "done", "failed", "killed"}]
    /\ \A c \in Askers : (printed[c] # NoText) <=> (asker[c] = "done")

DgInit ==
    /\ proto \in Protocols
    /\ server = "new"
    /\ inq = << >> /\ cur = None /\ net = {}
    /\ path = None
    /\ asker = [c \in Askers |-> "new"]
    /\ rq = [c \in Askers |-> << >>]
    /\ printed = [c \in Askers |-> NoText]
    /\ alone = [c \in Askers |-> TRUE] /\ lost = {}

-----------------------------------------------------------------------------
(* The server: unlink in lab 7, bind, and the loop.                        *)

Serve ==
    /\ server # "up"
    /\ server' = IF server = "new" /\ Path THEN "bind" ELSE "up"
    /\ UNCHANGED <<proto, inq, cur, net, path, asker, rq, printed, historyVars>>

\* Mutant: both UDP servers and that of lab 7 do.
SkipsEmptyAlways == TRUE

\* ipv6 passes over an empty question.
SkipsEmpty == proto = "ipv6"

Recvfrom ==
    /\ inq # << >> /\ cur = None
    /\ cur' = IF SkipsEmpty /\ Head(inq) \in Empty THEN None ELSE Head(inq)
    /\ inq' = Tail(inq)
    /\ UNCHANGED <<proto, server, net, path, asker, rq, printed, historyVars>>

\* The answer to question q as it is in the buffer: toupper over UDP.
Answer(q) == [Text(q) EXCEPT !.upper = ~Path]

\* Is the socket of c open?
Open(c) == asker[c] \in {"send", "recv"}

\* Mutant: the address is that of the question received last.
SendtoSender ==
    /\ cur # None
    /\ rq' = IF Path /\ path # None /\ Open(path)
               THEN [rq EXCEPT ![path] = Append(@, Answer(cur))] ELSE rq
    /\ net' = IF Path THEN net ELSE net \cup
                {[answer |-> TRUE, client |-> IF inq = << >> THEN cur ELSE Head(inq), text |-> Answer(cur)]}
    /\ cur' = None
    /\ UNCHANGED <<proto, server, inq, path, asker, printed, historyVars>>

\* sendto: over AF_UNIX to whoever has the path now.
Sendto ==
    /\ cur # None
    /\ rq' = IF Path /\ path # None /\ Open(path)
               THEN [rq EXCEPT ![path] = Append(@, Answer(cur))] ELSE rq
    /\ net' = IF Path THEN net ELSE net \cup {[answer |-> TRUE, client |-> cur, text |-> Answer(cur)]}
    /\ cur' = None
    /\ UNCHANGED <<proto, server, inq, path, asker, printed, historyVars>>

-----------------------------------------------------------------------------
(* The network, under UDP: a datagram arrives, twice, or not; a question   *)
(* that arrives before the server is there, or an answer after its client  *)
(* has gone, is lost.                                                      *)

Deliver(m) == \E n \in 0 .. 2 :
    /\ m \in net /\ net' = net \ {m}
    /\ LET c == m.client IN
       /\ IF m.answer
            THEN UNCHANGED inq /\ rq' = IF Open(c) THEN [rq EXCEPT ![c] = @ \o [k \in 1 .. n |-> m.text]] ELSE rq
            ELSE UNCHANGED rq /\ inq' = IF server = "up" THEN inq \o [k \in 1 .. n |-> c] ELSE inq
       /\ lost' = IF n = 0 \/ (~m.answer /\ server # "up") THEN lost \cup {c} ELSE lost
    /\ UNCHANGED <<proto, server, cur, path, asker, printed, alone>>

-----------------------------------------------------------------------------
(* The clients.  Those of lab 7 remove the path, bind it, and remove it at *)
(* the end, whoever has it by then.                                        *)

\* unlink by c: nobody is alone any more, except c if there is nobody else.
UnlinkPath(c) ==
    /\ asker[c] = "new"
    /\ IF Path
         THEN /\ path' = None
              /\ alone' = [d \in Askers |->
                             IF asker[d] \in {"done", "failed", "killed"} THEN alone[d]
                             ELSE \A e \in Askers \ {d} :
                                    /\ e # c /\ asker[e] \notin {"bind", "send", "recv"}
                                    /\ e # cur /\ e \notin ToSet(inq)]
              /\ Step(c, "bind")
         ELSE UNCHANGED <<path, alone>> /\ Step(c, "send")
    /\ UNCHANGED <<proto, server, inq, cur, net, rq, printed, lost>>

BindPath(c) ==
    /\ asker[c] = "bind"
    /\ IF path = None THEN path' = c /\ Step(c, "send") ELSE UNCHANGED path /\ Step(c, "failed")
    /\ UNCHANGED <<proto, server, inq, cur, net, rq, printed, historyVars>>

\* sendto: over AF_UNIX it fails if the server is not there.
Ask(c) ==
    /\ asker[c] = "send"
    /\ IF Path
         THEN /\ UNCHANGED net
              /\ IF server = "up" THEN inq' = Append(inq, c) /\ Step(c, "recv") /\ UNCHANGED path
                                  ELSE UNCHANGED inq /\ Step(c, "failed") /\ path' = None
         ELSE net' = net \cup {[answer |-> FALSE, client |-> c, text |-> Text(c)]} /\ Step(c, "recv") /\ UNCHANGED <<inq, path>>
    /\ UNCHANGED <<proto, server, cur, rq, printed, historyVars>>

\* recvfrom without a timeout, print, close and unlink.
Obtain(c) ==
    /\ asker[c] = "recv" /\ rq[c] # << >>
    /\ printed' = [printed EXCEPT ![c] = Head(rq[c])]
    /\ rq' = [rq EXCEPT ![c] = << >>]
    /\ path' = None
    /\ Step(c, "done")
    /\ UNCHANGED <<proto, server, inq, cur, net, historyVars>>

\* An interrupted client leaves the path behind.
GiveUp(c) ==
    /\ c \in Impatient /\ Open(c)
    /\ Step(c, "killed")
    /\ rq' = [rq EXCEPT ![c] = << >>]
    /\ UNCHANGED <<proto, server, inq, cur, net, path, printed, historyVars>>

DgNext ==
    \/ Serve \/ Recvfrom \/ Sendto
    \/ \E m \in net : Deliver(m)
    \/ \E c \in Askers : UnlinkPath(c) \/ BindPath(c) \/ Ask(c) \/ Obtain(c) \/ GiveUp(c)

DgSpec == DgInit /\ [][DgNext]_dgVars

\* A datagram arrives or is lost; whoever has something to receive does.
DgFairness ==
    /\ WF_dgVars(Recvfrom \/ Sendto)
    /\ WF_dgVars(\E m \in net : Deliver(m))
    /\ \A c \in Askers : WF_dgVars(Obtain(c))

-----------------------------------------------------------------------------
(* Properties.                                                             *)

\* A client prints the answer to its own question: in upper case over UDP, even
\* if datagrams are duplicated and come late; over AF_UNIX unchanged, if no
\* other client was at work, none came since and none has left a question.
OwnAnswer ==
    \A c \in Askers : (asker[c] = "done" /\ alone[c]) => printed[c] = Answer(c)

\* Task 3 asks for client addresses made unique with the process id ("the
\* process id is added to the end of the file name", laboratory work 7, page 5):
\* then the answer a client prints is to its own question.
AnswerIsMine == \A c \in Askers : asker[c] = "done" => printed[c].of = c

\* What may keep a client waiting for ever: a lost datagram, an empty question
\* to the ipv6 server, over AF_UNIX another client's use of the path.
InVain(c) == c \in lost \/ (proto = "ipv6" /\ c \in Empty) \/ ~alone[c]

\* Nothing else does, whatever other clients do and however their questions and
\* answers are delayed or duplicated.
Replied ==
    \A c \in Askers : (asker[c] = "recv" /\ ~InVain(c)) ~> (asker[c] # "recv" \/ InVain(c))
=============================================================================
