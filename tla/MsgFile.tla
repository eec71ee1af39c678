------------------------------- MODULE MsgFile -------------------------------
(***************************************************************************)
(* lab2/02_client_server: a file server over System V message queues.      *)
(* A client makes a private queue, puts a request with that queue's id on  *)
(* the server's queue and prints what arrives until an end or error        *)
(* message.  The server forks a child for each request; the child sends    *)
(* the file in chunks to the queue named in the request.                   *)
(*                                                                         *)
(* A file is known by the client that asks for it and the number of its    *)
(* chunks; a chunk by its position and by whether it holds a zero byte,    *)
(* which is all the client's print_chunk can tell apart.                   *)
(***************************************************************************)
EXTENDS Integers, Sequences, FiniteSets

CONSTANTS
    Clients,    \* the client processes, each run once
    FileLen,    \* chunks of the file each client asks for
    Unopenable, \* the clients whose file cannot be opened
    Unreadable, \* the clients whose file may fail to be read at any chunk
    NulChunks,  \* <<client, chunk>> pairs: the chunks that hold a zero byte
    ServerCap,  \* requests the server's queue holds (16384 bytes in Linux)
    ClientCap,  \* responses a client's queue holds
    MaxForkFails, \* bound: how often fork() returns -1
    MayDie,     \* the clients and the server: those that may be killed
    Victims,    \* the clients whose child may be killed
    MaxRestarts \* bound: how often the server is started again

Server == "server"
Nobody == "nobody"

ASSUME MsgFileAssumption ==
    /\ FileLen \in [Clients -> Nat]
    /\ Unopenable \subseteq Clients /\ Unreadable \subseteq Clients
    /\ NulChunks \subseteq Clients \X Nat
    /\ ServerCap \in Nat \ {0} /\ ClientCap \in Nat \ {0}
    /\ MaxForkFails \in Nat
    /\ Server \notin Clients /\ Nobody \notin Clients
    /\ MayDie \subseteq Clients \cup {Server}
    /\ Victims \subseteq Clients
    /\ MaxRestarts \in Nat

VARIABLES
    spc,       \* the server's next step
    req,       \* the server's local requestMsg: whose request it holds
    serverQ,   \* does the server's queue exist?
    requests,  \* the messages in it, each the client_qid of a request
    cpc,       \* each client's next step
    clientQ,   \* the clients whose private queue exists
    responses, \* the messages in each client's queue
    child,     \* the next step of the child that serves each client
    pos,       \* the chunks that child has read
    out,       \* the chunks each client has printed
    dead,      \* the clients that were killed, and the server if it is
    cut,       \* the clients whose child was killed
    restarts, forkFails

vars == <<spc, req, serverQ, requests, cpc, clientQ, responses, child, pos,
          out, dead, cut, restarts, forkFails>>
serverVars == <<spc, req, serverQ>>
clientVars == <<cpc, clientQ, out>>
childVars == <<child, pos>>
faultVars == <<dead, cut, restarts, forkFails>>

\* responseMsg: mtype 1 is a chunk, 2 the end of the file, 3 an error.
Response == [mtype : {1}, of : Clients, chunk : Nat] \cup [mtype : {2, 3}]
Ending == {[mtype |-> 2], [mtype |-> 3]}

TypeOK ==
    /\ spc \in {"start", "recv", "fork"}
    /\ req \in Clients \cup {Nobody}
    /\ serverQ \in BOOLEAN
    /\ requests \in Seq(Clients) /\ Len(requests) <= ServerCap
    /\ cpc \in [Clients -> {"start", "lookup", "send", "recv", "rm_eof",
                            "rm_error", "eof", "error", "failed"}]
    /\ clientQ \subseteq Clients
    /\ responses \in [Clients -> Seq(Response)]
    /\ \A c \in Clients : Len(responses[c]) <= ClientCap
    /\ child \in [Clients -> {"none", "open", "read", "chunk", "end", "fail"}]
    /\ pos \in [Clients -> Nat] /\ \A c \in Clients : pos[c] <= FileLen[c]
    /\ out \in [Clients -> Seq([of : Clients, chunk : Nat, full : BOOLEAN])]
    /\ dead \subseteq MayDie
    /\ cut \subseteq Victims
    /\ restarts \in 0 .. MaxRestarts
    /\ forkFails \in 0 .. MaxForkFails

Init ==
    /\ spc = "start"
    /\ req = Nobody
    /\ serverQ = FALSE
    /\ requests = << >>
    /\ cpc = [c \in Clients |-> "start"]
    /\ clientQ = {}
    /\ responses = [c \in Clients |-> << >>]
    /\ child = [c \in Clients |-> "none"]
    /\ pos = [c \in Clients |-> 0]
    /\ out = [c \in Clients |-> << >>]
    /\ dead = {}
    /\ cut = {}
    /\ restarts = 0
    /\ forkFails = 0

-----------------------------------------------------------------------------
(* The server's main loop.                                                 *)

ServerGoes(from, to) ==
    /\ Server \notin dead
    /\ spc = from
    /\ spc' = to

\* msgget(IPC_CREAT): finds the queue, and the requests in it, if it exists.
ServerStart ==
    /\ ServerGoes("start", "recv")
    /\ serverQ' = TRUE
    /\ UNCHANGED <<req, requests, clientVars, responses, childVars, faultVars>>

\* Mutant: the request is copied (MSG_COPY) and stays on the queue.
ServerPeek ==
    /\ ServerGoes("recv", "fork")
    /\ requests # << >>
    /\ req' = Head(requests)
    /\ UNCHANGED <<serverQ, requests, clientVars, responses, childVars, faultVars>>

\* Mutant: waitpid without WNOHANG, before the next request is taken.
ServerReceiveAfterWait ==
    /\ ServerGoes("recv", "fork")
    /\ \A c \in Clients : child[c] = "none"
    /\ requests # << >>
    /\ req' = Head(requests)
    /\ requests' = Tail(requests)
    /\ UNCHANGED <<serverQ, clientVars, responses, childVars, faultVars>>

\* msgrcv(server_qid, ..., 0, 0): the oldest request; blocks on an empty queue.
ServerReceive ==
    /\ ServerGoes("recv", "fork")
    /\ requests # << >>
    /\ req' = Head(requests)
    /\ requests' = Tail(requests)
    /\ UNCHANGED <<serverQ, clientVars, responses, childVars, faultVars>>

\* fork(): the child has a copy of req.  The parent reaps the children that
\* have ended, without waiting for any, and turns to the next request.
ServerFork ==
    /\ ServerGoes("fork", "recv")
    /\ child' = [child EXCEPT ![req] = "open"]
    /\ pos' = [pos EXCEPT ![req] = 0]
    /\ req' = Nobody
    /\ UNCHANGED <<serverQ, requests, clientVars, responses, faultVars>>

\* fork() returns -1: continue.  The request is gone.
ServerForkFails ==
    /\ forkFails < MaxForkFails
    /\ ServerGoes("fork", "recv")
    /\ forkFails' = forkFails + 1
    /\ req' = Nobody
    /\ UNCHANGED <<serverQ, requests, clientVars, responses, childVars, dead, cut, restarts>>

ServerStep == ServerStart \/ ServerReceive \/ ServerFork \/ ServerForkFails

-----------------------------------------------------------------------------
(* The child that serves client c.                                         *)

ChildGoes(c, from, to) ==
    /\ child[c] = from
    /\ child' = [child EXCEPT ![c] = to]

\* msgsnd(client_qid, ..., 0): blocks while the queue is full, fails when the
\* queue is gone; the result is not looked at.
Respond(c, m) ==
    \/ /\ c \in clientQ
       /\ Len(responses[c]) < ClientCap
       /\ responses' = [responses EXCEPT ![c] = Append(@, m)]
    \/ /\ c \notin clientQ
       /\ UNCHANGED responses

ChildOpen(c) ==
    /\ ChildGoes(c, "open", IF c \in Unopenable THEN "fail" ELSE "read")
    /\ UNCHANGED <<serverVars, requests, clientVars, responses, pos, faultVars>>

\* Mutant: the loop has no "if (r == 0) break".
ChildReadOn(c) ==
    /\ ChildGoes(c, "read", "chunk")
    /\ pos' = [pos EXCEPT ![c] = @ + 1]
    /\ UNCHANGED <<serverVars, requests, clientVars, responses, faultVars>>

\* Mutant: a short read ends the file before its chunk is sent.
ChildReadShort(c) ==
    /\ \/ pos[c] < FileLen[c] - 1 /\ ChildGoes(c, "read", "chunk")
             /\ pos' = [pos EXCEPT ![c] = @ + 1]
       \/ pos[c] >= FileLen[c] - 1 /\ ChildGoes(c, "read", "end") /\ UNCHANGED pos
    /\ UNCHANGED <<serverVars, requests, clientVars, responses, faultVars>>

\* read(fd, ..., RESP_DATA_MAX - 1): the next chunk, or 0 at the end.
ChildRead(c) ==
    /\ \/ pos[c] < FileLen[c] /\ ChildGoes(c, "read", "chunk")
             /\ pos' = [pos EXCEPT ![c] = @ + 1]
       \/ pos[c] = FileLen[c] /\ ChildGoes(c, "read", "end") /\ UNCHANGED pos
    /\ UNCHANGED <<serverVars, requests, clientVars, responses, faultVars>>

ChildReadFails(c) ==
    /\ c \in Unreadable
    /\ ChildGoes(c, "read", "fail")
    /\ UNCHANGED <<serverVars, requests, clientVars, responses, pos, faultVars>>

ChildSendChunk(c) ==
    /\ ChildGoes(c, "chunk", "read")
    /\ Respond(c, [mtype |-> 1, of |-> c, chunk |-> pos[c]])
    /\ UNCHANGED <<serverVars, requests, clientVars, pos, faultVars>>

\* The end marker or the error message, then _exit(0).
ChildSendEnd(c) ==
    /\ ChildGoes(c, "end", "none")
    /\ Respond(c, [mtype |-> 2])
    /\ UNCHANGED <<serverVars, requests, clientVars, pos, faultVars>>

\* Mutant: no _exit after the error message, the child goes on to the end.
ChildGoesOnAfterError(c) ==
    /\ ChildGoes(c, "fail", "end")
    /\ Respond(c, [mtype |-> 3])
    /\ UNCHANGED <<serverVars, requests, clientVars, pos, faultVars>>

ChildSendError(c) ==
    /\ ChildGoes(c, "fail", "none")
    /\ Respond(c, [mtype |-> 3])
    /\ UNCHANGED <<serverVars, requests, clientVars, pos, faultVars>>

ChildStep(c) ==
    \/ ChildOpen(c) \/ ChildRead(c) \/ ChildReadFails(c)
    \/ ChildSendChunk(c) \/ ChildSendEnd(c) \/ ChildSendError(c)

-----------------------------------------------------------------------------
(* Client c.                                                               *)

ClientGoes(c, from, to) ==
    /\ c \notin dead
    /\ cpc[c] = from
    /\ cpc' = [cpc EXCEPT ![c] = to]

\* msgget(IPC_PRIVATE)
ClientStart(c) ==
    /\ ClientGoes(c, "start", "lookup")
    /\ clientQ' = clientQ \cup {c}
    /\ UNCHANGED <<serverVars, requests, responses, childVars, out, faultVars>>

\* msgget(skey, 0) without IPC_CREAT: without a server's queue the client
\* returns at once and leaves its own queue behind.
ClientLookup(c) ==
    /\ ClientGoes(c, "lookup", IF serverQ THEN "send" ELSE "failed")
    /\ UNCHANGED <<serverVars, requests, clientQ, responses, childVars, out, faultVars>>

\* msgsnd(server_qid, ..., 0): blocks while the server's queue is full.
ClientSend(c) ==
    /\ ClientGoes(c, "send", "recv")
    /\ Len(requests) < ServerCap
    /\ requests' = Append(requests, c)
    /\ UNCHANGED <<serverVars, clientQ, responses, childVars, out, faultVars>>

\* msgrcv and, for a chunk, print_chunk, which stops at the first zero byte.
ClientReceive(c) ==
    /\ responses[c] # << >>
    /\ responses' = [responses EXCEPT ![c] = Tail(@)]
    /\ LET m == Head(responses[c]) IN
       \/ /\ m.mtype = 1
          /\ ClientGoes(c, "recv", "recv")
          /\ out' = [out EXCEPT ![c] = Append(@, [of |-> m.of, chunk |-> m.chunk,
                          full |-> <<m.of, m.chunk>> \notin NulChunks])]
       \/ /\ m.mtype = 2
          /\ ClientGoes(c, "recv", "rm_eof")
          /\ UNCHANGED out
       \/ /\ m.mtype = 3
          /\ ClientGoes(c, "recv", "rm_error")
          /\ UNCHANGED out
    /\ UNCHANGED <<serverVars, requests, clientQ, childVars, faultVars>>

\* msgctl(client_qid, IPC_RMID), whatever is still in the queue.
ClientCleanup(c) ==
    /\ \/ ClientGoes(c, "rm_eof", "eof")
       \/ ClientGoes(c, "rm_error", "error")
    /\ clientQ' = clientQ \ {c}
    /\ responses' = [responses EXCEPT ![c] = << >>]
    /\ UNCHANGED <<serverVars, requests, childVars, out, faultVars>>

ClientStep(c) ==
    \/ ClientStart(c) \/ ClientLookup(c) \/ ClientSend(c)
    \/ ClientReceive(c) \/ ClientCleanup(c)

-----------------------------------------------------------------------------
\* A client or the server is killed wherever it is.  The queues belong to the
\* kernel and stay; so do the children of a killed server.
Die(p) ==
    /\ p \notin dead
    /\ dead' = dead \cup {p}
    /\ UNCHANGED <<serverVars, requests, clientVars, responses, childVars, cut,
                   restarts, forkFails>>

\* A child is killed wherever it is, also between two messages of its answer or
\* while it is blocked by a full queue.
KillChild(c) ==
    /\ child[c] # "none"
    /\ child' = [child EXCEPT ![c] = "none"]
    /\ cut' = cut \cup {c}
    /\ UNCHANGED <<serverVars, requests, clientVars, responses, pos, dead,
                   restarts, forkFails>>

\* Somebody starts the server again.
ServerRestart ==
    /\ Server \in dead
    /\ restarts < MaxRestarts
    /\ restarts' = restarts + 1
    /\ dead' = dead \ {Server}
    /\ spc' = "start"
    /\ req' = Nobody
    /\ UNCHANGED <<serverQ, requests, clientVars, responses, childVars, cut, forkFails>>

Next ==
    \/ ServerStep
    \/ \E c \in Clients : ChildStep(c) \/ ClientStep(c)
    \/ \E p \in MayDie : Die(p)
    \/ \E c \in Victims : KillChild(c)
    \/ ServerRestart

Spec == Init /\ [][Next]_vars

\* The scheduler runs every process that is not blocked.
FairSpec ==
    /\ Spec
    /\ WF_vars(ServerStep)
    /\ \A c \in Clients : WF_vars(ChildStep(c)) /\ WF_vars(ClientStep(c))

-----------------------------------------------------------------------------
(* Properties.                                                             *)

\* The places where client c's request, or the answer that closes it, is.
Custody(c) ==
    Cardinality({i \in 1 .. Len(requests) : requests[i] = c})
    + (IF req = c /\ Server \notin dead THEN 1 ELSE 0)
    + (IF child[c] # "none" THEN 1 ELSE 0)
    + Cardinality({i \in 1 .. Len(responses[c]) : responses[c][i] \in Ending})

\* No fork has failed and the server was never killed.
ServerSound == forkFails = 0 /\ restarts = 0 /\ Server \notin dead

\* A request is never served twice and never closed twice, and while its
\* client waits it is in exactly one place: on the server's queue, in the
\* server's hands, with a child, or answered by the last message of the
\* client's queue.  Only a failed fork, a killed server or the kill of its own
\* child may lose it: nothing that happens to another client or its child does.
OneCustodian ==
    \A c \in Clients :
        /\ Custody(c) <= 1
        /\ cpc[c] = "recv" /\ ServerSound /\ c \notin cut => Custody(c) = 1

\* What a client has printed is the beginning of the file it asked for, in
\* order, however many children send at the same time; one that was told the end
\* has printed all of it, and one that was told of an error asked for a file that
\* has one.
PrintedIsFile ==
    \A c \in Clients :
        /\ \A i \in 1 .. Len(out[c]) : out[c][i].of = c /\ out[c][i].chunk = i
        /\ cpc[c] \in {"rm_eof", "eof"} => Len(out[c]) = FileLen[c]
        /\ cpc[c] \in {"rm_error", "error"} => c \in Unopenable \cup Unreadable

\* When a client removes its queue nothing is in it and nobody will ever send
\* to it again: no answer is discarded with the queue, and no child sends to a
\* queue id that is gone.
QuietCleanup ==
    \A c \in Clients :
        cpc[c] \in {"rm_eof", "rm_error", "eof", "error"} => Custody(c) = 0
              /\ responses[c] = << >>

\* With a sound server every client ends, unless it or its own child is killed: a
\* client that was killed in the middle of its transfer, and whose full queue blocks
\* its child for ever, or that waits for the rest of a killed child's answer, delays
\* nobody else.
Answered ==
    \A c \in Clients :
        <>(c \in dead \cup cut \/ ~ServerSound \/ cpc[c] \in {"eof", "error", "failed"})

\* "The client ... receives the file": every byte of every chunk is printed.
FileReceived ==
    \A c \in Clients : cpc[c] = "eof" =>
        \A i \in 1 .. Len(out[c]) : out[c][i].full

-----------------------------------------------------------------------------
(* The service that the server, its children and the clients implement.    *)

\* A client that has not asked yet.
Before == {"start", "lookup", "send", "failed"}

Queued(c) == \E i \in 1 .. Len(requests) : requests[i] = c

\* The request of c has not reached a child.
Waiting(c) == Queued(c) \/ req = c

\* The last of the messages r closes the answer.
Closes(r) == r # << >> /\ r[Len(r)].mtype # 1
Closed(c) == Closes(responses[c])

\* The messages sent to c, printed or still in its queue.
Delivered(c) == Len(out[c]) + Len(responses[c])

\* What a client at step p has been told.
Outcome(p) ==
    IF p \in {"rm_eof", "eof"} THEN "end"
    ELSE IF p \in {"rm_error", "error"} THEN "error" ELSE "none"

Asked == {c \in Clients : cpc[c] \notin Before}
Owed == {c \in Clients : Waiting(c) \/ child[c] # "none"}
Sent == [c \in Clients |-> IF Closed(c) THEN Delivered(c) - 1 ELSE Delivered(c)]
Verdict == [c \in Clients |->
              IF ~Closed(c) THEN Outcome(cpc[c])
              ELSE IF responses[c][Len(responses[c])] = [mtype |-> 2] THEN "end" ELSE "error"]
Got == [c \in Clients |-> [k \in 1 .. Len(out[c]) |-> <<out[c][k].of, out[c][k].chunk>>]]
Told == [c \in Clients |-> Outcome(cpc[c])]

Service == INSTANCE FileService WITH
    Faulty <- Unopenable \cup Unreadable, Brittle <- Victims,
    asked <- Asked, owed <- Owed, sent <- Sent, verdict <- Verdict, got <- Got, told <- Told

\* Whoever is killed, and however many children send at the same time: each
\* client is sent its own file from the beginning, then one verdict and nothing
\* after it, and takes all of it before it is told the verdict; the end is said only
\* of a whole file.  A request is lost only before anything was sent for it, but for
\* a killed child, whose answer breaks off where it is and is never closed.
ServiceSpec == Service!Spec
=============================================================================
