------------------------------ MODULE EchoServer ------------------------------
(***************************************************************************)
(* The stream echo servers and their clients: lab 7 tasks 1 ("plain"), 2   *)
(* ("no_unlink") and 4 ("forking") over AF_UNIX, and tcp_echo of lab 8     *)
(* ("inet").  The first two serve one client after the other, the others   *)
(* fork a child for each.  A line is as many pieces as it takes to see     *)
(* that TCP may deliver it in parts; piece k of client c is <<c, k>>.      *)
(* There are fewer clients than places in the backlog, and a line fits     *)
(* into a socket.                                                          *)
(***************************************************************************)
EXTENDS Integers, Sequences, FiniteSets, SequencesExt

CONSTANTS
    Servers,  \* runs of the server
    Clients,  \* runs of the client
    Lines,    \* what the user of a client types: the last piece of each line
    MayQuit,  \* the clients that may be interrupted at any point
    Kinds     \* the programs to run: plain, no_unlink, forking, inet

ASSUME EchoAssumption ==
    /\ Lines \in [Clients -> Seq(Nat \ {0})]
    /\ \A c \in Clients : \A i, k \in 1 .. Len(Lines[c]) : i < k => Lines[c][i] < Lines[c][k]
    /\ Servers \cap {"free", "left"} = {}
    /\ MayQuit \subseteq Clients
    /\ Kinds \subseteq {"plain", "no_unlink", "forking", "inet"}

VARIABLES
    kind,     \* which of the programs
    name,     \* what the path or port is bound to: a server, a leftover, nothing
    srv,      \* each server: new, bind, listen, accept, serve, failed, killed
    backlog,  \* connections not accepted yet
    h,        \* the server's side of each connection: none, read, write, closed
    buf,      \* what is read and not written yet
    zombies,  \* children that have ended and are not waited for
    sigchld,  \* is the signal pending?
    cli,      \* each client: new, type, read, done, killed, failed
    on,       \* the server it is connected to
    typed,    \* the lines it has sent
    up, down, \* what is in the sockets
    reset,    \* the clients whose closed socket has answered with RST
    got       \* what each client has printed

echoVars == <<kind, name, srv, backlog, h, buf, zombies, sigchld,
              cli, on, typed, up, down, reset, got>>
startVars == <<kind, name, on>>
clientVars == <<cli, typed, got>>

Free == "free"
Left == "left"
Inet == kind = "inet"
Unlinks == kind \in {"plain", "forking"}
Iterative == kind \in {"plain", "no_unlink"}
Gone(c) == cli[c] \in {"done", "killed"}

EchoTypeOK ==
    /\ kind \in Kinds
    /\ name \in Servers \cup {Free, Left}
    /\ srv \in [Servers -> {"new", "bind", "listen", "accept", "serve", "failed", "killed"}]
    /\ h \in [Clients -> {"none", "read", "write", "closed"}]
    /\ zombies \subseteq {c \in Clients : h[c] = "closed"} /\ sigchld \in BOOLEAN
    /\ cli \in [Clients -> {"new", "type", "read", "done", "killed", "failed"}]
    /\ on \in [Clients -> Servers \cup {Free}]
    /\ reset \subseteq {c \in Clients : Gone(c)}
    /\ \A c \in Clients : typed[c] \in 0 .. Len(Lines[c])
    /\ \A s \in Servers : \A k \in 1 .. Len(backlog[s]) : on[backlog[s][k]] = s

\* A path may be left over from an earlier run.
EchoInit ==
    /\ kind \in Kinds
    /\ name \in {Free} \cup (IF Inet THEN {} ELSE {Left})
    /\ srv = [s \in Servers |-> "new"]
    /\ backlog = [s \in Servers |-> << >>]
    /\ h = [c \in Clients |-> "none"]
    /\ buf = [c \in Clients |-> << >>]
    /\ zombies = {} /\ sigchld = FALSE
    /\ cli = [c \in Clients |-> "new"]
    /\ on = [c \in Clients |-> Free]
    /\ typed = [c \in Clients |-> 0]
    /\ up = [c \in Clients |-> << >>] /\ down = [c \in Clients |-> << >>]
    /\ reset = {}
    /\ got = [c \in Clients |-> << >>]

-----------------------------------------------------------------------------
(* The server.                                                             *)

Goto(s, l) == srv' = [srv EXCEPT ![s] = l]

\* socket, and unlink in tasks 1 and 4: whoever was bound keeps its clients and
\* those in its backlog.
Unlink(s) ==
    /\ srv[s] = "new"
    /\ name' = IF Unlinks THEN Free ELSE name
    /\ Goto(s, "bind")
    /\ UNCHANGED <<kind, backlog, h, buf, zombies, sigchld, on, clientVars, up, down, reset>>

\* bind: a path that is there, whoever left it, or a port somebody listens on.
\* With SO_REUSEADDR the later of two servers may get past bind, and fails at
\* listen: it ends all the same.
Bind(s) ==
    /\ srv[s] = "bind"
    /\ IF name = Free THEN name' = s /\ Goto(s, "listen")
                      ELSE UNCHANGED name /\ Goto(s, "failed")
    /\ UNCHANGED <<kind, backlog, h, buf, zombies, sigchld, on, clientVars, up, down, reset>>

Listen(s) ==
    /\ srv[s] = "listen"
    /\ Goto(s, "accept")
    /\ UNCHANGED <<startVars, backlog, h, buf, zombies, sigchld, clientVars, up, down, reset>>

\* Mutant: after a failed fork the connection is left open.
AcceptLeak(s) ==
    /\ srv[s] = "accept" /\ backlog[s] # << >>
    /\ \/ h' = [h EXCEPT ![Head(backlog[s])] = "read"] /\ Goto(s, IF Iterative THEN "serve" ELSE "accept")
       \/ ~Iterative /\ UNCHANGED <<h, srv>>
    /\ backlog' = [backlog EXCEPT ![s] = Tail(@)]
    /\ UNCHANGED <<startVars, buf, zombies, sigchld, clientVars, up, down, reset>>

\* accept.  Tasks 1 and 2 serve the client; the others fork a child, and if
\* there is none the client is dropped.
Accept(s) ==
    /\ srv[s] = "accept" /\ backlog[s] # << >>
    /\ LET c == Head(backlog[s]) IN
         \/ h' = [h EXCEPT ![c] = "read"] /\ Goto(s, IF Iterative THEN "serve" ELSE "accept")
         \/ ~Iterative /\ h' = [h EXCEPT ![c] = "closed"] /\ UNCHANGED srv
    /\ backlog' = [backlog EXCEPT ![s] = Tail(@)]
    /\ UNCHANGED <<startVars, buf, zombies, sigchld, clientVars, up, down, reset>>

\* How much a read of sequence s may return: over AF_UNIX all that is there.
Some(s) == IF Inet THEN 1 .. Len(s) ELSE {Len(s)} \ {0}

\* The process that serves c ends the connection; a child ends with it.
Close(c) ==
    /\ h' = [h EXCEPT ![c] = "closed"]
    /\ IF Iterative THEN Goto(on[c], "accept") ELSE UNCHANGED srv
    /\ IF Inet THEN zombies' = zombies \cup {c} /\ sigchld' = TRUE
               ELSE UNCHANGED <<zombies, sigchld>>
    /\ UNCHANGED backlog

\* Mutant: a child shares its buffer with its siblings, as a thread would.
ReadShared(c) ==
    /\ h[c] = "read"
    /\ \E n \in Some(up[c]) :
         /\ buf' = [d \in Clients |-> SubSeq(up[c], 1, n)]
         /\ up' = [up EXCEPT ![c] = SubSeq(@, n + 1, Len(@))]
         /\ h' = [h EXCEPT ![c] = "write"]
    /\ UNCHANGED <<startVars, srv, backlog, zombies, sigchld, clientVars, down, reset>>

Read(c) ==
    /\ h[c] = "read"
    /\ \/ \E n \in Some(up[c]) :
            /\ buf' = [buf EXCEPT ![c] = SubSeq(up[c], 1, n)]
            /\ up' = [up EXCEPT ![c] = SubSeq(@, n + 1, Len(@))]
            /\ h' = [h EXCEPT ![c] = "write"]
            /\ UNCHANGED <<srv, backlog, zombies, sigchld>>
       \/ /\ Gone(c) /\ (up[c] = << >> \/ c \in reset)
          /\ Close(c) /\ UNCHANGED <<buf, up>>
    /\ UNCHANGED <<startVars, clientVars, down, reset>>

\* SIGPIPE ends a child alone, or a server with all its connections.
Sigpipe(c) ==
    IF Iterative
      THEN /\ h' = [d \in Clients |-> IF d = c \/ d \in ToSet(backlog[on[c]]) THEN "closed" ELSE h[d]]
           /\ backlog' = [backlog EXCEPT ![on[c]] = << >>]
           /\ Goto(on[c], "killed") /\ UNCHANGED <<zombies, sigchld>>
      ELSE Close(c)

\* A write to a client that has gone: over AF_UNIX SIGPIPE, over TCP the first
\* one is answered with RST and the next one may raise SIGPIPE.
Write(c) ==
    /\ h[c] = "write"
    /\ IF Gone(c)
         THEN /\ UNCHANGED down
              /\ \/ (~Inet \/ c \in reset) /\ Sigpipe(c) /\ UNCHANGED reset
                 \/ /\ Inet /\ reset' = reset \cup {c} /\ h' = [h EXCEPT ![c] = "read"]
                    /\ UNCHANGED <<srv, backlog, zombies, sigchld>>
         ELSE /\ down' = [down EXCEPT ![c] = @ \o buf[c]]
              /\ h' = [h EXCEPT ![c] = "read"]
              /\ UNCHANGED <<srv, backlog, zombies, sigchld, reset>>
    /\ buf' = [buf EXCEPT ![c] = << >>]
    /\ UNCHANGED <<startVars, clientVars, up>>

\* Mutant: the handler waits for one child only.
ReapOne ==
    /\ sigchld /\ sigchld' = FALSE
    /\ zombies' = IF zombies = {} THEN {} ELSE zombies \ {CHOOSE c \in zombies : TRUE}
    /\ UNCHANGED <<startVars, srv, backlog, h, buf, clientVars, up, down, reset>>

\* sigchld_handler: one signal may stand for several children.  (Task 4 ignores
\* SIGCHLD: the kernel waits for its children.)
Sigchld ==
    /\ sigchld /\ sigchld' = FALSE
    /\ zombies' = {}
    /\ UNCHANGED <<startVars, srv, backlog, h, buf, clientVars, up, down, reset>>

-----------------------------------------------------------------------------
(* The clients.                                                            *)

Connect(c) ==
    /\ cli[c] = "new"
    /\ IF name \in Servers /\ srv[name] \in {"accept", "serve"}
         THEN /\ backlog' = [backlog EXCEPT ![name] = Append(@, c)]
              /\ on' = [on EXCEPT ![c] = name] /\ cli' = [cli EXCEPT ![c] = "type"]
         ELSE cli' = [cli EXCEPT ![c] = "failed"] /\ UNCHANGED <<on, backlog>>
    /\ UNCHANGED <<kind, name, srv, h, buf, zombies, sigchld, typed, up, down, reset, got>>

\* The client's socket is closed; with unread data TCP answers with RST.
Leave(c, l) ==
    /\ cli' = [cli EXCEPT ![c] = l]
    /\ reset' = IF Inet /\ down[c] # << >> THEN reset \cup {c} ELSE reset

\* The pieces of the first n lines of client c.
Pieces(c, n) == IF n = 0 THEN 0 ELSE Lines[c][n]
Stream(c, from, to) == [k \in 1 .. to - from |-> <<c, from + k>>]

\* fgets and write: a line, or the end of the input.  A write to a server that
\* has closed the connection is SIGPIPE over AF_UNIX; over TCP it succeeds.
Type(c) ==
    /\ cli[c] = "type"
    /\ \/ Leave(c, "done") /\ UNCHANGED <<typed, up>>
       \/ /\ typed[c] < Len(Lines[c])
          /\ IF h[c] = "closed" /\ ~Inet THEN Leave(c, "killed") /\ UNCHANGED <<typed, up>>
             ELSE /\ typed' = [typed EXCEPT ![c] = @ + 1]
                  /\ up' = [up EXCEPT ![c] = @ \o Stream(c, Pieces(c, typed[c]), Pieces(c, typed'[c]))]
                  /\ cli' = [cli EXCEPT ![c] = "read"] /\ UNCHANGED reset
    /\ UNCHANGED <<startVars, srv, backlog, h, buf, zombies, sigchld, down, got>>

\* One read for each line, which may return a part of the answer: the rest
\* comes with the answer to the next line.
Recv(c) ==
    /\ cli[c] = "read"
    /\ \/ \E n \in Some(down[c]) :
            /\ got' = [got EXCEPT ![c] = @ \o SubSeq(down[c], 1, n)]
            /\ down' = [down EXCEPT ![c] = SubSeq(@, n + 1, Len(@))]
            /\ cli' = [cli EXCEPT ![c] = "type"] /\ UNCHANGED reset
       \/ down[c] = << >> /\ h[c] = "closed" /\ Leave(c, "done") /\ UNCHANGED <<got, down>>
    /\ UNCHANGED <<startVars, srv, backlog, h, buf, zombies, sigchld, typed, up>>

\* The user interrupts the client.
Interrupt(c) ==
    /\ c \in MayQuit /\ cli[c] \in {"type", "read"}
    /\ Leave(c, "killed")
    /\ UNCHANGED <<startVars, srv, backlog, h, buf, zombies, sigchld, typed, up, down, got>>

EchoNext ==
    \/ \E s \in Servers : Unlink(s) \/ Bind(s) \/ Listen(s) \/ Accept(s)
    \/ \E c \in Clients : Read(c) \/ Write(c) \/ Connect(c) \/ Type(c) \/ Recv(c) \/ Interrupt(c)
    \/ Sigchld

EchoSpec == EchoInit /\ [][EchoNext]_echoVars

\* Processes that can go on do; nobody need start, type or leave.
EchoFairness ==
    /\ \A s \in Servers : WF_echoVars(Accept(s))
    /\ \A c \in Clients : WF_echoVars(Read(c) \/ Write(c) \/ Recv(c))
    /\ WF_echoVars(Sigchld)

-----------------------------------------------------------------------------
(* Properties.                                                             *)

\* Every client gets its own text back, in order, nothing lost and nothing
\* twice, however the reads cut it and whoever else is served; until the
\* server's side of a connection ends, what was sent is in one place.
EchoExact ==
    \A c \in Clients : LET all == Stream(c, 0, Pieces(c, typed[c])) IN
        /\ IsPrefix(got[c] \o down[c], all)
        /\ (~Gone(c) /\ h[c] # "closed") => got[c] \o down[c] \o buf[c] \o up[c] = all

\* A client that comes later waits behind the one that is served while its user
\* thinks.
Behind(c) ==
    /\ Iterative /\ h[c] = "none"
    /\ \E d \in Clients : on[d] = on[c] /\ h[d] = "read" /\ cli[d] = "type"

\* Nobody waits for an answer for ever: not when another client is killed, the
\* server by SIGPIPE with it, a fork fails, or a second server takes the path;
\* with a child for each client not even behind an idle one.
Answered ==
    \A c \in Clients :
        (cli[c] = "read" /\ ~Behind(c)) ~> (cli[c] # "read" \/ Behind(c))

\* Every child that ends is waited for, although signals of children that end
\* together are one.
Reaped == (zombies # {}) ~> (zombies = {})
=============================================================================
