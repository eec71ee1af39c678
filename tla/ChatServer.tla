----------------------------- MODULE ChatServer ------------------------------
(***************************************************************************)
(* The chat room of lab 8 (domain "inet": TCP) and of lab 7 task 5 (domain *)
(* "unix": AF_UNIX stream sockets): one process that selects over its      *)
(* listening socket and its clients and sends what one client says to all  *)
(* others.                                                                 *)
(*                                                                         *)
(* A message is known by who said it and by its number.  recv may return   *)
(* several messages at once.  Descriptor 0 is the listening socket, a      *)
(* connection gets the lowest descriptor that is free.  The server has at  *)
(* least as many slots as descriptors (MAX_CLIENTS = FD_SETSIZE, and a     *)
(* descriptor of FD_SETSIZE or more would be outside the fd_set), so a     *)
(* connection it can accept always finds a slot.                           *)
(***************************************************************************)
EXTENDS Integers, Sequences, FiniteSets, SequencesExt

CONSTANTS
    Clients,   \* the client programs, each run once
    Lines,     \* how many lines the user of each client types
    MayQuit,   \* the clients whose process may end at any point
    MaxFd,     \* the highest descriptor a connection can get
    Cap,       \* messages each client's socket holds in one direction
    Domains    \* the address families to run it over: "inet", "unix"

NSlots == MaxFd
Nobody == "nobody"

ASSUME ChatAssumption ==
    /\ Nobody \notin Clients
    /\ Lines \in [Clients -> Nat]
    /\ MayQuit \subseteq Clients
    /\ MaxFd \in Nat \ {0} /\ Cap \in [Clients -> Nat \ {0}]
    /\ Domains \subseteq {"inet", "unix"}

VARIABLES
    domain,  \* inet: the programs of lab 8, unix: those of lab 7
    pc,      \* the server: select, accept, scan, bcast; killed by SIGPIPE
    socks,   \* client_socks: the descriptor in each slot
    allset, rset, maxfd, nready,
    i, j,    \* the slot being served and the slot being sent to
    buf,     \* what recv returned
    sent,    \* how much of buf slot j has been sent
    conn,    \* the client behind each descriptor
    backlog, \* connections not accepted yet
    life,    \* each client: out, in, half (shut down for writing), closed
    said,    \* the lines each client has sent
    pend,    \* is the client inside send() with a line?
    up, down,\* what is in the sockets, towards the server and the client
    reset,   \* the clients whose closed socket has answered a write
    got,     \* what each client has printed
    missed   \* history: how much of s was forwarded before r was accepted

vars == <<domain, pc, socks, allset, rset, maxfd, nready, i, j, buf, sent, conn, backlog,
          life, said, pend, up, down, reset, got, missed>>
loopVars == <<rset, nready, i, j, buf, sent>>
tableVars == <<socks, allset, maxfd, conn, missed>>
clientVars == <<domain, life, said, pend, got>>

Listen == 0
Free == -1
Fds == 1 .. MaxFd
Slots == 1 .. NSlots
Messages == [by : Clients, no : Nat]

Unix == domain = "unix"

TypeOK ==
    /\ domain \in Domains
    /\ pc \in {"select", "accept", "scan", "bcast", "killed"}
    /\ socks \in [Slots -> Fds \cup {Free}]
    /\ allset \subseteq Fds \cup {Listen} /\ rset \subseteq Fds \cup {Listen}
    /\ maxfd \in 0 .. MaxFd
    /\ nready \in 0 .. MaxFd + 1
    /\ i \in 1 .. NSlots + 1 /\ j \in 1 .. NSlots + 1
    /\ buf \in Seq(Messages) /\ sent \in 0 .. Len(buf)
    /\ conn \in [Fds -> Clients \cup {Nobody}]
    /\ backlog \in Seq(Clients)
    /\ life \in [Clients -> {"out", "in", "half", "closed"}]
    /\ said \in [Clients -> Nat] /\ \A c \in Clients : said[c] <= Lines[c]
    /\ pend \in [Clients -> BOOLEAN]
    /\ up \in [Clients -> Seq(Messages)] /\ down \in [Clients -> Seq(Messages)]
    /\ \A c \in Clients : Len(up[c]) <= Cap[c] /\ Len(down[c]) <= Cap[c]
    /\ reset \subseteq Clients
    /\ got \in [Clients -> Seq(Messages)]
    /\ missed \in [Clients -> [Clients -> Nat]]

Init ==
    /\ domain \in Domains
    /\ pc = "select"
    /\ socks = [k \in Slots |-> Free]
    /\ allset = {Listen} /\ rset = {}
    /\ maxfd = Listen
    /\ nready = 0
    /\ i = 1 /\ j = 1
    /\ buf = << >> /\ sent = 0
    /\ conn = [f \in Fds |-> Nobody]
    /\ backlog = << >>
    /\ life = [c \in Clients |-> "out"]
    /\ said = [c \in Clients |-> 0]
    /\ pend = [c \in Clients |-> FALSE]
    /\ up = [c \in Clients |-> << >>] /\ down = [c \in Clients |-> << >>]
    /\ reset = {}
    /\ got = [c \in Clients |-> << >>]
    /\ missed = [r \in Clients |-> [s \in Clients |-> 0]]

\* How many messages of s were taken off its socket.
Taken(s) == said[s] - Len(up[s])

-----------------------------------------------------------------------------
(* The server.                                                             *)

\* Would accept or recv on descriptor f return at once?
Ready(f) ==
    IF f = Listen THEN backlog # << >>
    ELSE up[conn[f]] # << >> \/ life[conn[f]] \in {"half", "closed"}

\* Mutant: a round starts with what is left of the last round's set.
SelectKeeps ==
    /\ pc = "select"
    /\ rset' = {f \in allset : f <= maxfd /\ (Ready(f) \/ f \in rset \ {Listen})}
    /\ \E f \in allset : Ready(f)
    /\ nready' = Cardinality(rset')
    /\ pc' = IF Listen \in rset' THEN "accept" ELSE "scan"
    /\ i' = 1
    /\ UNCHANGED <<tableVars, j, buf, sent, backlog, clientVars, up, down, reset>>

\* select on a copy of allset: blocks until one of them is ready.
Select ==
    /\ pc = "select"
    /\ rset' = {f \in allset : f <= maxfd /\ Ready(f)}
    /\ rset' # {}
    /\ nready' = Cardinality(rset')
    /\ pc' = IF Listen \in rset' THEN "accept" ELSE "scan"
    /\ i' = 1
    /\ UNCHANGED <<tableVars, j, buf, sent, backlog, clientVars, up, down, reset>>

\* Mutant: every served socket sends the server back to select.
OneARound(next) ==
    /\ nready' = nready - 1
    /\ pc' = "select"

\* if (--nready <= 0): the round is over.  Lab 7 has no such test.
AfterOne(next) ==
    /\ nready' = nready - 1
    /\ pc' = IF ~Unix /\ nready - 1 <= 0 THEN "select" ELSE next

\* accept into the first free slot; it fails, and the connection stays where
\* it is, when the process has no descriptor left.
Accept ==
    /\ pc = "accept"
    /\ \/ \E f \in Fds :
             /\ conn[f] = Nobody /\ \A g \in Fds : g < f => conn[g] # Nobody
             /\ conn' = [conn EXCEPT ![f] = Head(backlog)]
             /\ \E k \in Slots :
                   /\ socks[k] = Free /\ \A h \in Slots : h < k => socks[h] # Free
                   /\ socks' = [socks EXCEPT ![k] = f]
             /\ allset' = allset \cup {f}
             /\ maxfd' = IF f > maxfd THEN f ELSE maxfd
             /\ backlog' = Tail(backlog)
             /\ missed' = [missed EXCEPT ![Head(backlog)] = [s \in Clients |-> Taken(s)]]
       \/ /\ \A f \in Fds : conn[f] # Nobody
          /\ UNCHANGED <<tableVars, backlog>>
    /\ AfterOne("scan")
    /\ UNCHANGED <<rset, i, j, buf, sent, clientVars, up, down, reset>>

\* The next slot, from slot k on, whose socket is in set s.
NextIn(k, s) == {h \in Slots : h >= k /\ socks[h] \in s}
First(S) == CHOOSE h \in S : \A g \in S : h <= g

\* recv: some of what has arrived.
Recv ==
    /\ pc = "scan"
    /\ NextIn(i, rset) # {}
    /\ LET k == First(NextIn(i, rset)) IN
       LET c == conn[socks[k]] IN
         /\ \E n \in 1 .. Len(up[c]) :
               /\ buf' = SubSeq(up[c], 1, n)
               /\ up' = [up EXCEPT ![c] = SubSeq(@, n + 1, Len(@))]
         /\ i' = k
    /\ pc' = "bcast"
    /\ j' = 1
    /\ UNCHANGED <<tableVars, rset, nready, sent, backlog, clientVars, down, reset>>

\* Mutant: a slot is given back with 0, not with -1.
HangupZero ==
    /\ pc = "scan"
    /\ NextIn(i, rset) # {}
    /\ LET k == First(NextIn(i, rset)) IN
       LET f == socks[k] IN
         /\ up[conn[f]] = << >> /\ life[conn[f]] \in {"half", "closed"}
         /\ conn' = [conn EXCEPT ![f] = Nobody]
         /\ allset' = allset \ {f}
         /\ socks' = [socks EXCEPT ![k] = 0]
         /\ i' = k + 1
    /\ AfterOne("scan")
    /\ UNCHANGED <<maxfd, missed, rset, j, buf, sent, backlog, clientVars, up, down, reset>>

\* Mutant: the socket is closed but left in the set that select watches.
HangupWatched ==
    /\ pc = "scan"
    /\ NextIn(i, rset) # {}
    /\ LET k == First(NextIn(i, rset)) IN
       LET f == socks[k] IN
         /\ up[conn[f]] = << >> /\ life[conn[f]] \in {"half", "closed"}
         /\ conn' = [conn EXCEPT ![f] = Nobody]
         /\ socks' = [socks EXCEPT ![k] = Free]
         /\ i' = k + 1
    /\ AfterOne("scan")
    /\ UNCHANGED <<allset, maxfd, missed, rset, j, buf, sent, backlog, clientVars,
                   up, down, reset>>

\* recv returns 0 or -1: close the socket and clear its slot.
Hangup ==
    /\ pc = "scan"
    /\ NextIn(i, rset) # {}
    /\ LET k == First(NextIn(i, rset)) IN
       LET f == socks[k] IN
         /\ up[conn[f]] = << >> /\ life[conn[f]] \in {"half", "closed"}
         /\ conn' = [conn EXCEPT ![f] = Nobody]
         /\ allset' = allset \ {f}
         /\ socks' = [socks EXCEPT ![k] = Free]
         /\ i' = k + 1
    /\ AfterOne("scan")
    /\ UNCHANGED <<maxfd, missed, rset, j, buf, sent, backlog, clientVars, up, down, reset>>

ScanEnd ==
    /\ pc = "scan"
    /\ NextIn(i, rset) = {}
    /\ pc' = "select"
    /\ UNCHANGED <<tableVars, loopVars, backlog, clientVars, up, down, reset>>

\* Mutant: all clients, the one that spoke too.
Everybody == Fds

\* if (sockfd == socks[i]) continue.
Others == Fds \ {socks[i]}

\* Mutant: one send for each client, whatever part of buf it takes.
SendOnce ==
    /\ pc = "bcast"
    /\ NextIn(j, Others) # {}
    /\ LET k == First(NextIn(j, Others)) IN
       LET c == conn[socks[k]] IN
         /\ life[c] # "closed"
         /\ Len(down[c]) < Cap[c]
         /\ down' = [down EXCEPT ![c] = Append(@, buf[1])]
         /\ j' = k + 1
    /\ UNCHANGED <<tableVars, rset, nready, i, buf, sent, backlog, clientVars, up, pc, reset>>

\* send to the next other client, in pieces, until all of buf is sent or send
\* fails.  It blocks while the socket is full.  To a
\* client that has closed its socket nothing can be sent: TCP takes the bytes
\* until the reset that answers them arrives, and from then on, or at once for
\* AF_UNIX, the process is killed by SIGPIPE, which it does not ignore.
Send ==
    /\ pc = "bcast"
    /\ NextIn(j, Others) # {}
    /\ LET k == First(NextIn(j, Others)) IN
       LET c == conn[socks[k]] IN
         \/ /\ life[c] # "closed"
            /\ Len(down[c]) < Cap[c]
            /\ down' = [down EXCEPT ![c] = Append(@, buf[sent + 1])]
            /\ IF sent + 1 < Len(buf)
                 THEN sent' = sent + 1 /\ j' = j
                 ELSE sent' = 0 /\ j' = k + 1
            /\ UNCHANGED <<pc, reset>>
         \/ /\ life[c] = "closed" /\ ~Unix /\ c \notin reset
            /\ reset' \in {reset, reset \cup {c}}
            /\ sent' = 0 /\ j' = k + 1
            /\ UNCHANGED <<pc, down>>
         \/ /\ life[c] = "closed" /\ (Unix \/ c \in reset)
            /\ pc' = "killed"
            /\ UNCHANGED <<down, reset, sent, j>>
    /\ UNCHANGED <<tableVars, rset, nready, i, buf, backlog, clientVars, up>>

SendEnd ==
    /\ pc = "bcast"
    /\ NextIn(j, Others) = {}
    /\ buf' = << >>
    /\ i' = i + 1
    /\ AfterOne("scan")
    /\ UNCHANGED <<tableVars, rset, j, sent, backlog, clientVars, up, down, reset>>

ServerStep == Select \/ Accept \/ Recv \/ Hangup \/ ScanEnd \/ Send \/ SendEnd

-----------------------------------------------------------------------------
(* Client c.  Once the server is gone the session is over.                 *)

ClientSide(c) ==
    /\ pc # "killed"
    /\ UNCHANGED <<domain, pc, tableVars, loopVars, reset>>

Connect(c) ==
    /\ ClientSide(c)
    /\ life[c] = "out"
    /\ life' = [life EXCEPT ![c] = "in"]
    /\ backlog' = Append(backlog, c)
    /\ UNCHANGED <<said, pend, up, down, got>>

\* fgets returns a line, and the client enters send.
Type(c) ==
    /\ ClientSide(c)
    /\ life[c] = "in" /\ ~pend[c]
    /\ said[c] < Lines[c]
    /\ pend' = [pend EXCEPT ![c] = TRUE]
    /\ UNCHANGED <<backlog, life, said, up, down, got>>

\* send returns: while it blocks the client reads nothing.
Sent(c) ==
    /\ ClientSide(c)
    /\ life[c] = "in" /\ pend[c]
    /\ Len(up[c]) < Cap[c]
    /\ up' = [up EXCEPT ![c] = Append(@, [by |-> c, no |-> said[c] + 1])]
    /\ said' = [said EXCEPT ![c] = @ + 1]
    /\ pend' = [pend EXCEPT ![c] = FALSE]
    /\ UNCHANGED <<backlog, life, down, got>>

Hear(c) ==
    /\ ClientSide(c)
    /\ life[c] \in {"in", "half"} /\ ~pend[c]
    /\ down[c] # << >>
    /\ got' = [got EXCEPT ![c] = Append(@, Head(down[c]))]
    /\ down' = [down EXCEPT ![c] = Tail(@)]
    /\ UNCHANGED <<backlog, life, said, pend, up>>

\* End of the user's input.  Lab 8 shuts the socket down for writing and keeps
\* reading; lab 7 closes it.
EndInput(c) ==
    /\ ClientSide(c)
    /\ life[c] = "in" /\ ~pend[c]
    /\ said[c] = Lines[c]
    /\ life' = [life EXCEPT ![c] = IF Unix THEN "closed" ELSE "half"]
    /\ UNCHANGED <<backlog, said, pend, up, down, got>>

\* recv returns 0: the server has closed this client's socket.
SeeClosed(c) ==
    /\ ClientSide(c)
    /\ life[c] = "half" /\ down[c] = << >>
    /\ c \notin ToSet(backlog) /\ \A f \in Fds : conn[f] # c
    /\ life' = [life EXCEPT ![c] = "closed"]
    /\ UNCHANGED <<backlog, said, pend, up, down, got>>

\* The client is interrupted; what it has not read is gone.
Quit(c) ==
    /\ ClientSide(c)
    /\ c \in MayQuit
    /\ life[c] \in {"in", "half"}
    /\ life' = [life EXCEPT ![c] = "closed"]
    /\ pend' = [pend EXCEPT ![c] = FALSE]
    /\ UNCHANGED <<backlog, said, up, down, got>>

ClientStep(c) ==
    Connect(c) \/ Type(c) \/ Sent(c) \/ Hear(c) \/ EndInput(c) \/ SeeClosed(c)

Next == ServerStep \/ \E c \in Clients : ClientStep(c) \/ Quit(c)

Spec == Init /\ [][Next]_vars

\* The scheduler runs the server; a client that can get on does, but its user
\* need not type or end the input.
FairSpec ==
    /\ Spec
    /\ WF_vars(ServerStep)
    /\ \A c \in Clients : WF_vars(Sent(c) \/ Hear(c) \/ SeeClosed(c))

-----------------------------------------------------------------------------
(* Properties.                                                             *)

\* The set given to select is the listening socket and the sockets in the
\* slots, no socket is in two slots, and none is above maxfd: a socket that is
\* closed or forgotten in one table is so in all.
TablesAgree ==
    LET used == {k \in Slots : socks[k] # Free} IN
    /\ allset = {Listen} \cup {socks[k] : k \in used}
    /\ \A k, h \in used : socks[k] = socks[h] => k = h
    /\ \A f \in Fds : conn[f] # Nobody <=> f \in allset
    /\ \A f \in allset : f <= maxfd

\* The server never enters a recv that would block: what select reported is
\* still true when the slot's turn comes, although other slots were served,
\* sockets closed and a descriptor handed out in between.
RecvReady ==
    pc = "scan" => \A k \in NextIn(i, rset) : Ready(socks[k])

\* What client r has printed or will print, and how many of the first n messages
\* of a stream are from s.
Stream(r) == got[r] \o down[r]
Count(h, s, n) == Cardinality({m \in 1 .. n : h[m].by = s})

\* A client hears each other one without a gap, a repetition or a swap, from
\* the moment it was accepted; when the server waits for the next event it has
\* been sent everything said since.  It never hears itself.
Faithful ==
    \A r \in Clients :
        LET h == Stream(r) IN
        /\ \A n \in 1 .. Len(h) :
              h[n].by # r /\ h[n].no = missed[r][h[n].by] + Count(h, h[n].by, n)
        /\ pc = "select" /\ r \in Range(conn) /\ life[r] # "closed" =>
              \A s \in Clients \ {r} : Count(h, s, Len(h)) = Taken(s) - missed[r][s]

\* The server waits in send for a client that itself waits in send.
Embraced ==
    /\ pc = "bcast"
    /\ NextIn(j, Others) # {}
    /\ LET c == conn[socks[First(NextIn(j, Others))]] IN
         pend[c] /\ Len(up[c]) = Cap[c] /\ Len(down[c]) = Cap[c]

\* What an accepted client has sent is taken off its socket, and a connection
\* is accepted unless all descriptors stay in use: one full socket or a
\* descriptor shortage delays the others but only the two ends of a session
\* waiting for each other, or SIGPIPE, stop the chat.
Heard ==
    \A c \in Clients :
        /\ (up[c] # << >> /\ c \notin ToSet(backlog))
              ~> (up[c] = << >> \/ pc = "killed" \/ Embraced)
        /\ (c \in ToSet(backlog))
              ~> (c \notin ToSet(backlog) \/ pc = "killed" \/ Embraced
                    \/ Nobody \notin Range(conn))

\* The server accepts connections and forwards messages whatever one client
\* does: nobody's leaving ends the chat.
ChatGoesOn == pc # "killed"

-----------------------------------------------------------------------------
(* The broadcast that the server and its clients implement.                *)

Seated == IF pc = "killed" THEN {} ELSE Range(conn) \ {Nobody}
Listening == {c \in Seated : life[c] # "closed"}

\* What was taken off the speaker's socket, and how much of it went out on slot k.
Floor == IF pc = "bcast" THEN buf ELSE << >>
Given(k) == IF k < j THEN Len(buf) ELSE IF k = First(NextIn(j, Others)) THEN sent ELSE 0

\* How much of it each client that can still be sent to was sent.
SlotOf(c) == CHOOSE k \in Slots : socks[k] \in Fds /\ conn[socks[k]] = c
At == [c \in Clients |->
         IF pc = "bcast" /\ c \in Listening \ {conn[socks[i]]} THEN Given(SlotOf(c)) ELSE 0]

\* A client has been sent a message when it is in its socket.
Room == INSTANCE Broadcast WITH
    seated <- Seated, listening <- Listening, floor <- Floor, at <- At,
    stream <- [c \in Clients |-> Stream(c)]

\* The server with its slots, its rounds and its sends in pieces does what a
\* broadcast does: what one client says goes to everybody else who is there and
\* listens, each message once, before the next one has the floor and before
\* anybody is seated or dismissed; the chat ends in the middle of a message only
\* when somebody has closed its socket.
BroadcastSpec == Room!Spec
=============================================================================
