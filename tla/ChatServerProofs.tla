-------------------------- MODULE ChatServerProofs ---------------------------
(***************************************************************************)
(* Theorems on ChatServer, over TCP and AF_UNIX sockets, for any number of *)
(* clients with any number of lines, sockets of any capacity, and any      *)
(* number of descriptors.                                                  *)
(***************************************************************************)
EXTENDS ChatServer, FiniteSetTheorems, WellFoundedInduction, SequenceTheorems, TLAPS

\* The server's tables, element by element: a descriptor is watched exactly when
\* it is in a slot, and exactly when it is open; it is in one slot only.
Tables ==
    /\ Listen \in allset
    /\ \A f \in Fds : f \in allset <=> \E k \in Slots : socks[k] = f
    /\ \A f \in Fds : f \in allset <=> conn[f] # Nobody
    /\ \A k, h \in Slots : socks[k] = socks[h] => socks[k] = Free \/ k = h
    /\ \A f \in allset : f <= maxfd

\* A client has one connection: not made yet, waiting to be accepted, or behind
\* one descriptor.
OneSocket ==
    /\ \A f, g \in Fds : conn[f] = conn[g] => conn[f] = Nobody \/ f = g
    /\ \A m, n \in 1 .. Len(backlog) : backlog[m] = backlog[n] => m = n
    /\ \A f \in Fds, n \in 1 .. Len(backlog) : conn[f] # backlog[n]
    /\ \A c \in Clients : life[c] = "out" =>
          /\ \A f \in Fds : conn[f] # c
          /\ \A n \in 1 .. Len(backlog) : backlog[n] # c

\* What waits on a client's socket was said, and a client in send has a line left.
Flow ==
    \A c \in Clients :
        /\ Len(up[c]) <= said[c]
        /\ pend[c] => said[c] < Lines[c]

\* The descriptors this round has still to serve, from slot k on.
Left(k) == {socks[h] : h \in NextIn(k, rset)}

\* What select has reported and nobody has served is still ready, and nready
\* counts at least that much.
Round ==
    /\ pc = "accept" =>
         /\ Listen \in rset /\ rset \subseteq allset
         /\ nready = Cardinality(rset)
         /\ \A f \in rset : Ready(f)
         /\ i = 1
    /\ pc = "scan" =>
         /\ nready >= Cardinality(Left(i))
         /\ \A f \in Left(i) : Ready(f)
    /\ pc = "bcast" =>
         /\ i \in Slots
         /\ nready >= Cardinality(Left(i + 1)) + 1
         /\ \A f \in Left(i + 1) : Ready(f)

\* There is something to send while the server sends, and a message cut short has
\* somebody to go to.
Sending ==
    /\ pc = "bcast" => sent < Len(buf)
    /\ sent # 0 =>
         \/ pc = "bcast" /\ NextIn(j, Others) # {}
         \/ pc = "killed"

IInv == TypeOK /\ Tables /\ OneSocket /\ Flow /\ Round /\ Sending

-----------------------------------------------------------------------------
(* The operators of the model.                                             *)

LEMMA Descriptors ==
    /\ MaxFd \in Nat /\ MaxFd > 0 /\ NSlots = MaxFd
    /\ Fds \cup {Listen} = 0 .. MaxFd
    /\ Listen \notin Fds /\ Free \notin Fds /\ Listen # Free
    /\ IsFiniteSet(Fds \cup {Listen}) /\ Cardinality(Fds \cup {Listen}) = MaxFd + 1
    /\ Nobody \notin Clients
<1>1. MaxFd \in Nat /\ MaxFd > 0 /\ Nobody \notin Clients
  BY ChatAssumption
<1>2. Fds \cup {Listen} = 0 .. MaxFd
  BY <1>1 DEF Fds, Listen
<1>3. IsFiniteSet(0 .. MaxFd) /\ Cardinality(0 .. MaxFd) = MaxFd + 1
  BY <1>1, FS_Interval
<1>4. Listen \notin Fds /\ Free \notin Fds /\ Listen # Free /\ NSlots = MaxFd
  BY <1>1 DEF NSlots, Fds, Listen, Free
<1>5. IsFiniteSet(Fds \cup {Listen}) /\ Cardinality(Fds \cup {Listen}) = MaxFd + 1
  BY <1>2, <1>3
<1> QED
  BY <1>1, <1>2, <1>4, <1>5

LEMMA AppendIs ==
    ASSUME NEW S, NEW s \in Seq(S), NEW e \in S
    PROVE  /\ Append(s, e) \in Seq(S) /\ Append(s, e) # << >>
           /\ Len(s) \in Nat /\ Len(Append(s, e)) = Len(s) + 1
           /\ \A n \in 1 .. Len(s) : Append(s, e)[n] = s[n]
           /\ Append(s, e)[Len(s) + 1] = e
  OBVIOUS

LEMMA TailIs ==
    ASSUME NEW S, NEW s \in Seq(S), s # << >>
    PROVE  /\ Tail(s) \in Seq(S)
           /\ Len(s) \in Nat /\ Len(s) > 0 /\ Len(Tail(s)) = Len(s) - 1
           /\ \A n \in 1 .. Len(Tail(s)) : Tail(s)[n] = s[n + 1]
           /\ Head(s) = s[1] /\ Head(s) \in S
  OBVIOUS

\* A set of naturals that is not empty has a least element.
LEMMA Least ==
    ASSUME NEW S \in SUBSET Nat, S # {}
    PROVE  \E h \in S : \A g \in S : h <= g
<1> DEFINE R == OpToRel(<, Nat)
<1>1. IsWellFoundedOn(R, Nat)
  BY NatLessThanWellFounded
<1>2. \A x, y \in Nat : <<y, x>> \in R <=> y < x
  BY DEF OpToRel
<1> HIDE DEF R
<1>3. PICK h \in S : \A g \in S : ~(<<g, h>> \in R)
  BY <1>1, WFMin
<1>4. \A g \in S : h <= g
  <2> SUFFICES ASSUME NEW g \in S PROVE h <= g
    OBVIOUS
  <2>1. h \in Nat /\ g \in Nat
    OBVIOUS
  <2>2. ~(g < h)
    BY <1>2, <1>3, <2>1
  <2> QED
    BY <2>1, <2>2
<1> QED
  BY <1>4

LEMMA FirstIs ==
    ASSUME NEW S \in SUBSET Nat, S # {}
    PROVE  First(S) \in S /\ \A g \in S : First(S) <= g
  BY Least DEF First

\* The next slot with a socket of s, and the client behind it.
LEMMA NextSlot ==
    ASSUME TypeOK, Tables, NEW n \in Nat, NEW s \in SUBSET (Fds \cup {Listen}),
           NextIn(n, s) # {}, NEW k, k = First(NextIn(n, s))
    PROVE  /\ k \in Slots /\ k >= n
           /\ socks[k] \in s /\ socks[k] \in Fds /\ socks[k] \in allset
           /\ conn[socks[k]] \in Clients
           /\ \A h \in Slots : h >= n /\ socks[h] \in s => k <= h
<1>1. Slots \subseteq Nat /\ NextIn(n, s) \subseteq Nat
  BY Descriptors DEF Slots, NextIn
<1>2. k \in NextIn(n, s) /\ \A h \in NextIn(n, s) : k <= h
  BY <1>1, FirstIs
<1>3. k \in Slots /\ k >= n /\ socks[k] \in s
  BY <1>2 DEF NextIn
<1>4. socks[k] \in Fds
  BY <1>3, Descriptors DEF TypeOK
<1>5. socks[k] \in allset /\ conn[socks[k]] # Nobody
  BY <1>3, <1>4 DEF Tables
<1>6. conn[socks[k]] \in Clients
  BY <1>4, <1>5 DEF TypeOK
<1>7. \A h \in Slots : h >= n /\ socks[h] \in s => k <= h
  BY <1>2 DEF NextIn
<1> QED
  BY <1>3, <1>4, <1>5, <1>6, <1>7

\* The descriptors still to be served, and what serving the first of them leaves.
LEMMA LeftIs ==
    ASSUME TypeOK, NEW n \in Nat
    PROVE  /\ \A f : f \in Left(n) <=> \E h \in Slots : h >= n /\ socks[h] = f /\ f \in rset
           /\ Left(n) \subseteq Fds
           /\ IsFiniteSet(Left(n)) /\ Cardinality(Left(n)) \in Nat
<1>1. \A f : f \in Left(n) <=> \E h \in Slots : h >= n /\ socks[h] = f /\ f \in rset
  BY DEF Left, NextIn
<1>2. Left(n) \subseteq Fds
  BY <1>1, Descriptors DEF TypeOK
<1>3. IsFiniteSet(Left(n))
  BY <1>2, Descriptors, FS_Subset
<1> QED
  BY <1>1, <1>2, <1>3, FS_CardinalityType

LEMMA LeftOfFirst ==
    ASSUME TypeOK, Tables, NEW n \in Nat,
           NextIn(n, rset) # {}, NEW k, k = First(NextIn(n, rset))
    PROVE  /\ socks[k] \in Left(n) /\ socks[k] \notin Left(k + 1)
           /\ Left(k + 1) \subseteq Left(n)
           /\ Cardinality(Left(n)) = Cardinality(Left(k + 1)) + 1
<1>1. /\ k \in Slots /\ k >= n /\ socks[k] \in rset /\ socks[k] \in Fds
      /\ \A h \in Slots : h >= n /\ socks[h] \in rset => k <= h
  BY NextSlot DEF TypeOK
<1>2. k \in Nat /\ k + 1 \in Nat /\ Slots \subseteq Nat
  BY <1>1, Descriptors DEF Slots
<1>3. socks[k] \in Left(n)
  BY <1>1, LeftIs
<1>4. socks[k] \notin Left(k + 1)
  <2> SUFFICES ASSUME NEW h \in Slots, h >= k + 1, socks[h] = socks[k] PROVE FALSE
    BY <1>2, LeftIs
  <2>1. h = k
    BY <1>1, Descriptors DEF Tables
  <2> QED
    BY <1>2, <2>1
<1>5. Left(n) = Left(k + 1) \cup {socks[k]}
  <2>1. ASSUME NEW f \in Left(n), f # socks[k] PROVE f \in Left(k + 1)
    <3>1. PICK h \in Slots : h >= n /\ socks[h] = f /\ f \in rset
      BY <2>1, LeftIs
    <3>2. h >= k /\ h # k
      BY <1>1, <2>1, <3>1
    <3>3. h >= k + 1
      BY <1>2, <3>2
    <3> QED
      BY <1>2, <3>1, <3>3, LeftIs
  <2>2. ASSUME NEW f \in Left(k + 1) PROVE f \in Left(n)
    <3>1. PICK h \in Slots : h >= k + 1 /\ socks[h] = f /\ f \in rset
      BY <1>2, LeftIs
    <3>2. h >= n
      BY <1>1, <1>2, <3>1
    <3> QED
      BY <3>1, <3>2, LeftIs
  <2> QED
    BY <1>3, <2>1, <2>2
<1>6. IsFiniteSet(Left(k + 1))
  BY <1>2, LeftIs
<1>7. Cardinality(Left(n)) = Cardinality(Left(k + 1)) + 1
  BY <1>4, <1>5, <1>6, FS_AddElement
<1> QED
  BY <1>3, <1>4, <1>5, <1>7

-----------------------------------------------------------------------------
(* The initial state, and the parts of the invariant a step may leave alone. *)

LEMMA InvInit == Init => IInv
<1> SUFFICES ASSUME Init PROVE IInv
  OBVIOUS
<1> USE ChatAssumption, Descriptors
<1>1. TypeOK
  <2>1. /\ domain \in Domains /\ pc = "select" /\ reset = {}
        /\ socks \in [Slots -> Fds \cup {Free}]
        /\ allset \subseteq Fds \cup {Listen} /\ rset \subseteq Fds \cup {Listen}
        /\ conn \in [Fds -> Clients \cup {Nobody}]
        /\ backlog \in Seq(Clients)
        /\ life \in [Clients -> {"out", "in", "half", "closed"}]
        /\ pend \in [Clients -> BOOLEAN]
        /\ up \in [Clients -> Seq(Messages)] /\ down \in [Clients -> Seq(Messages)]
        /\ got \in [Clients -> Seq(Messages)]
        /\ missed \in [Clients -> [Clients -> Nat]]
        /\ said \in [Clients -> Nat]
    BY DEF Init
  <2>2. \A c \in Clients : Lines[c] \in Nat /\ Cap[c] \in Nat
    OBVIOUS
  <2>3. \A c \in Clients : said[c] <= Lines[c]
    BY <2>2 DEF Init
  <2>4. \A c \in Clients : Len(up[c]) <= Cap[c] /\ Len(down[c]) <= Cap[c]
    BY <2>2 DEF Init
  <2>5. /\ maxfd \in 0 .. MaxFd /\ nready \in 0 .. MaxFd + 1
        /\ i \in 1 .. NSlots + 1 /\ j \in 1 .. NSlots + 1
    BY DEF Init, Listen
  <2>6. buf \in Seq(Messages) /\ sent \in 0 .. Len(buf)
    BY DEF Init
  <2> QED
    BY <2>1, <2>3, <2>4, <2>5, <2>6 DEF TypeOK
<1>2. Tables
  BY DEF Init, Tables, Listen, Fds
<1>3. OneSocket
  BY DEF Init, OneSocket
<1>4. Flow
  BY DEF Init, Flow
<1>5. Round /\ Sending
  BY DEF Init, Round, Sending
<1> QED
  BY <1>1, <1>2, <1>3, <1>4, <1>5 DEF IInv

LEMMA SameTables ==
    ASSUME Tables, UNCHANGED <<socks, allset, maxfd, conn>>
    PROVE  Tables'
  BY DEF Tables

LEMMA SameSockets ==
    ASSUME OneSocket, UNCHANGED <<conn, backlog>>,
           \A c \in Clients : life'[c] = "out" => life[c] = "out"
    PROVE  OneSocket'
  BY DEF OneSocket

\* What a client does between two steps of the server takes nothing from the round:
\* a socket that was ready stays so.
LEMMA SameRound ==
    ASSUME TypeOK, Tables, Round, UNCHANGED <<pc, socks, rset, nready, i, conn, allset>>,
           backlog # << >> => backlog' # << >>,
           \A c \in Clients :
              /\ up[c] # << >> => up'[c] # << >> \/ life'[c] \in {"half", "closed"}
              /\ life[c] \in {"half", "closed"} => life'[c] \in {"half", "closed"}
    PROVE  Round'
<1>1. ASSUME NEW f \in allset, Ready(f) PROVE Ready(f)'
  <2>1. CASE f = Listen
    BY <1>1, <2>1 DEF Ready
  <2>2. CASE f # Listen
    <3>1. f \in Fds /\ conn[f] \in Clients
      BY <2>2 DEF TypeOK, Tables
    <3> QED
      BY <1>1, <2>2, <3>1 DEF Ready
  <2> QED
    BY <2>1, <2>2
<1>2. ASSUME NEW n \in Nat PROVE Left(n) \subseteq allset
  BY LeftIs, Descriptors DEF Tables
<1>3. Left(i)' = Left(i) /\ Left(i + 1)' = Left(i + 1)
  BY DEF Left, NextIn
<1>4. i \in Nat /\ i + 1 \in Nat
  BY Descriptors DEF TypeOK
<1> QED
  BY <1>1, <1>2, <1>3, <1>4 DEF Round

LEMMA SameSending ==
    ASSUME Sending, UNCHANGED <<pc, socks, i, j, buf, sent>>
    PROVE  Sending'
<1>1. (NextIn(j, Others) # {})' <=> NextIn(j, Others) # {}
  BY DEF NextIn, Others
<1> QED
  BY <1>1 DEF Sending

-----------------------------------------------------------------------------
(* The server's steps.                                                     *)

LEMMA SelectInv == IInv /\ Select => IInv'
<1> SUFFICES ASSUME IInv, Select PROVE IInv'
  OBVIOUS
<1> USE ChatAssumption, Descriptors
<1> USE DEF tableVars, clientVars
<1>0. TypeOK /\ Tables /\ OneSocket /\ Flow /\ Round /\ Sending
  BY DEF IInv
<1>1. /\ pc = "select" /\ pc' = IF Listen \in rset' THEN "accept" ELSE "scan"
      /\ rset' = {f \in allset : f <= maxfd /\ Ready(f)}
      /\ nready' = Cardinality(rset') /\ i' = 1
      /\ UNCHANGED <<domain, socks, allset, maxfd, conn, missed, j, buf, sent, backlog,
                     life, said, pend, got, up, down, reset>>
  BY DEF Select
<1>2. rset' \subseteq allset /\ rset' \subseteq Fds \cup {Listen}
  BY <1>0, <1>1 DEF TypeOK
<1>3. IsFiniteSet(rset') /\ nready' <= MaxFd + 1 /\ nready' \in Nat
  BY <1>1, <1>2, FS_Subset, FS_CardinalityType
<1>4. TypeOK'
  <2>1. nready' \in 0 .. MaxFd + 1 /\ i' \in 1 .. NSlots + 1
    BY <1>1, <1>3
  <2>2. pc' \in {"select", "accept", "scan", "bcast", "killed"}
    BY <1>1
  <2> QED
    BY <1>0, <1>1, <1>2, <2>1, <2>2 DEF TypeOK
<1>5. Tables' /\ OneSocket' /\ Flow'
  BY <1>0, <1>1, SameTables, SameSockets DEF Flow
<1>6. \A f \in rset' : Ready(f)'
  BY <1>1 DEF Ready
<1>7. Round'
  <2>1. \A f \in Left(i)' : f \in rset'
    BY DEF Left, NextIn
  <2>2. Cardinality(Left(i)') <= nready'
    BY <1>1, <1>3, <2>1, FS_Subset
  <2>3. Cardinality(Left(i)') \in Nat
    BY <1>3, <2>1, FS_Subset, FS_CardinalityType
  <2> QED
    BY <1>1, <1>2, <1>3, <1>6, <2>1, <2>2, <2>3 DEF Round
<1>8. Sending'
  BY <1>0, <1>1 DEF Sending
<1> QED
  BY <1>4, <1>5, <1>7, <1>8 DEF IInv

LEMMA AcceptInv == IInv /\ Accept => IInv'
<1> SUFFICES ASSUME IInv, Accept PROVE IInv'
  OBVIOUS
<1> USE ChatAssumption, Descriptors
<1> USE DEF tableVars, clientVars
<1>0. TypeOK /\ Tables /\ OneSocket /\ Flow /\ Round /\ Sending
  BY DEF IInv
<1>1. /\ pc = "accept" /\ pc' \in {"select", "scan"} /\ nready' = nready - 1
      /\ UNCHANGED <<domain, rset, i, j, buf, sent, life, said, pend, got, up, down, reset>>
  BY DEF Accept, AfterOne
<1>2. /\ Listen \in rset /\ rset \subseteq allset /\ nready = Cardinality(rset)
      /\ \A f \in rset : Ready(f)
      /\ backlog # << >>
  BY <1>0, <1>1 DEF Round, Ready
<1>3. IsFiniteSet(rset) /\ nready - 1 = Cardinality(rset \ {Listen}) /\ nready - 1 \in Nat
  <2>1. IsFiniteSet(rset)
    BY <1>0, FS_Subset DEF TypeOK
  <2>2. /\ IsFiniteSet(rset \ {Listen})
        /\ Cardinality(rset \ {Listen}) = Cardinality(rset) - 1
    BY <1>2, <2>1, FS_RemoveElement
  <2> QED
    BY <1>2, <2>1, <2>2, FS_CardinalityType
<1>4. nready' \in 0 .. MaxFd + 1
  BY <1>0, <1>1, <1>3 DEF TypeOK
<1>5. CASE UNCHANGED <<tableVars, backlog>>
  <2>1. TypeOK'
    BY <1>0, <1>1, <1>4, <1>5 DEF TypeOK
  <2>2. Tables' /\ OneSocket' /\ Flow'
    BY <1>0, <1>1, <1>5, SameTables, SameSockets DEF Flow
  <2>3. \A f \in rset : Ready(f)'
    BY <1>1, <1>2, <1>5 DEF Ready
  <2>4. Left(i)' \subseteq rset \ {Listen}
    BY <1>0, <1>1, <1>5 DEF Left, NextIn, TypeOK
  <2>5. Cardinality(Left(i)') <= nready' /\ Cardinality(Left(i)') \in Nat
    BY <1>1, <1>3, <2>4, FS_Subset, FS_CardinalityType, FS_RemoveElement
  <2>6. Round'
    BY <1>1, <1>3, <2>3, <2>4, <2>5 DEF Round
  <2>7. Sending'
    BY <1>0, <1>1 DEF Sending
  <2> QED
    BY <2>1, <2>2, <2>6, <2>7 DEF IInv
<1>6. CASE \E f \in Fds :
             /\ conn[f] = Nobody
             /\ conn' = [conn EXCEPT ![f] = Head(backlog)]
             /\ \E k \in Slots : socks[k] = Free /\ socks' = [socks EXCEPT ![k] = f]
             /\ allset' = allset \cup {f}
             /\ maxfd' = IF f > maxfd THEN f ELSE maxfd
             /\ backlog' = Tail(backlog)
             /\ missed' = [missed EXCEPT ![Head(backlog)] = [s \in Clients |-> Taken(s)]]
  <2>1. PICK f \in Fds :
             /\ conn[f] = Nobody
             /\ conn' = [conn EXCEPT ![f] = Head(backlog)]
             /\ \E k \in Slots : socks[k] = Free /\ socks' = [socks EXCEPT ![k] = f]
             /\ allset' = allset \cup {f}
             /\ maxfd' = IF f > maxfd THEN f ELSE maxfd
             /\ backlog' = Tail(backlog)
             /\ missed' = [missed EXCEPT ![Head(backlog)] = [s \in Clients |-> Taken(s)]]
    BY <1>6
  <2>2. PICK k \in Slots : socks[k] = Free /\ socks' = [socks EXCEPT ![k] = f]
    BY <2>1
  <2>3. PICK c \in Clients : c = Head(backlog)
    <3>1. backlog \in Seq(Clients)
      BY <1>0 DEF TypeOK
    <3>2. Head(backlog) \in Clients
      BY <1>2, <3>1, TailIs
    <3> QED
      BY <3>2
  <2>4. f \notin allset /\ f \notin rset /\ \A h \in Slots : socks[h] # f
    BY <1>0, <1>2, <2>1 DEF Tables
  <2>5. TypeOK'
    <3>1. socks' \in [Slots -> Fds \cup {Free}] /\ conn' \in [Fds -> Clients \cup {Nobody}]
      BY <1>0, <2>1, <2>2, <2>3 DEF TypeOK
    <3>2. allset' \subseteq Fds \cup {Listen} /\ maxfd' \in 0 .. MaxFd
      BY <1>0, <2>1 DEF TypeOK
    <3>3. backlog' \in Seq(Clients)
      BY <1>0, <1>2, <2>1 DEF TypeOK
    <3>4. missed' \in [Clients -> [Clients -> Nat]]
      <4>1. ASSUME NEW s \in Clients PROVE Taken(s) \in Nat
        <5>1. said[s] \in Nat /\ Len(up[s]) \in Nat /\ Len(up[s]) <= said[s]
          BY <1>0 DEF TypeOK, Flow
        <5> QED
          BY <5>1 DEF Taken
      <4>2. [s \in Clients |-> Taken(s)] \in [Clients -> Nat]
        BY <4>1
      <4> QED
        BY <1>0, <2>1, <4>2 DEF TypeOK
    <3> QED
      BY <1>0, <1>1, <1>4, <3>1, <3>2, <3>3, <3>4 DEF TypeOK
  <2>6. Tables'
    <3>1. conn' = [conn EXCEPT ![f] = c] /\ c # Nobody
      BY <2>1, <2>3
    <3>2. \A g \in Fds : conn'[g] = IF g = f THEN c ELSE conn[g]
      BY <1>0, <3>1 DEF TypeOK
    <3>3. \A h \in Slots : socks'[h] = IF h = k THEN f ELSE socks[h]
      BY <1>0, <2>2 DEF TypeOK
    <3>4. \A g \in Fds : g \in allset' <=> \E h \in Slots : socks'[h] = g
      BY <1>0, <2>1, <2>2, <3>3 DEF Tables
    <3>5. \A g \in allset' : g <= maxfd'
      <4>1. \A g \in allset' : g \in Nat
        BY SMTT(30), <2>5 DEF TypeOK
      <4> QED
        BY <1>0, <2>1, <4>1 DEF Tables, TypeOK
    <3>6. \A h, l \in Slots : socks'[h] = socks'[l] => socks'[h] = Free \/ h = l
      BY <1>0, <2>4, <3>3 DEF Tables
    <3> QED
      BY <1>0, <2>1, <3>1, <3>2, <3>4, <3>5, <3>6 DEF Tables
  <2>7. OneSocket'
    <3>1. /\ backlog \in Seq(Clients) /\ Len(backlog) \in Nat /\ Len(backlog) > 0
          /\ Len(backlog') = Len(backlog) - 1 /\ Len(backlog') \in Nat
          /\ \A n \in 1 .. Len(backlog') : backlog'[n] = backlog[n + 1]
          /\ c = backlog[1]
      <4>1. backlog \in Seq(Clients)
        BY <1>0 DEF TypeOK
      <4> QED
        BY <1>2, <2>1, <2>3, <4>1, TailIs
    <3>2. \A n \in 1 .. Len(backlog') : n + 1 \in 1 .. Len(backlog) /\ n + 1 # 1
      BY <3>1
    <3>3. \A g \in Fds : conn'[g] = IF g = f THEN c ELSE conn[g]
      BY <1>0, <2>1, <2>3 DEF TypeOK
    <3>4. 1 \in 1 .. Len(backlog)
      BY <3>1
    <3>5. \A g \in Fds : conn[g] # c
      BY <1>0, <3>1, <3>4 DEF OneSocket
    <3>6. \A n \in 1 .. Len(backlog') : backlog'[n] # c
      BY <1>0, <3>1, <3>2, <3>4 DEF OneSocket
    <3>7. \A g, h \in Fds : conn'[g] = conn'[h] => conn'[g] = Nobody \/ g = h
      BY <1>0, <3>3, <3>5 DEF OneSocket
    <3>8. \A m, n \in 1 .. Len(backlog') : backlog'[m] = backlog'[n] => m = n
      <4> SUFFICES ASSUME NEW m \in 1 .. Len(backlog'), NEW n \in 1 .. Len(backlog'),
                          backlog'[m] = backlog'[n]
                   PROVE  m = n
        OBVIOUS
      <4>1. m + 1 = n + 1
        <5>1. backlog[m + 1] = backlog[n + 1]
          BY <3>1
        <5> QED
          BY <1>0, <3>2, <5>1 DEF OneSocket
      <4> QED
        BY <3>1, <4>1
    <3>9. \A g \in Fds, n \in 1 .. Len(backlog') : conn'[g] # backlog'[n]
      BY <1>0, <3>1, <3>2, <3>3, <3>6 DEF OneSocket
    <3>10. ASSUME NEW d \in Clients, life'[d] = "out"
           PROVE  /\ \A g \in Fds : conn'[g] # d
                  /\ \A n \in 1 .. Len(backlog') : backlog'[n] # d
      <4>1. /\ \A g \in Fds : conn[g] # d
            /\ \A n \in 1 .. Len(backlog) : backlog[n] # d
        BY <1>0, <1>1, <3>10 DEF OneSocket
      <4>2. c # d
        BY <3>1, <3>4, <4>1
      <4>3. \A n \in 1 .. Len(backlog') : backlog'[n] # d
        BY <3>1, <3>2, <4>1
      <4> QED
        BY <3>3, <4>1, <4>2, <4>3
    <3> QED
      BY <3>7, <3>8, <3>9, <3>10 DEF OneSocket
  <2>8. Flow'
    BY <1>0, <1>1 DEF Flow
  <2>9. Round'
    <3>1. \A h \in Slots : socks'[h] = IF h = k THEN f ELSE socks[h]
      BY <1>0, <2>2 DEF TypeOK
    <3>2. Left(i)' \subseteq rset \ {Listen}
      <4>1. \A h \in Slots : socks'[h] # Listen
        BY <2>5 DEF TypeOK
      <4> QED
        BY <1>1, <4>1 DEF Left, NextIn
    <3>3. Cardinality(Left(i)') <= nready' /\ Cardinality(Left(i)') \in Nat
      BY <1>1, <1>3, <3>2, FS_Subset, FS_CardinalityType, FS_RemoveElement
    <3>4. \A g \in rset \ {Listen} : Ready(g)'
      <4> SUFFICES ASSUME NEW g \in rset \ {Listen} PROVE Ready(g)'
        OBVIOUS
      <4>1. g \in Fds /\ g # f /\ Ready(g)
        BY <1>0, <1>2, <2>4 DEF TypeOK
      <4>2. conn'[g] = conn[g]
        BY <1>0, <2>1, <4>1 DEF TypeOK
      <4> QED
        BY <1>1, <4>1, <4>2 DEF Ready
    <3> QED
      BY <1>1, <1>3, <3>2, <3>3, <3>4 DEF Round
  <2>10. Sending'
    BY <1>0, <1>1 DEF Sending
  <2> QED
    BY <2>5, <2>6, <2>7, <2>8, <2>9, <2>10 DEF IInv
<1> QED
  BY <1>5, <1>6 DEF Accept

LEMMA RecvInv == IInv /\ Recv => IInv'
<1> SUFFICES ASSUME IInv, Recv PROVE IInv'
  OBVIOUS
<1> USE ChatAssumption, Descriptors
<1> USE DEF tableVars, clientVars
<1>0. TypeOK /\ Tables /\ OneSocket /\ Flow /\ Round /\ Sending
  BY DEF IInv
<1> DEFINE k == First(NextIn(i, rset))
           c == conn[socks[k]]
<1>1. /\ pc = "scan" /\ pc' = "bcast" /\ NextIn(i, rset) # {}
      /\ i' = k /\ j' = 1
      /\ \E n \in 1 .. Len(up[c]) :
            /\ buf' = SubSeq(up[c], 1, n)
            /\ up' = [up EXCEPT ![c] = SubSeq(@, n + 1, Len(@))]
      /\ UNCHANGED <<domain, socks, allset, maxfd, conn, missed, rset, nready, sent, backlog,
                     life, said, pend, got, down, reset>>
  BY DEF Recv
<1>2. /\ k \in Slots /\ k >= i /\ socks[k] \in Fds /\ c \in Clients
      /\ socks[k] \in Left(i) /\ socks[k] \notin Left(k + 1)
      /\ Left(k + 1) \subseteq Left(i) /\ Left(i) \subseteq Fds
      /\ Cardinality(Left(i)) = Cardinality(Left(k + 1)) + 1
  <2>1. i \in Nat /\ rset \in SUBSET (Fds \cup {Listen})
    BY <1>0 DEF TypeOK
  <2> QED
    BY <1>0, <1>1, <2>1, NextSlot, LeftOfFirst, LeftIs
<1> HIDE DEF k, c
<1>3. PICK n \in 1 .. Len(up[c]) :
            /\ buf' = SubSeq(up[c], 1, n)
            /\ up' = [up EXCEPT ![c] = SubSeq(up[c], n + 1, Len(up[c]))]
  BY <1>1
<1>4. /\ up[c] \in Seq(Messages) /\ Len(up[c]) \in Nat /\ n \in Nat /\ n >= 1
      /\ buf' \in Seq(Messages) /\ Len(buf') = n
      /\ SubSeq(up[c], n + 1, Len(up[c])) \in Seq(Messages)
      /\ Len(SubSeq(up[c], n + 1, Len(up[c]))) = Len(up[c]) - n
  <2>1. up[c] \in Seq(Messages) /\ Len(up[c]) \in Nat
    BY <1>0, <1>2 DEF TypeOK
  <2> QED
    BY <1>3, <2>1
<1>5. /\ up' \in [Clients -> Seq(Messages)]
      /\ \A d \in Clients \ {c} : up'[d] = up[d]
      /\ Len(up'[c]) <= Len(up[c]) /\ Len(up'[c]) \in Nat
  BY SMTT(30), <1>0, <1>2, <1>3, <1>4 DEF TypeOK
<1>6. sent = 0
  BY <1>0, <1>1 DEF Sending
<1>7. TypeOK'
  <2>1. \A d \in Clients : Len(up'[d]) <= Cap[d]
    <3> SUFFICES ASSUME NEW d \in Clients PROVE Len(up'[d]) <= Cap[d]
      OBVIOUS
    <3>1. Len(up[d]) <= Cap[d] /\ Len(up[d]) \in Nat /\ Cap[d] \in Nat
      BY <1>0 DEF TypeOK
    <3>2. up'[d] = up[d] \/ (Len(up'[d]) <= Len(up[d]) /\ Len(up'[d]) \in Nat)
      BY <1>5
    <3> QED
      BY <3>1, <3>2
  <2>2. i' \in 1 .. NSlots + 1 /\ j' \in 1 .. NSlots + 1
    BY <1>1, <1>2 DEF Slots
  <2>3. buf' \in Seq(Messages) /\ sent' \in 0 .. Len(buf')
    BY <1>1, <1>4, <1>6
  <2> QED
    BY <1>0, <1>1, <1>5, <2>1, <2>2, <2>3 DEF TypeOK
<1>8. Tables' /\ OneSocket'
  BY <1>0, <1>1, SameTables, SameSockets
<1>9. Flow'
  <2> SUFFICES ASSUME NEW d \in Clients PROVE Len(up'[d]) <= said[d]
    BY <1>0, <1>1 DEF Flow
  <2>1. Len(up[d]) <= said[d] /\ Len(up[d]) \in Nat /\ said[d] \in Nat
    BY <1>0 DEF TypeOK, Flow
  <2>2. up'[d] = up[d] \/ (Len(up'[d]) <= Len(up[d]) /\ Len(up'[d]) \in Nat)
    BY <1>5
  <2> QED
    BY <2>1, <2>2
<1>10. Round'
  <2>1. Left(i + 1)' = Left(k + 1)
    BY <1>1 DEF Left, NextIn
  <2>2. ASSUME NEW f \in Left(k + 1) PROVE Ready(f)'
    <3>1. f \in Fds /\ Ready(f) /\ f # socks[k]
      BY <1>0, <1>1, <1>2 DEF Round
    <3>2. f \in allset
      <4>1. k + 1 \in Nat
        BY <1>2 DEF Slots
      <4>2. PICK h \in Slots : socks[h] = f
        BY <1>0, <4>1, LeftIs
      <4> QED
        BY <1>0, <3>1, <4>2 DEF Tables
    <3>3. conn[f] \in Clients /\ conn[f] # c
      BY <1>0, <1>2, <3>1, <3>2 DEF Tables, OneSocket, TypeOK, c
    <3> QED
      BY <1>1, <1>5, <3>1, <3>3 DEF Ready
  <2>3. nready >= Cardinality(Left(k + 1)) + 1
    BY <1>0, <1>1, <1>2 DEF Round
  <2> QED
    BY <1>1, <1>2, <2>1, <2>2, <2>3 DEF Round
<1>11. Sending'
  BY <1>1, <1>4, <1>6 DEF Sending
<1> QED
  BY <1>7, <1>8, <1>9, <1>10, <1>11 DEF IInv

LEMMA HangupInv == IInv /\ Hangup => IInv'
<1> SUFFICES ASSUME IInv, Hangup PROVE IInv'
  OBVIOUS
<1> USE ChatAssumption, Descriptors
<1> USE DEF tableVars, clientVars
<1>0. TypeOK /\ Tables /\ OneSocket /\ Flow /\ Round /\ Sending
  BY DEF IInv
<1> DEFINE k == First(NextIn(i, rset))
           f == socks[k]
<1>1. /\ pc = "scan" /\ pc' \in {"select", "scan"} /\ NextIn(i, rset) # {}
      /\ nready' = nready - 1 /\ i' = k + 1
      /\ conn' = [conn EXCEPT ![f] = Nobody]
      /\ allset' = allset \ {f}
      /\ socks' = [socks EXCEPT ![k] = Free]
      /\ UNCHANGED <<domain, maxfd, missed, rset, j, buf, sent, backlog,
                     life, said, pend, got, up, down, reset>>
  BY DEF Hangup, AfterOne
<1>2. /\ k \in Slots /\ k >= i /\ f \in Fds
      /\ f \in Left(i) /\ f \notin Left(k + 1)
      /\ Left(k + 1) \subseteq Left(i) /\ Left(i) \subseteq Fds
      /\ Cardinality(Left(i)) = Cardinality(Left(k + 1)) + 1
      /\ Cardinality(Left(k + 1)) \in Nat
  <2>1. i \in Nat /\ rset \in SUBSET (Fds \cup {Listen})
    BY <1>0 DEF TypeOK
  <2>2. k \in Slots
    BY <1>0, <1>1, <2>1, NextSlot
  <2>3. k + 1 \in Nat
    BY <2>2 DEF Slots
  <2> QED
    BY <1>0, <1>1, <2>1, <2>3, NextSlot, LeftOfFirst, LeftIs
<1> HIDE DEF k, f
<1>3. f = socks[k]
  BY DEF f
<1>4. \A g \in Fds : conn'[g] = IF g = f THEN Nobody ELSE conn[g]
  BY <1>0, <1>1 DEF TypeOK
<1>5. \A h \in Slots : socks'[h] = IF h = k THEN Free ELSE socks[h]
  BY <1>0, <1>1 DEF TypeOK
<1>6. TypeOK'
  <2>1. nready' \in 0 .. MaxFd + 1
    BY <1>0, <1>1, <1>2 DEF Round, TypeOK
  <2>2. i' \in 1 .. NSlots + 1
    BY <1>1, <1>2 DEF Slots
  <2>3. socks' \in [Slots -> Fds \cup {Free}] /\ conn' \in [Fds -> Clients \cup {Nobody}]
    BY <1>0, <1>1 DEF TypeOK
  <2> QED
    BY <1>0, <1>1, <2>1, <2>2, <2>3 DEF TypeOK
<1>7. Tables'
  <2>1. \A g \in Fds : g \in allset' <=> \E h \in Slots : socks'[h] = g
    <3> SUFFICES ASSUME NEW g \in Fds PROVE g \in allset' <=> \E h \in Slots : socks'[h] = g
      OBVIOUS
    <3>1. CASE g = f
      BY <1>0, <1>1, <1>2, <1>3, <1>5, <3>1 DEF Tables
    <3>2. CASE g # f
      BY <1>0, <1>1, <1>2, <1>3, <1>5, <3>2 DEF Tables
    <3> QED
      BY <3>1, <3>2
  <2>2. \A h, l \in Slots : socks'[h] = socks'[l] => socks'[h] = Free \/ h = l
    BY <1>0, <1>5 DEF Tables
  <2> QED
    BY <1>0, <1>1, <1>2, <1>4, <2>1, <2>2 DEF Tables
<1>8. OneSocket'
  <2>1. \A n \in 1 .. Len(backlog) : backlog[n] # Nobody
    <3>1. backlog \in Seq(Clients)
      BY <1>0 DEF TypeOK
    <3>2. \A n \in 1 .. Len(backlog) : backlog[n] \in Clients
      BY <3>1
    <3> QED
      BY <3>2
  <2> QED
    BY <1>0, <1>1, <1>4, <2>1 DEF OneSocket
<1>9. Flow'
  BY <1>0, <1>1 DEF Flow
<1>10. Round'
  <2>1. Left(i)' = Left(k + 1)
    <3>1. \A h \in Slots : h >= k + 1 => socks'[h] = socks[h]
      BY <1>2, <1>5 DEF Slots
    <3> QED
      BY <1>1, <3>1 DEF Left, NextIn
  <2>2. ASSUME NEW g \in Left(k + 1) PROVE Ready(g)'
    <3>1. g \in Fds /\ Ready(g) /\ g # f
      BY <1>0, <1>1, <1>2 DEF Round
    <3> QED
      BY <1>1, <1>4, <3>1 DEF Ready
  <2>3. nready' >= Cardinality(Left(k + 1))
    BY <1>0, <1>1, <1>2 DEF Round, TypeOK
  <2> QED
    BY <1>1, <2>1, <2>2, <2>3 DEF Round
<1>11. Sending'
  BY <1>0, <1>1 DEF Sending
<1> QED
  BY <1>6, <1>7, <1>8, <1>9, <1>10, <1>11 DEF IInv

LEMMA ScanEndInv == IInv /\ ScanEnd => IInv'
<1> SUFFICES ASSUME IInv, ScanEnd PROVE IInv'
  OBVIOUS
<1>0. TypeOK /\ Tables /\ OneSocket /\ Flow /\ Round /\ Sending
  BY DEF IInv
<1>1. pc = "scan" /\ pc' = "select"
  BY DEF ScanEnd
<1>2. TypeOK'
  BY <1>0, <1>1 DEF ScanEnd, TypeOK, tableVars, loopVars, clientVars
<1>3. Tables' /\ OneSocket'
  BY <1>0, SameTables, SameSockets DEF ScanEnd, tableVars, clientVars
<1>4. Flow'
  BY <1>0 DEF ScanEnd, Flow, clientVars
<1>5. Round'
  BY <1>1 DEF Round
<1>6. Sending'
  BY <1>0, <1>1 DEF ScanEnd, Sending, loopVars
<1> QED
  BY <1>2, <1>3, <1>4, <1>5, <1>6 DEF IInv

LEMMA SendInv == IInv /\ Send => IInv'
<1> SUFFICES ASSUME IInv, Send PROVE IInv'
  OBVIOUS
<1> USE ChatAssumption, Descriptors
<1> USE DEF tableVars, clientVars
<1>0. TypeOK /\ Tables /\ OneSocket /\ Flow /\ Round /\ Sending
  BY DEF IInv
<1> DEFINE k == First(NextIn(j, Others))
           c == conn[socks[k]]
<1>1. /\ pc = "bcast" /\ NextIn(j, Others) # {}
      /\ UNCHANGED <<domain, socks, allset, maxfd, conn, missed, rset, nready, i, buf, backlog,
                     life, said, pend, got, up>>
  BY DEF Send
<1>2. k \in Slots /\ c \in Clients
  <2>1. j \in Nat /\ Others \in SUBSET (Fds \cup {Listen})
    BY <1>0 DEF TypeOK, Others
  <2> QED
    BY <1>0, <1>1, <2>1, NextSlot
<1>3. \/ /\ Len(down[c]) < Cap[c] /\ down' = [down EXCEPT ![c] = Append(@, buf[sent + 1])]
         /\ IF sent + 1 < Len(buf)
              THEN sent' = sent + 1 /\ j' = j
              ELSE sent' = 0 /\ j' = k + 1
         /\ UNCHANGED <<pc, reset>>
      \/ /\ reset' \in {reset, reset \cup {c}}
         /\ sent' = 0 /\ j' = k + 1
         /\ UNCHANGED <<pc, down>>
      \/ /\ pc' = "killed"
         /\ UNCHANGED <<down, reset, sent, j>>
  BY DEF Send
<1> HIDE DEF k, c
<1>4. buf \in Seq(Messages) /\ Len(buf) \in Nat /\ sent \in Nat /\ sent < Len(buf)
  BY <1>0, <1>1 DEF Sending, TypeOK
<1>5. k + 1 \in 1 .. NSlots + 1
  BY <1>2 DEF Slots
<1>6. sent' \in 0 .. Len(buf) /\ j' \in 1 .. NSlots + 1
  BY <1>0, <1>3, <1>4, <1>5 DEF TypeOK
<1>7. /\ down' \in [Clients -> Seq(Messages)]
      /\ \A d \in Clients : Len(down'[d]) <= Cap[d]
  <2>0. /\ down \in [Clients -> Seq(Messages)]
        /\ \A d \in Clients : Len(down[d]) <= Cap[d]
    BY <1>0 DEF TypeOK
  <2>1. CASE UNCHANGED down
    BY <2>0, <2>1
  <2>2. CASE /\ Len(down[c]) < Cap[c]
             /\ down' = [down EXCEPT ![c] = Append(down[c], buf[sent + 1])]
    <3> DEFINE q == Append(down[c], buf[sent + 1])
    <3>1. buf[sent + 1] \in Messages
      BY <1>4
    <3>2. q \in Seq(Messages) /\ Len(q) = Len(down[c]) + 1 /\ Len(down[c]) \in Nat
      BY <1>2, <2>0, <3>1
    <3>3. Cap[c] \in Nat
      BY <1>2
    <3>4. Len(q) <= Cap[c]
      BY <2>2, <3>2, <3>3
    <3> HIDE DEF q
    <3>5. down' = [down EXCEPT ![c] = q]
      BY <2>2 DEF q
    <3> QED
      BY <2>0, <3>2, <3>4, <3>5
  <2> QED
    BY <1>3, <2>1, <2>2
<1>8. TypeOK'
  <2>1. pc' \in {"select", "accept", "scan", "bcast", "killed"} /\ reset' \subseteq Clients
    BY <1>0, <1>1, <1>2, <1>3 DEF TypeOK
  <2> QED
    BY <1>0, <1>1, <1>6, <1>7, <2>1 DEF TypeOK
<1>9. Tables' /\ OneSocket' /\ Flow'
  BY <1>0, <1>1, SameTables, SameSockets DEF Flow
<1>10. Round'
  <2>1. CASE pc' = "killed"
    BY <2>1 DEF Round
  <2>2. CASE pc' = pc
    BY <1>0, <1>1, <2>2, SameRound
  <2> QED
    BY <1>3, <2>1, <2>2
<1>11. Sending'
  <2>1. CASE pc' = "killed"
    BY <2>1 DEF Sending
  <2>2. CASE sent' = 0 /\ pc' = "bcast"
    BY <1>1, <1>4, <2>2 DEF Sending
  <2>3. CASE sent + 1 < Len(buf) /\ sent' = sent + 1 /\ j' = j /\ pc' = "bcast"
    <3>1. (NextIn(j, Others) # {})' <=> NextIn(j, Others) # {}
      BY <1>1, <2>3 DEF NextIn, Others
    <3> QED
      BY <1>1, <2>3, <3>1 DEF Sending
  <2> QED
    BY <1>1, <1>3, <2>1, <2>2, <2>3
<1> QED
  BY <1>8, <1>9, <1>10, <1>11 DEF IInv

LEMMA SendEndInv == IInv /\ SendEnd => IInv'
<1> SUFFICES ASSUME IInv, SendEnd PROVE IInv'
  OBVIOUS
<1> USE ChatAssumption, Descriptors
<1> USE DEF tableVars, clientVars
<1>0. TypeOK /\ Tables /\ OneSocket /\ Flow /\ Round /\ Sending
  BY DEF IInv
<1>1. /\ pc = "bcast" /\ NextIn(j, Others) = {} /\ pc' \in {"select", "scan"}
      /\ buf' = << >> /\ i' = i + 1 /\ nready' = nready - 1
      /\ UNCHANGED <<domain, socks, allset, maxfd, conn, missed, rset, j, sent, backlog,
                     life, said, pend, got, up, down, reset>>
  BY DEF SendEnd, AfterOne
<1>2. sent = 0
  BY <1>0, <1>1 DEF Sending
<1>3. /\ i \in Slots /\ i + 1 \in Nat
      /\ nready >= Cardinality(Left(i + 1)) + 1 /\ Cardinality(Left(i + 1)) \in Nat
      /\ \A f \in Left(i + 1) : Ready(f)
  <2>1. i \in Slots /\ i + 1 \in Nat
    BY <1>0, <1>1 DEF Round, Slots
  <2> QED
    BY <1>0, <1>1, <2>1, LeftIs DEF Round
<1>4. TypeOK'
  <2>1. nready' \in 0 .. MaxFd + 1
    BY <1>0, <1>1, <1>3 DEF TypeOK
  <2>2. i' \in 1 .. NSlots + 1
    BY <1>1, <1>3 DEF Slots
  <2>3. buf' \in Seq(Messages) /\ sent' \in 0 .. Len(buf')
    BY <1>1, <1>2
  <2>4. pc' \in {"select", "accept", "scan", "bcast", "killed"}
    BY <1>1
  <2> QED
    BY <1>0, <1>1, <2>1, <2>2, <2>3, <2>4 DEF TypeOK
<1>5. Tables' /\ OneSocket' /\ Flow'
  BY <1>0, <1>1, SameTables, SameSockets DEF Flow
<1>6. Round'
  <2>1. Left(i)' = Left(i + 1)
    BY <1>1 DEF Left, NextIn
  <2>2. \A f \in Left(i + 1) : Ready(f)'
    BY <1>1, <1>3 DEF Ready
  <2>3. nready' >= Cardinality(Left(i + 1))
    BY <1>0, <1>1, <1>3 DEF TypeOK
  <2> QED
    BY <1>1, <2>1, <2>2, <2>3 DEF Round
<1>7. Sending'
  BY <1>1, <1>2 DEF Sending
<1> QED
  BY <1>4, <1>5, <1>6, <1>7 DEF IInv

-----------------------------------------------------------------------------
(* The clients' steps.                                                     *)

LEMMA ClientInv ==
    ASSUME IInv, NEW c \in Clients, ClientStep(c) \/ Quit(c) PROVE IInv'
<1> USE ChatAssumption, Descriptors
<1> USE DEF tableVars, loopVars
<1>0. TypeOK /\ Tables /\ OneSocket /\ Flow /\ Round /\ Sending
  BY DEF IInv
<1>1. UNCHANGED <<domain, pc, socks, allset, maxfd, conn, missed, rset, nready, i, j, buf,
                  sent, reset>>
  BY DEF ClientStep, Connect, Type, Sent, Hear, EndInput, SeeClosed, Quit, ClientSide
<1>2. Tables' /\ Sending'
  BY <1>0, <1>1, SameTables, SameSending
<1>3. ASSUME Connect(c) PROVE IInv'
  <2>1. /\ life[c] = "out" /\ life' = [life EXCEPT ![c] = "in"]
        /\ backlog' = Append(backlog, c)
        /\ UNCHANGED <<said, pend, up, down, got>>
    BY <1>3 DEF Connect
  <2>2. backlog \in Seq(Clients)
    BY <1>0 DEF TypeOK
  <2>3. /\ backlog' \in Seq(Clients) /\ Len(backlog) \in Nat
        /\ Len(backlog') = Len(backlog) + 1 /\ backlog' # << >>
        /\ \A n \in 1 .. Len(backlog) : backlog'[n] = backlog[n]
        /\ backlog'[Len(backlog) + 1] = c
    BY <2>1, <2>2, AppendIs
  <2>4. TypeOK'
    BY <1>0, <1>1, <2>1, <2>3 DEF TypeOK
  <2>5. OneSocket'
    <3>1. /\ \A f \in Fds : conn[f] # c
          /\ \A n \in 1 .. Len(backlog) : backlog[n] # c
      BY <1>0, <2>1 DEF OneSocket
    <3>2. \A n \in 1 .. Len(backlog') : n \in 1 .. Len(backlog) \/ n = Len(backlog) + 1
      BY <2>3
    <3>3. \A m, n \in 1 .. Len(backlog') : backlog'[m] = backlog'[n] => m = n
      <4> SUFFICES ASSUME NEW m \in 1 .. Len(backlog'), NEW n \in 1 .. Len(backlog'),
                          backlog'[m] = backlog'[n]
                   PROVE  m = n
        OBVIOUS
      <4>1. CASE m \in 1 .. Len(backlog) /\ n \in 1 .. Len(backlog)
        BY <1>0, <2>3, <4>1 DEF OneSocket
      <4>2. CASE m = Len(backlog) + 1 /\ n \in 1 .. Len(backlog)
        BY <2>3, <3>1, <4>2
      <4>3. CASE m \in 1 .. Len(backlog) /\ n = Len(backlog) + 1
        BY <2>3, <3>1, <4>3
      <4> QED
        BY <3>2, <4>1, <4>2, <4>3
    <3>4. \A f \in Fds, n \in 1 .. Len(backlog') : conn[f] # backlog'[n]
      BY <1>0, <2>3, <3>1, <3>2 DEF OneSocket
    <3>5. \A d \in Clients : life'[d] = "out" => life[d] = "out" /\ d # c
      BY <1>0, <2>1 DEF TypeOK
    <3>6. \A d \in Clients : life'[d] = "out" =>
             /\ \A f \in Fds : conn[f] # d
             /\ \A n \in 1 .. Len(backlog') : backlog'[n] # d
      BY <1>0, <2>3, <3>2, <3>5 DEF OneSocket
    <3>7. \A f, g \in Fds : conn[f] = conn[g] => conn[f] = Nobody \/ f = g
      BY <1>0 DEF OneSocket
    <3> QED
      BY <1>1, <3>3, <3>4, <3>6, <3>7 DEF OneSocket
  <2>6. Flow'
    BY <1>0, <2>1 DEF Flow
  <2>7. Round'
    BY <1>0, <1>1, <2>1, <2>3, SameRound DEF TypeOK
  <2> QED
    BY <1>2, <2>4, <2>5, <2>6, <2>7 DEF IInv
<1>4. ASSUME Type(c) PROVE IInv'
  <2>1. /\ pend' = [pend EXCEPT ![c] = TRUE] /\ said[c] < Lines[c]
        /\ UNCHANGED <<backlog, life, said, up, down, got>>
    BY <1>4 DEF Type
  <2>2. TypeOK'
    BY <1>0, <1>1, <2>1 DEF TypeOK
  <2>3. \A d \in Clients : pend'[d] => pend[d] \/ d = c
    BY <1>0, <2>1 DEF TypeOK
  <2>4. OneSocket' /\ Flow' /\ Round'
    BY <1>0, <1>1, <2>1, <2>3, SameSockets, SameRound DEF Flow
  <2> QED
    BY <1>2, <2>2, <2>4 DEF IInv
<1>5. ASSUME Sent(c) PROVE IInv'
  <2>1. /\ Len(up[c]) < Cap[c] /\ pend[c]
        /\ up' = [up EXCEPT ![c] = Append(up[c], [by |-> c, no |-> said[c] + 1])]
        /\ said' = [said EXCEPT ![c] = said[c] + 1]
        /\ pend' = [pend EXCEPT ![c] = FALSE]
        /\ UNCHANGED <<backlog, life, down, got>>
    BY <1>5 DEF Sent
  <2> DEFINE m == [by |-> c, no |-> said[c] + 1]
             q == Append(up[c], m)
  <2>2. /\ up[c] \in Seq(Messages) /\ Len(up[c]) \in Nat
        /\ said[c] \in Nat /\ Cap[c] \in Nat /\ Lines[c] \in Nat
    BY <1>0 DEF TypeOK
  <2>3. q \in Seq(Messages) /\ Len(q) = Len(up[c]) + 1 /\ q # << >>
    <3>1. m \in Messages
      BY <2>2 DEF Messages
    <3> HIDE DEF m
    <3> QED
      BY SMTT(30), <2>2, <3>1, AppendIs
  <2>4. Len(q) <= Cap[c]
    BY <2>1, <2>2, <2>3
  <2> HIDE DEF q
  <2>5. up' = [up EXCEPT ![c] = q]
    BY <2>1 DEF q
  <2>6. /\ up' \in [Clients -> Seq(Messages)] /\ up'[c] = q
        /\ \A d \in Clients \ {c} : up'[d] = up[d]
    BY <1>0, <2>3, <2>5 DEF TypeOK
  <2>7. /\ said' \in [Clients -> Nat] /\ said'[c] = said[c] + 1
        /\ \A d \in Clients \ {c} : said'[d] = said[d]
    BY <1>0, <2>1, <2>2 DEF TypeOK
  <2>8. TypeOK'
    <3>1. \A d \in Clients : Len(up'[d]) <= Cap[d]
      BY <1>0, <2>4, <2>6 DEF TypeOK
    <3>2. said'[c] <= Lines[c]
      BY <1>0, <2>1, <2>2, <2>7 DEF Flow
    <3>3. \A d \in Clients : said'[d] <= Lines[d]
      BY <1>0, <2>7, <3>2 DEF TypeOK
    <3>4. pend' \in [Clients -> BOOLEAN]
      BY <1>0, <2>1 DEF TypeOK
    <3> QED
      BY <1>0, <1>1, <2>1, <2>6, <2>7, <3>1, <3>3, <3>4 DEF TypeOK
  <2>9. Flow'
    <3>1. Len(up'[c]) <= said'[c]
      BY <1>0, <2>2, <2>3, <2>6, <2>7 DEF Flow
    <3>2. ~pend'[c] /\ \A d \in Clients \ {c} : pend'[d] = pend[d]
      BY <1>0, <2>1 DEF TypeOK
    <3> QED
      BY <1>0, <2>6, <2>7, <3>1, <3>2 DEF Flow
  <2>10. OneSocket'
    BY <1>0, <1>1, <2>1, SameSockets
  <2>11. Round'
    <3>1. \A d \in Clients : up[d] # << >> => up'[d] # << >>
      BY <2>3, <2>6
    <3> QED
      BY <1>0, <1>1, <2>1, <3>1, SameRound
  <2> QED
    BY <1>2, <2>8, <2>9, <2>10, <2>11 DEF IInv
<1>6. ASSUME Hear(c) PROVE IInv'
  <2>1. /\ down[c] # << >>
        /\ got' = [got EXCEPT ![c] = Append(got[c], Head(down[c]))]
        /\ down' = [down EXCEPT ![c] = Tail(down[c])]
        /\ UNCHANGED <<backlog, life, said, pend, up>>
    BY <1>6 DEF Hear
  <2> DEFINE q == Tail(down[c])
             m == Head(down[c])
             g == Append(got[c], m)
  <2>2. /\ down[c] \in Seq(Messages) /\ got[c] \in Seq(Messages)
        /\ Len(down[c]) <= Cap[c] /\ Cap[c] \in Nat
    BY <1>0 DEF TypeOK
  <2>3. /\ q \in Seq(Messages) /\ Len(down[c]) \in Nat /\ Len(q) = Len(down[c]) - 1
        /\ m \in Messages
    BY <2>1, <2>2, TailIs
  <2>4. Len(q) <= Cap[c]
    BY <2>2, <2>3
  <2> HIDE DEF q, m
  <2>5. g \in Seq(Messages)
    BY <2>2, <2>3
  <2> HIDE DEF g
  <2>6. down' = [down EXCEPT ![c] = q] /\ got' = [got EXCEPT ![c] = g]
    BY <2>1 DEF q, m, g
  <2>7. TypeOK'
    <3>1. /\ down' \in [Clients -> Seq(Messages)]
          /\ \A d \in Clients : Len(down'[d]) <= Cap[d]
      BY <1>0, <2>3, <2>4, <2>6 DEF TypeOK
    <3>2. got' \in [Clients -> Seq(Messages)]
      BY <1>0, <2>5, <2>6 DEF TypeOK
    <3> QED
      BY <1>0, <1>1, <2>1, <3>1, <3>2 DEF TypeOK
  <2>8. OneSocket' /\ Flow' /\ Round'
    BY <1>0, <1>1, <2>1, SameSockets, SameRound DEF Flow
  <2> QED
    BY <1>2, <2>7, <2>8 DEF IInv
<1>7. ASSUME EndInput(c) \/ SeeClosed(c) \/ Quit(c) PROVE IInv'
  <2>1. /\ life[c] \in {"in", "half"}
        /\ \E l \in {"half", "closed"} : life' = [life EXCEPT ![c] = l]
        /\ pend' = pend \/ pend' = [pend EXCEPT ![c] = FALSE]
        /\ UNCHANGED <<backlog, said, up, down, got>>
    BY <1>7 DEF EndInput, SeeClosed, Quit
  <2>2. TypeOK'
    <3>1. life' \in [Clients -> {"out", "in", "half", "closed"}] /\ pend' \in [Clients -> BOOLEAN]
      BY ZenonT(30), <1>0, <2>1 DEF TypeOK
    <3> QED
      BY <1>0, <1>1, <2>1, <3>1 DEF TypeOK
  <2>3. \A d \in Clients : life'[d] \in {"half", "closed"} \/ life'[d] = life[d]
    BY <1>0, <2>1 DEF TypeOK
  <2>4. \A d \in Clients : pend'[d] => pend[d]
    BY <1>0, <2>1 DEF TypeOK
  <2>5. OneSocket' /\ Flow' /\ Round'
    BY <1>0, <1>1, <2>1, <2>3, <2>4, SameSockets, SameRound DEF Flow
  <2> QED
    BY <1>2, <2>2, <2>5 DEF IInv
<1> QED
  BY <1>3, <1>4, <1>5, <1>6, <1>7 DEF ClientStep

-----------------------------------------------------------------------------
LEMMA InvStep == IInv /\ [Next]_vars => IInv'
<1>1. IInv /\ Next => IInv'
  BY SelectInv, AcceptInv, RecvInv, HangupInv, ScanEndInv, SendInv, SendEndInv, ClientInv
  DEF Next, ServerStep
<1>2. IInv /\ UNCHANGED vars => IInv'
  <2> SUFFICES ASSUME IInv, UNCHANGED vars PROVE IInv'
    OBVIOUS
  <2>0. TypeOK /\ Tables /\ OneSocket /\ Flow /\ Round /\ Sending
    BY DEF IInv
  <2>1. TypeOK' /\ Flow'
    BY <2>0 DEF vars, TypeOK, Flow
  <2>2. Tables' /\ OneSocket' /\ Sending' /\ Round'
    BY <2>0, SameTables, SameSockets, SameSending, SameRound DEF vars
  <2> QED
    BY <2>1, <2>2 DEF IInv
<1> QED
  BY <1>1, <1>2

LEMMA Invariance == Spec => []IInv
  BY InvInit, InvStep, PTL DEF Spec

\* Every reachable state has its type: nready never turns negative, no slot or
\* buffer index leaves its range, and no socket holds more than its capacity.
THEOREM TypeCorrect == Spec => []TypeOK
<1>1. IInv => TypeOK
  BY DEF IInv
<1> QED
  BY <1>1, Invariance, PTL

\* The set given to select, the slots, maxfd and the open descriptors agree after
\* every step.
THEOREM TablesAlwaysAgree == Spec => []TablesAgree
<1>1. IInv => TablesAgree
  <2> SUFFICES ASSUME IInv PROVE TablesAgree
    OBVIOUS
  <2> DEFINE used == {k \in Slots : socks[k] # Free}
  <2>1. TypeOK /\ Tables
    BY DEF IInv
  <2>2. allset = {Listen} \cup {socks[k] : k \in used}
    <3>1. ASSUME NEW f \in allset PROVE f \in {Listen} \cup {socks[k] : k \in used}
      BY <2>1, Descriptors DEF TypeOK, Tables
    <3>2. ASSUME NEW k \in used PROVE socks[k] \in allset
      BY <2>1 DEF TypeOK, Tables
    <3> QED
      BY <2>1, <3>1, <3>2 DEF Tables
  <2>3. \A f \in Fds : conn[f] # Nobody <=> f \in allset
    BY <2>1 DEF Tables
  <2> QED
    BY <2>1, <2>2, <2>3 DEF Tables, TablesAgree
<1> QED
  BY <1>1, Invariance, PTL

\* What select has reported is still true when a slot's turn comes: the server
\* never blocks in recv.
THEOREM RecvNeverBlocks == Spec => []RecvReady
<1>1. IInv => RecvReady
  BY DEF IInv, Round, Left, RecvReady
<1> QED
  BY <1>1, Invariance, PTL

-----------------------------------------------------------------------------
(* What the clients hear.                                                    *)

\* The client whose messages the server is sending, and the one behind slot k.
Speaker == conn[socks[i]]
Peer(k) == conn[socks[k]]
Live(k) == socks[k] \in Fds /\ life[Peer(k)] # "closed"

\* What waits on a socket is what its client said last.
Numbered ==
    \A s \in Clients : \A n \in 1 .. Len(up[s]) : up[s][n] = [by |-> s, no |-> Taken(s) + n]

\* Nobody hears anything before it was accepted.
Unheard ==
    \A r \in Clients :
        (life[r] = "out" \/ \E n \in 1 .. Len(backlog) : backlog[n] = r) =>
            got[r] = << >> /\ down[r] = << >>

\* What the server is sending are the last messages it took off the speaker's socket.
Buffered ==
    pc = "bcast" =>
      /\ socks[i] \in Fds /\ Speaker \in Clients
      /\ \A n \in 1 .. Len(buf) :
            buf[n] = [by |-> Speaker, no |-> Taken(Speaker) - Len(buf) + n]

InStep ==
    \A r \in Clients : \A n \in 1 .. Len(Stream(r)) :
        /\ Stream(r)[n].by # r
        /\ Stream(r)[n].no = missed[r][Stream(r)[n].by] + Count(Stream(r), Stream(r)[n].by, n)

\* How many of the messages taken off s's socket slot k has still to be sent.
Due(k, s) ==
    IF pc # "bcast" \/ s # Speaker \/ k < j THEN 0
    ELSE IF k = First(NextIn(j, Others)) THEN Len(buf) - sent ELSE Len(buf)

\* A client that can be sent to has been sent all of what was taken off the others'
\* sockets since it was accepted, but for what is due.
Total(r, s) == Count(Stream(r), s, Len(Stream(r)))
Served ==
    pc # "killed" =>
      \A k \in Slots : Live(k) =>
        \A s \in Clients \ {Peer(k)} :
            Total(Peer(k), s) = Taken(s) - missed[Peer(k)][s] - Due(k, s)

Hearing == Numbered /\ Unheard /\ Buffered /\ InStep /\ Served

LEMMA CountAppend ==
    ASSUME NEW h \in Seq(Messages), NEW e \in Messages, NEW s
    PROVE  /\ Len(h) \in Nat /\ Count(h, s, Len(h)) \in Nat
           /\ \A n \in 1 .. Len(h) : Count(Append(h, e), s, n) = Count(h, s, n)
           /\ Count(Append(h, e), s, Len(h) + 1)
                = Count(h, s, Len(h)) + (IF e.by = s THEN 1 ELSE 0)
<1> DEFINE N == Len(h)
           In(n) == {m \in 1 .. n : h[m].by = s}
           New(n) == {m \in 1 .. n : Append(h, e)[m].by = s}
<1>1. /\ N \in Nat /\ Append(h, e)[N + 1] = e
      /\ \A m \in 1 .. N : Append(h, e)[m] = h[m]
  BY AppendIs
<1>2. IsFiniteSet(In(N)) /\ Cardinality(In(N)) \in Nat
  <2>1. IsFiniteSet(1 .. N)
    BY <1>1, FS_Interval
  <2> QED
    BY <2>1, FS_Subset, FS_CardinalityType
<1>3. ASSUME NEW n \in 1 .. N PROVE Count(Append(h, e), s, n) = Count(h, s, n)
  <2>1. \A m \in 1 .. n : Append(h, e)[m] = h[m]
    BY <1>1
  <2>2. New(n) = In(n)
    BY <2>1
  <2> QED
    BY <2>2 DEF Count
<1>4. New(N + 1) = IF e.by = s THEN In(N) \cup {N + 1} ELSE In(N)
  <2>1. \A m : m \in 1 .. N + 1 <=> m \in 1 .. N \/ m = N + 1
    BY <1>1
  <2> QED
    BY <1>1, <2>1
<1>5. N + 1 \notin In(N)
  BY <1>1
<1>6. Cardinality(New(N + 1)) = Cardinality(In(N)) + (IF e.by = s THEN 1 ELSE 0)
  <2>1. CASE e.by = s
    BY <1>2, <1>4, <1>5, <2>1, FS_AddElement
  <2>2. CASE e.by # s
    <3>1. New(N + 1) = In(N)
      BY <1>4, <2>2
    <3> HIDE DEF New, In
    <3> QED
      BY <1>2, <2>2, <3>1
  <2> QED
    BY <2>1, <2>2
<1> QED
  BY <1>1, <1>2, <1>3, <1>6 DEF Count

\* A client that is sent something has it behind all the rest, and one that reads
\* moves a message from its socket to its output.
LEMMA ConcatAppend ==
    ASSUME NEW S
    PROVE  \A a, b \in Seq(S), e \in S : a \o Append(b, e) = Append(a \o b, e)
  OBVIOUS

LEMMA Moved ==
    ASSUME NEW S, NEW a \in Seq(S), NEW b \in Seq(S), b # << >>
    PROVE  Append(a, Head(b)) \o Tail(b) = a \o b
<1>1. Head(b) \in S /\ Tail(b) \in Seq(S)
  BY TailIs
<1>2. Append(a, Head(b)) = a \o <<Head(b)>> /\ <<Head(b)>> \in Seq(S)
  BY <1>1, AppendIsConcat
<1>3. (a \o <<Head(b)>>) \o Tail(b) = a \o (<<Head(b)>> \o Tail(b))
  BY <1>1, <1>2, ConcatAssociative
<1>4. <<Head(b)>> \o Tail(b) = b
  BY <1>1
<1> QED
  BY <1>2, <1>3, <1>4

-----------------------------------------------------------------------------
\* A stream is a sequence of messages, its count a number, and Taken one.
LEMMA Streams ==
    ASSUME TypeOK, Flow
    PROVE  /\ \A r \in Clients : Stream(r) \in Seq(Messages)
           /\ \A r \in Clients : \A s : Total(r, s) \in Nat
           /\ \A s \in Clients : Taken(s) \in Nat
<1>1. ASSUME NEW r \in Clients PROVE Stream(r) \in Seq(Messages)
  <2>1. got[r] \in Seq(Messages) /\ down[r] \in Seq(Messages)
    BY DEF TypeOK
  <2> QED
    BY <2>1, ConcatProperties DEF Stream
<1>2. ASSUME NEW r \in Clients, NEW s PROVE Total(r, s) \in Nat
  <2>1. Len(Stream(r)) \in Nat
    BY <1>1
  <2> DEFINE theirs == {m \in 1 .. Len(Stream(r)) : Stream(r)[m].by = s}
  <2>2. theirs \subseteq 1 .. Len(Stream(r)) /\ IsFiniteSet(1 .. Len(Stream(r)))
    BY <2>1, FS_Interval
  <2>3. Cardinality(theirs) \in Nat
    BY <2>2, FS_Subset, FS_CardinalityType
  <2> QED
    BY <2>3 DEF Total, Count
<1>3. ASSUME NEW s \in Clients PROVE Taken(s) \in Nat
  <2>1. said[s] \in Nat /\ Len(up[s]) \in Nat /\ Len(up[s]) <= said[s]
    BY DEF TypeOK, Flow
  <2> QED
    BY <2>1 DEF Taken
<1> QED
  BY <1>1, <1>2, <1>3

\* The client behind a live slot, and no other slot has it.
LEMMA Peers ==
    ASSUME TypeOK, Tables, OneSocket, NEW k \in Slots, socks[k] \in Fds
    PROVE  /\ Peer(k) \in Clients
           /\ \A f \in Fds : conn[f] = Peer(k) => f = socks[k]
           /\ \A h \in Slots : socks[h] \in Fds /\ Peer(h) = Peer(k) => h = k
<1>1. conn[socks[k]] # Nobody /\ Peer(k) \in Clients
  BY DEF Tables, TypeOK, Peer
<1>2. \A f \in Fds : conn[f] = Peer(k) => f = socks[k]
  BY <1>1 DEF OneSocket, Peer
<1>3. \A h \in Slots : socks[h] \in Fds /\ Peer(h) = Peer(k) => h = k
  BY <1>2, Descriptors DEF Tables, Peer
<1> QED
  BY <1>1, <1>2, <1>3

LEMMA SameInStep ==
    ASSUME InStep, UNCHANGED missed, \A r \in Clients : Stream(r)' = Stream(r)
    PROVE  InStep'
  BY DEF InStep

\* A step that leaves the streams alone, takes nothing off a socket and gives
\* nobody a slot or a life keeps the books if it keeps what is due.
LEMMA SameServed ==
    ASSUME TypeOK, Tables, OneSocket, Served, pc # "killed", UNCHANGED missed,
           \A r \in Clients : Stream(r)' = Stream(r),
           \A s \in Clients : Taken(s)' = Taken(s),
           \A k \in Slots : Live(k)' =>
               /\ Live(k) /\ Peer(k)' = Peer(k)
               /\ \A s \in Clients \ {Peer(k)} : Due(k, s)' = Due(k, s)
    PROVE  Served'
<1> SUFFICES ASSUME NEW k \in Slots, Live(k)', NEW s \in Clients, s # Peer(k)'
             PROVE  (Total(Peer(k), s) = Taken(s) - missed[Peer(k)][s] - Due(k, s))'
  BY DEF Served
<1> DEFINE r == Peer(k)
<1>1. Live(k) /\ Peer(k)' = r /\ r \in Clients /\ Due(k, s)' = Due(k, s)
  BY Peers DEF Live
<1>2. Total(r, s) = Taken(s) - missed[r][s] - Due(k, s)
  BY <1>1 DEF Served
<1>3. Total(r, s)' = Total(r, s) /\ Taken(s)' = Taken(s)
  BY <1>1 DEF Total
<1>4. (Total(Peer(k), s))' = Total(r, s)
  BY <1>1, <1>3 DEF Total
<1> QED
  BY <1>1, <1>2, <1>3, <1>4

\* What a step of the server that sends nothing and takes nothing does.
LEMMA QuietHearing ==
    ASSUME IInv, Hearing, pc # "killed", pc' \notin {"bcast", "killed"},
           \A k \in Slots : \A s \in Clients \ {Peer(k)} : Live(k)' /\ Live(k) => Due(k, s) = 0,
           \A k \in Slots : Live(k)' => Live(k) /\ Peer(k)' = Peer(k),
           UNCHANGED <<backlog, life, said, up, got, down, missed>>
    PROVE  Hearing'
<1>0. TypeOK /\ Tables /\ OneSocket
  BY DEF IInv
<1>1. /\ \A r \in Clients : Stream(r)' = Stream(r)
      /\ \A s \in Clients : Taken(s)' = Taken(s)
  BY DEF Stream, Taken
<1>2. Numbered' /\ Unheard' /\ Buffered'
  BY DEF Hearing, Numbered, Unheard, Buffered, Taken
<1>3. InStep'
  BY <1>1, SameInStep DEF Hearing
<1>4. \A k, s : Due(k, s)' = 0
  BY DEF Due
<1>5. Served'
  BY <1>0, <1>1, <1>4, SameServed DEF Hearing
<1> QED
  BY <1>2, <1>3, <1>5 DEF Hearing

LEMMA SelectHears == IInv /\ Hearing /\ Select => Hearing'
<1> SUFFICES ASSUME IInv, Hearing, Select PROVE Hearing'
  OBVIOUS
<1>1. /\ pc = "select" /\ pc' \in {"accept", "scan"}
      /\ UNCHANGED <<socks, conn, backlog, life, said, up, got, down, missed>>
  BY DEF Select, tableVars, clientVars
<1>2. \A k, s : Due(k, s) = 0
  BY <1>1 DEF Due
<1>3. \A k \in Slots : Live(k)' => Live(k) /\ Peer(k)' = Peer(k)
  BY <1>1 DEF Live, Peer
<1> QED
  BY <1>1, <1>2, <1>3, QuietHearing

LEMMA ScanEndHears == IInv /\ Hearing /\ ScanEnd => Hearing'
<1> SUFFICES ASSUME IInv, Hearing, ScanEnd PROVE Hearing'
  OBVIOUS
<1>1. /\ pc = "scan" /\ pc' = "select"
      /\ UNCHANGED <<socks, conn, backlog, life, said, up, got, down, missed>>
  BY DEF ScanEnd, tableVars, clientVars
<1>2. \A k, s : Due(k, s) = 0
  BY <1>1 DEF Due
<1>3. \A k \in Slots : Live(k)' => Live(k) /\ Peer(k)' = Peer(k)
  BY <1>1 DEF Live, Peer
<1> QED
  BY <1>1, <1>2, <1>3, QuietHearing

LEMMA SendEndHears == IInv /\ Hearing /\ SendEnd => Hearing'
<1> SUFFICES ASSUME IInv, Hearing, SendEnd PROVE Hearing'
  OBVIOUS
<1>0. TypeOK /\ Tables /\ OneSocket
  BY DEF IInv
<1>1. /\ pc = "bcast" /\ pc' \in {"select", "scan"} /\ NextIn(j, Others) = {}
      /\ UNCHANGED <<socks, conn, backlog, life, said, up, got, down, missed>>
  BY DEF SendEnd, AfterOne, tableVars, clientVars
<1>2. ASSUME NEW k \in Slots, NEW s \in Clients \ {Peer(k)}, Live(k) PROVE Due(k, s) = 0
  <2>1. CASE s # Speaker
    BY <2>1 DEF Due
  <2>2. CASE s = Speaker
    <3>1. socks[k] \in Others
      BY <1>2, <2>2 DEF Live, Others, Speaker, Peer
    <3>2. ~(k >= j)
      BY <1>1, <3>1 DEF NextIn
    <3>3. k < j
      BY <1>0, <3>2, Descriptors DEF Slots, TypeOK
    <3> QED
      BY <3>3 DEF Due
  <2> QED
    BY <2>1, <2>2
<1>3. \A k \in Slots : Live(k)' => Live(k) /\ Peer(k)' = Peer(k)
  BY <1>1 DEF Live, Peer
<1> QED
  BY <1>1, <1>2, <1>3, QuietHearing

LEMMA HangupHears == IInv /\ Hearing /\ Hangup => Hearing'
<1> SUFFICES ASSUME IInv, Hearing, Hangup PROVE Hearing'
  OBVIOUS
<1>0. TypeOK /\ Tables /\ OneSocket
  BY DEF IInv
<1> DEFINE l == First(NextIn(i, rset))
<1>1. /\ pc = "scan" /\ pc' \in {"select", "scan"} /\ NextIn(i, rset) # {}
      /\ conn' = [conn EXCEPT ![socks[l]] = Nobody]
      /\ socks' = [socks EXCEPT ![l] = Free]
      /\ UNCHANGED <<backlog, life, said, up, got, down, missed>>
  BY DEF Hangup, AfterOne, clientVars
<1>2. l \in Slots /\ socks[l] \in Fds
  <2>1. i \in Nat /\ rset \in SUBSET (Fds \cup {Listen})
    BY <1>0, Descriptors DEF TypeOK
  <2> QED
    BY <1>0, <1>1, <2>1, NextSlot
<1> HIDE DEF l
<1>3. \A k, s : Due(k, s) = 0
  BY <1>1 DEF Due
<1>4. ASSUME NEW k \in Slots, Live(k)' PROVE Live(k) /\ Peer(k)' = Peer(k)
  <2>1. k # l
    BY <1>0, <1>1, <1>4, Descriptors DEF Live, TypeOK
  <2>2. socks'[k] = socks[k] /\ socks[k] \in Fds
    BY <1>0, <1>1, <1>4, <2>1 DEF Live, TypeOK
  <2>3. socks[k] # socks[l]
    BY <1>0, <1>2, <2>1, <2>2, Descriptors DEF Tables
  <2>4. conn'[socks[k]] = conn[socks[k]]
    BY <1>0, <1>1, <2>2, <2>3 DEF TypeOK
  <2> QED
    BY <1>1, <1>4, <2>2, <2>4 DEF Live, Peer
<1> QED
  BY <1>1, <1>3, <1>4, QuietHearing


LEMMA AcceptHears == IInv /\ Hearing /\ Accept => Hearing'
<1> SUFFICES ASSUME IInv, Hearing, Accept PROVE Hearing'
  OBVIOUS
<1>0. TypeOK /\ Tables /\ OneSocket /\ Flow /\ Round
  BY DEF IInv
<1>1. /\ pc = "accept" /\ pc' \in {"select", "scan"}
      /\ UNCHANGED <<life, said, up, got, down>>
  BY DEF Accept, AfterOne, clientVars
<1>2. \A k, s : Due(k, s) = 0 /\ Due(k, s)' = 0
  BY <1>1 DEF Due
<1>3. CASE UNCHANGED <<tableVars, backlog>>
  <2>1. UNCHANGED <<socks, conn, missed, backlog>>
    BY <1>3 DEF tableVars
  <2>2. \A k \in Slots : Live(k)' => Live(k) /\ Peer(k)' = Peer(k)
    BY <1>1, <2>1 DEF Live, Peer
  <2> QED
    BY <1>1, <1>2, <2>1, <2>2, QuietHearing
<1>4. CASE \E f \in Fds :
             /\ conn[f] = Nobody
             /\ conn' = [conn EXCEPT ![f] = Head(backlog)]
             /\ \E k \in Slots : socks[k] = Free /\ socks' = [socks EXCEPT ![k] = f]
             /\ backlog' = Tail(backlog)
             /\ missed' = [missed EXCEPT ![Head(backlog)] = [s \in Clients |-> Taken(s)]]
  <2>1. PICK f \in Fds :
             /\ conn[f] = Nobody
             /\ conn' = [conn EXCEPT ![f] = Head(backlog)]
             /\ \E k \in Slots : socks[k] = Free /\ socks' = [socks EXCEPT ![k] = f]
             /\ backlog' = Tail(backlog)
             /\ missed' = [missed EXCEPT ![Head(backlog)] = [s \in Clients |-> Taken(s)]]
    BY <1>4
  <2>2. PICK k \in Slots : socks[k] = Free /\ socks' = [socks EXCEPT ![k] = f]
    BY <2>1
  <2>3. backlog # << >> /\ backlog \in Seq(Clients)
    BY <1>0, <1>1 DEF Round, Ready, TypeOK
  <2>4. PICK c \in Clients :
           /\ c = Head(backlog) /\ c = backlog[1] /\ 1 \in 1 .. Len(backlog)
           /\ \A n \in 1 .. Len(backlog') :
                 backlog'[n] = backlog[n + 1] /\ n + 1 \in 1 .. Len(backlog)
    BY <2>1, <2>3, TailIs
  <2>5. /\ conn' = [conn EXCEPT ![f] = c]
        /\ missed' = [missed EXCEPT ![c] = [s \in Clients |-> Taken(s)]]
    BY <2>1, <2>4
  <2>6. got[c] = << >> /\ down[c] = << >>
    BY <2>4 DEF Hearing, Unheard
  <2>7. /\ \A r \in Clients : Stream(r)' = Stream(r)
        /\ \A s \in Clients : Taken(s)' = Taken(s)
        /\ \A r \in Clients : \A s : Total(r, s)' = Total(r, s)
    BY <1>1 DEF Stream, Taken, Total
  <2>8. Len(Stream(c)) = 0 /\ \A s : Total(c, s) = 0
    <3>1. Stream(c) = << >>
      BY <2>6 DEF Stream
    <3>2. \A s : {m \in 1 .. 0 : << >>[m].by = s} = {}
      OBVIOUS
    <3> QED
      BY <3>1, <3>2, FS_EmptySet DEF Total, Count
  <2>9. /\ missed'[c] = [s \in Clients |-> Taken(s)]
        /\ \A r \in Clients \ {c} : missed'[r] = missed[r]
    BY <1>0, <2>4, <2>5 DEF TypeOK
  <2>10. Numbered' /\ Buffered'
    BY <1>1, <2>7 DEF Hearing, Numbered, Buffered
  <2>11. Unheard'
    <3> SUFFICES ASSUME NEW r \in Clients,
                        life'[r] = "out" \/ \E n \in 1 .. Len(backlog') : backlog'[n] = r
                 PROVE  got'[r] = << >> /\ down'[r] = << >>
      BY DEF Unheard
    <3>1. life[r] = "out" \/ \E n \in 1 .. Len(backlog) : backlog[n] = r
      BY <1>1, <2>4
    <3> QED
      BY <1>1, <3>1 DEF Hearing, Unheard
  <2>12. InStep'
    <3> SUFFICES ASSUME NEW r \in Clients, NEW n \in 1 .. Len(Stream(r))
                 PROVE  /\ Stream(r)[n].by # r
                        /\ Stream(r)[n].no
                             = missed'[r][Stream(r)[n].by] + Count(Stream(r), Stream(r)[n].by, n)
      BY <2>7 DEF InStep
    <3>1. r # c
      BY <2>8
    <3> QED
      BY <2>9, <3>1 DEF Hearing, InStep
  <2>13. Served'
    <3> SUFFICES ASSUME NEW h \in Slots, Live(h)', NEW s \in Clients, s # Peer(h)'
                 PROVE  (Total(Peer(h), s) = Taken(s) - missed[Peer(h)][s] - Due(h, s))'
      BY DEF Served
    <3>1. Taken(s) \in Nat
      BY <1>0, Streams
    <3>2. CASE h = k
      <4>1. Peer(h)' = c
        BY <1>0, <2>2, <2>5, <3>2 DEF Peer, TypeOK
      <4>2. missed'[c][s] = Taken(s)
        BY <2>9
      <4>3. Total(Peer(h), s)' = Total(c, s)'
        BY <4>1 DEF Total, Stream
      <4> QED
        BY <1>2, <2>4, <2>7, <2>8, <3>1, <4>1, <4>2, <4>3
    <3>3. CASE h # k
      <4>1. socks'[h] = socks[h] /\ socks[h] \in Fds
        BY <1>0, <2>2, <3>3 DEF Live, TypeOK
      <4>2. socks[h] # f
        BY <1>0, <2>1, <4>1 DEF Tables
      <4>3. Peer(h)' = Peer(h) /\ Live(h)
        BY <1>0, <1>1, <2>5, <4>1, <4>2 DEF Peer, Live, TypeOK
      <4>4. Peer(h) \in Clients /\ Peer(h) # c
        BY <1>0, <2>4, <4>1, Peers DEF OneSocket, Peer
      <4>5. Total(Peer(h), s) = Taken(s) - missed[Peer(h)][s] - Due(h, s)
        BY <1>1, <4>3 DEF Hearing, Served
      <4>6. Total(Peer(h), s)' = Total(Peer(h), s)
        BY <2>7, <4>3, <4>4 DEF Total
      <4> QED
        BY <1>2, <2>7, <2>9, <4>3, <4>4, <4>5, <4>6
    <3> QED
      BY <3>2, <3>3
  <2> QED
    BY <2>10, <2>11, <2>12, <2>13 DEF Hearing
<1> QED
  BY <1>3, <1>4 DEF Accept

LEMMA RecvHears == IInv /\ Hearing /\ Recv => Hearing'
<1> SUFFICES ASSUME IInv, Hearing, Recv PROVE Hearing'
  OBVIOUS
<1>0. TypeOK /\ Tables /\ OneSocket /\ Flow /\ Sending
  BY DEF IInv
<1>1. /\ pc = "scan" /\ pc' = "bcast" /\ NextIn(i, rset) # {}
      /\ i' = First(NextIn(i, rset)) /\ j' = 1
      /\ LET c == conn[socks[i']] IN
         \E n \in 1 .. Len(up[c]) :
            /\ buf' = SubSeq(up[c], 1, n)
            /\ up' = [up EXCEPT ![c] = SubSeq(@, n + 1, Len(@))]
      /\ UNCHANGED <<socks, conn, missed, sent, backlog, life, said, got, down>>
  BY DEF Recv, tableVars, clientVars
<1>2. PICK l \in Slots, c \in Clients :
         l = First(NextIn(i, rset)) /\ socks[l] \in Fds /\ c = conn[socks[l]]
  <2>1. i \in Nat /\ rset \in SUBSET (Fds \cup {Listen})
    BY <1>0, Descriptors DEF TypeOK
  <2> QED
    BY <1>0, <1>1, <2>1, NextSlot
<1>3. sent = 0
  BY <1>0, <1>1 DEF Sending
<1>4. Speaker' = c
  BY <1>1, <1>2 DEF Speaker
<1>5. PICK n \in 1 .. Len(up[c]) :
            /\ buf' = SubSeq(up[c], 1, n)
            /\ up' = [up EXCEPT ![c] = SubSeq(up[c], n + 1, Len(up[c]))]
  BY <1>1, <1>2
<1>6. /\ up[c] \in Seq(Messages) /\ Len(up[c]) \in Nat /\ n \in Nat /\ n >= 1 /\ n <= Len(up[c])
      /\ Len(buf') = n /\ \A m \in 1 .. n : buf'[m] = up[c][m]
  <2>1. up[c] \in Seq(Messages)
    BY <1>0, <1>2 DEF TypeOK
  <2> QED
    BY <1>5, <2>1
<1>7. /\ Len(up'[c]) = Len(up[c]) - n
      /\ \A m \in 1 .. Len(up'[c]) : up'[c][m] = up[c][n + m] /\ n + m \in 1 .. Len(up[c])
      /\ \A s \in Clients \ {c} : up'[s] = up[s]
  <2>1. up'[c] = SubSeq(up[c], n + 1, Len(up[c]))
    BY <1>0, <1>2, <1>5 DEF TypeOK
  <2>2. \A s \in Clients \ {c} : up'[s] = up[s]
    BY <1>0, <1>5 DEF TypeOK
  <2>3. /\ Len(up'[c]) = Len(up[c]) - n
        /\ \A m \in 1 .. Len(up'[c]) : up'[c][m] = up[c][n + m] /\ n + m \in 1 .. Len(up[c])
    BY <1>6, <2>1
  <2> QED
    BY <2>2, <2>3
<1>8. /\ Taken(c)' = Taken(c) + n /\ Taken(c) \in Nat
      /\ \A s \in Clients \ {c} : Taken(s)' = Taken(s)
  <2>1. Taken(c) \in Nat /\ said[c] \in Nat
    BY <1>0, <1>2, Streams DEF TypeOK
  <2> QED
    BY <1>1, <1>6, <1>7, <2>1, SMTT(30) DEF Taken
<1>9. Numbered'
  <2> SUFFICES ASSUME NEW s \in Clients, NEW m \in 1 .. Len(up'[s])
               PROVE  up'[s][m] = [by |-> s, no |-> Taken(s)' + m]
    BY DEF Numbered
  <2>1. CASE s # c
    BY <1>7, <1>8, <2>1 DEF Hearing, Numbered
  <2>2. CASE s = c
    <3>1. up'[c][m] = [by |-> c, no |-> Taken(c) + (n + m)]
      BY <1>2, <1>7, <2>2 DEF Hearing, Numbered
    <3>2. Taken(c) + (n + m) = Taken(c)' + m
      BY <1>6, <1>7, <1>8, <2>2
    <3> QED
      BY <2>2, <3>1, <3>2
  <2> QED
    BY <2>1, <2>2
<1>10. Unheard'
  BY <1>1 DEF Hearing, Unheard
<1>11. Buffered'
  <2>1. ASSUME NEW m \in 1 .. Len(buf')
        PROVE  buf'[m] = [by |-> c, no |-> Taken(c)' - Len(buf') + m]
    <3>1. buf'[m] = [by |-> c, no |-> Taken(c) + m]
      <4>1. m \in 1 .. n /\ m \in 1 .. Len(up[c])
        BY <1>6, <2>1
      <4> QED
        BY <1>2, <1>6, <4>1 DEF Hearing, Numbered
    <3>2. Taken(c) + m = Taken(c)' - Len(buf') + m
      BY <1>6, <1>8
    <3> QED
      BY <3>1, <3>2
  <2>2. socks'[i'] \in Fds
    BY <1>1, <1>2
  <2>3. Taken(Speaker)' = Taken(c)'
    BY <1>4 DEF Taken
  <2> QED
    BY <1>2, <1>4, <2>1, <2>2, <2>3 DEF Buffered
<1>12. \A r \in Clients : Stream(r)' = Stream(r)
  BY <1>1 DEF Stream
<1>13. InStep'
  BY <1>1, <1>12, SameInStep DEF Hearing
<1>14. Served'
  <2> SUFFICES ASSUME NEW k \in Slots, Live(k)', NEW s \in Clients, s # Peer(k)'
               PROVE  (Total(Peer(k), s) = Taken(s) - missed[Peer(k)][s] - Due(k, s))'
    BY DEF Served
  <2>1. Live(k) /\ Peer(k)' = Peer(k) /\ Peer(k) \in Clients
    BY <1>0, <1>1, Peers DEF Live, Peer
  <2>2. Total(Peer(k), s) = Taken(s) - missed[Peer(k)][s]
    <3>1. Total(Peer(k), s) = Taken(s) - missed[Peer(k)][s] - Due(k, s)
      BY <1>1, <2>1 DEF Hearing, Served
    <3>2. Due(k, s) = 0
      BY <1>1 DEF Due
    <3>3. Taken(s) \in Nat /\ missed[Peer(k)][s] \in Nat
      BY <1>0, <2>1, Streams DEF TypeOK
    <3> QED
      BY <3>1, <3>2, <3>3
  <2>3. Total(Peer(k), s)' = Total(Peer(k), s)
    BY <1>12, <2>1 DEF Total
  <2>4. Due(k, s)' = IF s = c THEN n ELSE 0
    <3>1. ~(k < 1)
      BY Descriptors DEF Slots
    <3>2. Len(buf') - sent' = n
      BY <1>1, <1>3, <1>6
    <3> QED
      BY <1>1, <1>4, <1>6, <3>1, <3>2 DEF Due
  <2>5. missed[Peer(k)][s] \in Nat /\ Taken(s) \in Nat
    BY <1>0, <2>1, Streams DEF TypeOK
  <2>6. Taken(s)' = Taken(s) + (IF s = c THEN n ELSE 0)
    BY <1>8, <2>5
  <2>7. missed'[Peer(k)'][s] = missed[Peer(k)][s]
    BY <1>1, <2>1
  <2> QED
    BY <1>6, <2>2, <2>3, <2>4, <2>5, <2>6, <2>7
<1> QED
  BY <1>9, <1>10, <1>11, <1>13, <1>14 DEF Hearing


\* When the message has gone to slot k, or its client has closed, what is due to the
\* other slots is what it was.
LEMMA SameDue ==
    ASSUME TypeOK, pc = "bcast", NEW k \in Slots, k = First(NextIn(j, Others)), k >= j,
           \A h \in Slots : h >= j /\ socks[h] \in Others => k <= h,
           pc' = "bcast" \/ pc' = "killed", UNCHANGED <<socks, conn, i, buf>>,
           \/ sent' = sent + 1 /\ j' = j
           \/ sent' = 0 /\ j' = k + 1,
           pc' = "bcast",
           NEW h \in Slots, h # k, socks[h] \in Fds, NEW s \in Clients, s # Peer(h)
    PROVE  Due(h, s)' = Due(h, s)
<1>1. Speaker' = Speaker
  BY DEF Speaker
<1>2. h \in Nat /\ k \in Nat /\ j \in Nat /\ Len(buf) \in Nat
  BY Descriptors DEF Slots, TypeOK
<1>3. CASE s # Speaker
  BY <1>1, <1>3 DEF Due
<1>4. CASE s = Speaker /\ h < j
  <2>1. h < j'
    BY <1>2, <1>4
  <2> QED
    BY <1>4, <2>1 DEF Due
<1>5. CASE s = Speaker /\ ~(h < j)
  <2>1. socks[h] \in Others
    BY <1>5 DEF Others, Speaker, Peer
  <2>2. h > k /\ ~(h < j')
    BY <1>2, <1>5, <2>1
  <2>3. Due(h, s) = Len(buf)
    BY <1>5, <2>2 DEF Due
  <2>4. CASE j' = j
    <3>1. First(NextIn(j, Others))' = k
      BY <2>4 DEF First, NextIn, Others
    <3> QED
      BY <1>1, <1>5, <2>2, <2>3, <3>1 DEF Due
  <2>5. CASE sent' = 0
    BY <1>1, <1>2, <1>5, <2>2, <2>3, <2>5 DEF Due
  <2> QED
    BY <2>4, <2>5
<1> QED
  BY <1>3, <1>4, <1>5

LEMMA SendHears == IInv /\ Hearing /\ Send => Hearing'
<1> SUFFICES ASSUME IInv, Hearing, Send PROVE Hearing'
  OBVIOUS
<1>0. TypeOK /\ Tables /\ OneSocket /\ Flow /\ Sending
  BY DEF IInv
<1>1. /\ pc = "bcast" /\ NextIn(j, Others) # {}
      /\ UNCHANGED <<socks, conn, missed, i, buf, backlog, life, said, got, up>>
  BY DEF Send, tableVars, clientVars
<1>2. PICK k \in Slots, c \in Clients :
         /\ k = First(NextIn(j, Others)) /\ c = conn[socks[k]]
         /\ k >= j /\ socks[k] \in Fds /\ socks[k] \in Others
         /\ \A h \in Slots : h >= j /\ socks[h] \in Others => k <= h
  <2>1. j \in Nat /\ Others \in SUBSET (Fds \cup {Listen})
    BY <1>0, Descriptors DEF TypeOK, Others
  <2> QED
    BY <1>0, <1>1, <2>1, NextSlot
<1>3. \/ /\ down' = [down EXCEPT ![c] = Append(down[c], buf[sent + 1])]
         /\ pc' = "bcast" /\ life[c] # "closed"
         /\ \/ sent + 1 < Len(buf) /\ sent' = sent + 1 /\ j' = j
            \/ ~(sent + 1 < Len(buf)) /\ sent' = 0 /\ j' = k + 1
      \/ /\ life[c] = "closed" /\ pc' = "bcast" /\ sent' = 0 /\ j' = k + 1
         /\ UNCHANGED down
      \/ pc' = "killed" /\ UNCHANGED down
  BY <1>1, <1>2 DEF Send
<1>4. PICK sp \in Clients : sp = Speaker /\ sp # c /\ c = Peer(k) /\ socks[i] \in Fds
  <2>1. Speaker \in Clients /\ socks[i] \in Fds
    BY <1>1 DEF Hearing, Buffered
  <2>2. c = Peer(k) /\ socks[i] # socks[k]
    BY <1>2 DEF Peer, Others
  <2> QED
    BY <1>0, <1>2, <2>1, <2>2, Peers DEF Speaker
<1>5. /\ \A s \in Clients : Taken(s)' = Taken(s) /\ Taken(s) \in Nat
      /\ \A r, s \in Clients : missed'[r][s] = missed[r][s] /\ missed[r][s] \in Nat
  BY <1>0, <1>1, Streams DEF Taken, TypeOK
<1>6. Numbered' /\ Buffered'
  <2>1. Speaker' = sp
    BY <1>1, <1>4 DEF Speaker
  <2>2. Buffered'
    BY <1>1, <1>3, <1>4, <1>5, <2>1 DEF Hearing, Buffered
  <2> QED
    BY <1>1, <1>5, <2>2 DEF Hearing, Numbered
<1>7. ASSUME NEW h \in Slots, h # k, Live(h)', pc' = "bcast",
             \A r \in Clients \ {c} : Stream(r)' = Stream(r),
             NEW s \in Clients, s # Peer(h)',
             (sent' = sent + 1 /\ j' = j) \/ (sent' = 0 /\ j' = k + 1)
      PROVE  (Total(Peer(h), s) = Taken(s) - missed[Peer(h)][s] - Due(h, s))'
  <2>1. Live(h) /\ Peer(h)' = Peer(h) /\ socks[h] \in Fds
    BY <1>1, <1>7 DEF Live, Peer
  <2>2. PICK r \in Clients : r = Peer(h) /\ r # c
    BY <1>0, <1>2, <1>4, <1>7, <2>1, Peers
  <2>3. Total(r, s)' = Total(r, s)
    BY <1>7, <2>2 DEF Total
  <2>4. Due(h, s)' = Due(h, s)
    BY <1>0, <1>1, <1>2, <1>7, <2>1, SameDue
  <2>5. Total(r, s) = Taken(s) - missed[r][s] - Due(h, s)
    BY <1>1, <1>7, <2>1, <2>2 DEF Hearing, Served
  <2>6. Total(Peer(h), s)' = Total(r, s)'
    BY <2>1, <2>2 DEF Total
  <2> QED
    BY <1>5, <2>1, <2>2, <2>3, <2>4, <2>5, <2>6
<1>8. CASE UNCHANGED down
  <2>1. \A r \in Clients : Stream(r)' = Stream(r)
    BY <1>1, <1>8 DEF Stream
  <2>2. Unheard' /\ InStep'
    BY <1>1, <1>8, <2>1, SameInStep DEF Hearing, Unheard
  <2>3. Served'
    <3> SUFFICES ASSUME pc' # "killed", NEW h \in Slots, Live(h)', NEW s \in Clients, s # Peer(h)'
                 PROVE  (Total(Peer(h), s) = Taken(s) - missed[Peer(h)][s] - Due(h, s))'
      BY DEF Served
    <3>1. h # k /\ pc' = "bcast" /\ sent' = 0 /\ j' = k + 1
      <4>1. down' # [down EXCEPT ![c] = Append(down[c], buf[sent + 1])]
        <5>1. down[c] \in Seq(Messages) /\ c \in DOMAIN down
          BY <1>0 DEF TypeOK
        <5>2. Append(down[c], buf[sent + 1]) # down[c]
          BY <5>1
        <5> QED
          BY <1>8, <5>1, <5>2
      <4> QED
        BY <1>1, <1>2, <1>3, <4>1 DEF Live, Peer
    <3> QED
      BY <1>7, <2>1, <3>1
  <2> QED
    BY <1>6, <2>2, <2>3 DEF Hearing
<1>9. CASE /\ down' = [down EXCEPT ![c] = Append(down[c], buf[sent + 1])]
           /\ pc' = "bcast" /\ life[c] # "closed"
           /\ \/ sent + 1 < Len(buf) /\ sent' = sent + 1 /\ j' = j
              \/ ~(sent + 1 < Len(buf)) /\ sent' = 0 /\ j' = k + 1
  <2>0. sent \in Nat /\ Len(buf) \in Nat /\ sent < Len(buf) /\ sent + 1 \in 1 .. Len(buf)
    BY <1>0, <1>1, SMTT(30) DEF Sending, TypeOK
  <2>1. PICK e \in Messages : e = buf[sent + 1]
    BY <1>0, <2>0, SMTT(30) DEF TypeOK
  <2>2. e.by = sp /\ e.no = Taken(sp) - Len(buf) + (sent + 1)
    <3>1. \A n \in 1 .. Len(buf) : buf[n] = [by |-> sp, no |-> Taken(sp) - Len(buf) + n]
      BY <1>1, <1>4 DEF Hearing, Buffered
    <3>2. e = [by |-> sp, no |-> Taken(sp) - Len(buf) + (sent + 1)]
      BY <2>0, <2>1, <3>1
    <3> QED
      BY <3>2
  <2>3. PICK H \in Seq(Messages) : H = Stream(c)
    BY <1>0, Streams
  <2>4. /\ Stream(c)' = Append(H, e)
        /\ \A r \in Clients \ {c} : Stream(r)' = Stream(r)
        /\ down'[c] # << >> /\ \A r \in Clients \ {c} : down'[r] = down[r]
    <3>1. /\ down[c] \in Seq(Messages) /\ got[c] \in Seq(Messages)
          /\ down'[c] = Append(down[c], e)
          /\ \A r \in Clients \ {c} : down'[r] = down[r]
      BY <1>0, <1>9, <2>1 DEF TypeOK
    <3>2. got[c] \o Append(down[c], e) = Append(got[c] \o down[c], e)
      <4>1. \A a, b \in Seq(Messages), m \in Messages : a \o Append(b, m) = Append(a \o b, m)
        BY ConcatAppend
      <4>2. e \in Messages
        BY <2>1
      <4> QED
        BY <3>1, <4>1, <4>2, Zenon
    <3>3. Append(down[c], e) # << >>
      BY <3>1, AppendIs
    <3> QED
      BY <1>1, <2>3, <3>1, <3>2, <3>3 DEF Stream
  <2>5. /\ Len(H) \in Nat /\ Len(Append(H, e)) = Len(H) + 1
        /\ \A n \in 1 .. Len(H) : Append(H, e)[n] = H[n]
        /\ Append(H, e)[Len(H) + 1] = e
        /\ \A s : \A n \in 1 .. Len(H) : Count(Append(H, e), s, n) = Count(H, s, n)
        /\ \A s : Count(Append(H, e), s, Len(H) + 1)
                    = Count(H, s, Len(H)) + (IF e.by = s THEN 1 ELSE 0)
        /\ \A s : Count(H, s, Len(H)) = Total(c, s) /\ Total(c, s) \in Nat
    <3>1. \A s : Count(H, s, Len(H)) = Total(c, s) /\ Total(c, s) \in Nat
      BY <1>0, <2>3, Streams DEF Total
    <3>2. /\ \A s : \A n \in 1 .. Len(H) : Count(Append(H, e), s, n) = Count(H, s, n)
          /\ \A s : Count(Append(H, e), s, Len(H) + 1)
                      = Count(H, s, Len(H)) + (IF e.by = s THEN 1 ELSE 0)
      BY CountAppend
    <3> QED
      BY <3>1, <3>2, AppendIs
  <2>6. \A s \in Clients \ {c} : Total(c, s) = Taken(s) - missed[c][s] - Due(k, s)
    BY <1>1, <1>2, <1>4, <1>9 DEF Hearing, Served, Live
  <2>7. \A s \in Clients : Due(k, s) = IF s = sp THEN Len(buf) - sent ELSE 0
    <3>1. ~(k < j)
      BY <1>0, <1>2, Descriptors DEF Slots, TypeOK
    <3> QED
      BY <1>1, <1>2, <1>4, <3>1 DEF Due
  <2>8. Unheard'
    <3>1. /\ life[c] # "out" /\ \A n \in 1 .. Len(backlog) : backlog[n] # c
      BY <1>0, <1>2 DEF OneSocket
    <3> QED
      BY <1>1, <2>4, <3>1 DEF Hearing, Unheard
  <2>9. InStep'
    <3>1. ASSUME NEW r \in Clients \ {c}, NEW n \in 1 .. Len(Stream(r))
          PROVE  /\ Stream(r)[n].by # r
                 /\ Stream(r)[n].no
                      = missed[r][Stream(r)[n].by] + Count(Stream(r), Stream(r)[n].by, n)
      BY DEF Hearing, InStep
    <3>2. ASSUME NEW n \in 1 .. Len(Append(H, e))
          PROVE  LET m == Append(H, e)[n] IN
                 m.by # c /\ m.no = missed[c][m.by] + Count(Append(H, e), m.by, n)
      <4>1. CASE n \in 1 .. Len(H)
        <5>1. H[n].by # c /\ H[n].no = missed[c][H[n].by] + Count(H, H[n].by, n)
          BY <2>3, <4>1 DEF Hearing, InStep
        <5> QED
          BY <2>5, <4>1, <5>1
      <4>2. CASE n = Len(H) + 1
        <5>1. e.no = missed[c][sp] + (Total(c, sp) + 1)
          <6>1. Total(c, sp) = Taken(sp) - missed[c][sp] - (Len(buf) - sent)
            BY <1>4, <2>6, <2>7
          <6>2. e.no = Taken(sp) - Len(buf) + (sent + 1)
            BY <2>2
          <6>3. Taken(sp) \in Nat /\ missed[c][sp] \in Nat
            BY <1>5
          <6> QED
            BY <2>0, <6>1, <6>2, <6>3
        <5> QED
          BY <1>4, <2>2, <2>5, <4>2, <5>1
      <4> QED
        BY <2>5, <4>1, <4>2
    <3> SUFFICES ASSUME NEW r \in Clients
                 PROVE  \A n \in 1 .. Len(Stream(r)') :
                          /\ Stream(r)'[n].by # r
                          /\ Stream(r)'[n].no = missed[r][Stream(r)'[n].by]
                                + Count(Stream(r)', Stream(r)'[n].by, n)
      BY <1>1 DEF InStep
    <3>3. CASE r = c
      BY <2>4, <3>2, <3>3
    <3>4. CASE r # c
      BY <2>4, <3>1, <3>4
    <3> QED
      BY <3>3, <3>4
  <2>10. Served'
    <3> SUFFICES ASSUME NEW h \in Slots, Live(h)', NEW s \in Clients, s # Peer(h)'
                 PROVE  (Total(Peer(h), s) = Taken(s) - missed[Peer(h)][s] - Due(h, s))'
      BY DEF Served
    <3>1. CASE h # k
      BY <1>7, <1>9, <2>4, <3>1
    <3>2. CASE h = k
      <4>1. Peer(h)' = c
        BY <1>1, <1>4, <3>2 DEF Peer
      <4>2. Total(c, s)' = Total(c, s) + (IF s = sp THEN 1 ELSE 0)
        BY <2>2, <2>4, <2>5 DEF Total
      <4>3. Due(k, s)' = Due(k, s) - (IF s = sp THEN 1 ELSE 0)
        <5>1. Speaker' = sp
          BY <1>1, <1>4 DEF Speaker
        <5>2. CASE sent' = sent + 1 /\ j' = j
          <6>1. First(NextIn(j, Others))' = k /\ ~(k < j)
            <7>1. ~(k < j)
              BY <1>0, <1>2, Descriptors, SMTT(30) DEF Slots, TypeOK
            <7>2. First(NextIn(j, Others))' = k
              BY <1>1, <1>2, <5>2 DEF First, NextIn, Others
            <7> QED
              BY <7>1, <7>2
          <6>2. Due(k, s)' = IF s = sp THEN Len(buf) - (sent + 1) ELSE 0
            BY <1>1, <1>9, <5>1, <5>2, <6>1 DEF Due
          <6> QED
            BY <2>0, <2>7, <6>2
        <5>3. CASE ~(sent + 1 < Len(buf)) /\ sent' = 0 /\ j' = k + 1
          <6>1. k < j' /\ Len(buf) - sent = 1
            BY <2>0, <5>3, Descriptors DEF Slots
          <6>2. Due(k, s)' = 0
            BY <6>1 DEF Due
          <6> QED
            BY <2>7, <6>1, <6>2
        <5> QED
          BY <1>9, <5>2, <5>3
      <4>4. Total(Peer(h), s)' = Total(c, s)'
        BY <4>1 DEF Total
      <4>5. Due(h, s)' = Due(k, s)'
        BY <3>2
      <4>6. Due(k, s) \in Int
        BY <2>0, <2>7
      <4>7. s \in Clients \ {c} /\ missed'[Peer(h)'][s] = missed[c][s]
        BY <1>1, <4>1
      <4> QED
        BY <1>5, <2>5, <2>6, <4>2, <4>3, <4>4, <4>5, <4>6, <4>7
    <3> QED
      BY <3>1, <3>2
  <2> QED
    BY <1>6, <2>8, <2>9, <2>10 DEF Hearing
<1> QED
  BY <1>3, <1>8, <1>9


LEMMA ClientHears ==
    ASSUME IInv, Hearing, NEW c \in Clients, ClientStep(c) \/ Quit(c) PROVE Hearing'
<1>0. TypeOK /\ Tables /\ OneSocket /\ Flow
  BY DEF IInv
<1>1. pc # "killed" /\ UNCHANGED <<pc, socks, conn, missed, i, j, buf, sent>>
  BY DEF ClientStep, Connect, Type, Sent, Hear, EndInput, SeeClosed, Quit, ClientSide,
     tableVars, loopVars
<1>2. ASSUME \A s \in Clients : Taken(s)' = Taken(s),
             \A r \in Clients : Stream(r)' = Stream(r),
             \A r \in Clients : life[r] = "closed" => life'[r] = "closed",
             Numbered', Unheard'
      PROVE  Hearing'
  <2>1. Buffered'
    <3>1. Speaker' = Speaker
      BY <1>1 DEF Speaker
    <3> QED
      BY <1>1, <1>2, <3>1 DEF Hearing, Buffered
  <2>2. InStep'
    BY <1>1, <1>2, SameInStep DEF Hearing
  <2>3. ASSUME NEW k \in Slots, Live(k)'
        PROVE  /\ Live(k) /\ Peer(k)' = Peer(k)
               /\ \A s \in Clients \ {Peer(k)} : Due(k, s)' = Due(k, s)
    <3>1. socks[k] \in Fds /\ Peer(k)' = Peer(k) /\ life'[Peer(k)] # "closed"
      BY <1>1, <2>3 DEF Live, Peer
    <3>2. Peer(k) \in Clients
      BY <1>0, <3>1, Peers
    <3>3. Live(k)
      BY <1>2, <3>1, <3>2 DEF Live
    <3>4. \A s : Due(k, s)' = Due(k, s)
      BY <1>1 DEF Due, Speaker, First, NextIn, Others
    <3> QED
      BY <3>1, <3>3, <3>4
  <2>4. Served'
    BY <1>0, <1>1, <1>2, <2>3, SameServed DEF Hearing
  <2> QED
    BY <1>2, <2>1, <2>2, <2>4 DEF Hearing
<1>3. ASSUME Connect(c) PROVE Hearing'
  <2>1. /\ life[c] = "out" /\ life' = [life EXCEPT ![c] = "in"]
        /\ backlog' = Append(backlog, c)
        /\ UNCHANGED <<said, pend, up, down, got>>
    BY <1>3 DEF Connect
  <2>2. backlog \in Seq(Clients)
    BY <1>0 DEF TypeOK
  <2>3. \A n \in 1 .. Len(backlog') :
            (n \in 1 .. Len(backlog) /\ backlog'[n] = backlog[n]) \/ backlog'[n] = c
    BY <2>1, <2>2, AppendIs
  <2>4. \A r \in Clients : life'[r] \in {"out", "closed"} \/ life[r] = "closed"
                              => life'[r] = life[r]
    BY <1>0, <2>1 DEF TypeOK
  <2>5. Unheard'
    <3> SUFFICES ASSUME NEW r \in Clients,
                        life'[r] = "out" \/ \E n \in 1 .. Len(backlog') : backlog'[n] = r
                 PROVE  got'[r] = << >> /\ down'[r] = << >>
      BY DEF Unheard
    <3>1. life[r] = "out" \/ \E n \in 1 .. Len(backlog) : backlog[n] = r
      BY <2>1, <2>3, <2>4
    <3> QED
      BY <2>1, <3>1 DEF Hearing, Unheard
  <2>6. /\ \A s \in Clients : Taken(s)' = Taken(s)
        /\ \A r \in Clients : Stream(r)' = Stream(r)
    BY <2>1 DEF Taken, Stream
  <2>7. Numbered'
    BY <2>1, <2>6 DEF Hearing, Numbered
  <2> QED
    BY <1>2, <2>4, <2>5, <2>6, <2>7
<1>4. ASSUME Sent(c) PROVE Hearing'
  <2>1. /\ up' = [up EXCEPT ![c] = Append(up[c], [by |-> c, no |-> said[c] + 1])]
        /\ said' = [said EXCEPT ![c] = said[c] + 1]
        /\ UNCHANGED <<backlog, life, down, got>>
    BY <1>4 DEF Sent
  <2>2. /\ up[c] \in Seq(Messages) /\ Len(up[c]) \in Nat /\ said[c] \in Nat
        /\ [by |-> c, no |-> said[c] + 1] \in Messages
    <3>1. up[c] \in Seq(Messages) /\ said[c] \in Nat
      BY <1>0 DEF TypeOK
    <3>2. Len(up[c]) \in Nat
      BY <3>1
    <3>3. [by |-> c, no |-> said[c] + 1] \in Messages
      BY <3>1 DEF Messages
    <3> QED
      BY <3>1, <3>2, <3>3
  <2>3. /\ Len(up'[c]) = Len(up[c]) + 1
        /\ \A n \in 1 .. Len(up[c]) : up'[c][n] = up[c][n]
        /\ up'[c][Len(up[c]) + 1] = [by |-> c, no |-> said[c] + 1]
        /\ \A s \in Clients \ {c} : up'[s] = up[s]
    <3>1. /\ up'[c] = Append(up[c], [by |-> c, no |-> said[c] + 1])
          /\ \A s \in Clients \ {c} : up'[s] = up[s]
      BY <1>0, <2>1 DEF TypeOK
    <3> QED
      BY <2>2, <3>1, AppendIs
  <2>4. said'[c] = said[c] + 1 /\ \A s \in Clients \ {c} : said'[s] = said[s]
    BY <1>0, <2>1 DEF TypeOK
  <2>5. \A s \in Clients : Taken(s)' = Taken(s)
    <3>1. Taken(c)' = Taken(c)
      BY <2>2, <2>3, <2>4, SMTT(30) DEF Taken
    <3>2. \A s \in Clients \ {c} : Taken(s)' = Taken(s)
      BY <2>3, <2>4 DEF Taken
    <3> QED
      BY <3>1, <3>2
  <2>6. Numbered'
    <3> SUFFICES ASSUME NEW s \in Clients, NEW n \in 1 .. Len(up'[s])
                 PROVE  up'[s][n] = [by |-> s, no |-> Taken(s) + n]
      BY <2>5 DEF Numbered
    <3>1. CASE s # c \/ n \in 1 .. Len(up[c])
      BY <2>3, <3>1 DEF Hearing, Numbered
    <3>2. CASE s = c /\ n = Len(up[c]) + 1
      <4>1. said[c] + 1 = Taken(c) + n
        BY <2>2, <3>2 DEF Taken
      <4> QED
        BY <2>3, <3>2, <4>1
    <3> QED
      BY <2>2, <2>3, <3>1, <3>2
  <2>7. Unheard' /\ \A r \in Clients : Stream(r)' = Stream(r)
    BY <2>1 DEF Hearing, Unheard, Stream
  <2> QED
    BY <1>2, <2>1, <2>5, <2>6, <2>7
<1>5. ASSUME Hear(c) PROVE Hearing'
  <2>1. /\ down[c] # << >>
        /\ got' = [got EXCEPT ![c] = Append(got[c], Head(down[c]))]
        /\ down' = [down EXCEPT ![c] = Tail(down[c])]
        /\ UNCHANGED <<backlog, life, said, pend, up>>
    BY <1>5 DEF Hear
  <2>2. /\ got'[c] = Append(got[c], Head(down[c])) /\ down'[c] = Tail(down[c])
        /\ \A r \in Clients \ {c} : got'[r] = got[r] /\ down'[r] = down[r]
        /\ got[c] \in Seq(Messages) /\ down[c] \in Seq(Messages)
    BY <1>0, <2>1 DEF TypeOK
  <2>3. \A r \in Clients : Stream(r)' = Stream(r)
    <3>1. Append(got[c], Head(down[c])) \o Tail(down[c]) = got[c] \o down[c]
      BY <2>1, <2>2, Moved
    <3> QED
      BY <2>2, <3>1 DEF Stream
  <2>4. Unheard'
    BY <2>1, <2>2 DEF Hearing, Unheard
  <2>5. Numbered' /\ \A s \in Clients : Taken(s)' = Taken(s)
    BY <2>1 DEF Hearing, Numbered, Taken
  <2> QED
    BY <1>2, <2>1, <2>3, <2>4, <2>5
<1>6. ASSUME Type(c) \/ EndInput(c) \/ SeeClosed(c) \/ Quit(c) PROVE Hearing'
  <2>1. /\ life' = life \/ \E l \in {"half", "closed"} :
                              life[c] # "closed" /\ life' = [life EXCEPT ![c] = l]
        /\ UNCHANGED <<backlog, said, up, down, got>>
    BY <1>6 DEF Type, EndInput, SeeClosed, Quit
  <2>2. \A r \in Clients : /\ life[r] = "closed" => life'[r] = "closed"
                           /\ life'[r] = "out" => life[r] = "out"
    BY <1>0, <2>1 DEF TypeOK
  <2>3. /\ \A s \in Clients : Taken(s)' = Taken(s)
        /\ \A r \in Clients : Stream(r)' = Stream(r)
        /\ Numbered'
    BY <2>1 DEF Taken, Stream, Hearing, Numbered
  <2>4. Unheard'
    BY <2>1, <2>2 DEF Hearing, Unheard
  <2> QED
    BY <1>2, <2>2, <2>3, <2>4
<1> QED
  BY <1>3, <1>4, <1>5, <1>6 DEF ClientStep

LEMMA HearingInit == Init => Hearing
<1> SUFFICES ASSUME Init PROVE Hearing
  OBVIOUS
<1>1. /\ \A r \in Clients : got[r] = << >> /\ down[r] = << >> /\ up[r] = << >>
      /\ backlog = << >> /\ pc = "select" /\ \A k \in Slots : socks[k] \notin Fds
  BY Descriptors DEF Init
<1>2. \A r \in Clients : Stream(r) = << >>
  BY <1>1 DEF Stream
<1> QED
  BY <1>1, <1>2 DEF Hearing, Numbered, Unheard, Buffered, InStep, Served, Live

LEMMA HearingStep == IInv /\ Hearing /\ [Next]_vars => Hearing'
<1>1. IInv /\ Hearing /\ Next => Hearing'
  BY SelectHears, AcceptHears, RecvHears, HangupHears, ScanEndHears, SendHears, SendEndHears,
     ClientHears
  DEF Next, ServerStep
<1>2. ASSUME Hearing, UNCHANGED vars PROVE Hearing'
  <2>1. UNCHANGED <<pc, socks, i, j, buf, sent, conn, backlog, life, said, up, got, down, missed>>
    BY <1>2 DEF vars
  <2>2. /\ \A r \in Clients : Stream(r)' = Stream(r)
        /\ \A s \in Clients : Taken(s)' = Taken(s)
    BY <2>1 DEF Stream, Taken
  <2>3. Numbered' /\ Unheard' /\ InStep'
    BY <1>2, <2>1, <2>2, SameInStep DEF Hearing, Numbered, Unheard
  <2>4. Speaker' = Speaker /\ \A k : Live(k)' = Live(k) /\ Peer(k)' = Peer(k)
    BY <2>1 DEF Speaker, Live, Peer
  <2>5. Buffered'
    <3>1. Taken(Speaker)' = Taken(Speaker)
      BY <2>1 DEF Taken, Speaker
    <3> QED
      BY <1>2, <2>1, <2>4, <3>1 DEF Hearing, Buffered, Taken
  <2>6. \A k, s : Due(k, s)' = Due(k, s) /\ Total(Peer(k), s)' = Total(Peer(k), s)
                 /\ Taken(s)' = Taken(s)
    BY <2>1 DEF Due, Total, Taken, Stream, Speaker, Peer, First, NextIn, Others, Count
  <2>7. Served'
    BY <1>2, <2>1, <2>4, <2>6 DEF Hearing, Served
  <2> QED
    BY <2>3, <2>5, <2>7 DEF Hearing
<1> QED
  BY <1>1, <1>2

LEMMA HearingInvariance == Spec => [](IInv /\ Hearing)
<1>1. Init => IInv /\ Hearing
  BY InvInit, HearingInit
<1>2. IInv /\ Hearing /\ [Next]_vars => (IInv /\ Hearing)'
  BY InvStep, HearingStep
<1> QED
  BY <1>1, <1>2, PTL DEF Spec

\* Every client hears every other one without a gap, a repetition or a swap from the
\* moment it was accepted, all that was taken off the sockets when the server is back
\* in select, and never itself (recv and the send loop of the chat servers).
THEOREM EveryoneIsHeard == Spec => []Faithful
<1>1. IInv /\ Hearing => Faithful
  <2> SUFFICES ASSUME IInv, Hearing, NEW r \in Clients
               PROVE  /\ \A n \in 1 .. Len(Stream(r)) :
                            /\ Stream(r)[n].by # r
                            /\ Stream(r)[n].no = missed[r][Stream(r)[n].by]
                                  + Count(Stream(r), Stream(r)[n].by, n)
                      /\ pc = "select" /\ r \in Range(conn) /\ life[r] # "closed" =>
                            \A s \in Clients \ {r} :
                               Count(Stream(r), s, Len(Stream(r))) = Taken(s) - missed[r][s]
    BY DEF Faithful
  <2>0. TypeOK /\ Tables /\ OneSocket /\ Flow
    BY DEF IInv
  <2>1. ASSUME pc = "select", r \in Range(conn), life[r] # "closed", NEW s \in Clients \ {r}
        PROVE  Total(r, s) = Taken(s) - missed[r][s]
    <3>1. PICK f \in Fds : conn[f] = r
      BY <2>0, <2>1 DEF TypeOK, Range
    <3>2. r # Nobody
      BY Descriptors
    <3>3. PICK k \in Slots : socks[k] = f
      BY <2>0, <3>1, <3>2 DEF Tables
    <3>4. Total(r, s) = Taken(s) - missed[r][s] - Due(k, s)
      BY <2>1, <3>1, <3>3 DEF Hearing, Served, Live, Peer
    <3>5. Taken(s) \in Nat /\ missed[r][s] \in Nat
      BY <2>0, Streams, SMTT(30) DEF TypeOK
    <3> QED
      BY <2>1, <3>4, <3>5 DEF Due
  <2> QED
    BY <2>1 DEF Hearing, InStep, Total
<1> QED
  BY <1>1, HearingInvariance, PTL

-----------------------------------------------------------------------------
(* The server and its clients implement a broadcast.                       *)

\* Who is in a seat is behind one slot, and what each seat was sent of the floor is
\* what its slot was sent.
Places ==
    /\ \A c : c \in Seated <=> c \in Clients /\ pc # "killed" /\ \E f \in Fds : conn[f] = c
    /\ \A c \in Clients : c \in Seated => \E k \in Slots : socks[k] \in Fds /\ Peer(k) = c
    /\ \A c \in Clients : c \notin Seated => At[c] = 0
    /\ pc # "bcast" => \A c \in Clients : At[c] = 0
    /\ pc = "bcast" =>
          /\ Floor = buf /\ Floor # << >>
          /\ Speaker \in Seated /\ \A n \in 1 .. Len(buf) : buf[n].by = Speaker
    /\ \A k \in Slots : socks[k] \in Fds =>
          /\ Peer(k) \in Clients
          /\ pc = "bcast" =>
                At[Peer(k)] = IF life[Peer(k)] # "closed" /\ k # i THEN Given(k) ELSE 0

LEMMA PlacesHold == IInv /\ Hearing => Places
<1> SUFFICES ASSUME IInv, Hearing PROVE Places
  OBVIOUS
<1>0. TypeOK /\ Tables /\ OneSocket /\ Round /\ Sending /\ Buffered
  BY DEF IInv, Hearing
<1>1. ASSUME NEW c PROVE c \in Seated <=> c \in Clients /\ pc # "killed" /\ \E f \in Fds : conn[f] = c
  BY <1>0, Descriptors DEF Seated, TypeOK, Range
<1>2. ASSUME NEW c \in Clients, c \in Seated
      PROVE  \E k \in Slots : socks[k] \in Fds /\ Peer(k) = c
  <2>1. PICK f \in Fds : conn[f] = c
    BY <1>1, <1>2
  <2>2. PICK k \in Slots : socks[k] = f
    BY <1>0, <2>1, Descriptors DEF Tables
  <2> QED
    BY <2>1, <2>2 DEF Peer
<1>3. \A c \in Clients : c \notin Seated => At[c] = 0
  BY DEF At, Listening
<1>4. pc # "bcast" => \A c \in Clients : At[c] = 0
  BY DEF At
<1>5. ASSUME pc = "bcast"
      PROVE  /\ Floor = buf /\ Floor # << >>
             /\ Speaker \in Seated /\ \A n \in 1 .. Len(buf) : buf[n].by = Speaker
  <2>1. Len(buf) # 0
    BY <1>0, <1>5, SMTT(30) DEF Sending, TypeOK
  <2>2. Floor = buf /\ Floor # << >>
    BY <1>5, <2>1 DEF Floor
  <2>3. ASSUME NEW n \in 1 .. Len(buf) PROVE buf[n].by = Speaker
    <3>1. buf[n] = [by |-> Speaker, no |-> Taken(Speaker) - Len(buf) + n]
      BY <1>0, <1>5 DEF Buffered
    <3> QED
      BY <3>1
  <2> QED
    BY <1>0, <1>1, <1>5, <2>2, <2>3 DEF Buffered, Speaker
<1>6. ASSUME NEW k \in Slots, socks[k] \in Fds PROVE Peer(k) \in Clients
  BY <1>0, <1>6, Peers
<1>7. ASSUME NEW k \in Slots, socks[k] \in Fds, pc = "bcast"
      PROVE  At[Peer(k)] = IF life[Peer(k)] # "closed" /\ k # i THEN Given(k) ELSE 0
  <2> DEFINE c == Peer(k)
  <2>1. c \in Clients /\ \A h \in Slots : socks[h] \in Fds /\ Peer(h) = c => h = k
    BY <1>0, <1>7, Peers
  <2>2. SlotOf(c) = k
    BY <1>7, <2>1 DEF SlotOf, Peer
  <2>3. i \in Slots /\ socks[i] \in Fds
    BY <1>0, <1>7 DEF Round, Buffered
  <2>4. c = conn[socks[i]] <=> k = i
    BY <2>1, <2>3 DEF Peer
  <2>5. c \in Listening <=> life[c] # "closed"
    BY <1>1, <1>7, <2>1 DEF Listening, Peer
  <2>6. At[c] = IF pc = "bcast" /\ c \in Listening \ {conn[socks[i]]}
                  THEN Given(SlotOf(c)) ELSE 0
    BY <2>1 DEF At
  <2> QED
    BY <1>7, <2>2, <2>4, <2>5, <2>6
<1> QED
  BY <1>1, <1>2, <1>3, <1>4, <1>5, <1>6, <1>7 DEF Places

\* A step that changes neither the seats nor the floor nor a stream, while nobody has
\* the floor, is one the broadcast does not see.
LEMMA Unseen ==
    ASSUME pc # "bcast", pc' # "bcast", Seated' = Seated, Listening' = Listening,
           \A r \in Clients : Stream(r)' = Stream(r)
    PROVE  UNCHANGED Room!castVars
<1>1. Floor' = Floor /\ At' = At
  BY DEF Floor, At
<1>2. [r \in Clients |-> Stream(r)]' = [r \in Clients |-> Stream(r)]
  OBVIOUS
<1> QED
  BY <1>1, <1>2 DEF Room!castVars

LEMMA SelectIsUnseen == Select \/ ScanEnd => UNCHANGED Room!castVars
<1> SUFFICES ASSUME Select \/ ScanEnd PROVE UNCHANGED Room!castVars
  OBVIOUS
<1>1. /\ pc \in {"select", "scan"} /\ pc' \in {"select", "accept", "scan"}
      /\ UNCHANGED <<conn, life, got, down>>
  BY DEF Select, ScanEnd, tableVars, clientVars
<1>2. Seated' = Seated /\ Listening' = Listening
  BY <1>1 DEF Seated, Listening
<1>3. \A r \in Clients : Stream(r)' = Stream(r)
  BY <1>1 DEF Stream
<1> QED
  BY <1>1, <1>2, <1>3, Unseen

LEMMA AcceptIsJoin ==
    IInv /\ Hearing /\ Accept => (\E c \in Clients : Room!Join(c)) \/ UNCHANGED Room!castVars
<1> SUFFICES ASSUME IInv, Hearing, Accept
             PROVE  (\E c \in Clients : Room!Join(c)) \/ UNCHANGED Room!castVars
  OBVIOUS
<1>0. TypeOK /\ OneSocket /\ Round /\ Places
  BY PlacesHold DEF IInv
<1>1. /\ pc = "accept" /\ pc' \in {"select", "scan"}
      /\ UNCHANGED <<life, got, down>>
  BY DEF Accept, AfterOne, clientVars
<1>2. /\ Floor' = Floor /\ Floor = << >> /\ At' = At
      /\ \A r \in Clients : Stream(r)' = Stream(r)
  BY <1>1 DEF Floor, At, Stream
<1>3. CASE UNCHANGED tableVars
  BY <1>1, <1>2, <1>3, Unseen DEF tableVars, Seated, Listening
<1>4. CASE \E f \in Fds : conn[f] = Nobody /\ conn' = [conn EXCEPT ![f] = Head(backlog)]
  <2>1. PICK f \in Fds : conn[f] = Nobody /\ conn' = [conn EXCEPT ![f] = Head(backlog)]
    BY <1>4
  <2>2. backlog \in Seq(Clients) /\ backlog # << >>
    BY <1>0, <1>1 DEF TypeOK, Round, Ready
  <2>3. PICK c \in Clients : c = Head(backlog) /\ c = backlog[1] /\ 1 \in 1 .. Len(backlog)
    BY <2>2
  <2>4. \A g \in Fds : conn[g] # c /\ conn'[g] = IF g = f THEN c ELSE conn[g]
    BY <1>0, <2>1, <2>3 DEF OneSocket, TypeOK
  <2>5. c \notin Seated /\ c # Nobody
    BY <1>0, <2>4, Descriptors DEF Places
  <2>6. Stream(c) = << >>
    <3>1. got[c] = << >> /\ down[c] = << >>
      BY <2>3 DEF Hearing, Unheard
    <3> QED
      BY <3>1 DEF Stream
  <2>7. Seated' = Seated \cup {c}
    <3>1. /\ DOMAIN conn = Fds /\ DOMAIN conn' = Fds /\ pc # "killed" /\ pc' # "killed"
      BY <1>0, <1>1, <2>1 DEF TypeOK
    <3>2. \A d : d \in Range(conn') <=> d = c \/ \E g \in Fds \ {f} : conn[g] = d
      BY <2>4, <3>1 DEF Range
    <3>3. \A d : d \in Range(conn) <=> d = Nobody \/ \E g \in Fds \ {f} : conn[g] = d
      BY <2>1, <3>1 DEF Range
    <3> QED
      BY <2>5, <3>1, <3>2, <3>3 DEF Seated
  <2>8. Listening' \in {Listening, Listening \cup {c}}
    BY <1>1, <2>7 DEF Listening
  <2>9. Room!Join(c)
    BY <1>2, <2>5, <2>6, <2>7, <2>8 DEF Room!Join, Room!Quiet
  <2> QED
    BY <2>9
<1> QED
  BY <1>3, <1>4 DEF Accept

LEMMA HangupIsDismiss == IInv /\ Hearing /\ Hangup => \E c \in Clients : Room!Dismiss(c)
<1> SUFFICES ASSUME IInv, Hearing, Hangup PROVE \E c \in Clients : Room!Dismiss(c)
  OBVIOUS
<1>0. TypeOK /\ Tables /\ OneSocket /\ Places
  BY PlacesHold DEF IInv
<1>1. /\ pc = "scan" /\ pc' \in {"select", "scan"} /\ NextIn(i, rset) # {}
      /\ UNCHANGED <<life, got, down>>
  BY DEF Hangup, AfterOne, clientVars
<1>2. PICK f \in Fds, c \in Clients : c = conn[f] /\ conn' = [conn EXCEPT ![f] = Nobody]
  <2> DEFINE k == First(NextIn(i, rset))
  <2>1. i \in Nat /\ rset \in SUBSET (Fds \cup {Listen})
    BY <1>0, Descriptors DEF TypeOK
  <2>2. socks[k] \in Fds /\ conn[socks[k]] \in Clients
    BY <1>0, <1>1, <2>1, NextSlot
  <2> QED
    BY <2>2 DEF Hangup
<1>3. /\ Floor' = Floor /\ Floor = << >> /\ At' = At
      /\ \A r \in Clients : Stream(r)' = Stream(r)
  BY <1>1 DEF Floor, At, Stream
<1>4. c \in Seated
  BY <1>0, <1>1, <1>2 DEF Places
<1>5. Seated' = Seated \ {c}
  <2>1. /\ DOMAIN conn = Fds /\ DOMAIN conn' = Fds /\ pc # "killed" /\ pc' # "killed"
    BY <1>0, <1>1, <1>2 DEF TypeOK
  <2>2. \A g \in Fds : conn'[g] = (IF g = f THEN Nobody ELSE conn[g]) /\ (conn[g] = c => g = f)
    BY <1>0, <1>2, Descriptors DEF OneSocket, TypeOK
  <2>3. \A d : d \in Range(conn') /\ d # Nobody <=> d \in Range(conn) /\ d # Nobody /\ d # c
    BY <1>2, <2>1, <2>2, Descriptors DEF Range
  <2> QED
    BY <2>1, <2>3 DEF Seated
<1>6. Listening' = Listening \ {c}
  BY <1>1, <1>5 DEF Listening
<1>7. Room!Dismiss(c)
  BY <1>3, <1>4, <1>5, <1>6 DEF Room!Dismiss, Room!Quiet
<1> QED
  BY <1>7

LEMMA RecvIsSay ==
    IInv /\ Hearing /\ Recv /\ IInv' /\ Hearing' => \E c \in Clients : Room!Say(c)
<1> SUFFICES ASSUME IInv, Hearing, Recv, IInv', Hearing' PROVE \E c \in Clients : Room!Say(c)
  OBVIOUS
<1>0. TypeOK /\ Sending /\ Places /\ Places' /\ Buffered' /\ Buffered
  <2>1. Places /\ Places'
    BY PlacesHold, PTL
  <2> QED
    BY <2>1 DEF IInv, Hearing
<1>1. /\ pc = "scan" /\ pc' = "bcast" /\ j' = 1
      /\ UNCHANGED <<socks, conn, sent, life, got, down>>
  BY DEF Recv, tableVars, clientVars
<1>2. sent' = 0
  BY <1>0, <1>1 DEF Sending
<1>3. Seated' = Seated /\ Listening' = Listening /\ Floor = << >>
  BY <1>1 DEF Seated, Listening, Floor
<1>4. PICK c \in Clients : c = Speaker' /\ c \in Seated
  BY <1>0, <1>1, <1>3 DEF Buffered, Places
<1>5. Floor' # << >> /\ \A n \in 1 .. Len(Floor') : Floor'[n].by = c
  BY <1>0, <1>1, <1>4 DEF Places
<1>6. At' = At
  <2>1. ASSUME NEW r \in Clients PROVE At'[r] = 0
    <3>1. CASE r \notin Seated
      BY <1>0, <1>3, <3>1 DEF Places
    <3>2. CASE r \in Seated
      <4>1. PICK k \in Slots : socks'[k] \in Fds /\ Peer(k)' = r
        BY <1>0, <1>3, <3>2 DEF Places
      <4>2. ~(k < j')
        BY <1>1 DEF Slots
      <4>3. Given(k)' = 0
        BY <1>2, <4>2 DEF Given
      <4> QED
        BY <1>0, <1>1, <4>1, <4>3 DEF Places
    <3> QED
      BY <3>1, <3>2
  <2>2. \A r \in Clients : At[r] = 0
    BY <1>0, <1>1 DEF Places
  <2> QED
    BY <2>1, <2>2 DEF At
<1>7. [r \in Clients |-> Stream(r)]' = [r \in Clients |-> Stream(r)]
  BY <1>1 DEF Stream
<1>8. Room!Say(c)
  BY <1>3, <1>4, <1>5, <1>6, <1>7 DEF Room!Say, Room!Quiet
<1> QED
  BY <1>8

\* Once the next slot has its message, or has none to get, the others have been sent
\* what they had been.
LEMMA SameGiven ==
    ASSUME TypeOK, NEW k \in Slots, k = First(NextIn(j, Others)), k >= j,
           \A h \in Slots : h >= j /\ socks[h] \in Others => k <= h,
           UNCHANGED <<socks, i, buf>>,
           \/ sent' = sent + 1 /\ j' = j
           \/ sent' = 0 /\ j' = k + 1,
           NEW h \in Slots, h # k, h # i, socks[h] \in Fds, socks[h] # socks[i]
    PROVE  Given(h)' = Given(h)
<1>1. h \in Nat /\ k \in Nat /\ j \in Nat
  BY Descriptors DEF Slots, TypeOK
<1>2. CASE h < j
  <2>1. h < j'
    BY <1>1, <1>2
  <2> QED
    BY <1>2, <2>1 DEF Given
<1>3. CASE ~(h < j)
  <2>1. h > k /\ ~(h < j')
    BY <1>1, <1>3 DEF Others
  <2>2. Given(h) = 0
    BY <1>3, <2>1 DEF Given
  <2>3. CASE j' = j
    <3>1. First(NextIn(j, Others))' = k
      BY <2>3 DEF First, NextIn, Others
    <3> QED
      BY <2>1, <2>2, <3>1 DEF Given
  <2>4. CASE sent' = 0
    BY <2>1, <2>2, <2>4 DEF Given
  <2> QED
    BY <2>3, <2>4
<1> QED
  BY <1>2, <1>3

LEMMA SendIsDeliver ==
    ASSUME IInv, Hearing, IInv', Hearing', Send
    PROVE  (\E r \in Clients : Room!Deliver(r)) \/ Room!Close \/ UNCHANGED Room!castVars
<1>0. TypeOK /\ Tables /\ OneSocket /\ Round /\ Sending /\ Buffered /\ Places /\ Places'
  <2>1. Places /\ Places'
    BY PlacesHold, PTL
  <2> QED
    BY <2>1 DEF IInv, Hearing
<1>1. /\ pc = "bcast" /\ NextIn(j, Others) # {}
      /\ UNCHANGED <<socks, conn, i, buf, life, got>>
  BY DEF Send, tableVars, clientVars
<1>2. PICK k \in Slots, c \in Clients :
         /\ k = First(NextIn(j, Others)) /\ c = conn[socks[k]]
         /\ k >= j /\ socks[k] \in Fds /\ socks[k] \in Others
         /\ \A h \in Slots : h >= j /\ socks[h] \in Others => k <= h
  <2>1. j \in Nat /\ Others \in SUBSET (Fds \cup {Listen})
    BY <1>0, Descriptors DEF TypeOK, Others
  <2> QED
    BY <1>0, <1>1, <2>1, NextSlot
<1>3. c = Peer(k) /\ c \in Seated /\ k # i /\ i \in Slots /\ socks[i] \in Fds
  BY <1>0, <1>1, <1>2 DEF Places, Peer, Others, Round, Buffered
<1>4. c # Speaker
  BY <1>0, <1>2, <1>3, Peers DEF Speaker, Peer
<1>5. ASSUME pc' = "bcast", NEW r \in Clients \ {c},
             \/ sent' = sent + 1 /\ j' = j
             \/ sent' = 0 /\ j' = k + 1
      PROVE  At'[r] = At[r]
  <2>1. Seated' = Seated
    BY <1>1, <1>5 DEF Seated
  <2>2. CASE r \notin Seated
    BY <1>0, <2>1, <2>2 DEF Places
  <2>3. CASE r \in Seated
    <3>1. PICK h \in Slots : socks[h] \in Fds /\ Peer(h) = r
      BY <1>0, <2>3 DEF Places
    <3>2. h # k /\ Peer(h)' = Peer(h) /\ life' = life /\ i' = i
      BY <1>1, <1>3, <3>1 DEF Peer
    <3>3. CASE h = i
      BY <1>0, <1>1, <1>5, <3>1, <3>2, <3>3 DEF Places
    <3>4. CASE h # i
      <4>1. socks[h] # socks[i]
        BY <1>0, <1>3, <3>1, <3>4, Peers DEF Peer
      <4>2. Given(h)' = Given(h)
        BY <1>0, <1>1, <1>2, <1>5, <3>1, <3>2, <3>4, <4>1, SameGiven
      <4> QED
        BY <1>0, <1>1, <1>5, <3>1, <3>2, <4>2 DEF Places
    <3> QED
      BY <3>3, <3>4
  <2> QED
    BY <2>2, <2>3
<1>6. ASSUME pc' = "bcast"
      PROVE  Seated' = Seated /\ Listening' = Listening /\ Floor' = Floor /\ Floor = buf
  BY <1>1, <1>6 DEF Seated, Listening, Floor
<1>7. CASE life[c] # "closed"
  <2>1. /\ down' = [down EXCEPT ![c] = Append(down[c], buf[sent + 1])]
        /\ pc' = "bcast"
        /\ \/ sent + 1 < Len(buf) /\ sent' = sent + 1 /\ j' = j
           \/ ~(sent + 1 < Len(buf)) /\ sent' = 0 /\ j' = k + 1
    BY <1>1, <1>2, <1>7 DEF Send
  <2>2. sent \in Nat /\ Len(buf) \in Nat /\ sent < Len(buf) /\ sent + 1 \in 1 .. Len(buf)
    BY <1>0, <1>1, SMTT(30) DEF Sending, TypeOK
  <2>3. PICK e \in Messages : e = buf[sent + 1] /\ e.by = Speaker
    <3>1. buf[sent + 1] \in Messages
      BY <1>0, <2>2, SMTT(30) DEF TypeOK
    <3>2. buf[sent + 1].by = Speaker
      BY <1>0, <1>1, <2>2 DEF Places
    <3> QED
      BY <3>1, <3>2
  <2>4. c \in Listening
    BY <1>3, <1>7 DEF Listening
  <2>5. At[c] = sent
    <3>1. ~(k < j)
      BY <1>0, <1>2, Descriptors DEF Slots, TypeOK
    <3>2. Given(k) = sent
      BY <1>2, <3>1 DEF Given
    <3> QED
      BY <1>0, <1>1, <1>2, <1>3, <1>7, <3>2 DEF Places
  <2>6. At'[c] = sent + 1
    <3>1. Given(k)' = sent + 1
      <4>1. CASE sent' = sent + 1 /\ j' = j
        <5>1. ~(k < j)
          BY <1>0, <1>2, Descriptors DEF Slots, TypeOK
        <5>2. First(NextIn(j, Others))' = k
          BY <1>1, <1>2, <4>1 DEF First, NextIn, Others
        <5> QED
          BY <4>1, <5>1, <5>2 DEF Given
      <4>2. CASE ~(sent + 1 < Len(buf)) /\ sent' = 0 /\ j' = k + 1
        <5>1. k < j' /\ Len(buf) = sent + 1
          BY <2>2, <4>2, Descriptors DEF Slots
        <5> QED
          BY <1>1, <5>1 DEF Given
      <4> QED
        BY <2>1, <4>1, <4>2
    <3>2. Peer(k)' = c
      BY <1>1, <1>3 DEF Peer
    <3> QED
      BY <1>0, <1>1, <1>2, <1>3, <1>7, <2>1, <3>1, <3>2 DEF Places
  <2>7. At' = [At EXCEPT ![c] = At[c] + 1]
    <3>1. \A r \in Clients : At'[r] = IF r = c THEN At[c] + 1 ELSE At[r]
      BY <1>5, <2>1, <2>5, <2>6
    <3> QED
      BY <3>1 DEF At
  <2>8. /\ Stream(c)' = Append(Stream(c), e)
        /\ \A r \in Clients \ {c} : Stream(r)' = Stream(r)
    <3>1. /\ down[c] \in Seq(Messages) /\ got[c] \in Seq(Messages)
          /\ down'[c] = Append(down[c], e)
          /\ \A r \in Clients \ {c} : down'[r] = down[r]
      BY <1>0, <2>1, <2>3 DEF TypeOK
    <3>2. got[c] \o Append(down[c], e) = Append(got[c] \o down[c], e)
      <4>1. \A a, b \in Seq(Messages), m \in Messages : a \o Append(b, m) = Append(a \o b, m)
        BY ConcatAppend
      <4>2. e \in Messages
        BY <2>3
      <4> QED
        BY <3>1, <4>1, <4>2, Zenon
    <3> QED
      BY <1>1, <3>1, <3>2 DEF Stream
  <2> DEFINE heard == [r \in Clients |-> Stream(r)]
  <2>9. heard' = [heard EXCEPT ![c] = Append(heard[c], e)]
    BY <2>8
  <2>10. Room!Deliver(c)
    <3>1. At[c] < Len(Floor) /\ Floor[At[c] + 1] = e /\ e.by # c
      BY <1>4, <1>6, <2>1, <2>2, <2>3, <2>5
    <3> QED
      BY <1>6, <2>1, <2>4, <2>7, <2>9, <3>1 DEF Room!Deliver
  <2> QED
    BY <2>10
<1>8. CASE life[c] = "closed" /\ pc' = "bcast"
  <2>1. UNCHANGED down /\ sent' = 0 /\ j' = k + 1
    BY <1>1, <1>2, <1>8 DEF Send
  <2>2. At'[c] = At[c]
    <3>1. Peer(k)' = c
      BY <1>1, <1>3 DEF Peer
    <3> QED
      BY <1>0, <1>1, <1>2, <1>3, <1>8, <3>1 DEF Places
  <2>3. At' = At
    <3>1. \A r \in Clients : At'[r] = At[r]
      BY <1>5, <1>8, <2>1, <2>2
    <3> QED
      BY <3>1 DEF At
  <2>4. [r \in Clients |-> Stream(r)]' = [r \in Clients |-> Stream(r)]
    BY <1>1, <2>1 DEF Stream
  <2> QED
    BY <1>6, <1>8, <2>3, <2>4 DEF Room!castVars
<1>9. CASE life[c] = "closed" /\ pc' = "killed"
  <2>1. UNCHANGED down
    BY <1>1, <1>2, <1>9 DEF Send
  <2>2. c \in Seated /\ c \notin Listening
    BY <1>3, <1>9 DEF Listening
  <2>3. Seated' = {} /\ Listening' = {} /\ Floor' = << >> /\ At' = [r \in Clients |-> 0]
    BY <1>9 DEF Seated, Listening, Floor, At
  <2>4. [r \in Clients |-> Stream(r)]' = [r \in Clients |-> Stream(r)]
    BY <1>1, <2>1 DEF Stream
  <2>5. Floor # << >>
    BY <1>0, <1>1 DEF Places
  <2> QED
    BY <2>2, <2>3, <2>4, <2>5 DEF Room!Close, Room!Quiet
<1>10. pc' \in {"bcast", "killed"}
  BY <1>1 DEF Send
<1> QED
  BY <1>7, <1>8, <1>9, <1>10

LEMMA SendEndIsDone == IInv /\ Hearing /\ SendEnd => Room!Done
<1> SUFFICES ASSUME IInv, Hearing, SendEnd PROVE Room!Done
  OBVIOUS
<1>0. TypeOK /\ Buffered /\ Places
  BY PlacesHold DEF IInv, Hearing
<1>1. /\ pc = "bcast" /\ pc' \in {"select", "scan"} /\ NextIn(j, Others) = {}
      /\ UNCHANGED <<conn, life, got, down>>
  BY DEF SendEnd, AfterOne, tableVars, clientVars
<1>2. Seated' = Seated /\ Listening' = Listening
  BY <1>1 DEF Seated, Listening
<1>3. Floor' = << >> /\ At' = [r \in Clients |-> 0]
  BY <1>1 DEF Floor, At
<1>4. [r \in Clients |-> Stream(r)]' = [r \in Clients |-> Stream(r)]
  BY <1>1 DEF Stream
<1>5. ASSUME NEW r \in Listening, NEW n \in At[r] + 1 .. Len(Floor) PROVE Floor[n].by = r
  <2>1. r \in Seated /\ r \in Clients /\ life[r] # "closed" /\ Floor = buf
    BY <1>0, <1>1 DEF Listening, Places, Floor
  <2>2. PICK k \in Slots : socks[k] \in Fds /\ Peer(k) = r
    BY <1>0, <2>1 DEF Places
  <2>3. At[r] = IF k # i THEN Given(k) ELSE 0
    BY <1>0, <1>1, <2>1, <2>2 DEF Places
  <2>4. CASE socks[k] = socks[i]
    <3>1. r = Speaker /\ Len(buf) \in Nat
      BY <1>0, <2>2, <2>4 DEF Speaker, Peer, TypeOK
    <3>2. At[r] \in Nat
      <4>1. Given(k) \in Nat
        BY <1>0, SMTT(30) DEF Given, TypeOK
      <4> QED
        BY <2>3, <4>1
    <3>3. n \in 1 .. Len(buf)
      BY <2>1, <3>1, <3>2
    <3> QED
      BY <1>0, <1>1, <2>1, <3>1, <3>3 DEF Places
  <2>5. CASE socks[k] # socks[i]
    <3>1. ~(k >= j)
      BY <1>1, <2>2, <2>5 DEF NextIn, Others
    <3>2. k < j
      BY <1>0, <3>1, Descriptors DEF Slots, TypeOK
    <3>3. At[r] = Len(buf) /\ Len(buf) \in Nat
      BY <1>0, <2>3, <2>5, <3>2 DEF Given, TypeOK
    <3> QED
      BY <2>1, <3>3
  <2> QED
    BY <2>4, <2>5
<1>6. Floor # << >>
  BY <1>0, <1>1 DEF Places
<1> QED
  BY <1>2, <1>3, <1>4, <1>5, <1>6 DEF Room!Done, Room!Quiet

LEMMA ClientIsGo ==
    ASSUME IInv, Hearing, NEW c \in Clients, ClientStep(c) \/ Quit(c)
    PROVE  Room!Go(c) \/ UNCHANGED Room!castVars
<1>0. TypeOK /\ OneSocket /\ Places
  BY PlacesHold DEF IInv
<1>1. pc # "killed" /\ UNCHANGED <<pc, socks, conn, i, j, buf, sent>>
  BY DEF ClientStep, Connect, Type, Sent, Hear, EndInput, SeeClosed, Quit, ClientSide,
     tableVars, loopVars
<1>2. Seated' = Seated /\ Floor' = Floor
  BY <1>1 DEF Seated, Floor
<1>3. /\ \A k : Given(k)' = Given(k)
      /\ \A d : SlotOf(d)' = SlotOf(d)
  BY <1>1 DEF Given, SlotOf, First, NextIn, Others
<1>4. \A r \in Clients : Stream(r)' = Stream(r)
  <2>1. CASE Hear(c)
    <3>1. /\ down[c] # << >>
          /\ got' = [got EXCEPT ![c] = Append(got[c], Head(down[c]))]
          /\ down' = [down EXCEPT ![c] = Tail(down[c])]
      BY <2>1 DEF Hear
    <3>2. /\ got'[c] = Append(got[c], Head(down[c])) /\ down'[c] = Tail(down[c])
          /\ \A r \in Clients \ {c} : got'[r] = got[r] /\ down'[r] = down[r]
          /\ got[c] \in Seq(Messages) /\ down[c] \in Seq(Messages)
      BY <1>0, <3>1 DEF TypeOK
    <3>3. Append(got[c], Head(down[c])) \o Tail(down[c]) = got[c] \o down[c]
      BY <3>1, <3>2, Moved
    <3> QED
      BY <3>2, <3>3 DEF Stream
  <2>2. CASE ~Hear(c)
    <3>1. UNCHANGED <<got, down>>
      BY <2>2 DEF ClientStep, Connect, Type, Sent, EndInput, SeeClosed, Quit
    <3> QED
      BY <3>1 DEF Stream
  <2> QED
    BY <2>1, <2>2
<1>5. [r \in Clients |-> Stream(r)]' = [r \in Clients |-> Stream(r)]
  BY <1>4
<1>6. CASE Listening' = Listening
  <2>1. At' = At
    BY <1>1, <1>3, <1>6 DEF At
  <2> QED
    BY <1>2, <1>5, <1>6, <2>1 DEF Room!castVars
<1>7. CASE c \in Listening /\ Listening' = Listening \ {c}
  <2>1. At' = [At EXCEPT ![c] = 0]
    <3>1. \A r \in Clients : At'[r] = IF r = c THEN 0 ELSE At[r]
      BY <1>1, <1>3, <1>7 DEF At
    <3> QED
      BY <3>1 DEF At
  <2> QED
    BY <1>2, <1>5, <1>7, <2>1 DEF Room!Go
<1>8. \/ Listening' = Listening
      \/ c \in Listening /\ Listening' = Listening \ {c}
  <2>1. \A d \in Clients \ {c} : life'[d] = life[d]
    BY <1>0 DEF ClientStep, Connect, Type, Sent, Hear, EndInput, SeeClosed, Quit, TypeOK
  <2>2. \A d \in Clients : d # c => (d \in Listening' <=> d \in Listening)
    BY <1>2, <2>1 DEF Listening
  <2>3. Seated \subseteq Clients /\ Listening \subseteq Clients /\ Listening' \subseteq Clients
    BY <1>0, <1>2 DEF Places, Listening
  <2>4. CASE c \notin Listening
    <3>1. c \notin Seated \/ life[c] = "closed"
      BY <2>4 DEF Listening
    <3>2. life[c] = "closed" => life'[c] = "closed"
      BY <1>0 DEF ClientStep, Connect, Type, Sent, Hear, EndInput, SeeClosed, Quit, TypeOK
    <3>3. c \notin Listening'
      BY <1>2, <3>1, <3>2 DEF Listening
    <3> QED
      BY <2>2, <2>3, <2>4, <3>3
  <2>5. CASE c \in Listening
    BY <2>2, <2>3, <2>5
  <2> QED
    BY <2>4, <2>5
<1> QED
  BY <1>6, <1>7, <1>8

LEMMA StepIsCast ==
    IInv /\ Hearing /\ (IInv /\ Hearing)' /\ [Next]_vars => [Room!Next]_Room!castVars
<1> SUFFICES ASSUME IInv, Hearing, IInv', Hearing', [Next]_vars
             PROVE  [Room!Next]_Room!castVars
  OBVIOUS
<1>1. CASE ServerStep
  BY <1>1, SelectIsUnseen, AcceptIsJoin, RecvIsSay, HangupIsDismiss, SendIsDeliver,
     SendEndIsDone
  DEF ServerStep, Room!Next
<1>2. CASE \E c \in Clients : ClientStep(c) \/ Quit(c)
  BY <1>2, ClientIsGo DEF Room!Next
<1>3. CASE UNCHANGED vars
  <2>1. UNCHANGED <<pc, socks, i, j, buf, sent, conn, life, got, down>>
    BY <1>3 DEF vars
  <2>2. Seated' = Seated /\ Listening' = Listening /\ Floor' = Floor
    BY <2>1 DEF Seated, Listening, Floor
  <2>3. At' = At
    BY <2>1, <2>2 DEF At, Given, SlotOf, First, NextIn, Others
  <2>4. [r \in Clients |-> Stream(r)]' = [r \in Clients |-> Stream(r)]
    BY <2>1 DEF Stream
  <2> QED
    BY <2>2, <2>3, <2>4 DEF Room!castVars
<1> QED
  BY <1>1, <1>2, <1>3 DEF Next

\* The server of labs 7 and 8 and its clients, the slots, the rounds and the sends in
\* pieces, do what a broadcast does: what one client says goes to all others who
\* listen, whole, before anybody says the next thing, is seated or dismissed (the
\* accept, recv and send loops of the chat servers).
THEOREM ChatRefines == Spec => BroadcastSpec
<1>1. Init => Room!Init
  <2> SUFFICES ASSUME Init PROVE Room!Init
    OBVIOUS
  <2>1. /\ pc = "select" /\ conn = [f \in Fds |-> Nobody]
        /\ \A r \in Clients : got[r] = << >> /\ down[r] = << >>
    BY DEF Init
  <2>2. Seated = {} /\ Listening = {}
    BY <2>1 DEF Seated, Listening, Range
  <2>3. Floor = << >> /\ At = [r \in Clients |-> 0]
    BY <2>1 DEF Floor, At
  <2>4. \A r \in Clients : Stream(r) = << >>
    BY <2>1 DEF Stream
  <2> QED
    BY <2>2, <2>3, <2>4 DEF Room!Init, Room!Quiet
<1> QED
  BY <1>1, StepIsCast, HearingInvariance, PTL DEF Spec, BroadcastSpec, Room!Spec

-----------------------------------------------------------------------------
(* All hear the same order.                                                *)

\* A client hears the messages of another in the order they were sent.
Rising ==
    \A r \in Clients : \A m, n \in 1 .. Len(Stream(r)) :
        m < n /\ Stream(r)[m].by = Stream(r)[n].by => Stream(r)[m].no < Stream(r)[n].no

\* What anybody has heard was taken off a socket.
Told ==
    \A r \in Clients : \A n \in 1 .. Len(Stream(r)) :
        /\ Stream(r)[n].by \in Clients
        /\ Stream(r)[n].no <= Taken(Stream(r)[n].by)

\* After a message that is still being sent to others nobody has heard anybody else.
Fresh(m) == pc = "bcast" /\ m.by = Speaker /\ m.no > Taken(Speaker) - Len(buf)
Latest ==
    \A r \in Clients : \A m, n \in 1 .. Len(Stream(r)) :
        m < n /\ Fresh(Stream(r)[m]) => Stream(r)[n].by = Speaker

\* Two messages that two clients both hear come to both in the same order, whoever
\* said them.
SameOrder ==
    \A r, q \in Clients : \A m, n \in 1 .. Len(Stream(r)) : \A x, y \in 1 .. Len(Stream(q)) :
        m < n /\ Stream(r)[m] = Stream(q)[x] /\ Stream(r)[n] = Stream(q)[y] => x < y

Ordered == Told /\ Latest /\ SameOrder

LEMMA RisingHolds == IInv /\ Hearing => Rising
<1> SUFFICES ASSUME IInv, Hearing, NEW r \in Clients,
                    NEW m \in 1 .. Len(Stream(r)), NEW n \in 1 .. Len(Stream(r)),
                    m < n, Stream(r)[m].by = Stream(r)[n].by
             PROVE  Stream(r)[m].no < Stream(r)[n].no
  BY DEF Rising
<1>1. TypeOK /\ Flow /\ InStep
  BY DEF IInv, Hearing
<1>2. PICK h \in Seq(Messages) : h = Stream(r)
  BY <1>1, Streams
<1>3. PICK s \in Clients : s = h[m].by
  <2>1. h[m] \in Messages
    BY <1>2
  <2> QED
    BY <2>1 DEF Messages
<1>4. missed[r][s] \in Nat
  BY <1>1 DEF TypeOK
<1> DEFINE before == {p \in 1 .. m : h[p].by = s}
           within == {p \in 1 .. n : h[p].by = s}
<1>5. IsFiniteSet(before) /\ IsFiniteSet(within)
  <2>1. m \in Nat /\ n \in Nat /\ IsFiniteSet(1 .. m) /\ IsFiniteSet(1 .. n)
    BY <1>2, FS_Interval
  <2> QED
    BY <2>1, FS_Subset
<1>6. n \in within /\ before \subseteq within \ {n}
  BY <1>2, <1>3
<1>7. /\ Cardinality(before) \in Nat /\ Cardinality(within) \in Nat
      /\ Cardinality(before) < Cardinality(within)
  <2> HIDE DEF before, within
  <2>1. IsFiniteSet(within \ {n}) /\ Cardinality(within \ {n}) = Cardinality(within) - 1
    BY <1>5, <1>6, FS_RemoveElement
  <2>2. Cardinality(before) <= Cardinality(within \ {n})
    BY <1>6, <2>1, FS_Subset
  <2> QED
    BY <1>5, <2>1, <2>2, FS_CardinalityType
<1>8. h[m].no = missed[r][s] + Count(h, s, m) /\ h[n].no = missed[r][s] + Count(h, s, n)
  BY <1>1, <1>2, <1>3 DEF InStep
<1> QED
  BY <1>2, <1>4, <1>7, <1>8 DEF Count

LEMMA ClientTakes ==
    ASSUME TypeOK, NEW c \in Clients, ClientStep(c) \/ Quit(c), NEW s \in Clients
    PROVE  Taken(s)' = Taken(s)
<1>1. CASE Sent(c)
  <2>1. /\ up' = [up EXCEPT ![c] = Append(up[c], [by |-> c, no |-> said[c] + 1])]
        /\ said' = [said EXCEPT ![c] = said[c] + 1]
    BY <1>1 DEF Sent
  <2>2. CASE s # c
    BY <2>1, <2>2 DEF TypeOK, Taken
  <2>3. CASE s = c
    <3>1. up[c] \in Seq(Messages) /\ said[c] \in Nat
      BY DEF TypeOK
    <3>2. [by |-> c, no |-> said[c] + 1] \in Messages
      BY <3>1 DEF Messages
    <3>3. Len(Append(up[c], [by |-> c, no |-> said[c] + 1])) = Len(up[c]) + 1 /\ Len(up[c]) \in Nat
      BY <3>1, <3>2, AppendIs
    <3>4. /\ up'[c] = Append(up[c], [by |-> c, no |-> said[c] + 1])
          /\ said'[c] = said[c] + 1
      BY <2>1 DEF TypeOK
    <3> QED
      BY <2>3, <3>1, <3>3, <3>4 DEF Taken
  <2> QED
    BY <2>2, <2>3
<1>2. CASE ~Sent(c)
  BY <1>2 DEF ClientStep, Connect, Type, Hear, EndInput, SeeClosed, Quit, Taken
<1> QED
  BY <1>1, <1>2

\* What recv returns comes right after what was taken before.
LEMMA RecvTakes ==
    ASSUME IInv, Hearing, IInv', Hearing', Recv
    PROVE  /\ \E c \in Clients : c = Speaker' /\ Taken(c)' - Len(buf') = Taken(c)
           /\ \A s \in Clients : Taken(s)' >= Taken(s)
<1>0. TypeOK /\ Tables /\ Flow /\ Numbered /\ TypeOK' /\ Flow' /\ Buffered' /\ Sending'
  BY DEF IInv, Hearing
<1>1. /\ pc' = "bcast" /\ NextIn(i, rset) # {} /\ i' = First(NextIn(i, rset))
      /\ LET c == conn[socks[i']] IN
         \E n \in 1 .. Len(up[c]) :
            /\ buf' = SubSeq(up[c], 1, n)
            /\ up' = [up EXCEPT ![c] = SubSeq(@, n + 1, Len(@))]
      /\ UNCHANGED <<socks, conn, said>>
  BY DEF Recv, tableVars, clientVars
<1>2. PICK c \in Clients : c = Speaker' /\ c = conn[socks[i']]
  BY <1>0, <1>1 DEF Buffered, Speaker
<1>3. PICK n \in 1 .. Len(up[c]) :
            /\ buf' = SubSeq(up[c], 1, n)
            /\ up' = [up EXCEPT ![c] = SubSeq(up[c], n + 1, Len(up[c]))]
  BY <1>1, <1>2
<1>4. /\ up[c] \in Seq(Messages) /\ Len(up[c]) \in Nat /\ n \in Nat /\ n <= Len(up[c])
      /\ Len(buf') = n
  <2>1. up[c] \in Seq(Messages)
    BY <1>0 DEF TypeOK
  <2> QED
    BY <1>3, <2>1
<1>5. Len(up'[c]) = Len(up[c]) - n
  <2>1. up'[c] = SubSeq(up[c], n + 1, Len(up[c]))
    BY <1>0, <1>3 DEF TypeOK
  <2> QED
    BY <1>4, <2>1
<1>6. said[c] \in Nat /\ said'[c] = said[c]
  BY <1>0, <1>1 DEF TypeOK
<1>7. Taken(c) \in Nat /\ Taken(c)' = Taken(c) + n
  <2>1. Taken(c) \in Nat
    BY <1>0, Streams
  <2> QED
    BY <1>4, <1>5, <1>6, <2>1, SMTT(30) DEF Taken
<1>8. ASSUME NEW s \in Clients \ {c} PROVE Taken(s)' = Taken(s) /\ Taken(s) \in Nat
  <2>1. up'[s] = up[s] /\ said'[s] = said[s]
    BY <1>0, <1>1, <1>3 DEF TypeOK
  <2> QED
    BY <1>0, <2>1, Streams DEF Taken
<1>9. \A s \in Clients : Taken(s)' >= Taken(s)
  BY <1>4, <1>7, <1>8
<1> QED
  BY <1>2, <1>4, <1>7, <1>9

\* A step that sends nothing keeps the order.
LEMMA SilentOrder ==
    ASSUME IInv, Hearing, Ordered, \A r \in Clients : Stream(r)' = Stream(r),
           \A s \in Clients : Taken(s)' \in Nat /\ Taken(s)' >= Taken(s),
           \A r \in Clients : \A n \in 1 .. Len(Stream(r)) :
              Fresh(Stream(r)[n])' => Fresh(Stream(r)[n]) /\ Speaker' = Speaker
    PROVE  Ordered'
<1>1. Told'
  <2> SUFFICES ASSUME NEW r \in Clients, NEW n \in 1 .. Len(Stream(r)')
               PROVE  (/\ Stream(r)[n].by \in Clients
                       /\ Stream(r)[n].no <= Taken(Stream(r)[n].by))'
    BY DEF Told
  <2>1. PICK m \in Messages : m = Stream(r)[n] /\ m = Stream(r)'[n]
    BY Streams DEF IInv
  <2>2. m.by \in Clients /\ m.no <= Taken(m.by) /\ m.no \in Nat
    BY <2>1 DEF Ordered, Told, Messages
  <2>3. Taken(m.by) \in Nat
    BY <2>2, Streams DEF IInv
  <2>4. Taken(m.by)' \in Nat /\ Taken(m.by)' >= Taken(m.by)
    BY <2>2
  <2>5. m.no <= Taken(m.by)'
    BY <2>2, <2>3, <2>4
  <2> QED
    BY <2>1, <2>2, <2>5 DEF Taken
<1>2. Latest'
  <2> SUFFICES ASSUME NEW r \in Clients, NEW m \in 1 .. Len(Stream(r)),
                      NEW n \in 1 .. Len(Stream(r)), m < n, Fresh(Stream(r)[m])'
               PROVE  Stream(r)[n].by = Speaker'
    BY DEF Latest, Fresh, Taken
  <2> QED
    BY DEF Ordered, Latest
<1>3. SameOrder'
  BY DEF Ordered, SameOrder
<1> QED
  BY <1>1, <1>2, <1>3 DEF Ordered

\* A message goes out to one client: it comes after all that client has heard, and
\* who has heard it already has heard nothing else but more of the same speaker.
LEMMA SendOrder ==
    ASSUME IInv, Hearing, IInv', Hearing', Ordered, pc = "bcast", pc' = "bcast",
           UNCHANGED <<socks, conn, i, buf>>, \A s \in Clients : Taken(s)' = Taken(s),
           NEW c \in Clients, NEW e \in Messages, NEW x \in 1 .. Len(buf), e = buf[x],
           Stream(c)' = Append(Stream(c), e),
           \A r \in Clients \ {c} : Stream(r)' = Stream(r)
    PROVE  Ordered'
<1> DEFINE h == Stream(c)
<1>0. Rising /\ Rising' /\ TypeOK /\ Flow
  <2>1. Rising /\ Rising'
    BY RisingHolds, PTL
  <2> QED
    BY <2>1 DEF IInv
<1>1. PICK sp \in Clients : sp = Speaker /\ sp = Speaker'
  BY DEF Hearing, Buffered, Speaker
<1>2. /\ e.by = sp /\ e.no = Taken(sp) - Len(buf) + x /\ e.no \in Nat
      /\ Taken(sp) \in Nat /\ Len(buf) \in Nat
  <2>1. e = [by |-> sp, no |-> Taken(sp) - Len(buf) + x]
    BY <1>1 DEF Hearing, Buffered
  <2>2. Taken(sp) \in Nat
    BY <1>0, Streams
  <2>3. Len(buf) \in Nat
    BY <1>0 DEF TypeOK
  <2>4. e.no \in Nat
    BY DEF Messages
  <2> QED
    BY <2>1, <2>2, <2>3, <2>4
<1>3. Fresh(e) /\ \A m : Fresh(m)' <=> Fresh(m)
  BY <1>1, <1>2 DEF Fresh, Taken
<1>4. /\ h \in Seq(Messages) /\ Len(h) \in Nat /\ Len(Append(h, e)) = Len(h) + 1
      /\ \A n \in 1 .. Len(h) : Append(h, e)[n] = h[n]
      /\ Append(h, e)[Len(h) + 1] = e
  BY <1>0, Streams, AppendIs
<1>5. \A n \in 1 .. Len(h)' :
         \/ n \in 1 .. Len(h) /\ h'[n] = h[n]
         \/ n = Len(h) + 1 /\ h'[n] = e
  BY <1>4
<1> HIDE DEF h
<1>6. Told'
  <2> SUFFICES ASSUME NEW r \in Clients, NEW n \in 1 .. Len(Stream(r)')
               PROVE  (Stream(r)[n].by \in Clients /\ Stream(r)[n].no <= Taken(Stream(r)[n].by))'
    BY DEF Told
  <2>1. CASE n \in 1 .. Len(Stream(r)) /\ Stream(r)'[n] = Stream(r)[n]
    BY <2>1 DEF Ordered, Told
  <2>2. CASE Stream(r)'[n] = e
    BY <1>2, <2>2
  <2> QED
    BY <1>5, <2>1, <2>2 DEF h
<1>7. Latest'
  <2> SUFFICES ASSUME NEW r \in Clients, NEW m \in 1 .. Len(Stream(r)'),
                      NEW n \in 1 .. Len(Stream(r)'), m < n, Fresh(Stream(r)'[m])
               PROVE  Stream(r)'[n].by = sp
    BY <1>1, <1>3 DEF Latest
  <2>1. CASE r = c /\ n = Len(h) + 1
    BY <1>2, <1>5, <2>1 DEF h
  <2>2. CASE r # c \/ n # Len(h) + 1
    <3>1. /\ m \in 1 .. Len(Stream(r)) /\ n \in 1 .. Len(Stream(r))
          /\ Stream(r)'[m] = Stream(r)[m] /\ Stream(r)'[n] = Stream(r)[n]
      BY <1>4, <1>5, <2>2 DEF h
    <3> QED
      BY <1>1, <3>1 DEF Ordered, Latest
  <2> QED
    BY <2>1, <2>2
\* Where e stands in another stream, nothing that c has heard already follows.
<1>8. ASSUME NEW q \in Clients \ {c}, NEW y \in 1 .. Len(Stream(q)), Stream(q)[y] = e,
             NEW z \in 1 .. Len(Stream(q)), NEW m \in 1 .. Len(h), h[m] = Stream(q)[z]
      PROVE  z < y
  <2>1. ~(h[m].by = sp) \/ h[m].no < e.no
    <3>1. /\ m \in 1 .. Len(h') /\ Len(h) + 1 \in 1 .. Len(h') /\ m < Len(h) + 1
          /\ h'[m] = h[m] /\ h'[Len(h) + 1] = e
      BY <1>4 DEF h
    <3>2. h'[m].by = h'[Len(h) + 1].by => h'[m].no < h'[Len(h) + 1].no
      BY <1>0, <3>1 DEF Rising, h
    <3> QED
      BY <1>2, <3>1, <3>2
  <2>2. y # z
    <3>1. y = z => h[m] = e
      BY <1>8
    <3>2. ~(e.no < e.no)
      BY <1>2
    <3> QED
      BY <1>2, <2>1, <3>1, <3>2
  <2>3. CASE y < z
    <3>1. h[m].by = sp
      BY <1>1, <1>3, <1>8, <2>3 DEF Ordered, Latest
    <3>2. e.no < h[m].no
      BY <1>0, <1>2, <1>8, <2>3, <3>1 DEF Rising
    <3>3. PICK k \in Nat : k = h[m].no
      <4>1. h[m] \in Messages
        BY <1>4
      <4> QED
        BY <4>1 DEF Messages
    <3>4. PICK l \in Nat : l = e.no
      BY <1>2
    <3>5. k < l /\ l < k
      BY <2>1, <3>1, <3>2, <3>3, <3>4
    <3> QED
      BY <3>5
  <2>4. y \in Int /\ z \in Int
    OBVIOUS
  <2> QED
    BY <2>2, <2>3, <2>4
<1>9. SameOrder'
  <2> SUFFICES ASSUME NEW r \in Clients, NEW q \in Clients,
                      NEW m \in 1 .. Len(Stream(r)'), NEW n \in 1 .. Len(Stream(r)'),
                      NEW z \in 1 .. Len(Stream(q)'), NEW y \in 1 .. Len(Stream(q)'),
                      m < n, Stream(r)'[m] = Stream(q)'[z], Stream(r)'[n] = Stream(q)'[y]
               PROVE  z < y
    BY DEF SameOrder
  <2>0. m \in Int /\ n \in Int /\ z \in Int /\ y \in Int
    OBVIOUS
  \* Rising tells the places of one stream apart.
  <2>1. \A p \in Clients : \A a, b \in 1 .. Len(Stream(p)') :
           a < b => Stream(p)'[a] # Stream(p)'[b]
    <3> SUFFICES ASSUME NEW p \in Clients, NEW a \in 1 .. Len(Stream(p)'),
                        NEW b \in 1 .. Len(Stream(p)'), a < b, Stream(p)'[a] = Stream(p)'[b]
                 PROVE  FALSE
      OBVIOUS
    <3>1. Stream(p)'[a].no < Stream(p)'[b].no
      BY <1>0 DEF Rising
    <3>2. Stream(p)' \in Seq(Messages)
      <4>1. TypeOK'
        BY DEF IInv
      <4>2. (got[p] \in Seq(Messages) /\ down[p] \in Seq(Messages))'
        BY <4>1 DEF TypeOK
      <4> QED
        BY <4>2, ConcatProperties DEF Stream
    <3>3. Stream(p)'[a] \in Messages
      BY <3>2
    <3>4. PICK k \in Nat : k = Stream(p)'[a].no /\ k = Stream(p)'[b].no
      BY <3>3 DEF Messages
    <3>5. k < k
      BY <3>1, <3>4
    <3> QED
      BY <3>5
  <2>2. CASE r = q
    <3>1. \A a, b \in 1 .. Len(Stream(r)') : Stream(r)'[a] = Stream(r)'[b] => ~(a < b) /\ ~(b < a)
      BY <2>1
    <3>2. m = z /\ n = y
      BY <2>0, <2>2, <3>1
    <3> QED
      BY <3>2
  <2>3. CASE r = c /\ q # c /\ n = Len(h) + 1
    <3>1. m \in 1 .. Len(h) /\ h[m] = Stream(q)[z] /\ e = Stream(q)[y]
      BY <1>4, <1>5, <2>0, <2>3 DEF h
    <3> QED
      BY <1>8, <2>3, <3>1
  <2>4. CASE r # c /\ q = c /\ z = Len(h) + 1
    <3>1. Stream(r)[m] = e /\ m \in 1 .. Len(Stream(r)) /\ n \in 1 .. Len(Stream(r))
      BY <1>5, <2>4 DEF h
    <3>2. y # z
      BY <2>1, <2>4, <3>1
    <3>3. y \in 1 .. Len(h) /\ h[y] = Stream(r)[n]
      BY <1>4, <1>5, <2>4, <3>2 DEF h
    <3>4. n < m
      BY <1>8, <2>4, <3>1, <3>3
    <3> QED
      BY <2>0, <3>4
  <2>5. CASE r # c /\ q = c /\ z # Len(h) + 1 /\ y = Len(h) + 1
    BY <1>4, <1>5, <2>0, <2>5 DEF h
  <2>6. CASE /\ r # q
             /\ r = c => n # Len(h) + 1
             /\ q = c => z # Len(h) + 1 /\ y # Len(h) + 1
    <3>1. /\ m \in 1 .. Len(Stream(r)) /\ n \in 1 .. Len(Stream(r))
          /\ Stream(r)'[m] = Stream(r)[m] /\ Stream(r)'[n] = Stream(r)[n]
      <4>1. CASE r = c
        <5>1. m \in 1 .. Len(h)' /\ n \in 1 .. Len(h)' /\ n # Len(h) + 1
          BY <2>6, <4>1 DEF h
        <5>2. n \in 1 .. Len(h) /\ h'[n] = h[n]
          BY <1>5, <5>1
        <5>3. m # Len(h) + 1
          BY <1>4, <2>0, <5>2
        <5>4. m \in 1 .. Len(h) /\ h'[m] = h[m]
          BY <1>5, <5>1, <5>3
        <5> QED
          BY <4>1, <5>2, <5>4 DEF h
      <4>2. CASE r # c
        BY <4>2
      <4> QED
        BY <4>1, <4>2
    <3>2. /\ z \in 1 .. Len(Stream(q)) /\ y \in 1 .. Len(Stream(q))
          /\ Stream(q)'[z] = Stream(q)[z] /\ Stream(q)'[y] = Stream(q)[y]
      BY <1>4, <1>5, <2>0, <2>6 DEF h
    <3>3. Stream(r)[m] = Stream(q)[z] /\ Stream(r)[n] = Stream(q)[y]
      BY <3>1, <3>2
    <3> QED
      BY <3>1, <3>2, <3>3 DEF Ordered, SameOrder
  <2> QED
    BY <2>2, <2>3, <2>4, <2>5, <2>6
<1> QED
  BY <1>6, <1>7, <1>9 DEF Ordered

LEMMA OrderedStep == IInv /\ Hearing /\ (IInv /\ Hearing)' /\ Ordered /\ [Next]_vars => Ordered'
<1> SUFFICES ASSUME IInv, Hearing, IInv', Hearing', Ordered, [Next]_vars PROVE Ordered'
  OBVIOUS
<1>0. TypeOK /\ Flow /\ Places /\ \A s \in Clients : Taken(s) \in Nat /\ Taken(s)' \in Nat
  <2>1. \A s \in Clients : said[s] \in Nat /\ Len(up[s]) \in Nat /\ Len(up[s]) <= said[s]
    BY DEF IInv, TypeOK, Flow
  <2>2. \A s \in Clients : said'[s] \in Nat /\ Len(up'[s]) \in Nat /\ Len(up'[s]) <= said'[s]
    BY DEF IInv, TypeOK, Flow
  <2> QED
    BY <2>1, <2>2, PlacesHold DEF IInv, Taken
<1> DEFINE heard == [r \in Clients |-> Stream(r)]
<1>1. heard' = heard => \A r \in Clients : Stream(r)' = Stream(r)
  <2>1. \A r \in Clients : heard[r] = Stream(r) /\ heard'[r] = Stream(r)'
    OBVIOUS
  <2> QED
    BY <2>1
<1>2. ASSUME heard' = heard, UNCHANGED <<said, up>>, pc' # "bcast" \/ pc = "bcast",
             pc = "bcast" => UNCHANGED <<socks, conn, i, buf>>
      PROVE  Ordered'
  <2>1. \A s \in Clients : Taken(s)' = Taken(s)
    BY <1>2 DEF Taken
  <2>2. \A m : Fresh(m)' => Fresh(m) /\ Speaker' = Speaker
    BY <1>2 DEF Fresh, Speaker, Taken
  <2> QED
    BY <1>0, <1>1, <1>2, <2>1, <2>2, SilentOrder
<1>3. CASE Select \/ ScanEnd \/ Accept \/ Hangup
  <2>1. UNCHANGED <<said, up, got, down>> /\ pc # "bcast" /\ pc' # "bcast"
    BY <1>3 DEF Select, ScanEnd, Accept, Hangup, AfterOne, clientVars
  <2>2. heard' = heard
    BY <2>1 DEF Stream
  <2> QED
    BY <1>2, <2>1, <2>2
<1>4. CASE SendEnd
  <2>1. UNCHANGED <<said, up, got, down>> /\ pc' # "bcast"
    BY <1>4 DEF SendEnd, AfterOne, clientVars
  <2>2. heard' = heard
    BY <2>1 DEF Stream
  <2>3. UNCHANGED <<said, up>> /\ \A m : ~Fresh(m)'
    BY <2>1 DEF Fresh
  <2> QED
    BY <1>0, <1>1, <2>2, <2>3, SilentOrder DEF Taken
<1>5. CASE Recv
  <2>1. heard' = heard
    BY <1>5 DEF Recv, clientVars, Stream
  <2>2. PICK c \in Clients : c = Speaker' /\ Taken(c)' - Len(buf') = Taken(c)
    BY <1>5, RecvTakes
  <2>3. ASSUME NEW r \in Clients, NEW n \in 1 .. Len(Stream(r)) PROVE ~Fresh(Stream(r)[n])'
    <3>1. PICK m \in Messages : m = Stream(r)[n] /\ m = Stream(r)'[n]
      BY <1>0, <1>1, <2>1, Streams
    <3>2. m.no <= Taken(m.by)
      BY <3>1 DEF Ordered, Told
    <3>3. Fresh(m)' => m.by = c /\ m.no > Taken(c)
      BY <2>2 DEF Fresh, Taken
    <3>4. m.no \in Nat /\ Taken(c) \in Nat
      BY <1>0, <3>1 DEF Messages
    <3>5. ~Fresh(m)'
      BY <3>2, <3>3, <3>4
    <3> QED
      BY <3>1, <3>5 DEF Fresh
  <2>4. \A s \in Clients : Taken(s)' >= Taken(s)
    BY <1>5, RecvTakes
  <2> QED
    BY <1>0, <1>1, <2>1, <2>3, <2>4, SilentOrder
<1>6. CASE Send
  <2>1. /\ pc = "bcast" /\ pc' \in {"bcast", "killed"}
        /\ UNCHANGED <<socks, conn, i, buf, said, up>>
    BY <1>6 DEF Send, tableVars, clientVars
  <2>2. CASE heard' = heard
    BY <1>2, <2>1, <2>2
  <2>3. CASE \E r \in Clients : Room!Deliver(r)
    <3>1. PICK c \in Clients : Room!Deliver(c)
      BY <2>3
    <3>2. /\ heard' = [heard EXCEPT ![c] = Append(heard[c], Floor[At[c] + 1])]
          /\ At[c] < Len(Floor) /\ Floor' = Floor /\ Listening' = Listening /\ c \in Listening
      BY <3>1 DEF Room!Deliver
    <3>3. pc' = "bcast"
      BY <2>1, <3>2 DEF Listening, Seated
    <3>4. Floor = buf
      BY <2>1 DEF Floor
    <3>5. At[c] \in Nat
      <4>1. \A k : Given(k) \in Nat
        BY <1>0, SMTT(30) DEF Given, TypeOK
      <4> QED
        BY <4>1 DEF At
    <3>6. buf \in Seq(Messages) /\ Len(buf) \in Nat
      BY <1>0 DEF TypeOK
    <3>7. PICK x \in 1 .. Len(buf) : x = At[c] + 1
      BY <3>2, <3>4, <3>5, <3>6
    <3>8. PICK e \in Messages : e = buf[x]
      BY <3>6
    <3>9. Stream(c)' = Append(Stream(c), e) /\ \A r \in Clients \ {c} : Stream(r)' = Stream(r)
      <4>1. \A r \in Clients : heard'[r] = Stream(r)' /\ heard[r] = Stream(r)
        OBVIOUS
      <4>2. heard'[c] = Append(heard[c], e) /\ \A r \in Clients \ {c} : heard'[r] = heard[r]
        BY <3>2, <3>4, <3>7, <3>8
      <4> QED
        BY <4>1, <4>2
    <3> QED
      BY <2>1, <3>3, <3>8, <3>9, SendOrder DEF Taken
  <2> QED
    BY <1>6, <2>2, <2>3, SendIsDeliver DEF Room!Close, Room!castVars
<1>7. CASE \E c \in Clients : ClientStep(c) \/ Quit(c)
  <2>1. PICK c \in Clients : ClientStep(c) \/ Quit(c)
    BY <1>7
  <2>2. heard' = heard
    BY <2>1, ClientIsGo DEF Room!Go, Room!castVars
  <2>3. \A s \in Clients : Taken(s)' = Taken(s)
    BY <1>0, <2>1, ClientTakes
  <2>4. UNCHANGED <<pc, socks, conn, i, buf>>
    BY <2>1 DEF ClientStep, Connect, Type, Sent, Hear, EndInput, SeeClosed, Quit, ClientSide,
       tableVars, loopVars
  <2>5. Speaker' = Speaker
    BY <2>4 DEF Speaker
  <2>6. pc = "bcast" => Taken(Speaker)' = Taken(Speaker)
    <3>1. ASSUME pc = "bcast" PROVE Taken(Speaker)' = Taken(Speaker)
      <4>1. PICK sp \in Clients : sp = Speaker /\ sp = Speaker'
        BY <2>5, <3>1 DEF Hearing, Buffered
      <4> QED
        BY <2>3, <4>1 DEF Taken
    <3> QED
      BY <3>1
  <2>7. \A m : Fresh(m)' => Fresh(m)
    BY <2>4, <2>5, <2>6 DEF Fresh
  <2> QED
    BY <1>0, <1>1, <2>2, <2>3, <2>5, <2>7, SilentOrder
<1>8. CASE UNCHANGED vars
  <2>1. UNCHANGED <<pc, socks, conn, i, buf, said, up, got, down>>
    BY <1>8 DEF vars
  <2>2. heard' = heard
    BY <2>1 DEF Stream
  <2> QED
    BY <1>2, <2>1, <2>2
<1> QED
  BY <1>3, <1>4, <1>5, <1>6, <1>7, <1>8 DEF Next, ServerStep

\* Two messages that two clients both hear come to both in the same order, also when
\* different clients said them: the server sends all of one recv to everybody before
\* it calls recv again (the scan loop of the chat servers).
THEOREM OneOrder == Spec => []SameOrder
<1>1. Init => Ordered
  <2> SUFFICES ASSUME Init PROVE Ordered
    OBVIOUS
  <2>1. \A r \in Clients : got[r] = << >> /\ down[r] = << >>
    BY DEF Init
  <2>2. \A r \in Clients : Stream(r) = << >>
    BY <2>1 DEF Stream
  <2> QED
    BY <2>2 DEF Ordered, Told, Latest, SameOrder
<1>2. Ordered => SameOrder
  BY DEF Ordered
<1> QED
  BY <1>1, <1>2, OrderedStep, HearingInvariance, PTL DEF Spec

=============================================================================
