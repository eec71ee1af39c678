---------------------------- MODULE MsgFileProofs -----------------------------
(***************************************************************************)
(* Theorems on MsgFile, for any number of clients with files of any        *)
(* length, queues of any capacity, any clients and children that may be    *)
(* killed, and any bounds on restarts and failing forks.                   *)
(***************************************************************************)
EXTENDS MsgFile, FiniteSetTheorems, TLAPS

\* A client that has been answered.
After == {"rm_eof", "rm_error", "eof", "error"}

\* The queue of a client exists from its first call to its last one.
HasQueue == {"lookup", "send", "recv", "rm_eof", "rm_error", "failed"}

\* o is the beginning of c's file.
Printed(c, o) == \A i \in 1 .. Len(o) : o[i].of = c /\ o[i].chunk = i

\* The messages r continue the first n chunks of c's file, and only the last one
\* closes the answer.
Continues(c, n, r) ==
    \A i \in 1 .. Len(r) :
        \/ r[i].mtype = 1 /\ r[i].of = c /\ r[i].chunk = n + i
        \/ r[i].mtype # 1 /\ i = Len(r)

ServerHolds == req # Nobody => spc = "fork"

AskedOnce ==
    \A i, k \in 1 .. Len(requests) : requests[i] = requests[k] => i = k

QueueOf(c) == c \in clientQ <=> cpc[c] \in HasQueue

\* Only a client that waits for an answer has a request anywhere.
Idle(c) ==
    cpc[c] # "recv" => ~Waiting(c) /\ child[c] = "none" /\ responses[c] = << >>

Unasked(c) == cpc[c] \in Before => out[c] = << >>

\* The request is in one place after the other: in the queue, with the server,
\* with the child, and answered.
OnePlace(c) ==
    /\ Queued(c) => req # c
    /\ Waiting(c) => child[c] = "none" /\ responses[c] = << >> /\ out[c] = << >>
    /\ child[c] # "none" => ~Closed(c)

\* What is in a client's queue continues what it has printed.
InOrder(c) ==
    /\ Printed(c, out[c])
    /\ Continues(c, Len(out[c]), responses[c])

\* What a child has sent is what it has read.
Progress(c) ==
    /\ child[c] \in {"open", "read"} => pos[c] = Delivered(c)
    /\ child[c] = "chunk" => pos[c] = Delivered(c) + 1
    /\ child[c] = "end" => FileLen[c] = Delivered(c)
    /\ child[c] = "fail" => c \in Unopenable \cup Unreadable

\* An answer that is closed is complete, or the file has an error.
Complete(c) ==
    /\ Closed(c) =>
         \/ responses[c][Len(responses[c])].mtype = 2 /\ Delivered(c) = FileLen[c] + 1
         \/ /\ responses[c][Len(responses[c])].mtype = 3
            /\ c \in Unopenable \cup Unreadable
    /\ cpc[c] \in {"rm_eof", "eof"} => Len(out[c]) = FileLen[c]
    /\ cpc[c] \in {"rm_error", "error"} => c \in Unopenable \cup Unreadable

\* Only a failed fork, a restart or the kill of its child loses a request.
Kept(c) ==
    forkFails = 0 /\ restarts = 0 /\ c \notin cut /\ cpc[c] = "recv" =>
        Waiting(c) \/ child[c] # "none" \/ Closed(c)

Good(c) ==
    /\ QueueOf(c) /\ Idle(c) /\ Unasked(c) /\ OnePlace(c)
    /\ InOrder(c) /\ Progress(c) /\ Complete(c) /\ Kept(c)

IInv ==
    /\ TypeOK /\ ServerHolds /\ AskedOnce
    /\ \A c \in Clients : Good(c)

-----------------------------------------------------------------------------
\* What Append and Tail return.
LEMMA AppendIs ==
    ASSUME NEW S, NEW s \in Seq(S), NEW e \in S
    PROVE  /\ Append(s, e) \in Seq(S)
           /\ Len(s) \in Nat /\ Len(Append(s, e)) = Len(s) + 1
           /\ \A i \in 1 .. Len(s) : Append(s, e)[i] = s[i]
           /\ Append(s, e)[Len(s) + 1] = e
  OBVIOUS

LEMMA TailIs ==
    ASSUME NEW S, NEW s \in Seq(S), s # << >>
    PROVE  /\ Tail(s) \in Seq(S)
           /\ Len(s) \in Nat /\ Len(s) > 0 /\ Len(Tail(s)) = Len(s) - 1
           /\ \A i \in 1 .. Len(Tail(s)) : Tail(s)[i] = s[i + 1]
           /\ Head(s) = s[1] /\ Head(s) \in S
  OBVIOUS

LEMMA EmptyIs == ASSUME NEW S, NEW s \in Seq(S) PROVE Len(s) = 0 <=> s = << >>
  OBVIOUS

\* An answer that is not closed may be continued by its next chunk or closed.
LEMMA ContinuesAppend ==
    ASSUME NEW c, NEW n \in Nat, NEW S, NEW r \in Seq(S), NEW e \in S,
           Continues(c, n, r), ~Closes(r),
           e.mtype = 1 => e.of = c /\ e.chunk = n + Len(r) + 1
    PROVE  /\ Continues(c, n, Append(r, e))
           /\ Closes(Append(r, e)) <=> e.mtype # 1
<1> DEFINE t == Append(r, e)
<1>1. /\ t \in Seq(S)
      /\ Len(r) \in Nat /\ Len(t) = Len(r) + 1
      /\ \A i \in 1 .. Len(r) : t[i] = r[i]
      /\ t[Len(r) + 1] = e
  BY AppendIs
<1> HIDE DEF t
<1>2. Closes(t) <=> e.mtype # 1
  BY <1>1 DEF Closes
<1>3. ASSUME NEW i \in 1 .. Len(r)
      PROVE  t[i].mtype = 1 /\ t[i].of = c /\ t[i].chunk = n + i
  <2>1. r[i].mtype = 1
    <3>1. CASE i # Len(r)
      BY <3>1 DEF Continues
    <3>2. CASE i = Len(r)
      BY <1>1, <3>2 DEF Closes
    <3> QED
      BY <3>1, <3>2
  <2> QED
    BY <1>1, <2>1 DEF Continues
<1>4. Continues(c, n, t)
  <2> SUFFICES ASSUME NEW i \in 1 .. Len(t)
               PROVE  \/ t[i].mtype = 1 /\ t[i].of = c /\ t[i].chunk = n + i
                      \/ t[i].mtype # 1 /\ i = Len(t)
    BY DEF Continues
  <2>1. CASE i \in 1 .. Len(r)
    BY <1>3, <2>1
  <2>2. CASE i = Len(r) + 1
    BY <1>1, <2>2
  <2> QED
    BY <1>1, <2>1, <2>2
<1> QED
  BY <1>2, <1>4 DEF t

\* The first message of an answer is its next chunk, or closes it and is the only
\* one.
LEMMA ContinuesTail ==
    ASSUME NEW c, NEW n \in Nat, NEW S, NEW r \in Seq(S), r # << >>,
           Continues(c, n, r)
    PROVE  \/ /\ Head(r).mtype = 1 /\ Head(r).of = c /\ Head(r).chunk = n + 1
              /\ Continues(c, n + 1, Tail(r))
              /\ Closes(Tail(r)) <=> Closes(r)
              /\ Closes(r) => Tail(r)[Len(Tail(r))] = r[Len(r)]
           \/ Head(r).mtype # 1 /\ Closes(r) /\ Len(r) = 1 /\ Tail(r) = << >>
<1> DEFINE t == Tail(r)
<1>1. /\ t \in Seq(S) /\ Len(t) \in Nat
      /\ Len(r) \in Nat /\ Len(r) > 0 /\ Len(t) = Len(r) - 1
      /\ \A i \in 1 .. Len(t) : t[i] = r[i + 1]
      /\ Head(r) = r[1]
  BY TailIs
<1>2. Len(t) = 0 <=> t = << >>
  BY <1>1, EmptyIs
<1> HIDE DEF t
<1>3. CASE r[1].mtype # 1
  <2>1. Len(r) = 1
    BY <1>1, <1>3 DEF Continues
  <2> QED
    BY <1>1, <1>2, <1>3, <2>1 DEF t, Closes
<1>4. CASE r[1].mtype = 1
  <2>1. r[1].of = c /\ r[1].chunk = n + 1
    BY <1>1, <1>4 DEF Continues
  <2>2. Continues(c, n + 1, t)
    <3> SUFFICES ASSUME NEW i \in 1 .. Len(t)
                 PROVE  \/ t[i].mtype = 1 /\ t[i].of = c /\ t[i].chunk = (n + 1) + i
                        \/ t[i].mtype # 1 /\ i = Len(t)
      BY DEF Continues
    <3>1. i + 1 \in 1 .. Len(r) /\ t[i] = r[i + 1]
      BY <1>1
    <3>2. \/ t[i].mtype = 1 /\ t[i].of = c /\ t[i].chunk = n + (i + 1)
          \/ t[i].mtype # 1 /\ i + 1 = Len(r)
      BY <3>1 DEF Continues
    <3>3. n + (i + 1) = (n + 1) + i
      OBVIOUS
    <3> QED
      BY <1>1, <3>2, <3>3
  <2>3. CASE t = << >>
    <3>1. Len(r) = 1
      BY <1>1, <1>2, <2>3
    <3> QED
      BY <1>1, <1>4, <2>1, <2>2, <2>3, <3>1 DEF t, Closes
  <2>4. CASE t # << >>
    <3>1. t[Len(t)] = r[Len(r)]
      BY <1>1, <1>2, <2>4
    <3> QED
      BY <1>1, <1>4, <2>1, <2>2, <2>4, <3>1 DEF t, Closes
  <2> QED
    BY <2>3, <2>4
<1> QED
  BY <1>3, <1>4, <1>1

\* What sending m to c's queue does to the queues.
LEMMA Responded ==
    ASSUME TypeOK, NEW c \in Clients, NEW m \in Response, Respond(c, m)
    PROVE  /\ responses' \in [Clients -> Seq(Response)]
           /\ \A d \in Clients : Len(responses'[d]) <= ClientCap
           /\ \A d \in Clients \ {c} : responses'[d] = responses[d]
           /\ c \in clientQ => responses'[c] = Append(responses[c], m)
<1> USE MsgFileAssumption
<1>1. /\ responses \in [Clients -> Seq(Response)]
      /\ \A d \in Clients : Len(responses[d]) <= ClientCap
  BY DEF TypeOK
<1>2. CASE c \notin clientQ
  BY <1>1, <1>2 DEF Respond
<1>3. CASE c \in clientQ
  <2> DEFINE r == Append(responses[c], m)
  <2>1. r \in Seq(Response) /\ Len(r) = Len(responses[c]) + 1
    BY <1>1
  <2>2. Len(responses[c]) < ClientCap /\ responses' = [responses EXCEPT ![c] = r]
    BY <1>3 DEF Respond
  <2>3. Len(r) <= ClientCap
    BY <1>1, <2>1, <2>2
  <2> HIDE DEF r
  <2>4. /\ responses' \in [Clients -> Seq(Response)]
        /\ \A d \in Clients : Len(responses'[d]) <= ClientCap
        /\ \A d \in Clients \ {c} : responses'[d] = responses[d]
        /\ responses'[c] = r
    BY <1>1, <2>1, <2>2, <2>3
  <2> QED
    BY <2>4 DEF r
<1> QED
  BY <1>2, <1>3

\* A message of type 1 is a chunk of somebody's file.
LEMMA ChunkIs ==
    ASSUME NEW m \in Response, m.mtype = 1
    PROVE  m.of \in Clients /\ m.chunk \in Nat
<1>1. CASE m \in [mtype : {1}, of : Clients, chunk : Nat]
  BY <1>1
<1>2. CASE m \in [mtype : {2, 3}]
  BY <1>2
<1> QED
  BY <1>1, <1>2 DEF Response

\* What taking the first message of c's queue does to the queues.
LEMMA Received ==
    ASSUME TypeOK, NEW c \in Clients, responses[c] # << >>,
           responses' = [responses EXCEPT ![c] = Tail(@)]
    PROVE  /\ responses' \in [Clients -> Seq(Response)]
           /\ \A d \in Clients : Len(responses'[d]) <= ClientCap
           /\ \A d \in Clients \ {c} : responses'[d] = responses[d]
           /\ responses'[c] = Tail(responses[c])
           /\ Head(responses[c]) \in Response
<1> USE MsgFileAssumption
<1>1. /\ responses \in [Clients -> Seq(Response)]
      /\ \A d \in Clients : Len(responses[d]) <= ClientCap
  BY DEF TypeOK
<1> DEFINE r == Tail(responses[c])
<1>2. /\ r \in Seq(Response) /\ Len(r) <= ClientCap
      /\ Head(responses[c]) \in Response
  BY <1>1
<1>3. responses' = [responses EXCEPT ![c] = r]
  OBVIOUS
<1> HIDE DEF r
<1>4. /\ responses' \in [Clients -> Seq(Response)]
      /\ \A d \in Clients : Len(responses'[d]) <= ClientCap
      /\ \A d \in Clients \ {c} : responses'[d] = responses[d]
      /\ responses'[c] = r
  BY <1>1, <1>2, <1>3
<1> QED
  BY <1>2, <1>4 DEF r

LEMMA ClientMoves ==
    ASSUME TypeOK, NEW c \in Clients, NEW from, NEW to, ClientGoes(c, from, to)
    PROVE  cpc[c] = from /\ cpc'[c] = to
  BY DEF TypeOK, ClientGoes

LEMMA TypeStep == TypeOK /\ [Next]_vars => TypeOK'
<1> SUFFICES ASSUME TypeOK, [Next]_vars PROVE TypeOK'
  OBVIOUS
<1> USE MsgFileAssumption
<1> USE DEF TypeOK, serverVars, clientVars, childVars, faultVars
<1>1. ASSUME ServerStart PROVE TypeOK'
  BY <1>1 DEF ServerStart, ServerGoes
<1>2. ASSUME ServerReceive PROVE TypeOK'
  <2>1. req' \in Clients /\ requests' \in Seq(Clients) /\ Len(requests') <= ServerCap
    BY <1>2 DEF ServerReceive
  <2> QED
    BY <1>2, <2>1 DEF ServerReceive, ServerGoes
<1>3. ASSUME ServerFork PROVE TypeOK'
  <2>1. pos' \in [Clients -> Nat] /\ \A d \in Clients : pos'[d] <= FileLen[d]
    <3>1. pos' = [pos EXCEPT ![req] = 0]
      BY <1>3 DEF ServerFork
    <3>2. \A d \in Clients : FileLen[d] \in Nat /\ pos[d] \in Nat
      OBVIOUS
    <3>3. \A d \in Clients : pos'[d] = IF d = req THEN 0 ELSE pos[d]
      BY <3>1
    <3>4. pos' \in [Clients -> Nat]
      BY <3>1
    <3>5. \A d \in Clients : pos'[d] <= FileLen[d]
      <4> TAKE d \in Clients
      <4>1. pos[d] <= FileLen[d]
        OBVIOUS
      <4>2. pos'[d] = 0 \/ pos'[d] = pos[d]
        BY <3>3
      <4> QED
        BY <3>2, <4>1, <4>2
    <3> QED
      BY <3>4, <3>5
  <2>2. child' \in [Clients -> {"none", "open", "read", "chunk", "end", "fail"}]
    BY <1>3 DEF ServerFork
  <2> QED
    BY <1>3, <2>1, <2>2 DEF ServerFork, ServerGoes
<1>4. ASSUME ServerForkFails PROVE TypeOK'
  <2>1. forkFails' \in 0 .. MaxForkFails
    BY <1>4 DEF ServerForkFails
  <2> QED
    BY <1>4, <2>1 DEF ServerForkFails, ServerGoes
<1>5. ASSUME NEW c \in Clients, ChildOpen(c) PROVE TypeOK'
  BY <1>5 DEF ChildOpen, ChildGoes
<1>6. ASSUME NEW c \in Clients, ChildRead(c) PROVE TypeOK'
  <2>1. pos' \in [Clients -> Nat] /\ \A d \in Clients : pos'[d] <= FileLen[d]
    <3>1. CASE pos[c] < FileLen[c] /\ pos' = [pos EXCEPT ![c] = @ + 1]
      BY <3>1
    <3>2. CASE UNCHANGED pos
      BY <3>2
    <3> QED
      BY <1>6, <3>1, <3>2 DEF ChildRead
  <2>2. child' \in [Clients -> {"none", "open", "read", "chunk", "end", "fail"}]
    BY <1>6 DEF ChildRead, ChildGoes
  <2> QED
    BY <1>6, <2>1, <2>2 DEF ChildRead
<1>7. ASSUME NEW c \in Clients, ChildReadFails(c) PROVE TypeOK'
  BY <1>7 DEF ChildReadFails, ChildGoes
<1>8. ASSUME NEW c \in Clients, ChildSendChunk(c) PROVE TypeOK'
  <2>1. [mtype |-> 1, of |-> c, chunk |-> pos[c]] \in Response
    BY DEF Response
  <2>2. /\ responses' \in [Clients -> Seq(Response)]
        /\ \A d \in Clients : Len(responses'[d]) <= ClientCap
    BY <1>8, <2>1, Responded DEF ChildSendChunk
  <2>3. child' \in [Clients -> {"none", "open", "read", "chunk", "end", "fail"}]
    BY <1>8 DEF ChildSendChunk, ChildGoes
  <2> QED
    BY <1>8, <2>2, <2>3 DEF ChildSendChunk
<1>9. ASSUME NEW c \in Clients, ChildSendEnd(c) PROVE TypeOK'
  <2>1. [mtype |-> 2] \in Response
    BY DEF Response
  <2>2. /\ responses' \in [Clients -> Seq(Response)]
        /\ \A d \in Clients : Len(responses'[d]) <= ClientCap
    BY <1>9, <2>1, Responded DEF ChildSendEnd
  <2>3. child' \in [Clients -> {"none", "open", "read", "chunk", "end", "fail"}]
    BY <1>9 DEF ChildSendEnd, ChildGoes
  <2> QED
    BY <1>9, <2>2, <2>3 DEF ChildSendEnd
<1>10. ASSUME NEW c \in Clients, ChildSendError(c) PROVE TypeOK'
  <2>1. [mtype |-> 3] \in Response
    BY DEF Response
  <2>2. /\ responses' \in [Clients -> Seq(Response)]
        /\ \A d \in Clients : Len(responses'[d]) <= ClientCap
    BY <1>10, <2>1, Responded DEF ChildSendError
  <2>3. child' \in [Clients -> {"none", "open", "read", "chunk", "end", "fail"}]
    BY <1>10 DEF ChildSendError, ChildGoes
  <2> QED
    BY <1>10, <2>2, <2>3 DEF ChildSendError
<1>11. ASSUME NEW c \in Clients, ClientStart(c) PROVE TypeOK'
  BY <1>11 DEF ClientStart, ClientGoes
<1>12. ASSUME NEW c \in Clients, ClientLookup(c) PROVE TypeOK'
  BY <1>12 DEF ClientLookup, ClientGoes
<1>13. ASSUME NEW c \in Clients, ClientSend(c) PROVE TypeOK'
  BY <1>13 DEF ClientSend, ClientGoes
<1>14. ASSUME NEW c \in Clients, ClientReceive(c) PROVE TypeOK'
  <2> DEFINE m == Head(responses[c])
  <2>1. /\ responses' \in [Clients -> Seq(Response)]
        /\ \A d \in Clients : Len(responses'[d]) <= ClientCap
        /\ m \in Response
    BY <1>14, Received DEF ClientReceive
  <2>2. m.mtype = 1 => m.of \in Clients /\ m.chunk \in Nat
    BY <2>1, ChunkIs
  <2>3. out' \in [Clients -> Seq([of : Clients, chunk : Nat, full : BOOLEAN])]
    <3>1. CASE UNCHANGED out
      BY <3>1
    <3>2. CASE m.mtype = 1 /\ out' = [out EXCEPT ![c] = Append(@, [of |-> m.of,
                    chunk |-> m.chunk, full |-> <<m.of, m.chunk>> \notin NulChunks])]
      <4> DEFINE o == [of |-> m.of, chunk |-> m.chunk,
                       full |-> <<m.of, m.chunk>> \notin NulChunks]
      <4>1. o \in [of : Clients, chunk : Nat, full : BOOLEAN]
        BY <2>2, <3>2
      <4> HIDE DEF o
      <4> QED
        BY <3>2, <4>1 DEF o
    <3> QED
      BY <1>14, <3>1, <3>2 DEF ClientReceive
  <2>4. cpc' \in [Clients -> {"start", "lookup", "send", "recv", "rm_eof",
                              "rm_error", "eof", "error", "failed"}]
    BY <1>14 DEF ClientReceive, ClientGoes
  <2> QED
    BY <1>14, <2>1, <2>3, <2>4 DEF ClientReceive
<1>15. ASSUME NEW c \in Clients, ClientCleanup(c) PROVE TypeOK'
  <2>1. responses' \in [Clients -> Seq(Response)] /\ \A d \in Clients : Len(responses'[d]) <= ClientCap
    BY <1>15 DEF ClientCleanup
  <2> QED
    BY <1>15, <2>1 DEF ClientCleanup, ClientGoes
<1>16. ASSUME NEW p \in MayDie, Die(p) PROVE TypeOK'
  BY <1>16 DEF Die
<1>17. ASSUME ServerRestart PROVE TypeOK'
  <2>1. restarts' \in 0 .. MaxRestarts
    BY <1>17 DEF ServerRestart
  <2> QED
    BY <1>17, <2>1 DEF ServerRestart
<1>18. ASSUME NEW c \in Victims, KillChild(c) PROVE TypeOK'
  BY <1>18 DEF KillChild
<1>19. CASE UNCHANGED vars
  BY <1>19 DEF vars
<1> QED
  BY <1>1, <1>2, <1>3, <1>4, <1>5, <1>6, <1>7, <1>8, <1>9, <1>10, <1>11, <1>12,
     <1>13, <1>14, <1>15, <1>16, <1>17, <1>18, <1>19 DEF Next, ServerStep, ChildStep, ClientStep

-----------------------------------------------------------------------------
LEMMA InvInit == Init => IInv
<1> SUFFICES ASSUME Init PROVE IInv
  OBVIOUS
<1> USE MsgFileAssumption
<1>1. TypeOK
  <2>1. \A c \in Clients : pos[c] <= FileLen[c]
    <3>1. \A c \in Clients : FileLen[c] \in Nat /\ pos[c] = 0
      BY DEF Init
    <3> QED
      BY <3>1
  <2>2. \A c \in Clients : responses[c] = << >> /\ Len(responses[c]) <= ClientCap
    BY DEF Init
  <2>3. restarts \in 0 .. MaxRestarts /\ forkFails \in 0 .. MaxForkFails
    BY DEF Init
  <2>4. /\ responses \in [Clients -> Seq(Response)]
        /\ out \in [Clients -> Seq([of : Clients, chunk : Nat, full : BOOLEAN])]
    BY DEF Init
  <2>5. requests \in Seq(Clients) /\ Len(requests) <= ServerCap
    BY DEF Init
  <2> QED
    BY <2>1, <2>2, <2>3, <2>4, <2>5 DEF Init, TypeOK
<1>2. ServerHolds /\ AskedOnce
  BY DEF Init, ServerHolds, AskedOnce
<1>3. \A c \in Clients : Good(c)
  BY DEF Init, Good, QueueOf, HasQueue, Idle, Waiting, Queued, Unasked, OnePlace,
         Closed, Closes, InOrder, Printed, Continues, Progress, Delivered, Complete, Kept
<1> QED
  BY <1>1, <1>2, <1>3 DEF IInv

\* A step that does not concern client d leaves what holds of it as it is.
LEMMA Frame ==
    ASSUME NEW d \in Clients, Good(d),
           cpc'[d] = cpc[d], responses'[d] = responses[d], child'[d] = child[d],
           pos'[d] = pos[d], out'[d] = out[d],
           d \in clientQ' <=> d \in clientQ,
           Queued(d)' <=> Queued(d),
           req' = d <=> req = d,
           forkFails' = 0 => forkFails = 0,
           restarts' = 0 => restarts = 0,
           d \notin cut' => d \notin cut
    PROVE  Good(d)'
  BY DEF Good, QueueOf, Idle, Waiting, Unasked, OnePlace, Closed, InOrder,
         Progress, Delivered, Complete, Kept

\* What is sent and printed of c's file stays as it is.
LEMMA SameAnswer ==
    ASSUME NEW c \in Clients, Good(c), responses'[c] = responses[c], out'[c] = out[c]
    PROVE  /\ InOrder(c)'
           /\ Closed(c)' <=> Closed(c)
           /\ Delivered(c)' = Delivered(c)
  BY DEF Good, InOrder, Closed, Delivered

\* The server takes the oldest request, and nobody else's place changes.
LEMMA Dequeued ==
    ASSUME TypeOK, AskedOnce, requests # << >>, requests' = Tail(requests),
           NEW c, c = Head(requests)
    PROVE  /\ AskedOnce'
           /\ c \in Clients
           /\ Queued(c)
           /\ ~Queued(c)'
           /\ \A d \in Clients \ {c} : Queued(d)' <=> Queued(d)
<1>1. requests \in Seq(Clients) /\ Len(requests) \in Nat /\ Len(requests) > 0
  BY DEF TypeOK
<1>2. /\ Len(requests') = Len(requests) - 1
      /\ \A i \in 1 .. Len(requests') : requests'[i] = requests[i + 1]
      /\ c = requests[1]
  BY <1>1
<1>3. AskedOnce'
  BY <1>1, <1>2 DEF AskedOnce
<1>4. c \in Clients /\ Queued(c)
  BY <1>1, <1>2 DEF Queued
<1>5. ~Queued(c)'
  <2> SUFFICES ASSUME NEW i \in 1 .. Len(requests'), requests'[i] = requests[1]
               PROVE  FALSE
    BY <1>2 DEF Queued
  <2> QED
    BY <1>1, <1>2 DEF AskedOnce
<1>6. ASSUME NEW d \in Clients \ {c} PROVE Queued(d)' <=> Queued(d)
  <2>1. ASSUME NEW i \in 1 .. Len(requests), requests[i] = d PROVE Queued(d)'
    <3>1. i # 1 /\ i - 1 \in 1 .. Len(requests')
      BY <1>1, <1>2, <1>6, <2>1
    <3>2. requests'[i - 1] = d
      BY <1>1, <1>2, <2>1, <3>1
    <3> QED
      BY <3>1, <3>2 DEF Queued
  <2>2. ASSUME NEW i \in 1 .. Len(requests'), requests'[i] = d PROVE Queued(d)
    <3>1. i + 1 \in 1 .. Len(requests) /\ requests[i + 1] = d
      BY <1>1, <1>2, <2>2
    <3> QED
      BY <3>1 DEF Queued
  <2> QED
    BY <2>1, <2>2 DEF Queued
<1> QED
  BY <1>3, <1>4, <1>5, <1>6

\* A client's request joins the others at the end of the queue.
LEMMA Enqueued ==
    ASSUME TypeOK, AskedOnce, NEW c \in Clients, ~Queued(c),
           requests' = Append(requests, c)
    PROVE  /\ AskedOnce'
           /\ Queued(c)'
           /\ \A d \in Clients \ {c} : Queued(d)' <=> Queued(d)
<1>1. requests \in Seq(Clients) /\ Len(requests) \in Nat
  BY DEF TypeOK
<1>2. /\ Len(requests') = Len(requests) + 1
      /\ \A i \in 1 .. Len(requests) : requests'[i] = requests[i]
      /\ requests'[Len(requests')] = c
  BY <1>1
<1>3. AskedOnce'
  BY <1>1, <1>2 DEF AskedOnce, Queued
<1>4. Queued(c)'
  BY <1>1, <1>2 DEF Queued
<1>5. ASSUME NEW d \in Clients \ {c} PROVE Queued(d)' <=> Queued(d)
  BY <1>1, <1>2, <1>5 DEF Queued
<1> QED
  BY <1>3, <1>4, <1>5

LEMMA InvStep == IInv /\ [Next]_vars => IInv'
<1> SUFFICES ASSUME IInv, [Next]_vars PROVE IInv'
  OBVIOUS
<1> USE MsgFileAssumption
<1> USE DEF serverVars, clientVars, childVars, faultVars
<1>0. /\ TypeOK /\ ServerHolds /\ AskedOnce
      /\ \A d \in Clients : Good(d)
      /\ TypeOK'
  BY TypeStep DEF IInv
<1>t. /\ responses \in [Clients -> Seq(Response)] /\ responses' \in [Clients -> Seq(Response)]
      /\ out \in [Clients -> Seq([of : Clients, chunk : Nat, full : BOOLEAN])]
      /\ out' \in [Clients -> Seq([of : Clients, chunk : Nat, full : BOOLEAN])]
      /\ pos \in [Clients -> Nat] /\ pos' \in [Clients -> Nat]
      /\ FileLen \in [Clients -> Nat]
  BY <1>0 DEF TypeOK
<1>1. ASSUME ServerStart PROVE IInv'
  <2>1. ServerHolds' /\ AskedOnce'
    BY <1>0, <1>1 DEF ServerStart, ServerGoes, ServerHolds, AskedOnce
  <2>2. ASSUME NEW d \in Clients PROVE Good(d)'
    BY <1>0, <1>1, Frame DEF ServerStart, Queued
  <2> QED
    BY <1>0, <2>1, <2>2 DEF IInv
<1>2. ASSUME ServerReceive PROVE IInv'
  <2>1. /\ requests \in Seq(Clients) /\ requests # << >>
        /\ req' = Head(requests) /\ requests' = Tail(requests)
        /\ UNCHANGED <<cpc, clientQ, out, responses, child, pos, cut, forkFails, restarts>>
    BY <1>0, <1>2 DEF ServerReceive, TypeOK
  <2>2. PICK c \in Clients : c = Head(requests)
    BY <2>1
  <2>3. /\ AskedOnce' /\ Queued(c) /\ ~Queued(c)'
        /\ \A d \in Clients \ {c} : Queued(d)' <=> Queued(d)
    BY <1>0, <2>1, <2>2, Dequeued
  <2>4. ServerHolds' /\ req = Nobody
    BY <1>0, <1>2 DEF ServerReceive, ServerGoes, ServerHolds
  <2>5. Good(c)'
    <3>1. InOrder(c)' /\ (Closed(c)' <=> Closed(c)) /\ Delivered(c)' = Delivered(c)
      BY <1>0, <2>1, <2>2, SameAnswer
    <3> QED
      BY <1>0, <2>1, <2>2, <2>3, <3>1 DEF Good, QueueOf, Idle, Waiting, Unasked,
           OnePlace, Progress, Complete, Kept
  <2>6. ASSUME NEW d \in Clients \ {c} PROVE Good(d)'
    BY <1>0, <2>1, <2>2, <2>3, <2>4, Frame
  <2> QED
    BY <1>0, <2>3, <2>4, <2>5, <2>6 DEF IInv
<1>3. ASSUME ServerFork PROVE IInv'
  <2>1. /\ child' = [child EXCEPT ![req] = "open"]
        /\ pos' = [pos EXCEPT ![req] = 0]
        /\ req' = Nobody
        /\ UNCHANGED <<cpc, clientQ, out, responses, requests, cut, forkFails, restarts>>
    BY <1>3 DEF ServerFork
  <2>2. ServerHolds' /\ AskedOnce'
    BY <1>0, <2>1 DEF ServerHolds, AskedOnce
  <2>3. ASSUME NEW d \in Clients, d # req PROVE Good(d)'
    BY <1>0, <2>1, <2>3, Frame DEF Queued, TypeOK
  <2>4. ASSUME NEW d \in Clients, d = req PROVE Good(d)'
    <3>1. child'[d] = "open" /\ pos'[d] = 0 /\ req' # d
      BY <1>0, <2>1, <2>4 DEF TypeOK
    <3>2. /\ Queued(d)' <=> Queued(d)
          /\ responses[d] = << >> /\ out[d] = << >> /\ ~Queued(d) /\ cpc[d] = "recv"
      BY <1>0, <2>1, <2>4 DEF Queued, Good, OnePlace, Idle, Waiting
    <3>3. InOrder(d)' /\ (Closed(d)' <=> Closed(d)) /\ Delivered(d)' = Delivered(d)
      BY <1>0, <2>1, SameAnswer
    <3>4. Delivered(d) = 0 /\ ~Closed(d)
      BY <3>2 DEF Delivered, Closed, Closes
    <3> QED
      BY <1>0, <2>1, <2>4, <3>1, <3>2, <3>3, <3>4 DEF Good, QueueOf, Idle, Waiting, Unasked,
           OnePlace, Progress, Complete, Kept
  <2> QED
    BY <1>0, <2>2, <2>3, <2>4 DEF IInv
<1>4. ASSUME ServerForkFails PROVE IInv'
  <2>1. /\ req' = Nobody /\ forkFails' # 0
        /\ UNCHANGED <<cpc, clientQ, out, responses, child, pos, requests>>
    BY <1>0, <1>4 DEF ServerForkFails, TypeOK
  <2>2. ServerHolds' /\ AskedOnce'
    BY <1>0, <2>1 DEF ServerHolds, AskedOnce
  <2>3. ASSUME NEW d \in Clients PROVE Good(d)'
    <3>1. InOrder(d)' /\ (Closed(d)' <=> Closed(d)) /\ Delivered(d)' = Delivered(d)
      BY <1>0, <2>1, SameAnswer
    <3>2. req' # d /\ (Queued(d)' <=> Queued(d))
      BY <2>1 DEF Queued
    <3> QED
      BY <1>0, <2>1, <3>1, <3>2 DEF Good, QueueOf, Idle, Waiting, Unasked,
           OnePlace, Progress, Complete, Kept
  <2> QED
    BY <1>0, <2>2, <2>3 DEF IInv
<1>5. ASSUME NEW c \in Clients, ChildOpen(c) PROVE IInv'
  <2>1. ServerHolds' /\ AskedOnce'
    BY <1>0, <1>5 DEF ChildOpen, ServerHolds, AskedOnce
  <2>2. ASSUME NEW d \in Clients \ {c} PROVE Good(d)'
    BY <1>0, <1>5, Frame DEF ChildOpen, ChildGoes, Queued, TypeOK
  <2>3. Good(c)'
    <3>1. InOrder(c)' /\ (Closed(c)' <=> Closed(c)) /\ Delivered(c)' = Delivered(c)
      BY <1>0, <1>5, SameAnswer DEF ChildOpen
    <3>2. Queued(c)' <=> Queued(c)
      BY <1>5 DEF ChildOpen, Queued
    <3> QED
      BY <1>0, <1>5, <3>1, <3>2 DEF ChildOpen, ChildGoes, TypeOK, Good, QueueOf, Idle,
           Waiting, Unasked, OnePlace, Progress, Complete, Kept
  <2> QED
    BY <1>0, <2>1, <2>2, <2>3 DEF IInv
<1>6. ASSUME NEW c \in Clients, ChildRead(c) PROVE IInv'
  <2>1. ServerHolds' /\ AskedOnce'
    BY <1>0, <1>6 DEF ChildRead, ServerHolds, AskedOnce
  <2>2. ASSUME NEW d \in Clients \ {c} PROVE Good(d)'
    BY <1>0, <1>6, Frame DEF ChildRead, ChildGoes, Queued, TypeOK
  <2>3. Good(c)'
    BY <1>0, <1>6 DEF ChildRead, ChildGoes, TypeOK, Good, QueueOf, HasQueue, Idle, Waiting,
         Queued, Unasked, Before, OnePlace, Closed, Closes, InOrder, Printed, Continues, Progress, Delivered, Complete, Kept
  <2> QED
    BY <1>0, <2>1, <2>2, <2>3 DEF IInv
<1>7. ASSUME NEW c \in Clients, ChildReadFails(c) PROVE IInv'
  <2>1. ServerHolds' /\ AskedOnce'
    BY <1>0, <1>7 DEF ChildReadFails, ServerHolds, AskedOnce
  <2>2. ASSUME NEW d \in Clients \ {c} PROVE Good(d)'
    BY <1>0, <1>7, Frame DEF ChildReadFails, ChildGoes, Queued, TypeOK
  <2>3. Good(c)'
    <3>1. InOrder(c)' /\ (Closed(c)' <=> Closed(c)) /\ Delivered(c)' = Delivered(c)
      BY <1>0, <1>7, SameAnswer DEF ChildReadFails
    <3>2. Queued(c)' <=> Queued(c)
      BY <1>7 DEF ChildReadFails, Queued
    <3> QED
      BY <1>0, <1>7, <3>1, <3>2 DEF ChildReadFails, ChildGoes, TypeOK, Good, QueueOf, Idle,
           Waiting, Unasked, OnePlace, Progress, Complete, Kept
  <2> QED
    BY <1>0, <2>1, <2>2, <2>3 DEF IInv
<1>8. ASSUME NEW c \in Clients, ChildSendChunk(c) PROVE IInv'
  <2> DEFINE m == [mtype |-> 1, of |-> c, chunk |-> pos[c]]
  <2>0. /\ \A d \in Clients \ {c} : responses'[d] = responses[d]
        /\ c \in clientQ => responses'[c] = Append(responses[c], m)
    <3>1. m \in Response
      BY <1>0 DEF Response, TypeOK
    <3> HIDE DEF m
    <3>2. Respond(c, m)
      BY <1>8 DEF ChildSendChunk, m
    <3> QED
      BY <1>0, <3>1, <3>2, Responded
  <2>1. ServerHolds' /\ AskedOnce'
    BY <1>0, <1>8 DEF ChildSendChunk, ServerHolds, AskedOnce
  <2>2. ASSUME NEW d \in Clients \ {c} PROVE Good(d)'
    BY <1>0, <1>8, <2>0, Frame DEF ChildSendChunk, ChildGoes, Queued, TypeOK
  <2>3. Good(c)'
    <3>1. c \in clientQ /\ cpc[c] = "recv" /\ ~Waiting(c) /\ ~Closed(c)
      BY <1>0, <1>8 DEF ChildSendChunk, ChildGoes, Good, QueueOf, Idle, OnePlace, HasQueue
    <3>2. responses'[c] = Append(responses[c], m)
      BY <2>0, <3>1
    <3>3. /\ responses[c] \in Seq(Response) /\ responses'[c] \in Seq(Response)
          /\ m \in Response
          /\ Len(responses'[c]) = Len(responses[c]) + 1
          /\ \A i \in 1 .. Len(responses[c]) : responses'[c][i] = responses[c][i]
          /\ responses'[c][Len(responses[c]) + 1] = m
      <4>1. responses[c] \in Seq(Response) /\ m \in Response
        BY <1>0 DEF TypeOK, Response
      <4> HIDE DEF m
      <4> QED
        BY <3>2, <4>1, AppendIs
    <3>4. /\ child[c] = "chunk" /\ child'[c] = "read"
          /\ pos'[c] = pos[c] /\ out'[c] = out[c] /\ cpc'[c] = cpc[c]
          /\ c \in clientQ' <=> c \in clientQ
          /\ Waiting(c)' <=> Waiting(c)
          /\ forkFails' = forkFails /\ restarts' = restarts
          /\ pos[c] \in Nat /\ FileLen[c] \in Nat
          /\ out[c] \in Seq([of : Clients, chunk : Nat, full : BOOLEAN])
      BY <1>0, <1>8 DEF ChildSendChunk, ChildGoes, Waiting, Queued, TypeOK
    <3>5. Delivered(c)' = Delivered(c) + 1 /\ Delivered(c) \in Nat
      BY <1>t, <3>3, <3>4 DEF Delivered
    <3>6. m.mtype = 1 /\ m.of = c /\ m.chunk = Len(out[c]) + Len(responses[c]) + 1
      BY <1>0, <3>4, <3>3 DEF Good, Progress, Delivered
    <3>7. InOrder(c)' /\ ~Closed(c)'
      <4> HIDE DEF m
      <4>1. Continues(c, Len(out[c]), responses[c]) /\ Printed(c, out[c]) /\ ~Closes(responses[c])
        BY <1>0, <3>1 DEF Good, InOrder, Closed
      <4>2. Len(out[c]) \in Nat
        BY <1>t
      <4>3. /\ Continues(c, Len(out[c]), responses'[c])
            /\ Closes(responses'[c]) <=> m.mtype # 1
        <5>1. m.mtype = 1 => m.of = c /\ m.chunk = Len(out[c]) + Len(responses[c]) + 1
          BY <3>6
        <5>2. /\ Continues(c, Len(out[c]), Append(responses[c], m))
              /\ Closes(Append(responses[c], m)) <=> m.mtype # 1
          BY <3>3, <4>1, <4>2, <5>1, ContinuesAppend
        <5> QED
          BY <3>2, <5>2
      <4> QED
        BY <3>3, <3>4, <3>6, <4>1, <4>3 DEF InOrder, Closed
    <3>8. Progress(c)' /\ Complete(c)'
      BY <1>0, <1>t, <3>1, <3>4, <3>5, <3>7 DEF Good, Progress, Complete
    <3> QED
      BY <1>0, <3>1, <3>4, <3>7, <3>8 DEF Good, QueueOf, Idle, Waiting, Unasked, Before, OnePlace, Kept
  <2> QED
    BY <1>0, <2>1, <2>2, <2>3 DEF IInv
<1>9. ASSUME NEW c \in Clients, ChildSendEnd(c) PROVE IInv'
  <2> DEFINE m == [mtype |-> 2]
  <2>0. /\ \A d \in Clients \ {c} : responses'[d] = responses[d]
        /\ c \in clientQ => responses'[c] = Append(responses[c], m)
    <3>1. m \in Response
      BY <1>0 DEF Response, TypeOK
    <3> HIDE DEF m
    <3>2. Respond(c, m)
      BY <1>9 DEF ChildSendEnd, m
    <3> QED
      BY <1>0, <3>1, <3>2, Responded
  <2>1. ServerHolds' /\ AskedOnce'
    BY <1>0, <1>9 DEF ChildSendEnd, ServerHolds, AskedOnce
  <2>2. ASSUME NEW d \in Clients \ {c} PROVE Good(d)'
    BY <1>0, <1>9, <2>0, Frame DEF ChildSendEnd, ChildGoes, Queued, TypeOK
  <2>3. Good(c)'
    <3>1. c \in clientQ /\ cpc[c] = "recv" /\ ~Waiting(c) /\ ~Closed(c)
      BY <1>0, <1>9 DEF ChildSendEnd, ChildGoes, Good, QueueOf, Idle, OnePlace, HasQueue
    <3>2. responses'[c] = Append(responses[c], m)
      BY <2>0, <3>1
    <3>3. /\ responses[c] \in Seq(Response) /\ responses'[c] \in Seq(Response)
          /\ m \in Response
          /\ Len(responses'[c]) = Len(responses[c]) + 1
          /\ \A i \in 1 .. Len(responses[c]) : responses'[c][i] = responses[c][i]
          /\ responses'[c][Len(responses[c]) + 1] = m
      <4>1. responses[c] \in Seq(Response) /\ m \in Response
        BY <1>0 DEF TypeOK, Response
      <4> HIDE DEF m
      <4> QED
        BY <3>2, <4>1, AppendIs
    <3>4. /\ child[c] = "end" /\ child'[c] = "none"
          /\ pos'[c] = pos[c] /\ out'[c] = out[c] /\ cpc'[c] = cpc[c]
          /\ c \in clientQ' <=> c \in clientQ
          /\ Waiting(c)' <=> Waiting(c)
          /\ forkFails' = forkFails /\ restarts' = restarts
          /\ pos[c] \in Nat /\ FileLen[c] \in Nat
          /\ out[c] \in Seq([of : Clients, chunk : Nat, full : BOOLEAN])
      BY <1>0, <1>9 DEF ChildSendEnd, ChildGoes, Waiting, Queued, TypeOK
    <3>5. Delivered(c)' = Delivered(c) + 1 /\ Delivered(c) \in Nat
      BY <1>t, <3>3, <3>4 DEF Delivered
    <3>6. m.mtype = 2
      OBVIOUS
    <3>7. InOrder(c)' /\ Closed(c)' /\ responses'[c][Len(responses'[c])].mtype = 2
      <4> HIDE DEF m
      <4>1. Continues(c, Len(out[c]), responses[c]) /\ Printed(c, out[c]) /\ ~Closes(responses[c])
        BY <1>0, <3>1 DEF Good, InOrder, Closed
      <4>2. Len(out[c]) \in Nat
        BY <1>t
      <4>3. /\ Continues(c, Len(out[c]), responses'[c])
            /\ Closes(responses'[c]) <=> m.mtype # 1
        <5>1. m.mtype = 1 => m.of = c /\ m.chunk = Len(out[c]) + Len(responses[c]) + 1
          BY <3>6
        <5>2. /\ Continues(c, Len(out[c]), Append(responses[c], m))
              /\ Closes(Append(responses[c], m)) <=> m.mtype # 1
          BY <3>3, <4>1, <4>2, <5>1, ContinuesAppend
        <5> QED
          BY <3>2, <5>2
      <4> QED
        BY <3>3, <3>4, <3>6, <4>1, <4>3 DEF InOrder, Closed
    <3>8. Progress(c)' /\ Complete(c)'
      BY <1>0, <1>t, <3>1, <3>4, <3>5, <3>7 DEF Good, Progress, Complete
    <3> QED
      BY <1>0, <3>1, <3>4, <3>7, <3>8 DEF Good, QueueOf, Idle, Waiting, Unasked, Before, OnePlace, Kept
  <2> QED
    BY <1>0, <2>1, <2>2, <2>3 DEF IInv
<1>10. ASSUME NEW c \in Clients, ChildSendError(c) PROVE IInv'
  <2> DEFINE m == [mtype |-> 3]
  <2>0. /\ \A d \in Clients \ {c} : responses'[d] = responses[d]
        /\ c \in clientQ => responses'[c] = Append(responses[c], m)
    <3>1. m \in Response
      BY <1>0 DEF Response, TypeOK
    <3> HIDE DEF m
    <3>2. Respond(c, m)
      BY <1>10 DEF ChildSendError, m
    <3> QED
      BY <1>0, <3>1, <3>2, Responded
  <2>1. ServerHolds' /\ AskedOnce'
    BY <1>0, <1>10 DEF ChildSendError, ServerHolds, AskedOnce
  <2>2. ASSUME NEW d \in Clients \ {c} PROVE Good(d)'
    BY <1>0, <1>10, <2>0, Frame DEF ChildSendError, ChildGoes, Queued, TypeOK
  <2>3. Good(c)'
    <3>1. c \in clientQ /\ cpc[c] = "recv" /\ ~Waiting(c) /\ ~Closed(c)
      BY <1>0, <1>10 DEF ChildSendError, ChildGoes, Good, QueueOf, Idle, OnePlace, HasQueue
    <3>2. responses'[c] = Append(responses[c], m)
      BY <2>0, <3>1
    <3>3. /\ responses[c] \in Seq(Response) /\ responses'[c] \in Seq(Response)
          /\ m \in Response
          /\ Len(responses'[c]) = Len(responses[c]) + 1
          /\ \A i \in 1 .. Len(responses[c]) : responses'[c][i] = responses[c][i]
          /\ responses'[c][Len(responses[c]) + 1] = m
      <4>1. responses[c] \in Seq(Response) /\ m \in Response
        BY <1>0 DEF TypeOK, Response
      <4> HIDE DEF m
      <4> QED
        BY <3>2, <4>1, AppendIs
    <3>4. /\ child[c] = "fail" /\ child'[c] = "none"
          /\ pos'[c] = pos[c] /\ out'[c] = out[c] /\ cpc'[c] = cpc[c]
          /\ c \in clientQ' <=> c \in clientQ
          /\ Waiting(c)' <=> Waiting(c)
          /\ forkFails' = forkFails /\ restarts' = restarts
          /\ pos[c] \in Nat /\ FileLen[c] \in Nat
          /\ out[c] \in Seq([of : Clients, chunk : Nat, full : BOOLEAN])
      BY <1>0, <1>10 DEF ChildSendError, ChildGoes, Waiting, Queued, TypeOK
    <3>5. Delivered(c)' = Delivered(c) + 1 /\ Delivered(c) \in Nat
      BY <1>t, <3>3, <3>4 DEF Delivered
    <3>6. m.mtype = 3
      OBVIOUS
    <3>7. InOrder(c)' /\ Closed(c)' /\ responses'[c][Len(responses'[c])].mtype = 3
      <4> HIDE DEF m
      <4>1. Continues(c, Len(out[c]), responses[c]) /\ Printed(c, out[c]) /\ ~Closes(responses[c])
        BY <1>0, <3>1 DEF Good, InOrder, Closed
      <4>2. Len(out[c]) \in Nat
        BY <1>t
      <4>3. /\ Continues(c, Len(out[c]), responses'[c])
            /\ Closes(responses'[c]) <=> m.mtype # 1
        <5>1. m.mtype = 1 => m.of = c /\ m.chunk = Len(out[c]) + Len(responses[c]) + 1
          BY <3>6
        <5>2. /\ Continues(c, Len(out[c]), Append(responses[c], m))
              /\ Closes(Append(responses[c], m)) <=> m.mtype # 1
          BY <3>3, <4>1, <4>2, <5>1, ContinuesAppend
        <5> QED
          BY <3>2, <5>2
      <4> QED
        BY <3>3, <3>4, <3>6, <4>1, <4>3 DEF InOrder, Closed
    <3>8. Progress(c)' /\ Complete(c)'
      BY <1>0, <1>t, <3>1, <3>4, <3>5, <3>7 DEF Good, Progress, Complete
    <3> QED
      BY <1>0, <3>1, <3>4, <3>7, <3>8 DEF Good, QueueOf, Idle, Waiting, Unasked, Before, OnePlace, Kept
  <2> QED
    BY <1>0, <2>1, <2>2, <2>3 DEF IInv
<1>11. ASSUME NEW c \in Clients, ClientStart(c) PROVE IInv'
  <2>1. ServerHolds' /\ AskedOnce'
    BY <1>0, <1>11 DEF ClientStart, ServerHolds, AskedOnce
  <2>2. ASSUME NEW d \in Clients \ {c} PROVE Good(d)'
    BY <1>0, <1>11, Frame DEF ClientStart, ClientGoes, Queued, TypeOK
  <2>3. Good(c)'
    BY <1>0, <1>11 DEF ClientStart, ClientGoes, TypeOK, Good, QueueOf, HasQueue, Idle, Waiting,
         Queued, Unasked, Before, OnePlace, Closed, Closes, InOrder, Printed, Continues, Progress, Delivered, Complete, Kept
  <2> QED
    BY <1>0, <2>1, <2>2, <2>3 DEF IInv
<1>12. ASSUME NEW c \in Clients, ClientLookup(c) PROVE IInv'
  <2>1. ServerHolds' /\ AskedOnce'
    BY <1>0, <1>12 DEF ClientLookup, ServerHolds, AskedOnce
  <2>2. ASSUME NEW d \in Clients \ {c} PROVE Good(d)'
    BY <1>0, <1>12, Frame DEF ClientLookup, ClientGoes, Queued, TypeOK
  <2>3. Good(c)'
    BY <1>0, <1>12 DEF ClientLookup, ClientGoes, TypeOK, Good, QueueOf, HasQueue, Idle, Waiting,
         Queued, Unasked, Before, OnePlace, Closed, Closes, InOrder, Printed, Continues, Progress, Delivered, Complete, Kept
  <2> QED
    BY <1>0, <2>1, <2>2, <2>3 DEF IInv
<1>13. ASSUME NEW c \in Clients, ClientSend(c) PROVE IInv'
  <2>1. ~Waiting(c) /\ child[c] = "none" /\ responses[c] = << >> /\ out[c] = << >>
    BY <1>0, <1>13 DEF ClientSend, ClientGoes, Good, Idle, Unasked, Before
  <2>2. /\ AskedOnce' /\ Queued(c)'
        /\ \A d \in Clients \ {c} : Queued(d)' <=> Queued(d)
    BY <1>0, <1>13, <2>1, Enqueued DEF ClientSend, Waiting
  <2>3. ServerHolds'
    BY <1>0, <1>13 DEF ClientSend, ServerHolds
  <2>4. ASSUME NEW d \in Clients \ {c} PROVE Good(d)'
    BY <1>0, <1>13, <2>2, Frame DEF ClientSend, ClientGoes, TypeOK
  <2>5. Good(c)'
    BY <1>0, <1>13, <2>1, <2>2 DEF ClientSend, ClientGoes, TypeOK, Good, QueueOf, HasQueue,
         Idle, Waiting, Unasked, Before, OnePlace, Closed, Closes, InOrder, Printed, Continues, Progress, Delivered,
         Complete, Kept
  <2> QED
    BY <1>0, <2>2, <2>3, <2>4, <2>5 DEF IInv
<1>14. ASSUME NEW c \in Clients, ClientReceive(c) PROVE IInv'
  <2> DEFINE m == Head(responses[c])
  <2>1. /\ \A d \in Clients \ {c} : responses'[d] = responses[d]
        /\ responses'[c] = Tail(responses[c]) /\ responses[c] # << >>
    BY <1>0, <1>14, Received DEF ClientReceive
  <2>2. ServerHolds' /\ AskedOnce'
    BY <1>0, <1>14 DEF ClientReceive, ServerHolds, AskedOnce
  <2>3. ASSUME NEW d \in Clients \ {c} PROVE Good(d)'
    <3>1. out'[d] = out[d] /\ cpc'[d] = cpc[d]
      BY <1>0, <1>14 DEF ClientReceive, ClientGoes, TypeOK
    <3> QED
      BY <1>0, <1>14, <2>1, <3>1, Frame DEF ClientReceive, Queued
  <2>4. Good(c)'
    <3>1. /\ responses[c] \in Seq(Response) /\ responses'[c] \in Seq(Response)
          /\ out[c] \in Seq([of : Clients, chunk : Nat, full : BOOLEAN])
          /\ Len(responses[c]) > 0 /\ m = responses[c][1]
          /\ Len(responses'[c]) = Len(responses[c]) - 1
          /\ \A i \in 1 .. Len(responses'[c]) : responses'[c][i] = responses[c][i + 1]
      <4>1. /\ responses[c] \in Seq(Response)
            /\ out[c] \in Seq([of : Clients, chunk : Nat, full : BOOLEAN])
        BY <1>0 DEF TypeOK
      <4> QED
        BY <2>1, <4>1, TailIs
    <3>2. /\ child'[c] = child[c] /\ pos'[c] = pos[c]
          /\ c \in clientQ' <=> c \in clientQ
          /\ Waiting(c)' <=> Waiting(c)
          /\ pos[c] \in Nat /\ FileLen[c] \in Nat
          /\ out'[c] \in Seq([of : Clients, chunk : Nat, full : BOOLEAN])
          /\ forkFails' = forkFails /\ restarts' = restarts
      BY <1>0, <1>14 DEF ClientReceive, Waiting, Queued, TypeOK
    <3>3. /\ m.mtype = 1 =>
                /\ m.of = c /\ m.chunk = Len(out[c]) + 1
                /\ Continues(c, Len(out[c]) + 1, responses'[c])
                /\ Closed(c)' <=> Closed(c)
                /\ Closed(c) => responses'[c][Len(responses'[c])] = responses[c][Len(responses[c])]
          /\ m.mtype # 1 => Closed(c) /\ Len(responses[c]) = 1 /\ responses'[c] = << >>
      <4>1. Continues(c, Len(out[c]), responses[c]) /\ Len(out[c]) \in Nat
        BY <1>0, <1>t DEF Good, InOrder
      <4> QED
        <5> DEFINE r == responses[c]
                   n == Len(out[c])
        <5>1. r \in Seq(Response) /\ r # << >> /\ Continues(c, n, r) /\ n \in Nat
          BY <2>1, <3>1, <4>1
        <5>2. \/ /\ Head(r).mtype = 1 /\ Head(r).of = c /\ Head(r).chunk = n + 1
                 /\ Continues(c, n + 1, Tail(r))
                 /\ Closes(Tail(r)) <=> Closes(r)
                 /\ Closes(r) => Tail(r)[Len(Tail(r))] = r[Len(r)]
              \/ Head(r).mtype # 1 /\ Closes(r) /\ Len(r) = 1 /\ Tail(r) = << >>
          <6> HIDE DEF r, n
          <6> QED
            BY <5>1, ContinuesTail
        <5> QED
          BY <2>1, <5>2 DEF Closed
    <3>4. CASE m.mtype = 1
      <4> DEFINE o == [of |-> m.of, chunk |-> m.chunk,
                       full |-> <<m.of, m.chunk>> \notin NulChunks]
      <4>1. cpc[c] = "recv" /\ cpc'[c] = "recv" /\ out'[c] = Append(out[c], o)
        <5>1. ClientGoes(c, "recv", "recv") /\ out' = [out EXCEPT ![c] = Append(@, o)]
          BY <1>14, <3>4 DEF ClientReceive
        <5> HIDE DEF o
        <5> QED
          BY <1>0, <1>t, <5>1, ClientMoves
      <4>2. o.of = c /\ o.chunk = Len(out[c]) + 1
        BY <3>3, <3>4
      <4>3. o \in [of : Clients, chunk : Nat, full : BOOLEAN]
        BY <1>t, <3>3, <3>4
      <4> HIDE DEF o
      <4>4. /\ Len(out'[c]) = Len(out[c]) + 1
            /\ \A i \in 1 .. Len(out[c]) : out'[c][i] = out[c][i]
            /\ out'[c][Len(out[c]) + 1] = o
        BY <3>1, <4>1, <4>3, AppendIs
      <4>5. Delivered(c)' = Delivered(c)
        BY <1>t, <3>1, <4>4 DEF Delivered
      <4>6. InOrder(c)'
        <5>1. Printed(c, out'[c])
          <6>1. Printed(c, out[c]) /\ Len(out[c]) \in Nat
            BY <1>0, <1>t DEF Good, InOrder
          <6>2. ASSUME NEW i \in 1 .. Len(out'[c])
                PROVE  out'[c][i].of = c /\ out'[c][i].chunk = i
            <7>1. CASE i \in 1 .. Len(out[c])
              BY <4>4, <6>1, <7>1 DEF Printed
            <7>2. CASE i = Len(out[c]) + 1
              BY <4>2, <4>4, <7>2
            <7> QED
              BY <4>4, <6>1, <7>1, <7>2
          <6> QED
            BY <6>2 DEF Printed
        <5> QED
          BY <3>3, <3>4, <4>4, <5>1 DEF InOrder
      <4>7. Progress(c)' /\ Complete(c)'
        BY <1>0, <3>2, <3>3, <3>4, <4>1, <4>5 DEF Good, Progress, Complete
      <4>8. ~Waiting(c)
        BY <1>0, <2>1 DEF Good, OnePlace
      <4> QED
        <5> HIDE DEF m
        <5>1. UNCHANGED <<child, clientQ, cut, forkFails, restarts>>
          BY <1>14 DEF ClientReceive
        <5>2. QueueOf(c)' /\ Idle(c)' /\ Unasked(c)'
          BY <1>0, <4>1, <5>1 DEF Good, QueueOf, Idle, Unasked, Before
        <5>3. ~Queued(c)' /\ ~Waiting(c)'
          BY <3>2, <4>8 DEF Waiting
        <5>4. OnePlace(c)'
          BY <1>0, <3>3, <3>4, <5>1, <5>3 DEF Good, OnePlace
        <5>5. Kept(c)'
          BY <1>0, <3>2, <3>3, <3>4, <4>1, <5>1 DEF Good, Kept
        <5> QED
          BY <4>6, <4>7, <5>2, <5>4, <5>5 DEF Good
    <3>5. CASE m.mtype # 1
      <4>1. m.mtype \in {2, 3}
        BY <1>0, <1>14, <3>5 DEF ClientReceive
      <4>2. /\ cpc[c] = "recv" /\ out'[c] = out[c]
            /\ \/ m.mtype = 2 /\ cpc'[c] = "rm_eof"
               \/ m.mtype = 3 /\ cpc'[c] = "rm_error"
        <5>1. /\ out' = out
              /\ \/ m.mtype = 2 /\ ClientGoes(c, "recv", "rm_eof")
                 \/ m.mtype = 3 /\ ClientGoes(c, "recv", "rm_error")
          BY <1>14, <3>5 DEF ClientReceive
        <5> HIDE DEF m
        <5>2. CASE m.mtype = 2 /\ ClientGoes(c, "recv", "rm_eof")
          BY <1>0, <5>1, <5>2, ClientMoves
        <5>3. CASE m.mtype = 3 /\ ClientGoes(c, "recv", "rm_error")
          BY <1>0, <5>1, <5>3, ClientMoves
        <5> QED
          BY <5>1, <5>2, <5>3
      <4>3. Closed(c) /\ Len(responses[c]) = 1 /\ responses'[c] = << >> /\ ~Closed(c)'
        BY <3>3, <3>5 DEF Closed, Closes
      <4>4. child[c] = "none" /\ ~Waiting(c)
        BY <1>0, <2>1, <4>3 DEF Good, OnePlace
      <4>5. InOrder(c)'
        BY <1>0, <4>2, <4>3 DEF Good, InOrder, Continues
      <4>6. Complete(c)'
        <5>1. \/ m.mtype = 2 /\ Delivered(c) = FileLen[c] + 1
              \/ m.mtype = 3 /\ c \in Unopenable \cup Unreadable
          BY <1>0, <3>1, <4>3 DEF Good, Complete
        <5>2. Delivered(c) = Len(out[c]) + 1
          BY <4>3 DEF Delivered
        <5>3. m.mtype = 2 => Len(out'[c]) = FileLen[c]
          <6>1. FileLen[c] \in Nat /\ Len(out[c]) \in Nat /\ out'[c] = out[c]
            BY <1>t, <4>2
          <6>2. m.mtype = 2 => Len(out[c]) + 1 = FileLen[c] + 1
            BY <5>1, <5>2
          <6> QED
            BY <6>1, <6>2
        <5> QED
          BY <4>2, <4>3, <5>1, <5>3 DEF Complete
      <4> QED
        BY <1>0, <3>2, <4>2, <4>3, <4>4, <4>5, <4>6
        DEF Good, QueueOf, HasQueue, Idle, Waiting, Unasked, Before, OnePlace, Progress, Kept
    <3> QED
      BY <3>4, <3>5
  <2> QED
    BY <1>0, <2>2, <2>3, <2>4 DEF IInv
<1>15. ASSUME NEW c \in Clients, ClientCleanup(c) PROVE IInv'
  <2>1. ServerHolds' /\ AskedOnce'
    BY <1>0, <1>15 DEF ClientCleanup, ServerHolds, AskedOnce
  <2>2. ASSUME NEW d \in Clients \ {c} PROVE Good(d)'
    BY <1>0, <1>15, Frame DEF ClientCleanup, ClientGoes, Queued, TypeOK
  <2>3. Good(c)'
    BY SMTT(30), <1>0, <1>15 DEF ClientCleanup, ClientGoes, TypeOK, Good, QueueOf, HasQueue, Idle, Waiting,
         Queued, Unasked, Before, OnePlace, Closed, Closes, InOrder, Printed, Continues, Progress, Delivered, Complete, Kept
  <2> QED
    BY <1>0, <2>1, <2>2, <2>3 DEF IInv
<1>16. ASSUME NEW p \in MayDie, Die(p) PROVE IInv'
  <2>1. ServerHolds' /\ AskedOnce'
    BY <1>0, <1>16 DEF Die, ServerHolds, AskedOnce
  <2>2. ASSUME NEW d \in Clients PROVE Good(d)'
    BY <1>0, <1>16, Frame DEF Die, Queued
  <2> QED
    BY <1>0, <2>1, <2>2 DEF IInv
<1>17. ASSUME ServerRestart PROVE IInv'
  <2>1. /\ req' = Nobody /\ restarts' # 0
        /\ UNCHANGED <<cpc, clientQ, out, responses, child, pos, requests>>
    BY <1>0, <1>17 DEF ServerRestart, TypeOK
  <2>2. ServerHolds' /\ AskedOnce'
    BY <1>0, <2>1 DEF ServerHolds, AskedOnce
  <2>3. ASSUME NEW d \in Clients PROVE Good(d)'
    <3>1. InOrder(d)' /\ (Closed(d)' <=> Closed(d)) /\ Delivered(d)' = Delivered(d)
      BY <1>0, <2>1, SameAnswer
    <3>2. req' # d /\ (Queued(d)' <=> Queued(d))
      BY <2>1 DEF Queued
    <3> QED
      BY <1>0, <2>1, <3>1, <3>2 DEF Good, QueueOf, Idle, Waiting, Unasked,
           OnePlace, Progress, Complete, Kept
  <2> QED
    BY <1>0, <2>2, <2>3 DEF IInv
<1>18. ASSUME NEW c \in Victims, KillChild(c) PROVE IInv'
  <2>1. ServerHolds' /\ AskedOnce'
    BY <1>0, <1>18 DEF KillChild, ServerHolds, AskedOnce
  <2>2. ASSUME NEW d \in Clients \ {c} PROVE Good(d)'
    BY <1>0, <1>18, Frame DEF KillChild, Queued, TypeOK
  <2>3. Good(c)'
    <3>1. InOrder(c)' /\ (Closed(c)' <=> Closed(c)) /\ Delivered(c)' = Delivered(c)
      BY <1>0, <1>18, SameAnswer DEF KillChild
    <3>2. Queued(c)' <=> Queued(c)
      BY <1>18 DEF KillChild, Queued
    <3> QED
      BY <1>0, <1>18, <3>1, <3>2 DEF KillChild, TypeOK, Good, QueueOf, Idle,
           Waiting, Unasked, OnePlace, Progress, Complete, Kept
  <2> QED
    BY <1>0, <2>1, <2>2, <2>3 DEF IInv
<1>19. CASE UNCHANGED vars
  <2>1. ServerHolds' /\ AskedOnce'
    BY <1>0, <1>19 DEF vars, ServerHolds, AskedOnce
  <2>2. ASSUME NEW d \in Clients PROVE Good(d)'
    BY <1>0, <1>19, Frame DEF vars, Queued
  <2> QED
    BY <1>0, <2>1, <2>2 DEF IInv
<1> QED
  BY <1>1, <1>2, <1>3, <1>4, <1>5, <1>6, <1>7, <1>8, <1>9, <1>10, <1>11, <1>12,
     <1>13, <1>14, <1>15, <1>16, <1>17, <1>18, <1>19 DEF Next, ServerStep, ChildStep, ClientStep

LEMMA Invariance == Spec => []IInv
  BY InvInit, InvStep, PTL DEF Spec

-----------------------------------------------------------------------------
\* Every reachable state has its type: no queue holds more than its capacity,
\* and no child reads past the end of its file.
THEOREM TypeCorrect == Spec => []TypeOK
<1>1. IInv => TypeOK
  BY DEF IInv
<1> QED
  BY <1>1, Invariance, PTL

\* A set with at most one member, counted.
LEMMA AtMostOne ==
    ASSUME NEW S, \A i, k \in S : i = k
    PROVE  IF S = {} THEN Cardinality(S) = 0 ELSE Cardinality(S) = 1
<1>1. CASE S = {}
  BY <1>1, FS_EmptySet
<1>2. CASE S # {}
  <2>1. PICK x \in S : S = {x}
    BY <1>2
  <2>2. Cardinality({x}) = 1
    BY FS_Singleton
  <2> QED
    BY <1>2, <2>1, <2>2
<1> QED
  BY <1>1, <1>2

\* The places that Custody counts, one by one.
LEMMA Places ==
    ASSUME IInv, NEW c \in Clients
    PROVE  Custody(c) = (IF Queued(c) THEN 1 ELSE 0)
                        + (IF req = c /\ Server \notin dead THEN 1 ELSE 0)
                        + (IF child[c] # "none" THEN 1 ELSE 0)
                        + (IF Closed(c) THEN 1 ELSE 0)
<1> DEFINE Q == {i \in 1 .. Len(requests) : requests[i] = c}
           R == {i \in 1 .. Len(responses[c]) : responses[c][i] \in Ending}
<1>1. /\ TypeOK /\ AskedOnce /\ Good(c)
  BY DEF IInv
<1>2. Cardinality(Q) = IF Queued(c) THEN 1 ELSE 0
  <2>1. \A i, k \in Q : i = k
    BY <1>1 DEF AskedOnce
  <2>2. Q = {} <=> ~Queued(c)
    BY DEF Queued
  <2> HIDE DEF Q
  <2> QED
    BY <2>1, <2>2, AtMostOne
<1>3. Cardinality(R) = IF Closed(c) THEN 1 ELSE 0
  <2>1. responses[c] \in Seq(Response) /\ Len(responses[c]) \in Nat
    BY <1>1 DEF TypeOK
  <2>2. \A i \in R : i = Len(responses[c]) /\ Closed(c)
    <3> SUFFICES ASSUME NEW i \in R PROVE i = Len(responses[c]) /\ Closed(c)
      OBVIOUS
    <3>1. responses[c][i].mtype # 1
      BY DEF Ending
    <3>2. i = Len(responses[c])
      BY <1>1, <3>1 DEF Good, InOrder, Continues
    <3> QED
      BY <3>1, <3>2 DEF Closed, Closes
  <2>3. Closed(c) => Len(responses[c]) \in R
    <3> SUFFICES ASSUME Closed(c) PROVE Len(responses[c]) \in R
      OBVIOUS
    <3> DEFINE m == responses[c][Len(responses[c])]
    <3>1. Len(responses[c]) \in 1 .. Len(responses[c])
      BY <2>1 DEF Closed, Closes
    <3>2. m \in Response /\ m.mtype # 1
      BY <2>1, <3>1 DEF Closed, Closes
    <3>3. m \in Ending
      BY <3>2 DEF Response, Ending
    <3> QED
      BY <3>1, <3>3
  <2> HIDE DEF R
  <2>4. \A i, k \in R : i = k
    BY <2>2
  <2>5. R = {} <=> ~Closed(c)
    BY <2>2, <2>3
  <2> QED
    BY <2>4, <2>5, AtMostOne
<1> HIDE DEF Q, R
<1>4. Custody(c) = Cardinality(Q)
                   + (IF req = c /\ Server \notin dead THEN 1 ELSE 0)
                   + (IF child[c] # "none" THEN 1 ELSE 0)
                   + Cardinality(R)
  BY DEF Custody, Q, R
<1> QED
  BY <1>2, <1>3, <1>4

\* A request is in one place at most, and in exactly one while its client waits,
\* unless a fork has failed, or the server or the child that served it was killed.
THEOREM RequestHasOneCustodian == Spec => []OneCustodian
<1>1. IInv => OneCustodian
  <2> SUFFICES ASSUME IInv, NEW c \in Clients
               PROVE  /\ Custody(c) <= 1
                      /\ cpc[c] = "recv" /\ ServerSound /\ c \notin cut => Custody(c) = 1
    BY DEF OneCustodian
  <2>1. Good(c)
    BY DEF IInv
  <2>2. /\ Queued(c) => req # c
        /\ Queued(c) \/ req = c => child[c] = "none" /\ ~Closed(c)
        /\ child[c] # "none" => ~Closed(c)
    BY <2>1 DEF Good, OnePlace, Waiting, Closed, Closes
  <2>3. cpc[c] = "recv" /\ ServerSound /\ c \notin cut =>
            \/ Queued(c)
            \/ req = c /\ Server \notin dead
            \/ child[c] # "none"
            \/ Closed(c)
    BY <2>1 DEF Good, Kept, Waiting, ServerSound
  <2> QED
    BY <2>2, <2>3, Places
<1> QED
  BY <1>1, Invariance, PTL

\* What a client has printed is the beginning of its own file, in order; one that
\* was told the end has printed all of it.
THEOREM ClientPrintsItsFile == Spec => []PrintedIsFile
<1>1. IInv => PrintedIsFile
  BY DEF IInv, Good, InOrder, Printed, Complete, PrintedIsFile
<1> QED
  BY <1>1, Invariance, PTL

\* A client removes its queue when nothing is in it and nobody will send to it.
THEOREM CleanupIsQuiet == Spec => []QuietCleanup
<1>1. IInv => QuietCleanup
  <2> SUFFICES ASSUME IInv, NEW c \in Clients,
                      cpc[c] \in {"rm_eof", "rm_error", "eof", "error"}
               PROVE  Custody(c) = 0 /\ responses[c] = << >>
    BY DEF QuietCleanup
  <2>1. ~Queued(c) /\ req # c /\ child[c] = "none" /\ responses[c] = << >>
    BY DEF IInv, Good, Idle, Waiting
  <2>2. ~Closed(c)
    BY <2>1 DEF Closed, Closes
  <2> QED
    BY <2>1, <2>2, Places
<1> QED
  BY <1>1, Invariance, PTL

-----------------------------------------------------------------------------
\* What a step that leaves client d's part of the service as it is may do to it.
Unmoved(d) ==
    /\ cpc'[d] \in Before <=> cpc[d] \in Before
    /\ Outcome(cpc'[d]) = Outcome(cpc[d])
    /\ Waiting(d)' <=> Waiting(d)
    /\ child'[d] # "none" <=> child[d] # "none"
    /\ responses'[d] = responses[d]
    /\ out'[d] = out[d]

\* The service does not see a step that moves nobody's part.
LEMMA NobodyMoves ==
    ASSUME \A d \in Clients : Unmoved(d)
    PROVE  UNCHANGED Service!serviceVars
<1>1. Asked' = Asked /\ Owed' = Owed
  BY DEF Unmoved, Asked, Owed
<1>2. \A d \in Clients : Closed(d)' <=> Closed(d)
  BY DEF Unmoved, Closed
<1>3. Sent' = Sent
  BY <1>2 DEF Unmoved, Sent, Delivered
<1>4. Verdict' = Verdict
  BY <1>2 DEF Unmoved, Verdict
<1>5. Got' = Got /\ Told' = Told
  BY DEF Unmoved, Got, Told
<1> QED
  BY <1>1, <1>3, <1>4, <1>5 DEF Service!serviceVars

LEMMA SameEverywhere ==
    ASSUME NEW S, NEW c \in S, NEW f, NEW g, f = [x \in S |-> f[x]],
           g = [f EXCEPT ![c] = g[c]], g[c] = f[c]
    PROVE  g = f
<1>1. [f EXCEPT ![c] = f[c]] = f
  OBVIOUS
<1> QED
  BY <1>1

\* A step that moves the part of c only changes the service at c.
LEMMA OneMoves ==
    ASSUME NEW c \in Clients, \A d \in Clients \ {c} : Unmoved(d)
    PROVE  /\ Asked' = IF cpc'[c] \in Before THEN Asked \ {c} ELSE Asked \cup {c}
           /\ Owed' = IF Waiting(c)' \/ child'[c] # "none" THEN Owed \cup {c} ELSE Owed \ {c}
           /\ Sent' = [Sent EXCEPT ![c] = Sent'[c]]
           /\ Verdict' = [Verdict EXCEPT ![c] = Verdict'[c]]
           /\ Got' = [Got EXCEPT ![c] = Got'[c]]
           /\ Told' = [Told EXCEPT ![c] = Told'[c]]
           /\ Sent'[c] = Sent[c] => Sent' = Sent
           /\ Verdict'[c] = Verdict[c] => Verdict' = Verdict
           /\ Got'[c] = Got[c] => Got' = Got
           /\ Told'[c] = Told[c] => Told' = Told
<1>1. \A d \in Clients \ {c} : Closed(d)' <=> Closed(d)
  BY DEF Unmoved, Closed
<1>2. Asked' = IF cpc'[c] \in Before THEN Asked \ {c} ELSE Asked \cup {c}
  BY DEF Unmoved, Asked
<1>3. Owed' = IF Waiting(c)' \/ child'[c] # "none" THEN Owed \cup {c} ELSE Owed \ {c}
  BY DEF Unmoved, Owed
<1>4. Sent' = [Sent EXCEPT ![c] = Sent'[c]]
  BY <1>1 DEF Unmoved, Sent, Delivered
<1>5. Verdict' = [Verdict EXCEPT ![c] = Verdict'[c]]
  BY <1>1 DEF Unmoved, Verdict
<1>6. Got' = [Got EXCEPT ![c] = Got'[c]]
  BY DEF Unmoved, Got
<1>7. Told' = [Told EXCEPT ![c] = Told'[c]]
  BY DEF Unmoved, Told
<1>8. /\ Sent = [d \in Clients |-> Sent[d]] /\ Verdict = [d \in Clients |-> Verdict[d]]
      /\ Got = [d \in Clients |-> Got[d]] /\ Told = [d \in Clients |-> Told[d]]
  BY DEF Sent, Verdict, Got, Told
<1>9. Sent'[c] = Sent[c] => Sent' = Sent
  BY <1>4, <1>8, SameEverywhere
<1>10. Verdict'[c] = Verdict[c] => Verdict' = Verdict
  BY <1>5, <1>8, SameEverywhere
<1>11. Got'[c] = Got[c] => Got' = Got
  BY <1>6, <1>8, SameEverywhere
<1>12. Told'[c] = Told[c] => Told' = Told
  BY <1>7, <1>8, SameEverywhere
<1> QED
  BY <1>2, <1>3, <1>4, <1>5, <1>6, <1>7, <1>9, <1>10, <1>11, <1>12

\* What the service is at client c.
LEMMA At ==
    ASSUME NEW c \in Clients
    PROVE  /\ ~Closed(c) => Sent[c] = Delivered(c)
           /\ ~Closed(c)' => Sent'[c] = Delivered(c)'
           /\ Closed(c) => Sent[c] = Delivered(c) - 1
           /\ Closed(c)' => Sent'[c] = Delivered(c)' - 1
           /\ Told[c] = Outcome(cpc[c]) /\ Told'[c] = Outcome(cpc'[c])
           /\ ~Closed(c) => Verdict[c] = Outcome(cpc[c])
           /\ ~Closed(c)' => Verdict'[c] = Outcome(cpc'[c])
           /\ c \in Asked <=> cpc[c] \notin Before
           /\ c \in Owed <=> Waiting(c) \/ child[c] # "none"
  BY DEF Sent, Told, Verdict, Asked, Owed

LEMMA OutIs ==
    ASSUME TypeOK, NEW c \in Clients
    PROVE  /\ Len(out[c]) \in Nat
           /\ out[c] \in Seq([of : Clients, chunk : Nat, full : BOOLEAN])
           /\ \A k \in 1 .. Len(out[c]) : <<out[c][k].of, out[c][k].chunk>> \in Clients \X Nat
<1> DEFINE S == [of : Clients, chunk : Nat, full : BOOLEAN]
<1>1. out \in [Clients -> Seq(S)]
  BY DEF TypeOK
<1>2. \A e \in S : <<e.of, e.chunk>> \in Clients \X Nat
  OBVIOUS
<1> HIDE DEF S
<1>3. out[c] \in Seq(S) /\ Len(out[c]) \in Nat
  BY <1>1
<1>4. \A k \in 1 .. Len(out[c]) : out[c][k] \in S
  BY <1>3
<1> QED
  BY <1>2, <1>3, <1>4 DEF S

LEMMA GotIs ==
    ASSUME TypeOK, NEW c \in Clients
    PROVE  Got[c] \in Seq(Clients \X Nat) /\ Len(Got[c]) = Len(out[c])
<1> DEFINE g == [k \in 1 .. Len(out[c]) |-> <<out[c][k].of, out[c][k].chunk>>]
           P == Clients \X Nat
<1>1. Got[c] = g /\ Len(out[c]) \in Nat
  BY OutIs DEF Got
<1>2. g \in [1 .. Len(out[c]) -> P]
  BY OutIs
<1> HIDE DEF g, P
<1>3. g \in Seq(P) /\ Len(g) = Len(out[c])
  BY <1>1, <1>2
<1> QED
  BY <1>1, <1>3 DEF P

\* A client that prints one more chunk has taken one more.
LEMMA GotGrows ==
    ASSUME TypeOK, NEW c \in Clients, NEW e \in [of : Clients, chunk : Nat, full : BOOLEAN],
           out'[c] = Append(out[c], e)
    PROVE  Got'[c] = Append(Got[c], <<e.of, e.chunk>>)
<1> DEFINE S == [of : Clients, chunk : Nat, full : BOOLEAN]
           P == Clients \X Nat
           o == out[c]
           p == out'[c]
           g == Got[c]
           x == <<e.of, e.chunk>>
           a == Append(g, x)
<1>1. Got'[c] = [k \in 1 .. Len(p) |-> <<p[k].of, p[k].chunk>>]
  BY DEF Got
<1>2. \A k \in 1 .. Len(o) : g[k] = <<o[k].of, o[k].chunk>>
  BY DEF Got
<1>3. o \in Seq(S) /\ e \in S /\ p = Append(o, e)
  BY OutIs
<1>4. g \in Seq(P) /\ Len(g) = Len(o) /\ x \in P
  BY GotIs
<1> HIDE DEF S, P, o, p, g
<1>5. /\ Len(o) \in Nat /\ Len(p) = Len(o) + 1
      /\ p[Len(o) + 1] = e /\ \A k \in 1 .. Len(o) : p[k] = o[k]
  BY <1>3
<1> HIDE DEF x
<1>6. /\ a = [k \in 1 .. Len(p) |-> a[k]]
      /\ \A k \in 1 .. Len(o) : a[k] = g[k]
      /\ a[Len(o) + 1] = x
  <2>1. /\ a \in Seq(P) /\ Len(a) = Len(p)
        /\ \A k \in 1 .. Len(o) : a[k] = g[k]
        /\ a[Len(o) + 1] = x
    BY <1>4, <1>5, AppendIs
  <2> HIDE DEF a
  <2>2. a = [k \in 1 .. Len(a) |-> a[k]]
    BY <2>1
  <2> QED
    BY <2>1, <2>2
<1> HIDE DEF a
<1>7. \A k \in 1 .. Len(p) : <<p[k].of, p[k].chunk>> = a[k]
  <2> SUFFICES ASSUME NEW k \in 1 .. Len(p) PROVE <<p[k].of, p[k].chunk>> = a[k]
    OBVIOUS
  <2>1. CASE k \in 1 .. Len(o)
    BY <1>2, <1>5, <1>6, <2>1
  <2>2. CASE k = Len(o) + 1
    BY <1>5, <1>6, <2>2 DEF x
  <2>3. k \in 1 .. Len(o) \/ k = Len(o) + 1
    BY <1>5
  <2> QED
    BY <2>1, <2>2, <2>3
<1>8. Got'[c] = a
  BY <1>1, <1>6, <1>7
<1> QED
  BY <1>8 DEF a, g, x

\* What ClientSend, and the loss of the request that the server holds, change.
LEMMA SendIsAsk ==
    ASSUME IInv, NEW c \in Clients, ClientSend(c)
    PROVE  Service!Ask(c)
<1> USE MsgFileAssumption
<1>1. /\ TypeOK /\ AskedOnce /\ cpc[c] = "send" /\ cpc' = [cpc EXCEPT ![c] = "recv"]
      /\ requests' = Append(requests, c)
      /\ UNCHANGED <<req, responses, child, out>>
  BY DEF IInv, ClientSend, ClientGoes, serverVars, childVars
<1>2. ~Waiting(c) /\ child[c] = "none" /\ responses[c] = << >>
  BY <1>1 DEF IInv, Good, Idle
<1>3. Queued(c)' /\ \A d \in Clients \ {c} : Queued(d)' <=> Queued(d)
  BY <1>1, <1>2, Enqueued DEF Waiting
<1>4. cpc'[c] = "recv" /\ \A d \in Clients \ {c} : cpc'[d] = cpc[d]
  BY <1>1 DEF TypeOK
<1>5. \A d \in Clients \ {c} : Unmoved(d)
  BY <1>1, <1>3, <1>4 DEF Unmoved, Waiting
<1>6. ~Closed(c) /\ ~Closed(c)'
  BY <1>1, <1>2 DEF Closed, Closes
<1>7. Sent'[c] = Sent[c] /\ Verdict'[c] = Verdict[c] /\ Told'[c] = Told[c]
  BY <1>1, <1>4, <1>6, At DEF Outcome, Delivered
<1>8. Got'[c] = Got[c]
  BY <1>1 DEF Got
<1>9. Asked' = Asked \cup {c} /\ Owed' = Owed \cup {c}
  BY <1>3, <1>4, <1>5, OneMoves DEF Before, Waiting
<1>10. Sent' = Sent /\ Verdict' = Verdict /\ Told' = Told /\ Got' = Got
  BY <1>5, <1>7, <1>8, OneMoves
<1> QED
  BY <1>1, <1>9, <1>10, At DEF Service!Ask, Before

\* The server that loses the request it holds, if any.
LEMMA LossIsLose ==
    ASSUME IInv, req' = Nobody, NEW c \in Clients, req = c,
           UNCHANGED <<cpc, requests, responses, child, out>>
    PROVE  Service!Lose(c)
<1> USE MsgFileAssumption
<1>1. /\ ~Queued(c) /\ child[c] = "none" /\ responses[c] = << >> /\ out[c] = << >>
  BY DEF IInv, Good, OnePlace, Waiting
<1>2. \A d \in Clients : Queued(d)' <=> Queued(d)
  BY DEF Queued
<1>3. \A d \in Clients \ {c} : Unmoved(d)
  BY <1>2 DEF Unmoved, Waiting
<1>4. ~Waiting(c)' /\ Waiting(c) /\ ~Closed(c) /\ (Closed(c)' <=> Closed(c))
  BY <1>1, <1>2 DEF Waiting, Closed, Closes
<1>5. Sent[c] = 0 /\ c \in Owed
  <2>1. Len(out[c]) = 0 /\ Len(responses[c]) = 0
    BY <1>1
  <2>2. Delivered(c) = 0
    BY <2>1 DEF Delivered
  <2> QED
    BY <1>4, <2>2, At
<1>6. Owed' = Owed \ {c}
  BY <1>1, <1>3, <1>4, OneMoves
<1>7. Asked' = Asked /\ Told' = Told /\ Got' = Got
  BY DEF Asked, Told, Got
<1>8. \A d \in Clients : Closed(d)' <=> Closed(d)
  BY DEF Closed
<1>9. Sent' = Sent /\ Verdict' = Verdict
  BY <1>8 DEF Sent, Verdict, Delivered
<1> QED
  BY <1>5, <1>6, <1>7, <1>9 DEF Service!Lose

\* A child that sends message m, and what it leaves alone.
LEMMA AnswerIs ==
    ASSUME IInv, IInv', NEW c \in Clients, child[c] # "none", NEW m \in Response, Respond(c, m),
           UNCHANGED <<cpc, requests, req, out>>,
           \A d \in Clients \ {c} : child'[d] = child[d]
    PROVE  /\ \A d \in Clients \ {c} : Unmoved(d)
           /\ ~Closed(c) /\ (Closed(c)' <=> m.mtype # 1)
           /\ cpc[c] = "recv" /\ ~Waiting(c)' /\ c \in Owed
           /\ Sent[c] = Delivered(c) /\ Delivered(c) \in Nat
           /\ Sent'[c] = IF m.mtype = 1 THEN Sent[c] + 1 ELSE Sent[c]
           /\ m.mtype # 1 => Verdict'[c] = IF m = [mtype |-> 2] THEN "end" ELSE "error"
           /\ Asked' = Asked /\ Told' = Told /\ Got' = Got
<1>1. TypeOK /\ Good(c)
  BY DEF IInv
<1>2. c \in clientQ /\ cpc[c] = "recv" /\ ~Waiting(c) /\ ~Closed(c)
  BY <1>1 DEF Good, QueueOf, Idle, OnePlace, HasQueue
<1>3. /\ \A d \in Clients \ {c} : responses'[d] = responses[d]
      /\ responses'[c] = Append(responses[c], m)
  BY <1>1, <1>2, Responded
<1>4. \A d \in Clients : Waiting(d)' <=> Waiting(d)
  BY DEF Waiting, Queued
<1>5. responses[c] \in Seq(Response) /\ Len(responses[c]) \in Nat
  BY <1>1 DEF TypeOK
<1>6. /\ responses'[c] # << >> /\ Len(responses'[c]) = Len(responses[c]) + 1
      /\ responses'[c][Len(responses'[c])] = m
  BY <1>3, <1>5, AppendIs
<1>7. Closed(c)' <=> m.mtype # 1
  BY <1>6 DEF Closed, Closes
<1>8. \A d \in Clients \ {c} : Unmoved(d)
  BY <1>3, <1>4 DEF Unmoved
<1>9. Len(out[c]) \in Nat
  BY <1>1, OutIs
<1>10. /\ Sent[c] = Delivered(c) /\ Delivered(c) \in Nat
       /\ Sent'[c] = IF m.mtype = 1 THEN Sent[c] + 1 ELSE Sent[c]
  <2> DEFINE a == Len(out[c])
             b == Len(responses[c])
  <2>0. a \in Nat /\ b \in Nat /\ Len(out'[c]) = a /\ Len(responses'[c]) = b + 1
    BY <1>5, <1>6, <1>9
  <2>1. Delivered(c) = a + b /\ Delivered(c)' = a + (b + 1)
    BY <2>0 DEF Delivered
  <2> HIDE DEF a, b
  <2>2. Delivered(c) \in Nat /\ Delivered(c)' = Delivered(c) + 1 /\ Sent[c] = Delivered(c)
    BY <1>2, <2>0, <2>1, At
  <2>3. CASE m.mtype = 1
    BY <1>7, <2>2, <2>3, At
  <2>4. CASE m.mtype # 1
    BY <1>7, <2>2, <2>4, At
  <2> QED
    BY <2>2, <2>3, <2>4
<1>11. m.mtype # 1 => Verdict'[c] = IF m = [mtype |-> 2] THEN "end" ELSE "error"
  BY <1>6, <1>7 DEF Verdict, Closed
<1>12. Asked' = Asked /\ Told' = Told /\ Got' = Got
  BY DEF Asked, Told, Got
<1>13. c \in Owed /\ ~Waiting(c)'
  BY <1>2, <1>4, At
<1> QED
  BY <1>2, <1>7, <1>8, <1>10, <1>11, <1>12, <1>13

LEMMA ChunkIsSend ==
    ASSUME IInv, IInv', NEW c \in Clients, ChildSendChunk(c)
    PROVE  Service!Send(c)
<1> DEFINE m == [mtype |-> 1, of |-> c, chunk |-> pos[c]]
<1>1. /\ child[c] = "chunk" /\ child'[c] = "read"
      /\ \A d \in Clients \ {c} : child'[d] = child[d]
      /\ Respond(c, m)
      /\ UNCHANGED <<cpc, requests, req, out>>
  BY DEF IInv, TypeOK, ChildSendChunk, ChildGoes, serverVars, clientVars
<1>2. m \in Response /\ m.mtype = 1
  BY DEF IInv, TypeOK, Response
<1> HIDE DEF m
<1>3. /\ \A d \in Clients \ {c} : Unmoved(d)
      /\ ~Closed(c) /\ ~Closed(c)' /\ c \in Owed
      /\ Sent[c] = Delivered(c) /\ Sent'[c] = Sent[c] + 1
      /\ Asked' = Asked /\ Told' = Told /\ Got' = Got
  BY <1>1, <1>2, AnswerIs
<1>4. pos[c] = Delivered(c) + 1 /\ pos[c] <= FileLen[c]
  BY <1>1 DEF IInv, Good, Progress, TypeOK
<1>5. Delivered(c) \in Nat /\ FileLen[c] \in Nat
  BY <1>1, <1>2, AnswerIs, MsgFileAssumption
<1>6. Verdict'[c] = Verdict[c]
  BY <1>1, <1>3, At
<1>7. Verdict' = Verdict
  BY <1>3, <1>6, OneMoves
<1>8. Sent' = [Sent EXCEPT ![c] = @ + 1]
  BY <1>3, OneMoves
<1>9. Owed' = Owed
  <2>1. Owed' = Owed \cup {c}
    BY <1>1, <1>3, OneMoves
  <2> QED
    BY <1>3, <2>1
<1> QED
  BY <1>3, <1>4, <1>5, <1>7, <1>8, <1>9 DEF Service!Send

LEMMA EndIsClose ==
    ASSUME IInv, IInv', NEW c \in Clients, ChildSendEnd(c) \/ ChildSendError(c)
    PROVE  \E v \in {"end", "error"} : Service!Close(c, v)
<1> DEFINE m == [mtype |-> IF child[c] = "end" THEN 2 ELSE 3]
           v == IF child[c] = "end" THEN "end" ELSE "error"
<1>1. /\ child[c] \in {"end", "fail"} /\ child'[c] = "none"
      /\ \A d \in Clients \ {c} : child'[d] = child[d]
      /\ Respond(c, m)
      /\ UNCHANGED <<cpc, requests, req, out>>
  BY DEF IInv, TypeOK, ChildSendEnd, ChildSendError, ChildGoes, serverVars, clientVars
<1>2. m \in Response /\ m.mtype # 1 /\ (m = [mtype |-> 2] <=> child[c] = "end")
  BY <1>1 DEF Response
<1> HIDE DEF m
<1>3. /\ \A d \in Clients \ {c} : Unmoved(d)
      /\ ~Waiting(c)' /\ c \in Owed
      /\ Sent[c] = Delivered(c) /\ Sent'[c] = Sent[c]
      /\ Verdict'[c] = v
      /\ Asked' = Asked /\ Told' = Told /\ Got' = Got
  BY <1>1, <1>2, AnswerIs
<1>4. child[c] = "end" => FileLen[c] = Delivered(c)
  BY DEF IInv, Good, Progress
<1>5. child[c] = "fail" => c \in Unopenable \cup Unreadable
  BY DEF IInv, Good, Progress
<1>6. Sent' = Sent
  BY <1>3, OneMoves
<1>7. Verdict' = [Verdict EXCEPT ![c] = v]
  BY <1>3, OneMoves
<1>8. Owed' = Owed \ {c}
  BY <1>1, <1>3, OneMoves
<1>9. Service!Close(c, v)
  BY <1>1, <1>3, <1>4, <1>5, <1>6, <1>7, <1>8 DEF Service!Close
<1> QED
  BY <1>9

\* What a client finds at the head of its queue, and what it leaves alone.
LEMMA ReceiveIs ==
    ASSUME IInv, NEW c \in Clients, ClientReceive(c)
    PROVE  /\ \A d \in Clients \ {c} : Unmoved(d)
           /\ cpc[c] = "recv" /\ responses'[c] = Tail(responses[c])
           /\ responses[c] \in Seq(Response) /\ responses[c] # << >>
           /\ Head(responses[c]) \in Response
           /\ Continues(c, Len(out[c]), responses[c])
           /\ Waiting(c)' <=> Waiting(c)
           /\ child' = child /\ TypeOK
<1>1. /\ TypeOK /\ Good(c) /\ cpc[c] = "recv" /\ responses[c] # << >>
      /\ responses' = [responses EXCEPT ![c] = Tail(@)]
      /\ UNCHANGED <<requests, req, child>>
      /\ \A d \in Clients \ {c} : cpc'[d] = cpc[d] /\ out'[d] = out[d]
  BY DEF IInv, ClientReceive, ClientGoes, serverVars, childVars, TypeOK
<1>2. /\ \A d \in Clients \ {c} : responses'[d] = responses[d]
      /\ responses'[c] = Tail(responses[c]) /\ Head(responses[c]) \in Response
  BY <1>1, Received
<1>3. \A d \in Clients : Waiting(d)' <=> Waiting(d)
  BY <1>1 DEF Waiting, Queued
<1>4. \A d \in Clients \ {c} : Unmoved(d)
  BY <1>1, <1>2, <1>3 DEF Unmoved
<1>5. responses[c] \in Seq(Response)
  BY <1>1 DEF TypeOK
<1> QED
  BY <1>1, <1>2, <1>3, <1>4, <1>5 DEF Good, InOrder

LEMMA ChunkIsTake ==
    ASSUME IInv, NEW c \in Clients, ClientReceive(c), Head(responses[c]).mtype = 1
    PROVE  Service!Take(c)
<1> DEFINE r == responses[c]
           n == Len(out[c])
<1>1. /\ \A d \in Clients \ {c} : Unmoved(d)
      /\ responses'[c] = Tail(r) /\ r \in Seq(Response) /\ r # << >>
      /\ Head(r) \in Response /\ Continues(c, n, r)
      /\ Waiting(c)' <=> Waiting(c)
      /\ child' = child /\ TypeOK
  BY ReceiveIs
<1>2. n \in Nat
  BY <1>1, OutIs
<1> DEFINE e == [of |-> Head(r).of, chunk |-> Head(r).chunk,
                 full |-> <<Head(r).of, Head(r).chunk>> \notin NulChunks]
<1>3. cpc'[c] = cpc[c] /\ out'[c] = Append(out[c], e)
  <2>1. ClientGoes(c, "recv", "recv") /\ out' = [out EXCEPT ![c] = Append(@, e)]
    BY DEF ClientReceive
  <2> HIDE DEF e
  <2>2. cpc'[c] = cpc[c]
    BY <1>1, <2>1, ClientMoves
  <2>3. c \in DOMAIN out
    BY <1>1 DEF TypeOK
  <2> QED
    BY <2>1, <2>2, <2>3
<1>4. /\ Head(r).of = c /\ Head(r).chunk = n + 1
      /\ Closes(Tail(r)) <=> Closes(r)
      /\ Closes(r) => Tail(r)[Len(Tail(r))] = r[Len(r)]
  BY <1>1, <1>2, ContinuesTail
<1>5. e \in [of : Clients, chunk : Nat, full : BOOLEAN] /\ e.of = c /\ e.chunk = n + 1
  BY <1>2, <1>4
<1>6. /\ Len(r) \in Nat /\ Len(r) > 0 /\ Len(Tail(r)) = Len(r) - 1 /\ Tail(r) \in Seq(Response)
  BY <1>1, TailIs
<1> HIDE DEF e
<1>7. Len(out'[c]) = n + 1
  BY <1>1, <1>3, <1>5, OutIs
<1>8. Delivered(c)' = Delivered(c) /\ Delivered(c) = n + Len(r)
  <2>1. Delivered(c) = n + Len(r) /\ Delivered(c)' = (n + 1) + (Len(r) - 1)
    BY <1>1, <1>6, <1>7 DEF Delivered
  <2> HIDE DEF n, r
  <2> QED
    BY <1>2, <1>6, <2>1
<1>9. Closed(c)' <=> Closed(c)
  BY <1>1, <1>4 DEF Closed
<1>10. Sent'[c] = Sent[c]
  BY <1>8, <1>9, At
<1>11. n < Sent[c]
  <2>1. CASE Closed(c)
    <3>1. Len(Tail(r)) # 0
      BY <1>4, <1>6, <2>1, EmptyIs DEF Closed, Closes
    <3>2. Sent[c] = Delivered(c) - 1
      BY <2>1, At
    <3> HIDE DEF r, n
    <3> QED
      BY <1>2, <1>6, <1>8, <3>1, <3>2
  <2>2. CASE ~Closed(c)
    <3>1. Sent[c] = Delivered(c)
      BY <2>2, At
    <3> HIDE DEF r, n
    <3> QED
      BY <1>2, <1>6, <1>8, <3>1
  <2> QED
    BY <2>1, <2>2
<1>12. Verdict'[c] = Verdict[c]
  BY <1>1, <1>3, <1>4, <1>9 DEF Verdict, Closed
<1>13. Told'[c] = Told[c]
  BY <1>3, At
<1>14. Got'[c] = Append(Got[c], <<c, Len(Got[c]) + 1>>) /\ Len(Got[c]) = n
  BY <1>1, <1>3, <1>5, GotGrows, GotIs
<1>15. Got' = [Got EXCEPT ![c] = Append(@, <<c, Len(@) + 1>>)]
  <2>1. Got' = [Got EXCEPT ![c] = Got'[c]]
    BY <1>1, OneMoves
  <2> QED
    BY <1>14, <2>1
<1>16. Asked' = Asked /\ Owed' = Owed
  <2>1. \A d \in Clients \ {c} : /\ cpc'[d] \in Before <=> cpc[d] \in Before
                                 /\ Waiting(d)' <=> Waiting(d)
    BY <1>1 DEF Unmoved
  <2> QED
    BY <1>1, <1>3, <2>1 DEF Asked, Owed
<1>17. Sent' = Sent /\ Verdict' = Verdict /\ Told' = Told
  BY <1>1, <1>10, <1>12, <1>13, OneMoves
<1> QED
  BY <1>11, <1>14, <1>15, <1>16, <1>17 DEF Service!Take

LEMMA EndIsHear ==
    ASSUME IInv, NEW c \in Clients, ClientReceive(c), Head(responses[c]).mtype # 1
    PROVE  Service!Hear(c)
<1> DEFINE r == responses[c]
           n == Len(out[c])
           v == IF Head(r) = [mtype |-> 2] THEN "end" ELSE "error"
<1>1. /\ \A d \in Clients \ {c} : Unmoved(d)
      /\ cpc[c] = "recv" /\ responses'[c] = Tail(r) /\ r \in Seq(Response) /\ r # << >>
      /\ Head(r) \in Response /\ Continues(c, n, r)
      /\ Waiting(c)' <=> Waiting(c)
      /\ child' = child /\ TypeOK
  BY ReceiveIs
<1>2. n \in Nat
  BY <1>1, OutIs
<1>3. Closes(r) /\ Len(r) = 1 /\ Tail(r) = << >> /\ r[Len(r)] = Head(r)
  <2>1. Closes(r) /\ Len(r) = 1 /\ Tail(r) = << >>
    BY <1>1, <1>2, ContinuesTail
  <2>2. Head(r) = r[1]
    BY <1>1, TailIs
  <2> QED
    BY <2>1, <2>2
<1>4. Head(r).mtype \in {2, 3} /\ (Head(r).mtype = 2 <=> Head(r) = [mtype |-> 2])
  BY <1>1 DEF Response
<1>5. /\ out' = out
      /\ Head(r).mtype = 2 => cpc'[c] = "rm_eof"
      /\ Head(r).mtype = 3 => cpc'[c] = "rm_error"
  BY <1>1, <1>4 DEF ClientReceive, ClientGoes, TypeOK
<1>6. Outcome(cpc'[c]) = v /\ Outcome(cpc[c]) = "none" /\ cpc'[c] \notin Before /\ v # "none"
  BY <1>1, <1>4, <1>5 DEF Outcome, Before
<1>7. Closed(c) /\ ~Closed(c)'
  BY <1>1, <1>3 DEF Closed, Closes
<1>8. Verdict[c] = v /\ Verdict'[c] = v
  <2>1. Verdict[c] = v
    BY <1>3, <1>7 DEF Verdict, Closed
  <2> QED
    BY <1>6, <1>7, <2>1, At
<1>9. Sent[c] = n /\ Sent'[c] = n
  <2>1. Len(responses'[c]) = 0
    BY <1>1, <1>3
  <2>2. Delivered(c) = n + 1 /\ Delivered(c)' = n
    BY <1>2, <1>3, <1>5, <2>1 DEF Delivered
  <2> HIDE DEF n
  <2> QED
    BY <1>2, <1>7, <2>2, At
<1>10. Told[c] = "none" /\ Told'[c] = v
  BY <1>6, At
<1>11. Got' = Got /\ Len(Got[c]) = n
  BY <1>1, <1>5, GotIs DEF Got
<1>12. Asked' = Asked /\ Owed' = Owed
  <2>1. \A d \in Clients \ {c} : /\ cpc'[d] \in Before <=> cpc[d] \in Before
                                 /\ Waiting(d)' <=> Waiting(d)
    BY <1>1 DEF Unmoved
  <2>2. cpc[c] \notin Before
    BY <1>1 DEF Before
  <2> QED
    BY <1>1, <1>6, <2>1, <2>2 DEF Asked, Owed
<1> HIDE DEF v, n
<1>13. Sent' = Sent /\ Verdict' = Verdict
  BY <1>1, <1>8, <1>9, OneMoves
<1>14. Told' = [Told EXCEPT ![c] = Verdict[c]]
  <2>1. Told' = [Told EXCEPT ![c] = Told'[c]]
    BY <1>1, OneMoves
  <2> QED
    BY <1>8, <1>10, <2>1
<1> QED
  BY <1>6, <1>8, <1>9, <1>10, <1>11, <1>12, <1>13, <1>14 DEF Service!Hear

\* The child that is killed, with what it has sent so far.
LEMMA KillIsBreak ==
    ASSUME IInv, NEW c \in Victims, KillChild(c)
    PROVE  Service!Break(c)
<1> USE MsgFileAssumption
<1>1. /\ c \in Clients /\ child[c] # "none" /\ child'[c] = "none" /\ ~Waiting(c)
      /\ \A d \in Clients \ {c} : child'[d] = child[d]
      /\ UNCHANGED <<cpc, requests, req, responses, out>>
  BY DEF KillChild, IInv, TypeOK, Good, OnePlace, serverVars, clientVars
<1>2. \A d \in Clients : (Queued(d)' <=> Queued(d)) /\ (Closed(d)' <=> Closed(d))
  BY <1>1 DEF Queued, Closed
<1>3. \A d \in Clients \ {c} : Unmoved(d)
  BY <1>1, <1>2 DEF Unmoved, Waiting
<1>4. c \in Owed /\ ~Waiting(c)'
  BY <1>1, <1>2, At DEF Waiting
<1>5. Owed' = Owed \ {c}
  BY <1>1, <1>3, <1>4, OneMoves
<1>6. Asked' = Asked /\ Told' = Told /\ Got' = Got
  BY <1>1 DEF Asked, Told, Got
<1>7. Sent' = Sent /\ Verdict' = Verdict
  BY <1>1, <1>2 DEF Sent, Verdict, Delivered
<1> QED
  BY <1>4, <1>5, <1>6, <1>7 DEF Service!Break

LEMMA ServiceStep == IInv /\ IInv' /\ [Next]_vars => [Service!Next]_(Service!serviceVars)
<1> SUFFICES ASSUME IInv, IInv', [Next]_vars
             PROVE  Service!Next \/ UNCHANGED Service!serviceVars
  OBVIOUS
<1> USE MsgFileAssumption
<1>0. TypeOK /\ ServerHolds /\ AskedOnce /\ \A d \in Clients : Good(d)
  BY DEF IInv
<1>1. ASSUME UNCHANGED <<cpc, requests, req, responses, child, out>>
      PROVE  UNCHANGED Service!serviceVars
  <2>1. \A d \in Clients : Unmoved(d)
    BY <1>1 DEF Unmoved, Waiting, Queued
  <2> QED
    BY <2>1, NobodyMoves
<1>2. ASSUME ServerStart PROVE UNCHANGED Service!serviceVars
  BY <1>1, <1>2 DEF ServerStart, clientVars, childVars
<1>3. ASSUME ServerReceive PROVE UNCHANGED Service!serviceVars
  <2>1. /\ requests # << >> /\ req' = Head(requests) /\ requests' = Tail(requests)
        /\ req = Nobody
        /\ UNCHANGED <<cpc, responses, child, out>>
    BY <1>0, <1>3 DEF ServerReceive, ServerGoes, ServerHolds, clientVars, childVars
  <2>2. PICK c \in Clients : c = Head(requests)
    BY <1>0, <2>1 DEF TypeOK
  <2>3. \A d \in Clients : Waiting(d)' <=> Waiting(d)
    <3>1. Queued(c) /\ ~Queued(c)' /\ \A d \in Clients \ {c} : Queued(d)' <=> Queued(d)
      BY <1>0, <2>1, <2>2, Dequeued
    <3> QED
      BY <2>1, <2>2, <3>1 DEF Waiting
  <2>4. \A d \in Clients : Unmoved(d)
    BY <2>1, <2>3 DEF Unmoved
  <2> QED
    BY <2>4, NobodyMoves
<1>4. ASSUME ServerFork PROVE UNCHANGED Service!serviceVars
  <2>1. /\ child' = [child EXCEPT ![req] = "open"] /\ req' = Nobody
        /\ UNCHANGED <<cpc, requests, responses, out>>
    BY <1>4 DEF ServerFork, clientVars
  <2>2. ASSUME NEW d \in Clients, req # d PROVE Unmoved(d)
    BY <1>0, <2>1, <2>2 DEF Unmoved, Waiting, Queued, TypeOK
  <2>3. CASE req \notin Clients
    BY <2>2, <2>3, NobodyMoves
  <2>4. ASSUME NEW c \in Clients, req = c PROVE UNCHANGED Service!serviceVars
    <3>1. child[c] = "none" /\ ~Queued(c) /\ child'[c] = "open"
      BY <1>0, <2>1, <2>4 DEF Good, OnePlace, Waiting, TypeOK
    <3>2. Asked' = Asked
      BY <2>1 DEF Asked
    <3>3. Owed' = Owed
      <4>1. c \in Owed /\ Waiting(c)
        BY <2>4, At DEF Waiting
      <4>2. Owed' = Owed \cup {c}
        BY <2>2, <2>4, <3>1, OneMoves
      <4> QED
        BY <4>1, <4>2
    <3>4. \A d \in Clients : Closed(d)' <=> Closed(d)
      BY <2>1 DEF Closed
    <3>5. Sent' = Sent /\ Verdict' = Verdict
      BY <2>1, <3>4 DEF Sent, Verdict, Delivered
    <3>6. Got' = Got /\ Told' = Told
      BY <2>1 DEF Got, Told
    <3> QED
      BY <3>2, <3>3, <3>5, <3>6 DEF Service!serviceVars
  <2> QED
    BY <2>3, <2>4
<1>5. ASSUME ServerForkFails \/ ServerRestart
      PROVE  Service!Next \/ UNCHANGED Service!serviceVars
  <2>1. req' = Nobody /\ UNCHANGED <<cpc, requests, responses, child, out>>
    BY <1>5 DEF ServerForkFails, ServerRestart, clientVars, childVars
  <2>2. CASE req = Nobody
    BY <1>1, <2>1, <2>2
  <2>3. ASSUME NEW c \in Clients, req = c PROVE Service!Next
    <3>1. Service!Lose(c)
      BY <2>1, <2>3, LossIsLose
    <3> QED
      BY <3>1 DEF Service!Next
  <2> QED
    BY <1>0, <2>2, <2>3 DEF TypeOK
<1>6. ASSUME NEW c \in Clients, ChildOpen(c) \/ ChildRead(c) \/ ChildReadFails(c)
      PROVE  UNCHANGED Service!serviceVars
  <2>1. /\ child[c] # "none" /\ child'[c] # "none"
        /\ \A d \in Clients \ {c} : child'[d] = child[d]
        /\ UNCHANGED <<cpc, requests, req, responses, out>>
    BY <1>0, <1>6 DEF ChildOpen, ChildRead, ChildReadFails, ChildGoes, TypeOK, serverVars, clientVars
  <2>2. \A d \in Clients : Unmoved(d)
    BY <2>1 DEF Unmoved, Waiting, Queued
  <2> QED
    BY <2>2, NobodyMoves
<1>7. ASSUME NEW c \in Clients, ChildSendChunk(c) PROVE Service!Next
  BY <1>7, ChunkIsSend DEF Service!Next
<1>8. ASSUME NEW c \in Clients, ChildSendEnd(c) \/ ChildSendError(c) PROVE Service!Next
  BY <1>8, EndIsClose DEF Service!Next
<1>9. ASSUME NEW c \in Clients, ClientStart(c) \/ ClientLookup(c) \/ ClientCleanup(c)
      PROVE  UNCHANGED Service!serviceVars
  <2>1. /\ cpc[c] \in {"start", "lookup", "rm_eof", "rm_error"}
        /\ cpc[c] \in {"start", "lookup"} => cpc'[c] \in {"lookup", "send", "failed"}
        /\ cpc[c] = "rm_eof" => cpc'[c] = "eof"
        /\ cpc[c] = "rm_error" => cpc'[c] = "error"
        /\ \A d \in Clients \ {c} : cpc'[d] = cpc[d]
        /\ UNCHANGED <<requests, req, child, out>>
    BY <1>0, <1>9 DEF ClientStart, ClientLookup, ClientCleanup, ClientGoes, TypeOK,
         serverVars, childVars
  <2>2. responses[c] = << >>
    BY <1>0, <2>1 DEF Good, Idle
  <2>3. responses' = responses
    BY <1>0, <1>9, <2>2 DEF ClientStart, ClientLookup, ClientCleanup, TypeOK
  <2>4. Unmoved(c)
    BY <2>1, <2>3 DEF Unmoved, Before, Outcome, Waiting, Queued
  <2>5. \A d \in Clients \ {c} : Unmoved(d)
    BY <2>1, <2>3 DEF Unmoved, Waiting, Queued
  <2> QED
    BY <2>4, <2>5, NobodyMoves
<1>10. ASSUME NEW c \in Clients, ClientSend(c) PROVE Service!Next
  BY <1>10, SendIsAsk DEF Service!Next
<1>11. ASSUME NEW c \in Clients, ClientReceive(c) PROVE Service!Next
  BY <1>11, ChunkIsTake, EndIsHear DEF Service!Next
<1>12. ASSUME NEW p, Die(p) PROVE UNCHANGED Service!serviceVars
  BY <1>1, <1>12 DEF Die, serverVars, clientVars, childVars
<1>13. ASSUME NEW c \in Victims, KillChild(c) PROVE Service!Next
  BY <1>13, KillIsBreak DEF Service!Next
<1>14. CASE UNCHANGED vars
  BY <1>1, <1>14 DEF vars
<1> QED
  BY <1>2, <1>3, <1>4, <1>5, <1>6, <1>7, <1>8, <1>9, <1>10, <1>11, <1>12, <1>13, <1>14
     DEF Next, ServerStep, ChildStep, ClientStep

\* The server, its children and the clients implement the service: msgsnd to the
\* server asks, msgsnd to a client sends or closes, msgrcv takes or hears, a fork that
\* fails or a server started again loses the request the server held, and the kill of
\* a child breaks its answer off.
THEOREM MsgFileRefines == Spec => ServiceSpec
<1>1. Init => Service!Init
  <2> SUFFICES ASSUME Init PROVE Service!Init
    OBVIOUS
  <2> USE MsgFileAssumption
  <2>1. \A c \in Clients : ~Waiting(c) /\ ~Closed(c) /\ Delivered(c) = 0
    BY DEF Init, Waiting, Queued, Closed, Closes, Delivered
  <2>2. Asked = {} /\ Owed = {}
    BY <2>1 DEF Init, Asked, Owed, Before
  <2>3. Sent = [c \in Clients |-> 0] /\ Verdict = [c \in Clients |-> "none"]
    BY <2>1 DEF Init, Sent, Verdict, Outcome
  <2>4. Told = [c \in Clients |-> "none"]
    BY DEF Init, Told, Outcome
  <2>5. Got = [c \in Clients |-> << >>]
    <3>1. \A c \in Clients : Len(out[c]) = 0
      BY DEF Init
    <3> QED
      BY <3>1 DEF Got
  <2> QED
    BY <2>2, <2>3, <2>4, <2>5 DEF Service!Init
<1> QED
  BY <1>1, Invariance, ServiceStep, PTL DEF Spec, ServiceSpec, Service!Spec
=============================================================================
