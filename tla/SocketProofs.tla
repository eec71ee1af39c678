------------------------------ MODULE SocketProofs ------------------------------
(***************************************************************************)
(* Theorems on the echo servers: Datagram (lab 7 task 3 and lab 8 over     *)
(* UDP) and EchoServer (lab 7 tasks 1, 2 and 4, lab 8 over TCP), for any   *)
(* number of clients and any texts.                                        *)
(***************************************************************************)
EXTENDS EchoServer, Datagram, TLAPS

LEMMA AppendIs ==
  ASSUME NEW S, NEW s \in Seq(S), NEW e \in S
  PROVE  /\ Append(s, e) \in Seq(S)
         /\ Len(s) \in Nat /\ Len(Append(s, e)) = Len(s) + 1
         /\ \A i \in 1 .. Len(s) : Append(s, e)[i] = s[i]
         /\ Append(s, e)[Len(s) + 1] = e
OBVIOUS

LEMMA TailIs ==
  ASSUME NEW S, NEW s \in Seq(S), s # << >>
  PROVE  /\ Tail(s) \in Seq(S) /\ Head(s) \in S /\ Head(s) = s[1]
         /\ Len(s) \in Nat \ {0} /\ Len(Tail(s)) = Len(s) - 1
         /\ \A i \in 1 .. Len(s) - 1 : Tail(s)[i] = s[i + 1]
OBVIOUS

LEMMA ConcatIs ==
  ASSUME NEW S, NEW s \in Seq(S), NEW t \in Seq(S)
  PROVE  /\ s \o t \in Seq(S)
         /\ Len(s) \in Nat /\ Len(t) \in Nat /\ Len(s \o t) = Len(s) + Len(t)
         /\ \A i \in 1 .. Len(s) : (s \o t)[i] = s[i]
         /\ \A i \in 1 .. Len(t) : (s \o t)[Len(s) + i] = t[i]
OBVIOUS

LEMMA EmptyIs ==
  ASSUME NEW S
  PROVE  << >> \in Seq(S)
OBVIOUS

\* What the elements of a sequence have in common stays so as it grows.
LEMMA SubsetSeq ==
  ASSUME NEW S, NEW s \in Seq(S), NEW T, \A i \in 1 .. Len(s) : s[i] \in T
  PROVE  s \in Seq(T)
OBVIOUS

LEMMA NoMembers ==
  ASSUME NEW S, NEW s \in Seq(S), ToSet(s) = {}
  PROVE  s = << >>
<1>1. Len(s) \in Nat /\ (Len(s) # 0 => s[1] \in ToSet(s))
  BY DEF ToSet
<1>2. Len(s) = 0
  BY <1>1
<1> QED
  BY <1>2

-----------------------------------------------------------------------------
(* Datagram: the inductive invariant.                                      *)

Busy(c) == asker[c] \in {"bind", "send", "recv"}

DgTypes ==
    /\ proto \in Protocols
    /\ server \in {"new", "bind", "up"}
    /\ inq \in Seq(Askers) /\ cur \in Askers \cup {None}
    /\ net \in SUBSET [answer : BOOLEAN, client : Askers, text : Words]
    /\ (Path => net = {}) /\ (~Path => path = None)
    /\ path \in Askers \cup {None}
    /\ asker \in [Askers -> {"new", "bind", "send", "recv", "done", "failed", "killed"}]
    /\ rq \in [Askers -> Seq(Words)]
    /\ printed \in [Askers -> Words \cup {NoText}]
    /\ alone \in [Askers -> BOOLEAN]

\* Only the clients over AF_UNIX bind; the answers on their way are the right ones.
Networked ==
    /\ ~Path => \A c \in Askers : asker[c] # "bind"
    /\ \A m \in net : m.answer => m.text = Answer(m.client)

\* A client prints once; one that is alone at work over AF_UNIX has the server to
\* itself, and what is in its socket is the answer to its question.
Mine(c) ==
    /\ printed[c] # NoText <=> asker[c] = "done"
    /\ asker[c] \in {"new", "bind"} => rq[c] = << >>
    /\ Path /\ alone[c] /\ Busy(c) =>
         \A e \in Askers \ {c} : ~Busy(e) /\ e # cur /\ inq \in Seq(Askers \ {e})
    /\ alone[c] /\ Open(c) => rq[c] \in Seq({Answer(c)})
    /\ alone[c] /\ asker[c] = "done" => printed[c] = Answer(c)

DgInv == DgTypes /\ Networked /\ \A c \in Askers : Mine(c)

LEMMA AnswerIs ==
  /\ \A q \in Askers : Answer(q) \in Words
  /\ NoText \notin Words
BY DatagramAssumption DEF Answer, Text, Words, NoText, None

\* The server and its queue take their steps: nobody is asked for more.
LEMMA ClientsKeep ==
  ASSUME DgInv, NEW c \in Askers, UNCHANGED <<proto, asker, alone, printed>>,
         rq'[c] = rq[c],
         \A e \in Askers : e # cur /\ inq \in Seq(Askers \ {e}) => e # cur' /\ inq' \in Seq(Askers \ {e})
  PROVE  Mine(c)'
BY DEF DgInv, Mine, Busy, Open, Answer, Path, Text

LEMMA DgInitInv == DgInit => DgInv
<1> SUFFICES ASSUME DgInit PROVE DgInv
  OBVIOUS
<1> USE DEF DgInit
<1>1. DgTypes
  <2>1. << >> \in Seq(Askers) /\ << >> \in Seq(Words)
    OBVIOUS
  <2>2. inq \in Seq(Askers) /\ rq \in [Askers -> Seq(Words)]
    BY <2>1
  <2>3. alone \in [Askers -> BOOLEAN]
    OBVIOUS
  <2>4. printed \in [Askers -> Words \cup {NoText}]
    OBVIOUS
  <2> QED
    BY <2>2, <2>3, <2>4 DEF DgTypes, Path
<1>2. Networked
  BY DEF Networked
<1>3. ASSUME NEW c \in Askers PROVE Mine(c)
  BY DEF Mine, Busy, Open
<1> QED
  BY <1>1, <1>2, <1>3 DEF DgInv

LEMMA ServeStep == ASSUME DgInv, Serve PROVE DgInv'
<1>1. DgTypes'
  BY DEF DgInv, Serve, DgTypes, Path, historyVars
<1>2. Networked'
  BY DEF DgInv, Serve, Networked, Path, Answer
<1>3. ASSUME NEW c \in Askers PROVE Mine(c)'
  BY ClientsKeep DEF Serve, historyVars
<1> QED
  BY <1>1, <1>2, <1>3 DEF DgInv

LEMMA RecvfromStep == ASSUME DgInv, Recvfrom PROVE DgInv'
<1>1. inq \in Seq(Askers) /\ inq # << >>
  BY DEF DgInv, DgTypes, Recvfrom
<1>2. Head(inq) \in Askers /\ Tail(inq) \in Seq(Askers)
  BY <1>1, TailIs
<1>3. DgTypes'
  BY <1>2 DEF DgInv, Recvfrom, DgTypes, Path, historyVars
<1>4. Networked'
  BY DEF DgInv, Recvfrom, Networked, Path, Answer
<1>5. ASSUME NEW e \in Askers, inq \in Seq(Askers \ {e}) PROVE Head(inq) # e /\ Tail(inq) \in Seq(Askers \ {e})
  BY <1>1, <1>5, TailIs
<1>6. None \notin Askers
  BY DatagramAssumption DEF None
<1>7. \A e \in Askers : e # cur /\ inq \in Seq(Askers \ {e}) => e # cur' /\ inq' \in Seq(Askers \ {e})
  BY <1>5, <1>6 DEF Recvfrom
<1>8. ASSUME NEW c \in Askers PROVE Mine(c)'
  BY <1>7, ClientsKeep DEF Recvfrom, historyVars
<1> QED
  BY <1>3, <1>4, <1>8 DEF DgInv

LEMMA SendtoStep == ASSUME DgInv, Sendto PROVE DgInv'
<1> DEFINE a == Answer(cur)
<1>1. cur \in Askers /\ a \in Words
  BY AnswerIs DEF DgInv, DgTypes, Sendto
<1>2. None \notin Askers
  BY DatagramAssumption DEF None
<1>3. /\ UNCHANGED <<proto, inq, asker, alone, printed, path, server>> /\ cur' = None
      /\ rq' = IF Path /\ path # None /\ Open(path) THEN [rq EXCEPT ![path] = Append(@, a)] ELSE rq
      /\ net' = IF Path THEN net ELSE net \cup {[answer |-> TRUE, client |-> cur, text |-> a]}
  BY DEF Sendto, historyVars
<1>4. \A c \in Askers : Answer(c)' = Answer(c)
  BY <1>3 DEF Answer, Path, Text
<1> HIDE DEF a
<1>5. rq' \in [Askers -> Seq(Words)]
  <2>1. CASE Path /\ path # None /\ Open(path)
    <3>1. path \in Askers /\ rq \in [Askers -> Seq(Words)]
      BY <2>1 DEF DgInv, DgTypes
    <3>2. Append(rq[path], a) \in Seq(Words)
      BY <3>1, <1>1, AppendIs
    <3> QED
      BY <3>1, <3>2, <2>1, <1>3
  <2> QED
    BY <2>1, <1>3 DEF DgInv, DgTypes
<1>6. net' \in SUBSET [answer : BOOLEAN, client : Askers, text : Words] /\ (Path => net' = {})
  <2> DEFINE m == [answer |-> TRUE, client |-> cur, text |-> a]
             Datagrams == [answer : BOOLEAN, client : Askers, text : Words]
  <2>1. m \in Datagrams
    BY <1>1
  <2>2. net \in SUBSET Datagrams /\ (Path => net = {})
    BY DEF DgInv, DgTypes
  <2>3. net' = IF Path THEN net ELSE net \cup {m}
    BY <1>3
  <2> HIDE DEF m, Datagrams
  <2>4. net' \in SUBSET Datagrams /\ (Path => net' = {})
    BY <2>1, <2>2, <2>3
  <2> QED
    BY <2>4 DEF Datagrams
<1>7. DgTypes'
  BY <1>3, <1>5, <1>6 DEF DgInv, DgTypes, Path
<1>8. Networked'
  <2>1. ASSUME NEW m \in net', m.answer PROVE m.text = Answer(m.client)'
    <3>1. CASE m \in net
      <4>1. m.text = Answer(m.client)
        BY <2>1, <3>1 DEF DgInv, Networked
      <4>2. Answer(m.client)' = Answer(m.client)
        BY <1>3 DEF Answer, Path, Text
      <4> QED
        BY <4>1, <4>2
    <3>2. CASE m = [answer |-> TRUE, client |-> cur, text |-> a]
      <4>1. m.text = Answer(cur) /\ m.client = cur
        BY <3>2 DEF a
      <4> QED
        BY <4>1, <1>1, <1>3 DEF Answer, Path, Text
    <3> QED
      BY <2>1, <3>1, <3>2, <1>3
  <2>2. ~Path' => \A c \in Askers : asker'[c] # "bind"
    BY <1>3 DEF DgInv, Networked, Path
  <2> QED
    BY <2>1, <2>2 DEF Networked
<1>9. ASSUME NEW c \in Askers PROVE Mine(c)'
  <2>1. CASE rq'[c] = rq[c]
    BY <2>1, <1>2, <1>3, ClientsKeep
  <2>2. CASE Path /\ path = c /\ Open(c) /\ rq' = [rq EXCEPT ![c] = Append(@, a)]
    <3>1. alone[c] => \A e \in Askers \ {c} : e # cur
      BY <2>2 DEF DgInv, Mine, Busy, Open
    <3>2. alone[c] => a = Answer(c)
      BY <3>1, <1>1 DEF a
    <3>3. rq'[c] = Append(rq[c], a)
      BY <2>2 DEF DgInv, DgTypes
    <3>4. alone[c] => rq'[c] \in Seq({Answer(c)})
      <4>1. SUFFICES ASSUME alone[c] PROVE rq'[c] \in Seq({Answer(c)})
        OBVIOUS
      <4>2. rq[c] \in Seq({Answer(c)}) /\ a \in {Answer(c)}
        BY <4>1, <3>2, <2>2 DEF DgInv, Mine
      <4> QED
        BY <4>2, <3>3, AppendIs
    <3>5. asker[c] \in {"send", "recv"}
      BY <2>2 DEF Open
    <3>6. /\ printed[c] = NoText
          /\ Path /\ alone[c] /\ Busy(c) =>
               \A e \in Askers \ {c} : ~Busy(e) /\ e # cur /\ inq \in Seq(Askers \ {e})
      BY <3>5 DEF DgInv, Mine
    <3> QED
      BY <3>4, <3>5, <3>6, <1>2, <1>3, <1>4 DEF Mine, Busy, Open, Path
  <2> QED
    BY <2>1, <2>2, <1>3 DEF DgInv, DgTypes
<1> QED
  BY <1>7, <1>8, <1>9 DEF DgInv

LEMMA DeliverStep == ASSUME DgInv, NEW m \in net, Deliver(m) PROVE DgInv'
<1> DEFINE c == m.client
<1>1. PICK n \in 0 .. 2 :
        /\ net' = net \ {m}
        /\ IF m.answer
             THEN UNCHANGED inq /\ rq' = IF Open(c) THEN [rq EXCEPT ![c] = @ \o [k \in 1 .. n |-> m.text]] ELSE rq
             ELSE UNCHANGED rq /\ inq' = IF server = "up" THEN inq \o [k \in 1 .. n |-> c] ELSE inq
  BY DEF Deliver
<1>2. UNCHANGED <<proto, server, cur, path, asker, printed, alone>>
  BY DEF Deliver
<1>3. c \in Askers /\ m.text \in Words /\ ~Path /\ (m.answer => m.text = Answer(c))
  BY DEF DgInv, DgTypes, Networked
<1> HIDE DEF c
<1> DEFINE Q == [k \in 1 .. n |-> c]
           R == [k \in 1 .. n |-> m.text]
<1>4. Q \in Seq(Askers) /\ R \in Seq(Words) /\ R \in Seq({m.text})
  BY <1>3
<1> HIDE DEF Q, R
<1>5. inq' \in Seq(Askers)
  <2>1. inq \o Q \in Seq(Askers)
    BY <1>4, ConcatIs DEF DgInv, DgTypes
  <2> QED
    BY <2>1, <1>1 DEF DgInv, DgTypes, Q
<1>6. rq' = IF m.answer /\ Open(c) THEN [rq EXCEPT ![c] = @ \o R] ELSE rq
  BY <1>1 DEF R
<1>7. rq' \in [Askers -> Seq(Words)]
  <2>1. rq \in [Askers -> Seq(Words)]
    BY DEF DgInv, DgTypes
  <2>2. rq[c] \o R \in Seq(Words)
    BY <2>1, <1>3, <1>4, ConcatIs
  <2> QED
    BY <2>1, <2>2, <1>6
<1>8. DgTypes'
  BY <1>1, <1>2, <1>3, <1>5, <1>7 DEF DgInv, DgTypes, Path
<1>9. Networked'
  BY <1>1, <1>2 DEF DgInv, Networked, Path, Answer, Text
<1>10. ASSUME NEW d \in Askers PROVE Mine(d)'
  <2>1. /\ printed[d] # NoText <=> asker[d] = "done"
        /\ asker[d] \in {"new", "bind"} => rq[d] = << >>
        /\ alone[d] /\ Open(d) => rq[d] \in Seq({Answer(d)})
        /\ alone[d] /\ asker[d] = "done" => printed[d] = Answer(d)
    BY DEF DgInv, Mine
  <2>2. Answer(d)' = Answer(d) /\ Open(d)' = Open(d) /\ ~Path'
    BY <1>2, <1>3 DEF Answer, Path, Text, Open
  <2>3. CASE rq'[d] = rq[d]
    BY <2>1, <2>2, <2>3, <1>2 DEF Mine
  <2>4. CASE d = c /\ m.answer /\ Open(c) /\ rq' = [rq EXCEPT ![c] = @ \o R]
    <3>1. rq'[d] = rq[d] \o R /\ m.text = Answer(d) /\ R \in Seq({Answer(d)})
      BY <2>4, <1>3, <1>4 DEF DgInv, DgTypes
    <3>2. alone[d] => rq'[d] \in Seq({Answer(d)})
      BY <2>1, <2>4, <3>1, ConcatIs
    <3> QED
      BY <2>1, <2>2, <2>4, <3>2, <1>2 DEF Mine, Open
  <2> QED
    BY <2>3, <2>4, <1>6 DEF DgInv, DgTypes
<1> QED
  BY <1>8, <1>9, <1>10 DEF DgInv

LEMMA UnlinkStep == ASSUME DgInv, NEW c \in Askers, UnlinkPath(c) PROVE DgInv'
<1> DEFINE Quiet(d) == \A e \in Askers \ {d} :
                         e # c /\ asker[e] \notin {"bind", "send", "recv"} /\ e # cur /\ e \notin ToSet(inq)
<1>1. /\ UNCHANGED <<proto, server, inq, cur, net, rq, printed>> /\ asker[c] = "new"
      /\ IF Path
           THEN /\ path' = None /\ asker' = [asker EXCEPT ![c] = "bind"]
                /\ alone' = [d \in Askers |->
                               IF asker[d] \in {"done", "failed", "killed"} THEN alone[d] ELSE Quiet(d)]
           ELSE UNCHANGED <<path, alone>> /\ asker' = [asker EXCEPT ![c] = "send"]
  BY DEF UnlinkPath, Step
<1>2. \A d \in Askers : Answer(d)' = Answer(d)
  BY <1>1 DEF Answer, Path, Text
<1>3. \A d \in Askers : Path /\ Quiet(d) => d = c
  OBVIOUS
<1>4. Quiet(c) => \A e \in Askers \ {c} : ~Busy(e) /\ e # cur /\ inq \in Seq(Askers \ {e})
  <2>1. ASSUME NEW e \in Askers, e \notin ToSet(inq) PROVE inq \in Seq(Askers \ {e})
    <3>1. inq \in Seq(Askers) /\ \A i \in 1 .. Len(inq) : inq[i] \in Askers \ {e}
      BY <2>1 DEF DgInv, DgTypes, ToSet
    <3> QED
      BY <3>1, SubsetSeq
  <2> QED
    BY <2>1 DEF Busy
<1>5. alone' \in [Askers -> BOOLEAN]
  BY <1>1 DEF DgInv, DgTypes
<1> HIDE DEF Quiet
<1>6. asker' \in [Askers -> {"new", "bind", "send", "recv", "done", "failed", "killed"}]
  BY <1>1 DEF DgInv, DgTypes
<1>7. path' \in Askers \cup {None} /\ (~Path => path' = None)
  BY <1>1 DEF DgInv, DgTypes
<1>8. DgTypes'
  BY <1>1, <1>5, <1>6, <1>7 DEF DgInv, DgTypes, Path
<1>9. Networked'
  <2>1. \A m \in net : m.answer => m.text = Answer(m.client)
    BY DEF DgInv, Networked
  <2>2. ~Path => \A d \in Askers : asker'[d] # "bind"
    BY <1>1 DEF DgInv, DgTypes, Networked
  <2> QED
    BY <1>1, <2>1, <2>2 DEF Networked, Path, Answer, Text
<1>10. ASSUME NEW d \in Askers, d # c PROVE Mine(d)'
  <2>1. Mine(d) /\ asker'[d] = asker[d] /\ (Busy(d)' <=> Busy(d)) /\ (Open(d)' <=> Open(d))
    BY <1>1, <1>10 DEF DgInv, DgTypes, Busy, Open
  <2>2. CASE asker[d] \in {"done", "failed", "killed"} \/ ~Path
    <3>1. alone'[d] = alone[d]
      BY <1>1, <2>2
    <3>2. ~Path \/ ~Busy(d)
      BY <2>2 DEF Busy
    <3> QED
      BY <1>1, <1>2, <2>1, <3>1, <3>2 DEF Mine, Path
  <2>3. CASE asker[d] \notin {"done", "failed", "killed"} /\ Path
    <3>1. ~alone'[d]
      BY <1>1, <1>3, <1>10, <2>3
    <3> QED
      BY <1>1, <1>2, <2>1, <2>3, <3>1 DEF Mine, Path
  <2> QED
    BY <2>2, <2>3
<1>11. Mine(c)'
  <2>1. rq'[c] = << >> /\ printed'[c] = NoText
    BY <1>1 DEF DgInv, Mine
  <2>2. asker'[c] \in {"bind", "send"} /\ << >> \in Seq({Answer(c)})
    BY <1>1 DEF DgInv, DgTypes
  <2>3. ASSUME Path', alone'[c], NEW e \in Askers \ {c}
        PROVE  ~Busy(e)' /\ e # cur' /\ inq' \in Seq(Askers \ {e})
    <3>1. Quiet(c)
      BY <2>3, <1>1 DEF DgInv, DgTypes, Path
    <3> QED
      BY <3>1, <1>1, <1>4 DEF DgInv, DgTypes, Busy
  <2> QED
    BY <1>2, <2>1, <2>2, <2>3 DEF Mine
<1> QED
  BY <1>8, <1>9, <1>10, <1>11 DEF DgInv

\* A step of client c alone, which leaves the others where they are.
LEMMA OthersKeep ==
  ASSUME DgInv, NEW c \in Askers, NEW d \in Askers, d # c,
         UNCHANGED <<proto, cur, alone>>,
         asker'[d] = asker[d], rq'[d] = rq[d], printed'[d] = printed[d],
         Busy(c)' => Busy(c),
         \/ inq' = inq
         \/ Busy(c) /\ inq' \in Seq(Askers),
         \A e \in Askers \ {c} : asker'[e] = asker[e]
  PROVE  Mine(d)'
<1>1. /\ printed'[d] # NoText <=> asker'[d] = "done"
      /\ asker'[d] \in {"new", "bind"} => rq'[d] = << >>
      /\ alone'[d] /\ Open(d)' => rq'[d] \in Seq({Answer(d)'})
      /\ alone'[d] /\ asker'[d] = "done" => printed'[d] = Answer(d)'
  BY DEF DgInv, Mine, Open, Answer, Path, Text
<1>2. ASSUME Path', alone'[d], Busy(d)', NEW e \in Askers \ {d}
      PROVE  ~Busy(e)' /\ e # cur' /\ inq' \in Seq(Askers \ {e})
  <2>1. Path /\ alone[d] /\ Busy(d)
    BY <1>2 DEF Path, Busy
  <2>2. \A u \in Askers \ {d} : ~Busy(u) /\ u # cur /\ inq \in Seq(Askers \ {u})
    BY <2>1 DEF DgInv, Mine
  <2>3. ~Busy(c) /\ inq' = inq
    BY <2>2
  <2>4. ~Busy(e)'
    BY <2>2, <2>3 DEF Busy
  <2> QED
    BY <2>2, <2>3, <2>4
<1> QED
  BY <1>1, <1>2 DEF Mine

LEMMA BindPathStep == ASSUME DgInv, NEW c \in Askers, BindPath(c) PROVE DgInv'
<1>1. /\ asker[c] = "bind" /\ UNCHANGED <<proto, server, inq, cur, net, rq, printed, alone>>
      /\ \/ path' = c /\ asker' = [asker EXCEPT ![c] = "send"]
         \/ UNCHANGED path /\ asker' = [asker EXCEPT ![c] = "failed"]
  BY DEF BindPath, Step, historyVars
<1>2. asker' \in [Askers -> {"new", "bind", "send", "recv", "done", "failed", "killed"}]
  BY <1>1 DEF DgInv, DgTypes
<1>3. Path
  BY <1>1 DEF DgInv, Networked
<1>4. DgTypes'
  BY <1>1, <1>2, <1>3 DEF DgInv, DgTypes, Path
<1>5. Networked'
  BY <1>1, <1>3 DEF DgInv, Networked, Path, Answer, Text
<1>6. asker'[c] \in {"send", "failed"} /\ \A e \in Askers \ {c} : asker'[e] = asker[e]
  BY <1>1 DEF DgInv, DgTypes
<1>7. ASSUME NEW d \in Askers, d # c PROVE Mine(d)'
  BY <1>1, <1>6, <1>7, OthersKeep DEF Busy
<1>8. Mine(c)'
  <2>1. rq'[c] = << >> /\ printed'[c] = NoText
    BY <1>1 DEF DgInv, Mine
  <2>4. << >> \in Seq({Answer(c)'})
    BY EmptyIs
  <2>2. alone[c] => \A e \in Askers \ {c} : ~Busy(e) /\ e # cur /\ inq \in Seq(Askers \ {e})
    BY <1>1, <1>3 DEF DgInv, Mine, Busy
  <2>3. alone'[c] => \A e \in Askers \ {c} : ~Busy(e)' /\ e # cur' /\ inq' \in Seq(Askers \ {e})
    BY <1>1, <1>6, <2>2 DEF Busy
  <2> QED
    BY <1>6, <2>1, <2>3, <2>4 DEF Mine, Open
<1> QED
  BY <1>4, <1>5, <1>7, <1>8 DEF DgInv

LEMMA AskStep == ASSUME DgInv, NEW c \in Askers, Ask(c) PROVE DgInv'
<1> DEFINE m == [answer |-> FALSE, client |-> c, text |-> Text(c)]
<1>1. /\ asker[c] = "send" /\ UNCHANGED <<proto, server, cur, rq, printed, alone>>
      /\ \/ /\ Path /\ UNCHANGED <<net, path>> /\ inq' = Append(inq, c)
            /\ asker' = [asker EXCEPT ![c] = "recv"]
         \/ /\ Path /\ UNCHANGED <<net, inq>> /\ path' = None /\ asker' = [asker EXCEPT ![c] = "failed"]
         \/ /\ ~Path /\ UNCHANGED <<inq, path>> /\ net' = net \cup {m}
            /\ asker' = [asker EXCEPT ![c] = "recv"]
  BY DEF Ask, Step, historyVars
<1>2. asker' \in [Askers -> {"new", "bind", "send", "recv", "done", "failed", "killed"}]
  BY <1>1 DEF DgInv, DgTypes
<1>3. inq' \in Seq(Askers)
  <2>1. inq \in Seq(Askers)
    BY DEF DgInv, DgTypes
  <2>2. Append(inq, c) \in Seq(Askers)
    BY <2>1, AppendIs
  <2> QED
    BY <1>1, <2>1, <2>2
<1>4. m \in [answer : BOOLEAN, client : Askers, text : Words] /\ ~m.answer
  BY DEF Text, Words
<1> HIDE DEF m
<1>5. net' \in SUBSET [answer : BOOLEAN, client : Askers, text : Words] /\ (Path => net' = {})
  BY <1>1, <1>4 DEF DgInv, DgTypes
<1>6. DgTypes'
  BY <1>1, <1>2, <1>3, <1>5 DEF DgInv, DgTypes, Path
<1>7. asker'[c] \in {"recv", "failed"} /\ \A e \in Askers \ {c} : asker'[e] = asker[e]
  BY <1>1 DEF DgInv, DgTypes
<1>8. Networked'
  <2>1. \A n \in net' : n.answer => n \in net
    BY <1>1, <1>4
  <2> QED
    BY <1>1, <1>7, <2>1 DEF DgInv, Networked, Path, Answer, Text
<1>9. ASSUME NEW d \in Askers, d # c PROVE Mine(d)'
  BY <1>1, <1>3, <1>7, <1>9, OthersKeep DEF Busy
<1>10. Mine(c)'
  <2>1. /\ printed'[c] = NoText
        /\ alone[c] => rq'[c] \in Seq({Answer(c)'})
    BY <1>1 DEF DgInv, Mine, Open, Answer, Path, Text
  <2>2. ASSUME Path, alone[c], NEW e \in Askers \ {c}
        PROVE  ~Busy(e)' /\ e # cur' /\ inq' \in Seq(Askers \ {e})
    <3>1. ~Busy(e) /\ e # cur /\ inq \in Seq(Askers \ {e})
      BY <1>1, <2>2 DEF DgInv, Mine, Busy
    <3>2. Append(inq, c) \in Seq(Askers \ {e})
      BY <3>1, AppendIs
    <3> QED
      BY <1>1, <1>7, <3>1, <3>2 DEF Busy
  <2> QED
    BY <1>1, <1>7, <2>1, <2>2 DEF Mine, Open, Path
<1> QED
  BY <1>6, <1>8, <1>9, <1>10 DEF DgInv

LEMMA ObtainStep == ASSUME DgInv, NEW c \in Askers, Obtain(c) PROVE DgInv'
<1>1. /\ asker[c] = "recv" /\ rq[c] # << >> /\ path' = None
      /\ UNCHANGED <<proto, server, inq, cur, net, alone>>
      /\ printed' = [printed EXCEPT ![c] = Head(rq[c])]
      /\ rq' = [rq EXCEPT ![c] = << >>]
      /\ asker' = [asker EXCEPT ![c] = "done"]
  BY DEF Obtain, Step, historyVars
<1>2. Head(rq[c]) \in Words /\ (alone[c] => Head(rq[c]) = Answer(c))
  <2>1. rq[c] \in Seq(Words) /\ (alone[c] => rq[c] \in Seq({Answer(c)}))
    BY <1>1 DEF DgInv, DgTypes, Mine, Open
  <2>2. Head(rq[c]) \in Words
    BY <1>1, <2>1, TailIs
  <2>3. alone[c] => Head(rq[c]) \in {Answer(c)}
    BY <1>1, <2>1, TailIs
  <2> QED
    BY <2>2, <2>3
<1>3. asker' \in [Askers -> {"new", "bind", "send", "recv", "done", "failed", "killed"}]
  BY <1>1 DEF DgInv, DgTypes
<1>4. rq' \in [Askers -> Seq(Words)] /\ printed' \in [Askers -> Words \cup {NoText}]
  <2>1. << >> \in Seq(Words)
    OBVIOUS
  <2> QED
    BY <1>1, <1>2, <2>1 DEF DgInv, DgTypes
<1>5. DgTypes'
  BY <1>1, <1>3, <1>4 DEF DgInv, DgTypes, Path
<1>6. asker'[c] = "done" /\ printed'[c] = Head(rq[c]) /\ \A e \in Askers \ {c} : asker'[e] = asker[e]
  BY <1>1 DEF DgInv, DgTypes
<1>7. Networked'
  BY <1>1, <1>6 DEF DgInv, Networked, Path, Answer, Text
<1>8. ASSUME NEW d \in Askers, d # c PROVE Mine(d)'
  <2>1. rq'[d] = rq[d] /\ printed'[d] = printed[d]
    BY <1>1, <1>8 DEF DgInv, DgTypes
  <2> QED
    BY <1>1, <1>6, <1>8, <2>1, OthersKeep DEF Busy
<1>9. Mine(c)'
  <2>1. printed'[c] # NoText
    BY <1>2, <1>6, AnswerIs
  <2>2. Answer(c)' = Answer(c)
    BY <1>1 DEF Answer, Path, Text
  <2> QED
    BY <1>1, <1>2, <1>6, <2>1, <2>2 DEF Mine, Busy, Open
<1> QED
  BY <1>5, <1>7, <1>8, <1>9 DEF DgInv

LEMMA GiveUpStep == ASSUME DgInv, NEW c \in Askers, GiveUp(c) PROVE DgInv'
<1>1. /\ Open(c) /\ UNCHANGED <<proto, server, inq, cur, net, path, printed, alone>>
      /\ rq' = [rq EXCEPT ![c] = << >>]
      /\ asker' = [asker EXCEPT ![c] = "killed"]
  BY DEF GiveUp, Step, historyVars
<1>2. asker' \in [Askers -> {"new", "bind", "send", "recv", "done", "failed", "killed"}]
  BY <1>1 DEF DgInv, DgTypes
<1>3. rq' \in [Askers -> Seq(Words)]
  <2>1. << >> \in Seq(Words)
    OBVIOUS
  <2> QED
    BY <1>1, <2>1 DEF DgInv, DgTypes
<1>4. DgTypes'
  BY <1>1, <1>2, <1>3 DEF DgInv, DgTypes, Path
<1>5. asker'[c] = "killed" /\ \A e \in Askers \ {c} : asker'[e] = asker[e]
  BY <1>1 DEF DgInv, DgTypes
<1>6. Networked'
  BY <1>1, <1>5 DEF DgInv, Networked, Path, Answer, Text
<1>7. ASSUME NEW d \in Askers, d # c PROVE Mine(d)'
  <2>1. rq'[d] = rq[d]
    BY <1>1, <1>7 DEF DgInv, DgTypes
  <2> QED
    BY <1>1, <1>5, <1>7, <2>1, OthersKeep DEF Busy
<1>8. Mine(c)'
  <2>1. printed'[c] = NoText
    BY <1>1 DEF DgInv, Mine, Open
  <2> QED
    BY <1>5, <2>1 DEF Mine, Busy, Open
<1> QED
  BY <1>4, <1>6, <1>7, <1>8 DEF DgInv

LEMMA DgInvariant == DgSpec => []DgInv
<1>1. DgInv /\ UNCHANGED dgVars => DgInv'
  <2> SUFFICES ASSUME DgInv, UNCHANGED dgVars PROVE DgInv'
    OBVIOUS
  <2>1. UNCHANGED <<proto, server, inq, cur, net, path, asker, rq, printed, alone>>
    BY DEF dgVars, historyVars
  <2>2. DgTypes'
    BY <2>1 DEF DgInv, DgTypes, Path
  <2>3. Networked'
    BY <2>1 DEF DgInv, Networked, Path, Answer, Text
  <2>4. ASSUME NEW c \in Askers PROVE Mine(c)'
    BY <2>1, ClientsKeep
  <2> QED
    BY <2>2, <2>3, <2>4 DEF DgInv
<1>2. DgInv /\ [DgNext]_dgVars => DgInv'
  BY <1>1, ServeStep, RecvfromStep, SendtoStep, DeliverStep, UnlinkStep, BindPathStep, AskStep,
     ObtainStep, GiveUpStep DEF DgNext
<1> QED
  BY <1>2, DgInitInv, PTL DEF DgSpec

\* Questions, answers and the path are what they are for: nothing is on the
\* network over AF_UNIX, and a client has printed when it is done, not before
\* (the datagram programs of labs 7 and 8).
THEOREM DgTypeCorrect == DgSpec => []DgTypeOK
<1>1. DgInv => DgTypeOK
  BY DEF DgInv, DgTypes, Mine, DgTypeOK
<1> QED
  BY <1>1, DgInvariant, PTL

\* A client prints the answer to its own question, over UDP whatever is lost,
\* delayed or duplicated, over AF_UNIX if no other client is or comes to work
\* (sendto and recvfrom of the datagram programs of labs 7 and 8).
THEOREM ClientsGetTheirAnswer == DgSpec => []OwnAnswer
<1>1. DgInv => OwnAnswer
  BY DEF DgInv, Mine, OwnAnswer
<1> QED
  BY <1>1, DgInvariant, PTL

-----------------------------------------------------------------------------
(* EchoServer: pieces of a client's text that follow one another.          *)

Piece == Clients \X Nat

\* The pieces of c from the one after n on.
Run(s, c, n) == \A k \in 1 .. Len(s) : s[k] = <<c, n + k>>

LEMMA SplitIs ==
  ASSUME NEW S, NEW s \in Seq(S), NEW n \in 1 .. Len(s)
  PROVE  /\ SubSeq(s, 1, n) \in Seq(S) /\ Len(SubSeq(s, 1, n)) = n
         /\ \A i \in 1 .. n : SubSeq(s, 1, n)[i] = s[i]
         /\ SubSeq(s, n + 1, Len(s)) \in Seq(S) /\ Len(SubSeq(s, n + 1, Len(s))) = Len(s) - n
         /\ \A i \in 1 .. Len(s) - n : SubSeq(s, n + 1, Len(s))[i] = s[n + i]
<1>1. Len(s) \in Nat /\ n \in Nat /\ n <= Len(s)
  OBVIOUS
<1>2. SubSeq(s, 1, n) \in Seq(S) /\ Len(SubSeq(s, 1, n)) = n /\ \A i \in 1 .. n : SubSeq(s, 1, n)[i] = s[i]
  BY Z3
<1>3. SubSeq(s, n + 1, Len(s)) \in Seq(S) /\ Len(SubSeq(s, n + 1, Len(s))) = Len(s) - n
  BY Z3
<1>4. \A i \in 1 .. Len(s) - n : SubSeq(s, n + 1, Len(s))[i] = s[n + i]
  BY Z3
<1> QED
  BY <1>2, <1>3, <1>4

\* A read cuts a run in two ...
LEMMA RunSplit ==
  ASSUME NEW c \in Clients, NEW m \in Nat, NEW s \in Seq(Piece), Run(s, c, m), NEW n \in 1 .. Len(s)
  PROVE  Run(SubSeq(s, 1, n), c, m) /\ Run(SubSeq(s, n + 1, Len(s)), c, m + n)
<1> DEFINE F == SubSeq(s, 1, n)
           G == SubSeq(s, n + 1, Len(s))
<1>1. /\ Len(F) = n /\ (\A i \in 1 .. n : F[i] = s[i])
      /\ Len(G) = Len(s) - n /\ \A i \in 1 .. Len(s) - n : G[i] = s[n + i]
  BY SplitIs
<1>2. Len(s) \in Nat /\ n \in Nat /\ n <= Len(s)
  OBVIOUS
<1> HIDE DEF F, G
<1>3. Run(F, c, m)
  BY <1>1, <1>2 DEF Run
<1>4. ASSUME NEW k \in 1 .. Len(G) PROVE G[k] = <<c, (m + n) + k>>
  <2>1. n + k \in 1 .. Len(s) /\ m + (n + k) = (m + n) + k /\ k \in 1 .. Len(s) - n
    BY <1>1, <1>2
  <2>2. s[n + k] = <<c, m + (n + k)>>
    BY <2>1 DEF Run
  <2> QED
    BY <2>1, <2>2, <1>1
<1> QED
  BY <1>3, <1>4 DEF Run, F, G

\* ... and a write joins two.
LEMMA RunConcat ==
  ASSUME NEW c \in Clients, NEW m \in Nat, NEW s \in Seq(Piece), NEW t \in Seq(Piece),
         Run(s, c, m), Run(t, c, m + Len(s))
  PROVE  Run(s \o t, c, m)
<1> DEFINE u == s \o t
<1>1. /\ Len(s) \in Nat /\ Len(t) \in Nat /\ Len(u) = Len(s) + Len(t)
      /\ (\A i \in 1 .. Len(s) : u[i] = s[i]) /\ \A i \in 1 .. Len(t) : u[Len(s) + i] = t[i]
  BY ConcatIs
<1> HIDE DEF u
<1>2. ASSUME NEW k \in 1 .. Len(u) PROVE u[k] = <<c, m + k>>
  <2>1. CASE k <= Len(s)
    BY <2>1, <1>1 DEF Run
  <2>2. CASE k > Len(s)
    <3>1. k - Len(s) \in 1 .. Len(t) /\ Len(s) + (k - Len(s)) = k /\ (m + Len(s)) + (k - Len(s)) = m + k
      BY <2>2, <1>1
    <3>2. t[k - Len(s)] = <<c, (m + Len(s)) + (k - Len(s))>> /\ u[Len(s) + (k - Len(s))] = t[k - Len(s)]
      BY <3>1, <1>1 DEF Run
    <3> QED
      BY <3>1, <3>2
  <2> QED
    BY <2>1, <2>2, <1>1
<1> QED
  BY <1>2 DEF Run, u

\* A line is a run, and it has a piece at least.
LEMMA StreamIs ==
  ASSUME NEW c \in Clients, NEW a \in Nat, NEW b \in Nat, a <= b
  PROVE  Stream(c, a, b) \in Seq(Piece) /\ Len(Stream(c, a, b)) = b - a /\ Run(Stream(c, a, b), c, a)
<1> DEFINE n == b - a
<1>1. n \in Nat /\ n = b - a
  OBVIOUS
<1> HIDE DEF n
<1>2. \A k \in 1 .. n : <<c, a + k>> \in Piece
  BY <1>1 DEF Piece
<1>3. Stream(c, a, b) = [k \in 1 .. n |-> <<c, a + k>>]
  BY <1>1 DEF Stream
<1> HIDE DEF Piece
<1>4. [k \in 1 .. n |-> <<c, a + k>>] \in Seq(Piece) /\ Len([k \in 1 .. n |-> <<c, a + k>>]) = n
  BY <1>1, <1>2
<1> QED
  BY <1>1, <1>3, <1>4 DEF Run

LEMMA PiecesGrow ==
  ASSUME NEW c \in Clients, NEW n \in 0 .. Len(Lines[c])
  PROVE  Pieces(c, n) \in Nat /\ (n < Len(Lines[c]) => Pieces(c, n) < Pieces(c, n + 1))
<1> DEFINE L == Lines[c]
<1>1. L \in Seq(Nat \ {0}) /\ \A i, k \in 1 .. Len(L) : i < k => L[i] < L[k]
  BY EchoAssumption
<1>2. n \in 0 .. Len(L)
  OBVIOUS
<1> HIDE DEF L
<1>3. Len(L) \in Nat /\ n \in Nat /\ \A i \in 1 .. Len(L) : L[i] \in Nat \ {0}
  BY <1>1, <1>2
<1>4. CASE n = 0
  <2>1. Pieces(c, 0) = 0 /\ Pieces(c, 1) = L[1]
    BY DEF Pieces, L
  <2>2. n < Len(L) => L[1] \in Nat \ {0}
    BY <1>3, <1>4
  <2> QED
    BY <1>4, <2>1, <2>2 DEF L
<1>5. CASE n # 0
  <2>1. Pieces(c, n) = L[n] /\ Pieces(c, n + 1) = L[n + 1] /\ n \in 1 .. Len(L)
    BY <1>2, <1>3, <1>5 DEF Pieces, L
  <2>2. n < Len(L) => n + 1 \in 1 .. Len(L) /\ n < n + 1
    BY <1>3
  <2>3. n < Len(L) => L[n] < L[n + 1]
    BY <1>1, <2>1, <2>2
  <2> QED
    BY <1>3, <2>1, <2>3 DEF L
<1> QED
  BY <1>4, <1>5

-----------------------------------------------------------------------------
(* EchoServer: the inductive invariant.                                    *)

EchoTypes ==
    /\ kind \in Kinds /\ sigchld \in BOOLEAN
    /\ name \in Servers \cup {Free, Left}
    /\ srv \in [Servers -> {"new", "bind", "listen", "accept", "serve", "failed", "killed"}]
    /\ h \in [Clients -> {"none", "read", "write", "closed"}]
    /\ zombies \subseteq Clients /\ reset \subseteq Clients
    /\ cli \in [Clients -> {"new", "type", "read", "done", "killed", "failed"}]
    /\ on \in [Clients -> Servers \cup {Free}]
    /\ typed \in [Clients -> Nat]
    /\ backlog \in [Servers -> Seq(Clients)]
    /\ up \in [Clients -> Seq(Piece)] /\ buf \in [Clients -> Seq(Piece)]
    /\ down \in [Clients -> Seq(Piece)] /\ got \in [Clients -> Seq(Piece)]

\* A backlog holds clients of this server that are not served, each once.
Backlog(s) ==
    /\ \A k \in 1 .. Len(backlog[s]) :
         LET c == backlog[s][k] IN on[c] = s /\ h[c] = "none" /\ cli[c] # "new"
    /\ \A i, k \in 1 .. Len(backlog[s]) : backlog[s][i] = backlog[s][k] => i = k

Connection(c) ==
    /\ cli[c] = "new" => h[c] = "none"
    /\ h[c] # "none" => on[c] \in Servers
    /\ c \in zombies => h[c] = "closed"
    /\ c \in reset => Gone(c)

Sent(c) == Pieces(c, typed[c])

\* What c has sent is one run, in the order of the places it goes through.
Parts(c) ==
    /\ typed[c] <= Len(Lines[c])
    /\ h[c] # "write" => buf[c] = << >>
    /\ Run(got[c], c, 0) /\ Run(down[c], c, Len(got[c]))
    /\ Len(got[c]) + Len(down[c]) <= Sent(c)
    /\ ~Gone(c) /\ h[c] # "closed" =>
         /\ Run(buf[c], c, Len(got[c]) + Len(down[c]))
         /\ Run(up[c], c, Len(got[c]) + Len(down[c]) + Len(buf[c]))
         /\ Len(got[c]) + Len(down[c]) + Len(buf[c]) + Len(up[c]) = Sent(c)

EchoInv ==
    /\ EchoTypes
    /\ \A s \in Servers : Backlog(s)
    /\ \A c \in Clients : Connection(c) /\ Parts(c)

\* Nothing of c moves: it may leave, its connection may end.
LEMMA PartsStay ==
  ASSUME NEW c \in Clients, Parts(c),
         got'[c] = got[c], down'[c] = down[c], buf'[c] = buf[c], up'[c] = up[c], typed'[c] = typed[c],
         Gone(c) => Gone(c)', h[c] = "closed" => h'[c] = "closed", h[c] = "write" => h'[c] = "write"
  PROVE  Parts(c)'
BY DEF Parts, Sent

\* A backlog stays, and so do those in it.
LEMMA BacklogStays ==
  ASSUME EchoInv, NEW s \in Servers, backlog'[s] = backlog[s],
         \A c \in Clients : on[c] = s /\ h[c] = "none" /\ cli[c] # "new" =>
                             on'[c] = s /\ h'[c] = "none" /\ cli'[c] # "new"
  PROVE  Backlog(s)'
<1>1. \A k \in 1 .. Len(backlog[s]) : backlog[s][k] \in Clients
  BY DEF EchoInv, EchoTypes
<1> QED
  BY <1>1 DEF EchoInv, Backlog

LEMMA EchoInitInv == EchoInit => EchoInv
<1> SUFFICES ASSUME EchoInit PROVE EchoInv
  OBVIOUS
<1> USE DEF EchoInit
<1>1. EchoTypes
  <2>1. << >> \in Seq(Clients) /\ << >> \in Seq(Piece)
    BY EmptyIs
  <2> QED
    BY <2>1 DEF EchoTypes
<1>2. \A s \in Servers : Backlog(s)
  BY DEF Backlog
<1>3. ASSUME NEW c \in Clients PROVE Connection(c) /\ Parts(c)
  <2>1. Connection(c)
    BY DEF Connection
  <2>2. \A n : Run(<< >>, c, n)
    BY DEF Run
  <2>3. Len(Lines[c]) \in Nat /\ Sent(c) = 0
    BY EchoAssumption DEF Sent, Pieces
  <2> QED
    BY <2>1, <2>2, <2>3 DEF Parts
<1> QED
  BY <1>1, <1>2, <1>3 DEF EchoInv

\* Steps by which a server starts, and the signal handler.
LEMMA ServerOnly ==
  ASSUME EchoInv, UNCHANGED <<kind, backlog, h, buf, on, cli, typed, got, up, down, reset>>,
         name' \in Servers \cup {Free, Left}, sigchld' \in BOOLEAN, zombies' \subseteq zombies,
         srv' \in [Servers -> {"new", "bind", "listen", "accept", "serve", "failed", "killed"}]
  PROVE  EchoInv'
<1>1. EchoTypes'
  BY DEF EchoInv, EchoTypes
<1>2. ASSUME NEW s \in Servers PROVE Backlog(s)'
  BY BacklogStays
<1>3. ASSUME NEW c \in Clients PROVE Connection(c)' /\ Parts(c)'
  <2>1. Parts(c)'
    BY PartsStay DEF EchoInv, Gone
  <2> QED
    BY <2>1 DEF EchoInv, Connection, Gone
<1> QED
  BY <1>1, <1>2, <1>3 DEF EchoInv

LEMMA AcceptStep == ASSUME EchoInv, NEW s \in Servers, Accept(s) PROVE EchoInv'
<1> DEFINE c == Head(backlog[s])
<1>1. /\ backlog[s] # << >> /\ backlog' = [backlog EXCEPT ![s] = Tail(@)]
      /\ UNCHANGED <<kind, name, on, buf, zombies, sigchld, cli, typed, got, up, down, reset>>
      /\ \E l \in {"read", "closed"} : h' = [h EXCEPT ![c] = l]
      /\ srv' \in [Servers -> {"new", "bind", "listen", "accept", "serve", "failed", "killed"}]
  BY DEF Accept, Goto, startVars, clientVars, EchoInv, EchoTypes
<1>2. PICK l \in {"read", "closed"} : h' = [h EXCEPT ![c] = l]
  BY <1>1
<1>3. /\ backlog[s] \in Seq(Clients) /\ c \in Clients /\ Tail(backlog[s]) \in Seq(Clients)
      /\ c = backlog[s][1] /\ Len(backlog[s]) \in Nat \ {0} /\ Len(Tail(backlog[s])) = Len(backlog[s]) - 1
      /\ \A i \in 1 .. Len(backlog[s]) - 1 : Tail(backlog[s])[i] = backlog[s][i + 1]
  <2>1. backlog[s] \in Seq(Clients) /\ backlog[s] # << >>
    BY <1>1 DEF EchoInv, EchoTypes
  <2> QED
    BY <2>1, TailIs
<1>4. on[c] = s /\ h[c] = "none" /\ cli[c] # "new" /\ Connection(c) /\ Parts(c)
  BY <1>3 DEF EchoInv, Backlog
<1> HIDE DEF c
<1>5. h' \in [Clients -> {"none", "read", "write", "closed"}] /\ backlog' \in [Servers -> Seq(Clients)]
  BY <1>1, <1>2, <1>3 DEF EchoInv, EchoTypes
<1>6. EchoTypes'
  BY <1>1, <1>5 DEF EchoInv, EchoTypes
<1>7. h'[c] = l /\ \A d \in Clients \ {c} : h'[d] = h[d]
  BY <1>2, <1>3 DEF EchoInv, EchoTypes
<1>8. ASSUME NEW u \in Servers, u # s PROVE Backlog(u)'
  <2>1. backlog'[u] = backlog[u]
    BY <1>1, <1>8 DEF EchoInv, EchoTypes
  <2>2. \A d \in Clients : on[d] = u => d # c
    BY <1>4, <1>8
  <2> QED
    BY <1>1, <1>7, <2>1, <2>2, BacklogStays
<1>9. Backlog(s)'
  <2> DEFINE b == backlog[s]
             t == Tail(backlog[s])
  <2>1. backlog'[s] = t
    BY <1>1 DEF EchoInv, EchoTypes
  <2>2. /\ \A k \in 1 .. Len(b) : on[b[k]] = s /\ h[b[k]] = "none" /\ cli[b[k]] # "new"
        /\ \A i, k \in 1 .. Len(b) : b[i] = b[k] => i = k
    BY DEF EchoInv, Backlog
  <2>3. /\ b \in Seq(Clients) /\ c = b[1] /\ Len(b) \in Nat \ {0} /\ Len(t) = Len(b) - 1
        /\ \A i \in 1 .. Len(b) - 1 : t[i] = b[i + 1]
    BY <1>3
  <2> HIDE DEF b, t
  <2>4. ASSUME NEW k \in 1 .. Len(t) PROVE on'[t[k]] = s /\ h'[t[k]] = "none" /\ cli'[t[k]] # "new"
    <3>1. k + 1 \in 1 .. Len(b) /\ 1 \in 1 .. Len(b) /\ k + 1 # 1 /\ t[k] = b[k + 1]
      BY <2>3
    <3>2. b[k + 1] # c /\ b[k + 1] \in Clients
      BY <2>2, <2>3, <3>1
    <3> QED
      BY <1>1, <1>7, <2>2, <3>1, <3>2
  <2>5. ASSUME NEW i \in 1 .. Len(t), NEW k \in 1 .. Len(t), t[i] = t[k] PROVE i = k
    <3>1. i + 1 \in 1 .. Len(b) /\ k + 1 \in 1 .. Len(b) /\ t[i] = b[i + 1] /\ t[k] = b[k + 1]
      BY <2>3
    <3>2. i + 1 = k + 1
      BY <2>2, <2>5, <3>1
    <3> QED
      BY <3>2
  <2> QED
    BY <2>1, <2>4, <2>5 DEF Backlog
<1>10. ASSUME NEW d \in Clients PROVE Connection(d)' /\ Parts(d)'
  <2>1. Connection(d)'
    BY <1>1, <1>4, <1>7 DEF EchoInv, Connection, Gone
  <2>2. Parts(d)'
    BY <1>1, <1>4, <1>7, PartsStay DEF EchoInv, Gone
  <2> QED
    BY <2>1, <2>2
<1> QED
  BY <1>6, <1>8, <1>9, <1>10 DEF EchoInv

\* The process that serves c ends: with it the connection, or with the server
\* those of its backlog too.
LEMMA ConnectionEnds ==
  ASSUME EchoInv, NEW c \in Clients, h[c] \in {"read", "write"}, NEW D,
         h' = [d \in Clients |-> IF d = c \/ d \in D THEN "closed" ELSE h[d]],
         \/ D = {} /\ backlog' = backlog
         \/ D = ToSet(backlog[on[c]]) /\ backlog' = [backlog EXCEPT ![on[c]] = << >>],
         buf' = [buf EXCEPT ![c] = << >>], zombies' \subseteq zombies \cup {c}, sigchld' \in BOOLEAN,
         srv' \in [Servers -> {"new", "bind", "listen", "accept", "serve", "failed", "killed"}],
         UNCHANGED <<kind, name, on, cli, typed, got, up, down, reset>>
  PROVE  EchoInv'
<1>1. on[c] \in Servers
  BY DEF EchoInv, Connection
<1>2. /\ h' \in [Clients -> {"none", "read", "write", "closed"}]
      /\ h'[c] = "closed" /\ \A d \in Clients \ {c} : h'[d] = IF d \in D THEN "closed" ELSE h[d]
  BY DEF EchoInv, EchoTypes
<1>3. buf' \in [Clients -> Seq(Piece)]
  <2>1. << >> \in Seq(Piece) /\ buf \in [Clients -> Seq(Piece)]
    BY EmptyIs DEF EchoInv, EchoTypes
  <2> QED
    BY <2>1
<1>8. backlog \in [Servers -> Seq(Clients)]
  BY DEF EchoInv, EchoTypes
<1>9. backlog' \in [Servers -> Seq(Clients)]
  <2>1. << >> \in Seq(Clients)
    BY EmptyIs
  <2> QED
    BY <1>8, <2>1
<1>4. EchoTypes'
  BY <1>2, <1>3, <1>9 DEF EchoInv, EchoTypes
<1>5. \A d \in D : d \in Clients /\ h[d] = "none" /\ on[d] = on[c]
  <2>1. CASE D = {}
    BY <2>1
  <2>2. CASE D = ToSet(backlog[on[c]])
    <3>1. backlog[on[c]] \in Seq(Clients)
      BY <1>1 DEF EchoInv, EchoTypes
    <3>2. \A k \in 1 .. Len(backlog[on[c]]) :
            backlog[on[c]][k] \in Clients /\ h[backlog[on[c]][k]] = "none" /\ on[backlog[on[c]][k]] = on[c]
      BY <1>1, <3>1 DEF EchoInv, Backlog
    <3>3. \A d \in D : \E k \in 1 .. Len(backlog[on[c]]) : d = backlog[on[c]][k]
      BY <2>2, <3>1 DEF ToSet
    <3> QED
      BY <3>2, <3>3
  <2> QED
    BY <2>1, <2>2
<1>6. ASSUME NEW s \in Servers PROVE Backlog(s)'
  <2>1. CASE D = {} \/ s # on[c]
    <3>1. backlog'[s] = backlog[s]
      <4>1. CASE backlog' = backlog
        BY <4>1
      <4>2. CASE s # on[c] /\ backlog' = [backlog EXCEPT ![on[c]] = << >>]
        BY <4>2, <1>8
      <4>3. CASE D = {} /\ D = ToSet(backlog[on[c]]) /\ backlog' = [backlog EXCEPT ![on[c]] = << >>]
        <5>1. backlog[on[c]] \in Seq(Clients) /\ backlog[on[c]] = << >>
          BY <4>3, <1>1, <1>8, NoMembers
        <5> QED
          BY <4>3, <5>1, <1>8
      <4> QED
        BY <2>1, <4>1, <4>2, <4>3
    <3>2. ASSUME NEW d \in Clients, on[d] = s, h[d] = "none" PROVE d # c /\ d \notin D
      BY <2>1, <1>5, <3>2
    <3> QED
      BY <1>2, <3>1, <3>2, BacklogStays
  <2>2. CASE D # {} /\ s = on[c]
    <3>1. backlog'[s] = << >>
      BY <2>2, <1>1 DEF EchoInv, EchoTypes
    <3> QED
      BY <3>1 DEF Backlog
  <2> QED
    BY <2>1, <2>2
<1>7. ASSUME NEW d \in Clients PROVE Connection(d)' /\ Parts(d)'
  <2>1. Connection(d) /\ Parts(d) /\ on[d] \in Servers \cup {Free}
    BY DEF EchoInv, EchoTypes
  <2>2. Connection(d)'
    <3>1. CASE d = c
      BY <1>1, <1>2, <2>1, <3>1 DEF Connection, Gone
    <3>2. CASE d # c /\ d \in D
      <4>1. h'[d] = "closed" /\ on[d] \in Servers /\ cli[d] # "new"
        <5>1. D = ToSet(backlog[on[c]]) /\ backlog[on[c]] \in Seq(Clients)
          BY <3>2, <1>1, <1>8
        <5>2. PICK k \in 1 .. Len(backlog[on[c]]) : d = backlog[on[c]][k]
          BY <5>1, <3>2 DEF ToSet
        <5>3. cli[d] # "new"
          BY <5>2, <1>1 DEF EchoInv, Backlog
        <5> QED
          BY <5>3, <1>1, <1>2, <1>5, <3>2
      <4> QED
        BY <2>1, <4>1 DEF Connection, Gone
    <3>3. CASE d # c /\ d \notin D
      <4>1. h'[d] = h[d] /\ (d \in zombies' => d \in zombies)
        BY <1>2, <3>3
      <4> QED
        BY <2>1, <4>1 DEF Connection, Gone
    <3> QED
      BY <3>1, <3>2, <3>3
  <2>3. CASE d # c
    <3>1. buf'[d] = buf[d]
      BY <2>3 DEF EchoInv, EchoTypes
    <3> QED
      BY <1>2, <1>5, <2>1, <2>2, <2>3, <3>1, PartsStay DEF Gone
  <2>4. CASE d = c
    <3>1. buf'[d] = << >> /\ h'[d] = "closed"
      BY <2>4, <1>2 DEF EchoInv, EchoTypes
    <3> QED
      BY <2>1, <2>2, <3>1 DEF Parts, Sent
  <2> QED
    BY <2>3, <2>4
<1> QED
  BY <1>4, <1>6, <1>7 DEF EchoInv

\* A step in which the server's side of c, or c, moves pieces and nothing else
\* happens but what this says.
LEMMA PartsMove ==
  ASSUME EchoInv, NEW c \in Clients, EchoTypes', Parts(c)', Connection(c)',
         UNCHANGED <<on, backlog, zombies>>,
         h[c] = "none" => h'[c] = "none", cli[c] # "new" => cli'[c] # "new",
         \A d \in Clients \ {c} :
           /\ h'[d] = h[d] /\ cli'[d] = cli[d] /\ got'[d] = got[d] /\ down'[d] = down[d]
           /\ buf'[d] = buf[d] /\ up'[d] = up[d] /\ typed'[d] = typed[d]
           /\ d \in reset' => d \in reset
  PROVE  EchoInv'
<1>1. ASSUME NEW s \in Servers PROVE Backlog(s)'
  BY BacklogStays
<1>2. ASSUME NEW d \in Clients \ {c} PROVE Connection(d)' /\ Parts(d)'
  <2>1. Parts(d)'
    BY PartsStay DEF EchoInv, Gone
  <2> QED
    BY <2>1 DEF EchoInv, Connection, Gone
<1> QED
  BY <1>1, <1>2 DEF EchoInv

LEMMA ReadStep == ASSUME EchoInv, NEW c \in Clients, Read(c) PROVE EchoInv'
<1>1. /\ h[c] = "read" /\ UNCHANGED <<kind, name, on, cli, typed, got, down, reset>>
  BY DEF Read, startVars, clientVars
<1>2. Connection(c) /\ Parts(c)
  BY DEF EchoInv
<1>3. ASSUME NEW n \in Some(up[c]),
             buf' = [buf EXCEPT ![c] = SubSeq(up[c], 1, n)],
             up' = [up EXCEPT ![c] = SubSeq(@, n + 1, Len(@))],
             h' = [h EXCEPT ![c] = "write"],
             UNCHANGED <<srv, backlog, zombies, sigchld>>
      PROVE  EchoInv'
  <2> DEFINE F == SubSeq(up[c], 1, n)
             G == SubSeq(up[c], n + 1, Len(up[c]))
  <2>1. up[c] \in Seq(Piece) /\ got[c] \in Seq(Piece) /\ down[c] \in Seq(Piece) /\ n \in 1 .. Len(up[c])
    BY <1>3 DEF EchoInv, EchoTypes, Some
  <2>2. F \in Seq(Piece) /\ Len(F) = n /\ G \in Seq(Piece) /\ Len(G) = Len(up[c]) - n
    BY <2>1, SplitIs
  <2>10. Len(up[c]) \in Nat /\ Len(got[c]) \in Nat /\ Len(down[c]) \in Nat
    BY <2>1
  <2>11. PICK g \in Nat, e \in Nat, u \in Nat : g = Len(got[c]) /\ e = Len(down[c]) /\ u = Len(up[c])
    BY <2>10
  <2>12. PICK a \in Nat : a = g + e
    OBVIOUS
  <2>3. a = Len(got[c]) + Len(down[c])
    BY <2>11, <2>12
  <2>4. Run(up[c], c, a) => Run(F, c, a) /\ Run(G, c, a + n)
    BY <2>1, RunSplit
  <2>5. buf'[c] = F /\ up'[c] = G /\ h'[c] = "write"
    BY <1>3 DEF EchoInv, EchoTypes
  <2>6. EchoTypes'
    BY <1>1, <1>3, <2>2 DEF EchoInv, EchoTypes
  <2> HIDE DEF F, G
  <2>7. Parts(c)'
    <3>1. /\ typed[c] <= Len(Lines[c]) /\ buf[c] = << >>
          /\ Run(got[c], c, 0) /\ Run(down[c], c, Len(got[c])) /\ a <= Sent(c)
          /\ ~Gone(c) => Run(up[c], c, a + Len(buf[c])) /\ a + Len(buf[c]) + Len(up[c]) = Sent(c)
      BY <1>1, <1>2, <2>3 DEF Parts
    <3>2. Len(buf[c]) = 0 /\ a + Len(buf[c]) = a
      BY <2>3, <3>1
    <3>5. Len(F) = n /\ Len(G) = Len(up[c]) - n /\ n \in Nat
      BY <2>1, <2>2, <2>10 DEF F, G
    <3>6. ~Gone(c) => Run(up[c], c, a) /\ a + Len(up[c]) = Sent(c)
      BY <3>1, <3>2
    <3>7. a + Len(F) + Len(G) = a + Len(up[c])
      <4>1. n \in Nat /\ Len(F) = n /\ Len(G) = u - n
        BY <3>5, <2>11
      <4>2. a + n + (u - n) = a + u
        BY <4>1
      <4> QED
        BY <4>1, <4>2, <2>11
    <3>3. ~Gone(c) => Run(F, c, a) /\ Run(G, c, a + Len(F)) /\ a + Len(F) + Len(G) = Sent(c)
      BY <2>4, <3>5, <3>6, <3>7
    <3>4. Gone(c)' = Gone(c) /\ Sent(c)' = Sent(c) /\ a = (Len(got[c]) + Len(down[c]))'
      BY <1>1, <2>3 DEF Gone, Sent
    <3> QED
      BY <1>1, <2>5, <3>1, <3>3, <3>4 DEF Parts
  <2>8. Connection(c)'
    BY <1>1, <1>2, <1>3, <2>5 DEF Connection, Gone
  <2>9. \A d \in Clients \ {c} : h'[d] = h[d] /\ buf'[d] = buf[d] /\ up'[d] = up[d]
    BY <1>3 DEF EchoInv, EchoTypes
  <2> QED
    BY <1>1, <1>3, <2>6, <2>7, <2>8, <2>9, PartsMove
<1>4. ASSUME Close(c), UNCHANGED <<buf, up>> PROVE EchoInv'
  <2>1. buf' = [buf EXCEPT ![c] = << >>]
    <3>1. buf[c] = << >> /\ buf \in [Clients -> Seq(Piece)]
      BY <1>1, <1>2 DEF Parts, EchoInv, EchoTypes
    <3> QED
      BY <1>4, <3>1
  <2> DEFINE D == {}
  <2>2. h' = [d \in Clients |-> IF d = c \/ d \in D THEN "closed" ELSE h[d]]
    BY <1>4 DEF Close, EchoInv, EchoTypes
  <2>3. zombies' \subseteq zombies \cup {c} /\ sigchld' \in BOOLEAN
    BY <1>4 DEF Close, EchoInv, EchoTypes
  <2>4. srv' \in [Servers -> {"new", "bind", "listen", "accept", "serve", "failed", "killed"}] /\ backlog' = backlog
    BY <1>4 DEF Close, Goto, EchoInv, EchoTypes
  <2>5. D = {}
    OBVIOUS
  <2> HIDE DEF D
  <2> QED
    BY <1>1, <1>4, <2>1, <2>2, <2>3, <2>4, <2>5, ConnectionEnds
<1> QED
  BY <1>3, <1>4 DEF Read

LEMMA WriteStep == ASSUME EchoInv, NEW c \in Clients, Write(c) PROVE EchoInv'
<1>1. /\ h[c] = "write" /\ UNCHANGED <<kind, name, on, cli, typed, got, up>>
      /\ buf' = [buf EXCEPT ![c] = << >>]
  BY DEF Write, startVars, clientVars
<1>2. Connection(c) /\ Parts(c)
  BY DEF EchoInv
<1>3. buf' \in [Clients -> Seq(Piece)] /\ buf'[c] = << >> /\ \A d \in Clients \ {c} : buf'[d] = buf[d]
  BY <1>1, EmptyIs DEF EchoInv, EchoTypes
<1>4. ASSUME Sigpipe(c), UNCHANGED <<down, reset>> PROVE EchoInv'
  <2>1. srv' \in [Servers -> {"new", "bind", "listen", "accept", "serve", "failed", "killed"}]
    BY <1>4 DEF Sigpipe, Close, Goto, EchoInv, EchoTypes
  <2>2. zombies' \subseteq zombies \cup {c} /\ sigchld' \in BOOLEAN
    BY <1>4 DEF Sigpipe, Close, EchoInv, EchoTypes
  <2>3. CASE Iterative
    <3> DEFINE D == ToSet(backlog[on[c]])
    <3>1. h' = [d \in Clients |-> IF d = c \/ d \in D THEN "closed" ELSE h[d]]
          /\ backlog' = [backlog EXCEPT ![on[c]] = << >>]
      BY <1>4, <2>3 DEF Sigpipe
    <3> QED
      BY <1>1, <1>4, <2>1, <2>2, <3>1, ConnectionEnds
  <2>4. CASE ~Iterative
    <3> DEFINE D == {}
    <3>1. h' = [d \in Clients |-> IF d = c \/ d \in D THEN "closed" ELSE h[d]]
      BY <1>4, <2>4 DEF Sigpipe, Close, EchoInv, EchoTypes
    <3>2. backlog' = backlog
      BY <1>4, <2>4 DEF Sigpipe, Close
    <3>3. D = {}
      OBVIOUS
    <3> HIDE DEF D
    <3> QED
      BY <1>1, <1>4, <2>1, <2>2, <3>1, <3>2, <3>3, ConnectionEnds
  <2> QED
    BY <2>3, <2>4
<1>5. ASSUME Gone(c), UNCHANGED <<down, srv, backlog, zombies, sigchld>>, reset' = reset \cup {c},
             h' = [h EXCEPT ![c] = "read"]
      PROVE  EchoInv'
  <2>1. /\ h'[c] = "read" /\ \A d \in Clients \ {c} : h'[d] = h[d]
        /\ h' \in [Clients -> {"none", "read", "write", "closed"}]
    BY <1>5 DEF EchoInv, EchoTypes
  <2>2. EchoTypes'
    BY <1>1, <1>3, <1>5, <2>1 DEF EchoInv, EchoTypes
  <2>3. Parts(c)'
    BY <1>1, <1>2, <1>3, <1>5, <2>1 DEF Parts, Sent, Gone
  <2>4. Connection(c)'
    BY <1>1, <1>2, <1>5, <2>1 DEF Connection, Gone
  <2> QED
    BY <1>1, <1>3, <1>5, <2>1, <2>2, <2>3, <2>4, PartsMove
<1>6. ASSUME ~Gone(c), UNCHANGED <<srv, backlog, zombies, sigchld, reset>>,
             down' = [down EXCEPT ![c] = @ \o buf[c]], h' = [h EXCEPT ![c] = "read"]
      PROVE  EchoInv'
  <2> DEFINE J == down[c] \o buf[c]
             g == Len(got[c])
  <2>1. down[c] \in Seq(Piece) /\ buf[c] \in Seq(Piece) /\ got[c] \in Seq(Piece) /\ up[c] \in Seq(Piece)
    BY DEF EchoInv, EchoTypes
  <2>2. J \in Seq(Piece) /\ Len(J) = Len(down[c]) + Len(buf[c])
    BY <2>1, ConcatIs
  <2>3. g \in Nat /\ Len(down[c]) \in Nat /\ Len(buf[c]) \in Nat /\ Len(up[c]) \in Nat
    BY <2>1
  <2>4. /\ typed[c] <= Len(Lines[c]) /\ Run(got[c], c, 0) /\ Run(down[c], c, g)
        /\ Run(buf[c], c, g + Len(down[c])) /\ Run(up[c], c, g + Len(down[c]) + Len(buf[c]))
        /\ g + Len(down[c]) + Len(buf[c]) + Len(up[c]) = Sent(c)
    BY <1>1, <1>2, <1>6 DEF Parts
  <2>5. Run(J, c, g)
    BY <2>1, <2>3, <2>4, RunConcat
  <2>6. /\ h'[c] = "read" /\ \A d \in Clients \ {c} : h'[d] = h[d] /\ down'[d] = down[d]
        /\ h' \in [Clients -> {"none", "read", "write", "closed"}]
        /\ down' \in [Clients -> Seq(Piece)] /\ down'[c] = J
    BY <1>6, <2>2 DEF EchoInv, EchoTypes
  <2>7. EchoTypes'
    BY <1>1, <1>3, <1>6, <2>6 DEF EchoInv, EchoTypes
  <2> HIDE DEF J
  <2>8. Parts(c)'
    <3>1. Sent(c)' = Sent(c) /\ got'[c] = got[c] /\ up'[c] = up[c] /\ typed'[c] = typed[c]
      BY <1>1 DEF Sent
    <3>2. Len(<< >>) = 0 /\ Run(<< >>, c, g + Len(J))
      BY DEF Run
    <3>4. PICK x \in Nat, e \in Nat, f \in Nat, u \in Nat :
            x = g /\ e = Len(down[c]) /\ f = Len(buf[c]) /\ u = Len(up[c])
      BY <2>3
    <3>5. Len(J) = e + f /\ Sent(c) = x + e + f + u
      BY <3>4, <2>2, <2>4 DEF J
    <3>6. x + (e + f) + 0 = x + e + f /\ x + (e + f) <= x + e + f + u /\ x + (e + f) + 0 + u = x + e + f + u
      OBVIOUS
    <3>3. g + Len(J) + 0 = g + Len(down[c]) + Len(buf[c]) /\ g + Len(J) <= Sent(c)
          /\ g + Len(J) + 0 + Len(up[c]) = Sent(c)
      BY <3>4, <3>5, <3>6
    <3> QED
      BY <1>3, <2>4, <2>5, <2>6, <3>1, <3>2, <3>3 DEF Parts
  <2>9. Connection(c)'
    BY <1>1, <1>2, <1>6, <2>6 DEF Connection, Gone
  <2> QED
    BY <1>1, <1>3, <1>6, <2>6, <2>7, <2>8, <2>9, PartsMove
<1> QED
  BY <1>4, <1>5, <1>6 DEF Write

LEMMA ConnectStep == ASSUME EchoInv, NEW c \in Clients, Connect(c) PROVE EchoInv'
<1>1. /\ cli[c] = "new" /\ UNCHANGED <<kind, name, srv, h, buf, zombies, sigchld, typed, up, down, reset, got>>
      /\ \E l \in {"type", "failed"} : cli' = [cli EXCEPT ![c] = l]
  BY DEF Connect
<1>2. /\ cli' \in [Clients -> {"new", "type", "read", "done", "killed", "failed"}]
      /\ cli'[c] \in {"type", "failed"} /\ \A d \in Clients \ {c} : cli'[d] = cli[d]
  BY <1>1 DEF EchoInv, EchoTypes
<1>3. h[c] = "none" /\ ~Gone(c) /\ ~Gone(c)'
  BY <1>1, <1>2 DEF EchoInv, Connection, Gone
<1>4. ASSUME NEW d \in Clients PROVE Parts(d)' /\ (Gone(d)' <=> Gone(d))
  <2>1. Gone(d)' <=> Gone(d)
    BY <1>2, <1>3 DEF Gone
  <2> QED
    BY <1>1, <2>1, PartsStay DEF EchoInv
<1>5. CASE UNCHANGED <<on, backlog>>
  <2>1. EchoTypes'
    BY <1>1, <1>2, <1>5 DEF EchoInv, EchoTypes
  <2>2. ASSUME NEW s \in Servers PROVE Backlog(s)'
    BY <1>1, <1>2, <1>5, BacklogStays
  <2>3. ASSUME NEW d \in Clients PROVE Connection(d)'
    BY <1>1, <1>2, <1>3, <1>4, <1>5 DEF EchoInv, Connection
  <2> QED
    BY <1>4, <2>1, <2>2, <2>3 DEF EchoInv
<1>6. CASE /\ name \in Servers /\ backlog' = [backlog EXCEPT ![name] = Append(@, c)]
           /\ on' = [on EXCEPT ![c] = name]
  <2>0. PICK n \in Servers : backlog' = [backlog EXCEPT ![n] = Append(@, c)] /\ on' = [on EXCEPT ![c] = n]
    BY <1>6
  <2>1. backlog \in [Servers -> Seq(Clients)] /\ on \in [Clients -> Servers \cup {Free}]
    BY DEF EchoInv, EchoTypes
  <2> DEFINE b == backlog[n]
             t == Append(b, c)
  <2>2. b \in Seq(Clients)
    BY <2>1
  <2>3. /\ t \in Seq(Clients) /\ Len(b) \in Nat /\ Len(t) = Len(b) + 1
        /\ (\A i \in 1 .. Len(b) : t[i] = b[i]) /\ t[Len(b) + 1] = c
    BY <2>2, AppendIs
  <2>4. /\ backlog' \in [Servers -> Seq(Clients)] /\ backlog'[n] = t
        /\ \A s \in Servers \ {n} : backlog'[s] = backlog[s]
    BY <2>0, <2>1, <2>3
  <2>5. /\ on' \in [Clients -> Servers \cup {Free}] /\ on'[c] = n
        /\ \A d \in Clients \ {c} : on'[d] = on[d]
    BY <2>0, <2>1
  <2>6. EchoTypes'
    BY <1>1, <1>2, <2>4, <2>5 DEF EchoInv, EchoTypes
  <2>7. ASSUME NEW s \in Servers \ {n} PROVE Backlog(s)'
    <3>1. ASSUME NEW d \in Clients, on[d] = s, h[d] = "none", cli[d] # "new"
          PROVE  on'[d] = s /\ h'[d] = "none" /\ cli'[d] # "new"
      <4>1. d # c
        BY <3>1, <1>1
      <4> QED
        BY <3>1, <4>1, <1>1, <1>2, <2>5
    <3> QED
      BY <2>4, <3>1, BacklogStays
  <2>8. Backlog(n)'
    <3>1. /\ \A k \in 1 .. Len(b) : b[k] \in Clients /\ on[b[k]] = n /\ h[b[k]] = "none" /\ cli[b[k]] # "new"
          /\ \A i, k \in 1 .. Len(b) : b[i] = b[k] => i = k
      BY <2>2 DEF EchoInv, Backlog
    <3> HIDE DEF b, t
    <3>2. ASSUME NEW k \in 1 .. Len(b) PROVE b[k] # c /\ on'[b[k]] = n /\ h'[b[k]] = "none" /\ cli'[b[k]] # "new"
      <4>1. b[k] # c /\ b[k] \in Clients
        BY <3>1, <1>1
      <4> QED
        BY <3>1, <4>1, <1>1, <1>2, <2>5
    <3>3. ASSUME NEW k \in 1 .. Len(t) PROVE on'[t[k]] = n /\ h'[t[k]] = "none" /\ cli'[t[k]] # "new"
      <4>1. CASE k \in 1 .. Len(b)
        BY <4>1, <2>3, <3>2
      <4>2. CASE k = Len(b) + 1
        BY <4>2, <1>1, <1>2, <1>3, <2>3, <2>5
      <4> QED
        BY <4>1, <4>2, <2>3
    <3>4. ASSUME NEW i \in 1 .. Len(t), NEW k \in 1 .. Len(t), t[i] = t[k] PROVE i = k
      <4>1. CASE i \in 1 .. Len(b) /\ k \in 1 .. Len(b)
        BY <3>4, <4>1, <2>3, <3>1
      <4>2. CASE i \in 1 .. Len(b) /\ k = Len(b) + 1
        BY <3>4, <4>2, <2>3, <3>2
      <4>3. CASE i = Len(b) + 1 /\ k \in 1 .. Len(b)
        BY <3>4, <4>3, <2>3, <3>2
      <4> QED
        BY <4>1, <4>2, <4>3, <2>3
    <3> QED
      BY <2>4, <3>3, <3>4 DEF Backlog
  <2>9. ASSUME NEW d \in Clients PROVE Connection(d)'
    <3>1. h[d] # "none" => on'[d] = on[d]
      BY <1>3, <2>5
    <3> QED
      BY <1>1, <1>2, <1>3, <1>4, <3>1 DEF EchoInv, Connection
  <2> QED
    BY <1>4, <2>6, <2>7, <2>8, <2>9 DEF EchoInv
<1> QED
  BY <1>5, <1>6 DEF Connect

\* A client leaves, however it does.
LEMMA LeaveKeeps ==
  ASSUME EchoInv, NEW c \in Clients, NEW l \in {"done", "killed"}, cli[c] \in {"type", "read"}, Leave(c, l),
         UNCHANGED <<kind, name, on, srv, backlog, h, buf, zombies, sigchld, typed, up, down, got>>
  PROVE  EchoInv'
<1>1. /\ cli' \in [Clients -> {"new", "type", "read", "done", "killed", "failed"}]
      /\ cli'[c] = l /\ \A d \in Clients \ {c} : cli'[d] = cli[d]
  BY DEF Leave, EchoInv, EchoTypes
<1>2. reset' \subseteq reset \cup {c}
  BY DEF Leave
<1>3. EchoTypes'
  BY <1>1, <1>2 DEF EchoInv, EchoTypes
<1>4. Gone(c)'
  BY <1>1 DEF Gone
<1>5. Parts(c)'
  BY <1>4, PartsStay DEF EchoInv
<1>6. Connection(c)'
  BY <1>1, <1>4 DEF EchoInv, Connection, Gone
<1> QED
  BY <1>1, <1>2, <1>3, <1>5, <1>6, PartsMove

LEMMA TypeStep == ASSUME EchoInv, NEW c \in Clients, Type(c) PROVE EchoInv'
<1>1. /\ cli[c] = "type"
      /\ UNCHANGED <<kind, name, on, srv, backlog, h, buf, zombies, sigchld, down, got>>
  BY DEF Type, startVars
<1>2. ASSUME NEW l \in {"done", "killed"}, Leave(c, l), UNCHANGED <<typed, up>> PROVE EchoInv'
  BY <1>1, <1>2, LeaveKeeps
<1>3. ASSUME typed[c] < Len(Lines[c]), typed' = [typed EXCEPT ![c] = @ + 1],
             up' = [up EXCEPT ![c] = @ \o Stream(c, Pieces(c, typed[c]), Pieces(c, typed'[c]))],
             cli' = [cli EXCEPT ![c] = "read"], UNCHANGED reset
      PROVE  EchoInv'
  <2>1. /\ typed[c] \in Nat /\ typed' \in [Clients -> Nat] /\ typed'[c] = typed[c] + 1
        /\ \A d \in Clients \ {c} : typed'[d] = typed[d]
    BY <1>3 DEF EchoInv, EchoTypes
  <2>2. Len(Lines[c]) \in Nat
    BY EchoAssumption
  <2>3. typed[c] \in 0 .. Len(Lines[c]) /\ typed[c] + 1 \in 0 .. Len(Lines[c])
    BY <1>3, <2>1, <2>2
  <2>4. /\ Sent(c) \in Nat /\ Sent(c)' = Pieces(c, typed[c] + 1) /\ Sent(c)' \in Nat /\ Sent(c) < Sent(c)'
    BY <1>3, <2>1, <2>3, PiecesGrow DEF Sent
  <2>5. PICK p \in Nat, q \in Nat : p = Sent(c) /\ q = Sent(c)' /\ p <= q
    BY <2>4
  <2> DEFINE T == Stream(c, p, q)
             J == up[c] \o T
  <2>6. T \in Seq(Piece) /\ Len(T) = q - p /\ Run(T, c, p)
    BY <2>5, StreamIs
  <2>7. up[c] \in Seq(Piece) /\ got[c] \in Seq(Piece) /\ down[c] \in Seq(Piece) /\ buf[c] \in Seq(Piece)
    BY DEF EchoInv, EchoTypes
  <2>8. up' = [up EXCEPT ![c] = J]
    BY <1>3, <2>1, <2>4, <2>5 DEF Sent
  <2> HIDE DEF T
  <2>9. J \in Seq(Piece) /\ Len(J) = Len(up[c]) + Len(T)
    BY <2>6, <2>7, ConcatIs
  <2>10. /\ up' \in [Clients -> Seq(Piece)] /\ up'[c] = J
         /\ \A d \in Clients \ {c} : up'[d] = up[d]
    BY <2>8, <2>9 DEF EchoInv, EchoTypes
  <2>11. /\ cli' \in [Clients -> {"new", "type", "read", "done", "killed", "failed"}]
         /\ cli'[c] = "read" /\ \A d \in Clients \ {c} : cli'[d] = cli[d]
    BY <1>3 DEF EchoInv, EchoTypes
  <2>12. EchoTypes'
    BY <1>1, <1>3, <2>1, <2>10, <2>11 DEF EchoInv, EchoTypes
  <2>13. Len(got[c]) \in Nat /\ Len(down[c]) \in Nat /\ Len(buf[c]) \in Nat /\ Len(up[c]) \in Nat
    BY <2>7
  <2>14. PICK g \in Nat, e \in Nat, f \in Nat, u \in Nat :
            g = Len(got[c]) /\ e = Len(down[c]) /\ f = Len(buf[c]) /\ u = Len(up[c])
    BY <2>13
  <2>15. /\ h[c] # "write" => buf[c] = << >>
         /\ Run(got[c], c, 0) /\ Run(down[c], c, g) /\ g + e <= p
         /\ h[c] # "closed" => Run(buf[c], c, g + e) /\ Run(up[c], c, g + e + f) /\ g + e + f + u = p
    BY <1>1, <2>5, <2>14 DEF EchoInv, Parts, Gone
  <2>16. h[c] # "closed" => Run(J, c, g + e + f) /\ g + e + f + Len(J) = q
    <3>1. SUFFICES ASSUME h[c] # "closed" PROVE Run(J, c, g + e + f) /\ g + e + f + Len(J) = q
      OBVIOUS
    <3>2. PICK m \in Nat : m = g + e + f
      OBVIOUS
    <3>3. Run(up[c], c, m) /\ m + u = p
      BY <2>15, <3>1, <3>2
    <3>4. Run(T, c, m + Len(up[c]))
      BY <2>6, <2>14, <3>3
    <3>5. Run(J, c, m)
      BY <2>6, <2>7, <3>3, <3>4, RunConcat
    <3>6. Len(J) = u + (q - p) /\ m + (u + (q - p)) = q
      <4>1. Len(J) = Len(up[c]) + Len(T) /\ Len(T) = q - p
        BY <2>6, <2>9
      <4>2. Len(J) = u + (q - p)
        BY <4>1, <2>14
      <4>3. m + (u + (q - p)) = q
        BY <3>3
      <4> QED
        BY <4>2, <4>3
    <3> QED
      BY <3>2, <3>5, <3>6
  <2> HIDE DEF J
  <2>17. Parts(c)'
    <3>1. g + e <= q
      BY <2>5, <2>15
    <3>2. typed'[c] <= Len(Lines[c])
      BY <2>1, <2>3
    <3> QED
      BY <1>1, <2>5, <2>10, <2>14, <2>15, <2>16, <3>1, <3>2 DEF Parts
  <2>18. Connection(c)'
    BY <1>1, <1>3, <2>11 DEF EchoInv, Connection, Gone
  <2> QED
    BY <1>1, <1>3, <2>1, <2>10, <2>11, <2>12, <2>17, <2>18, PartsMove
<1> QED
  BY <1>2, <1>3 DEF Type

LEMMA RecvStep == ASSUME EchoInv, NEW c \in Clients, Recv(c) PROVE EchoInv'
<1>1. /\ cli[c] = "read"
      /\ UNCHANGED <<kind, name, on, srv, backlog, h, buf, zombies, sigchld, typed, up>>
  BY DEF Recv, startVars
<1>2. ASSUME Leave(c, "done"), UNCHANGED <<got, down>> PROVE EchoInv'
  BY <1>1, <1>2, LeaveKeeps
<1>3. ASSUME NEW n \in Some(down[c]),
             got' = [got EXCEPT ![c] = @ \o SubSeq(down[c], 1, n)],
             down' = [down EXCEPT ![c] = SubSeq(@, n + 1, Len(@))],
             cli' = [cli EXCEPT ![c] = "type"], UNCHANGED reset
      PROVE  EchoInv'
  <2> DEFINE F == SubSeq(down[c], 1, n)
             G == SubSeq(down[c], n + 1, Len(down[c]))
             J == got[c] \o F
  <2>1. down[c] \in Seq(Piece) /\ got[c] \in Seq(Piece) /\ n \in 1 .. Len(down[c])
    BY <1>3 DEF EchoInv, EchoTypes, Some
  <2>2. F \in Seq(Piece) /\ Len(F) = n /\ G \in Seq(Piece) /\ Len(G) = Len(down[c]) - n
    BY <2>1, SplitIs
  <2>3. Len(down[c]) \in Nat /\ Len(got[c]) \in Nat /\ n \in Nat /\ n <= Len(down[c])
    BY <2>1
  <2>4. PICK g \in Nat, e \in Nat : g = Len(got[c]) /\ e = Len(down[c])
    BY <2>3
  <2>5. Run(down[c], c, g) => Run(F, c, g) /\ Run(G, c, g + n)
    BY <2>1, RunSplit
  <2> HIDE DEF F, G
  <2>6. J \in Seq(Piece) /\ Len(J) = Len(got[c]) + Len(F)
    BY <2>1, <2>2, ConcatIs
  <2>7. /\ got' \in [Clients -> Seq(Piece)] /\ got'[c] = J
        /\ down' \in [Clients -> Seq(Piece)] /\ down'[c] = G
        /\ \A d \in Clients \ {c} : got'[d] = got[d] /\ down'[d] = down[d]
    BY <1>3, <2>2, <2>6 DEF EchoInv, EchoTypes, F, G
  <2>8. /\ cli' \in [Clients -> {"new", "type", "read", "done", "killed", "failed"}]
        /\ cli'[c] = "type" /\ \A d \in Clients \ {c} : cli'[d] = cli[d]
    BY <1>3 DEF EchoInv, EchoTypes
  <2>9. EchoTypes'
    BY <1>1, <1>3, <2>7, <2>8 DEF EchoInv, EchoTypes
  <2>10. Run(got[c], c, 0) /\ Run(down[c], c, g)
    BY <2>4 DEF EchoInv, Parts
  <2>11. Run(J, c, 0)
    <3>1. Run(F, c, 0 + Len(got[c])) /\ 0 \in Nat
      BY <2>4, <2>5, <2>10
    <3> QED
      BY <2>1, <2>2, <2>10, <3>1, RunConcat
  <2>12. Len(J) = g + n /\ Len(G) = e - n /\ g + n + (e - n) = g + e
    <3>1. n \in Nat /\ Len(J) = g + n /\ Len(G) = e - n
      BY <2>2, <2>3, <2>4, <2>6
    <3>2. g + n + (e - n) = g + e
      BY <3>1
    <3> QED
      BY <3>1, <3>2
  <2> HIDE DEF J
  <2>13. Parts(c)'
    <3>1. /\ typed[c] <= Len(Lines[c]) /\ (h[c] # "write" => buf[c] = << >>) /\ g + e <= Sent(c)
          /\ h[c] # "closed" =>
               /\ Run(buf[c], c, g + e) /\ Run(up[c], c, g + e + Len(buf[c]))
               /\ g + e + Len(buf[c]) + Len(up[c]) = Sent(c)
      BY <1>1, <2>4 DEF EchoInv, Parts, Gone
    <3>2. Len(J) + Len(G) = g + e /\ Run(G, c, Len(J))
      BY <2>5, <2>10, <2>12
    <3>3. Sent(c)' = Sent(c)
      BY <1>1 DEF Sent
    <3> QED
      BY <1>1, <2>7, <2>11, <3>1, <3>2, <3>3 DEF Parts
  <2>14. Connection(c)'
    BY <1>1, <1>3, <2>8 DEF EchoInv, Connection, Gone
  <2> QED
    BY <1>1, <1>3, <2>7, <2>8, <2>9, <2>13, <2>14, PartsMove
<1> QED
  BY <1>2, <1>3 DEF Recv

LEMMA EchoInvariant == EchoSpec => []EchoInv
<1>1. ASSUME EchoInv, [EchoNext]_echoVars PROVE EchoInv'
  <2>1. CASE UNCHANGED echoVars
    BY <1>1, <2>1, ServerOnly DEF echoVars, EchoInv, EchoTypes
  <2>2. ASSUME NEW s \in Servers, Unlink(s) \/ Bind(s) \/ Listen(s) PROVE EchoInv'
    BY <1>1, <2>2, ServerOnly DEF Unlink, Bind, Listen, Goto, startVars, clientVars, EchoInv, EchoTypes
  <2>3. CASE Sigchld
    BY <1>1, <2>3, ServerOnly DEF Sigchld, startVars, clientVars, EchoInv, EchoTypes
  <2>4. ASSUME NEW c \in Clients, Interrupt(c) PROVE EchoInv'
    BY <1>1, <2>4, LeaveKeeps DEF Interrupt, startVars
  <2> QED
    BY <1>1, <2>1, <2>2, <2>3, <2>4, AcceptStep, ReadStep, WriteStep, ConnectStep, TypeStep, RecvStep
    DEF EchoNext
<1> QED
  BY <1>1, EchoInitInv, PTL DEF EchoSpec

\* Only connections that have ended leave a zombie, only clients that have left
\* are answered with RST, and a backlog holds the clients of its server (the
\* stream echo servers of labs 7 and 8).
THEOREM EchoTypeCorrect == EchoSpec => []EchoTypeOK
<1>1. EchoInv => EchoTypeOK
  <2> SUFFICES ASSUME EchoInv PROVE EchoTypeOK
    OBVIOUS
  <2>1. \A c \in Clients : typed[c] \in 0 .. Len(Lines[c])
    <3>1. \A c \in Clients : Len(Lines[c]) \in Nat
      BY EchoAssumption
    <3> QED
      BY <3>1 DEF EchoInv, EchoTypes, Parts
  <2>2. \A s \in Servers : \A k \in 1 .. Len(backlog[s]) : on[backlog[s][k]] = s
    BY DEF EchoInv, Backlog
  <2>3. zombies \subseteq {c \in Clients : h[c] = "closed"} /\ reset \subseteq {c \in Clients : Gone(c)}
    BY DEF EchoInv, EchoTypes, Connection
  <2> QED
    BY <2>1, <2>2, <2>3 DEF EchoInv, EchoTypes, EchoTypeOK
<1> QED
  BY <1>1, EchoInvariant, PTL

\* A run from the beginning is a prefix of the whole text, and the text itself if
\* it is as long.
LEMMA RunIsPrefix ==
  ASSUME NEW c \in Clients, NEW n \in Nat, NEW s \in Seq(Piece), Run(s, c, 0), Len(s) <= n
  PROVE  IsPrefix(s, Stream(c, 0, n)) /\ (Len(s) = n => s = Stream(c, 0, n))
<1> DEFINE t == Stream(c, 0, n)
           l == Len(s)
<1>1. t \in Seq(Piece) /\ Len(t) = n /\ Run(t, c, 0)
  <2>1. 0 \in Nat /\ 0 <= n /\ n - 0 = n
    OBVIOUS
  <2> QED
    BY <2>1, StreamIs
<1> HIDE DEF t
<1>2. l \in Nat /\ l <= n
  OBVIOUS
<1>3. ASSUME NEW i \in 1 .. l PROVE s[i] = t[i]
  <2>1. i \in 1 .. Len(s) /\ i \in 1 .. Len(t)
    BY <1>1, <1>2
  <2>2. s[i] = <<c, 0 + i>>
    BY <2>1 DEF Run
  <2>3. t[i] = <<c, 0 + i>>
    BY <1>1, <2>1 DEF Run
  <2> QED
    BY <2>2, <2>3
<1>4. SubSeq(s, 1, l) = SubSeq(t, 1, l)
  <2>1. SubSeq(s, 1, l) = [i \in 1 .. l |-> s[i]]
    BY <1>2
  <2>2. SubSeq(t, 1, l) = [i \in 1 .. l |-> t[i]]
    BY <1>1, <1>2
  <2>3. [i \in 1 .. l |-> s[i]] = [i \in 1 .. l |-> t[i]]
    BY <1>3
  <2> QED
    BY <2>1, <2>2, <2>3
<1>5. l = n => s = t
  BY <1>1, <1>3
<1> QED
  BY <1>1, <1>4, <1>5 DEF IsPrefix, t

\* What a client has printed and what is on its way back to it is the beginning of
\* what it has sent, and with what the server holds and has not read, while the
\* connection is served, all of it: nothing is lost, doubled, mixed up or out of
\* order (read and write of the stream echo servers and clients of labs 7 and 8).
THEOREM ClientsGetTheirTextBack == EchoSpec => []EchoExact
<1>1. EchoInv => EchoExact
  <2> SUFFICES ASSUME EchoInv, NEW c \in Clients
               PROVE  LET all == Stream(c, 0, Pieces(c, typed[c])) IN
                      /\ IsPrefix(got[c] \o down[c], all)
                      /\ (~Gone(c) /\ h[c] # "closed") => got[c] \o down[c] \o buf[c] \o up[c] = all
    BY DEF EchoExact
  <2>1. /\ got[c] \in Seq(Piece) /\ down[c] \in Seq(Piece) /\ buf[c] \in Seq(Piece) /\ up[c] \in Seq(Piece)
        /\ typed[c] \in Nat /\ Parts(c)
    BY DEF EchoInv, EchoTypes
  <2>2. Len(Lines[c]) \in Nat
    BY EchoAssumption
  <2>3. typed[c] \in 0 .. Len(Lines[c])
    BY <2>1, <2>2 DEF Parts
  <2>4. Sent(c) \in Nat
    BY <2>3, PiecesGrow DEF Sent
  <2>5. PICK n \in Nat : n = Sent(c)
    BY <2>4
  <2>6. Len(got[c]) \in Nat /\ Len(down[c]) \in Nat /\ Len(buf[c]) \in Nat /\ Len(up[c]) \in Nat
    BY <2>1
  <2>7. PICK g \in Nat, e \in Nat, f \in Nat, u \in Nat :
           g = Len(got[c]) /\ e = Len(down[c]) /\ f = Len(buf[c]) /\ u = Len(up[c])
    BY <2>6
  <2>8. Run(got[c], c, 0) /\ Run(down[c], c, g) /\ g + e <= n
    BY <2>1, <2>5, <2>7 DEF Parts
  <2> DEFINE X == got[c] \o down[c]
             Y == X \o buf[c]
             Z == Y \o up[c]
  <2>9. X \in Seq(Piece) /\ Len(X) = g + e
    BY <2>1, <2>7, ConcatIs
  <2>10. Run(X, c, 0)
    <3>1. Run(down[c], c, 0 + Len(got[c])) /\ 0 \in Nat
      BY <2>7, <2>8
    <3> QED
      BY <2>1, <2>8, <3>1, RunConcat
  <2> HIDE DEF X
  <2>11. IsPrefix(X, Stream(c, 0, n))
    BY <2>8, <2>9, <2>10, RunIsPrefix
  <2>12. ASSUME ~Gone(c), h[c] # "closed" PROVE Z = Stream(c, 0, n)
    <3>1. Run(buf[c], c, g + e) /\ Run(up[c], c, g + e + f) /\ g + e + f + u = n
      BY <2>1, <2>5, <2>7, <2>12 DEF Parts
    <3>2. Y \in Seq(Piece) /\ Len(Y) = Len(X) + f
      BY ZenonT(30), <2>1, <2>7, <2>9, ConcatIs
    <3>3. Run(Y, c, 0)
      <4>1. Run(buf[c], c, 0 + Len(X)) /\ 0 \in Nat
        BY <2>9, <3>1
      <4> QED
        BY <2>1, <2>9, <2>10, <4>1, RunConcat
    <3> HIDE DEF Y
    <3>4. Z \in Seq(Piece) /\ Len(Z) = Len(Y) + u
      BY <2>1, <2>7, <3>2, ConcatIs
    <3>5. Run(Z, c, 0)
      <4>1. Run(up[c], c, 0 + Len(Y)) /\ 0 \in Nat
        BY <2>9, <3>1, <3>2
      <4> QED
        BY <2>1, <3>2, <3>3, <4>1, RunConcat
    <3>6. Len(Z) = n
      BY <2>9, <3>1, <3>2, <3>4
    <3> HIDE DEF Z
    <3> QED
      BY <3>4, <3>5, <3>6, RunIsPrefix
  <2>13. n = Pieces(c, typed[c])
    BY <2>5 DEF Sent
  <2> QED
    BY <2>11, <2>12, <2>13 DEF X
<1> QED
  BY <1>1, EchoInvariant, PTL
=============================================================================
