------------------------------ MODULE QueueProofs ------------------------------
(***************************************************************************)
(* Theorems on the programs that talk through message queues: MsgQueue     *)
(* (labs 1 and 2) and FileOnce (lab 2), for any number of runs and clients.*)
(***************************************************************************)
EXTENDS MsgQueue, FileOnce, FiniteSetTheorems, WellFoundedInduction, TLAPS

LEMMA AppendIs ==
  ASSUME NEW S, NEW s \in Seq(S), NEW e \in S
  PROVE  /\ Append(s, e) \in Seq(S)
         /\ Len(s) \in Nat /\ Len(Append(s, e)) = Len(s) + 1
         /\ \A i \in 1 .. Len(s) : Append(s, e)[i] = s[i]
         /\ Append(s, e)[Len(s) + 1] = e
OBVIOUS

LEMMA TailIs ==
  ASSUME NEW S, NEW s \in Seq(S), s # << >>
  PROVE  /\ Tail(s) \in Seq(S) /\ Head(s) \in S /\ Head(s) = s[1]
         /\ Len(s) \in Nat \ {0} /\ Len(Tail(s)) = Len(s) - 1
         /\ \A i \in 1 .. Len(s) - 1 : Tail(s)[i] = s[i + 1]
OBVIOUS

-----------------------------------------------------------------------------
(* FileOnce: the inductive invariant.                                      *)

AskedOnce == \A i, k \in 1 .. Len(asked) : asked[i] = asked[k] => i = k

\* The server holds a request from msgrcv to fork.
Held == taken1 # "nobody" <=> loop = "fork"

\* A request that is nowhere else: its client waits and it is not lost.
Pending(c) == fetcher[c] = "wait" /\ c \notin dropped

\* A request is in one place after the other: in the queue, with the server, with
\* the child, and, as the answer, in the queue of its client.
OnePlace(c) ==
    /\ Queued(c) => Pending(c) /\ taken1 # c /\ kid[c] = "none" /\ clientId[c] = << >>
    /\ taken1 = c => Pending(c) /\ kid[c] = "none" /\ clientId[c] = << >>
    /\ kid[c] \in {"read", "send"} => Pending(c) /\ clientId[c] = << >>
    /\ clientId[c] # << >> => Pending(c) /\ kid[c] = "gone" /\ Len(clientId[c]) = 1
    /\ Pending(c) =>
         Queued(c) \/ taken1 = c \/ kid[c] \in {"read", "send"} \/ clientId[c] # << >>
    /\ fetcher[c] = "new" => kid[c] = "none"
    /\ c \in dropped => kid[c] \in {"none", "gone"} /\ fetcher[c] = "wait"

\* Something may follow only all of a file shorter than an answer.
Whole(c, m) == m.rest => m.len = Size[c] /\ Size[c] \in 0 .. MaxData - 2

\* The answer to c's request: its own file, or the beginning of it.
Correct(c, m) == m.of = c /\ m.len = SentOf(c) /\ Whole(c, m)

\* What it prints of that answer.
Printed(c, m) == m.of = c /\ m.len = PrintedOf(c) /\ Whole(c, m)

\* Whoever has the answer has the right one.
RightAnswer(c) ==
    /\ kid[c] = "send" => resp[c] \in Contents /\ Correct(c, resp[c])
    /\ clientId[c] # << >> => Correct(c, clientId[c][1])
    /\ fetcher[c] = "shown" => Printed(c, shown1[c])

FileInv ==
    /\ FileTypeOK /\ AskedOnce /\ Held
    /\ \A c \in Fetchers : OnePlace(c) /\ RightAnswer(c)

Good(c) == OnePlace(c) /\ RightAnswer(c)

\* A step in which c's request stays where it is.
LEMMA Stays ==
  ASSUME FileInv, NEW c \in Fetchers, Queued(c)' <=> Queued(c), (taken1 = c)' <=> (taken1 = c),
         kid'[c] = kid[c], clientId'[c] = clientId[c], fetcher'[c] = fetcher[c],
         c \in dropped' <=> c \in dropped, resp'[c] = resp[c], shown1'[c] = shown1[c]
  PROVE  Good(c)'
<1>1. OnePlace(c) /\ RightAnswer(c)
  BY DEF FileInv
<1>2. Pending(c)' <=> Pending(c)
  BY DEF Pending
<1>3. OnePlace(c)'
  BY <1>1, <1>2 DEF OnePlace
<1>4. RightAnswer(c)'
  BY <1>1 DEF RightAnswer, Correct, Printed, Whole
<1> QED
  BY <1>3, <1>4 DEF Good

\* Steps that leave the queue of requests as it is.
LEMMA SameQueue ==
  ASSUME asked' = asked
  PROVE  (AskedOnce => AskedOnce') /\ \A c \in Fetchers : Queued(c)' <=> Queued(c)
BY DEF AskedOnce, Queued

LEMMA FileInitInv == FileInit => FileInv
<1> SUFFICES ASSUME FileInit PROVE FileInv
  OBVIOUS
<1> USE DEF FileInit
<1>1. FileTypeOK
  <2>1. << >> \in Seq(Fetchers) /\ << >> \in Seq(Contents)
    OBVIOUS
  <2>2. asked \in Seq(Fetchers) /\ clientId \in [Fetchers -> Seq(Contents)]
    BY <2>1
  <2>3. resp \in [Fetchers -> Contents \cup {Nothing}] /\ shown1 \in [Fetchers -> Contents \cup {Nothing}]
    OBVIOUS
  <2>4. kills \in 0 .. MaxKills
    BY FileOnceAssumption
  <2> QED
    BY <2>2, <2>3, <2>4 DEF FileTypeOK
<1>2. AskedOnce /\ Held
  BY DEF AskedOnce, Held
<1>3. ASSUME NEW c \in Fetchers PROVE OnePlace(c) /\ RightAnswer(c)
  <2>1. ~Queued(c) /\ taken1 # c
    BY FileOnceAssumption DEF Queued
  <2> QED
    BY <2>1 DEF OnePlace, RightAnswer, Pending
<1> QED
  BY <1>1, <1>2, <1>3 DEF FileInv

LEMMA StartServerStep ==
  ASSUME FileInv, StartServer
  PROVE  FileInv'
<1>1. FileTypeOK' /\ Held'
  BY DEF FileInv, StartServer, FileTypeOK, Held
<1>2. AskedOnce' /\ \A c \in Fetchers : Good(c)'
  BY SameQueue, Stays DEF FileInv, StartServer
<1> QED
  BY <1>1, <1>2 DEF FileInv, Good

\* msgrcv of the server moves one request from the queue to its hands.
LEMMA TakenOff ==
  ASSUME FileInv, TakeRequest
  PROVE  /\ taken1 = "nobody" /\ taken1' \in Fetchers /\ Queued(taken1')
         /\ asked' \in Seq(Fetchers) /\ AskedOnce'
         /\ \A c \in Fetchers : Queued(c)' <=> (Queued(c) /\ taken1' # c)
<1>1. /\ loop = "recv" /\ taken1' = Head(asked) /\ asked' = Tail(asked)
      /\ asked \in Seq(Fetchers) /\ asked # << >>
  BY DEF FileInv, TakeRequest, FileTypeOK
<1>2. /\ asked' \in Seq(Fetchers) /\ taken1' \in Fetchers /\ taken1' = asked[1]
      /\ Len(asked) \in Nat \ {0} /\ Len(asked') = Len(asked) - 1
      /\ \A i \in 1 .. Len(asked) - 1 : asked'[i] = asked[i + 1]
  BY <1>1, TailIs
<1>3. AskedOnce /\ taken1 = "nobody"
  BY <1>1 DEF FileInv, Held
<1>4. AskedOnce'
  <2> SUFFICES ASSUME NEW i \in 1 .. Len(asked'), NEW k \in 1 .. Len(asked'), asked'[i] = asked'[k]
               PROVE  i = k
    BY DEF AskedOnce
  <2>1. i + 1 \in 1 .. Len(asked) /\ k + 1 \in 1 .. Len(asked) /\ asked[i + 1] = asked[k + 1]
    BY <1>2
  <2> QED
    BY <1>2, <1>3, <2>1 DEF AskedOnce
<1>5. ASSUME NEW c \in Fetchers
      PROVE  Queued(c)' <=> (Queued(c) /\ taken1' # c)
  <2>1. ASSUME NEW i \in 1 .. Len(asked'), asked'[i] = c PROVE Queued(c) /\ taken1' # c
    <3>1. i + 1 \in 1 .. Len(asked) /\ 1 \in 1 .. Len(asked) /\ asked[i + 1] = c /\ i + 1 # 1
      BY <1>2, <2>1
    <3> QED
      BY <1>2, <1>3, <3>1 DEF Queued, AskedOnce
  <2>2. ASSUME NEW i \in 1 .. Len(asked), asked[i] = c, taken1' # c PROVE Queued(c)'
    <3>1. i # 1 /\ i - 1 \in 1 .. Len(asked') /\ asked'[i - 1] = asked[i]
      BY <1>2, <2>2
    <3> QED
      BY <2>2, <3>1 DEF Queued
  <2> QED
    BY <2>1, <2>2 DEF Queued
<1>6. Queued(taken1')
  BY <1>2 DEF Queued
<1> QED
  BY <1>2, <1>3, <1>4, <1>5, <1>6

LEMMA TakeRequestStep ==
  ASSUME FileInv, TakeRequest
  PROVE  FileInv'
<1>1. loop' = "fork" /\ UNCHANGED <<serverId, kid, resp, clientId, fetcher, shown1, dropped, kills>>
  BY DEF TakeRequest
<1>2. /\ taken1 = "nobody" /\ taken1' \in Fetchers /\ Queued(taken1')
      /\ asked' \in Seq(Fetchers) /\ AskedOnce'
      /\ \A c \in Fetchers : Queued(c)' <=> (Queued(c) /\ taken1' # c)
  BY TakenOff
<1>3. FileTypeOK' /\ Held'
  BY <1>1, <1>2, FileOnceAssumption DEF FileInv, FileTypeOK, Held
<1>4. ASSUME NEW c \in Fetchers PROVE Good(c)'
  <2>1. CASE c = taken1'
    <3>1. Queued(c) /\ ~Queued(c)' /\ OnePlace(c) /\ RightAnswer(c)
      BY <1>2, <2>1 DEF FileInv
    <3> QED
      BY <1>1, <2>1, <3>1 DEF Good, OnePlace, RightAnswer, Pending, Correct, Printed, Whole
  <2>2. CASE c # taken1'
    BY <1>1, <1>2, <2>2, FileOnceAssumption, Stays
  <2> QED
    BY <2>1, <2>2
<1> QED
  BY <1>2, <1>3, <1>4 DEF FileInv, Good

\* The request leaves the server, to a child or for good.
LEMMA LeavesServer ==
  ASSUME FileInv, loop = "fork", loop' # "fork", taken1' = "nobody", FileTypeOK',
         \/ kid' = [kid EXCEPT ![taken1] = "read"] /\ dropped' = dropped
         \/ dropped' = dropped \cup {taken1} /\ kid' = kid,
         UNCHANGED <<asked, resp, clientId, fetcher, shown1>>
  PROVE  FileInv'
<1>1. taken1 \in Fetchers
  BY DEF FileInv, Held, FileTypeOK
<1>2. AskedOnce' /\ Held'
  BY SameQueue DEF FileInv, Held
<1>3. ASSUME NEW c \in Fetchers PROVE Good(c)'
  <2>1. Queued(c)' <=> Queued(c)
    BY SameQueue
  <2>2. CASE c = taken1
    <3>1. OnePlace(c) /\ RightAnswer(c) /\ c # "nobody"
      BY FileOnceAssumption DEF FileInv
    <3>2. (kid'[c] = "read" /\ dropped' = dropped) \/ (kid'[c] = kid[c] /\ c \in dropped')
      BY <2>2 DEF FileInv, FileTypeOK
    <3> QED
      BY <2>1, <2>2, <3>1, <3>2 DEF Good, OnePlace, RightAnswer, Pending, Correct, Printed, Whole
  <2>3. CASE c # taken1
    <3>1. kid'[c] = kid[c] /\ (c \in dropped' <=> c \in dropped) /\ taken1' # c
      BY <1>1, <2>3, FileOnceAssumption DEF FileInv, FileTypeOK
    <3> QED
      BY <2>1, <2>3, <3>1, Stays
  <2> QED
    BY <2>2, <2>3
<1> QED
  BY <1>2, <1>3 DEF FileInv, Good

LEMMA ForkStep ==
  ASSUME FileInv, Fork
  PROVE  FileInv'
<1>1. taken1 \in Fetchers
  BY DEF FileInv, Held, FileTypeOK, Fork
<1>2. FileTypeOK'
  BY <1>1 DEF FileInv, FileTypeOK, Fork
<1> QED
  BY <1>2, LeavesServer DEF Fork

LEMMA KillServerStep ==
  ASSUME FileInv, KillServer
  PROVE  FileInv'
<1>1. CASE loop = "fork"
  <2>1. taken1 \in Fetchers
    BY <1>1 DEF FileInv, Held, FileTypeOK
  <2>2. FileTypeOK'
    BY <1>1, <2>1, FileOnceAssumption DEF FileInv, FileTypeOK, KillServer
  <2> QED
    BY <1>1, <2>2, LeavesServer DEF KillServer
<1>2. CASE loop # "fork"
  <2>1. FileTypeOK' /\ Held'
    BY <1>2, FileOnceAssumption DEF FileInv, FileTypeOK, Held, KillServer
  <2>2. taken1' = taken1
    BY <1>2 DEF FileInv, Held, KillServer
  <2>3. AskedOnce' /\ \A c \in Fetchers : Good(c)'
    BY <1>2, <2>2, SameQueue, Stays DEF FileInv, KillServer
  <2> QED
    BY <2>1, <2>3 DEF FileInv, Good
<1> QED
  BY <1>1, <1>2

LEMMA FetchStep ==
  ASSUME FileInv, NEW c \in Fetchers, Fetch(c)
  PROVE  FileInv'
<1> DEFINE room == MaxData - 1
<1>1. PICK rest \in BOOLEAN :
        /\ rest => Size[c] # NoFile /\ Size[c] < room
        /\ resp' = [resp EXCEPT ![c] = [of |-> c, len |-> IF Size[c] > room THEN room ELSE Size[c], rest |-> rest]]
  BY DEF Fetch
<1> DEFINE m == [of |-> c, len |-> IF Size[c] > room THEN room ELSE Size[c], rest |-> rest]
<1>2. m \in Contents /\ Correct(c, m)
  <2>1. Size[c] \in Nat \cup {NoFile} /\ MaxData \in Nat \ {0} /\ NoFile = -1
    BY FileOnceAssumption DEF NoFile
  <2>2. m.len \in NoFile .. MaxData /\ m.of = c /\ m.rest = rest
    BY <2>1
  <2>3. m.len = SentOf(c)
    BY <2>1 DEF SentOf
  <2>4. rest => m.len = Size[c] /\ Size[c] \in 0 .. MaxData - 2
    BY <1>1, <2>1
  <2> HIDE DEF m
  <2> QED
    <3>1. m.of = c /\ m.len \in NoFile .. MaxData /\ m.rest = rest
      BY <2>2
    <3>2. m \in Contents
      BY <2>1, <2>2 DEF Contents, m
    <3> QED
      BY <3>1, <3>2, <2>3, <2>4 DEF Correct, Whole
<1> HIDE DEF m
<1>3. /\ kid[c] = "read" /\ kid' = [kid EXCEPT ![c] = "send"] /\ resp' = [resp EXCEPT ![c] = m]
      /\ UNCHANGED <<serverId, loop, asked, taken1, clientId, fetcher, shown1, dropped, kills>>
  BY <1>1 DEF Fetch, m
<1>4. FileTypeOK'
  BY <1>2, <1>3 DEF FileInv, FileTypeOK
<1>5. AskedOnce' /\ Held'
  BY <1>3, SameQueue DEF FileInv, Held
<1>6. Good(c)'
  <2>1. kid'[c] = "send" /\ resp'[c] = m
    BY <1>3 DEF FileInv, FileTypeOK
  <2>2. Queued(c)' <=> Queued(c)
    BY <1>3, SameQueue
  <2>3. OnePlace(c) /\ RightAnswer(c)
    BY DEF FileInv
  <2>4. OnePlace(c)'
    BY <1>3, <2>1, <2>2, <2>3 DEF OnePlace, Pending
  <2>5. RightAnswer(c)'
    BY <1>2, <1>3, <2>1, <2>3 DEF RightAnswer, Correct, Printed, Whole, OnePlace, Pending
  <2> QED
    BY <2>4, <2>5 DEF Good
<1>7. ASSUME NEW d \in Fetchers, d # c PROVE Good(d)'
  <2>1. kid'[d] = kid[d] /\ resp'[d] = resp[d] /\ (Queued(d)' <=> Queued(d))
    BY <1>3, <1>7, SameQueue DEF FileInv, FileTypeOK
  <2> QED
    BY <1>3, <2>1, Stays
<1> QED
  BY <1>4, <1>5, <1>6, <1>7 DEF FileInv, Good

LEMMA RespondStep ==
  ASSUME FileInv, NEW c \in Fetchers, Respond(c)
  PROVE  FileInv'
<1> DEFINE q == Append(clientId[c], resp[c])
<1>1. /\ kid[c] = "send" /\ kid' = [kid EXCEPT ![c] = "gone"]
      /\ clientId' = [clientId EXCEPT ![c] = q]
      /\ UNCHANGED <<serverId, loop, asked, taken1, resp, fetcher, shown1, dropped, kills>>
  BY DEF Respond
<1>2. OnePlace(c) /\ RightAnswer(c)
  BY DEF FileInv
<1>3. clientId[c] = << >> /\ resp[c] \in Contents /\ Correct(c, resp[c]) /\ Pending(c)
  BY <1>1, <1>2 DEF OnePlace, RightAnswer
<1>4. q \in Seq(Contents) /\ Len(q) = 1 /\ q[1] = resp[c] /\ q # << >>
  BY <1>3
<1> HIDE DEF q
<1>5. FileTypeOK'
  BY <1>1, <1>4 DEF FileInv, FileTypeOK
<1>6. AskedOnce' /\ Held'
  BY <1>1, SameQueue DEF FileInv, Held
<1>7. Good(c)'
  <2>1. kid'[c] = "gone" /\ clientId'[c] = q
    BY <1>1 DEF FileInv, FileTypeOK
  <2>2. Queued(c)' <=> Queued(c)
    BY <1>1, SameQueue
  <2>3. OnePlace(c)'
    BY <1>1, <1>2, <1>3, <1>4, <2>1, <2>2 DEF OnePlace, Pending
  <2>4. RightAnswer(c)'
    BY <1>1, <1>2, <1>3, <1>4, <2>1 DEF RightAnswer, Correct, Printed, Whole
  <2> QED
    BY <2>3, <2>4 DEF Good
<1>8. ASSUME NEW d \in Fetchers, d # c PROVE Good(d)'
  <2>1. kid'[d] = kid[d] /\ clientId'[d] = clientId[d] /\ (Queued(d)' <=> Queued(d))
    BY <1>1, <1>8, SameQueue DEF FileInv, FileTypeOK
  <2> QED
    BY <1>1, <2>1, Stays
<1> QED
  BY <1>5, <1>6, <1>7, <1>8 DEF FileInv, Good

\* A child that is killed takes its request with it.
LEMMA KillChildStep ==
  ASSUME FileInv, NEW c \in Fetchers, KillChild(c)
  PROVE  FileInv'
<1>1. /\ kid[c] \in {"read", "send"} /\ kid' = [kid EXCEPT ![c] = "gone"] /\ dropped' = dropped \cup {c}
      /\ kills < MaxKills /\ kills' = kills + 1
      /\ UNCHANGED <<serverId, loop, asked, taken1, resp, clientId, fetcher, shown1>>
  BY DEF KillChild
<1>2. OnePlace(c) /\ RightAnswer(c)
  BY DEF FileInv
<1>3. FileTypeOK'
  BY <1>1, FileOnceAssumption DEF FileInv, FileTypeOK
<1>4. AskedOnce' /\ Held'
  BY <1>1, SameQueue DEF FileInv, Held
<1>5. Good(c)'
  <2>1. kid'[c] = "gone" /\ c \in dropped' /\ (Queued(c)' <=> Queued(c))
    BY <1>1, SameQueue DEF FileInv, FileTypeOK
  <2>2. ~Queued(c) /\ taken1 # c /\ clientId[c] = << >> /\ fetcher[c] = "wait"
    BY <1>1, <1>2 DEF OnePlace, Pending
  <2>3. OnePlace(c)'
    BY <1>1, <2>1, <2>2 DEF OnePlace, Pending
  <2>4. RightAnswer(c)'
    BY <1>1, <2>1, <2>2 DEF RightAnswer
  <2> QED
    BY <2>3, <2>4 DEF Good
<1>6. ASSUME NEW d \in Fetchers, d # c PROVE Good(d)'
  <2>1. kid'[d] = kid[d] /\ (d \in dropped' <=> d \in dropped) /\ (Queued(d)' <=> Queued(d))
    BY <1>1, <1>6, SameQueue DEF FileInv, FileTypeOK
  <2> QED
    BY <1>1, <2>1, Stays
<1> QED
  BY <1>3, <1>4, <1>5, <1>6 DEF FileInv, Good

LEMMA RequestStep ==
  ASSUME FileInv, NEW c \in Fetchers, Request(c)
  PROVE  FileInv'
<1>1. /\ fetcher[c] = "new" /\ fetcher' = [fetcher EXCEPT ![c] = IF serverId THEN "wait" ELSE "failed"]
      /\ asked' = IF serverId THEN Append(asked, c) ELSE asked
      /\ UNCHANGED <<serverId, loop, taken1, kid, resp, clientId, shown1, dropped, kills>>
  BY DEF Request
<1>2. OnePlace(c) /\ RightAnswer(c) /\ asked \in Seq(Fetchers) /\ serverId \in BOOLEAN
  BY DEF FileInv, FileTypeOK
<1>3. ~Queued(c) /\ taken1 # c /\ kid[c] = "none" /\ clientId[c] = << >> /\ c \notin dropped
  BY <1>1, <1>2 DEF OnePlace, Pending
<1>4. fetcher'[c] = (IF serverId THEN "wait" ELSE "failed") /\ \A d \in Fetchers \ {c} : fetcher'[d] = fetcher[d]
  BY <1>1 DEF FileInv, FileTypeOK
<1>5. CASE serverId
  <2>1. /\ asked' \in Seq(Fetchers) /\ Len(asked) \in Nat /\ Len(asked') = Len(asked) + 1
        /\ \A i \in 1 .. Len(asked) : asked'[i] = asked[i]
        /\ asked'[Len(asked) + 1] = c
    BY <1>1, <1>2, <1>5, AppendIs
  <2>2. FileTypeOK' /\ Held'
    BY <1>1, <1>5, <2>1 DEF FileInv, FileTypeOK, Held
  <2>3. \A i \in 1 .. Len(asked') : i = Len(asked) + 1 \/ i \in 1 .. Len(asked)
    BY <2>1
  <2>4. AskedOnce'
    BY <1>3, <2>1, <2>3 DEF AskedOnce, Queued, FileInv
  <2>5. \A d \in Fetchers : Queued(d)' <=> (Queued(d) \/ d = c)
    <3>1. Len(asked) + 1 \in 1 .. Len(asked') /\ 1 .. Len(asked) \subseteq 1 .. Len(asked')
      BY <2>1
    <3> QED
      BY <2>1, <2>3, <3>1 DEF Queued
  <2>6. Good(c)'
    BY <1>1, <1>2, <1>3, <1>4, <1>5, <2>5 DEF Good, OnePlace, RightAnswer, Pending, Correct, Printed, Whole
  <2>7. ASSUME NEW d \in Fetchers, d # c PROVE Good(d)'
    BY <1>1, <1>4, <2>5, <2>7, Stays
  <2> QED
    BY <2>2, <2>4, <2>6, <2>7 DEF FileInv, Good
<1>6. CASE ~serverId
  <2>1. asked' = asked
    BY <1>1, <1>6
  <2>2. FileTypeOK' /\ Held'
    BY <1>1, <1>6, <2>1 DEF FileInv, FileTypeOK, Held
  <2>3. AskedOnce' /\ \A d \in Fetchers : Queued(d)' <=> Queued(d)
    BY <2>1, SameQueue DEF FileInv
  <2>4. Good(c)'
    BY <1>1, <1>2, <1>3, <1>4, <1>6, <2>3 DEF Good, OnePlace, RightAnswer, Pending, Correct, Printed, Whole
  <2>5. ASSUME NEW d \in Fetchers, d # c PROVE Good(d)'
    BY <1>1, <1>4, <2>3, <2>5, Stays
  <2> QED
    BY <2>2, <2>3, <2>4, <2>5 DEF FileInv, Good
<1> QED
  BY <1>5, <1>6

\* %s stops at the first zero byte, if there is one.
LEMMA UpToZeroIs ==
  ASSUME NEW c \in Fetchers, NEW m \in Contents, Correct(c, m)
  PROVE  /\ UpToZero(m) \in Contents /\ Printed(c, UpToZero(m))
         /\ UpToZero(m).len = NoFile <=> m.len = NoFile
<1> DEFINE u == UpToZero(m)
           cut == m.len # NoFile /\ FirstZero[c] < m.len
<1>1. Size[c] \in Nat \cup {NoFile} /\ FirstZero[c] \in Nat /\ MaxData \in Nat \ {0} /\ NoFile = -1
  BY FileOnceAssumption DEF NoFile
<1>2. /\ m.of = c /\ m.len = SentOf(c) /\ Whole(c, m) /\ m.len \in NoFile .. MaxData
      /\ m.rest \in BOOLEAN
  BY DEF Correct, Contents
<1>3. PICK n \in NoFile .. MaxData, b \in BOOLEAN : m = [of |-> c, len |-> n, rest |-> b]
  BY <1>2 DEF Contents
<1>4. CASE cut
  <2>1. u = [of |-> c, len |-> FirstZero[c], rest |-> FALSE]
    <3>1. u = [m EXCEPT !.len = FirstZero[c], !.rest = FALSE]
      BY <1>1, <1>2, <1>4 DEF UpToZero
    <3> HIDE DEF u
    <3> QED
      BY <1>3, <3>1
  <2>2. u \in Contents /\ u.of = c /\ u.len = FirstZero[c] /\ ~u.rest
    <3>1. FirstZero[c] \in NoFile .. MaxData
      BY <1>1, <1>2, <1>4
    <3> QED
      BY <2>1, <3>1 DEF Contents
  <2>3. FirstZero[c] = PrintedOf(c) /\ FirstZero[c] # NoFile
    BY <1>1, <1>2, <1>4 DEF PrintedOf, SentOf
  <2> QED
    BY <1>4, <2>2, <2>3 DEF Printed, Whole
<1>5. CASE ~cut
  <2>1. u = m
    BY <1>1, <1>2, <1>5 DEF UpToZero
  <2>2. m.len = PrintedOf(c)
    BY <1>1, <1>2, <1>5 DEF PrintedOf, SentOf
  <2> QED
    BY <1>2, <2>1, <2>2 DEF Printed
<1> QED
  BY <1>4, <1>5

LEMMA ShowStep ==
  ASSUME FileInv, NEW c \in Fetchers, Show(c)
  PROVE  FileInv'
<1> DEFINE m == UpToZero(Head(clientId[c]))
<1>1. /\ fetcher[c] = "wait" /\ clientId[c] # << >>
      /\ shown1' = [shown1 EXCEPT ![c] = m]
      /\ clientId' = [clientId EXCEPT ![c] = << >>]
      /\ fetcher' = [fetcher EXCEPT ![c] = "shown"]
      /\ UNCHANGED <<serverId, loop, asked, taken1, kid, resp, dropped, kills>>
  BY DEF Show
<1>2. OnePlace(c) /\ RightAnswer(c) /\ clientId[c] \in Seq(Contents)
  BY DEF FileInv, FileTypeOK
<1>3. m \in Contents /\ Printed(c, m)
  <2>1. Head(clientId[c]) \in Contents /\ Head(clientId[c]) = clientId[c][1]
    BY <1>1, <1>2, TailIs
  <2>2. Correct(c, Head(clientId[c]))
    BY <1>1, <1>2, <2>1 DEF RightAnswer
  <2> QED
    BY <2>1, <2>2, UpToZeroIs
<1> HIDE DEF m
<1>4. FileTypeOK'
  <2>1. << >> \in Seq(Contents)
    OBVIOUS
  <2> QED
    BY <1>1, <1>3, <2>1 DEF FileInv, FileTypeOK
<1>5. AskedOnce' /\ Held'
  BY <1>1, SameQueue DEF FileInv, Held
<1>6. Good(c)'
  <2>1. shown1'[c] = m /\ clientId'[c] = << >> /\ fetcher'[c] = "shown"
    BY <1>1 DEF FileInv, FileTypeOK
  <2>2. ~Queued(c) /\ taken1 # c /\ kid[c] = "gone" /\ c \notin dropped
    BY <1>1, <1>2, SameQueue DEF OnePlace, Pending
  <2>3. ~Queued(c)'
    BY <1>1, <2>2, SameQueue
  <2>4. OnePlace(c)'
    BY <1>1, <2>1, <2>2, <2>3 DEF OnePlace, Pending
  <2>5. RightAnswer(c)'
    BY <1>1, <1>3, <2>1, <2>2 DEF RightAnswer, Correct, Printed, Whole
  <2> QED
    BY <2>4, <2>5 DEF Good
<1>7. ASSUME NEW d \in Fetchers, d # c PROVE Good(d)'
  <2>1. /\ shown1'[d] = shown1[d] /\ clientId'[d] = clientId[d] /\ fetcher'[d] = fetcher[d]
        /\ (Queued(d)' <=> Queued(d))
    BY <1>1, <1>7, SameQueue DEF FileInv, FileTypeOK
  <2> QED
    BY <1>1, <2>1, Stays
<1> QED
  BY <1>4, <1>5, <1>6, <1>7 DEF FileInv, Good

LEMMA FileInvariance == FileSpec => []FileInv
<1>1. ASSUME FileInv, FileNext PROVE FileInv'
  BY <1>1, StartServerStep, TakeRequestStep, ForkStep, KillServerStep, FetchStep, RespondStep,
     KillChildStep, RequestStep, ShowStep DEF FileNext
<1>2. ASSUME FileInv, UNCHANGED fileVars PROVE FileInv'
  <2>1. UNCHANGED <<serverId, loop, asked, taken1, kid, resp, clientId, fetcher, shown1, dropped, kills>>
    BY <1>2 DEF fileVars
  <2>2. FileTypeOK' /\ Held'
    BY <1>2, <2>1 DEF FileInv, FileTypeOK, Held
  <2>3. AskedOnce' /\ \A c \in Fetchers : Good(c)'
    BY <1>2, <2>1, SameQueue, Stays DEF FileInv
  <2> QED
    BY <2>2, <2>3 DEF FileInv, Good
<1> QED
  BY <1>1, <1>2, FileInitInv, PTL DEF FileSpec

\* Every reachable state of the file server in C has its type.
THEOREM FileTypeCorrect == FileSpec => []FileTypeOK
<1>1. FileInv => FileTypeOK
  BY DEF FileInv
<1> QED
  BY <1>1, FileInvariance, PTL

\* Where the request of c is, as a number.
LEMMA PlacesIs ==
  ASSUME FileInv, NEW c \in Fetchers
  PROVE  /\ Places(c) = (IF Queued(c) THEN 1 ELSE 0) + (IF taken1 = c THEN 1 ELSE 0)
                        + (IF kid[c] \in {"read", "send"} THEN 1 ELSE 0) + Len(clientId[c])
         /\ Len(clientId[c]) \in Nat /\ (clientId[c] = << >> => Len(clientId[c]) = 0)
<1> DEFINE at == {k \in 1 .. Len(asked) : asked[k] = c}
<1>1. Cardinality(at) = IF Queued(c) THEN 1 ELSE 0
  <2>1. CASE Queued(c)
    <3>1. PICK k \in 1 .. Len(asked) : asked[k] = c
      BY <2>1 DEF Queued
    <3>2. at = {k}
      BY <3>1 DEF FileInv, AskedOnce
    <3> QED
      BY <2>1, <3>2, FS_Singleton
  <2>2. CASE ~Queued(c)
    <3>1. at = {}
      BY <2>2 DEF Queued
    <3> QED
      BY <2>2, <3>1, FS_EmptySet
  <2> QED
    BY <2>1, <2>2
<1>2. clientId[c] \in Seq(Contents)
  BY DEF FileInv, FileTypeOK
<1>3. Len(clientId[c]) \in Nat /\ (clientId[c] = << >> => Len(clientId[c]) = 0)
  BY <1>2
<1> QED
  BY <1>1, <1>3 DEF Places

\* A request is answered at most once, lost only by a failed fork or with a killed
\* server or child, and a client prints its own file, or its beginning: what the
\* message holds, up to the first zero byte.
THEOREM AnsweredOnce == FileSpec => []FetchedOnce
<1>1. FileInv => FetchedOnce
  <2> SUFFICES ASSUME FileInv, NEW c \in Fetchers
               PROVE  /\ Places(c) <= 1
                      /\ (fetcher[c] = "wait" /\ c \notin dropped) => Places(c) = 1
                      /\ fetcher[c] = "shown" =>
                           /\ Places(c) = 0 /\ shown1[c].of = c /\ shown1[c].len = PrintedOf(c)
                           /\ shown1[c].rest => shown1[c].len = Size[c] /\ Size[c] \in 0 .. MaxData - 2
    BY DEF FetchedOnce
  <2>1. OnePlace(c) /\ RightAnswer(c)
    BY DEF FileInv
  <2>2. Places(c) <= 1 /\ (Pending(c) => Places(c) = 1) /\ (fetcher[c] = "shown" => Places(c) = 0)
    <3> DEFINE q == IF Queued(c) THEN 1 ELSE 0
    <3> DEFINE h == IF taken1 = c THEN 1 ELSE 0
    <3> DEFINE k == IF kid[c] \in {"read", "send"} THEN 1 ELSE 0
    <3> DEFINE n == Len(clientId[c])
    <3>1. Places(c) = q + h + k + n /\ n \in Nat /\ (clientId[c] = << >> => n = 0)
      BY PlacesIs
    <3>5. (clientId[c] # << >> => n = 1) /\ n <= 1
      <4>1. clientId[c] # << >> => Len(clientId[c]) = 1
        BY <2>1 DEF OnePlace
      <4>2. clientId[c] # << >> => n = 1
        BY <4>1
      <4> HIDE DEF n, q, h, k
      <4> QED
        BY <3>1, <4>2
    <3>2. /\ q = 1 => h = 0 /\ k = 0 /\ n = 0
          /\ h = 1 => k = 0 /\ n = 0
          /\ k = 1 => n = 0
          /\ Pending(c) => q = 1 \/ h = 1 \/ k = 1 \/ n = 1
          /\ ~Pending(c) => q = 0 /\ h = 0 /\ k = 0 /\ n = 0
      <4> HIDE DEF n
      <4> QED
        BY <2>1, <3>1, <3>5 DEF OnePlace
    <3>3. q \in {0, 1} /\ h \in {0, 1} /\ k \in {0, 1}
      OBVIOUS
    <3>4. fetcher[c] = "shown" => ~Pending(c)
      BY DEF Pending
    <3> HIDE DEF q, h, k, n
    <3> QED
      BY <3>1, <3>2, <3>3, <3>4, <3>5
  <2> QED
    BY <2>1, <2>2 DEF Pending, RightAnswer, Printed, Whole
<1> QED
  BY <1>1, FileInvariance, PTL

-----------------------------------------------------------------------------
(* FileOnce implements FileService.                                        *)

\* A step that shows in nobody's request or answer.
LEMMA NothingShows ==
  ASSUME UNCHANGED <<clientId, fetcher, shown1>>, \A d \in Fetchers : OwedTo(d)' <=> OwedTo(d)
  PROVE  UNCHANGED SingleAnswer!serviceVars
BY DEF SingleAnswer!serviceVars, Says

\* A failed fork or a killed server loses what the server has taken, a killed
\* child what it was to answer.
LEMMA ForgetIsLose ==
  ASSUME FileInv, NEW c \in Fetchers, UNCHANGED <<asked, clientId, fetcher, shown1>>,
         \/ taken1 = c /\ taken1' = "nobody" /\ UNCHANGED kid
         \/ KillChild(c)
  PROVE  SingleAnswer!Lose(c)
<1>1. OwedTo(c)
  BY DEF OwedTo, KillChild
<1>2. ~OwedTo(c)'
  BY FileOnceAssumption DEF FileInv, FileTypeOK, OnePlace, OwedTo, Queued, KillChild
<1>3. \A d \in Fetchers \ {c} : OwedTo(d)' <=> OwedTo(d)
  BY FileOnceAssumption DEF OwedTo, Queued, KillChild, FileInv, FileTypeOK
<1> QED
  BY <1>1, <1>2, <1>3 DEF SingleAnswer!Lose, Says

\* msgsnd of the client asks.
LEMMA RequestIsAsk ==
  ASSUME FileInv, NEW c \in Fetchers, Request(c), serverId
  PROVE  SingleAnswer!Ask(c)
<1>1. /\ fetcher[c] = "new" /\ fetcher'[c] = "wait" /\ asked \in Seq(Fetchers)
      /\ \A d \in Fetchers \ {c} : fetcher'[d] = fetcher[d]
      /\ asked' = Append(asked, c) /\ UNCHANGED <<taken1, kid, clientId, shown1>>
  BY DEF FileInv, FileTypeOK, Request
<1>2. Queued(c)' /\ \A d \in Fetchers \ {c} : Queued(d)' <=> Queued(d)
  <2>1. /\ Len(asked) \in Nat /\ Len(asked') = Len(asked) + 1
        /\ \A i \in 1 .. Len(asked) : asked'[i] = asked[i]
        /\ asked'[Len(asked) + 1] = c
    BY <1>1, AppendIs
  <2> QED
    BY <2>1 DEF Queued
<1>3. OwedTo(c)' /\ \A d \in Fetchers \ {c} : OwedTo(d)' <=> OwedTo(d)
  BY <1>1, <1>2 DEF OwedTo
<1> QED
  BY <1>1, <1>3 DEF SingleAnswer!Ask, Says

\* msgsnd of the child is the verdict: the error exactly if there is no file.
LEMMA RespondIsClose ==
  ASSUME FileInv, NEW c \in Fetchers, Respond(c)
  PROVE  SingleAnswer!Close(c, Says(resp[c]))
<1>1. /\ kid[c] = "send" /\ kid'[c] = "gone" /\ clientId[c] = << >> /\ fetcher[c] = "wait"
      /\ ~Queued(c) /\ taken1 # c /\ resp[c] \in Contents /\ Correct(c, resp[c])
  BY DEF FileInv, FileTypeOK, Respond, OnePlace, RightAnswer, Pending
<1>2. /\ \A d \in Fetchers \ {c} : kid'[d] = kid[d] /\ clientId'[d] = clientId[d]
      /\ clientId'[c] = Append(<< >>, resp[c])
      /\ UNCHANGED <<asked, taken1, fetcher, shown1>>
  BY <1>1 DEF FileInv, FileTypeOK, Respond
<1>3. clientId'[c] # << >> /\ clientId'[c][1] = resp[c]
  BY <1>1, <1>2
<1>4. OwedTo(c) /\ ~OwedTo(c)' /\ \A d \in Fetchers \ {c} : OwedTo(d)' <=> OwedTo(d)
  BY <1>1, <1>2 DEF OwedTo, Queued
<1>5. resp[c].len = NoFile <=> Size[c] = NoFile
  <2>1. Size[c] \in Nat \cup {NoFile} /\ MaxData \in Nat \ {0} /\ NoFile = -1
    BY FileOnceAssumption DEF NoFile
  <2>2. resp[c].len = IF Size[c] >= MaxData THEN MaxData - 1 ELSE Size[c]
    BY <1>1 DEF Correct, SentOf
  <2> QED
    BY <2>1, <2>2
<1> QED
  BY <1>1, <1>2, <1>3, <1>4, <1>5 DEF SingleAnswer!Close, Says

\* msgrcv of the client hears it.
LEMMA ShowIsHear ==
  ASSUME FileInv, NEW c \in Fetchers, Show(c)
  PROVE  SingleAnswer!Hear(c)
<1>1. /\ fetcher[c] = "wait" /\ clientId[c] # << >> /\ clientId[c] \in Seq(Contents)
      /\ clientId'[c] = << >> /\ fetcher'[c] = "shown" /\ shown1'[c] = UpToZero(clientId[c][1])
      /\ \A d \in Fetchers \ {c} :
           clientId'[d] = clientId[d] /\ fetcher'[d] = fetcher[d] /\ shown1'[d] = shown1[d]
      /\ UNCHANGED <<asked, taken1, kid>>
  BY TailIs DEF FileInv, FileTypeOK, Show
<1>2. \A d \in Fetchers : OwedTo(d)' <=> OwedTo(d)
  BY <1>1 DEF OwedTo, Queued
<1>3. shown1'[c].len = NoFile <=> clientId[c][1].len = NoFile
  <2>1. clientId[c][1] \in Contents /\ Correct(c, clientId[c][1])
    BY <1>1, TailIs DEF FileInv, RightAnswer
  <2> QED
    BY <1>1, <2>1, UpToZeroIs
<1>4. /\ clientId'[c] = << >> /\ fetcher'[c] = "shown"
      /\ \A d \in Fetchers \ {c} :
           clientId'[d] = clientId[d] /\ fetcher'[d] = fetcher[d] /\ shown1'[d] = shown1[d]
  BY <1>1
<1> QED
  BY <1>1, <1>2, <1>3, <1>4 DEF SingleAnswer!Hear, Says

\* The server and its clients in C implement the service: msgsnd asks and
\* answers, msgrcv hears, and a request in the hands of a server that is killed or
\* cannot fork, or of a child that is killed, is lost.
THEOREM FileOnceRefines == FileSpec => SingleAnswerSpec
<1>1. FileInit => SingleAnswer!Init
  <2> SUFFICES ASSUME FileInit PROVE SingleAnswer!Init
    OBVIOUS
  <2>1. \A c \in Fetchers : ~OwedTo(c)
    BY FileOnceAssumption DEF FileInit, OwedTo, Queued
  <2> QED
    BY <2>1 DEF FileInit, SingleAnswer!Init
<1>2. FileInv /\ [FileNext]_fileVars => [SingleAnswer!Next]_(SingleAnswer!serviceVars)
  <2> SUFFICES ASSUME FileInv, [FileNext]_fileVars
               PROVE  SingleAnswer!Next \/ UNCHANGED SingleAnswer!serviceVars
    OBVIOUS
  <2>1. ASSUME NEW c \in Fetchers, UNCHANGED <<asked, clientId, fetcher, shown1>>,
               \/ taken1 = c /\ taken1' = "nobody" /\ UNCHANGED kid
               \/ KillChild(c)
        PROVE  SingleAnswer!Next
    BY <2>1, ForgetIsLose DEF SingleAnswer!Next
  <2>2. ASSUME UNCHANGED <<asked, taken1, kid, clientId, fetcher, shown1>>
        PROVE  UNCHANGED SingleAnswer!serviceVars
    BY <2>2, NothingShows DEF OwedTo, Queued
  <2>3. CASE StartServer
    BY <2>2, <2>3 DEF StartServer
  <2>4. CASE TakeRequest
    <3>1. /\ taken1 = "nobody" /\ Queued(taken1')
          /\ \A c \in Fetchers : Queued(c)' <=> (Queued(c) /\ taken1' # c)
      BY <2>4, TakenOff
    <3>2. \A c \in Fetchers : OwedTo(c)' <=> OwedTo(c)
      BY <2>4, <3>1, FileOnceAssumption DEF OwedTo, TakeRequest
    <3> QED
      BY <2>4, <3>2, NothingShows DEF TakeRequest
  <2>5. CASE Fork
    <3>1. taken1 \in Fetchers /\ taken1' = "nobody"
      BY <2>5 DEF FileInv, Held, FileTypeOK, Fork
    <3>2. CASE kid' = [kid EXCEPT ![taken1] = "read"]
      <4>1. \A c \in Fetchers : OwedTo(c)' <=> OwedTo(c)
        BY <2>5, <3>1, <3>2, FileOnceAssumption DEF OwedTo, Queued, Fork, FileInv, FileTypeOK
      <4> QED
        BY <2>5, <4>1, NothingShows DEF Fork
    <3>3. CASE UNCHANGED kid
      BY <2>1, <2>5, <3>1, <3>3 DEF Fork
    <3> QED
      BY <2>5, <3>2, <3>3 DEF Fork
  <2>6. CASE KillServer
    <3>1. CASE taken1 = "nobody"
      BY <2>2, <2>6, <3>1 DEF KillServer
    <3>2. CASE taken1 \in Fetchers
      BY <2>1, <2>6, <3>2 DEF KillServer
    <3> QED
      BY <3>1, <3>2 DEF FileInv, FileTypeOK
  <2>7. ASSUME NEW c \in Fetchers, Fetch(c) PROVE UNCHANGED SingleAnswer!serviceVars
    <3>1. \A d \in Fetchers : OwedTo(d)' <=> OwedTo(d)
      BY <2>7 DEF OwedTo, Queued, Fetch, FileInv, FileTypeOK
    <3> QED
      BY <2>7, <3>1, NothingShows DEF Fetch
  <2>8. ASSUME NEW c \in Fetchers, Respond(c) PROVE SingleAnswer!Next
    <3>1. \E v \in {"end", "error"} : SingleAnswer!Close(c, v)
      BY <2>8, RespondIsClose DEF Says, SingleAnswer!Close
    <3> QED
      BY <3>1 DEF SingleAnswer!Next
  <2>9. ASSUME NEW c \in Fetchers, Request(c)
        PROVE  SingleAnswer!Next \/ UNCHANGED SingleAnswer!serviceVars
    <3>1. CASE serverId
      BY <2>9, <3>1, RequestIsAsk DEF SingleAnswer!Next
    <3>2. CASE ~serverId
      <4>1. /\ UNCHANGED <<asked, taken1, kid, clientId, shown1>>
            /\ \A d \in Fetchers : /\ fetcher'[d] = "shown" <=> fetcher[d] = "shown"
                                   /\ fetcher'[d] = "wait" <=> fetcher[d] = "wait"
        BY <2>9, <3>2 DEF Request, FileInv, FileTypeOK
      <4>2. \A d \in Fetchers : OwedTo(d)' <=> OwedTo(d)
        BY <4>1 DEF OwedTo, Queued
      <4> QED
        BY <4>1, <4>2 DEF SingleAnswer!serviceVars, Says
    <3> QED
      BY <3>1, <3>2
  <2>10. ASSUME NEW c \in Fetchers, Show(c) PROVE SingleAnswer!Next
    BY <2>10, ShowIsHear DEF SingleAnswer!Next
  <2>11. ASSUME NEW c \in Fetchers, KillChild(c) PROVE SingleAnswer!Next
    BY <2>1, <2>11 DEF KillChild
  <2>12. CASE UNCHANGED fileVars
    BY <2>2, <2>12 DEF fileVars
  <2> QED
    BY <2>3, <2>4, <2>5, <2>6, <2>7, <2>8, <2>9, <2>10, <2>11, <2>12 DEF FileNext
<1> QED
  BY <1>1, <1>2, FileInvariance, PTL DEF FileSpec, SingleAnswerSpec, SingleAnswer!Spec

-----------------------------------------------------------------------------
(* MsgQueue: the queue.                                                    *)

LEMMA ConcatIs ==
  ASSUME NEW M, NEW t \in Seq(M), NEW q \in Seq(M)
  PROVE  /\ t \o q \in Seq(M)
         /\ Len(t) \in Nat /\ Len(q) \in Nat /\ Len(t \o q) = Len(t) + Len(q)
         /\ \A i \in 1 .. Len(t) : (t \o q)[i] = t[i]
         /\ \A i \in 1 .. Len(q) : (t \o q)[Len(t) + i] = q[i]
OBVIOUS

Message == [by : Users, type : Int, len : Nat]

\* The queue holds messages.
QueueInv == queue \in Seq(Message) /\ gen \in Nat

\* A set of positions that is not empty has a first one.
LEMMA Least ==
  ASSUME NEW P, P \subseteq Nat, P # {}
  PROVE  FirstOf(P) \in P /\ \A h \in P : FirstOf(P) <= h
<1>1. IsWellFoundedOn(OpToRel(<, Nat), Nat)
  BY NatLessThanWellFounded
<1>2. PICK k \in P : \A h \in P : ~(<<h, k>> \in OpToRel(<, Nat))
  BY <1>1, WFMin
<1>3. \A h \in P : ~(h < k)
  BY <1>2 DEF OpToRel
<1>4. \A h \in P : k <= h
  BY <1>3
<1> QED
  BY <1>4 DEF FirstOf

\* The message a receiver is given is in the queue.
LEMMA FirstIsThere ==
  ASSUME queue \in Seq(Message), NEW j, Wanted(j) # {}
  PROVE  FirstOf(Wanted(j)) \in 1 .. Len(queue)
<1>1. Wanted(j) \subseteq 1 .. Len(queue)
  BY DEF Wanted
<1>2. Wanted(j) \subseteq Nat
  BY <1>1
<1> QED
  BY <1>1, <1>2, Least

LEMMA QueueInitInv == QueueInit => QueueInv
BY DEF QueueInit, QueueInv, NoQueue

\* msgsnd and msgrcv keep the queue a sequence of messages.
LEMMA MsgsndKeeps ==
  ASSUME QueueInv, job \in Lineups, NEW r \in Users, Msgsnd(r)
  PROVE  QueueInv'
<1> DEFINE m == [by |-> r, type |-> job[r].type, len |-> job[r].len]
<1>1. m \in Message
  BY MsgQueueAssumption DEF Msgsnd, Message
<1>2. UNCHANGED gen /\ (queue' = queue \/ queue' = Append(queue, m))
  BY DEF Msgsnd
<1> HIDE DEF m
<1> QED
  BY <1>1, <1>2, AppendIs DEF QueueInv

LEMMA MsgrcvKeeps ==
  ASSUME QueueInv, job \in Lineups, NEW r \in Users, Msgrcv(r)
  PROVE  QueueInv'
<1> DEFINE k == FirstOf(Wanted(job[r]))
<1>1. CASE UNCHANGED queue
  BY <1>1 DEF Msgrcv, QueueInv
<1>2. CASE /\ Wanted(job[r]) # {}
           /\ queue' = SubSeq(queue, 1, k - 1) \o SubSeq(queue, k + 1, Len(queue))
  <2>1. k \in 1 .. Len(queue) /\ queue \in Seq(Message)
    BY <1>2, FirstIsThere DEF QueueInv
  <2> HIDE DEF k
  <2>2. SubSeq(queue, 1, k - 1) \in Seq(Message) /\ SubSeq(queue, k + 1, Len(queue)) \in Seq(Message)
    BY <2>1
  <2>3. queue' \in Seq(Message)
    BY <1>2, <2>2, ConcatIs
  <2> QED
    BY <2>3 DEF Msgrcv, QueueInv
<1> QED
  BY <1>1, <1>2 DEF Msgrcv, TakeMessage

LEMMA QueueInvStep ==
  ASSUME QueueInv, job \in Lineups, [QueueNext]_queueVars
  PROVE  QueueInv'
<1>1. ASSUME UNCHANGED <<gen, queue>> \/ (gen' \in {gen, gen + 1} /\ queue' = << >>)
      PROVE  QueueInv'
  <2>1. << >> \in Seq(Message)
    OBVIOUS
  <2>2. gen' \in Nat
    BY <1>1 DEF QueueInv
  <2> QED
    BY <1>1, <2>1, <2>2 DEF QueueInv
<1>2. ASSUME NEW r \in Users, GetQueue(r) \/ CreateQueue(r) PROVE QueueInv'
  BY <1>1, <1>2 DEF GetQueue, CreateQueue, Msgget
<1>3. ASSUME NEW r \in Users, Stat(r) \/ Set(r) \/ Rmid(r) PROVE QueueInv'
  BY <1>1, <1>3 DEF Stat, Set, Rmid
<1>4. CASE UNCHANGED queueVars
  BY <1>1, <1>4 DEF queueVars
<1> QED
  BY <1>2, <1>3, <1>4, MsgsndKeeps, MsgrcvKeeps DEF QueueNext

LEMMA JobIsFixed == QueueSpec => [](job \in Lineups)
<1>1. QueueInit => job \in Lineups
  BY DEF QueueInit
<1>2. job \in Lineups /\ [QueueNext]_queueVars => (job \in Lineups)'
  BY DEF QueueNext, queueVars
<1> QED
  BY <1>1, <1>2, PTL DEF QueueSpec

LEMMA QueueInvariant == QueueSpec => []QueueInv
<1>1. QueueInv /\ job \in Lineups /\ [QueueNext]_queueVars => QueueInv'
  BY QueueInvStep
<1> QED
  BY <1>1, QueueInitInv, JobIsFixed, PTL DEF QueueSpec

-----------------------------------------------------------------------------
(* MsgQueue: the types.                                                    *)

Started == {r \in Users : mpc[r] # "new"}

\* Each run makes one queue at most, and does so as it starts.
QueueTypes ==
    /\ gen <= Cardinality(Started) /\ exists \in BOOLEAN
    /\ \A k \in 1 .. Len(queue) : queue[k].type > 0
    /\ qbytes \in {Mnb, 5}
    /\ id \in [Users -> 0 .. gen]
    /\ mpc \in [Users -> {"new", "call", "wait", "stat", "done", "failed"}]

LEMMA QueueInitTypes == QueueInit => QueueTypes
<1> SUFFICES ASSUME QueueInit PROVE QueueTypes
  OBVIOUS
<1> USE DEF QueueInit, NoQueue
<1>1. Started = {}
  BY DEF Started
<1>2. gen <= Cardinality(Started)
  BY <1>1, FS_EmptySet
<1>3. \A k \in 1 .. Len(queue) : queue[k].type > 0
  OBVIOUS
<1>5. exists \in BOOLEAN /\ qbytes \in {Mnb, 5}
  OBVIOUS
<1>6. id \in [Users -> 0 .. gen]
  OBVIOUS
<1>7. mpc \in [Users -> {"new", "call", "wait", "stat", "done", "failed"}]
  OBVIOUS
<1> QED
  BY <1>2, <1>3, <1>5, <1>6, <1>7 DEF QueueTypes

\* Nobody goes back, so the count of those that have started only grows.
LEMMA StartedGrows ==
  ASSUME QueueTypes, NEW r \in Users, NEW l \in {"call", "wait", "stat", "done", "failed"},
         mpc' = [mpc EXCEPT ![r] = l]
  PROVE  /\ mpc' \in [Users -> {"new", "call", "wait", "stat", "done", "failed"}]
         /\ Cardinality(Started) \in Nat /\ Cardinality(Started') \in Nat
         /\ Cardinality(Started) <= Cardinality(Started')
         /\ mpc[r] = "new" => Cardinality(Started') = Cardinality(Started) + 1
<1>1. mpc' \in [Users -> {"new", "call", "wait", "stat", "done", "failed"}]
  BY DEF QueueTypes
<1>2. Started' = Started \cup {r}
  BY DEF QueueTypes, Started
<1>3. IsFiniteSet(Users) /\ Started \subseteq Users /\ Started' \subseteq Users
  BY MsgQueueAssumption DEF Started
<1>4. IsFiniteSet(Started) /\ IsFiniteSet(Started')
  BY <1>3, FS_Subset
<1>5. Cardinality(Started) \in Nat /\ Cardinality(Started') \in Nat
  BY <1>4, FS_CardinalityType
<1>6. r \notin Started => Cardinality(Started') = Cardinality(Started) + 1
  BY <1>2, <1>4, FS_AddElement
<1>7. r \in Started => Started' = Started
  BY <1>2
<1>8. mpc[r] = "new" <=> r \notin Started
  BY DEF Started
<1> QED
  BY <1>1, <1>5, <1>6, <1>7, <1>8

\* Finding the queue, which makes it when it is not there.
LEMMA MsggetTypes ==
  ASSUME QueueInv, QueueTypes, NEW r \in Users, mpc[r] = "new",
         NEW l \in {"call", "wait", "stat", "done", "failed"}, Go(r, l),
         \/ Msgget(r)
         \/ id' = [id EXCEPT ![r] = gen] /\ UNCHANGED <<gen, exists, queue, qbytes>>
  PROVE  QueueTypes'
<1> DEFINE c == Cardinality(Started)
<1>1. /\ mpc' \in [Users -> {"new", "call", "wait", "stat", "done", "failed"}]
      /\ c \in Nat /\ c' = c + 1
  BY StartedGrows DEF Go
<1> HIDE DEF c
<1>2. gen \in Nat /\ gen <= c
  BY DEF QueueInv, QueueTypes, c
<1>3. gen' \in Nat /\ gen' <= gen + 1 /\ gen <= gen'
  BY <1>2 DEF Msgget
<1>4. gen' <= c'
  BY <1>1, <1>2, <1>3
<1>5. id' \in [Users -> 0 .. gen']
  <2>1. id' = [id EXCEPT ![r] = gen']
    BY DEF Msgget
  <2>2. gen' \in 0 .. gen' /\ \A u \in Users : id[u] \in 0 .. gen'
    BY <1>2, <1>3 DEF QueueTypes
  <2> QED
    BY <2>1, <2>2 DEF QueueTypes
<1>6. exists' \in BOOLEAN
  BY DEF QueueTypes, Msgget
<1>7. qbytes' \in {Mnb, 5} /\ \A k \in 1 .. Len(queue') : queue'[k].type > 0
  BY DEF QueueTypes, Msgget
<1> QED
  BY <1>1, <1>4, <1>5, <1>6, <1>7 DEF QueueTypes, c

\* Every other step, but for what it does to the queue.
LEMMA OtherTypes ==
  ASSUME QueueInv, QueueTypes, NEW r \in Users,
         NEW l \in {"call", "wait", "stat", "done", "failed"}, Go(r, l),
         UNCHANGED <<gen, id>>, exists' \in BOOLEAN, qbytes' \in {Mnb, 5},
         \A k \in 1 .. Len(queue') : queue'[k].type > 0
  PROVE  QueueTypes'
<1>1. /\ mpc' \in [Users -> {"new", "call", "wait", "stat", "done", "failed"}]
      /\ Cardinality(Started) \in Nat /\ Cardinality(Started') \in Nat
      /\ Cardinality(Started) <= Cardinality(Started')
  BY StartedGrows DEF Go
<1>2. gen' <= Cardinality(Started')
  BY <1>1 DEF QueueInv, QueueTypes
<1> QED
  BY <1>1, <1>2 DEF QueueTypes

LEMMA MsgsndTypes ==
  ASSUME QueueInv, QueueTypes, job \in Lineups, NEW r \in Users, Msgsnd(r)
  PROVE  QueueTypes'
<1> DEFINE m == [by |-> r, type |-> job[r].type, len |-> job[r].len]
<1>1. \A k \in 1 .. Len(queue') : queue'[k].type > 0
  <2>1. CASE UNCHANGED queue
    BY <2>1 DEF QueueTypes
  <2>2. CASE job[r].type >= 1 /\ queue' = Append(queue, m)
    <3>1. m \in Message /\ m.type > 0
      BY <2>2, MsgQueueAssumption DEF Msgsnd, Message
    <3> HIDE DEF m
    <3>2. /\ Len(queue) \in Nat /\ Len(queue') = Len(queue) + 1 /\ queue'[Len(queue) + 1] = m
          /\ \A k \in 1 .. Len(queue) : queue'[k] = queue[k]
      BY <3>1, <2>2, AppendIs DEF QueueInv
    <3> QED
      <4>1. ASSUME NEW k \in 1 .. Len(queue') PROVE queue'[k].type > 0
        <5>1. CASE k \in 1 .. Len(queue)
          BY <5>1, <3>2 DEF QueueTypes
        <5>2. CASE k = Len(queue) + 1
          BY <5>2, <3>1, <3>2
        <5> QED
          BY <5>1, <5>2, <3>2
      <4> QED
        BY <4>1
  <2> QED
    BY <2>1, <2>2 DEF Msgsnd
<1>2. \E l \in {"call", "wait", "stat", "done", "failed"} : Go(r, l)
  BY DEF Msgsnd
<1> QED
  BY <1>1, <1>2, OtherTypes DEF Msgsnd, QueueTypes

LEMMA MsgrcvTypes ==
  ASSUME QueueInv, QueueTypes, job \in Lineups, NEW r \in Users, Msgrcv(r)
  PROVE  QueueTypes'
<1> DEFINE k == FirstOf(Wanted(job[r]))
<1>1. \E l \in {"call", "wait", "stat", "done", "failed"} : Go(r, l)
  BY DEF Msgrcv, TakeMessage
<1>2. CASE UNCHANGED queue
  BY <1>1, <1>2, OtherTypes DEF Msgrcv, QueueTypes
<1>3. CASE /\ Wanted(job[r]) # {}
           /\ queue' = SubSeq(queue, 1, k - 1) \o SubSeq(queue, k + 1, Len(queue))
  <2>2. k \in 1 .. Len(queue)
    BY <1>3, FirstIsThere DEF QueueInv
  <2> HIDE DEF k
  <2>3. queue \in Seq(Message) /\ queue[k] \in Message
    BY <2>2 DEF QueueInv
  <2>8. \A i \in 1 .. Len(queue') : queue'[i].type > 0
    <3> DEFINE F == SubSeq(queue, 1, k - 1)
               G == SubSeq(queue, k + 1, Len(queue))
    <3>1. /\ F \in Seq(Message) /\ Len(F) = k - 1
          /\ \A i \in 1 .. k - 1 : F[i] = queue[i] /\ i \in 1 .. Len(queue)
      BY <2>2, <2>3
    <3>2. /\ G \in Seq(Message) /\ Len(G) = Len(queue) - k
          /\ \A i \in 1 .. Len(queue) - k : G[i] = queue[k + i] /\ k + i \in 1 .. Len(queue)
      BY <2>2, <2>3
    <3> HIDE DEF F, G
    <3>3. F \in Seq(Message) /\ G \in Seq(Message)
      BY <3>1, <3>2
    <3>4. /\ Len(F) \in Nat /\ Len(G) \in Nat /\ Len(F \o G) = Len(F) + Len(G)
          /\ \A i \in 1 .. Len(F) : (F \o G)[i] = F[i]
          /\ \A i \in 1 .. Len(G) : (F \o G)[Len(F) + i] = G[i]
      BY <3>3, ConcatIs
    <3>5. queue' = F \o G
      BY <1>3 DEF F, G
    <3>6. ASSUME NEW i \in 1 .. Len(queue') PROVE \E h \in 1 .. Len(queue) : queue'[i] = queue[h]
      <4>1. CASE i \in 1 .. Len(F)
        BY <4>1, <3>1, <3>4, <3>5
      <4>2. CASE i - Len(F) \in 1 .. Len(G)
        <5>1. i = Len(F) + (i - Len(F))
          BY <3>4, <3>5
        <5>2. queue'[i] = G[i - Len(F)]
          BY <5>1, <4>2, <3>4, <3>5
        <5> QED
          BY <5>2, <4>2, <3>2
      <4> QED
        BY <4>1, <4>2, <3>4, <3>5
    <3> QED
      BY <3>6 DEF QueueTypes
  <2> QED
    BY <1>1, <2>8, OtherTypes DEF Msgrcv, QueueTypes
<1> QED
  BY <1>2, <1>3 DEF Msgrcv, TakeMessage

LEMMA QueueTypesStep ==
  ASSUME QueueInv, QueueTypes, job \in Lineups, [QueueNext]_queueVars
  PROVE  QueueTypes'
<1>1. CASE UNCHANGED queueVars
  BY <1>1 DEF QueueTypes, queueVars, Started
<1>2. ASSUME NEW r \in Users, GetQueue(r) PROVE QueueTypes'
  <2>1. \E l \in {"call", "wait", "stat", "done", "failed"} : Go(r, l)
    BY <1>2 DEF GetQueue
  <2> QED
    BY <1>2, <2>1, MsggetTypes DEF GetQueue
<1>3. ASSUME NEW r \in Users, CreateQueue(r) PROVE QueueTypes'
  <2>1. CASE UNCHANGED <<gen, exists, queue, qbytes, id>>
    BY <1>3, <2>1, OtherTypes DEF CreateQueue, QueueTypes
  <2>2. CASE Go(r, "done") /\ Msgget(r)
    BY <1>3, <2>2, MsggetTypes DEF CreateQueue
  <2> QED
    BY <1>3, <2>1, <2>2 DEF CreateQueue
<1>4. ASSUME NEW r \in Users, Stat(r) PROVE QueueTypes'
  <2>1. \E l \in {"call", "wait", "stat", "done", "failed"} : Go(r, l)
    BY <1>4 DEF Stat
  <2> QED
    BY <1>4, <2>1, OtherTypes DEF Stat, QueueTypes
<1>5. ASSUME NEW r \in Users, Set(r) PROVE QueueTypes'
  <2>1. \E l \in {"call", "wait", "stat", "done", "failed"} : Go(r, l)
    BY <1>5 DEF Set
  <2> QED
    BY <1>5, <2>1, OtherTypes DEF Set, QueueTypes
<1>6. ASSUME NEW r \in Users, Rmid(r) PROVE QueueTypes'
  <2>1. \E l \in {"call", "wait", "stat", "done", "failed"} : Go(r, l)
    BY <1>6 DEF Rmid
  <2>2. \A k \in 1 .. Len(queue') : queue'[k].type > 0
    BY <1>6 DEF Rmid, QueueTypes
  <2> QED
    BY <1>6, <2>1, <2>2, OtherTypes DEF Rmid, QueueTypes
<1> QED
  BY <1>1, <1>2, <1>3, <1>4, <1>5, <1>6, MsgsndTypes, MsgrcvTypes DEF QueueNext

\* No more queues are made than runs have started; a run works with a queue that
\* was made, and every message has a type above zero (get_queue, msgsnd and msgrcv
\* of labs 1 and 2).
THEOREM QueueTypeCorrect == QueueSpec => []QueueTypeOK
<1>1. QueueTypes /\ QueueInv /\ job \in Lineups /\ [QueueNext]_queueVars => QueueTypes'
  BY QueueTypesStep
<1>2. QueueTypes /\ QueueInv /\ job \in Lineups => QueueTypeOK
  <2> SUFFICES ASSUME QueueTypes, QueueInv, job \in Lineups PROVE QueueTypeOK
    OBVIOUS
  <2>1. gen \in 0 .. Cardinality(Users)
    <3>1. IsFiniteSet(Users) /\ Started \subseteq Users
      BY MsgQueueAssumption DEF Started
    <3>2. Cardinality(Started) <= Cardinality(Users) /\ Cardinality(Started) \in Nat /\ Cardinality(Users) \in Nat
      BY <3>1, FS_Subset, FS_CardinalityType
    <3> QED
      BY <3>2 DEF QueueTypes, QueueInv
  <2>2. \A k \in 1 .. Len(queue) : queue[k].type > 0 /\ queue[k].by \in Users
    <3>1. \A m \in Message : m.by \in Users
      BY DEF Message
    <3>2. \A k \in 1 .. Len(queue) : queue[k] \in Message
      BY DEF QueueInv
    <3> QED
      BY <3>1, <3>2 DEF QueueTypes
  <2> QED
    BY <2>1, <2>2 DEF QueueTypes, QueueTypeOK
<1> QED
  BY <1>1, <1>2, QueueInitTypes, QueueInvariant, JobIsFixed, PTL DEF QueueSpec
=============================================================================
