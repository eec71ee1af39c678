------------------------------- MODULE FileOnce -------------------------------
(***************************************************************************)
(* The file server of lab 2 in C: a request is answered with one message   *)
(* of MAX_DATA bytes, from a child of its own.  Sizes are in bytes; the    *)
(* server and its children may be killed and the server started again, the *)
(* queue of requests outlives it.                                          *)
(***************************************************************************)
EXTENDS Integers, Sequences, FiniteSets, SequencesExt

CONSTANTS
    Fetchers,   \* runs of the client
    Size,       \* the size of the file each asks for, or NoFile
    FirstZero,  \* its bytes before the first that is zero; its size, if none is
    MaxData,    \* MAX_DATA
    MaxKills    \* how often the server or a child is killed

NoFile == -1

ASSUME FileOnceAssumption ==
    /\ Size \in [Fetchers -> Nat \cup {NoFile}] /\ FirstZero \in [Fetchers -> Nat]
    /\ MaxData \in Nat \ {0} /\ MaxKills \in Nat
    /\ "nobody" \notin Fetchers

VARIABLES
    serverId,  \* is there a queue for requests?
    loop,      \* the server: new, recv, fork, down
    asked,     \* the queue of requests
    taken1,    \* the request the server has received
    kid,       \* each request's child: none, read, send, gone
    resp,      \* what the child has read
    clientId,  \* the queue of each client
    fetcher,   \* each client: new, wait, shown, failed
    shown1,    \* what it has printed
    dropped,   \* history: the requests lost to a failed fork or with a killed process
    kills

fileVars == <<serverId, loop, asked, taken1, kid, resp, clientId, fetcher, shown1, dropped, kills>>

Nothing == [of |-> "nobody", len |-> 0, rest |-> FALSE]
Contents == [of : Fetchers, len : NoFile .. MaxData, rest : BOOLEAN]

FileTypeOK ==
    /\ serverId \in BOOLEAN /\ loop \in {"new", "recv", "fork", "down"}
    /\ asked \in Seq(Fetchers) /\ taken1 \in Fetchers \cup {"nobody"}
    /\ kid \in [Fetchers -> {"none", "read", "send", "gone"}]
    /\ resp \in [Fetchers -> Contents \cup {Nothing}]
    /\ clientId \in [Fetchers -> Seq(Contents)]
    /\ fetcher \in [Fetchers -> {"new", "wait", "shown", "failed"}]
    /\ shown1 \in [Fetchers -> Contents \cup {Nothing}]
    /\ dropped \subseteq Fetchers /\ kills \in 0 .. MaxKills

FileInit ==
    /\ serverId = FALSE /\ loop = "new"
    /\ asked = << >> /\ taken1 = "nobody"
    /\ kid = [c \in Fetchers |-> "none"]
    /\ resp = [c \in Fetchers |-> Nothing]
    /\ clientId = [c \in Fetchers |-> << >>]
    /\ fetcher = [c \in Fetchers |-> "new"]
    /\ shown1 = [c \in Fetchers |-> Nothing]
    /\ dropped = {} /\ kills = 0

\* msgget with IPC_CREAT.
StartServer ==
    /\ loop \in {"new", "down"}
    /\ serverId' = TRUE /\ loop' = "recv"
    /\ UNCHANGED <<asked, taken1, kid, resp, clientId, fetcher, shown1, dropped, kills>>

TakeRequest ==
    /\ loop = "recv" /\ asked # << >>
    /\ taken1' = Head(asked) /\ asked' = Tail(asked)
    /\ loop' = "fork"
    /\ UNCHANGED <<serverId, kid, resp, clientId, fetcher, shown1, dropped, kills>>

\* A fork that fails returns -1, which is not 0: the request is forgotten.
Fork ==
    /\ loop = "fork" /\ loop' = "recv" /\ taken1' = "nobody"
    /\ \/ kid' = [kid EXCEPT ![taken1] = "read"] /\ UNCHANGED dropped
       \/ dropped' = dropped \cup {taken1} /\ UNCHANGED kid
    /\ UNCHANGED <<serverId, asked, resp, clientId, fetcher, shown1, kills>>

\* The answer of a file that is not there; of one that is there at most
\* MAX_DATA - 1 bytes; if it has fewer, the rest of the message is what the
\* stack held, which need not begin with a zero.
Fetch(c) ==
    /\ kid[c] = "read" /\ kid' = [kid EXCEPT ![c] = "send"]
    /\ LET room == MaxData - 1 IN \E rest \in BOOLEAN :
         /\ rest => Size[c] # NoFile /\ Size[c] < room
         /\ resp' = [resp EXCEPT ![c] = [of |-> c, len |-> IF Size[c] > room THEN room ELSE Size[c], rest |-> rest]]
    /\ UNCHANGED <<serverId, loop, asked, taken1, clientId, fetcher, shown1, dropped, kills>>

\* Mutant: after the message about a file that is not there the child goes on.
RespondAgain(c) ==
    /\ kid[c] = "send"
    /\ kid' = [kid EXCEPT ![c] = IF resp[c].len = NoFile /\ clientId[c] = << >> THEN "send" ELSE "gone"]
    /\ clientId' = [clientId EXCEPT ![c] = Append(@, resp[c])]
    /\ UNCHANGED <<serverId, loop, asked, taken1, resp, fetcher, shown1, dropped, kills>>

\* msgsnd of one message of MAX_DATA bytes, then exit.
Respond(c) ==
    /\ kid[c] = "send" /\ kid' = [kid EXCEPT ![c] = "gone"]
    /\ clientId' = [clientId EXCEPT ![c] = Append(@, resp[c])]
    /\ UNCHANGED <<serverId, loop, asked, taken1, resp, fetcher, shown1, dropped, kills>>

\* The server is killed; its children go on.
KillServer ==
    /\ loop \in {"recv", "fork"} /\ kills < MaxKills
    /\ loop' = "down" /\ kills' = kills + 1
    /\ dropped' = IF loop = "fork" THEN dropped \cup {taken1} ELSE dropped
    /\ taken1' = "nobody"
    /\ UNCHANGED <<serverId, asked, kid, resp, clientId, fetcher, shown1>>

\* A child is killed before it has answered.
KillChild(c) ==
    /\ kid[c] \in {"read", "send"} /\ kills < MaxKills
    /\ kid' = [kid EXCEPT ![c] = "gone"]
    /\ dropped' = dropped \cup {c} /\ kills' = kills + 1
    /\ UNCHANGED <<serverId, loop, asked, taken1, resp, clientId, fetcher, shown1>>

\* The client: without a server's queue it fails.
Request(c) ==
    /\ fetcher[c] = "new"
    /\ fetcher' = [fetcher EXCEPT ![c] = IF serverId THEN "wait" ELSE "failed"]
    /\ asked' = IF serverId THEN Append(asked, c) ELSE asked
    /\ UNCHANGED <<serverId, loop, taken1, kid, resp, clientId, shown1, dropped, kills>>

\* printf with %s: of a file only what comes before its first zero byte.
UpToZero(m) ==
    IF m.len = NoFile \/ FirstZero[m.of] >= m.len THEN m
    ELSE [m EXCEPT !.len = FirstZero[m.of], !.rest = FALSE]

\* One msgrcv, print, and the queue is removed with what is left in it.
Show(c) ==
    /\ fetcher[c] = "wait" /\ clientId[c] # << >>
    /\ shown1' = [shown1 EXCEPT ![c] = UpToZero(Head(clientId[c]))]
    /\ clientId' = [clientId EXCEPT ![c] = << >>]
    /\ fetcher' = [fetcher EXCEPT ![c] = "shown"]
    /\ UNCHANGED <<serverId, loop, asked, taken1, kid, resp, dropped, kills>>

FileNext ==
    \/ StartServer \/ TakeRequest \/ Fork \/ KillServer
    \/ \E c \in Fetchers : Fetch(c) \/ Respond(c) \/ KillChild(c) \/ Request(c) \/ Show(c)

FileSpec == FileInit /\ [][FileNext]_fileVars

-----------------------------------------------------------------------------

\* The places where the request of c, or its answer, is.
Places(c) ==
    Cardinality({k \in 1 .. Len(asked) : asked[k] = c}) + (IF taken1 = c THEN 1 ELSE 0)
    + (IF kid[c] \in {"read", "send"} THEN 1 ELSE 0) + Len(clientId[c])

\* How much of its file a client is sent, and how much of that it prints.
SentOf(c) == IF Size[c] >= MaxData THEN MaxData - 1 ELSE Size[c]
PrintedOf(c) == IF Size[c] # NoFile /\ FirstZero[c] < SentOf(c) THEN FirstZero[c] ELSE SentOf(c)

\* Across failed forks, restarts and killed children a request is answered at
\* most once, only a failed fork, a killed server or a killed child loses it,
\* and what a client prints is its own file, up to the first zero byte in it and
\* at most MAX_DATA - 1 bytes.  Something else may follow only if all of a file
\* shorter than that was printed.
FetchedOnce ==
    \A c \in Fetchers :
        /\ Places(c) <= 1
        /\ (fetcher[c] = "wait" /\ c \notin dropped) => Places(c) = 1
        /\ fetcher[c] = "shown" =>
             /\ Places(c) = 0 /\ shown1[c].of = c /\ shown1[c].len = PrintedOf(c)
             /\ shown1[c].rest => shown1[c].len = Size[c] /\ Size[c] \in 0 .. MaxData - 2

-----------------------------------------------------------------------------
(* The service it implements, the one of MsgFile: each answer is one       *)
(* message, so that nothing comes before its verdict.                      *)

Queued(c) == \E k \in 1 .. Len(asked) : asked[k] = c

\* The request of c is with the server or its child, and not answered.
OwedTo(c) == Queued(c) \/ taken1 = c \/ kid[c] \in {"read", "send"}

\* What the answer says: the file, or that there is none.
Says(m) == IF m.len = NoFile THEN "error" ELSE "end"

\* A file that is not there counts as a chunk nobody can send, so that its answer
\* cannot be the end.
SingleAnswer == INSTANCE FileService WITH
    Clients <- Fetchers,
    FileLen <- [c \in Fetchers |-> IF Size[c] = NoFile THEN 1 ELSE 0],
    Faulty <- {c \in Fetchers : Size[c] = NoFile},
    asked <- {c \in Fetchers : fetcher[c] \in {"wait", "shown"}},
    owed <- {c \in Fetchers : OwedTo(c)},
    sent <- [c \in Fetchers |-> 0],
    Brittle <- {},
    verdict <- [c \in Fetchers |->
                  IF clientId[c] # << >> THEN Says(clientId[c][1])
                  ELSE IF fetcher[c] = "shown" THEN Says(shown1[c]) ELSE "none"],
    got <- [c \in Fetchers |-> << >>],
    told <- [c \in Fetchers |-> IF fetcher[c] = "shown" THEN Says(shown1[c]) ELSE "none"]

\* The server in C keeps the promise of the one in C++: one verdict to each client
\* that asked, the error exactly if its file is not there, nothing after it, and a
\* request is lost only before it was answered, whoever is killed.
SingleAnswerSpec == SingleAnswer!Spec
=============================================================================
