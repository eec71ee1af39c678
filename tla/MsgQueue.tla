------------------------------- MODULE MsgQueue -------------------------------
(***************************************************************************)
(* The message queue programs of lab 1 and of lab 2 without the file       *)
(* servers: one queue under a key, and runs of the programs that create    *)
(* it, send, receive, set its limit and remove it.  A message is who sent  *)
(* it, its type and its length with the terminating zero; a queue that is  *)
(* removed and created again has a new identifier.                         *)
(***************************************************************************)
EXTENDS Integers, Sequences, FiniteSets, SequencesExt

CONSTANTS
    Users,    \* runs of the programs
    Lineups,  \* which programs they may be
    Mnb       \* msg_qbytes of a new queue, 16384

(* Programs.  byKey: finds the queue with msgget(IPC_CREAT), otherwise its *)
(* user gives the identifier.                                              *)

Send(type, len, nowait, byKey) ==
    [op |-> "send", type |-> type, len |-> len, nowait |-> nowait, byKey |-> byKey]
Receive(type, max, nowait, noerror, except, byKey) ==
    [op |-> "receive", type |-> type, max |-> max, nowait |-> nowait,
     noerror |-> noerror, except |-> except, byKey |-> byKey]

\* Those of lab 1 in C++ ...
SendText(type, len) == Send(IF type > 0 THEN type ELSE 20, IF len > 1024 THEN 1024 ELSE len, FALSE, TRUE)
SendTest == Send(1, 13, TRUE, TRUE)
Drain == [op |-> "drain", type |-> 0, max |-> 1024, noerror |-> FALSE, except |-> FALSE, byKey |-> TRUE]
ReceiveNoWait == Receive(0, 1024, TRUE, FALSE, FALSE, TRUE)
ReceiveNoError == Receive(0, 8, FALSE, TRUE, FALSE, TRUE)
CreateKeyed == [op |-> "create", private |-> FALSE, creat |-> TRUE, excl |-> FALSE, byKey |-> FALSE]
CreateNew == [op |-> "create", private |-> TRUE, creat |-> TRUE, excl |-> TRUE, byKey |-> FALSE]
RemoveQueue(byKey) == [op |-> "remove", byKey |-> byKey]
SetLimit == [op |-> "limit", byKey |-> TRUE]
\* ... and in C,
SendTwenty == Send(20, 5, FALSE, TRUE)
SendTestC == Send(1, 13, TRUE, TRUE)
ReceiveFour == Receive(0, 4, TRUE, TRUE, FALSE, TRUE)
CreateNewC == [op |-> "create", private |-> TRUE, creat |-> TRUE, excl |-> FALSE, byKey |-> FALSE]
RemoveGiven == RemoveQueue(FALSE)
SetLimitC == [op |-> "limit", byKey |-> TRUE]
\* of lab 2 in C++, where p is -p, c -c and x -x ...
CreateAs(p, c, x) == [op |-> "create", private |-> p, creat |-> c, excl |-> x, byKey |-> FALSE]
SendAs(type, len, nowait) == Send(IF type > 0 THEN type ELSE 1, IF len > 4096 THEN 4096 ELSE len, nowait, FALSE)
ReceiveAs(type, max, nowait, noerror, except) ==
    Receive(type, IF max = 0 THEN 1 ELSE max, nowait, noerror, except, FALSE)
\* ... and in C: the type is not checked, a text of 512 bytes or more refused.
CreateAsC(p, c, x) == CreateAs(p, c, x)
SendAsC(type, len, nowait) == Send(type, IF len > 512 THEN 0 ELSE len, nowait, FALSE)
ReceiveAsC(type, max, nowait, noerror) == Receive(type, max, nowait, noerror, FALSE, FALSE)

ASSUME MsgQueueAssumption ==
    /\ \A j \in Lineups : \A r \in Users :
          /\ j[r].op \in {"send", "receive", "drain", "create", "remove", "limit"}
          /\ j[r].op = "send" => j[r].type \in Int /\ j[r].len \in Nat
          /\ j[r].op \in {"receive", "drain"} =>
               j[r].type \in Int /\ j[r].max \in Nat /\ j[r].except \in BOOLEAN
    /\ IsFiniteSet(Users) /\ Mnb \in Nat

VARIABLES
    job,    \* the program of each run
    gen,    \* identifier of the queue under the key: 0 before there was one
    exists,
    queue,  \* its messages
    qbytes, \* its limit
    id,     \* the identifier each run works with
    mpc     \* each run: new, call, wait, stat, done, failed

queueVars == <<job, gen, exists, queue, qbytes, id, mpc>>

NoQueue == 0
Bytes(q) == FoldLeft(LAMBDA n, m : n + m.len, 0, q)
Go(r, l) == mpc' = [mpc EXCEPT ![r] = l]
Valid(r) == exists /\ id[r] = gen

QueueTypeOK ==
    /\ job \in Lineups
    /\ gen \in 0 .. Cardinality(Users) /\ exists \in BOOLEAN
    /\ (\A k \in 1 .. Len(queue) : queue[k].type > 0 /\ queue[k].by \in Users)
    /\ qbytes \in {Mnb, 5}
    /\ id \in [Users -> 0 .. gen]
    /\ mpc \in [Users -> {"new", "call", "wait", "stat", "done", "failed"}]

QueueInit ==
    /\ job \in Lineups
    /\ gen = NoQueue /\ exists = FALSE
    /\ queue = << >> /\ qbytes = Mnb
    /\ id = [r \in Users |-> NoQueue]
    /\ mpc = [r \in Users |-> "new"]

-----------------------------------------------------------------------------

\* msgget of a queue that is not there makes an empty one with the default limit.
Msgget(r) ==
    /\ IF exists THEN UNCHANGED <<gen, exists, queue, qbytes>>
       ELSE gen' = gen + 1 /\ exists' = TRUE /\ queue' = << >> /\ qbytes' = Mnb
    /\ id' = [id EXCEPT ![r] = gen']

\* get_queue, or the identifier of a queue that is there.
GetQueue(r) ==
    /\ mpc[r] = "new" /\ job[r].op # "create"
    /\ IF job[r].byKey THEN Msgget(r)
       ELSE exists /\ id' = [id EXCEPT ![r] = gen] /\ UNCHANGED <<gen, exists, queue, qbytes>>
    /\ Go(r, IF job[r].op = "limit" THEN "stat" ELSE "call")

\* message_create: a private queue concerns nobody else.
CreateQueue(r) ==
    /\ mpc[r] = "new" /\ job[r].op = "create"
    /\ LET j == job[r] IN
         \/ j.private /\ Go(r, "done") /\ UNCHANGED <<gen, exists, queue, qbytes, id>>
         \/ /\ ~j.private
            /\ IF (exists /\ j.creat /\ j.excl) \/ (~exists /\ ~j.creat)
                 THEN Go(r, "failed") /\ UNCHANGED <<gen, exists, queue, qbytes, id>>
                 ELSE Go(r, "done") /\ Msgget(r)

\* IPC_STAT, then IPC_SET with msg_qbytes = 5.
Stat(r) ==
    /\ mpc[r] = "stat"
    /\ Go(r, IF Valid(r) THEN "call" ELSE "failed")
    /\ UNCHANGED <<gen, exists, queue, qbytes, id>>

Set(r) ==
    /\ mpc[r] = "call" /\ job[r].op = "limit"
    /\ IF Valid(r) THEN qbytes' = 5 /\ Go(r, "done") ELSE UNCHANGED qbytes /\ Go(r, "failed")
    /\ UNCHANGED <<gen, exists, queue, id>>

\* IPC_RMID: the messages are lost, whoever waits for the queue fails (EIDRM).
Rmid(r) ==
    /\ mpc[r] = "call" /\ job[r].op = "remove"
    /\ IF Valid(r) THEN exists' = FALSE /\ queue' = << >> /\ Go(r, "done")
                   ELSE UNCHANGED <<exists, queue>> /\ Go(r, "failed")
    /\ UNCHANGED <<gen, qbytes, id>>

\* The message, and that it is counted, fits.
Fits(len) == Bytes(queue) + len <= qbytes /\ Len(queue) + 1 <= qbytes

\* msgsnd.
Msgsnd(r) ==
    /\ mpc[r] \in {"call", "wait"} /\ job[r].op = "send"
    /\ LET j == job[r] m == [by |-> r, type |-> j.type, len |-> j.len] IN
         \/ /\ ~Valid(r) \/ j.type < 1 \/ j.len = 0
            /\ Go(r, "failed") /\ UNCHANGED queue
         \/ /\ Valid(r) /\ j.type >= 1 /\ j.len > 0
            /\ IF Fits(j.len)
                 THEN queue' = Append(queue, m) /\ Go(r, "done")
                 ELSE /\ mpc[r] = "call"
                      /\ Go(r, IF j.nowait THEN "failed" ELSE "wait")
                      /\ UNCHANGED queue
    /\ UNCHANGED <<gen, exists, qbytes, id>>

\* The positions a receiver may be given: the first message, the first of a
\* type, with MSG_EXCEPT the first not of it, or the first of the lowest type up
\* to -type.
Wanted(j) ==
    LET P == {k \in 1 .. Len(queue) :
                 \/ j.type = 0
                 \/ j.type > 0 /\ ~(j.except <=> queue[k].type = j.type)
                 \/ j.type < 0 /\ queue[k].type <= -j.type}
    IN IF j.type >= 0 THEN P
       ELSE {k \in P : \A h \in P : queue[k].type <= queue[h].type}

FirstOf(P) == CHOOSE k \in P : \A h \in P : k <= h

\* The call of receiver r when there is a message: one that is too long fails
\* and stays, or with MSG_NOERROR is cut.
TakeMessage(r) ==
    LET j == job[r] k == FirstOf(Wanted(j)) m == queue[k] IN
    IF m.len > j.max /\ ~j.noerror
      THEN Go(r, "failed") /\ UNCHANGED queue
      ELSE /\ queue' = SubSeq(queue, 1, k - 1) \o SubSeq(queue, k + 1, Len(queue))
           /\ Go(r, IF j.op = "drain" THEN "call" ELSE "done")

\* Mutant: a receiver goes on waiting when its queue is removed.
WaitForEver(r) ==
    /\ mpc[r] \in {"call", "wait"} /\ job[r].op \in {"receive", "drain"}
    /\ IF Valid(r) /\ Wanted(job[r]) # {} THEN TakeMessage(r)
       ELSE /\ mpc[r] = "call"
            /\ Go(r, IF job[r].op = "receive" /\ job[r].nowait THEN "failed" ELSE "wait")
            /\ UNCHANGED queue
    /\ UNCHANGED <<gen, exists, qbytes, id>>

\* msgrcv.  message_receive_v1 empties the queue without waiting and then waits
\* for the next message; any error but an empty queue ends it.
Msgrcv(r) ==
    /\ mpc[r] \in {"call", "wait"} /\ job[r].op \in {"receive", "drain"}
    /\ IF ~Valid(r) THEN Go(r, "failed") /\ UNCHANGED queue
       ELSE IF Wanted(job[r]) # {} THEN TakeMessage(r)
       ELSE /\ mpc[r] = "call"
            /\ Go(r, IF job[r].op = "receive" /\ job[r].nowait THEN "failed" ELSE "wait")
            /\ UNCHANGED queue
    /\ UNCHANGED <<gen, exists, qbytes, id>>

QueueNext ==
    /\ \E r \in Users :
         \/ GetQueue(r) \/ CreateQueue(r) \/ Stat(r) \/ Set(r) \/ Rmid(r) \/ Msgsnd(r) \/ Msgrcv(r)
    /\ UNCHANGED job

QueueSpec == QueueInit /\ [][QueueNext]_queueVars

\* A call that can return does.
QueueFairness == \A r \in Users : WF_queueVars((Msgsnd(r) \/ Msgrcv(r)) /\ UNCHANGED job)

-----------------------------------------------------------------------------
(* Properties.                                                             *)

\* What a run may wait for: a message it asked for; as a sender, that
\* message_receive_v1 is started again, or that the limit, which is below the
\* length of the message, is raised.
HasToWait(r) ==
    /\ Valid(r)
    /\ IF job[r].op # "send" THEN Wanted(job[r]) = {}
       ELSE \/ job[r].len > qbytes
            \/ \A d \in Users : job[d].op = "drain" => mpc[d] \notin {"call", "wait"}

\* Nobody waits for anything else: not for room while the queue is emptied, not
\* for a message that is there, and not for a queue that has been removed.
WaitersProceed ==
    \A r \in Users : (mpc[r] = "wait" /\ ~HasToWait(r)) ~> (mpc[r] # "wait" \/ HasToWait(r))
=============================================================================
