------------------------------- MODULE Threads --------------------------------
(***************************************************************************)
(* The thread exercises of lab 6: one main thread, one or two threads it   *)
(* creates, and what they share.  prog is the program:                     *)
(*   race, serial, mutex   two threads increase a counter: at the same     *)
(*                         time, one after the other, under a mutex        *)
(*   shared, local         two threads take the elements of an array by a  *)
(*                         global index, by an index of their own          *)
(*   halves, sums, chain   every other element filled by main; two halves  *)
(*                         added up; one thread's result given to the next *)
(*   joined, signal        main waits for the worker's end, for its signal *)
(*   cancel, keep          a worker that can, and one that cannot, be      *)
(*                         cancelled                                       *)
(*   length, itself        a thread returns a length; compares what it is  *)
(*                         with what main was told it is                   *)
(*   detached              main ends without a join                        *)
(* x++ is a load and a store; nothing is assumed of how long a sleep is    *)
(* compared with what other threads do meanwhile.                          *)
(***************************************************************************)
EXTENDS Integers, Sequences, FiniteSets

CONSTANTS
    Times,  \* iterations of a loop (1000000 increments, 10 steps of a worker)
    Size    \* elements of the array

ASSUME ThreadsAssumption == Times \in Nat \ {0} /\ Size \in Nat

VARIABLES
    prog,
    tpc,     \* where each thread is
    x,       \* counter, index_global or available; index_local of each thread
    reg,     \* the value of x a thread has loaded
    left,    \* iterations of its loop each thread has left
    mtx,     \* who holds the mutex
    got,     \* the positions of the array each thread has used
    request, \* was the worker asked to cancel?
    shown    \* what main prints at its end (of itself: what the thread prints)

threadVars == <<prog, tpc, x, reg, left, mtx, got, request, shown>>

Main == "main"
Workers == {"t1", "t2"}
All == Workers \cup {Main}
NoOne == "no one"
Global == "global"

\* Each thread's index is a variable of its own (__thread), or all share one.
Cell(t) == IF prog = "local" THEN t ELSE Global

Racy == {"race", "serial", "mutex", "joined", "signal"}
OneByOne == {"serial", "chain"}
Team == IF prog \in {"joined", "signal", "cancel", "keep", "halves", "length", "itself", "detached"}
        THEN {"t1"} ELSE Workers

\* The positions a thread works on in halves and sums, in this order.
Mine(t) ==
    IF prog = "halves" THEN IF t = Main THEN {i \in 0 .. Size - 1 : i % 2 = 1}
                                        ELSE {i \in 0 .. Size - 1 : i % 2 = 0}
    ELSE IF t = "t1" THEN 0 .. Size \div 2 - 1 ELSE Size \div 2 .. Size - 1

Programs == {"race", "serial", "mutex", "shared", "local", "halves", "sums", "chain",
             "joined", "signal", "cancel", "keep", "length", "itself", "detached"}

ThreadsTypeOK ==
    /\ prog \in Programs
    /\ tpc \in [All -> {"none", "start", "run", "crit", "use", "store", "signal", "unlock",
                        "lock", "wait", "woken", "join", "off", "done", "cancelled"}]
    /\ x \in [Workers \cup {Global} -> Nat] /\ reg \in [Workers -> Nat]
    /\ left \in [Workers -> 0 .. Times]
    /\ mtx \in All \cup {NoOne}
    /\ got \in [All -> Seq(Nat)]
    /\ request \in BOOLEAN /\ shown \in Nat

ThreadsInit ==
    /\ prog \in Programs
    /\ tpc = [t \in All |-> IF t = Main THEN "start" ELSE "none"]
    /\ x = [c \in Workers \cup {Global} |-> IF prog = "chain" THEN 1 ELSE 0]
    /\ reg = [t \in Workers |-> 0]
    /\ left = [t \in Workers |-> IF prog \in {"joined", "signal", "detached"} THEN 1 ELSE Times]
    /\ mtx = NoOne
    /\ got = [t \in All |-> << >>]
    /\ request = FALSE /\ shown = 0

Goto(t, l) == tpc' = [tpc EXCEPT ![t] = l]

-----------------------------------------------------------------------------
(* The main thread.                                                        *)

\* Both threads are created in one step: the second need not run yet.  glibc stores
\* the identifier in main's tid before the thread begins; POSIX does not say so.
Create ==
    /\ tpc[Main] = "start"
    /\ tpc' = [t \in All |->
         IF t = Main THEN CASE prog = "halves" -> "run"
                            [] prog = "signal" -> "lock"
                            [] prog \in {"cancel", "keep", "detached"} -> "off"
                            [] OTHER -> "join"
         ELSE IF t = "t1" \/ (t \in Team /\ prog \notin OneByOne) THEN "run" ELSE "none"]
    /\ reg' = [reg EXCEPT !["t1"] = IF prog = "itself" THEN 1 ELSE @]
    /\ UNCHANGED <<prog, x, left, mtx, got, request, shown>>

\* Mutant: one thread only is joined.
JoinOne ==
    /\ tpc[Main] = "join"
    /\ tpc["t1"] \in {"done", "cancelled"}
    /\ IF tpc["t2"] = "none" /\ "t2" \in Team
         THEN Goto("t2", "run") /\ UNCHANGED shown
         ELSE Goto(Main, "done") /\ shown' = x[Global]
    /\ UNCHANGED <<prog, x, reg, left, mtx, got, request>>

\* pthread_join of all threads created so far; then main creates the next one
\* or prints and ends.
Join ==
    /\ tpc[Main] = "join"
    /\ \A t \in Team : tpc[t] \in {"none", "done", "cancelled"}
    /\ IF tpc["t2"] = "none" /\ "t2" \in Team
         THEN Goto("t2", "run") /\ UNCHANGED shown
         ELSE Goto(Main, "done") /\ shown' = x[Global]
    /\ UNCHANGED <<prog, x, reg, left, mtx, got, request>>

\* Mutant: the wait without a test before it.
TestLater ==
    /\ tpc[Main] \in {"lock", "woken"} /\ mtx = NoOne
    /\ IF x[Global] = 0 \/ tpc[Main] = "lock"
         THEN Goto(Main, "wait") /\ UNCHANGED shown
         ELSE Goto(Main, "join") /\ shown' = x[Global]
    /\ UNCHANGED <<prog, x, reg, left, mtx, got, request>>

\* With the mutex held: while (available == 0) pthread_cond_wait(), which gives
\* the mutex back and, once woken, takes it again before the next test.
Test ==
    /\ tpc[Main] \in {"lock", "woken"} /\ mtx = NoOne
    /\ IF x[Global] = 0
         THEN Goto(Main, "wait") /\ UNCHANGED shown
         ELSE Goto(Main, "join") /\ shown' = x[Global]
    /\ UNCHANGED <<prog, x, reg, left, mtx, got, request>>

\* A wait may also end without a signal.
SpuriousWakeup ==
    /\ tpc[Main] = "wait"
    /\ Goto(Main, "woken")
    /\ UNCHANGED <<prog, x, reg, left, mtx, got, request, shown>>

\* After its sleep main sends the request and joins.
RequestCancel ==
    /\ prog # "detached" /\ tpc[Main] = "off"
    /\ request' = TRUE
    /\ Goto(Main, "join")
    /\ UNCHANGED <<prog, x, reg, left, mtx, got, shown>>

\* Main returns after a sleep, and the process ends with a thread that is not
\* through.
LeaveDetached ==
    /\ prog = "detached" /\ tpc[Main] = "off"
    /\ tpc' = [tpc EXCEPT ![Main] = "done", !["t1"] = IF @ = "run" THEN "cancelled" ELSE @]
    /\ UNCHANGED <<prog, x, reg, left, mtx, got, request, shown>>

-----------------------------------------------------------------------------
(* Threads.                                                                *)

\* pthread_mutex_lock, in the programs that have one.
Lock(t) ==
    /\ prog \in {"mutex", "signal"} /\ tpc[t] = "run" /\ left[t] > 0
    /\ mtx = NoOne
    /\ mtx' = t
    /\ Goto(t, "crit")
    /\ UNCHANGED <<prog, x, reg, left, got, request, shown>>

\* getElement: the test of the index, and the element at the index.
Check(t) ==
    /\ prog \in {"shared", "local"} /\ tpc[t] = "run"
    /\ IF x[Cell(t)] >= Size THEN Goto(t, "done") ELSE Goto(t, "use")
    /\ UNCHANGED <<prog, x, reg, left, mtx, got, request, shown>>

\* Mutant: an index one too high.
UseNext(t) ==
    /\ tpc[t] = "use"
    /\ got' = [got EXCEPT ![t] = Append(@, x[Cell(t)] + 1)]
    /\ Goto(t, "crit")
    /\ UNCHANGED <<prog, x, reg, left, mtx, request, shown>>

\* array[index] is the element the thread takes.
Use(t) ==
    /\ tpc[t] = "use"
    /\ got' = [got EXCEPT ![t] = Append(@, x[Cell(t)])]
    /\ Goto(t, "crit")
    /\ UNCHANGED <<prog, x, reg, left, mtx, request, shown>>

\* Mutant: one iteration too many.
LoadOnceMore(t) ==
    /\ \/ tpc[t] = "crit"
       \/ prog \in {"race", "serial", "joined"} /\ tpc[t] = "run"
    /\ reg' = [reg EXCEPT ![t] = x[Cell(t)]]
    /\ Goto(t, "store")
    /\ UNCHANGED <<prog, x, left, mtx, got, request, shown>>

\* x++ loads x, with the mutex held where there is one.
Load(t) ==
    /\ \/ tpc[t] = "crit"
       \/ prog \in {"race", "serial", "joined"} /\ tpc[t] = "run" /\ left[t] > 0
    /\ reg' = [reg EXCEPT ![t] = x[Cell(t)]]
    /\ Goto(t, "store")
    /\ UNCHANGED <<prog, x, left, mtx, got, request, shown>>

Store(t) ==
    /\ tpc[t] = "store"
    /\ x' = [x EXCEPT ![Cell(t)] = reg[t] + 1]
    /\ left' = [left EXCEPT ![t] = IF prog \in Racy THEN @ - 1 ELSE @]
    /\ Goto(t, CASE prog = "mutex" -> "unlock" [] prog = "signal" -> "signal" [] OTHER -> "run")
    /\ UNCHANGED <<prog, reg, mtx, got, request, shown>>

\* pthread_cond_signal wakes main only if it waits.
Signal(t) ==
    /\ tpc[t] = "signal"
    /\ tpc' = [tpc EXCEPT ![t] = "unlock",
                          ![Main] = IF @ = "wait" THEN "woken" ELSE @]
    /\ UNCHANGED <<prog, x, reg, left, mtx, got, request, shown>>

Unlock(t) ==
    /\ tpc[t] = "unlock"
    /\ mtx' = NoOne
    /\ Goto(t, "run")
    /\ UNCHANGED <<prog, x, reg, left, got, request, shown>>

\* The next element in halves (main fills, too) and sums.
Work(t) ==
    /\ prog \in {"halves", "sums"} /\ tpc[t] = "run"
    /\ \E i \in Mine(t) \ {got[t][k] : k \in 1 .. Len(got[t])} :
          /\ \A j \in Mine(t) : j < i => \E k \in 1 .. Len(got[t]) : got[t][k] = j
          /\ got' = [got EXCEPT ![t] = Append(@, i)]
    /\ UNCHANGED <<prog, tpc, x, reg, left, mtx, request, shown>>

\* The first thread of the chain doubles what it is given, the second one triples it.
Multiply(t) ==
    /\ prog = "chain" /\ tpc[t] = "run"
    /\ x' = [x EXCEPT ![Global] = @ * (IF t = "t1" THEN 2 ELSE 3)]
    /\ Goto(t, "done")
    /\ UNCHANGED <<prog, reg, left, mtx, got, request, shown>>

\* A thread that returns the length of its argument, which pthread_join gives to
\* main.
Measure(t) ==
    /\ prog = "length" /\ tpc[t] = "run"
    /\ x' = [x EXCEPT ![Global] = Size]
    /\ Goto(t, "done")
    /\ UNCHANGED <<prog, reg, left, mtx, got, request, shown>>

\* A thread that compares pthread_self() with main's tid.
Compare(t) ==
    /\ prog = "itself" /\ tpc[t] = "run"
    /\ x' = [x EXCEPT ![Global] = reg[t]]
    /\ Goto(t, "done")
    /\ UNCHANGED <<prog, reg, left, mtx, got, request, shown>>

\* A thread returns when its loop is over; main goes on to join.
Return(t) ==
    /\ tpc[t] = "run"
    /\ \/ prog \in Racy /\ left[t] = 0
       \/ prog \in {"halves", "sums"} /\ Len(got[t]) = Cardinality(Mine(t))
       \/ prog \in {"cancel", "detached"} /\ left[t] = 0
    /\ Goto(t, IF t = Main THEN "join" ELSE "done")
    /\ UNCHANGED <<prog, x, reg, left, mtx, got, request, shown>>

\* pthread_setcancelstate(PTHREAD_CANCEL_DISABLE), after the first line is printed.
Disable(t) ==
    /\ prog = "keep" /\ tpc[t] = "run"
    /\ Goto(t, "off")
    /\ UNCHANGED <<prog, x, reg, left, mtx, got, request, shown>>

\* A step of the worker's loop: sleep and print.
Pace(t) ==
    /\ \/ prog \in {"cancel", "detached"} /\ tpc[t] = "run"
       \/ prog = "keep" /\ tpc[t] = "off"
    /\ left[t] > 0
    /\ left' = [left EXCEPT ![t] = @ - 1]
    /\ IF prog = "keep" /\ left[t] = 1 THEN Goto(t, "done") ELSE UNCHANGED tpc
    /\ UNCHANGED <<prog, x, reg, mtx, got, request, shown>>

\* The request takes effect where the worker sleeps or prints and may be cancelled.
Cancelled(t) ==
    /\ prog \in {"cancel", "keep"} /\ request
    /\ tpc[t] = "run"
    /\ Goto(t, "cancelled")
    /\ UNCHANGED <<prog, x, reg, left, mtx, got, request, shown>>

MainStep == Join \/ Test \/ RequestCancel \/ LeaveDetached \/ Work(Main) \/ Return(Main)

ThreadStep(t) ==
    \/ Lock(t) \/ Check(t) \/ Use(t) \/ Load(t) \/ Store(t) \/ Signal(t) \/ Unlock(t)
    \/ Work(t) \/ Multiply(t) \/ Measure(t) \/ Compare(t)
    \/ Return(t) \/ Disable(t) \/ Pace(t) \/ Cancelled(t)

ThreadsNext == Create \/ MainStep \/ SpuriousWakeup \/ \E t \in Workers : ThreadStep(t)

ThreadsSpec == ThreadsInit /\ [][ThreadsNext]_threadVars

\* The user starts the program, the kernel runs every thread that can run.
ThreadsFairness ==
    /\ WF_threadVars(MainStep)
    /\ \A t \in Workers : WF_threadVars(ThreadStep(t))

-----------------------------------------------------------------------------
(* Properties.                                                             *)

\* What main finds: every increment when the threads take turns or hold the
\* mutex; without that at least two of them, in whatever way the loads and
\* stores fall, and never more than were made; the element as soon as it is past
\* the wait, even if that ended without a signal; and of a worker that disables
\* cancellation all of its steps or none, whenever the request came; and the
\* length a thread has returned, not before it has.
Counted ==
    /\ tpc[Main] = "done" =>
         /\ prog \in {"serial", "mutex"} => shown = 2 * Times
         /\ prog = "race" => shown \in (IF Times = 1 THEN 1 ELSE 2) .. 2 * Times
         /\ prog = "chain" => shown = 6
         /\ prog = "length" => shown = Size
         /\ prog = "joined" => shown = 1
         /\ prog = "keep" => left["t1"] \in {0, Times}
    /\ tpc[Main] = "join" /\ prog = "signal" => shown = 1

\* Positions of the array: with an index of its own each thread takes every
\* element once and in order; with the shared index a thread that tested it and
\* was overtaken reads one element too far, but never two; each element is
\* filled or added by exactly one thread.
HandedOut ==
    /\ prog = "local" => \A t \in Workers :
          /\ \A k \in 1 .. Len(got[t]) : got[t][k] = k - 1
          /\ tpc[t] = "done" => Len(got[t]) = Size
    /\ prog = "shared" => \A t \in Workers : \A k \in 1 .. Len(got[t]) : got[t][k] <= Size
    /\ prog \in {"halves", "sums"} /\ tpc[Main] = "done" =>
          \A i \in 0 .. Size - 1 :
             Cardinality({w \in All \X (1 .. Size) :
                 w[2] <= Len(got[w[1]]) /\ got[w[1]][w[2]] = i}) = 1

\* Every program ends: no signal, wake-up or join is missed.
ProgramEnds == (tpc[Main] # "start") ~> (tpc[Main] = "done")

-----------------------------------------------------------------------------
(* The tally that the programs which take turns implement.                 *)

InTurn == prog \in {"serial", "mutex", "joined", "signal"}

\* The total is read by main, at its end or once past the wait.
Read == tpc[Main] = "done" \/ (prog = "signal" /\ tpc[Main] = "join")

Counting == INSTANCE Tally WITH
    todo <- [t \in Workers |-> IF InTurn /\ t \in Team THEN left[t] ELSE 0],
    total <- IF InTurn THEN x[Global] ELSE 0,
    answer <- IF InTurn /\ Read THEN {shown} ELSE {}

\* One after the other, under the mutex, and with a single worker that main joins or
\* is signalled by, the load and the store of x++ are one addition, none is lost or
\* made twice, and what main prints is the total after the last of them.
TallySpec == Counting!Spec
=============================================================================
