----------------------------- MODULE ThreadsProofs -----------------------------
(***************************************************************************)
(* Theorems on Threads, for every program of the lab, any number of        *)
(* iterations and any length of the array.                                 *)
(***************************************************************************)
EXTENDS Threads, FiniteSetTheorems, TLAPS

\* The other one of two threads.
Other(t) == IF t = "t1" THEN "t2" ELSE "t1"

\* Past the test of the index, and not yet past the store.
InFlight(t) == tpc[t] \in {"use", "crit", "store"}

Ended(t) == tpc[t] \in {"done", "cancelled"}

\* The increments made.
Stores == 2 * Times - left["t1"] - left["t2"]

\* Main has filled its half of the array, or another thread its part.
Through(t) ==
    \/ t # Main /\ tpc[t] = "done"
    \/ t = Main /\ tpc[t] \in {"join", "done"} /\ prog = "halves"

\* The positions t has used.
Filled(t) == {got[t][k] : k \in 1 .. Len(got[t])}

-----------------------------------------------------------------------------
(* The inductive invariant.                                                *)

\* The places a worker of each program is at.
WorkerPlaces ==
    CASE prog = "mutex" -> {"none", "run", "crit", "store", "unlock", "done"}
      [] prog = "signal" -> {"none", "run", "crit", "store", "signal", "unlock", "done"}
      [] prog \in {"race", "serial", "joined"} -> {"none", "run", "store", "done"}
      [] prog \in {"shared", "local"} -> {"none", "run", "use", "crit", "store", "done"}
      [] prog \in {"cancel", "detached"} -> {"none", "run", "done", "cancelled"}
      [] prog = "keep" -> {"none", "run", "off", "done", "cancelled"}
      [] OTHER -> {"none", "run", "done"}

\* The places of main.
MainPlaces ==
    CASE prog = "halves" -> {"start", "run", "join", "done"}
      [] prog = "signal" -> {"start", "lock", "wait", "woken", "join", "done"}
      [] prog \in {"cancel", "keep"} -> {"start", "off", "join", "done"}
      [] prog = "detached" -> {"start", "off", "done"}
      [] OTHER -> {"start", "join", "done"}

Places ==
    /\ tpc[Main] \in MainPlaces
    /\ \A t \in Workers : tpc[t] \in WorkerPlaces

\* Main creates the first thread, and the second one at once or when the first one
\* has ended; it ends after all of them.
Order ==
    /\ \A t \in Workers : t \notin Team \/ tpc[Main] = "start" => tpc[t] = "none"
    /\ tpc[Main] # "start" =>
         /\ tpc["t1"] # "none"
         /\ "t2" \in Team /\ prog \notin OneByOne => tpc["t2"] # "none"
    /\ prog \in OneByOne /\ tpc["t2"] # "none" => tpc["t1"] = "done"
    /\ tpc[Main] = "done" => \A t \in Team : Ended(t)

\* The loop of a thread that counts.
Loop ==
    prog \in Racy => \A t \in Workers :
        /\ tpc[t] \in {"crit", "store"} => left[t] > 0
        /\ tpc[t] = "done" => left[t] = 0
        /\ tpc[t] \in {"signal", "unlock"} /\ prog = "signal" => left[t] = 0

\* Between its lock and its unlock a thread holds the mutex.
Exclusive ==
    prog \in {"mutex", "signal"} => \A t \in Workers :
        tpc[t] \in {"crit", "store", "signal", "unlock"} => mtx = t

\* Where threads take turns no increment is lost.
Exact ==
    prog \in {"serial", "mutex"} =>
        /\ x[Global] = Stores
        /\ \A t \in Workers : tpc[t] = "store" => reg[t] = x[Global]

\* Where they do not, no load finds more than was stored; and once a thread has
\* stored, x is never 0 again, so the last store of all leaves at least 2.
Between ==
    prog = "race" =>
        /\ x[Global] <= Stores
        /\ Stores > 0 => x[Global] > 0
        /\ \A t \in Workers :
             /\ reg[t] <= Stores
             /\ tpc[t] = "store" /\ left[t] < Times => reg[t] > 0
        /\ Stores = 2 * Times => x[Global] >= (IF Times = 1 THEN 1 ELSE 2)

\* The element main waits for: made once.
Made ==
    prog \in {"joined", "signal"} =>
        /\ x[Global] = 1 - left["t1"]
        /\ tpc["t1"] = "store" => reg["t1"] = 0
        /\ prog = "signal" /\ tpc[Main] \in {"join", "done"} => shown = 1 /\ left["t1"] = 0

\* What the chain, the thread that measures, and the one that cannot be cancelled
\* have done.
Results ==
    /\ prog = "chain" =>
         x[Global] = (IF tpc["t1"] = "done" THEN 2 ELSE 1) * (IF tpc["t2"] = "done" THEN 3 ELSE 1)
    /\ prog = "length" /\ tpc["t1"] = "done" => x[Global] = Size
    /\ prog = "keep" =>
         /\ tpc["t1"] \in {"none", "run", "cancelled"} => left["t1"] = Times
         /\ tpc["t1"] = "off" => left["t1"] > 0
         /\ tpc["t1"] = "done" => left["t1"] = 0

\* What main prints at its end.
Shown ==
    tpc[Main] = "done" =>
        /\ prog \in {"serial", "mutex"} => shown = 2 * Times
        /\ prog = "race" => shown \in (IF Times = 1 THEN 1 ELSE 2) .. 2 * Times
        /\ prog = "chain" => shown = 6
        /\ prog = "length" => shown = Size
        /\ prog = "joined" => shown = 1

\* A thread with an index of its own: the index is the number of elements taken.
Indexed(t) ==
    /\ x[t] <= Size
    /\ InFlight(t) => x[t] < Size
    /\ tpc[t] = "store" => reg[t] = x[t]
    /\ tpc[t] = "done" => x[t] = Size
    /\ Len(got[t]) = IF tpc[t] \in {"crit", "store"} THEN x[t] + 1 ELSE x[t]
    /\ \A k \in 1 .. Len(got[t]) : got[t][k] = k - 1

OwnIndex == prog = "local" => \A t \in Workers : Indexed(t)

\* The shared index: one thread in flight may find it at Size, two may not.
OneIndex ==
    prog = "shared" => \A t \in Workers :
        /\ InFlight(t) => x[Global] <= IF InFlight(Other(t)) THEN Size - 1 ELSE Size
        /\ tpc[t] = "store" =>
             /\ reg[t] <= Size
             /\ reg[t] = Size => (x[Global] >= Size /\ ~InFlight(Other(t)))
        /\ \A k \in 1 .. Len(got[t]) : got[t][k] <= Size

\* The positions a thread has filled are some of its own, each one once.
InPart(t) ==
    /\ Filled(t) \subseteq Mine(t)
    /\ Cardinality(Filled(t)) = Len(got[t])
    /\ \A i, k \in 1 .. Len(got[t]) : got[t][i] = got[t][k] => i = k
    /\ tpc[t] = "none" \/ (t = Main /\ prog = "sums") => got[t] = << >>
    /\ Through(t) => Len(got[t]) = Cardinality(Mine(t))

OwnPart == prog \in {"halves", "sums"} => \A t \in All : InPart(t)

IInv ==
    /\ ThreadsTypeOK /\ Places /\ Order /\ Loop
    /\ Exclusive /\ Exact /\ Between /\ Made /\ Results /\ Shown
    /\ OwnIndex /\ OneIndex /\ OwnPart

-----------------------------------------------------------------------------
(* What the programs can do.                                               *)

\* Threads that count, with and without a mutex.
CountStep ==
    \/ Create \/ Join
    \/ \E t \in Workers : Lock(t) \/ Load(t) \/ Store(t) \/ Unlock(t) \/ Return(t)

SignalStep == CountStep \/ Test \/ SpuriousWakeup \/ \E t \in Workers : Signal(t)

\* Threads that take elements by an index.
IndexStep ==
    Create \/ Join \/ \E t \in Workers : Check(t) \/ Use(t) \/ Load(t) \/ Store(t)

\* Threads that fill or add up their part of the array.
PartStep == Create \/ Join \/ \E t \in All : Work(t) \/ Return(t)

KeepStep ==
    \/ Create \/ Join \/ RequestCancel
    \/ \E t \in Workers : Disable(t) \/ Pace(t) \/ Cancelled(t)

Moves ==
    /\ prog' = prog
    /\ prog \in {"race", "serial", "mutex", "joined"} => CountStep
    /\ prog = "signal" => SignalStep
    /\ prog \in {"shared", "local"} => IndexStep
    /\ prog \in {"halves", "sums"} => PartStep
    /\ prog = "chain" => Create \/ Join \/ \E t \in Workers : Multiply(t)
    /\ prog = "length" => Create \/ Join \/ \E t \in Workers : Measure(t)
    /\ prog = "keep" => KeepStep

LEMMA TeamTypes ==
    /\ Main \notin Workers /\ Global \notin Workers /\ Global # Main
    /\ All = Workers \cup {Main}
    /\ Workers = {"t1", "t2"}
    /\ Team \subseteq Workers /\ "t1" \in Team
    /\ \A t \in Workers : Cell(t) \in Workers \cup {Global}
BY DEF Main, Workers, Global, All, Team, Cell

LEMMA AppendIs ==
  ASSUME NEW S, NEW s \in Seq(S), NEW e \in S
  PROVE  /\ Append(s, e) \in Seq(S)
         /\ Len(Append(s, e)) = Len(s) + 1
         /\ \A i \in 1 .. Len(s) : Append(s, e)[i] = s[i]
         /\ Append(s, e)[Len(s) + 1] = e
OBVIOUS

LEMMA MineIs ==
  ASSUME NEW t \in All
  PROVE  /\ Mine(t) \subseteq 0 .. Size - 1
         /\ Mine(t) \subseteq Nat
         /\ IsFiniteSet(Mine(t)) /\ Cardinality(Mine(t)) \in Nat
<1>1. Mine(t) \subseteq 0 .. Size - 1
  BY ThreadsAssumption DEF Mine
<1>2. IsFiniteSet(0 .. Size - 1)
  BY ThreadsAssumption, FS_Interval
<1>3. IsFiniteSet(Mine(t))
  BY <1>1, <1>2, FS_Subset
<1>4. 0 .. Size - 1 \subseteq Nat
  BY ThreadsAssumption
<1> QED
  BY <1>1, <1>3, <1>4, FS_CardinalityType

-----------------------------------------------------------------------------
(* Types, places and the order of the threads.                             *)

\* An element more.
LEMMA WorkTypes ==
  ASSUME ThreadsTypeOK, NEW t \in All, Work(t)
  PROVE  ThreadsTypeOK'
<1>1. PICK i \in Mine(t) : got' = [got EXCEPT ![t] = Append(@, i)]
  BY DEF Work
<1>2. i \in Nat /\ got[t] \in Seq(Nat)
  BY MineIs DEF ThreadsTypeOK
<1>3. Append(got[t], i) \in Seq(Nat)
  BY <1>2
<1>4. got' \in [All -> Seq(Nat)]
  BY <1>1, <1>3 DEF ThreadsTypeOK
<1> QED
  BY <1>4 DEF ThreadsTypeOK, Work

\* A step of a program is one of its own.
LEMMA StepMoves ==
  ASSUME IInv, ThreadsNext
  PROVE  Moves
<1> USE TeamTypes, ThreadsAssumption
<1>1. CASE Create
  BY <1>1 DEF Racy, Moves, CountStep, SignalStep, IndexStep, PartStep, KeepStep, Create
<1>2. CASE Join
  BY <1>2 DEF Racy, Moves, CountStep, SignalStep, IndexStep, PartStep, KeepStep, Join
<1>3. CASE Test
  BY <1>3 DEF IInv, Programs, Places, WorkerPlaces, MainPlaces, Racy, Moves, CountStep,
     SignalStep, IndexStep, PartStep, KeepStep, Test
<1>4. CASE RequestCancel
  BY <1>4 DEF IInv, Programs, Places, WorkerPlaces, MainPlaces, Racy, Moves, CountStep,
     SignalStep, IndexStep, PartStep, KeepStep, RequestCancel
<1>5. CASE LeaveDetached
  BY <1>5 DEF Racy, Moves, CountStep, SignalStep, IndexStep, PartStep, KeepStep,
     LeaveDetached
<1>6. CASE Work(Main)
  BY <1>6 DEF Racy, Moves, CountStep, SignalStep, IndexStep, PartStep, KeepStep, Work
<1>7. CASE Return(Main)
  BY <1>7 DEF IInv, Programs, Places, WorkerPlaces, MainPlaces, Racy, Moves, CountStep,
     SignalStep, IndexStep, PartStep, KeepStep, Return
<1>8. CASE SpuriousWakeup
  BY <1>8 DEF IInv, Programs, Places, WorkerPlaces, MainPlaces, Racy, Moves, CountStep,
     SignalStep, IndexStep, PartStep, KeepStep, SpuriousWakeup
<1>9. ASSUME NEW t \in Workers, ThreadStep(t) PROVE Moves
  <2>1. CASE Lock(t)
    BY <2>1 DEF Racy, Moves, CountStep, SignalStep, IndexStep, PartStep, KeepStep, Lock
  <2>2. CASE Check(t)
    BY <2>2 DEF Racy, Moves, CountStep, SignalStep, IndexStep, PartStep, KeepStep, Check
  <2>3. CASE Use(t)
    BY <2>3 DEF IInv, Programs, Places, WorkerPlaces, MainPlaces, Racy, Moves, CountStep,
       SignalStep, IndexStep, PartStep, KeepStep, Use
  <2>4. CASE Load(t)
    BY <2>4 DEF IInv, Programs, Places, WorkerPlaces, MainPlaces, Racy, Moves, CountStep,
       SignalStep, IndexStep, PartStep, KeepStep, Load
  <2>5. CASE Store(t)
    BY <2>5 DEF IInv, Programs, Places, WorkerPlaces, MainPlaces, Racy, Moves, CountStep,
       SignalStep, IndexStep, PartStep, KeepStep, Store
  <2>6. CASE Signal(t)
    BY <2>6 DEF IInv, Programs, Places, WorkerPlaces, MainPlaces, Racy, Moves, CountStep,
       SignalStep, IndexStep, PartStep, KeepStep, Signal
  <2>7. CASE Unlock(t)
    BY <2>7 DEF IInv, Programs, Places, WorkerPlaces, MainPlaces, Racy, Moves, CountStep,
       SignalStep, IndexStep, PartStep, KeepStep, Unlock
  <2>8. CASE Work(t)
    BY <2>8 DEF Racy, Moves, CountStep, SignalStep, IndexStep, PartStep, KeepStep, Work
  <2>9. CASE Multiply(t)
    BY <2>9 DEF Racy, Moves, CountStep, SignalStep, IndexStep, PartStep, KeepStep, Multiply
  <2>10. CASE Measure(t)
    BY <2>10 DEF Racy, Moves, CountStep, SignalStep, IndexStep, PartStep, KeepStep, Measure
  <2>11. CASE Compare(t)
    BY <2>11 DEF Racy, Moves, CountStep, SignalStep, IndexStep, PartStep, KeepStep, Compare
  <2>12. CASE Return(t)
    BY <2>12 DEF Racy, Moves, CountStep, SignalStep, IndexStep, PartStep, KeepStep, Return
  <2>13. CASE Disable(t)
    BY <2>13 DEF Racy, Moves, CountStep, SignalStep, IndexStep, PartStep, KeepStep, Disable
  <2>14. CASE Pace(t)
    BY <2>14 DEF Racy, Moves, CountStep, SignalStep, IndexStep, PartStep, KeepStep, Pace
  <2>15. CASE Cancelled(t)
    BY <2>15 DEF Racy, Moves, CountStep, SignalStep, IndexStep, PartStep, KeepStep,
       Cancelled
  <2> QED
    BY <1>9, <2>1, <2>2, <2>3, <2>4, <2>5, <2>6, <2>7, <2>8, <2>9, <2>10, <2>11, <2>12,
       <2>13, <2>14, <2>15 DEF ThreadStep
<1> QED
  BY <1>1, <1>2, <1>3, <1>4, <1>5, <1>6, <1>7, <1>8, <1>9 DEF ThreadsNext, MainStep

\* A step keeps the types.
LEMMA StepTypes ==
  ASSUME IInv, ThreadsNext
  PROVE  ThreadsTypeOK'
<1> USE TeamTypes, ThreadsAssumption
<1>1. CASE Create
  BY <1>1 DEF IInv, ThreadsTypeOK, Racy, Goto, Create
<1>2. CASE Join
  BY <1>2 DEF IInv, ThreadsTypeOK, Programs, Places, WorkerPlaces, MainPlaces, Racy, Goto,
     Join
<1>3. CASE Test
  BY <1>3 DEF IInv, ThreadsTypeOK, Racy, Goto, Test
<1>4. CASE RequestCancel
  BY <1>4 DEF IInv, ThreadsTypeOK, Racy, Goto, RequestCancel
<1>5. CASE LeaveDetached
  BY <1>5 DEF IInv, ThreadsTypeOK, Racy, Goto, LeaveDetached
<1>6. CASE Work(Main)
  BY <1>6, WorkTypes DEF IInv
<1>7. CASE Return(Main)
  BY <1>7 DEF IInv, ThreadsTypeOK, Racy, Goto, Return
<1>8. CASE SpuriousWakeup
  BY <1>8 DEF IInv, ThreadsTypeOK, Racy, Goto, SpuriousWakeup
<1>9. ASSUME NEW t \in Workers, ThreadStep(t) PROVE ThreadsTypeOK'
  <2>1. CASE Lock(t)
    BY <2>1 DEF IInv, ThreadsTypeOK, Racy, Goto, Lock
  <2>2. CASE Check(t)
    BY <2>2 DEF IInv, ThreadsTypeOK, Programs, Places, WorkerPlaces, MainPlaces, Racy, Goto,
       Check
  <2>3. CASE Use(t)
    BY <2>3 DEF IInv, ThreadsTypeOK, Racy, Goto, Use
  <2>4. CASE Load(t)
    BY <2>4 DEF IInv, ThreadsTypeOK, Racy, Goto, Load
  <2>5. CASE Store(t)
    <3>1. /\ x \in [Workers \cup {Global} -> Nat] /\ reg[t] \in Nat
          /\ Cell(t) \in Workers \cup {Global}
      BY DEF IInv, ThreadsTypeOK
    <3>2. x' \in [Workers \cup {Global} -> Nat]
      BY <2>5, <3>1 DEF Store
    <3>3. left' \in [Workers -> 0 .. Times]
      BY SMTT(30), <2>5 DEF IInv, ThreadsTypeOK, Loop, Store
    <3>4. tpc' \in [All -> {"none", "start", "run", "crit", "use", "store", "signal", "unlock",
                           "lock", "wait", "woken", "join", "off", "done", "cancelled"}]
      BY <2>5 DEF IInv, ThreadsTypeOK, Goto, Store
    <3> QED
      BY <2>5, <3>2, <3>3, <3>4 DEF IInv, ThreadsTypeOK, Store
  <2>6. CASE Signal(t)
    BY <2>6 DEF IInv, ThreadsTypeOK, Racy, Goto, Signal
  <2>7. CASE Unlock(t)
    BY <2>7 DEF IInv, ThreadsTypeOK, Racy, Goto, Unlock
  <2>8. CASE Work(t)
    BY <2>8, WorkTypes DEF IInv
  <2>9. CASE Multiply(t)
    BY <2>9 DEF IInv, ThreadsTypeOK, Racy, Goto, Multiply
  <2>10. CASE Measure(t)
    BY <2>10 DEF IInv, ThreadsTypeOK, Racy, Goto, Measure
  <2>11. CASE Compare(t)
    BY <2>11 DEF IInv, ThreadsTypeOK, Racy, Goto, Compare
  <2>12. CASE Return(t)
    BY <2>12 DEF IInv, ThreadsTypeOK, Racy, Goto, Return
  <2>13. CASE Disable(t)
    BY <2>13 DEF IInv, ThreadsTypeOK, Racy, Goto, Disable
  <2>14. CASE Pace(t)
    BY SMTT(30), <2>14 DEF IInv, ThreadsTypeOK, Programs, Places, WorkerPlaces, MainPlaces, Racy,
       Goto, Pace
  <2>15. CASE Cancelled(t)
    BY <2>15 DEF IInv, ThreadsTypeOK, Racy, Goto, Cancelled
  <2> QED
    BY <1>9, <2>1, <2>2, <2>3, <2>4, <2>5, <2>6, <2>7, <2>8, <2>9, <2>10, <2>11, <2>12,
       <2>13, <2>14, <2>15 DEF ThreadStep
<1> QED
  BY <1>1, <1>2, <1>3, <1>4, <1>5, <1>6, <1>7, <1>8, <1>9 DEF ThreadsNext, MainStep

\* Every thread stays within its program.
LEMMA StepPlaces ==
  ASSUME IInv, ThreadsNext
  PROVE  Places'
<1> USE TeamTypes, ThreadsAssumption
<1>1. CASE Create
  BY <1>1 DEF Programs, Places, WorkerPlaces, MainPlaces, Racy, Goto, Create
<1>2. CASE Join
  BY <1>2 DEF IInv, ThreadsTypeOK, Programs, Places, WorkerPlaces, MainPlaces, Racy, Goto,
     Join
<1>3. CASE Test
  BY <1>3 DEF IInv, ThreadsTypeOK, Programs, Places, WorkerPlaces, MainPlaces, Racy, Goto,
     Test
<1>4. CASE RequestCancel
  BY <1>4 DEF IInv, Programs, Places, WorkerPlaces, MainPlaces, Racy, Goto, RequestCancel
<1>5. CASE LeaveDetached
  BY <1>5 DEF IInv, ThreadsTypeOK, Programs, Places, WorkerPlaces, MainPlaces, Racy, Goto,
     LeaveDetached
<1>6. CASE Work(Main)
  BY <1>6 DEF IInv, Programs, Places, WorkerPlaces, MainPlaces, Racy, Goto, Work
<1>7. CASE Return(Main)
  BY <1>7 DEF IInv, Programs, Places, WorkerPlaces, MainPlaces, Racy, Goto, Return
<1>8. CASE SpuriousWakeup
  BY <1>8 DEF IInv, Programs, Places, WorkerPlaces, MainPlaces, Racy, Goto, SpuriousWakeup
<1>9. ASSUME NEW t \in Workers, ThreadStep(t) PROVE Places'
  <2>1. CASE Lock(t)
    BY <2>1 DEF IInv, Programs, Places, WorkerPlaces, MainPlaces, Racy, Goto, Lock
  <2>2. CASE Check(t)
    BY <2>2 DEF IInv, ThreadsTypeOK, Programs, Places, WorkerPlaces, MainPlaces, Racy, Goto,
       Check
  <2>3. CASE Use(t)
    BY <2>3 DEF IInv, Programs, Places, WorkerPlaces, MainPlaces, Racy, Goto, Use
  <2>4. CASE Load(t)
    BY <2>4 DEF IInv, Programs, Places, WorkerPlaces, MainPlaces, Racy, Goto, Load
  <2>5. CASE Store(t)
    BY <2>5 DEF IInv, Programs, Places, WorkerPlaces, MainPlaces, Racy, Goto, Store
  <2>6. CASE Signal(t)
    BY <2>6 DEF IInv, ThreadsTypeOK, Programs, Places, WorkerPlaces, MainPlaces, Racy, Goto,
       Signal
  <2>7. CASE Unlock(t)
    BY <2>7 DEF IInv, Programs, Places, WorkerPlaces, MainPlaces, Racy, Goto, Unlock
  <2>8. CASE Work(t)
    BY <2>8 DEF IInv, Programs, Places, WorkerPlaces, MainPlaces, Racy, Goto, Work
  <2>9. CASE Multiply(t)
    BY <2>9 DEF IInv, Programs, Places, WorkerPlaces, MainPlaces, Racy, Goto, Multiply
  <2>10. CASE Measure(t)
    BY <2>10 DEF IInv, Programs, Places, WorkerPlaces, MainPlaces, Racy, Goto, Measure
  <2>11. CASE Compare(t)
    BY <2>11 DEF IInv, Programs, Places, WorkerPlaces, MainPlaces, Racy, Goto, Compare
  <2>12. CASE Return(t)
    BY <2>12 DEF IInv, Programs, Places, WorkerPlaces, MainPlaces, Racy, Goto, Return
  <2>13. CASE Disable(t)
    BY <2>13 DEF IInv, Programs, Places, WorkerPlaces, MainPlaces, Racy, Goto, Disable
  <2>14. CASE Pace(t)
    BY <2>14 DEF IInv, ThreadsTypeOK, Programs, Places, WorkerPlaces, MainPlaces, Racy,
       Goto, Pace
  <2>15. CASE Cancelled(t)
    BY <2>15 DEF IInv, Programs, Places, WorkerPlaces, MainPlaces, Racy, Goto, Cancelled
  <2> QED
    BY <1>9, <2>1, <2>2, <2>3, <2>4, <2>5, <2>6, <2>7, <2>8, <2>9, <2>10, <2>11, <2>12,
       <2>13, <2>14, <2>15 DEF ThreadStep
<1> QED
  BY <1>1, <1>2, <1>3, <1>4, <1>5, <1>6, <1>7, <1>8, <1>9 DEF ThreadsNext, MainStep

\* Threads are created, end and are joined in this order.
LEMMA StepOrder ==
  ASSUME IInv, ThreadsNext
  PROVE  Order'
<1> USE TeamTypes, ThreadsAssumption
<1>1. CASE Create
  BY <1>1 DEF Programs, Racy, Order, Team, OneByOne, Ended, Goto, Create
<1>2. CASE Join
  BY <1>2 DEF IInv, ThreadsTypeOK, Programs, Places, WorkerPlaces, MainPlaces, Racy, Order,
     Team, OneByOne, Ended, Goto, Join
<1>3. CASE Test
  BY <1>3 DEF IInv, ThreadsTypeOK, Programs, Racy, Order, Team, OneByOne, Ended, Goto, Test
<1>4. CASE RequestCancel
  BY <1>4 DEF IInv, Programs, Racy, Order, Team, OneByOne, Ended, Goto, RequestCancel
<1>5. CASE LeaveDetached
  BY <1>5 DEF IInv, ThreadsTypeOK, Programs, Places, WorkerPlaces, MainPlaces, Racy, Order,
     Team, OneByOne, Ended, Goto, LeaveDetached
<1>6. CASE Work(Main)
  BY <1>6 DEF IInv, Programs, Racy, Order, Team, OneByOne, Ended, Goto, Work
<1>7. CASE Return(Main)
  BY <1>7 DEF IInv, Programs, Racy, Order, Team, OneByOne, Ended, Goto, Return
<1>8. CASE SpuriousWakeup
  BY <1>8 DEF IInv, Programs, Racy, Order, Team, OneByOne, Ended, Goto, SpuriousWakeup
<1>9. ASSUME NEW t \in Workers, ThreadStep(t) PROVE Order'
  <2>1. CASE Lock(t)
    BY <2>1 DEF IInv, Programs, Racy, Order, Team, OneByOne, Ended, Goto, Lock
  <2>2. CASE Check(t)
    BY <2>2 DEF IInv, ThreadsTypeOK, Programs, Places, WorkerPlaces, MainPlaces, Racy,
       Order, Team, OneByOne, Ended, Goto, Check
  <2>3. CASE Use(t)
    BY <2>3 DEF IInv, Programs, Racy, Order, Team, OneByOne, Ended, Goto, Use
  <2>4. CASE Load(t)
    BY <2>4 DEF IInv, Programs, Racy, Order, Team, OneByOne, Ended, Goto, Load
  <2>5. CASE Store(t)
    BY <2>5 DEF IInv, Programs, Racy, Order, Team, OneByOne, Ended, Goto, Store
  <2>6. CASE Signal(t)
    BY <2>6 DEF IInv, ThreadsTypeOK, Programs, Racy, Order, Team, OneByOne, Ended, Goto,
       Signal
  <2>7. CASE Unlock(t)
    BY <2>7 DEF IInv, Programs, Racy, Order, Team, OneByOne, Ended, Goto, Unlock
  <2>8. CASE Work(t)
    BY <2>8 DEF IInv, Programs, Racy, Order, Team, OneByOne, Ended, Goto, Work
  <2>9. CASE Multiply(t)
    BY <2>9 DEF IInv, Programs, Racy, Order, Team, OneByOne, Ended, Goto, Multiply
  <2>10. CASE Measure(t)
    BY <2>10 DEF IInv, Programs, Racy, Order, Team, OneByOne, Ended, Goto, Measure
  <2>11. CASE Compare(t)
    BY <2>11 DEF IInv, Programs, Racy, Order, Team, OneByOne, Ended, Goto, Compare
  <2>12. CASE Return(t)
    BY <2>12 DEF IInv, Programs, Racy, Order, Team, OneByOne, Ended, Goto, Return
  <2>13. CASE Disable(t)
    BY <2>13 DEF IInv, Programs, Racy, Order, Team, OneByOne, Ended, Goto, Disable
  <2>14. CASE Pace(t)
    BY <2>14 DEF IInv, ThreadsTypeOK, Programs, Racy, Order, Team, OneByOne, Ended, Goto,
       Pace
  <2>15. CASE Cancelled(t)
    BY <2>15 DEF IInv, Programs, Racy, Order, Team, OneByOne, Ended, Goto, Cancelled
  <2> QED
    BY <1>9, <2>1, <2>2, <2>3, <2>4, <2>5, <2>6, <2>7, <2>8, <2>9, <2>10, <2>11, <2>12,
       <2>13, <2>14, <2>15 DEF ThreadStep
<1> QED
  BY <1>1, <1>2, <1>3, <1>4, <1>5, <1>6, <1>7, <1>8, <1>9 DEF ThreadsNext, MainStep

\* A thread's loop.
LEMMA StepLoop ==
  ASSUME IInv, ThreadsNext
  PROVE  Loop'
<1> USE TeamTypes, ThreadsAssumption
<1>1. CASE prog \notin Racy
  BY <1>1, StepMoves DEF Moves, Loop, Racy
<1>2. CASE prog \in Racy
  <2>1. prog' = prog /\ SignalStep
    BY <1>2, StepMoves DEF Moves, Racy, CountStep, SignalStep
  <2>2. CASE Create
    BY <1>2, <2>2 DEF Goto, Racy, Loop, Made, Create
  <2>3. CASE Join
    BY <1>2, <2>3 DEF IInv, ThreadsTypeOK, Goto, Racy, Loop, Made, Join
  <2>4. CASE Test
    BY <1>2, <2>4 DEF IInv, ThreadsTypeOK, Goto, Racy, Loop, Made, Test
  <2>5. CASE SpuriousWakeup
    BY <1>2, <2>5 DEF IInv, Goto, Racy, Loop, Made, SpuriousWakeup
  <2>6. ASSUME NEW t \in Workers, Lock(t) PROVE Loop'
    BY <1>2, <2>6 DEF IInv, Goto, Racy, Loop, Made, Lock
  <2>7. ASSUME NEW t \in Workers, Load(t) PROVE Loop'
    BY <1>2, <2>7 DEF IInv, Goto, Racy, Loop, Made, Load
  <2>8. ASSUME NEW t \in Workers, Store(t) PROVE Loop'
    BY <1>2, <2>8 DEF IInv, ThreadsTypeOK, Goto, Order, Team, OneByOne, Racy, Loop, Made,
       Store
  <2>9. ASSUME NEW t \in Workers, Unlock(t) PROVE Loop'
    BY <1>2, <2>9 DEF IInv, Goto, Racy, Loop, Made, Unlock
  <2>10. ASSUME NEW t \in Workers, Return(t) PROVE Loop'
    BY <1>2, <2>10 DEF IInv, Goto, Racy, Loop, Made, Return
  <2>11. ASSUME NEW t \in Workers, Signal(t) PROVE Loop'
    BY <1>2, <2>11 DEF IInv, ThreadsTypeOK, Goto, Racy, Loop, Made, Signal
  <2> QED
    BY <2>1, <2>2, <2>3, <2>4, <2>5, <2>6, <2>7, <2>8, <2>9, <2>10, <2>11 DEF SignalStep,
       CountStep
<1> QED
  BY <1>1, <1>2

\* The mutex.
LEMMA StepExclusive ==
  ASSUME IInv, ThreadsNext
  PROVE  Exclusive'
<1> USE TeamTypes, ThreadsAssumption
<1>1. CASE prog \notin {"mutex", "signal"}
  BY <1>1, StepMoves DEF Moves, Exclusive
<1>2. CASE prog \in {"mutex", "signal"}
  <2>1. prog' = prog /\ SignalStep
    BY <1>2, StepMoves DEF Moves, Racy, CountStep, SignalStep
  <2>2. CASE Create
    BY <1>2, <2>2 DEF Goto, Racy, Exclusive, Create
  <2>3. CASE Join
    BY <1>2, <2>3 DEF IInv, ThreadsTypeOK, Goto, Racy, Exclusive, Join
  <2>4. CASE Test
    BY <1>2, <2>4 DEF IInv, ThreadsTypeOK, Goto, Racy, Exclusive, Test
  <2>5. CASE SpuriousWakeup
    BY <1>2, <2>5 DEF IInv, Goto, Racy, Exclusive, SpuriousWakeup
  <2>6. ASSUME NEW t \in Workers, Lock(t) PROVE Exclusive'
    BY <1>2, <2>6 DEF IInv, ThreadsTypeOK, Goto, Racy, Exclusive, Lock, NoOne
  <2>7. ASSUME NEW t \in Workers, Load(t) PROVE Exclusive'
    BY <1>2, <2>7 DEF IInv, Goto, Racy, Exclusive, Load
  <2>8. ASSUME NEW t \in Workers, Store(t) PROVE Exclusive'
    BY <1>2, <2>8 DEF IInv, Goto, Racy, Exclusive, Store
  <2>9. ASSUME NEW t \in Workers, Unlock(t) PROVE Exclusive'
    BY <1>2, <2>9 DEF IInv, ThreadsTypeOK, Goto, Racy, Exclusive, Unlock
  <2>10. ASSUME NEW t \in Workers, Return(t) PROVE Exclusive'
    BY <1>2, <2>10 DEF IInv, Goto, Racy, Exclusive, Return
  <2>11. ASSUME NEW t \in Workers, Signal(t) PROVE Exclusive'
    BY <1>2, <2>11 DEF IInv, ThreadsTypeOK, Goto, Racy, Exclusive, Signal
  <2> QED
    BY <2>1, <2>2, <2>3, <2>4, <2>5, <2>6, <2>7, <2>8, <2>9, <2>10, <2>11 DEF SignalStep,
       CountStep
<1> QED
  BY <1>1, <1>2

\* No increment is lost where threads take turns.
LEMMA StepExact ==
  ASSUME IInv, ThreadsNext
  PROVE  Exact'
<1> USE TeamTypes, ThreadsAssumption
<1>1. CASE prog \notin {"serial", "mutex"}
  BY <1>1, StepMoves DEF Moves, Exact
<1>2. CASE prog \in {"serial", "mutex"}
  <2>1. prog' = prog /\ CountStep
    BY <1>2, StepMoves DEF Moves, Racy
  <2>2. CASE Create
    BY <1>2, <2>2 DEF IInv, Goto, Racy, Exclusive, Exact, Stores, Cell, Create
  <2>3. CASE Join
    BY <1>2, <2>3 DEF IInv, ThreadsTypeOK, Goto, Racy, Exclusive, Exact, Stores, Cell, Join
  <2>4. ASSUME NEW t \in Workers, Lock(t) PROVE Exact'
    BY <1>2, <2>4 DEF IInv, Goto, Racy, Exclusive, Exact, Stores, Cell, Lock
  <2>5. ASSUME NEW t \in Workers, Load(t) PROVE Exact'
    BY <1>2, <2>5 DEF IInv, ThreadsTypeOK, Goto, Racy, Exclusive, Exact, Stores, Cell, Load
  <2>6. ASSUME NEW t \in Workers, Store(t) PROVE Exact'
    <3>1. x[Global] = Stores /\ reg[t] = x[Global] /\ Cell(t) = Global
      BY <1>2, <2>6 DEF IInv, Exact, Store, Cell
    <3>2. x' = [x EXCEPT ![Global] = reg[t] + 1] /\ left' = [left EXCEPT ![t] = @ - 1]
      BY <1>2, <2>6, <3>1 DEF Store, Racy
    <3>3. Stores' = Stores + 1
      BY <3>2 DEF IInv, ThreadsTypeOK, Stores
    <3>4. x'[Global] = Stores'
      BY <3>1, <3>2, <3>3 DEF IInv, ThreadsTypeOK
    <3>5. \A u \in Workers : tpc'[u] # "store"
      BY <1>2, <2>6 DEF IInv, ThreadsTypeOK, Goto, Order, OneByOne, Exclusive, Store
    <3> QED
      BY <3>4, <3>5 DEF Exact
  <2>7. ASSUME NEW t \in Workers, Unlock(t) PROVE Exact'
    BY <1>2, <2>7 DEF IInv, Goto, Racy, Exclusive, Exact, Stores, Cell, Unlock
  <2>8. ASSUME NEW t \in Workers, Return(t) PROVE Exact'
    BY <1>2, <2>8 DEF IInv, Goto, Racy, Exclusive, Exact, Stores, Cell, Return
  <2> QED
    BY <2>1, <2>2, <2>3, <2>4, <2>5, <2>6, <2>7, <2>8 DEF CountStep
<1> QED
  BY <1>1, <1>2

\* The race.
LEMMA StepBetween ==
  ASSUME IInv, ThreadsNext
  PROVE  Between'
<1> USE TeamTypes, ThreadsAssumption
<1>1. CASE prog \notin {"race"}
  BY <1>1, StepMoves DEF Moves, Between
<1>2. CASE prog \in {"race"}
  <2>1. prog' = prog /\ CountStep
    BY <1>2, StepMoves DEF Moves, Racy
  <2>2. CASE Create
    BY <1>2, <2>2 DEF IInv, Goto, Racy, Between, Stores, Cell, Create
  <2>3. CASE Join
    BY <1>2, <2>3, SMTT(30) DEF IInv, ThreadsTypeOK, Goto, Racy, Between, Stores, Cell, Join
  <2>4. ASSUME NEW t \in Workers, Lock(t) PROVE Between'
    BY <1>2, <2>4 DEF Goto, Racy, Stores, Cell, Lock
  <2>5. ASSUME NEW t \in Workers, Load(t) PROVE Between'
    <3>1. reg' = [reg EXCEPT ![t] = x[Global]] /\ UNCHANGED <<x, left, prog>>
      BY <1>2, <2>5 DEF Load, Cell
    <3>2. Stores' = Stores /\ Stores \in Int
      BY <3>1 DEF IInv, ThreadsTypeOK, Stores
    <3>3. \A u \in Workers : left[u] < Times => Stores > 0
      BY DEF IInv, ThreadsTypeOK, Stores
    <3>4. \A u \in Workers \ {t} : tpc'[u] = tpc[u] /\ reg'[u] = reg[u]
      BY <2>5, <3>1 DEF Load, Goto
    <3>5. reg'[t] = x[Global]
      BY <3>1 DEF IInv, ThreadsTypeOK
    <3> QED
      BY <1>2, <3>1, <3>2, <3>3, <3>4, <3>5 DEF IInv, Between
  <2>6. ASSUME NEW t \in Workers, Store(t) PROVE Between'
    <3>1. /\ x' = [x EXCEPT ![Global] = reg[t] + 1] /\ left' = [left EXCEPT ![t] = @ - 1]
          /\ UNCHANGED <<reg, prog>>
      BY <1>2, <2>6 DEF Store, Cell, Racy
    <3>2. Stores' = Stores + 1 /\ Stores \in Int
      BY SMTT(30), <3>1 DEF IInv, ThreadsTypeOK, Stores
    <3>3. x'[Global] = reg[t] + 1 /\ reg[t] \in Nat /\ x[Global] \in Nat
      BY <3>1 DEF IInv, ThreadsTypeOK
    <3>4. \A u \in Workers \ {t} : tpc'[u] = tpc[u] /\ left'[u] = left[u]
      BY <2>6, <3>1 DEF Store, Goto
    <3>5. tpc'[t] = "run"
      BY <1>2, <2>6 DEF IInv, ThreadsTypeOK, Store, Goto
    <3>6. Stores' = 2 * Times => (Times = 1 \/ left[t] < Times)
      BY <3>1 DEF IInv, ThreadsTypeOK, Stores
    <3>7. Stores >= 0
      BY DEF IInv, ThreadsTypeOK, Stores
    <3>8. tpc[t] = "store" /\ Between
      BY <2>6 DEF Store, IInv
    <3>9. x'[Global] <= Stores'
      BY <1>2, <3>2, <3>3, <3>8 DEF Between
    <3>10. \A u \in Workers : reg'[u] <= Stores'
      BY <1>2, <3>1, <3>2, <3>8 DEF Between, IInv, ThreadsTypeOK
    <3>11. \A u \in Workers : tpc'[u] = "store" /\ left'[u] < Times => reg'[u] > 0
      BY <1>2, <3>1, <3>4, <3>5, <3>8 DEF Between
    <3>12. left[t] < Times => reg[t] > 0
      BY <1>2, <3>8 DEF Between
    <3>13. Stores' = 2 * Times => x'[Global] >= (IF Times = 1 THEN 1 ELSE 2)
      BY <3>3, <3>6, <3>12
    <3> QED
      BY <3>3, <3>9, <3>10, <3>11, <3>13 DEF Between
  <2>7. ASSUME NEW t \in Workers, Unlock(t) PROVE Between'
    BY <1>2, <2>7 DEF IInv, Goto, Racy, Between, Stores, Cell, Unlock
  <2>8. ASSUME NEW t \in Workers, Return(t) PROVE Between'
    BY <1>2, <2>8 DEF IInv, Goto, Racy, Between, Stores, Cell, Return
  <2> QED
    BY <2>1, <2>2, <2>3, <2>4, <2>5, <2>6, <2>7, <2>8 DEF CountStep
<1> QED
  BY <1>1, <1>2

\* The element main waits for.
LEMMA StepMade ==
  ASSUME IInv, ThreadsNext
  PROVE  Made'
<1> USE TeamTypes, ThreadsAssumption
<1>1. CASE prog \notin {"joined", "signal"}
  BY <1>1, StepMoves DEF Moves, Made
<1>2. CASE prog \in {"joined", "signal"}
  <2>1. prog' = prog /\ SignalStep
    BY <1>2, StepMoves DEF Moves, Racy, CountStep, SignalStep
  <2>2. CASE Create
    BY <1>2, <2>2 DEF IInv, Goto, Racy, Made, Cell, Create
  <2>3. CASE Join
    BY <1>2, <2>3 DEF IInv, ThreadsTypeOK, Goto, Places, WorkerPlaces, MainPlaces, Order,
       Team, OneByOne, Racy, Exclusive, Made, Loop, Cell, Join
  <2>4. CASE Test
    BY <1>2, <2>4 DEF IInv, ThreadsTypeOK, Goto, Racy, Made, Cell, Test
  <2>5. CASE SpuriousWakeup
    BY <1>2, <2>5 DEF IInv, Goto, Racy, Made, Cell, SpuriousWakeup
  <2>6. ASSUME NEW t \in Workers, Lock(t) PROVE Made'
    BY <1>2, <2>6 DEF IInv, Goto, Racy, Made, Cell, Lock
  <2>7. ASSUME NEW t \in Workers, Load(t) PROVE Made'
    BY <1>2, <2>7 DEF IInv, ThreadsTypeOK, Goto, Racy, Exclusive, Made, Loop, Cell, Load
  <2>8. ASSUME NEW t \in Workers, Store(t) PROVE Made'
    BY <1>2, <2>8 DEF IInv, ThreadsTypeOK, Goto, Order, Team, OneByOne, Racy, Exclusive,
       Made, Loop, Cell, Store
  <2>9. ASSUME NEW t \in Workers, Unlock(t) PROVE Made'
    BY <1>2, <2>9 DEF IInv, Goto, Racy, Made, Cell, Unlock
  <2>10. ASSUME NEW t \in Workers, Return(t) PROVE Made'
    BY <1>2, <2>10 DEF IInv, Goto, Racy, Made, Cell, Return
  <2>11. ASSUME NEW t \in Workers, Signal(t) PROVE Made'
    BY <1>2, <2>11 DEF IInv, ThreadsTypeOK, Goto, Racy, Made, Cell, Signal
  <2> QED
    BY <2>1, <2>2, <2>3, <2>4, <2>5, <2>6, <2>7, <2>8, <2>9, <2>10, <2>11 DEF SignalStep,
       CountStep
<1> QED
  BY <1>1, <1>2

\* An index of its own.
LEMMA StepOwnIndex ==
  ASSUME IInv, ThreadsNext
  PROVE  OwnIndex'
<1> USE TeamTypes, ThreadsAssumption
<1>1. CASE prog \notin {"local"}
  BY <1>1, StepMoves DEF Moves, OwnIndex
<1>2. CASE prog \in {"local"}
  <2>1. prog' = prog /\ IndexStep
    BY <1>2, StepMoves DEF Moves, Racy
  <2>2. CASE Create
    BY <1>2, <2>2 DEF IInv, Goto, Order, Team, OneByOne, Racy, OwnIndex, Indexed, InFlight,
       Create
  <2>3. CASE Join
    <3> SUFFICES ASSUME NEW u \in Workers PROVE Indexed(u)'
      BY DEF OwnIndex
    <3>1. Indexed(u)
      BY <1>2 DEF IInv, OwnIndex
    <3>2. tpc'[u] = tpc[u] \/ (tpc[u] = "none" /\ tpc'[u] = "run")
      BY <2>3 DEF IInv, ThreadsTypeOK, Goto, Join
    <3> QED
      BY <2>3, <3>1, <3>2 DEF Indexed, InFlight, Join
  <2>4. ASSUME NEW t \in Workers, Check(t) PROVE OwnIndex'
    <3> SUFFICES ASSUME NEW u \in Workers PROVE Indexed(u)'
      BY DEF OwnIndex
    <3>1. Indexed(u) /\ Indexed(t)
      BY <1>2 DEF IInv, OwnIndex
    <3>2. got' = got /\ got \in [All -> Seq(Nat)]
      BY <2>4 DEF Check, IInv, ThreadsTypeOK
    <3>3. CASE u = t
      BY <1>2, <2>4, <3>1, <3>2, <3>3 DEF IInv, ThreadsTypeOK, Check, Goto, Indexed,
         InFlight, Cell
    <3>4. CASE u # t
      BY SMTT(30), <1>2, <2>4, <3>1, <3>2, <3>4 DEF IInv, ThreadsTypeOK, Check, Goto, Indexed,
         InFlight, Cell
    <3> QED
      BY <3>3, <3>4
  <2>5. ASSUME NEW t \in Workers, Use(t) PROVE OwnIndex'
    <3> SUFFICES ASSUME NEW u \in Workers PROVE Indexed(u)'
      BY DEF OwnIndex
    <3>1. Indexed(u) /\ Indexed(t) /\ Cell(t) = t
      BY <1>2 DEF IInv, OwnIndex, Cell
    <3> DEFINE q == Append(got[t], x[t])
    <3>2. /\ got' = [got EXCEPT ![t] = q] /\ got \in [All -> Seq(Nat)]
          /\ x' = x /\ x[t] \in Nat
      BY <2>5, <3>1 DEF Use, IInv, ThreadsTypeOK
    <3>3. q \in Seq(Nat) /\ Len(q) = Len(got[t]) + 1 /\ q[Len(got[t]) + 1] = x[t]
          /\ \A i \in 1 .. Len(got[t]) : q[i] = got[t][i]
      BY <3>2, AppendIs
    <3> HIDE DEF q
    <3>4. CASE u = t
      <4>1. got'[t] = q /\ tpc'[t] = "crit" /\ tpc[t] = "use"
        BY <2>5, <3>2 DEF Use, Goto, IInv, ThreadsTypeOK
      <4>2. Len(got[t]) = x[t] /\ x[t] < Size
        BY <3>1, <4>1 DEF Indexed, InFlight
      <4>3. \A k \in 1 .. Len(got[t]) : got[t][k] = k - 1
        BY <3>1 DEF Indexed
      <4>4. ASSUME NEW k \in 1 .. Len(q) PROVE q[k] = k - 1
        <5>1. got[t] \in Seq(Nat) /\ Len(got[t]) \in Nat
          BY <3>2 DEF All
        <5>2. CASE k = Len(got[t]) + 1
          BY <3>3, <4>2, <5>1, <5>2
        <5>3. CASE k # Len(got[t]) + 1
          <6>1. k \in 1 .. Len(got[t]) /\ q[k] = got[t][k]
            BY SMTT(30), <3>3, <5>1, <5>3
          <6> QED
            BY <4>3, <6>1
        <5> QED
          BY <5>2, <5>3
      <4> QED
        BY <3>2, <3>3, <3>4, <4>1, <4>2, <4>4 DEF Indexed, InFlight
    <3>5. CASE u # t
      BY <1>2, <2>5, <3>1, <3>2, <3>5 DEF Use, Goto, Indexed, InFlight
    <3> QED
      BY <3>4, <3>5
  <2>6. ASSUME NEW t \in Workers, Load(t) PROVE OwnIndex'
    <3> SUFFICES ASSUME NEW u \in Workers PROVE Indexed(u)'
      BY DEF OwnIndex
    <3>1. Indexed(u) /\ Indexed(t)
      BY <1>2 DEF IInv, OwnIndex
    <3>2. got' = got /\ got \in [All -> Seq(Nat)]
      BY <2>6 DEF Load, IInv, ThreadsTypeOK
    <3>3. CASE u = t
      BY <1>2, <2>6, <3>1, <3>2, <3>3 DEF IInv, ThreadsTypeOK, Load, Goto, Indexed,
         InFlight, Cell
    <3>4. CASE u # t
      BY <1>2, <2>6, <3>1, <3>2, <3>4 DEF Load, Goto, Indexed, InFlight, Cell
    <3> QED
      BY <3>3, <3>4
  <2>7. ASSUME NEW t \in Workers, Store(t) PROVE OwnIndex'
    <3> SUFFICES ASSUME NEW u \in Workers PROVE Indexed(u)'
      BY DEF OwnIndex
    <3>1. Indexed(u) /\ Indexed(t)
      BY <1>2 DEF IInv, OwnIndex
    <3>2. got' = got /\ got \in [All -> Seq(Nat)]
      BY <2>7 DEF Store, IInv, ThreadsTypeOK
    <3>3. CASE u = t
      BY <1>2, <2>7, <3>1, <3>2, <3>3 DEF IInv, ThreadsTypeOK, Store, Goto, Indexed,
         InFlight, Cell, Racy
    <3>4. CASE u # t
      BY <1>2, <2>7, <3>1, <3>2, <3>4 DEF Store, Goto, Indexed, InFlight, Cell, Racy
    <3> QED
      BY <3>3, <3>4
  <2> QED
    BY <2>1, <2>2, <2>3, <2>4, <2>5, <2>6, <2>7 DEF IndexStep
<1> QED
  BY <1>1, <1>2

\* One index for both.
LEMMA StepOneIndex ==
  ASSUME IInv, ThreadsNext
  PROVE  OneIndex'
<1> USE TeamTypes, ThreadsAssumption
<1>1. CASE prog \notin {"shared"}
  BY <1>1, StepMoves DEF Moves, OneIndex
<1>2. CASE prog \in {"shared"}
  <2>1. prog' = prog /\ IndexStep
    BY <1>2, StepMoves DEF Moves, Racy
  <2>2. CASE Create
    BY <1>2, <2>2 DEF IInv, Goto, Racy, OneIndex, InFlight, Other, Cell, Create
  <2>3. CASE Join
    BY SMTT(30), <1>2, <2>3 DEF IInv, ThreadsTypeOK, Goto, Racy, OneIndex, InFlight, Other, Cell, Join
  <2>4. ASSUME NEW t \in Workers, Check(t) PROVE OneIndex'
    BY SMTT(30), <1>2, <2>4 DEF IInv, ThreadsTypeOK, Goto, Racy, OneIndex, InFlight, Other, Cell,
       Check
  <2>5. ASSUME NEW t \in Workers, Use(t) PROVE OneIndex'
    <3> DEFINE q == Append(got[t], x[Global])
    <3>1. /\ got' = [got EXCEPT ![t] = q] /\ got \in [All -> Seq(Nat)]
          /\ x' = x /\ reg' = reg /\ x[Global] \in Nat
          /\ tpc[t] = "use" /\ tpc' = [tpc EXCEPT ![t] = "crit"]
      BY <1>2, <2>5 DEF Use, IInv, ThreadsTypeOK, Cell, Goto
    <3>2. q \in Seq(Nat) /\ Len(q) = Len(got[t]) + 1 /\ q[Len(got[t]) + 1] = x[Global]
          /\ \A i \in 1 .. Len(got[t]) : q[i] = got[t][i]
      BY <3>1, AppendIs
    <3> HIDE DEF q
    <3>3. x[Global] <= Size
      BY <1>2, <3>1 DEF IInv, OneIndex, InFlight
    <3>4. ASSUME NEW k \in 1 .. Len(q) PROVE q[k] <= Size
      <4>1. \A i \in 1 .. Len(got[t]) : got[t][i] <= Size
        BY <1>2 DEF IInv, OneIndex
      <4>2. got[t] \in Seq(Nat) /\ Len(got[t]) \in Nat
        BY <3>1 DEF All
      <4>3. CASE k = Len(got[t]) + 1
        BY <3>2, <3>3, <4>2, <4>3
      <4>4. CASE k # Len(got[t]) + 1
        <5>1. k \in 1 .. Len(got[t]) /\ q[k] = got[t][k]
          BY <3>2, <4>2, <4>4
        <5> QED
          BY <4>1, <5>1
      <4> QED
        BY <4>3, <4>4
    <3>5. \A u \in Workers : \A k \in 1 .. Len(got'[u]) : got'[u][k] <= Size
      BY <1>2, <3>1, <3>4 DEF IInv, OneIndex
    <3>6. \A u \in Workers : (InFlight(u)' <=> InFlight(u)) /\ (tpc'[u] = "store" <=> tpc[u] = "store")
      BY <3>1 DEF InFlight, IInv, ThreadsTypeOK
    <3>7. \A u \in Workers : Other(u) \in Workers
      BY DEF Other
    <3>8. \A u \in Workers : (InFlight(Other(u))' <=> InFlight(Other(u)))
      BY <3>1, <3>7 DEF InFlight, IInv, Other
    <3> QED
      BY <1>2, <3>1, <3>5, <3>6, <3>8 DEF IInv, OneIndex
  <2>6. ASSUME NEW t \in Workers, Load(t) PROVE OneIndex'
    BY <1>2, <2>6, SMTT(30) DEF IInv, ThreadsTypeOK, Goto, Racy, OneIndex, InFlight, Other, Cell,
       Load
  <2>7. ASSUME NEW t \in Workers, Store(t) PROVE OneIndex'
    BY SMTT(30), <1>2, <2>7 DEF IInv, ThreadsTypeOK, Goto, Racy, OneIndex, InFlight, Other, Cell,
       Store
  <2> QED
    BY <2>1, <2>2, <2>3, <2>4, <2>5, <2>6, <2>7 DEF IndexStep
<1> QED
  BY <1>1, <1>2

\* A thread's part: a position more, or through with all of them.
LEMMA WorkInPart ==
  ASSUME ThreadsTypeOK, Places, NEW t \in All, Work(t), InPart(t)
  PROVE  InPart(t)'
<1>1. PICK i \in Mine(t) \ Filled(t) : got' = [got EXCEPT ![t] = Append(@, i)]
  BY DEF Work, Filled
<1> DEFINE q == Append(got[t], i)
<1>2. i \in Nat /\ got \in [All -> Seq(Nat)] /\ got[t] \in Seq(Nat) /\ Len(got[t]) \in Nat
  BY MineIs DEF ThreadsTypeOK
<1>3. /\ q \in Seq(Nat) /\ Len(q) = Len(got[t]) + 1 /\ q[Len(got[t]) + 1] = i
      /\ \A k \in 1 .. Len(got[t]) : q[k] = got[t][k]
  BY <1>2, AppendIs
<1>4. got'[t] = q
  BY <1>1, <1>2
<1> HIDE DEF q
<1>5. Mine(t)' = Mine(t) /\ prog' = prog /\ tpc' = tpc /\ prog \in {"halves", "sums"} /\ tpc[t] = "run"
  BY DEF Work, Mine
<1>6. Filled(t)' = Filled(t) \cup {i}
  <2>1. \A k \in 1 .. Len(q) : k = Len(got[t]) + 1 \/ k \in 1 .. Len(got[t])
    BY <1>2, <1>3
  <2>2. Len(got[t]) + 1 \in 1 .. Len(q) /\ 1 .. Len(got[t]) \subseteq 1 .. Len(q)
    BY <1>2, <1>3
  <2> QED
    BY <1>3, <1>4, <2>1, <2>2 DEF Filled
<1>7. Cardinality(Filled(t)') = Len(q)
  <2>1. IsFiniteSet(Filled(t))
    BY MineIs, FS_Subset DEF InPart
  <2>2. Cardinality(Filled(t) \cup {i}) = Cardinality(Filled(t)) + 1
    BY <1>1, <2>1, FS_AddElement
  <2>3. Cardinality(Filled(t)) = Len(got[t])
    BY DEF InPart
  <2> QED
    BY <1>3, <1>6, <2>2, <2>3
<1>8. ASSUME NEW j \in 1 .. Len(q), NEW k \in 1 .. Len(q), q[j] = q[k] PROVE j = k
  <2>1. \A n \in 1 .. Len(q) : n = Len(got[t]) + 1 \/ n \in 1 .. Len(got[t])
    BY <1>2, <1>3
  <2>2. \A n \in 1 .. Len(got[t]) : q[n] # i
    BY <1>1, <1>3 DEF Filled
  <2> QED
    BY <1>3, <1>8, <2>1, <2>2 DEF InPart
<1>9. t # Main \/ prog # "sums"
  BY <1>5 DEF Places, MainPlaces
<1>10. Filled(t)' \subseteq Mine(t)'
  BY <1>1, <1>5, <1>6 DEF InPart
<1>11. ~Through(t)' /\ tpc'[t] # "none"
  BY <1>5 DEF Through
<1> QED
  BY <1>4, <1>5, <1>7, <1>8, <1>9, <1>10, <1>11 DEF InPart

LEMMA StepOwnPart ==
  ASSUME IInv, ThreadsNext
  PROVE  OwnPart'
<1> USE TeamTypes, ThreadsAssumption
<1>1. CASE prog \notin {"halves", "sums"}
  BY <1>1, StepMoves DEF Moves, OwnPart
<1>2. CASE prog \in {"halves", "sums"}
  <2>1. prog' = prog /\ PartStep
    BY <1>2, StepMoves DEF Moves
  <2>2. \A u \in All : InPart(u) /\ Mine(u)' = Mine(u)
    BY <1>2, <2>1 DEF IInv, OwnPart, Mine
  <2>3. ASSUME NEW u \in All, got'[u] = got[u], Through(u)' => Through(u),
               tpc'[u] = "none" => tpc[u] = "none"
        PROVE  InPart(u)'
    <3>1. Filled(u)' = Filled(u)
      BY <2>3 DEF Filled
    <3>2. InPart(u) /\ Mine(u)' = Mine(u)
      BY <2>2
    <3> QED
      BY <2>1, <2>3, <3>1, <3>2 DEF InPart
  <2>4. CASE Create
    <3>1. ASSUME NEW u \in All PROVE got'[u] = got[u] /\ ~Through(u)' /\ (tpc'[u] = "none" => tpc[u] = "none")
      BY <1>2, <2>4, <3>1 DEF Create, Through, IInv, Order
    <3> QED
      BY <2>3, <3>1 DEF OwnPart
  <2>5. CASE Join
    <3>1. ASSUME NEW u \in All PROVE got'[u] = got[u] /\ (Through(u)' => Through(u)) /\ (tpc'[u] = "none" => tpc[u] = "none")
      BY <1>2, <2>5, <3>1 DEF Join, Goto, Through, IInv, ThreadsTypeOK
    <3> QED
      BY <2>3, <3>1 DEF OwnPart
  <2>6. ASSUME NEW t \in All, Work(t) PROVE OwnPart'
    <3>1. InPart(t)'
      BY <2>2, <2>6, WorkInPart DEF IInv
    <3>2. ASSUME NEW u \in All, u # t PROVE InPart(u)'
      <4>1. got'[u] = got[u] /\ (Through(u)' => Through(u)) /\ (tpc'[u] = "none" => tpc[u] = "none")
        BY <2>6, <3>2 DEF Work, Through, IInv
      <4> QED
        BY <2>3, <4>1
    <3> QED
      BY <3>1, <3>2 DEF OwnPart
  <2>7. ASSUME NEW t \in All, Return(t) PROVE OwnPart'
    <3>1. got' = got /\ prog' = prog /\ Len(got[t]) = Cardinality(Mine(t)) /\ tpc[t] = "run"
          /\ tpc' = [tpc EXCEPT ![t] = IF t = Main THEN "join" ELSE "done"]
      BY <1>2, <2>7 DEF Return, Racy, Goto
    <3>2. InPart(t)'
      <4>1. tpc'[t] # "none" /\ (t = Main => prog # "sums")
        BY <1>2, <3>1 DEF IInv, Places, MainPlaces
      <4>2. InPart(t) /\ Mine(t)' = Mine(t) /\ Filled(t)' = Filled(t)
        BY <2>2, <3>1 DEF Filled
      <4> QED
        BY <3>1, <4>1, <4>2 DEF InPart
    <3>3. ASSUME NEW u \in All, u # t PROVE InPart(u)'
      <4>1. tpc'[u] = tpc[u]
        BY <3>1, <3>3 DEF IInv, ThreadsTypeOK
      <4> QED
        BY <2>3, <3>1, <4>1 DEF Through
    <3> QED
      BY <3>2, <3>3 DEF OwnPart
  <2> QED
    BY <2>1, <2>4, <2>5, <2>6, <2>7 DEF PartStep
<1> QED
  BY <1>1, <1>2

\* What the chain, the thread that measures and the one that disables cancellation
\* have done so far.
LEMMA StepResults ==
  ASSUME IInv, ThreadsNext
  PROVE  Results'
<1> USE TeamTypes, ThreadsAssumption
<1>1. CASE prog \notin {"chain", "length", "keep"}
  BY <1>1, StepMoves DEF Moves, Results
<1>2. CASE prog = "chain"
  <2>1. prog' = prog /\ (Create \/ Join \/ \E t \in Workers : Multiply(t))
    BY <1>2, StepMoves DEF Moves
  <2>2. CASE Create
    BY <1>2, <2>2 DEF IInv, Create, Results, Order, OneByOne
  <2>3. CASE Join
    BY <1>2, <2>3 DEF IInv, ThreadsTypeOK, Join, Goto, Results
  <2>4. ASSUME NEW t \in Workers, Multiply(t) PROVE Results'
    BY <1>2, <2>4 DEF IInv, ThreadsTypeOK, Multiply, Goto, Results
  <2> QED
    BY <2>1, <2>2, <2>3, <2>4
<1>3. CASE prog = "length"
  <2>1. prog' = prog /\ (Create \/ Join \/ \E t \in Workers : Measure(t))
    BY <1>3, StepMoves DEF Moves
  <2>2. CASE Create
    BY <1>3, <2>2 DEF Create, Results
  <2>3. CASE Join
    BY <1>3, <2>3 DEF IInv, ThreadsTypeOK, Join, Goto, Results
  <2>4. ASSUME NEW t \in Workers, Measure(t) PROVE Results'
    BY <1>3, <2>4 DEF IInv, ThreadsTypeOK, Measure, Goto, Results
  <2> QED
    BY <2>1, <2>2, <2>3, <2>4
<1>4. CASE prog = "keep"
  <2>1. prog' = prog /\ KeepStep
    BY <1>4, StepMoves DEF Moves
  <2>2. CASE Create
    BY <1>4, <2>2 DEF IInv, Create, Results, Order
  <2>3. CASE Join
    BY <1>4, <2>3 DEF IInv, ThreadsTypeOK, Join, Goto, Results
  <2>4. CASE RequestCancel
    BY <1>4, <2>4 DEF IInv, RequestCancel, Goto, Results
  <2>5. ASSUME NEW t \in Workers, Disable(t) PROVE Results'
    BY <1>4, <2>5 DEF IInv, Disable, Goto, Results
  <2>6. ASSUME NEW t \in Workers, Pace(t) PROVE Results'
    BY <1>4, <2>6 DEF IInv, ThreadsTypeOK, Pace, Goto, Results
  <2>7. ASSUME NEW t \in Workers, Cancelled(t) PROVE Results'
    BY <1>4, <2>7 DEF IInv, Cancelled, Goto, Results
  <2> QED
    BY <2>1, <2>2, <2>3, <2>4, <2>5, <2>6, <2>7 DEF KeepStep
<1> QED
  BY <1>1, <1>2, <1>3, <1>4

\* Main joins last and prints then.
LEMMA StepShown ==
  ASSUME IInv, ThreadsNext
  PROVE  Shown'
<1> USE TeamTypes, ThreadsAssumption
<1> DEFINE printing == prog \in {"race", "serial", "mutex", "joined", "chain", "length"}
<1>1. CASE ~printing
  BY <1>1, StepMoves DEF Moves, Shown
<1>2. CASE printing /\ ~Join
  <2>1. /\ prog' = prog
        /\ \/ Create
           \/ \E t \in Workers :
                Lock(t) \/ Load(t) \/ Store(t) \/ Unlock(t) \/ Return(t) \/ Multiply(t) \/ Measure(t)
    BY <1>2, StepMoves DEF Moves, CountStep
  <2>2. CASE Create
    BY <1>2, <2>2 DEF Create, Shown, IInv
  <2>3. ASSUME NEW t \in Workers,
               Lock(t) \/ Load(t) \/ Store(t) \/ Unlock(t) \/ Return(t) \/ Multiply(t) \/ Measure(t)
        PROVE  tpc'[Main] = tpc[Main] /\ shown' = shown /\ prog' = prog
    BY <1>2, <2>3 DEF Lock, Load, Store, Unlock, Return, Multiply, Measure, Goto, IInv,
       ThreadsTypeOK
  <2> QED
    BY <2>1, <2>2, <2>3 DEF Shown, IInv
<1>3. CASE printing /\ Join /\ tpc'[Main] = "done"
  <2>1. /\ shown' = x[Global] /\ prog' = prog
        /\ tpc["t1"] = "done" /\ ("t2" \in Team => tpc["t2"] = "done")
    BY <1>3 DEF Join, Goto, IInv, ThreadsTypeOK, Places, WorkerPlaces, Order, Team, OneByOne
  <2>2. prog \notin {"length", "joined"} => "t2" \in Team
    BY <1>3 DEF Team
  <2>3. prog \in {"race", "serial", "mutex"} => Stores = 2 * Times
    BY <2>1, <2>2 DEF IInv, Loop, Racy, Stores
  <2>4. x[Global] \in Nat
    BY DEF IInv, ThreadsTypeOK
  <2>5. prog \in {"serial", "mutex"} => shown' = 2 * Times
    BY <2>1, <2>3 DEF IInv, Exact
  <2>6. prog = "race" => shown' \in (IF Times = 1 THEN 1 ELSE 2) .. 2 * Times
    BY <2>1, <2>3, <2>4 DEF IInv, Between
  <2>7. (prog = "chain" => shown' = 6) /\ (prog = "length" => shown' = Size)
    BY <2>1, <2>2 DEF IInv, Results
  <2>8. prog = "joined" => shown' = 1
    BY <2>1 DEF IInv, Loop, Racy, Made
  <2> QED
    BY <2>1, <2>5, <2>6, <2>7, <2>8 DEF Shown
<1>4. CASE tpc'[Main] # "done"
  BY <1>4 DEF Shown
<1> QED
  BY <1>1, <1>2, <1>3, <1>4

-----------------------------------------------------------------------------
(* The invariant, and what follows from it.                                *)

LEMMA InitInv == ThreadsInit => IInv
<1> SUFFICES ASSUME ThreadsInit PROVE IInv
  OBVIOUS
<1> USE TeamTypes, ThreadsAssumption DEF ThreadsInit
<1>1. ThreadsTypeOK
  <2>1. left \in [Workers -> 0 .. Times]
    OBVIOUS
  <2>2. x \in [Workers \cup {Global} -> Nat] /\ reg \in [Workers -> Nat] /\ shown \in Nat
    OBVIOUS
  <2>3. got \in [All -> Seq(Nat)]
    <3>1. << >> \in Seq(Nat)
      OBVIOUS
    <3> QED
      BY <3>1
  <2>4. tpc \in [All -> {"none", "start"}]
    OBVIOUS
  <2> QED
    BY <2>1, <2>2, <2>3, <2>4 DEF ThreadsTypeOK, NoOne
<1>2. Places
  BY DEF Places, MainPlaces, WorkerPlaces, Programs
<1>3. Order
  BY DEF Order
<1>4. Loop /\ Exclusive /\ Made /\ Shown
  BY DEF Loop, Exclusive, Made, Shown
<1>5. Exact
  BY DEF Exact, Stores
<1>6. Between
  BY DEF Between, Stores
<1>7. Results
  BY DEF Results
<1>8. OwnIndex /\ OneIndex
  BY DEF OwnIndex, Indexed, OneIndex, InFlight
<1>9. ASSUME NEW t \in All PROVE InPart(t)
  <2>1. got[t] = << >> /\ Filled(t) = {} /\ Len(got[t]) = 0
    BY DEF Filled
  <2>2. ~Through(t)
    BY DEF Through
  <2> QED
    BY <2>1, <2>2, FS_EmptySet DEF InPart
<1> QED
  BY <1>1, <1>2, <1>3, <1>4, <1>5, <1>6, <1>7, <1>8, <1>9 DEF IInv, OwnPart

\* Init => IInv and IInv /\ [Next]_threadVars => IInv', hence:
LEMMA Invariance == ThreadsSpec => []IInv
<1>1. ASSUME IInv, ThreadsNext PROVE IInv'
  BY <1>1, StepTypes, StepPlaces, StepOrder, StepLoop, StepExclusive, StepExact,
     StepBetween, StepMade, StepResults, StepShown, StepOwnIndex, StepOneIndex, StepOwnPart
     DEF IInv
<1>2. ASSUME IInv, UNCHANGED threadVars PROVE IInv'
  <2>1. UNCHANGED <<prog, tpc, x, reg, left, mtx, got, request, shown>>
    BY <1>2 DEF threadVars
  <2>2. (ThreadsTypeOK /\ Places /\ Order /\ Loop /\ Exclusive)'
    BY <1>2, <2>1 DEF IInv, ThreadsTypeOK, Places, MainPlaces, WorkerPlaces, Order, Team,
       Ended, Loop, Exclusive
  <2>3. (Exact /\ Between /\ Made /\ Results /\ Shown)'
    BY <1>2, <2>1 DEF IInv, Exact, Stores, Between, Made, Results, Shown
  <2>4. (OwnIndex /\ OneIndex)'
    BY <1>2, <2>1 DEF IInv, OwnIndex, Indexed, OneIndex, InFlight
  <2>5. OwnPart'
    <3>1. \A t \in All : Filled(t)' = Filled(t) /\ Mine(t)' = Mine(t) /\ (Through(t)' <=> Through(t))
      BY <2>1 DEF Filled, Mine, Through
    <3>2. ASSUME NEW t \in All, InPart(t) PROVE InPart(t)'
      BY <2>1, <3>1, <3>2 DEF InPart
    <3> QED
      BY <1>2, <2>1, <3>2 DEF IInv, OwnPart
  <2> QED
    BY <2>2, <2>3, <2>4, <2>5 DEF IInv
<1> QED
  BY <1>1, <1>2, InitInv, PTL DEF ThreadsSpec

\* Every reachable state has its type: no loop runs below zero, and a place is one
\* of the program's.
THEOREM TypeCorrect == ThreadsSpec => []ThreadsTypeOK
<1>1. IInv => ThreadsTypeOK
  BY DEF IInv
<1> QED
  BY <1>1, Invariance, PTL

\* What main finds at its end: every increment under the mutex and one after the
\* other, from two (one, if there is one iteration) to all of them in the race, 6
\* from the chain, the length, all the steps or none of a worker that disables
\* cancellation; and the element of the signal program once main is past the wait.
THEOREM MainFindsTheResult == ThreadsSpec => []Counted
<1>1. IInv => Counted
  <2> SUFFICES ASSUME IInv PROVE Counted
    OBVIOUS
  <2>1. tpc[Main] = "join" /\ prog = "signal" => shown = 1
    BY DEF IInv, Made
  <2>2. tpc[Main] = "done" /\ prog = "keep" => left["t1"] \in {0, Times}
    BY TeamTypes DEF IInv, Results, Order, Ended
  <2> QED
    BY <2>1, <2>2 DEF IInv, Shown, Counted
<1> QED
  BY <1>1, Invariance, PTL

\* At the end of halves and sums a position has been used by its own thread, once.
LEMMA OneFiller ==
  ASSUME IInv, prog \in {"halves", "sums"}, tpc[Main] = "done", NEW i \in 0 .. Size - 1
  PROVE  Cardinality({w \in All \X (1 .. Size) :
                        w[2] <= Len(got[w[1]]) /\ got[w[1]][w[2]] = i}) = 1
<1> USE TeamTypes, ThreadsAssumption
<1> DEFINE fills == {w \in All \X (1 .. Size) : w[2] <= Len(got[w[1]]) /\ got[w[1]][w[2]] = i}
<1> DEFINE active == IF prog = "halves" THEN {"t1", Main} ELSE Workers
<1>1. \A t \in All : InPart(t) /\ got[t] \in Seq(Nat) /\ Len(got[t]) \in Nat
  BY DEF IInv, OwnPart, ThreadsTypeOK
<1>2. \A t \in active : Through(t)
  BY DEF Through, IInv, Order, Ended, Team, Places, WorkerPlaces
<1>3. \A t \in All \ active : got[t] = << >>
  BY <1>1 DEF IInv, Order, Team, InPart
<1>4. PICK t \in active : i \in Mine(t) /\ \A u \in active : i \in Mine(u) => u = t
  <2>1. CASE prog = "halves"
    <3>1. i \in Mine(Main) <=> i % 2 = 1
      BY <2>1 DEF Mine
    <3>2. i \in Mine("t1") <=> i % 2 = 0
      BY <2>1 DEF Mine
    <3>3. i % 2 = 0 \/ i % 2 = 1
      OBVIOUS
    <3> QED
      BY <2>1, <3>1, <3>2, <3>3
  <2>2. CASE prog = "sums"
    <3>1. i \in Mine("t1") <=> i < Size \div 2
      BY <2>2 DEF Mine
    <3>2. i \in Mine("t2") <=> i >= Size \div 2
      BY <2>2 DEF Mine
    <3>3. i < Size \div 2 \/ i >= Size \div 2
      OBVIOUS
    <3> QED
      BY <2>2, <3>1, <3>2, <3>3
  <2> QED
    BY <2>1, <2>2
<1>5. ASSUME NEW u \in All PROVE Len(got[u]) <= Size /\ Filled(u) \subseteq Mine(u)
  <2>1. Filled(u) \subseteq Mine(u) /\ Cardinality(Filled(u)) = Len(got[u])
    BY <1>1 DEF InPart
  <2>2. IsFiniteSet(0 .. Size - 1) /\ Cardinality(0 .. Size - 1) = Size
    BY FS_Interval
  <2>3. Filled(u) \subseteq 0 .. Size - 1
    BY <2>1, MineIs
  <2> QED
    BY <2>1, <2>2, <2>3, FS_Subset
<1>6. Filled(t) = Mine(t)
  <2>1. Filled(t) \subseteq Mine(t) /\ Cardinality(Filled(t)) = Cardinality(Mine(t))
    BY <1>1, <1>2 DEF InPart
  <2> QED
    BY <2>1, MineIs, FS_Subset
<1>7. PICK k \in 1 .. Len(got[t]) : got[t][k] = i
  BY <1>4, <1>6 DEF Filled
<1>8. <<t, k>> \in fills
  <2>1. t \in All /\ k \in 1 .. Size /\ k <= Len(got[t])
    BY <1>1, <1>5, <1>7
  <2> QED
    BY <1>7, <2>1
<1>9. ASSUME NEW w \in fills PROVE w = <<t, k>>
  <2>1. PICK u \in All, n \in 1 .. Size : w = <<u, n>> /\ n <= Len(got[u]) /\ got[u][n] = i
    OBVIOUS
  <2>2. n \in 1 .. Len(got[u])
    BY <1>1, <2>1
  <2>3. i \in Filled(u) /\ got[u] # << >>
    BY <2>1, <2>2 DEF Filled
  <2>4. u = t
    BY <1>3, <1>4, <1>5, <2>3
  <2>5. n = k
    <3>1. \A j, m \in 1 .. Len(got[t]) : got[t][j] = got[t][m] => j = m
      BY <1>1 DEF InPart
    <3>2. n \in 1 .. Len(got[t]) /\ got[t][n] = i
      BY <2>1, <2>2, <2>4
    <3> QED
      BY <1>7, <3>1, <3>2
  <2> QED
    BY <2>1, <2>4, <2>5
<1>10. fills = {<<t, k>>}
  BY <1>8, <1>9
<1> QED
  BY <1>10, FS_Singleton

\* The array is handed out as the programs mean to: every element once and in order
\* to a thread with its own index, at most one element too far by the shared index,
\* and each element of halves and sums to exactly one thread.
THEOREM EachElementIsHandedOut == ThreadsSpec => []HandedOut
<1>1. IInv => HandedOut
  <2> SUFFICES ASSUME IInv PROVE HandedOut
    OBVIOUS
  <2>1. ASSUME prog = "local", NEW t \in Workers
        PROVE  /\ \A k \in 1 .. Len(got[t]) : got[t][k] = k - 1
               /\ tpc[t] = "done" => Len(got[t]) = Size
    BY <2>1 DEF IInv, OwnIndex, Indexed
  <2>2. ASSUME prog = "shared", NEW t \in Workers
        PROVE  \A k \in 1 .. Len(got[t]) : got[t][k] <= Size
    BY <2>2 DEF IInv, OneIndex
  <2> QED
    BY <2>1, <2>2, OneFiller DEF HandedOut
<1> QED
  BY <1>1, Invariance, PTL

-----------------------------------------------------------------------------
(* The tally.                                                              *)

Todo == [t \in Workers |-> IF InTurn /\ t \in Team THEN left[t] ELSE 0]

\* A step that moves neither the counter, nor a loop, nor what main has read.
LEMMA Uncounted ==
  ASSUME prog' = prog, UNCHANGED <<x, left>>,
         InTurn => (Read' <=> Read) /\ (Read => shown' = shown)
  PROVE  UNCHANGED Counting!tallyVars
<1>1. (InTurn' <=> InTurn) /\ Team' = Team
  BY DEF InTurn, Team
<1> QED
  BY <1>1 DEF Counting!tallyVars

\* A store with the turn or the mutex is an addition.
LEMMA StoreIsAdd ==
  ASSUME IInv, InTurn, NEW t \in Workers, Store(t)
  PROVE  Counting!Add(t)
<1> USE TeamTypes, ThreadsAssumption
<1>1. prog' = prog /\ tpc[t] = "store" /\ Cell(t) = Global /\ InTurn' /\ Team' = Team
  BY DEF Store, Cell, InTurn, Team
<1>2. t \in Team /\ left[t] > 0
  BY <1>1 DEF IInv, Order, Loop, InTurn, Racy
<1>3. left' = [left EXCEPT ![t] = left[t] - 1] /\ x' = [x EXCEPT ![Global] = reg[t] + 1]
  BY <1>1 DEF Store, InTurn, Racy
<1>4. reg[t] = x[Global]
  <2>1. CASE prog \in {"serial", "mutex"}
    BY <1>1, <2>1 DEF IInv, Exact
  <2>2. CASE prog \in {"joined", "signal"}
    <3>1. t = "t1"
      BY <1>2, <2>2 DEF Team
    <3>2. x[Global] = 1 - left["t1"] /\ reg["t1"] = 0
      BY <1>1, <2>2, <3>1 DEF IInv, Made
    <3> QED
      BY <1>2, <3>1, <3>2 DEF IInv, ThreadsTypeOK
  <2> QED
    BY <2>1, <2>2 DEF InTurn
<1>5. x'[Global] = x[Global] + 1
  BY <1>3, <1>4 DEF IInv, ThreadsTypeOK
<1>6. ~Read
  <2>1. tpc[Main] # "done"
    BY <1>1, <1>2 DEF IInv, Order, Ended
  <2>2. CASE prog = "signal" /\ tpc[Main] = "join"
    <3>1. t = "t1"
      BY <1>2, <2>2 DEF Team
    <3> QED
      BY <1>2, <2>2, <3>1 DEF IInv, Made
  <2> QED
    BY <2>1, <2>2 DEF Read
<1>7. ~Read'
  <2>1. tpc'[Main] = tpc[Main]
    BY DEF Store, Goto, IInv, ThreadsTypeOK
  <2> QED
    BY <1>1, <1>6, <2>1 DEF Read
<1>8. Todo' = [Todo EXCEPT ![t] = Todo[t] - 1] /\ Todo[t] > 0
  <2>1. /\ Todo[t] = left[t] /\ Todo'[t] = left[t] - 1
        /\ \A u \in Workers : u # t => Todo'[u] = Todo[u]
    BY <1>1, <1>2, <1>3 DEF Todo, IInv, ThreadsTypeOK
  <2>2. Todo' = [u \in Workers |-> Todo'[u]] /\ Todo = [u \in Workers |-> Todo[u]]
    BY DEF Todo
  <2> QED
    BY <1>2, <2>1, <2>2
<1> QED
  BY <1>1, <1>5, <1>6, <1>7, <1>8 DEF Counting!Add, Todo

\* Main reads the total when every loop is over.
LEMMA ReadIsReport ==
  ASSUME IInv, InTurn, ThreadsNext, IInv', Join \/ Test
  PROVE  Counting!Report \/ UNCHANGED Counting!tallyVars
<1> USE TeamTypes, ThreadsAssumption
<1>1. prog' = prog /\ UNCHANGED <<x, left>> /\ (InTurn' <=> InTurn) /\ Team' = Team
  BY DEF Join, Test, InTurn, Team
<1>2. CASE ~Read /\ Read'
  <2>1. shown' = x[Global]
    <3>1. tpc'[Main] # tpc[Main] /\ tpc'[Main] # "wait"
      BY <1>1, <1>2 DEF Read
    <3>2. CASE Join
      <4>1. Goto("t2", "run") \/ shown' = x[Global]
        BY <3>2 DEF Join
      <4>2. Goto("t2", "run") => tpc'[Main] = tpc[Main]
        BY DEF Goto, IInv, ThreadsTypeOK
      <4> QED
        BY <3>1, <4>1, <4>2
    <3>3. CASE Test
      BY <3>1, <3>3 DEF Test, Goto, IInv, ThreadsTypeOK
    <3> QED
      BY <3>2, <3>3
  <2>2. ASSUME NEW t \in Workers, t \in Team PROVE left[t] = 0
    <3>1. CASE Join
      <4>1. tpc'[Main] = "done"
        BY <1>1, <1>2, <3>1 DEF Join, Goto, Read, IInv, ThreadsTypeOK
      <4>2. tpc'[t] = "done"
        BY <1>1, <2>2, <4>1 DEF IInv, Order, Ended, Places, WorkerPlaces, InTurn
      <4> QED
        BY <1>1, <4>2 DEF IInv, Loop, InTurn, Racy
    <3>2. CASE Test
      <4>1. prog = "signal" /\ t = "t1" /\ x[Global] # 0
        BY <1>1, <1>2, <2>2, <3>2 DEF Test, Goto, Read, IInv, ThreadsTypeOK, Places, MainPlaces,
           InTurn, Team
      <4>2. x[Global] \in Nat /\ left["t1"] \in 0 .. Times /\ x[Global] = 1 - left["t1"]
        BY <4>1 DEF IInv, ThreadsTypeOK, Made
      <4> QED
        BY <4>1, <4>2
    <3> QED
      BY <3>1, <3>2
  <2> QED
    BY <1>1, <1>2, <2>1, <2>2 DEF Counting!Report
<1>3. CASE Read
  <2>1. Join /\ prog = "signal" /\ tpc[Main] = "join"
    BY <1>3 DEF Join, Test, Read
  <2>2. tpc'[Main] = "done" /\ Read'
    BY <1>1, <2>1 DEF Join, Goto, Read, IInv, ThreadsTypeOK, Team
  <2>3. shown = 1 /\ shown' = 1
    BY <1>1, <2>1, <2>2 DEF IInv, Made
  <2> QED
    BY <1>1, <1>3, <2>2, <2>3, Uncounted
<1>4. CASE ~Read /\ ~Read'
  BY <1>1, <1>4, Uncounted
<1> QED
  BY <1>2, <1>3, <1>4

\* The loads and stores of the programs that take turns add up as if each x++ were
\* one step, for any number of iterations, and main prints the total (the thread
\* functions and the joins of the increment and condition variable programs).
THEOREM ThreadsTally == ThreadsSpec => TallySpec
<1> USE TeamTypes, ThreadsAssumption
<1>1. ThreadsInit => Counting!Init
  <2> SUFFICES ASSUME ThreadsInit PROVE Counting!Init
    OBVIOUS
  <2>1. left \in [Workers -> Nat] /\ x[Global] = IF prog = "chain" THEN 1 ELSE 0
    BY DEF ThreadsInit
  <2>2. ~Read
    BY DEF ThreadsInit, Read
  <2> QED
    BY <2>1, <2>2 DEF Counting!Init, InTurn
<1>2. IInv /\ IInv' /\ [ThreadsNext]_threadVars => [Counting!Next]_(Counting!tallyVars)
  <2> SUFFICES ASSUME IInv, IInv', [ThreadsNext]_threadVars
               PROVE  Counting!Next \/ UNCHANGED Counting!tallyVars
    OBVIOUS
  <2>1. CASE ~InTurn /\ ThreadsNext
    <3>1. prog' = prog
      BY <2>1, StepMoves DEF Moves
    <3>2. ~InTurn'
      BY <2>1, <3>1 DEF InTurn
    <3> QED
      BY <2>1, <3>2 DEF Counting!tallyVars
  <2>2. CASE InTurn /\ ThreadsNext
    <3>1. prog' = prog /\ SignalStep
      BY <2>2, StepMoves DEF Moves, InTurn, SignalStep
    <3>2. CASE Join \/ Test
      BY <2>2, <3>2, ReadIsReport DEF Counting!Next
    <3>3. ASSUME NEW t \in Workers, Store(t) PROVE Counting!Next
      BY <2>2, <3>3, StoreIsAdd DEF Counting!Next
    <3>4. CASE Create
      <4>1. ~Read /\ ~Read'
        BY <2>2, <3>1, <3>4 DEF Create, Read, InTurn
      <4> QED
        BY <3>1, <3>4, <4>1, Uncounted DEF Create
    <3>5. CASE SpuriousWakeup
      <4>1. ~Read /\ ~Read'
        BY <3>5 DEF SpuriousWakeup, Goto, Read, IInv, ThreadsTypeOK
      <4> QED
        BY <3>1, <3>5, <4>1, Uncounted DEF SpuriousWakeup
    <3>6. ASSUME NEW t \in Workers, Lock(t) \/ Load(t) \/ Unlock(t) \/ Return(t) \/ Signal(t)
          PROVE  UNCHANGED Counting!tallyVars
      <4>1. UNCHANGED <<x, left, shown>>
        BY <3>6 DEF Lock, Load, Unlock, Return, Signal
      <4>2. tpc'[Main] = tpc[Main] \/ (tpc[Main] = "wait" /\ tpc'[Main] = "woken")
        BY <3>6 DEF Lock, Load, Unlock, Return, Signal, Goto, IInv, ThreadsTypeOK
      <4>3. Read' <=> Read
        BY <3>1, <4>2 DEF Read
      <4> QED
        BY <3>1, <4>1, <4>3, Uncounted
    <3> QED
      BY <3>1, <3>2, <3>3, <3>4, <3>5, <3>6 DEF SignalStep, CountStep
  <2>3. CASE UNCHANGED threadVars
    BY <2>3 DEF threadVars, Counting!tallyVars, InTurn, Team, Read
  <2> QED
    BY <2>1, <2>2, <2>3
<1> QED
  BY <1>1, <1>2, Invariance, PTL DEF ThreadsSpec, TallySpec, Counting!Spec

=============================================================================
