-------------------------- MODULE SemGoodInitProofs --------------------------
(***************************************************************************)
(* Theorems on SemGoodInit, for any number of copies, any of which may be  *)
(* killed, and any bound on the looks.                                     *)
(***************************************************************************)
EXTENDS SemGoodInit, FiniteSetTheorems, TLAPS

\* A waiter that will look again has a look left.
LooksLeft ==
    /\ \A p \in Procs : pc[p] \in {"create", "open", "look"} => tries[p] = 0
    /\ \A p \in Procs : pc[p] = "wait" => tries[p] < MaxTries

\* Whoever is past the exclusive semget is the creator, and the creator is
\* past it.
CreatorCreates ==
    /\ \A p \in Procs : pc[p] \in Creating => p = creator
    /\ creator \in Procs => pc[creator] \in Creating

\* The values tell how far the creator is: the kernel's exactly until it zeroes,
\* its own only once it is through.
ValuesOfCreator ==
    /\ creator = "nobody" => vals = "kernel" /\ ~otime
    /\ creator \in Procs => (vals = "kernel" <=> pc[creator] = "zero")
    /\ vals \in Procs => vals = creator /\ pc[vals] = "created"

\* sem_otime is nonzero only after the zeroing, and nobody was told to go on
\* before it was.
OtimeAfterZero ==
    /\ otime => vals # "kernel"
    /\ (\E p \in Procs : pc[p] \in Informed) => otime

IInv ==
    /\ TypeOK
    /\ LooksLeft
    /\ CreatorCreates
    /\ ValuesOfCreator
    /\ OtimeAfterZero

-----------------------------------------------------------------------------
LEMMA InvInit == Init => IInv
<1> SUFFICES ASSUME Init PROVE IInv
  OBVIOUS
<1>1. "nobody" \notin Procs /\ "kernel" \notin Procs
  BY GoodInitAssumption
<1>2. MaxTries \in Nat /\ MaxTries > 0
  BY GoodInitAssumption
<1>3. TypeOK
  <2>1. 0 \in 0 .. MaxTries
    BY <1>2
  <2>2. tries \in [Procs -> 0 .. MaxTries]
    BY <2>1 DEF Init
  <2>3. pc \in [Procs -> Ended \cup {"create", "open", "look", "wait", "zero",
                                    "touch", "store"}]
    BY DEF Init
  <2>4. /\ creator \in Procs \cup {"nobody"}
        /\ vals \in Procs \cup {"kernel", "zeros"}
        /\ otime \in BOOLEAN
        /\ dead \subseteq MayDie
    BY DEF Init
  <2> QED
    BY <2>2, <2>3, <2>4 DEF TypeOK
<1>4. LooksLeft /\ CreatorCreates /\ OtimeAfterZero
  BY <1>1, <1>2 DEF Init, LooksLeft, CreatorCreates, Creating, OtimeAfterZero, Informed
<1>5. ValuesOfCreator
  BY <1>1 DEF Init, ValuesOfCreator
<1> QED
  BY <1>3, <1>4, <1>5 DEF IInv

LEMMA InvStep == IInv /\ [Next]_vars => IInv'
<1> SUFFICES ASSUME IInv, [Next]_vars PROVE IInv'
  OBVIOUS
<1> USE GoodInitAssumption
<1> USE DEF IInv, TypeOK, Ended, Informed, LooksLeft, CreatorCreates, Creating,
        ValuesOfCreator, OtimeAfterZero
<1>1. ASSUME NEW p \in Procs, Create(p) PROVE IInv'
  BY <1>1 DEF Create, Goes
<1>2. ASSUME NEW p \in Procs, Zero(p) PROVE IInv'
  BY <1>2 DEF Zero, Goes
<1>3. ASSUME NEW p \in Procs, Touch(p) PROVE IInv'
  BY <1>3 DEF Touch, Goes
<1>4. ASSUME NEW p \in Procs, Store(p) PROVE IInv'
  BY <1>4 DEF Store, Goes
<1>5. ASSUME NEW p \in Procs, Open(p) PROVE IInv'
  BY <1>5 DEF Open, Goes
<1>6. ASSUME NEW p \in Procs, Look(p) PROVE IInv'
  BY <1>6 DEF Look, Goes
<1>7. ASSUME NEW p \in Procs, LookAgain(p) PROVE IInv'
  BY <1>7 DEF LookAgain, Goes
<1>8. ASSUME NEW p \in MayDie, Die(p) PROVE IInv'
  BY <1>8 DEF Die
<1>9. CASE UNCHANGED vars
  BY <1>9 DEF vars
<1> QED
  BY <1>1, <1>2, <1>3, <1>4, <1>5, <1>6, <1>7, <1>8, <1>9 DEF Next, Step

LEMMA Invariance == Spec => []IInv
  BY InvInit, InvStep, PTL DEF Spec

-----------------------------------------------------------------------------
\* Every reachable state of the copies of sem_good_init has its type: no
\* waiter takes more than MaxTries looks.
THEOREM TypeCorrect == Spec => []TypeOK
<1>1. IInv => TypeOK
  BY DEF IInv
<1> QED
  BY <1>1, Invariance, PTL

\* Only the copy whose exclusive semget succeeded ever writes to the set.
THEOREM InitialisedByOne == Spec => []OneInitialiser
<1>1. IInv => OneInitialiser
  <2> SUFFICES ASSUME IInv PROVE OneInitialiser
    OBVIOUS
  <2> DEFINE S == {p \in Procs : pc[p] \in Creating}
  <2>1. S \subseteq {creator}
    BY DEF IInv, CreatorCreates
  <2>2. IsFiniteSet({creator}) /\ Cardinality({creator}) = 1
    BY FS_Singleton
  <2>3. Cardinality(S) <= 1
    BY <2>1, <2>2, FS_Subset
  <2> QED
    BY <2>1, <2>3 DEF OneInitialiser
<1> QED
  BY <1>1, Invariance, PTL

\* Whoever goes on finds a set this protocol has zeroed.
THEOREM NeverSeenUnset == Spec => []NeverUnset
<1>1. IInv => NeverUnset
  BY DEF IInv, OtimeAfterZero, NeverUnset
<1> QED
  BY <1>1, Invariance, PTL

\* The values of the command line, once stored, are never zeroed or stored
\* over by another copy.
THEOREM InitialisedOnce == Spec => NoReinit
<1>1. IInv /\ [Next]_vars => [vals' = vals \/ vals \notin Procs]_vars
  <2> SUFFICES ASSUME IInv, Next PROVE vals' = vals \/ vals \notin Procs
    BY DEF vars
  <2>1. ASSUME NEW p \in Procs, Zero(p) \/ Store(p) PROVE vals \notin Procs
    BY <2>1 DEF Zero, Store, Goes, IInv, CreatorCreates, Creating, ValuesOfCreator
  <2>2. ASSUME NEW p \in Procs,
               Create(p) \/ Touch(p) \/ Open(p) \/ Look(p) \/ LookAgain(p)
        PROVE  vals' = vals
    BY <2>2 DEF Create, Touch, Open, Look, LookAgain
  <2>3. ASSUME NEW p \in MayDie, Die(p) PROVE vals' = vals
    BY <2>3 DEF Die
  <2> QED
    BY <2>1, <2>2, <2>3 DEF Next, Step
<1> QED
  BY <1>1, Invariance, PTL DEF Spec, NoReinit

\* The copies implement a one-time initialisation: the exclusive semget elects, the
\* first SETALL is the zeroing and the second, unless it is refused, the values, a look that ends the
\* waiting is being told; a kill, the semop and every other look are invisible.
THEOREM GoodInitRefines == Spec => OnceSpec
<1> USE DEF Once!onceVars, Informed
<1>1. Init => Once!Init
  BY DEF Init, Once!Init
<1>2. IInv /\ [Next]_vars => [Once!Next]_(Once!onceVars)
  <2> SUFFICES ASSUME IInv, [Next]_vars
               PROVE  Once!Next \/ UNCHANGED Once!onceVars
    OBVIOUS
  <2> USE GoodInitAssumption
  <2>1. ASSUME NEW p \in Procs, Create(p) PROVE Once!Win(p) \/ UNCHANGED Once!onceVars
    BY <2>1 DEF Create, Goes, Once!Win, IInv, TypeOK
  <2>2. ASSUME NEW p \in Procs, Zero(p) PROVE Once!Clear(p)
    <3>1. p = creator
      BY <2>2 DEF Zero, Goes, IInv, CreatorCreates, Creating
    <3>2. vals = "kernel"
      BY <2>2, <3>1 DEF Zero, Goes, IInv, TypeOK, ValuesOfCreator
    <3> QED
      BY <2>2, <3>1, <3>2 DEF Zero, Goes, IInv, TypeOK, Once!Clear
  <2>3. ASSUME NEW p \in Procs, Touch(p) PROVE UNCHANGED Once!onceVars
    BY <2>3 DEF Touch, Goes, IInv, TypeOK
  <2>4. ASSUME NEW p \in Procs, Store(p) PROVE Once!Fill(p) \/ UNCHANGED Once!onceVars
    <3>1. p = creator
      BY <2>4 DEF Store, Goes, IInv, CreatorCreates, Creating
    <3>2. vals = "zeros"
      BY <2>4, <3>1 DEF Store, Goes, IInv, TypeOK, ValuesOfCreator
    <3> QED
      BY <2>4, <3>1, <3>2 DEF Store, Goes, IInv, TypeOK, Once!Fill
  <2>5. ASSUME NEW p \in Procs, Open(p) PROVE UNCHANGED Once!onceVars
    BY <2>5 DEF Open, Goes, IInv, TypeOK
  <2>6. ASSUME NEW p \in Procs, Look(p) \/ LookAgain(p)
        PROVE  Once!Tell(p) \/ UNCHANGED Once!onceVars
    <3>1. creator # p /\ pc[p] \notin Informed
      BY <2>6 DEF Look, LookAgain, Goes, IInv, CreatorCreates, Creating
    <3>2. CASE otime
      BY <2>6, <3>1, <3>2 DEF Look, LookAgain, Goes, IInv, TypeOK, OtimeAfterZero, Once!Tell
    <3>3. CASE ~otime
      BY <2>6, <3>1, <3>3 DEF Look, LookAgain, Goes, IInv, TypeOK
    <3> QED
      BY <3>2, <3>3
  <2>7. ASSUME NEW p \in MayDie, Die(p) PROVE UNCHANGED Once!onceVars
    BY <2>7 DEF Die
  <2>8. CASE UNCHANGED vars
    BY <2>8 DEF vars
  <2> QED
    BY <2>1, <2>2, <2>3, <2>4, <2>5, <2>6, <2>7, <2>8 DEF Next, Step, Once!Next
<1> QED
  BY <1>1, <1>2, Invariance, PTL DEF Spec, OnceSpec, Once!Spec
=============================================================================
