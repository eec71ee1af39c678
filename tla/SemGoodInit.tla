----------------------------- MODULE SemGoodInit -----------------------------
(***************************************************************************)
(* lab4/03_good_init: several copies of sem_good_init started at the same  *)
(* time on one key.  The one whose exclusive semget succeeds creates the   *)
(* set, zeroes it, makes sem_otime nonzero with a semop that changes       *)
(* nothing and then stores its values; the others look at sem_otime to     *)
(* find out whether the set is ready.                                      *)
(*                                                                         *)
(* SETALL is one step of the kernel, so the values of the set are known by *)
(* what stored them: the kernel, the zeroing, or the process whose values  *)
(* they are.                                                               *)
(***************************************************************************)
EXTENDS Integers, FiniteSets, Sequences

CONSTANTS
    Procs,     \* the copies of the program
    Given,     \* the values for the semaphores on each command line
    VMax,      \* SEMVMX, the largest value of a semaphore
    MaxTries,  \* how often a waiter looks at sem_otime (50 in the code)
    MayDie     \* the copies that may be killed

ASSUME GoodInitAssumption ==
    /\ Given \in [Procs -> Seq(Int)]
    /\ VMax \in Nat
    /\ MaxTries \in Nat \ {0}
    /\ MayDie \subseteq Procs
    /\ Procs \cap {"nobody", "kernel", "zeros"} = {}

VARIABLES
    pc,      \* each copy's next step
    tries,   \* the looks each copy has taken
    creator, \* who created the set, "nobody" while there is none
    vals,    \* who stored the values of the set
    otime,   \* is sem_otime nonzero?
    dead

vars == <<pc, tries, creator, vals, otime, dead>>

\* "skipped": told that the initialisation is complete; "woken": saw sem_otime
\* become nonzero; "gaveup": ran out of tries; "refused": the set did not take
\* the values.
Informed == {"skipped", "woken"}
Ended == Informed \cup {"gaveup", "created", "refused"}

\* The places of a copy whose exclusive semget succeeded, in order.
Creating == {"zero", "touch", "store", "created", "refused"}

TypeOK ==
    /\ pc \in [Procs -> Ended \cup {"create", "open", "look", "wait", "zero",
                                    "touch", "store"}]
    /\ tries \in [Procs -> 0 .. MaxTries]
    /\ creator \in Procs \cup {"nobody"}
    /\ vals \in Procs \cup {"kernel", "zeros"}
    /\ otime \in BOOLEAN
    /\ dead \subseteq MayDie

Init ==
    /\ pc = [p \in Procs |-> "create"]
    /\ tries = [p \in Procs |-> 0]
    /\ creator = "nobody"
    /\ vals = "kernel"
    /\ otime = FALSE
    /\ dead = {}

Goes(p, from, to) ==
    /\ p \notin dead
    /\ pc[p] = from
    /\ pc' = [pc EXCEPT ![p] = to]

-----------------------------------------------------------------------------
\* Mutant: semget without IPC_EXCL.
GetOrCreate(p) ==
    /\ Goes(p, "create", "zero")
    /\ creator' = IF creator = "nobody" THEN p ELSE creator
    /\ UNCHANGED <<tries, vals, otime, dead>>

\* semget(IPC_CREAT | IPC_EXCL)
Create(p) ==
    /\ \/ /\ creator = "nobody"
          /\ Goes(p, "create", "zero")
          /\ creator' = p
       \/ /\ creator # "nobody"
          /\ Goes(p, "create", "open")
          /\ UNCHANGED creator
    /\ UNCHANGED <<tries, vals, otime, dead>>

\* Mutant: the zeroing is left out.
ZeroNothing(p) ==
    /\ Goes(p, "zero", "touch")
    /\ UNCHANGED <<tries, creator, vals, otime, dead>>

\* semctl(SETALL) with zeros
Zero(p) ==
    /\ Goes(p, "zero", "touch")
    /\ vals' = "zeros"
    /\ UNCHANGED <<tries, creator, otime, dead>>

\* semop with sem_op = 0: the value is 0, so it returns at once.
Touch(p) ==
    /\ Goes(p, "touch", "store")
    /\ vals \in {"kernel", "zeros"}
    /\ otime' = TRUE
    /\ UNCHANGED <<tries, creator, vals, dead>>

\* A number of the command line as an unsigned short; a negative one counts as 0.
Short(v) == IF v < 0 THEN 0 ELSE v % (2 * (VMax + 1))

\* Does the kernel take these values?  One above SEMVMX makes it refuse them all.
Storable(p) == \A k \in DOMAIN Given[p] : Short(Given[p][k]) <= VMax

\* Mutant: the final SETALL is forgotten.
StoreNothing(p) ==
    /\ Goes(p, "store", "created")
    /\ UNCHANGED <<tries, creator, vals, otime, dead>>

\* semctl(SETALL) with the values of the command line; if it fails with ERANGE
\* the copy ends with 1 and the zeros stay.
Store(p) ==
    /\ \/ /\ Storable(p)
          /\ Goes(p, "store", "created")
          /\ vals' = p
       \/ /\ ~Storable(p)
          /\ Goes(p, "store", "refused")
          /\ UNCHANGED vals
    /\ UNCHANGED <<tries, creator, otime, dead>>

-----------------------------------------------------------------------------
\* semget(key, 0, 0)
Open(p) ==
    /\ Goes(p, "open", "look")
    /\ UNCHANGED <<tries, creator, vals, otime, dead>>

\* The first get_otime: initialised already, or wait.
Look(p) ==
    /\ Goes(p, "look", IF otime THEN "skipped" ELSE "wait")
    /\ UNCHANGED <<tries, creator, vals, otime, dead>>

\* Mutant: the loop has no bound.
LookAgainForEver(p) ==
    /\ Goes(p, "wait", IF otime THEN "woken" ELSE "wait")
    /\ UNCHANGED <<tries, creator, vals, otime, dead>>

\* Mutant: one try too many.
LookOnceMore(p) ==
    /\ Goes(p, "wait", IF otime THEN "woken"
                       ELSE IF tries[p] = MaxTries THEN "gaveup" ELSE "wait")
    /\ tries' = [tries EXCEPT ![p] = @ + 1]
    /\ UNCHANGED <<creator, vals, otime, dead>>

\* Sleep 100 ms and look again, at most MaxTries times.
LookAgain(p) ==
    /\ Goes(p, "wait", IF otime THEN "woken"
                       ELSE IF tries[p] + 1 = MaxTries THEN "gaveup" ELSE "wait")
    /\ tries' = [tries EXCEPT ![p] = @ + 1]
    /\ UNCHANGED <<creator, vals, otime, dead>>

Step(p) ==
    \/ Create(p) \/ Zero(p) \/ Touch(p) \/ Store(p)
    \/ Open(p) \/ Look(p) \/ LookAgain(p)

Die(p) ==
    /\ p \notin dead
    /\ dead' = dead \cup {p}
    /\ UNCHANGED <<pc, tries, creator, vals, otime>>

Next == (\E p \in Procs : Step(p)) \/ (\E p \in MayDie : Die(p))

Spec == Init /\ [][Next]_vars

\* The scheduler runs every copy; the sleep of a waiter ends.
FairSpec == Spec /\ \A p \in Procs : WF_vars(Step(p))

-----------------------------------------------------------------------------
(* Properties.                                                             *)

\* Once the values of the command line are in the set they stay there: no
\* other copy, however late, zeroes or stores again.
NoReinit == [][vals' = vals \/ vals \notin Procs]_vars

\* Only one copy ever writes to the set, and whoever was told to go on did not.
OneInitialiser ==
    /\ Cardinality({p \in Procs : pc[p] \in Creating}) <= 1
    /\ \A p \in Procs : pc[p] \in Creating => p = creator

\* Whoever goes on does so only after the set was zeroed by this protocol: it
\* never sees what the kernel left, or a value from before the creation.
NeverUnset == (\E p \in Procs : pc[p] \in Informed) => vals # "kernel"

\* Every copy ends, even when the creator is killed before it touches the set.
EveryCopyEnds == \A p \in Procs : <>(p \in dead \/ pc[p] \in Ended)

\* If its creator is not killed, the set has its values in the end, or, where the
\* kernel does not take them, the creator ends with an error and the zeros stay.
ValuesArrive == \A p \in Procs :
    (creator = p) ~> \/ p \in dead
                     \/ Storable(p) /\ vals = p
                     \/ ~Storable(p) /\ pc[p] = "refused" /\ vals = "zeros"

\* "initialization already completed. Skipping SETALL.": whoever prints it
\* finds the values in place.
SkippedMeansReady == \A p \in Procs : pc[p] = "skipped" => vals \in Procs

-----------------------------------------------------------------------------
\* The one-time initialisation that the copies implement.
Once == INSTANCE InitOnce WITH
    winner <- creator,
    content <- vals,
    told <- {p \in Procs : pc[p] \in Informed}

\* Whatever copies are started, when they look, and who is killed: one of them
\* is elected for good, it alone writes the zeros and then, if the kernel takes them,
\* its values, each once, and nobody is told to go on before the zeros are there.  No copy, however late,
\* takes the set back to an earlier stage.
OnceSpec == Once!Spec
=============================================================================
