-------------------------------- MODULE SemSet --------------------------------
(***************************************************************************)
(* The semaphore programs of labs 3 and 4 on one key: runs of              *)
(* sem_create_init (lab 3), sem_create_set and sem_setall (lab 4), and of  *)
(* sem_dec3, sem_inc1 and sem_op_undo, which use semaphore 0.  Each run    *)
(* makes its system calls once, in any order with those of the others.     *)
(* sem_info changes nothing and is left out.  Permissions suffice, and are *)
(* told from 666 only where that decides what is stored.                   *)
(***************************************************************************)
EXTENDS Integers, Sequences, FiniteSets

CONSTANTS
    Inits,    \* runs of sem_create_init -c
    Excl,     \* those of them with -x
    Given,    \* their arguments after the key, octal-perms and init-val: does
              \* it read as an octal number, that number, and as a decimal one
    Makers,   \* runs of sem_create_set -c
    Count,    \* their count
    Setters,  \* runs of sem_setall
    Values,   \* the numbers they are given
    Takers,   \* runs of sem_dec3
    NoWait,   \* those of them with -n
    Givers,   \* runs of sem_inc1
    Undoers,  \* runs of sem_op_undo
    Keepers,  \* those of them with --no-undo
    VMax,     \* SEMVMX, 32767
    Msl,      \* SEMMSL, 32000
    IMax      \* INT_MAX

Runs == Inits \cup Makers \cup Setters \cup Takers \cup Givers \cup Undoers

Rw == 438          \* 0666

ASSUME SemSetAssumption ==
    /\ Excl \subseteq Inits /\ NoWait \subseteq Takers /\ Keepers \subseteq Undoers
    /\ Given \in [Inits -> Seq([octal : BOOLEAN, oct : Int, dec : Int])]
    /\ Count \in [Makers -> Int]
    /\ Values \in [Setters -> Seq(Int)]
    /\ VMax \in Nat \ {0, 1, 2} /\ Msl \in Nat
    /\ IMax \in Nat /\ 2 * VMax + 1 < IMax
    \* a run is one of one program
    /\ IsFiniteSet(Runs) /\ "nobody" \notin Runs
    /\ Inits \cap (Makers \cup Setters \cup Takers \cup Givers \cup Undoers) = {}
    /\ Makers \cap (Setters \cup Takers \cup Givers \cup Undoers) = {}
    /\ Setters \cap (Takers \cup Givers \cup Undoers) = {}
    /\ Takers \cap (Givers \cup Undoers) = {} /\ Givers \cap Undoers = {}

VARIABLES
    val,     \* the values of the set; empty while there is none
    adj,     \* semadj of semaphore 0 for each run
    spc,     \* each run: new, set, wait, taken, done, failed
    base,    \* history: what was stored last in semaphore 0, less what the
             \* kernel has cut off at SEMVMX when it undid an operation
    since,   \* history: the runs whose semop came after that
    maker    \* history: the run that made the set

semVars == <<val, adj, spc, base, since, maker>>

Exists == val # << >>
At(r, l) == spc' = [spc EXCEPT ![r] = l]

SemTypeOK ==
    /\ val \in Seq(0 .. VMax)
    /\ adj \in [Runs -> 0 .. 1]
    /\ spc \in [Runs -> {"new", "set", "wait", "taken", "done", "failed"}]
    /\ base \in Int /\ since \subseteq Runs /\ maker \in Runs \cup {"nobody"}

\* The set may be there from before, with one semaphore or two.
SemInit ==
    /\ val \in {<< >>, <<2>>, <<3, 0>>}
    /\ adj = [r \in Runs |-> 0]
    /\ spc = [r \in Runs |-> "new"]
    /\ base = IF Exists THEN val[1] ELSE 0
    /\ since = {} /\ maker = "nobody"

-----------------------------------------------------------------------------
(* Creating and setting.                                                   *)

\* A long that is stored in an int keeps its low bits.
Narrow(v) == ((v + IMax + 1) % (2 * (IMax + 1))) - (IMax + 1)

\* semget of n semaphores with the flags of run r; flag -c is always given.
Semget(r, n, excl, next) ==
    IF n > Msl \/ (Exists /\ (excl \/ n > Len(val)))
      THEN At(r, "failed") /\ UNCHANGED <<val, base, since, maker>>
      ELSE /\ At(r, next)
           /\ IF Exists THEN UNCHANGED <<val, base, since, maker>>
              ELSE val' = [k \in 1 .. n |-> 0] /\ base' = 0 /\ since' = {} /\ maker' = r

\* Argument k is read as the init-val: it is not octal, or the permissions have
\* been given, which the code tells from perms not having its default, 0666.
IsValue(args, k) ==
    ~args[k].octal \/ \E j \in 1 .. k - 1 : args[j].octal /\ Narrow(args[j].oct) # Rw

\* The value of the last such argument, as an int; 2 if there is none.
Parse(args) ==
    LET values == {k \in 1 .. Len(args) : IsValue(args, k)} IN
    IF values = {} THEN 2
    ELSE Narrow(args[CHOOSE k \in values : \A j \in values : j <= k].dec)

\* Mutant: -x is not looked at.
OpenAnyway(r) ==
    /\ r \in Inits /\ spc[r] = "new"
    /\ Semget(r, 1, FALSE, "set")
    /\ UNCHANGED adj

\* The first call of sem_create_init.
Open(r) ==
    /\ r \in Inits /\ spc[r] = "new"
    /\ Semget(r, 1, r \in Excl, "set")
    /\ UNCHANGED adj

\* SETVAL and SETALL forget every semadj of what they set.
Stored(v) ==
    /\ val' = v
    /\ base' = v[1] /\ since' = {}
    /\ adj' = [r \in Runs |-> 0]

\* SETVAL, on a set that exists or not.
SetVal(r) ==
    /\ r \in Inits /\ spc[r] = "set"
    /\ LET v == Parse(Given[r]) IN
         IF v \in 0 .. VMax
           THEN Stored([val EXCEPT ![1] = v]) /\ At(r, "done")
           ELSE At(r, "failed") /\ UNCHANGED <<val, base, since, adj>>

\* sem_create_set: a count below one is refused, nothing is stored.
Make(r) ==
    /\ r \in Makers /\ spc[r] = "new"
    /\ LET count == Narrow(Count[r]) IN
         IF count <= 0 THEN At(r, "failed") /\ UNCHANGED <<val, base, since, maker>>
                       ELSE Semget(r, count, FALSE, "done")
    /\ UNCHANGED adj

\* sem_setall asks for the number of semaphores first.
AskCount(r) ==
    /\ r \in Setters /\ spc[r] = "new" /\ Exists
    /\ IF Len(Values[r]) = Len(val) THEN At(r, "set") ELSE At(r, "failed")
    /\ UNCHANGED <<val, adj, base, since>>

\* Mutant: a number that does not fit is the nearest one that does.
Saturated(v) == IF v < 0 THEN 0 ELSE IF v > VMax THEN VMax ELSE v

\* The number as an unsigned short: a negative one is 0 and the rest is kept
\* modulo 65536, which is 2 * (SEMVMX + 1).
Short(v) == IF v < 0 THEN 0 ELSE v % (2 * (VMax + 1))

SetAll(r) ==
    /\ r \in Setters /\ spc[r] = "set"
    /\ LET v == [k \in 1 .. Len(val) |-> Short(Values[r][k])] IN
         IF \A k \in 1 .. Len(val) : v[k] <= VMax
           THEN Stored(v) /\ At(r, "done")
           ELSE At(r, "failed") /\ UNCHANGED <<val, base, since, adj>>

-----------------------------------------------------------------------------
(* Using semaphore 0.  The user takes the identifier from a set that is    *)
(* there.                                                                  *)

\* semop of run r: d is added, and the run goes to place l.
Semop(r, d, l) ==
    /\ val' = [val EXCEPT ![1] = @ + d]
    /\ since' = since \cup {r}
    /\ At(r, l)
    /\ UNCHANGED <<base>>

\* sem_dec3 waits, or with -n fails, while the value is below 3.
Take(r) ==
    /\ r \in Takers /\ spc[r] \in {"new", "wait"} /\ Exists
    /\ IF val[1] >= 3
         THEN Semop(r, -3, "done")
         ELSE /\ spc[r] = "new"
              /\ At(r, IF r \in NoWait THEN "failed" ELSE "wait")
              /\ UNCHANGED <<val, base, since>>
    /\ UNCHANGED adj

\* sem_inc1 fails at SEMVMX.
Give(r) ==
    /\ r \in Givers /\ spc[r] = "new" /\ Exists
    /\ IF val[1] < VMax THEN Semop(r, 1, "done")
                        ELSE At(r, "failed") /\ UNCHANGED <<val, base, since>>
    /\ UNCHANGED adj

\* Mutant: SEM_UNDO whatever the arguments.
TakeUndoAlways(r) ==
    /\ r \in Undoers /\ spc[r] \in {"new", "wait"} /\ Exists
    /\ IF val[1] >= 1
         THEN Semop(r, -1, "taken") /\ adj' = [adj EXCEPT ![r] = 1]
         ELSE spc[r] = "new" /\ At(r, "wait") /\ UNCHANGED <<val, adj, base, since>>

\* sem_op_undo takes 1, waiting for it, with SEM_UNDO unless told not to ...
TakeUndo(r) ==
    /\ r \in Undoers /\ spc[r] \in {"new", "wait"} /\ Exists
    /\ IF val[1] >= 1
         THEN /\ Semop(r, -1, "taken")
              /\ adj' = [adj EXCEPT ![r] = IF r \in Keepers THEN 0 ELSE 1]
         ELSE spc[r] = "new" /\ At(r, "wait") /\ UNCHANGED <<val, adj, base, since>>

\* ... and ends; the kernel adds the run's semadj, up to SEMVMX.
ExitUndo(r) ==
    /\ spc[r] = "taken"
    /\ LET room == IF val[1] < VMax THEN adj[r] ELSE 0 IN
         /\ val' = [val EXCEPT ![1] = @ + room]
         /\ base' = base - (adj[r] - room)
    /\ adj' = [adj EXCEPT ![r] = 0]
    /\ At(r, "done")
    /\ UNCHANGED since

SemNext == \E r \in Runs :
    \/ Open(r) \/ Make(r)
    \/ /\ \/ SetVal(r) \/ AskCount(r) \/ SetAll(r)
          \/ Take(r) \/ Give(r) \/ TakeUndo(r) \/ ExitUndo(r)
       /\ UNCHANGED maker

SemSpec == SemInit /\ [][SemNext]_semVars

-----------------------------------------------------------------------------
(* Properties.                                                             *)

\* Runs of sem_op_undo whose decrement is not taken back at their end, or not yet.
Owing == {r \in since \cap Undoers : r \in Keepers \/ spc[r] # "done"}

\* The books balance: semaphore 0 is what was stored in it last, plus what was
\* given and minus what was taken since; a run with SEM_UNDO counts only while
\* it has not ended.  What a run did before somebody else set the semaphore is
\* not undone after it.
Ledger ==
    Exists => val[1] = base + Cardinality(since \cap Givers)
                            - 3 * Cardinality(since \cap Takers) - Cardinality(Owing)

\* A run of sem_create_init with -x sets only a set that it has made itself: not
\* one that was there, nor one that another run makes at the same time, and so it
\* resets no semaphore that was in use before it.
SetsItsOwn == \A r \in Excl : spc[r] \in {"set", "done"} => maker = r

\* What ends up in the set is what the user asked for: of sem_create_init the
\* init-val (the last one; 2 if there is none), provided that it is a number an
\* int can hold, and so are the permissions, which are not the default 666; of
\* sem_setall each value from 0 to 65535.  A value the kernel refuses leaves all
\* of them as they were.
AskedIsStored ==
    [][/\ \A r \in Inits : (spc[r] = "set" /\ spc'[r] = "done") =>
            LET a == Given[r] asked == IF Len(a) < 2 THEN 2 ELSE a[Len(a)].dec
                int == -IMax - 1 .. IMax
            IN
            (a = << >> \/ (a[1].octal /\ a[1].oct \in int \ {Rw})) /\ asked \in int
               => val'[1] = asked
       /\ \A r \in Setters :
            /\ (spc[r] = "set" /\ spc'[r] = "done") =>
                  \A k \in 1 .. Len(val) :
                     Values[r][k] \in 0 .. 2 * VMax + 1 => val'[k] = Values[r][k]
            /\ spc'[r] = "failed" => (spc[r] = "failed" \/ val' = val)]_semVars
=============================================================================
