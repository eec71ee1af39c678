----------------------------- MODULE SemSetProofs ------------------------------
(***************************************************************************)
(* Theorems on SemSet, for any finite number of runs of each program, any  *)
(* arguments and any SEMVMX above 2.                                       *)
(***************************************************************************)
EXTENDS SemSet, FiniteSetTheorems, TLAPS

\* The places of each program; a set once made is there for good, with as many
\* values as the runs of sem_setall that go on were given.
Stages ==
    /\ \A r \in Inits : spc[r] \in {"new", "set", "done", "failed"}
    /\ \A r \in Runs : spc[r] = "taken" => r \in Undoers
    /\ \A r \in Runs : spc[r] \in {"set", "taken", "done"} => Exists
    /\ \A r \in Setters : spc[r] = "set" => Len(Values[r]) = Len(val)

\* A run has used the semaphore since it was set only if it is past its semop, and
\* the kernel keeps an undo for it from then to its end, unless it was told not to.
Undos ==
    /\ \A r \in since : spc[r] \in {"taken", "done"}
    /\ \A r \in Runs :
         adj[r] = IF r \in since /\ r \in Undoers \ Keepers /\ spc[r] = "taken" THEN 1 ELSE 0
    /\ ~Exists => since = {}

IInv == SemTypeOK /\ Stages /\ Undos /\ Ledger /\ SetsItsOwn

-----------------------------------------------------------------------------
(* Runs, sequences and the sizes of what is counted.                       *)

LEMMA OneProgram ==
  /\ Inits \subseteq Runs /\ Makers \subseteq Runs /\ Setters \subseteq Runs
  /\ Takers \subseteq Runs /\ Givers \subseteq Runs /\ Undoers \subseteq Runs
  /\ \A r \in Inits : r \notin Makers \cup Setters \cup Takers \cup Givers \cup Undoers
  /\ \A r \in Makers : r \notin Setters \cup Takers \cup Givers \cup Undoers
  /\ \A r \in Setters : r \notin Takers \cup Givers \cup Undoers
  /\ \A r \in Takers : r \notin Givers \cup Undoers
  /\ \A r \in Givers : r \notin Undoers
  /\ IsFiniteSet(Runs)
BY SemSetAssumption DEF Runs

LEMMA SeqIs ==
  ASSUME NEW S, NEW n \in Nat, NEW f \in [1 .. n -> S]
  PROVE  f \in Seq(S) /\ Len(f) = n
OBVIOUS

LEMMA NotEmpty ==
  ASSUME NEW S, NEW s \in Seq(S), s # << >>
  PROVE  Len(s) \in Nat \ {0} /\ s \in [1 .. Len(s) -> S] /\ s[1] \in S
OBVIOUS

LEMMA ValuesAre ==
  ASSUME NEW s \in Seq(0 .. VMax), s # << >>
  PROVE  Len(s) \in Nat \ {0} /\ s \in [1 .. Len(s) -> 0 .. VMax] /\ s[1] \in 0 .. VMax
<1> DEFINE V == 0 .. VMax
<1>1. s \in Seq(V)
  OBVIOUS
<1> HIDE DEF V
<1>2. Len(s) \in Nat \ {0} /\ s \in [1 .. Len(s) -> V] /\ s[1] \in V
  BY <1>1, NotEmpty
<1> QED
  BY <1>2 DEF V

LEMMA FirstSet ==
  ASSUME NEW s \in Seq(0 .. VMax), s # << >>, NEW v \in 0 .. VMax
  PROVE  LET w == [s EXCEPT ![1] = v] IN
         w \in Seq(0 .. VMax) /\ Len(w) = Len(s) /\ w # << >> /\ w[1] = v
<1> DEFINE w == [s EXCEPT ![1] = v]
<1>1. Len(s) \in Nat /\ 1 \in 1 .. Len(s) /\ s \in [1 .. Len(s) -> 0 .. VMax]
  BY ValuesAre
<1>2. w \in [1 .. Len(s) -> 0 .. VMax] /\ w[1] = v
  BY <1>1
<1>3. w \in Seq(0 .. VMax) /\ Len(w) = Len(s)
  BY <1>1, <1>2
<1> QED
  BY <1>1, <1>2, <1>3

LEMMA Zeros ==
  ASSUME NEW n \in Nat \ {0}
  PROVE  LET w == [k \in 1 .. n |-> 0] IN
         w \in Seq(0 .. VMax) /\ Len(w) = n /\ w # << >> /\ w[1] = 0
<1> DEFINE w == [k \in 1 .. n |-> 0]
<1>1. w \in [1 .. n -> 0 .. VMax]
  BY SemSetAssumption
<1>2. w \in Seq(0 .. VMax) /\ Len(w) = n
  BY <1>1
<1> QED
  BY <1>2

\* The three counts of the books are numbers; the books of an empty set are empty.
LEMMA Counts ==
  ASSUME since \subseteq Runs
  PROVE  /\ IsFiniteSet(since \cap Givers) /\ Cardinality(since \cap Givers) \in Nat
         /\ IsFiniteSet(since \cap Takers) /\ Cardinality(since \cap Takers) \in Nat
         /\ IsFiniteSet(Owing) /\ Cardinality(Owing) \in Nat
<1>1. ASSUME NEW T \in SUBSET Runs PROVE IsFiniteSet(T) /\ Cardinality(T) \in Nat
  BY OneProgram, FS_Subset, FS_CardinalityType
<1>2. since \cap Givers \in SUBSET Runs /\ since \cap Takers \in SUBSET Runs /\ Owing \in SUBSET Runs
  BY DEF Owing
<1> QED
  BY <1>1, <1>2

LEMMA NoBooks ==
  ASSUME since' = {}, base' \in Int, val'[1] = base'
  PROVE  Ledger'
<1>1. (since \cap Givers)' = {} /\ (since \cap Takers)' = {} /\ Owing' = {}
  BY DEF Owing
<1>2. Cardinality({}) = 0
  BY FS_EmptySet
<1> QED
  BY <1>1, <1>2 DEF Ledger

-----------------------------------------------------------------------------
(* Steps that do not use the semaphore.                                    *)

\* A run that changes nothing but its place.
LEMMA Quiet ==
  ASSUME IInv, NEW r \in Runs, NEW l \in {"set", "wait", "done", "failed"},
         spc[r] \in {"new", "set", "wait"}, At(r, l),
         UNCHANGED <<val, adj, base, since, maker>>,
         l \in {"set", "done"} => Exists /\ r \notin Excl,
         l = "set" /\ r \in Setters => Len(Values[r]) = Len(val),
         r \in Inits => l # "wait"
  PROVE  IInv'
<1> USE OneProgram
<1>1. spc' = [spc EXCEPT ![r] = l] /\ spc \in [Runs -> {"new", "set", "wait", "taken", "done", "failed"}]
  BY DEF At, IInv, SemTypeOK
<1>2. r \notin since
  BY DEF IInv, Undos
<1>3. \A u \in Runs \ {r} : spc'[u] = spc[u]
  BY <1>1
<1>4. SemTypeOK'
  BY <1>1 DEF IInv, SemTypeOK
<1>5. Stages'
  BY <1>1, <1>3 DEF IInv, Stages, Exists
<1>6. Undos'
  BY <1>1, <1>2, <1>3 DEF IInv, Undos, SemTypeOK, Exists
<1>7. Owing' = Owing
  BY <1>2, <1>3 DEF Owing, IInv, SemTypeOK
<1>8. Ledger'
  BY <1>7 DEF IInv, Ledger, Exists
<1>9. SetsItsOwn'
  BY <1>1, <1>3, SemSetAssumption DEF IInv, SetsItsOwn
<1> QED
  BY <1>4, <1>5, <1>6, <1>8, <1>9 DEF IInv

\* A run that makes the set.
LEMMA Creates ==
  ASSUME IInv, NEW r \in Inits \cup Makers, NEW n \in Nat \ {0}, spc[r] = "new",
         Semget(r, n, r \in Excl, IF r \in Inits THEN "set" ELSE "done"),
         UNCHANGED adj
  PROVE  IInv'
<1> USE OneProgram
<1>1. CASE n > Msl \/ Exists
  <2> DEFINE next == IF r \in Inits THEN "set" ELSE "done"
  <2>1. CASE n > Msl \/ (Exists /\ (r \in Excl \/ n > Len(val)))
    <3>1. At(r, "failed") /\ UNCHANGED <<val, base, since, maker>>
      BY <2>1 DEF Semget
    <3> QED
      BY <3>1, Quiet
  <2>2. CASE ~(n > Msl \/ (Exists /\ (r \in Excl \/ n > Len(val))))
    <3>1. At(r, next) /\ UNCHANGED <<val, base, since, maker>> /\ Exists /\ r \notin Excl
      BY <1>1, <2>2 DEF Semget
    <3>2. next \in {"set", "done"} /\ (next = "set" => r \notin Setters)
      OBVIOUS
    <3> HIDE DEF next
    <3> QED
      BY <3>1, <3>2, Quiet
  <2> QED
    BY <2>1, <2>2
<1>2. CASE ~(n > Msl \/ Exists)
  <2> DEFINE l == IF r \in Inits THEN "set" ELSE "done"
  <2>1. /\ spc' = [spc EXCEPT ![r] = l] /\ val' = [k \in 1 .. n |-> 0]
        /\ base' = 0 /\ since' = {} /\ maker' = r
    BY <1>2 DEF Semget, At
  <2>2. val' \in Seq(0 .. VMax) /\ val' # << >> /\ val'[1] = 0
    BY <2>1, Zeros
  <2>3. spc \in [Runs -> {"new", "set", "wait", "taken", "done", "failed"}]
    BY DEF IInv, SemTypeOK
  <2>4. SemTypeOK'
    BY <2>1, <2>2, <2>3 DEF IInv, SemTypeOK
  <2>5. Stages'
    BY <1>2, <2>1, <2>2, <2>3 DEF IInv, Stages, Exists
  <2>6. Undos'
    BY <1>2, <2>1, <2>2, <2>3 DEF IInv, Undos, Exists
  <2>7. Ledger'
    BY <2>1, <2>2, NoBooks
  <2>8. SetsItsOwn'
    <3>1. \A q \in Excl : q \in Runs /\ spc[q] \notin {"set", "done"}
      BY <1>2, SemSetAssumption DEF IInv, Stages
    <3> QED
      BY <2>1, <2>3, <3>1 DEF SetsItsOwn
  <2> QED
    BY <2>4, <2>5, <2>6, <2>7, <2>8 DEF IInv
<1> QED
  BY <1>1, <1>2

\* A run that sets the values of the set that is there.
LEMMA Sets ==
  ASSUME IInv, NEW r \in Inits \cup Setters, NEW v \in Seq(0 .. VMax),
         v # << >>, Len(v) = Len(val), spc[r] = "set", Stored(v), At(r, "done"),
         UNCHANGED maker
  PROVE  IInv'
<1> USE OneProgram
<1>1. /\ spc' = [spc EXCEPT ![r] = "done"] /\ val' = v /\ base' = v[1] /\ since' = {}
      /\ adj' = [u \in Runs |-> 0]
  BY DEF Stored, At
<1>2. v[1] \in 0 .. VMax
  BY ValuesAre
<1>3. spc \in [Runs -> {"new", "set", "wait", "taken", "done", "failed"}]
  BY DEF IInv, SemTypeOK
<1>4. SemTypeOK'
  BY <1>1, <1>2, <1>3 DEF SemTypeOK, IInv
<1>5. Stages'
  BY <1>1, <1>3 DEF IInv, Stages, Exists
<1>6. Undos'
  BY <1>1 DEF Undos
<1>7. Ledger'
  BY <1>1, <1>2, NoBooks
<1>8. SetsItsOwn'
  BY <1>1, <1>3, SemSetAssumption DEF IInv, SetsItsOwn
<1> QED
  BY <1>4, <1>5, <1>6, <1>7, <1>8 DEF IInv

LEMMA OpenStep ==
  ASSUME IInv, NEW r \in Runs, Open(r)
  PROVE  IInv'
<1>1. r \in Inits /\ spc[r] = "new" /\ Semget(r, 1, r \in Excl, "set") /\ UNCHANGED adj
  BY DEF Open
<1> QED
  BY <1>1, Creates

LEMMA MakeStep ==
  ASSUME IInv, NEW r \in Runs, Make(r)
  PROVE  IInv'
<1> DEFINE n == Narrow(Count[r])
<1>1. CASE n <= 0
  BY <1>1, Quiet, OneProgram DEF Make
<1>2. CASE ~(n <= 0)
  <2>1. r \in Makers /\ spc[r] = "new" /\ Semget(r, n, FALSE, "done") /\ UNCHANGED adj
    BY <1>2 DEF Make
  <2>2. n \in Int
    BY <2>1, SemSetAssumption DEF Narrow
  <2> HIDE DEF n
  <2>3. n \in Nat \ {0} /\ r \notin Excl /\ r \notin Inits
    BY <1>2, <2>1, <2>2, SemSetAssumption, OneProgram
  <2>4. Semget(r, n, r \in Excl, IF r \in Inits THEN "set" ELSE "done")
    BY <2>1, <2>3 DEF Semget
  <2> QED
    BY <2>1, <2>3, <2>4, Creates
<1> QED
  BY <1>1, <1>2

LEMMA SetValStep ==
  ASSUME IInv, NEW r \in Runs, SetVal(r), UNCHANGED maker
  PROVE  IInv'
<1> DEFINE v == Parse(Given[r])
<1>1. r \in Inits /\ spc[r] = "set" /\ Exists /\ val \in Seq(0 .. VMax)
  BY DEF SetVal, IInv, Stages, SemTypeOK
<1>2. CASE v \in 0 .. VMax
  <2>1. Stored([val EXCEPT ![1] = v]) /\ At(r, "done")
    BY <1>2 DEF SetVal
  <2> HIDE DEF v
  <2> DEFINE w == [val EXCEPT ![1] = v]
  <2>2. w \in Seq(0 .. VMax) /\ Len(w) = Len(val) /\ w # << >>
    BY <1>1, <1>2, FirstSet DEF Exists
  <2>3. Stored(w)
    BY <2>1
  <2> HIDE DEF w
  <2> QED
    BY <1>1, <2>1, <2>2, <2>3, Sets
<1>3. CASE v \notin 0 .. VMax
  BY <1>1, <1>3, Quiet DEF SetVal
<1> QED
  BY <1>2, <1>3

LEMMA AskCountStep ==
  ASSUME IInv, NEW r \in Runs, AskCount(r), UNCHANGED maker
  PROVE  IInv'
<1>1. r \in Setters /\ r \notin Excl /\ r \notin Inits
  BY OneProgram, SemSetAssumption DEF AskCount
<1> QED
  BY <1>1, Quiet DEF AskCount

LEMMA SetAllStep ==
  ASSUME IInv, NEW r \in Runs, SetAll(r), UNCHANGED maker
  PROVE  IInv'
<1> DEFINE v == [k \in 1 .. Len(val) |-> Short(Values[r][k])]
<1>1. r \in Setters /\ spc[r] = "set" /\ val # << >> /\ val \in Seq(0 .. VMax)
      /\ Len(Values[r]) = Len(val) /\ Values[r] \in Seq(Int)
  BY SemSetAssumption, OneProgram DEF SetAll, IInv, Stages, SemTypeOK, Exists
<1>2. CASE \A k \in 1 .. Len(val) : v[k] <= VMax
  <2>1. Stored(v) /\ At(r, "done")
    BY <1>2 DEF SetAll
  <2>2. Len(val) \in Nat \ {0}
    BY <1>1, ValuesAre
  <2>3. ASSUME NEW k \in 1 .. Len(val) PROVE v[k] \in 0 .. VMax
    <3>1. Values[r][k] \in Int
      BY <1>1
    <3>2. Short(Values[r][k]) \in Nat
      BY <3>1, SemSetAssumption DEF Short
    <3> QED
      BY <1>2, <3>2, SemSetAssumption
  <2>4. v \in [1 .. Len(val) -> 0 .. VMax]
    BY <2>3
  <2>5. v \in Seq(0 .. VMax) /\ Len(v) = Len(val) /\ v # << >>
    <3> DEFINE V == 0 .. VMax
    <3>1. v \in [1 .. Len(val) -> V]
      BY <2>4
    <3> HIDE DEF v, V
    <3>2. v \in Seq(V) /\ Len(v) = Len(val)
      BY <2>2, <3>1, SeqIs
    <3> QED
      BY <2>2, <3>2 DEF V
  <2> HIDE DEF v
  <2> QED
    BY <1>1, <2>1, <2>5, Sets
<1>3. CASE ~\A k \in 1 .. Len(val) : v[k] <= VMax
  BY <1>1, <1>3, Quiet, OneProgram DEF SetAll
<1> QED
  BY <1>2, <1>3

-----------------------------------------------------------------------------
(* Steps that use semaphore 0.                                             *)

\* Types and places after a semop of r, or an undo at its end.
LEMMA Uses ==
  ASSUME IInv, Exists, NEW r \in Takers \cup Givers \cup Undoers, NEW l \in {"taken", "done"},
         l = "taken" => r \in Undoers,
         NEW n \in 0 .. VMax, val' = [val EXCEPT ![1] = n], At(r, l),
         base' \in Int, since' \subseteq Runs, adj' \in [Runs -> 0 .. 1], UNCHANGED maker
  PROVE  SemTypeOK' /\ Stages' /\ SetsItsOwn' /\ Exists' /\ val'[1] = n
<1> USE OneProgram
<1>1. /\ spc' = [spc EXCEPT ![r] = l]
      /\ spc \in [Runs -> {"new", "set", "wait", "taken", "done", "failed"}]
      /\ val \in Seq(0 .. VMax) /\ val # << >>
  BY DEF At, IInv, SemTypeOK, Exists
<1>2. val' \in Seq(0 .. VMax) /\ Len(val') = Len(val) /\ val' # << >> /\ val'[1] = n
  BY <1>1, FirstSet
<1>3. SemTypeOK'
  BY <1>1, <1>2 DEF SemTypeOK, IInv
<1>4. Stages'
  BY <1>1, <1>2 DEF IInv, Stages, Exists
<1>5. SetsItsOwn'
  BY <1>1, SemSetAssumption DEF IInv, SetsItsOwn
<1> QED
  BY <1>2, <1>3, <1>4, <1>5 DEF Exists

\* Semaphore 0 and the books as numbers.
LEMMA Numbers ==
  ASSUME IInv, Exists
  PROVE  /\ val[1] \in 0 .. VMax /\ base \in Int
         /\ val[1] = base + Cardinality(since \cap Givers)
                          - 3 * Cardinality(since \cap Takers) - Cardinality(Owing)
<1>1. val \in Seq(0 .. VMax) /\ val # << >> /\ base \in Int
  BY DEF IInv, SemTypeOK, Exists
<1>2. val[1] \in 0 .. VMax
  BY <1>1, ValuesAre
<1> QED
  BY <1>1, <1>2 DEF IInv, Ledger

\* The books after a step, from what the step changes in them.
LEMMA Balance ==
  ASSUME IInv, Exists, base' \in Int, val'[1] \in Int,
         Cardinality(since' \cap Givers) \in Int, Cardinality(since' \cap Takers) \in Int,
         Cardinality(Owing') \in Int,
         (val'[1] - val[1]) - (base' - base)
           = (Cardinality(since' \cap Givers) - Cardinality(since \cap Givers))
             - 3 * (Cardinality(since' \cap Takers) - Cardinality(since \cap Takers))
             - (Cardinality(Owing') - Cardinality(Owing))
  PROVE  Ledger'
<1>1. /\ Cardinality(since \cap Givers) \in Nat /\ Cardinality(since \cap Takers) \in Nat
      /\ Cardinality(Owing) \in Nat
  BY Counts DEF IInv, SemTypeOK
<1>2. val'[1] = base' + Cardinality(since' \cap Givers)
                - 3 * Cardinality(since' \cap Takers) - Cardinality(Owing')
  BY <1>1, Numbers
<1> QED
  BY <1>2 DEF Ledger

LEMMA TakeStep ==
  ASSUME IInv, NEW r \in Runs, Take(r), UNCHANGED maker
  PROVE  IInv'
<1> USE OneProgram
<1>1. r \in Takers /\ spc[r] \in {"new", "wait"} /\ Exists
  BY DEF Take
<1>2. val[1] \in 0 .. VMax /\ r \notin since /\ since \subseteq Runs /\ r \notin Owing
  BY <1>1, Numbers DEF IInv, Undos, SemTypeOK, Owing
<1>3. CASE val[1] >= 3
  <2>1. /\ val' = [val EXCEPT ![1] = @ + (-3)] /\ since' = since \cup {r}
        /\ At(r, "done") /\ base' = base /\ adj' = adj
    BY <1>3 DEF Take, Semop
  <2> DEFINE n == val[1] - 3
  <2>2. n \in 0 .. VMax /\ val' = [val EXCEPT ![1] = n]
    <3>1. n = val[1] + (-3) /\ n \in 0 .. VMax
      BY <1>2, <1>3, SemSetAssumption
    <3> QED
      BY <2>1, <3>1
  <2>3. SemTypeOK' /\ Stages' /\ SetsItsOwn' /\ Exists' /\ val'[1] = n
    <3> HIDE DEF n
    <3> QED
      BY <1>1, <1>2, <2>1, <2>2, Uses DEF IInv, SemTypeOK
  <2>4. spc' = [spc EXCEPT ![r] = "done"] /\ spc \in [Runs -> {"new", "set", "wait", "taken", "done", "failed"}]
    BY <2>1 DEF At, IInv, SemTypeOK
  <2>5. Undos'
    BY <1>1, <1>2, <2>1, <2>3, <2>4 DEF IInv, Undos, SemTypeOK
  <2>6. Owing' = Owing /\ (since \cap Givers)' = since \cap Givers
        /\ (since \cap Takers)' = (since \cap Takers) \cup {r}
    BY <1>1, <1>2, <2>1, <2>4 DEF Owing
  <2>7. Cardinality((since \cap Takers)') = Cardinality(since \cap Takers) + 1
    BY <1>2, <2>6, Counts, FS_AddElement
  <2>8. Ledger'
    <3>1. /\ Cardinality(since \cap Givers) \in Nat /\ Cardinality(since \cap Takers) \in Nat
          /\ Cardinality(Owing) \in Nat
      BY <1>2, Counts
    <3>2. (since \cap Givers)' = since' \cap Givers /\ (since \cap Takers)' = since' \cap Takers
      OBVIOUS
    <3>3. base' = base /\ base \in Int /\ val[1] \in Int /\ val'[1] = val[1] - 3
      BY <1>1, <1>2, <2>1, <2>3, Numbers
    <3>4. /\ Cardinality(since' \cap Givers) = Cardinality(since \cap Givers)
          /\ Cardinality(since' \cap Takers) = Cardinality(since \cap Takers) + 1
          /\ Cardinality(Owing') = Cardinality(Owing)
      BY <2>6, <2>7, <3>2
    <3> QED
      BY <1>1, <3>1, <3>3, <3>4, Balance
  <2> QED
    BY <2>3, <2>5, <2>8 DEF IInv
<1>4. CASE ~(val[1] >= 3)
  BY <1>1, <1>4, Quiet DEF Take
<1> QED
  BY <1>3, <1>4

LEMMA GiveStep ==
  ASSUME IInv, NEW r \in Runs, Give(r), UNCHANGED maker
  PROVE  IInv'
<1> USE OneProgram
<1>1. r \in Givers /\ spc[r] = "new" /\ Exists
  BY DEF Give
<1>2. val[1] \in 0 .. VMax /\ r \notin since /\ since \subseteq Runs /\ r \notin Owing
  BY <1>1, Numbers DEF IInv, Undos, SemTypeOK, Owing
<1>3. CASE val[1] < VMax
  <2>1. /\ val' = [val EXCEPT ![1] = @ + 1] /\ since' = since \cup {r}
        /\ At(r, "done") /\ base' = base /\ adj' = adj
    BY <1>3 DEF Give, Semop
  <2> DEFINE n == val[1] + 1
  <2>2. n \in 0 .. VMax /\ val' = [val EXCEPT ![1] = n]
    <3>1. n = val[1] + (1) /\ n \in 0 .. VMax
      BY <1>2, <1>3, SemSetAssumption
    <3> QED
      BY <2>1, <3>1
  <2>3. SemTypeOK' /\ Stages' /\ SetsItsOwn' /\ Exists' /\ val'[1] = n
    <3> HIDE DEF n
    <3> QED
      BY <1>1, <1>2, <2>1, <2>2, Uses DEF IInv, SemTypeOK
  <2>4. spc' = [spc EXCEPT ![r] = "done"] /\ spc \in [Runs -> {"new", "set", "wait", "taken", "done", "failed"}]
    BY <2>1 DEF At, IInv, SemTypeOK
  <2>5. Undos'
    BY <1>1, <1>2, <2>1, <2>3, <2>4 DEF IInv, Undos, SemTypeOK
  <2>6. Owing' = Owing /\ (since \cap Takers)' = since \cap Takers
        /\ (since \cap Givers)' = (since \cap Givers) \cup {r}
    BY <1>1, <1>2, <2>1, <2>4 DEF Owing
  <2>7. Cardinality((since \cap Givers)') = Cardinality(since \cap Givers) + 1
    BY <1>2, <2>6, Counts, FS_AddElement
  <2>8. Ledger'
    <3>1. /\ Cardinality(since \cap Givers) \in Nat /\ Cardinality(since \cap Takers) \in Nat
          /\ Cardinality(Owing) \in Nat
      BY <1>2, Counts
    <3>2. (since \cap Givers)' = since' \cap Givers /\ (since \cap Takers)' = since' \cap Takers
      OBVIOUS
    <3>3. base' = base /\ base \in Int /\ val[1] \in Int /\ val'[1] = val[1] + 1
      BY <1>1, <1>2, <2>1, <2>3, Numbers
    <3>4. /\ Cardinality(since' \cap Givers) = Cardinality(since \cap Givers) + 1
          /\ Cardinality(since' \cap Takers) = Cardinality(since \cap Takers)
          /\ Cardinality(Owing') = Cardinality(Owing)
      BY <2>6, <2>7, <3>2
    <3> QED
      BY <1>1, <3>1, <3>3, <3>4, Balance
  <2> QED
    BY <2>3, <2>5, <2>8 DEF IInv
<1>4. CASE ~(val[1] < VMax)
  BY <1>1, <1>4, Quiet DEF Give
<1> QED
  BY <1>3, <1>4

LEMMA TakeUndoStep ==
  ASSUME IInv, NEW r \in Runs, TakeUndo(r), UNCHANGED maker
  PROVE  IInv'
<1> USE OneProgram
<1>1. r \in Undoers /\ spc[r] \in {"new", "wait"} /\ Exists
  BY DEF TakeUndo
<1>2. val[1] \in 0 .. VMax /\ r \notin since /\ since \subseteq Runs /\ r \notin Owing
  BY <1>1, Numbers DEF IInv, Undos, SemTypeOK, Owing
<1>3. CASE val[1] >= 1
  <2>1. /\ val' = [val EXCEPT ![1] = @ + (-1)] /\ since' = since \cup {r}
        /\ At(r, "taken") /\ base' = base
        /\ adj' = [adj EXCEPT ![r] = IF r \in Keepers THEN 0 ELSE 1]
    BY <1>3 DEF TakeUndo, Semop
  <2> DEFINE n == val[1] - 1
  <2>2. n \in 0 .. VMax /\ val' = [val EXCEPT ![1] = n]
    <3>1. n = val[1] + (-1) /\ n \in 0 .. VMax
      BY <1>2, <1>3, SemSetAssumption
    <3> QED
      BY <2>1, <3>1
  <2>3. SemTypeOK' /\ Stages' /\ SetsItsOwn' /\ Exists' /\ val'[1] = n
    <3>1. adj' \in [Runs -> 0 .. 1]
      BY <2>1 DEF IInv, SemTypeOK
    <3> HIDE DEF n
    <3> QED
      BY <1>1, <1>2, <2>1, <2>2, <3>1, Uses DEF IInv, SemTypeOK
  <2>4. spc' = [spc EXCEPT ![r] = "taken"] /\ spc \in [Runs -> {"new", "set", "wait", "taken", "done", "failed"}]
    BY <2>1 DEF At, IInv, SemTypeOK
  <2>5. Undos'
    BY <1>1, <1>2, <2>1, <2>3, <2>4 DEF IInv, Undos, SemTypeOK
  <2>6. Owing' = Owing \cup {r} /\ (since \cap Takers)' = since \cap Takers
        /\ (since \cap Givers)' = since \cap Givers
    BY <1>1, <1>2, <2>1, <2>4 DEF Owing
  <2>7. Cardinality(Owing') = Cardinality(Owing) + 1
    BY <1>2, <2>6, Counts, FS_AddElement
  <2>8. Ledger'
    <3>1. /\ Cardinality(since \cap Givers) \in Nat /\ Cardinality(since \cap Takers) \in Nat
          /\ Cardinality(Owing) \in Nat
      BY <1>2, Counts
    <3>2. (since \cap Givers)' = since' \cap Givers /\ (since \cap Takers)' = since' \cap Takers
      OBVIOUS
    <3>3. base' = base /\ base \in Int /\ val[1] \in Int /\ val'[1] = val[1] - 1
      BY <1>1, <1>2, <2>1, <2>3, Numbers
    <3>4. /\ Cardinality(since' \cap Givers) = Cardinality(since \cap Givers)
          /\ Cardinality(since' \cap Takers) = Cardinality(since \cap Takers)
          /\ Cardinality(Owing') = Cardinality(Owing) + 1
      BY <2>6, <2>7, <3>2
    <3> QED
      BY <1>1, <3>1, <3>3, <3>4, Balance
  <2> QED
    BY <2>3, <2>5, <2>8 DEF IInv
<1>4. CASE ~(val[1] >= 1)
  BY <1>1, <1>4, Quiet DEF TakeUndo
<1> QED
  BY <1>3, <1>4

\* What the kernel adds is what the run owes, but for what is cut off at SEMVMX.
LEMMA ExitUndoStep ==
  ASSUME IInv, NEW r \in Runs, ExitUndo(r), UNCHANGED maker
  PROVE  IInv'
<1> USE OneProgram
<1> DEFINE room == IF val[1] < VMax THEN adj[r] ELSE 0
<1>1. r \in Undoers /\ spc[r] = "taken" /\ adj[r] \in 0 .. 1
  BY DEF ExitUndo, IInv, Stages, SemTypeOK
<1>2. /\ val' = [val EXCEPT ![1] = @ + room] /\ base' = base - (adj[r] - room)
      /\ adj' = [adj EXCEPT ![r] = 0] /\ At(r, "done") /\ since' = since
  BY DEF ExitUndo
<1>3. spc' = [spc EXCEPT ![r] = "done"]
      /\ spc \in [Runs -> {"new", "set", "wait", "taken", "done", "failed"}]
  BY <1>2 DEF At, IInv, SemTypeOK
<1>4. Undos'
  <2>1. adj \in [Runs -> 0 .. 1] /\ Undos
    BY DEF IInv, SemTypeOK
  <2>2. (~Exists)' => ~Exists
    BY <1>2 DEF Exists, IInv, SemTypeOK
  <2> QED
    BY <1>1, <1>2, <1>3, <2>1, <2>2 DEF Undos
<1>5. Exists
  BY <1>1 DEF IInv, Stages
<1> QED
  <2>1. val[1] \in 0 .. VMax /\ base \in Int
    BY <1>5, Numbers
  <2> DEFINE n == val[1] + room
  <2>2. n \in 0 .. VMax /\ val' = [val EXCEPT ![1] = n]
    BY <1>1, <1>2, <2>1, SemSetAssumption
  <2>3. base' \in Int /\ adj' \in [Runs -> 0 .. 1] /\ since' \subseteq Runs
    BY <1>1, <1>2, <2>1 DEF IInv, SemTypeOK
  <2>4. SemTypeOK' /\ Stages' /\ SetsItsOwn' /\ Exists' /\ val'[1] = n
    <3> HIDE DEF n, room
    <3> QED
      BY <1>1, <1>2, <1>5, <2>2, <2>3, Uses
  <2>5. Cardinality(Owing') = Cardinality(Owing) - adj[r]
    <3>1. CASE r \in Owing /\ r \notin Keepers
      <4>1. Owing' = Owing \ {r} /\ adj[r] = 1
        BY <1>1, <1>2, <1>3, <3>1 DEF Owing, IInv, Undos
      <4> QED
        BY <3>1, <4>1, Counts, FS_RemoveElement DEF IInv, SemTypeOK
    <3>2. CASE ~(r \in Owing /\ r \notin Keepers)
      <4>1. Owing' = Owing /\ adj[r] = 0
        BY <1>1, <1>2, <1>3, <3>2 DEF Owing, IInv, Undos
      <4> QED
        BY <4>1, Counts DEF IInv, SemTypeOK
    <3> QED
      BY <3>1, <3>2
  <2>6. Ledger'
    <3>1. /\ Cardinality(since \cap Givers) \in Nat /\ Cardinality(since \cap Takers) \in Nat
          /\ Cardinality(Owing) \in Nat
      BY Counts DEF IInv, SemTypeOK
    <3>2. /\ base' = base - (adj[r] - room) /\ base \in Int /\ val[1] \in Int
          /\ val'[1] = val[1] + room /\ adj[r] \in Int /\ room \in Int
      BY <1>1, <1>2, <2>1, <2>4
    <3>3. /\ Cardinality(since' \cap Givers) = Cardinality(since \cap Givers)
          /\ Cardinality(since' \cap Takers) = Cardinality(since \cap Takers)
      BY <1>2
    <3> HIDE DEF room
    <3> QED
      BY <1>5, <2>5, <3>1, <3>2, <3>3, Balance
  <2> QED
    BY <1>4, <2>4, <2>6 DEF IInv

-----------------------------------------------------------------------------
(* The invariant, and what follows from it.                                *)

LEMMA InitInv == SemInit => IInv
<1> SUFFICES ASSUME SemInit PROVE IInv
  OBVIOUS
<1>1. /\ val \in {<< >>, <<2>>, <<3, 0>>} /\ adj = [r \in Runs |-> 0] /\ spc = [r \in Runs |-> "new"]
      /\ base = (IF Exists THEN val[1] ELSE 0) /\ since = {} /\ maker = "nobody"
  BY DEF SemInit
<1>2. val \in Seq(0 .. VMax)
  <2>1. 0 \in 0 .. VMax /\ 2 \in 0 .. VMax /\ 3 \in 0 .. VMax
    BY SemSetAssumption
  <2> DEFINE V == 0 .. VMax
  <2>2. << >> \in Seq(V) /\ <<2>> \in Seq(V) /\ <<3, 0>> \in Seq(V)
    <3> HIDE DEF V
    <3>1. 0 \in V /\ 2 \in V /\ 3 \in V
      BY <2>1 DEF V
    <3> QED
      BY <3>1
  <2> QED
    BY <1>1, <2>2
<1>3. base \in Int /\ (Exists => val[1] = base)
  BY <1>1 DEF Exists
<1>4. SemTypeOK
  BY <1>1, <1>2, <1>3 DEF SemTypeOK
<1>5. Stages /\ Undos /\ SetsItsOwn
  BY <1>1, OneProgram, SemSetAssumption DEF Stages, Undos, SetsItsOwn
<1>6. Ledger
  <2>1. since \cap Givers = {} /\ since \cap Takers = {} /\ Owing = {}
    BY <1>1 DEF Owing
  <2>2. Cardinality({}) = 0
    BY FS_EmptySet
  <2>3. /\ Cardinality(since \cap Givers) = 0 /\ Cardinality(since \cap Takers) = 0
        /\ Cardinality(Owing) = 0
    BY <2>1, <2>2
  <2> QED
    BY <1>3, <2>3 DEF Ledger
<1> QED
  BY <1>4, <1>5, <1>6 DEF IInv

LEMMA Invariance == SemSpec => []IInv
<1>1. ASSUME IInv, SemNext PROVE IInv'
  BY <1>1, OpenStep, SetValStep, MakeStep, AskCountStep, SetAllStep, TakeStep, GiveStep,
     TakeUndoStep, ExitUndoStep DEF SemNext
<1>2. ASSUME IInv, UNCHANGED semVars PROVE IInv'
  BY <1>2 DEF IInv, semVars, SemTypeOK, Stages, Undos, Ledger, Owing, Exists, SetsItsOwn
<1> QED
  BY <1>1, <1>2, InitInv, PTL DEF SemSpec

\* Every reachable state has its type: whatever the runs add, take, undo or store,
\* each value stays between 0 and SEMVMX.
THEOREM TypeCorrect == SemSpec => []SemTypeOK
<1>1. IInv => SemTypeOK
  BY DEF IInv
<1> QED
  BY <1>1, Invariance, PTL

\* Semaphore 0 is what was stored last, plus what was given and minus what was taken
\* since, and an undo is neither lost nor applied to what somebody else has stored.
THEOREM BooksBalance == SemSpec => []Ledger
<1>1. IInv => Ledger
  BY DEF IInv
<1> QED
  BY <1>1, Invariance, PTL

\* Two runs of sem_create_init with -x never set the same set, and neither sets one
\* that was there before it.
THEOREM ExclusiveSetsItsOwn == SemSpec => []SetsItsOwn
<1>1. IInv => SetsItsOwn
  BY DEF IInv
<1> QED
  BY <1>1, Invariance, PTL

\* A number an int can hold is not changed when it is stored in one.
LEMMA Modulo ==
  ASSUME NEW m \in Nat \ {0}, NEW v \in 0 .. m - 1
  PROVE  v % m = v
OBVIOUS

LEMMA NarrowIs ==
  ASSUME NEW v \in -IMax - 1 .. IMax
  PROVE  Narrow(v) = v
<1> DEFINE m == 2 * (IMax + 1)
           w == v + IMax + 1
<1>1. m \in Nat \ {0} /\ w \in 0 .. m - 1 /\ IMax \in Nat /\ v \in Int
  BY SemSetAssumption
<1>2. Narrow(v) = (w % m) - (IMax + 1) /\ w - (IMax + 1) = v
  BY <1>1 DEF Narrow
<1> HIDE DEF m, w
<1>3. w % m = w
  BY <1>1, Modulo
<1> QED
  BY <1>2, <1>3

\* After permissions that are not 666 the last argument is the init-val.
LEMMA LastIsValue ==
  ASSUME NEW r \in Inits, Given[r] = << >> \/ (Given[r][1].octal /\ Given[r][1].oct \in (-IMax - 1 .. IMax) \ {Rw}),
         Len(Given[r]) < 2 \/ Given[r][Len(Given[r])].dec \in -IMax - 1 .. IMax
  PROVE  Parse(Given[r]) = IF Len(Given[r]) < 2 THEN 2 ELSE Given[r][Len(Given[r])].dec
<1> DEFINE a == Given[r]
<1> DEFINE values == {k \in 1 .. Len(a) : IsValue(a, k)}
<1>1. a \in Seq([octal : BOOLEAN, oct : Int, dec : Int])
  BY SemSetAssumption
<1> HIDE DEF a
<1>2. Len(a) \in Nat /\ (a = << >> => Len(a) = 0)
  BY <1>1
<1>3. CASE Len(a) < 2
  <2>0. Len(a) = 0 \/ Len(a) = 1
    <3>1. \A n \in Nat : n < 2 => n = 0 \/ n = 1
      OBVIOUS
    <3>2. Len(a) \in Nat
      BY <1>2
    <3> QED
      BY <1>3, <3>1, <3>2, Zenon
  <2>1. values = {}
    <3> SUFFICES ASSUME NEW k \in 1 .. Len(a), IsValue(a, k) PROVE FALSE
      OBVIOUS
    <3>1. k = 1 /\ Len(a) = 1
      BY ONLY <2>0, k \in 1 .. Len(a)
    <3>2. a[1].octal
      BY <1>2, <3>1 DEF a
    <3>3. \A j \in 1 .. k - 1 : FALSE
      BY <3>1
    <3> QED
      BY <3>1, <3>2, <3>3 DEF IsValue
  <2> QED
    BY <1>3, <2>1 DEF Parse, a
<1>4. CASE ~(Len(a) < 2)
  <2>1. a[1].octal /\ Narrow(a[1].oct) # Rw /\ 1 \in 1 .. Len(a) - 1
    BY <1>2, <1>4, NarrowIs DEF a
  <2>2. Len(a) \in values /\ \A j \in values : j <= Len(a)
    BY <1>2, <2>1 DEF IsValue
  <2>3. (CHOOSE k \in values : \A j \in values : j <= k) = Len(a)
    <3> DEFINE m == CHOOSE k \in values : \A j \in values : j <= k
    <3>1. m \in values /\ \A j \in values : j <= m
      BY <2>2
    <3>2. m \in 1 .. Len(a)
      BY <3>1
    <3> QED
      BY <1>2, <2>2, <3>1, <3>2
  <2>4. Narrow(a[Len(a)].dec) = a[Len(a)].dec
    BY <1>4, NarrowIs DEF a
  <2> QED
    BY <1>4, <2>2, <2>3, <2>4 DEF Parse, a
<1> QED
  BY <1>3, <1>4 DEF a

\* Numbers an unsigned short can hold are stored as they are.
LEMMA ShortIs ==
  ASSUME NEW v \in 0 .. 2 * VMax + 1
  PROVE  Short(v) = v
<1> DEFINE m == 2 * (VMax + 1)
<1>1. m \in Nat \ {0} /\ v \in 0 .. m - 1 /\ v \in Int /\ ~(v < 0)
  BY SemSetAssumption
<1>2. Short(v) = v % m
  BY <1>1 DEF Short
<1> HIDE DEF m
<1> QED
  BY <1>1, <1>2, Modulo

\* sem_create_init stores the init-val it was given, if it and the permissions are
\* numbers an int can hold and the permissions are not 666,
\* sem_setall each number an unsigned short can hold, and what the kernel refuses
\* changes no semaphore.
THEOREM WhatWasAskedIsStored == SemSpec => AskedIsStored
<1> DEFINE Asked ==
      /\ \A r \in Inits : (spc[r] = "set" /\ spc'[r] = "done") =>
            LET a == Given[r] asked == IF Len(a) < 2 THEN 2 ELSE a[Len(a)].dec
                int == -IMax - 1 .. IMax
            IN
            (a = << >> \/ (a[1].octal /\ a[1].oct \in int \ {Rw})) /\ asked \in int
               => val'[1] = asked
      /\ \A r \in Setters :
            /\ (spc[r] = "set" /\ spc'[r] = "done") =>
                  \A k \in 1 .. Len(val) :
                     Values[r][k] \in 0 .. 2 * VMax + 1 => val'[k] = Values[r][k]
            /\ spc'[r] = "failed" => (spc[r] = "failed" \/ val' = val)
<1>1. ASSUME IInv, SemNext PROVE Asked
  <2>1. PICK u \in Runs :
          \/ Open(u) \/ SetVal(u) \/ Make(u) \/ AskCount(u) \/ SetAll(u)
          \/ Take(u) \/ Give(u) \/ TakeUndo(u) \/ ExitUndo(u)
    BY <1>1 DEF SemNext
  <2>2. PICK l : spc' = [spc EXCEPT ![u] = l]
    BY <2>1 DEF Open, SetVal, Make, AskCount, SetAll, Take, Give, TakeUndo, ExitUndo, Semget, Semop, At
  <2>3. \A r \in Runs \ {u} : spc'[r] = spc[r]
    BY <1>1, <2>2 DEF IInv, SemTypeOK
  <2>4. ASSUME NEW r \in Inits, spc[r] = "set", spc'[r] = "done",
               Given[r] = << >> \/ (Given[r][1].octal /\ Given[r][1].oct \in (-IMax - 1 .. IMax) \ {Rw}),
               (IF Len(Given[r]) < 2 THEN 2 ELSE Given[r][Len(Given[r])].dec) \in -IMax - 1 .. IMax
        PROVE  val'[1] = IF Len(Given[r]) < 2 THEN 2 ELSE Given[r][Len(Given[r])].dec
    <3>1. r = u
      BY <2>3, <2>4, OneProgram
    <3>2. SetVal(r)
      BY <2>1, <2>4, <3>1, OneProgram DEF Open, Make, AskCount, SetAll, Take, Give, TakeUndo, ExitUndo
    <3> DEFINE v == Parse(Given[r])
    <3>3. v \in 0 .. VMax /\ val' = [val EXCEPT ![1] = v] /\ val \in Seq(0 .. VMax) /\ val # << >>
      BY <1>1, <2>2, <2>4, <3>1, <3>2 DEF SetVal, Stored, At, IInv, SemTypeOK, Stages, Exists
    <3> HIDE DEF v
    <3>4. val'[1] = v
      BY <3>3, FirstSet
    <3> QED
      BY <2>4, <3>4, LastIsValue DEF v
  <2>5. ASSUME NEW r \in Setters, spc[r] = "set", spc'[r] = "done", NEW k \in 1 .. Len(val),
               Values[r][k] \in 0 .. 2 * VMax + 1
        PROVE  val'[k] = Values[r][k]
    <3>1. r = u
      BY <2>3, <2>5, OneProgram
    <3>2. SetAll(r)
      BY <2>1, <2>5, <3>1, OneProgram DEF Open, SetVal, Make, AskCount, Take, Give, TakeUndo, ExitUndo
    <3>3. val' = [i \in 1 .. Len(val) |-> Short(Values[r][i])]
      BY <1>1, <2>2, <2>5, <3>1, <3>2 DEF SetAll, Stored, At, IInv, SemTypeOK
    <3> QED
      BY <2>5, <3>3, ShortIs
  <2>6. ASSUME NEW r \in Setters, spc'[r] = "failed", spc[r] # "failed" PROVE val' = val
    <3>1. r = u
      BY <2>3, <2>6, OneProgram
    <3>2. AskCount(r) \/ SetAll(r)
      BY <1>1, <2>1, <2>6, <3>1, OneProgram DEF Open, SetVal, Make, Take, Give, TakeUndo, ExitUndo, IInv, Stages
    <3> QED
      BY <1>1, <2>6, <3>2, OneProgram DEF AskCount, SetAll, Stored, At, IInv, SemTypeOK
  <2> QED
    BY <2>4, <2>5, <2>6
<1>2. ASSUME IInv, [SemNext]_semVars PROVE [Asked]_semVars
  BY <1>1, <1>2
<1>3. SemSpec => [][Asked]_semVars
  BY <1>2, Invariance, PTL DEF SemSpec
<1> QED
  BY <1>3 DEF AskedIsStored

=============================================================================
