---------------------------- MODULE Shared_proofs ---------------------------
(***************************************************************************)
(* What the proofs of several modules rest on.  First tables and series:   *)
(* what each operation of Postgres does to its parts, row by row, and that *)
(* it keeps their types; the proofs cite these lemmas and never look       *)
(* inside the operations.  Then sums over finite sets, as MapThenSumSet of *)
(* the community modules computes them: induction on the set is by the     *)
(* smallest counterexample, which the well-foundedness of strict inclusion *)
(* provides without an operator to instantiate.                            *)
(***************************************************************************)
EXTENDS Postgres, FiniteSetsExt, FiniteSetTheorems, TLAPS

-----------------------------------------------------------------------------
(* Tables and series.                                                      *)

\* A new table is as committed, and nobody holds a row of it.
LEMMA NewTableFacts ==
  ASSUME NEW K, NEW V, NEW rows \in [K -> V]
  PROVE  /\ NewTable(rows) \in TableOf(K, V)
         /\ NewTable(rows).now = rows
         /\ NewTable(rows).work = rows
         /\ \A k \in K : NewTable(rows).lock[k] = Nobody
BY DEF NewTable, TableOf, Owner

\* A transaction sees its own writes, and else what is committed.
LEMMA SeenFacts ==
  ASSUME NEW K, NEW V, NEW t \in TableOf(K, V), NEW r
  PROVE  /\ Seen(t, r) \in [K -> V]
         /\ \A k \in K : Seen(t, r)[k] = IF t.lock[k] = r THEN t.work[k] ELSE t.now[k]
BY DEF Seen, TableOf

\* Put leaves what is committed alone and takes the row.
LEMMA PutFacts ==
  ASSUME NEW K, NEW V, NEW t \in TableOf(K, V), NEW r \in Req, NEW k \in K, NEW v \in V
  PROVE  /\ Put(t, r, k, v) \in TableOf(K, V)
         /\ Put(t, r, k, v).now = t.now
         /\ \A j \in K : /\ Put(t, r, k, v).work[j] = IF j = k THEN v ELSE t.work[j]
                         /\ Put(t, r, k, v).lock[j] = IF j = k THEN r ELSE t.lock[j]
BY DEF Put, TableOf, Owner

\* Save writes the row, committed, and takes nothing.
LEMMA SaveFacts ==
  ASSUME NEW K, NEW V, NEW t \in TableOf(K, V), NEW k \in K, NEW v \in V
  PROVE  /\ Save(t, k, v) \in TableOf(K, V)
         /\ Save(t, k, v).lock = t.lock
         /\ \A j \in K : /\ Save(t, k, v).work[j] = IF j = k THEN v ELSE t.work[j]
                         /\ Save(t, k, v).now[j] = IF j = k THEN v ELSE t.now[j]
BY DEF Save, TableOf

\* Commit publishes the rows r holds, and lets them go.
LEMMA CommitFacts ==
  ASSUME NEW K, NEW V, NEW t \in TableOf(K, V), NEW r
  PROVE  /\ Commit(t, r) \in TableOf(K, V)
         /\ Commit(t, r).work = t.work
         /\ \A j \in K :
              /\ Commit(t, r).now[j] = IF t.lock[j] = r THEN t.work[j] ELSE t.now[j]
              /\ Commit(t, r).lock[j] = IF t.lock[j] = r THEN Nobody ELSE t.lock[j]
BY SeenFacts DEF Commit, Unlocked, Seen, TableOf, Owner

\* Rollback restores the rows r holds, and lets them go.
LEMMA RollbackFacts ==
  ASSUME NEW K, NEW V, NEW t \in TableOf(K, V), NEW r
  PROVE  /\ Rollback(t, r) \in TableOf(K, V)
         /\ Rollback(t, r).now = t.now
         /\ \A j \in K :
              /\ Rollback(t, r).work[j] = IF t.lock[j] = r THEN t.now[j] ELSE t.work[j]
              /\ Rollback(t, r).lock[j] = IF t.lock[j] = r THEN Nobody ELSE t.lock[j]
BY DEF Rollback, Unlocked, TableOf, Owner

\* Inserting, committing and rolling back a number keep a series a series.
LEMMA SeriesFacts ==
  ASSUME NEW s \in Series, NEW r \in Req
  PROVE  /\ Insert(s, r) \in Series
         /\ CommitSeries(s, r) \in Series
         /\ RollbackSeries(s, r) \in Series
BY DEF Series, Insert, CommitSeries, RollbackSeries, Owner

-----------------------------------------------------------------------------
(* Sums over finite sets.                                                  *)

\* A nonempty set of subsets of a finite set has a smallest member.
LEMMA Smallest ==
  ASSUME NEW S, IsFiniteSet(S), NEW Bad \in SUBSET (SUBSET S), Bad # {}
  PROVE  \E U \in Bad : \A V \in SUBSET U : V # U => V \notin Bad
<1> DEFINE R == StrictSubsetOrdering(S)
<1>1. IsWellFoundedOn(R, SUBSET S)
  BY FS_StrictSubsetOrderingWellFounded, FS_FiniteSubsetsOfFinite
<1>2. \A V, U \in SUBSET S : V \in SUBSET U /\ V # U => <<V, U>> \in R
  BY DEF StrictSubsetOrdering
<1> HIDE DEF R
<1>3. PICK U \in Bad : \A V \in Bad : <<V, U>> \notin R
  BY <1>1, WFMin
<1> QED
  BY <1>2, <1>3

\* h gives every subset of S the sum of g over it.
Adds(h, g, S) ==
  /\ h \in [SUBSET S -> Int]
  /\ h[{}] = 0
  /\ \A s \in SUBSET S : \A x \in s : h[s] = g[x] + h[s \ {x}]

LEMMA AddsExists ==
  ASSUME NEW S, IsFiniteSet(S), NEW g, \A x \in S : g[x] \in Int
  PROVE  \E h : Adds(h, g, S)
<1> DEFINE Bad == {T \in SUBSET S : ~ \E h : Adds(h, g, T)}
<1> SUFFICES ASSUME Bad # {} PROVE FALSE
  OBVIOUS
<1>0. Bad \in SUBSET (SUBSET S) /\ \A T \in SUBSET S : T \in Bad <=> ~ \E h : Adds(h, g, T)
  OBVIOUS
<1> HIDE DEF Bad
<1>1. PICK T \in Bad : \A V \in SUBSET T : V # T => V \notin Bad
  BY <1>0, Smallest
<1>2. T \in SUBSET S /\ ~ \E h : Adds(h, g, T)
  BY <1>0
<1>3. CASE T = {}
  <2> DEFINE h == [s \in SUBSET T |-> 0]
  <2>1. Adds(h, g, T)
    BY <1>3 DEF Adds
  <2> QED
    BY <1>2, <2>1
<1>4. ASSUME NEW x \in T PROVE FALSE
  <2>1. PICK h : Adds(h, g, T \ {x})
    BY <1>0, <1>1, <1>2, T \ {x} # T
  <2> DEFINE k == [s \in SUBSET T |-> IF x \in s THEN g[x] + h[s \ {x}] ELSE h[s]]
  <2>2. /\ \A s \in SUBSET T : x \notin s => s \in SUBSET (T \ {x})
        /\ \A s \in SUBSET T : s \ {x} \in SUBSET (T \ {x})
    OBVIOUS
  <2>3. \A y \in T : g[y] \in Int
    BY <1>2
  <2>4. /\ \A s \in SUBSET (T \ {x}) : h[s] \in Int
        /\ h[{}] = 0
        /\ \A s \in SUBSET (T \ {x}) : \A y \in s : h[s] = g[y] + h[s \ {y}]
    BY <2>1 DEF Adds
  <2>5. k \in [SUBSET T -> Int]
    BY <2>2, <2>3, <2>4
  <2>6. /\ \A s \in SUBSET T : x \in s => k[s] = g[x] + h[s \ {x}]
        /\ \A s \in SUBSET T : x \notin s => k[s] = h[s]
    OBVIOUS
  <2> HIDE DEF k
  <2>7. k[{}] = 0
    BY <2>4, <2>6
  <2>8. ASSUME NEW s \in SUBSET T, NEW y \in s PROVE k[s] = g[y] + k[s \ {y}]
    <3>1. s \ {y} \in SUBSET T
      OBVIOUS
    <3>2. CASE x \notin s
      <4>1. k[s] = h[s] /\ k[s \ {y}] = h[s \ {y}]
        BY <2>6, <3>1, <3>2
      <4> QED
        BY <4>1, <2>2, <2>4, <3>2
    <3>3. CASE x = y
      BY <2>6, <3>1, <3>3
    <3>4. CASE x \in s /\ x # y
      <4>1. k[s] = g[x] + h[s \ {x}] /\ k[s \ {y}] = g[x] + h[(s \ {y}) \ {x}]
        BY <2>6, <3>1, <3>4
      <4>2. s \ {x} \in SUBSET (T \ {x}) /\ y \in s \ {x}
        BY <2>2, <3>4
      <4>3. h[s \ {x}] = g[y] + h[(s \ {x}) \ {y}]
        BY <4>2, <2>4
      <4>4. (s \ {x}) \ {y} = (s \ {y}) \ {x} /\ (s \ {x}) \ {y} \in SUBSET (T \ {x})
        OBVIOUS
      <4> DEFINE v == h[(s \ {x}) \ {y}]
      <4>5. v \in Int /\ g[x] \in Int /\ g[y] \in Int
        BY <4>4, <2>3, <2>4
      <4>6. k[s] = g[x] + (g[y] + v) /\ k[s \ {y}] = g[x] + v
        BY <4>1, <4>3, <4>4
      <4> HIDE DEF v
      <4> QED
        BY <4>5, <4>6
    <3> QED
      BY <3>2, <3>3, <3>4
  <2>9. Adds(k, g, T)
    BY <2>5, <2>7, <2>8 DEF Adds
  <2> QED
    BY <1>2, <2>9
<1> QED
  BY <1>3, <1>4

\* The iteration of the community modules' folds.
Iterates(it, g, S) ==
  it = [s \in SUBSET S |-> IF s = {} THEN 0
                           ELSE g[CHOOSE x \in s : TRUE] + it[s \ {CHOOSE x \in s : TRUE}]]

LEMMA IteratesAdds ==
  ASSUME NEW S, IsFiniteSet(S), NEW g, \A x \in S : g[x] \in Int, NEW h, Adds(h, g, S)
  PROVE  /\ Iterates(h, g, S)
         /\ \A it : Iterates(it, g, S) => it = h
<1>1. ASSUME NEW s \in SUBSET S, s # {} PROVE (CHOOSE x \in s : TRUE) \in s
  BY <1>1
<1>2. Iterates(h, g, S)
  <2>1. \A s \in SUBSET S : h[s] = IF s = {} THEN 0
            ELSE g[CHOOSE x \in s : TRUE] + h[s \ {CHOOSE x \in s : TRUE}]
    BY <1>1 DEF Adds
  <2> QED
    BY <2>1 DEF Adds, Iterates
<1>3. ASSUME NEW it, Iterates(it, g, S) PROVE it = h
  <2> DEFINE Bad == {T \in SUBSET S : it[T] # h[T]}
  <2>1. \A s \in SUBSET S : it[s] = IF s = {} THEN 0
            ELSE g[CHOOSE x \in s : TRUE] + it[s \ {CHOOSE x \in s : TRUE}]
    BY <1>3 DEF Iterates
  <2>2. \A s \in SUBSET S : h[s] = IF s = {} THEN 0
            ELSE g[CHOOSE x \in s : TRUE] + h[s \ {CHOOSE x \in s : TRUE}]
    BY <1>2 DEF Iterates
  <2>3. SUFFICES ASSUME Bad # {} PROVE FALSE
    <3>1. \A s \in SUBSET S : it[s] = h[s]
      BY <2>3
    <3> QED
      BY <3>1, <1>3 DEF Iterates, Adds
  <2>7. Bad \in SUBSET (SUBSET S) /\ \A T \in SUBSET S : T \in Bad <=> it[T] # h[T]
    OBVIOUS
  <2> HIDE DEF Bad
  <2>4. PICK T \in Bad : \A V \in SUBSET T : V # T => V \notin Bad
    BY <2>3, <2>7, Smallest
  <2>5. CASE T = {}
    BY <2>1, <2>2, <2>5, <2>7
  <2>6. CASE T # {}
    <3> DEFINE x == CHOOSE x \in T : TRUE
    <3>1. x \in T
      BY <1>1, <2>6, <2>7
    <3>2. it[T] = g[x] + it[T \ {x}] /\ h[T] = g[x] + h[T \ {x}]
      BY <2>1, <2>2, <2>6, <2>7
    <3> HIDE DEF x
    <3>3. it[T \ {x}] = h[T \ {x}]
      BY <2>4, <2>7, <3>1
    <3> QED
      BY <2>7, <3>2, <3>3
  <2> QED
    BY <2>5, <2>6
<1> QED
  BY <1>2, <1>3

\* The sum of a function over a finite set.
SumOf(g, S) == (CHOOSE h : Adds(h, g, S))[S]

\* It is what any h that adds says; and the sums over the subsets of S are its
\* other values.
LEMMA SumIs ==
  ASSUME NEW S, IsFiniteSet(S), NEW g, \A x \in S : g[x] \in Int,
         NEW T \in SUBSET S, NEW h, Adds(h, g, S)
  PROVE  SumOf(g, T) = h[T]
<1> DEFINE k == [s \in SUBSET T |-> h[s]]
<1>1. Adds(k, g, T)
  <2>1. /\ \A s \in SUBSET T : k[s] = h[s] /\ h[s] \in Int
        /\ \A s \in SUBSET T : \A x \in s : h[s] = g[x] + h[s \ {x}]
        /\ h[{}] = 0
    BY DEF Adds
  <2> QED
    BY <2>1 DEF Adds
<1>2. IsFiniteSet(T) /\ \A x \in T : g[x] \in Int
  BY FS_Subset
<1>3. \A j : Adds(j, g, T) => j = k
  BY <1>1, <1>2, IteratesAdds
<1>4. k[T] = h[T]
  OBVIOUS
<1> HIDE DEF k
<1>5. (CHOOSE j : Adds(j, g, T)) = k
  BY <1>1, <1>3
<1> QED
  BY <1>4, <1>5 DEF SumOf

\* What is known of a sum without induction.
LEMMA SumFacts ==
  ASSUME NEW S, IsFiniteSet(S), NEW g, \A x \in S : g[x] \in Int
  PROVE  /\ SumOf(g, {}) = 0
         /\ \A T \in SUBSET S : SumOf(g, T) \in Int
         /\ \A T \in SUBSET S : \A x \in T : SumOf(g, T) = g[x] + SumOf(g, T \ {x})
<1>1. PICK h : Adds(h, g, S)
  BY AddsExists
<1>2. \A T \in SUBSET S : SumOf(g, T) = h[T]
  BY <1>1, SumIs
<1> QED
  BY <1>1, <1>2 DEF Adds

\* The sum depends on the values the function has on the set, and grows with
\* them; the sum of sums is the sum.
LEMMA SumPlus ==
  ASSUME NEW S, IsFiniteSet(S), NEW f, NEW g, NEW k,
         \A x \in S : f[x] \in Int /\ g[x] \in Int /\ k[x] = f[x] + g[x]
  PROVE  SumOf(k, S) = SumOf(f, S) + SumOf(g, S)
<1> DEFINE Bad == {T \in SUBSET S : SumOf(k, T) # SumOf(f, T) + SumOf(g, T)}
<1>0. Bad \in SUBSET (SUBSET S)
      /\ \A T \in SUBSET S : T \in Bad <=> SumOf(k, T) # SumOf(f, T) + SumOf(g, T)
  OBVIOUS
<1> HIDE DEF Bad
<1> SUFFICES ASSUME Bad # {} PROVE FALSE
  BY <1>0
<1>1. PICK T \in Bad : \A V \in SUBSET T : V # T => V \notin Bad
  BY <1>0, Smallest
<1>2. \A x \in S : k[x] \in Int
  OBVIOUS
<1>3. /\ SumOf(f, {}) = 0 /\ SumOf(g, {}) = 0 /\ SumOf(k, {}) = 0
      /\ \A V \in SUBSET S : SumOf(f, V) \in Int /\ SumOf(g, V) \in Int
  BY <1>2, SumFacts
<1>4. PICK x \in T : TRUE
  <2>1. {} \in SUBSET S
    OBVIOUS
  <2>2. {} \notin Bad
    BY <1>0, <1>3, <2>1
  <2> QED
    BY <1>1, <2>2
<1>5. /\ SumOf(f, T) = f[x] + SumOf(f, T \ {x})
      /\ SumOf(g, T) = g[x] + SumOf(g, T \ {x})
      /\ SumOf(k, T) = k[x] + SumOf(k, T \ {x})
  BY <1>0, <1>2, <1>4, SumFacts
<1>6. SumOf(k, T \ {x}) = SumOf(f, T \ {x}) + SumOf(g, T \ {x})
  BY <1>0, <1>1, <1>4
<1>7. /\ SumOf(f, T \ {x}) \in Int /\ SumOf(g, T \ {x}) \in Int /\ x \in S
      /\ T \in SUBSET S
  BY <1>0, <1>3, <1>4
<1>8. f[x] \in Int /\ g[x] \in Int /\ k[x] = f[x] + g[x]
  BY <1>7
<1>9. SumOf(k, T) = SumOf(f, T) + SumOf(g, T)
  BY <1>5, <1>6, <1>7, <1>8
<1> QED
  BY <1>0, <1>7, <1>9

LEMMA SumAtMost ==
  ASSUME NEW S, IsFiniteSet(S), NEW f, NEW g,
         \A x \in S : f[x] \in Int /\ g[x] \in Int /\ f[x] <= g[x]
  PROVE  SumOf(f, S) <= SumOf(g, S)
<1> DEFINE Bad == {T \in SUBSET S : ~ (SumOf(f, T) <= SumOf(g, T))}
<1>0. Bad \in SUBSET (SUBSET S)
      /\ \A T \in SUBSET S : T \in Bad <=> ~ (SumOf(f, T) <= SumOf(g, T))
  OBVIOUS
<1> HIDE DEF Bad
<1> SUFFICES ASSUME Bad # {} PROVE FALSE
  BY <1>0
<1>1. PICK T \in Bad : \A V \in SUBSET T : V # T => V \notin Bad
  BY <1>0, Smallest
<1>3. /\ SumOf(f, {}) = 0 /\ SumOf(g, {}) = 0
      /\ \A V \in SUBSET S : SumOf(f, V) \in Int /\ SumOf(g, V) \in Int
  BY SumFacts
<1>4. PICK x \in T : TRUE
  <2>1. {} \in SUBSET S
    OBVIOUS
  <2>2. {} \notin Bad
    BY <1>0, <1>3, <2>1
  <2> QED
    BY <1>1, <2>2
<1>5. /\ SumOf(f, T) = f[x] + SumOf(f, T \ {x})
      /\ SumOf(g, T) = g[x] + SumOf(g, T \ {x})
  BY <1>0, <1>4, SumFacts
<1>6. SumOf(f, T \ {x}) <= SumOf(g, T \ {x})
  BY <1>0, <1>1, <1>4
<1>7. /\ SumOf(f, T \ {x}) \in Int /\ SumOf(g, T \ {x}) \in Int /\ x \in S
      /\ T \in SUBSET S
  BY <1>0, <1>3, <1>4
<1>8. f[x] \in Int /\ g[x] \in Int /\ f[x] <= g[x]
  BY <1>7
<1>9. SumOf(f, T) <= SumOf(g, T)
  BY <1>5, <1>6, <1>7, <1>8
<1> QED
  BY <1>0, <1>7, <1>9

LEMMA SumSame ==
  ASSUME NEW S, IsFiniteSet(S), NEW f, NEW g,
         \A x \in S : f[x] \in Int /\ g[x] = f[x]
  PROVE  SumOf(g, S) = SumOf(f, S)
<1>1. SumOf(f, S) <= SumOf(g, S) /\ SumOf(g, S) <= SumOf(f, S)
  BY SumAtMost
<1>2. SumOf(f, S) \in Int /\ SumOf(g, S) \in Int
  BY SumFacts
<1> QED
  BY <1>1, <1>2

LEMMA SumZero ==
  ASSUME NEW S, IsFiniteSet(S), NEW g, \A x \in S : g[x] = 0
  PROVE  SumOf(g, S) = 0
<1>0. \A x \in S : g[x] \in Int /\ g[x] \in Int /\ g[x] = g[x] + g[x]
  OBVIOUS
<1>1. SumOf(g, S) = SumOf(g, S) + SumOf(g, S)
  BY <1>0, SumPlus
<1>2. SumOf(g, S) \in Int
  <2>1. \A x \in S : g[x] \in Int
    OBVIOUS
  <2> QED
    BY <2>1, SumFacts
<1>3. \A n \in Int : n = n + n => n = 0
  OBVIOUS
<1> QED
  BY <1>1, <1>2, <1>3

\* One member more, one less, one that changes.
LEMMA SumInsert ==
  ASSUME NEW S, IsFiniteSet(S), NEW x, x \notin S, NEW g,
         \A y \in S \cup {x} : g[y] \in Int
  PROVE  SumOf(g, S \cup {x}) = SumOf(g, S) + g[x]
<1>1. IsFiniteSet(S \cup {x}) /\ (S \cup {x}) \ {x} = S /\ x \in S \cup {x}
  BY FS_AddElement
<1>2. SumOf(g, S \cup {x}) = g[x] + SumOf(g, S) /\ SumOf(g, S) \in Int
  BY <1>1, SumFacts
<1> QED
  BY <1>2

LEMMA SumRemove ==
  ASSUME NEW S, IsFiniteSet(S), NEW x \in S, NEW g, \A y \in S : g[y] \in Int
  PROVE  SumOf(g, S \ {x}) = SumOf(g, S) - g[x]
<1>2. SumOf(g, S) = g[x] + SumOf(g, S \ {x}) /\ SumOf(g, S \ {x}) \in Int /\ g[x] \in Int
  BY SumFacts
<1> QED
  BY <1>2

LEMMA SumChange ==
  ASSUME NEW S, IsFiniteSet(S), NEW x \in S, NEW f, NEW g,
         \A y \in S : f[y] \in Int /\ g[y] \in Int,
         \A y \in S \ {x} : g[y] = f[y]
  PROVE  SumOf(g, S) = SumOf(f, S) + g[x] - f[x]
<1>1. IsFiniteSet(S \ {x})
  BY FS_RemoveElement
<1>2. SumOf(g, S \ {x}) = SumOf(f, S \ {x})
  BY <1>1, SumSame
<1>3. /\ SumOf(f, S \ {x}) = SumOf(f, S) - f[x] /\ SumOf(g, S \ {x}) = SumOf(g, S) - g[x]
      /\ SumOf(f, S) \in Int /\ SumOf(g, S) \in Int /\ f[x] \in Int /\ g[x] \in Int
  BY SumRemove, SumFacts
<1> QED
  BY <1>2, <1>3

LEMMA FiniteImage ==
  ASSUME NEW S, IsFiniteSet(S), NEW f
  PROVE  IsFiniteSet({f[x] : x \in S})
<1> DEFINE T == {f[x] : x \in S}
           h == [x \in S |-> f[x]]
<1>1. h \in Surjection(S, T)
  BY DEF Surjection
<1>2. IsFiniteSet(T)
  <2> HIDE DEF T, h
  <2> QED
    BY <1>1, FS_Surjection
<1> QED
  BY <1>2

\* The sum over a set and the image of another that f keeps apart from it.
LEMMA SumJoin ==
  ASSUME NEW A, IsFiniteSet(A), NEW B, IsFiniteSet(B), NEW f, NEW g, NEW k,
         \A x \in A : k[x] \in Int,
         \A y \in B : f[y] \notin A /\ g[y] \in Int /\ k[f[y]] = g[y],
         \A y, z \in B : f[y] = f[z] => y = z
  PROVE  SumOf(k, A \cup {f[y] : y \in B}) = SumOf(k, A) + SumOf(g, B)
<1> DEFINE Joint(T) == A \cup {f[y] : y \in T}
           Bad == {T \in SUBSET B : SumOf(k, Joint(T)) # SumOf(k, A) + SumOf(g, T)}
<1>0. Bad \in SUBSET (SUBSET B)
      /\ \A T \in SUBSET B : T \in Bad <=> SumOf(k, Joint(T)) # SumOf(k, A) + SumOf(g, T)
  OBVIOUS
<1> HIDE DEF Bad
<1> SUFFICES ASSUME Bad # {} PROVE FALSE
  BY <1>0
<1>1. PICK T \in Bad : \A V \in SUBSET T : V # T => V \notin Bad
  BY <1>0, Smallest
<1>2. /\ T \in SUBSET B /\ SumOf(g, {}) = 0
      /\ SumOf(k, A) \in Int /\ \A V \in SUBSET B : SumOf(g, V) \in Int
  BY <1>0, SumFacts
<1>3. PICK y \in T : TRUE
  <2>1. Joint({}) = A
    OBVIOUS
  <2> HIDE DEF Joint
  <2>2. ASSUME T = {} PROVE FALSE
    <3>1. SumOf(k, Joint(T)) = SumOf(k, A) + 0
      BY <1>2, <2>1, <2>2
    <3>2. SumOf(g, T) = 0
      BY <1>2, <2>2
    <3> QED
      BY <1>0, <1>2, <3>1, <3>2
  <2> QED
    BY <2>2
<1> DEFINE U == T \ {y}
<1>4. SumOf(g, T) = g[y] + SumOf(g, U)
  BY <1>2, <1>3, SumFacts
<1>5. U \in SUBSET B /\ U \notin Bad /\ y \in B
  BY <1>1, <1>2, <1>3
<1>6. SumOf(k, Joint(U)) = SumOf(k, A) + SumOf(g, U)
  BY <1>0, <1>5
<1>7. IsFiniteSet(Joint(U))
  <2>1. IsFiniteSet(U)
    BY <1>5, FS_Subset
  <2>2. IsFiniteSet({f[z] : z \in U})
    BY <2>1, FiniteImage
  <2> QED
    BY <2>2, FS_Union
<1>8. Joint(T) = Joint(U) \cup {f[y]} /\ f[y] \notin Joint(U)
  BY <1>2, <1>3
<1>9. \A x \in Joint(U) \cup {f[y]} : k[x] \in Int
  BY <1>2, <1>5
<1>10. SumOf(k, Joint(T)) = SumOf(k, Joint(U)) + k[f[y]]
  <2> DEFINE J == Joint(U)
             x == f[y]
  <2>0. IsFiniteSet(J) /\ x \notin J /\ \A z \in J \cup {x} : k[z] \in Int
    BY <1>7, <1>8, <1>9
  <2>1. Joint(T) = J \cup {x}
    BY <1>8
  <2> HIDE DEF J, x, Joint, U
  <2>2. SumOf(k, J \cup {x}) = SumOf(k, J) + k[x]
    BY <2>0, SumInsert
  <2> QED
    BY <2>1, <2>2 DEF J, x
<1>11. /\ k[f[y]] = g[y] /\ g[y] \in Int /\ SumOf(g, U) \in Int
  BY <1>2, <1>5
<1> HIDE DEF Joint, U
<1>12. SumOf(k, Joint(T)) = SumOf(k, A) + SumOf(g, T)
  BY <1>2, <1>4, <1>6, <1>10, <1>11
<1> QED
  BY <1>0, <1>2, <1>12

\* The fold of the community modules, once its iteration is written out, is the
\* sum.
LEMMA FoldIs ==
  ASSUME NEW S, IsFiniteSet(S), NEW g, \A x \in S : g[x] \in Int
  PROVE  /\ \E it : Iterates(it, g, S)
         /\ \A it : Iterates(it, g, S) => it[S] = SumOf(g, S)
<1>1. PICK h : Adds(h, g, S)
  BY AddsExists
<1>2. Iterates(h, g, S) /\ \A it : Iterates(it, g, S) => it = h
  BY <1>1, IteratesAdds
<1>3. SumOf(g, S) = h[S]
  BY <1>1, SumIs
<1> QED
  BY <1>2, <1>3

\* A sum does not see members that add nothing.
LEMMA SumWiden ==
  ASSUME NEW S, IsFiniteSet(S), NEW D \in SUBSET S, NEW f, NEW g,
         \A x \in D : f[x] \in Int /\ g[x] = f[x],
         \A x \in S \ D : g[x] = 0
  PROVE  SumOf(g, S) = SumOf(f, D)
<1> DEFINE same == [x \in S |-> x]
           E == S \ D
           none == [x \in S |-> 0]
<1>1. IsFiniteSet(D) /\ IsFiniteSet(E)
  BY FS_Subset
<1>2. SumOf(g, D) = SumOf(f, D)
  BY <1>1, SumSame
<1>3. SumOf(g, D \cup {same[y] : y \in E}) = SumOf(g, D) + SumOf(none, E)
  <2>1. \A x \in D : g[x] \in Int
    OBVIOUS
  <2>2. \A y \in E : same[y] \notin D /\ none[y] \in Int /\ g[same[y]] = none[y]
    OBVIOUS
  <2>3. \A y, z \in E : same[y] = same[z] => y = z
    OBVIOUS
  <2> HIDE DEF same, E, none
  <2> QED
    BY <1>1, <2>1, <2>2, <2>3, SumJoin
<1>4. D \cup {same[y] : y \in E} = S
  OBVIOUS
<1>5. SumOf(none, E) = 0
  <2>1. \A x \in E : none[x] = 0
    OBVIOUS
  <2> HIDE DEF E, none
  <2> QED
    BY <1>1, <2>1, SumZero
<1>6. SumOf(f, D) \in Int
  BY <1>1, SumFacts
<1> HIDE DEF same, E, none
<1>7. SumOf(g, S) = SumOf(g, D) + 0
  BY <1>3, <1>4, <1>5
<1> QED
  BY <1>2, <1>6, <1>7

\* The sum of the opposites.
LEMMA SumMinus ==
  ASSUME NEW S, IsFiniteSet(S), NEW f, NEW g, \A x \in S : f[x] \in Int /\ g[x] = -f[x]
  PROVE  SumOf(g, S) = 0 - SumOf(f, S) /\ SumOf(f, S) \in Int
<1> DEFINE zero == [x \in S |-> 0]
<1>1. \A x \in S : f[x] \in Int /\ g[x] \in Int /\ zero[x] = f[x] + g[x]
  OBVIOUS
<1>2. \A x \in S : zero[x] = 0
  OBVIOUS
<1> HIDE DEF zero
<1>3. SumOf(zero, S) = SumOf(f, S) + SumOf(g, S)
  BY <1>1, SumPlus
<1>4. SumOf(zero, S) = 0
  BY <1>2, SumZero
<1>5. SumOf(f, S) \in Int /\ SumOf(g, S) \in Int
  BY <1>1, SumFacts
<1> QED
  BY <1>3, <1>4, <1>5

\* Two sums over one set and two over another, member by member.
LEMMA SumsCompare ==
  ASSUME NEW A, IsFiniteSet(A), NEW B, IsFiniteSet(B), NEW p, NEW q, NEW u, NEW v,
         \A x \in A : p[x] \in Int /\ q[x] \in Int,
         \A x \in B : u[x] \in Int /\ v[x] \in Int,
         \A x \in A \cap B : p[x] + q[x] <= u[x] + v[x],
         \A x \in A \ B : p[x] + q[x] <= 0,
         \A x \in B \ A : 0 <= u[x] + v[x]
  PROVE  /\ SumOf(p, A) + SumOf(q, A) <= SumOf(u, B) + SumOf(v, B)
         /\ SumOf(p, A) \in Int /\ SumOf(q, A) \in Int
         /\ SumOf(u, B) \in Int /\ SumOf(v, B) \in Int
<1> DEFINE S == A \cup B
           low == [x \in A |-> p[x] + q[x]]
           high == [x \in B |-> u[x] + v[x]]
           lower == [x \in S |-> IF x \in A THEN p[x] + q[x] ELSE 0]
           upper == [x \in S |-> IF x \in B THEN u[x] + v[x] ELSE 0]
<1>1. IsFiniteSet(S) /\ A \in SUBSET S /\ B \in SUBSET S
  BY FS_Union
<1>2. SumOf(low, A) = SumOf(p, A) + SumOf(q, A)
  <2>1. \A x \in A : p[x] \in Int /\ q[x] \in Int /\ low[x] = p[x] + q[x]
    OBVIOUS
  <2> HIDE DEF low
  <2> QED
    BY <2>1, SumPlus
<1>3. SumOf(high, B) = SumOf(u, B) + SumOf(v, B)
  <2>1. \A x \in B : u[x] \in Int /\ v[x] \in Int /\ high[x] = u[x] + v[x]
    OBVIOUS
  <2> HIDE DEF high
  <2> QED
    BY <2>1, SumPlus
<1>4. SumOf(lower, S) = SumOf(low, A)
  <2>1. \A x \in A : low[x] \in Int /\ lower[x] = low[x]
    OBVIOUS
  <2>2. \A x \in S \ A : lower[x] = 0
    OBVIOUS
  <2> HIDE DEF low, lower, S
  <2> QED
    BY <1>1, <2>1, <2>2, SumWiden
<1>5. SumOf(upper, S) = SumOf(high, B)
  <2>1. \A x \in B : high[x] \in Int /\ upper[x] = high[x]
    OBVIOUS
  <2>2. \A x \in S \ B : upper[x] = 0
    OBVIOUS
  <2> HIDE DEF high, upper, S
  <2> QED
    BY <1>1, <2>1, <2>2, SumWiden
<1>6. SumOf(lower, S) <= SumOf(upper, S)
  <2>1. ASSUME NEW x \in S
        PROVE  lower[x] \in Int /\ upper[x] \in Int /\ lower[x] <= upper[x]
    <3>1. CASE x \in A \cap B
      BY <3>1
    <3>2. CASE x \in A \ B
      BY <3>2
    <3>3. CASE x \in B \ A
      BY <3>3
    <3> QED
      BY <3>1, <3>2, <3>3
  <2> HIDE DEF lower, upper, S
  <2> QED
    BY <1>1, <2>1, SumAtMost
<1>7. /\ SumOf(p, A) \in Int /\ SumOf(q, A) \in Int
      /\ SumOf(u, B) \in Int /\ SumOf(v, B) \in Int
  BY SumFacts
<1> QED
  BY <1>2, <1>3, <1>4, <1>5, <1>6, <1>7

\* The members of an interval, and the components of a pair.
LEMMA CountTo == \A n \in Nat : Cardinality(1 .. n) = n
<1> SUFFICES ASSUME NEW n \in Nat PROVE Cardinality(1 .. n) = n
  OBVIOUS
<1>1. Cardinality(1 .. n) = IF 1 > n THEN 0 ELSE n - 1 + 1
  BY FS_Interval
<1> QED
  BY <1>1

LEMMA CountTwo == \A a, b : DOMAIN <<a, b>> = 1 .. 2 /\ Cardinality(DOMAIN <<a, b>>) = 2
<1> SUFFICES ASSUME NEW a, NEW b
             PROVE  DOMAIN <<a, b>> = 1 .. 2 /\ Cardinality(DOMAIN <<a, b>>) = 2
  OBVIOUS
<1>1. DOMAIN <<a, b>> = 1 .. 2
  OBVIOUS
<1>2. Cardinality(1 .. 2) = 2
  BY CountTo
<1> QED
  BY <1>1, <1>2

\* A sum stays within its bounds when both move with what is yet to come.
LEMMA WithinMoves ==
  ASSUME NEW o \in Int, NEW u \in Int, NEW d \in Int, NEW s \in Int, NEW D \in Int,
         NEW U \in Int, NEW N \in Int, NEW D1 \in Int, NEW U1 \in Int, NEW N1 \in Int,
         D1 + U <= U1 + D, D + N <= N1 + D1, o + u - N <= s + D, s + D <= o + U - d
  PROVE  o + u - N1 <= s + D1 /\ s + D1 <= o + U1 - d
OBVIOUS
=============================================================================
