-------------------------- MODULE FiscalClose_proofs --------------------------
(***************************************************************************)
(* Proofs about the review of a candidate, from anywhere and from a close's*)
(* package, about the monthly close and its engines, about the findings    *)
(* on a candidate and about the annual declaration, for every list of      *)
(* required systems, all books, people, scopes, months of the year and     *)
(* materiality inputs and for all thresholds and rates.                    *)
(*                                                                         *)
(* The invariant of the review adds one fact to the properties the runs    *)
(* check: a snapshot that is not decided has no review yet. Without it a   *)
(* decision could add a second review, and the dual-approval blocker of an *)
(* R3 candidate could go away. What a close packages satisfies it. The     *)
(* invariant of the close says that a complete package is what its books   *)
(* make of its scope; that of the year, what each figure was computed of.  *)
(***************************************************************************)
EXTENDS FiscalClose, FiniteSetTheorems, SequenceTheorems, TLAPS

-----------------------------------------------------------------------------
(* Induction, with sets in the place of predicates *)

\* A set of numbers that is not empty has a first one.
LEMMA FirstExists ==
  ASSUME NEW S \in SUBSET Nat, S # {}
  PROVE  \E i \in S : \A j \in S : i <= j
<1>1. \E i \in S : \A j \in S : ~(<<j, i>> \in OpToRel(<, Nat))
  BY NatLessThanWellFounded, WFMin, Zenon
<1>2. PICK i \in S : \A j \in S : ~(<<j, i>> \in OpToRel(<, Nat))
  BY <1>1
<1>3. \A j \in S : ~(j < i)
  BY <1>2 DEF OpToRel
<1>. QED
  BY <1>3

\* A set that holds zero, and with a number the next one, holds all.
LEMMA NumbersFrom ==
  ASSUME NEW P, 0 \in P, \A n \in Nat : n \in P => n + 1 \in P
  PROVE  Nat \subseteq P
<1>1. ASSUME Nat \ P # {}
      PROVE  FALSE
  <2>1. PICK i \in Nat \ P : \A j \in Nat \ P : i <= j
    BY <1>1, FirstExists
  <2>2. i - 1 \in Nat /\ i - 1 \notin Nat \ P
    BY <2>1
  <2>. QED BY <2>1, <2>2
<1>. QED
  BY <1>1

\* A set of sets that holds the empty one, and every other subset of S with the
\* same without some element, holds all subsets of a finite S.
LEMMA SubsetsFrom ==
  ASSUME NEW S, IsFiniteSet(S), NEW P, {} \in P,
         \A s \in SUBSET S : s # {} => \E x \in s : s \ {x} \in P => s \in P
  PROVE  SUBSET S \subseteq P
<1>. DEFINE Q == {n \in Nat : \A s \in SUBSET S : Cardinality(s) = n => s \in P}
<1>1. \A s \in SUBSET S : IsFiniteSet(s) /\ Cardinality(s) \in Nat
  BY FS_Subset, FS_CardinalityType
<1>2. 0 \in Q
  BY <1>1, FS_EmptySet
<1>3. ASSUME NEW n \in Nat, n \in Q
      PROVE  n + 1 \in Q
  <2>1. ASSUME NEW s \in SUBSET S, Cardinality(s) = n + 1
        PROVE  s \in P
    <3>1. Cardinality(s) # 0
      BY <2>1
    <3>2. s # {}
      BY <3>1, FS_EmptySet
    <3>3. PICK x \in s : s \ {x} \in P => s \in P
      BY <3>2
    <3>4. Cardinality(s \ {x}) = Cardinality(s) - 1
      BY <1>1, FS_RemoveElement
    <3>5. PICK t : t = s \ {x}
      OBVIOUS
    <3>6. t \in SUBSET S /\ Cardinality(t) = n
      BY <2>1, <3>4, <3>5
    <3>. QED BY <1>3, <3>3, <3>5, <3>6
  <2>. QED BY <2>1
<1>4. Nat \subseteq Q
  <2>. HIDE DEF Q
  <2>. QED BY <1>2, <1>3, NumbersFrom
<1>. QED
  BY <1>1, <1>4

-----------------------------------------------------------------------------
(* Sums *)

\* g is the sum of f over every subset of S.
Sums(g, f, S) ==
  /\ \A x \in S : f[x] \in Int
  /\ g \in [SUBSET S -> Int]
  /\ g[{}] = 0
  /\ \A s \in SUBSET S : \A x \in s : g[s] = f[x] + g[s \ {x}]

LEMMA SumsAdd ==
  ASSUME NEW f, NEW s, NEW x, x \notin s, f[x] \in Int, NEW g, Sums(g, f, s)
  PROVE  \E h : Sums(h, f, s \union {x})
<1>. DEFINE S == s \union {x}
            h == [t \in SUBSET S |-> IF x \in t THEN f[x] + g[t \ {x}] ELSE g[t]]
<1>1. \A t \in SUBSET S : t \ {x} \in SUBSET s /\ (x \notin t => t \in SUBSET s)
  OBVIOUS
<1>2. h \in [SUBSET S -> Int]
  BY <1>1 DEF Sums
<1>3. h[{}] = 0
  BY DEF Sums
<1>4. ASSUME NEW t \in SUBSET S, NEW y \in t
      PROVE  h[t] = f[y] + h[t \ {y}]
  <2>1. h[t] = IF x \in t THEN f[x] + g[t \ {x}] ELSE g[t]
    OBVIOUS
  <2>2. h[t \ {y}] = IF x \in t \ {y} THEN f[x] + g[(t \ {y}) \ {x}] ELSE g[t \ {y}]
    OBVIOUS
  <2>3. CASE y = x
    BY <2>1, <2>2, <2>3
  <2>4. CASE y # x /\ x \notin t
    BY <1>1, <2>1, <2>2, <2>4 DEF Sums
  <2>5. CASE y # x /\ x \in t
    <3>1. PICK u : u = t \ {x}
      OBVIOUS
    <3>2. u \in SUBSET s /\ y \in u /\ u \ {y} = (t \ {y}) \ {x}
      BY <1>1, <2>5, <3>1
    <3>3. g[u] = f[y] + g[u \ {y}] /\ g[u \ {y}] \in Int /\ g[u] \in Int
      BY <3>2 DEF Sums
    <3>4. h[t] = f[x] + g[u] /\ h[t \ {y}] = f[x] + g[u \ {y}]
      BY <2>1, <2>2, <2>5, <3>1, <3>2
    <3>5. f[y] \in Int
      BY <3>2 DEF Sums
    <3>. QED BY <3>3, <3>4, <3>5
  <2>. QED BY <2>3, <2>4, <2>5
<1>5. \A y \in S : f[y] \in Int
  BY DEF Sums
<1>. HIDE DEF h
<1>. QED
  BY <1>2, <1>3, <1>4, <1>5 DEF Sums

LEMMA SumsExist ==
  ASSUME NEW S, IsFiniteSet(S), NEW f, \A x \in S : f[x] \in Int
  PROVE  \E g : Sums(g, f, S)
<1>. DEFINE P == {s \in SUBSET S : \E g : Sums(g, f, s)}
<1>1. {} \in P
  <2>1. Sums([s \in SUBSET {} |-> 0], f, {})
    BY DEF Sums
  <2>. QED BY <2>1
<1>2. ASSUME NEW s \in SUBSET S, NEW x \in s, s \ {x} \in P
      PROVE  s \in P
  <2>1. PICK g : Sums(g, f, s \ {x})
    BY <1>2
  <2>2. PICK t : t = s \ {x}
    OBVIOUS
  <2>3. s = t \union {x} /\ x \notin t /\ f[x] \in Int /\ Sums(g, f, t)
    BY <2>1, <2>2
  <2>4. PICK u : u = t \union {x} /\ \E h : Sums(h, f, u)
    BY <2>3, SumsAdd
  <2>5. u = s
    BY <2>3, <2>4
  <2>. QED BY <2>4, <2>5
<1>3. SUBSET S \subseteq P
  <2>1. \A s \in SUBSET S : s # {} => \E x \in s : s \ {x} \in P => s \in P
    BY <1>2
  <2>. HIDE DEF P
  <2>. QED BY <1>1, <2>1, SubsetsFrom
<1>. QED
  BY <1>3

\* SumFunction is that sum of all values.
LEMMA SumIsFunction ==
  ASSUME NEW S, IsFiniteSet(S), NEW f \in [S -> Int]
  PROVE  \E g : Sums(g, f, S) /\ SumFunction(f) = g[S]
<1>1. PICK g : Sums(g, f, S)
  BY SumsExist
<1>. DEFINE Folds(h) == h = [s \in SUBSET S |->
                             IF s = {} THEN 0
                             ELSE f[CHOOSE x \in s : TRUE] + h[s \ {CHOOSE x \in s : TRUE}]]
<1>2. Folds(g)
  <2>1. g = [s \in SUBSET S |-> g[s]]
    BY <1>1 DEF Sums
  <2>2. ASSUME NEW s \in SUBSET S
        PROVE  g[s] = IF s = {} THEN 0
                      ELSE f[CHOOSE x \in s : TRUE] + g[s \ {CHOOSE x \in s : TRUE}]
    <3>1. CASE s = {}
      BY <1>1, <3>1 DEF Sums
    <3>2. CASE s # {}
      <4>1. PICK x : x = CHOOSE y \in s : TRUE
        OBVIOUS
      <4>2. x \in s
        BY <3>2, <4>1
      <4>3. g[s] = f[x] + g[s \ {x}]
        BY <1>1, <4>2 DEF Sums
      <4>. QED BY <3>2, <4>1, <4>3
    <3>. QED BY <3>1, <3>2
  <2>. QED BY <2>1, <2>2
<1>3. PICK h : h = CHOOSE iter : Folds(iter)
  OBVIOUS
<1>4. Folds(h)
  <2>. HIDE DEF Folds
  <2>. QED BY <1>2, <1>3, Zenon
<1>5. SumFunction(f) = h[S]
  BY <1>3 DEF SumFunction, SumFunctionOnSet, FoldFunctionOnSet, MapThenFoldSet
<1>6. \A s \in SUBSET S : h[s] = g[s]
  <2>. DEFINE P == {s \in SUBSET S : h[s] = g[s]}
  <2>1. {} \in P
    BY <1>1, <1>4 DEF Sums
  <2>2. ASSUME NEW s \in SUBSET S, s # {}
        PROVE  \E x \in s : s \ {x} \in P => s \in P
    <3>1. PICK x : x = CHOOSE y \in s : TRUE
      OBVIOUS
    <3>2. x \in s /\ s \ {x} \in SUBSET S
      BY <2>2, <3>1
    <3>3. h[s] = f[x] + h[s \ {x}]
      BY <1>4, <2>2, <3>1
    <3>4. g[s] = f[x] + g[s \ {x}]
      BY <1>1, <3>2 DEF Sums
    <3>. QED BY <3>2, <3>3, <3>4
  <2>3. SUBSET S \subseteq P
    <3>. HIDE DEF P
    <3>. QED BY <2>1, <2>2, SubsetsFrom
  <2>. QED BY <2>3
<1>. QED
  BY <1>1, <1>5, <1>6

\* Two functions that agree on T have the same sum there.
LEMMA SumsAgree ==
  ASSUME NEW S, NEW T \in SUBSET S, IsFiniteSet(T), NEW f, NEW e, \A x \in T : e[x] = f[x],
         NEW g, Sums(g, f, S), NEW h, Sums(h, e, T)
  PROVE  h[T] = g[T]
<1>. DEFINE P == {s \in SUBSET T : h[s] = g[s]}
<1>1. {} \in P
  BY DEF Sums
<1>2. ASSUME NEW s \in SUBSET T, s # {}
      PROVE  \E x \in s : s \ {x} \in P => s \in P
  <2>1. PICK x \in s : TRUE
    BY <1>2
  <2>2. h[s] = e[x] + h[s \ {x}] /\ g[s] = f[x] + g[s \ {x}]
    BY DEF Sums
  <2>. QED BY <2>2
<1>3. SUBSET T \subseteq P
  <2>. HIDE DEF P
  <2>. QED BY <1>1, <1>2, SubsetsFrom
<1>. QED
  BY <1>3

-----------------------------------------------------------------------------
\* The sum of f over s.
Part(f, s) == SumFunction([x \in s |-> f[x]])

\* Sums over the subsets of a finite set add up element by element.
LEMMA PartSums ==
  ASSUME NEW S, IsFiniteSet(S), NEW f, \A x \in S : f[x] \in Int
  PROVE  /\ Part(f, {}) = 0
         /\ \A s \in SUBSET S : Part(f, s) \in Int
         /\ \A s \in SUBSET S : \A x \in s : Part(f, s) = f[x] + Part(f, s \ {x})
<1>1. PICK g : Sums(g, f, S)
  BY SumsExist
<1>2. ASSUME NEW s \in SUBSET S
      PROVE  Part(f, s) = g[s]
  <2>1. IsFiniteSet(s)
    BY FS_Subset
  <2>2. PICK e : e = [x \in s |-> f[x]]
    OBVIOUS
  <2>3. e \in [s -> Int] /\ \A x \in s : e[x] = f[x]
    BY <2>2
  <2>4. PICK h : Sums(h, e, s) /\ SumFunction(e) = h[s]
    BY <2>1, <2>3, SumIsFunction
  <2>5. h[s] = g[s]
    BY <1>1, <2>1, <2>3, <2>4, SumsAgree
  <2>. QED BY <2>2, <2>4, <2>5 DEF Part
<1>. QED
  BY <1>1, <1>2 DEF Sums

\* Summands that are zero outside T do not count.
LEMMA PartSupport ==
  ASSUME NEW S, IsFiniteSet(S), NEW f, \A x \in S : f[x] \in Int,
         NEW T \in SUBSET S, \A x \in S \ T : f[x] = 0
  PROVE  Part(f, S) = Part(f, T)
<1>0. PICK R : R = S \ T
  OBVIOUS
<1>. DEFINE P == {s \in SUBSET R : Part(f, T \union s) = Part(f, T)}
<1>1. {} \in P
  <2>1. T \union {} = T
    OBVIOUS
  <2>. QED BY <2>1
<1>2. ASSUME NEW s \in SUBSET R, NEW x \in s, s \ {x} \in P
      PROVE  s \in P
  <2>1. PICK u : u = T \union s
    OBVIOUS
  <2>2. u \in SUBSET S /\ x \in u /\ u \ {x} = T \union (s \ {x}) /\ f[x] = 0
    BY <1>0, <2>1
  <2>3. Part(f, u) = f[x] + Part(f, u \ {x}) /\ Part(f, u) \in Int /\ Part(f, u \ {x}) \in Int
    BY <2>2, PartSums
  <2>4. Part(f, u \ {x}) = Part(f, T)
    BY <1>2, <2>2
  <2>. QED BY <2>1, <2>2, <2>3, <2>4
<1>3. SUBSET R \subseteq P
  <2>1. \A s \in SUBSET R : s # {} => \E x \in s : s \ {x} \in P => s \in P
    BY <1>2
  <2>2. IsFiniteSet(R)
    BY <1>0, FS_Difference
  <2>. HIDE DEF P
  <2>. QED BY <1>1, <2>1, <2>2, SubsetsFrom
<1>4. T \union R = S /\ R \in P
  BY <1>0, <1>3
<1>. QED
  BY <1>4

\* The sum of differences is the difference of the sums.
LEMMA PartDifference ==
  ASSUME NEW S, IsFiniteSet(S), NEW d, NEW e, NEW f,
         \A x \in S : e[x] \in Int /\ f[x] \in Int /\ d[x] = e[x] - f[x]
  PROVE  Part(d, S) = Part(e, S) - Part(f, S)
<1>. DEFINE P == {s \in SUBSET S : Part(d, s) = Part(e, s) - Part(f, s)}
<1>0. \A x \in S : d[x] \in Int
  OBVIOUS
<1>1. {} \in P
  BY <1>0, PartSums
<1>2. ASSUME NEW s \in SUBSET S, NEW x \in s, s \ {x} \in P
      PROVE  s \in P
  <2>1. PICK t : t = s \ {x}
    OBVIOUS
  <2>2. t \in SUBSET S /\ Part(d, t) = Part(e, t) - Part(f, t)
    BY <1>2, <2>1
  <2>3. Part(d, s) = d[x] + Part(d, t) /\ Part(d, t) \in Int
    BY <1>0, <2>1, <2>2, PartSums
  <2>4. Part(e, s) = e[x] + Part(e, t) /\ Part(e, t) \in Int
    BY <2>1, <2>2, PartSums
  <2>5. Part(f, s) = f[x] + Part(f, t) /\ Part(f, t) \in Int
    BY <2>1, <2>2, PartSums
  <2>. QED BY <2>2, <2>3, <2>4, <2>5
<1>3. SUBSET S \subseteq P
  <2>1. \A s \in SUBSET S : s # {} => \E x \in s : s \ {x} \in P => s \in P
    BY <1>2
  <2>. HIDE DEF P
  <2>. QED BY <1>1, <2>1, SubsetsFrom
<1>. QED
  BY <1>3

LEMMA PartOpposite ==
  ASSUME NEW S, IsFiniteSet(S), NEW e, NEW f, \A x \in S : f[x] \in Int /\ e[x] = -f[x]
  PROVE  Part(e, S) = -Part(f, S) /\ Part(f, S) \in Int
<1>1. PICK z : z = [x \in S |-> 0]
  OBVIOUS
<1>2. {} \in SUBSET S /\ \A x \in S : z[x] = 0
  BY <1>1
<1>3. Part(z, S) = Part(z, {}) /\ Part(z, {}) = 0
  BY <1>2, PartSupport, PartSums
<1>4. Part(e, S) = Part(z, S) - Part(f, S)
  BY <1>2, PartDifference
<1>5. Part(f, S) \in Int
  BY PartSums
<1>. QED
  BY <1>3, <1>4, <1>5

\* e takes over T the values f takes over S, one to one.
Renumbers(e, T, f, S) ==
  \E at \in [T -> S] : /\ \A m, n \in T : at[m] = at[n] => m = n
                       /\ \A x \in S : \E n \in T : at[n] = x
                       /\ \A n \in T : e[n] = f[at[n]]

\* A sum does not change when its summands are numbered otherwise, one to one.
LEMMA PartRenumbered ==
  ASSUME NEW T, NEW S, NEW e, NEW f, IsFiniteSet(T), IsFiniteSet(S),
         \A x \in S : f[x] \in Int, Renumbers(e, T, f, S)
  PROVE  Part(e, T) = Part(f, S)
<1>9. PICK at \in [T -> S] : /\ \A m, n \in T : at[m] = at[n] => m = n
                             /\ \A x \in S : \E n \in T : at[n] = x
                             /\ \A n \in T : e[n] = f[at[n]]
  BY DEF Renumbers
<1>8. \A n \in T : at[n] \in S
  BY <1>9
<1>. DEFINE Image(t) == {at[n] : n \in t}
            P == {t \in SUBSET T : Part(e, t) = Part(f, Image(t))}
<1>0. \A n \in T : e[n] \in Int
  BY <1>8, <1>9
<1>1. {} \in P
  <2>1. Image({}) = {}
    OBVIOUS
  <2>2. Part(e, {}) = 0
    BY <1>0, PartSums
  <2>3. Part(f, {}) = 0
    BY PartSums
  <2>. QED BY <2>1, <2>2, <2>3
<1>2. ASSUME NEW t \in SUBSET T, NEW n \in t, t \ {n} \in P
      PROVE  t \in P
  <2>1. PICK u, a, b : u = t \ {n} /\ a = Image(t) /\ b = Image(u)
    OBVIOUS
  <2>2. u \in SUBSET T /\ Part(e, u) = Part(f, b)
    BY <1>2, <2>1
  <2>3. Part(e, t) = e[n] + Part(e, u)
    BY <1>0, <2>1, PartSums
  <2>4. a \in SUBSET S /\ at[n] \in a /\ b = a \ {at[n]} /\ e[n] = f[at[n]]
    BY <1>8, <1>9, <2>1
  <2>5. Part(f, a) = f[at[n]] + Part(f, b)
    BY <2>4, PartSums
  <2>. QED BY <2>1, <2>2, <2>3, <2>4, <2>5
<1>3. SUBSET T \subseteq P
  <2>1. \A t \in SUBSET T : t # {} => \E n \in t : t \ {n} \in P => t \in P
    BY <1>2
  <2>. HIDE DEF P
  <2>. QED BY <1>1, <2>1, SubsetsFrom
<1>4. Image(T) = S
  BY <1>8, <1>9
<1>. QED
  BY <1>3, <1>4

\* The elements of S whose key is at most that of x.
Upto(S, key, x) == {y \in S : key[y] <= key[x]}

\* Different keys rank the elements of a finite set from one to their number.
LEMMA Ranked ==
  ASSUME NEW S, IsFiniteSet(S), NEW key \in [S -> Int],
         \A x, y \in S : key[x] = key[y] => x = y
  PROVE  \E rank \in [S -> 1..Cardinality(S)] :
           /\ \A x \in S : rank[x] = Cardinality(Upto(S, key, x))
           /\ \A x, y \in S : key[x] < key[y] => rank[x] < rank[y]
           /\ \A x, y \in S : rank[x] = rank[y] => x = y
           /\ \A n \in 1..Cardinality(S) : \E x \in S : rank[x] = n
<1>. DEFINE N == Cardinality(S)
<1>1. N \in Nat
  BY FS_CardinalityType
<1>2. \A x \in S : Upto(S, key, x) \in SUBSET S /\ x \in Upto(S, key, x)
  BY DEF Upto
<1>3. ASSUME NEW x \in S
      PROVE  IsFiniteSet(Upto(S, key, x)) /\ Cardinality(Upto(S, key, x)) \in 1..N
  <2>1. PICK s : s = Upto(S, key, x)
    OBVIOUS
  <2>2. s \in SUBSET S /\ x \in s
    BY <1>2, <2>1
  <2>3. IsFiniteSet(s) /\ Cardinality(s) <= N
    BY <2>2, FS_Subset
  <2>4. Cardinality(s) \in Nat /\ Cardinality(s) # 0
    BY <2>2, <2>3, FS_CardinalityType, FS_EmptySet
  <2>. QED BY <1>1, <2>1, <2>3, <2>4
<1>4. ASSUME NEW x \in S, NEW y \in S, key[x] < key[y]
      PROVE  Cardinality(Upto(S, key, x)) < Cardinality(Upto(S, key, y))
  <2>1. PICK s, t : s = Upto(S, key, x) /\ t = Upto(S, key, y)
    OBVIOUS
  <2>2. IsFiniteSet(t) /\ y \in t /\ s \in SUBSET (t \ {y})
    BY <1>3, <1>4, <2>1 DEF Upto
  <2>3. IsFiniteSet(t \ {y}) /\ Cardinality(t \ {y}) = Cardinality(t) - 1
    BY <2>2, FS_RemoveElement
  <2>4. Cardinality(s) <= Cardinality(t \ {y})
    BY <2>2, <2>3, FS_Subset
  <2>5. Cardinality(s) \in Int /\ Cardinality(t) \in Int
    BY <1>3, <2>1
  <2>. QED BY <2>1, <2>3, <2>4, <2>5
<1>5. PICK rank : /\ rank \in [S -> 1..N]
                  /\ \A x \in S : rank[x] = Cardinality(Upto(S, key, x))
  <2>1. PICK r : r = [x \in S |-> Cardinality(Upto(S, key, x))]
    OBVIOUS
  <2>2. r \in [S -> 1..N] /\ \A x \in S : r[x] = Cardinality(Upto(S, key, x))
    BY <1>3, <2>1
  <2>. QED BY <2>2
<1>6. \A x, y \in S : key[x] < key[y] => rank[x] < rank[y]
  BY <1>4, <1>5
<1>7. \A x, y \in S : rank[x] = rank[y] => x = y
  <2>. SUFFICES ASSUME NEW x \in S, NEW y \in S, rank[x] = rank[y]
                PROVE  x = y
    OBVIOUS
  <2>1. rank[x] \in Int /\ rank[y] \in Int /\ key[x] \in Int /\ key[y] \in Int
    BY <1>1, <1>5
  <2>2. ~(key[x] < key[y]) /\ ~(key[y] < key[x])
    BY <1>6, <2>1
  <2>. QED BY <2>1, <2>2
<1>8. rank \in Surjection(S, 1..N)
  <2>1. rank \in Injection(S, 1..N)
    BY <1>5, <1>7 DEF Injection, IsInjective
  <2>2. IsFiniteSet(1..N) /\ Cardinality(1..N) = N
    BY <1>1, FS_Interval
  <2>. QED BY <2>1, <2>2, FS_Injection
<1>9. \A n \in 1..N : \E x \in S : rank[x] = n
  BY <1>8 DEF Surjection
<1>. QED
  BY <1>5, <1>6, <1>7, <1>9

\* Who takes the elements by their rank takes each of them once, in order.
LEMMA Enumerated ==
  ASSUME NEW S, IsFiniteSet(S), NEW key \in [S -> Int],
         \A x, y \in S : key[x] = key[y] => x = y
  PROVE  \E at \in [1..Cardinality(S) -> S] :
           /\ \A n \in 1..Cardinality(S) :
                Cardinality(Upto(S, key, at[n])) = n
           /\ \A n \in 1..Cardinality(S) : \A x \in S :
                Cardinality(Upto(S, key, x)) = n => x = at[n]
           /\ \A m, n \in 1..Cardinality(S) : at[m] = at[n] => m = n
           /\ \A x \in S : \E n \in 1..Cardinality(S) : at[n] = x
           /\ \A m, n \in 1..Cardinality(S) : m < n => key[at[m]] < key[at[n]]
<1>. DEFINE T == 1..Cardinality(S)
<1>1. PICK rank \in [S -> T] :
           /\ \A x \in S : rank[x] = Cardinality(Upto(S, key, x))
           /\ \A x, y \in S : key[x] < key[y] => rank[x] < rank[y]
           /\ \A x, y \in S : rank[x] = rank[y] => x = y
           /\ \A n \in T : \E x \in S : rank[x] = n
  BY Ranked
<1>2. PICK at \in [T -> S] : \A n \in T : rank[at[n]] = n
  <2>1. \A n \in T : (CHOOSE x \in S : rank[x] = n) \in S
                       /\ rank[CHOOSE x \in S : rank[x] = n] = n
    BY <1>1
  <2>2. [n \in T |-> CHOOSE x \in S : rank[x] = n] \in [T -> S]
    BY <2>1
  <2>. QED BY <2>1, <2>2
<1>3. \A m, n \in T : at[m] = at[n] => m = n
  BY <1>2
<1>4. \A n \in T : at[n] \in S
  BY <1>2
<1>5. \A x \in S : \E n \in T : at[n] = x
  BY <1>1, <1>2, <1>4
<1>6. \A m, n \in T : m < n => key[at[m]] < key[at[n]]
  <2>. SUFFICES ASSUME NEW m \in T, NEW n \in T, m < n
                PROVE  key[at[m]] < key[at[n]]
    OBVIOUS
  <2>1. PICK x, y \in S : x = at[m] /\ y = at[n]
    BY <1>4
  <2>2. rank[x] = m /\ rank[y] = n /\ m \in Int /\ n \in Int
    BY <1>2, <2>1
  <2>3. ~(key[y] < key[x]) /\ key[x] # key[y]
    BY <1>1, <2>2
  <2>4. key[x] \in Int /\ key[y] \in Int
    OBVIOUS
  <2>. QED BY <2>1, <2>3, <2>4
<1>7. /\ \A n \in T : Cardinality(Upto(S, key, at[n])) = n
      /\ \A n \in T : \A x \in S : Cardinality(Upto(S, key, x)) = n => x = at[n]
  BY <1>1, <1>2, <1>4
<1>. QED
  BY <1>3, <1>5, <1>6, <1>7

\* The sum of a function is the one over its domain.
LEMMA SumIsPart ==
  ASSUME NEW S, NEW f, f = [x \in S |-> f[x]]
  PROVE  SumFunction(f) = Part(f, S)
BY DEF Part

-----------------------------------------------------------------------------
(* The review of a candidate *)

Settled == {"accepted", "rejected"}

\* What a snapshot owes to the snapshot its proposal made.
DescendsFrom(c, o) ==
  /\ c.scope = o.scope /\ c.tier = o.tier
  /\ \/ c.corrections = <<>> /\ c.subject = o.subject
     \/ c.corrections = <<[from |-> o.subject, to |-> c.subject]>>

ReviewsFit(c) ==
  \/ c.reviews = <<>> /\ c.status \notin Settled
  \/ Len(c.reviews) = 1 /\ c.status \in Settled

ReviewInv ==
  /\ ReviewTypeOK
  /\ candidate # NoCandidate =>
       /\ origin # NoCandidate
       /\ DescendsFrom(candidate, origin)
       /\ ReviewsFit(candidate)
  /\ ReviewedWasInspected

-----------------------------------------------------------------------------
\* Every materiality input has a tier.
LEMMA TierOfAction ==
  ASSUME NEW a \in Action
  PROVE  DeriveMateriality(a) \in Tier
<1>1. BaseTier(a) \in Tier
  BY CandidateAssumption DEF Action, BaseTier, Tier
<1>. QED
  BY <1>1 DEF DeriveMateriality, Tier

\* A new proposal is a snapshot of the first version, without any history.
LEMMA ProposedIsFresh ==
  ASSUME NEW subject \in Subject, NEW scope \in Scope, NEW a \in Action
  PROVE  LET c == Proposed(subject, scope, a)
         IN  /\ c \in Candidate
             /\ c.subject = subject
             /\ c.status = "proposed"
             /\ DescendsFrom(c, c)
             /\ ReviewsFit(c)
<1>1. DeriveMateriality(a) \in Tier
  BY TierOfAction
<1>. QED
  BY <1>1 DEF Proposed, Candidate, CandidateStatus, DescendsFrom, ReviewsFit, Settled

\* A change of status keeps all but the status and the version.
LEMMA WithStatusKeeps ==
  ASSUME NEW c \in Candidate, NEW status \in CandidateStatus
  PROVE  LET d == WithStatus(c, status)
         IN  /\ d \in Candidate
             /\ d.status = status
             /\ d.subject = c.subject /\ d.scope = c.scope /\ d.tier = c.tier
             /\ d.reviews = c.reviews /\ d.corrections = c.corrections
<1>1. c.version + 1 \in Nat
  BY DEF Candidate
<1>2. PICK d : d = [c EXCEPT !.status = status, !.version = c.version + 1]
  OBVIOUS
<1>3. WithStatus(c, status) = d
  BY <1>2 DEF WithStatus
<1>4. /\ d \in Candidate
      /\ d.status = status
      /\ d.subject = c.subject /\ d.scope = c.scope /\ d.tier = c.tier
      /\ d.reviews = c.reviews /\ d.corrections = c.corrections
  BY <1>1, <1>2 DEF Candidate
<1>. QED
  BY <1>3, <1>4

\* A decision settles the candidate and records itself after the other reviews.
LEMMA DecidedRecords ==
  ASSUME NEW c \in Candidate, NEW verdict \in {"accept", "reject"}, NEW p \in Person
  PROVE  LET d == Decided(c, verdict, p)
         IN  /\ d \in Candidate
             /\ d.status \in Settled
             /\ d.subject = c.subject /\ d.scope = c.scope /\ d.tier = c.tier
             /\ d.corrections = c.corrections
             /\ Len(d.reviews) = Len(c.reviews) + 1
<1>. DEFINE status == IF verdict = "accept" THEN "accepted" ELSE "rejected"
            review == [verdict |-> verdict, reviewer |-> p]
            w == WithStatus(c, status)
<1>1. status \in CandidateStatus /\ status \in Settled
  BY DEF CandidateStatus, Settled
<1>2. /\ w \in Candidate /\ w.status = status
      /\ w.subject = c.subject /\ w.scope = c.scope /\ w.tier = c.tier
      /\ w.reviews = c.reviews /\ w.corrections = c.corrections
  <2>. HIDE DEF status
  <2>. QED BY <1>1, WithStatusKeeps
<1>3. review \in Review
  BY DEF Review
<1>4. /\ Append(w.reviews, review) \in Seq(Review)
      /\ Len(Append(w.reviews, review)) = Len(w.reviews) + 1
  <2>1. w.reviews \in Seq(Review)
    BY <1>2 DEF Candidate
  <2>. HIDE DEF w, review
  <2>. QED BY <1>3, <2>1
<1>5. Decided(c, verdict, p) = [w EXCEPT !.reviews = Append(@, review)]
  BY DEF Decided
<1>. HIDE DEF w, review, status
<1>. QED
  BY <1>1, <1>2, <1>4, <1>5 DEF Candidate

\* A correction puts other bytes in the place of the subject and records both.
LEMMA CorrectedRecords ==
  ASSUME NEW c \in Candidate, NEW bytes \in Subject, c.corrections = <<>>
  PROVE  LET d == Corrected(c, bytes)
         IN  /\ d \in Candidate
             /\ d.status = "corrected"
             /\ d.subject = bytes /\ d.scope = c.scope /\ d.tier = c.tier
             /\ d.reviews = c.reviews
             /\ d.corrections = <<[from |-> c.subject, to |-> bytes]>>
<1>. DEFINE w == WithStatus(c, "corrected")
            record == [from |-> c.subject, to |-> bytes]
<1>1. /\ w \in Candidate /\ w.status = "corrected"
      /\ w.scope = c.scope /\ w.tier = c.tier
      /\ w.reviews = c.reviews /\ w.corrections = <<>>
  BY WithStatusKeeps DEF CandidateStatus
<1>2. record \in Correction
  BY DEF Correction, Candidate
<1>3. Corrected(c, bytes)
        = [w EXCEPT !.subject = bytes, !.corrections = Append(@, record)]
  BY DEF Corrected
<1>4. Append(w.corrections, record) = <<record>> /\ <<record>> \in Seq(Correction)
  <2>. HIDE DEF w, record
  <2>. QED BY <1>1, <1>2
<1>5. PICK d : d = [w EXCEPT !.subject = bytes, !.corrections = <<record>>]
  OBVIOUS
<1>6. Corrected(c, bytes) = d
  <2>. HIDE DEF w, record
  <2>. QED BY <1>1, <1>3, <1>4, <1>5
<1>7. /\ d \in Candidate
      /\ d.status = "corrected"
      /\ d.subject = bytes /\ d.scope = c.scope /\ d.tier = c.tier
      /\ d.reviews = c.reviews
      /\ d.corrections = <<record>>
  <2>. HIDE DEF w, record
  <2>. QED BY <1>1, <1>4, <1>5 DEF Candidate
<1>. QED
  BY <1>6, <1>7

-----------------------------------------------------------------------------
(* The invariant, one lemma per operation *)

\* A snapshot in review is not the missing one, and has the right type.
LEMMA InReview ==
  ASSUME ReviewInv, candidate # NoCandidate
  PROVE  /\ candidate \in Candidate /\ origin \in Candidate
         /\ DescendsFrom(candidate, origin) /\ ReviewsFit(candidate)
         /\ origin # NoCandidate
BY DEF ReviewInv, ReviewTypeOK

\* Taking up a new proposal starts from a history of its own.
LEMMA TakeUpKeeps ==
  ASSUME NEW c \in Candidate, c.status = "proposed", DescendsFrom(c, c), ReviewsFit(c),
         TakeUp(c)
  PROVE  ReviewInv'
BY ReviewAssumption DEF TakeUp, ReviewInv, ReviewTypeOK, ReviewedWasInspected

\* The fiscal flow inspects the bytes it has proposed.
LEMMA OrderKeeps ==
  ASSUME NEW subject \in Subject, NEW scope \in Scope, NEW action \in Action,
         Order(subject, scope, action)
  PROVE  ReviewInv'
<1>1. PICK o : o = Proposed(subject, scope, action)
  OBVIOUS
<1>2. /\ o \in Candidate /\ o.subject = subject /\ o.status = "proposed"
      /\ DescendsFrom(o, o) /\ ReviewsFit(o)
  BY <1>1, ProposedIsFresh
<1>3. PICK d : d = WithStatus(o, "inspected")
  OBVIOUS
<1>4. /\ d \in Candidate /\ d.status = "inspected"
      /\ d.subject = o.subject /\ d.scope = o.scope /\ d.tier = o.tier
      /\ d.reviews = o.reviews /\ d.corrections = o.corrections
  BY <1>2, <1>3, WithStatusKeeps DEF CandidateStatus
<1>5. candidate' = d /\ origin' = o /\ inspected' = {subject}
  BY <1>1, <1>3 DEF Order
<1>6. DescendsFrom(d, o) /\ ReviewsFit(d)
  BY <1>2, <1>4 DEF DescendsFrom, ReviewsFit, Settled
<1>. QED
  BY <1>2, <1>4, <1>5, <1>6, ReviewAssumption
  DEF ReviewInv, ReviewTypeOK, ReviewedWasInspected

LEMMA InspectKeeps ==
  ASSUME ReviewInv, candidate # NoCandidate,
         NEW bytes \in Bytes \union {candidate.subject}, Inspect(bytes)
  PROVE  ReviewInv'
<1>1. /\ candidate \in Candidate /\ origin \in Candidate /\ origin # NoCandidate
      /\ DescendsFrom(candidate, origin) /\ ReviewsFit(candidate)
  BY InReview
<1>2. PICK d : d = WithStatus(candidate, "inspected")
  OBVIOUS
<1>3. /\ d \in Candidate /\ d.status = "inspected" /\ d.subject = candidate.subject
      /\ d.scope = candidate.scope /\ d.tier = candidate.tier
      /\ d.reviews = candidate.reviews /\ d.corrections = candidate.corrections
  BY <1>1, <1>2, WithStatusKeeps DEF CandidateStatus
<1>4. /\ candidate.status \in {"proposed", "corrected"} /\ bytes = candidate.subject
      /\ candidate' = d /\ origin' = origin /\ inspected' = inspected \union {bytes}
  BY <1>2 DEF Inspect, Inspectable
<1>5. DescendsFrom(d, origin) /\ ReviewsFit(d)
  BY <1>1, <1>3, <1>4 DEF DescendsFrom, ReviewsFit, Settled
<1>6. bytes \in Subject
  BY <1>1, <1>4 DEF Candidate
<1>. QED
  BY <1>1, <1>3, <1>4, <1>5, <1>6 DEF ReviewInv, ReviewTypeOK, ReviewedWasInspected

LEMMA SubmitKeeps ==
  ASSUME ReviewInv, SubmitForReview
  PROVE  ReviewInv'
<1>1. /\ candidate \in Candidate /\ origin \in Candidate /\ origin # NoCandidate
      /\ DescendsFrom(candidate, origin) /\ ReviewsFit(candidate)
  BY InReview DEF SubmitForReview
<1>2. PICK d : d = WithStatus(candidate, "reviewing")
  OBVIOUS
<1>3. /\ d \in Candidate /\ d.status = "reviewing" /\ d.subject = candidate.subject
      /\ d.scope = candidate.scope /\ d.tier = candidate.tier
      /\ d.reviews = candidate.reviews /\ d.corrections = candidate.corrections
  BY <1>1, <1>2, WithStatusKeeps DEF CandidateStatus
<1>4. /\ candidate # NoCandidate /\ candidate.status = "inspected"
      /\ candidate' = d /\ origin' = origin /\ inspected' = inspected
  BY <1>2 DEF SubmitForReview
<1>5. DescendsFrom(d, origin) /\ ReviewsFit(d)
  BY <1>1, <1>3, <1>4 DEF DescendsFrom, ReviewsFit, Settled
<1>6. d.subject \in inspected
  BY <1>3, <1>4 DEF ReviewInv, ReviewedWasInspected
<1>. QED
  BY <1>1, <1>3, <1>4, <1>5, <1>6 DEF ReviewInv, ReviewTypeOK, ReviewedWasInspected

LEMMA DecideKeeps ==
  ASSUME ReviewInv, NEW verdict \in {"accept", "reject"}, NEW p \in Person,
         Decide(verdict, p)
  PROVE  ReviewInv'
<1>1. /\ candidate \in Candidate /\ origin \in Candidate /\ origin # NoCandidate
      /\ DescendsFrom(candidate, origin) /\ ReviewsFit(candidate)
  BY InReview DEF Decide
<1>2. PICK d : d = Decided(candidate, verdict, p)
  OBVIOUS
<1>3. /\ d \in Candidate /\ d.status \in Settled /\ d.subject = candidate.subject
      /\ d.scope = candidate.scope /\ d.tier = candidate.tier
      /\ d.corrections = candidate.corrections
      /\ Len(d.reviews) = Len(candidate.reviews) + 1
  BY <1>1, <1>2, DecidedRecords
<1>4. /\ candidate # NoCandidate /\ candidate.status = "reviewing"
      /\ candidate' = d /\ origin' = origin /\ inspected' = inspected
  BY <1>2 DEF Decide, Decidable
<1>5. candidate.reviews = <<>>
  BY <1>1, <1>4 DEF ReviewsFit, Settled
<1>6. DescendsFrom(d, origin) /\ ReviewsFit(d)
  <2>1. Len(d.reviews) = 1
    BY <1>3, <1>5
  <2>. QED BY <2>1, <1>1, <1>3 DEF DescendsFrom, ReviewsFit
<1>7. d.subject \in inspected
  BY <1>3, <1>4 DEF ReviewInv, ReviewedWasInspected
<1>. QED
  BY <1>1, <1>3, <1>4, <1>6, <1>7 DEF ReviewInv, ReviewTypeOK, ReviewedWasInspected

LEMMA CorrectKeeps ==
  ASSUME ReviewInv, NEW bytes \in Bytes, Correct(bytes)
  PROVE  ReviewInv'
<1>1. /\ candidate \in Candidate /\ origin \in Candidate /\ origin # NoCandidate
      /\ DescendsFrom(candidate, origin) /\ ReviewsFit(candidate)
  BY InReview DEF Correct
<1>2. PICK d : d = Corrected(candidate, bytes)
  OBVIOUS
<1>3. /\ candidate # NoCandidate /\ candidate.status = "reviewing"
      /\ candidate.corrections = <<>>
      /\ candidate' = d /\ origin' = origin /\ inspected' = inspected
  BY <1>2 DEF Correct, Correctable, Decidable
<1>4. /\ d \in Candidate /\ d.status = "corrected" /\ d.subject = bytes
      /\ d.scope = candidate.scope /\ d.tier = candidate.tier
      /\ d.reviews = candidate.reviews
      /\ d.corrections = <<[from |-> candidate.subject, to |-> bytes]>>
  BY <1>1, <1>2, <1>3, CorrectedRecords, ReviewAssumption
<1>5. candidate.subject = origin.subject
  BY <1>1, <1>3 DEF DescendsFrom
<1>6. DescendsFrom(d, origin) /\ ReviewsFit(d)
  BY <1>1, <1>3, <1>4, <1>5 DEF DescendsFrom, ReviewsFit, Settled
<1>. QED
  BY <1>1, <1>3, <1>4, <1>6 DEF ReviewInv, ReviewTypeOK, ReviewedWasInspected

\* No operation of the life cycle breaks the invariant.
LEMMA ReviewStepKeeps ==
  ASSUME ReviewInv, [ReviewNext]_reviewVars
  PROVE  ReviewInv'
<1>1. CASE UNCHANGED reviewVars
  BY <1>1 DEF reviewVars, ReviewInv, ReviewTypeOK, ReviewedWasInspected
<1>2. ASSUME NEW subject \in Bytes, NEW scope \in Scope, NEW action \in ProposedAction,
             Propose(subject, scope, action)
      PROVE  ReviewInv'
  <2>1. PICK c : c = Proposed(subject, scope, action)
    OBVIOUS
  <2>2. subject \in Subject /\ action \in Action
    BY ReviewAssumption
  <2>3. /\ c \in Candidate /\ c.status = "proposed"
        /\ DescendsFrom(c, c) /\ ReviewsFit(c)
    BY <2>1, <2>2, ProposedIsFresh
  <2>4. TakeUp(c)
    BY <1>2, <2>1 DEF Propose
  <2>. QED BY <2>3, <2>4, TakeUpKeeps
<1>3. ASSUME NEW subject \in Bytes, NEW scope \in Scope, NEW action \in ProposedAction,
             Order(subject, scope, action)
      PROVE  ReviewInv'
  BY <1>3, OrderKeeps, ReviewAssumption
<1>4. CASE Start
  BY <1>2, <1>3, <1>4 DEF Start
<1>5. CASE ReviewStep
  BY <1>5, InspectKeeps, SubmitKeeps, DecideKeeps, CorrectKeeps DEF ReviewStep
<1>. QED
  BY <1>1, <1>4, <1>5 DEF ReviewNext

LEMMA ReviewInvHolds == ReviewSpec => []ReviewInv
<1>1. ReviewInit => ReviewInv
  BY DEF ReviewInit, ReviewInv, ReviewTypeOK, ReviewedWasInspected
<1>2. ReviewInv /\ [ReviewNext]_reviewVars => ReviewInv'
  BY ReviewStepKeeps
<1>. QED
  BY <1>1, <1>2, PTL DEF ReviewSpec

-----------------------------------------------------------------------------
(* What follows from it *)

\* At most one review means less than two acceptances.
LEMMA BlockedUntilTwoAccept ==
  ASSUME NEW c \in Candidate, ReviewsFit(c), c.tier = 3
  PROVE  "dual-approval" \in Blockers(c)
<1>1. Len(c.reviews) \in {0, 1} /\ c.reviews \in Seq(Review)
  BY DEF ReviewsFit, Candidate
<1>2. Accepts(c) \subseteq {1}
  BY <1>1 DEF Accepts
<1>3. IsFiniteSet({1}) /\ Cardinality({1}) = 1
  BY FS_Singleton
<1>4. Cardinality(Accepts(c)) \in Nat /\ Cardinality(Accepts(c)) <= 1
  BY <1>2, <1>3, FS_Subset, FS_CardinalityType
<1>5. "dual-approval" \in GuardianFindings(c)
  BY <1>4 DEF GuardianFindings, Finding
<1>. QED
  BY <1>5 DEF Blockers, Severity

\* The invariant implies each of the properties.
LEMMA ReviewInvImplies ==
  ASSUME ReviewInv
  PROVE  ReviewTypeOK /\ ReviewedWasInspected /\ LineageIntact /\ GuardianHoldsR3
<1>1. LineageIntact
  <2>1. CASE candidate = NoCandidate
    BY <2>1 DEF LineageIntact
  <2>2. CASE candidate # NoCandidate
    <3>1. DescendsFrom(candidate, origin) /\ origin # NoCandidate
      BY <2>2, InReview
    <3>2. CASE candidate.corrections = <<>>
      BY <3>1, <3>2 DEF LineageIntact, DescendsFrom
    <3>3. CASE candidate.corrections = <<[from |-> origin.subject, to |-> candidate.subject]>>
      <4>1. Len(candidate.corrections) = 1 /\ candidate.corrections # <<>>
        BY <3>3
      <4>2. candidate.corrections[1] = [from |-> origin.subject, to |-> candidate.subject]
        BY <3>3
      <4>. QED BY <3>1, <4>1, <4>2 DEF LineageIntact, DescendsFrom
    <3>. QED BY <3>1, <3>2, <3>3 DEF DescendsFrom
  <2>. QED BY <2>1, <2>2
<1>2. GuardianHoldsR3
  BY InReview, BlockedUntilTwoAccept DEF GuardianHoldsR3
<1>. QED
  BY <1>1, <1>2 DEF ReviewInv

\* Every snapshot, its proposal and the inspected bytes have their types.
THEOREM ReviewTypeCorrect == ReviewSpec => []ReviewTypeOK
BY ReviewInvHolds, ReviewInvImplies, PTL

\* What is reviewed or decided was inspected as it is (lifecycle.ts inspect).
THEOREM OnlyInspectedIsReviewed == ReviewSpec => []ReviewedWasInspected
BY ReviewInvHolds, ReviewInvImplies, PTL

\* One correction at most leads from the proposed subject to the one in review
\* (lifecycle.ts correct).
THEOREM LineageHolds == ReviewSpec => []LineageIntact
BY ReviewInvHolds, ReviewInvImplies, PTL

\* No path of the life cycle satisfies the Guardian for an R3 candidate
\* (guardian.ts, dual approval).
THEOREM R3StaysBlocked == ReviewSpec => []GuardianHoldsR3
BY ReviewInvHolds, ReviewInvImplies, PTL

-----------------------------------------------------------------------------
(* The monthly close *)

\* A candidate as propose makes it.
Fresh ==
  {c \in Candidate : c.status = "proposed" /\ DescendsFrom(c, c) /\ ReviewsFit(c)}

\* A close has asked the systems before its next one, and counts as used only
\* what was offered since it began.
Run == [scope : Checksummed, books : DOMAIN Books, next : 1..(Len(Systems) + 1),
        used : SUBSET System, missing : SUBSET System]

RunInv ==
  run # Idle =>
    /\ run \in Run
    /\ run.used \union run.missing = {Systems[i] : i \in 1..(run.next - 1)}
    /\ run.used \subseteq offered
    /\ Evident(adapter) \subseteq offered

PackageInv ==
  package.status = "complete" =>
    \A i \in DOMAIN package.candidates : package.candidates[i] \in Fresh

CloseInv == ReviewInv /\ RunInv /\ PackageInv

-----------------------------------------------------------------------------
\* Every candidate of a complete package is a new proposal.
LEMMA PackagedIsFresh ==
  ASSUME NEW scope \in Scope, NEW name \in DOMAIN Books,
         NEW i \in DOMAIN CandidatesOf(scope, name)
  PROVE  CandidatesOf(scope, name)[i] \in Fresh
<1>1. PICK proposals : proposals = AllProposals[scope][name]
  OBVIOUS
<1>2. i \in DOMAIN proposals
  BY <1>1 DEF CandidatesOf
<1>3. PICK p : p = proposals[i]
  OBVIOUS
<1>4. PICK a : a = [value |-> p.amount, jurisdiction |-> "PE",
                    reversibility |-> p.reversibility]
  OBVIOUS
<1>5. p.subject \in Subject /\ a \in Action
  BY <1>1, <1>2, <1>3, <1>4, CloseAssumption DEF Action
<1>6. CandidatesOf(scope, name)[i] = Proposed(p.subject, scope, a)
  BY <1>1, <1>2, <1>3, <1>4 DEF CandidatesOf
<1>. QED
  BY <1>5, <1>6, ProposedIsFresh DEF Fresh

LEMMA CompletePackage ==
  ASSUME NEW scope, NEW used, NEW name
  PROVE  /\ Complete(scope, used, name).status = "complete"
         /\ Complete(scope, used, name).used = used
         /\ Complete(scope, used, name).candidates = CandidatesOf(scope, name)
BY DEF Complete, Package

LEMMA StoppedPackage ==
  ASSUME NEW status, NEW scope, NEW used, NEW missing
  PROVE  Stopped(status, scope, used, missing).status = status
BY DEF Stopped, Package

\* The systems asked before the one after the last are all of them.
LEMMA AllAsked ==
  ASSUME NEW next \in 1..(Len(Systems) + 1), next > Len(Systems)
  PROVE  {Systems[i] : i \in 1..(next - 1)} = System
<1>1. Len(Systems) \in Nat /\ DOMAIN Systems = 1..Len(Systems)
  BY CloseAssumption
<1>2. next - 1 = Len(Systems)
  BY <1>1
<1>. QED
  BY <1>1, <1>2 DEF System

-----------------------------------------------------------------------------
(* One lemma per step of the close *)

LEMMA PreflightKeeps ==
  ASSUME CloseInv, NEW scope \in Scope, NEW name \in DOMAIN Books, Preflight(scope, name)
  PROVE  CloseInv'
<1>1. ReviewInv'
  BY DEF CloseInv, Preflight, reviewVars, ReviewInv, ReviewTypeOK, ReviewedWasInspected
<1>2. CASE scope \in Checksummed
  <2>1. /\ run' = [scope |-> scope, books |-> name, next |-> 1, used |-> {}, missing |-> {}]
        /\ package' = package
    BY <1>2 DEF Preflight
  <2>2. {Systems[i] : i \in 1..(1 - 1)} = {}
    OBVIOUS
  <2>3. Len(Systems) \in Nat
    BY CloseAssumption
  <2>4. adapter' = adapter /\ offered' = Evident(adapter)
    BY <1>2 DEF Preflight
  <2>5. Evident(adapter') \subseteq offered'
    BY <2>4 DEF Evident
  <2>6. PackageInv'
    BY <2>1 DEF CloseInv, PackageInv
  <2>7. RunInv'
    BY <1>2, <2>1, <2>2, <2>3, <2>5 DEF RunInv, Run
  <2>. QED BY <1>1, <2>6, <2>7 DEF CloseInv
<1>3. CASE scope \notin Checksummed
  <2>1. run = Idle /\ run' = run
    BY <1>3 DEF Preflight
  <2>2. package'.status = "preflight-failed"
    BY <1>3, StoppedPackage DEF Preflight
  <2>. QED BY <1>1, <2>1, <2>2 DEF CloseInv, RunInv, PackageInv
<1>. QED BY <1>2, <1>3

LEMMA FetchKeeps ==
  ASSUME CloseInv, Fetch
  PROVE  CloseInv'
<1>1. ReviewInv' /\ PackageInv'
  BY DEF CloseInv, Fetch, reviewVars, ReviewInv, ReviewTypeOK, ReviewedWasInspected, PackageInv
<1>2. /\ run # Idle /\ run.next <= Len(Systems)
      /\ offered' = offered /\ adapter' = adapter
  BY DEF Fetch, Fetching
<1>3. Len(Systems) \in Nat /\ DOMAIN Systems = 1..Len(Systems)
  BY CloseAssumption
<1>4. PICK n : n = run.next
  OBVIOUS
<1>5. /\ run \in Run
      /\ n \in 1..(Len(Systems) + 1) /\ n <= Len(Systems)
      /\ run.used \union run.missing = {Systems[i] : i \in 1..(n - 1)}
      /\ run.used \subseteq offered /\ Evident(adapter) \subseteq offered
  BY <1>2, <1>4 DEF CloseInv, RunInv, Run
<1>6. {Systems[i] : i \in 1..(n + 1 - 1)} = {Systems[i] : i \in 1..(n - 1)} \union {Systems[n]}
  BY <1>3, <1>5
<1>7. n + 1 \in 1..(Len(Systems) + 1)
  BY <1>3, <1>5
<1>8. Evident(adapter') \subseteq offered'
  BY <1>2, <1>5 DEF Evident
<1>9. PICK s : s = Systems[n]
  OBVIOUS
<1>10. s \in System
  BY <1>3, <1>5, <1>9 DEF System
<1>11. CASE Usable(adapter[s])
  <2>1. s \in offered
    BY <1>5, <1>10, <1>11 DEF Usable, Evident
  <2>2. run' = [run EXCEPT !.next = n + 1, !.used = run.used \union {s}]
    BY <1>4, <1>9, <1>11 DEF Fetch
  <2>3. /\ run' \in Run /\ run'.next = n + 1
        /\ run'.used = run.used \union {s} /\ run'.missing = run.missing
    BY <2>2, <1>5, <1>7, <1>10 DEF Run
  <2>. QED BY <2>1, <2>3, <1>1, <1>2, <1>5, <1>6, <1>8, <1>9 DEF CloseInv, RunInv
<1>12. CASE ~Usable(adapter[s])
  <2>1. run' = [run EXCEPT !.next = n + 1, !.missing = run.missing \union {s}]
    BY <1>4, <1>9, <1>12 DEF Fetch
  <2>2. /\ run' \in Run /\ run'.next = n + 1
        /\ run'.used = run.used /\ run'.missing = run.missing \union {s}
    BY <2>1, <1>5, <1>7, <1>10 DEF Run
  <2>. QED BY <2>2, <1>1, <1>2, <1>5, <1>6, <1>8, <1>9 DEF CloseInv, RunInv
<1>. QED
  BY <1>11, <1>12

LEMMA FetchThrowsKeeps ==
  ASSUME CloseInv, FetchThrows
  PROVE  CloseInv'
BY DEF CloseInv, FetchThrows, RunInv, PackageInv, reviewVars, ReviewInv, ReviewTypeOK,
       ReviewedWasInspected

LEMMA FinishKeeps ==
  ASSUME CloseInv, Finish
  PROVE  CloseInv'
<1>1. ReviewInv'
  BY DEF CloseInv, Finish, reviewVars, ReviewInv, ReviewTypeOK, ReviewedWasInspected
<1>2. RunInv'
  BY DEF Finish, RunInv
<1>3. run \in Run
  BY DEF CloseInv, RunInv, Finish
<1>4. CASE run.missing = {}
  <2>1. package' = Complete(run.scope, run.used, run.books)
    BY <1>4 DEF Finish
  <2>2. package'.candidates = CandidatesOf(run.scope, run.books)
    BY <2>1, CompletePackage
  <2>3. run.scope \in Scope /\ run.books \in DOMAIN Books
    BY <1>3, CandidateAssumption DEF Run
  <2>4. PackageInv'
    BY <2>2, <2>3, PackagedIsFresh DEF PackageInv
  <2>. QED BY <1>1, <1>2, <2>4 DEF CloseInv
<1>5. CASE run.missing # {}
  <2>1. package' = Stopped("waiting-for-evidence", run.scope, run.used, run.missing)
    BY <1>5 DEF Finish
  <2>2. package'.status = "waiting-for-evidence"
    BY <2>1, StoppedPackage
  <2>. QED BY <1>1, <1>2, <2>2 DEF CloseInv, PackageInv
<1>. QED BY <1>4, <1>5

LEMMA AdapterChangesKeeps ==
  ASSUME CloseInv, NEW system \in System, NEW answer \in Answer,
         AdapterChanges(system, answer)
  PROVE  CloseInv'
<1>1. ReviewInv' /\ PackageInv'
  BY DEF CloseInv, AdapterChanges, reviewVars, ReviewInv, ReviewTypeOK,
         ReviewedWasInspected, PackageInv
<1>2. run' = run /\ (run # Idle => offered' = offered \union Evident(adapter'))
  BY DEF AdapterChanges
<1>. QED
  BY <1>1, <1>2 DEF CloseInv, RunInv

LEMMA TakeUpFromPackageKeeps ==
  ASSUME CloseInv, TakeUpFromPackage
  PROVE  CloseInv'
<1>1. PICK i \in DOMAIN package.candidates : TakeUp(package.candidates[i])
  BY DEF TakeUpFromPackage
<1>2. package.candidates[i] \in Fresh
  BY <1>1 DEF TakeUpFromPackage, CloseInv, PackageInv
<1>3. ReviewInv'
  BY <1>1, <1>2, TakeUpKeeps DEF Fresh
<1>. QED
  BY <1>3 DEF TakeUpFromPackage, closeVars, CloseInv, RunInv, PackageInv, Evident

LEMMA ReviewKeeps ==
  ASSUME CloseInv, ReviewNext \/ UNCHANGED reviewVars, UNCHANGED closeVars
  PROVE  CloseInv'
<1>1. ReviewInv'
  BY ReviewStepKeeps DEF CloseInv
<1>. QED
  BY <1>1 DEF closeVars, CloseInv, RunInv, PackageInv, Evident

LEMMA CloseInvHolds == Spec => []CloseInv
<1>1. Init => CloseInv
  BY DEF Init, ReviewInit, CloseInv, ReviewInv, ReviewTypeOK, ReviewedWasInspected,
         RunInv, PackageInv, NoPackage
<1>2. CloseInv /\ [Next]_vars => CloseInv'
  <2>. SUFFICES ASSUME CloseInv, [Next]_vars
                PROVE  CloseInv'
    OBVIOUS
  <2>1. CASE UNCHANGED vars
    BY <2>1, ReviewKeeps DEF vars
  <2>2. CASE Next
    BY <2>2, PreflightKeeps, FetchKeeps, FetchThrowsKeeps, FinishKeeps, AdapterChangesKeeps,
       TakeUpFromPackageKeeps, ReviewKeeps DEF Next
  <2>. QED BY <2>1, <2>2
<1>. QED
  BY <1>1, <1>2, PTL DEF Spec

-----------------------------------------------------------------------------
(* What follows *)

\* Of every system a complete close counts, evidence was there at some moment of
\* that close (close.ts, step 2).
THEOREM AbsenceHolds == Spec => AbsenceIsNotZero
<1>1. ASSUME CloseInv, [Next]_vars, package' # package, package'.status = "complete"
      PROVE  package'.used = System /\ package'.used \subseteq offered
  <2>1. CASE Finish
    <3>1. run \in Run /\ run.used \union run.missing = {Systems[i] : i \in 1..(run.next - 1)}
          /\ run.used \subseteq offered /\ run.next > Len(Systems)
      BY <1>1, <2>1 DEF CloseInv, RunInv, Finish
    <3>2. run.used \union run.missing = System
      BY <3>1, AllAsked DEF Run
    <3>3. run.missing = {}
      BY <1>1, <2>1, StoppedPackage DEF Finish
    <3>4. package'.used = run.used
      BY <2>1, <3>3, CompletePackage DEF Finish
    <3>. QED BY <3>1, <3>2, <3>3, <3>4
  <2>2. ASSUME NEW scope \in Scope, NEW name \in DOMAIN Books, Preflight(scope, name)
        PROVE  FALSE
    BY <1>1, <2>2, StoppedPackage DEF Preflight
  <2>3. Fetch \/ FetchThrows => package' = package
    BY DEF Fetch, FetchThrows
  <2>4. ASSUME NEW system \in System, NEW answer \in Answer, AdapterChanges(system, answer)
        PROVE  package' = package
    BY <2>4 DEF AdapterChanges
  <2>5. (TakeUpFromPackage \/ UNCHANGED closeVars \/ UNCHANGED vars) => package' = package
    BY DEF TakeUpFromPackage, closeVars, vars
  <2>. QED BY <1>1, <2>1, <2>2, <2>3, <2>4, <2>5 DEF Next
<1>2. CloseInv /\ [Next]_vars
        => [package' # package /\ package'.status = "complete"
              => package'.used = System /\ package'.used \subseteq offered]_vars
  BY <1>1
<1>. QED
  BY <1>2, CloseInvHolds, PTL DEF Spec, AbsenceIsNotZero

\* The candidates of a package, too, are inspected before they are reviewed.
THEOREM CloseReviewsInspected == Spec => []ReviewedWasInspected
<1>1. CloseInv => ReviewedWasInspected
  BY DEF CloseInv, ReviewInv
<1>. QED
  BY <1>1, CloseInvHolds, PTL

\* And no R3 candidate of a package ever loses its blocker.
THEOREM CloseKeepsR3Blocked == Spec => []GuardianHoldsR3
<1>1. CloseInv => GuardianHoldsR3
  BY ReviewInvImplies DEF CloseInv
<1>. QED
  BY <1>1, CloseInvHolds, PTL

-----------------------------------------------------------------------------
(* Beside the findings and the annual declaration *)

\* The findings and the annual declaration leave the close and the review alone:
\* every step is one of the close or none of it.
LEMMA FiscalStepIsClose ==
  [FiscalNext]_<<vars, findingVars, annualVars>> => [Next]_vars
BY DEF FiscalNext

LEMMA FiscalIsClose == FiscalSpec => Spec
BY FiscalStepIsClose, PTL DEF FiscalSpec, FiscalInit, Spec

\* What is reviewed was inspected also while the Guardian's findings are discussed
\* and the year is declared (lifecycle.ts inspect; guardian/, annual-declaration/).
THEOREM FiscalReviewsInspected == FiscalSpec => []ReviewedWasInspected
BY FiscalIsClose, CloseReviewsInspected, PTL

\* And whatever is said of a finding, R3 stays blocked (guardian.ts, dual approval;
\* guardian/refutation.ts, "advisory").
THEOREM FiscalKeepsR3Blocked == FiscalSpec => []GuardianHoldsR3
BY FiscalIsClose, CloseKeepsR3Blocked, PTL

-----------------------------------------------------------------------------
(* The Guardian's findings *)

\* What became of a finding is known of findings of the reports there are.
FindingInv ==
  /\ reports \in Seq([hash : Subject, findings : SUBSET Findings!Finding])
  /\ \A f \in DOMAIN disposed : f.review \in DOMAIN reports

\* What the property says of a step.
FindingStep ==
  /\ advice' # advice =>
       /\ reports[advice'.finding.review].hash = advice'.hash
       /\ Findings!Cardinality({r.reviewer : r \in advice'.reviews} \ {advice'.challenger}) = 2
       /\ Findings!SeverityRank[advice'.severity]
            >= Findings!SeverityRank[Findings!Severity(advice'.finding.kind)]
  /\ \A f \in DOMAIN disposed : disposed'[f] = disposed[f]
  /\ Len(reports') > Len(reports)
       => \A f \in DOMAIN disposed' : f.review # Len(reports')

\* A finding of a report names it as its review.
LEMMA FindingNamesReview ==
  ASSUME NEW n \in DOMAIN reports, NEW f, NEW hash, Findings!Belongs(n, f, hash)
  PROVE  /\ f.review = n /\ f.kind \in reports[n].findings
         /\ hash \in {Findings!NoHash, {reports[n].hash}}
BY DEF Findings!Belongs, Findings!FindingsOf

LEMMA RunReviewKeeps ==
  ASSUME FindingInv, CloseInv, Findings!RunGuardianReview
  PROVE  FindingInv' /\ FindingStep
<1>1. /\ candidate \in Candidate
      /\ reports' = Append(reports, [hash |-> candidate.subject,
                                     findings |-> Findings!GuardianFindings(candidate)])
      /\ disposed' = disposed /\ advice' = advice
  BY DEF Findings!RunGuardianReview, CloseInv, ReviewInv, ReviewTypeOK
<1>2. Findings!GuardianFindings(candidate) \subseteq Findings!Finding
  BY DEF Findings!GuardianFindings
<1>3. PICK r : r = [hash |-> candidate.subject,
                    findings |-> Findings!GuardianFindings(candidate)]
  OBVIOUS
<1>4. r \in [hash : Subject, findings : SUBSET Findings!Finding]
  BY <1>1, <1>2, <1>3 DEF Candidate
<1>5. /\ reports \in Seq([hash : Subject, findings : SUBSET Findings!Finding])
      /\ reports' = Append(reports, r)
  BY <1>1, <1>3 DEF FindingInv
<1>6. /\ reports' \in Seq([hash : Subject, findings : SUBSET Findings!Finding])
      /\ Len(reports') = Len(reports) + 1 /\ Len(reports) \in Nat
      /\ DOMAIN reports = 1..Len(reports) /\ DOMAIN reports' = 1..Len(reports')
  BY <1>4, <1>5
<1>7. \A f \in DOMAIN disposed : f.review \in DOMAIN reports
  BY DEF FindingInv
<1>. QED
  BY <1>1, <1>6, <1>7 DEF FindingInv, FindingStep

\* Two people who are not the challenger.
LEMMA TwoIndependent ==
  ASSUME NEW p, NEW q, NEW c, p # q, c \notin {p, q}
  PROVE  Findings!Cardinality({p, q} \ {c}) = 2
<1>1. {p, q} \ {c} = {p} \union {q} /\ q \notin {p}
  OBVIOUS
<1>2. IsFiniteSet({p}) /\ Cardinality({p}) = 1
  BY FS_Singleton
<1>3. Cardinality({p} \union {q}) = Cardinality({p}) + 1
  BY <1>1, <1>2, FS_AddElement
<1>4. \A S : Findings!Cardinality(S) = Cardinality(S)
  BY Zenon DEF Findings!Cardinality, Cardinality
<1>. QED
  BY <1>1, <1>2, <1>3, <1>4

LEMMA DualReviewKeeps ==
  ASSUME FindingInv, Findings!DualReview
  PROVE  FindingInv' /\ FindingStep
<1>1. PICK n \in DOMAIN reports, f \in Findings!Findings :
        /\ Findings!Reported(n, f)
        /\ \E challenger \in Identity, override \in DOMAIN Findings!SeverityRank,
              a, b \in [reviewer : Identity, verdict : Findings!Verdict] :
             Findings!EvaluateDualReview(n, f, challenger, override, a, b)
  BY DEF Findings!DualReview
<1>2. PICK challenger \in Identity, override \in DOMAIN Findings!SeverityRank,
           a \in [reviewer : Identity, verdict : Findings!Verdict],
           b \in [reviewer : Identity, verdict : Findings!Verdict] :
        Findings!EvaluateDualReview(n, f, challenger, override, a, b)
  BY <1>1
<1>3. f.review = n
  BY <1>1, FindingNamesReview DEF Findings!Reported
<1>4. PICK severity : severity = IF a.verdict = "downgrade" /\ b.verdict = "downgrade"
                                 THEN override ELSE Findings!Severity(f.kind)
  OBVIOUS
<1>5. /\ reports' = reports /\ disposed' = disposed
      /\ advice'.finding = f /\ advice'.hash = reports[n].hash
      /\ advice'.challenger = challenger /\ advice'.reviews = {a, b}
      /\ advice'.severity = severity
      /\ a.reviewer # b.reviewer /\ challenger \notin {a.reviewer, b.reviewer}
      /\ "downgrade" \in {a.verdict, b.verdict}
           => Findings!StrictlyLower(override, Findings!Severity(f.kind))
  BY <1>2, <1>4 DEF Findings!EvaluateDualReview
<1>6. Findings!Cardinality({r.reviewer : r \in advice'.reviews} \ {advice'.challenger}) = 2
  <2>1. PICK p, q : p = a.reviewer /\ q = b.reviewer
    OBVIOUS
  <2>2. p # q /\ challenger \notin {p, q}
    BY <1>5, <2>1
  <2>3. {r.reviewer : r \in advice'.reviews} \ {advice'.challenger} = {p, q} \ {challenger}
    BY <1>5, <2>1
  <2>4. Findings!Cardinality({p, q} \ {challenger}) = 2
    BY <2>2, TwoIndependent
  <2>. QED BY <2>3, <2>4, Zenon
<1>7. Findings!SeverityRank[severity] >= Findings!SeverityRank[Findings!Severity(f.kind)]
  <2>1. Findings!Severity(f.kind) \in {"concern", "blocker"}
    BY DEF Findings!Severity
  <2>2. override \in {"blocker", "concern", "info"}
    BY DEF Findings!SeverityRank
  <2>. QED BY <1>4, <1>5, <2>1, <2>2 DEF Findings!SeverityRank, Findings!StrictlyLower
<1>. QED
  BY <1>3, <1>5, <1>6, <1>7 DEF FindingInv, FindingStep

LEMMA ResolutionKeeps ==
  ASSUME FindingInv, Findings!Resolution
  PROVE  FindingInv' /\ FindingStep
<1>1. PICK n \in DOMAIN reports, f \in Findings!Findings, hash \in Findings!Asserted,
           disposition \in {"resolved", "dismissed"} :
        Findings!ResolveFinding(n, f, hash, disposition)
  BY DEF Findings!Resolution
<1>2. /\ f.review = n /\ f \notin DOMAIN disposed
      /\ reports' = reports /\ advice' = advice
  BY <1>1, FindingNamesReview DEF Findings!ResolveFinding
<1>3. disposed' = [g \in {f} \union DOMAIN disposed |->
                     IF g = f THEN disposition ELSE disposed[g]]
  BY <1>1 DEF Findings!ResolveFinding
<1>. QED
  BY <1>2, <1>3 DEF FindingInv, FindingStep

\* Where no finding is discussed, nothing changes.
LEMMA FindingsRest ==
  ASSUME FindingInv, UNCHANGED findingVars
  PROVE  FindingInv' /\ FindingStep
BY DEF FindingInv, FindingStep, findingVars

LEMMA FindingInvHolds == FiscalSpec => [](FindingInv /\ CloseInv)
<1>1. FiscalInit => FindingInv
  BY DEF FiscalInit, Findings!FindingInit, FindingInv
<1>2. FindingInv /\ CloseInv /\ [FiscalNext]_<<vars, findingVars, annualVars>> => FindingInv'
  BY RunReviewKeeps, DualReviewKeeps, ResolutionKeeps, FindingsRest
  DEF FiscalNext, Findings!FindingNext
<1>. QED
  BY <1>1, <1>2, FiscalIsClose, CloseInvHolds, PTL DEF FiscalSpec

\* Advice is about a finding of the very bytes named, by two people of whom neither
\* challenged it, and never makes it graver; what became of a finding stays, and a
\* later review starts open (refutation.ts evaluateDualReview; resolution.ts).
THEOREM AdviceStays == FiscalSpec => AdviceStaysWithItsReview
<1>1. FindingInv /\ CloseInv /\ [FiscalNext]_<<vars, findingVars, annualVars>>
        => [FindingStep]_(Findings!findingVars)
  BY RunReviewKeeps, DualReviewKeeps, ResolutionKeeps, FindingsRest
  DEF FiscalNext, Findings!FindingNext, findingVars, Findings!findingVars
<1>. QED
  BY <1>1, FindingInvHolds, PTL
  DEF FiscalSpec, AdviceStaysWithItsReview, Findings!AdviceStaysWithItsReview, FindingStep

-----------------------------------------------------------------------------
(* The closing of result accounts, of a month or of a year *)

LEMMA NumbersUpTo ==
  ASSUME NEW n \in Nat
  PROVE  IsFiniteSet(1..n) /\ Cardinality(1..n) = n
<1>1. 1 \in Int /\ n \in Int
  OBVIOUS
<1>2. IsFiniteSet(1..n) /\ Cardinality(1..n) = IF 1 > n THEN 0 ELSE n - 1 + 1
  BY <1>1, FS_Interval
<1>. QED
  BY <1>2

\* The summands that count, taken one after the other, have the sum of all.
LEMMA SumOneByOne ==
  ASSUME NEW D \in SUBSET Nat, IsFiniteSet(D), NEW open \in SUBSET D,
         NEW f, \A i \in D : f[i] \in Int, \A i \in D \ open : f[i] = 0,
         NEW e, \A n \in 1..Cardinality(open) : \A i \in open :
                  Cardinality({j \in open : j <= i}) = n => e[n] = f[i]
  PROVE  Part(e, 1..Cardinality(open)) = Part(f, D)
<1>. DEFINE T == 1..Cardinality(open)
<1>1. IsFiniteSet(open)
  BY FS_Subset
<1>2. Renumbers(e, T, f, open)
  <2>1. PICK key \in [open -> Int] : \A i \in open : key[i] = i
    <3>1. [i \in open |-> i] \in [open -> Int]
      OBVIOUS
    <3>. QED BY <3>1
  <2>2. \A i, j \in open : key[i] = key[j] => i = j
    BY <2>1
  <2>3. PICK at \in [T -> open] :
             /\ \A n \in T : Cardinality(Upto(open, key, at[n])) = n
             /\ \A n \in T : \A x \in open : Cardinality(Upto(open, key, x)) = n => x = at[n]
             /\ \A m, n \in T : at[m] = at[n] => m = n
             /\ \A x \in open : \E n \in T : at[n] = x
             /\ \A m, n \in T : m < n => key[at[m]] < key[at[n]]
    BY <1>1, <2>1, <2>2, Enumerated
  <2>4. \A i \in open : {j \in open : j <= i} = Upto(open, key, i)
    BY <2>1 DEF Upto
  <2>5. \A n \in T : Cardinality({j \in open : j <= at[n]}) = n
    <3>. SUFFICES ASSUME NEW n \in T
                  PROVE  Cardinality({j \in open : j <= at[n]}) = n
      OBVIOUS
    <3>1. at[n] \in open
      OBVIOUS
    <3>. QED BY <2>3, <2>4, <3>1
  <2>6. \A n \in T : e[n] = f[at[n]]
    BY <2>5
  <2>7. at \in [T -> open]
    BY <2>3
  <2>8. /\ \A m, n \in T : at[m] = at[n] => m = n
        /\ \A x \in open : \E n \in T : at[n] = x
    BY <2>3
  <2>. HIDE DEF T
  <2>. QED BY ONLY <2>6, <2>7, <2>8 DEF Renumbers
<1>3. IsFiniteSet(T)
  <2>1. Cardinality(open) \in Nat
    BY <1>1, FS_CardinalityType
  <2>. QED BY <2>1, NumbersUpTo
<1>4. \A i \in open : f[i] \in Int
  OBVIOUS
<1>5. Part(e, T) = Part(f, open)
  <2>. HIDE DEF T
  <2>. QED BY ONLY <1>1, <1>2, <1>3, <1>4, PartRenumbered
<1>6. \A i \in D : f[i] \in Int
  OBVIOUS
<1>7. Part(f, D) = Part(f, open)
  BY <1>6, PartSupport
<1>. QED
  BY <1>5, <1>7

LEMMA OnlyOneOfARank ==
  ASSUME NEW S \in SUBSET Nat, IsFiniteSet(S), NEW i \in S, NEW j \in S,
         Cardinality({k \in S : k <= i}) = Cardinality({k \in S : k <= j})
  PROVE  i = j
<1>1. PICK key \in [S -> Int] : \A k \in S : key[k] = k
  <2>1. [k \in S |-> k] \in [S -> Int]
    OBVIOUS
  <2>. QED BY <2>1
<1>2. \A x, y \in S : key[x] = key[y] => x = y
  BY <1>1
<1>3. PICK rank \in [S -> 1..Cardinality(S)] :
           /\ \A x \in S : rank[x] = Cardinality(Upto(S, key, x))
           /\ \A x, y \in S : key[x] < key[y] => rank[x] < rank[y]
           /\ \A x, y \in S : rank[x] = rank[y] => x = y
           /\ \A n \in 1..Cardinality(S) : \E x \in S : rank[x] = n
  BY <1>1, <1>2, Ranked
<1>4. \A x \in S : Upto(S, key, x) = {k \in S : k <= x}
  BY <1>1 DEF Upto
<1>. QED
  BY <1>3, <1>4

\* Closing entries take from every account what it held, and bring the sum of all
\* to retained earnings.
LEMMA ClosingMovesAll ==
  ASSUME NEW balances, NEW D \in SUBSET Nat, D = DOMAIN balances, IsFiniteSet(D),
         \A i \in D : balances[i].balance \in Int,
         NEW chart, CloseResultAccounts(balances, chart).ok, NEW account,
         NEW held \in [D -> Int],
         \A i \in D : held[i] = IF account \in {balances[i].account, RetainedEarnings}
                               THEN balances[i].balance ELSE 0
  PROVE  Effect(CloseResultAccounts(balances, chart).entries, account)
           = IF account = RetainedEarnings THEN SumFunction(held) ELSE -SumFunction(held)
<1>1. PICK open : open = Open(balances)
  OBVIOUS
<1>2. /\ open \in SUBSET D
      /\ \A i \in D \ open : balances[i].balance = 0
      /\ \A i \in open : balances[i].balance # 0
  BY <1>1 DEF Open
<1>3. PICK entries : entries = [n \in 1..Cardinality(open) |-> ClosingEntry(n, balances[
                                  CHOOSE i \in open : Cardinality({j \in open : j <= i}) = n])]
  OBVIOUS
<1>4. CloseResultAccounts(balances, chart)
        = IF RetainedEarnings \in chart
               /\ \A i \in D : balances[i].account \in chart \ {RetainedEarnings}
          THEN Computed(entries) ELSE Failed
  BY <1>1, <1>3 DEF CloseResultAccounts
<1>5. PICK T : T = 1..Cardinality(open)
  OBVIOUS
<1>6. /\ CloseResultAccounts(balances, chart).entries = entries
      /\ \A i \in D : balances[i].account # RetainedEarnings
  BY <1>4 DEF Failed, Computed
<1>7. \A n \in T : \A i, j \in open :
        (/\ Cardinality({k \in open : k <= i}) = n
         /\ Cardinality({k \in open : k <= j}) = n) => i = j
  <2>1. IsFiniteSet(open) /\ open \in SUBSET Nat
    BY <1>2, FS_Subset
  <2>. QED BY <2>1, OnlyOneOfARank
<1>8. /\ DOMAIN entries = T
      /\ \A n \in T : \A i \in open :
           Cardinality({k \in open : k <= i}) = n => entries[n] = ClosingEntry(n, balances[i])
  <2>1. DOMAIN entries = T
    BY <1>3, <1>5
  <2>2. ASSUME NEW n \in T, NEW i \in open, Cardinality({k \in open : k <= i}) = n
        PROVE  entries[n] = ClosingEntry(n, balances[i])
    <3>1. PICK j : j = CHOOSE k \in open : Cardinality({l \in open : l <= k}) = n
      OBVIOUS
    <3>2. j = i
      BY <1>7, <2>2, <3>1
    <3>3. entries[n] = ClosingEntry(n, balances[j])
      BY <1>3, <1>5, <3>1
    <3>. QED BY <3>2, <3>3
  <2>. QED BY <2>1, <2>2
<1>9. PICK e : e = [n \in T |->
                     (IF entries[n].debit = account THEN entries[n].amount ELSE 0)
                       - (IF entries[n].credit = account THEN entries[n].amount ELSE 0)]
  OBVIOUS
<1>10. Effect(entries, account) = Part(e, T)
  <2>1. Effect(entries, account) = SumFunction(e)
    BY <1>8, <1>9 DEF Effect
  <2>. QED BY <1>9, <2>1, SumIsPart
<1>11. PICK f \in [D -> Int] :
         \A i \in D : f[i] = IF account = RetainedEarnings THEN held[i] ELSE -held[i]
  <2>1. [i \in D |-> IF account = RetainedEarnings THEN held[i] ELSE -held[i]] \in [D -> Int]
    OBVIOUS
  <2>. QED BY <2>1
<1>12. \A i \in D : held[i] \in Int /\ f[i] \in Int
  OBVIOUS
<1>13. \A i \in D \ open : f[i] = 0
  <2>. SUFFICES ASSUME NEW i \in D, i \notin open
                PROVE  f[i] = 0
    OBVIOUS
  <2>1. balances[i].balance = 0
    BY <1>2
  <2>2. held[i] = 0
    BY <2>1
  <2>3. f[i] = IF account = RetainedEarnings THEN held[i] ELSE -held[i]
    BY <1>11
  <2>4. f[i] \in Int /\ held[i] \in Int
    BY <1>12
  <2>5. f[i] = held[i] \/ f[i] + held[i] = 0
    BY <2>3, <2>4
  <2>. QED BY <2>2, <2>4, <2>5
<1>14. ASSUME NEW n \in T, NEW i \in open, Cardinality({k \in open : k <= i}) = n
       PROVE  e[n] = f[i]
  <2>1. PICK b : b = balances[i]
    OBVIOUS
  <2>2. i \in D /\ b.balance \in Int /\ b.balance # 0 /\ b.account # RetainedEarnings
    BY <1>2, <1>6, <2>1
  <2>3. entries[n] = ClosingEntry(n, b)
    BY <1>8, <1>14, <2>1
  <2>4. held[i] = IF account \in {b.account, RetainedEarnings} THEN b.balance ELSE 0
    BY <2>1, <2>2
  <2>5. f[i] = IF account = RetainedEarnings THEN held[i] ELSE -held[i]
    BY <1>11, <2>2
  <2>6. CASE b.balance < 0
    <3>1. /\ entries[n].debit = b.account /\ entries[n].credit = RetainedEarnings
          /\ entries[n].amount = -b.balance
      BY <2>3, <2>6 DEF ClosingEntry, Entry, Magnitude
    <3>. QED BY <1>9, <2>1, <2>2, <2>4, <2>5, <3>1
  <2>7. CASE ~(b.balance < 0)
    <3>1. /\ entries[n].credit = b.account /\ entries[n].debit = RetainedEarnings
          /\ entries[n].amount = b.balance
      BY <2>3, <2>7 DEF ClosingEntry, Entry, Magnitude
    <3>. QED BY <1>9, <2>1, <2>2, <2>4, <2>5, <3>1
  <2>. QED BY <2>6, <2>7
<1>15. Part(e, T) = Part(f, D)
  <2>1. \A n \in 1..Cardinality(open) : \A i \in open :
          Cardinality({j \in open : j <= i}) = n => e[n] = f[i]
    BY <1>5, <1>14
  <2>2. \A i \in D : f[i] \in Int
    BY <1>12
  <2>3. open \in SUBSET D
    BY <1>2
  <2>4. Part(e, 1..Cardinality(open)) = Part(f, D)
    BY ONLY <1>13, <2>1, <2>2, <2>3, D \in SUBSET Nat, IsFiniteSet(D), SumOneByOne
  <2>. QED BY <1>5, <2>4
<1>16. SumFunction(held) = Part(held, D)
  BY SumIsPart
<1>17. Part(f, D) = IF account = RetainedEarnings THEN Part(held, D) ELSE -Part(held, D)
  <2>1. CASE account = RetainedEarnings
    <3>1. f = held
      BY <1>11, <2>1
    <3>. QED BY <2>1, <3>1
  <2>2. CASE account # RetainedEarnings
    <3>1. \A i \in D : held[i] \in Int /\ f[i] = -held[i]
      BY <1>11, <1>12, <2>2
    <3>. QED BY <2>2, <3>1, PartOpposite
  <2>. QED BY <2>1, <2>2
<1>. QED
  BY <1>6, <1>10, <1>15, <1>16, <1>17


-----------------------------------------------------------------------------
(* What a complete package holds *)

\* A complete package is what its books make of its scope.
Packaged ==
  Completed => /\ package.scope \in Scope
               /\ closed \in DOMAIN Books
               /\ package = Complete(package.scope, package.used, closed)

LEMMA StoppedIsIncomplete ==
  ASSUME NEW status, status # "complete", NEW scope, NEW used, NEW missing,
         package' = Stopped(status, scope, used, missing)
  PROVE  Packaged'
BY StoppedPackage DEF Packaged, Completed

LEMMA FinishPackages ==
  ASSUME CloseInv, Finish
  PROVE  Packaged'
<1>1. run \in Run
  BY DEF CloseInv, RunInv, Finish
<1>2. CASE run.missing = {}
  <2>1. package' = Complete(run.scope, run.used, run.books) /\ closed' = run.books
    BY <1>2 DEF Finish
  <2>2. run.scope \in Scope /\ run.books \in DOMAIN Books
    BY <1>1, CandidateAssumption DEF Run
  <2>3. package'.scope = run.scope /\ package'.used = run.used
    BY <2>1 DEF Complete, Package
  <2>. QED BY <2>1, <2>2, <2>3 DEF Packaged
<1>3. CASE run.missing # {}
  BY <1>3, StoppedIsIncomplete DEF Finish
<1>. QED BY <1>2, <1>3

LEMMA PackagedHolds == Spec => []Packaged
<1>1. Init => Packaged
  BY DEF Init, Packaged, Completed, NoPackage
<1>2. Packaged /\ CloseInv /\ [Next]_vars => Packaged'
  <2>. SUFFICES ASSUME Packaged, CloseInv, [Next]_vars
                PROVE  Packaged'
    OBVIOUS
  <2>1. CASE UNCHANGED <<package, closed>>
    BY <2>1 DEF Packaged, Completed
  <2>2. ASSUME NEW scope \in Scope, NEW name \in DOMAIN Books, Preflight(scope, name)
        PROVE  Packaged'
    BY <2>1, <2>2, StoppedIsIncomplete DEF Preflight
  <2>3. CASE Finish
    BY <2>3, FinishPackages
  <2>4. (UNCHANGED vars \/ Fetch \/ FetchThrows \/ TakeUpFromPackage \/ UNCHANGED closeVars)
          => UNCHANGED <<package, closed>>
    BY DEF vars, Fetch, FetchThrows, TakeUpFromPackage, closeVars
  <2>5. ASSUME NEW system \in System, NEW answer \in Answer, AdapterChanges(system, answer)
        PROVE  UNCHANGED <<package, closed>>
    BY <2>5 DEF AdapterChanges
  <2>. QED BY <2>1, <2>2, <2>3, <2>4, <2>5 DEF Next
<1>. QED
  BY <1>1, <1>2, CloseInvHolds, PTL DEF Spec

LEMMA PackageParts ==
  ASSUME Packaged, Completed
  PROVE  /\ package.scope \in Scope /\ closed \in DOMAIN Books
         /\ package.candidates = CandidatesOf(package.scope, closed)
         /\ package.receipts = Receipts(CandidatesOf(package.scope, closed))
         /\ package.blocked = BlockedCandidates(CandidatesOf(package.scope, closed))
         /\ package.rows = RowRisks(package.scope, Books[closed])
         /\ package.engines = EngineRisks(package.scope, Books[closed])
<1>1. PICK scope, used : scope = package.scope /\ used = package.used
  OBVIOUS
<1>2. package = Complete(scope, used, closed) /\ scope \in Scope /\ closed \in DOMAIN Books
  BY <1>1 DEF Packaged
<1>3. /\ Complete(scope, used, closed).candidates = CandidatesOf(scope, closed)
      /\ Complete(scope, used, closed).receipts = Receipts(CandidatesOf(scope, closed))
      /\ Complete(scope, used, closed).blocked = BlockedCandidates(CandidatesOf(scope, closed))
      /\ Complete(scope, used, closed).rows = RowRisks(scope, Books[closed])
      /\ Complete(scope, used, closed).engines = EngineRisks(scope, Books[closed])
  BY DEF Complete, Package
<1>. QED
  BY <1>1, <1>2, <1>3

\* A group that is not a risk was computed from its input, for a month that exists.
LEMMA NoRiskIsComputed ==
  ASSUME NEW scope, NEW books, NEW group \in Group, group \in books.given,
         group \notin EngineRisks(scope, books)
  PROVE  scope \in Dated /\ GroupResult(scope, books, group).ok
<1>1. GroupResult(scope, books, group).ok
  BY DEF EngineRisks
<1>2. CASE scope \notin Dated
  <2>1. GroupResult(scope, books, group) = Failed
    BY <1>2 DEF GroupResult
  <2>2. ~Failed.ok
    BY DEF Failed
  <2>. QED BY <1>1, <2>1, <2>2
<1>. QED
  BY <1>1, <1>2

LEMMA SequenceParts ==
  ASSUME NEW R, NEW s \in Seq(R)
  PROVE  /\ Len(s) \in Nat /\ DOMAIN s = 1..Len(s)
         /\ \A i \in 1..Len(s) : s[i] \in R
         /\ DOMAIN s \in SUBSET Nat /\ IsFiniteSet(DOMAIN s)
<1>1. Len(s) \in Nat /\ DOMAIN s = 1..Len(s) /\ \A i \in 1..Len(s) : s[i] \in R
  OBVIOUS
<1>2. IsFiniteSet(1..Len(s))
  BY <1>1, NumbersUpTo
<1>. QED
  BY <1>1, <1>2

LEMMA BalancesOf ==
  ASSUME NEW balances \in Seq([account : Account, balance : Int])
  PROVE  /\ DOMAIN balances \in SUBSET Nat /\ IsFiniteSet(DOMAIN balances)
         /\ \A i \in DOMAIN balances : balances[i].balance \in Int
<1>1. PICK R : R = [account : Account, balance : Int]
  OBVIOUS
<1>2. balances \in Seq(R)
  BY <1>1
<1>3. /\ DOMAIN balances \in SUBSET Nat /\ IsFiniteSet(DOMAIN balances)
      /\ \A i \in DOMAIN balances : balances[i] \in R
  BY <1>2, SequenceParts
<1>. QED
  BY <1>1, <1>3

\* What a package closed left every result account at zero.
LEMMA PackagedClosesAll ==
  ASSUME Packaged
  PROVE  ClosingZeroesResults
<1>. SUFFICES ASSUME Completed, "closing" \in Books[closed].given, "closing" \notin package.engines,
                     NEW account \in Account
              PROVE  LET entries == GroupResult(package.scope, Books[closed], "closing").entries
                         balances == Books[closed].balances
                         Balance(a) ==
                           SumFunction([i \in DOMAIN balances |->
                             IF a \in {balances[i].account, RetainedEarnings}
                             THEN balances[i].balance ELSE 0])
                     IN  Effect(entries, account) =
                           IF account = RetainedEarnings THEN Balance(account) ELSE -Balance(account)
  BY DEF ClosingZeroesResults
<1>1. PICK scope, books, balances, chart :
        /\ scope = package.scope /\ books = Books[closed]
        /\ balances = Books[closed].balances /\ chart = Books[closed].chart
  OBVIOUS
<1>2. scope \in Dated /\ GroupResult(scope, books, "closing").ok
  <2>1. "closing" \in Group
    BY DEF Group
  <2>2. "closing" \in books.given /\ "closing" \notin EngineRisks(scope, books)
    BY <1>1, PackageParts
  <2>. QED BY <2>1, <2>2, NoRiskIsComputed
<1>3. GroupResult(scope, books, "closing") = CloseResultAccounts(balances, chart)
  BY <1>1, <1>2 DEF GroupResult
<1>4. balances \in Seq([account : Account, balance : Int])
  BY <1>1, PackageParts, CloseAssumption
<1>5. PICK D : D = DOMAIN balances
  OBVIOUS
<1>6. /\ D \in SUBSET Nat /\ IsFiniteSet(D)
      /\ \A i \in D : balances[i].balance \in Int
  BY <1>4, <1>5, BalancesOf
<1>7. PICK held : held = [i \in D |-> IF account \in {balances[i].account, RetainedEarnings}
                                     THEN balances[i].balance ELSE 0]
  OBVIOUS
<1>8. /\ held \in [D -> Int]
      /\ \A i \in D : held[i] = IF account \in {balances[i].account, RetainedEarnings}
                               THEN balances[i].balance ELSE 0
  BY <1>6, <1>7
<1>9. CloseResultAccounts(balances, chart).ok
  BY <1>2, <1>3
<1>10. Effect(CloseResultAccounts(balances, chart).entries, account)
         = IF account = RetainedEarnings THEN SumFunction(held) ELSE -SumFunction(held)
  BY <1>5, <1>6, <1>8, <1>9, ClosingMovesAll
<1>. QED
  BY <1>1, <1>3, <1>5, <1>7, <1>10

\* Closing entries leave every result account of a package's books at zero and
\* move their sum into retained earnings (close-results.ts; close/report.ts).
THEOREM ClosingZeroes == FiscalSpec => []ClosingZeroesResults
BY FiscalIsClose, PackagedHolds, PackagedClosesAll, PTL

-----------------------------------------------------------------------------
(* The annual declaration *)

\* Of the inputs, the first are of the months of the year, each of another one.
YearTaken(inputs) ==
  /\ Period \subseteq DOMAIN inputs
  /\ \A i \in Period : inputs[i].period \in Period
  /\ \A i, j \in Period : inputs[i].period = inputs[j].period => i = j
  /\ \A p \in Period : \E i \in Period : inputs[i].period = p

\* What the first inputs, as many as there are months, amount to.
YearSum(inputs) == SumFunction([i \in Period |-> inputs[i].amount])

\* Dividing by what the rates are parts of.
LEMMA ShareBounds ==
  ASSUME NEW a \in Int
  PROVE  /\ a \div MaxRate \in Int
         /\ 10000 * (a \div MaxRate) <= a
         /\ a <= 10000 * (a \div MaxRate) + 9999
BY DEF MaxRate

LEMMA PeriodIsFinite ==
  /\ Periods \in Nat /\ Periods >= 1
  /\ Period \in SUBSET Nat /\ IsFiniteSet(Period) /\ Cardinality(Period) = Periods
<1>1. Periods \in Nat /\ Periods >= 1
  BY AnnualAssumption
<1>2. IsFiniteSet(1..Periods) /\ Cardinality(1..Periods) = Periods
  BY <1>1, NumbersUpTo
<1>. QED
  BY <1>1, <1>2 DEF Period

\* As many inputs as months, with every month among theirs, have each month once.
LEMMA WholeYearIsTaken ==
  ASSUME NEW R, NEW inputs \in Seq(R), WholeYear(inputs)
  PROVE  YearTaken(inputs) /\ DOMAIN inputs = Period
<1>1. PICK present : present = {inputs[i].period : i \in DOMAIN inputs}
  OBVIOUS
<1>2. Len(inputs) = Periods /\ Cardinality(present) = Periods /\ Period \subseteq present
  BY <1>1 DEF WholeYear
<1>3. DOMAIN inputs = Period
  BY <1>2 DEF Period
<1>4. PICK at : at = [i \in Period |-> inputs[i].period]
  OBVIOUS
<1>5. at \in Surjection(Period, present)
  <2>1. at \in [Period -> present]
    BY <1>1, <1>3, <1>4
  <2>2. \A p \in present : \E i \in Period : at[i] = p
    BY <1>1, <1>3, <1>4
  <2>. QED BY <2>1, <2>2 DEF Surjection
<1>6. IsFiniteSet(Period) /\ Cardinality(Period) = Periods
  BY PeriodIsFinite
<1>7. IsFiniteSet(present)
  BY <1>5, <1>6, FS_Surjection
<1>8. present = Period
  BY <1>2, <1>6, <1>7, FS_Subset
<1>9. at \in Injection(Period, present)
  BY <1>2, <1>5, <1>6, FS_SurjSameCardinalityImpliesInj
<1>10. \A i, j \in Period : at[i] = at[j] => i = j
  BY <1>9 DEF Injection, IsInjective
<1>11. /\ at \in [Period -> Period]
       /\ \A p \in Period : \E i \in Period : at[i] = p
  BY <1>5, <1>8 DEF Surjection
<1>. QED
  BY <1>3, <1>4, <1>10, <1>11 DEF YearTaken

\* An input that comes later does not change the year.
LEMMA LaterInputs ==
  ASSUME NEW R, NEW inputs \in Seq(R), NEW x \in R
  PROVE  /\ Append(inputs, x) \in Seq(R)
         /\ YearTaken(inputs) => /\ YearTaken(Append(inputs, x))
                                 /\ YearSum(Append(inputs, x)) = YearSum(inputs)
<1>1. PICK more : more = Append(inputs, x)
  OBVIOUS
<1>2. /\ more \in Seq(R)
      /\ DOMAIN inputs \subseteq DOMAIN more
      /\ \A i \in DOMAIN inputs : more[i] = inputs[i]
  BY <1>1
<1>3. ASSUME YearTaken(inputs)
      PROVE  YearTaken(more) /\ YearSum(more) = YearSum(inputs)
  <2>1. Period \subseteq DOMAIN inputs
    BY <1>3 DEF YearTaken
  <2>2. \A i \in Period : more[i] = inputs[i]
    BY <1>2, <2>1
  <2>3. YearTaken(more)
    BY <1>2, <1>3, <2>2 DEF YearTaken
  <2>4. [i \in Period |-> more[i].amount] = [i \in Period |-> inputs[i].amount]
    BY <2>2
  <2>. QED BY <2>3, <2>4 DEF YearSum
<1>. QED
  BY <1>1, <1>2, <1>3

\* In a year each month is paid once.
LEMMA OncePerMonth ==
  ASSUME NEW inputs, YearTaken(inputs), \A i \in Period : inputs[i].amount \in Int,
         NEW i \in Period
  PROVE  /\ {j \in 1..Periods : inputs[j].period = inputs[i].period} = {i}
         /\ Of(inputs, inputs[i].period) = inputs[i].amount
<1>1. {j \in 1..Periods : inputs[j].period = inputs[i].period} = {i}
  BY DEF YearTaken, Period
<1>2. PICK f : f = [j \in Period |-> inputs[j].amount]
  OBVIOUS
<1>3. Of(inputs, inputs[i].period) = SumFunction([j \in {i} |-> inputs[j].amount])
  BY <1>1, Zenon DEF Of
<1>4. [j \in {i} |-> inputs[j].amount] = [j \in {i} |-> f[j]]
  BY <1>2
<1>5. Of(inputs, inputs[i].period) = Part(f, {i})
  BY <1>3, <1>4 DEF Part
<1>6. \A j \in Period : f[j] \in Int
  BY <1>2
<1>7. Part(f, {i}) = f[i] + Part(f, {i} \ {i}) /\ Part(f, {}) = 0
  <2>1. PICK t : t = {i}
    OBVIOUS
  <2>2. t \in SUBSET Period /\ i \in t
    BY <2>1
  <2>3. IsFiniteSet(Period)
    BY PeriodIsFinite
  <2>4. Part(f, t) = f[i] + Part(f, t \ {i}) /\ Part(f, {}) = 0
    BY <1>6, <2>2, <2>3, PartSums
  <2>. QED BY <2>1, <2>4
<1>8. {i} \ {i} = {}
  OBVIOUS
<1>9. Part(f, {i}) = f[i] + 0 /\ f[i] \in Int
  BY <1>6, <1>7, <1>8
<1>. QED
  BY <1>1, <1>2, <1>5, <1>9

\* So a year is the sum of its months.
LEMMA YearByMonth ==
  ASSUME NEW inputs, YearTaken(inputs), \A i \in Period : inputs[i].amount \in Int
  PROVE  /\ \A p \in Period : Of(inputs, p) \in Int
         /\ \A p \in Period : Cardinality({i \in 1..Periods : inputs[i].period = p}) = 1
         /\ YearSum(inputs) \in Int
         /\ SumFunction([p \in Period |-> Of(inputs, p)]) = YearSum(inputs)
<1>1. ASSUME NEW p \in Period
      PROVE  /\ Of(inputs, p) \in Int
             /\ Cardinality({i \in 1..Periods : inputs[i].period = p}) = 1
  <2>1. PICK i \in Period : inputs[i].period = p
    BY DEF YearTaken
  <2>2. /\ {j \in 1..Periods : inputs[j].period = p} = {i}
        /\ Of(inputs, p) = inputs[i].amount
    BY <2>1, OncePerMonth
  <2>3. Cardinality({i}) = 1
    BY FS_Singleton
  <2>4. Cardinality({j \in 1..Periods : inputs[j].period = p}) = 1
    BY <2>2, <2>3, Zenon
  <2>. QED BY <2>2, <2>4
<1>2. PICK e, f, at : /\ e = [i \in Period |-> inputs[i].amount]
                      /\ f = [p \in Period |-> Of(inputs, p)]
                      /\ at = [i \in Period |-> inputs[i].period]
  OBVIOUS
<1>3. /\ \A i \in Period : e[i] \in Int
      /\ \A p \in Period : f[p] \in Int
  BY <1>1, <1>2
<1>4. Renumbers(e, Period, f, Period)
  <2>1. at \in [Period -> Period]
    BY <1>2 DEF YearTaken
  <2>2. /\ \A m, n \in Period : at[m] = at[n] => m = n
        /\ \A p \in Period : \E n \in Period : at[n] = p
    BY <1>2 DEF YearTaken
  <2>3. ASSUME NEW n \in Period
        PROVE  e[n] = f[at[n]]
    <3>1. Of(inputs, inputs[n].period) = inputs[n].amount
      BY OncePerMonth
    <3>2. at[n] = inputs[n].period /\ at[n] \in Period
      BY <1>2, <2>1
    <3>. QED BY <1>2, <3>1, <3>2
  <2>. QED BY <2>1, <2>2, <2>3 DEF Renumbers
<1>5. Part(e, Period) = Part(f, Period) /\ Part(e, Period) \in Int
  <2>1. IsFiniteSet(Period)
    BY PeriodIsFinite
  <2>2. Part(e, Period) = Part(f, Period)
    BY <1>3, <1>4, <2>1, PartRenumbered
  <2>3. Part(e, Period) \in Int
    BY <1>3, <2>1, PartSums
  <2>. QED BY <2>2, <2>3
<1>6. YearSum(inputs) = Part(e, Period)
  BY <1>2 DEF YearSum, Part
<1>7. SumFunction([p \in Period |-> Of(inputs, p)]) = Part(f, Period)
  BY <1>2 DEF Part
<1>. QED
  BY <1>1, <1>5, <1>6, <1>7

\* Shares rounded one by one fall short of the share of the sum by less than one
\* for each of them.
LEMMA SharesRound ==
  ASSUME NEW S, IsFiniteSet(S), NEW a, NEW f, NEW r \in Int,
         \A x \in S : a[x] \in Int /\ f[x] = ShareOf(a[x], r)
  PROVE  /\ Part(a, S) \in Int /\ Part(f, S) \in Int
         /\ 10000 * Part(f, S) <= Part(a, S) * r
         /\ Part(a, S) * r <= 10000 * Part(f, S) + 9999 * Cardinality(S)
<1>. DEFINE P == {s \in SUBSET S :
                    /\ 10000 * Part(f, s) <= Part(a, s) * r
                    /\ Part(a, s) * r <= 10000 * Part(f, s) + 9999 * Cardinality(s)}
<1>1. ASSUME NEW x \in S
      PROVE  /\ a[x] \in Int /\ f[x] \in Int
             /\ 10000 * f[x] <= a[x] * r /\ a[x] * r <= 10000 * f[x] + 9999
  <2>1. PICK n, q : n = a[x] * r /\ q = f[x]
    OBVIOUS
  <2>2. n \in Int /\ q = n \div MaxRate
    BY <2>1 DEF ShareOf
  <2>3. q \in Int /\ 10000 * q <= n /\ n <= 10000 * q + 9999
    BY <2>2, ShareBounds
  <2>. QED BY <2>1, <2>3
<1>2. \A x \in S : a[x] \in Int
  OBVIOUS
<1>3. \A x \in S : f[x] \in Int
  BY <1>1
<1>4. \A s \in SUBSET S : Part(a, s) \in Int /\ Part(f, s) \in Int
  BY <1>2, <1>3, PartSums
<1>5. {} \in P
  <2>1. Part(a, {}) = 0 /\ Part(f, {}) = 0
    BY <1>2, <1>3, PartSums
  <2>2. Cardinality({}) = 0
    BY FS_EmptySet
  <2>. QED BY <2>1, <2>2
<1>6. ASSUME NEW s \in SUBSET S, NEW x \in s, s \ {x} \in P
      PROVE  s \in P
  <2>1. PICK t : t = s \ {x}
    OBVIOUS
  <2>2. /\ t \in SUBSET S
        /\ 10000 * Part(f, t) <= Part(a, t) * r
        /\ Part(a, t) * r <= 10000 * Part(f, t) + 9999 * Cardinality(t)
    BY <1>6, <2>1
  <2>3. Part(a, s) = a[x] + Part(a, t) /\ Part(f, s) = f[x] + Part(f, t)
    BY <1>2, <1>3, <2>1, PartSums
  <2>4. Cardinality(t) \in Nat /\ Cardinality(s) = Cardinality(t) + 1
    <3>1. IsFiniteSet(s)
      BY FS_Subset
    <3>2. Cardinality(s) \in Nat /\ IsFiniteSet(t) /\ Cardinality(t) \in Nat
      BY <3>1, <2>1, <2>2, FS_CardinalityType, FS_Subset
    <3>3. Cardinality(t) = Cardinality(s) - 1
      BY <3>1, <2>1, FS_RemoveElement
    <3>. QED BY <3>2, <3>3
  <2>5. PICK at, ax, ft, fx, n :
          at = Part(a, t) /\ ax = a[x] /\ ft = Part(f, t) /\ fx = f[x] /\ n = Cardinality(t)
    OBVIOUS
  <2>6. at \in Int /\ ax \in Int /\ ft \in Int /\ fx \in Int /\ n \in Nat
    BY <1>1, <1>4, <2>2, <2>4, <2>5
  <2>7. (ax + at) * r = ax * r + at * r
    BY <2>6
  <2>8. /\ 10000 * (fx + ft) <= (ax + at) * r
        /\ (ax + at) * r <= 10000 * (fx + ft) + 9999 * (n + 1)
    BY <1>1, <2>2, <2>5, <2>6, <2>7
  <2>. QED BY <2>3, <2>4, <2>5, <2>8
<1>7. SUBSET S \subseteq P
  <2>1. \A s \in SUBSET S : s # {} => \E x \in s : s \ {x} \in P => s \in P
    BY <1>6
  <2>. HIDE DEF P
  <2>. QED BY <1>5, <2>1, SubsetsFrom
<1>. QED
  BY <1>4, <1>7

-----------------------------------------------------------------------------
(* One lemma per operation of the annual declaration *)

\* What result accounts hold together.
Holding(balances) == SumFunction([i \in DOMAIN balances |-> balances[i].balance])

\* A figure is of a whole year of months, a settlement of one of payments too.
FiguresInv ==
  /\ months \in Seq(MonthInput) /\ cedulas \in Seq(Cedula)
  /\ income # NoFigure => income.amount \in Int /\ YearTaken(months)
  /\ liability # NoFigure => liability.isr \in Int /\ YearTaken(months)

SettlementInv ==
  settlement # NoFigure =>
    /\ YearTaken(months) /\ YearTaken(cedulas)
    /\ settlement.isr \in Int
    /\ settlement.credit = YearSum(cedulas)
    /\ settlement.balance = settlement.isr - settlement.credit
    /\ settlement.kind = BalanceKind(settlement.balance)

AnswersInv ==
  /\ report # NoFigure => report.after = report.before - Holding(report.balances)
  /\ payload # NoFigure => payload.balance = payload.isr - payload.credit

AnnualInv == FiguresInv /\ SettlementInv /\ AnswersInv

LEMMA MonthsAmount ==
  ASSUME NEW inputs \in Seq(MonthInput), NEW i \in DOMAIN inputs
  PROVE  inputs[i].amount \in Int
<1>1. PICK m : m = inputs[i]
  OBVIOUS
<1>2. m \in MonthInput
  BY <1>1
<1>3. m \in [period : Nat, foreign : BOOLEAN, closed : BOOLEAN, amount : Int]
  BY <1>2, AnnualAssumption
<1>. QED
  BY <1>1, <1>3

LEMMA CedulasAmount ==
  ASSUME NEW inputs \in Seq(Cedula), NEW i \in DOMAIN inputs
  PROVE  inputs[i].amount \in Int
<1>1. PICK m : m = inputs[i]
  OBVIOUS
<1>2. m \in Cedula
  BY <1>1
<1>3. m \in [period : Nat, foreign : BOOLEAN, amount : Int]
  BY <1>2, AnnualAssumption
<1>. QED
  BY <1>1, <1>3

\* A whole year of inputs is summed as it is.
LEMMA WholeYearSum ==
  ASSUME NEW R, NEW inputs \in Seq(R), WholeYear(inputs),
         \A i \in DOMAIN inputs : inputs[i].amount \in Int
  PROVE  YearTaken(inputs) /\ Sum(inputs) = YearSum(inputs) /\ Sum(inputs) \in Int
<1>1. YearTaken(inputs) /\ DOMAIN inputs = Period
  BY WholeYearIsTaken
<1>2. Sum(inputs) = YearSum(inputs)
  BY <1>1 DEF Sum, YearSum
<1>3. YearSum(inputs) \in Int
  BY <1>1, YearByMonth
<1>. QED
  BY <1>1, <1>2, <1>3

LEMMA TakeMonthKeeps ==
  ASSUME AnnualInv, NEW m \in MonthInput, TakeMonth(m)
  PROVE  AnnualInv'
<1>1. /\ months \in Seq(MonthInput)
      /\ UNCHANGED <<cedulas, income, liability, settlement, report, payload>>
      /\ months' = Append(months, m)
  BY DEF TakeMonth, AnnualInv, FiguresInv
<1>2. months' \in Seq(MonthInput) /\ (YearTaken(months) => YearTaken(months'))
  BY <1>1, LaterInputs
<1>. QED
  BY <1>1, <1>2 DEF AnnualInv, FiguresInv, SettlementInv, AnswersInv

LEMMA TakeCedulaKeeps ==
  ASSUME AnnualInv, NEW c \in Cedula, TakeCedula(c)
  PROVE  AnnualInv'
<1>1. /\ cedulas \in Seq(Cedula)
      /\ UNCHANGED <<months, income, liability, settlement, report, payload>>
      /\ cedulas' = Append(cedulas, c)
  BY DEF TakeCedula, AnnualInv, FiguresInv
<1>2. /\ cedulas' \in Seq(Cedula)
      /\ YearTaken(cedulas) => YearTaken(cedulas') /\ YearSum(cedulas') = YearSum(cedulas)
  BY <1>1, LaterInputs
<1>. QED
  BY <1>1, <1>2 DEF AnnualInv, FiguresInv, SettlementInv, AnswersInv

LEMMA NetIncomeKeeps ==
  ASSUME AnnualInv, NEW adjustment \in Adjustment, DetermineAnnualNetIncome(adjustment)
  PROVE  AnnualInv'
<1>1. /\ months \in Seq(MonthInput) /\ WholeYear(months)
      /\ UNCHANGED <<months, cedulas, liability, settlement, report, payload>>
      /\ income' = [amount |-> Sum(months) + adjustment.additions - adjustment.deductions]
  BY DEF DetermineAnnualNetIncome, AnnualInv, FiguresInv
<1>2. \A i \in DOMAIN months : months[i].amount \in Int
  BY <1>1, MonthsAmount
<1>3. YearTaken(months) /\ Sum(months) \in Int
  BY <1>1, <1>2, WholeYearSum
<1>4. adjustment.additions \in Nat /\ adjustment.deductions \in Nat
  <2>1. adjustment \in [additions : Nat, deductions : Nat]
    BY AnnualAssumption
  <2>. QED BY <2>1
<1>5. income'.amount \in Int
  BY <1>1, <1>3, <1>4
<1>. QED
  BY <1>1, <1>3, <1>5 DEF AnnualInv, FiguresInv, SettlementInv, AnswersInv

LEMMA AnnualIsrKeeps ==
  ASSUME AnnualInv, NEW policy \in Rate, ComputeAnnualIsr(policy)
  PROVE  AnnualInv'
<1>1. /\ income # NoFigure
      /\ UNCHANGED <<months, cedulas, income, settlement, report, payload>>
      /\ liability'.isr = ShareOf(income.amount, policy.rate)
  BY DEF ComputeAnnualIsr
<1>2. income.amount \in Int /\ YearTaken(months)
  BY <1>1 DEF AnnualInv, FiguresInv
<1>3. policy.rate \in Int
  <2>1. policy \in [rate : Int, ceiling : Int]
    BY AnnualAssumption
  <2>. QED BY <2>1
<1>4. PICK n : n = income.amount * policy.rate
  OBVIOUS
<1>5. n \in Int /\ liability'.isr = n \div MaxRate
  BY <1>1, <1>2, <1>3, <1>4 DEF ShareOf
<1>6. liability'.isr \in Int
  BY <1>5, ShareBounds
<1>. QED
  BY <1>1, <1>2, <1>6 DEF AnnualInv, FiguresInv, SettlementInv, AnswersInv

LEMMA SettlementKeeps ==
  ASSUME AnnualInv, ComputeAnnualSettlement
  PROVE  AnnualInv'
<1>1. /\ liability # NoFigure /\ WholeYear(cedulas) /\ cedulas \in Seq(Cedula)
      /\ UNCHANGED <<months, cedulas, income, liability, report, payload>>
  BY DEF ComputeAnnualSettlement, AnnualInv, FiguresInv
<1>2. liability.isr \in Int /\ YearTaken(months)
  BY <1>1 DEF AnnualInv, FiguresInv
<1>3. \A i \in DOMAIN cedulas : cedulas[i].amount \in Int
  BY <1>1, CedulasAmount
<1>4. YearTaken(cedulas) /\ Sum(cedulas) = YearSum(cedulas)
  BY <1>1, <1>3, WholeYearSum
<1>5. PICK balance : balance = liability.isr - Sum(cedulas)
  OBVIOUS
<1>6. settlement' = [isr |-> liability.isr, credit |-> Sum(cedulas),
                     balance |-> balance, kind |-> BalanceKind(balance)]
  BY <1>5 DEF ComputeAnnualSettlement
<1>7. /\ settlement'.isr = liability.isr /\ settlement'.credit = Sum(cedulas)
      /\ settlement'.balance = balance /\ settlement'.kind = BalanceKind(balance)
  BY <1>6
<1>8. SettlementInv'
  BY <1>1, <1>2, <1>4, <1>5, <1>7 DEF SettlementInv
<1>9. FiguresInv' /\ AnswersInv'
  BY <1>1 DEF AnnualInv, FiguresInv, AnswersInv
<1>. QED
  BY <1>8, <1>9 DEF AnnualInv

LEMMA AnnualResultsKeep ==
  ASSUME AnnualInv, NEW balances \in Balances, NEW before, CloseAnnualResults(balances, before)
  PROVE  AnnualInv'
<1>1. PICK entries : entries = CloseResultAccounts(balances, Chart).entries
  OBVIOUS
<1>2. /\ CloseResultAccounts(balances, Chart).ok
      /\ UNCHANGED <<months, cedulas, income, liability, settlement, payload>>
      /\ report' = [balances |-> balances, settlement |-> settlement, before |-> before,
                    after |-> before - Effect(entries, RetainedEarnings)]
  BY <1>1 DEF CloseAnnualResults
<1>3. PICK D : D = DOMAIN balances
  OBVIOUS
<1>4. /\ D \in SUBSET Nat /\ IsFiniteSet(D)
      /\ \A i \in D : balances[i].balance \in Int
  <2>1. balances \in Seq([account : Account, balance : Int])
    BY AnnualAssumption
  <2>. QED BY <1>3, <2>1, BalancesOf
<1>5. PICK held : held = [i \in D |-> balances[i].balance]
  OBVIOUS
<1>6. /\ held \in [D -> Int]
      /\ \A i \in D : held[i] = IF RetainedEarnings \in {balances[i].account, RetainedEarnings}
                               THEN balances[i].balance ELSE 0
  BY <1>4, <1>5
<1>7. PICK account : account = RetainedEarnings
  OBVIOUS
<1>8. Effect(CloseResultAccounts(balances, Chart).entries, account)
        = IF account = RetainedEarnings THEN SumFunction(held) ELSE -SumFunction(held)
  <2>1. \A i \in D : held[i] = IF account \in {balances[i].account, RetainedEarnings}
                              THEN balances[i].balance ELSE 0
    BY <1>6, <1>7
  <2>. QED BY <1>2, <1>3, <1>4, <1>6, <2>1, ClosingMovesAll
<1>9. Effect(entries, RetainedEarnings) = Holding(balances)
  BY <1>1, <1>3, <1>5, <1>7, <1>8 DEF Holding
<1>10. /\ report'.balances = balances /\ report'.before = before
       /\ report'.after = before - Effect(entries, RetainedEarnings)
  BY <1>2
<1>11. AnswersInv'
  BY <1>2, <1>9, <1>10 DEF AnnualInv, AnswersInv
<1>12. FiguresInv' /\ SettlementInv'
  BY <1>2 DEF AnnualInv, FiguresInv, SettlementInv
<1>. QED
  BY <1>11, <1>12 DEF AnnualInv

LEMMA DeclarationKeeps ==
  ASSUME AnnualInv, BuildAnnualDeclaration
  PROVE  AnnualInv'
<1>1. /\ settlement # NoFigure
      /\ UNCHANGED <<months, cedulas, income, liability, settlement, report>>
      /\ payload'.isr = settlement.isr /\ payload'.credit = settlement.credit
      /\ payload'.balance = settlement.balance
  BY DEF BuildAnnualDeclaration
<1>. QED
  BY <1>1 DEF AnnualInv, FiguresInv, SettlementInv, AnswersInv

LEMMA YearRests ==
  ASSUME AnnualInv, UNCHANGED annualVars
  PROVE  AnnualInv'
BY DEF annualVars, AnnualInv, FiguresInv, SettlementInv, AnswersInv

LEMMA AnnualInvHolds == FiscalSpec => []AnnualInv
<1>1. FiscalInit => AnnualInv
  BY DEF FiscalInit, AnnualInit, AnnualInv, FiguresInv, SettlementInv, AnswersInv
<1>2. AnnualInv /\ [FiscalNext]_<<vars, findingVars, annualVars>> => AnnualInv'
  BY TakeMonthKeeps, TakeCedulaKeeps, NetIncomeKeeps, AnnualIsrKeeps, SettlementKeeps,
     AnnualResultsKeep, DeclarationKeeps, YearRests
  DEF FiscalNext, AnnualNext
<1>. QED
  BY <1>1, <1>2, PTL DEF FiscalSpec

-----------------------------------------------------------------------------
(* What follows for a year *)

\* Where each month paid its share of its income at the rate of the tax, what is
\* owed at the end is less than a cent for each month.
LEMMA RoundingIsOwed ==
  ASSUME AnnualInv, settlement # NoFigure, NEW r \in Int,
         settlement.isr = ShareOf(YearSum(months), r),
         \A p \in Period : Of(cedulas, p) = ShareOf(Of(months, p), r)
  PROVE  settlement.balance \in 0..(Periods - 1)
<1>1. /\ YearTaken(months) /\ YearTaken(cedulas)
      /\ months \in Seq(MonthInput) /\ cedulas \in Seq(Cedula)
      /\ settlement.balance = settlement.isr - YearSum(cedulas)
  BY DEF AnnualInv, FiguresInv, SettlementInv
<1>2. /\ \A i \in Period : months[i].amount \in Int
      /\ \A i \in Period : cedulas[i].amount \in Int
  BY <1>1, MonthsAmount, CedulasAmount DEF YearTaken
<1>3. PICK a, f : /\ a = [p \in Period |-> Of(months, p)]
                  /\ f = [p \in Period |-> Of(cedulas, p)]
  OBVIOUS
<1>4. /\ \A p \in Period : Of(months, p) \in Int
      /\ SumFunction(a) = YearSum(months) /\ SumFunction(f) = YearSum(cedulas)
  BY <1>1, <1>2, <1>3, YearByMonth
<1>5. SumFunction(a) = Part(a, Period) /\ SumFunction(f) = Part(f, Period)
  <2>1. a = [p \in Period |-> a[p]] /\ f = [p \in Period |-> f[p]]
    BY <1>3
  <2>. QED BY <2>1, Zenon DEF Part
<1>6. \A p \in Period : a[p] \in Int /\ f[p] = ShareOf(a[p], r)
  BY <1>3, <1>4
<1>7. PICK x, y, n, z : x = Part(a, Period) /\ y = Part(f, Period) /\ n = x * r /\ z = n \div MaxRate
  OBVIOUS
<1>8. x \in Int /\ y \in Int /\ 10000 * y <= n /\ n <= 10000 * y + 9999 * Periods
  <2>1. IsFiniteSet(Period) /\ Cardinality(Period) = Periods
    BY PeriodIsFinite
  <2>2. /\ Part(a, Period) \in Int /\ Part(f, Period) \in Int
        /\ 10000 * Part(f, Period) <= Part(a, Period) * r
        /\ Part(a, Period) * r <= 10000 * Part(f, Period) + 9999 * Cardinality(Period)
    BY <1>6, <2>1, SharesRound
  <2>. QED BY <1>7, <2>1, <2>2
<1>9. n \in Int /\ z \in Int /\ 10000 * z <= n /\ n <= 10000 * z + 9999
  <2>1. n \in Int
    BY <1>7, <1>8
  <2>. QED BY <1>7, <2>1, ShareBounds
<1>10. settlement.balance = z - y
  BY <1>1, <1>4, <1>5, <1>7 DEF ShareOf
<1>11. Periods \in Nat /\ Periods >= 1
  BY PeriodIsFinite
<1>. QED
  BY <1>8, <1>9, <1>10, <1>11

\* The first months amount to what the year does.
LEMMA FirstMonths ==
  ASSUME NEW R, NEW inputs \in Seq(R), YearTaken(inputs)
  PROVE  Sum(SubSeq(inputs, 1, Periods)) = YearSum(inputs)
<1>1. Periods \in Nat /\ Periods >= 1
  BY PeriodIsFinite
<1>2. PICK first : first = SubSeq(inputs, 1, Periods)
  OBVIOUS
<1>3. \A i \in 1..Periods : inputs[i] \in R
  BY DEF YearTaken, Period
<1>4. /\ first \in Seq(R) /\ Len(first) = Periods
      /\ \A i \in 1..Periods : first[i] = inputs[i]
  BY <1>1, <1>2, <1>3, SubSeqProperties
<1>5. DOMAIN first = Period
  BY <1>4 DEF Period
<1>6. [i \in DOMAIN first |-> first[i].amount] = [i \in Period |-> inputs[i].amount]
  BY <1>4, <1>5 DEF Period
<1>. QED
  BY <1>2, <1>6, Zenon DEF Sum, YearSum

LEMMA SettledAddsUp ==
  ASSUME AnnualInv
  PROVE  YearAddsUp
<1>1. ASSUME settlement # NoFigure
      PROVE  /\ \A p \in Period : Cardinality({i \in 1..Periods : cedulas[i].period = p}) = 1
             /\ settlement.balance
                  = settlement.isr - SumFunction([p \in Period |-> Of(cedulas, p)])
             /\ settlement.kind = "in-favor" <=> settlement.balance < 0
             /\ \A policy \in Rate :
                  (/\ settlement.isr = ShareOf(Sum(SubSeq(months, 1, Periods)), policy.rate)
                   /\ \A p \in Period : /\ Of(months, p) >= 0
                                        /\ Of(cedulas, p) = ShareOf(Of(months, p), policy.rate))
                    => settlement.balance \in 0..(Periods - 1)
  <2>1. /\ YearTaken(months) /\ YearTaken(cedulas)
        /\ months \in Seq(MonthInput) /\ cedulas \in Seq(Cedula)
        /\ settlement.isr \in Int
        /\ settlement.balance = settlement.isr - YearSum(cedulas)
        /\ settlement.kind = BalanceKind(settlement.balance)
    BY <1>1 DEF AnnualInv, FiguresInv, SettlementInv
  <2>2. \A i \in Period : cedulas[i].amount \in Int
    BY <2>1, CedulasAmount DEF YearTaken
  <2>3. /\ \A p \in Period : Cardinality({i \in 1..Periods : cedulas[i].period = p}) = 1
        /\ YearSum(cedulas) \in Int
        /\ SumFunction([p \in Period |-> Of(cedulas, p)]) = YearSum(cedulas)
    BY <2>1, <2>2, YearByMonth
  <2>4. settlement.kind = "in-favor" <=> settlement.balance < 0
    <3>1. settlement.balance \in Int
      BY <2>1, <2>3
    <3>. QED BY <2>1, <3>1 DEF BalanceKind
  <2>5. ASSUME NEW policy \in Rate,
               settlement.isr = ShareOf(Sum(SubSeq(months, 1, Periods)), policy.rate),
               \A p \in Period : Of(cedulas, p) = ShareOf(Of(months, p), policy.rate)
        PROVE  settlement.balance \in 0..(Periods - 1)
    <3>1. PICK r : r = policy.rate
      OBVIOUS
    <3>2. r \in Int
      <4>1. policy \in [rate : Int, ceiling : Int]
        BY AnnualAssumption
      <4>. QED BY <3>1, <4>1
    <3>3. settlement.isr = ShareOf(YearSum(months), r)
      BY <2>1, <2>5, <3>1, FirstMonths
    <3>4. \A p \in Period : Of(cedulas, p) = ShareOf(Of(months, p), r)
      BY <2>5, <3>1
    <3>. QED BY <1>1, <3>2, <3>3, <3>4, RoundingIsOwed
  <2>. QED BY <2>1, <2>3, <2>4, <2>5
<1>2. /\ report # NoFigure =>
           report.after = report.before - SumFunction([i \in DOMAIN report.balances |->
                                                         report.balances[i].balance])
      /\ payload # NoFigure => payload.balance = payload.isr - payload.credit
  BY DEF AnnualInv, AnswersInv, Holding
<1>. QED
  BY <1>1, <1>2 DEF YearAddsUp

\* A settlement credits each month once; months that paid their share leave less
\* than a cent each; and what the result accounts held is in retained earnings
\* (settlement.ts, isr.ts, report.ts, declaration.ts).
THEOREM YearHolds == FiscalSpec => []YearAddsUp
BY AnnualInvHolds, SettledAddsUp, PTL

-----------------------------------------------------------------------------
(* Lists and what is in them *)

Elements(s) == {s[i] : i \in DOMAIN s}

Sequence(s) == s \in Seq(Elements(s))

LEMMA ListIsSequence ==
  ASSUME NEW R, NEW s \in Seq(R)
  PROVE  Sequence(s) /\ DOMAIN s = 1..Len(s) /\ Len(s) \in Nat
<1>1. Len(s) \in Nat /\ DOMAIN s = 1..Len(s)
  OBVIOUS
<1>2. s \in [1..Len(s) -> Elements(s)]
  BY <1>1 DEF Elements
<1>. QED
  BY <1>1, <1>2 DEF Sequence

LEMMA FunctionIsSequence ==
  ASSUME NEW n \in Nat, NEW R, NEW s \in [1..n -> R]
  PROVE  Sequence(s)
<1>1. s \in Seq(R)
  OBVIOUS
<1>. QED
  BY <1>1, ListIsSequence

\* Two lists one after the other hold what either holds.
LEMMA Joined ==
  ASSUME NEW s, NEW t, Sequence(s), Sequence(t)
  PROVE  Sequence(s \o t) /\ Elements(s \o t) = Elements(s) \union Elements(t)
<1>1. PICK R : R = Elements(s) \union Elements(t)
  OBVIOUS
<1>2. s \in Seq(R) /\ t \in Seq(R)
  BY <1>1 DEF Sequence
<1>3. PICK j : j = s \o t
  OBVIOUS
<1>4. /\ j \in Seq(R) /\ Len(j) = Len(s) + Len(t)
      /\ \A i \in 1..Len(s) : j[i] = s[i]
      /\ \A i \in 1..Len(t) : j[Len(s) + i] = t[i]
  BY <1>2, <1>3, ConcatProperties
<1>5. PICK m \in Nat, n \in Nat : m = Len(s) /\ n = Len(t)
  BY <1>2
<1>6. DOMAIN s = 1..m /\ DOMAIN t = 1..n /\ DOMAIN j = 1..(m + n)
  BY <1>2, <1>4, <1>5
<1>7. \A i \in 1..n : m + i \in 1..(m + n) /\ j[m + i] = t[i]
  BY <1>4, <1>5
<1>8. \A k \in 1..(m + n) : k \in 1..m \/ (k - m \in 1..n /\ j[k] = t[k - m])
  <2>. SUFFICES ASSUME NEW k \in 1..(m + n), k \notin 1..m
                PROVE  k - m \in 1..n /\ j[k] = t[k - m]
    OBVIOUS
  <2>1. k - m \in 1..n /\ m + (k - m) = k
    OBVIOUS
  <2>. QED BY <1>7, <2>1
<1>9. Elements(j) \subseteq R
  BY <1>1, <1>4, <1>5, <1>6, <1>8 DEF Elements
<1>10. Elements(s) \subseteq Elements(j)
  BY <1>4, <1>5, <1>6 DEF Elements
<1>11. Elements(t) \subseteq Elements(j)
  BY <1>6, <1>7 DEF Elements
<1>12. Sequence(j)
  BY <1>4, ListIsSequence
<1>. QED
  BY <1>1, <1>3, <1>9, <1>10, <1>11, <1>12

\* What is made of a finite set's elements is a finite set.
LEMMA FiniteImage ==
  ASSUME NEW S, IsFiniteSet(S), NEW f
  PROVE  IsFiniteSet({f[x] : x \in S})
<1>1. PICK T, g : T = {f[x] : x \in S} /\ g = [x \in S |-> f[x]]
  OBVIOUS
<1>2. g \in Surjection(S, T)
  BY <1>1 DEF Surjection
<1>3. IsFiniteSet(T)
  BY <1>2, FS_Surjection
<1>. QED
  BY <1>1, <1>3

-----------------------------------------------------------------------------
(* What a close makes candidates of *)

LEMMA MovementsFinite ==
  ASSUME NEW rows \in Seq(Row), NEW source
  PROVE  IsFiniteSet(MovementsOf(rows, source))
<1>1. DOMAIN rows = 1..Len(rows) /\ Len(rows) \in Nat
  BY ListIsSequence
<1>2. IsFiniteSet(1..Len(rows))
  BY <1>1, NumbersUpTo
<1>3. PICK A : A = Accepted(rows)
  OBVIOUS
<1>4. IsFiniteSet(A)
  BY <1>1, <1>2, <1>3, FS_Subset DEF Accepted
<1>5. PICK f : f = [i \in A |-> MovementOf(rows[i], source)]
  OBVIOUS
<1>6. IsFiniteSet({f[i] : i \in A})
  BY <1>4, FiniteImage
<1>7. {f[i] : i \in A} = MovementsOf(rows, source)
  BY <1>3, <1>5 DEF MovementsOf
<1>. QED
  BY <1>6, <1>7

LEMMA OrderIsSequence ==
  ASSUME NEW movements, IsFiniteSet(movements)
  PROVE  Sequence(InKeyOrder(movements))
<1>1. PICK n \in Nat : n = Cardinality(movements)
  BY FS_CardinalityType
<1>2. PICK order : order = InKeyOrder(movements)
  OBVIOUS
<1>3. PICK R : R = {order[i] : i \in 1..n}
  OBVIOUS
<1>4. order \in [1..n -> R]
  BY <1>1, <1>2, <1>3 DEF InKeyOrder
<1>. QED
  BY <1>2, <1>4, FunctionIsSequence

LEMMA DraftsAreSequence ==
  ASSUME NEW bank, NEW ledger, IsFiniteSet(bank), IsFiniteSet(ledger)
  PROVE  Sequence(Adjustments(Reconcile(bank, ledger)))
<1>1. PICK r : r = Reconcile(bank, ledger)
  OBVIOUS
<1>2. r.bankOnly \subseteq bank /\ r.ledgerOnly \subseteq ledger
  BY <1>1 DEF Reconcile
<1>3. IsFiniteSet(r.bankOnly) /\ IsFiniteSet(r.ledgerOnly)
  BY <1>2, FS_Subset
<1>4. Sequence(InKeyOrder(r.bankOnly)) /\ Sequence(InKeyOrder(r.ledgerOnly))
  BY <1>3, OrderIsSequence
<1>. QED
  BY <1>1, <1>4, Joined DEF Adjustments

\* The proposals for adjustments are a list and say so.
LEMMA AdjustmentsPropose ==
  ASSUME NEW scope, NEW books, books.bank \in Seq(Row), books.ledger \in Seq(Row)
  PROVE  /\ Sequence(AdjustmentProposals(scope, books))
         /\ \A p \in Elements(AdjustmentProposals(scope, books)) : p.subject[1] = "adjustment"
<1>1. PICK drafts : drafts = Adjustments(Differences(scope, books))
  OBVIOUS
<1>2. Sequence(drafts)
  <2>1. /\ IsFiniteSet(MovementsOf(books.bank, "bank"))
        /\ IsFiniteSet(MovementsOf(books.ledger, "ledger"))
    BY MovementsFinite
  <2>2. IsFiniteSet({})
    BY FS_EmptySet
  <2>3. CASE Reconciles(scope, books)
    BY <1>1, <2>1, <2>3, DraftsAreSequence DEF Differences
  <2>4. CASE ~Reconciles(scope, books)
    BY <1>1, <2>2, <2>4, DraftsAreSequence DEF Differences
  <2>. QED BY <2>3, <2>4
<1>3. PICK n \in Nat : DOMAIN drafts = 1..n
  BY <1>2, ListIsSequence DEF Sequence
<1>4. PICK ps : ps = AdjustmentProposals(scope, books)
  OBVIOUS
<1>5. /\ DOMAIN ps = 1..n
      /\ ps = [i \in 1..n |->
                 Proposal(<<"adjustment", i, drafts[i].reference, drafts[i].source, drafts[i].side>>,
                          drafts[i].amount, "partially-reversible")]
  BY <1>1, <1>3, <1>4 DEF AdjustmentProposals
<1>6. \A i \in 1..n : ps[i].subject[1] = "adjustment"
  BY <1>5 DEF Proposal
<1>7. ps \in [1..n -> Elements(ps)]
  BY <1>5 DEF Elements
<1>8. Sequence(ps)
  BY <1>7, FunctionIsSequence
<1>9. \A p \in Elements(ps) : p.subject[1] = "adjustment"
  BY <1>5, <1>6 DEF Elements
<1>. QED
  BY <1>4, <1>8, <1>9

\* Lists of inputs as the engines take them.
Given(books) ==
  /\ books.assets \in Seq([cost : Int, rate : Int])
  /\ books.provisions \in Seq([kind : STRING, aging : Int, exposure : Int, rate : Int])
  /\ books.balances \in Seq([account : Account, balance : Int])

\* A result that failed, or of no input, holds no entries.
LEMMA NoEntries ==
  /\ Sequence(Failed.entries) /\ Elements(Failed.entries) = {} /\ ~Failed.ok
  /\ Sequence(Computed(<<>>).entries) /\ Elements(Computed(<<>>).entries) = {}
<1>1. Sequence(<<>>) /\ Elements(<<>>) = {}
  BY DEF Sequence, Elements
<1>. QED
  BY <1>1 DEF Failed, Computed

\* An engine that answers each input of a list answers all of them.
LEMMA OneEntryEach ==
  ASSUME NEW n \in Nat, NEW entries, NEW R, entries \in [1..n -> R], NEW kind,
         \A i \in 1..n : entries[i].kind = kind /\ entries[i].n = i
  PROVE  /\ Sequence(entries)
         /\ \A e \in Elements(entries) : e.kind = kind
         /\ \A i \in 1..n : \E e \in Elements(entries) : e.kind = kind /\ e.n = i
<1>1. Sequence(entries)
  BY FunctionIsSequence
<1>2. DOMAIN entries = 1..n
  OBVIOUS
<1>. QED
  BY <1>1, <1>2 DEF Elements

LEMMA DepreciationAnswers ==
  ASSUME NEW R, NEW assets \in Seq(R), NEW policy
  PROVE  LET result == Depreciation(assets, policy)
         IN  /\ Sequence(result.entries)
             /\ \A e \in Elements(result.entries) : e.kind = "depreciation"
             /\ result.ok => \A n \in DOMAIN assets : \E e \in Elements(result.entries) :
                               e.kind = "depreciation" /\ e.n = n
<1>1. PICK entries : entries = [i \in DOMAIN assets |->
         Entry("depreciation", i, policy.expense, policy.accumulated, Monthly(assets[i]))]
  OBVIOUS
<1>2. PICK n \in Nat : DOMAIN assets = 1..n
  BY ListIsSequence
<1>3. /\ Sequence(entries)
      /\ \A e \in Elements(entries) : e.kind = "depreciation"
      /\ \A i \in 1..n : \E e \in Elements(entries) : e.kind = "depreciation" /\ e.n = i
  <2>1. PICK S : S = Elements(entries)
    OBVIOUS
  <2>2. entries \in [1..n -> S]
    BY <1>1, <1>2, <2>1 DEF Elements
  <2>3. \A i \in 1..n : entries[i].kind = "depreciation" /\ entries[i].n = i
    BY <1>1, <1>2 DEF Entry
  <2>. QED BY <2>2, <2>3, OneEntryEach
<1>4. PICK result : result = Depreciation(assets, policy)
  OBVIOUS
<1>5. result = Failed \/ result = Computed(entries)
  BY <1>1, <1>4 DEF Depreciation
<1>6. CASE result = Failed
  BY <1>4, <1>6, NoEntries
<1>7. CASE result = Computed(entries)
  <2>1. result.entries = entries
    BY <1>7 DEF Computed
  <2>. QED BY <1>2, <1>3, <1>4, <2>1
<1>. QED
  BY <1>5, <1>6, <1>7

LEMMA ProvisionsAnswer ==
  ASSUME NEW R, NEW inputs \in Seq(R), NEW policy
  PROVE  LET result == Provisions(inputs, policy)
         IN  /\ Sequence(result.entries)
             /\ \A e \in Elements(result.entries) : e.kind = "provision"
             /\ result.ok => \A n \in DOMAIN inputs : \E e \in Elements(result.entries) :
                               e.kind = "provision" /\ e.n = n
<1>1. PICK entries : entries = [i \in DOMAIN inputs |->
         Entry("provision", i, policy.expense, policy.liability,
               ShareOf(inputs[i].exposure, inputs[i].rate))]
  OBVIOUS
<1>2. PICK n \in Nat : DOMAIN inputs = 1..n
  BY ListIsSequence
<1>3. /\ Sequence(entries)
      /\ \A e \in Elements(entries) : e.kind = "provision"
      /\ \A i \in 1..n : \E e \in Elements(entries) : e.kind = "provision" /\ e.n = i
  <2>1. PICK S : S = Elements(entries)
    OBVIOUS
  <2>2. entries \in [1..n -> S]
    BY <1>1, <1>2, <2>1 DEF Elements
  <2>3. \A i \in 1..n : entries[i].kind = "provision" /\ entries[i].n = i
    BY <1>1, <1>2 DEF Entry
  <2>. QED BY <2>2, <2>3, OneEntryEach
<1>4. PICK result : result = Provisions(inputs, policy)
  OBVIOUS
<1>5. result = Failed \/ result = Computed(entries)
  BY <1>1, <1>4 DEF Provisions
<1>6. CASE result = Failed
  BY <1>4, <1>6, NoEntries
<1>7. CASE result = Computed(entries)
  <2>1. result.entries = entries
    BY <1>7 DEF Computed
  <2>. QED BY <1>2, <1>3, <1>4, <2>1
<1>. QED
  BY <1>5, <1>6, <1>7

LEMMA IsrAnswers ==
  ASSUME NEW input, NEW policy
  PROVE  LET result == ProvisionalIsr(input, policy)
         IN  /\ Sequence(result.entries)
             /\ \A e \in Elements(result.entries) : e.kind = "isr"
             /\ result.ok => \E e \in Elements(result.entries) : e.kind = "isr" /\ e.n = 1
<1>1. PICK e : e = Entry("isr", 1, policy.expense, policy.payable, Applied(input, policy))
  OBVIOUS
<1>2. e.kind = "isr" /\ e.n = 1
  BY <1>1 DEF Entry
<1>3. PICK entries : entries = <<e>>
  OBVIOUS
<1>4. Sequence(entries) /\ Elements(entries) = {e}
  <2>1. entries \in Seq({e})
    BY <1>3
  <2>2. DOMAIN entries = {1} /\ entries[1] = e
    BY <1>3
  <2>. QED BY <2>1, <2>2, ListIsSequence DEF Elements
<1>5. PICK result : result = ProvisionalIsr(input, policy)
  OBVIOUS
<1>6. result = Failed \/ result = Computed(entries)
  BY <1>1, <1>3, <1>5 DEF ProvisionalIsr
<1>7. CASE result = Failed
  BY <1>5, <1>7, NoEntries
<1>8. CASE result = Computed(entries)
  <2>1. result.entries = entries
    BY <1>8 DEF Computed
  <2>. QED BY <1>2, <1>4, <1>5, <2>1
<1>. QED
  BY <1>6, <1>7, <1>8

LEMMA ClosingAnswers ==
  ASSUME NEW balances \in Seq([account : Account, balance : Int]), NEW chart
  PROVE  LET result == CloseResultAccounts(balances, chart)
         IN  /\ Sequence(result.entries)
             /\ \A e \in Elements(result.entries) : e.kind = "closing"
<1>1. PICK open : open = Open(balances)
  OBVIOUS
<1>2. PICK n \in Nat : n = Cardinality(open)
  <2>1. IsFiniteSet(DOMAIN balances)
    BY BalancesOf
  <2>2. IsFiniteSet(open)
    BY <1>1, <2>1, FS_Subset DEF Open
  <2>. QED BY <2>2, FS_CardinalityType
<1>3. PICK entries : entries = [k \in 1..Cardinality(open) |-> ClosingEntry(k, balances[
                                  CHOOSE i \in open : Cardinality({j \in open : j <= i}) = k])]
  OBVIOUS
<1>4. DOMAIN entries = 1..n /\ \A k \in 1..n : entries[k].kind = "closing"
  <2>1. DOMAIN entries = 1..n
    BY <1>2, <1>3
  <2>2. ASSUME NEW k \in 1..n
        PROVE  entries[k].kind = "closing"
    <3>1. PICK i : i = CHOOSE j \in open : Cardinality({l \in open : l <= j}) = k
      OBVIOUS
    <3>2. entries[k] = ClosingEntry(k, balances[i])
      BY <1>2, <1>3, <3>1
    <3>. QED BY <3>2 DEF ClosingEntry, Entry
  <2>. QED BY <2>1, <2>2
<1>5. entries \in [1..n -> Elements(entries)]
  BY <1>3, <1>4 DEF Elements
<1>6. Sequence(entries) /\ \A e \in Elements(entries) : e.kind = "closing"
  <2>1. Sequence(entries)
    BY <1>5, FunctionIsSequence
  <2>. QED BY <1>4, <2>1 DEF Elements
<1>7. PICK result : result = CloseResultAccounts(balances, chart)
  OBVIOUS
<1>8. result = Failed \/ result = Computed(entries)
  BY <1>1, <1>3, <1>7 DEF CloseResultAccounts
<1>9. CASE result = Failed
  BY <1>7, <1>9, NoEntries
<1>10. CASE result = Computed(entries)
  <2>1. result.entries = entries
    BY <1>10 DEF Computed
  <2>. QED BY <1>6, <1>7, <2>1
<1>. QED
  BY <1>8, <1>9, <1>10

LEMMA GroupAnswers ==
  ASSUME NEW scope, NEW books, Given(books), NEW group \in Group
  PROVE  LET result == GroupResult(scope, books, group)
         IN  /\ Sequence(result.entries)
             /\ \A e \in Elements(result.entries) : e.kind = group
             /\ group \in books.given \ {"closing"} /\ result.ok
                  => \A n \in InputsOf(books, group) :
                       \E e \in Elements(result.entries) : e.kind = group /\ e.n = n
<1>1. PICK result : result = GroupResult(scope, books, group)
  OBVIOUS
<1>2. CASE group \notin books.given
  <2>1. result = Computed(<<>>)
    BY <1>1, <1>2 DEF GroupResult
  <2>. QED BY <1>1, <1>2, <2>1, NoEntries
<1>3. CASE group \in books.given /\ scope \notin Dated
  <2>1. result = Failed
    BY <1>1, <1>3 DEF GroupResult
  <2>. QED BY <1>1, <2>1, NoEntries
<1>4. CASE group \in books.given /\ scope \in Dated
  <2>1. CASE group = "depreciation"
    <3>1. result = Depreciation(books.assets, books.policy.depreciation)
      BY <1>1, <1>4, <2>1 DEF GroupResult
    <3>2. InputsOf(books, group) = DOMAIN books.assets
      BY <2>1 DEF InputsOf
    <3>3. PICK R : R = [cost : Int, rate : Int]
      OBVIOUS
    <3>4. PICK assets, policy : assets = books.assets /\ policy = books.policy.depreciation
      OBVIOUS
    <3>5. assets \in Seq(R)
      BY <3>3, <3>4 DEF Given
    <3>6. /\ Sequence(result.entries)
          /\ \A e \in Elements(result.entries) : e.kind = "depreciation"
          /\ result.ok => \A n \in DOMAIN assets : \E e \in Elements(result.entries) :
                             e.kind = "depreciation" /\ e.n = n
      BY <3>1, <3>4, <3>5, DepreciationAnswers
    <3>. QED BY <1>1, <2>1, <3>2, <3>4, <3>6
  <2>2. CASE group = "provision"
    <3>1. result = Provisions(books.provisions, books.policy.provision)
      BY <1>1, <1>4, <2>2 DEF GroupResult
    <3>2. InputsOf(books, group) = DOMAIN books.provisions
      BY <2>2 DEF InputsOf
    <3>3. PICK R : R = [kind : STRING, aging : Int, exposure : Int, rate : Int]
      OBVIOUS
    <3>4. PICK inputs, policy : inputs = books.provisions /\ policy = books.policy.provision
      OBVIOUS
    <3>5. inputs \in Seq(R)
      BY <3>3, <3>4 DEF Given
    <3>6. /\ Sequence(result.entries)
          /\ \A e \in Elements(result.entries) : e.kind = "provision"
          /\ result.ok => \A n \in DOMAIN inputs : \E e \in Elements(result.entries) :
                             e.kind = "provision" /\ e.n = n
      BY <3>1, <3>4, <3>5, ProvisionsAnswer
    <3>. QED BY <1>1, <2>2, <3>2, <3>4, <3>6
  <2>3. CASE group = "isr"
    <3>1. result = ProvisionalIsr(books.isr, books.policy.isr)
      BY <1>1, <1>4, <2>3 DEF GroupResult
    <3>2. InputsOf(books, group) = {1}
      BY <2>3 DEF InputsOf
    <3>. QED BY <1>1, <2>3, <3>1, <3>2, IsrAnswers
  <2>4. CASE group = "closing"
    <3>1. result = CloseResultAccounts(books.balances, books.chart)
      BY <1>1, <1>4, <2>4 DEF GroupResult
    <3>. QED BY <1>1, <2>4, <3>1, ClosingAnswers DEF Given
  <2>. QED BY <2>1, <2>2, <2>3, <2>4 DEF Group
<1>. QED
  BY <1>2, <1>3, <1>4

\* The entries are those of the groups, one after the other.
LEMMA EntriesAnswer ==
  ASSUME NEW scope, NEW books, Given(books)
  PROVE  /\ Sequence(Entries(scope, books))
         /\ \A e \in Elements(Entries(scope, books)) : e.kind \in Group
         /\ \A group \in Group :
              Elements(GroupResult(scope, books, group).entries) \subseteq Elements(Entries(scope, books))
<1>1. PICK d, p, i, c : /\ d = GroupResult(scope, books, "depreciation").entries
                        /\ p = GroupResult(scope, books, "provision").entries
                        /\ i = GroupResult(scope, books, "isr").entries
                        /\ c = GroupResult(scope, books, "closing").entries
  OBVIOUS
<1>2. \A group \in Group : /\ Sequence(GroupResult(scope, books, group).entries)
                           /\ \A e \in Elements(GroupResult(scope, books, group).entries) :
                                e.kind \in Group
  <2>. SUFFICES ASSUME NEW group \in Group
                PROVE  /\ Sequence(GroupResult(scope, books, group).entries)
                       /\ \A e \in Elements(GroupResult(scope, books, group).entries) :
                            e.kind \in Group
    OBVIOUS
  <2>1. /\ Sequence(GroupResult(scope, books, group).entries)
        /\ \A e \in Elements(GroupResult(scope, books, group).entries) : e.kind = group
    BY GroupAnswers
  <2>. QED BY <2>1
<1>3. Sequence(d) /\ Sequence(p) /\ Sequence(i) /\ Sequence(c)
  BY <1>1, <1>2 DEF Group
<1>4. Sequence(d \o p) /\ Elements(d \o p) = Elements(d) \union Elements(p)
  BY <1>3, Joined
<1>5. /\ Sequence((d \o p) \o i)
      /\ Elements((d \o p) \o i) = Elements(d \o p) \union Elements(i)
  BY <1>3, <1>4, Joined
<1>6. /\ Sequence(((d \o p) \o i) \o c)
      /\ Elements(((d \o p) \o i) \o c) = Elements((d \o p) \o i) \union Elements(c)
  BY <1>3, <1>5, Joined
<1>7. Entries(scope, books) = ((d \o p) \o i) \o c
  BY <1>1 DEF Entries
<1>8. /\ Sequence(Entries(scope, books))
      /\ Elements(Entries(scope, books))
           = ((Elements(d) \union Elements(p)) \union Elements(i)) \union Elements(c)
  BY <1>4, <1>5, <1>6, <1>7
<1>9. \A e \in Elements(d) \union Elements(p) \union Elements(i) \union Elements(c) : e.kind \in Group
  BY <1>1, <1>2 DEF Group
<1>. QED
  BY <1>1, <1>8, <1>9 DEF Group

\* Every entry is proposed as what it is, and may be undone as its kind may.
LEMMA EntriesPropose ==
  ASSUME NEW scope, NEW books, Given(books)
  PROVE  /\ Sequence(EntryProposals(scope, books))
         /\ \A e \in Elements(Entries(scope, books)) :
              \E p \in Elements(EntryProposals(scope, books)) :
                p.subject[1] = "entry" /\ p.subject[2] = e.kind /\ p.subject[3] = e.n
         /\ \A p \in Elements(EntryProposals(scope, books)) :
              p.reversibility = Reversibility(p.subject[2])
<1>1. PICK entries, ps : entries = Entries(scope, books) /\ ps = EntryProposals(scope, books)
  OBVIOUS
<1>2. Sequence(entries)
  BY <1>1, EntriesAnswer
<1>3. PICK n \in Nat : DOMAIN entries = 1..n
  BY <1>2, ListIsSequence DEF Sequence
<1>4. ps = [i \in 1..n |->
              Proposal(<<"entry", entries[i].kind, entries[i].n, entries[i].debit,
                         entries[i].credit, entries[i].amount>>,
                       entries[i].amount, Reversibility(entries[i].kind))]
  BY <1>1, <1>3 DEF EntryProposals
<1>5. \A i \in 1..n : /\ ps[i].subject[1] = "entry"
                      /\ ps[i].subject[2] = entries[i].kind
                      /\ ps[i].subject[3] = entries[i].n
                      /\ ps[i].reversibility = Reversibility(entries[i].kind)
  BY <1>4 DEF Proposal
<1>6. DOMAIN ps = 1..n /\ ps \in [1..n -> Elements(ps)]
  BY <1>4 DEF Elements
<1>7. Sequence(ps)
  BY <1>6, FunctionIsSequence
<1>8. \A e \in Elements(entries) : \E p \in Elements(ps) :
        p.subject[1] = "entry" /\ p.subject[2] = e.kind /\ p.subject[3] = e.n
  BY <1>3, <1>5, <1>6 DEF Elements
<1>9. \A p \in Elements(ps) : p.reversibility = Reversibility(p.subject[2])
  BY <1>5, <1>6 DEF Elements
<1>. QED
  BY <1>1, <1>7, <1>8, <1>9

LEMMA BooksGiven ==
  ASSUME NEW name \in DOMAIN Books
  PROVE  /\ Given(Books[name]) /\ Books[name].given \subseteq Group
         /\ Books[name].bank \in Seq(Row) /\ Books[name].ledger \in Seq(Row)
         /\ Sequence(Books[name].proposals)
         /\ \A p \in Elements(Books[name].proposals) : p.subject[1] # "entry"
<1>1. PICK books : books = Books[name]
  OBVIOUS
<1>2. /\ books.bank \in Seq(Row) /\ books.ledger \in Seq(Row)
      /\ books.given \subseteq Group
      /\ books.assets \in Seq([cost : Int, rate : Int])
      /\ books.provisions \in Seq([kind : STRING, aging : Int, exposure : Int, rate : Int])
      /\ books.balances \in Seq([account : Account, balance : Int])
      /\ \A i \in DOMAIN books.proposals : books.proposals[i].subject[1] # "entry"
  BY <1>1, CloseAssumption
<1>3. PICK R : R = [subject : Subject, amount : Int, reversibility : STRING]
  OBVIOUS
<1>4. books.proposals \in Seq(R)
  BY <1>1, <1>3, CloseAssumption
<1>5. Sequence(books.proposals)
  BY <1>4, ListIsSequence
<1>. QED
  BY <1>1, <1>2, <1>5 DEF Given, Elements

LEMMA AllIsProposed ==
  ASSUME NEW scope \in Scope, NEW name \in DOMAIN Books
  PROVE  Elements(AllProposals[scope][name])
           = (Elements(Books[name].proposals)
                \union Elements(AdjustmentProposals(scope, Books[name])))
               \union Elements(EntryProposals(scope, Books[name]))
<1>1. PICK x, a, e : /\ x = Books[name].proposals
                     /\ a = AdjustmentProposals(scope, Books[name])
                     /\ e = EntryProposals(scope, Books[name])
  OBVIOUS
<1>2. Sequence(x) /\ Sequence(a) /\ Sequence(e)
  BY <1>1, BooksGiven, AdjustmentsPropose, EntriesPropose
<1>3. Sequence(x \o a) /\ Elements(x \o a) = Elements(x) \union Elements(a)
  BY <1>2, Joined
<1>4. Elements((x \o a) \o e) = Elements(x \o a) \union Elements(e)
  BY <1>2, <1>3, Joined
<1>5. AllProposals[scope][name] = (x \o a) \o e
  BY <1>1 DEF AllProposals
<1>. QED
  BY <1>1, <1>3, <1>4, <1>5

-----------------------------------------------------------------------------
(* What a complete close was given is answered *)

\* A row is a movement or a rejected one.
LEMMA RowsAnswered ==
  ASSUME NEW rows, NEW source, NEW i \in DOMAIN rows
  PROVE  MovementOf(rows[i], source) \in MovementsOf(rows, source) \/ rows[i].key \in RejectedRows(rows)
BY DEF MovementsOf, RejectedRows

LEMMA PackagedRows ==
  ASSUME Packaged, Completed, Books[closed].rowsGiven, "reconciliation" \notin package.engines
  PROVE  /\ \A i \in DOMAIN Books[closed].bank :
              MovementOf(Books[closed].bank[i], "bank") \in BankMovements
                \/ <<"bank", Books[closed].bank[i].key>> \in package.rows
         /\ \A i \in DOMAIN Books[closed].ledger :
              MovementOf(Books[closed].ledger[i], "ledger") \in LedgerMovements
                \/ <<"ledger", Books[closed].ledger[i].key>> \in package.rows
<1>1. PICK scope, books : scope = package.scope /\ books = Books[closed]
  OBVIOUS
<1>2. /\ scope \in Scope /\ closed \in DOMAIN Books
      /\ package.rows = RowRisks(scope, books) /\ package.engines = EngineRisks(scope, books)
  BY <1>1, PackageParts
<1>3. Reconciles(scope, books)
  BY <1>1, <1>2 DEF EngineRisks, Reconciles
<1>4. /\ BankMovements = MovementsOf(books.bank, "bank")
      /\ LedgerMovements = MovementsOf(books.ledger, "ledger")
  BY <1>1, <1>2, <1>3 DEF BankMovements, LedgerMovements, MovementsGiven
<1>5. package.rows
        = ({"bank"} \X RejectedRows(books.bank)) \union ({"ledger"} \X RejectedRows(books.ledger))
  BY <1>2, <1>3 DEF RowRisks
<1>. QED
  BY <1>1, <1>4, <1>5, RowsAnswered

\* Every proposal is a candidate.
LEMMA ProposalIsCandidate ==
  ASSUME NEW scope, NEW name, NEW p \in Elements(AllProposals[scope][name])
  PROVE  \E i \in DOMAIN CandidatesOf(scope, name) :
           CandidatesOf(scope, name)[i].subject = p.subject
<1>1. PICK ps, cs : ps = AllProposals[scope][name] /\ cs = CandidatesOf(scope, name)
  OBVIOUS
<1>2. DOMAIN cs = DOMAIN ps /\ \A i \in DOMAIN ps : cs[i].subject = ps[i].subject
  BY <1>1 DEF CandidatesOf, Proposed
<1>3. PICK i \in DOMAIN ps : p = ps[i]
  BY <1>1 DEF Elements
<1>. QED
  BY <1>1, <1>2, <1>3

LEMMA PackagedInputs ==
  ASSUME Packaged, Completed, NEW group \in Books[closed].given \ {"closing"},
         group \notin package.engines, NEW n \in InputsOf(Books[closed], group)
  PROVE  \E s \in {package.candidates[i].subject : i \in DOMAIN package.candidates} :
           s[1] = "entry" /\ s[2] = group /\ s[3] = n
<1>1. PICK scope, books : scope = package.scope /\ books = Books[closed]
  OBVIOUS
<1>2. /\ scope \in Scope /\ closed \in DOMAIN Books
      /\ package.candidates = CandidatesOf(scope, closed)
      /\ package.engines = EngineRisks(scope, books)
  BY <1>1, PackageParts
<1>3. group \in Group /\ Given(books)
  BY <1>1, <1>2, BooksGiven
<1>4. GroupResult(scope, books, group).ok
  BY <1>1, <1>2, <1>3, NoRiskIsComputed
<1>5. PICK e \in Elements(GroupResult(scope, books, group).entries) : e.kind = group /\ e.n = n
  BY <1>1, <1>3, <1>4, GroupAnswers
<1>6. e \in Elements(Entries(scope, books))
  BY <1>3, <1>5, EntriesAnswer
<1>7. PICK p \in Elements(EntryProposals(scope, books)) :
             p.subject[1] = "entry" /\ p.subject[2] = e.kind /\ p.subject[3] = e.n
  BY <1>3, <1>6, EntriesPropose
<1>8. p \in Elements(AllProposals[scope][closed])
  BY <1>1, <1>2, <1>7, AllIsProposed
<1>9. p.subject \in {package.candidates[i].subject : i \in DOMAIN package.candidates}
  BY <1>2, <1>8, ProposalIsCandidate
<1>. QED
  BY <1>5, <1>7, <1>9

\* A proposal that cannot be undone is R3, and no receipt is for it.
LEMMA NoReceiptForIrreversible ==
  ASSUME NEW scope \in Scope, NEW name \in DOMAIN Books,
         NEW s \in Receipts(CandidatesOf(scope, name)), s[1] = "entry"
  PROVE  Reversibility(s[2]) # "irreversible"
<1>1. PICK cs, ps, books :
        /\ cs = CandidatesOf(scope, name) /\ ps = AllProposals[scope][name]
        /\ books = Books[name]
  OBVIOUS
<1>2. PICK i \in DOMAIN cs : s = cs[i].subject /\ Blockers(cs[i]) = {}
  BY <1>1 DEF Receipts
<1>3. PICK p, a : /\ p = ps[i]
                  /\ a = [value |-> p.amount, jurisdiction |-> "PE",
                          reversibility |-> p.reversibility]
  OBVIOUS
<1>4. i \in DOMAIN ps /\ cs[i] = Proposed(p.subject, scope, a)
  BY <1>1, <1>2, <1>3 DEF CandidatesOf
<1>5. s = p.subject /\ cs[i].tier = DeriveMateriality(a)
  BY <1>2, <1>4 DEF Proposed
<1>6. p \in Elements(ps)
  BY <1>3, <1>4 DEF Elements
<1>7. p \in Elements(EntryProposals(scope, books))
  <2>1. p \notin Elements(books.proposals)
    BY <1>1, <1>5, BooksGiven
  <2>2. p \notin Elements(AdjustmentProposals(scope, books))
    BY <1>1, <1>5, BooksGiven, AdjustmentsPropose
  <2>. QED BY <1>1, <1>6, <2>1, <2>2, AllIsProposed
<1>8. p.reversibility = Reversibility(s[2])
  <2>1. Given(books)
    BY <1>1, BooksGiven
  <2>. QED BY <1>5, <1>7, <2>1, EntriesPropose
<1>9. ASSUME p.reversibility = "irreversible"
      PROVE  FALSE
  <2>1. a.reversibility = "irreversible" /\ a.jurisdiction = "PE"
    BY <1>3, <1>9
  <2>2. DeriveMateriality(a) = 3
    BY <2>1 DEF DeriveMateriality, BaseTier
  <2>3. cs[i] \in Fresh
    BY <1>1, <1>2, PackagedIsFresh
  <2>4. ReviewsFit(cs[i]) /\ cs[i].tier = 3
    BY <1>5, <2>2, <2>3 DEF Fresh
  <2>. QED BY <1>2, <2>3, <2>4, BlockedUntilTwoAccept DEF Fresh
<1>. QED
  BY <1>8, <1>9

LEMMA PackagedIsAnswered ==
  ASSUME Packaged
  PROVE  GivenIsAnswered
<1>. SUFFICES ASSUME Completed
              PROVE  GivenIsAnswered
  BY DEF GivenIsAnswered
<1>1. PICK subjects : subjects = {package.candidates[i].subject : i \in DOMAIN package.candidates}
  OBVIOUS
<1>2. PICK cs : cs = CandidatesOf(package.scope, closed)
  OBVIOUS
<1>3. /\ package.candidates = cs /\ package.receipts = Receipts(cs)
      /\ package.blocked = BlockedCandidates(cs)
      /\ package.scope \in Scope /\ closed \in DOMAIN Books
  BY <1>2, PackageParts
<1>4. subjects = package.receipts \union package.blocked
  BY <1>1, <1>3 DEF Receipts, BlockedCandidates
<1>5. \A s \in package.receipts : s[1] = "entry" => Reversibility(s[2]) # "irreversible"
  BY <1>2, <1>3, NoReceiptForIrreversible
<1>6. \A group \in Books[closed].given \ {"closing"} :
        \/ group \in package.engines
        \/ \A n \in InputsOf(Books[closed], group) :
             \E s \in subjects : s[1] = "entry" /\ s[2] = group /\ s[3] = n
  BY <1>1, PackagedInputs
<1>. QED
  BY <1>1, <1>4, <1>5, <1>6, PackagedRows DEF GivenIsAnswered

\* What a complete close was given is in its package as a movement, a candidate or
\* a risk, a candidate is receipted or blocked, and what cannot be undone is never
\* receipted (close.ts steps 3 to 5; close-wiring.ts; guardian.ts, dual approval).
THEOREM GivenAnswered == FiscalSpec => []GivenIsAnswered
BY FiscalIsClose, PackagedHolds, PackagedIsAnswered, PTL

-----------------------------------------------------------------------------
(* The differences that reconciliation finds *)

\* The movements of one side: each its own source key, all of one source.
OneSide(movements, source) ==
  /\ IsFiniteSet(movements)
  /\ \A m \in movements : m.key \in Nat /\ m.amount \in Int /\ m.source = source
  /\ \A m, n \in movements : m.key = n.key => m = n

LEMMA SideOfRows ==
  ASSUME NEW rows \in Seq(Row), NEW source
  PROVE  OneSide(MovementsOf(rows, source), source)
<1>1. /\ DOMAIN rows \in SUBSET Nat
      /\ \A i \in DOMAIN rows : rows[i].key \in Nat /\ rows[i].amount \in Int
  <2>1. PICK R : R = Row
    OBVIOUS
  <2>2. \A i \in DOMAIN rows : rows[i] \in R
    BY <2>1
  <2>3. \A row \in R : row.key \in Nat /\ row.amount \in Int
    BY <2>1 DEF Row
  <2>4. DOMAIN rows = 1..Len(rows) /\ Len(rows) \in Nat
    BY ListIsSequence
  <2>. QED BY <2>2, <2>3, <2>4
<1>2. \A i \in Accepted(rows) : i \in DOMAIN rows /\ WellFormed(rows[i])
  BY DEF Accepted
<1>3. ASSUME NEW i \in Accepted(rows), NEW j \in Accepted(rows), j < i
      PROVE  rows[j].key # rows[i].key
  <2>1. j \in 1..(i - 1)
    BY <1>1, <1>2, <1>3
  <2>. QED BY <1>2, <2>1 DEF Accepted
<1>4. \A i, j \in Accepted(rows) : rows[i].key = rows[j].key => i = j
  BY <1>1, <1>2, <1>3
<1>5. \A i \in DOMAIN rows : /\ MovementOf(rows[i], source).key = rows[i].key
                             /\ MovementOf(rows[i], source).amount = rows[i].amount
                             /\ MovementOf(rows[i], source).source = source
  BY DEF MovementOf
<1>6. \A m \in MovementsOf(rows, source) :
        \E i \in Accepted(rows) : m = MovementOf(rows[i], source)
  BY DEF MovementsOf
<1>7. \A m \in MovementsOf(rows, source) : m.key \in Nat /\ m.amount \in Int /\ m.source = source
  BY <1>1, <1>2, <1>5, <1>6
<1>8. ASSUME NEW m \in MovementsOf(rows, source), NEW n \in MovementsOf(rows, source),
             m.key = n.key
      PROVE  m = n
  <2>1. PICK i \in Accepted(rows) : m = MovementOf(rows[i], source)
    BY <1>6
  <2>2. PICK j \in Accepted(rows) : n = MovementOf(rows[j], source)
    BY <1>6
  <2>3. rows[i].key = rows[j].key
    BY <1>2, <1>5, <1>8, <2>1, <2>2
  <2>. QED BY <1>4, <2>1, <2>2, <2>3
<1>. QED
  BY <1>7, <1>8, MovementsFinite DEF OneSide

LEMMA PartOfSide ==
  ASSUME NEW movements, NEW source, OneSide(movements, source), NEW part \in SUBSET movements
  PROVE  OneSide(part, source)
<1>1. IsFiniteSet(part)
  BY FS_Subset DEF OneSide
<1>. QED
  BY <1>1 DEF OneSide

\* In the order of their source keys the movements come once each.
LEMMA OrderedOnce ==
  ASSUME NEW movements, NEW source, OneSide(movements, source)
  PROVE  \E n \in Nat : \E order \in [1..n -> movements] :
           /\ order = InKeyOrder(movements)
           /\ \A m \in movements : \E i \in 1..n : order[i] = m
           /\ \A i, j \in 1..n : order[i] = order[j] => i = j
<1>1. IsFiniteSet(movements) /\ \A m \in movements : m.key \in Int
  BY DEF OneSide
<1>2. PICK n \in Nat : n = Cardinality(movements)
  BY <1>1, FS_CardinalityType
<1>3. PICK key : key = [m \in movements |-> m.key]
  OBVIOUS
<1>4. key \in [movements -> Int] /\ \A m \in movements : key[m] = m.key
  BY <1>1, <1>3
<1>5. \A x, y \in movements : key[x] = key[y] => x = y
  BY <1>4 DEF OneSide
<1>6. PICK at \in [1..n -> movements] :
           /\ \A i \in 1..n : Cardinality(Upto(movements, key, at[i])) = i
           /\ \A i \in 1..n : \A x \in movements :
                Cardinality(Upto(movements, key, x)) = i => x = at[i]
           /\ \A i, j \in 1..n : at[i] = at[j] => i = j
           /\ \A x \in movements : \E i \in 1..n : at[i] = x
  BY <1>1, <1>2, <1>4, <1>5, Enumerated
<1>. DEFINE Number(m) == Cardinality({k \in movements : k.key <= m.key})
<1>7. ASSUME NEW m \in movements
      PROVE  Number(m) = Cardinality(Upto(movements, key, m))
  <2>1. {k \in movements : k.key <= m.key} = Upto(movements, key, m)
    BY <1>4 DEF Upto
  <2>. QED BY <2>1
<1>8. InKeyOrder(movements) = [i \in 1..n |-> CHOOSE m \in movements : Number(m) = i]
  BY <1>2 DEF InKeyOrder
<1>. HIDE DEF Number
<1>9. ASSUME NEW i \in 1..n
      PROVE  (CHOOSE m \in movements : Number(m) = i) = at[i]
  <2>1. at[i] \in movements /\ Number(at[i]) = i
    BY <1>6, <1>7
  <2>2. \A m \in movements : Number(m) = i => m = at[i]
    BY <1>6, <1>7
  <2>. QED BY <2>1, <2>2
<1>10. at = [i \in 1..n |-> at[i]]
  BY <1>6
<1>11. at = InKeyOrder(movements)
  BY <1>8, <1>9, <1>10
<1>. QED
  BY <1>6, <1>11

\* What one bank movement adds to the pairs taken before it.
Taken(ledger, acc, b) ==
  LET fits == {l \in ledger \ Sides(acc) : Fits(b, l)}
  IN  IF fits = {} THEN acc
      ELSE acc \union {<<b, CHOOSE l \in fits : \A k \in fits : l.key <= k.key>>}

\* h is the fold of Taken over every set of positions up to n.
Folded(h, ledger, order, n) ==
  h = [s \in SUBSET (1..n) |->
         IF s = {} THEN {} ELSE Taken(ledger, h[s \ {Max(s)}], order[Max(s)])]

LEMMA LastIsMax ==
  ASSUME NEW n \in Nat, NEW s \in SUBSET (1..(n + 1)), n + 1 \in s
  PROVE  Max(s) = n + 1
<1>1. \A y \in s : n + 1 >= y
  OBVIOUS
<1>2. \A x \in s : (\A y \in s : x >= y) => x = n + 1
  OBVIOUS
<1>. QED
  BY <1>1, <1>2 DEF Max

LEMMA FoldExists ==
  ASSUME NEW ledger, NEW order
  PROVE  \A n \in Nat : \E h : Folded(h, ledger, order, n)
<1>. DEFINE P == {n \in Nat : \E h : Folded(h, ledger, order, n)}
<1>1. 0 \in P
  <2>1. PICK h : h = [s \in SUBSET (1..0) |-> {}]
    OBVIOUS
  <2>2. \A s \in SUBSET (1..0) : s = {}
    OBVIOUS
  <2>3. Folded(h, ledger, order, 0)
    BY <2>1, <2>2 DEF Folded
  <2>. QED BY <2>3
<1>2. ASSUME NEW n \in Nat, n \in P
      PROVE  n + 1 \in P
  <2>1. PICK g : Folded(g, ledger, order, n)
    BY <1>2
  <2>2. PICK h : h = [s \in SUBSET (1..(n + 1)) |->
                        IF n + 1 \in s THEN Taken(ledger, g[s \ {n + 1}], order[n + 1])
                        ELSE g[s]]
    OBVIOUS
  <2>3. ASSUME NEW s \in SUBSET (1..(n + 1))
        PROVE  h[s] = IF s = {} THEN {} ELSE Taken(ledger, h[s \ {Max(s)}], order[Max(s)])
    <3>1. CASE n + 1 \in s
      <4>1. PICK t : t = s \ {n + 1}
        OBVIOUS
      <4>2. t \in SUBSET (1..(n + 1)) /\ n + 1 \notin t
        BY <4>1
      <4>3. h[t] = g[t]
        BY <2>2, <4>2
      <4>4. h[s] = Taken(ledger, g[t], order[n + 1])
        BY <2>2, <3>1, <4>1
      <4>5. Max(s) = n + 1
        BY <3>1, LastIsMax
      <4>. QED BY <3>1, <4>1, <4>3, <4>4, <4>5
    <3>2. CASE n + 1 \notin s
      <4>1. s \in SUBSET (1..n)
        BY <3>2
      <4>2. h[s] = g[s]
        BY <2>2, <3>2
      <4>3. g[s] = IF s = {} THEN {} ELSE Taken(ledger, g[s \ {Max(s)}], order[Max(s)])
        BY <2>1, <4>1 DEF Folded
      <4>4. PICK t : t = s \ {Max(s)}
        OBVIOUS
      <4>5. t \in SUBSET (1..(n + 1)) /\ n + 1 \notin t
        BY <3>2, <4>4
      <4>6. h[t] = g[t]
        BY <2>2, <4>5
      <4>. QED BY <4>2, <4>3, <4>4, <4>6
    <3>. QED BY <3>1, <3>2
  <2>4. h = [s \in SUBSET (1..(n + 1)) |-> h[s]]
    BY <2>2
  <2>5. Folded(h, ledger, order, n + 1)
    BY <2>3, <2>4 DEF Folded
  <2>. QED BY <2>5
<1>3. Nat \subseteq P
  <2>. HIDE DEF P
  <2>. QED BY <1>1, <1>2, NumbersFrom
<1>. QED
  BY <1>3

LEMMA PrefixOf ==
  ASSUME NEW n \in Nat, NEW k \in Nat, k < n
  PROVE  /\ 1..(k + 1) \in SUBSET (1..n) /\ 1..(k + 1) # {}
         /\ (1..(k + 1)) \ {k + 1} = 1..k
         /\ Max(1..(k + 1)) = k + 1
<1>1. k + 1 \in 1..(k + 1) /\ 1..(k + 1) \in SUBSET (1..n)
  OBVIOUS
<1>2. \A i : i \in (1..(k + 1)) \ {k + 1} <=> i \in 1..k
  OBVIOUS
<1>3. 1..(k + 1) \in SUBSET (1..(k + 1))
  OBVIOUS
<1>4. Max(1..(k + 1)) = k + 1
  BY <1>1, <1>3, LastIsMax
<1>. QED
  BY <1>1, <1>2, <1>4

\* acc is what the fold has after each of the first n movements.
Passes(acc, bank, ledger, order, n) ==
  /\ acc[0] = {} /\ acc[n] = FallbackMatches(bank, ledger)
  /\ \A i \in 1..n : acc[i] = Taken(ledger, acc[i - 1], order[i])

\* The greedy pass takes the bank's movements one after the other.
LEMMA FallbackRuns ==
  ASSUME NEW bank, NEW ledger, NEW n \in Nat, NEW order \in [1..n -> bank],
         order = InKeyOrder(bank)
  PROVE  \E acc : Passes(acc, bank, ledger, order, n)
<1>1. \E h : Folded(h, ledger, order, n)
  BY FoldExists
<1>2. PICK h : h = CHOOSE iter : Folded(iter, ledger, order, n)
  OBVIOUS
<1>3. Folded(h, ledger, order, n)
  BY <1>1, <1>2, Zenon
<1>4. FallbackMatches(bank, ledger) = h[1..n]
  <2>1. DOMAIN order = 1..n
    OBVIOUS
  <2>. QED
    BY <1>2, <2>1 DEF FallbackMatches, FoldLeft, MapThenFoldSet, Folded, Taken
<1>5. PICK acc : acc = [i \in 0..n |-> h[1..i]]
  OBVIOUS
<1>6. acc[0] = {}
  <2>1. 1..0 = {} /\ 0 \in 0..n
    OBVIOUS
  <2>2. h[{}] = {}
    <3>1. {} \in SUBSET (1..n)
      OBVIOUS
    <3>. QED BY <1>3, <3>1 DEF Folded
  <2>. QED BY <1>5, <2>1, <2>2
<1>7. ASSUME NEW i \in 1..n
      PROVE  acc[i] = Taken(ledger, acc[i - 1], order[i])
  <2>1. PICK k \in Nat : i = k + 1 /\ i - 1 = k /\ k < n
    <3>1. i - 1 \in Nat /\ i = (i - 1) + 1 /\ i - 1 < n
      OBVIOUS
    <3>. QED BY <3>1
  <2>2. k \in 0..n /\ k + 1 \in 0..n
    BY <2>1
  <2>3. PICK s, t : s = 1..(k + 1) /\ t = 1..k
    OBVIOUS
  <2>4. s \in SUBSET (1..n) /\ s # {} /\ s \ {k + 1} = t /\ Max(s) = k + 1
    BY <2>1, <2>3, PrefixOf
  <2>5. h[s] = Taken(ledger, h[t], order[k + 1])
    BY <1>3, <2>4 DEF Folded
  <2>6. acc[k + 1] = h[s] /\ acc[k] = h[t]
    BY <1>5, <2>2, <2>3
  <2>. QED BY <2>1, <2>5, <2>6
<1>8. n \in 0..n
  OBVIOUS
<1>9. acc[n] = FallbackMatches(bank, ledger)
  BY <1>4, <1>5, <1>8
<1>. QED
  BY <1>6, <1>7, <1>9 DEF Passes

\* What the greedy pass owes to the bank movements it is done with: pairs that
\* fit, one movement in one pair at most, and no two that fit left out.
Greedy(pairs, ledger, done) ==
  /\ pairs \subseteq done \X ledger
  /\ \A p \in pairs : Fits(p[1], p[2])
  /\ \A p, q \in pairs : p[1] = q[1] \/ p[2] = q[2] => p = q
  /\ \A b \in done, l \in ledger : Fits(b, l) => \E p \in pairs : p[1] = b \/ p[2] = l

LEMMA FirstByKey ==
  ASSUME NEW fits, fits # {}, \A l \in fits : l.key \in Nat
  PROVE  (CHOOSE l \in fits : \A k \in fits : l.key <= k.key) \in fits
<1>1. PICK keys : keys = {l.key : l \in fits}
  OBVIOUS
<1>2. keys \in SUBSET Nat /\ keys # {}
  BY <1>1
<1>3. PICK n \in keys : \A k \in keys : n <= k
  BY <1>2, FirstExists
<1>4. PICK l \in fits : l.key = n
  BY <1>1
<1>5. \A k \in fits : l.key <= k.key
  BY <1>1, <1>3, <1>4
<1>. QED
  BY <1>5

LEMMA TakenKeeps ==
  ASSUME NEW bank, NEW ledger, OneSide(bank, "bank"), OneSide(ledger, "ledger"),
         NEW done \in SUBSET bank, NEW b \in bank, b \notin done,
         NEW pairs, Greedy(pairs, ledger, done)
  PROVE  Greedy(Taken(ledger, pairs, b), ledger, done \union {b})
<1>1. PICK fits : fits = {l \in ledger \ Sides(pairs) : Fits(b, l)}
  OBVIOUS
<1>2. \A p \in pairs : p = <<p[1], p[2]>> /\ p[1] \in done /\ p[2] \in ledger
  BY DEF Greedy
<1>3. \A l \in ledger : l \in Sides(pairs) <=> \E p \in pairs : p[2] = l
  <2>1. \A x \in bank, l \in ledger : x # l
    BY DEF OneSide
  <2>2. \A l : l \in Sides(pairs) <=> \E p \in pairs : p[1] = l \/ p[2] = l
    BY DEF Sides
  <2>. QED BY <1>2, <2>1, <2>2
<1>4. CASE fits = {}
  <2>1. Taken(ledger, pairs, b) = pairs
    BY <1>1, <1>4 DEF Taken
  <2>2. \A l \in ledger : Fits(b, l) => \E p \in pairs : p[2] = l
    BY <1>1, <1>3, <1>4
  <2>3. pairs \subseteq (done \union {b}) \X ledger
    BY DEF Greedy
  <2>. QED BY <2>1, <2>2, <2>3 DEF Greedy
<1>5. CASE fits # {}
  <2>1. PICK l : l = CHOOSE c \in fits : \A k \in fits : c.key <= k.key
    OBVIOUS
  <2>2. l \in fits
    <3>1. \A k \in fits : k.key \in Nat
      BY <1>1 DEF OneSide
    <3>. QED BY <1>5, <2>1, <3>1, FirstByKey
  <2>3. l \in ledger /\ Fits(b, l) /\ \A p \in pairs : p[2] # l
    BY <1>1, <1>3, <2>2
  <2>4. PICK more : more = pairs \union {<<b, l>>}
    OBVIOUS
  <2>5. Taken(ledger, pairs, b) = more
    BY <1>1, <1>5, <2>1, <2>4 DEF Taken
  <2>6. more \subseteq (done \union {b}) \X ledger
    BY <2>3, <2>4 DEF Greedy
  <2>7. \A p \in more : p \in pairs \/ (p = <<b, l>> /\ p[1] = b /\ p[2] = l)
    BY <2>4
  <2>8. \A p \in more : Fits(p[1], p[2])
    BY <2>3, <2>7 DEF Greedy
  <2>9. \A p, q \in more : p[1] = q[1] \/ p[2] = q[2] => p = q
    <3>1. \A p \in pairs : p[1] # b /\ p[2] # l
      BY <1>2, <2>3
    <3>2. \A p, q \in pairs : p[1] = q[1] \/ p[2] = q[2] => p = q
      BY DEF Greedy
    <3>. QED BY <2>7, <3>1, <3>2
  <2>10. \A x \in done \union {b}, y \in ledger :
           Fits(x, y) => \E p \in more : p[1] = x \/ p[2] = y
    <3>1. \E p \in more : p[1] = b
      <4>1. <<b, l>> \in more /\ <<b, l>>[1] = b
        BY <2>4
      <4>. QED BY <4>1
    <3>2. \A x \in done, y \in ledger : Fits(x, y) => \E p \in pairs : p[1] = x \/ p[2] = y
      BY DEF Greedy
    <3>. QED BY <2>4, <3>1, <3>2
  <2>. QED BY <2>5, <2>6, <2>8, <2>9, <2>10 DEF Greedy
<1>. QED BY <1>4, <1>5

LEMMA FallbackIsGreedy ==
  ASSUME NEW bank, NEW ledger, OneSide(bank, "bank"), OneSide(ledger, "ledger")
  PROVE  Greedy(FallbackMatches(bank, ledger), ledger, bank)
<1>1. PICK n \in Nat : \E order \in [1..n -> bank] :
           /\ order = InKeyOrder(bank)
           /\ \A m \in bank : \E i \in 1..n : order[i] = m
           /\ \A i, j \in 1..n : order[i] = order[j] => i = j
  BY OrderedOnce
<1>11. PICK order \in [1..n -> bank] :
           /\ order = InKeyOrder(bank)
           /\ \A m \in bank : \E i \in 1..n : order[i] = m
           /\ \A i, j \in 1..n : order[i] = order[j] => i = j
  BY <1>1
<1>12. PICK acc : Passes(acc, bank, ledger, order, n)
  BY <1>11, FallbackRuns
<1>2. /\ acc[0] = {} /\ acc[n] = FallbackMatches(bank, ledger)
      /\ \A i \in 1..n : acc[i] = Taken(ledger, acc[i - 1], order[i])
  BY <1>12 DEF Passes
<1>. DEFINE Done(i) == {order[j] : j \in 1..i}
            P == {i \in Nat : i <= n => Greedy(acc[i], ledger, Done(i))}
<1>3. 0 \in P
  <2>1. Done(0) = {}
    OBVIOUS
  <2>. QED BY <1>2, <2>1 DEF Greedy
<1>4. ASSUME NEW i \in Nat, i \in P
      PROVE  i + 1 \in P
  <2>. SUFFICES ASSUME i + 1 <= n
                PROVE  Greedy(acc[i + 1], ledger, Done(i + 1))
    OBVIOUS
  <2>1. Greedy(acc[i], ledger, Done(i))
    BY <1>4
  <2>2. i + 1 \in 1..n /\ (i + 1) - 1 = i /\ \A j \in 1..i : j \in 1..n /\ j # i + 1
    OBVIOUS
  <2>3. acc[i + 1] = Taken(ledger, acc[i], order[i + 1])
    BY <1>2, <2>2
  <2>4. order[i + 1] \in bank /\ order[i + 1] \notin Done(i) /\ Done(i) \in SUBSET bank
    BY <1>11, <2>2
  <2>5. Done(i + 1) = Done(i) \union {order[i + 1]}
    <3>1. \A j : j \in 1..(i + 1) <=> (j \in 1..i \/ j = i + 1)
      OBVIOUS
    <3>. QED BY <3>1
  <2>. HIDE DEF Done
  <2>. QED BY <2>1, <2>3, <2>4, <2>5, TakenKeeps
<1>5. Nat \subseteq P
  <2>. HIDE DEF P
  <2>. QED BY <1>3, <1>4, NumbersFrom
<1>6. Done(n) = bank
  BY <1>11
<1>7. Greedy(acc[n], ledger, Done(n))
  <2>. HIDE DEF Done
  <2>1. \A i \in P : i <= n => Greedy(acc[i], ledger, Done(i))
    OBVIOUS
  <2>2. n \in P
    <3>. HIDE DEF P
    <3>. QED BY <1>5
  <2>3. n <= n
    OBVIOUS
  <2>. HIDE DEF P
  <2>. QED BY <2>1, <2>2, <2>3
<1>. HIDE DEF Done
<1>. QED
  BY <1>2, <1>6, <1>7

LEMMA OneAtMost ==
  ASSUME NEW S, IsFiniteSet(S), NEW x \in S
  PROVE  /\ Cardinality(S) = 1 => \A y \in S : y = x
         /\ \A y \in S : y # x => Cardinality(S) > 1
<1>1. Cardinality(S) = 1 => \E z : S = {z}
  BY FS_Singleton
<1>2. Cardinality(S) = 1 => \A y \in S : y = x
  BY <1>1
<1>3. Cardinality(S) \in Nat /\ Cardinality(S) # 0
  BY FS_CardinalityType, FS_EmptySet
<1>. QED
  BY <1>2, <1>3

\* Pairs of one movement of either side, each in one pair at most.
Pairing(pairs, bank, ledger) ==
  /\ pairs \subseteq bank \X ledger
  /\ \A p, q \in pairs : p[1] = q[1] \/ p[2] = q[2] => p = q

\* What a reconciliation says about two sides: its pairs are free of conflicts and
\* fit unless their references agree, and those left alone do not fit.
Settles(d, bank, ledger) ==
  /\ Pairing(d.matched, bank, ledger)
  /\ d.conflicts = Conflicting(bank, ledger)
  /\ \A p \in d.matched : p[1] \notin d.conflicts /\ p[2] \notin d.conflicts
  /\ \A p \in d.matched : p[1].reference # p[2].reference => Fits(p[1], p[2])
  /\ d.bankOnly = (bank \ d.conflicts) \ Sides(d.matched)
  /\ d.ledgerOnly = (ledger \ d.conflicts) \ Sides(d.matched)
  /\ \A b \in d.bankOnly, l \in d.ledgerOnly : ~Fits(b, l)

\* Movements matched by reference, one to one and free of conflicts.
LEMMA ByReference ==
  ASSUME NEW bank, NEW ledger, OneSide(bank, "bank"), OneSide(ledger, "ledger"),
         NEW first, first = ReferenceMatches(bank, ledger)
  PROVE  /\ Pairing(first, bank, ledger)
         /\ \A p \in first : p[1].reference = p[2].reference
         /\ \A p \in first : /\ p[1] \notin Conflicting(bank, ledger)
                             /\ p[2] \notin Conflicting(bank, ledger)
<1>1. \A r : IsFiniteSet(With(bank, r)) /\ IsFiniteSet(With(ledger, r))
  <2>1. \A r : With(bank, r) \in SUBSET bank /\ With(ledger, r) \in SUBSET ledger
    BY DEF With
  <2>. QED BY <2>1, FS_Subset DEF OneSide
<1>2. first \subseteq bank \X ledger
  BY DEF ReferenceMatches
<1>3. \A p \in first : /\ p = <<p[1], p[2]>> /\ p[1] \in bank /\ p[2] \in ledger
                       /\ p[1].reference = p[2].reference
                       /\ Cardinality(With(bank, p[1].reference)) = 1
                       /\ Cardinality(With(ledger, p[1].reference)) = 1
  BY DEF ReferenceMatches
<1>4. \A p \in first : /\ p[1] \in With(bank, p[1].reference)
                       /\ p[2] \in With(ledger, p[1].reference)
  BY <1>3 DEF With
<1>5. ASSUME NEW p \in first, NEW q \in first, p[1] = q[1]
      PROVE  p = q
  <2>1. PICK S : S = With(ledger, p[1].reference)
    OBVIOUS
  <2>2. p[2] \in S /\ q[2] \in S /\ IsFiniteSet(S) /\ Cardinality(S) = 1
    BY <1>1, <1>3, <1>4, <1>5, <2>1
  <2>3. p[2] = q[2]
    BY <2>2, OneAtMost
  <2>. QED BY <1>3, <1>5, <2>3
<1>6. ASSUME NEW p \in first, NEW q \in first, p[2] = q[2]
      PROVE  p = q
  <2>1. PICK S : S = With(bank, p[1].reference)
    OBVIOUS
  <2>2. p[1].reference = q[1].reference
    BY <1>3, <1>6
  <2>3. p[1] \in S /\ q[1] \in S /\ IsFiniteSet(S) /\ Cardinality(S) = 1
    BY <1>1, <1>3, <1>4, <2>1, <2>2
  <2>4. p[1] = q[1]
    BY <2>3, OneAtMost
  <2>. QED BY <1>3, <1>6, <2>4
<1>7. \A p \in first : /\ p[1] \notin Conflicting(bank, ledger)
                       /\ p[2] \notin Conflicting(bank, ledger)
  <2>1. \A m \in Conflicting(bank, ledger) :
          \/ Cardinality(With(bank, m.reference)) > 1
          \/ Cardinality(With(ledger, m.reference)) > 1
    BY DEF Conflicting
  <2>. QED BY <1>3, <2>1
<1>. QED
  BY <1>2, <1>3, <1>5, <1>6, <1>7 DEF Pairing

LEMMA ReconcileSettles ==
  ASSUME NEW bank, NEW ledger, OneSide(bank, "bank"), OneSide(ledger, "ledger")
  PROVE  Settles(Reconcile(bank, ledger), bank, ledger)
<1>1. PICK conflicts, first, settled, rest, pairs, d :
        /\ conflicts = Conflicting(bank, ledger)
        /\ first = ReferenceMatches(bank, ledger)
        /\ settled = conflicts \union Sides(first)
        /\ rest = FallbackMatches(bank \ settled, ledger \ settled)
        /\ pairs = first \union rest
        /\ d = Reconcile(bank, ledger)
  OBVIOUS
<1>2. /\ d.conflicts = conflicts /\ d.matched = pairs
      /\ d.bankOnly = (bank \ conflicts) \ Sides(pairs)
      /\ d.ledgerOnly = (ledger \ conflicts) \ Sides(pairs)
  BY <1>1 DEF Reconcile
<1>3. /\ Pairing(first, bank, ledger)
      /\ \A p \in first : p[1].reference = p[2].reference
      /\ \A p \in first : p[1] \notin conflicts /\ p[2] \notin conflicts
  BY <1>1, ByReference
<1>4. PICK b0, l0 : b0 = bank \ settled /\ l0 = ledger \ settled
  OBVIOUS
<1>5. Greedy(rest, l0, b0)
  <2>1. OneSide(b0, "bank") /\ OneSide(l0, "ledger")
    BY <1>4, PartOfSide
  <2>. QED BY <1>1, <1>4, <2>1, FallbackIsGreedy
<1>6. \A p \in rest : /\ p[1] \in b0 /\ p[2] \in l0
                      /\ p[1] \in bank /\ p[2] \in ledger
                      /\ p[1] \notin settled /\ p[2] \notin settled
                      /\ Fits(p[1], p[2])
  BY <1>4, <1>5 DEF Greedy
<1>7. \A p \in first : p[1] \in settled /\ p[2] \in settled
  BY <1>1 DEF Sides
<1>8. Pairing(pairs, bank, ledger)
  <2>1. pairs \subseteq bank \X ledger
    BY <1>1, <1>3, <1>4, <1>5 DEF Pairing, Greedy
  <2>2. ASSUME NEW p \in pairs, NEW q \in pairs, p[1] = q[1] \/ p[2] = q[2]
        PROVE  p = q
    <3>1. CASE p \in first /\ q \in first
      BY <1>3, <2>2, <3>1 DEF Pairing
    <3>2. CASE p \in rest /\ q \in rest
      BY <1>5, <2>2, <3>2 DEF Greedy
    <3>3. ~(p \in first /\ q \in rest) /\ ~(p \in rest /\ q \in first)
      BY <1>6, <1>7, <2>2
    <3>. QED BY <1>1, <3>1, <3>2, <3>3
  <2>. QED BY <2>1, <2>2 DEF Pairing
<1>9. \A p \in pairs : p[1] \notin conflicts /\ p[2] \notin conflicts
  BY <1>1, <1>3, <1>6
<1>10. \A p \in pairs : p[1].reference # p[2].reference => Fits(p[1], p[2])
  BY <1>1, <1>3, <1>6
<1>11. ASSUME NEW b \in d.bankOnly, NEW l \in d.ledgerOnly
       PROVE  ~Fits(b, l)
  <2>1. \A p \in pairs : p[1] # b /\ p[2] # l
    BY <1>2 DEF Sides
  <2>2. b \in b0 /\ l \in l0
    <3>1. Sides(first) \subseteq Sides(pairs)
      BY <1>1 DEF Sides
    <3>. QED BY <1>1, <1>2, <1>4, <3>1
  <2>3. Fits(b, l) => \E p \in rest : p[1] = b \/ p[2] = l
    BY <1>5, <2>2 DEF Greedy
  <2>. QED BY <1>1, <2>1, <2>3
<1>. QED
  BY <1>1, <1>2, <1>8, <1>9, <1>10, <1>11 DEF Settles

\* What is settled so has one place for every movement.
LEMMA SettlesClassifies ==
  ASSUME NEW bank, NEW ledger, OneSide(bank, "bank"), OneSide(ledger, "ledger"),
         NEW d, Settles(d, bank, ledger)
  PROVE  Classified(d, bank, ledger)
<1>1. PICK alone : alone = d.bankOnly \union d.ledgerOnly
  OBVIOUS
<1>2. \A x \in bank, y \in ledger : x # y
  BY DEF OneSide
<1>3. \A p \in d.matched : p[1] \in bank /\ p[2] \in ledger
  BY DEF Settles, Pairing
<1>4. \A m : m \in Sides(d.matched) <=> \E p \in d.matched : m = p[1] \/ m = p[2]
  BY DEF Sides
<1>5. \A m \in bank \union ledger :
        m \in alone <=> m \notin d.conflicts /\ m \notin Sides(d.matched)
  BY <1>1 DEF Settles
<1>6. ASSUME NEW m \in bank \union ledger
      PROVE  Cardinality({p \in d.matched : m \in {p[1], p[2]}})
               + (IF m \in d.conflicts THEN 1 ELSE 0) + (IF m \in alone THEN 1 ELSE 0) = 1
  <2>1. PICK S : S = {p \in d.matched : m \in {p[1], p[2]}}
    OBVIOUS
  <2>2. CASE m \in Sides(d.matched)
    <3>1. PICK p \in d.matched : m = p[1] \/ m = p[2]
      BY <1>4, <2>2
    <3>2. \A q \in d.matched : m = q[1] \/ m = q[2] => q = p
      <4>1. \A q \in d.matched : p[1] = q[1] \/ p[2] = q[2] => p = q
        BY DEF Settles, Pairing
      <4>. QED BY <1>2, <1>3, <3>1, <4>1
    <3>3. S = {p}
      BY <2>1, <3>1, <3>2
    <3>4. Cardinality(S) = 1
      BY <3>3, FS_Singleton
    <3>5. m \notin d.conflicts
      BY <3>1 DEF Settles
    <3>. QED BY <1>5, <2>1, <2>2, <3>4, <3>5
  <2>3. CASE m \notin Sides(d.matched)
    <3>1. S = {}
      BY <1>4, <2>1, <2>3
    <3>2. Cardinality(S) = 0
      BY <3>1, FS_EmptySet
    <3>. QED BY <1>5, <2>1, <2>3, <3>2
  <2>. QED BY <2>2, <2>3
<1>7. ASSUME NEW side \in {bank, ledger}, NEW m \in side, NEW n \in side,
             m # n, m.reference = n.reference
      PROVE  {m, n} \intersect (Sides(d.matched) \union alone) = {}
  <2>1. PICK S : S = With(side, m.reference)
    OBVIOUS
  <2>2. m \in S /\ n \in S /\ S \in SUBSET side
    BY <1>7, <2>1 DEF With
  <2>3. IsFiniteSet(S)
    BY <2>2, FS_Subset DEF OneSide
  <2>4. Cardinality(S) > 1
    BY <1>7, <2>2, <2>3, OneAtMost
  <2>5. m \in d.conflicts /\ n \in d.conflicts
    BY <1>7, <2>1, <2>4 DEF Settles, Conflicting
  <2>6. m \notin Sides(d.matched) /\ n \notin Sides(d.matched)
    BY <1>4, <2>5 DEF Settles
  <2>. QED BY <1>5, <2>5, <2>6
<1>8. \A b \in d.bankOnly, l \in d.ledgerOnly : ~Fits(b, l)
  BY DEF Settles
<1>. QED
  BY <1>1, <1>6, <1>7, <1>8 DEF Classified

\* A sum is the one over a part and the one over the rest.
LEMMA PartSplit ==
  ASSUME NEW S, IsFiniteSet(S), NEW f, \A x \in S : f[x] \in Int, NEW T \in SUBSET S
  PROVE  /\ Part(f, S) = Part(f, T) + Part(f, S \ T)
         /\ Part(f, S) \in Int /\ Part(f, T) \in Int /\ Part(f, S \ T) \in Int
<1>1. PICK R : R = S \ T
  OBVIOUS
<1>. DEFINE P == {s \in SUBSET R : Part(f, T \union s) = Part(f, T) + Part(f, s)}
<1>2. Part(f, T) \in Int
  BY PartSums
<1>3. {} \in P
  <2>1. T \union {} = T /\ Part(f, {}) = 0
    BY PartSums
  <2>. QED BY <1>2, <2>1
<1>4. ASSUME NEW s \in SUBSET R, NEW x \in s, s \ {x} \in P
      PROVE  s \in P
  <2>1. PICK u, t : u = T \union s /\ t = s \ {x}
    OBVIOUS
  <2>2. u \in SUBSET S /\ x \in u /\ u \ {x} = T \union t /\ s \in SUBSET S /\ t \in SUBSET S
    BY <1>1, <2>1
  <2>3. Part(f, u) = f[x] + Part(f, T \union t)
    BY <2>2, PartSums
  <2>4. Part(f, s) = f[x] + Part(f, t)
    BY <2>1, <2>2, PartSums
  <2>5. Part(f, T \union t) = Part(f, T) + Part(f, t)
    BY <1>4, <2>1
  <2>6. f[x] \in Int /\ Part(f, t) \in Int
    BY <2>2, PartSums
  <2>. QED BY <1>2, <2>1, <2>3, <2>4, <2>5, <2>6
<1>5. SUBSET R \subseteq P
  <2>1. \A s \in SUBSET R : s # {} => \E x \in s : s \ {x} \in P => s \in P
    BY <1>4
  <2>2. IsFiniteSet(R)
    BY <1>1, FS_Difference
  <2>. HIDE DEF P
  <2>. QED BY <1>3, <2>1, <2>2, SubsetsFrom
<1>6. T \union R = S /\ R \in P
  BY <1>1, <1>5
<1>7. Part(f, S) \in Int /\ Part(f, S \ T) \in Int
  BY PartSums
<1>. QED
  BY <1>1, <1>2, <1>6, <1>7

\* Each pair holds one movement of a side, free of conflicts and in no other pair,
\* and e is the value of it; alone is what is neither in a pair nor in a conflict.
OfOneSide(of, e, value, side, conflicts, pairs, alone) ==
  /\ of \in [pairs -> side]
  /\ \A m \in side : value[m] \in Int
  /\ \A p, q \in pairs : of[p] = of[q] => p = q
  /\ \A p \in pairs : of[p] \notin conflicts /\ e[p] = value[of[p]]
  /\ alone = {m \in side \ conflicts : \A p \in pairs : m # of[p]}

\* The values of one side: in conflicts, in pairs, and alone.
LEMMA SideSplits ==
  ASSUME NEW of, NEW e, NEW value, NEW side, NEW conflicts, NEW pairs, NEW alone,
         OfOneSide(of, e, value, side, conflicts, pairs, alone),
         IsFiniteSet(side), IsFiniteSet(pairs)
  PROVE  /\ Part(value, side) = Part(value, conflicts \intersect side)
              + Part(e, pairs) + Part(value, alone)
         /\ Part(value, conflicts \intersect side) \in Int /\ Part(value, alone) \in Int
         /\ Part(e, pairs) \in Int
<1>1. PICK C, R, M : C = conflicts \intersect side /\ R = side \ C /\ M = {of[p] : p \in pairs}
  OBVIOUS
<1>0. /\ of \in [pairs -> side] /\ \A p \in pairs : of[p] \in side
      /\ \A m \in side : value[m] \in Int
      /\ \A p, q \in pairs : of[p] = of[q] => p = q
      /\ \A p \in pairs : of[p] \notin conflicts /\ e[p] = value[of[p]]
      /\ alone = {m \in side \ conflicts : \A p \in pairs : m # of[p]}
  BY DEF OfOneSide
<1>2. C \in SUBSET side /\ R \in SUBSET side /\ IsFiniteSet(R)
  BY <1>1, FS_Subset
<1>3. M \in SUBSET R /\ R \ M = alone
  BY <1>0, <1>1
<1>4. /\ Part(value, side) = Part(value, C) + Part(value, R)
      /\ Part(value, C) \in Int /\ Part(value, R) \in Int
  BY <1>0, <1>1, <1>2, PartSplit
<1>5. /\ Part(value, R) = Part(value, M) + Part(value, alone)
      /\ Part(value, M) \in Int /\ Part(value, alone) \in Int
  <2>1. \A m \in R : value[m] \in Int
    BY <1>0, <1>2
  <2>2. /\ Part(value, R) = Part(value, M) + Part(value, R \ M)
        /\ Part(value, M) \in Int /\ Part(value, R \ M) \in Int
    BY <1>2, <1>3, <2>1, PartSplit
  <2>. QED BY <1>3, <2>2
<1>7. Part(e, pairs) = Part(value, M)
  <2>1. Renumbers(e, pairs, value, M)
    <3>1. PICK at : at = [p \in pairs |-> of[p]]
      OBVIOUS
    <3>2. at \in [pairs -> M] /\ \A p \in pairs : at[p] = of[p]
      BY <1>1, <3>1
    <3>3. \A x \in M : \E p \in pairs : at[p] = x
      BY <1>1, <3>2
    <3>4. \A p \in pairs : e[p] = value[at[p]]
      BY <1>0, <3>2
    <3>5. \A p, q \in pairs : at[p] = at[q] => p = q
      BY <1>0, <3>2
    <3>. QED BY <3>2, <3>3, <3>4, <3>5 DEF Renumbers
  <2>2. IsFiniteSet(M) /\ \A m \in M : value[m] \in Int
    BY <1>0, <1>2, <1>3, FS_Subset
  <2>. QED BY <2>1, <2>2, PartRenumbered
<1>. QED
  BY <1>1, <1>4, <1>5, <1>7

\* The amount of a movement, and of the one a pair holds of either side.
Signs(S) == [m \in S |-> Signed(m)]

LEMMA TotalIsPart ==
  ASSUME NEW S, NEW T \in SUBSET S
  PROVE  Total(T) = Part(Signs(S), T)
<1>1. [m \in T |-> Signed(m)] = [m \in T |-> Signs(S)[m]]
  BY DEF Signs
<1>. QED
  BY <1>1 DEF Total, Part

\* The difference of the sides is what is left alone and what is left open.
LEMMA SettlesExplains ==
  ASSUME NEW bank, NEW ledger, OneSide(bank, "bank"), OneSide(ledger, "ledger"),
         NEW d, Settles(d, bank, ledger)
  PROVE  Total(bank) - Total(ledger)
           = Total(d.bankOnly) - Total(d.ledgerOnly) + LeftOpen(d, bank, ledger)
<1>1. PICK pairs, conflicts : pairs = d.matched /\ conflicts = d.conflicts
  OBVIOUS
<1>2. /\ \A p \in pairs : p[1] \in bank /\ p[2] \in ledger
      /\ \A p, q \in pairs : p[1] = q[1] \/ p[2] = q[2] => p = q
      /\ \A p \in pairs : p[1] \notin conflicts /\ p[2] \notin conflicts
      /\ pairs \subseteq bank \X ledger
  BY <1>1 DEF Settles, Pairing
<1>3. IsFiniteSet(bank) /\ IsFiniteSet(ledger)
  BY DEF OneSide
<1>4. IsFiniteSet(pairs)
  <2>1. IsFiniteSet(bank \X ledger)
    BY <1>3, FS_Product
  <2>. QED BY <1>2, <2>1, FS_Subset
<1>5. PICK vb, vl : vb = Signs(bank) /\ vl = Signs(ledger)
  OBVIOUS
<1>6. /\ \A m \in bank : vb[m] = Signed(m) /\ vb[m] \in Int
      /\ \A m \in ledger : vl[m] = Signed(m) /\ vl[m] \in Int
  BY <1>5 DEF Signs, Signed, OneSide
<1>7. PICK ob, ol : ob = [p \in pairs |-> p[1]] /\ ol = [p \in pairs |-> p[2]]
  OBVIOUS
<1>8. /\ ob \in [pairs -> bank] /\ ol \in [pairs -> ledger]
      /\ \A p \in pairs : ob[p] = p[1] /\ ol[p] = p[2]
  BY <1>2, <1>7
<1>9. \A m : m \in Sides(pairs) <=> \E p \in pairs : m = p[1] \/ m = p[2]
  BY DEF Sides
<1>10. \A x \in bank, y \in ledger : x # y
  BY DEF OneSide
<1>11. d.bankOnly = {m \in bank \ conflicts : \A p \in pairs : m # ob[p]}
  BY <1>1, <1>2, <1>8, <1>9, <1>10 DEF Settles
<1>12. d.ledgerOnly = {m \in ledger \ conflicts : \A p \in pairs : m # ol[p]}
  BY <1>1, <1>2, <1>8, <1>9, <1>10 DEF Settles
<1>13. PICK eb, el, ed : /\ eb = [p \in pairs |-> vb[ob[p]]]
                         /\ el = [p \in pairs |-> vl[ol[p]]]
                         /\ ed = [p \in pairs |-> Signed(p[1]) - Signed(p[2])]
  OBVIOUS
<1>14. /\ Part(vb, bank) = Part(vb, conflicts \intersect bank) + Part(eb, pairs)
                             + Part(vb, d.bankOnly)
       /\ Part(vb, conflicts \intersect bank) \in Int /\ Part(vb, d.bankOnly) \in Int
       /\ Part(eb, pairs) \in Int
  <2>1. PICK alone : alone = d.bankOnly
    OBVIOUS
  <2>2. OfOneSide(ob, eb, vb, bank, conflicts, pairs, alone)
    <3>1. \A p, q \in pairs : ob[p] = ob[q] => p = q
      BY <1>2, <1>8
    <3>2. \A p \in pairs : ob[p] \notin conflicts /\ eb[p] = vb[ob[p]]
      BY <1>2, <1>8, <1>13
    <3>3. alone = {m \in bank \ conflicts : \A p \in pairs : m # ob[p]}
      BY <1>11, <2>1
    <3>. QED BY <1>6, <1>8, <3>1, <3>2, <3>3 DEF OfOneSide
  <2>. QED BY <1>3, <1>4, <2>1, <2>2, SideSplits
<1>15. /\ Part(vl, ledger) = Part(vl, conflicts \intersect ledger) + Part(el, pairs)
                               + Part(vl, d.ledgerOnly)
       /\ Part(vl, conflicts \intersect ledger) \in Int /\ Part(vl, d.ledgerOnly) \in Int
       /\ Part(el, pairs) \in Int
  <2>1. PICK alone : alone = d.ledgerOnly
    OBVIOUS
  <2>2. OfOneSide(ol, el, vl, ledger, conflicts, pairs, alone)
    <3>1. \A p, q \in pairs : ol[p] = ol[q] => p = q
      BY <1>2, <1>8
    <3>2. \A p \in pairs : ol[p] \notin conflicts /\ el[p] = vl[ol[p]]
      BY <1>2, <1>8, <1>13
    <3>3. alone = {m \in ledger \ conflicts : \A p \in pairs : m # ol[p]}
      BY <1>12, <2>1
    <3>. QED BY <1>6, <1>8, <3>1, <3>2, <3>3 DEF OfOneSide
  <2>. QED BY <1>3, <1>4, <2>1, <2>2, SideSplits
<1>16. \A p \in pairs : /\ eb[p] = Signed(p[1]) /\ eb[p] \in Int
                        /\ el[p] = Signed(p[2]) /\ el[p] \in Int
                        /\ ed[p] = eb[p] - el[p] /\ ed[p] \in Int
  BY <1>2, <1>6, <1>8, <1>13
<1>17. Part(ed, pairs) = Part(eb, pairs) - Part(el, pairs)
  BY <1>4, <1>16, PartDifference
<1>18. PICK agreed : agreed = {q \in pairs : q[1].reference = q[2].reference}
  OBVIOUS
<1>19. Part(ed, pairs) = Part(ed, agreed)
  <2>1. ASSUME NEW p \in pairs \ agreed
        PROVE  ed[p] = 0
    <3>1. Fits(p[1], p[2])
      BY <1>1, <1>18, <2>1 DEF Settles
    <3>2. Signed(p[1]) = Signed(p[2])
      BY <3>1 DEF Fits, Signed
    <3>. QED BY <1>16, <3>2
  <2>2. agreed \in SUBSET pairs
    BY <1>18
  <2>. QED BY <1>4, <1>16, <2>1, <2>2, PartSupport
<1>20. Part(ed, agreed) = SumFunction([p \in agreed |-> Signed(p[1]) - Signed(p[2])])
  <2>1. [p \in agreed |-> ed[p]] = [p \in agreed |-> Signed(p[1]) - Signed(p[2])]
    BY <1>13, <1>18
  <2>. QED BY <2>1 DEF Part
<1>21. LeftOpen(d, bank, ledger) = Total(conflicts \intersect bank)
         - Total(conflicts \intersect ledger) + Part(ed, agreed)
  BY <1>1, <1>18, <1>20 DEF LeftOpen
<1>22. /\ Total(bank) = Part(vb, bank)
       /\ Total(conflicts \intersect bank) = Part(vb, conflicts \intersect bank)
       /\ Total(d.bankOnly) = Part(vb, d.bankOnly)
  <2>1. conflicts \intersect bank \in SUBSET bank /\ d.bankOnly \in SUBSET bank
    BY <1>11
  <2>. QED BY <1>5, <2>1, TotalIsPart
<1>23. /\ Total(ledger) = Part(vl, ledger)
       /\ Total(conflicts \intersect ledger) = Part(vl, conflicts \intersect ledger)
       /\ Total(d.ledgerOnly) = Part(vl, d.ledgerOnly)
  <2>1. conflicts \intersect ledger \in SUBSET ledger /\ d.ledgerOnly \in SUBSET ledger
    BY <1>12
  <2>. QED BY <1>5, <2>1, TotalIsPart
<1>. QED
  BY <1>14, <1>15, <1>17, <1>19, <1>21, <1>22, <1>23

LEMMA ReconciledIs ==
  ASSUME NEW scope \in Scope, NEW name \in DOMAIN Books
  PROVE  LET given == MovementsGiven[scope][name]
         IN  /\ OneSide(given.bank, "bank") /\ OneSide(given.ledger, "ledger")
             /\ Reconciled[scope][name] = Reconcile(given.bank, given.ledger)
<1>1. PICK given : given = MovementsGiven[scope][name]
  OBVIOUS
<1>2. Reconciled[scope][name] = Differences(scope, Books[name])
  BY DEF Reconciled
<1>3. Books[name].bank \in Seq(Row) /\ Books[name].ledger \in Seq(Row)
  BY CloseAssumption
<1>4. CASE Reconciles(scope, Books[name])
  <2>1. /\ given.bank = MovementsOf(Books[name].bank, "bank")
        /\ given.ledger = MovementsOf(Books[name].ledger, "ledger")
    BY <1>1, <1>4 DEF MovementsGiven
  <2>2. OneSide(given.bank, "bank") /\ OneSide(given.ledger, "ledger")
    BY <1>3, <2>1, SideOfRows
  <2>. QED BY <1>1, <1>2, <1>4, <2>1, <2>2 DEF Differences
<1>5. CASE ~Reconciles(scope, Books[name])
  <2>1. given.bank = {} /\ given.ledger = {}
    BY <1>1, <1>5 DEF MovementsGiven
  <2>2. OneSide({}, "bank") /\ OneSide({}, "ledger")
    BY FS_EmptySet DEF OneSide
  <2>. QED BY <1>1, <1>2, <1>5, <2>1, <2>2 DEF Differences
<1>. QED
  BY <1>4, <1>5

LEMMA PackagedExplains ==
  ASSUME Packaged
  PROVE  DifferencesExplainBooks
<1>. SUFFICES ASSUME Completed
              PROVE  /\ Classified(Found, BankMovements, LedgerMovements)
                     /\ Total(BankMovements) - Total(LedgerMovements)
                          = Total(Found.bankOnly) - Total(Found.ledgerOnly)
                              + LeftOpen(Found, BankMovements, LedgerMovements)
  BY DEF DifferencesExplainBooks
<1>1. package.scope \in Scope /\ closed \in DOMAIN Books
  BY PackageParts
<1>2. PICK d, bank, ledger : d = Found /\ bank = BankMovements /\ ledger = LedgerMovements
  OBVIOUS
<1>3. OneSide(bank, "bank") /\ OneSide(ledger, "ledger") /\ d = Reconcile(bank, ledger)
  BY <1>1, <1>2, ReconciledIs DEF Found, BankMovements, LedgerMovements
<1>4. Settles(d, bank, ledger)
  BY <1>3, ReconcileSettles
<1>. QED
  BY <1>2, <1>3, <1>4, SettlesClassifies, SettlesExplains

\* Every movement of a complete close has one place, and what the books of bank and
\* ledger differ by is in the differences found, with pairs taken greedily by
\* amount and day hiding nothing (bank-reconciliation/compare.ts, adjust.ts).
THEOREM DifferencesExplained == FiscalSpec => []DifferencesExplainBooks
BY FiscalIsClose, PackagedHolds, PackagedExplains, PTL
=============================================================================
