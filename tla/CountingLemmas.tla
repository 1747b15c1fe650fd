--------------------------- MODULE CountingLemmas --------------------------
(* What the proofs of the other modules share about numbers and finite sets: how many *)
(* elements stand before one, which number is the least, induction over an interval   *)
(* and over the subsets of a finite set, and what a sum over a set does when one of    *)
(* its elements comes, goes or changes.                                               *)
EXTENDS FiniteSets, FiniteSetsExt, Integers, FiniteSetTheorems, TLAPS

-----------------------------------------------------------------------------
(* Counting along an order                                                 *)

Under(S, R, x) == {y \in S : <<y, x>> \in R}
Place(S, R, x) == Cardinality(Under(S, R, x))

\* In a finite set under a strict total order the numbers of smaller elements are all
\* different and leave none out.
LEMMA CountedPlaces ==
  ASSUME NEW S, IsFiniteSet(S), NEW R,
         \A x \in S : <<x, x>> \notin R,
         \A x, y, z \in S : <<x, y>> \in R /\ <<y, z>> \in R => <<x, z>> \in R,
         \A x, y \in S : x # y => <<x, y>> \in R \/ <<y, x>> \in R
  PROVE  /\ \A x \in S : Place(S, R, x) \in 0 .. Cardinality(S) - 1
         /\ \A x, y \in S : <<x, y>> \in R => Place(S, R, x) < Place(S, R, y)
         /\ \A k \in 0 .. Cardinality(S) - 1 : \E x \in S : Place(S, R, x) = k
  <1> DEFINE below(x) == Under(S, R, x)
             place(x) == Place(S, R, x)
             n == Cardinality(S)
             f == [x \in S |-> place(x)]
  <1>1. \A x \in S : IsFiniteSet(below(x)) /\ place(x) \in Nat
    <2> SUFFICES ASSUME NEW x \in S PROVE IsFiniteSet(below(x)) /\ place(x) \in Nat
      OBVIOUS
    <2>1. below(x) \in SUBSET S
      BY DEF Under
    <2> QED BY <2>1, FS_Subset, FS_CardinalityType DEF Place
  <1>2. n \in Nat
    BY FS_CardinalityType
  <1>3. ASSUME NEW T, IsFiniteSet(T), NEW U \in SUBSET T, NEW x \in T, x \notin U
        PROVE  Cardinality(U) < Cardinality(T)
    <2>1. IsFiniteSet(U) /\ Cardinality(U) <= Cardinality(T) /\ Cardinality(U) # Cardinality(T)
      BY <1>3, FS_Subset
    <2>2. Cardinality(U) \in Nat /\ Cardinality(T) \in Nat
      BY <1>3, <2>1, FS_CardinalityType
    <2> QED BY <2>1, <2>2
  <1>4. \A x \in S : place(x) \in 0 .. n - 1
    <2> SUFFICES ASSUME NEW x \in S PROVE place(x) \in 0 .. n - 1
      OBVIOUS
    <2>1. below(x) \in SUBSET S /\ x \notin below(x)
      BY DEF Under
    <2>2. place(x) < n
      BY <1>3, <2>1 DEF Place
    <2> QED BY <1>1, <1>2, <2>2
  <1>5. \A x, y \in S : <<x, y>> \in R => place(x) < place(y)
    <2> SUFFICES ASSUME NEW x \in S, NEW y \in S, <<x, y>> \in R PROVE place(x) < place(y)
      OBVIOUS
    <2>1. below(x) \in SUBSET below(y) /\ x \in below(y) /\ x \notin below(x)
      BY DEF Under
    <2>2. IsFiniteSet(below(y))
      BY <1>1
    <2> QED BY <1>3, <2>1, <2>2 DEF Place
  <1>6. f \in Injection(S, 0 .. n - 1)
    <2>1. f \in [S -> 0 .. n - 1]
      BY <1>4
    <2>2. ASSUME NEW x \in S, NEW y \in S, f[x] = f[y] PROVE x = y
      <3>1. place(x) = place(y) /\ place(x) \in Nat
        BY <1>1, <2>2
      <3> HIDE DEF place
      <3>2. ~(place(x) < place(y)) /\ ~(place(y) < place(x))
        BY <3>1
      <3> QED BY <1>5, <3>2
    <2> HIDE DEF f
    <2>3. IsInjective(f)
      BY <2>1, <2>2 DEF IsInjective
    <2> QED BY <2>1, <2>3 DEF Injection
  <1>7. IsFiniteSet(0 .. n - 1) /\ Cardinality(0 .. n - 1) = n
    <2>1. n - 1 \in Int /\ IF 0 > n - 1 THEN n = 0 ELSE n - 1 - 0 + 1 = n
      BY <1>2
    <2> HIDE DEF n
    <2> QED BY <2>1, FS_Interval
  <1>8. f \in Surjection(S, 0 .. n - 1)
    <2> HIDE DEF f, n
    <2> QED BY <1>6, <1>7, FS_Injection DEF n
  <1>9. \A k \in 0 .. n - 1 : \E x \in S : place(x) = k
    <2> HIDE DEF place
    <2> QED BY <1>8 DEF Surjection
  <1> QED BY <1>4, <1>5, <1>9

Sorted(S, R) == [i \in 1 .. Cardinality(S) |-> CHOOSE x \in S : Place(S, R, x) = i - 1]

\* Taking each element at its place lists every one of them once, the smaller ones first.
LEMMA SortedLists ==
  ASSUME NEW S, IsFiniteSet(S), NEW R,
         \A x \in S : <<x, x>> \notin R,
         \A x, y, z \in S : <<x, y>> \in R /\ <<y, z>> \in R => <<x, z>> \in R,
         \A x, y \in S : x # y => <<x, y>> \in R \/ <<y, x>> \in R
  PROVE  /\ Cardinality(S) \in Nat /\ DOMAIN Sorted(S, R) = 1 .. Cardinality(S)
         /\ \A i \in 1 .. Cardinality(S) : Sorted(S, R)[i] \in S
         /\ \A x \in S : \E i \in 1 .. Cardinality(S) : Sorted(S, R)[i] = x
         /\ \A i, j \in 1 .. Cardinality(S) :
              i < j => <<Sorted(S, R)[i], Sorted(S, R)[j]>> \in R
  <1> DEFINE place(x) == Place(S, R, x)
             n == Cardinality(S)
             sorted == Sorted(S, R)
  <1>1. n \in Nat
    BY FS_CardinalityType
  <1>2. /\ \A x \in S : place(x) \in 0 .. n - 1
        /\ \A x, y \in S : <<x, y>> \in R => place(x) < place(y)
        /\ \A k \in 0 .. n - 1 : \E x \in S : place(x) = k
    BY CountedPlaces
  <1>3. DOMAIN sorted = 1 .. n
    BY DEF Sorted
  <1>4. ASSUME NEW i \in 1 .. n
        PROVE  sorted[i] \in S /\ place(sorted[i]) = i - 1
    <2>1. sorted[i] = CHOOSE x \in S : place(x) = i - 1
      BY DEF Sorted
    <2>2. i - 1 \in 0 .. n - 1
      BY <1>1
    <2> HIDE DEF sorted, place, n
    <2>3. \E x \in S : place(x) = i - 1
      BY <1>2, <2>2
    <2> QED BY <2>1, <2>3
  <1> HIDE DEF sorted, place, n
  <1>5. ASSUME NEW x \in S, NEW y \in S, place(x) = place(y)
        PROVE  x = y
    <2>1. place(x) \in Nat /\ place(y) \in Nat
      BY <1>1, <1>2
    <2>2. ~(place(x) < place(y)) /\ ~(place(y) < place(x))
      BY <1>5, <2>1
    <2>3. <<x, y>> \notin R /\ <<y, x>> \notin R
      BY <1>2, <2>2
    <2> QED BY <2>3
  <1>6. ASSUME NEW x \in S
        PROVE  \E i \in 1 .. n : sorted[i] = x
    <2> DEFINE i == place(x) + 1
    <2>1. i \in 1 .. n /\ i - 1 = place(x)
      BY <1>1, <1>2
    <2> HIDE DEF i
    <2>2. sorted[i] \in S /\ place(sorted[i]) = place(x)
      BY <1>4, <2>1
    <2>3. sorted[i] = x
      BY <1>5, <2>2
    <2> QED BY <2>1, <2>3
  <1>7. ASSUME NEW i \in 1 .. n, NEW j \in 1 .. n, i < j
        PROVE  <<sorted[i], sorted[j]>> \in R
    <2>1. /\ sorted[i] \in S /\ sorted[j] \in S
          /\ place(sorted[i]) < place(sorted[j]) /\ place(sorted[i]) \in Nat
      BY <1>1, <1>4, <1>7
    <2>2. sorted[i] # sorted[j] /\ ~(place(sorted[j]) < place(sorted[i]))
      BY <1>1, <1>2, <2>1
    <2>3. <<sorted[j], sorted[i]>> \notin R
      BY <1>2, <2>1, <2>2
    <2> QED BY <2>1, <2>2, <2>3
  <1> QED BY <1>1, <1>3, <1>4, <1>6, <1>7 DEF sorted, n

\* A set of numbers up to some number has a least one.
LEMMA LeastIndex ==
  ASSUME NEW n \in Nat, NEW I \in SUBSET (1 .. n), I # {}
  PROVE  Min(I) \in I /\ \A i \in I : Min(I) <= i
  <1> DEFINE R == {p \in I \X I : p[1] < p[2]}
  <1>1. IsFiniteSet(I) /\ \A i \in I : i \in Nat
    <2>1. IsFiniteSet(1 .. n)
      BY FS_Interval
    <2>2. IsFiniteSet(I)
      BY <2>1, FS_Subset
    <2>3. \A i \in I : i \in Nat
      OBVIOUS
    <2> QED BY <2>2, <2>3
  <1>2. Cardinality(I) \in Nat /\ Cardinality(I) # 0
    BY <1>1, FS_CardinalityType, FS_EmptySet
  <1>3. /\ \A x \in I : <<x, x>> \notin R
        /\ \A x, y, z \in I : <<x, y>> \in R /\ <<y, z>> \in R => <<x, z>> \in R
        /\ \A x, y \in I : x # y => <<x, y>> \in R \/ <<y, x>> \in R
    BY <1>1
  <1>4. PICK x \in I : Place(I, R, x) = 0
    <2> HIDE DEF R
    <2>1. 0 \in 0 .. Cardinality(I) - 1
      BY <1>2
    <2>2. \A k \in 0 .. Cardinality(I) - 1 : \E x \in I : Place(I, R, x) = k
      BY <1>1, <1>3, CountedPlaces
    <2> QED BY <2>1, <2>2
  <1>5. Under(I, R, x) = {}
    <2>1. IsFiniteSet(Under(I, R, x))
      BY <1>1, FS_Subset DEF Under
    <2> QED BY <1>4, <2>1, FS_EmptySet DEF Place
  <1>6. \A y \in I : <<y, x>> \notin R
    BY <1>5 DEF Under
  <1>7. \A y \in I : x <= y
    <2> SUFFICES ASSUME NEW y \in I PROVE x <= y
      OBVIOUS
    <2>1. ~(y < x)
      BY <1>6
    <2> QED BY <1>1, <2>1
  <1> QED BY <1>7 DEF Min

\* The place a number has among those of a set.
PlaceUpTo(set, i) == Cardinality({j \in set : j <= i})

\* A number after all the others takes the place after theirs.
LEMMA PlacesStay ==
  ASSUME NEW n \in Nat, NEW S \in SUBSET (1 .. n)
  PROVE  /\ IsFiniteSet(S) /\ Cardinality(S) \in Nat
         /\ \A i \in S : PlaceUpTo(S, i) \in 1 .. Cardinality(S)
         /\ \A i \in S : PlaceUpTo(S \cup {n + 1}, i) = PlaceUpTo(S, i)
         /\ PlaceUpTo(S \cup {n + 1}, n + 1) = Cardinality(S) + 1
         /\ Cardinality(S \cup {n + 1}) = Cardinality(S) + 1
  <1>1. IsFiniteSet(S) /\ Cardinality(S) \in Nat
    <2>1. IsFiniteSet(1 .. n)
      BY FS_Interval
    <2> QED BY <2>1, FS_Subset, FS_CardinalityType
  <1>2. \A i \in S : PlaceUpTo(S, i) \in 1 .. Cardinality(S)
    <2> TAKE i \in S
    <2> DEFINE P == {j \in S : j <= i}
    <2>1. P \subseteq S /\ i \in P
      OBVIOUS
    <2> HIDE DEF P
    <2>2. IsFiniteSet(P) /\ Cardinality(P) \in Nat /\ Cardinality(P) <= Cardinality(S)
      BY <1>1, <2>1, FS_Subset, FS_CardinalityType
    <2>3. Cardinality(P) # 0
      BY <2>1, <2>2, FS_EmptySet
    <2> QED BY <1>1, <2>2, <2>3 DEF PlaceUpTo, P
  <1>3. \A i \in S : {j \in S \cup {n + 1} : j <= i} = {j \in S : j <= i}
    OBVIOUS
  <1>4. {j \in S \cup {n + 1} : j <= n + 1} = S \cup {n + 1}
    <2>1. \A j \in S \cup {n + 1} : j <= n + 1
      OBVIOUS
    <2> QED BY <2>1
  <1>5. Cardinality(S \cup {n + 1}) = Cardinality(S) + 1
    BY <1>1, FS_AddElement
  <1> QED BY <1>1, <1>2, <1>3, <1>4, <1>5 DEF PlaceUpTo

-----------------------------------------------------------------------------
(* Induction over numbers and over finite sets, for a set of the good ones *)

\* What holds of 0, and of the next number wherever it holds, holds up to n.
LEMMA IntervalInduction ==
  ASSUME NEW n \in Nat, NEW P \in SUBSET (0 .. n), 0 \in P,
         \A i \in P : i < n => i + 1 \in P
  PROVE  P = 0 .. n
  <1> DEFINE I == {i \in 1 .. n : i \notin P}
  <1> SUFFICES ASSUME I # {} PROVE FALSE
    <2>1. \A i \in 0 .. n : i = 0 \/ i \in 1 .. n
      OBVIOUS
    <2> QED BY <2>1
  <1>1. I \in SUBSET (1 .. n)
    OBVIOUS
  <1>2. Min(I) \in I /\ \A i \in I : Min(I) <= i
    <2> HIDE DEF I
    <2> QED BY <1>1, LeastIndex
  <1>3. PICK m \in 1 .. n : m \notin P /\ \A i \in I : m <= i
    BY <1>2
  <1>4. m - 1 \in 0 .. n /\ m - 1 < n /\ m - 1 + 1 = m /\ ~(m <= m - 1)
    OBVIOUS
  <1>5. m - 1 \in P
    BY <1>3, <1>4
  <1> QED BY <1>3, <1>4, <1>5

\* What holds of a set wherever it holds of all its proper subsets holds of all of them.
LEMMA SubsetsInduction ==
  ASSUME NEW S, IsFiniteSet(S), NEW P \in SUBSET (SUBSET S),
         \A T \in SUBSET S : (\A U \in SUBSET T : U # T => U \in P) => T \in P
  PROVE  P = SUBSET S
  <1> DEFINE n == Cardinality(S)
             small == {k \in 0 .. n : \A T \in SUBSET S : Cardinality(T) <= k => T \in P}
  <1>1. n \in Nat /\ \A T \in SUBSET S : /\ IsFiniteSet(T) /\ Cardinality(T) \in Nat
                                         /\ Cardinality(T) <= n
    BY FS_Subset, FS_CardinalityType
  <1>2. ASSUME NEW T \in SUBSET S, NEW U \in SUBSET T, U # T
        PROVE  Cardinality(U) < Cardinality(T)
    <2>1. /\ IsFiniteSet(T) /\ Cardinality(U) <= Cardinality(T)
          /\ Cardinality(U) # Cardinality(T)
      BY <1>1, <1>2, FS_Subset
    <2>2. Cardinality(U) \in Nat /\ Cardinality(T) \in Nat
      BY <1>1
    <2> QED BY <2>1, <2>2
  <1>3. 0 \in small
    <2> SUFFICES ASSUME NEW T \in SUBSET S, Cardinality(T) <= 0 PROVE T \in P
      BY <1>1
    <2>1. Cardinality(T) = 0
      BY <1>1
    <2>2. \A U \in SUBSET T : U = T
      BY <1>1, <1>2, <2>1
    <2> QED BY <2>2
  <1>4. ASSUME NEW k \in small, k < n PROVE k + 1 \in small
    <2> SUFFICES ASSUME NEW T \in SUBSET S, Cardinality(T) <= k + 1 PROVE T \in P
      BY <1>1, <1>4
    <2>1. ASSUME NEW U \in SUBSET T, U # T PROVE U \in P
      <3>1. Cardinality(U) < Cardinality(T)
        BY <1>2, <2>1
      <3>2. Cardinality(U) \in Nat /\ Cardinality(T) \in Nat /\ k \in Nat
        BY <1>1
      <3>3. Cardinality(U) <= k
        BY <3>1, <3>2
      <3> QED BY <3>3
    <2> QED BY <2>1
  <1>5. small = 0 .. n
    <2>1. small \in SUBSET (0 .. n)
      OBVIOUS
    <2> HIDE DEF small, n
    <2> QED BY <1>1, <1>3, <1>4, <2>1, IntervalInduction
  <1>6. n \in small
    BY <1>1, <1>5
  <1> QED BY <1>1, <1>6

-----------------------------------------------------------------------------
(* Sums over finite sets                                                   *)

AnyOf(s) == CHOOSE x \in s : TRUE

\* The function a sum over a set is read off: each subset by the sum of a smaller one.
Adding(g, W, D) ==
  [s \in D |-> IF s = {} THEN 0 ELSE W[AnyOf(s)] + g[s \ {AnyOf(s)}]]

Adds(g, W, S) == g = Adding(g, W, SUBSET S)

LEMMA AddingExists ==
  ASSUME NEW S, IsFiniteSet(S), NEW W
  PROVE  \E g : Adds(g, W, S)
  <1> DEFINE n == Cardinality(S)
             upto(k) == {s \in SUBSET S : Cardinality(s) <= k}
             P == {k \in 0 .. n : \E g : g = Adding(g, W, upto(k))}
  <1>1. n \in Nat /\ \A T \in SUBSET S : /\ IsFiniteSet(T) /\ Cardinality(T) \in Nat
                                         /\ Cardinality(T) <= n
                                         /\ Cardinality(T) = 0 => T = {}
    BY FS_Subset, FS_CardinalityType, FS_EmptySet
  <1>2. ASSUME NEW s \in SUBSET S, s # {}
        PROVE  /\ AnyOf(s) \in s /\ s \ {AnyOf(s)} \in SUBSET S
               /\ Cardinality(s \ {AnyOf(s)}) = Cardinality(s) - 1
    <2>1. AnyOf(s) \in s
      BY <1>2 DEF AnyOf
    <2> QED BY <1>1, <2>1, FS_RemoveElement
  <1>3. 0 \in P
    <2> DEFINE g == [s \in upto(0) |-> 0]
    <2>1. \A s \in upto(0) : s = {}
      BY <1>1
    <2>2. g = Adding(g, W, upto(0))
      BY <2>1 DEF Adds, Adding
    <2>3. 0 \in 0 .. n
      BY <1>1
    <2> HIDE DEF g, upto, n
    <2> QED BY <2>2, <2>3
  <1>4. ASSUME NEW k \in P, k < n PROVE k + 1 \in P
    <2>1. k \in Nat
      BY <1>1
    <2>2. PICK g : g = Adding(g, W, upto(k))
      OBVIOUS
    <2> DEFINE h == Adding(g, W, upto(k + 1))
    <2>3. \A s \in upto(k + 1) : s # {} => s \ {AnyOf(s)} \in upto(k)
      <3> SUFFICES ASSUME NEW s \in upto(k + 1), s # {} PROVE s \ {AnyOf(s)} \in upto(k)
        OBVIOUS
      <3>1. /\ Cardinality(s \ {AnyOf(s)}) = Cardinality(s) - 1
            /\ s \ {AnyOf(s)} \in SUBSET S
            /\ Cardinality(s) \in Nat /\ Cardinality(s) <= k + 1
        BY <1>1, <1>2
      <3>2. Cardinality(s) - 1 <= k
        BY <2>1, <3>1
      <3> QED BY <3>1, <3>2
    <2>4. \A s \in upto(k) : s \in upto(k + 1)
      BY <1>1, <2>1
    <2> HIDE DEF upto
    <2>5. \A s \in upto(k) : h[s] = g[s]
      BY <2>2, <2>4 DEF Adds, Adding
    <2>6. h = Adding(h, W, upto(k + 1))
      BY <2>3, <2>5 DEF Adds, Adding
    <2>7. k + 1 \in 0 .. n
      BY <1>1, <1>4, <2>1
    <2> QED BY <2>6, <2>7
  <1>5. n \in P
    <2>1. P \in SUBSET (0 .. n)
      OBVIOUS
    <2> HIDE DEF P, n
    <2>2. P = 0 .. n
      BY <1>1, <1>3, <1>4, <2>1, IntervalInduction
    <2> QED BY <1>1, <2>2
  <1>6. upto(n) = SUBSET S
    BY <1>1
  <1> HIDE DEF upto
  <1> QED BY <1>5, <1>6 DEF Adds

\* It does not matter which element is taken first.
LEMMA AddingTakesAny ==
  ASSUME NEW S, IsFiniteSet(S), NEW W, \A x \in S : W[x] \in Nat,
         NEW g, Adds(g, W, S)
  PROVE  /\ g[{}] = 0
         /\ \A T \in SUBSET S : g[T] \in Nat /\ \A x \in T : g[T] = W[x] + g[T \ {x}]
  <1> DEFINE P == {T \in SUBSET S : g[T] \in Nat /\ \A x \in T : g[T] = W[x] + g[T \ {x}]}
  <1>1. g[{}] = 0
    BY DEF Adds, Adding
  <1>2. ASSUME NEW T \in SUBSET S, \A U \in SUBSET T : U # T => U \in P PROVE T \in P
    <2>1. CASE T = {}
      BY <1>1, <2>1
    <2>2. CASE T # {}
      <3> DEFINE c == AnyOf(T)
      <3>1. c \in T
        BY <2>2 DEF AnyOf
      <3>2. g[T] = W[c] + g[T \ {c}]
        BY <2>2 DEF Adds, Adding
      <3> HIDE DEF c
      <3>3. g[T \ {c}] \in Nat /\ W[c] \in Nat
        BY <1>2, <3>1
      <3>4. ASSUME NEW x \in T, x # c PROVE g[T] = W[x] + g[T \ {x}]
        <4>1. T \ {c} \in P /\ x \in T \ {c} /\ T \ {x} \in P /\ c \in T \ {x}
          BY <1>2, <3>1, <3>4
        <4>2. /\ g[T \ {c}] = W[x] + g[(T \ {c}) \ {x}]
              /\ g[T \ {x}] = W[c] + g[(T \ {x}) \ {c}]
          BY <4>1
        <4>3. (T \ {c}) \ {x} = (T \ {x}) \ {c} /\ (T \ {c}) \ {x} \in P
          BY <1>2, <3>1
        <4> DEFINE rest == g[(T \ {c}) \ {x}]
        <4>4. rest \in Nat /\ W[x] \in Nat
          BY <4>3
        <4>5. g[T] = W[c] + (W[x] + rest) /\ g[T \ {x}] = W[c] + rest
          BY <3>2, <4>2, <4>3
        <4> HIDE DEF rest
        <4> QED BY <3>3, <4>4, <4>5
      <3>5. g[T] \in Nat
        BY <3>2, <3>3
      <3>6. \A x \in T : g[T] = W[x] + g[T \ {x}]
        BY <3>2, <3>4
      <3> QED BY <3>5, <3>6
    <2> QED BY <2>1, <2>2
  <1>3. P = SUBSET S
    <2>1. P \in SUBSET (SUBSET S)
      OBVIOUS
    <2> HIDE DEF P
    <2> QED BY <1>2, <2>1, SubsetsInduction
  <1> QED BY <1>1, <1>3

\* Two such functions say the same of every set they both know.
LEMMA AddingIsUnique ==
  ASSUME NEW S, NEW T \in SUBSET S, IsFiniteSet(T), NEW V, NEW W,
         \A x \in T : V[x] = W[x],
         NEW g, Adds(g, W, S), NEW h, Adds(h, V, T)
  PROVE  g[T] = h[T]
  <1> DEFINE P == {U \in SUBSET T : g[U] = h[U]}
  <1>1. ASSUME NEW U \in SUBSET T, \A R \in SUBSET U : R # U => R \in P PROVE U \in P
    <2>1. CASE U = {}
      BY <2>1 DEF Adds, Adding
    <2>2. CASE U # {}
      <3> DEFINE c == AnyOf(U)
      <3>1. c \in U
        BY <2>2 DEF AnyOf
      <3>2. g[U] = W[c] + g[U \ {c}] /\ h[U] = V[c] + h[U \ {c}]
        BY <2>2 DEF Adds, Adding
      <3> HIDE DEF c
      <3>3. g[U \ {c}] = h[U \ {c}] /\ V[c] = W[c]
        BY <1>1, <3>1
      <3> QED BY <3>2, <3>3
    <2> QED BY <2>1, <2>2
  <1>2. P = SUBSET T
    <2>1. P \in SUBSET (SUBSET T)
      OBVIOUS
    <2> HIDE DEF P
    <2> QED BY <1>1, <2>1, SubsetsInduction
  <1> QED BY <1>2

SumOver(W, S) == MapThenSumSet(LAMBDA x : W[x], S)

LEMMA SumIsAdding ==
  ASSUME NEW S, IsFiniteSet(S), NEW W
  PROVE  \E g : Adds(g, W, S) /\ SumOver(W, S) = g[S]
  <1>1. PICK g : Adds(g, W, S)
    BY AddingExists
  <1> QED BY <1>1 DEF SumOver, MapThenSumSet, MapThenFoldSet, Adds, Adding, AnyOf

\* A sum of natural numbers is one, is zero over nothing, and is any one of them and the
\* sum of the rest.
LEMMA SumTakesOne ==
  ASSUME NEW S, IsFiniteSet(S), NEW W, \A x \in S : W[x] \in Nat
  PROVE  /\ SumOver(W, S) \in Nat
         /\ S = {} => SumOver(W, S) = 0
         /\ \A x \in S : SumOver(W, S) = W[x] + SumOver(W, S \ {x})
  <1>1. PICK g : Adds(g, W, S) /\ SumOver(W, S) = g[S]
    BY SumIsAdding
  <1>2. g[{}] = 0 /\ g[S] \in Nat /\ \A x \in S : g[S] = W[x] + g[S \ {x}]
    <2>1. /\ g[{}] = 0
          /\ \A T \in SUBSET S : g[T] \in Nat /\ \A x \in T : g[T] = W[x] + g[T \ {x}]
      BY <1>1, AddingTakesAny
    <2>2. S \in SUBSET S
      OBVIOUS
    <2> QED BY <2>1, <2>2
  <1>3. ASSUME NEW x \in S PROVE SumOver(W, S \ {x}) = g[S \ {x}]
    <2>1. IsFiniteSet(S \ {x})
      BY FS_RemoveElement
    <2>2. PICK h : Adds(h, W, (S \ {x})) /\ SumOver(W, S \ {x}) = h[S \ {x}]
      BY <2>1, SumIsAdding
    <2>3. S \ {x} \in SUBSET S /\ \A y \in S \ {x} : W[y] = W[y]
      OBVIOUS
    <2>4. g[S \ {x}] = h[S \ {x}]
      <3> DEFINE T == S \ {x}
      <3>1. T \in SUBSET S /\ IsFiniteSet(T) /\ Adds(h, W, T)
        BY <2>1, <2>2
      <3>2. Adds(g, W, S)
        BY <1>1
      <3> HIDE DEF T
      <3>3. g[T] = h[T]
        BY <3>1, <3>2, AddingIsUnique
      <3> QED BY <3>3 DEF T
    <2> QED BY <2>2, <2>4
  <1> QED BY <1>1, <1>2, <1>3

\* A sum looks at nothing but the numbers of its own elements.
LEMMA SumAgrees ==
  ASSUME NEW S, IsFiniteSet(S), NEW V, NEW W, \A x \in S : V[x] = W[x]
  PROVE  SumOver(V, S) = SumOver(W, S)
  <1>1. PICK g : Adds(g, W, S) /\ SumOver(W, S) = g[S]
    BY SumIsAdding
  <1>2. PICK h : Adds(h, V, S) /\ SumOver(V, S) = h[S]
    BY SumIsAdding
  <1>3. S \in SUBSET S
    OBVIOUS
  <1>4. g[S] = h[S]
    BY <1>1, <1>2, <1>3, AddingIsUnique
  <1> QED BY <1>1, <1>2, <1>4

\* A sum over fewer is no larger.
LEMMA SumOfFewer ==
  ASSUME NEW S, IsFiniteSet(S), NEW W, \A x \in S : W[x] \in Nat, NEW T \in SUBSET S
  PROVE  SumOver(W, T) \in Nat /\ SumOver(W, T) <= SumOver(W, S)
  <1> DEFINE P == {R \in SUBSET S : SumOver(W, R \cap T) <= SumOver(W, R)}
  <1>0. ASSUME NEW R \in SUBSET S
        PROVE  /\ SumOver(W, R) \in Nat
               /\ \A x \in R : SumOver(W, R) = W[x] + SumOver(W, R \ {x})
    <2>1. IsFiniteSet(R)
      BY FS_Subset
    <2> QED BY <2>1, SumTakesOne
  <1>1. ASSUME NEW R \in SUBSET S, \A U \in SUBSET R : U # R => U \in P PROVE R \in P
    <2>1. CASE R = {}
      <3>1. R \cap T = R /\ SumOver(W, R) \in Nat
        BY <1>0, <2>1
      <3>2. SumOver(W, R) <= SumOver(W, R)
        BY <3>1
      <3> QED BY <3>1, <3>2
    <2>2. CASE R # {}
      <3>1. PICK x \in R : TRUE
        BY <2>2
      <3> DEFINE A == SumOver(W, R)
                 B == SumOver(W, R \ {x})
                 C == SumOver(W, R \cap T)
                 D == SumOver(W, (R \ {x}) \cap T)
      <3>2. A \in Nat /\ B \in Nat /\ C \in Nat /\ D \in Nat /\ W[x] \in Nat
        BY <1>0
      <3>3. A = W[x] + B /\ D <= B
        BY <1>0, <1>1
      <3>4. C = D \/ C = W[x] + D
        <4>1. CASE x \in T
          <5>1. (R \cap T) \ {x} = (R \ {x}) \cap T /\ x \in R \cap T
            BY <4>1
          <5> QED BY <1>0, <5>1
        <4>2. CASE x \notin T
          <5>1. R \cap T = (R \ {x}) \cap T
            BY <4>2
          <5> QED BY <5>1
        <4> QED BY <4>1, <4>2
      <3> HIDE DEF A, B, C, D
      <3>5. C <= A
        BY <3>2, <3>3, <3>4
      <3> QED BY <3>5 DEF A, C
    <2> QED BY <2>1, <2>2
  <1>2. P = SUBSET S
    <2>1. P \in SUBSET (SUBSET S)
      OBVIOUS
    <2> HIDE DEF P
    <2> QED BY <1>1, <2>1, SubsetsInduction
  <1>3. S \cap T = T /\ S \in P
    BY <1>2
  <1> QED BY <1>0, <1>3

\* A set that takes at most x to another, where the others count the same, sums to at
\* most x more.
LEMMA SumWithOneMore ==
  ASSUME NEW S, IsFiniteSet(S), NEW W, \A z \in S : W[z] \in Nat,
         NEW T, NEW V, NEW x \in T, V[x] \in Nat, T \ {x} \subseteq S,
         \A z \in T \ {x} : V[z] = W[z]
  PROVE  /\ IsFiniteSet(T) /\ SumOver(W, S) \in Nat /\ SumOver(V, T) \in Nat
         /\ SumOver(V, T) <= SumOver(W, S) + V[x]
  <1>1. IsFiniteSet(T \ {x})
    BY FS_Subset
  <1>2. IsFiniteSet(T)
    <2>1. T = (T \ {x}) \cup {x}
      OBVIOUS
    <2>2. IsFiniteSet((T \ {x}) \cup {x})
      BY <1>1, FS_AddElement
    <2> QED BY <2>1, <2>2
  <1>3. SumOver(V, T \ {x}) = SumOver(W, T \ {x})
    BY <1>1, SumAgrees
  <1>4. /\ SumOver(W, T \ {x}) \in Nat /\ SumOver(W, T \ {x}) <= SumOver(W, S)
        /\ SumOver(W, S) \in Nat
    BY SumOfFewer, SumTakesOne
  <1>5. SumOver(V, T) = V[x] + SumOver(V, T \ {x})
    <2>1. \A z \in T : V[z] \in Nat
      OBVIOUS
    <2> QED BY <1>2, <2>1, SumTakesOne
  <1> QED BY <1>2, <1>3, <1>4, <1>5
=============================================================================
