---------------------------- MODULE SumTheorems -----------------------------
(***************************************************************************)
(* Sums over finite sets: what SumFunctionOnSet computes, how it changes   *)
(* with the set and with the function; and remainders.                     *)
(*                                                                         *)
(* The induction theorems of the library have an operator as a parameter;  *)
(* here induction is stated of sets, and comes from the fact that every    *)
(* set of natural numbers that is not empty has a least element.           *)
(***************************************************************************)
EXTENDS Functions, FiniteSetTheorems, TLAPS

-----------------------------------------------------------------------------
(* Induction                                                               *)

\* A set of natural numbers has a least element.
LEMMA Least ==
  ASSUME NEW S, S \subseteq Nat, S # {}
  PROVE  \E n \in S : \A m \in S : n <= m
<1>1. \E n \in S : \A m \in S : ~ (<<m, n>> \in OpToRel(<, Nat))
  BY NatLessThanWellFounded, WFMin, Zenon
<1>2. PICK n \in S : \A m \in S : ~ (m < n)
  BY <1>1 DEF OpToRel
<1> QED
  BY <1>2

\* Induction on a natural number.
LEMMA NatSetInduction ==
  ASSUME NEW Q, 0 \in Q, \A n \in Nat : n \in Q => n + 1 \in Q
  PROVE  \A n \in Nat : n \in Q
<1> SUFFICES ASSUME Nat \ Q # {} PROVE FALSE
  OBVIOUS
<1>1. PICK n \in Nat \ Q : \A m \in Nat \ Q : n <= m
  BY Least
<1>2. n # 0 /\ n - 1 \in Nat /\ n - 1 \in Q
  BY <1>1
<1> QED
  BY <1>1, <1>2

\* Induction on a finite set.
LEMMA FiniteInduction ==
  ASSUME NEW S, IsFiniteSet(S), NEW Q,
         ASSUME NEW T \in SUBSET S, \A x \in T : T \ {x} \in Q PROVE T \in Q
  PROVE  S \in Q
<1> DEFINE bad == {T \in SUBSET S : T \notin Q}
           sizes == {n \in Nat : \E T \in bad : Cardinality(T) = n}
<1>1. \A T \in SUBSET S : IsFiniteSet(T) /\ Cardinality(T) \in Nat
  BY FS_Subset, FS_CardinalityType
<1> SUFFICES ASSUME S \notin Q PROVE FALSE
  OBVIOUS
<1>2. sizes # {}
  BY <1>1
<1> HIDE DEF sizes
<1>3. PICK n \in sizes : \A m \in sizes : n <= m
  <2>1. sizes \subseteq Nat
    BY DEF sizes
  <2> QED
    BY <1>2, <2>1, Least
<1>4. PICK T \in bad : Cardinality(T) = n
  BY <1>3 DEF sizes
<1>5. ASSUME NEW x \in T PROVE T \ {x} \in Q
  <2>1. T \ {x} \in SUBSET S /\ Cardinality(T \ {x}) = n - 1 /\ n \in Nat
    BY <1>1, <1>4, FS_RemoveElement
  <2>2. n - 1 \notin sizes
    BY <1>3, <2>1
  <2> QED
    BY <1>1, <2>1, <2>2 DEF sizes
<1> QED
  BY <1>4, <1>5

-----------------------------------------------------------------------------
(* What the sum of the library is                                          *)

Pick(s) == CHOOSE x \in s : TRUE

\* The function that the library sums with.
Sums(f, D, g) == g = [s \in D |-> IF s = {} THEN 0 ELSE f[Pick(s)] + g[s \ {Pick(s)}]]

\* There is one: built for larger and larger sets.
LEMMA SumsExist ==
  ASSUME NEW f, NEW S, IsFiniteSet(S)
  PROVE  \E g : Sums(f, SUBSET S, g)
<1> DEFINE Level(n) == {s \in SUBSET S : Cardinality(s) <= n}
           Q == {n \in Nat : \E g : Sums(f, Level(n), g)}
<1>0. \A T \in SUBSET S : /\ IsFiniteSet(T) /\ Cardinality(T) \in Nat
                          /\ Cardinality(T) <= Cardinality(S)
                          /\ Cardinality(T) = 0 <=> T = {}
  BY FS_Subset, FS_CardinalityType, FS_EmptySet
<1>1. 0 \in Q
  <2>1. Sums(f, Level(0), [s \in Level(0) |-> 0])
    <3>1. \A s \in Level(0) : s = {}
      BY <1>0
    <3> QED
      BY <3>1 DEF Sums
  <2> QED
    BY <2>1
<1>2. ASSUME NEW n \in Nat, n \in Q PROVE n + 1 \in Q
  <2>1. PICK g : Sums(f, Level(n), g)
    BY <1>2
  <2> DEFINE h == [s \in Level(n + 1) |->
                    IF s = {} THEN 0 ELSE f[Pick(s)] + g[s \ {Pick(s)}]]
  <2>2. ASSUME NEW s \in Level(n + 1), s # {}
        PROVE  s \ {Pick(s)} \in Level(n) /\ s \ {Pick(s)} \in Level(n + 1)
    <3>1. Pick(s) \in s
      BY <2>2 DEF Pick
    <3>2. Cardinality(s \ {Pick(s)}) = Cardinality(s) - 1
      BY <1>0, <3>1, FS_RemoveElement
    <3> QED
      BY <1>0, <3>2
  <2>3. ASSUME NEW s \in Level(n) PROVE s \in Level(n + 1) /\ h[s] = g[s]
    <3>1. s \in Level(n + 1)
      BY <1>0
    <3>2. g[s] = IF s = {} THEN 0 ELSE f[Pick(s)] + g[s \ {Pick(s)}]
      <4> HIDE DEF Level
      <4> QED
        BY <2>1 DEF Sums
    <3> QED
      BY <3>1, <3>2
  <2>4. Sums(f, Level(n + 1), h)
    <3>1. \A s \in Level(n + 1) :
            h[s] = IF s = {} THEN 0 ELSE f[Pick(s)] + h[s \ {Pick(s)}]
      BY <2>2, <2>3
    <3> HIDE DEF Level
    <3> QED
      BY <3>1 DEF Sums
  <2>5. \E k : Sums(f, Level(n + 1), k)
    <3> HIDE DEF h, Level
    <3> QED
      BY <2>4
  <2> QED
    BY <2>5
<1>3. Cardinality(S) \in Q
  <2> HIDE DEF Q
  <2> QED
    BY <1>0, <1>1, <1>2, NatSetInduction
<1>4. Level(Cardinality(S)) = SUBSET S
  BY <1>0
<1> QED
  BY <1>3, <1>4

\* Two of them agree.
LEMMA SumsAgree ==
  ASSUME NEW f, NEW T, NEW S \in SUBSET T, IsFiniteSet(S),
         NEW g, Sums(f, SUBSET S, g), NEW h, Sums(f, SUBSET T, h)
  PROVE  g[S] = h[S]
<1> DEFINE Q == {s \in SUBSET S : g[s] = h[s]}
<1>1. ASSUME NEW s \in SUBSET S, \A x \in s : s \ {x} \in Q PROVE s \in Q
  <2>1. /\ g[s] = IF s = {} THEN 0 ELSE f[Pick(s)] + g[s \ {Pick(s)}]
        /\ h[s] = IF s = {} THEN 0 ELSE f[Pick(s)] + h[s \ {Pick(s)}]
    BY DEF Sums
  <2>2. s # {} => Pick(s) \in s
    BY DEF Pick
  <2> QED
    BY <1>1, <2>1, <2>2
<1>2. S \in Q
  <2> HIDE DEF Q
  <2> QED
    BY <1>1, FiniteInduction
<1> QED
  BY <1>2

\* The library's sum is the last value of such a function.
LEMMA SumIs ==
  ASSUME NEW f, NEW T, NEW S \in SUBSET T, IsFiniteSet(S),
         NEW h, Sums(f, SUBSET T, h)
  PROVE  SumFunctionOnSet(f, S) = h[S]
<1>1. SumFunctionOnSet(f, S) = (CHOOSE g : Sums(f, SUBSET S, g))[S]
  BY DEF SumFunctionOnSet, FoldFunctionOnSet, MapThenFoldSet, Sums, Pick
<1>2. Sums(f, SUBSET S, CHOOSE g : Sums(f, SUBSET S, g))
  BY SumsExist
<1>3. PICK g : Sums(f, SUBSET S, g) /\ SumFunctionOnSet(f, S) = g[S]
  BY <1>1, <1>2
<1>4. g[S] = h[S]
  BY <1>3, SumsAgree
<1> QED
  BY <1>3, <1>4

-----------------------------------------------------------------------------
(* Theorems                                                                *)

\* The sum over the empty set.
THEOREM SumEmpty == ASSUME NEW f PROVE SumFunctionOnSet(f, {}) = 0
<1>1. PICK h : Sums(f, SUBSET {}, h)
  BY SumsExist, FS_EmptySet
<1>2. h[{}] = 0
  BY <1>1 DEF Sums
<1>3. {} \in SUBSET {} /\ IsFiniteSet({})
  BY FS_EmptySet
<1>4. SumFunctionOnSet(f, {}) = h[{}]
  BY <1>1, <1>3, SumIs, Zenon
<1> QED
  BY <1>2, <1>4

\* One element less, the one the library takes first.
LEMMA SumPick ==
  ASSUME NEW f, NEW S, IsFiniteSet(S), S # {}
  PROVE  /\ Pick(S) \in S
         /\ SumFunctionOnSet(f, S) = f[Pick(S)] + SumFunctionOnSet(f, S \ {Pick(S)})
<1>1. PICK h : Sums(f, SUBSET S, h)
  BY SumsExist
<1>2. h[S] = f[Pick(S)] + h[S \ {Pick(S)}]
  BY <1>1 DEF Sums
<1>3. IsFiniteSet(S \ {Pick(S)})
  BY FS_RemoveElement
<1>4. SumFunctionOnSet(f, S) = h[S] /\ SumFunctionOnSet(f, S \ {Pick(S)}) = h[S \ {Pick(S)}]
  BY <1>1, <1>3, SumIs
<1> QED
  BY <1>2, <1>4 DEF Pick

\* Any element may be taken first.
THEOREM SumRemove ==
  ASSUME NEW f, NEW S, IsFiniteSet(S), \A x \in S : f[x] \in Int, NEW x \in S
  PROVE  /\ SumFunctionOnSet(f, S) \in Int
         /\ SumFunctionOnSet(f, S) = f[x] + SumFunctionOnSet(f, S \ {x})
<1> DEFINE Sum(T) == SumFunctionOnSet(f, T)
           Good(T) == /\ Sum(T) \in Int
                      /\ \A y \in T : Sum(T \ {y}) \in Int /\ Sum(T) = f[y] + Sum(T \ {y})
           Q == {T \in SUBSET S : Good(T)}
<1>1. ASSUME NEW T \in SUBSET S, \A y \in T : T \ {y} \in Q PROVE T \in Q
  <2>1. CASE T = {}
    BY <2>1, SumEmpty
  <2>2. CASE T # {}
    <3>0. IsFiniteSet(T)
      BY FS_Subset
    <3> PICK p \in T : Sum(T) = f[p] + Sum(T \ {p})
      BY <2>2, <3>0, SumPick
    <3> HIDE DEF Sum
    <3>1. Sum(T \ {p}) \in Int /\ f[p] \in Int
      BY <1>1
    <3>2. ASSUME NEW y \in T, y # p PROVE Sum(T) = f[y] + Sum(T \ {y})
      <4>1. y \in T \ {p} /\ p \in T \ {y} /\ (T \ {p}) \ {y} = (T \ {y}) \ {p}
        BY <3>2
      <4>2. Sum(T \ {p}) = f[y] + Sum((T \ {p}) \ {y})
        BY <1>1, <4>1
      <4>3. Sum(T \ {y}) = f[p] + Sum((T \ {p}) \ {y}) /\ Sum(T \ {y}) \in Int
        BY <1>1, <4>1
      <4>4. f[y] \in Int /\ f[p] \in Int /\ Sum((T \ {p}) \ {y}) \in Int
        BY <1>1, <4>1
      <4> QED
        BY <4>2, <4>3, <4>4
    <3>3. \A y \in T : Sum(T \ {y}) \in Int
      BY <1>1
    <3> QED
      BY <3>1, <3>2, <3>3
  <2> QED
    BY <2>1, <2>2
<1>2. S \in Q
  <2> HIDE DEF Q
  <2> QED
    BY <1>1, FiniteInduction
<1> QED
  BY <1>2

\* A new element.
THEOREM SumAdd ==
  ASSUME NEW f, NEW S, IsFiniteSet(S), NEW x, x \notin S, \A y \in S \cup {x} : f[y] \in Int
  PROVE  /\ SumFunctionOnSet(f, S) \in Int
         /\ SumFunctionOnSet(f, S \cup {x}) = SumFunctionOnSet(f, S) + f[x]
<1>1. IsFiniteSet(S \cup {x}) /\ (S \cup {x}) \ {x} = S
  BY FS_AddElement
<1>2. SumFunctionOnSet(f, S \cup {x}) = f[x] + SumFunctionOnSet(f, S)
  BY <1>1, SumRemove
<1>3. SumFunctionOnSet(f, S) \in Int
  <2>1. CASE S = {}
    BY <2>1, SumEmpty
  <2>2. CASE S # {}
    BY <2>2, SumRemove
  <2> QED
    BY <2>1, <2>2
<1> QED
  BY <1>2, <1>3

\* Sums of integers are integers.
THEOREM SumType ==
  ASSUME NEW f, NEW S, IsFiniteSet(S), \A x \in S : f[x] \in Int
  PROVE  SumFunctionOnSet(f, S) \in Int
<1>1. CASE S = {}
  BY <1>1, SumEmpty
<1>2. CASE S # {}
  BY <1>2, SumRemove
<1> QED
  BY <1>1, <1>2

\* A function that is nowhere larger has no larger sum; functions that agree have the same.
THEOREM SumMonotonic ==
  ASSUME NEW f, NEW g, NEW S, IsFiniteSet(S),
         \A x \in S : f[x] \in Int /\ g[x] \in Int /\ f[x] <= g[x]
  PROVE  SumFunctionOnSet(f, S) <= SumFunctionOnSet(g, S)
<1> DEFINE F(T) == SumFunctionOnSet(f, T)
           G(T) == SumFunctionOnSet(g, T)
           Q == {T \in SUBSET S : F(T) <= G(T)}
<1>1. ASSUME NEW T \in SUBSET S, \A y \in T : T \ {y} \in Q PROVE T \in Q
  <2>0. IsFiniteSet(T)
    BY FS_Subset
  <2>1. CASE T = {}
    BY <2>1, SumEmpty
  <2>2. CASE T # {}
    <3> PICK p \in T : TRUE
      BY <2>2
    <3>1. /\ F(T) = f[p] + F(T \ {p}) /\ G(T) = g[p] + G(T \ {p})
          /\ F(T \ {p}) \in Int /\ G(T \ {p}) \in Int
      <4>1. IsFiniteSet(T \ {p})
        BY <2>0, FS_RemoveElement
      <4> QED
        BY <2>0, <4>1, SumRemove, SumType
    <3> QED
      BY <1>1, <3>1
  <2> QED
    BY <2>1, <2>2
<1>2. S \in Q
  <2> HIDE DEF Q
  <2> QED
    BY <1>1, FiniteInduction
<1> QED
  BY <1>2

THEOREM SumEqual ==
  ASSUME NEW f, NEW g, NEW S, IsFiniteSet(S),
         \A x \in S : f[x] \in Int /\ g[x] = f[x]
  PROVE  SumFunctionOnSet(f, S) = SumFunctionOnSet(g, S)
<1>1. SumFunctionOnSet(f, S) <= SumFunctionOnSet(g, S)
  BY SumMonotonic
<1>2. SumFunctionOnSet(g, S) <= SumFunctionOnSet(f, S)
  BY SumMonotonic
<1> QED
  BY <1>1, <1>2, SumType

\* One value changes.
THEOREM SumChange ==
  ASSUME NEW f, NEW g, NEW S, IsFiniteSet(S), NEW x \in S,
         \A y \in S : f[y] \in Int /\ g[y] \in Int /\ (y # x => g[y] = f[y])
  PROVE  SumFunctionOnSet(g, S) = SumFunctionOnSet(f, S) - f[x] + g[x]
<1>1. IsFiniteSet(S \ {x})
  BY FS_RemoveElement
<1>2. SumFunctionOnSet(f, S \ {x}) = SumFunctionOnSet(g, S \ {x})
  BY <1>1, SumEqual
<1>3. /\ SumFunctionOnSet(f, S) = f[x] + SumFunctionOnSet(f, S \ {x})
      /\ SumFunctionOnSet(g, S) = g[x] + SumFunctionOnSet(g, S \ {x})
      /\ SumFunctionOnSet(f, S \ {x}) \in Int
  BY <1>1, SumRemove, SumType
<1> QED
  BY <1>2, <1>3

\* Values that are all zero.
THEOREM SumZero ==
  ASSUME NEW f, NEW S, IsFiniteSet(S), \A x \in S : f[x] = 0
  PROVE  SumFunctionOnSet(f, S) = 0
<1> DEFINE Q == {T \in SUBSET S : SumFunctionOnSet(f, T) = 0}
<1>1. ASSUME NEW T \in SUBSET S, \A y \in T : T \ {y} \in Q PROVE T \in Q
  <2>1. CASE T = {}
    BY <2>1, SumEmpty
  <2>2. CASE T # {}
    <3> PICK p \in T : TRUE
      BY <2>2
    <3>1. SumFunctionOnSet(f, T) = f[p] + SumFunctionOnSet(f, T \ {p})
      BY FS_Subset, SumRemove
    <3> QED
      BY <1>1, <3>1
  <2> QED
    BY <2>1, <2>2
<1>2. S \in Q
  <2> HIDE DEF Q
  <2> QED
    BY <1>1, FiniteInduction
<1> QED
  BY <1>2

\* So many times the bound of each.
THEOREM SumBound ==
  ASSUME NEW f, NEW S, IsFiniteSet(S), NEW k \in Nat, \A x \in S : f[x] \in Int /\ f[x] <= k
  PROVE  SumFunctionOnSet(f, S) <= k * Cardinality(S)
<1> DEFINE Q == {T \in SUBSET S : SumFunctionOnSet(f, T) <= k * Cardinality(T)}
<1>1. ASSUME NEW T \in SUBSET S, \A y \in T : T \ {y} \in Q PROVE T \in Q
  <2>0. IsFiniteSet(T) /\ Cardinality(T) \in Nat
    BY FS_Subset, FS_CardinalityType
  <2>1. CASE T = {}
    BY <2>1, SumEmpty, FS_EmptySet
  <2>2. CASE T # {}
    <3> PICK p \in T : TRUE
      BY <2>2
    <3>1. /\ SumFunctionOnSet(f, T) = f[p] + SumFunctionOnSet(f, T \ {p})
          /\ Cardinality(T \ {p}) = Cardinality(T) - 1
          /\ IsFiniteSet(T \ {p})
      <4>1. SumFunctionOnSet(f, T) = f[p] + SumFunctionOnSet(f, T \ {p})
        BY <2>0, SumRemove
      <4>2. Cardinality(T \ {p}) = Cardinality(T) - 1 /\ IsFiniteSet(T \ {p})
        BY <2>0, FS_RemoveElement
      <4> QED
        BY <4>1, <4>2
    <3> DEFINE a == SumFunctionOnSet(f, T \ {p})
               n == Cardinality(T)
    <3>2. a \in Int /\ n \in Nat /\ f[p] \in Int /\ f[p] <= k
      BY <2>0, <3>1, SumType
    <3>3. a <= k * (n - 1)
      BY <1>1, <3>1
    <3>4. SumFunctionOnSet(f, T) = f[p] + a
      BY <3>1
    <3> HIDE DEF a
    <3>5. n - 1 \in Int /\ f[p] + a <= k * n
      <4> HIDE DEF n
      <4>1. k * (n - 1) = k * n - k /\ k * n \in Int
        BY <3>2
      <4> QED
        BY <3>2, <3>3, <4>1
    <3> QED
      BY <3>4, <3>5
  <2> QED
    BY <2>1, <2>2
<1>2. S \in Q
  <2> HIDE DEF Q
  <2> QED
    BY <1>1, FiniteInduction
<1> QED
  BY <1>2

-----------------------------------------------------------------------------
(* Remainders                                                              *)

LEMMA ModRange ==
  ASSUME NEW n \in Nat \ {0}, NEW a \in Int
  PROVE  a % n \in 0 .. n - 1 /\ (a \in 0 .. n - 1 => a % n = a)
OBVIOUS

\* A remainder is unique,
LEMMA ModUnique ==
  ASSUME NEW n \in Nat \ {0}, NEW q \in Int, NEW r \in 0 .. n - 1,
         NEW p \in Int, NEW t \in 0 .. n - 1, n * q + r = n * p + t
  PROVE  r = t
<1>1. CASE q = p
  BY <1>1
<1>2. CASE q >= p + 1
  <2>1. n * q >= n * (p + 1)
    BY <1>2
  <2>2. n * q >= n * p + n
    BY <2>1
  <2> QED
    BY <2>2
<1>3. CASE p >= q + 1
  <2>1. n * p >= n * (q + 1)
    BY <1>3
  <2>2. n * p >= n * q + n
    BY <2>1
  <2> QED
    BY <2>2
<1> QED
  BY <1>1, <1>2, <1>3

\* so multiples do not change it.
LEMMA ModShift ==
  ASSUME NEW n \in Nat \ {0}, NEW a \in Int, NEW q \in Int, NEW b \in Int, b = a + n * q
  PROVE  b % n = a % n
<1>1. a = n * (a \div n) + (a % n) /\ a \div n \in Int /\ a % n \in 0 .. n - 1
  OBVIOUS
<1>2. b = n * (b \div n) + (b % n) /\ b \div n \in Int /\ b % n \in 0 .. n - 1
  OBVIOUS
<1> DEFINE x == a \div n
           y == b \div n
           r == a % n
           t == b % n
<1>3. x \in Int /\ y \in Int /\ r \in 0 .. n - 1 /\ t \in 0 .. n - 1
  BY <1>1, <1>2
<1>4. a = n * x + r /\ b = n * y + t
  BY <1>1, <1>2
<1> HIDE DEF x, y, r, t
<1>5. n * (x + q) = n * x + n * q
  BY <1>3
<1>6. n * (x + q) + r = n * y + t
  BY <1>3, <1>4, <1>5
<1>7. x + q \in Int
  BY <1>3
<1>8. r = t
  BY <1>3, <1>6, <1>7, ModUnique
<1> QED
  BY <1>8 DEF r, t

\* Taking a remainder early makes no difference.
LEMMA ModEarly ==
  ASSUME NEW n \in Nat \ {0}, NEW a \in Int, NEW b \in Int
  PROVE  /\ ((a % n) + b) % n = (a + b) % n
         /\ (b - (a % n)) % n = (b - a) % n
<1>1. a = n * (a \div n) + (a % n) /\ a \div n \in Int /\ a % n \in Int
  OBVIOUS
<1> DEFINE x == a \div n
           r == a % n
<1>2. a = n * x + r /\ x \in Int /\ r \in Int
  BY <1>1
<1> HIDE DEF x, r
<1>3. n * (0 - x) = 0 - n * x
  BY <1>2
<1>4. r + b = (a + b) + n * (0 - x) /\ r + b \in Int /\ a + b \in Int /\ 0 - x \in Int
  BY <1>2, <1>3
<1>5. b - r = (b - a) + n * x /\ b - r \in Int /\ b - a \in Int
  BY <1>2
<1>6. (r + b) % n = (a + b) % n
  BY ZenonT(45), <1>4, ModShift
<1>7. (b - r) % n = (b - a) % n
  <2> DEFINE u == b - r
             v == b - a
  <2>1. u \in Int /\ v \in Int /\ u = v + n * x
    BY <1>5
  <2> HIDE DEF u, v
  <2>2. u % n = v % n
    BY <1>2, <2>1, ModShift
  <2> QED
    BY <2>2 DEF u, v
<1> QED
  BY <1>6, <1>7 DEF r
=============================================================================
