-------------------------- MODULE AlgorithmProofs --------------------------
(***************************************************************************)
(* Proofs about the two pure algorithms.  AliasTable, for any number of    *)
(* entries and any weights: a finished table draws in proportion.          *)
(* Arguments, for any types, signatures, calls and test cases: the values  *)
(* put into the arguments satisfy the constraints on them.                 *)
(***************************************************************************)
EXTENDS AliasTable, Arguments, TLAPS, WellFoundedInduction

(* Unless a step says otherwise: Zenon for a moment, SMT, Zenon.           *)
USE ZenonT(2), SMTT(30), ZenonT(30)

(* There is no end of smaller and smaller natural numbers ...              *)
LEMMA LessIsWellFounded == IsWellFoundedOn({p \in Nat \X Nat : p[1] < p[2]}, Nat)
BY NatLessThanWellFounded DEF OpToRel

(* ... so that a set of them that is not empty has a least one.            *)
LEMMA LeastElement ==
  ASSUME NEW A \in SUBSET Nat, A # {}
  PROVE  \E m \in A : \A k \in A : m <= k
<1> DEFINE R == {p \in Nat \X Nat : p[1] < p[2]}
<1>1. PICK m \in A : \A k \in A : <<k, m>> \notin R
  <2>1. IsWellFoundedOn(R, Nat)
    BY LessIsWellFounded
  <2> HIDE DEF R
  <2> QED
    BY ZenonT(30), <2>1, WFMin
<1>2. \A k \in A : ~(k < m)
  BY ZenonT(30), <1>1
<1> QED
  BY <1>2

(* Induction, for a property that is given as the set of the numbers that  *)
(* have it.                                                                *)
LEMMA Induction ==
  ASSUME NEW A, 0 \in A, \A k \in Nat : k \in A => k + 1 \in A
  PROVE  \A k \in Nat : k \in A
<1> DEFINE Bad == {k \in Nat : k \notin A}
<1>1. SUFFICES ASSUME Bad # {} PROVE FALSE
  OBVIOUS
<1>2. PICK m \in Bad : \A k \in Bad : m <= k
  BY <1>1, LeastElement
<1>3. m - 1 \in Nat /\ m - 1 \notin Bad
  BY <1>2
<1> QED
  BY <1>2, <1>3

-----------------------------------------------------------------------------
(* Loops                                                                   *)

(* What a loop carries along is what its recursive definition says.        *)
LEMMA TraceIs ==
  ASSUME NEW m \in Nat, NEW g, NEW x
  PROVE  Trace(g, x, m) = [k \in 0 .. m |-> IF k = 0 THEN x ELSE g[k][Trace(g, x, m)[k - 1]]]
<1> DEFINE Is(j, q) == q = [k \in 0 .. j |-> IF k = 0 THEN x ELSE g[k][q[k - 1]]]
           A == {j \in Nat : \E q : Is(j, q)}
<1>1. 0 \in A
  <2>1. Is(0, [k \in 0 .. 0 |-> x])
    OBVIOUS
  <2> QED
    BY <2>1
<1>2. ASSUME NEW j \in Nat, j \in A PROVE j + 1 \in A
  <2>1. PICK q : Is(j, q)
    BY <1>2
  <2> DEFINE h == [k \in 0 .. j + 1 |-> IF k <= j THEN q[k] ELSE g[j + 1][q[j]]]
  <2>2. ASSUME NEW k \in 0 .. j + 1
        PROVE  h[k] = IF k = 0 THEN x ELSE g[k][h[k - 1]]
    <3>0. /\ \A n \in 0 .. j : q[n] = IF n = 0 THEN x ELSE g[n][q[n - 1]]
          /\ \A n \in 0 .. j + 1 : h[n] = IF n <= j THEN q[n] ELSE g[j + 1][q[j]]
      BY ZenonT(30), <2>1
    <3> HIDE DEF h, Is
    <3>1. CASE k = 0
      <4>1. k \in 0 .. j /\ k <= j
        BY <3>1
      <4> QED
        BY ZenonT(30), <3>0, <3>1, <4>1
    <3>2. CASE k \in 1 .. j
      <4>1. /\ k \in 0 .. j /\ k <= j /\ k # 0
            /\ k - 1 \in 0 .. j + 1 /\ k - 1 <= j
        BY <3>2
      <4> QED
        BY ZenonT(30), <3>0, <4>1
    <3>3. CASE k = j + 1
      <4>1. ~(k <= j) /\ k # 0 /\ k - 1 = j /\ j \in 0 .. j + 1 /\ j <= j
        BY <3>3
      <4> QED
        BY ZenonT(30), <3>0, <3>3, <4>1
    <3> QED
      BY <3>1, <3>2, <3>3
  <2>3. Is(j + 1, h)
    BY <2>2
  <2>4. \E e : Is(j + 1, e)
    <3> HIDE DEF Is
    <3> QED
      BY <2>3
  <2> QED
    BY <2>4
<1>3. m \in A
  <2> HIDE DEF A
  <2> QED
    BY <1>1, <1>2, Induction
<1>4. PICK q : Is(m, q)
  BY <1>3
<1>5. Trace(g, x, m) = CHOOSE e : Is(m, e)
  BY DEF Trace
<1>6. Is(m, Trace(g, x, m))
  <2> HIDE DEF Is
  <2> QED
    BY <1>4, <1>5, ZenonT(30)
<1> QED
  BY <1>6

(* The iterations of a loop stay within a set.                             *)
Within(g, x, m, X) ==
  m \in Nat /\ x \in X /\ \A k \in 1 .. m : \A y \in X : g[k][y] \in X

(* Then what it carries along stays within it, and is what one iteration   *)
(* after the other makes of it.                                            *)
LEMMA TraceStep ==
  ASSUME NEW g, NEW x, NEW m, NEW X, Within(g, x, m, X)
  PROVE  /\ Trace(g, x, m)[0] = x
         /\ \A k \in 1 .. m : Trace(g, x, m)[k] = g[k][Trace(g, x, m)[k - 1]]
         /\ \A k \in 0 .. m : Trace(g, x, m)[k] \in X
         /\ Iterate(g, x, m) \in X
<1> DEFINE p == Trace(g, x, m)
<1>0. m \in Nat /\ x \in X /\ \A k \in 1 .. m : \A y \in X : g[k][y] \in X
  BY DEF Within
<1>1. p = [k \in 0 .. m |-> IF k = 0 THEN x ELSE g[k][p[k - 1]]]
  BY <1>0, TraceIs
<1> HIDE DEF p
<1>2. \A k \in 0 .. m : p[k] = IF k = 0 THEN x ELSE g[k][p[k - 1]]
  BY <1>1, ZenonT(30)
<1>3. p[0] = x
  BY <1>0, <1>2
<1>4. \A k \in 1 .. m : p[k] = g[k][p[k - 1]]
  BY <1>0, <1>2
<1>5. \A k \in 0 .. m : p[k] \in X
  <2> DEFINE A == {k \in Nat : k <= m => p[k] \in X}
  <2>1. 0 \in A
    BY <1>0, <1>3
  <2>2. ASSUME NEW k \in Nat, k \in A PROVE k + 1 \in A
    <3>1. CASE k + 1 <= m
      <4>1. p[k + 1] = g[k + 1][p[k]] /\ p[k] \in X /\ k + 1 \in 1 .. m
        BY <1>0, <1>4, <2>2, <3>1
      <4> QED
        BY <1>0, <3>1, <4>1
    <3> QED
      BY <1>0, <3>1
  <2>3. \A k \in Nat : k \in A
    <3> HIDE DEF A
    <3> QED
      BY <2>1, <2>2, Induction
  <2> QED
    BY <1>0, <2>3
<1>6. Iterate(g, x, m) \in X
  BY <1>0, <1>5 DEF Iterate, p
<1> QED
  BY <1>3, <1>4, <1>5, <1>6 DEF p

(* A power of a positive number is one.                                    *)
LEMMA PowerIsPositive ==
  ASSUME NEW b \in Nat \ {0}, NEW n \in Nat
  PROVE  Power(b, n) \in Nat \ {0}
<1> DEFINE g == [k \in 1 .. n |-> [y \in Int |-> b * y]]
           X == Nat \ {0}
<1>1. \A k \in 1 .. n : \A y \in X : g[k][y] \in X
  <2>1. \A k \in 1 .. n : \A y \in X : g[k][y] = b * y
    OBVIOUS
  <2>2. \A y \in X : b * y \in X
    OBVIOUS
  <2> QED
    BY ZenonT(30), <2>1, <2>2
<1>2. Power(b, n) = Iterate(g, 1, n)
  BY DEF Power
<1>3. 1 \in X
  OBVIOUS
<1> HIDE DEF g, X
<1>4. Within(g, 1, n, X)
  BY <1>1, <1>3 DEF Within
<1>5. Iterate(g, 1, n) \in X
  BY <1>4, TraceStep
<1> QED
  BY <1>2, <1>5 DEF X

-----------------------------------------------------------------------------
(* Sums                                                                    *)

(* Each partial sum adds one number to the one before it.                  *)
LEMMA PartialStep ==
  ASSUME NEW m \in Nat, NEW f \in [1 .. m -> Int]
  PROVE  /\ Partial(f)[0] = 0
         /\ \A k \in 1 .. m : Partial(f)[k] = Partial(f)[k - 1] + f[k]
         /\ \A k \in 0 .. m : Partial(f)[k] \in Int
         /\ Total(f) = Partial(f)[m] /\ Total(f) \in Int
<1> DEFINE g == [k \in DOMAIN f |-> [y \in Int |-> y + f[k]]]
           p == Trace(g, 0, m)
<1>1. Len(f) = m
  OBVIOUS
<1>2. Partial(f) = p
  BY <1>1 DEF Partial
<1>3. \A k \in 1 .. m : \A y \in Int : g[k][y] = y + f[k] /\ g[k][y] \in Int
  OBVIOUS
<1> HIDE DEF g
<1>4. /\ p[0] = 0 /\ \A k \in 1 .. m : p[k] = g[k][p[k - 1]]
      /\ \A k \in 0 .. m : p[k] \in Int
  <2>1. \A k \in 1 .. m : \A y \in Int : g[k][y] \in Int
    BY ZenonT(30), <1>3
  <2>2. Within(g, 0, m, Int)
    BY <2>1 DEF Within
  <2>3. /\ Trace(g, 0, m)[0] = 0
        /\ \A k \in 1 .. m : Trace(g, 0, m)[k] = g[k][Trace(g, 0, m)[k - 1]]
        /\ \A k \in 0 .. m : Trace(g, 0, m)[k] \in Int
        /\ Iterate(g, 0, m) \in Int
    BY ZenonT(30), <2>2, TraceStep
  <2> QED
    BY ZenonT(30), <2>3
<1> HIDE DEF p
<1>5. \A k \in 1 .. m : p[k] = p[k - 1] + f[k]
  <2>1. \A k \in 1 .. m : k - 1 \in 0 .. m
    OBVIOUS
  <2> QED
    BY ZenonT(30), <1>3, <1>4, <2>1
<1>6. Total(f) = p[m] /\ p[m] \in Int
  BY <1>1, <1>2, <1>4 DEF Total
<1> QED
  BY <1>2, <1>4, <1>5, <1>6

(* A sum of natural numbers is one.                                        *)
LEMMA TotalIsNatural ==
  ASSUME NEW m \in Nat, NEW f \in [1 .. m -> Nat]
  PROVE  Total(f) \in Nat
<1> DEFINE g == [k \in DOMAIN f |-> [y \in Int |-> y + f[k]]]
<1>1. Len(f) = m
  OBVIOUS
<1>2. Total(f) = Iterate(g, 0, m)
  BY <1>1 DEF Total, Partial, Iterate
<1>3. \A k \in 1 .. m : \A y \in Nat : g[k][y] \in Nat
  OBVIOUS
<1> HIDE DEF g
<1>4. Within(g, 0, m, Nat)
  BY <1>3 DEF Within
<1> QED
  BY <1>2, <1>4, TraceStep

(* Changing one number changes the sum by as much.                         *)
LEMMA TotalOfChange ==
  ASSUME NEW m \in Nat, NEW f \in [1 .. m -> Int], NEW g \in [1 .. m -> Int],
         NEW c \in 1 .. m, \A k \in 1 .. m : k # c => g[k] = f[k]
  PROVE  Total(g) = Total(f) + g[c] - f[c]
<1> DEFINE p == Partial(f)
           q == Partial(g)
<1>1. /\ p[0] = 0 /\ Total(f) = p[m]
      /\ \A k \in 1 .. m : p[k] = p[k - 1] + f[k]
      /\ \A k \in 0 .. m : p[k] \in Int
  BY PartialStep
<1>2. /\ q[0] = 0 /\ Total(g) = q[m]
      /\ \A k \in 1 .. m : q[k] = q[k - 1] + g[k]
      /\ \A k \in 0 .. m : q[k] \in Int
  BY PartialStep
<1> HIDE DEF p, q
<1> DEFINE A == {k \in Nat : k <= m => q[k] = p[k] + IF k < c THEN 0 ELSE g[c] - f[c]}
<1>3. 0 \in A
  BY <1>1, <1>2
<1>4. ASSUME NEW k \in Nat, k \in A PROVE k + 1 \in A
  <2>1. CASE k + 1 <= m
    <3>1. /\ p[k + 1] = p[k] + f[k + 1] /\ p[k] \in Int /\ p[k + 1] \in Int
          /\ q[k + 1] = q[k] + g[k + 1] /\ q[k] \in Int /\ q[k + 1] \in Int
      <4>1. k + 1 \in 1 .. m /\ k + 1 \in 0 .. m /\ k \in 0 .. m /\ (k + 1) - 1 = k
        BY <2>1
      <4>2. /\ p[k + 1] = p[(k + 1) - 1] + f[k + 1]
            /\ q[k + 1] = q[(k + 1) - 1] + g[k + 1]
        BY ZenonT(30), <1>1, <1>2, <4>1
      <4> QED
        BY ZenonT(30), <1>1, <1>2, <4>1, <4>2
    <3>2. q[k] = p[k] + IF k < c THEN 0 ELSE g[c] - f[c]
      BY <1>4, <2>1
    <3>3. f[k + 1] \in Int /\ g[k + 1] \in Int /\ f[c] \in Int /\ g[c] \in Int
      BY <2>1
    <3>4. CASE k + 1 = c
      <4>1. q[k] = p[k] /\ ~(k + 1 < c)
        BY <3>1, <3>2, <3>4
      <4>2. p[k + 1] = p[k] + f[c] /\ q[k + 1] = q[k] + g[c]
        BY <3>1, <3>4
      <4>3. PICK u \in Int, x \in Int, y \in Int : u = p[k] /\ x = f[c] /\ y = g[c]
        BY ZenonT(30), <3>1, <3>3
      <4>4. q[k + 1] = p[k + 1] + (g[c] - f[c])
        <5>1. u + y = (u + x) + (y - x)
          OBVIOUS
        <5> QED
          BY ZenonT(30), <4>1, <4>2, <4>3, <5>1
      <4> QED
        BY <4>1, <4>4
    <3>5. CASE k + 1 # c
      <4>1. g[k + 1] = f[k + 1] /\ (k < c <=> k + 1 < c)
        BY <2>1, <3>5
      <4>2. PICK e \in Int : /\ e = IF k + 1 < c THEN 0 ELSE g[c] - f[c]
                            /\ q[k] = p[k] + e
        BY <3>2, <3>3, <4>1
      <4>3. \A u, x \in Int : (u + e) + x = (u + x) + e
        OBVIOUS
      <4>4. q[k + 1] = p[k + 1] + e
        <5>1. (p[k] + e) + f[k + 1] = (p[k] + f[k + 1]) + e
          BY <3>1, <3>3, <4>3
        <5> QED
          BY ZenonT(30), <3>1, <4>1, <4>2, <5>1
      <4> QED
        BY <4>2, <4>4
    <3> QED
      BY <3>4, <3>5
  <2> QED
    BY <2>1
<1>5. m \in A
  <2> HIDE DEF A
  <2> QED
    BY <1>3, <1>4, Induction
<1>6. q[m] = p[m] + (g[c] - f[c])
  BY <1>5
<1>7. p[m] \in Int /\ g[c] \in Int /\ f[c] \in Int
  BY <1>1
<1> QED
  BY <1>1, <1>2, <1>6, <1>7

(* The sum of multiples, each less the same number.                        *)
LEMMA TotalOfMultiples ==
  ASSUME NEW m \in Nat, NEW f \in [1 .. m -> Int], NEW g \in [1 .. m -> Int],
         NEW c \in Int, NEW d \in Int, \A k \in 1 .. m : g[k] = f[k] * c - d
  PROVE  Total(g) = Total(f) * c - m * d
<1> DEFINE p == Partial(f)
           q == Partial(g)
<1>1. /\ p[0] = 0 /\ Total(f) = p[m]
      /\ \A k \in 1 .. m : p[k] = p[k - 1] + f[k]
      /\ \A k \in 0 .. m : p[k] \in Int
  BY PartialStep
<1>2. /\ q[0] = 0 /\ Total(g) = q[m]
      /\ \A k \in 1 .. m : q[k] = q[k - 1] + g[k]
      /\ \A k \in 0 .. m : q[k] \in Int
  BY PartialStep
<1> HIDE DEF p, q
<1> DEFINE A == {k \in Nat : k <= m => q[k] = p[k] * c - k * d}
<1>3. 0 \in A
  BY <1>1, <1>2
<1>4. ASSUME NEW k \in Nat, k \in A PROVE k + 1 \in A
  <2>1. CASE k + 1 <= m
    <3>1. /\ p[k + 1] = p[k] + f[k + 1] /\ p[k] \in Int
          /\ q[k + 1] = q[k] + g[k + 1] /\ f[k + 1] \in Int
      <4>1. k + 1 \in 1 .. m /\ k \in 0 .. m /\ (k + 1) - 1 = k
        BY <2>1
      <4> QED
        BY <1>1, <1>2, <4>1
    <3>2. q[k] = p[k] * c - k * d /\ g[k + 1] = f[k + 1] * c - d
      BY <1>4, <2>1
    <3>3. \A x, y \in Int : (x + y) * c - (k + 1) * d = (x * c - k * d) + (y * c - d)
      OBVIOUS
    <3>4. (p[k] + f[k + 1]) * c - (k + 1) * d = (p[k] * c - k * d) + (f[k + 1] * c - d)
      BY ZenonT(30), <3>1, <3>3
    <3>5. q[k + 1] = p[k + 1] * c - (k + 1) * d
      BY ZenonT(30), <3>1, <3>2, <3>4
    <3> QED
      BY <3>5
  <2> QED
    BY <2>1
<1>5. m \in A
  <2> HIDE DEF A
  <2> QED
    BY <1>3, <1>4, Induction
<1> QED
  BY <1>1, <1>2, <1>5

(* Numbers that are not negative have the sum 0 only if they are all 0.    *)
LEMMA TotalIsZero ==
  ASSUME NEW m \in Nat, NEW f \in [1 .. m -> Int],
         \A k \in 1 .. m : f[k] >= 0, Total(f) = 0
  PROVE  \A k \in 1 .. m : f[k] = 0
<1> DEFINE p == Partial(f)
<1>1. /\ p[0] = 0 /\ Total(f) = p[m]
      /\ \A k \in 1 .. m : p[k] = p[k - 1] + f[k]
      /\ \A k \in 0 .. m : p[k] \in Int
  BY PartialStep
<1> HIDE DEF p
<1> DEFINE A == {k \in Nat : k <= m => p[k] >= 0 /\ \A j \in 1 .. k : f[j] <= p[k]}
<1>2. 0 \in A
  BY <1>1
<1>3. ASSUME NEW k \in Nat, k \in A PROVE k + 1 \in A
  <2>1. CASE k + 1 <= m
    <3>1. /\ p[k + 1] = p[k] + f[k + 1] /\ p[k] \in Int /\ f[k + 1] \in Int
          /\ f[k + 1] >= 0
      BY <1>1, <2>1
    <3>2. p[k] >= 0 /\ \A j \in 1 .. k : f[j] <= p[k]
      BY <1>3, <2>1
    <3>3. ASSUME NEW j \in 1 .. k + 1 PROVE f[j] <= p[k + 1]
      <4>1. CASE j = k + 1
        BY <3>1, <3>2, <4>1
      <4>2. CASE j \in 1 .. k
        <5>1. f[j] <= p[k] /\ f[j] \in Int
          BY <2>1, <3>2, <4>2
        <5> QED
          BY <3>1, <5>1
      <4> QED
        BY <4>1, <4>2
    <3>4. p[k + 1] >= 0
      BY <3>1, <3>2
    <3> QED
      BY <3>3, <3>4
  <2> QED
    BY <2>1
<1>4. m \in A
  <2> HIDE DEF A
  <2> QED
    BY <1>2, <1>3, Induction
<1>5. ASSUME NEW k \in 1 .. m PROVE f[k] = 0
  <2>1. f[k] <= 0 /\ f[k] >= 0 /\ f[k] \in Int
    BY <1>1, <1>4
  <2> QED
    BY <2>1
<1> QED
  BY <1>5

(* g is f but for two numbers, of which one gains what the other loses.    *)
Exchanged(m, f, g, a, b) ==
  /\ m \in Nat /\ f \in [1 .. m -> Int] /\ g \in [1 .. m -> Int]
  /\ a \in 1 .. m /\ b \in 1 .. m /\ a # b
  /\ \A k \in 1 .. m : k # a /\ k # b => g[k] = f[k]
  /\ g[a] + g[b] = f[a] + f[b]

(* Such an exchange leaves the sum as it is.                               *)
LEMMA TotalOfExchange ==
  ASSUME NEW m, NEW f, NEW g, NEW a, NEW b, Exchanged(m, f, g, a, b)
  PROVE  Total(g) = Total(f)
<1> USE DEF Exchanged
<1>0. PICK d \in Int : g[a] = f[a] - d /\ g[b] = f[b] + d
  <2>1. PICK w \in Int, x \in Int, y \in Int, z \in Int :
          w = g[a] /\ x = g[b] /\ y = f[a] /\ z = f[b] /\ w + x = y + z
    OBVIOUS
  <2> HIDE DEF Exchanged
  <2>2. w + x = y + z
    BY <2>1
  <2>3. y - w \in Int /\ w = y - (y - w) /\ x = z + (y - w)
    BY <2>2
  <2> QED
    BY <2>1, <2>3
<1> DEFINE h == [f EXCEPT ![a] = g[a]]
<1>1. h \in [1 .. m -> Int] /\ h[a] = f[a] - d /\ h[b] = f[b]
  BY <1>0
<1>2. \A k \in 1 .. m : k # a => h[k] = f[k]
  OBVIOUS
<1>3. \A k \in 1 .. m : k # b => g[k] = h[k]
  OBVIOUS
<1> HIDE DEF h
<1>4. Total(f) \in Int /\ Total(g) \in Int /\ Total(h) \in Int
  BY <1>1, PartialStep
<1>5. Total(h) = Total(f) - d
  <2>1. Total(h) = Total(f) + h[a] - f[a]
    BY <1>1, <1>2, TotalOfChange
  <2>2. PICK x \in Int : x = f[a] /\ x - d = h[a]
    BY <1>1
  <2>3. \A u \in Int : u + (x - d) - x = u - d
    OBVIOUS
  <2> QED
    BY ZenonT(30), <1>4, <2>1, <2>2, <2>3
<1>6. Total(g) = Total(h) + d
  <2>1. Total(g) = Total(h) + g[b] - h[b]
    BY <1>1, <1>3, TotalOfChange
  <2>2. PICK x \in Int : x = h[b] /\ x + d = g[b]
    BY <1>0, <1>1
  <2>3. \A u \in Int : u + (x + d) - x = u + d
    OBVIOUS
  <2> QED
    BY ZenonT(30), <1>4, <2>1, <2>2, <2>3
<1> QED
  BY <1>4, <1>5, <1>6

-----------------------------------------------------------------------------
(* The alias table                                                         *)

Distinct(q) == \A j, k \in DOMAIN q : q[j] = q[k] => j = k

(* What is on top of a stack, and what is below it.                        *)
LEMMA PopLeaves ==
  ASSUME NEW X, NEW q \in Seq(X), Distinct(q), q # <<>>
  PROVE  /\ Top(q) \in Range(q) /\ Top(q) \in X
         /\ Popped(q) \in Seq(X) /\ Distinct(Popped(q))
         /\ Range(Popped(q)) = Range(q) \ {Top(q)}
<1>1. Len(q) \in Nat \ {0} /\ DOMAIN q = 1 .. Len(q) /\ Top(q) = q[Len(q)]
  BY DEF Top
<1>2. /\ Popped(q) \in Seq(X) /\ DOMAIN Popped(q) = 1 .. Len(q) - 1
      /\ \A k \in 1 .. Len(q) - 1 : Popped(q)[k] = q[k]
  BY <1>1 DEF Popped
<1>3. Distinct(Popped(q))
  BY <1>1, <1>2 DEF Distinct
<1>4. Range(Popped(q)) = Range(q) \ {Top(q)}
  <2>1. Range(Popped(q)) = {q[k] : k \in 1 .. Len(q) - 1}
    BY <1>2 DEF Range
  <2>2. Range(q) = {q[k] : k \in 1 .. Len(q)}
    BY <1>1 DEF Range
  <2>3. \A k \in 1 .. Len(q) - 1 : k \in 1 .. Len(q) /\ q[k] # q[Len(q)]
    BY <1>1 DEF Distinct
  <2>4. \A n \in Nat : \A k \in 1 .. n : k = n \/ k \in 1 .. n - 1
    OBVIOUS
  <2> QED
    BY <1>1, <2>1, <2>2, <2>3, <2>4
<1>5. Top(q) \in Range(q) /\ Top(q) \in X
  BY <1>1 DEF Range
<1> QED
  BY <1>2, <1>3, <1>4, <1>5

(* A stack after something else has been put on it.                        *)
LEMMA PushAdds ==
  ASSUME NEW X, NEW q \in Seq(X), Distinct(q), NEW x \in X, x \notin Range(q)
  PROVE  /\ Append(q, x) \in Seq(X) /\ Distinct(Append(q, x))
         /\ Range(Append(q, x)) = Range(q) \cup {x}
<1>1. /\ Append(q, x) \in Seq(X) /\ Len(q) \in Nat
      /\ DOMAIN q = 1 .. Len(q) /\ DOMAIN Append(q, x) = 1 .. Len(q) + 1
      /\ Append(q, x)[Len(q) + 1] = x
      /\ \A k \in 1 .. Len(q) : Append(q, x)[k] = q[k]
  OBVIOUS
<1>2. \A k \in 1 .. Len(q) + 1 : k = Len(q) + 1 \/ k \in 1 .. Len(q)
  BY <1>1
<1>3. \A k \in 1 .. Len(q) : q[k] # x /\ k \in 1 .. Len(q) + 1
  BY <1>1 DEF Range
<1>4. Distinct(Append(q, x))
  BY <1>1, <1>2, <1>3 DEF Distinct
<1>5. Range(Append(q, x)) = Range(q) \cup {x}
  <2>1. Range(Append(q, x)) = {Append(q, x)[k] : k \in 1 .. Len(q) + 1}
    BY <1>1 DEF Range
  <2>2. Range(q) = {q[k] : k \in 1 .. Len(q)}
    BY <1>1 DEF Range
  <2>3. Len(q) + 1 \in 1 .. Len(q) + 1
    BY <1>1
  <2> QED
    BY <1>1, <1>2, <1>3, <2>1, <2>2, <2>3
<1> QED
  BY <1>1, <1>4, <1>5

(* Entries whose slot in the table is not settled yet.                     *)
Unsettled == 1 .. left \cup Range(S) \cup Range(L)

TableTypeOK ==
  /\ N \in Nat /\ weight \in [Slot -> Nat] /\ left \in 0 .. N
  /\ P \in [Slot -> Int] /\ prob \in [Slot -> Int] /\ alias \in [Slot -> Slot]
  /\ S \in Seq(Slot) /\ L \in Seq(Slot)

(* No entry is on a stack twice, and each is on the stack where what is    *)
(* left of its share belongs.                                              *)
StacksInv ==
  /\ Distinct(S) /\ Distinct(L) /\ Range(S) \cap Range(L) = {}
  /\ (Range(S) \cup Range(L)) \cap 1 .. left = {}
  /\ \A s \in Range(S) : sum # 0 /\ P[s] < sum
  /\ \A s \in Range(L) : sum # 0 => P[s] >= sum

(* What is left of the shares is as much as the unsettled slots can take.  *)
Excess == [s \in Slot |-> IF s \in Unsettled THEN P[s] - sum ELSE 0]
Balanced == ~built => Total(Excess) = 0

(* What settled slots lead to an entry, and what is left of its share, is  *)
(* together what its weight calls for (there is a weight at all).          *)
Drawn(i) ==
  [s \in Slot |-> IF s \in Unsettled THEN IF s = i THEN P[s] ELSE 0
                  ELSE (IF s = i THEN prob[s] ELSE 0)
                         + (IF alias[s] = i THEN sum - prob[s] ELSE 0)]
SharesInv == sum # 0 => \A i \in Slot : Total(Drawn(i)) = weight[i] * N

TableInv ==
  /\ TableTypeOK /\ StacksInv /\ Balanced /\ SharesInv
  /\ built => Unsettled = {}

(* The functions that are summed up hold whole numbers.                    *)
LEMMA TableSums ==
  ASSUME TableTypeOK
  PROVE  /\ sum \in Int /\ N \in Nat /\ Slot = 1 .. N
         /\ Excess \in [1 .. N -> Int]
         /\ \A i : Drawn(i) \in [1 .. N -> Int]
<1>1. N \in Nat /\ Slot = 1 .. N /\ weight \in [1 .. N -> Int]
  BY DEF TableTypeOK, Slot
<1>2. sum \in Int
  BY <1>1, PartialStep DEF sum
<1>3. Excess \in [1 .. N -> Int]
  BY <1>1, <1>2 DEF Excess, TableTypeOK
<1>4. ASSUME NEW i PROVE Drawn(i) \in [1 .. N -> Int]
  <2>1. ASSUME NEW s \in 1 .. N
        PROVE  /\ (IF s = i THEN P[s] ELSE 0) \in Int
               /\ (IF s = i THEN prob[s] ELSE 0) \in Int
               /\ (IF alias[s] = i THEN sum - prob[s] ELSE 0) \in Int
    BY <1>1, <1>2 DEF TableTypeOK
  <2> QED
    BY <1>1, <2>1 DEF Drawn
<1> QED
  BY <1>1, <1>2, <1>3, <1>4

(* The same of the next state.                                             *)
LEMMA TableSumsNext ==
  (TableTypeOK => \A i : Drawn(i) \in [1 .. N -> Int])'
<1>1. TableTypeOK => \A i : Drawn(i) \in [1 .. N -> Int]
  BY TableSums
<1> QED
  BY <1>1, PTL

(* Before the first loop every slot is unsettled, and what is left of a    *)
(* share is all of it.                                                     *)
LEMMA TableInitInv == TableInit => TableInv
<1> SUFFICES ASSUME TableInit PROVE TableInv
  OBVIOUS
<1>1. PICK k \in 1 .. MaxN : weight \in [1 .. k -> 0 .. MaxWeight]
  BY DEF TableInit
<1>2. k \in Nat /\ k >= 1 /\ N = k /\ weight \in [1 .. k -> Nat]
  BY <1>1, TableAssumption DEF N
<1>3. Slot = 1 .. N /\ N \in Nat /\ 1 \in 1 .. N
  BY <1>2 DEF Slot
<1>4. TableTypeOK
  <2>1. weight \in [Slot -> Nat] /\ left \in 0 .. N
    BY <1>2, <1>3 DEF TableInit
  <2>2. \A s \in Slot : weight[s] * N \in Int
    BY <1>3, <2>1
  <2>3. P \in [Slot -> Int] /\ prob \in [Slot -> Int] /\ alias \in [Slot -> Slot]
    BY <1>3, <2>2 DEF TableInit
  <2>4. S \in Seq(Slot) /\ L \in Seq(Slot)
    BY DEF TableInit
  <2> QED
    BY <1>3, <2>1, <2>3, <2>4 DEF TableTypeOK
<1>5. Unsettled = 1 .. N /\ Range(S) = {} /\ Range(L) = {}
  BY DEF TableInit, Unsettled, Range
<1>6. StacksInv
  BY <1>5 DEF TableInit, StacksInv, Distinct
<1>7. Balanced
  <2>1. weight \in [1 .. N -> Int] /\ Excess \in [1 .. N -> Int] /\ sum \in Int
    BY <1>2, <1>4, TableSums
  <2>2. \A s \in 1 .. N : Excess[s] = weight[s] * N - sum
    BY <1>3, <1>5 DEF Excess, TableInit
  <2>3. Total(Excess) = Total(weight) * N - N * sum
    <3>1. N \in Int
      BY <1>3
    <3> QED
      BY ZenonT(30), <1>3, <2>1, <2>2, <3>1, TotalOfMultiples
  <2>4. \A x \in Int : x * N - N * x = 0
    BY <1>3
  <2> QED
    BY <2>1, <2>3, <2>4 DEF Balanced, sum
<1>8. ASSUME NEW i \in Slot PROVE Total(Drawn(i)) = weight[i] * N
  <2> DEFINE z == [s \in 1 .. N |-> 0]
  <2>1. weight \in [1 .. N -> Int] /\ Drawn(i) \in [1 .. N -> Int] /\ i \in 1 .. N
    BY <1>2, <1>3, <1>4, TableSums
  <2>2. z \in [1 .. N -> Int] /\ z[i] = 0
    BY <2>1
  <2>3. \A s \in 1 .. N : z[s] = z[s] * 0 - 0
    OBVIOUS
  <2>4. \A s \in 1 .. N : s # i => Drawn(i)[s] = z[s]
    BY <1>3, <1>5 DEF Drawn
  <2>5. Drawn(i)[i] = weight[i] * N
    BY <1>3, <1>5, <2>1 DEF Drawn, TableInit
  <2> HIDE DEF z
  <2>6. Total(z) = Total(z) * 0 - N * 0 /\ Total(z) \in Int
    <3>1. 0 \in Int
      OBVIOUS
    <3>2. Total(z) \in Int
      BY <1>3, <2>2, PartialStep
    <3> QED
      BY ZenonT(30), <1>3, <2>2, <2>3, <3>1, <3>2, TotalOfMultiples
  <2>7. Total(z) = 0
    BY <1>3, <2>6
  <2>8. Total(Drawn(i)) = Total(z) + Drawn(i)[i] - z[i]
    BY <1>3, <2>1, <2>2, <2>4, TotalOfChange
  <2>9. Total(Drawn(i)) \in Int /\ weight[i] * N \in Int
    BY <1>3, <2>1, PartialStep
  <2> QED
    BY <2>2, <2>5, <2>7, <2>8, <2>9
<1> QED
  BY <1>4, <1>6, <1>7, <1>8 DEF TableInv, SharesInv, TableInit

(* The first loop moves an entry to a stack; it stays unsettled.           *)
LEMMA SplitInv ==
  ASSUME TableInv, Split
  PROVE  TableInv'
<1>1. /\ left \in 1 .. N /\ left' = left - 1 /\ left' \in 0 .. N
      /\ UNCHANGED <<built, weight, P, prob, alias>>
  BY DEF TableInv, TableTypeOK, Split
<1>2. N' = N /\ Slot' = Slot /\ sum' = sum /\ Slot = 1 .. N /\ left \in Slot
  BY <1>1 DEF N, Slot, sum
<1>3. left \notin Range(S) /\ left \notin Range(L)
  BY <1>1 DEF TableInv, StacksInv
<1>4. /\ S' \in Seq(Slot) /\ Distinct(S') /\ L' \in Seq(Slot) /\ Distinct(L')
      /\ \/ BelowOne(P[left]) /\ Range(S') = Range(S) \cup {left} /\ L' = L
         \/ ~BelowOne(P[left]) /\ Range(L') = Range(L) \cup {left} /\ S' = S
  <2>1. CASE BelowOne(P[left])
    <3>1. S' = Append(S, left) /\ L' = L
      BY <2>1 DEF Split
    <3>2. S \in Seq(Slot) /\ Distinct(S) /\ L \in Seq(Slot) /\ Distinct(L)
      BY DEF TableInv, TableTypeOK, StacksInv
    <3>3. ASSUME NEW q, q = S
          PROVE  /\ Append(q, left) \in Seq(Slot) /\ Distinct(Append(q, left))
                 /\ Range(Append(q, left)) = Range(q) \cup {left}
      <4>1. q \in Seq(Slot) /\ Distinct(q) /\ left \in Slot /\ left \notin Range(q)
        BY <1>2, <1>3, <3>2, <3>3
      <4> QED
        BY <4>1, PushAdds
    <3> QED
      BY ZenonT(30), <2>1, <3>1, <3>2, <3>3
  <2>2. CASE ~BelowOne(P[left])
    <3>1. L' = Append(L, left) /\ S' = S
      BY <2>2 DEF Split
    <3>2. S \in Seq(Slot) /\ Distinct(S) /\ L \in Seq(Slot) /\ Distinct(L)
      BY DEF TableInv, TableTypeOK, StacksInv
    <3>3. ASSUME NEW q, q = L
          PROVE  /\ Append(q, left) \in Seq(Slot) /\ Distinct(Append(q, left))
                 /\ Range(Append(q, left)) = Range(q) \cup {left}
      <4>1. q \in Seq(Slot) /\ Distinct(q) /\ left \in Slot /\ left \notin Range(q)
        BY <1>2, <1>3, <3>2, <3>3
      <4> QED
        BY <4>1, PushAdds
    <3> QED
      BY ZenonT(30), <2>2, <3>1, <3>2, <3>3
  <2> QED
    BY <2>1, <2>2
<1>5. 1 .. left = 1 .. left' \cup {left} /\ left \notin 1 .. left'
  BY <1>1
<1>6. Unsettled' = Unsettled
  BY <1>4, <1>5 DEF Unsettled
<1>7. TableTypeOK'
  BY <1>1, <1>2, <1>4 DEF TableInv, TableTypeOK
<1>8. StacksInv'
  <2>1. sum \in Int /\ P[left] \in Int
    BY <1>2, TableSums DEF TableInv, TableTypeOK
  <2>2. (Range(S') \cup Range(L')) \cap 1 .. left' = {} /\ Range(S') \cap Range(L') = {}
    BY <1>3, <1>4, <1>5 DEF TableInv, StacksInv
  <2>3. \A s \in Range(S') : sum # 0 /\ P[s] < sum
    BY <1>4 DEF TableInv, StacksInv, BelowOne
  <2>4. \A s \in Range(L') : sum # 0 => P[s] >= sum
    BY <1>4, <2>1 DEF TableInv, StacksInv, BelowOne
  <2> QED
    BY <1>1, <1>2, <1>4, <2>2, <2>3, <2>4 DEF StacksInv
<1>9. Balanced' /\ SharesInv'
  <2>1. Excess' = Excess
    BY <1>1, <1>2, <1>6 DEF Excess
  <2>2. \A i : Drawn(i)' = Drawn(i)
    BY <1>1, <1>2, <1>6 DEF Drawn
  <2> QED
    BY <1>1, <1>2, <2>1, <2>2 DEF TableInv, Balanced, SharesInv
<1> QED
  BY <1>1, <1>6, <1>7, <1>8, <1>9 DEF TableInv

(* Pairing settles the slot of the small entry on top of its stack; what   *)
(* the large one gives away is what the small one's slot had room for.     *)
LEMMA PairInv ==
  ASSUME TableInv, Pair
  PROVE  TableInv'
<1>1. PICK a, g, rest :
        /\ a = Top(S) /\ g = Top(L) /\ rest = P[g] + P[a] - sum
        /\ prob' = [prob EXCEPT ![a] = P[a]] /\ alias' = [alias EXCEPT ![a] = g]
        /\ P' = [P EXCEPT ![g] = rest]
        /\ S' = IF BelowOne(rest) THEN Append(Popped(S), g) ELSE Popped(S)
        /\ L' = IF BelowOne(rest) THEN Popped(L) ELSE L
  BY DEF Pair
<1>2. /\ left = 0 /\ S # <<>> /\ L # <<>>
      /\ left' = left /\ built' = built /\ weight' = weight
  BY DEF Pair
<1>3. N' = N /\ Slot' = Slot /\ sum' = sum
  BY <1>2 DEF N, Slot, sum
<1>4. TableTypeOK /\ StacksInv
  BY DEF TableInv
<1>5. sum \in Int /\ N \in Nat /\ Slot = 1 .. N
  BY <1>4, TableSums
<1>6. /\ a \in Range(S) /\ a \in Slot /\ Popped(S) \in Seq(Slot)
      /\ Distinct(Popped(S)) /\ Range(Popped(S)) = Range(S) \ {a}
  <2>1. S \in Seq(Slot) /\ Distinct(S)
    BY <1>4 DEF TableTypeOK, StacksInv
  <2> QED
    BY <1>1, <1>2, <2>1, PopLeaves
<1>7. /\ g \in Range(L) /\ g \in Slot /\ Popped(L) \in Seq(Slot)
      /\ Distinct(Popped(L)) /\ Range(Popped(L)) = Range(L) \ {g}
  <2>1. L \in Seq(Slot) /\ Distinct(L)
    BY <1>4 DEF TableTypeOK, StacksInv
  <2> QED
    BY <1>1, <1>2, <2>1, PopLeaves
<1>8. a # g /\ a \notin Range(L) /\ g \notin Range(S)
  BY <1>4, <1>6, <1>7 DEF StacksInv
<1>9. /\ P[a] \in Int /\ P[g] \in Int /\ rest \in Int
      /\ rest = P[g] + P[a] - sum
  <2>1. rest = P[g] + P[a] - sum
    BY <1>1
  <2>2. P[a] \in Int /\ P[g] \in Int
    BY <1>4, <1>6, <1>7 DEF TableTypeOK
  <2> QED
    BY <1>5, <2>1, <2>2
<1>10. /\ Append(Popped(S), g) \in Seq(Slot) /\ Distinct(Append(Popped(S), g))
       /\ Range(Append(Popped(S), g)) = (Range(S) \ {a}) \cup {g}
  <2>1. PICK q : q = Popped(S)
    OBVIOUS
  <2>2. q \in Seq(Slot) /\ Distinct(q) /\ g \in Slot /\ g \notin Range(q)
    BY <1>6, <1>7, <1>8, <2>1
  <2>3. /\ Append(q, g) \in Seq(Slot) /\ Distinct(Append(q, g))
        /\ Range(Append(q, g)) = Range(q) \cup {g}
    BY <2>2, PushAdds
  <2> QED
    BY <1>6, <2>1, <2>3
<1>11. /\ S' \in Seq(Slot) /\ Distinct(S') /\ L' \in Seq(Slot) /\ Distinct(L')
       /\ \/ BelowOne(rest) /\ Range(S') = (Range(S) \ {a}) \cup {g} /\ Range(L') = Range(L) \ {g}
          \/ ~BelowOne(rest) /\ Range(S') = Range(S) \ {a} /\ Range(L') = Range(L)
  <2>1. L \in Seq(Slot) /\ Distinct(L)
    BY <1>4 DEF TableTypeOK, StacksInv
  <2>2. CASE BelowOne(rest)
    <3>1. S' = Append(Popped(S), g) /\ L' = Popped(L)
      BY <1>1, <2>2
    <3> QED
      BY <1>7, <1>10, <2>2, <3>1
  <2>3. CASE ~BelowOne(rest)
    <3>1. S' = Popped(S) /\ L' = L
      BY <1>1, <2>3
    <3> QED
      BY <1>6, <2>1, <2>3, <3>1
  <2> QED
    BY <2>2, <2>3
<1>12. /\ Unsettled' = Unsettled \ {a} /\ a \in Unsettled /\ g \in Unsettled
       /\ Unsettled = Range(S) \cup Range(L)
  <2>1. 1 .. left = {} /\ 1 .. left' = {}
    BY <1>2
  <2>2. Range(S') \cup Range(L') = (Range(S) \cup Range(L)) \ {a}
    BY <1>6, <1>7, <1>8, <1>11
  <2> QED
    BY <1>6, <1>7, <2>1, <2>2 DEF Unsettled
<1>13. TableTypeOK'
  <2>1. weight' \in [Slot -> Nat] /\ N' \in Nat /\ left' \in 0 .. N
    BY <1>2, <1>3, <1>4 DEF TableTypeOK
  <2>2. P' \in [Slot -> Int] /\ prob' \in [Slot -> Int] /\ alias' \in [Slot -> Slot]
    BY <1>1, <1>4, <1>6, <1>7, <1>9 DEF TableTypeOK
  <2> QED
    BY <1>3, <1>11, <2>1, <2>2 DEF TableTypeOK
<1>14. P'[g] = rest /\ \A s \in Slot : s # g => P'[s] = P[s]
  BY <1>1, <1>4, <1>7 DEF TableTypeOK
<1>15. \A s \in Range(S) \cup Range(L) : s \in Slot
  <2>1. S \in Seq(Slot) /\ L \in Seq(Slot)
    BY ZenonT(30), <1>4 DEF TableTypeOK
  <2> QED
    BY <2>1 DEF Range
<1>16. StacksInv'
  <2>1. Range(S') \cap Range(L') = {}
    BY <1>4, <1>8, <1>11 DEF StacksInv
  <2>2. (Range(S') \cup Range(L')) \cap 1 .. left' = {}
    BY <1>2
  <2>3. ASSUME NEW s \in Range(S') PROVE sum # 0 /\ P'[s] < sum
    <3>1. CASE s = g
      BY <1>8, <1>11, <1>14, <2>3, <3>1 DEF BelowOne
    <3>2. CASE s # g
      <4>1. s \in Range(S) /\ s \in Slot
        BY <1>11, <1>15, <2>3, <3>2
      <4> QED
        BY <1>4, <1>14, <3>2, <4>1 DEF StacksInv
    <3> QED
      BY <3>1, <3>2
  <2>4. ASSUME NEW s \in Range(L'), sum # 0 PROVE P'[s] >= sum
    <3>1. CASE s = g
      BY <1>5, <1>9, <1>11, <1>14, <2>4, <3>1 DEF BelowOne
    <3>2. CASE s # g
      <4>1. s \in Range(L) /\ s \in Slot
        BY <1>11, <1>15, <2>4, <3>2
      <4> QED
        BY <1>4, <1>14, <2>4, <3>2, <4>1 DEF StacksInv
    <3> QED
      BY <3>1, <3>2
  <2> QED
    BY <1>3, <1>11, <2>1, <2>2, <2>3, <2>4 DEF StacksInv
<1>17. Balanced'
  <2>1. PICK f, h : f = Excess /\ h = Excess'
    OBVIOUS
  <2>2. f \in [1 .. N -> Int] /\ h \in [1 .. N -> Int]
    <3>1. Excess' \in [Slot -> Int]
      BY <1>3, <1>5, <1>13 DEF Excess, TableTypeOK
    <3> QED
      BY <1>4, <1>5, <2>1, <3>1, TableSums
  <2>3. a \in 1 .. N /\ g \in 1 .. N
    BY <1>5, <1>6, <1>7
  <2>4. ASSUME NEW k \in 1 .. N, k # a, k # g PROVE h[k] = f[k]
    BY <1>3, <1>5, <1>12, <1>14, <2>1, <2>4 DEF Excess
  <2>5. h[a] = 0 /\ f[a] = P[a] - sum /\ h[g] = rest - sum /\ f[g] = P[g] - sum
    BY <1>3, <1>6, <1>7, <1>8, <1>12, <1>14, <2>1 DEF Excess
  <2>6. h[a] + h[g] = f[a] + f[g]
    <3>1. PICK x, y : x = P[a] /\ y = P[g]
      OBVIOUS
    <3>2. /\ sum \in Int /\ x \in Int /\ y \in Int
          /\ h[a] = 0 /\ h[g] = (y + x - sum) - sum /\ f[a] = x - sum /\ f[g] = y - sum
      BY ZenonT(30), <1>5, <1>9, <2>5, <3>1
    <3> QED
      BY <3>2
  <2>7. \A k \in 1 .. N : k # a /\ k # g => h[k] = f[k]
    BY <2>4
  <2>8. Total(h) = Total(f)
    <3>1. N \in Nat /\ a # g
      BY <1>5, <1>8
    <3>2. Exchanged(N, f, h, a, g)
      BY <2>2, <2>3, <2>6, <2>7, <3>1 DEF Exchanged
    <3> QED
      BY <3>2, TotalOfExchange
  <2> QED
    BY <1>2, <2>1, <2>8 DEF TableInv, Balanced
<1>18. ASSUME NEW i \in Slot PROVE Total(Drawn(i)') = Total(Drawn(i))
  <2>1. PICK f, h : f = Drawn(i) /\ h = Drawn(i)'
    OBVIOUS
  <2>2. f \in [1 .. N -> Int] /\ h \in [1 .. N -> Int]
    <3>1. Drawn(i)' \in [1 .. N -> Int]
      BY <1>3, <1>13, TableSumsNext
    <3>2. Drawn(i) \in [1 .. N -> Int]
      BY <1>4, TableSums
    <3> QED
      BY <2>1, <3>1, <3>2
  <2>3. a \in 1 .. N /\ g \in 1 .. N
    BY <1>5, <1>6, <1>7
  <2>4. prob'[a] = P[a] /\ alias'[a] = g
    BY <1>1, <1>4, <1>6 DEF TableTypeOK
  <2>5. ASSUME NEW k \in Slot, k # a PROVE prob'[k] = prob[k] /\ alias'[k] = alias[k]
    BY <1>1, <1>4, <2>5 DEF TableTypeOK
  <2>6. ASSUME NEW k \in 1 .. N, k # a, k # g PROVE h[k] = f[k]
    <3>1. P'[k] = P[k] /\ prob'[k] = prob[k] /\ alias'[k] = alias[k]
      BY <1>5, <1>14, <2>5, <2>6
    <3>2. (k \in Unsettled') = (k \in Unsettled)
      BY <1>12, <2>6
    <3> QED
      BY <1>3, <1>5, <2>1, <3>1, <3>2 DEF Drawn
  <2>7. /\ h[a] = (IF a = i THEN P[a] ELSE 0) + (IF g = i THEN sum - P[a] ELSE 0)
        /\ f[a] = IF a = i THEN P[a] ELSE 0
    BY <1>3, <1>6, <1>12, <2>1, <2>4 DEF Drawn
  <2>8. /\ h[g] = IF g = i THEN rest ELSE 0
        /\ f[g] = IF g = i THEN P[g] ELSE 0
    BY <1>3, <1>7, <1>8, <1>12, <1>14, <2>1 DEF Drawn
  <2>9. h[a] + h[g] = f[a] + f[g]
    <3>1. CASE g = i
      <4>1. h[a] = 0 + (sum - P[a]) /\ f[a] = 0 /\ h[g] = rest /\ f[g] = P[g]
        BY ZenonT(30), <1>8, <2>7, <2>8, <3>1
      <4> QED
        BY <1>5, <1>9, <4>1
    <3>2. CASE g # i
      BY <1>9, <2>7, <2>8, <3>2
    <3> QED
      BY <3>1, <3>2
  <2>10. \A k \in 1 .. N : k # a /\ k # g => h[k] = f[k]
    BY <2>6
  <2>11. Total(h) = Total(f)
    <3>1. N \in Nat /\ a # g
      BY <1>5, <1>8
    <3>2. Exchanged(N, f, h, a, g)
      BY <2>2, <2>3, <2>9, <2>10, <3>1 DEF Exchanged
    <3> QED
      BY <3>2, TotalOfExchange
  <2> QED
    BY <2>1, <2>11
<1>19. SharesInv'
  BY <1>2, <1>3, <1>18 DEF TableInv, SharesInv
<1>20. ~built'
  BY <1>2, <1>12 DEF TableInv
<1> QED
  BY <1>13, <1>16, <1>17, <1>19, <1>20 DEF TableInv

(* Once one of the stacks is empty, what is left of every share on the     *)
(* other one is one slot's worth: nothing is left over or missing.         *)
LEMMA NothingOver ==
  ASSUME TableInv, Fill, sum # 0, NEW s \in Unsettled
  PROVE  P[s] = sum
<1>1. TableTypeOK /\ StacksInv /\ Total(Excess) = 0
  BY DEF TableInv, Balanced, Fill
<1>2. sum \in Int /\ N \in Nat /\ Slot = 1 .. N /\ Excess \in [1 .. N -> Int]
  BY <1>1, TableSums
<1>3. \A k \in Range(S) \cup Range(L) : k \in Slot
  <2>1. S \in Seq(Slot) /\ L \in Seq(Slot)
    BY ZenonT(30), <1>1 DEF TableTypeOK
  <2> QED
    BY <2>1 DEF Range
<1>4. Unsettled = Range(S) \cup Range(L) /\ s \in 1 .. N
  <2>1. 1 .. left = {}
    BY DEF Fill
  <2> QED
    BY <1>2, <1>3, <2>1 DEF Unsettled
<1>5. \A k \in 1 .. N : Excess[k] = IF k \in Unsettled THEN P[k] - sum ELSE 0
  BY <1>2 DEF Excess
<1>6. \A k \in 1 .. N : P[k] \in Int
  BY <1>1, <1>2 DEF TableTypeOK
<1>7. CASE S = <<>>
  <2>1. ASSUME NEW k \in Unsettled PROVE P[k] >= sum
    <3>1. Range(S) = {}
      BY <1>7 DEF Range
    <3> QED
      BY <1>1, <1>4, <3>1 DEF StacksInv
  <2>2. \A k \in 1 .. N : Excess[k] >= 0
    <3> TAKE k \in 1 .. N
    <3>1. CASE k \in Unsettled
      <4>1. Excess[k] = P[k] - sum /\ P[k] >= sum /\ P[k] \in Int
        BY ZenonT(30), <1>5, <1>6, <2>1, <3>1
      <4> QED
        BY <1>2, <4>1
    <3>2. CASE k \notin Unsettled
      <4>1. Excess[k] = 0
        BY ZenonT(30), <1>5, <3>2
      <4> QED
        BY <4>1
    <3> QED
      BY <3>1, <3>2
  <2>3. Excess[s] = 0
    BY ZenonT(30), <1>1, <1>2, <1>4, <2>2, TotalIsZero
  <2> QED
    BY <1>2, <1>4, <1>5, <1>6, <2>3
<1>8. CASE L = <<>>
  <2>1. ASSUME NEW k \in Unsettled PROVE P[k] < sum
    <3>1. Range(L) = {}
      BY <1>8 DEF Range
    <3> QED
      BY <1>1, <1>4, <3>1 DEF StacksInv
  <2> DEFINE h == [k \in 1 .. N |-> Excess[k] * (-1) - 0]
  <2>2. \A k \in 1 .. N : h[k] = Excess[k] * (-1) - 0
    OBVIOUS
  <2>3. h \in [1 .. N -> Int]
    BY <1>2
  <2> HIDE DEF h
  <2>4. \A k \in 1 .. N : h[k] >= 0
    <3>1. \A k \in 1 .. N : Excess[k] \in Int /\ Excess[k] <= 0
      <4> TAKE k \in 1 .. N
      <4>1. CASE k \in Unsettled
        <5>1. Excess[k] = P[k] - sum /\ P[k] < sum /\ P[k] \in Int
          BY ZenonT(30), <1>5, <1>6, <2>1, <4>1
        <5> QED
          BY <1>2, <5>1
      <4>2. CASE k \notin Unsettled
        <5>1. Excess[k] = 0
          BY ZenonT(30), <1>5, <4>2
        <5> QED
          BY <5>1
      <4> QED
        BY <4>1, <4>2
    <3>2. \A x \in Int : x <= 0 => x * (-1) - 0 >= 0
      OBVIOUS
    <3> QED
      BY <2>2, <3>1, <3>2
  <2>5. Total(h) = Total(Excess) * (-1) - N * 0
    <3>1. (-1) \in Int /\ 0 \in Int
      OBVIOUS
    <3> QED
      BY ZenonT(30), <1>2, <2>2, <2>3, <3>1, TotalOfMultiples
  <2>6. Total(h) = 0
    BY <1>1, <1>2, <2>5
  <2>7. h[s] = 0
    BY ZenonT(30), <1>2, <1>4, <2>3, <2>4, <2>6, TotalIsZero
  <2>8. Excess[s] = 0
    <3>1. \A x \in Int : x * (-1) - 0 = 0 => x = 0
      OBVIOUS
    <3> QED
      BY <1>2, <1>4, <2>2, <2>7, <3>1
  <2> QED
    BY <1>2, <1>4, <1>5, <1>6, <2>8
<1> QED
  BY <1>7, <1>8 DEF Fill

(* The last two loops: what is left fills its slot alone.                  *)
LEMMA FillInv ==
  ASSUME TableInv, Fill
  PROVE  TableInv'
<1>1. /\ left = 0 /\ ~built /\ built' /\ S' = <<>> /\ L' = <<>>
      /\ left' = left /\ weight' = weight /\ P' = P /\ alias' = alias
      /\ prob' = [s \in Slot |-> IF s \in Range(S) \cup Range(L) THEN One ELSE prob[s]]
  BY DEF Fill
<1>2. N' = N /\ Slot' = Slot /\ sum' = sum
  BY <1>1 DEF N, Slot, sum
<1>3. TableTypeOK /\ StacksInv
  BY DEF TableInv
<1>4. sum \in Int /\ N \in Nat /\ Slot = 1 .. N /\ One \in Int
  BY <1>3, TableSums DEF One
<1>5. Range(S') = {} /\ Range(L') = {} /\ 1 .. left = {} /\ 1 .. left' = {}
  BY <1>1 DEF Range
<1>6. Unsettled' = {} /\ Unsettled = Range(S) \cup Range(L)
  BY <1>5 DEF Unsettled
<1>7. TableTypeOK'
  <2>1. prob' \in [Slot -> Int]
    BY <1>1, <1>3, <1>4 DEF TableTypeOK
  <2>2. S' \in Seq(Slot) /\ L' \in Seq(Slot)
    BY <1>1
  <2> QED
    BY <1>1, <1>2, <1>3, <2>1, <2>2 DEF TableTypeOK
<1>8. StacksInv'
  <2>1. Distinct(<<>>)
    BY DEF Distinct
  <2> QED
    BY <1>1, <1>5, <2>1 DEF StacksInv
<1>9. SharesInv'
  <2> SUFFICES ASSUME sum # 0, NEW i \in Slot
               PROVE  Total(Drawn(i)') = weight[i] * N
    BY <1>1, <1>2 DEF SharesInv
  <2>1. ASSUME NEW s \in Slot
        PROVE  Drawn(i)'[s] = Drawn(i)[s]
    <3>1. Drawn(i)'[s] = (IF s = i THEN prob'[s] ELSE 0)
                           + (IF alias[s] = i THEN sum - prob'[s] ELSE 0)
      BY <1>1, <1>2, <1>6 DEF Drawn
    <3>2. prob[s] \in Int /\ P[s] \in Int
      BY <1>3 DEF TableTypeOK
    <3>3. CASE s \in Unsettled
      <4>1. P[s] = sum
        BY <3>3, NothingOver
      <4>2. prob'[s] = sum
        BY <1>1, <1>6, <3>3 DEF One
      <4>3. Drawn(i)[s] = IF s = i THEN P[s] ELSE 0
        BY <3>3 DEF Drawn
      <4> QED
        BY <1>4, <3>1, <4>1, <4>2, <4>3
    <3>4. CASE s \notin Unsettled
      <4>1. prob'[s] = prob[s]
        BY <1>1, <1>6, <3>4
      <4> QED
        BY <3>1, <3>4, <4>1 DEF Drawn
    <3> QED
      BY <3>3, <3>4
  <2>2. Drawn(i)' = Drawn(i)
    <3>1. Drawn(i)' \in [1 .. N -> Int] /\ Drawn(i) \in [1 .. N -> Int]
      BY <1>2, <1>3, <1>7, TableSums, TableSumsNext
    <3> QED
      BY <1>4, <2>1, <3>1
  <2> QED
    BY <2>2 DEF TableInv, SharesInv
<1> QED
  BY <1>1, <1>6, <1>7, <1>8, <1>9 DEF TableInv, Balanced

(* A step that changes nothing keeps the invariant.                        *)
LEMMA TableStands ==
  ASSUME TableInv, UNCHANGED tableVars
  PROVE  TableInv'
<1>1. /\ built' = built /\ weight' = weight /\ left' = left /\ P' = P
      /\ S' = S /\ L' = L /\ prob' = prob /\ alias' = alias
  BY DEF tableVars
<1>2. N' = N /\ Slot' = Slot /\ sum' = sum /\ Unsettled' = Unsettled
  BY <1>1 DEF N, Slot, sum, Unsettled
<1>3. Excess' = Excess /\ \A i : Drawn(i)' = Drawn(i)
  BY <1>1, <1>2 DEF Excess, Drawn
<1>4. TableTypeOK' /\ StacksInv'
  BY <1>1, <1>2 DEF TableInv, TableTypeOK, StacksInv
<1>5. Balanced' /\ SharesInv'
  BY <1>1, <1>2, <1>3 DEF TableInv, Balanced, SharesInv
<1> QED
  BY <1>1, <1>2, <1>4, <1>5 DEF TableInv

(* create_multi_alias_table: the invariant of its loops.                   *)
THEOREM TableInductive == TableSpec => []TableInv
<1>1. TableInv /\ [TableNext]_tableVars => TableInv'
  <2> SUFFICES ASSUME TableInv, [TableNext]_tableVars PROVE TableInv'
    OBVIOUS
  <2>1. CASE Split
    BY <2>1, SplitInv
  <2>2. CASE Pair
    BY <2>2, PairInv
  <2>3. CASE Fill
    BY <2>3, FillInv
  <2>4. CASE UNCHANGED tableVars
    BY <2>4, TableStands
  <2> QED
    BY <2>1, <2>2, <2>3, <2>4 DEF TableNext, TableDone
<1> QED
  BY <1>1, TableInitInv, PTL DEF TableSpec

(* However many entries there are, whatever their weights and however the  *)
(* pairing runs, the finished table draws each entry in proportion to its  *)
(* weight.                                                                 *)
THEOREM TableIsProportional == TableSpec => []Proportional
<1>1. TableInv => Proportional
  <2> SUFFICES ASSUME TableInv, built, sum # 0, NEW i \in Slot
               PROVE  Chance(i) = weight[i] * N
    BY DEF Proportional
  <2>1. Unsettled = {} /\ One = sum
    BY DEF TableInv, One
  <2>2. Chance(i) = Total(Drawn(i))
    BY <2>1 DEF Chance, Drawn
  <2> QED
    BY <2>2 DEF TableInv, SharesInv
<1> QED
  BY <1>1, TableInductive, PTL

-----------------------------------------------------------------------------
(* Constraints on arguments                                                *)

(* As many values as there are, and what is compared, are whole numbers.   *)
LEMMA ValuesArePositive ==
  ASSUME NEW ty, Width(ty) \in {1, 2, 4, 8}
  PROVE  Values(ty) \in Nat \ {0}
<1>1. Base \in Nat \ {0} /\ Width(ty) \in Nat
  BY BaseAssumption
<1> QED
  BY <1>1, PowerIsPositive DEF Values

(* What is compared is a whole number.                                     *)
LEMMA KeyIsInteger ==
  ASSUME NEW ty, Values(ty) \in Nat \ {0}, NEW r, NEW x \in Int
  PROVE  Key(r, ty, x) \in Int
<1>1. ASSUME NEW n \in Nat \ {0} PROVE AsSigned(x, n) \in Int
  BY DEF AsSigned
<1> QED
  BY <1>1 DEF Key

(* A bound is a number of the width that is compared.                      *)
LEMMA BoundIsNatural ==
  ASSUME NEW ty, Values(ty) \in Nat \ {0}, NEW r, r.rhs \in Int
  PROVE  Bound(r, ty) \in Nat
BY DEF Bound

(* If one rule moves a value to its bound, a rule that the value satisfied *)
(* before is still satisfied, as long as some value z satisfies both.      *)
LEMMA CoercionKeeps ==
  ASSUME NEW ty, Values(ty) \in Nat \ {0}, NEW r, NEW s, r.rhs \in Int, s.rhs \in Int,
         r.c.signed = s.c.signed, NEW x \in Int, NEW z \in Int,
         Compares(s, ty, x), ~Compares(r, ty, x), Compares(r, ty, z), Compares(s, ty, z)
  PROVE  Compares(s, ty, Bound(r, ty))
<1>1. Bound(r, ty) \in Int /\ Bound(s, ty) \in Int
  BY BoundIsNatural
<1>2. \A y : Key(s, ty, y) = Key(r, ty, y)
  BY DEF Key
<1>3. PICK kx, kz, kr, ks \in Int :
        /\ kx = Key(r, ty, x) /\ kz = Key(r, ty, z)
        /\ kr = Key(r, ty, Bound(r, ty)) /\ ks = Key(r, ty, Bound(s, ty))
  <2>1. \A y \in Int : Key(r, ty, y) \in Int
    BY KeyIsInteger
  <2> QED
    BY <1>1, <2>1
<1>4. /\ s.c.rel # "ge" => kx <= ks /\ kz <= ks
      /\ s.c.rel # "le" => kx >= ks /\ kz >= ks
  BY <1>2, <1>3 DEF Compares
<1>5. /\ r.c.rel # "ge" => kz <= kr
      /\ r.c.rel # "le" => kz >= kr
      /\ (r.c.rel # "ge" /\ kx > kr) \/ (r.c.rel # "le" /\ kx < kr)
  <2>1. (r.c.rel # "ge" => kz <= kr) /\ (r.c.rel # "le" => kz >= kr)
    BY <1>3 DEF Compares
  <2>2. ~((r.c.rel # "ge" => kx <= kr) /\ (r.c.rel # "le" => kx >= kr))
    BY <1>3 DEF Compares
  <2>3. (kx <= kr \/ kx > kr) /\ (kx >= kr \/ kx < kr)
    BY <1>3
  <2> QED
    BY ZenonT(30), <2>1, <2>2, <2>3
<1>6. (s.c.rel # "ge" => kr <= ks) /\ (s.c.rel # "le" => kr >= ks)
  BY <1>4, <1>5
<1> QED
  BY <1>2, <1>3, <1>6 DEF Compares

(* Rules with whole numbers on their right-hand sides.                     *)
AreRules(rules) ==
  /\ Len(rules) \in Nat /\ DOMAIN rules = 1 .. Len(rules)
  /\ \A k \in DOMAIN rules : rules[k].on => rules[k].rhs \in Int

(* What a number becomes as one rule after the other is applied to it.     *)
Coercions(p, rules, ty, x) ==
  /\ ConstrainAll(rules, ty, x) = p[Len(rules)]
  /\ \A k \in 0 .. Len(rules) : p[k] \in Nat
  /\ \A k \in 1 .. Len(rules) :
       p[k] = IF rules[k].on THEN Constrain(rules[k], ty, p[k - 1]) ELSE p[k - 1]

(* Rules make a number of a number.                                        *)
LEMMA ConstrainAllTrace ==
  ASSUME NEW rules, AreRules(rules), NEW ty, Values(ty) \in Nat \ {0}, NEW x \in Nat
  PROVE  ConstrainAll(rules, ty, x) \in Nat /\ \E p : Coercions(p, rules, ty, x)
<1> DEFINE m == Len(rules)
           g == [k \in DOMAIN rules |->
                  [y \in Int |-> IF rules[k].on THEN Constrain(rules[k], ty, y) ELSE y]]
           p == Trace(g, x, m)
<1>1. m \in Nat /\ DOMAIN rules = 1 .. m
  BY DEF AreRules
<1>2. ConstrainAll(rules, ty, x) = Iterate(g, x, m)
  BY DEF ConstrainAll
<1>3. \A k \in 1 .. m : \A y \in Nat :
        g[k][y] = IF rules[k].on THEN Constrain(rules[k], ty, y) ELSE y
  BY <1>1
<1>4. \A k \in 1 .. m : \A y \in Nat :
        (IF rules[k].on THEN Constrain(rules[k], ty, y) ELSE y) \in Nat
  <2>1. ASSUME NEW k \in 1 .. m, NEW y \in Nat, rules[k].on
        PROVE  Constrain(rules[k], ty, y) \in Nat
    <3>1. Bound(rules[k], ty) \in Nat
      BY <1>1, <2>1, BoundIsNatural DEF AreRules
    <3> QED
      BY <3>1 DEF Constrain
  <2> QED
    BY <2>1
<1> HIDE DEF g, m
<1>5. Within(g, x, m, Nat)
  <2>1. ASSUME NEW k \in 1 .. m, NEW y \in Nat PROVE g[k][y] \in Nat
    <3>1. g[k][y] = IF rules[k].on THEN Constrain(rules[k], ty, y) ELSE y
      BY ZenonT(30), <1>3
    <3>2. (IF rules[k].on THEN Constrain(rules[k], ty, y) ELSE y) \in Nat
      BY ZenonT(30), <1>4
    <3> QED
      BY ZenonT(30), <3>1, <3>2
  <2> QED
    BY ZenonT(30), <1>1, <2>1 DEF Within
<1>6. /\ \A k \in 1 .. m : p[k] = g[k][p[k - 1]]
      /\ \A k \in 0 .. m : p[k] \in Nat
      /\ Iterate(g, x, m) \in Nat
  BY <1>5, TraceStep
<1>7. ConstrainAll(rules, ty, x) = p[m]
  BY <1>2 DEF Iterate
<1> HIDE DEF p
<1>8. \A k \in 1 .. m : p[k] = IF rules[k].on THEN Constrain(rules[k], ty, p[k - 1]) ELSE p[k - 1]
  <2>1. \A k \in 1 .. m : p[k - 1] \in Nat
    BY <1>1, <1>6
  <2> QED
    BY <1>3, <1>6, <2>1
<1>9. Coercions(p, rules, ty, x)
  BY <1>6, <1>7, <1>8 DEF Coercions, m
<1> QED
  BY <1>2, <1>6, <1>9

(* Rules of one kind that some value satisfies.                            *)
AreJoint(rules, ty) ==
  /\ \A j, k \in DOMAIN rules : rules[j].on /\ rules[k].on => rules[j].c.signed = rules[k].c.signed
  /\ \E z \in Nat : \A k \in DOMAIN rules : rules[k].on => Compares(rules[k], ty, z)

(* They are satisfied by what they make of any number: none undoes what    *)
(* the ones before it have achieved.                                       *)
LEMMA AllAreSatisfied ==
  ASSUME NEW rules, AreRules(rules), NEW ty, Values(ty) \in Nat \ {0}, NEW x \in Nat,
         AreJoint(rules, ty)
  PROVE  \A k \in DOMAIN rules : rules[k].on => Compares(rules[k], ty, ConstrainAll(rules, ty, x))
<1> DEFINE m == Len(rules)
<1>1. m \in Nat /\ DOMAIN rules = 1 .. m
  BY DEF AreRules
<1>2. PICK p : /\ ConstrainAll(rules, ty, x) = p[m]
               /\ \A k \in 0 .. m : p[k] \in Nat
               /\ \A k \in 1 .. m :
                    p[k] = IF rules[k].on THEN Constrain(rules[k], ty, p[k - 1]) ELSE p[k - 1]
  <2>1. \E p : Coercions(p, rules, ty, x)
    BY ConstrainAllTrace
  <2> QED
    BY <2>1 DEF Coercions
<1>3. PICK z \in Nat : \A k \in 1 .. m : rules[k].on => Compares(rules[k], ty, z)
  BY <1>1 DEF AreJoint
<1> DEFINE A == {k \in Nat : k <= m =>
                   \A j \in 1 .. k : rules[j].on => Compares(rules[j], ty, p[k])}
<1> HIDE DEF m
<1>4. 0 \in A
  OBVIOUS
<1>5. ASSUME NEW k \in Nat, k \in A PROVE k + 1 \in A
  <2> SUFFICES ASSUME k + 1 <= m, NEW j \in 1 .. k + 1, rules[j].on
               PROVE  Compares(rules[j], ty, p[k + 1])
    OBVIOUS
  <2>1. /\ k + 1 \in 1 .. m /\ j \in 1 .. m /\ k \in 0 .. m /\ p[k] \in Nat
        /\ p[k + 1] = IF rules[k + 1].on THEN Constrain(rules[k + 1], ty, p[k]) ELSE p[k]
    BY <1>1, <1>2
  <2>2. j # k + 1 => Compares(rules[j], ty, p[k])
    BY <1>1, <1>5
  <2> HIDE DEF A
  <2>3. CASE ~rules[k + 1].on
    BY <2>1, <2>2, <2>3
  <2>4. CASE rules[k + 1].on /\ Compares(rules[k + 1], ty, p[k])
    BY <2>1, <2>2, <2>4 DEF Constrain
  <2>5. CASE rules[k + 1].on /\ ~Compares(rules[k + 1], ty, p[k])
    <3>1. p[k + 1] = Bound(rules[k + 1], ty)
      BY <2>1, <2>5 DEF Constrain
    <3>2. PICK r, s : r = rules[k + 1] /\ s = rules[j]
      OBVIOUS
    <3>3. r.rhs \in Int /\ s.rhs \in Int /\ r.c.signed = s.c.signed
      BY <1>1, <2>1, <2>5, <3>2 DEF AreRules, AreJoint
    <3>4. Compares(r, ty, z) /\ Compares(s, ty, z)
      BY <1>3, <2>1, <2>5, <3>2
    <3>5. CASE j = k + 1
      <4>1. Bound(r, ty) \in Int
        BY <3>3, BoundIsNatural
      <4>2. Key(r, ty, Bound(r, ty)) \in Int
        BY <4>1, KeyIsInteger
      <4>3. Compares(r, ty, Bound(r, ty))
        BY <4>2 DEF Compares
      <4> QED
        BY <3>1, <3>2, <3>5, <4>3
    <3>6. CASE j # k + 1
      <4>1. Compares(s, ty, p[k]) /\ ~Compares(r, ty, p[k]) /\ p[k] \in Int /\ z \in Int
        BY <2>1, <2>2, <2>5, <3>2, <3>6
      <4>2. Compares(s, ty, Bound(r, ty))
        BY <3>3, <3>4, <4>1, CoercionKeeps
      <4> QED
        BY <3>1, <3>2, <4>2
    <3> QED
      BY <3>5, <3>6
  <2> QED
    BY <2>3, <2>4, <2>5
<1>6. m \in A
  <2> HIDE DEF A
  <2> QED
    BY <1>1, <1>4, <1>5, Induction
<1> QED
  BY <1>1, <1>2, <1>6

(* Bytes make a number.                                                    *)
LEMMA NumberIsNatural ==
  ASSUME NEW buf \in Seq(Byte), NEW off, NEW w \in {1, 2, 4, 8}
  PROVE  Number(buf, off, w) \in Nat
<1> DEFINE n == IF w = 8 THEN 4 ELSE w
           f == [k \in 1 .. n |->
                   IF off + k \in DOMAIN buf THEN buf[off + k] * Power(Base, k - 1) ELSE 0]
<1>1. n \in Nat /\ Base \in Nat \ {0}
  BY BaseAssumption
<1>2. ASSUME NEW k \in 1 .. n
      PROVE  (IF off + k \in DOMAIN buf THEN buf[off + k] * Power(Base, k - 1) ELSE 0) \in Nat
  <2>1. k - 1 \in Nat
    BY <1>1
  <2>2. Power(Base, k - 1) \in Nat
    BY <1>1, <2>1, PowerIsPositive
  <2>3. ASSUME NEW j \in DOMAIN buf PROVE buf[j] \in Nat
    BY <1>1 DEF Byte
  <2>4. \A a, b \in Nat : a * b \in Nat
    OBVIOUS
  <2> QED
    BY <2>2, <2>3, <2>4
<1>3. f \in [1 .. n -> Nat]
  BY <1>2
<1>4. Number(buf, off, w) = Total(f)
  BY DEF Number
<1> HIDE DEF f, n
<1> QED
  BY <1>1, <1>3, <1>4, TotalIsNatural

(* The length of a string is a number.                                     *)
LEMMA StrLenIsInteger ==
  ASSUME NEW v, Len(v) \in Nat, DOMAIN v = 1 .. Len(v)
  PROVE  StrLen(v) \in Int
<1> DEFINE zeros == {i \in DOMAIN v : v[i] = 0}
<1>1. zeros \in SUBSET Nat
  OBVIOUS
<1>2. StrLen(v) = IF zeros = {} THEN Len(v) ELSE (CHOOSE i \in zeros : \A j \in zeros : i <= j) - 1
  BY DEF StrLen
<1> HIDE DEF zeros
<1>3. CASE zeros = {}
  BY <1>2, <1>3
<1>4. CASE zeros # {}
  <2>1. \E i \in zeros : \A j \in zeros : i <= j
    BY <1>1, <1>4, LeastElement
  <2>2. PICK i \in zeros : i = CHOOSE k \in zeros : \A j \in zeros : k <= j
    BY <2>1
  <2>3. StrLen(v) = i - 1 /\ i \in Nat
    BY <1>1, <1>2, <1>4, <2>2
  <2> QED
    BY <2>3
<1> QED
  BY <1>3, <1>4

(* Every integer argument is a number.                                     *)
Numeric(t, mem) == \A i \in Args(t) : IsInt(ArgType(t, i)) => mem[i] \in Nat

(* A constraint compares with a number, wherever that comes from.          *)
LEMMA RhsIsInteger ==
  ASSUME NEW t \in Targets, NEW k \in DOMAIN t.constraints, Relates(t.constraints[k]),
         NEW mem, Numeric(t, mem), NEW call \in Calls(t)
  PROVE  Rhs(t, t.constraints[k], mem, call) \in Int
<1> DEFINE c == t.constraints[k]
<1>1. /\ c.lhs \in Args(t) /\ (IsInt(ArgType(t, c.lhs)) \/ IsPtr(ArgType(t, c.lhs)))
      /\ c.rhs.from \in {"arg", "rec", "constant"}
      /\ c.rhs.from = "constant" => c.rhs.val \in Nat
      /\ c.rhs.from = "arg" => c.rhs.val \in Args(t) /\ IsInt(ArgType(t, c.rhs.val))
  BY TargetAssumption
<1> HIDE DEF c
<1>2. CASE c.rhs.from = "arg"
  <2>1. Rhs(t, c, mem, call) = mem[c.rhs.val]
    BY <1>2 DEF Rhs
  <2> QED
    BY <1>1, <1>2, <2>1 DEF Numeric, c
<1>3. CASE c.rhs.from = "rec"
  <2>1. Rhs(t, c, mem, call) = RecordedValue(ArgType(t, c.lhs), call[c.lhs])
    BY <1>3 DEF Rhs
  <2>2. CASE IsPtr(ArgType(t, c.lhs))
    <3>1. call[c.lhs] # NULL => StrLen(call[c.lhs]) \in Int
      BY <1>1, <2>2, CallAssumption, StrLenIsInteger
    <3> QED
      BY <2>1, <2>2, <3>1 DEF RecordedValue, c
  <2>3. CASE ~IsPtr(ArgType(t, c.lhs))
    <3>1. call[c.lhs] \in Nat
      BY <1>1, <2>3, CallAssumption
    <3> QED
      BY <2>1, <2>3, <3>1 DEF RecordedValue, c
  <2> QED
    BY <2>2, <2>3
<1>4. CASE c.rhs.from = "constant"
  <2>1. Rhs(t, c, mem, call) = c.rhs.val
    BY <1>4 DEF Rhs
  <2> QED
    BY <1>1, <1>4, <2>1 DEF c
<1> QED
  BY <1>1, <1>2, <1>3, <1>4

(* The rules of an argument are as many as there are constraints ...       *)
LEMMA RulesOf ==
  ASSUME NEW t \in Targets, NEW i, NEW mem, NEW call
  PROVE  /\ DOMAIN Rules(t, i, mem, call) = DOMAIN t.constraints
         /\ Len(Rules(t, i, mem, call)) \in Nat
         /\ DOMAIN t.constraints = 1 .. Len(Rules(t, i, mem, call))
<1>1. DOMAIN t.constraints = 1 .. Len(t.constraints) /\ Len(t.constraints) \in Nat
  BY TargetAssumption
<1>2. DOMAIN Rules(t, i, mem, call) = DOMAIN t.constraints
  BY DEF Rules
<1>3. Len(Rules(t, i, mem, call)) = Len(t.constraints)
  BY <1>1 DEF Rules
<1> QED
  BY <1>1, <1>2, <1>3

(* ... and those that are on the argument say what the constraint says.    *)
LEMMA RuleOf ==
  ASSUME NEW t \in Targets, NEW i, NEW mem, NEW call, NEW k \in DOMAIN t.constraints,
         Rules(t, i, mem, call)[k].on
  PROVE  /\ Rules(t, i, mem, call)[k].c = t.constraints[k]
         /\ t.constraints[k].lhs = i /\ Relates(t.constraints[k])
         /\ Rules(t, i, mem, call)[k].rhs = Rhs(t, t.constraints[k], mem, call)
BY DEF Rules

(* They compare with numbers.                                              *)
LEMMA RulesAreRules ==
  ASSUME NEW t \in Targets, NEW i, NEW mem, Numeric(t, mem), NEW call \in Calls(t)
  PROVE  AreRules(Rules(t, i, mem, call))
<1> DEFINE rules == Rules(t, i, mem, call)
<1>1. ASSUME NEW k \in DOMAIN rules, rules[k].on PROVE rules[k].rhs \in Int
  <2>1. k \in DOMAIN t.constraints
    BY RulesOf
  <2>2. Relates(t.constraints[k]) /\ rules[k].rhs = Rhs(t, t.constraints[k], mem, call)
    BY <1>1, <2>1, RuleOf
  <2> QED
    BY <2>1, <2>2, RhsIsInteger
<1>2. Len(rules) \in Nat /\ DOMAIN rules = 1 .. Len(rules)
  BY RulesOf
<1> QED
  BY <1>1, <1>2 DEF AreRules

(* What the rules of an argument are about has a width.                    *)
LEMMA SubjectHasWidth ==
  ASSUME NEW t \in Targets, NEW i \in Args(t), IsInt(Subject(t, i)) \/ IsPtr(Subject(t, i))
  PROVE  /\ Values(Subject(t, i)) \in Nat \ {0}
         /\ Deref(t, i) => IsPtr(ArgType(t, i))
         /\ IsInt(Subject(t, i)) => Subject(t, i).size \in {1, 2, 4, 8}
<1>1. Deref(t, i) => IsPtr(ArgType(t, i))
  BY TargetAssumption DEF Deref
<1>2. PICK name \in DOMAIN TypeInfo : Subject(t, i) = Type(name)
  <2>1. t.types[i] \in DOMAIN TypeInfo
    BY TargetAssumption DEF Args
  <2>2. IsPtr(ArgType(t, i)) => ArgType(t, i).to \in DOMAIN TypeInfo
    BY <2>1, TypeAssumption DEF ArgType
  <2> QED
    BY <1>1, <2>1, <2>2 DEF Subject, ArgType
<1>3. IsInt(Subject(t, i)) => Subject(t, i).size \in {1, 2, 4, 8}
  BY <1>2, TypeAssumption
<1>4. Width(Subject(t, i)) \in {1, 2, 4, 8}
  BY <1>3 DEF Width
<1> QED
  BY <1>1, <1>3, <1>4, ValuesArePositive

(* An argument comes out of its rules: an integer, the length of a pointer,*)
(* or the integer behind it.                                               *)
Populated(t, i, rules, v) ==
  IF Deref(t, i) THEN IsInt(Subject(t, i)) =>
                        \E n \in Nat : v = <<ConstrainAll(rules, Subject(t, i), n)>>
  ELSE /\ IsInt(ArgType(t, i)) => \E n \in Nat : v = ConstrainAll(rules, ArgType(t, i), n)
       /\ IsPtr(ArgType(t, i)) => \E n \in Nat : Len(v) = ConstrainAll(rules, ArgType(t, i), n)

(* What populate makes of an argument, whatever the test case, does.       *)
LEMMA PopulatedFromRules ==
  ASSUME NEW t \in Targets, NEW i \in Args(t), IsInt(Subject(t, i)) \/ IsPtr(Subject(t, i)),
         NEW rules, AreRules(rules), NEW off, NEW buf \in Seq(Byte), NEW rest
  PROVE  Populated(t, i, rules, Populate(t, i, off, rules, buf, rest).val)
<1> DEFINE inner == PopulateInner(buf, rest)
           ty == Subject(t, i)
<1> HIDE DEF inner
<1>1. /\ Deref(t, i) => IsPtr(ArgType(t, i)) /\ Type(ArgType(t, i).to) = ty
      /\ ~Deref(t, i) => ArgType(t, i) = ty /\ Type(t.types[i]) = ty
  BY SubjectHasWidth DEF Subject, ArgType
<1>2. ASSUME NEW name, Type(name) = ty, IsInt(ty), NEW o
      PROVE  \E n \in Nat : PopulateOne(name, o, rules, buf, rest, inner).val = ConstrainAll(rules, ty, n)
  <2>1. Number(buf, o, ty.size) \in Nat
    BY <1>2, NumberIsNatural, SubjectHasWidth
  <2>2. PICK v, after : /\ v = ConstrainAll(rules, ty, Number(buf, o, ty.size))
                        /\ after = After(buf, o, ty.size)
    OBVIOUS
  <2>3. PopulateOne(name, o, rules, buf, rest, inner) = [val |-> v, off |-> after]
    BY <1>2, <2>2 DEF PopulateOne, IsInt, IsPtr
  <2>4. PopulateOne(name, o, rules, buf, rest, inner).val = v
    BY <2>3
  <2> QED
    BY <2>1, <2>2, <2>4
<1>3. ASSUME NEW name, Type(name) = ty, IsPtr(ty), NEW o
      PROVE  \E n \in Nat : Len(PopulateOne(name, o, rules, buf, rest, inner).val)
                              = ConstrainAll(rules, ty, n)
  <2>1. Number(buf, o, 4) \in Nat
    BY NumberIsNatural
  <2>2. PICK n \in Nat : n = ConstrainAll(rules, ty, Number(buf, o, 4))
    BY <2>1, ConstrainAllTrace, SubjectHasWidth
  <2>3. PopulateOne(name, o, rules, buf, rest, inner)
          = PopulatePointer(ty, n, After(buf, o, 4), buf, rest, inner)
    BY <1>3, <2>2 DEF PopulateOne, IsInt, IsPtr
  <2>4. Len(PopulatePointer(ty, n, After(buf, o, 4), buf, rest, inner).val) = n
    <3>1. CASE IsInt(Type(ty.to))
      BY <3>1 DEF PopulatePointer
    <3>2. CASE ~IsInt(Type(ty.to))
      <4>1. PICK names : names = [k \in 1 .. n |-> ty.to]
        OBVIOUS
      <4>2. DOMAIN names = 1 .. n
        BY <4>1
      <4>3. Len(PopulateEach(names, After(buf, o, 4), inner).val) = n
        BY <4>2 DEF PopulateEach
      <4> QED
        BY <3>2, <4>1, <4>3 DEF PopulatePointer
    <3> QED
      BY <3>1, <3>2
  <2> QED
    BY <2>1, <2>2, <2>3, <2>4
<1>4. CASE Deref(t, i)
  <2>1. Populate(t, i, off, rules, buf, rest).val
          = <<PopulateOne(ArgType(t, i).to, After(buf, off, 4), rules, buf, rest, inner).val>>
    BY <1>4 DEF Populate, inner
  <2>2. ASSUME IsInt(ty)
        PROVE  \E n \in Nat : Populate(t, i, off, rules, buf, rest).val = <<ConstrainAll(rules, ty, n)>>
    BY <1>1, <1>2, <1>4, <2>1, <2>2
  <2> QED
    BY <1>4, <2>2 DEF Populated
<1>5. CASE ~Deref(t, i)
  <2>1. Populate(t, i, off, rules, buf, rest)
          = PopulateOne(t.types[i], off, rules, buf, rest, inner)
    BY <1>5 DEF Populate, inner
  <2>2. PICK v : v = Populate(t, i, off, rules, buf, rest).val
    OBVIOUS
  <2>3. IsInt(ty) => \E n \in Nat : v = ConstrainAll(rules, ty, n)
    BY ZenonT(30), <1>1, <1>2, <1>5, <2>1, <2>2
  <2>4. IsPtr(ty) => \E n \in Nat : Len(v) = ConstrainAll(rules, ty, n)
    BY ZenonT(30), <1>1, <1>3, <1>5, <2>1, <2>2
  <2> QED
    BY ZenonT(30), <1>1, <1>5, <2>2, <2>3, <2>4 DEF Populated
<1> QED
  BY <1>4, <1>5

(* Any two constraints on an argument are one of its pairs.                *)
LEMMA PairOf ==
  ASSUME NEW t, NEW i, NEW j \in DOMAIN t.constraints, NEW k \in DOMAIN t.constraints,
         t.constraints[j].lhs = i, Relates(t.constraints[j]),
         t.constraints[k].lhs = i, Relates(t.constraints[k])
  PROVE  /\ <<t.constraints[j], t.constraints[k]>> \in Pairs(t, i)
         /\ CompareAlike(t, i) => t.constraints[j].signed = t.constraints[k].signed
         /\ Unmixed(t, i) => t.constraints[j].deref = t.constraints[k].deref
<1>1. <<t.constraints[j], t.constraints[k]>> \in Pairs(t, i)
  BY DEF Pairs
<1>2. PICK p : p = <<t.constraints[j], t.constraints[k]>>
  OBVIOUS
<1>3. p[1] = t.constraints[j] /\ p[2] = t.constraints[k] /\ p \in Pairs(t, i)
  BY <1>1, <1>2
<1>4. CompareAlike(t, i) => t.constraints[j].signed = t.constraints[k].signed
  BY <1>3 DEF CompareAlike
<1>5. Unmixed(t, i) => t.constraints[j].deref = t.constraints[k].deref
  BY <1>3 DEF Unmixed
<1> QED
  BY <1>1, <1>4, <1>5

(* Rules that compare alike and can be satisfied are rules of one kind.    *)
LEMMA RulesAreJoint ==
  ASSUME NEW t \in Targets, NEW i \in Args(t), NEW mem, CompareAlike(t, i),
         Values(Subject(t, i)) \in Nat \ {0}, Satisfiable(t, i, mem)
  PROVE  AreJoint(Rules(t, i, mem, host), Subject(t, i))
<1> DEFINE rules == Rules(t, i, mem, host)
<1>1. DOMAIN rules = DOMAIN t.constraints
  BY RulesOf
<1>2. ASSUME NEW j \in DOMAIN rules, NEW k \in DOMAIN rules, rules[j].on, rules[k].on
      PROVE  rules[j].c.signed = rules[k].c.signed
  <2>1. PICK c, d : c = t.constraints[j] /\ d = t.constraints[k]
    OBVIOUS
  <2>2. ASSUME NEW n \in DOMAIN t.constraints, rules[n].on
        PROVE  /\ rules[n].c = t.constraints[n]
               /\ t.constraints[n].lhs = i /\ Relates(t.constraints[n])
    <3>1. Rules(t, i, mem, host)[n].on
      BY ZenonT(30), <2>2
    <3> HIDE DEF rules
    <3>2. /\ Rules(t, i, mem, host)[n].c = t.constraints[n]
          /\ t.constraints[n].lhs = i /\ Relates(t.constraints[n])
          /\ Rules(t, i, mem, host)[n].rhs = Rhs(t, t.constraints[n], mem, host)
      BY <3>1, RuleOf
    <3> QED
      BY ZenonT(30), <3>2 DEF rules
  <2> HIDE DEF rules
  <2>3. rules[j].c = c /\ c.lhs = i /\ Relates(c) /\ rules[k].c = d /\ d.lhs = i /\ Relates(d)
    BY <1>1, <1>2, <2>1, <2>2
  <2>4. c.signed = d.signed
    <3>1. /\ j \in DOMAIN t.constraints /\ k \in DOMAIN t.constraints
          /\ t.constraints[j].lhs = i /\ Relates(t.constraints[j])
          /\ t.constraints[k].lhs = i /\ Relates(t.constraints[k])
      BY ZenonT(30), <1>1, <2>1, <2>3
    <3>2. t.constraints[j].signed = t.constraints[k].signed
      BY ZenonT(30), <3>1, PairOf
    <3> QED
      BY <2>1, <3>2
  <2> QED
    BY <2>3, <2>4
<1>3. PICK z \in 0 .. Values(Subject(t, i)) - 1 :
        \A k \in DOMAIN rules : rules[k].on => Compares(rules[k], Subject(t, i), z)
  BY <1>1 DEF Satisfiable
<1>4. z \in Nat
  OBVIOUS
<1> QED
  BY <1>2, <1>3, <1>4 DEF AreJoint

(* What an argument is populated with obeys its constraints.               *)
LEMMA PopulatedObeys ==
  ASSUME NEW t \in Targets, NEW i \in Args(t), NEW mem, Numeric(t, mem), host \in Calls(t),
         Coerced(t, i), Unmixed(t, i), CompareAlike(t, i), Satisfiable(t, i, mem),
         NEW v, Populated(t, i, Rules(t, i, mem, host), v)
  PROVE  Obeys(t, i, v, mem)
<1> DEFINE rules == Rules(t, i, mem, host)
           ty == Subject(t, i)
<1>1. /\ IsInt(ty) \/ IsPtr(ty)
      /\ Values(ty) \in Nat \ {0}
      /\ Deref(t, i) => IsPtr(ArgType(t, i))
      /\ ~Deref(t, i) => ty = ArgType(t, i)
  BY SubjectHasWidth DEF Coerced, Subject
<1>2. AreRules(rules) /\ AreJoint(rules, ty)
  BY <1>1, RulesAreRules, RulesAreJoint
<1>3. DOMAIN rules = DOMAIN t.constraints
  BY RulesOf
<1>4. SUFFICES ASSUME NEW k \in DOMAIN rules, rules[k].on PROVE Demands(t, i, rules[k], v)
  BY <1>3 DEF Obeys
<1> HIDE DEF rules, ty
<1>5. \A n \in Nat : Compares(rules[k], ty, ConstrainAll(rules, ty, n))
  BY <1>1, <1>2, <1>4, AllAreSatisfied
<1>6. rules[k].c = t.constraints[k] /\ t.constraints[k].lhs = i /\ Relates(t.constraints[k])
  <2>1. k \in DOMAIN t.constraints /\ Rules(t, i, mem, host)[k].on
    BY ZenonT(30), <1>3, <1>4 DEF rules
  <2>2. /\ Rules(t, i, mem, host)[k].c = t.constraints[k]
        /\ t.constraints[k].lhs = i /\ Relates(t.constraints[k])
        /\ Rules(t, i, mem, host)[k].rhs = Rhs(t, t.constraints[k], mem, host)
    BY <2>1, RuleOf
  <2> QED
    BY ZenonT(30), <2>2 DEF rules
<1>7. CASE Deref(t, i)
  <2>1. rules[k].c.deref
    <3>1. PICK n \in DOMAIN t.constraints :
            t.constraints[n].lhs = i /\ Relates(t.constraints[n]) /\ t.constraints[n].deref
      BY <1>7 DEF Deref
    <3> QED
      BY <1>3, <1>4, <1>6, <3>1, PairOf
  <2>2. ASSUME IsInt(ty), NEW j \in DOMAIN v PROVE Compares(rules[k], ty, v[j])
    <3>1. PICK n \in Nat : v = <<ConstrainAll(rules, ty, n)>>
      BY <1>7, <2>2 DEF Populated, rules, ty
    <3>2. PICK x : x = ConstrainAll(rules, ty, n)
      OBVIOUS
    <3>3. v = <<x>> /\ Compares(rules[k], ty, x)
      BY <1>5, <3>1, <3>2
    <3>4. v[j] = x
      BY <2>2, <3>3
    <3> QED
      BY <3>3, <3>4
  <2> QED
    BY <1>1, <1>7, <2>1, <2>2 DEF Demands, Subject, ty
<1>8. CASE ~Deref(t, i) /\ IsPtr(ArgType(t, i))
  <2>1. PICK n \in Nat : Len(v) = ConstrainAll(rules, ty, n)
    BY <1>1, <1>8 DEF Populated, rules
  <2>2. Compares(rules[k], ty, Len(v))
    BY <1>5, <2>1
  <2>3. ~rules[k].c.deref
    BY <1>3, <1>4, <1>6, <1>8 DEF Deref
  <2> QED
    BY <1>1, <1>8, <2>2, <2>3 DEF Demands
<1>9. CASE ~Deref(t, i) /\ ~IsPtr(ArgType(t, i))
  <2>1. IsInt(ArgType(t, i))
    BY <1>1, <1>9
  <2>2. PICK n \in Nat : v = ConstrainAll(rules, ty, n)
    BY <1>1, <1>9, <2>1 DEF Populated, rules
  <2>3. Compares(rules[k], ty, v)
    BY <1>5, <2>2
  <2> QED
    BY <1>1, <1>9, <2>3 DEF Demands
<1> QED
  BY <1>7, <1>8, <1>9

(* No constraint on argument i refers to argument j.                       *)
Independent(t, i, j) ==
  \A k \in DOMAIN t.constraints : LET c == t.constraints[k] IN
    c.lhs = i /\ HasRhsArg(c) => c.rhs.val # j

(* Then the rules of i do not depend on what j holds.                      *)
LEMMA RulesAreStable ==
  ASSUME NEW t \in Targets, NEW i, NEW j, Independent(t, i, j),
         NEW mem, NEW now, \A a \in Args(t) : a # j => now[a] = mem[a], NEW call
  PROVE  Rules(t, i, now, call) = Rules(t, i, mem, call)
<1>1. ASSUME NEW k \in DOMAIN t.constraints, NEW c, c = t.constraints[k], c.lhs = i, Relates(c)
      PROVE  Rhs(t, c, now, call) = Rhs(t, c, mem, call)
  <2>1. CASE c.rhs.from = "arg"
    <3>1. c.rhs.val # j /\ c.rhs.val \in Args(t)
      BY <1>1, <2>1, TargetAssumption DEF Independent, HasRhsArg
    <3>2. now[c.rhs.val] = mem[c.rhs.val]
      BY <3>1
    <3> QED
      BY <2>1, <3>2 DEF Rhs
  <2>2. CASE c.rhs.from # "arg"
    <3>1. c.rhs.from = "rec" \/ c.rhs.from = "constant"
      BY <1>1, <2>2, TargetAssumption
    <3> QED
      BY <3>1 DEF Rhs
  <2> QED
    BY <2>1, <2>2
<1> QED
  BY <1>1 DEF Rules

(* An argument that is visited later is not referred to.                   *)
LEMMA LaterIsIndependent ==
  ASSUME NEW t \in Targets, NEW k \in DOMAIN Order(t), NEW m \in DOMAIN Order(t), k <= m
  PROVE  Independent(t, Order(t)[k], Order(t)[m])
<1> SUFFICES ASSUME NEW n \in DOMAIN t.constraints, t.constraints[n].lhs = Order(t)[k],
                    HasRhsArg(t.constraints[n]), t.constraints[n].rhs.val = Order(t)[m]
             PROVE  FALSE
  BY DEF Independent
<1>1. PICK l \in DOMAIN Order(t) : m < l /\ Order(t)[l] = Order(t)[k]
  BY OrderAssumption
<1>2. l = k
  BY <1>1, OrderAssumption
<1>3. k \in Int /\ m \in Int
  BY OrderAssumption
<1> QED
  BY <1>1, <1>2, <1>3

(* What holds of an argument once it has been replaced.                    *)
Settled(i) ==
  Coerced(target, i) /\ Unmixed(target, i) /\ CompareAlike(target, i)
    /\ Satisfiable(target, i, args)
  => Obeys(target, i, args[i], args)

(* The inductive invariant: the arguments visited so far are settled, and  *)
(* stay so because no later one is referred to by their constraints.  None *)
(* are visited if the constraints are cyclic.                              *)
ArgumentsInv ==
  /\ target \in Targets /\ host \in Calls(target) /\ order = Order(target)
  /\ round \in {"record", "fuzz", "done", "crashed"} /\ visited \in 0 .. Len(order)
  /\ DOMAIN args = Args(target) /\ Numeric(target, args)
  /\ round # "record" => buffer \in Seq(Byte) /\ \A k \in 1 .. visited : Settled(order[k])
  /\ round = "done" => visited = Len(order) /\ ~Cyclic(target)

(* What the arguments of a call are like.                                  *)
LEMMA CallsAreNumeric ==
  ASSUME NEW t \in Targets, NEW call \in Calls(t)
  PROVE  DOMAIN call = Args(t) /\ Numeric(t, call)
BY CallAssumption DEF Numeric

(* There are as many arguments to visit as the order has.                  *)
LEMMA OrderOfArguments ==
  ASSUME NEW t \in Targets
  PROVE  /\ Len(Order(t)) \in Nat /\ DOMAIN Order(t) = 1 .. Len(Order(t))
         /\ \A k \in DOMAIN Order(t) : Order(t)[k] \in Args(t)
BY OrderAssumption

(* It holds when recording begins.                                         *)
LEMMA ArgumentsInit == Init => ArgumentsInv
<1> SUFFICES ASSUME Init PROVE ArgumentsInv
  OBVIOUS
<1>1. target \in Targets /\ host \in Calls(target) /\ args = host
  BY DEF Init
<1>2. DOMAIN args = Args(target) /\ Numeric(target, args)
  BY <1>1, CallsAreNumeric
<1>3. visited \in 0 .. Len(order)
  BY <1>1, OrderOfArguments DEF Init
<1> QED
  BY <1>1, <1>2, <1>3 DEF Init, ArgumentsInv

(* The argument that is replaced is a number if its type is an integer.    *)
LEMMA ReplacedIsNumeric ==
  ASSUME ArgumentsInv, Replace
  PROVE  DOMAIN args' = Args(target) /\ Numeric(target, args')
<1> DEFINE i == order[visited + 1]
           rules == Rules(target, i, args, host)
<1>1. /\ target \in Targets /\ host \in Calls(target) /\ i \in Args(target)
      /\ DOMAIN args = Args(target) /\ Numeric(target, args) /\ buffer \in Seq(Byte)
  <2>1. /\ target \in Targets /\ host \in Calls(target) /\ order = Order(target)
        /\ DOMAIN args = Args(target) /\ Numeric(target, args) /\ buffer \in Seq(Byte)
        /\ visited \in 0 .. Len(order) /\ visited < Len(order)
    BY DEF ArgumentsInv, Replace
  <2>2. visited + 1 \in DOMAIN order
    BY <2>1, OrderOfArguments
  <2> QED
    BY <2>1, <2>2, OrderOfArguments
<1>2. args' = [args EXCEPT ![i] = PopulateArg(i).val]
  BY DEF Replace
<1> HIDE DEF i
<1>3. ASSUME IsInt(ArgType(target, i)) PROVE PopulateArg(i).val \in Nat
  <2>1. ~IsFile(target, i) /\ ~Deref(target, i)
    BY <1>1, <1>3, TargetAssumption DEF IsFile, Deref, IsInt, IsPtr
  <2>2. Subject(target, i) = ArgType(target, i)
    BY <2>1 DEF Subject
  <2>3. AreRules(rules)
    BY <1>1, RulesAreRules
  <2>4. Populated(target, i, rules, PopulateArg(i).val)
    BY <1>1, <1>3, <2>1, <2>2, <2>3, PopulatedFromRules DEF PopulateArg
  <2>5. PICK n \in Nat : PopulateArg(i).val = ConstrainAll(rules, ArgType(target, i), n)
    BY <1>3, <2>1, <2>4 DEF Populated
  <2>6. Values(ArgType(target, i)) \in Nat \ {0}
    BY <1>1, <1>3, <2>2, SubjectHasWidth
  <2> HIDE DEF rules
  <2> QED
    BY <2>3, <2>5, <2>6, ConstrainAllTrace
<1>4. DOMAIN args' = Args(target)
  BY <1>1, <1>2
<1>5. ASSUME NEW j \in Args(target), IsInt(ArgType(target, j)) PROVE args'[j] \in Nat
  <2>1. CASE j = i
    BY <1>1, <1>2, <1>3, <1>5, <2>1
  <2>2. CASE j # i
    BY <1>1, <1>2, <1>5, <2>2 DEF Numeric
  <2> QED
    BY <2>1, <2>2
<1> QED
  BY <1>4, <1>5 DEF Numeric

(* Replacing an argument settles it, and unsettles none of the earlier.    *)
LEMMA ReplaceSettles ==
  ASSUME ArgumentsInv, Replace, NEW k \in 1 .. visited + 1
  PROVE  Settled(order[k])'
<1> DEFINE i == order[k]
           j == order[visited + 1]
           rules == Rules(target, i, args, host)
<1>1. /\ target \in Targets /\ host \in Calls(target) /\ order = Order(target)
      /\ DOMAIN args = Args(target) /\ Numeric(target, args) /\ buffer \in Seq(Byte)
      /\ visited \in Nat /\ visited < Len(order)
  BY OrderOfArguments DEF ArgumentsInv, Replace
<1>2. /\ k \in DOMAIN Order(target) /\ visited + 1 \in DOMAIN Order(target) /\ k <= visited + 1
      /\ i \in Args(target) /\ j \in Args(target)
  BY <1>1, OrderOfArguments
<1>3. target' = target /\ host' = host /\ order' = order
      /\ args' = [args EXCEPT ![j] = PopulateArg(j).val]
  BY DEF Replace
<1>4. Rules(target, i, args', host) = rules
  <2>1. Independent(target, i, j)
    BY <1>1, <1>2, LaterIsIndependent
  <2>2. \A a \in Args(target) : a # j => args'[a] = args[a]
    BY <1>1, <1>3
  <2> HIDE DEF i, j
  <2> QED
    BY <1>1, <2>1, <2>2, RulesAreStable
<1>5. (Satisfiable(target, i, args))' <=> Satisfiable(target, i, args)
  BY <1>3, <1>4 DEF Satisfiable
<1>6. ASSUME NEW CONSTANT v PROVE Obeys(target, i, v, args)' <=> Obeys(target, i, v, args)
  BY <1>3, <1>4 DEF Obeys
<1>7. PICK now : now = args'[i]
  OBVIOUS
<1>8. SUFFICES ASSUME Coerced(target, i), Unmixed(target, i), CompareAlike(target, i),
                      Satisfiable(target, i, args)
               PROVE  Obeys(target, i, now, args)
  <2>1. Settled(i)' <=> (Coerced(target, i) /\ Unmixed(target, i) /\ CompareAlike(target, i)
                           /\ Satisfiable(target, i, args)' => Obeys(target, i, now, args)')
    BY <1>3, <1>7 DEF Settled, Coerced, Unmixed, CompareAlike
  <2> QED
    BY <1>5, <1>6, <2>1
<1>9. CASE k = visited + 1
  <2>1. now = PopulateArg(i).val
    BY <1>1, <1>2, <1>3, <1>7, <1>9
  <2>2. AreRules(rules)
    BY <1>1, RulesAreRules
  <2>3. Populated(target, i, rules, now)
    BY <1>1, <1>2, <1>8, <2>1, <2>2, PopulatedFromRules DEF PopulateArg, Coerced
  <2> QED
    BY <1>1, <1>2, <1>8, <2>3, PopulatedObeys
<1>10. CASE k # visited + 1
  <2>1. i # j
    BY <1>1, <1>2, <1>10, OrderAssumption
  <2>2. now = args[i]
    BY <1>1, <1>2, <1>3, <1>7, <2>1
  <2>3. Settled(i)
    BY <1>1, <1>2, <1>10 DEF ArgumentsInv, Replace
  <2> QED
    BY <1>8, <2>2, <2>3 DEF Settled
<1> QED
  BY <1>9, <1>10

(* The invariant is kept by every step.                                    *)
LEMMA ArgumentsStep == ArgumentsInv /\ [Next]_vars => ArgumentsInv'
<1> SUFFICES ASSUME ArgumentsInv, [Next]_vars PROVE ArgumentsInv'
  OBVIOUS
<1> USE DEF ArgumentsInv
<1>1. Len(order) \in Nat
  BY OrderOfArguments
<1>2. CASE Record
  <2>1. visited' \in 0 .. Len(order)
    <3>1. /\ visited \in 0 .. Len(order) /\ visited < Len(order)
          /\ visited' = visited + 1
      BY <1>2 DEF Record
    <3> HIDE DEF ArgumentsInv
    <3> QED
      BY <1>1, <3>1
  <2>2. round = "record" /\ UNCHANGED <<target, host, order, round, args>>
    BY <1>2 DEF Record
  <2>3. Numeric(target, args)'
    BY <2>2 DEF Numeric
  <2> QED
    BY <2>1, <2>2, <2>3
<1>3. CASE Fork
  <2>1. /\ round' = "fuzz" /\ visited' = 0 /\ buffer' \in Seq(Byte)
        /\ UNCHANGED <<target, host, order>>
    BY <1>3 DEF Fork
  <2>2. args' \in Calls(target) \/ args' = args
    BY <1>3 DEF Fork
  <2>3. DOMAIN args' = Args(target) /\ Numeric(target, args')
    BY <2>2, CallsAreNumeric
  <2>4. Numeric(target, args)'
    BY <2>1, <2>3 DEF Numeric
  <2> QED
    BY <1>1, <2>1, <2>3, <2>4
<1>4. CASE Replace
  <2>1. /\ round = "fuzz" /\ visited < Len(order) /\ visited' = visited + 1
        /\ UNCHANGED <<target, host, order, round, buffer>>
    BY <1>4 DEF Replace
  <2>2. DOMAIN args' = Args(target) /\ Numeric(target, args')
    BY <1>4, ReplacedIsNumeric
  <2>3. Numeric(target, args)'
    BY <2>1, <2>2 DEF Numeric
  <2>4. ASSUME NEW k \in 1 .. visited + 1 PROVE Settled(order[k])'
    BY <1>4, <2>4, ReplaceSettles
  <2>5. visited' \in 0 .. Len(order)
    BY <1>1, <2>1
  <2> QED
    BY <2>1, <2>2, <2>3, <2>4, <2>5
<1>5. CASE Crash
  <2>1. /\ visited = 0 /\ round' = "crashed" /\ round = "fuzz"
        /\ UNCHANGED <<target, host, order, visited, buffer, args>>
    BY <1>5 DEF Crash
  <2>2. Numeric(target, args)'
    BY <2>1 DEF Numeric
  <2> QED
    BY <2>1, <2>2
<1>6. CASE Call
  <2>1. /\ round = "fuzz" /\ visited = Len(order) /\ ~Cyclic(target) /\ round' = "done"
        /\ UNCHANGED <<target, host, order, visited, buffer, args>>
    BY <1>6 DEF Call
  <2>2. Numeric(target, args)'
    BY <2>1 DEF Numeric
  <2>3. ASSUME NEW k \in 1 .. visited PROVE Settled(order[k])'
    <3>1. Settled(order[k])
      BY <2>1, <2>3
    <3> QED
      BY <2>1, <3>1 DEF Settled, Satisfiable, Obeys
  <2> QED
    BY <2>1, <2>2, <2>3
<1>7. CASE Done \/ UNCHANGED vars
  <2>1. UNCHANGED vars
    BY <1>7 DEF Done
  <2>2. Numeric(target, args)'
    BY <2>1 DEF vars, Numeric
  <2>3. ASSUME NEW k \in 1 .. visited, Settled(order[k]) PROVE Settled(order[k])'
    BY <2>1, <2>3 DEF vars, Settled, Satisfiable, Obeys
  <2> QED
    BY <2>1, <2>2, <2>3 DEF vars
<1> QED
  BY <1>2, <1>3, <1>4, <1>5, <1>6, <1>7 DEF Next

(* Whatever the signature, the call and the test case: arguments that were *)
(* visited are settled, from the first to the last that is replaced.       *)
THEOREM ArgumentsInductive == Spec => []ArgumentsInv
BY ArgumentsInit, ArgumentsStep, PTL DEF Spec

(* For every signature and every test case a target is called with         *)
(* arguments that satisfy the constraints on them, if these can be         *)
(* satisfied, compare alike and do not mix length and elements; with cyclic*)
(* ones it is not called (visitInOrder and constrain of libgen).           *)
THEOREM ArgumentsAreConstrained == Spec => []ConstraintsHold
<1>1. ArgumentsInv => ConstraintsHold
  <2> SUFFICES ASSUME ArgumentsInv, round = "done", NEW i \in Args(target)
               PROVE  Settled(i)
    BY DEF ConstraintsHold, Settled
  <2>1. PICK k \in DOMAIN order : order[k] = i
    BY DEF ArgumentsInv, Cyclic, Range
  <2>2. k \in 1 .. visited
    BY OrderOfArguments DEF ArgumentsInv
  <2>3. Settled(order[k])
    BY <2>2 DEF ArgumentsInv
  <2> QED
    BY <2>1, <2>3
<1> QED
  BY <1>1, ArgumentsInductive, PTL
=============================================================================
