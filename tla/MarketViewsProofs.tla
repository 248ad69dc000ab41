-------------------------- MODULE MarketViewsProofs -------------------------
(***************************************************************************)
(* The verdict of a rule and the pages made of the same list, for any      *)
(* rules, any finite prices, any answer of the quote's services, and any   *)
(* precision of the numbers.                                               *)
(*                                                                         *)
(* The first half is about rounding: what the two recursive functions of   *)
(* Float64 compute, that an operation is off by at most one part in        *)
(* Precision, and how such errors add up along a quote's price and a       *)
(* premium.  Then the two stages are compared with the numbered checks,    *)
(* and the steps have little left to show.                                 *)
(***************************************************************************)
EXTENDS MarketViews, WellFoundedInduction, TLAPS

\* Powers of two.
LEMMA LeastNatural ==
  ASSUME NEW T \in SUBSET Nat, T # {}
  PROVE  \E x \in T : \A y \in T : x <= y
<1> DEFINE R == OpToRel(<, Nat)
<1>1. IsWellFoundedOn(R, Nat)
  BY NatLessThanWellFounded
<1> HIDE DEF R
<1>2. PICK x \in T : \A y \in T : ~ (<<y, x>> \in R)
  BY <1>1, WFMin
<1>3. \A y \in T : <<y, x>> \in R <=> y < x
  BY Zenon DEF R, OpToRel
<1>4. \A y \in T : ~ (y < x)
  BY <1>2, <1>3, Zenon
<1> QED
  BY <1>4

\* The declared recursion of PowerFrom, on the numbers up to n.
PowersTo(f, n) == f = [q \in 0 .. n |-> IF q <= 1 THEN 1 ELSE 2 * f[(q + 1) \div 2]]

LEMMA HalfIsLess ==
  ASSUME NEW q \in Nat, q > 1
  PROVE  (q + 1) \div 2 \in Nat /\ (q + 1) \div 2 >= 1 /\ (q + 1) \div 2 < q
         /\ q <= 2 * ((q + 1) \div 2) /\ 2 * ((q + 1) \div 2) <= q + 1
  OBVIOUS

LEMMA PowersExist == \A n \in Nat : \E f : PowersTo(f, n)
<1> DEFINE T == {n \in Nat : ~\E f : PowersTo(f, n)}
<1>1. SUFFICES ASSUME T # {} PROVE FALSE
  OBVIOUS
<1>2. PICK n \in T : \A m \in T : n <= m
  <2>1. T \subseteq Nat
    OBVIOUS
  <2> HIDE DEF T
  <2> QED
    BY <1>1, <2>1, LeastNatural
<1>3. n \in Nat /\ n # 0
  <2>1. PowersTo([q \in 0 .. 0 |-> 1], 0)
    BY DEF PowersTo
  <2> QED
    BY <2>1
<1>4. n - 1 \in Nat /\ n - 1 \notin T
  BY <1>2, <1>3
<1>5. PICK f : PowersTo(f, n - 1)
  BY <1>4
<1> HIDE DEF T
<1> DEFINE g == [q \in 0 .. n |-> IF q <= 1 THEN 1 ELSE 2 * f[(q + 1) \div 2]]
<1>6. \A q \in 0 .. n - 1 : g[q] = f[q]
  BY <1>3, <1>5 DEF PowersTo
<1>7. \A q \in 0 .. n : g[q] = IF q <= 1 THEN 1 ELSE 2 * g[(q + 1) \div 2]
  <2> SUFFICES ASSUME NEW q \in 0 .. n
               PROVE  g[q] = IF q <= 1 THEN 1 ELSE 2 * g[(q + 1) \div 2]
    OBVIOUS
  <2>1. CASE q <= 1
    BY <2>1
  <2>2. CASE q > 1
    <3>1. (q + 1) \div 2 \in 0 .. n - 1
      BY <1>3, <2>2, HalfIsLess
    <3>2. g[(q + 1) \div 2] = f[(q + 1) \div 2]
      BY <1>6, <3>1
    <3>3. g[q] = 2 * f[(q + 1) \div 2]
      BY <1>3, <2>2
    <3> HIDE DEF g
    <3> QED
      BY <2>2, <3>2, <3>3
  <2> QED
    BY <1>3, <2>1, <2>2
<1>8. PowersTo(g, n)
  <2>1. g = [q \in 0 .. n |-> g[q]]
    OBVIOUS
  <2> HIDE DEF g
  <2>2. g = [q \in 0 .. n |-> IF q <= 1 THEN 1 ELSE 2 * g[(q + 1) \div 2]]
    BY <1>7, <2>1
  <2> QED
    BY <2>2 DEF PowersTo
<1> QED
  BY <1>2, <1>8 DEF T

LEMMA PowersAgree ==
  ASSUME NEW f, NEW g, NEW m \in Nat, NEW n \in Nat, PowersTo(f, m), PowersTo(g, n)
  PROVE  \A q \in Nat : q <= m /\ q <= n => f[q] = g[q]
<1> DEFINE T == {q \in Nat : q <= m /\ q <= n /\ f[q] # g[q]}
<1>1. SUFFICES ASSUME T # {} PROVE FALSE
  OBVIOUS
<1>2. PICK q \in T : \A p \in T : q <= p
  <2>1. T \subseteq Nat
    OBVIOUS
  <2> HIDE DEF T
  <2> QED
    BY <1>1, <2>1, LeastNatural
<1>3. /\ q \in 0 .. m /\ q \in 0 .. n /\ q \in Nat /\ f[q] # g[q]
  BY <1>2
<1>4. f[q] = IF q <= 1 THEN 1 ELSE 2 * f[(q + 1) \div 2]
  BY <1>3 DEF PowersTo
<1>5. g[q] = IF q <= 1 THEN 1 ELSE 2 * g[(q + 1) \div 2]
  BY <1>3 DEF PowersTo
<1>6. q > 1
  BY <1>3, <1>4, <1>5
<1>7. (q + 1) \div 2 \in Nat /\ (q + 1) \div 2 < q
  BY <1>3, <1>6, HalfIsLess
<1>8. f[(q + 1) \div 2] = g[(q + 1) \div 2]
  BY <1>2, <1>3, <1>7
<1> QED
  BY <1>3, <1>4, <1>5, <1>6, <1>8

LEMMA PowerFromRecursion ==
  \A q \in Nat : PowerFrom[q] = IF q <= 1 THEN 1 ELSE 2 * PowerFrom[(q + 1) \div 2]
<1> DEFINE h(n) == CHOOSE f : PowersTo(f, n)
           F == [q \in Nat |-> h(q)[q]]
<1>1. \A n \in Nat : PowersTo(h(n), n)
  BY PowersExist, Zenon
<1> HIDE DEF h
<1>2. \A q \in Nat : F[q] = IF q <= 1 THEN 1 ELSE 2 * F[(q + 1) \div 2]
  <2> SUFFICES ASSUME NEW q \in Nat
               PROVE  F[q] = IF q <= 1 THEN 1 ELSE 2 * F[(q + 1) \div 2]
    OBVIOUS
  <2>1. PowersTo(h(q), q)
    BY <1>1
  <2>2. h(q)[q] = IF q <= 1 THEN 1 ELSE 2 * h(q)[(q + 1) \div 2]
    BY <2>1 DEF PowersTo
  <2>3. CASE q <= 1
    BY <2>2, <2>3
  <2>4. CASE q > 1
    <3> DEFINE p == (q + 1) \div 2
    <3>1. p \in Nat /\ p < q
      BY <2>4, HalfIsLess
    <3> HIDE DEF p
    <3>2. PowersTo(h(p), p)
      BY <1>1, <3>1
    <3>3. h(q)[p] = h(p)[p]
      BY <2>1, <3>1, <3>2, PowersAgree
    <3>4. F[p] = h(p)[p]
      BY <3>1
    <3>5. h(q)[q] = 2 * h(q)[p]
      BY <2>2, <2>4 DEF p
    <3>6. F[q] = 2 * F[p]
      BY <3>3, <3>4, <3>5
    <3> HIDE DEF F
    <3> QED
      BY <2>4, <3>6 DEF p
  <2> QED
    BY <2>3, <2>4
<1>3. F = [q \in Nat |-> F[q]]
  OBVIOUS
<1> HIDE DEF F
<1>4. F = [q \in Nat |-> IF q <= 1 THEN 1 ELSE 2 * F[(q + 1) \div 2]]
  BY <1>2, <1>3
<1>5. PowerFrom = [q \in Nat |-> IF q <= 1 THEN 1 ELSE 2 * PowerFrom[(q + 1) \div 2]]
  BY <1>4, Zenon DEF PowerFrom
<1> HIDE DEF PowerFrom
<1> QED
  BY <1>5

LEMMA PowerFromBounds ==
  \A q \in Nat : /\ PowerFrom[q] \in Nat /\ PowerFrom[q] >= 1 /\ PowerFrom[q] >= q
                 /\ PowerFrom[q] = 1 \/ PowerFrom[q] <= 2 * (q - 1)
<1> DEFINE G(q) == /\ PowerFrom[q] \in Nat /\ PowerFrom[q] >= 1 /\ PowerFrom[q] >= q
                   /\ PowerFrom[q] = 1 \/ PowerFrom[q] <= 2 * (q - 1)
           T == {q \in Nat : ~G(q)}
<1>1. SUFFICES ASSUME T # {} PROVE FALSE
  OBVIOUS
<1>2. PICK q \in T : \A p \in T : q <= p
  <2>1. T \subseteq Nat
    OBVIOUS
  <2> HIDE DEF T
  <2> QED
    BY <1>1, <2>1, LeastNatural
<1>3. q \in Nat /\ ~G(q)
  BY <1>2
<1>4. PowerFrom[q] = IF q <= 1 THEN 1 ELSE 2 * PowerFrom[(q + 1) \div 2]
  BY <1>3, PowerFromRecursion
<1>5. q > 1
  BY <1>3, <1>4
<1> DEFINE p == (q + 1) \div 2
<1>6. /\ p \in Nat /\ p >= 1 /\ p < q /\ q <= 2 * p /\ 2 * p <= q + 1
  BY <1>3, <1>5, HalfIsLess
<1>7. PowerFrom[q] = 2 * PowerFrom[p]
  BY <1>4, <1>5
<1> HIDE DEF p
<1>8. G(p)
  BY <1>2, <1>3, <1>6
<1>9. G(q)
  BY <1>3, <1>5, <1>6, <1>7, <1>8
<1> QED
  BY <1>3, <1>9

-----------------------------------------------------------------------------
\* Reduced, on the pairs with a denominator up to n.
BothEven(x) == x[1] % 2 = 0 /\ x[2] % 2 = 0
HalfOf(x) == <<x[1] \div 2, x[2] \div 2>>
Pairs(n) == Int \X (1 .. n)
ReducesTo(f, n) == f = [x \in Pairs(n) |-> IF BothEven(x) THEN f[HalfOf(x)] ELSE x]

LEMMA HalfOfPair ==
  ASSUME NEW n \in Nat, NEW x \in Pairs(n), BothEven(x)
  PROVE  /\ HalfOf(x) \in Pairs(n) /\ HalfOf(x)[2] < x[2] /\ HalfOf(x)[2] > 0
         /\ HalfOf(x)[1] \in Int /\ HalfOf(x)[2] \in Nat
         /\ x[1] = 2 * HalfOf(x)[1] /\ x[2] = 2 * HalfOf(x)[2]
<1> DEFINE a == x[1]
           d == x[2]
<1>1. a \in Int /\ d \in 1 .. n /\ a % 2 = 0 /\ d % 2 = 0
  BY DEF Pairs, BothEven
<1> HIDE DEF a, d
<1>2. a \div 2 \in Int /\ a = 2 * (a \div 2)
  BY <1>1
<1>3. d \div 2 \in 1 .. n /\ d = 2 * (d \div 2) /\ d \div 2 < d
  BY <1>1
<1>4. HalfOf(x) = <<a \div 2, d \div 2>>
  BY DEF HalfOf, a, d
<1> QED
  BY <1>2, <1>3, <1>4 DEF Pairs, a, d

LEMMA ReducesExist == \A n \in Nat : \E f : ReducesTo(f, n)
<1> DEFINE T == {n \in Nat : ~\E f : ReducesTo(f, n)}
<1>1. SUFFICES ASSUME T # {} PROVE FALSE
  OBVIOUS
<1>2. PICK n \in T : \A m \in T : n <= m
  <2>1. T \subseteq Nat
    OBVIOUS
  <2> HIDE DEF T
  <2> QED
    BY <1>1, <2>1, LeastNatural
<1>3. n \in Nat /\ n # 0
  <2>1. Pairs(0) = {}
    BY DEF Pairs
  <2>2. ReducesTo([x \in Pairs(0) |-> x], 0)
    BY <2>1 DEF ReducesTo
  <2> QED
    BY <2>2
<1>4. n - 1 \in Nat /\ n - 1 \notin T
  BY <1>2, <1>3
<1>5. PICK f : ReducesTo(f, n - 1)
  BY <1>4
<1> HIDE DEF T
<1> DEFINE g == [x \in Pairs(n) |-> IF BothEven(x) THEN f[HalfOf(x)] ELSE x]
<1>6. \A x \in Pairs(n - 1) : g[x] = f[x]
  <2> SUFFICES ASSUME NEW x \in Pairs(n - 1) PROVE g[x] = f[x]
    OBVIOUS
  <2>1. x \in Pairs(n)
    BY <1>3 DEF Pairs
  <2>2. f[x] = IF BothEven(x) THEN f[HalfOf(x)] ELSE x
    BY <1>5 DEF ReducesTo
  <2> QED
    BY <2>1, <2>2
<1>7. \A x \in Pairs(n) : g[x] = IF BothEven(x) THEN g[HalfOf(x)] ELSE x
  <2> SUFFICES ASSUME NEW x \in Pairs(n)
               PROVE  g[x] = IF BothEven(x) THEN g[HalfOf(x)] ELSE x
    OBVIOUS
  <2>1. CASE ~BothEven(x)
    BY <2>1
  <2>2. CASE BothEven(x)
    <3>1. /\ HalfOf(x) \in Pairs(n) /\ HalfOf(x)[2] < x[2]
      BY <1>3, <2>2, HalfOfPair
    <3>2. HalfOf(x) \in Pairs(n - 1)
      BY <1>3, <3>1 DEF Pairs
    <3>3. g[HalfOf(x)] = f[HalfOf(x)]
      BY <1>6, <3>2
    <3>4. g[x] = f[HalfOf(x)]
      BY <2>2
    <3> HIDE DEF g
    <3> QED
      BY <2>2, <3>3, <3>4
  <2> QED
    BY <2>1, <2>2
<1>8. ReducesTo(g, n)
  <2>1. g = [x \in Pairs(n) |-> g[x]]
    OBVIOUS
  <2> HIDE DEF g
  <2>2. g = [x \in Pairs(n) |-> IF BothEven(x) THEN g[HalfOf(x)] ELSE x]
    BY <1>7, <2>1
  <2> QED
    BY <2>2 DEF ReducesTo
<1> QED
  BY <1>2, <1>8 DEF T

LEMMA ReducesAgree ==
  ASSUME NEW f, NEW g, NEW m \in Nat, NEW n \in Nat, ReducesTo(f, m), ReducesTo(g, n)
  PROVE  \A x \in Pairs(m) : x \in Pairs(n) => f[x] = g[x]
<1> DEFINE T == {d \in Nat : \E x \in Pairs(m) : x \in Pairs(n) /\ x[2] = d /\ f[x] # g[x]}
<1>1. SUFFICES ASSUME T # {} PROVE FALSE
  <2>1. \A x \in Pairs(m) : x[2] \in Nat
    BY DEF Pairs
  <2> QED
    BY <2>1
<1>2. PICK d \in T : \A p \in T : d <= p
  <2>1. T \subseteq Nat
    OBVIOUS
  <2> HIDE DEF T
  <2> QED
    BY <1>1, <2>1, LeastNatural
<1>3. PICK x \in Pairs(m) : x \in Pairs(n) /\ x[2] = d /\ f[x] # g[x]
  BY <1>2
<1>4. f[x] = IF BothEven(x) THEN f[HalfOf(x)] ELSE x
  BY <1>3 DEF ReducesTo
<1>5. g[x] = IF BothEven(x) THEN g[HalfOf(x)] ELSE x
  BY <1>3 DEF ReducesTo
<1>6. BothEven(x)
  BY <1>3, <1>4, <1>5
<1>7. /\ HalfOf(x) \in Pairs(m) /\ HalfOf(x) \in Pairs(n)
      /\ HalfOf(x)[2] \in Nat /\ HalfOf(x)[2] < d
  BY <1>3, <1>6, HalfOfPair
<1>8. HalfOf(x)[2] \notin T
  <2>1. d \in Nat
    BY <1>2
  <2> HIDE DEF T
  <2> QED
    BY <1>2, <1>7, <2>1
<1>9. f[HalfOf(x)] = g[HalfOf(x)]
  BY <1>7, <1>8
<1> QED
  BY <1>3, <1>4, <1>5, <1>6, <1>9

LEMMA ReducedRecursion ==
  \A x \in Int \X (Nat \ {0}) :
    Reduced[x] = IF BothEven(x) THEN Reduced[HalfOf(x)] ELSE x
<1> DEFINE S == Int \X (Nat \ {0})
           h(n) == CHOOSE f : ReducesTo(f, n)
           F == [x \in S |-> h(x[2])[x]]
<1>1. \A n \in Nat : ReducesTo(h(n), n)
  BY ReducesExist, Zenon
<1> HIDE DEF h
<1>2. \A x \in S : F[x] = IF BothEven(x) THEN F[HalfOf(x)] ELSE x
  <2> SUFFICES ASSUME NEW x \in S
               PROVE  F[x] = IF BothEven(x) THEN F[HalfOf(x)] ELSE x
    OBVIOUS
  <2>1. x[2] \in Nat /\ x \in Pairs(x[2])
    BY DEF Pairs
  <2>2. ReducesTo(h(x[2]), x[2])
    BY <1>1, <2>1
  <2>3. h(x[2])[x] = IF BothEven(x) THEN h(x[2])[HalfOf(x)] ELSE x
    BY <2>1, <2>2 DEF ReducesTo
  <2>4. CASE ~BothEven(x)
    BY <2>3, <2>4
  <2>5. CASE BothEven(x)
    <3> DEFINE y == HalfOf(x)
    <3>1. y \in Pairs(x[2]) /\ y[2] \in Nat /\ y[1] \in Int /\ y[2] > 0
      BY <2>1, <2>5, HalfOfPair
    <3>2. y \in S /\ y \in Pairs(y[2])
      BY <3>1 DEF Pairs
    <3> HIDE DEF y
    <3>3. ReducesTo(h(y[2]), y[2])
      BY <1>1, <3>1
    <3>4. h(x[2])[y] = h(y[2])[y]
      BY <2>1, <2>2, <3>1, <3>2, <3>3, ReducesAgree
    <3>5. F[y] = h(y[2])[y]
      BY <3>2
    <3>6. F[x] = F[y]
      BY <2>3, <2>5, <3>4, <3>5 DEF y
    <3> HIDE DEF F
    <3> QED
      BY <2>5, <3>6 DEF y
  <2> QED
    BY <2>4, <2>5
<1>3. F = [x \in S |-> F[x]]
  OBVIOUS
<1> HIDE DEF F
<1>4. F = [x \in S |-> IF BothEven(x) THEN F[HalfOf(x)] ELSE x]
  BY <1>2, <1>3
<1>5. Reduced = [x \in S |-> IF BothEven(x) THEN Reduced[HalfOf(x)] ELSE x]
  BY <1>4, Zenon DEF Reduced, BothEven, HalfOf
<1> HIDE DEF Reduced
<1> QED
  BY <1>5

\* Reducing changes the form of a number only.
LEMMA ReducedParts ==
  \A x \in Int \X (Nat \ {0}) :
    /\ Reduced[x] \in Int \X (Nat \ {0})
    /\ Reduced[x][1] * x[2] = x[1] * Reduced[x][2]
<1> DEFINE S == Int \X (Nat \ {0})
           G(x) == Reduced[x] \in S /\ Reduced[x][1] * x[2] = x[1] * Reduced[x][2]
           T == {d \in Nat : \E x \in S : x[2] = d /\ ~G(x)}
<1>1. SUFFICES ASSUME T # {} PROVE FALSE
  <2>1. \A x \in S : x[2] \in Nat
    OBVIOUS
  <2> QED
    BY <2>1
<1>2. PICK d \in T : \A p \in T : d <= p
  <2>1. T \subseteq Nat
    OBVIOUS
  <2> HIDE DEF T
  <2> QED
    BY <1>1, <2>1, LeastNatural
<1>3. PICK x \in S : x[2] = d /\ ~G(x)
  BY <1>2
<1>4. Reduced[x] = IF BothEven(x) THEN Reduced[HalfOf(x)] ELSE x
  BY <1>3, ReducedRecursion
<1>5. BothEven(x)
  BY <1>3, <1>4
<1> DEFINE y == HalfOf(x)
<1>6. /\ y \in S /\ y[1] \in Int /\ y[2] \in Nat /\ y[2] < d
      /\ x[1] = 2 * y[1] /\ x[2] = 2 * y[2]
  <2>1. x[2] \in Nat /\ x \in Pairs(x[2])
    BY <1>3 DEF Pairs
  <2>2. y \in Pairs(x[2])
    BY <1>5, <2>1, HalfOfPair
  <2>3. y \in S
    BY <2>1, <2>2 DEF Pairs
  <2> QED
    BY <1>3, <1>5, <2>1, <2>3, HalfOfPair
<1> HIDE DEF y
<1>7. G(y)
  <2>1. d \in Nat
    BY <1>2
  <2>2. y[2] \notin T
    <3> HIDE DEF T
    <3> QED
      BY <1>2, <1>6, <2>1
  <2> QED
    BY <1>6, <2>2
<1>8. Reduced[x] = Reduced[y]
  BY <1>4, <1>5 DEF y
<1> DEFINE z == Reduced[y]
<1>9. z \in S /\ z[1] * y[2] = y[1] * z[2]
  BY <1>7
<1> HIDE DEF z
<1>10. z[1] \in Int /\ z[2] \in Int
  BY <1>9
<1>11. z[1] * x[2] = x[1] * z[2]
  <2>1. z[1] * (2 * y[2]) = 2 * (z[1] * y[2])
    BY <1>6, <1>10
  <2>2. (2 * y[1]) * z[2] = 2 * (y[1] * z[2])
    BY <1>6, <1>10
  <2> QED
    BY <1>6, <1>9, <2>1, <2>2
<1> QED
  BY <1>3, <1>8, <1>9, <1>11 DEF z

-----------------------------------------------------------------------------
\* a is b but for k parts in Precision.
Close(a, b, k) == Precision * (a - b) <= k * b /\ Precision * (b - a) <= k * b

LEMMA PrecisionIsNatural ==
  /\ Precision \in Nat /\ Precision >= 256 /\ Precision \div 2 \in Nat
  /\ 2 * (Precision \div 2) = Precision
  /\ Precision \div 16 \in Nat /\ Precision \div 16 > 0 /\ 16 * (Precision \div 16) = Precision
  BY PrecisionAssumption

LEMMA TimesKeepsOrder ==
  ASSUME NEW a \in Int, NEW b \in Int, NEW c \in Nat, a <= b
  PROVE  a * c <= b * c
  OBVIOUS

LEMMA CancelOrder ==
  ASSUME NEW a \in Int, NEW b \in Int, NEW c \in Nat, c > 0, a * c <= b * c
  PROVE  a <= b
<1> SUFFICES ASSUME a > b PROVE FALSE
  OBVIOUS
<1>1. a - b >= 1
  OBVIOUS
<1>2. (a - b) * c >= c
  BY <1>1
<1> QED
  BY <1>2

LEMMA CloseTimes ==
  ASSUME NEW a \in Int, NEW b \in Int, NEW k \in Nat, NEW c \in Nat, Close(a, b, k)
  PROVE  Close(a * c, b * c, k)
<1> DEFINE P == Precision
<1>1. P \in Nat
  BY PrecisionIsNatural
<1>2. P * (a - b) <= k * b /\ P * (b - a) <= k * b
  BY DEF Close
<1> HIDE DEF P
<1>3. (P * (a - b)) * c <= (k * b) * c /\ (P * (b - a)) * c <= (k * b) * c
  BY <1>1, <1>2, TimesKeepsOrder
<1>4. /\ P * (a * c - b * c) = (P * (a - b)) * c
      /\ P * (b * c - a * c) = (P * (b - a)) * c
      /\ k * (b * c) = (k * b) * c
  BY <1>1
<1> QED
  BY <1>3, <1>4 DEF Close, P

LEMMA CloseCancel ==
  ASSUME NEW a \in Int, NEW b \in Int, NEW k \in Nat, NEW c \in Nat, c > 0,
         Close(a * c, b * c, k)
  PROVE  Close(a, b, k)
<1> DEFINE P == Precision
<1>1. P \in Nat
  BY PrecisionIsNatural
<1>2. P * (a * c - b * c) <= k * (b * c) /\ P * (b * c - a * c) <= k * (b * c)
  BY DEF Close
<1> HIDE DEF P
<1>3. /\ P * (a * c - b * c) = (P * (a - b)) * c
      /\ P * (b * c - a * c) = (P * (b - a)) * c
      /\ k * (b * c) = (k * b) * c
  BY <1>1
<1>4. (P * (a - b)) * c <= (k * b) * c /\ (P * (b - a)) * c <= (k * b) * c
  BY <1>2, <1>3
<1>5. P * (a - b) <= k * b
  BY <1>1, <1>4, CancelOrder
<1>6. P * (b - a) <= k * b
  BY <1>1, <1>4, CancelOrder
<1> QED
  BY <1>5, <1>6 DEF Close, P

LEMMA CloseThrough ==
  ASSUME NEW a \in Nat, NEW b \in Nat, NEW c \in Nat, NEW j \in Nat, NEW k \in Nat,
         Close(a, b, j), Close(b, c, k), j * k <= Precision
  PROVE  Close(a, c, j + k + 1)
<1> DEFINE P == Precision
<1>1. P \in Nat /\ P > 0
  BY PrecisionIsNatural
<1>2. /\ P * (a - b) <= j * b /\ P * (b - a) <= j * b
      /\ P * (b - c) <= k * c /\ P * (c - b) <= k * c
      /\ j * k <= P
  BY DEF Close
<1> HIDE DEF P
<1>3. j * b <= (j + 1) * c
  <2>1. P * b <= P * c + k * c
    BY <1>1, <1>2
  <2>2. (P * b) * j <= (P * c + k * c) * j
    BY <1>1, <2>1, TimesKeepsOrder
  <2>3. (j * k) * c <= P * c
    BY <1>1, <1>2, TimesKeepsOrder
  <2>4. (P * c + k * c) * j = (P * c) * j + (j * k) * c
    BY <1>1
  <2>5. (j * b) * P <= ((j + 1) * c) * P
    BY <1>1, <2>2, <2>3, <2>4
  <2> QED
    BY <1>1, <2>5, CancelOrder
<1>4. /\ P * (a - c) = P * (a - b) + P * (b - c)
      /\ P * (c - a) = P * (c - b) + P * (b - a)
      /\ (j + k + 1) * c = (j + 1) * c + k * c
  BY <1>1
<1>5. P * (a - c) <= (j + k + 1) * c /\ P * (c - a) <= (j + k + 1) * c
  <2> DEFINE u == P * (a - b)  v == P * (b - c)  w == P * (b - a)  x == P * (c - b)
             jb == j * b  jc == (j + 1) * c  kc == k * c
  <2>1. u \in Int /\ v \in Int /\ w \in Int /\ x \in Int /\ jb \in Int /\ jc \in Int /\ kc \in Int
    BY <1>1
  <2> HIDE DEF u, v, w, x, jb, jc, kc
  <2>2. u + v <= jc + kc /\ x + w <= jc + kc
    BY <1>2, <1>3, <2>1 DEF u, v, w, x, jb, jc, kc
  <2> QED
    BY <1>4, <2>2 DEF u, v, w, x, jb, jc, kc
<1> QED
  BY <1>5 DEF Close, P

LEMMA CloseBack ==
  ASSUME NEW a \in Nat, NEW b \in Nat, NEW k \in Nat, Close(a, b, k), 2 * (k * k) <= Precision,
         2 * k <= Precision
  PROVE  Close(b, a, k + 1)
<1> DEFINE P == Precision
<1>1. P \in Nat /\ P > 0
  BY PrecisionIsNatural
<1>2. /\ P * (a - b) <= k * b /\ P * (b - a) <= k * b
      /\ 2 * (k * k) <= P /\ 2 * k <= P
  BY DEF Close
<1> HIDE DEF P
<1>3. P * b <= P * a + k * b
  BY <1>1, <1>2
<1>4. b <= 2 * a
  <2>1. (2 * k) * b <= P * b
    BY <1>1, <1>2, TimesKeepsOrder
  <2>2. b * P <= (2 * a) * P
    BY <1>1, <1>3, <2>1
  <2> QED
    BY <1>1, <2>2, CancelOrder
<1>5. k * b <= (k + 1) * a
  <2>1. (P * b) * k <= (P * a + k * b) * k
    BY <1>1, <1>3, TimesKeepsOrder
  <2>2. b * (k * k) <= (2 * a) * (k * k)
    BY <1>4, TimesKeepsOrder
  <2>3. (2 * (k * k)) * a <= P * a
    BY <1>1, <1>2, TimesKeepsOrder
  <2>4. (P * a + k * b) * k = (P * a) * k + b * (k * k)
    BY <1>1
  <2>5. (2 * a) * (k * k) = (2 * (k * k)) * a
    OBVIOUS
  <2>6. (k * b) * P <= ((k + 1) * a) * P
    BY <1>1, <2>1, <2>2, <2>3, <2>4, <2>5
  <2> QED
    BY <1>1, <2>6, CancelOrder
<1>6. P * (b - a) <= (k + 1) * a /\ P * (a - b) <= (k + 1) * a
  BY <1>1, <1>2, <1>5
<1> QED
  BY <1>6 DEF Close, P

LEMMA DivisionParts ==
  ASSUME NEW n \in Nat, NEW d \in Nat, d > 0
  PROVE  /\ n \div d \in Nat /\ n % d \in Nat
         /\ n = d * (n \div d) + (n % d) /\ n % d < d
<1>1. n \div d \in Int /\ n % d \in 0 .. d - 1
  OBVIOUS
<1>2. n = d * (n \div d) + (n % d)
  OBVIOUS
<1>3. n \div d \in Nat
  <2> DEFINE q == n \div d
  <2>1. SUFFICES ASSUME q < 0 PROVE FALSE
    BY <1>1
  <2>2. q \in Int /\ n = d * q + (n % d)
    BY <1>1, <1>2
  <2> HIDE DEF q
  <2>3. d * q <= -d
    BY <2>1, <2>2
  <2> QED
    BY <1>1, <2>2, <2>3
<1> QED
  BY <1>1, <1>2, <1>3

LEMMA NearestClose ==
  ASSUME NEW n \in Nat, NEW d \in Nat, d > 0
  PROVE  /\ Nearest(n, d) \in Nat
         /\ 2 * (Nearest(n, d) * d - n) <= d /\ 2 * (n - Nearest(n, d) * d) <= d
<1> DEFINE q == n \div d
           r == n % d
           m == Nearest(n, d)
<1>1. q \in Nat /\ r \in Nat /\ n = d * q + r /\ r < d
  BY DivisionParts
<1>2. (m = q /\ ~(2 * r > d)) \/ (m = q + 1 /\ 2 * r >= d)
  BY <1>1 DEF Nearest
<1> HIDE DEF q, r, m
<1>3. m \in Nat
  BY <1>1, <1>2
<1>4. CASE m = q /\ ~(2 * r > d)
  BY <1>1, <1>4 DEF m
<1>5. CASE m = q + 1 /\ 2 * r >= d
  <2>1. m * d = d * q + d
    BY <1>1, <1>5
  <2> QED
    BY <1>1, <1>3, <1>5, <2>1 DEF m
<1> QED
  BY <1>2, <1>4, <1>5

\* Rounding changes a number by at most one part in Precision.
LEMMA RoundPositiveClose ==
  ASSUME NEW n \in Nat, n > 0, NEW d \in Nat, d > 0
  PROVE  LET y == RoundPositive(n, d)
         IN  /\ y \in Int \X (Nat \ {0}) /\ y[1] > 0
             /\ Close(y[1] * d, n * y[2], 1)
<1> DEFINE P == Precision
           half == P \div 2
           c == (d * half + n - 1) \div n
           f == n \div (d * P)
           up == PowerFrom[c]
           down == PowerFrom[f + 1]
           N == n * up
           D == d * down
           m == Nearest(N, D)
           z == <<m * down, up>>
           y == RoundPositive(n, d)
<1>1. P \in Nat /\ P >= 256 /\ half \in Nat /\ 2 * half = P
  BY PrecisionIsNatural
<1>2. y = Reduced[z]
  BY DEF RoundPositive
<1> HIDE DEF P, half, y
<1>3. c \in Nat /\ n * c >= d * half
  <2> DEFINE a == d * half + n - 1
             r == a % n
  <2>1. a \in Nat
    BY <1>1
  <2> HIDE DEF a
  <2>2. r \in Nat /\ r < n /\ a = n * (a \div n) + r /\ a \div n \in Nat
    BY <2>1, DivisionParts
  <2> HIDE DEF r
  <2>3. c = a \div n
    BY DEF a
  <2>4. d * half \in Nat
    BY <1>1
  <2> HIDE DEF c
  <2>5. n * c + r = d * half + n - 1
    BY <2>2, <2>3 DEF a
  <2> QED
    BY <2>2, <2>3, <2>4, <2>5
<1>4. f \in Nat /\ (d * P) * f <= n
  <2> DEFINE e == d * P
  <2>1. e \in Nat /\ e > 0
    BY <1>1
  <2> HIDE DEF e
  <2>2. n \div e \in Nat /\ n = e * (n \div e) + (n % e) /\ n % e \in Nat
    BY <2>1, DivisionParts
  <2> QED
    BY <2>1, <2>2 DEF e, f
<1> HIDE DEF c, f
<1>5. /\ up \in Nat /\ up >= 1 /\ up >= c
      /\ down \in Nat /\ down >= 1 /\ (down = 1 \/ down <= 2 * f)
  <2>1. up \in Nat /\ up >= 1 /\ up >= c
    BY <1>3, PowerFromBounds
  <2>2. f + 1 \in Nat /\ 2 * ((f + 1) - 1) = 2 * f
    BY <1>4
  <2>3. down \in Nat /\ down >= 1 /\ (down = 1 \/ down <= 2 * ((f + 1) - 1))
    BY <2>2, PowerFromBounds
  <2> QED
    BY <2>1, <2>2, <2>3
<1> HIDE DEF up, down
<1>6. N \in Nat /\ N > 0 /\ D \in Nat /\ D > 0
  BY <1>5
<1>7. P * D <= 2 * N
  <2>1. CASE down = 1
    <3>1. c * n <= up * n
      BY <1>3, <1>5, TimesKeepsOrder
    <3>2. N >= d * half
      BY <1>1, <1>3, <1>5, <3>1
    <3>3. P * D = 2 * (d * half)
      BY <1>1, <2>1
    <3> QED
      BY <1>1, <1>6, <3>2, <3>3
  <2>2. CASE down <= 2 * f
    <3>1. down * (d * P) <= (2 * f) * (d * P)
      BY <1>1, <1>4, <1>5, <2>2, TimesKeepsOrder
    <3>2. P * D = down * (d * P)
      BY <1>1, <1>5
    <3>3. (2 * f) * (d * P) = 2 * ((d * P) * f)
      BY <1>1, <1>4
    <3>4. 1 * n <= up * n
      BY <1>5, TimesKeepsOrder
    <3>5. n <= N
      BY <1>5, <3>4
    <3>6. (d * P) * f <= n /\ (d * P) * f \in Nat
      BY <1>1, <1>4
    <3>7. P * D \in Nat
      BY <1>1, <1>6
    <3> HIDE DEF N, D
    <3> QED
      BY <1>6, <3>1, <3>2, <3>3, <3>5, <3>6, <3>7
  <2> QED
    BY <1>5, <2>1, <2>2
<1> HIDE DEF N, D
<1>8. m \in Nat /\ 2 * (m * D - N) <= D /\ 2 * (N - m * D) <= D
  BY <1>6, NearestClose
<1> HIDE DEF m
<1>9. Close(m * D, N, 1)
  <2> DEFINE e == m * D - N
  <2>1. e \in Int /\ 2 * e <= D /\ 2 * (-e) <= D
    BY <1>6, <1>8
  <2>2. N - m * D = -e
    BY <1>6, <1>8
  <2> HIDE DEF e
  <2>3. (2 * e) * P <= D * P /\ (2 * (-e)) * P <= D * P
    BY <1>1, <1>6, <2>1, TimesKeepsOrder
  <2>4. P * e <= N /\ P * (-e) <= N
    BY <1>1, <1>6, <1>7, <2>1, <2>3
  <2> QED
    BY <1>6, <2>2, <2>4 DEF Close, e, P
<1>10. /\ m * down \in Nat /\ z \in Int \X (Nat \ {0})
       /\ z[1] = m * down /\ z[2] = up
  BY <1>5, <1>8
<1>11. y \in Int \X (Nat \ {0}) /\ y[1] * up = (m * down) * y[2]
  BY <1>2, <1>10, ReducedParts
<1> HIDE DEF z
<1>12. y[1] \in Int /\ y[2] \in Nat /\ y[2] > 0
  BY <1>11
<1>13. Close((m * D) * y[2], N * y[2], 1)
  BY <1>6, <1>8, <1>9, <1>12, CloseTimes
<1>14. (m * D) * y[2] = (y[1] * d) * up
  <2>1. (m * D) * y[2] = d * ((m * down) * y[2])
    BY <1>5, <1>8, <1>12 DEF D
  <2>2. (y[1] * d) * up = d * (y[1] * up)
    BY <1>5, <1>12
  <2> QED
    BY <1>11, <2>1, <2>2
<1>15. N * y[2] = (n * y[2]) * up
  BY <1>5, <1>12 DEF N
<1>16. Close(y[1] * d, n * y[2], 1)
  <2>1. y[1] * d \in Int /\ n * y[2] \in Int
    BY <1>12
  <2> QED
    BY <1>5, <1>13, <1>14, <1>15, <2>1, CloseCancel
<1>17. y[1] > 0
  <2> DEFINE a == y[1] * d
             b == n * y[2]
  <2>1. a \in Int /\ b \in Nat /\ b > 0
    BY <1>12
  <2>2. P * (b - a) <= b
    BY <1>16, <2>1 DEF Close, P
  <2> HIDE DEF a, b
  <2>3. a > 0
    <3> SUFFICES ASSUME a <= 0 PROVE FALSE
      BY <2>1
    <3>1. b - a >= b
      BY <2>1
    <3>2. P * (b - a) >= P * b
      BY <1>1, <2>1, <3>1
    <3>3. P * b > b
      BY <1>1, <2>1
    <3> QED
      BY <1>1, <2>1, <2>2, <3>2, <3>3
  <2> QED
    BY <1>12, <2>3 DEF a
<1> QED
  BY <1>11, <1>16, <1>17 DEF y

\* Rounding takes no number across an integer that needs none.
LEMMA RoundPositiveAtMost ==
  ASSUME NEW n \in Nat, n > 0, NEW d \in Nat, d > 0,
         NEW L \in Nat, L < Precision, n <= L * d
  PROVE  RoundPositive(n, d)[1] <= L * RoundPositive(n, d)[2]
<1> DEFINE P == Precision
           c == (d * (P \div 2) + n - 1) \div n
           f == n \div (d * P)
           up == PowerFrom[c]
           m == Nearest(n * up, d)
           z == <<m * 1, up>>
           y == RoundPositive(n, d)
<1>1. P \in Nat /\ P \div 2 \in Nat
  BY PrecisionIsNatural
<1> HIDE DEF P
<1>2. f = 0
  <2> DEFINE e == d * P
  <2>1. L + 1 <= P
    BY <1>1 DEF P
  <2>2. (L + 1) * d <= P * d
    BY <1>1, <2>1, TimesKeepsOrder
  <2>3. e \in Nat /\ n < e
    BY <1>1, <2>2
  <2> HIDE DEF e
  <2>4. n \div e = 0
    BY <2>3
  <2> QED
    BY <2>4 DEF e
<1>3. PowerFrom[f + 1] = 1
  <2>1. PowerFrom[1] = 1 \/ PowerFrom[1] <= 2 * (1 - 1)
    BY PowerFromBounds
  <2>2. PowerFrom[1] \in Nat /\ PowerFrom[1] >= 1
    BY PowerFromBounds
  <2>3. PowerFrom[1] = 1
    BY <2>1, <2>2
  <2>4. f + 1 = 1
    BY <1>2
  <2> QED
    BY <2>3, <2>4
<1>4. y = Reduced[z]
  <2>1. y = Reduced[<<Nearest(n * up, d * 1) * 1, up>>]
    BY <1>3 DEF RoundPositive, P
  <2>2. d * 1 = d
    OBVIOUS
  <2> QED
    BY <2>1, <2>2
<1>5. up \in Nat /\ up >= 1
  <2> DEFINE a == d * (P \div 2) + n - 1
  <2>1. a \in Nat
    BY <1>1
  <2> HIDE DEF a
  <2>2. a \div n \in Nat
    BY <2>1, DivisionParts
  <2>3. c \in Nat
    BY <2>2 DEF a
  <2> QED
    BY <2>3, PowerFromBounds
<1> HIDE DEF c, f, up, y
<1> DEFINE N == n * up
           K == L * up
<1>6. N \in Nat /\ K \in Nat /\ N <= K * d
  <2>1. n * up <= (L * d) * up
    BY <1>5, TimesKeepsOrder
  <2>2. (L * d) * up = K * d
    BY <1>5
  <2> QED
    BY <1>5, <2>1, <2>2
<1>7. m \in Nat /\ 2 * (m * d - N) <= d
  BY <1>6, NearestClose
<1> HIDE DEF N, K, m
<1>8. m <= K
  <2> SUFFICES ASSUME m >= K + 1 PROVE FALSE
    BY <1>6, <1>7
  <2>1. (K + 1) * d <= m * d
    BY <1>6, <1>7, TimesKeepsOrder
  <2>2. (K + 1) * d = K * d + d /\ K * d \in Nat /\ m * d \in Nat
    BY <1>6, <1>7
  <2> QED
    BY <1>6, <1>7, <2>1, <2>2
<1>9. z \in Int \X (Nat \ {0}) /\ z[1] = m /\ z[2] = up
  BY <1>5, <1>7
<1>10. /\ y[1] \in Int /\ y[2] \in Nat /\ y[2] > 0
       /\ y[1] * up = m * y[2]
  <2>1. y \in Int \X (Nat \ {0}) /\ y[1] * up = m * y[2]
    BY <1>4, <1>9, ReducedParts
  <2> QED
    BY <2>1
<1>11. m * y[2] <= K * y[2]
  BY <1>6, <1>7, <1>8, <1>10, TimesKeepsOrder
<1>12. K * y[2] = (L * y[2]) * up
  BY <1>5, <1>10 DEF K
<1>13. y[1] * up <= (L * y[2]) * up
  BY <1>10, <1>11, <1>12
<1>14. L * y[2] \in Int
  BY <1>10
<1> QED
  BY <1>5, <1>10, <1>13, <1>14, CancelOrder DEF y

-----------------------------------------------------------------------------
\* A finite number, and a positive one.
Finite64 == Int \X (Nat \ {0})
Positive64 == (Nat \ {0}) \X (Nat \ {0})

LEMMA PositivePair ==
  ASSUME NEW x \in Positive64
  PROVE  /\ x[1] \in Nat /\ x[1] > 0 /\ x[2] \in Nat /\ x[2] > 0 /\ x \in Finite64
         /\ x = <<x[1], x[2]>>
  BY DEF Positive64, Finite64

LEMMA ProductIsPositive ==
  ASSUME NEW a \in Nat, NEW b \in Nat, a > 0, b > 0
  PROVE  a * b \in Nat /\ a * b > 0
  OBVIOUS

\* Products and inverses without rounding.
Mul(x, y) == <<x[1] * y[1], x[2] * y[2]>>
Inverse(x) == <<x[2], x[1]>>

LEMMA MulPositive ==
  ASSUME NEW x \in Positive64, NEW y \in Positive64
  PROVE  Mul(x, y) \in Positive64 /\ Inverse(x) \in Positive64
         /\ Mul(x, y)[1] = x[1] * y[1] /\ Mul(x, y)[2] = x[2] * y[2]
         /\ Inverse(x)[1] = x[2] /\ Inverse(x)[2] = x[1]
  BY PositivePair, ProductIsPositive DEF Mul, Inverse, Positive64

\* x is y but for k parts in Precision.
Near(x, y, k) == Close(x[1] * y[2], y[1] * x[2], k)

LEMMA NearThrough ==
  ASSUME NEW x \in Positive64, NEW y \in Positive64, NEW z \in Positive64,
         NEW j \in Nat, NEW k \in Nat, Near(x, y, j), Near(y, z, k), j * k <= Precision
  PROVE  Near(x, z, j + k + 1)
<1>1. /\ x[1] \in Nat /\ x[2] \in Nat /\ x[2] > 0 /\ y[1] \in Nat /\ y[2] \in Nat /\ y[2] > 0
      /\ z[1] \in Nat /\ z[2] \in Nat /\ z[2] > 0
  BY PositivePair
<1> DEFINE a == x[1] * y[2]
           b == y[1] * x[2]
           c == y[1] * z[2]
           d == z[1] * y[2]
<1>0. a \in Int /\ b \in Int /\ c \in Int /\ d \in Int /\ Close(a, b, j) /\ Close(c, d, k)
  BY <1>1 DEF Near
<1> HIDE DEF a, b, c, d
<1>8. Close(a * z[2], b * z[2], j) /\ Close(c * x[2], d * x[2], k)
  BY <1>0, <1>1, CloseTimes
<1>2. Close((x[1] * y[2]) * z[2], (y[1] * x[2]) * z[2], j)
  BY <1>8 DEF a, b
<1>3. Close((y[1] * z[2]) * x[2], (z[1] * y[2]) * x[2], k)
  BY <1>8 DEF c, d
<1>4. /\ (x[1] * y[2]) * z[2] = (x[1] * z[2]) * y[2]
      /\ (y[1] * x[2]) * z[2] = (y[1] * z[2]) * x[2]
      /\ (z[1] * y[2]) * x[2] = (z[1] * x[2]) * y[2]
  BY <1>1
<1>5. /\ (x[1] * z[2]) * y[2] \in Nat /\ (y[1] * z[2]) * x[2] \in Nat
      /\ (z[1] * x[2]) * y[2] \in Nat
  BY <1>1
<1>6. Close((x[1] * z[2]) * y[2], (z[1] * x[2]) * y[2], j + k + 1)
  BY <1>2, <1>3, <1>4, <1>5, CloseThrough
<1>7. x[1] * z[2] \in Int /\ z[1] * x[2] \in Int /\ j + k + 1 \in Nat
  BY <1>1
<1> QED
  BY <1>1, <1>6, <1>7, CloseCancel DEF Near

LEMMA NearScaled ==
  ASSUME NEW x \in Positive64, NEW y \in Positive64, NEW z \in Positive64, NEW k \in Nat,
         Near(x, y, k)
  PROVE  Near(Mul(x, z), Mul(y, z), k)
<1>1. /\ x[1] \in Nat /\ x[2] \in Nat /\ y[1] \in Nat /\ y[2] \in Nat
      /\ z[1] \in Nat /\ z[2] \in Nat /\ z[1] * z[2] \in Nat
  BY PositivePair
<1>2. Close((x[1] * y[2]) * (z[1] * z[2]), (y[1] * x[2]) * (z[1] * z[2]), k)
  BY <1>1, CloseTimes DEF Near
<1>3. /\ (x[1] * y[2]) * (z[1] * z[2]) = (x[1] * z[1]) * (y[2] * z[2])
      /\ (y[1] * x[2]) * (z[1] * z[2]) = (y[1] * z[1]) * (x[2] * z[2])
  BY <1>1
<1> QED
  BY <1>2, <1>3, MulPositive DEF Near

LEMMA NearScaledLeft ==
  ASSUME NEW x \in Positive64, NEW y \in Positive64, NEW z \in Positive64, NEW k \in Nat,
         Near(x, y, k)
  PROVE  Near(Mul(z, x), Mul(z, y), k)
<1>1. Mul(z, x) = Mul(x, z) /\ Mul(z, y) = Mul(y, z)
  BY PositivePair DEF Mul
<1> QED
  BY <1>1, NearScaled

LEMMA NearInverse ==
  ASSUME NEW x \in Positive64, NEW y \in Positive64, NEW k \in Nat, Near(x, y, k), k <= 8
  PROVE  Near(Inverse(x), Inverse(y), k + 1)
<1>1. x[1] \in Nat /\ x[2] \in Nat /\ y[1] \in Nat /\ y[2] \in Nat
  BY PositivePair
<1>2. 2 * (k * k) <= Precision /\ 2 * k <= Precision
  <2>1. k * k <= 8 * k /\ Precision \in Nat /\ Precision >= 256
    BY PrecisionIsNatural
  <2> QED
    BY <2>1
<1>3. x[1] * y[2] \in Nat /\ y[1] * x[2] \in Nat
  BY <1>1
<1>4. Close(y[1] * x[2], x[1] * y[2], k + 1)
  BY <1>2, <1>3, CloseBack DEF Near
<1>5. x[2] * y[1] = y[1] * x[2] /\ y[2] * x[1] = x[1] * y[2]
  BY <1>1
<1> QED
  BY <1>4, <1>5, MulPositive DEF Near

LEMMA RoundedNear ==
  ASSUME NEW x \in Positive64
  PROVE  Float(x[1], x[2]) \in Positive64 /\ Near(Float(x[1], x[2]), x, 1)
<1> DEFINE y == RoundPositive(x[1], x[2])
<1>1. x[1] \in Nat /\ x[1] > 0 /\ x[2] \in Nat /\ x[2] > 0
  BY PositivePair
<1>2. Float(x[1], x[2]) = y
  BY <1>1 DEF Float, Round
<1>3. y \in Int \X (Nat \ {0}) /\ y[1] > 0 /\ Close(y[1] * x[2], x[1] * y[2], 1)
  BY <1>1, RoundPositiveClose
<1> HIDE DEF y
<1>4. y \in Positive64
  BY <1>3 DEF Positive64
<1> QED
  BY <1>2, <1>3, <1>4 DEF Near

LEMMA RoundedThrough ==
  ASSUME NEW x \in Positive64, NEW y \in Positive64, NEW k \in Nat, Near(x, y, k), k <= 10
  PROVE  Float(x[1], x[2]) \in Positive64 /\ Near(Float(x[1], x[2]), y, k + 2)
<1> DEFINE z == Float(x[1], x[2])
<1>1. z \in Positive64 /\ Near(z, x, 1)
  BY RoundedNear
<1> HIDE DEF z
<1>2. 1 * k <= Precision /\ 1 + k + 1 = k + 2 /\ 1 \in Nat
  BY PrecisionIsNatural
<1>3. Near(z, y, 1 + k + 1)
  BY <1>1, <1>2, NearThrough
<1> QED
  BY <1>1, <1>2, <1>3 DEF z

LEMMA ProductNear ==
  ASSUME NEW x \in Positive64, NEW y \in Positive64, NEW z \in Positive64, NEW k \in Nat,
         Near(x, y, k), k <= 10
  PROVE  Product(x, z) \in Positive64 /\ Near(Product(x, z), Mul(y, z), k + 2)
<1> DEFINE xz == Mul(x, z)
<1>1. /\ xz \in Positive64 /\ Mul(y, z) \in Positive64 /\ Near(xz, Mul(y, z), k)
      /\ Product(x, z) = Float(xz[1], xz[2])
  BY MulPositive, NearScaled DEF Product
<1> HIDE DEF xz
<1> QED
  BY <1>1, RoundedThrough

LEMMA OverNear ==
  ASSUME NEW x \in Positive64, NEW y \in Positive64, NEW z \in Positive64, NEW k \in Nat,
         Near(x, y, k), k <= 10
  PROVE  Over(x, z) \in Positive64 /\ Near(Over(x, z), Mul(y, Inverse(z)), k + 2)
<1> DEFINE w == Inverse(z)
           xw == Mul(x, w)
<1>1. w \in Positive64
  BY MulPositive
<1>2. w[1] = z[2] /\ w[2] = z[1]
  BY MulPositive
<1> HIDE DEF w
<1>7. Mul(y, w) \in Positive64
  BY <1>1, MulPositive
<1>8. xw \in Positive64 /\ xw[1] = x[1] * w[1] /\ xw[2] = x[2] * w[2]
  BY <1>1, MulPositive
<1>5. /\ xw \in Positive64 /\ xw[1] = x[1] * z[2] /\ xw[2] = x[2] * z[1]
      /\ Mul(y, w) \in Positive64
  BY <1>2, <1>7, <1>8
<1>6. Near(xw, Mul(y, w), k)
  BY <1>1, NearScaled
<1>3. /\ xw \in Positive64 /\ Mul(y, w) \in Positive64 /\ Near(xw, Mul(y, w), k)
      /\ Over(x, z) = Float(xw[1], xw[2])
  BY <1>5, <1>6 DEF Over
<1> HIDE DEF xw
<1>4. Over(x, z) \in Positive64 /\ Near(Over(x, z), Mul(y, w), k + 2)
  BY <1>3, RoundedThrough
<1> QED
  BY <1>4 DEF w

LEMMA NearItself ==
  ASSUME NEW x \in Positive64
  PROVE  Near(x, x, 0)
<1>1. x[1] * x[2] \in Nat /\ Precision \in Nat
  BY PositivePair, PrecisionIsNatural
<1> QED
  BY <1>1 DEF Near, Close

-----------------------------------------------------------------------------
\* a and b differ by at most e parts in Precision.
Within(a, b, e) == Precision * (a - b) <= e /\ Precision * (b - a) <= e
Size(n) == IF n < 0 THEN -n ELSE n

LEMMA SizeIsNatural == ASSUME NEW n \in Int PROVE Size(n) \in Nat
  BY DEF Size

LEMMA FiniteParts ==
  ASSUME NEW x \in Finite64
  PROVE  x[1] \in Int /\ x[2] \in Nat /\ x[2] > 0 /\ x = <<x[1], x[2]>> /\ x # NaN
  BY DEF Finite64, NaN

\* Rounding a number of any sign.
LEMMA FloatWithin ==
  ASSUME NEW n \in Int, NEW d \in Nat, d > 0
  PROVE  /\ Float(n, d) \in Finite64
         /\ Within(Float(n, d)[1] * d, n * Float(n, d)[2], Size(n) * Float(n, d)[2])
         /\ Float(n, d)[1] > 0 <=> n > 0
<1>0. Precision \in Nat
  BY PrecisionIsNatural
<1>1. CASE n = 0
  <2>1. Float(n, d) = <<0, 1>>
    BY <1>1 DEF Float, Round, Number
  <2>2. Size(0) = 0
    BY DEF Size
  <2> QED
    BY <1>0, <1>1, <2>1, <2>2 DEF Within, Finite64
<1>2. CASE n > 0
  <2> DEFINE y == RoundPositive(n, d)
  <2>1. Float(n, d) = y
    BY <1>2 DEF Float, Round
  <2>2. y \in Int \X (Nat \ {0}) /\ y[1] > 0 /\ Close(y[1] * d, n * y[2], 1)
    BY <1>2, RoundPositiveClose
  <2> HIDE DEF y
  <2>3. y[1] \in Int /\ y[2] \in Nat /\ n * y[2] \in Nat
    BY <1>2, <2>2
  <2>4. Size(n) = n
    BY <1>2 DEF Size
  <2> QED
    BY <1>2, <2>1, <2>2, <2>3, <2>4 DEF Within, Close, Finite64
<1>3. CASE n < 0
  <2> DEFINE y == RoundPositive(-n, d)
  <2>1. Float(n, d) = <<-y[1], y[2]>>
    BY <1>3 DEF Float, Round, Negated
  <2>2. y \in Int \X (Nat \ {0}) /\ y[1] > 0 /\ Close(y[1] * d, (-n) * y[2], 1)
    BY <1>3, RoundPositiveClose
  <2> HIDE DEF y
  <2>3. y[1] \in Int /\ y[2] \in Nat /\ y[2] > 0
    BY <2>2
  <2>4. Size(n) = -n
    BY <1>3 DEF Size
  <2> DEFINE a == y[1] * d
             b == (-n) * y[2]
  <2>5. a \in Int /\ b \in Int /\ (-y[1]) * d = -a /\ n * y[2] = -b
    BY <2>3
  <2>6. Precision * (a - b) <= 1 * b /\ Precision * (b - a) <= 1 * b
    BY <2>2 DEF Close
  <2> HIDE DEF a, b
  <2>7. (-a) - (-b) = b - a /\ (-b) - (-a) = a - b /\ 1 * b = b
    BY <2>5
  <2>8. Within(-a, -b, b)
    BY <2>6, <2>7 DEF Within
  <2>9. Within((-y[1]) * d, n * y[2], Size(n) * y[2])
    BY <2>4, <2>5, <2>8 DEF b
  <2>10. <<-y[1], y[2]>> \in Finite64 /\ ~(-y[1] > 0) /\ ~(n > 0)
    BY <1>3, <2>2, <2>3 DEF Finite64
  <2> QED
    BY <2>1, <2>3, <2>9, <2>10
<1> QED
  BY <1>1, <1>2, <1>3

LEMMA FloatAtMost ==
  ASSUME NEW n \in Int, NEW d \in Nat, d > 0,
         NEW L \in Nat, L < Precision, n <= L * d
  PROVE  Float(n, d)[1] <= L * Float(n, d)[2]
<1>1. CASE n > 0
  BY <1>1, RoundPositiveAtMost DEF Float, Round
<1>2. CASE n <= 0
  <2>1. Float(n, d) \in Finite64 /\ ~(Float(n, d)[1] > 0)
    BY <1>2, FloatWithin
  <2> QED
    BY <2>1, FiniteParts
<1> QED
  BY <1>1, <1>2

LEMMA WithinTimes ==
  ASSUME NEW a \in Int, NEW b \in Int, NEW e \in Int, NEW c \in Nat, Within(a, b, e)
  PROVE  Within(a * c, b * c, e * c)
<1> DEFINE P == Precision
<1>1. P \in Nat
  BY PrecisionIsNatural
<1>2. P * (a - b) <= e /\ P * (b - a) <= e
  BY DEF Within
<1> HIDE DEF P
<1>3. (P * (a - b)) * c <= e * c /\ (P * (b - a)) * c <= e * c
  BY <1>1, <1>2, TimesKeepsOrder
<1>4. P * (a * c - b * c) = (P * (a - b)) * c /\ P * (b * c - a * c) = (P * (b - a)) * c
  BY <1>1
<1> QED
  BY <1>3, <1>4 DEF Within, P

LEMMA WithinCancel ==
  ASSUME NEW a \in Int, NEW b \in Int, NEW e \in Int, NEW c \in Nat, c > 0,
         Within(a * c, b * c, e * c)
  PROVE  Within(a, b, e)
<1> DEFINE P == Precision
<1>1. P \in Nat
  BY PrecisionIsNatural
<1>2. P * (a * c - b * c) <= e * c /\ P * (b * c - a * c) <= e * c
  BY DEF Within
<1> HIDE DEF P
<1>3. P * (a * c - b * c) = (P * (a - b)) * c /\ P * (b * c - a * c) = (P * (b - a)) * c
  BY <1>1
<1>4. (P * (a - b)) * c <= e * c /\ (P * (b - a)) * c <= e * c
  BY <1>2, <1>3
<1>5. P * (a - b) <= e
  BY <1>1, <1>4, CancelOrder
<1>6. P * (b - a) <= e
  BY <1>1, <1>4, CancelOrder
<1> QED
  BY <1>5, <1>6 DEF Within, P

LEMMA WithinAbs ==
  ASSUME NEW a \in Int, NEW b \in Int, NEW e \in Int, Within(a, b, e)
  PROVE  Within(Size(a), Size(b), e)
<1> DEFINE P == Precision
<1>1. P \in Nat
  BY PrecisionIsNatural
<1>2. P * (a - b) <= e /\ P * (b - a) <= e
  BY DEF Within
<1> HIDE DEF P
<1>3. \A u \in Int, v \in Int : u <= v => P * u <= P * v
  BY <1>1
<1>4. /\ Size(a) - Size(b) \in Int /\ Size(b) - Size(a) \in Int
      /\ Size(a) - Size(b) <= a - b \/ Size(a) - Size(b) <= b - a
      /\ Size(b) - Size(a) <= a - b \/ Size(b) - Size(a) <= b - a
  BY DEF Size
<1>5. P * (Size(a) - Size(b)) <= e
  BY <1>1, <1>2, <1>3, <1>4
<1>6. P * (Size(b) - Size(a)) <= e
  BY <1>1, <1>2, <1>3, <1>4
<1> QED
  BY <1>5, <1>6 DEF Within, P

\* The sum of the errors of price/reference, of the subtraction and of the
\* product: all over one denominator.
LEMMA ErrorsAdd ==
  ASSUME NEW N \in Nat, NEW D \in Nat, NEW Q \in Int, NEW Y \in Int, NEW B \in Int,
         Within(Q, N, 12 * N), Within(Y, Q - D, Size(Q - D)), Within(B, 10000 * Y, 10000 * Size(Y))
  PROVE  Within(B, 10000 * (N - D), 16 * (10000 * (N + D)))
<1> DEFINE P == Precision
           a == Q - N
           e == Y - (Q - D)
           f == B - 10000 * Y
           Pa == P * a
           Pe == P * e
           Pf == P * f
           total == B - 10000 * (N - D)
<1>1. P \in Nat /\ P >= 256
  BY PrecisionIsNatural
<1> HIDE DEF P
<1>2. a \in Int /\ e \in Int /\ f \in Int /\ Pa \in Int /\ Pe \in Int /\ Pf \in Int /\ total \in Int
  BY <1>1
<1>3. /\ P * (N - Q) = -Pa /\ P * ((Q - D) - Y) = -Pe /\ P * (10000 * Y - B) = -Pf
      /\ P * total = Pf + 10000 * Pe + 10000 * Pa
      /\ P * (10000 * (N - D) - B) = -(Pf + 10000 * Pe + 10000 * Pa)
  BY <1>1
<1>4. /\ Pa <= 12 * N /\ -Pa <= 12 * N /\ Pe <= Size(Q - D) /\ -Pe <= Size(Q - D)
      /\ Pf <= 10000 * Size(Y) /\ -Pf <= 10000 * Size(Y)
  BY <1>3 DEF Within, P
<1>5. /\ Pa >= 0 => Pa >= 256 * a
      /\ -Pa >= 0 => -Pa >= 256 * (-a)
      /\ a >= 0 <=> Pa >= 0
  BY <1>1, <1>2
<1>6. /\ Pe >= 0 => Pe >= 256 * e
      /\ -Pe >= 0 => -Pe >= 256 * (-e)
      /\ e >= 0 <=> Pe >= 0
  BY <1>1, <1>2
<1>7. Q = N + a /\ Y = (Q - D) + e
  OBVIOUS
<1> HIDE DEF a, e, f, Pa, Pe, Pf, total
<1>8. 256 * a <= 12 * N /\ 256 * (-a) <= 12 * N
  BY <1>2, <1>4, <1>5
<1>9. 256 * e <= Size(Q - D) /\ 256 * (-e) <= Size(Q - D)
  <2>1. Size(Q - D) \in Nat
    BY SizeIsNatural
  <2> QED
    BY <1>2, <1>4, <1>6, <2>1
<1>10. 256 * Size(Q - D) <= 268 * (N + D)
  BY <1>2, <1>7, <1>8 DEF Size
<1>11. 256 * Size(Y) <= 257 * Size(Q - D)
  BY <1>2, <1>7, <1>9 DEF Size
<1>12. Size(Q - D) \in Nat /\ Size(Y) \in Nat
  BY SizeIsNatural
<1>13. /\ Pf + 10000 * Pe + 10000 * Pa <= 160000 * (N + D)
       /\ -(Pf + 10000 * Pe + 10000 * Pa) <= 160000 * (N + D)
  BY <1>2, <1>4, <1>10, <1>11, <1>12
<1> QED
  BY <1>3, <1>13 DEF Within, P, total

-----------------------------------------------------------------------------
LEMMA NumberParts ==
  ASSUME NEW n \in Int
  PROVE  Number(n)[1] = n /\ Number(n)[2] = 1 /\ Number(n) # NaN
  BY DEF Number, NaN

LEMMA SizeTimes ==
  ASSUME NEW n \in Int, NEW c \in Nat
  PROVE  Size(n * c) = Size(n) * c
<1>1. CASE n < 0
  <2>1. n * c <= 0 /\ (-n) * c = -(n * c)
    BY <1>1
  <2>2. n * c = 0 \/ n * c < 0
    BY <2>1
  <2> QED
    BY <1>1, <2>1, <2>2 DEF Size
<1>2. CASE n >= 0
  <2>1. n * c >= 0
    BY <1>2
  <2> QED
    BY <1>2, <2>1 DEF Size
<1> QED
  BY <1>1, <1>2

\* What Bps returns differs from the exact premium of x over q by less than
\* 16 parts in Precision of the sum of the two, if its price p is that near to x.
LEMMA PremiumWithin ==
  ASSUME NEW p \in Positive64, NEW x \in Positive64, NEW q \in Positive64,
         NEW k \in Nat, k <= 10, Near(p, x, k)
  PROVE  LET b == Bps(p, q)
             n == x[1] * q[2]
             d == x[2] * q[1]
         IN  /\ b \in Finite64
             /\ n \in Nat /\ n > 0 /\ d \in Nat /\ d > 0
             /\ Within(b[1] * d, (10000 * (n - d)) * b[2], (16 * (10000 * (n + d))) * b[2])
<1> DEFINE b == Bps(p, q)
           n == x[1] * q[2]
           d == x[2] * q[1]
           o == Over(p, q)
           y == MinusOne(o)
           xq == Mul(x, Inverse(q))
<1>1. n \in Nat /\ n > 0 /\ d \in Nat /\ d > 0
  <2>1. x[1] \in Nat /\ x[1] > 0 /\ x[2] \in Nat /\ x[2] > 0
    BY PositivePair
  <2>2. q[1] \in Nat /\ q[1] > 0 /\ q[2] \in Nat /\ q[2] > 0
    BY PositivePair
  <2> QED
    BY <2>1, <2>2, ProductIsPositive
<1>2. o \in Positive64 /\ Near(o, xq, k + 2)
  BY OverNear
<1>3. xq[1] = n /\ xq[2] = d
  <2>1. Inverse(q) \in Positive64 /\ Inverse(q)[1] = q[2] /\ Inverse(q)[2] = q[1]
    BY MulPositive
  <2> QED
    BY <2>1 DEF Mul
<1>4. o[1] \in Nat /\ o[2] \in Nat /\ o[2] > 0
  BY <1>2, PositivePair
<1>5. b = Product(y, Number(10000))
  BY DEF Bps
<1>6. y = Float(o[1] - o[2], o[2])
  BY DEF MinusOne
<1> HIDE DEF b, n, d, o, y, xq
<1>7. /\ y \in Finite64
      /\ Within(y[1] * o[2], (o[1] - o[2]) * y[2], Size(o[1] - o[2]) * y[2])
  <2>1. o[1] - o[2] \in Int
    BY <1>4
  <2> QED
    BY <1>4, <1>6, <2>1, FloatWithin
<1>8. y[1] \in Int /\ y[2] \in Nat /\ y[2] > 0
  BY <1>7, FiniteParts
<1>9. b \in Finite64 /\ Within(b[1] * y[2], (y[1] * 10000) * b[2], Size(y[1] * 10000) * b[2])
  <2>1. b = Float(y[1] * 10000, y[2] * 1)
    BY <1>5 DEF Product, Number
  <2>2. y[1] * 10000 \in Int /\ y[2] * 1 = y[2]
    BY <1>8
  <2> QED
    BY <1>8, <2>1, <2>2, FloatWithin
<1>10. b[1] \in Int /\ b[2] \in Nat /\ b[2] > 0
  BY <1>9, FiniteParts
<1> DEFINE c1 == y[2] * b[2]
           c2 == d * b[2]
           c3 == d * o[2]
           Q == (o[1] * d) * c1
           N == (n * o[2]) * c1
           D == (d * o[2]) * c1
           Y == (y[1] * o[2]) * c2
           B == (b[1] * y[2]) * c3
<1>11. c1 \in Nat /\ c2 \in Nat /\ c3 \in Nat
  BY <1>1, <1>4, <1>8, <1>10
<1>12. Within(Q, N, 12 * N)
  <2> DEFINE u == o[1] * d
             v == n * o[2]
  <2>1. u \in Int /\ v \in Nat
    BY <1>1, <1>4
  <2>2. Close(u, v, k + 2)
    BY <1>2, <1>3 DEF Near
  <2> HIDE DEF u, v
  <2>3. (k + 2) * v <= 12 * v
    BY <2>1
  <2>4. Precision * (u - v) \in Int /\ Precision * (v - u) \in Int
    BY <2>1, PrecisionIsNatural
  <2>5. Within(u, v, 12 * v)
    BY <2>1, <2>2, <2>3, <2>4 DEF Within, Close
  <2> HIDE DEF c1
  <2> DEFINE w == 12 * v
  <2>6. w \in Int /\ Within(u, v, w)
    BY <2>1, <2>5
  <2>7. w * c1 = 12 * (v * c1)
    BY <1>11, <2>1
  <2> HIDE DEF w
  <2>8. Within(u * c1, v * c1, w * c1)
    BY <1>11, <2>1, <2>6, WithinTimes
  <2> QED
    BY <2>7, <2>8 DEF u, v
<1>13. Within(Y, Q - D, Size(Q - D))
  <2> DEFINE u == y[1] * o[2]
             v == (o[1] - o[2]) * y[2]
             e == Size(o[1] - o[2]) * y[2]
  <2>0. o[1] - o[2] \in Int /\ Size(o[1] - o[2]) \in Nat
    BY <1>4, SizeIsNatural
  <2>1. u \in Int /\ v \in Int /\ e \in Int
    BY <1>4, <1>8, <2>0
  <2>2. Within(u, v, e)
    BY <1>7
  <2>3. v * c2 = Q - D
    BY <1>1, <1>4, <1>8, <1>10
  <2>4. e * c2 = Size(v * c2)
    <3>1. Size(v) = e
      BY <1>8, <2>0, SizeTimes
    <3> HIDE DEF v, e, c2
    <3> QED
      BY <1>11, <2>1, <3>1, SizeTimes
  <2> HIDE DEF u, v, e, c2, Q, D
  <2>5. Within(u * c2, v * c2, e * c2)
    BY <1>11, <2>1, <2>2, WithinTimes
  <2> QED
    BY <2>3, <2>4, <2>5 DEF u
<1>14. Within(B, 10000 * Y, 10000 * Size(Y))
  <2> DEFINE u == b[1] * y[2]
             v == (y[1] * 10000) * b[2]
             e == Size(y[1] * 10000) * b[2]
  <2>0. y[1] * 10000 \in Int /\ Size(y[1] * 10000) \in Nat
    BY <1>8, SizeIsNatural
  <2>1. u \in Int /\ v \in Int /\ e \in Int /\ Y \in Int
    BY <1>1, <1>4, <1>8, <1>10, <2>0
  <2>2. Within(u, v, e)
    BY <1>9
  <2>3. v * c3 = Y * 10000
    BY <1>1, <1>4, <1>8, <1>10
  <2>4. e * c3 = Size(v * c3)
    <3>1. Size(v) = e
      <4> DEFINE w == y[1] * 10000
      <4>1. w \in Int /\ b[2] \in Nat
        BY <1>10, <2>0
      <4> HIDE DEF w
      <4>2. Size(w * b[2]) = Size(w) * b[2]
        BY <4>1, SizeTimes
      <4> QED
        BY <4>2 DEF w
    <3> HIDE DEF v, e, c3
    <3> QED
      BY <1>11, <2>1, <3>1, SizeTimes
  <2> HIDE DEF u, v, e, c3, Y
  <2>5. Within(u * c3, v * c3, e * c3)
    BY <1>11, <2>1, <2>2, WithinTimes
  <2>8. \A j \in Nat : Size(Y * j) = Size(Y) * j
    BY <2>1, SizeTimes
  <2>6. Size(Y * 10000) = Size(Y) * 10000 /\ Size(Y) \in Nat
    BY <2>1, <2>8, SizeIsNatural
  <2>7. Y * 10000 = 10000 * Y /\ Size(Y) * 10000 = 10000 * Size(Y)
    BY <2>1, <2>6
  <2> QED
    BY <2>3, <2>4, <2>5, <2>6, <2>7 DEF u
<1>15. N \in Nat /\ D \in Nat /\ Q \in Int /\ Y \in Int /\ B \in Int
  BY <1>1, <1>4, <1>8, <1>10, <1>11
<1>16. Within(B, 10000 * (N - D), 16 * (10000 * (N + D)))
  <2> HIDE DEF N, D, Q, Y, B
  <2> QED
    BY <1>12, <1>13, <1>14, <1>15, ErrorsAdd
<1> DEFINE c == y[2] * o[2]
           f == b[1] * d
           g == (10000 * (n - d)) * b[2]
           h == (16 * (10000 * (n + d))) * b[2]
<1>17. c \in Nat /\ c > 0
  BY <1>4, <1>8, ProductIsPositive
<1>18. f \in Int /\ g \in Int /\ h \in Int
  BY <1>1, <1>10
<1>19. B = f * c
  BY <1>1, <1>4, <1>8, <1>10
<1>20. 10000 * (N - D) = g * c
  BY <1>1, <1>4, <1>8, <1>10
<1>21. 16 * (10000 * (N + D)) = h * c
  BY <1>1, <1>4, <1>8, <1>10
<1> HIDE DEF B, N, D, Y, Q, c, f, g, h
<1>23. Within(f * c, g * c, h * c)
  BY <1>16, <1>19, <1>20, <1>21
<1>22. Within(f, g, h)
  BY <1>17, <1>18, <1>23, WithinCancel
<1> QED
  BY <1>1, <1>9, <1>22 DEF b, n, d, f, g, h

\* A computed number b and a limit t: the exact value V/d, less the limit,
\* decides but for the margin.
LEMMA ComparedWithLimit ==
  ASSUME NEW b \in Finite64, NEW d \in Nat, d > 0, NEW V \in Int, NEW s \in Nat, NEW t \in Int,
         Within(b[1] * d, V * b[2], (16 * s) * b[2])
  PROVE  /\ V - t * d > Margin(s) => b[1] > t * b[2]
         /\ b[1] > t * b[2] => V - t * d >= -Margin(s)
<1> DEFINE P == Precision
           H == P \div 16
           m == Margin(s)
           e == V - t * d
           over == b[1] - t * b[2]
<1>1. P \in Nat /\ H \in Nat /\ H > 0 /\ 16 * H = P
  BY PrecisionIsNatural
<1>2. b[1] \in Int /\ b[2] \in Nat /\ b[2] > 0
  BY FiniteParts
<1>3. m \in Nat /\ s % H \in Nat /\ s = H * m + (s % H) /\ s % H < H
  <2> HIDE DEF H
  <2>1. s \div H \in Nat /\ s % H \in Nat /\ s = H * (s \div H) + (s % H) /\ s % H < H
    BY <1>1, DivisionParts
  <2> QED
    BY <2>1 DEF m, Margin, H, P
<1>4. e \in Int /\ t * d \in Int /\ over \in Int
  BY <1>2
<1>5. P * (b[1] * d - V * b[2]) <= (16 * s) * b[2] /\ P * (V * b[2] - b[1] * d) <= (16 * s) * b[2]
  BY DEF Within
<1> HIDE DEF P, H, m
<1>6. b[1] * d - V * b[2] = over * d - e * b[2] /\ V * b[2] - b[1] * d = e * b[2] - over * d
  BY <1>2
<1>7. ASSUME e > m PROVE over > 0
  <2>1. SUFFICES ASSUME over <= 0 PROVE FALSE
    BY <1>4
  <2>2. e * H > s
    <3>1. e >= m + 1
      BY <1>3, <1>4, <1>7
    <3>2. (m + 1) * H <= e * H
      BY <1>1, <1>3, <1>4, <3>1, TimesKeepsOrder
    <3> QED
      BY <1>1, <1>3, <1>4, <3>2
  <2> HIDE DEF e, over
  <2>3. over * d <= 0
    BY <1>4, <2>1
  <2>4. e * b[2] \in Int /\ over * d \in Int
    BY <1>2, <1>4
  <2>5. P * (e * b[2]) <= P * (e * b[2] - over * d)
    BY <1>1, <2>3, <2>4
  <2>6. P * (e * b[2]) = (16 * (e * H)) * b[2]
    <3>1. (16 * H) * (e * b[2]) = (16 * (e * H)) * b[2]
      BY <1>1, <1>2, <1>4
    <3> QED
      BY <1>1, <3>1
  <2>7. (16 * (e * H)) * b[2] <= (16 * s) * b[2]
    BY <1>5, <1>6, <2>5, <2>6, <1>1, <1>2, <1>4, <2>4
  <2>8. 16 * (e * H) <= 16 * s
    <3>1. 16 * (e * H) \in Int /\ 16 * s \in Int
      BY <1>1, <1>4
    <3> QED
      BY <1>2, <2>7, <3>1, CancelOrder
  <2>9. e * H \in Int
    BY <1>1, <1>4
  <2> QED
    BY <2>2, <2>8, <2>9
<1>8. ASSUME over > 0 PROVE e >= -m
  <2>1. SUFFICES ASSUME -e >= m + 1 PROVE FALSE
    BY <1>3, <1>4
  <2>2. (-e) * H > s
    <3>1. (m + 1) * H <= (-e) * H
      BY <1>1, <1>3, <1>4, <2>1, TimesKeepsOrder
    <3> QED
      BY <1>1, <1>3, <1>4, <3>1
  <2> HIDE DEF e, over
  <2>3. over * d >= 0
    BY <1>4, <1>8
  <2>4. e * b[2] \in Int /\ over * d \in Int
    BY <1>2, <1>4
  <2>5. P * (-(e * b[2])) <= P * (over * d - e * b[2])
    BY <1>1, <2>3, <2>4
  <2>6. P * (-(e * b[2])) = (16 * ((-e) * H)) * b[2]
    <3>1. (16 * H) * (-(e * b[2])) = (16 * ((-e) * H)) * b[2]
      BY <1>1, <1>2, <1>4
    <3> QED
      BY <1>1, <3>1
  <2>7. (16 * ((-e) * H)) * b[2] <= (16 * s) * b[2]
    BY <1>5, <1>6, <2>5, <2>6, <1>1, <1>2, <1>4, <2>4
  <2>8. 16 * ((-e) * H) <= 16 * s
    <3>1. 16 * ((-e) * H) \in Int /\ 16 * s \in Int
      BY <1>1, <1>4
    <3> QED
      BY <1>2, <2>7, <3>1, CancelOrder
  <2>9. (-e) * H \in Int
    BY <1>1, <1>4
  <2> QED
    BY <2>2, <2>8, <2>9
<1>9. t * b[2] \in Int
  BY <1>2
<1> QED
  BY <1>2, <1>4, <1>7, <1>8, <1>9 DEF m, e, over

-----------------------------------------------------------------------------
\* The rules and snapshots of ViewsAssumption.
RuleOK(r) ==
  /\ r.enabled \in BOOLEAN /\ r.sinceTrigger \in Nat \cup {Never}
  /\ r.budget \in Nat \ {0} /\ r.maxPremiumBps \in Int
  /\ r.maxImpactBps \in 0 .. Precision - 1
SnapOK(s) == s.token \in Finite64 /\ s.mark \in Finite64 /\ s.age \in Int

LEMMA GreaterThanNumber ==
  ASSUME NEW x \in Finite64, NEW n \in Int
  PROVE  /\ Greater(x, Number(n)) <=> x[1] > n * x[2]
         /\ Greater(Number(n), x) <=> n * x[2] > x[1]
  BY FiniteParts, NumberParts DEF Greater, Finite

LEMMA PositiveParts ==
  ASSUME NEW x \in Int \X Nat
  PROVE  /\ Positive(x) <=> x[1] > 0 /\ x[2] > 0
         /\ Positive(x) <=> x \in Positive64
<1>0. x[1] \in Int /\ x[2] \in Nat /\ x = <<x[1], x[2]>>
  OBVIOUS
<1>1. x \in Positive64 <=> x[1] > 0 /\ x[2] > 0
  BY <1>0 DEF Positive64
<1>2. CASE x[2] > 0
  <2>1. x \in Finite64
    BY <1>2 DEF Finite64
  <2>2. Greater(x, Number(0)) <=> x[1] > 0
    BY <2>1, FiniteParts, GreaterThanNumber
  <2> QED
    BY <1>1, <1>2, <2>1, <2>2 DEF Positive, Finite
<1>3. CASE ~(x[2] > 0)
  BY <1>1, <1>3 DEF Positive, Finite
<1> QED
  BY <1>2, <1>3

LEMMA InvalidPriceParts ==
  ASSUME NEW s, SnapOK(s)
  PROVE  /\ InvalidPrice(s) <=> s.token[1] <= 0 \/ s.mark[1] <= 0
         /\ ~InvalidPrice(s) => s.token \in Positive64 /\ s.mark \in Positive64
<1>1. /\ s.token \in Int \X Nat /\ s.token[2] > 0 /\ s.token[1] \in Int
      /\ s.mark \in Int \X Nat /\ s.mark[2] > 0 /\ s.mark[1] \in Int
  BY DEF SnapOK, Finite64
<1>2. (Positive(s.token) <=> s.token[1] > 0) /\ (Positive(s.token) => s.token \in Positive64)
  BY <1>1, PositiveParts
<1>3. (Positive(s.mark) <=> s.mark[1] > 0) /\ (Positive(s.mark) => s.mark \in Positive64)
  BY <1>1, PositiveParts
<1> QED
  BY <1>1, <1>2, <1>3 DEF InvalidPrice

\* A premium above a limit: what is computed of a price p near x, and what the
\* check says of the exact x.
LEMMA PremiumAboveLimit ==
  ASSUME NEW p \in Positive64, NEW x \in Positive64, NEW q \in Positive64,
         NEW k \in Nat, k <= 10, Near(p, x, k), NEW t \in Int
  PROVE  LET num == x[1] * q[2]
             den == x[2] * q[1]
             above == Greater(Bps(p, q), Number(t))
             excess == Excess(num, den, t)
             margin == Margin((num + den) * 10000)
         IN  (excess > margin => above) /\ (above => excess >= -margin)
<1> DEFINE b == Bps(p, q)
           n == x[1] * q[2]
           d == x[2] * q[1]
           V == 10000 * (n - d)
           s == 10000 * (n + d)
<1>1. /\ b \in Finite64
      /\ n \in Nat /\ n > 0 /\ d \in Nat /\ d > 0
      /\ Within(b[1] * d, V * b[2], (16 * s) * b[2])
  BY PremiumWithin
<1> HIDE DEF b, n, d
<1>2. V \in Int /\ s \in Nat
  BY <1>1
<1>3. Excess(n, d, t) = V - t * d /\ (n + d) * 10000 = s
  BY <1>1 DEF Excess
<1> HIDE DEF V, s
<1>4. /\ V - t * d > Margin(s) => b[1] > t * b[2]
      /\ b[1] > t * b[2] => V - t * d >= -Margin(s)
  BY <1>1, <1>2, ComparedWithLimit
<1>5. Greater(b, Number(t)) <=> b[1] > t * b[2]
  BY <1>1, GreaterThanNumber
<1> QED
  BY <1>3, <1>4, <1>5 DEF b, n, d

\* A price at or below the mark has no premium, however it is rounded.
LEMMA NoPremiumAtMark ==
  ASSUME NEW p \in Positive64, NEW q \in Positive64, p[1] * q[2] <= p[2] * q[1],
         NEW t \in Nat
  PROVE  ~Greater(Bps(p, q), Number(t))
<1> DEFINE a == Over(p, q)
           e == MinusOne(a)
           b == Product(e, Number(10000))
<1>1. /\ p[1] * q[2] \in Nat /\ p[2] * q[1] \in Nat /\ p[2] * q[1] > 0
      /\ p[1] * q[2] <= 1 * (p[2] * q[1])
  BY PositivePair, ProductIsPositive
<1>2. a \in Finite64 /\ a[1] <= 1 * a[2]
  BY <1>1, PrecisionIsNatural, FloatWithin, FloatAtMost DEF Over
<1> HIDE DEF a
<1>3. a[1] \in Int /\ a[2] \in Nat /\ a[2] > 0
  BY <1>2, FiniteParts
<1>4. e \in Finite64 /\ ~(e[1] > 0)
  <2>1. a[1] - a[2] \in Int /\ ~(a[1] - a[2] > 0)
    BY <1>2, <1>3
  <2> QED
    BY <1>3, <2>1, FloatWithin DEF MinusOne
<1> HIDE DEF e
<1>5. e[1] \in Int /\ e[2] \in Nat /\ e[2] > 0
  BY <1>4, FiniteParts
<1>6. b \in Finite64 /\ ~(b[1] > 0)
  <2>1. e[1] * 10000 \in Int /\ ~(e[1] * 10000 > 0)
    BY <1>4, <1>5
  <2>2. e[2] * 1 = e[2]
    BY <1>5
  <2>3. b = Float(e[1] * 10000, e[2])
    BY <2>2, NumberParts DEF Product
  <2> QED
    BY <1>5, <2>1, <2>3, FloatWithin
<1> HIDE DEF b
<1>7. b[1] <= t * b[2]
  <2>1. b[1] \in Int /\ b[2] \in Nat
    BY <1>6, FiniteParts
  <2>2. t * b[2] \in Nat
    BY <2>1
  <2> QED
    BY <1>6, <2>1, <2>2
<1>8. ~(b[1] > t * b[2])
  <2>1. b[1] \in Int /\ t * b[2] \in Int
    BY <1>6, FiniteParts
  <2> QED
    BY <1>7, <2>1
<1>9. ~Greater(b, Number(t))
  BY <1>6, <1>8, GreaterThanNumber
<1> QED
  BY <1>9 DEF a, b, e, Bps

LEMMA AbsParts ==
  ASSUME NEW x \in Finite64
  PROVE  Abs(x) \in Finite64 /\ Abs(x)[1] = Size(x[1]) /\ Abs(x)[2] = x[2]
<1>1. x[1] \in Int /\ x[2] \in Nat /\ x[2] > 0 /\ x = <<x[1], x[2]>>
  BY FiniteParts
<1>2. CASE x[1] < 0
  <2>1. Abs(x) = <<-x[1], x[2]>> /\ Size(x[1]) = -x[1]
    BY <1>2 DEF Abs, Negated, Size
  <2> QED
    BY <1>1, <2>1 DEF Finite64
<1>3. CASE ~(x[1] < 0)
  BY <1>3 DEF Abs, Size
<1> QED
  BY <1>2, <1>3

LEMMA DivergenceAboveLimit ==
  ASSUME NEW p \in Positive64, NEW x \in Positive64, NEW q \in Positive64,
         NEW k \in Nat, k <= 10, Near(p, x, k), NEW t \in Nat
  PROVE  LET num == x[1] * q[2]
             den == x[2] * q[1]
             above == Greater(Abs(Bps(p, q)), Number(t))
             excess == Size(num - den) * 10000 - t * den
             margin == Margin((num + den) * 10000)
         IN  (excess > margin => above) /\ (above => excess >= -margin)
<1> DEFINE b == Bps(p, q)
           n == x[1] * q[2]
           d == x[2] * q[1]
           V == 10000 * (n - d)
           s == 10000 * (n + d)
           a == Abs(b)
<1>1. /\ b \in Finite64
      /\ n \in Nat /\ n > 0 /\ d \in Nat /\ d > 0
      /\ Within(b[1] * d, V * b[2], (16 * s) * b[2])
  BY PremiumWithin
<1> HIDE DEF b, n, d
<1>2. V \in Int /\ s \in Nat /\ n - d \in Int
  BY <1>1
<1>3. Size(V) = Size(n - d) * 10000 /\ (n + d) * 10000 = s
  <2>1. \A j \in Nat : Size((n - d) * j) = Size(n - d) * j
    BY <1>2, SizeTimes
  <2>2. V = (n - d) * 10000
    BY <1>1
  <2> QED
    BY <1>1, <2>1, <2>2
<1> HIDE DEF V, s
<1>4. b[1] \in Int /\ b[2] \in Nat /\ b[2] > 0
  BY <1>1, FiniteParts
<1>5. a \in Finite64 /\ a[1] = Size(b[1]) /\ a[2] = b[2]
  BY <1>1, AbsParts
<1> HIDE DEF a
<1>6. Within(a[1] * d, Size(V) * a[2], (16 * s) * a[2])
  <2> DEFINE f == b[1] * d
             g == V * b[2]
             e == (16 * s) * b[2]
  <2>1. f \in Int /\ g \in Int /\ e \in Int
    BY <1>1, <1>2, <1>4
  <2>2. Size(f) = Size(b[1]) * d /\ Size(g) = Size(V) * b[2]
    BY <1>1, <1>2, <1>4, SizeTimes
  <2>3. Within(f, g, e)
    BY <1>1
  <2> HIDE DEF f, g, e
  <2>4. Within(Size(f), Size(g), e)
    BY <2>1, <2>3, WithinAbs
  <2> QED
    BY <1>5, <2>2, <2>4 DEF e
<1> DEFINE W == Size(V)
<1>7. W \in Int /\ Within(a[1] * d, W * a[2], (16 * s) * a[2])
  BY <1>2, <1>6, SizeIsNatural
<1> HIDE DEF W
<1>8. /\ W - t * d > Margin(s) => a[1] > t * a[2]
      /\ a[1] > t * a[2] => W - t * d >= -Margin(s)
  BY <1>1, <1>2, <1>5, <1>7, ComparedWithLimit
<1>9. Greater(a, Number(t)) <=> a[1] > t * a[2]
  BY <1>5, GreaterThanNumber
<1> QED
  BY <1>3, <1>8, <1>9 DEF a, b, n, d, W

LEMMA ImpactAboveLimit ==
  ASSUME NEW x \in Finite64, NEW c \in Nat, NEW t \in 0 .. Precision - 1
  PROVE  LET above == Greater(Product(x, Number(c)), Number(t))
             excess == x[1] * c - t * x[2]
             margin == Margin(Size(x[1] * c))
         IN  (excess > margin => above) /\ (above => excess >= -margin /\ x[1] * c > t * x[2])
<1> DEFINE b == Product(x, Number(c))
           V == x[1] * c
           d == x[2]
           s == Size(V)
<1>1. d \in Nat /\ d > 0 /\ x[1] \in Int
  BY FiniteParts
<1>2. V \in Int /\ s \in Nat
  BY <1>1, SizeIsNatural
<1>3. b = Float(V, d)
  <2>1. b = Float(V, d * 1)
    BY DEF Product, Number
  <2>2. d * 1 = d
    BY <1>1
  <2> QED
    BY <2>1, <2>2
<1> HIDE DEF b, V, d, s
<1>4. b \in Finite64 /\ Within(b[1] * d, V * b[2], s * b[2])
  BY <1>1, <1>2, <1>3, FloatWithin DEF s
<1>5. b[1] \in Int /\ b[2] \in Nat /\ b[2] > 0
  BY <1>4, FiniteParts
<1>6. Within(b[1] * d, V * b[2], (16 * s) * b[2])
  <2>1. s * b[2] <= (16 * s) * b[2]
    BY <1>2, <1>5
  <2>2. /\ Precision * (b[1] * d - V * b[2]) \in Int /\ Precision * (V * b[2] - b[1] * d) \in Int
        /\ s * b[2] \in Int /\ (16 * s) * b[2] \in Int
    BY <1>1, <1>2, <1>5, PrecisionIsNatural
  <2> QED
    BY <1>4, <2>1, <2>2 DEF Within
<1>7. /\ V - t * d > Margin(s) => b[1] > t * b[2]
      /\ b[1] > t * b[2] => V - t * d >= -Margin(s)
  BY <1>1, <1>2, <1>4, <1>6, ComparedWithLimit
<1>8. Greater(b, Number(t)) <=> b[1] > t * b[2]
  BY <1>4, GreaterThanNumber
<1>9. t \in Nat /\ t < Precision
  BY PrecisionIsNatural
<1>10. V <= t * d => b[1] <= t * b[2]
  BY <1>1, <1>2, <1>3, <1>9, FloatAtMost
<1>11. b[1] > t * b[2] => V > t * d
  <2>1. t * d \in Int /\ t * b[2] \in Int
    BY <1>1, <1>5, <1>9
  <2> QED
    BY <1>2, <1>5, <1>10, <2>1
<1> QED
  BY <1>7, <1>8, <1>11 DEF b, V, d, s

-----------------------------------------------------------------------------
\* Stage 1 and the checks 1 to 5.
Stage1Reasons ==
  {"disabled", "cooldown_active", "snapshot_stale", "invalid_price", "premium_above_threshold"}

LEMMA PrecheckByNumber ==
  ASSUME NEW r, RuleOK(r), NEW s, SnapOK(s)
  PROVE  LET v == Precheck(r, s)
         IN  /\ v \in Stage1Reasons \cup {Pass}
             /\ v \in Stage1Reasons =>
                  ReasonOf[v] <= 5 /\ FirstOf(ReasonOf[v], Failing(TRUE, r, s), Failing(FALSE, r, s))
             /\ v = Pass => Failing(TRUE, r, s) = {} /\ ~InvalidPrice(s)
<1> DEFINE T == Failing(TRUE, r, s)
           F == Failing(FALSE, r, s)
           v == Precheck(r, s)
           above == Greater(Bps(s.token, s.mark), Number(r.maxPremiumBps))
           den == s.token[2] * s.mark[1]
           num == s.token[1] * s.mark[2]
           excess == Excess(num, den, r.maxPremiumBps)
           margin == Margin((num + den) * 10000)
           premium == r.maxPremiumBps >= 0 => num > den
<1>1. /\ T \subseteq 1 .. 5
      /\ 1 \in T <=> ~r.enabled
      /\ 2 \in T <=> r.sinceTrigger \in 0 .. RuleCooldown - 1
      /\ 3 \in T <=> s.age > MaxSnapshotAge
      /\ 4 \in T <=> s.token[1] <= 0 \/ s.mark[1] <= 0
      /\ 5 \in T <=> premium /\ excess > margin
  BY DEF Failing, Fails
<1>2. /\ 1 \in F <=> ~r.enabled
      /\ 2 \in F <=> r.sinceTrigger \in 0 .. RuleCooldown - 1
      /\ 3 \in F <=> s.age > MaxSnapshotAge
      /\ 4 \in F <=> s.token[1] <= 0 \/ s.mark[1] <= 0
      /\ 5 \in F <=> premium /\ excess >= -margin
  BY DEF Failing, Fails
<1>3. ASSUME ~InvalidPrice(s)
      PROVE  (5 \in T => above) /\ (above => 5 \in F)
  <2>1. s.token \in Positive64 /\ s.mark \in Positive64 /\ r.maxPremiumBps \in Int
    BY <1>3, InvalidPriceParts DEF RuleOK
  <2>2. Near(s.token, s.token, 0)
    BY <2>1, NearItself
  <2>3. (excess > margin => above) /\ (above => excess >= -margin)
    BY <2>1, <2>2, PremiumAboveLimit
  <2>4. above => premium
    <3> SUFFICES ASSUME r.maxPremiumBps >= 0, ~(num > den) PROVE ~above
      OBVIOUS
    <3>1. num \in Nat /\ den \in Nat
      BY <2>1, PositivePair, ProductIsPositive
    <3>2. num <= den
      BY <3>1
    <3>3. r.maxPremiumBps \in Nat
      BY <2>1
    <3> QED
      BY <2>1, <3>2, <3>3, NoPremiumAtMark
  <2> HIDE DEF T, F, above, excess, margin, premium
  <2> QED
    BY <1>1, <1>2, <2>3, <2>4
<1> HIDE DEF T, F, v, above, excess, margin, premium
<1>4. /\ 2 \in T <=> r.sinceTrigger # Never /\ r.sinceTrigger < RuleCooldown
      /\ 2 \in F <=> r.sinceTrigger # Never /\ r.sinceTrigger < RuleCooldown
  BY <1>1, <1>2, DecisionAssumption DEF RuleOK, Never
<1>5. (4 \in T <=> InvalidPrice(s)) /\ (4 \in F <=> InvalidPrice(s))
  BY <1>1, <1>2, InvalidPriceParts
<1>6. v = IF 1 \in T THEN "disabled" ELSE IF 2 \in T THEN "cooldown_active"
          ELSE IF 3 \in T THEN "snapshot_stale" ELSE IF 4 \in T THEN "invalid_price"
          ELSE IF above THEN "premium_above_threshold" ELSE Pass
  BY <1>1, <1>4, <1>5 DEF Precheck, Check, v, above
<1>7. /\ ReasonOf["disabled"] = 1 /\ ReasonOf["cooldown_active"] = 2
      /\ ReasonOf["snapshot_stale"] = 3 /\ ReasonOf["invalid_price"] = 4
      /\ ReasonOf["premium_above_threshold"] = 5
  BY DEF ReasonOf
<1>8. \A n \in 1 .. 4 : n \in T <=> n \in F
  BY <1>1, <1>2
<1>9. v \in Stage1Reasons => ReasonOf[v] <= 5 /\ FirstOf(ReasonOf[v], T, F)
  <2>1. CASE 1 \in T
    <3>1. v = "disabled"
      BY <1>6, <2>1
    <3>2. FirstOf(1, T, F)
      BY <1>1, <1>8, <2>1 DEF FirstOf
    <3> QED
      BY <1>7, <3>1, <3>2
  <2>2. CASE 1 \notin T /\ 2 \in T
    <3>1. v = "cooldown_active"
      BY <1>6, <2>2
    <3>2. FirstOf(2, T, F)
      BY <1>1, <1>8, <2>2 DEF FirstOf
    <3> QED
      BY <1>7, <3>1, <3>2
  <2>3. CASE {1, 2} \cap T = {} /\ 3 \in T
    <3>1. v = "snapshot_stale"
      BY <1>6, <2>3
    <3>2. FirstOf(3, T, F)
      BY <1>1, <1>8, <2>3 DEF FirstOf
    <3> QED
      BY <1>7, <3>1, <3>2
  <2>4. CASE {1, 2, 3} \cap T = {} /\ 4 \in T
    <3>1. v = "invalid_price"
      BY <1>6, <2>4
    <3>2. FirstOf(4, T, F)
      BY <1>1, <1>8, <2>4 DEF FirstOf
    <3> QED
      BY <1>7, <3>1, <3>2
  <2>5. CASE {1, 2, 3, 4} \cap T = {} /\ above
    <3>1. v = "premium_above_threshold"
      BY <1>6, <2>5
    <3>2. FirstOf(5, T, F)
      BY <1>1, <1>3, <1>5, <2>5 DEF FirstOf
    <3> QED
      BY <1>7, <3>1, <3>2
  <2>6. CASE {1, 2, 3, 4} \cap T = {} /\ ~above
    BY <1>6, <2>6 DEF Stage1Reasons, Pass
  <2> QED
    BY <2>1, <2>2, <2>3, <2>4, <2>5, <2>6
<1>10. v = Pass => T = {} /\ ~InvalidPrice(s)
  <2> SUFFICES ASSUME v = Pass PROVE T = {} /\ ~InvalidPrice(s)
    OBVIOUS
  <2>1. {1, 2, 3, 4} \cap T = {} /\ ~above
    BY <1>6 DEF Pass
  <2>2. 5 \notin T
    BY <1>3, <1>5, <2>1
  <2> QED
    BY <1>1, <1>5, <2>1, <2>2
<1>11. v \in Stage1Reasons \cup {Pass}
  BY <1>6 DEF Stage1Reasons
<1> QED
  BY <1>9, <1>10, <1>11 DEF T, F, v

-----------------------------------------------------------------------------
\* Stage 2 and the checks 7 to 9.
Stage2Reasons == {"price_divergence", "price_impact_too_high", "exec_premium_above_threshold"}

\* The tokens a usable route and mint give, as computed and exactly.
LEMMA OutTokensParts ==
  ASSUME NEW x \in Routes, NEW m \in MintInfos, Quotable(x, m)
  PROVE  LET exact == Mul(Mul(x.outAmount, Inverse(Number(m.unit))), m.multiplier)
         IN  /\ x.impact \in Finite64
             /\ x.outAmount \in Positive64 /\ Number(m.unit) \in Positive64
             /\ m.multiplier \in Positive64
             /\ OutTokens(x, m) \in Positive64 /\ exact \in Positive64
             /\ Near(OutTokens(x, m), exact, 4)
<1> DEFINE o == x.outAmount
           k == m.multiplier
           u == Number(m.unit)
           ov == Over(o, u)
           t == OutTokens(x, m)
<1>1. /\ o \in Int \X Nat /\ Positive(o) /\ k \in Int \X Nat /\ m.unit \in Nat /\ m.unit > 0
      /\ x.impact \in Int \X Nat /\ Finite(x.impact)
  BY DecisionAssumption DEF Quotable, UsableAmount, UsableImpact, Float64
<1>2. x.impact \in Finite64
  BY <1>1 DEF Finite, Finite64
<1>3. o \in Positive64
  BY <1>1, PositiveParts
<1>4. u \in Positive64
  BY <1>1 DEF Number, Positive64
<1>5. t = Product(ov, k) /\ Positive(t)
  BY DEF OutTokens, Quotable
<1> HIDE DEF o, k, u, ov, t
<1>6. Near(o, o, 0)
  BY <1>3, NearItself
<1>7. ov \in Positive64 /\ Near(ov, Mul(o, Inverse(u)), 0 + 2)
  BY <1>3, <1>4, <1>6, OverNear DEF ov
<1>8. k \in Positive64
  <2>1. ov[1] \in Nat /\ ov[1] > 0 /\ ov[2] \in Nat /\ ov[2] > 0 /\ k[1] \in Int /\ k[2] \in Nat
    BY <1>1, <1>7, PositivePair
  <2> DEFINE n == ov[1] * k[1]
             d == ov[2] * k[2]
  <2>2. n \in Int /\ d \in Nat
    BY <2>1
  <2>3. t = Float(n, d)
    BY <1>5 DEF Product
  <2>4. d # 0
    <3> HIDE DEF n, d
    <3> QED
      BY <1>5, <2>3 DEF Positive, Finite, Float
  <2>5. k[2] > 0
    BY <2>1, <2>4
  <2> HIDE DEF n, d
  <2>6. t \in Finite64 /\ (t[1] > 0 <=> n > 0)
    BY <2>2, <2>3, <2>4, FloatWithin
  <2>7. t \in Int \X Nat
    BY <2>6 DEF Finite64
  <2>8. t[1] > 0
    BY <1>5, <2>7, PositiveParts
  <2>9. k[1] > 0
    <3> SUFFICES ASSUME k[1] <= 0 PROVE FALSE
      BY <2>1
    <3>1. n <= 0
      BY <2>1 DEF n
    <3> QED
      BY <2>2, <2>6, <2>8, <3>1
  <2> QED
    BY <1>1, <2>5, <2>9, <2>1 DEF Positive64
<1> DEFINE e == Mul(o, Inverse(u))
<1>9. e \in Positive64 /\ Near(ov, e, 2)
  BY <1>3, <1>4, <1>7, MulPositive
<1> HIDE DEF e
<1>10. t \in Positive64 /\ Near(t, Mul(e, k), 2 + 2)
  BY <1>5, <1>7, <1>8, <1>9, ProductNear
<1>11. Mul(e, k) \in Positive64
  BY <1>8, <1>9, MulPositive
<1> QED
  BY <1>2, <1>3, <1>4, <1>8, <1>10, <1>11 DEF e, o, k, u, t

\* The price to be paid, as computed and exactly.
LEMMA PriceParts ==
  ASSUME NEW r, RuleOK(r), NEW x \in Routes, NEW m \in MintInfos, Quotable(x, m)
  PROVE  LET q == QuoteBuy(r.budget, x, m)
             exact == <<PriceNum(r, x, m), PriceDen(x, m)>>
         IN  /\ PricePerToken(q) \in Positive64 /\ exact \in Positive64
             /\ Near(PricePerToken(q), exact, 10)
             /\ q.inAmount = r.budget /\ Positive(q.outTokens)
<1> DEFINE q == QuoteBuy(r.budget, x, m)
           b == Number(r.budget)
           u == Number(USDCUnit)
           a == Amount(r.budget)
           A == Mul(b, Inverse(u))
           t == OutTokens(x, m)
           T == Mul(Mul(x.outAmount, Inverse(Number(m.unit))), m.multiplier)
           p == PricePerToken(q)
<1>1. /\ q.inAmount = r.budget /\ q.outTokens = t /\ Positive(t)
      /\ p = Over(a, t)
  BY DEF QuoteBuy, PricePerToken, Quotable
<1>2. b \in Positive64 /\ u \in Positive64
  BY DecisionAssumption DEF Number, Positive64, RuleOK
<1>3. /\ t \in Positive64 /\ T \in Positive64 /\ Near(t, T, 4)
      /\ x.outAmount \in Positive64 /\ Number(m.unit) \in Positive64 /\ m.multiplier \in Positive64
  BY OutTokensParts
<1>4. <<PriceNum(r, x, m), PriceDen(x, m)>> = Mul(A, Inverse(T))
  <2>1. /\ x.outAmount[1] \in Nat /\ x.outAmount[2] \in Nat
        /\ m.multiplier[1] \in Nat /\ m.multiplier[2] \in Nat
        /\ m.unit \in Nat /\ USDCUnit \in Nat /\ r.budget \in Nat
    BY <1>3, PositivePair, DecisionAssumption DEF RuleOK
  <2>2. A = <<r.budget * 1, 1 * USDCUnit>>
    BY DEF Mul, Inverse, Number
  <2>3. T = <<(x.outAmount[1] * 1) * m.multiplier[1], (x.outAmount[2] * m.unit) * m.multiplier[2]>>
    BY DEF Mul, Inverse, Number
  <2>4. Mul(A, Inverse(T)) =
          <<(r.budget * 1) * ((x.outAmount[2] * m.unit) * m.multiplier[2]),
            (1 * USDCUnit) * ((x.outAmount[1] * 1) * m.multiplier[1])>>
    BY <2>2, <2>3 DEF Mul, Inverse
  <2>5. PriceNum(r, x, m) = (r.budget * 1) * ((x.outAmount[2] * m.unit) * m.multiplier[2])
    BY <2>1 DEF PriceNum
  <2>6. PriceDen(x, m) = (1 * USDCUnit) * ((x.outAmount[1] * 1) * m.multiplier[1])
    BY <2>1 DEF PriceDen
  <2> QED
    BY <2>4, <2>5, <2>6
<1> HIDE DEF T, t, q, b, u, p
<1>5. a \in Positive64 /\ Near(a, A, 2)
  <2>1. Near(b, b, 0)
    BY <1>2, NearItself
  <2>2. Over(b, u) \in Positive64 /\ Near(Over(b, u), Mul(b, Inverse(u)), 0 + 2)
    BY <1>2, <2>1, OverNear
  <2> QED
    BY <2>2 DEF Amount, b, u
<1>6. A \in Positive64
  BY <1>2, MulPositive
<1> HIDE DEF a, A
<1> DEFINE i == Inverse(t)
           I == Inverse(T)
<1>7. i \in Positive64 /\ I \in Positive64 /\ Near(i, I, 5)
  BY <1>3, MulPositive, NearInverse
<1>8. p \in Positive64 /\ Near(p, Mul(A, i), 4)
  BY <1>1, <1>3, <1>5, <1>6, OverNear
<1> HIDE DEF i, I
<1>9. Mul(A, i) \in Positive64 /\ Mul(A, I) \in Positive64 /\ Near(Mul(A, i), Mul(A, I), 5)
  BY <1>6, <1>7, MulPositive, NearScaledLeft
<1> DEFINE y == Mul(A, i)
           z == Mul(A, I)
<1>10. y \in Positive64 /\ z \in Positive64 /\ Near(p, y, 4) /\ Near(y, z, 5)
  BY <1>8, <1>9
<1> HIDE DEF y, z
<1>11. 4 * 5 <= Precision
  BY PrecisionIsNatural
<1>12. Near(p, z, 4 + 5 + 1)
  BY <1>8, <1>10, <1>11, NearThrough
<1> QED
  BY <1>1, <1>4, <1>8, <1>10, <1>12 DEF z, I, p, q

LEMMA DecideByNumber ==
  ASSUME NEW r, RuleOK(r), NEW s, SnapOK(s), NEW x \in Routes, NEW m \in MintInfos,
         Quotable(x, m), Precheck(r, s) = Pass
  PROVE  LET v == Decide(r, s, QuoteBuy(r.budget, x, m))
             T == QuoteFailing(TRUE, r, s, x, m)
             F == QuoteFailing(FALSE, r, s, x, m)
         IN  /\ v \in Stage2Reasons \cup {"triggered"}
             /\ v \in Stage2Reasons => ReasonOf[v] > 5 /\ FirstOf(ReasonOf[v], T, F)
             /\ v = "triggered" => T = {}
<1> DEFINE q == QuoteBuy(r.budget, x, m)
           v == Decide(r, s, q)
           T == QuoteFailing(TRUE, r, s, x, m)
           F == QuoteFailing(FALSE, r, s, x, m)
           p == PricePerToken(q)
           num == PriceNum(r, x, m)
           den == PriceDen(x, m)
           c == IF ImpactIsFraction THEN 10000 ELSE 100
           e1 == Size(num * s.token[2] - den * s.token[1]) * 10000
                   - DivergenceLimitBps * (den * s.token[1])
           m1 == Margin((num * s.token[2] + den * s.token[1]) * 10000)
           e2 == x.impact[1] * c - r.maxImpactBps * x.impact[2]
           m2 == Margin(Size(x.impact[1] * c))
           over == x.impact[1] * c > r.maxImpactBps * x.impact[2]
           e3 == Excess(num * s.mark[2], den * s.mark[1], r.maxPremiumBps)
           m3 == Margin((num * s.mark[2] + den * s.mark[1]) * 10000)
           diverges == Greater(Abs(Bps(p, s.token)), Number(DivergenceLimitBps))
           impact == Greater(q.impactBps, Number(r.maxImpactBps))
           exceeds == Greater(Bps(p, s.mark), Number(r.maxPremiumBps))
<1>1. /\ T \subseteq 7 .. 9
      /\ (7 \in T <=> e1 > m1) /\ (8 \in T <=> over /\ e2 > m2) /\ (9 \in T <=> e3 > m3)
  BY DEF QuoteFailing, Fails, Size
<1>2. (7 \in F <=> e1 >= -m1) /\ (8 \in F <=> over /\ e2 >= -m2) /\ (9 \in F <=> e3 >= -m3)
  BY DEF QuoteFailing, Fails, Size
<1>3. /\ s.token \in Positive64 /\ s.mark \in Positive64
      /\ r.maxPremiumBps \in Int /\ r.maxImpactBps \in 0 .. Precision - 1
  <2>1. ~InvalidPrice(s)
    BY PrecheckByNumber
  <2> QED
    BY <2>1, InvalidPriceParts DEF RuleOK
<1>4. /\ p \in Positive64 /\ <<num, den>> \in Positive64 /\ Near(p, <<num, den>>, 10)
      /\ q.inAmount = r.budget /\ Positive(q.outTokens)
  BY PriceParts
<1>5. x.impact \in Finite64 /\ q.impactBps = Product(x.impact, Number(c))
  BY OutTokensParts DEF QuoteBuy
<1> HIDE DEF q, v, T, F, p, num, den, c
<1> DEFINE e == <<num, den>>
<1>6. e \in Positive64 /\ e[1] = num /\ e[2] = den /\ Near(p, e, 10)
  BY <1>4
<1> HIDE DEF e
<1>7. (e1 > m1 => diverges) /\ (diverges => e1 >= -m1)
  <2>1. DivergenceLimitBps \in Nat
    BY DEF DivergenceLimitBps
  <2> QED
    BY <1>3, <1>4, <1>6, <2>1, DivergenceAboveLimit
<1>8. (e2 > m2 => impact) /\ (impact => over /\ e2 >= -m2)
  <2>1. c \in Nat
    BY DEF c
  <2> QED
    BY <1>3, <1>5, <2>1, ImpactAboveLimit
<1>9. (e3 > m3 => exceeds) /\ (exceeds => e3 >= -m3)
  BY <1>3, <1>4, <1>6, PremiumAboveLimit
<1>10. v = IF diverges THEN "price_divergence" ELSE IF impact THEN "price_impact_too_high"
           ELSE IF exceeds THEN "exec_premium_above_threshold" ELSE "triggered"
  BY <1>4 DEF Decide, Check, v, p
<1> HIDE DEF e1, m1, e2, m2, over, e3, m3, diverges, impact, exceeds
<1>11. /\ ReasonOf["price_divergence"] = 7 /\ ReasonOf["price_impact_too_high"] = 8
       /\ ReasonOf["exec_premium_above_threshold"] = 9
  BY DEF ReasonOf
<1>12. v \in Stage2Reasons => ReasonOf[v] > 5 /\ FirstOf(ReasonOf[v], T, F)
  <2>1. CASE diverges
    BY <1>1, <1>2, <1>7, <1>10, <1>11, <2>1 DEF FirstOf
  <2>2. CASE ~diverges /\ impact
    BY <1>1, <1>2, <1>7, <1>8, <1>10, <1>11, <2>2 DEF FirstOf
  <2>3. CASE ~diverges /\ ~impact /\ exceeds
    BY <1>1, <1>2, <1>7, <1>8, <1>9, <1>10, <1>11, <2>3 DEF FirstOf
  <2>4. CASE ~diverges /\ ~impact /\ ~exceeds
    BY <1>10, <2>4 DEF Stage2Reasons
  <2> QED
    BY <2>1, <2>2, <2>3, <2>4
<1>13. v = "triggered" => T = {}
  BY <1>1, <1>2, <1>7, <1>8, <1>9, <1>10
<1>14. v \in Stage2Reasons \cup {"triggered"}
  BY <1>10 DEF Stage2Reasons
<1> QED
  BY <1>12, <1>13, <1>14 DEF v, q, T, F

-----------------------------------------------------------------------------
\* The evaluator's snapshot is the last of its symbol in the list.
TakenFromFeed ==
  /\ Places(feed, rule.symbol) # {}
  /\ snap = feed[Last(Places(feed, rule.symbol))]

ViewsInv ==
  /\ feed \in Feeds \cup {<<>>}
  /\ verdict # "idle" => RuleOK(rule)
  /\ verdict \in {"new", Pass} => SnapOK(snap)
  /\ verdict = "new" => TakenFromFeed
  /\ verdict = Pass => Precheck(rule, snap) = Pass
  /\ FirstFailingCheckWins
  /\ SignalHasNumbers
  /\ BadQuoteIsFailure
  /\ NoDataIffUnknown

-----------------------------------------------------------------------------
\* Places in a list.
\* First and Last choose places there are.  The last is the least upper bound.
LEMMA FirstAndLast ==
  ASSUME NEW n \in Nat, NEW I \in SUBSET (1 .. n), I # {}
  PROVE  First(I) \in I /\ Last(I) \in I
<1>1. First(I) \in I
  <2>1. I \in SUBSET Nat
    OBVIOUS
  <2>2. \E i \in I : \A j \in I : i <= j
    BY <2>1, LeastNatural
  <2> QED
    BY <2>2, Zenon DEF First
<1>2. \E i \in I : \A j \in I : i >= j
  <2> DEFINE U == {k \in 1 .. n : \A j \in I : j <= k}
  <2>0. PICK some \in I : some \in 1 .. n
    OBVIOUS
  <2>1. n \in U
    BY <2>0
  <2>2. U \in SUBSET Nat /\ U # {}
    BY <2>1
  <2>3. PICK k \in U : \A y \in U : k <= y
    BY <2>2, LeastNatural
  <2>4. k \in 1 .. n /\ \A j \in I : j <= k
    BY <2>3
  <2>5. k \in I
    <3> SUFFICES ASSUME k \notin I PROVE FALSE
      OBVIOUS
    <3>1. \A j \in I : j <= k - 1
      BY <2>4
    <3>2. k - 1 \in 1 .. n
      BY <2>0, <2>4, <3>1
    <3>3. k - 1 \in U
      BY <3>1, <3>2
    <3>4. k <= k - 1
      BY <2>3, <3>3
    <3> QED
      BY <2>4, <3>4
  <2> QED
    BY <2>4, <2>5
<1>3. Last(I) \in I
  BY <1>2, Zenon DEF Last
<1> QED
  BY <1>1, <1>3

LEMMA FeedType ==
  ASSUME NEW f \in Feeds \cup {<<>>}
  PROVE  /\ Len(f) \in Nat /\ DOMAIN f = 1 .. Len(f)
         /\ \A i \in DOMAIN f : SnapOK(f[i])
<1>1. CASE f \in Feeds
  BY <1>1, ViewsAssumption DEF SnapOK, Finite64
<1>2. CASE f = <<>>
  BY <1>2
<1> QED
  BY <1>1, <1>2

LEMMA PlacesChosen ==
  ASSUME NEW f \in Feeds \cup {<<>>}, NEW symbol, Places(f, symbol) # {}
  PROVE  /\ First(Places(f, symbol)) \in Places(f, symbol)
         /\ Last(Places(f, symbol)) \in Places(f, symbol)
<1>1. Places(f, symbol) \in SUBSET (1 .. Len(f)) /\ Len(f) \in Nat
  BY FeedType DEF Places
<1> QED
  BY <1>1, FirstAndLast

\* The pages and the evaluator agree on what is not there.
LEMMA UnknownEverywhere ==
  ASSUME NEW f, NEW symbol
  PROVE  /\ TokenFound(f, symbol) <=> Places(f, symbol) # {}
         /\ GetMarket(f, symbol).error # "not_found" <=> Places(f, symbol) # {}
<1>1. TokenFound(f, symbol) <=> Places(f, symbol) # {}
  BY DEF TokenFound, Places
<1>2. GetMarket(f, symbol).error # "not_found" <=> Places(f, symbol) # {}
  BY DEF GetMarket
<1> QED
  BY <1>1, <1>2

-----------------------------------------------------------------------------
LEMMA ViewsInitHolds == ViewsInit => ViewsInv
  BY DEF ViewsInit, DecisionInit, ViewsInv, FirstFailingCheckWins, SignalHasNumbers,
     BadQuoteIsFailure, NoDataIffUnknown, Pass, ReasonOf

\* A verdict that is none of the reasons, and no stage, says nothing.
LEMMA SilentVerdict ==
  ASSUME verdict' \in {"idle", "quote_failed"},
         feed' \in Feeds \cup {<<>>}, verdict' # "idle" => RuleOK(rule')
  PROVE  ViewsInv'
  BY DEF ViewsInv, FirstFailingCheckWins, SignalHasNumbers, BadQuoteIsFailure, NoDataIffUnknown,
     Pass, ReasonOf

LEMMA RulesOK == \A r \in Rules : RuleOK(r)
  BY ViewsAssumption DEF RuleOK

LEMMA TakeRuleViews ==
  ASSUME ViewsInv, NEW r \in Rules, TakeRule(r)
  PROVE  ViewsInv'
<1> DEFINE I == Places(feed, r.symbol)
<1>1. feed \in Feeds \cup {<<>>} /\ UNCHANGED feed /\ RuleOK(r)
  BY RulesOK DEF ViewsInv, TakeRule
<1>2. CASE I = {}
  <2>1. verdict' = "no_market_data" /\ rule' = r
    BY <1>2 DEF TakeRule, SkipNoData
  <2>2. NoDataIffUnknown'
    BY <1>1, <1>2, <2>1, UnknownEverywhere DEF NoDataIffUnknown
  <2> QED
    BY <1>1, <2>1, <2>2
    DEF ViewsInv, FirstFailingCheckWins, SignalHasNumbers, BadQuoteIsFailure, Pass, ReasonOf
<1>3. CASE I # {}
  <2>1. verdict' = "new" /\ rule' = r /\ snap' = feed[Last(I)]
    BY <1>3 DEF TakeRule, NextRule
  <2>2. NoDataIffUnknown'
    BY <1>1, <1>3, <2>1, UnknownEverywhere DEF NoDataIffUnknown
  <2>3. Last(I) \in DOMAIN feed
    BY <1>1, <1>3, PlacesChosen DEF Places
  <2>4. SnapOK(snap')
    BY <1>1, <2>1, <2>3, FeedType
  <2>5. TakenFromFeed'
    BY <1>1, <1>3, <2>1 DEF TakenFromFeed
  <2> QED
    BY <1>1, <2>1, <2>2, <2>4, <2>5
    DEF ViewsInv, FirstFailingCheckWins, SignalHasNumbers, BadQuoteIsFailure, Pass, ReasonOf
<1> QED
  BY <1>2, <1>3

LEMMA Stage1Views ==
  ASSUME ViewsInv, Stage1, feed' = <<>>
  PROVE  ViewsInv'
<1>1. /\ verdict' = Precheck(rule, snap) /\ UNCHANGED <<rule, snap>>
      /\ RuleOK(rule) /\ SnapOK(snap)
  BY DEF Stage1, ViewsInv
<1>2. /\ verdict' \in Stage1Reasons \cup {Pass}
      /\ verdict' \in Stage1Reasons =>
           /\ ReasonOf[verdict'] <= 5
           /\ FirstOf(ReasonOf[verdict'], Failing(TRUE, rule, snap), Failing(FALSE, rule, snap))
      /\ verdict' = Pass => Failing(TRUE, rule, snap) = {}
  BY <1>1, PrecheckByNumber
<1>3. verdict' \notin {"idle", "new", "no_market_data", "invalid_quote", "triggered"}
  BY <1>2 DEF Stage1Reasons, Pass
<1>4. Pass \notin DOMAIN ReasonOf
  BY DEF Pass, ReasonOf
<1>5. FirstFailingCheckWins'
  BY <1>1, <1>2, <1>3, <1>4 DEF FirstFailingCheckWins
<1> QED
  BY <1>1, <1>3, <1>5
  DEF ViewsInv, SignalHasNumbers, BadQuoteIsFailure, NoDataIffUnknown

LEMMA Stage2Views ==
  ASSUME ViewsInv, NEW x \in Routes, NEW m \in MintInfos, Stage2(x, m), UNCHANGED feed
  PROVE  ViewsInv'
<1>1. /\ UNCHANGED <<rule, snap>> /\ route' = x /\ mintInfo' = m
      /\ verdict' = IF Quotable(x, m) THEN Decide(rule, snap, QuoteBuy(rule.budget, x, m))
                    ELSE "quote_failed"
      /\ RuleOK(rule) /\ SnapOK(snap) /\ Precheck(rule, snap) = Pass
      /\ feed' \in Feeds \cup {<<>>}
  BY DEF Stage2, ViewsInv, Pass
<1>2. CASE ~Quotable(x, m)
  BY <1>1, <1>2, SilentVerdict
<1>3. CASE Quotable(x, m)
  <2>1. verdict' = Decide(rule, snap, QuoteBuy(rule.budget, x, m))
    BY <1>1, <1>3
  <2>2. /\ verdict' \in Stage2Reasons \cup {"triggered"}
        /\ verdict' \in Stage2Reasons =>
             /\ ReasonOf[verdict'] > 5
             /\ FirstOf(ReasonOf[verdict'], QuoteFailing(TRUE, rule, snap, x, m),
                       QuoteFailing(FALSE, rule, snap, x, m))
        /\ verdict' = "triggered" => QuoteFailing(TRUE, rule, snap, x, m) = {}
    BY <1>1, <1>3, <2>1, DecideByNumber
  <2>3. Failing(TRUE, rule, snap) = {} /\ ~InvalidPrice(snap)
    BY <1>1, PrecheckByNumber
  <2>4. /\ verdict' \notin {"idle", "new", "no_market_data", "invalid_quote", Pass}
        /\ verdict' \in Stage2Reasons => \A n \in {ReasonOf[verdict']} : n \in 7 .. 9
        /\ "triggered" \notin DOMAIN ReasonOf
    BY <2>2 DEF Stage2Reasons, Pass, ReasonOf
  <2>5. FirstFailingCheckWins'
    <3>1. CASE verdict' = "triggered"
      BY <1>1, <2>2, <2>3, <2>4, <3>1 DEF FirstFailingCheckWins
    <3>2. CASE verdict' \in Stage2Reasons
      <4> DEFINE n == ReasonOf[verdict']
      <4>1. ~(n <= 5) /\ verdict' \notin {Pass, "triggered"}
        BY <2>4, <3>2 DEF Stage2Reasons
      <4>2. FirstOf(n, QuoteFailing(TRUE, rule, snap, route, mintInfo)',
                    QuoteFailing(FALSE, rule, snap, route, mintInfo)')
        BY <1>1, <2>2, <3>2
      <4> HIDE DEF n
      <4> QED
        BY <4>1, <4>2 DEF FirstFailingCheckWins, n
    <3> QED
      BY <2>2, <3>1, <3>2
  <2>6. SignalHasNumbers'
    BY <1>1, <1>3, <2>3 DEF SignalHasNumbers, InvalidPrice, Quotable, UsableImpact
  <2> QED
    BY <1>1, <2>4, <2>5, <2>6 DEF ViewsInv, BadQuoteIsFailure, NoDataIffUnknown
<1> QED
  BY <1>2, <1>3

LEMMA ViewsStep == ViewsInv /\ [ViewsNext]_viewsVars => ViewsInv'
<1> SUFFICES ASSUME ViewsInv, [ViewsNext]_viewsVars PROVE ViewsInv'
  OBVIOUS
<1>1. ASSUME NEW f \in Feeds, FetchAll(f) PROVE ViewsInv'
  BY <1>1, SilentVerdict DEF FetchAll, decisionVars
<1>2. ASSUME NEW r \in Rules, TakeRule(r) PROVE ViewsInv'
  BY <1>2, TakeRuleViews
<1>3. ASSUME Stage1, feed' = <<>> PROVE ViewsInv'
  BY <1>3, Stage1Views
<1>4. ASSUME NEW x \in Routes, NEW m \in MintInfos, Stage2(x, m), UNCHANGED feed
      PROVE  ViewsInv'
  BY <1>4, Stage2Views
<1>5. ASSUME EndRule, feed' = <<>> PROVE ViewsInv'
  BY <1>5, SilentVerdict DEF EndRule
<1>6. CASE UNCHANGED viewsVars
  BY <1>6 DEF viewsVars, decisionVars, ViewsInv, TakenFromFeed, FirstFailingCheckWins,
     SignalHasNumbers, BadQuoteIsFailure, NoDataIffUnknown
<1> QED
  BY <1>1, <1>2, <1>3, <1>4, <1>5, <1>6 DEF ViewsNext

LEMMA ViewsInvariance == ViewsSpec => []ViewsInv
  BY ViewsInitHolds, ViewsStep, PTL DEF ViewsSpec

\* The reason of a skip is the first check that fails, in the order the
\* comments of Precheck and Decide give, and a signal fails none of them.
THEOREM ReasonsAreFirst == ViewsSpec => []FirstFailingCheckWins
<1>1. ViewsInv => FirstFailingCheckWins
  BY DEF ViewsInv
<1> QED
  BY <1>1, ViewsInvariance, PTL

\* No infinity and no NaN that a service sends gets into a signal.
THEOREM SignalsRestOnNumbers == ViewsSpec => []SignalHasNumbers
<1>1. ViewsInv => SignalHasNumbers
  BY DEF ViewsInv
<1> QED
  BY <1>1, ViewsInvariance, PTL

\* What QuoteBuy returns, Decide never refuses as an invalid quote.
THEOREM QuotesAreUsable == ViewsSpec => []BadQuoteIsFailure
<1>1. ViewsInv => BadQuoteIsFailure
  BY DEF ViewsInv
<1> QED
  BY <1>1, ViewsInvariance, PTL

\* The evaluator, CreateRule and the page of a token know the same symbols.
THEOREM SymbolsAgree == ViewsSpec => []NoDataIffUnknown
<1>1. ViewsInv => NoDataIffUnknown
  BY DEF ViewsInv
<1> QED
  BY <1>1, ViewsInvariance, PTL

-----------------------------------------------------------------------------
\* A label and a threshold.
LEMMA LabelOfThreshold ==
  ASSUME NEW b \in Finite64, NEW max \in Int
  PROVE  /\ ~Greater(b, Number(max)) /\ max <= CheapThresholdBps => Label(b) = "cheap"
         /\ Greater(b, Number(max)) /\ max >= CheapThresholdBps => Label(b) # "cheap"
<1>1. b[1] \in Int /\ b[2] \in Nat /\ b[2] > 0
  BY FiniteParts
<1>2. Greater(b, Number(max)) <=> b[1] > max * b[2]
  BY GreaterThanNumber
<1>3. Greater(b, Number(-100)) <=> b[1] > (-100) * b[2]
  BY GreaterThanNumber
<1>4. ASSUME max <= -100 PROVE max * b[2] <= (-100) * b[2]
  BY <1>1, <1>4
<1>5. ASSUME max >= -100 PROVE max * b[2] >= (-100) * b[2]
  BY <1>1, <1>5
<1>6. ASSUME ~Greater(b, Number(max)), max <= -100 PROVE ~Greater(b, Number(-100))
  BY <1>1, <1>2, <1>3, <1>4, <1>6
<1>7. ASSUME Greater(b, Number(max)), max >= -100 PROVE Greater(b, Number(-100))
  BY <1>1, <1>2, <1>3, <1>5, <1>7
<1> QED
  BY <1>6, <1>7 DEF Label, CheapThresholdBps

LEMMA PagesStep ==
  ASSUME ViewsInv, [ViewsNext]_viewsVars, verdict = "new", verdict' # "new"
  PROVE  VerdictOnPages
<1> DEFINE I == Places(feed, rule.symbol)
           s == feed[Last(I)]
           b == Bps(s.token, s.mark)
           lines == {v \in ListMarket(feed) : v.snapshot.symbol = rule.symbol}
           page == GetMarket(feed, rule.symbol)
           alone == \A i, j \in I : i = j
<1>1. verdict' = Precheck(rule, snap)
  BY DEF ViewsNext, viewsVars, decisionVars, FetchAll, TakeRule, NextRule, SkipNoData, Stage1,
     Stage2, EndRule, Pass
<1>2. /\ feed \in Feeds \cup {<<>>} /\ RuleOK(rule) /\ SnapOK(snap) /\ I # {} /\ snap = s
  BY DEF ViewsInv, TakenFromFeed
<1>3. First(I) \in I /\ Last(I) \in I
  BY <1>2, PlacesChosen
<1>4. Last(I) \in DOMAIN feed /\ s.symbol = rule.symbol
  BY <1>3 DEF Places
<1>5. ~InvalidPrice(s) => View(s) \in lines
  BY <1>4 DEF ListMarket, View
<1>6. View(s).bps = b /\ View(s).label = Label(b)
  BY DEF View
<1>7. alone => page = IF InvalidPrice(s) THEN [error |-> "invalid_price"]
                      ELSE [error |-> "none", view |-> View(s)]
  BY <1>2, <1>3 DEF GetMarket
<1> HIDE DEF I, s, b, lines, page, alone
<1>8. /\ verdict' = "invalid_price" => InvalidPrice(s)
      /\ verdict' = Pass => ~InvalidPrice(s) /\ ~Greater(b, Number(rule.maxPremiumBps))
      /\ verdict' = "premium_above_threshold" =>
           ~InvalidPrice(s) /\ Greater(b, Number(rule.maxPremiumBps))
  BY <1>1, <1>2 DEF Precheck, Check, Pass, b
<1>9. ~InvalidPrice(s) => b \in Finite64
  <2> SUFFICES ASSUME ~InvalidPrice(s) PROVE b \in Finite64
    OBVIOUS
  <2>1. s.token \in Positive64 /\ s.mark \in Positive64
    BY <1>2, InvalidPriceParts
  <2>2. Near(s.token, s.token, 0)
    BY <2>1, NearItself
  <2> QED
    BY <2>1, <2>2, PremiumWithin DEF b
<1>10. rule.maxPremiumBps \in Int
  BY <1>2 DEF RuleOK
<1>11. ASSUME verdict' = Pass
       PROVE  \E v \in lines : /\ ~Above(v)
                               /\ rule.maxPremiumBps <= CheapThresholdBps => v.label = "cheap"
  <2>1. View(s) \in lines /\ b \in Finite64 /\ ~Greater(b, Number(rule.maxPremiumBps))
    BY <1>5, <1>8, <1>9, <1>11
  <2>2. ~Above(View(s))
    BY <1>6, <2>1 DEF Above
  <2>3. rule.maxPremiumBps <= CheapThresholdBps => View(s).label = "cheap"
    BY <1>6, <1>10, <2>1, LabelOfThreshold
  <2> QED
    BY <2>1, <2>2, <2>3
<1>12. ASSUME verdict' = "premium_above_threshold"
       PROVE  \E v \in lines : /\ Above(v)
                               /\ rule.maxPremiumBps >= CheapThresholdBps => v.label # "cheap"
  <2>1. View(s) \in lines /\ b \in Finite64 /\ Greater(b, Number(rule.maxPremiumBps))
    BY <1>5, <1>8, <1>9, <1>12
  <2>2. Above(View(s))
    BY <1>6, <2>1 DEF Above
  <2>3. rule.maxPremiumBps >= CheapThresholdBps => View(s).label # "cheap"
    BY <1>6, <1>10, <2>1, LabelOfThreshold
  <2> QED
    BY <2>1, <2>2, <2>3
<1>13. ASSUME alone
       PROVE  /\ verdict' = "invalid_price" => page.error = "invalid_price"
              /\ verdict' \in {Pass, "premium_above_threshold"} =>
                   page.error = "none" /\ page.view \in lines
  BY <1>5, <1>7, <1>8, <1>13
<1> QED
  BY <1>11, <1>12, <1>13 DEF VerdictOnPages, I, lines, page, alone

\* Whatever stage 1 says of a rule, the list page or the token's page shows.
THEOREM VerdictsShowOnPages == ViewsSpec => PagesAgree
<1>1. /\ ViewsInv /\ [ViewsNext]_viewsVars
      => [verdict = "new" /\ verdict' # "new" => VerdictOnPages]_viewsVars
  BY PagesStep
<1> QED
  BY <1>1, ViewsInvariance, PTL DEF ViewsSpec, PagesAgree
=============================================================================
