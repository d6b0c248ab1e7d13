-------------------------- MODULE DmmStreamProofs ---------------------------
(***************************************************************************)
(* The streams of all hosts, for values of any width, blocks of any length *)
(* and any changes of marks, settings and hooks: derivatives keep to their *)
(* hosts, rates add up, what has been dropped is forgotten, and a summary  *)
(* is of all the values that came.                                         *)
(***************************************************************************)
EXTENDS DmmStream, WellFoundedInduction, SequenceTheorems, TLAPS

Cell == 0..(Base - 1)

LEMMA Units ==
  /\ RateUnit \in Nat \ {0} /\ Precision \in Nat \ {0} /\ NotFinite \notin Int
  /\ \A x \in Cell : x \in Int
  /\ \A size \in {1, 2} : Modulus(size) \in Nat \ {0}
<1>1. Base \in Nat \ {0} /\ Base * Base \in Nat \ {0}
  BY BlocksAssumption
<1> QED
  BY <1>1, BlocksAssumption DEF Cell, Modulus

LEMMA SizeIs == \A type \in Types : Size(type) \in {1, 2}
  BY DEF Size
-----------------------------------------------------------------------------
(* Numbers: why rates add up.                                              *)

\* What Difference finds leads from the one value to the other, wrapped or not.
LEMMA DifferenceLeads ==
  ASSUME NEW type \in Types, NEW cur \in Int, NEW prev \in Int
  PROVE  /\ Difference(type, cur, prev) \in Int
         /\ \E j \in Int : Difference(type, cur, prev) = cur - prev + j * Modulus(Size(type))
<1> DEFINE M == Modulus(Size(type))
           x == cur - prev
           d == x % M
           q == x \div M
           D == Difference(type, cur, prev)
<1>1. M \in Nat \ {0} /\ x \in Int
  BY Units, SizeIs
<1>2. D = IF type \in {"UINT32", "UINT64"} THEN d
          ELSE IF type \in {"INT32", "INT64"} THEN IF 2 * d >= M THEN d - M ELSE d
          ELSE x
  BY DEF Difference, Types
<1> HIDE DEF M, x, D
<1>3. d \in Int /\ q \in Int /\ x = M * q + d
  BY <1>1
<1> HIDE DEF d, q
<1>4. /\ d = x + (-q) * M /\ d - M = x + (-q - 1) * M /\ x = x + 0 * M
      /\ -q \in Int /\ -q - 1 \in Int
  BY <1>1, <1>3
<1>5. D = d \/ D = d - M \/ D = x
  BY <1>2
<1>6. D \in Int
  BY <1>1, <1>3, <1>5
<1>7. \E j \in Int : D = x + j * M
  <2>1. CASE D = d
    BY <1>4, <2>1
  <2>2. CASE D = d - M
    BY <1>4, <2>2
  <2>3. CASE D = x
    BY <1>4, <2>3
  <2> QED
    BY <1>5, <2>1, <2>2, <2>3
<1> QED
  BY <1>6, <1>7 DEF D, x, M

\* A rate is off by half of what the numbers around it are apart.
LEMMA SpacingIs ==
  ASSUME NEW a \in Int, NEW b \in Nat \ {0}
  PROVE  Spacing(a \div b) \in Nat \ {0}
<1> DEFINE q == a \div b
           p == IF q < 0 THEN -q ELSE q
<1>1. q \in Int
  OBVIOUS
<1> HIDE DEF q
<1>2. p \in Nat /\ Precision \in Nat \ {0}
  BY <1>1, Units
<1>3. Spacing(q) = 1 + p \div Precision
  BY DEF Spacing
<1> HIDE DEF p
<1>4. p \div Precision \in Nat
  BY <1>2
<1>5. Spacing(q) \in Nat \ {0}
  BY <1>3, <1>4
<1> QED
  BY <1>5 DEF q

LEMMA RoundedIs ==
  ASSUME NEW a \in Int, NEW b \in Nat \ {0}
  PROVE  /\ Rounded(a, b) \in Int
         /\ \E f \in Int : /\ Rounded(a, b) * b = a + f
                           /\ -(Spacing(a \div b) * b) <= 2 * f
                           /\ 2 * f <= Spacing(a \div b) * b
<1> DEFINE g == Spacing(a \div b)
           w == g * b
           x == 2 * a + b * g
           k == x \div (2 * b * g)
           R == Rounded(a, b)
<1>1. g \in Nat \ {0}
  BY SpacingIs
<1>2. R = g * k
  BY DEF Rounded
<1> HIDE DEF g
<1>3. w \in Nat \ {0} /\ b * g = w /\ 2 * b * g = 2 * w
  BY <1>1
<1> HIDE DEF w
<1>4. x = 2 * a + w /\ k = x \div (2 * w)
  BY <1>3
<1>5. x \in Int /\ 2 * w \in Nat \ {0}
  BY <1>3, <1>4
<1> HIDE DEF x, k
<1>6. k \in Int /\ (2 * w) * k <= x /\ x < (2 * w) * k + 2 * w
  BY <1>4, <1>5
<1> DEFINE y == w * k
           f == y - a
<1>7. y \in Int /\ (2 * w) * k = 2 * y
  BY <1>3, <1>6
<1>8. R \in Int /\ R * b = y
  BY <1>1, <1>2, <1>6 DEF w
<1> HIDE DEF y, R
<1>9. f \in Int /\ R * b = a + f /\ -w <= 2 * f /\ 2 * f <= w
  BY <1>3, <1>4, <1>6, <1>7, <1>8
<1> QED
  BY <1>8, <1>9 DEF R, w, g

\* total follows the value x, but for rounding by no more than half of slack and
\* for wraps.
Follows(total, x, size, slack) ==
  /\ total \in Int /\ slack \in Nat
  /\ \E e \in Int, k \in Int : /\ total = RateUnit * x + e + k * (RateUnit * Modulus(size))
                               /\ -slack <= 2 * e /\ 2 * e <= slack

LEMMA FollowsFirst ==
  ASSUME NEW x \in Int, NEW size \in {1, 2} PROVE Follows(RateUnit * x, x, size, 0)
<1> DEFINE U == RateUnit * Modulus(size)
           y == RateUnit * x
<1>1. U \in Int /\ y \in Int
  BY Units
<1> HIDE DEF U, y
<1>2. y = y + 0 + 0 * U /\ -0 <= 2 * 0 /\ 2 * 0 <= 0
  BY <1>1
<1> QED
  BY <1>1, <1>2 DEF Follows, U, y

LEMMA FollowsNext ==
  ASSUME NEW type \in Types, NEW cur \in Int, NEW prev \in Int, NEW total, NEW slack,
         Follows(total, prev, Size(type), slack), NEW dt \in Nat \ {0},
         NEW a, a = RateUnit * Difference(type, cur, prev)
  PROVE  Follows(total + Rounded(a, dt) * dt, cur, Size(type),
                 slack + Spacing(a \div dt) * dt)
<1> DEFINE D == Difference(type, cur, prev)
           M == Modulus(Size(type))
           R == Rounded(a, dt)
           w == Spacing(a \div dt) * dt
           p == RateUnit * prev
           c == RateUnit * cur
           U == RateUnit * M
<1>1. D \in Int /\ M \in Nat \ {0} /\ RateUnit \in Nat \ {0}
  BY DifferenceLeads, SizeIs, Units
<1>2. PICK j \in Int : D = cur - prev + j * M
  BY DifferenceLeads
<1> HIDE DEF D, M
<1>3. a \in Int /\ p \in Int /\ c \in Int /\ U \in Int
  BY <1>1 DEF D
<1>4. a = c - p + j * U
  <2>1. a = RateUnit * D
    BY DEF D
  <2> QED
    BY <1>1, <1>2, <2>1
<1>5. PICK e \in Int, k \in Int : total = p + e + k * U /\ -slack <= 2 * e /\ 2 * e <= slack
  BY DEF Follows, M
<1>6. total \in Int /\ slack \in Nat
  BY DEF Follows
<1>7. R \in Int /\ Spacing(a \div dt) \in Nat \ {0}
  BY <1>3, RoundedIs, SpacingIs
<1>8. PICK f \in Int : R * dt = a + f /\ -w <= 2 * f /\ 2 * f <= w
  BY <1>3, RoundedIs
<1>9. w \in Nat /\ R * dt \in Int
  BY <1>7
<1> DEFINE y == R * dt
<1> HIDE DEF R, w, p, c, U, y
<1>10. j * U \in Int /\ k * U \in Int /\ (k + j) * U = k * U + j * U
  BY <1>3
<1> DEFINE u == j * U
           v == k * U
<1>11. y \in Int /\ y = a + f
  BY <1>8, <1>9 DEF y
<1>12. total + y = c + (e + f) + (k + j) * U
  <2>1. u \in Int /\ v \in Int /\ a = c - p + u /\ total = p + e + v /\ (k + j) * U = v + u
    BY <1>4, <1>5, <1>10
  <2> HIDE DEF u, v
  <2> QED
    BY <1>3, <1>11, <2>1
<1>13. /\ total + y \in Int /\ slack + w \in Nat /\ e + f \in Int /\ k + j \in Int
       /\ -(slack + w) <= 2 * (e + f) /\ 2 * (e + f) <= slack + w
  BY <1>5, <1>6, <1>8, <1>9, <1>11
<1>14. /\ total + R * dt = c + (e + f) + (k + j) * U /\ total + R * dt \in Int
  BY <1>12, <1>13 DEF y
<1>15. \E e2 \in Int, k2 \in Int : /\ total + R * dt = c + e2 + k2 * U
                                   /\ -(slack + w) <= 2 * e2 /\ 2 * e2 <= slack + w
  BY <1>13, <1>14
<1> QED
  BY <1>13, <1>14, <1>15 DEF Follows, R, w, c, U, M

LEMMA FollowsIsNear ==
  ASSUME NEW x \in Int, NEW size \in {1, 2}, NEW total, NEW slack,
         Follows(total, x, size, slack)
  PROVE  Near(total, RateUnit * x, RateUnit * Modulus(size), slack)
<1> DEFINE U == RateUnit * Modulus(size)
           y == RateUnit * x
           W == 2 * U
           z == 2 * (total - y)
           q == z \div W
           gap == z % W
<1>1. U \in Nat \ {0} /\ y \in Int /\ total \in Int /\ slack \in Nat
  <2>1. RateUnit \in Nat \ {0} /\ Modulus(size) \in Nat \ {0}
    BY Units
  <2>2. \A m \in Nat \ {0}, n \in Nat \ {0} : m * n \in Nat \ {0}
    OBVIOUS
  <2>3. U \in Nat \ {0} /\ y \in Int
    BY <2>1, <2>2
  <2> QED
    BY <2>3 DEF Follows
<1>2. PICK e \in Int, k \in Int : total = y + e + k * U /\ -slack <= 2 * e /\ 2 * e <= slack
  BY DEF Follows
<1> HIDE DEF U, y
<1>3. W \in Nat \ {0} /\ z \in Int /\ z = 2 * e + k * W
  BY <1>1, <1>2
<1> HIDE DEF W, z
<1>4. q \in Int /\ gap \in Nat /\ gap < W /\ z = W * q + gap
  BY <1>3
<1> HIDE DEF q, gap
<1> DEFINE m == q - k
           n == m * W
<1>5. m \in Int /\ n \in Int /\ 2 * e = n + gap
  BY <1>3, <1>4
<1>6. (m >= 0 => n >= 0) /\ (m <= -1 => n <= -W)
  BY <1>3, <1>5
<1> HIDE DEF m, n
<1>7. gap <= slack \/ W - gap <= slack
  BY <1>1, <1>2, <1>3, <1>4, <1>5, <1>6
<1> QED
  BY <1>7 DEF Near, gap, z, W, U, y
-----------------------------------------------------------------------------
(* Induction and recursion over the places of a sequence.                  *)

\* Induction, over the places of a sequence.
LEMMA Upwards ==
  ASSUME NEW n, n \in Nat, NEW S, 0 \in S, \A i \in 1..n : i - 1 \in S => i \in S
  PROVE  0..n \subseteq S
<1> DEFINE out == {i \in 0..n : i \notin S}
<1>1. ASSUME out # {} PROVE FALSE
  <2>1. out \subseteq Nat
    OBVIOUS
  <2> HIDE DEF out
  <2>2. PICK i \in out : \A j \in out : ~ (<<j, i>> \in OpToRel(<, Nat))
    BY <1>1, <2>1, NatLessThanWellFounded, WFMin
  <2>3. \A j \in out : ~ (j < i)
    BY <2>1, <2>2 DEF OpToRel
  <2> USE DEF out
  <2>4. i \in 1..n /\ i - 1 \in 0..n /\ i - 1 < i /\ i \notin S
    OBVIOUS
  <2> QED
    BY <2>3, <2>4
<1> QED
  BY <1>1

\* A function that is defined by recursion on the places of a sequence: its
\* first value, and how each place leads from a value to the next.
Recursive(n, V, base, step) == n \in Nat /\ base \in V /\ step \in [1..n -> [V -> V]]
Obeys(f, n, V, base, step) ==
  /\ f \in [0..n -> V] /\ f[0] = base
  /\ \A i \in 1..n : f[i] = step[i][f[i - 1]]

\* There is such a function.
LEMMA Recursion ==
  ASSUME NEW n, NEW V, NEW base, NEW step, Recursive(n, V, base, step)
  PROVE  \E f : Obeys(f, n, V, base, step)
<1> USE DEF Recursive
<1> DEFINE Begun(f, k) == /\ f \in [0..k -> V] /\ f[0] = base
                          /\ \A i \in 1..k : f[i] = step[i][f[i - 1]]
           S == {k \in 0..n : \E f : Begun(f, k)}
<1>1. 0 \in S
  <2>1. Begun([i \in 0..0 |-> base], 0)
    OBVIOUS
  <2> HIDE DEF Begun
  <2> QED
    BY <2>1
<1>2. ASSUME NEW k \in 1..n, k - 1 \in S PROVE k \in S
  <2>1. PICK f : Begun(f, k - 1)
    <3> HIDE DEF Begun
    <3> QED
      BY <1>2
  <2> DEFINE g == [i \in 0..k |-> IF i = k THEN step[k][f[k - 1]] ELSE f[i]]
  <2>2. k - 1 \in 0..(k - 1) /\ f[k - 1] \in V /\ step[k] \in [V -> V]
    BY <2>1
  <2>3. step[k][f[k - 1]] \in V
    BY <2>2
  <2>4. \A i \in 0..k : i # k => i \in 0..(k - 1) /\ f[i] \in V
    BY <2>1
  <2>5. g \in [0..k -> V]
    BY <2>3, <2>4
  <2>6. \A i \in 1..k : g[i] = step[i][g[i - 1]]
    <3> SUFFICES ASSUME NEW i \in 1..k PROVE g[i] = step[i][g[i - 1]]
      OBVIOUS
    <3>1. i - 1 \in 0..k /\ i - 1 # k /\ g[i - 1] = f[i - 1]
      OBVIOUS
    <3>2. CASE i = k
      BY <3>1, <3>2
    <3>3. CASE i # k
      BY <2>1, <3>1, <3>3
    <3> QED
      BY <3>2, <3>3
  <2>7. g[0] = base
    BY <2>1
  <2>8. Begun(g, k)
    BY <2>5, <2>6, <2>7
  <2> HIDE DEF Begun, g
  <2> QED
    BY <2>8
<1>3. n \in S
  <2> HIDE DEF S
  <2>1. 0..n \subseteq S
    BY <1>1, <1>2, Upwards
  <2> QED
    BY <2>1
<1> QED
  BY <1>3 DEF Obeys

\* The values of such a function have the type that each step keeps.
LEMMA Typed ==
  ASSUME NEW n, n \in Nat, NEW V, NEW f, f = [i \in 0..n |-> f[i]],
         f[0] \in V, \A i \in 1..n : f[i - 1] \in V => f[i] \in V
  PROVE  f \in [0..n -> V]
<1> DEFINE S == {i \in 0..n : f[i] \in V}
<1>1. 0 \in S
  OBVIOUS
<1>2. \A i \in 1..n : i - 1 \in S => i \in S
  OBVIOUS
<1>3. 0..n \subseteq S
  <2> HIDE DEF S
  <2> QED
    BY <1>1, <1>2, Upwards
<1> QED
  BY <1>3

\* Rates, and what stands for those that are none.
Val == Int \cup {NotFinite}

LEMMA NumberIs == \A x \in Val : Number(x) \in Int /\ (x \in Int => Number(x) = x)
  BY Units DEF Val, Number

\* The partial sums of some values.
LEMMA SumsAre ==
  ASSUME NEW v, v \in Seq(Val)
  PROVE  /\ Sums(v) \in [0..Len(v) -> Int] /\ Sums(v)[0] = 0
         /\ \A i \in 1..Len(v) : Sums(v)[i] = Sums(v)[i - 1] + Number(v[i])
<1> DEFINE n == Len(v)
           V == Int
           base == 0
           num(i) == Number(v[i])
           step == [i \in 1..n |-> [x \in V |-> x + num(i)]]
           Eq(g) == g = [i \in 0..n |-> IF i = 0 THEN 0 ELSE g[i - 1] + num(i)]
           F == Sums(v)
<1>1. n \in Nat /\ base \in V /\ base = 0 /\ \A i \in 1..n : num(i) \in Int
  <2>1. \A i \in 1..n : v[i] \in Val
    OBVIOUS
  <2> QED
    BY <2>1, NumberIs
<1>2. step \in [1..n -> [V -> V]] /\ \A i \in 1..n, x \in V : step[i][x] = x + num(i)
  <2> HIDE DEF num
  <2> QED
    BY <1>1
<1>3. F = CHOOSE g : Eq(g)
  BY DEF Sums
<1> HIDE DEF step, n, V, F, base, num
<1>4. PICK f : Obeys(f, n, V, base, step)
  <2>1. Recursive(n, V, base, step)
    BY <1>1, <1>2 DEF Recursive
  <2> QED
    BY <2>1, Recursion
<1>5. \A i \in 0..n : i # 0 => i \in 1..n /\ f[i - 1] \in V
  BY <1>1, <1>4 DEF Obeys
<1>6. \A i \in 0..n : i # 0 => f[i] = f[i - 1] + num(i)
  BY <1>2, <1>4, <1>5 DEF Obeys
<1>7. Eq(f)
  BY <1>1, <1>4, <1>6 DEF Obeys
<1> HIDE DEF Eq
<1>8. Eq(F)
  BY <1>3, <1>7
<1> USE DEF Eq
<1>9. DOMAIN F = 0..n /\ F = [i \in DOMAIN F |-> F[i]]
  BY <1>8
<1>10. \A i \in 0..n : F[i] = IF i = 0 THEN 0 ELSE F[i - 1] + num(i)
  BY <1>8
<1>11. F[0] = 0 /\ \A i \in 1..n : F[i] = F[i - 1] + num(i)
  BY <1>1, <1>10
<1>12. ASSUME NEW i \in 1..n, F[i - 1] \in V PROVE F[i] \in V
  <2>1. F[i - 1] \in Int /\ num(i) \in Int /\ F[i] = F[i - 1] + num(i)
    BY <1>1, <1>11, <1>12 DEF V
  <2> QED
    BY <2>1 DEF V
<1>13. F \in [0..n -> V]
  <2>1. F[0] \in V /\ F = [i \in 0..n |-> F[i]]
    BY <1>1, <1>9, <1>11
  <2> HIDE DEF Eq
  <2> QED
    BY <1>1, <1>12, <2>1, Typed
<1> QED
  BY <1>11, <1>13 DEF n, V, F, num

\* What WidenedBy goes through.
Aggregate == [min : Int, sum : Int, max : Int, num : Nat, finite : BOOLEAN]
Widens(f, a, v) == /\ f \in [0..Len(v) -> Aggregate] /\ f[0] = a
                   /\ \A i \in 1..Len(v) : f[i] = Widened(f[i - 1], v[i])

LEMMA WidenedIs ==
  ASSUME NEW a \in Aggregate, NEW x \in Val PROVE Widened(a, x) \in Aggregate
<1>1. a.min \in Int /\ a.max \in Int /\ a.sum \in Int /\ a.num \in Nat
  BY DEF Aggregate
<1>2. CASE ~a.finite \/ x = NotFinite
  BY <1>1, <1>2 DEF Widened, Unknown, Aggregate
<1>3. CASE a.finite /\ x # NotFinite
  <2>1. x \in Int
    BY <1>3 DEF Val
  <2> QED
    BY <1>1, <1>3, <2>1 DEF Widened, Aggregate
<1> QED
  BY <1>2, <1>3

\* WidenedBy is the last of the aggregates that its loop goes through.
LEMMA WidenedByIs ==
  ASSUME NEW a, a \in Aggregate, NEW v, v \in Seq(Val)
  PROVE  \E f : Widens(f, a, v) /\ WidenedBy(a, v) = f[Len(v)]
<1> DEFINE n == Len(v)
           step == [i \in 1..n |-> [x \in Aggregate |-> Widened(x, v[i])]]
           Eq(g) == g = [i \in 0..n |-> IF i = 0 THEN a ELSE Widened(g[i - 1], v[i])]
           F == CHOOSE g : Eq(g)
<1>1. n \in Nat /\ \A i \in 1..n : v[i] \in Val
  OBVIOUS
<1>2. /\ step \in [1..n -> [Aggregate -> Aggregate]]
      /\ \A i \in 1..n, x \in Aggregate : step[i][x] = Widened(x, v[i])
  BY <1>1, WidenedIs
<1>3. WidenedBy(a, v) = F[n]
  BY DEF WidenedBy
<1> HIDE DEF step, n, F
<1>4. PICK f : Obeys(f, n, Aggregate, a, step)
  <2>1. Recursive(n, Aggregate, a, step)
    BY <1>1, <1>2 DEF Recursive
  <2> QED
    BY <2>1, Recursion
<1>5. \A i \in 0..n : i # 0 => i \in 1..n /\ f[i - 1] \in Aggregate
  BY <1>1, <1>4 DEF Obeys
<1>6. \A i \in 0..n : i # 0 => f[i] = Widened(f[i - 1], v[i])
  BY <1>2, <1>4, <1>5 DEF Obeys
<1>7. Eq(f)
  BY <1>1, <1>4, <1>6 DEF Obeys
<1> HIDE DEF Eq
<1>8. Eq(F)
  BY <1>7 DEF F
<1> USE DEF Eq
<1>9. DOMAIN F = 0..n /\ F = [i \in DOMAIN F |-> F[i]]
  BY <1>8
<1>10. \A i \in 0..n : F[i] = IF i = 0 THEN a ELSE Widened(F[i - 1], v[i])
  BY <1>8
<1>11. F[0] = a /\ \A i \in 1..n : F[i] = Widened(F[i - 1], v[i])
  BY <1>1, <1>10
<1>12. ASSUME NEW i \in 1..n, F[i - 1] \in Aggregate PROVE F[i] \in Aggregate
  BY <1>1, <1>11, <1>12, WidenedIs
<1>13. F \in [0..n -> Aggregate]
  BY <1>1, <1>9, <1>11, <1>12, Typed
<1>14. Widens(F, a, v)
  BY <1>11, <1>13 DEF Widens, n
<1> QED
  BY <1>3, <1>14 DEF n

\* Blocks of rates.
Values == Seq(Val)
Filled(b) == \E T : b \in Seq([sensor : T, data : Values])

\* The data nodes of such a block.
LEMMA FilledNodes ==
  ASSUME NEW b, Filled(b)
  PROVE  Len(b) \in Nat /\ DOMAIN b = 1..Len(b) /\ \A i \in 1..Len(b) : b[i].data \in Values
<1>1. PICK T : b \in Seq([sensor : T, data : Values])
  BY DEF Filled
<1> DEFINE D == [sensor : T, data : Values]
<1>2. \A x \in D : x.data \in Values
  OBVIOUS
<1>3. b \in Seq(D)
  BY <1>1
<1> HIDE DEF D
<1>4. Len(b) \in Nat /\ DOMAIN b = 1..Len(b) /\ \A i \in 1..Len(b) : b[i] \in D
  BY <1>3
<1> QED
  BY <1>2, <1>4

\* What ValuesOf gathers are values.
LEMMA ValuesOfIs ==
  ASSUME NEW b, Filled(b), NEW s
  PROVE  ValuesOf(b, s) \in Values
<1> DEFINE n == Len(b)
           V == Seq(Val)
           next(i, x) == IF b[i].sensor = s THEN x \o b[i].data ELSE x
           step == [i \in 1..n |-> [x \in V |-> next(i, x)]]
           Eq(g) == g = [i \in 0..n |-> IF i = 0 THEN <<>>
                                        ELSE IF b[i].sensor = s THEN g[i - 1] \o b[i].data
                                        ELSE g[i - 1]]
           F == CHOOSE g : Eq(g)
<1>1. n \in Nat /\ DOMAIN b = 1..n /\ \A i \in 1..n : b[i].data \in V
  BY FilledNodes DEF Values
<1>2. \A i \in 1..n, x \in V : next(i, x) \in V
  BY <1>1
<1>3. ValuesOf(b, s) = F[n]
  BY DEF ValuesOf
<1>4. <<>> \in V
  OBVIOUS
<1> HIDE DEF n, F, V
<1>5. step \in [1..n -> [V -> V]] /\ \A i \in 1..n, x \in V : step[i][x] = next(i, x)
  <2> HIDE DEF next
  <2> QED
    BY <1>2
<1> HIDE DEF step
<1>6. PICK f : Obeys(f, n, V, <<>>, step)
  <2>1. Recursive(n, V, <<>>, step)
    BY <1>1, <1>4, <1>5 DEF Recursive
  <2> QED
    BY <2>1, Recursion
<1>7. \A i \in 0..n : i # 0 => i \in 1..n /\ f[i - 1] \in V
  BY <1>1, <1>6 DEF Obeys
<1>8. \A i \in 0..n : i # 0 => f[i] = next(i, f[i - 1])
  BY <1>5, <1>6, <1>7 DEF Obeys
<1>9. Eq(f)
  BY <1>1, <1>6, <1>8 DEF Obeys
<1> HIDE DEF Eq
<1>10. Eq(F)
  BY <1>9 DEF F
<1> USE DEF Eq
<1>11. DOMAIN F = 0..n /\ F = [i \in DOMAIN F |-> F[i]]
  BY <1>10
<1>12. F[0] = <<>> /\ \A i \in 1..n : F[i] = next(i, F[i - 1])
  <2>1. \A i \in 0..n : F[i] = IF i = 0 THEN <<>> ELSE next(i, F[i - 1])
    BY <1>10
  <2> HIDE DEF next, Eq
  <2> QED
    BY <1>1, <2>1
<1>13. ASSUME NEW i \in 1..n, F[i - 1] \in V PROVE F[i] \in V
  <2> HIDE DEF next
  <2> QED
    BY <1>2, <1>12, <1>13
<1>14. F \in [0..n -> V]
  BY <1>1, <1>4, <1>11, <1>12, <1>13, Typed
<1> QED
  BY <1>1, <1>3, <1>14 DEF V, Values
-----------------------------------------------------------------------------
(* What an aggregate is made of.                                           *)

\* a is the minimum, the sum and the maximum of the first k values of v, or
\* unknown if one of them was not finite.
Covers(a, v, k) ==
  /\ a \in Aggregate /\ a.num = k
  /\ a.finite <=> \A i \in 1..k : v[i] \in Int
  /\ a.finite => /\ a.sum = Sums(v)[k]
                 /\ \A i \in 1..k : a.min <= v[i] /\ v[i] <= a.max
                 /\ k # 0 => /\ \E i \in 1..k : a.min = v[i]
                             /\ \E i \in 1..k : a.max = v[i]
  /\ ~a.finite => a = Unknown(k)

\* agg_data_t().
LEMMA CoversNone == Covers(NoData, <<>>, 0)
<1>1. <<>> \in Seq(Val) /\ Len(<<>>) = 0
  OBVIOUS
<1>2. Sums(<<>>)[0] = 0
  BY <1>1, SumsAre
<1> QED
  BY <1>2 DEF Covers, NoData, Aggregate

\* update_data.
LEMMA CoversNext ==
  ASSUME NEW v, v \in Seq(Val), NEW k, k \in 1..Len(v), NEW a, Covers(a, v, k - 1)
  PROVE  Covers(Widened(a, v[k]), v, k)
<1> DEFINE x == v[k]
           w == Widened(a, x)
<1>1. x \in Val /\ k \in Nat \ {0} /\ \A i \in 1..k : v[i] \in Val
  OBVIOUS
<1>2. a \in Aggregate /\ a.num = k - 1 /\ (a.finite <=> \A i \in 1..(k - 1) : v[i] \in Int)
  BY DEF Covers
<1>3. /\ a.min \in Int /\ a.max \in Int /\ a.sum \in Int /\ w \in Aggregate
      /\ \A i \in 1..k : i # k => i \in 1..(k - 1)
      /\ k \in 1..k /\ \A i \in 1..(k - 1) : i \in 1..k
  <2>1. a.min \in Int /\ a.max \in Int /\ a.sum \in Int
    BY <1>2 DEF Aggregate
  <2>2. w \in Aggregate
    BY <1>1, <1>2, WidenedIs
  <2> HIDE DEF w, x
  <2> QED
    BY <1>1, <2>1, <2>2
<1>4. CASE ~a.finite \/ x = NotFinite
  <2>1. w = Unknown(k)
    BY <1>1, <1>2, <1>4 DEF Widened
  <2>2. w.num = k /\ ~w.finite
    BY <2>1 DEF Unknown
  <2>3. ~ \A i \in 1..k : v[i] \in Int
    BY <1>2, <1>3, <1>4, Units
  <2> HIDE DEF w
  <2>4. Covers(w, v, k)
    BY <1>3, <2>1, <2>2, <2>3 DEF Covers
  <2> QED
    BY <2>4 DEF w
<1>5. CASE a.finite /\ x # NotFinite
  <2>1. /\ a.sum = Sums(v)[k - 1]
        /\ \A i \in 1..(k - 1) : a.min <= v[i] /\ v[i] <= a.max
        /\ k - 1 # 0 => /\ \E i \in 1..(k - 1) : a.min = v[i]
                        /\ \E i \in 1..(k - 1) : a.max = v[i]
    BY <1>5 DEF Covers
  <2>2. x \in Int /\ \A i \in 1..k : v[i] \in Int
    BY <1>1, <1>2, <1>3, <1>5 DEF Val
  <2>3. /\ w.num = k /\ w.sum = a.sum + x /\ w.finite
        /\ w.min = IF k = 1 \/ x < a.min THEN x ELSE a.min
        /\ w.max = IF k = 1 \/ x > a.max THEN x ELSE a.max
    BY <1>1, <1>2, <1>5 DEF Widened
  <2>4. w.sum = Sums(v)[k]
    <3>1. Sums(v)[k] = Sums(v)[k - 1] + Number(v[k])
      BY SumsAre
    <3>2. Number(v[k]) = x
      BY <2>2, NumberIs DEF Val
    <3> QED
      BY <2>1, <2>3, <3>1, <3>2
  <2> HIDE DEF w
  <2>5. \A i \in 1..k : w.min <= v[i] /\ v[i] <= w.max
    BY <1>1, <1>3, <2>1, <2>2, <2>3
  <2>6. \E i \in 1..k : w.min = v[i]
    BY <1>1, <1>3, <2>1, <2>3
  <2>7. \E i \in 1..k : w.max = v[i]
    BY <1>1, <1>3, <2>1, <2>3
  <2>8. Covers(w, v, k)
    BY <1>3, <2>2, <2>3, <2>4, <2>5, <2>6, <2>7 DEF Covers
  <2> QED
    BY <2>8 DEF w
<1> QED
  BY <1>4, <1>5

\* Sums do not change when more values come.
LEMMA SumsGoOn ==
  ASSUME NEW v, v \in Seq(Val), NEW w, w \in Seq(Val)
  PROVE  \A i \in 0..Len(v) : Sums(v \o w)[i] = Sums(v)[i]
<1> DEFINE n == Len(v)
           u == v \o w
           S == {i \in 0..n : Sums(u)[i] = Sums(v)[i]}
<1>1. n \in Nat /\ u \in Seq(Val) /\ \A i \in 1..n : i \in 1..Len(u) /\ u[i] = v[i]
  OBVIOUS
<1> HIDE DEF u
<1>2. Sums(u)[0] = 0 /\ Sums(v)[0] = 0
  BY <1>1, SumsAre
<1>3. \A i \in 1..n : /\ Sums(u)[i] = Sums(u)[i - 1] + Number(u[i])
                      /\ Sums(v)[i] = Sums(v)[i - 1] + Number(v[i])
  BY <1>1, SumsAre
<1>4. 0 \in S
  BY <1>1, <1>2
<1>5. \A i \in 1..n : i - 1 \in S => i \in S
  BY <1>1, <1>3
<1>6. 0..n \subseteq S
  <2> HIDE DEF S, n
  <2> QED
    BY <1>1, <1>4, <1>5, Upwards
<1> QED
  BY <1>6 DEF u

\* Nor does the aggregate of the first values.
LEMMA CoversStill ==
  ASSUME NEW v, v \in Seq(Val), NEW w, w \in Seq(Val), NEW a, Covers(a, v, Len(v))
  PROVE  Covers(a, v \o w, Len(v))
<1> DEFINE u == v \o w
           n == Len(v)
<1>1. n \in Nat /\ \A i \in 1..n : u[i] = v[i]
  OBVIOUS
<1>2. Sums(u)[n] = Sums(v)[n]
  BY <1>1, SumsGoOn
<1> HIDE DEF u
<1>3. Covers(a, u, n)
  BY <1>1, <1>2 DEF Covers
<1> QED
  BY <1>3 DEF u

\* An aggregate of values, and of those that came before.
LEMMA CoversMore ==
  ASSUME NEW v, v \in Seq(Val), NEW w, w \in Seq(Val), NEW a, Covers(a, v, Len(v))
  PROVE  Covers(WidenedBy(a, w), v \o w, Len(v \o w))
<1> DEFINE u == v \o w
           n == Len(w)
           m == Len(v)
<1>1. /\ n \in Nat /\ m \in Nat /\ u \in Seq(Val) /\ Len(u) = m + n
      /\ \A i \in 1..n : u[m + i] = w[i]
  OBVIOUS
<1>2. PICK f : Widens(f, a, w) /\ WidenedBy(a, w) = f[n]
  BY WidenedByIs DEF Covers
<1> DEFINE S == {k \in 0..n : Covers(f[k], u, m + k)}
<1>3. Covers(a, u, m)
  BY CoversStill
<1> HIDE DEF u, n, m
<1>4. 0 \in S
  BY <1>1, <1>2, <1>3 DEF Widens
<1>5. ASSUME NEW i \in 1..n, i - 1 \in S PROVE i \in S
  <2> DEFINE k == m + i
  <2>1. k \in 1..Len(u) /\ k - 1 = m + (i - 1) /\ u[k] = w[i]
    BY <1>1
  <2>2. Covers(f[i - 1], u, k - 1)
    BY <1>5, <2>1
  <2> HIDE DEF k
  <2>3. Covers(Widened(f[i - 1], u[k]), u, k)
    BY <1>1, <2>1, <2>2, CoversNext
  <2>4. f[i] = Widened(f[i - 1], u[k])
    BY <1>2, <2>1 DEF Widens, n
  <2> QED
    BY <1>1, <2>3, <2>4 DEF k
<1>6. 0..n \subseteq S
  <2> HIDE DEF S
  <2> QED
    BY <1>1, <1>4, <1>5, Upwards
<1>7. Covers(f[n], u, m + n)
  BY <1>1, <1>6
<1> QED
  BY <1>1, <1>2, <1>7 DEF u

\* What is sent of an aggregate is the summary of the values.
LEMMA CoversWhole ==
  ASSUME NEW v, v \in Values, NEW a, Covers(a, v, Len(v))
  PROVE  (IF a.num = 0 THEN Unknown(0) ELSE a) = SummaryOf(v)
<1> DEFINE n == Len(v)
           T == ToSet(v)
<1>1. n \in Nat /\ DOMAIN v = 1..n /\ a \in Aggregate /\ a.num = n /\ (v = <<>> <=> n = 0)
  BY DEF Values, Covers
<1>2. \A i \in 1..n : v[i] \in Val
  BY DEF Values
<1>3. \A x : x \in T <=> \E i \in 1..n : x = v[i]
  BY <1>1 DEF ToSet
<1>4. CASE n = 0
  <2>1. v = <<>> /\ Len(v) = 0
    BY <1>1, <1>4
  <2> QED
    BY <1>1, <2>1 DEF SummaryOf
<1>5. CASE n # 0 /\ ~a.finite
  <2>1. a = Unknown(n)
    BY <1>5 DEF Covers
  <2>2. \E i \in 1..n : v[i] \notin Int
    BY <1>5 DEF Covers
  <2>3. NotFinite \in T
    BY <1>2, <1>3, <2>2 DEF Val
  <2> HIDE DEF T
  <2>4. SummaryOf(v) = Unknown(n)
    BY <2>3 DEF SummaryOf, T
  <2> QED
    BY <1>1, <1>5, <2>1, <2>4
<1>6. CASE n # 0 /\ a.finite
  <2>1. \A i \in 1..n : v[i] \in Int
    BY <1>6 DEF Covers
  <2>2. T \subseteq Int
    BY <1>3, <2>1
  <2>3. a.min \in T /\ a.max \in T /\ \A x \in T : a.min <= x /\ x <= a.max
    BY <1>3, <1>6 DEF Covers
  <2>4. NotFinite \notin T /\ v # <<>>
    BY <1>1, <1>6, <2>2, Units
  <2>5. a.sum = SumOf(v)
    BY <1>6 DEF Covers, SumOf
  <2> HIDE DEF T
  <2>6. a.min = Min(T)
    <3>1. Min(T) \in T /\ \A x \in T : Min(T) <= x
      BY <2>3 DEF Min
    <3>2. a.min \in Int /\ Min(T) \in Int
      BY <2>2, <2>3, <3>1
    <3>3. a.min <= Min(T) /\ Min(T) <= a.min
      BY <2>3, <3>1, <3>2
    <3> QED
      BY <3>2, <3>3
  <2>7. a.max = Max(T)
    <3>1. Max(T) \in T /\ \A x \in T : Max(T) >= x
      BY <2>2, <2>3 DEF Max
    <3>2. a.max \in Int /\ Max(T) \in Int
      BY <2>2, <2>3, <3>1
    <3>3. a.max <= Max(T) /\ Max(T) <= a.max
      BY <2>3, <3>1, <3>2
    <3> QED
      BY <3>2, <3>3
  <2>8. SummaryOf(v) = [min |-> a.min, max |-> a.max, sum |-> a.sum, num |-> n, finite |-> TRUE]
    BY <2>4, <2>5, <2>6, <2>7 DEF SummaryOf, T
  <2>9. a = [min |-> a.min, max |-> a.max, sum |-> a.sum, num |-> n, finite |-> TRUE]
    BY <1>1, <1>6 DEF Aggregate
  <2> QED
    BY <1>1, <1>6, <2>8, <2>9
<1> QED
  BY <1>4, <1>5, <1>6

\* The sum of some values lies between as many times their extremes.
LEMMA CoversAverage ==
  ASSUME NEW v, v \in Seq(Val), NEW a, Covers(a, v, Len(v)), a.finite
  PROVE  a.min * a.num <= a.sum /\ a.sum <= a.max * a.num
<1> DEFINE n == Len(v)
           lo == a.min
           hi == a.max
           S == {k \in 0..n : lo * k <= Sums(v)[k] /\ Sums(v)[k] <= hi * k}
<1>1. n \in Nat /\ lo \in Int /\ hi \in Int
  BY DEF Covers, Aggregate
<1>2. \A i \in 1..n : v[i] \in Int /\ lo <= v[i] /\ v[i] <= hi
  BY DEF Covers
<1>3. /\ Sums(v)[0] = 0 /\ \A i \in 0..n : Sums(v)[i] \in Int
      /\ \A i \in 1..n : Sums(v)[i] = Sums(v)[i - 1] + v[i]
  <2>1. \A i \in 1..n : Sums(v)[i] = Sums(v)[i - 1] + Number(v[i])
    BY SumsAre
  <2>2. \A i \in 1..n : Number(v[i]) = v[i]
    BY <1>2, NumberIs DEF Val
  <2> QED
    BY <2>1, <2>2, SumsAre
<1> HIDE DEF lo, hi, n
<1>4. 0 \in S
  BY <1>1, <1>3
<1>5. ASSUME NEW i \in 1..n, i - 1 \in S PROVE i \in S
  <2>1. /\ i \in Nat /\ i - 1 \in 0..n /\ lo * i = lo * (i - 1) + lo
        /\ hi * i = hi * (i - 1) + hi
    BY <1>1
  <2>2. lo * (i - 1) <= Sums(v)[i - 1] /\ Sums(v)[i - 1] <= hi * (i - 1)
    BY <1>5
  <2>3. Sums(v)[i - 1] \in Int /\ Sums(v)[i] = Sums(v)[i - 1] + v[i]
    BY <1>3, <2>1
  <2>4. v[i] \in Int /\ lo <= v[i] /\ v[i] <= hi
    BY <1>2
  <2> DEFINE p == lo * (i - 1)
             q == hi * (i - 1)
  <2>5. p \in Int /\ q \in Int
    BY <1>1, <2>1
  <2>6. lo * i <= Sums(v)[i] /\ Sums(v)[i] <= hi * i
    <3>1. /\ lo * i = p + lo /\ hi * i = q + hi
          /\ p <= Sums(v)[i - 1] /\ Sums(v)[i - 1] <= q
      BY <2>1, <2>2
    <3> HIDE DEF p, q
    <3> QED
      BY <1>1, <2>3, <2>4, <2>5, <3>1
  <2> QED
    BY <1>1, <2>6
<1>6. 0..n \subseteq S
  <2> HIDE DEF S
  <2> QED
    BY <1>1, <1>4, <1>5, Upwards
<1>7. n \in S
  BY <1>1, <1>6
<1>8. lo * n <= Sums(v)[n] /\ Sums(v)[n] <= hi * n
  BY <1>7
<1>9. a.num = n /\ a.sum = Sums(v)[n]
  BY DEF Covers, n
<1> QED
  BY <1>8, <1>9 DEF lo, hi
-----------------------------------------------------------------------------
(* Blocks.                                                                 *)

\* A block that a sensor has sent.
Block(b) == \E T : b \in Seq([sensor : T, data : Seq(Cell)])

\* What the prepend of host h adds.
MarkerOf(h, dn) == dn = NoNode \/ \E m \in Mark : dn = Marker(h, m)

\* A block comes through demux by the mark of its host alone, and demux takes
\* that mark out again.
LEMMA MarkIs ==
  ASSUME NEW b, Block(b), SensorsOf(b) \cap Mark = {}, NEW h, NEW dn, MarkerOf(h, dn),
         NEW id, id \in Mark \cup {NoId}, NEW map,
         NEW r, r \in Route(id, map, Prepended(dn, b))
  PROVE  r = h /\ Unmarked(id, Prepended(dn, b)) = b
<1>0. PICK T : b \in Seq(T)
  BY DEF Block
<1>1. Len(b) \in Nat /\ DOMAIN b = 1..Len(b)
  BY <1>0
<1>2. id \in Mark /\ Marks(id, b) = {}
  BY DEF Route, Marks, SensorsOf
<1>3. dn # NoNode /\ \E m \in Mark : dn = Marker(h, m)
  BY <1>2 DEF Route, Prepended, MarkerOf
<1> DEFINE p == <<dn>> \o b
<1>4. /\ Prepended(dn, b) = p /\ Len(p) = Len(b) + 1 /\ DOMAIN p = 1..(Len(b) + 1)
      /\ p[1] = dn /\ \A i \in 1..Len(b) : p[i + 1] = b[i]
  BY <1>1, <1>3 DEF Prepended
<1> HIDE DEF p
<1>5. \A i \in DOMAIN p : i # 1 => i - 1 \in 1..Len(b) /\ p[i] = b[i - 1]
  BY <1>1, <1>4
<1>6. Marks(id, p) \subseteq {1}
  BY <1>1, <1>2, <1>5 DEF Marks
<1>7. Marks(id, p) # {} /\ r = p[FirstMark(id, p)].data
  BY <1>2, <1>4 DEF Route
<1>8. Marks(id, p) = {1}
  BY <1>6, <1>7
<1>9. FirstMark(id, p) = 1
  BY <1>8 DEF FirstMark
<1>10. r = h
  BY <1>3, <1>4, <1>7, <1>9 DEF Marker
<1>11. Unmarked(id, p) = SubSeq(p, 1, 0) \o SubSeq(p, 2, Len(p))
  BY <1>9 DEF Unmarked, RemoveAt
<1>12. SubSeq(p, 1, 0) = <<>> /\ SubSeq(p, 2, Len(p)) = b
  <2> DEFINE q == SubSeq(p, 2, Len(p))
  <2>1. \A i \in 2..Len(p) : p[i] \in T
    <3> SUFFICES ASSUME NEW i \in 2..Len(p) PROVE p[i] \in T
      OBVIOUS
    <3>1. i \in DOMAIN p /\ i # 1
      BY <1>1, <1>4
    <3> QED
      BY <1>0, <1>1, <1>5, <3>1
  <2>2. 2 \in Int /\ Len(p) \in Int
    BY <1>1, <1>4
  <2>3. /\ q \in Seq(T) /\ Len(q) = IF 2 <= Len(p) THEN Len(p) - 2 + 1 ELSE 0
        /\ \A i \in 1..(Len(p) - 2 + 1) : q[i] = p[2 + i - 1]
    BY <2>1, <2>2, SubSeqProperties
  <2> HIDE DEF q
  <2>4. Len(q) = Len(b) /\ \A i \in 1..Len(q) : q[i] = b[i]
    <3>1. Len(q) = Len(b)
      BY <1>1, <1>4, <2>3
    <3>2. \A i \in 1..Len(b) : i \in 1..(Len(p) - 2 + 1) /\ 2 + i - 1 = i + 1
      BY <1>1, <1>4
    <3> QED
      BY <1>4, <2>3, <3>1, <3>2
  <2>5. q = b
    BY <1>0, <2>3, <2>4, SeqEqual
  <2>6. SubSeq(p, 1, 0) = <<>>
    BY SubSeqEmpty
  <2> QED
    BY <2>5, <2>6 DEF q
<1> QED
  BY <1>4, <1>10, <1>11, <1>12
-----------------------------------------------------------------------------
(* The cells of a data node.                                               *)

\* Elements lie within the cells they are counted in.
LEMMA CountIs ==
  ASSUME NEW v, v \in Seq(Cell), NEW size \in {1, 2}
  PROVE  Count(size, v) \in Nat /\ \A i \in 1..Count(size, v) : size * i <= Len(v)
<1> DEFINE n == Len(v)
<1>1. n \in Nat /\ Count(size, v) = n \div size
  BY DEF Count
<1> HIDE DEF n
<1>2. n \div size \in Nat /\ \A i \in 1..(n \div size) : size * i <= n
  <2>1. CASE size = 1
    BY <1>1, <2>1
  <2>2. CASE size = 2
    BY <1>1, <2>2
  <2> QED
    BY <2>1, <2>2
<1> QED
  BY <1>1, <1>2 DEF n

LEMMA ElementIs ==
  ASSUME NEW v, v \in Seq(Cell), NEW size \in {1, 2}, NEW i \in Nat \ {0}, size * i <= Len(v)
  PROVE  Element(v, size, i) \in Int
<1>1. Base \in Nat /\ \A j \in 1..Len(v) : v[j] \in Int
  BY BlocksAssumption, Units
<1>2. CASE size = 1
  <2>1. i \in 1..Len(v)
    BY <1>2
  <2> QED
    BY <1>1, <1>2, <2>1 DEF Element
<1>3. CASE size = 2
  <2> DEFINE x == v[2 * i - 1]
             y == v[2 * i]
  <2>1. 2 * i - 1 \in 1..Len(v) /\ 2 * i \in 1..Len(v)
    BY <1>3
  <2>2. x \in Int /\ y \in Int /\ Element(v, size, i) = x + Base * y
    BY <1>1, <1>3, <2>1 DEF Element
  <2> HIDE DEF x, y
  <2> QED
    BY <1>1, <2>2
<1> QED
  BY <1>2, <1>3

\* An element is read from as many cells as it takes.
LEMMA ElementOfPrefix ==
  ASSUME NEW v, v \in Seq(Cell), NEW w, \A j \in 1..Len(v) : w[j] = v[j],
         NEW size \in {1, 2}, NEW i \in Nat \ {0}, size * i <= Len(v)
  PROVE  Element(w, size, i) = Element(v, size, i)
<1>1. CASE size = 1
  <2>1. i \in 1..Len(v)
    BY <1>1
  <2> QED
    BY <1>1, <2>1 DEF Element
<1>2. CASE size = 2
  <2>1. 2 * i - 1 \in 1..Len(v) /\ 2 * i \in 1..Len(v)
    BY <1>2
  <2>2. w[2 * i - 1] = v[2 * i - 1] /\ w[2 * i] = v[2 * i]
    BY <2>1
  <2> QED
    BY <1>2, <2>2 DEF Element
<1> QED
  BY <1>1, <1>2
-----------------------------------------------------------------------------
(* The derivative of one host, with the history of what the host sent.     *)

\* f is a function on S.
OnSet(f, S) == f \in [S -> {f[x] : x \in S}]

\* How a derivative treats its sensors.
Treated(sensors) == /\ DOMAIN sensors \subseteq SourceIds
                    /\ \A s \in DOMAIN sensors : sensors[s] \in [type : Used, dst : Rate]

\* The last values l of a sensor are those that the host sent last, r, at a
\* time before; and the rates add up to them.
LastRec(time) == [at : 1..time, count : Nat, cells : Seq(Cell)]
Kept(l, r, time) ==
  /\ l \in LastRec(time)
  /\ r.at = l.at /\ r.size \in {1, 2} /\ r.values \in Seq(Cell)
  /\ l.count = Count(r.size, r.values)
  /\ Len(r.values) <= Len(l.cells) /\ \A j \in 1..Len(r.values) : l.cells[j] = r.values[j]
  /\ DOMAIN r.total = 1..l.count
  /\ \A i \in 1..l.count :
       Follows(r.total[i], Element(r.values, r.size, i), r.size, r.slack[i])

\* A derivative has last values of sensors that it treats and no others.
HostKept(sensors, last, e, time) ==
  /\ DOMAIN last \subseteq DOMAIN sensors /\ OnSet(e, DOMAIN last)
  /\ \A s \in DOMAIN last : Kept(last[s], e[s], time)
HostInv(d, e, time) ==
  /\ d \in [sensors : {d.sensors}, last : {d.last}, out : BOOLEAN]
  /\ Treated(d.sensors) /\ HostKept(d.sensors, d.last, e, time)

LEMMA TypesIs ==
  ASSUME NEW sensors, Treated(sensors), NEW s \in DOMAIN sensors
  PROVE  /\ sensors[s].type \in Types /\ sensors[s].dst \in Rate
         /\ Size(sensors[s].type) \in {1, 2}
<1>1. sensors[s] \in [type : Used, dst : Rate]
  BY DEF Treated
<1>2. sensors[s].type \in Types /\ sensors[s].dst \in Rate
  BY <1>1, StreamAssumption
<1> QED
  BY <1>2, SizeIs

LEMMA KeptLater ==
  ASSUME NEW sensors, NEW last, NEW e, NEW time \in Nat, HostKept(sensors, last, e, time)
  PROVE  HostKept(sensors, last, e, time + 1)
<1>1. LastRec(time) \subseteq LastRec(time + 1)
  <2>1. \A x \in 1..time : x \in 1..(time + 1)
    OBVIOUS
  <2> QED
    BY <2>1 DEF LastRec
<1>2. ASSUME NEW s \in DOMAIN last PROVE Kept(last[s], e[s], time + 1)
  <2>1. Kept(last[s], e[s], time)
    BY DEF HostKept
  <2> QED
    BY <1>1, <2>1 DEF Kept
<1> QED
  BY <1>2 DEF HostKept

LEMMA HostInvLater ==
  ASSUME NEW d, NEW e, NEW time \in Nat, HostInv(d, e, time)
  PROVE  HostInv(d, e, time + 1)
BY KeptLater DEF HostInv

\* A hook comes or goes.
LEMMA HostInvHook ==
  ASSUME NEW d, NEW e, NEW time, HostInv(d, e, time), NEW o \in BOOLEAN
  PROVE  HostInv([d EXCEPT !.out = o], e, time)
<1> DEFINE x == [d EXCEPT !.out = o]
<1>1. /\ x.sensors = d.sensors /\ x.last = d.last
      /\ x \in [sensors : {d.sensors}, last : {d.last}, out : BOOLEAN]
  BY DEF HostInv
<1> HIDE DEF x
<1>2. HostInv(x, e, time)
  BY <1>1 DEF HostInv
<1> QED
  BY <1>2 DEF x

\* merge_sensor_desc: what is dropped is forgotten, what is set up starts anew
\* or goes on.
LEMMA HostInvSet ==
  ASSUME NEW d, NEW e, NEW time, HostInv(d, e, time), NEW descs,
         DOMAIN descs \subseteq SourceIds,
         \A s \in DOMAIN descs :
           descs[s].type # "NONE" => descs[s] \in [type : Used, dst : Rate]
  PROVE  HostInv(DerivativeSet(d, descs), Without(e, Dropped(descs)), time)
<1> DEFINE x == DerivativeSet(d, descs)
           f == Without(e, Dropped(descs))
<1>1. /\ x.sensors = Described(d.sensors, descs) /\ x.last = LastAfter(d, descs)
      /\ x \in [sensors : {x.sensors}, last : {x.last}, out : BOOLEAN]
  BY DEF HostInv, DerivativeSet
<1>2. /\ DOMAIN x.last = DOMAIN d.last \ Dropped(descs)
      /\ \A s \in DOMAIN x.last : x.last[s] = d.last[s]
  BY <1>1 DEF LastAfter, Without
<1>3. /\ Treated(d.sensors) /\ DOMAIN e = DOMAIN d.last /\ DOMAIN d.last \subseteq DOMAIN d.sensors
      /\ \A s \in DOMAIN d.last : Kept(d.last[s], e[s], time)
  BY DEF HostInv, HostKept, OnSet
<1>4. OnSet(f, DOMAIN x.last) /\ \A s \in DOMAIN x.last : f[s] = e[s]
  BY <1>2, <1>3 DEF OnSet, Without
<1>5. /\ DOMAIN x.sensors = (DOMAIN d.sensors \cup DOMAIN descs) \ Dropped(descs)
      /\ \A s \in DOMAIN x.sensors :
           x.sensors[s] = IF s \in DOMAIN descs THEN descs[s] ELSE d.sensors[s]
  BY <1>1 DEF Described
<1> HIDE DEF x, f
<1>6. Treated(x.sensors)
  BY <1>3, <1>5 DEF Treated, Dropped
<1>7. HostKept(x.sensors, x.last, f, time)
  BY <1>2, <1>3, <1>4, <1>5 DEF HostKept
<1>8. HostInv(x, f, time)
  BY <1>1, <1>6, <1>7 DEF HostInv
<1> QED
  BY <1>8 DEF x, f

LEMMA NothingKept == \A sensors, time : HostKept(sensors, EmptyMap, EmptyMap, time)
  BY DEF HostKept, EmptyMap, OnSet

LEMMA HostInvClear ==
  ASSUME NEW d, NEW e, NEW time, HostInv(d, e, time)
  PROVE  HostInv(DerivativeClear(d), EmptyMap, time)
<1> DEFINE x == DerivativeClear(d)
<1>1. /\ x.sensors = EmptyMap /\ x.last = EmptyMap
      /\ x \in [sensors : {x.sensors}, last : {x.last}, out : BOOLEAN]
  BY DEF HostInv, DerivativeClear
<1>2. Treated(EmptyMap)
  BY DEF EmptyMap, Treated
<1> HIDE DEF x
<1>3. HostInv(x, EmptyMap, time)
  BY <1>1, <1>2, NothingKept DEF HostInv
<1> QED
  BY <1>3 DEF x
-----------------------------------------------------------------------------
(* One data node in rcvdata of derivative.                                 *)

\* The values of the node are at the head of the buffer.
LEMMA RememberedIs ==
  ASSUME NEW sensors, NEW last, NEW n, n.data \in Seq(Cell),
         NEW size, size = Size(sensors[n.sensor].type), size \in {1, 2},
         NEW t, t \in Nat \ {0}, Fits(sensors, last, n),
         n.sensor \in DOMAIN last => last[n.sensor].cells \in Seq(Cell)
  PROVE  LET l == Remembered(sensors, last, n, t)
         IN  /\ l \in LastRec(t) /\ l.at = t /\ l.count = Count(size, n.data)
             /\ Len(n.data) <= Len(l.cells)
             /\ \A j \in 1..Len(n.data) : l.cells[j] = n.data[j]
<1> DEFINE l == Remembered(sensors, last, n, t)
           v == n.data
           room == last[n.sensor].cells
           rest == SubSeq(room, Len(v) + 1, Len(room))
           cells == IF Comparable(sensors, last, n) THEN v \o rest ELSE v
<1>1. l.at = t /\ l.count = Count(size, v) /\ l.cells = cells
      /\ l = [at |-> t, count |-> Count(size, v), cells |-> cells]
  BY DEF Remembered
<1>2. Len(v) \in Nat /\ v \in Seq(Cell) /\ Count(size, v) \in Nat
  BY CountIs
<1>3. cells \in Seq(Cell) /\ Len(v) <= Len(cells) /\ \A j \in 1..Len(v) : cells[j] = v[j]
  <2>1. CASE Comparable(sensors, last, n)
    <3>1. room \in Seq(Cell) /\ Len(v) <= Len(room) /\ Len(room) \in Nat
      BY <2>1 DEF Fits, Comparable
    <3> HIDE DEF v, room
    <3>2. rest \in Seq(Cell) /\ Len(rest) \in Nat
      BY <1>2, <3>1
    <3> HIDE DEF rest
    <3>3. /\ v \o rest \in Seq(Cell) /\ Len(v \o rest) = Len(v) + Len(rest)
          /\ \A j \in 1..Len(v) : (v \o rest)[j] = v[j]
      BY <1>2, <3>2
    <3>4. cells = v \o rest
      BY <2>1
    <3> QED
      BY <1>2, <3>2, <3>3, <3>4
  <2>2. CASE ~Comparable(sensors, last, n)
    BY <1>2, <2>2
  <2> QED
    BY <2>1, <2>2
<1> HIDE DEF cells, l, v
<1>4. l \in LastRec(t)
  BY <1>1, <1>2, <1>3 DEF LastRec
<1> QED
  BY <1>1, <1>3, <1>4 DEF l, v

\* A rate for each value of a data node that can be compared.
LEMMA RateOfIs ==
  ASSUME NEW sensors, Treated(sensors), NEW last, NEW n, n.data \in Seq(Cell),
         n.sensor \in DOMAIN sensors, NEW t, t \in Nat \ {0},
         n.sensor \in DOMAIN last => last[n.sensor] \in LastRec(t),
         Comparable(sensors, last, n), Fits(sensors, last, n)
  PROVE  RateOf(sensors, last, n, t) \in Values
<1> DEFINE s == n.sensor
           l == last[s]
           type == sensors[s].type
           size == Size(type)
           v == n.data
           k == l.count
           diff(i) == Difference(type, Element(v, size, i), Element(l.cells, size, i))
           f == RateOf(sensors, last, n, t)
           rate(i) == IF t = l.at THEN NotFinite ELSE Rounded(RateUnit * diff(i), t - l.at)
<1>1. type \in Types /\ size \in {1, 2}
  BY TypesIs
<1>2. /\ l \in LastRec(t) /\ k = Count(size, v) /\ Len(v) <= Len(l.cells)
      /\ v \in Seq(Cell)
  BY DEF Comparable, Fits
<1>3. l.at \in 1..t /\ l.cells \in Seq(Cell) /\ k \in Nat
  BY <1>2 DEF LastRec
<1>4. DOMAIN f = 1..k /\ f = [i \in DOMAIN f |-> f[i]] /\ \A i \in 1..k : f[i] = rate(i)
  <2>1. DOMAIN f = 1..k /\ f = [i \in DOMAIN f |-> f[i]]
    BY DEF RateOf
  <2>2. ASSUME NEW i \in 1..k PROVE f[i] = rate(i)
    BY DEF RateOf
  <2> HIDE DEF f, rate, k
  <2> QED
    BY <2>1, <2>2
<1> HIDE DEF type, size, v, k, f, l
<1>5. ASSUME NEW i \in 1..k PROVE rate(i) \in Val
  <2>1. i \in Nat \ {0} /\ size * i <= Len(v) /\ size * i <= Len(l.cells)
    <3>1. size * i <= Len(v)
      BY <1>1, <1>2, CountIs
    <3>2. Len(v) \in Nat /\ Len(l.cells) \in Nat /\ size * i \in Nat /\ i \in Nat \ {0}
      BY <1>1, <1>2, <1>3
    <3> QED
      BY <1>2, <3>1, <3>2
  <2>2. Element(v, size, i) \in Int /\ Element(l.cells, size, i) \in Int
    BY <1>1, <1>2, <1>3, <2>1, ElementIs
  <2>3. diff(i) \in Int
    BY <1>1, <2>2, DifferenceLeads
  <2> HIDE DEF diff
  <2>4. CASE t = l.at
    BY <2>4 DEF Val
  <2>5. CASE t # l.at
    <3> DEFINE dt == t - l.at
               a == RateUnit * diff(i)
    <3>1. dt \in Nat \ {0} /\ a \in Int
      BY <1>3, <2>3, <2>5, Units
    <3> HIDE DEF dt, a
    <3>2. Rounded(a, dt) \in Int
      BY <3>1, RoundedIs
    <3>3. rate(i) = Rounded(a, dt)
      BY <2>5 DEF a, dt
    <3> QED
      BY <3>2, <3>3 DEF Val
  <2> QED
    BY <2>4, <2>5
<1> HIDE DEF rate
<1>6. f \in Seq(Val)
  BY <1>3, <1>4, <1>5
<1> QED
  BY <1>6 DEF Values, f

\* The host's series goes on with what the derivative makes of the node.
LEMMA ExtendedKept ==
  ASSUME NEW sensors, NEW last, NEW e, NEW t, t \in Nat \ {0}, Treated(sensors),
         HostKept(sensors, last, e, t), NEW n, n.sensor \in DOMAIN sensors,
         n.data \in Seq(Cell), Fits(sensors, last, n)
  PROVE  Kept(Remembered(sensors, last, n, t), Extended(e, sensors, last, n, t), t)
<1> DEFINE s == n.sensor
           v == n.data
           type == sensors[s].type
           size == Size(type)
           k == Count(size, v)
           l == last[s]
           r == e[s]
           L == Remembered(sensors, last, n, t)
           R == Extended(e, sensors, last, n, t)
           on == GoesOn(e, n, size, t)
           rate == RateOf(sensors, last, n, t)
           cur(i) == Element(v, size, i)
           prev(i) == Element(r.values, size, i)
           a(i) == RateUnit * Difference(type, cur(i), prev(i))
<1>1. type \in Types /\ size \in {1, 2} /\ v \in Seq(Cell)
  BY TypesIs
<1>2. DOMAIN e = DOMAIN last /\ \A x \in DOMAIN last : Kept(last[x], e[x], t)
  BY DEF HostKept, OnSet
<1>3. /\ L \in LastRec(t) /\ L.at = t /\ L.count = k
      /\ Len(v) <= Len(L.cells) /\ \A j \in 1..Len(v) : L.cells[j] = v[j]
  <2>1. s \in DOMAIN last => last[s].cells \in Seq(Cell)
    <3>1. s \in DOMAIN last => last[s] \in LastRec(t)
      BY <1>2 DEF Kept
    <3> QED
      BY <3>1 DEF LastRec
  <2> DEFINE z == size
  <2>2. z = Size(sensors[n.sensor].type) /\ z \in {1, 2}
    BY <1>1
  <2> HIDE DEF z
  <2>3. LET x == Remembered(sensors, last, n, t)
        IN  /\ x \in LastRec(t) /\ x.at = t /\ x.count = Count(z, n.data)
            /\ Len(n.data) <= Len(x.cells)
            /\ \A j \in 1..Len(n.data) : x.cells[j] = n.data[j]
    BY <2>1, <2>2, RememberedIs
  <2> QED
    BY <2>3 DEF z
<1>4. /\ R.at = t /\ R.values = v /\ R.size = size /\ DOMAIN R.total = 1..k
      /\ \A i \in 1..k :
           /\ R.total[i] = IF ~on THEN RateUnit * cur(i)
                           ELSE IF ~Comparable(sensors, last, n) THEN r.total[i]
                           ELSE r.total[i] + rate[i] * (t - r.at)
           /\ R.slack[i] = IF ~on THEN 0
                           ELSE r.slack[i] + Spacing(a(i) \div (t - r.at)) * (t - r.at)
  BY DEF Extended
<1> HIDE DEF L, R, k, v
<1>5. k \in Nat /\ \A i \in 1..k : size * i <= Len(v) /\ cur(i) \in Int
  <2>1. k \in Nat /\ \A i \in 1..k : size * i <= Len(v)
    BY <1>1, CountIs DEF k
  <2>2. \A i \in 1..k : i \in Nat \ {0}
    BY <2>1
  <2> QED
    BY <1>1, <2>1, <2>2, ElementIs
<1>6. ASSUME NEW i \in 1..k PROVE Follows(R.total[i], cur(i), size, R.slack[i])
  <2>1. CASE ~on
    <3>1. R.total[i] = RateUnit * cur(i) /\ R.slack[i] = 0 /\ cur(i) \in Int
      BY <1>4, <1>5, <2>1
    <3> HIDE DEF cur
    <3> QED
      BY <1>1, <3>1, FollowsFirst
  <2>2. CASE on
    <3>1. /\ s \in DOMAIN last /\ r.size = size /\ r.at < t /\ Count(size, r.values) = k
          /\ Kept(l, r, t)
      BY <1>2, <2>2 DEF GoesOn, k, v
    <3>2. /\ l \in LastRec(t) /\ r.at = l.at /\ r.values \in Seq(Cell) /\ l.count = k
          /\ \A j \in 1..Len(r.values) : l.cells[j] = r.values[j]
          /\ Follows(r.total[i], prev(i), size, r.slack[i])
      <4>1. l.count = Count(r.size, r.values)
        BY <3>1 DEF Kept
      <4>2. l.count = k
        BY <3>1, <4>1
      <4>3. Follows(r.total[i], Element(r.values, r.size, i), r.size, r.slack[i])
        BY <3>1, <4>2 DEF Kept
      <4> QED
        BY <3>1, <4>2, <4>3 DEF Kept
    <3>3. Comparable(sensors, last, n)
      BY <3>1, <3>2 DEF Comparable, k, v
    <3>4. l.at \in 1..t /\ i \in Nat \ {0} /\ i \in 1..k
      BY <1>5, <3>2 DEF LastRec
    <3> DEFINE dt == t - r.at
    <3>5. dt \in Nat \ {0} /\ t # l.at
      BY <3>1, <3>2, <3>4
    <3>6. /\ size * i <= Len(r.values) /\ prev(i) \in Int
          /\ Element(l.cells, size, i) = prev(i)
      <4>1. size * i <= Len(r.values)
        BY <1>1, <3>1, <3>2, <3>4, CountIs
      <4> QED
        BY <1>1, <3>2, <3>4, <4>1, ElementIs, ElementOfPrefix
    <3>7. rate[i] = Rounded(a(i), dt)
      <4>1. i \in 1..l.count
        BY <3>2, <3>4
      <4>2. rate[i] = Rounded(RateUnit * Difference(type, Element(v, size, i),
                                                    Element(l.cells, size, i)), t - l.at)
        BY <3>5, <4>1 DEF RateOf, v
      <4> QED
        BY <3>2, <3>6, <4>2
    <3>8. /\ R.total[i] = r.total[i] + rate[i] * dt
          /\ R.slack[i] = r.slack[i] + Spacing(a(i) \div dt) * dt
      BY <1>4, <2>2, <3>3
    <3> DEFINE c == cur(i)
               p == prev(i)
               y == a(i)
               total == r.total[i]
               slack == r.slack[i]
    <3>9. c \in Int /\ p \in Int /\ y = RateUnit * Difference(type, c, p)
      BY <1>5, <3>6
    <3>10. Follows(total, p, Size(type), slack)
      BY <3>2
    <3> HIDE DEF c, p, y, total, slack, dt, type, rate
    <3>11. Follows(total + Rounded(y, dt) * dt, c, Size(type), slack + Spacing(y \div dt) * dt)
      BY <1>1, <3>5, <3>9, <3>10, FollowsNext
    <3>12. R.total[i] = total + Rounded(y, dt) * dt /\ R.slack[i] = slack + Spacing(y \div dt) * dt
      BY <3>7, <3>8 DEF y, total, slack
    <3> QED
      BY <3>11, <3>12 DEF c
  <2> QED
    BY <2>1, <2>2
<1>7. Kept(L, R, t)
  <2>1. L.count = Count(R.size, R.values) /\ R.size \in {1, 2} /\ R.values = v
    BY <1>1, <1>3, <1>4 DEF k
  <2>2. \A i \in 1..L.count : Follows(R.total[i], Element(R.values, R.size, i), R.size, R.slack[i])
    BY <1>3, <1>4, <1>6
  <2> HIDE DEF size, type, rate, on, l, r
  <2> QED
    BY <1>1, <1>3, <1>4, <2>1, <2>2 DEF Kept
<1> QED
  BY <1>7 DEF L, R

LEMMA PutKept ==
  ASSUME NEW sensors, NEW last, NEW e, NEW t, HostKept(sensors, last, e, t),
         NEW s \in DOMAIN sensors, NEW l, NEW r, Kept(l, r, t)
  PROVE  HostKept(sensors, Put(last, s, l), Put(e, s, r), t)
<1> DEFINE L == Put(last, s, l)
           E == Put(e, s, r)
<1>1. DOMAIN last \subseteq DOMAIN sensors /\ DOMAIN e = DOMAIN last
  BY DEF HostKept, OnSet
<1>2. /\ DOMAIN L = DOMAIN last \cup {s} /\ L[s] = l
      /\ \A x \in DOMAIN last : x # s => L[x] = last[x]
  BY DEF Put
<1>3. /\ OnSet(E, DOMAIN last \cup {s}) /\ E[s] = r
      /\ \A x \in DOMAIN last : x # s => E[x] = e[x]
  BY <1>1 DEF Put, OnSet
<1> HIDE DEF L, E
<1>4. \A x \in DOMAIN last : Kept(last[x], e[x], t)
  BY DEF HostKept
<1>5. \A x \in DOMAIN L : Kept(L[x], E[x], t)
  BY <1>2, <1>3, <1>4
<1>6. HostKept(sensors, L, E, t)
  BY <1>1, <1>2, <1>3, <1>5 DEF HostKept
<1> QED
  BY <1>6 DEF L, E
-----------------------------------------------------------------------------
(* The loop of rcvdata of derivative.                                      *)

\* Progress goes through the data nodes one by one,
LEMMA ProgressIs ==
  ASSUME NEW d, NEW b, Len(b) \in Nat, NEW t
  PROVE  LET F == Progress(d, b, t)
         IN  /\ F[0] = [last |-> d.last, rates |-> <<>>, fits |-> TRUE]
             /\ \A i \in 1..Len(b) : F[i] = Taken(d.sensors, F[i - 1], b[i], t)
<1> DEFINE n == Len(b)
           base == [last |-> d.last, rates |-> <<>>, fits |-> TRUE]
           next(i, x) == Taken(d.sensors, x, b[i], t)
           Eq(g) == g = [i \in 0..n |-> IF i = 0 THEN base ELSE next(i, g[i - 1])]
           Begun(g, k) == g[0] = base /\ \A i \in 1..k : g[i] = next(i, g[i - 1])
           S == {k \in 0..n : \E g : Begun(g, k)}
           F == Progress(d, b, t)
<1>1. n \in Nat
  OBVIOUS
<1>2. F = CHOOSE g : Eq(g)
  BY DEF Progress
<1> HIDE DEF n, base, next, F
<1>3. 0 \in S
  <2>1. Begun([i \in 0..0 |-> base], 0)
    OBVIOUS
  <2> HIDE DEF Begun
  <2> QED
    BY <1>1, <2>1
<1>4. ASSUME NEW k \in 1..n, k - 1 \in S PROVE k \in S
  <2>1. PICK g : Begun(g, k - 1)
    BY <1>4
  <2> DEFINE h == [i \in 0..k |-> IF i = k THEN next(k, g[k - 1]) ELSE g[i]]
  <2>2. k \in Nat \ {0} /\ k \in 0..n
    BY <1>1
  <2>3. h[0] = base /\ h[k] = next(k, g[k - 1]) /\ \A i \in 0..(k - 1) : h[i] = g[i]
    BY <2>1, <2>2
  <2>4. ASSUME NEW i \in 1..k PROVE h[i] = next(i, h[i - 1])
    <3>1. i - 1 \in 0..(k - 1) /\ (i # k => i \in 1..(k - 1) /\ i \in 0..(k - 1))
      BY <2>2
    <3> HIDE DEF h
    <3> QED
      BY <2>1, <2>3, <3>1
  <2>5. Begun(h, k)
    BY <2>3, <2>4
  <2> HIDE DEF Begun, h
  <2> QED
    BY <2>2, <2>5
<1>5. n \in S
  <2> HIDE DEF S
  <2>1. 0..n \subseteq S
    BY <1>1, <1>3, <1>4, Upwards
  <2> QED
    BY <1>1, <2>1
<1>6. PICK g : Begun(g, n)
  BY <1>5
<1> DEFINE f == [i \in 0..n |-> g[i]]
<1>7. Eq(f)
  <2>1. \A i \in 0..n : f[i] = IF i = 0 THEN base ELSE next(i, f[i - 1])
    <3>1. \A i \in 0..n : i # 0 => i \in 1..n /\ i - 1 \in 0..n
      BY <1>1
    <3> QED
      BY <1>6, <3>1
  <2>2. f = [i \in 0..n |-> f[i]]
    OBVIOUS
  <2> HIDE DEF f
  <2> QED
    BY <2>1, <2>2
<1> HIDE DEF Eq, f
<1>8. Eq(F)
  BY <1>2, <1>7
<1>9. \A i \in 0..n : F[i] = IF i = 0 THEN base ELSE next(i, F[i - 1])
  BY <1>8 DEF Eq
<1>10. F[0] = base /\ \A i \in 1..n : F[i] = next(i, F[i - 1])
  BY <1>1, <1>9
<1> QED
  BY <1>10 DEF F, base, next, n

\* and so does the history,
Goes(G, h, b, t) ==
  /\ G[0] = series[h]
  /\ \A i \in 1..Len(b) :
       G[i] = IF b[i].sensor \notin DOMAIN derivative[h].sensors THEN G[i - 1]
              ELSE Put(G[i - 1], b[i].sensor,
                       Extended(G[i - 1], derivative[h].sensors,
                                Progress(derivative[h], b, t)[i - 1].last, b[i], t))
LEMMA ContinuedIs ==
  ASSUME NEW h, NEW b, Len(b) \in Nat, NEW t
  PROVE  \E G : Goes(G, h, b, t) /\ Continued(h, b, t) = G[Len(b)]
<1> DEFINE n == Len(b)
           base == series[h]
           next(i, x) == IF b[i].sensor \notin DOMAIN derivative[h].sensors THEN x
                         ELSE Put(x, b[i].sensor,
                                  Extended(x, derivative[h].sensors,
                                           Progress(derivative[h], b, t)[i - 1].last, b[i], t))
           Eq(g) == g = [i \in 0..n |-> IF i = 0 THEN base ELSE next(i, g[i - 1])]
           Begun(g, k) == g[0] = base /\ \A i \in 1..k : g[i] = next(i, g[i - 1])
           S == {k \in 0..n : \E g : Begun(g, k)}
           F == CHOOSE g : Eq(g)
<1>1. n \in Nat
  OBVIOUS
<1>2. Continued(h, b, t) = F[n]
  BY DEF Continued
<1> HIDE DEF n, base, next, F
<1>3. 0 \in S
  <2>1. Begun([i \in 0..0 |-> base], 0)
    OBVIOUS
  <2> HIDE DEF Begun
  <2> QED
    BY <1>1, <2>1
<1>4. ASSUME NEW k \in 1..n, k - 1 \in S PROVE k \in S
  <2>1. PICK g : Begun(g, k - 1)
    BY <1>4
  <2> DEFINE f == [i \in 0..k |-> IF i = k THEN next(k, g[k - 1]) ELSE g[i]]
  <2>2. k \in Nat \ {0} /\ k \in 0..n
    BY <1>1
  <2>3. f[0] = base /\ f[k] = next(k, g[k - 1]) /\ \A i \in 0..(k - 1) : f[i] = g[i]
    BY <2>1, <2>2
  <2>4. ASSUME NEW i \in 1..k PROVE f[i] = next(i, f[i - 1])
    <3>1. i - 1 \in 0..(k - 1) /\ (i # k => i \in 1..(k - 1) /\ i \in 0..(k - 1))
      BY <2>2
    <3> HIDE DEF f
    <3> QED
      BY <2>1, <2>3, <3>1
  <2>5. Begun(f, k)
    BY <2>3, <2>4
  <2> HIDE DEF Begun, f
  <2> QED
    BY <2>2, <2>5
<1>5. n \in S
  <2> HIDE DEF S
  <2>1. 0..n \subseteq S
    BY <1>1, <1>3, <1>4, Upwards
  <2> QED
    BY <1>1, <2>1
<1>6. PICK g : Begun(g, n)
  BY <1>5
<1> DEFINE f == [i \in 0..n |-> g[i]]
<1>7. Eq(f)
  <2>1. \A i \in 0..n : f[i] = IF i = 0 THEN base ELSE next(i, f[i - 1])
    <3>1. \A i \in 0..n : i # 0 => i \in 1..n /\ i - 1 \in 0..n
      BY <1>1
    <3> QED
      BY <1>6, <3>1
  <2>2. f = [i \in 0..n |-> f[i]]
    OBVIOUS
  <2> HIDE DEF f
  <2> QED
    BY <2>1, <2>2
<1> HIDE DEF Eq, f
<1>8. Eq(F)
  BY <1>7 DEF F
<1>9. \A i \in 0..n : F[i] = IF i = 0 THEN base ELSE next(i, F[i - 1])
  BY <1>8 DEF Eq
<1>10. Goes(F, h, b, t)
  BY <1>1, <1>9 DEF Goes, base, next, n
<1> QED
  BY <1>2, <1>10 DEF n

\* so that they keep together: what is kept after some of the nodes is what
\* the host sent in them, and the rates are values.
LEMMA BlockKept ==
  ASSUME NEW h, NEW d, d = derivative[h], NEW b, Block(b), NEW t, t \in Nat \ {0},
         Treated(d.sensors), HostKept(d.sensors, d.last, series[h], t),
         Progress(d, b, t)[Len(b)].fits
  PROVE  /\ HostKept(d.sensors, Progress(d, b, t)[Len(b)].last, Continued(h, b, t), t)
         /\ Filled(Progress(d, b, t)[Len(b)].rates)
<1> DEFINE n == Len(b)
           F == Progress(d, b, t)
           sensors == d.sensors
           Node == [sensor : Rate, data : Values]
           Good(i, G) == /\ HostKept(sensors, F[i].last, G[i], t)
                         /\ F[i].rates \in Seq(Node)
<1>1. n \in Nat /\ \A i \in 1..n : b[i].data \in Seq(Cell)
  <2>1. PICK T : b \in Seq([sensor : T, data : Seq(Cell)])
    BY DEF Block
  <2> DEFINE D == [sensor : T, data : Seq(Cell)]
  <2>2. \A x \in D : x.data \in Seq(Cell)
    OBVIOUS
  <2>3. b \in Seq(D)
    BY <2>1
  <2> HIDE DEF D
  <2>4. Len(b) \in Nat /\ \A i \in 1..Len(b) : b[i] \in D
    BY <2>3
  <2> QED
    BY <2>2, <2>4
<1>2. /\ F[0] = [last |-> d.last, rates |-> <<>>, fits |-> TRUE]
      /\ \A i \in 1..n : F[i] = Taken(sensors, F[i - 1], b[i], t)
  BY <1>1, ProgressIs
<1>3. PICK G : Goes(G, h, b, t) /\ Continued(h, b, t) = G[n]
  BY <1>1, ContinuedIs
<1> HIDE DEF n, F
<1>4. /\ G[0] = series[h]
      /\ \A i \in 1..n :
           G[i] = IF b[i].sensor \notin DOMAIN sensors THEN G[i - 1]
                  ELSE Put(G[i - 1], b[i].sensor,
                           Extended(G[i - 1], sensors, F[i - 1].last, b[i], t))
  BY <1>3 DEF Goes, n, F
<1> HIDE DEF sensors, Node
<1>5. Treated(sensors)
  BY DEF sensors
<1> DEFINE S == {i \in 0..n : F[i].fits => Good(i, G)}
<1>6. 0 \in S
  <2>1. F[0].last = d.last /\ F[0].rates = <<>> /\ <<>> \in Seq(Node)
    BY <1>2
  <2>2. HostKept(sensors, d.last, series[h], t)
    BY DEF sensors
  <2>3. HostKept(sensors, F[0].last, G[0], t)
    BY <1>4, <2>1, <2>2
  <2>4. F[0].rates \in Seq(Node)
    BY <2>1
  <2>5. Good(0, G)
    BY <2>3, <2>4
  <2> HIDE DEF Good
  <2> QED
    BY <1>1, <2>5
<1>7. ASSUME NEW i \in 1..n, i - 1 \in S PROVE i \in S
  <2> SUFFICES ASSUME F[i].fits PROVE Good(i, G)
    BY <1>1
  <2> DEFINE p == F[i - 1]
             x == b[i]
             l == p.last
             e == G[i - 1]
  <2>1. F[i] = Taken(sensors, p, x, t) /\ x.data \in Seq(Cell)
    BY <1>1, <1>2
  <2>2. p.fits => HostKept(sensors, l, e, t) /\ p.rates \in Seq(Node)
    BY <1>7
  <2>3. CASE x.sensor \notin DOMAIN sensors
    <3>1. F[i] = p /\ G[i] = e
      BY <1>4, <2>1, <2>3 DEF Taken
    <3> QED
      BY <2>2, <3>1
  <2>4. CASE x.sensor \in DOMAIN sensors
    <3>1. p.fits
      BY <2>1, <2>4 DEF Taken
    <3>2. Fits(sensors, l, x)
      BY <2>1, <2>4, <3>1 DEF Taken
    <3>3. /\ F[i].last = Put(l, x.sensor, Remembered(sensors, l, x, t))
          /\ F[i].rates = IF ~Comparable(sensors, l, x) THEN p.rates
                          ELSE Append(p.rates, [sensor |-> sensors[x.sensor].dst,
                                                data |-> RateOf(sensors, l, x, t)])
      BY <2>1, <2>4, <3>1, <3>2 DEF Taken
    <3>4. G[i] = Put(e, x.sensor, Extended(e, sensors, l, x, t))
      BY <1>4, <2>4
    <3> HIDE DEF p, x, l, e
    <3>5. HostKept(sensors, l, e, t) /\ p.rates \in Seq(Node)
      BY <2>2, <3>1
    <3>6. Kept(Remembered(sensors, l, x, t), Extended(e, sensors, l, x, t), t)
      BY <1>5, <2>1, <2>4, <3>2, <3>5, ExtendedKept
    <3>7. HostKept(sensors, F[i].last, G[i], t)
      <4> DEFINE s == x.sensor
                 y == Remembered(sensors, l, x, t)
                 z == Extended(e, sensors, l, x, t)
      <4>1. s \in DOMAIN sensors /\ Kept(y, z, t) /\ F[i].last = Put(l, s, y) /\ G[i] = Put(e, s, z)
        BY <2>4, <3>3, <3>4, <3>6
      <4> HIDE DEF s, y, z
      <4> QED
        BY <3>5, <4>1, PutKept
    <3>8. F[i].rates \in Seq(Node)
      <4>1. CASE ~Comparable(sensors, l, x)
        BY <3>3, <3>5, <4>1
      <4>2. CASE Comparable(sensors, l, x)
        <5> DEFINE v == RateOf(sensors, l, x, t)
                   s == sensors[x.sensor].dst
        <5>1. x.sensor \in DOMAIN l => l[x.sensor] \in LastRec(t)
          BY <3>5 DEF HostKept, Kept
        <5>2. v \in Values
          BY <1>5, <2>1, <2>4, <3>2, <4>2, <5>1, RateOfIs
        <5>3. s \in Rate
          BY <1>5, <2>4, TypesIs
        <5>4. F[i].rates = Append(p.rates, [sensor |-> s, data |-> v])
          BY <3>3, <4>2
        <5> HIDE DEF v, s
        <5>5. [sensor |-> s, data |-> v] \in Node
          BY <5>2, <5>3 DEF Node
        <5> QED
          BY <3>5, <5>4, <5>5
      <4> QED
        BY <4>1, <4>2
    <3> QED
      BY <3>7, <3>8
  <2> QED
    BY <2>3, <2>4
<1>8. n \in S
  <2> HIDE DEF S
  <2>1. 0..n \subseteq S
    BY <1>1, <1>6, <1>7, Upwards
  <2> QED
    BY <1>1, <2>1
<1>9. Good(n, G)
  BY <1>8 DEF F, n
<1>10. F[n].rates \in Seq([sensor : Rate, data : Values])
  BY <1>9 DEF Node
<1> QED
  BY <1>3, <1>9, <1>10 DEF Filled, F, n, sensors

\* A block that the derivative of a host has gone through.
LEMMA HostInvSample ==
  ASSUME NEW h, NEW b, Block(b), NEW t, t = now + 1, now \in Nat,
         NEW after, after = Progress(derivative[h], b, t)[Len(b)], after.fits,
         HostInv(derivative[h], series[h], now)
  PROVE  /\ HostInv([derivative[h] EXCEPT !.last = after.last], Continued(h, b, t), t)
         /\ Filled(after.rates)
<1> DEFINE d == derivative[h]
           x == [d EXCEPT !.last = after.last]
<1>1. HostInv(d, series[h], t) /\ t \in Nat \ {0}
  BY HostInvLater
<1>2. Treated(d.sensors) /\ HostKept(d.sensors, d.last, series[h], t)
  BY <1>1 DEF HostInv
<1>3. x.sensors = d.sensors /\ x.last = after.last
      /\ x \in [sensors : {x.sensors}, last : {x.last}, out : BOOLEAN]
  BY <1>1 DEF HostInv
<1>4. HostKept(d.sensors, after.last, Continued(h, b, t), t) /\ Filled(after.rates)
  <2> DEFINE c == derivative[h]
  <2>1. c = derivative[h] /\ after = Progress(c, b, t)[Len(b)]
    OBVIOUS
  <2>2. Treated(c.sensors) /\ HostKept(c.sensors, c.last, series[h], t)
    BY <1>2
  <2> HIDE DEF c
  <2>3. HostKept(c.sensors, after.last, Continued(h, b, t), t) /\ Filled(after.rates)
    BY <1>1, <2>1, <2>2, BlockKept
  <2> QED
    BY <2>3 DEF c
<1> HIDE DEF x
<1>5. HostInv(x, Continued(h, b, t), t)
  BY <1>2, <1>3, <1>4 DEF HostInv
<1> QED
  BY <1>4, <1>5 DEF x
-----------------------------------------------------------------------------
(* The invariant.  Names come to their own derivative because a marker     *)
(* carries the host's name whatever its id is, and no sensor uses the id   *)
(* of a mark.                                                              *)

MarksInv == OnSet(prepend, Host) /\ \A h \in Host : MarkerOf(h, prepend[h])
DemuxInv == demux \in [id : Mark \cup {NoId}, map : SUBSET Host]
HostsInv == /\ OnSet(derivative, Host) /\ OnSet(series, Host)
            /\ \A h \in Host : HostInv(derivative[h], series[h], now)

\* The aggregates of a are those of the values w, for the sensors in S.
Made(data, w, S) ==
  /\ DOMAIN data = S /\ OnSet(w, S)
  /\ \A s \in S : w[s] \in Values /\ Covers(data[s], w[s], Len(w[s]))
AggregateInv(a, w) ==
  /\ a \in [sensors : {a.sensors}, data : {a.data}, out : BOOLEAN]
  /\ DOMAIN a.data \subseteq DOMAIN a.sensors /\ DOMAIN a.sensors \subseteq Rate
  /\ Made(a.data, w, DOMAIN a.data)

StreamInv == /\ now \in 0..MaxTime /\ changes \in 0..MaxChanges
             /\ MarksInv /\ DemuxInv /\ HostsInv /\ AggregateInv(aggregate, window)

LEMMA MarksChange ==
  ASSUME MarksInv, NEW h \in Host, NEW v, MarkerOf(h, v),
         prepend' = [prepend EXCEPT ![h] = v]
  PROVE  MarksInv'
<1>1. /\ OnSet(prepend', Host) /\ prepend'[h] = v
      /\ \A g \in Host \ {h} : prepend'[g] = prepend[g]
  <2>1. OnSet(prepend, Host)
    BY DEF MarksInv
  <2> QED
    BY <2>1 DEF OnSet
<1> QED
  BY <1>1 DEF MarksInv

\* The derivative of one host goes on with what that host sends.
LEMMA HostChanges ==
  ASSUME HostsInv, NEW h \in Host, NEW d, NEW e, HostInv(d, e, now),
         derivative' = [derivative EXCEPT ![h] = d], series' = [series EXCEPT ![h] = e],
         now' = now
  PROVE  HostsInv'
<1>1. /\ OnSet(derivative', Host) /\ derivative'[h] = d
      /\ \A g \in Host \ {h} : derivative'[g] = derivative[g]
  <2>1. OnSet(derivative, Host)
    BY DEF HostsInv
  <2> QED
    BY <2>1 DEF OnSet
<1>2. /\ OnSet(series', Host) /\ series'[h] = e
      /\ \A g \in Host \ {h} : series'[g] = series[g]
  <2>1. OnSet(series, Host)
    BY DEF HostsInv
  <2> QED
    BY <2>1 DEF OnSet
<1>3. ASSUME NEW g \in Host PROVE HostInv(derivative'[g], series'[g], now')
  <2>1. CASE g = h
    BY <1>1, <1>2, <2>1
  <2>2. CASE g # h
    <3>1. HostInv(derivative[g], series[g], now)
      BY DEF HostsInv
    <3>2. derivative'[g] = derivative[g] /\ series'[g] = series[g]
      BY <1>1, <1>2, <2>2
    <3> QED
      BY <3>1, <3>2
  <2> QED
    BY <2>1, <2>2
<1> QED
  BY <1>1, <1>2, <1>3 DEF HostsInv

LEMMA AggregateHook ==
  ASSUME NEW a, NEW w, AggregateInv(a, w), NEW o \in BOOLEAN
  PROVE  AggregateInv([a EXCEPT !.out = o], w)
<1> DEFINE x == [a EXCEPT !.out = o]
<1>1. /\ x.sensors = a.sensors /\ x.data = a.data
      /\ x \in [sensors : {a.sensors}, data : {a.data}, out : BOOLEAN]
  BY DEF AggregateInv
<1> HIDE DEF x
<1>2. AggregateInv(x, w)
  BY <1>1 DEF AggregateInv
<1> QED
  BY <1>2 DEF x

LEMMA AggregateData ==
  ASSUME NEW a, NEW w, AggregateInv(a, w), NEW data, DOMAIN data \subseteq DOMAIN a.sensors,
         NEW v, Made(data, v, DOMAIN data)
  PROVE  AggregateInv([a EXCEPT !.data = data], v)
<1> DEFINE x == [a EXCEPT !.data = data]
<1>1. /\ x.sensors = a.sensors /\ x.data = data
      /\ x \in [sensors : {a.sensors}, data : {data}, out : BOOLEAN]
  BY DEF AggregateInv
<1> HIDE DEF x
<1>2. AggregateInv(x, v)
  BY <1>1 DEF AggregateInv
<1> QED
  BY <1>2 DEF x

LEMMA MadeOfNothing == DOMAIN EmptyMap = {} /\ Made(EmptyMap, EmptyMap, {})
  BY DEF EmptyMap, Made, OnSet

\* Dropping sensors keeps what the others have sent.
LEMMA MadeWithout ==
  ASSUME NEW data, NEW w, Made(data, w, DOMAIN data), NEW S
  PROVE  Made(Without(data, S), Without(w, S), DOMAIN data \ S)
<1>1. DOMAIN w = DOMAIN data
  BY DEF Made, OnSet
<1>2. /\ DOMAIN Without(data, S) = DOMAIN data \ S
      /\ \A s \in DOMAIN data \ S : Without(data, S)[s] = data[s]
  BY DEF Without
<1>3. /\ OnSet(Without(w, S), DOMAIN data \ S)
      /\ \A s \in DOMAIN data \ S : Without(w, S)[s] = w[s]
  BY <1>1 DEF Without, OnSet
<1> QED
  BY <1>2, <1>3 DEF Made

LEMMA AggregateSetUp ==
  ASSUME NEW a, NEW w, AggregateInv(a, w), NEW descs, DOMAIN descs \subseteq Rate
  PROVE  /\ AggregateInv(AggregateSet(a, descs), Without(w, Dropped(descs)))
         /\ AggregateInv(AggregateClear(a), EmptyMap)
<1> DEFINE x == AggregateSet(a, descs)
           y == AggregateClear(a)
<1>1. /\ x.sensors = Described(a.sensors, descs) /\ x.data = DataAfter(a, descs)
      /\ x \in [sensors : {x.sensors}, data : {x.data}, out : BOOLEAN]
  BY DEF AggregateInv, AggregateSet
<1>2. /\ DOMAIN x.data = DOMAIN a.data \ Dropped(descs)
      /\ DOMAIN x.sensors = (DOMAIN a.sensors \cup DOMAIN descs) \ Dropped(descs)
  BY <1>1 DEF DataAfter, Without, Described
<1>3. Made(x.data, Without(w, Dropped(descs)), DOMAIN x.data)
  <2>1. Made(a.data, w, DOMAIN a.data)
    BY DEF AggregateInv
  <2>2. Made(Without(a.data, Dropped(descs)), Without(w, Dropped(descs)),
             DOMAIN a.data \ Dropped(descs))
    BY <2>1, MadeWithout
  <2> HIDE DEF x
  <2> QED
    BY <1>1, <1>2, <2>2 DEF DataAfter
<1>4. /\ y.sensors = EmptyMap /\ y.data = EmptyMap
      /\ y \in [sensors : {y.sensors}, data : {y.data}, out : BOOLEAN]
  BY DEF AggregateInv, AggregateClear
<1> HIDE DEF x, y
<1>5. AggregateInv(x, Without(w, Dropped(descs)))
  BY <1>1, <1>2, <1>3 DEF AggregateInv
<1>6. AggregateInv(y, EmptyMap)
  BY <1>4, MadeOfNothing DEF AggregateInv
<1> QED
  BY <1>5, <1>6 DEF x, y

\* rcvdata: the values of a block are added to those that came before.
LEMMA MadeOfBlock ==
  ASSUME AggregateInv(aggregate, window), NEW b, Filled(b)
  PROVE  /\ DOMAIN Aggregated(aggregate, b) \subseteq DOMAIN aggregate.sensors
         /\ Made(Aggregated(aggregate, b), Arrived(b), DOMAIN Aggregated(aggregate, b))
<1> DEFINE g == aggregate
           w == window
           known == SensorsOf(b) \cap DOMAIN g.sensors
           S == DOMAIN g.data \cup known
           a(s) == IF s \in DOMAIN g.data THEN g.data[s] ELSE NoData
           u(s) == IF s \in DOMAIN w THEN w[s] ELSE <<>>
           data == Aggregated(g, b)
           v == Arrived(b)
<1>1. /\ DOMAIN g.data \subseteq DOMAIN g.sensors /\ DOMAIN w = DOMAIN g.data
      /\ \A s \in DOMAIN g.data : w[s] \in Values /\ Covers(g.data[s], w[s], Len(w[s]))
  BY DEF AggregateInv, Made, OnSet
<1>2. DOMAIN data = S /\ \A s \in S : data[s] = WidenedBy(a(s), ValuesOf(b, s))
  BY DEF Aggregated
<1>3. DOMAIN v = S /\ v = [s \in S |-> v[s]] /\ \A s \in S : v[s] = u(s) \o ValuesOf(b, s)
  BY <1>1 DEF Arrived
<1> HIDE DEF data, v, g, w
<1>4. ASSUME NEW s \in S PROVE v[s] \in Values /\ Covers(data[s], v[s], Len(v[s]))
  <2>1. ValuesOf(b, s) \in Seq(Val)
    BY ValuesOfIs DEF Values
  <2>2. u(s) \in Seq(Val) /\ Covers(a(s), u(s), Len(u(s)))
    <3>1. CASE s \in DOMAIN g.data
      BY <1>1, <3>1 DEF Values
    <3>2. CASE s \notin DOMAIN g.data
      <4>1. u(s) = <<>> /\ a(s) = NoData
        BY <1>1, <3>2
      <4>2. <<>> \in Seq(Val) /\ Len(<<>>) = 0
        OBVIOUS
      <4> HIDE DEF u, a
      <4> QED
        BY <4>1, <4>2, CoversNone
    <3> QED
      BY <3>1, <3>2
  <2> DEFINE x == u(s)
             y == ValuesOf(b, s)
             c == a(s)
  <2>3. data[s] = WidenedBy(c, y) /\ v[s] = x \o y
    BY <1>2, <1>3
  <2>4. x \in Seq(Val) /\ y \in Seq(Val) /\ Covers(c, x, Len(x))
    BY <2>1, <2>2
  <2> HIDE DEF x, y, c
  <2>5. Covers(data[s], v[s], Len(v[s]))
    BY <2>3, <2>4, CoversMore
  <2>6. x \o y \in Values
    BY <2>4 DEF Values
  <2> QED
    BY <2>3, <2>5, <2>6
<1>5. OnSet(v, S)
  BY <1>3 DEF OnSet
<1>6. Made(data, v, S)
  BY <1>2, <1>4, <1>5 DEF Made
<1> QED
  BY <1>1, <1>2, <1>6 DEF data, v, g
-----------------------------------------------------------------------------
(* The steps.                                                              *)

LEMMA StreamInit == Init => StreamInv
<1> SUFFICES ASSUME Init PROVE StreamInv
  OBVIOUS
<1>1. now \in 0..MaxTime /\ changes \in 0..MaxChanges
  BY StreamAssumption DEF Init
<1>2. MarksInv
  BY DEF Init, MarksInv, OnSet, MarkerOf
<1>3. DemuxInv
  BY DEF Init, DemuxInv
<1>4. HostsInv
  <2>1. PICK type \in Used, dst \in [SourceIds -> Rate] :
          derivative = [h \in Host |->
            [sensors |-> [s \in SourceIds |-> [type |-> type, dst |-> dst[s]]],
             last |-> EmptyMap, out |-> TRUE]]
    BY DEF Init
  <2>2. series = [h \in Host |-> EmptyMap]
    BY DEF Init
  <2>3. OnSet(derivative, Host) /\ OnSet(series, Host)
    BY <2>1, <2>2 DEF OnSet
  <2>4. ASSUME NEW h \in Host PROVE HostInv(derivative[h], series[h], now)
    <3> DEFINE d == derivative[h]
    <3>1. d = [sensors |-> [s \in SourceIds |-> [type |-> type, dst |-> dst[s]]],
               last |-> EmptyMap, out |-> TRUE]
      BY <2>1
    <3>2. /\ d \in [sensors : {d.sensors}, last : {d.last}, out : BOOLEAN]
          /\ d.last = EmptyMap
          /\ Treated(d.sensors)
      BY <2>1, <3>1 DEF Treated
    <3>3. series[h] = EmptyMap
      BY <2>2
    <3> HIDE DEF d
    <3>4. HostInv(d, EmptyMap, now)
      BY <3>2, NothingKept DEF HostInv
    <3> QED
      BY <3>3, <3>4 DEF d
  <2> QED
    BY <2>3, <2>4 DEF HostsInv
<1>5. AggregateInv(aggregate, window)
  BY MadeOfNothing DEF Init, AggregateInv
<1> QED
  BY <1>1, <1>2, <1>3, <1>4, <1>5 DEF StreamInv

\* Time passes and no derivative hears of it.
LEMMA TimePasses ==
  ASSUME StreamInv, now < MaxTime, now' = now + 1, UNCHANGED <<derivative, series>>
  PROVE  now' \in 0..MaxTime /\ HostsInv'
<1>1. now \in Nat /\ now' \in 0..MaxTime
  BY StreamAssumption DEF StreamInv
<1>2. ASSUME NEW h \in Host PROVE HostInv(derivative'[h], series'[h], now')
  <2>1. HostInv(derivative[h], series[h], now)
    BY DEF StreamInv, HostsInv
  <2>2. HostInv(derivative[h], series[h], now + 1)
    BY <1>1, <2>1, HostInvLater
  <2> QED
    BY <2>2
<1> QED
  BY <1>1, <1>2 DEF StreamInv, HostsInv

LEMMA SampleDroppedStep ==
  ASSUME StreamInv, NEW h \in Host, NEW b \in Blocks, SampleDropped(h, b)
  PROVE  StreamInv'
<1>1. now' \in 0..MaxTime /\ HostsInv'
  BY TimePasses DEF SampleDropped, Tick, history
<1>2. UNCHANGED <<prepend, demux, aggregate, window, changes>>
  BY DEF SampleDropped, Tick, config, history
<1> QED
  BY <1>1, <1>2 DEF StreamInv, MarksInv, DemuxInv

LEMMA BlocksAre ==
  ASSUME NEW b \in Blocks PROVE Block(b) /\ SensorsOf(b) \cap Mark = {}
<1>1. b \in Seq([sensor : SensorsOf(b), data : Seq(Cell)])
  BY StreamAssumption DEF Cell
<1>2. SensorsOf(b) \subseteq SourceIds
  BY DEF SourceIds
<1> QED
  BY <1>1, <1>2, StreamAssumption DEF Block

\* A block goes to the derivative of the host that it came from, in the form
\* in which it came.
LEMMA SampleStep ==
  ASSUME StreamInv, NEW h \in Host, NEW b \in Blocks, Sample(h, b)
  PROVE  StreamInv'
<1> DEFINE marked == Prepended(prepend[h], b)
<1>1. now \in Nat /\ now' = now + 1 /\ now' <= MaxTime /\ now' \in 0..MaxTime
  BY StreamAssumption DEF StreamInv, Sample, Tick
<1>2. PICK r \in Route(demux.id, demux.map, marked) :
        LET block == Unmarked(demux.id, marked)
            after == Progress(derivative[r], block, now')[Len(block)]
        IN  /\ after.fits
            /\ derivative' = [derivative EXCEPT ![r].last = after.last]
            /\ \/ UNCHANGED <<aggregate, window>>
               \/ /\ aggregate' = [aggregate EXCEPT !.data = Aggregated(aggregate, after.rates)]
                  /\ window' = Arrived(after.rates)
  BY DEF Sample
<1>3. r = h /\ Unmarked(demux.id, marked) = b
  <2>1. demux.id \in Mark \cup {NoId}
    BY DEF StreamInv, DemuxInv
  <2>2. MarkerOf(h, prepend[h])
    BY DEF StreamInv, MarksInv
  <2> QED
    <3>1. Block(b) /\ SensorsOf(b) \cap Mark = {}
      BY BlocksAre
    <3>2. r \in Route(demux.id, demux.map, Prepended(prepend[h], b))
      BY <1>2
    <3> DEFINE dn == prepend[h]
               id == demux.id
               map == demux.map
    <3>3. /\ id \in Mark \cup {NoId} /\ r \in Route(id, map, Prepended(dn, b))
          /\ MarkerOf(h, dn)
      BY <2>1, <2>2, <3>2
    <3> HIDE DEF dn, id, map
    <3>4. r = h /\ Unmarked(id, Prepended(dn, b)) = b
      BY <3>1, <3>3, MarkIs
    <3> QED
      BY <3>4 DEF dn, id, marked
<1> HIDE DEF marked
<1>4. series' = [series EXCEPT ![h] = Continued(h, b, now')]
  BY DEF Sample
<1> DEFINE t == now + 1
           after == Progress(derivative[h], b, t)[Len(b)]
           d == [derivative[h] EXCEPT !.last = after.last]
           e == Continued(h, b, t)
<1>5. /\ after.fits /\ derivative' = [derivative EXCEPT ![h].last = after.last]
      /\ \/ UNCHANGED <<aggregate, window>>
         \/ /\ aggregate' = [aggregate EXCEPT !.data = Aggregated(aggregate, after.rates)]
            /\ window' = Arrived(after.rates)
  BY <1>1, <1>2, <1>3
<1>6. derivative' = [derivative EXCEPT ![h] = d] /\ series' = [series EXCEPT ![h] = e]
  BY <1>1, <1>4, <1>5
<1>10. HostInv(d, e, t) /\ Filled(after.rates)
  <2>1. HostInv(derivative[h], series[h], now) /\ Block(b)
    BY BlocksAre DEF StreamInv, HostsInv
  <2> DEFINE a == after
             u == t
  <2>2. u = now + 1 /\ a = Progress(derivative[h], b, u)[Len(b)] /\ a.fits
    BY <1>5
  <2> HIDE DEF a, u
  <2>3. /\ HostInv([derivative[h] EXCEPT !.last = a.last], Continued(h, b, u), u)
        /\ Filled(a.rates)
    BY <1>1, <2>1, <2>2, HostInvSample
  <2> QED
    BY <2>3 DEF a, u
<1> HIDE DEF d, e
<1>7. HostsInv'
  <2>1. OnSet(derivative, Host) /\ OnSet(series, Host)
    BY DEF StreamInv, HostsInv
  <2>2. /\ OnSet(derivative', Host) /\ derivative'[h] = d
        /\ \A g \in Host \ {h} : derivative'[g] = derivative[g]
    BY <1>6, <2>1 DEF OnSet
  <2>3. /\ OnSet(series', Host) /\ series'[h] = e
        /\ \A g \in Host \ {h} : series'[g] = series[g]
    BY <1>6, <2>1 DEF OnSet
  <2>4. ASSUME NEW g \in Host PROVE HostInv(derivative'[g], series'[g], now')
    <3>1. CASE g = h
      BY <1>1, <1>10, <2>2, <2>3, <3>1
    <3>2. CASE g # h
      <4>1. HostInv(derivative[g], series[g], now)
        BY DEF StreamInv, HostsInv
      <4>2. HostInv(derivative[g], series[g], now + 1)
        BY <1>1, <4>1, HostInvLater
      <4> QED
        BY <1>1, <2>2, <2>3, <3>2, <4>2
    <3> QED
      BY <3>1, <3>2
  <2> QED
    BY <2>2, <2>3, <2>4 DEF HostsInv
<1>8. AggregateInv(aggregate', window')
  <2> DEFINE rates == after.rates
             data == Aggregated(aggregate, rates)
             v == Arrived(rates)
  <2>1. AggregateInv(aggregate, window)
    BY DEF StreamInv
  <2>2. Filled(rates)
    BY <1>10
  <2>3. \/ aggregate' = aggregate /\ window' = window
        \/ aggregate' = [aggregate EXCEPT !.data = data] /\ window' = v
    BY <1>5
  <2> HIDE DEF rates
  <2>4. DOMAIN data \subseteq DOMAIN aggregate.sensors /\ Made(data, v, DOMAIN data)
    BY <2>1, <2>2, MadeOfBlock
  <2> HIDE DEF data, v
  <2>5. AggregateInv([aggregate EXCEPT !.data = data], v)
    BY <2>1, <2>4, AggregateData
  <2>6. CASE aggregate' = aggregate /\ window' = window
    BY <2>1, <2>6
  <2>7. CASE aggregate' = [aggregate EXCEPT !.data = data] /\ window' = v
    BY <2>5, <2>7
  <2> QED
    BY <2>3, <2>6, <2>7
<1>9. MarksInv' /\ DemuxInv' /\ changes' \in 0..MaxChanges
  BY DEF Sample, Tick, config, StreamInv, MarksInv, DemuxInv
<1> QED
  BY <1>1, <1>7, <1>8, <1>9 DEF StreamInv

LEMMA TriggerStep ==
  ASSUME StreamInv, Trigger PROVE StreamInv'
<1>1. AggregateInv(aggregate', window')
  <2>1. AggregateInv(aggregate, window)
    BY DEF StreamInv
  <2>2. aggregate' = [aggregate EXCEPT !.data = EmptyMap] /\ window' = EmptyMap
    BY DEF Trigger, Collected
  <2>3. AggregateInv([aggregate EXCEPT !.data = EmptyMap], EmptyMap)
    BY <2>1, MadeOfNothing, AggregateData
  <2> QED
    BY <2>2, <2>3
<1>2. UNCHANGED <<prepend, demux, derivative, series, now, changes>>
  BY DEF Trigger, config
<1> QED
  BY <1>1, <1>2 DEF StreamInv, MarksInv, DemuxInv, HostsInv

\* A change by the script takes no time.
LEMMA ChangeCounted ==
  ASSUME StreamInv, Change PROVE changes' \in 0..MaxChanges /\ now' = now
BY StreamAssumption DEF StreamInv, Change

\* prepend and demux are set up, or a hook of demux comes or goes.
LEMMA MarksStep ==
  ASSUME StreamInv, NEW h \in Host, NEW id \in Mark \cup {NoId},
         \/ id \in Mark /\ PrependSet(h, id)
         \/ PrependClear(h)
         \/ DemuxSet(id)
  PROVE  StreamInv'
<1>0. Change
  BY DEF PrependSet, PrependClear, DemuxSet
<1>1. UNCHANGED <<derivative, series, aggregate, window, now>> /\ changes' \in 0..MaxChanges
  BY <1>0, ChangeCounted DEF PrependSet, PrependClear, DemuxSet, history
<1>2. /\ HostsInv' /\ AggregateInv(aggregate', window')
      /\ now' \in 0..MaxTime /\ changes' \in 0..MaxChanges
  BY <1>1 DEF StreamInv, HostsInv
<1>3. CASE id \in Mark /\ PrependSet(h, id)
  <2>1. MarksInv
    BY DEF StreamInv
  <2>2. MarkerOf(h, Marker(h, id)) /\ prepend' = [prepend EXCEPT ![h] = Marker(h, id)]
    BY <1>3 DEF MarkerOf, PrependSet
  <2>3. MarksInv'
    BY <2>1, <2>2, MarksChange
  <2> QED
    BY <1>2, <1>3, <2>3 DEF StreamInv, PrependSet, DemuxInv
<1>4. CASE PrependClear(h)
  <2>1. MarksInv
    BY DEF StreamInv
  <2>2. MarkerOf(h, NoNode) /\ prepend' = [prepend EXCEPT ![h] = NoNode]
    BY <1>4 DEF MarkerOf, PrependClear
  <2>3. MarksInv'
    BY <2>1, <2>2, MarksChange
  <2> QED
    BY <1>2, <1>4, <2>3 DEF StreamInv, PrependClear, DemuxInv
<1>5. CASE DemuxSet(id)
  BY <1>2, <1>5 DEF StreamInv, DemuxSet, DemuxInv, MarksInv
<1> QED
  BY <1>3, <1>4, <1>5

LEMMA DerivativeStep ==
  ASSUME StreamInv, NEW h \in Host,
         \/ DerivativeClearMsg(h)
         \/ \E descs \in Descs(SourceIds, SensorDesc) : DerivativeSetMsg(h, descs)
  PROVE  StreamInv'
<1>0. Change
  BY DEF DerivativeClearMsg, DerivativeSetMsg
<1>1. UNCHANGED <<prepend, demux, aggregate, window, now>> /\ changes' \in 0..MaxChanges
  BY <1>0, ChangeCounted DEF DerivativeClearMsg, DerivativeSetMsg, config
<1>2. HostsInv /\ HostInv(derivative[h], series[h], now)
  BY DEF StreamInv, HostsInv
<1>3. HostsInv'
  <2>1. CASE DerivativeClearMsg(h)
    <3> DEFINE d == DerivativeClear(derivative[h])
    <3>1. HostInv(d, EmptyMap, now)
      BY <1>2, HostInvClear
    <3>2. /\ derivative' = [derivative EXCEPT ![h] = d]
          /\ series' = [series EXCEPT ![h] = EmptyMap]
      BY <2>1 DEF DerivativeClearMsg
    <3> HIDE DEF d
    <3> QED
      BY <1>1, <1>2, <3>1, <3>2, HostChanges
  <2>2. CASE \E descs \in Descs(SourceIds, SensorDesc) : DerivativeSetMsg(h, descs)
    <3>1. PICK descs \in Descs(SourceIds, SensorDesc) : DerivativeSetMsg(h, descs)
      BY <2>2
    <3>2. /\ DOMAIN descs \subseteq SourceIds
          /\ \A s \in DOMAIN descs :
               descs[s].type # "NONE" => descs[s] \in [type : Used, dst : Rate]
      <4>1. DOMAIN descs \subseteq SourceIds /\ \A s \in DOMAIN descs : descs[s] \in SensorDesc
        BY DEF Descs
      <4> QED
        BY <4>1 DEF SensorDesc
    <3> DEFINE d == DerivativeSet(derivative[h], descs)
               e == Without(series[h], Dropped(descs))
    <3>3. HostInv(d, e, now)
      BY <1>2, <3>2, HostInvSet
    <3>4. derivative' = [derivative EXCEPT ![h] = d] /\ series' = [series EXCEPT ![h] = e]
      BY <3>1 DEF DerivativeSetMsg
    <3> HIDE DEF d, e
    <3> QED
      BY <1>1, <1>2, <3>3, <3>4, HostChanges
  <2> QED
    BY <2>1, <2>2
<1> QED
  BY <1>1, <1>3 DEF StreamInv, MarksInv, DemuxInv

LEMMA AggregateStep ==
  ASSUME StreamInv,
         AggregateClearMsg \/ \E descs \in Descs(Rate, RateDesc) : AggregateSetMsg(descs)
  PROVE  StreamInv'
<1>0. Change
  BY DEF AggregateClearMsg, AggregateSetMsg
<1>1. UNCHANGED <<prepend, demux, derivative, series, now>> /\ changes' \in 0..MaxChanges
  BY <1>0, ChangeCounted DEF AggregateClearMsg, AggregateSetMsg, config
<1>2. AggregateInv(aggregate', window')
  <2>1. AggregateInv(aggregate, window)
    BY DEF StreamInv
  <2>2. CASE AggregateClearMsg
    <3>1. DOMAIN EmptyMap \subseteq Rate
      BY DEF EmptyMap
    <3>2. AggregateInv(AggregateClear(aggregate), EmptyMap)
      BY <2>1, <3>1, AggregateSetUp
    <3> QED
      BY <2>2, <3>2 DEF AggregateClearMsg
  <2>3. CASE \E descs \in Descs(Rate, RateDesc) : AggregateSetMsg(descs)
    <3>1. PICK descs \in Descs(Rate, RateDesc) : AggregateSetMsg(descs)
      BY <2>3
    <3>2. DOMAIN descs \subseteq Rate
      BY DEF Descs
    <3>3. AggregateInv(AggregateSet(aggregate, descs), Without(window, Dropped(descs)))
      BY <2>1, <3>2, AggregateSetUp
    <3> QED
      BY <3>1, <3>3 DEF AggregateSetMsg
  <2> QED
    BY <2>2, <2>3
<1> QED
  BY <1>1, <1>2 DEF StreamInv, MarksInv, DemuxInv, HostsInv

LEMMA HookStep ==
  ASSUME StreamInv, NewHook \/ RmHook PROVE StreamInv'
<1>0. Change
  BY DEF NewHook, RmHook
<1>1. UNCHANGED <<prepend, series, window, now>> /\ changes' \in 0..MaxChanges
  BY <1>0, ChangeCounted DEF NewHook, RmHook, history
<1>2. CASE UNCHANGED <<derivative, aggregate>> /\
           \E M \in SUBSET Host : demux' = [demux EXCEPT !.map = M]
  BY <1>1, <1>2 DEF StreamInv, MarksInv, DemuxInv, HostsInv
<1>3. CASE UNCHANGED <<demux, aggregate>> /\
           \E h \in Host, o \in BOOLEAN : derivative' = [derivative EXCEPT ![h].out = o]
  <2>1. PICK h \in Host, o \in BOOLEAN : derivative' = [derivative EXCEPT ![h].out = o]
    BY <1>3
  <2>2. HostsInv /\ HostInv(derivative[h], series[h], now)
    BY DEF StreamInv, HostsInv
  <2> DEFINE d == [derivative[h] EXCEPT !.out = o]
             e == series[h]
  <2>3. HostInv(d, e, now)
    BY <2>2, HostInvHook
  <2>4. derivative' = [derivative EXCEPT ![h] = d]
    BY <2>1
  <2>5. series' = [series EXCEPT ![h] = e]
    BY <1>1 DEF StreamInv, HostsInv, OnSet
  <2> HIDE DEF d, e
  <2>6. HostsInv'
    BY <1>1, <2>2, <2>3, <2>4, <2>5, HostChanges
  <2> QED
    BY <1>1, <1>3, <2>6 DEF StreamInv, MarksInv, DemuxInv
<1>4. CASE UNCHANGED <<demux, derivative>> /\
           \E o \in BOOLEAN : aggregate' = [aggregate EXCEPT !.out = o]
  <2>1. AggregateInv(aggregate, window)
    BY DEF StreamInv
  <2>2. PICK o \in BOOLEAN : aggregate' = [aggregate EXCEPT !.out = o]
    BY <1>4
  <2>3. AggregateInv(aggregate', window')
    BY <1>1, <2>1, <2>2, AggregateHook
  <2> QED
    BY <1>1, <1>4, <2>3 DEF StreamInv, MarksInv, DemuxInv, HostsInv
<1>5. demux.map \subseteq Host
  BY DEF StreamInv, DemuxInv
<1> QED
  BY <1>2, <1>3, <1>4, <1>5 DEF NewHook, RmHook
-----------------------------------------------------------------------------
\* What the nodes keep fits together after every block, trigger and change:
\* each derivative treats its own host alone.
THEOREM StreamInvHolds == Spec => []StreamInv
<1>1. StreamInv /\ [Next]_vars => StreamInv'
  <2> SUFFICES ASSUME StreamInv, [Next]_vars PROVE StreamInv'
    OBVIOUS
  <2>1. CASE \E h \in Host, b \in Blocks : SampleDropped(h, b) \/ Sample(h, b)
    BY <2>1, SampleDroppedStep, SampleStep
  <2>2. CASE Trigger
    BY <2>2, TriggerStep
  <2>3. CASE \E h \in Host, id \in Mark : PrependSet(h, id)
    BY <2>3, MarksStep
  <2>4. CASE \E h \in Host : PrependClear(h) \/ DerivativeClearMsg(h)
    <3>1. PICK h \in Host : PrependClear(h) \/ DerivativeClearMsg(h)
      BY <2>4
    <3>2. NoId \in Mark \cup {NoId}
      OBVIOUS
    <3> QED
      BY <3>1, <3>2, MarksStep, DerivativeStep
  <2>5. CASE \E id \in Mark \cup {NoId} : DemuxSet(id)
    <3>1. PICK id \in Mark \cup {NoId} : DemuxSet(id)
      BY <2>5
    <3>2. CASE Host # {}
      BY <3>1, <3>2, MarksStep
    <3>3. CASE Host = {}
      <4>1. changes' \in 0..MaxChanges /\ now' = now
        BY <3>1, ChangeCounted DEF DemuxSet
      <4> QED
        BY <3>1, <3>3, <4>1 DEF DemuxSet, history, StreamInv, MarksInv, DemuxInv, HostsInv
    <3> QED
      BY <3>2, <3>3
  <2>6. CASE \E h \in Host, descs \in Descs(SourceIds, SensorDesc) : DerivativeSetMsg(h, descs)
    BY <2>6, DerivativeStep
  <2>7. CASE (\E descs \in Descs(Rate, RateDesc) : AggregateSetMsg(descs)) \/ AggregateClearMsg
    BY <2>7, AggregateStep
  <2>8. CASE NewHook \/ RmHook
    BY <2>8, HookStep
  <2>9. CASE UNCHANGED vars
    BY <2>9 DEF vars, config, history, StreamInv, MarksInv, DemuxInv, HostsInv
  <2> QED
    BY <2>1, <2>2, <2>3, <2>4, <2>5, <2>6, <2>7, <2>8, <2>9 DEF Next
<1> QED
  BY <1>1, StreamInit, PTL DEF Spec

\* A derivative compares a host's values with the last that this host sent:
\* prepend, demux and last_values (derivative.cc) keep the hosts apart.
THEOREM HostsStayApart == Spec => []HostsApart
<1>1. StreamInv => HostsApart
  <2> SUFFICES ASSUME StreamInv, NEW h \in Host
               PROVE  /\ DOMAIN derivative[h].last = DOMAIN series[h]
                      /\ \A s \in DOMAIN series[h] :
                           LET l == derivative[h].last[s]
                               r == series[h][s]
                           IN  /\ l.at = r.at /\ l.count = Count(r.size, r.values)
                               /\ Len(r.values) <= Len(l.cells)
                               /\ \A i \in DOMAIN r.values : l.cells[i] = r.values[i]
    BY DEF HostsApart
  <2> DEFINE last == derivative[h].last
             e == series[h]
  <2>1. DOMAIN last = DOMAIN e /\ \A s \in DOMAIN last : Kept(last[s], e[s], now)
    BY DEF StreamInv, HostsInv, HostInv, HostKept, OnSet
  <2> HIDE DEF last, e
  <2>2. ASSUME NEW s \in DOMAIN last
        PROVE  LET l == last[s]
                   r == e[s]
               IN  /\ l.at = r.at /\ l.count = Count(r.size, r.values)
                   /\ Len(r.values) <= Len(l.cells)
                   /\ \A i \in DOMAIN r.values : l.cells[i] = r.values[i]
    <3>1. Kept(last[s], e[s], now)
      BY <2>1
    <3>2. e[s].values \in Seq(Cell)
      BY <3>1 DEF Kept
    <3>3. DOMAIN e[s].values = 1..Len(e[s].values)
      BY <3>2
    <3> QED
      BY <3>1, <3>3 DEF Kept
  <2> QED
    BY <2>1, <2>2 DEF last, e
<1> QED
  BY <1>1, StreamInvHolds, PTL

\* The rates that rcvdata of derivative makes lose nothing and count nothing
\* twice but for their rounding: for elements of one cell or two, signed,
\* unsigned or not counters at all, any number of data nodes of a sensor in a
\* block, and any changes of type.
THEOREM RatesDoAddUp == Spec => []RatesAddUp
<1>1. StreamInv => RatesAddUp
  <2> SUFFICES ASSUME StreamInv, NEW h \in Host, NEW s \in DOMAIN series[h],
                      NEW i \in DOMAIN series[h][s].total
               PROVE  LET r == series[h][s]
                      IN  Near(r.total[i], RateUnit * Element(r.values, r.size, i),
                               RateUnit * Modulus(r.size), r.slack[i])
    BY DEF RatesAddUp
  <2> DEFINE l == derivative[h].last[s]
             r == series[h][s]
             v == r.values
             size == r.size
             x == Element(v, size, i)
             total == r.total[i]
             slack == r.slack[i]
  <2>1. Kept(l, r, now)
    BY DEF StreamInv, HostsInv, HostInv, HostKept, OnSet
  <2>2. v \in Seq(Cell) /\ size \in {1, 2} /\ i \in 1..Count(size, v)
    BY <2>1 DEF Kept
  <2>3. Follows(total, x, size, slack)
    BY <2>1 DEF Kept
  <2> HIDE DEF l, r, v, size, x, total, slack
  <2>4. x \in Int
    <3>1. size * i <= Len(v) /\ i \in Nat \ {0}
      BY <2>2, CountIs
    <3> QED
      BY <2>2, <3>1, ElementIs DEF x
  <2>5. Near(total, RateUnit * x, RateUnit * Modulus(size), slack)
    BY <2>2, <2>3, <2>4, FollowsIsNear
  <2> QED
    BY <2>5 DEF r, v, size, x, total, slack
<1> QED
  BY <1>1, StreamInvHolds, PTL

\* merge_sensor_desc of derivative and of aggregateall forgets what the node
\* has kept of a sensor together with how the sensor is treated.
THEOREM OnlyConfiguredIsKept == Spec => []OnlyConfigured
<1>1. StreamInv => OnlyConfigured
  BY DEF StreamInv, HostsInv, HostInv, HostKept, AggregateInv, OnlyConfigured
<1> QED
  BY <1>1, StreamInvHolds, PTL

\* Whatever is passed on and set up, every node's private data keeps its form,
\* and the average that aggregateall would send lies between the extremes.
THEOREM StreamTypes == Spec => []TypeOK
<1>1. StreamInv => TypeOK
  <2> SUFFICES ASSUME StreamInv PROVE TypeOK
    OBVIOUS
  <2>1. prepend \in [Host -> {NoNode} \cup {Marker(h, id) : h \in Host, id \in Mark}]
    BY DEF StreamInv, MarksInv, OnSet, MarkerOf
  <2>2. demux.id \in Mark \cup {NoId} /\ demux.map \subseteq Host
    BY DEF StreamInv, DemuxInv
  <2>3. ASSUME NEW h \in Host
        PROVE  LET d == derivative[h] IN
          /\ DOMAIN d.sensors \subseteq SourceIds /\ d.out \in BOOLEAN
          /\ \A s \in DOMAIN d.sensors : d.sensors[s] \in [type : Used, dst : Rate]
          /\ \A s \in DOMAIN d.last : /\ d.last[s].at \in 1..now /\ d.last[s].count \in Nat
                                      /\ d.last[s].cells \in Seq(0..(Base - 1))
    <3> DEFINE d == derivative[h]
    <3>1. HostInv(d, series[h], now)
      BY DEF StreamInv, HostsInv
    <3> HIDE DEF d
    <3>2. d.out \in BOOLEAN
      BY <3>1 DEF HostInv
    <3>3. /\ DOMAIN d.sensors \subseteq SourceIds
          /\ \A s \in DOMAIN d.sensors : d.sensors[s] \in [type : Used, dst : Rate]
      BY <3>1 DEF HostInv, Treated
    <3>4. \A s \in DOMAIN d.last : /\ d.last[s].at \in 1..now /\ d.last[s].count \in Nat
                                   /\ d.last[s].cells \in Seq(0..(Base - 1))
      <4>1. \A s \in DOMAIN d.last : d.last[s] \in LastRec(now)
        BY <3>1 DEF HostInv, HostKept, Kept
      <4> QED
        BY <4>1 DEF LastRec, Cell
    <3> QED
      BY <3>2, <3>3, <3>4 DEF d
  <2>4. aggregate.out \in BOOLEAN /\ DOMAIN aggregate.sensors \subseteq Rate
    BY DEF StreamInv, AggregateInv
  <2>5. ASSUME NEW s \in DOMAIN aggregate.data
        PROVE  LET a == aggregate.data[s]
               IN  /\ a.num \in Nat
                   /\ a.finite => a.min * a.num <= a.sum /\ a.sum <= a.max * a.num
    <3> DEFINE a == aggregate.data[s]
               w == window[s]
    <3>1. w \in Values /\ Covers(a, w, Len(w))
      BY DEF StreamInv, AggregateInv, Made
    <3> HIDE DEF a, w
    <3>2. w \in Seq(Val) /\ Len(w) \in Nat
      BY <3>1 DEF Values
    <3>3. a.num = Len(w)
      BY <3>1 DEF Covers
    <3>4. a.finite => a.min * a.num <= a.sum /\ a.sum <= a.max * a.num
      BY <3>1, <3>2, CoversAverage
    <3> QED
      BY <3>2, <3>3, <3>4 DEF a
  <2>6. now \in 0..MaxTime /\ changes \in 0..MaxChanges
    BY DEF StreamInv
  <2> QED
    BY <2>1, <2>2, <2>3, <2>4, <2>5, <2>6 DEF TypeOK
<1> QED
  BY <1>1, StreamInvHolds, PTL

\* process_timer_msg of aggregateall: for any number of values that came in any
\* number of blocks, what is sent is their minimum, sum, maximum and number, of
\* all of them and of no others.
THEOREM SummariesAreOfAll == Spec => SummariesAreWhole
<1> DEFINE Whole(s) == [dst |-> aggregate.sensors[s].dst, value |-> SummaryOf(window[s])]
<1>1. StreamInv => (Trigger /\ aggregate.out => sent' = [s \in DOMAIN window |-> Whole(s)])
  <2> SUFFICES ASSUME StreamInv, Trigger, aggregate.out
               PROVE  sent' = [s \in DOMAIN window |-> Whole(s)]
    OBVIOUS
  <2> DEFINE S == DOMAIN aggregate.data
             part(s) == LET a == aggregate.data[s]
                        IN  [dst |-> aggregate.sensors[s].dst,
                             value |-> IF a.num = 0 THEN Unknown(0) ELSE a]
  <2>1. DOMAIN window = S /\ \A s \in S : /\ window[s] \in Values
                                          /\ Covers(aggregate.data[s], window[s], Len(window[s]))
    BY DEF StreamInv, AggregateInv, Made, OnSet
  <2>2. sent' = [s \in S |-> part(s)]
    BY DEF Trigger, Summary
  <2>3. ASSUME NEW s \in S PROVE part(s) = Whole(s)
    <3> DEFINE a == aggregate.data[s]
               w == window[s]
    <3>1. w \in Values /\ Covers(a, w, Len(w))
      BY <2>1
    <3> HIDE DEF a, w
    <3>2. (IF a.num = 0 THEN Unknown(0) ELSE a) = SummaryOf(w)
      BY <3>1, CoversWhole
    <3> QED
      BY <3>2 DEF a, w
  <2> HIDE DEF S, part, Whole
  <2> QED
    BY <2>1, <2>2, <2>3
<1>2. StreamInv /\ [Next]_vars => [Trigger /\ aggregate.out =>
        sent' = [s \in DOMAIN window |-> Whole(s)]]_vars
  BY <1>1
<1> QED
  BY <1>2, StreamInvHolds, PTL DEF Spec, SummariesAreWhole
=============================================================================
