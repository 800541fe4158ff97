------------------------- MODULE SourceAuditProofs --------------------------
(***************************************************************************)
(* That the audit of a grid operator's delivery is sound, for every number *)
(* of points and every measurement.  Ratios are compared through any       *)
(* fraction that stands for them; what the operator's model gives a point  *)
(* lies in the cells of its rounded channels, hence the model's ratio      *)
(* between the bounds the search opens with; and what the search accepts   *)
(* was checked against every cell.                                         *)
(***************************************************************************)
EXTENDS BillingPeriodsProofs, SourceAudit

\* A set of natural numbers has a least one.
LEMMA LeastNumber ==
    ASSUME NEW T, T \subseteq Nat, T # {}
    PROVE  \E x \in T : \A y \in T : x <= y
<1>1. PICK x \in T : \A y \in T : ~(<<y, x>> \in OpToRel(<, Nat))
  BY NatLessThanWellFounded, WFMin
<1>2. x \in Nat /\ \A y \in T : y \in Nat /\ ~(y < x)
  BY <1>1 DEF OpToRel
<1> QED
  BY <1>2

\* gcd, up to n.
IsGcd(g, n) == g = [b \in 0 .. n |-> [a \in Nat |-> IF b = 0 THEN a ELSE g[a % b][b]]]

LEMMA RemainderType == \A a \in Nat, b \in Nat \ {0} : a % b \in Nat /\ a % b < b /\ a = (b * (a \div b)) + (a % b) /\ a \div b \in Nat
  OBVIOUS

LEMMA GcdAgree ==
    ASSUME NEW n \in Nat, NEW m \in Nat, NEW g, NEW h, IsGcd(g, n), IsGcd(h, m),
           NEW k \in Nat, k <= n, k <= m
    PROVE  g[k] = h[k]
<1> DEFINE Odd == {i \in Nat : i <= n /\ i <= m /\ g[i] # h[i]}
<1>1. SUFFICES ASSUME Odd # {}
               PROVE  FALSE
  OBVIOUS
<1>2. PICK i \in Odd : \A j \in Odd : i <= j
  <2>1. Odd \subseteq Nat
    OBVIOUS
  <2> HIDE DEF Odd
  <2> QED
    BY <1>1, <2>1, LeastNumber
<1>3. i \in Nat /\ i <= n /\ i <= m /\ g[i] # h[i] /\ i \in 0 .. n /\ i \in 0 .. m
  BY <1>2
<1>4. \A j \in Nat : j < i => g[j] = h[j]
  BY <1>2, <1>3
<1>5. g[i] = [a \in Nat |-> IF i = 0 THEN a ELSE g[a % i][i]]
  BY <1>3 DEF IsGcd
<1>6. h[i] = [a \in Nat |-> IF i = 0 THEN a ELSE h[a % i][i]]
  BY <1>3 DEF IsGcd
<1>7. \A a \in Nat : i # 0 => g[a % i] = h[a % i]
  BY <1>3, <1>4, RemainderType
<1>8. g[i] = h[i]
  BY <1>5, <1>6, <1>7
<1> QED
  BY <1>3, <1>8

LEMMA GcdExists ==
    ASSUME NEW n \in Nat
    PROVE  \E g : IsGcd(g, n)
<1> DEFINE Odd == {k \in Nat : ~\E g : IsGcd(g, k)}
<1>1. SUFFICES ASSUME Odd # {}
               PROVE  FALSE
  OBVIOUS
<1>2. PICK k \in Odd : \A j \in Odd : k <= j
  <2>1. Odd \subseteq Nat
    OBVIOUS
  <2> HIDE DEF Odd
  <2> QED
    BY <1>1, <2>1, LeastNumber
<1>3. CASE k = 0
  <2> DEFINE g == [b \in 0 .. k |-> [a \in Nat |-> a]]
  <2>1. IsGcd(g, k)
    BY <1>3 DEF IsGcd
  <2> HIDE DEF g
  <2> QED
    BY <1>2, <2>1
<1>4. CASE k # 0
  <2>1. k \in Nat /\ k - 1 \in Nat /\ k - 1 \notin Odd
    BY <1>2, <1>4
  <2>2. PICK h : IsGcd(h, k - 1)
    BY <2>1
  <2> DEFINE g == [b \in 0 .. k |-> IF b = k THEN [a \in Nat |-> h[a % k][k]] ELSE h[b]]
  <2>3. \A b \in Nat : b < k => b \in 0 .. k - 1 /\ b \in 0 .. k /\ g[b] = h[b]
    BY <2>1
  <2>4. \A a, b \in Nat : b # 0 /\ b <= k => a % b \in Nat /\ a % b < k /\ g[a % b] = h[a % b]
    <3> SUFFICES ASSUME NEW a \in Nat, NEW b \in Nat, b # 0, b <= k
                 PROVE  a % b \in Nat /\ a % b < k /\ g[a % b] = h[a % b]
      OBVIOUS
    <3>1. PICK c : c = a % b
      OBVIOUS
    <3>2. c \in Nat /\ c < b
      BY <3>1, RemainderType
    <3>3. c < k
      BY <2>1, <3>2
    <3> HIDE DEF g
    <3> QED
      BY <2>3, <3>1, <3>2, <3>3
  <2>5. ASSUME NEW b \in 0 .. k
        PROVE  g[b] = [a \in Nat |-> IF b = 0 THEN a ELSE g[a % b][b]]
    <3>1. CASE b = k
      <4>1. g[b] = [a \in Nat |-> h[a % k][k]]
        BY <3>1
      <4>2. b # 0 /\ \A a \in Nat : g[a % b] = h[a % b]
        <5>1. b # 0 /\ b \in Nat /\ b <= k
          BY <1>4, <2>1, <3>1
        <5> HIDE DEF g
        <5> QED
          BY <2>4, <5>1
      <4> QED
        BY <3>1, <4>1, <4>2
    <3>2. CASE b # k
      <4>1. b \in Nat /\ b < k /\ b \in 0 .. k - 1
        BY <2>1, <3>2
      <4>2. g[b] = h[b] /\ h[b] = [a \in Nat |-> IF b = 0 THEN a ELSE h[a % b][b]]
        BY <2>2, <2>3, <4>1 DEF IsGcd
      <4>3. b # 0 => \A a \in Nat : g[a % b] = h[a % b]
        <5>1. b <= k
          BY <2>1, <4>1
        <5> HIDE DEF g
        <5> QED
          BY <2>4, <4>1, <5>1
      <4> QED
        BY <4>2, <4>3
    <3> QED
      BY <3>1, <3>2
  <2>6. g = [b \in 0 .. k |-> g[b]]
    OBVIOUS
  <2> HIDE DEF g
  <2>7. IsGcd(g, k)
    BY <2>5, <2>6 DEF IsGcd
  <2> QED
    BY <1>2, <2>7
<1> QED
  BY <1>3, <1>4

\* The recursive function is one.
LEMMA GcdIs == gcd = [b \in Nat |-> [a \in Nat |-> IF b = 0 THEN a ELSE gcd[a % b][b]]]
<1> DEFINE Upto(b) == CHOOSE g : IsGcd(g, b)
           f == [b \in Nat |-> Upto(b)[b]]
           Eq(g) == g = [b \in Nat |-> [a \in Nat |-> IF b = 0 THEN a ELSE g[a % b][b]]]
<1>1. \A b \in Nat : IsGcd(Upto(b), b)
  BY GcdExists
<1> HIDE DEF Upto
<1>2. \A b \in Nat : f[b] = Upto(b)[b]
  OBVIOUS
<1>3. ASSUME NEW b \in Nat
      PROVE  f[b] = [a \in Nat |-> IF b = 0 THEN a ELSE f[a % b][b]]
  <2>1. PICK g : g = Upto(b)
    OBVIOUS
  <2>2. IsGcd(g, b) /\ f[b] = g[b]
    BY <1>1, <1>2, <2>1
  <2>3. b \in 0 .. b
    OBVIOUS
  <2>4. g[b] = [a \in Nat |-> IF b = 0 THEN a ELSE g[a % b][b]]
    BY <2>2, <2>3 DEF IsGcd
  <2>5. ASSUME NEW c \in Nat, c < b
        PROVE  f[c] = g[c]
    <3>1. IsGcd(Upto(c), c) /\ f[c] = Upto(c)[c] /\ c <= b /\ c <= c
      BY <1>1, <1>2, <2>5
    <3> QED
      BY <2>2, <3>1, GcdAgree
  <2>6. b # 0 => \A a \in Nat : f[a % b] = g[a % b]
    BY <2>5, RemainderType
  <2> QED
    BY <2>2, <2>4, <2>6
<1>4. f = [b \in Nat |-> f[b]]
  OBVIOUS
<1> HIDE DEF f
<1>5. Eq(f)
  BY <1>3, <1>4
<1> HIDE DEF Eq
<1>6. Eq(CHOOSE g : Eq(g))
  BY <1>5
<1>7. gcd = CHOOSE g : Eq(g)
  BY DEF gcd, Eq
<1>8. Eq(gcd)
  BY <1>6, <1>7
<1> QED
  BY <1>8 DEF Eq

\* The greatest common divisor divides.
LEMMA GcdDivides ==
    ASSUME NEW a \in Nat, NEW b \in Nat, a # 0 \/ b # 0
    PROVE  GCD(a, b) \in Nat \ {0} /\ \E x, y \in Nat : a = x * GCD(a, b) /\ b = y * GCD(a, b)
<1> DEFINE Divides(g, i, j) == g \in Nat \ {0} /\ \E x, y \in Nat : i = x * g /\ j = y * g
           Odd == {j \in Nat : \E i \in Nat : (i # 0 \/ j # 0) /\ ~Divides(gcd[j][i], i, j)}
<1>1. SUFFICES ASSUME Odd # {}
               PROVE  FALSE
  BY <1>1 DEF GCD
<1>2. PICK j \in Odd : \A k \in Odd : j <= k
  <2>1. Odd \subseteq Nat
    OBVIOUS
  <2> HIDE DEF Odd
  <2> QED
    BY <1>1, <2>1, LeastNumber
<1>3. PICK i \in Nat : (i # 0 \/ j # 0) /\ ~Divides(gcd[j][i], i, j)
  BY <1>2
<1>4. \A l \in Nat, k \in Nat : gcd[k][l] = IF k = 0 THEN l ELSE gcd[l % k][k]
  BY GcdIs
<1>5. CASE j = 0
  <2>1. gcd[j][i] = i /\ i # 0
    BY <1>3, <1>4, <1>5
  <2>2. i = 1 * i /\ 0 = 0 * i
    OBVIOUS
  <2>3. Divides(i, i, 0)
    BY <2>1, <2>2
  <2> QED
    BY <1>3, <1>5, <2>1, <2>3
<1>6. CASE j # 0
  <2>1. PICK k \in Nat : k = i % j
    BY <1>2, <1>6, RemainderType
  <2> HIDE DEF Odd
  <2>2. k < j /\ k \notin Odd
    <3>1. j \in Nat /\ k < j
      BY <1>2, <1>6, <2>1, RemainderType DEF Odd
    <3> QED
      BY <1>2, <3>1
  <2>3. gcd[j][i] = gcd[k][j]
    <3>1. j \in Nat /\ i \in Nat
      BY <1>2 DEF Odd
    <3>2. gcd[j][i] = gcd[i % j][j]
      BY <1>4, <1>6, <3>1
    <3> QED
      BY <2>1, <3>2
  <2> USE DEF Odd
  <2>4. PICK g : g = gcd[k][j]
    OBVIOUS
  <2>5. Divides(g, j, k)
    BY <1>2, <1>6, <2>2, <2>4
  <2>6. g \in Nat \ {0}
    BY <2>5
  <2>7. PICK x, y \in Nat : j = x * g /\ k = y * g
    BY <2>5
  <2>8. PICK q \in Nat : q = i \div j
    BY <1>2, <1>6, RemainderType
  <2>9. i = (j * q) + k
    BY <1>2, <1>6, <2>1, <2>8, RemainderType
  <2>10. i = ((x * q) + y) * g
    <3>1. ((x * q) + y) * g = ((x * q) * g) + (y * g)
      BY <2>6, <2>7, <2>8
    <3>2. (x * q) * g = (x * g) * q
      BY <2>6, <2>7, <2>8
    <3> QED
      BY <2>7, <2>9, <3>1, <3>2
  <2>11. (x * q) + y \in Nat
    BY <2>7, <2>8
  <2>12. Divides(g, i, j)
    BY <2>6, <2>7, <2>10, <2>11
  <2> QED
    BY <1>3, <2>4, <2>12, <2>3
<1> QED
  BY <1>5, <1>6

\* Fractions, and the one that stands for n/d.
Fraction == Nat \X (Nat \ {0})

Is(a, n, d) == a \in Fraction /\ a[1] * d = n * a[2]

\* Products of natural numbers.
LEMMA ProductType == \A x, y \in Nat : x * y \in Nat /\ (x # 0 /\ y # 0 => x * y # 0)
  OBVIOUS

LEMMA Shuffle ==
    ASSUME NEW a \in Int, NEW b \in Int, NEW c \in Int, NEW d \in Int
    PROVE  (a * b) * (c * d) = (a * c) * (b * d) /\ (a * b) * (c * d) = (a * d) * (c * b)
  OBVIOUS

\* A common factor.
LEMMA Cancel ==
    ASSUME NEW x \in Int, NEW y \in Int, NEW k \in Nat \ {0}
    PROVE  /\ x * k < y * k <=> x < y
           /\ x * k = y * k <=> x = y
<1>1. ASSUME NEW u \in Int, NEW v \in Int, u < v
      PROVE  u * k < v * k
  <2>1. v - u \in Nat \ {0} /\ (v - u) * k \in Nat \ {0}
    BY <1>1
  <2>2. (v - u) * k = v * k - u * k
    OBVIOUS
  <2>3. u * k \in Int /\ v * k \in Int
    OBVIOUS
  <2> QED
    BY <2>1, <2>2, <2>3
<1>2. x * k \in Int /\ y * k \in Int
  OBVIOUS
<1>3. x < y => x * k < y * k
  BY <1>1
<1>4. y < x => y * k < x * k
  BY <1>1
<1>5. x = y => x * k = y * k
  OBVIOUS
<1> QED
  BY <1>2, <1>3, <1>4, <1>5

LEMMA RatioIs ==
    ASSUME NEW n \in Nat, NEW d \in Nat \ {0}
    PROVE  Is(Ratio(n, d), n, d)
<1>1. CASE n = 0
  <2>1. Ratio(n, d) = <<0, 1>>
    BY <1>1 DEF Ratio
  <2> QED
    BY <1>1, <2>1 DEF Is, Fraction
<1>2. CASE n # 0
  <2>1. PICK g : g = GCD(n, d)
    OBVIOUS
  <2>2. g \in Nat \ {0} /\ \E x, y \in Nat : n = x * g /\ d = y * g
    BY <2>1, GcdDivides
  <2>3. PICK x, y \in Nat : n = x * g /\ d = y * g
    BY <2>2
  <2>4. \A i \in Nat : (i * g) \div g = i
    BY <2>2
  <2>5. n \div g = x /\ d \div g = y
    BY <2>3, <2>4
  <2>6. Ratio(n, d) = <<x, y>>
    BY <1>2, <2>1, <2>5 DEF Ratio
  <2>7. y # 0
    BY <2>2, <2>3
  <2>8. x * d = n * y
    <3>1. x * (y * g) = (x * g) * y
      BY <2>2, <2>3
    <3> QED
      BY <2>3, <3>1
  <2> QED
    BY <2>3, <2>6, <2>7, <2>8 DEF Is, Fraction
<1> QED
  BY <1>1, <1>2

\* Fractions compare as what they stand for.
LEMMA LessIs ==
    ASSUME NEW a, NEW b, NEW n \in Nat, NEW d \in Nat \ {0}, NEW m \in Nat, NEW e \in Nat \ {0},
           Is(a, n, d), Is(b, m, e)
    PROVE  Less(a, b) <=> n * e < m * d
<1>1. PICK a1 \in Nat, a2 \in Nat \ {0}, b1 \in Nat, b2 \in Nat \ {0} :
         a1 = a[1] /\ a2 = a[2] /\ b1 = b[1] /\ b2 = b[2]
  BY DEF Is, Fraction
<1>2. a1 * d = n * a2 /\ b1 * e = m * b2
  BY <1>1 DEF Is
<1>3. PICK l \in Int, r \in Int, s \in Int, t \in Int : l = a1 * b2 /\ r = b1 * a2 /\ s = n * e /\ t = m * d
  OBVIOUS
<1>4. PICK k \in Nat \ {0}, j \in Nat \ {0} : k = d * e /\ j = a2 * b2
  BY ProductType
<1>5. l * k = s * j
  <2>1. (a1 * b2) * (d * e) = (a1 * d) * (b2 * e)
    BY Shuffle
  <2>2. (n * a2) * (b2 * e) = (n * e) * (b2 * a2)
    BY Shuffle
  <2>3. b2 * a2 = a2 * b2
    OBVIOUS
  <2> QED
    BY <1>2, <1>3, <1>4, <2>1, <2>2, <2>3
<1>6. r * k = t * j
  <2>1. (b1 * a2) * (e * d) = (b1 * e) * (a2 * d)
    BY Shuffle
  <2>2. (m * b2) * (a2 * d) = (m * d) * (a2 * b2)
    BY Shuffle
  <2>3. e * d = d * e
    OBVIOUS
  <2> QED
    BY <1>2, <1>3, <1>4, <2>1, <2>2, <2>3
<1>7. l < r <=> l * k < r * k
  BY Cancel
<1>8. s < t <=> s * j < t * j
  BY Cancel
<1> QED
  BY <1>1, <1>3, <1>5, <1>6, <1>7, <1>8 DEF Less

\* A fraction stands for itself.
LEMMA IsItself == \A a \in Fraction : Is(a, a[1], a[2]) /\ a[1] \in Nat /\ a[2] \in Nat \ {0}
  BY DEF Is, Fraction

\* Fractions are ordered by their values.
LEMMA LessOrder ==
    ASSUME NEW a \in Fraction, NEW b \in Fraction, NEW c \in Fraction
    PROVE  /\ ~Less(a, a)
           /\ Less(a, b) => ~Less(b, a)
           /\ ~Less(b, a) /\ Less(b, c) => Less(a, c)
           /\ Less(a, b) /\ ~Less(c, b) => Less(a, c)
           /\ ~Less(b, a) /\ ~Less(c, b) => ~Less(c, a)
<1>1. PICK a1 \in Nat, a2 \in Nat \ {0}, b1 \in Nat, b2 \in Nat \ {0}, c1 \in Nat, c2 \in Nat \ {0} :
         a1 = a[1] /\ a2 = a[2] /\ b1 = b[1] /\ b2 = b[2] /\ c1 = c[1] /\ c2 = c[2]
  BY DEF Fraction
<1>2. PICK ab \in Int, ba \in Int, bc \in Int, cb \in Int, ac \in Int, ca \in Int :
         /\ ab = a1 * b2 /\ ba = b1 * a2 /\ bc = b1 * c2 /\ cb = c1 * b2 /\ ac = a1 * c2 /\ ca = c1 * a2
  OBVIOUS
<1>3. /\ ab * c2 = ac * b2 /\ ba * c2 = bc * a2 /\ cb * a2 = ca * b2
  BY <1>2
<1>4. /\ Less(a, b) <=> ab < ba
      /\ Less(b, a) <=> ba < ab
      /\ Less(b, c) <=> bc < cb
      /\ Less(c, b) <=> cb < bc
      /\ Less(a, c) <=> ac < ca
      /\ Less(c, a) <=> ca < ac
  BY <1>1, <1>2 DEF Less
<1>5. ~Less(a, a)
  <2>1. a1 * a2 \in Int
    OBVIOUS
  <2> QED
    BY <1>1, <2>1 DEF Less
<1>6. /\ ab * c2 < ba * c2 <=> ab < ba
      /\ ba * c2 < ab * c2 <=> ba < ab
      /\ bc * a2 < cb * a2 <=> bc < cb
      /\ cb * a2 < bc * a2 <=> cb < bc
      /\ ac * b2 < ca * b2 <=> ac < ca
      /\ ca * b2 < ac * b2 <=> ca < ac
  BY Cancel
<1>7. PICK u \in Int, v \in Int, w \in Int : u = ab * c2 /\ v = ba * c2 /\ w = cb * a2
  OBVIOUS
<1>8. /\ u < v <=> ab < ba
      /\ v < u <=> ba < ab
      /\ v < w <=> bc < cb
      /\ w < v <=> cb < bc
      /\ u < w <=> ac < ca
      /\ w < u <=> ca < ac
  BY <1>3, <1>6, <1>7
<1> QED
  BY <1>4, <1>5, <1>7, <1>8

\* A finite set of fractions has a greatest and a least.
LEMMA GreatestIs ==
    ASSUME NEW S, IsFiniteSet(S), S # {}, S \subseteq Fraction
    PROVE  Greatest(S) \in S /\ \A b \in S : ~Less(Greatest(S), b)
<1> DEFINE Tops(T) == {a \in T : \A b \in T : ~Less(a, b)}
           Odd == {T \in SUBSET S : T # {} /\ Tops(T) = {}}
<1>1. Odd = {}
  <2> SUFFICES ASSUME Odd # {}
               PROVE  FALSE
    OBVIOUS
  <2>1. \A T \in Odd : IsFiniteSet(T)
    BY FS_Subset
  <2>2. PICK T \in Odd : \A U \in Odd : ~(Cardinality(U) < Cardinality(T))
    <3> HIDE DEF Odd
    <3> QED
      BY <2>1, Smallest
  <2>3. PICK x : x \in T
    BY <2>2
  <2>4. T \in SUBSET S /\ IsFiniteSet(T) /\ T \ {x} \in SUBSET S
    BY <2>1, <2>2
  <2>5. Cardinality(T \ {x}) < Cardinality(T)
    BY <2>3, <2>4, Rest
  <2>6. T \ {x} \notin Odd
    BY <2>2, <2>5
  <2>7. CASE T \ {x} = {}
    <3>1. T = {x} /\ x \in Fraction
      BY <2>3, <2>4, <2>7
    <3>2. ~Less(x, x)
      BY <3>1, LessOrder
    <3>3. x \in Tops(T)
      BY <3>1, <3>2
    <3> QED
      BY <2>2, <3>3
  <2>8. CASE T \ {x} # {}
    <3>1. PICK a \in T \ {x} : \A b \in T \ {x} : ~Less(a, b)
      BY <2>4, <2>6, <2>8
    <3>2. a \in Fraction /\ x \in Fraction /\ T \subseteq Fraction
      BY <2>3, <2>4, <3>1
    <3>3. CASE ~Less(a, x)
      <4>1. a \in Tops(T)
        BY <3>1, <3>3
      <4> QED
        BY <2>2, <4>1
    <3>4. CASE Less(a, x)
      <4>1. ASSUME NEW b \in T
            PROVE  ~Less(x, b)
        <5>1. CASE b = x
          BY <3>2, <5>1, LessOrder
        <5>2. CASE b # x
          <6>1. ~Less(a, b) /\ b \in Fraction
            BY <3>1, <3>2, <5>2
          <6> QED
            BY <3>2, <3>4, <6>1, LessOrder
        <5> QED
          BY <5>1, <5>2
      <4>2. x \in Tops(T)
        BY <2>3, <4>1
      <4> QED
        BY <2>2, <4>2
    <3> QED
      BY <3>3, <3>4
  <2> QED
    BY <2>7, <2>8
<1>2. \E a \in S : \A b \in S : ~Less(a, b)
  BY <1>1
<1> QED
  BY <1>2 DEF Greatest

LEMMA LeastIs ==
    ASSUME NEW S, IsFiniteSet(S), S # {}, S \subseteq Fraction
    PROVE  Least(S) \in S /\ \A b \in S : ~Less(b, Least(S))
<1> DEFINE Tops(T) == {a \in T : \A b \in T : ~Less(b, a)}
           Odd == {T \in SUBSET S : T # {} /\ Tops(T) = {}}
<1>1. Odd = {}
  <2> SUFFICES ASSUME Odd # {}
               PROVE  FALSE
    OBVIOUS
  <2>1. \A T \in Odd : IsFiniteSet(T)
    BY FS_Subset
  <2>2. PICK T \in Odd : \A U \in Odd : ~(Cardinality(U) < Cardinality(T))
    <3> HIDE DEF Odd
    <3> QED
      BY <2>1, Smallest
  <2>3. PICK x : x \in T
    BY <2>2
  <2>4. T \in SUBSET S /\ IsFiniteSet(T) /\ T \ {x} \in SUBSET S
    BY <2>1, <2>2
  <2>5. Cardinality(T \ {x}) < Cardinality(T)
    BY <2>3, <2>4, Rest
  <2>6. T \ {x} \notin Odd
    BY <2>2, <2>5
  <2>7. CASE T \ {x} = {}
    <3>1. T = {x} /\ x \in Fraction
      BY <2>3, <2>4, <2>7
    <3>2. ~Less(x, x)
      BY <3>1, LessOrder
    <3>3. x \in Tops(T)
      BY <3>1, <3>2
    <3> QED
      BY <2>2, <3>3
  <2>8. CASE T \ {x} # {}
    <3>1. PICK a \in T \ {x} : \A b \in T \ {x} : ~Less(b, a)
      BY <2>4, <2>6, <2>8
    <3>2. a \in Fraction /\ x \in Fraction /\ T \subseteq Fraction
      BY <2>3, <2>4, <3>1
    <3>3. CASE ~Less(x, a)
      <4>1. a \in Tops(T)
        BY <3>1, <3>3
      <4> QED
        BY <2>2, <4>1
    <3>4. CASE Less(x, a)
      <4>1. ASSUME NEW b \in T
            PROVE  ~Less(b, x)
        <5>1. CASE b = x
          BY <3>2, <5>1, LessOrder
        <5>2. CASE b # x
          <6>1. ~Less(b, a) /\ b \in Fraction
            BY <3>1, <3>2, <5>2
          <6> QED
            BY <3>2, <3>4, <6>1, LessOrder
        <5> QED
          BY <5>1, <5>2
      <4>2. x \in Tops(T)
        BY <2>3, <4>1
      <4> QED
        BY <2>2, <4>2
    <3> QED
      BY <3>3, <3>4
  <2> QED
    BY <2>7, <2>8
<1>2. \E a \in S : \A b \in S : ~Less(b, a)
  BY <1>1
<1> QED
  BY <1>2 DEF Least

\* What stands for n/d stands for m/e of the same value.
LEMMA IsSame ==
    ASSUME NEW a, NEW n \in Nat, NEW d \in Nat \ {0}, NEW m \in Nat, NEW e \in Nat \ {0},
           Is(a, n, d), n * e = m * d
    PROVE  Is(a, m, e)
<1>1. PICK a1 \in Nat, a2 \in Nat \ {0} : a1 = a[1] /\ a2 = a[2]
  BY DEF Is, Fraction
<1>2. a1 * d = n * a2
  BY <1>1 DEF Is
<1>3. PICK x \in Int, y \in Int : x = a1 * e /\ y = m * a2
  OBVIOUS
<1>4. x * d = y * d
  <2>1. (a1 * e) * (d * 1) = (a1 * d) * (e * 1)
    BY Shuffle
  <2>2. (n * a2) * (e * 1) = (n * e) * (a2 * 1)
    BY Shuffle
  <2>3. (m * d) * (a2 * 1) = (m * a2) * (d * 1)
    BY Shuffle
  <2>4. d * 1 = d /\ e * 1 = e /\ a2 * 1 = a2
    OBVIOUS
  <2> QED
    BY <1>2, <1>3, <2>1, <2>2, <2>3, <2>4
<1>5. x = y
  BY <1>4, Cancel
<1> QED
  BY <1>1, <1>3, <1>5 DEF Is

\* A fraction multiplied.
LEMMA MultiplyIs ==
    ASSUME NEW a, NEW n \in Nat, NEW d \in Nat \ {0}, Is(a, n, d), NEW k \in Nat, NEW l \in Nat \ {0}
    PROVE  Is(Ratio(a[1] * k, a[2] * l), n * k, d * l)
<1>1. PICK a1 \in Nat, a2 \in Nat \ {0} : a1 = a[1] /\ a2 = a[2]
  BY DEF Is, Fraction
<1>2. PICK r : r = Ratio(a1 * k, a2 * l)
  OBVIOUS
<1>3. a1 * k \in Nat /\ a2 * l \in Nat \ {0} /\ n * k \in Nat /\ d * l \in Nat \ {0}
  BY ProductType
<1>4. Is(r, a1 * k, a2 * l)
  BY <1>2, <1>3, RatioIs
<1>5. (a1 * k) * (d * l) = (n * k) * (a2 * l)
  <2>1. (a1 * k) * (d * l) = (a1 * d) * (k * l)
    BY Shuffle
  <2>2. (n * a2) * (k * l) = (n * k) * (a2 * l)
    BY Shuffle
  <2>3. a1 * d = n * a2
    BY <1>1 DEF Is
  <2> QED
    BY <2>1, <2>2, <2>3
<1>6. Is(r, n * k, d * l)
  BY <1>3, <1>4, <1>5, IsSame
<1> QED
  BY <1>1, <1>2, <1>6

LEMMA PlusIs ==
    ASSUME NEW a \in Fraction, NEW b \in Fraction
    PROVE  /\ Is(Plus(a, b), a[1] * b[2] + b[1] * a[2], a[2] * b[2])
           /\ a[1] * b[2] + b[1] * a[2] \in Nat /\ a[2] * b[2] \in Nat \ {0}
<1>1. a[1] \in Nat /\ a[2] \in Nat \ {0} /\ b[1] \in Nat /\ b[2] \in Nat \ {0}
  BY DEF Fraction
<1>2. a[1] * b[2] \in Nat /\ b[1] * a[2] \in Nat /\ a[2] * b[2] \in Nat \ {0}
  BY <1>1, ProductType
<1> QED
  BY <1>2, RatioIs DEF Plus

\* The midpoint lies between.
LEMMA BetweenIs ==
    ASSUME NEW a \in Fraction, NEW b \in Fraction, Less(a, b)
    PROVE  Between(a, b) \in Fraction /\ Less(a, Between(a, b)) /\ Less(Between(a, b), b)
<1>1. PICK a1 \in Nat, a2 \in Nat \ {0}, b1 \in Nat, b2 \in Nat \ {0} :
         a1 = a[1] /\ a2 = a[2] /\ b1 = b[1] /\ b2 = b[2]
  BY DEF Fraction
<1>2. PICK ab \in Nat, ba \in Nat, k \in Nat \ {0} : ab = a1 * b2 /\ ba = b1 * a2 /\ k = a2 * b2
  BY ProductType
<1>3. ab < ba
  BY <1>1, <1>2 DEF Less
<1>4. PICK s : s = Plus(a, b)
  OBVIOUS
<1>5. Is(s, ab + ba, k)
  BY <1>1, <1>2, <1>4, PlusIs
<1>6. PICK m : m = Between(a, b)
  OBVIOUS
<1>7. m = Ratio(s[1] * 1, s[2] * 2)
  <2>1. s[1] \in Nat /\ s[2] \in Nat
    BY <1>5 DEF Is, Fraction
  <2>2. s[1] * 1 = s[1] /\ s[2] * 2 = 2 * s[2]
    BY <2>1
  <2> QED
    BY <1>4, <1>6, <2>2 DEF Between
<1>8. Is(m, ab + ba, k * 2)
  <2>1. ab + ba \in Nat /\ 1 \in Nat /\ 2 \in Nat \ {0} /\ (ab + ba) * 1 = ab + ba
    OBVIOUS
  <2> QED
    BY <1>5, <1>7, <2>1, MultiplyIs
<1>9. Is(a, a1, a2) /\ Is(b, b1, b2)
  BY <1>1, IsItself
<1>10. k * 2 \in Nat \ {0} /\ ab + ba \in Nat
  OBVIOUS
<1>11. Less(a, m) <=> a1 * (k * 2) < (ab + ba) * a2
  BY <1>8, <1>9, <1>10, LessIs
<1>12. Less(m, b) <=> (ab + ba) * b2 < b1 * (k * 2)
  BY <1>8, <1>9, <1>10, LessIs
<1>13. a1 * (k * 2) = (ab + ab) * a2
  BY <1>2
<1>14. b1 * (k * 2) = (ba + ba) * b2
  BY <1>2
<1>15. (ab + ab) * a2 < (ab + ba) * a2 /\ (ab + ba) * b2 < (ba + ba) * b2
  BY <1>3, Cancel
<1>16. m \in Fraction
  BY <1>8 DEF Is
<1> QED
  BY <1>6, <1>11, <1>12, <1>13, <1>14, <1>15, <1>16

-----------------------------------------------------------------------------
(* The bisection.                                                          *)

Opening == [lower : Nat \X Nat, upper : Nat \X Nat]

\* The bisection, up to n steps.
IsSearch(f, n, partly, available) ==
    f = [k \in 0 .. n |->
            [open \in Opening |->
                IF k = 0 THEN Unresolved
                ELSE CHOOSE found \in {Narrowed(f[k - 1], open, ratio, partly, available) :
                                          ratio \in {Between(open.lower, open.upper)}} : TRUE]]

LEMMA SearchExists ==
    ASSUME NEW n \in Nat, NEW partly, NEW available
    PROVE  \E f : IsSearch(f, n, partly, available)
<1> DEFINE Odd == {k \in Nat : ~\E f : IsSearch(f, k, partly, available)}
           Deeper(h, open) == CHOOSE found \in {Narrowed(h, open, ratio, partly, available) :
                                                 ratio \in {Between(open.lower, open.upper)}} : TRUE
<1>1. SUFFICES ASSUME Odd # {}
               PROVE  FALSE
  OBVIOUS
<1>2. PICK k \in Odd : \A j \in Odd : k <= j
  <2>1. Odd \subseteq Nat
    OBVIOUS
  <2> HIDE DEF Odd
  <2> QED
    BY <1>1, <2>1, LeastNumber
<1>3. \A f, i : IsSearch(f, i, partly, available)
         <=> f = [j \in 0 .. i |-> [open \in Opening |-> IF j = 0 THEN Unresolved ELSE Deeper(f[j - 1], open)]]
  BY DEF IsSearch
<1> HIDE DEF Deeper
<1>4. CASE k = 0
  <2> DEFINE f == [j \in 0 .. 0 |-> [open \in Opening |-> Unresolved]]
  <2>1. f = [j \in 0 .. 0 |-> [open \in Opening |-> IF j = 0 THEN Unresolved ELSE Deeper(f[j - 1], open)]]
    OBVIOUS
  <2> HIDE DEF f
  <2>2. IsSearch(f, 0, partly, available)
    BY <1>3, <2>1
  <2> QED
    BY <1>2, <1>4, <2>2
<1>5. CASE k # 0
  <2>1. k \in Nat /\ k - 1 \in Nat /\ k - 1 \notin Odd
    BY <1>2, <1>5
  <2>2. PICK h : IsSearch(h, k - 1, partly, available)
    BY <2>1
  <2>3. h = [j \in 0 .. k - 1 |-> [open \in Opening |-> IF j = 0 THEN Unresolved ELSE Deeper(h[j - 1], open)]]
    BY <1>3, <2>2
  <2> DEFINE f == [j \in 0 .. k |-> IF j = k THEN [open \in Opening |-> Deeper(h[k - 1], open)] ELSE h[j]]
  <2>4. ASSUME NEW j \in 0 .. k
        PROVE  f[j] = [open \in Opening |-> IF j = 0 THEN Unresolved ELSE Deeper(f[j - 1], open)]
    <3>1. CASE j = k
      <4>1. f[j - 1] = h[k - 1]
        BY <2>1, <3>1
      <4>2. f[j] = [open \in Opening |-> Deeper(h[k - 1], open)]
        BY <3>1
      <4> QED
        BY <1>5, <3>1, <4>1, <4>2
    <3>2. CASE j # k
      <4>1. j \in 0 .. k - 1 /\ f[j] = h[j]
        BY <2>1, <3>2
      <4>2. j # 0 => f[j - 1] = h[j - 1]
        BY <2>1, <4>1
      <4> QED
        BY <2>3, <4>1, <4>2
    <3> QED
      BY <3>1, <3>2
  <2>5. f = [j \in 0 .. k |-> f[j]]
    OBVIOUS
  <2> HIDE DEF f
  <2>6. f = [j \in 0 .. k |-> [open \in Opening |-> IF j = 0 THEN Unresolved ELSE Deeper(f[j - 1], open)]]
    BY <2>4, <2>5
  <2>7. IsSearch(f, k, partly, available)
    BY <1>3, <2>6
  <2> QED
    BY <1>2, <2>7
<1> QED
  BY <1>4, <1>5

\* What a bisection finds lies within its bounds, and is neither too much nor too little.
Found(r, open, partly, available) ==
    \/ r = Unresolved
    \/ \E ratio \in Fraction :
          /\ r = Resolved(ratio) /\ Less(open.lower, ratio) /\ Less(ratio, open.upper)
          /\ ~TooMuch(ratio, partly, available) /\ ~TooLittle(ratio, partly, available)

LEMMA SearchFinds ==
    ASSUME NEW n \in Nat, NEW partly, NEW available, NEW f, IsSearch(f, n, partly, available)
    PROVE  \A k \in 0 .. n : \A open \in [lower : Fraction, upper : Fraction] :
              Less(open.lower, open.upper) => Found(f[k][open], open, partly, available)
<1> DEFINE Good(k) == \A open \in [lower : Fraction, upper : Fraction] :
                         Less(open.lower, open.upper) => Found(f[k][open], open, partly, available)
           Odd == {k \in Nat : k <= n /\ ~Good(k)}
<1>1. SUFFICES ASSUME Odd # {}
               PROVE  FALSE
  OBVIOUS
<1>2. PICK k \in Odd : \A j \in Odd : k <= j
  <2>1. Odd \subseteq Nat
    OBVIOUS
  <2> HIDE DEF Odd
  <2> QED
    BY <1>1, <2>1, LeastNumber
<1>3. k \in Nat /\ k <= n /\ k \in 0 .. n /\ ~Good(k)
  BY <1>2
<1>4. k # 0 => k - 1 \in Nat /\ Good(k - 1)
  BY <1>2, <1>3
<1> HIDE DEF Good
<1>5. PICK open \in [lower : Fraction, upper : Fraction] :
         Less(open.lower, open.upper) /\ ~Found(f[k][open], open, partly, available)
  BY <1>3 DEF Good
<1>6. open \in Opening /\ open.lower \in Fraction /\ open.upper \in Fraction
      /\ open = [lower |-> open.lower, upper |-> open.upper]
  BY DEF Opening, Fraction
<1>7. PICK ratio : ratio = Between(open.lower, open.upper)
  OBVIOUS
<1>8. ratio \in Fraction /\ Less(open.lower, ratio) /\ Less(ratio, open.upper)
  BY <1>5, <1>6, <1>7, BetweenIs
<1> DEFINE Deeper(h, o) == CHOOSE found \in {Narrowed(h, o, r, partly, available) :
                                             r \in {Between(o.lower, o.upper)}} : TRUE
<1>9. f = [j \in 0 .. n |-> [o \in Opening |-> IF j = 0 THEN Unresolved ELSE Deeper(f[j - 1], o)]]
  BY DEF IsSearch
<1> HIDE DEF Deeper
<1>10. f[k] = [o \in Opening |-> IF k = 0 THEN Unresolved ELSE Deeper(f[k - 1], o)]
  BY <1>3, <1>9
<1>11. f[k][open] = IF k = 0 THEN Unresolved ELSE Deeper(f[k - 1], open)
  BY <1>6, <1>10
<1>12. f[k][open] = IF k = 0 THEN Unresolved
                   ELSE CHOOSE found \in {Narrowed(f[k - 1], open, r, partly, available) :
                                             r \in {Between(open.lower, open.upper)}} : TRUE
  BY <1>11 DEF Deeper
<1>13. k # 0
  BY <1>5, <1>12 DEF Found
<1>14. f[k][open] = Narrowed(f[k - 1], open, ratio, partly, available)
  <2>1. PICK s : s = {Narrowed(f[k - 1], open, r, partly, available) : r \in {Between(open.lower, open.upper)}}
    OBVIOUS
  <2>2. s = {Narrowed(f[k - 1], open, ratio, partly, available)}
    BY <1>7, <2>1
  <2>3. f[k][open] = CHOOSE found \in s : TRUE
    BY <1>12, <1>13, <2>1
  <2>4. (CHOOSE found \in s : TRUE) \in s
    BY <2>2
  <2> QED
    BY <2>2, <2>3, <2>4
<1>15. CASE TooMuch(ratio, partly, available)
  <2>1. PICK inner : inner = [open EXCEPT !.upper = ratio]
    OBVIOUS
  <2>2. inner = [lower |-> open.lower, upper |-> ratio]
    BY <1>6, <2>1
  <2>3. inner \in [lower : Fraction, upper : Fraction] /\ Less(inner.lower, inner.upper)
    BY <1>6, <1>8, <2>2
  <2>4. Found(f[k - 1][inner], inner, partly, available)
    BY <1>4, <1>13, <2>3 DEF Good
  <2>5. f[k][open] = f[k - 1][inner]
    BY <1>14, <1>15, <2>1 DEF Narrowed
  <2>6. \A r \in Fraction : Less(inner.lower, r) /\ Less(r, inner.upper) => Less(open.lower, r) /\ Less(r, open.upper)
    <3> TAKE r \in Fraction
    <3>1. Less(r, ratio) => Less(r, open.upper)
      BY <1>6, <1>8, LessOrder
    <3> QED
      BY <2>2, <3>1
  <2> QED
    BY <1>5, <2>4, <2>5, <2>6 DEF Found
<1>16. CASE ~TooMuch(ratio, partly, available) /\ TooLittle(ratio, partly, available)
  <2>1. PICK inner : inner = [open EXCEPT !.lower = ratio]
    OBVIOUS
  <2>2. inner = [lower |-> ratio, upper |-> open.upper]
    BY <1>6, <2>1
  <2>3. inner \in [lower : Fraction, upper : Fraction] /\ Less(inner.lower, inner.upper)
    BY <1>6, <1>8, <2>2
  <2>4. Found(f[k - 1][inner], inner, partly, available)
    BY <1>4, <1>13, <2>3 DEF Good
  <2>5. f[k][open] = f[k - 1][inner]
    BY <1>14, <1>16, <2>1 DEF Narrowed
  <2>6. \A r \in Fraction : Less(inner.lower, r) /\ Less(r, inner.upper) => Less(open.lower, r) /\ Less(r, open.upper)
    <3> TAKE r \in Fraction
    <3>1. Less(ratio, r) => Less(open.lower, r)
      BY <1>6, <1>8, LessOrder
    <3> QED
      BY <2>2, <3>1
  <2> QED
    BY <1>5, <2>4, <2>5, <2>6 DEF Found
<1>17. CASE ~TooMuch(ratio, partly, available) /\ ~TooLittle(ratio, partly, available)
  <2>1. f[k][open] = Resolved(ratio)
    BY <1>14, <1>17 DEF Narrowed
  <2> QED
    BY <1>5, <1>8, <1>17, <2>1 DEF Found
<1> QED
  BY <1>15, <1>16, <1>17

LEMMA BisectedFinds ==
    ASSUME NEW partly, NEW available, NEW bounds \in [lower : Fraction, upper : Fraction],
           Less(bounds.lower, bounds.upper)
    PROVE  Found(Bisected(partly, available, bounds), bounds, partly, available)
<1>1. MaxSteps \in Nat /\ MaxSteps \in 0 .. MaxSteps
  BY AuditAssumption
<1>2. PICK f : f = (CHOOSE g : IsSearch(g, MaxSteps, partly, available))
  OBVIOUS
<1>3. IsSearch(f, MaxSteps, partly, available)
  BY <1>1, <1>2, SearchExists
<1>4. Bisected(partly, available, bounds) = f[MaxSteps][bounds]
  BY <1>2 DEF Bisected, IsSearch, Opening
<1> QED
  BY <1>1, <1>3, <1>4, SearchFinds

-----------------------------------------------------------------------------
(* The cells, and what a ratio between their bounds allows.                *)

Cell == {cell \in [lower : Nat, upper : Nat \ {0}] : cell.lower < cell.upper}

LEMMA HalfQuantum == Quantum \div 2 \in Nat \ {0} /\ Quantum = 2 * (Quantum \div 2)
<1>1. Quantum \in Nat \ {0} /\ Quantum % 2 = 0
  BY AuditAssumption
<1>2. PICK h \in Nat : h = Quantum \div 2
  BY <1>1
<1>3. Quantum = 2 * h
  BY <1>1, <1>2
<1> QED
  BY <1>1, <1>2, <1>3

LEMMA CellType ==
    ASSUME NEW v \in Nat
    PROVE  _cell(v) \in Cell
<1>1. PICK h \in Nat \ {0}, m \in Nat : h = Quantum \div 2 /\ Quantum = 2 * h /\ m = v * Quantum
  BY HalfQuantum
<1>2. _cell(v) = [lower |-> Greater(0, m - h), upper |-> m + h]
  BY <1>1 DEF _cell
<1>3. Greater(0, m - h) \in Nat /\ Greater(0, m - h) < m + h /\ m + h \in Nat \ {0}
  BY DEF Greater
<1> QED
  BY <1>2, <1>3 DEF Cell

LEMMA RowType ==
    ASSUME source \in [Points -> [Channels -> Nat]], NEW p \in Points
    PROVE  /\ \A c \in Channels : Row(p)[c] = _cell(source[p][c]) /\ Row(p)[c] \in Cell
           /\ Row(p).total \in Cell /\ Row(p).local \in Cell /\ Row(p).residual \in Cell
<1>1. \A c \in Channels : Row(p)[c] = _cell(source[p][c]) /\ source[p][c] \in Nat
  BY DEF Row
<1>2. \A c \in Channels : Row(p)[c] = _cell(source[p][c]) /\ Row(p)[c] \in Cell
  BY <1>1, CellType
<1>3. "total" \in Channels /\ "local" \in Channels /\ "residual" \in Channels
  BY DEF Channels
<1> QED
  BY <1>2, <1>3

\* Of two sets of fractions each of one is less than each of the other.
LEMMA GreatestBelowLeast ==
    ASSUME NEW S, NEW T, IsFiniteSet(S), IsFiniteSet(T), S # {}, T # {},
           S \subseteq Fraction, T \subseteq Fraction, \A a \in S, b \in T : Less(a, b)
    PROVE  Less(Greatest(S), Least(T))
<1>1. Greatest(S) \in S /\ Least(T) \in T
  BY GreatestIs, LeastIs
<1> QED
  BY <1>1

\* A ratio a / b lies between the bounds of a row of these cells.
InBounds(a, b, tl, tu, ll, lu, rl, ru) ==
    /\ ll * b < a * tu /\ ll * b < a * (ll + ru)
    /\ tl > ru => (tl - ru) * b < a * tl
    /\ a * tu < Greater(tu - rl, 0) * b /\ a * (rl + lu) < lu * b
    /\ tl > 0 => a * tl < lu * b

\* What the cells leave open of an allocation at the ratio a / b, c being b - a.
Crossed(a, b, c, tl, tu, ll, lu, rl, ru) ==
    /\ (a * tl) * b < (a * tu) * b /\ (a * tl) * 1 < lu * b /\ (a * tl) * c < (a * ru) * b
    /\ ll * b < (a * tu) * 1 /\ ll * 1 < lu * 1 /\ ll * c < (a * ru) * 1
    /\ (a * rl) * b < (a * tu) * c /\ (a * rl) * 1 < lu * c /\ (a * rl) * c < (a * ru) * c

\* The crossings of the two triples, as whole numbers: the ratio is a / (a + c).
LEMMA Crossings ==
    ASSUME NEW a \in Nat \ {0}, NEW c \in Nat \ {0}, NEW b \in Nat \ {0}, b = a + c,
           NEW tl \in Nat, NEW tu \in Nat \ {0}, NEW ll \in Nat, NEW lu \in Nat \ {0},
           NEW rl \in Nat, NEW ru \in Nat \ {0}, tl < tu, ll < lu, rl < ru,
           InBounds(a, b, tl, tu, ll, lu, rl, ru)
    PROVE  Crossed(a, b, c, tl, tu, ll, lu, rl, ru)
<1>1. /\ ll * b < a * tu /\ ll * b < a * (ll + ru)
      /\ tl > ru => (tl - ru) * b < a * tl
      /\ a * tu < Greater(tu - rl, 0) * b /\ a * (rl + lu) < lu * b
      /\ tl > 0 => a * tl < lu * b
  BY DEF InBounds
<1>2. (a * tl) * b < (a * tu) * b
  <2>1. tl * a < tu * a /\ tl * a = a * tl /\ tu * a = a * tu
    BY Cancel
  <2>2. PICK x \in Int, y \in Int : x = a * tl /\ y = a * tu
    OBVIOUS
  <2>3. x * b < y * b
    BY <2>1, <2>2, Cancel
  <2> QED
    BY <2>2, <2>3
<1>3. (a * tl) * 1 < lu * b
  <2>1. lu * b \in Nat \ {0}
    BY ProductType
  <2>2. CASE tl = 0
    BY <2>1, <2>2
  <2>3. CASE tl > 0
    BY <1>1, <2>3
  <2> QED
    BY <2>2, <2>3
<1>4. (a * tl) * c < (a * ru) * b
  <2>1. tl * c < ru * b
    <3>1. PICK rb \in Nat \ {0}, tc \in Nat, ta \in Nat : rb = ru * b /\ tc = tl * c /\ ta = a * tl
      BY ProductType
    <3>2. tl * b = tc + ta
      BY <3>1
    <3>3. CASE tl > ru
      <4>1. (tl - ru) * b = tl * b - ru * b
        OBVIOUS
      <4> QED
        BY <1>1, <3>1, <3>2, <3>3, <4>1
    <3>4. CASE tl <= ru /\ tl # 0
      <4>1. ta \in Nat \ {0}
        BY <3>1, <3>4, ProductType
      <4>2. tl < ru \/ tl = ru
        BY <3>4
      <4>3. tl * b <= ru * b
        BY <4>2, Cancel
      <4> QED
        BY <3>1, <3>2, <4>1, <4>3
    <3>5. CASE tl = 0
      BY <3>1, <3>5
    <3> QED
      BY <3>3, <3>4, <3>5
  <2>2. PICK x \in Int, y \in Int : x = tl * c /\ y = ru * b
    OBVIOUS
  <2>3. x * a < y * a
    BY <2>1, <2>2, Cancel
  <2>4. (tl * c) * a = (a * tl) * c /\ (ru * b) * a = (a * ru) * b
    OBVIOUS
  <2> QED
    BY <2>2, <2>3, <2>4
<1>5. ll * b < (a * tu) * 1 /\ ll * 1 < lu * 1
  BY <1>1
<1>6. ll * c < (a * ru) * 1
  <2>1. PICK x \in Int, y \in Int, z \in Int : x = ll * c /\ y = ll * a /\ z = a * ru
    OBVIOUS
  <2>2. ll * b = x + y /\ a * (ll + ru) = y + z
    BY <2>1
  <2> QED
    BY <1>1, <2>1, <2>2
<1>7. (a * rl) * b < (a * tu) * c
  <2>1. rl * b < tu * c
    <3>1. PICK x \in Int, y \in Int, z \in Int : x = rl * b /\ y = tu * c /\ z = a * tu
      OBVIOUS
    <3>2. tu * b = y + z
      BY <3>1
    <3>3. CASE tu - rl >= 0
      <4>1. Greater(tu - rl, 0) = tu - rl
        BY <3>3 DEF Greater
      <4>2. (tu - rl) * b = tu * b - rl * b
        OBVIOUS
      <4> QED
        BY <1>1, <3>1, <3>2, <4>1, <4>2
    <3>4. CASE tu - rl < 0
      <4>1. Greater(tu - rl, 0) = 0 /\ 0 * b = 0
        BY <3>4 DEF Greater
      <4>2. a * tu \in Nat \ {0}
        BY ProductType
      <4> QED
        BY <1>1, <4>1, <4>2
    <3> QED
      BY <3>3, <3>4
  <2>2. PICK x \in Int, y \in Int : x = rl * b /\ y = tu * c
    OBVIOUS
  <2>3. x * a < y * a
    BY <2>1, <2>2, Cancel
  <2>4. (rl * b) * a = (a * rl) * b /\ (tu * c) * a = (a * tu) * c
    OBVIOUS
  <2> QED
    BY <2>2, <2>3, <2>4
<1>8. (a * rl) * 1 < lu * c
  <2>1. PICK x \in Int, y \in Int, z \in Int : x = a * rl /\ y = a * lu /\ z = lu * c
    OBVIOUS
  <2>2. a * (rl + lu) = x + y /\ lu * b = y + z
    BY <2>1
  <2> QED
    BY <1>1, <2>1, <2>2
<1>9. (a * rl) * c < (a * ru) * c
  <2>1. rl * a < ru * a /\ rl * a = a * rl /\ ru * a = a * ru
    BY Cancel
  <2>2. PICK x \in Int, y \in Int : x = a * rl /\ y = a * ru
    OBVIOUS
  <2>3. x * c < y * c
    BY <2>1, <2>2, Cancel
  <2> QED
    BY <2>2, <2>3
<1> QED
  BY <1>2, <1>3, <1>4, <1>5, <1>6, <1>7, <1>8, <1>9 DEF Crossed

LEMMA RatioCompares ==
    ASSUME NEW n \in Nat, NEW d \in Nat \ {0}, NEW ratio \in Fraction
    PROVE  /\ Ratio(n, d) \in Fraction
           /\ Less(Ratio(n, d), ratio) <=> n * ratio[2] < ratio[1] * d
           /\ Less(ratio, Ratio(n, d)) <=> ratio[1] * d < n * ratio[2]
<1>1. PICK q : q = Ratio(n, d)
  OBVIOUS
<1>2. Is(q, n, d)
  BY <1>1, RatioIs
<1>3. Is(ratio, ratio[1], ratio[2]) /\ ratio[1] \in Nat /\ ratio[2] \in Nat \ {0}
  BY IsItself
<1>4. Less(q, ratio) <=> n * ratio[2] < ratio[1] * d
  BY <1>2, <1>3, LessIs
<1>5. Less(ratio, q) <=> ratio[1] * d < n * ratio[2]
  BY <1>2, <1>3, LessIs
<1>6. q \in Fraction
  BY <1>2 DEF Is
<1> QED
  BY <1>1, <1>4, <1>5, <1>6

LEMMA FewAreFinite ==
    ASSUME NEW x, NEW y, NEW z
    PROVE  IsFiniteSet({}) /\ IsFiniteSet({x}) /\ IsFiniteSet({x, y}) /\ IsFiniteSet({x, y, z})
<1>1. IsFiniteSet({}) /\ IsFiniteSet({x})
  BY FS_EmptySet, FS_Singleton
<1>2. {x, y} = {x} \cup {y} /\ {x, y, z} = {x, y} \cup {z}
  OBVIOUS
<1>3. IsFiniteSet({x} \cup {y})
  BY <1>1, FS_AddElement
<1>4. IsFiniteSet({x, y} \cup {z})
  BY <1>2, <1>3, FS_AddElement
<1> QED
  BY <1>1, <1>2, <1>3, <1>4

\* The bounds of a row are fractions, and finitely many.
LEMMA BoundsType ==
    ASSUME NEW r, r.total \in Cell, r.local \in Cell, r.residual \in Cell
    PROVE  /\ LowerBounds(r) \subseteq Fraction /\ IsFiniteSet(LowerBounds(r))
           /\ UpperBounds(r) \subseteq Fraction /\ IsFiniteSet(UpperBounds(r))
<1>1. PICK tl \in Nat, tu \in Nat \ {0}, ll \in Nat, lu \in Nat \ {0}, rl \in Nat, ru \in Nat \ {0} :
         /\ tl = r.total.lower /\ tu = r.total.upper /\ ll = r.local.lower /\ lu = r.local.upper
         /\ rl = r.residual.lower /\ ru = r.residual.upper
  BY DEF Cell
<1>2. Ratio(ll, tu) \in Fraction /\ Ratio(ll, ll + ru) \in Fraction /\ Ratio(lu, rl + lu) \in Fraction
  <2>1. ll + ru \in Nat \ {0} /\ rl + lu \in Nat \ {0}
    OBVIOUS
  <2> QED
    BY <2>1, RatioIs DEF Is
<1>3. tl > ru => Ratio(tl - ru, tl) \in Fraction
  <2>1. tl > ru => tl - ru \in Nat /\ tl \in Nat \ {0}
    OBVIOUS
  <2> QED
    BY <2>1, RatioIs DEF Is
<1>4. Ratio(Greater(tu - rl, 0), tu) \in Fraction
  <2>1. Greater(tu - rl, 0) \in Nat
    BY DEF Greater
  <2> QED
    BY <2>1, RatioIs DEF Is
<1>5. tl > 0 => Ratio(lu, tl) \in Fraction
  <2>1. tl > 0 => tl \in Nat \ {0}
    OBVIOUS
  <2> QED
    BY <2>1, RatioIs DEF Is
<1>6. LowerBounds(r) = {Ratio(ll, tu), Ratio(ll, ll + ru)}
                          \cup (IF tl > ru THEN {Ratio(tl - ru, tl)} ELSE {})
  BY <1>1 DEF LowerBounds
<1>7. UpperBounds(r) = {Ratio(Greater(tu - rl, 0), tu), Ratio(lu, rl + lu)}
                          \cup (IF tl > 0 THEN {Ratio(lu, tl)} ELSE {})
  BY <1>1 DEF UpperBounds
<1>8. PICK L, U : L = {Ratio(ll, tu), Ratio(ll, ll + ru)} /\ U = {Ratio(Greater(tu - rl, 0), tu), Ratio(lu, rl + lu)}
  OBVIOUS
<1>9. PICK M, V : M = (IF tl > ru THEN {Ratio(tl - ru, tl)} ELSE {}) /\ V = (IF tl > 0 THEN {Ratio(lu, tl)} ELSE {})
  OBVIOUS
<1>10. IsFiniteSet(L) /\ IsFiniteSet(U)
  BY <1>8, FewAreFinite
<1>11. IsFiniteSet(M) /\ IsFiniteSet(V)
  BY <1>9, FewAreFinite
<1>12. IsFiniteSet(L \cup M) /\ IsFiniteSet(U \cup V)
  BY <1>10, <1>11, FS_Union
<1>13. L \subseteq Fraction /\ M \subseteq Fraction
  BY <1>2, <1>3, <1>8, <1>9
<1>14. U \subseteq Fraction /\ V \subseteq Fraction
  BY <1>2, <1>4, <1>5, <1>8, <1>9
<1>15. LowerBounds(r) = L \cup M /\ UpperBounds(r) = U \cup V
  BY <1>6, <1>7, <1>8, <1>9
<1> QED
  BY <1>12, <1>13, <1>14, <1>15

\* What a ratio between the bounds says of the row, as whole numbers.
LEMMA BetweenBounds ==
    ASSUME NEW r, r.total \in Cell, r.local \in Cell, r.residual \in Cell,
           NEW ratio \in Fraction,
           NEW a \in Nat, NEW b \in Nat \ {0}, a = ratio[1], b = ratio[2],
           NEW tl \in Nat, NEW tu \in Nat \ {0}, NEW ll \in Nat, NEW lu \in Nat \ {0},
           NEW rl \in Nat, NEW ru \in Nat \ {0},
           tl = r.total.lower, tu = r.total.upper, ll = r.local.lower, lu = r.local.upper,
           rl = r.residual.lower, ru = r.residual.upper
    PROVE  InBounds(a, b, tl, tu, ll, lu, rl, ru)
             <=> /\ \A l \in LowerBounds(r) : Less(l, ratio)
                 /\ \A u \in UpperBounds(r) : Less(ratio, u)
<1>1. LowerBounds(r) = {Ratio(ll, tu), Ratio(ll, ll + ru)}
                          \cup (IF tl > ru THEN {Ratio(tl - ru, tl)} ELSE {})
  BY DEF LowerBounds
<1>2. UpperBounds(r) = {Ratio(Greater(tu - rl, 0), tu), Ratio(lu, rl + lu)}
                          \cup (IF tl > 0 THEN {Ratio(lu, tl)} ELSE {})
  BY DEF UpperBounds
<1>3. Less(Ratio(ll, tu), ratio) <=> ll * b < a * tu
  BY RatioCompares
<1>4. Less(Ratio(ll, ll + ru), ratio) <=> ll * b < a * (ll + ru)
  <2>1. ll + ru \in Nat \ {0}
    OBVIOUS
  <2> QED
    BY <2>1, RatioCompares
<1>5. ASSUME tl > ru
      PROVE  Less(Ratio(tl - ru, tl), ratio) <=> (tl - ru) * b < a * tl
  <2>1. tl - ru \in Nat /\ tl \in Nat \ {0}
    BY <1>5
  <2> QED
    BY <2>1, RatioCompares
<1>6. Less(ratio, Ratio(Greater(tu - rl, 0), tu)) <=> a * tu < Greater(tu - rl, 0) * b
  <2>1. Greater(tu - rl, 0) \in Nat
    BY DEF Greater
  <2> QED
    BY <2>1, RatioCompares
<1>7. Less(ratio, Ratio(lu, rl + lu)) <=> a * (rl + lu) < lu * b
  <2>1. rl + lu \in Nat \ {0}
    OBVIOUS
  <2> QED
    BY <2>1, RatioCompares
<1>8. ASSUME tl > 0
      PROVE  Less(ratio, Ratio(lu, tl)) <=> a * tl < lu * b
  <2>1. tl \in Nat \ {0}
    BY <1>8
  <2> QED
    BY <2>1, RatioCompares
<1>9. (\A l \in LowerBounds(r) : Less(l, ratio))
         <=> /\ Less(Ratio(ll, tu), ratio) /\ Less(Ratio(ll, ll + ru), ratio)
             /\ tl > ru => Less(Ratio(tl - ru, tl), ratio)
  BY <1>1
<1>10. (\A u \in UpperBounds(r) : Less(ratio, u))
         <=> /\ Less(ratio, Ratio(Greater(tu - rl, 0), tu)) /\ Less(ratio, Ratio(lu, rl + lu))
             /\ tl > 0 => Less(ratio, Ratio(lu, tl))
  BY <1>2
<1>11. (\A l \in LowerBounds(r) : Less(l, ratio))
         <=> /\ ll * b < a * tu /\ ll * b < a * (ll + ru)
             /\ tl > ru => (tl - ru) * b < a * tl
  BY <1>3, <1>4, <1>5, <1>9
<1>12. (\A u \in UpperBounds(r) : Less(ratio, u))
         <=> /\ a * tu < Greater(tu - rl, 0) * b /\ a * (rl + lu) < lu * b
             /\ tl > 0 => a * tl < lu * b
  BY <1>6, <1>7, <1>8, <1>10
<1> QED
  BY <1>11, <1>12 DEF InBounds

\* A ratio between the bounds of a point leaves room for an allocation.
LEMMA RoomAtRatio ==
    ASSUME source \in [Points -> [Channels -> Nat]], NEW p \in Points, NEW ratio \in Fraction,
           Less(<<0, 1>>, ratio), Less(ratio, <<1, 1>>),
           \A l \in LowerBounds(Row(p)) : Less(l, ratio),
           \A u \in UpperBounds(Row(p)) : Less(ratio, u)
    PROVE  Less(AtLeast(ratio, p), AtMost(ratio, p))
<1>1. Row(p).total \in Cell /\ Row(p).local \in Cell /\ Row(p).residual \in Cell
  BY RowType
<1>2. PICK tl \in Nat, tu \in Nat \ {0}, ll \in Nat, lu \in Nat \ {0}, rl \in Nat, ru \in Nat \ {0} :
         /\ tl = Row(p).total.lower /\ tu = Row(p).total.upper
         /\ ll = Row(p).local.lower /\ lu = Row(p).local.upper
         /\ rl = Row(p).residual.lower /\ ru = Row(p).residual.upper
         /\ tl < tu /\ ll < lu /\ rl < ru
  BY <1>1 DEF Cell
<1>3. PICK a \in Nat, b \in Nat \ {0} : a = ratio[1] /\ b = ratio[2]
  BY IsItself
<1>4. 0 < a /\ a < b
  BY <1>3 DEF Less
<1>5. PICK c \in Nat \ {0} : c = b - a
  BY <1>4
<1>6. InBounds(a, b, tl, tu, ll, lu, rl, ru)
  BY <1>1, <1>2, <1>3, BetweenBounds
<1>7. Crossed(a, b, c, tl, tu, ll, lu, rl, ru)
  <2>1. a \in Nat \ {0} /\ b = a + c
    BY <1>4, <1>5
  <2>2. tl < tu /\ ll < lu /\ rl < ru
    BY <1>2
  <2> QED
    BY <1>6, <2>1, <2>2, Crossings
<1>8. ASSUME NEW x \in Nat
      PROVE  /\ Is(Times(ratio, x), a * x, b)
             /\ Is(<<x, 1>>, x, 1)
             /\ Is(Times(Ratio(a, c), x), a * x, c)
  <2>1. a * x \in Nat
    BY ProductType
  <2>2. Is(Times(ratio, x), a * x, b)
    BY <1>3, <2>1, RatioIs DEF Times
  <2>3. Is(<<x, 1>>, x, 1)
    BY DEF Is, Fraction
  <2>4. PICK q : q = Ratio(a, c)
    OBVIOUS
  <2>5. Is(q, a, c) /\ q[2] \in Nat
    BY <2>4, RatioIs DEF Is, Fraction
  <2>6. Is(Ratio(q[1] * x, q[2] * 1), a * x, c * 1)
    BY <2>5, MultiplyIs
  <2>7. q[2] * 1 = q[2] /\ c * 1 = c
    BY <2>5
  <2>8. Is(Ratio(q[1] * x, q[2]), a * x, c)
    BY <2>6, <2>7
  <2> QED
    BY <2>2, <2>3, <2>4, <2>8 DEF Times
<1>9. PICK l1, l2, l3, u1, u2, u3 :
         /\ l1 = Times(ratio, tl) /\ l2 = <<ll, 1>> /\ l3 = Times(Ratio(a, c), rl)
         /\ u1 = Times(ratio, tu) /\ u2 = <<lu, 1>> /\ u3 = Times(Ratio(a, c), ru)
  OBVIOUS
<1>10. /\ Is(l1, a * tl, b) /\ Is(l2, ll, 1) /\ Is(l3, a * rl, c)
       /\ Is(u1, a * tu, b) /\ Is(u2, lu, 1) /\ Is(u3, a * ru, c)
  BY <1>8, <1>9
<1>11. a * tl \in Nat /\ a * rl \in Nat /\ a * tu \in Nat /\ a * ru \in Nat
  BY ProductType
<1>12. PICK s1 \in Nat, s3 \in Nat, t1 \in Nat, t3 \in Nat : s1 = a * tl /\ s3 = a * rl /\ t1 = a * tu /\ t3 = a * ru
  BY <1>11
<1>13. 1 \in Nat \ {0} /\ ll \in Nat /\ lu \in Nat
  OBVIOUS
<1>14. /\ Is(l1, s1, b) /\ Is(l2, ll, 1) /\ Is(l3, s3, c)
       /\ Is(u1, t1, b) /\ Is(u2, lu, 1) /\ Is(u3, t3, c)
  BY <1>10, <1>12
<1>15. /\ s1 * b < t1 * b /\ s1 * 1 < lu * b /\ s1 * c < t3 * b
       /\ ll * b < t1 * 1 /\ ll * 1 < lu * 1 /\ ll * c < t3 * 1
       /\ s3 * b < t1 * c /\ s3 * 1 < lu * c /\ s3 * c < t3 * c
  BY <1>7, <1>12 DEF Crossed
<1>16. Less(l1, u1) /\ Less(l1, u2) /\ Less(l1, u3)
  <2>1. Less(l1, u1)
    BY <1>13, <1>14, <1>15, LessIs
  <2>2. Less(l1, u2)
    BY <1>13, <1>14, <1>15, LessIs
  <2>3. Less(l1, u3)
    BY <1>13, <1>14, <1>15, LessIs
  <2> QED
    BY <2>1, <2>2, <2>3
<1>17. Less(l2, u1) /\ Less(l2, u2) /\ Less(l2, u3)
  <2>1. Less(l2, u1)
    BY <1>13, <1>14, <1>15, LessIs
  <2>2. Less(l2, u2)
    BY <1>13, <1>14, <1>15, LessIs
  <2>3. Less(l2, u3)
    BY <1>13, <1>14, <1>15, LessIs
  <2> QED
    BY <2>1, <2>2, <2>3
<1>18. Less(l3, u1) /\ Less(l3, u2) /\ Less(l3, u3)
  <2>1. Less(l3, u1)
    BY <1>13, <1>14, <1>15, LessIs
  <2>2. Less(l3, u2)
    BY <1>13, <1>14, <1>15, LessIs
  <2>3. Less(l3, u3)
    BY <1>13, <1>14, <1>15, LessIs
  <2> QED
    BY <2>1, <2>2, <2>3
<1>19. AllocatedAt(ratio, p, "lower") = {l1, l2, l3}
  BY <1>2, <1>3, <1>5, <1>9 DEF AllocatedAt
<1>20. AllocatedAt(ratio, p, "upper") = {u1, u2, u3}
  BY <1>2, <1>3, <1>5, <1>9 DEF AllocatedAt
<1>21. IsFiniteSet({l1, l2, l3}) /\ IsFiniteSet({u1, u2, u3})
  BY FewAreFinite
<1>22. {l1, l2, l3} \subseteq Fraction /\ {u1, u2, u3} \subseteq Fraction
  BY <1>10 DEF Is
<1>23. \A x \in {l1, l2, l3}, y \in {u1, u2, u3} : Less(x, y)
  BY <1>16, <1>17, <1>18
<1>24. PICK L, U : L = {l1, l2, l3} /\ U = {u1, u2, u3}
  OBVIOUS
<1>25. IsFiniteSet(L) /\ IsFiniteSet(U) /\ L # {} /\ U # {} /\ L \subseteq Fraction /\ U \subseteq Fraction
       /\ \A x \in L, y \in U : Less(x, y)
  BY <1>21, <1>22, <1>23, <1>24
<1>26. Less(Greatest(L), Least(U))
  BY <1>25, GreatestBelowLeast
<1> QED
  BY <1>19, <1>20, <1>24, <1>26 DEF AtLeast, AtMost

-----------------------------------------------------------------------------
(* A certificate.                                                          *)

LEMMA UnionFinite ==
    ASSUME NEW S, IsFiniteSet(S), NEW f, \A x \in S : IsFiniteSet(f[x])
    PROVE  IsFiniteSet(UNION {f[x] : x \in S})
<1>1. IsFiniteSet({f[x] : x \in S})
  <2> DEFINE h == [x \in S |-> f[x]]
  <2>1. h \in Surjection(S, {f[x] : x \in S})
    BY DEF Surjection
  <2> HIDE DEF h
  <2> QED
    BY <2>1, FS_Surjection
<1>2. \A T \in {f[x] : x \in S} : IsFiniteSet(T)
  OBVIOUS
<1> QED
  BY <1>1, <1>2, FS_UNION

LEMMA PointsFinite ==
    ASSUME NEW points \in SUBSET Points
    PROVE  IsFiniteSet(points)
<1>1. IsFiniteSet(Consumers) /\ IsFiniteSet(Producers)
  BY AuditAssumption
<1>2. IsFiniteSet(Consumers \cup Producers)
  BY <1>1, FS_Union
<1>3. points \subseteq Consumers \cup Producers
  BY DEF Points
<1> QED
  BY <1>2, <1>3, FS_Subset

\* The bounds of the ratio of some points are fractions, and no weaker than any point's.
LEMMA RatioBounds ==
    ASSUME source \in [Points -> [Channels -> Nat]], NEW points \in SUBSET Points,
           NEW bounds, bounds = _ratio_bounds(points)
    PROVE  /\ bounds \in [lower : Fraction, upper : Fraction]
           /\ ~Less(bounds.lower, <<0, 1>>) /\ ~Less(<<1, 1>>, bounds.upper)
           /\ \A p \in points : /\ \A l \in LowerBounds(Row(p)) : l \in Fraction /\ ~Less(bounds.lower, l)
                                /\ \A u \in UpperBounds(Row(p)) : u \in Fraction /\ ~Less(u, bounds.upper)
           /\ \A r \in Fraction :
                 /\ Less(<<0, 1>>, r) /\ (\A p \in points : \A l \in LowerBounds(Row(p)) : Less(l, r))
                      => Less(bounds.lower, r)
                 /\ Less(r, <<1, 1>>) /\ (\A p \in points : \A u \in UpperBounds(Row(p)) : Less(r, u))
                      => Less(r, bounds.upper)
<1>1. \A p \in points : /\ LowerBounds(Row(p)) \subseteq Fraction /\ IsFiniteSet(LowerBounds(Row(p)))
                        /\ UpperBounds(Row(p)) \subseteq Fraction /\ IsFiniteSet(UpperBounds(Row(p)))
  BY RowType, BoundsType
<1>2. IsFiniteSet(points)
  BY PointsFinite
<1>3. PICK f, g : f = [p \in points |-> LowerBounds(Row(p))] /\ g = [p \in points |-> UpperBounds(Row(p))]
  OBVIOUS
<1>4. \A p \in points : f[p] = LowerBounds(Row(p)) /\ g[p] = UpperBounds(Row(p))
  BY <1>3
<1>5. PICK L, U : L = UNION {f[p] : p \in points} /\ U = UNION {g[p] : p \in points}
  OBVIOUS
<1>6. IsFiniteSet(L) /\ IsFiniteSet(U)
  <2>1. \A p \in points : IsFiniteSet(f[p]) /\ IsFiniteSet(g[p])
    BY <1>1, <1>4
  <2>2. IsFiniteSet(UNION {f[p] : p \in points})
    BY <1>2, <2>1, UnionFinite
  <2>3. IsFiniteSet(UNION {g[p] : p \in points})
    BY <1>2, <2>1, UnionFinite
  <2> QED
    BY <1>5, <2>2, <2>3
<1>7. L = UNION {LowerBounds(Row(p)) : p \in points} /\ U = UNION {UpperBounds(Row(p)) : p \in points}
  BY <1>4, <1>5
<1>8. L \subseteq Fraction /\ U \subseteq Fraction
  BY <1>1, <1>7
<1>9. PICK zero \in Fraction, one \in Fraction : zero = <<0, 1>> /\ one = <<1, 1>>
  <2>1. <<0, 1>> \in Fraction /\ <<1, 1>> \in Fraction
    BY DEF Fraction
  <2> QED
    BY <2>1
<1>10. IsFiniteSet({zero} \cup L) /\ IsFiniteSet({one} \cup U)
  <2>1. IsFiniteSet({zero}) /\ IsFiniteSet({one})
    BY FS_Singleton
  <2> QED
    BY <1>6, <2>1, FS_Union
<1>11. PICK S, T : S = {zero} \cup L /\ T = {one} \cup U
  OBVIOUS
<1>12. IsFiniteSet(S) /\ IsFiniteSet(T) /\ S # {} /\ T # {} /\ S \subseteq Fraction /\ T \subseteq Fraction
  BY <1>8, <1>10, <1>11
<1>13. Greatest(S) \in S /\ \A b \in S : ~Less(Greatest(S), b)
  BY <1>12, GreatestIs
<1>14. Least(T) \in T /\ \A b \in T : ~Less(b, Least(T))
  BY <1>12, LeastIs
<1>15. bounds = [lower |-> Greatest(S), upper |-> Least(T)]
  BY <1>7, <1>9, <1>11 DEF _ratio_bounds
<1>16. bounds \in [lower : Fraction, upper : Fraction]
  BY <1>12, <1>13, <1>14, <1>15
<1>17. \A p \in points : /\ \A l \in LowerBounds(Row(p)) : l \in S
                         /\ \A u \in UpperBounds(Row(p)) : u \in T
  BY <1>7, <1>11
<1>18. zero \in S /\ one \in T
  BY <1>11
<1>19. ASSUME NEW r \in Fraction
       PROVE  /\ Less(zero, r) /\ (\A p \in points : \A l \in LowerBounds(Row(p)) : Less(l, r))
                      => Less(bounds.lower, r)
              /\ Less(r, one) /\ (\A p \in points : \A u \in UpperBounds(Row(p)) : Less(r, u))
                      => Less(r, bounds.upper)
  <2>1. \A b \in S : b = zero \/ \E p \in points : b \in LowerBounds(Row(p))
    BY <1>7, <1>11
  <2>2. \A b \in T : b = one \/ \E p \in points : b \in UpperBounds(Row(p))
    BY <1>7, <1>11
  <2>3. bounds.lower \in S /\ bounds.upper \in T
    BY <1>13, <1>14, <1>15
  <2> QED
    BY <2>1, <2>2, <2>3
<1>20. bounds.lower = Greatest(S) /\ bounds.upper = Least(T)
  BY <1>15
<1>21. ~Less(bounds.lower, zero) /\ ~Less(one, bounds.upper)
  BY <1>13, <1>14, <1>18, <1>20
<1>22. \A p \in points : /\ \A l \in LowerBounds(Row(p)) : l \in Fraction /\ ~Less(bounds.lower, l)
                         /\ \A u \in UpperBounds(Row(p)) : u \in Fraction /\ ~Less(u, bounds.upper)
  BY <1>12, <1>13, <1>14, <1>17, <1>20
<1> QED
  BY <1>9, <1>16, <1>19, <1>21, <1>22

\* A ratio that certifies what the points of a side got.
Certifies(ratio, side) ==
    /\ UsedUp(Other(side))
    /\ \A p \in side : Less(AtLeast(ratio, p), AtMost(ratio, p))
    /\ ~TooMuch(ratio, side, _fully_used(Other(side)))
    /\ ~TooLittle(ratio, side, _fully_used(Other(side)))

LEMMA PartialCertifies ==
    ASSUME source \in [Points -> [Channels -> Nat]], NEW side \in {Producers, Consumers},
           NEW w, w = _partial_allocation(side, Other(side))
    PROVE  \/ w = NoWitness
           \/ w = Unresolved
           \/ \E ratio : w = Resolved(ratio) /\ Certifies(ratio, Other(side))
<1>1. SUFFICES ASSUME w # NoWitness, w # Unresolved
               PROVE  \E ratio : w = Resolved(ratio) /\ Certifies(ratio, Other(side))
  OBVIOUS
<1>2. PICK partly, bounds : partly = Other(side) /\ bounds = _ratio_bounds(partly)
  OBVIOUS
<1>3. /\ UsedUp(side) /\ partly # {} /\ Ratios(bounds)
      /\ w = Bisected(partly, _fully_used(side), bounds)
  BY <1>1, <1>2 DEF _partial_allocation
<1>4. partly \in SUBSET Points /\ partly \in {Producers, Consumers}
  BY <1>2 DEF Other, Points
<1>5. Other(partly) = side
  <2>1. partly = IF side = Consumers THEN Producers ELSE Consumers
    BY <1>2 DEF Other
  <2>2. Consumers \cap Producers = {}
    BY AuditAssumption
  <2>3. Other(partly) = IF partly = Consumers THEN Producers ELSE Consumers
    BY DEF Other
  <2> QED
    BY <1>3, <2>1, <2>2, <2>3
<1>6. /\ bounds \in [lower : Fraction, upper : Fraction]
      /\ ~Less(bounds.lower, <<0, 1>>) /\ ~Less(<<1, 1>>, bounds.upper)
      /\ \A p \in partly : /\ \A l \in LowerBounds(Row(p)) : l \in Fraction /\ ~Less(bounds.lower, l)
                           /\ \A u \in UpperBounds(Row(p)) : u \in Fraction /\ ~Less(u, bounds.upper)
  BY <1>2, <1>4, RatioBounds
<1>7. Less(bounds.lower, bounds.upper)
  BY <1>3 DEF Ratios
<1>8. Found(w, bounds, partly, _fully_used(side))
  BY <1>3, <1>6, <1>7, BisectedFinds
<1>9. PICK ratio \in Fraction :
         /\ w = Resolved(ratio) /\ Less(bounds.lower, ratio) /\ Less(ratio, bounds.upper)
         /\ ~TooMuch(ratio, partly, _fully_used(side)) /\ ~TooLittle(ratio, partly, _fully_used(side))
  BY <1>1, <1>8 DEF Found
<1>10. PICK lo \in Fraction, up \in Fraction, zero \in Fraction, one \in Fraction :
          lo = bounds.lower /\ up = bounds.upper /\ zero = <<0, 1>> /\ one = <<1, 1>>
  BY <1>6 DEF Fraction
<1>11. Less(zero, ratio) /\ Less(ratio, one)
  BY <1>6, <1>9, <1>10, LessOrder
<1>12. \A p \in partly : /\ \A l \in LowerBounds(Row(p)) : Less(l, ratio)
                         /\ \A u \in UpperBounds(Row(p)) : Less(ratio, u)
  BY <1>6, <1>9, <1>10, LessOrder
<1>13. \A p \in partly : Less(AtLeast(ratio, p), AtMost(ratio, p))
  <2> SUFFICES ASSUME NEW p \in partly
               PROVE  Less(AtLeast(ratio, p), AtMost(ratio, p))
    OBVIOUS
  <2>1. p \in Points
    BY <1>4
  <2>2. Less(<<0, 1>>, ratio) /\ Less(ratio, <<1, 1>>)
    BY <1>10, <1>11
  <2> QED
    BY <1>12, <2>1, <2>2, RoomAtRatio
<1>14. Certifies(ratio, partly)
  BY <1>3, <1>5, <1>9, <1>13 DEF Certifies
<1> QED
  BY <1>2, <1>9, <1>14

\* The witness of an interval.
LEMMA WitnessIsOne ==
    ASSUME source \in [Points -> [Channels -> Nat]], NEW w, w = _interval_witness
    PROVE  \/ w = Resolved(<<0, 1>>)
           \/ w = Resolved(<<1, 1>>)
           \/ \E side \in {Consumers, Producers} : \E ratio : w = Resolved(ratio) /\ Certifies(ratio, side)
           \/ w = Unresolved
           \/ w = [outcome |-> "allocation_disagreement"]
<1>1. PICK partial : partial = {_partial_allocation(side, Other(side)) : side \in {Producers, Consumers}}
  OBVIOUS
<1>2. \A side \in {Producers, Consumers} : Other(side) \in {Consumers, Producers}
  BY DEF Other
<1>3. \A x \in partial : \/ x = NoWitness
                         \/ x = Unresolved
                         \/ \E side \in {Consumers, Producers} : \E ratio : x = Resolved(ratio) /\ Certifies(ratio, side)
  BY <1>1, <1>2, PartialCertifies
<1>4. w = Resolved(<<0, 1>>) \/ w = Resolved(<<1, 1>>) \/ w = Witnessed(partial)
  BY <1>1 DEF _interval_witness
<1>5. ASSUME w = Witnessed(partial), NEW x \in partial, x.outcome = "certified"
      PROVE  w \in partial /\ w.outcome = "certified"
  <2>1. w = CHOOSE y \in partial : y.outcome = "certified"
    BY <1>5 DEF Witnessed
  <2> QED
    BY <1>5, <2>1
<1>6. w = Witnessed(partial) /\ (\A x \in partial : x.outcome # "certified")
         => w = Unresolved \/ w = [outcome |-> "allocation_disagreement"]
  BY DEF Witnessed
<1>7. NoWitness.outcome # "certified" /\ Unresolved.outcome # "certified"
  BY DEF NoWitness, Unresolved
<1> QED
  BY <1>3, <1>4, <1>5, <1>6, <1>7

-----------------------------------------------------------------------------
(* What the operator rounds lies in the cells.                             *)

\* A channel's value lies in the cell of what is reported of it.
LEMMA RoundsIntoCell ==
    ASSUME NEW x, NEW n \in Nat, NEW d \in Nat \ {0}, Is(x, n, d),
           NEW v, v = RoundHalfUp(x)
    PROVE  /\ v \in Nat
           /\ _cell(v).lower * d <= n /\ n < _cell(v).upper * d
<1>1. PICK x1 \in Nat, x2 \in Nat \ {0} : x1 = x[1] /\ x2 = x[2] /\ x1 * d = n * x2
  BY DEF Is, Fraction
<1>2. PICK h \in Nat \ {0} : h = Quantum \div 2 /\ Quantum = 2 * h
  BY HalfQuantum
<1>3. PICK xh \in Nat \ {0} : xh = x2 * h
  BY ProductType
<1>4. v = (2 * x1 + 2 * xh) \div (4 * xh)
  <2>1. x2 * Quantum = 2 * xh /\ 2 * x2 * Quantum = 4 * xh
    BY <1>2, <1>3
  <2> QED
    BY <1>1, <2>1 DEF RoundHalfUp
<1>5. PICK k \in Nat \ {0}, m \in Nat : k = 4 * xh /\ m = 2 * x1 + 2 * xh
  OBVIOUS
<1>6. v \in Nat /\ k * v <= m /\ m < k * v + k
  <2>1. m \div k \in Nat /\ m % k \in 0 .. k - 1 /\ m = (k * (m \div k)) + (m % k)
    OBVIOUS
  <2>2. v = m \div k
    BY <1>4, <1>5
  <2>3. PICK kv \in Int, r \in 0 .. k - 1 : kv = k * v /\ r = m % k
    BY <2>1, <2>2
  <2> QED
    BY <2>1, <2>2, <2>3
<1>7. PICK w \in Nat : w = v * xh
  BY <1>6
<1>8. 2 * w <= x1 + xh /\ x1 < 2 * w + xh
  <2>1. k * v = 4 * w
    BY <1>5, <1>6, <1>7
  <2> QED
    BY <1>5, <1>6, <2>1
<1>9. PICK c \in Nat : c = v * h
  BY <1>6
<1>10. _cell(v) = [lower |-> Greater(0, 2 * c - h), upper |-> 2 * c + h]
  <2>1. v * Quantum = 2 * c
    BY <1>2, <1>6, <1>9
  <2> QED
    BY <1>2, <2>1 DEF _cell
<1>11. (2 * c - h) * x2 <= x1 /\ x1 < (2 * c + h) * x2
  <2>1. c * x2 = w
    BY <1>3, <1>6, <1>7, <1>9
  <2>2. (2 * c - h) * x2 = 2 * w - xh /\ (2 * c + h) * x2 = 2 * w + xh
    BY <1>3, <2>1
  <2> QED
    BY <1>8, <2>2
<1>12. PICK l \in Nat, u \in Nat : l = Greater(0, 2 * c - h) /\ u = 2 * c + h
  BY DEF Greater
<1>13. l * x2 <= x1 /\ x1 < u * x2
  BY <1>11, <1>12 DEF Greater
<1>14. l * d <= n /\ n < u * d
  <2>1. (l * x2) * d <= x1 * d
    <3>1. PICK y \in Int : y = l * x2
      OBVIOUS
    <3>2. y < x1 \/ y = x1
      BY <1>13, <3>1
    <3>3. y < x1 => y * d < x1 * d
      BY Cancel
    <3> QED
      BY <3>1, <3>2, <3>3
  <2>2. x1 * d < (u * x2) * d
    <3>1. PICK y \in Int : y = u * x2
      OBVIOUS
    <3>2. x1 * d < y * d
      BY <1>13, <3>1, Cancel
    <3> QED
      BY <3>1, <3>2
  <2>3. PICK ld \in Int, ud \in Int : ld = l * d /\ ud = u * d
    OBVIOUS
  <2>4. (l * x2) * d = ld * x2 /\ (u * x2) * d = ud * x2
    BY <2>3
  <2>5. ~(n * x2 < ld * x2) /\ n * x2 < ud * x2
    <3>1. n * x2 \in Int /\ ld * x2 \in Int /\ ud * x2 \in Int
      OBVIOUS
    <3> QED
      BY <1>1, <2>1, <2>2, <2>4, <3>1
  <2>6. ~(n < ld) /\ n < ud
    BY <2>5, Cancel
  <2> QED
    BY <2>3, <2>6
<1> QED
  BY <1>6, <1>10, <1>12, <1>14

\* A number less a fraction of it.
LEMMA MinusIs ==
    ASSUME NEW x, NEW n \in Nat, NEW d \in Nat \ {0}, Is(x, n, d), NEW t \in Nat, n <= t * d
    PROVE  Is(Minus(t, x), t * d - n, d) /\ t * d - n \in Nat
<1>1. PICK x1 \in Nat, x2 \in Nat \ {0} : x1 = x[1] /\ x2 = x[2] /\ x1 * d = n * x2
  BY DEF Is, Fraction
<1>2. PICK tx \in Nat, td \in Nat : tx = t * x2 /\ td = t * d
  BY ProductType
<1>3. (tx - x1) * d = (td - n) * x2
  <2>1. (tx - x1) * d = tx * d - x1 * d /\ (td - n) * x2 = td * x2 - n * x2
    OBVIOUS
  <2>2. tx * d = td * x2
    BY <1>2
  <2> QED
    BY <1>1, <2>1, <2>2
<1>4. td - n \in Nat
  BY <1>2
<1>5. tx - x1 \in Nat
  <2>1. SUFFICES ASSUME tx < x1
                 PROVE  FALSE
    OBVIOUS
  <2>2. (x1 - tx) * d \in Nat \ {0}
    BY <2>1, ProductType
  <2>3. (x1 - tx) * d = -((tx - x1) * d)
    OBVIOUS
  <2>4. (td - n) * x2 \in Nat
    BY <1>4
  <2> QED
    BY <1>3, <2>2, <2>3, <2>4
<1>6. Is(Ratio(tx - x1, x2), tx - x1, x2)
  BY <1>5, RatioIs
<1>7. Is(Ratio(tx - x1, x2), td - n, d)
  BY <1>3, <1>4, <1>5, <1>6, IsSame
<1>8. Minus(t, x) = Ratio(tx - x1, x2)
  BY <1>1, <1>2 DEF Minus
<1> QED
  BY <1>2, <1>4, <1>7, <1>8

\* The channels of a point and what its cells hold.
Holds(r, t, n, d) ==
    /\ r.total \in Cell /\ r.local \in Cell /\ r.residual \in Cell
    /\ r.total.lower <= t /\ t < r.total.upper
    /\ r.local.lower * d <= n /\ n < r.local.upper * d
    /\ r.residual.lower * d <= t * d - n /\ t * d - n < r.residual.upper * d

LEMMA ReportHolds ==
    ASSUME NEW x, NEW n \in Nat, NEW d \in Nat \ {0}, Is(x, n, d), NEW t \in Nat, n <= t * d,
           NEW r, r = [total |-> RoundHalfUp(<<t, 1>>), local |-> RoundHalfUp(x),
                       residual |-> RoundHalfUp(Minus(t, x))],
           NEW c, c = [k \in Channels |-> _cell(r[k])]
    PROVE  r \in [Channels -> Nat] /\ Holds(c, t, n, d)
<1>1. Is(<<t, 1>>, t, 1)
  BY DEF Is, Fraction
<1>2. Is(Minus(t, x), t * d - n, d) /\ t * d - n \in Nat
  BY MinusIs
<1>3. PICK a, b, e : a = RoundHalfUp(<<t, 1>>) /\ b = RoundHalfUp(x) /\ e = RoundHalfUp(Minus(t, x))
  OBVIOUS
<1>4. a \in Nat /\ _cell(a).lower * 1 <= t /\ t < _cell(a).upper * 1
  BY <1>1, <1>3, RoundsIntoCell
<1>5. b \in Nat /\ _cell(b).lower * d <= n /\ n < _cell(b).upper * d
  BY <1>3, RoundsIntoCell
<1>6. PICK m \in Nat : m = t * d - n
  BY <1>2
<1>7. e \in Nat /\ _cell(e).lower * d <= m /\ m < _cell(e).upper * d
  BY <1>2, <1>3, <1>6, RoundsIntoCell
<1>8. r = [total |-> a, local |-> b, residual |-> e]
  BY <1>3
<1>9. r \in [Channels -> Nat]
  BY <1>4, <1>5, <1>7, <1>8 DEF Channels
<1>10. c.total = _cell(a) /\ c.local = _cell(b) /\ c.residual = _cell(e)
  BY <1>8 DEF Channels
<1>11. _cell(a) \in Cell /\ _cell(b) \in Cell /\ _cell(e) \in Cell
  BY <1>4, <1>5, <1>7, CellType
<1>12. _cell(a).lower \in Nat /\ _cell(a).upper \in Nat
  BY <1>11 DEF Cell
<1>13. _cell(a).lower * 1 = _cell(a).lower /\ _cell(a).upper * 1 = _cell(a).upper
  BY <1>12
<1>14. c.total.lower <= t /\ t < c.total.upper
  BY <1>4, <1>10, <1>13
<1> QED
  BY <1>5, <1>6, <1>7, <1>9, <1>10, <1>11, <1>14 DEF Holds

-----------------------------------------------------------------------------
(* The sides of an interval.                                               *)

LEMMA SumAtIs ==
    ASSUME NEW f, NEW S
    PROVE  SumAt(f, S) = Total(f, S)
  BY DEF SumAt, MapThenSumSet, MapThenFoldSet, Total, Adds, First

\* What is less everywhere is less in total.
LEMMA TotalLess ==
    ASSUME NEW S, IsFiniteSet(S), NEW f, NEW g, \A x \in S : f[x] \in Int /\ g[x] \in Int
    PROVE  /\ Total(f, S) \in Int /\ Total(g, S) \in Int
           /\ (\A x \in S : f[x] <= g[x]) => Total(f, S) <= Total(g, S)
           /\ S # {} /\ (\A x \in S : f[x] < g[x]) => Total(f, S) < Total(g, S)
<1>1. Total(f, S) \in Int
  BY TotalType
<1>2. Total(g, S) \in Int
  BY TotalType
<1>3. Cardinality(S) \in Nat /\ (S # {} => Cardinality(S) # 0)
  BY FS_CardinalityType, FS_EmptySet
<1>4. ASSUME \A x \in S : f[x] <= g[x]
      PROVE  Total(f, S) <= Total(g, S)
  <2>1. PICK a \in Int, b \in Int, d \in Int : a = 0 /\ b = 1 /\ d = 0
    OBVIOUS
  <2>2. \A x \in S : a * g[x] <= b * g[x] - b * f[x] + d
    BY <1>4, <2>1
  <2>3. a * Total(g, S) <= b * Total(g, S) - b * Total(f, S) + d * Cardinality(S)
    BY <2>2, TotalBound
  <2>4. 0 * Total(g, S) <= 1 * Total(g, S) - 1 * Total(f, S) + 0 * Cardinality(S)
    BY <2>1, <2>3
  <2>5. 0 * Total(g, S) = 0 /\ 1 * Total(g, S) = Total(g, S) /\ 1 * Total(f, S) = Total(f, S)
        /\ 0 * Cardinality(S) = 0
    BY <1>1, <1>2, <1>3
  <2> QED
    BY <1>1, <1>2, <2>4, <2>5
<1>5. ASSUME S # {}, \A x \in S : f[x] < g[x]
      PROVE  Total(f, S) < Total(g, S)
  <2>1. PICK a \in Int, b \in Int, d \in Int : a = 0 /\ b = 1 /\ d = (-1)
    OBVIOUS
  <2>2. \A x \in S : a * g[x] <= b * g[x] - b * f[x] + d
    BY <1>5, <2>1
  <2>3. a * Total(g, S) <= b * Total(g, S) - b * Total(f, S) + d * Cardinality(S)
    BY <2>2, TotalBound
  <2>4. 0 * Total(g, S) <= 1 * Total(g, S) - 1 * Total(f, S) + (-1) * Cardinality(S)
    BY <2>1, <2>3
  <2>5. 0 * Total(g, S) = 0 /\ 1 * Total(g, S) = Total(g, S) /\ 1 * Total(f, S) = Total(f, S)
        /\ (-1) * Cardinality(S) = -Cardinality(S)
    BY <1>1, <1>2, <1>3
  <2> QED
    BY <1>1, <1>2, <1>3, <1>5, <2>4, <2>5
<1> QED
  BY <1>1, <1>2, <1>4, <1>5

\* No point has more than its side together, and a side that has nothing only such points.
LEMMA SideTotal ==
    ASSUME NEW total \in [Points -> Nat], NEW S \in SUBSET Points
    PROVE  /\ SumAt(total, S) \in Nat
           /\ \A p \in S : total[p] \in Nat /\ total[p] <= SumAt(total, S)
<1>1. IsFiniteSet(S) /\ \A p \in S : total[p] \in Nat
  BY PointsFinite
<1>2. Total(total, S) \in Nat /\ SumAt(total, S) = Total(total, S)
  BY <1>1, TotalNat, SumAtIs
<1>3. ASSUME NEW p \in S
      PROVE  total[p] <= Total(total, S)
  <2>1. IsFiniteSet(S \ {p})
    BY <1>1, FS_Subset
  <2>2. \A q \in S \ {p} : total[q] \in Nat
    BY <1>1
  <2>3. Total(total, S \ {p}) \in Nat
    BY <2>1, <2>2, TotalNat
  <2>4. \A q \in S : total[q] \in Int
    BY <1>1
  <2>5. Total(total, S) = total[p] + Total(total, S \ {p})
    BY <1>1, <2>4, TotalWithout
  <2> QED
    BY <1>1, <1>2, <2>3, <2>5
<1> QED
  BY <1>1, <1>2, <1>3

LEMMA LesserIs == \A x, y \in Nat : /\ Lesser(x, y) \in {x, y} /\ Lesser(x, y) <= x /\ Lesser(x, y) <= y
                                    /\ Lesser(x, y) \in Nat
  BY DEF Lesser

\* What the operator's model gives a point: its part of what is shared.
LEMMA ModelIs ==
    ASSUME NEW total \in [Points -> Nat], NEW S \in {Consumers, Producers}, NEW p \in S,
           NEW sum, sum = SumAt(total, S),
           NEW shared, shared = Lesser(SumAt(total, Consumers), SumAt(total, Producers))
    PROVE  /\ p \in Points /\ total[p] \in Nat /\ sum \in Nat /\ shared \in Nat
           /\ total[p] <= sum /\ shared <= sum
           /\ sum # 0 => Is(ProportionalModel(total)[p], total[p] * shared, sum)
           /\ shared = 0 => ProportionalModel(total)[p] = <<0, 1>>
<1>1. S \in SUBSET Points /\ Consumers \in SUBSET Points /\ Producers \in SUBSET Points /\ p \in Points
  BY DEF Points
<1>2. sum \in Nat /\ total[p] \in Nat /\ total[p] <= sum
  BY <1>1, SideTotal
<1>3. PICK c, r \in Nat : c = SumAt(total, Consumers) /\ r = SumAt(total, Producers)
  BY <1>1, SideTotal
<1>4. shared \in Nat /\ shared <= c /\ shared <= r
  BY <1>3, LesserIs
<1>5. shared <= sum
  BY <1>3, <1>4
<1>6. (IF p \in Consumers THEN Consumers ELSE Producers) = S
  BY AuditAssumption
<1>7. PICK t \in Nat : t = total[p]
  BY <1>2
<1>8. ProportionalModel(total)[p] = IF t = 0 THEN <<0, 1>> ELSE Ratio(t * shared, sum)
  <2>1. ProportionalModel(total)[p] =
           IF total[p] = 0 THEN <<0, 1>>
           ELSE Ratio(total[p] * shared, SumAt(total, IF p \in Consumers THEN Consumers ELSE Producers))
    BY <1>1 DEF ProportionalModel
  <2> QED
    BY <1>6, <1>7, <2>1
<1>9. ASSUME sum # 0
      PROVE  Is(ProportionalModel(total)[p], t * shared, sum)
  <2>1. CASE t = 0
    <3>1. Is(<<0, 1>>, 0, sum)
      BY <1>2 DEF Is, Fraction
    <3>2. 0 * shared = 0
      BY <1>4
    <3> QED
      BY <1>8, <2>1, <3>1, <3>2
  <2>2. CASE t # 0
    <3>1. t * shared \in Nat
      BY <1>4, ProductType
    <3> QED
      BY <1>2, <1>8, <1>9, <2>2, <3>1, RatioIs
  <2> QED
    BY <2>1, <2>2
<1>10. ASSUME shared = 0
       PROVE  ProportionalModel(total)[p] = <<0, 1>>
  <2>1. t * shared = 0
    BY <1>10
  <2>2. Ratio(t * shared, sum) = <<0, 1>>
    BY <2>1 DEF Ratio
  <2> QED
    BY <1>8, <2>2
<1> QED
  BY <1>1, <1>2, <1>4, <1>5, <1>7, <1>9, <1>10

-----------------------------------------------------------------------------
(* A delivery that follows the proportional model.                         *)

LEMMA HonestRow ==
    ASSUME NEW total \in [Points -> Nat], NEW local, source = Rounded(total, local),
           NEW p \in Points, NEW n \in Nat, NEW d \in Nat \ {0}, Is(local[p], n, d),
           n <= total[p] * d
    PROVE  source[p] \in [Channels -> Nat] /\ Holds(Row(p), total[p], n, d)
<1>1. PICK t, x, r, c : t = total[p] /\ x = local[p] /\ r = source[p] /\ c = Row(p)
  OBVIOUS
<1>2. r = [total |-> RoundHalfUp(<<t, 1>>), local |-> RoundHalfUp(x),
           residual |-> RoundHalfUp(Minus(t, x))]
  BY <1>1 DEF Rounded
<1>3. c = [k \in Channels |-> _cell(r[k])]
  BY <1>1 DEF Row
<1>4. t \in Nat /\ Is(x, n, d) /\ n <= t * d
  BY <1>1
<1>5. r \in [Channels -> Nat] /\ Holds(c, t, n, d)
  BY <1>2, <1>3, <1>4, ReportHolds
<1> QED
  BY <1>1, <1>5

\* Cells that hold the same number meet, there.
LEMMA MeetAt ==
    ASSUME NEW a, NEW b, a.lower \in Nat, a.upper \in Nat, b.lower \in Nat, b.upper \in Nat,
           NEW x \in Int, a.lower <= x, x < a.upper, b.lower <= x, x < b.upper
    PROVE  /\ _intersection(a, b).lower \in Nat /\ _intersection(a, b).upper \in Nat
           /\ _intersection(a, b).lower <= x /\ x < _intersection(a, b).upper
           /\ Meet(a, b)
<1>1. PICK i, j \in Nat, k, l \in Nat : i = a.lower /\ j = a.upper /\ k = b.lower /\ l = b.upper
  OBVIOUS
<1>2. _intersection(a, b) = [lower |-> Greater(a.lower, b.lower), upper |-> Lesser(a.upper, b.upper)]
  BY DEF _intersection
<1>3. /\ Greater(a.lower, b.lower) \in Nat /\ Lesser(a.upper, b.upper) \in Nat
      /\ Greater(a.lower, b.lower) <= x /\ x < Lesser(a.upper, b.upper)
  BY DEF Greater, Lesser
<1>4. /\ _intersection(a, b).lower = Greater(a.lower, b.lower)
      /\ _intersection(a, b).upper = Lesser(a.upper, b.upper)
  BY <1>2
<1>5. /\ _intersection(a, b).lower \in Nat /\ _intersection(a, b).upper \in Nat
      /\ _intersection(a, b).lower <= x /\ x < _intersection(a, b).upper
  BY <1>3, <1>4
<1> QED
  BY <1>5 DEF Meet

\* If a side has nothing, the audit finds that nothing was allocated.
LEMMA HonestZero ==
    ASSUME NEW total \in [Points -> Nat], source = Rounded(total, ProportionalModel(total)),
           Lesser(SumAt(total, Consumers), SumAt(total, Producers)) = 0
    PROVE  \E side \in {Producers, Consumers} : _zero_allocation(side, Other(side))
<1>1. Consumers \in SUBSET Points /\ Producers \in SUBSET Points
  BY DEF Points
<1>2. SumAt(total, Consumers) \in Nat /\ SumAt(total, Producers) \in Nat
  BY <1>1, SideTotal
<1>3. PICK side \in {Producers, Consumers} : SumAt(total, side) = 0
  BY <1>2, LesserIs
<1>4. Other(side) \in {Consumers, Producers}
  BY DEF Other
<1>5. ASSUME NEW S \in {Consumers, Producers}, NEW p \in S
      PROVE  p \in Points /\ total[p] \in Nat /\ total[p] <= SumAt(total, S)
             /\ Holds(Row(p), total[p], 0, 1)
  <2>1. /\ p \in Points /\ total[p] \in Nat /\ total[p] <= SumAt(total, S)
        /\ ProportionalModel(total)[p] = <<0, 1>>
    BY ModelIs
  <2>2. Is(<<0, 1>>, 0, 1)
    BY DEF Is, Fraction
  <2>3. 0 <= total[p] * 1 /\ 0 \in Nat /\ 1 \in Nat \ {0}
    BY <2>1
  <2>4. Holds(Row(p), total[p], 0, 1)
    BY <2>1, <2>2, <2>3, HonestRow
  <2> QED
    BY <2>1, <2>4
<1>6. ASSUME NEW p \in side, NEW c \in Channels
      PROVE  Row(p)[c].lower = 0
  <2>1. total[p] = 0 /\ Holds(Row(p), 0, 0, 1)
    <3>1. total[p] \in Nat /\ total[p] <= 0 /\ Holds(Row(p), total[p], 0, 1)
      BY <1>3, <1>5
    <3> QED
      BY <3>1
  <2>2. Row(p).total.lower \in Nat /\ Row(p).local.lower \in Nat /\ Row(p).residual.lower \in Nat
    BY <2>1 DEF Holds, Cell
  <2>3. Row(p).total.lower <= 0 /\ Row(p).local.lower * 1 <= 0 /\ Row(p).residual.lower * 1 <= 0 * 1 - 0
    BY <2>1 DEF Holds
  <2>4. Row(p).total.lower = 0 /\ Row(p).local.lower = 0 /\ Row(p).residual.lower = 0
    BY <2>2, <2>3
  <2>5. c = "total" \/ c = "local" \/ c = "residual"
    BY DEF Channels
  <2> QED
    BY <2>4, <2>5
<1>7. ASSUME NEW p \in Other(side)
      PROVE  Row(p).local.lower = 0 /\ Meet(Row(p).total, Row(p).residual)
  <2>1. PICK t \in Nat : t = total[p] /\ Holds(Row(p), t, 0, 1)
    BY <1>4, <1>5
  <2>2. /\ Row(p).total.lower \in Nat /\ Row(p).total.upper \in Nat
        /\ Row(p).local.lower \in Nat
        /\ Row(p).residual.lower \in Nat /\ Row(p).residual.upper \in Nat
    BY <2>1 DEF Holds, Cell
  <2>3. /\ Row(p).total.lower <= t /\ t < Row(p).total.upper
        /\ Row(p).local.lower * 1 <= 0
        /\ Row(p).residual.lower * 1 <= t * 1 - 0 /\ t * 1 - 0 < Row(p).residual.upper * 1
    BY <2>1 DEF Holds
  <2>4. Row(p).residual.lower <= t /\ t < Row(p).residual.upper /\ Row(p).local.lower = 0
    BY <2>2, <2>3
  <2> QED
    BY <2>2, <2>3, <2>4, MeetAt
<1>8. _zero_allocation(side, Other(side))
  BY <1>6, <1>7 DEF _zero_allocation
<1> QED
  BY <1>8

\* What a used up side had to give lies between the bounds the audit finds.
LEMMA HonestFull ==
    ASSUME NEW total \in [Points -> Nat], source = Rounded(total, ProportionalModel(total)),
           NEW S \in {Consumers, Producers}, NEW sum, sum = SumAt(total, S), sum # 0,
           sum = Lesser(SumAt(total, Consumers), SumAt(total, Producers))
    PROVE  /\ UsedUp(S) /\ sum \in Nat
           /\ _fully_used(S).lower \in Nat /\ _fully_used(S).upper \in Nat
           /\ _fully_used(S).lower <= sum /\ sum < _fully_used(S).upper
<1>1. S \in SUBSET Points /\ IsFiniteSet(S)
  <2>1. S \in SUBSET Points
    BY DEF Points
  <2> QED
    BY <2>1, PointsFinite
<1>2. sum \in Nat /\ sum = Total(total, S)
  BY <1>1, SideTotal, SumAtIs
<1>3. ASSUME NEW p \in S
      PROVE  /\ Row(p).residual.lower = 0
             /\ Meet(Row(p).total, Row(p).local)
             /\ _intersection(Row(p).total, Row(p).local).lower \in Nat
             /\ _intersection(Row(p).total, Row(p).local).upper \in Nat
             /\ _intersection(Row(p).total, Row(p).local).lower <= total[p]
             /\ total[p] < _intersection(Row(p).total, Row(p).local).upper
  <2>1. PICK t \in Nat : t = total[p]
    BY <1>1
  <2>2. p \in Points /\ Is(ProportionalModel(total)[p], t * sum, sum)
    BY <2>1, ModelIs
  <2>3. t * sum \in Nat /\ sum \in Nat \ {0}
    BY <1>2, ProductType
  <2>4. PICK n \in Nat : n = t * sum
    BY <2>3
  <2>5. Holds(Row(p), t, n, sum)
    <3>1. n <= total[p] * sum
      BY <2>1, <2>4
    <3> QED
      BY <2>1, <2>2, <2>3, <2>4, <3>1, HonestRow
  <2>6. PICK tl, tu, ll, lu, rl \in Nat :
           /\ tl = Row(p).total.lower /\ tu = Row(p).total.upper /\ ll = Row(p).local.lower
           /\ lu = Row(p).local.upper /\ rl = Row(p).residual.lower
    <3>1. Row(p).total \in Cell /\ Row(p).local \in Cell /\ Row(p).residual \in Cell
      BY <2>5 DEF Holds
    <3> QED
      BY <3>1 DEF Cell
  <2>7. tl <= t /\ t < tu /\ ll * sum <= n /\ n < lu * sum /\ rl * sum <= t * sum - n
    BY <2>5, <2>6 DEF Holds
  <2>8. ll <= t
    <3>1. ~(t * sum < ll * sum)
      BY <2>3, <2>4, <2>7
    <3>2. t < ll <=> t * sum < ll * sum
      BY <2>3, Cancel
    <3> QED
      BY <3>1, <3>2
  <2>9. t < lu
    BY <2>3, <2>4, <2>7, Cancel
  <2>10. rl = 0
    <3>1. rl * sum <= 0
      BY <2>3, <2>4, <2>7
    <3>2. rl # 0 => rl * sum \in Nat \ {0}
      BY <2>3, ProductType
    <3> QED
      BY <3>1, <3>2
  <2>11. /\ Row(p).total.lower \in Nat /\ Row(p).total.upper \in Nat
         /\ Row(p).local.lower \in Nat /\ Row(p).local.upper \in Nat
         /\ Row(p).total.lower <= t /\ t < Row(p).total.upper
         /\ Row(p).local.lower <= t /\ t < Row(p).local.upper
    BY <2>6, <2>7, <2>8, <2>9
  <2>12. /\ _intersection(Row(p).total, Row(p).local).lower \in Nat
         /\ _intersection(Row(p).total, Row(p).local).upper \in Nat
         /\ _intersection(Row(p).total, Row(p).local).lower <= t
         /\ t < _intersection(Row(p).total, Row(p).local).upper
         /\ Meet(Row(p).total, Row(p).local)
    BY <2>11, MeetAt
  <2> QED
    BY <2>1, <2>6, <2>10, <2>12
<1>4. S # {}
  BY <1>1, <1>2, TotalIs
<1>5. UsedUp(S)
  BY <1>3, <1>4 DEF UsedUp
<1>6. PICK each : each = [p \in S |-> _intersection(Row(p).total, Row(p).local)]
  OBVIOUS
<1>7. PICK l, u : l = [p \in S |-> each[p].lower] /\ u = [p \in S |-> each[p].upper]
  OBVIOUS
<1>8. \A p \in S : l[p] = each[p].lower /\ u[p] = each[p].upper
  BY <1>7
<1>9. _fully_used(S) = [lower |-> SumAt(l, S), upper |-> SumAt(u, S)]
  BY <1>6, <1>7 DEF _fully_used
<1>10. SumAt(l, S) = Total(l, S) /\ SumAt(u, S) = Total(u, S)
  BY SumAtIs
<1>11. _fully_used(S) = [lower |-> Total(l, S), upper |-> Total(u, S)]
  BY <1>9, <1>10
<1>12. \A p \in S : l[p] \in Nat /\ u[p] \in Nat /\ l[p] <= total[p] /\ total[p] < u[p] /\ total[p] \in Nat
  BY <1>1, <1>3, <1>6, <1>8
<1>13. Total(l, S) \in Nat
  BY <1>1, <1>12, TotalNat
<1>14. Total(u, S) \in Nat
  BY <1>1, <1>12, TotalNat
<1>15. \A p \in S : l[p] \in Int /\ u[p] \in Int /\ total[p] \in Int
  BY <1>12
<1>16. Total(l, S) <= Total(total, S)
  BY <1>1, <1>12, <1>15, TotalLess
<1>17. Total(total, S) < Total(u, S)
  BY <1>1, <1>4, <1>12, <1>15, TotalLess
<1> QED
  BY <1>2, <1>5, <1>11, <1>13, <1>14, <1>16, <1>17

\* The ratio of an honest delivery lies between the bounds of its rows.
LEMMA HonestInBounds ==
    ASSUME NEW a \in Nat \ {0}, NEW c \in Nat \ {0}, NEW b \in Nat \ {0}, b = a + c, NEW t \in Nat,
           NEW tl \in Nat, NEW tu \in Nat \ {0}, NEW ll \in Nat, NEW lu \in Nat \ {0},
           NEW rl \in Nat, NEW ru \in Nat \ {0},
           tl <= t, t < tu, ll * b <= t * a, t * a < lu * b,
           rl * b <= t * b - t * a, t * b - t * a < ru * b
    PROVE  InBounds(a, b, tl, tu, ll, lu, rl, ru)
<1>1. t * b - t * a = t * c
  OBVIOUS
<1>2. rl * b <= t * c /\ t * c < ru * b
  <2>1. PICK x, y, z \in Int : x = t * b - t * a /\ y = rl * b /\ z = ru * b
    OBVIOUS
  <2>2. y <= x /\ x < z
    BY <2>1
  <2> QED
    BY <1>1, <2>1, <2>2
<1>3. \A x, y \in Int, k \in Nat \ {0} : x <= y => x * k <= y * k
  <2> TAKE x, y \in Int, k \in Nat \ {0}
  <2>1. x < y => x * k < y * k
    BY Cancel
  <2>2. x * k \in Int /\ y * k \in Int
    OBVIOUS
  <2> QED
    BY <2>1, <2>2
<1>4. ll * b < a * tu
  <2>1. t * a < tu * a
    BY Cancel
  <2>2. PICK x, y, z \in Int : x = ll * b /\ y = t * a /\ z = tu * a
    OBVIOUS
  <2>3. x <= y /\ y < z
    BY <2>1, <2>2
  <2>4. z = a * tu
    BY <2>2
  <2> QED
    BY <2>2, <2>3, <2>4
<1>5. ll * b < a * (ll + ru)
  <2>1. PICK lb, ta, tc, rb \in Int : lb = ll * b /\ ta = t * a /\ tc = t * c /\ rb = ru * b
    OBVIOUS
  <2>2. lb * c <= ta * c
    BY <1>3, <2>1
  <2>3. tc * a < rb * a
    BY <1>2, <2>1, Cancel
  <2>4. ta * c = tc * a
    BY <2>1
  <2>5. PICK lc, ra \in Int : lc = ll * c /\ ra = a * ru
    OBVIOUS
  <2>6. lc * b = lb * c /\ ra * b = rb * a
    BY <2>1, <2>5
  <2>7. lc * b < ra * b
    <3>1. PICK x, y, z \in Int : x = lb * c /\ y = ta * c /\ z = rb * a
      OBVIOUS
    <3>2. x <= y /\ y < z
      BY <2>2, <2>3, <2>4, <3>1
    <3> QED
      BY <2>6, <3>1, <3>2
  <2>8. lc < ra
    BY <2>7, Cancel
  <2>9. PICK la \in Int : la = ll * a
    OBVIOUS
  <2>10. ll * b = la + lc /\ a * (ll + ru) = la + ra
    BY <2>5, <2>9
  <2> QED
    BY <2>8, <2>10
<1>6. ASSUME tl > ru
      PROVE  (tl - ru) * b < a * tl
  <2>1. tl * c <= t * c
    BY <1>3
  <2>2. PICK x, y, z, v \in Int : x = tl * c /\ y = t * c /\ z = ru * b /\ v = a * tl
    OBVIOUS
  <2>3. x < z
    BY <1>2, <2>1, <2>2
  <2>4. (tl - ru) * b = (v + x) - z
    BY <2>2
  <2> QED
    BY <2>2, <2>3, <2>4
<1>7. a * tu < Greater(tu - rl, 0) * b
  <2>1. t * c < tu * c
    BY Cancel
  <2>2. PICK x, y, z, v \in Int : x = rl * b /\ y = t * c /\ z = tu * c /\ v = a * tu
    OBVIOUS
  <2>3. x < z
    BY <1>2, <2>1, <2>2
  <2>4. (tu - rl) * b = (v + z) - x
    BY <2>2
  <2>5. v < (tu - rl) * b
    BY <2>3, <2>4
  <2>6. v \in Nat
    BY <2>2
  <2>7. tu - rl > 0
    <3>1. SUFFICES ASSUME tu - rl <= 0
                   PROVE  FALSE
      OBVIOUS
    <3>2. (tu - rl) * b <= 0 * b
      BY <1>3, <3>1
    <3>3. 0 * b = 0
      OBVIOUS
    <3>4. PICK w \in Int : w = (tu - rl) * b
      OBVIOUS
    <3> QED
      BY <2>5, <2>6, <3>2, <3>3, <3>4
  <2>8. Greater(tu - rl, 0) = tu - rl
    BY <2>7 DEF Greater
  <2> QED
    BY <2>2, <2>5, <2>8
<1>8. a * (rl + lu) < lu * b
  <2>1. PICK rb, ta, tc, lb \in Int : rb = rl * b /\ ta = t * a /\ tc = t * c /\ lb = lu * b
    OBVIOUS
  <2>2. rb * a <= tc * a
    BY <1>2, <1>3, <2>1
  <2>3. ta * c < lb * c
    BY <2>1, Cancel
  <2>4. ta * c = tc * a
    BY <2>1
  <2>5. PICK ra, lc \in Int : ra = a * rl /\ lc = lu * c
    OBVIOUS
  <2>6. ra * b = rb * a /\ lc * b = lb * c
    BY <2>1, <2>5
  <2>7. ra * b < lc * b
    <3>1. PICK x, y, z \in Int : x = rb * a /\ y = tc * a /\ z = lb * c
      OBVIOUS
    <3>2. x <= y /\ y < z
      BY <2>2, <2>3, <2>4, <3>1
    <3> QED
      BY <2>6, <3>1, <3>2
  <2>8. ra < lc
    BY <2>7, Cancel
  <2>9. PICK la \in Int : la = a * lu
    OBVIOUS
  <2>10. a * (rl + lu) = ra + la /\ lu * b = la + lc
    BY <2>5, <2>9
  <2> QED
    BY <2>8, <2>10
<1>9. a * tl < lu * b
  <2>1. tl * a <= t * a
    BY <1>3
  <2>2. PICK x, y, z \in Int : x = tl * a /\ y = t * a /\ z = lu * b
    OBVIOUS
  <2>3. x < z
    BY <2>1, <2>2
  <2>4. a * tl = x
    BY <2>2
  <2> QED
    BY <2>2, <2>3, <2>4
<1> QED
  BY <1>4, <1>5, <1>6, <1>7, <1>8, <1>9 DEF InBounds

\* A side that shares less than it has leaves a ratio to search for.
LEMMA HonestPart ==
    ASSUME NEW total \in [Points -> Nat], source = Rounded(total, ProportionalModel(total)),
           source \in [Points -> [Channels -> Nat]],
           NEW S \in {Consumers, Producers}, NEW sum, sum = SumAt(total, S),
           NEW shared, shared = Lesser(SumAt(total, Consumers), SumAt(total, Producers)),
           0 < shared, shared < sum
    PROVE  S # {} /\ Ratios(_ratio_bounds(S))
<1>1. S \in SUBSET Points /\ IsFiniteSet(S)
  <2>1. S \in SUBSET Points
    BY DEF Points
  <2> QED
    BY <2>1, PointsFinite
<1>2. sum \in Nat /\ sum = Total(total, S)
  BY <1>1, SideTotal, SumAtIs
<1>3. shared \in Nat
  <2>1. Consumers \in SUBSET Points /\ Producers \in SUBSET Points
    BY DEF Points
  <2>2. SumAt(total, Consumers) \in Nat /\ SumAt(total, Producers) \in Nat
    BY <2>1, SideTotal
  <2> QED
    BY <2>2, LesserIs
<1>4. sum # 0
  BY <1>2, <1>3
<1>5. S # {}
  BY <1>1, <1>2, <1>4, TotalIs
<1>6. PICK r : r = Ratio(shared, sum)
  OBVIOUS
<1>7. Is(r, shared, sum)
  BY <1>2, <1>3, <1>6, RatioIs
<1>8. PICK a \in Nat, b \in Nat \ {0} : a = r[1] /\ b = r[2] /\ a * sum = shared * b
  BY <1>7 DEF Is, Fraction
<1>9. r \in Fraction
  BY <1>7 DEF Is
<1>10. a # 0
  <2>1. shared * b \in Nat \ {0}
    BY <1>3, ProductType
  <2>2. 0 * sum = 0
    BY <1>2
  <2> QED
    BY <1>8, <2>1, <2>2
<1>11. a < b
  <2>1. shared * b < sum * b
    BY <1>2, <1>3, Cancel
  <2>2. sum * b = b * sum
    BY <1>2
  <2>3. a * sum < b * sum
    BY <1>8, <2>1, <2>2
  <2>4. PICK k \in Nat \ {0} : k = sum
    BY <1>2, <1>3
  <2>5. a * k < b * k
    BY <2>3, <2>4
  <2> QED
    BY <2>5, Cancel
<1>12. PICK c \in Nat \ {0} : b = a + c
  <2>1. b - a \in Nat \ {0} /\ b = a + (b - a)
    BY <1>11
  <2> QED
    BY <2>1
<1>13. ASSUME NEW p \in S
       PROVE  /\ \A l \in LowerBounds(Row(p)) : Less(l, r)
              /\ \A u \in UpperBounds(Row(p)) : Less(r, u)
  <2>1. PICK t \in Nat : t = total[p]
    BY <1>1
  <2>2. p \in Points /\ Is(ProportionalModel(total)[p], t * shared, sum)
    BY <1>4, <2>1, ModelIs
  <2>3. t * shared \in Nat /\ t * a \in Nat /\ sum \in Nat \ {0}
    BY <1>2, <1>3, ProductType
  <2>4. (t * shared) * b = (t * a) * sum
    <3>1. (t * shared) * b = t * (shared * b) /\ (t * a) * sum = t * (a * sum)
      BY <1>2, <1>3
    <3> QED
      BY <1>8, <3>1
  <2>5. Is(ProportionalModel(total)[p], t * a, b)
    BY <2>2, <2>3, <2>4, IsSame
  <2>6. t * a <= t * b
    BY <1>11, <1>12
  <2>7. Holds(Row(p), t, t * a, b)
    BY <2>1, <2>2, <2>3, <2>5, <2>6, HonestRow
  <2>8. Row(p).total \in Cell /\ Row(p).local \in Cell /\ Row(p).residual \in Cell
    BY <2>7 DEF Holds
  <2>9. PICK tl \in Nat, tu \in Nat \ {0}, ll \in Nat, lu \in Nat \ {0}, rl \in Nat, ru \in Nat \ {0} :
           /\ tl = Row(p).total.lower /\ tu = Row(p).total.upper
           /\ ll = Row(p).local.lower /\ lu = Row(p).local.upper
           /\ rl = Row(p).residual.lower /\ ru = Row(p).residual.upper
    BY <2>8 DEF Cell
  <2>10. /\ tl <= t /\ t < tu /\ ll * b <= t * a /\ t * a < lu * b
         /\ rl * b <= t * b - t * a /\ t * b - t * a < ru * b
    BY <2>7, <2>9 DEF Holds
  <2>11. InBounds(a, b, tl, tu, ll, lu, rl, ru)
    <3>1. a \in Nat \ {0}
      BY <1>10
    <3> QED
      BY <1>12, <2>10, <3>1, HonestInBounds
  <2>12. a = r[1] /\ b = r[2]
    BY <1>8
  <2>13. PICK row : row = Row(p)
    OBVIOUS
  <2>14. /\ row.total \in Cell /\ row.local \in Cell /\ row.residual \in Cell
         /\ tl = row.total.lower /\ tu = row.total.upper /\ ll = row.local.lower
         /\ lu = row.local.upper /\ rl = row.residual.lower /\ ru = row.residual.upper
    BY <2>8, <2>9, <2>13
  <2>15. /\ \A l \in LowerBounds(row) : Less(l, r)
         /\ \A u \in UpperBounds(row) : Less(r, u)
    <3>1. InBounds(a, b, tl, tu, ll, lu, rl, ru)
             <=> /\ \A l \in LowerBounds(row) : Less(l, r)
                 /\ \A u \in UpperBounds(row) : Less(r, u)
      BY <1>8, <1>9, <2>9, <2>12, <2>14, BetweenBounds
    <3> QED
      BY <2>11, <3>1
  <2> QED
    BY <2>13, <2>15
<1>14. Less(<<0, 1>>, r) /\ Less(r, <<1, 1>>)
  BY <1>8, <1>10, <1>11 DEF Less
<1>15. PICK bounds : bounds = _ratio_bounds(S)
  OBVIOUS
<1>16. bounds \in [lower : Fraction, upper : Fraction] /\ Less(bounds.lower, r) /\ Less(r, bounds.upper)
  BY <1>1, <1>9, <1>13, <1>14, <1>15, RatioBounds
<1>17. Less(bounds.lower, bounds.upper)
  <2>1. PICK lo \in Fraction, up \in Fraction : lo = bounds.lower /\ up = bounds.upper
    BY <1>16
  <2>2. Less(lo, r) /\ Less(r, up)
    BY <1>16, <2>1
  <2>3. ~Less(r, lo)
    BY <1>9, <2>2, LessOrder
  <2>4. Less(lo, up)
    BY <1>9, <2>2, <2>3, LessOrder
  <2> QED
    BY <2>1, <2>4
<1> QED
  BY <1>5, <1>15, <1>17 DEF Ratios

\* The audit finds one of its witnesses.
LEMMA WitnessCases ==
    ASSUME NEW w, w = _interval_witness
    PROVE  /\ \/ \E side \in {Producers, Consumers} : _zero_allocation(side, Other(side))
              \/ /\ UsedUp(Consumers) /\ UsedUp(Producers)
                 /\ Meet(_fully_used(Consumers), _fully_used(Producers))
              => w = Resolved(<<0, 1>>) \/ w = Resolved(<<1, 1>>)
           /\ \/ w = Resolved(<<0, 1>>)
              \/ w = Resolved(<<1, 1>>)
              \/ w = Witnessed({_partial_allocation(side, Other(side)) : side \in {Producers, Consumers}})
  BY DEF _interval_witness

\* What an honest delivery is told.
LEMMA HonestStands ==
    ASSUME NEW total \in [Points -> Nat], source = Rounded(total, ProportionalModel(total)),
           source \in [Points -> [Channels -> Nat]]
    PROVE  _interval_witness.outcome \in {"certified", "unresolved_vnb_rounding_boundary"}
<1>1. PICK w : w = _interval_witness
  OBVIOUS
<1>2. \A ratio : Resolved(ratio).outcome = "certified"
  BY DEF Resolved
<1>3. Consumers \in SUBSET Points /\ Producers \in SUBSET Points
  BY DEF Points
<1>4. PICK c, r \in Nat : c = SumAt(total, Consumers) /\ r = SumAt(total, Producers)
  BY <1>3, SideTotal
<1>5. PICK shared \in Nat : shared = Lesser(c, r) /\ shared <= c /\ shared <= r /\ (shared = c \/ shared = r)
  BY LesserIs
<1>6. CASE shared = 0
  BY <1>1, <1>2, <1>4, <1>5, <1>6, HonestZero, WitnessCases
<1>7. CASE shared # 0 /\ c = r
  <2>1. shared = c /\ shared = r
    BY <1>5, <1>7
  <2>2. /\ UsedUp(Consumers)
        /\ _fully_used(Consumers).lower \in Nat /\ _fully_used(Consumers).upper \in Nat
        /\ _fully_used(Consumers).lower <= shared /\ shared < _fully_used(Consumers).upper
    BY <1>4, <1>5, <1>7, <2>1, HonestFull
  <2>3. /\ UsedUp(Producers)
        /\ _fully_used(Producers).lower \in Nat /\ _fully_used(Producers).upper \in Nat
        /\ _fully_used(Producers).lower <= shared /\ shared < _fully_used(Producers).upper
    BY <1>4, <1>5, <1>7, <2>1, HonestFull
  <2>4. Meet(_fully_used(Consumers), _fully_used(Producers))
    BY <2>2, <2>3, MeetAt
  <2> QED
    BY <1>1, <1>2, <2>2, <2>3, <2>4, WitnessCases
<1>8. ASSUME NEW side \in {Consumers, Producers}, shared # 0, shared = SumAt(total, side),
             shared < SumAt(total, Other(side))
      PROVE  w.outcome \in {"certified", "unresolved_vnb_rounding_boundary"}
  <2>1. UsedUp(side)
    BY <1>4, <1>5, <1>8, HonestFull
  <2>2. Other(side) \in {Consumers, Producers}
    BY DEF Other
  <2>3. PICK S, sum : S = Other(side) /\ S \in {Consumers, Producers} /\ sum = SumAt(total, S)
    BY <2>2
  <2>4. 0 < shared /\ shared < sum /\ shared = Lesser(SumAt(total, Consumers), SumAt(total, Producers))
    BY <1>4, <1>5, <1>8, <2>3
  <2>5. S # {} /\ Ratios(_ratio_bounds(S))
    BY <2>3, <2>4, HonestPart
  <2>6. Other(side) # {} /\ Ratios(_ratio_bounds(Other(side)))
    BY <2>3, <2>5
  <2>7. PICK bounds : bounds = _ratio_bounds(Other(side))
    OBVIOUS
  <2>8. Less(bounds.lower, bounds.upper)
    BY <2>6, <2>7 DEF Ratios
  <2>9. bounds \in [lower : Fraction, upper : Fraction]
    BY <1>3, <2>2, <2>7, RatioBounds
  <2>10. PICK y : y = _partial_allocation(side, Other(side))
    OBVIOUS
  <2>11. y = Bisected(Other(side), _fully_used(side), bounds)
    BY <2>1, <2>6, <2>7, <2>10 DEF _partial_allocation
  <2>12. Found(y, bounds, Other(side), _fully_used(side))
    BY <2>8, <2>9, <2>11, BisectedFinds
  <2>13. y = Unresolved \/ y.outcome = "certified"
    BY <1>2, <2>12 DEF Found
  <2>14. PICK partial : partial = {_partial_allocation(s, Other(s)) : s \in {Producers, Consumers}}
    OBVIOUS
  <2>15. y \in partial
    BY <2>10, <2>14
  <2>16. ASSUME w = Witnessed(partial)
         PROVE  w.outcome \in {"certified", "unresolved_vnb_rounding_boundary"}
    <3>1. CASE \E x \in partial : x.outcome = "certified"
      <4>1. w = CHOOSE x \in partial : x.outcome = "certified"
        BY <2>16, <3>1 DEF Witnessed
      <4> QED
        BY <3>1, <4>1
    <3>2. CASE ~\E x \in partial : x.outcome = "certified"
      <4>1. Unresolved \in partial
        BY <2>13, <2>15, <3>2
      <4>2. w = Unresolved
        BY <2>16, <3>2, <4>1 DEF Witnessed
      <4> QED
        BY <4>2 DEF Unresolved
    <3> QED
      BY <3>1, <3>2
  <2> QED
    BY <1>1, <1>2, <2>14, <2>16, WitnessCases
<1>9. CASE shared # 0 /\ c # r
  <2>1. CASE c < r
    <3>1. shared = c /\ shared < r /\ Other(Consumers) = Producers
      BY <1>5, <2>1 DEF Other
    <3> QED
      BY <1>1, <1>4, <1>8, <1>9, <3>1
  <2>2. CASE r < c
    <3>1. shared = r /\ shared < c /\ Producers # Consumers
      BY <1>4, <1>5, <2>2
    <3>2. Other(Producers) = Consumers
      BY <3>1 DEF Other
    <3> QED
      BY <1>1, <1>4, <1>8, <1>9, <3>1, <3>2
  <2> QED
    BY <1>9, <2>1, <2>2
<1> QED
  BY <1>1, <1>6, <1>7, <1>9

-----------------------------------------------------------------------------
(* Sums of fractions.                                                      *)

\* g adds up the fractions f gives to the members of the subsets of S.
FracAdds(f, g, S) ==
    g = [s \in SUBSET S |-> IF s = {} THEN <<0, 1>> ELSE Plus(g[s \ {First(s)}], f[First(s)])]

LEMMA FracAddsAgree ==
    ASSUME NEW f, NEW S, NEW R, IsFiniteSet(S), NEW g, NEW h, FracAdds(f, g, S), FracAdds(f, h, R)
    PROVE  \A s \in SUBSET S : s \subseteq R => g[s] = h[s]
<1> DEFINE Odd == {s \in SUBSET S : s \subseteq R /\ g[s] # h[s]}
<1>1. SUFFICES ASSUME Odd # {}
               PROVE  FALSE
  OBVIOUS
<1>2. \A s \in Odd : IsFiniteSet(s)
  BY FS_Subset
<1>3. PICK s \in Odd : \A u \in Odd : ~(Cardinality(u) < Cardinality(s))
  BY <1>1, <1>2, Smallest
<1>4. s # {}
  BY <1>3 DEF FracAdds
<1>5. s \ {First(s)} \in SUBSET S /\ s \ {First(s)} \subseteq R /\ s \ {First(s)} \notin Odd
  BY <1>2, <1>3, <1>4, Rest
<1>6. g[s \ {First(s)}] = h[s \ {First(s)}]
  BY <1>5
<1> QED
  BY <1>3, <1>4, <1>6 DEF FracAdds

LEMMA FracAddsExists ==
    ASSUME NEW f, NEW S, IsFiniteSet(S)
    PROVE  \E g : FracAdds(f, g, S)
<1> DEFINE Odd == {s \in SUBSET S : \A g : ~FracAdds(f, g, s)}
<1>1. SUFFICES ASSUME Odd # {}
               PROVE  FALSE
  OBVIOUS
<1>2. \A s \in SUBSET S : IsFiniteSet(s)
  BY FS_Subset
<1>3. PICK s \in Odd : \A u \in Odd : ~(Cardinality(u) < Cardinality(s))
  BY <1>1, <1>2, Smallest
<1> DEFINE Left(u) == u \ {First(u)}
           Sub(u) == (CHOOSE a : FracAdds(f, a, u))[u]
           g == [u \in SUBSET s |-> IF u = {} THEN <<0, 1>> ELSE Plus(Sub(Left(u)), f[First(u)])]
<1>4. ASSUME NEW u \in SUBSET s, u # {}
      PROVE  /\ Left(u) \in SUBSET s /\ IsFiniteSet(Left(u))
             /\ FracAdds(f, CHOOSE a : FracAdds(f, a, Left(u)), Left(u))
  <2>1. IsFiniteSet(u) /\ IsFiniteSet(s)
    BY <1>2, <1>3, <1>4
  <2>2. IsFiniteSet(Left(u)) /\ Cardinality(Left(u)) < Cardinality(u) /\ First(u) \in u
    BY <1>4, <2>1, Rest
  <2>3. Cardinality(u) <= Cardinality(s)
    BY <2>1, <2>2, FS_Subset
  <2>4. Cardinality(Left(u)) < Cardinality(s)
    BY <2>1, <2>2, <2>3, FS_CardinalityType
  <2>5. Left(u) \in SUBSET S /\ Left(u) \notin Odd
    BY <1>3, <2>4
  <2>6. \E h : FracAdds(f, h, Left(u))
    BY <2>5
  <2> QED
    BY <2>2, <2>6
<1>5. ASSUME NEW u \in SUBSET s, u # {}, Left(u) # {}
      PROVE  g[Left(u)] = Sub(Left(u))
  <2>1. PICK h : h = CHOOSE a : FracAdds(f, a, Left(u))
    OBVIOUS
  <2>2. PICK k : k = CHOOSE a : FracAdds(f, a, Left(Left(u)))
    OBVIOUS
  <2>3. Left(u) \in SUBSET s /\ IsFiniteSet(Left(u)) /\ FracAdds(f, h, Left(u))
    BY <1>4, <1>5, <2>1
  <2>4. FracAdds(f, k, Left(Left(u))) /\ IsFiniteSet(Left(Left(u)))
    BY <1>4, <1>5, <2>2, <2>3
  <2>5. k[Left(Left(u))] = h[Left(Left(u))]
    BY <2>3, <2>4, FracAddsAgree
  <2>6. h[Left(u)] = Plus(h[Left(Left(u))], f[First(Left(u))])
    BY <1>5, <2>3 DEF FracAdds
  <2>7. g[Left(u)] = Plus(k[Left(Left(u))], f[First(Left(u))])
    BY <1>5, <2>2, <2>3
  <2> QED
    BY <2>1, <2>5, <2>6, <2>7
<1>6. Sub({}) = <<0, 1>>
  <2>1. \E h : FracAdds(f, h, {})
    <3>1. FracAdds(f, [u \in SUBSET {} |-> <<0, 1>>], {})
      BY DEF FracAdds
    <3> QED
      BY <3>1
  <2> QED
    BY <2>1 DEF FracAdds
<1> HIDE DEF Sub
<1>7. FracAdds(f, g, s)
  <2>1. PICK h : h = g
    OBVIOUS
  <2>2. \A u \in SUBSET s : u # {} => Left(u) \in SUBSET s /\ h[Left(u)] = Sub(Left(u))
    BY <1>5, <1>6, <2>1
  <2>3. h = [u \in SUBSET s |-> IF u = {} THEN <<0, 1>> ELSE Plus(h[Left(u)], f[First(u)])]
    BY <2>1, <2>2
  <2>4. FracAdds(f, h, s)
    BY <2>3 DEF FracAdds
  <2> QED
    BY <2>1, <2>4
<1> QED
  BY <1>3, <1>7

\* A fraction is n/d at most, and n/d at least.
UpTo(x, n, d) == x \in Fraction /\ x[1] * d <= n * x[2]
From(x, n, d) == x \in Fraction /\ n * x[2] <= x[1] * d

LEMMA IsBoth == \A x, n, d : n \in Nat /\ d \in Nat \ {0} => (Is(x, n, d) <=> UpTo(x, n, d) /\ From(x, n, d))
<1> SUFFICES ASSUME NEW x \in Fraction, NEW n \in Nat, NEW d \in Nat \ {0}
             PROVE  Is(x, n, d) <=> UpTo(x, n, d) /\ From(x, n, d)
  BY DEF Is, UpTo, From
<1>1. PICK x1, x2 \in Nat : x1 = x[1] /\ x2 = x[2]
  BY DEF Fraction
<1>2. PICK l, r \in Int : l = x1 * d /\ r = n * x2
  OBVIOUS
<1>3. /\ Is(x, n, d) <=> l = r
      /\ UpTo(x, n, d) <=> l <= r
      /\ From(x, n, d) <=> r <= l
  BY <1>1, <1>2 DEF Is, UpTo, From
<1> QED
  BY <1>2, <1>3

LEMMA Ordered ==
    ASSUME NEW x \in Int, NEW y \in Int, NEW k \in Nat \ {0}
    PROVE  x <= y <=> x * k <= y * k
<1>1. x * k \in Int /\ y * k \in Int
  OBVIOUS
<1>2. y < x <=> y * k < x * k
  BY Cancel
<1> QED
  BY <1>1, <1>2

LEMMA PlusBounds ==
    ASSUME NEW a, NEW b, NEW n \in Nat, NEW m \in Nat, NEW d \in Nat \ {0}
    PROVE  /\ UpTo(a, n, d) /\ UpTo(b, m, d) => UpTo(Plus(a, b), n + m, d)
           /\ From(a, n, d) /\ From(b, m, d) => From(Plus(a, b), n + m, d)
<1> SUFFICES ASSUME a \in Fraction, b \in Fraction
             PROVE  /\ UpTo(a, n, d) /\ UpTo(b, m, d) => UpTo(Plus(a, b), n + m, d)
                    /\ From(a, n, d) /\ From(b, m, d) => From(Plus(a, b), n + m, d)
  BY DEF UpTo, From
<1>1. PICK a1 \in Nat, a2 \in Nat \ {0}, b1 \in Nat, b2 \in Nat \ {0} :
         a1 = a[1] /\ a2 = a[2] /\ b1 = b[1] /\ b2 = b[2]
  BY DEF Fraction
<1>2. PICK p : p = Plus(a, b)
  OBVIOUS
<1>3. PICK k \in Nat \ {0}, s \in Nat : k = a2 * b2 /\ s = a1 * b2 + b1 * a2
  BY ProductType
<1>4. Is(p, s, k)
  BY <1>1, <1>2, <1>3, PlusIs
<1>5. PICK p1 \in Nat, p2 \in Nat \ {0} : p1 = p[1] /\ p2 = p[2] /\ p1 * k = s * p2
  BY <1>4 DEF Is, Fraction
<1>6. PICK x, y, z, v \in Int : x = a1 * d /\ y = n * a2 /\ z = b1 * d /\ v = m * b2
  OBVIOUS
<1>7. PICK i \in Nat \ {0}, j \in Nat \ {0} : i = b2 * p2 /\ j = a2 * p2
  BY ProductType
<1>8. (p1 * d) * k = x * i + z * j
  <2>1. (p1 * d) * k = (p1 * k) * d
    OBVIOUS
  <2>2. (s * p2) * d = (a1 * d) * (b2 * p2) + (b1 * d) * (a2 * p2)
    BY <1>3
  <2> QED
    BY <1>5, <1>6, <1>7, <2>1, <2>2
<1>9. ((n + m) * p2) * k = y * i + v * j
  <2>1. ((n + m) * p2) * (a2 * b2) = (n * a2) * (b2 * p2) + (m * b2) * (a2 * p2)
    OBVIOUS
  <2> QED
    BY <1>3, <1>6, <1>7, <2>1
<1>10. (x <= y => x * i <= y * i) /\ (y <= x => y * i <= x * i)
  BY Ordered
<1>11. (z <= v => z * j <= v * j) /\ (v <= z => v * j <= z * j)
  BY Ordered
<1>12. PICK xi, yi, zj, vj \in Int : xi = x * i /\ yi = y * i /\ zj = z * j /\ vj = v * j
  OBVIOUS
<1>13. PICK l, r \in Int : l = p1 * d /\ r = (n + m) * p2
  OBVIOUS
<1>14. (l <= r <=> l * k <= r * k) /\ (r <= l <=> r * k <= l * k)
  BY Ordered
<1>15. l * k = xi + zj /\ r * k = yi + vj
  BY <1>8, <1>9, <1>12, <1>13
<1>16. (x <= y /\ z <= v => l <= r) /\ (y <= x /\ v <= z => r <= l)
  BY <1>10, <1>11, <1>12, <1>14, <1>15
<1>17. p \in Fraction
  BY <1>4 DEF Is
<1> QED
  BY <1>1, <1>2, <1>5, <1>6, <1>13, <1>16, <1>17 DEF UpTo, From

\* Bounds of fractions bound their sum.
LEMMA SumBounds ==
    ASSUME NEW f, NEW S, S = DOMAIN f, IsFiniteSet(S), NEW m, \A x \in S : m[x] \in Nat,
           NEW d \in Nat \ {0}
    PROVE  /\ (\A x \in S : UpTo(f[x], m[x], d)) => UpTo(RatioSum(f), Total(m, S), d)
           /\ (\A x \in S : From(f[x], m[x], d)) => From(RatioSum(f), Total(m, S), d)
<1>1. PICK g : g = (CHOOSE a : FracAdds(f, a, S)) /\ FracAdds(f, g, S)
  BY FracAddsExists
<1>2. RatioSum(f) = g[S]
  BY <1>1 DEF RatioSum, FoldSet, MapThenFoldSet, FracAdds, First
<1>3. \A s \in SUBSET S : IsFiniteSet(s) /\ Total(m, s) \in Nat
  <2> TAKE s \in SUBSET S
  <2>1. IsFiniteSet(s) /\ \A x \in s : m[x] \in Nat
    BY FS_Subset
  <2> QED
    BY <2>1, TotalNat
<1>4. \A s \in SUBSET S : s # {} => /\ First(s) \in s /\ s \ {First(s)} \in SUBSET S
                                    /\ Cardinality(s \ {First(s)}) < Cardinality(s)
                                    /\ Total(m, s) = m[First(s)] + Total(m, s \ {First(s)})
                                    /\ g[s] = Plus(g[s \ {First(s)}], f[First(s)])
  <2> SUFFICES ASSUME NEW s \in SUBSET S, s # {}
               PROVE  /\ First(s) \in s /\ s \ {First(s)} \in SUBSET S
                      /\ Cardinality(s \ {First(s)}) < Cardinality(s)
                      /\ Total(m, s) = m[First(s)] + Total(m, s \ {First(s)})
                      /\ g[s] = Plus(g[s \ {First(s)}], f[First(s)])
    OBVIOUS
  <2>1. IsFiniteSet(s) /\ First(s) \in s
    BY <1>3, Rest
  <2>2. Cardinality(s \ {First(s)}) < Cardinality(s)
    BY <2>1, Rest
  <2>3. Total(m, s) = m[First(s)] + Total(m, s \ {First(s)})
    BY <2>1, TotalIs
  <2>4. g[s] = Plus(g[s \ {First(s)}], f[First(s)])
    BY <1>1 DEF FracAdds
  <2> QED
    BY <2>1, <2>2, <2>3, <2>4
<1>5. g[{}] = <<0, 1>> /\ Total(m, {}) = 0
  <2>1. g[{}] = <<0, 1>>
    BY <1>1 DEF FracAdds
  <2>2. IsFiniteSet({})
    BY FS_EmptySet
  <2> QED
    BY <2>1, <2>2, TotalIs
<1>6. UpTo(<<0, 1>>, 0, d) /\ From(<<0, 1>>, 0, d)
  BY DEF UpTo, From, Fraction
<1>7. ASSUME \A x \in S : UpTo(f[x], m[x], d)
      PROVE  UpTo(g[S], Total(m, S), d)
  <2> DEFINE Odd == {s \in SUBSET S : ~UpTo(g[s], Total(m, s), d)}
  <2>1. SUFFICES ASSUME Odd # {}
                 PROVE  FALSE
    OBVIOUS
  <2>2. PICK s \in Odd : \A u \in Odd : ~(Cardinality(u) < Cardinality(s))
    BY <1>3, <2>1, Smallest
  <2>3. s \in SUBSET S /\ ~UpTo(g[s], Total(m, s), d)
    BY <2>2
  <2>4. s # {}
    BY <1>5, <1>6, <2>3
  <2>5. PICK x, r : x = First(s) /\ r = s \ {First(s)}
    OBVIOUS
  <2>6. x \in S /\ r \in SUBSET S /\ r \notin Odd
    BY <1>4, <2>2, <2>3, <2>4, <2>5
  <2>7. UpTo(g[r], Total(m, r), d) /\ UpTo(f[x], m[x], d)
    BY <1>7, <2>6
  <2>8. PICK n \in Nat, k \in Nat : n = Total(m, r) /\ k = m[x]
    BY <1>3, <2>6
  <2>9. UpTo(Plus(g[r], f[x]), n + k, d)
    BY <2>7, <2>8, PlusBounds
  <2>10. g[s] = Plus(g[r], f[x]) /\ Total(m, s) = n + k
    BY <1>4, <2>3, <2>4, <2>5, <2>8
  <2> QED
    BY <2>3, <2>9, <2>10
<1>8. ASSUME \A x \in S : From(f[x], m[x], d)
      PROVE  From(g[S], Total(m, S), d)
  <2> DEFINE Odd == {s \in SUBSET S : ~From(g[s], Total(m, s), d)}
  <2>1. SUFFICES ASSUME Odd # {}
                 PROVE  FALSE
    OBVIOUS
  <2>2. PICK s \in Odd : \A u \in Odd : ~(Cardinality(u) < Cardinality(s))
    BY <1>3, <2>1, Smallest
  <2>3. s \in SUBSET S /\ ~From(g[s], Total(m, s), d)
    BY <2>2
  <2>4. s # {}
    BY <1>5, <1>6, <2>3
  <2>5. PICK x, r : x = First(s) /\ r = s \ {First(s)}
    OBVIOUS
  <2>6. x \in S /\ r \in SUBSET S /\ r \notin Odd
    BY <1>4, <2>2, <2>3, <2>4, <2>5
  <2>7. From(g[r], Total(m, r), d) /\ From(f[x], m[x], d)
    BY <1>8, <2>6
  <2>8. PICK n \in Nat, k \in Nat : n = Total(m, r) /\ k = m[x]
    BY <1>3, <2>6
  <2>9. From(Plus(g[r], f[x]), n + k, d)
    BY <2>7, <2>8, PlusBounds
  <2>10. g[s] = Plus(g[r], f[x]) /\ Total(m, s) = n + k
    BY <1>4, <2>3, <2>4, <2>5, <2>8
  <2> QED
    BY <2>3, <2>9, <2>10
<1> QED
  BY <1>2, <1>7, <1>8

\* Finitely many fractions have a common denominator.
LEMMA CommonDenominator ==
    ASSUME NEW S, IsFiniteSet(S), NEW f, \A x \in S : f[x] \in Fraction
    PROVE  \E d \in Nat \ {0} : \E a \in [S -> Nat] : \A x \in S : Is(f[x], a[x], d)
<1> DEFINE Common(s) == \E d \in Nat \ {0} : \E a \in [s -> Nat] : \A x \in s : Is(f[x], a[x], d)
           Odd == {s \in SUBSET S : ~Common(s)}
<1>1. SUFFICES ASSUME Odd # {}
               PROVE  FALSE
  OBVIOUS
<1>2. \A s \in SUBSET S : IsFiniteSet(s)
  BY FS_Subset
<1>3. PICK s \in Odd : \A u \in Odd : ~(Cardinality(u) < Cardinality(s))
  <2>1. \A u \in Odd : IsFiniteSet(u)
    BY <1>2
  <2> HIDE DEF Odd
  <2> QED
    BY <1>1, <2>1, Smallest
<1>4. CASE s = {}
  <2>1. PICK d, a : d \in Nat \ {0} /\ d = 1 /\ a = [x \in {} |-> 0]
    OBVIOUS
  <2>2. a \in [{} -> Nat]
    BY <2>1
  <2>3. Common({})
    BY <2>1, <2>2
  <2> QED
    BY <1>3, <1>4, <2>3
<1>5. CASE s # {}
  <2>1. PICK x : x \in s
    BY <1>5
  <2>2. s \in SUBSET S /\ IsFiniteSet(s)
    BY <1>2, <1>3
  <2>3. s \ {x} \in SUBSET S /\ s \ {x} \notin Odd
    BY <1>3, <2>1, <2>2, Rest
  <2>4. PICK d \in Nat \ {0}, a \in [s \ {x} -> Nat] : \A y \in s \ {x} : Is(f[y], a[y], d)
    BY <2>3
  <2>5. PICK n \in Nat, k \in Nat \ {0} : n = f[x][1] /\ k = f[x][2] /\ Is(f[x], n, k)
    BY <2>1, <2>2, IsItself
  <2>6. PICK e \in Nat \ {0} : e = d * k
    BY ProductType
  <2> DEFINE b == [y \in s |-> IF y = x THEN n * d ELSE a[y] * k]
  <2>7. ASSUME NEW y \in s
        PROVE  b[y] \in Nat /\ Is(f[y], b[y], e)
    <3>1. CASE y = x
      <4>1. n * d \in Nat /\ n * e = (n * d) * k
        BY <2>6
      <4>2. Is(f[x], n * d, e)
        BY <2>5, <4>1, IsSame
      <4> QED
        BY <3>1, <4>1, <4>2
    <3>2. CASE y # x
      <4>1. PICK m \in Nat : m = a[y] /\ Is(f[y], m, d)
        BY <2>4, <3>2
      <4>2. m * k \in Nat /\ m * e = (m * k) * d
        BY <2>6
      <4>3. Is(f[y], m * k, e)
        BY <4>1, <4>2, IsSame
      <4> QED
        BY <3>2, <4>1, <4>2, <4>3
    <3> QED
      BY <3>1, <3>2
  <2>8. b \in [s -> Nat]
    BY <2>7
  <2> HIDE DEF b
  <2>9. Common(s)
    BY <2>7, <2>8
  <2> QED
    BY <1>3, <2>9
<1> QED
  BY <1>4, <1>5

-----------------------------------------------------------------------------
(* The einfach model: no consumer is given more than it used, nor all of   *)
(* them more than was made.                                                *)

LEMMA LeastUpTo ==
    ASSUME NEW x \in Fraction, NEW y \in Fraction, NEW w, w = Least({x, y}),
           NEW n \in Nat, NEW d \in Nat \ {0}, NEW m \in Nat, NEW e \in Nat \ {0}
    PROVE  /\ UpTo(x, n, d) => UpTo(w, n, d)
           /\ UpTo(y, m, e) => UpTo(w, m, e)
<1>1. PICK S : S = {x, y}
  OBVIOUS
<1>2. IsFiniteSet(S) /\ S # {} /\ S \subseteq Fraction
  BY <1>1, FewAreFinite
<1>3. w \in S /\ \A b \in S : ~Less(b, w)
  BY <1>1, <1>2, LeastIs
<1>4. w \in Fraction /\ ~Less(x, w) /\ ~Less(y, w)
  BY <1>1, <1>2, <1>3
<1>5. ASSUME NEW z \in Fraction, ~Less(z, w), NEW k \in Nat, NEW l \in Nat \ {0}, UpTo(z, k, l)
      PROVE  UpTo(w, k, l)
  <2>1. PICK z1 \in Nat, z2 \in Nat \ {0}, w1 \in Nat, w2 \in Nat \ {0} :
           z1 = z[1] /\ z2 = z[2] /\ w1 = w[1] /\ w2 = w[2]
    BY <1>4 DEF Fraction
  <2>2. w1 * z2 <= z1 * w2 /\ z1 * l <= k * z2
    <3>1. PICK a, b \in Int : a = z1 * w2 /\ b = w1 * z2
      OBVIOUS
    <3>2. ~(a < b)
      BY <1>5, <2>1, <3>1 DEF Less
    <3>3. z1 * l <= k * z2
      BY <1>5, <2>1 DEF UpTo
    <3> QED
      BY <3>1, <3>2, <3>3
  <2>3. (w1 * z2) * l <= (z1 * w2) * l
    <3>1. PICK a, b \in Int : a = w1 * z2 /\ b = z1 * w2
      OBVIOUS
    <3>2. a * l <= b * l
      BY <2>2, <3>1, Ordered
    <3> QED
      BY <3>1, <3>2
  <2>4. (z1 * l) * w2 <= (k * z2) * w2
    <3>1. PICK a, b \in Int : a = z1 * l /\ b = k * z2
      OBVIOUS
    <3>2. a * w2 <= b * w2
      BY <2>2, <3>1, Ordered
    <3> QED
      BY <3>1, <3>2
  <2>5. PICK a, b \in Int : a = w1 * l /\ b = k * w2
    OBVIOUS
  <2>6. (w1 * z2) * l = a * z2 /\ (k * z2) * w2 = b * z2 /\ (z1 * w2) * l = (z1 * l) * w2
    BY <2>5
  <2>7. a * z2 <= b * z2
    <3>1. PICK i, j, h \in Int : i = a * z2 /\ j = (z1 * w2) * l /\ h = b * z2
      OBVIOUS
    <3> QED
      BY <2>3, <2>4, <2>6, <3>1
  <2>8. a <= b
    BY <2>7, Ordered
  <2> QED
    BY <1>4, <2>1, <2>5, <2>8 DEF UpTo
<1> QED
  BY <1>4, <1>5

\* What is n/d at most is m/e at most, if n/d is.
LEMMA UpToMore ==
    ASSUME NEW x, NEW n \in Nat, NEW d \in Nat \ {0}, UpTo(x, n, d),
           NEW m \in Nat, NEW e \in Nat \ {0}, n * e <= m * d
    PROVE  UpTo(x, m, e)
<1>1. PICK x1 \in Nat, x2 \in Nat \ {0} : x1 = x[1] /\ x2 = x[2] /\ x1 * d <= n * x2
  BY DEF UpTo, Fraction
<1>2. PICK a, b, c, k \in Int : a = x1 * d /\ b = n * x2 /\ c = n * e /\ k = m * d
  OBVIOUS
<1>3. a * e <= b * e
  BY <1>1, <1>2, Ordered
<1>4. c * x2 <= k * x2
  BY <1>2, Ordered
<1>5. b * e = c * x2
  BY <1>2
<1>6. PICK l, r \in Int : l = x1 * e /\ r = m * x2
  OBVIOUS
<1>7. l * d = a * e /\ r * d = k * x2
  BY <1>2, <1>6
<1>8. l * d <= r * d
  <2>1. PICK i, j, h \in Int : i = a * e /\ j = c * x2 /\ h = k * x2
    OBVIOUS
  <2> QED
    BY <1>3, <1>4, <1>5, <1>7, <2>1
<1>9. l <= r
  BY <1>8, Ordered
<1> QED
  BY <1>1, <1>6, <1>9 DEF UpTo

LEMMA TotalLinear ==
    ASSUME NEW S, IsFiniteSet(S), NEW a, NEW b, NEW m, NEW i \in Int, NEW j \in Int,
           \A x \in S : a[x] \in Int /\ b[x] \in Int /\ m[x] = a[x] * i + b[x] * j
    PROVE  Total(m, S) = Total(a, S) * i + Total(b, S) * j
<1> DEFINE Odd == {s \in SUBSET S : Total(m, s) # Total(a, s) * i + Total(b, s) * j}
<1>1. SUFFICES ASSUME Odd # {}
               PROVE  FALSE
  OBVIOUS
<1>2. \A s \in SUBSET S : IsFiniteSet(s) /\ Total(a, s) \in Int /\ Total(b, s) \in Int
  <2> TAKE s \in SUBSET S
  <2>1. IsFiniteSet(s)
    BY FS_Subset
  <2>2. \A x \in s : a[x] \in Int /\ b[x] \in Int
    OBVIOUS
  <2>3. Total(a, s) \in Int
    BY <2>1, <2>2, TotalType
  <2>4. Total(b, s) \in Int
    BY <2>1, <2>2, TotalType
  <2> QED
    BY <2>1, <2>3, <2>4
<1>3. PICK s \in Odd : \A u \in Odd : ~(Cardinality(u) < Cardinality(s))
  <2>1. \A u \in Odd : IsFiniteSet(u)
    BY <1>2
  <2> HIDE DEF Odd
  <2> QED
    BY <1>1, <2>1, Smallest
<1>4. s \in SUBSET S /\ IsFiniteSet(s) /\ Total(m, s) # Total(a, s) * i + Total(b, s) * j
  BY <1>2, <1>3
<1>5. s # {}
  <2>1. SUFFICES ASSUME s = {}
                 PROVE  FALSE
    OBVIOUS
  <2>2. Total(m, s) = 0 /\ Total(a, s) = 0 /\ Total(b, s) = 0
    BY <1>4, <2>1, TotalIs
  <2>3. 0 * i + 0 * j = 0
    OBVIOUS
  <2> QED
    BY <1>4, <2>2, <2>3
<1>6. PICK x, r : x = First(s) /\ r = s \ {First(s)}
  OBVIOUS
<1>7. x \in S /\ r \in SUBSET S /\ r \notin Odd
  BY <1>3, <1>4, <1>5, <1>6, Rest
<1>8. Total(m, s) = m[x] + Total(m, r)
  BY <1>4, <1>5, <1>6, TotalIs
<1>9. Total(a, s) = a[x] + Total(a, r)
  BY <1>4, <1>5, <1>6, TotalIs
<1>10. Total(b, s) = b[x] + Total(b, r)
  BY <1>4, <1>5, <1>6, TotalIs
<1>11. Total(m, r) = Total(a, r) * i + Total(b, r) * j
  BY <1>7
<1>12. PICK ax, bx, ar, br \in Int :
          ax = a[x] /\ bx = b[x] /\ ar = Total(a, r) /\ br = Total(b, r) /\ m[x] = ax * i + bx * j
  BY <1>2, <1>7
<1>13. (ax + ar) * i + (bx + br) * j = (ax * i + bx * j) + (ar * i + br * j)
  OBVIOUS
<1> QED
  BY <1>4, <1>8, <1>9, <1>10, <1>11, <1>12, <1>13

LEMMA IsUpTo ==
    ASSUME NEW x, NEW n \in Nat, NEW d \in Nat \ {0}, Is(x, n, d),
           NEW m \in Nat, NEW e \in Nat \ {0}
    PROVE  UpTo(x, m, e) <=> n * e <= m * d
<1>1. ASSUME n * e <= m * d
      PROVE  UpTo(x, m, e)
  BY <1>1, IsBoth, UpToMore
<1>2. ASSUME UpTo(x, m, e)
      PROVE  n * e <= m * d
  <2>1. PICK x1 \in Nat, x2 \in Nat \ {0} : x1 = x[1] /\ x2 = x[2] /\ x1 * d = n * x2
    BY DEF Is, Fraction
  <2>2. x1 * e <= m * x2
    BY <1>2, <2>1 DEF UpTo
  <2>3. PICK a, b, c, k \in Int : a = x1 * e /\ b = m * x2 /\ c = n * e /\ k = m * d
    OBVIOUS
  <2>4. a * d <= b * d
    BY <2>2, <2>3, Ordered
  <2>5. (x1 * e) * d = (x1 * d) * e /\ (n * x2) * e = (n * e) * x2 /\ (m * x2) * d = (m * d) * x2
    OBVIOUS
  <2>6. a * d = c * x2 /\ b * d = k * x2
    BY <2>1, <2>3, <2>5
  <2>7. c * x2 <= k * x2
    BY <2>4, <2>6
  <2>8. c <= k
    BY <2>7, Ordered
  <2> QED
    BY <2>3, <2>8
<1> QED
  BY <1>1, <1>2

\* An equal share.
LEMMA EqualSharesBounded ==
    ASSUME NEW total \in [Points -> Nat], NEW p \in Consumers,
           NEW made, made = SumAt(total, Producers), NEW n, n = Cardinality(Points)
    PROVE  /\ made \in Nat /\ n \in Nat \ {0} /\ total[p] \in Nat
           /\ UpTo(EqualShares(total)[p], total[p], 1) /\ UpTo(EqualShares(total)[p], made, n)
<1>1. Producers \in SUBSET Points /\ p \in Points /\ Points \in SUBSET Points
  BY DEF Points
<1>2. made \in Nat
  BY <1>1, SideTotal
<1>3. IsFiniteSet(Points)
  BY <1>1, PointsFinite
<1>4. n \in Nat \ {0}
  BY <1>1, <1>3, FS_CardinalityType, FS_EmptySet
<1>5. PICK t \in Nat : t = total[p]
  BY <1>1
<1>6. PICK x, y : x = <<t, 1>> /\ y = Ratio(made, n)
  OBVIOUS
<1>7. Is(x, t, 1) /\ Is(y, made, n)
  <2>1. Is(<<t, 1>>, t, 1)
    BY DEF Is, Fraction
  <2> QED
    BY <1>2, <1>4, <1>6, <2>1, RatioIs
<1>8. x \in Fraction /\ y \in Fraction /\ UpTo(x, t, 1) /\ UpTo(y, made, n)
  BY <1>2, <1>4, <1>7, IsBoth DEF Is
<1>9. EqualShares(total)[p] = Least({x, y})
  BY <1>6, <1>5 DEF EqualShares
<1>10. UpTo(EqualShares(total)[p], t, 1) /\ UpTo(EqualShares(total)[p], made, n)
  BY <1>2, <1>4, <1>8, <1>9, LeastUpTo
<1> QED
  BY <1>2, <1>4, <1>10, <1>5

\* What a consumer is given on top, of what is left.
LEMMA SpreadBounded ==
    ASSUME NEW x, NEW y, NEW rest, NEW open,
           NEW d \in Nat \ {0}, NEW a \in Nat, NEW b \in Nat, NEW k \in Nat, NEW o \in Nat \ {0},
           Is(x, a, d), Is(y, b, d), Is(rest, k, d), Is(open, o, d), rest[1] # 0, open[1] # 0,
           NEW w, w = Plus(x, Least({y, Ratio(rest[1] * y[1] * open[2], rest[2] * y[2] * open[1])}))
    PROVE  UpTo(w, a + b, d) /\ UpTo(w, a * o + b * k, d * o)
<1>1. PICK y1, r1, o1 \in Nat, y2, r2, o2 \in Nat \ {0} :
         /\ y1 = y[1] /\ y2 = y[2] /\ r1 = rest[1] /\ r2 = rest[2] /\ o1 = open[1] /\ o2 = open[2]
         /\ y1 * d = b * y2 /\ r1 * d = k * r2 /\ o1 * d = o * o2
  BY DEF Is, Fraction
<1>2. PICK n \in Nat, e \in Nat \ {0} : n = r1 * y1 * o2 /\ e = r2 * y2 * o1
  <2>1. r1 * y1 \in Nat /\ r2 * y2 \in Nat \ {0} /\ o1 \in Nat \ {0}
    BY <1>1, ProductType
  <2>2. (r1 * y1) * o2 \in Nat /\ (r2 * y2) * o1 \in Nat \ {0}
    BY <2>1, ProductType
  <2> QED
    BY <2>2
<1>3. PICK q : q = Ratio(n, e)
  OBVIOUS
<1>4. Is(q, n, e)
  BY <1>2, <1>3, RatioIs
<1>5. PICK bk \in Nat, m \in Nat \ {0} : bk = b * k /\ m = d * o
  BY ProductType
<1>6. n * m = bk * e
  <2>1. n * m = ((r1 * d) * y1) * (o2 * o)
    BY <1>2, <1>5
  <2>2. ((k * r2) * y1) * (o1 * d) = ((k * r2) * o1) * (y1 * d)
    OBVIOUS
  <2>3. ((k * r2) * o1) * (b * y2) = bk * e
    BY <1>2, <1>5
  <2>4. o2 * o = o1 * d
    BY <1>1
  <2> QED
    BY <1>1, <2>1, <2>2, <2>3, <2>4
<1>7. Is(q, bk, m)
  BY <1>2, <1>4, <1>5, <1>6, IsSame
<1>8. PICK l : l = Least({y, q})
  OBVIOUS
<1>9. UpTo(l, b, d) /\ UpTo(l, bk, m)
  <2>1. y \in Fraction /\ q \in Fraction /\ UpTo(y, b, d) /\ UpTo(q, bk, m)
    BY <1>5, <1>7, IsBoth DEF Is
  <2> QED
    BY <1>5, <1>8, <2>1, LeastUpTo
<1>10. PICK ao \in Nat : ao = a * o
  BY ProductType
<1>11. UpTo(x, a, d) /\ UpTo(x, ao, m)
  <2>1. a * m = ao * d
    BY <1>5, <1>10
  <2>2. Is(x, ao, m)
    BY <1>5, <1>10, <2>1, IsSame
  <2> QED
    BY <1>5, <1>10, <2>2, IsBoth
<1>12. w = Plus(x, l)
  BY <1>1, <1>2, <1>3, <1>8
<1>13. UpTo(w, a + b, d)
  BY <1>9, <1>11, <1>12, PlusBounds
<1>14. UpTo(w, ao + bk, m)
  BY <1>5, <1>9, <1>10, <1>11, <1>12, PlusBounds
<1> QED
  BY <1>5, <1>10, <1>13, <1>14

\* What the consumers are given by the einfach model.
LEMMA SharesBounded ==
    ASSUME NEW total \in [Points -> Nat], NEW made, made = SumAt(total, Producers)
    PROVE  /\ made \in Nat
           /\ \A p \in Consumers : UpTo(Shares(total)[p], total[p], 1)
           /\ UpTo(RatioSum(Shares(total)), made, 1)
<1>1. Producers \in SUBSET Points /\ Consumers \in SUBSET Points /\ IsFiniteSet(Consumers)
      /\ IsFiniteSet(Points) /\ \A p \in Consumers : total[p] \in Nat
  <2>1. Producers \in SUBSET Points /\ Consumers \in SUBSET Points /\ Points \in SUBSET Points
    BY DEF Points
  <2>2. IsFiniteSet(Consumers) /\ IsFiniteSet(Points)
    BY <2>1, PointsFinite
  <2> QED
    BY <2>1, <2>2
<1>2. made \in Nat
  BY <1>1, SideTotal
<1>3. PICK first : first = EqualShares(total)
  OBVIOUS
<1>4. DOMAIN first = Consumers
  BY <1>3 DEF EqualShares
<1>5. PICK n \in Nat : n = Cardinality(Points)
  BY <1>1, FS_CardinalityType
<1>6. \A p \in Consumers : n # 0 /\ UpTo(first[p], total[p], 1) /\ UpTo(first[p], made, n)
  BY <1>3, <1>5, EqualSharesBounded
<1>7. \A p \in Consumers : first[p] \in Fraction
  BY <1>6 DEF UpTo
<1>8. PICK d \in Nat \ {0} : \E a \in [Consumers -> Nat] : \A p \in Consumers : Is(first[p], a[p], d)
  BY <1>1, <1>7, CommonDenominator
<1>9. PICK a \in [Consumers -> Nat] : \A p \in Consumers : Is(first[p], a[p], d)
  BY <1>8
<1>10. \A p \in Consumers : a[p] \in Nat /\ a[p] <= total[p] * d /\ a[p] * n <= made * d
  <2> SUFFICES ASSUME NEW p \in Consumers
               PROVE  a[p] \in Nat /\ a[p] <= total[p] * d /\ a[p] * n <= made * d
    OBVIOUS
  <2>1. PICK x \in Nat, t \in Nat : x = a[p] /\ t = total[p] /\ Is(first[p], x, d)
    BY <1>1, <1>9
  <2>2. n \in Nat \ {0} /\ UpTo(first[p], t, 1) /\ UpTo(first[p], made, n)
    BY <1>6, <2>1
  <2>3. x * 1 <= t * d
    BY <2>1, <2>2, IsUpTo
  <2>4. x * n <= made * d
    BY <1>2, <2>1, <2>2, IsUpTo
  <2>5. x * 1 = x
    BY <2>1
  <2> QED
    BY <2>1, <2>3, <2>4, <2>5
<1>11. PICK A \in Nat : A = Total(a, Consumers)
  BY <1>1, <1>10, TotalNat
<1>12. A <= made * d
  <2>1. PICK md \in Nat : md = made * d
    BY <1>2, ProductType
  <2>2. CASE Consumers = {}
    <3>1. Total(a, Consumers) = 0
      BY <1>1, <2>2, TotalIs
    <3> QED
      BY <1>11, <2>1, <3>1
  <2>3. CASE Consumers # {}
    <3>1. n \in Nat \ {0}
      BY <1>6, <2>3
    <3>2. \A p \in Consumers : a[p] \in Int /\ n * a[p] <= 0 * a[p] - 0 * a[p] + md
      BY <1>10, <2>1
    <3>3. PICK z \in Int : z = 0
      OBVIOUS
    <3>4. \A p \in Consumers : n * a[p] <= z * a[p] - z * a[p] + md
      BY <3>2, <3>3
    <3>5. \A p \in Consumers : a[p] \in Int /\ a[p] \in Int /\ a[p] \in Int
      BY <1>10
    <3>6. n \in Int /\ md \in Int
      BY <1>5, <2>1
    <3>7. n * Total(a, Consumers) <= z * Total(a, Consumers) - z * Total(a, Consumers) + md * Cardinality(Consumers)
      BY <1>1, <3>3, <3>4, <3>5, <3>6, TotalBound
    <3>8. PICK c \in Nat : c = Cardinality(Consumers) /\ c <= n
      <4>1. Cardinality(Consumers) \in Nat /\ Cardinality(Consumers) <= Cardinality(Points)
        BY <1>1, FS_CardinalityType, FS_Subset
      <4> QED
        BY <1>5, <4>1
    <3>9. n * A <= z * A - z * A + md * c
      BY <1>11, <3>7, <3>8
    <3>10. n * A <= md * c
      BY <3>3, <3>9
    <3>11. md * c <= md * n
      BY <2>1, <3>8
    <3>12. PICK i, j, k \in Int : i = n * A /\ j = md * c /\ k = md * n
      OBVIOUS
    <3>13. i <= k
      BY <3>10, <3>11, <3>12
    <3>14. A * n <= md * n
      BY <3>12, <3>13
    <3> QED
      BY <2>1, <3>1, <3>14, Ordered
  <2> QED
    BY <2>2, <2>3
<1>13. Is(RatioSum(first), A, d)
  <2>1. \A p \in Consumers : UpTo(first[p], a[p], d) /\ From(first[p], a[p], d)
    BY <1>9, <1>10, IsBoth
  <2>2. UpTo(RatioSum(first), Total(a, Consumers), d)
    BY <1>1, <1>4, <1>10, <2>1, SumBounds
  <2>3. From(RatioSum(first), Total(a, Consumers), d)
    BY <1>1, <1>4, <1>10, <2>1, SumBounds
  <2> QED
    BY <1>11, <2>2, <2>3, IsBoth
<1>14. PICK k \in Nat : k = made * d - A
  BY <1>2, <1>12
<1>15. PICK rest : rest = Minus(made, RatioSum(first))
  OBVIOUS
<1>16. Is(rest, k, d)
  BY <1>2, <1>12, <1>13, <1>14, <1>15, MinusIs
<1>17. PICK free : free = [p \in Consumers |-> Minus(total[p], first[p])]
  OBVIOUS
<1>18. PICK b : b = [p \in Consumers |-> total[p] * d - a[p]]
  OBVIOUS
<1>19. \A p \in Consumers : b[p] \in Nat /\ Is(free[p], b[p], d) /\ a[p] + b[p] = total[p] * d
  <2> SUFFICES ASSUME NEW p \in Consumers
               PROVE  b[p] \in Nat /\ Is(free[p], b[p], d) /\ a[p] + b[p] = total[p] * d
    OBVIOUS
  <2>1. PICK x \in Nat, t \in Nat : x = a[p] /\ t = total[p] /\ Is(first[p], x, d) /\ x <= t * d
    BY <1>1, <1>9, <1>10
  <2>2. Is(Minus(t, first[p]), t * d - x, d) /\ t * d - x \in Nat
    BY <2>1, MinusIs
  <2>3. free[p] = Minus(t, first[p]) /\ b[p] = t * d - x
    BY <1>17, <1>18, <2>1
  <2>4. PICK td \in Nat : td = t * d
    BY ProductType
  <2>5. x + b[p] = t * d
    BY <2>3, <2>4
  <2> QED
    BY <2>1, <2>2, <2>3, <2>5
<1>20. PICK B \in Nat : B = Total(b, Consumers)
  BY <1>1, <1>19, TotalNat
<1>21. PICK open : open = RatioSum(free)
  OBVIOUS
<1>22. Is(open, B, d)
  <2>1. DOMAIN free = Consumers
    BY <1>17
  <2>2. \A p \in Consumers : b[p] \in Nat /\ UpTo(free[p], b[p], d) /\ From(free[p], b[p], d)
    BY <1>19, IsBoth
  <2>3. UpTo(RatioSum(free), Total(b, Consumers), d)
    BY <1>1, <2>1, <2>2, SumBounds
  <2>4. From(RatioSum(free), Total(b, Consumers), d)
    BY <1>1, <2>1, <2>2, SumBounds
  <2> QED
    BY <1>20, <1>21, <2>3, <2>4, IsBoth
<1>23. PICK shares : shares = Shares(total)
  OBVIOUS
<1>24. shares = Spread(first, free, rest, open)
  BY <1>3, <1>15, <1>17, <1>21, <1>23 DEF Shares, Topped, WithRest
<1>25. DOMAIN shares = Consumers
  BY <1>24 DEF Spread
<1>26. CASE Less(<<Quantum, 1>>, rest) /\ open[1] > 0
  <2>1. \A p \in Consumers :
           shares[p] = Plus(first[p], Least({free[p], Ratio(rest[1] * free[p][1] * open[2],
                                                            rest[2] * free[p][2] * open[1])}))
    BY <1>24, <1>26 DEF Spread
  <2>2. rest[1] # 0 /\ open[1] # 0
    <3>1. rest[1] \in Nat /\ rest[2] \in Nat \ {0} /\ Quantum \in Nat
      BY <1>16, AuditAssumption DEF Is, Fraction
    <3>2. Quantum * rest[2] < rest[1] * 1
      BY <1>26 DEF Less
    <3>3. Quantum * rest[2] \in Nat
      BY <3>1, ProductType
    <3> QED
      BY <1>26, <3>1, <3>2, <3>3
  <2>3. PICK o \in Nat \ {0} : o = B
    <3>1. B # 0
      <4>1. PICK o1 \in Nat, o2 \in Nat : o1 = open[1] /\ o2 = open[2] /\ o1 * d = B * o2 /\ o1 # 0
        BY <1>22, <2>2 DEF Is, Fraction
      <4>2. o1 * d # 0
        BY <4>1, ProductType
      <4>3. 0 * o2 = 0
        OBVIOUS
      <4> QED
        BY <4>1, <4>2, <4>3
    <3> QED
      BY <3>1
  <2>4. PICK m : m = [p \in Consumers |-> a[p] * o + b[p] * k]
    OBVIOUS
  <2>5. ASSUME NEW p \in Consumers
        PROVE  UpTo(shares[p], a[p] + b[p], d) /\ UpTo(shares[p], m[p], d * o) /\ m[p] \in Nat
    <3>1. PICK x, y \in Nat : x = a[p] /\ y = b[p] /\ Is(first[p], x, d) /\ Is(free[p], y, d)
      BY <1>9, <1>10, <1>19
    <3>2. PICK f, g : f = first[p] /\ g = free[p]
      OBVIOUS
    <3>3. shares[p] = Plus(f, Least({g, Ratio(rest[1] * g[1] * open[2], rest[2] * g[2] * open[1])}))
      BY <2>1, <3>2
    <3>4. Is(f, x, d) /\ Is(g, y, d) /\ Is(rest, k, d) /\ Is(open, o, d)
      BY <1>16, <1>22, <2>3, <3>1, <3>2
    <3>5. UpTo(shares[p], x + y, d) /\ UpTo(shares[p], x * o + y * k, d * o)
      BY <2>2, <3>3, <3>4, SpreadBounded
    <3>6. m[p] = x * o + y * k
      BY <2>4, <3>1
    <3>7. x * o \in Nat /\ y * k \in Nat
      BY ProductType
    <3> QED
      BY <3>1, <3>5, <3>6, <3>7
  <2>6. ASSUME NEW p \in Consumers
        PROVE  UpTo(shares[p], total[p], 1)
    <3>1. PICK t \in Nat, td \in Nat : t = total[p] /\ td = t * d
      BY <1>1, ProductType
    <3>2. UpTo(shares[p], td, d)
      BY <1>19, <2>5, <3>1
    <3>3. td * 1 <= t * d
      BY <3>1
    <3>4. UpTo(shares[p], t, 1)
      BY <3>2, <3>3, UpToMore
    <3> QED
      BY <3>1, <3>4
  <2>7. PICK e \in Nat \ {0} : e = d * o
    BY ProductType
  <2>8. \A p \in Consumers : m[p] \in Nat /\ UpTo(shares[p], m[p], e)
    BY <2>5, <2>7
  <2>9. UpTo(RatioSum(shares), Total(m, Consumers), e)
    BY <1>1, <1>25, <2>8, SumBounds
  <2>10. Total(m, Consumers) = A * o + o * k
    <3>1. \A p \in Consumers : a[p] \in Int /\ b[p] \in Int /\ m[p] = a[p] * o + b[p] * k
      BY <1>10, <1>19, <2>4
    <3>2. Total(m, Consumers) = Total(a, Consumers) * o + Total(b, Consumers) * k
      BY <1>1, <3>1, TotalLinear
    <3> QED
      BY <1>11, <1>20, <2>3, <3>2
  <2>11. PICK s \in Nat : s = Total(m, Consumers) /\ s = made * e
    <3>1. A * o + o * k = (A + k) * o
      OBVIOUS
    <3>2. A + k = made * d
      <4>1. PICK md \in Int : md = made * d
        BY <1>2
      <4> QED
        BY <1>14, <4>1
    <3>3. (made * d) * o = made * e
      BY <1>2, <2>7
    <3>4. made * e \in Nat
      BY <1>2, ProductType
    <3> QED
      BY <2>10, <3>1, <3>2, <3>3, <3>4
  <2>12. UpTo(RatioSum(shares), made, 1)
    <3>1. s * 1 <= made * e
      BY <2>11
    <3> QED
      BY <1>2, <2>9, <2>11, <3>1, UpToMore
  <2> QED
    BY <1>2, <1>23, <2>6, <2>12
<1>27. CASE ~(Less(<<Quantum, 1>>, rest) /\ open[1] > 0)
  <2>1. \A p \in Consumers : shares[p] = first[p]
    BY <1>24, <1>27 DEF Spread
  <2>2. \A p \in Consumers : UpTo(shares[p], total[p], 1)
    BY <1>6, <2>1
  <2>3. \A p \in Consumers : a[p] \in Nat /\ UpTo(shares[p], a[p], d)
    BY <1>9, <1>10, <2>1, IsBoth
  <2>4. UpTo(RatioSum(shares), Total(a, Consumers), d)
    BY <1>1, <1>25, <2>3, SumBounds
  <2>5. UpTo(RatioSum(shares), A, d) /\ A * 1 <= made * d
    BY <1>11, <1>12, <2>4
  <2>6. UpTo(RatioSum(shares), made, 1)
    BY <1>2, <2>5, UpToMore
  <2> QED
    BY <1>2, <1>23, <2>2, <2>6
<1> QED
  BY <1>26, <1>27

\* No point is given more than its total.
LEMMA EinfachBounded ==
    ASSUME NEW total \in [Points -> Nat], NEW p \in Points, NEW x, x = EinfachModel(total)[p]
    PROVE  UpTo(x, total[p], 1)
<1>1. PICK made \in Nat : made = SumAt(total, Producers)
  BY SharesBounded
<1>2. PICK given : given = RatioSum(Shares(total))
  OBVIOUS
<1>3. (\A q \in Consumers : UpTo(Shares(total)[q], total[q], 1)) /\ UpTo(given, made, 1)
  BY <1>1, <1>2, SharesBounded
<1>4. PICK t \in Nat : t = total[p]
  OBVIOUS
<1>5. x = IF p \in Consumers THEN Shares(total)[p]
          ELSE IF made = 0 THEN <<0, 1>>
          ELSE Ratio(total[p] * given[1], made * given[2])
  BY <1>1, <1>2 DEF EinfachModel, CreditedBy, Split
<1>6. CASE p \in Consumers
  BY <1>3, <1>5, <1>6
<1>7. CASE p \notin Consumers /\ made = 0
  <2>1. x = <<0, 1>>
    BY <1>5, <1>7
  <2>2. 0 * 1 <= t * 1
    OBVIOUS
  <2> QED
    BY <1>4, <2>1, <2>2 DEF UpTo, Fraction
<1>8. CASE p \notin Consumers /\ made # 0
  <2>1. PICK g1 \in Nat, g2 \in Nat \ {0} : g1 = given[1] /\ g2 = given[2] /\ g1 * 1 <= made * g2
    BY <1>3 DEF UpTo, Fraction
  <2>2. PICK n \in Nat, d \in Nat \ {0} : n = t * g1 /\ d = made * g2
    <3>1. t * g1 \in Nat /\ made * g2 \in Nat \ {0}
      BY <1>8, ProductType
    <3> QED
      BY <3>1
  <2>3. Is(x, n, d)
    BY <1>4, <1>5, <1>8, <2>1, <2>2, RatioIs
  <2>4. n * 1 <= t * d
    <3>1. g1 <= d
      BY <2>1, <2>2
    <3>2. t * g1 <= t * d
      BY <2>2, <3>1
    <3> QED
      BY <2>2, <3>2
  <2>5. UpTo(x, t, 1)
    BY <2>3, <2>4, IsUpTo
  <2> QED
    BY <1>4, <2>5
<1> QED
  BY <1>6, <1>7, <1>8

\* No point of the proportional model is given more than its total.
LEMMA ProportionalBounded ==
    ASSUME NEW total \in [Points -> Nat], NEW p \in Points
    PROVE  UpTo(ProportionalModel(total)[p], total[p], 1)
<1>1. PICK S \in {Consumers, Producers} : p \in S
  BY DEF Points
<1>2. PICK sum, shared, x : /\ sum = SumAt(total, S) /\ x = ProportionalModel(total)[p]
                            /\ shared = Lesser(SumAt(total, Consumers), SumAt(total, Producers))
  OBVIOUS
<1>3. /\ total[p] \in Nat /\ sum \in Nat /\ shared \in Nat /\ shared <= sum
      /\ sum # 0 => Is(x, total[p] * shared, sum)
      /\ shared = 0 => x = <<0, 1>>
  BY <1>1, <1>2, ModelIs
<1>4. PICK t \in Nat : t = total[p]
  BY <1>3
<1>5. CASE sum = 0
  <2>1. x = <<0, 1>>
    BY <1>3, <1>5
  <2>2. 0 * 1 <= t * 1
    OBVIOUS
  <2> QED
    BY <1>2, <1>4, <2>1, <2>2 DEF UpTo, Fraction
<1>6. CASE sum # 0
  <2>1. PICK n \in Nat, d \in Nat \ {0} : n = t * shared /\ d = sum
    <3>1. t * shared \in Nat
      BY <1>3, ProductType
    <3> QED
      BY <1>3, <1>6, <3>1
  <2>2. Is(x, n, d) /\ n * 1 <= t * d
    <3>1. t * shared <= t * sum
      BY <1>3
    <3> QED
      BY <1>3, <1>4, <1>6, <2>1, <3>1
  <2>3. UpTo(x, t, 1)
    BY <2>2, IsUpTo
  <2> QED
    BY <1>2, <1>4, <2>3
<1> QED
  BY <1>5, <1>6

\* What the operator's models give every point is what it reports of it.
ModelOf(i) == IF i.model = "einfach" THEN EinfachModel(i.total) ELSE ProportionalModel(i.total)

LEMMA IntervalType ==
    ASSUME NEW i \in Intervals
    PROVE  /\ i.total \in [Points -> Nat] /\ Reports(i) = Rounded(i.total, ModelOf(i))
           /\ i.model \in {"proportional", "einfach"}
           /\ i.model = "einfach" => i.total \in [Points -> {n * Quantum : n \in Nat}]
           /\ \A p \in Points : UpTo(ModelOf(i)[p], i.total[p], 1)
<1>1. Loads \subseteq Nat /\ Quantum \in Nat
  BY AuditAssumption
<1>2. {n * Quantum : n \in Nat} \subseteq Nat
  BY <1>1
<1>3. i.total \in [Points -> Nat] /\ i.model \in {"proportional", "einfach"}
      /\ (i.model = "einfach" => i.total \in [Points -> {n * Quantum : n \in Nat}])
  <2>1. CASE i \in [model : {"proportional"}, total : [Points -> Loads]]
    BY <1>1, <2>1
  <2>2. CASE i \in [model : {"einfach"}, total : [Points -> {n * Quantum : n \in Loads}]]
    <3>1. {n * Quantum : n \in Loads} \subseteq {n * Quantum : n \in Nat}
      BY <1>1
    <3>2. i.model = "einfach" /\ i.total \in [Points -> {n * Quantum : n \in Loads}]
      BY <2>2
    <3> QED
      BY <1>2, <3>1, <3>2
  <2> QED
    BY <2>1, <2>2 DEF Intervals
<1>4. Reports(i) = Rounded(i.total, ModelOf(i))
  BY DEF Reports, ModelOf
<1>5. \A p \in Points : UpTo(ModelOf(i)[p], i.total[p], 1)
  <2> TAKE p \in Points
  <2>1. PICK total, x : total = i.total /\ x = EinfachModel(total)[p]
    OBVIOUS
  <2>2. UpTo(x, total[p], 1)
    BY <1>3, <2>1, EinfachBounded
  <2>3. UpTo(ProportionalModel(total)[p], total[p], 1)
    BY <1>3, <2>1, ProportionalBounded
  <2> QED
    BY <2>1, <2>2, <2>3 DEF ModelOf
<1> QED
  BY <1>3, <1>4, <1>5

LEMMA ReportsType ==
    ASSUME NEW i \in Intervals
    PROVE  Reports(i) \in [Points -> [Channels -> Nat]]
<1>1. PICK total, local : total = i.total /\ local = ModelOf(i)
  OBVIOUS
<1>2. total \in [Points -> Nat] /\ Reports(i) = Rounded(total, local)
      /\ \A p \in Points : UpTo(local[p], total[p], 1)
  BY <1>1, IntervalType
<1>3. ASSUME NEW p \in Points
      PROVE  Reports(i)[p] \in [Channels -> Nat]
  <2>1. PICK t, x, r : t \in Nat /\ t = total[p] /\ x = local[p] /\ r = Reports(i)[p]
    BY <1>2
  <2>2. r = [total |-> RoundHalfUp(<<t, 1>>), local |-> RoundHalfUp(x), residual |-> RoundHalfUp(Minus(t, x))]
    BY <1>2, <2>1 DEF Rounded
  <2>3. PICK n \in Nat, d \in Nat \ {0} : n = x[1] /\ d = x[2] /\ Is(x, n, d) /\ n <= t * d
    <3>1. UpTo(x, t, 1)
      BY <1>2, <2>1
    <3>2. x \in Fraction /\ x[1] * 1 <= t * x[2]
      BY <3>1 DEF UpTo
    <3>3. PICK n \in Nat, d \in Nat \ {0} : n = x[1] /\ d = x[2] /\ Is(x, n, d)
      BY <3>2, IsItself
    <3>4. n <= t * d
      BY <3>2, <3>3
    <3> QED
      BY <3>3, <3>4
  <2>4. r \in [Channels -> Nat]
    BY <2>1, <2>2, <2>3, ReportHolds
  <2> QED
    BY <2>1, <2>4
<1>4. Reports(i) = [p \in Points |-> Reports(i)[p]]
  BY <1>2 DEF Rounded
<1> QED
  BY <1>3, <1>4

\* A complete delivery reports every channel of every point.
LEMMA SourcesType ==
    ASSUME NEW i \in Intervals, NEW s \in Sources(i)
    PROVE  /\ DOMAIN s \subseteq Points
           /\ DOMAIN s = Points => s \in [Points -> [Channels -> Nat]]
<1>1. PICK r \in [Points -> [Channels -> Nat]] : r = Reports(i)
  BY ReportsType
<1>2. \/ s = r
      \/ \E p \in Points, c \in Channels : s \in Off(r, p, c)
      \/ \E p \in Points : s = [q \in Points \ {p} |-> r[q]]
  <2> DEFINE each == {Off(r, p, c) : p \in Points, c \in Channels}
             less == {[q \in Points \ {p} |-> r[q]] : p \in Points}
             off == UNION each
  <2>1. Departures(r) = ({r} \cup off) \cup less
    BY DEF Departures
  <2>2. ASSUME NEW t \in each
        PROVE  \E p \in Points, c \in Channels : t = Off(r, p, c)
    OBVIOUS
  <2>3. ASSUME s \in less
        PROVE  \E p \in Points : s = [q \in Points \ {p} |-> r[q]]
    BY <2>3
  <2> HIDE DEF each, less
  <2>4. ASSUME s \in off
        PROVE  \E p \in Points, c \in Channels : s \in Off(r, p, c)
    <3>1. PICK t \in each : s \in t
      BY <2>4
    <3> QED
      BY <2>2, <3>1
  <2> HIDE DEF off
  <2>5. s = r \/ s \in off \/ s \in less
    BY <1>1, <2>1 DEF Sources
  <2> QED
    BY <2>3, <2>4, <2>5
<1>3. ASSUME NEW p \in Points, NEW c \in Channels, s \in Off(r, p, c)
      PROVE  s \in [Points -> [Channels -> Nat]]
  <2>1. PICK v \in Nat : s = [r EXCEPT ![p][c] = v]
    BY <1>3 DEF Off
  <2>2. s = [r EXCEPT ![p] = [r[p] EXCEPT ![c] = v]]
    BY <2>1
  <2>3. [r[p] EXCEPT ![c] = v] \in [Channels -> Nat]
    OBVIOUS
  <2> QED
    BY <2>2, <2>3
<1>4. ASSUME NEW p \in Points, s = [q \in Points \ {p} |-> r[q]]
      PROVE  DOMAIN s \subseteq Points /\ DOMAIN s # Points
  BY <1>4
<1> QED
  BY <1>2, <1>3, <1>4

LEMMA RoundsWhole ==
    ASSUME NEW n \in Nat
    PROVE  RoundHalfUp(<<n * Quantum, 1>>) = n
<1>1. PICK q \in Nat \ {0} : q = Quantum
  BY AuditAssumption
<1>2. RoundHalfUp(<<n * Quantum, 1>>) = (2 * (n * q) + q) \div (2 * q)
  <2>1. 1 * q = q /\ 2 * 1 * q = 2 * q
    OBVIOUS
  <2> QED
    BY <1>1, <2>1 DEF RoundHalfUp
<1>3. PICK k \in Nat \ {0}, m \in Nat : k = 2 * q /\ m = 2 * (n * q) + q
  OBVIOUS
<1>4. m = n * k + q /\ q < k
  BY <1>3
<1>5. PICK v \in Nat : v = m \div k
  OBVIOUS
<1>6. PICK vk, nk \in Nat : vk = v * k /\ nk = n * k
  BY ProductType
<1>7. vk <= m /\ m < vk + k
  <2>1. m % k \in 0 .. k - 1 /\ m = (k * (m \div k)) + (m % k)
    OBVIOUS
  <2>2. k * v = vk
    BY <1>6
  <2>3. PICK z \in 0 .. k - 1 : z = m % k /\ m = vk + z
    BY <1>5, <2>1, <2>2
  <2> QED
    BY <2>3
<1>8. vk < nk + k /\ nk < vk + k
  BY <1>4, <1>6, <1>7
<1>9. (n + 1) * k = nk + k /\ (v + 1) * k = vk + k
  BY <1>6
<1>10. v < n + 1 /\ n < v + 1
  <2>1. v * k < (n + 1) * k /\ n * k < (v + 1) * k
    BY <1>6, <1>8, <1>9
  <2> QED
    BY <2>1, Cancel
<1>11. v = n
  BY <1>10
<1> QED
  BY <1>2, <1>3, <1>5, <1>11

\* An honest einfach delivery is certified.
LEMMA HonestEinfach ==
    ASSUME interval \in Intervals, interval.model = "einfach", source = Reports(interval)
    PROVE  _einfach_interval_witness = Resolved(<<1, 1>>)
<1>1. PICK total, model : total = interval.total /\ model = ModelOf(interval)
  OBVIOUS
<1>2. /\ total \in [Points -> Nat] /\ source = Rounded(total, model)
      /\ total \in [Points -> {n * Quantum : n \in Nat}]
      /\ \A p \in Points : UpTo(model[p], total[p], 1)
  BY <1>1, IntervalType
<1>3. model = EinfachModel(total)
  BY <1>1 DEF ModelOf
<1>4. \A p \in Points : source[p].total * Quantum = total[p]
  <2> TAKE p \in Points
  <2>1. PICK n \in Nat : total[p] = n * Quantum
    BY <1>2
  <2>2. source[p].total = RoundHalfUp(<<total[p], 1>>)
    BY <1>2 DEF Rounded
  <2> QED
    BY <2>1, <2>2, RoundsWhole
<1>5. [p \in Points |-> source[p].total * Quantum] = total
  BY <1>2, <1>4
<1>6. ASSUME NEW p \in Points
      PROVE  /\ Within(model[p], Row(p).local)
             /\ Within(Minus(total[p], model[p]), Row(p).residual)
  <2>1. PICK t, x : t \in Nat /\ t = total[p] /\ x = model[p]
    BY <1>2
  <2>2. x \in Fraction /\ x[1] * 1 <= t * x[2]
    BY <1>2, <2>1 DEF UpTo
  <2>3. PICK n \in Nat, d \in Nat \ {0} : n = x[1] /\ d = x[2] /\ Is(x, n, d)
    BY <2>2, IsItself
  <2>4. n <= t * d
    BY <2>2, <2>3
  <2>5. Holds(Row(p), t, n, d)
    BY <1>2, <2>1, <2>3, <2>4, HonestRow
  <2>6. Row(p).local \in Cell /\ Row(p).residual \in Cell
    BY <2>5 DEF Holds
  <2>7. PICK ll, lu, rl, ru \in Nat : /\ ll = Row(p).local.lower /\ lu = Row(p).local.upper
                                      /\ rl = Row(p).residual.lower /\ ru = Row(p).residual.upper
    BY <2>6 DEF Cell
  <2>8. ll * d <= n /\ n < lu * d /\ rl * d <= t * d - n /\ t * d - n < ru * d
    BY <2>5, <2>7 DEF Holds
  <2>9. PICK y, m : y = Minus(t, x) /\ m = t * d - n /\ Is(y, m, d) /\ m \in Nat
    <3>1. t \in Nat
      BY <2>1
    <3>2. Is(Minus(t, x), t * d - n, d) /\ t * d - n \in Nat
      BY <2>3, <2>4, <3>1, MinusIs
    <3> QED
      BY <3>2
  <2>10. ASSUME NEW z, NEW k \in Nat, Is(z, k, d), NEW l \in Nat, NEW u \in Nat,
                l * d <= k, k < u * d
         PROVE  ~Less(z, <<l, 1>>) /\ Less(z, <<u, 1>>)
    <3>1. Is(<<l, 1>>, l, 1) /\ Is(<<u, 1>>, u, 1)
      BY DEF Is, Fraction
    <3>2. Less(z, <<l, 1>>) <=> k * 1 < l * d
      BY <2>10, <3>1, LessIs
    <3>3. Less(z, <<u, 1>>) <=> k * 1 < u * d
      BY <2>10, <3>1, LessIs
    <3>4. PICK a, b \in Int : a = l * d /\ b = u * d
      OBVIOUS
    <3> QED
      BY <2>10, <3>2, <3>3, <3>4
  <2>11. ~Less(x, <<ll, 1>>) /\ Less(x, <<lu, 1>>)
    BY <2>3, <2>7, <2>8, <2>10
  <2>12. ~Less(y, <<rl, 1>>) /\ Less(y, <<ru, 1>>)
    BY <2>7, <2>8, <2>9, <2>10
  <2> QED
    BY <2>1, <2>7, <2>9, <2>11, <2>12 DEF Within
<1>7. Explained(total, model)
  BY <1>6 DEF Explained
<1> QED
  BY <1>3, <1>5, <1>7 DEF _einfach_interval_witness

-----------------------------------------------------------------------------
(* The audit.                                                              *)

AuditIInv ==
    /\ AuditTypeOK /\ source \in Sources(interval) /\ AuditIsSound

LEMMA AuditStarts == AuditInit => AuditIInv
<1> SUFFICES ASSUME AuditInit
             PROVE  AuditIInv
  OBVIOUS
<1>1. interval \in Intervals /\ source \in Sources(interval) /\ verdict = NoWitness
  BY DEF AuditInit
<1>2. verdict.outcome = "none"
  BY <1>1 DEF NoWitness
<1>3. DOMAIN source \subseteq Points
  BY <1>1, SourcesType
<1> QED
  BY <1>1, <1>2, <1>3 DEF AuditIInv, AuditTypeOK, AuditIsSound, HonestSourcesStand, CertificateIsAWitness

\* What one audit finds is sound.
LEMMA AuditFinds ==
    ASSUME interval \in Intervals, source \in Sources(interval), NEW w,
           w = CASE ~_group_source -> [outcome |-> "incomplete_vnb_source"]
                 [] _group_source /\ interval.model = "einfach" -> _einfach_interval_witness
                 [] OTHER -> _interval_witness
    PROVE  /\ w.outcome \in {"certified", "unresolved_vnb_rounding_boundary",
                             "unresolved_vnb_einfach_rounding", "allocation_disagreement",
                             "incomplete_vnb_source"}
           /\ source = Reports(interval) => w.outcome \in {"certified", "unresolved_vnb_rounding_boundary"}
           /\ w.outcome = "certified" /\ interval.model = "proportional"
                /\ w.ratio \notin {<<0, 1>>, <<1, 1>>}
                => \E side \in {Consumers, Producers} : Certifies(w.ratio, side)
<1>1. \A ratio : Resolved(ratio).outcome = "certified" /\ Resolved(ratio).ratio = ratio
  BY DEF Resolved
<1>2. Unresolved.outcome = "unresolved_vnb_rounding_boundary"
  BY DEF Unresolved
<1>3. interval.model \in {"proportional", "einfach"}
  BY IntervalType
<1>4. CASE ~_group_source
  <2>1. w = [outcome |-> "incomplete_vnb_source"]
    BY <1>4
  <2>2. source # Reports(interval)
    <3>1. DOMAIN Reports(interval) = Points
      BY ReportsType
    <3> QED
      BY <1>4, <3>1 DEF _group_source
  <2> QED
    BY <2>1, <2>2
<1>5. CASE _group_source /\ interval.model = "einfach"
  <2>1. w = _einfach_interval_witness
    BY <1>5
  <2>2. w = Resolved(<<1, 1>>) \/ w = [outcome |-> "unresolved_vnb_einfach_rounding"]
    BY <2>1 DEF _einfach_interval_witness
  <2>3. w.outcome \in {"certified", "unresolved_vnb_einfach_rounding"}
    BY <1>1, <2>2
  <2>4. source = Reports(interval) => w.outcome = "certified"
    BY <1>1, <1>5, <2>1, HonestEinfach
  <2> QED
    BY <1>5, <2>3, <2>4
<1>6. CASE _group_source /\ interval.model = "proportional"
  <2>1. w = _interval_witness
    BY <1>6
  <2>2. source \in [Points -> [Channels -> Nat]]
    BY <1>6, SourcesType DEF _group_source
  <2>3. \/ w = Resolved(<<0, 1>>)
        \/ w = Resolved(<<1, 1>>)
        \/ \E side \in {Consumers, Producers} : \E ratio : w = Resolved(ratio) /\ Certifies(ratio, side)
        \/ w = Unresolved
        \/ w = [outcome |-> "allocation_disagreement"]
    BY <2>1, <2>2, WitnessIsOne
  <2>4. w.outcome \in {"certified", "unresolved_vnb_rounding_boundary", "allocation_disagreement"}
    BY <1>1, <1>2, <2>3
  <2>5. w.outcome = "certified" /\ w.ratio \notin {<<0, 1>>, <<1, 1>>}
          => \E side \in {Consumers, Producers} : Certifies(w.ratio, side)
    BY <1>1, <1>2, <2>3
  <2>6. ASSUME source = Reports(interval)
        PROVE  w.outcome \in {"certified", "unresolved_vnb_rounding_boundary"}
    <3>1. PICK total : total = interval.total /\ total \in [Points -> Nat]
                       /\ source = Rounded(total, ModelOf(interval))
      BY <2>6, IntervalType
    <3>2. source = Rounded(total, ProportionalModel(total))
      BY <1>6, <3>1 DEF ModelOf
    <3> QED
      BY <2>1, <2>2, <3>1, <3>2, HonestStands
  <2> QED
    BY <2>4, <2>5, <2>6
<1> QED
  BY <1>3, <1>4, <1>5, <1>6

\* A certificate depends on what was delivered alone.
LEMMA SameCertificate ==
    ASSUME source' = source
    PROVE  \A r, side : Certifies(r, side)' <=> Certifies(r, side)
<1>1. \A p : Row(p)' = Row(p)
  BY DEF Row
<1>2. ASSUME NEW r, NEW p
      PROVE  AtLeast(r, p)' = AtLeast(r, p) /\ AtMost(r, p)' = AtMost(r, p)
  BY <1>1 DEF AtLeast, AtMost, AllocatedAt
<1>3. ASSUME NEW side
      PROVE  (UsedUp(side)' <=> UsedUp(side)) /\ _fully_used(side)' = _fully_used(side)
  <2>1. UsedUp(side)' <=> UsedUp(side)
    BY <1>1 DEF UsedUp
  <2>2. _fully_used(side)' = _fully_used(side)
    BY <1>1 DEF _fully_used
  <2> QED
    BY <2>1, <2>2
<1>4. ASSUME NEW r, NEW side, NEW available
      PROVE  /\ TooMuch(r, side, available)' <=> TooMuch(r, side, available)
             /\ TooLittle(r, side, available)' <=> TooLittle(r, side, available)
  <2>1. [p \in side |-> AtLeast(r, p)]' = [p \in side |-> AtLeast(r, p)]
    BY <1>2
  <2>2. [p \in side |-> AtMost(r, p)]' = [p \in side |-> AtMost(r, p)]
    BY <1>2
  <2> QED
    BY <2>1, <2>2 DEF TooMuch, TooLittle
<1> QED
  BY <1>2, <1>3, <1>4 DEF Certifies

LEMMA AuditKeeps == AuditIInv /\ [AuditNext]_auditVars => AuditIInv'
<1> SUFFICES ASSUME AuditIInv, [AuditNext]_auditVars
             PROVE  AuditIInv'
  OBVIOUS
<1>1. CASE audit_e66
  <2>1. PICK w : w = verdict'
    OBVIOUS
  <2>2. /\ w = CASE ~_group_source -> [outcome |-> "incomplete_vnb_source"]
                 [] _group_source /\ interval.model = "einfach" -> _einfach_interval_witness
                 [] OTHER -> _interval_witness
        /\ interval' = interval /\ source' = source
    BY <1>1, <2>1 DEF audit_e66
  <2>3. interval \in Intervals /\ source \in Sources(interval) /\ DOMAIN source \subseteq Points
    BY DEF AuditIInv, AuditTypeOK
  <2>4. /\ w.outcome \in {"certified", "unresolved_vnb_rounding_boundary",
                          "unresolved_vnb_einfach_rounding", "allocation_disagreement",
                          "incomplete_vnb_source"}
        /\ source = Reports(interval) => w.outcome \in {"certified", "unresolved_vnb_rounding_boundary"}
        /\ w.outcome = "certified" /\ interval.model = "proportional"
             /\ w.ratio \notin {<<0, 1>>, <<1, 1>>}
             => \E side \in {Consumers, Producers} : Certifies(w.ratio, side)
    BY <2>2, <2>3, AuditFinds
  <2>5. AuditTypeOK'
    BY <2>1, <2>2, <2>3, <2>4 DEF AuditTypeOK
  <2>6. HonestSourcesStand'
    BY <2>1, <2>2, <2>4 DEF HonestSourcesStand
  <2>7. \A r, side : Certifies(r, side)' <=> Certifies(r, side)
    BY <2>2, SameCertificate
  <2>8. CertificateIsAWitness'
    BY <2>1, <2>2, <2>4, <2>7 DEF CertificateIsAWitness, Certifies
  <2>9. source' \in Sources(interval')
    BY <2>2, <2>3
  <2> QED
    BY <2>5, <2>6, <2>8, <2>9 DEF AuditIInv, AuditIsSound
<1>2. CASE UNCHANGED auditVars
  <2>1. interval' = interval /\ source' = source /\ verdict' = verdict
    BY <1>2 DEF auditVars
  <2>2. \A r, side : Certifies(r, side)' <=> Certifies(r, side)
    BY <2>1, SameCertificate
  <2>3. CertificateIsAWitness'
    BY <2>1, <2>2 DEF AuditIInv, AuditIsSound, CertificateIsAWitness, Certifies
  <2> QED
    BY <2>1, <2>3 DEF AuditIInv, AuditTypeOK, AuditIsSound, HonestSourcesStand
<1> QED
  BY <1>1, <1>2 DEF AuditNext

\* A delivery that follows the grid operator's model is never called a
\* disagreement, and a certificate's ratio explains every rounding cell it
\* was found for.
THEOREM AuditIsSoundHolds == AuditSpec => []AuditIsSound
<1>1. AuditIInv => AuditIsSound
  BY DEF AuditIInv
<1> QED
  BY <1>1, AuditStarts, AuditKeeps, PTL DEF AuditSpec
=============================================================================
