------------------------- MODULE ZoomedImageProofs -------------------------
(* Theorems about ZoomedImage for any pictures, windows and pointers.      *)
(* The doubles of zoom.h are fractions, so the proofs work them out over   *)
(* one denominator and compare the numerators.                             *)
EXTENDS ZoomedImage, WellFoundedInduction, TLAPS

(* A set of naturals that is not empty has a least element.                *)
LEMMA LeastNatural ==
  ASSUME NEW I, I \subseteq Nat, I # {}
  PROVE  \E i \in I : \A j \in I : i <= j
<1>1. PICK i \in I : \A j \in I : <<j, i>> \notin OpToRel(<, Nat)
  BY WFMin, NatLessThanWellFounded
<1>2. \A j \in I : ~ (j < i)
  BY <1>1 DEF OpToRel
<1> QED BY <1>2

(* What Divisor has at n, and the part of it up to a number.               *)
Row(f, n) == [m \in Nat |-> IF n = 0 THEN m ELSE f[m % n][n]]
DividesUpTo(f, most) == f = [n \in 0 .. most |-> Row(f, n)]

(* A remainder is smaller than what is divided by.                         *)
LEMMA Remainders ==
  ASSUME NEW m \in Nat, NEW n \in Nat \ {0}
  PROVE  m % n \in 0 .. n - 1 /\ m \div n \in Nat
         /\ m = n * (m \div n) + (m % n)
OBVIOUS

(* What it has at n is made of what it has before.                         *)
LEMMA SameRow ==
  ASSUME NEW f, NEW g, NEW n \in Nat, \A r \in 0 .. n - 1 : f[r] = g[r]
  PROVE  Row(f, n) = Row(g, n)
<1>1. ASSUME NEW m \in Nat
      PROVE  (IF n = 0 THEN m ELSE f[m % n][n]) = (IF n = 0 THEN m ELSE g[m % n][n])
  <2>1. CASE n = 0
    BY <2>1
  <2>2. CASE n # 0
    <3>1. m % n \in 0 .. n - 1
      BY <2>2, Remainders
    <3> QED BY <3>1
  <2> QED BY <2>1, <2>2
<1> QED BY <1>1 DEF Row

(* There is a part up to each number.                                      *)
LEMMA PartsExist == \A most \in Nat : \E f : DividesUpTo(f, most)
<1> DEFINE Missing == {i \in Nat : ~ \E f : DividesUpTo(f, i)}
<1>1. SUFFICES ASSUME Missing # {} PROVE FALSE
  OBVIOUS
<1>2. PICK i \in Missing : \A j \in Missing : i <= j
  <2>1. Missing \subseteq Nat
    OBVIOUS
  <2> QED BY <1>1, <2>1, LeastNatural
<1>3. i \in Nat /\ \A j \in Nat : j < i => \E f : DividesUpTo(f, j)
  BY <1>2
<1>4. PICK g : \A n \in 0 .. i - 1 : g[n] = Row(g, n)
  <2>1. CASE i = 0
    BY <2>1
  <2>2. CASE i # 0
    <3>1. i - 1 \in Nat /\ i - 1 < i
      BY <1>3, <2>2
    <3>2. PICK g : DividesUpTo(g, i - 1)
      BY <1>3, <3>1
    <3> QED BY <3>2 DEF DividesUpTo
  <2> QED BY <2>1, <2>2
<1> DEFINE f == [n \in 0 .. i |-> Row(g, n)]
<1>5. ASSUME NEW n \in 0 .. i PROVE Row(g, n) = Row(f, n)
  <2>1. \A r \in 0 .. n - 1 : g[r] = f[r]
    BY <1>3, <1>4
  <2> HIDE DEF f
  <2> QED BY <1>3, <2>1, SameRow
<1>6. f = [n \in 0 .. i |-> Row(f, n)]
  <2>1. DOMAIN f = 0 .. i /\ \A n \in 0 .. i : f[n] = Row(f, n)
    BY <1>5
  <2>2. f = [n \in DOMAIN f |-> f[n]]
    OBVIOUS
  <2> HIDE DEF f
  <2> QED BY <2>1, <2>2
<1> HIDE DEF f
<1> QED BY <1>2, <1>6 DEF DividesUpTo

(* The parts agree.                                                        *)
LEMMA PartsAgree ==
  ASSUME NEW f, NEW g, NEW most \in Nat, NEW more \in Nat,
         DividesUpTo(f, most), DividesUpTo(g, more)
  PROVE  \A n \in 0 .. most : n <= more => f[n] = g[n]
<1> DEFINE Differ == {n \in 0 .. most : n <= more /\ f[n] # g[n]}
<1>1. SUFFICES ASSUME Differ # {} PROVE FALSE
  OBVIOUS
<1>2. PICK n \in Differ : \A j \in Differ : n <= j
  <2>1. Differ \subseteq Nat
    OBVIOUS
  <2> QED BY <1>1, <2>1, LeastNatural
<1>3. /\ n \in 0 .. most /\ n \in 0 .. more /\ f[n] # g[n]
      /\ \A j \in 0 .. most : j < n => f[j] = g[j]
  BY <1>2
<1>4. f[n] = Row(f, n) /\ g[n] = Row(g, n)
  BY <1>3 DEF DividesUpTo
<1>5. n \in Nat /\ \A r \in 0 .. n - 1 : f[r] = g[r]
  BY <1>3
<1> QED BY <1>3, <1>4, <1>5, SameRow

(* What Divisor is made of.                                                *)
LEMMA DivisorUnfolds ==
  \A m, n \in Nat : Divisor[n][m] = IF n = 0 THEN m ELSE Divisor[m % n][n]
<1> DEFINE part(most) == CHOOSE f : DividesUpTo(f, most)
           whole == [n \in Nat |-> part(n)[n]]
<1>1. \A most \in Nat : DividesUpTo(part(most), most)
  BY PartsExist
<1> HIDE DEF part
<1>2. ASSUME NEW n \in Nat PROVE whole[n] = Row(whole, n)
  <2>1. part(n)[n] = Row(part(n), n)
    <3>1. n \in 0 .. n
      OBVIOUS
    <3> QED BY <1>1, <3>1 DEF DividesUpTo
  <2>2. ASSUME NEW r \in 0 .. n - 1 PROVE part(n)[r] = whole[r]
    <3>1. r \in Nat /\ r \in 0 .. r /\ r <= n
      OBVIOUS
    <3>2. part(r)[r] = part(n)[r]
      BY <1>1, <3>1, PartsAgree
    <3> QED BY <3>1, <3>2
  <2>3. whole[n] = part(n)[n]
    OBVIOUS
  <2> HIDE DEF whole
  <2> QED BY <2>1, <2>2, <2>3, SameRow
<1>3. whole = [n \in Nat |-> Row(whole, n)]
  <2>1. whole = [n \in Nat |-> whole[n]]
    OBVIOUS
  <2> HIDE DEF whole
  <2> QED BY <1>2, <2>1
<1> HIDE DEF whole
<1>4. Divisor = CHOOSE f : f = [n \in Nat |-> Row(f, n)]
  BY DEF Divisor, Row
<1>5. Divisor = [n \in Nat |-> Row(Divisor, n)]
  BY <1>3, <1>4
<1>6. \A n \in Nat : Divisor[n] = Row(Divisor, n)
  BY <1>5
<1> QED BY <1>6 DEF Row

Divides(d, n) == \E k \in Nat : n = d * k

(* It divides both, and is not zero unless both are.                       *)
LEMMA DivisorDivides ==
  \A n, m \in Nat : m # 0 \/ n # 0 =>
     /\ Divisor[n][m] \in Nat \ {0}
     /\ Divides(Divisor[n][m], m) /\ Divides(Divisor[n][m], n)
<1> DEFINE Sound(n) == \A m \in Nat : m # 0 \/ n # 0 =>
                          /\ Divisor[n][m] \in Nat \ {0}
                          /\ Divides(Divisor[n][m], m)
                          /\ Divides(Divisor[n][m], n)
           Wrong == {n \in Nat : ~Sound(n)}
<1>1. SUFFICES ASSUME Wrong # {} PROVE FALSE
  OBVIOUS
<1> HIDE DEF Sound
<1>2. PICK n \in Wrong : \A j \in Wrong : n <= j
  <2>1. Wrong \subseteq Nat
    OBVIOUS
  <2> QED BY <1>1, <2>1, LeastNatural
<1>3. n \in Nat /\ ~Sound(n) /\ \A j \in Nat : j < n => Sound(j)
  BY <1>2
<1>4. ASSUME NEW m \in Nat, m # 0 \/ n # 0
      PROVE  /\ Divisor[n][m] \in Nat \ {0}
             /\ Divides(Divisor[n][m], m) /\ Divides(Divisor[n][m], n)
  <2>1. CASE n = 0
    <3>1. Divisor[n][m] = m /\ m \in Nat \ {0}
      BY <1>4, <2>1, DivisorUnfolds
    <3>2. m = m * 1 /\ 0 = m * 0
      OBVIOUS
    <3> QED BY <2>1, <3>1, <3>2 DEF Divides
  <2>2. CASE n # 0
    <3> DEFINE r == m % n
               q == m \div n
               d == Divisor[r][n]
    <3>1. r \in 0 .. n - 1 /\ q \in Nat /\ m = n * q + r
      BY <1>3, <2>2, Remainders
    <3>2. Divisor[n][m] = d
      BY <1>3, <2>2, DivisorUnfolds
    <3> HIDE DEF r, q
    <3>3. d \in Nat \ {0} /\ Divides(d, n) /\ Divides(d, r)
      <4>1. r \in Nat /\ r < n
        BY <1>3, <3>1
      <4>2. Sound(r)
        BY <1>3, <4>1
      <4> QED BY <1>3, <2>2, <4>2 DEF Sound
    <3> HIDE DEF d
    <3>4. PICK a \in Nat, b \in Nat : n = d * a /\ r = d * b
      BY <3>3 DEF Divides
    <3>5. m = d * (a * q + b) /\ a * q + b \in Nat
      <4>1. d * (a * q + b) = (d * a) * q + d * b
        BY <3>1, <3>3
      <4>2. a * q + b \in Nat
        BY <3>1
      <4> QED BY <3>1, <3>4, <4>1, <4>2
    <3> QED BY <3>2, <3>3, <3>5 DEF Divides
  <2> QED BY <2>1, <2>2
<1>5. Sound(n)
  BY <1>4 DEF Sound
<1> QED BY <1>3, <1>5

(* A division that leaves no remainder.                                    *)
LEMMA ExactQuotient ==
  ASSUME NEW d \in Nat \ {0}, NEW k \in Int
  PROVE  (d * k) \div d = k
<1> DEFINE q == (d * k) \div d
           r == (d * k) % d
<1>1. q \in Int /\ r \in 0 .. d - 1 /\ d * k = d * q + r
  OBVIOUS
<1> HIDE DEF q, r
<1>2. d * (k - q) = r /\ k - q \in Int
  BY <1>1
<1>3. ~(k - q > 0)
  <2> SUFFICES ASSUME k - q > 0 PROVE FALSE
    OBVIOUS
  <2>1. PICK j \in Nat : k - q = j + 1
    <3>1. k - q - 1 \in Nat /\ k - q = (k - q - 1) + 1
      BY <1>2
    <3> QED BY <3>1
  <2>2. d * (k - q) = d * j + d /\ d * j \in Nat
    BY <2>1
  <2> QED BY <1>1, <1>2, <2>2
<1>4. ~(k - q < 0)
  <2> SUFFICES ASSUME k - q < 0 PROVE FALSE
    OBVIOUS
  <2>1. PICK j \in Nat : k - q = -(j + 1)
    <3>1. q - k - 1 \in Nat /\ k - q = -((q - k - 1) + 1)
      BY <1>1
    <3> QED BY <3>1
  <2>2. d * (k - q) = -(d * j) - d /\ d * j \in Nat
    BY <2>1
  <2> QED BY <1>1, <1>2, <2>2
<1>5. k = q
  BY <1>1, <1>2, <1>3, <1>4
<1> QED BY <1>5 DEF q

(* Equal products of equal factors.                                        *)
LEMMA Cancelled ==
  ASSUME NEW x \in Int, NEW y \in Int, NEW c \in Int, c # 0, x * c = y * c
  PROVE  x = y
<1>1. (x - y) * c = 0
  OBVIOUS
<1>2. x - y \in Int /\ (x - y = 0 \/ x - y < 0 \/ x - y > 0)
  OBVIOUS
<1> DEFINE e == x - y
<1> HIDE DEF e
<1>3. e \in Int /\ e * c = 0
  BY <1>1, <1>2 DEF e
<1>4. e = 0
  BY <1>3
<1> QED BY <1>4 DEF e

Fractions == Int \X (Nat \ {0})

(* Reducing keeps the value.                                               *)
LEMMA RatioKeepsValue ==
  ASSUME NEW n \in Int, NEW d \in Int \ {0}
  PROVE  /\ Ratio(n, d) \in Fractions
         /\ Ratio(n, d)[1] * d = n * Ratio(n, d)[2]
<1> DEFINE D == Divisor[Size(d)][Size(n)]
           g == D * (IF d < 0 THEN -1 ELSE 1)
<1>1. Size(n) \in Nat /\ Size(d) \in Nat \ {0}
  BY DEF Size
<1>2. /\ D \in Nat \ {0}
      /\ Divides(D, Size(n)) /\ Divides(D, Size(d))
  BY <1>1, DivisorDivides
<1> HIDE DEF D
<1>3. PICK a \in Nat, b \in Nat : Size(n) = D * a /\ Size(d) = D * b
  BY <1>2 DEF Divides
<1>4. Size(g) = D /\ (g < 0 <=> d < 0)
  BY <1>2 DEF Size
<1> HIDE DEF g
<1>5. b \in Nat \ {0} /\ Size(d) \div Size(g) = b
  <2>1. b # 0
    <3> SUFFICES ASSUME b = 0 PROVE FALSE
      OBVIOUS
    <3>1. D * b = 0
      BY <1>2
    <3> QED BY <1>1, <1>3, <3>1
  <2>2. (D * b) \div D = b
    BY <1>2, ExactQuotient
  <2> QED BY <1>3, <1>4, <2>1, <2>2
<1> DEFINE e == IF n < 0 THEN -a ELSE a
           f == IF d < 0 THEN -1 ELSE 1
           top == IF g < 0 THEN -n ELSE n
<1>6. n = D * e /\ d = f * (D * b) /\ e \in Int /\ f \in {-1, 1}
  <2>1. D * (-a) = -(D * a)
    BY <1>2
  <2>2. n = IF n < 0 THEN -Size(n) ELSE Size(n)
    BY DEF Size
  <2>3. d = IF d < 0 THEN -Size(d) ELSE Size(d)
    BY DEF Size
  <2> DEFINE x == D * a   y == D * b
  <2>4. x \in Nat /\ y \in Nat
    BY <1>2
  <2> HIDE DEF x, y
  <2>5. n = (IF n < 0 THEN -x ELSE x) /\ d = f * y
    BY <1>3, <2>2, <2>3, <2>4 DEF x, y
  <2> QED BY <1>2, <2>1, <2>5 DEF x, y
<1>7. top = D * (f * e) /\ f * e \in Int
  <2>1. D * (-e) = -(D * e) /\ -e \in Int
    BY <1>2, <1>6
  <2>2. f * e = (IF d < 0 THEN -e ELSE e)
    BY <1>6
  <2> HIDE DEF e
  <2> QED BY <1>4, <1>6, <2>1, <2>2
<1>8. top \div Size(g) = f * e
  BY <1>2, <1>4, <1>7, ExactQuotient
<1>9. Ratio(n, d) = <<f * e, b>>
  BY <1>5, <1>8 DEF Ratio, D, g
<1>10. (f * e) * d = n * b
  <2> HIDE DEF e, f
  <2> DEFINE h == e * (D * b)
  <2>1. (f * e) * (f * (D * b)) = h /\ (D * e) * b = h
    BY <1>2, <1>5, <1>6
  <2> QED BY <1>6, <2>1
<1> QED BY <1>5, <1>7, <1>9, <1>10 DEF Fractions

(* The fraction p has the value n over d.                                  *)
IsOver(p, n, d) == /\ p \in Fractions /\ n \in Int /\ d \in Nat \ {0}
                   /\ p[1] * d = n * p[2]

(* A fraction is its numerator over its denominator.                       *)
LEMMA FractionIsOver ==
  ASSUME NEW p \in Fractions
  PROVE  IsOver(p, p[1], p[2])
BY DEF IsOver, Fractions

(* A reduced fraction has the value it was reduced from.                   *)
LEMMA RatioIsOver ==
  ASSUME NEW n \in Int, NEW d \in Nat \ {0}
  PROVE  IsOver(Ratio(n, d), n, d)
BY RatioKeepsValue DEF IsOver

(* A whole number is over one.                                             *)
LEMMA WholeIsOver ==
  ASSUME NEW n \in Int
  PROVE  IsOver(Whole(n), n, 1)
BY DEF IsOver, Fractions, Whole

(* A value stays the same over a multiple, and over what it was reduced    *)
(* from.                                                                   *)
LEMMA Expanded ==
  ASSUME NEW p, NEW n, NEW d, IsOver(p, n, d), NEW k \in Nat \ {0}
  PROVE  IsOver(p, n * k, d * k)
<1>1. /\ p \in Fractions /\ n \in Int /\ d \in Nat \ {0}
      /\ p[1] * d = n * p[2] /\ p[1] \in Int /\ p[2] \in Nat \ {0}
  BY DEF IsOver, Fractions
<1>2. d * k \in Nat \ {0} /\ n * k \in Int
  BY <1>1
<1>3. p[1] * (d * k) = (p[1] * d) * k /\ (n * k) * p[2] = (n * p[2]) * k
  BY <1>1
<1> QED BY <1>1, <1>2, <1>3 DEF IsOver

(* Of what is equal times equal.                                           *)
LEMMA ReducedIsOver ==
  ASSUME NEW r, NEW x, NEW y, IsOver(r, x, y),
         NEW n \in Int, NEW d \in Nat \ {0}, x * d = n * y
  PROVE  IsOver(r, n, d)
<1>1. /\ r \in Fractions /\ x \in Int /\ y \in Nat \ {0}
      /\ r[1] * y = x * r[2] /\ r[1] \in Int /\ r[2] \in Nat \ {0}
  BY DEF IsOver, Fractions
<1> DEFINE a == r[1]
           b == r[2]
<1> HIDE DEF a, b
<1>2. a \in Int /\ b \in Int /\ a * y = x * b
  BY <1>1 DEF a, b
<1>3. (a * d) * y = (n * b) * y
  <2>1. (a * d) * y = (a * y) * d /\ (x * b) * d = (x * d) * b
        /\ (n * y) * b = (n * b) * y
    BY <1>1, <1>2
  <2> QED BY <1>2, <2>1
<1>4. a * d = n * b
  <2>1. a * d \in Int /\ n * b \in Int
    BY <1>2
  <2> QED BY <1>1, <1>3, <2>1, Cancelled
<1> QED BY <1>1, <1>4 DEF IsOver, a, b

(* Sums over the same denominator.                                         *)
LEMMA PlusIsOver ==
  ASSUME NEW p, NEW q, NEW n, NEW m, NEW d, IsOver(p, n, d), IsOver(q, m, d)
  PROVE  IsOver(Plus(p, q), n + m, d)
<1> DEFINE a == p[1]
           b == p[2]
           u == q[1]
           v == q[2]
<1>1. /\ a \in Int /\ b \in Nat \ {0} /\ u \in Int /\ v \in Nat \ {0}
      /\ n \in Int /\ m \in Int /\ d \in Nat \ {0}
      /\ a * d = n * b /\ u * d = m * v
  BY DEF IsOver, Fractions
<1>2. Plus(p, q) = Ratio(a * v + u * b, b * v)
  BY DEF Plus
<1> HIDE DEF a, b, u, v
<1>3. a * v + u * b \in Int /\ b * v \in Nat \ {0}
  BY <1>1
<1>4. IsOver(Plus(p, q), a * v + u * b, b * v)
  BY <1>2, <1>3, RatioIsOver
<1>5. (a * v + u * b) * d = (n + m) * (b * v)
  <2>1. (a * v + u * b) * d = (a * d) * v + (u * d) * b
    BY <1>1
  <2>2. (n * b) * v + (m * v) * b = (n + m) * (b * v)
    BY <1>1
  <2> QED BY <1>1, <2>1, <2>2
<1>6. n + m \in Int
  BY <1>1
<1> QED BY <1>1, <1>4, <1>5, <1>6, ReducedIsOver

(* Differences over the same denominator.                                  *)
LEMMA MinusIsOver ==
  ASSUME NEW p, NEW q, NEW n, NEW m, NEW d, IsOver(p, n, d), IsOver(q, m, d)
  PROVE  IsOver(Minus(p, q), n - m, d)
<1>1. IsOver(<<-q[1], q[2]>>, -m, d)
  <2>1. /\ q[1] \in Int /\ q[2] \in Nat \ {0} /\ m \in Int /\ d \in Nat \ {0}
        /\ q[1] * d = m * q[2]
    BY DEF IsOver, Fractions
  <2>2. (-q[1]) * d = -(q[1] * d) /\ (-m) * q[2] = -(m * q[2])
    BY <2>1
  <2>3. (-q[1]) * d = (-m) * q[2] /\ -q[1] \in Int /\ -m \in Int
    BY <2>1, <2>2
  <2> QED BY <2>1, <2>3 DEF IsOver, Fractions
<1>2. IsOver(Minus(p, q), n + (-m), d)
  BY <1>1, PlusIsOver DEF Minus
<1>3. n + (-m) = n - m
  BY DEF IsOver
<1> QED BY <1>2, <1>3

(* Products over the product of the denominators.                          *)
LEMMA TimesIsOver ==
  ASSUME NEW p, NEW q, NEW n, NEW m, NEW d, NEW e,
         IsOver(p, n, d), IsOver(q, m, e)
  PROVE  IsOver(Times(p, q), n * m, d * e)
<1> DEFINE a == p[1]
           b == p[2]
           u == q[1]
           v == q[2]
<1>1. /\ a \in Int /\ b \in Nat \ {0} /\ u \in Int /\ v \in Nat \ {0}
      /\ n \in Int /\ m \in Int /\ d \in Nat \ {0} /\ e \in Nat \ {0}
      /\ a * d = n * b /\ u * e = m * v
  BY DEF IsOver, Fractions
<1>2. Times(p, q) = Ratio(a * u, b * v)
  BY DEF Times
<1> HIDE DEF a, b, u, v
<1>3. /\ a * u \in Int /\ b * v \in Nat \ {0}
      /\ n * m \in Int /\ d * e \in Nat \ {0}
  BY <1>1
<1>4. IsOver(Times(p, q), a * u, b * v)
  BY <1>2, <1>3, RatioIsOver
<1>5. (a * u) * (d * e) = (n * m) * (b * v)
  <2>1. (a * u) * (d * e) = (a * d) * (u * e)
    BY <1>1
  <2>2. (n * b) * (m * v) = (n * m) * (b * v)
    BY <1>1
  <2> QED BY <1>1, <2>1, <2>2
<1> QED BY <1>3, <1>4, <1>5, ReducedIsOver

(* Less compares numerators over the same denominator.                     *)
LEMMA LessIsOver ==
  ASSUME NEW p, NEW q, NEW n, NEW m, NEW d, IsOver(p, n, d), IsOver(q, m, d)
  PROVE  (Less(p, q) <=> n < m) /\ (Same(p, q) <=> n = m)
<1> DEFINE a == p[1]
           b == p[2]
           u == q[1]
           v == q[2]
<1>1. /\ a \in Int /\ b \in Nat \ {0} /\ u \in Int /\ v \in Nat \ {0}
      /\ n \in Int /\ m \in Int /\ d \in Nat \ {0}
      /\ a * d = n * b /\ u * d = m * v
  BY DEF IsOver, Fractions
<1>2. (Less(p, q) <=> a * v < u * b) /\ (Same(p, q) <=> a * v = u * b)
  BY DEF Less, Same
<1> HIDE DEF a, b, u, v
<1> DEFINE x == a * v - u * b
           c == b * v
           e == n - m
<1>3. x * d = e * c
  <2>1. (a * v) * d = (a * d) * v /\ (u * b) * d = (u * d) * b
        /\ (n * b) * v = n * c /\ (m * v) * b = m * c
    BY <1>1
  <2>2. x * d = (a * v) * d - (u * b) * d /\ e * c = n * c - m * c
    BY <1>1
  <2> QED BY <1>1, <2>1, <2>2
<1>4. x \in Int /\ e \in Int /\ c \in Nat \ {0}
  BY <1>1
<1> HIDE DEF x, c, e
<1>5. (x < 0 <=> e < 0) /\ (x = 0 <=> e = 0)
  BY <1>1, <1>3, <1>4
<1>6. (a * v < u * b <=> x < 0) /\ (a * v = u * b <=> x = 0)
      /\ (n < m <=> e < 0) /\ (n = m <=> e = 0)
  BY <1>1 DEF x, e
<1> QED BY <1>2, <1>5, <1>6

(* Rounding toward zero is less than one off, and not away from zero.      *)
LEMMA RoundedIsNear ==
  ASSUME NEW p, NEW n, NEW d, IsOver(p, n, d)
  PROVE  LET k == TowardZero(p)
         IN  /\ k \in Int /\ -d < k * d - n /\ k * d - n < d
             /\ n >= 0 => k * d <= n
             /\ n <= 0 => n <= k * d
<1> DEFINE a == p[1]
           b == p[2]
           k == TowardZero(p)
<1>1. /\ a \in Int /\ b \in Nat \ {0}
      /\ n \in Int /\ d \in Nat \ {0} /\ a * d = n * b
  BY DEF IsOver, Fractions
<1>2. k = IF a < 0 THEN -((-a) \div b) ELSE a \div b
  BY DEF TowardZero
<1> HIDE DEF a, b, k
<1>3. \A x \in Nat : \E r \in 0 .. b - 1 : x \div b \in Nat /\ x = b * (x \div b) + r
  <2> SUFFICES ASSUME NEW x \in Nat
               PROVE  \E r \in 0 .. b - 1 : x \div b \in Nat /\ x = b * (x \div b) + r
    OBVIOUS
  <2>1. x % b \in 0 .. b - 1 /\ x \div b \in Nat /\ x = b * (x \div b) + (x % b)
    BY <1>1, Remainders
  <2> QED BY <2>1
<1>4. \E r \in -(b - 1) .. b - 1 :
         /\ k \in Int /\ a = b * k + r
         /\ a >= 0 => r >= 0
         /\ a <= 0 => r <= 0
  <2>1. CASE a < 0
    <3>1. -a \in Nat
      BY <1>1, <2>1
    <3>2. PICK r \in 0 .. b - 1 : (-a) \div b \in Nat /\ -a = b * ((-a) \div b) + r
      BY <1>3, <3>1
    <3> DEFINE j == (-a) \div b
    <3>3. j \in Nat /\ -a = b * j + r /\ k = -j
      BY <1>2, <2>1, <3>2
    <3> HIDE DEF j
    <3>4. b * (-j) = -(b * j)
      BY <1>1, <3>3
    <3>5. a = b * k + (-r) /\ -r \in -(b - 1) .. b - 1 /\ -r <= 0
      BY <1>1, <3>2, <3>3, <3>4
    <3> QED BY <2>1, <3>3, <3>5
  <2>2. CASE a >= 0
    <3>0. a \in Nat
      BY <1>1, <2>2
    <3>1. PICK r \in 0 .. b - 1 : a \div b \in Nat /\ a = b * (a \div b) + r
      BY <1>3, <3>0
    <3>2. k \in Int /\ a = b * k + r /\ r \in -(b - 1) .. b - 1
      BY <1>1, <1>2, <2>2, <3>1
    <3>3. a <= 0 => r <= 0
      <4> SUFFICES ASSUME a = 0 PROVE r = 0
        BY <1>1, <2>2, <3>1
      <4>1. k \in Nat /\ b * k \in Nat
        BY <1>1, <1>2, <2>2, <3>1
      <4> QED BY <3>1, <3>2, <4>1
    <3> QED BY <3>1, <3>2, <3>3
  <2> QED BY <1>1, <2>1, <2>2
<1>5. PICK r \in -(b - 1) .. b - 1 :
         /\ k \in Int /\ a = b * k + r
         /\ a >= 0 => r >= 0
         /\ a <= 0 => r <= 0
  BY <1>4
<1> DEFINE e == k * d - n
<1>6. e * b = (-r) * d
  <2>1. (b * k + r) * d = n * b
    BY <1>1, <1>5
  <2>2. (b * k + r) * d = (k * d) * b + r * d
    BY <1>1, <1>5
  <2>3. e * b = (k * d) * b - n * b /\ (-r) * d = -(r * d)
    BY <1>1, <1>5
  <2> QED BY <1>1, <1>5, <2>1, <2>2, <2>3
<1>7. e \in Int
  BY <1>1, <1>5
<1> HIDE DEF e
<1>8. (a >= 0 <=> n >= 0) /\ (a <= 0 <=> n <= 0)
  BY <1>1
<1>9. (r >= 0 => e <= 0) /\ (r <= 0 => e >= 0)
  BY <1>1, <1>5, <1>6, <1>7
<1>10. e < d
  <2> SUFFICES ASSUME e >= d PROVE FALSE
    BY <1>1, <1>7
  <2>1. e * b >= d * b
    BY <1>1, <1>7
  <2>2. (-r) * d < b * d
    BY <1>1, <1>5
  <2> QED BY <1>1, <1>6, <1>7, <2>1, <2>2
<1>11. -d < e
  <2> SUFFICES ASSUME -e >= d PROVE FALSE
    BY <1>1, <1>7
  <2>1. (-e) * b >= d * b /\ (-e) * b = -(e * b)
    BY <1>1, <1>7
  <2>2. r * d < b * d /\ (-r) * d = -(r * d)
    BY <1>1, <1>5
  <2> QED BY <1>1, <1>6, <1>7, <2>1, <2>2
<1>12. /\ k \in Int /\ -d < k * d - n /\ k * d - n < d
       /\ n >= 0 => k * d - n <= 0
       /\ n <= 0 => k * d - n >= 0
  BY <1>5, <1>8, <1>9, <1>10, <1>11 DEF e
<1>13. (n >= 0 => k * d <= n) /\ (n <= 0 => n <= k * d)
  BY <1>1, <1>12
<1> QED BY <1>12, <1>13 DEF k

(* Dividing by a scale m over e with the sign f.                           *)
LEMMA OverIsOver ==
  ASSUME NEW p, NEW q, NEW n, NEW m \in Nat \ {0}, NEW f \in {-1, 1},
         NEW d, NEW e, IsOver(p, n, d), IsOver(q, f * m, e)
  PROVE  IsOver(Over(p, q), f * (n * e), d * m)
<1> DEFINE a == p[1]
           b == p[2]
           u == q[1]
           v == q[2]
           r == Over(p, q)
<1>1. /\ a \in Int /\ b \in Nat \ {0} /\ u \in Int /\ v \in Nat \ {0}
      /\ n \in Int /\ d \in Nat \ {0} /\ e \in Nat \ {0}
      /\ a * d = n * b /\ u * e = (f * m) * v
  BY DEF IsOver, Fractions
<1>2. r = Ratio(a * v, b * u)
  BY DEF Over
<1> HIDE DEF a, b, u, v, r
<1>3. u # 0
  <2> SUFFICES ASSUME u = 0 PROVE FALSE
    OBVIOUS
  <2>1. u * e = 0
    BY <1>1
  <2>2. (f * m) * v # 0
    <3>1. m * v # 0
      BY <1>1
    <3>2. (f * m) * v = IF f = 1 THEN m * v ELSE -(m * v)
      BY <1>1
    <3> QED BY <1>1, <3>1, <3>2
  <2> QED BY <1>1, <2>1, <2>2
<1>4. a * v \in Int /\ b * u \in Int \ {0}
  BY <1>1, <1>3
<1>5. r \in Fractions /\ r[1] * (b * u) = (a * v) * r[2]
  BY <1>2, <1>4, RatioKeepsValue
<1> DEFINE x == r[1]
           y == r[2]
<1>6. x \in Int /\ y \in Nat \ {0} /\ x * (b * u) = (a * v) * y
  BY <1>5 DEF Fractions
<1> HIDE DEF x, y
<1>7. (x * (d * m)) * (b * v) = (f * (n * e) * y) * (b * v)
  <2>1. f * f = 1
    OBVIOUS
  <2>2. (x * (b * u)) * (d * e) = (x * (d * b)) * (u * e)
    BY <1>1, <1>6
  <2>3. (x * (d * b)) * ((f * m) * v) = f * ((x * (d * m)) * (b * v))
    BY <1>1, <1>6
  <2>4. ((a * v) * y) * (d * e) = (a * d) * (v * y * e)
    BY <1>1, <1>6
  <2>5. (n * b) * (v * y * e) = (n * e * y) * (b * v)
    BY <1>1, <1>6
  <2> DEFINE X == (x * (d * m)) * (b * v)
             Y == (n * e * y) * (b * v)
  <2>6. f * X = Y /\ X \in Int /\ Y \in Int
    BY <1>1, <1>6, <2>2, <2>3, <2>4, <2>5
  <2>7. (f * (n * e) * y) * (b * v) = f * Y
    <3>1. f * (n * e) * y = f * (n * e * y) /\ n * e * y \in Int
      BY <1>1, <1>6
    <3>2. (f * (n * e * y)) * (b * v) = f * Y
      <4> DEFINE g == n * e * y
                 h == b * v
      <4>1. g \in Int /\ h \in Int
        BY <1>1, <3>1
      <4> HIDE DEF g, h
      <4>2. (f * g) * h = f * (g * h)
        BY <4>1
      <4> QED BY <4>2 DEF g, h
    <3> QED BY <3>1, <3>2
  <2> HIDE DEF X, Y
  <2>8. X = f * Y
    BY <2>1, <2>6
  <2> QED BY <2>7, <2>8 DEF X
<1>8. x * (d * m) = f * (n * e) * y
  <2>1. /\ x * (d * m) \in Int /\ f * (n * e) * y \in Int
        /\ b * v \in Int /\ b * v # 0
    BY <1>1, <1>6
  <2> QED BY <1>7, <2>1, Cancelled
<1>9. f * (n * e) \in Int /\ d * m \in Nat \ {0}
  BY <1>1
<1> QED BY <1>5, <1>8, <1>9 DEF IsOver, x, y, r

(***************************************************************************)
(* What the object Zoom can hold.                                          *)
(***************************************************************************)
Extents == (Nat \ {0}) \X (Nat \ {0})
Factors == {p \in Fractions : p[1] > 0}
Pans == {p \in Fractions : ~Less(p, MIN_PAN) /\ ~Less(MAX_PAN, p)}
Zooms == [image : Extents, surface : Extents, zoomFactor : Factors,
          pan : [Sides2 -> Pans], flip : [Sides2 -> {-1, 1}]]

(* The types of a zoom's parts along one side.                             *)
LEMMA ZoomParts ==
  ASSUME NEW z \in Zooms, NEW a \in Sides2
  PROVE  /\ z.image[a] \in Nat \ {0} /\ z.surface[a] \in Nat \ {0}
         /\ z.zoomFactor[1] \in Nat \ {0} /\ z.zoomFactor[2] \in Nat \ {0}
         /\ z.zoomFactor \in Fractions /\ z.pan[a] \in Fractions
         /\ z.flip[a] \in {-1, 1}
BY DEF Zooms, Extents, Factors, Pans, Sides2, Fractions

(* The scale along a side, mirrored or not.                                *)
LEMMA ScaleIsOver ==
  ASSUME NEW z \in Zooms, NEW a \in Sides2
  PROVE  IsOver(ScaleOf(z, a), z.flip[a] * z.zoomFactor[1], z.zoomFactor[2])
<1> DEFINE f == z.flip[a]
           n == z.zoomFactor[1]
           d == z.zoomFactor[2]
<1>1. f \in {-1, 1} /\ n \in Nat \ {0} /\ d \in Nat \ {0}
      /\ IsOver(z.zoomFactor, n, d)
  BY ZoomParts, FractionIsOver
<1>2. ScaleOf(z, a) = Times(z.zoomFactor, Whole(f))
  BY DEF ScaleOf
<1> HIDE DEF f, n, d
<1>3. IsOver(Whole(f), f, 1)
  BY <1>1, WholeIsOver
<1>4. IsOver(ScaleOf(z, a), n * f, d * 1)
  BY <1>1, <1>2, <1>3, TimesIsOver
<1>5. n * f = f * n /\ d * 1 = d
  BY <1>1
<1>6. IsOver(ScaleOf(z, a), f * n, d)
  BY <1>4, <1>5
<1> QED BY <1>6 DEF f, n, d

(* How far the picture was moved, in pixels of it.                         *)
LEMMA MovedIsOver ==
  ASSUME NEW z \in Zooms, NEW a \in Sides2, NEW n, NEW d,
         IsOver(z.pan[a], n, d)
  PROVE  IsOver(Moved(z, a), n * z.surface[a], d)
<1> DEFINE w == z.surface[a]
<1>1. w \in Nat \ {0} /\ d \in Nat \ {0}
  BY ZoomParts DEF IsOver
<1>2. Moved(z, a) = Times(z.pan[a], Whole(w))
  BY DEF Moved
<1> HIDE DEF w
<1>3. IsOver(Whole(w), w, 1)
  BY <1>1, WholeIsOver
<1>4. IsOver(Moved(z, a), n * w, d * 1)
  BY <1>2, <1>3, TimesIsOver
<1>5. d * 1 = d
  BY <1>1
<1> QED BY <1>4, <1>5 DEF w

(* What is under a point of the window, as one fraction; n over d is how   *)
(* far the picture was moved.                                              *)
UnderTop(z, n, d, m, a) ==
    z.flip[a] * ((2 * m - z.surface[a]) * z.zoomFactor[2] * d)
    - 2 * n * z.surface[a] * z.zoomFactor[1]
    + z.image[a] * z.zoomFactor[1] * d
UnderBottom(z, d) == 2 * z.zoomFactor[1] * d

(* What is under a point of the window, worked out.                        *)
LEMMA UnderIsOver ==
  ASSUME NEW z \in Zooms, NEW a \in Sides2, NEW m \in Int, NEW n, NEW d,
         IsOver(z.pan[a], n, d)
  PROVE  IsOver(Under(z, m, a), UnderTop(z, n, d, m, a), UnderBottom(z, d))
<1> DEFINE f == z.flip[a]
           x == z.zoomFactor[1]
           y == z.zoomFactor[2]
           w == z.surface[a]
           i == z.image[a]
           scale == ScaleOf(z, a)
           moved == Moved(z, a)
<1>1. /\ f \in {-1, 1} /\ x \in Nat \ {0} /\ y \in Nat \ {0}
      /\ w \in Nat \ {0} /\ i \in Nat \ {0}
  BY ZoomParts
<1>2. n \in Int /\ d \in Nat \ {0}
  BY DEF IsOver
<1>3. IsOver(scale, f * x, y)
  BY ScaleIsOver
<1>4. IsOver(moved, n * w, d)
  BY MovedIsOver
<1>5. Under(z, m, a)
         = Plus(Minus(Over(Minus(Whole(m), Ratio(w, 2)), scale), moved),
                Ratio(i, 2))
  BY DEF Under
<1>6. /\ UnderTop(z, n, d, m, a)
            = f * ((2 * m - w) * y * d) - 2 * n * w * x + i * x * d
      /\ UnderBottom(z, d) = 2 * x * d
  BY DEF UnderTop, UnderBottom
<1> HIDE DEF f, x, y, w, i, scale, moved
<1> DEFINE fromMiddle == Minus(Whole(m), Ratio(w, 2))
           spread == Over(fromMiddle, scale)
           A == 2 * m - w
<1>7. IsOver(fromMiddle, A, 2)
  <2>1. IsOver(Whole(m), m * 2, 1 * 2)
    BY WholeIsOver, Expanded
  <2>2. m * 2 = 2 * m /\ 1 * 2 = 2
    OBVIOUS
  <2>3. IsOver(Ratio(w, 2), w, 2)
    BY <1>1, RatioIsOver
  <2>4. IsOver(Whole(m), 2 * m, 2)
    BY <2>1, <2>2
  <2> QED BY <2>3, <2>4, MinusIsOver
<1>8. A \in Int
  BY <1>1
<1> HIDE DEF A, fromMiddle
<1>9. IsOver(spread, f * (A * y), 2 * x)
  BY <1>1, <1>3, <1>7, OverIsOver
<1> HIDE DEF spread
<1>10. IsOver(spread, f * (A * y * d), 2 * x * d)
  <2>1. IsOver(spread, (f * (A * y)) * d, (2 * x) * d)
    BY <1>2, <1>9, Expanded
  <2>2. (f * (A * y)) * d = f * (A * y * d)
    BY <1>1, <1>2, <1>8
  <2> QED BY <2>1, <2>2
<1>11. IsOver(moved, 2 * n * w * x, 2 * x * d)
  <2>1. 2 * x \in Nat \ {0}
    BY <1>1
  <2>2. IsOver(moved, (n * w) * (2 * x), d * (2 * x))
    BY <1>4, <2>1, Expanded
  <2>3. (n * w) * (2 * x) = 2 * n * w * x /\ d * (2 * x) = 2 * x * d
    BY <1>1, <1>2
  <2> QED BY <2>2, <2>3
<1>12. IsOver(Ratio(i, 2), i * x * d, 2 * x * d)
  <2>1. x * d \in Nat \ {0}
    BY <1>1, <1>2
  <2>2. IsOver(Ratio(i, 2), i * (x * d), 2 * (x * d))
    BY <1>1, <2>1, RatioIsOver, Expanded
  <2>3. i * (x * d) = i * x * d /\ 2 * (x * d) = 2 * x * d
    BY <1>1, <1>2
  <2> QED BY <2>2, <2>3
<1>13. IsOver(Under(z, m, a),
              f * (A * y * d) - 2 * n * w * x + i * x * d, 2 * x * d)
  <2>1. IsOver(Minus(spread, moved), f * (A * y * d) - 2 * n * w * x, 2 * x * d)
    BY <1>10, <1>11, MinusIsOver
  <2>2. Under(z, m, a) = Plus(Minus(spread, moved), Ratio(i, 2))
    BY <1>5 DEF spread, fromMiddle
  <2> QED BY <1>12, <2>1, <2>2, PlusIsOver
<1> QED BY <1>6, <1>13 DEF A

(* Where a point of the picture comes to lie, before it is rounded.        *)
ScaledTop(z, n, d, k, a) ==
    z.flip[a] * ((2 * k - z.image[a]) * z.zoomFactor[1] * d
                 + 2 * n * z.surface[a] * z.zoomFactor[1])
ScaledBottom(z, d) == 2 * d * z.zoomFactor[2]

(* Where a point of the picture comes to lie, worked out.                  *)
LEMMA ScaledIsOver ==
  ASSUME NEW z \in Zooms, NEW a \in Sides2, NEW k \in Int, NEW n, NEW d,
         IsOver(z.pan[a], n, d)
  PROVE  IsOver(Times(Plus(Minus(Whole(k), Ratio(z.image[a], 2)), Moved(z, a)),
                      ScaleOf(z, a)),
                ScaledTop(z, n, d, k, a), ScaledBottom(z, d))
<1> DEFINE f == z.flip[a]
           x == z.zoomFactor[1]
           y == z.zoomFactor[2]
           w == z.surface[a]
           i == z.image[a]
           scale == ScaleOf(z, a)
           moved == Moved(z, a)
           half == Ratio(i, 2)
<1>1. /\ f \in {-1, 1} /\ x \in Nat \ {0} /\ y \in Nat \ {0}
      /\ w \in Nat \ {0} /\ i \in Nat \ {0}
  BY ZoomParts
<1>2. n \in Int /\ d \in Nat \ {0}
  BY DEF IsOver
<1>3. IsOver(scale, f * x, y)
  BY ScaleIsOver
<1>4. IsOver(moved, n * w, d)
  BY MovedIsOver
<1>5. IsOver(half, i, 2)
  BY <1>1, RatioIsOver
<1>6. /\ ScaledTop(z, n, d, k, a)
            = f * ((2 * k - i) * x * d + 2 * n * w * x)
      /\ ScaledBottom(z, d) = 2 * d * y
  BY DEF ScaledTop, ScaledBottom
<1> HIDE DEF f, x, y, w, i, scale, moved, half
<1> DEFINE A == 2 * k - i
<1>7. A \in Int
  BY <1>1
<1>8. IsOver(Minus(Whole(k), half), A, 2)
  <2>1. IsOver(Whole(k), k * 2, 1 * 2)
    BY WholeIsOver, Expanded
  <2>2. k * 2 = 2 * k /\ 1 * 2 = 2
    OBVIOUS
  <2>3. IsOver(Whole(k), 2 * k, 2)
    BY <2>1, <2>2
  <2> QED BY <1>5, <2>3, MinusIsOver
<1> HIDE DEF A
<1>9. IsOver(Plus(Minus(Whole(k), half), moved), A * d + 2 * n * w, 2 * d)
  <2>1. IsOver(Minus(Whole(k), half), A * d, 2 * d)
    BY <1>2, <1>8, Expanded
  <2>2. IsOver(moved, (n * w) * 2, d * 2)
    BY <1>4, Expanded
  <2>3. (n * w) * 2 = 2 * n * w /\ d * 2 = 2 * d
    BY <1>1, <1>2
  <2>4. IsOver(moved, 2 * n * w, 2 * d)
    BY <2>2, <2>3
  <2> QED BY <2>1, <2>4, PlusIsOver
<1>10. IsOver(Times(Plus(Minus(Whole(k), half), moved), scale),
              (A * d + 2 * n * w) * (f * x), (2 * d) * y)
  BY <1>3, <1>9, TimesIsOver
<1>11. (A * d + 2 * n * w) * (f * x) = f * (A * x * d + 2 * n * w * x)
  <2>1. (A * d + 2 * n * w) * x = A * x * d + 2 * n * w * x
    BY <1>1, <1>2, <1>7
  <2> DEFINE s == A * d + 2 * n * w
  <2>2. s \in Int
    BY <1>1, <1>2, <1>7
  <2> HIDE DEF s
  <2>3. s * (f * x) = f * (s * x)
    BY <1>1, <2>2
  <2> QED BY <2>1, <2>3 DEF s
<1>12. IsOver(Times(Plus(Minus(Whole(k), half), moved), scale),
              f * (A * x * d + 2 * n * w * x), 2 * d * y)
  BY <1>10, <1>11
<1> QED BY <1>6, <1>12 DEF A, half, moved, scale, i

(* A pixel further is a scale further.                                     *)
PixelTop(z, d, k, a) == z.flip[a] * (k * (2 * z.zoomFactor[1] * d))
HalfTop(z, d, a) == z.surface[a] * d * z.zoomFactor[2]

(* Column k is k pixels from the first one.                                *)
LEMMA PixelsApart ==
  ASSUME NEW z \in Zooms, NEW a \in Sides2, NEW k \in Int,
         NEW n \in Int, NEW d \in Nat \ {0}
  PROVE  /\ ScaledTop(z, n, d, k, a) = ScaledTop(z, n, d, 0, a) + PixelTop(z, d, k, a)
         /\ ScaledTop(z, n, d, 0, a) \in Int /\ PixelTop(z, d, k, a) \in Int
         /\ HalfTop(z, d, a) \in Int /\ ScaledBottom(z, d) \in Nat \ {0}
         /\ UnderBottom(z, d) \in Nat \ {0}
<1> DEFINE f == z.flip[a]
           x == z.zoomFactor[1]
           y == z.zoomFactor[2]
           w == z.surface[a]
           i == z.image[a]
<1>1. /\ f \in {-1, 1} /\ x \in Nat \ {0} /\ y \in Nat \ {0}
      /\ w \in Nat \ {0} /\ i \in Nat \ {0}
  BY ZoomParts
<1>2. /\ ScaledTop(z, n, d, k, a) = f * ((2 * k - i) * x * d + 2 * n * w * x)
      /\ ScaledTop(z, n, d, 0, a) = f * ((2 * 0 - i) * x * d + 2 * n * w * x)
      /\ PixelTop(z, d, k, a) = f * (k * (2 * x * d))
      /\ HalfTop(z, d, a) = w * d * y /\ ScaledBottom(z, d) = 2 * d * y
      /\ UnderBottom(z, d) = 2 * x * d
  BY DEF ScaledTop, PixelTop, HalfTop, ScaledBottom, UnderBottom
<1> HIDE DEF f, x, y, w, i
<1> DEFINE s == (2 * k - i) * x * d + 2 * n * w * x
           t == (2 * 0 - i) * x * d + 2 * n * w * x
           u == k * (2 * x * d)
<1>3. s = t + u /\ s \in Int /\ t \in Int /\ u \in Int
  BY <1>1
<1> HIDE DEF s, t, u
<1>4. f * s = f * t + f * u /\ f * t \in Int /\ f * u \in Int
  BY <1>1, <1>3
<1>5. w * d * y \in Int /\ 2 * d * y \in Nat \ {0} /\ 2 * x * d \in Nat \ {0}
  BY <1>1
<1> QED BY <1>2, <1>4, <1>5 DEF s, t, u

(* Half of the window, over the same.                                      *)
LEMMA HalfIsOver ==
  ASSUME NEW z \in Zooms, NEW a \in Sides2, NEW d \in Nat \ {0}
  PROVE  IsOver(Ratio(z.surface[a], 2), HalfTop(z, d, a), ScaledBottom(z, d))
<1> DEFINE y == z.zoomFactor[2]
           w == z.surface[a]
<1>1. y \in Nat \ {0} /\ w \in Nat \ {0}
  BY ZoomParts
<1>2. HalfTop(z, d, a) = w * d * y /\ ScaledBottom(z, d) = 2 * d * y
  BY DEF HalfTop, ScaledBottom
<1> HIDE DEF y, w
<1>3. IsOver(Ratio(w, 2), w, 2)
  BY <1>1, RatioIsOver
<1>4. d * y \in Nat \ {0}
  BY <1>1
<1>5. IsOver(Ratio(w, 2), w * (d * y), 2 * (d * y))
  BY <1>3, <1>4, Expanded
<1>6. w * (d * y) = w * d * y /\ 2 * (d * y) = 2 * d * y
  BY <1>1
<1> QED BY <1>2, <1>5, <1>6 DEF w

(* The lines that plugins draw, and the pixels.                            *)
LEMMA OverlaidIsOver ==
  ASSUME NEW z \in Zooms, NEW a \in Sides2, NEW k \in Int, NEW n, NEW d,
         IsOver(z.pan[a], n, d)
  PROVE  IsOver(Overlaid(z, k, a),
                ScaledTop(z, n, d, 0, a) + PixelTop(z, d, k, a) + HalfTop(z, d, a),
                ScaledBottom(z, d))
<1>1. n \in Int /\ d \in Nat \ {0}
  BY DEF IsOver
<1>2. IsOver(Overlaid(z, k, a), ScaledTop(z, n, d, k, a) + HalfTop(z, d, a),
             ScaledBottom(z, d))
  BY <1>1, ScaledIsOver, HalfIsOver, PlusIsOver DEF Overlaid
<1> QED BY <1>1, <1>2, PixelsApart

(* A pixel is drawn from where the first is, rounded to the window's       *)
(* pixels: less than one off.                                              *)
LEMMA DrawnIsOver ==
  ASSUME NEW z \in Zooms, NEW a \in Sides2, NEW n, NEW d,
         IsOver(z.pan[a], n, d)
  PROVE  LET t == zoomed(z, 0, a) * ScaledBottom(z, d)
             c == ScaledTop(z, n, d, 0, a)
         IN  /\ t \in Int
             /\ -ScaledBottom(z, d) < t - c /\ t - c < ScaledBottom(z, d)
             /\ \A k \in Int :
                   IsOver(DrawnAt(z, k, a),
                          HalfTop(z, d, a) + t + PixelTop(z, d, k, a),
                          ScaledBottom(z, d))
<1> DEFINE D == ScaledBottom(z, d)
           T == zoomed(z, 0, a)
<1>1. n \in Int /\ d \in Nat \ {0}
  BY DEF IsOver
<1>2. D \in Nat \ {0}
  BY <1>1, PixelsApart
<1>3. /\ T \in Int
      /\ -D < T * D - ScaledTop(z, n, d, 0, a)
      /\ T * D - ScaledTop(z, n, d, 0, a) < D
  BY ScaledIsOver, RoundedIsNear DEF zoomed
<1>4. ASSUME NEW k \in Int
      PROVE  IsOver(DrawnAt(z, k, a),
                    HalfTop(z, d, a) + T * D + PixelTop(z, d, k, a), D)
  <2>1. IsOver(Whole(T), 1 * (T * D), D)
    <3>1. IsOver(Whole(T), T * D, 1 * D)
      BY <1>2, <1>3, WholeIsOver, Expanded
    <3> HIDE DEF D, T
    <3>2. 1 * D = D /\ 1 * (T * D) = T * D
      BY <1>2, <1>3
    <3> QED BY <3>1, <3>2
  <2>2. IsOver(Times(Whole(k), ScaleOf(z, a)), PixelTop(z, d, k, a), D)
    <3> DEFINE f == z.flip[a]
               x == z.zoomFactor[1]
               y == z.zoomFactor[2]
               scale == ScaleOf(z, a)
    <3>1. f \in {-1, 1} /\ x \in Nat \ {0} /\ y \in Nat \ {0}
      BY ZoomParts
    <3>2. IsOver(scale, f * x, y)
      BY ScaleIsOver
    <3>3. PixelTop(z, d, k, a) = f * (k * (2 * x * d)) /\ D = 2 * d * y
      BY DEF PixelTop, ScaledBottom
    <3> HIDE DEF D, T, f, x, y, scale
    <3>4. IsOver(Times(Whole(k), scale), k * (f * x), 1 * y)
      BY <3>2, WholeIsOver, TimesIsOver
    <3>5. 2 * d \in Nat \ {0}
      BY <1>1
    <3>6. IsOver(Times(Whole(k), scale), (k * (f * x)) * (2 * d), (1 * y) * (2 * d))
      BY <3>4, <3>5, Expanded
    <3>7. (1 * y) * (2 * d) = 2 * d * y
      BY <1>1, <3>1
    <3>8. (k * (f * x)) * (2 * d) = f * (k * (2 * x * d))
      <4> DEFINE g == k * (x * d)
      <4>1. g \in Int
        BY <1>1, <3>1
      <4>2. (k * (f * x)) * (2 * d) = f * (2 * g) /\ k * (2 * x * d) = 2 * g
        BY <1>1, <3>1
      <4> QED BY <4>2
    <3> QED BY <3>3, <3>6, <3>7, <3>8 DEF scale
  <2>3. IsOver(Ratio(z.surface[a], 2), HalfTop(z, d, a), D)
    BY <1>1, HalfIsOver
  <2>4. IsOver(Plus(Ratio(z.surface[a], 2), Whole(T)), HalfTop(z, d, a) + 1 * (T * D), D)
    BY <2>1, <2>3, PlusIsOver
  <2>5. IsOver(DrawnAt(z, k, a), HalfTop(z, d, a) + 1 * (T * D) + PixelTop(z, d, k, a), D)
    BY <2>2, <2>4, PlusIsOver DEF DrawnAt
  <2> DEFINE j == T * D
  <2>6. j \in Int
    BY <1>2, <1>3
  <2> HIDE DEF j
  <2>7. 1 * j = j
    BY <2>6
  <2> QED BY <2>5, <2>7 DEF j
<1>5. T * D \in Int
  BY <1>2, <1>3
<1> QED BY <1>3, <1>4, <1>5

(* The way to a pixel and back: p is how far the pointer is from the       *)
(* window's middle, c where the picture's corner is drawn before it is     *)
(* rounded to t, k the pixel that the pointer picks.                       *)
LEMMA ThereAndBack ==
  ASSUME NEW f \in {-1, 1}, NEW D \in Nat \ {0}, NEW E \in Nat \ {0},
         NEW p \in Int, NEW c \in Int, NEW t \in Int, NEW k \in Int,
         NEW r \in Int, NEW h \in Int,
         -D < t - c, t - c < D, 0 <= r, r <= E,
         -E < k - (f * p - f * c - r), k - (f * p - f * c - r) < E
  PROVE  /\ f = 1 => /\ (h + t + f * k) - (h + p + D) < D + E
                     /\ (h + p) - (h + t + f * (k + E)) < D + E
         /\ f = -1 => /\ (h + t + f * (k + E)) - (h + p + D) < D + E
                      /\ (h + p) - (h + t + f * k) < D + E
<1>1. CASE f = 1
  <2>1. f * p = p /\ f * c = c /\ f * k = k /\ f * (k + E) = k + E
    BY <1>1
  <2> QED BY <1>1, <2>1
<1>2. CASE f = -1
  <2>1. f * p = -p /\ f * c = -c /\ f * k = -k /\ f * (k + E) = -k - E
    BY <1>2
  <2> QED BY <1>2, <2>1
<1> QED BY <1>1, <1>2

(* What the pixel under a point is rounded from.                           *)
IsPicked(z, m, a, n, d) ==
    LET E == UnderBottom(z, d)
        p == (2 * m - z.surface[a]) * z.zoomFactor[2] * d
        c == ScaledTop(z, n, d, 0, a)
        k == invZoom(z, m, a)
    IN  /\ k \in Int /\ p \in Int
        /\ m * ScaledBottom(z, d) = p + HalfTop(z, d, a)
        /\ \E r \in 0 .. E :
              /\ -E < k * E - (z.flip[a] * p - z.flip[a] * c - r)
              /\ k * E - (z.flip[a] * p - z.flip[a] * c - r) < E

(* The pixel picked is what is under the pointer, rounded: less than one   *)
(* off.                                                                    *)
LEMMA PickedPixel ==
  ASSUME NEW z \in Zooms, NEW a \in Sides2, NEW m \in Int, NEW n, NEW d,
         IsOver(z.pan[a], n, d)
  PROVE  IsPicked(z, m, a, n, d)
<1> DEFINE f == z.flip[a]
           x == z.zoomFactor[1]
           y == z.zoomFactor[2]
           w == z.surface[a]
           i == z.image[a]
           E == UnderBottom(z, d)
           c == ScaledTop(z, n, d, 0, a)
           k == invZoom(z, m, a)
           top == UnderTop(z, n, d, m, a)
           p == (2 * m - w) * y * d
           rounding == Rounding(z, a)
<1>1. n \in Int /\ d \in Nat \ {0}
  BY DEF IsOver
<1>2. /\ f \in {-1, 1} /\ x \in Nat \ {0} /\ y \in Nat \ {0}
      /\ w \in Nat \ {0} /\ i \in Nat \ {0}
  BY ZoomParts
<1>3. E \in Nat \ {0} /\ c \in Int
  BY <1>1, PixelsApart
<1>4. IsOver(Under(z, m, a), top, E)
  BY UnderIsOver
<1>5. /\ top = f * p - 2 * n * w * x + i * x * d
      /\ c = f * ((2 * 0 - i) * x * d + 2 * n * w * x)
      /\ E = 2 * x * d
      /\ m * ScaledBottom(z, d) = m * (2 * d * y)
      /\ HalfTop(z, d, a) = w * d * y
  BY DEF UnderTop, ScaledTop, UnderBottom, ScaledBottom, HalfTop
<1>6. rounding = <<1, 2>> \/ rounding = Whole(0)
  BY DEF Rounding
<1>7. k = TowardZero(Minus(Under(z, m, a), rounding))
  BY DEF invZoom
<1> HIDE DEF f, x, y, w, i, E, c, k, top, rounding
<1>8. p \in Int /\ m * (2 * d * y) = p + w * d * y
  BY <1>1, <1>2
<1> HIDE DEF p
<1>9. \E r \in 0 .. E : IsOver(rounding, r, E)
  <2>1. CASE rounding = <<1, 2>>
    <3>1. IsOver(<<1, 2>>, 1, 2)
      BY DEF IsOver, Fractions
    <3>2. x * d \in Nat \ {0}
      BY <1>1, <1>2
    <3>3. IsOver(<<1, 2>>, 1 * (x * d), 2 * (x * d))
      BY <3>1, <3>2, Expanded
    <3>4. 1 * (x * d) = x * d /\ 2 * (x * d) = E /\ x * d \in 0 .. E
      <4>1. 2 * x * d = 2 * (x * d)
        BY <1>1, <1>2
      <4> QED BY <1>5, <3>2, <4>1
    <3> QED BY <2>1, <3>3, <3>4
  <2>2. CASE rounding = Whole(0)
    <3>1. IsOver(Whole(0), 0 * E, 1 * E)
      BY <1>3, WholeIsOver, Expanded
    <3>2. 0 * E = 0 /\ 1 * E = E /\ 0 \in 0 .. E
      BY <1>3
    <3> QED BY <2>2, <3>1, <3>2
  <2> QED BY <1>6, <2>1, <2>2
<1>10. PICK r \in 0 .. E : IsOver(rounding, r, E)
  BY <1>9
<1>11. IsOver(Minus(Under(z, m, a), rounding), top - r, E)
  BY <1>4, <1>10, MinusIsOver
<1>12. k \in Int /\ -E < k * E - (top - r) /\ k * E - (top - r) < E
  BY <1>7, <1>11, RoundedIsNear
<1>13. top = f * p - f * c
  <2> DEFINE s == (2 * 0 - i) * x * d + 2 * n * w * x
  <2>1. s \in Int /\ s = 2 * n * w * x - i * x * d
    BY <1>1, <1>2
  <2>2. 2 * n * w * x \in Int /\ i * x * d \in Int
    BY <1>1, <1>2
  <2> HIDE DEF s
  <2>3. c = f * s
    BY <1>5 DEF s
  <2>4. f * c = s
    BY <1>2, <2>1, <2>3
  <2> QED BY <1>2, <1>5, <1>8, <2>1, <2>2, <2>4
<1>14. (f * p - f * c) - r = f * p - f * c - r
  OBVIOUS
<1>15. -E < k * E - (f * p - f * c - r) /\ k * E - (f * p - f * c - r) < E
  BY <1>12, <1>13
<1>16. m * ScaledBottom(z, d) = p + HalfTop(z, d, a)
  BY <1>5, <1>8
<1> QED BY <1>8, <1>10, <1>12, <1>15, <1>16 DEF IsPicked, f, p, w, y, c, E, k

(* How far a pixel that is picked is drawn from the pointer.               *)
Meets(z, m, a) ==
    LET k == invZoom(z, m, a)
        from == DrawnAt(z, k, a)
        to == DrawnAt(z, k + 1, a)
        near == Plus(Whole(1), z.zoomFactor)
        Reaches(low, high) == /\ Less(Minus(low, Whole(m + 1)), near)
                              /\ Less(Minus(Whole(m), high), near)
        off == Minus(from, Overlaid(z, k, a))
    IN  /\ IF z.flip[a] = 1 THEN Reaches(from, to) ELSE Reaches(to, from)
        /\ Less(Whole(-1), off) /\ Less(off, Whole(1))

(* A pixel that is picked is drawn near the pointer, at any zoom.          *)
LEMMA PickedIsMet ==
  ASSUME NEW z \in Zooms, NEW a \in Sides2, NEW m \in Int
  PROVE  Meets(z, m, a)
<1>1. PICK n, d : IsOver(z.pan[a], n, d)
  BY ZoomParts, FractionIsOver
<1> DEFINE f == z.flip[a]
           D == ScaledBottom(z, d)
           E == UnderBottom(z, d)
           h == HalfTop(z, d, a)
           t == zoomed(z, 0, a) * D
           c == ScaledTop(z, n, d, 0, a)
           k == invZoom(z, m, a)
           p == (2 * m - z.surface[a]) * z.zoomFactor[2] * d
           K == k * E
           from == DrawnAt(z, k, a)
           to == DrawnAt(z, k + 1, a)
           near == Plus(Whole(1), z.zoomFactor)
           over == Overlaid(z, k, a)
           Pixel(j) == PixelTop(z, d, j, a)
<1>2. n \in Int /\ d \in Nat \ {0} /\ f \in {-1, 1}
  BY <1>1, ZoomParts DEF IsOver
<1>3. /\ k \in Int /\ p \in Int /\ m * D = p + h
      /\ \E r \in 0 .. E : /\ -E < K - (f * p - f * c - r)
                           /\ K - (f * p - f * c - r) < E
  <2>1. IsPicked(z, m, a, n, d)
    BY <1>1, PickedPixel
  <2> QED BY <2>1 DEF IsPicked
<1>4. /\ t \in Int /\ -D < t - c /\ t - c < D
      /\ \A j \in Int : IsOver(DrawnAt(z, j, a), h + t + Pixel(j), D)
  BY <1>1, DrawnIsOver
<1>5. c \in Int /\ h \in Int /\ D \in Nat \ {0} /\ E \in Nat \ {0}
  BY <1>2, PixelsApart
<1>6. IsOver(over, c + Pixel(k) + h, D)
  BY <1>1, <1>3, OverlaidIsOver
<1>7. \A j \in Int : Pixel(j) = f * (j * E)
  BY DEF PixelTop, UnderBottom
<1>8. IsOver(near, D + E, D)
  <2> DEFINE x == z.zoomFactor[1]
             y == z.zoomFactor[2]
             zf == z.zoomFactor
  <2>1. x \in Nat \ {0} /\ y \in Nat \ {0} /\ IsOver(zf, x, y)
    BY ZoomParts, FractionIsOver
  <2>2. D = 2 * d * y /\ E = 2 * x * d
    BY DEF ScaledBottom, UnderBottom
  <2>3. near = Plus(Whole(1), zf)
    OBVIOUS
  <2> HIDE DEF x, y, zf, D, E, near
  <2>4. IsOver(zf, x * (2 * d), y * (2 * d))
    <3>1. 2 * d \in Nat \ {0}
      BY <1>2
    <3> QED BY <2>1, <3>1, Expanded
  <2>5. x * (2 * d) = E /\ y * (2 * d) = D
    BY <1>2, <2>1, <2>2
  <2>6. IsOver(Whole(1), D, D)
    <3>1. IsOver(Whole(1), 1 * D, 1 * D)
      BY <1>5, WholeIsOver, Expanded
    <3>2. 1 * D = D
      BY <1>5
    <3> QED BY <3>1, <3>2
  <2> QED BY <2>3, <2>4, <2>5, <2>6, PlusIsOver
<1>9. Meets(z, m, a)
         <=> /\ IF f = 1 THEN /\ Less(Minus(from, Whole(m + 1)), near)
                              /\ Less(Minus(Whole(m), to), near)
                         ELSE /\ Less(Minus(to, Whole(m + 1)), near)
                              /\ Less(Minus(Whole(m), from), near)
             /\ Less(Whole(-1), Minus(from, over))
             /\ Less(Minus(from, over), Whole(1))
  BY DEF Meets
<1>10. IsOver(from, h + t + Pixel(k), D) /\ IsOver(to, h + t + Pixel(k + 1), D)
  BY <1>3, <1>4
<1> HIDE DEF f, D, E, h, t, c, k, p, from, to, near, over, Pixel
<1>11. Pixel(k) = f * K /\ Pixel(k + 1) = f * (K + E)
       /\ K \in Int /\ f * K \in Int /\ f * (K + E) \in Int
  <2>1. (k + 1) * E = K + E /\ K \in Int /\ k + 1 \in Int
    BY <1>3, <1>5
  <2> HIDE DEF K
  <2>2. f * K \in Int /\ f * (K + E) \in Int
    BY <1>2, <1>5, <2>1
  <2> QED BY <1>3, <1>7, <2>1, <2>2 DEF K
<1> HIDE DEF K
<1>12. IsOver(from, h + t + f * K, D) /\ IsOver(to, h + t + f * (K + E), D)
       /\ IsOver(over, c + f * K + h, D)
  BY <1>6, <1>10, <1>11
<1>13. /\ IsOver(Whole(m), h + p, D) /\ IsOver(Whole(m + 1), h + p + D, D)
       /\ IsOver(Whole(1), D, D) /\ IsOver(Whole(-1), -D, D)
  <2>1. \A j \in Int : IsOver(Whole(j), j * D, 1 * D)
    BY <1>5, WholeIsOver, Expanded
  <2>2. 1 * D = D /\ (-1) * D = -D
    BY <1>5
  <2>3. (m + 1) * D = m * D + D
    BY <1>5
  <2>4. m * D = h + p /\ (m + 1) * D = h + p + D
    <3> DEFINE u == m * D
    <3>1. u \in Int
      BY <1>5
    <3> HIDE DEF u
    <3>2. u = h + p /\ (m + 1) * D = u + D
      BY <1>3, <1>5, <2>3 DEF u
    <3> QED BY <3>2 DEF u
  <2>5. IsOver(Whole(m), m * D, D) /\ IsOver(Whole(m + 1), (m + 1) * D, D)
        /\ IsOver(Whole(1), 1 * D, D) /\ IsOver(Whole(-1), (-1) * D, D)
    BY <2>1, <2>2
  <2> QED BY <2>2, <2>4, <2>5
<1>14. PICK r \in 0 .. E : /\ -E < K - (f * p - f * c - r)
                           /\ K - (f * p - f * c - r) < E
  BY <1>3
<1>15. /\ f = 1 => /\ (h + t + f * K) - (h + p + D) < D + E
                   /\ (h + p) - (h + t + f * (K + E)) < D + E
       /\ f = -1 => /\ (h + t + f * (K + E)) - (h + p + D) < D + E
                    /\ (h + p) - (h + t + f * K) < D + E
  <2>1. r \in Int /\ 0 <= r /\ r <= E
    BY <1>5, <1>14
  <2> QED BY <1>2, <1>3, <1>4, <1>5, <1>11, <1>14, <2>1, ThereAndBack
<1>16. Less(Whole(-1), Minus(from, over)) /\ Less(Minus(from, over), Whole(1))
  <2> DEFINE e == (h + t + f * K) - (c + f * K + h)
  <2>1. IsOver(Minus(from, over), e, D)
    BY <1>12, MinusIsOver
  <2>2. -D < e /\ e < D
    <3> DEFINE j == f * K
    <3>1. j \in Int
      BY <1>11
    <3> HIDE DEF j
    <3>2. -D < (h + t + j) - (c + j + h) /\ (h + t + j) - (c + j + h) < D
      BY <1>4, <1>5, <3>1
    <3> QED BY <3>2 DEF j
  <2> HIDE DEF e
  <2> QED BY <1>13, <2>1, <2>2, LessIsOver
<1>17. ASSUME NEW q, NEW o, NEW u, NEW v, IsOver(q, u, D), IsOver(o, v, D),
              u - v < D + E
       PROVE  Less(Minus(q, o), near)
  <2>1. IsOver(Minus(q, o), u - v, D)
    BY <1>17, MinusIsOver
  <2> DEFINE e == u - v
  <2> HIDE DEF e
  <2>2. IsOver(Minus(q, o), e, D) /\ e < D + E
    BY <1>17, <2>1 DEF e
  <2> QED BY <1>8, <2>2, LessIsOver
<1> DEFINE u1 == h + t + f * K
           u2 == h + t + f * (K + E)
           v0 == h + p
           v1 == h + p + D
<1>18. /\ IsOver(from, u1, D) /\ IsOver(to, u2, D)
       /\ IsOver(Whole(m), v0, D) /\ IsOver(Whole(m + 1), v1, D)
       /\ f = 1 => u1 - v1 < D + E /\ v0 - u2 < D + E
       /\ f = -1 => u2 - v1 < D + E /\ v0 - u1 < D + E
  BY <1>12, <1>13, <1>15
<1> HIDE DEF u1, u2, v0, v1
<1>19. CASE f = 1
  <2>1. Less(Minus(from, Whole(m + 1)), near)
    BY <1>17, <1>18, <1>19
  <2>2. Less(Minus(Whole(m), to), near)
    BY <1>17, <1>18, <1>19
  <2> QED BY <1>9, <1>16, <1>19, <2>1, <2>2
<1>20. CASE f = -1
  <2>1. Less(Minus(to, Whole(m + 1)), near)
    BY <1>17, <1>18, <1>20
  <2>2. Less(Minus(Whole(m), from), near)
    BY <1>17, <1>18, <1>20
  <2>3. f # 1
    BY <1>20
  <2> QED BY <1>9, <1>16, <2>1, <2>2, <2>3
<1> QED BY <1>2, <1>19, <1>20

(* Reckoning with fractions gives fractions.                               *)
LEMMA FractionsAreClosed ==
  ASSUME NEW p \in Fractions, NEW q \in Fractions
  PROVE  /\ Plus(p, q) \in Fractions /\ Minus(p, q) \in Fractions
         /\ Times(p, q) \in Fractions
         /\ q[1] # 0 => Over(p, q) \in Fractions
<1> DEFINE a == p[1]
           b == p[2]
           u == q[1]
           v == q[2]
<1>1. a \in Int /\ b \in Nat \ {0} /\ u \in Int /\ v \in Nat \ {0}
  BY DEF Fractions
<1>2. /\ Plus(p, q) = Ratio(a * v + u * b, b * v)
      /\ Minus(p, q) = Plus(p, <<-u, v>>)
      /\ Plus(p, <<-u, v>>) = Ratio(a * v + (-u) * b, b * v)
      /\ Times(p, q) = Ratio(a * u, b * v)
      /\ Over(p, q) = Ratio(a * v, b * u)
  BY DEF Plus, Minus, Times, Over
<1> HIDE DEF a, b, u, v
<1>3. /\ a * v + u * b \in Int /\ a * v + (-u) * b \in Int
      /\ a * u \in Int /\ a * v \in Int /\ b * v \in Int \ {0}
      /\ u # 0 => b * u \in Int \ {0}
  BY <1>1
<1>4. \A n \in Int, d \in Int \ {0} : Ratio(n, d) \in Fractions
  BY RatioKeepsValue
<1> QED BY <1>2, <1>3, <1>4 DEF u

(* Zooms and moves keep to their limits.                                   *)
LEMMA ConfinedPan ==
  ASSUME NEW p \in Fractions
  PROVE  Confined(p, MIN_PAN, MAX_PAN) \in Pans
<1>1. MIN_PAN \in Pans /\ MAX_PAN \in Pans
  BY DEF MIN_PAN, MAX_PAN, Pans, Fractions, Whole, Less
<1> QED BY <1>1 DEF Confined, Pans

(* Zooms are kept positive.                                                *)
LEMMA ConfinedZoom ==
  ASSUME NEW p \in Fractions
  PROVE  Confined(p, MIN_ZOOM, MAX_ZOOM) \in Factors
<1>1. MIN_ZOOM \in Factors /\ MAX_ZOOM \in Factors
  BY DEF MIN_ZOOM, MAX_ZOOM, Factors, Fractions, Whole
<1>2. CASE Less(p, MIN_ZOOM) \/ Less(MAX_ZOOM, p)
  BY <1>1, <1>2 DEF Confined
<1>3. CASE ~Less(p, MIN_ZOOM) /\ ~Less(MAX_ZOOM, p)
  <2>1. p[1] \in Int /\ p[2] \in Nat \ {0}
    BY DEF Fractions
  <2>2. ~(p[1] * 10 < 1 * p[2])
    BY <1>3 DEF Less, MIN_ZOOM
  <2>3. p[1] > 0
    BY <2>1, <2>2
  <2> QED BY <1>3, <2>3 DEF Confined, Factors
<1> QED BY <1>2, <1>3

(* What the operations of the object Zoom leave is within its limits.      *)
LEMMA ZoomIsKept ==
  ASSUME NEW z \in Zooms
  PROVE  /\ \A val \in Fractions : setZoom(z, val) \in Zooms
         /\ \A val \in [Sides2 -> Fractions] : setPan(z, val) \in Zooms
         /\ \A a \in Sides2, val \in BOOLEAN : setFlip(z, a, val) \in Zooms
         /\ \A i \in Extents, s \in Extents : setup(z, i, s) \in Zooms
<1>1. ASSUME NEW val \in Fractions PROVE setZoom(z, val) \in Zooms
  <2>1. Confined(val, MIN_ZOOM, MAX_ZOOM) \in Factors
    BY ConfinedZoom
  <2> QED BY <2>1 DEF setZoom, Zooms
<1>2. ASSUME NEW val \in [Sides2 -> Fractions] PROVE setPan(z, val) \in Zooms
  <2>1. \A a \in Sides2 : Confined(val[a], MIN_PAN, MAX_PAN) \in Pans
    BY ConfinedPan
  <2> QED BY <2>1 DEF setPan, Zooms
<1>3. ASSUME NEW a \in Sides2, NEW val \in BOOLEAN PROVE setFlip(z, a, val) \in Zooms
  <2>1. (IF val THEN -1 ELSE 1) \in {-1, 1}
    OBVIOUS
  <2> DEFINE w == IF val THEN -1 ELSE 1
  <2> HIDE DEF w
  <2>2. w \in {-1, 1}
    BY <2>1 DEF w
  <2>3. [z EXCEPT !.flip[a] = w] \in Zooms
    BY <2>2 DEF Zooms
  <2> QED BY <2>3 DEF setFlip, w
<1>4. ASSUME NEW i \in Extents, NEW s \in Extents PROVE setup(z, i, s) \in Zooms
  BY DEF setup, Zooms
<1> QED BY <1>1, <1>2, <1>3, <1>4

(* Both numbers of a pair.                                                 *)
LEMMA PairOf ==
  ASSUME NEW S, NEW s \in S, NEW t \in S
  PROVE  <<s, t>> \in [Sides2 -> S]
BY DEF Sides2

(* So is the object that the program begins with.                          *)
LEMMA StartIsKept == StartZoom \in Zooms
<1> DEFINE Before == [image : Extents, surface : Extents, zoomFactor : Factors,
                      pan : {<<>>}, flip : {<<>>}]
           start == [image |-> <<320, 240>>, surface |-> <<320, 240>>,
                     zoomFactor |-> Whole(1), pan |-> <<>>, flip |-> <<>>]
<1>1. <<320, 240>> \in Extents /\ Whole(1) \in Factors
  BY DEF Extents, Factors, Fractions, Whole
<1>2. start \in Before
  BY <1>1
<1>3. Whole(0) \in Pans
  BY DEF Pans, Fractions, Less, MIN_PAN, MAX_PAN, Whole
<1>4. <<Whole(0), Whole(0)>> \in [Sides2 -> Pans] /\ <<1, 1>> \in [Sides2 -> {-1, 1}]
  BY <1>3, PairOf
<1>5. \A r \in Before, o \in Factors, p \in [Sides2 -> Pans],
         f \in [Sides2 -> {-1, 1}] :
         [r EXCEPT !.zoomFactor = o, !.pan = p, !.flip = f] \in Zooms
  BY DEF Zooms
<1> HIDE DEF Before, start
<1>6. reset(start) \in Zooms
  BY <1>1, <1>2, <1>4, <1>5 DEF reset
<1> QED BY <1>6 DEF StartZoom, start

(* Moves within the limits are fractions.                                  *)
LEMMA PansAreFractions == [Sides2 -> Pans] \subseteq [Sides2 -> Fractions]
BY DEF Pans

(* Each event leaves the zoom within its limits.                           *)
LEMMA EventsKeepZoom ==
  ASSUME NEW z \in Zooms
  PROVE  /\ zoomIn(z) \in Zooms /\ zoomOut(z) \in Zooms
         /\ setPan(z, <<Whole(0), Whole(0)>>) \in Zooms
         /\ setZoom(z, Whole(1)) \in Zooms
         /\ zoomToFit(z) \in Zooms
         /\ \A a \in Sides2, way \in {-1, 1} : panBy(z, a, way) \in Zooms
<1>1. \A n \in Int : Whole(n) \in Fractions
  BY DEF Whole, Fractions
<1>2. zoomIn(z) \in Zooms /\ zoomOut(z) \in Zooms
  <2>1. DEFAULT_ZOOM_INCREMENT \in Fractions /\ DEFAULT_ZOOM_INCREMENT[1] # 0
    BY DEF DEFAULT_ZOOM_INCREMENT, Fractions
  <2>2. z.zoomFactor \in Fractions
    BY DEF Zooms, Factors
  <2>3. /\ Times(z.zoomFactor, DEFAULT_ZOOM_INCREMENT) \in Fractions
        /\ Over(z.zoomFactor, DEFAULT_ZOOM_INCREMENT) \in Fractions
    BY <2>1, <2>2, FractionsAreClosed
  <2> QED BY <2>3, ZoomIsKept DEF zoomIn, zoomOut
<1>3. setPan(z, <<Whole(0), Whole(0)>>) \in Zooms
  <2>1. <<Whole(0), Whole(0)>> \in [Sides2 -> Fractions]
    BY <1>1, PairOf
  <2> QED BY <2>1, ZoomIsKept
<1>4. setZoom(z, Whole(1)) \in Zooms
  BY <1>1, ZoomIsKept
<1>5. zoomToFit(z) \in Zooms
  <2>1. \A a \in Sides2 : Ratio(z.surface[a], z.image[a]) \in Fractions
    BY ZoomParts, RatioKeepsValue
  <2>2. Ratio(z.surface[1], z.image[1]) \in Fractions
        /\ Ratio(z.surface[2], z.image[2]) \in Fractions
    BY <2>1 DEF Sides2
  <2>3. zoomToFit(z) = setZoom(z, Ratio(z.surface[1], z.image[1]))
        \/ zoomToFit(z) = setZoom(z, Ratio(z.surface[2], z.image[2]))
    BY DEF zoomToFit
  <2> QED BY <2>2, <2>3, ZoomIsKept
<1>6. ASSUME NEW a \in Sides2, NEW way \in {-1, 1} PROVE panBy(z, a, way) \in Zooms
  <2> DEFINE by == Times(DEFAULT_PAN_DISTANCE, Whole(way * z.flip[a]))
  <2>1. by \in Fractions
    <3>1. DEFAULT_PAN_DISTANCE \in Fractions
      BY DEF DEFAULT_PAN_DISTANCE, Fractions
    <3>2. way * z.flip[a] \in Int
      BY ZoomParts
    <3> QED BY <1>1, <3>1, <3>2, FractionsAreClosed
  <2>2. z.pan \in [Sides2 -> Fractions]
    BY PansAreFractions DEF Zooms
  <2> HIDE DEF by
  <2>3. Plus(z.pan[a], by) \in Fractions
    BY <2>1, <2>2, FractionsAreClosed
  <2>4. [z.pan EXCEPT ![a] = Plus(@, by)] \in [Sides2 -> Fractions]
    BY <2>2, <2>3
  <2>5. setPan(z, [z.pan EXCEPT ![a] = Plus(@, by)]) \in Zooms
    BY <2>4, ZoomIsKept
  <2> QED BY <2>5 DEF panBy, by
<1> QED BY <1>2, <1>3, <1>4, <1>5, <1>6

(* Where a drag moves the picture, over one denominator.                   *)
Pulled(z, p, s, w, a) ==
    Minus(p, Over(Whole(s), Times(ScaleOf(z, a), Whole(w))))

(* The way of a drag, worked out.                                          *)
LEMMA PulledIsOver ==
  ASSUME NEW z \in Zooms, NEW a \in Sides2, NEW s \in Int, NEW w \in Nat \ {0},
         NEW p, NEW n, NEW d, IsOver(p, n, d)
  PROVE  IsOver(Pulled(z, p, s, w, a),
                n * (z.zoomFactor[1] * w) - z.flip[a] * (s * z.zoomFactor[2]) * d,
                d * (z.zoomFactor[1] * w))
<1> DEFINE f == z.flip[a]
           x == z.zoomFactor[1]
           y == z.zoomFactor[2]
           scale == ScaleOf(z, a)
<1>1. f \in {-1, 1} /\ x \in Nat \ {0} /\ y \in Nat \ {0}
  BY ZoomParts
<1>2. IsOver(scale, f * x, y)
  BY ScaleIsOver
<1>3. n \in Int /\ d \in Nat \ {0}
  BY DEF IsOver
<1>4. Pulled(z, p, s, w, a) = Minus(p, Over(Whole(s), Times(scale, Whole(w))))
  BY DEF Pulled
<1> HIDE DEF f, x, y, scale
<1>5. IsOver(Times(scale, Whole(w)), f * (x * w), y)
  <2>1. IsOver(Whole(w), w, 1)
    BY WholeIsOver
  <2>2. IsOver(Times(scale, Whole(w)), (f * x) * w, y * 1)
    BY <1>2, <2>1, TimesIsOver
  <2>3. (f * x) * w = f * (x * w) /\ y * 1 = y
    BY <1>1
  <2> QED BY <2>2, <2>3
<1>6. x * w \in Nat \ {0}
  BY <1>1
<1>7. IsOver(Over(Whole(s), Times(scale, Whole(w))), f * (s * y), x * w)
  <2>1. IsOver(Over(Whole(s), Times(scale, Whole(w))), f * (s * y), 1 * (x * w))
    BY <1>1, <1>5, <1>6, WholeIsOver, OverIsOver
  <2>2. 1 * (x * w) = x * w
    BY <1>6
  <2> QED BY <2>1, <2>2
<1> DEFINE c == x * w
           g == f * (s * y)
           way == Over(Whole(s), Times(scale, Whole(w)))
<1>8. g \in Int
  BY <1>1
<1> HIDE DEF c, g, way
<1>9. IsOver(p, n * c, d * c)
  BY <1>6, Expanded DEF c
<1>10. IsOver(way, g * d, d * c)
  <2>1. IsOver(way, g * d, c * d)
    BY <1>3, <1>7, Expanded DEF c, g, way
  <2>2. c * d = d * c
    BY <1>3, <1>6 DEF c
  <2> QED BY <2>1, <2>2
<1>11. IsOver(Minus(p, way), n * c - g * d, d * c)
  BY <1>9, <1>10, MinusIsOver
<1> QED BY <1>4, <1>11 DEF c, g, way, f, x, y

(* A place within the limits stays where it is.                            *)
LEMMA PanStays ==
  ASSUME NEW p \in Pans, NEW r, IsOver(r, p[1], p[2])
  PROVE  Confined(r, MIN_PAN, MAX_PAN) = r
<1> DEFINE n == p[1]
           d == p[2]
<1>1. n \in Int /\ d \in Nat \ {0} /\ IsOver(p, n, d) /\ IsOver(r, n, d)
  BY FractionIsOver DEF Pans, IsOver
<1>2. IsOver(MIN_PAN, (-2) * d, d) /\ IsOver(MAX_PAN, 2 * d, d)
  <2>1. IsOver(Whole(-2), (-2) * d, 1 * d) /\ IsOver(Whole(2), 2 * d, 1 * d)
    BY <1>1, WholeIsOver, Expanded
  <2>2. 1 * d = d
    BY <1>1
  <2> QED BY <2>1, <2>2 DEF MIN_PAN, MAX_PAN
<1>3. ~Less(p, MIN_PAN) /\ ~Less(MAX_PAN, p)
  BY DEF Pans
<1> HIDE DEF n, d
<1>4. ~Less(r, MIN_PAN) /\ ~Less(MAX_PAN, r)
  BY <1>1, <1>2, <1>3, LessIsOver
<1> QED BY <1>4 DEF Confined

(***************************************************************************)
(* The inductive invariant.                                                *)
(***************************************************************************)
IsGrabbed(g, start) ==
    /\ g.zoom \in Zooms
    /\ \A a \in Sides2 :
          IsOver(g.at[a],
                 UnderTop(g.zoom, start.pan[a][1], start.pan[a][2], start.at[a], a),
                 UnderBottom(g.zoom, start.pan[a][2]))
GrabbedIsWhere ==
    ~grabbed.taken => "right" \in buttons /\ IsGrabbed(grabbed, mouseStart)
ZoomInv ==
    /\ picture \in DrawnSizes \cup {NoPicture} /\ window \in WindowSizes
    /\ zoom \in Zooms /\ mouse \in MousePoints
    /\ mouseStart \in [at : Int \X Int, pan : [Sides2 -> Pans]]
    /\ DrawnIsCurrent /\ GrabbedIsWhere

(* The invariant holds at the start.                                       *)
LEMMA ZoomStarts == ZoomInit => ZoomInv
<1> SUFFICES ASSUME ZoomInit PROVE ZoomInv
  OBVIOUS
<1>1. mouseStart \in [at : Int \X Int, pan : [Sides2 -> Pans]]
  <2>1. Whole(0) \in Pans /\ Whole(1) \in Pans
    BY DEF Pans, Fractions, Less, MIN_PAN, MAX_PAN, Whole
  <2>2. <<Whole(0), Whole(1)>> \in [Sides2 -> Pans] /\ <<0, 0>> \in Int \X Int
    BY <2>1, PairOf
  <2> QED BY <2>2 DEF ZoomInit
<1>2. GrabbedIsWhere /\ DrawnIsCurrent
  BY DEF ZoomInit, GrabbedIsWhere, NotGrabbed, DrawnIsCurrent
<1> QED BY <1>1, <1>2, StartIsKept DEF ZoomInit, ZoomInv

(* What a drawing leaves.                                                  *)
LEMMA RedrawKeeps ==
  ASSUME ZoomInv, NEW z \in Zooms, redraw(z)
  PROVE  /\ zoom' \in Zooms /\ DrawnIsCurrent'
         /\ zoom'.pan = z.pan /\ zoom'.flip = z.flip
         /\ zoom'.zoomFactor = z.zoomFactor
<1>1. CASE ~displayed
  BY <1>1 DEF redraw, DrawnIsCurrent
<1>2. CASE displayed /\ picture = NoPicture
  BY <1>2 DEF redraw, DrawnIsCurrent
<1>3. CASE displayed /\ picture # NoPicture
  <2>1. zoom' = setup(z, picture, window) /\ drawn' = zoom'
    BY <1>3 DEF redraw
  <2>2. picture \in Extents /\ window \in Extents
    BY <1>3, ZoomAssumption DEF ZoomInv, Extents
  <2>3. zoom' \in Zooms
    BY <2>1, <2>2, ZoomIsKept
  <2>4. zoom'.pan = z.pan /\ zoom'.flip = z.flip /\ zoom'.zoomFactor = z.zoomFactor
    BY <2>1 DEF setup, Zooms
  <2> QED BY <2>1, <2>3, <2>4 DEF DrawnIsCurrent
<1> QED BY <1>1, <1>2, <1>3

(* A drag keeps the zoom within its limits, and does not move the picture  *)
(* while the pointer is where it began.                                    *)
LEMMA DraggedKeeps ==
  ASSUME ZoomInv, NEW start \in [at : Int \X Int, pan : [Sides2 -> Pans]],
         NEW at \in Int \X Int, NEW held
  PROVE  /\ Dragged(start, at, held) \in Zooms
         /\ "right" \notin held => Dragged(start, at, held) = zoom
         /\ "right" \in held => \A a \in Sides2 :
               Dragged(start, at, held).pan[a]
                 = Confined(Pulled(zoom, start.pan[a], start.at[a] - at[a],
                                   window[a], a), MIN_PAN, MAX_PAN)
<1> DEFINE to == [a \in Sides2 |-> Pulled(zoom, start.pan[a],
                                          start.at[a] - at[a], window[a], a)]
<1>1. \A a \in Sides2 : /\ start.at[a] - at[a] \in Int /\ window[a] \in Nat \ {0}
                        /\ start.pan[a] \in Fractions
  BY ZoomAssumption DEF ZoomInv, Sides2, Pans
<1>2. zoom \in Zooms
  BY DEF ZoomInv
<1>3. \A a \in Sides2 : Pulled(zoom, start.pan[a], start.at[a] - at[a],
                               window[a], a) \in Fractions
  <2> TAKE a \in Sides2
  <2>1. PICK n, d : IsOver(start.pan[a], n, d)
    BY <1>1, FractionIsOver
  <2> QED BY <1>1, <1>2, <2>1, PulledIsOver DEF IsOver
<1>4. to \in [Sides2 -> Fractions]
  BY <1>3
<1>5. "right" \in held => Dragged(start, at, held) = setPan(zoom, to)
  BY DEF Dragged, Pulled
<1>6. "right" \notin held => Dragged(start, at, held) = zoom
  BY DEF Dragged
<1>7. \A a \in Sides2 : setPan(zoom, to).pan[a] = Confined(to[a], MIN_PAN, MAX_PAN)
  BY <1>2 DEF setPan, Zooms
<1>8. \A a \in Sides2 : to[a] = Pulled(zoom, start.pan[a], start.at[a] - at[a],
                                       window[a], a)
  OBVIOUS
<1> HIDE DEF to
<1> QED BY <1>2, <1>4, <1>5, <1>6, <1>7, <1>8, ZoomIsKept

(* At the press of a drag nothing moves yet.                               *)
LEMMA PressStays ==
  ASSUME NEW z \in Zooms, NEW a \in Sides2, NEW p \in Pans, NEW w \in Nat \ {0},
         NEW s \in {0}
  PROVE  IsOver(Confined(Pulled(z, p, s, w, a), MIN_PAN, MAX_PAN), p[1], p[2])
<1> DEFINE n == p[1]
           d == p[2]
           f == z.flip[a]
           x == z.zoomFactor[1]
           y == z.zoomFactor[2]
           r == Pulled(z, p, s, w, a)
<1>1. n \in Int /\ d \in Nat \ {0} /\ IsOver(p, n, d)
  BY FractionIsOver DEF Pans, IsOver
<1>2. f \in {-1, 1} /\ x \in Nat \ {0} /\ y \in Nat \ {0}
  BY ZoomParts
<1>3. s \in Int /\ IsOver(r, n * (x * w) - f * (s * y) * d, d * (x * w))
  <2>1. s \in Int
    OBVIOUS
  <2>2. IsOver(r, n * (x * w) - f * (s * y) * d, d * (x * w))
    BY <1>1, <2>1, PulledIsOver
  <2> QED BY <2>1, <2>2
<1> HIDE DEF n, d, f, x, y, r
<1>4. n * (x * w) - f * (s * y) * d = n * (x * w)
  <2>1. s * y = 0 /\ f * 0 = 0 /\ 0 * d = 0
    BY <1>1, <1>2
  <2>2. n * (x * w) \in Int
    BY <1>1, <1>2
  <2> QED BY <2>1, <2>2
<1>5. (n * (x * w)) * d = n * (d * (x * w))
  BY <1>1, <1>2
<1>6. IsOver(r, n, d)
  BY <1>1, <1>3, <1>4, <1>5, ReducedIsOver
<1>7. IsOver(r, p[1], p[2])
  BY <1>6 DEF n, d
<1>8. Confined(r, MIN_PAN, MAX_PAN) = r
  BY <1>7, PanStays
<1> QED BY <1>7, <1>8 DEF r

(* A press keeps it: what a drag grabs is what is under the pointer.       *)
LEMMA PressIsKept ==
  ASSUME ZoomInv, NEW at \in MousePoints, NEW button, mousePressed(at, button)
  PROVE  ZoomInv'
<1>1. at \in Int \X Int /\ zoom \in Zooms
  BY ZoomAssumption DEF ZoomInv
<1>2. /\ UNCHANGED <<picture, window>> /\ mouse' = at
      /\ buttons' = buttons \cup {button}
  BY DEF mousePressed, Nothing2
<1>3. CASE /\ grabbed' = IF button = "right" THEN NotGrabbed ELSE grabbed
           /\ UNCHANGED <<mouseStart, zoom, drawn, hiddenChange>>
  <2>1. GrabbedIsWhere'
    BY <1>2, <1>3 DEF ZoomInv, GrabbedIsWhere, NotGrabbed
  <2>2. DrawnIsCurrent'
    BY <1>3 DEF ZoomInv, DrawnIsCurrent
  <2> QED BY <1>2, <1>3, <2>1, <2>2 DEF ZoomInv
<1>4. CASE /\ mouseStart' = StartOfDrag(at)
           /\ redraw(Dragged(mouseStart', at, buttons'))
           /\ grabbed' = IF "right" \notin buttons' THEN grabbed
                         ELSE [taken |-> FALSE, zoom |-> zoom',
                               at |-> [a \in Sides2 |-> Under(zoom', at[a], a)]]
  <2> DEFINE z == Dragged(mouseStart', at, buttons')
  <2>1. /\ mouseStart' \in [at : Int \X Int, pan : [Sides2 -> Pans]]
        /\ mouseStart'.at = at /\ mouseStart'.pan = zoom.pan
    BY <1>1, <1>4 DEF StartOfDrag, Zooms
  <2>2. /\ z \in Zooms
        /\ "right" \in buttons' => \A a \in Sides2 :
              z.pan[a] = Confined(Pulled(zoom, zoom.pan[a], at[a] - at[a],
                                         window[a], a), MIN_PAN, MAX_PAN)
    BY <1>1, <2>1, DraggedKeeps
  <2>3. redraw(z)
    BY <1>4
  <2> HIDE DEF z
  <2>4. zoom' \in Zooms /\ DrawnIsCurrent' /\ zoom'.pan = z.pan
    BY <2>2, <2>3, RedrawKeeps
  <2>5. CASE "right" \notin buttons'
    <3>1. grabbed' = grabbed /\ grabbed.taken
      BY <1>2, <1>4, <2>5 DEF ZoomInv, GrabbedIsWhere
    <3>2. GrabbedIsWhere'
      BY <3>1 DEF GrabbedIsWhere
    <3> QED BY <1>2, <2>1, <2>4, <3>2 DEF ZoomInv
  <2>6. CASE "right" \in buttons'
    <3>1. /\ grabbed'.zoom = zoom'
          /\ \A a \in Sides2 : grabbed'.at[a] = Under(zoom', at[a], a)
      BY <1>4, <2>6
    <3>2. \A a \in Sides2 : IsOver(zoom'.pan[a], zoom.pan[a][1], zoom.pan[a][2])
      <4> TAKE a \in Sides2
      <4>1. at[a] \in Int /\ window[a] \in Nat \ {0} /\ zoom.pan[a] \in Pans
        BY <1>1, ZoomAssumption DEF ZoomInv, Sides2, Zooms
      <4>2. at[a] - at[a] \in {0}
        BY <4>1
      <4> QED BY <1>1, <2>2, <2>4, <2>6, <4>1, <4>2, PressStays
    <3>3. \A a \in Sides2 :
             IsOver(Under(zoom', at[a], a),
                    UnderTop(zoom', zoom.pan[a][1], zoom.pan[a][2], at[a], a),
                    UnderBottom(zoom', zoom.pan[a][2]))
      <4>1. \A a \in Sides2 : at[a] \in Int
        BY <1>1 DEF Sides2
      <4> QED BY <2>4, <3>2, <4>1, UnderIsOver
    <3>4. IsGrabbed(grabbed', mouseStart')
      BY <2>1, <2>4, <3>1, <3>3 DEF IsGrabbed
    <3>5. GrabbedIsWhere'
      BY <2>6, <3>4 DEF GrabbedIsWhere
    <3> QED BY <1>2, <2>1, <2>4, <3>5 DEF ZoomInv
  <2> QED BY <2>5, <2>6
<1> QED BY <1>3, <1>4 DEF mousePressed

(* A release keeps it.                                                     *)
LEMMA ReleaseIsKept ==
  ASSUME ZoomInv, NEW button, mouseReleased(button)
  PROVE  ZoomInv'
<1>1. /\ UNCHANGED <<picture, window, mouse, mouseStart>>
      /\ buttons' = buttons \ {button}
      /\ grabbed' = IF button = "right" THEN NotGrabbed ELSE grabbed
      /\ \/ UNCHANGED <<zoom, drawn, hiddenChange>>
         \/ redraw(Dragged(mouseStart, mouse, buttons'))
  BY DEF mouseReleased, Nothing2
<1>2. GrabbedIsWhere'
  BY <1>1 DEF ZoomInv, GrabbedIsWhere, NotGrabbed
<1>3. zoom' \in Zooms /\ DrawnIsCurrent'
  <2>1. CASE UNCHANGED <<zoom, drawn, hiddenChange>>
    BY <2>1 DEF ZoomInv, DrawnIsCurrent
  <2>2. CASE redraw(Dragged(mouseStart, mouse, buttons'))
    <3> DEFINE z == Dragged(mouseStart, mouse, buttons')
    <3>1. mouse \in Int \X Int
          /\ mouseStart \in [at : Int \X Int, pan : [Sides2 -> Pans]]
      BY ZoomAssumption DEF ZoomInv
    <3>2. z \in Zooms
      BY <3>1, DraggedKeeps
    <3> HIDE DEF z
    <3>3. redraw(z)
      BY <2>2 DEF z
    <3> QED BY <3>2, <3>3, RedrawKeeps
  <2> QED BY <1>1, <2>1, <2>2
<1> QED BY <1>1, <1>2, <1>3 DEF ZoomInv

(* A move of the pointer keeps it: the drag's start is not touched.        *)
LEMMA MoveIsKept ==
  ASSUME ZoomInv, NEW at \in MousePoints, mouseMoved(at)
  PROVE  ZoomInv'
<1>1. /\ UNCHANGED <<picture, window, buttons, mouseStart, grabbed>>
      /\ mouse' = at
      /\ \/ UNCHANGED <<zoom, drawn, hiddenChange>>
         \/ redraw(Dragged(mouseStart, at, buttons))
  BY DEF mouseMoved, Nothing2
<1>2. GrabbedIsWhere'
  BY <1>1 DEF ZoomInv, GrabbedIsWhere
<1>3. zoom' \in Zooms /\ DrawnIsCurrent'
  <2>1. CASE UNCHANGED <<zoom, drawn, hiddenChange>>
    BY <2>1 DEF ZoomInv, DrawnIsCurrent
  <2>2. CASE redraw(Dragged(mouseStart, at, buttons))
    <3> DEFINE z == Dragged(mouseStart, at, buttons)
    <3>1. at \in Int \X Int
          /\ mouseStart \in [at : Int \X Int, pan : [Sides2 -> Pans]]
      BY ZoomAssumption DEF ZoomInv
    <3>2. z \in Zooms
      BY <3>1, DraggedKeeps
    <3> HIDE DEF z
    <3>3. redraw(z)
      BY <2>2 DEF z
    <3> QED BY <3>2, <3>3, RedrawKeeps
  <2> QED BY <1>1, <2>1, <2>2
<1> QED BY <1>1, <1>2, <1>3 DEF ZoomInv

(* An event that draws what it makes of the zoom.                          *)
LEMMA DrawingIsKept ==
  ASSUME ZoomInv, NEW z \in Zooms, redraw(z), NoMouse, Nothing2
  PROVE  ZoomInv'
<1>1. zoom' \in Zooms /\ DrawnIsCurrent'
  BY RedrawKeeps
<1>2. GrabbedIsWhere'
  BY DEF ZoomInv, GrabbedIsWhere, NoMouse
<1> QED BY <1>1, <1>2 DEF ZoomInv, NoMouse, Nothing2

(* An event that waits for the next drawing keeps it.                      *)
LEMMA WaitingIsKept ==
  ASSUME ZoomInv, picture' \in DrawnSizes \cup {NoPicture},
         window' \in WindowSizes, NoMouse, UNCHANGED <<zoom, drawn, hiddenChange>>
  PROVE  ZoomInv'
<1>1. DrawnIsCurrent' /\ GrabbedIsWhere'
  BY DEF ZoomInv, DrawnIsCurrent, GrabbedIsWhere, NoMouse
<1> QED BY <1>1 DEF ZoomInv, NoMouse

(* Every step keeps it.                                                    *)
LEMMA ZoomIsKeptByNext == ZoomInv /\ [ZoomNext]_zoomVars => ZoomInv'
<1> SUFFICES ASSUME ZoomInv, [ZoomNext]_zoomVars PROVE ZoomInv'
  OBVIOUS
<1>0. zoom \in Zooms
  BY DEF ZoomInv
<1>1. CASE \E button \in {"left", "right"} : mouseReleased(button)
  BY <1>1, ReleaseIsKept
<1>2. CASE \E button \in {"left", "right"} :
              \E at \in MousePoints : mousePressed(at, button)
  BY <1>2, PressIsKept
<1>3. CASE \E at \in MousePoints : mouseMoved(at)
  BY <1>3, MoveIsKept
<1>4. CASE \E delta \in {-1, 1} : wheelEvent(delta)
  BY <1>0, <1>4, EventsKeepZoom, DrawingIsKept DEF wheelEvent
<1>5. CASE \E key \in {"Left", "Right", "Up", "Down", "PageUp", "PageDown"} :
              windowKey(key)
  <2>1. PICK key \in {"Left", "Right", "Up", "Down", "PageUp", "PageDown"} :
           windowKey(key)
    BY <1>5
  <2>2. KeyEffect(key) \in Zooms
    <3>1. 1 \in Sides2 /\ 2 \in Sides2
      BY DEF Sides2
    <3> QED BY <1>0, <3>1, EventsKeepZoom DEF KeyEffect
  <2> QED BY <2>1, <2>2, DrawingIsKept DEF windowKey
<1>6. CASE callZoomNormal
  <2>1. setZoom(setPan(zoom, <<Whole(0), Whole(0)>>), Whole(1)) \in Zooms
    BY <1>0, EventsKeepZoom
  <2> QED BY <1>6, <2>1, DrawingIsKept DEF callZoomNormal
<1>7. CASE callZoomFit
  <2>1. zoomToFit(setPan(zoom, <<Whole(0), Whole(0)>>)) \in Zooms
    BY <1>0, EventsKeepZoom
  <2> QED BY <1>7, <2>1, DrawingIsKept DEF callZoomFit
<1>8. CASE \E a \in Sides2 : flipImage(a)
  BY <1>0, <1>8, ZoomIsKept, DrawingIsKept DEF flipImage
<1>9. CASE \E p \in DrawnSizes : NewPicture(p)
  BY <1>9, WaitingIsKept DEF NewPicture, ZoomInv
<1>10. CASE \E size \in WindowSizes : resizeGL(size)
  BY <1>10, WaitingIsKept DEF resizeGL, ZoomInv
<1>11. CASE paintEvent
  BY <1>0, <1>11, DrawingIsKept DEF paintEvent
<1>12. CASE SwitchDisplay
  BY <1>12, WaitingIsKept DEF SwitchDisplay, ZoomInv
<1>13. CASE \E t \in {"none", "colours", "corners"} : SwitchTab(t)
  BY <1>13, WaitingIsKept DEF SwitchTab, ZoomInv
<1>14. CASE UNCHANGED zoomVars
  BY <1>14 DEF zoomVars, ZoomInv, DrawnIsCurrent, GrabbedIsWhere
<1> QED BY <1>1, <1>2, <1>3, <1>4, <1>5, <1>6, <1>7, <1>8, <1>9, <1>10,
           <1>11, <1>12, <1>13, <1>14 DEF ZoomNext

(* It holds in every reachable state.                                      *)
LEMMA ZoomIsInvariant == ZoomSpec => []ZoomInv
BY ZoomStarts, ZoomIsKeptByNext, PTL DEF ZoomSpec

(* A click hits what is drawn under the pointer, and lines drawn over the  *)
(* picture lie on it, for any pictures, windows and pointers and whatever  *)
(* zooms, drags, mirrors, new sizes and hidden windows came before.        *)
THEOREM ZoomSafety == ZoomSpec => []ClicksMeetPicture
<1>1. ZoomInv => ClicksMeetPicture
  <2> SUFFICES ASSUME ZoomInv PROVE ClicksMeetPicture
    OBVIOUS
  <2>1. DrawnIsCurrent /\ zoom \in Zooms
    BY DEF ZoomInv
  <2>2. \A at \in MousePoints, a \in Sides2 : Meets(zoom, at[a], a)
    <3>1. \A at \in MousePoints, a \in Sides2 : at[a] \in Int
      BY ZoomAssumption DEF Sides2
    <3> QED BY <2>1, <3>1, PickedIsMet
  <2>3. PointerMeetsPicture
    BY <2>2 DEF PointerMeetsPicture, Meets
  <2> QED BY <2>1, <2>3 DEF ClicksMeetPicture
<1> QED BY <1>1, ZoomIsInvariant, PTL

(* The point under the pointer, before and after: f * f is one.            *)
LEMMA MovedBySame ==
  ASSUME NEW f \in {-1, 1}, NEW x \in Nat, NEW y \in Nat, NEW w \in Nat,
         NEW i \in Nat, NEW n \in Int, NEW d \in Nat, NEW from \in Int, NEW to \in Int
  PROVE  LET c == x * w
             m == n * c - f * ((from - to) * y) * d
             e == d * c
         IN  /\ f * ((2 * to - w) * y * e) - 2 * m * w * x + i * x * e
                  = (f * ((2 * from - w) * y * d) - 2 * n * w * x + i * x * d) * c
             /\ 2 * x * e = (2 * x * d) * c
<1>1. CASE f = 1
  BY <1>1
<1>2. CASE f = -1
  BY <1>2
<1> QED BY <1>1, <1>2

(* A picture pulled from one place to another has the same point under the *)
(* pointer as before.                                                      *)
LEMMA SameUnder ==
  ASSUME NEW z \in Zooms, NEW g \in Zooms, NEW a \in Sides2,
         g.image = z.image, g.surface = z.surface,
         g.zoomFactor = z.zoomFactor, g.flip = z.flip,
         NEW p \in Pans, NEW from \in Int, NEW to \in Int,
         z.pan[a] = Pulled(z, p, from - to, z.surface[a], a),
         NEW r, IsOver(r, UnderTop(g, p[1], p[2], from, a), UnderBottom(g, p[2]))
  PROVE  Same(Under(z, to, a), r)
<1> DEFINE f == z.flip[a]
           x == z.zoomFactor[1]
           y == z.zoomFactor[2]
           w == z.surface[a]
           i == z.image[a]
           n == p[1]
           d == p[2]
           c == x * w
           m == n * c - f * ((from - to) * y) * d
           e == d * c
           top == UnderTop(g, n, d, from, a)
           bottom == UnderBottom(g, d)
           under == Under(z, to, a)
<1>1. /\ f \in {-1, 1} /\ x \in Nat \ {0} /\ y \in Nat \ {0}
      /\ w \in Nat \ {0} /\ i \in Nat \ {0}
  BY ZoomParts
<1>2. n \in Int /\ d \in Nat \ {0} /\ IsOver(p, n, d)
  BY FractionIsOver DEF Pans, IsOver
<1>3. c \in Nat \ {0}
  BY <1>1
<1>4. IsOver(z.pan[a], m, e)
  <2>1. from - to \in Int
    OBVIOUS
  <2> QED BY <1>1, <1>2, <2>1, PulledIsOver
<1>5. IsOver(under, UnderTop(z, m, e, to, a), UnderBottom(z, e))
  BY <1>4, UnderIsOver
<1>6. /\ UnderTop(z, m, e, to, a)
            = f * ((2 * to - w) * y * e) - 2 * m * w * x + i * x * e
      /\ top = f * ((2 * from - w) * y * d) - 2 * n * w * x + i * x * d
      /\ UnderBottom(z, e) = 2 * x * e /\ bottom = 2 * x * d
  BY DEF UnderTop, UnderBottom
<1>7. IsOver(r, top, bottom)
  OBVIOUS
<1> HIDE DEF f, x, y, w, i, n, d, top, bottom, under
<1>8. UnderTop(z, m, e, to, a) = top * c /\ UnderBottom(z, e) = bottom * c
  BY <1>1, <1>2, <1>6, MovedBySame
<1>9. IsOver(r, top * c, bottom * c)
  BY <1>3, <1>7, Expanded
<1> HIDE DEF m, e, c
<1>10. IsOver(under, top * c, bottom * c)
  BY <1>5, <1>8
<1> DEFINE u == top * c
<1> HIDE DEF u
<1>11. IsOver(under, u, bottom * c) /\ IsOver(r, u, bottom * c)
  BY <1>9, <1>10 DEF u
<1>12. Same(under, r)
  BY <1>11, LessIsOver
<1> QED BY <1>12 DEF under

(* A move during a drag that nothing else came into.                       *)
LEMMA GrabbedFollows ==
  ASSUME ZoomInv, NEW at \in MousePoints, mouseMoved(at), zoom'.pan # zoom.pan,
         ~grabbed.taken, Unmoved(grabbed.zoom) = Unmoved(zoom'),
         window = zoom'.surface, NEW a \in Sides2,
         zoom'.pan[a] \notin {MIN_PAN, MAX_PAN}
  PROVE  Same(Under(zoom', at[a], a), grabbed.at[a])
<1>1. redraw(Dragged(mouseStart, at, buttons)) /\ "right" \in buttons
  BY DEF mouseMoved, ZoomInv, GrabbedIsWhere
<1>2. /\ zoom \in Zooms /\ at \in Int \X Int
      /\ mouseStart \in [at : Int \X Int, pan : [Sides2 -> Pans]]
      /\ IsGrabbed(grabbed, mouseStart)
  BY ZoomAssumption DEF ZoomInv, GrabbedIsWhere
<1> DEFINE z == Dragged(mouseStart, at, buttons)
           p == mouseStart.pan[a]
           from == mouseStart.at[a]
           to == at[a]
<1>3. /\ z \in Zooms
      /\ z.pan[a] = Confined(Pulled(zoom, p, from - to, window[a], a),
                             MIN_PAN, MAX_PAN)
  BY <1>1, <1>2, DraggedKeeps
<1>4. z.zoomFactor = zoom.zoomFactor /\ z.flip = zoom.flip
  BY <1>2 DEF Dragged, setPan, Zooms
<1> HIDE DEF z
<1>5. redraw(z)
  BY <1>1 DEF z
<1>6. /\ zoom' \in Zooms /\ zoom'.pan = z.pan /\ zoom'.flip = z.flip
      /\ zoom'.zoomFactor = z.zoomFactor
  BY <1>3, <1>5, RedrawKeeps
<1>7. zoom'.pan[a] = Pulled(zoom, p, from - to, window[a], a)
  BY <1>3, <1>6 DEF Confined
<1>8. Pulled(zoom, p, from - to, window[a], a)
         = Pulled(zoom', p, from - to, zoom'.surface[a], a)
  BY <1>4, <1>6 DEF Pulled, ScaleOf
<1>9. p \in Pans /\ from \in Int /\ to \in Int
  BY <1>2 DEF Sides2
<1>10. /\ grabbed.zoom \in Zooms
       /\ IsOver(grabbed.at[a], UnderTop(grabbed.zoom, p[1], p[2], from, a),
                 UnderBottom(grabbed.zoom, p[2]))
  BY <1>2 DEF IsGrabbed
<1>11. \A s \in Zooms : /\ Unmoved(s).image = s.image
                        /\ Unmoved(s).surface = s.surface
                        /\ Unmoved(s).zoomFactor = s.zoomFactor
                        /\ Unmoved(s).flip = s.flip
  BY DEF Unmoved, Zooms
<1>12. /\ grabbed.zoom.image = zoom'.image /\ grabbed.zoom.surface = zoom'.surface
       /\ grabbed.zoom.zoomFactor = zoom'.zoomFactor
       /\ grabbed.zoom.flip = zoom'.flip
  <2>1. Unmoved(grabbed.zoom) = Unmoved(zoom')
    OBVIOUS
  <2> QED BY <1>6, <1>10, <1>11, <2>1
<1> DEFINE g == grabbed.zoom
           r == grabbed.at[a]
           now == zoom'
<1>13. /\ now \in Zooms /\ g \in Zooms
       /\ g.image = now.image /\ g.surface = now.surface
       /\ g.zoomFactor = now.zoomFactor /\ g.flip = now.flip
       /\ now.pan[a] = Pulled(now, p, from - to, now.surface[a], a)
       /\ IsOver(r, UnderTop(g, p[1], p[2], from, a), UnderBottom(g, p[2]))
  BY <1>6, <1>7, <1>8, <1>10, <1>12
<1> HIDE DEF g, r, now, p, from, to
<1>14. Same(Under(now, to, a), r)
  BY <1>9, <1>13, SameUnder
<1> QED BY <1>14 DEF now, to, r

(***************************************************************************)
(* Zoom to fit.                                                            *)
(***************************************************************************)
LEMMA FitIsWithin ==
  ASSUME NEW f \in {-1, 1}, NEW D \in Nat \ {0}, NEW half \in Int,
         NEW c \in Int, NEW t \in Int, NEW k \in Int,
         -D < t - f * (-c), t - f * (-c) < D, c <= half, 0 <= c,
         k = 0 \/ k = 2 * c
  PROVE  -D < half + t + f * k /\ half + t + f * k < 2 * half + D
<1>1. CASE f = 1
  <2>1. f * (-c) = -c /\ f * k = k
    BY <1>1
  <2> QED BY <2>1
<1>2. CASE f = -1
  <2>1. f * (-c) = c /\ f * k = -k
    BY <1>2
  <2> QED BY <2>1
<1> QED BY <1>1, <1>2

(* A picture in the middle that is not longer than the window is within.   *)
LEMMA MiddleIsWithin ==
  ASSUME NEW z \in Zooms, NEW a \in Sides2, z.pan[a] = Whole(0),
         z.zoomFactor[1] * z.image[a] <= z.surface[a] * z.zoomFactor[2],
         NEW k \in {0, z.image[a]}
  PROVE  Less(Whole(-1), DrawnAt(z, k, a))
         /\ Less(DrawnAt(z, k, a), Whole(z.surface[a] + 1))
<1> DEFINE f == z.flip[a]
           x == z.zoomFactor[1]
           y == z.zoomFactor[2]
           w == z.surface[a]
           i == z.image[a]
           D == ScaledBottom(z, 1)
           half == HalfTop(z, 1, a)
           t == zoomed(z, 0, a) * D
           c == i * x
           pixel == k * (2 * x * 1)
           at == DrawnAt(z, k, a)
<1>1. /\ f \in {-1, 1} /\ x \in Nat \ {0} /\ y \in Nat \ {0}
      /\ w \in Nat \ {0} /\ i \in Nat \ {0} /\ k \in Int
      /\ k = 0 \/ k = i
  BY ZoomParts
<1>2. IsOver(z.pan[a], 0, 1)
  BY WholeIsOver
<1>3. /\ t \in Int /\ -D < t - ScaledTop(z, 0, 1, 0, a)
      /\ t - ScaledTop(z, 0, 1, 0, a) < D
      /\ IsOver(at, half + t + PixelTop(z, 1, k, a), D)
  BY <1>1, <1>2, DrawnIsOver
<1>4. /\ ScaledTop(z, 0, 1, 0, a) = f * ((2 * 0 - i) * x * 1 + 2 * 0 * w * x)
      /\ PixelTop(z, 1, k, a) = f * pixel
      /\ half = w * 1 * y /\ D = 2 * 1 * y
  BY DEF ScaledTop, PixelTop, HalfTop, ScaledBottom
<1>5. x * i <= w * y
  OBVIOUS
<1> HIDE DEF f, x, y, w, i, D, half, t, at
<1>6. (2 * 0 - i) * x * 1 + 2 * 0 * w * x = -c /\ c \in Nat
      /\ pixel = 2 * (k * x) /\ k * x \in Int
  BY <1>1
<1>7. half = w * y /\ D = 2 * y /\ c <= half /\ half \in Int /\ D \in Nat \ {0}
  BY <1>1, <1>4, <1>5
<1>8. pixel \in Int /\ (pixel = 0 \/ pixel = 2 * c)
  BY <1>1
<1>9. ScaledTop(z, 0, 1, 0, a) = f * (-c)
  BY <1>4, <1>6
<1> HIDE DEF c, pixel
<1>10. -D < half + t + f * pixel /\ half + t + f * pixel < 2 * half + D
  BY <1>1, <1>3, <1>6, <1>7, <1>8, <1>9, FitIsWithin
<1>11. IsOver(Whole(-1), -D, D) /\ IsOver(Whole(w + 1), 2 * half + D, D)
  <2>1. w + 1 \in Int
    BY <1>1
  <2>2. IsOver(Whole(-1), (-1) * D, 1 * D) /\ IsOver(Whole(w + 1), (w + 1) * D, 1 * D)
    BY <1>7, <2>1, WholeIsOver, Expanded
  <2>3. (-1) * D = -D /\ 1 * D = D
    BY <1>7
  <2>4. (w + 1) * D = 2 * half + D
    BY <1>1, <1>7
  <2> QED BY <2>2, <2>3, <2>4
<1> DEFINE e == half + t + f * pixel
           b == 2 * half + D
<1> HIDE DEF e, b
<1>12. /\ IsOver(at, e, D) /\ IsOver(Whole(-1), -D, D) /\ IsOver(Whole(w + 1), b, D)
       /\ -D < e /\ e < b
  BY <1>3, <1>4, <1>10, <1>11 DEF e, b
<1>13. Less(Whole(-1), at) /\ Less(at, Whole(w + 1))
  BY <1>12, LessIsOver
<1> QED BY <1>13 DEF at, w

(* The order of fractions.                                                 *)
LEMMA LessIsTransitive ==
  ASSUME NEW p \in Fractions, NEW q \in Fractions, NEW r \in Fractions,
         Less(p, q), Less(q, r)
  PROVE  Less(p, r)
<1> DEFINE a == p[1]
           b == p[2]
           c == q[1]
           d == q[2]
           u == r[1]
           v == r[2]
<1>1. /\ a \in Int /\ b \in Nat \ {0} /\ c \in Int /\ d \in Nat \ {0}
      /\ u \in Int /\ v \in Nat \ {0}
  BY DEF Fractions
<1>2. a * d < c * b /\ c * v < u * d
  BY DEF Less
<1> HIDE DEF a, b, c, d, u, v
<1>3. (a * d) * v < (c * b) * v /\ (c * v) * b < (u * d) * b
  <2>1. \A m, n \in Int, k \in Nat \ {0} : m < n => m * k < n * k
    OBVIOUS
  <2>2. a * d \in Int /\ c * b \in Int /\ c * v \in Int /\ u * d \in Int
    BY <1>1
  <2> QED BY <1>1, <1>2, <2>1, <2>2
<1>4. (a * v) * d < (u * b) * d
  <2>1. (a * d) * v = (a * v) * d /\ (c * b) * v = (c * v) * b
        /\ (u * d) * b = (u * b) * d
    BY <1>1
  <2>2. (a * v) * d \in Int /\ (c * v) * b \in Int /\ (u * b) * d \in Int
    BY <1>1
  <2> QED BY <1>3, <2>1, <2>2
<1>5. a * v < u * b
  <2>1. \A m, n \in Int, k \in Nat \ {0} : m * k < n * k => m < n
    OBVIOUS
  <2>2. a * v \in Int /\ u * b \in Int
    BY <1>1
  <2> QED BY <1>1, <1>4, <2>1, <2>2
<1> QED BY <1>5 DEF Less, a, b, u, v

(* What fits both ways and is not below the least zoom.                    *)
LEMMA FitsBothWays ==
  ASSUME NEW p \in Fractions, NEW q \in Fractions,
         NEW z, z = Confined(IF Less(p, q) THEN p ELSE q, MIN_ZOOM, MAX_ZOOM),
         z # MIN_ZOOM
  PROVE  ~Less(p, z) /\ ~Less(q, z)
<1> DEFINE r == IF Less(p, q) THEN p ELSE q
<1>1. r \in Fractions /\ ~Less(p, r) /\ ~Less(q, r)
  <2>1. \A s \in Fractions : ~Less(s, s)
    BY DEF Less, Fractions
  <2>2. Less(p, q) => ~Less(q, p)
    <3>1. Less(p, q) /\ Less(q, p) => Less(p, p)
      BY LessIsTransitive
    <3> QED BY <2>1, <3>1
  <2> QED BY <2>1, <2>2
<1>2. z = r \/ (z = MAX_ZOOM /\ Less(MAX_ZOOM, r))
  BY DEF Confined
<1>3. MAX_ZOOM \in Fractions
  BY DEF MAX_ZOOM, Whole, Fractions
<1> HIDE DEF r
<1> QED BY <1>1, <1>2, <1>3, LessIsTransitive

(* Zoom to fit, event by event.                                            *)
LEMMA FitStays ==
  ASSUME ZoomInv, callZoomFit, displayed, picture # NoPicture,
         zoom.image = picture, zoom.surface = window,
         zoom'.zoomFactor # MIN_ZOOM, NEW a \in Sides2, NEW k \in {0, picture[a]}
  PROVE  /\ Less(Whole(-1), DrawnAt(drawn', k, a))
         /\ Less(DrawnAt(drawn', k, a), Whole(window[a] + 1))
<1> DEFINE middle == setPan(zoom, <<Whole(0), Whole(0)>>)
           z == zoomToFit(middle)
           fits(b) == Ratio(window[b], picture[b])
<1>1. zoom \in Zooms /\ middle \in Zooms /\ z \in Zooms
  BY EventsKeepZoom DEF ZoomInv
<1>2. /\ middle.image = picture /\ middle.surface = window
      /\ \A b \in Sides2 : middle.pan[b] = Whole(0)
  <2>1. Confined(Whole(0), MIN_PAN, MAX_PAN) = Whole(0)
    BY DEF Confined, Less, MIN_PAN, MAX_PAN, Whole
  <2>2. \A b \in Sides2 : <<Whole(0), Whole(0)>>[b] = Whole(0)
    BY DEF Sides2
  <2> QED BY <1>1, <2>1, <2>2 DEF setPan, Zooms
<1> HIDE DEF middle
<1>3. /\ z.image = picture /\ z.surface = window /\ z.pan = middle.pan
      /\ z.zoomFactor = Confined(IF Less(fits(1), fits(2)) THEN fits(1) ELSE fits(2),
                                 MIN_ZOOM, MAX_ZOOM)
  <2>1. z = setZoom(middle, IF Less(fits(1), fits(2)) THEN fits(1) ELSE fits(2))
    BY <1>2 DEF zoomToFit
  <2> HIDE DEF z, fits
  <2> QED BY <1>1, <1>2, <2>1 DEF setZoom, Zooms
<1> HIDE DEF z
<1>4. redraw(z)
  BY DEF callZoomFit, z, middle
<1>5. zoom' = setup(z, picture, window) /\ drawn' = zoom'
  BY <1>4 DEF redraw
<1>6. /\ drawn' \in Zooms /\ drawn'.image = picture /\ drawn'.surface = window
      /\ drawn'.pan = z.pan /\ drawn'.zoomFactor = z.zoomFactor
  <2>1. zoom' \in Zooms
    BY <1>1, <1>4, RedrawKeeps
  <2> QED BY <1>1, <1>5, <2>1 DEF setup, Zooms
<1> DEFINE now == drawn'
           x == now.zoomFactor[1]
           y == now.zoomFactor[2]
<1>7. \A b \in Sides2 : window[b] \in Nat \ {0} /\ picture[b] \in Nat \ {0}
  BY <1>6, ZoomParts
<1>8. \A b \in Sides2 : fits(b) \in Fractions /\ IsOver(fits(b), window[b], picture[b])
  BY <1>7, RatioIsOver DEF IsOver
<1>9. \A b \in Sides2 : ~Less(fits(b), now.zoomFactor)
  <2>1. 1 \in Sides2 /\ 2 \in Sides2 /\ \A b \in Sides2 : b = 1 \/ b = 2
    BY DEF Sides2
  <2>2. fits(1) \in Fractions /\ fits(2) \in Fractions
    BY <1>8, <2>1
  <2>3. now.zoomFactor # MIN_ZOOM
    BY <1>5
  <2> HIDE DEF fits
  <2>4. ~Less(fits(1), now.zoomFactor) /\ ~Less(fits(2), now.zoomFactor)
    BY <1>3, <1>6, <2>2, <2>3, FitsBothWays
  <2> QED BY <2>1, <2>4
<1>10. x * now.image[a] <= now.surface[a] * y
  <2> DEFINE w == window[a]
             i == picture[a]
             f == fits(a)
             zf == now.zoomFactor
  <2>1. /\ w \in Nat \ {0} /\ i \in Nat \ {0} /\ x \in Nat \ {0} /\ y \in Nat \ {0}
        /\ IsOver(f, w, i) /\ IsOver(zf, x, y) /\ ~Less(f, zf)
        /\ now.image[a] = i /\ now.surface[a] = w
    BY <1>6, <1>7, <1>8, <1>9, ZoomParts, FractionIsOver
  <2> HIDE DEF w, i, f, zf, x, y
  <2>2. IsOver(f, w * y, i * y) /\ IsOver(zf, x * i, y * i)
    BY <2>1, Expanded
  <2>3. y * i = i * y /\ w * y \in Int /\ x * i \in Int
    BY <2>1
  <2>4. ~(w * y < x * i)
    <3> DEFINE e == i * y
               b == w * y
               c == x * i
    <3>1. IsOver(f, b, e) /\ IsOver(zf, c, e)
      BY <2>2, <2>3
    <3> HIDE DEF b, c, e
    <3>2. ~(b < c)
      BY <2>1, <3>1, LessIsOver
    <3> QED BY <3>2 DEF b, c
  <2> QED BY <2>1, <2>3, <2>4
<1>11. now \in Zooms /\ now.pan[a] = Whole(0) /\ k \in {0, now.image[a]}
       /\ now.surface[a] = window[a]
  BY <1>2, <1>3, <1>6
<1>12. now.zoomFactor[1] * now.image[a] <= now.surface[a] * now.zoomFactor[2]
  BY <1>10
<1> HIDE DEF now, x, y
<1>13. Less(Whole(-1), DrawnAt(now, k, a))
       /\ Less(DrawnAt(now, k, a), Whole(now.surface[a] + 1))
  BY <1>11, <1>12, MiddleIsWithin
<1> QED BY <1>11, <1>13 DEF now

(* A drag keeps the point it grabbed under the pointer, and zoom to fit    *)
(* shows the whole picture, for any pictures, windows and pointers.        *)
THEOREM ZoomFollowsMouse == ZoomSpec => WindowFollowsMouse
<1>1. ZoomInv => GrabbedFollowsPointer
  BY GrabbedFollows DEF GrabbedFollowsPointer
<1>2. ZoomInv => FitIsWithinWindow
  BY FitStays DEF FitIsWithinWindow
<1>3. ZoomSpec => DragKeepsPoint
  BY <1>1, ZoomIsInvariant, PTL DEF ZoomSpec, DragKeepsPoint
<1>4. ZoomSpec => FitShowsAll
  BY <1>2, ZoomIsInvariant, PTL DEF ZoomSpec, FitShowsAll
<1> QED BY <1>3, <1>4 DEF WindowFollowsMouse
=============================================================================
