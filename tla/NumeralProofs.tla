---------------------------- MODULE NumeralProofs ----------------------------
(***************************************************************************)
(* Least elements, and what follows from them: sets of naturals that hold  *)
(* 0 and the successors of their elements hold every natural, a recursive  *)
(* function on 0 .. n is the only one that satisfies its equation, and the *)
(* two recursive definitions of Numerals have the values one expects.      *)
(***************************************************************************)
EXTENDS Numerals, SequenceTheorems, WellFoundedInduction, TLAPS

-----------------------------------------------------------------------------
(* Least elements                                                          *)

NatLess == {pair \in Nat \X Nat : pair[1] < pair[2]}

\* The order of the naturals is well founded: this stands in for induction.
LEMMA NatLessWellFounded == IsWellFoundedOn(NatLess, Nat)
BY NatLessThanWellFounded DEF NatLess, OpToRel

\* A set of naturals that is not empty has a least element.
LEMMA LeastElement ==
  ASSUME NEW T, T \subseteq Nat, T # {}
  PROVE  \E m \in T : \A k \in T : m <= k
<1>1. PICK m \in T : \A k \in T : <<k, m>> \notin NatLess
  BY NatLessWellFounded, WFMin, Zenon
<1>2. ASSUME NEW k \in T, ~(m <= k)
      PROVE  FALSE
  <2>1. <<k, m>> \in Nat \X Nat /\ k < m
    BY <1>2
  <2>2. <<k, m>> \in NatLess
    BY <2>1 DEF NatLess
  <2> QED BY <2>2, <1>1
<1> QED BY <1>2

\* A set of naturals that holds 0 and, with each number up to a bound, the
\* next one holds every number up to that bound.
LEMMA UpTo ==
  ASSUME NEW bound \in Nat, NEW S, 0 \in S,
         \A n \in 0 .. bound : n # 0 /\ n - 1 \in S => n \in S
  PROVE  \A n \in 0 .. bound : n \in S
<1> DEFINE Missing == {n \in 0 .. bound : n \notin S}
<1>1. SUFFICES ASSUME Missing # {} PROVE FALSE
  OBVIOUS
<1>2. PICK m \in Missing : \A k \in Missing : m <= k
  <2>1. Missing \subseteq Nat
    OBVIOUS
  <2> HIDE DEF Missing
  <2> QED BY <1>1, <2>1, LeastElement
<1>3. m \in 0 .. bound /\ m # 0 /\ m \notin S
  BY <1>2
<1>4. m - 1 \in 0 .. bound /\ m - 1 \notin Missing
  BY <1>2, <1>3
<1> QED BY <1>3, <1>4

-----------------------------------------------------------------------------
(* Powers                                                                  *)

\* A function that satisfies the equation of a power on 0 .. n gives the
\* powers up to n.
LEMMA PowerIs ==
  ASSUME NEW base, NEW n \in Nat, NEW m \in 0 .. n,
         NEW p, p = [k \in 0 .. n |-> IF k = 0 THEN 1 ELSE p[k - 1] * base]
  PROVE  Power(base, m) = p[m]
<1> DEFINE Equation(f) == f = [k \in 0 .. m |-> IF k = 0 THEN 1 ELSE f[k - 1] * base]
<1>1. Equation([k \in 0 .. m |-> p[k]])
  <2> DEFINE r == [k \in 0 .. m |-> p[k]]
  <2>1. ASSUME NEW k \in 0 .. m
        PROVE  r[k] = IF k = 0 THEN 1 ELSE r[k - 1] * base
    <3>1. k \in 0 .. n /\ (k # 0 => k - 1 \in 0 .. m)
      OBVIOUS
    <3>2. p[k] = IF k = 0 THEN 1 ELSE p[k - 1] * base
      BY <3>1
    <3> QED BY <3>1, <3>2
  <2> QED BY <2>1
<1>2. PICK f : Equation(f) /\ Power(base, m) = f[m]
  BY <1>1 DEF Power
<1> DEFINE Same == {j \in 0 .. m : f[j] = p[j]}
<1>3. \A k \in 0 .. m : k \in Same
  <2>1. 0 \in Same
    <3>1. 0 \in 0 .. m /\ 0 \in 0 .. n
      OBVIOUS
    <3> QED BY <1>2, <3>1
  <2>2. ASSUME NEW k \in 0 .. m, k # 0, k - 1 \in Same
        PROVE  k \in Same
    <3>1. k \in 0 .. n
      OBVIOUS
    <3>2. f[k] = f[k - 1] * base /\ p[k] = p[k - 1] * base
      BY <1>2, <2>2, <3>1
    <3> QED BY <2>2, <3>2
  <2>3. m \in Nat
    OBVIOUS
  <2> HIDE DEF Same
  <2> QED BY <2>1, <2>2, <2>3, UpTo
<1>4. m \in 0 .. m
  OBVIOUS
<1> QED BY <1>2, <1>3, <1>4

\* There is such a function for every n.
LEMMA PowerExists ==
  ASSUME NEW base, NEW n \in Nat
  PROVE  \E p : p = [k \in 0 .. n |-> IF k = 0 THEN 1 ELSE p[k - 1] * base]
<1> DEFINE S == {m \in 0 .. n :
                   \E p : p = [k \in 0 .. m |-> IF k = 0 THEN 1 ELSE p[k - 1] * base]}
<1>1. 0 \in S
  <2> DEFINE q == [k \in 0 .. 0 |-> 1]
  <2>1. q = [k \in 0 .. 0 |-> IF k = 0 THEN 1 ELSE q[k - 1] * base]
    OBVIOUS
  <2>2. 0 \in 0 .. n
    OBVIOUS
  <2> HIDE DEF q
  <2> QED BY <2>1, <2>2
<1>2. ASSUME NEW m \in 0 .. n, m # 0, m - 1 \in S
      PROVE  m \in S
  <2>1. PICK p : p = [k \in 0 .. m - 1 |-> IF k = 0 THEN 1 ELSE p[k - 1] * base]
    BY <1>2
  <2> DEFINE q == [k \in 0 .. m |-> IF k = m THEN p[m - 1] * base ELSE p[k]]
  <2>2. ASSUME NEW k \in 0 .. m
        PROVE  q[k] = IF k = 0 THEN 1 ELSE q[k - 1] * base
    <3>1. CASE k = m
      BY <1>2, <3>1
    <3>2. CASE k # m
      <4>1. k \in 0 .. m - 1 /\ (k # 0 => k - 1 \in 0 .. m /\ k - 1 # m)
        BY <3>2
      <4>2. p[k] = IF k = 0 THEN 1 ELSE p[k - 1] * base
        BY <2>1, <4>1
      <4> QED BY <3>2, <4>1, <4>2
    <3> QED BY <3>1, <3>2
  <2>3. q = [k \in 0 .. m |-> IF k = 0 THEN 1 ELSE q[k - 1] * base]
    BY <2>2
  <2> QED BY <2>3
<1>3. n \in 0 .. n
  OBVIOUS
<1>4. n \in S
  <2> HIDE DEF S
  <2> QED BY <1>1, <1>2, <1>3, UpTo
<1> QED BY <1>4

\* The laws of powers.
LEMMA PowerLaws ==
  ASSUME NEW base \in Nat \ {0}
  PROVE  /\ Power(base, 0) = 1
         /\ \A n \in Nat : /\ Power(base, n) \in Nat \ {0}
                           /\ Power(base, n + 1) = Power(base, n) * base
<1>1. ASSUME NEW n \in Nat
      PROVE  /\ Power(base, 0) = 1
             /\ Power(base, n) \in Nat \ {0}
             /\ Power(base, n + 1) = Power(base, n) * base
  <2>1. PICK p : p = [k \in 0 .. n + 1 |-> IF k = 0 THEN 1 ELSE p[k - 1] * base]
    <3>1. n + 1 \in Nat
      OBVIOUS
    <3> QED BY <3>1, PowerExists
  <2>2. \A k \in 0 .. n + 1 : Power(base, k) = p[k]
    <3>1. n + 1 \in Nat
      OBVIOUS
    <3> QED BY <2>1, <3>1, PowerIs, SMTT(30)
  <2>3. /\ 0 \in 0 .. n + 1 /\ n \in 0 .. n + 1 /\ n + 1 \in 0 .. n + 1 /\ n + 1 # 0
        /\ (n + 1) - 1 = n
    OBVIOUS
  <2>4. p[0] = 1 /\ p[n + 1] = p[n] * base
    BY <2>1, <2>3
  <2> DEFINE Good == {j \in 0 .. n + 1 : p[j] \in Nat \ {0}}
  <2>5. \A k \in 0 .. n + 1 : k \in Good
    <3>1. 0 \in Good
      BY <2>3, <2>4
    <3>2. ASSUME NEW k \in 0 .. n + 1, k # 0, k - 1 \in Good
          PROVE  k \in Good
      <4>1. p[k] = p[k - 1] * base /\ p[k - 1] \in Nat \ {0}
        BY <2>1, <3>2
      <4>2. \A a \in Nat \ {0}, b \in Nat \ {0} : a * b \in Nat \ {0}
        OBVIOUS
      <4>3. p[k] \in Nat \ {0}
        BY <4>1, <4>2
      <4> QED BY <4>3
    <3>3. n + 1 \in Nat
      OBVIOUS
    <3> HIDE DEF Good
    <3> QED BY <3>1, <3>2, <3>3, UpTo
  <2> QED BY <2>2, <2>3, <2>4, <2>5
<1> QED BY <1>1

-----------------------------------------------------------------------------
(* Quotients and remainders                                                *)

\* The quotient and the remainder are the only ones.
LEMMA DivisionIs ==
  ASSUME NEW n \in Nat, NEW d \in Nat \ {0}, NEW q \in Nat, NEW r \in Nat,
         r < d, n = q * d + r
  PROVE  n \div d = q /\ n % d = r
BY SMT

\* Every natural has them.
LEMMA Division ==
  ASSUME NEW n \in Nat, NEW d \in Nat \ {0}
  PROVE  /\ n \div d \in Nat
         /\ n % d \in Nat
         /\ n % d < d
         /\ n = (n \div d) * d + (n % d)
BY SMT

\* Two divisions in a row are one.
LEMMA DivisionTwice ==
  ASSUME NEW n \in Nat, NEW d \in Nat \ {0}, NEW e \in Nat \ {0}
  PROVE  n \div (d * e) = (n \div d) \div e
BY SMT

\* The low digits of a number are those of its quotient and then its last one.
LEMMA LowDigits ==
  ASSUME NEW n \in Nat, NEW d \in Nat \ {0}, NEW e \in Nat \ {0}
  PROVE  ((n \div d) % e) * d + (n % d) = n % (e * d)
<1>1. PICK q \in Nat, r \in Nat : q = n \div d /\ r = n % d /\ r < d /\ n = q * d + r
  BY Division
<1>2. PICK a \in Nat, c \in Nat : a = q \div e /\ c = q % e /\ c < e /\ q = a * e + c
  BY Division
<1>3. n = a * (e * d) + (c * d + r)
  <2>1. /\ (a * e + c) * d = (a * e) * d + c * d
        /\ (a * e) * d = a * (e * d)
    OBVIOUS
  <2>2. n = (a * e + c) * d + r
    BY <1>1, <1>2
  <2>3. a * (e * d) \in Nat /\ c * d \in Nat /\ (a * e) * d \in Nat
    OBVIOUS
  <2> QED BY <2>1, <2>2, <2>3
<1>4. /\ c * d + r \in Nat
      /\ e * d \in Nat \ {0}
  OBVIOUS
<1>5. c * d + r < e * d
  <2>1. PICK k \in Nat : e = c + 1 + k
    <3>1. e - c - 1 \in Nat /\ e = c + 1 + (e - c - 1)
      BY <1>2
    <3> QED BY <3>1
  <2>2. e * d = c * d + d + k * d
    BY <2>1
  <2>3. k * d \in Nat
    OBVIOUS
  <2> QED BY <1>1, <2>2, <2>3
<1>6. n % (e * d) = c * d + r
  BY <1>3, <1>4, <1>5, DivisionIs
<1> QED BY <1>1, <1>2, <1>6

-----------------------------------------------------------------------------
(* Numbers from digits                                                     *)

\* A function that satisfies the equation of the loop gives its result.
LEMMA FromDigitsIs ==
  ASSUME NEW digits, Len(digits) \in Nat, NEW base,
         NEW w, w = [k \in 0 .. Len(digits) |-> IF k = 0 THEN 0 ELSE w[k - 1] * base + digits[k]]
  PROVE  FromDigits(digits, base) = w[Len(digits)]
<1>1. PICK f : /\ f = [k \in 0 .. Len(digits) |->
                         IF k = 0 THEN 0 ELSE f[k - 1] * base + digits[k]]
               /\ FromDigits(digits, base) = f[Len(digits)]
  BY DEF FromDigits
<1> DEFINE Same == {j \in 0 .. Len(digits) : f[j] = w[j]}
<1>2. 0 \in Same
  <2>1. 0 \in 0 .. Len(digits)
    OBVIOUS
  <2> QED BY <1>1, <2>1
<1>3. ASSUME NEW k \in 0 .. Len(digits), k # 0, k - 1 \in Same
      PROVE  k \in Same
  <2>1. /\ f[k] = f[k - 1] * base + digits[k]
        /\ w[k] = w[k - 1] * base + digits[k]
    BY <1>1, <1>3
  <2> QED BY <1>3, <2>1
<1>4. \A k \in 0 .. Len(digits) : k \in Same
  <2> HIDE DEF Same
  <2> QED BY <1>2, <1>3, UpTo
<1>5. Len(digits) \in 0 .. Len(digits)
  OBVIOUS
<1> QED BY <1>1, <1>4, <1>5

\* There is such a function.
LEMMA FromDigitsExists ==
  ASSUME NEW digits, Len(digits) \in Nat, NEW base
  PROVE  \E w : w = [k \in 0 .. Len(digits) |->
                       IF k = 0 THEN 0 ELSE w[k - 1] * base + digits[k]]
<1> DEFINE S == {m \in 0 .. Len(digits) :
                   \E w : w = [k \in 0 .. m |-> IF k = 0 THEN 0 ELSE w[k - 1] * base + digits[k]]}
<1>1. 0 \in S
  <2> DEFINE q == [k \in 0 .. 0 |-> 0]
  <2>1. q = [k \in 0 .. 0 |-> IF k = 0 THEN 0 ELSE q[k - 1] * base + digits[k]]
    OBVIOUS
  <2>2. 0 \in 0 .. Len(digits)
    OBVIOUS
  <2> HIDE DEF q
  <2> QED BY <2>1, <2>2
<1>2. ASSUME NEW m \in 0 .. Len(digits), m # 0, m - 1 \in S
      PROVE  m \in S
  <2>1. PICK w : w = [k \in 0 .. m - 1 |-> IF k = 0 THEN 0 ELSE w[k - 1] * base + digits[k]]
    BY <1>2
  <2> DEFINE q == [k \in 0 .. m |-> IF k = m THEN w[m - 1] * base + digits[m] ELSE w[k]]
  <2>2. ASSUME NEW k \in 0 .. m
        PROVE  q[k] = IF k = 0 THEN 0 ELSE q[k - 1] * base + digits[k]
    <3>1. CASE k = m
      BY <1>2, <3>1
    <3>2. CASE k # m
      <4>1. k \in 0 .. m - 1 /\ (k # 0 => k - 1 \in 0 .. m /\ k - 1 # m)
        BY <3>2
      <4>2. w[k] = IF k = 0 THEN 0 ELSE w[k - 1] * base + digits[k]
        BY <2>1, <4>1
      <4> QED BY <3>2, <4>1, <4>2
    <3> QED BY <3>1, <3>2
  <2>3. q = [k \in 0 .. m |-> IF k = 0 THEN 0 ELSE q[k - 1] * base + digits[k]]
    BY <2>2
  <2> HIDE DEF q
  <2> QED BY <2>3
<1>3. Len(digits) \in 0 .. Len(digits)
  OBVIOUS
<1>4. Len(digits) \in S
  <2> HIDE DEF S
  <2> QED BY <1>1, <1>2, <1>3, UpTo
<1> QED BY <1>4

\* Zeros and then the last digits of a number.
AreLastDigits(digits, zeros, width, n, base) ==
  /\ Len(digits) = zeros + width
  /\ \A k \in 1 .. zeros : digits[k] = 0
  /\ \A j \in 1 .. width : digits[zeros + j] = (n \div Power(base, width - j)) % base

\* They read as the number modulo the power of the base they stand for.
LEMMA ReadLastDigits ==
  ASSUME NEW base \in Nat \ {0}, NEW n \in Nat, NEW zeros \in Nat, NEW width \in Nat,
         NEW digits, AreLastDigits(digits, zeros, width, n, base)
  PROVE  FromDigits(digits, base) = n % Power(base, width)
<1> DEFINE Kept(j) == (n \div Power(base, width - j)) % Power(base, j)
           w == [k \in 0 .. Len(digits) |-> IF k <= zeros THEN 0 ELSE Kept(k - zeros)]
<1>0. /\ Len(digits) = zeros + width
      /\ \A k \in 1 .. zeros : digits[k] = 0
      /\ \A j \in 1 .. width : digits[zeros + j] = (n \div Power(base, width - j)) % base
  BY DEF AreLastDigits
<1> USE <1>0
<1>1. \A j \in Nat : Power(base, j) \in Nat \ {0}
  BY PowerLaws
<1>2. Power(base, 0) = 1
  BY PowerLaws
<1>3. Kept(0) = 0
  <2>1. n \div Power(base, width) \in Nat
    BY <1>1, Division
  <2>2. \A a \in Nat : a % 1 = 0
    OBVIOUS
  <2> QED BY <1>2, <2>1, <2>2
<1>4. ASSUME NEW j \in 1 .. width
      PROVE  Kept(j) = (Kept(j - 1) * base) + ((n \div Power(base, width - j)) % base)
  <2> DEFINE m == n \div Power(base, width - j)
  <2>1. width - j \in Nat /\ j - 1 \in Nat /\ width - (j - 1) = (width - j) + 1 /\ j = (j - 1) + 1
    OBVIOUS
  <2>2. /\ Power(base, width - (j - 1)) = Power(base, width - j) * base
        /\ Power(base, j) = Power(base, j - 1) * base
    BY <2>1, PowerLaws
  <2>3. n \div Power(base, width - (j - 1)) = m \div base
    <3>1. PICK p : p = Power(base, width - j) /\ p \in Nat \ {0}
      BY <1>1, <2>1
    <3>2. n \div (p * base) = (n \div p) \div base
      BY <3>1, DivisionTwice
    <3> QED BY <2>2, <3>1, <3>2
  <2>4. m \in Nat
    BY <1>1, <2>1, Division
  <2>5. ((m \div base) % Power(base, j - 1)) * base + (m % base) = m % (Power(base, j - 1) * base)
    <3>1. Power(base, j - 1) \in Nat \ {0}
      BY <1>1, <2>1
    <3> HIDE DEF m
    <3> QED BY <2>4, <3>1, LowDigits
  <2> QED BY <2>2, <2>3, <2>5
<1>5. ASSUME NEW k \in 0 .. Len(digits)
      PROVE  w[k] = IF k = 0 THEN 0 ELSE w[k - 1] * base + digits[k]
  <2>1. CASE k <= zeros
    <3>1. w[k] = 0
      BY <2>1
    <3>2. k # 0 => k - 1 \in 0 .. Len(digits) /\ w[k - 1] = 0 /\ digits[k] = 0
      BY <2>1
    <3>3. 0 * base + 0 = 0
      OBVIOUS
    <3> QED BY <3>1, <3>2, <3>3
  <2>2. CASE k > zeros
    <3>1. PICK j \in 1 .. width : k = zeros + j
      <4>1. k - zeros \in 1 .. width /\ k = zeros + (k - zeros)
        BY <2>2
      <4> QED BY <4>1
    <3>2. /\ k # 0 /\ ~(k <= zeros) /\ k - zeros = j /\ k - 1 \in 0 .. Len(digits)
          /\ (k - 1 <= zeros <=> j - 1 = 0) /\ (k - 1) - zeros = j - 1
      BY <3>1
    <3>3. w[k] = Kept(j)
      <4> HIDE DEF Kept
      <4> QED BY <3>2
    <3>4. w[k - 1] = Kept(j - 1)
      <4>1. j - 1 = 0 => Kept(j - 1) = 0
        BY <1>3
      <4> HIDE DEF Kept
      <4> QED BY <3>2, <4>1
    <3>5. digits[k] = (n \div Power(base, width - j)) % base
      BY <3>1
    <3>6. Kept(j) = (Kept(j - 1) * base) + digits[k]
      BY <1>4, <3>5
    <3> HIDE DEF w, Kept
    <3> QED BY <3>2, <3>3, <3>4, <3>6
  <2> QED BY <2>1, <2>2
<1>6. w = [k \in 0 .. Len(digits) |-> IF k = 0 THEN 0 ELSE w[k - 1] * base + digits[k]]
  <2>1. w = [k \in 0 .. Len(digits) |-> w[k]]
    OBVIOUS
  <2> HIDE DEF w
  <2> QED BY <1>5, <2>1
<1>7. FromDigits(digits, base) = w[Len(digits)]
  <2>1. Len(digits) \in Nat
    OBVIOUS
  <2> HIDE DEF w
  <2> QED BY <1>6, <2>1, FromDigitsIs
<1>8. w[Len(digits)] = Kept(width)
  <2>1. CASE width = 0
    <3>1. Len(digits) <= zeros
      BY <2>1
    <3> HIDE DEF Kept
    <3> QED BY <1>3, <2>1, <3>1
  <2>2. CASE width # 0
    <3>1. ~(Len(digits) <= zeros) /\ Len(digits) - zeros = width
      BY <2>2
    <3> HIDE DEF Kept
    <3> QED BY <3>1
  <2> QED BY <2>1, <2>2
<1>9. Kept(width) = n % Power(base, width)
  <2>1. width - width = 0
    OBVIOUS
  <2>2. n \div 1 = n
    OBVIOUS
  <2> QED BY <1>2, <2>1, <2>2
<1> QED BY <1>7, <1>8, <1>9

-----------------------------------------------------------------------------
(* Lists one after the other                                               *)

\* A list of one kind of things is a list of two kinds of things.
LEMMA SeqWidens ==
  ASSUME NEW S, NEW T, S \subseteq T, NEW s \in Seq(S)
  PROVE  s \in Seq(T)
OBVIOUS

\* The length and the items of two lists one after the other.
LEMMA TwoLists ==
  ASSUME NEW S, NEW p \in Seq(S), NEW q \in Seq(S)
  PROVE  /\ p \o q \in Seq(S) /\ Len(p \o q) = Len(p) + Len(q)
         /\ Len(p) \in Nat /\ Len(q) \in Nat
         /\ \A i \in 1 .. Len(p) : (p \o q)[i] = p[i]
         /\ \A i \in 1 .. Len(q) : (p \o q)[Len(p) + i] = q[i]
OBVIOUS

\* Where the items of four lists are, appended one at a time.
LEMMA Segments ==
  ASSUME NEW a \in Nat, NEW b \in Nat, NEW c \in Nat, NEW d \in Nat,
         NEW p, NEW q, NEW r, NEW t, NEW pq, NEW pqr, NEW pqrt,
         \A i \in 1 .. a : pq[i] = p[i],
         \A i \in 1 .. b : pq[a + i] = q[i],
         \A i \in 1 .. a + b : pqr[i] = pq[i],
         \A i \in 1 .. c : pqr[a + b + i] = r[i],
         \A i \in 1 .. a + b + c : pqrt[i] = pqr[i],
         \A i \in 1 .. d : pqrt[a + b + c + i] = t[i]
  PROVE  /\ \A i \in 1 .. a : pqrt[i] = p[i]
         /\ \A i \in 1 .. b : pqrt[a + i] = q[i]
         /\ \A i \in 1 .. c : pqrt[a + b + i] = r[i]
         /\ \A i \in 1 .. d : pqrt[a + b + c + i] = t[i]
<1>1. \A i \in 1 .. a : i \in 1 .. a + b + c /\ i \in 1 .. a + b
  OBVIOUS
<1>2. \A i \in 1 .. b : a + i \in 1 .. a + b + c /\ a + i \in 1 .. a + b
  OBVIOUS
<1>3. \A i \in 1 .. c : a + b + i \in 1 .. a + b + c
  OBVIOUS
<1>4. \A i \in 1 .. a : pqrt[i] = p[i]
  BY <1>1
<1>5. \A i \in 1 .. b : pqrt[a + i] = q[i]
  BY <1>2
<1>6. \A i \in 1 .. c : pqrt[a + b + i] = r[i]
  BY <1>3
<1> QED BY <1>4, <1>5, <1>6

\* The length and the items of a part of a list.
LEMMA PartItems ==
  ASSUME NEW S, NEW s \in Seq(S), NEW first \in Nat \ {0}, NEW length \in Nat,
         first + length - 1 <= Len(s)
  PROVE  /\ SubSeq(s, first, first + length - 1) \in Seq(S)
         /\ Len(SubSeq(s, first, first + length - 1)) = length
         /\ \A j \in 1 .. length : SubSeq(s, first, first + length - 1)[j] = s[first - 1 + j]
<1>1. PICK last \in Int : last = first + length - 1
  OBVIOUS
<1>2. first \in Int /\ \A i \in first .. last : s[i] \in S
  BY <1>1
<1>3. /\ SubSeq(s, first, last) \in Seq(S)
      /\ Len(SubSeq(s, first, last)) = IF first <= last THEN last - first + 1 ELSE 0
      /\ \A j \in 1 .. last - first + 1 : SubSeq(s, first, last)[j] = s[first + j - 1]
  BY <1>2, SubSeqProperties
<1>4. last - first + 1 = length
  BY <1>1
<1>5. Len(SubSeq(s, first, last)) = length
  BY <1>1, <1>3, <1>4
<1>6. ASSUME NEW j \in 1 .. length
      PROVE  SubSeq(s, first, last)[j] = s[first - 1 + j]
  <2>1. first + j - 1 = first - 1 + j
    OBVIOUS
  <2> QED BY <1>3, <1>4, <2>1
<1> QED BY <1>1, <1>3, <1>5, <1>6

\* The length and the items of four lists one after the other.
LEMMA FourLists ==
  ASSUME NEW S, NEW p \in Seq(S), NEW q \in Seq(S), NEW r \in Seq(S), NEW t \in Seq(S),
         NEW all, all = p \o q \o r \o t
  PROVE  /\ all \in Seq(S) /\ Len(all) = Len(p) + Len(q) + Len(r) + Len(t)
         /\ \A i \in 1 .. Len(p) : all[i] = p[i]
         /\ \A i \in 1 .. Len(q) : all[Len(p) + i] = q[i]
         /\ \A i \in 1 .. Len(r) : all[Len(p) + Len(q) + i] = r[i]
         /\ \A i \in 1 .. Len(t) : all[Len(p) + Len(q) + Len(r) + i] = t[i]
<1>1. /\ p \o q \in Seq(S) /\ Len(p \o q) = Len(p) + Len(q)
      /\ Len(p) \in Nat /\ Len(q) \in Nat /\ Len(r) \in Nat /\ Len(t) \in Nat
  BY TwoLists
<1>2. /\ \A i \in 1 .. Len(p) : (p \o q)[i] = p[i]
      /\ \A i \in 1 .. Len(q) : (p \o q)[Len(p) + i] = q[i]
  BY TwoLists
<1>3. p \o q \o r \in Seq(S) /\ Len(p \o q \o r) = Len(p \o q) + Len(r)
  BY <1>1, TwoLists
<1>4. /\ \A i \in 1 .. Len(p \o q) : (p \o q \o r)[i] = (p \o q)[i]
      /\ \A i \in 1 .. Len(r) : (p \o q \o r)[Len(p \o q) + i] = r[i]
  BY <1>1, TwoLists
<1>5. p \o q \o r \o t \in Seq(S) /\ Len(p \o q \o r \o t) = Len(p \o q \o r) + Len(t)
  BY <1>3, TwoLists
<1>6. /\ \A i \in 1 .. Len(p \o q \o r) : (p \o q \o r \o t)[i] = (p \o q \o r)[i]
      /\ \A i \in 1 .. Len(t) : (p \o q \o r \o t)[Len(p \o q \o r) + i] = t[i]
  BY <1>3, TwoLists
<1>7. /\ \A i \in 1 .. Len(p) + Len(q) : (p \o q \o r)[i] = (p \o q)[i]
      /\ \A i \in 1 .. Len(r) : (p \o q \o r)[Len(p) + Len(q) + i] = r[i]
      /\ \A i \in 1 .. Len(p) + Len(q) + Len(r) : (p \o q \o r \o t)[i] = (p \o q \o r)[i]
      /\ \A i \in 1 .. Len(t) : (p \o q \o r \o t)[Len(p) + Len(q) + Len(r) + i] = t[i]
  BY <1>1, <1>3, <1>4, <1>6, Zenon
<1>8. /\ \A i \in 1 .. Len(p) : (p \o q \o r \o t)[i] = p[i]
      /\ \A i \in 1 .. Len(q) : (p \o q \o r \o t)[Len(p) + i] = q[i]
      /\ \A i \in 1 .. Len(r) : (p \o q \o r \o t)[Len(p) + Len(q) + i] = r[i]
      /\ \A i \in 1 .. Len(t) : (p \o q \o r \o t)[Len(p) + Len(q) + Len(r) + i] = t[i]
  BY <1>1, <1>2, <1>7, Segments
<1> QED BY <1>1, <1>3, <1>5, <1>8, Zenon

\* Powers are positive numbers and do not fall.
LEMMA PowersGrow ==
  ASSUME NEW base \in Nat \ {0}, NEW m \in Nat, NEW n \in Nat, n <= m
  PROVE  /\ Power(base, n) \in Nat \ {0} /\ Power(base, m) \in Nat \ {0}
         /\ Power(base, n) <= Power(base, m)
<1>1. \A k \in Nat : Power(base, k) \in Nat \ {0} /\ Power(base, k + 1) = Power(base, k) * base
  BY PowerLaws
<1> DEFINE Grown == {d \in 0 .. m - n : Power(base, n) <= Power(base, n + d)}
<1>2. 0 \in Grown
  <2>1. n + 0 = n /\ 0 \in 0 .. m - n
    OBVIOUS
  <2>2. Power(base, n) <= Power(base, n)
    BY <1>1
  <2> QED BY <2>1, <2>2
<1>3. ASSUME NEW d \in 0 .. m - n, d # 0, d - 1 \in Grown
      PROVE  d \in Grown
  <2>1. n + (d - 1) \in Nat /\ n + (d - 1) + 1 = n + d
    BY <1>3
  <2>2. PICK p \in Nat, q \in Nat \ {0} : p = Power(base, n) /\ q = Power(base, n + (d - 1))
    BY <1>1, <2>1
  <2>3. p <= q
    BY <1>3, <2>2
  <2>4. Power(base, n + d) = q * base
    BY <1>1, <2>1, <2>2
  <2>5. q <= q * base
    OBVIOUS
  <2>6. q * base \in Nat
    OBVIOUS
  <2> QED BY <2>2, <2>3, <2>4, <2>5, <2>6
<1>4. m - n \in 0 .. m - n /\ m - n \in Nat /\ n + (m - n) = m
  OBVIOUS
<1>5. m - n \in Grown
  <2> HIDE DEF Grown
  <2> QED BY <1>2, <1>3, <1>4, UpTo
<1> QED BY <1>1, <1>4, <1>5

-----------------------------------------------------------------------------
(* Numbers read from digits                                                *)

\* The loop value = value * base + digit, step by step: after k digits the
\* value is a number of k digits.
LEMMA Horner ==
  ASSUME NEW base \in Nat \ {0}, NEW digits, Len(digits) \in Nat,
         \A k \in 1 .. Len(digits) : digits[k] \in 0 .. base - 1
  PROVE  \E w : /\ w[0] = 0
                /\ \A k \in 1 .. Len(digits) : w[k] = w[k - 1] * base + digits[k]
                /\ \A k \in 0 .. Len(digits) : w[k] \in Nat /\ w[k] < Power(base, k)
                /\ FromDigits(digits, base) = w[Len(digits)]
<1>1. PICK w : w = [k \in 0 .. Len(digits) |-> IF k = 0 THEN 0 ELSE w[k - 1] * base + digits[k]]
  BY FromDigitsExists, ZenonT(60)
<1>2. FromDigits(digits, base) = w[Len(digits)]
  BY <1>1, FromDigitsIs
<1>3. w[0] = 0 /\ \A k \in 1 .. Len(digits) : w[k] = w[k - 1] * base + digits[k]
  <2>1. ASSUME NEW k \in 0 .. Len(digits)
        PROVE  w[k] = IF k = 0 THEN 0 ELSE w[k - 1] * base + digits[k]
    BY <1>1
  <2>2. 0 \in 0 .. Len(digits) /\ \A k \in 1 .. Len(digits) : k \in 0 .. Len(digits) /\ k # 0
    OBVIOUS
  <2> QED BY <2>1, <2>2
<1> DEFINE Small == {k \in 0 .. Len(digits) : w[k] \in Nat /\ w[k] < Power(base, k)}
<1>4. 0 \in Small
  <2>1. Power(base, 0) = 1 /\ 0 \in 0 .. Len(digits)
    BY PowerLaws
  <2> QED BY <1>3, <2>1
<1>5. ASSUME NEW k \in 0 .. Len(digits), k # 0, k - 1 \in Small
      PROVE  k \in Small
  <2>1. k - 1 \in Nat /\ k \in 1 .. Len(digits) /\ (k - 1) + 1 = k
    BY <1>5
  <2>2. PICK v \in Nat, p \in Nat \ {0}, d \in 0 .. base - 1 :
          v = w[k - 1] /\ p = Power(base, k - 1) /\ d = digits[k]
    BY <1>5, <2>1, PowerLaws
  <2>3. Power(base, k) = p * base
    BY <2>1, <2>2, PowerLaws
  <2>4. v + 1 <= p
    BY <1>5, <2>2
  <2>5. v * base + d \in Nat /\ v * base + d < p * base
    <3>1. (v + 1) * base <= p * base
      BY <2>4
    <3>2. (v + 1) * base = v * base + base
      OBVIOUS
    <3>3. v * base \in Nat /\ p * base \in Nat
      OBVIOUS
    <3> QED BY <3>1, <3>2, <3>3
  <2>6. w[k] = v * base + d
    BY <1>3, <2>1, <2>2
  <2> QED BY <2>3, <2>5, <2>6
<1>6. \A k \in 0 .. Len(digits) : k \in Small
  <2> HIDE DEF Small
  <2> QED BY <1>4, <1>5, UpTo
<1>7. \A k \in 0 .. Len(digits) : w[k] \in Nat /\ w[k] < Power(base, k)
  BY <1>6
<1> QED BY <1>2, <1>3, <1>7

\* A number has one spelling in a number of digits: reading loses none.
LEMMA DigitsAreUnique ==
  ASSUME NEW base \in Nat \ {0}, NEW n \in Nat,
         NEW c \in [1 .. n -> 0 .. base - 1], NEW d \in [1 .. n -> 0 .. base - 1],
         FromDigits(c, base) = FromDigits(d, base)
  PROVE  \A k \in 1 .. n : c[k] = d[k]
<1>0. Len(c) = n /\ Len(d) = n
  <2>1. ASSUME NEW S, NEW f \in [1 .. n -> S]
        PROVE  Len(f) = n
    <3>1. f \in Seq(S) /\ DOMAIN f = 1 .. n
      OBVIOUS
    <3> QED BY <3>1
  <2> QED BY <2>1
<1>1. PICK v : /\ \A k \in 1 .. n : v[k] = v[k - 1] * base + c[k]
               /\ \A k \in 0 .. n : v[k] \in Nat
               /\ FromDigits(c, base) = v[n]
  <2>1. Len(c) \in Nat /\ \A k \in 1 .. Len(c) : c[k] \in 0 .. base - 1
    BY <1>0
  <2>2. \E v : /\ v[0] = 0
               /\ \A k \in 1 .. Len(c) : v[k] = v[k - 1] * base + c[k]
               /\ \A k \in 0 .. Len(c) : v[k] \in Nat /\ v[k] < Power(base, k)
               /\ FromDigits(c, base) = v[Len(c)]
    BY <2>1, Horner
  <2> QED BY <1>0, <2>2
<1>2. PICK w : /\ \A k \in 1 .. n : w[k] = w[k - 1] * base + d[k]
               /\ \A k \in 0 .. n : w[k] \in Nat
               /\ FromDigits(d, base) = w[n]
  <2>1. Len(d) \in Nat /\ \A k \in 1 .. Len(d) : d[k] \in 0 .. base - 1
    BY <1>0
  <2>2. \E w : /\ w[0] = 0
               /\ \A k \in 1 .. Len(d) : w[k] = w[k - 1] * base + d[k]
               /\ \A k \in 0 .. Len(d) : w[k] \in Nat /\ w[k] < Power(base, k)
               /\ FromDigits(d, base) = w[Len(d)]
    BY <2>1, Horner
  <2> QED BY <1>0, <2>2
<1>3. ASSUME NEW k \in 1 .. n, v[k] = w[k]
      PROVE  v[k - 1] = w[k - 1] /\ c[k] = d[k]
  <2>1. /\ k \in 0 .. n /\ k - 1 \in 0 .. n
        /\ c[k] \in Nat /\ c[k] < base /\ d[k] \in Nat /\ d[k] < base
    OBVIOUS
  <2>2. PICK a \in Nat, b \in Nat, x \in Nat, y \in Nat, m \in Nat :
          /\ a = v[k - 1] /\ b = w[k - 1] /\ x = c[k] /\ y = d[k] /\ m = v[k]
          /\ x < base /\ y < base
    BY <1>1, <1>2, <2>1
  <2>3. m = a * base + x /\ m = b * base + y
    BY <1>1, <1>2, <1>3, <2>2
  <2>4. m \div base = a /\ m % base = x
    BY <2>2, <2>3, DivisionIs
  <2>5. m \div base = b /\ m % base = y
    BY <2>2, <2>3, DivisionIs
  <2> QED BY <2>2, <2>4, <2>5
<1> DEFINE Same == {j \in 0 .. n : v[n - j] = w[n - j]}
<1>4. 0 \in Same
  <2>1. 0 \in 0 .. n /\ n - 0 = n
    OBVIOUS
  <2> QED BY <1>1, <1>2, <2>1
<1>5. ASSUME NEW j \in 0 .. n, j # 0, j - 1 \in Same
      PROVE  j \in Same
  <2>1. n - (j - 1) \in 1 .. n /\ (n - (j - 1)) - 1 = n - j
    BY <1>5
  <2>2. v[n - (j - 1)] = w[n - (j - 1)]
    BY <1>5
  <2>3. v[n - j] = w[n - j]
    BY <1>3, <2>1, <2>2
  <2> QED BY <2>3
<1>6. \A j \in 0 .. n : j \in Same
  <2> HIDE DEF Same
  <2> QED BY <1>4, <1>5, UpTo
<1>7. ASSUME NEW k \in 1 .. n
      PROVE  c[k] = d[k]
  <2>1. n - k \in 0 .. n /\ n - (n - k) = k
    OBVIOUS
  <2>2. v[k] = w[k]
    BY <1>6, <2>1
  <2> QED BY <1>3, <2>2
<1> QED BY <1>7
=============================================================================
