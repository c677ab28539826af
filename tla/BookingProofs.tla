---------------------------- MODULE BookingProofs ----------------------------
(***************************************************************************)
(* What the engine's operators return.  Rationals as it needs them: which  *)
(* operations stay in lowest terms, sums of any length, signs.  Then the   *)
(* type of the engine, which booking any directive keeps.                  *)
(***************************************************************************)
EXTENDS Booking, TLAPS, WellFoundedInduction

LEMMA LeastNat ==
    ASSUME NEW S \in SUBSET Nat, S # {}
    PROVE  \E n \in S : \A m \in S : n <= m
<1>1. PICK n \in S : \A m \in S : ~(<<m, n>> \in OpToRel(<, Nat))
    BY NatLessThanWellFounded, WFMin
<1>2. ASSUME NEW m \in S
      PROVE  n <= m
    <2>1. ~(m < n)
        BY <1>1 DEF OpToRel
    <2>2. m \in Nat /\ n \in Nat
        OBVIOUS
    <2>3. QED
        BY <2>1, <2>2
<1>3. QED
    BY <1>2

LEMMA SetInduction ==
    ASSUME NEW S, 0 \in S, \A n \in Nat : n \in S => n + 1 \in S
    PROVE  Nat \subseteq S
<1>1. SUFFICES ASSUME Nat \ S # {} PROVE FALSE
    OBVIOUS
<1>2. PICK n \in Nat \ S : \A m \in Nat \ S : n <= m
    BY <1>1, LeastNat
<1>3. n - 1 \in Nat /\ n - 1 \in S
    BY <1>2
<1>4. QED
    BY <1>3

(* What defines the running sums. *)
IsSums(f, s, n) == f = [i \in 0..n |-> IF i = 0 THEN Zero ELSE RAdd(f[i - 1], s[i])]

LEMMA SumsExist ==
    ASSUME NEW s, NEW n \in Nat
    PROVE  \E f : IsSums(f, s, n)
<1> DEFINE S == {m \in Nat : \E f : IsSums(f, s, m)}
<1>1. 0 \in S
    <2>1. IsSums([i \in 0..0 |-> Zero], s, 0)
        BY DEF IsSums
    <2>2. QED
        BY <2>1
<1>2. ASSUME NEW m \in Nat, m \in S
      PROVE  m + 1 \in S
    <2>1. PICK f : IsSums(f, s, m)
        BY <1>2
    <2> DEFINE g == [i \in 0..(m + 1) |-> IF i = m + 1 THEN RAdd(f[m], s[m + 1]) ELSE f[i]]
    <2>2. ASSUME NEW i \in 0..(m + 1)
          PROVE  g[i] = IF i = 0 THEN Zero ELSE RAdd(g[i - 1], s[i])
        <3>1. CASE i = m + 1
            BY <3>1
        <3>2. CASE i \in 0..m
            <4>1. g[i] = f[i] /\ (i # 0 => i - 1 \in 0..m /\ g[i - 1] = f[i - 1])
                BY <3>2
            <4>2. f[i] = IF i = 0 THEN Zero ELSE RAdd(f[i - 1], s[i])
                BY <2>1, <3>2 DEF IsSums
            <4>3. QED
                BY <4>1, <4>2
        <3>3. QED
            BY <3>1, <3>2
    <2>3. g = [i \in 0..(m + 1) |-> IF i = 0 THEN Zero ELSE RAdd(g[i - 1], s[i])]
        BY <2>2
    <2>4. IsSums(g, s, m + 1)
        BY <2>3 DEF IsSums
    <2> HIDE DEF g
    <2>5. QED
        BY <2>4
<1> HIDE DEF S
<1>3. Nat \subseteq S
    BY <1>1, <1>2, SetInduction
<1>4. QED
    BY <1>3 DEF S

LEMMA SumsAre ==
    ASSUME NEW s, Len(s) \in Nat
    PROVE  IsSums(RSums(s), s, Len(s))
<1>1. \E f : IsSums(f, s, Len(s))
    BY SumsExist
<1>2. RSums(s) = CHOOSE f : f = [i \in 0..Len(s) |-> IF i = 0 THEN Zero ELSE RAdd(f[i - 1], s[i])]
    BY DEF RSums
<1>3. QED
    BY <1>1, <1>2 DEF IsSums

LEMMA DivExact ==
    ASSUME NEW x \in Int, NEW d \in Nat \ {0}, x % d = 0
    PROVE  x \div d \in Int /\ (x \div d) * d = x
OBVIOUS

LEMMA ModOfMultiple ==
    ASSUME NEW n \in Int, NEW d \in Nat \ {0}
    PROVE  (n * d) % d = 0
OBVIOUS

(* Reduction to lowest terms keeps the value, and writes nothing as Zero.  *)
LEMMA ReduceIs ==
    ASSUME NEW n \in Int, NEW d \in Nat \ {0}
    PROVE  /\ Reduce(n, d) \in Rat
           /\ Reduce(n, d)[1] * d = n * Reduce(n, d)[2]
           /\ n = 0 => Reduce(n, d) = Zero
<1> DEFINE Clears(q) == (n * q) % d = 0
           Den(q) == /\ Clears(q)
                     /\ \A r \in 1..(q - 1) : ~Clears(r)
           S == {q \in 1..d : Clears(q)}
           den == CHOOSE q \in 1..d : Den(q)
<1>1. d \in 1..d /\ Clears(d)
    BY ModOfMultiple
<1>2. den \in 1..d /\ Den(den)
    <2> HIDE DEF Clears
    <2>1. S \in SUBSET Nat /\ S # {}
        BY <1>1
    <2>2. PICK q \in S : \A m \in S : q <= m
        BY <2>1, LeastNat
    <2>3. ASSUME NEW r \in 1..(q - 1), Clears(r)
          PROVE  FALSE
        <3>1. q \in 1..d
            OBVIOUS
        <3>2. r \in 1..d /\ ~(q <= r)
            BY <3>1
        <3>3. QED
            BY <2>2, <2>3, <3>2
    <2>4. q \in 1..d /\ Den(q)
        BY <2>3
    <2> HIDE DEF Den
    <2>5. QED
        BY <2>4
<1>3. Reduce(n, d) = <<(n * den) \div d, den>>
    BY DEF Reduce
<1>4. den \in Nat \ {0} /\ n * den \in Int /\ (n * den) % d = 0
    <2>1. den \in 1..d /\ Clears(den)
        BY <1>2
    <2> HIDE DEF den
    <2>2. QED
        BY <2>1
<1> HIDE DEF den, Den, S, Clears
<1>5. (n * den) \div d \in Int /\ ((n * den) \div d) * d = n * den
    BY <1>4, DivExact
<1>6. Reduce(n, d) \in Rat /\ Reduce(n, d)[1] * d = n * Reduce(n, d)[2]
    BY <1>3, <1>4, <1>5 DEF Rat
<1>7. ASSUME n = 0
      PROVE  Reduce(n, d) = Zero
    <2>1. Clears(1)
        BY <1>7 DEF Clears
    <2>2. den = 1
        <3>1. \A r \in 1..(den - 1) : ~Clears(r)
            BY <1>2 DEF Den
        <3>2. 1 \notin 1..(den - 1)
            BY <2>1, <3>1
        <3>3. QED
            BY <1>4, <3>2
    <2>3. (n * den) \div d = 0
        BY <1>7, <2>2
    <2>4. QED
        BY <1>3, <2>2, <2>3 DEF Zero, RInt
<1>8. QED
    BY <1>6, <1>7

----------------------------------------------------------------------------
LEMMA Cancel ==
    ASSUME NEW x \in Int, NEW y \in Int, NEW d \in Int, d > 0, x * d = y * d
    PROVE  x = y
<1>1. x > y => x * d > y * d
    OBVIOUS
<1>2. x < y => x * d < y * d
    OBVIOUS
<1>3. QED
    BY <1>1, <1>2

(* The denominator is the least that the number can be written with.       *)
LEMMA ReduceLeast ==
    ASSUME NEW n \in Int, NEW d \in Nat \ {0}, NEW r \in Nat \ {0}, NEW m \in Int, m * d = n * r
    PROVE  Reduce(n, d)[2] <= r
<1> DEFINE Clears(q) == (n * q) % d = 0
           Den(q) == /\ Clears(q)
                     /\ \A k \in 1..(q - 1) : ~Clears(k)
           den == CHOOSE q \in 1..d : Den(q)
<1>1. \E q \in 1..d : Den(q)
    <2> DEFINE S == {q \in 1..d : Clears(q)}
    <2>1. d \in 1..d /\ Clears(d)
        BY ModOfMultiple
    <2> HIDE DEF Clears
    <2>2. S \in SUBSET Nat /\ S # {}
        BY <2>1
    <2>3. PICK q \in S : \A k \in S : q <= k
        BY <2>2, LeastNat
    <2>4. ASSUME NEW k \in 1..(q - 1), Clears(k)
          PROVE  FALSE
        <3>1. q \in 1..d
            OBVIOUS
        <3>2. k \in 1..d /\ ~(q <= k)
            BY <3>1
        <3>3. QED
            BY <2>3, <2>4, <3>2
    <2>5. q \in 1..d /\ Den(q)
        BY <2>4
    <2>6. QED
        BY <2>5
<1>2. den \in 1..d /\ Den(den)
    <2> HIDE DEF Den
    <2>1. QED
        BY <1>1
<1>3. Reduce(n, d)[2] = den
    BY DEF Reduce
<1>4. Clears(r)
    <2>1. (m * d) % d = 0
        BY ModOfMultiple
    <2>2. QED
        BY <2>1
<1>5. \A k \in 1..(den - 1) : ~Clears(k)
    BY <1>2
<1> HIDE DEF den, Den, Clears
<1>6. den \in Nat
    BY <1>2
<1>7. QED
    BY <1>3, <1>4, <1>5, <1>6

LEMMA ReduceParts ==
    ASSUME NEW n \in Int, NEW d \in Nat \ {0}
    PROVE  \E p \in Int, q \in Nat \ {0} : Reduce(n, d) = <<p, q>> /\ p * d = n * q
<1>1. PICK r \in Rat : r = Reduce(n, d)
    BY ReduceIs
<1>2. PICK p \in Int, q \in Nat \ {0} : r = <<p, q>>
    BY DEF Rat
<1>3. r[1] * d = n * r[2]
    BY <1>1, ReduceIs
<1>4. p * d = n * q
    BY <1>2, <1>3
<1>5. QED
    BY <1>1, <1>2, <1>4

(* Whatever terms a number is given in, its lowest are the same.           *)
LEMMA ReduceEqual ==
    ASSUME NEW n \in Int, NEW d \in Nat \ {0}, NEW m \in Int, NEW e \in Nat \ {0}, n * e = m * d
    PROVE  Reduce(n, d) = Reduce(m, e)
<1>1. PICK p \in Int, q \in Nat \ {0} : Reduce(n, d) = <<p, q>> /\ p * d = n * q
    BY ReduceParts
<1>2. PICK u \in Int, v \in Nat \ {0} : Reduce(m, e) = <<u, v>> /\ u * e = m * v
    BY ReduceParts
<1>3. u * d = n * v
    <2>1. (u * d) * e = (u * e) * d
        OBVIOUS
    <2>2. (u * e) * d = (m * v) * d
        BY <1>2
    <2>3. (m * v) * d = (m * d) * v
        OBVIOUS
    <2>4. (m * d) * v = (n * e) * v
        OBVIOUS
    <2>5. (n * e) * v = (n * v) * e
        OBVIOUS
    <2>6. u * d \in Int /\ n * v \in Int /\ e \in Int /\ e > 0
        OBVIOUS
    <2>7. (u * d) * e = (n * v) * e
        BY <2>1, <2>2, <2>3, <2>4, <2>5
    <2>8. QED
        BY <2>6, <2>7, Cancel
<1>4. p * e = m * q
    <2>1. (p * e) * d = (p * d) * e
        OBVIOUS
    <2>2. (p * d) * e = (n * q) * e
        BY <1>1
    <2>3. (n * q) * e = (n * e) * q
        OBVIOUS
    <2>4. (n * e) * q = (m * d) * q
        OBVIOUS
    <2>5. (m * d) * q = (m * q) * d
        OBVIOUS
    <2>6. p * e \in Int /\ m * q \in Int /\ d \in Int /\ d > 0
        OBVIOUS
    <2>7. (p * e) * d = (m * q) * d
        BY <2>1, <2>2, <2>3, <2>4, <2>5
    <2>8. QED
        BY <2>6, <2>7, Cancel
<1>5. q <= v
    <2>1. Reduce(n, d)[2] <= v
        BY <1>3, ReduceLeast
    <2>2. QED
        BY <1>1, <2>1
<1>6. v <= q
    <2>1. Reduce(m, e)[2] <= q
        BY <1>4, ReduceLeast
    <2>2. QED
        BY <1>2, <2>1
<1>7. q = v
    BY <1>5, <1>6
<1>8. p = u
    <2>1. p * d = u * d
        BY <1>1, <1>3, <1>7
    <2>2. QED
        BY <2>1, Cancel
<1>9. QED
    BY <1>1, <1>2, <1>7, <1>8

(* Reduction gives a number, of the sign of what was reduced.              *)
LEMMA ReduceNum ==
    ASSUME NEW n \in Int, NEW d \in Nat \ {0}
    PROVE  /\ Reduce(n, d) \in Num
           /\ n = 0 <=> Reduce(n, d)[1] = 0
           /\ n > 0 <=> Reduce(n, d)[1] > 0
           /\ n < 0 <=> Reduce(n, d)[1] < 0
<1>1. PICK r \in Rat : r = Reduce(n, d) /\ r[1] * d = n * r[2] /\ (n = 0 => r = Zero)
    BY ReduceIs
<1> DEFINE p == r[1]
           q == r[2]
<1>6. p \in Int /\ q \in Nat \ {0} /\ p * d = n * q
    BY <1>1 DEF Rat
<1> HIDE DEF p, q
<1>2. (n > 0 => n * q > 0) /\ (n < 0 => n * q < 0) /\ (n = 0 => n * q = 0)
    BY <1>6
<1>3. (p > 0 => p * d > 0) /\ (p < 0 => p * d < 0) /\ (p = 0 => p * d = 0)
    BY <1>6
<1>4. (n = 0 <=> p = 0) /\ (n > 0 <=> p > 0) /\ (n < 0 <=> p < 0)
    BY <1>6, <1>2, <1>3
<1>5. Reduce(r[1], r[2]) = Reduce(n, d)
    BY <1>6, ReduceEqual DEF p, q
<1>7. QED
    BY <1>1, <1>4, <1>5 DEF Num, p

LEMMA NumParts ==
    ASSUME NEW a \in Num
    PROVE  /\ a[1] \in Int /\ a[2] \in Int /\ a[2] > 0
           /\ a[1] = 0 <=> a = Zero
           /\ a = <<a[1], a[2]>> /\ Reduce(a[1], a[2]) = a
<1>1. /\ a[1] \in Int /\ a[2] \in Int /\ a[2] > 0
      /\ a = <<a[1], a[2]>> /\ Reduce(a[1], a[2]) = a
    BY DEF Num, Rat
<1>2. a[1] = 0 => a = Zero
    BY <1>1, ReduceIs
<1>3. QED
    BY <1>1, <1>2 DEF Zero, RInt

LEMMA ZeroNum == Zero \in Num
<1>1. Reduce(0, 1) = Zero
    BY ReduceIs
<1>2. QED
    BY <1>1 DEF Num, Rat, Zero, RInt

LEMMA ReduceNeg ==
    ASSUME NEW n \in Int, NEW d \in Nat \ {0}
    PROVE  Reduce(-n, d) = RNeg(Reduce(n, d))
<1>1. PICK p \in Int, q \in Nat \ {0} : Reduce(n, d) = <<p, q>> /\ p * d = n * q
    BY ReduceParts
<1>2. PICK u \in Int, v \in Nat \ {0} : Reduce(-n, d) = <<u, v>> /\ u * d = (-n) * v
    <2>1. PICK m \in Int : m = -n
        OBVIOUS
    <2>2. PICK u \in Int, v \in Nat \ {0} : Reduce(m, d) = <<u, v>> /\ u * d = m * v
        BY ReduceParts
    <2>3. QED
        BY <2>1, <2>2
<1>3. q <= v
    <2>1. (-u) * d = n * v /\ -u \in Int
        BY <1>2
    <2>2. Reduce(n, d)[2] <= v
        BY <2>1, ReduceLeast
    <2>3. QED
        BY <1>1, <2>2
<1>4. v <= q
    <2>1. (-p) * d = (-n) * q /\ -p \in Int /\ -n \in Int
        BY <1>1
    <2>2. Reduce(-n, d)[2] <= q
        BY <2>1, ReduceLeast
    <2>3. QED
        BY <1>2, <2>2
<1>5. q = v
    BY <1>3, <1>4
<1>6. u = -p
    <2>1. u * d = (-p) * d /\ -p \in Int
        BY <1>1, <1>2, <1>5
    <2>2. QED
        BY <2>1, Cancel
<1>7. QED
    BY <1>1, <1>2, <1>5, <1>6 DEF RNeg

LEMMA NegNum ==
    ASSUME NEW a \in Num
    PROVE  /\ RNeg(a) \in Num
           /\ RNegative(a) => RPositive(RNeg(a))
           /\ RAbs(a) \in Num /\ RNonNeg(RAbs(a))
           /\ a # Zero => RPositive(RAbs(a))
<1>1. RNeg(a) \in Num /\ RNeg(a)[1] = -a[1]
    <2>1. a[1] \in Int /\ a[2] \in Nat \ {0} /\ Reduce(a[1], a[2]) = a
        BY NumParts
    <2>2. Reduce(-a[1], a[2]) = RNeg(a)
        BY <2>1, ReduceNeg
    <2>3. QED
        BY <2>1, <2>2, ReduceNum DEF RNeg
<1>2. QED
    BY <1>1, NumParts DEF RAbs, RNonNeg, RNegative, RPositive

LEMMA AddNum ==
    ASSUME NEW a \in Num, NEW b \in Num
    PROVE  /\ RAdd(a, b) \in Num
           /\ RNonNeg(a) /\ RNonNeg(b) => RNonNeg(RAdd(a, b))
           /\ RNonNeg(a) /\ RNonNeg(b) /\ RAdd(a, b) = Zero => a = Zero /\ b = Zero
<1> DEFINE x == a[1] * b[2]
           y == b[1] * a[2]
           z == a[2] * b[2]
<1>1. x \in Int /\ y \in Int /\ z \in Nat \ {0}
    BY NumParts
<1>2. /\ a[1] >= 0 => x >= 0
      /\ a[1] > 0 => x > 0
      /\ b[1] >= 0 => y >= 0
      /\ b[1] > 0 => y > 0
    BY NumParts
<1>3. RAdd(a, b) = Reduce(x + y, z)
    BY DEF RAdd
<1> HIDE DEF x, y, z
<1>4. x + y \in Int
    BY <1>1
<1>5. /\ RAdd(a, b) \in Num
      /\ x + y = 0 <=> RAdd(a, b)[1] = 0
      /\ x + y > 0 <=> RAdd(a, b)[1] > 0
    BY <1>1, <1>3, <1>4, ReduceNum
<1>6. a[1] \in Int /\ b[1] \in Int /\ RAdd(a, b)[1] \in Int
    BY <1>5, NumParts
<1>7. ASSUME a[1] >= 0, b[1] >= 0
      PROVE  RAdd(a, b)[1] >= 0 /\ (RAdd(a, b)[1] = 0 => a[1] = 0 /\ b[1] = 0)
    BY <1>1, <1>2, <1>5, <1>6, <1>7
<1>8. QED
    BY <1>5, <1>7, NumParts, ZeroNum DEF RNonNeg

LEMMA AddZero == RAdd(Zero, Zero) = Zero
<1>1. RAdd(Zero, Zero) = Reduce(0, 1)
    BY DEF RAdd, Zero, RInt
<1>2. QED
    BY <1>1, ReduceIs

LEMMA SubNum ==
    ASSUME NEW a \in Num, NEW b \in Num
    PROVE  /\ RSub(a, b) \in Num
           /\ RNonNeg(RSub(a, b)) <=> RLe(b, a)
<1> DEFINE x == a[1] * b[2]
           y == b[1] * a[2]
           z == a[2] * b[2]
<1>1. x \in Int /\ y \in Int /\ z \in Nat \ {0}
    BY NumParts
<1>2. RSub(a, b) = Reduce(x - y, z)
    <2>1. RNeg(b)[1] = -b[1] /\ RNeg(b)[2] = b[2]
        BY DEF RNeg
    <2>2. a[1] * b[2] + (-b[1]) * a[2] = x - y
        BY NumParts
    <2>3. QED
        BY <2>1, <2>2 DEF RSub, RAdd
<1>3. RLe(b, a) <=> y <= x
    BY DEF RLe
<1> HIDE DEF x, y, z
<1>4. x - y \in Int
    BY <1>1
<1>5. /\ RSub(a, b) \in Num
      /\ x - y < 0 <=> RSub(a, b)[1] < 0
    BY <1>1, <1>2, <1>4, ReduceNum
<1>6. RSub(a, b)[1] \in Int
    BY <1>5, NumParts
<1>7. QED
    BY <1>1, <1>3, <1>5, <1>6 DEF RNonNeg

LEMMA SubZero ==
    ASSUME NEW a \in Num
    PROVE  RSub(a, Zero) = Zero <=> a = Zero
<1>1. RSub(a, Zero) = Reduce(a[1], a[2])
    BY NumParts DEF RSub, RAdd, RNeg, Zero, RInt
<1>2. QED
    BY <1>1, NumParts, ReduceNum, ReduceIs, ZeroNum

LEMMA MulNum ==
    ASSUME NEW a \in Num, NEW b \in Num
    PROVE  RMul(a, b) \in Num
<1>1. a[1] * b[1] \in Int /\ a[2] * b[2] \in Nat \ {0}
    BY NumParts
<1>2. QED
    BY <1>1, ReduceNum DEF RMul

LEMMA DivNum ==
    ASSUME NEW a \in Num, NEW b \in Num, b # Zero
    PROVE  RDiv(a, b) \in Num
<1>1. CASE b[1] > 0
    <2>1. a[1] * b[2] \in Int /\ a[2] * b[1] \in Nat \ {0}
        BY <1>1, NumParts
    <2>2. QED
        BY <1>1, <2>1, ReduceNum DEF RDiv
<1>2. CASE b[1] < 0
    <2>1. -(a[1] * b[2]) \in Int /\ -(a[2] * b[1]) \in Nat \ {0}
        BY <1>2, NumParts
    <2>2. ~(b[1] > 0)
        BY <1>2, NumParts
    <2>3. QED
        BY <2>2, <2>1, ReduceNum DEF RDiv
<1>3. QED
    BY <1>1, <1>2, NumParts

LEMMA SumStep ==
    ASSUME NEW s, Len(s) \in Nat
    PROVE  /\ RSums(s)[0] = Zero
           /\ \A i \in 1..Len(s) : RSums(s)[i] = RAdd(RSums(s)[i - 1], s[i])
<1>1. IsSums(RSums(s), s, Len(s))
    BY SumsAre
<1>2. QED
    BY <1>1 DEF IsSums

(* Sequences that agree up to n have the same running sums up to n.        *)
LEMMA SumsAgree ==
    ASSUME NEW s, NEW t, Len(s) \in Nat, Len(t) \in Nat,
           NEW n \in Nat, n <= Len(s), n <= Len(t),
           \A i \in 1..n : s[i] = t[i]
    PROVE  RSums(s)[n] = RSums(t)[n]
<1> DEFINE S == {m \in Nat : m <= n => RSums(s)[m] = RSums(t)[m]}
<1>1. 0 \in S
    BY SumStep
<1>2. ASSUME NEW m \in Nat, m \in S
      PROVE  m + 1 \in S
    <2>1. SUFFICES ASSUME m + 1 <= n
                   PROVE  RSums(s)[m + 1] = RSums(t)[m + 1]
        OBVIOUS
    <2>2. RSums(s)[m] = RSums(t)[m] /\ s[m + 1] = t[m + 1]
        BY <1>2, <2>1
    <2>3. m + 1 \in 1..Len(s) /\ m + 1 \in 1..Len(t) /\ (m + 1) - 1 = m
        BY <2>1
    <2>4. RSums(s)[m + 1] = RAdd(RSums(s)[m], s[m + 1]) /\ RSums(t)[m + 1] = RAdd(RSums(t)[m], t[m + 1])
        BY <2>3, SumStep
    <2>5. QED
        BY <2>2, <2>4
<1> HIDE DEF S
<1>3. n \in S
    BY <1>1, <1>2, SetInduction
<1>4. QED
    BY <1>3 DEF S

LEMMA SumEmpty ==
    ASSUME NEW s, Len(s) = 0
    PROVE  RSum(s) = Zero
BY SumStep DEF RSum

(* One term more adds that term.                                           *)
LEMMA SumLast ==
    ASSUME NEW s, NEW t, Len(s) \in Nat, Len(t) = Len(s) + 1,
           \A i \in 1..Len(s) : s[i] = t[i]
    PROVE  RSum(t) = RAdd(RSum(s), t[Len(t)])
<1>1. Len(t) \in Nat /\ Len(t) \in 1..Len(t) /\ Len(t) - 1 = Len(s) /\ Len(s) <= Len(t)
    OBVIOUS
<1>2. RSums(s)[Len(s)] = RSums(t)[Len(s)]
    BY <1>1, SumsAgree
<1>3. RSums(t)[Len(t)] = RAdd(RSums(t)[Len(s)], t[Len(t)])
    BY <1>1, SumStep
<1>4. QED
    BY <1>2, <1>3 DEF RSum

LEMMA SumNum ==
    ASSUME NEW s, Len(s) \in Nat, \A i \in 1..Len(s) : s[i] \in Num
    PROVE  RSum(s) \in Num
<1> DEFINE S == {m \in Nat : m <= Len(s) => RSums(s)[m] \in Num}
<1>1. 0 \in S
    BY SumStep, ZeroNum
<1>2. ASSUME NEW m \in Nat, m \in S
      PROVE  m + 1 \in S
    <2>1. SUFFICES ASSUME m + 1 <= Len(s)
                   PROVE  RSums(s)[m + 1] \in Num
        OBVIOUS
    <2>2. m + 1 \in 1..Len(s) /\ (m + 1) - 1 = m
        BY <2>1
    <2>3. RSums(s)[m + 1] = RAdd(RSums(s)[m], s[m + 1])
        BY <2>2, SumStep
    <2>4. RSums(s)[m] \in Num /\ s[m + 1] \in Num
        BY <1>2, <2>1, <2>2
    <2>5. QED
        BY <2>3, <2>4, AddNum
<1> HIDE DEF S
<1>3. Len(s) \in S
    BY <1>1, <1>2, SetInduction
<1>4. QED
    BY <1>3 DEF S, RSum

(* A sum of numbers that are not negative is not negative, and is nothing  *)
(* only when every one of them is.                                         *)
LEMMA SumNonNeg ==
    ASSUME NEW s, Len(s) \in Nat, \A i \in 1..Len(s) : s[i] \in Num /\ RNonNeg(s[i])
    PROVE  /\ RSum(s) \in Num /\ RNonNeg(RSum(s))
           /\ RSum(s) = Zero => \A i \in 1..Len(s) : s[i] = Zero
<1> DEFINE Good(m) == /\ RSums(s)[m] \in Num /\ RNonNeg(RSums(s)[m])
                      /\ RSums(s)[m] = Zero => \A i \in 1..m : s[i] = Zero
           S == {m \in Nat : m <= Len(s) => Good(m)}
<1>1. 0 \in S
    <2>1. RSums(s)[0] = Zero
        BY SumStep
    <2>2. Zero \in Num /\ RNonNeg(Zero)
        BY ZeroNum DEF RNonNeg, Zero, RInt
    <2>3. QED
        BY <2>1, <2>2
<1>2. ASSUME NEW m \in Nat, m \in S
      PROVE  m + 1 \in S
    <2>1. SUFFICES ASSUME m + 1 <= Len(s)
                   PROVE  Good(m + 1)
        OBVIOUS
    <2>2. m + 1 \in 1..Len(s) /\ (m + 1) - 1 = m
        BY <2>1
    <2>3. RSums(s)[m + 1] = RAdd(RSums(s)[m], s[m + 1])
        BY <2>2, SumStep
    <2>4. Good(m) /\ s[m + 1] \in Num /\ RNonNeg(s[m + 1])
        BY <1>2, <2>1, <2>2
    <2>5. /\ RSums(s)[m + 1] \in Num /\ RNonNeg(RSums(s)[m + 1])
          /\ RSums(s)[m + 1] = Zero => RSums(s)[m] = Zero /\ s[m + 1] = Zero
        BY <2>3, <2>4, AddNum
    <2>6. \A i \in 1..(m + 1) : i \in 1..m \/ i = m + 1
        OBVIOUS
    <2>7. QED
        BY <2>4, <2>5, <2>6
<1> HIDE DEF S
<1>3. Len(s) \in S
    BY <1>1, <1>2, SetInduction
<1>4. QED
    BY <1>3 DEF S, RSum

LEMMA SumOfZeros ==
    ASSUME NEW s, Len(s) \in Nat, \A i \in 1..Len(s) : s[i] = Zero
    PROVE  RSum(s) = Zero
<1> DEFINE S == {m \in Nat : m <= Len(s) => RSums(s)[m] = Zero}
<1>1. 0 \in S
    BY SumStep
<1>2. ASSUME NEW m \in Nat, m \in S
      PROVE  m + 1 \in S
    <2>1. SUFFICES ASSUME m + 1 <= Len(s)
                   PROVE  RSums(s)[m + 1] = Zero
        OBVIOUS
    <2>2. m + 1 \in 1..Len(s) /\ (m + 1) - 1 = m
        BY <2>1
    <2>3. RSums(s)[m + 1] = RAdd(RSums(s)[m], s[m + 1])
        BY <2>2, SumStep
    <2>4. RSums(s)[m] = Zero /\ s[m + 1] = Zero
        BY <1>2, <2>1, <2>2
    <2>5. QED
        BY <2>3, <2>4, AddZero
<1> HIDE DEF S
<1>3. Len(s) \in S
    BY <1>1, <1>2, SetInduction
<1>4. QED
    BY <1>3 DEF S, RSum

LEMMA LenIs ==
    ASSUME NEW n \in Nat, NEW f, f = [i \in 1..n |-> f[i]]
    PROVE  Len(f) = n
OBVIOUS

(* One more term of a sum.                                                 *)
LEMMA NextSum ==
    ASSUME NEW n \in Nat, NEW s, Len(s) = n, NEW m \in Nat, m + 1 <= n
    PROVE  RSums(s)[m + 1] = RAdd(RSums(s)[m], s[m + 1])
<1>1. m + 1 \in 1..Len(s) /\ (m + 1) - 1 = m
    OBVIOUS
<1>2. Len(s) \in Nat
    OBVIOUS
<1>3. \A i \in 1..Len(s) : RSums(s)[i] = RAdd(RSums(s)[i - 1], s[i])
    BY ONLY <1>2, SumStep
<1>4. QED
    BY ONLY <1>1, <1>3

(* A sum over the first n terms of what is a number at each of them. *)
LEMMA SumTerms ==
    ASSUME NEW n \in Nat, NEW f, f = [i \in 1..n |-> f[i]], \A i \in 1..n : f[i] \in Num
    PROVE  RSum(f) \in Num
BY LenIs, SumNum

LEMMA SumTermsNonNeg ==
    ASSUME NEW n \in Nat, NEW f, f = [i \in 1..n |-> f[i]],
           \A i \in 1..n : f[i] \in Num /\ RNonNeg(f[i])
    PROVE  /\ RSum(f) \in Num /\ RNonNeg(RSum(f))
           /\ RSum(f) = Zero => \A i \in 1..n : f[i] = Zero
BY LenIs, SumNonNeg

LEMMA SumTermsZero ==
    ASSUME NEW n \in Nat, NEW f, f = [i \in 1..n |-> f[i]], \A i \in 1..n : f[i] = Zero
    PROVE  RSum(f) = Zero
BY LenIs, SumOfZeros

----------------------------------------------------------------------------
(* Numbers in lowest terms are a group under addition.                     *)

(* The sum of fractions in whatever terms is that of their lowest terms.   *)
LEMMA AddReduced ==
    ASSUME NEW n \in Int, NEW d \in Nat \ {0}, NEW m \in Int, NEW e \in Nat \ {0}
    PROVE  RAdd(Reduce(n, d), Reduce(m, e)) = Reduce(n * e + m * d, d * e)
<1>1. PICK p \in Int, q \in Nat \ {0} : Reduce(n, d) = <<p, q>> /\ p * d = n * q
    BY ReduceParts
<1>2. PICK u \in Int, v \in Nat \ {0} : Reduce(m, e) = <<u, v>> /\ u * e = m * v
    BY ReduceParts
<1>3. RAdd(Reduce(n, d), Reduce(m, e)) = Reduce(p * v + u * q, q * v)
    BY <1>1, <1>2 DEF RAdd
<1>4. (p * v + u * q) * (d * e) = (n * e + m * d) * (q * v)
    <2>1. (p * v + u * q) * (d * e) = (p * d) * (v * e) + (u * e) * (q * d)
        OBVIOUS
    <2>2. (p * d) * (v * e) = (n * q) * (v * e) /\ (u * e) * (q * d) = (m * v) * (q * d)
        BY <1>1, <1>2
    <2>3. (n * e + m * d) * (q * v) = (n * q) * (v * e) + (m * v) * (q * d)
        OBVIOUS
    <2>4. QED
        BY <2>1, <2>2, <2>3
<1>5. /\ p * v + u * q \in Int /\ q * v \in Nat \ {0}
      /\ n * e + m * d \in Int /\ d * e \in Nat \ {0}
    OBVIOUS
<1>6. QED
    BY <1>3, <1>4, <1>5, ReduceEqual

LEMMA AddComm ==
    ASSUME NEW a \in Num, NEW b \in Num
    PROVE  RAdd(a, b) = RAdd(b, a)
<1>1. /\ a[1] \in Int /\ a[2] \in Int /\ b[1] \in Int /\ b[2] \in Int
    BY NumParts
<1>2. a[1] * b[2] + b[1] * a[2] = b[1] * a[2] + a[1] * b[2] /\ a[2] * b[2] = b[2] * a[2]
    BY <1>1
<1>3. QED
    BY <1>2 DEF RAdd

LEMMA AddAssoc ==
    ASSUME NEW a \in Num, NEW b \in Num, NEW c \in Num
    PROVE  RAdd(RAdd(a, b), c) = RAdd(a, RAdd(b, c))
<1>1. PICK p \in Int, q \in Nat \ {0} : a = <<p, q>> /\ Reduce(p, q) = a
    BY NumParts
<1>2. PICK r \in Int, s \in Nat \ {0} : b = <<r, s>> /\ Reduce(r, s) = b
    BY NumParts
<1>3. PICK u \in Int, v \in Nat \ {0} : c = <<u, v>> /\ Reduce(u, v) = c
    BY NumParts
<1>4. RAdd(a, b) = Reduce(p * s + r * q, q * s) /\ RAdd(b, c) = Reduce(r * v + u * s, s * v)
    BY <1>1, <1>2, <1>3 DEF RAdd
<1>5. /\ p * s + r * q \in Int /\ q * s \in Nat \ {0}
      /\ r * v + u * s \in Int /\ s * v \in Nat \ {0}
    OBVIOUS
<1>6. RAdd(RAdd(a, b), c) = Reduce((p * s + r * q) * v + u * (q * s), (q * s) * v)
    <2>1. PICK x \in Int, y \in Nat \ {0} : x = p * s + r * q /\ y = q * s
        BY <1>5
    <2>2. RAdd(Reduce(x, y), Reduce(u, v)) = Reduce(x * v + u * y, y * v)
        BY AddReduced
    <2>3. QED
        BY <1>3, <1>4, <2>1, <2>2
<1>7. RAdd(a, RAdd(b, c)) = Reduce(p * (s * v) + (r * v + u * s) * q, q * (s * v))
    <2>1. PICK x \in Int, y \in Nat \ {0} : x = r * v + u * s /\ y = s * v
        BY <1>5
    <2>2. RAdd(Reduce(p, q), Reduce(x, y)) = Reduce(p * y + x * q, q * y)
        BY AddReduced
    <2>3. QED
        BY <1>1, <1>4, <2>1, <2>2
<1>8. /\ (p * s + r * q) * v + u * (q * s) = p * (s * v) + (r * v + u * s) * q
      /\ (q * s) * v = q * (s * v)
    OBVIOUS
<1>9. QED
    BY <1>6, <1>7, <1>8

LEMMA AddNothing ==
    ASSUME NEW a \in Num
    PROVE  RAdd(a, Zero) = a /\ RAdd(Zero, a) = a
<1>1. RAdd(a, Zero) = Reduce(a[1], a[2])
    BY NumParts DEF RAdd, Zero, RInt
<1>2. RAdd(a, Zero) = a
    BY <1>1, NumParts
<1>3. QED
    BY <1>2, AddComm, ZeroNum

LEMMA AddNeg ==
    ASSUME NEW a \in Num
    PROVE  RAdd(a, RNeg(a)) = Zero
<1>1. RAdd(a, RNeg(a)) = Reduce(a[1] * a[2] + (-a[1]) * a[2], a[2] * a[2])
    BY DEF RAdd, RNeg
<1>2. a[1] * a[2] + (-a[1]) * a[2] = 0 /\ a[2] * a[2] \in Nat \ {0}
    BY NumParts
<1>3. QED
    BY <1>1, <1>2, ReduceIs

LEMMA NegNeg ==
    ASSUME NEW a \in Num
    PROVE  RNeg(RNeg(a)) = a
BY NumParts DEF RNeg

LEMMA NegAdd ==
    ASSUME NEW a \in Num, NEW b \in Num
    PROVE  RNeg(RAdd(a, b)) = RAdd(RNeg(a), RNeg(b))
<1>1. PICK p \in Int, q \in Nat \ {0} : a = <<p, q>>
    BY NumParts
<1>2. PICK r \in Int, s \in Nat \ {0} : b = <<r, s>>
    BY NumParts
<1>3. p * s + r * q \in Int /\ q * s \in Nat \ {0}
    OBVIOUS
<1>4. RNeg(RAdd(a, b)) = Reduce(-(p * s + r * q), q * s)
    BY <1>1, <1>2, <1>3, ReduceNeg DEF RAdd
<1>5. RAdd(RNeg(a), RNeg(b)) = Reduce((-p) * s + (-r) * q, q * s)
    BY <1>1, <1>2 DEF RAdd, RNeg
<1>6. -(p * s + r * q) = (-p) * s + (-r) * q
    OBVIOUS
<1>7. QED
    BY <1>4, <1>5, <1>6

(* What follows from the group laws alone.                                 *)
LEMMA AddSwap ==
    ASSUME NEW a \in Num, NEW b \in Num, NEW c \in Num, NEW d \in Num
    PROVE  RAdd(RAdd(a, b), RAdd(c, d)) = RAdd(RAdd(a, c), RAdd(b, d))
<1>1. RAdd(a, b) \in Num /\ RAdd(c, d) \in Num /\ RAdd(a, c) \in Num /\ RAdd(b, d) \in Num
    BY AddNum
<1>2. RAdd(RAdd(a, b), RAdd(c, d)) = RAdd(a, RAdd(b, RAdd(c, d)))
    BY <1>1, AddAssoc
<1>3. RAdd(b, RAdd(c, d)) = RAdd(RAdd(b, c), d)
    BY AddAssoc
<1>4. RAdd(RAdd(b, c), d) = RAdd(RAdd(c, b), d)
    BY AddComm
<1>5. RAdd(RAdd(c, b), d) = RAdd(c, RAdd(b, d))
    BY AddAssoc
<1>6. RAdd(a, RAdd(c, RAdd(b, d))) = RAdd(RAdd(a, c), RAdd(b, d))
    BY <1>1, AddAssoc
<1>7. QED
    BY <1>2, <1>3, <1>4, <1>5, <1>6

LEMMA SubSelf ==
    ASSUME NEW a \in Num, NEW b \in Num
    PROVE  RSub(RAdd(a, b), a) = b
<1>1. RNeg(a) \in Num
    BY NegNum
<1>2. RSub(RAdd(a, b), a) = RAdd(RAdd(b, a), RNeg(a))
    BY AddComm DEF RSub
<1>3. RAdd(RAdd(b, a), RNeg(a)) = RAdd(b, RAdd(a, RNeg(a)))
    BY <1>1, AddAssoc
<1>4. QED
    BY <1>2, <1>3, AddNeg, AddNothing

LEMMA SubSwap ==
    ASSUME NEW a \in Num, NEW b \in Num, NEW c \in Num, NEW d \in Num
    PROVE  RSub(RAdd(a, b), RAdd(c, d)) = RAdd(RSub(a, c), RSub(b, d))
<1>1. RNeg(c) \in Num /\ RNeg(d) \in Num
    BY NegNum
<1>2. RSub(RAdd(a, b), RAdd(c, d)) = RAdd(RAdd(a, b), RAdd(RNeg(c), RNeg(d)))
    BY NegAdd DEF RSub
<1>3. QED
    BY <1>1, <1>2, AddSwap DEF RSub

----------------------------------------------------------------------------
(* Sums of sums.                                                           *)

LEMMA RunningNum ==
    ASSUME NEW n \in Nat, NEW f, f = [i \in 1..n |-> f[i]], \A i \in 1..n : f[i] \in Num,
           NEW m \in 0..n
    PROVE  RSums(f)[m] \in Num
<1> DEFINE S == {k \in Nat : k <= n => RSums(f)[k] \in Num}
<1>1. Len(f) = n
    BY LenIs
<1>2. 0 \in S
    BY <1>1, SumStep, ZeroNum
<1>3. ASSUME NEW k \in Nat, k \in S
      PROVE  k + 1 \in S
    <2>1. SUFFICES ASSUME k + 1 <= n PROVE RSums(f)[k + 1] \in Num
        OBVIOUS
    <2>2. k + 1 \in 1..n /\ (k + 1) - 1 = k
        BY <2>1
    <2>3. RSums(f)[k + 1] = RAdd(RSums(f)[k], f[k + 1])
        BY <1>1, <2>2, SumStep
    <2>4. RSums(f)[k] \in Num /\ f[k + 1] \in Num
        BY <1>3, <2>1, <2>2
    <2>5. QED
        BY <2>3, <2>4, AddNum
<1> HIDE DEF S
<1>4. Nat \subseteq S
    BY <1>2, <1>3, SetInduction
<1>5. m \in S /\ m <= n
    BY <1>4
<1>6. QED
    BY <1>5 DEF S

LEMMA SumPlus ==
    ASSUME NEW n \in Nat,
           NEW f \in [1..n -> Num], NEW g \in [1..n -> Num], NEW h \in [1..n -> Num],
           \A i \in 1..n : h[i] = RAdd(f[i], g[i])
    PROVE  RSum(h) = RAdd(RSum(f), RSum(g))
<1> DEFINE S == {m \in Nat : m <= n => RSums(h)[m] = RAdd(RSums(f)[m], RSums(g)[m])}
<1>1. /\ f = [i \in 1..n |-> f[i]] /\ g = [i \in 1..n |-> g[i]] /\ h = [i \in 1..n |-> h[i]]
      /\ Len(f) = n /\ Len(g) = n /\ Len(h) = n
    BY LenIs
<1>2. 0 \in S
    BY <1>1, SumStep, AddZero
<1>3. ASSUME NEW m \in Nat, m \in S
      PROVE  m + 1 \in S
    <2>1. SUFFICES ASSUME m + 1 <= n
                   PROVE  RSums(h)[m + 1] = RAdd(RSums(f)[m + 1], RSums(g)[m + 1])
        OBVIOUS
    <2>2. m + 1 \in 1..n /\ (m + 1) - 1 = m /\ m \in 0..n
        BY <2>1
    <2>3. /\ RSums(h)[m + 1] = RAdd(RSums(h)[m], h[m + 1])
          /\ RSums(f)[m + 1] = RAdd(RSums(f)[m], f[m + 1])
          /\ RSums(g)[m + 1] = RAdd(RSums(g)[m], g[m + 1])
        <3>1. RSums(h)[m + 1] = RAdd(RSums(h)[m], h[m + 1])
            BY <1>1, <2>1, NextSum
        <3>2. RSums(f)[m + 1] = RAdd(RSums(f)[m], f[m + 1])
            BY <1>1, <2>1, NextSum
        <3>3. RSums(g)[m + 1] = RAdd(RSums(g)[m], g[m + 1])
            BY <1>1, <2>1, NextSum
        <3>4. QED
            BY <3>1, <3>2, <3>3
    <2>4. RSums(h)[m] = RAdd(RSums(f)[m], RSums(g)[m])
        BY <1>3, <2>1
    <2>5. RSums(f)[m] \in Num /\ RSums(g)[m] \in Num
        BY <1>1, <2>2, RunningNum
    <2>6. f[m + 1] \in Num /\ g[m + 1] \in Num /\ h[m + 1] = RAdd(f[m + 1], g[m + 1])
        BY <2>2
    <2>7. RAdd(RAdd(RSums(f)[m], RSums(g)[m]), RAdd(f[m + 1], g[m + 1])) =
            RAdd(RAdd(RSums(f)[m], f[m + 1]), RAdd(RSums(g)[m], g[m + 1]))
        BY <2>5, <2>6, AddSwap, SMTT(60)
    <2>8. QED
        BY <2>3, <2>4, <2>6, <2>7
<1> HIDE DEF S
<1>4. Nat \subseteq S
    BY <1>2, <1>3, SetInduction
<1>5. n \in S
    BY <1>4
<1>6. QED
    BY <1>1, <1>5 DEF S, RSum

LEMMA AddBack ==
    ASSUME NEW a \in Num, NEW b \in Num
    PROVE  RAdd(RSub(a, b), b) = a
<1>1. RNeg(b) \in Num
    BY NegNum
<1>2. RAdd(RSub(a, b), b) = RAdd(a, RAdd(RNeg(b), b))
    BY <1>1, AddAssoc DEF RSub
<1>3. RAdd(RNeg(b), b) = Zero
    BY <1>1, AddComm, AddNeg
<1>4. QED
    BY <1>2, <1>3, AddNothing

LEMMA SumMinus ==
    ASSUME NEW n \in Nat,
           NEW f \in [1..n -> Num], NEW g \in [1..n -> Num], NEW h \in [1..n -> Num],
           \A i \in 1..n : h[i] = RSub(f[i], g[i])
    PROVE  RSum(h) = RSub(RSum(f), RSum(g))
<1> DEFINE S == {m \in Nat : m <= n => RSums(h)[m] = RSub(RSums(f)[m], RSums(g)[m])}
<1>1. /\ f = [i \in 1..n |-> f[i]] /\ g = [i \in 1..n |-> g[i]] /\ h = [i \in 1..n |-> h[i]]
      /\ Len(f) = n /\ Len(g) = n /\ Len(h) = n
    BY LenIs
<1>2. 0 \in S
    BY <1>1, SumStep, SubZero, ZeroNum
<1>3. ASSUME NEW m \in Nat, m \in S
      PROVE  m + 1 \in S
    <2>1. SUFFICES ASSUME m + 1 <= n
                   PROVE  RSums(h)[m + 1] = RSub(RSums(f)[m + 1], RSums(g)[m + 1])
        OBVIOUS
    <2>2. m + 1 \in 1..n /\ (m + 1) - 1 = m /\ m \in 0..n
        BY <2>1
    <2>3. /\ RSums(h)[m + 1] = RAdd(RSums(h)[m], h[m + 1])
          /\ RSums(f)[m + 1] = RAdd(RSums(f)[m], f[m + 1])
          /\ RSums(g)[m + 1] = RAdd(RSums(g)[m], g[m + 1])
        <3>1. RSums(h)[m + 1] = RAdd(RSums(h)[m], h[m + 1])
            BY <1>1, <2>1, NextSum
        <3>2. RSums(f)[m + 1] = RAdd(RSums(f)[m], f[m + 1])
            BY <1>1, <2>1, NextSum
        <3>3. RSums(g)[m + 1] = RAdd(RSums(g)[m], g[m + 1])
            BY <1>1, <2>1, NextSum
        <3>4. QED
            BY <3>1, <3>2, <3>3
    <2>4. RSums(h)[m] = RSub(RSums(f)[m], RSums(g)[m])
        BY <1>3, <2>1
    <2>5. RSums(f)[m] \in Num /\ RSums(g)[m] \in Num
        BY <1>1, <2>2, RunningNum
    <2>6. f[m + 1] \in Num /\ g[m + 1] \in Num /\ h[m + 1] = RSub(f[m + 1], g[m + 1])
        BY <2>2
    <2>7. QED
        BY <2>3, <2>4, <2>5, <2>6, SubSwap, SMTT(60)
<1> HIDE DEF S
<1>4. Nat \subseteq S
    BY <1>2, <1>3, SetInduction
<1>5. n \in S
    BY <1>4
<1>6. QED
    BY <1>1, <1>5 DEF S, RSum

LEMMA SubNothing ==
    ASSUME NEW a \in Num
    PROVE  RSub(a, Zero) = a
<1>1. RNeg(Zero) = Zero
    <2>1. RNeg(Zero) \in Num
        BY ZeroNum, NegNum
    <2>2. RAdd(Zero, RNeg(Zero)) = RNeg(Zero) /\ RAdd(Zero, RNeg(Zero)) = Zero
        BY <2>1, ZeroNum, AddNothing, AddNeg
    <2>3. QED
        BY <2>2
<1>2. QED
    BY <1>1, AddNothing DEF RSub

----------------------------------------------------------------------------
(* Products.                                                               *)

LEMMA MulReduced ==
    ASSUME NEW n \in Int, NEW d \in Nat \ {0}, NEW m \in Int, NEW e \in Nat \ {0}
    PROVE  RMul(Reduce(n, d), Reduce(m, e)) = Reduce(n * m, d * e)
<1>1. PICK p \in Int, q \in Nat \ {0} : Reduce(n, d) = <<p, q>> /\ p * d = n * q
    BY ReduceParts
<1>2. PICK u \in Int, v \in Nat \ {0} : Reduce(m, e) = <<u, v>> /\ u * e = m * v
    BY ReduceParts
<1>3. RMul(Reduce(n, d), Reduce(m, e)) = Reduce(p * u, q * v)
    BY <1>1, <1>2 DEF RMul
<1>4. (p * u) * (d * e) = (n * m) * (q * v)
    <2>1. (p * u) * (d * e) = (p * d) * (u * e)
        OBVIOUS
    <2>2. (p * d) * (u * e) = (n * q) * (m * v)
        BY <1>1, <1>2
    <2>3. (n * q) * (m * v) = (n * m) * (q * v)
        OBVIOUS
    <2>4. QED
        BY <2>1, <2>2, <2>3
<1>5. p * u \in Int /\ q * v \in Nat \ {0} /\ n * m \in Int /\ d * e \in Nat \ {0}
    OBVIOUS
<1>6. QED
    BY <1>3, <1>4, <1>5, ReduceEqual

LEMMA MulAdd ==
    ASSUME NEW a \in Num, NEW b \in Num, NEW c \in Num
    PROVE  RMul(RAdd(a, b), c) = RAdd(RMul(a, c), RMul(b, c))
<1>1. PICK p \in Int, q \in Nat \ {0} : a = <<p, q>> /\ Reduce(p, q) = a
    BY NumParts
<1>2. PICK r \in Int, s \in Nat \ {0} : b = <<r, s>> /\ Reduce(r, s) = b
    BY NumParts
<1>3. PICK u \in Int, v \in Nat \ {0} : c = <<u, v>> /\ Reduce(u, v) = c
    BY NumParts
<1>4. PICK x \in Int, y \in Nat \ {0} : x = p * s + r * q /\ y = q * s
    OBVIOUS
<1>5. RMul(RAdd(a, b), c) = Reduce(x * u, y * v)
    <2>1. RAdd(a, b) = Reduce(x, y)
        BY <1>1, <1>2, <1>4 DEF RAdd
    <2>2. RMul(Reduce(x, y), Reduce(u, v)) = Reduce(x * u, y * v)
        BY MulReduced
    <2>3. QED
        BY <1>3, <2>1, <2>2
<1>6. PICK w \in Int, z \in Nat \ {0} : w = (p * u) * (s * v) + (r * u) * (q * v) /\ z = (q * v) * (s * v)
    OBVIOUS
<1>7. RAdd(RMul(a, c), RMul(b, c)) = Reduce(w, z)
    <2>1. RMul(a, c) = Reduce(p * u, q * v) /\ RMul(b, c) = Reduce(r * u, s * v)
        BY <1>1, <1>2, <1>3 DEF RMul
    <2>2. p * u \in Int /\ q * v \in Nat \ {0} /\ r * u \in Int /\ s * v \in Nat \ {0}
        OBVIOUS
    <2>3. QED
        BY <1>6, <2>1, <2>2, AddReduced
<1>8. (x * u) * z = w * (y * v)
    <2>1. (x * u) * z = ((p * s + r * q) * u) * ((q * v) * (s * v))
        BY <1>4, <1>6
    <2>2. w * (y * v) = ((p * u) * (s * v) + (r * u) * (q * v)) * ((q * s) * v)
        BY <1>4, <1>6
    <2>3. ((p * s + r * q) * u) * ((q * v) * (s * v))
            = ((p * u) * (s * v) + (r * u) * (q * v)) * ((q * s) * v)
        OBVIOUS
    <2>4. QED
        BY <2>1, <2>2, <2>3
<1>9. x * u \in Int /\ y * v \in Nat \ {0}
    OBVIOUS
<1>10. QED
    BY <1>5, <1>7, <1>8, <1>9, ReduceEqual

LEMMA MulNothing ==
    ASSUME NEW c \in Num
    PROVE  RMul(Zero, c) = Zero
<1>1. c[1] \in Int /\ c[2] \in Nat \ {0}
    BY NumParts
<1>2. RMul(Zero, c) = Reduce(0, c[2])
    BY <1>1 DEF RMul, Zero, RInt
<1>3. QED
    BY <1>1, <1>2, ReduceIs

(* What is shared out and collected again is all there was.                *)
LEMMA DivBack ==
    ASSUME NEW c \in Num, NEW u \in Num, u # Zero
    PROVE  RMul(u, RDiv(c, u)) = c
<1>1. PICK p \in Int, q \in Nat \ {0} : c = <<p, q>> /\ Reduce(p, q) = c
    BY NumParts
<1>2. PICK r \in Int, s \in Nat \ {0} : u = <<r, s>> /\ Reduce(r, s) = u /\ r # 0
    BY NumParts
<1>3. CASE r > 0
    <2>1. PICK x \in Int, y \in Nat \ {0} : x = p * s /\ y = q * r
        BY <1>3
    <2>2. RDiv(c, u) = Reduce(x, y)
        <3>1. c[1] = p /\ c[2] = q /\ u[1] = r /\ u[2] = s
            BY <1>1, <1>2
        <3>2. RDiv(c, u) = Reduce(c[1] * u[2], c[2] * u[1])
            BY <1>3, <3>1 DEF RDiv
        <3>3. QED
            BY <2>1, <3>1, <3>2
    <2>3. RMul(u, RDiv(c, u)) = Reduce(r * x, s * y)
        <3>1. RMul(Reduce(r, s), Reduce(x, y)) = Reduce(r * x, s * y)
            BY MulReduced
        <3>2. QED
            BY <1>2, <2>2, <3>1
    <2>4. (r * x) * q = p * (s * y)
        BY <2>1
    <2>5. r * x \in Int /\ s * y \in Nat \ {0}
        OBVIOUS
    <2>6. QED
        BY <1>1, <2>3, <2>4, <2>5, ReduceEqual
<1>4. CASE r < 0
    <2>1. PICK x \in Int, y \in Nat \ {0} : x = -(p * s) /\ y = -(q * r)
        <3>1. q * r < 0
            BY <1>4
        <3>2. QED
            BY <3>1
    <2>2. RDiv(c, u) = Reduce(x, y)
        <3>1. c[1] = p /\ c[2] = q /\ u[1] = r /\ u[2] = s
            BY <1>1, <1>2
        <3>2. RDiv(c, u) = Reduce(-(c[1] * u[2]), -(c[2] * u[1]))
            BY <1>4, <3>1 DEF RDiv
        <3>3. QED
            BY <2>1, <3>1, <3>2
    <2>3. RMul(u, RDiv(c, u)) = Reduce(r * x, s * y)
        <3>1. RMul(Reduce(r, s), Reduce(x, y)) = Reduce(r * x, s * y)
            BY MulReduced
        <3>2. QED
            BY <1>2, <2>2, <3>1
    <2>4. (r * x) * q = p * (s * y)
        <3>1. r * x = -(r * (p * s)) /\ s * y = -(s * (q * r))
            BY <2>1
        <3>2. PICK k \in Int : k = r * (p * s)
            OBVIOUS
        <3>3. PICK l \in Int : l = s * (q * r)
            OBVIOUS
        <3>4. k * q = p * l
            BY <3>2, <3>3
        <3>5. (-k) * q = p * (-l)
            BY <3>4
        <3>6. QED
            BY <3>1, <3>2, <3>3, <3>5
    <2>5. r * x \in Int /\ s * y \in Nat \ {0}
        OBVIOUS
    <2>6. QED
        BY <1>1, <2>3, <2>4, <2>5, ReduceEqual
<1>5. QED
    BY <1>2, <1>3, <1>4

----------------------------------------------------------------------------
(* Sums of products, sums of sums, and sums of one term.                   *)

LEMMA SumScale ==
    ASSUME NEW n \in Nat, NEW c \in Num, NEW f \in [1..n -> Num], NEW h \in [1..n -> Num],
           \A i \in 1..n : h[i] = RMul(f[i], c)
    PROVE  RSum(h) = RMul(RSum(f), c)
<1> DEFINE S == {m \in Nat : m <= n => RSums(h)[m] = RMul(RSums(f)[m], c)}
<1>1. /\ f = [i \in 1..n |-> f[i]] /\ h = [i \in 1..n |-> h[i]]
      /\ Len(f) = n /\ Len(h) = n
    BY LenIs
<1>2. 0 \in S
    BY <1>1, SumStep, MulNothing
<1>3. ASSUME NEW m \in Nat, m \in S
      PROVE  m + 1 \in S
    <2>1. SUFFICES ASSUME m + 1 <= n
                   PROVE  RSums(h)[m + 1] = RMul(RSums(f)[m + 1], c)
        OBVIOUS
    <2>2. m + 1 \in 1..n /\ (m + 1) - 1 = m /\ m \in 0..n
        BY <2>1
    <2>3. /\ RSums(h)[m + 1] = RAdd(RSums(h)[m], h[m + 1])
          /\ RSums(f)[m + 1] = RAdd(RSums(f)[m], f[m + 1])
        BY <1>1, <2>2, SumStep
    <2>4. RSums(h)[m] = RMul(RSums(f)[m], c)
        BY <1>3, <2>1
    <2>5. RSums(f)[m] \in Num
        BY <1>1, <2>2, RunningNum
    <2>6. f[m + 1] \in Num /\ h[m + 1] = RMul(f[m + 1], c)
        BY <2>2
    <2>7. QED
        BY <2>3, <2>4, <2>5, <2>6, MulAdd
<1> HIDE DEF S
<1>4. Nat \subseteq S
    BY <1>2, <1>3, SetInduction
<1>5. n \in S
    BY <1>4
<1>6. QED
    BY <1>1, <1>5 DEF S, RSum

LEMMA SumSingle ==
    ASSUME NEW n \in Nat, NEW f \in [1..n -> Num], NEW k \in 1..n,
           \A i \in 1..n : i # k => f[i] = Zero
    PROVE  RSum(f) = f[k]
<1> DEFINE S == {m \in Nat : m <= n => RSums(f)[m] = IF m < k THEN Zero ELSE f[k]}
<1>1. f = [i \in 1..n |-> f[i]] /\ Len(f) = n /\ k \in Nat /\ 0 < k /\ k <= n
    BY LenIs
<1>2. 0 \in S
    BY <1>1, SumStep
<1>3. ASSUME NEW m \in Nat, m \in S
      PROVE  m + 1 \in S
    <2>1. SUFFICES ASSUME m + 1 <= n
                   PROVE  RSums(f)[m + 1] = IF m + 1 < k THEN Zero ELSE f[k]
        OBVIOUS
    <2>2. m + 1 \in 1..n /\ (m + 1) - 1 = m
        BY <2>1
    <2>3. RSums(f)[m + 1] = RAdd(RSums(f)[m], f[m + 1])
        BY <1>1, <2>2, SumStep
    <2>4. RSums(f)[m] = IF m < k THEN Zero ELSE f[k]
        BY <1>3, <2>1
    <2>5. CASE m + 1 < k
        <3>1. m < k /\ f[m + 1] = Zero
            BY <1>1, <2>2, <2>5
        <3>2. QED
            BY <2>3, <2>4, <2>5, <3>1, AddZero
    <2>6. CASE m + 1 = k
        <3>1. m < k /\ f[m + 1] = f[k] /\ f[k] \in Num
            BY <1>1, <2>2, <2>6
        <3>2. QED
            BY <2>3, <2>4, <2>6, <3>1, AddNothing
    <2>7. CASE k < m + 1
        <3>1. ~(m < k) /\ ~(m + 1 < k) /\ f[m + 1] = Zero /\ f[k] \in Num
            BY <1>1, <2>2, <2>7
        <3>2. QED
            BY <2>3, <2>4, <3>1, AddNothing
    <2>8. QED
        BY <1>1, <2>5, <2>6, <2>7
<1> HIDE DEF S
<1>4. Nat \subseteq S
    BY <1>2, <1>3, SetInduction
<1>5. n \in S /\ ~(n < k)
    BY <1>1, <1>4
<1>6. QED
    BY <1>1, <1>5 DEF S, RSum

(* The sums of the rows of a table add up to what those of its columns do. *)
LEMMA SumExchange ==
    ASSUME NEW m \in Nat, NEW n \in Nat,
           NEW g \in [1..m -> [1..n -> Num]], NEW h \in [1..n -> [1..m -> Num]],
           \A i \in 1..m, j \in 1..n : g[i][j] = h[j][i],
           NEW rows \in [1..m -> Num], NEW cols \in [1..n -> Num],
           \A i \in 1..m : rows[i] = RSum(g[i]),
           \A j \in 1..n : cols[j] = RSum(h[j])
    PROVE  RSum(rows) = RSum(cols)
<1> DEFINE Col(j) == h[j]
           Upto(l) == [j \in 1..n |-> RSums(Col(j))[l]]
           S == {l \in Nat : l <= m => RSums(rows)[l] = RSum(Upto(l))}
<1>1. rows = [i \in 1..m |-> rows[i]] /\ cols = [j \in 1..n |-> cols[j]] /\ Len(rows) = m
    BY LenIs
<1>2. ASSUME NEW j \in 1..n
      PROVE  /\ Col(j) = [i \in 1..m |-> Col(j)[i]] /\ Len(Col(j)) = m
             /\ \A i \in 1..m : Col(j)[i] \in Num /\ Col(j)[i] = g[i][j]
    <2>1. Col(j) = [i \in 1..m |-> Col(j)[i]] /\ \A i \in 1..m : Col(j)[i] \in Num /\ Col(j)[i] = g[i][j]
        OBVIOUS
    <2> HIDE DEF Col
    <2>2. QED
        BY <2>1, LenIs
<1>3. ASSUME NEW l \in 0..m
      PROVE  Upto(l) \in [1..n -> Num]
    <2>1. ASSUME NEW j \in 1..n
          PROVE  RSums(Col(j))[l] \in Num
        <3> HIDE DEF Col
        <3>1. QED
            BY <1>2, RunningNum
    <2>2. QED
        BY <2>1
<1> HIDE DEF Col
<1>4. 0 \in S
    <2>1. \A j \in 1..n : Upto(0)[j] = Zero
        BY <1>2, SumStep
    <2>2. Upto(0) = [j \in 1..n |-> Upto(0)[j]]
        OBVIOUS
    <2> HIDE DEF Upto
    <2>3. RSum(Upto(0)) = Zero
        BY <2>1, <2>2, SumTermsZero
    <2>4. QED
        BY <1>1, <2>3, SumStep
<1>5. ASSUME NEW l \in Nat, l \in S
      PROVE  l + 1 \in S
    <2>1. SUFFICES ASSUME l + 1 <= m
                   PROVE  RSums(rows)[l + 1] = RSum(Upto(l + 1))
        OBVIOUS
    <2>2. l + 1 \in 1..m /\ (l + 1) - 1 = l /\ l \in 0..m /\ l + 1 \in 0..m
        BY <2>1
    <2> HIDE DEF S, Upto
    <2>3. RSums(rows)[l + 1] = RAdd(RSums(rows)[l], rows[l + 1])
        <3>1. RSums(rows)[l + 1] = RAdd(RSums(rows)[(l + 1) - 1], rows[l + 1])
            BY <1>1, <2>2, SumStep
        <3>2. QED
            BY <2>2, <3>1
    <2>4. RSums(rows)[l] = RSum(Upto(l)) /\ rows[l + 1] = RSum(g[l + 1])
        BY <1>5, <2>1, <2>2 DEF S
    <2>5. \A j \in 1..n : Upto(l + 1)[j] = RAdd(Upto(l)[j], g[l + 1][j])
        <3>1. ASSUME NEW j \in 1..n
              PROVE  RSums(Col(j))[l + 1] = RAdd(RSums(Col(j))[l], g[l + 1][j])
            BY <1>2, <2>2, SumStep
        <3>2. QED
            BY <3>1 DEF Upto
    <2>6. Upto(l) \in [1..n -> Num] /\ Upto(l + 1) \in [1..n -> Num] /\ g[l + 1] \in [1..n -> Num]
        BY <1>3, <2>2
    <2>7. RSum(Upto(l + 1)) = RAdd(RSum(Upto(l)), RSum(g[l + 1]))
        BY <2>5, <2>6, SumPlus
    <2>8. QED
        BY <2>3, <2>4, <2>7
<1>6. cols = Upto(m)
    <2>1. \A j \in 1..n : cols[j] = RSums(Col(j))[m]
        BY <1>2 DEF RSum, Col
    <2>2. QED
        BY <1>1, <2>1
<1> HIDE DEF S, Upto
<1>7. Nat \subseteq S
    BY <1>4, <1>5, SetInduction
<1>8. m \in S
    BY <1>7
<1>9. RSums(rows)[m] = RSum(Upto(m))
    BY <1>8 DEF S
<1>10. QED
    BY <1>1, <1>6, <1>9 DEF RSum

LEMMA NegZero == RNeg(Zero) = Zero
<1>1. Zero \in Num /\ RNeg(Zero) \in Num
    BY ZeroNum, NegNum
<1>2. RAdd(Zero, RNeg(Zero)) = RNeg(Zero) /\ RAdd(Zero, RNeg(Zero)) = Zero
    BY <1>1, AddNothing, AddNeg
<1>3. QED
    BY <1>2

----------------------------------------------------------------------------
(* What the operators of Booking return, and what booking one directive    *)
(* preserves of the engine, whatever the journal.                          *)

Lots     == [Accounts -> [Commodities -> Position]]
Balances == [Accounts -> [Commodities -> Num]]

(* An inventory operation moves a positive number of units. *)
Operation ==
    {op \in [kind : {"none", "buy", "sell"}, units : Num, total : Num, costComm : Currency] :
        op.kind # "none" => RPositive(op.units)}
BasisOf == [set : BOOLEAN, n : Num, comm : Currency]
Leg     == [acct : Accounts, amts : [Commodities -> Num], basis : BasisOf]
Entry   == [date : Dates, line : Nat, flag : Flags, legs : Seq(Leg)]
Messages ==
    {"account not opened", "transaction before open", "posting after close", "duplicate open",
     "multiple residual postings", "amount missing number", "amount missing commodity",
     "buy requires explicit cost", "sell cost # average", "unbalanced transaction",
     "oversell", "cost commodity mismatch", "balance failed"}
Pad     == [from : Accounts, date : Dates, line : Nat]

Diag    == [line : Nat, sev : {"error", "warn"}, what : Messages,
            on : Accounts \cup Commodities \cup {NoAccount}]

(* The type of the engine. *)
Engine ==
    [inv : Lots, bal : Balances, open : [Accounts -> Nat], close : [Accounts -> Nat],
     pad : [Accounts -> Pad \cup {NoPad}], txns : Seq(Entry),
     notes : SUBSET Nat, events : SUBSET Nat,
     diags : SUBSET Diag,
     tol : [Commodities -> Num]]

----------------------------------------------------------------------------
(* Smallest and largest elements. *)

LEMMA MinIsIn ==
    ASSUME NEW S \in SUBSET Nat, S # {}
    PROVE  Min(S) \in S
BY LeastNat DEF Min

LEMMA MaxIsIn ==
    ASSUME NEW n \in Nat, NEW S \in SUBSET (1..n), S # {}
    PROVE  Max(S) \in S
<1> DEFINE Bounds == {m \in Nat : \A x \in S : x <= m}
<1>1. n \in Bounds
    OBVIOUS
<1>2. PICK m \in Bounds : \A k \in Bounds : m <= k
    <2>1. Bounds \in SUBSET Nat /\ Bounds # {}
        BY <1>1
    <2> HIDE DEF Bounds
    <2>2. QED
        BY <2>1, LeastNat
<1>3. m \in S
    <2>1. SUFFICES ASSUME m \notin S PROVE FALSE
        OBVIOUS
    <2>2. m - 1 \in Nat
        <3>1. PICK x \in S : TRUE
            OBVIOUS
        <3>2. x \in Nat /\ 1 <= x /\ x <= m
            OBVIOUS
        <3>3. QED
            BY <3>2
    <2>3. ASSUME NEW x \in S
          PROVE  x <= m - 1
        <3>1. x \in Nat /\ m \in Nat /\ x <= m /\ x # m
            BY <2>1
        <3>2. QED
            BY <3>1
    <2>4. m - 1 \in Bounds
        BY <2>2, <2>3
    <2>5. QED
        BY <1>2, <2>2, <2>4
<1>4. QED
    BY <1>3 DEF Max

----------------------------------------------------------------------------
(* Planning. *)

LEMMA PostingParts ==
    ASSUME NEW p \in Posting
    PROVE  /\ p.acct \in Accounts
           /\ p.units.kind = "amount" => p.units.n \in Num /\ p.units.comm \in Commodities
           /\ p.cost.kind \in {"none", "empty", "unit"}
           /\ p.cost.kind = "unit" => p.cost.n \in Num /\ p.cost.comm \in Commodities
           /\ p.price.kind \in {"none", "unit", "total"}
           /\ p.price.kind # "none" => p.price.n \in Num /\ p.price.comm \in Commodities
<1>1. p.acct \in Accounts /\ p.units \in PostingUnits /\ p.cost \in PostingCost /\ p.price \in PostingPrice
    BY DEF Posting
<1>2. p.units.kind = "amount" => p.units.n \in Num /\ p.units.comm \in Commodities
    BY <1>1 DEF PostingUnits, Quantity
<1>3. p.cost.kind \in {"none", "empty", "unit"} /\ (p.cost.kind = "unit" => p.cost.n \in Num /\ p.cost.comm \in Commodities)
    BY <1>1 DEF PostingCost, Quantity
<1>4. p.price.kind \in {"none", "unit", "total"} /\ (p.price.kind # "none" => p.price.n \in Num /\ p.price.comm \in Commodities)
    BY <1>1 DEF PostingPrice, Quantity
<1>5. QED
    BY <1>1, <1>2, <1>3, <1>4

LEMMA LotParts ==
    ASSUME NEW inv \in Lots, NEW a \in Accounts, NEW c \in Commodities
    PROVE  /\ inv[a][c] \in Position
           /\ inv[a][c].units \in Num /\ inv[a][c].cost \in Num /\ inv[a][c].costComm \in Currency
BY DEF Lots, Position

LEMMA AvgNum ==
    ASSUME NEW pos \in Position
    PROVE  Avg(pos) \in Num
BY DivNum, ZeroNum DEF Avg, Position

(* Signs of a number and of its opposite. *)
LEMMA Signs ==
    ASSUME NEW n \in Num
    PROVE  /\ ~(RPositive(n) /\ RNegative(n))
           /\ ~RPositive(n) /\ ~RNegative(n) => n = Zero
           /\ RPositive(n) => RNonNeg(n)
BY NumParts DEF RPositive, RNegative, RNonNeg

LEMMA IncreaseCostType ==
    ASSUME NEW p \in Posting, p.units.kind = "amount"
    PROVE  ResolveIncreaseCost(p) \in [ok : BOOLEAN, n : Num, comm : Currency]
<1>1. NoCost \in [ok : BOOLEAN, n : Num, comm : Currency]
    BY ZeroNum DEF NoCost, Currency
<1>2. p.units.n \in Num
    BY PostingParts
<1>3. CASE p.cost.kind = "unit"
    BY <1>3, PostingParts DEF ResolveIncreaseCost, Currency
<1>4. CASE p.cost.kind # "unit" /\ p.price.kind # "none" /\ p.units.n # Zero
    <2>1. p.price.n \in Num /\ p.price.comm \in Commodities
        BY <1>4, PostingParts
    <2>2. RAbs(p.price.n) \in Num /\ RAbs(p.units.n) \in Num /\ RAbs(p.units.n) # Zero
        BY <1>2, <1>4, <2>1, NegNum DEF RPositive, Zero, RInt
    <2>3. RDiv(RAbs(p.price.n), RAbs(p.units.n)) \in Num
        BY <2>2, DivNum
    <2>4. QED
        BY <1>4, <2>1, <2>3 DEF ResolveIncreaseCost, Currency
<1>5. CASE p.cost.kind # "unit" /\ (p.price.kind = "none" \/ p.units.n = Zero)
    BY <1>1, <1>5 DEF ResolveIncreaseCost
<1>6. QED
    BY <1>3, <1>4, <1>5

LEMMA BuyCostType ==
    ASSUME NEW e, e.inv \in Lots, NEW p \in Posting, p.units.kind = "amount"
    PROVE  BuyCost(e, p) \in [ok : BOOLEAN, n : Num, comm : Currency]
<1>1. p.acct \in Accounts /\ p.units.comm \in Commodities
    BY PostingParts
<1> DEFINE pos == e.inv[p.acct][p.units.comm]
<1>2. pos \in Position /\ Avg(pos) \in Num /\ pos.costComm \in Currency
    BY <1>1, LotParts, AvgNum
<1> HIDE DEF pos
<1>3. BuyCost(e, p) \in {ResolveIncreaseCost(p), [ok |-> TRUE, n |-> Avg(pos), comm |-> pos.costComm]}
    BY DEF BuyCost, pos
<1>4. [ok |-> TRUE, n |-> Avg(pos), comm |-> pos.costComm] \in [ok : BOOLEAN, n : Num, comm : Currency]
    BY <1>2
<1>5. QED
    BY <1>3, <1>4, IncreaseCostType

LEMMA NoOpType == NoOp \in Operation
BY ZeroNum DEF NoOp, Operation, Currency

LEMMA BuyOpType ==
    ASSUME NEW n \in Num, RPositive(n), NEW cost, cost.n \in Num, cost.comm \in Currency
    PROVE  BuyOp(n, cost) \in Operation
BY MulNum DEF BuyOp, Operation

LEMMA SellOpType ==
    ASSUME NEW n \in Num, RNegative(n), NEW pos \in Position
    PROVE  SellOp(RNeg(n), pos) \in Operation
<1>1. RNeg(n) \in Num /\ RPositive(RNeg(n)) /\ RMul(RNeg(n), Avg(pos)) \in Num
    BY NegNum, AvgNum, MulNum
<1>2. pos.costComm \in Currency
    BY DEF Position
<1>3. QED
    BY <1>1, <1>2 DEF SellOp, Operation, Currency

LEMMA PlanOpType ==
    ASSUME NEW e, e.inv \in Lots, NEW p \in Posting, p.units.kind = "amount"
    PROVE  PlanOp(e, p) \in Operation
<1>1. p.acct \in Accounts /\ p.units.comm \in Commodities /\ p.units.n \in Num
    BY PostingParts
<1>2. e.inv[p.acct][p.units.comm] \in Position
    BY <1>1, LotParts
<1>3. BuyCost(e, p).n \in Num /\ BuyCost(e, p).comm \in Currency
    BY BuyCostType
<1>4. RPositive(p.units.n) => BuyOp(p.units.n, BuyCost(e, p)) \in Operation
    BY <1>1, <1>3, BuyOpType
<1>5. RNegative(p.units.n) => SellOp(RNeg(p.units.n), e.inv[p.acct][p.units.comm]) \in Operation
    BY <1>1, <1>2, SellOpType
<1>6. QED
    BY <1>4, <1>5, NoOpType DEF PlanOp

LEMMA BasisType ==
    ASSUME NEW op \in Operation
    PROVE  Basis(op) \in BasisOf
<1>1. op.total \in Num /\ op.costComm \in Currency /\ RNeg(op.total) \in Num
    BY NegNum DEF Operation
<1>2. QED
    BY <1>1, ZeroNum DEF Basis, BasisOf, NoBasis, Currency

LEMMA WeightType ==
    ASSUME NEW p \in Posting, p.units.kind = "amount", NEW b \in BasisOf, NEW demand
    PROVE  LegWeight(p, b, demand) \in [comm : Currency, n : Num]
<1>1. b.n \in Num /\ b.comm \in Currency
    BY DEF BasisOf
<1>2. p.units.n \in Num /\ p.units.comm \in Currency
    BY PostingParts DEF Currency
<1>3. p.cost.kind = "unit" => p.cost.comm \in Currency /\ RMul(p.units.n, p.cost.n) \in Num
    BY <1>2, PostingParts, MulNum DEF Currency
<1>4. p.price.kind # "none" => /\ p.price.comm \in Currency
                               /\ RMul(p.units.n, p.price.n) \in Num
                               /\ RAbs(p.price.n) \in Num
                               /\ RNeg(RAbs(p.price.n)) \in Num
    BY <1>2, PostingParts, MulNum, NegNum DEF Currency
<1>5. PostingWeight(p, b) \in [comm : Currency, n : Num]
    BY <1>1, <1>2, <1>3, <1>4 DEF PostingWeight
<1>6. QED
    BY <1>2, <1>5 DEF LegWeight

LEMMA GivenParts ==
    ASSUME NEW t \in Transaction
    PROVE  /\ Len(t.postings) \in Nat /\ DOMAIN t.postings = 1..Len(t.postings)
           /\ \A i \in DOMAIN t.postings : t.postings[i] \in Posting /\ t.postings[i].acct \in Accounts
           /\ Given(t) \subseteq DOMAIN t.postings /\ Residual(t) \subseteq DOMAIN t.postings
           /\ \A i \in Given(t) : /\ t.postings[i].units.kind = "amount"
                                  /\ t.postings[i].units.n \in Num
                                  /\ t.postings[i].units.comm \in Commodities
           /\ Given(t) \cap Residual(t) = {}
<1>1. t.postings \in Seq(Posting)
    BY DEF Transaction
<1>2. Len(t.postings) \in Nat /\ DOMAIN t.postings = 1..Len(t.postings) /\ \A i \in DOMAIN t.postings : t.postings[i] \in Posting
    BY <1>1
<1>3. QED
    BY <1>2, PostingParts DEF Given, Residual

(* The parts of a plan, named. *)
Explicit(e, t) ==
    [i \in DOMAIN t.postings |-> IF i \in Given(t) THEN PlanOp(e, t.postings[i]) ELSE NoOp]
Bases(e, t)  == [i \in DOMAIN t.postings |-> Basis(Explicit(e, t)[i])]
Totals(e, t) == WeightTotals(t, Bases(e, t), FaceCurrencyDemand(t, Given(t), Bases(e, t)))
Off(e, t)    == {c \in Commodities : ~RLe(RAbs(Totals(e, t)[c]), e.tol[c])}

LEMMA PlanIs ==
    ASSUME NEW e, NEW t
    PROVE  Plan(e, t) =
             [off   |-> Off(e, t),
              amts  |-> Amounts(t, Totals(e, t), Off(e, t)),
              basis |-> Bases(e, t),
              ops   |-> Operations(e, t, Explicit(e, t), Amounts(t, Totals(e, t), Off(e, t)))]
BY Zenon DEF Plan, Off, Totals, Bases, Explicit

LEMMA ExplicitType ==
    ASSUME NEW e, e.inv \in Lots, NEW t \in Transaction
    PROVE  /\ Explicit(e, t) \in [DOMAIN t.postings -> Operation]
           /\ Bases(e, t) \in [DOMAIN t.postings -> BasisOf]
<1>1. \A i \in DOMAIN t.postings : Explicit(e, t)[i] \in Operation
    BY GivenParts, PlanOpType, NoOpType DEF Explicit
<1>2. \A i \in DOMAIN t.postings : Bases(e, t)[i] \in BasisOf
    BY <1>1, BasisType DEF Bases
<1>3. QED
    BY <1>1, <1>2 DEF Explicit, Bases

LEMMA TotalsType ==
    ASSUME NEW e, e.inv \in Lots, NEW t \in Transaction
    PROVE  Totals(e, t) \in [Commodities -> Num]
<1> DEFINE demand == FaceCurrencyDemand(t, Given(t), Bases(e, t))
           n == Len(t.postings)
           weight == [i \in DOMAIN t.postings |->
                        IF i \in Given(t) THEN LegWeight(t.postings[i], Bases(e, t)[i], demand)
                                          ELSE [comm |-> NoComm, n |-> Zero]]
           term(c) == [i \in DOMAIN weight |-> IF weight[i].comm = c THEN weight[i].n ELSE Zero]
<1>1. Totals(e, t) = [c \in Commodities |-> RSum(term(c))]
    BY DEF Totals, WeightTotals
<1>2. n \in Nat /\ DOMAIN t.postings = 1..n
    BY GivenParts
<1>3. ASSUME NEW i \in 1..n
      PROVE  weight[i].n \in Num
    <2>1. CASE i \in Given(t)
        <3>1. t.postings[i] \in Posting /\ t.postings[i].units.kind = "amount" /\ Bases(e, t)[i] \in BasisOf
            BY <1>2, <2>1, GivenParts, ExplicitType
        <3>2. weight[i] = LegWeight(t.postings[i], Bases(e, t)[i], demand)
            BY <1>2, <2>1
        <3> HIDE DEF weight, demand
        <3>3. weight[i] \in [comm : Currency, n : Num]
            BY <3>1, <3>2, WeightType
        <3>4. QED
            BY <3>3
    <2>2. CASE i \notin Given(t)
        BY <1>2, <2>2, ZeroNum
    <2>3. QED
        BY <2>1, <2>2
<1>4. DOMAIN weight = 1..n
    BY <1>2
<1> HIDE DEF weight
<1>5. ASSUME NEW c \in Commodities
      PROVE  RSum(term(c)) \in Num
    <2>1. \A i \in 1..n : term(c)[i] \in Num
        BY <1>3, <1>4, ZeroNum
    <2>2. term(c) = [i \in 1..n |-> term(c)[i]]
        BY <1>4
    <2> HIDE DEF term, n
    <2>3. QED
        BY <1>2, <2>1, <2>2, SumTerms
<1> HIDE DEF term
<1>6. QED
    BY <1>1, <1>5

LEMMA AmountsType ==
    ASSUME NEW t \in Transaction, NEW total \in [Commodities -> Num], NEW off
    PROVE  Amounts(t, total, off) \in [DOMAIN t.postings -> [Commodities -> Num]]
<1>1. ASSUME NEW i \in DOMAIN t.postings, NEW c \in Commodities
      PROVE  Amounts(t, total, off)[i][c] \in Num
    <2>1. RNeg(total[c]) \in Num
        BY NegNum
    <2>2. i \in Given(t) => t.postings[i].units.n \in Num
        BY GivenParts
    <2>3. QED
        BY <2>1, <2>2, ZeroNum DEF Amounts
<1>2. QED
    BY <1>1 DEF Amounts

LEMMA ResidualOpType ==
    ASSUME NEW e, e.inv \in Lots, NEW t, NEW explicit,
           NEW a \in Accounts, NEW c \in Commodities, NEW n \in Num
    PROVE  ResidualOp(e, t, explicit, a, c, n) \in Operation
<1> DEFINE pos == e.inv[a][c]
           cost == [n |-> Avg(pos), comm |-> pos.costComm]
<1>1. pos \in Position /\ Avg(pos) \in Num /\ pos.costComm \in Currency
    BY LotParts, AvgNum
<1> HIDE DEF pos
<1>2. RNegative(n) => SellOp(RNeg(n), pos) \in Operation
    BY <1>1, SellOpType
<1>3. cost.n \in Num /\ cost.comm \in Currency
    BY <1>1
<1> HIDE DEF cost
<1>4. RPositive(n) => BuyOp(n, cost) \in Operation
    BY <1>3, BuyOpType
<1>5. QED
    BY <1>2, <1>4, NoOpType DEF ResidualOp, pos, cost

LEMMA OperationsType ==
    ASSUME NEW e, e.inv \in Lots, NEW t \in Transaction,
           NEW explicit \in [DOMAIN t.postings -> Operation],
           NEW amts \in [DOMAIN t.postings -> [Commodities -> Num]]
    PROVE  Operations(e, t, explicit, amts) \in [DOMAIN t.postings -> [Commodities -> Operation]]
<1>1. ASSUME NEW i \in DOMAIN t.postings, NEW c \in Commodities
      PROVE  Operations(e, t, explicit, amts)[i][c] \in Operation
    <2>1. t.postings[i].acct \in Accounts /\ amts[i][c] \in Num
        BY GivenParts
    <2>2. ResidualOp(e, t, explicit, t.postings[i].acct, c, amts[i][c]) \in Operation
        BY <2>1, ResidualOpType
    <2>3. QED
        BY <2>2, NoOpType DEF Operations
<1>2. QED
    BY <1>1 DEF Operations

(* What a plan is made of. *)
Plans(t) ==
    [off : SUBSET Commodities, amts : [DOMAIN t.postings -> [Commodities -> Num]],
     basis : [DOMAIN t.postings -> BasisOf], ops : [DOMAIN t.postings -> [Commodities -> Operation]]]

LEMMA PlanType ==
    ASSUME NEW e, e.inv \in Lots, NEW t \in Transaction
    PROVE  Plan(e, t) \in Plans(t)
<1> DEFINE amts == Amounts(t, Totals(e, t), Off(e, t))
<1>1. amts \in [DOMAIN t.postings -> [Commodities -> Num]]
    BY TotalsType, AmountsType
<1> HIDE DEF amts
<1>2. Operations(e, t, Explicit(e, t), amts) \in [DOMAIN t.postings -> [Commodities -> Operation]]
    BY <1>1, ExplicitType, OperationsType
<1>3. Off(e, t) \in SUBSET Commodities
    BY DEF Off
<1>4. Plan(e, t) = [off |-> Off(e, t), amts |-> amts, basis |-> Bases(e, t),
                    ops |-> Operations(e, t, Explicit(e, t), amts)]
    BY PlanIs DEF amts
<1>5. Bases(e, t) \in [DOMAIN t.postings -> BasisOf]
    BY ExplicitType
<1>6. QED
    BY <1>1, <1>2, <1>3, <1>4, <1>5 DEF Plans

----------------------------------------------------------------------------
(* Applying a plan: lots. *)

(* No lot holds less than nothing, and an empty lot has no cost.           *)
Sound(inv) ==
    \A a \in Accounts, c \in Commodities :
        /\ RNonNeg(inv[a][c].units)
        /\ inv[a][c].units = Zero => inv[a][c].cost = Zero

(* The net of the units is never negative; it is nothing only when no      *)
(* posting moves the lot that way, and then no cost moves either.          *)
LEMMA NetUnits ==
    ASSUME NEW t \in Transaction, NEW plan \in Plans(t), NEW kind \in {"buy", "sell"},
           NEW a \in Accounts, NEW c \in Commodities, NEW upto \in 0..Len(t.postings)
    PROVE  /\ Net(t, plan, kind, "units", a, c, upto) \in Num
           /\ RNonNeg(Net(t, plan, kind, "units", a, c, upto))
           /\ Net(t, plan, kind, "total", a, c, upto) \in Num
           /\ Net(t, plan, kind, "units", a, c, upto) = Zero =>
                /\ Net(t, plan, kind, "total", a, c, upto) = Zero
                /\ \A i \in 1..upto : ~(t.postings[i].acct = a /\ plan.ops[i][c].kind = kind)
<1> DEFINE Moves(i) == t.postings[i].acct = a /\ plan.ops[i][c].kind = kind
           term(fld) == [i \in 1..upto |-> IF t.postings[i].acct = a /\ plan.ops[i][c].kind = kind
                                           THEN plan.ops[i][c][fld] ELSE Zero]
<1>1. \A fld : Net(t, plan, kind, fld, a, c, upto) = RSum(term(fld))
    BY DEF Net
<1>2. upto \in Nat /\ 1..upto \subseteq DOMAIN t.postings
    BY GivenParts
<1>3. ASSUME NEW i \in 1..upto
      PROVE  /\ plan.ops[i][c] \in Operation
             /\ plan.ops[i][c]["units"] \in Num /\ plan.ops[i][c]["total"] \in Num
             /\ Moves(i) => RPositive(plan.ops[i][c]["units"])
    <2>1. plan.ops[i][c] \in Operation
        BY <1>2 DEF Plans
    <2>2. QED
        BY <2>1 DEF Operation
<1>4. ASSUME NEW i \in 1..upto
      PROVE  /\ term("units")[i] \in Num /\ RNonNeg(term("units")[i])
             /\ term("total")[i] \in Num
             /\ Moves(i) => term("units")[i] # Zero
             /\ ~Moves(i) => term("total")[i] = Zero
    <2>1. RNonNeg(Zero) /\ ~RPositive(Zero)
        BY DEF RNonNeg, RPositive, Zero, RInt
    <2>2. term("units")[i] = IF Moves(i) THEN plan.ops[i][c]["units"] ELSE Zero
        OBVIOUS
    <2>3. term("total")[i] = IF Moves(i) THEN plan.ops[i][c]["total"] ELSE Zero
        OBVIOUS
    <2> HIDE DEF Moves, term
    <2>4. Moves(i) => RNonNeg(plan.ops[i][c]["units"]) /\ plan.ops[i][c]["units"] # Zero
        BY <1>3, <2>1, Signs
    <2>5. QED
        BY <1>3, <2>1, <2>2, <2>3, <2>4, ZeroNum
<1>5. \A fld : term(fld) = [i \in 1..upto |-> term(fld)[i]]
    OBVIOUS
<1>6. ASSUME NEW i \in 1..upto
      PROVE  ~Moves(i) <=> ~(t.postings[i].acct = a /\ plan.ops[i][c].kind = kind)
    OBVIOUS
<1> HIDE DEF Moves, term
<1>7. /\ RSum(term("units")) \in Num /\ RNonNeg(RSum(term("units")))
      /\ RSum(term("units")) = Zero => \A i \in 1..upto : term("units")[i] = Zero
    BY <1>2, <1>4, <1>5, SumTermsNonNeg
<1>8. RSum(term("total")) \in Num
    BY <1>2, <1>4, <1>5, SumTerms
<1>9. ASSUME RSum(term("units")) = Zero
      PROVE  RSum(term("total")) = Zero /\ \A i \in 1..upto : ~Moves(i)
    <2>1. \A i \in 1..upto : ~Moves(i) /\ term("total")[i] = Zero
        BY <1>4, <1>7, <1>9
    <2>2. QED
        BY <1>2, <1>5, <2>1, SumTermsZero
<1>10. QED
    BY <1>1, <1>6, <1>7, <1>8, <1>9

LEMMA CostCommType ==
    ASSUME NEW e, e.inv \in Lots, NEW t \in Transaction, NEW plan \in Plans(t),
           NEW a \in Accounts, NEW c \in Commodities, NEW upto \in 0..Len(t.postings)
    PROVE  CostCommAfter(e, t, plan, a, c, upto) \in Currency
<1> DEFINE buys == BuysOf(t, plan, a, c, upto)
<1>1. e.inv[a][c].costComm \in Currency
    BY LotParts
<1>2. buys \in SUBSET (1..upto) /\ buys \subseteq DOMAIN t.postings /\ upto \in Nat
    BY GivenParts DEF BuysOf
<1>3. CostCommAfter(e, t, plan, a, c, upto) =
        IF buys = {} THEN e.inv[a][c].costComm ELSE plan.ops[Max(buys)][c].costComm
    BY DEF CostCommAfter
<1> HIDE DEF buys
<1>4. ASSUME buys # {}
      PROVE  plan.ops[Max(buys)][c].costComm \in Currency
    <2>1. Max(buys) \in DOMAIN t.postings
        BY <1>2, <1>4, MaxIsIn
    <2>2. plan.ops[Max(buys)][c] \in Operation
        BY <2>1 DEF Plans
    <2>3. QED
        BY <2>2 DEF Operation
<1>5. QED
    BY <1>1, <1>3, <1>4

LEMMA ExplicitPlan ==
    ASSUME NEW t \in Transaction, NEW plan \in Plans(t)
    PROVE  /\ ExplicitOnly(t, plan) \in Plans(t)
           /\ \A i \in DOMAIN t.postings, c \in Commodities :
                ExplicitOnly(t, plan).ops[i][c] = IF i \in Given(t) THEN plan.ops[i][c] ELSE NoOp
<1> DEFINE none == [c \in Commodities |-> NoOp]
           ops == [i \in DOMAIN t.postings |-> IF i \in Given(t) THEN plan.ops[i] ELSE none]
<1>1. NoOp \in Operation
    BY NoOpType
<1>2. plan.ops \in [DOMAIN t.postings -> [Commodities -> Operation]]
    BY DEF Plans
<1>3. none \in [Commodities -> Operation] /\ \A c \in Commodities : none[c] = NoOp
    BY <1>1
<1> HIDE DEF none
<1>4. /\ ops \in [DOMAIN t.postings -> [Commodities -> Operation]]
      /\ \A i \in DOMAIN t.postings : ops[i] = IF i \in Given(t) THEN plan.ops[i] ELSE none
    BY <1>2, <1>3
<1>5. ExplicitOnly(t, plan) = [plan EXCEPT !.ops = ops]
    BY DEF ExplicitOnly, none
<1> HIDE DEF ops
<1>6. ExplicitOnly(t, plan) \in Plans(t) /\ ExplicitOnly(t, plan).ops = ops
    BY <1>4, <1>5 DEF Plans
<1>7. QED
    BY <1>3, <1>4, <1>6

LEMMA AfterBuys ==
    ASSUME NEW e, e.inv \in Lots, NEW t \in Transaction, NEW plan \in Plans(t),
           NEW upto \in 0..Len(t.postings)
    PROVE  /\ InvAfterBuys(e, t, plan, upto) \in Lots
           /\ Sound(e.inv) => Sound(InvAfterBuys(e, t, plan, upto))
<1> DEFINE new == InvAfterBuys(e, t, plan, upto)
           bought(fld, a, c) == Net(t, plan, "buy", fld, a, c, upto)
<1>1. ASSUME NEW a \in Accounts, NEW c \in Commodities
      PROVE  /\ new[a][c] = [units    |-> RAdd(e.inv[a][c].units, bought("units", a, c)),
                             cost     |-> RAdd(e.inv[a][c].cost, bought("total", a, c)),
                             costComm |-> CostCommAfter(e, t, plan, a, c, upto)]
             /\ new[a][c].units = RAdd(e.inv[a][c].units, bought("units", a, c))
             /\ new[a][c].cost = RAdd(e.inv[a][c].cost, bought("total", a, c))
    BY DEF InvAfterBuys
<1>2. new = [a \in Accounts |-> [c \in Commodities |-> new[a][c]]]
    BY DEF InvAfterBuys
<1>3. ASSUME NEW a \in Accounts, NEW c \in Commodities
      PROVE  /\ bought("units", a, c) \in Num /\ RNonNeg(bought("units", a, c))
             /\ bought("total", a, c) \in Num
             /\ bought("units", a, c) = Zero => bought("total", a, c) = Zero
    BY NetUnits
<1> HIDE DEF new, bought
<1>4. ASSUME NEW a \in Accounts, NEW c \in Commodities
      PROVE  new[a][c] \in Position
    <2>1. RAdd(e.inv[a][c].units, bought("units", a, c)) \in Num
        BY <1>3, LotParts, AddNum
    <2>2. RAdd(e.inv[a][c].cost, bought("total", a, c)) \in Num
        BY <1>3, LotParts, AddNum
    <2>3. CostCommAfter(e, t, plan, a, c, upto) \in Currency
        BY CostCommType
    <2>4. \A x \in Num, y \in Num, z \in Currency : [units |-> x, cost |-> y, costComm |-> z] \in Position
        BY DEF Position
    <2>5. QED
        BY <1>1, <2>1, <2>2, <2>3, <2>4
<1>5. new \in Lots
    BY <1>2, <1>4 DEF Lots
<1>6. ASSUME Sound(e.inv), NEW a \in Accounts, NEW c \in Commodities
      PROVE  RNonNeg(new[a][c].units) /\ (new[a][c].units = Zero => new[a][c].cost = Zero)
    <2>1. e.inv[a][c].units \in Num
        BY LotParts
    <2>2. RNonNeg(e.inv[a][c].units) /\ (e.inv[a][c].units = Zero => e.inv[a][c].cost = Zero)
        BY <1>6 DEF Sound
    <2>3. /\ new[a][c].units = RAdd(e.inv[a][c].units, bought("units", a, c))
          /\ new[a][c].cost = RAdd(e.inv[a][c].cost, bought("total", a, c))
        BY <1>1
    <2>4. RNonNeg(new[a][c].units)
        BY <1>3, <2>1, <2>2, <2>3, AddNum
    <2>5. ASSUME new[a][c].units = Zero
          PROVE  new[a][c].cost = Zero
        <3>1. e.inv[a][c].units = Zero /\ bought("units", a, c) = Zero
            BY <1>3, <2>1, <2>2, <2>3, <2>5, AddNum
        <3>2. e.inv[a][c].cost = Zero /\ bought("total", a, c) = Zero
            BY <1>3, <2>2, <3>1
        <3>3. QED
            BY <2>3, <3>2, AddZero
    <2>6. QED
        BY <2>4, <2>5
<1>7. QED
    BY <1>5, <1>6 DEF Sound, new

LEMMA AfterSells ==
    ASSUME NEW e, e.inv \in Lots, NEW t \in Transaction, NEW plan \in Plans(t)
    PROVE  LET new == InvAfterSells(InvAfterBuys(e, t, plan, Len(t.postings)), t, plan)
           IN  /\ new \in Lots
               /\ Sound(e.inv) /\ Oversold(e, t, plan) = {} => Sound(new)
<1> DEFINE n == Len(t.postings)
           mid == InvAfterBuys(e, t, plan, n)
           new == InvAfterSells(mid, t, plan)
           sold(fld, a, c) == Net(t, plan, "sell", fld, a, c, n)
           left(a, c) == RSub(mid[a][c].units, sold("units", a, c))
<1>1. n \in 0..n
    BY GivenParts
<1>2. mid \in Lots /\ (Sound(e.inv) => Sound(mid))
    BY <1>1, AfterBuys
<1>3. ASSUME NEW a \in Accounts, NEW c \in Commodities
      PROVE  /\ sold("units", a, c) \in Num /\ RNonNeg(sold("units", a, c))
             /\ sold("total", a, c) \in Num
             /\ sold("units", a, c) = Zero => sold("total", a, c) = Zero
    BY <1>1, NetUnits
<1>4. ASSUME NEW a \in Accounts, NEW c \in Commodities
      PROVE  new[a][c] = [mid[a][c] EXCEPT
                            !.units = left(a, c),
                            !.cost = IF left(a, c) = Zero /\ sold("units", a, c) # Zero THEN Zero
                                     ELSE RSub(@, sold("total", a, c))]
    BY DEF InvAfterSells
<1>5. new = [a \in Accounts |-> [c \in Commodities |-> new[a][c]]]
    BY DEF InvAfterSells
<1>6. ASSUME NEW a \in Accounts, NEW c \in Commodities, Oversold(e, t, plan) = {}
      PROVE  RPositive(sold("units", a, c)) => RLe(sold("units", a, c), mid[a][c].units)
    <2>1. mid[a][c].units = RAdd(e.inv[a][c].units, Net(t, plan, "buy", "units", a, c, n))
        BY DEF InvAfterBuys
    <2>2. <<a, c>> \notin Oversold(e, t, plan) /\ <<a, c>> \in Accounts \X Commodities
        BY <1>6
    <2>3. QED
        BY <2>1, <2>2 DEF Oversold
<1> HIDE DEF mid, new, sold
<1>7. ASSUME NEW a \in Accounts, NEW c \in Commodities
      PROVE  new[a][c] \in Position
             /\ new[a][c].units = left(a, c)
             /\ new[a][c].cost = IF left(a, c) = Zero /\ sold("units", a, c) # Zero THEN Zero
                                 ELSE RSub(mid[a][c].cost, sold("total", a, c))
    <2>1. mid[a][c] \in Position /\ mid[a][c].units \in Num /\ mid[a][c].cost \in Num
        BY <1>2, LotParts
    <2>2. left(a, c) \in Num /\ RSub(mid[a][c].cost, sold("total", a, c)) \in Num
        BY <1>3, <2>1, SubNum
    <2> HIDE DEF left
    <2> DEFINE y == IF left(a, c) = Zero /\ sold("units", a, c) # Zero THEN Zero
                    ELSE RSub(mid[a][c].cost, sold("total", a, c))
    <2>4. y \in Num
        BY <2>2, ZeroNum
    <2>5. new[a][c] = [mid[a][c] EXCEPT !.units = left(a, c), !.cost = y]
        BY <1>4
    <2> HIDE DEF y
    <2>6. new[a][c] \in Position /\ new[a][c].units = left(a, c) /\ new[a][c].cost = y
        <3>1. PICK pos \in Position, x \in Num :
                pos = mid[a][c] /\ x = left(a, c)
            BY <2>1, <2>2
        <3>2. new[a][c] = [pos EXCEPT !.units = x, !.cost = y]
            BY <2>5, <3>1
        <3>3. new[a][c] \in Position /\ new[a][c].units = x /\ new[a][c].cost = y
            BY <2>4, <3>2 DEF Position
        <3>4. QED
            BY <3>1, <3>3
    <2>7. QED
        BY <2>6 DEF y
<1>8. new \in Lots
    BY <1>5, <1>7 DEF Lots
<1>9. ASSUME Sound(e.inv), Oversold(e, t, plan) = {}, NEW a \in Accounts, NEW c \in Commodities
      PROVE  RNonNeg(new[a][c].units) /\ (new[a][c].units = Zero => new[a][c].cost = Zero)
    <2>1. mid[a][c].units \in Num
        BY <1>2, LotParts
    <2>2. RNonNeg(mid[a][c].units) /\ (mid[a][c].units = Zero => mid[a][c].cost = Zero)
        BY <1>2, <1>9 DEF Sound
    <2>3. RLe(sold("units", a, c), mid[a][c].units)
        <3>1. CASE RPositive(sold("units", a, c))
            BY <1>6, <1>9, <3>1
        <3>2. CASE ~RPositive(sold("units", a, c))
            <4>1. sold("units", a, c) = Zero
                BY <1>3, <3>2, NumParts DEF RPositive, RNonNeg
            <4>2. mid[a][c].units[1] \in Int /\ mid[a][c].units[1] >= 0
                BY <2>1, <2>2, NumParts DEF RNonNeg
            <4>3. QED
                BY <2>1, <4>1, <4>2, NumParts DEF RLe, Zero, RInt
        <3>3. QED
            BY <3>1, <3>2
    <2>4. RNonNeg(new[a][c].units)
        BY <1>3, <1>7, <2>1, <2>3, SubNum
    <2>5. ASSUME new[a][c].units = Zero
          PROVE  new[a][c].cost = Zero
        <3>1. CASE sold("units", a, c) # Zero
            BY <1>7, <2>5, <3>1
        <3>2. CASE sold("units", a, c) = Zero
            <4>1. mid[a][c].units = Zero /\ sold("total", a, c) = Zero
                BY <1>3, <1>7, <2>1, <2>5, <3>2, SubZero
            <4>2. new[a][c].cost = RSub(Zero, Zero)
                BY <1>7, <2>2, <3>2, <4>1
            <4>3. QED
                BY <4>2, SubZero, ZeroNum
        <3>3. QED
            BY <3>1, <3>2
    <2>6. QED
        BY <2>4, <2>5
<1>10. QED
    BY <1>8, <1>9 DEF Sound, new, mid

----------------------------------------------------------------------------
(* What booking a transaction may come to. *)

LEMMA Reported ==
    ASSUME NEW e \in Engine, NEW ds \in SUBSET Diag
    PROVE  /\ Report(e, ds) \in Engine
           /\ Report(e, ds).diags = e.diags \cup ds
           /\ Report(e, ds).inv = e.inv /\ Report(e, ds).bal = e.bal /\ Report(e, ds).txns = e.txns
           /\ Report(e, ds).open = e.open /\ Report(e, ds).close = e.close
           /\ Report(e, ds).pad = e.pad /\ Report(e, ds).tol = e.tol
BY DEF Report, Engine

LEMMA DiagType ==
    ASSUME NEW line \in Nat, NEW what \in Messages,
           NEW on \in Accounts \cup Commodities \cup {NoAccount}
    PROVE  /\ Error(line, what, on) \in Diag /\ Error(line, what, on).line = line
           /\ Warn(line, what, on) \in Diag /\ Warn(line, what, on).line = line
BY DEF Error, Warn, Diag

LEMMA ChecksType ==
    ASSUME NEW e, NEW date, NEW a \in Accounts, NEW line \in Nat
    PROVE  CheckAccount(e, date, a, line) \in SUBSET Diag
<1>1. /\ Warn(line, "account not opened", a) \in Diag
      /\ Error(line, "transaction before open", a) \in Diag
      /\ Error(line, "posting after close", a) \in Diag
    BY DiagType DEF Messages
<1>2. ASSUME NEW d \in CheckAccount(e, date, a, line)
      PROVE  d \in {Warn(line, "account not opened", a), Error(line, "transaction before open", a),
                    Error(line, "posting after close", a)}
    BY DEF CheckAccount
<1>3. QED
    BY <1>1, <1>2

LEMMA ErrorsType ==
    ASSUME NEW e, NEW t \in Transaction, NEW i \in DOMAIN t.postings
    PROVE  PostingErrors(e, t, i) \in SUBSET Diag /\ \A d \in PostingErrors(e, t, i) : d.line = t.line
<1>1. t.line \in Nat /\ t.postings[i].acct \in Accounts
    BY GivenParts DEF Transaction
<1>2. t.postings[i].units.kind = "amount" => t.postings[i].units.comm \in Commodities
    BY GivenParts, PostingParts
<1> DEFINE p == t.postings[i]
           all == {Error(t.line, "multiple residual postings", NoAccount),
                   Error(t.line, "amount missing number", p.acct),
                   Error(t.line, "amount missing commodity", p.acct)}
           some == {Error(t.line, "buy requires explicit cost", p.units.comm),
                    Error(t.line, "sell cost # average", p.units.comm)}
           Good(d) == d \in Diag /\ d.line = t.line
<1>7. \A what \in Messages, on \in Accounts \cup Commodities \cup {NoAccount} : Good(Error(t.line, what, on))
    BY <1>1, DiagType
<1> HIDE DEF Good
<1>3. \A d \in all : Good(d)
    <2>1. p.acct \in Accounts
        BY <1>1
    <2>2. \A what \in Messages : Good(Error(t.line, what, NoAccount)) /\ Good(Error(t.line, what, p.acct))
        BY <1>7, <2>1
    <2>3. {"multiple residual postings", "amount missing number", "amount missing commodity"} \subseteq Messages
        BY DEF Messages
    <2>4. QED
        BY <2>2, <2>3
<1>4. p.units.kind = "amount" => \A d \in some : Good(d)
    <2>1. {"buy requires explicit cost", "sell cost # average"} \subseteq Messages
        BY DEF Messages
    <2>2. QED
        BY <1>2, <1>7, <2>1
<1>5. ASSUME NEW d \in PostingErrors(e, t, i)
      PROVE  d \in all \/ (p.units.kind = "amount" /\ d \in some)
    BY DEF PostingErrors
<1> HIDE DEF all, some
<1>6. QED
    BY <1>3, <1>4, <1>5 DEF Good

(* The diagnostics of a transaction without faulty postings. *)
Checks(e, t) == UNION {CheckAccount(e, t.date, t.postings[i].acct, t.line) : i \in 1..Len(t.postings)}
Checked(e, t) == Report(Report(e, Checks(e, t)), Unbalanced(t, Plan(e, t)))

LEMMA CheckedIs ==
    ASSUME NEW e \in Engine, NEW t \in Transaction
    PROVE  /\ Checked(e, t) \in Engine
           /\ e.diags \cup Checks(e, t) \subseteq Checked(e, t).diags
           /\ Checked(e, t).inv = e.inv /\ Checked(e, t).bal = e.bal /\ Checked(e, t).txns = e.txns
           /\ Checked(e, t).open = e.open /\ Checked(e, t).close = e.close
           /\ Checked(e, t).pad = e.pad /\ Checked(e, t).tol = e.tol
<1>1. t.line \in Nat /\ \A i \in 1..Len(t.postings) : t.postings[i].acct \in Accounts
    BY GivenParts DEF Transaction
<1>2. Checks(e, t) \in SUBSET Diag
    BY <1>1, ChecksType DEF Checks
<1>3. Unbalanced(t, Plan(e, t)) \in SUBSET Diag
    <2>1. Plan(e, t).off \in SUBSET Commodities
        BY PlanType DEF Plans, Engine
    <2>2. QED
        <3>1. \A c \in Plan(e, t).off : Error(t.line, "unbalanced transaction", c) \in Diag
            BY <1>1, <2>1, DiagType DEF Messages
        <3>2. QED
            BY <3>1 DEF Unbalanced
<1> DEFINE r == Report(e, Checks(e, t))
<1>4. /\ r \in Engine /\ r.diags = e.diags \cup Checks(e, t)
      /\ r.inv = e.inv /\ r.bal = e.bal /\ r.txns = e.txns /\ r.open = e.open /\ r.close = e.close
      /\ r.pad = e.pad /\ r.tol = e.tol
    BY <1>2, Reported
<1>5. Checked(e, t) = Report(r, Unbalanced(t, Plan(e, t)))
    BY DEF Checked
<1> HIDE DEF r
<1>6. QED
    BY <1>3, <1>4, <1>5, Reported

(* A transaction is stopped by a faulty posting, or skipped, or stopped    *)
(* between its buys, or booked.                                            *)
Stopped(e, t) ==
    \E ds \in SUBSET Diag : BookTxn(e, t) = Report(e, ds) /\ \E d \in ds : d.line = t.line
Skipped(e, t) == BookTxn(e, t) = SkipOversell(Checked(e, t), t)
Faultless(e, t) == \A i \in DOMAIN t.postings : PostingErrors(e, t, i) = {}
Clashed(e, t) ==
    /\ Faultless(e, t)
    /\ \E k \in 0..Len(t.postings), a \in Accounts :
        BookTxn(e, t) =
            [Report(Checked(e, t), {Error(t.line, "cost commodity mismatch", a)})
                EXCEPT !.inv = InvAfterBuys(Checked(e, t), t, ExplicitOnly(t, Plan(e, t)), k)]
Journaled(e, t) ==
    /\ Faultless(e, t)
    /\ Oversold(Checked(e, t), t, Plan(e, t)) = {}
    /\ \A i \in Given(t) : ~CostCommMismatch(Checked(e, t), t, Plan(e, t), i)
    /\ BookTxn(e, t) =
        [Checked(e, t) EXCEPT
            !.inv  = InvAfterSells(InvAfterBuys(Checked(e, t), t, Plan(e, t), Len(t.postings)), t, Plan(e, t)),
            !.bal  = AddBal(@, Legs(t, Plan(e, t))),
            !.txns = Append(@, [date |-> t.date, line |-> t.line, flag |-> t.flag,
                                legs |-> Legs(t, Plan(e, t))])]

LEMMA Outcomes ==
    ASSUME NEW e \in Engine, NEW t \in Transaction
    PROVE  Stopped(e, t) \/ Skipped(e, t) \/ Clashed(e, t) \/ Journaled(e, t)
<1> DEFINE faulty == {i \in DOMAIN t.postings : PostingErrors(e, t, i) # {}}
           upto(n) == Report(e, UNION {CheckAccount(e, t.date, t.postings[i].acct, t.line) : i \in 1..n})
           plan == Plan(e, t)
           mid == Checked(e, t)
           clashes == {i \in Given(t) : CostCommMismatch(mid, t, plan, i)}
<1>1. BookTxn(e, t) = IF faulty # {}
                      THEN Report(upto(Min(faulty)), PostingErrors(e, t, Min(faulty)))
                      ELSE ApplyPlan(mid, t, plan)
    BY DEF BookTxn, Checked, Checks
<1>2. CASE faulty # {}
    <2>1. Min(faulty) \in faulty
        <3>1. faulty \in SUBSET Nat
            BY GivenParts
        <3> HIDE DEF faulty
        <3>2. QED
            BY <1>2, <3>1, MinIsIn
    <2>2. PICK first \in DOMAIN t.postings : first = Min(faulty) /\ PostingErrors(e, t, first) # {}
        BY <2>1
    <2>3. PostingErrors(e, t, first) \in SUBSET Diag /\ \A d \in PostingErrors(e, t, first) : d.line = t.line
        BY ErrorsType
    <2> DEFINE checks == UNION {CheckAccount(e, t.date, t.postings[i].acct, t.line) : i \in 1..first}
    <2>4. checks \in SUBSET Diag
        <3>1. first \in 1..Len(t.postings) /\ Len(t.postings) \in Nat
            BY GivenParts
        <3>2. \A i \in 1..first : t.postings[i].acct \in Accounts
            BY <3>1, GivenParts
        <3>3. t.line \in Nat
            BY DEF Transaction
        <3>4. QED
            BY <3>2, <3>3, ChecksType
    <2>5. BookTxn(e, t) = Report(Report(e, checks), PostingErrors(e, t, first))
        BY <1>1, <1>2, <2>2
    <2> HIDE DEF checks
    <2>6. BookTxn(e, t) = Report(e, checks \cup PostingErrors(e, t, first))
        <3>1. \A ds, more : Report(Report(e, ds), more) = Report(e, ds \cup more)
            BY DEF Report, Engine
        <3>2. QED
            BY <2>5, <3>1
    <2>7. PICK ds \in SUBSET Diag : ds = checks \cup PostingErrors(e, t, first)
        BY <2>3, <2>4
    <2>8. \E d \in ds : d.line = t.line
        BY <2>2, <2>3, <2>7
    <2>9. QED
        BY <2>6, <2>7, <2>8 DEF Stopped
<1>3. CASE faulty = {} /\ Oversold(mid, t, plan) # {}
    BY <1>1, <1>3 DEF ApplyPlan, Skipped
<1>4. CASE faulty = {} /\ Oversold(mid, t, plan) = {} /\ clashes # {}
    <2>1. Min(clashes) \in clashes
        <3>1. clashes \in SUBSET Nat
            BY GivenParts
        <3> HIDE DEF clashes
        <3>2. QED
            BY <1>4, <3>1, MinIsIn
    <2>2. Min(clashes) \in 1..Len(t.postings) /\ Len(t.postings) \in Nat
        BY <2>1, GivenParts
    <2>3. BookTxn(e, t) =
            [Report(mid, {Error(t.line, "cost commodity mismatch", t.postings[Min(clashes)].acct)})
                EXCEPT !.inv = InvAfterBuys(mid, t, ExplicitOnly(t, plan), Min(clashes) - 1)]
        BY <1>1, <1>4 DEF ApplyPlan
    <2> HIDE DEF clashes
    <2>4. t.postings[Min(clashes)].acct \in Accounts /\ Min(clashes) - 1 \in 0..Len(t.postings)
        BY <2>2, GivenParts
    <2>5. QED
        BY <1>4, <2>3, <2>4 DEF Clashed, Faultless
<1>5. CASE faulty = {} /\ Oversold(mid, t, plan) = {} /\ clashes = {}
    BY <1>1, <1>5 DEF ApplyPlan, Journaled, Faultless
<1>6. QED
    BY <1>2, <1>3, <1>4, <1>5

----------------------------------------------------------------------------
(* Applying a plan: balances and journal. *)

LEMMA LegsType ==
    ASSUME NEW t \in Transaction, NEW plan \in Plans(t)
    PROVE  Legs(t, plan) \in Seq(Leg)
<1>1. Len(t.postings) \in Nat /\ DOMAIN t.postings = 1..Len(t.postings)
    BY GivenParts
<1>2. ASSUME NEW i \in 1..Len(t.postings)
      PROVE  Legs(t, plan)[i] \in Leg
    <2>1. i \in DOMAIN t.postings /\ t.postings[i].acct \in Accounts
        BY <1>1, GivenParts
    <2>2. plan.amts[i] \in [Commodities -> Num] /\ plan.basis[i] \in BasisOf
        BY <2>1 DEF Plans
    <2>3. QED
        BY <2>1, <2>2 DEF Legs, Leg
<1>3. Legs(t, plan) = [i \in 1..Len(t.postings) |-> Legs(t, plan)[i]]
    BY <1>1 DEF Legs
<1>4. QED
    BY <1>1, <1>2, <1>3

(* What the legs of a transaction add to one balance. *)
Added(legs, a, c) ==
    RSum([i \in DOMAIN legs |-> IF legs[i].acct = a THEN legs[i].amts[c] ELSE Zero])

LEMMA AddedNum ==
    ASSUME NEW legs \in Seq(Leg), NEW a, NEW c \in Commodities
    PROVE  Added(legs, a, c) \in Num
<1> DEFINE term == [i \in DOMAIN legs |-> IF legs[i].acct = a THEN legs[i].amts[c] ELSE Zero]
<1>1. Len(legs) \in Nat /\ DOMAIN legs = 1..Len(legs)
    OBVIOUS
<1>2. ASSUME NEW i \in 1..Len(legs)
      PROVE  term[i] \in Num
    <2>1. legs[i] \in Leg
        OBVIOUS
    <2>2. legs[i].amts[c] \in Num
        BY <2>1 DEF Leg
    <2>3. QED
        BY <1>1, <2>2, ZeroNum
<1>3. term = [i \in 1..Len(legs) |-> term[i]]
    BY <1>1
<1>4. Added(legs, a, c) = RSum(term)
    BY DEF Added
<1> HIDE DEF term
<1>5. QED
    BY <1>1, <1>2, <1>3, <1>4, SumTerms

LEMMA AddBalIs ==
    ASSUME NEW bal \in Balances, NEW legs \in Seq(Leg)
    PROVE  /\ AddBal(bal, legs) \in Balances
           /\ \A a \in Accounts, c \in Commodities :
                AddBal(bal, legs)[a][c] = RAdd(bal[a][c], Added(legs, a, c))
<1>1. \A a \in Accounts, c \in Commodities :
        AddBal(bal, legs)[a][c] = RAdd(bal[a][c], Added(legs, a, c))
    BY DEF AddBal, Added
<1>2. \A a \in Accounts, c \in Commodities : AddBal(bal, legs)[a][c] \in Num
    BY <1>1, AddedNum, AddNum DEF Balances
<1>3. AddBal(bal, legs) = [a \in Accounts |-> [c \in Commodities |-> AddBal(bal, legs)[a][c]]]
    BY DEF AddBal
<1>4. QED
    BY <1>1, <1>2, <1>3 DEF Balances

(* Every balance is the sum of what the journal says of it.                *)
Reconciled(bal, txns) ==
    \A a \in Accounts, c \in Commodities :
        bal[a][c] = RSum([i \in DOMAIN txns |-> Added(txns[i].legs, a, c)])

LEMMA PostingReconciles ==
    ASSUME NEW bal \in Balances, NEW txns \in Seq(Entry), NEW entry \in Entry,
           Reconciled(bal, txns)
    PROVE  Reconciled(AddBal(bal, entry.legs), Append(txns, entry))
<1>1. SUFFICES ASSUME NEW a \in Accounts, NEW c \in Commodities
               PROVE  AddBal(bal, entry.legs)[a][c] =
                        RSum([i \in DOMAIN Append(txns, entry) |-> Added(Append(txns, entry)[i].legs, a, c)])
    BY DEF Reconciled
<1> DEFINE new == Append(txns, entry)
           n == Len(txns)
           s == [i \in DOMAIN txns |-> Added(txns[i].legs, a, c)]
           t == [i \in DOMAIN new |-> Added(new[i].legs, a, c)]
<1>2. /\ n \in Nat /\ DOMAIN txns = 1..n /\ DOMAIN new = 1..(n + 1)
      /\ new[n + 1] = entry /\ \A i \in 1..n : new[i] = txns[i]
    OBVIOUS
<1>3. n + 1 \in DOMAIN new /\ 1..n \subseteq DOMAIN new
    BY <1>2
<1>4. t[n + 1] = Added(entry.legs, a, c) /\ \A i \in 1..n : s[i] = t[i]
    BY <1>2, <1>3
<1>5. s = [i \in 1..n |-> s[i]] /\ t = [i \in 1..(n + 1) |-> t[i]]
    BY <1>2
<1>6. bal[a][c] = RSum(s)
    BY DEF Reconciled
<1>7. AddBal(bal, entry.legs)[a][c] = RAdd(bal[a][c], Added(entry.legs, a, c))
    BY AddBalIs DEF Entry
<1> HIDE DEF new, s, t, n
<1>8. Len(s) = n /\ Len(t) = n + 1
    BY <1>2, <1>5, LenIs
<1>9. RSum(t) = RAdd(RSum(s), t[n + 1])
    BY <1>2, <1>4, <1>8, SumLast
<1>10. QED
    BY <1>4, <1>6, <1>7, <1>9 DEF new, t

----------------------------------------------------------------------------
(* Booking one directive. *)

(* What a step of the engine may do to balances and journal: nothing, or   *)
(* post one entry to both.                                                 *)
Posts(e, f) ==
    \/ f.bal = e.bal /\ f.txns = e.txns
    \/ \E entry \in Entry : f.bal = AddBal(e.bal, entry.legs) /\ f.txns = Append(e.txns, entry)

LEMMA BookTxnIs ==
    ASSUME NEW e \in Engine, NEW t \in Transaction
    PROVE  /\ BookTxn(e, t) \in Engine
           /\ e.diags \subseteq BookTxn(e, t).diags
           /\ BookTxn(e, t).tol = e.tol /\ BookTxn(e, t).open = e.open
           /\ BookTxn(e, t).close = e.close /\ BookTxn(e, t).pad = e.pad
           /\ Sound(e.inv) => Sound(BookTxn(e, t).inv)
           /\ Posts(e, BookTxn(e, t))
<1> DEFINE new == BookTxn(e, t)
           mid == Checked(e, t)
           plan == Plan(e, t)
<1>1. /\ t.line \in Nat /\ t.date \in Dates /\ t.date \in Nat
      /\ t.flag \in Flags /\ NoComm = NoAccount
    BY DEF Transaction, NoComm, NoAccount, Dates
<1>2. e.inv \in Lots /\ e.bal \in Balances /\ e.txns \in Seq(Entry)
    BY DEF Engine
<1>3. plan \in Plans(t)
    BY <1>2, PlanType
<1>4. /\ mid \in Engine /\ e.diags \subseteq mid.diags
      /\ mid.inv = e.inv /\ mid.bal = e.bal /\ mid.txns = e.txns /\ mid.tol = e.tol
      /\ mid.open = e.open /\ mid.close = e.close /\ mid.pad = e.pad
    BY CheckedIs
<1> HIDE DEF mid, plan
<1>5. CASE Stopped(e, t)
    BY <1>5, Reported DEF Stopped, Posts
<1>6. CASE Skipped(e, t)
    <2>1. {Warn(t.line, "oversell", NoComm)} \in SUBSET Diag
        <3>1. "oversell" \in Messages
            BY DEF Messages
        <3>2. QED
            BY <1>1, <3>1, DiagType
    <2>2. new = Report(mid, {Warn(t.line, "oversell", NoComm)})
        BY <1>6 DEF Skipped, SkipOversell, mid
    <2> HIDE DEF new
    <2>3. QED
        BY <1>4, <2>1, <2>2, Reported DEF Posts, new
<1>7. CASE Clashed(e, t)
    <2>1. PICK k \in 0..Len(t.postings), a \in Accounts :
            new = [Report(mid, {Error(t.line, "cost commodity mismatch", a)})
                    EXCEPT !.inv = InvAfterBuys(mid, t, ExplicitOnly(t, plan), k)]
        BY <1>7 DEF Clashed, mid, plan
    <2>2. {Error(t.line, "cost commodity mismatch", a)} \in SUBSET Diag
        <3>1. "cost commodity mismatch" \in Messages
            BY DEF Messages
        <3>2. QED
            BY <1>1, <3>1, DiagType, ZenonT(60)
    <2> DEFINE r == Report(mid, {Error(t.line, "cost commodity mismatch", a)})
               inv == InvAfterBuys(mid, t, ExplicitOnly(t, plan), k)
    <2>3. inv \in Lots /\ (Sound(e.inv) => Sound(inv))
        BY <1>2, <1>3, <1>4, ExplicitPlan, AfterBuys
    <2>4. /\ r \in Engine /\ e.diags \subseteq r.diags
          /\ r.bal = e.bal /\ r.txns = e.txns /\ r.tol = e.tol
          /\ r.open = e.open /\ r.close = e.close /\ r.pad = e.pad
        BY <1>4, <2>2, Reported, ZenonT(60)
    <2>5. new = [r EXCEPT !.inv = inv]
        BY <2>1
    <2> HIDE DEF new, r, inv
    <2>6. /\ new \in Engine /\ new.inv = inv /\ new.bal = r.bal /\ new.txns = r.txns
          /\ new.tol = r.tol /\ new.diags = r.diags
          /\ new.open = r.open /\ new.close = r.close /\ new.pad = r.pad
        BY <2>3, <2>4, <2>5 DEF Engine
    <2>7. QED
        BY <2>3, <2>4, <2>6 DEF Posts, new
<1>8. CASE Journaled(e, t)
    <2> DEFINE inv == InvAfterSells(InvAfterBuys(mid, t, plan, Len(t.postings)), t, plan)
               legs == Legs(t, plan)
               entry == [date |-> t.date, line |-> t.line, flag |-> t.flag, legs |-> legs]
               bal == AddBal(e.bal, legs)
               txns == Append(e.txns, entry)
    <2>1. Oversold(mid, t, plan) = {}
        BY <1>8 DEF Journaled, mid, plan
    <2>2. inv \in Lots /\ (Sound(e.inv) => Sound(inv))
        BY <1>2, <1>3, <1>4, <2>1, AfterSells
    <2>3. legs \in Seq(Leg)
        BY <1>3, LegsType
    <2>4. new = [mid EXCEPT !.inv = inv, !.bal = bal, !.txns = txns]
        BY <1>4, <1>8 DEF Journaled, mid, plan
    <2> HIDE DEF inv, legs
    <2>5. entry \in Entry /\ entry.legs = legs
        BY <1>1, <2>3 DEF Entry
    <2>6. bal \in Balances /\ bal = AddBal(e.bal, entry.legs)
        BY <1>2, <2>3, <2>5, AddBalIs
    <2> HIDE DEF entry
    <2>7. txns \in Seq(Entry)
        BY <1>2, <2>5
    <2> HIDE DEF new, bal, txns
    <2>8. /\ new \in Engine /\ new.inv = inv /\ new.bal = bal /\ new.txns = txns
          /\ new.tol = mid.tol /\ new.diags = mid.diags
          /\ new.open = mid.open /\ new.close = mid.close /\ new.pad = mid.pad
        BY <1>4, <2>2, <2>4, <2>6, <2>7 DEF Engine
    <2>9. Posts(e, new)
        BY <2>5, <2>6, <2>8 DEF Posts, txns
    <2>10. QED
        BY <1>4, <2>2, <2>8, <2>9 DEF new
<1>9. QED
    BY <1>5, <1>6, <1>7, <1>8, Outcomes

(* What booking a transaction posts is of its day. *)
PostsOn(e, f, day) ==
    \/ f.bal = e.bal /\ f.txns = e.txns
    \/ \E entry \in Entry : /\ entry.date = day /\ f.bal = AddBal(e.bal, entry.legs)
                            /\ f.txns = Append(e.txns, entry)

LEMMA TxnPostsOn ==
    ASSUME NEW e \in Engine, NEW t \in Transaction
    PROVE  PostsOn(e, BookTxn(e, t), t.date)
<1>1. PICK mid, plan : mid = Checked(e, t) /\ plan = Plan(e, t)
    OBVIOUS
<1>2. mid \in Engine /\ mid.bal = e.bal /\ mid.txns = e.txns
    BY <1>1, CheckedIs
<1>3. PICK f : f = BookTxn(e, t)
    OBVIOUS
<1>4. \A g \in Engine : \A ds : Report(g, ds).bal = g.bal /\ Report(g, ds).txns = g.txns
    BY DEF Report, Engine
<1>5. CASE Stopped(e, t)
    BY <1>3, <1>4, <1>5 DEF Stopped, PostsOn
<1>6. CASE Skipped(e, t)
    BY <1>1, <1>2, <1>3, <1>4, <1>6 DEF Skipped, SkipOversell, PostsOn
<1>7. CASE Clashed(e, t)
    <2>1. PICK r, inv : f = [r EXCEPT !.inv = inv] /\ \E ds : r = Report(mid, ds)
        BY <1>1, <1>3, <1>7 DEF Clashed
    <2>2. f.bal = r.bal /\ f.txns = r.txns
        BY <2>1
    <2>3. QED
        BY <1>2, <1>3, <1>4, <2>1, <2>2 DEF PostsOn
<1>8. CASE Journaled(e, t)
    <2>1. PICK inv, legs :
            /\ inv = InvAfterSells(InvAfterBuys(mid, t, plan, Len(t.postings)), t, plan)
            /\ legs = Legs(t, plan)
        OBVIOUS
    <2>2. PICK entry : entry = [date |-> t.date, line |-> t.line, flag |-> t.flag, legs |-> legs]
        OBVIOUS
    <2>3. f = [mid EXCEPT !.inv = inv, !.bal = AddBal(mid.bal, legs), !.txns = Append(mid.txns, entry)]
        BY <1>1, <1>3, <1>8, <2>1, <2>2 DEF Journaled
    <2>4. f.bal = AddBal(e.bal, legs) /\ f.txns = Append(e.txns, entry)
        BY <1>2, <2>3 DEF Engine
    <2>5. legs \in Seq(Leg)
        <3>1. plan \in Plans(t)
            BY <1>1, PlanType DEF Engine
        <3>2. QED
            BY <2>1, <3>1, LegsType
    <2>6. entry \in Entry /\ entry.legs = legs /\ entry.date = t.date
        BY <2>2, <2>5 DEF Entry, Transaction, Dates
    <2>7. QED
        BY <1>3, <2>4, <2>6 DEF PostsOn
<1>9. QED
    BY <1>5, <1>6, <1>7, <1>8, Outcomes

LEMMA DirectiveParts ==
    ASSUME NEW d, IsDirective(d)
    PROVE  /\ d.date \in Dates /\ d.date \in Nat /\ d.line \in Nat
           /\ d.kind \in {"open", "close", "pad", "balance"} => d.acct \in Accounts
           /\ d.kind = "pad" => d.from \in Accounts
           /\ d.kind = "balance" => d.n \in Num /\ d.comm \in Commodities
           /\ d.kind = "txn" => d \in Transaction
BY DEF IsDirective, Dates

LEMMA PadEntryType ==
    ASSUME NEW pad \in Pad, NEW b, b.acct \in Accounts, b.comm \in Commodities, NEW diff \in Num
    PROVE  PadEntry(pad, b, diff) \in Entry
<1>1. NoBasis \in BasisOf
    BY ZeroNum DEF NoBasis, BasisOf, Currency
<1>2. ASSUME NEW a \in Accounts, NEW n \in Num
      PROVE  PadLeg(a, b.comm, n) \in Leg
    BY <1>1, ZeroNum DEF PadLeg, Leg
<1>3. RNeg(diff) \in Num
    BY NegNum
<1>4. pad.from \in Accounts /\ pad.date \in Dates /\ pad.line \in Nat
    BY DEF Pad
<1>5. PadLeg(b.acct, b.comm, diff) \in Leg /\ PadLeg(pad.from, b.comm, RNeg(diff)) \in Leg
    BY <1>2, <1>3, <1>4
<1>6. <<PadLeg(b.acct, b.comm, diff), PadLeg(pad.from, b.comm, RNeg(diff))>> \in Seq(Leg)
    BY <1>5
<1>7. QED
    BY <1>4, <1>6 DEF PadEntry, Entry, Flags

LEMMA ClearPadIs ==
    ASSUME NEW e \in Engine, NEW a \in Accounts
    PROVE  /\ ClearPad(e, a) \in Engine /\ ClearPad(e, a).pad[a] = NoPad
           /\ ClearPad(e, a).inv = e.inv /\ ClearPad(e, a).bal = e.bal /\ ClearPad(e, a).txns = e.txns
           /\ ClearPad(e, a).open = e.open /\ ClearPad(e, a).close = e.close
           /\ ClearPad(e, a).tol = e.tol /\ ClearPad(e, a).diags = e.diags
BY DEF ClearPad, Engine

LEMMA ApplyPadIs ==
    ASSUME NEW e \in Engine, NEW b, b.acct \in Accounts, b.comm \in Commodities, b.n \in Num,
           b.line \in Nat, e.pad[b.acct] # NoPad
    PROVE  /\ ApplyPad(e, b) \in Engine /\ ApplyPad(e, b).pad[b.acct] = NoPad
           /\ e.diags \subseteq ApplyPad(e, b).diags
           /\ ApplyPad(e, b).inv = e.inv
           /\ ApplyPad(e, b).open = e.open /\ ApplyPad(e, b).close = e.close
           /\ ApplyPad(e, b).tol = e.tol
           /\ \E entry \in Entry : /\ entry.flag = "P" /\ entry.date = e.pad[b.acct].date
                                   /\ ApplyPad(e, b).bal = AddBal(e.bal, entry.legs)
                                   /\ ApplyPad(e, b).txns = Append(e.txns, entry)
<1> DEFINE pad == e.pad[b.acct]
           entry == PadEntry(pad, b, RSub(b.n, e.bal[b.acct][b.comm]))
           checks == CheckAccount(e, b.date, pad.from, b.line)
           r == Report(e, checks)
           bal == AddBal(e.bal, entry.legs)
           txns == Append(e.txns, entry)
           mid == [r EXCEPT !.bal = bal, !.txns = txns]
<1>1. e.bal \in Balances /\ e.txns \in Seq(Entry) /\ pad \in Pad
    BY DEF Engine
<1>2. e.bal[b.acct][b.comm] \in Num
    BY <1>1 DEF Balances
<1>3. entry \in Entry
    BY <1>1, <1>2, SubNum, PadEntryType
<1>4. entry.flag = "P" /\ entry.date = pad.date /\ entry.legs \in Seq(Leg)
    BY <1>3 DEF PadEntry, Entry
<1>5. checks \in SUBSET Diag
    BY <1>1, ChecksType DEF Pad
<1>6. /\ r \in Engine /\ e.diags \subseteq r.diags /\ r.inv = e.inv /\ r.bal = e.bal /\ r.txns = e.txns
      /\ r.open = e.open /\ r.close = e.close /\ r.tol = e.tol
    BY <1>5, Reported
<1>7. ApplyPad(e, b) = ClearPad(mid, b.acct)
    BY <1>6 DEF ApplyPad
<1> HIDE DEF entry, checks, r
<1>8. bal \in Balances /\ txns \in Seq(Entry)
    BY <1>1, <1>3, <1>4, AddBalIs
<1> HIDE DEF bal, txns
<1>9. /\ mid \in Engine /\ mid.bal = bal /\ mid.txns = txns /\ mid.diags = r.diags /\ mid.inv = r.inv
      /\ mid.open = r.open /\ mid.close = r.close /\ mid.tol = r.tol
    BY <1>6, <1>8 DEF Engine
<1> HIDE DEF mid
<1>10. /\ ApplyPad(e, b) \in Engine /\ ApplyPad(e, b).pad[b.acct] = NoPad
       /\ ApplyPad(e, b).inv = mid.inv /\ ApplyPad(e, b).bal = mid.bal /\ ApplyPad(e, b).txns = mid.txns
       /\ ApplyPad(e, b).open = mid.open /\ ApplyPad(e, b).close = mid.close
       /\ ApplyPad(e, b).tol = mid.tol /\ ApplyPad(e, b).diags = mid.diags
    BY <1>7, <1>9, ClearPadIs
<1>11. QED
    BY <1>3, <1>4, <1>6, <1>9, <1>10 DEF bal, txns

(* What an assertion leaves behind. *)
LEMMA BookBalanceIs ==
    ASSUME NEW e \in Engine, NEW b, IsDirective(b), b.kind = "balance", NEW f, f = BookBalance(e, b)
    PROVE  /\ f \in Engine /\ e.diags \subseteq f.diags /\ f.inv = e.inv /\ f.tol = e.tol
           /\ f.open = e.open /\ f.close = e.close
           /\ \/ f.bal = e.bal /\ f.txns = e.txns
              \/ /\ ~AssertionHolds(e, b) /\ e.pad[b.acct] # NoPad
                 /\ \E entry \in Entry :
                        /\ entry.flag = "P" /\ entry.date = e.pad[b.acct].date
                        /\ f.bal = AddBal(e.bal, entry.legs) /\ f.txns = Append(e.txns, entry)
           /\ f.pad[b.acct] = NoPad
           /\ \/ RWithin(b.n, f.bal[b.acct][b.comm], f.tol[b.comm])
              \/ \E d \in f.diags : d.line = b.line /\ d.sev = "error"
<1>1. b.acct \in Accounts /\ b.n \in Num /\ b.comm \in Commodities /\ b.line \in Nat
    BY DirectiveParts
<1> DEFINE padded == IF e.pad[b.acct] = NoPad THEN e ELSE ApplyPad(e, b)
           failure == {Error(b.line, "balance failed", b.acct)}
<1>2. CASE AssertionHolds(e, b)
    <2>1. f = ClearPad(e, b.acct)
        BY <1>2 DEF BookBalance
    <2>2. QED
        BY <1>1, <1>2, <2>1, ClearPadIs DEF AssertionHolds
<1>3. CASE ~AssertionHolds(e, b)
    <2>1. /\ padded \in Engine /\ e.diags \subseteq padded.diags /\ padded.inv = e.inv
          /\ padded.tol = e.tol /\ padded.open = e.open /\ padded.close = e.close
          /\ padded.pad[b.acct] = NoPad
          /\ \/ padded.bal = e.bal /\ padded.txns = e.txns
             \/ /\ e.pad[b.acct] # NoPad
                /\ \E entry \in Entry :
                        /\ entry.flag = "P" /\ entry.date = e.pad[b.acct].date
                        /\ padded.bal = AddBal(e.bal, entry.legs)
                        /\ padded.txns = Append(e.txns, entry)
        BY <1>1, ApplyPadIs
    <2>2. failure \in SUBSET Diag
        <3>1. "balance failed" \in Messages
            BY DEF Messages
        <3>2. QED
            BY <1>1, <3>1, DiagType, ZenonT(40)
    <2>3. f = IF AssertionHolds(padded, b) THEN padded ELSE Report(padded, failure)
        BY <1>3 DEF BookBalance
    <2>4. \E d \in failure : d.line = b.line /\ d.sev = "error"
        BY DEF Error
    <2> HIDE DEF padded, failure
    <2>5. CASE AssertionHolds(padded, b)
        BY <1>3, <2>1, <2>3, <2>5 DEF AssertionHolds
    <2>6. CASE ~AssertionHolds(padded, b)
        BY <1>3, <2>1, <2>2, <2>3, <2>4, <2>6, Reported
    <2>7. QED
        BY <2>5, <2>6
<1>4. QED
    BY <1>2, <1>3

LEMMA LifecycleIs ==
    ASSUME NEW e \in Engine, NEW d, IsDirective(d), NEW f, f = BookDirective(e, d),
           d.kind \notin {"txn", "balance"}
    PROVE  /\ f \in Engine /\ e.diags \subseteq f.diags /\ f.tol = e.tol
           /\ f.inv = e.inv /\ f.bal = e.bal /\ f.txns = e.txns
           /\ \A a \in Accounts : f.close[a] = e.close[a] \/ f.close[a] = d.date
           /\ \A a \in Accounts : f.open[a] = e.open[a] \/ e.open[a] = NoDate
<1>1. PICK date \in Dates, line \in Nat : date = d.date /\ line = d.line
    BY DirectiveParts
<1>. date \in Nat
    BY DEF Dates
<1>2. CASE d.kind = "open"
    <2>1. PICK acct \in Accounts : acct = d.acct
        BY <1>2, DirectiveParts
    <2>2. {Error(line, "duplicate open", acct)} \in SUBSET Diag
        <3>1. "duplicate open" \in Messages
            BY DEF Messages
        <3>2. Error(line, "duplicate open", acct) \in Diag
            BY <3>1, DiagType
        <3>3. QED
            BY <3>2
    <2>3. f = IF e.open[acct] # NoDate THEN Report(e, {Error(line, "duplicate open", acct)})
              ELSE [e EXCEPT !.open[acct] = date]
        BY <1>1, <1>2, <2>1 DEF BookDirective, BookOpen
    <2>4. CASE e.open[acct] # NoDate
        <3> DEFINE ds == {Error(line, "duplicate open", acct)}
        <3>1. ds \in SUBSET Diag /\ f = Report(e, ds)
            BY <2>2, <2>3, <2>4
        <3> HIDE DEF ds
        <3>2. QED
            BY <3>1, Reported
    <2>5. CASE e.open[acct] = NoDate
        <3> DEFINE open == [e.open EXCEPT ![acct] = date]
        <3>1. e.open \in [Accounts -> Nat]
            BY DEF Engine
        <3>2. /\ open \in [Accounts -> Nat]
              /\ \A a \in Accounts : open[a] = IF a = acct THEN date ELSE e.open[a]
            BY <3>1
        <3>3. f = [e EXCEPT !.open = open]
            BY <2>3, <2>5
        <3> HIDE DEF open
        <3>4. f \in Engine /\ f.open = open /\ f.close = e.close /\ f.diags = e.diags
              /\ f.tol = e.tol /\ f.inv = e.inv /\ f.bal = e.bal /\ f.txns = e.txns
            BY <3>2, <3>3 DEF Engine
        <3>5. QED
            BY <2>5, <3>2, <3>4
    <2>6. QED
        BY <2>4, <2>5
<1>3. CASE d.kind = "close"
    <2>1. PICK acct \in Accounts : acct = d.acct
        BY <1>3, DirectiveParts
    <2> DEFINE close == [e.close EXCEPT ![acct] = date]
    <2>2. e.close \in [Accounts -> Nat]
        BY DEF Engine
    <2>3. /\ close \in [Accounts -> Nat]
          /\ \A a \in Accounts : close[a] = IF a = acct THEN date ELSE e.close[a]
        BY <2>2
    <2>4. f = [e EXCEPT !.close = close]
        BY <1>1, <1>3, <2>1 DEF BookDirective, BookClose
    <2> HIDE DEF close
    <2>5. f \in Engine /\ f.close = close /\ f.open = e.open /\ f.diags = e.diags
          /\ f.tol = e.tol /\ f.inv = e.inv /\ f.bal = e.bal /\ f.txns = e.txns
        BY <2>3, <2>4 DEF Engine
    <2>6. QED
        BY <1>1, <2>3, <2>5
<1>4. CASE d.kind = "pad"
    <2>1. PICK acct \in Accounts, from \in Accounts : acct = d.acct /\ from = d.from
        BY <1>4, DirectiveParts
    <2>2. PICK pad \in Pad : pad = [from |-> from, date |-> date, line |-> line]
        BY DEF Pad
    <2> DEFINE pads == [e.pad EXCEPT ![acct] = pad]
    <2>3. pads \in [Accounts -> Pad \cup {NoPad}]
        BY DEF Engine
    <2>4. f = [e EXCEPT !.pad = pads]
        BY <1>1, <1>4, <2>1, <2>2 DEF BookDirective, BookPad
    <2> HIDE DEF pads
    <2>5. QED
        BY <2>3, <2>4 DEF Engine
<1>5. CASE d.kind = "note"
    <2>1. f = [e EXCEPT !.notes = @ \cup {line}]
        BY <1>1, <1>5 DEF BookDirective
    <2>2. QED
        BY <2>1, ZenonT(60) DEF Engine
<1>6. CASE d.kind = "event"
    <2>1. f = [e EXCEPT !.events = @ \cup {line}]
        BY <1>1, <1>6 DEF BookDirective
    <2>2. QED
        BY <2>1, ZenonT(60) DEF Engine
<1>7. CASE d.kind \notin {"open", "close", "pad", "note", "event"}
    BY <1>7 DEF BookDirective
<1>8. QED
    BY <1>2, <1>3, <1>4, <1>5, <1>6, <1>7

(* Booking any directive keeps the engine's type, its lots sound and its   *)
(* diagnostics, and posts to balances and journal alike.                   *)
LEMMA BookDirectiveIs ==
    ASSUME NEW e \in Engine, NEW d, IsDirective(d), NEW f, f = BookDirective(e, d)
    PROVE  /\ f \in Engine /\ e.diags \subseteq f.diags /\ f.tol = e.tol
           /\ Sound(e.inv) => Sound(f.inv)
           /\ Posts(e, f)
<1>1. CASE d.kind \notin {"txn", "balance"}
    BY <1>1, LifecycleIs DEF Posts
<1>2. CASE d.kind = "txn"
    <2>1. d \in Transaction /\ f = BookTxn(e, d)
        BY <1>2, DirectiveParts DEF BookDirective
    <2>2. QED
        BY <2>1, BookTxnIs
<1>3. CASE d.kind = "balance"
    <2>1. f = BookBalance(e, d)
        BY <1>3 DEF BookDirective
    <2>2. QED
        BY <1>3, <2>1, BookBalanceIs DEF Posts
<1>4. QED
    BY <1>1, <1>2, <1>3

(* An engine before anything is booked. *)
LEMMA NewEngine ==
    ASSUME NEW tolerance \in [Commodities -> Num]
    PROVE  /\ New(tolerance) \in Engine /\ New(tolerance).tol = tolerance
           /\ Sound(New(tolerance).inv)
           /\ Reconciled(New(tolerance).bal, New(tolerance).txns)
           /\ New(tolerance).txns = << >>
<1> DEFINE e == New(tolerance)
<1>1. NoPosition \in Position /\ NoPosition.units = Zero /\ NoPosition.cost = Zero
    BY ZeroNum DEF NoPosition, Position, Currency
<1>2. e.inv \in Lots /\ Sound(e.inv)
    BY <1>1 DEF New, Lots, Sound, RNonNeg, Zero, RInt
<1>3. e.bal \in Balances /\ \A a \in Accounts, c \in Commodities : e.bal[a][c] = Zero
    BY ZeroNum DEF New, Balances
<1>4. e.txns = << >> /\ e.txns \in Seq(Entry)
    BY DEF New
<1>5. Reconciled(e.bal, e.txns)
    <2>1. ASSUME NEW a \in Accounts, NEW c \in Commodities
          PROVE  RSum([i \in DOMAIN e.txns |-> Added(e.txns[i].legs, a, c)]) = Zero
        <3> DEFINE s == [i \in DOMAIN e.txns |-> Added(e.txns[i].legs, a, c)]
        <3>1. s = [i \in 1..0 |-> s[i]]
            BY <1>4
        <3> HIDE DEF s
        <3>2. Len(s) = 0
            BY <3>1, LenIs
        <3>3. QED
            BY <3>2, SumEmpty DEF s
    <2>2. QED
        BY <1>3, <2>1 DEF Reconciled
<1>6. e \in Engine
    <2>1. [a \in Accounts |-> NoPad] \in [Accounts -> Pad \cup {NoPad}]
        OBVIOUS
    <2>2. [a \in Accounts |-> NoDate] \in [Accounts -> Nat]
        BY DEF NoDate
    <2>3. QED
        BY <1>2, <1>3, <1>4, <2>1, <2>2 DEF New, Engine
<1>7. QED
    BY <1>2, <1>4, <1>5, <1>6 DEF New

=============================================================================
