----------------------------- MODULE Rationals -----------------------------
(***************************************************************************)
(* Exact rational numbers, the arithmetic of Go's math/big.Rat that the    *)
(* booking engine uses for every amount, cost and tolerance.  A rational   *)
(* is a pair <<numerator, denominator>> in lowest terms with a positive    *)
(* denominator, so equal numbers are equal values.                         *)
(***************************************************************************)
EXTENDS Integers, Sequences

Rat == Int \X (Nat \ {0})

(* n/d in lowest terms, for d > 0. *)
Reduce(n, d) ==
    LET den == CHOOSE q \in 1..d : /\ (n * q) % d = 0
                                   /\ \A r \in 1..(q - 1) : (n * r) % d # 0
    IN  <<(n * den) \div d, den>>

RInt(n) == <<n, 1>>
Zero    == RInt(0)

(* The rationals in lowest terms. *)
Num == {r \in Rat : Reduce(r[1], r[2]) = r}

RNeg(a)    == <<-a[1], a[2]>>
RAdd(a, b) == Reduce(a[1] * b[2] + b[1] * a[2], a[2] * b[2])
RSub(a, b) == RAdd(a, RNeg(b))
RMul(a, b) == Reduce(a[1] * b[1], a[2] * b[2])

(* a / b for b # 0. *)
RDiv(a, b) == IF b[1] > 0 THEN Reduce(a[1] * b[2], a[2] * b[1])
                          ELSE Reduce(-(a[1] * b[2]), -(a[2] * b[1]))

RLe(a, b)    == a[1] * b[2] <= b[1] * a[2]
RPositive(a) == a[1] > 0
RNegative(a) == a[1] < 0
RNonNeg(a)   == a[1] >= 0
RAbs(a)      == IF RNegative(a) THEN RNeg(a) ELSE a

(* |a - b| <= tol: the test every tolerance check in the engine makes. *)
RWithin(a, b, tol) == RLe(RAbs(RSub(a, b)), tol)

(* The running sums of a sequence of rationals, and its total. *)
RSums(s) ==
    LET sum[i \in 0..Len(s)] == IF i = 0 THEN Zero ELSE RAdd(sum[i - 1], s[i])
    IN  sum
RSum(s) == RSums(s)[Len(s)]
=============================================================================
