---------------------------- MODULE BlocksProofs ----------------------------
(***************************************************************************)
(* Proofs about the text operators of ingest: for every journal without    *)
(* errors and every stream, what Apply does with spans of lines is what    *)
(* Upsert says of blocks.                                                  *)
(***************************************************************************)
EXTENDS Ingest, TLAPS, SequenceTheorems, WellFoundedInduction, FiniteSetTheorems

----------------------------------------------------------------------------
(* Sequences, element by element *)

(* A sequence, of whatever values. *)
IsSeq(s) == s \in Seq(ToSet(s))

(* A set of numbers has a least one. *)
LEMMA LeastNat ==
    ASSUME NEW S \in SUBSET Nat, S # {}
    PROVE  \E n \in S : \A m \in S : n <= m
<1>1. PICK n \in S : \A m \in S : ~(<<m, n>> \in OpToRel(<, Nat))
    BY NatLessThanWellFounded, WFMin
<1>2. ASSUME NEW m \in S
      PROVE  n <= m
    <2>1. ~(m < n)
        BY <1>1 DEF OpToRel
    <2>2. m \in Nat /\ n \in Nat
        OBVIOUS
    <2>3. QED
        BY <2>1, <2>2
<1>3. QED
    BY <1>2

(* Induction on the numbers, on a set. *)
LEMMA SetInduction ==
    ASSUME NEW S, 0 \in S, \A n \in Nat : n \in S => n + 1 \in S
    PROVE  Nat \subseteq S
<1>1. SUFFICES ASSUME Nat \ S # {} PROVE FALSE
    OBVIOUS
<1>2. PICK n \in Nat \ S : \A m \in Nat \ S : n <= m
    BY <1>1, LeastNat
<1>3. n - 1 \in Nat /\ n - 1 \in S
    BY <1>2
<1>4. QED
    BY <1>3

(* What sequences of anything have in common, element by element. *)
LEMMA IsSeqOf ==
    ASSUME NEW S, NEW s \in Seq(S)
    PROVE  IsSeq(s)
<1>1. Len(s) \in Nat /\ s \in [1..Len(s) -> S]
    BY LenProperties
<1>2. s \in [1..Len(s) -> ToSet(s)]
    BY <1>1 DEF ToSet
<1>3. QED
    BY <1>1, <1>2, SeqDef DEF IsSeq

LEMMA SeqFacts ==
    ASSUME NEW s, IsSeq(s)
    PROVE  /\ Len(s) \in Nat
           /\ DOMAIN s = 1..Len(s)
           /\ s = [i \in 1..Len(s) |-> s[i]]
<1>1. Len(s) \in Nat /\ s \in [1..Len(s) -> ToSet(s)] /\ DOMAIN s = 1..Len(s)
    BY LenProperties DEF IsSeq
<1>2. QED
    BY <1>1

LEMMA SameSeq ==
    ASSUME NEW s, NEW t, IsSeq(s), IsSeq(t), Len(s) = Len(t),
           \A i \in 1..Len(s) : s[i] = t[i]
    PROVE  s = t
<1>1. /\ s = [i \in 1..Len(s) |-> s[i]]
      /\ t = [i \in 1..Len(t) |-> t[i]]
    BY SeqFacts
<1>2. QED
    BY <1>1

LEMMA FcnIsSeq ==
    ASSUME NEW n \in Nat, NEW f, f = [i \in 1..n |-> f[i]]
    PROVE  IsSeq(f) /\ Len(f) = n /\ DOMAIN f = 1..n
<1>1. f \in [1..n -> ToSet(f)] /\ DOMAIN f = 1..n
    BY DEF ToSet
<1>2. f \in Seq(ToSet(f))
    BY <1>1, SeqDef
<1>3. Len(f) = n
    BY <1>1, <1>2, LenProperties
<1>4. QED
    BY <1>1, <1>2, <1>3 DEF IsSeq

(* What the operators on sequences make of them. *)
LEMMA Cat ==
    ASSUME NEW s, NEW t, IsSeq(s), IsSeq(t)
    PROVE  /\ IsSeq(s \o t) /\ Len(s \o t) = Len(s) + Len(t)
           /\ \A i \in 1..Len(s) : (s \o t)[i] = s[i]
           /\ \A i \in 1..Len(t) : (s \o t)[Len(s) + i] = t[i]
           /\ \A i \in Len(s) + 1..Len(s) + Len(t) : (s \o t)[i] = t[i - Len(s)]
<1> DEFINE S == ToSet(s) \cup ToSet(t)
<1>1. s \in Seq(S) /\ t \in Seq(S)
    BY SeqMonotonic DEF IsSeq
<1> HIDE DEF S
<1>2. Len(s) \in Nat /\ Len(t) \in Nat
    BY SeqFacts
<1>3. /\ s \o t \in Seq(S)
      /\ Len(s \o t) = Len(s) + Len(t)
      /\ \A i \in 1..Len(s) + Len(t) : (s \o t)[i] = IF i <= Len(s) THEN s[i] ELSE t[i - Len(s)]
    BY <1>1, ConcatProperties
<1>4. IsSeq(s \o t)
    BY <1>3, IsSeqOf
<1>5. QED
    BY <1>2, <1>3, <1>4

LEMMA Single ==
    ASSUME NEW x
    PROVE  IsSeq(<<x>>) /\ Len(<<x>>) = 1 /\ <<x>>[1] = x
<1>1. <<x>> \in Seq({x})
    OBVIOUS
<1>2. QED
    BY <1>1, IsSeqOf

LEMMA NoneIs == IsSeq(<< >>) /\ Len(<< >>) = 0
<1>1. << >> \in Seq({})
    OBVIOUS
<1>2. QED
    BY <1>1, IsSeqOf

LEMMA Part ==
    ASSUME NEW s, IsSeq(s), NEW m \in Nat \ {0}, NEW n \in Nat, n <= Len(s), m <= n + 1
    PROVE  /\ IsSeq(SubSeq(s, m, n)) /\ Len(SubSeq(s, m, n)) = n + 1 - m
           /\ \A i \in 1..n + 1 - m : SubSeq(s, m, n)[i] = s[m + i - 1]
<1>1. s \in Seq(ToSet(s)) /\ Len(s) \in Nat
    BY SeqFacts DEF IsSeq
<1>2. \A i \in m..n : s[i] \in ToSet(s)
    BY <1>1, ElementOfSeq
<1>3. /\ SubSeq(s, m, n) \in Seq(ToSet(s))
      /\ Len(SubSeq(s, m, n)) = IF m <= n THEN n - m + 1 ELSE 0
      /\ \A i \in 1..n - m + 1 : SubSeq(s, m, n)[i] = s[m + i - 1]
    BY <1>2, SubSeqProperties
<1>4. IsSeq(SubSeq(s, m, n))
    BY <1>3, IsSeqOf
<1>5. n - m + 1 = n + 1 - m
    OBVIOUS
<1>6. QED
    BY <1>3, <1>4, <1>5

LEMMA Added1 ==
    ASSUME NEW s, NEW x, IsSeq(s)
    PROVE  /\ IsSeq(Append(s, x)) /\ Len(Append(s, x)) = Len(s) + 1
           /\ \A i \in 1..Len(s) : Append(s, x)[i] = s[i]
           /\ Append(s, x)[Len(s) + 1] = x
           /\ Append(s, x) = s \o <<x>>
<1> DEFINE S == ToSet(s) \cup {x}
<1>1. s \in Seq(S) /\ x \in S
    BY SeqMonotonic DEF IsSeq
<1> HIDE DEF S
<1>2. QED
    BY <1>1, AppendProperties, AppendIsConcat, IsSeqOf, ZenonT(40)

(* The function that Places defines by recursion, up to n. *)
IsUpTo(f, holds, n) ==
    f = [i \in 0..n |-> IF i = 0 THEN << >>
                        ELSE IF holds[i] THEN Append(f[i - 1], i) ELSE f[i - 1]]

(* p lists the places up to m, each once and in order. *)
Lists(p, holds, m) ==
    /\ IsSeq(p)
    /\ \A n \in 1..Len(p) : p[n] \in 1..m /\ holds[p[n]]
    /\ \A k, n \in 1..Len(p) : k < n => p[k] < p[n]
    /\ \A i \in 1..m : holds[i] => \E n \in 1..Len(p) : p[n] = i

(* There is such a function. *)
LEMMA UpToExists ==
    ASSUME NEW holds, NEW n \in Nat
    PROVE  \E f : IsUpTo(f, holds, n)
<1> DEFINE S == {m \in Nat : \E f : IsUpTo(f, holds, m)}
<1>1. 0 \in S
    <2>1. IsUpTo([i \in 0..0 |-> << >>], holds, 0)
        BY DEF IsUpTo
    <2>2. QED
        BY <2>1
<1>2. ASSUME NEW m \in Nat, m \in S
      PROVE  m + 1 \in S
    <2>1. PICK f : IsUpTo(f, holds, m)
        BY <1>2
    <2> DEFINE last == IF holds[m + 1] THEN Append(f[m], m + 1) ELSE f[m]
               g == [i \in 0..(m + 1) |-> IF i = m + 1 THEN last ELSE f[i]]
    <2>2. ASSUME NEW i \in 0..(m + 1)
          PROVE  g[i] = IF i = 0 THEN << >>
                        ELSE IF holds[i] THEN Append(g[i - 1], i) ELSE g[i - 1]
        <3>1. CASE i = m + 1
            BY <3>1
        <3>2. CASE i \in 0..m
            <4>1. g[i] = f[i] /\ (i # 0 => g[i - 1] = f[i - 1])
                BY <3>2
            <4>2. f[i] = IF i = 0 THEN << >>
                         ELSE IF holds[i] THEN Append(f[i - 1], i) ELSE f[i - 1]
                BY <2>1, <3>2 DEF IsUpTo
            <4> HIDE DEF g
            <4>3. QED
                BY <4>1, <4>2
        <3>3. QED
            BY <3>1, <3>2
    <2>3. g = [i \in 0..(m + 1) |-> IF i = 0 THEN << >>
                        ELSE IF holds[i] THEN Append(g[i - 1], i) ELSE g[i - 1]]
        BY <2>2
    <2>4. IsUpTo(g, holds, m + 1)
        BY <2>3 DEF IsUpTo
    <2> HIDE DEF g
    <2>5. QED
        BY <2>4
<1> HIDE DEF S
<1>3. Nat \subseteq S
    BY <1>1, <1>2, SetInduction
<1>4. QED
    BY <1>3 DEF S

(* One more place. *)
LEMMA ListsMore ==
    ASSUME NEW p, NEW holds, NEW m \in Nat, Lists(p, holds, m)
    PROVE  Lists(IF holds[m + 1] THEN Append(p, m + 1) ELSE p, holds, m + 1)
<1>1. /\ IsSeq(p) /\ Len(p) \in Nat
      /\ \A n \in 1..Len(p) : p[n] \in 1..m /\ holds[p[n]]
      /\ \A k, n \in 1..Len(p) : k < n => p[k] < p[n]
      /\ \A i \in 1..m : holds[i] => \E n \in 1..Len(p) : p[n] = i
    BY SeqFacts DEF Lists
<1>2. CASE holds[m + 1]
    <2> DEFINE q == Append(p, m + 1)
    <2>1. /\ IsSeq(q) /\ Len(q) = Len(p) + 1
          /\ \A i \in 1..Len(p) : q[i] = p[i]
          /\ q[Len(p) + 1] = m + 1
        <3> HIDE DEF q
        <3>1. PICK x : x = m + 1
            OBVIOUS
        <3>2. q = Append(p, x)
            BY <3>1 DEF q
        <3>3. /\ IsSeq(Append(p, x)) /\ Len(Append(p, x)) = Len(p) + 1
              /\ \A i \in 1..Len(p) : Append(p, x)[i] = p[i]
              /\ Append(p, x)[Len(p) + 1] = x
            <4>1. IsSeq(p)
                BY <1>1
            <4>2. QED
                BY <4>1, Added1
        <3>4. QED
            BY <3>1, <3>2, <3>3
    <2> HIDE DEF q
    <2>2. \A n \in 1..Len(q) : q[n] \in 1..(m + 1) /\ holds[q[n]]
        <3>1. TAKE n \in 1..Len(q)
        <3>2. CASE n \in 1..Len(p)
            <4>1. q[n] = p[n] /\ p[n] \in 1..m /\ holds[p[n]]
                BY <1>1, <2>1, <3>2
            <4>2. QED
                BY <4>1
        <3>3. CASE n = Len(p) + 1
            BY <1>2, <2>1, <3>3
        <3>4. QED
            BY <1>1, <2>1, <3>2, <3>3
    <2>3. \A k, n \in 1..Len(q) : k < n => q[k] < q[n]
        <3>1. TAKE k, n \in 1..Len(q)
        <3>2. HAVE k < n
        <3>3. k \in 1..Len(p) /\ q[k] = p[k] /\ p[k] \in 1..m
            BY <1>1, <2>1, <3>2
        <3>4. CASE n \in 1..Len(p)
            <4>1. p[k] < p[n] /\ q[n] = p[n]
                BY <1>1, <2>1, <3>2, <3>3, <3>4
            <4>2. QED
                BY <3>3, <4>1
        <3>5. CASE n = Len(p) + 1
            BY <2>1, <3>3, <3>5
        <3>6. QED
            BY <1>1, <2>1, <3>4, <3>5
    <2>4. \A i \in 1..(m + 1) : holds[i] => \E n \in 1..Len(q) : q[n] = i
        <3>1. TAKE i \in 1..(m + 1)
        <3>2. HAVE holds[i]
        <3>3. CASE i \in 1..m
            <4>1. PICK n \in 1..Len(p) : p[n] = i
                BY <1>1, <3>2, <3>3
            <4>2. n \in 1..Len(q) /\ q[n] = i
                BY <1>1, <2>1, <4>1
            <4>3. QED
                BY <4>2
        <3>4. CASE i = m + 1
            <4>1. Len(p) + 1 \in 1..Len(q)
                BY <1>1, <2>1
            <4>2. QED
                BY <2>1, <3>4, <4>1
        <3>5. QED
            BY <3>3, <3>4
    <2>5. Lists(q, holds, m + 1)
        BY <2>1, <2>2, <2>3, <2>4 DEF Lists
    <2>6. QED
        BY <1>2, <2>5 DEF q
<1>3. CASE ~holds[m + 1]
    <2>1. \A n \in 1..Len(p) : p[n] \in 1..(m + 1) /\ holds[p[n]]
        BY <1>1
    <2>2. \A i \in 1..(m + 1) : holds[i] => \E n \in 1..Len(p) : p[n] = i
        <3>1. TAKE i \in 1..(m + 1)
        <3>2. HAVE holds[i]
        <3>3. i \in 1..m
            BY <1>3, <3>2
        <3>4. QED
            BY <1>1, <3>2, <3>3
    <2>3. Lists(p, holds, m + 1)
        BY <1>1, <2>1, <2>2 DEF Lists
    <2>4. QED
        BY <1>3, <2>3
<1>4. QED
    BY <1>2, <1>3

(* Places lists the places. *)
LEMMA PlacesList ==
    ASSUME NEW holds, Len(holds) \in Nat
    PROVE  Lists(Places(holds), holds, Len(holds))
<1> DEFINE n == Len(holds)
           f == CHOOSE g : g = [i \in 0..n |-> IF i = 0 THEN << >>
                               ELSE IF holds[i] THEN Append(g[i - 1], i) ELSE g[i - 1]]
<1>1. IsUpTo(f, holds, n)
    BY UpToExists DEF IsUpTo
<1>2. Places(holds) = f[n]
    BY DEF Places
<1> HIDE DEF f
<1>3. /\ f[0] = << >>
      /\ \A i \in 1..n : f[i] = IF holds[i] THEN Append(f[i - 1], i) ELSE f[i - 1]
    <2> HIDE DEF n
    <2>1. n \in Nat
        BY DEF n
    <2>2. f = [i \in 0..n |-> IF i = 0 THEN << >>
                        ELSE IF holds[i] THEN Append(f[i - 1], i) ELSE f[i - 1]]
        BY <1>1 DEF IsUpTo
    <2> HIDE DEF f
    <2>3. f[0] = << >>
        BY <2>1, <2>2
    <2>4. ASSUME NEW i \in 1..n
          PROVE  f[i] = IF holds[i] THEN Append(f[i - 1], i) ELSE f[i - 1]
        <3>1. i \in 0..n /\ i # 0
            BY <2>1
        <3>2. QED
            BY <2>2, <3>1
    <2>5. QED
        BY <2>3, <2>4
<1> HIDE DEF n
<1> DEFINE S == {m \in Nat : m <= n => Lists(f[m], holds, m)}
<1>4. 0 \in S
    BY <1>3, NoneIs DEF Lists
<1>5. ASSUME NEW m \in Nat, m \in S
      PROVE  m + 1 \in S
    <2>1. SUFFICES ASSUME m + 1 <= n PROVE Lists(f[m + 1], holds, m + 1)
        OBVIOUS
    <2>2. n \in Nat /\ m + 1 \in 1..n /\ m + 1 - 1 = m /\ m <= n
        BY <2>1 DEF n
    <2>3. Lists(f[m], holds, m)
        BY <1>5, <2>2
    <2>4. f[m + 1] = IF holds[m + 1] THEN Append(f[m], m + 1) ELSE f[m]
        BY <1>3, <2>2
    <2>5. QED
        BY <2>3, <2>4, ListsMore
<1> HIDE DEF S
<1>6. Nat \subseteq S
    BY <1>4, <1>5, SetInduction
<1>7. n \in S
    BY <1>6 DEF n
<1>8. QED
    BY <1>2, <1>7 DEF S, n

(* A list of the places is a part of every other. *)
LEMMA ListsWithin ==
    ASSUME NEW p, NEW q, NEW holds, NEW m \in Nat, Lists(p, holds, m), Lists(q, holds, m)
    PROVE  \A n \in 1..Len(p) : n <= Len(q) /\ p[n] = q[n]
<1>1. /\ IsSeq(p) /\ IsSeq(q)
    BY DEF Lists
<1>2. Len(p) \in Nat /\ Len(q) \in Nat
    BY <1>1, SeqFacts
<1> DEFINE Same(n) == n <= Len(q) /\ p[n] = q[n]
           S == {n \in Nat : \A k \in 1..n : k <= Len(p) => Same(k)}
<1>3. 0 \in S
    OBVIOUS
<1>4. ASSUME NEW n \in Nat, n \in S
      PROVE  n + 1 \in S
    <2>1. \A k \in 1..n : k <= Len(p) => Same(k)
        BY <1>4
    <2>2. ASSUME n + 1 <= Len(p)
          PROVE  Same(n + 1)
        <3>1. PICK x \in 1..Len(p) : x = n + 1
            BY <2>2
        <3>2. p[x] \in 1..m /\ holds[p[x]]
            BY <3>1 DEF Lists
        <3>3. PICK y \in 1..Len(q) : q[y] = p[x]
            BY <3>2 DEF Lists
        <3>4. ~(y < x)
            <4>1. SUFFICES ASSUME y < x PROVE FALSE
                OBVIOUS
            <4>2. y \in 1..n /\ y <= Len(p) /\ y \in 1..Len(p)
                BY <1>2, <2>2, <3>1, <4>1
            <4>3. p[y] = q[y]
                BY <2>1, <4>2
            <4>4. p[y] < p[x]
                BY <4>1, <4>2 DEF Lists
            <4>5. QED
                BY <3>2, <3>3, <4>3, <4>4
        <3>5. x <= Len(q) /\ x \in 1..Len(q)
            BY <1>2, <3>1, <3>4
        <3>6. q[x] \in 1..m /\ holds[q[x]]
            BY <3>5 DEF Lists
        <3>7. PICK z \in 1..Len(p) : p[z] = q[x]
            BY <3>6 DEF Lists
        <3>8. ~(z < x)
            <4>1. SUFFICES ASSUME z < x PROVE FALSE
                OBVIOUS
            <4>2. z \in 1..n /\ z <= Len(p) /\ z \in 1..Len(q)
                BY <1>2, <2>2, <3>1, <3>5, <4>1
            <4>3. p[z] = q[z]
                BY <2>1, <4>2
            <4>4. q[z] < q[x]
                BY <3>5, <4>1, <4>2 DEF Lists
            <4>5. QED
                BY <3>6, <3>7, <4>3, <4>4
        <3>9. x < y => q[x] < q[y]
            BY <3>5 DEF Lists
        <3>10. x < z => p[x] < p[z]
            BY DEF Lists
        <3>11. p[x] = q[x]
            <4>1. x = y \/ x < y
                BY <1>2, <3>4
            <4>2. x = z \/ x < z
                BY <1>2, <3>8
            <4>3. q[x] <= p[x]
                BY <3>2, <3>3, <3>6, <3>9, <4>1
            <4>4. p[x] <= q[x]
                BY <3>2, <3>6, <3>7, <3>10, <4>2
            <4>5. QED
                BY <3>2, <3>6, <4>3, <4>4
        <3>12. QED
            BY <3>1, <3>5, <3>11
    <2> HIDE DEF Same
    <2>3. \A k \in 1..(n + 1) : k <= Len(p) => Same(k)
        <3>1. TAKE k \in 1..(n + 1)
        <3>2. CASE k = n + 1
            BY <2>2, <3>2
        <3>3. CASE k \in 1..n
            BY <2>1, <3>3
        <3>4. QED
            BY <3>2, <3>3
    <2>4. QED
        BY <2>3
<1> HIDE DEF S
<1>5. Nat \subseteq S
    BY <1>3, <1>4, SetInduction
<1>6. Len(p) \in S
    BY <1>2, <1>5
<1>7. QED
    BY <1>2, <1>6 DEF S

(* There is one list of the places. *)
LEMMA ListsUnique ==
    ASSUME NEW p, NEW q, NEW holds, NEW m \in Nat, Lists(p, holds, m), Lists(q, holds, m)
    PROVE  p = q
<1>1. IsSeq(p) /\ IsSeq(q) /\ Len(p) \in Nat /\ Len(q) \in Nat
    BY SeqFacts DEF Lists
<1>2. \A n \in 1..Len(p) : n <= Len(q) /\ p[n] = q[n]
    BY ListsWithin
<1>3. \A n \in 1..Len(q) : n <= Len(p)
    BY ListsWithin
<1>4. Len(p) = Len(q)
    <2>1. Len(p) = 0 \/ Len(p) \in 1..Len(p)
        BY <1>1
    <2>2. Len(q) = 0 \/ Len(q) \in 1..Len(q)
        BY <1>1
    <2>3. Len(p) <= Len(q)
        BY <1>1, <1>2, <2>1
    <2>4. Len(q) <= Len(p)
        BY <1>1, <1>3, <2>2
    <2>5. QED
        BY <1>1, <2>3, <2>4
<1>5. QED
    BY <1>1, <1>2, <1>4, SameSeq

(* Two places of a list have nothing between them. *)
LEMMA ListsBetween ==
    ASSUME NEW p, NEW holds, NEW m \in Nat, Lists(p, holds, m),
           NEW n \in 1..Len(p), NEW i \in 1..m, holds[i], p[n] < i
    PROVE  n + 1 <= Len(p) /\ p[n + 1] <= i
<1>1. IsSeq(p) /\ Len(p) \in Nat
    BY SeqFacts DEF Lists
<1>2. PICK k \in 1..Len(p) : p[k] = i
    BY DEF Lists
<1>3. p[n] \in Nat
    BY DEF Lists
<1>4. ~(k < n) /\ k # n
    <2>1. k < n => p[k] < p[n]
        BY DEF Lists
    <2>2. QED
        BY <1>2, <1>3, <2>1
<1>5. n + 1 <= k
    BY <1>1, <1>4
<1>6. n + 1 \in 1..Len(p)
    BY <1>1, <1>5
<1>7. p[n + 1] \in Nat
    BY <1>6 DEF Lists
<1>8. p[n + 1] <= p[k]
    <2>1. PICK x \in 1..Len(p) : x = n + 1
        BY <1>6
    <2>2. x < k => p[x] < p[k]
        BY DEF Lists
    <2>3. x = k \/ x < k
        BY <1>1, <1>5, <2>1
    <2>4. QED
        BY <1>2, <1>7, <2>1, <2>2, <2>3
<1>9. QED
    BY <1>1, <1>2, <1>6, <1>8

----------------------------------------------------------------------------
(* What a directive is written as *)

(* FlattenSeq, one sequence after another. *)
LEMMA FlattenSteps ==
    ASSUME NEW seqs, Len(seqs) \in Nat \ {0}
    PROVE  \E f : /\ f[1] = seqs[1]
                  /\ \A i \in 2..Len(seqs) : f[i] = f[i - 1] \o seqs[i]
                  /\ FlattenSeq(seqs) = f[Len(seqs)]
<1> DEFINE Fits(f, n) == f = [i \in 1..n |-> IF i = 1 THEN seqs[i] ELSE f[i - 1] \o seqs[i]]
           S == {m \in Nat : \E f : Fits(f, m)}
<1>1. 0 \in S
    <2>1. Fits([i \in 1..0 |-> << >>], 0)
        OBVIOUS
    <2> HIDE DEF Fits
    <2>2. QED
        BY <2>1
<1>2. ASSUME NEW m \in Nat, m \in S
      PROVE  m + 1 \in S
    <2>1. PICK f : Fits(f, m)
        BY <1>2
    <2> DEFINE last == IF m = 0 THEN seqs[1] ELSE f[m] \o seqs[m + 1]
               g == [i \in 1..(m + 1) |-> IF i = m + 1 THEN last ELSE f[i]]
    <2>2. ASSUME NEW i \in 1..(m + 1)
          PROVE  g[i] = IF i = 1 THEN seqs[i] ELSE g[i - 1] \o seqs[i]
        <3>1. CASE i = m + 1
            BY <3>1
        <3>2. CASE i \in 1..m
            <4>1. g[i] = f[i] /\ (i # 1 => g[i - 1] = f[i - 1])
                BY <3>2
            <4>2. f[i] = IF i = 1 THEN seqs[i] ELSE f[i - 1] \o seqs[i]
                BY <2>1, <3>2
            <4> HIDE DEF g
            <4>3. QED
                BY <4>1, <4>2
        <3>3. QED
            BY <3>1, <3>2
    <2>3. Fits(g, m + 1)
        BY <2>2
    <2> HIDE DEF g, Fits
    <2>4. QED
        BY <2>3
<1>3. Nat \subseteq S
    <2> HIDE DEF S
    <2>1. QED
        BY <1>1, <1>2, SetInduction
<1> DEFINE n == Len(seqs)
           f == CHOOSE g : g = [i \in 1..n |-> IF i = 1 THEN seqs[i] ELSE g[i - 1] \o seqs[i]]
<1>4. Fits(f, n)
    BY <1>3
<1>5. FlattenSeq(seqs) = f[n]
    BY DEF FlattenSeq
<1> HIDE DEF f, S
<1>6. f = [i \in 1..n |-> IF i = 1 THEN seqs[i] ELSE f[i - 1] \o seqs[i]] /\ n \in Nat \ {0}
    BY <1>4
<1> HIDE DEF n, Fits
<1>7. f[1] = seqs[1]
    BY <1>6
<1>8. ASSUME NEW i \in 2..n
      PROVE  f[i] = f[i - 1] \o seqs[i]
    <2>1. i \in 1..n /\ i # 1
        BY <1>6
    <2>2. QED
        BY <1>6, <2>1
<1>9. /\ f[1] = seqs[1]
      /\ \A i \in 2..n : f[i] = f[i - 1] \o seqs[i]
      /\ FlattenSeq(seqs) = f[n]
    BY <1>5, <1>7, <1>8
<1>10. QED
    BY <1>9 DEF n

LEMMA FlattenNone ==
    ASSUME NEW seqs, IsSeq(seqs), Len(seqs) = 0
    PROVE  FlattenSeq(seqs) = << >>
<1>1. seqs = << >>
    BY SameSeq, NoneIs
<1>2. QED
    BY <1>1 DEF FlattenSeq

(* Lines that belong to the head before them. *)
Continuing(lines) == IsSeq(lines) /\ \A i \in 1..Len(lines) : Continues(lines[i])

(* Such lines after one another are such lines. *)
LEMMA ContinuingCat ==
    ASSUME NEW s, NEW t, Continuing(s), Continuing(t)
    PROVE  Continuing(s \o t)
<1>1. IsSeq(s) /\ IsSeq(t) /\ Len(s) \in Nat /\ Len(t) \in Nat
    BY SeqFacts DEF Continuing
<1>2. /\ IsSeq(s \o t) /\ Len(s \o t) = Len(s) + Len(t)
      /\ \A i \in 1..Len(s) : (s \o t)[i] = s[i]
      /\ \A i \in Len(s) + 1..Len(s) + Len(t) : (s \o t)[i] = t[i - Len(s)]
    BY <1>1, Cat
<1>3. ASSUME NEW i \in 1..Len(s \o t)
      PROVE  Continues((s \o t)[i])
    <2>1. CASE i \in 1..Len(s)
        BY <1>2, <2>1 DEF Continuing
    <2>2. CASE i \in Len(s) + 1..Len(s) + Len(t)
        <3>1. (s \o t)[i] = t[i - Len(s)] /\ i - Len(s) \in 1..Len(t)
            BY <1>1, <1>2, <2>2
        <3>2. QED
            BY <3>1 DEF Continuing
    <2>3. QED
        BY <1>1, <1>2, <2>1, <2>2
<1>4. QED
    BY <1>2, <1>3 DEF Continuing

LEMMA ContinuingFlat ==
    ASSUME NEW seqs, IsSeq(seqs), \A i \in 1..Len(seqs) : Continuing(seqs[i])
    PROVE  Continuing(FlattenSeq(seqs))
<1>1. CASE Len(seqs) = 0
    BY <1>1, FlattenNone, NoneIs DEF Continuing
<1>2. CASE Len(seqs) # 0
    <2> DEFINE n == Len(seqs)
    <2>1. n \in Nat \ {0}
        BY <1>2, SeqFacts
    <2>2. PICK f : /\ f[1] = seqs[1]
                   /\ \A i \in 2..n : f[i] = f[i - 1] \o seqs[i]
                   /\ FlattenSeq(seqs) = f[n]
        BY <2>1, FlattenSteps
    <2>3. \A i \in 1..n : Continuing(seqs[i])
        OBVIOUS
    <2> HIDE DEF n
    <2> DEFINE S == {m \in Nat : m + 1 <= n => Continuing(f[m + 1])}
    <2>4. 0 \in S
        BY <2>1, <2>2, <2>3
    <2>5. ASSUME NEW m \in Nat, m \in S
          PROVE  m + 1 \in S
        <3>1. SUFFICES ASSUME m + 1 + 1 <= n PROVE Continuing(f[m + 1 + 1])
            OBVIOUS
        <3>2. PICK i \in 2..n : i = m + 1 + 1
            BY <2>1, <3>1
        <3>3. i - 1 = m + 1 /\ i \in 1..n
            BY <3>2
        <3>4. Continuing(f[i - 1])
            <4>1. m + 1 <= n
                BY <2>1, <3>1
            <4>2. Continuing(f[m + 1])
                BY <2>5, <4>1
            <4>3. QED
                BY <3>3, <4>2
        <3>5. f[i] = f[i - 1] \o seqs[i] /\ Continuing(seqs[i])
            BY <2>2, <2>3, <3>3
        <3>6. Continuing(f[i])
            BY <3>4, <3>5, ContinuingCat
        <3>7. QED
            BY <3>2, <3>6
    <2> HIDE DEF S
    <2>6. Nat \subseteq S
        BY <2>4, <2>5, SetInduction
    <2>7. n - 1 \in S
        BY <2>1, <2>6
    <2>8. Continuing(f[n - 1 + 1])
        BY <2>1, <2>7 DEF S
    <2>9. n - 1 + 1 = n
        BY <2>1
    <2>10. QED
        BY <2>2, <2>8, <2>9
<1>3. QED
    BY <1>1, <1>2

(* Blocks *)

(* The lines of one block: the first opens it, the others belong to it. *)
IsBlock(b) ==
    /\ IsSeq(b) /\ Len(b) >= 1
    /\ ~Continues(b[1])
    /\ \A j \in 2..Len(b) : Continues(b[j]) /\ b[j - 1].line # "own"

(* Metadata and postings belong to the head before them. *)
LEMMA WriteMetaIs ==
    ASSUME NEW md
    PROVE  Continuing(WriteMeta(md))
<1> DEFINE holds == [i \in DOMAIN KeyOrder |-> KeyOrder[i] \in DOMAIN md]
           at == Places(holds)
           lines == [n \in DOMAIN at |->
                        [line |-> "meta", key |-> KeyOrder[at[n]], value |-> QuoteStr(md[KeyOrder[at[n]]])]]
<1>1. Len(KeyOrder) \in Nat /\ DOMAIN KeyOrder = 1..Len(KeyOrder)
    BY WordsAssumption, SeqFacts DEF IsSeq
<1>2. Len(holds) \in Nat
    <2>1. holds = [i \in 1..Len(KeyOrder) |-> holds[i]]
        BY <1>1
    <2> HIDE DEF holds
    <2>2. QED
        BY <1>1, <2>1, FcnIsSeq
<1>3. WriteMeta(md) = lines
    BY DEF WriteMeta
<1> HIDE DEF holds
<1>4. IsSeq(at)
    BY <1>2, PlacesList DEF Lists
<1> HIDE DEF at
<1>5. Len(at) \in Nat /\ DOMAIN at = 1..Len(at)
    BY <1>4, SeqFacts
<1>6. lines = [n \in 1..Len(at) |-> lines[n]] /\ \A n \in 1..Len(at) : lines[n].line = "meta"
    BY <1>5
<1> HIDE DEF lines
<1>7. IsSeq(lines) /\ Len(lines) = Len(at)
    BY <1>5, <1>6, FcnIsSeq
<1>8. QED
    BY <1>3, <1>6, <1>7 DEF Continuing, Continues

LEMMA WritePostingIs ==
    ASSUME NEW p
    PROVE  Continuing(WritePosting(p))
<1> DEFINE l == [line |-> "posting", account |-> p.account,
                 units |-> [i \in DOMAIN p.units |-> [p.units[i] EXCEPT !.number = FormatRat(@)]],
                 cost |-> WriteCost(p.cost),
                 price |-> [i \in DOMAIN p.price |-> [p.price[i] EXCEPT !.number = FormatRat(@)]]]
<1>1. WritePosting(p) = <<l>> \o WriteMeta(p.md)
    BY Zenon DEF WritePosting
<1>2. l.line = "posting"
    BY Zenon
<1> HIDE DEF l
<1>3. Continuing(<<l>>)
    BY <1>2, Single DEF Continuing, Continues
<1>4. QED
    BY <1>1, <1>3, WriteMetaIs, ContinuingCat

(* A directive is written as one block, whatever its values. *)
LEMMA FormatIs ==
    ASSUME NEW d, IsSeq(d.postings)
    PROVE  IsBlock(FormatDirective(d)) /\ FormatDirective(d)[1].line = "head"
<1> DEFINE args == HeadArgs(d) \o d.rest
           head == [line |-> "head", kind |-> d.kind, date |-> FmtDate(d.date),
                    args |-> [i \in DOMAIN args |-> WriteArg(args[i])]]
           postings == [i \in DOMAIN d.postings |-> WritePosting(d.postings[i])]
           body == WriteMeta(d.md) \o FlattenSeq(postings)
<1>1. FormatDirective(d) = <<head>> \o WriteMeta(d.md) \o FlattenSeq(postings)
    BY DEF FormatDirective
<1>2. head.line = "head"
    OBVIOUS
<1> HIDE DEF head
<1>3. Continuing(FlattenSeq(postings))
    <2>1. DOMAIN d.postings = 1..Len(d.postings) /\ Len(d.postings) \in Nat
        BY SeqFacts
    <2>2. postings = [i \in 1..Len(d.postings) |-> postings[i]]
        BY <2>1
    <2>3. IsSeq(postings) /\ Len(postings) = Len(d.postings)
        <3> HIDE DEF postings
        <3>1. QED
            BY <2>1, <2>2, FcnIsSeq
    <2>4. \A i \in 1..Len(d.postings) : postings[i] = WritePosting(d.postings[i])
        BY <2>1
    <2>5. \A i \in 1..Len(postings) : Continuing(postings[i])
        <3> HIDE DEF postings
        <3>1. QED
            BY <2>3, <2>4, WritePostingIs
    <2> HIDE DEF postings
    <2>6. QED
        BY <2>3, <2>5, ContinuingFlat
<1> HIDE DEF postings
<1>4. Continuing(WriteMeta(d.md))
    BY WriteMetaIs
<1>5. Continuing(body)
    BY <1>3, <1>4, ContinuingCat
<1>6. (<<head>> \o WriteMeta(d.md)) \o FlattenSeq(postings) = <<head>> \o body
    <2> DEFINE S == {head} \cup ToSet(WriteMeta(d.md)) \cup ToSet(FlattenSeq(postings))
    <2>1. <<head>> \in Seq(S)
        OBVIOUS
    <2>2. WriteMeta(d.md) \in Seq(ToSet(WriteMeta(d.md))) /\ FlattenSeq(postings) \in Seq(ToSet(FlattenSeq(postings)))
        BY <1>3, <1>4 DEF Continuing, IsSeq
    <2>3. WriteMeta(d.md) \in Seq(S) /\ FlattenSeq(postings) \in Seq(S)
        BY <2>2, SeqMonotonic
    <2> HIDE DEF S
    <2>4. QED
        BY <2>1, <2>3, ConcatAssociative
<1> DEFINE b == <<head>> \o body
<1> HIDE DEF body
<1>7. IsSeq(body) /\ Len(body) \in Nat
    BY <1>5, SeqFacts DEF Continuing
<1>8. /\ IsSeq(b) /\ Len(b) = 1 + Len(body)
      /\ b[1] = head
      /\ \A i \in 2..1 + Len(body) : b[i] = body[i - 1]
    BY <1>7, Single, Cat
<1> HIDE DEF b
<1>9. \A i \in 2..Len(b) : Continues(b[i])
    <2>1. TAKE i \in 2..Len(b)
    <2>2. b[i] = body[i - 1] /\ i - 1 \in 1..Len(body)
        BY <1>7, <1>8
    <2>3. QED
        BY <1>5, <2>2 DEF Continuing
<1>10. \A i \in 2..Len(b) : b[i - 1].line # "own"
    <2>1. TAKE i \in 2..Len(b)
    <2>2. CASE i = 2
        BY <1>2, <1>8, <2>2
    <2>3. CASE i # 2
        <3>1. i - 1 \in 2..Len(b)
            BY <1>7, <1>8, <2>3
        <3>2. Continues(b[i - 1])
            BY <1>9, <3>1
        <3>3. QED
            BY <3>2 DEF Continues
    <2>4. QED
        BY <2>2, <2>3
<1>11. IsBlock(b)
    BY <1>2, <1>7, <1>8, <1>9, <1>10 DEF IsBlock, Continues
<1>12. FormatDirective(d) = b
    BY <1>1, <1>6 DEF b
<1>13. QED
    BY <1>2, <1>8, <1>11, <1>12

----------------------------------------------------------------------------
(* A text as blocks *)

(* A part of a text has a line. *)
IsPart(b) == IsSeq(b) /\ Len(b) >= 1

(* The text is the parts bs, one after another; part n ends with line o[n]. *)
Laid(text, bs, o) ==
    /\ IsSeq(text) /\ IsSeq(bs)
    /\ o[0] = 0 /\ o[Len(bs)] = Len(text)
    /\ \A n \in 0..Len(bs) : o[n] \in Nat
    /\ \A n \in 1..Len(bs) : IsPart(bs[n]) /\ o[n] = o[n - 1] + Len(bs[n])
    /\ \A n \in 1..Len(bs) : \A j \in 1..Len(bs[n]) : text[o[n - 1] + j] = bs[n][j]

(* No part is empty, *)
LEMMA LaidLens ==
    ASSUME NEW text, NEW bs, NEW o, Laid(text, bs, o)
    PROVE  /\ Len(text) \in Nat /\ Len(bs) \in Nat
           /\ \A n \in 1..Len(bs) : Len(bs[n]) \in Nat \ {0} /\ o[n - 1] \in Nat /\ o[n] \in Nat
                                    /\ o[n - 1] < o[n]
<1>1. Len(text) \in Nat /\ Len(bs) \in Nat
    BY SeqFacts DEF Laid
<1>2. ASSUME NEW n \in 1..Len(bs)
      PROVE  Len(bs[n]) \in Nat \ {0} /\ o[n - 1] \in Nat /\ o[n] \in Nat /\ o[n - 1] < o[n]
    <2>1. IsPart(bs[n]) /\ o[n] = o[n - 1] + Len(bs[n]) /\ o[n] \in Nat
        BY <1>1 DEF Laid
    <2>2. n - 1 \in 0..Len(bs)
        BY <1>1
    <2>3. o[n - 1] \in Nat
        BY <2>2 DEF Laid
    <2>4. Len(bs[n]) \in Nat \ {0}
        <3>1. IsSeq(bs[n]) /\ Len(bs[n]) >= 1
            BY <2>1 DEF IsPart
        <3>2. Len(bs[n]) \in Nat
            BY <3>1, SeqFacts
        <3>3. QED
            BY <3>1, <3>2
    <2>5. QED
        BY <2>1, <2>3, <2>4
<1>3. QED
    BY <1>1, <1>2

(* so later parts end later. *)
LEMMA LaidGrow ==
    ASSUME NEW text, NEW bs, NEW o, Laid(text, bs, o),
           NEW k \in 0..Len(bs), NEW n \in 0..Len(bs), k <= n
    PROVE  o[k] <= o[n] /\ (k < n => o[k] < o[n])
<1>1. Len(bs) \in Nat /\ \A m \in 1..Len(bs) : o[m - 1] \in Nat /\ o[m] \in Nat /\ o[m - 1] < o[m]
    BY LaidLens
<1> DEFINE S == {d \in Nat : k + d <= Len(bs) => o[k] <= o[k + d] /\ (d # 0 => o[k] < o[k + d])}
<1>2. o[k] \in Nat
    BY DEF Laid
<1>3. 0 \in S
    BY <1>1, <1>2
<1>4. ASSUME NEW d \in Nat, d \in S
      PROVE  d + 1 \in S
    <2>1. SUFFICES ASSUME k + (d + 1) <= Len(bs) PROVE o[k] < o[k + (d + 1)]
        <3>1. k + (d + 1) <= Len(bs) => o[k + (d + 1)] \in Nat
            BY <1>1
        <3>2. QED
            BY <1>2, <3>1
    <2>2. PICK m \in 1..Len(bs) : m = k + (d + 1)
        BY <1>1, <2>1
    <2>3. m - 1 = k + d /\ k + d <= Len(bs)
        BY <1>1, <2>2
    <2>4. o[k] <= o[k + d]
        BY <1>4, <2>3
    <2>5. o[m - 1] \in Nat /\ o[m] \in Nat /\ o[m - 1] < o[m]
        BY <1>1
    <2>6. o[k] < o[m]
        BY <1>2, <2>3, <2>4, <2>5
    <2>7. QED
        BY <2>2, <2>6
<1> HIDE DEF S
<1>5. Nat \subseteq S
    BY <1>3, <1>4, SetInduction
<1>6. PICK d \in Nat : d = n - k
    BY <1>1
<1>7. k + d = n /\ k + d <= Len(bs)
    BY <1>1, <1>6
<1>8. o[k] <= o[k + d] /\ (d # 0 => o[k] < o[k + d])
    BY <1>5, <1>7 DEF S
<1>9. k < n => d # 0
    BY <1>1, <1>6
<1>10. QED
    BY <1>7, <1>8, <1>9

(* Every line is in a part, *)
LEMMA LaidCover ==
    ASSUME NEW text, NEW bs, NEW o, Laid(text, bs, o), NEW i \in 1..Len(text)
    PROVE  \E n \in 1..Len(bs) : o[n - 1] < i /\ i <= o[n]
<1>1. Len(bs) \in Nat /\ Len(text) \in Nat
    BY LaidLens
<1> DEFINE S == {n \in 0..Len(bs) : i <= o[n]}
<1>2. Len(bs) \in S
    BY <1>1 DEF Laid
<1>3. PICK n \in S : \A m \in S : n <= m
    <2>1. S \in SUBSET Nat /\ S # {}
        BY <1>1, <1>2
    <2> HIDE DEF S
    <2>2. QED
        BY <2>1, LeastNat
<1>4. n # 0
    BY <1>3 DEF Laid
<1>5. n \in 1..Len(bs) /\ n - 1 \in 0..Len(bs) /\ o[n - 1] \in Nat
    BY <1>1, <1>3, <1>4 DEF Laid
<1>6. ~(i <= o[n - 1])
    <2>1. n - 1 \notin S
        BY <1>1, <1>3, <1>5
    <2>2. QED
        BY <1>5, <2>1
<1>7. QED
    BY <1>1, <1>3, <1>5, <1>6

(* and a part is what is between two ends. *)
LEMMA LaidPart ==
    ASSUME NEW text, NEW bs, NEW o, Laid(text, bs, o), NEW n \in 1..Len(bs)
    PROVE  SubSeq(text, o[n - 1] + 1, o[n]) = bs[n]
<1>1. /\ o[n - 1] \in Nat /\ o[n] \in Nat /\ Len(bs[n]) \in Nat \ {0} /\ Len(bs) \in Nat
      /\ Len(text) \in Nat
    BY LaidLens
<1>2. /\ o[n] = o[n - 1] + Len(bs[n]) /\ IsSeq(bs[n]) /\ IsSeq(text)
      /\ \A j \in 1..Len(bs[n]) : text[o[n - 1] + j] = bs[n][j]
    BY DEF Laid, IsPart
<1>3. o[n] <= Len(text)
    <2>1. n \in 0..Len(bs) /\ Len(bs) \in 0..Len(bs) /\ n <= Len(bs)
        BY <1>1
    <2>2. o[n] <= o[Len(bs)]
        BY <2>1, LaidGrow
    <2>3. QED
        BY <2>2 DEF Laid
<1>4. PICK a \in Nat \ {0} : a = o[n - 1] + 1
    BY <1>1
<1>5. PICK e \in Nat : e = o[n]
    BY <1>1
<1>6. e <= Len(text) /\ a <= e + 1 /\ e + 1 - a = Len(bs[n])
    BY <1>1, <1>2, <1>3, <1>4, <1>5, SMTT(30)
<1>7. /\ IsSeq(SubSeq(text, a, e)) /\ Len(SubSeq(text, a, e)) = e + 1 - a
      /\ \A i \in 1..e + 1 - a : SubSeq(text, a, e)[i] = text[a + i - 1]
    <2>1. IsSeq(text)
        BY <1>2
    <2>2. QED
        BY <1>6, <2>1, Part
<1>8. ASSUME NEW i \in 1..Len(bs[n])
      PROVE  SubSeq(text, a, e)[i] = bs[n][i]
    <2>1. a + i - 1 = o[n - 1] + i
        BY <1>1, <1>4
    <2>2. SubSeq(text, a, e)[i] = text[a + i - 1]
        BY <1>6, <1>7
    <2>3. QED
        BY <1>2, <2>1, <2>2
<1>9. SubSeq(text, a, e) = bs[n]
    <2>1. Len(SubSeq(text, a, e)) = Len(bs[n]) /\ IsSeq(SubSeq(text, a, e)) /\ IsSeq(bs[n])
        BY <1>2, <1>6, <1>7
    <2>2. \A i \in 1..Len(SubSeq(text, a, e)) : SubSeq(text, a, e)[i] = bs[n][i]
        BY <1>8, <2>1
    <2>3. QED
        BY <2>1, <2>2, SameSeq
<1>10. QED
    BY <1>4, <1>5, <1>9

LEMMA LaidIn ==
    ASSUME NEW text, NEW bs, NEW o, Laid(text, bs, o), NEW n \in 1..Len(bs),
           NEW j \in 1..Len(bs[n])
    PROVE  o[n - 1] + j \in 1..Len(text) /\ text[o[n - 1] + j] = bs[n][j]
<1>1. /\ o[n - 1] \in Nat /\ o[n] \in Nat /\ Len(bs[n]) \in Nat \ {0} /\ Len(bs) \in Nat
      /\ Len(text) \in Nat
    BY LaidLens
<1>2. /\ o[n] = o[n - 1] + Len(bs[n])
      /\ \A i \in 1..Len(bs[n]) : text[o[n - 1] + i] = bs[n][i]
    BY DEF Laid
<1>3. o[n] <= Len(text)
    <2>1. n \in 0..Len(bs) /\ Len(bs) \in 0..Len(bs) /\ n <= Len(bs)
        BY <1>1
    <2>2. o[n] <= o[Len(bs)]
        BY <2>1, LaidGrow
    <2>3. QED
        BY <2>2 DEF Laid
<1>4. o[n - 1] + j \in 1..Len(text)
    BY <1>1, <1>2, <1>3
<1>5. QED
    BY <1>2, <1>4

(* Two texts after each other are the parts of both. *)
LEMMA LaidCat ==
    ASSUME NEW s, NEW bs, NEW o, Laid(s, bs, o), NEW t, NEW cs, NEW p, Laid(t, cs, p)
    PROVE  \E q : Laid(s \o t, bs \o cs, q)
<1>1. /\ IsSeq(s) /\ IsSeq(t) /\ IsSeq(bs) /\ IsSeq(cs)
    BY DEF Laid
<1>2. /\ Len(s) \in Nat /\ Len(t) \in Nat /\ Len(bs) \in Nat /\ Len(cs) \in Nat
    BY <1>1, SeqFacts
<1> DEFINE u == s \o t
           ds == bs \o cs
<1>3. /\ IsSeq(u) /\ Len(u) = Len(s) + Len(t)
      /\ \A i \in 1..Len(s) : u[i] = s[i]
      /\ \A i \in 1..Len(t) : u[Len(s) + i] = t[i]
    BY <1>1, Cat
<1>4. /\ IsSeq(ds) /\ Len(ds) = Len(bs) + Len(cs)
      /\ \A i \in 1..Len(bs) : ds[i] = bs[i]
      /\ \A i \in 1..Len(cs) : ds[Len(bs) + i] = cs[i]
    BY <1>1, Cat
<1> HIDE DEF u, ds
<1>5. PICK l \in Nat : l = Len(s)
    BY <1>2
<1>6. PICK n \in Nat : n = Len(bs)
    BY <1>2
<1>7. PICK k \in Nat : k = Len(cs)
    BY <1>2
<1>8. /\ \A i \in 0..n : o[i] \in Nat
      /\ o[0] = 0 /\ o[n] = l
      /\ \A i \in 1..n : IsPart(bs[i]) /\ o[i] = o[i - 1] + Len(bs[i])
      /\ \A i \in 1..n : \A j \in 1..Len(bs[i]) : s[o[i - 1] + j] = bs[i][j]
    BY <1>5, <1>6 DEF Laid
<1>9. /\ \A i \in 0..k : p[i] \in Nat
      /\ p[0] = 0 /\ p[k] = Len(t)
      /\ \A i \in 1..k : IsPart(cs[i]) /\ p[i] = p[i - 1] + Len(cs[i])
      /\ \A i \in 1..k : \A j \in 1..Len(cs[i]) : t[p[i - 1] + j] = cs[i][j]
    BY <1>7 DEF Laid
<1> DEFINE q == [i \in 0..n + k |-> IF i <= n THEN o[i] ELSE l + p[i - n]]
<1>10. /\ \A i \in 0..n : q[i] = o[i]
       /\ \A i \in 0..k : q[n + i] = l + p[i]
    <2>1. \A i \in 0..n : i \in 0..n + k /\ i <= n
        OBVIOUS
    <2>2. \A i \in 0..n : q[i] = o[i]
        BY <2>1
    <2>3. ASSUME NEW i \in 0..k
          PROVE  q[n + i] = l + p[i]
        <3>1. n + i \in 0..n + k /\ (n + i) - n = i
            OBVIOUS
        <3>2. CASE i = 0
            BY <1>8, <1>9, <3>1, <3>2
        <3>3. CASE i # 0
            <4>1. ~(n + i <= n)
                BY <3>3
            <4>2. QED
                BY <3>1, <4>1
        <3>4. QED
            BY <3>2, <3>3
    <2>4. QED
        BY <2>2, <2>3
<1> HIDE DEF q
<1>11. \A i \in 0..n + k : i \in 0..n \/ \E j \in 1..k : i = n + j
    <2>1. TAKE i \in 0..n + k
    <2>2. CASE i <= n
        BY <2>2
    <2>3. CASE n < i
        <3>1. i - n \in 1..k /\ i = n + (i - n)
            BY <2>3
        <3>2. QED
            BY <3>1
    <2>4. QED
        BY <2>2, <2>3
<1>12. \A i \in 0..n + k : q[i] \in Nat
    <2>1. TAKE i \in 0..n + k
    <2>2. CASE i \in 0..n
        BY <1>8, <1>10, <2>2
    <2>3. ASSUME NEW j \in 1..k, i = n + j
          PROVE  q[i] \in Nat
        <3>1. j \in 0..k
            OBVIOUS
        <3>2. q[n + j] = l + p[j] /\ p[j] \in Nat
            BY <1>9, <1>10, <3>1
        <3>3. QED
            BY <2>3, <3>2
    <2>4. QED
        BY <1>11, <2>2, <2>3
<1>13. q[0] = 0 /\ q[n + k] = Len(u)
    <2>1. 0 \in 0..n /\ k \in 0..k
        OBVIOUS
    <2>2. QED
        BY <1>3, <1>5, <1>8, <1>9, <1>10, <2>1
<1>14. ASSUME NEW i \in 1..n
       PROVE  /\ IsPart(ds[i]) /\ q[i] = q[i - 1] + Len(ds[i])
              /\ \A j \in 1..Len(ds[i]) : u[q[i - 1] + j] = ds[i][j]
    <2>1. ds[i] = bs[i]
        BY <1>4, <1>6
    <2>2. PICK h \in 0..n : h = i - 1
        OBVIOUS
    <2>3. q[i] = o[i] /\ q[h] = o[h] /\ i \in 0..n
        BY <1>10
    <2>4. o[i] = o[h] + Len(bs[i]) /\ IsPart(bs[i])
        BY <1>8, <2>2
    <2>5. ASSUME NEW j \in 1..Len(bs[i])
          PROVE  u[o[h] + j] = bs[i][j]
        <3>1. o[h] + j \in 1..Len(s) /\ s[o[h] + j] = bs[i][j]
            <4>1. i \in 1..Len(bs)
                BY <1>6
            <4>2. o[i - 1] + j \in 1..Len(s) /\ s[o[i - 1] + j] = bs[i][j]
                BY <4>1, LaidIn
            <4>3. QED
                BY <2>2, <4>2
        <3>2. QED
            BY <1>3, <3>1
    <2>6. QED
        BY <2>1, <2>2, <2>3, <2>4, <2>5
<1>15. ASSUME NEW i \in 1..k
       PROVE  /\ IsPart(ds[n + i]) /\ q[n + i] = q[(n + i) - 1] + Len(ds[n + i])
              /\ \A j \in 1..Len(ds[n + i]) : u[q[(n + i) - 1] + j] = ds[n + i][j]
    <2>1. ds[n + i] = cs[i]
        BY <1>4, <1>6, <1>7
    <2>2. PICK h \in 0..k : h = i - 1
        OBVIOUS
    <2>3. i \in 0..k /\ (n + i) - 1 = n + h
        BY <2>2
    <2>4. q[n + i] = l + p[i] /\ q[n + h] = l + p[h]
        BY <1>10, <2>3
    <2>5. p[i] = p[h] + Len(cs[i]) /\ IsPart(cs[i]) /\ p[h] \in Nat
        BY <1>9, <2>2
    <2>6. Len(cs[i]) \in Nat
        BY <2>5, SeqFacts DEF IsPart
    <2>7. ASSUME NEW j \in 1..Len(cs[i])
          PROVE  u[q[n + h] + j] = cs[i][j]
        <3>1. p[h] + j \in 1..Len(t) /\ t[p[h] + j] = cs[i][j]
            <4>1. i \in 1..Len(cs)
                BY <1>7
            <4>2. p[i - 1] + j \in 1..Len(t) /\ t[p[i - 1] + j] = cs[i][j]
                BY <4>1, LaidIn
            <4>3. QED
                BY <2>2, <4>2
        <3>2. u[l + (p[h] + j)] = cs[i][j]
            BY <1>3, <1>5, <3>1
        <3>3. (l + p[h]) + j = l + (p[h] + j)
            <4>1. PICK x \in Nat : x = p[h]
                BY <2>5
            <4>2. PICK y \in Nat : y = Len(cs[i])
                BY <2>6
            <4>3. j \in 1..y
                BY <4>2
            <4>4. j \in Nat
                BY <4>3
            <4>5. QED
                BY <4>1, <4>4
        <3>4. QED
            BY <2>4, <3>2, <3>3
    <2>8. q[n + i] = q[n + h] + Len(cs[i])
        BY <2>4, <2>5, <2>6
    <2>9. QED
        BY <2>1, <2>3, <2>5, <2>7, <2>8
<1>16. ASSUME NEW i \in 1..n + k
       PROVE  /\ IsPart(ds[i]) /\ q[i] = q[i - 1] + Len(ds[i])
              /\ \A j \in 1..Len(ds[i]) : u[q[i - 1] + j] = ds[i][j]
    <2>1. i \in 1..n \/ \E j \in 1..k : i = n + j
        BY <1>11
    <2>2. CASE i \in 1..n
        BY <1>14, <2>2
    <2>3. CASE \E j \in 1..k : i = n + j
        BY <1>15, <2>3
    <2>4. QED
        BY <2>1, <2>2, <2>3
<1>17. Len(ds) = n + k
    BY <1>4, <1>6, <1>7
<1>18. Laid(u, ds, q)
    BY <1>3, <1>4, <1>12, <1>13, <1>16, <1>17 DEF Laid
<1>19. QED
    BY <1>18 DEF u, ds

LEMMA LaidOne ==
    ASSUME NEW b, IsPart(b)
    PROVE  \E o : Laid(b, <<b>>, o)
<1> DEFINE o == [i \in 0..1 |-> IF i = 0 THEN 0 ELSE Len(b)]
           bs == <<b>>
<1>1. IsSeq(b) /\ Len(b) \in Nat
    BY SeqFacts DEF IsPart
<1>2. IsSeq(bs) /\ Len(bs) = 1 /\ bs[1] = b
    BY Single
<1>3. o[0] = 0 /\ o[1] = Len(b)
    OBVIOUS
<1> HIDE DEF o, bs
<1>4. \A n \in 1..Len(bs) : n = 1 /\ n - 1 = 0
    BY <1>2
<1>5. \A n \in 0..Len(bs) : n = 1 \/ n = 0
    BY <1>2
<1>6. \A n \in 0..Len(bs) : o[n] \in Nat
    BY <1>1, <1>3, <1>5
<1>7. \A n \in 1..Len(bs) : IsPart(bs[n]) /\ o[n] = o[n - 1] + Len(bs[n])
    BY <1>1, <1>2, <1>3, <1>4
<1>8. \A n \in 1..Len(bs) : \A j \in 1..Len(bs[n]) : b[o[n - 1] + j] = bs[n][j]
    <2>1. TAKE n \in 1..Len(bs)
    <2>2. TAKE j \in 1..Len(bs[n])
    <2>3. j \in 1..Len(b) /\ o[n - 1] = 0 /\ bs[n] = b
        BY <1>2, <1>3, <1>4
    <2>4. 0 + j = j
        BY <1>1, <2>3
    <2>5. QED
        BY <2>3, <2>4
<1>9. Laid(b, bs, o)
    BY <1>1, <1>2, <1>3, <1>6, <1>7, <1>8 DEF Laid
<1>10. QED
    BY <1>9 DEF bs

(* FlattenSeq lays them end to end. *)
LEMMA FlattenLaid ==
    ASSUME NEW bs, IsSeq(bs), \A n \in 1..Len(bs) : IsPart(bs[n])
    PROVE  \E o : Laid(FlattenSeq(bs), bs, o)
<1>1. Len(bs) \in Nat
    BY SeqFacts
<1>2. CASE Len(bs) = 0
    <2>1. bs = << >> /\ FlattenSeq(bs) = << >>
        BY <1>2, FlattenNone, NoneIs, SameSeq
    <2>2. Laid(<< >>, << >>, [i \in 0..0 |-> 0])
        BY NoneIs DEF Laid
    <2>3. QED
        BY <2>1, <2>2
<1>3. CASE Len(bs) # 0
    <2>1. Len(bs) \in Nat \ {0}
        BY <1>1, <1>3
    <2>2. PICK f : /\ f[1] = bs[1]
                   /\ \A i \in 2..Len(bs) : f[i] = f[i - 1] \o bs[i]
                   /\ FlattenSeq(bs) = f[Len(bs)]
        BY <2>1, FlattenSteps
    <2> DEFINE first(i) == [n \in 1..i |-> bs[n]]
    <2>3. ASSUME NEW i \in Nat
          PROVE  IsSeq(first(i)) /\ Len(first(i)) = i /\ \A n \in 1..i : first(i)[n] = bs[n]
        <3>1. first(i) = [n \in 1..i |-> first(i)[n]]
            OBVIOUS
        <3>2. \A n \in 1..i : first(i)[n] = bs[n]
            OBVIOUS
        <3> HIDE DEF first
        <3>3. QED
            BY <3>1, <3>2, FcnIsSeq
    <2>4. ASSUME NEW i \in Nat, NEW k, k = i + 1
          PROVE  first(k) = first(i) \o <<bs[k]>>
        <3>1. IsSeq(<<bs[k]>>) /\ Len(<<bs[k]>>) = 1 /\ <<bs[k]>>[1] = bs[k]
            BY Single
        <3>2. /\ IsSeq(first(i)) /\ Len(first(i)) = i /\ \A n \in 1..i : first(i)[n] = bs[n]
              /\ IsSeq(first(k)) /\ Len(first(k)) = k /\ \A n \in 1..k : first(k)[n] = bs[n]
            <4>1. k \in Nat
                BY <2>4
            <4> HIDE DEF first
            <4>2. QED
                BY <2>3, <4>1
        <3> HIDE DEF first
        <3> DEFINE last == <<bs[k]>>
        <3> HIDE DEF last
        <3>3. /\ IsSeq(first(i) \o last) /\ Len(first(i) \o last) = Len(first(i)) + Len(last)
              /\ \A n \in 1..Len(first(i)) : (first(i) \o last)[n] = first(i)[n]
              /\ \A n \in 1..Len(last) : (first(i) \o last)[Len(first(i)) + n] = last[n]
            <4>1. IsSeq(first(i)) /\ IsSeq(last)
                BY <3>1, <3>2 DEF last
            <4>2. QED
                BY <4>1, Cat
        <3>4. Len(last) = 1 /\ last[1] = bs[k]
            BY <3>1 DEF last
        <3>5. Len(first(i) \o last) = k
            BY <2>4, <3>2, <3>3, <3>4
        <3>6. ASSUME NEW n \in 1..k
              PROVE  first(k)[n] = (first(i) \o last)[n]
            <4>1. CASE n \in 1..i
                BY <3>2, <3>3, <4>1
            <4>2. CASE n = i + 1
                <5>1. 1 \in 1..Len(last)
                    BY <3>4
                <5>2. (first(i) \o last)[i + 1] = bs[k]
                    BY <3>2, <3>3, <3>4, <5>1
                <5>3. n = k /\ first(k)[n] = bs[n]
                    BY <2>4, <3>2, <4>2
                <5>4. (first(i) \o last)[n] = bs[k]
                    BY <4>2, <5>2
                <5>5. QED
                    BY Zenon, <5>3, <5>4
            <4>3. n \in 1..i + 1
                BY <2>4
            <4>4. n \in 1..i \/ n = i + 1
                BY <4>3
            <4>5. QED
                BY Zenon, <4>1, <4>2, <4>4
        <3>7. first(k) = first(i) \o last
            BY <3>2, <3>3, <3>5, <3>6, SameSeq
        <3>8. QED
            BY <3>7 DEF last
    <2>5. first(Len(bs)) = bs
        BY SeqFacts
    <2>6. first(1) = <<bs[1]>>
        OBVIOUS
    <2> HIDE DEF first
    <2> DEFINE S == {i \in Nat : i + 1 <= Len(bs) => \E o : Laid(f[i + 1], first(i + 1), o)}
    <2>7. 0 \in S
        <3>1. 1 \in 1..Len(bs)
            BY <2>1
        <3>2. \E o : Laid(bs[1], <<bs[1]>>, o)
            BY <3>1, LaidOne
        <3>3. 0 + 1 = 1
            OBVIOUS
        <3>4. QED
            BY <2>2, <2>6, <3>2, <3>3
    <2>8. ASSUME NEW i \in Nat, i \in S
          PROVE  i + 1 \in S
        <3>1. SUFFICES ASSUME i + 1 + 1 <= Len(bs) PROVE \E o : Laid(f[i + 1 + 1], first(i + 1 + 1), o)
            OBVIOUS
        <3>2. PICK j \in Nat : j = i + 1
            OBVIOUS
        <3>3. PICK k \in 2..Len(bs) : k = j + 1
            BY <1>1, <3>1, <3>2
        <3>4. i + 1 <= Len(bs)
            BY <1>1, <3>1
        <3>5. PICK o : Laid(f[j], first(j), o)
            BY <2>8, <3>2, <3>4
        <3>6. k \in 1..Len(bs) /\ k - 1 = j
            BY <3>2, <3>3
        <3>7. PICK p : Laid(bs[k], <<bs[k]>>, p)
            BY <3>6, LaidOne
        <3>8. \E q : Laid(f[j] \o bs[k], first(j) \o <<bs[k]>>, q)
            BY <3>5, <3>7, LaidCat
        <3>9. f[k] = f[j] \o bs[k] /\ first(k) = first(j) \o <<bs[k]>>
            BY <2>2, <2>4, <3>3, <3>6
        <3>10. \E q : Laid(f[k], first(k), q)
            BY <3>8, <3>9
        <3>11. QED
            BY <3>2, <3>3, <3>10
    <2> HIDE DEF S
    <2>9. Nat \subseteq S
        BY <2>7, <2>8, SetInduction
    <2>10. PICK m \in Nat : m + 1 = Len(bs)
        BY <2>1
    <2>11. \E o : Laid(f[m + 1], first(m + 1), o)
        BY <2>1, <2>9, <2>10 DEF S
    <2>12. QED
        BY <2>2, <2>5, <2>10, <2>11
<1>4. QED
    BY <1>2, <1>3

(* The text is the blocks bs, one after another. *)
Cuts(text, bs, o) == Laid(text, bs, o) /\ \A n \in 1..Len(bs) : IsBlock(bs[n])

LEMMA BlockIsPart == \A b : IsBlock(b) => IsPart(b)
BY DEF IsBlock, IsPart

LEMMA CutsLens ==
    ASSUME NEW text, NEW bs, NEW o, Cuts(text, bs, o)
    PROVE  /\ Len(text) \in Nat /\ Len(bs) \in Nat
           /\ \A n \in 1..Len(bs) : Len(bs[n]) \in Nat \ {0} /\ o[n - 1] \in Nat /\ o[n] \in Nat
                                    /\ o[n - 1] < o[n]
BY LaidLens DEF Cuts

LEMMA CutsGrow ==
    ASSUME NEW text, NEW bs, NEW o, Cuts(text, bs, o),
           NEW k \in 0..Len(bs), NEW n \in 0..Len(bs), k <= n
    PROVE  o[k] <= o[n] /\ (k < n => o[k] < o[n])
BY LaidGrow DEF Cuts

LEMMA CutsCover ==
    ASSUME NEW text, NEW bs, NEW o, Cuts(text, bs, o), NEW i \in 1..Len(text)
    PROVE  \E n \in 1..Len(bs) : o[n - 1] < i /\ i <= o[n]
BY LaidCover DEF Cuts

LEMMA CutsPart ==
    ASSUME NEW text, NEW bs, NEW o, Cuts(text, bs, o), NEW n \in 1..Len(bs)
    PROVE  SubSeq(text, o[n - 1] + 1, o[n]) = bs[n]
BY LaidPart DEF Cuts

LEMMA CutsCat ==
    ASSUME NEW s, NEW bs, NEW o, Cuts(s, bs, o), NEW t, NEW cs, NEW p, Cuts(t, cs, p)
    PROVE  \E q : Cuts(s \o t, bs \o cs, q)
<1>1. PICK q : Laid(s \o t, bs \o cs, q)
    BY LaidCat DEF Cuts
<1>2. IsSeq(bs) /\ IsSeq(cs) /\ Len(bs) \in Nat /\ Len(cs) \in Nat
    BY CutsLens DEF Cuts, Laid
<1> DEFINE ds == bs \o cs
<1>3. /\ Len(ds) = Len(bs) + Len(cs)
      /\ \A i \in 1..Len(bs) : ds[i] = bs[i]
      /\ \A i \in Len(bs) + 1..Len(bs) + Len(cs) : ds[i] = cs[i - Len(bs)]
    BY <1>2, Cat
<1> HIDE DEF ds
<1>4. ASSUME NEW i \in 1..Len(ds)
      PROVE  IsBlock(ds[i])
    <2>1. CASE i \in 1..Len(bs)
        BY <1>3, <2>1 DEF Cuts
    <2>2. CASE i \in Len(bs) + 1..Len(bs) + Len(cs)
        <3>1. i - Len(bs) \in 1..Len(cs) /\ ds[i] = cs[i - Len(bs)]
            BY <1>2, <1>3, <2>2
        <3>2. QED
            BY <3>1 DEF Cuts
    <2>3. QED
        BY <1>2, <1>3, <2>1, <2>2
<1>5. QED
    BY <1>1, <1>4 DEF Cuts, ds

LEMMA BlockCut ==
    ASSUME NEW b, IsBlock(b)
    PROVE  \E o : Cuts(b, <<b>>, o)
<1>1. PICK o : Laid(b, <<b>>, o)
    BY LaidOne DEF IsBlock, IsPart
<1>2. Len(<<b>>) = 1 /\ <<b>>[1] = b
    BY Single
<1>3. \A n \in 1..Len(<<b>>) : IsBlock(<<b>>[n])
    BY <1>2
<1>4. QED
    BY <1>1, <1>3 DEF Cuts

LEMMA FlattenCuts ==
    ASSUME NEW bs, IsSeq(bs), \A n \in 1..Len(bs) : IsBlock(bs[n])
    PROVE  \E o : Cuts(FlattenSeq(bs), bs, o)
<1>1. \A n \in 1..Len(bs) : IsPart(bs[n])
    BY DEF IsBlock, IsPart
<1>2. PICK o : Laid(FlattenSeq(bs), bs, o)
    BY <1>1, FlattenLaid
<1>3. QED
    BY <1>2 DEF Cuts

(* The first line of a block, and no other, opens a block. *)
LEMMA CutsOpens ==
    ASSUME NEW text, NEW bs, NEW o, Cuts(text, bs, o), NEW n \in 1..Len(bs),
           NEW j \in 1..Len(bs[n])
    PROVE  /\ o[n - 1] + j \in 1..Len(text)
           /\ text[o[n - 1] + j] = bs[n][j]
           /\ Opens(text, o[n - 1] + j) <=> j = 1
           /\ Continues(text[o[n - 1] + j]) <=> j # 1
<1>1. /\ o[n - 1] \in Nat /\ o[n] \in Nat /\ Len(bs[n]) \in Nat \ {0} /\ Len(bs) \in Nat
      /\ Len(text) \in Nat
    BY CutsLens
<1>2. /\ o[n] = o[n - 1] + Len(bs[n]) /\ IsBlock(bs[n])
      /\ \A i \in 1..Len(bs[n]) : text[o[n - 1] + i] = bs[n][i]
    BY DEF Cuts, Laid
<1>3. o[n] <= Len(text)
    <2>1. n \in 0..Len(bs) /\ Len(bs) \in 0..Len(bs) /\ n <= Len(bs)
        BY <1>1
    <2>2. o[n] <= o[Len(bs)]
        BY <2>1, CutsGrow
    <2>3. QED
        BY <2>2 DEF Cuts, Laid
<1>4. o[n - 1] + j \in 1..Len(text)
    BY <1>1, <1>2, <1>3
<1>5. ASSUME j = 1
      PROVE  Opens(text, o[n - 1] + j) /\ ~Continues(text[o[n - 1] + j])
    <2>1. ~Continues(text[o[n - 1] + j])
        BY <1>2, <1>5 DEF IsBlock
    <2>2. QED
        BY <2>1 DEF Opens
<1>6. ASSUME j # 1
      PROVE  ~Opens(text, o[n - 1] + j) /\ Continues(text[o[n - 1] + j])
    <2>1. j \in 2..Len(bs[n]) /\ j - 1 \in 1..Len(bs[n])
        BY <1>1, <1>6
    <2>2. Continues(bs[n][j]) /\ bs[n][j - 1].line # "own"
        BY <1>2, <2>1 DEF IsBlock
    <2>3. text[o[n - 1] + (j - 1)] = bs[n][j - 1] /\ text[o[n - 1] + j] = bs[n][j]
        BY <1>2, <2>1
    <2>4. o[n - 1] + (j - 1) = o[n - 1] + j - 1 /\ o[n - 1] + j > 1
        BY <1>1, <2>1
    <2>5. PICK x : x = o[n - 1] + j
        OBVIOUS
    <2>6. Continues(text[x]) /\ x > 1 /\ text[x - 1].line # "own"
        <3>1. text[x] = bs[n][j]
            BY <2>3, <2>5
        <3>2. text[x - 1] = bs[n][j - 1]
            <4>1. PICK a \in Nat : a = o[n - 1]
                BY <1>1
            <4>2. j \in Nat
                BY <1>1, <2>1
            <4>3. x = a + j
                BY <2>5, <4>1
            <4>4. x - 1 = a + (j - 1)
                BY <4>2, <4>3
            <4>5. QED
                BY <2>3, <4>1, <4>4
        <3>3. QED
            BY <2>2, <2>4, <2>5, <3>1, <3>2
    <2>7. ~Opens(text, x) /\ Continues(text[x])
        BY Zenon, <2>6 DEF Opens
    <2>8. QED
        BY <2>5, <2>7
<1>7. Opens(text, o[n - 1] + j) <=> j = 1
    BY <1>5, <1>6
<1>8. Continues(text[o[n - 1] + j]) <=> j # 1
    BY <1>5, <1>6
<1>9. text[o[n - 1] + j] = bs[n][j]
    BY <1>2
<1>10. QED
    BY <1>4, <1>7, <1>8, <1>9

(* The lines of a text that open a block. *)
Opening(text) == Places([i \in DOMAIN text |-> Opens(text, i)])

LEMMA OpeningLists ==
    ASSUME NEW text, IsSeq(text)
    PROVE  /\ Lists(Opening(text), [i \in 1..Len(text) |-> Opens(text, i)], Len(text))
           /\ Len(Opening(text)) \in Nat /\ DOMAIN Opening(text) = 1..Len(Opening(text))
<1> DEFINE holds == [i \in 1..Len(text) |-> Opens(text, i)]
<1>1. Len(text) \in Nat /\ DOMAIN text = 1..Len(text)
    BY SeqFacts
<1>2. Len(holds) = Len(text)
    <2>1. holds = [i \in 1..Len(text) |-> holds[i]]
        OBVIOUS
    <2> HIDE DEF holds
    <2>2. QED
        BY <1>1, <2>1, FcnIsSeq
<1>3. Opening(text) = Places(holds)
    BY <1>1 DEF Opening
<1> HIDE DEF holds
<1>4. Lists(Opening(text), holds, Len(text))
    BY <1>1, <1>2, <1>3, PlacesList
<1>5. IsSeq(Opening(text))
    BY <1>4 DEF Lists
<1>6. QED
    BY <1>4, <1>5, SeqFacts DEF holds

LEMMA BlocksIs ==
    ASSUME NEW text, IsSeq(text)
    PROVE  LET p == Opening(text)
           IN  Blocks(text) = [n \in 1..Len(p) |->
                   SubSeq(text, p[n], IF n = Len(p) THEN Len(text) ELSE p[n + 1] - 1)]
<1>1. DOMAIN Opening(text) = 1..Len(Opening(text))
    BY OpeningLists
<1>2. QED
    BY <1>1 DEF Blocks, Opening

(* A text that is cut into blocks has these blocks, *)
LEMMA BlocksAre ==
    ASSUME NEW text, NEW bs, NEW o, Cuts(text, bs, o)
    PROVE  Blocks(text) = bs
<1> DEFINE holds == [i \in 1..Len(text) |-> Opens(text, i)]
           q == [n \in 1..Len(bs) |-> o[n - 1] + 1]
           p == Opening(text)
<1>1. /\ Len(text) \in Nat /\ Len(bs) \in Nat /\ IsSeq(text) /\ IsSeq(bs)
      /\ \A n \in 1..Len(bs) : Len(bs[n]) \in Nat \ {0} /\ o[n - 1] \in Nat /\ o[n] \in Nat
                               /\ o[n - 1] < o[n]
    BY CutsLens DEF Cuts, Laid
<1>2. IsSeq(q) /\ Len(q) = Len(bs)
    <2>1. q = [i \in 1..Len(bs) |-> q[i]]
        OBVIOUS
    <2> HIDE DEF q
    <2>2. QED
        BY <1>1, <2>1, FcnIsSeq
<1>3. \A n \in 1..Len(q) : q[n] = o[n - 1] + 1
    BY <1>2
<1> HIDE DEF q
<1>4. \A n \in 1..Len(q) : q[n] \in 1..Len(text) /\ holds[q[n]]
    <2>1. TAKE n \in 1..Len(q)
    <2>2. n \in 1..Len(bs) /\ 1 \in 1..Len(bs[n])
        BY <1>1, <1>2
    <2>3. o[n - 1] + 1 \in 1..Len(text) /\ Opens(text, o[n - 1] + 1)
        BY <2>2, CutsOpens
    <2>4. QED
        BY <1>3, <2>3
<1>5. \A k, n \in 1..Len(q) : k < n => q[k] < q[n]
    <2>1. TAKE k, n \in 1..Len(q)
    <2>2. HAVE k < n
    <2>3. PICK a \in 0..Len(bs) : a = k - 1
        BY <1>1, <1>2
    <2>4. PICK b \in 0..Len(bs) : b = n - 1
        BY <1>1, <1>2
    <2>5. a <= b /\ a < b
        BY <1>1, <1>2, <2>2, <2>3, <2>4
    <2>6. o[a] < o[b]
        BY <2>5, CutsGrow
    <2>7. o[a] \in Nat /\ o[b] \in Nat
        BY DEF Cuts, Laid
    <2>8. QED
        BY <1>3, <2>3, <2>4, <2>6, <2>7
<1>6. \A i \in 1..Len(text) : holds[i] => \E n \in 1..Len(q) : q[n] = i
    <2>1. TAKE i \in 1..Len(text)
    <2>2. HAVE holds[i]
    <2>3. PICK n \in 1..Len(bs) : o[n - 1] < i /\ i <= o[n]
        BY CutsCover
    <2>4. PICK j \in Nat : j = i - o[n - 1]
        BY <1>1, <2>3
    <2>5. o[n] = o[n - 1] + Len(bs[n])
        BY DEF Cuts, Laid
    <2>6. j \in 1..Len(bs[n]) /\ o[n - 1] + j = i
        BY <1>1, <2>3, <2>4, <2>5
    <2>7. Opens(text, o[n - 1] + j) <=> j = 1
        BY <2>6, CutsOpens
    <2>8. j = 1
        BY <2>2, <2>6, <2>7
    <2>9. QED
        BY <1>2, <1>3, <2>6, <2>8
<1>7. Lists(q, holds, Len(text))
    <2> HIDE DEF holds
    <2>1. QED
        BY <1>2, <1>4, <1>5, <1>6 DEF Lists
<1>8. Lists(p, holds, Len(text))
    BY <1>1, OpeningLists
<1>9. p = q
    <2> HIDE DEF p, holds
    <2>1. QED
        BY <1>1, <1>7, <1>8, ListsUnique
<1>10. Blocks(text) = [n \in 1..Len(q) |->
                   SubSeq(text, q[n], IF n = Len(q) THEN Len(text) ELSE q[n + 1] - 1)]
    BY <1>1, <1>9, BlocksIs
<1>11. ASSUME NEW n \in 1..Len(q)
       PROVE  SubSeq(text, q[n], IF n = Len(q) THEN Len(text) ELSE q[n + 1] - 1) = bs[n]
    <2>1. n \in 1..Len(bs)
        BY <1>2
    <2>2. SubSeq(text, o[n - 1] + 1, o[n]) = bs[n]
        BY <2>1, CutsPart
    <2>3. q[n] = o[n - 1] + 1
        BY <1>3
    <2>4. (IF n = Len(q) THEN Len(text) ELSE q[n + 1] - 1) = o[n]
        <3>1. CASE n = Len(q)
            BY <1>2, <3>1 DEF Cuts, Laid
        <3>2. CASE n # Len(q)
            <4>1. PICK m \in 1..Len(q) : m = n + 1
                BY <1>1, <1>2, <3>2
            <4>2. q[m] = o[m - 1] + 1 /\ m - 1 = n
                BY <1>3, <4>1
            <4>3. o[n] \in Nat
                BY <1>1, <2>1
            <4>4. q[m] - 1 = o[n]
                BY <4>2, <4>3
            <4>5. QED
                BY <3>2, <4>1, <4>4
        <3>3. QED
            BY <3>1, <3>2
    <2>5. QED
        BY <2>2, <2>3, <2>4
<1>12. Blocks(text) = [n \in 1..Len(bs) |-> bs[n]]
    BY <1>2, <1>10, <1>11
<1>13. QED
    BY <1>1, <1>12, SeqFacts

(* and a text without errors is cut into its blocks. *)
LEMMA BlocksCut ==
    ASSUME NEW text, IsSeq(text), ~HasErrors(text)
    PROVE  \E o : Cuts(text, Blocks(text), o)
<1> DEFINE holds == [i \in 1..Len(text) |-> Opens(text, i)]
           p == Opening(text)
           bs == Blocks(text)
           o == [n \in 0..Len(p) |-> IF n = Len(p) THEN Len(text) ELSE p[n + 1] - 1]
<1>1. /\ Lists(p, holds, Len(text))
      /\ Len(p) \in Nat /\ Len(text) \in Nat /\ DOMAIN text = 1..Len(text)
    BY OpeningLists, SeqFacts
<1>2. \A i \in 1..Len(text) : holds[i] <=> Opens(text, i)
    BY Zenon
<1>3. bs = [n \in 1..Len(p) |->
                   SubSeq(text, p[n], IF n = Len(p) THEN Len(text) ELSE p[n + 1] - 1)]
    BY BlocksIs
<1>4. \A n \in 1..Len(p) : p[n] \in 1..Len(text) /\ Opens(text, p[n])
    BY <1>1, <1>2 DEF Lists
<1>5. ASSUME NEW i \in 1..Len(text)
      PROVE  Opens(text, i) <=> ~Continues(text[i])
    <2>1. ~LineBroken(text, i)
        BY <1>1 DEF HasErrors
    <2>2. Continues(text[i]) => ~(i = 1 \/ text[i - 1].line = "own")
        BY <2>1 DEF LineBroken
    <2>3. QED
        BY <2>2 DEF Opens
<1> HIDE DEF p, bs, holds
<1>6. IsSeq(bs) /\ Len(bs) = Len(p)
    <2>1. bs = [i \in 1..Len(p) |-> bs[i]]
        BY <1>3
    <2>2. QED
        BY <1>1, <2>1, FcnIsSeq
<1>7. o[Len(p)] = Len(text) /\ \A n \in 0..Len(p) : n # Len(p) => o[n] = p[n + 1] - 1
    BY <1>1
<1> HIDE DEF o
<1>8. \A n \in 0..Len(p) : o[n] \in Nat
    <2>1. TAKE n \in 0..Len(p)
    <2>2. CASE n = Len(p)
        BY <1>1, <1>7, <2>2
    <2>3. CASE n # Len(p)
        <3>1. PICK m \in 1..Len(p) : m = n + 1
            BY <1>1, <2>3
        <3>2. o[n] = p[m] - 1 /\ p[m] \in 1..Len(text)
            BY <1>4, <1>7, <2>3, <3>1
        <3>3. QED
            BY <1>1, <3>2
    <2>4. QED
        BY <2>2, <2>3
<1>9. o[0] = 0
    <2>1. CASE Len(text) = 0
        <3>1. ~ \E n \in 1..Len(p) : TRUE
            BY <1>4, <2>1
        <3>2. Len(p) = 0
            BY <1>1, <3>1
        <3>3. QED
            BY <1>7, <2>1, <3>2
    <2>2. CASE Len(text) # 0
        <3>1. 1 \in 1..Len(text)
            BY <1>1, <2>2
        <3>2. Opens(text, 1)
            BY <3>1 DEF Opens
        <3>3. holds[1]
            BY <1>2, <3>1, <3>2
        <3>4. PICK n \in 1..Len(p) : p[n] = 1
            BY <1>1, <3>1, <3>3 DEF Lists
        <3>5. 1 \in 1..Len(p) /\ p[1] \in 1..Len(text)
            BY <1>1, <1>4, <3>4
        <3>6. 1 < n => p[1] < p[n]
            BY <1>1, <3>5 DEF Lists
        <3>7. p[1] = 1
            BY <1>1, <3>4, <3>5, <3>6
        <3>8. 0 # Len(p) /\ 0 \in 0..Len(p)
            BY <1>1, <3>5
        <3>9. o[0] = p[0 + 1] - 1
            BY <1>7, <3>8
        <3>10. QED
            BY <3>7, <3>9
    <2>3. QED
        BY <2>1, <2>2
<1>10. ASSUME NEW n \in 1..Len(p)
       PROVE  /\ p[n] = o[n - 1] + 1 /\ p[n] <= o[n] /\ o[n] <= Len(text) /\ o[n - 1] \in Nat
              /\ o[n] \in Nat
    <2>1. n - 1 \in 0..Len(p) /\ n - 1 # Len(p) /\ n - 1 + 1 = n /\ n \in 0..Len(p)
        BY <1>1
    <2>2. o[n - 1] = p[n] - 1 /\ p[n] \in 1..Len(text)
        BY <1>4, <1>7, <2>1
    <2>3. o[n] \in Nat /\ o[n - 1] \in Nat
        BY <1>8, <2>1
    <2>4. CASE n = Len(p)
        BY <1>1, <1>7, <2>2, <2>3, <2>4
    <2>5. CASE n # Len(p)
        <3>1. PICK m \in 1..Len(p) : m = n + 1
            BY <1>1, <2>5
        <3>2. n < m
            BY <3>1
        <3>3. p[n] < p[m]
            BY <1>1, <3>2 DEF Lists
        <3>4. o[n] = p[m] - 1 /\ p[m] \in 1..Len(text)
            BY <1>4, <1>7, <2>1, <2>5, <3>1
        <3>5. QED
            BY <1>1, <2>2, <2>3, <3>3, <3>4
    <2>6. QED
        BY <2>4, <2>5
<1>11. ASSUME NEW n \in 1..Len(p)
       PROVE  /\ IsSeq(bs[n]) /\ Len(bs[n]) = o[n] - o[n - 1] /\ Len(bs[n]) >= 1
              /\ \A j \in 1..Len(bs[n]) : text[o[n - 1] + j] = bs[n][j]
    <2>1. bs[n] = SubSeq(text, p[n], o[n])
        <3>1. n \in 0..Len(p)
            BY <1>1
        <3>2. o[n] = IF n = Len(p) THEN Len(text) ELSE p[n + 1] - 1
            BY <1>7, <3>1
        <3>3. QED
            BY <1>3, <3>2
    <2>2. PICK a \in Nat \ {0} : a = p[n]
        BY <1>4
    <2>3. PICK e \in Nat : e = o[n]
        BY <1>10
    <2>4. e <= Len(text) /\ a <= e + 1 /\ a <= e
        BY <1>10, <2>2, <2>3
    <2>5. /\ IsSeq(SubSeq(text, a, e)) /\ Len(SubSeq(text, a, e)) = e + 1 - a
          /\ \A i \in 1..e + 1 - a : SubSeq(text, a, e)[i] = text[a + i - 1]
        BY <2>4, Part
    <2>6. PICK c \in Nat : c = o[n - 1]
        BY <1>10
    <2>7. a = c + 1
        BY <1>10, <2>2, <2>6
    <2>8. e + 1 - a = e - c
        BY <2>7
    <2>9. \A j \in 1..Len(bs[n]) : text[o[n - 1] + j] = bs[n][j]
        <3>1. TAKE j \in 1..Len(bs[n])
        <3>2. j \in 1..e + 1 - a /\ bs[n] = SubSeq(text, a, e)
            BY <2>1, <2>2, <2>3, <2>5
        <3>3. bs[n][j] = text[a + j - 1]
            BY <2>5, <3>2
        <3>4. a + j - 1 = c + j
            BY <2>7, <3>2
        <3>5. QED
            BY <2>6, <3>3, <3>4
    <2>10. Len(bs[n]) = e - c
        BY <2>1, <2>2, <2>3, <2>5, <2>8
    <2>11. IsSeq(bs[n])
        BY <2>1, <2>2, <2>3, <2>5
    <2>12. e - c >= 1
        BY <2>4, <2>7
    <2>13. QED
        BY <2>3, <2>6, <2>9, <2>10, <2>11, <2>12
<1>12. ASSUME NEW n \in 1..Len(p)
       PROVE  IsBlock(bs[n]) /\ o[n] = o[n - 1] + Len(bs[n])
    <2>1. /\ IsSeq(bs[n]) /\ Len(bs[n]) = o[n] - o[n - 1] /\ Len(bs[n]) >= 1
          /\ \A j \in 1..Len(bs[n]) : text[o[n - 1] + j] = bs[n][j]
        BY <1>11
    <2>2. /\ p[n] = o[n - 1] + 1 /\ p[n] <= o[n] /\ o[n] <= Len(text) /\ o[n - 1] \in Nat
          /\ o[n] \in Nat /\ Len(bs[n]) \in Nat
        BY <1>10, <2>1, SeqFacts
    <2>3. o[n] = o[n - 1] + Len(bs[n])
        BY <2>1, <2>2
    <2>4. ~Continues(bs[n][1])
        <3>1. 1 \in 1..Len(bs[n])
            BY <2>1, <2>2
        <3>2. bs[n][1] = text[p[n]]
            BY <2>1, <2>2, <3>1
        <3>3. QED
            BY <1>4, <1>5, <3>2
    <2>5. ASSUME NEW j \in 2..Len(bs[n])
          PROVE  Continues(bs[n][j]) /\ bs[n][j - 1].line # "own"
        <3>1. PICK c \in Nat : c = o[n - 1]
            BY <2>2
        <3>2. PICK i \in 1..Len(text) : i = c + j
            BY <1>1, <2>2, <2>3, <3>1
        <3>3. p[n] < i /\ i <= o[n]
            BY <2>2, <2>3, <3>1, <3>2
        <3>4. ~holds[i]
            <4>1. SUFFICES ASSUME holds[i] PROVE FALSE
                OBVIOUS
            <4>2. n + 1 <= Len(p) /\ p[n + 1] <= i
                BY <1>1, <3>3, <4>1, ListsBetween
            <4>3. n # Len(p) /\ n \in 0..Len(p) /\ n + 1 \in 1..Len(p)
                BY <1>1, <4>2
            <4>4. o[n] = p[n + 1] - 1 /\ p[n + 1] \in 1..Len(text)
                BY <1>4, <1>7, <4>3
            <4>5. QED
                BY <1>1, <3>3, <4>2, <4>4
        <3>5. ~Opens(text, i)
            BY <1>2, <3>4
        <3>6. Continues(text[i]) /\ text[i - 1].line # "own"
            BY <3>5 DEF Opens
        <3>7. j \in 1..Len(bs[n]) /\ j - 1 \in 1..Len(bs[n])
            BY <2>2
        <3>8. text[c + j] = bs[n][j] /\ text[c + (j - 1)] = bs[n][j - 1]
            BY <2>1, <3>1, <3>7
        <3>9. i - 1 = c + (j - 1)
            BY <2>2, <3>2
        <3>10. QED
            BY <3>2, <3>6, <3>8, <3>9
    <2>6. QED
        BY <2>1, <2>3, <2>4, <2>5 DEF IsBlock
<1>13. Cuts(text, bs, o)
    <2>1. \A n \in 0..Len(bs) : o[n] \in Nat
        BY <1>6, <1>8
    <2>2. \A n \in 1..Len(bs) : IsBlock(bs[n]) /\ o[n] = o[n - 1] + Len(bs[n])
        BY <1>6, <1>12
    <2>3. \A n \in 1..Len(bs) : \A j \in 1..Len(bs[n]) : text[o[n - 1] + j] = bs[n][j]
        BY <1>6, <1>11
    <2>4. o[0] = 0 /\ o[Len(bs)] = Len(text)
        BY <1>6, <1>7, <1>9
    <2>5. QED
        BY <1>6, <2>1, <2>2, <2>3, <2>4, BlockIsPart DEF Cuts, Laid
<1>14. QED
    BY <1>13 DEF bs

----------------------------------------------------------------------------
(* The spans that Parse finds are those of blocks *)

(* The node that starts at a block ends with it. *)
LEMMA NodeEndIs ==
    ASSUME NEW text, NEW bs, NEW o, Cuts(text, bs, o), NEW m \in 1..Len(bs)
    PROVE  NodeEnd(text, o[m - 1] + 1) = o[m]
<1>1. /\ Len(text) \in Nat /\ Len(bs) \in Nat
      /\ \A n \in 1..Len(bs) : Len(bs[n]) \in Nat \ {0} /\ o[n - 1] \in Nat /\ o[n] \in Nat
                               /\ o[n - 1] < o[n]
    BY CutsLens
<1>2. PICK a \in Nat : a = o[m - 1]
    BY <1>1
<1>3. PICK e \in Nat : e = o[m]
    BY <1>1
<1>4. e <= Len(text)
    <2>1. m \in 0..Len(bs) /\ Len(bs) \in 0..Len(bs) /\ m <= Len(bs)
        BY <1>1
    <2>2. o[m] <= o[Len(bs)]
        BY <2>1, CutsGrow
    <2>3. QED
        BY <1>3, <2>2 DEF Cuts, Laid
<1>5. a + 1 <= e /\ e = a + Len(bs[m])
    <2>1. a < e
        BY <1>1, <1>2, <1>3
    <2>2. o[m] = o[m - 1] + Len(bs[m])
        BY DEF Cuts, Laid
    <2>3. QED
        BY <1>2, <1>3, <2>1, <2>2
<1> DEFINE Fits(x) == /\ \A j \in (a + 1) + 1..x : Continues(text[j])
                      /\ x = Len(text) \/ ~Continues(text[x + 1])
<1>6. \A j \in (a + 1) + 1..e : Continues(text[j])
    <2>1. TAKE j \in (a + 1) + 1..e
    <2>2. PICK k \in Nat : k = j - a
        OBVIOUS
    <2>3. k \in 1..Len(bs[m]) /\ k # 1 /\ a + k = j
        BY <1>5, <2>2
    <2>4. Continues(text[o[m - 1] + k]) <=> k # 1
        BY <2>3, CutsOpens
    <2>5. QED
        BY <1>2, <2>3, <2>4
<1>7. e = Len(text) \/ ~Continues(text[e + 1])
    <2>1. CASE m = Len(bs)
        BY <1>3, <2>1 DEF Cuts, Laid
    <2>2. CASE m # Len(bs)
        <3>1. PICK n \in 1..Len(bs) : n = m + 1
            BY <1>1, <2>2
        <3>2. 1 \in 1..Len(bs[n])
            BY <1>1
        <3>3. Continues(text[o[n - 1] + 1]) <=> 1 # 1
            BY <3>2, CutsOpens
        <3>4. n - 1 = m
            BY <3>1
        <3>5. QED
            BY <1>3, <3>3, <3>4
    <2>3. QED
        BY <2>1, <2>2
<1>8. Fits(e) /\ e \in a + 1..Len(text)
    BY <1>1, <1>4, <1>5, <1>6, <1>7
<1>9. ASSUME NEW x \in a + 1..Len(text), Fits(x)
      PROVE  x = e
    <2>1. ~(x < e)
        <3>1. SUFFICES ASSUME x < e PROVE FALSE
            OBVIOUS
        <3>2. x # Len(text) /\ x + 1 \in (a + 1) + 1..e
            BY <1>1, <1>4, <3>1
        <3>3. QED
            BY <1>6, <1>9, <3>2
    <2>2. ~(e < x)
        <3>1. SUFFICES ASSUME e < x PROVE FALSE
            OBVIOUS
        <3>2. e # Len(text) /\ e + 1 \in (a + 1) + 1..x
            BY <1>1, <1>5, <3>1
        <3>3. QED
            BY <1>7, <1>9, <3>2
    <2>3. QED
        BY <2>1, <2>2
<1>10. NodeEnd(text, a + 1) = CHOOSE x \in a + 1..Len(text) : Fits(x)
    BY DEF NodeEnd
<1> HIDE DEF Fits
<1>11. NodeEnd(text, a + 1) = e
    BY <1>8, <1>9, <1>10
<1>12. QED
    BY <1>2, <1>3, <1>11

(* The heads of a text. *)
LEMMA HeadsList ==
    ASSUME NEW text, IsSeq(text)
    PROVE  /\ Lists(Heads(text), [i \in 1..Len(text) |-> text[i].line = "head"], Len(text))
           /\ Len(Heads(text)) \in Nat /\ DOMAIN Heads(text) = 1..Len(Heads(text))
<1> DEFINE holds == [i \in 1..Len(text) |-> text[i].line = "head"]
<1>1. Len(text) \in Nat /\ DOMAIN text = 1..Len(text)
    BY SeqFacts
<1>2. Len(holds) = Len(text)
    <2>1. holds = [i \in 1..Len(text) |-> holds[i]]
        OBVIOUS
    <2> HIDE DEF holds
    <2>2. QED
        BY <1>1, <2>1, FcnIsSeq
<1>3. Heads(text) = Places(holds)
    BY <1>1 DEF Heads
<1> HIDE DEF holds
<1>4. Lists(Heads(text), holds, Len(text))
    BY <1>1, <1>2, <1>3, PlacesList
<1>5. IsSeq(Heads(text))
    BY <1>4 DEF Lists
<1>6. QED
    BY <1>4, <1>5, SeqFacts DEF holds

(* Directive n of the text is block m. *)
NodeIs(text, bs, o, n, m) ==
    /\ Heads(text)[n] = o[m - 1] + 1
    /\ Parse(text)[n].start = o[m - 1] /\ Parse(text)[n].end = o[m]
    /\ IngestID(Parse(text)[n].d) = BlockID(bs[m])

(* There is one directive for each head. *)
LEMMA ParseDomain ==
    ASSUME NEW text, NEW bs, NEW o, Cuts(text, bs, o)
    PROVE  /\ DOMAIN Parse(text) = 1..Len(Heads(text)) /\ Len(Heads(text)) \in Nat
           /\ \A k, n \in 1..Len(Heads(text)) : k < n => Heads(text)[k] < Heads(text)[n]
<1>1. IsSeq(text)
    BY DEF Cuts, Laid
<1>2. /\ Lists(Heads(text), [i \in 1..Len(text) |-> text[i].line = "head"], Len(text))
      /\ Len(Heads(text)) \in Nat /\ DOMAIN Heads(text) = 1..Len(Heads(text))
    BY <1>1, HeadsList
<1>3. DOMAIN Parse(text) = DOMAIN Heads(text)
    BY DEF Parse
<1>4. \A k, n \in 1..Len(Heads(text)) : k < n => Heads(text)[k] < Heads(text)[n]
    <2> DEFINE holds == [i \in 1..Len(text) |-> text[i].line = "head"]
    <2>1. Lists(Heads(text), holds, Len(text))
        BY <1>2
    <2> HIDE DEF holds
    <2>2. QED
        BY <2>1 DEF Lists
<1>5. QED
    BY <1>2, <1>3, <1>4

(* The directive of a head is of the block that the head opens. *)
LEMMA NodeOfHead ==
    ASSUME NEW text, NEW bs, NEW o, Cuts(text, bs, o), NEW n \in 1..Len(Heads(text)),
           NEW m \in 1..Len(bs), Heads(text)[n] = o[m - 1] + 1
    PROVE  NodeIs(text, bs, o, n, m)
<1>1. /\ o[m - 1] \in Nat /\ o[m] \in Nat /\ 1 \in 1..Len(bs[m]) /\ IsSeq(text)
    <2>1. o[m - 1] \in Nat /\ o[m] \in Nat /\ Len(bs[m]) \in Nat \ {0}
        BY CutsLens
    <2>2. IsSeq(text)
        BY DEF Cuts, Laid
    <2>3. QED
        BY <2>1, <2>2
<1>2. PICK i : i = o[m - 1] + 1
    OBVIOUS
<1>3. i \in 1..Len(text) /\ text[i] = bs[m][1]
    BY <1>1, <1>2, CutsOpens, SMTT(60)
<1>4. NodeEnd(text, i) = o[m]
    BY <1>2, NodeEndIs
<1>5. SubSeq(text, i, o[m]) = bs[m]
    BY <1>2, CutsPart
<1>6. text[i].line = "head"
    <2> DEFINE holds == [j \in 1..Len(text) |-> text[j].line = "head"]
    <2>1. Lists(Heads(text), holds, Len(text))
        BY <1>1, HeadsList
    <2>2. holds[i] <=> text[i].line = "head"
        BY Zenon, <1>3
    <2> HIDE DEF holds
    <2>3. holds[Heads(text)[n]]
        BY <2>1 DEF Lists
    <2>4. QED
        BY <1>2, <2>2, <2>3
<1>7. DOMAIN text = 1..Len(text) /\ DOMAIN Heads(text) = 1..Len(Heads(text))
    BY <1>1, SeqFacts, HeadsList
<1>8. Parse(text)[n] = [d |-> Convert(SubSeq(text, i, NodeEnd(text, i))), start |-> i - 1, end |-> NodeEnd(text, i)]
    BY <1>2, <1>3, <1>7 DEF Parse
<1>9. Parse(text)[n] = [d |-> Convert(bs[m]), start |-> i - 1, end |-> o[m]]
    BY <1>4, <1>5, <1>8
<1>10. i - 1 = o[m - 1]
    BY <1>1, <1>2
<1>11. IngestID(Convert(bs[m])) = BlockID(bs[m])
    BY <1>3, <1>6 DEF BlockID
<1>12. QED
    BY <1>9, <1>10, <1>11 DEF NodeIs

(* Every directive is a block, *)
LEMMA NodeHasBlock ==
    ASSUME NEW text, NEW bs, NEW o, Cuts(text, bs, o), NEW n \in 1..Len(Heads(text))
    PROVE  \E m \in 1..Len(bs) : NodeIs(text, bs, o, n, m)
<1> DEFINE holds == [j \in 1..Len(text) |-> text[j].line = "head"]
<1>1. IsSeq(text)
    BY DEF Cuts, Laid
<1>2. Lists(Heads(text), holds, Len(text))
    BY <1>1, HeadsList
<1>3. \A j \in 1..Len(text) : holds[j] <=> text[j].line = "head"
    BY Zenon
<1> HIDE DEF holds
<1>4. Heads(text)[n] \in 1..Len(text) /\ holds[Heads(text)[n]]
    BY <1>2 DEF Lists
<1>5. PICK i \in 1..Len(text) : i = Heads(text)[n]
    BY <1>4
<1>6. text[i].line = "head"
    BY <1>3, <1>4, <1>5
<1>7. PICK m \in 1..Len(bs) : o[m - 1] < i /\ i <= o[m]
    BY CutsCover
<1>8. /\ o[m - 1] \in Nat /\ o[m] \in Nat /\ Len(bs[m]) \in Nat /\ Len(text) \in Nat
      /\ o[m] = o[m - 1] + Len(bs[m])
    BY CutsLens DEF Cuts, Laid
<1>9. PICK j \in Nat : j = i - o[m - 1]
    BY <1>7, <1>8
<1>10. j \in 1..Len(bs[m]) /\ o[m - 1] + j = i
    BY <1>7, <1>8, <1>9, SMTT(30)
<1>11. Continues(text[o[m - 1] + j]) <=> j # 1
    BY <1>10, CutsOpens
<1>12. ~Continues(text[i])
    BY <1>6 DEF Continues
<1>13. j = 1
    BY <1>10, <1>11, <1>12
<1>14. Heads(text)[n] = o[m - 1] + 1
    BY <1>5, <1>10, <1>13
<1>15. QED
    BY <1>14, NodeOfHead

(* and every block with an id is one. *)
LEMMA BlockHasNode ==
    ASSUME NEW text, NEW bs, NEW o, Cuts(text, bs, o), NEW m \in 1..Len(bs),
           BlockID(bs[m]) # Nothing
    PROVE  \E n \in 1..Len(Heads(text)) : NodeIs(text, bs, o, n, m)
<1> DEFINE holds == [j \in 1..Len(text) |-> text[j].line = "head"]
<1>1. IsSeq(text)
    BY DEF Cuts, Laid
<1>2. Lists(Heads(text), holds, Len(text))
    BY <1>1, HeadsList
<1>3. \A j \in 1..Len(text) : holds[j] <=> text[j].line = "head"
    BY Zenon
<1> HIDE DEF holds
<1>4. bs[m][1].line = "head"
    BY DEF BlockID
<1>5. 1 \in 1..Len(bs[m])
    BY CutsLens
<1>6. o[m - 1] + 1 \in 1..Len(text) /\ text[o[m - 1] + 1] = bs[m][1]
    BY <1>5, CutsOpens
<1>7. holds[o[m - 1] + 1]
    BY <1>3, <1>4, <1>6
<1>8. PICK n \in 1..Len(Heads(text)) : Heads(text)[n] = o[m - 1] + 1
    BY <1>2, <1>6, <1>7 DEF Lists
<1>9. QED
    BY <1>8, NodeOfHead

(* Block n is the last of its id. *)
Counts(bs, n) ==
    /\ BlockID(bs[n]) # Nothing
    /\ \A m \in n + 1..Len(bs) : BlockID(bs[m]) # BlockID(bs[n])

(* Where there is a block of an id, there is one that counts. *)
LEMMA LastCounts ==
    ASSUME NEW bs, Len(bs) \in Nat, NEW id, id # Nothing,
           NEW k \in 1..Len(bs), BlockID(bs[k]) = id
    PROVE  \E n \in 1..Len(bs) : BlockID(bs[n]) = id /\ Counts(bs, n)
<1> DEFINE S == {d \in Nat : d < Len(bs) /\ BlockID(bs[Len(bs) - d]) = id}
<1>1. Len(bs) - k \in S
    <2>1. Len(bs) - (Len(bs) - k) = k
        OBVIOUS
    <2>2. QED
        BY <2>1
<1>2. PICK d \in S : \A e \in S : d <= e
    <2>1. S \in SUBSET Nat /\ S # {}
        BY <1>1
    <2> HIDE DEF S
    <2>2. QED
        BY <2>1, LeastNat
<1>3. PICK n \in 1..Len(bs) : n = Len(bs) - d
    BY <1>2
<1>4. BlockID(bs[n]) = id
    BY <1>2, <1>3
<1>5. ASSUME NEW m \in n + 1..Len(bs)
      PROVE  BlockID(bs[m]) # id
    <2>1. PICK e \in Nat : e = Len(bs) - m
        OBVIOUS
    <2>2. e < d /\ Len(bs) - e = m /\ e < Len(bs)
        BY <1>2, <1>3, <2>1
    <2>3. e \notin S
        BY <1>2, <2>2
    <2>4. QED
        BY <2>1, <2>2, <2>3
<1>6. QED
    BY <1>4, <1>5 DEF Counts

(* The greatest element is Max. *)
LEMMA MaxIs ==
    ASSUME NEW S, NEW x \in S, \A y \in S : y \in Nat /\ y <= x
    PROVE  Max(S) = x
<1>1. \A y \in S : x >= y
    OBVIOUS
<1>2. ASSUME NEW z \in S, \A y \in S : z >= y
      PROVE  z = x
    <2>1. z >= x /\ z <= x /\ x \in Nat /\ z \in Nat
        BY <1>2
    <2>2. QED
        BY <2>1
<1>3. QED
    BY <1>1, <1>2 DEF Max

(* The ids of the directives are those of the blocks, *)
LEMMA SpansDomain ==
    ASSUME NEW text, NEW bs, NEW o, Cuts(text, bs, o)
    PROVE  DOMAIN IdSpan(Parse(text)) = {BlockID(bs[m]) : m \in 1..Len(bs)} \ {Nothing}
<1>1. DOMAIN Parse(text) = 1..Len(Heads(text))
    BY ParseDomain
<1>2. DOMAIN IdSpan(Parse(text)) = {IngestID(Parse(text)[n].d) : n \in DOMAIN Parse(text)} \ {Nothing}
    BY DEF IdSpan
<1>3. \A n \in 1..Len(Heads(text)) : \E m \in 1..Len(bs) : IngestID(Parse(text)[n].d) = BlockID(bs[m])
    BY NodeHasBlock DEF NodeIs
<1>4. \A m \in 1..Len(bs) : BlockID(bs[m]) # Nothing =>
          \E n \in 1..Len(Heads(text)) : IngestID(Parse(text)[n].d) = BlockID(bs[m])
    BY BlockHasNode DEF NodeIs
<1>5. QED
    BY <1>1, <1>2, <1>3, <1>4

(* and the span of an id is that of the last block that has it. *)
LEMMA SpanIs ==
    ASSUME NEW text, NEW bs, NEW o, Cuts(text, bs, o), NEW m \in 1..Len(bs), Counts(bs, m)
    PROVE  /\ IdSpan(Parse(text))[BlockID(bs[m])].start = o[m - 1]
           /\ IdSpan(Parse(text))[BlockID(bs[m])].end = o[m]
<1> DEFINE dirs == Parse(text)
           id == BlockID(bs[m])
           S == {n \in DOMAIN dirs : IngestID(dirs[n].d) = id}
<1>1. DOMAIN dirs = 1..Len(Heads(text)) /\ Len(Heads(text)) \in Nat
    BY ParseDomain
<1>2. id # Nothing
    BY DEF Counts
<1>3. PICK x \in 1..Len(Heads(text)) : NodeIs(text, bs, o, x, m)
    BY <1>2, BlockHasNode
<1>4. x \in S
    BY <1>1, <1>3 DEF NodeIs
<1>5. ASSUME NEW y \in S
      PROVE  y <= x
    <2>1. y \in 1..Len(Heads(text)) /\ IngestID(dirs[y].d) = id
        BY <1>1
    <2>2. PICK k \in 1..Len(bs) : NodeIs(text, bs, o, y, k)
        BY <2>1, NodeHasBlock
    <2>3. BlockID(bs[k]) = id
        BY <2>1, <2>2 DEF NodeIs
    <2>4. /\ Len(bs) \in Nat /\ o[k - 1] \in Nat /\ o[m - 1] \in Nat
        BY CutsLens
    <2>5. ~(m < k)
        <3>1. m < k => k \in m + 1..Len(bs)
            BY <2>4
        <3>2. QED
            BY <2>3, <3>1 DEF Counts
    <2>6. o[k - 1] <= o[m - 1]
        <3>1. PICK a \in 0..Len(bs) : a = k - 1
            BY <2>4
        <3>2. PICK b \in 0..Len(bs) : b = m - 1
            BY <2>4
        <3>3. a <= b
            BY <2>4, <2>5, <3>1, <3>2
        <3>4. o[a] <= o[b]
            BY <3>3, CutsGrow
        <3>5. QED
            BY <3>1, <3>2, <3>4
    <2>7. Heads(text)[y] = o[k - 1] + 1 /\ Heads(text)[x] = o[m - 1] + 1
        BY <1>3, <2>2 DEF NodeIs
    <2>8. ~(x < y)
        <3>1. x < y => Heads(text)[x] < Heads(text)[y]
            BY <2>1, ParseDomain
        <3>2. Heads(text)[y] <= Heads(text)[x]
            BY <2>4, <2>6, <2>7
        <3>3. Heads(text)[x] \in Nat /\ Heads(text)[y] \in Nat
            BY <2>4, <2>7, SMTT(30)
        <3>4. QED
            BY <3>1, <3>2, <3>3
    <2>9. QED
        BY <1>1, <2>1, <2>8
<1>6. Max(S) = x
    <2>1. \A y \in S : y \in Nat /\ y <= x
        <3>1. \A y \in S : y \in Nat
            BY <1>1
        <3> HIDE DEF S
        <3>2. QED
            BY <1>5, <3>1
    <2> HIDE DEF S
    <2>2. QED
        BY <1>4, <2>1, MaxIs
<1>7. IdSpan(dirs)[id] = dirs[Max(S)]
    <2>1. id \in {IngestID(dirs[n].d) : n \in DOMAIN dirs} \ {Nothing}
        BY <1>2, <1>4
    <2> HIDE DEF id, dirs
    <2>2. QED
        BY <2>1 DEF IdSpan
<1>8. QED
    <2>1. IdSpan(dirs)[id] = dirs[x]
        BY <1>6, <1>7
    <2>2. QED
        BY <1>3, <2>1 DEF NodeIs

----------------------------------------------------------------------------
(* Replacements, from the end of the text to its start *)

(* The replacements that are made before one. *)
Before(rs, i) == {j \in DOMAIN rs : \/ rs[j].start > rs[i].start
                                    \/ rs[j].start = rs[i].start /\ j < i}

(* Made before is a strict order of all replacements. *)
LEMMA BeforeFacts ==
    ASSUME NEW rs, IsSeq(rs), \A i \in 1..Len(rs) : rs[i].start \in Nat
    PROVE  /\ \A i \in 1..Len(rs) : /\ IsFiniteSet(Before(rs, i))
                                    /\ Cardinality(Before(rs, i)) \in 0..Len(rs) - 1
           /\ \A i, k \in 1..Len(rs) : i \in Before(rs, k) =>
                  Cardinality(Before(rs, i)) < Cardinality(Before(rs, k))
           /\ \A i, k \in 1..Len(rs) : i # k => i \in Before(rs, k) \/ k \in Before(rs, i)
<1>1. Len(rs) \in Nat /\ DOMAIN rs = 1..Len(rs)
    BY SeqFacts
<1> DEFINE N == Len(rs)
<1>2. IsFiniteSet(1..N) /\ Cardinality(1..N) = N
    <2>1. 1 \in Int /\ N \in Int
        BY <1>1
    <2>2. IsFiniteSet(1..N) /\ Cardinality(1..N) = IF 1 > N THEN 0 ELSE N - 1 + 1
        BY <2>1, FS_Interval
    <2>3. QED
        BY <1>1, <2>2
<1>3. ASSUME NEW i \in 1..N
      PROVE  Before(rs, i) \in SUBSET (1..N) /\ i \notin Before(rs, i)
    BY <1>1 DEF Before
<1>4. ASSUME NEW i \in 1..N
      PROVE  IsFiniteSet(Before(rs, i)) /\ Cardinality(Before(rs, i)) \in 0..N - 1
    <2>1. Before(rs, i) \in SUBSET (1..N)
        BY <1>3
    <2>2. /\ IsFiniteSet(Before(rs, i)) /\ Cardinality(Before(rs, i)) <= N
          /\ N = Cardinality(Before(rs, i)) => 1..N = Before(rs, i)
        BY <1>2, <2>1, FS_Subset
    <2>3. Cardinality(Before(rs, i)) \in Nat
        BY <2>2, FS_CardinalityType
    <2>4. N # Cardinality(Before(rs, i))
        BY <1>3, <2>2
    <2>5. QED
        BY <1>1, <2>2, <2>3, <2>4
<1>5. ASSUME NEW i \in 1..N, NEW k \in 1..N, i \in Before(rs, k)
      PROVE  Cardinality(Before(rs, i)) < Cardinality(Before(rs, k))
    <2>1. Before(rs, i) \in SUBSET Before(rs, k)
        <3>1. ASSUME NEW j \in Before(rs, i)
              PROVE  j \in Before(rs, k)
            <4>1. j \in 1..N /\ (rs[j].start > rs[i].start \/ (rs[j].start = rs[i].start /\ j < i))
                BY <1>1 DEF Before
            <4>2. rs[i].start > rs[k].start \/ (rs[i].start = rs[k].start /\ i < k)
                BY <1>5 DEF Before
            <4>3. rs[j].start \in Nat /\ rs[i].start \in Nat /\ rs[k].start \in Nat
                BY <4>1
            <4>4. rs[j].start > rs[k].start \/ (rs[j].start = rs[k].start /\ j < k)
                BY <1>1, <4>1, <4>2, <4>3
            <4>5. QED
                BY <1>1, <4>1, <4>4 DEF Before
        <3>2. QED
            BY <3>1
    <2>2. i \notin Before(rs, i)
        BY <1>3
    <2>3. Before(rs, i) # Before(rs, k)
        BY <1>5, <2>2
    <2>4. IsFiniteSet(Before(rs, k))
        BY <1>4
    <2>5. /\ Cardinality(Before(rs, i)) <= Cardinality(Before(rs, k))
          /\ Cardinality(Before(rs, k)) = Cardinality(Before(rs, i)) => Before(rs, k) = Before(rs, i)
        BY <2>1, <2>4, FS_Subset
    <2>6. Cardinality(Before(rs, i)) \in 0..N - 1 /\ Cardinality(Before(rs, k)) \in 0..N - 1
        BY <1>4
    <2>7. QED
        BY <1>1, <2>3, <2>5, <2>6
<1>6. ASSUME NEW i \in 1..N, NEW k \in 1..N, i # k
      PROVE  i \in Before(rs, k) \/ k \in Before(rs, i)
    <2>1. rs[i].start \in Nat /\ rs[k].start \in Nat
        OBVIOUS
    <2>2. \/ rs[i].start > rs[k].start \/ (rs[i].start = rs[k].start /\ i < k)
          \/ rs[k].start > rs[i].start \/ (rs[k].start = rs[i].start /\ k < i)
        BY <1>1, <1>6, <2>1
    <2>3. QED
        BY <1>1, <2>2 DEF Before
<1>7. QED
    BY <1>4, <1>5, <1>6

(* f lists the replacements in the order in which they are made. *)
Ranks(rs, f) ==
    /\ f \in [1..Len(rs) -> 1..Len(rs)]
    /\ FromTheEnd(rs) = [n \in 1..Len(rs) |-> rs[f[n]]]
    /\ \A a, b \in 1..Len(rs) : a < b => f[a] \in Before(rs, f[b])
    /\ \A i \in 1..Len(rs) : \E n \in 1..Len(rs) : f[n] = i

(* FromTheEnd puts them in that order, *)
LEMMA FromTheEndRanks ==
    ASSUME NEW rs, IsSeq(rs), \A i \in 1..Len(rs) : rs[i].start \in Nat
    PROVE  \E f : Ranks(rs, f)
<1> DEFINE N == Len(rs)
           rank == [i \in 1..N |-> Cardinality(Before(rs, i))]
           nth(n) == CHOOSE i \in DOMAIN rs : Cardinality(Before(rs, i)) = n - 1
           f == [n \in 1..N |-> nth(n)]
<1>1. N \in Nat /\ DOMAIN rs = 1..N
    BY SeqFacts
<1>2. /\ \A i \in 1..N : rank[i] \in 0..N - 1
      /\ \A i, k \in 1..N : i \in Before(rs, k) => rank[i] < rank[k]
      /\ \A i, k \in 1..N : i # k => i \in Before(rs, k) \/ k \in Before(rs, i)
    BY BeforeFacts
<1>3. FromTheEnd(rs) = [n \in 1..N |-> rs[f[n]]]
    <2>1. FromTheEnd(rs) = [n \in DOMAIN rs |-> rs[nth(n)]]
        BY Zenon DEF FromTheEnd, Before
    <2>2. \A n \in 1..N : f[n] = nth(n)
        OBVIOUS
    <2> HIDE DEF f, nth
    <2>3. QED
        BY <1>1, <2>1, <2>2
<1>4. rank \in Injection(1..N, 0..N - 1)
    <2>1. rank \in [1..N -> 0..N - 1]
        BY <1>2
    <2>2. ASSUME NEW i \in 1..N, NEW k \in 1..N, rank[i] = rank[k]
          PROVE  i = k
        <3>1. rank[i] \in Nat /\ rank[k] \in Nat
            BY <1>1, <1>2
        <3> HIDE DEF rank
        <3>2. QED
            BY <1>2, <2>2, <3>1
    <2>3. DOMAIN rank = 1..N
        OBVIOUS
    <2> HIDE DEF rank
    <2>4. IsInjective(rank)
        BY <2>2, <2>3 DEF IsInjective
    <2>5. QED
        BY <2>1, <2>4 DEF Injection
<1> HIDE DEF rank
<1>5. /\ IsFiniteSet(1..N) /\ Cardinality(1..N) = N
      /\ IsFiniteSet(0..N - 1) /\ Cardinality(0..N - 1) = N
    <2>1. 1 \in Int /\ N \in Int /\ 0 \in Int /\ N - 1 \in Int
        BY <1>1
    <2>2. IsFiniteSet(1..N) /\ Cardinality(1..N) = IF 1 > N THEN 0 ELSE N - 1 + 1
        BY <2>1, FS_Interval
    <2>3. IsFiniteSet(0..N - 1) /\ Cardinality(0..N - 1) = IF 0 > N - 1 THEN 0 ELSE N - 1 - 0 + 1
        BY <2>1, FS_Interval
    <2>4. QED
        BY <1>1, <2>2, <2>3
<1>6. rank \in Surjection(1..N, 0..N - 1)
    BY <1>4, <1>5, FS_Injection
<1>7. \A n \in 1..N : f[n] \in 1..N /\ rank[f[n]] = n - 1
    <2>1. TAKE n \in 1..N
    <2>2. n - 1 \in 0..N - 1
        BY <1>1
    <2>3. \E i \in 1..N : rank[i] = n - 1
        BY <1>6, <2>2 DEF Surjection
    <2>4. \E i \in DOMAIN rs : Cardinality(Before(rs, i)) = n - 1
        BY <1>1, <2>3 DEF rank
    <2>5. nth(n) \in DOMAIN rs /\ Cardinality(Before(rs, nth(n))) = n - 1
        BY <2>4
    <2>6. f[n] = nth(n)
        OBVIOUS
    <2> HIDE DEF nth, f
    <2>7. QED
        BY <1>1, <2>5, <2>6 DEF rank
<1>8. f \in [1..N -> 1..N]
    <2>1. f = [n \in 1..N |-> f[n]]
        OBVIOUS
    <2> HIDE DEF f
    <2>2. QED
        BY <1>7, <2>1
<1> HIDE DEF f
<1>9. ASSUME NEW a \in 1..N, NEW b \in 1..N, a < b
      PROVE  f[a] \in Before(rs, f[b])
    <2>1. f[a] \in 1..N /\ f[b] \in 1..N /\ rank[f[a]] = a - 1 /\ rank[f[b]] = b - 1
        BY <1>7
    <2>2. a - 1 < b - 1
        BY <1>9
    <2>3. f[a] # f[b] /\ ~(f[b] \in Before(rs, f[a]))
        <3>1. f[b] \in Before(rs, f[a]) => b - 1 < a - 1
            BY <1>2, <2>1
        <3>2. QED
            BY <2>1, <2>2, <3>1
    <2>4. QED
        BY <1>2, <2>1, <2>3
<1>10. ASSUME NEW i \in 1..N
       PROVE  \E n \in 1..N : f[n] = i
    <2>1. PICK n \in 1..N : n = rank[i] + 1
        BY <1>1, <1>2
    <2>2. rank[f[n]] = rank[i]
        BY <1>1, <1>2, <1>7, <2>1
    <2>3. f[n] \in 1..N
        BY <1>7
    <2>4. f[n] = i
        BY <1>4, <2>2, <2>3 DEF Injection, IsInjective
    <2>5. QED
        BY <2>4
<1>11. QED
    <2>1. Ranks(rs, f)
        BY <1>3, <1>8, <1>9, <1>10 DEF Ranks
    <2>2. QED
        BY <2>1

(* f lists the replacements, the last first. *)
Descends(rs, f) ==
    /\ f \in [1..Len(rs) -> 1..Len(rs)]
    /\ FromTheEnd(rs) = [n \in 1..Len(rs) |-> rs[f[n]]]
    /\ \A a, b \in 1..Len(rs) : a < b => rs[f[a]].start > rs[f[b]].start
    /\ \A i \in 1..Len(rs) : \E n \in 1..Len(rs) : f[n] = i

(* from the last span to the first where no two start at one line. *)
LEMMA FromTheEndIs ==
    ASSUME NEW rs, IsSeq(rs), \A i \in 1..Len(rs) : rs[i].start \in Nat,
           \A i, k \in 1..Len(rs) : i # k => rs[i].start # rs[k].start
    PROVE  \E f : Descends(rs, f)
<1>1. PICK f : Ranks(rs, f)
    BY FromTheEndRanks
<1>2. ASSUME NEW a \in 1..Len(rs), NEW b \in 1..Len(rs), a < b
      PROVE  rs[f[a]].start > rs[f[b]].start
    <2>1. f[a] \in 1..Len(rs) /\ f[b] \in 1..Len(rs) /\ f[a] \in Before(rs, f[b])
        BY <1>1, <1>2 DEF Ranks
    <2>2. \/ rs[f[a]].start > rs[f[b]].start
          \/ rs[f[a]].start = rs[f[b]].start /\ f[a] < f[b]
        BY <2>1 DEF Before
    <2>3. Len(rs) \in Nat
        BY SeqFacts
    <2>4. f[a] < f[b] => f[a] # f[b]
        BY <2>1, <2>3
    <2>5. QED
        BY <2>1, <2>2, <2>4
<1>3. Descends(rs, f)
    BY <1>1, <1>2 DEF Ranks, Descends
<1>4. QED
    BY <1>3

(* The lines of text with b instead of those from a + 1 to e. *)
IsSpliced(new, text, b, a, e) ==
    /\ IsSeq(new) /\ Len(new) = a + Len(b) + (Len(text) - e)
    /\ \A i \in 1..a : new[i] = text[i]
    /\ \A i \in 1..Len(b) : new[a + i] = b[i]
    /\ \A i \in 1..Len(text) - e : new[a + Len(b) + i] = text[e + i]

(* Splice replaces these lines and no other. *)
LEMMA SplicedText ==
    ASSUME NEW text, IsSeq(text), NEW b, IsSeq(b), NEW a \in 0..Len(text),
           NEW e \in a..Len(text)
    PROVE  IsSpliced(SubSeq(text, 1, a) \o b \o SubSeq(text, e + 1, Len(text)), text, b, a, e)
<1>1. Len(text) \in Nat /\ Len(b) \in Nat
    BY SeqFacts
<1>2. a \in Nat /\ e \in Nat /\ e <= Len(text) /\ a <= Len(text)
    BY <1>1
<1> DEFINE new == SubSeq(text, 1, a) \o b \o SubSeq(text, e + 1, Len(text))
           s == SubSeq(text, 1, a)
           t == SubSeq(text, e + 1, Len(text))
<1>3. IsSeq(s) /\ Len(s) = a /\ \A i \in 1..a : s[i] = text[i]
    <2>1. PICK one \in Nat \ {0} : one = 1
        OBVIOUS
    <2>2. /\ IsSeq(SubSeq(text, one, a)) /\ Len(SubSeq(text, one, a)) = a + 1 - one
          /\ \A i \in 1..a + 1 - one : SubSeq(text, one, a)[i] = text[one + i - 1]
        <3>1. one <= a + 1
            BY <1>2, <2>1
        <3>2. QED
            BY <1>2, <3>1, Part
    <2>3. a + 1 - one = a /\ \A i \in 1..a : one + i - 1 = i
        BY <1>2, <2>1
    <2>4. QED
        BY <2>1, <2>2, <2>3
<1>4. IsSeq(t) /\ Len(t) = Len(text) - e /\ \A i \in 1..Len(text) - e : t[i] = text[e + i]
    <2>1. PICK x \in Nat \ {0} : x = e + 1
        BY <1>2
    <2>2. PICK n \in Nat : n = Len(text)
        BY <1>1
    <2>3. /\ IsSeq(SubSeq(text, x, n)) /\ Len(SubSeq(text, x, n)) = n + 1 - x
          /\ \A i \in 1..n + 1 - x : SubSeq(text, x, n)[i] = text[x + i - 1]
        <3>1. n <= Len(text) /\ x <= n + 1
            BY <1>2, <2>1, <2>2
        <3>2. QED
            BY <3>1, Part
    <2>4. n + 1 - x = n - e /\ \A i \in 1..n - e : x + i - 1 = e + i
        BY <1>2, <2>1, <2>2
    <2>5. QED
        BY <2>1, <2>2, <2>3, <2>4
<1> HIDE DEF s, t
<1>5. /\ IsSeq(s \o b) /\ Len(s \o b) = Len(s) + Len(b)
      /\ \A i \in 1..Len(s) : (s \o b)[i] = s[i]
      /\ \A i \in 1..Len(b) : (s \o b)[Len(s) + i] = b[i]
    BY <1>3, Cat
<1> DEFINE u == s \o b
<1>6. new = u \o t
    BY DEF s, t
<1> HIDE DEF new
<1>7. /\ IsSeq(u) /\ Len(u) = a + Len(b)
      /\ \A i \in 1..a : u[i] = text[i]
      /\ \A i \in 1..Len(b) : u[a + i] = b[i]
    BY <1>3, <1>5
<1> HIDE DEF u
<1>8. /\ IsSeq(new) /\ Len(new) = Len(u) + Len(t)
      /\ \A i \in 1..Len(u) : new[i] = u[i]
      /\ \A i \in 1..Len(t) : new[Len(u) + i] = t[i]
    <2>1. IsSeq(u) /\ IsSeq(t)
        BY <1>4, <1>7
    <2>2. /\ IsSeq(u \o t) /\ Len(u \o t) = Len(u) + Len(t)
          /\ \A i \in 1..Len(u) : (u \o t)[i] = u[i]
          /\ \A i \in 1..Len(t) : (u \o t)[Len(u) + i] = t[i]
        BY <2>1, Cat
    <2>3. QED
        BY <1>6, <2>2
<1>9. \A i \in 1..a : new[i] = text[i]
    <2>1. \A i \in 1..a : i \in 1..Len(u)
        BY <1>1, <1>2, <1>7
    <2>2. QED
        BY <1>7, <1>8, <2>1
<1>10. \A i \in 1..Len(b) : new[a + i] = b[i]
    <2>1. \A i \in 1..Len(b) : a + i \in 1..Len(u)
        BY <1>1, <1>2, <1>7
    <2>2. QED
        BY <1>7, <1>8, <2>1
<1>11. /\ IsSeq(new) /\ Len(new) = a + Len(b) + (Len(text) - e)
       /\ \A i \in 1..Len(text) - e : new[a + Len(b) + i] = text[e + i]
    BY <1>4, <1>7, <1>8
<1>12. QED
    BY <1>9, <1>10, <1>11 DEF new, IsSpliced

(* The blocks bs with b as block m. *)
IsPut(bs2, bs, m, b) ==
    /\ IsSeq(bs2) /\ Len(bs2) = Len(bs)
    /\ \A n \in 1..Len(bs) : bs2[n] = IF n = m THEN b ELSE bs[n]

(* Blocks before the replaced one stay where they are, the others move     *)
(* with it.                                                                *)
LEMMA SpliceCuts ==
    ASSUME NEW text, NEW bs, NEW o, Cuts(text, bs, o), NEW m \in 1..Len(bs), NEW b, IsBlock(b),
           NEW p, p = m - 1, NEW new, IsSpliced(new, text, b, o[p], o[m]),
           NEW bs2, IsPut(bs2, bs, m, b)
    PROVE  \E o2 : Cuts(new, bs2, o2) /\ \A j \in 0..p : o2[j] = o[j]
<1>1. /\ Len(text) \in Nat /\ Len(bs) \in Nat /\ IsSeq(text) /\ IsSeq(b) /\ Len(b) \in Nat \ {0}
    <2>1. IsSeq(text) /\ IsSeq(bs) /\ IsSeq(b) /\ Len(b) >= 1
        BY DEF Cuts, Laid, IsBlock
    <2>2. Len(text) \in Nat /\ Len(bs) \in Nat /\ Len(b) \in Nat
        BY <2>1, SeqFacts
    <2>3. QED
        BY <2>1, <2>2
<1>2. /\ \A n \in 0..Len(bs) : o[n] \in Nat
      /\ o[0] = 0 /\ o[Len(bs)] = Len(text)
      /\ \A n \in 1..Len(bs) : IsBlock(bs[n]) /\ o[n] = o[n - 1] + Len(bs[n])
      /\ \A n \in 1..Len(bs) : \A j \in 1..Len(bs[n]) : text[o[n - 1] + j] = bs[n][j]
    BY DEF Cuts, Laid
<1>3. p \in 0..Len(bs) /\ p = m - 1
    BY <1>1
<1>4. m \in 0..Len(bs) /\ Len(bs) \in 0..Len(bs)
    BY <1>1
<1>5. PICK a \in Nat : a = o[p] /\ a <= Len(text)
    <2>1. p <= Len(bs)
        BY <1>1
    <2>2. o[p] <= o[Len(bs)]
        BY <1>4, <2>1, CutsGrow
    <2>3. QED
        BY <1>2, <2>2
<1>6. PICK e \in Nat : e = o[m] /\ a <= e /\ e <= Len(text)
    <2>1. m <= Len(bs) /\ p <= m
        BY <1>1, <1>3
    <2>2. o[m] <= o[Len(bs)]
        BY <1>4, <2>1, CutsGrow
    <2>3. o[p] <= o[m]
        BY <1>4, <2>1, CutsGrow
    <2>4. QED
        BY <1>2, <1>4, <1>5, <2>2, <2>3
<1>7. /\ IsSeq(new) /\ Len(new) = a + Len(b) + (Len(text) - e)
      /\ \A i \in 1..a : new[i] = text[i]
      /\ \A i \in 1..Len(b) : new[a + i] = b[i]
      /\ \A i \in 1..Len(text) - e : new[a + Len(b) + i] = text[e + i]
    BY <1>3, <1>5, <1>6 DEF IsSpliced
<1>8. /\ IsSeq(bs2) /\ Len(bs2) = Len(bs)
      /\ \A n \in 1..Len(bs) : bs2[n] = IF n = m THEN b ELSE bs[n]
    BY DEF IsPut
<1>9. PICK l \in Nat \ {0} : l = Len(b)
    BY <1>1
<1> DEFINE o2 == [n \in 0..Len(bs) |-> IF n < m THEN o[n] ELSE (o[n] - e) + (a + l)]
<1>10. /\ \A n \in 0..Len(bs) : n < m => o2[n] = o[n]
       /\ \A n \in 0..Len(bs) : ~(n < m) => o2[n] = (o[n] - e) + (a + l) /\ o[n] >= e
    <2>1. \A n \in 0..Len(bs) : ~(n < m) => o[n] >= e
        <3>1. TAKE n \in 0..Len(bs)
        <3>2. HAVE ~(n < m)
        <3>3. m <= n
            BY <3>2
        <3>4. o[m] <= o[n]
            BY <1>4, <3>3, CutsGrow
        <3>5. QED
            BY <1>2, <1>6, <3>4
    <2>2. QED
        BY <2>1
<1> HIDE DEF o2
<1>11. \A n \in 0..Len(bs) : o2[n] \in Nat
    <2>1. TAKE n \in 0..Len(bs)
    <2>2. CASE n < m
        BY <1>2, <1>10, <2>2
    <2>3. CASE ~(n < m)
        <3>1. o2[n] = (o[n] - e) + (a + l) /\ o[n] >= e /\ o[n] \in Nat
            BY <1>2, <1>10, <2>3
        <3>2. QED
            BY <1>1, <3>1
    <2>4. QED
        BY <2>2, <2>3
<1>12. o2[0] = 0 /\ o2[Len(bs)] = Len(new)
    <2>1. 0 \in 0..Len(bs) /\ 0 < m /\ ~(Len(bs) < m)
        BY <1>1
    <2>2. o2[0] = 0
        BY <1>2, <1>10, <2>1
    <2>3. o2[Len(bs)] = (Len(text) - e) + (a + l)
        BY <1>2, <1>4, <1>10, <2>1
    <2>4. Len(new) = a + l + (Len(text) - e)
        BY <1>7, <1>9
    <2>5. QED
        BY <1>1, <1>5, <1>6, <1>9, <2>2, <2>3, <2>4
<1>13. ASSUME NEW n \in 1..Len(bs)
       PROVE  /\ IsBlock(bs2[n]) /\ o2[n] = o2[n - 1] + Len(bs2[n])
              /\ \A j \in 1..Len(bs2[n]) : new[o2[n - 1] + j] = bs2[n][j]
    <2>1. PICK q \in 0..Len(bs) : q = n - 1
        BY <1>1
    <2>2. /\ n \in 0..Len(bs) /\ o[n] \in Nat /\ o[q] \in Nat
          /\ o[n] = o[q] + Len(bs[n]) /\ IsBlock(bs[n])
        <3>1. n \in 0..Len(bs)
            BY <1>1
        <3>2. QED
            BY <1>2, <2>1, <3>1
    <2>3. Len(bs[n]) \in Nat
        BY <2>2, SeqFacts DEF IsBlock
    <2>4. PICK x \in Nat : x = o[q]
        BY <2>2
    <2>5. PICK y \in Nat : y = Len(bs[n])
        BY <2>3
    <2>6. o[n] = x + y
        BY <2>2, <2>4, <2>5
    <2>7. CASE n < m
        <3>1. bs2[n] = bs[n] /\ o2[n] = o[n] /\ o2[q] = o[q]
            <4>1. q < m /\ n # m
                BY <2>1, <2>7
            <4>2. QED
                BY <1>8, <1>10, <2>2, <2>7, <4>1
        <3>2. o[n] <= a
            <4>1. n <= p
                BY <1>3, <2>7
            <4>2. o[n] <= o[p]
                BY <2>2, <4>1, CutsGrow
            <4>3. QED
                BY <1>5, <4>2
        <3>3. ASSUME NEW j \in 1..Len(bs2[n])
              PROVE  new[o2[q] + j] = bs2[n][j]
            <4>1. j \in 1..Len(bs[n])
                BY <3>1
            <4>2. x + j \in 1..a
                <5>1. j \in 1..y
                    BY <2>5, <4>1
                <5>2. x + y <= a
                    BY <2>6, <3>2
                <5>3. QED
                    BY <5>1, <5>2
            <4>3. new[x + j] = text[x + j]
                BY <1>7, <4>2
            <4>4. text[x + j] = bs[n][j]
                BY <1>2, <2>1, <2>4, <4>1
            <4>5. QED
                BY <2>4, <3>1, <4>3, <4>4
        <3>4. QED
            BY <2>1, <2>2, <3>1, <3>3
    <2>8. CASE n = m
        <3>1. bs2[n] = b
            BY <1>8, <2>8
        <3>2. q = p /\ q < m /\ ~(n < m)
            BY <1>3, <2>1, <2>8
        <3>3. o2[q] = a
            BY <1>5, <1>10, <3>2
        <3>4. o2[n] = (o[n] - e) + (a + l) /\ o[n] = e
            BY <1>6, <1>10, <2>2, <2>8, <3>2
        <3>5. o2[n] = a + l
            BY <1>5, <1>6, <1>9, <3>4
        <3>6. \A j \in 1..Len(b) : new[a + j] = b[j]
            BY <1>7
        <3>7. QED
            BY <1>9, <2>1, <3>1, <3>3, <3>5, <3>6
    <2>9. CASE n > m
        <3>1. bs2[n] = bs[n]
            BY <1>8, <2>9
        <3>2. ~(q < m) /\ ~(n < m)
            BY <2>1, <2>9
        <3>3. o2[q] = (o[q] - e) + (a + l) /\ o[q] >= e /\ o2[n] = (o[n] - e) + (a + l)
            BY <1>10, <2>2, <3>2
        <3>4. o[n] <= Len(text)
            <4>1. n <= Len(bs)
                BY <1>1
            <4>2. o[n] <= o[Len(bs)]
                BY <1>4, <2>2, <4>1, CutsGrow
            <4>3. QED
                BY <1>2, <4>2
        <3>5. PICK k \in Nat : k = x - e
            <4>1. x >= e
                BY <2>4, <3>3
            <4>2. QED
                BY <4>1
        <3>6. x = e + k
            BY <3>5
        <3>7. o2[q] = (a + l) + k
            BY <2>4, <3>3, <3>5
        <3>8. ASSUME NEW j \in 1..Len(bs[n])
              PROVE  new[o2[q] + j] = bs[n][j]
            <4>1. k + j \in 1..Len(text) - e
                <5>1. j \in 1..y
                    BY <2>5
                <5>2. PICK z \in Nat : z = Len(text)
                    BY <1>1
                <5>3. x + y <= z
                    BY <2>6, <3>4, <5>2
                <5>4. k + j \in 1..z - e
                    BY <3>6, <5>1, <5>3
                <5>5. QED
                    BY <5>2, <5>4
            <4>2. new[a + l + (k + j)] = text[e + (k + j)]
                BY <1>7, <1>9, <4>1
            <4>3. (a + l) + k + j = a + l + (k + j) /\ x + j = e + (k + j)
                <5>1. j \in 1..y
                    BY <2>5
                <5>2. j \in Nat
                    BY <5>1
                <5>3. QED
                    BY <3>6, <5>2
            <4>4. text[x + j] = bs[n][j]
                BY <1>2, <2>1, <2>4
            <4>5. QED
                BY <3>7, <4>2, <4>3, <4>4
        <3>9. o2[n] = o2[q] + Len(bs[n])
            <4>1. o2[n] = ((x + y) - e) + (a + l)
                BY <2>6, <3>3
            <4>2. ((x + y) - e) + (a + l) = ((a + l) + k) + y
                BY <3>6
            <4>3. QED
                BY <2>5, <3>7, <4>1, <4>2
        <3>10. QED
            BY <2>1, <2>2, <3>1, <3>8, <3>9
    <2>10. n < m \/ n = m \/ n > m
        BY <1>1
    <2>11. QED
        BY <2>7, <2>8, <2>9, <2>10
<1>14. Cuts(new, bs2, o2)
    BY <1>7, <1>8, <1>11, <1>12, <1>13, BlockIsPart DEF Cuts, Laid
<1>15. \A j \in 0..p : o2[j] = o[j]
    <2>1. \A j \in 0..p : j \in 0..Len(bs) /\ j < m
        BY <1>1, <1>3
    <2>2. QED
        BY <1>10, <2>1
<1>16. QED
    BY <1>14, <1>15

(* Block m of the text, after line o[p], is replaced by b. *)
IsReplaced(text, bs, o, m, b, p, new, bs2) ==
    /\ Cuts(text, bs, o)
    /\ m \in 1..Len(bs) /\ p = m - 1
    /\ IsBlock(b)
    /\ IsSpliced(new, text, b, o[p], o[m])
    /\ IsPut(bs2, bs, m, b)

LEMMA ReplacedCuts ==
    ASSUME NEW text, NEW bs, NEW o, NEW m, NEW b, NEW p, NEW new, NEW bs2,
           IsReplaced(text, bs, o, m, b, p, new, bs2)
    PROVE  \E o2 : Cuts(new, bs2, o2) /\ \A j \in 0..p : o2[j] = o[j]
<1>1. Cuts(text, bs, o)
    BY DEF IsReplaced
<1>2. m \in 1..Len(bs)
    BY DEF IsReplaced
<1>3. IsBlock(b)
    BY DEF IsReplaced
<1>4. p = m - 1
    BY DEF IsReplaced
<1>5. IsSpliced(new, text, b, o[p], o[m])
    BY DEF IsReplaced
<1>6. IsPut(bs2, bs, m, b)
    BY DEF IsReplaced
<1>7. QED
    BY <1>1, <1>2, <1>3, <1>4, <1>5, <1>6, SpliceCuts

(* The replacements are of blocks of the text, each before the last. *)
Targets(rs, bs, o, new, c) ==
    /\ c \in [1..Len(rs) -> 1..Len(bs)]
    /\ \A n \in 1..Len(rs) : /\ rs[n].start = o[c[n] - 1] /\ rs[n].end = o[c[n]]
                             /\ rs[n].text = new[c[n]] /\ IsBlock(new[c[n]])
    /\ \A a, b \in 1..Len(rs) : a < b => c[b] < c[a]

(* The first n of them are made. *)
Made(acc, n, bs, o, new, c, bs2, o2) ==
    /\ acc.ok = TRUE
    /\ Cuts(acc.text, bs2, o2)
    /\ Len(bs2) = Len(bs)
    /\ \A m \in 1..Len(bs) : bs2[m] = IF \E k \in 1..n : c[k] = m THEN new[m] ELSE bs[m]
    /\ \A j \in 0..Len(bs) : (\A k \in 1..n : j < c[k]) => o2[j] = o[j]

(* One block replaced. *)
LEMMA PutIs ==
    ASSUME NEW bs, Len(bs) \in Nat, NEW m \in 1..Len(bs), NEW b
    PROVE  \E bs2 : IsPut(bs2, bs, m, b)
<1> DEFINE bs2 == [n \in 1..Len(bs) |-> IF n = m THEN b ELSE bs[n]]
<1>1. bs2 = [n \in 1..Len(bs) |-> bs2[n]] /\ \A n \in 1..Len(bs) : bs2[n] = IF n = m THEN b ELSE bs[n]
    OBVIOUS
<1> HIDE DEF bs2
<1>2. IsSeq(bs2) /\ Len(bs2) = Len(bs)
    BY <1>1, FcnIsSeq
<1>3. QED
    BY <1>1, <1>2 DEF IsPut

(* One more is made: its span is still where it was. *)
LEMMA MadeMore ==
    ASSUME NEW text, NEW bs, NEW o, Cuts(text, bs, o), NEW rs, NEW new, NEW c,
           Targets(rs, bs, o, new, c), Len(rs) \in Nat, NEW acc, NEW n \in Nat, n + 1 \in 1..Len(rs),
           NEW bs2, NEW o2, Made(acc, n, bs, o, new, c, bs2, o2)
    PROVE  \E bs3, o3 : Made(Splice(acc, rs[n + 1]), n + 1, bs, o, new, c, bs3, o3)
<1>1. PICK x \in 1..Len(rs) : x = n + 1
    OBVIOUS
<1>2. PICK m \in 1..Len(bs) : m = c[x]
    BY DEF Targets
<1>3. /\ rs[x].start = o[m - 1] /\ rs[x].end = o[m] /\ rs[x].text = new[m] /\ IsBlock(new[m])
    BY <1>2 DEF Targets
<1>4. \A k \in 1..n : k \in 1..Len(rs) /\ m < c[k] /\ c[k] \in 1..Len(bs)
    <2>1. TAKE k \in 1..n
    <2>2. k \in 1..Len(rs) /\ k < x
        BY <1>1
    <2>3. QED
        BY <1>2, <2>2 DEF Targets
<1>5. /\ acc.ok = TRUE /\ Cuts(acc.text, bs2, o2) /\ Len(bs2) = Len(bs)
    BY DEF Made
<1>6. Len(bs) \in Nat
    BY CutsLens
<1>7. PICK p \in 0..Len(bs) : p = m - 1
    BY <1>6
<1>8. o2[m] = o[m] /\ o2[p] = o[p]
    <2>1. m \in 0..Len(bs) /\ \A k \in 1..n : m < c[k]
        BY <1>4, <1>6
    <2>2. \A k \in 1..n : p < c[k]
        <3>1. TAKE k \in 1..n
        <3>2. m < c[k] /\ c[k] \in 1..Len(bs)
            BY <1>4
        <3>3. QED
            BY <1>6, <1>7, <3>2
    <2>3. QED
        BY <2>1, <2>2 DEF Made
<1>9. PICK a \in Nat : a = o[p]
    BY <1>6 DEF Cuts, Laid
<1>10. PICK e \in Nat : e = o[m]
    BY CutsLens
<1>11. /\ IsSeq(acc.text) /\ Len(acc.text) \in Nat /\ a <= e /\ e <= Len(acc.text)
    <2>1. IsSeq(acc.text)
        BY <1>5 DEF Cuts, Laid
    <2>2. m \in 1..Len(bs2)
        BY <1>5
    <2>3. o2[m - 1] < o2[m]
        BY <1>5, <2>2, CutsLens
    <2>4. m \in 0..Len(bs2) /\ Len(bs2) \in 0..Len(bs2) /\ m <= Len(bs2)
        BY <1>5, <1>6, <2>2
    <2>5. o2[m] <= o2[Len(bs2)]
        BY <1>5, <2>4, CutsGrow
    <2>6. o2[Len(bs2)] = Len(acc.text)
        BY <1>5 DEF Cuts, Laid
    <2>7. Len(acc.text) \in Nat
        BY <2>1, SeqFacts
    <2>8. a < e
        BY <1>7, <1>8, <1>9, <1>10, <2>3
    <2>9. e <= Len(acc.text)
        BY <1>8, <1>10, <2>5, <2>6
    <2>10. QED
        BY <2>1, <2>7, <2>8, <2>9
<1> DEFINE spliced == SubSeq(acc.text, 1, a) \o new[m] \o SubSeq(acc.text, e + 1, Len(acc.text))
<1>12. Splice(acc, rs[x]) = [ok |-> TRUE, text |-> spliced]
    <2>1. rs[x].start = a /\ rs[x].end = e /\ rs[x].text = new[m]
        BY <1>3, <1>7, <1>9, <1>10
    <2>2. ~(e > Len(acc.text))
        BY <1>11
    <2>3. QED
        BY <1>5, <2>1, <2>2 DEF Splice
<1>13. IsSpliced(spliced, acc.text, new[m], a, e)
    <2>1. IsSeq(new[m]) /\ a \in 0..Len(acc.text) /\ e \in a..Len(acc.text) /\ IsSeq(acc.text)
        BY <1>3, <1>11 DEF IsBlock
    <2>2. QED
        BY <2>1, SplicedText
<1> HIDE DEF spliced
<1>14. PICK bs3 : IsPut(bs3, bs2, m, new[m])
    <2>1. Len(bs2) \in Nat /\ m \in 1..Len(bs2)
        BY <1>5, <1>6
    <2>2. QED
        BY <2>1, PutIs
<1>15. PICK o3 : Cuts(spliced, bs3, o3) /\ \A j \in 0..p : o3[j] = o2[j]
    <2>1. IsSpliced(spliced, acc.text, new[m], o2[m - 1], o2[m])
        BY <1>7, <1>8, <1>9, <1>10, <1>13
    <2>2. m \in 1..Len(bs2) /\ IsBlock(new[m]) /\ Cuts(acc.text, bs2, o2)
        BY <1>3, <1>5
    <2>3. PICK b : b = new[m]
        OBVIOUS
    <2>4. PICK t : t = acc.text
        OBVIOUS
    <2>5. Cuts(t, bs2, o2)
        BY <2>2, <2>4
    <2>6. IsBlock(b)
        BY <2>2, <2>3
    <2>7. IsSpliced(spliced, t, b, o2[p], o2[m])
        BY <1>7, <2>1, <2>3, <2>4
    <2>8. IsPut(bs3, bs2, m, b)
        BY <1>14, <2>3
    <2>9. m \in 1..Len(bs2) /\ p = m - 1
        BY <1>7, <2>2
    <2>10. IsReplaced(t, bs2, o2, m, b, p, spliced, bs3)
        BY <2>5, <2>6, <2>7, <2>8, <2>9 DEF IsReplaced
    <2>11. QED
        BY <2>10, ReplacedCuts
<1>16. Len(bs3) = Len(bs)
    BY <1>5, <1>14 DEF IsPut
<1>17. \A q \in 1..Len(bs) : bs3[q] = IF \E k \in 1..x : c[k] = q THEN new[q] ELSE bs[q]
    <2>1. TAKE q \in 1..Len(bs)
    <2>2. bs3[q] = IF q = m THEN new[m] ELSE bs2[q]
        BY <1>5, <1>14 DEF IsPut
    <2>3. bs2[q] = IF \E k \in 1..n : c[k] = q THEN new[q] ELSE bs[q]
        BY DEF Made
    <2>4. CASE q = m
        <3>1. x \in 1..x /\ c[x] = q
            BY <1>1, <1>2, <2>4
        <3>2. QED
            BY <2>2, <2>4, <3>1
    <2>5. CASE q # m
        <3>1. (\E k \in 1..x : c[k] = q) <=> \E k \in 1..n : c[k] = q
            <4>1. \A k \in 1..x : k = x \/ k \in 1..n
                BY <1>1
            <4>2. \A k \in 1..n : k \in 1..x
                BY <1>1
            <4>3. QED
                BY <1>2, <2>5, <4>1, <4>2
        <3>2. QED
            BY <2>2, <2>3, <2>5, <3>1
    <2>6. QED
        BY <2>4, <2>5
<1>18. \A j \in 0..Len(bs) : (\A k \in 1..x : j < c[k]) => o3[j] = o[j]
    <2>1. TAKE j \in 0..Len(bs)
    <2>2. HAVE \A k \in 1..x : j < c[k]
    <2>3. j < m /\ \A k \in 1..n : j < c[k]
        <3>1. x \in 1..x /\ \A k \in 1..n : k \in 1..x
            BY <1>1
        <3>2. QED
            BY <1>2, <2>2, <3>1
    <2>4. o2[j] = o[j]
        BY <2>3 DEF Made
    <2>5. j \in 0..p
        BY <1>6, <1>7, <2>3
    <2>6. QED
        BY <1>15, <2>4, <2>5
<1>19. Made([ok |-> TRUE, text |-> spliced], x, bs, o, new, c, bs3, o3)
    BY <1>15, <1>16, <1>17, <1>18 DEF Made
<1>20. QED
    BY <1>1, <1>12, <1>19

(* The function that Spliced defines by recursion, up to n. *)
IsAfter(f, text, rs, n) ==
    f = [i \in 0..n |-> IF i = 0 THEN [ok |-> TRUE, text |-> text] ELSE Splice(f[i - 1], rs[i])]

LEMMA AfterExists ==
    ASSUME NEW text, NEW rs, NEW n \in Nat
    PROVE  \E f : IsAfter(f, text, rs, n)
<1> DEFINE S == {m \in Nat : \E f : IsAfter(f, text, rs, m)}
<1>1. 0 \in S
    <2>1. IsAfter([i \in 0..0 |-> [ok |-> TRUE, text |-> text]], text, rs, 0)
        BY DEF IsAfter
    <2>2. QED
        BY <2>1
<1>2. ASSUME NEW m \in Nat, m \in S
      PROVE  m + 1 \in S
    <2>1. PICK f : IsAfter(f, text, rs, m)
        BY <1>2
    <2> DEFINE g == [i \in 0..(m + 1) |-> IF i = m + 1 THEN Splice(f[m], rs[m + 1]) ELSE f[i]]
    <2>2. ASSUME NEW i \in 0..(m + 1)
          PROVE  g[i] = IF i = 0 THEN [ok |-> TRUE, text |-> text] ELSE Splice(g[i - 1], rs[i])
        <3>1. CASE i = m + 1
            BY <3>1
        <3>2. CASE i \in 0..m
            <4>1. g[i] = f[i] /\ (i # 0 => g[i - 1] = f[i - 1])
                BY <3>2
            <4>2. f[i] = IF i = 0 THEN [ok |-> TRUE, text |-> text] ELSE Splice(f[i - 1], rs[i])
                BY <2>1, <3>2 DEF IsAfter
            <4> HIDE DEF g
            <4>3. QED
                BY <4>1, <4>2
        <3>3. QED
            BY <3>1, <3>2
    <2>3. IsAfter(g, text, rs, m + 1)
        BY <2>2 DEF IsAfter
    <2> HIDE DEF g
    <2>4. QED
        BY <2>3
<1> HIDE DEF S
<1>3. Nat \subseteq S
    BY <1>1, <1>2, SetInduction
<1>4. QED
    BY <1>3 DEF S

(* All are made, and none is out of range. *)
LEMMA SplicedCuts ==
    ASSUME NEW text, NEW bs, NEW o, Cuts(text, bs, o), NEW rs, Len(rs) \in Nat, NEW new, NEW c,
           Targets(rs, bs, o, new, c)
    PROVE  \E bs2, o2 : Made(Spliced(text, rs), Len(rs), bs, o, new, c, bs2, o2)
<1> DEFINE n == Len(rs)
           f == CHOOSE g : g = [i \in 0..n |-> IF i = 0 THEN [ok |-> TRUE, text |-> text]
                                               ELSE Splice(g[i - 1], rs[i])]
<1>1. IsAfter(f, text, rs, n)
    <2>1. \E g : IsAfter(g, text, rs, n)
        BY AfterExists
    <2>2. QED
        BY Zenon, <2>1 DEF IsAfter
<1>2. Spliced(text, rs) = f[n]
    BY DEF Spliced
<1> HIDE DEF f
<1>3. f[0] = [ok |-> TRUE, text |-> text]
    <2> HIDE DEF n
    <2>1. n \in Nat
        BY DEF n
    <2>2. QED
        BY <1>1, <2>1 DEF IsAfter
<1>4. ASSUME NEW i \in 1..n
      PROVE  f[i] = Splice(f[i - 1], rs[i])
    <2>1. i \in 0..n /\ i # 0
        OBVIOUS
    <2>2. QED
        BY <1>1, <2>1 DEF IsAfter
<1> HIDE DEF n
<1> DEFINE S == {i \in Nat : i <= n => \E bs2, o2 : Made(f[i], i, bs, o, new, c, bs2, o2)}
<1>5. 0 \in S
    <2>1. Made([ok |-> TRUE, text |-> text], 0, bs, o, new, c, bs, o)
        BY DEF Made
    <2>2. QED
        BY <1>3, <2>1
<1>6. ASSUME NEW i \in Nat, i \in S
      PROVE  i + 1 \in S
    <2>1. SUFFICES ASSUME i + 1 <= n PROVE \E bs2, o2 : Made(f[i + 1], i + 1, bs, o, new, c, bs2, o2)
        OBVIOUS
    <2>2. n \in Nat /\ i <= n /\ i + 1 \in 1..n /\ i + 1 - 1 = i
        BY <2>1 DEF n
    <2>3. PICK bs2, o2 : Made(f[i], i, bs, o, new, c, bs2, o2)
        BY <1>6, <2>2
    <2>4. f[i + 1] = Splice(f[i], rs[i + 1])
        BY <1>4, <2>2
    <2>5. i + 1 \in 1..Len(rs)
        BY <2>2 DEF n
    <2>6. \E bs3, o3 : Made(Splice(f[i], rs[i + 1]), i + 1, bs, o, new, c, bs3, o3)
        BY <2>3, <2>5, MadeMore
    <2>7. QED
        BY <2>4, <2>6
<1> HIDE DEF S
<1>7. Nat \subseteq S
    BY <1>5, <1>6, SetInduction
<1>8. n \in S /\ n <= n
    BY <1>7 DEF n
<1>9. QED
    BY <1>2, <1>8 DEF S, n

----------------------------------------------------------------------------
(* The replacements of a stream *)

(* As in Upsert. *)
KeysApart(ds) ==
    \A i, j \in DOMAIN ds : i # j => IngestID(ds[i]) = Nothing \/ IngestID(ds[i]) # IngestID(ds[j])

Replacing(bs, ds, n) == {i \in DOMAIN ds : Counts(bs, n) /\ IngestID(ds[i]) = BlockID(bs[n])}

(* The blocks that replace those of the text. *)
News(bs, ds) == [m \in 1..Len(bs) |-> FormatDirective(ds[CHOOSE i \in Replacing(bs, ds, m) : TRUE])]

(* A stream of directives that can be written. *)
Writable(ds) == IsSeq(ds) /\ \A i \in 1..Len(ds) : IsSeq(ds[i].postings)

(* One block of an id counts. *)
LEMMA CountsOnce ==
    ASSUME NEW bs, Len(bs) \in Nat, NEW k \in 1..Len(bs), NEW m \in 1..Len(bs),
           Counts(bs, k), Counts(bs, m), BlockID(bs[k]) = BlockID(bs[m])
    PROVE  k = m
<1>1. ~(k < m)
    <2>1. k < m => m \in k + 1..Len(bs)
        OBVIOUS
    <2>2. QED
        BY <2>1 DEF Counts
<1>2. ~(m < k)
    <2>1. m < k => k \in m + 1..Len(bs)
        OBVIOUS
    <2>2. QED
        BY <2>1 DEF Counts
<1>3. QED
    BY <1>1, <1>2

(* Directive i replaces block m. *)
LEMMA ReplacingOne ==
    ASSUME NEW bs, NEW ds, IsSeq(ds), KeysApart(ds), NEW m \in 1..Len(bs), NEW i \in 1..Len(ds),
           Counts(bs, m), IngestID(ds[i]) = BlockID(bs[m])
    PROVE  Replacing(bs, ds, m) = {i} /\ News(bs, ds)[m] = FormatDirective(ds[i])
<1>1. DOMAIN ds = 1..Len(ds)
    BY SeqFacts
<1>2. i \in Replacing(bs, ds, m)
    BY <1>1 DEF Replacing
<1>3. ASSUME NEW j \in Replacing(bs, ds, m)
      PROVE  j = i
    <2>1. j \in DOMAIN ds /\ IngestID(ds[j]) = IngestID(ds[i])
        BY DEF Replacing
    <2>2. IngestID(ds[i]) # Nothing
        BY DEF Counts
    <2>3. QED
        BY <1>1, <2>1, <2>2 DEF KeysApart
<1>4. Replacing(bs, ds, m) = {i}
    BY <1>2, <1>3
<1>5. (CHOOSE x \in Replacing(bs, ds, m) : TRUE) = i
    BY <1>4
<1>6. News(bs, ds)[m] = FormatDirective(ds[CHOOSE x \in Replacing(bs, ds, m) : TRUE])
    BY DEF News
<1>7. QED
    BY <1>4, <1>5, <1>6

(* The directives of the stream whose id the text has. *)
KnownAt(spans, ds) == Places([i \in DOMAIN ds |-> IngestID(ds[i]) \in DOMAIN spans])

LEMMA KnownAtLists ==
    ASSUME NEW spans, NEW ds, IsSeq(ds)
    PROVE  /\ IsSeq(KnownAt(spans, ds))
           /\ \A n \in 1..Len(KnownAt(spans, ds)) :
                  /\ KnownAt(spans, ds)[n] \in 1..Len(ds)
                  /\ IngestID(ds[KnownAt(spans, ds)[n]]) \in DOMAIN spans
           /\ \A k, n \in 1..Len(KnownAt(spans, ds)) :
                  k < n => KnownAt(spans, ds)[k] < KnownAt(spans, ds)[n]
           /\ \A i \in 1..Len(ds) : IngestID(ds[i]) \in DOMAIN spans =>
                  \E n \in 1..Len(KnownAt(spans, ds)) : KnownAt(spans, ds)[n] = i
<1> DEFINE holds == [i \in 1..Len(ds) |-> IngestID(ds[i]) \in DOMAIN spans]
           at == KnownAt(spans, ds)
<1>1. Len(ds) \in Nat /\ DOMAIN ds = 1..Len(ds)
    BY SeqFacts
<1>2. Len(holds) = Len(ds)
    <2>1. holds = [i \in 1..Len(ds) |-> holds[i]]
        OBVIOUS
    <2> HIDE DEF holds
    <2>2. QED
        BY <1>1, <2>1, FcnIsSeq
<1>3. at = Places(holds)
    BY <1>1 DEF KnownAt
<1>4. \A i \in 1..Len(ds) : holds[i] <=> IngestID(ds[i]) \in DOMAIN spans
    BY Zenon
<1> HIDE DEF holds, at
<1>5. Lists(at, holds, Len(ds))
    BY <1>1, <1>2, <1>3, PlacesList
<1>6. /\ IsSeq(at)
      /\ \A n \in 1..Len(at) : at[n] \in 1..Len(ds) /\ holds[at[n]]
      /\ \A k, n \in 1..Len(at) : k < n => at[k] < at[n]
      /\ \A i \in 1..Len(ds) : holds[i] => \E n \in 1..Len(at) : at[n] = i
    BY <1>5 DEF Lists
<1>7. \A n \in 1..Len(at) : at[n] \in 1..Len(ds) /\ IngestID(ds[at[n]]) \in DOMAIN spans
    BY <1>4, <1>6
<1>8. \A i \in 1..Len(ds) : IngestID(ds[i]) \in DOMAIN spans => \E n \in 1..Len(at) : at[n] = i
    BY <1>4, <1>6
<1>9. QED
    BY <1>6, <1>7, <1>8 DEF at

(* Replacement n is of block m by directive i. *)
Hit(bs, o, ds, r, i, m) ==
    /\ i \in 1..Len(ds) /\ m \in 1..Len(bs)
    /\ Counts(bs, m) /\ IngestID(ds[i]) = BlockID(bs[m])
    /\ r.start = o[m - 1] /\ r.end = o[m] /\ r.text = FormatDirective(ds[i])

(* Every replacement is of a whole block. *)
LEMMA ReplacementsHit ==
    ASSUME NEW text, NEW bs, NEW o, Cuts(text, bs, o), NEW ds, IsSeq(ds)
    PROVE  LET spans == IdSpan(Parse(text))
               at == KnownAt(spans, ds)
               rs == Replacements(spans, Known(spans, ds))
           IN  /\ IsSeq(rs) /\ Len(rs) = Len(at)
               /\ \A n \in 1..Len(rs) : \E m \in 1..Len(bs) : Hit(bs, o, ds, rs[n], at[n], m)
<1> DEFINE spans == IdSpan(Parse(text))
           at == KnownAt(spans, ds)
           known == Known(spans, ds)
           rs == Replacements(spans, known)
<1>1. /\ IsSeq(at)
      /\ \A n \in 1..Len(at) : at[n] \in 1..Len(ds) /\ IngestID(ds[at[n]]) \in DOMAIN spans
    BY KnownAtLists
<1>2. Len(at) \in Nat /\ DOMAIN at = 1..Len(at)
    BY <1>1, SeqFacts
<1>3. known = [n \in 1..Len(at) |-> ds[at[n]]]
    <2>1. known = [n \in DOMAIN at |-> ds[at[n]]]
        BY Zenon DEF Known, KnownAt
    <2>2. QED
        BY <1>2, <2>1
<1> HIDE DEF at, known
<1>4. rs = [n \in 1..Len(at) |->
               [start |-> spans[IngestID(ds[at[n]])].start, end |-> spans[IngestID(ds[at[n]])].end,
                text |-> FormatDirective(ds[at[n]])]]
    <2>1. rs = [n \in DOMAIN known |->
               [start |-> spans[IngestID(known[n])].start, end |-> spans[IngestID(known[n])].end,
                text |-> FormatDirective(known[n])]]
        BY Zenon DEF Replacements
    <2>2. DOMAIN known = 1..Len(at) /\ \A n \in 1..Len(at) : known[n] = ds[at[n]]
        BY <1>3
    <2> HIDE DEF spans, rs
    <2>3. QED
        BY <2>1, <2>2
<1>5. \A n \in 1..Len(at) : /\ rs[n].start = spans[IngestID(ds[at[n]])].start
                            /\ rs[n].end = spans[IngestID(ds[at[n]])].end
                            /\ rs[n].text = FormatDirective(ds[at[n]])
    <2> HIDE DEF rs, spans
    <2>1. QED
        BY <1>4
<1>6. IsSeq(rs) /\ Len(rs) = Len(at)
    <2>1. rs = [n \in 1..Len(at) |-> rs[n]]
        BY <1>4
    <2> HIDE DEF rs
    <2>2. QED
        BY <1>2, <2>1, FcnIsSeq
<1>7. ASSUME NEW n \in 1..Len(rs)
      PROVE  \E m \in 1..Len(bs) : Hit(bs, o, ds, rs[n], at[n], m)
    <2>1. n \in 1..Len(at)
        BY <1>6
    <2>2. at[n] \in 1..Len(ds) /\ IngestID(ds[at[n]]) \in DOMAIN spans
        BY <1>1, <2>1
    <2>3. PICK id : id = IngestID(ds[at[n]])
        OBVIOUS
    <2>4. id \in {BlockID(bs[m]) : m \in 1..Len(bs)} \ {Nothing}
        BY <2>2, <2>3, SpansDomain
    <2>5. PICK k \in 1..Len(bs) : BlockID(bs[k]) = id
        BY <2>4
    <2>6. PICK m \in 1..Len(bs) : BlockID(bs[m]) = id /\ Counts(bs, m)
        <3>1. Len(bs) \in Nat
            BY CutsLens
        <3>2. QED
            BY <2>4, <2>5, <3>1, LastCounts
    <2>7. spans[id].start = o[m - 1] /\ spans[id].end = o[m]
        BY <2>6, SpanIs
    <2> HIDE DEF spans, rs
    <2>8. Hit(bs, o, ds, rs[n], at[n], m)
        BY <1>5, <2>1, <2>2, <2>3, <2>6, <2>7 DEF Hit
    <2>9. QED
        BY <2>8
<1>8. QED
    BY <1>6, <1>7 DEF at, known

(* The blocks of the text once those of the stream have replaced theirs. *)
Replaced(bs, ds, m) ==
    IF Replacing(bs, ds, m) = {} THEN bs[m]
    ELSE FormatDirective(ds[CHOOSE i \in Replacing(bs, ds, m) : TRUE])

(* b is the block that each replacement is of. *)
Blocked(rs, at, bs, o, ds, b) ==
    \A n \in 1..Len(rs) : b[n] \in 1..Len(bs) /\ Hit(bs, o, ds, rs[n], at[n], b[n])

(* Replacements by different directives start at different lines. *)
LEMMA StartsApart ==
    ASSUME NEW text, NEW bs, NEW o, Cuts(text, bs, o), NEW ds, IsSeq(ds), KeysApart(ds),
           NEW rs, NEW at, NEW b, Blocked(rs, at, bs, o, ds, b),
           \A k, n \in 1..Len(rs) : k # n => at[k] # at[n]
    PROVE  /\ \A n \in 1..Len(rs) : rs[n].start \in Nat
           /\ \A k, n \in 1..Len(rs) : k # n => rs[k].start # rs[n].start
           /\ \A k, n \in 1..Len(rs) : rs[k].start > rs[n].start => b[n] < b[k]
<1>1. Len(bs) \in Nat /\ \A m \in 1..Len(bs) : o[m - 1] \in Nat
    BY CutsLens
<1>2. \A n \in 1..Len(rs) : /\ b[n] \in 1..Len(bs) /\ rs[n].start = o[b[n] - 1]
                            /\ at[n] \in 1..Len(ds)
                            /\ Counts(bs, b[n]) /\ IngestID(ds[at[n]]) = BlockID(bs[b[n]])
    BY DEF Blocked, Hit
<1>3. ASSUME NEW k \in 1..Len(rs), NEW n \in 1..Len(rs), b[k] <= b[n]
      PROVE  rs[k].start <= rs[n].start /\ (b[k] < b[n] => rs[k].start < rs[n].start)
    <2>1. PICK x \in 0..Len(bs) : x = b[k] - 1
        BY <1>1, <1>2
    <2>2. PICK y \in 0..Len(bs) : y = b[n] - 1
        BY <1>1, <1>2
    <2>3. b[k] \in 1..Len(bs) /\ b[n] \in 1..Len(bs)
        BY <1>2
    <2>4. x <= y /\ (b[k] < b[n] => x < y)
        BY <1>1, <1>3, <2>1, <2>2, <2>3
    <2>5. o[x] <= o[y] /\ (x < y => o[x] < o[y])
        BY <2>4, CutsGrow
    <2>6. rs[k].start = o[x] /\ rs[n].start = o[y]
        BY <1>2, <2>1, <2>2
    <2>7. QED
        BY <2>4, <2>5, <2>6
<1>4. \A n \in 1..Len(rs) : rs[n].start \in Nat
    BY <1>1, <1>2
<1>5. ASSUME NEW k \in 1..Len(rs), NEW n \in 1..Len(rs), k # n
      PROVE  b[k] # b[n]
    <2>1. at[k] # at[n]
        BY <1>5
    <2>2. DOMAIN ds = 1..Len(ds)
        BY SeqFacts
    <2>3. IngestID(ds[at[k]]) = Nothing \/ IngestID(ds[at[k]]) # IngestID(ds[at[n]])
        BY <1>2, <2>1, <2>2 DEF KeysApart
    <2>4. IngestID(ds[at[k]]) # Nothing
        BY <1>2 DEF Counts
    <2>5. QED
        BY <1>2, <2>3, <2>4
<1>6. ASSUME NEW k \in 1..Len(rs), NEW n \in 1..Len(rs), k # n
      PROVE  rs[k].start # rs[n].start
    <2>1. b[k] # b[n] /\ b[k] \in 1..Len(bs) /\ b[n] \in 1..Len(bs)
        BY <1>2, <1>5, <1>6
    <2>2. b[k] < b[n] \/ b[n] < b[k]
        BY <1>1, <2>1
    <2>3. b[k] < b[n] => rs[k].start < rs[n].start
        BY <1>1, <1>3, <2>1
    <2>4. b[n] < b[k] => rs[n].start < rs[k].start
        BY <1>1, <1>3, <2>1
    <2>5. rs[k].start \in Nat /\ rs[n].start \in Nat
        BY <1>4
    <2>6. QED
        BY <2>2, <2>3, <2>4, <2>5
<1>7. ASSUME NEW k \in 1..Len(rs), NEW n \in 1..Len(rs), rs[k].start > rs[n].start
      PROVE  b[n] < b[k]
    <2>1. b[k] \in 1..Len(bs) /\ b[n] \in 1..Len(bs)
        BY <1>2
    <2>2. b[k] <= b[n] => rs[k].start <= rs[n].start
        BY <1>3
    <2>3. rs[k].start \in Nat /\ rs[n].start \in Nat
        BY <1>4
    <2>4. QED
        BY <1>1, <1>7, <2>1, <2>2, <2>3
<1>8. QED
    BY <1>4, <1>6, <1>7

LEMMA BlockedExists ==
    ASSUME NEW rs, NEW at, NEW bs, NEW o, NEW ds,
           \A n \in 1..Len(rs) : \E m \in 1..Len(bs) : Hit(bs, o, ds, rs[n], at[n], m)
    PROVE  \E b : Blocked(rs, at, bs, o, ds, b)
<1> DEFINE b == [n \in 1..Len(rs) |-> CHOOSE m \in 1..Len(bs) : Hit(bs, o, ds, rs[n], at[n], m)]
<1>1. ASSUME NEW n \in 1..Len(rs)
      PROVE  b[n] \in 1..Len(bs) /\ Hit(bs, o, ds, rs[n], at[n], b[n])
    <2>1. b[n] = CHOOSE m \in 1..Len(bs) : Hit(bs, o, ds, rs[n], at[n], m)
        OBVIOUS
    <2>2. \E m \in 1..Len(bs) : Hit(bs, o, ds, rs[n], at[n], m)
        OBVIOUS
    <2> HIDE DEF b
    <2>3. QED
        BY <2>1, <2>2
<1> HIDE DEF b
<1>2. QED
    BY <1>1 DEF Blocked

(* In the order in which they are made they are of blocks from the last to *)
(* the first.                                                              *)
LEMMA FromTheEndTargets ==
    ASSUME NEW text, NEW bs, NEW o, Cuts(text, bs, o), NEW ds, Writable(ds), KeysApart(ds),
           NEW rs, IsSeq(rs), NEW at, NEW b, Blocked(rs, at, bs, o, ds, b),
           \A k, n \in 1..Len(rs) : k # n => at[k] # at[n]
    PROVE  /\ Len(FromTheEnd(rs)) = Len(rs) /\ Len(rs) \in Nat
           /\ \E c : /\ Targets(FromTheEnd(rs), bs, o, News(bs, ds), c)
                     /\ \A m \in 1..Len(bs) :
                           (\E k \in 1..Len(rs) : c[k] = m) <=> (\E k \in 1..Len(rs) : b[k] = m)
<1>1. IsSeq(ds) /\ \A i \in 1..Len(ds) : IsSeq(ds[i].postings)
    BY DEF Writable
<1>2. /\ \A n \in 1..Len(rs) : rs[n].start \in Nat
      /\ \A k, n \in 1..Len(rs) : k # n => rs[k].start # rs[n].start
      /\ \A k, n \in 1..Len(rs) : rs[k].start > rs[n].start => b[n] < b[k]
    BY <1>1, StartsApart
<1>3. PICK f : Descends(rs, f)
    BY <1>2, FromTheEndIs
<1>4. Len(rs) \in Nat
    BY SeqFacts
<1> DEFINE N == Len(rs)
           fr == FromTheEnd(rs)
           c == [n \in 1..N |-> b[f[n]]]
<1>5. /\ fr = [n \in 1..N |-> rs[f[n]]]
      /\ \A n \in 1..N : f[n] \in 1..N
      /\ \A k, n \in 1..N : k < n => rs[f[k]].start > rs[f[n]].start
      /\ \A i \in 1..N : \E n \in 1..N : f[n] = i
    BY <1>3 DEF Descends
<1>6. \A n \in 1..N : c[n] = b[f[n]]
    OBVIOUS
<1>7. c = [n \in 1..N |-> c[n]]
    OBVIOUS
<1> HIDE DEF fr, c
<1>8. Len(fr) = N /\ \A n \in 1..N : fr[n] = rs[f[n]]
    <2>1. fr = [n \in 1..N |-> fr[n]] /\ \A n \in 1..N : fr[n] = rs[f[n]]
        BY <1>5
    <2>2. QED
        BY <1>4, <2>1, FcnIsSeq
<1>9. \A n \in 1..N : b[n] \in 1..Len(bs) /\ Hit(bs, o, ds, rs[n], at[n], b[n])
    BY DEF Blocked
<1>10. c \in [1..N -> 1..Len(bs)]
    <2>1. \A n \in 1..N : c[n] \in 1..Len(bs)
        BY <1>5, <1>6, <1>9
    <2>2. QED
        BY <1>7, <2>1
<1>11. ASSUME NEW n \in 1..N
       PROVE  /\ fr[n].start = o[c[n] - 1] /\ fr[n].end = o[c[n]]
              /\ fr[n].text = News(bs, ds)[c[n]] /\ IsBlock(News(bs, ds)[c[n]])
    <2>1. PICK k \in 1..N : k = f[n]
        BY <1>5
    <2>2. fr[n] = rs[k] /\ c[n] = b[k]
        BY <1>6, <1>8, <2>1
    <2>3. PICK m \in 1..Len(bs) : m = b[k]
        BY <1>9
    <2>4. PICK i \in 1..Len(ds) : i = at[k]
        BY <1>9 DEF Hit
    <2>5. /\ Counts(bs, m) /\ IngestID(ds[i]) = BlockID(bs[m])
          /\ rs[k].start = o[m - 1] /\ rs[k].end = o[m] /\ rs[k].text = FormatDirective(ds[i])
        BY <1>9, <2>3, <2>4 DEF Hit
    <2>6. News(bs, ds)[m] = FormatDirective(ds[i])
        BY <1>1, <2>5, ReplacingOne
    <2>7. IsBlock(FormatDirective(ds[i]))
        BY <1>1, FormatIs
    <2>8. QED
        BY <2>2, <2>3, <2>5, <2>6, <2>7
<1>12. ASSUME NEW k \in 1..N, NEW n \in 1..N, k < n
       PROVE  c[n] < c[k]
    <2>1. rs[f[k]].start > rs[f[n]].start
        BY <1>5, <1>12
    <2>2. b[f[n]] < b[f[k]]
        BY <1>2, <1>5, <2>1
    <2>3. QED
        BY <1>6, <2>2
<1>13. Targets(fr, bs, o, News(bs, ds), c)
    BY <1>8, <1>10, <1>11, <1>12 DEF Targets
<1>14. \A m \in 1..Len(bs) : (\E k \in 1..N : c[k] = m) <=> (\E k \in 1..N : b[k] = m)
    <2>1. TAKE m \in 1..Len(bs)
    <2>2. ASSUME NEW k \in 1..N, c[k] = m
          PROVE  \E n \in 1..N : b[n] = m
        BY <1>5, <1>6, <2>2
    <2>3. ASSUME NEW k \in 1..N, b[k] = m
          PROVE  \E n \in 1..N : c[n] = m
        <3>1. PICK n \in 1..N : f[n] = k
            BY <1>5
        <3>2. QED
            BY <1>6, <2>3, <3>1
    <2>4. QED
        BY <2>2, <2>3
<1>15. QED
    BY <1>4, <1>8, <1>13, <1>14 DEF fr

(* The text with what replaces its blocks is those blocks. *)
LEMMA ReplacementsCut ==
    ASSUME NEW text, NEW bs, NEW o, Cuts(text, bs, o), NEW ds, Writable(ds), KeysApart(ds)
    PROVE  LET spans == IdSpan(Parse(text))
               spliced == Spliced(text, FromTheEnd(Replacements(spans, Known(spans, ds))))
           IN  /\ spliced.ok = TRUE
               /\ \E bs2, o2 : /\ Cuts(spliced.text, bs2, o2) /\ Len(bs2) = Len(bs)
                               /\ \A m \in 1..Len(bs) : bs2[m] = Replaced(bs, ds, m)
<1> DEFINE spans == IdSpan(Parse(text))
           at == KnownAt(spans, ds)
           rs == Replacements(spans, Known(spans, ds))
           fr == FromTheEnd(rs)
<1>1. IsSeq(ds) /\ Len(ds) \in Nat /\ DOMAIN ds = 1..Len(ds)
    BY SeqFacts DEF Writable
<1>2. /\ IsSeq(rs) /\ Len(rs) = Len(at)
      /\ \A n \in 1..Len(rs) : \E m \in 1..Len(bs) : Hit(bs, o, ds, rs[n], at[n], m)
    BY <1>1, ReplacementsHit
<1>3. /\ IsSeq(at)
      /\ \A n \in 1..Len(at) : at[n] \in 1..Len(ds) /\ IngestID(ds[at[n]]) \in DOMAIN spans
      /\ \A k, n \in 1..Len(at) : k < n => at[k] < at[n]
      /\ \A i \in 1..Len(ds) : IngestID(ds[i]) \in DOMAIN spans => \E n \in 1..Len(at) : at[n] = i
    BY <1>1, KnownAtLists
<1>4. DOMAIN spans = {BlockID(bs[m]) : m \in 1..Len(bs)} \ {Nothing}
    BY SpansDomain
<1> HIDE DEF spans, at, rs, fr
<1>5. \A k, n \in 1..Len(rs) : k # n => at[k] # at[n]
    <2>1. TAKE k, n \in 1..Len(rs)
    <2>2. HAVE k # n
    <2>3. k \in 1..Len(at) /\ n \in 1..Len(at) /\ Len(at) \in Nat
        BY <1>2, <1>3, SeqFacts
    <2>4. k < n \/ n < k
        BY <2>2, <2>3
    <2>5. k < n => at[k] < at[n]
        BY <1>3, <2>3
    <2>6. n < k => at[n] < at[k]
        BY <1>3, <2>3
    <2>7. at[k] \in 1..Len(ds) /\ at[n] \in 1..Len(ds)
        BY <1>3, <2>3
    <2>8. QED
        BY <1>1, <2>4, <2>5, <2>6, <2>7
<1>6. PICK b : Blocked(rs, at, bs, o, ds, b)
    BY <1>2, BlockedExists
<1>7. /\ Len(fr) = Len(rs) /\ Len(rs) \in Nat
      /\ \E c : /\ Targets(fr, bs, o, News(bs, ds), c)
                /\ \A m \in 1..Len(bs) :
                      (\E k \in 1..Len(rs) : c[k] = m) <=> (\E k \in 1..Len(rs) : b[k] = m)
    BY <1>2, <1>5, <1>6, FromTheEndTargets DEF fr
<1>8. PICK c : /\ Targets(fr, bs, o, News(bs, ds), c)
               /\ \A m \in 1..Len(bs) :
                      (\E k \in 1..Len(rs) : c[k] = m) <=> (\E k \in 1..Len(rs) : b[k] = m)
    BY <1>7
<1>9. PICK bs2, o2 : Made(Spliced(text, fr), Len(fr), bs, o, News(bs, ds), c, bs2, o2)
    BY <1>7, <1>8, SplicedCuts
<1>10. ASSUME NEW m \in 1..Len(bs)
       PROVE  bs2[m] = Replaced(bs, ds, m)
    <2>1. bs2[m] = IF \E k \in 1..Len(rs) : c[k] = m THEN News(bs, ds)[m] ELSE bs[m]
        BY <1>7, <1>9 DEF Made
    <2>2. (\E k \in 1..Len(rs) : c[k] = m) <=> (\E k \in 1..Len(rs) : b[k] = m)
        BY <1>8
    <2>3. News(bs, ds)[m] = FormatDirective(ds[CHOOSE i \in Replacing(bs, ds, m) : TRUE])
        BY DEF News
    <2>4. ASSUME NEW k \in 1..Len(rs), b[k] = m
          PROVE  Replacing(bs, ds, m) # {}
        <3>1. Hit(bs, o, ds, rs[k], at[k], m)
            BY <1>6, <2>4 DEF Blocked
        <3>2. at[k] \in Replacing(bs, ds, m)
            BY <1>1, <3>1 DEF Hit, Replacing
        <3>3. QED
            BY <3>2
    <2>5. ASSUME Replacing(bs, ds, m) # {}
          PROVE  \E k \in 1..Len(rs) : b[k] = m
        <3>1. PICK i \in 1..Len(ds) : Counts(bs, m) /\ IngestID(ds[i]) = BlockID(bs[m])
            BY <1>1, <2>5 DEF Replacing
        <3>2. IngestID(ds[i]) \in DOMAIN spans
            BY <1>4, <3>1 DEF Counts
        <3>3. PICK k \in 1..Len(at) : at[k] = i
            BY <1>3, <3>2
        <3>4. k \in 1..Len(rs)
            BY <1>2
        <3>5. b[k] \in 1..Len(bs) /\ Counts(bs, b[k]) /\ IngestID(ds[i]) = BlockID(bs[b[k]])
            BY <1>6, <3>3, <3>4 DEF Blocked, Hit
        <3>6. Len(bs) \in Nat
            BY CutsLens
        <3>7. b[k] = m
            BY <3>1, <3>5, <3>6, CountsOnce
        <3>8. QED
            BY <3>4, <3>7
    <2>6. QED
        BY <2>1, <2>2, <2>3, <2>4, <2>5 DEF Replaced
<1>11. Spliced(text, fr).ok = TRUE /\ Cuts(Spliced(text, fr).text, bs2, o2) /\ Len(bs2) = Len(bs)
    BY <1>9 DEF Made
<1>12. QED
    BY <1>10, <1>11 DEF fr, rs, spans

----------------------------------------------------------------------------
(* What is added *)

(* The directives of the stream whose id the text does not have. *)
NewAt(spans, ds) == Places([i \in DOMAIN ds |-> IngestID(ds[i]) \notin DOMAIN spans])

LEMMA NewAtIs ==
    ASSUME NEW spans, NEW ds, IsSeq(ds)
    PROVE  /\ Len(NewAt(spans, ds)) \in Nat
           /\ DOMAIN NewAt(spans, ds) = 1..Len(NewAt(spans, ds))
           /\ \A n \in 1..Len(NewAt(spans, ds)) : NewAt(spans, ds)[n] \in 1..Len(ds)
           /\ Added(spans, ds) = [n \in 1..Len(NewAt(spans, ds)) |-> ds[NewAt(spans, ds)[n]]]
<1> DEFINE holds == [i \in 1..Len(ds) |-> IngestID(ds[i]) \notin DOMAIN spans]
           at == NewAt(spans, ds)
<1>1. Len(ds) \in Nat /\ DOMAIN ds = 1..Len(ds)
    BY SeqFacts
<1>2. Len(holds) = Len(ds)
    <2>1. holds = [i \in 1..Len(ds) |-> holds[i]]
        OBVIOUS
    <2> HIDE DEF holds
    <2>2. QED
        BY <1>1, <2>1, FcnIsSeq
<1>3. at = Places(holds)
    BY <1>1 DEF NewAt
<1>4. Added(spans, ds) = [n \in DOMAIN at |-> ds[at[n]]]
    BY Zenon DEF Added, NewAt
<1> HIDE DEF holds, at
<1>5. Lists(at, holds, Len(ds))
    BY <1>1, <1>2, <1>3, PlacesList
<1>6. IsSeq(at) /\ \A n \in 1..Len(at) : at[n] \in 1..Len(ds)
    BY <1>5 DEF Lists
<1>7. Len(at) \in Nat /\ DOMAIN at = 1..Len(at)
    BY <1>6, SeqFacts
<1>8. Added(spans, ds) = [n \in 1..Len(at) |-> ds[at[n]]]
    BY <1>4, <1>7
<1>9. QED
    BY <1>6, <1>7, <1>8 DEF at

(* The blocks that come after those of the file. *)
NewBlocks(spans, ds) == [n \in 1..Len(NewAt(spans, ds)) |-> FormatDirective(ds[NewAt(spans, ds)[n]])]

LEMMA NewBlocksAre ==
    ASSUME NEW spans, NEW ds, Writable(ds)
    PROVE  /\ IsSeq(NewBlocks(spans, ds))
           /\ \A n \in 1..Len(NewBlocks(spans, ds)) : IsBlock(NewBlocks(spans, ds)[n])
           /\ NewBlocks(spans, ds) = [n \in DOMAIN Added(spans, ds) |-> FormatDirective(Added(spans, ds)[n])]
<1> DEFINE at == NewAt(spans, ds)
           added == Added(spans, ds)
           cs == NewBlocks(spans, ds)
<1>1. IsSeq(ds) /\ \A i \in 1..Len(ds) : IsSeq(ds[i].postings)
    BY DEF Writable
<1>2. /\ Len(at) \in Nat /\ \A n \in 1..Len(at) : at[n] \in 1..Len(ds)
      /\ added = [n \in 1..Len(at) |-> ds[at[n]]]
    BY <1>1, NewAtIs
<1>3. cs = [n \in 1..Len(at) |-> FormatDirective(ds[at[n]])]
    BY DEF NewBlocks
<1> HIDE DEF at, added, cs
<1>4. cs = [n \in 1..Len(at) |-> cs[n]] /\ \A n \in 1..Len(at) : cs[n] = FormatDirective(ds[at[n]])
    BY <1>3
<1>5. IsSeq(cs) /\ Len(cs) = Len(at)
    BY <1>2, <1>4, FcnIsSeq
<1>6. \A n \in 1..Len(at) : IsBlock(FormatDirective(ds[at[n]]))
    <2>1. TAKE n \in 1..Len(at)
    <2>2. PICK i \in 1..Len(ds) : i = at[n]
        BY <1>2
    <2>3. IsSeq(ds[i].postings)
        BY <1>1
    <2>4. QED
        BY <2>2, <2>3, FormatIs
<1>7. DOMAIN added = 1..Len(at) /\ \A n \in 1..Len(at) : added[n] = ds[at[n]]
    BY <1>2
<1>8. cs = [n \in DOMAIN added |-> FormatDirective(added[n])]
    BY <1>3, <1>7
<1>9. QED
    BY <1>4, <1>5, <1>6, <1>8 DEF cs, added

(* What Upsert calls the merge, in these words. *)
LEMMA MergedIs ==
    ASSUME NEW bs, IsSeq(bs), NEW ds, IsSeq(ds), NEW spans,
           DOMAIN spans = {BlockID(bs[m]) : m \in 1..Len(bs)} \ {Nothing}
    PROVE  Promise!Merged(bs, ds) = [m \in 1..Len(bs) |-> Replaced(bs, ds, m)] \o NewBlocks(spans, ds)
<1> DEFINE at == Promise!Places([i \in DOMAIN ds |-> Promise!IsNew(bs, ds[i])])
           left == [n \in DOMAIN bs |->
                       IF Promise!Replacing(bs, ds, n) = {} THEN bs[n]
                       ELSE FormatDirective(ds[CHOOSE i \in Promise!Replacing(bs, ds, n) : TRUE])]
           right == [n \in DOMAIN at |-> FormatDirective(ds[at[n]])]
<1>1. Promise!Merged(bs, ds) = left \o right
    BY Zenon DEF Promise!Merged
<1>2. DOMAIN bs = 1..Len(bs)
    BY SeqFacts
<1>3. left = [n \in 1..Len(bs) |-> Replaced(bs, ds, n)]
    <2>1. \A n \in 1..Len(bs) :
              (IF Promise!Replacing(bs, ds, n) = {} THEN bs[n]
               ELSE FormatDirective(ds[CHOOSE i \in Promise!Replacing(bs, ds, n) : TRUE]))
              = Replaced(bs, ds, n)
        BY Zenon DEF Replaced, Promise!Replacing, Promise!Counts, Replacing, Counts
    <2>2. QED
        BY Zenon, <1>2, <2>1
<1>4. ASSUME NEW i \in DOMAIN ds
      PROVE  Promise!IsNew(bs, ds[i]) <=> IngestID(ds[i]) \notin DOMAIN spans
    <2>1. ASSUME Promise!IsNew(bs, ds[i])
          PROVE  IngestID(ds[i]) \notin DOMAIN spans
        <3>1. SUFFICES ASSUME IngestID(ds[i]) \in DOMAIN spans
                       PROVE  FALSE
            OBVIOUS
        <3>2. IngestID(ds[i]) # Nothing /\ \E m \in 1..Len(bs) : BlockID(bs[m]) = IngestID(ds[i])
            BY <3>1
        <3>3. PICK m \in DOMAIN bs : BlockID(bs[m]) = IngestID(ds[i])
            BY <1>2, <3>2
        <3>4. IngestID(ds[i]) = Nothing \/ BlockID(bs[m]) # IngestID(ds[i])
            BY Zenon, <2>1 DEF Promise!IsNew
        <3>5. QED
            BY <3>2, <3>3, <3>4
    <2>2. ASSUME IngestID(ds[i]) \notin DOMAIN spans
          PROVE  Promise!IsNew(bs, ds[i])
        <3>1. ASSUME NEW n \in DOMAIN bs
              PROVE  IngestID(ds[i]) = Nothing \/ BlockID(bs[n]) # IngestID(ds[i])
            BY <1>2, <2>2
        <3>2. QED
            BY Zenon, <3>1 DEF Promise!IsNew
    <2>3. QED
        BY <2>1, <2>2
<1>5. at = NewAt(spans, ds)
    <2>1. [i \in DOMAIN ds |-> Promise!IsNew(bs, ds[i])]
          = [i \in DOMAIN ds |-> IngestID(ds[i]) \notin DOMAIN spans]
        <3>1. \A i \in DOMAIN ds : Promise!IsNew(bs, ds[i]) = (IngestID(ds[i]) \notin DOMAIN spans)
            <4>1. TAKE i \in DOMAIN ds
            <4>2. Promise!IsNew(bs, ds[i]) \in BOOLEAN
                BY Zenon DEF Promise!IsNew
            <4>3. QED
                BY Zenon, <1>4, <4>2
        <3>2. QED
            BY Zenon, <3>1
    <2>2. \A h : Promise!Places(h) = Places(h)
        BY Zenon DEF Promise!Places, Places
    <2>3. QED
        BY Zenon, <2>1, <2>2 DEF NewAt
<1>6. right = NewBlocks(spans, ds)
    <2>1. DOMAIN at = 1..Len(NewAt(spans, ds))
        BY <1>5, NewAtIs
    <2>2. QED
        BY Zenon, <1>5, <2>1 DEF NewBlocks
<1>7. QED
    BY Zenon, <1>1, <1>3, <1>6

----------------------------------------------------------------------------
(* All of Apply *)

(* Even where two directives of the stream ask for one id, the result is a *)
(* text.                                                                   *)
LEMMA SpliceIsSeq ==
    ASSUME NEW acc, IsSeq(acc.text), NEW r, IsSeq(r.text),
           r.start \in Nat, r.end \in Nat, r.start <= r.end
    PROVE  IsSeq(Splice(acc, r).text)
<1>1. CASE ~acc.ok \/ r.end > Len(acc.text)
    <2>1. Splice(acc, r) = [ok |-> FALSE, text |-> acc.text]
        BY <1>1 DEF Splice
    <2>2. Splice(acc, r).text = acc.text
        BY <2>1
    <2>3. QED
        BY <2>2
<1>2. CASE ~(~acc.ok \/ r.end > Len(acc.text))
    <2> DEFINE new == SubSeq(acc.text, 1, r.start) \o r.text \o SubSeq(acc.text, r.end + 1, Len(acc.text))
    <2>1. Splice(acc, r) = [ok |-> TRUE, text |-> new]
        BY <1>2 DEF Splice
    <2>2. Splice(acc, r).text = new
        <3> HIDE DEF new
        <3>1. QED
            BY <2>1
    <2>3. Len(acc.text) \in Nat
        BY SeqFacts
    <2>4. PICK t : t = acc.text
        OBVIOUS
    <2>5. PICK b : b = r.text
        OBVIOUS
    <2>6. PICK e \in 0..Len(t) : e = r.end
        BY <1>2, <2>3, <2>4
    <2>7. PICK a \in 0..Len(t) : a = r.start /\ a <= e
        BY <2>3, <2>4, <2>6
    <2>8. e \in a..Len(t)
        BY <2>7
    <2>9. IsSpliced(SubSeq(t, 1, a) \o b \o SubSeq(t, e + 1, Len(t)), t, b, a, e)
        BY <2>4, <2>5, <2>8, SplicedText
    <2>10. IsSeq(SubSeq(t, 1, a) \o b \o SubSeq(t, e + 1, Len(t)))
        BY <2>9 DEF IsSpliced
    <2>11. IsSeq(new)
        BY Zenon, <2>4, <2>5, <2>6, <2>7, <2>10
    <2> HIDE DEF new
    <2>12. QED
        BY <2>2, <2>11
<1>3. QED
    BY <1>1, <1>2

(* Replacements of lines by lines. *)
Sound(r) == IsSeq(r.text) /\ r.start \in Nat /\ r.end \in Nat /\ r.start <= r.end

LEMMA SplicedIsSeq ==
    ASSUME NEW text, IsSeq(text), NEW rs, Len(rs) \in Nat, \A n \in 1..Len(rs) : Sound(rs[n])
    PROVE  IsSeq(Spliced(text, rs).text)
<1> DEFINE n == Len(rs)
           f == CHOOSE g : g = [i \in 0..n |-> IF i = 0 THEN [ok |-> TRUE, text |-> text]
                                               ELSE Splice(g[i - 1], rs[i])]
<1>1. IsAfter(f, text, rs, n)
    <2>1. \E g : IsAfter(g, text, rs, n)
        BY AfterExists
    <2>2. QED
        BY Zenon, <2>1 DEF IsAfter
<1>2. Spliced(text, rs) = f[n]
    BY DEF Spliced
<1> HIDE DEF f
<1> DEFINE S == {i \in Nat : i <= n => IsSeq(f[i].text)}
<1>3. 0 \in S
    <2>1. f[0] = [ok |-> TRUE, text |-> text]
        BY <1>1 DEF IsAfter
    <2>2. f[0].text = text
        BY <2>1
    <2>3. QED
        BY <2>2
<1>4. ASSUME NEW i \in Nat, i \in S
      PROVE  i + 1 \in S
    <2>1. SUFFICES ASSUME i + 1 <= n PROVE IsSeq(f[i + 1].text)
        OBVIOUS
    <2>2. PICK k \in 1..n : k = i + 1
        BY <2>1
    <2>3. IsSeq(f[i].text)
        BY <1>4, <2>1
    <2>4. f[k] = Splice(f[i], rs[k])
        <3>1. k \in 0..n /\ k # 0 /\ k - 1 = i
            BY <2>2
        <3>2. QED
            BY <1>1, <3>1 DEF IsAfter
    <2>5. Sound(rs[k])
        OBVIOUS
    <2>6. IsSeq(Splice(f[i], rs[k]).text)
        BY <2>3, <2>5, SpliceIsSeq DEF Sound
    <2>7. QED
        BY <2>2, <2>4, <2>6
<1> HIDE DEF S
<1>5. Nat \subseteq S
    BY <1>3, <1>4, SetInduction
<1>6. QED
    BY <1>2, <1>5 DEF S

LEMMA ReplacementsSound ==
    ASSUME NEW text, NEW bs, NEW o, Cuts(text, bs, o), NEW ds, Writable(ds)
    PROVE  LET spans == IdSpan(Parse(text))
               fr == FromTheEnd(Replacements(spans, Known(spans, ds)))
           IN  Len(fr) \in Nat /\ \A n \in 1..Len(fr) : Sound(fr[n])
<1> DEFINE spans == IdSpan(Parse(text))
           at == KnownAt(spans, ds)
           rs == Replacements(spans, Known(spans, ds))
           fr == FromTheEnd(rs)
<1>1. IsSeq(ds) /\ \A i \in 1..Len(ds) : IsSeq(ds[i].postings)
    BY DEF Writable
<1>2. /\ IsSeq(rs)
      /\ \A n \in 1..Len(rs) : \E m \in 1..Len(bs) : Hit(bs, o, ds, rs[n], at[n], m)
    BY <1>1, ReplacementsHit
<1> HIDE DEF spans, at, rs, fr
<1>3. ASSUME NEW n \in 1..Len(rs)
      PROVE  Sound(rs[n])
    <2>1. PICK m \in 1..Len(bs) : Hit(bs, o, ds, rs[n], at[n], m)
        BY <1>2
    <2>2. rs[n].start = o[m - 1] /\ rs[n].end = o[m]
        BY <2>1 DEF Hit
    <2>3. o[m - 1] \in Nat /\ o[m] \in Nat /\ o[m - 1] < o[m]
        BY CutsLens
    <2>4. PICK i \in 1..Len(ds) : rs[n].text = FormatDirective(ds[i])
        BY <2>1 DEF Hit
    <2>5. IsSeq(FormatDirective(ds[i]))
        <3>1. IsSeq(ds[i].postings)
            BY <1>1
        <3>2. QED
            BY <3>1, FormatIs DEF IsBlock
    <2>6. rs[n].start \in Nat /\ rs[n].end \in Nat /\ rs[n].start <= rs[n].end
        BY <2>2, <2>3
    <2>7. QED
        BY <2>4, <2>5, <2>6 DEF Sound
<1>4. PICK f : Ranks(rs, f)
    <2>1. \A n \in 1..Len(rs) : rs[n].start \in Nat
        BY <1>3 DEF Sound
    <2>2. QED
        BY <1>2, <2>1, FromTheEndRanks
<1>5. /\ fr = [n \in 1..Len(rs) |-> rs[f[n]]]
      /\ \A n \in 1..Len(rs) : f[n] \in 1..Len(rs)
    BY <1>4 DEF Ranks, fr
<1>6. fr = [n \in 1..Len(rs) |-> fr[n]] /\ \A n \in 1..Len(rs) : fr[n] = rs[f[n]]
    BY <1>5
<1>7. Len(rs) \in Nat
    BY <1>2, SeqFacts
<1>8. Len(fr) = Len(rs)
    BY <1>6, <1>7, FcnIsSeq
<1>9. \A n \in 1..Len(fr) : Sound(fr[n])
    BY <1>3, <1>5, <1>6, <1>8
<1>10. QED
    BY <1>7, <1>8, <1>9 DEF fr, rs, spans

(* What ingest makes of a text and a stream. *)
Applied(text, ds) ==
    LET spans == IdSpan(Parse(text))
    IN  Apply(text, FromTheEnd(Replacements(spans, Known(spans, ds))), Added(spans, ds))

LEMMA AppliedIs ==
    ASSUME NEW text, NEW ds, Writable(ds)
    PROVE  LET spans == IdSpan(Parse(text))
               spliced == Spliced(text, FromTheEnd(Replacements(spans, Known(spans, ds))))
           IN  /\ Applied(text, ds).ok = spliced.ok
               /\ Applied(text, ds).text = spliced.text \o FlattenSeq(NewBlocks(spans, ds))
<1> DEFINE spans == IdSpan(Parse(text))
           fr == FromTheEnd(Replacements(spans, Known(spans, ds)))
           spliced == Spliced(text, fr)
           added == Added(spans, ds)
           cs == [n \in DOMAIN added |-> FormatDirective(added[n])]
           new == spliced.text \o FlattenSeq(cs)
<1>1. Applied(text, ds) = [ok |-> spliced.ok, text |-> new]
    BY Zenon DEF Applied, Apply
<1>2. cs = NewBlocks(spans, ds)
    BY NewBlocksAre
<1>3. new = spliced.text \o FlattenSeq(NewBlocks(spans, ds))
    BY Zenon, <1>2
<1> HIDE DEF new
<1>4. Applied(text, ds).ok = spliced.ok /\ Applied(text, ds).text = new
    BY <1>1
<1>5. QED
    BY Zenon, <1>3, <1>4

LEMMA AppliedIsSeq ==
    ASSUME NEW text, IsSeq(text), ~HasErrors(text), NEW ds, Writable(ds)
    PROVE  IsSeq(Applied(text, ds).text)
<1> DEFINE spans == IdSpan(Parse(text))
           fr == FromTheEnd(Replacements(spans, Known(spans, ds)))
           spliced == Spliced(text, fr)
           cs == NewBlocks(spans, ds)
<1>1. PICK o : Cuts(text, Blocks(text), o)
    BY BlocksCut
<1>2. Len(fr) \in Nat /\ \A n \in 1..Len(fr) : Sound(fr[n])
    BY <1>1, ReplacementsSound
<1>3. Applied(text, ds).text = spliced.text \o FlattenSeq(cs)
    BY AppliedIs
<1>4. IsSeq(cs) /\ \A n \in 1..Len(cs) : IsBlock(cs[n])
    BY NewBlocksAre
<1> HIDE DEF fr, cs
<1>5. IsSeq(spliced.text)
    BY <1>2, SplicedIsSeq
<1>6. IsSeq(FlattenSeq(cs))
    BY <1>4, FlattenCuts DEF Cuts, Laid
<1> HIDE DEF spliced
<1>7. IsSeq(spliced.text \o FlattenSeq(cs))
    BY <1>5, <1>6, Cat
<1>8. QED
    BY <1>3, <1>7

(* Replacing spans of lines from the end of the text to its start and      *)
(* adding the new directives is the merge of the blocks: Apply never fails *)
(* and does to each block what the promise says (apply.go:61).             *)
LEMMA AppliedMerges ==
    ASSUME NEW text, IsSeq(text), ~HasErrors(text), NEW ds, Writable(ds), KeysApart(ds)
    PROVE  /\ Applied(text, ds).ok = TRUE
           /\ Blocks(Applied(text, ds).text) = Promise!Merged(Blocks(text), ds)
           /\ \E o : Cuts(Applied(text, ds).text, Promise!Merged(Blocks(text), ds), o)
<1> DEFINE spans == IdSpan(Parse(text))
           spliced == Spliced(text, FromTheEnd(Replacements(spans, Known(spans, ds))))
           cs == NewBlocks(spans, ds)
           bs == Blocks(text)
           left == [m \in 1..Len(bs) |-> Replaced(bs, ds, m)]
<1>1. PICK o : Cuts(text, bs, o)
    BY BlocksCut
<1>2. /\ spliced.ok = TRUE
      /\ \E bs2, o2 : /\ Cuts(spliced.text, bs2, o2) /\ Len(bs2) = Len(bs)
                      /\ \A m \in 1..Len(bs) : bs2[m] = Replaced(bs, ds, m)
    BY <1>1, ReplacementsCut
<1>3. /\ Applied(text, ds).ok = spliced.ok
      /\ Applied(text, ds).text = spliced.text \o FlattenSeq(cs)
    BY AppliedIs
<1>4. IsSeq(cs) /\ \A n \in 1..Len(cs) : IsBlock(cs[n])
    BY NewBlocksAre
<1>5. IsSeq(ds) /\ IsSeq(bs)
    BY <1>1 DEF Writable, Cuts, Laid
<1>6. DOMAIN spans = {BlockID(bs[m]) : m \in 1..Len(bs)} \ {Nothing}
    BY <1>1, SpansDomain
<1>7. Promise!Merged(bs, ds) = left \o cs
    BY <1>5, <1>6, MergedIs
<1>8. left = [m \in 1..Len(bs) |-> left[m]] /\ \A m \in 1..Len(bs) : left[m] = Replaced(bs, ds, m)
    OBVIOUS
<1> HIDE DEF spans, spliced, cs, bs, left
<1>9. PICK bs2, o2 : /\ Cuts(spliced.text, bs2, o2) /\ Len(bs2) = Len(bs)
                     /\ \A m \in 1..Len(bs) : bs2[m] = Replaced(bs, ds, m)
    BY <1>2
<1>10. bs2 = left
    <2>1. Len(bs) \in Nat
        BY <1>5, SeqFacts
    <2>2. IsSeq(left) /\ Len(left) = Len(bs)
        BY <1>8, <2>1, FcnIsSeq
    <2>3. IsSeq(bs2)
        BY <1>9 DEF Cuts, Laid
    <2>4. \A m \in 1..Len(bs2) : bs2[m] = left[m]
        BY <1>8, <1>9
    <2>5. QED
        BY <1>9, <2>2, <2>3, <2>4, SameSeq
<1>11. PICK p : Cuts(FlattenSeq(cs), cs, p)
    BY <1>4, FlattenCuts
<1>12. PICK q : Cuts(spliced.text \o FlattenSeq(cs), bs2 \o cs, q)
    BY <1>9, <1>11, CutsCat
<1>13. Blocks(spliced.text \o FlattenSeq(cs)) = bs2 \o cs
    BY <1>12, BlocksAre
<1>14. Promise!Merged(bs, ds) = bs2 \o cs
    BY <1>7, <1>10
<1>15. QED
    BY <1>2, <1>3, <1>12, <1>13, <1>14 DEF bs
=============================================================================
