--------------------------- MODULE PipelineProofs ---------------------------
(***************************************************************************)
(* The account trees of an opened ledger add up: sums over finite sets of  *)
(* accounts, names and commodities, and the tree of the names' beginnings. *)
(* The expansion of auto-interest settles: folds over lists of directives, *)
(* the order of a stream, and what an expanded stream has that an          *)
(* expansion would add.  The balances as of a day are what the journal     *)
(* posted up to it: the order of a stream cut off at a day, and bookings   *)
(* where every entry has the day of its directive.                         *)
(***************************************************************************)
EXTENDS Pipeline, BookingProofs, FiniteSetTheorems, SequenceTheorems

(* Sums over finite sets, as SumOver takes them.                           *)
Taken(s) == CHOOSE x \in s : TRUE
StepOf(g, F, s) == IF s = {} THEN Zero ELSE RAdd(F[Taken(s)], g[s \ {Taken(s)}])
IsTotals(g, F, S) == g = [s \in SUBSET S |-> StepOf(g, F, s)]
Sums(F, S) == (CHOOSE g : IsTotals(g, F, S))[S]

(* SumOver of a table is the sum that the table of sums has.               *)
LEMMA SumOverIs ==
    ASSUME NEW F, NEW S
    PROVE  SumOver(S, LAMBDA a : F[a]) = Sums(F, S)
BY DEF SumOver, MapThenFoldSet, Sums, IsTotals, StepOf, Taken

LEMMA TakenIn ==
    ASSUME NEW s, s # {}
    PROVE  Taken(s) \in s
BY DEF Taken

(* What holds of the empty set, and of a set when it holds of it without   *)
(* any one of its elements, holds of every finite set.                     *)
LEMMA SubsetInduction ==
    ASSUME NEW U, IsFiniteSet(U), NEW Q,
           \A s \in SUBSET U : (\A x \in s : s \ {x} \in Q) => s \in Q
    PROVE  \A s \in SUBSET U : s \in Q
<1> DEFINE K == {k \in Nat : \A s \in SUBSET U : Cardinality(s) <= k => s \in Q}
<1>1. \A s \in SUBSET U : IsFiniteSet(s) /\ Cardinality(s) \in Nat
    BY FS_Subset, FS_CardinalityType
<1>2. 0 \in K
    <2>1. ASSUME NEW s \in SUBSET U, Cardinality(s) <= 0
          PROVE  s \in Q
        <3>1. Cardinality(s) = 0
            BY <1>1, <2>1
        <3>2. s = {}
            BY <1>1, <3>1, FS_EmptySet
        <3>3. QED
            BY <3>2
    <2>2. QED
        BY <2>1
<1>3. ASSUME NEW k \in Nat, k \in K
      PROVE  k + 1 \in K
    <2>1. ASSUME NEW s \in SUBSET U, Cardinality(s) <= k + 1
          PROVE  s \in Q
        <3>1. ASSUME NEW x \in s
              PROVE  s \ {x} \in Q
            <4>1. Cardinality(s \ {x}) = Cardinality(s) - 1
                BY <1>1, FS_RemoveElement
            <4>2. Cardinality(s \ {x}) <= k
                BY <1>1, <2>1, <4>1
            <4>3. QED
                BY <1>3, <4>2
        <3>2. QED
            BY <3>1
    <2>2. QED
        BY <2>1
<1> HIDE DEF K
<1>4. Nat \subseteq K
    BY <1>2, <1>3, SetInduction
<1>5. ASSUME NEW s \in SUBSET U
      PROVE  s \in Q
    <2>1. PICK k \in Nat : k = Cardinality(s)
        BY <1>1
    <2>2. k \in K
        BY <1>4
    <2>3. QED
        BY <2>1, <2>2 DEF K
<1>6. QED
    BY <1>5

(* The table of the sums over the subsets of a finite set exists.          *)
LEMMA TotalsExist ==
    ASSUME NEW F, NEW S, IsFiniteSet(S)
    PROVE  \E g : IsTotals(g, F, S)
<1> DEFINE K == {k \in Nat : \E g : \A s \in SUBSET S : Cardinality(s) <= k => g[s] = StepOf(g, F, s)}
<1>1. \A s \in SUBSET S : IsFiniteSet(s) /\ Cardinality(s) \in Nat
    BY FS_Subset, FS_CardinalityType
<1>2. 0 \in K
    <2> DEFINE g == [s \in SUBSET S |-> Zero]
    <2>1. ASSUME NEW s \in SUBSET S, Cardinality(s) <= 0
          PROVE  g[s] = StepOf(g, F, s)
        <3>1. Cardinality(s) = 0
            BY <1>1, <2>1
        <3>2. s = {}
            BY <1>1, <3>1, FS_EmptySet
        <3>3. QED
            BY <3>2 DEF StepOf
    <2>2. QED
        BY <2>1
<1>3. ASSUME NEW k \in Nat, k \in K
      PROVE  k + 1 \in K
    <2>1. PICK g : \A s \in SUBSET S : Cardinality(s) <= k => g[s] = StepOf(g, F, s)
        BY <1>3
    <2> DEFINE h == [s \in SUBSET S |-> IF Cardinality(s) <= k THEN g[s] ELSE StepOf(g, F, s)]
    <2>2. \A s \in SUBSET S : h[s] = IF Cardinality(s) <= k THEN g[s] ELSE StepOf(g, F, s)
        OBVIOUS
    <2> HIDE DEF h
    <2>3. ASSUME NEW s \in SUBSET S, Cardinality(s) <= k + 1
          PROVE  h[s] = StepOf(h, F, s)
        <3>1. h[s] = StepOf(g, F, s)
            BY <2>1, <2>2
        <3>2. CASE s = {}
            BY <3>1, <3>2 DEF StepOf
        <3>3. CASE s # {}
            <4>1. PICK x \in s : x = Taken(s)
                BY <3>3, TakenIn
            <4>2. Cardinality(s \ {x}) = Cardinality(s) - 1
                BY <1>1, FS_RemoveElement
            <4>3. Cardinality(s \ {x}) <= k
                BY <1>1, <2>3, <4>2
            <4>4. h[s \ {x}] = g[s \ {x}]
                BY <2>2, <4>3
            <4>5. QED
                BY <3>1, <3>3, <4>1, <4>4 DEF StepOf
        <3>4. QED
            BY <3>2, <3>3
    <2>4. QED
        BY <2>3
<1> HIDE DEF K
<1>4. Cardinality(S) \in K
    BY <1>1, <1>2, <1>3, SetInduction
<1>5. PICK g : \A s \in SUBSET S : Cardinality(s) <= Cardinality(S) => g[s] = StepOf(g, F, s)
    BY <1>4 DEF K
<1>6. \A s \in SUBSET S : g[s] = StepOf(g, F, s)
    <2>1. \A s \in SUBSET S : Cardinality(s) <= Cardinality(S)
        BY FS_Subset
    <2>2. QED
        BY <1>5, <2>1
<1> DEFINE h == [s \in SUBSET S |-> g[s]]
<1>7. h = [s \in SUBSET S |-> h[s]] /\ \A s \in SUBSET S : h[s] = g[s]
    OBVIOUS
<1> HIDE DEF h
<1>8. ASSUME NEW s \in SUBSET S
      PROVE  h[s] = StepOf(h, F, s)
    <2>1. s \ {Taken(s)} \in SUBSET S
        OBVIOUS
    <2>2. StepOf(h, F, s) = StepOf(g, F, s)
        BY <1>7, <2>1 DEF StepOf
    <2>3. QED
        BY <1>6, <1>7, <2>2
<1>9. IsTotals(h, F, S)
    BY <1>7, <1>8 DEF IsTotals
<1>10. QED
    BY <1>9

LEMMA TableIs ==
    ASSUME NEW F, NEW S, NEW g, IsTotals(g, F, S)
    PROVE  \A s \in SUBSET S : g[s] = StepOf(g, F, s)
<1>1. g = [s \in SUBSET S |-> StepOf(g, F, s)]
    BY DEF IsTotals
<1>2. QED
    BY <1>1

(* A sum is its first term and the sum of the others.                      *)
LEMMA SumsStep ==
    ASSUME NEW F, NEW S, IsFiniteSet(S)
    PROVE  /\ S = {} => Sums(F, S) = Zero
           /\ S # {} => Sums(F, S) = RAdd(F[Taken(S)], Sums(F, S \ {Taken(S)}))
<1>1. PICK g : g = CHOOSE h : IsTotals(h, F, S)
    OBVIOUS
<1>2. IsTotals(g, F, S)
    BY <1>1, TotalsExist
<1>3. \A s \in SUBSET S : g[s] = StepOf(g, F, s)
    BY <1>2, TableIs
<1>4. Sums(F, S) = g[S]
    BY <1>1 DEF Sums
<1>5. CASE S = {}
    BY <1>3, <1>4, <1>5 DEF StepOf
<1>6. CASE S # {}
    <2>1. PICK x \in S : x = Taken(S)
        BY <1>6, TakenIn
    <2>2. PICK T \in SUBSET S : T = S \ {x}
        OBVIOUS
    <2>3. IsFiniteSet(T)
        BY FS_Subset
    <2>4. PICK h : h = CHOOSE k : IsTotals(k, F, T)
        OBVIOUS
    <2>5. IsTotals(h, F, T)
        BY <2>3, <2>4, TotalsExist
    <2>6. \A s \in SUBSET T : h[s] = StepOf(h, F, s)
        BY <2>5, TableIs
    <2> DEFINE Q == {s \in SUBSET T : g[s] = h[s]}
    <2>7. ASSUME NEW s \in SUBSET T, \A y \in s : s \ {y} \in Q
          PROVE  s \in Q
        <3>1. g[s] = StepOf(g, F, s) /\ h[s] = StepOf(h, F, s)
            BY <1>3, <2>2, <2>6
        <3>2. CASE s = {}
            BY <3>1, <3>2 DEF StepOf
        <3>3. CASE s # {}
            <4>1. PICK y \in s : y = Taken(s)
                BY <3>3, TakenIn
            <4>2. g[s \ {y}] = h[s \ {y}]
                BY <2>7
            <4>3. QED
                BY <3>1, <3>3, <4>1, <4>2 DEF StepOf
        <3>4. QED
            BY <3>2, <3>3
    <2> HIDE DEF Q
    <2>8. T \in Q
        BY <2>3, <2>7, SubsetInduction
    <2>9. g[T] = Sums(F, T)
        BY <2>4, <2>8 DEF Q, Sums
    <2>10. g[S] = RAdd(F[x], g[T])
        BY <1>3, <1>6, <2>1, <2>2 DEF StepOf
    <2>11. QED
        BY <1>4, <1>6, <2>1, <2>2, <2>9, <2>10
<1>7. QED
    BY <1>5, <1>6

(* Sums of numbers are numbers.                                            *)
LEMMA SumsNum ==
    ASSUME NEW F, NEW S, IsFiniteSet(S), \A x \in S : F[x] \in Num
    PROVE  Sums(F, S) \in Num
<1> DEFINE Q == {s \in SUBSET S : Sums(F, s) \in Num}
<1>1. ASSUME NEW s \in SUBSET S, \A x \in s : s \ {x} \in Q
      PROVE  s \in Q
    <2>1. IsFiniteSet(s)
        BY FS_Subset
    <2>2. CASE s = {}
        BY <2>1, <2>2, SumsStep, ZeroNum
    <2>3. CASE s # {}
        <3>1. PICK x \in s : x = Taken(s)
            BY <2>3, TakenIn
        <3>2. Sums(F, s \ {x}) \in Num /\ F[x] \in Num
            BY <1>1
        <3>3. Sums(F, s) = RAdd(F[x], Sums(F, s \ {x}))
            BY <2>1, <2>3, <3>1, SumsStep
        <3>4. QED
            BY <3>2, <3>3, AddNum
    <2>4. QED
        BY <2>2, <2>3
<1> HIDE DEF Q
<1>2. \A s \in SUBSET S : (\A x \in s : s \ {x} \in Q) => s \in Q
    BY ONLY <1>1
<1>3. \A s \in SUBSET S : s \in Q
    BY ONLY <1>2, IsFiniteSet(S), SubsetInduction
<1>4. QED
    BY <1>3 DEF Q

(* Any element may be taken first.                                         *)
LEMMA SumsAny ==
    ASSUME NEW F, NEW S, IsFiniteSet(S), \A x \in S : F[x] \in Num
    PROVE  \A x \in S : Sums(F, S) = RAdd(F[x], Sums(F, S \ {x}))
<1> DEFINE Q == {s \in SUBSET S : \A x \in s : Sums(F, s) = RAdd(F[x], Sums(F, s \ {x}))}
<1>1. ASSUME NEW s \in SUBSET S, \A x \in s : s \ {x} \in Q
      PROVE  s \in Q
    <2>1. ASSUME NEW x \in s
          PROVE  Sums(F, s) = RAdd(F[x], Sums(F, s \ {x}))
        <3>1. IsFiniteSet(s)
            BY FS_Subset
        <3>2. PICK p \in s : p = Taken(s)
            BY <2>1, TakenIn
        <3>3. Sums(F, s) = RAdd(F[p], Sums(F, s \ {p}))
            BY <3>1, <3>2, SumsStep
        <3>4. CASE x = p
            BY <3>3, <3>4
        <3>5. CASE x # p
            <4>1. PICK t \in SUBSET s : t = (s \ {p}) \ {x}
                OBVIOUS
            <4>2. t = (s \ {x}) \ {p}
                BY <4>1
            <4>3. x \in s \ {p} /\ p \in s \ {x}
                BY <3>5
            <4>4. Sums(F, s \ {p}) = RAdd(F[x], Sums(F, t))
                BY <1>1, <4>1, <4>3
            <4>5. Sums(F, s \ {x}) = RAdd(F[p], Sums(F, t))
                BY <1>1, <4>2, <4>3
            <4>6. IsFiniteSet(t) /\ \A y \in t : F[y] \in Num
                BY <3>1, <4>1, FS_Subset
            <4>7. PICK a \in Num, b \in Num, c \in Num : a = F[p] /\ b = F[x] /\ c = Sums(F, t)
                BY <4>6, SumsNum
            <4>8. RAdd(a, RAdd(b, c)) = RAdd(b, RAdd(a, c))
                <5>1. RAdd(a, RAdd(b, c)) = RAdd(RAdd(a, b), c)
                    BY AddAssoc
                <5>2. RAdd(b, RAdd(a, c)) = RAdd(RAdd(b, a), c)
                    BY AddAssoc
                <5>3. RAdd(a, b) = RAdd(b, a)
                    BY AddComm
                <5>4. QED
                    BY <5>1, <5>2, <5>3
            <4>9. QED
                BY <3>3, <4>4, <4>5, <4>7, <4>8
        <3>6. QED
            BY <3>4, <3>5
    <2>2. QED
        BY <2>1
<1> HIDE DEF Q
<1>2. \A s \in SUBSET S : (\A x \in s : s \ {x} \in Q) => s \in Q
    BY ONLY <1>1
<1>3. \A s \in SUBSET S : s \in Q
    BY ONLY <1>2, IsFiniteSet(S), SubsetInduction
<1>4. QED
    BY <1>3 DEF Q

(* What agrees on a set has one sum over it.                               *)
LEMMA SumsSame ==
    ASSUME NEW F, NEW G, NEW S, IsFiniteSet(S), \A x \in S : F[x] = G[x]
    PROVE  Sums(F, S) = Sums(G, S)
<1> DEFINE Q == {s \in SUBSET S : Sums(F, s) = Sums(G, s)}
<1>1. ASSUME NEW s \in SUBSET S, \A x \in s : s \ {x} \in Q
      PROVE  s \in Q
    <2>1. IsFiniteSet(s)
        BY FS_Subset
    <2>2. CASE s = {}
        BY <2>1, <2>2, SumsStep
    <2>3. CASE s # {}
        <3>1. PICK x \in s : x = Taken(s)
            BY <2>3, TakenIn
        <3>2. Sums(F, s \ {x}) = Sums(G, s \ {x}) /\ F[x] = G[x]
            BY <1>1
        <3>3. /\ Sums(F, s) = RAdd(F[x], Sums(F, s \ {x}))
              /\ Sums(G, s) = RAdd(G[x], Sums(G, s \ {x}))
            BY <2>1, <2>3, <3>1, SumsStep
        <3>4. QED
            BY <3>2, <3>3
    <2>4. QED
        BY <2>2, <2>3
<1> HIDE DEF Q
<1>2. \A s \in SUBSET S : (\A x \in s : s \ {x} \in Q) => s \in Q
    BY ONLY <1>1
<1>3. \A s \in SUBSET S : s \in Q
    BY ONLY <1>2, IsFiniteSet(S), SubsetInduction
<1>4. QED
    BY <1>3 DEF Q

(* The numbers of a finite set.                                            *)
Amounted(F, S) == IsFiniteSet(S) /\ \A x \in S : F[x] \in Num

LEMMA AmountedPart ==
    ASSUME NEW F, NEW S, Amounted(F, S), NEW T \in SUBSET S
    PROVE  Amounted(F, T)
BY FS_Subset DEF Amounted

(* The three of them together.                                             *)
LEMMA SetSums ==
    ASSUME NEW F, NEW S, Amounted(F, S)
    PROVE  /\ Sums(F, S) \in Num
           /\ S = {} => Sums(F, S) = Zero
           /\ \A x \in S : F[x] \in Num /\ Sums(F, S \ {x}) \in Num
                           /\ Sums(F, S) = RAdd(F[x], Sums(F, S \ {x}))
<1>1. IsFiniteSet(S) /\ \A x \in S : F[x] \in Num
    BY DEF Amounted
<1>2. Sums(F, S) \in Num
    BY <1>1, SumsNum
<1>3. S = {} => Sums(F, S) = Zero
    BY <1>1, SumsStep
<1>4. \A x \in S : Sums(F, S) = RAdd(F[x], Sums(F, S \ {x}))
    BY <1>1, SumsAny
<1>5. ASSUME NEW x \in S
      PROVE  Sums(F, S \ {x}) \in Num
    <2>1. PICK T \in SUBSET S : T = S \ {x}
        OBVIOUS
    <2>2. IsFiniteSet(T) /\ \A y \in T : F[y] \in Num
        BY <1>1, FS_Subset
    <2>3. QED
        BY <2>1, <2>2, SumsNum
<1>6. QED
    BY <1>1, <1>2, <1>3, <1>4, <1>5

LEMMA FiniteInduction ==
    ASSUME NEW U, IsFiniteSet(U), NEW Q, \A s \in SUBSET U : (\A x \in s : s \ {x} \in Q) => s \in Q
    PROVE  U \in Q
<1>1. \A s \in SUBSET U : (\A x \in s : s \ {x} \in Q) => s \in Q
    OBVIOUS
<1>2. \A s \in SUBSET U : s \in Q
    BY ONLY IsFiniteSet(U), <1>1, SubsetInduction
<1>3. QED
    BY <1>2

(* Sums over disjoint sets add.                                            *)
LEMMA SumsApart ==
    ASSUME NEW F, NEW S, NEW T, Amounted(F, S \cup T), S \cap T = {}
    PROVE  Sums(F, S \cup T) = RAdd(Sums(F, S), Sums(F, T))
<1> DEFINE Q == {t \in SUBSET T : Sums(F, S \cup t) = RAdd(Sums(F, S), Sums(F, t))}
<1>1. ASSUME NEW t \in SUBSET T, \A x \in t : t \ {x} \in Q
      PROVE  t \in Q
    <2>1. PICK u \in SUBSET (S \cup T) : u = S \cup t
        OBVIOUS
    <2>2. Amounted(F, u) /\ Amounted(F, t) /\ Amounted(F, S)
        <3>1. t \in SUBSET (S \cup T) /\ S \in SUBSET (S \cup T)
            OBVIOUS
        <3>2. QED
            BY <3>1, AmountedPart
    <2>3. CASE t = {}
        <3>1. Sums(F, t) = Zero /\ u = S
            BY <2>1, <2>2, <2>3, SetSums
        <3>2. Sums(F, S) \in Num
            BY <2>2, SetSums
        <3>3. QED
            BY <2>1, <3>1, <3>2, AddNothing
    <2>4. CASE t # {}
        <3>1. PICK x \in t : TRUE
            BY <2>4
        <3>2. u \ {x} = S \cup (t \ {x}) /\ x \in u
            BY <2>1
        <3>3. Sums(F, u) = RAdd(F[x], Sums(F, u \ {x}))
            BY <2>2, <3>2, SetSums
        <3>4. Sums(F, u \ {x}) = RAdd(Sums(F, S), Sums(F, t \ {x}))
            BY <1>1, <3>2
        <3>5. Sums(F, t) = RAdd(F[x], Sums(F, t \ {x}))
            BY <2>2, SetSums
        <3>6. PICK a \in Num, b \in Num, c \in Num : a = F[x] /\ b = Sums(F, S) /\ c = Sums(F, t \ {x})
            BY <2>2, SetSums
        <3>7. RAdd(a, RAdd(b, c)) = RAdd(b, RAdd(a, c))
            <4>1. RAdd(a, RAdd(b, c)) = RAdd(RAdd(a, b), c)
                BY AddAssoc
            <4>2. RAdd(b, RAdd(a, c)) = RAdd(RAdd(b, a), c)
                BY AddAssoc
            <4>3. RAdd(a, b) = RAdd(b, a)
                BY AddComm
            <4>4. QED
                BY <4>1, <4>2, <4>3
        <3>8. QED
            BY <2>1, <3>3, <3>4, <3>5, <3>6, <3>7
    <2>5. QED
        BY <2>3, <2>4
<1>2. IsFiniteSet(T)
    <2>1. T \in SUBSET (S \cup T) /\ IsFiniteSet(S \cup T)
        BY DEF Amounted
    <2>2. QED
        BY <2>1, FS_Subset
<1> HIDE DEF Q
<1>3. \A t \in SUBSET T : (\A x \in t : t \ {x} \in Q) => t \in Q
    BY ONLY <1>1
<1>4. T \in Q
    BY ONLY <1>2, <1>3, FiniteInduction
<1>5. QED
    BY <1>4 DEF Q

(* A sum of zeros is zero.                                                 *)
LEMMA SumsNothing ==
    ASSUME NEW F, NEW S, IsFiniteSet(S), \A x \in S : F[x] = Zero
    PROVE  Sums(F, S) = Zero
<1> DEFINE Q == {s \in SUBSET S : Sums(F, s) = Zero}
<1>1. Amounted(F, S)
    BY ZeroNum DEF Amounted
<1>2. ASSUME NEW s \in SUBSET S, \A x \in s : s \ {x} \in Q
      PROVE  s \in Q
    <2>1. Amounted(F, s)
        BY <1>1, AmountedPart
    <2>2. CASE s = {}
        BY <2>1, <2>2, SetSums
    <2>3. CASE s # {}
        <3>1. PICK x \in s : TRUE
            BY <2>3
        <3>2. Sums(F, s) = RAdd(F[x], Sums(F, s \ {x}))
            BY <2>1, SetSums
        <3>3. F[x] = Zero /\ Sums(F, s \ {x}) = Zero
            BY <1>2
        <3>4. QED
            BY <3>2, <3>3, AddZero
    <2>4. QED
        BY <2>2, <2>3
<1> HIDE DEF Q
<1>3. \A s \in SUBSET S : (\A x \in s : s \ {x} \in Q) => s \in Q
    BY ONLY <1>2
<1>4. S \in Q
    BY ONLY IsFiniteSet(S), <1>3, FiniteInduction
<1>5. QED
    BY <1>4 DEF Q

(* What is nothing may be left out.                                        *)
LEMMA SumsLess ==
    ASSUME NEW F, NEW S, Amounted(F, S), NEW T \in SUBSET S, \A x \in S \ T : F[x] = Zero
    PROVE  Sums(F, S) = Sums(F, T)
<1>1. PICK R \in SUBSET S : R = S \ T
    OBVIOUS
<1>2. Amounted(F, T) /\ Amounted(F, R)
    BY AmountedPart
<1>3. T \cup R = S /\ T \cap R = {}
    BY <1>1
<1>4. Sums(F, S) = RAdd(Sums(F, T), Sums(F, R))
    BY <1>3, SumsApart
<1>5. Sums(F, R) = Zero
    BY <1>1, <1>2, SumsNothing DEF Amounted
<1>6. Sums(F, T) \in Num
    BY <1>2, SetSums
<1>7. QED
    BY <1>4, <1>5, <1>6, AddNothing

(* Sums of the parts of a set.                                             *)
Of(P, N) == UNION {P[n] : n \in N}

(* A sum of the sums over disjoint parts is the sum over all of them.      *)
LEMMA SumsOfParts ==
    ASSUME NEW F, NEW N, IsFiniteSet(N), NEW P, NEW H, Amounted(F, Of(P, N)),
           \A n \in N : H[n] = Sums(F, P[n]),
           \A m \in N, n \in N : m # n => P[m] \cap P[n] = {}
    PROVE  Sums(H, N) = Sums(F, Of(P, N))
<1> DEFINE Q == {s \in SUBSET N : Sums(H, s) = Sums(F, Of(P, s))}
<1>1. ASSUME NEW n \in N
      PROVE  Amounted(F, P[n]) /\ H[n] \in Num
    <2>1. P[n] \in SUBSET Of(P, N)
        BY DEF Of
    <2>2. QED
        BY <2>1, AmountedPart, SetSums
<1>2. Amounted(H, N)
    BY <1>1 DEF Amounted
<1>3. ASSUME NEW s \in SUBSET N, \A x \in s : s \ {x} \in Q
      PROVE  s \in Q
    <2>1. Amounted(H, s)
        BY <1>2, AmountedPart
    <2>2. Of(P, s) \in SUBSET Of(P, N)
        BY DEF Of
    <2>3. Amounted(F, Of(P, s))
        BY <2>2, AmountedPart
    <2>4. CASE s = {}
        <3>1. Of(P, s) = {}
            BY <2>4 DEF Of
        <3>2. QED
            BY <2>1, <2>3, <2>4, <3>1, SetSums
    <2>5. CASE s # {}
        <3>1. PICK x \in s : TRUE
            BY <2>5
        <3>2. PICK t \in SUBSET N : t = s \ {x}
            OBVIOUS
        <3>3. Of(P, s) = P[x] \cup Of(P, t)
            BY <3>2 DEF Of
        <3>4. P[x] \cap Of(P, t) = {}
            BY <3>2 DEF Of
        <3>5. Sums(F, Of(P, s)) = RAdd(Sums(F, P[x]), Sums(F, Of(P, t)))
            BY <2>3, <3>3, <3>4, SumsApart
        <3>6. Sums(H, s) = RAdd(H[x], Sums(H, t))
            BY <2>1, <3>2, SetSums
        <3>7. Sums(H, t) = Sums(F, Of(P, t)) /\ H[x] = Sums(F, P[x])
            BY <1>3, <3>2
        <3>8. QED
            BY <3>5, <3>6, <3>7
    <2>6. QED
        BY <2>4, <2>5
<1> HIDE DEF Q
<1>4. \A s \in SUBSET N : (\A x \in s : s \ {x} \in Q) => s \in Q
    BY ONLY <1>3
<1>5. N \in Q
    BY ONLY IsFiniteSet(N), <1>4, FiniteInduction
<1>6. QED
    BY <1>5 DEF Q

LEMMA SumsOfOne ==
    ASSUME NEW F, NEW x, F[x] \in Num
    PROVE  Sums(F, {x}) = F[x]
<1>1. Amounted(F, {x})
    BY FS_Singleton DEF Amounted
<1>2. Sums(F, {x}) = RAdd(F[x], Sums(F, {x} \ {x}))
    BY <1>1, SetSums
<1>3. {x} \ {x} = {}
    OBVIOUS
<1>4. Sums(F, {}) = Zero
    BY FS_EmptySet, SumsStep
<1>5. QED
    BY <1>2, <1>3, <1>4, AddNothing

----------------------------------------------------------------------------
(* What units are worth.                                                   *)

(* A table of sums is right wherever it comes from.                        *)
LEMMA TotalsAre ==
    ASSUME NEW F, NEW S, IsFiniteSet(S), NEW g, IsTotals(g, F, S)
    PROVE  g[S] = Sums(F, S)
<1>1. PICK h : h = CHOOSE k : IsTotals(k, F, S)
    OBVIOUS
<1>2. IsTotals(h, F, S)
    BY <1>1, TotalsExist
<1>3. \A s \in SUBSET S : g[s] = StepOf(g, F, s) /\ h[s] = StepOf(h, F, s)
    BY <1>2, TableIs
<1> DEFINE Q == {s \in SUBSET S : g[s] = h[s]}
<1>4. ASSUME NEW s \in SUBSET S, \A y \in s : s \ {y} \in Q
      PROVE  s \in Q
    <2>1. g[s] = StepOf(g, F, s) /\ h[s] = StepOf(h, F, s)
        BY <1>3
    <2>2. CASE s = {}
        BY <2>1, <2>2 DEF StepOf
    <2>3. CASE s # {}
        <3>1. PICK y \in s : y = Taken(s)
            BY <2>3, TakenIn
        <3>2. g[s \ {y}] = h[s \ {y}]
            BY <1>4
        <3>3. QED
            BY <2>1, <2>3, <3>1, <3>2 DEF StepOf
    <2>4. QED
        BY <2>2, <2>3
<1> HIDE DEF Q
<1>5. \A s \in SUBSET S : (\A y \in s : s \ {y} \in Q) => s \in Q
    BY ONLY <1>4
<1>6. S \in Q
    BY ONLY <1>5, IsFiniteSet(S), FiniteInduction
<1>7. QED
    BY <1>1, <1>6 DEF Q, Sums

(* What a holding of units is worth, commodity by commodity.               *)
Converted(p, units, day) == [c \in Commodities |-> MarketConvert(p, c, units[c], day)]

LEMMA SumOfConverted ==
    ASSUME NEW p, NEW units, NEW day, NEW S \in SUBSET Commodities, IsFiniteSet(S)
    PROVE  SumOver(S, LAMBDA c : MarketConvert(p, c, units[c], day)) = Sums(Converted(p, units, day), S)
<1> DEFINE F == Converted(p, units, day)
           E(s) == MarketConvert(p, Taken(s), units[Taken(s)], day)
           K(g) == g = [s \in SUBSET S |-> IF s = {} THEN Zero ELSE RAdd(E(s), g[s \ {Taken(s)}])]
<1>1. \A s \in SUBSET S : s # {} => F[Taken(s)] = E(s)
    BY TakenIn DEF Converted
<1> HIDE DEF F, E
<1>2. ASSUME NEW g
      PROVE  K(g) <=> IsTotals(g, F, S)
    BY <1>1 DEF IsTotals, StepOf
<1>3. PICK g : g = CHOOSE h : K(h)
    OBVIOUS
<1>4. K(g)
    BY <1>2, <1>3, TotalsExist
<1>5. g[S] = Sums(F, S)
    BY <1>2, <1>4, TotalsAre
<1>6. SumOver(S, LAMBDA c : MarketConvert(p, c, units[c], day)) = g[S]
    BY <1>3 DEF SumOver, MapThenFoldSet, E, Taken
<1>7. QED
    BY <1>5, <1>6 DEF F

(* What the accounts are worth, account by account.                        *)
Worths(p, bal, day) ==
    [a \in AssetAccounts |-> SumOver(Commodities, LAMBDA c : MarketConvert(p, c, bal[a][c], day))]

LEMMA SumOfWorths ==
    ASSUME NEW p, NEW bal, NEW day, IsFiniteSet(AssetAccounts)
    PROVE  ValueOf(p, bal, day) = Sums(Worths(p, bal, day), AssetAccounts)
<1> DEFINE S == AssetAccounts
           F == Worths(p, bal, day)
           V(a) == SumOver(Commodities, LAMBDA c : MarketConvert(p, c, bal[a][c], day))
           E(s) == V(Taken(s))
           K(g) == g = [s \in SUBSET S |-> IF s = {} THEN Zero ELSE RAdd(E(s), g[s \ {Taken(s)}])]
<1>1. \A s \in SUBSET S : s # {} => F[Taken(s)] = E(s)
    BY TakenIn DEF Worths
<1>2. ValueOf(p, bal, day) = SumOver(S, V)
    BY DEF ValueOf
<1> HIDE DEF F, V, E
<1>3. ASSUME NEW g
      PROVE  K(g) <=> IsTotals(g, F, S)
    BY <1>1 DEF IsTotals, StepOf
<1>4. PICK g : g = CHOOSE h : K(h)
    OBVIOUS
<1>5. K(g)
    BY <1>3, <1>4, TotalsExist
<1>6. g[S] = Sums(F, S)
    BY <1>3, <1>5, TotalsAre
<1>7. SumOver(S, V) = g[S]
    BY <1>4 DEF SumOver, MapThenFoldSet, E, Taken
<1>8. QED
    BY <1>2, <1>6, <1>7 DEF F

(* Prices are numbers, of every pair of commodities by day.                *)
PriceTable(p) ==
    /\ DOMAIN p = Commodities \X Commodities
    /\ \A b \in Commodities, q \in Commodities : \A d \in DOMAIN p[<<b, q>>] :
            d \in Int /\ p[<<b, q>>][d] \in Num

Found(r) == r.ok \in BOOLEAN /\ r.rate \in Num

(* A set of days that ends has a last one.                                 *)
LEMMA LastUpTo ==
    ASSUME NEW S \in SUBSET Int, S # {}, NEW top \in Int, \A d \in S : d <= top
    PROVE  Max(S) \in S
<1>1. PICK B \in SUBSET Nat : B = {top - d : d \in S}
    <2>1. \A d \in S : top - d \in Nat
        OBVIOUS
    <2>2. QED
        BY <2>1
<1>2. B # {}
    BY <1>1
<1>3. PICK n \in B : \A m \in B : n <= m
    BY <1>2, LeastNat
<1>4. PICK x \in S : n = top - x
    BY <1>1
<1>5. \A y \in S : x >= y
    <2>1. ASSUME NEW y \in S
          PROVE  x >= y
        <3>1. top - y \in B
            BY <1>1
        <3>2. top - x <= top - y
            BY <1>3, <1>4, <3>1
        <3>3. x \in Int /\ y \in Int
            OBVIOUS
        <3>4. QED
            BY <3>2, <3>3
    <2>2. QED
        BY <2>1
<1>6. QED
    BY <1>5 DEF Max

LEMMA OneNum == RInt(1) \in Num
<1>1. PICK n \in Int, d \in Nat \ {0} : n = 1 /\ d = 1
    OBVIOUS
<1>2. Reduce(n, d) \in Num
    BY ReduceNum
<1>3. Reduce(1, 1) = <<1, 1>>
    <2>1. \A q \in 1..1 : q = 1
        OBVIOUS
    <2>2. (1 * 1) % 1 = 0 /\ (1 * 1) \div 1 = 1
        OBVIOUS
    <2>3. 1 \in 1..1 /\ (1 * 1) % 1 = 0 /\ \A r \in 1..(1 - 1) : (1 * r) % 1 # 0
        BY <2>2
    <2>4. (CHOOSE q \in 1..1 : /\ (1 * q) % 1 = 0
                              /\ \A r \in 1..(q - 1) : (1 * r) % 1 # 0) = 1
        BY <2>1, <2>3
    <2>5. QED
        BY <2>2, <2>4 DEF Reduce
<1>4. QED
    BY <1>1, <1>2, <1>3 DEF RInt

(* Rates are numbers: observed, inverse, through another commodity.        *)
LEMMA DirectFound ==
    ASSUME NEW p, PriceTable(p), NEW b \in Commodities, NEW q \in Commodities, NEW day \in Int
    PROVE  /\ Found(Direct(p, b, q, day))
           /\ \/ Direct(p, b, q, day) = NoRate
              \/ \E r, d : Direct(p, b, q, day) = [ok |-> TRUE, rate |-> r, date |-> d]
<1> DEFINE series == p[<<b, q>>]
           past   == {d \in DOMAIN series : d <= day}
<1>1. \A d \in DOMAIN series : d \in Int /\ series[d] \in Num
    BY DEF PriceTable
<1>2. CASE past = {}
    BY <1>2, ZeroNum DEF Direct, NoRate, Found
<1>3. CASE past # {}
    <2>1. past \in SUBSET Int /\ \A d \in past : d <= day
        BY <1>1
    <2>2. Max(past) \in past
        BY <1>3, <2>1, LastUpTo
    <2>3. series[Max(past)] \in Num
        BY <1>1, <2>2
    <2>4. Direct(p, b, q, day) = [ok |-> TRUE, rate |-> series[Max(past)], date |-> Max(past)]
        BY <1>3 DEF Direct
    <2>5. PICK r \in Num : r = series[Max(past)]
        BY <2>3
    <2>9. PICK d : d = Max(past)
        OBVIOUS
    <2>6. Direct(p, b, q, day) = [ok |-> TRUE, rate |-> r, date |-> d]
        BY <2>4, <2>5, <2>9
    <2>7. Found(Direct(p, b, q, day))
        BY ONLY <2>6, r \in Num DEF Found
    <2>8. QED
        BY ONLY <2>6, <2>7
<1>4. QED
    BY <1>2, <1>3

LEMMA InverseFound ==
    ASSUME NEW p, PriceTable(p), NEW b \in Commodities, NEW q \in Commodities, NEW day \in Int
    PROVE  Found(DirectOrInverse(p, b, q, day))
<1> DEFINE found   == Direct(p, b, q, day)
           inverse == Direct(p, q, b, day)
<1>1. Found(found) /\ Found(inverse)
    BY DirectFound
<1>2. CASE found.ok
    BY <1>1, <1>2 DEF DirectOrInverse
<1>3. CASE ~found.ok /\ inverse.ok /\ inverse.rate # Zero
    <2>1. RDiv(RInt(1), inverse.rate) \in Num
        BY <1>1, <1>3, OneNum, DivNum DEF Found
    <2>2. inverse # NoRate
        BY <1>3 DEF NoRate
    <2>3. PICK r, d : inverse = [ok |-> TRUE, rate |-> r, date |-> d]
        BY <2>2, DirectFound
    <2>4. DirectOrInverse(p, b, q, day) = [inverse EXCEPT !.rate = RDiv(RInt(1), inverse.rate)]
        BY <1>3 DEF DirectOrInverse
    <2> HIDE DEF inverse, found
    <2>5. DirectOrInverse(p, b, q, day).ok = TRUE
          /\ DirectOrInverse(p, b, q, day).rate = RDiv(RInt(1), inverse.rate)
        BY <2>3, <2>4
    <2>6. QED
        BY <2>1, <2>5 DEF Found
<1>4. CASE ~found.ok /\ ~(inverse.ok /\ inverse.rate # Zero)
    BY <1>4, ZeroNum DEF DirectOrInverse, NoRate, Found
<1>5. QED
    BY <1>2, <1>3, <1>4

LEMMA HopFound ==
    ASSUME NEW p, PriceTable(p), NEW b \in Commodities, NEW m \in Commodities,
           NEW q \in Commodities, NEW day \in Int
    PROVE  Found(Hop(p, b, m, q, day))
<1> DEFINE first  == DirectOrInverse(p, b, m, day)
           second == DirectOrInverse(p, m, q, day)
<1>1. Found(first) /\ Found(second)
    BY InverseFound
<1>2. RMul(first.rate, second.rate) \in Num
    BY <1>1, MulNum DEF Found
<1> HIDE DEF first, second
<1>3. CASE first.ok /\ second.ok
    <2>1. Hop(p, b, m, q, day) = [ok |-> TRUE, rate |-> RMul(first.rate, second.rate),
                                   date |-> Min({first.date, second.date})]
        BY <1>3 DEF Hop, first, second
    <2>2. QED
        BY <1>2, <2>1 DEF Found
<1>4. CASE ~(first.ok /\ second.ok)
    BY <1>4, ZeroNum DEF Hop, NoRate, Found, first, second
<1>5. QED
    BY <1>3, <1>4

LEMMA RateFound ==
    ASSUME NEW p, PriceTable(p), NEW b \in Commodities, NEW q \in Commodities, NEW day \in Int
    PROVE  Found(RateOn(p, b, q, day))
<1> DEFINE found == DirectOrInverse(p, b, q, day)
           mids  == {m \in Quoted(p) \ {b, q} : Hop(p, b, m, q, day).ok}
           first == CHOOSE m \in mids : \A n \in mids : Rank[m] <= Rank[n]
<1>1. CASE b = q
    BY <1>1, OneNum DEF RateOn, Found
<1>2. CASE b # q /\ found.ok
    <2>1. RateOn(p, b, q, day) = found
        BY <1>2 DEF RateOn
    <2>2. QED
        BY <2>1, InverseFound
<1>3. CASE b # q /\ ~found.ok /\ mids = {}
    <2>1. RateOn(p, b, q, day) = NoRate
        BY <1>3 DEF RateOn
    <2>2. QED
        BY <2>1, ZeroNum DEF Found, NoRate
<1>4. CASE b # q /\ ~found.ok /\ mids # {}
    <2>1. mids \in SUBSET Commodities
        BY DEF Quoted, PriceTable
    <2>2. PICK M \in SUBSET Commodities : M = mids
        BY <2>1
    <2>3. \A m \in M : Rank[m] \in Nat
        BY RankAssumption
    <2>4. PICK R : R = {Rank[m] : m \in M}
        OBVIOUS
    <2>5. R \in SUBSET Nat
        BY ONLY <2>3, <2>4
    <2>6. R # {}
        BY ONLY <1>4, <2>2, <2>4
    <2>7. PICK n \in R : \A m \in R : n <= m
        BY ONLY <2>5, <2>6, LeastNat
    <2>8. \E m \in M : \A k \in M : Rank[m] <= Rank[k]
        BY ONLY <2>3, <2>4, <2>5, <2>7
    <2>9. first \in M
        BY <2>2, <2>8
    <2>10. RateOn(p, b, q, day) = Hop(p, b, first, q, day)
        BY <1>4 DEF RateOn
    <2>11. PICK f \in Commodities : f = first
        BY <2>9
    <2>12. QED
        BY <2>10, <2>11, HopFound
<1>5. QED
    BY <1>1, <1>2, <1>3, <1>4

(* Market values are numbers, and nothing is worth nothing.                *)
LEMMA ConvertNum ==
    ASSUME NEW p, PriceTable(p), NEW c \in Commodities, NEW n \in Num, NEW day \in Int
    PROVE  /\ MarketConvert(p, c, n, day) \in Num
           /\ n = Zero => MarketConvert(p, c, n, day) = Zero
<1> DEFINE found == RateOn(p, c, OpCurrency, day)
<1>1. Found(found)
    BY RateFound, OpCurrencyAssumption
<1> HIDE DEF found
<1>2. MarketConvert(p, c, n, day) =
        IF c = OpCurrency THEN n ELSE IF found.ok THEN RMul(n, found.rate) ELSE Zero
    BY DEF MarketConvert, found
<1>3. PICK r \in Num : r = found.rate
    BY <1>1 DEF Found
<1>4. RMul(n, r) \in Num /\ (n = Zero => RMul(n, r) = Zero)
    BY MulNum, MulNothing
<1>5. QED
    BY <1>2, <1>3, <1>4, ZeroNum

----------------------------------------------------------------------------
(* The tree of names.                                                      *)

(* Names, and the beginnings of names.                                     *)
Name == Seq(STRING)

LEMMA PrefixIs ==
    ASSUME NEW s \in Name, NEW t \in Name
    PROVE  /\ Len(s) \in Nat /\ Len(t) \in Nat
           /\ IsPrefix(s, t) <=> Len(s) <= Len(t) /\ \A i \in 1..Len(s) : s[i] = t[i]
<1>1. Len(s) \in Nat /\ Len(t) \in Nat
    BY DEF Name
<1>2. ASSUME Len(s) <= Len(t)
      PROVE  SubSeq(s, 1, Len(s)) = SubSeq(t, 1, Len(s)) <=> \A i \in 1..Len(s) : s[i] = t[i]
    <2>1. SubSeq(s, 1, Len(s)) = [i \in 1..Len(s) |-> s[i]]
        BY <1>1 DEF Name
    <2>2. SubSeq(t, 1, Len(s)) = [i \in 1..Len(s) |-> t[i]]
        BY <1>1, <1>2 DEF Name
    <2>3. QED
        BY <2>1, <2>2
<1>3. QED
    BY <1>1, <1>2 DEF IsPrefix

LEMMA SameName ==
    ASSUME NEW s \in Name, NEW t \in Name, Len(s) = Len(t), \A i \in 1..Len(s) : s[i] = t[i]
    PROVE  s = t
BY DEF Name

LEMMA Beginning ==
    ASSUME NEW t \in Name, NEW k \in 1..Len(t)
    PROVE  /\ SubSeq(t, 1, k) \in Name /\ Len(SubSeq(t, 1, k)) = k
           /\ \A i \in 1..k : SubSeq(t, 1, k)[i] = t[i]
<1>1. Len(t) \in Nat /\ k \in Nat /\ k <= Len(t)
    BY DEF Name
<1>2. QED
    BY <1>1 DEF Name

(* An account has a name, and it is not empty.                             *)
LEMMA PathIs ==
    ASSUME NEW a \in Accounts
    PROVE  Path[a] \in Name /\ Path[a] # << >> /\ Len(Path[a]) \in Nat /\ Len(Path[a]) > 0
<1>1. Path[a] \in Name /\ Path[a] # << >>
    BY PathAssumption DEF Name
<1>2. Len(Path[a]) # 0
    BY <1>1 DEF Name
<1>3. Len(Path[a]) \in Nat
    BY <1>1 DEF Name
<1>4. QED
    BY <1>1, <1>2, <1>3

(* The accounts at and under a name, and the names one below it.           *)
Under(A, name) == {a \in A : IsPrefix(name, Path[a])}
Own(A, name)   == {a \in A : Path[a] = name}
Kids(A, name)  == {n \in NewAccountTree({Path[a] : a \in A}) : Len(n) = Len(name) + 1 /\ IsPrefix(name, n)}

(* The names of a tree are the beginnings of the leaves.                   *)
LEMMA TreeName ==
    ASSUME NEW A \in SUBSET Accounts
    PROVE  /\ \A n \in NewAccountTree({Path[a] : a \in A}) :
                /\ n \in Name /\ n # << >>
                /\ \E a \in A : Len(n) \in 1..Len(Path[a]) /\ n = SubSeq(Path[a], 1, Len(n))
           /\ \A a \in A : \A k \in 1..Len(Path[a]) :
                SubSeq(Path[a], 1, k) \in NewAccountTree({Path[b] : b \in A})
<1>1. ASSUME NEW n \in NewAccountTree({Path[a] : a \in A})
      PROVE  /\ n \in Name /\ n # << >>
             /\ \E a \in A : Len(n) \in 1..Len(Path[a]) /\ n = SubSeq(Path[a], 1, Len(n))
    <2>6. PICK a \in A : \E k \in DOMAIN Path[a] : n = SubSeq(Path[a], 1, k)
        BY DEF NewAccountTree
    <2>1. PICK k \in DOMAIN Path[a] : n = SubSeq(Path[a], 1, k)
        BY <2>6
    <2>2. Path[a] \in Name /\ k \in 1..Len(Path[a])
        BY PathIs DEF Name
    <2>3. n \in Name /\ Len(n) = k
        BY <2>1, <2>2, Beginning
    <2>4. n # << >>
        BY <2>2, <2>3
    <2>5. QED
        BY <2>1, <2>2, <2>3, <2>4
<1>2. ASSUME NEW a \in A, NEW k \in 1..Len(Path[a])
      PROVE  SubSeq(Path[a], 1, k) \in NewAccountTree({Path[b] : b \in A})
    <2>1. k \in DOMAIN Path[a]
        BY PathIs DEF Name
    <2>2. QED
        BY <2>1 DEF NewAccountTree
<1>3. QED
    BY <1>1, <1>2

(* The accounts under a name are those at it and those under the names     *)
(* one below it, each under one of them.                                   *)
LEMMA KidsAre ==
    ASSUME NEW A \in SUBSET Accounts, IsFiniteSet(A), NEW name \in Name
    PROVE  /\ IsFiniteSet(Kids(A, name))
           /\ Under(A, name) = Own(A, name) \cup UNION {Under(A, n) : n \in Kids(A, name)}
           /\ \A n \in Kids(A, name) : Own(A, name) \cap Under(A, n) = {}
           /\ \A m \in Kids(A, name), n \in Kids(A, name) : m # n => Under(A, m) \cap Under(A, n) = {}
<1>1. PICK k \in Nat : k = Len(name)
    BY DEF Name
<1>2. ASSUME NEW n \in Kids(A, name)
      PROVE  /\ n \in Name /\ Len(n) = k + 1 /\ IsPrefix(name, n)
             /\ \E a \in A : n = SubSeq(Path[a], 1, k + 1)
    BY <1>1, TreeName DEF Kids
<1>3. IsFiniteSet(Kids(A, name))
    <2> DEFINE B == {SubSeq(Path[a], 1, k + 1) : a \in A}
    <2>1. IsFiniteSet(B)
        <3> DEFINE f == [a \in A |-> SubSeq(Path[a], 1, k + 1)]
        <3>1. f \in Surjection(A, B)
            BY DEF Surjection
        <3> HIDE DEF f, B
        <3>2. QED
            BY <3>1, FS_Surjection
    <2>2. Kids(A, name) \in SUBSET B
        BY <1>2
    <2> HIDE DEF B
    <2>3. QED
        BY <2>1, <2>2, FS_Subset
<1>4. ASSUME NEW n \in Kids(A, name), NEW a \in Under(A, n)
      PROVE  a \in Under(A, name) /\ Path[a] # name
    <2>1. a \in A /\ Path[a] \in Name /\ IsPrefix(n, Path[a])
        BY PathIs DEF Under
    <2>2. n \in Name /\ Len(n) = k + 1 /\ IsPrefix(name, n)
        BY <1>2
    <2>3. k + 1 <= Len(Path[a]) /\ \A i \in 1..(k + 1) : n[i] = Path[a][i]
        BY <2>1, <2>2, PrefixIs
    <2>4. \A i \in 1..k : name[i] = n[i]
        BY <1>1, <2>2, PrefixIs
    <2>5. Len(Path[a]) \in Nat /\ Len(Path[a]) # k
        BY <2>1, <2>3, PathIs
    <2>6. k <= Len(Path[a]) /\ \A i \in 1..k : name[i] = Path[a][i]
        BY <2>3, <2>4, <2>5
    <2>7. IsPrefix(name, Path[a])
        BY <1>1, <2>1, <2>6, PrefixIs
    <2>8. QED
        BY <1>1, <2>1, <2>5, <2>7 DEF Under
<1>5. ASSUME NEW a \in Under(A, name), Path[a] # name
      PROVE  \E n \in Kids(A, name) : a \in Under(A, n)
    <2>1. a \in A /\ a \in Accounts /\ Path[a] \in Name /\ IsPrefix(name, Path[a])
        BY PathIs DEF Under
    <2>2. PICK l \in Nat : l = Len(Path[a])
        BY <2>1, PathIs
    <2>3. k <= l /\ \A i \in 1..k : name[i] = Path[a][i]
        BY <1>1, <2>1, <2>2, PrefixIs
    <2>4. k # l
        BY <1>1, <1>5, <2>1, <2>2, <2>3, SameName
    <2>5. k + 1 \in 1..l
        BY <2>3, <2>4
    <2>6. PICK n \in Name : n = SubSeq(Path[a], 1, k + 1) /\ Len(n) = k + 1
                            /\ \A i \in 1..(k + 1) : n[i] = Path[a][i]
        BY <2>1, <2>2, <2>5, Beginning
    <2>7. n \in NewAccountTree({Path[b] : b \in A})
        BY <2>1, <2>2, <2>5, <2>6, TreeName
    <2>8. IsPrefix(name, n)
        <3>1. k <= k + 1 /\ \A i \in 1..k : name[i] = n[i]
            BY <2>3, <2>6
        <3>2. QED
            BY <1>1, <2>6, <3>1, PrefixIs
    <2>9. IsPrefix(n, Path[a])
        <3>1. k + 1 <= l
            BY <2>5
        <3>2. QED
            BY <2>1, <2>2, <2>6, <3>1, PrefixIs
    <2>10. QED
        BY <1>1, <2>1, <2>6, <2>7, <2>8, <2>9 DEF Kids, Under
<1>6. ASSUME NEW a \in Own(A, name)
      PROVE  a \in Under(A, name)
    <2>1. IsPrefix(name, name)
        BY PrefixIs
    <2>2. QED
        BY <2>1 DEF Own, Under
<1>7. \A a \in Under(A, name) : Path[a] = name => a \in Own(A, name)
    BY DEF Own, Under
<1>8. ASSUME NEW m \in Kids(A, name), NEW n \in Kids(A, name), NEW a \in Under(A, m) \cap Under(A, n)
      PROVE  m = n
    <2>1. m \in Name /\ n \in Name /\ Len(m) = k + 1 /\ Len(n) = k + 1
        BY <1>2
    <2>2. Path[a] \in Name /\ IsPrefix(m, Path[a]) /\ IsPrefix(n, Path[a])
        BY PathIs DEF Under
    <2>3. \A i \in 1..(k + 1) : m[i] = n[i]
        BY <2>1, <2>2, PrefixIs
    <2>4. QED
        BY <2>1, <2>3, SameName
<1>9. Under(A, name) = Own(A, name) \cup UNION {Under(A, n) : n \in Kids(A, name)}
    BY <1>4, <1>5, <1>6, <1>7
<1>10. \A n \in Kids(A, name) : Own(A, name) \cap Under(A, n) = {}
    BY <1>4 DEF Own
<1>11. QED
    BY <1>3, <1>8, <1>9, <1>10

(* Numbers of some accounts.                                               *)
Leaves(flat) == DOMAIN flat \in SUBSET Accounts /\ IsFiniteSet(DOMAIN flat)
                /\ Amounted(flat, DOMAIN flat)

Below(rows, name) == {n \in DOMAIN rows : Len(n) = Len(name) + 1 /\ IsPrefix(name, n)}

LEMMA TotalIs ==
    ASSUME NEW flat, NEW name
    PROVE  Total(flat, name) = Sums(flat, Under(DOMAIN flat, name))
<1>1. SumOver(Under(DOMAIN flat, name), LAMBDA a : flat[a]) = Sums(flat, Under(DOMAIN flat, name))
    BY SumOverIs
<1>2. QED
    BY <1>1 DEF Total, Under, AccountUnder

(* The rows are the names under which there is something.                  *)
LEMMA RowsAre ==
    ASSUME NEW flat
    PROVE  /\ DOMAIN Rollup(flat) = {n \in NewAccountTree({Path[a] : a \in DOMAIN flat}) :
                                        Sums(flat, Under(DOMAIN flat, n)) # Zero}
           /\ \A n \in DOMAIN Rollup(flat) : Rollup(flat)[n] = Sums(flat, Under(DOMAIN flat, n))
BY TotalIs DEF Rollup

(* A row is its own amount and the rows one below it: a name without a     *)
(* row has a sum of nothing.                                               *)
LEMMA RowAddsUp ==
    ASSUME NEW flat, Leaves(flat), NEW name \in Name
    PROVE  Sums(flat, Under(DOMAIN flat, name)) =
             RAdd(Sums(flat, Own(DOMAIN flat, name)),
                  Sums(Rollup(flat), Below(Rollup(flat), name)))
<1> DEFINE rows == Rollup(flat)
<1>1. PICK A \in SUBSET Accounts : A = DOMAIN flat /\ IsFiniteSet(A) /\ Amounted(flat, A)
    BY DEF Leaves
<1>2. PICK K : K = Kids(A, name)
    OBVIOUS
<1>3. PICK P : P = [n \in K |-> Under(A, n)]
    OBVIOUS
<1>4. PICK H : H = [n \in K |-> Sums(flat, P[n])]
    OBVIOUS
<1>5. PICK U \in SUBSET A : U = Under(A, name)
    BY DEF Under
<1>6. PICK O \in SUBSET A : O = Own(A, name)
    BY DEF Own
<1>7. PICK R \in SUBSET A : R = Of(P, K)
    BY <1>3 DEF Of, Under
<1>8. /\ IsFiniteSet(K) /\ U = O \cup R /\ O \cap R = {}
      /\ \A m \in K, n \in K : m # n => P[m] \cap P[n] = {}
    BY <1>1, <1>2, <1>3, <1>5, <1>6, <1>7, KidsAre DEF Of
<1>9. Amounted(flat, U) /\ Amounted(flat, R) /\ Amounted(flat, O)
    BY <1>1, AmountedPart
<1>10. Sums(flat, U) = RAdd(Sums(flat, O), Sums(flat, R))
    BY <1>8, <1>9, SumsApart
<1>11. \A n \in K : H[n] = Sums(flat, P[n])
    BY <1>4
<1>12. Sums(H, K) = Sums(flat, R)
    BY <1>7, <1>8, <1>9, <1>11, SumsOfParts
<1>13. \A n \in K : H[n] = Sums(flat, Under(A, n)) /\ H[n] \in Num
    <2>1. ASSUME NEW n \in K
          PROVE  Sums(flat, Under(A, n)) \in Num
        <3>1. Under(A, n) \in SUBSET A
            BY DEF Under
        <3>2. Amounted(flat, Under(A, n))
            BY <1>1, <3>1, AmountedPart
        <3>3. QED
            BY <3>2, SetSums
    <2>2. QED
        BY <1>3, <1>4, <2>1
<1>14. PICK B \in SUBSET K : B = Below(rows, name)
    <2>1. Below(rows, name) \in SUBSET K
        BY <1>1, <1>2, RowsAre DEF Below, Kids
    <2>2. QED
        BY <2>1
<1>15. \A n \in K \ B : H[n] = Zero
    BY <1>1, <1>2, <1>13, <1>14, RowsAre DEF Below, Kids
<1>16. Amounted(H, K)
    BY <1>8, <1>13 DEF Amounted
<1>17. Sums(H, K) = Sums(H, B)
    BY <1>15, <1>16, SumsLess
<1>18. Sums(H, B) = Sums(rows, B)
    <2>1. IsFiniteSet(B)
        BY <1>8, FS_Subset
    <2>2. \A n \in B : H[n] = rows[n]
        BY <1>1, <1>13, <1>14, RowsAre DEF Below
    <2> HIDE DEF rows
    <2>3. QED
        BY <2>1, <2>2, SumsSame
<1>19. QED
    BY <1>1, <1>5, <1>6, <1>10, <1>12, <1>14, <1>17, <1>18

(* Every tree adds up (AccountTree.Rollup).                                *)
LEMMA TreeAddsUp ==
    ASSUME NEW flat, Leaves(flat)
    PROVE  AddsUp(Rollup(flat), flat)
<1> DEFINE rows == Rollup(flat)
           own(name) == SumOver({a \in DOMAIN flat : Path[a] = name}, LAMBDA a : flat[a])
           below(name) == {n \in DOMAIN rows : Len(n) = Len(name) + 1 /\ IsPrefix(name, n)}
           sum(names) == SumOver(names, LAMBDA n : rows[n])
<1>1. \A name : own(name) = Sums(flat, Own(DOMAIN flat, name)) /\ below(name) = Below(rows, name)
    <2>1. ASSUME NEW name
          PROVE  own(name) = Sums(flat, Own(DOMAIN flat, name))
        <3>1. SumOver(Own(DOMAIN flat, name), LAMBDA a : flat[a]) = Sums(flat, Own(DOMAIN flat, name))
            BY SumOverIs
        <3>2. QED
            BY <3>1 DEF Own
    <2>2. QED
        BY <2>1 DEF Below
<1>2. ASSUME NEW names
      PROVE  sum(names) = Sums(rows, names)
    <2> HIDE DEF rows
    <2>1. SumOver(names, LAMBDA n : rows[n]) = Sums(rows, names)
        BY SumOverIs
    <2>2. QED
        BY <2>1
<1>3. ASSUME NEW name \in Name
      PROVE  Sums(flat, Under(DOMAIN flat, name)) = RAdd(own(name), sum(below(name)))
    BY <1>1, <1>2, RowAddsUp
<1>4. sum(below(<< >>)) = SumOver(DOMAIN flat, LAMBDA a : flat[a])
    <2>1. PICK top \in Name : top = << >>
        <3>1. << >> \in Seq(STRING)
            OBVIOUS
        <3>2. QED
            BY <3>1 DEF Name
    <2>2. Own(DOMAIN flat, top) = {}
        BY <2>1, PathIs DEF Leaves, Own
    <2>3. Under(DOMAIN flat, top) = DOMAIN flat
        <3>1. ASSUME NEW a \in DOMAIN flat
              PROVE  IsPrefix(top, Path[a])
            <4>1. Path[a] \in Name /\ Len(Path[a]) \in Nat /\ Len(top) = 0
                BY <2>1, PathIs DEF Leaves
            <4>2. QED
                BY <4>1, PrefixIs
        <3>2. QED
            BY <3>1 DEF Under
    <2>4. Sums(flat, {}) = Zero
        BY FS_EmptySet, SumsStep
    <2>5. Sums(flat, DOMAIN flat) = RAdd(Zero, sum(below(top)))
        BY <1>1, <1>3, <2>2, <2>3, <2>4
    <2>6. Sums(flat, DOMAIN flat) = SumOver(DOMAIN flat, LAMBDA a : flat[a])
        BY SumOverIs
    <2>7. sum(below(top)) \in Num
        <3>1. Below(rows, top) \in SUBSET Kids(DOMAIN flat, top)
            BY RowsAre DEF Below, Kids
        <3>2. IsFiniteSet(Below(rows, top))
            BY <3>1, KidsAre, FS_Subset DEF Leaves
        <3>3. \A n \in Below(rows, top) : rows[n] \in Num
            <4>1. ASSUME NEW n \in Below(rows, top)
                  PROVE  rows[n] \in Num
                <5>1. Under(DOMAIN flat, n) \in SUBSET DOMAIN flat
                    BY DEF Under
                <5>2. Amounted(flat, Under(DOMAIN flat, n))
                    BY <5>1, AmountedPart DEF Leaves
                <5>3. Sums(flat, Under(DOMAIN flat, n)) \in Num
                    BY <5>2, SetSums
                <5>4. QED
                    BY <5>3, RowsAre DEF Below
            <4>2. QED
                BY <4>1
        <3> HIDE DEF rows
        <3>4. Sums(rows, Below(rows, top)) \in Num
            BY <3>2, <3>3, SumsNum
        <3>5. QED
            BY <1>1, <1>2, <3>4
    <2> HIDE DEF sum, below, rows
    <2>8. QED
        BY <2>1, <2>5, <2>6, <2>7, AddNothing
<1>5. ASSUME NEW name \in DOMAIN rows
      PROVE  rows[name] = RAdd(own(name), sum(below(name)))
    <2>1. name \in Name
        BY RowsAre, TreeName DEF Leaves
    <2>2. rows[name] = Sums(flat, Under(DOMAIN flat, name))
        BY RowsAre
    <2>3. QED
        BY <1>3, <2>1, <2>2
<1>6. QED
    BY <1>4, <1>5 DEF AddsUp

----------------------------------------------------------------------------
(* Net worth.                                                              *)

(* Units, by account and commodity.                                        *)
Holdings == [Accounts -> [Commodities -> Num]]

LEMMA ConvertedNum ==
    ASSUME NEW p, PriceTable(p), NEW units \in [Commodities -> Num], NEW day \in Int,
           NEW S \in SUBSET Commodities
    PROVE  /\ IsFiniteSet(S) /\ Amounted(Converted(p, units, day), S)
           /\ Sums(Converted(p, units, day), S) \in Num
           /\ \A c \in Commodities : units[c] = Zero => Converted(p, units, day)[c] = Zero
<1> DEFINE F == Converted(p, units, day)
<1>1. IsFiniteSet(S)
    BY FiniteAssumption, FS_Subset
<1>2. \A c \in Commodities : F[c] \in Num /\ (units[c] = Zero => F[c] = Zero)
    <2>1. ASSUME NEW c \in Commodities
          PROVE  F[c] \in Num /\ (units[c] = Zero => F[c] = Zero)
        <3>1. F[c] = MarketConvert(p, c, units[c], day)
            BY DEF Converted
        <3>2. PICK n \in Num : n = units[c]
            OBVIOUS
        <3>3. QED
            BY <3>1, <3>2, ConvertNum
    <2>2. QED
        BY <2>1
<1> HIDE DEF F
<1>3. Amounted(F, S)
    BY <1>1, <1>2 DEF Amounted
<1>4. QED
    BY <1>1, <1>2, <1>3, SetSums DEF F

(* The lines of the net worth table, and its total.                        *)
LEMMA WorthIs ==
    ASSUME NEW p, PriceTable(p), NEW bal \in Holdings, NEW day \in Int
    PROVE  /\ DOMAIN Worth(p, bal, day) = {a \in AssetAccounts : Held(bal, a) # {}}
           /\ \A a \in DOMAIN Worth(p, bal, day) :
                Worth(p, bal, day)[a] = Sums(Converted(p, bal[a], day), Held(bal, a))
           /\ Leaves(Worth(p, bal, day))
<1>1. DOMAIN Worth(p, bal, day) = {a \in AssetAccounts : Held(bal, a) # {}}
    BY DEF Worth
<1>2. ASSUME NEW a \in DOMAIN Worth(p, bal, day)
      PROVE  /\ Worth(p, bal, day)[a] = Sums(Converted(p, bal[a], day), Held(bal, a))
             /\ Worth(p, bal, day)[a] \in Num
    <2>1. a \in AssetAccounts /\ a \in Accounts
        BY <1>1, AssetsAssumption
    <2>2. PICK units \in [Commodities -> Num] : units = bal[a]
        BY <2>1 DEF Holdings
    <2>3. PICK S \in SUBSET Commodities : S = Held(bal, a)
        BY DEF Held
    <2>4. IsFiniteSet(S) /\ Sums(Converted(p, units, day), S) \in Num
        BY ConvertedNum
    <2>5. SumOver(S, LAMBDA c : MarketConvert(p, c, units[c], day)) = Sums(Converted(p, units, day), S)
        BY <2>4, SumOfConverted
    <2>6. Worth(p, bal, day)[a] = SumOver(S, LAMBDA c : MarketConvert(p, c, units[c], day))
        BY <1>1, <2>2, <2>3 DEF Worth
    <2>7. QED
        BY <2>2, <2>3, <2>4, <2>5, <2>6
<1>3. Leaves(Worth(p, bal, day))
    <2>1. DOMAIN Worth(p, bal, day) \in SUBSET Accounts
        BY <1>1, AssetsAssumption
    <2>2. IsFiniteSet(DOMAIN Worth(p, bal, day))
        BY <2>1, FiniteAssumption, FS_Subset
    <2>3. QED
        BY <1>2, <2>1, <2>2 DEF Leaves, Amounted
<1>4. QED
    BY <1>1, <1>2, <1>3

(* The table adds up to the report: what an account holds nothing of is    *)
(* worth nothing.                                                          *)
LEMMA WorthIsValue ==
    ASSUME NEW p, PriceTable(p), NEW bal \in Holdings, NEW day \in Int
    PROVE  ValueOf(p, bal, day) = Sums(Worth(p, bal, day), DOMAIN Worth(p, bal, day))
<1>1. PICK flat : flat = Worth(p, bal, day)
    OBVIOUS
<1>2. PICK A \in SUBSET AssetAccounts : A = DOMAIN flat /\ A = {a \in AssetAccounts : Held(bal, a) # {}}
    BY <1>1, WorthIs
<1>3. PICK F : F = Worths(p, bal, day)
    OBVIOUS
<1>4. IsFiniteSet(AssetAccounts)
    BY FiniteAssumption, AssetsAssumption, FS_Subset
<1>5. ASSUME NEW a \in AssetAccounts
      PROVE  /\ F[a] \in Num
             /\ F[a] = Sums(Converted(p, bal[a], day), Held(bal, a))
             /\ Held(bal, a) = {} => F[a] = Zero
    <2>1. PICK units \in [Commodities -> Num] : units = bal[a]
        BY AssetsAssumption DEF Holdings
    <2>2. PICK S \in SUBSET Commodities : S = Held(bal, a)
        BY DEF Held
    <2>3. PICK G : G = Converted(p, units, day)
        OBVIOUS
    <2>4. /\ Amounted(G, Commodities) /\ Sums(G, Commodities) \in Num /\ IsFiniteSet(Commodities)
          /\ \A c \in Commodities : units[c] = Zero => G[c] = Zero
        BY <2>3, ConvertedNum
    <2>5. F[a] = SumOver(Commodities, LAMBDA c : MarketConvert(p, c, units[c], day))
        BY <1>3, <2>1 DEF Worths
    <2>11. PICK C \in SUBSET Commodities : C = Commodities
        OBVIOUS
    <2>13. IsFiniteSet(C)
        BY <2>4, <2>11
    <2>12. SumOver(C, LAMBDA c : MarketConvert(p, c, units[c], day)) = Sums(Converted(p, units, day), C)
        BY <2>13, SumOfConverted
    <2>6. SumOver(Commodities, LAMBDA c : MarketConvert(p, c, units[c], day)) = Sums(G, Commodities)
        BY <2>3, <2>11, <2>12
    <2>7. \A c \in Commodities \ S : G[c] = Zero
        BY <2>1, <2>2, <2>4 DEF Held
    <2>8. Sums(G, Commodities) = Sums(G, S)
        BY <2>4, <2>7, SumsLess
    <2>9. S = {} => Sums(G, S) = Zero
        BY FS_EmptySet, SumsStep
    <2>10. QED
        BY <2>1, <2>2, <2>3, <2>4, <2>5, <2>6, <2>8, <2>9
<1>6. Amounted(F, AssetAccounts)
    BY <1>4, <1>5 DEF Amounted
<1>7. \A a \in AssetAccounts \ A : F[a] = Zero
    BY <1>2, <1>5
<1>8. Sums(F, AssetAccounts) = Sums(F, A)
    BY <1>6, <1>7, SumsLess
<1>9. \A a \in A : F[a] = flat[a]
    BY <1>1, <1>2, <1>5, WorthIs
<1>10. Sums(F, A) = Sums(flat, A)
    BY <1>4, <1>9, SumsSame, FS_Subset
<1>11. ValueOf(p, bal, day) = Sums(F, AssetAccounts)
    BY <1>3, <1>4, SumOfWorths
<1>12. QED
    BY <1>1, <1>2, <1>8, <1>10, <1>11

(* The rows below a leaf, one for each of its commodities.                 *)
LEMMA RowsSplit ==
    ASSUME NEW p, PriceTable(p), NEW bal \in Holdings, NEW day \in Int
    PROVE  Splits(SubRows(p, bal, day, Rollup(Worth(p, bal, day))), Rollup(Worth(p, bal, day)))
<1>1. PICK flat : flat = Worth(p, bal, day)
    OBVIOUS
<1>2. PICK rows : rows = Rollup(flat)
    OBVIOUS
<1>3. PICK subs : subs = SubRows(p, bal, day, rows)
    OBVIOUS
<1>4. PICK A \in SUBSET AssetAccounts : A = DOMAIN flat /\ A = {a \in AssetAccounts : Held(bal, a) # {}}
    BY <1>1, WorthIs
<1>5. PICK names : names = NewAccountTree({Path[a] : a \in A})
    OBVIOUS
<1> DEFINE split(a) == /\ Path[a] \in DOMAIN rows /\ ~HasChild(names, Path[a])
                       /\ Cardinality(Held(bal, a)) > 1
<1>6. /\ DOMAIN subs = {y \in AssetAccounts \X Commodities : split(y[1]) /\ y[2] \in Held(bal, y[1])}
      /\ \A x \in DOMAIN subs : subs[x] = MarketConvert(p, x[2], bal[x[1]][x[2]], day)
    BY <1>3, <1>4, <1>5 DEF SubRows
<1>7. ASSUME NEW a \in {x[1] : x \in DOMAIN subs}
      PROVE  rows[Path[a]] = SumOver({x \in DOMAIN subs : x[1] = a}, LAMBDA x : subs[x])
    <2>1. a \in AssetAccounts /\ split(a) /\ a \in Accounts /\ a \in A
        BY <1>4, <1>6, AssetsAssumption
    <2>2. PICK units \in [Commodities -> Num] : units = bal[a]
        BY <2>1 DEF Holdings
    <2>21. Held(bal, a) \in SUBSET Commodities
        BY DEF Held
    <2>3. PICK S \in SUBSET Commodities : S = Held(bal, a) /\ IsFiniteSet(S)
        BY <2>21, FiniteAssumption, FS_Subset
    <2>4. PICK G : G = Converted(p, units, day)
        OBVIOUS
    <2>5. Amounted(G, S)
        BY <2>4, ConvertedNum
    <2>6. Under(A, Path[a]) = {a}
        <3>1. Path[a] \in Name /\ IsPrefix(Path[a], Path[a])
            BY <2>1, PathIs, PrefixIs
        <3>2. ASSUME NEW b \in A, IsPrefix(Path[a], Path[b]), b # a
              PROVE  FALSE
            <4>1. b \in Accounts /\ Path[b] \in Name /\ Len(Path[b]) \in Nat /\ Len(Path[b]) > 0
                BY AssetsAssumption, PathIs
            <4>2. Path[b] # Path[a]
                BY <2>1, <3>2, <4>1, PathAssumption
            <4>3. SubSeq(Path[b], 1, Len(Path[b])) \in names
                <5>1. A \in SUBSET Accounts
                    BY AssetsAssumption
                <5>2. Len(Path[b]) \in 1..Len(Path[b])
                    BY <4>1
                <5>3. QED
                    BY <1>5, <5>1, <5>2, TreeName
            <4>4. SubSeq(Path[b], 1, Len(Path[b])) = Path[b]
                BY <4>1 DEF Name
            <4>5. HasChild(names, Path[a])
                BY <3>2, <4>2, <4>3, <4>4 DEF HasChild, AccountUnder
            <4>6. QED
                BY <2>1, <4>5
        <3>3. QED
            BY <2>1, <3>1, <3>2 DEF Under
    <2>7. rows[Path[a]] = flat[a]
        <3>1. rows[Path[a]] = Sums(flat, {a})
            <4>1. Path[a] \in DOMAIN Rollup(flat)
                BY <1>2, <2>1
            <4>2. Rollup(flat)[Path[a]] = Sums(flat, Under(DOMAIN flat, Path[a]))
                BY <4>1, RowsAre
            <4>3. QED
                BY ONLY <1>2, <1>4, <2>6, <4>2
        <3>2. flat[a] \in Num
            BY <1>1, <1>4, <2>1, WorthIs DEF Leaves, Amounted
        <3>3. QED
            BY <3>1, <3>2, SumsOfOne
    <2>8. flat[a] = Sums(G, S)
        BY <1>1, <1>4, <2>1, <2>2, <2>3, <2>4, WorthIs
    <2>9. PICK X : X = {x \in DOMAIN subs : x[1] = a}
        OBVIOUS
    <2>10. PICK P : P = [c \in S |-> {<<a, c>>}]
        OBVIOUS
    <2>11. X = Of(P, S)
        <3>1. ASSUME NEW x \in X
              PROVE  x \in Of(P, S)
            <4>1. x \in AssetAccounts \X Commodities /\ x[1] = a /\ x[2] \in Held(bal, x[1])
                BY <1>6, <2>9
            <4>2. x = <<a, x[2]>> /\ x[2] \in S
                BY <2>3, <4>1
            <4>3. x \in P[x[2]]
                BY <2>10, <4>2
            <4>4. QED
                BY <4>2, <4>3 DEF Of
        <3>2. ASSUME NEW x \in Of(P, S)
              PROVE  x \in X
            <4>1. PICK c \in S : x = <<a, c>>
                BY <2>10 DEF Of
            <4>2. x \in AssetAccounts \X Commodities /\ x[1] = a /\ x[2] = c
                BY <2>1, <4>1
            <4>3. split(x[1]) /\ x[2] \in Held(bal, x[1])
                BY <2>1, <2>3, <4>2
            <4>4. QED
                BY <1>6, <2>9, <4>2, <4>3
        <3>3. QED
            BY <3>1, <3>2
    <2>12. ASSUME NEW c \in S
           PROVE  <<a, c>> \in X /\ subs[<<a, c>>] = G[c] /\ G[c] \in Num
        <3>1. <<a, c>> \in X
            BY <2>10, <2>11 DEF Of
        <3>2. <<a, c>> \in DOMAIN subs
            BY <2>9, <3>1
        <3>3. subs[<<a, c>>] = MarketConvert(p, c, units[c], day)
            BY <1>6, <2>2, <3>2
        <3>4. G[c] = MarketConvert(p, c, units[c], day)
            BY <2>4 DEF Converted
        <3>5. QED
            BY <2>5, <3>1, <3>3, <3>4 DEF Amounted
    <2>13. \A x \in X : subs[x] \in Num
        <3>1. \A x \in X : \E c \in S : x = <<a, c>>
            BY <2>10, <2>11 DEF Of
        <3>2. QED
            BY <2>12, <3>1
    <2>14. IsFiniteSet(X)
        <3> DEFINE f == [c \in S |-> <<a, c>>]
        <3>1. f \in Surjection(S, X)
            BY <2>10, <2>11, <2>12 DEF Surjection, Of
        <3> HIDE DEF f
        <3>2. QED
            BY <2>3, <3>1, FS_Surjection
    <2>15. Amounted(subs, X)
        BY <2>13, <2>14 DEF Amounted
    <2>16. \A c \in S : G[c] = Sums(subs, P[c])
        <3>1. ASSUME NEW c \in S
              PROVE  G[c] = Sums(subs, P[c])
            <4>1. PICK x \in X : x = <<a, c>>
                BY <2>12
            <4>2. Sums(subs, {x}) = subs[x]
                BY <2>13, SumsOfOne
            <4>3. QED
                BY <2>10, <2>12, <4>1, <4>2
        <3>2. QED
            BY <3>1
    <2>17. \A m \in S, n \in S : m # n => P[m] \cap P[n] = {}
        BY <2>10
    <2>18. Sums(G, S) = Sums(subs, X)
        BY <2>3, <2>11, <2>15, <2>16, <2>17, SumsOfParts
    <2>19. SumOver(X, LAMBDA x : subs[x]) = Sums(subs, X)
        BY SumOverIs
    <2>20. QED
        BY <2>7, <2>8, <2>9, <2>18, <2>19
<1>8. Splits(subs, rows)
    BY <1>7 DEF Splits
<1>9. QED
    BY <1>1, <1>2, <1>3, <1>8

----------------------------------------------------------------------------
(* Lists of directives *)

(* A sequence, of whatever values. *)
IsSeq(s) == s \in Seq(ToSet(s))

(* What sequences of anything have in common, element by element. *)
LEMMA IsSeqOf ==
    ASSUME NEW S, NEW s \in Seq(S)
    PROVE  IsSeq(s)
<1>1. Len(s) \in Nat /\ s \in [1..Len(s) -> S]
    BY LenProperties
<1>2. s \in [1..Len(s) -> ToSet(s)]
    BY <1>1 DEF ToSet
<1>3. QED
    BY <1>1, <1>2, SeqDef DEF IsSeq

LEMMA SeqFacts ==
    ASSUME NEW s, IsSeq(s)
    PROVE  /\ Len(s) \in Nat
           /\ DOMAIN s = 1..Len(s)
           /\ s = [i \in 1..Len(s) |-> s[i]]
<1>1. Len(s) \in Nat /\ s \in [1..Len(s) -> ToSet(s)] /\ DOMAIN s = 1..Len(s)
    BY LenProperties DEF IsSeq
<1>2. QED
    BY <1>1

LEMMA SameSeq ==
    ASSUME NEW s, NEW t, IsSeq(s), IsSeq(t), Len(s) = Len(t),
           \A i \in 1..Len(s) : s[i] = t[i]
    PROVE  s = t
<1>1. /\ s = [i \in 1..Len(s) |-> s[i]]
      /\ t = [i \in 1..Len(t) |-> t[i]]
    BY SeqFacts
<1>2. QED
    BY <1>1

LEMMA FcnIsSeq ==
    ASSUME NEW n \in Nat, NEW f, f = [i \in 1..n |-> f[i]]
    PROVE  IsSeq(f) /\ Len(f) = n /\ DOMAIN f = 1..n
<1>1. f \in [1..n -> ToSet(f)] /\ DOMAIN f = 1..n
    BY DEF ToSet
<1>2. f \in Seq(ToSet(f))
    BY <1>1, SeqDef
<1>3. Len(f) = n
    BY <1>1, <1>2, LenProperties
<1>4. QED
    BY <1>1, <1>2, <1>3 DEF IsSeq

(* What the operators on sequences make of them. *)
LEMMA Cat ==
    ASSUME NEW s, NEW t, IsSeq(s), IsSeq(t)
    PROVE  /\ IsSeq(s \o t) /\ Len(s \o t) = Len(s) + Len(t)
           /\ \A i \in 1..Len(s) : (s \o t)[i] = s[i]
           /\ \A i \in 1..Len(t) : (s \o t)[Len(s) + i] = t[i]
           /\ \A i \in Len(s) + 1..Len(s) + Len(t) : (s \o t)[i] = t[i - Len(s)]
<1> DEFINE S == ToSet(s) \cup ToSet(t)
<1>1. s \in Seq(S) /\ t \in Seq(S)
    BY SeqMonotonic DEF IsSeq
<1> HIDE DEF S
<1>2. Len(s) \in Nat /\ Len(t) \in Nat
    BY SeqFacts
<1>3. /\ s \o t \in Seq(S)
      /\ Len(s \o t) = Len(s) + Len(t)
      /\ \A i \in 1..Len(s) + Len(t) : (s \o t)[i] = IF i <= Len(s) THEN s[i] ELSE t[i - Len(s)]
    BY <1>1, ConcatProperties
<1>4. IsSeq(s \o t)
    BY <1>3, IsSeqOf
<1>5. QED
    BY <1>2, <1>3, <1>4

LEMMA Single ==
    ASSUME NEW x
    PROVE  IsSeq(<<x>>) /\ Len(<<x>>) = 1 /\ <<x>>[1] = x
<1>1. <<x>> \in Seq({x})
    OBVIOUS
<1>2. QED
    BY <1>1, IsSeqOf

LEMMA NoneIs == IsSeq(<< >>) /\ Len(<< >>) = 0
<1>1. << >> \in Seq({})
    OBVIOUS
<1>2. QED
    BY <1>1, IsSeqOf

(* FlattenSeq, one sequence after another. *)
LEMMA FlattenSteps ==
    ASSUME NEW seqs, Len(seqs) \in Nat \ {0}
    PROVE  \E f : /\ f[1] = seqs[1]
                  /\ \A i \in 2..Len(seqs) : f[i] = f[i - 1] \o seqs[i]
                  /\ FlattenSeq(seqs) = f[Len(seqs)]
<1> DEFINE Fits(f, n) == f = [i \in 1..n |-> IF i = 1 THEN seqs[i] ELSE f[i - 1] \o seqs[i]]
           S == {m \in Nat : \E f : Fits(f, m)}
<1>1. 0 \in S
    <2>1. Fits([i \in 1..0 |-> << >>], 0)
        OBVIOUS
    <2> HIDE DEF Fits
    <2>2. QED
        BY <2>1
<1>2. ASSUME NEW m \in Nat, m \in S
      PROVE  m + 1 \in S
    <2>1. PICK f : Fits(f, m)
        BY <1>2
    <2> DEFINE last == IF m = 0 THEN seqs[1] ELSE f[m] \o seqs[m + 1]
               g == [i \in 1..(m + 1) |-> IF i = m + 1 THEN last ELSE f[i]]
    <2>2. ASSUME NEW i \in 1..(m + 1)
          PROVE  g[i] = IF i = 1 THEN seqs[i] ELSE g[i - 1] \o seqs[i]
        <3>1. CASE i = m + 1
            BY <3>1
        <3>2. CASE i \in 1..m
            <4>1. g[i] = f[i] /\ (i # 1 => g[i - 1] = f[i - 1])
                BY <3>2
            <4>2. f[i] = IF i = 1 THEN seqs[i] ELSE f[i - 1] \o seqs[i]
                BY <2>1, <3>2
            <4> HIDE DEF g
            <4>3. QED
                BY <4>1, <4>2
        <3>3. QED
            BY <3>1, <3>2
    <2>3. Fits(g, m + 1)
        BY <2>2
    <2> HIDE DEF g, Fits
    <2>4. QED
        BY <2>3
<1>3. Nat \subseteq S
    <2> HIDE DEF S
    <2>1. QED
        BY <1>1, <1>2, SetInduction
<1> DEFINE n == Len(seqs)
           f == CHOOSE g : g = [i \in 1..n |-> IF i = 1 THEN seqs[i] ELSE g[i - 1] \o seqs[i]]
<1>4. Fits(f, n)
    BY <1>3
<1>5. FlattenSeq(seqs) = f[n]
    BY DEF FlattenSeq
<1> HIDE DEF f, S
<1>6. f = [i \in 1..n |-> IF i = 1 THEN seqs[i] ELSE f[i - 1] \o seqs[i]] /\ n \in Nat \ {0}
    BY <1>4
<1> HIDE DEF n, Fits
<1>7. f[1] = seqs[1]
    BY <1>6
<1>8. ASSUME NEW i \in 2..n
      PROVE  f[i] = f[i - 1] \o seqs[i]
    <2>1. i \in 1..n /\ i # 1
        BY <1>6
    <2>2. QED
        BY <1>6, <2>1
<1>9. /\ f[1] = seqs[1]
      /\ \A i \in 2..n : f[i] = f[i - 1] \o seqs[i]
      /\ FlattenSeq(seqs) = f[n]
    BY <1>5, <1>7, <1>8
<1>10. QED
    BY <1>9 DEF n

LEMMA FlattenNone ==
    ASSUME NEW seqs, IsSeq(seqs), Len(seqs) = 0
    PROVE  FlattenSeq(seqs) = << >>
<1>1. seqs = << >>
    BY SameSeq, NoneIs
<1>2. QED
    BY <1>1 DEF FlattenSeq

LEMMA CatAll ==
    ASSUME NEW s, NEW t, IsSeq(s), IsSeq(t)
    PROVE  ToSet(s \o t) = ToSet(s) \cup ToSet(t)
<1>1. /\ IsSeq(s \o t) /\ Len(s \o t) = Len(s) + Len(t)
      /\ \A i \in 1..Len(s) : (s \o t)[i] = s[i]
      /\ \A i \in 1..Len(t) : (s \o t)[Len(s) + i] = t[i]
      /\ \A i \in Len(s) + 1..Len(s) + Len(t) : (s \o t)[i] = t[i - Len(s)]
    BY Cat
<1>2. PICK m \in Nat, n \in Nat : m = Len(s) /\ n = Len(t)
    BY SeqFacts
<1>3. DOMAIN s = 1..m /\ DOMAIN t = 1..n /\ DOMAIN (s \o t) = 1..(m + n)
    BY <1>1, <1>2, SeqFacts
<1>4. PICK u : u = s \o t
    OBVIOUS
<1>5. ASSUME NEW x \in ToSet(u)
      PROVE  x \in ToSet(s) \cup ToSet(t)
    <2>1. PICK i \in 1..(m + n) : x = u[i]
        BY <1>3, <1>4 DEF ToSet
    <2>2. CASE i <= m
        BY <1>1, <1>2, <1>3, <1>4, <2>1, <2>2 DEF ToSet
    <2>3. CASE i > m
        <3>1. i - m \in 1..n /\ x = t[i - m]
            BY <1>1, <1>2, <1>4, <2>1, <2>3
        <3>2. QED
            BY <1>3, <3>1 DEF ToSet
    <2>4. QED
        BY <2>2, <2>3
<1>6. ASSUME NEW x \in ToSet(s) \cup ToSet(t)
      PROVE  x \in ToSet(u)
    <2>1. CASE x \in ToSet(s)
        <3>1. PICK i \in 1..m : x = s[i]
            BY <1>3, <2>1 DEF ToSet
        <3>2. i \in 1..(m + n) /\ x = u[i]
            BY <1>1, <1>2, <1>4, <3>1
        <3>3. QED
            BY <1>3, <1>4, <3>2 DEF ToSet
    <2>2. CASE x \in ToSet(t)
        <3>1. PICK i \in 1..n : x = t[i]
            BY <1>3, <2>2 DEF ToSet
        <3>2. m + i \in 1..(m + n) /\ x = u[m + i]
            BY <1>1, <1>2, <1>4, <3>1
        <3>3. QED
            BY <1>3, <1>4, <3>2 DEF ToSet
    <2>3. QED
        BY <2>1, <2>2
<1>7. QED
    BY <1>4, <1>5, <1>6

LEMMA SingleAll ==
    ASSUME NEW x
    PROVE  ToSet(<<x>>) = {x}
<1>1. DOMAIN <<x>> = 1..1 /\ <<x>>[1] = x
    OBVIOUS
<1>2. QED
    BY <1>1 DEF ToSet

LEMMA NoneAll == ToSet(<< >>) = {}
BY DEF ToSet

LEMMA NothingIn ==
    ASSUME NEW s, IsSeq(s), ToSet(s) = {}
    PROVE  s = << >>
<1>1. PICK n \in Nat : n = Len(s) /\ DOMAIN s = 1..n
    BY SeqFacts
<1>2. n = 0
    <2>1. n # 0 => 1 \in DOMAIN s
        BY <1>1
    <2>2. QED
        BY <2>1 DEF ToSet
<1>3. QED
    BY <1>1, <1>2, NoneIs, SameSeq

(* One list and another, and a third. *)
LEMMA CatThree ==
    ASSUME NEW s, NEW t, NEW u, IsSeq(s), IsSeq(t), IsSeq(u)
    PROVE  s \o (t \o u) = (s \o t) \o u
<1> DEFINE S == ToSet(s) \cup ToSet(t) \cup ToSet(u)
<1>1. s \in Seq(S) /\ t \in Seq(S) /\ u \in Seq(S)
    BY SeqMonotonic DEF IsSeq
<1> HIDE DEF S
<1>2. QED
    BY <1>1, ConcatAssociative

(* Nothing after a list, or before it. *)
LEMMA CatNone ==
    ASSUME NEW s, IsSeq(s)
    PROVE  s \o << >> = s /\ << >> \o s = s
<1>1. PICK S : S = ToSet(s)
    OBVIOUS
<1>2. s \in Seq(S)
    BY <1>1 DEF IsSeq
<1>3. QED
    BY <1>2, ConcatEmptySeq

(* Lists one after another are a list of what each of them has. *)
LEMMA FlattenIs ==
    ASSUME NEW seqs, IsSeq(seqs), \A i \in 1..Len(seqs) : IsSeq(seqs[i])
    PROVE  /\ IsSeq(FlattenSeq(seqs))
           /\ ToSet(FlattenSeq(seqs)) = UNION {ToSet(seqs[i]) : i \in 1..Len(seqs)}
<1>1. PICK n \in Nat : n = Len(seqs)
    BY SeqFacts
<1>2. CASE n = 0
    <2>1. FlattenSeq(seqs) = << >>
        BY <1>1, <1>2, FlattenNone
    <2>2. QED
        BY <1>1, <1>2, <2>1, NoneIs, NoneAll
<1>3. CASE n # 0
    <2>1. PICK f : /\ f[1] = seqs[1]
                   /\ \A i \in 2..n : f[i] = f[i - 1] \o seqs[i]
                   /\ FlattenSeq(seqs) = f[n]
        BY <1>1, <1>3, FlattenSteps
    <2> DEFINE K == {i \in Nat : i \in 1..n => /\ IsSeq(f[i])
                                             /\ ToSet(f[i]) = UNION {ToSet(seqs[j]) : j \in 1..i}}
    <2>2. 0 \in K
        OBVIOUS
    <2>3. ASSUME NEW i \in Nat, i \in K, i + 1 \in 1..n
          PROVE  /\ IsSeq(f[i + 1])
                 /\ ToSet(f[i + 1]) = UNION {ToSet(seqs[j]) : j \in 1..(i + 1)}
        <3>1. CASE i = 0
            BY <1>1, <2>1, <2>3, <3>1
        <3>2. CASE i # 0
            <4>1. i \in 1..n /\ i + 1 \in 2..n /\ i + 1 - 1 = i
                BY <2>3, <3>2
            <4>2. IsSeq(f[i]) /\ ToSet(f[i]) = UNION {ToSet(seqs[j]) : j \in 1..i}
                BY <2>3, <4>1
            <4>3. f[i + 1] = f[i] \o seqs[i + 1] /\ IsSeq(seqs[i + 1])
                <5>1. PICK k \in 2..n : k = i + 1 /\ k - 1 = i
                    BY <4>1
                <5>2. k \in 1..Len(seqs)
                    BY <1>1
                <5>3. f[k] = f[k - 1] \o seqs[k]
                    BY <2>1
                <5>4. IsSeq(seqs[k])
                    BY <5>2
                <5>5. QED
                    BY <5>1, <5>3, <5>4
            <4>4. IsSeq(f[i + 1]) /\ ToSet(f[i + 1]) = ToSet(f[i]) \cup ToSet(seqs[i + 1])
                BY <4>2, <4>3, Cat, CatAll
            <4>5. 1..(i + 1) = 1..i \cup {i + 1}
                OBVIOUS
            <4>6. UNION {ToSet(seqs[j]) : j \in 1..(i + 1)}
                    = (UNION {ToSet(seqs[j]) : j \in 1..i}) \cup ToSet(seqs[i + 1])
                BY <4>5
            <4>7. QED
                BY <4>2, <4>4, <4>6
        <3>3. QED
            BY <3>1, <3>2
    <2>4. \A i \in Nat : i \in K => i + 1 \in K
        BY <2>3
    <2> HIDE DEF K
    <2>5. Nat \subseteq K
        BY <2>2, <2>4, SetInduction
    <2>6. n \in 1..n
        BY <1>3
    <2>7. QED
        BY <1>1, <2>1, <2>5, <2>6 DEF K
<1>4. QED
    BY <1>2, <1>3

----------------------------------------------------------------------------
(* Directives, and the last opens of interest accounts *)

AreDirectives(s) == IsSeq(s) /\ \A d \in ToSet(s) : IsParsed(d)

(* What a parsed directive has. *)
LEMMA ParsedIs ==
    ASSUME NEW d, IsParsed(d)
    PROVE  /\ IsDirective(d)
           /\ {"kind", "date", "line"} \subseteq DOMAIN d
           /\ d.date \in Dates /\ d.date \in Int /\ d.line \in Nat /\ d.line \in Int
           /\ d.kind \in {"open", "close", "pad", "balance"} =>
                "acct" \in DOMAIN d /\ d.acct \in Accounts
           /\ d.kind = "open" => {"ccys", "rate"} \subseteq DOMAIN d /\ d.ccys \in Seq(Commodities)
           /\ d.kind = "pad" => "from" \in DOMAIN d /\ d.from \in Accounts
           /\ d.kind = "balance" =>
                {"n", "comm"} \subseteq DOMAIN d /\ d.n \in Num /\ d.comm \in Commodities
BY DEF IsParsed, IsDirective, Dates

LEMMA ParsedTxn ==
    ASSUME NEW d, IsParsed(d), d.kind = "txn"
    PROVE  /\ d \in Transaction /\ IsSeq(d.postings)
           /\ \A p \in ToSet(d.postings) : p \in Posting
<1>1. d \in Transaction
    BY DEF IsParsed, IsDirective
<1>2. PICK ps : ps = d.postings
    OBVIOUS
<1>3. ps \in Seq(Posting)
    BY <1>1, <1>2 DEF Transaction
<1>4. DOMAIN ps = 1..Len(ps) /\ \A i \in 1..Len(ps) : ps[i] \in Posting
    BY <1>3, LenProperties, ElementOfSeq
<1>5. IsSeq(ps)
    BY <1>3, IsSeqOf
<1>6. QED
    BY <1>1, <1>2, <1>4, <1>5 DEF ToSet

LEMMA AreCat ==
    ASSUME NEW s, NEW t, AreDirectives(s), AreDirectives(t)
    PROVE  AreDirectives(s \o t)
BY Cat, CatAll DEF AreDirectives

LEMMA AreFlat ==
    ASSUME NEW seqs, IsSeq(seqs), \A i \in 1..Len(seqs) : AreDirectives(seqs[i])
    PROVE  AreDirectives(FlattenSeq(seqs))
<1>1. \A i \in 1..Len(seqs) : IsSeq(seqs[i])
    BY DEF AreDirectives
<1>2. /\ IsSeq(FlattenSeq(seqs))
      /\ ToSet(FlattenSeq(seqs)) = UNION {ToSet(seqs[i]) : i \in 1..Len(seqs)}
    BY <1>1, FlattenIs
<1>3. QED
    BY <1>2 DEF AreDirectives

(* The places of a list that have a kind of directive. *)
LEMMA KindPlaces ==
    ASSUME NEW s, IsSeq(s), NEW kind
    PROVE  \E n \in Nat : /\ n = Len(s) /\ DOMAIN s = 1..n
                          /\ OfKind(s, kind) = {i \in 1..n : s[i].kind = kind}
BY SeqFacts DEF OfKind

LEMMA MaxOfPlaces ==
    ASSUME NEW n \in Nat, NEW S \in SUBSET (1..n), S # {}
    PROVE  Max(S) \in S /\ \A y \in S : y <= Max(S)
<1> DEFINE T == {k \in Nat : n - k \in S}
<1>1. T \in SUBSET Nat
    OBVIOUS
<1>2. T # {}
    <2>1. PICK x \in S : TRUE
        OBVIOUS
    <2>2. n - x \in Nat /\ n - (n - x) = x
        BY <2>1
    <2>3. QED
        BY <2>1, <2>2
<1>3. PICK k \in T : \A m \in T : k <= m
    BY <1>1, <1>2, LeastNat
<1>4. PICK x \in S : x = n - k
    BY <1>3
<1>5. ASSUME NEW y \in S
      PROVE  x >= y
    <2>1. n - y \in Nat /\ n - (n - y) = y
        OBVIOUS
    <2>2. k <= n - y
        BY <1>3, <2>1
    <2>3. QED
        BY <1>1, <1>3, <1>4, <2>2
<1> HIDE DEF T
<1>6. \A y \in S : x >= y
    BY <1>5
<1>7. Max(S) \in S /\ \A y \in S : Max(S) >= y
    BY <1>4, <1>6 DEF Max
<1>8. QED
    BY <1>7

(* The last open of an interest account is at j. *)
IsLast(s, a, j) ==
    /\ j \in InterestOpens(s) /\ s[j].acct = a
    /\ \A k \in InterestOpens(s) : s[k].acct = a => k <= j

LEMMA LastOpen ==
    ASSUME NEW s, IsSeq(s), NEW a \in InterestAccounts(s)
    PROVE  \E j : IsLast(s, a, j)
<1>1. PICK n \in Nat : n = Len(s) /\ DOMAIN s = 1..n
    BY SeqFacts
<1>2. PICK S : S = {i \in InterestOpens(s) : s[i].acct = a}
    OBVIOUS
<1>3. S \in SUBSET (1..n) /\ S # {}
    BY <1>1, <1>2 DEF InterestAccounts, InterestOpens, OfKind
<1>4. Max(S) \in S /\ \A y \in S : y <= Max(S)
    BY <1>3, MaxOfPlaces
<1>5. QED
    BY <1>2, <1>4 DEF IsLast

LEMMA LastOpenIs ==
    ASSUME NEW s, IsSeq(s), NEW a, NEW j, IsLast(s, a, j)
    PROVE  /\ InterestOpen(s, a) = s[j] /\ a \in InterestAccounts(s)
           /\ j \in 1..Len(s)
<1>1. PICK n \in Nat : n = Len(s) /\ DOMAIN s = 1..n
    BY SeqFacts
<1>2. PICK S : S = {i \in InterestOpens(s) : s[i].acct = a}
    OBVIOUS
<1>3. S \in SUBSET (1..n) /\ j \in S /\ \A y \in S : y <= j
    BY <1>1, <1>2 DEF IsLast, InterestOpens, OfKind
<1>4. Max(S) \in S /\ \A y \in S : y <= Max(S)
    BY <1>3, MaxOfPlaces
<1>5. Max(S) = j
    <2>1. PICK m \in 1..n : m = Max(S)
        BY <1>3, <1>4
    <2>2. j \in 1..n
        BY <1>3
    <2>3. QED
        BY <1>3, <1>4, <2>1, <2>2
<1>6. QED
    BY <1>1, <1>2, <1>3, <1>5 DEF InterestOpen, InterestAccounts, IsLast

----------------------------------------------------------------------------
(* What ExpandAutoInterest keeps while it runs *)

(* Among the first n directives a pad of a has no balance of a after it. *)
Waits(s, a, n) ==
    \E j \in 1..n : /\ s[j].kind = "pad" /\ s[j].acct = a
                    /\ \A k \in (j + 1)..n : ~(s[k].kind = "balance" /\ s[k].acct = a)

Zeroed(s) == {<<s[i].acct, s[i].comm>> : i \in {k \in OfKind(s, "balance") : s[k].n = Zero}}

(* The directives out are padded for the interest accounts of s. *)
Padded(s, out, pending, zeroed) ==
    /\ AreDirectives(out)
    /\ \A a \in pending : a \in InterestAccounts(s) => Waits(out, a, Len(out))
    /\ \A k \in OfKind(out, "balance") :
            out[k].acct \in InterestAccounts(s) => Waits(out, out[k].acct, k - 1)
    /\ zeroed \subseteq Zeroed(s) \cup Zeroed(out)
    /\ \A k \in OfKind(out, "close") : out[k].acct \in InterestAccounts(s) =>
            \A c \in ToSet(InterestOpen(s, out[k].acct).ccys) : <<out[k].acct, c>> \in zeroed

(* d may follow: what pends and what is zeroed become as given. *)
Follows(s, out, pending, zeroed, d, pending2, zeroed2) ==
    /\ IsParsed(d)
    /\ d.kind = "balance" /\ d.acct \in InterestAccounts(s) => Waits(out, d.acct, Len(out))
    /\ \A a \in pending2 : a \in InterestAccounts(s) =>
            \/ a \in pending /\ ~(d.kind = "balance" /\ d.acct = a)
            \/ d.kind = "pad" /\ d.acct = a
    /\ zeroed \subseteq zeroed2
    /\ \A z \in zeroed2 :
            z \in zeroed \/ (d.kind = "balance" /\ d.n = Zero /\ z = <<d.acct, d.comm>>)
    /\ d.kind = "close" /\ d.acct \in InterestAccounts(s) =>
            \A c \in ToSet(InterestOpen(s, d.acct).ccys) : <<d.acct, c>> \in zeroed2

(* One directive more. *)
LEMMA OneMore ==
    ASSUME NEW out, AreDirectives(out), NEW d, IsParsed(d)
    PROVE  /\ AreDirectives(out \o <<d>>)
           /\ \E n \in Nat : /\ n = Len(out) /\ n + 1 = Len(out \o <<d>>)
                             /\ DOMAIN out = 1..n /\ DOMAIN (out \o <<d>>) = 1..(n + 1)
                             /\ \A i \in 1..n : (out \o <<d>>)[i] = out[i]
                             /\ (out \o <<d>>)[n + 1] = d
<1>1. IsSeq(<<d>>) /\ Len(<<d>>) = 1 /\ <<d>>[1] = d /\ ToSet(<<d>>) = {d}
    BY Single, SingleAll
<1>2. AreDirectives(<<d>>)
    BY <1>1 DEF AreDirectives
<1>3. AreDirectives(out \o <<d>>)
    BY <1>2, AreCat
<1>4. IsSeq(out)
    BY DEF AreDirectives
<1>5. PICK n \in Nat : n = Len(out) /\ DOMAIN out = 1..n
    BY <1>4, SeqFacts
<1>6. PICK u : u = out \o <<d>>
    OBVIOUS
<1>7. PICK t : t = <<d>>
    OBVIOUS
<1>8. /\ IsSeq(out \o t) /\ Len(out \o t) = Len(out) + Len(t)
      /\ \A i \in 1..Len(out) : (out \o t)[i] = out[i]
      /\ \A i \in 1..Len(t) : (out \o t)[Len(out) + i] = t[i]
    BY <1>1, <1>4, <1>7, Cat
<1>9. /\ IsSeq(u) /\ Len(u) = n + 1
      /\ \A i \in 1..n : u[i] = out[i]
      /\ u[n + 1] = d
    BY <1>1, <1>5, <1>6, <1>7, <1>8
<1>10. DOMAIN u = 1..(n + 1)
    BY <1>9, SeqFacts
<1>11. QED
    BY <1>3, <1>5, <1>6, <1>9, <1>10

LEMMA WaitsOn ==
    ASSUME NEW s, NEW u, NEW n \in Nat, NEW m \in Nat, m <= n,
           \A i \in 1..n : u[i] = s[i], NEW a, Waits(s, a, m)
    PROVE  Waits(u, a, m)
<1>1. PICK j \in 1..m : /\ s[j].kind = "pad" /\ s[j].acct = a
                        /\ \A k \in (j + 1)..m : ~(s[k].kind = "balance" /\ s[k].acct = a)
    BY DEF Waits
<1>2. u[j] = s[j] /\ \A k \in (j + 1)..m : u[k] = s[k]
    OBVIOUS
<1>3. QED
    BY <1>1, <1>2 DEF Waits

LEMMA PaddedMore ==
    ASSUME NEW s, NEW out, NEW pending, NEW zeroed, Padded(s, out, pending, zeroed),
           NEW d, NEW pending2, NEW zeroed2,
           Follows(s, out, pending, zeroed, d, pending2, zeroed2)
    PROVE  Padded(s, out \o <<d>>, pending2, zeroed2)
<1>1. PICK A : A = InterestAccounts(s)
    OBVIOUS
<1>2. PICK u : u = out \o <<d>>
    OBVIOUS
<1>3. AreDirectives(out) /\ IsParsed(d)
    BY DEF Padded, Follows
<1>4. AreDirectives(u)
    BY <1>2, <1>3, OneMore
<1>5. PICK n \in Nat : /\ n = Len(out) /\ n + 1 = Len(u)
                       /\ DOMAIN out = 1..n /\ DOMAIN u = 1..(n + 1)
                       /\ \A i \in 1..n : u[i] = out[i]
                       /\ u[n + 1] = d
    <2>1. PICK n \in Nat : /\ n = Len(out) /\ n + 1 = Len(out \o <<d>>)
                           /\ DOMAIN out = 1..n /\ DOMAIN (out \o <<d>>) = 1..(n + 1)
                           /\ \A i \in 1..n : (out \o <<d>>)[i] = out[i]
                           /\ (out \o <<d>>)[n + 1] = d
        BY <1>3, OneMore
    <2>2. QED
        BY <1>2, <2>1
<1>6. ASSUME NEW a, NEW m \in Nat, m <= n, Waits(out, a, m)
      PROVE  Waits(u, a, m)
    BY <1>5, <1>6, WaitsOn
<1>7. ASSUME NEW a \in pending2, a \in A
      PROVE  Waits(u, a, n + 1)
    <2>1. CASE a \in pending /\ ~(d.kind = "balance" /\ d.acct = a)
        <3>1. Waits(out, a, n)
            BY <1>1, <1>5, <1>7, <2>1 DEF Padded
        <3>2. PICK j \in 1..n : /\ out[j].kind = "pad" /\ out[j].acct = a
                                /\ \A k \in (j + 1)..n : ~(out[k].kind = "balance" /\ out[k].acct = a)
            BY <3>1 DEF Waits
        <3>3. u[j] = out[j] /\ j \in 1..(n + 1)
            BY <1>5
        <3>4. ASSUME NEW k \in (j + 1)..(n + 1)
              PROVE  ~(u[k].kind = "balance" /\ u[k].acct = a)
            <4>1. CASE k = n + 1
                BY <1>5, <2>1, <4>1
            <4>2. CASE k # n + 1
                <5>1. k \in (j + 1)..n /\ k \in 1..n
                    BY <4>2
                <5>2. QED
                    BY <1>5, <3>2, <5>1
            <4>3. QED
                BY <4>1, <4>2
        <3>5. QED
            BY <3>2, <3>3, <3>4 DEF Waits
    <2>2. CASE d.kind = "pad" /\ d.acct = a
        <3>1. n + 1 \in 1..(n + 1) /\ (n + 1 + 1)..(n + 1) = {}
            OBVIOUS
        <3>2. QED
            BY <1>5, <2>2, <3>1 DEF Waits
    <2>3. QED
        BY <1>1, <1>7, <2>1, <2>2 DEF Follows
<1>8. ASSUME NEW k \in OfKind(u, "balance"), u[k].acct \in A
      PROVE  Waits(u, u[k].acct, k - 1)
    <2>1. k \in 1..(n + 1) /\ u[k].kind = "balance"
        BY <1>5 DEF OfKind
    <2>2. CASE k = n + 1
        <3>1. Waits(out, d.acct, n)
            BY <1>1, <1>5, <1>8, <2>1, <2>2 DEF Follows
        <3>2. n <= n /\ k - 1 = n
            BY <2>2
        <3>3. QED
            BY <1>5, <1>6, <2>2, <3>1, <3>2
    <2>3. CASE k # n + 1
        <3>1. k \in 1..n /\ u[k] = out[k]
            BY <1>5, <2>1, <2>3
        <3>2. k \in OfKind(out, "balance")
            BY <1>5, <2>1, <3>1 DEF OfKind
        <3>3. Waits(out, out[k].acct, k - 1)
            BY <1>1, <1>8, <3>1, <3>2 DEF Padded
        <3>4. k - 1 \in Nat /\ k - 1 <= n
            BY <3>1
        <3>5. QED
            BY <1>6, <3>1, <3>3, <3>4
    <2>4. QED
        BY <2>2, <2>3
<1>9. zeroed2 \subseteq Zeroed(s) \cup Zeroed(u)
    <2>1. ASSUME NEW z \in Zeroed(out)
          PROVE  z \in Zeroed(u)
        <3>1. PICK k \in OfKind(out, "balance") : out[k].n = Zero /\ z = <<out[k].acct, out[k].comm>>
            BY DEF Zeroed
        <3>2. k \in OfKind(u, "balance") /\ u[k] = out[k]
            BY <1>5 DEF OfKind
        <3>3. QED
            BY <3>1, <3>2 DEF Zeroed
    <2>2. ASSUME d.kind = "balance", d.n = Zero
          PROVE  <<d.acct, d.comm>> \in Zeroed(u)
        <3>1. n + 1 \in OfKind(u, "balance")
            BY <1>5, <2>2 DEF OfKind
        <3>2. QED
            BY <1>5, <2>2, <3>1 DEF Zeroed
    <2>3. zeroed \subseteq Zeroed(s) \cup Zeroed(out)
        BY DEF Padded
    <2>4. QED
        BY <2>1, <2>2, <2>3 DEF Follows
<1>10. ASSUME NEW k \in OfKind(u, "close"), u[k].acct \in A,
              NEW c \in ToSet(InterestOpen(s, u[k].acct).ccys)
       PROVE  <<u[k].acct, c>> \in zeroed2
    <2>1. k \in 1..(n + 1) /\ u[k].kind = "close"
        BY <1>5 DEF OfKind
    <2>2. CASE k = n + 1
        BY <1>1, <1>5, <1>10, <2>1, <2>2 DEF Follows
    <2>3. CASE k # n + 1
        <3>1. k \in 1..n /\ u[k] = out[k]
            BY <1>5, <2>1, <2>3
        <3>2. k \in OfKind(out, "close")
            BY <1>5, <2>1, <3>1 DEF OfKind
        <3>3. <<out[k].acct, c>> \in zeroed
            BY <1>1, <1>10, <3>1, <3>2 DEF Padded
        <3>4. QED
            BY <3>1, <3>3 DEF Follows
    <2>4. QED
        BY <2>2, <2>3
<1>11. QED
    BY <1>1, <1>2, <1>4, <1>5, <1>7, <1>8, <1>9, <1>10 DEF Padded

(* Pads and assertions that come in between. *)
Fills(out, out2) ==
    \E pre : /\ AreDirectives(pre) /\ out2 = out \o pre
             /\ \A x \in ToSet(pre) : x.kind # "open"

LEMMA FillsNothing ==
    ASSUME NEW out, AreDirectives(out)
    PROVE  Fills(out, out)
<1>1. AreDirectives(<< >>) /\ ToSet(<< >>) = {}
    BY NoneIs, NoneAll DEF AreDirectives
<1>2. out = out \o << >>
    BY CatNone DEF AreDirectives
<1>3. QED
    BY <1>1, <1>2 DEF Fills

LEMMA FillsOne ==
    ASSUME NEW out, NEW d, IsParsed(d), d.kind # "open"
    PROVE  Fills(out, out \o <<d>>)
<1>1. AreDirectives(<<d>>) /\ ToSet(<<d>>) = {d}
    BY Single, SingleAll DEF AreDirectives
<1>2. QED
    BY <1>1 DEF Fills

LEMMA FillsMore ==
    ASSUME NEW out, AreDirectives(out), NEW out1, Fills(out, out1), NEW out2, Fills(out1, out2)
    PROVE  Fills(out, out2)
<1>1. PICK pre : /\ AreDirectives(pre) /\ out1 = out \o pre
                 /\ \A x \in ToSet(pre) : x.kind # "open"
    BY DEF Fills
<1>2. PICK more : /\ AreDirectives(more) /\ out2 = out1 \o more
                  /\ \A x \in ToSet(more) : x.kind # "open"
    BY DEF Fills
<1>3. out2 = out \o (pre \o more)
    BY <1>1, <1>2, CatThree DEF AreDirectives
<1>4. AreDirectives(pre \o more) /\ ToSet(pre \o more) = ToSet(pre) \cup ToSet(more)
    BY <1>1, <1>2, AreCat, CatAll DEF AreDirectives
<1>5. QED
    BY <1>1, <1>2, <1>3, <1>4 DEF Fills

(* An assertion on an interest account comes with a pad. *)
LEMMA PaddedBalance ==
    ASSUME NEW s, NEW out, NEW pending, NEW zeroed, Padded(s, out, pending, zeroed),
           NEW b, IsParsed(b), b.kind = "balance", b.acct \in InterestAccounts(s),
           NEW pad, IsParsed(pad), pad.kind = "pad", pad.acct = b.acct,
           NEW zeroed2, zeroed \subseteq zeroed2,
           \A z \in zeroed2 : z \in zeroed \/ (b.n = Zero /\ z = <<b.acct, b.comm>>),
           NEW pads, pads = IF b.acct \in pending THEN << >> ELSE <<pad>>
    PROVE  /\ Padded(s, out \o (pads \o <<b>>), pending \ {b.acct}, zeroed2)
           /\ Fills(out, out \o (pads \o <<b>>))
<1>1. AreDirectives(out)
    BY DEF Padded
<1>2. Fills(out, out \o <<b>>)
    BY FillsOne
<1>3. CASE b.acct \in pending
    <2>1. pads \o <<b>> = <<b>>
        BY <1>3, CatNone, Single
    <2>2. Follows(s, out, pending, zeroed, b, pending \ {b.acct}, zeroed2)
        BY <1>3 DEF Follows, Padded
    <2>3. QED
        BY <1>2, <2>1, <2>2, PaddedMore
<1>4. CASE b.acct \notin pending
    <2>1. PICK mid : mid = out \o <<pad>>
        OBVIOUS
    <2>2. Follows(s, out, pending, zeroed, pad, pending \cup {b.acct}, zeroed)
        BY DEF Follows
    <2>3. Padded(s, mid, pending \cup {b.acct}, zeroed)
        BY <2>1, <2>2, PaddedMore
    <2>4. Follows(s, mid, pending \cup {b.acct}, zeroed, b, pending \ {b.acct}, zeroed2)
        BY <2>3 DEF Follows, Padded
    <2>5. Padded(s, mid \o <<b>>, pending \ {b.acct}, zeroed2)
        BY <2>3, <2>4, PaddedMore
    <2>6. mid \o <<b>> = out \o (pads \o <<b>>)
        <3>1. IsSeq(out) /\ IsSeq(<<pad>>) /\ IsSeq(<<b>>)
            BY <1>1, Single DEF AreDirectives
        <3>2. out \o (<<pad>> \o <<b>>) = (out \o <<pad>>) \o <<b>>
            BY <3>1, CatThree
        <3>3. QED
            BY <1>4, <2>1, <3>2
    <2>7. Fills(out, mid) /\ Fills(mid, mid \o <<b>>)
        BY <2>1, FillsOne
    <2>8. Fills(out, mid \o <<b>>)
        BY <1>1, <2>7, FillsMore
    <2>9. QED
        BY <2>5, <2>6, <2>8
<1>5. QED
    BY <1>3, <1>4

----------------------------------------------------------------------------
(* FoldOnce, over the steps of the expanders *)

(* Before a close: the assertion of one currency, where there is none. *)
Settle(s, d, done, c) ==
    IF <<d.acct, c>> \in done.zeroed THEN done
    ELSE [Emit(done, PadUnlessPending(s, done, d) \o <<ZeroBalance(d, c)>>)
            EXCEPT !.pending = @ \ {d.acct}, !.zeroed = @ \cup {<<d.acct, c>>}]

(* A pad of the day before made a transaction, by the probe's balances. *)
Probe(acc, d) ==
    [probe |-> BookDirective(acc.probe, d),
     synth |-> IF Materializes(acc.probe, d)
               THEN Append(acc.synth, PadTxn(acc.probe.pad[d.acct], d,
                            RSub(d.n, acc.probe.bal[d.acct][d.comm])))
               ELSE acc.synth]

(* A price directive, taken into the database. *)
Observe(db, p) == AddPoint(db, p.base, p.quote, p.date, p.n)

(* One step of each, so that what follows is said once. *)
ExpandStep(which, s, d, acc, x) ==
    CASE which = "pad"    -> PadDirective(s, acc, x)
      [] which = "settle" -> Settle(s, d, acc, x)
      [] which = "probe"  -> Probe(acc, x)
      [] which = "price"  -> Observe(acc, x)
      [] OTHER            -> BookDirective(acc, x)

IsRun(v, which, s, d, base, seq) ==
    v = [i \in 0..Len(seq) |-> IF i = 0 THEN base ELSE ExpandStep(which, s, d, v[i - 1], seq[i])]

(* What the steps from each of accs make of x. *)
Results(which, s, d, accs, x) == {ExpandStep(which, s, d, acc, y) : acc \in accs, y \in {x}}

IsTable(run, which, s, d, base, seq) ==
    run = [i \in 0..Len(seq) |->
             IF i = 0 THEN {base}
             ELSE Results(which, s, d, run[i - 1], seq[i])]

LEMMA RunExists ==
    ASSUME NEW which, NEW s, NEW d, NEW base, NEW seq, Len(seq) \in Nat
    PROVE  \E v : IsRun(v, which, s, d, base, seq)
<1> DEFINE Fits(v, n) == v = [i \in 0..n |-> IF i = 0 THEN base
                                              ELSE ExpandStep(which, s, d, v[i - 1], seq[i])]
           K == {n \in Nat : \E v : Fits(v, n)}
<1>1. 0 \in K
    <2>1. PICK v : v = [i \in 0..0 |-> base]
        OBVIOUS
    <2>2. Fits(v, 0)
        BY <2>1
    <2> HIDE DEF Fits
    <2>3. QED
        BY <2>2
<1>2. ASSUME NEW n \in Nat, n \in K
      PROVE  n + 1 \in K
    <2>1. PICK v : Fits(v, n)
        BY <1>2
    <2>2. PICK last : last = ExpandStep(which, s, d, v[n], seq[n + 1])
        OBVIOUS
    <2>3. PICK w : w = [i \in 0..(n + 1) |-> IF i = n + 1 THEN last ELSE v[i]]
        OBVIOUS
    <2>4. ASSUME NEW i \in 0..(n + 1)
          PROVE  w[i] = IF i = 0 THEN base ELSE ExpandStep(which, s, d, w[i - 1], seq[i])
        <3>1. CASE i = n + 1
            <4>1. i - 1 = n /\ w[n] = v[n]
                BY <2>3, <3>1
            <4>2. w[i] = last
                BY <2>3, <3>1
            <4>3. QED
                BY <2>2, <3>1, <4>1, <4>2
        <3>2. CASE i \in 0..n
            <4>1. w[i] = v[i] /\ (i # 0 => w[i - 1] = v[i - 1])
                BY <2>3, <3>2
            <4>2. v[i] = IF i = 0 THEN base ELSE ExpandStep(which, s, d, v[i - 1], seq[i])
                BY <2>1, <3>2
            <4>3. QED
                BY <4>1, <4>2
        <3>3. QED
            BY <3>1, <3>2
    <2>5. w = [i \in 0..(n + 1) |-> w[i]]
        BY <2>3
    <2>6. Fits(w, n + 1)
        BY <2>4, <2>5
    <2> HIDE DEF Fits
    <2>7. QED
        BY <2>6
<1>3. \A n \in Nat : n \in K => n + 1 \in K
    BY <1>2
<1> HIDE DEF K
<1>4. Nat \subseteq K
    BY <1>1, <1>3, SetInduction
<1>5. QED
    BY <1>4 DEF K, IsRun

LEMMA RunIs ==
    ASSUME NEW which, NEW s, NEW d, NEW base, NEW seq, Len(seq) \in Nat, NEW v,
           IsRun(v, which, s, d, base, seq)
    PROVE  /\ v[0] = base
           /\ \A i \in 1..Len(seq) : v[i] = ExpandStep(which, s, d, v[i - 1], seq[i])
<1>1. PICK n \in Nat : n = Len(seq)
    OBVIOUS
<1>2. v = [i \in 0..n |-> IF i = 0 THEN base ELSE ExpandStep(which, s, d, v[i - 1], seq[i])]
    BY <1>1 DEF IsRun
<1>3. \A i \in 0..n : v[i] = IF i = 0 THEN base ELSE ExpandStep(which, s, d, v[i - 1], seq[i])
    BY <1>2
<1>4. QED
    BY <1>1, <1>3

(* There is a table, and it has the values of the run. *)
LEMMA TableExists ==
    ASSUME NEW which, NEW s, NEW d, NEW base, NEW seq, Len(seq) \in Nat
    PROVE  \E run : IsTable(run, which, s, d, base, seq)
<1>1. PICK v : IsRun(v, which, s, d, base, seq)
    BY RunExists
<1>2. PICK n \in Nat : n = Len(seq)
    OBVIOUS
<1>3. v[0] = base /\ \A i \in 1..n : v[i] = ExpandStep(which, s, d, v[i - 1], seq[i])
    <2>1. /\ v[0] = base
          /\ \A i \in 1..Len(seq) : v[i] = ExpandStep(which, s, d, v[i - 1], seq[i])
        BY ONLY Len(seq) \in Nat, <1>1, RunIs
    <2>2. QED
        BY <1>2, <2>1
<1>4. PICK run : run = [i \in 0..n |-> {v[i]}]
    OBVIOUS
<1>5. ASSUME NEW i \in 0..n
      PROVE  run[i] = IF i = 0 THEN {base}
                      ELSE Results(which, s, d, run[i - 1], seq[i])
    <2>1. CASE i = 0
        BY <1>3, <1>4, <2>1
    <2>2. CASE i # 0
        <3>1. i \in 1..n /\ i - 1 \in 0..n
            BY <2>2
        <3>2. run[i] = {v[i]} /\ run[i - 1] = {v[i - 1]}
            BY <1>4, <3>1
        <3>3. v[i] = ExpandStep(which, s, d, v[i - 1], seq[i])
            BY <1>3, <3>1
        <3>4. Results(which, s, d, {v[i - 1]}, seq[i]) = {v[i]}
            BY <3>3 DEF Results
        <3>5. QED
            BY <2>2, <3>2, <3>4
    <2>3. QED
        BY <2>1, <2>2
<1>6. run = [i \in 0..n |-> run[i]]
    BY <1>4
<1>7. QED
    BY <1>2, <1>5, <1>6 DEF IsTable

LEMMA TableIsRun ==
    ASSUME NEW which, NEW s, NEW d, NEW base, NEW seq, Len(seq) \in Nat,
           NEW run, IsTable(run, which, s, d, base, seq),
           NEW v, IsRun(v, which, s, d, base, seq)
    PROVE  run[Len(seq)] = {v[Len(seq)]}
<1>1. PICK n \in Nat : n = Len(seq)
    OBVIOUS
<1>2. v[0] = base /\ \A i \in 1..n : v[i] = ExpandStep(which, s, d, v[i - 1], seq[i])
    <2>1. /\ v[0] = base
          /\ \A i \in 1..Len(seq) : v[i] = ExpandStep(which, s, d, v[i - 1], seq[i])
        BY ONLY Len(seq) \in Nat, IsRun(v, which, s, d, base, seq), RunIs
    <2>2. QED
        BY <1>1, <2>1
<1>3. run = [i \in 0..n |->
                IF i = 0 THEN {base}
                ELSE Results(which, s, d, run[i - 1], seq[i])]
    BY <1>1 DEF IsTable
<1>4. \A i \in 0..n : run[i] = IF i = 0 THEN {base}
          ELSE Results(which, s, d, run[i - 1], seq[i])
    BY <1>3
<1> DEFINE K == {i \in Nat : i <= n => run[i] = {v[i]}}
<1>5. 0 \in K
    BY <1>2, <1>4
<1>6. ASSUME NEW i \in Nat, i \in K, i + 1 <= n
      PROVE  run[i + 1] = {v[i + 1]}
    <2>1. PICK k \in 1..n : k = i + 1 /\ k - 1 = i
        BY <1>6
    <2>2. run[i] = {v[i]}
        BY <1>6
    <2>3. run[k] = Results(which, s, d, run[k - 1], seq[k])
        BY <1>4
    <2>4. v[k] = ExpandStep(which, s, d, v[k - 1], seq[k])
        BY <1>2
    <2>5. Results(which, s, d, {v[i]}, seq[k]) = {ExpandStep(which, s, d, v[i], seq[k])}
        BY DEF Results
    <2>6. QED
        BY <2>1, <2>2, <2>3, <2>4, <2>5
<1>7. \A i \in Nat : i \in K => i + 1 \in K
    BY <1>6
<1> HIDE DEF K
<1>8. Nat \subseteq K
    BY <1>5, <1>7, SetInduction
<1>9. QED
    BY <1>1, <1>8 DEF K

PadResults(s, accs, x) == {PadDirective(s, acc, y) : acc \in accs, y \in {x}}

PadTable(s, base, seq) ==
    CHOOSE run : run = [i \in 0..Len(seq) |->
                           IF i = 0 THEN {base} ELSE PadResults(s, run[i - 1], seq[i])]

LEMMA PadTableIs ==
    ASSUME NEW s, NEW base, NEW seq, Len(seq) \in Nat,
           NEW v, IsRun(v, "pad", s, s, base, seq)
    PROVE  PadTable(s, base, seq)[Len(seq)] = {v[Len(seq)]}
<1> DEFINE Is(run) == run = [i \in 0..Len(seq) |->
                           IF i = 0 THEN {base} ELSE PadResults(s, run[i - 1], seq[i])]
<1>1. \A accs, x : Results("pad", s, s, accs, x) = PadResults(s, accs, x)
    BY DEF Results, PadResults, ExpandStep
<1>2. \A run : IsTable(run, "pad", s, s, base, seq) <=> Is(run)
    BY <1>1 DEF IsTable
<1>3. PICK run : Is(run)
    BY <1>2, TableExists
<1>4. PICK table : table = PadTable(s, base, seq)
    OBVIOUS
<1>5. Is(table)
    BY <1>3, <1>4 DEF PadTable
<1> HIDE DEF Is
<1>6. IsTable(table, "pad", s, s, base, seq)
    BY <1>2, <1>5
<1>7. table[Len(seq)] = {v[Len(seq)]}
    BY ONLY Len(seq) \in Nat, IsRun(v, "pad", s, s, base, seq), <1>6, TableIsRun
<1>8. QED
    BY <1>4, <1>7

SettleResults(s, d, accs, x) == {Settle(s, d, acc, y) : acc \in accs, y \in {x}}

SettleTable(s, d, base, seq) ==
    CHOOSE run : run = [i \in 0..Len(seq) |->
                           IF i = 0 THEN {base} ELSE SettleResults(s, d, run[i - 1], seq[i])]

LEMMA SettleTableIs ==
    ASSUME NEW s, NEW d, NEW base, NEW seq, Len(seq) \in Nat,
           NEW v, IsRun(v, "settle", s, d, base, seq)
    PROVE  SettleTable(s, d, base, seq)[Len(seq)] = {v[Len(seq)]}
<1> DEFINE Is(run) == run = [i \in 0..Len(seq) |->
                           IF i = 0 THEN {base} ELSE SettleResults(s, d, run[i - 1], seq[i])]
<1>1. \A accs, x : Results("settle", s, d, accs, x) = SettleResults(s, d, accs, x)
    BY DEF Results, SettleResults, ExpandStep
<1>2. \A run : IsTable(run, "settle", s, d, base, seq) <=> Is(run)
    BY <1>1 DEF IsTable
<1>3. PICK run : Is(run)
    BY <1>2, TableExists
<1>4. PICK table : table = SettleTable(s, d, base, seq)
    OBVIOUS
<1>5. Is(table)
    BY <1>3, <1>4 DEF SettleTable
<1> HIDE DEF Is
<1>6. IsTable(table, "settle", s, d, base, seq)
    BY <1>2, <1>5
<1>7. table[Len(seq)] = {v[Len(seq)]}
    BY ONLY Len(seq) \in Nat, IsRun(v, "settle", s, d, base, seq), <1>6, TableIsRun
<1>8. QED
    BY <1>4, <1>7

ProbeResults(accs, x) == {Probe(acc, y) : acc \in accs, y \in {x}}

ProbeTable(base, seq) ==
    CHOOSE run : run = [i \in 0..Len(seq) |->
                           IF i = 0 THEN {base} ELSE ProbeResults(run[i - 1], seq[i])]

LEMMA ProbeTableIs ==
    ASSUME NEW s, NEW d, NEW base, NEW seq, Len(seq) \in Nat,
           NEW v, IsRun(v, "probe", s, d, base, seq)
    PROVE  ProbeTable(base, seq)[Len(seq)] = {v[Len(seq)]}
<1> DEFINE Is(run) == run = [i \in 0..Len(seq) |->
                           IF i = 0 THEN {base} ELSE ProbeResults(run[i - 1], seq[i])]
<1>1. \A accs, x : Results("probe", s, d, accs, x) = ProbeResults(accs, x)
    BY DEF Results, ProbeResults, ExpandStep
<1>2. \A run : IsTable(run, "probe", s, d, base, seq) <=> Is(run)
    BY <1>1 DEF IsTable
<1>3. PICK run : Is(run)
    BY <1>2, TableExists
<1>4. PICK table : table = ProbeTable(base, seq)
    OBVIOUS
<1>5. Is(table)
    BY <1>3, <1>4 DEF ProbeTable
<1> HIDE DEF Is
<1>6. IsTable(table, "probe", s, d, base, seq)
    BY <1>2, <1>5
<1>7. table[Len(seq)] = {v[Len(seq)]}
    BY ONLY Len(seq) \in Nat, IsRun(v, "probe", s, d, base, seq), <1>6, TableIsRun
<1>8. QED
    BY <1>4, <1>7

BookResults(accs, x) == {BookDirective(acc, y) : acc \in accs, y \in {x}}

BookTable(base, seq) ==
    CHOOSE run : run = [i \in 0..Len(seq) |->
                           IF i = 0 THEN {base} ELSE BookResults(run[i - 1], seq[i])]

LEMMA BookTableIs ==
    ASSUME NEW s, NEW d, NEW base, NEW seq, Len(seq) \in Nat,
           NEW v, IsRun(v, "book", s, d, base, seq)
    PROVE  BookTable(base, seq)[Len(seq)] = {v[Len(seq)]}
<1> DEFINE Is(run) == run = [i \in 0..Len(seq) |->
                           IF i = 0 THEN {base} ELSE BookResults(run[i - 1], seq[i])]
<1>1. \A accs, x : Results("book", s, d, accs, x) = BookResults(accs, x)
    BY DEF Results, BookResults, ExpandStep
<1>2. \A run : IsTable(run, "book", s, d, base, seq) <=> Is(run)
    BY <1>1 DEF IsTable
<1>3. PICK run : Is(run)
    BY <1>2, TableExists
<1>4. PICK table : table = BookTable(base, seq)
    OBVIOUS
<1>5. Is(table)
    BY <1>3, <1>4 DEF BookTable
<1> HIDE DEF Is
<1>6. IsTable(table, "book", s, d, base, seq)
    BY <1>2, <1>5
<1>7. table[Len(seq)] = {v[Len(seq)]}
    BY ONLY Len(seq) \in Nat, IsRun(v, "book", s, d, base, seq), <1>6, TableIsRun
<1>8. QED
    BY <1>4, <1>7

ObserveResults(accs, x) == {Observe(acc, y) : acc \in accs, y \in {x}}

ObserveTable(base, seq) ==
    CHOOSE run : run = [i \in 0..Len(seq) |->
                           IF i = 0 THEN {base} ELSE ObserveResults(run[i - 1], seq[i])]

LEMMA ObserveTableIs ==
    ASSUME NEW s, NEW d, NEW base, NEW seq, Len(seq) \in Nat,
           NEW v, IsRun(v, "price", s, d, base, seq)
    PROVE  ObserveTable(base, seq)[Len(seq)] = {v[Len(seq)]}
<1> DEFINE Is(run) == run = [i \in 0..Len(seq) |->
                           IF i = 0 THEN {base} ELSE ObserveResults(run[i - 1], seq[i])]
<1>1. \A accs, x : Results("price", s, d, accs, x) = ObserveResults(accs, x)
    BY DEF Results, ObserveResults, ExpandStep
<1>2. \A run : IsTable(run, "price", s, d, base, seq) <=> Is(run)
    BY <1>1 DEF IsTable
<1>3. PICK run : Is(run)
    BY <1>2, TableExists
<1>4. PICK table : table = ObserveTable(base, seq)
    OBVIOUS
<1>5. Is(table)
    BY <1>3, <1>4 DEF ObserveTable
<1> HIDE DEF Is
<1>6. IsTable(table, "price", s, d, base, seq)
    BY <1>2, <1>5
<1>7. table[Len(seq)] = {v[Len(seq)]}
    BY ONLY Len(seq) \in Nat, IsRun(v, "price", s, d, base, seq), <1>6, TableIsRun
<1>8. QED
    BY <1>4, <1>7

(* The expanders in these terms. *)
Start(s) == [out |-> << >>, pending |-> {}, zeroed |-> Zeroed(s)]

LEMMA ExpandedBy ==
    ASSUME NEW s
    PROVE  ExpandAutoInterest(s) =
             (CHOOSE last \in UNION {PadTable(s, Start(s), seq)[Len(seq)] :
                                        seq \in {IncomeOpens(s) \o s}} : TRUE).out
BY DEF ExpandAutoInterest, FoldOnce, PadTable, PadResults, Start, Zeroed

LEMMA SettledBy ==
    ASSUME NEW s, NEW acc, NEW d
    PROVE  PadClose(s, acc, d) =
             Emit(CHOOSE last \in UNION {SettleTable(s, d, acc, seq)[Len(seq)] :
                                        seq \in {InterestOpen(s, d.acct).ccys}} : TRUE, <<d>>)
BY DEF PadClose, FoldOnce, SettleTable, SettleResults, Settle

LEMMA BookedBy ==
    ASSUME NEW s, NEW e
    PROVE  Book(e, s) =
             CHOOSE last \in UNION {BookTable(e, seq)[Len(seq)] : seq \in {SortedDirectives(s)}} : TRUE
BY DEF Book, FoldOnce, BookTable, BookResults

LEMMA LoadedBy ==
    ASSUME NEW points
    PROVE  LoadPrices(points) =
             CHOOSE last \in UNION {ObserveTable(NewDB, seq)[Len(seq)] : seq \in {points}} : TRUE
BY DEF LoadPrices, FoldOnce, ObserveTable, ObserveResults, Observe

LEMMA CostedBy ==
    ASSUME NEW db, NEW s
    PROVE  AddDatedCosts(db, s) =
             CHOOSE last \in UNION {ObserveTable(db, seq)[Len(seq)] : seq \in {NewPrices(s)}} : TRUE
BY DEF AddDatedCosts, FoldOnce, ObserveTable, ObserveResults, Observe

LEMMA ProbedBy ==
    ASSUME NEW s, NEW tolerance
    PROVE  PadTxns(s, tolerance) =
             (CHOOSE last \in UNION {ProbeTable([probe |-> New(tolerance), synth |-> << >>], seq)[Len(seq)] :
                                        seq \in {SortedDirectives(s)}} : TRUE).synth
BY DEF PadTxns, FoldOnce, ProbeTable, ProbeResults, Probe

----------------------------------------------------------------------------
(* What a step of ExpandAutoInterest does *)

State(out, pending, zeroed) == [out |-> out, pending |-> pending, zeroed |-> zeroed]

IsPadded(s, acc) ==
    /\ acc = State(acc.out, acc.pending, acc.zeroed)
    /\ Padded(s, acc.out, acc.pending, acc.zeroed)

LEMMA StateIs ==
    ASSUME NEW out, NEW pending, NEW zeroed, NEW acc, acc = State(out, pending, zeroed)
    PROVE  /\ acc.out = out /\ acc.pending = pending /\ acc.zeroed = zeroed
           /\ acc = State(acc.out, acc.pending, acc.zeroed)
           /\ \A ds : Emit(acc, ds) = State(out \o ds, pending, zeroed)
<1>1. acc.out = out /\ acc.pending = pending /\ acc.zeroed = zeroed
    BY DEF State
<1>2. ASSUME NEW ds
      PROVE  Emit(acc, ds) = State(out \o ds, pending, zeroed)
    <2>1. PICK more : more = out \o ds
        OBVIOUS
    <2>2. Emit(acc, ds) = [acc EXCEPT !.out = more]
        BY <1>1, <2>1 DEF Emit
    <2>3. [acc EXCEPT !.out = more] = State(more, pending, zeroed)
        BY DEF State
    <2>4. QED
        BY <2>1, <2>2, <2>3
<1>3. QED
    BY <1>1, <1>2

LEMMA PadBalanceIs ==
    ASSUME NEW s, NEW out, NEW pending, NEW zeroed, NEW acc, acc = State(out, pending, zeroed), NEW d
    PROVE  PadBalance(s, acc, d) =
             State(out \o (PadUnlessPending(s, acc, d) \o <<d>>), pending \ {d.acct}, zeroed)
<1>1. Emit(acc, PadUnlessPending(s, acc, d) \o <<d>>)
        = State(out \o (PadUnlessPending(s, acc, d) \o <<d>>), pending, zeroed)
    BY StateIs
<1>2. PICK e : e = Emit(acc, PadUnlessPending(s, acc, d) \o <<d>>)
    OBVIOUS
<1>3. PadBalance(s, acc, d) = [e EXCEPT !.pending = @ \ {d.acct}]
    BY <1>2 DEF PadBalance
<1>4. PICK more : more = out \o (PadUnlessPending(s, acc, d) \o <<d>>)
    OBVIOUS
<1>5. PICK a : a = d.acct
    OBVIOUS
<1>6. e = State(more, pending, zeroed)
    BY <1>1, <1>2, <1>4
<1>7. [e EXCEPT !.pending = @ \ {a}] = State(more, pending \ {a}, zeroed)
    BY <1>6 DEF State
<1>8. QED
    BY <1>3, <1>4, <1>5, <1>7

LEMMA SettleIs ==
    ASSUME NEW s, NEW out, NEW pending, NEW zeroed, NEW acc, acc = State(out, pending, zeroed),
           NEW d, NEW c
    PROVE  Settle(s, d, acc, c) =
             IF <<d.acct, c>> \in zeroed THEN acc
             ELSE State(out \o (PadUnlessPending(s, acc, d) \o <<ZeroBalance(d, c)>>),
                        pending \ {d.acct}, zeroed \cup {<<d.acct, c>>})
<1>1. Emit(acc, PadUnlessPending(s, acc, d) \o <<ZeroBalance(d, c)>>)
        = State(out \o (PadUnlessPending(s, acc, d) \o <<ZeroBalance(d, c)>>), pending, zeroed)
    BY StateIs
<1>2. PICK e : e = Emit(acc, PadUnlessPending(s, acc, d) \o <<ZeroBalance(d, c)>>)
    OBVIOUS
<1>3. PICK z : z = <<d.acct, c>>
    OBVIOUS
<1>4. Settle(s, d, acc, c)
        = IF z \in acc.zeroed THEN acc
          ELSE [e EXCEPT !.pending = @ \ {d.acct}, !.zeroed = @ \cup {z}]
    BY <1>2, <1>3 DEF Settle
<1>5. acc.zeroed = zeroed
    BY StateIs
<1>6. [e EXCEPT !.pending = @ \ {d.acct}, !.zeroed = @ \cup {z}]
        = State(out \o (PadUnlessPending(s, acc, d) \o <<ZeroBalance(d, c)>>),
                pending \ {d.acct}, zeroed \cup {z})
    <2>1. PICK more : more = out \o (PadUnlessPending(s, acc, d) \o <<ZeroBalance(d, c)>>)
        OBVIOUS
    <2>2. PICK a : a = d.acct
        OBVIOUS
    <2>3. e = State(more, pending, zeroed)
        BY <1>1, <1>2, <2>1
    <2>4. PICK p, y : p = pending \ {a} /\ y = zeroed \cup {z}
        OBVIOUS
    <2>5. e.pending = pending /\ e.zeroed = zeroed
        BY <2>3, StateIs
    <2>6. [e EXCEPT !.pending = p, !.zeroed = y] = State(more, p, y)
        <3>1. PICK f : f = [e EXCEPT !.pending = p]
            OBVIOUS
        <3>2. f = State(more, p, zeroed)
            BY <2>3, <3>1 DEF State
        <3>3. [f EXCEPT !.zeroed = y] = State(more, p, y)
            BY <3>2 DEF State
        <3>4. [e EXCEPT !.pending = p, !.zeroed = y] = [f EXCEPT !.zeroed = y]
            BY <3>1
        <3>5. QED
            BY <3>3, <3>4
    <2>7. QED
        BY <2>1, <2>2, <2>4, <2>5, <2>6
<1>7. QED
    BY <1>3, <1>4, <1>5, <1>6

(* The open of an interest account is one of the stream. *)
LEMMA TheOpen ==
    ASSUME NEW s, AreDirectives(s), NEW a \in InterestAccounts(s)
    PROVE  LET o == InterestOpen(s, a) IN IsParsed(o) /\ o.kind = "open" /\ o.acct = a
<1>1. PICK j : IsLast(s, a, j)
    BY LastOpen DEF AreDirectives
<1>2. InterestOpen(s, a) = s[j] /\ j \in DOMAIN s /\ s[j].kind = "open" /\ s[j].acct = a
    BY <1>1, LastOpenIs DEF IsLast, InterestOpens, OfKind, AreDirectives
<1>3. IsParsed(s[j])
    BY <1>2 DEF AreDirectives, ToSet
<1>4. QED
    BY <1>2, <1>3

LEMMA Later ==
    ASSUME NEW x \in Int, NEW y \in Int
    PROVE  Max({x, y}) \in Int /\ Max({x, y}) >= y
<1>1. \E m \in {x, y} : \A z \in {x, y} : m >= z
    <2>1. CASE x >= y
        BY <2>1
    <2>2. CASE y >= x
        BY <2>2
    <2>3. QED
        BY <2>1, <2>2
<1>2. Max({x, y}) \in {x, y} /\ Max({x, y}) >= y
    BY <1>1 DEF Max
<1>3. QED
    BY <1>2

LEMMA ThePad ==
    ASSUME NEW s, AreDirectives(s), NEW d, IsParsed(d), d.kind \in {"balance", "close"},
           d.acct \in InterestAccounts(s)
    PROVE  /\ IsParsed(AutoInterestPad(s, d)) /\ AutoInterestPad(s, d).kind = "pad"
           /\ AutoInterestPad(s, d).acct = d.acct
<1>1. d.date \in Int /\ d.line \in Nat /\ d.acct \in Accounts
    BY ParsedIs
<1>2. PICK o : o = InterestOpen(s, d.acct)
    OBVIOUS
<1>3. o.date \in Int /\ o.date \in Dates
    BY <1>2, TheOpen, ParsedIs
<1>4. PICK day : day = Max({d.date - 1, o.date})
    OBVIOUS
<1>5. day \in Dates
    <2>1. day \in Int /\ day >= o.date
        BY <1>1, <1>3, <1>4, Later
    <2>2. QED
        BY <1>3, <2>1 DEF Dates, NoDate
<1>6. PICK from \in Accounts : from = Income[d.acct]
    BY <1>1, IncomeAssumption
<1>7. AutoInterestPad(s, d)
        = [kind |-> "pad", date |-> day, line |-> d.line, acct |-> d.acct, from |-> from]
    BY <1>2, <1>4, <1>6 DEF AutoInterestPad
<1>8. QED
    BY <1>1, <1>5, <1>6, <1>7 DEF IsParsed, IsDirective

LEMMA TheZero ==
    ASSUME NEW d, d.date \in Dates, d.line \in Nat, d.acct \in Accounts, NEW c \in Commodities
    PROVE  /\ IsParsed(ZeroBalance(d, c)) /\ ZeroBalance(d, c).kind = "balance"
           /\ ZeroBalance(d, c).acct = d.acct /\ ZeroBalance(d, c).comm = c
           /\ ZeroBalance(d, c).n = Zero
BY ZeroNum DEF ZeroBalance, IsParsed, IsDirective

LEMMA BalanceStep ==
    ASSUME NEW s, AreDirectives(s), NEW acc, IsPadded(s, acc),
           NEW d, IsParsed(d), d.kind = "balance", d.acct \in InterestAccounts(s)
    PROVE  /\ IsPadded(s, PadBalance(s, acc, d))
           /\ \E mid : Fills(acc.out, mid) /\ PadBalance(s, acc, d).out = mid \o <<d>>
<1>1. PICK out, pending, zeroed : out = acc.out /\ pending = acc.pending /\ zeroed = acc.zeroed
    OBVIOUS
<1>2. acc = State(out, pending, zeroed) /\ Padded(s, out, pending, zeroed)
    BY <1>1 DEF IsPadded
<1>3. PICK pad : pad = AutoInterestPad(s, d)
    OBVIOUS
<1>4. IsParsed(pad) /\ pad.kind = "pad" /\ pad.acct = d.acct
    BY <1>3, ThePad
<1>5. PICK pads : pads = PadUnlessPending(s, acc, d)
    OBVIOUS
<1>6. pads = IF d.acct \in pending THEN << >> ELSE <<pad>>
    BY <1>1, <1>3, <1>5 DEF PadUnlessPending
<1>7. Padded(s, out \o (pads \o <<d>>), pending \ {d.acct}, zeroed)
    BY <1>2, <1>4, <1>6, PaddedBalance
<1>8. PICK next : next = PadBalance(s, acc, d)
    OBVIOUS
<1>9. next = State(out \o (pads \o <<d>>), pending \ {d.acct}, zeroed)
    BY <1>2, <1>5, <1>8, PadBalanceIs
<1>10. /\ next.out = out \o (pads \o <<d>>) /\ next.pending = pending \ {d.acct}
       /\ next.zeroed = zeroed /\ next = State(next.out, next.pending, next.zeroed)
    <2>1. PICK more, p : more = out \o (pads \o <<d>>) /\ p = pending \ {d.acct}
        OBVIOUS
    <2>2. next = State(more, p, zeroed)
        BY <1>9, <2>1
    <2>3. /\ next.out = more /\ next.pending = p /\ next.zeroed = zeroed
          /\ next = State(next.out, next.pending, next.zeroed)
        BY <2>2, StateIs
    <2>4. QED
        BY <2>1, <2>3
<1>11. IsPadded(s, next)
    BY <1>7, <1>10 DEF IsPadded
<1>12. Fills(out, out \o pads) /\ out \o (pads \o <<d>>) = (out \o pads) \o <<d>>
    <2>1. AreDirectives(out) /\ IsSeq(out) /\ IsSeq(<<d>>)
        BY <1>2, Single DEF Padded, AreDirectives
    <2>2. CASE d.acct \in pending
        <3>1. pads = << >> /\ out \o pads = out /\ pads \o <<d>> = <<d>>
            BY <1>6, <2>1, <2>2, CatNone
        <3>2. QED
            BY <2>1, <3>1, FillsNothing
    <2>3. CASE d.acct \notin pending
        <3>1. pads = <<pad>> /\ IsSeq(pads)
            BY <1>6, <2>3, Single
        <3>2. Fills(out, out \o pads)
            BY <1>4, <3>1, FillsOne
        <3>3. QED
            BY <2>1, <3>1, <3>2, CatThree
    <2>4. QED
        BY <2>2, <2>3
<1>13. QED
    BY <1>1, <1>8, <1>10, <1>11, <1>12

LEMMA SettleStep ==
    ASSUME NEW s, AreDirectives(s), NEW acc, IsPadded(s, acc),
           NEW d, IsParsed(d), d.kind = "close", d.acct \in InterestAccounts(s), NEW c \in Commodities
    PROVE  LET next == Settle(s, d, acc, c) IN
           /\ IsPadded(s, next) /\ Fills(acc.out, next.out)
           /\ acc.zeroed \subseteq next.zeroed /\ <<d.acct, c>> \in next.zeroed
<1>1. PICK out, pending, zeroed : out = acc.out /\ pending = acc.pending /\ zeroed = acc.zeroed
    OBVIOUS
<1>2. acc = State(out, pending, zeroed) /\ Padded(s, out, pending, zeroed)
    BY <1>1 DEF IsPadded
<1>3. PICK next : next = Settle(s, d, acc, c)
    OBVIOUS
<1>4. PICK z : z = <<d.acct, c>>
    OBVIOUS
<1>5. CASE z \in zeroed
    <2>1. next = acc
        BY <1>1, <1>3, <1>4, <1>5 DEF Settle
    <2>2. Fills(out, out)
        BY <1>2, FillsNothing DEF Padded
    <2>3. QED
        BY <1>1, <1>3, <1>4, <1>5, <2>1, <2>2
<1>6. CASE z \notin zeroed
    <2>1. PICK pad : pad = AutoInterestPad(s, d)
        OBVIOUS
    <2>2. IsParsed(pad) /\ pad.kind = "pad" /\ pad.acct = d.acct
        BY <2>1, ThePad
    <2>3. PICK b : b = ZeroBalance(d, c)
        OBVIOUS
    <2>4. /\ IsParsed(b) /\ b.kind = "balance" /\ b.acct = d.acct
          /\ b.comm = c /\ b.n = Zero
        BY <2>3, ParsedIs, TheZero
    <2>5. PICK pads : pads = PadUnlessPending(s, acc, d)
        OBVIOUS
    <2>6. pads = IF b.acct \in pending THEN << >> ELSE <<pad>>
        BY <1>1, <2>1, <2>4, <2>5 DEF PadUnlessPending
    <2>7. PICK zeroed2 : zeroed2 = zeroed \cup {z}
        OBVIOUS
    <2>8. /\ zeroed \subseteq zeroed2 /\ z \in zeroed2
          /\ \A y \in zeroed2 : y \in zeroed \/ (b.n = Zero /\ y = <<b.acct, b.comm>>)
        BY <1>4, <2>4, <2>7
    <2>9. b.acct \in InterestAccounts(s) /\ pad.acct = b.acct
        BY <2>2, <2>4
    <2>10. /\ Padded(s, out \o (pads \o <<b>>), pending \ {b.acct}, zeroed2)
           /\ Fills(out, out \o (pads \o <<b>>))
        BY <1>2, <2>2, <2>4, <2>6, <2>8, <2>9, PaddedBalance
    <2>11. next = State(out \o (pads \o <<b>>), pending \ {b.acct}, zeroed2)
        BY <1>2, <1>3, <1>4, <1>6, <2>3, <2>4, <2>5, <2>7, SettleIs
    <2>12. /\ next.out = out \o (pads \o <<b>>) /\ next.pending = pending \ {b.acct}
           /\ next.zeroed = zeroed2 /\ next = State(next.out, next.pending, next.zeroed)
        <3>1. PICK more, p : more = out \o (pads \o <<b>>) /\ p = pending \ {b.acct}
            OBVIOUS
        <3>2. next = State(more, p, zeroed2)
            BY <2>11, <3>1
        <3>3. /\ next.out = more /\ next.pending = p /\ next.zeroed = zeroed2
              /\ next = State(next.out, next.pending, next.zeroed)
            BY <3>2, StateIs
        <3>4. QED
            BY <3>1, <3>3
    <2>13. IsPadded(s, next)
        BY <2>10, <2>12 DEF IsPadded
    <2>14. QED
        BY <1>1, <1>3, <1>4, <2>8, <2>10, <2>12, <2>13
<1>7. QED
    BY <1>4, <1>5, <1>6

(* The currencies on the open of an interest account are a list. *)
LEMMA Currencies ==
    ASSUME NEW s, AreDirectives(s), NEW a \in InterestAccounts(s)
    PROVE  /\ IsSeq(InterestOpen(s, a).ccys)
           /\ \A c \in ToSet(InterestOpen(s, a).ccys) : c \in Commodities
<1>1. IsSeq(s)
    BY DEF AreDirectives
<1>2. PICK j : IsLast(s, a, j)
    BY <1>1, LastOpen
<1>3. InterestOpen(s, a) = s[j] /\ j \in DOMAIN s /\ s[j].kind = "open"
    BY <1>1, <1>2, LastOpenIs DEF IsLast, InterestOpens, OfKind
<1>4. s[j] \in ToSet(s)
    BY <1>3 DEF ToSet
<1>5. s[j].ccys \in Seq(Commodities)
    BY <1>3, <1>4 DEF AreDirectives, IsParsed
<1>6. \A c \in ToSet(s[j].ccys) : c \in Commodities
    BY <1>5, LenProperties, ElementOfSeq DEF ToSet
<1>7. QED
    BY <1>3, <1>5, <1>6, IsSeqOf

LEMMA TheOnly ==
    ASSUME NEW x
    PROVE  (CHOOSE y \in {x} : TRUE) = x
OBVIOUS

(* What PadClose is, by a run over the currencies. *)
LEMMA PadCloseIs ==
    ASSUME NEW s, NEW d, NEW acc, NEW seq, seq = InterestOpen(s, d.acct).ccys, Len(seq) \in Nat,
           NEW v, IsRun(v, "settle", s, d, acc, seq)
    PROVE  PadClose(s, acc, d) = Emit(v[Len(seq)], <<d>>)
<1>1. SettleTable(s, d, acc, seq)[Len(seq)] = {v[Len(seq)]}
    BY SettleTableIs
<1>2. UNION {SettleTable(s, d, acc, q)[Len(q)] : q \in {seq}} = {v[Len(seq)]}
    BY <1>1
<1>3. UNION {SettleTable(s, d, acc, q)[Len(q)] : q \in {InterestOpen(s, d.acct).ccys}} = {v[Len(seq)]}
    BY <1>2
<1>4. PadClose(s, acc, d) = Emit(CHOOSE last \in {v[Len(seq)]} : TRUE, <<d>>)
    BY <1>3, SettledBy, Zenon
<1>5. QED
    BY <1>4, TheOnly

LEMMA SettledAll ==
    ASSUME NEW s, AreDirectives(s), NEW acc, IsPadded(s, acc),
           NEW d, IsParsed(d), d.kind = "close", d.acct \in InterestAccounts(s)
    PROVE  \E next : /\ IsPadded(s, next) /\ Fills(acc.out, next.out)
                     /\ \A c \in ToSet(InterestOpen(s, d.acct).ccys) : <<d.acct, c>> \in next.zeroed
                     /\ PadClose(s, acc, d) = Emit(next, <<d>>)
<1>1. PICK seq : seq = InterestOpen(s, d.acct).ccys
    OBVIOUS
<1>2. IsSeq(seq) /\ \A c \in ToSet(seq) : c \in Commodities
    BY <1>1, Currencies
<1>3. PICK n \in Nat : n = Len(seq) /\ DOMAIN seq = 1..n
    BY <1>2, SeqFacts
<1>4. PICK v : IsRun(v, "settle", s, d, acc, seq)
    BY <1>3, RunExists
<1>5. v[0] = acc /\ \A i \in 1..n : v[i] = Settle(s, d, v[i - 1], seq[i])
    <2>1. /\ v[0] = acc
          /\ \A i \in 1..Len(seq) : v[i] = ExpandStep("settle", s, d, v[i - 1], seq[i])
        <3>1. Len(seq) \in Nat
            BY <1>3
        <3>2. QED
            BY ONLY <3>1, <1>4, RunIs
    <2>2. QED
        BY <1>3, <2>1 DEF ExpandStep
<1> DEFINE K == {i \in Nat : i <= n => /\ IsPadded(s, v[i]) /\ Fills(acc.out, v[i].out)
                                      /\ \A j \in 1..i : <<d.acct, seq[j]>> \in v[i].zeroed}
<1>6. 0 \in K
    <2>1. Fills(acc.out, acc.out)
        BY FillsNothing DEF IsPadded, Padded
    <2>2. QED
        BY <1>5, <2>1
<1>7. ASSUME NEW i \in Nat, i \in K, i + 1 <= n
      PROVE  /\ IsPadded(s, v[i + 1]) /\ Fills(acc.out, v[i + 1].out)
             /\ \A j \in 1..(i + 1) : <<d.acct, seq[j]>> \in v[i + 1].zeroed
    <2>1. PICK k \in 1..n : k = i + 1 /\ k - 1 = i
        BY <1>7
    <2>2. PICK last, next : last = v[i] /\ next = v[k]
        OBVIOUS
    <2>3. /\ IsPadded(s, last) /\ Fills(acc.out, last.out)
          /\ \A j \in 1..i : <<d.acct, seq[j]>> \in last.zeroed
        BY <1>7, <2>2
    <2>4. next = Settle(s, d, last, seq[k])
        BY <1>5, <2>1, <2>2
    <2>5. /\ IsPadded(s, next) /\ Fills(last.out, next.out)
          /\ last.zeroed \subseteq next.zeroed /\ <<d.acct, seq[k]>> \in next.zeroed
        <3>1. seq[k] \in Commodities
            BY <1>2, <1>3 DEF ToSet
        <3>2. QED
            BY <2>3, <2>4, <3>1, SettleStep
    <2>6. Fills(acc.out, next.out)
        BY <2>3, <2>5, FillsMore DEF IsPadded, Padded
    <2>7. ASSUME NEW j \in 1..k
          PROVE  <<d.acct, seq[j]>> \in next.zeroed
        <3>1. j = k \/ j \in 1..i
            BY <2>1
        <3>2. QED
            BY <2>3, <2>5, <3>1
    <2>8. QED
        BY <2>1, <2>2, <2>5, <2>6, <2>7
<1>8. ASSUME NEW i \in Nat, i \in K
      PROVE  i + 1 \in K
    <2>1. i + 1 \in Nat
        OBVIOUS
    <2>2. CASE i + 1 <= n
        BY <1>7, <1>8, <2>1, <2>2
    <2>3. CASE ~ (i + 1 <= n)
        BY <2>1, <2>3
    <2>4. QED
        BY <2>2, <2>3
<1> HIDE DEF K
<1>9. Nat \subseteq K
    BY <1>6, <1>8, SetInduction
<1>10. /\ IsPadded(s, v[n]) /\ Fills(acc.out, v[n].out)
       /\ \A j \in 1..n : <<d.acct, seq[j]>> \in v[n].zeroed
    BY <1>9 DEF K
<1>11. PadClose(s, acc, d) = Emit(v[n], <<d>>)
    BY <1>1, <1>3, <1>4, PadCloseIs
<1>12. \A c \in ToSet(seq) : \E j \in 1..n : c = seq[j]
    BY <1>3 DEF ToSet
<1>13. QED
    BY <1>1, <1>10, <1>11, <1>12

(* One directive after padding: the step of one that is only passed on. *)
LEMMA PassedOn ==
    ASSUME NEW s, NEW acc, IsPadded(s, acc), NEW d, NEW pending,
           Follows(s, acc.out, acc.pending, acc.zeroed, d, pending, acc.zeroed)
    PROVE  IsPadded(s, State(acc.out \o <<d>>, pending, acc.zeroed))
<1>1. Padded(s, acc.out \o <<d>>, pending, acc.zeroed)
    BY PaddedMore DEF IsPadded
<1>2. PICK out, zeroed : out = acc.out \o <<d>> /\ zeroed = acc.zeroed
    OBVIOUS
<1>3. PICK next : next = State(out, pending, zeroed)
    OBVIOUS
<1>4. /\ next.out = out /\ next.pending = pending /\ next.zeroed = zeroed
      /\ next = State(next.out, next.pending, next.zeroed)
    BY <1>3, StateIs
<1>5. IsPadded(s, next)
    BY <1>1, <1>2, <1>4 DEF IsPadded
<1>6. QED
    BY <1>2, <1>3, <1>5

LEMMA PaddedStep ==
    ASSUME NEW s, AreDirectives(s), NEW acc, IsPadded(s, acc), NEW d, IsParsed(d)
    PROVE  /\ IsPadded(s, PadDirective(s, acc, d))
           /\ \E mid : Fills(acc.out, mid) /\ PadDirective(s, acc, d).out = mid \o <<d>>
<1>1. PICK next : next = PadDirective(s, acc, d)
    OBVIOUS
<1>2. acc = State(acc.out, acc.pending, acc.zeroed) /\ AreDirectives(acc.out)
    BY DEF IsPadded, Padded
<1>3. Fills(acc.out, acc.out)
    BY <1>2, FillsNothing
<1>4. PICK out, pending, zeroed : out = acc.out \o <<d>> /\ pending = acc.pending /\ zeroed = acc.zeroed
    OBVIOUS
<1>5. PICK e : e = Emit(acc, <<d>>)
    OBVIOUS
<1>6. e = State(out, pending, zeroed)
    BY <1>2, <1>4, <1>5, StateIs
<1>7. CASE d.kind = "pad"
    <2>1. PICK more : more = pending \cup {d.acct}
        OBVIOUS
    <2>2. next = [e EXCEPT !.pending = @ \cup {d.acct}]
        BY <1>1, <1>5, <1>7 DEF PadDirective
    <2>3. e.pending = pending
        BY <1>6, StateIs
    <2>4. [e EXCEPT !.pending = more] = State(out, more, zeroed)
        BY <1>6 DEF State
    <2>5. next = State(out, more, zeroed)
        BY <2>1, <2>2, <2>3, <2>4
    <2>6. Follows(s, acc.out, acc.pending, acc.zeroed, d, more, acc.zeroed)
        BY <1>4, <1>7, <2>1 DEF Follows
    <2>7. IsPadded(s, next)
        BY <1>4, <2>5, <2>6, PassedOn
    <2>8. next.out = out
        BY <2>5, StateIs
    <2>9. QED
        BY <1>1, <1>3, <1>4, <2>7, <2>8
<1>8. CASE d.kind = "balance" /\ d.acct \in InterestAccounts(s)
    <2>1. next = PadBalance(s, acc, d)
        BY <1>1, <1>8 DEF PadDirective
    <2>2. QED
        BY <1>1, <1>8, <2>1, BalanceStep
<1>9. CASE d.kind = "close" /\ d.acct \in InterestAccounts(s)
    <2>1. next = PadClose(s, acc, d)
        BY <1>1, <1>9 DEF PadDirective
    <2>2. PICK mid : /\ IsPadded(s, mid) /\ Fills(acc.out, mid.out)
                     /\ \A c \in ToSet(InterestOpen(s, d.acct).ccys) : <<d.acct, c>> \in mid.zeroed
                     /\ PadClose(s, acc, d) = Emit(mid, <<d>>)
        BY <1>9, SettledAll
    <2>3. Follows(s, mid.out, mid.pending, mid.zeroed, d, mid.pending, mid.zeroed)
        BY <1>9, <2>2 DEF Follows
    <2>4. IsPadded(s, State(mid.out \o <<d>>, mid.pending, mid.zeroed))
        BY <2>2, <2>3, PassedOn
    <2>5. mid = State(mid.out, mid.pending, mid.zeroed)
        BY <2>2 DEF IsPadded
    <2>6. Emit(mid, <<d>>) = State(mid.out \o <<d>>, mid.pending, mid.zeroed)
        BY <2>5, StateIs
    <2>7. State(mid.out \o <<d>>, mid.pending, mid.zeroed).out = mid.out \o <<d>>
        BY DEF State
    <2>8. QED
        BY <1>1, <2>1, <2>2, <2>4, <2>6, <2>7
<1>10. CASE /\ d.kind # "pad" /\ ~(d.kind = "balance" /\ d.acct \in InterestAccounts(s))
            /\ ~(d.kind = "close" /\ d.acct \in InterestAccounts(s))
    <2>1. next = State(out, pending, zeroed)
        BY <1>1, <1>5, <1>6, <1>10 DEF PadDirective
    <2>2. Follows(s, acc.out, acc.pending, acc.zeroed, d, pending, acc.zeroed)
        BY <1>4, <1>10 DEF Follows
    <2>3. IsPadded(s, next)
        BY <1>4, <2>1, <2>2, PassedOn
    <2>4. next.out = out
        BY <2>1, StateIs
    <2>5. QED
        BY <1>1, <1>3, <1>4, <2>3, <2>4
<1>11. QED
    BY <1>7, <1>8, <1>9, <1>10

----------------------------------------------------------------------------
(* What was written stays, and so do the last opens *)

LastSoFar(t, j, i) ==
    /\ j \in InterestOpens(t)
    /\ \A m \in (j + 1)..i : m \in InterestOpens(t) => t[m].acct # t[j].acct

(* out has the first i directives of t and their opens, in their order. *)
Agree(out, t, i) ==
    /\ \A j \in 1..i : t[j] \in ToSet(out)
    /\ \A k \in OfKind(out, "open") : \E j \in 1..i : t[j] = out[k]
    /\ \A j \in 1..i : LastSoFar(t, j, i) => \E k : IsLast(out, t[j].acct, k) /\ out[k] = t[j]

LEMMA AgreeFill ==
    ASSUME NEW out, AreDirectives(out), NEW mid, Fills(out, mid), NEW t, NEW i, Agree(out, t, i)
    PROVE  Agree(mid, t, i)
<1>1. PICK pre : /\ AreDirectives(pre) /\ mid = out \o pre
                 /\ \A x \in ToSet(pre) : x.kind # "open"
    BY DEF Fills
<1>2. IsSeq(out) /\ IsSeq(pre)
    BY <1>1 DEF AreDirectives
<1>3. /\ IsSeq(mid) /\ Len(mid) = Len(out) + Len(pre) /\ ToSet(mid) = ToSet(out) \cup ToSet(pre)
      /\ \A k \in 1..Len(out) : mid[k] = out[k]
      /\ \A k \in Len(out) + 1..Len(out) + Len(pre) : mid[k] = pre[k - Len(out)]
    BY <1>1, <1>2, Cat, CatAll
<1>4. PICK n \in Nat, m \in Nat : n = Len(out) /\ m = Len(pre)
    BY <1>2, SeqFacts
<1>5. DOMAIN out = 1..n /\ DOMAIN pre = 1..m /\ DOMAIN mid = 1..(n + m)
    BY <1>2, <1>3, <1>4, SeqFacts
<1>6. ASSUME NEW k \in OfKind(mid, "open")
      PROVE  k \in OfKind(out, "open") /\ mid[k] = out[k]
    <2>1. k \in 1..(n + m) /\ mid[k].kind = "open"
        BY <1>5 DEF OfKind
    <2>2. CASE k <= n
        BY <1>3, <1>4, <1>5, <2>1, <2>2 DEF OfKind
    <2>3. CASE k > n
        <3>1. k - n \in 1..m /\ mid[k] = pre[k - n]
            BY <1>3, <1>4, <2>1, <2>3
        <3>2. pre[k - n] \in ToSet(pre)
            BY <1>5, <3>1 DEF ToSet
        <3>3. QED
            BY <1>1, <2>1, <3>1, <3>2
    <2>4. QED
        BY <2>1, <2>2, <2>3
<1>7. ASSUME NEW k \in OfKind(out, "open")
      PROVE  k \in OfKind(mid, "open") /\ mid[k] = out[k]
    BY <1>3, <1>4, <1>5 DEF OfKind
<1>8. InterestOpens(mid) = InterestOpens(out)
    BY <1>6, <1>7 DEF InterestOpens
<1>9. \A k \in InterestOpens(out) : mid[k] = out[k]
    BY <1>7 DEF InterestOpens
<1>10. \A a, k : IsLast(out, a, k) => IsLast(mid, a, k) /\ mid[k] = out[k]
    BY <1>8, <1>9 DEF IsLast
<1>11. \A j \in 1..i : t[j] \in ToSet(mid)
    BY <1>3 DEF Agree
<1>12. \A k \in OfKind(mid, "open") : \E j \in 1..i : t[j] = mid[k]
    BY <1>6 DEF Agree
<1>13. \A j \in 1..i : LastSoFar(t, j, i) => \E k : IsLast(mid, t[j].acct, k) /\ mid[k] = t[j]
    BY <1>10 DEF Agree
<1>14. QED
    BY <1>11, <1>12, <1>13 DEF Agree

LEMMA AgreeOne ==
    ASSUME NEW out, AreDirectives(out), NEW t, IsSeq(t), NEW i \in Nat, i + 1 <= Len(t),
           Agree(out, t, i), IsParsed(t[i + 1])
    PROVE  Agree(out \o <<t[i + 1]>>, t, i + 1)
<1>1. PICK d, u : d = t[i + 1] /\ u = out \o <<d>>
    OBVIOUS
<1>2. PICK n \in Nat : /\ n = Len(out) /\ n + 1 = Len(u)
                       /\ DOMAIN out = 1..n /\ DOMAIN u = 1..(n + 1)
                       /\ \A k \in 1..n : u[k] = out[k]
                       /\ u[n + 1] = d
    <2>1. IsParsed(d)
        BY <1>1
    <2>2. PICK n \in Nat : /\ n = Len(out) /\ n + 1 = Len(out \o <<d>>)
                           /\ DOMAIN out = 1..n /\ DOMAIN (out \o <<d>>) = 1..(n + 1)
                           /\ \A k \in 1..n : (out \o <<d>>)[k] = out[k]
                           /\ (out \o <<d>>)[n + 1] = d
        BY <2>1, OneMore
    <2>3. QED
        BY <1>1, <2>2
<1>3. i + 1 \in DOMAIN t
    <2>1. Len(t) \in Nat /\ DOMAIN t = 1..Len(t)
        BY SeqFacts
    <2>2. QED
        BY <2>1
<1>4. \A x : x \in ToSet(u) <=> x \in ToSet(out) \/ x = d
    <2>1. n + 1 \in 1..(n + 1)
        OBVIOUS
    <2>2. \A k \in 1..(n + 1) : k \in 1..n \/ k = n + 1
        OBVIOUS
    <2>3. QED
        BY <1>2, <2>1, <2>2 DEF ToSet
<1>5. \A j \in 1..(i + 1) : t[j] \in ToSet(u)
    <2>1. \A j \in 1..(i + 1) : j \in 1..i \/ j = i + 1
        OBVIOUS
    <2>2. QED
        BY <1>1, <1>4, <2>1 DEF Agree
<1>6. ASSUME NEW k \in OfKind(u, "open")
      PROVE  \E j \in 1..(i + 1) : t[j] = u[k]
    <2>1. k \in 1..(n + 1) /\ u[k].kind = "open"
        BY <1>2 DEF OfKind
    <2>2. CASE k = n + 1
        <3>1. i + 1 \in 1..(i + 1)
            OBVIOUS
        <3>2. QED
            BY <1>1, <1>2, <2>2, <3>1
    <2>3. CASE k # n + 1
        <3>1. k \in 1..n /\ u[k] = out[k]
            BY <1>2, <2>1, <2>3
        <3>2. k \in OfKind(out, "open")
            BY <1>2, <2>1, <3>1 DEF OfKind
        <3>3. PICK j \in 1..i : t[j] = out[k]
            BY <3>2 DEF Agree
        <3>4. j \in 1..(i + 1)
            OBVIOUS
        <3>5. QED
            BY <3>1, <3>3, <3>4
    <2>4. QED
        BY <2>2, <2>3
<1>7. ASSUME NEW k
      PROVE  k \in InterestOpens(u) <=> (k \in InterestOpens(out)
                                        \/ (k = n + 1 /\ d.kind = "open" /\ d.rate = "valid"))
    <2>1. k \in 1..(n + 1) <=> k \in 1..n \/ k = n + 1
        OBVIOUS
    <2>2. k \in 1..n => k # n + 1 /\ u[k] = out[k]
        BY <1>2
    <2>3. QED
        BY <1>2, <2>1, <2>2 DEF InterestOpens, OfKind
<1>8. \A k \in InterestOpens(out) : k \in 1..n /\ u[k] = out[k]
    BY <1>2 DEF InterestOpens, OfKind
<1>9. ASSUME NEW j \in 1..(i + 1), LastSoFar(t, j, i + 1)
      PROVE  \E k : IsLast(u, t[j].acct, k) /\ u[k] = t[j]
    <2>1. CASE j = i + 1
        <3>1. d.kind = "open" /\ d.rate = "valid"
            BY <1>1, <1>9, <2>1 DEF LastSoFar, InterestOpens, OfKind
        <3>2. n + 1 \in InterestOpens(u) /\ u[n + 1] = t[j]
            BY <1>1, <1>2, <1>7, <2>1, <3>1
        <3>3. \A k \in InterestOpens(u) : k <= n + 1
            BY <1>7, <1>8
        <3>4. QED
            BY <3>2, <3>3 DEF IsLast
    <2>2. CASE j # i + 1
        <3>1. j \in 1..i
            BY <2>2
        <3>2. LastSoFar(t, j, i)
            BY <1>9, <3>1 DEF LastSoFar
        <3>3. PICK k : IsLast(out, t[j].acct, k) /\ out[k] = t[j]
            BY <3>1, <3>2 DEF Agree
        <3>4. k \in InterestOpens(u) /\ u[k] = t[j] /\ k \in 1..n
            BY <1>7, <1>8, <3>3 DEF IsLast
        <3>5. d.kind = "open" /\ d.rate = "valid" => d.acct # t[j].acct
            <4>1. i + 1 \in (j + 1)..(i + 1)
                BY <3>1
            <4>2. d.kind = "open" /\ d.rate = "valid" => i + 1 \in InterestOpens(t)
                BY <1>1, <1>3 DEF InterestOpens, OfKind
            <4>3. QED
                BY <1>1, <1>9, <4>1, <4>2 DEF LastSoFar
        <3>6. \A m \in InterestOpens(u) : u[m].acct = t[j].acct => m <= k
            BY <1>2, <1>7, <1>8, <3>3, <3>5 DEF IsLast
        <3>7. IsLast(u, t[j].acct, k)
            BY <3>3, <3>4, <3>6 DEF IsLast
        <3>8. QED
            BY <3>4, <3>7
    <2>3. QED
        BY <2>1, <2>2
<1>10. Agree(u, t, i + 1)
    BY <1>5, <1>6, <1>9 DEF Agree
<1>11. QED
    BY <1>1, <1>10

----------------------------------------------------------------------------
(* An expanded stream *)

(* Nothing is left for ExpandAutoInterest to add. *)
Expanded(s) ==
    /\ AreDirectives(s)
    /\ \A a \in InterestAccounts(s) : \E k \in OfKind(s, "open") : s[k].acct = Income[a]
    /\ \A k \in OfKind(s, "balance") :
            s[k].acct \in InterestAccounts(s) => Waits(s, s[k].acct, k - 1)
    /\ \A k \in OfKind(s, "close") : s[k].acct \in InterestAccounts(s) =>
            \A c \in ToSet(InterestOpen(s, s[k].acct).ccys) : <<s[k].acct, c>> \in Zeroed(s)

(* The opens that are added: of Income accounts, without a rate. *)
LEMMA AddedOpens ==
    ASSUME NEW s, AreDirectives(s)
    PROVE  /\ AreDirectives(IncomeOpens(s))
           /\ \A x \in ToSet(IncomeOpens(s)) : x.kind = "open" /\ x.rate = "none"
           /\ \A a \in InterestAccounts(s) :
                \E x \in ToSet(s) \cup ToSet(IncomeOpens(s)) : x.kind = "open" /\ x.acct = Income[a]
           /\ (\A a \in InterestAccounts(s) : \E k \in OfKind(s, "open") : s[k].acct = Income[a])
                => IncomeOpens(s) = << >>
<1> DEFINE opened == {s[i].acct : i \in OfKind(s, "open")}
           first(i) == /\ i \in InterestOpens(s) /\ Income[s[i].acct] \notin opened
                       /\ ~\E j \in InterestOpens(s) : j < i /\ Income[s[j].acct] = Income[s[i].acct]
           incomeOpen(o) == [o EXCEPT !.acct = Income[o.acct], !.rate = "none"]
           parts == [i \in DOMAIN s |->
                        IF first(i) THEN <<incomeOpen(InterestOpen(s, s[i].acct))>> ELSE << >>]
<1>1. IncomeOpens(s) = FlattenSeq(parts)
    BY DEF IncomeOpens
<1>2. PICK n \in Nat : n = Len(s) /\ DOMAIN s = 1..n
    BY SeqFacts DEF AreDirectives
<1>3. ASSUME NEW o, IsParsed(o), o.kind = "open"
      PROVE  /\ IsParsed(incomeOpen(o)) /\ incomeOpen(o).kind = "open"
             /\ incomeOpen(o).rate = "none" /\ incomeOpen(o).acct = Income[o.acct]
    <2>1. /\ {"kind", "date", "line", "acct", "ccys", "rate"} \subseteq DOMAIN o
          /\ o.ccys \in Seq(Commodities)
          /\ o.date \in Dates /\ o.line \in Nat /\ o.acct \in Accounts
        BY <1>3 DEF IsParsed, IsDirective
    <2>2. PICK x \in Accounts : x = Income[o.acct]
        BY <2>1, IncomeAssumption
    <2>3. PICK p : p = [o EXCEPT !.acct = x]
        OBVIOUS
    <2>4. /\ DOMAIN p = DOMAIN o /\ p.kind = "open" /\ p.acct = x /\ p.ccys = o.ccys
          /\ p.date = o.date /\ p.line = o.line
        BY <1>3, <2>1, <2>3
    <2>5. PICK q : q = [p EXCEPT !.rate = "none"]
        OBVIOUS
    <2>6. /\ DOMAIN q = DOMAIN o /\ q.kind = "open" /\ q.acct = x /\ q.ccys = o.ccys
          /\ q.rate = "none" /\ q.date = o.date /\ q.line = o.line
        BY <2>1, <2>4, <2>5
    <2>7. q = incomeOpen(o)
        BY <2>2, <2>3, <2>5
    <2>8. IsParsed(q)
        BY <2>1, <2>6 DEF IsParsed, IsDirective
    <2>9. QED
        BY <2>2, <2>6, <2>7, <2>8
<1>4. ASSUME NEW i \in InterestOpens(s)
      PROVE  LET o == InterestOpen(s, s[i].acct) IN
             /\ IsParsed(o) /\ o.kind = "open" /\ o.acct = s[i].acct
    <2>1. s[i].acct \in InterestAccounts(s)
        BY DEF InterestAccounts
    <2>2. PICK j : IsLast(s, s[i].acct, j)
        BY <2>1, LastOpen DEF AreDirectives
    <2>3. /\ InterestOpen(s, s[i].acct) = s[j] /\ j \in DOMAIN s /\ s[j].kind = "open"
          /\ s[j].acct = s[i].acct
        BY <2>2, LastOpenIs DEF IsLast, InterestOpens, OfKind, AreDirectives
    <2>4. IsParsed(s[j])
        BY <2>3 DEF AreDirectives, ToSet
    <2>5. QED
        BY <2>3, <2>4
<1> HIDE DEF incomeOpen
<1>5. ASSUME NEW i \in 1..n
      PROVE  /\ AreDirectives(parts[i])
             /\ \A x \in ToSet(parts[i]) : x.kind = "open" /\ x.rate = "none"
    <2>1. CASE first(i)
        <3>1. PICK o : o = InterestOpen(s, s[i].acct)
            OBVIOUS
        <3>2. IsParsed(o) /\ o.kind = "open"
            BY <1>4, <2>1, <3>1
        <3>3. PICK x : x = incomeOpen(o)
            OBVIOUS
        <3>4. IsParsed(x) /\ x.kind = "open" /\ x.rate = "none"
            BY <1>3, <3>2, <3>3
        <3>5. parts[i] = <<x>>
            BY <1>2, <2>1, <3>1, <3>3
        <3>6. IsSeq(<<x>>) /\ ToSet(<<x>>) = {x}
            BY Single, SingleAll
        <3>7. QED
            BY <3>4, <3>5, <3>6 DEF AreDirectives
    <2>2. CASE ~first(i)
        <3>1. parts[i] = << >>
            BY <1>2, <2>2
        <3>2. IsSeq(<< >>) /\ ToSet(<< >>) = {}
            BY NoneIs, NoneAll
        <3>3. QED
            BY <3>1, <3>2 DEF AreDirectives
    <2>3. QED
        BY <2>1, <2>2
<1>6. parts = [i \in 1..n |-> parts[i]]
    BY <1>2
<1>7. ASSUME NEW i \in 1..n, first(i)
      PROVE  \E x \in ToSet(parts[i]) : x.kind = "open" /\ x.acct = Income[s[i].acct]
    <2>1. PICK o : o = InterestOpen(s, s[i].acct)
        OBVIOUS
    <2>2. IsParsed(o) /\ o.kind = "open" /\ o.acct = s[i].acct
        BY <1>4, <1>7, <2>1
    <2>3. PICK x : x = incomeOpen(o)
        OBVIOUS
    <2>4. x.kind = "open" /\ x.acct = Income[s[i].acct]
        BY <1>3, <2>2, <2>3
    <2>5. parts[i] = <<x>> /\ ToSet(<<x>>) = {x}
        BY <1>2, <1>7, <2>1, <2>3, SingleAll
    <2>6. QED
        BY <2>4, <2>5
<1>8. ASSUME NEW a \in InterestAccounts(s), Income[a] \notin opened
      PROVE  \E i \in 1..n : first(i) /\ Income[s[i].acct] = Income[a]
    <2>1. PICK S : S = {i \in InterestOpens(s) : Income[s[i].acct] = Income[a]}
        OBVIOUS
    <2>2. S \in SUBSET Nat /\ S # {}
        BY <1>2, <2>1 DEF InterestAccounts, InterestOpens, OfKind
    <2>3. PICK i \in S : \A m \in S : i <= m
        BY <2>2, LeastNat
    <2>4. i \in InterestOpens(s) /\ Income[s[i].acct] = Income[a] /\ i \in 1..n
        BY <1>2, <2>1 DEF InterestOpens, OfKind
    <2>5. ~\E j \in InterestOpens(s) : j < i /\ Income[s[j].acct] = Income[s[i].acct]
        <3>1. \A j \in S : ~(j < i)
            BY <2>2, <2>3
        <3>2. QED
            BY <2>1, <2>4, <3>1
    <2>6. QED
        BY <1>8, <2>4, <2>5
<1>15. ASSUME \A a \in InterestAccounts(s) : \E k \in OfKind(s, "open") : s[k].acct = Income[a],
              NEW i \in 1..n
       PROVE  parts[i] = << >>
    <2>1. i \in InterestOpens(s) => Income[s[i].acct] \in opened
        BY <1>15 DEF InterestAccounts
    <2>2. ~first(i)
        BY <2>1
    <2>3. QED
        BY <1>2, <2>2
<1> HIDE DEF parts, first
<1>9. IsSeq(parts) /\ Len(parts) = n
    BY <1>6, FcnIsSeq
<1>10. AreDirectives(FlattenSeq(parts))
    BY <1>5, <1>9, AreFlat
<1>11. ToSet(FlattenSeq(parts)) = UNION {ToSet(parts[i]) : i \in 1..n}
    <2>1. \A i \in 1..Len(parts) : IsSeq(parts[i])
        BY <1>5, <1>9 DEF AreDirectives
    <2>2. QED
        BY <1>9, <2>1, FlattenIs
<1>12. \A x \in ToSet(FlattenSeq(parts)) : x.kind = "open" /\ x.rate = "none"
    BY <1>5, <1>11
<1>13. ASSUME NEW a \in InterestAccounts(s)
       PROVE  \E x \in ToSet(s) \cup ToSet(FlattenSeq(parts)) : x.kind = "open" /\ x.acct = Income[a]
    <2>1. CASE Income[a] \in opened
        <3>1. PICK i \in OfKind(s, "open") : s[i].acct = Income[a]
            BY <2>1
        <3>2. s[i] \in ToSet(s) /\ s[i].kind = "open"
            BY DEF OfKind, ToSet
        <3>3. QED
            BY <3>1, <3>2
    <2>2. CASE Income[a] \notin opened
        <3>1. PICK i \in 1..n : first(i) /\ Income[s[i].acct] = Income[a]
            BY <1>8, <2>2
        <3>2. PICK x \in ToSet(parts[i]) : x.kind = "open" /\ x.acct = Income[s[i].acct]
            BY <1>7, <3>1
        <3>3. x \in ToSet(FlattenSeq(parts))
            BY <1>11
        <3>4. QED
            BY <3>1, <3>2, <3>3
    <2>3. QED
        BY <2>1, <2>2
<1>16. ASSUME \A a \in InterestAccounts(s) : \E k \in OfKind(s, "open") : s[k].acct = Income[a]
       PROVE  FlattenSeq(parts) = << >>
    <2>1. \A i \in 1..n : ToSet(parts[i]) = {}
        BY <1>15, <1>16, NoneAll
    <2>2. ToSet(FlattenSeq(parts)) = {}
        BY <1>11, <2>1
    <2>3. QED
        BY <1>10, <2>2, NothingIn DEF AreDirectives
<1>14. QED
    BY <1>1, <1>10, <1>12, <1>13, <1>16

(* The interest accounts of s are those of t, with the same last opens. *)
OpensStay(s, t) ==
    /\ \A a, j : IsLast(s, a, j) => \E k \in 1..Len(t) : LastSoFar(t, k, Len(t)) /\ t[k] = s[j]
    /\ \A k \in InterestOpens(t) : t[k].acct \in InterestAccounts(s)

Unrated(p) == \A x \in ToSet(p) : x.rate = "none"

LEMMA OpensAfter ==
    ASSUME NEW p, IsSeq(p), Unrated(p), NEW s, IsSeq(s), NEW t, t = p \o s
    PROVE  OpensStay(s, t)
<1>1. PICK m \in Nat, n \in Nat : m = Len(p) /\ n = Len(s) /\ DOMAIN p = 1..m /\ DOMAIN s = 1..n
    BY SeqFacts
<1>2. /\ IsSeq(t) /\ Len(t) = m + n
      /\ \A i \in 1..m : t[i] = p[i]
      /\ \A i \in 1..n : t[m + i] = s[i]
      /\ \A i \in (m + 1)..(m + n) : t[i] = s[i - m]
    BY <1>1, Cat
<1>3. DOMAIN t = 1..(m + n)
    BY <1>2, SeqFacts
<1>4. ASSUME NEW k \in InterestOpens(t)
      PROVE  k \in (m + 1)..(m + n) /\ k - m \in InterestOpens(s) /\ t[k] = s[k - m]
    <2>1. k \in 1..(m + n) /\ t[k].kind = "open" /\ t[k].rate = "valid"
        BY <1>3 DEF InterestOpens, OfKind
    <2>2. k > m
        <3>1. ASSUME k <= m PROVE FALSE
            <4>1. k \in 1..m /\ t[k] = p[k]
                BY <1>2, <2>1, <3>1
            <4>2. p[k] \in ToSet(p)
                BY <1>1, <4>1 DEF ToSet
            <4>3. QED
                BY <2>1, <4>1, <4>2 DEF Unrated
        <3>2. QED
            BY <2>1, <3>1
    <2>3. k \in (m + 1)..(m + n) /\ k - m \in 1..n
        BY <2>1, <2>2
    <2>4. t[k] = s[k - m]
        BY <1>2, <2>3
    <2>5. QED
        BY <1>1, <2>1, <2>3, <2>4 DEF InterestOpens, OfKind
<1>5. ASSUME NEW a, NEW j, IsLast(s, a, j)
      PROVE  \E k \in 1..(m + n) : LastSoFar(t, k, m + n) /\ t[k] = s[j]
    <2>1. j \in 1..n /\ s[j].kind = "open" /\ s[j].rate = "valid" /\ s[j].acct = a
        BY <1>1, <1>5 DEF IsLast, InterestOpens, OfKind
    <2>2. PICK k \in 1..(m + n) : k = m + j /\ k - m = j
        BY <2>1
    <2>3. t[k] = s[j]
        BY <1>2, <2>1, <2>2
    <2>4. k \in InterestOpens(t)
        BY <1>3, <2>1, <2>3 DEF InterestOpens, OfKind
    <2>5. ASSUME NEW i \in (k + 1)..(m + n), i \in InterestOpens(t), t[i].acct = t[k].acct
          PROVE  FALSE
        <3>1. i - m \in InterestOpens(s) /\ s[i - m].acct = a
            BY <1>4, <2>1, <2>3, <2>5
        <3>2. i - m <= j
            BY <1>5, <3>1 DEF IsLast
        <3>3. QED
            BY <2>1, <2>2, <3>2
    <2>6. QED
        BY <2>3, <2>4, <2>5 DEF LastSoFar
<1>6. \A k \in InterestOpens(t) : t[k].acct \in InterestAccounts(s)
    BY <1>4 DEF InterestAccounts
<1>7. QED
    BY <1>2, <1>5, <1>6 DEF OpensStay

(* What ExpandAutoInterest is, by a run over the stream and its new opens. *)
LEMMA ExpandIs ==
    ASSUME NEW s, NEW t, t = IncomeOpens(s) \o s, Len(t) \in Nat,
           NEW v, IsRun(v, "pad", s, s, Start(s), t)
    PROVE  ExpandAutoInterest(s) = v[Len(t)].out
<1>1. PadTable(s, Start(s), t)[Len(t)] = {v[Len(t)]}
    BY PadTableIs, ZenonT(60)
<1>2. UNION {PadTable(s, Start(s), q)[Len(q)] : q \in {t}} = {v[Len(t)]}
    BY <1>1
<1>3. UNION {PadTable(s, Start(s), q)[Len(q)] : q \in {IncomeOpens(s) \o s}} = {v[Len(t)]}
    BY <1>2
<1>4. ExpandAutoInterest(s) = (CHOOSE last \in {v[Len(t)]} : TRUE).out
    BY <1>3, ExpandedBy, Zenon
<1>5. QED
    BY <1>4, TheOnly

LEMMA PadRun ==
    ASSUME NEW s, NEW t, t = IncomeOpens(s) \o s, IsSeq(t)
    PROVE  \E v : /\ v[0] = State(<< >>, {}, Zeroed(s))
                  /\ \A i \in 1..Len(t) : v[i] = PadDirective(s, v[i - 1], t[i])
                  /\ ExpandAutoInterest(s) = v[Len(t)].out
<1>1. Len(t) \in Nat
    BY SeqFacts
<1>2. PICK v : IsRun(v, "pad", s, s, Start(s), t)
    BY <1>1, RunExists
<1>3. /\ v[0] = Start(s)
      /\ \A i \in 1..Len(t) : v[i] = ExpandStep("pad", s, s, v[i - 1], t[i])
    BY ONLY <1>1, <1>2, RunIs
<1>4. \A i \in 1..Len(t) : v[i] = PadDirective(s, v[i - 1], t[i])
    BY <1>3 DEF ExpandStep
<1>5. v[0] = State(<< >>, {}, Zeroed(s))
    BY <1>3 DEF Start, State
<1>6. ExpandAutoInterest(s) = v[Len(t)].out
    BY <1>1, <1>2, ExpandIs
<1>7. QED
    BY <1>4, <1>5, <1>6

(* A stream that was expanded has every pad and assertion it needs. *)
LEMMA ExpandedIs ==
    ASSUME NEW s, AreDirectives(s)
    PROVE  Expanded(ExpandAutoInterest(s))
<1>1. PICK p, t : p = IncomeOpens(s) /\ t = p \o s
    OBVIOUS
<1>2. /\ AreDirectives(p)
      /\ \A x \in ToSet(p) : x.kind = "open" /\ x.rate = "none"
      /\ \A a \in InterestAccounts(s) :
            \E x \in ToSet(s) \cup ToSet(p) : x.kind = "open" /\ x.acct = Income[a]
    BY <1>1, AddedOpens
<1>3. AreDirectives(t) /\ IsSeq(t) /\ IsSeq(p) /\ IsSeq(s) /\ ToSet(t) = ToSet(p) \cup ToSet(s)
    BY <1>1, <1>2, AreCat, CatAll DEF AreDirectives
<1>4. PICK n \in Nat : n = Len(t) /\ DOMAIN t = 1..n
    BY <1>3, SeqFacts
<1>5. PICK v : /\ v[0] = State(<< >>, {}, Zeroed(s))
               /\ \A i \in 1..n : v[i] = PadDirective(s, v[i - 1], t[i])
               /\ ExpandAutoInterest(s) = v[n].out
    BY <1>1, <1>3, <1>4, PadRun, ZenonT(60)
<1> DEFINE K == {i \in Nat : i <= n => IsPadded(s, v[i]) /\ Agree(v[i].out, t, i)}
<1>6. 0 \in K
    <2>1. /\ v[0].out = << >> /\ v[0].pending = {} /\ v[0].zeroed = Zeroed(s)
          /\ v[0] = State(v[0].out, v[0].pending, v[0].zeroed)
        BY <1>5 DEF State
    <2>2. AreDirectives(<< >>) /\ \A kind : OfKind(<< >>, kind) = {}
        BY NoneIs, NoneAll DEF AreDirectives, OfKind
    <2>3. Padded(s, << >>, {}, Zeroed(s))
        BY <2>2 DEF Padded
    <2>4. Agree(<< >>, t, 0)
        BY <2>2 DEF Agree
    <2>5. QED
        BY <2>1, <2>3, <2>4 DEF IsPadded
<1>7. ASSUME NEW i \in Nat, i \in K, i + 1 <= n
      PROVE  IsPadded(s, v[i + 1]) /\ Agree(v[i + 1].out, t, i + 1)
    <2>1. PICK k \in 1..n : k = i + 1 /\ k - 1 = i
        BY <1>7
    <2>2. PICK last, next, d : last = v[i] /\ next = v[k] /\ d = t[k]
        OBVIOUS
    <2>3. IsPadded(s, last) /\ Agree(last.out, t, i) /\ AreDirectives(last.out)
        BY <1>7, <2>2 DEF IsPadded, Padded
    <2>4. IsParsed(d)
        BY <1>3, <1>4, <2>2 DEF AreDirectives, ToSet
    <2>5. next = PadDirective(s, last, d)
        BY <1>5, <2>1, <2>2
    <2>6. IsPadded(s, next) /\ \E mid : Fills(last.out, mid) /\ next.out = mid \o <<d>>
        BY <2>3, <2>4, <2>5, PaddedStep
    <2>7. PICK mid : Fills(last.out, mid) /\ next.out = mid \o <<d>>
        BY <2>6
    <2>8. AreDirectives(mid)
        BY <2>3, <2>7, AreCat DEF Fills
    <2>9. Agree(mid, t, i)
        BY <2>3, <2>7, AgreeFill
    <2>10. Agree(mid \o <<t[i + 1]>>, t, i + 1)
        <3>1. IsParsed(t[i + 1]) /\ i + 1 <= Len(t)
            BY <1>4, <2>1, <2>2, <2>4
        <3>2. QED
            BY <1>3, <2>8, <2>9, <3>1, AgreeOne
    <2>11. QED
        BY <2>1, <2>2, <2>6, <2>7, <2>10
<1>8. \A i \in Nat : i \in K => i + 1 \in K
    BY <1>7
<1> HIDE DEF K
<1>9. Nat \subseteq K
    BY <1>6, <1>8, SetInduction
<1>10. PICK u, w : u = v[n].out /\ w = v[n]
    OBVIOUS
<1>11. IsPadded(s, w) /\ Agree(u, t, n) /\ ExpandAutoInterest(s) = u /\ u = w.out
    BY <1>5, <1>9, <1>10 DEF K
<1>12. AreDirectives(u) /\ Padded(s, u, w.pending, w.zeroed)
    BY <1>11 DEF IsPadded, Padded
<1>22. /\ \A a, j : IsLast(s, a, j) => \E k \in 1..Len(t) : LastSoFar(t, k, Len(t)) /\ t[k] = s[j]
       /\ \A k \in InterestOpens(t) : t[k].acct \in InterestAccounts(s)
    <2>1. Unrated(p)
        BY <1>2 DEF Unrated
    <2>2. OpensStay(s, t)
        BY ONLY <1>1, <1>3, <2>1, OpensAfter
    <2>3. QED
        BY ONLY <2>2 DEF OpensStay
<1>13. ASSUME NEW k \in InterestOpens(u)
       PROVE  u[k].acct \in InterestAccounts(s)
    <2>1. k \in OfKind(u, "open") /\ u[k].rate = "valid" /\ u[k].kind = "open"
        BY DEF InterestOpens, OfKind
    <2>2. PICK j \in 1..n : t[j] = u[k]
        BY <1>11, <2>1 DEF Agree
    <2>3. j \in InterestOpens(t)
        BY <1>4, <2>1, <2>2 DEF InterestOpens, OfKind
    <2>4. QED
        BY <1>22, <2>2, <2>3
<1>14. InterestAccounts(u) \subseteq InterestAccounts(s)
    BY <1>13 DEF InterestAccounts
<1>15. ASSUME NEW a \in InterestAccounts(s)
       PROVE  InterestOpen(u, a) = InterestOpen(s, a)
    <2>1. PICK j : IsLast(s, a, j)
        BY <1>3, LastOpen
    <2>2. PICK k \in 1..n : LastSoFar(t, k, n) /\ t[k] = s[j]
        BY <1>4, <1>22, <2>1
    <2>3. PICK m : IsLast(u, t[k].acct, m) /\ u[m] = t[k]
        BY <1>11, <2>2 DEF Agree
    <2>4. IsLast(u, a, m) /\ u[m] = s[j]
        BY <2>1, <2>2, <2>3 DEF IsLast
    <2>5. QED
        BY <1>3, <1>12, <2>1, <2>4, LastOpenIs DEF AreDirectives
<1>16. ToSet(t) \subseteq ToSet(u)
    BY <1>4, <1>11 DEF Agree, ToSet
<1>17. Zeroed(s) \subseteq Zeroed(u)
    <2>1. ASSUME NEW k \in OfKind(s, "balance"), s[k].n = Zero
          PROVE  <<s[k].acct, s[k].comm>> \in Zeroed(u)
        <3>1. s[k] \in ToSet(u) /\ s[k].kind = "balance"
            BY <1>3, <1>16 DEF OfKind, ToSet
        <3>2. PICK m \in DOMAIN u : u[m] = s[k]
            BY <3>1 DEF ToSet
        <3>3. m \in OfKind(u, "balance")
            BY <3>1, <3>2 DEF OfKind
        <3>4. QED
            BY <2>1, <3>2, <3>3 DEF Zeroed
    <2>2. QED
        BY <2>1 DEF Zeroed
<1>18. ASSUME NEW a \in InterestAccounts(u)
       PROVE  \E k \in OfKind(u, "open") : u[k].acct = Income[a]
    <2>1. PICK x \in ToSet(t) : x.kind = "open" /\ x.acct = Income[a]
        BY <1>2, <1>3, <1>14
    <2>2. PICK k \in DOMAIN u : u[k] = x
        BY <1>16, <2>1 DEF ToSet
    <2>3. QED
        BY <2>1, <2>2 DEF OfKind
<1>19. \A k \in OfKind(u, "balance") :
            u[k].acct \in InterestAccounts(u) => Waits(u, u[k].acct, k - 1)
    BY <1>12, <1>14 DEF Padded
<1>20. \A k \in OfKind(u, "close") : u[k].acct \in InterestAccounts(u) =>
            \A c \in ToSet(InterestOpen(u, u[k].acct).ccys) : <<u[k].acct, c>> \in Zeroed(u)
    BY <1>12, <1>14, <1>15, <1>17 DEF Padded
<1>21. QED
    BY <1>11, <1>12, <1>18, <1>19, <1>20 DEF Expanded

(* A pad waits after one more directive. *)
LEMMA WaitsBack ==
    ASSUME NEW s, NEW i \in Nat, NEW a, Waits(s, a, i + 1)
    PROVE  \/ s[i + 1].kind = "pad" /\ s[i + 1].acct = a
           \/ Waits(s, a, i) /\ ~(s[i + 1].kind = "balance" /\ s[i + 1].acct = a)
<1>1. PICK j \in 1..(i + 1) :
            /\ s[j].kind = "pad" /\ s[j].acct = a
            /\ \A k \in (j + 1)..(i + 1) : ~(s[k].kind = "balance" /\ s[k].acct = a)
    BY DEF Waits
<1>2. CASE j = i + 1
    BY <1>1, <1>2
<1>3. CASE j # i + 1
    <2>1. j \in 1..i /\ i + 1 \in (j + 1)..(i + 1)
        BY <1>3
    <2>2. \A k \in (j + 1)..i : k \in (j + 1)..(i + 1)
        BY <2>1
    <2>3. QED
        BY <1>1, <2>1, <2>2 DEF Waits
<1>4. QED
    BY <1>2, <1>3

(* Before a close that has its assertions nothing comes in. *)
LEMMA CloseAlone ==
    ASSUME NEW s, AreDirectives(s), NEW acc, NEW d, d.acct \in InterestAccounts(s),
           \A c \in ToSet(InterestOpen(s, d.acct).ccys) : <<d.acct, c>> \in acc.zeroed
    PROVE  PadClose(s, acc, d) = Emit(acc, <<d>>)
<1>1. PICK seq : seq = InterestOpen(s, d.acct).ccys
    OBVIOUS
<1>2. IsSeq(seq)
    BY <1>1, Currencies
<1>3. PICK n \in Nat : n = Len(seq) /\ DOMAIN seq = 1..n
    BY <1>2, SeqFacts
<1>4. PICK v : IsRun(v, "settle", s, d, acc, seq)
    BY <1>3, RunExists
<1>5. v[0] = acc /\ \A i \in 1..n : v[i] = Settle(s, d, v[i - 1], seq[i])
    <2>1. /\ v[0] = acc
          /\ \A i \in 1..Len(seq) : v[i] = ExpandStep("settle", s, d, v[i - 1], seq[i])
        <3>1. Len(seq) \in Nat
            BY <1>3
        <3>2. QED
            BY ONLY <3>1, <1>4, RunIs
    <2>2. QED
        BY <1>3, <2>1 DEF ExpandStep
<1>6. \A i \in 1..n : <<d.acct, seq[i]>> \in acc.zeroed
    BY <1>1, <1>3 DEF ToSet
<1> DEFINE K == {i \in Nat : i <= n => v[i] = acc}
<1>7. 0 \in K
    BY <1>5
<1>8. ASSUME NEW i \in Nat, i \in K, i + 1 <= n
      PROVE  v[i + 1] = acc
    <2>1. PICK k \in 1..n : k = i + 1 /\ k - 1 = i
        BY <1>8
    <2>2. v[k] = Settle(s, d, acc, seq[k])
        BY <1>5, <1>8, <2>1
    <2>3. <<d.acct, seq[k]>> \in acc.zeroed
        BY <1>6
    <2>4. QED
        BY <2>1, <2>2, <2>3 DEF Settle
<1>9. \A i \in Nat : i \in K => i + 1 \in K
    BY <1>8
<1> HIDE DEF K
<1>10. Nat \subseteq K
    BY <1>7, <1>9, SetInduction
<1>11. v[n] = acc
    BY <1>10 DEF K
<1>12. QED
    BY <1>1, <1>3, <1>4, <1>11, PadCloseIs

(* acc has passed the first i directives of s on. *)
Passed(s, acc, i) ==
    /\ acc = State(acc.out, acc.pending, Zeroed(s))
    /\ AreDirectives(acc.out) /\ Len(acc.out) = i
    /\ \A j \in 1..i : acc.out[j] = s[j]
    /\ \A a \in InterestAccounts(s) : Waits(s, a, i) => a \in acc.pending

(* An expanded stream stays as it is. *)
LEMMA PassesOn ==
    ASSUME NEW s, Expanded(s), NEW i \in Nat, i + 1 <= Len(s), NEW acc, Passed(s, acc, i)
    PROVE  Passed(s, PadDirective(s, acc, s[i + 1]), i + 1)
<1>1. PICK d : d = s[i + 1]
    OBVIOUS
<1>2. AreDirectives(s) /\ IsSeq(s)
    BY DEF Expanded, AreDirectives
<1>3. PICK n \in Nat : n = Len(s) /\ DOMAIN s = 1..n /\ i + 1 \in 1..n
    BY <1>2, SeqFacts
<1>4. IsParsed(d)
    BY <1>1, <1>2, <1>3 DEF AreDirectives, ToSet
<1>5. PICK out, pending : out = acc.out \o <<d>> /\ pending = acc.pending
    OBVIOUS
<1>6. /\ acc = State(acc.out, pending, Zeroed(s)) /\ acc.zeroed = Zeroed(s)
      /\ AreDirectives(acc.out) /\ Len(acc.out) = i
      /\ \A j \in 1..i : acc.out[j] = s[j]
      /\ \A a \in InterestAccounts(s) : Waits(s, a, i) => a \in pending
    BY <1>5, StateIs DEF Passed
<1>7. AreDirectives(out) /\ Len(out) = i + 1 /\ \A j \in 1..(i + 1) : out[j] = s[j]
    <2>1. AreDirectives(acc.out \o <<d>>)
        BY <1>4, <1>6, OneMore
    <2>2. PICK m \in Nat : /\ m = Len(acc.out) /\ m + 1 = Len(acc.out \o <<d>>)
                           /\ \A j \in 1..m : (acc.out \o <<d>>)[j] = acc.out[j]
                           /\ (acc.out \o <<d>>)[m + 1] = d
        BY <1>4, <1>6, OneMore, ZenonT(60)
    <2>3. \A j \in 1..(i + 1) : j \in 1..i \/ j = i + 1
        OBVIOUS
    <2>4. QED
        BY <1>1, <1>5, <1>6, <2>1, <2>2, <2>3
<1>8. ASSUME NEW next, NEW more, next = State(out, more, Zeroed(s)),
             \A a \in InterestAccounts(s) : Waits(s, a, i + 1) => a \in more
      PROVE  Passed(s, next, i + 1)
    <2>1. next.out = out /\ next.pending = more /\ next.zeroed = Zeroed(s)
        BY <1>8, StateIs
    <2>2. QED
        BY <1>7, <1>8, <2>1 DEF Passed
<1>9. ASSUME NEW a \in InterestAccounts(s), Waits(s, a, i + 1)
      PROVE  \/ d.kind = "pad" /\ d.acct = a
             \/ a \in pending /\ ~(d.kind = "balance" /\ d.acct = a)
    BY <1>1, <1>6, <1>9, WaitsBack
<1>10. PICK next : next = PadDirective(s, acc, d)
    OBVIOUS
<1>11. PICK e : e = Emit(acc, <<d>>)
    OBVIOUS
<1>12. e = State(out, pending, Zeroed(s))
    BY <1>5, <1>6, <1>11, StateIs
<1>13. CASE d.kind = "pad"
    <2>1. PICK more : more = pending \cup {d.acct}
        OBVIOUS
    <2>2. next = [e EXCEPT !.pending = @ \cup {d.acct}]
        BY <1>10, <1>11, <1>13 DEF PadDirective
    <2>3. e.pending = pending
        BY <1>12, StateIs
    <2>4. next = [e EXCEPT !.pending = more]
        BY <2>1, <2>2, <2>3
    <2>5. next = State(out, more, Zeroed(s))
        <3>1. [e EXCEPT !.pending = more] = State(out, more, Zeroed(s))
            BY <1>12 DEF State
        <3>2. QED
            BY <2>4, <3>1
    <2>6. \A a \in InterestAccounts(s) : Waits(s, a, i + 1) => a \in more
        BY <1>9, <2>1
    <2>7. QED
        BY <1>1, <1>8, <1>10, <2>5, <2>6
<1>14. CASE d.kind = "balance" /\ d.acct \in InterestAccounts(s)
    <2>1. next = PadBalance(s, acc, d)
        BY <1>10, <1>14 DEF PadDirective
    <2>2. i + 1 \in OfKind(s, "balance") /\ (i + 1) - 1 = i
        BY <1>1, <1>3, <1>14 DEF OfKind
    <2>3. Waits(s, d.acct, i)
        BY <1>1, <1>14, <2>2 DEF Expanded
    <2>4. PadUnlessPending(s, acc, d) = << >>
        BY <1>5, <1>6, <1>14, <2>3 DEF PadUnlessPending
    <2>5. acc.out \o (PadUnlessPending(s, acc, d) \o <<d>>) = out
        BY <1>5, <2>4, CatNone, Single
    <2>6. PICK more : more = pending \ {d.acct}
        OBVIOUS
    <2>7. next = State(out, more, Zeroed(s))
        <3>1. PICK o, zeroed : o = acc.out /\ zeroed = Zeroed(s)
            OBVIOUS
        <3>2. acc = State(o, pending, zeroed)
            BY <1>6, <3>1
        <3>3. PadBalance(s, acc, d)
                = State(o \o (PadUnlessPending(s, acc, d) \o <<d>>), pending \ {d.acct}, zeroed)
            BY <3>2, PadBalanceIs
        <3>4. QED
            BY <2>1, <2>5, <2>6, <3>1, <3>3
    <2>8. \A a \in InterestAccounts(s) : Waits(s, a, i + 1) => a \in more
        BY <1>9, <1>14, <2>6
    <2>9. QED
        BY <1>1, <1>8, <1>10, <2>7, <2>8
<1>15. CASE d.kind = "close" /\ d.acct \in InterestAccounts(s)
    <2>1. next = PadClose(s, acc, d)
        BY <1>10, <1>15 DEF PadDirective
    <2>2. i + 1 \in OfKind(s, "close")
        BY <1>1, <1>3, <1>15 DEF OfKind
    <2>3. \A c \in ToSet(InterestOpen(s, d.acct).ccys) : <<d.acct, c>> \in acc.zeroed
        BY <1>1, <1>6, <1>15, <2>2 DEF Expanded
    <2>4. next = e
        BY <1>2, <1>11, <1>15, <2>1, <2>3, CloseAlone
    <2>5. \A a \in InterestAccounts(s) : Waits(s, a, i + 1) => a \in pending
        BY <1>9, <1>15
    <2>6. QED
        BY <1>1, <1>8, <1>10, <1>12, <2>4, <2>5
<1>16. CASE /\ d.kind # "pad" /\ ~(d.kind = "balance" /\ d.acct \in InterestAccounts(s))
            /\ ~(d.kind = "close" /\ d.acct \in InterestAccounts(s))
    <2>1. next = e
        BY <1>10, <1>11, <1>16 DEF PadDirective
    <2>2. \A a \in InterestAccounts(s) : Waits(s, a, i + 1) => a \in pending
        BY <1>9, <1>16
    <2>3. QED
        BY <1>1, <1>8, <1>10, <1>12, <2>1, <2>2
<1>17. QED
    BY <1>13, <1>14, <1>15, <1>16

LEMMA ExpandedStays ==
    ASSUME NEW s, Expanded(s)
    PROVE  ExpandAutoInterest(s) = s
<1>1. AreDirectives(s) /\ IsSeq(s)
    BY DEF Expanded, AreDirectives
<1>2. IncomeOpens(s) = << >>
    BY <1>1, AddedOpens DEF Expanded
<1>3. IncomeOpens(s) \o s = s
    BY <1>1, <1>2, CatNone
<1>4. PICK n \in Nat : n = Len(s) /\ DOMAIN s = 1..n
    BY <1>1, SeqFacts
<1>5. PICK v : /\ v[0] = State(<< >>, {}, Zeroed(s))
               /\ \A i \in 1..n : v[i] = PadDirective(s, v[i - 1], s[i])
               /\ ExpandAutoInterest(s) = v[n].out
    BY <1>1, <1>3, <1>4, PadRun
<1> DEFINE K == {i \in Nat : i <= n => Passed(s, v[i], i)}
<1>6. 0 \in K
    <2>1. v[0].out = << >> /\ v[0].pending = {} /\ v[0] = State(v[0].out, v[0].pending, Zeroed(s))
        BY <1>5 DEF State
    <2>2. AreDirectives(<< >>) /\ Len(<< >>) = 0
        BY NoneIs, NoneAll DEF AreDirectives
    <2>3. \A a : ~Waits(s, a, 0)
        BY DEF Waits
    <2>4. Passed(s, v[0], 0)
        BY <2>1, <2>2, <2>3 DEF Passed
    <2>5. QED
        BY <2>4
<1>7. ASSUME NEW i \in Nat, i \in K, i + 1 <= n
      PROVE  Passed(s, v[i + 1], i + 1)
    <2>1. PICK k \in 1..n : k = i + 1 /\ k - 1 = i
        BY <1>7
    <2>2. Passed(s, v[i], i)
        BY <1>7
    <2>3. v[k] = PadDirective(s, v[i], s[i + 1])
        BY <1>5, <2>1
    <2>4. Passed(s, PadDirective(s, v[i], s[i + 1]), i + 1)
        BY <1>4, <1>7, <2>2, PassesOn
    <2>5. QED
        BY <2>1, <2>3, <2>4
<1>8. \A i \in Nat : i \in K => i + 1 \in K
    BY <1>7
<1> HIDE DEF K
<1>9. Nat \subseteq K
    BY <1>6, <1>8, SetInduction
<1>10. PICK out : out = v[n].out
    OBVIOUS
<1>11. IsSeq(out) /\ Len(out) = n /\ \A j \in 1..n : out[j] = s[j]
    BY <1>9, <1>10 DEF K, Passed, AreDirectives
<1>12. out = s
    BY <1>1, <1>4, <1>11, SameSeq
<1>13. QED
    BY <1>5, <1>10, <1>12

(* Transactions after an expanded stream leave it expanded. *)
LEMMA TxnsAfter ==
    ASSUME NEW s, Expanded(s), NEW t, AreDirectives(t), \A d \in ToSet(t) : d.kind = "txn"
    PROVE  Expanded(s \o t)
<1>1. PICK u : u = s \o t
    OBVIOUS
<1>2. AreDirectives(s) /\ IsSeq(s) /\ IsSeq(t) /\ AreDirectives(u)
    BY <1>1, AreCat DEF Expanded, AreDirectives
<1>3. PICK m \in Nat, n \in Nat : m = Len(s) /\ n = Len(t) /\ DOMAIN s = 1..m /\ DOMAIN t = 1..n
    BY <1>2, SeqFacts
<1>4. /\ IsSeq(u) /\ Len(u) = m + n
      /\ \A i \in 1..m : u[i] = s[i]
      /\ \A i \in 1..n : u[m + i] = t[i]
      /\ \A i \in (m + 1)..(m + n) : u[i] = t[i - m]
    BY <1>1, <1>2, <1>3, Cat
<1>5. DOMAIN u = 1..(m + n)
    BY <1>4, SeqFacts
<1>6. ASSUME NEW k \in 1..(m + n), u[k].kind # "txn"
      PROVE  k \in 1..m /\ u[k] = s[k]
    <2>1. ASSUME k > m PROVE FALSE
        <3>1. k \in (m + 1)..(m + n) /\ k - m \in 1..n
            BY <2>1
        <3>2. u[k] = t[k - m] /\ t[k - m] \in ToSet(t)
            BY <1>3, <1>4, <3>1 DEF ToSet
        <3>3. QED
            BY <1>6, <3>2
    <2>2. QED
        BY <1>4, <2>1
<1>7. \A kind : kind # "txn" => OfKind(u, kind) = OfKind(s, kind)
    <2>1. ASSUME NEW kind, kind # "txn", NEW k \in OfKind(u, kind)
          PROVE  k \in OfKind(s, kind)
        <3>1. k \in 1..(m + n) /\ u[k].kind = kind
            BY <1>5, <2>1 DEF OfKind
        <3>2. QED
            BY <1>3, <1>6, <2>1, <3>1 DEF OfKind
    <2>2. ASSUME NEW kind, NEW k \in OfKind(s, kind)
          PROVE  k \in OfKind(u, kind)
        <3>1. k \in 1..m /\ s[k].kind = kind
            BY <1>3, <2>2 DEF OfKind
        <3>2. u[k] = s[k] /\ k \in 1..(m + n)
            BY <1>4, <3>1
        <3>3. QED
            BY <1>5, <3>1, <3>2 DEF OfKind
    <2>3. ASSUME NEW kind, kind # "txn"
          PROVE  OfKind(u, kind) = OfKind(s, kind)
        <3>1. PICK A, B : A = OfKind(u, kind) /\ B = OfKind(s, kind)
            OBVIOUS
        <3>2. \A k \in A : k \in B
            BY <2>1, <2>3, <3>1
        <3>3. \A k \in B : k \in A
            BY <2>2, <3>1
        <3>4. A = B
            BY <3>2, <3>3
        <3>5. QED
            BY <3>1, <3>4
    <2>4. QED
        BY <2>3
<1>8. ASSUME NEW kind, NEW k \in OfKind(s, kind)
      PROVE  u[k] = s[k] /\ k \in 1..m
    BY <1>3, <1>4 DEF OfKind
<1>9. InterestOpens(u) = InterestOpens(s)
    <2>1. OfKind(u, "open") = OfKind(s, "open")
        BY <1>7
    <2>2. QED
        BY <1>8, <2>1 DEF InterestOpens
<1>10. \A k \in InterestOpens(s) : u[k] = s[k]
    BY <1>8 DEF InterestOpens
<1>11. InterestAccounts(u) = InterestAccounts(s)
    BY <1>9, <1>10 DEF InterestAccounts
<1>12. ASSUME NEW a \in InterestAccounts(s)
       PROVE  InterestOpen(u, a) = InterestOpen(s, a)
    <2>1. PICK j : IsLast(s, a, j)
        BY <1>2, LastOpen
    <2>2. IsLast(u, a, j)
        BY <1>9, <1>10, <2>1 DEF IsLast
    <2>3. u[j] = s[j]
        BY <1>10, <2>1 DEF IsLast
    <2>4. QED
        BY <1>2, <1>4, <2>1, <2>2, <2>3, LastOpenIs
<1>13. OfKind(u, "balance") = OfKind(s, "balance") /\ OfKind(u, "close") = OfKind(s, "close")
    BY <1>7
<1>14. Zeroed(u) = Zeroed(s)
    BY <1>8, <1>13 DEF Zeroed
<1>15. ASSUME NEW a \in InterestAccounts(u)
       PROVE  \E k \in OfKind(u, "open") : u[k].acct = Income[a]
    <2>1. PICK k \in OfKind(s, "open") : s[k].acct = Income[a]
        BY <1>11, <1>15 DEF Expanded
    <2>2. QED
        BY <1>7, <1>8, <2>1
<1>16. ASSUME NEW k \in OfKind(u, "balance"), u[k].acct \in InterestAccounts(u)
       PROVE  Waits(u, u[k].acct, k - 1)
    <2>1. k \in OfKind(s, "balance") /\ u[k] = s[k] /\ k \in 1..m
        BY <1>8, <1>13, <1>16
    <2>2. PICK a : a = s[k].acct
        OBVIOUS
    <2>3. Waits(s, a, k - 1)
        BY <1>11, <1>16, <2>1, <2>2 DEF Expanded
    <2>4. \A j \in 1..(k - 1) : j \in 1..m
        BY <2>1
    <2>5. \A j \in 1..(k - 1) : u[j] = s[j]
        BY <1>4, <2>4
    <2>6. Waits(u, a, k - 1)
        <3>1. PICK j \in 1..(k - 1) : /\ s[j].kind = "pad" /\ s[j].acct = a
                 /\ \A i \in (j + 1)..(k - 1) : ~(s[i].kind = "balance" /\ s[i].acct = a)
            BY <2>3 DEF Waits
        <3>2. \A i \in (j + 1)..(k - 1) : i \in 1..(k - 1)
            BY <3>1
        <3>3. QED
            BY <2>5, <3>1, <3>2 DEF Waits
    <2>7. QED
        BY <2>1, <2>2, <2>6
<1>17. ASSUME NEW k \in OfKind(u, "close"), u[k].acct \in InterestAccounts(u),
              NEW c \in ToSet(InterestOpen(u, u[k].acct).ccys)
       PROVE  <<u[k].acct, c>> \in Zeroed(u)
    <2>1. k \in OfKind(s, "close") /\ u[k] = s[k]
        BY <1>8, <1>13, <1>17
    <2>2. PICK a : a = s[k].acct
        OBVIOUS
    <2>3. a \in InterestAccounts(s) /\ InterestOpen(u, a) = InterestOpen(s, a)
        BY <1>11, <1>12, <1>17, <2>1, <2>2
    <2>4. <<a, c>> \in Zeroed(s)
        BY <1>17, <2>1, <2>2, <2>3 DEF Expanded
    <2>5. QED
        BY <1>14, <2>1, <2>2, <2>4
<1>18. QED
    BY <1>1, <1>2, <1>15, <1>16, <1>17 DEF Expanded

----------------------------------------------------------------------------
(* The pads of a stream, made transactions *)

(* Where a directive is sorted to: as many as come before it. *)
Earlier(s, i) == {j \in DOMAIN s : Before(s, j, i)}

LEMMA OrderIs ==
    ASSUME NEW kind
    PROVE  DirectiveOrder(kind) \in Int
BY DEF DirectiveOrder

LEMMA BeforeIs ==
    ASSUME NEW s, AreDirectives(s), NEW n \in Nat, DOMAIN s = 1..n
    PROVE  /\ \A i \in 1..n : ~Before(s, i, i)
           /\ \A i, j \in 1..n : i # j => Before(s, i, j) \/ Before(s, j, i)
           /\ \A i, j, k \in 1..n : Before(s, i, j) /\ Before(s, j, k) => Before(s, i, k)
<1>1. PICK day, kind, line : /\ day = [i \in 1..n |-> s[i].date]
                             /\ kind = [i \in 1..n |-> DirectiveOrder(s[i].kind)]
                             /\ line = [i \in 1..n |-> s[i].line]
    OBVIOUS
<1>2. ASSUME NEW i \in 1..n
      PROVE  day[i] \in Int /\ kind[i] \in Int /\ line[i] \in Int
    <2>1. IsParsed(s[i])
        BY DEF AreDirectives, ToSet
    <2>2. s[i].date \in Int /\ s[i].line \in Int
        BY <2>1 DEF IsParsed, IsDirective, Dates
    <2>3. QED
        BY <1>1, <2>2, OrderIs
<1>3. \A i, j \in 1..n : Before(s, i, j) <=>
            \/ day[i] < day[j]
            \/ day[i] = day[j] /\ kind[i] < kind[j]
            \/ day[i] = day[j] /\ kind[i] = kind[j] /\ line[i] < line[j]
            \/ day[i] = day[j] /\ kind[i] = kind[j] /\ line[i] = line[j] /\ i < j
    BY <1>1 DEF Before
<1>4. ASSUME NEW i \in 1..n
      PROVE  ~Before(s, i, i)
    BY <1>2, <1>3
<1>5. ASSUME NEW i \in 1..n, NEW j \in 1..n, i # j
      PROVE  Before(s, i, j) \/ Before(s, j, i)
    <2>1. /\ day[i] \in Int /\ kind[i] \in Int /\ line[i] \in Int
          /\ day[j] \in Int /\ kind[j] \in Int /\ line[j] \in Int
        BY <1>2
    <2>2. QED
        BY <1>3, <1>5, <2>1
<1>6. ASSUME NEW i \in 1..n, NEW j \in 1..n, NEW k \in 1..n, Before(s, i, j), Before(s, j, k)
      PROVE  Before(s, i, k)
    <2>1. /\ day[i] \in Int /\ kind[i] \in Int /\ line[i] \in Int
          /\ day[j] \in Int /\ kind[j] \in Int /\ line[j] \in Int
          /\ day[k] \in Int /\ kind[k] \in Int /\ line[k] \in Int
        BY <1>2
    <2>2. \/ day[i] < day[j]
          \/ day[i] = day[j] /\ kind[i] < kind[j]
          \/ day[i] = day[j] /\ kind[i] = kind[j] /\ line[i] < line[j]
          \/ day[i] = day[j] /\ kind[i] = kind[j] /\ line[i] = line[j] /\ i < j
        BY <1>3, <1>6
    <2>3. \/ day[j] < day[k]
          \/ day[j] = day[k] /\ kind[j] < kind[k]
          \/ day[j] = day[k] /\ kind[j] = kind[k] /\ line[j] < line[k]
          \/ day[j] = day[k] /\ kind[j] = kind[k] /\ line[j] = line[k] /\ j < k
        BY <1>3, <1>6
    <2>4. \/ day[i] < day[k]
          \/ day[i] = day[k] /\ kind[i] < kind[k]
          \/ day[i] = day[k] /\ kind[i] = kind[k] /\ line[i] < line[k]
          \/ day[i] = day[k] /\ kind[i] = kind[k] /\ line[i] = line[k] /\ i < k
        BY <2>1, <2>2, <2>3
    <2>5. QED
        BY <1>3, <2>4
<1>7. QED
    BY <1>4, <1>5, <1>6

(* How many come before tells directives apart, and counts from zero. *)
LEMMA EarlierIs ==
    ASSUME NEW s, AreDirectives(s), NEW n \in Nat, DOMAIN s = 1..n
    PROVE  /\ \A i \in 1..n : Cardinality(Earlier(s, i)) \in 0..(n - 1)
           /\ \A i, k \in 1..n : i # k => Cardinality(Earlier(s, i)) # Cardinality(Earlier(s, k))
<1>1. /\ \A i \in 1..n : ~Before(s, i, i)
      /\ \A i, j \in 1..n : i # j => Before(s, i, j) \/ Before(s, j, i)
      /\ \A i, j, k \in 1..n : Before(s, i, j) /\ Before(s, j, k) => Before(s, i, k)
    BY BeforeIs
<1>2. IsFiniteSet(1..n) /\ Cardinality(1..n) = n
    <2>1. 1 \in Int /\ n \in Int
        OBVIOUS
    <2>2. IsFiniteSet(1..n) /\ Cardinality(1..n) = IF 1 > n THEN 0 ELSE n - 1 + 1
        BY <2>1, FS_Interval
    <2>3. QED
        BY <2>2
<1>3. ASSUME NEW i \in 1..n
      PROVE  Earlier(s, i) \in SUBSET (1..n) /\ i \notin Earlier(s, i)
    BY <1>1 DEF Earlier
<1>4. ASSUME NEW i \in 1..n
      PROVE  IsFiniteSet(Earlier(s, i)) /\ Cardinality(Earlier(s, i)) \in 0..(n - 1)
    <2>1. Earlier(s, i) \in SUBSET (1..n)
        BY <1>3
    <2>2. /\ IsFiniteSet(Earlier(s, i)) /\ Cardinality(Earlier(s, i)) <= n
          /\ n = Cardinality(Earlier(s, i)) => 1..n = Earlier(s, i)
        BY <1>2, <2>1, FS_Subset
    <2>3. Cardinality(Earlier(s, i)) \in Nat
        BY <2>2, FS_CardinalityType
    <2>4. n # Cardinality(Earlier(s, i))
        BY <1>3, <2>2
    <2>5. QED
        BY <2>2, <2>3, <2>4
<1>5. ASSUME NEW i \in 1..n, NEW k \in 1..n, Before(s, i, k)
      PROVE  Cardinality(Earlier(s, i)) # Cardinality(Earlier(s, k))
    <2>1. Earlier(s, i) \in SUBSET Earlier(s, k)
        BY <1>1, <1>5 DEF Earlier
    <2>2. i \in Earlier(s, k) /\ i \notin Earlier(s, i)
        BY <1>3, <1>5 DEF Earlier
    <2>3. IsFiniteSet(Earlier(s, k))
        BY <1>4
    <2>4. Cardinality(Earlier(s, k)) = Cardinality(Earlier(s, i)) => Earlier(s, k) = Earlier(s, i)
        BY <2>1, <2>3, FS_Subset
    <2>5. QED
        BY <2>2, <2>4
<1>6. QED
    BY <1>1, <1>4, <1>5

(* A sorted list has on each place the one directive that has as many      *)
(* before it as come before the place.                                     *)
Placed(s, n, t) ==
    /\ DOMAIN t = 1..n /\ IsSeq(t)
    /\ \A k \in 1..n : \E i \in 1..n :
            /\ Cardinality(Earlier(s, i)) = k - 1 /\ t[k] = s[i]
            /\ \A j \in 1..n : Cardinality(Earlier(s, j)) = k - 1 => j = i

LEMMA PlaceIs ==
    ASSUME NEW s, AreDirectives(s), NEW n \in Nat, DOMAIN s = 1..n,
           NEW t, t = SortedDirectives(s)
    PROVE  Placed(s, n, t)
<1>2. PICK rank : rank = [i \in 1..n |-> Cardinality(Earlier(s, i))]
    OBVIOUS
<1>3. /\ \A i \in 1..n : Cardinality(Earlier(s, i)) \in 0..(n - 1)
      /\ \A i, k \in 1..n : i # k => Cardinality(Earlier(s, i)) # Cardinality(Earlier(s, k))
    BY EarlierIs
<1>4. rank \in Injection(1..n, 0..(n - 1))
    <2>1. rank \in [1..n -> 0..(n - 1)] /\ DOMAIN rank = 1..n
        BY <1>2, <1>3
    <2>2. \A i, k \in 1..n : rank[i] = rank[k] => i = k
        BY <1>2, <1>3
    <2>3. IsInjective(rank)
        BY <2>1, <2>2 DEF IsInjective
    <2>4. QED
        BY <2>1, <2>3 DEF Injection
<1>5. /\ IsFiniteSet(1..n) /\ Cardinality(1..n) = n
      /\ IsFiniteSet(0..(n - 1)) /\ Cardinality(0..(n - 1)) = n
    <2>1. 1 \in Int /\ n \in Int /\ 0 \in Int /\ n - 1 \in Int
        OBVIOUS
    <2>2. IsFiniteSet(1..n) /\ Cardinality(1..n) = IF 1 > n THEN 0 ELSE n - 1 + 1
        BY <2>1, FS_Interval
    <2>3. IsFiniteSet(0..(n - 1)) /\ Cardinality(0..(n - 1)) = IF 0 > n - 1 THEN 0 ELSE n - 1 - 0 + 1
        BY <2>1, FS_Interval
    <2>4. QED
        BY <2>2, <2>3
<1>6. rank \in Surjection(1..n, 0..(n - 1))
    BY <1>4, <1>5, FS_Injection
<1> DEFINE place(k) == CHOOSE i \in DOMAIN s : Cardinality({j \in DOMAIN s : Before(s, j, i)}) = k - 1
<1>7. ASSUME NEW k \in 1..n
      PROVE  /\ place(k) \in 1..n /\ Cardinality(Earlier(s, place(k))) = k - 1
             /\ \A j \in 1..n : Cardinality(Earlier(s, j)) = k - 1 => j = place(k)
    <2>1. k - 1 \in 0..(n - 1)
        OBVIOUS
    <2>2. PICK i \in 1..n : rank[i] = k - 1
        BY <1>6, <2>1 DEF Surjection
    <2>3. Cardinality({j \in DOMAIN s : Before(s, j, i)}) = k - 1
        BY <1>2, <2>2 DEF Earlier
    <2>4. /\ place(k) \in DOMAIN s
          /\ Cardinality({j \in DOMAIN s : Before(s, j, place(k))}) = k - 1
        BY <2>3
    <2> HIDE DEF place
    <2>5. place(k) \in 1..n /\ Cardinality(Earlier(s, place(k))) = k - 1
        BY <2>4 DEF Earlier
    <2>6. ASSUME NEW j \in 1..n, Cardinality(Earlier(s, j)) = k - 1
          PROVE  j = place(k)
        BY <1>3, <2>5, <2>6
    <2>7. QED
        BY <2>5, <2>6
<1>8. t = [k \in 1..n |-> s[place(k)]]
    BY DEF SortedDirectives
<1> HIDE DEF place
<1>10. t = [k \in 1..n |-> t[k]]
    BY <1>8
<1>11. IsSeq(t) /\ DOMAIN t = 1..n
    BY <1>10, FcnIsSeq
<1>12. ASSUME NEW k \in 1..n
       PROVE  \E i \in 1..n : /\ Cardinality(Earlier(s, i)) = k - 1 /\ t[k] = s[i]
                              /\ \A j \in 1..n : Cardinality(Earlier(s, j)) = k - 1 => j = i
    <2>1. PICK i \in 1..n : i = place(k)
        BY <1>7
    <2>2. t[k] = s[i]
        BY <1>8, <2>1
    <2>3. QED
        BY <1>7, <2>1, <2>2
<1>13. QED
    BY <1>11, <1>12 DEF Placed

(* Sorting a list of directives takes each of its places from the list. *)
LEMMA SortedAre ==
    ASSUME NEW s, AreDirectives(s)
    PROVE  AreDirectives(SortedDirectives(s))
<1>1. PICK n \in Nat : DOMAIN s = 1..n
    BY SeqFacts DEF AreDirectives
<1>2. PICK t : t = SortedDirectives(s)
    OBVIOUS
<1>3. Placed(s, n, t)
    BY <1>1, <1>2, PlaceIs
<1>4. \A x \in ToSet(t) : x \in ToSet(s)
    BY <1>1, <1>3 DEF ToSet, Placed
<1>5. QED
    BY <1>2, <1>3, <1>4 DEF AreDirectives, Placed

LEMMA PadTxnIs ==
    ASSUME NEW pad \in Pad, NEW b, b.acct \in Accounts, b.comm \in Commodities, NEW diff \in Num
    PROVE  IsParsed(PadTxn(pad, b, diff)) /\ PadTxn(pad, b, diff).kind = "txn"
<1>1. ASSUME NEW a \in Accounts, NEW n \in Num, NEW c \in Commodities
      PROVE  Bare(a, n, c) \in Posting
    <2>1. PICK units, cost, price : /\ units = [kind |-> "amount", n |-> n, comm |-> c]
                                    /\ cost = [kind |-> "none"] /\ price = [kind |-> "none"]
        OBVIOUS
    <2>2. units \in PostingUnits
        BY <1>1, <2>1 DEF PostingUnits, Quantity
    <2>3. cost \in PostingCost
        BY <2>1 DEF PostingCost
    <2>4. price \in PostingPrice
        BY <2>1 DEF PostingPrice
    <2>5. Bare(a, n, c) = [acct |-> a, units |-> units, cost |-> cost, price |-> price,
                           closing |-> FALSE]
        BY <2>1 DEF Bare
    <2>6. QED
        BY <1>1, <2>2, <2>3, <2>4, <2>5 DEF Posting
<1>2. pad.from \in Accounts /\ pad.date \in Dates /\ pad.line \in Nat
    BY DEF Pad
<1>3. RNeg(diff) \in Num
    BY NegNum
<1>4. PICK p \in Posting, q \in Posting : p = Bare(b.acct, diff, b.comm) /\ q = Bare(pad.from, RNeg(diff), b.comm)
    BY <1>1, <1>2, <1>3
<1>5. PICK ps : ps = <<p, q>>
    OBVIOUS
<1>6. ps \in Seq(Posting)
    BY <1>5
<1>7. PICK txn : txn = PadTxn(pad, b, diff)
    OBVIOUS
<1>8. txn = [kind |-> "txn", date |-> pad.date, line |-> pad.line, flag |-> "P", postings |-> ps]
    BY <1>4, <1>5, <1>7 DEF PadTxn
<1>9. txn \in Transaction
    BY <1>2, <1>6, <1>8 DEF Transaction, Flags
<1>10. /\ {"kind", "date", "line"} \subseteq DOMAIN txn
       /\ txn.kind = "txn" /\ txn.date \in Dates /\ txn.line \in Nat
    BY <1>2, <1>8
<1>11. IsDirective(txn)
    BY <1>9, <1>10 DEF IsDirective
<1>12. QED
    BY <1>7, <1>10, <1>11 DEF IsParsed

(* Only transactions are made of pads. *)
AreTxns(t) == AreDirectives(t) /\ \A d \in ToSet(t) : d.kind = "txn"

LEMMA TxnMore ==
    ASSUME NEW t, AreTxns(t), NEW d, IsParsed(d), d.kind = "txn"
    PROVE  AreTxns(Append(t, d))
<1>1. IsSeq(t)
    BY DEF AreTxns, AreDirectives
<1>2. PICK S : S = ToSet(t) \cup {d}
    OBVIOUS
<1>3. t \in Seq(S)
    BY <1>1, <1>2, SeqMonotonic DEF IsSeq
<1>4. PICK n \in Nat : n = Len(t) /\ DOMAIN t = 1..n
    BY <1>1, SeqFacts
<1>5. PICK u : u = Append(t, d)
    OBVIOUS
<1>6. /\ u \in Seq(S) /\ Len(u) = n + 1
      /\ \A i \in 1..n : u[i] = t[i]
      /\ u[n + 1] = d
    BY <1>2, <1>3, <1>4, <1>5, AppendProperties
<1>7. IsSeq(u) /\ DOMAIN u = 1..(n + 1)
    BY <1>6, IsSeqOf, SeqFacts
<1>8. ASSUME NEW x \in ToSet(u)
      PROVE  x \in ToSet(t) \/ x = d
    <2>1. PICK i \in 1..(n + 1) : x = u[i]
        BY <1>7 DEF ToSet
    <2>2. CASE i = n + 1
        BY <1>6, <2>1, <2>2
    <2>3. CASE i # n + 1
        <3>1. i \in 1..n /\ x = t[i]
            BY <1>6, <2>1, <2>3
        <3>2. QED
            BY <1>4, <3>1 DEF ToSet
    <2>4. QED
        BY <2>2, <2>3
<1>9. QED
    BY <1>5, <1>7, <1>8 DEF AreTxns, AreDirectives

(* The probe of ExpandPads, by a run over the sorted directives. *)
LEMMA ProbeRun ==
    ASSUME NEW s, AreDirectives(s), NEW tolerance \in [Commodities -> Num],
           NEW seq, seq = SortedDirectives(s), NEW n \in Nat, n = Len(seq)
    PROVE  \E v : /\ v[0].probe = New(tolerance)
                  /\ \A i \in 1..n : v[i] = Probe(v[i - 1], seq[i])
                  /\ \A i \in 0..n : AreTxns(v[i].synth) /\ v[i].probe \in Engine
                  /\ PadTxns(s, tolerance) = v[n].synth
<1>1. AreDirectives(seq)
    BY SortedAre
<1>2. DOMAIN seq = 1..n
    BY <1>1, SeqFacts DEF AreDirectives
<1>3. PICK base : base = [probe |-> New(tolerance), synth |-> << >>]
    OBVIOUS
<1>4. PICK v : IsRun(v, "probe", s, s, base, seq)
    BY RunExists
<1>5. /\ v[0] = base
      /\ \A i \in 1..n : v[i] = ExpandStep("probe", s, s, v[i - 1], seq[i])
    <2>1. Len(seq) \in Nat
        BY <1>2
    <2>2. /\ v[0] = base
          /\ \A i \in 1..Len(seq) : v[i] = ExpandStep("probe", s, s, v[i - 1], seq[i])
        BY ONLY <2>1, <1>4, RunIs
    <2>3. QED
        BY <1>2, <2>2
<1>6. \A i \in 1..n : v[i] = Probe(v[i - 1], seq[i])
    BY <1>5 DEF ExpandStep
<1> DEFINE K == {i \in Nat : i <= n => AreTxns(v[i].synth) /\ v[i].probe \in Engine}
<1>7. 0 \in K
    <2>1. v[0].synth = << >>
        BY <1>3, <1>5
    <2>2. AreTxns(<< >>)
        BY NoneIs, NoneAll DEF AreTxns, AreDirectives
    <2>3. v[0].probe = New(tolerance)
        BY <1>3, <1>5
    <2>4. QED
        BY <2>1, <2>2, <2>3, NewEngine
<1>8. ASSUME NEW i \in Nat, i \in K, i + 1 <= n
      PROVE  AreTxns(v[i + 1].synth) /\ v[i + 1].probe \in Engine
    <2>1. PICK k \in 1..n : k = i + 1 /\ k - 1 = i
        BY <1>8
    <2>2. AreTxns(v[i].synth) /\ v[i].probe \in Engine
        BY <1>8
    <2>3. v[k] = Probe(v[k - 1], seq[k])
        BY <1>6
    <2>4. PICK acc, d : acc = v[i] /\ d = seq[k]
        OBVIOUS
    <2>5. v[k] = Probe(acc, d)
        BY <2>1, <2>3, <2>4
    <2>6. PICK pt : pt = PadTxn(acc.probe.pad[d.acct], d, RSub(d.n, acc.probe.bal[d.acct][d.comm]))
        OBVIOUS
    <2>7. IsParsed(d)
        BY <1>1, <1>2, <2>4 DEF AreDirectives, ToSet
    <2>8. v[k].probe = BookDirective(acc.probe, d)
        BY <2>5 DEF Probe
    <2>9. v[k].probe \in Engine
        BY <2>2, <2>4, <2>7, <2>8, ParsedIs, BookDirectiveIs
    <2>10. CASE Materializes(acc.probe, d)
        <3>1. d.acct \in Accounts /\ acc.probe.pad[d.acct] # NoPad
            BY <2>7, <2>10, ParsedIs DEF Materializes
        <3>2. d.comm \in Commodities /\ d.n \in Num
            BY <2>7, <2>10, ParsedIs DEF Materializes
        <3>3. PICK pad \in Pad, diff \in Num :
                pad = acc.probe.pad[d.acct] /\ diff = RSub(d.n, acc.probe.bal[d.acct][d.comm])
            <4>1. acc.probe.pad[d.acct] \in Pad
                BY <2>2, <2>4, <3>1 DEF Engine
            <4>2. acc.probe.bal[d.acct][d.comm] \in Num
                BY <2>2, <2>4, <3>1, <3>2 DEF Engine, Balances
            <4>3. RSub(d.n, acc.probe.bal[d.acct][d.comm]) \in Num
                BY <3>2, <4>2, SubNum
            <4>4. QED
                BY <4>1, <4>3
        <3>7. IsParsed(pt) /\ pt.kind = "txn"
            BY <2>6, <3>1, <3>2, <3>3, PadTxnIs
        <3>4. v[k].synth = Append(acc.synth, pt)
            BY <2>5, <2>6, <2>10 DEF Probe
        <3>5. AreTxns(Append(acc.synth, pt))
            BY <2>2, <2>4, <3>7, TxnMore
        <3>6. QED
            BY <2>1, <2>9, <3>4, <3>5
    <2>11. CASE ~Materializes(acc.probe, d)
        <3>1. v[k].synth = acc.synth
            BY <2>5, <2>11 DEF Probe
        <3>2. QED
            BY <2>1, <2>2, <2>4, <2>9, <3>1
    <2>12. QED
        BY <2>10, <2>11
<1>9. \A i \in Nat : i \in K => i + 1 \in K
    BY <1>8
<1> HIDE DEF K
<1>10. Nat \subseteq K
    BY <1>7, <1>9, SetInduction
<1>11. \A i \in 0..n : AreTxns(v[i].synth) /\ v[i].probe \in Engine
    BY <1>10 DEF K
<1>12. ProbeTable(base, seq)[Len(seq)] = {v[Len(seq)]}
    <2>1. Len(seq) \in Nat
        OBVIOUS
    <2>2. QED
        BY ONLY <2>1, <1>4, ProbeTableIs
<1>13. UNION {ProbeTable(base, q)[Len(q)] : q \in {seq}} = {v[n]}
    BY <1>12
<1>14. UNION {ProbeTable([probe |-> New(tolerance), synth |-> << >>], q)[Len(q)] : q \in {SortedDirectives(s)}} = {v[n]}
    BY <1>3, <1>13
<1>15. PadTxns(s, tolerance) = (CHOOSE last \in {v[n]} : TRUE).synth
    BY <1>14, ProbedBy, Zenon
<1>16. PadTxns(s, tolerance) = v[n].synth
    BY <1>15, TheOnly
<1>17. v[0].probe = New(tolerance)
    BY <1>3, <1>5
<1>18. QED
    BY <1>6, <1>11, <1>16, <1>17

LEMMA PadTxnsAre ==
    ASSUME NEW s, AreDirectives(s), NEW tolerance \in [Commodities -> Num]
    PROVE  AreTxns(PadTxns(s, tolerance))
<1>1. PICK seq : seq = SortedDirectives(s)
    OBVIOUS
<1>2. PICK n \in Nat : n = Len(seq)
    BY <1>1, SortedAre, SeqFacts DEF AreDirectives
<1>3. \E v : AreTxns(v[n].synth) /\ PadTxns(s, tolerance) = v[n].synth
    BY <1>1, <1>2, ProbeRun
<1>4. QED
    BY <1>3

(* A stream is booked by an engine, in the order of its dates. *)
LEMMA BookRun ==
    ASSUME NEW s, AreDirectives(s), NEW e \in Engine,
           NEW seq, seq = SortedDirectives(s), NEW n \in Nat, n = Len(seq)
    PROVE  \E v : /\ v[0] = e
                  /\ \A i \in 1..n : v[i] = BookDirective(v[i - 1], seq[i])
                  /\ \A i \in 0..n : v[i] \in Engine
                  /\ Book(e, s) = v[n]
<1>1. AreDirectives(seq)
    BY SortedAre
<1>2. DOMAIN seq = 1..n
    BY <1>1, SeqFacts DEF AreDirectives
<1>3. PICK v : IsRun(v, "book", s, s, e, seq)
    BY RunExists
<1>4. /\ v[0] = e
      /\ \A i \in 1..n : v[i] = ExpandStep("book", s, s, v[i - 1], seq[i])
    <2>1. Len(seq) \in Nat
        BY <1>2
    <2>2. /\ v[0] = e
          /\ \A i \in 1..Len(seq) : v[i] = ExpandStep("book", s, s, v[i - 1], seq[i])
        BY ONLY <2>1, <1>3, RunIs
    <2>3. QED
        BY <1>2, <2>2
<1>5. \A i \in 1..n : v[i] = BookDirective(v[i - 1], seq[i])
    BY <1>4 DEF ExpandStep
<1> DEFINE K == {i \in Nat : i <= n => v[i] \in Engine}
<1>6. 0 \in K
    BY <1>4
<1>7. ASSUME NEW i \in Nat, i \in K, i + 1 <= n
      PROVE  v[i + 1] \in Engine
    <2>1. PICK k \in 1..n : k = i + 1 /\ k - 1 = i
        BY <1>7
    <2>2. v[i] \in Engine
        BY <1>7
    <2>3. IsParsed(seq[k])
        BY <1>1, <1>2 DEF AreDirectives, ToSet
    <2>4. v[k] = BookDirective(v[k - 1], seq[k])
        BY <1>5
    <2>5. BookDirective(v[i], seq[k]) \in Engine
        BY <2>2, <2>3, ParsedIs, BookDirectiveIs
    <2>6. QED
        BY <2>1, <2>4, <2>5
<1>8. \A i \in Nat : i \in K => i + 1 \in K
    BY <1>7
<1> HIDE DEF K
<1>9. Nat \subseteq K
    BY <1>6, <1>8, SetInduction
<1>10. \A i \in 0..n : v[i] \in Engine
    BY <1>9 DEF K
<1>11. BookTable(e, seq)[Len(seq)] = {v[Len(seq)]}
    <2>1. Len(seq) \in Nat
        OBVIOUS
    <2>2. QED
        BY ONLY <2>1, <1>3, BookTableIs
<1>12. UNION {BookTable(e, q)[Len(q)] : q \in {seq}} = {v[n]}
    BY <1>11
<1>13. UNION {BookTable(e, q)[Len(q)] : q \in {SortedDirectives(s)}} = {v[n]}
    BY <1>12
<1>14. Book(e, s) = CHOOSE last \in {v[n]} : TRUE
    BY <1>13, BookedBy, Zenon
<1>15. Book(e, s) = v[n]
    BY <1>14, TheOnly
<1>16. QED
    BY <1>4, <1>5, <1>10, <1>15

LEMMA BookIsEngine ==
    ASSUME NEW s, AreDirectives(s), NEW e \in Engine
    PROVE  Book(e, s) \in Engine
<1>1. PICK seq : seq = SortedDirectives(s)
    OBVIOUS
<1>2. PICK n \in Nat : n = Len(seq)
    BY <1>1, SortedAre, SeqFacts DEF AreDirectives
<1>3. \E v : v[n] \in Engine /\ Book(e, s) = v[n]
    BY <1>1, <1>2, BookRun
<1>4. QED
    BY <1>3

LEMMA PadsKeepExpanded ==
    ASSUME NEW s, Expanded(s), NEW tolerance \in [Commodities -> Num]
    PROVE  Expanded(ExpandPads(s, tolerance))
<1>1. AreTxns(PadTxns(s, tolerance))
    BY PadTxnsAre DEF Expanded
<1>2. QED
    BY <1>1, TxnsAfter DEF AreTxns, ExpandPads

----------------------------------------------------------------------------
(* The prices of dated costs, and the zero assertions and closes of marks *)

NoneAre == AreDirectives(<< >>)

LEMMA NothingAre == NoneAre
BY NoneIs, NoneAll DEF AreDirectives, NoneAre

LEMMA SingleAre ==
    ASSUME NEW d, IsParsed(d)
    PROVE  AreDirectives(<<d>>)
BY Single, SingleAll DEF AreDirectives

LEMMA OneOrNone ==
    ASSUME NEW d, IsParsed(d), NEW wanted
    PROVE  AreDirectives(IF wanted THEN <<d>> ELSE << >>)
BY SingleAre, NothingAre DEF NoneAre

(* Only prices are made of dated costs. *)
ArePrices(t) == AreDirectives(t) /\ \A d \in ToSet(t) : d.kind = "price"

LEMMA OnePrice ==
    ASSUME NEW d, IsParsed(d), d.kind = "price"
    PROVE  ArePrices(<<d>>)
BY SingleAre, SingleAll DEF ArePrices

LEMMA NoPrice ==
    ASSUME NEW t, t = << >>
    PROVE  ArePrices(t)
BY NothingAre, NoneAll DEF ArePrices, NoneAre

LEMMA PricesFlat ==
    ASSUME NEW seqs, IsSeq(seqs), \A i \in 1..Len(seqs) : ArePrices(seqs[i])
    PROVE  ArePrices(FlattenSeq(seqs))
<1>1. /\ \A i \in 1..Len(seqs) : AreDirectives(seqs[i])
      /\ \A i \in 1..Len(seqs) : IsSeq(seqs[i])
    BY DEF ArePrices, AreDirectives
<1>2. AreDirectives(FlattenSeq(seqs))
    BY <1>1, AreFlat
<1>3. ToSet(FlattenSeq(seqs)) = UNION {ToSet(seqs[i]) : i \in 1..Len(seqs)}
    BY <1>1, FlattenIs
<1>4. QED
    BY <1>2, <1>3 DEF ArePrices

LEMMA PriceIs ==
    ASSUME NEW x, IsParsed(x), x.kind = "txn", NEW p \in ToSet(x.postings),
           p.cost.kind = "unit", p.cost.date # NoDate, p.units.kind \in {"amount", "noNumber"}
    PROVE  IsParsed(PriceOf(x, p)) /\ PriceOf(x, p).kind = "price"
<1>1. PICK cost \in PostingCost, units \in PostingUnits : cost = p.cost /\ units = p.units
    BY ParsedTxn DEF Posting
<1>2. cost.n \in Num /\ cost.comm \in Commodities /\ cost.date \in Dates
    BY <1>1 DEF PostingCost, Dates
<1>3. units.comm \in Commodities
    BY <1>1 DEF PostingUnits, Quantity
<1>4. PICK d : d = PriceOf(x, p)
    OBVIOUS
<1>5. d = [kind |-> "price", date |-> cost.date, line |-> x.line, base |-> units.comm,
           n |-> cost.n, quote |-> cost.comm]
    BY <1>1, <1>4 DEF PriceOf
<1>6. x.line \in Nat
    BY ParsedIs
<1>7. /\ {"kind", "date", "line", "base", "n", "quote"} \subseteq DOMAIN d
      /\ d.kind = "price" /\ d.date \in Dates /\ d.line \in Nat
      /\ d.base \in Commodities /\ d.quote \in Commodities /\ d.n \in Num
    BY <1>2, <1>3, <1>5, <1>6
<1>8. IsDirective(d)
    BY <1>7 DEF IsDirective
<1>9. QED
    BY <1>4, <1>7, <1>8 DEF IsParsed

LEMMA DatedCostsAre ==
    ASSUME NEW s, AreDirectives(s)
    PROVE  ArePrices(DatedCosts(s))
<1> DEFINE dated(p) == /\ p.cost.kind = "unit" /\ p.cost.date # NoDate
                       /\ p.units.kind \in {"amount", "noNumber"}
           costs(x) == [j \in DOMAIN x.postings |->
                        IF dated(x.postings[j]) THEN <<PriceOf(x, x.postings[j])>> ELSE << >>]
           parts == [i \in DOMAIN s |-> IF s[i].kind = "txn" THEN FlattenSeq(costs(s[i])) ELSE << >>]
<1>1. DatedCosts(s) = FlattenSeq(parts)
    BY DEF DatedCosts
<1>2. PICK n \in Nat : n = Len(s) /\ DOMAIN s = 1..n
    BY SeqFacts DEF AreDirectives
<1>3. ASSUME NEW x, IsParsed(x), x.kind = "txn"
      PROVE  ArePrices(FlattenSeq(costs(x)))
    <2>1. IsSeq(x.postings)
        BY <1>3, ParsedTxn
    <2>2. PICK m \in Nat : DOMAIN x.postings = 1..m
        BY <2>1, SeqFacts
    <2>3. ASSUME NEW p \in ToSet(x.postings)
          PROVE  ArePrices(IF dated(p) THEN <<PriceOf(x, p)>> ELSE << >>)
        <3>1. CASE dated(p)
            <4>1. IsParsed(PriceOf(x, p)) /\ PriceOf(x, p).kind = "price"
                BY <1>3, <2>3, <3>1, PriceIs
            <4>2. QED
                BY <3>1, <4>1, OnePrice
        <3>2. CASE ~dated(p)
            BY <3>2, NoPrice
        <3>3. QED
            BY <3>1, <3>2
    <2>4. PICK seqs : seqs = costs(x)
        OBVIOUS
    <2>5. seqs = [j \in 1..m |-> IF dated(x.postings[j]) THEN <<PriceOf(x, x.postings[j])>> ELSE << >>]
        BY <2>2, <2>4
    <2> HIDE DEF dated
    <2>6. \A j \in 1..m : ArePrices(seqs[j])
        <3>1. \A j \in 1..m : x.postings[j] \in ToSet(x.postings)
            BY <2>2 DEF ToSet
        <3>2. QED
            BY <2>3, <2>5, <3>1
    <2>7. seqs = [j \in 1..m |-> seqs[j]]
        BY <2>5
    <2>8. IsSeq(seqs) /\ Len(seqs) = m
        BY <2>7, FcnIsSeq
    <2>9. ArePrices(FlattenSeq(seqs))
        BY <2>6, <2>8, PricesFlat
    <2>10. QED
        BY <2>4, <2>9
<1>4. PICK seqs : seqs = parts
    OBVIOUS
<1> DEFINE named(x) == FlattenSeq(costs(x))
<1>5. seqs = [i \in 1..n |-> IF s[i].kind = "txn" THEN named(s[i]) ELSE << >>]
    BY <1>2, <1>4
<1>6. \A x : IsParsed(x) /\ x.kind = "txn" => ArePrices(named(x))
    BY <1>3
<1> HIDE DEF named, costs, dated
<1>7. ASSUME NEW i \in 1..n
      PROVE  ArePrices(seqs[i])
    <2>1. IsParsed(s[i])
        BY <1>2 DEF AreDirectives, ToSet
    <2>2. seqs[i] = IF s[i].kind = "txn" THEN named(s[i]) ELSE << >>
        BY <1>5
    <2>3. CASE s[i].kind = "txn"
        BY <1>6, <2>1, <2>2, <2>3
    <2>4. CASE s[i].kind # "txn"
        BY <2>2, <2>4, NoPrice
    <2>5. QED
        BY <2>3, <2>4
<1>8. seqs = [i \in 1..n |-> seqs[i]]
    BY <1>5
<1>9. IsSeq(seqs) /\ Len(seqs) = n
    BY <1>8, FcnIsSeq
<1>10. ArePrices(FlattenSeq(seqs))
    BY <1>7, <1>9, PricesFlat
<1>11. QED
    BY <1>1, <1>4, <1>10

LEMMA NewPricesAre ==
    ASSUME NEW s, AreDirectives(s)
    PROVE  ArePrices(NewPrices(s))
<1>1. PICK found : found = DatedCosts(s)
    OBVIOUS
<1>2. ArePrices(found)
    BY <1>1, DatedCostsAre
<1> DEFINE fresh(k) == /\ ~\E i \in OfKind(s, "price") : SamePoint(s[i], found[k])
                       /\ ~\E j \in 1..(k - 1) : SamePoint(found[j], found[k])
<1>3. PICK seqs : seqs = [k \in DOMAIN found |-> IF fresh(k) THEN <<found[k]>> ELSE << >>]
    OBVIOUS
<1>4. NewPrices(s) = FlattenSeq(seqs)
    BY <1>1, <1>3 DEF NewPrices
<1> HIDE DEF fresh
<1>5. PICK n \in Nat : DOMAIN found = 1..n
    BY <1>2, SeqFacts DEF ArePrices, AreDirectives
<1>6. ASSUME NEW k \in 1..n
      PROVE  ArePrices(seqs[k])
    <2>1. IsParsed(found[k]) /\ found[k].kind = "price"
        BY <1>2, <1>5 DEF ArePrices, AreDirectives, ToSet
    <2>2. seqs[k] = IF fresh(k) THEN <<found[k]>> ELSE << >>
        BY <1>3, <1>5
    <2>3. CASE fresh(k)
        BY <2>1, <2>2, <2>3, OnePrice
    <2>4. CASE ~fresh(k)
        BY <2>2, <2>4, NoPrice
    <2>5. QED
        BY <2>3, <2>4
<1>7. seqs = [k \in 1..n |-> seqs[k]]
    BY <1>3, <1>5
<1>8. IsSeq(seqs) /\ Len(seqs) = n
    BY <1>7, FcnIsSeq
<1>9. QED
    BY <1>4, <1>6, <1>8, PricesFlat

(* A price database takes what price directives observe. *)
LEMMA PointAdded ==
    ASSUME NEW db, PriceTable(db), NEW p, IsParsed(p), p.kind = "price"
    PROVE  PriceTable(Observe(db, p))
<1>1. PICK base \in Commodities, quote \in Commodities, n \in Num :
        base = p.base /\ quote = p.quote /\ n = p.n
    BY DEF IsParsed
<1>2. PICK day \in Int : day = p.date
    BY ParsedIs
<1>3. PICK key \in Commodities \X Commodities : key = <<base, quote>>
    OBVIOUS
<1>4. PICK old : old = db[key] /\ \A d \in DOMAIN old : d \in Int /\ old[d] \in Num
    BY <1>3 DEF PriceTable
<1>5. PICK series : series = [d \in DOMAIN old \cup {day} |-> IF d = day THEN n ELSE old[d]]
    OBVIOUS
<1>6. \A d \in DOMAIN series : d \in Int /\ series[d] \in Num
    BY <1>4, <1>5
<1>7. PICK db2 : db2 = [db EXCEPT ![key] = series]
    OBVIOUS
<1>8. Observe(db, p) = db2
    BY <1>1, <1>2, <1>3, <1>4, <1>5, <1>7 DEF Observe, AddPoint
<1>9. /\ DOMAIN db2 = Commodities \X Commodities
      /\ \A k \in Commodities \X Commodities : db2[k] = IF k = key THEN series ELSE db[k]
    BY <1>3, <1>7 DEF PriceTable
<1>10. ASSUME NEW b \in Commodities, NEW q \in Commodities, NEW d \in DOMAIN db2[<<b, q>>]
       PROVE  d \in Int /\ db2[<<b, q>>][d] \in Num
    <2>1. PICK k \in Commodities \X Commodities : k = <<b, q>>
        OBVIOUS
    <2>2. CASE k = key
        BY <1>6, <1>9, <1>10, <2>1, <2>2
    <2>3. CASE k # key
        BY <1>9, <1>10, <2>1, <2>3 DEF PriceTable
    <2>4. QED
        BY <2>2, <2>3
<1>11. QED
    BY <1>8, <1>9, <1>10 DEF PriceTable

LEMMA PricesLoaded ==
    ASSUME NEW db, PriceTable(db), NEW seq, IsSeq(seq),
           \A p \in ToSet(seq) : IsParsed(p) /\ p.kind = "price",
           NEW last, last = CHOOSE x \in UNION {ObserveTable(db, q)[Len(q)] : q \in {seq}} : TRUE
    PROVE  PriceTable(last)
<1>2. PICK n \in Nat : n = Len(seq) /\ DOMAIN seq = 1..n
    BY SeqFacts
<1>3. PICK v : IsRun(v, "price", seq, seq, db, seq)
    BY <1>2, RunExists
<1>4. /\ v[0] = db
      /\ \A i \in 1..n : v[i] = ExpandStep("price", seq, seq, v[i - 1], seq[i])
    <2>1. Len(seq) \in Nat
        BY <1>2
    <2>2. /\ v[0] = db
          /\ \A i \in 1..Len(seq) : v[i] = ExpandStep("price", seq, seq, v[i - 1], seq[i])
        BY ONLY <2>1, <1>3, RunIs
    <2>3. QED
        BY <1>2, <2>2
<1>5. \A i \in 1..n : v[i] = Observe(v[i - 1], seq[i])
    BY <1>4 DEF ExpandStep
<1> DEFINE K == {i \in Nat : i <= n => PriceTable(v[i])}
<1>6. 0 \in K
    BY <1>4
<1>7. ASSUME NEW i \in Nat, i \in K, i + 1 <= n
      PROVE  PriceTable(v[i + 1])
    <2>1. PICK k \in 1..n : k = i + 1 /\ k - 1 = i
        BY <1>7
    <2>2. PriceTable(v[i])
        BY <1>7
    <2>3. seq[k] \in ToSet(seq)
        BY <1>2 DEF ToSet
    <2>4. PICK p : p = seq[k] /\ IsParsed(p) /\ p.kind = "price"
        BY <2>3
    <2>5. v[k] = Observe(v[k - 1], p)
        BY <1>5, <2>4
    <2>6. PriceTable(Observe(v[i], p))
        BY <2>2, <2>4, PointAdded
    <2>7. QED
        BY <2>1, <2>5, <2>6
<1>8. \A i \in Nat : i \in K => i + 1 \in K
    BY <1>7
<1> HIDE DEF K
<1>9. Nat \subseteq K
    BY <1>6, <1>8, SetInduction
<1>10. PriceTable(v[n])
    BY <1>9 DEF K
<1>11. ObserveTable(db, seq)[Len(seq)] = {v[Len(seq)]}
    BY <1>2, <1>3, ObserveTableIs
<1>12. UNION {ObserveTable(db, q)[Len(q)] : q \in {seq}} = {v[n]}
    BY <1>2, <1>11
<1>13. last = CHOOSE x \in {v[n]} : TRUE
    BY <1>12, Zenon
<1>14. QED
    BY <1>10, <1>13, TheOnly

(* A mark: of an account, on the day and the line of its transaction. *)
IsMark(m) ==
    /\ {"acct", "comm", "date", "line"} \subseteq DOMAIN m
    /\ m.acct \in Accounts /\ m.comm \in Currency /\ m.date \in Dates /\ m.line \in Nat

AreMarks(marks) == IsSeq(marks) /\ \A m \in ToSet(marks) : IsMark(m)

LEMMA NextDay ==
    ASSUME NEW m, IsMark(m)
    PROVE  /\ m.comm # NoComm => IsParsed(ZeroNextDay(m))
           /\ IsParsed(CloseNextDay(m))
<1>1. PICK next : next = [m EXCEPT !.date = @ + 1]
    OBVIOUS
<1>2. next.acct = m.acct /\ next.line = m.line /\ next.date = m.date + 1
    BY <1>1 DEF IsMark
<1>3. next.acct \in Accounts /\ next.line \in Nat /\ next.date \in Dates
    BY <1>2 DEF IsMark, Dates, NoDate
<1>4. ASSUME m.comm # NoComm
      PROVE  IsParsed(ZeroNextDay(m))
    <2>1. m.comm \in Commodities
        BY <1>4 DEF IsMark, Currency
    <2>2. QED
        BY <1>1, <1>3, <2>1, TheZero DEF ZeroNextDay
<1>5. IsParsed(CloseNextDay(m))
    BY <1>2, <1>3 DEF CloseNextDay, IsMark, IsParsed, IsDirective
<1>6. QED
    BY <1>4, <1>5

LEMMA ClosingsAre ==
    ASSUME NEW s, NEW marks, AreMarks(marks)
    PROVE  AreDirectives(ClosingDirectives(s, marks))
<1> DEFINE asserts(k) == /\ marks[k].comm # NoComm
                         /\ ~\E j \in 1..(k - 1) : /\ marks[j].acct = marks[k].acct
                                                   /\ marks[j].comm = marks[k].comm
           closes(k)  == /\ marks[k].comm # NoComm /\ marks[k].acct \notin Closed(s)
                         /\ ~\E j \in 1..(k - 1) : /\ marks[j].acct = marks[k].acct
                                                   /\ marks[j].comm # NoComm
<1>1. PICK seqs : seqs = [k \in DOMAIN marks |->
            (IF asserts(k) THEN <<ZeroNextDay(marks[k])>> ELSE << >>)
            \o (IF closes(k) THEN <<CloseNextDay(marks[k])>> ELSE << >>)]
    OBVIOUS
<1>2. ClosingDirectives(s, marks) = FlattenSeq(seqs)
    BY <1>1 DEF ClosingDirectives
<1>8. \A k : asserts(k) => marks[k].comm # NoComm
    OBVIOUS
<1> HIDE DEF asserts, closes
<1>3. PICK n \in Nat : DOMAIN marks = 1..n
    BY SeqFacts DEF AreMarks
<1>4. ASSUME NEW k \in 1..n
      PROVE  AreDirectives(seqs[k])
    <2>1. PICK z, c : z = ZeroNextDay(marks[k]) /\ c = CloseNextDay(marks[k])
        OBVIOUS
    <2>2. (asserts(k) => IsParsed(z)) /\ IsParsed(c)
        <3>1. IsMark(marks[k])
            BY <1>3 DEF AreMarks, ToSet
        <3>2. QED
            BY <1>8, <2>1, <3>1, NextDay
    <2>3. PICK x, y : /\ x = IF asserts(k) THEN <<z>> ELSE << >>
                      /\ y = IF closes(k) THEN <<c>> ELSE << >>
        OBVIOUS
    <2>4. AreDirectives(x)
        <3>1. CASE asserts(k)
            BY <2>2, <2>3, <3>1, SingleAre
        <3>2. CASE ~asserts(k)
            BY <2>3, <3>2, NothingAre DEF NoneAre
        <3>3. QED
            BY <3>1, <3>2
    <2>5. AreDirectives(y)
        <3>1. CASE closes(k)
            BY <2>2, <2>3, <3>1, SingleAre
        <3>2. CASE ~closes(k)
            BY <2>3, <3>2, NothingAre DEF NoneAre
        <3>3. QED
            BY <3>1, <3>2
    <2>6. seqs[k] = x \o y
        BY <1>1, <1>3, <2>1, <2>3
    <2>7. QED
        BY <2>4, <2>5, <2>6, AreCat
<1>5. seqs = [k \in 1..n |-> seqs[k]]
    BY <1>1, <1>3
<1>6. IsSeq(seqs) /\ Len(seqs) = n
    BY <1>5, FcnIsSeq
<1>7. QED
    BY <1>2, <1>4, <1>6, AreFlat

LEMMA MarksFlat ==
    ASSUME NEW n \in Nat, NEW seqs, seqs = [i \in 1..n |-> seqs[i]], \A i \in 1..n : AreMarks(seqs[i])
    PROVE  AreMarks(FlattenSeq(seqs))
<1>1. IsSeq(seqs) /\ Len(seqs) = n
    BY FcnIsSeq
<1>2. \A i \in 1..Len(seqs) : IsSeq(seqs[i])
    BY <1>1 DEF AreMarks
<1>3. /\ IsSeq(FlattenSeq(seqs))
      /\ ToSet(FlattenSeq(seqs)) = UNION {ToSet(seqs[i]) : i \in 1..n}
    BY <1>1, <1>2, FlattenIs
<1>4. QED
    BY <1>3 DEF AreMarks

LEMMA MarksNone == AreMarks(<< >>)
BY NoneIs, NoneAll DEF AreMarks

LEMMA LegOf ==
    ASSUME NEW entry \in Entry
    PROVE  /\ \E n \in Nat : DOMAIN entry.legs = 1..n
           /\ \A j \in DOMAIN entry.legs : entry.legs[j] \in Leg
<1>1. PICK legs \in Seq(Leg) : legs = entry.legs
    BY DEF Entry
<1>2. Len(legs) \in Nat /\ DOMAIN legs = 1..Len(legs) /\ \A j \in 1..Len(legs) : legs[j] \in Leg
    BY LenProperties, ElementOfSeq
<1>3. QED
    BY <1>1, <1>2

LEMMA MovedAre ==
    ASSUME NEW posting \in Posting, NEW leg
    PROVE  LegCommodities(posting, leg) \in SUBSET Commodities
<1>1. PICK units \in PostingUnits : units = posting.units
    BY DEF Posting
<1>2. CASE units.kind = "amount"
    <2>1. units.comm \in Commodities
        BY <1>2 DEF PostingUnits, Quantity
    <2>2. QED
        BY <1>1, <1>2, <2>1 DEF LegCommodities
<1>3. CASE units.kind # "amount"
    BY <1>1, <1>3 DEF LegCommodities
<1>4. QED
    BY <1>2, <1>3

(* The names of some commodities in their order are all of theirs. *)
LEMMA NamedAre ==
    ASSUME NEW comms \in SUBSET Commodities
    PROVE  \E n \in Nat : n = Cardinality(comms) /\ \A k \in 1..n : ByName(comms)[k] \in comms
<1>1. IsFiniteSet(comms)
    BY FiniteAssumption, FS_Subset
<1>2. PICK n \in Nat : n = Cardinality(comms)
    BY <1>1, FS_CardinalityType
<1> DEFINE before(c) == {b \in comms : Rank[b] < Rank[c]}
<1>3. /\ \A c \in comms : Rank[c] \in Nat
      /\ \A b, c \in comms : Rank[b] = Rank[c] => b = c
    BY RankAssumption
<1>4. ASSUME NEW c \in comms
      PROVE  /\ IsFiniteSet(before(c)) /\ Cardinality(before(c)) \in 0..(n - 1)
             /\ before(c) \in SUBSET comms /\ c \notin before(c)
    <2>1. before(c) \in SUBSET comms /\ c \notin before(c)
        BY <1>3
    <2>2. /\ IsFiniteSet(before(c)) /\ Cardinality(before(c)) <= n
          /\ n = Cardinality(before(c)) => comms = before(c)
        BY <1>1, <1>2, <2>1, FS_Subset
    <2>3. Cardinality(before(c)) \in Nat
        BY <2>2, FS_CardinalityType
    <2>4. QED
        BY <2>1, <2>2, <2>3
<1>5. ASSUME NEW b \in comms, NEW c \in comms, Rank[b] < Rank[c]
      PROVE  Cardinality(before(b)) # Cardinality(before(c))
    <2>1. before(b) \in SUBSET before(c)
        BY <1>3, <1>5
    <2>2. b \in before(c)
        BY <1>5
    <2>3. b \notin before(b) /\ IsFiniteSet(before(c))
        BY <1>4
    <2> HIDE DEF before
    <2>4. Cardinality(before(c)) = Cardinality(before(b)) => before(c) = before(b)
        BY <2>1, <2>3, FS_Subset
    <2>5. QED
        BY <2>2, <2>3, <2>4
<1> HIDE DEF before
<1>6. PICK f : f = [c \in comms |-> Cardinality(before(c))]
    OBVIOUS
<1>7. f \in Injection(comms, 0..(n - 1))
    <2>1. f \in [comms -> 0..(n - 1)] /\ DOMAIN f = comms
        BY <1>4, <1>6
    <2>2. \A b, c \in comms : f[b] = f[c] => b = c
        <3>1. ASSUME NEW b \in comms, NEW c \in comms, f[b] = f[c]
              PROVE  b = c
            <4>1. ~(Rank[b] < Rank[c]) /\ ~(Rank[c] < Rank[b])
                BY <1>5, <1>6, <3>1
            <4>2. QED
                BY <1>3, <4>1
        <3>2. QED
            BY <3>1
    <2>3. IsInjective(f)
        BY <2>1, <2>2 DEF IsInjective
    <2>4. QED
        BY <2>1, <2>3 DEF Injection
<1>8. IsFiniteSet(0..(n - 1)) /\ Cardinality(0..(n - 1)) = n
    <2>1. 0 \in Int /\ n - 1 \in Int
        OBVIOUS
    <2>2. IsFiniteSet(0..(n - 1)) /\ Cardinality(0..(n - 1)) = IF 0 > n - 1 THEN 0 ELSE n - 1 - 0 + 1
        BY <2>1, FS_Interval
    <2>3. QED
        BY <2>2
<1>9. f \in Surjection(comms, 0..(n - 1))
    BY <1>1, <1>2, <1>7, <1>8, FS_Injection
<1>10. ASSUME NEW k \in 1..n
       PROVE  ByName(comms)[k] \in comms
    <2>1. k - 1 \in 0..(n - 1)
        OBVIOUS
    <2>2. PICK c \in comms : f[c] = k - 1
        BY <1>9, <2>1 DEF Surjection
    <2>3. Cardinality({b \in comms : Rank[b] < Rank[c]}) = k - 1
        BY <1>6, <2>2 DEF before
    <2>4. (CHOOSE x \in comms : Cardinality({b \in comms : Rank[b] < Rank[x]}) = k - 1) \in comms
        BY <2>3
    <2>5. QED
        BY <1>2, <2>4 DEF ByName
<1>11. QED
    BY <1>2, <1>10

(* What is booked of the postings that are marked are marks, in a list. *)
LEMMA MarksAre ==
    ASSUME NEW s, AreDirectives(s), NEW journal2 \in Seq(Entry)
    PROVE  AreMarks(Marks(s, journal2))
<1> DEFINE mark(entry, leg, c) == [acct |-> leg.acct, comm |-> c, date |-> entry.date,
                                   line |-> entry.line]
           legMarks(entry, i, j) ==
            LET moved == LegCommodities(s[i].postings[j], entry.legs[j])
            IN  IF ~s[i].postings[j].closing THEN << >>
                ELSE IF moved = {} THEN <<mark(entry, entry.legs[j], NoComm)>>
                ELSE [k \in 1..Cardinality(moved) |-> mark(entry, entry.legs[j], ByName(moved)[k])]
           parts(entry) == [j \in DOMAIN entry.legs |->
                            IF SourceOf(s, entry) = {} THEN << >>
                            ELSE legMarks(entry, Min(SourceOf(s, entry)), j)]
<1>1. Marks(s, journal2) = FlattenSeq([k \in DOMAIN journal2 |-> FlattenSeq(parts(journal2[k]))])
    BY DEF Marks
<1>2. ASSUME NEW entry \in Entry, NEW leg, leg.acct \in Accounts, NEW c \in Currency
      PROVE  IsMark(mark(entry, leg, c))
    BY <1>2 DEF Entry, IsMark
<1> HIDE DEF mark
<1>4. ASSUME NEW entry \in Entry, NEW i, i \in SourceOf(s, entry), NEW j \in DOMAIN entry.legs
      PROVE  AreMarks(legMarks(entry, i, j))
    <2>1. PICK leg : leg = entry.legs[j]
        OBVIOUS
    <2>2. leg.acct \in Accounts
        BY <1>4, <2>1, LegOf DEF Leg
    <2>3. PICK moved : moved = LegCommodities(s[i].postings[j], leg)
        OBVIOUS
    <2>4. /\ moved \in SUBSET Commodities
          /\ \E n \in Nat : n = Cardinality(moved) /\ \A k \in 1..n : ByName(moved)[k] \in moved
        <3>1. i \in DOMAIN s /\ s[i].kind = "txn" /\ j \in DOMAIN s[i].postings
            BY <1>4 DEF SourceOf, OfKind
        <3>2. IsParsed(s[i])
            BY <3>1 DEF AreDirectives, ToSet
        <3>3. s[i].postings[j] \in Posting
            BY <3>1, <3>2, ParsedTxn DEF ToSet
        <3>4. moved \in SUBSET Commodities
            BY <2>3, <3>3, MovedAre
        <3>5. QED
            BY <3>4, NamedAre
    <2>9. PICK n \in Nat : n = Cardinality(moved) /\ \A k \in 1..n : ByName(moved)[k] \in Currency
        BY <2>4 DEF Currency
    <2>5. CASE ~s[i].postings[j].closing
        BY <2>5, MarksNone
    <2>6. CASE s[i].postings[j].closing /\ moved = {}
        <3>1. PICK m : m = mark(entry, leg, NoComm)
            OBVIOUS
        <3>2. IsMark(m)
            BY <1>2, <1>4, <2>2, <3>1 DEF Currency
        <3>3. legMarks(entry, i, j) = <<m>>
            BY <2>1, <2>3, <2>6, <3>1
        <3>4. IsSeq(<<m>>) /\ ToSet(<<m>>) = {m}
            BY Single, SingleAll
        <3>5. QED
            BY <3>2, <3>3, <3>4 DEF AreMarks
    <2>7. CASE s[i].postings[j].closing /\ moved # {}
        <3>1. PICK ms : ms = [k \in 1..n |-> mark(entry, leg, ByName(moved)[k])]
            OBVIOUS
        <3>2. legMarks(entry, i, j) = ms
            BY <2>1, <2>3, <2>7, <2>9, <3>1
        <3>3. \A k \in 1..n : IsMark(ms[k])
            BY <1>2, <1>4, <2>2, <2>9, <3>1
        <3>4. ms = [k \in 1..n |-> ms[k]]
            BY <3>1
        <3>5. IsSeq(ms) /\ DOMAIN ms = 1..n
            BY <3>4, FcnIsSeq
        <3>6. \A m \in ToSet(ms) : IsMark(m)
            BY <3>3, <3>5 DEF ToSet
        <3>7. QED
            BY <3>2, <3>5, <3>6 DEF AreMarks
    <2>8. QED
        BY <2>5, <2>6, <2>7
<1> HIDE DEF legMarks
<1>5. ASSUME NEW entry \in Entry
      PROVE  AreMarks(FlattenSeq(parts(entry)))
    <2>1. PICK n \in Nat : DOMAIN entry.legs = 1..n
        BY <1>5, LegOf
    <2>2. PICK seqs : seqs = parts(entry)
        OBVIOUS
    <2>3. seqs = [j \in 1..n |-> IF SourceOf(s, entry) = {} THEN << >>
                                 ELSE legMarks(entry, Min(SourceOf(s, entry)), j)]
        BY <2>1, <2>2
    <2>4. \A j \in 1..n : AreMarks(seqs[j])
        <3>1. ASSUME NEW j \in 1..n
              PROVE  AreMarks(seqs[j])
            <4>1. CASE SourceOf(s, entry) = {}
                BY <2>3, <4>1, MarksNone
            <4>2. CASE SourceOf(s, entry) # {}
                <5>1. PICK i : i = Min(SourceOf(s, entry))
                    OBVIOUS
                <5>2. i \in SourceOf(s, entry)
                    <6>1. SourceOf(s, entry) \in SUBSET Nat
                        BY SeqFacts DEF SourceOf, OfKind, AreDirectives
                    <6>2. QED
                        BY <4>2, <5>1, <6>1, MinIsIn
                <5>3. seqs[j] = legMarks(entry, i, j)
                    BY <2>3, <4>2, <5>1
                <5>4. QED
                    BY <1>4, <2>1, <5>2, <5>3
            <4>3. QED
                BY <4>1, <4>2
        <3>2. QED
            BY <3>1
    <2>5. seqs = [j \in 1..n |-> seqs[j]]
        BY <2>3
    <2>6. AreMarks(FlattenSeq(seqs))
        BY <2>4, <2>5, MarksFlat
    <2>7. QED
        BY <2>2, <2>6
<1>6. PICK n \in Nat : DOMAIN journal2 = 1..n
    BY LenProperties
<1>7. \A k \in 1..n : journal2[k] \in Entry
    BY <1>6
<1> DEFINE marks(entry) == FlattenSeq(parts(entry))
<1>8. \A k \in 1..n : AreMarks(marks(journal2[k]))
    BY <1>5, <1>7
<1>9. Marks(s, journal2) = FlattenSeq([k \in 1..n |-> marks(journal2[k])])
    BY <1>1, <1>6
<1> HIDE DEF marks, parts
<1>10. PICK seqs : seqs = [k \in 1..n |-> marks(journal2[k])]
    OBVIOUS
<1>11. seqs = [k \in 1..n |-> seqs[k]] /\ \A k \in 1..n : AreMarks(seqs[k])
    BY <1>8, <1>10
<1>12. QED
    BY <1>9, <1>10, <1>11, MarksFlat

----------------------------------------------------------------------------
(* A ledger's way to its booking *)

(* What is expanded stays expanded, and what is booked, an engine has      *)
(* booked; an opened ledger shows the booking of its stream.               *)
IsExpanded ==
    /\ journal \in Journals /\ AreDirectives(file) /\ AreDirectives(stream)
    /\ phase \in {"writing", "costed", "padded", "materialized", "probed", "closed", "open"}
    /\ phase \in {"padded", "materialized", "probed", "closed", "open"} => Expanded(stream)
    /\ tol \in [Commodities -> Num] /\ PriceTable(prices) /\ book \in Engine
    /\ phase = "open" => book = Book(New(tol), stream)

LEMMA WrittenFile ==
    ASSUME IsExpanded, NEW d, IsParsed(d)
    PROVE  AreDirectives(Append(file, [d EXCEPT !.line = Len(file) + 1]))
<1>1. PICK n \in Nat : n = Len(file)
    BY SeqFacts DEF IsExpanded, AreDirectives
<1>2. PICK x : x = [d EXCEPT !.line = n + 1]
    OBVIOUS
<1>3. /\ DOMAIN x = DOMAIN d /\ x.line = n + 1
      /\ \A f \in DOMAIN d \ {"line"} : x[f] = d[f]
    BY <1>2 DEF IsParsed, IsDirective, Dates
<1>4. IsParsed(x)
    <2>1. /\ {"kind", "date", "line"} \subseteq DOMAIN x
          /\ x.kind = d.kind /\ x.date \in Dates /\ x.line \in Nat
        BY <1>3 DEF IsParsed, IsDirective
    <2>2. x.kind \in {"open", "close", "pad", "balance"} =>
            "acct" \in DOMAIN x /\ x.acct \in Accounts
        BY <1>3, <2>1 DEF IsParsed, IsDirective
    <2>3. x.kind = "pad" => "from" \in DOMAIN x /\ x.from \in Accounts
        BY <1>3, <2>1 DEF IsParsed, IsDirective
    <2>4. x.kind = "balance" =>
            {"n", "comm"} \subseteq DOMAIN x /\ x.n \in Num /\ x.comm \in Commodities
        BY <1>3, <2>1 DEF IsParsed, IsDirective
    <2>5. x.kind = "txn" => x \in Transaction
        <3>1. ASSUME x.kind = "txn"
              PROVE  d \in Transaction
            BY <2>1, <3>1 DEF IsParsed, IsDirective
        <3>2. d \in Transaction => x \in Transaction
            BY <1>2 DEF Transaction
        <3>3. QED
            BY <3>1, <3>2
    <2>6. IsDirective(x)
        BY <2>1, <2>2, <2>3, <2>4, <2>5 DEF IsDirective
    <2>7. x.kind = "open" => {"ccys", "rate"} \subseteq DOMAIN x /\ x.ccys \in Seq(Commodities)
        BY <1>3, <2>1 DEF IsParsed
    <2>8. x.kind = "commodity" =>
            {"comm", "tol"} \subseteq DOMAIN x /\ (x.tol.kind = "set" => x.tol.n \in Num)
        BY <1>3, <2>1 DEF IsParsed
    <2>9. x.kind = "price" =>
            /\ {"base", "n", "quote"} \subseteq DOMAIN x
            /\ x.base \in Commodities /\ x.quote \in Commodities /\ x.n \in Num
        BY <1>3, <2>1 DEF IsParsed
    <2>10. QED
        BY <2>6, <2>7, <2>8, <2>9 DEF IsParsed
<1>5. PICK u : u = Append(file, x)
    OBVIOUS
<1>6. AreDirectives(file)
    BY DEF IsExpanded
<1>7. PICK S : S = ToSet(file) \cup {x}
    OBVIOUS
<1>8. file \in Seq(S)
    BY <1>6, <1>7, SeqMonotonic DEF IsSeq, AreDirectives
<1>9. u \in Seq(S)
    BY <1>5, <1>7, <1>8, AppendProperties
<1>10. IsSeq(u)
    BY <1>9, IsSeqOf
<1>11. DOMAIN u = 1..Len(u) /\ \A i \in 1..Len(u) : u[i] \in S
    BY <1>9, LenProperties, ElementOfSeq
<1>12. \A y \in ToSet(u) : y \in S
    BY <1>11 DEF ToSet
<1>13. AreDirectives(u)
    BY <1>4, <1>6, <1>7, <1>10, <1>12 DEF AreDirectives
<1>14. QED
    BY <1>1, <1>2, <1>5, <1>13

(* The tolerances that a stream declares are numbers. *)
LEMMA TolerancesAre ==
    ASSUME NEW s, AreDirectives(s)
    PROVE  CommodityTolerances(s) \in [Commodities -> Num]
<1>1. PICK n \in Nat : DOMAIN s = 1..n
    BY SeqFacts DEF AreDirectives
<1>2. ASSUME NEW c \in Commodities
      PROVE  CommodityTolerances(s)[c] \in Num
    <2>1. PICK declared : declared = {i \in OfKind(s, "commodity") : s[i].comm = c}
        OBVIOUS
    <2>2. declared \in SUBSET (1..n) /\ \A i \in declared : s[i].kind = "commodity"
        BY <1>1, <2>1 DEF OfKind
    <2>3. CommodityTolerances(s)[c] =
            IF declared # {} /\ s[Max(declared)].tol.kind = "set"
            THEN s[Max(declared)].tol.n ELSE Policy[c]
        BY <2>1 DEF CommodityTolerances
    <2>4. ASSUME declared # {}, s[Max(declared)].tol.kind = "set"
          PROVE  s[Max(declared)].tol.n \in Num
        <3>1. PICK i : i = Max(declared)
            OBVIOUS
        <3>2. i \in 1..n /\ s[i].kind = "commodity"
            BY <2>2, <2>4, <3>1, MaxIsIn
        <3>3. IsParsed(s[i])
            BY <1>1, <3>2 DEF AreDirectives, ToSet
        <3>4. QED
            BY <2>4, <3>1, <3>2, <3>3 DEF IsParsed
    <2>5. Policy[c] \in Num
        BY PolicyAssumption
    <2>6. QED
        BY <2>3, <2>4, <2>5
<1>3. PICK f : f = CommodityTolerances(s)
    OBVIOUS
<1>4. f = [c \in Commodities |-> f[c]]
    BY <1>3 DEF CommodityTolerances
<1>5. QED
    BY <1>2, <1>3, <1>4

(* A step keeps it. *)
LEMMA StepExpanded ==
    ASSUME IsExpanded, [Next]_vars
    PROVE  IsExpanded'
<1>1. /\ journal \in Journals /\ AreDirectives(file) /\ AreDirectives(stream)
      /\ tol \in [Commodities -> Num] /\ PriceTable(prices) /\ book \in Engine
    BY DEF IsExpanded
<1>12. New(tol) \in Engine
    BY <1>1, NewEngine
<1>13. \A e \in Engine : Book(e, stream) \in Engine
    BY <1>1, BookIsEngine
<1>14. Book(New(tol), stream) \in Engine
    BY <1>12, <1>13
<1>2. CASE Write
    <2>1. PICK d \in journal.directives : file' = Append(file, [d EXCEPT !.line = Len(file) + 1])
        BY <1>2 DEF Write
    <2>2. IsParsed(d)
        BY <1>1, JournalsAssumption
    <2>3. AreDirectives(file')
        BY <2>1, <2>2, WrittenFile
    <2>4. /\ journal' = journal /\ phase' = phase /\ phase = "writing" /\ stream' = stream
          /\ tol' = tol /\ prices' = prices /\ book' = book
        BY <1>2 DEF Write
    <2>5. QED
        BY <1>1, <2>3, <2>4 DEF IsExpanded
<1>3. CASE DatedCostStep
    <2>1. /\ phase' = "costed" /\ journal' = journal /\ file' = file
          /\ stream' = ExpandDatedCosts(file) /\ prices' = AddDatedCosts(prices, file)
          /\ tol' = tol /\ book' = book
        BY <1>3 DEF DatedCostStep
    <2>2. PICK new : new = NewPrices(file) /\ ArePrices(new)
        BY <1>1, NewPricesAre
    <2>3. AreDirectives(stream')
        BY <1>1, <2>1, <2>2, AreCat DEF ExpandDatedCosts, ArePrices
    <2>4. PriceTable(prices')
        <3>1. IsSeq(new) /\ \A p \in ToSet(new) : IsParsed(p) /\ p.kind = "price"
            BY <2>2 DEF ArePrices, AreDirectives
        <3>2. prices' = CHOOSE x \in UNION {ObserveTable(prices, q)[Len(q)] : q \in {new}} : TRUE
            BY <2>1, <2>2, CostedBy
        <3>3. QED
            BY <1>1, <3>1, <3>2, PricesLoaded
    <2>5. QED
        BY <1>1, <2>1, <2>3, <2>4 DEF IsExpanded
<1>4. CASE AutoInterestStep
    <2>1. /\ phase = "costed" /\ phase' = "padded" /\ journal' = journal /\ file' = file
          /\ stream' = ExpandAutoInterest(stream) /\ tol' = CommodityTolerances(stream)
          /\ prices' = prices /\ book' = book
        BY <1>4 DEF AutoInterestStep
    <2>2. Expanded(stream')
        BY <1>1, <2>1, ExpandedIs
    <2>3. AreDirectives(stream')
        BY <2>2 DEF Expanded
    <2>4. tol' \in [Commodities -> Num]
        BY <1>1, <2>1, TolerancesAre
    <2>5. QED
        BY <1>1, <2>1, <2>2, <2>3, <2>4 DEF IsExpanded
<1>5. CASE PadStep
    <2>1. /\ phase = "padded" /\ phase' = "materialized" /\ journal' = journal /\ file' = file
          /\ stream' = ExpandPads(stream, tol)
          /\ tol' = tol /\ prices' = prices /\ book' = book
        BY <1>5 DEF PadStep
    <2>2. Expanded(stream)
        BY <2>1 DEF IsExpanded
    <2>3. Expanded(stream')
        BY <1>1, <2>1, <2>2, PadsKeepExpanded
    <2>4. AreDirectives(stream')
        BY <2>3 DEF Expanded
    <2>5. QED
        BY <1>1, <2>1, <2>3, <2>4 DEF IsExpanded
<1>6. CASE BookStep
    <2>1. /\ phase = "materialized" /\ phase' = "open" /\ journal' = journal /\ file' = file
          /\ stream' = stream /\ book' = Book(New(tol), stream)
          /\ tol' = tol /\ prices' = prices
        BY <1>6 DEF BookStep
    <2>2. QED
        BY <1>1, <1>14, <2>1 DEF IsExpanded
<1>7. CASE ProbeStep
    <2>1. /\ phase = "materialized" /\ phase' = "probed" /\ journal' = journal /\ file' = file
          /\ stream' = stream /\ book' = Book(New(tol), stream)
          /\ tol' = tol /\ prices' = prices
        BY <1>7 DEF ProbeStep
    <2>2. QED
        BY <1>1, <1>14, <2>1 DEF IsExpanded
<1>8. CASE CloseStep
    <2>1. /\ phase = "probed" /\ phase' = "closed" /\ journal' = journal /\ file' = file
          /\ stream' = ExpandAutoInterest(ExpandClosing(stream, book.txns))
          /\ tol' = tol /\ prices' = prices /\ book' = book
        BY <1>8 DEF CloseStep
    <2>2. book.txns \in Seq(Entry)
        BY <1>1 DEF Engine
    <2>3. PICK marks : marks = Marks(stream, book.txns)
        OBVIOUS
    <2>4. AreMarks(marks)
        BY <1>1, <2>2, <2>3, MarksAre
    <2>5. PICK closed : closed = ExpandClosing(stream, book.txns)
        OBVIOUS
    <2>6. AreDirectives(closed)
        BY <1>1, <2>3, <2>4, <2>5, ClosingsAre, AreCat DEF ExpandClosing
    <2>7. Expanded(stream')
        BY <2>1, <2>5, <2>6, ExpandedIs
    <2>8. AreDirectives(stream')
        BY <2>7 DEF Expanded
    <2>9. QED
        BY <1>1, <2>1, <2>7, <2>8 DEF IsExpanded
<1>9. CASE RebookStep
    <2>1. /\ phase = "closed" /\ phase' = "open" /\ journal' = journal /\ file' = file
          /\ stream' = stream /\ book' = Book(New(tol), stream)
          /\ tol' = tol /\ prices' = prices
        BY <1>9 DEF RebookStep
    <2>2. QED
        BY <1>1, <1>14, <2>1 DEF IsExpanded
<1>10. CASE UNCHANGED vars
    <2>1. /\ phase' = phase /\ journal' = journal /\ file' = file /\ stream' = stream
          /\ book' = book /\ tol' = tol /\ prices' = prices
        BY <1>10 DEF vars
    <2>2. QED
        BY <2>1 DEF IsExpanded
<1>11. QED
    BY <1>2, <1>3, <1>4, <1>5, <1>6, <1>7, <1>8, <1>9, <1>10 DEF Next

LEMMA InitExpanded ==
    ASSUME Init
    PROVE  IsExpanded
<1>1. /\ journal \in Journals /\ file = journal.prelude /\ phase = "writing" /\ stream = << >>
      /\ prices = LoadPrices(journal.prices)
      /\ tol = DefaultTolerance /\ book = New(DefaultTolerance)
    BY DEF Init
<1>2. AreDirectives(file) /\ AreDirectives(stream)
    <2>1. AreDirectives(file)
        BY <1>1, JournalsAssumption DEF AreDirectives, IsSeq
    <2>2. QED
        BY <1>1, <2>1, NothingAre DEF NoneAre
<1>3. DefaultTolerance \in [Commodities -> Num]
    BY DefaultToleranceAssumption
<1>4. book \in Engine
    BY <1>1, <1>3, NewEngine
<1>5. PriceTable(prices)
    <2>1. PICK seq : seq = journal.prices
        OBVIOUS
    <2>2. IsSeq(seq) /\ \A p \in ToSet(seq) : IsParsed(p) /\ p.kind = "price"
        BY <1>1, <2>1, JournalsAssumption DEF IsSeq
    <2>3. PriceTable(NewDB)
        BY DEF NewDB, PriceTable
    <2>4. prices = CHOOSE x \in UNION {ObserveTable(NewDB, q)[Len(q)] : q \in {seq}} : TRUE
        BY <1>1, <2>1, LoadedBy
    <2>5. QED
        BY <2>2, <2>3, <2>4, PricesLoaded
<1>6. QED
    BY <1>1, <1>2, <1>3, <1>4, <1>5 DEF IsExpanded

LEMMA AlwaysExpanded == Spec => []IsExpanded
<1>1. Init => IsExpanded
    BY InitExpanded
<1>2. IsExpanded /\ [Next]_vars => IsExpanded'
    BY StepExpanded
<1>3. QED
    BY <1>1, <1>2, PTL DEF Spec

(* ExpandAutoInterest may run any number of times (autointerest.go, which  *)
(* BookWithClosing calls once more after it closes): in every ledger, over *)
(* any file and accounts, what was expanded has all the opens, pads and    *)
(* zero assertions it needs, whatever pads and transactions came after it. *)
THEOREM AutoInterestSettles == Spec => []AutoInterestIdempotent
<1>1. IsExpanded => AutoInterestIdempotent
    BY ExpandedStays DEF IsExpanded, AutoInterestIdempotent
<1>2. QED
    BY <1>1, AlwaysExpanded, PTL

----------------------------------------------------------------------------
(* The trees of a state.                                                   *)

(* What a ledger's reports read are numbers: the stream is a list of dated *)
(* directives, and what is posted, booked anew and observed are numbers.   *)
InNumbers ==
    /\ PriceTable(prices)
    /\ stream \in Seq(ToSet(stream)) /\ Days \subseteq Int
    /\ \A D \in Days : BalancesAsOf(Ledger, D) \in Holdings
    /\ book.txns \in Seq(ToSet(book.txns))
    /\ \A i \in DOMAIN book.txns :
        /\ book.txns[i].legs \in Seq(ToSet(book.txns[i].legs))
        /\ \A j \in DOMAIN book.txns[i].legs : book.txns[i].legs[j].amts \in [Commodities -> Num]

LEMMA Listed ==
    ASSUME NEW s, s \in Seq(ToSet(s))
    PROVE  /\ \E n \in Nat : DOMAIN s = 1..n
           /\ s # << >> => DOMAIN s # {}
<1>1. PICK X : X = ToSet(s)
    OBVIOUS
<1>2. s \in Seq(X)
    BY <1>1
<1>3. Len(s) \in Nat /\ DOMAIN s = 1..Len(s)
    BY <1>2
<1>4. s # << >> => Len(s) # 0
    BY <1>2
<1>5. \E n \in Nat : DOMAIN s = 1..n
    BY <1>3
<1>6. ASSUME s # << >>
      PROVE  DOMAIN s # {}
    <2>1. PICK n \in Nat : n = Len(s)
        BY <1>3
    <2>2. 1 \in 1..n
        BY <1>4, <1>6, <2>1
    <2>3. QED
        BY <1>3, <2>1, <2>2
<1>7. QED
    BY <1>5, <1>6

(* A stream that is not empty has a last day.                              *)
LEMMA LastDay ==
    ASSUME InNumbers, stream # << >>
    PROVE  Max(Days) \in Days
<1> DEFINE Q == {s \in SUBSET Days : s # {} => \E x \in s : \A y \in s : x >= y}
<1>1. IsFiniteSet(Days) /\ Days \in SUBSET Int /\ Days # {}
    <2>1. PICK n \in Nat : DOMAIN stream = 1..n
        BY Listed DEF InNumbers
    <2>2. IsFiniteSet(1..n)
        BY FS_Interval
    <2>3. PICK f : f = [i \in 1..n |-> stream[i].date]
        OBVIOUS
    <2>4. f \in Surjection(1..n, Days)
        BY <2>1, <2>3 DEF Surjection, Days
    <2>5. IsFiniteSet(Days)
        BY <2>2, <2>4, FS_Surjection
    <2>6. DOMAIN stream # {}
        BY Listed DEF InNumbers
    <2>7. QED
        BY <2>5, <2>6 DEF InNumbers, Days
<1>2. ASSUME NEW s \in SUBSET Days, \A x \in s : s \ {x} \in Q
      PROVE  s \in Q
    <2>1. ASSUME s # {}
          PROVE  \E x \in s : \A y \in s : x >= y
        <3>1. PICK x \in s : TRUE
            BY <2>1
        <3>2. x \in Int /\ \A y \in s : y \in Int
            BY <1>1
        <3>3. CASE s \ {x} = {}
            BY <3>1, <3>2, <3>3
        <3>4. CASE s \ {x} # {}
            <4>1. PICK z \in s \ {x} : \A y \in s \ {x} : z >= y
                BY <1>2, <3>1, <3>4
            <4>2. z \in Int
                BY <3>2
            <4>3. CASE z >= x
                BY <3>2, <4>1, <4>2, <4>3
            <4>4. CASE ~(z >= x)
                <5>1. \A y \in s : x >= y
                    BY <3>2, <4>1, <4>2, <4>4
                <5>2. QED
                    BY <3>1, <5>1
            <4>5. QED
                BY <4>3, <4>4
        <3>5. QED
            BY <3>3, <3>4
    <2>2. QED
        BY <2>1
<1> HIDE DEF Q
<1>3. \A s \in SUBSET Days : (\A x \in s : s \ {x} \in Q) => s \in Q
    BY ONLY <1>2
<1>4. Days \in Q
    BY ONLY <1>1, <1>3, FiniteInduction
<1>5. PICK x \in Days : \A y \in Days : x >= y
    BY <1>1, <1>4 DEF Q
<1>6. QED
    BY <1>5 DEF Max

(* What the journal posts is a number.                                     *)
LEMMA ActivityNum ==
    ASSUME InNumbers, NEW a, NEW c \in Commodities, NEW from, NEW to
    PROVE  AccountActivity(Ledger, a, c, from, to) \in Num
<1> DEFINE posted(entry) == RSum([j \in DOMAIN entry.legs |->
                    IF entry.legs[j].acct = a THEN entry.legs[j].amts[c] ELSE Zero])
<1>1. PICK txns : txns = book.txns
    OBVIOUS
<1>2. ASSUME NEW i \in DOMAIN txns
      PROVE  posted(txns[i]) \in Num
    <2>1. PICK legs : legs = txns[i].legs
        OBVIOUS
    <2>2. PICK n \in Nat : DOMAIN legs = 1..n
        BY <1>1, <2>1, Listed DEF InNumbers
    <2>3. \A j \in 1..n : legs[j].amts[c] \in Num
        BY <1>1, <2>1, <2>2 DEF InNumbers
    <2>4. PICK f : f = [j \in 1..n |-> IF legs[j].acct = a THEN legs[j].amts[c] ELSE Zero]
        OBVIOUS
    <2>5. f = [j \in 1..n |-> f[j]] /\ \A j \in 1..n : f[j] \in Num
        BY <2>3, <2>4, ZeroNum
    <2>6. RSum(f) \in Num
        BY <2>5, SumTerms
    <2>7. QED
        BY <2>1, <2>2, <2>4, <2>6
<1> HIDE DEF posted
<1>3. PICK n \in Nat : DOMAIN txns = 1..n
    BY <1>1, Listed DEF InNumbers
<1>4. PICK f : f = [i \in 1..n |-> IF txns[i].date \in from..to THEN posted(txns[i]) ELSE Zero]
    OBVIOUS
<1>5. f = [i \in 1..n |-> f[i]] /\ \A i \in 1..n : f[i] \in Num
    BY <1>2, <1>3, <1>4, ZeroNum
<1>6. RSum(f) \in Num
    BY <1>5, SumTerms
<1>7. AccountActivity(Ledger, a, c, from, to) = RSum(f)
    BY <1>1, <1>3, <1>4 DEF AccountActivity, Ledger, posted
<1>8. QED
    BY <1>6, <1>7

(* Income and expenses by account (PnLTree).                               *)
LEMMA FlatIs ==
    ASSUME InNumbers, NEW D
    PROVE  Leaves(Flat(Ledger, 0, D))
<1>1. DOMAIN Flat(Ledger, 0, D) = FlowAccounts
    BY DEF Flat
<1>2. ASSUME NEW a \in FlowAccounts
      PROVE  Flat(Ledger, 0, D)[a] \in Num
    <2>1. PICK units \in [Commodities -> Num] : units = PnL(Ledger, a, 0, D)
        BY ActivityNum DEF PnL
    <2>2. PICK S \in SUBSET Commodities : S = {c \in Commodities : units[c] # Zero}
        OBVIOUS
    <2>3. PICK day \in Int : day = AsOfLatest
        BY DEF AsOfLatest
    <2>4. PriceTable(prices)
        BY DEF InNumbers
    <2>5. IsFiniteSet(S) /\ Sums(Converted(prices, units, day), S) \in Num
        BY <2>4, ConvertedNum
    <2>6. SumOver(S, LAMBDA c : MarketConvert(prices, c, units[c], day))
            = Sums(Converted(prices, units, day), S)
        BY <2>5, SumOfConverted
    <2>7. MarketValue(prices, units, day)
            = SumOver(S, LAMBDA c : MarketConvert(prices, c, units[c], day))
        BY <2>2 DEF MarketValue
    <2>8. Flat(Ledger, 0, D)[a] = MarketValue(prices, units, day)
        BY <2>1, <2>3 DEF Flat, Ledger
    <2>9. QED
        BY <2>5, <2>6, <2>7, <2>8
<1>3. FlowAccounts \in SUBSET Accounts /\ IsFiniteSet(FlowAccounts)
    BY FlowAssumption, FiniteAssumption, FS_Subset
<1>4. QED
    BY <1>1, <1>2, <1>3 DEF Leaves, Amounted

(* The directives of a stream up to a day are directives of the stream.    *)
LEMMA UpToAre ==
    ASSUME NEW s, AreDirectives(s), NEW D
    PROVE  AreDirectives(UpTo(s, D))
<1>1. PICK n \in Nat : n = Len(s) /\ DOMAIN s = 1..n
    BY SeqFacts DEF AreDirectives
<1>2. PICK parts : parts = [i \in 1..n |-> IF s[i].date <= D THEN <<s[i]>> ELSE << >>]
    OBVIOUS
<1>3. IsSeq(parts) /\ Len(parts) = n
    BY <1>2, FcnIsSeq
<1>4. ASSUME NEW i \in 1..n
      PROVE  AreDirectives(parts[i])
    <2>1. IsParsed(s[i])
        BY <1>1 DEF AreDirectives, ToSet
    <2>2. AreDirectives(<<s[i]>>) /\ AreDirectives(<< >>)
        <3>1. AreDirectives(<< >>)
            BY NothingAre DEF NoneAre
        <3>2. IsSeq(<<s[i]>>) /\ ToSet(<<s[i]>>) = {s[i]}
            BY Single, SingleAll
        <3>3. QED
            BY <2>1, <3>1, <3>2 DEF AreDirectives
    <2>3. QED
        BY <1>2, <2>2
<1>5. UpTo(s, D) = FlattenSeq(parts)
    BY <1>1, <1>2 DEF UpTo
<1>6. QED
    BY <1>3, <1>4, <1>5, AreFlat

(* An opened ledger is in numbers.                                         *)
LEMMA OpenIsInNumbers ==
    ASSUME IsExpanded, Open
    PROVE  InNumbers
<1>1. PriceTable(prices) /\ AreDirectives(stream) /\ book \in Engine
    BY DEF IsExpanded
<1>2. stream \in Seq(ToSet(stream)) /\ Days \subseteq Int
    <2>1. stream \in Seq(ToSet(stream))
        BY <1>1 DEF AreDirectives, IsSeq
    <2>2. ASSUME NEW i \in DOMAIN stream
          PROVE  stream[i].date \in Int
        BY <1>1, ParsedIs DEF AreDirectives, ToSet
    <2>3. QED
        BY <2>1, <2>2 DEF Days
<1>3. ASSUME NEW D \in Days
      PROVE  BalancesAsOf(Ledger, D) \in Holdings
    <2>1. PICK s : s = UpTo(stream, D)
        OBVIOUS
    <2>2. AreDirectives(s)
        BY <1>1, <2>1, UpToAre
    <2>3. PICK e \in Engine : e = New(DefaultTolerance)
        BY NewEngine, DefaultToleranceAssumption
    <2>4. Book(e, s) \in Engine
        BY <2>2, BookIsEngine
    <2>5. Book(e, s).bal \in Holdings
        BY <2>4 DEF Engine, Balances, Holdings
    <2>6. BalancesAsOf(Ledger, D) = Book(e, s).bal
        BY <2>1, <2>3 DEF BalancesAsOf, Ledger
    <2>7. QED
        BY <2>5, <2>6
<1>4. PICK txns \in Seq(Entry) : txns = book.txns
    BY <1>1 DEF Engine
<1>5. txns \in Seq(ToSet(txns)) /\ \A i \in DOMAIN txns : txns[i] \in Entry
    <2>1. DOMAIN txns = 1..Len(txns) /\ \A i \in 1..Len(txns) : txns[i] \in Entry
        BY LenProperties, ElementOfSeq
    <2>2. IsSeq(txns)
        BY IsSeqOf
    <2>3. QED
        BY <2>1, <2>2 DEF IsSeq
<1>6. ASSUME NEW i \in DOMAIN txns
      PROVE  /\ txns[i].legs \in Seq(ToSet(txns[i].legs))
             /\ \A j \in DOMAIN txns[i].legs : txns[i].legs[j].amts \in [Commodities -> Num]
    <2>1. PICK entry \in Entry : entry = txns[i]
        BY <1>5
    <2>2. entry.legs \in Seq(Leg)
        BY DEF Entry
    <2>3. IsSeq(entry.legs)
        BY <2>2, IsSeqOf
    <2>4. \A j \in DOMAIN entry.legs : entry.legs[j] \in Leg
        BY LegOf
    <2>5. \A j \in DOMAIN entry.legs : entry.legs[j].amts \in [Commodities -> Num]
        BY <2>4 DEF Leg
    <2>6. QED
        BY <2>1, <2>3, <2>5 DEF IsSeq
<1>7. QED
    BY <1>1, <1>2, <1>3, <1>4, <1>5, <1>6 DEF InNumbers

(* In every opened ledger, the trees of net worth and of income add up to  *)
(* the reports they show (account_tree.go, networth_tree.go, pnl.go): over *)
(* any accounts and names, where accounts have accounts below them, sums   *)
(* cancel, leaves hold several commodities or prices are missing.          *)
THEOREM TreesAlwaysAddUp == Spec => []TreesAddUp
<1>1. InNumbers => TreesAddUp
    <2>1. ASSUME InNumbers, Open, stream # << >>
          PROVE  LET D == Max(Days) IN
                    /\ AddsUp(Rollup(Flat(Ledger, 0, D)), Flat(Ledger, 0, D))
                    /\ \E bal \in {BalancesAsOf(Ledger, D)} : \E flat \in {Worth(prices, bal, D)} :
                          \E rows \in {Rollup(flat)} :
                            /\ AddsUp(rows, flat)
                            /\ Splits(SubRows(prices, bal, D, rows), rows)
                            /\ ValueOf(prices, bal, D) = SumOver(DOMAIN flat, LAMBDA a : flat[a])
        <3>1. PICK D \in Days : D = Max(Days)
            BY <2>1, LastDay
        <3>2. PICK day \in Int : day = D
            BY <2>1 DEF InNumbers
        <3>3. PICK bal \in Holdings : bal = BalancesAsOf(Ledger, day)
            BY <2>1, <3>2 DEF InNumbers
        <3>4. PriceTable(prices)
            BY <2>1 DEF InNumbers
        <3>5. AddsUp(Rollup(Flat(Ledger, 0, day)), Flat(Ledger, 0, day))
            BY <2>1, FlatIs, TreeAddsUp
        <3>6. PICK flat : flat = Worth(prices, bal, day)
            OBVIOUS
        <3>7. PICK rows : rows = Rollup(flat)
            OBVIOUS
        <3>8. AddsUp(rows, flat)
            BY <3>4, <3>6, <3>7, WorthIs, TreeAddsUp
        <3>9. Splits(SubRows(prices, bal, day, rows), rows)
            BY <3>4, <3>6, <3>7, RowsSplit
        <3>10. ValueOf(prices, bal, day) = SumOver(DOMAIN flat, LAMBDA a : flat[a])
            <4>1. ValueOf(prices, bal, day) = Sums(flat, DOMAIN flat)
                BY <3>4, <3>6, WorthIsValue
            <4>2. SumOver(DOMAIN flat, LAMBDA a : flat[a]) = Sums(flat, DOMAIN flat)
                BY SumOverIs
            <4>3. QED
                BY <4>1, <4>2
        <3>11. QED
            BY <3>1, <3>2, <3>3, <3>5, <3>6, <3>7, <3>8, <3>9, <3>10
    <2>2. QED
        BY <2>1 DEF TreesAddUp
<1>2. IsExpanded => TreesAddUp
    BY <1>1, OpenIsInNumbers DEF TreesAddUp
<1>3. QED
    BY <1>2, AlwaysExpanded, PTL

----------------------------------------------------------------------------
(* The balances of a day, booked anew *)

(* A booking of s, directive after directive, that materializes no pad.    *)
SettledBook(s, seq, n, tolerance) ==
    \E v : /\ v[0] = New(tolerance)
           /\ \A i \in 1..n : /\ v[i] = BookDirective(v[i - 1], seq[i])
                              /\ ~Materializes(v[i - 1], seq[i])
           /\ \A i \in 0..n : v[i] \in Engine
           /\ Book(New(tolerance), s) = v[n]

(* Where no pad is left to materialize, booking pads on the day itself if  *)
(* at all.                                                                 *)
LEMMA SettledRun ==
    ASSUME NEW s, AreDirectives(s), NEW tolerance \in [Commodities -> Num],
           PadTxns(s, tolerance) = << >>,
           NEW seq, seq = SortedDirectives(s), NEW n \in Nat, n = Len(seq)
    PROVE  SettledBook(s, seq, n, tolerance)
<1>1. PICK p : /\ p[0].probe = New(tolerance)
               /\ \A i \in 1..n : p[i] = Probe(p[i - 1], seq[i])
               /\ \A i \in 0..n : AreTxns(p[i].synth) /\ p[i].probe \in Engine
               /\ PadTxns(s, tolerance) = p[n].synth
    BY ProbeRun
<1>2. PICK v : /\ v[0] = New(tolerance)
               /\ \A i \in 1..n : v[i] = BookDirective(v[i - 1], seq[i])
               /\ \A i \in 0..n : v[i] \in Engine
               /\ Book(New(tolerance), s) = v[n]
    <2>1. PICK e \in Engine : e = New(tolerance)
        BY NewEngine
    <2>2. \E v : /\ v[0] = e
                 /\ \A i \in 1..n : v[i] = BookDirective(v[i - 1], seq[i])
                 /\ \A i \in 0..n : v[i] \in Engine
                 /\ Book(e, s) = v[n]
        <3>1. e \in Engine /\ n \in Nat
            OBVIOUS
        <3>2. QED
            BY ONLY AreDirectives(s), seq = SortedDirectives(s), n = Len(seq), <3>1, BookRun
    <2>3. QED
        BY <2>1, <2>2
<1>3. ASSUME NEW i \in 1..n
      PROVE  /\ p[i].probe = BookDirective(p[i - 1].probe, seq[i])
             /\ Materializes(p[i - 1].probe, seq[i]) => p[i].synth # << >>
             /\ ~Materializes(p[i - 1].probe, seq[i]) => p[i].synth = p[i - 1].synth
    <2>1. PICK acc, d : acc = p[i - 1] /\ d = seq[i]
        OBVIOUS
    <2>2. p[i] = Probe(acc, d)
        BY <1>1, <2>1
    <2>3. acc.synth \in Seq(ToSet(acc.synth))
        <3>1. i - 1 \in 0..n
            OBVIOUS
        <3>2. AreTxns(acc.synth)
            BY <1>1, <2>1, <3>1
        <3>3. QED
            BY <3>2 DEF AreTxns, AreDirectives, IsSeq
    <2>4. \A x : Append(acc.synth, x) # << >>
        BY <2>3, AppendProperties, EmptySeq
    <2>5. PICK txn : txn = PadTxn(acc.probe.pad[d.acct], d, RSub(d.n, acc.probe.bal[d.acct][d.comm]))
        OBVIOUS
    <2>6. PICK one : one = p[i]
        OBVIOUS
    <2>7. /\ one.probe = BookDirective(acc.probe, d)
          /\ one.synth = IF Materializes(acc.probe, d) THEN Append(acc.synth, txn) ELSE acc.synth
        BY ONLY <2>2, <2>5, <2>6 DEF Probe
    <2>8. /\ Materializes(acc.probe, d) => one.synth # << >>
          /\ ~Materializes(acc.probe, d) => one.synth = acc.synth
        BY ONLY <2>4, <2>7
    <2>9. QED
        BY ONLY <2>1, <2>6, <2>7, <2>8
<1> DEFINE K == {i \in Nat : i <= n => v[i] = p[i].probe}
           L == {j \in Nat : j <= n => p[n - j].synth = << >>}
<1>4. ASSUME NEW i \in Nat, i \in K, i + 1 <= n
      PROVE  v[i + 1] = p[i + 1].probe
    <2>1. PICK k \in 1..n : k = i + 1 /\ k - 1 = i
        BY <1>4
    <2>2. v[i] = p[i].probe
        BY <1>4
    <2>3. QED
        BY <1>2, <1>3, <2>1, <2>2
<1>5. 0 \in K /\ \A i \in Nat : i \in K => i + 1 \in K
    <2>1. v[0] = p[0].probe
        BY <1>1, <1>2
    <2>2. 0 \in K
        BY <2>1
    <2>3. QED
        BY <1>4, <2>2
<1>6. ASSUME NEW j \in Nat, j \in L, j + 1 <= n
      PROVE  p[n - (j + 1)].synth = << >>
    <2>1. PICK k \in 1..n : k = n - j /\ k - 1 = n - (j + 1)
        BY <1>6
    <2>2. p[k].synth = << >>
        BY <1>6, <2>1
    <2>3. QED
        BY <1>3, <2>1, <2>2
<1>7. 0 \in L /\ \A j \in Nat : j \in L => j + 1 \in L
    <2>1. n - 0 = n
        OBVIOUS
    <2>2. 0 \in L
        BY <1>1, <2>1
    <2>3. QED
        BY <1>6, <2>2
<1> HIDE DEF K, L
<1>8. Nat \subseteq K /\ Nat \subseteq L
    BY <1>5, <1>7, SetInduction
<1>9. ASSUME NEW i \in 1..n
      PROVE  ~Materializes(v[i - 1], seq[i])
    <2>1. PICK j \in Nat, k \in Nat : n - j = i /\ j <= n /\ k = i - 1 /\ k <= n
        <3>1. n - i \in Nat /\ n - (n - i) = i /\ n - i <= n /\ i - 1 \in Nat /\ i - 1 <= n
            OBVIOUS
        <3>2. QED
            BY <3>1
    <2>2. p[i].synth = << >>
        BY <1>8, <2>1 DEF L
    <2>3. v[k] = p[k].probe
        BY <1>8, <2>1 DEF K
    <2>4. QED
        BY <1>3, <2>1, <2>2, <2>3
<1>10. QED
    BY <1>2, <1>9 DEF SettledBook

(* Such a booking posts each entry on the day of its directive. *)
LEMMA PostedOnDay ==
    ASSUME NEW e \in Engine, NEW d, IsDirective(d), ~Materializes(e, d)
    PROVE  PostsOn(e, BookDirective(e, d), d.date)
<1>1. PICK f : f = BookDirective(e, d)
    OBVIOUS
<1>2. CASE d.kind \notin {"txn", "balance"}
    BY <1>1, <1>2, LifecycleIs DEF PostsOn
<1>3. CASE d.kind = "txn"
    <2>1. d \in Transaction /\ f = BookTxn(e, d)
        BY <1>1, <1>3, DirectiveParts DEF BookDirective
    <2>2. QED
        BY <1>1, <2>1, TxnPostsOn
<1>4. CASE d.kind = "balance"
    <2>1. f = BookBalance(e, d)
        BY <1>1, <1>4 DEF BookDirective
    <2>2. \/ f.bal = e.bal /\ f.txns = e.txns
          \/ /\ ~AssertionHolds(e, d) /\ e.pad[d.acct] # NoPad
             /\ \E entry \in Entry :
                    /\ entry.flag = "P" /\ entry.date = e.pad[d.acct].date
                    /\ f.bal = AddBal(e.bal, entry.legs) /\ f.txns = Append(e.txns, entry)
        BY <1>4, <2>1, BookBalanceIs
    <2>3. ~AssertionHolds(e, d) /\ e.pad[d.acct] # NoPad => e.pad[d.acct].date = d.date
        BY <1>4 DEF Materializes
    <2>4. QED
        BY <1>1, <2>2, <2>3 DEF PostsOn
<1>5. QED
    BY <1>2, <1>3, <1>4

(* What the journal posts to an account up to a day. *)
ActivityTo(txns, a, c, D) ==
    RSum([i \in DOMAIN txns |-> IF txns[i].date \in 0..D THEN Added(txns[i].legs, a, c) ELSE Zero])

LEMMA ActivityIs ==
    ASSUME NEW l, NEW txns, txns = l.book.txns, NEW a, NEW c, NEW D
    PROVE  AccountActivity(l, a, c, 0, D) = ActivityTo(txns, a, c, D)
BY DEF AccountActivity, ActivityTo, Added

LEMMA ActivityMore ==
    ASSUME NEW txns \in Seq(Entry), NEW entry \in Entry, NEW a, NEW c \in Commodities, NEW D \in Int
    PROVE  /\ ActivityTo(txns, a, c, D) \in Num
           /\ ActivityTo(Append(txns, entry), a, c, D) =
                IF entry.date <= D THEN RAdd(ActivityTo(txns, a, c, D), Added(entry.legs, a, c))
                ELSE ActivityTo(txns, a, c, D)
<1> DEFINE of(x) == IF x.date \in 0..D THEN Added(x.legs, a, c) ELSE Zero
<1>1. PICK new : new = Append(txns, entry)
    OBVIOUS
<1>2. PICK n \in Nat : n = Len(txns)
    OBVIOUS
<1>3. /\ DOMAIN txns = 1..n /\ DOMAIN new = 1..(n + 1)
      /\ new[n + 1] = entry /\ \A i \in 1..n : new[i] = txns[i] /\ txns[i] \in Entry
    BY <1>2, <1>1
<1>4. PICK s, t : s = [i \in 1..n |-> of(txns[i])] /\ t = [i \in 1..(n + 1) |-> of(new[i])]
    OBVIOUS
<1>5. ActivityTo(txns, a, c, D) = RSum(s) /\ ActivityTo(new, a, c, D) = RSum(t)
    BY <1>3, <1>4 DEF ActivityTo
<1>6. ASSUME NEW x \in Entry
      PROVE  of(x) \in Num
    <2>1. Added(x.legs, a, c) \in Num
        BY AddedNum DEF Entry
    <2>2. QED
        BY <2>1, ZeroNum
<1>7. of(entry) = IF entry.date <= D THEN Added(entry.legs, a, c) ELSE Zero
    <2>1. entry.date \in Nat
        BY DEF Entry, Dates
    <2>2. QED
        BY <2>1
<1> HIDE DEF of
<1>8. s = [i \in 1..n |-> s[i]] /\ \A i \in 1..n : s[i] \in Num
    BY <1>3, <1>4, <1>6
<1>9. RSum(s) \in Num
    BY <1>8, SumTerms
<1>10. t = [i \in 1..(n + 1) |-> t[i]] /\ n + 1 \in Nat
    BY <1>4
<1>11. Len(s) = n /\ Len(t) = n + 1
    BY <1>8, <1>10, LenIs
<1>12. n + 1 \in 1..(n + 1) /\ \A i \in 1..n : i \in 1..(n + 1)
    OBVIOUS
<1>13. t[n + 1] = of(entry) /\ \A i \in 1..n : s[i] = t[i]
    BY <1>3, <1>4, <1>12
<1>14. RSum(t) = RAdd(RSum(s), of(entry))
    BY <1>11, <1>13, SumLast
<1>15. RAdd(RSum(s), Zero) = RSum(s)
    BY <1>9, AddNothing
<1>16. QED
    BY <1>1, <1>5, <1>7, <1>9, <1>14, <1>15

(* What an upto list takes from the first i of a stream: every directive   *)
(* of its days, in their order.                                            *)
Picked(s, D, i, u, m, at) ==
    /\ IsSeq(u) /\ Len(u) = m /\ DOMAIN u = 1..m
    /\ \A k \in 1..m : at[k] \in 1..i /\ u[k] = s[at[k]] /\ s[at[k]].date <= D
    /\ \A j, k \in 1..m : j < k => at[j] < at[k]
    /\ \A x \in 1..i : s[x].date <= D => \E k \in 1..m : at[k] = x

LEMMA PickedNone ==
    ASSUME NEW s, NEW D
    PROVE  Picked(s, D, 0, << >>, 0, << >>)
<1>1. IsSeq(<< >>) /\ Len(<< >>) = 0 /\ DOMAIN << >> = 1..0
    BY NoneIs, SeqFacts
<1>2. QED
    BY <1>1 DEF Picked

LEMMA PickedSkip ==
    ASSUME NEW s, NEW D, NEW i \in Nat, NEW u, NEW m \in Nat, NEW at, Picked(s, D, i, u, m, at),
           ~(s[i + 1].date <= D)
    PROVE  Picked(s, D, i + 1, u, m, at)
<1>1. ASSUME NEW x \in 1..(i + 1), s[x].date <= D
      PROVE  x \in 1..i
    BY <1>1
<1>2. \A k \in 1..m : at[k] \in 1..i => at[k] \in 1..(i + 1)
    OBVIOUS
<1>3. QED
    BY <1>1, <1>2 DEF Picked

LEMMA PickedMore ==
    ASSUME NEW s, NEW D, NEW i \in Nat, NEW u, NEW m \in Nat, NEW at, Picked(s, D, i, u, m, at),
           s[i + 1].date <= D
    PROVE  \E at2 : Picked(s, D, i + 1, u \o <<s[i + 1]>>, m + 1, at2)
<1>1. PICK d : d = s[i + 1]
    OBVIOUS
<1>2. PICK w : w = u \o <<d>>
    OBVIOUS
<1>3. IsSeq(u) /\ Len(u) = m
    BY DEF Picked
<1>4. IsSeq(<<d>>) /\ Len(<<d>>) = 1 /\ <<d>>[1] = d
    BY Single
<1>5. /\ IsSeq(w) /\ Len(w) = m + 1
      /\ \A k \in 1..m : w[k] = u[k]
      /\ w[m + 1] = d
    <2>1. /\ IsSeq(u \o <<d>>) /\ Len(u \o <<d>>) = Len(u) + Len(<<d>>)
          /\ \A k \in 1..Len(u) : (u \o <<d>>)[k] = u[k]
          /\ \A k \in 1..Len(<<d>>) : (u \o <<d>>)[Len(u) + k] = <<d>>[k]
        BY <1>3, <1>4, Cat
    <2>2. 1 \in 1..Len(<<d>>)
        BY <1>4
    <2>3. QED
        BY <1>2, <1>3, <1>4, <2>1, <2>2
<1>6. DOMAIN w = 1..(m + 1)
    BY <1>5, SeqFacts
<1>7. PICK at2 : at2 = [k \in 1..(m + 1) |-> IF k = m + 1 THEN i + 1 ELSE at[k]]
    OBVIOUS
<1>8. at2[m + 1] = i + 1 /\ \A k \in 1..m : at2[k] = at[k]
    BY <1>7
<1>9. \A k \in 1..m : at[k] \in 1..i /\ u[k] = s[at[k]] /\ s[at[k]].date <= D
    BY DEF Picked
<1>10. ASSUME NEW k \in 1..(m + 1)
       PROVE  at2[k] \in 1..(i + 1) /\ w[k] = s[at2[k]] /\ s[at2[k]].date <= D
    <2>1. CASE k = m + 1
        BY <1>1, <1>5, <1>8, <2>1
    <2>2. CASE k \in 1..m
        BY <1>5, <1>8, <1>9, <2>2
    <2>3. QED
        BY <2>1, <2>2
<1>11. ASSUME NEW j \in 1..(m + 1), NEW k \in 1..(m + 1), j < k
       PROVE  at2[j] < at2[k]
    <2>1. j \in 1..m
        BY <1>11
    <2>2. CASE k = m + 1
        BY <1>8, <1>9, <2>1, <2>2
    <2>3. CASE k \in 1..m
        BY <1>8, <1>11, <2>1, <2>3 DEF Picked
    <2>4. QED
        BY <2>2, <2>3
<1>12. ASSUME NEW x \in 1..(i + 1), s[x].date <= D
       PROVE  \E k \in 1..(m + 1) : at2[k] = x
    <2>1. CASE x = i + 1
        <3>1. m + 1 \in 1..(m + 1)
            OBVIOUS
        <3>2. QED
            BY <1>8, <2>1, <3>1
    <2>2. CASE x \in 1..i
        <3>1. PICK k \in 1..m : at[k] = x
            BY <1>12, <2>2 DEF Picked
        <3>2. k \in 1..(m + 1)
            OBVIOUS
        <3>3. QED
            BY <1>8, <3>1, <3>2
    <2>3. QED
        BY <2>1, <2>2
<1>13. Picked(s, D, i + 1, w, m + 1, at2)
    BY <1>5, <1>6, <1>10, <1>11, <1>12 DEF Picked
<1>14. QED
    BY <1>1, <1>2, <1>13

LEMMA UpToIs ==
    ASSUME NEW s, IsSeq(s), NEW n \in Nat, n = Len(s), NEW D
    PROVE  \E m \in Nat : \E at : Picked(s, D, n, UpTo(s, D), m, at)
<1>1. DOMAIN s = 1..n
    BY SeqFacts
<1>2. PICK parts : parts = [i \in 1..n |-> IF s[i].date <= D THEN <<s[i]>> ELSE << >>]
    OBVIOUS
<1>3. IsSeq(parts) /\ Len(parts) = n
    BY <1>2, FcnIsSeq
<1>4. UpTo(s, D) = FlattenSeq(parts)
    BY <1>1, <1>2 DEF UpTo
<1> DEFINE Good(i, u) == \E m \in Nat : \E at : Picked(s, D, i, u, m, at)
<1>5. Good(0, << >>)
    BY PickedNone
<1>6. ASSUME NEW i \in Nat, i + 1 <= n, NEW u, Good(i, u)
      PROVE  Good(i + 1, u \o parts[i + 1])
    <2>1. PICK m \in Nat : \E at : Picked(s, D, i, u, m, at)
        BY <1>6
    <2>2. PICK at : Picked(s, D, i, u, m, at)
        BY <2>1
    <2>3. i + 1 \in 1..n
        BY <1>6
    <2>4. CASE s[i + 1].date <= D
        <3>1. parts[i + 1] = <<s[i + 1]>>
            BY <1>2, <2>3, <2>4
        <3>2. PICK at2 : Picked(s, D, i + 1, u \o <<s[i + 1]>>, m + 1, at2)
            BY <2>2, <2>4, PickedMore
        <3>3. m + 1 \in Nat
            OBVIOUS
        <3>4. QED
            BY <3>1, <3>2, <3>3
    <2>5. CASE ~(s[i + 1].date <= D)
        <3>1. parts[i + 1] = << >>
            BY <1>2, <2>3, <2>5
        <3>2. u \o << >> = u
            BY <2>2, CatNone DEF Picked
        <3>3. Picked(s, D, i + 1, u, m, at)
            BY <2>2, <2>5, PickedSkip
        <3>4. QED
            BY <3>1, <3>2, <3>3
    <2>6. QED
        BY <2>4, <2>5
<1>7. \A i \in 1..n : IsSeq(parts[i])
    BY <1>2, Single, NoneIs
<1> HIDE DEF Good
<1>8. CASE n = 0
    <2>1. FlattenSeq(parts) = << >>
        BY <1>3, <1>8, FlattenNone
    <2>2. QED
        BY <1>4, <1>5, <1>8, <2>1 DEF Good
<1>9. CASE n # 0
    <2>1. PICK f : /\ f[1] = parts[1]
                   /\ \A i \in 2..n : f[i] = f[i - 1] \o parts[i]
                   /\ FlattenSeq(parts) = f[n]
        BY <1>3, <1>9, FlattenSteps
    <2> DEFINE K == {i \in Nat : i + 1 <= n => Good(i + 1, f[i + 1])}
    <2>2. Good(1, f[1])
        <3>1. 0 \in Nat /\ 0 + 1 <= n /\ 0 + 1 = 1
            BY <1>9
        <3>2. Good(0 + 1, << >> \o parts[0 + 1])
            BY <1>5, <1>6, <3>1
        <3>3. << >> \o parts[1] = parts[1]
            BY <1>7, <1>9, CatNone
        <3>4. QED
            BY <2>1, <3>1, <3>2, <3>3
    <2>3. 0 \in K
        BY <2>2
    <2>4. ASSUME NEW i \in Nat, i \in K, i + 2 <= n
          PROVE  Good(i + 2, f[i + 2])
        <3>1. Good(i + 1, f[i + 1])
            BY <2>4
        <3>2. PICK k \in Nat : k = i + 1 /\ k + 1 = i + 2
            OBVIOUS
        <3>3. f[k + 1] = f[k] \o parts[k + 1]
            <4>1. k + 1 \in 2..n /\ (k + 1) - 1 = k
                BY <2>4, <3>2
            <4>2. QED
                BY <2>1, <4>1
        <3>4. k + 1 <= n /\ Good(k, f[k])
            BY <2>4, <3>1, <3>2
        <3>5. Good(k + 1, f[k] \o parts[k + 1])
            BY <1>6, <3>4
        <3>6. QED
            BY <3>2, <3>3, <3>5
    <2>5. \A i \in Nat : i \in K => i + 1 \in K
        <3>1. \A i \in Nat : i + 1 \in Nat /\ (i + 1) + 1 = i + 2
            OBVIOUS
        <3>2. QED
            BY <2>4, <3>1
    <2> HIDE DEF K
    <2>6. Nat \subseteq K
        BY <2>3, <2>5, SetInduction
    <2>7. PICK i \in Nat : i + 1 = n
        <3>1. n - 1 \in Nat /\ (n - 1) + 1 = n
            BY <1>9
        <3>2. QED
            BY <3>1
    <2>8. Good(n, f[n])
        BY <2>6, <2>7 DEF K
    <2>9. QED
        BY <1>4, <2>1, <2>8 DEF Good
<1>10. QED
    BY <1>8, <1>9

(* w is the first directives of t, those of the days up to D.              *)
AheadUpTo(w, t, n, D) ==
    \E m \in 0..n : /\ Len(w) = m /\ Len(t) = n
                    /\ \A k \in 1..m : w[k] = t[k] /\ t[k].date <= D
                    /\ \A k \in (m + 1)..n : t[k].date > D

(* Sorting keeps the days up to a day in front.                            *)
LEMMA SortedUpTo ==
    ASSUME NEW s, AreDirectives(s), NEW n \in Nat, n = Len(s), NEW D \in Int,
           NEW u, u = UpTo(s, D), NEW t, t = SortedDirectives(s), NEW w, w = SortedDirectives(u)
    PROVE  AheadUpTo(w, t, n, D)
<1>1. IsSeq(s) /\ DOMAIN s = 1..n
    BY SeqFacts DEF AreDirectives
<1>2. AreDirectives(u)
    BY UpToAre
<1>3. PICK m \in Nat : \E at : Picked(s, D, n, u, m, at)
    BY <1>1, UpToIs
<1>4. PICK at : Picked(s, D, n, u, m, at)
    BY <1>3
<1>5. DOMAIN u = 1..m
    BY <1>4 DEF Picked
<1>6. Placed(s, n, t) /\ Placed(u, m, w)
    BY <1>1, <1>2, <1>5, PlaceIs
<1>7. Len(w) = m /\ Len(t) = n
    <2>1. IsSeq(w) /\ IsSeq(t) /\ DOMAIN w = 1..m /\ DOMAIN t = 1..n
        BY <1>6 DEF Placed
    <2>2. Len(w) \in Nat /\ Len(t) \in Nat /\ 1..Len(w) = 1..m /\ 1..Len(t) = 1..n
        BY <2>1, SeqFacts
    <2>3. \A x, y \in Nat : 1..x = 1..y => x = y
        OBVIOUS
    <2>4. QED
        BY <2>2, <2>3
<1>8. /\ \A k \in 1..m : at[k] \in 1..n /\ u[k] = s[at[k]] /\ s[at[k]].date <= D
      /\ \A j, k \in 1..m : j < k => at[j] < at[k]
      /\ \A x \in 1..n : s[x].date <= D => \E k \in 1..m : at[k] = x
    BY <1>4 DEF Picked
<1>9. \A j, k \in 1..m : (at[j] < at[k] <=> j < k) /\ (at[j] = at[k] <=> j = k)
    <2>1. ASSUME NEW j \in 1..m, NEW k \in 1..m
          PROVE  (at[j] < at[k] <=> j < k) /\ (at[j] = at[k] <=> j = k)
        <3>1. at[j] \in Int /\ at[k] \in Int
            BY <1>8
        <3>2. (j < k => at[j] < at[k]) /\ (k < j => at[k] < at[j])
            BY <1>8
        <3>3. QED
            BY <3>1, <3>2
    <2>2. QED
        BY <2>1
<1>10. ASSUME NEW i \in 1..m
      PROVE  Cardinality(Earlier(u, i)) = Cardinality(Earlier(s, at[i]))
    <2>1. \A j \in 1..m : Before(u, j, i) <=> Before(s, at[j], at[i])
        BY <1>8, <1>9 DEF Before
    <2>2. PICK A, B : A = Earlier(u, i) /\ B = Earlier(s, at[i])
        OBVIOUS
    <2>3. \A j : j \in A <=> j \in 1..m /\ Before(s, at[j], at[i])
        BY <1>5, <2>1, <2>2 DEF Earlier
    <2>4. \A x : x \in B <=> x \in 1..n /\ Before(s, x, at[i])
        BY <1>1, <2>2 DEF Earlier
    <2>5. ASSUME NEW x \in B
          PROVE  \E j \in A : at[j] = x
        <3>1. x \in 1..n /\ Before(s, x, at[i])
            BY <2>4
        <3>2. s[x].date <= D
            <4>1. IsParsed(s[x]) /\ IsParsed(s[at[i]])
                BY <1>1, <1>8, <3>1 DEF AreDirectives, ToSet
            <4>2. s[x].date \in Int /\ s[at[i]].date \in Int
                BY <4>1, ParsedIs
            <4>3. s[x].date < s[at[i]].date \/ s[x].date = s[at[i]].date
                BY <3>1 DEF Before
            <4>4. s[at[i]].date <= D
                BY <1>8
            <4>5. QED
                BY <4>2, <4>3, <4>4
        <3>3. PICK j \in 1..m : at[j] = x
            BY <1>8, <3>1, <3>2
        <3>4. QED
            BY <2>3, <3>1, <3>3
    <2>6. PICK f : f = [j \in A |-> at[j]]
        OBVIOUS
    <2>7. ASSUME NEW j \in A
          PROVE  f[j] \in B
        <3>1. j \in 1..m /\ Before(s, at[j], at[i])
            BY <2>3
        <3>2. QED
            BY <1>8, <2>4, <2>6, <3>1
    <2>8. f \in [A -> B] /\ DOMAIN f = A
        BY <2>6, <2>7
    <2>9. f \in Injection(A, B)
        <3>1. \A j, k \in A : f[j] = f[k] => j = k
            BY <1>9, <2>3, <2>6
        <3>2. IsInjective(f)
            BY <2>8, <3>1 DEF IsInjective
        <3>3. QED
            BY <2>8, <3>2 DEF Injection
    <2>10. f \in Surjection(A, B)
        BY <2>5, <2>6, <2>8 DEF Surjection
    <2>12. IsFiniteSet(A)
        <3>1. A \in SUBSET (1..m)
            BY <2>3
        <3>2. 1 \in Int /\ m \in Int
            OBVIOUS
        <3>3. IsFiniteSet(1..m)
            BY <3>2, FS_Interval
        <3>4. QED
            BY <3>1, <3>3, FS_Subset
    <2>13. Cardinality(A) = Cardinality(B)
        BY <2>9, <2>10, <2>12, FS_Surjection
    <2>14. QED
        BY <2>2, <2>13
<1>11. m <= n
    <2>1. PICK f : f = [k \in 1..m |-> at[k]]
        OBVIOUS
    <2>2. f \in [1..m -> 1..n] /\ DOMAIN f = 1..m
        BY <1>8, <2>1
    <2>3. IsInjective(f)
        <3>1. \A j, k \in 1..m : f[j] = f[k] => j = k
            BY <1>9, <2>1
        <3>2. QED
            BY <2>2, <3>1 DEF IsInjective
    <2>4. f \in Injection(1..m, 1..n)
        BY <2>2, <2>3 DEF Injection
    <2>5. \A k \in Nat : IsFiniteSet(1..k) /\ Cardinality(1..k) = k
        <3>1. ASSUME NEW k \in Nat
              PROVE  IsFiniteSet(1..k) /\ Cardinality(1..k) = k
            <4>1. 1 \in Int /\ k \in Int
                OBVIOUS
            <4>2. IsFiniteSet(1..k) /\ Cardinality(1..k) = IF 1 > k THEN 0 ELSE k - 1 + 1
                BY <4>1, FS_Interval
            <4>3. QED
                BY <4>2
        <3>2. QED
            BY <3>1
    <2>6. Cardinality(1..m) <= Cardinality(1..n)
        BY <2>4, <2>5, FS_Injection
    <2>7. QED
        BY <2>5, <2>6
<1>12. ASSUME NEW k \in 1..m
       PROVE  w[k] = t[k] /\ t[k].date <= D
    <2>1. PICK i \in 1..m : Cardinality(Earlier(u, i)) = k - 1 /\ w[k] = u[i]
        BY <1>6 DEF Placed
    <2>2. k \in 1..n
        BY <1>11
    <2>3. PICK x \in 1..n : /\ t[k] = s[x]
                            /\ \A j \in 1..n : Cardinality(Earlier(s, j)) = k - 1 => j = x
        BY <1>6, <2>2 DEF Placed
    <2>4. at[i] \in 1..n /\ Cardinality(Earlier(s, at[i])) = k - 1
        BY <1>8, <1>10, <2>1
    <2>5. at[i] = x
        BY <2>3, <2>4
    <2>6. QED
        BY <1>8, <2>1, <2>3, <2>5
<1>13. ASSUME NEW k \in (m + 1)..n
       PROVE  t[k].date > D
    <2>1. k \in 1..n
        BY <1>13
    <2>2. PICK x \in 1..n : Cardinality(Earlier(s, x)) = k - 1 /\ t[k] = s[x]
        BY <1>6, <2>1 DEF Placed
    <2>3. s[x].date \in Int
        <3>1. IsParsed(s[x])
            BY <1>1 DEF AreDirectives, ToSet
        <3>2. QED
            BY <3>1, ParsedIs
    <2>4. ASSUME s[x].date <= D
          PROVE  FALSE
        <3>1. PICK j \in 1..m : at[j] = x
            BY <1>8, <2>4
        <3>2. Cardinality(Earlier(u, j)) \in 0..(m - 1)
            BY <1>2, <1>5, EarlierIs
        <3>3. Cardinality(Earlier(u, j)) = k - 1
            BY <1>10, <2>2, <3>1
        <3>4. QED
            BY <3>2, <3>3
    <2>5. QED
        BY <2>2, <2>3, <2>4
<1>14. m \in 0..n
    BY <1>11
<1>15. QED
    BY <1>7, <1>12, <1>13, <1>14 DEF AheadUpTo

(* Balance and activity move together up to a day, and neither after it.   *)
LEMMA ActivityStep ==
    ASSUME NEW e \in Engine, NEW f \in Engine, NEW day, PostsOn(e, f, day),
           NEW a \in Accounts, NEW c \in Commodities, NEW D \in Int
    PROVE  /\ day <= D /\ ActivityTo(e.txns, a, c, D) = e.bal[a][c]
                => ActivityTo(f.txns, a, c, D) = f.bal[a][c]
           /\ ~(day <= D) => ActivityTo(f.txns, a, c, D) = ActivityTo(e.txns, a, c, D)
<1>1. CASE f.bal = e.bal /\ f.txns = e.txns
    BY <1>1
<1>2. CASE ~(f.bal = e.bal /\ f.txns = e.txns)
    <2>1. PICK entry \in Entry : /\ entry.date = day /\ f.bal = AddBal(e.bal, entry.legs)
                                 /\ f.txns = Append(e.txns, entry)
        BY <1>2 DEF PostsOn
    <2>2. PICK bal \in Balances, txns \in Seq(Entry) : bal = e.bal /\ txns = e.txns
        BY DEF Engine
    <2>3. ActivityTo(Append(txns, entry), a, c, D) =
                IF entry.date <= D THEN RAdd(ActivityTo(txns, a, c, D), Added(entry.legs, a, c))
                ELSE ActivityTo(txns, a, c, D)
        BY ActivityMore
    <2>4. AddBal(bal, entry.legs)[a][c] = RAdd(bal[a][c], Added(entry.legs, a, c))
        BY AddBalIs DEF Entry
    <2>5. QED
        BY <2>1, <2>2, <2>3, <2>4
<1>3. QED
    BY <1>1, <1>2

LEMMA NoActivity ==
    ASSUME NEW a, NEW c, NEW D
    PROVE  ActivityTo(<< >>, a, c, D) = Zero
<1>1. PICK s : s = [i \in DOMAIN << >> |->
                        IF << >>[i].date \in 0..D THEN Added(<< >>[i].legs, a, c) ELSE Zero]
    OBVIOUS
<1>2. DOMAIN << >> = 1..0
    OBVIOUS
<1>3. s = [i \in 1..0 |-> s[i]]
    BY <1>1, <1>2
<1>4. Len(s) = 0
    BY <1>3, LenIs
<1>5. QED
    BY <1>1, <1>4, SumEmpty DEF ActivityTo

(* What the first m of n directives did, the booking up to a day did; what *)
(* the others did is of later days.                                        *)
LEMMA BookedAnew ==
    ASSUME NEW s, AreDirectives(s), NEW tolerance \in [Commodities -> Num],
           PadTxns(s, tolerance) = << >>, NEW D \in Int, NEW a \in Accounts, NEW c \in Commodities
    PROVE  Book(New(tolerance), UpTo(s, D)).bal[a][c]
                = ActivityTo(Book(New(tolerance), s).txns, a, c, D)
<1>1. PICK u, t, w : u = UpTo(s, D) /\ t = SortedDirectives(s) /\ w = SortedDirectives(u)
    OBVIOUS
<1>2. PICK n \in Nat : n = Len(s)
    BY SeqFacts DEF AreDirectives
<1>3. PICK m \in 0..n : /\ Len(w) = m /\ Len(t) = n
                        /\ \A k \in 1..m : w[k] = t[k] /\ t[k].date <= D
                        /\ \A k \in (m + 1)..n : t[k].date > D
    <2>1. n \in Nat /\ n = Len(s) /\ D \in Int /\ u = UpTo(s, D)
        BY <1>1, <1>2
    <2>2. t = SortedDirectives(s) /\ w = SortedDirectives(u)
        BY <1>1
    <2>3. AheadUpTo(w, t, n, D)
        BY ONLY AreDirectives(s), <2>1, <2>2, SortedUpTo
    <2>4. QED
        BY <2>3 DEF AheadUpTo
<1>4. PICK v : /\ v[0] = New(tolerance)
               /\ \A i \in 1..n : /\ v[i] = BookDirective(v[i - 1], t[i])
                                  /\ ~Materializes(v[i - 1], t[i])
               /\ \A i \in 0..n : v[i] \in Engine
               /\ Book(New(tolerance), s) = v[n]
    <2>1. n \in Nat /\ n = Len(t) /\ t = SortedDirectives(s)
        BY <1>1, <1>3
    <2>2. tolerance \in [Commodities -> Num] /\ PadTxns(s, tolerance) = << >>
        OBVIOUS
    <2>3. SettledBook(s, t, n, tolerance)
        BY ONLY AreDirectives(s), <2>1, <2>2, SettledRun
    <2>4. QED
        BY <2>3 DEF SettledBook
<1>5. PICK e \in Engine : e = New(tolerance) /\ e.txns = << >> /\ e.bal[a][c] = Zero
    BY NewEngine DEF New
<1>6. PICK r : /\ r[0] = e
               /\ \A i \in 1..m : r[i] = BookDirective(r[i - 1], w[i])
               /\ \A i \in 0..m : r[i] \in Engine
               /\ Book(e, u) = r[m]
    <2>1. m \in Nat /\ m = Len(w) /\ w = SortedDirectives(u) /\ e \in Engine
        BY <1>1, <1>3
    <2>2. AreDirectives(u)
        BY <1>1, UpToAre
    <2>3. QED
        BY ONLY <2>1, <2>2, BookRun
<1> DEFINE K == {i \in Nat : i <= m => r[i] = v[i]}
           At(i) == ActivityTo(v[i].txns, a, c, D)
           L == {i \in Nat : i <= m => At(i) = v[i].bal[a][c]}
           M == {j \in Nat : m + j <= n => At(m + j) = At(m)}
<1>7. 0 \in K /\ \A i \in Nat : i \in K => i + 1 \in K
    <2>1. 0 \in K
        BY <1>4, <1>5, <1>6
    <2>2. ASSUME NEW i \in Nat, i \in K, i + 1 <= m
          PROVE  r[i + 1] = v[i + 1]
        <3>1. PICK k \in 1..m : k = i + 1 /\ k - 1 = i
            BY <2>2
        <3>2. r[i] = v[i] /\ k \in 1..n
            BY <2>2, <3>1
        <3>3. QED
            BY <1>3, <1>4, <1>6, <3>1, <3>2
    <2>3. QED
        BY <2>1, <2>2
<1>8. ASSUME NEW i \in Nat, i + 1 <= n
      PROVE  /\ t[i + 1].date <= D /\ At(i) = v[i].bal[a][c] => At(i + 1) = v[i + 1].bal[a][c]
             /\ ~(t[i + 1].date <= D) => At(i + 1) = At(i)
    <2>1. PICK k \in 1..n : k = i + 1 /\ k - 1 = i
        BY <1>8
    <2>2. i \in 0..n /\ k \in 0..n
        BY <1>8
    <2>3. PICK f \in Engine, g \in Engine : f = v[i] /\ g = v[k]
        BY <1>4, <2>2
    <2>4. PICK d : d = t[k]
        OBVIOUS
    <2>5. g = BookDirective(f, d) /\ ~Materializes(f, d)
        BY <1>4, <2>1, <2>3, <2>4
    <2>6. IsDirective(d)
        <3>1. AreDirectives(t)
            BY <1>1, SortedAre
        <3>2. DOMAIN t = 1..n
            BY <1>3, <3>1, SeqFacts DEF AreDirectives
        <3>3. IsParsed(d)
            BY <2>3, <2>4, <3>1, <3>2 DEF AreDirectives, ToSet
        <3>4. QED
            BY <3>3, ParsedIs
    <2>7. PostsOn(f, g, d.date)
        BY <2>5, <2>6, PostedOnDay
    <2>8. /\ d.date <= D /\ ActivityTo(f.txns, a, c, D) = f.bal[a][c]
                => ActivityTo(g.txns, a, c, D) = g.bal[a][c]
          /\ ~(d.date <= D) => ActivityTo(g.txns, a, c, D) = ActivityTo(f.txns, a, c, D)
        BY <2>7, ActivityStep
    <2>9. QED
        BY <2>1, <2>3, <2>4, <2>8
<1>9. 0 \in L /\ \A i \in Nat : i \in L => i + 1 \in L
    <2>1. At(0) = v[0].bal[a][c]
        BY <1>4, <1>5, NoActivity
    <2>2. ASSUME NEW i \in Nat, i \in L, i + 1 <= m
          PROVE  At(i + 1) = v[i + 1].bal[a][c]
        <3>1. i + 1 \in 1..m /\ i + 1 <= n
            BY <2>2
        <3>2. t[i + 1].date <= D
            BY <1>3, <3>1
        <3>3. At(i) = v[i].bal[a][c]
            BY <2>2
        <3> HIDE DEF At
        <3>4. QED
            BY <1>8, <3>1, <3>2, <3>3
    <2> HIDE DEF At
    <2>3. QED
        BY <2>1, <2>2
<1>10. 0 \in M /\ \A j \in Nat : j \in M => j + 1 \in M
    <2> HIDE DEF At
    <2>1. 0 \in M
        OBVIOUS
    <2>2. ASSUME NEW j \in Nat, j \in M, m + (j + 1) <= n
          PROVE  At(m + (j + 1)) = At(m)
        <3>1. PICK i \in Nat : i = m + j /\ i + 1 = m + (j + 1)
            OBVIOUS
        <3>2. i + 1 \in (m + 1)..n /\ i + 1 <= n /\ m + j <= n
            BY <2>2, <3>1
        <3>3. ~(t[i + 1].date <= D)
            <4>1. t[i + 1].date > D
                BY <1>3, <3>2
            <4>2. t[i + 1].date \in Int
                <5>1. AreDirectives(t)
                    BY <1>1, SortedAre
                <5>2. DOMAIN t = 1..n
                    BY <1>3, <5>1, SeqFacts DEF AreDirectives
                <5>3. i + 1 \in DOMAIN t
                    BY <3>2, <5>2
                <5>4. IsParsed(t[i + 1])
                    BY <5>1, <5>3 DEF AreDirectives, ToSet
                <5>5. QED
                    BY <5>4, ParsedIs
            <4>3. QED
                BY <4>1, <4>2
        <3>4. At(m + j) = At(m)
            BY <2>2, <3>2
        <3>5. QED
            BY <1>8, <3>1, <3>2, <3>3, <3>4
    <2>3. QED
        BY <2>1, <2>2
<1> HIDE DEF K, L, M, At
<1>11. Nat \subseteq K /\ Nat \subseteq L /\ Nat \subseteq M
    BY <1>7, <1>9, <1>10, SetInduction
<1>12. r[m] = v[m] /\ At(m) = v[m].bal[a][c]
    BY <1>11 DEF K, L
<1>13. At(n) = At(m)
    <2>1. n - m \in Nat /\ m + (n - m) = n
        OBVIOUS
    <2>2. QED
        BY <1>11, <2>1 DEF M
<1>14. QED
    BY <1>1, <1>4, <1>5, <1>6, <1>12, <1>13 DEF At

(* Two reports of one ledger agree, over any journals and accounts: the    *)
(* balances that engine.go books anew up to a day, at the engine's own     *)
(* tolerances, are the sums of what the journal of the opened ledger       *)
(* posted up to that day, if at these tolerances no pad is left for an     *)
(* assertion of a later day and the whole stream posts what the ledger's   *)
(* own tolerances made it post.                                            *)
THEOREM AsOfAlwaysJournal == Spec => []AsOfIsJournal
<1>1. ASSUME IsExpanded, Open, PadTxns(stream, DefaultTolerance) = << >>,
             Book(New(DefaultTolerance), stream).txns = book.txns, NEW D \in Days
      PROVE  BalancesAsOf(Ledger, D) =
                [a \in Accounts |-> [c \in Commodities |-> AccountActivity(Ledger, a, c, 0, D)]]
    <2>1. PICK s : s = stream
        OBVIOUS
    <2>2. AreDirectives(s) /\ PadTxns(s, DefaultTolerance) = << >>
        BY <1>1, <2>1 DEF IsExpanded
    <2>3. PICK day \in Int : day = D
        BY <1>1, OpenIsInNumbers DEF InNumbers
    <2>4. book.txns = Book(New(DefaultTolerance), s).txns
        BY <1>1, <2>1
    <2>5. PICK bal \in Holdings : bal = BalancesAsOf(Ledger, D)
        BY <1>1, OpenIsInNumbers DEF InNumbers
    <2>6. ASSUME NEW a \in Accounts, NEW c \in Commodities
          PROVE  bal[a][c] = AccountActivity(Ledger, a, c, 0, D)
        <3>1. PICK txns : txns = Book(New(DefaultTolerance), s).txns
            OBVIOUS
        <3>2. Book(New(DefaultTolerance), UpTo(s, day)).bal[a][c] = ActivityTo(txns, a, c, day)
            BY <2>2, <3>1, BookedAnew, DefaultToleranceAssumption
        <3>3. txns = Ledger.book.txns
            BY <2>4, <3>1 DEF Ledger
        <3>4. AccountActivity(Ledger, a, c, 0, day) = ActivityTo(txns, a, c, day)
            BY <3>3, ActivityIs
        <3>5. bal = Book(New(DefaultTolerance), UpTo(s, day)).bal
            BY <2>1, <2>3, <2>5 DEF BalancesAsOf, Ledger
        <3>6. QED
            BY <2>3, <3>2, <3>4, <3>5
    <2>7. bal = [a \in Accounts |-> [c \in Commodities |-> AccountActivity(Ledger, a, c, 0, D)]]
        BY <2>6 DEF Holdings
    <2>8. QED
        BY <2>5, <2>7
<1>2. IsExpanded => AsOfIsJournal
    BY <1>1 DEF AsOfIsJournal
<1>3. QED
    BY <1>2, AlwaysExpanded, PTL

=============================================================================
