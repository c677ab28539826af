---------------------------- MODULE IngestProofs ----------------------------
(***************************************************************************)
(* Proofs about ingest, for any journals, streams and capacity of the pipe *)
(* and any number of saves, failing calls and kills.                       *)
(* That it implements Upsert, that what it writes reads back, and that no  *)
(* id is written twice.                                                    *)
(***************************************************************************)
EXTENDS BlocksProofs

----------------------------------------------------------------------------
(* What is remembered of the lines that were read *)

(* No line before line i is sent under its id. *)
NewID(lines, i) ==
    LineID(lines[i]) = Nothing \/ \A j \in 1..i - 1 : LineID(lines[j]) # LineID(lines[i])

NewIDs(lines) == [i \in 1..Len(lines) |-> NewID(lines, i)]

(* Line j is the last of the first k with the id of line i. *)
IsLastOf(lines, k, i, j) ==
    /\ j \in 1..k
    /\ LineID(lines[i]) = Nothing => j = i
    /\ LineID(lines[i]) # Nothing => LineID(lines[j]) = LineID(lines[i])
    /\ LineID(lines[i]) # Nothing => \A h \in j + 1..k : LineID(lines[h]) # LineID(lines[i])

(* What is remembered of the first k lines: p are those with a new id. *)
Remembers(lines, k, p, ds, by) ==
    /\ Lists(p, NewIDs(lines), k)
    /\ IsSeq(ds) /\ Len(ds) = Len(p)
    /\ \A id \in DOMAIN by : by[id] \in 1..Len(p) /\ LineID(lines[p[by[id]]]) = id
    /\ DOMAIN by = {LineID(lines[i]) : i \in 1..k} \ {Nothing}
    /\ \A n \in 1..Len(p) : \E j \in 1..k :
          IsLastOf(lines, k, p[n], j) /\ ds[n] = DecodeLine(lines[j])

LEMMA NewIDsIs ==
    ASSUME NEW lines, NEW i \in 1..Len(lines)
    PROVE  NewIDs(lines)[i] <=> NewID(lines, i)
BY Zenon DEF NewIDs

(* Before the first line. *)
LEMMA RemembersNone ==
    ASSUME NEW lines
    PROVE  Remembers(lines, 0, << >>, << >>, << >>)
<1>1. \A n : n \notin 1..0
    OBVIOUS
<1>2. IsSeq(<< >>) /\ Len(<< >>) = 0
    BY NoneIs
<1>3. Lists(<< >>, NewIDs(lines), 0)
    BY <1>1, <1>2 DEF Lists
<1>4. DOMAIN << >> = {}
    OBVIOUS
<1>5. {LineID(lines[i]) : i \in 1..0} \ {Nothing} = {}
    BY <1>1
<1>6. QED
    BY <1>1, <1>2, <1>3, <1>4, <1>5 DEF Remembers

(* An id that is known already. *)
LEMMA RemembersAgain ==
    ASSUME NEW lines, Len(lines) \in Nat, NEW k \in Nat, NEW m \in 1..Len(lines), m = k + 1,
           NEW p, NEW ds, NEW by, Remembers(lines, k, p, ds, by),
           LineID(lines[m]) \in DOMAIN by,
           NEW new, IsSeq(new), Len(new) = Len(ds),
           \A n \in 1..Len(ds) :
               new[n] = IF n = by[LineID(lines[m])] THEN DecodeLine(lines[m]) ELSE ds[n]
    PROVE  Remembers(lines, m, p, new, by)
<1> DEFINE id == LineID(lines[m])
<1>1. /\ Lists(p, NewIDs(lines), k)
      /\ IsSeq(ds) /\ Len(ds) = Len(p)
      /\ \A i \in DOMAIN by : by[i] \in 1..Len(p) /\ LineID(lines[p[by[i]]]) = i
      /\ DOMAIN by = {LineID(lines[i]) : i \in 1..k} \ {Nothing}
      /\ \A n \in 1..Len(p) : \E j \in 1..k :
            IsLastOf(lines, k, p[n], j) /\ ds[n] = DecodeLine(lines[j])
    BY DEF Remembers
<1>2. id # Nothing /\ \E i \in 1..k : LineID(lines[i]) = id
    BY <1>1
<1>3. \A i \in 1..k : i \in 1..Len(lines) /\ i \in 1..m - 1 /\ i \in 1..m
    OBVIOUS
<1>4. ~NewIDs(lines)[m]
    <2>1. ~NewID(lines, m)
        BY <1>2, <1>3 DEF NewID
    <2>2. QED
        BY <2>1, NewIDsIs
<1>5. Lists(p, NewIDs(lines), m)
    <2>1. Lists(IF NewIDs(lines)[k + 1] THEN Append(p, k + 1) ELSE p, NewIDs(lines), k + 1)
        BY <1>1, ListsMore
    <2>2. QED
        BY <1>4, <2>1
<1>6. /\ IsSeq(p) /\ Len(p) \in Nat
      /\ \A n \in 1..Len(p) : p[n] \in 1..k /\ NewIDs(lines)[p[n]]
      /\ \A i, n \in 1..Len(p) : i < n => p[i] < p[n]
    BY <1>1, SeqFacts DEF Lists
<1>7. \A n \in 1..Len(p) : NewID(lines, p[n])
    BY <1>3, <1>6, NewIDsIs
<1>8. {LineID(lines[i]) : i \in 1..m} \ {Nothing} = {LineID(lines[i]) : i \in 1..k} \ {Nothing}
    <2>1. \A i \in 1..m : i \in 1..k \/ i = m
        OBVIOUS
    <2>2. QED
        BY <1>2, <1>3, <2>1
<1>9. PICK h \in 1..Len(p) : h = by[id]
    BY <1>1
<1>10. ASSUME NEW n \in 1..Len(p), n # h
       PROVE  LineID(lines[p[n]]) # id
    <2>1. SUFFICES ASSUME LineID(lines[p[n]]) = id PROVE FALSE
        OBVIOUS
    <2>2. LineID(lines[p[h]]) = id
        BY <1>1, <1>9
    <2>3. PICK x \in 1..k : x = p[n]
        BY <1>6
    <2>4. PICK y \in 1..k : y = p[h]
        BY <1>6
    <2>5. x < y \/ y < x
        <3>1. n < h \/ h < n
            BY <1>6, <1>10
        <3>2. QED
            BY <1>6, <2>3, <2>4, <3>1
    <2>6. ~(x < y)
        <3>1. x < y => x \in 1..y - 1
            OBVIOUS
        <3>2. NewID(lines, y)
            BY <1>7, <2>4
        <3>3. QED
            BY <1>2, <2>1, <2>2, <2>3, <2>4, <3>1, <3>2 DEF NewID
    <2>7. ~(y < x)
        <3>1. y < x => y \in 1..x - 1
            OBVIOUS
        <3>2. NewID(lines, x)
            BY <1>7, <2>3
        <3>3. QED
            BY <1>2, <2>1, <2>2, <2>3, <2>4, <3>1, <3>2 DEF NewID
    <2>8. QED
        BY <2>5, <2>6, <2>7
<1>11. ASSUME NEW n \in 1..Len(p)
       PROVE  \E j \in 1..m : IsLastOf(lines, m, p[n], j) /\ new[n] = DecodeLine(lines[j])
    <2>1. CASE n = h
        <3>1. LineID(lines[p[n]]) = id
            BY <1>1, <1>9, <2>1
        <3>2. m \in 1..m /\ \A x : x \notin m + 1..m
            OBVIOUS
        <3>3. IsLastOf(lines, m, p[n], m)
            BY <1>2, <3>1, <3>2 DEF IsLastOf
        <3>4. new[n] = DecodeLine(lines[m])
            BY <1>1, <1>9, <2>1
        <3>5. QED
            BY <3>2, <3>3, <3>4
    <2>2. CASE n # h
        <3>1. PICK j \in 1..k : IsLastOf(lines, k, p[n], j) /\ ds[n] = DecodeLine(lines[j])
            BY <1>1
        <3>2. LineID(lines[p[n]]) # LineID(lines[m])
            BY <1>10, <2>2
        <3>3. \A x \in j + 1..m : x \in j + 1..k \/ x = m
            OBVIOUS
        <3>4. IsLastOf(lines, m, p[n], j)
            BY <1>3, <3>1, <3>2, <3>3 DEF IsLastOf
        <3>5. new[n] = ds[n]
            BY <1>1, <1>9, <2>2
        <3>6. QED
            BY <1>3, <3>1, <3>4, <3>5
    <2>3. QED
        BY <2>1, <2>2
<1>12. QED
    BY <1>1, <1>5, <1>8, <1>11 DEF Remembers

(* byID with the place n of an id that is new. *)
IsMore(more, by, id, n) ==
    /\ id = Nothing => more = by
    /\ id # Nothing => more = [i \in DOMAIN by \cup {id} |-> IF i = id THEN n ELSE by[i]]

(* No id, or one that is new. *)
LEMMA RemembersMore ==
    ASSUME NEW lines, Len(lines) \in Nat, NEW k \in Nat, NEW m \in 1..Len(lines), m = k + 1,
           NEW p, NEW ds, NEW by, Remembers(lines, k, p, ds, by),
           LineID(lines[m]) \notin DOMAIN by,
           NEW more, IsMore(more, by, LineID(lines[m]), Len(ds) + 1)
    PROVE  Remembers(lines, m, Append(p, m), Append(ds, DecodeLine(lines[m])), more)
<1> DEFINE id == LineID(lines[m])
           q == Append(p, m)
           new == Append(ds, DecodeLine(lines[m]))
<1>1. /\ Lists(p, NewIDs(lines), k)
      /\ IsSeq(ds) /\ Len(ds) = Len(p)
      /\ \A i \in DOMAIN by : by[i] \in 1..Len(p) /\ LineID(lines[p[by[i]]]) = i
      /\ DOMAIN by = {LineID(lines[i]) : i \in 1..k} \ {Nothing}
      /\ \A n \in 1..Len(p) : \E j \in 1..k :
            IsLastOf(lines, k, p[n], j) /\ ds[n] = DecodeLine(lines[j])
    BY DEF Remembers
<1>2. id = Nothing \/ \A i \in 1..k : LineID(lines[i]) # id
    BY <1>1
<1>3. \A i \in 1..k : i \in 1..Len(lines) /\ i \in 1..m - 1 /\ i \in 1..m
    OBVIOUS
<1>4. NewIDs(lines)[m]
    <2>1. \A i \in 1..m - 1 : i \in 1..k
        OBVIOUS
    <2>2. NewID(lines, m)
        BY <1>2, <2>1 DEF NewID
    <2>3. QED
        BY <2>2, NewIDsIs
<1>5. Lists(q, NewIDs(lines), m)
    <2>1. Lists(IF NewIDs(lines)[k + 1] THEN Append(p, k + 1) ELSE p, NewIDs(lines), k + 1)
        BY <1>1, ListsMore
    <2>2. QED
        BY <1>4, <2>1
<1>6. /\ IsSeq(p) /\ Len(p) \in Nat
      /\ \A n \in 1..Len(p) : p[n] \in 1..k
    BY <1>1, SeqFacts DEF Lists
<1>7. /\ Len(q) = Len(p) + 1 /\ q[Len(p) + 1] = m
      /\ \A n \in 1..Len(p) : q[n] = p[n]
    BY <1>6, Added1
<1> DEFINE d == DecodeLine(lines[m])
<1> HIDE DEF q, d
<1>8. /\ IsSeq(new) /\ Len(new) = Len(p) + 1 /\ new[Len(p) + 1] = d
      /\ \A n \in 1..Len(p) : new[n] = ds[n]
    <2>1. /\ IsSeq(Append(ds, d)) /\ Len(Append(ds, d)) = Len(ds) + 1
          /\ Append(ds, d)[Len(ds) + 1] = d
          /\ \A n \in 1..Len(ds) : Append(ds, d)[n] = ds[n]
        <3>1. IsSeq(ds)
            BY <1>1
        <3>2. PICK x : x = d
            OBVIOUS
        <3> HIDE DEF new
        <3>3. /\ IsSeq(Append(ds, x)) /\ Len(Append(ds, x)) = Len(ds) + 1
              /\ Append(ds, x)[Len(ds) + 1] = x
              /\ \A n \in 1..Len(ds) : Append(ds, x)[n] = ds[n]
            BY <3>1, Added1, ZenonT(40)
        <3>4. QED
            BY <3>2, <3>3
    <2>2. new = Append(ds, d)
        BY DEF d
    <2> HIDE DEF new
    <2>3. QED
        BY <1>1, <2>1, <2>2
<1> HIDE DEF new
<1>9. \A n \in 1..Len(q) : n \in 1..Len(p) \/ n = Len(p) + 1
    BY <1>6, <1>7
<1>10. \A i \in 1..m : i \in 1..k \/ i = m
    OBVIOUS
<1>11. \A i \in DOMAIN more : more[i] \in 1..Len(q) /\ LineID(lines[q[more[i]]]) = i
    <2>1. \A i \in DOMAIN by : by[i] \in 1..Len(q) /\ LineID(lines[q[by[i]]]) = i
        <3>1. TAKE i \in DOMAIN by
        <3>2. PICK n \in 1..Len(p) : n = by[i]
            BY <1>1
        <3>3. n \in 1..Len(q) /\ q[n] = p[n]
            BY <1>6, <1>7
        <3>4. LineID(lines[p[n]]) = i
            BY <1>1, <3>2
        <3>5. QED
            BY <3>2, <3>3, <3>4
    <2>2. CASE id = Nothing
        BY <2>1, <2>2 DEF IsMore
    <2>3. CASE id # Nothing
        <3>1. more = [i \in DOMAIN by \cup {id} |-> IF i = id THEN Len(ds) + 1 ELSE by[i]]
            BY <2>3 DEF IsMore
        <3>2. PICK l \in 1..Len(q) : l = Len(ds) + 1
            BY <1>1, <1>6, <1>7
        <3>3. q[l] = m
            BY <1>1, <1>7, <3>2
        <3> HIDE DEF id
        <3>4. \A i \in DOMAIN more : \/ i = id /\ more[i] = l
                                     \/ i \in DOMAIN by /\ more[i] = by[i]
            BY <3>1, <3>2
        <3>5. LineID(lines[q[l]]) = id
            BY <3>3 DEF id
        <3>6. QED
            BY <2>1, <3>4, <3>5
    <2>4. QED
        BY <2>2, <2>3
<1>12. DOMAIN more = {LineID(lines[i]) : i \in 1..m} \ {Nothing}
    <2>1. {LineID(lines[i]) : i \in 1..m} = {LineID(lines[i]) : i \in 1..k} \cup {id}
        BY <1>3, <1>10
    <2>2. CASE id = Nothing
        BY <1>1, <2>1, <2>2 DEF IsMore
    <2>3. CASE id # Nothing
        <3>1. DOMAIN more = DOMAIN by \cup {id}
            BY <2>3 DEF IsMore
        <3>2. QED
            BY <1>1, <2>1, <2>3, <3>1
    <2>4. QED
        BY <2>2, <2>3
<1>13. ASSUME NEW n \in 1..Len(q)
       PROVE  \E j \in 1..m : IsLastOf(lines, m, q[n], j) /\ new[n] = DecodeLine(lines[j])
    <2>1. CASE n \in 1..Len(p)
        <3>1. PICK j \in 1..k : IsLastOf(lines, k, p[n], j) /\ ds[n] = DecodeLine(lines[j])
            BY <1>1, <2>1
        <3>2. q[n] = p[n] /\ new[n] = ds[n] /\ p[n] \in 1..k
            BY <1>6, <1>7, <1>8, <2>1
        <3>3. LineID(lines[p[n]]) = Nothing \/ LineID(lines[p[n]]) # LineID(lines[m])
            BY <1>2, <3>2
        <3>4. \A x \in j + 1..m : x \in j + 1..k \/ x = m
            OBVIOUS
        <3>5. IsLastOf(lines, m, p[n], j)
            BY <1>3, <3>1, <3>3, <3>4 DEF IsLastOf
        <3>6. QED
            BY <1>3, <3>1, <3>2, <3>5
    <2>2. CASE n = Len(p) + 1
        <3>1. m \in 1..m /\ \A x : x \notin m + 1..m
            OBVIOUS
        <3>2. IsLastOf(lines, m, m, m)
            BY <3>1 DEF IsLastOf
        <3>3. q[n] = m /\ new[n] = d
            BY <1>7, <1>8, <2>2
        <3>4. QED
            BY <3>1, <3>2, <3>3 DEF d
    <2>3. QED
        BY <1>9, <2>1, <2>2
<1>14. Len(new) = Len(q) /\ IsSeq(new)
    BY <1>7, <1>8
<1>15. Remembers(lines, m, q, new, more)
    BY <1>5, <1>11, <1>12, <1>13, <1>14 DEF Remembers
<1>16. QED
    BY <1>15 DEF q, new

(* What Upsert calls the first and the last line of an id, in these words. *)
LEMMA FirstIs ==
    ASSUME NEW lines, IsSeq(lines), NEW i \in 1..Len(lines)
    PROVE  Promise!IsFirst(lines, i) <=> NewID(lines, i)
<1>1. Len(lines) \in Nat /\ DOMAIN lines = 1..Len(lines)
    BY SeqFacts
<1>2. Promise!IsFirst(lines, i) <=> \A j \in Promise!Alike(lines, i) : i <= j
    BY Zenon DEF Promise!IsFirst
<1>3. CASE LineID(lines[i]) = Nothing
    <2>1. Promise!Alike(lines, i) = {i}
        BY Zenon, <1>3 DEF Promise!Alike
    <2>2. i <= i
        BY <1>1
    <2>3. QED
        BY <1>2, <1>3, <2>1, <2>2 DEF NewID
<1>4. CASE LineID(lines[i]) # Nothing
    <2>1. Promise!Alike(lines, i) = {j \in DOMAIN lines : LineID(lines[j]) = LineID(lines[i])}
        BY Zenon, <1>4 DEF Promise!Alike
    <2>2. ASSUME \A j \in Promise!Alike(lines, i) : i <= j, NEW j \in 1..i - 1
          PROVE  LineID(lines[j]) # LineID(lines[i])
        <3>1. j \in 1..Len(lines) /\ ~(i <= j)
            BY <1>1
        <3>2. QED
            BY <1>1, <2>1, <2>2, <3>1
    <2>3. ASSUME NewID(lines, i), NEW j \in Promise!Alike(lines, i)
          PROVE  i <= j
        <3>1. j \in 1..Len(lines) /\ LineID(lines[j]) = LineID(lines[i])
            BY <1>1, <2>1
        <3>2. ~(j \in 1..i - 1)
            BY <1>4, <2>3, <3>1 DEF NewID
        <3>3. QED
            BY <1>1, <3>1, <3>2
    <2>4. NewID(lines, i) <=> \A j \in 1..i - 1 : LineID(lines[j]) # LineID(lines[i])
        BY <1>4 DEF NewID
    <2>5. QED
        BY <1>2, <2>2, <2>3, <2>4
<1>5. QED
    BY <1>3, <1>4

LEMMA LastIs ==
    ASSUME NEW lines, IsSeq(lines), NEW i \in 1..Len(lines), NEW j,
           IsLastOf(lines, Len(lines), i, j)
    PROVE  Promise!LastAlike(lines, i) = j
<1>1. Len(lines) \in Nat /\ DOMAIN lines = 1..Len(lines)
    BY SeqFacts
<1> DEFINE S == Promise!Alike(lines, i)
<1>2. j \in 1..Len(lines)
    BY DEF IsLastOf
<1>3. j \in S /\ \A k \in S : k \in 1..Len(lines) /\ k <= j
    <2>1. CASE LineID(lines[i]) = Nothing
        <3>1. S = {i} /\ j = i
            BY Zenon, <2>1 DEF Promise!Alike, IsLastOf
        <3>2. i <= i
            BY <1>1
        <3> HIDE DEF S
        <3>3. QED
            BY <3>1, <3>2
    <2>2. CASE LineID(lines[i]) # Nothing
        <3>1. S = {k \in DOMAIN lines : LineID(lines[k]) = LineID(lines[i])}
            BY Zenon, <2>2 DEF Promise!Alike
        <3>2. /\ LineID(lines[j]) = LineID(lines[i])
              /\ \A h \in j + 1..Len(lines) : LineID(lines[h]) # LineID(lines[i])
            BY <2>2 DEF IsLastOf
        <3> HIDE DEF S
        <3>3. j \in S
            BY <1>1, <1>2, <3>1, <3>2
        <3>4. ASSUME NEW k \in S
              PROVE  k \in 1..Len(lines) /\ k <= j
            <4>1. k \in 1..Len(lines) /\ LineID(lines[k]) = LineID(lines[i])
                BY <1>1, <3>1
            <4>2. ~(k \in j + 1..Len(lines))
                BY <3>2, <4>1
            <4>3. QED
                BY <1>1, <1>2, <4>1, <4>2
        <3>5. QED
            BY <3>3, <3>4
    <2>3. QED
        BY <2>1, <2>2
<1>4. Promise!LastAlike(lines, i) = CHOOSE x \in S : \A k \in S : k <= x
    BY Zenon DEF Promise!LastAlike
<1> HIDE DEF S
<1>5. ASSUME NEW x \in S, \A k \in S : k <= x
      PROVE  x = j
    <2>1. x <= j /\ j <= x /\ x \in 1..Len(lines)
        BY <1>3, <1>5
    <2>2. QED
        BY <1>1, <1>2, <2>1
<1>6. QED
    BY <1>3, <1>4, <1>5

(* All lines are read: what is remembered is what the promise speaks of. *)
LEMMA LatestIs ==
    ASSUME NEW lines, IsSeq(lines), NEW p, NEW ds, NEW by,
           Remembers(lines, Len(lines), p, ds, by)
    PROVE  ds = Promise!Latest(lines)
<1> DEFINE places == Promise!Places([i \in DOMAIN lines |-> Promise!IsFirst(lines, i)])
           last(n) == DecodeLine(lines[Promise!LastAlike(lines, places[n])])
<1>1. Promise!Latest(lines) = [n \in DOMAIN places |-> last(n)]
    BY Zenon DEF Promise!Latest
<1>2. Len(lines) \in Nat /\ DOMAIN lines = 1..Len(lines)
    BY SeqFacts
<1>3. /\ Lists(p, NewIDs(lines), Len(lines))
      /\ IsSeq(ds) /\ Len(ds) = Len(p)
      /\ \A n \in 1..Len(p) : \E j \in 1..Len(lines) :
            IsLastOf(lines, Len(lines), p[n], j) /\ ds[n] = DecodeLine(lines[j])
    BY DEF Remembers
<1>4. places = p
    <2>1. [i \in DOMAIN lines |-> Promise!IsFirst(lines, i)] = NewIDs(lines)
        <3>1. \A i \in 1..Len(lines) : Promise!IsFirst(lines, i) = NewID(lines, i)
            <4>1. TAKE i \in 1..Len(lines)
            <4>2. Promise!IsFirst(lines, i) \in BOOLEAN
                BY Zenon DEF Promise!IsFirst
            <4>3. NewID(lines, i) \in BOOLEAN
                BY Zenon DEF NewID
            <4>4. Promise!IsFirst(lines, i) <=> NewID(lines, i)
                BY FirstIs
            <4>5. QED
                BY <4>2, <4>3, <4>4
        <3>2. QED
            BY Zenon, <1>2, <3>1 DEF NewIDs
    <2>2. \A h : Promise!Places(h) = Places(h)
        BY Zenon DEF Promise!Places, Places
    <2>3. places = Places(NewIDs(lines))
        BY Zenon, <2>1, <2>2
    <2>4. Len(NewIDs(lines)) = Len(lines)
        <3>1. NewIDs(lines) = [i \in 1..Len(lines) |-> NewIDs(lines)[i]]
            BY DEF NewIDs
        <3>2. QED
            BY <1>2, <3>1, FcnIsSeq
    <2>5. Lists(places, NewIDs(lines), Len(lines))
        BY <1>2, <2>3, <2>4, PlacesList
    <2> HIDE DEF places
    <2>6. QED
        BY <1>2, <1>3, <2>5, ListsUnique
<1> HIDE DEF places
<1>5. /\ IsSeq(p) /\ Len(p) \in Nat /\ DOMAIN p = 1..Len(p)
      /\ \A n \in 1..Len(p) : p[n] \in 1..Len(lines)
    BY <1>3, SeqFacts DEF Lists
<1>6. ASSUME NEW n \in 1..Len(p)
      PROVE  ds[n] = last(n)
    <2>1. PICK j \in 1..Len(lines) :
              IsLastOf(lines, Len(lines), p[n], j) /\ ds[n] = DecodeLine(lines[j])
        BY <1>3
    <2>2. PICK i \in 1..Len(lines) : i = p[n]
        BY <1>5
    <2>3. Promise!LastAlike(lines, i) = j
        BY <2>1, <2>2, LastIs
    <2>4. places[n] = i
        BY <1>4, <2>2
    <2>5. QED
        BY Zenon, <2>1, <2>3, <2>4
<1>7. ds = [n \in 1..Len(p) |-> ds[n]]
    BY <1>3, SeqFacts
<1>8. DOMAIN places = 1..Len(p)
    BY <1>4, <1>5
<1> HIDE DEF last
<1>9. ds = [n \in DOMAIN places |-> last(n)]
    BY <1>6, <1>7, <1>8
<1>10. QED
    BY <1>1, <1>9

(* A decoded line can be written. *)
LEMMA DecodedPostings ==
    ASSUME NEW line \in Lines
    PROVE  IsSeq(DecodeLine(line).postings)
<1> DEFINE ps == [i \in DOMAIN line.postings |-> ToPosting(line.postings[i])]
           d == [kind |-> line.type, date |-> line.date, args |-> line.args, rest |-> line.rest,
                 md |-> IF HasMetadata(line.type) THEN line.md ELSE NoMeta, postings |-> ps]
<1>1. IsSeq(line.postings)
    BY IngestAssumption DEF IsSeq, IsLine
<1>2. Len(line.postings) \in Nat /\ DOMAIN line.postings = 1..Len(line.postings)
    BY <1>1, SeqFacts
<1>3. IsSeq(ps)
    <2>1. ps = [i \in 1..Len(line.postings) |-> ps[i]]
        BY <1>2
    <2> HIDE DEF ps
    <2>2. QED
        BY <1>2, <2>1, FcnIsSeq
<1>4. DecodeLine(line) = WithIngestID(d, LineID(line))
    BY Zenon DEF DecodeLine
<1> HIDE DEF ps
<1>5. d.postings = ps
    OBVIOUS
<1>6. \A id : WithIngestID(d, id).postings = ps
    <2>1. TAKE id
    <2>2. CASE id = Nothing \/ ~HasMetadata(d.kind)
        <3> HIDE DEF d
        <3>1. WithIngestID(d, id) = d
            BY <2>2 DEF WithIngestID
        <3>2. QED
            BY <1>5, <3>1
    <2>3. CASE ~(id = Nothing \/ ~HasMetadata(d.kind))
        <3> DEFINE md == MetaWith(d.md, IngestIDMetaKey, id)
        <3>1. WithIngestID(d, id) = [d EXCEPT !.md = md]
            BY Zenon, <2>3 DEF WithIngestID
        <3> HIDE DEF md
        <3>2. [d EXCEPT !.md = md].postings = ps
            OBVIOUS
        <3> HIDE DEF d
        <3>3. QED
            BY <3>1, <3>2
    <2>4. QED
        BY <2>2, <2>3
<1> HIDE DEF d
<1>7. QED
    BY <1>3, <1>4, <1>6

LEMMA RememberedWritable ==
    ASSUME NEW lines \in Seq(Lines), NEW k \in Nat, k <= Len(lines), NEW p, NEW ds, NEW by,
           Remembers(lines, k, p, ds, by)
    PROVE  Writable(ds)
<1>1. IsSeq(lines) /\ Len(lines) \in Nat
    BY IsSeqOf, SeqFacts
<1>2. /\ IsSeq(ds) /\ Len(ds) = Len(p)
      /\ \A n \in 1..Len(p) : \E j \in 1..k : ds[n] = DecodeLine(lines[j])
    BY DEF Remembers
<1>3. ASSUME NEW n \in 1..Len(ds)
      PROVE  IsSeq(ds[n].postings)
    <2>1. PICK j \in 1..k : ds[n] = DecodeLine(lines[j])
        BY <1>2
    <2>2. j \in 1..Len(lines)
        BY <1>1
    <2>3. lines[j] \in Lines
        BY <2>2
    <2>4. QED
        BY <2>1, <2>3, DecodedPostings
<1>4. QED
    BY <1>2, <1>3 DEF Writable

----------------------------------------------------------------------------
(* What metadata is written as reads back *)

(* A set of numbers up to n has a greatest one. *)
LEMMA GreatestNat ==
    ASSUME NEW n \in Nat, NEW S \in SUBSET (1..n), S # {}
    PROVE  \E i \in S : \A j \in S : j <= i
<1> DEFINE T == {d \in Nat : \E i \in S : d = n - i}
<1>1. T \in SUBSET Nat /\ T # {}
    <2>1. PICK i \in S : TRUE
        OBVIOUS
    <2>2. n - i \in Nat
        OBVIOUS
    <2>3. n - i \in T
        BY <2>2
    <2>4. QED
        BY <2>3
<1>2. PICK d \in T : \A e \in T : d <= e
    <2> HIDE DEF T
    <2>1. QED
        BY <1>1, LeastNat
<1>3. PICK i \in S : d = n - i
    BY <1>2
<1>4. ASSUME NEW j \in S
      PROVE  j <= i
    <2>1. n - j \in Nat
        OBVIOUS
    <2>2. n - j \in T
        BY <2>1
    <2>3. d <= n - j
        BY <1>2, <2>2
    <2>4. QED
        BY <1>3, <2>3
<1>5. QED
    BY <1>4

(* The lines of metadata: one for each key, with its value between quotes. *)
IsMetaLine(l, md) == l.line = "meta" /\ l.key \in DOMAIN md /\ l.value = QuoteStr(md[l.key])

LEMMA MetaLines ==
    ASSUME NEW md, DOMAIN md \subseteq ToSet(KeyOrder)
    PROVE  /\ IsSeq(WriteMeta(md)) /\ Len(WriteMeta(md)) \in Nat
           /\ \A n \in 1..Len(WriteMeta(md)) : IsMetaLine(WriteMeta(md)[n], md)
           /\ \A k \in DOMAIN md : \E n \in 1..Len(WriteMeta(md)) : WriteMeta(md)[n].key = k
<1> DEFINE holds == [i \in DOMAIN KeyOrder |-> KeyOrder[i] \in DOMAIN md]
           at == Places(holds)
           line(key) == [line |-> "meta", key |-> key, value |-> QuoteStr(md[key])]
           lines == [n \in DOMAIN at |-> line(KeyOrder[at[n]])]
<1>1. Len(KeyOrder) \in Nat /\ DOMAIN KeyOrder = 1..Len(KeyOrder)
    BY WordsAssumption, SeqFacts DEF IsSeq
<1>2. /\ Len(holds) = Len(KeyOrder)
      /\ \A i \in 1..Len(KeyOrder) : holds[i] <=> KeyOrder[i] \in DOMAIN md
    <2>1. holds = [i \in 1..Len(KeyOrder) |-> holds[i]]
        BY <1>1
    <2>2. \A i \in 1..Len(KeyOrder) : holds[i] <=> KeyOrder[i] \in DOMAIN md
        BY <1>1
    <2> HIDE DEF holds
    <2>3. QED
        BY <1>1, <2>1, <2>2, FcnIsSeq
<1>3. WriteMeta(md) = lines
    BY DEF WriteMeta
<1> HIDE DEF holds
<1>4. Lists(at, holds, Len(KeyOrder))
    BY <1>1, <1>2, PlacesList
<1> HIDE DEF at
<1>5. Len(at) \in Nat /\ DOMAIN at = 1..Len(at)
    BY <1>4, SeqFacts DEF Lists
<1>6. \A n \in 1..Len(at) : KeyOrder[at[n]] \in DOMAIN md
    BY <1>2, <1>4 DEF Lists
<1>7. /\ lines = [n \in 1..Len(at) |-> lines[n]]
      /\ \A n \in 1..Len(at) : lines[n] = line(KeyOrder[at[n]])
    BY <1>5
<1>8. \A key : line(key).line = "meta" /\ line(key).key = key /\ line(key).value = QuoteStr(md[key])
    OBVIOUS
<1> HIDE DEF lines, line
<1>9. IsSeq(lines) /\ Len(lines) = Len(at)
    BY <1>5, <1>7, FcnIsSeq
<1>10. ASSUME NEW n \in 1..Len(at)
       PROVE  IsMetaLine(lines[n], md) /\ lines[n].key = KeyOrder[at[n]]
    <2>1. PICK key : key = KeyOrder[at[n]]
        OBVIOUS
    <2>2. lines[n] = line(key)
        BY <1>7, <2>1
    <2>3. lines[n].line = "meta" /\ lines[n].key = key /\ lines[n].value = QuoteStr(md[key])
        BY <1>8, <2>2
    <2>4. key \in DOMAIN md
        BY <1>6, <2>1
    <2>5. QED
        BY <2>1, <2>3, <2>4 DEF IsMetaLine
<1>11. ASSUME NEW k \in DOMAIN md
       PROVE  \E n \in 1..Len(at) : lines[n].key = k
    <2>1. PICK i \in 1..Len(KeyOrder) : KeyOrder[i] = k
        BY <1>1 DEF ToSet
    <2>2. holds[i]
        BY <1>2, <2>1
    <2>3. PICK n \in 1..Len(at) : at[n] = i
        BY <1>4, <2>2 DEF Lists
    <2>4. QED
        BY <1>10, <2>1, <2>3
<1>12. QED
    BY <1>3, <1>5, <1>9, <1>10, <1>11

(* Metadata is read back, whatever lines come before it. *)
LEMMA KeyValuesBack ==
    ASSUME NEW md, DOMAIN md \subseteq ToSet(KeyOrder), NEW k \in Nat,
           NEW lines, IsSeq(lines), Len(lines) = k + Len(WriteMeta(md)),
           \A i \in 1..k : lines[i].line # "meta",
           \A i \in 1..Len(WriteMeta(md)) : lines[k + i] = WriteMeta(md)[i]
    PROVE  ParseKeyValues(lines) = Quoted(md)
<1> DEFINE w == WriteMeta(md)
<1>1. /\ Len(w) \in Nat
      /\ \A n \in 1..Len(w) : IsMetaLine(w[n], md)
      /\ \A key \in DOMAIN md : \E n \in 1..Len(w) : w[n].key = key
    BY MetaLines
<1>2. /\ DOMAIN lines = 1..Len(lines) /\ Len(lines) = k + Len(w)
      /\ \A i \in 1..Len(w) : lines[k + i] = w[i]
    BY SeqFacts
<1> HIDE DEF w
<1> DEFINE metas == {i \in DOMAIN lines : lines[i].line = "meta"}
           Is(i, key) == i \in metas /\ lines[i].key = key
                         /\ \A j \in metas : lines[j].key = key => j <= i
           lastOf(key) == CHOOSE i \in metas : lines[i].key = key /\
                              \A j \in metas : lines[j].key = key => j <= i
<1>3. ParseKeyValues(lines) = [key \in {lines[i].key : i \in metas} |-> lines[lastOf(key)].value]
    BY DEF ParseKeyValues
<1>4. \A i \in 1..Len(w) : k + i \in metas
    <2>1. TAKE i \in 1..Len(w)
    <2>2. k + i \in DOMAIN lines
        BY <1>1, <1>2
    <2>3. PICK l : l = w[i]
        OBVIOUS
    <2>4. lines[k + i] = l
        BY <1>2, <2>3
    <2>5. l.line = "meta"
        BY <1>1, <2>3 DEF IsMetaLine
    <2>6. PICK j \in DOMAIN lines : j = k + i
        BY <2>2
    <2>7. lines[j].line = "meta"
        BY <2>4, <2>5, <2>6
    <2>8. j \in metas
        BY <2>7
    <2>9. QED
        BY <2>6, <2>8
<1>5. \A i \in metas : IsMetaLine(lines[i], md)
    <2>1. TAKE i \in metas
    <2>2. ~(i \in 1..k) /\ i \in 1..k + Len(w)
        BY <1>2
    <2>3. PICK n \in 1..Len(w) : n = i - k
        BY <1>1, <2>2
    <2>4. i = k + n
        BY <1>1, <1>2, <2>2, <2>3
    <2>5. QED
        BY <1>1, <1>2, <2>4
<1>6. metas \in SUBSET (1..Len(lines)) /\ Len(lines) \in Nat
    BY <1>1, <1>2
<1> HIDE DEF metas
<1>7. {lines[i].key : i \in metas} = DOMAIN md
    <2>1. ASSUME NEW i \in metas
          PROVE  lines[i].key \in DOMAIN md
        BY <1>5 DEF IsMetaLine
    <2>2. ASSUME NEW key \in DOMAIN md
          PROVE  \E i \in metas : lines[i].key = key
        <3>1. PICK n \in 1..Len(w) : w[n].key = key
            BY <1>1
        <3>2. lines[k + n].key = key /\ k + n \in metas
            BY <1>2, <1>4, <3>1
        <3>3. QED
            BY <3>2
    <2>3. QED
        BY <2>1, <2>2
<1>8. ASSUME NEW key \in DOMAIN md
      PROVE  lines[lastOf(key)].value = QuoteStr(md[key])
    <2> DEFINE S == {i \in metas : lines[i].key = key}
    <2>1. S \in SUBSET (1..Len(lines)) /\ S # {}
        BY <1>6, <1>7
    <2>2. PICK i \in S : \A j \in S : j <= i
        <3> HIDE DEF S
        <3>1. QED
            BY <1>6, <2>1, GreatestNat
    <2>3. i \in metas /\ lines[i].key = key /\ \A j \in metas : lines[j].key = key => j <= i
        BY <2>2
    <2>4. lastOf(key) \in metas /\ lines[lastOf(key)].key = key
        BY <2>3
    <2> HIDE DEF lastOf
    <2>5. QED
        BY <1>5, <2>4 DEF IsMetaLine
<1> HIDE DEF lastOf
<1>9. ParseKeyValues(lines) = [key \in DOMAIN md |-> lines[lastOf(key)].value]
    BY <1>3, <1>7
<1>10. QED
    BY <1>8, <1>9 DEF Quoted

----------------------------------------------------------------------------
(* The lines of postings *)

(* A posting is written as its line and its metadata. *)
PostLine(p) ==
    [line |-> "posting", account |-> p.account, units |-> Rounded(p.units),
     cost |-> WriteCost(p.cost), price |-> Rounded(p.price)]

IsPostLines(lines, p) ==
    /\ IsSeq(lines) /\ Len(lines) = 1 + Len(WriteMeta(p.md)) /\ Len(lines) \in Nat
    /\ lines[1] = PostLine(p) /\ lines[1].line = "posting"
    /\ \A j \in 1..Len(lines) : j # 1 => lines[j].line = "meta"
    /\ ParseKeyValues(lines) = Quoted(p.md)

LEMMA PostingLines ==
    ASSUME NEW p, DOMAIN p.md \subseteq ToSet(KeyOrder)
    PROVE  IsPostLines(WritePosting(p), p)
<1> DEFINE w == WriteMeta(p.md)
           l == PostLine(p)
           lines == <<l>> \o w
<1>1. WritePosting(p) = lines
    BY Zenon DEF WritePosting, PostLine, Rounded
<1>2. l.line = "posting"
    BY Zenon DEF PostLine
<1>3. /\ IsSeq(w) /\ Len(w) \in Nat
      /\ \A n \in 1..Len(w) : IsMetaLine(w[n], p.md)
    BY MetaLines
<1> HIDE DEF l
<1>4. IsSeq(<<l>>) /\ Len(<<l>>) = 1 /\ <<l>>[1] = l
    BY Single
<1>5. /\ IsSeq(lines) /\ Len(lines) = Len(<<l>>) + Len(w)
      /\ \A i \in 1..Len(<<l>>) : lines[i] = <<l>>[i]
      /\ \A i \in 1..Len(w) : lines[Len(<<l>>) + i] = w[i]
      /\ \A i \in Len(<<l>>) + 1..Len(<<l>>) + Len(w) : lines[i] = w[i - Len(<<l>>)]
    <2> HIDE DEF w
    <2>1. IsSeq(<<l>>) /\ IsSeq(w)
        BY <1>3, <1>4
    <2>2. QED
        BY <2>1, Cat
<1> HIDE DEF lines
<1>6. /\ Len(lines) = 1 + Len(w) /\ lines[1] = l
      /\ \A i \in 1..Len(w) : lines[1 + i] = w[i]
      /\ \A i \in 2..1 + Len(w) : lines[i] = w[i - 1]
    BY <1>3, <1>4, <1>5
<1>7. ParseKeyValues(lines) = Quoted(p.md)
    <2>1. \A i \in 1..1 : lines[i].line # "meta"
        BY <1>2, <1>6
    <2>2. PICK k \in Nat : k = 1
        OBVIOUS
    <2>3. /\ Len(lines) = k + Len(WriteMeta(p.md))
          /\ \A i \in 1..k : lines[i].line # "meta"
          /\ \A i \in 1..Len(WriteMeta(p.md)) : lines[k + i] = WriteMeta(p.md)[i]
        BY <1>6, <2>1, <2>2
    <2>4. IsSeq(lines)
        BY <1>5
    <2>5. QED
        BY <2>3, <2>4, KeyValuesBack
<1>8. \A j \in 1..Len(lines) : j # 1 => lines[j].line = "meta"
    <2>1. TAKE j \in 1..Len(lines)
    <2>2. HAVE j # 1
    <2>3. j \in 2..1 + Len(w) /\ j - 1 \in 1..Len(w)
        BY <1>3, <1>6, <2>2
    <2>4. lines[j] = w[j - 1]
        BY <1>6, <2>3
    <2>5. w[j - 1].line = "meta"
        BY <1>3, <2>3 DEF IsMetaLine
    <2>6. QED
        BY <2>4, <2>5
<1>9. Len(lines) \in Nat
    BY <1>3, <1>6
<1>10. QED
    BY <1>1, <1>2, <1>5, <1>6, <1>7, <1>8, <1>9 DEF IsPostLines, l, w

(* The body of a directive: its metadata, and the lines of each posting. *)
PostingTexts(ps) == [n \in DOMAIN ps |-> WritePosting(ps[n])]
Body(md, ps) == WriteMeta(md) \o FlattenSeq(PostingTexts(ps))

Keyed(md, ps) ==
    /\ DOMAIN md \subseteq ToSet(KeyOrder)
    /\ IsSeq(ps) /\ \A n \in 1..Len(ps) : DOMAIN ps[n].md \subseteq ToSet(KeyOrder)

(* Posting n of the body is lines k + o[n - 1] + 1 to k + o[n].            *)
IsBody(body, ws, md, ps, k, o) ==
    /\ IsSeq(body) /\ k = Len(WriteMeta(md)) /\ k \in Nat
    /\ IsSeq(ws) /\ Len(ws) = Len(ps)
    /\ \A n \in 1..Len(ws) : IsPostLines(ws[n], ps[n])
    /\ \A i \in 1..k : body[i] = WriteMeta(md)[i] /\ body[i].line = "meta"
    /\ Len(body) = k + Len(FlattenSeq(ws)) /\ Laid(FlattenSeq(ws), ws, o)
    /\ \A j \in 1..Len(FlattenSeq(ws)) : body[k + j] = FlattenSeq(ws)[j]

LEMMA BodyIs ==
    ASSUME NEW md, NEW ps, Keyed(md, ps)
    PROVE  \E o : IsBody(Body(md, ps), PostingTexts(ps), md, ps, Len(WriteMeta(md)), o)
<1> DEFINE w == WriteMeta(md)
           ws == PostingTexts(ps)
           flat == FlattenSeq(ws)
           body == w \o flat
<1>1. IsSeq(ps) /\ Len(ps) \in Nat /\ DOMAIN ps = 1..Len(ps)
    BY SeqFacts DEF Keyed
<1>2. ws = [n \in 1..Len(ps) |-> ws[n]] /\ \A n \in 1..Len(ps) : ws[n] = WritePosting(ps[n])
    BY <1>1 DEF PostingTexts
<1> HIDE DEF ws
<1>3. IsSeq(ws) /\ Len(ws) = Len(ps)
    BY <1>1, <1>2, FcnIsSeq
<1>4. \A n \in 1..Len(ws) : IsPostLines(ws[n], ps[n])
    <2>1. TAKE n \in 1..Len(ws)
    <2>2. DOMAIN ps[n].md \subseteq ToSet(KeyOrder) /\ ws[n] = WritePosting(ps[n])
        BY <1>2, <1>3 DEF Keyed
    <2>3. QED
        BY <2>2, PostingLines
<1>5. \A n \in 1..Len(ws) : IsPart(ws[n])
    <2>1. TAKE n \in 1..Len(ws)
    <2>2. IsPostLines(ws[n], ps[n])
        BY <1>4
    <2>3. Len(WriteMeta(ps[n].md)) \in Nat
        BY <1>3, MetaLines DEF Keyed
    <2>4. QED
        BY <2>2, <2>3 DEF IsPostLines, IsPart
<1>6. PICK o : Laid(flat, ws, o)
    BY <1>3, <1>5, FlattenLaid
<1>7. /\ IsSeq(w) /\ Len(w) \in Nat
      /\ \A n \in 1..Len(w) : w[n].line = "meta"
    BY MetaLines DEF Keyed, IsMetaLine
<1> HIDE DEF flat, w
<1>8. IsSeq(flat)
    BY <1>6 DEF Laid
<1>9. /\ IsSeq(body) /\ Len(body) = Len(w) + Len(flat)
      /\ \A i \in 1..Len(w) : body[i] = w[i]
      /\ \A i \in 1..Len(flat) : body[Len(w) + i] = flat[i]
    BY <1>7, <1>8, Cat
<1>10. body = Body(md, ps)
    BY DEF Body, w, flat, ws
<1> HIDE DEF body
<1>11. IsBody(body, ws, md, ps, Len(w), o)
    BY <1>3, <1>4, <1>6, <1>7, <1>9 DEF IsBody, w, flat
<1>12. QED
    BY <1>10, <1>11 DEF w, ws

----------------------------------------------------------------------------
(* Postings are found where they are written *)

(* Where each posting of a body starts. *)
PostingStart(ws, k, o) == [n \in 1..Len(ws) |-> k + o[n - 1] + 1]

LEMMA PostingPlaces ==
    ASSUME NEW body, NEW ws, NEW md, NEW ps, NEW k, NEW o, IsBody(body, ws, md, ps, k, o),
           NEW holds, \A i \in 1..Len(body) : holds[i] <=> body[i].line = "posting"
    PROVE  Lists(PostingStart(ws, k, o), holds, Len(body))
<1> DEFINE at == PostingStart(ws, k, o)
           flat == FlattenSeq(ws)
<1>1. /\ k \in Nat /\ Len(ws) \in Nat /\ Len(flat) \in Nat /\ Len(body) = k + Len(flat)
      /\ \A n \in 1..Len(ws) : Len(ws[n]) \in Nat \ {0} /\ o[n - 1] \in Nat /\ o[n] \in Nat
                               /\ o[n - 1] < o[n]
    BY LaidLens DEF IsBody
<1>2. \A j \in 1..Len(flat) : body[k + j] = flat[j]
    BY DEF IsBody
<1>3. \A i \in 1..k : body[i].line = "meta"
    BY DEF IsBody
<1>4. Laid(flat, ws, o)
    BY DEF IsBody
<1>5. at = [n \in 1..Len(ws) |-> at[n]] /\ \A n \in 1..Len(ws) : at[n] = k + o[n - 1] + 1
    BY DEF PostingStart
<1> HIDE DEF flat, at
<1>6. IsSeq(at) /\ Len(at) = Len(ws)
    BY <1>1, <1>5, FcnIsSeq
<1>7. ASSUME NEW n \in 1..Len(ws), NEW j \in 1..Len(ws[n])
      PROVE  /\ k + (o[n - 1] + j) \in 1..Len(body)
             /\ body[k + (o[n - 1] + j)] = ws[n][j]
    <2>1. o[n - 1] + j \in 1..Len(flat) /\ flat[o[n - 1] + j] = ws[n][j]
        BY <1>4, LaidIn
    <2>2. PICK x \in 1..Len(flat) : x = o[n - 1] + j
        BY <2>1
    <2>3. body[k + x] = flat[x] /\ k + x \in 1..Len(body)
        BY <1>1, <1>2
    <2>4. QED
        BY <2>1, <2>2, <2>3
<1>8. \A n \in 1..Len(at) : at[n] \in 1..Len(body) /\ holds[at[n]]
    <2>1. TAKE n \in 1..Len(at)
    <2>2. n \in 1..Len(ws) /\ 1 \in 1..Len(ws[n])
        BY <1>1, <1>6
    <2>3. k + (o[n - 1] + 1) \in 1..Len(body) /\ body[k + (o[n - 1] + 1)] = ws[n][1]
        BY <1>7, <2>2
    <2>4. at[n] = k + (o[n - 1] + 1)
        BY <1>1, <1>5, <2>2
    <2>5. ws[n][1].line = "posting"
        BY <2>2 DEF IsBody, IsPostLines
    <2>6. QED
        BY <2>3, <2>4, <2>5
<1>9. \A m, n \in 1..Len(at) : m < n => at[m] < at[n]
    <2>1. TAKE m, n \in 1..Len(at)
    <2>2. HAVE m < n
    <2>3. m - 1 \in 0..Len(ws) /\ n - 1 \in 0..Len(ws) /\ m - 1 <= n - 1 /\ m - 1 < n - 1
        BY <1>1, <1>6, <2>2
    <2>4. o[m - 1] < o[n - 1]
        BY <1>4, <2>3, LaidGrow
    <2>5. o[m - 1] \in Nat /\ o[n - 1] \in Nat /\ at[m] = k + o[m - 1] + 1 /\ at[n] = k + o[n - 1] + 1
        BY <1>1, <1>5, <1>6
    <2>6. QED
        BY <1>1, <2>4, <2>5
<1>10. \A i \in 1..Len(body) : holds[i] => \E n \in 1..Len(at) : at[n] = i
    <2>1. TAKE i \in 1..Len(body)
    <2>2. HAVE holds[i]
    <2>3. body[i].line = "posting"
        BY <2>2
    <2>4. ~(i \in 1..k)
        BY <1>3, <2>3
    <2>5. PICK x \in 1..Len(flat) : x = i - k
        BY <1>1, <2>4
    <2>6. k + x = i /\ body[i] = flat[x]
        <3>1. k + x = i
            BY <1>1, <2>5
        <3>2. body[k + x] = flat[x]
            BY <1>2
        <3>3. QED
            BY <3>1, <3>2
    <2>7. PICK n \in 1..Len(ws) : o[n - 1] < x /\ x <= o[n]
        BY <1>4, LaidCover
    <2>8. o[n] = o[n - 1] + Len(ws[n])
        BY <1>4 DEF Laid
    <2>9. PICK j \in 1..Len(ws[n]) : j = x - o[n - 1]
        BY <1>1, <2>7, <2>8, SMTT(30)
    <2>10. o[n - 1] + j = x
        BY <1>1, <2>9
    <2>11. flat[x] = ws[n][j]
        BY <1>4, <2>10, LaidIn
    <2>12. j = 1
        <3>1. IsPostLines(ws[n], ps[n])
            BY DEF IsBody
        <3>2. j # 1 => ws[n][j].line = "meta"
            BY <3>1 DEF IsPostLines
        <3>3. QED
            BY <2>3, <2>6, <2>11, <3>2
    <2>13. at[n] = i
        <3>1. at[n] = k + o[n - 1] + 1
            BY <1>5
        <3>2. QED
            BY <1>1, <2>6, <2>10, <2>12, <3>1
    <2>14. QED
        BY <1>6, <2>13
<1>11. Lists(at, holds, Len(body))
    BY <1>6, <1>8, <1>9, <1>10 DEF Lists
<1>12. QED
    BY <1>11 DEF at

(* The postings that ConvertPostings and OwnMeta see. *)
PostingHolds(body) == [i \in DOMAIN body |-> body[i].line = "posting"]

LEMMA PostingsAt ==
    ASSUME NEW body, NEW ws, NEW md, NEW ps, NEW k, NEW o, IsBody(body, ws, md, ps, k, o)
    PROVE  Places(PostingHolds(body)) = PostingStart(ws, k, o)
<1> DEFINE holds == PostingHolds(body)
<1>1. IsSeq(body) /\ Len(body) \in Nat /\ DOMAIN body = 1..Len(body)
    BY SeqFacts DEF IsBody
<1>2. holds = [i \in 1..Len(body) |-> holds[i]]
    BY <1>1 DEF PostingHolds
<1>3. \A i \in 1..Len(body) : holds[i] <=> body[i].line = "posting"
    BY <1>1 DEF PostingHolds
<1> HIDE DEF holds
<1>4. Len(holds) = Len(body)
    BY <1>1, <1>2, FcnIsSeq
<1>5. Lists(Places(holds), holds, Len(body))
    BY <1>1, <1>4, PlacesList
<1>6. Lists(PostingStart(ws, k, o), holds, Len(body))
    BY <1>3, PostingPlaces
<1>7. QED
    BY <1>1, <1>5, <1>6, ListsUnique DEF holds

(* The lines of each posting are found again. *)
LEMMA PostingPart ==
    ASSUME NEW body, NEW ws, NEW md, NEW ps, NEW k, NEW o, IsBody(body, ws, md, ps, k, o),
           NEW n \in 1..Len(ws)
    PROVE  /\ SubSeq(body, k + o[n - 1] + 1, k + o[n]) = ws[n]
           /\ body[k + o[n - 1] + 1] = ws[n][1]
<1> DEFINE flat == FlattenSeq(ws)
<1>1. /\ k \in Nat /\ Len(flat) \in Nat /\ Len(body) = k + Len(flat)
      /\ Len(ws[n]) \in Nat \ {0} /\ o[n - 1] \in Nat /\ o[n] \in Nat /\ o[n - 1] < o[n]
    BY LaidLens DEF IsBody
<1>2. \A j \in 1..Len(flat) : body[k + j] = flat[j]
    BY DEF IsBody
<1>3. Laid(flat, ws, o) /\ IsSeq(body)
    BY DEF IsBody
<1>4. IsSeq(ws[n]) /\ o[n] = o[n - 1] + Len(ws[n])
    BY <1>3 DEF Laid, IsPart
<1> HIDE DEF flat
<1>5. ASSUME NEW j \in 1..Len(ws[n])
      PROVE  /\ k + (o[n - 1] + j) \in 1..Len(body)
             /\ body[k + (o[n - 1] + j)] = ws[n][j]
    <2>1. o[n - 1] + j \in 1..Len(flat) /\ flat[o[n - 1] + j] = ws[n][j]
        BY <1>3, LaidIn
    <2>2. PICK x \in 1..Len(flat) : x = o[n - 1] + j
        BY <2>1
    <2>3. body[k + x] = flat[x] /\ k + x \in 1..Len(body)
        BY <1>1, <1>2
    <2>4. QED
        BY <2>1, <2>2, <2>3
<1>6. PICK a \in Nat \ {0} : a = k + o[n - 1] + 1
    BY <1>1
<1>7. PICK e \in Nat : e = k + o[n]
    BY <1>1
<1>8. e + 1 - a = Len(ws[n]) /\ a <= e + 1
    <2>1. PICK x \in Nat : x = o[n - 1]
        BY <1>1
    <2>2. PICK l \in Nat \ {0} : l = Len(ws[n])
        BY <1>1
    <2>3. o[n] = x + l
        BY <1>4, <2>1, <2>2
    <2>4. a = k + x + 1 /\ e = k + (x + l)
        BY <1>6, <1>7, <2>1, <2>3
    <2>5. k \in Nat
        BY <1>1
    <2>6. e + 1 - a = l /\ a <= e + 1
        BY <2>4, <2>5
    <2>7. QED
        BY <2>2, <2>6
<1>9. e <= Len(body)
    <2>1. Len(ws[n]) \in 1..Len(ws[n])
        BY <1>1
    <2>2. k + (o[n - 1] + Len(ws[n])) \in 1..Len(body)
        BY <1>5, <2>1
    <2>3. QED
        BY <1>1, <1>4, <1>7, <2>2
<1>10. /\ IsSeq(SubSeq(body, a, e)) /\ Len(SubSeq(body, a, e)) = e + 1 - a
       /\ \A i \in 1..e + 1 - a : SubSeq(body, a, e)[i] = body[a + i - 1]
    BY <1>3, <1>8, <1>9, Part
<1>11. ASSUME NEW i \in 1..Len(ws[n])
       PROVE  SubSeq(body, a, e)[i] = ws[n][i]
    <2>1. a + i - 1 = k + (o[n - 1] + i)
        BY <1>1, <1>6
    <2>2. SubSeq(body, a, e)[i] = body[a + i - 1]
        BY <1>8, <1>10
    <2>3. QED
        BY <1>5, <2>1, <2>2
<1>12. SubSeq(body, a, e) = ws[n]
    <2>1. Len(SubSeq(body, a, e)) = Len(ws[n]) /\ IsSeq(SubSeq(body, a, e))
        BY <1>8, <1>10
    <2>2. \A i \in 1..Len(SubSeq(body, a, e)) : SubSeq(body, a, e)[i] = ws[n][i]
        BY <1>11, <2>1
    <2>3. QED
        BY <1>4, <2>1, <2>2, SameSeq
<1>13. body[a] = ws[n][1]
    <2>1. 1 \in 1..Len(ws[n]) /\ a = k + (o[n - 1] + 1)
        BY <1>1, <1>6
    <2>2. QED
        BY <1>5, <2>1
<1>14. QED
    BY <1>6, <1>7, <1>12, <1>13

(* Each posting is converted with the metadata below it. *)
LEMMA PostingsBack ==
    ASSUME NEW md, NEW ps, Keyed(md, ps)
    PROVE  ConvertPostings(Body(md, ps))
           = [n \in 1..Len(ps) |-> ConvertPosting(PostLine(ps[n]), Quoted(ps[n].md))]
<1> DEFINE body == Body(md, ps)
           ws == PostingTexts(ps)
           k == Len(WriteMeta(md))
           at == Places(PostingHolds(body))
           upTo(n) == IF n = Len(at) THEN Len(body) ELSE at[n + 1] - 1
           posting(n) == ConvertPosting(body[at[n]], ParseKeyValues(SubSeq(body, at[n], upTo(n))))
<1>1. PICK o : IsBody(body, ws, md, ps, k, o)
    BY BodyIs
<1>2. ConvertPostings(body) = [n \in DOMAIN at |-> posting(n)]
    BY DEF ConvertPostings, PostingHolds
<1>3. at = PostingStart(ws, k, o)
    BY <1>1, PostingsAt
<1> HIDE DEF body, ws, k
<1>4. /\ k \in Nat /\ Len(ws) \in Nat /\ Len(body) = k + o[Len(ws)] /\ Len(ws) = Len(ps)
      /\ \A n \in 1..Len(ws) : o[n - 1] \in Nat /\ o[n] \in Nat
    <2>1. Laid(FlattenSeq(ws), ws, o) /\ k \in Nat /\ Len(ws) = Len(ps)
          /\ Len(body) = k + Len(FlattenSeq(ws))
        BY <1>1 DEF IsBody
    <2>2. QED
        BY <2>1, LaidLens DEF Laid
<1> HIDE DEF at
<1>5. at = [n \in 1..Len(ws) |-> at[n]] /\ \A n \in 1..Len(ws) : at[n] = k + o[n - 1] + 1
    BY <1>3 DEF PostingStart
<1>6. Len(at) = Len(ws) /\ DOMAIN at = 1..Len(ws)
    BY <1>4, <1>5, FcnIsSeq
<1>7. ASSUME NEW n \in 1..Len(ws)
      PROVE  posting(n) = ConvertPosting(PostLine(ps[n]), Quoted(ps[n].md))
    <2>1. upTo(n) = k + o[n]
        <3>1. CASE n = Len(at)
            BY <1>4, <1>6, <3>1
        <3>2. CASE n # Len(at)
            <4>1. PICK x \in 1..Len(ws) : x = n + 1
                BY <1>4, <1>6, <3>2
            <4>2. at[x] = k + o[x - 1] + 1
                BY <1>5
            <4>3. x - 1 = n /\ o[n] \in Nat
                BY <1>4, <4>1
            <4>4. at[n + 1] - 1 = k + o[n]
                BY <1>4, <4>1, <4>2, <4>3
            <4>5. QED
                BY <3>2, <4>4
        <3>3. QED
            BY <3>1, <3>2
    <2>2. at[n] = k + o[n - 1] + 1
        BY <1>5
    <2>3. /\ SubSeq(body, k + o[n - 1] + 1, k + o[n]) = ws[n]
          /\ body[k + o[n - 1] + 1] = ws[n][1]
        BY <1>1, PostingPart
    <2>4. ws[n][1] = PostLine(ps[n]) /\ ParseKeyValues(ws[n]) = Quoted(ps[n].md)
        BY <1>1 DEF IsBody, IsPostLines
    <2>5. posting(n) = ConvertPosting(ws[n][1], ParseKeyValues(ws[n]))
        BY Zenon, <2>1, <2>2, <2>3
    <2>6. QED
        BY Zenon, <2>4, <2>5
<1> HIDE DEF posting
<1>8. ConvertPostings(body) = [n \in 1..Len(ps) |-> posting(n)]
    BY <1>2, <1>4, <1>6
<1>9. \A n \in 1..Len(ps) : posting(n) = ConvertPosting(PostLine(ps[n]), Quoted(ps[n].md))
    BY <1>4, <1>7
<1>10. QED
    BY Zenon, <1>8, <1>9 DEF body

(* The metadata before the first posting is that of the directive.         *)
LEMMA OwnMetaBack ==
    ASSUME NEW md, NEW ps, Keyed(md, ps)
    PROVE  OwnMeta(Body(md, ps)) = Quoted(md)
<1> DEFINE body == Body(md, ps)
           ws == PostingTexts(ps)
           k == Len(WriteMeta(md))
           at == {i \in DOMAIN body : body[i].line = "posting"}
           first == CHOOSE i \in at : \A j \in at : i <= j
<1>1. PICK o : IsBody(body, ws, md, ps, k, o)
    BY BodyIs
<1>2. OwnMeta(body) = ParseKeyValues(IF at = {} THEN body ELSE SubSeq(body, 1, first - 1))
    BY DEF OwnMeta
<1> HIDE DEF body, ws
<1>3. /\ k \in Nat /\ IsSeq(body) /\ Len(body) \in Nat /\ DOMAIN body = 1..Len(body)
      /\ \A i \in 1..k : body[i] = WriteMeta(md)[i] /\ body[i].line = "meta"
    <2>1. IsSeq(body)
        BY <1>1 DEF IsBody
    <2>2. QED
        BY <1>1, <2>1, SeqFacts DEF IsBody
<1>4. /\ Laid(FlattenSeq(ws), ws, o) /\ Len(ws) \in Nat
      /\ Len(body) = k + o[Len(ws)] /\ Len(body) = k + Len(FlattenSeq(ws)) /\ o[0] = 0
    <2>1. Laid(FlattenSeq(ws), ws, o) /\ Len(body) = k + Len(FlattenSeq(ws))
        BY <1>1 DEF IsBody
    <2>2. QED
        BY <2>1, LaidLens DEF Laid
<1>5. DOMAIN md \subseteq ToSet(KeyOrder)
    BY DEF Keyed
<1>6. CASE Len(ws) = 0
    <2>1. Len(body) = k
        BY <1>3, <1>4, <1>6
    <2>2. at = {}
        BY <1>3, <2>1
    <2>3. /\ Len(body) = 0 + Len(WriteMeta(md))
          /\ \A i \in 1..0 : body[i].line # "meta"
          /\ \A i \in 1..Len(WriteMeta(md)) : body[0 + i] = WriteMeta(md)[i]
        BY <1>3, <2>1
    <2>4. ParseKeyValues(body) = Quoted(md)
        BY <1>3, <1>5, <2>3, KeyValuesBack
    <2>5. QED
        BY <1>2, <2>2, <2>4 DEF body
<1>7. CASE Len(ws) # 0
    <2>1. 1 \in 1..Len(ws) /\ 1 - 1 = 0
        BY <1>4, <1>7
    <2>2. body[k + 1] = ws[1][1]
        <3>1. body[k + o[1 - 1] + 1] = ws[1][1]
            BY <1>1, <2>1, PostingPart
        <3>2. k + o[1 - 1] + 1 = k + 1
            BY <1>3, <1>4
        <3>3. QED
            BY <3>1, <3>2
    <2>3. ws[1][1].line = "posting"
        BY <1>1, <2>1 DEF IsBody, IsPostLines
    <2>4. k + 1 \in DOMAIN body
        <3>1. o[0] \in Nat /\ o[1] \in Nat /\ o[0] < o[1]
            BY <1>4, <2>1, LaidLens
        <3>2. 1 \in 0..Len(ws) /\ Len(ws) \in 0..Len(ws) /\ 1 <= Len(ws)
            BY <1>4, <1>7
        <3>3. o[1] <= o[Len(ws)]
            BY <1>4, <3>2, LaidGrow
        <3>4. o[Len(ws)] \in Nat
            BY <1>4, <3>2 DEF Laid
        <3>5. QED
            BY <1>3, <1>4, <3>1, <3>3, <3>4
    <2>5. PICK x \in DOMAIN body : x = k + 1
        BY <2>4
    <2>6. x \in at
        BY <2>2, <2>3, <2>5
    <2>7. \A j \in at : x <= j
        <3>1. TAKE j \in at
        <3>2. ~(j \in 1..k) /\ j \in Nat /\ j >= 1
            BY <1>3
        <3>3. QED
            BY <1>3, <2>5, <3>2
    <2>8. at \subseteq Nat
        BY <1>3
    <2> HIDE DEF at
    <2>9. first = x
        <3>1. first \in at /\ \A j \in at : first <= j
            BY <2>6, <2>7
        <3> HIDE DEF first
        <3>2. first <= x /\ x <= first /\ first \in Nat /\ x \in Nat
            BY <2>6, <2>7, <2>8, <3>1
        <3>3. QED
            BY <3>2
    <2>10. at # {} /\ first - 1 = k
        <3>1. k \in Nat /\ first = k + 1 /\ at # {}
            BY <1>3, <2>5, <2>6, <2>9
        <3> HIDE DEF first, k
        <3>2. QED
            BY <3>1
    <2> DEFINE own == SubSeq(body, 1, k)
    <2>11. /\ IsSeq(own) /\ Len(own) = k + 1 - 1
           /\ \A i \in 1..k + 1 - 1 : own[i] = body[1 + i - 1]
        <3>1. k <= Len(body) /\ 1 <= k + 1 /\ 1 \in Nat \ {0}
            BY <1>3, <2>4
        <3> HIDE DEF k
        <3>2. QED
            BY <1>3, <3>1, Part
    <2> HIDE DEF own
    <2>12. Len(own) = 0 + Len(WriteMeta(md))
        BY <1>3, <2>11
    <2>13. \A i \in 1..Len(WriteMeta(md)) : own[0 + i] = WriteMeta(md)[i]
        <3>1. TAKE i \in 1..Len(WriteMeta(md))
        <3>2. i \in 1..k + 1 - 1 /\ 1 + i - 1 = i /\ 0 + i = i
            BY <1>3
        <3>3. own[i] = body[i]
            BY <2>11, <3>2
        <3>4. QED
            BY <1>3, <3>2, <3>3
    <2>14. ParseKeyValues(own) = Quoted(md)
        <3>1. \A i \in 1..0 : own[i].line # "meta"
            OBVIOUS
        <3>2. IsSeq(own)
            BY <2>11
        <3>3. QED
            BY <1>5, <2>12, <2>13, <3>1, <3>2, KeyValuesBack
    <2>15. OwnMeta(body) = ParseKeyValues(own)
        BY <1>2, <2>10 DEF own
    <2>16. QED
        BY <2>14, <2>15 DEF body
<1>8. QED
    BY <1>6, <1>7

----------------------------------------------------------------------------
(* Numbers and costs read back *)

(* A number that is written is a number that is read. *)
LEMMA RatWritten ==
    ASSUME NEW w, w # Nothing
    PROVE  FormatRat(w) # Nothing
<1>1. CASE w.word \in DOMAIN LongNumbers
    <2>1. PICK x : x = LongNumbers[w.word]
        OBVIOUS
    <2>2. x # ""
        BY <1>1, <2>1, WordsAssumption
    <2>3. FormatRat(w) = [word |-> x, escapes |-> 0]
        BY <1>1, <2>1 DEF FormatRat, Word
    <2>4. [word |-> x, escapes |-> 0].word = x /\ Nothing.word = ""
        BY DEF Nothing, Word
    <2>5. QED
        BY <2>2, <2>3, <2>4
<1>2. CASE w.word \notin DOMAIN LongNumbers
    BY <1>2 DEF FormatRat
<1>3. QED
    BY <1>1, <1>2

(* Costs read back, but for those that are not written. *)
OneCost(e, n, m, t) == <<[empty |-> e, number |-> n, commodity |-> m, date |-> t]>>

LEMMA ReadCost ==
    ASSUME NEW n, NEW m, NEW t
    PROVE  ParseCost(<<[number |-> n, commodity |-> m, date |-> t]>>) = OneCost(n = Nothing, n, m, t)
<1> DEFINE c == [number |-> n, commodity |-> m, date |-> t]
           s == <<c>>
           r(l) == [empty |-> l.number = Nothing, number |-> l.number,
                    commodity |-> l.commodity, date |-> l.date]
<1>1. ParseCost(s) = [i \in DOMAIN s |-> r(s[i])]
    BY DEF ParseCost
<1>2. r(c) = [empty |-> n = Nothing, number |-> n, commodity |-> m, date |-> t]
    BY Zenon
<1> HIDE DEF c, r
<1>3. DOMAIN s = 1..1 /\ s[1] = c
    OBVIOUS
<1> HIDE DEF s
<1>4. ParseCost(s) = [i \in 1..1 |-> r(c)]
    <2>1. \A i \in 1..1 : r(s[i]) = r(c)
        BY <1>3
    <2>2. QED
        BY <1>1, <1>3, <2>1
<1>5. [i \in 1..1 |-> r(c)] = <<r(c)>>
    OBVIOUS
<1>6. QED
    BY <1>2, <1>4, <1>5 DEF OneCost, s, c

LEMMA CostBack ==
    ASSUME NEW cost, cost # << >> => cost = <<cost[1]>> /\ IsCost(cost[1])
    PROVE  ParseCost(WriteCost(cost)) = WrittenCost(cost)
<1>1. ParseCost(<< >>) = << >>
    BY DEF ParseCost
<1>2. CASE cost = << >>
    BY <1>1, <1>2 DEF WriteCost, WrittenCost
<1>3. CASE cost # << >>
    <2>1. PICK c : c = cost[1]
        OBVIOUS
    <2>2. cost = <<c>> /\ IsCost(c)
        BY <1>3, <2>1
    <2>3. PICK e, n, m, t : /\ c = [empty |-> e, number |-> n, commodity |-> m, date |-> t]
                            /\ e \in BOOLEAN
        BY <2>2 DEF IsCost
    <2>4. c.empty = e /\ c.number = n /\ c.commodity = m /\ c.date = t
        BY <2>3
    <2>5. CASE e
        <3>1. WriteCost(cost) = <<[number |-> Nothing, commodity |-> Nothing, date |-> Nothing]>>
            BY Zenon, <1>3, <2>1, <2>4, <2>5 DEF WriteCost
        <3>2. WrittenCost(cost) = OneCost(TRUE, Nothing, Nothing, Nothing)
            BY Zenon, <1>3, <2>1, <2>4, <2>5 DEF WrittenCost, OneCost
        <3>3. ParseCost(WriteCost(cost)) = OneCost(Nothing = Nothing, Nothing, Nothing, Nothing)
            BY <3>1, ReadCost
        <3>4. (Nothing = Nothing) = TRUE
            OBVIOUS
        <3>5. QED
            BY Zenon, <3>2, <3>3, <3>4
    <2>6. CASE ~e /\ n = Nothing
        <3>1. WriteCost(cost) = << >> /\ WrittenCost(cost) = << >>
            BY Zenon, <1>3, <2>1, <2>4, <2>6 DEF WriteCost, WrittenCost
        <3>2. QED
            BY <1>1, <3>1
    <2>7. CASE ~e /\ n # Nothing
        <3> DEFINE date == IF t = Nothing THEN Nothing ELSE FmtDate(t)
        <3>1. date = t
            BY DEF FmtDate
        <3>2. WriteCost(cost) = <<[number |-> FormatRat(n), commodity |-> m, date |-> date]>>
            BY Zenon, <1>3, <2>1, <2>4, <2>7 DEF WriteCost
        <3> HIDE DEF date
        <3>3. WriteCost(cost) = <<[number |-> FormatRat(n), commodity |-> m, date |-> t]>>
            BY <3>1, <3>2
        <3>4. PICK r : r = FormatRat(n)
            OBVIOUS
        <3>5. r # Nothing
            BY <2>7, <3>4, RatWritten
        <3>6. ParseCost(WriteCost(cost)) = OneCost(r = Nothing, r, m, t)
            BY <3>3, <3>4, ReadCost
        <3>7. OneCost(r = Nothing, r, m, t) = OneCost(FALSE, r, m, t)
            <4>1. (r = Nothing) = FALSE
                BY <3>5
            <4>2. QED
                BY Zenon, <4>1
        <3>8. WrittenCost(cost) = Rounded(cost)
            BY Zenon, <1>3, <2>1, <2>4, <2>7 DEF WrittenCost
        <3>9. Rounded(cost) = OneCost(FALSE, r, m, t)
            <4> DEFINE f(x) == [x EXCEPT !.number = FormatRat(@)]
            <4>1. Rounded(cost) = [i \in DOMAIN cost |-> f(cost[i])]
                BY DEF Rounded
            <4>2. f(c) = [empty |-> FALSE, number |-> r, commodity |-> m, date |-> t]
                <5>1. e = FALSE
                    BY <2>3, <2>7
                <5>2. f(c) = [c EXCEPT !.number = FormatRat(c.number)]
                    OBVIOUS
                <5>3. f(c) = [c EXCEPT !.number = r]
                    BY <2>4, <3>4, <5>2
                <5>4. c = [empty |-> FALSE, number |-> n, commodity |-> m, date |-> t]
                    BY <2>3, <5>1
                <5> HIDE DEF f
                <5>5. f(c) = [[empty |-> FALSE, number |-> n, commodity |-> m, date |-> t]
                              EXCEPT !.number = r]
                    BY <5>3, <5>4
                <5>6. QED
                    BY <5>5
            <4> HIDE DEF f
            <4>3. DOMAIN cost = 1..1 /\ cost[1] = c
                BY <2>2
            <4>4. \A i \in 1..1 : f(cost[i]) = f(c)
                BY <4>3
            <4>5. Rounded(cost) = [i \in 1..1 |-> f(c)]
                BY <4>1, <4>3, <4>4
            <4>6. [i \in 1..1 |-> f(c)] = <<f(c)>>
                OBVIOUS
            <4>7. QED
                BY <4>2, <4>5, <4>6 DEF OneCost
        <3>10. QED
            BY <3>6, <3>7, <3>8, <3>9
    <2>8. QED
        BY <2>3, <2>5, <2>6, <2>7
<1>4. QED
    BY <1>2, <1>3

(* So do postings. *)
LEMMA PostingBack ==
    ASSUME NEW p, IsPosting(p)
    PROVE  ConvertPosting(PostLine(p), Quoted(p.md)) = WrittenPosting(p)
<1>1. PICK a, u, c, r, md : p = [account |-> a, units |-> u, cost |-> c, price |-> r, md |-> md]
    BY DEF IsPosting
<1>2. p.account = a /\ p.units = u /\ p.cost = c /\ p.price = r /\ p.md = md
    BY <1>1
<1> DEFINE l == PostLine(p)
           result == [account |-> a, units |-> Rounded(u), cost |-> WrittenCost(c),
                      price |-> Rounded(r), md |-> Quoted(md)]
<1>3. l = [line |-> "posting", account |-> a, units |-> Rounded(u), cost |-> WriteCost(c),
           price |-> Rounded(r)]
    BY Zenon, <1>2 DEF PostLine
<1>4. PICK ru, rr, q, wc, rc : ru = Rounded(u) /\ rr = Rounded(r) /\ q = Quoted(md)
                               /\ wc = WriteCost(c) /\ rc = WrittenCost(c)
    BY Zenon
<1>5. l.account = a /\ l.units = ru /\ l.cost = wc /\ l.price = rr
    BY <1>3, <1>4
<1> HIDE DEF l
<1>6. ParseCost(wc) = rc
    <2>1. c # << >> => c = <<c[1]>> /\ IsCost(c[1])
        BY <1>2 DEF IsPosting
    <2>2. QED
        BY <1>4, <2>1, CostBack
<1>7. ConvertPosting(l, Quoted(p.md))
      = [account |-> a, units |-> ru, cost |-> rc, price |-> rr, md |-> q]
    BY Zenon, <1>2, <1>4, <1>5, <1>6 DEF ConvertPosting
<1>8. WrittenPosting(p) = [p EXCEPT !.units = ru, !.price = rr, !.cost = rc, !.md = q]
    BY Zenon, <1>2, <1>4 DEF WrittenPosting
<1>9. WrittenPosting(p) = [account |-> a, units |-> ru, cost |-> rc, price |-> rr, md |-> q]
    BY <1>1, <1>8
<1>10. QED
    BY <1>7, <1>9 DEF l

----------------------------------------------------------------------------
(* The arguments of a directive read back *)

(* Places in a row. *)
InRow(holds, m, a, c) == a + c <= m /\ \A i \in 1..m : holds[i] <=> i \in a + 1..a + c

LEMMA RowPlaces ==
    ASSUME NEW holds, NEW m \in Nat, Len(holds) = m, NEW a \in Nat, NEW c \in Nat,
           InRow(holds, m, a, c)
    PROVE  Places(holds) = [n \in 1..c |-> a + n]
<1> USE DEF InRow
<1> DEFINE at == [n \in 1..c |-> a + n]
<1>1. at = [n \in 1..c |-> at[n]] /\ \A n \in 1..c : at[n] = a + n
    OBVIOUS
<1> HIDE DEF at
<1>2. IsSeq(at) /\ Len(at) = c
    BY <1>1, FcnIsSeq
<1>3. \A n \in 1..c : at[n] \in 1..m /\ holds[at[n]]
    <2>1. TAKE n \in 1..c
    <2>2. PICK i \in 1..m : i = a + n
        OBVIOUS
    <2>3. i \in a + 1..a + c
        BY <2>2
    <2>4. QED
        BY <1>1, <2>2, <2>3
<1>4. \A k, n \in 1..c : k < n => at[k] < at[n]
    BY <1>1
<1>5. \A i \in 1..m : holds[i] => \E n \in 1..c : at[n] = i
    <2>1. TAKE i \in 1..m
    <2>2. HAVE holds[i]
    <2>3. i \in a + 1..a + c
        BY <2>2
    <2>4. PICK n \in 1..c : n = i - a
        BY <2>3
    <2>5. at[n] = i
        BY <1>1, <2>3, <2>4
    <2>6. QED
        BY <2>5
<1>6. Lists(at, holds, m)
    BY <1>2, <1>3, <1>4, <1>5 DEF Lists
<1>7. Lists(Places(holds), holds, m)
    BY PlacesList
<1>8. QED
    BY <1>6, <1>7, ListsUnique DEF at

(* Arguments keep what they are. *)
IsArg(a) == a = [as |-> a.as, value |-> a.value]

LEMMA WriteArgIs ==
    ASSUME NEW a, IsArg(a)
    PROVE  /\ WriteArg(a).as = a.as
           /\ a.as = "string" => WriteArg(a).value = QuoteStr(a.value)
           /\ a.as = "flag" => WriteArg(a).value = a.value
<1>1. PICK s, v : a = [as |-> s, value |-> v]
    BY DEF IsArg
<1>2. a.as = s /\ a.value = v
    BY <1>1
<1>3. PICK x : x = CASE a.as = "string" -> QuoteStr(a.value)
                    [] a.as = "number" -> FormatRat(a.value)
                    [] OTHER -> a.value
    OBVIOUS
<1>4. WriteArg(a) = [a EXCEPT !.value = x]
    BY Zenon, <1>3 DEF WriteArg
<1>5. WriteArg(a) = [as |-> s, value |-> x]
    BY <1>1, <1>4
<1>6. WriteArg(a).as = s /\ WriteArg(a).value = x
    BY <1>5
<1>7. a.as = "string" => x = QuoteStr(v)
    BY <1>2, <1>3
<1>8. a.as = "flag" => x = v
    BY <1>2, <1>3
<1>9. QED
    BY <1>2, <1>6, <1>7, <1>8

LEMMA ArgIs ==
    ASSUME NEW as, NEW value
    PROVE  IsArg(Arg(as, value)) /\ Arg(as, value).as = as /\ Arg(as, value).value = value
BY DEF IsArg, Arg

LEMMA PairIs ==
    ASSUME NEW a, NEW b
    PROVE  IsSeq(<<a, b>>)
<1>1. <<a, b>> \in Seq({a, b})
    OBVIOUS
<1>2. QED
    BY <1>1, IsSeqOf

LEMMA TripleIs ==
    ASSUME NEW a, NEW b, NEW c
    PROVE  IsSeq(<<a, b, c>>)
<1>1. <<a, b, c>> \in Seq({a, b, c})
    OBVIOUS
<1>2. QED
    BY <1>1, IsSeqOf

(* Shapes are sequences, and only transactions have a flag. *)
LEMMA ShapeSeq ==
    ASSUME NEW kind \in DOMAIN Shape
    PROVE  /\ IsSeq(Shape[kind])
           /\ kind # "transaction" => \A n \in 1..Len(Shape[kind]) : Shape[kind][n] # "flag"
<1>1. kind \in {"option", "include", "commodity", "open", "close", "price", "balance", "pad",
                "note", "event", "custom", "document", "transaction"}
    BY DEF Shape
<1>2. \/ Shape[kind] = <<"string">> \/ Shape[kind] = <<"name">>
      \/ Shape[kind] = <<"string", "string">> \/ Shape[kind] = <<"name", "name">>
      \/ Shape[kind] = <<"name", "string">> \/ Shape[kind] = <<"name", "number", "name">>
      \/ kind = "transaction" /\ Shape[kind] = <<"flag", "string", "string">>
    <2>1. /\ Shape["option"] = <<"string", "string">> /\ Shape["include"] = <<"string">>
          /\ Shape["commodity"] = <<"name">> /\ Shape["open"] = <<"name">>
          /\ Shape["close"] = <<"name">> /\ Shape["price"] = <<"name", "number", "name">>
          /\ Shape["balance"] = <<"name", "number", "name">> /\ Shape["pad"] = <<"name", "name">>
          /\ Shape["note"] = <<"name", "string">> /\ Shape["event"] = <<"string", "string">>
          /\ Shape["custom"] = <<"string">> /\ Shape["document"] = <<"name", "string">>
          /\ Shape["transaction"] = <<"flag", "string", "string">>
        BY DEF Shape
    <2>2. QED
        BY Zenon, <1>1, <2>1
<1>3. PICK s : s = Shape[kind]
    OBVIOUS
<1>4. IsSeq(s)
    <2>1. IsSeq(<<"string">>) /\ IsSeq(<<"name">>)
        BY Single
    <2>2. IsSeq(<<"string", "string">>) /\ IsSeq(<<"name", "name">>) /\ IsSeq(<<"name", "string">>)
        BY PairIs
    <2>3. IsSeq(<<"name", "number", "name">>) /\ IsSeq(<<"flag", "string", "string">>)
        BY TripleIs
    <2>4. QED
        BY Zenon, <1>2, <1>3, <2>1, <2>2, <2>3
<1>5. ASSUME kind # "transaction", NEW n \in 1..Len(s)
      PROVE  s[n] # "flag"
    <2>1. CASE s = <<"string">> \/ s = <<"name">>
        BY <2>1
    <2>2. CASE s = <<"string", "string">> \/ s = <<"name", "name">>
        BY <2>2
    <2>3. CASE s = <<"name", "string">> \/ s = <<"name", "number", "name">>
        BY <2>3
    <2>4. QED
        BY <1>2, <1>3, <1>5, <2>1, <2>2, <2>3
<1>6. QED
    BY <1>3, <1>4, <1>5

LEMMA TransactionShape ==
    /\ "transaction" \in DOMAIN Shape
    /\ Len(Shape["transaction"]) = 3
    /\ Shape["transaction"][1] = "flag"
    /\ Shape["transaction"][2] = "string" /\ Shape["transaction"][3] = "string"
BY DEF Shape

(* A directive as DecodeLine makes it. *)
IsDirective(d) ==
    /\ d = [kind |-> d.kind, date |-> d.date, args |-> d.args, rest |-> d.rest, md |-> d.md,
            postings |-> d.postings]
    /\ d.kind \in DOMAIN Shape
    /\ IsSeq(d.args) /\ Len(d.args) = Len(Shape[d.kind])
    /\ IsSeq(d.rest) /\ \A i \in 1..Len(d.rest) : IsArg(d.rest[i])
    /\ d.kind = "transaction" => \A i \in 1..Len(d.rest) : d.rest[i].as \in {"tag", "link"}
    /\ Keyed(d.md, d.postings)
    /\ \A n \in 1..Len(d.postings) : IsPosting(d.postings[n])

(* The arguments of its head. *)
WrittenArgs(d) ==
    LET args == HeadArgs(d) \o d.rest
    IN  [i \in DOMAIN args |-> WriteArg(args[i])]

LEMMA WrittenArgsAre ==
    ASSUME NEW d, IsSeq(d.rest), NEW h, HeadArgs(d) = h, IsSeq(h)
    PROVE  /\ IsSeq(WrittenArgs(d)) /\ Len(WrittenArgs(d)) = Len(h) + Len(d.rest)
           /\ Len(h) \in Nat /\ Len(d.rest) \in Nat
           /\ \A i \in 1..Len(h) : WrittenArgs(d)[i] = WriteArg(h[i])
           /\ \A i \in 1..Len(d.rest) : WrittenArgs(d)[Len(h) + i] = WriteArg(d.rest[i])
<1> DEFINE args == h \o d.rest
           w == WrittenArgs(d)
<1>1. Len(h) \in Nat /\ Len(d.rest) \in Nat
    BY SeqFacts
<1>2. /\ IsSeq(args) /\ Len(args) = Len(h) + Len(d.rest)
      /\ \A i \in 1..Len(h) : args[i] = h[i]
      /\ \A i \in 1..Len(d.rest) : args[Len(h) + i] = d.rest[i]
    BY Cat
<1>3. w = [i \in DOMAIN args |-> WriteArg(args[i])]
    BY Zenon DEF WrittenArgs
<1> HIDE DEF args, w
<1>4. DOMAIN args = 1..Len(args) /\ Len(args) \in Nat
    BY <1>2, SeqFacts
<1>5. w = [i \in 1..Len(args) |-> w[i]] /\ \A i \in 1..Len(args) : w[i] = WriteArg(args[i])
    BY <1>3, <1>4
<1>6. IsSeq(w) /\ Len(w) = Len(args)
    BY <1>4, <1>5, FcnIsSeq
<1>7. \A i \in 1..Len(h) : w[i] = WriteArg(h[i])
    <2>1. TAKE i \in 1..Len(h)
    <2>2. i \in 1..Len(args)
        BY <1>1, <1>2
    <2>3. QED
        BY <1>2, <1>5, <2>2
<1>8. \A i \in 1..Len(d.rest) : w[Len(h) + i] = WriteArg(d.rest[i])
    <2>1. TAKE i \in 1..Len(d.rest)
    <2>2. PICK x \in 1..Len(args) : x = Len(h) + i
        BY <1>1, <1>2
    <2>3. w[x] = WriteArg(args[x]) /\ args[x] = d.rest[i]
        BY <1>2, <1>5, <2>2
    <2>4. QED
        BY <2>2, <2>3
<1>9. QED
    BY <1>1, <1>2, <1>6, <1>7, <1>8 DEF w

(* What ConvertRest makes of the arguments. *)
RestOf(kind, args) ==
    LET at == Places([i \in DOMAIN args |-> args[i].as \in {"tag", "link"}])
    IN  IF kind = "transaction" THEN [n \in DOMAIN at |-> args[at[n]]]
        ELSE SubSeq(args, Len(Shape[kind]) + 1, Len(args))

ArgsOf(kind, args) ==
    IF kind = "transaction" THEN ConvertTxnArgs(args)
    ELSE [i \in DOMAIN Shape[kind] |-> args[i].value]

WrittenRest(d) == [n \in DOMAIN d.rest |-> WriteArg(d.rest[n])]

(* The arguments of a directive that is no transaction read back. *)
LEMMA ArgsBack ==
    ASSUME NEW d, IsDirective(d), d.kind # "transaction"
    PROVE  /\ ArgsOf(d.kind, WrittenArgs(d)) = [n \in DOMAIN d.args |-> WrittenArg(d, n)]
           /\ RestOf(d.kind, WrittenArgs(d)) = WrittenRest(d)
<1> DEFINE shape == Shape[d.kind]
           m == Len(d.args)
           h == [i \in DOMAIN d.args |-> Arg(shape[i], d.args[i])]
           w == WrittenArgs(d)
<1>1. /\ IsSeq(d.args) /\ IsSeq(d.rest) /\ m = Len(shape) /\ IsSeq(shape)
      /\ \A n \in 1..m : shape[n] # "flag"
    BY ShapeSeq DEF IsDirective
<1>2. /\ DOMAIN d.args = 1..m /\ m \in Nat /\ DOMAIN shape = 1..m
      /\ DOMAIN d.rest = 1..Len(d.rest) /\ Len(d.rest) \in Nat
    BY <1>1, SeqFacts
<1>3. HeadArgs(d) = h
    BY DEF HeadArgs
<1> HIDE DEF m, shape
<1>4. h = [i \in 1..m |-> h[i]] /\ \A i \in 1..m : h[i] = Arg(shape[i], d.args[i])
    BY <1>2
<1> HIDE DEF h
<1>5. IsSeq(h) /\ Len(h) = m
    BY <1>2, <1>4, FcnIsSeq
<1>6. /\ IsSeq(w) /\ Len(w) = m + Len(d.rest)
      /\ \A i \in 1..m : w[i] = WriteArg(h[i])
      /\ \A i \in 1..Len(d.rest) : w[m + i] = WriteArg(d.rest[i])
    <2> HIDE DEF w
    <2>1. IsSeq(d.rest) /\ IsSeq(h) /\ HeadArgs(d) = h
        BY <1>1, <1>3, <1>5
    <2>2. /\ IsSeq(w) /\ Len(w) = Len(h) + Len(d.rest)
          /\ \A i \in 1..Len(h) : w[i] = WriteArg(h[i])
          /\ \A i \in 1..Len(d.rest) : w[Len(h) + i] = WriteArg(d.rest[i])
        BY <2>1, WrittenArgsAre DEF w
    <2>3. QED
        BY <1>5, <2>2
<1> HIDE DEF w
<1>7. ASSUME NEW n \in 1..m
      PROVE  w[n].value = WrittenArg(d, n)
    <2>1. WrittenArg(d, n) = WriteArg(Arg(shape[n], d.args[n])).value
        BY Zenon, <1>1 DEF WrittenArg, shape
    <2>2. w[n] = WriteArg(Arg(shape[n], d.args[n]))
        BY <1>4, <1>6
    <2>3. QED
        BY <2>1, <2>2
<1>8. ArgsOf(d.kind, w) = [n \in DOMAIN d.args |-> WrittenArg(d, n)]
    <2>1. ArgsOf(d.kind, w) = [n \in 1..m |-> w[n].value]
        BY <1>2 DEF ArgsOf, shape
    <2>2. QED
        BY Zenon, <1>2, <1>7, <2>1
<1>9. RestOf(d.kind, w) = WrittenRest(d)
    <2>1. PICK a \in Nat \ {0} : a = m + 1
        BY <1>2
    <2>2. PICK e \in Nat : e = m + Len(d.rest)
        BY <1>2
    <2>3. RestOf(d.kind, w) = SubSeq(w, a, e)
        BY <1>1, <1>6, <2>1, <2>2 DEF RestOf, shape
    <2>4. e <= Len(w) /\ a <= e + 1 /\ e + 1 - a = Len(d.rest)
        <3>1. PICK x \in Nat : x = m
            BY <1>2
        <3>2. PICK y \in Nat : y = Len(d.rest)
            BY <1>2
        <3>3. a = x + 1 /\ e = x + y /\ Len(w) = x + y
            BY <1>6, <2>1, <2>2, <3>1, <3>2
        <3>4. e <= Len(w) /\ a <= e + 1 /\ e + 1 - a = y
            BY <3>3
        <3>5. QED
            BY <3>2, <3>4
    <2>5. /\ IsSeq(SubSeq(w, a, e)) /\ Len(SubSeq(w, a, e)) = e + 1 - a
          /\ \A i \in 1..e + 1 - a : SubSeq(w, a, e)[i] = w[a + i - 1]
        BY <1>6, <2>4, Part
    <2> DEFINE r == WrittenRest(d)
    <2>6. r = [n \in 1..Len(d.rest) |-> r[n]] /\ \A n \in 1..Len(d.rest) : r[n] = WriteArg(d.rest[n])
        BY <1>2 DEF WrittenRest
    <2> HIDE DEF r
    <2>7. IsSeq(r) /\ Len(r) = Len(d.rest)
        BY <1>2, <2>6, FcnIsSeq
    <2>8. \A i \in 1..Len(d.rest) : SubSeq(w, a, e)[i] = r[i]
        <3>1. TAKE i \in 1..Len(d.rest)
        <3>2. SubSeq(w, a, e)[i] = w[a + i - 1]
            BY <2>4, <2>5
        <3>3. a + i - 1 = m + i
            BY <1>2, <2>1
        <3>4. QED
            BY <1>6, <2>6, <3>2, <3>3
    <2>9. SubSeq(w, a, e) = r
        <3>1. Len(SubSeq(w, a, e)) = Len(r) /\ IsSeq(SubSeq(w, a, e))
            BY <2>4, <2>5, <2>7
        <3>2. \A i \in 1..Len(SubSeq(w, a, e)) : SubSeq(w, a, e)[i] = r[i]
            BY <2>7, <2>8, <3>1
        <3>3. QED
            BY <2>7, <3>1, <3>2, SameSeq
    <2>10. QED
        BY <2>3, <2>9 DEF r
<1>10. QED
    BY <1>8, <1>9 DEF w

----------------------------------------------------------------------------
(* The arguments of a transaction read back *)

(* The arguments of a transaction: its flag, at most two strings, tags and *)
(* links.                                                                  *)
TxnFlag(args) == IF args[1] = Nothing THEN Word("*") ELSE args[1]
TxnStrings(args) ==
    IF args[2] # Nothing THEN <<args[2], args[3]>>
    ELSE IF args[3] # Nothing THEN <<args[3]>> ELSE << >>

IsTxnArgs(w, flag, strings, rest) ==
    /\ IsSeq(w) /\ Len(w) = 1 + Len(strings) + Len(rest)
    /\ Len(strings) \in Nat /\ Len(rest) \in Nat
    /\ w[1].as = "flag" /\ w[1].value = flag
    /\ \A i \in 1..Len(strings) : w[1 + i].as = "string" /\ w[1 + i].value = QuoteStr(strings[i])
    /\ \A i \in 1..Len(rest) : /\ w[1 + Len(strings) + i] = WriteArg(rest[i])
                               /\ w[1 + Len(strings) + i].as \in {"tag", "link"}

LEMMA TxnStringsIs ==
    ASSUME NEW args
    PROVE  IsSeq(TxnStrings(args))
<1>1. CASE args[2] # Nothing
    BY <1>1, PairIs DEF TxnStrings
<1>2. CASE args[2] = Nothing /\ args[3] # Nothing
    BY <1>2, Single DEF TxnStrings
<1>3. CASE args[2] = Nothing /\ args[3] = Nothing
    BY <1>3, NoneIs DEF TxnStrings
<1>4. QED
    BY <1>1, <1>2, <1>3

LEMMA TxnArgsAre ==
    ASSUME NEW d, IsDirective(d), d.kind = "transaction"
    PROVE  IsTxnArgs(WrittenArgs(d), TxnFlag(d.args), TxnStrings(d.args), d.rest)
<1> DEFINE flag == TxnFlag(d.args)
           strings == TxnStrings(d.args)
           a == Arg("flag", flag)
           s == [i \in DOMAIN strings |-> Arg("string", strings[i])]
           h == <<a>> \o s
           w == WrittenArgs(d)
<1>1. HeadArgs(d) = h
    <2>1. HeadArgs(d) = TxnArgs(d.args)
        BY DEF HeadArgs
    <2>2. TxnArgs(d.args) = h
        BY Zenon DEF TxnArgs, TxnFlag, TxnStrings
    <2>3. QED
        BY <2>1, <2>2
<1>2. IsSeq(strings) /\ IsSeq(d.rest)
    BY TxnStringsIs DEF IsDirective
<1>3. Len(strings) \in Nat /\ DOMAIN strings = 1..Len(strings) /\ Len(d.rest) \in Nat
    BY <1>2, SeqFacts
<1> HIDE DEF flag, strings, w
<1>4. /\ IsArg(a) /\ a.as = "flag" /\ a.value = flag
      /\ \A i \in 1..Len(strings) : /\ IsArg(s[i]) /\ s[i].as = "string" /\ s[i].value = strings[i]
    <2>1. \A i \in 1..Len(strings) : s[i] = Arg("string", strings[i])
        BY <1>3
    <2> HIDE DEF s
    <2>2. QED
        BY <2>1, ArgIs
<1>5. s = [i \in 1..Len(strings) |-> s[i]]
    BY <1>3
<1> HIDE DEF a, s
<1>6. IsSeq(s) /\ Len(s) = Len(strings)
    BY <1>3, <1>5, FcnIsSeq
<1>7. IsSeq(<<a>>) /\ Len(<<a>>) = 1 /\ <<a>>[1] = a
    BY Single
<1>8. /\ IsSeq(h) /\ Len(h) = 1 + Len(strings) /\ h[1] = a
      /\ \A i \in 1..Len(strings) : h[1 + i] = s[i]
    BY <1>6, <1>7, Cat
<1> HIDE DEF h
<1>9. /\ IsSeq(w) /\ Len(w) = Len(h) + Len(d.rest)
      /\ \A i \in 1..Len(h) : w[i] = WriteArg(h[i])
      /\ \A i \in 1..Len(d.rest) : w[Len(h) + i] = WriteArg(d.rest[i])
    <2>1. IsSeq(d.rest) /\ IsSeq(h) /\ HeadArgs(d) = h
        BY <1>1, <1>2, <1>8
    <2>2. QED
        BY <2>1, WrittenArgsAre DEF w
<1>10. w[1].as = "flag" /\ w[1].value = flag
    <2>1. 1 \in 1..Len(h)
        BY <1>3, <1>8
    <2>2. w[1] = WriteArg(a)
        BY <1>8, <1>9, <2>1
    <2>3. QED
        BY <1>4, <2>2, WriteArgIs
<1>11. \A i \in 1..Len(strings) : w[1 + i].as = "string" /\ w[1 + i].value = QuoteStr(strings[i])
    <2>1. TAKE i \in 1..Len(strings)
    <2>2. PICK x \in 1..Len(h) : x = 1 + i
        BY <1>3, <1>8
    <2>3. w[x] = WriteArg(h[x]) /\ h[x] = s[i]
        BY <1>8, <1>9, <2>2
    <2>4. w[1 + i] = WriteArg(s[i])
        BY <2>2, <2>3
    <2>5. IsArg(s[i]) /\ s[i].as = "string" /\ s[i].value = strings[i]
        BY <1>4
    <2>6. WriteArg(s[i]).as = "string" /\ WriteArg(s[i]).value = QuoteStr(strings[i])
        BY <2>5, WriteArgIs
    <2>7. QED
        BY <2>4, <2>6
<1>12. \A i \in 1..Len(d.rest) : /\ w[1 + Len(strings) + i] = WriteArg(d.rest[i])
                                 /\ w[1 + Len(strings) + i].as \in {"tag", "link"}
    <2>1. TAKE i \in 1..Len(d.rest)
    <2>2. w[1 + Len(strings) + i] = WriteArg(d.rest[i])
        BY <1>8, <1>9
    <2>3. IsArg(d.rest[i]) /\ d.rest[i].as \in {"tag", "link"}
        BY DEF IsDirective
    <2>4. WriteArg(d.rest[i]).as = d.rest[i].as
        BY <2>3, WriteArgIs
    <2>5. QED
        BY <2>2, <2>3, <2>4
<1>13. Len(w) = 1 + Len(strings) + Len(d.rest)
    BY <1>8, <1>9
<1>14. IsTxnArgs(w, flag, strings, d.rest)
    BY <1>3, <1>9, <1>10, <1>11, <1>12, <1>13 DEF IsTxnArgs
<1>15. QED
    BY <1>14 DEF w, flag, strings

(* Which of the arguments are strings, and which tags and links. *)
LEMMA TxnPlaces ==
    ASSUME NEW w, NEW flag, NEW strings, NEW rest, IsTxnArgs(w, flag, strings, rest)
    PROVE  /\ Places([i \in DOMAIN w |-> w[i].as = "string"]) = [n \in 1..Len(strings) |-> 1 + n]
           /\ Places([i \in DOMAIN w |-> w[i].as \in {"tag", "link"}])
              = [n \in 1..Len(rest) |-> (1 + Len(strings)) + n]
<1> DEFINE m == Len(w)
           c == Len(strings)
           isString == [i \in DOMAIN w |-> w[i].as = "string"]
           isRest == [i \in DOMAIN w |-> w[i].as \in {"tag", "link"}]
<1>1. /\ IsSeq(w) /\ m = 1 + c + Len(rest) /\ c \in Nat /\ Len(rest) \in Nat
      /\ w[1].as = "flag"
      /\ \A i \in 1..c : w[1 + i].as = "string"
      /\ \A i \in 1..Len(rest) : w[1 + c + i].as \in {"tag", "link"}
    BY DEF IsTxnArgs
<1>2. m \in Nat /\ DOMAIN w = 1..m
    BY <1>1, SeqFacts
<1> HIDE DEF m, c
<1>3. /\ isString = [i \in 1..m |-> isString[i]]
      /\ \A i \in 1..m : isString[i] <=> w[i].as = "string"
    BY <1>2
<1>4. /\ isRest = [i \in 1..m |-> isRest[i]]
      /\ \A i \in 1..m : isRest[i] <=> w[i].as \in {"tag", "link"}
    BY <1>2
<1> HIDE DEF isString, isRest
<1>5. Len(isString) = m /\ Len(isRest) = m
    BY <1>2, <1>3, <1>4, FcnIsSeq
<1>6. ASSUME NEW i \in 1..m
      PROVE  /\ w[i].as = "string" <=> i \in 1 + 1..1 + c
             /\ w[i].as \in {"tag", "link"} <=> i \in (1 + c) + 1..(1 + c) + Len(rest)
    <2>1. CASE i = 1
        BY <1>1, <2>1
    <2>2. CASE i \in 1 + 1..1 + c
        <3>1. PICK k \in 1..c : k = i - 1
            BY <1>1, <2>2
        <3>2. 1 + k = i
            BY <1>1, <3>1
        <3>3. w[i].as = "string"
            BY <1>1, <3>2
        <3>4. i \notin (1 + c) + 1..(1 + c) + Len(rest)
            BY <1>1, <2>2
        <3>5. "string" \notin {"tag", "link"}
            OBVIOUS
        <3>6. QED
            BY Zenon, <2>2, <3>3, <3>4, <3>5
    <2>3. CASE i \in (1 + c) + 1..(1 + c) + Len(rest)
        <3>1. PICK k \in 1..Len(rest) : k = i - (1 + c)
            BY <1>1, <2>3
        <3>2. 1 + c + k = i
            BY <1>1, <3>1
        <3>3. w[i].as \in {"tag", "link"}
            BY <1>1, <3>2
        <3>4. i \notin 1 + 1..1 + c
            BY <1>1, <2>3
        <3>5. "string" \notin {"tag", "link"}
            OBVIOUS
        <3>6. QED
            BY Zenon, <2>3, <3>3, <3>4, <3>5
    <2>4. i = 1 \/ i \in 1 + 1..1 + c \/ i \in (1 + c) + 1..(1 + c) + Len(rest)
        BY <1>1, <1>2
    <2>5. QED
        BY <2>1, <2>2, <2>3, <2>4
<1>7. Places(isString) = [n \in 1..c |-> 1 + n]
    <2>1. PICK x \in Nat : x = 1
        OBVIOUS
    <2>2. x + c <= m /\ c \in Nat
        BY <1>1, <2>1
    <2>3. \A i \in 1..m : isString[i] <=> i \in x + 1..x + c
        BY <1>3, <1>6, <2>1
    <2>4. InRow(isString, m, x, c)
        BY <2>2, <2>3 DEF InRow
    <2>5. Places(isString) = [n \in 1..c |-> x + n]
        BY <1>2, <1>5, <2>2, <2>4, RowPlaces
    <2>6. QED
        BY <2>1, <2>5
<1>8. Places(isRest) = [n \in 1..Len(rest) |-> (1 + c) + n]
    <2>1. PICK x \in Nat : x = 1 + c
        BY <1>1
    <2>2. x + Len(rest) <= m /\ Len(rest) \in Nat
        BY <1>1, <2>1
    <2>3. \A i \in 1..m : isRest[i] <=> i \in x + 1..x + Len(rest)
        BY <1>4, <1>6, <2>1
    <2>4. InRow(isRest, m, x, Len(rest))
        BY <2>2, <2>3 DEF InRow
    <2>5. Places(isRest) = [n \in 1..Len(rest) |-> x + n]
        BY <1>2, <1>5, <2>2, <2>4, RowPlaces
    <2>6. QED
        BY <2>1, <2>5
<1>9. QED
    BY <1>7, <1>8 DEF isString, isRest, c

(* Words that are nothing stay nothing between quotes. *)
LEMMA NothingQuoted == QuoteStr(Nothing) = Nothing
<1>1. Nothing.word = ""
    BY DEF Nothing, Word
<1>2. QED
    BY <1>1, WordsAssumption DEF QuoteStr

LEMMA WrittenTxnArgs ==
    ASSUME NEW d, IsDirective(d), d.kind = "transaction"
    PROVE  [n \in DOMAIN d.args |-> WrittenArg(d, n)]
           = <<TxnFlag(d.args), QuoteStr(d.args[2]), QuoteStr(d.args[3])>>
<1> DEFINE f == [n \in DOMAIN d.args |-> WrittenArg(d, n)]
<1>1. DOMAIN d.args = 1..3
    <2>1. IsSeq(d.args) /\ Len(d.args) = 3
        BY TransactionShape DEF IsDirective
    <2>2. QED
        BY <2>1, SeqFacts
<1>2. WrittenArg(d, 1) = TxnFlag(d.args)
    <2>1. Shape[d.kind][1] = "flag"
        BY TransactionShape
    <2>2. WrittenArg(d, 1) = IF d.args[1] = Nothing THEN Word("*")
                             ELSE WriteArg(Arg("flag", d.args[1])).value
        BY Zenon, <2>1 DEF WrittenArg
    <2>3. WriteArg(Arg("flag", d.args[1])).value = d.args[1]
        BY ArgIs, WriteArgIs
    <2>4. QED
        BY Zenon, <2>2, <2>3 DEF TxnFlag
<1>3. ASSUME NEW n \in {2, 3}
      PROVE  WrittenArg(d, n) = QuoteStr(d.args[n])
    <2>1. Shape[d.kind][n] = "string" /\ "string" # "flag"
        BY TransactionShape
    <2>2. WrittenArg(d, n) = WriteArg(Arg("string", d.args[n])).value
        BY Zenon, <2>1 DEF WrittenArg
    <2>3. WriteArg(Arg("string", d.args[n])).value = QuoteStr(d.args[n])
        BY ArgIs, WriteArgIs
    <2>4. QED
        BY <2>2, <2>3
<1>4. f = [n \in 1..3 |-> f[n]] /\ \A n \in 1..3 : f[n] = WrittenArg(d, n)
    BY <1>1
<1> HIDE DEF f
<1>5. IsSeq(f) /\ Len(f) = 3
    BY <1>4, FcnIsSeq
<1>6. PICK a, b, c : a = TxnFlag(d.args) /\ b = QuoteStr(d.args[2]) /\ c = QuoteStr(d.args[3])
    OBVIOUS
<1>7. f[1] = a /\ f[2] = b /\ f[3] = c
    BY <1>2, <1>3, <1>4, <1>6
<1>8. f = <<a, b, c>>
    <2>1. IsSeq(<<a, b, c>>) /\ Len(<<a, b, c>>) = 3
        BY TripleIs
    <2>2. \A i \in 1..3 : i = 1 \/ i = 2 \/ i = 3
        OBVIOUS
    <2>3. <<a, b, c>>[1] = a /\ <<a, b, c>>[2] = b /\ <<a, b, c>>[3] = c
        OBVIOUS
    <2>4. \A i \in 1..3 : f[i] = <<a, b, c>>[i]
        BY <1>7, <2>2, <2>3
    <2>5. QED
        BY <1>5, <2>1, <2>4, SameSeq
<1>9. QED
    BY <1>6, <1>8 DEF f

(* The arguments of a transaction read back: payee and narration, though   *)
(* one of them may not be written, its tags and its links.                 *)
LEMMA TxnArgsBack ==
    ASSUME NEW d, IsDirective(d), d.kind = "transaction"
    PROVE  /\ ArgsOf(d.kind, WrittenArgs(d)) = [n \in DOMAIN d.args |-> WrittenArg(d, n)]
           /\ RestOf(d.kind, WrittenArgs(d)) = WrittenRest(d)
<1> DEFINE flag == TxnFlag(d.args)
           strings == TxnStrings(d.args)
           c == Len(strings)
           w == WrittenArgs(d)
           at == [n \in 1..c |-> 1 + n]
           after == [n \in 1..Len(d.rest) |-> (1 + c) + n]
<1>1. IsTxnArgs(w, flag, strings, d.rest)
    BY TxnArgsAre
<1>2. /\ Places([i \in DOMAIN w |-> w[i].as = "string"]) = at
      /\ Places([i \in DOMAIN w |-> w[i].as \in {"tag", "link"}]) = after
    BY <1>1, TxnPlaces
<1>3. \/ d.args[2] # Nothing /\ strings = <<d.args[2], d.args[3]>>
      \/ d.args[2] = Nothing /\ d.args[3] # Nothing /\ strings = <<d.args[3]>>
      \/ d.args[2] = Nothing /\ d.args[3] = Nothing /\ strings = << >>
    BY Zenon DEF TxnStrings
<1>4. /\ c \in Nat /\ Len(d.rest) \in Nat /\ w[1].value = flag
      /\ \A i \in 1..c : w[1 + i].value = QuoteStr(strings[i])
      /\ \A i \in 1..Len(d.rest) : w[(1 + c) + i] = WriteArg(d.rest[i])
    BY <1>1 DEF IsTxnArgs
<1> HIDE DEF w, strings, flag, c
<1>5. /\ at = [n \in 1..c |-> at[n]] /\ DOMAIN at = 1..c /\ \A n \in 1..c : at[n] = 1 + n
    OBVIOUS
<1>6. after = [n \in 1..Len(d.rest) |-> after[n]] /\ DOMAIN after = 1..Len(d.rest)
      /\ \A n \in 1..Len(d.rest) : after[n] = (1 + c) + n
    OBVIOUS
<1> HIDE DEF at, after
<1>7. IsSeq(at) /\ Len(at) = c
    BY <1>4, <1>5, FcnIsSeq
<1>8. RestOf(d.kind, w) = WrittenRest(d)
    <2>1. RestOf(d.kind, w) = [n \in DOMAIN after |-> w[after[n]]]
        BY Zenon, <1>2 DEF RestOf
    <2>2. \A n \in DOMAIN after : w[after[n]] = WriteArg(d.rest[n])
        <3>1. DOMAIN after = 1..Len(d.rest)
            BY <1>6
        <3>2. ASSUME NEW n \in 1..Len(d.rest)
              PROVE  w[after[n]] = WriteArg(d.rest[n])
            <4>1. after[n] = (1 + c) + n
                BY <1>6
            <4>2. w[(1 + c) + n] = WriteArg(d.rest[n])
                BY <1>4
            <4>3. QED
                BY Zenon, <4>1, <4>2
        <3>3. QED
            BY <3>1, <3>2
    <2>3. DOMAIN after = DOMAIN d.rest
        BY <1>6, SeqFacts DEF IsDirective
    <2>4. QED
        BY Zenon, <2>1, <2>2, <2>3 DEF WrittenRest
<1> DEFINE text(n) == w[at[n]].value
           second == IF Len(at) = 2 THEN text(1) ELSE Nothing
           third == IF at = << >> THEN Nothing ELSE text(Len(at))
<1>9. ArgsOf(d.kind, w) = <<w[1].value, second, third>>
    BY Zenon, <1>2 DEF ArgsOf, ConvertTxnArgs
<1>10. \A n \in 1..c : text(n) = QuoteStr(strings[n])
    BY <1>4, <1>5
<1>11. at = << >> <=> c = 0
    <2>1. at = << >> => c = 0
        BY <1>7, NoneIs
    <2>2. c = 0 => at = << >>
        BY <1>7, NoneIs, SameSeq
    <2>3. QED
        BY <2>1, <2>2
<1> HIDE DEF text
<1>12. second = QuoteStr(d.args[2]) /\ third = QuoteStr(d.args[3])
    <2>1. CASE d.args[2] # Nothing /\ strings = <<d.args[2], d.args[3]>>
        <3>1. c = 2 /\ strings[1] = d.args[2] /\ strings[2] = d.args[3]
            BY <2>1 DEF c
        <3>2. text(1) = QuoteStr(d.args[2]) /\ text(2) = QuoteStr(d.args[3])
            BY <1>10, <3>1
        <3>3. QED
            BY <1>7, <1>11, <3>1, <3>2
    <2>2. CASE d.args[2] = Nothing /\ d.args[3] # Nothing /\ strings = <<d.args[3]>>
        <3>1. c = 1 /\ strings[1] = d.args[3]
            BY <2>2 DEF c
        <3>2. text(1) = QuoteStr(d.args[3])
            BY <1>10, <3>1
        <3>3. second = Nothing /\ third = text(1)
            BY <1>7, <1>11, <3>1
        <3>4. QED
            BY <2>2, <3>2, <3>3, NothingQuoted
    <2>3. CASE d.args[2] = Nothing /\ d.args[3] = Nothing /\ strings = << >>
        <3>1. c = 0
            BY <2>3, NoneIs DEF c
        <3>2. second = Nothing /\ third = Nothing
            BY <1>7, <1>11, <3>1
        <3>3. QED
            BY <2>3, <3>2, NothingQuoted
    <2>4. QED
        BY Zenon, <1>3, <2>1, <2>2, <2>3
<1>13. ArgsOf(d.kind, w) = [n \in DOMAIN d.args |-> WrittenArg(d, n)]
    <2>1. [n \in DOMAIN d.args |-> WrittenArg(d, n)] = <<flag, QuoteStr(d.args[2]), QuoteStr(d.args[3])>>
        BY WrittenTxnArgs DEF flag
    <2> HIDE DEF second, third
    <2>2. QED
        BY Zenon, <1>4, <1>9, <1>12, <2>1
<1>14. QED
    BY <1>8, <1>13 DEF w

----------------------------------------------------------------------------
(* Directives read back *)

HeadLine(d) ==
    [line |-> "head", kind |-> d.kind, date |-> FmtDate(d.date), args |-> WrittenArgs(d)]

(* A directive is its head and its body. *)
LEMMA FormatParts ==
    ASSUME NEW d, Keyed(d.md, d.postings)
    PROVE  /\ FormatDirective(d)[1] = HeadLine(d)
           /\ Tail(FormatDirective(d)) = Body(d.md, d.postings)
<1> DEFINE head == HeadLine(d)
           w == WriteMeta(d.md)
           flat == FlattenSeq(PostingTexts(d.postings))
           body == w \o flat
           text == <<head>> \o body
<1>1. FormatDirective(d) = <<head>> \o w \o flat
    BY Zenon DEF FormatDirective, HeadLine, WrittenArgs, PostingTexts
<1>2. PICK o : IsBody(Body(d.md, d.postings), PostingTexts(d.postings), d.md, d.postings, Len(w), o)
    BY BodyIs
<1>3. IsSeq(flat) /\ IsSeq(body)
    BY <1>2 DEF IsBody, Laid, Body
<1>4. IsSeq(w)
    BY MetaLines DEF Keyed
<1> HIDE DEF head, w, flat
<1>5. (<<head>> \o w) \o flat = text
    <2> DEFINE S == {head} \cup ToSet(w) \cup ToSet(flat)
    <2>1. <<head>> \in Seq(S)
        OBVIOUS
    <2>2. w \in Seq(ToSet(w)) /\ flat \in Seq(ToSet(flat))
        BY <1>3, <1>4 DEF IsSeq
    <2>3. w \in Seq(S) /\ flat \in Seq(S)
        BY <2>2, SeqMonotonic
    <2> HIDE DEF S
    <2>4. QED
        BY <2>1, <2>3, ConcatAssociative
<1> HIDE DEF body
<1>6. IsSeq(<<head>>) /\ Len(<<head>>) = 1 /\ <<head>>[1] = head
    BY Single
<1>7. Len(body) \in Nat
    BY <1>3, SeqFacts
<1>8. /\ IsSeq(text) /\ Len(text) = 1 + Len(body) /\ text[1] = head
      /\ \A i \in 1..Len(body) : text[1 + i] = body[i]
    BY <1>3, <1>6, Cat
<1> HIDE DEF text
<1>9. Tail(text) = body
    <2>1. text \in Seq(ToSet(text)) /\ text # << >>
        BY <1>7, <1>8, NoneIs DEF IsSeq
    <2>2. /\ Tail(text) \in Seq(ToSet(text))
          /\ Len(Tail(text)) = Len(text) - 1
          /\ \A i \in 1..Len(Tail(text)) : Tail(text)[i] = text[i + 1]
        BY <2>1, HeadTailProperties
    <2>3. IsSeq(Tail(text)) /\ Len(Tail(text)) = Len(body)
        <3>1. IsSeq(Tail(text))
            BY <2>2, IsSeqOf
        <3>2. PICK n \in Nat : n = Len(body)
            BY <1>7
        <3>3. Len(Tail(text)) = n
            BY <1>8, <2>2, <3>2
        <3>4. QED
            BY <3>1, <3>2, <3>3
    <2>4. \A i \in 1..Len(Tail(text)) : Tail(text)[i] = body[i]
        <3>1. TAKE i \in 1..Len(Tail(text))
        <3>2. i + 1 = 1 + i /\ i \in 1..Len(body)
            BY <1>7, <2>3
        <3>3. QED
            BY <1>8, <2>2, <3>2
    <2>5. QED
        BY <1>3, <2>3, <2>4, SameSeq
<1>10. FormatDirective(d) = text
    BY <1>1, <1>5
<1>11. QED
    BY <1>8, <1>9, <1>10 DEF head, body, w, flat, Body

(* What is written is converted to the directive it stands for. *)
LEMMA ConvertBack ==
    ASSUME NEW d, IsDirective(d)
    PROVE  Convert(FormatDirective(d)) = Written(d)
<1> DEFINE l == HeadLine(d)
           body == Body(d.md, d.postings)
           args == [n \in DOMAIN d.args |-> WrittenArg(d, n)]
           ps == [n \in DOMAIN d.postings |-> WrittenPosting(d.postings[n])]
<1>1. Keyed(d.md, d.postings)
    BY DEF IsDirective
<1>2. FormatDirective(d)[1] = l /\ Tail(FormatDirective(d)) = body
    BY <1>1, FormatParts
<1>3. l.kind = d.kind /\ l.date = FmtDate(d.date) /\ l.args = WrittenArgs(d)
    BY Zenon DEF HeadLine
<1>4. ArgsOf(d.kind, WrittenArgs(d)) = args /\ RestOf(d.kind, WrittenArgs(d)) = WrittenRest(d)
    BY ArgsBack, TxnArgsBack
<1>5. OwnMeta(body) = Quoted(d.md)
    BY <1>1, OwnMetaBack
<1>6. ConvertPostings(body) = ps
    <2>1. ConvertPostings(body)
          = [n \in 1..Len(d.postings) |-> ConvertPosting(PostLine(d.postings[n]), Quoted(d.postings[n].md))]
        BY <1>1, PostingsBack
    <2>2. DOMAIN d.postings = 1..Len(d.postings)
        BY <1>1, SeqFacts DEF Keyed
    <2>3. \A n \in 1..Len(d.postings) :
              ConvertPosting(PostLine(d.postings[n]), Quoted(d.postings[n].md)) = WrittenPosting(d.postings[n])
        BY PostingBack DEF IsDirective
    <2> HIDE DEF body
    <2>4. QED
        BY Zenon, <2>1, <2>2, <2>3
<1> HIDE DEF l, body
<1>7. Convert(FormatDirective(d))
      = [kind |-> d.kind, date |-> FmtDate(d.date), args |-> ArgsOf(d.kind, l.args),
         rest |-> RestOf(d.kind, l.args), md |-> OwnMeta(body), postings |-> ConvertPostings(body)]
    <2>1. ConvertRest(l) = RestOf(d.kind, l.args)
        BY Zenon, <1>3 DEF ConvertRest, RestOf
    <2>2. Convert(FormatDirective(d))
          = [kind |-> l.kind, date |-> l.date,
             args |-> IF l.kind = "transaction" THEN ConvertTxnArgs(l.args)
                      ELSE [i \in DOMAIN Shape[l.kind] |-> l.args[i].value],
             rest |-> ConvertRest(l), md |-> OwnMeta(body), postings |-> ConvertPostings(body)]
        BY Zenon, <1>2 DEF Convert
    <2>3. QED
        BY Zenon, <1>3, <2>1, <2>2 DEF ArgsOf
<1> HIDE DEF args, ps
<1>8. Convert(FormatDirective(d))
      = [kind |-> d.kind, date |-> FmtDate(d.date), args |-> args, rest |-> WrittenRest(d),
         md |-> Quoted(d.md), postings |-> ps]
    BY Zenon, <1>3, <1>4, <1>5, <1>6, <1>7
<1>9. Written(d) = [d EXCEPT !.date = FmtDate(d.date), !.md = Quoted(d.md), !.args = args,
                             !.rest = WrittenRest(d), !.postings = ps]
    BY Zenon DEF Written, WrittenRest, args, ps
<1>10. PICK k, t, a, r, md, q : d = [kind |-> k, date |-> t, args |-> a, rest |-> r, md |-> md, postings |-> q]
    BY DEF IsDirective
<1>11. PICK t2, r2, md2, k2 : /\ t2 = FmtDate(d.date) /\ r2 = WrittenRest(d) /\ md2 = Quoted(d.md)
                              /\ k2 = d.kind
    BY Zenon
<1>12. k2 = k
    BY <1>10, <1>11
<1>13. Written(d) = [d EXCEPT !.date = t2, !.md = md2, !.args = args, !.rest = r2, !.postings = ps]
    BY Zenon, <1>9, <1>11
<1>14. Written(d) = [kind |-> k, date |-> t2, args |-> args, rest |-> r2, md |-> md2, postings |-> ps]
    BY <1>10, <1>13
<1>15. QED
    BY Zenon, <1>8, <1>11, <1>12, <1>14

(* Written directives read back: the text is one directive, all of it. *)
LEMMA ParseBack ==
    ASSUME NEW d, IsDirective(d)
    PROVE  LET text == FormatDirective(d)
           IN  Parse(text) = <<[d |-> Written(d), start |-> 0, end |-> Len(text)]>>
<1> DEFINE text == FormatDirective(d)
           bs == <<text>>
           r == [d |-> Written(d), start |-> 0, end |-> Len(text)]
<1>1. IsBlock(text) /\ text[1].line = "head"
    BY FormatIs DEF IsDirective, Keyed
<1>2. Convert(text) = Written(d)
    BY ConvertBack
<1> HIDE DEF text
<1>3. PICK o : Cuts(text, bs, o)
    BY <1>1, BlockCut
<1>4. Len(bs) = 1 /\ bs[1] = text
    BY Single
<1>5. /\ IsSeq(text) /\ Len(text) \in Nat \ {0} /\ o[0] = 0 /\ o[1] = Len(text)
      /\ \A j \in 2..Len(text) : Continues(text[j])
    BY <1>1, <1>3, <1>4, SeqFacts DEF Cuts, Laid, IsBlock
<1> HIDE DEF bs
<1>6. /\ DOMAIN Parse(text) = 1..Len(Heads(text)) /\ Len(Heads(text)) \in Nat
      /\ DOMAIN Heads(text) = 1..Len(Heads(text))
    BY <1>3, <1>5, ParseDomain, HeadsList
<1>7. Len(Heads(text)) = 1 /\ Heads(text)[1] = 1
    <2> DEFINE holds == [i \in 1..Len(text) |-> text[i].line = "head"]
               at == [n \in 1..1 |-> 0 + n]
    <2>1. Lists(Heads(text), holds, Len(text))
        BY <1>5, HeadsList
    <2>2. holds = [i \in 1..Len(text) |-> holds[i]]
        OBVIOUS
    <2>3. \A i \in 1..Len(text) : holds[i] <=> text[i].line = "head"
        BY Zenon
    <2> HIDE DEF holds
    <2>4. Len(holds) = Len(text)
        BY <1>5, <2>2, FcnIsSeq
    <2>5. \A i \in 1..Len(text) : text[i].line = "head" <=> i = 1
        <3>1. TAKE i \in 1..Len(text)
        <3>2. CASE i = 1
            BY <1>1, <3>2
        <3>3. CASE i # 1
            <4>1. Continues(text[i])
                BY <1>5, <3>3
            <4>2. QED
                BY <3>3, <4>1 DEF Continues
        <3>4. QED
            BY <3>2, <3>3
    <2>6. PICK a, c \in Nat : a = 0 /\ c = 1
        OBVIOUS
    <2>7. InRow(holds, Len(text), a, c)
        BY <1>5, <2>3, <2>5, <2>6 DEF InRow
    <2>8. Places(holds) = [n \in 1..c |-> a + n]
        BY <1>5, <2>4, <2>7, RowPlaces
    <2>9. Lists(Places(holds), holds, Len(text))
        BY <1>5, <2>4, PlacesList
    <2>10. Heads(text) = [n \in 1..c |-> a + n]
        BY <1>5, <2>1, <2>8, <2>9, ListsUnique
    <2>11. Heads(text) = at
        BY <2>6, <2>10
    <2>12. at = [n \in 1..1 |-> at[n]] /\ at[1] = 1
        OBVIOUS
    <2> HIDE DEF at
    <2>13. Len(at) = 1
        BY <2>12, FcnIsSeq
    <2>14. QED
        BY <2>11, <2>12, <2>13
<1>8. NodeEnd(text, 1) = Len(text)
    <2>1. 1 \in 1..Len(bs) /\ 1 - 1 = 0 /\ o[1 - 1] + 1 = 1
        BY <1>4, <1>5
    <2>2. NodeEnd(text, o[1 - 1] + 1) = o[1]
        BY <1>3, <2>1, NodeEndIs
    <2>3. QED
        BY <1>5, <2>1, <2>2
<1>9. SubSeq(text, 1, Len(text)) = text
    <2>1. 1 \in 1..Len(bs) /\ o[1 - 1] + 1 = 1
        BY <1>4, <1>5
    <2>2. SubSeq(text, o[1 - 1] + 1, o[1]) = bs[1]
        BY <1>3, <2>1, CutsPart
    <2>3. QED
        BY <1>4, <1>5, <2>1, <2>2
<1> DEFINE p == Parse(text)
<1>10. p[1] = r
    <2>1. DOMAIN text = 1..Len(text) /\ 1 \in 1..Len(text)
        BY <1>5, SeqFacts
    <2>2. 1 \in DOMAIN Heads(text)
        BY <1>6, <1>7
    <2>3. Parse(text)[1] = [d |-> Convert(SubSeq(text, 1, NodeEnd(text, 1))), start |-> 1 - 1, end |-> NodeEnd(text, 1)]
        BY <1>7, <2>1, <2>2 DEF Parse
    <2>4. 1 - 1 = 0
        OBVIOUS
    <2>5. p[1] = [d |-> Convert(SubSeq(text, 1, Len(text))), start |-> 0, end |-> Len(text)]
        BY <1>8, <2>3, <2>4
    <2> HIDE DEF p
    <2>6. QED
        BY Zenon, <1>2, <1>9, <2>5
<1> HIDE DEF r
<1>11. IsSeq(p) /\ Len(p) = 1
    <2>1. p = [n \in 1..1 |-> p[n]]
        <3>1. p = [n \in DOMAIN p |-> p[n]]
            BY DEF Parse
        <3>2. QED
            BY <1>6, <1>7, <3>1
    <2> HIDE DEF p
    <2>2. QED
        BY <2>1, FcnIsSeq
<1> HIDE DEF p
<1>12. p = <<r>>
    <2>1. IsSeq(<<r>>) /\ Len(<<r>>) = 1 /\ <<r>>[1] = r
        BY Single
    <2>2. \A i \in 1..Len(p) : p[i] = <<r>>[i]
        BY <1>10, <1>11, <2>1
    <2>3. QED
        BY <1>11, <2>1, <2>2, SameSeq
<1>13. QED
    BY <1>12 DEF p, r, text

----------------------------------------------------------------------------
(* What is decoded is a directive *)

(* What a line is decoded as is a directive. *)
LEMMA MoreMeta ==
    ASSUME NEW d, IsDirective(d), NEW md, DOMAIN md \subseteq ToSet(KeyOrder)
    PROVE  IsDirective([d EXCEPT !.md = md])
<1>1. PICK k, t, a, r, m, ps : d = [kind |-> k, date |-> t, args |-> a, rest |-> r, md |-> m, postings |-> ps]
    BY DEF IsDirective
<1> DEFINE e == [d EXCEPT !.md = md]
<1>2. e = [kind |-> k, date |-> t, args |-> a, rest |-> r, md |-> md, postings |-> ps]
    BY <1>1
<1>3. /\ d.kind = k /\ d.args = a /\ d.rest = r /\ d.postings = ps
      /\ e.kind = k /\ e.date = t /\ e.args = a /\ e.rest = r /\ e.postings = ps /\ e.md = md
    BY <1>1, <1>2
<1> HIDE DEF e
<1>4. e = [kind |-> e.kind, date |-> e.date, args |-> e.args, rest |-> e.rest, md |-> e.md,
           postings |-> e.postings]
    BY <1>2, <1>3
<1>5. Keyed(md, ps)
    BY <1>3 DEF IsDirective, Keyed
<1>6. /\ k \in DOMAIN Shape /\ IsSeq(a) /\ Len(a) = Len(Shape[k])
      /\ IsSeq(r) /\ \A i \in 1..Len(r) : IsArg(r[i])
    BY Zenon, <1>3 DEF IsDirective
<1>7. k = "transaction" => \A i \in 1..Len(r) : r[i].as \in {"tag", "link"}
    BY Zenon, <1>3 DEF IsDirective
<1>8. \A n \in 1..Len(ps) : IsPosting(ps[n])
    BY Zenon, <1>3 DEF IsDirective
<1>9. IsDirective(e)
    BY Zenon, <1>3, <1>4, <1>5, <1>6, <1>7, <1>8 DEF IsDirective
<1>10. QED
    BY <1>9 DEF e

LEMMA PostingToPosting ==
    ASSUME NEW p, IsPosting(p)
    PROVE  IsPosting(ToPosting(p)) /\ ToPosting(p).md = p.md
<1>1. PICK a, u, c, r, md : p = [account |-> a, units |-> u, cost |-> c, price |-> r, md |-> md]
    BY DEF IsPosting
<1>2. PICK v : v = ToUnits(p.units)
    OBVIOUS
<1>3. ToPosting(p) = [p EXCEPT !.units = v]
    BY Zenon, <1>2 DEF ToPosting
<1>4. ToPosting(p) = [account |-> a, units |-> v, cost |-> c, price |-> r, md |-> md]
    BY <1>1, <1>3
<1>5. p.cost = c /\ p.md = md
    BY <1>1
<1>6. (c # << >> => c = <<c[1]>> /\ IsCost(c[1])) /\ DOMAIN md \subseteq ToSet(KeyOrder)
    BY Zenon, <1>5 DEF IsPosting
<1>7. PICK q : q = ToPosting(p)
    OBVIOUS
<1>8. /\ q.account = a /\ q.units = v /\ q.cost = c /\ q.price = r /\ q.md = md
      /\ q = [account |-> a, units |-> v, cost |-> c, price |-> r, md |-> md]
    BY <1>4, <1>7
<1>9. IsPosting(q)
    BY Zenon, <1>6, <1>8 DEF IsPosting
<1>10. QED
    BY <1>5, <1>7, <1>8, <1>9

LEMMA DecodedDirective ==
    ASSUME NEW line, IsLine(line), line.type \in DOMAIN Shape
    PROVE  IsDirective(DecodeLine(line))
<1> DEFINE ps == [i \in DOMAIN line.postings |-> ToPosting(line.postings[i])]
           own == IF HasMetadata(line.type) THEN line.md ELSE NoMeta
           d == [kind |-> line.type, date |-> line.date, args |-> line.args, rest |-> line.rest,
                 md |-> own, postings |-> ps]
           id == LineID(line)
           more == MetaWith(d.md, IngestIDMetaKey, id)
<1>1. DecodeLine(line) = WithIngestID(d, id)
    BY Zenon DEF DecodeLine
<1>2. IsSeq(line.postings) /\ \A p \in ToSet(line.postings) : IsPosting(p)
    BY Zenon DEF IsLine, IsSeq
<1>3. DOMAIN line.postings = 1..Len(line.postings) /\ Len(line.postings) \in Nat
    BY <1>2, SeqFacts
<1>4. \A n \in 1..Len(line.postings) : IsPosting(line.postings[n])
    BY <1>2, <1>3 DEF ToSet
<1>5. ps = [n \in 1..Len(line.postings) |-> ps[n]]
      /\ \A n \in 1..Len(line.postings) : ps[n] = ToPosting(line.postings[n])
    BY <1>3
<1>6. DOMAIN own \subseteq ToSet(KeyOrder)
    <2>1. DOMAIN line.md \subseteq ToSet(KeyOrder)
        BY Zenon DEF IsLine
    <2>2. DOMAIN NoMeta = {}
        BY DEF NoMeta
    <2>3. QED
        BY <2>1, <2>2
<1> HIDE DEF ps
<1>7. IsSeq(ps) /\ Len(ps) = Len(line.postings)
    BY <1>3, <1>5, FcnIsSeq
<1>8. \A n \in 1..Len(ps) : IsPosting(ps[n])
    <2>1. TAKE n \in 1..Len(ps)
    <2>2. IsPosting(line.postings[n]) /\ ps[n] = ToPosting(line.postings[n])
        BY <1>4, <1>5, <1>7
    <2>3. QED
        BY <2>2, PostingToPosting
<1>9. Keyed(own, ps)
    <2>1. \A n \in 1..Len(ps) : DOMAIN ps[n].md \subseteq ToSet(KeyOrder)
        BY Zenon, <1>8 DEF IsPosting
    <2> HIDE DEF own
    <2>2. QED
        BY Zenon, <1>6, <1>7, <2>1 DEF Keyed
<1>10. IsSeq(line.rest) /\ \A i \in 1..Len(line.rest) : line.rest[i] \in ToSet(line.rest)
    <2>1. IsSeq(line.rest)
        BY Zenon DEF IsLine, IsSeq
    <2>2. DOMAIN line.rest = 1..Len(line.rest)
        BY <2>1, SeqFacts
    <2>3. QED
        BY <2>1, <2>2 DEF ToSet
<1>11. \A i \in 1..Len(line.rest) : IsArg(line.rest[i])
    <2>1. \A a \in ToSet(line.rest) : a = [as |-> a.as, value |-> a.value]
        BY Zenon DEF IsLine
    <2>2. QED
        BY Zenon, <1>10, <2>1 DEF IsArg
<1>12. line.type = "transaction" => \A i \in 1..Len(line.rest) : line.rest[i].as \in {"tag", "link"}
    <2>1. line.type = "transaction" => \A a \in ToSet(line.rest) : a.as \in {"tag", "link"}
        BY Zenon DEF IsLine
    <2>2. QED
        BY Zenon, <1>10, <2>1
<1>13. IsSeq(line.args) /\ Len(line.args) = Len(Shape[line.type])
    BY Zenon DEF IsLine, IsSeq
<1> HIDE DEF own
<1>14. /\ d.kind = line.type /\ d.date = line.date /\ d.args = line.args /\ d.rest = line.rest
       /\ d.md = own /\ d.postings = ps
    OBVIOUS
<1>15. d = [kind |-> d.kind, date |-> d.date, args |-> d.args, rest |-> d.rest, md |-> d.md,
            postings |-> d.postings]
    OBVIOUS
<1> HIDE DEF d
<1>16. IsDirective(d)
    BY Zenon, <1>8, <1>9, <1>10, <1>11, <1>12, <1>13, <1>14, <1>15 DEF IsDirective
<1>17. CASE id = Nothing \/ ~HasMetadata(d.kind)
    <2>1. WithIngestID(d, id) = d
        BY Zenon, <1>17 DEF WithIngestID
    <2>2. QED
        BY <1>1, <1>16, <2>1
<1>18. CASE ~(id = Nothing \/ ~HasMetadata(d.kind))
    <2>1. WithIngestID(d, id) = [d EXCEPT !.md = more]
        BY Zenon, <1>18 DEF WithIngestID
    <2>2. DOMAIN more = DOMAIN own \cup {IngestIDMetaKey}
        BY <1>14 DEF MetaWith
    <2>3. DOMAIN more \subseteq ToSet(KeyOrder)
        BY <1>6, <2>2, WordsAssumption
    <2> HIDE DEF more
    <2>4. IsDirective([d EXCEPT !.md = more])
        BY <1>16, <2>3, MoreMeta
    <2>5. QED
        BY <1>1, <2>1, <2>4
<1>19. QED
    BY <1>17, <1>18

----------------------------------------------------------------------------
(* The ids of what is written *)

(* The id of what is written is the id of the directive, unless it needs an *)
(* escape.                                                                  *)
LEMMA WrittenMeta ==
    ASSUME NEW d, IsDirective(d)
    PROVE  Written(d).md = Quoted(d.md)
<1>1. PICK k, t, a, r, md, q : d = [kind |-> k, date |-> t, args |-> a, rest |-> r, md |-> md, postings |-> q]
    BY DEF IsDirective
<1>2. PICK t2, a2, r2, m2, q2 :
          /\ t2 = FmtDate(d.date) /\ m2 = Quoted(d.md)
          /\ a2 = [n \in DOMAIN d.args |-> WrittenArg(d, n)]
          /\ r2 = [n \in DOMAIN d.rest |-> WriteArg(d.rest[n])]
          /\ q2 = [n \in DOMAIN d.postings |-> WrittenPosting(d.postings[n])]
    BY Zenon
<1>3. Written(d) = [d EXCEPT !.date = t2, !.md = m2, !.args = a2, !.rest = r2, !.postings = q2]
    BY Zenon, <1>2 DEF Written
<1>4. Written(d) = [kind |-> k, date |-> t2, args |-> a2, rest |-> r2, md |-> m2, postings |-> q2]
    BY <1>1, <1>3
<1>5. Written(d).md = m2
    BY <1>4
<1>6. QED
    BY <1>2, <1>5

LEMMA WrittenID ==
    ASSUME NEW d, IsDirective(d), IngestID(d).word \in Plain
    PROVE  BlockID(FormatDirective(d)) = IngestID(d)
<1>1. FormatDirective(d)[1].line = "head"
    BY FormatIs DEF IsDirective, Keyed
<1>2. BlockID(FormatDirective(d)) = IngestID(Written(d))
    BY Zenon, <1>1, ConvertBack DEF BlockID
<1>3. PICK md : md = d.md
    OBVIOUS
<1>4. Written(d).md = Quoted(md)
    BY <1>3, WrittenMeta
<1>5. DOMAIN Quoted(md) = DOMAIN md /\ \A k \in DOMAIN md : Quoted(md)[k] = QuoteStr(md[k])
    BY DEF Quoted
<1>6. CASE IngestIDMetaKey \in DOMAIN md
    <2>1. IngestID(d) = md[IngestIDMetaKey]
        BY <1>3, <1>6 DEF IngestID
    <2>2. IngestID(Written(d)) = QuoteStr(md[IngestIDMetaKey])
        BY Zenon, <1>4, <1>5, <1>6 DEF IngestID
    <2>3. QuoteStr(md[IngestIDMetaKey]) = md[IngestIDMetaKey]
        BY <2>1 DEF QuoteStr
    <2>4. QED
        BY <1>2, <2>1, <2>2, <2>3
<1>7. CASE IngestIDMetaKey \notin DOMAIN md
    <2>1. IngestID(d) = Nothing
        BY <1>3, <1>7 DEF IngestID
    <2>2. IngestID(Written(d)) = Nothing
        BY Zenon, <1>4, <1>5, <1>7 DEF IngestID
    <2>3. QED
        BY <1>2, <2>1, <2>2
<1>8. QED
    BY <1>6, <1>7

(* No two blocks have one id. *)
BlocksApart(bs) ==
    \A m, n \in 1..Len(bs) : m # n => BlockID(bs[m]) = Nothing \/ BlockID(bs[m]) # BlockID(bs[n])

LEMMA ApartBlocks ==
    ASSUME NEW text, NEW bs, NEW o, Cuts(text, bs, o)
    PROVE  IdsApart(text) <=> BlocksApart(bs)
<1> DEFINE dirs == Parse(text)
           heads == Heads(text)
<1>1. /\ DOMAIN dirs = 1..Len(heads) /\ Len(heads) \in Nat
      /\ \A k, n \in 1..Len(heads) : k < n => heads[k] < heads[n]
    BY ParseDomain
<1>2. IdsApart(text) <=>
          \A m, n \in 1..Len(heads) : m # n =>
              IngestID(dirs[m].d) = Nothing \/ IngestID(dirs[m].d) # IngestID(dirs[n].d)
    BY Zenon, <1>1 DEF IdsApart
<1> HIDE DEF dirs, heads
<1>3. ASSUME NEW x, NEW y, NEW m, NEW n,
             NodeIs(text, bs, o, x, m), NodeIs(text, bs, o, y, n)
      PROVE  /\ IngestID(dirs[x].d) = BlockID(bs[m]) /\ IngestID(dirs[y].d) = BlockID(bs[n])
             /\ heads[x] = o[m - 1] + 1 /\ heads[y] = o[n - 1] + 1
    BY <1>3 DEF NodeIs, dirs, heads
<1>4. ASSUME BlocksApart(bs), NEW x \in 1..Len(heads), NEW y \in 1..Len(heads), x # y
      PROVE  IngestID(dirs[x].d) = Nothing \/ IngestID(dirs[x].d) # IngestID(dirs[y].d)
    <2>1. PICK m \in 1..Len(bs) : NodeIs(text, bs, o, x, m)
        BY NodeHasBlock DEF heads
    <2>2. PICK n \in 1..Len(bs) : NodeIs(text, bs, o, y, n)
        BY NodeHasBlock DEF heads
    <2>3. /\ IngestID(dirs[x].d) = BlockID(bs[m]) /\ IngestID(dirs[y].d) = BlockID(bs[n])
          /\ heads[x] = o[m - 1] + 1 /\ heads[y] = o[n - 1] + 1
        BY <1>3, <2>1, <2>2
    <2>4. heads[x] # heads[y]
        <3>1. o[m - 1] \in Nat /\ o[n - 1] \in Nat
            BY CutsLens
        <3>2. heads[x] \in Nat /\ heads[y] \in Nat
            BY <2>3, <3>1, SMTT(30)
        <3>3. x < y \/ y < x
            BY <1>1, <1>4
        <3>4. heads[x] < heads[y] \/ heads[y] < heads[x]
            BY <1>1, <3>3
        <3>5. QED
            BY <3>2, <3>4
    <2>5. m # n
        BY <2>3, <2>4
    <2>6. QED
        BY <1>4, <2>3, <2>5 DEF BlocksApart
<1>5. ASSUME IdsApart(text), NEW m \in 1..Len(bs), NEW n \in 1..Len(bs), m # n,
             BlockID(bs[m]) # Nothing
      PROVE  BlockID(bs[m]) # BlockID(bs[n])
    <2>1. SUFFICES ASSUME BlockID(bs[m]) = BlockID(bs[n])
                   PROVE  FALSE
        OBVIOUS
    <2>2. BlockID(bs[n]) # Nothing
        BY <1>5, <2>1
    <2>3. PICK x \in 1..Len(heads) : NodeIs(text, bs, o, x, m)
        BY <1>5, BlockHasNode DEF heads
    <2>4. PICK y \in 1..Len(heads) : NodeIs(text, bs, o, y, n)
        BY <2>2, BlockHasNode DEF heads
    <2>5. /\ IngestID(dirs[x].d) = BlockID(bs[m]) /\ IngestID(dirs[y].d) = BlockID(bs[n])
          /\ heads[x] = o[m - 1] + 1 /\ heads[y] = o[n - 1] + 1
        BY <1>3, <2>3, <2>4
    <2>6. x # y
        <3>1. SUFFICES ASSUME x = y PROVE FALSE
            OBVIOUS
        <3>2. o[m - 1] = o[n - 1]
            <4>1. PICK a, b \in Nat : a = o[m - 1] /\ b = o[n - 1]
                BY CutsLens
            <4>2. a + 1 = b + 1
                BY <2>5, <3>1, <4>1
            <4>3. QED
                BY <4>1, <4>2
        <3>3. Len(bs) \in Nat /\ m - 1 \in 0..Len(bs) /\ n - 1 \in 0..Len(bs)
              /\ (m - 1 < n - 1 \/ n - 1 < m - 1)
            BY <1>5, CutsLens
        <3>4. PICK i, j \in 0..Len(bs) : i = m - 1 /\ j = n - 1
            BY <3>3
        <3>5. i < j => o[i] < o[j]
            BY CutsGrow
        <3>6. j < i => o[j] < o[i]
            BY CutsGrow
        <3>7. o[i] \in Nat /\ o[i] = o[j]
            BY <3>2, <3>4 DEF Cuts, Laid
        <3>8. QED
            BY <3>3, <3>4, <3>5, <3>6, <3>7
    <2>7. QED
        BY <1>2, <1>5, <2>1, <2>5, <2>6
<1>6. IdsApart(text) => BlocksApart(bs)
    BY <1>5 DEF BlocksApart
<1>7. BlocksApart(bs) => IdsApart(text)
    BY <1>2, <1>4
<1>8. QED
    BY <1>6, <1>7

----------------------------------------------------------------------------
(* No id twice *)

(* Directives that are written with the id they have. *)
Plainly(ds) ==
    IsSeq(ds) /\ \A i \in 1..Len(ds) : IsDirective(ds[i]) /\ IngestID(ds[i]).word \in Plain

LEMMA PlainlyWritable ==
    ASSUME NEW ds, Plainly(ds)
    PROVE  Writable(ds)
BY DEF Plainly, Writable, IsDirective, Keyed

(* A replaced block keeps its id. *)
LEMMA ReplacedID ==
    ASSUME NEW bs, NEW ds, Plainly(ds), NEW m \in 1..Len(bs)
    PROVE  BlockID(Replaced(bs, ds, m)) = BlockID(bs[m])
<1>1. CASE Replacing(bs, ds, m) = {}
    BY <1>1 DEF Replaced
<1>2. CASE Replacing(bs, ds, m) # {}
    <2>1. PICK i : i = CHOOSE x \in Replacing(bs, ds, m) : TRUE
        OBVIOUS
    <2>2. i \in Replacing(bs, ds, m)
        BY <1>2, <2>1
    <2>3. DOMAIN ds = 1..Len(ds)
        BY SeqFacts DEF Plainly
    <2>4. i \in 1..Len(ds) /\ IngestID(ds[i]) = BlockID(bs[m])
        BY <2>2, <2>3 DEF Replacing
    <2>5. BlockID(FormatDirective(ds[i])) = IngestID(ds[i])
        BY <2>4, WrittenID DEF Plainly
    <2>6. Replaced(bs, ds, m) = FormatDirective(ds[i])
        BY <1>2, <2>1 DEF Replaced
    <2>7. QED
        BY <2>4, <2>5, <2>6
<1>3. QED
    BY <1>1, <1>2

(* Merging directives of different ids with blocks of different ids makes  *)
(* blocks of different ids.                                                *)
LEMMA MergedApart ==
    ASSUME NEW bs, IsSeq(bs), BlocksApart(bs), NEW ds, Plainly(ds), KeysApart(ds)
    PROVE  BlocksApart(Promise!Merged(bs, ds))
<1> DEFINE spans == [id \in {BlockID(bs[m]) : m \in 1..Len(bs)} \ {Nothing} |-> 0]
           at == NewAt(spans, ds)
           cs == NewBlocks(spans, ds)
           left == [m \in 1..Len(bs) |-> Replaced(bs, ds, m)]
<1>1. IsSeq(ds) /\ Writable(ds) /\ DOMAIN ds = 1..Len(ds) /\ Len(ds) \in Nat
    BY PlainlyWritable, SeqFacts DEF Plainly
<1>2. DOMAIN spans = {BlockID(bs[m]) : m \in 1..Len(bs)} \ {Nothing}
    OBVIOUS
<1> HIDE DEF spans
<1>3. Promise!Merged(bs, ds) = left \o cs
    BY <1>1, <1>2, MergedIs
<1>4. IsSeq(left) /\ Len(left) = Len(bs) /\ \A m \in 1..Len(bs) : BlockID(left[m]) = BlockID(bs[m])
    <2>1. left = [m \in 1..Len(bs) |-> left[m]] /\ \A m \in 1..Len(bs) : left[m] = Replaced(bs, ds, m)
        OBVIOUS
    <2>2. Len(bs) \in Nat
        BY SeqFacts
    <2> HIDE DEF left
    <2>3. IsSeq(left) /\ Len(left) = Len(bs)
        BY <2>1, <2>2, FcnIsSeq
    <2>4. QED
        BY <2>1, <2>3, ReplacedID
<1>5. /\ IsSeq(at)
      /\ \A n \in 1..Len(at) : at[n] \in 1..Len(ds) /\ IngestID(ds[at[n]]) \notin DOMAIN spans
      /\ \A k, n \in 1..Len(at) : k < n => at[k] < at[n]
    <2> DEFINE holds == [i \in 1..Len(ds) |-> IngestID(ds[i]) \notin DOMAIN spans]
    <2>1. holds = [i \in 1..Len(ds) |-> holds[i]]
          /\ \A i \in 1..Len(ds) : holds[i] = (IngestID(ds[i]) \notin DOMAIN spans)
        OBVIOUS
    <2>2. at = Places(holds)
        BY <1>1 DEF NewAt
    <2> HIDE DEF holds, at
    <2>3. Len(holds) = Len(ds)
        BY <1>1, <2>1, FcnIsSeq
    <2>4. Lists(at, holds, Len(ds))
        BY <1>1, <2>2, <2>3, PlacesList
    <2>5. QED
        BY <2>1, <2>4 DEF Lists
<1>6. IsSeq(cs) /\ Len(cs) = Len(at) /\ \A n \in 1..Len(at) : BlockID(cs[n]) = IngestID(ds[at[n]])
    <2>1. cs = [n \in 1..Len(at) |-> cs[n]] /\ \A n \in 1..Len(at) : cs[n] = FormatDirective(ds[at[n]])
        BY DEF NewBlocks
    <2>2. Len(at) \in Nat
        BY <1>5, SeqFacts
    <2> HIDE DEF cs, at
    <2>3. Len(cs) = Len(at) /\ IsSeq(cs)
        BY <2>1, <2>2, FcnIsSeq
    <2>4. \A n \in 1..Len(at) : BlockID(FormatDirective(ds[at[n]])) = IngestID(ds[at[n]])
        <3>1. TAKE n \in 1..Len(at)
        <3>2. PICK i \in 1..Len(ds) : i = at[n]
            BY <1>5
        <3>3. BlockID(FormatDirective(ds[i])) = IngestID(ds[i])
            BY WrittenID DEF Plainly
        <3>4. QED
            BY <3>2, <3>3
    <2>5. QED
        BY <2>1, <2>3, <2>4
<1> HIDE DEF at, cs, left
<1> DEFINE all == left \o cs
           p == Len(bs)
           q == Len(at)
<1>7. p \in Nat /\ q \in Nat
    BY <1>4, <1>6, SeqFacts
<1>8. /\ Len(all) = p + q
      /\ \A i \in 1..p : all[i] = left[i]
      /\ \A i \in p + 1..p + q : all[i] = cs[i - p]
    BY <1>4, <1>6, Cat
<1> HIDE DEF all
<1>9. \A i \in 1..p : BlockID(all[i]) = BlockID(bs[i])
    BY <1>4, <1>8
<1>10. ASSUME NEW i \in p + 1..p + q
       PROVE  \E n \in 1..q : n = i - p /\ BlockID(all[i]) = IngestID(ds[at[n]])
    <2>1. PICK n \in 1..q : n = i - p
        BY <1>7
    <2>2. all[i] = cs[n]
        BY <1>8, <2>1
    <2>3. QED
        BY <1>6, <2>1, <2>2
<1>11. ASSUME NEW i \in 1..p, NEW j \in p + 1..p + q, BlockID(all[i]) # Nothing
       PROVE  BlockID(all[i]) # BlockID(all[j])
    <2>1. PICK n \in 1..q : BlockID(all[j]) = IngestID(ds[at[n]])
        BY <1>10
    <2>2. IngestID(ds[at[n]]) \notin DOMAIN spans
        BY <1>5
    <2>3. BlockID(all[i]) = BlockID(bs[i])
        BY <1>9
    <2>4. BlockID(bs[i]) \in DOMAIN spans
        BY <1>2, <1>11, <2>3
    <2>5. QED
        BY <2>1, <2>2, <2>3, <2>4
<1>12. ASSUME NEW i \in p + 1..p + q, NEW j \in p + 1..p + q, i # j, BlockID(all[i]) # Nothing
       PROVE  BlockID(all[i]) # BlockID(all[j])
    <2>1. PICK m \in 1..q : m = i - p /\ BlockID(all[i]) = IngestID(ds[at[m]])
        BY <1>10
    <2>2. PICK n \in 1..q : n = j - p /\ BlockID(all[j]) = IngestID(ds[at[n]])
        BY <1>10
    <2>3. m # n
        BY <1>7, <1>12, <2>1, <2>2
    <2>4. at[m] \in 1..Len(ds) /\ at[n] \in 1..Len(ds)
        BY <1>5
    <2>5. at[m] # at[n]
        <3>1. m < n \/ n < m
            BY <2>3
        <3>2. at[m] < at[n] \/ at[n] < at[m]
            BY <1>5, <3>1
        <3>3. QED
            BY <2>4, <3>2
    <2>6. QED
        BY <1>1, <1>12, <2>1, <2>2, <2>4, <2>5 DEF KeysApart
<1>13. ASSUME NEW i \in 1..p, NEW j \in 1..p, i # j, BlockID(all[i]) # Nothing
       PROVE  BlockID(all[i]) # BlockID(all[j])
    BY <1>9, <1>13 DEF BlocksApart
<1>14. ASSUME NEW i \in 1..Len(all), NEW j \in 1..Len(all), i # j
       PROVE  BlockID(all[i]) = Nothing \/ BlockID(all[i]) # BlockID(all[j])
    <2>1. /\ i \in 1..p \/ i \in p + 1..p + q
          /\ j \in 1..p \/ j \in p + 1..p + q
        BY <1>7, <1>8
    <2>2. QED
        BY <1>11, <1>12, <1>13, <1>14, <2>1
<1>15. BlocksApart(all)
    BY <1>14 DEF BlocksApart
<1>16. QED
    BY <1>3, <1>15 DEF all

----------------------------------------------------------------------------
(* The types *)

Decoded == {DecodeLine(line) : line \in {l \in Lines : l.type \in DOMAIN Shape}}

Stream == [lines : Seq(Lines), command : BOOLEAN, exit : {"succeeded", "failed"}]

----------------------------------------------------------------------------
(* The parts of the inductive invariant *)

(* Every variable has its type; a stray file costs a kill. *)
TypeInv ==
    /\ pc \in {"idle", "decode", "wait", "read", "create", "write", "rename", "remove"}
    /\ producer \in {"none", "running", "succeeded", "failed"}
    /\ outcome \in {"none", "ok", "error", "killed"}
    /\ stream \in Stream
    /\ written \in Nat /\ read \in Nat
    /\ read <= written /\ written <= Len(stream.lines)
    /\ written <= read + Capacity
    /\ incoming \in Seq(Decoded) /\ Len(incoming) <= read
    /\ \A id \in DOMAIN byID : byID[id] \in 1..Len(incoming)
    /\ badLine \in BOOLEAN
    /\ temp = << >> \/ \E text : temp = <<text>>
    /\ runs \in Nat /\ runs <= Len(Streams)
    /\ faults \in Nat /\ faults <= MaxFaults
    /\ strays \in Nat /\ strays <= faults

(* A temporary file is there only between its creation and its removal. *)
TempOfWrite == temp # << >> => pc \in {"write", "rename", "remove"}

(* What a producer has done, as long as somebody runs it. *)
ProducerHonest ==
    pc # "idle" =>
        /\ producer \in {"running", stream.exit}
        /\ producer = "succeeded" => written = Len(stream.lines)
        /\ ~stream.command => stream.exit = "succeeded"

(* What has been read was good unless it was said to be bad. *)
GoodSoFar ==
    /\ pc = "decode" => ~badLine
    /\ ~badLine => \A i \in 1..read : LineOk(stream.lines[i])
    /\ pc = "wait" /\ ~badLine => read = written /\ producer # "running"

Whole ==
    /\ stream.exit = "succeeded"
    /\ read = Len(stream.lines)
    /\ \A i \in DOMAIN stream.lines : LineOk(stream.lines[i])

(* The target is looked at only for the sake of a whole stream. *)
WholeBeforeRead == pc \in {"read", "create", "write", "rename"} => Whole /\ ~badLine

(* What is going to be renamed is the merge, in full. *)
Merge == Applied(existing, incoming).text

FullText ==
    /\ pc \in {"create", "write", "rename"} => out = Merge /\ ~HasErrors(existing)
    /\ pc = "rename" => temp = <<out>>

(* What is in memory is what the promise makes of the lines read. *)
Remembering == ~badLine => \E p : Remembers(stream.lines, read, p, incoming, byID)

(* Every text is a sequence of lines. *)
Readable == IsSeq(target) /\ IsSeq(existing) /\ IsSeq(out)

IngestInv ==
    /\ TypeInv
    /\ TempOfWrite
    /\ ProducerHonest
    /\ GoodSoFar
    /\ WholeBeforeRead
    /\ FullText
    /\ Remembering
    /\ Readable

----------------------------------------------------------------------------
(* What is in the pipe *)

LEMMA PipeIs ==
    ASSUME TypeInv
    PROVE  /\ stream.lines \in Seq(Lines) /\ Len(stream.lines) \in Nat
           /\ Len(Pipe) = written - read
           /\ Pipe = << >> <=> read = written
           /\ Pipe # << >> => Head(Pipe) = stream.lines[read + 1] /\ Head(Pipe) \in Lines
<1>1. /\ stream.lines \in Seq(Lines) /\ Len(stream.lines) \in Nat
      /\ read \in Nat /\ written \in Nat /\ read <= written /\ written <= Len(stream.lines)
    BY DEF TypeInv, Stream
<1>2. \A i \in (read + 1)..written : stream.lines[i] \in Lines
    BY <1>1
<1>3. /\ Pipe \in Seq(Lines)
      /\ Len(Pipe) = IF read + 1 <= written THEN written - (read + 1) + 1 ELSE 0
    BY <1>1, <1>2, SubSeqProperties DEF Pipe
<1>4. Len(Pipe) = written - read
    BY <1>1, <1>3
<1>5. Pipe = << >> <=> read = written
    BY <1>1, <1>3, <1>4, EmptySeq
<1>6. ASSUME Pipe # << >>
      PROVE  Head(Pipe) = stream.lines[read + 1] /\ Head(Pipe) \in Lines
    <2>1. read + 1 \in 1..Len(stream.lines) /\ written \in (read + 1)..Len(stream.lines)
        BY <1>1, <1>5, <1>6
    <2>2. Head(Pipe) = stream.lines[read + 1]
        BY <1>1, <2>1, HeadTailOfSubSeq DEF Pipe
    <2>3. QED
        BY <1>1, <2>1, <2>2
<1>7. QED
    BY <1>1, <1>4, <1>5, <1>6

(* The next of the streams an ingest may be asked to merge. *)
LEMMA StreamType ==
    ASSUME TypeInv, runs < Len(Streams),
           NEW lines \in Streams[runs + 1], NEW command \in BOOLEAN,
           NEW exit \in {"succeeded", "failed"}
    PROVE  [lines |-> lines, command |-> command, exit |-> exit] \in Stream
<1>1. Streams \in Seq(SUBSET Seq(Lines)) /\ runs + 1 \in 1..Len(Streams)
    BY IngestAssumption DEF TypeInv
<1>2. Streams[runs + 1] \in SUBSET Seq(Lines)
    BY <1>1
<1>3. QED
    BY <1>2 DEF Stream

(* What is remembered of a good line. *)
LEMMA RememberType ==
    ASSUME TypeInv, NEW line \in Lines, line.type \in DOMAIN Shape, Remember(line)
    PROVE  /\ incoming' \in Seq(Decoded) /\ Len(incoming') \in Nat
           /\ Len(incoming') <= Len(incoming) + 1
           /\ \A id \in DOMAIN byID' : byID'[id] \in 1..Len(incoming')
<1> DEFINE id == LineID(line)
           d == DecodeLine(line)
<1>1. d \in Decoded
    BY DEF Decoded
<1>2. incoming \in Seq(Decoded) /\ Len(incoming) \in Nat
    BY DEF TypeInv
<1>3. \A i \in DOMAIN byID : byID[i] \in 1..Len(incoming)
    BY DEF TypeInv
<1>4. CASE id # Nothing /\ id \in DOMAIN byID
    <2>1. incoming' = [incoming EXCEPT ![byID[id]] = d] /\ byID' = byID
        BY <1>4 DEF Remember
    <2>2. byID[id] \in 1..Len(incoming)
        BY <1>3, <1>4
    <2> HIDE DEF d
    <2>3. incoming' \in Seq(Decoded) /\ Len(incoming') = Len(incoming)
        BY <1>1, <1>2, <2>1, <2>2, ExceptSeq
    <2>4. QED
        BY <1>2, <1>3, <2>1, <2>3
<1>5. CASE ~(id # Nothing /\ id \in DOMAIN byID)
    <2>1. /\ incoming' = Append(incoming, d)
          /\ byID' = IF id = Nothing THEN byID
                     ELSE [i \in DOMAIN byID \cup {id} |->
                              IF i = id THEN Len(incoming) + 1 ELSE byID[i]]
        BY <1>5 DEF Remember
    <2> HIDE DEF d, id
    <2>2. incoming' \in Seq(Decoded) /\ Len(incoming') = Len(incoming) + 1
        BY <1>1, <1>2, <2>1, AppendProperties
    <2>3. \A i \in DOMAIN byID : byID[i] \in 1..(Len(incoming) + 1)
        BY <1>2, <1>3
    <2>4. \A i \in DOMAIN byID' : byID'[i] \in 1..(Len(incoming) + 1)
        BY <1>2, <2>1, <2>3
    <2>5. QED
        BY <1>2, <2>2, <2>4
<1>6. QED
    BY <1>4, <1>5

----------------------------------------------------------------------------
(* Every step preserves each part *)

LEMMA TypeStep ==
    ASSUME TypeInv, Next \/ UNCHANGED vars
    PROVE  TypeInv'
<1>1. CASE Start
    <2>1. PICK lines \in Streams[runs + 1], command \in BOOLEAN, exit \in {"succeeded", "failed"} :
              stream' = [lines |-> lines, command |-> command, exit |-> exit]
        BY <1>1 DEF Start
    <2>2. stream' \in Stream /\ Len(stream'.lines) \in Nat
        BY <1>1, <2>1, StreamType DEF Start, Stream
    <2>3. incoming' = << >> /\ byID' = << >> /\ written' = 0 /\ read' = 0
        BY <1>1 DEF Start
    <2>4. incoming' \in Seq(Decoded) /\ Len(incoming') = 0 /\ DOMAIN byID' = {}
        BY <2>3
    <2>5. runs' \in Nat /\ runs' <= Len(Streams)
        BY <1>1, IngestAssumption DEF Start, TypeInv
    <2>6. /\ incoming' \in Seq(Decoded) /\ Len(incoming') <= read'
          /\ \A id \in DOMAIN byID' : byID'[id] \in 1..Len(incoming')
        BY <2>3, <2>4
    <2>7. /\ written' \in Nat /\ read' \in Nat
          /\ read' <= written' /\ written' <= Len(stream'.lines)
          /\ written' <= read' + Capacity
        BY <2>2, <2>3, IngestAssumption
    <2>8. temp' = temp /\ strays' = strays /\ faults' = faults
        BY <1>1 DEF Start, fileVars
    <2>9. QED
        BY <1>1, <2>2, <2>5, <2>6, <2>7, <2>8 DEF Start, TypeInv
<1>2. CASE ProducerWrite
    <2>1. Len(Pipe) = written - read /\ Len(stream.lines) \in Nat
        BY PipeIs
    <2>2. written' \in Nat /\ read <= written' /\ written' <= Len(stream.lines)
          /\ written' <= read + Capacity
        BY <1>2, <2>1, IngestAssumption DEF ProducerWrite, TypeInv
    <2>3. QED
        BY <1>2, <2>2 DEF ProducerWrite, TypeInv, decodeVars, fileVars
<1>3. CASE ProducerExit
    <2>1. producer' \in {"succeeded", "failed"}
        BY <1>3 DEF ProducerExit, TypeInv, Stream
    <2>2. QED
        BY <1>3, <2>1 DEF ProducerExit, TypeInv, decodeVars, fileVars
<1>4. CASE DecodeLineStep
    <2>1. Pipe # << >> /\ Remember(Head(Pipe)) /\ read' = read + 1
        BY <1>4 DEF DecodeLineStep
    <2>2. Head(Pipe) \in Lines /\ Head(Pipe).type \in DOMAIN Shape /\ read # written
        BY <1>4, <2>1, PipeIs DEF DecodeLineStep, LineOk
    <2>3. /\ incoming' \in Seq(Decoded) /\ Len(incoming') \in Nat
          /\ Len(incoming') <= Len(incoming) + 1
          /\ \A id \in DOMAIN byID' : byID'[id] \in 1..Len(incoming')
        BY <2>1, <2>2, RememberType
    <2>4. read' \in Nat /\ read' <= written /\ written <= read' + Capacity
        BY <2>1, <2>2, IngestAssumption DEF TypeInv
    <2>5. Len(incoming) \in Nat /\ Len(incoming') <= read'
        BY <2>1, <2>3 DEF TypeInv
    <2>6. QED
        BY <1>4, <2>3, <2>4, <2>5 DEF DecodeLineStep, TypeInv, fileVars
<1>5. CASE DecodeFails
    <2>1. read # written
        BY <1>5, PipeIs DEF DecodeFails
    <2>2. /\ read' \in Nat /\ read' <= written /\ written <= read' + Capacity
          /\ Len(incoming) <= read'
        BY <1>5, <2>1, IngestAssumption DEF DecodeFails, TypeInv
    <2>3. QED
        BY <1>5, <2>2 DEF DecodeFails, Return, TypeInv, fileVars
<1>6. CASE DecodeEnds
    BY <1>6 DEF DecodeEnds, Return, TypeInv, vars, pipeVars, decodeVars, fileVars
<1>7. CASE Wait
    BY <1>7 DEF Wait, Return, TypeInv, vars, pipeVars, decodeVars, fileVars
<1>8. CASE ReadTarget
    BY <1>8 DEF ReadTarget, Return, TypeInv, vars, pipeVars, decodeVars, fileVars
<1>9. CASE CreateTemp
    BY <1>9 DEF CreateTemp, TypeInv, vars, pipeVars, decodeVars, fileVars
<1>10. CASE WriteTemp
    BY <1>10 DEF WriteTemp, TypeInv, vars, pipeVars, decodeVars, fileVars
<1>11. CASE Rename
    BY <1>11 DEF Rename, TypeInv, vars, pipeVars, decodeVars, fileVars
<1>12. CASE RemoveTemp
    BY <1>12 DEF RemoveTemp, TypeInv, vars, pipeVars, decodeVars, fileVars
<1>13. CASE CallFails
    <2>1. faults' \in Nat /\ faults' <= MaxFaults /\ strays <= faults'
        BY <1>13, IngestAssumption DEF CallFails, TypeInv
    <2>2. temp' = << >> \/ \E text : temp' = <<text>>
        BY <1>13 DEF CallFails, TypeInv
    <2>3. pc' \in {"idle", "remove"} /\ outcome' = "error"
        BY <1>13 DEF CallFails, Return
    <2>4. QED
        BY <1>13, <2>1, <2>2, <2>3 DEF CallFails, TypeInv, pipeVars, decodeVars
<1>14. CASE Kill
    <2>1. Len(temp) = 0 \/ Len(temp) = 1
        BY DEF TypeInv
    <2>2. /\ faults \in Nat /\ strays \in Nat /\ strays <= faults
          /\ faults < MaxFaults /\ faults' = faults + 1
        BY <1>14 DEF Kill, TypeInv
    <2>3. strays' = strays + 0 \/ strays' = strays + 1
        BY <1>14, <2>1 DEF Kill
    <2>4. /\ faults' \in Nat /\ faults' <= MaxFaults
          /\ strays' \in Nat /\ strays' <= faults'
        BY <2>2, <2>3, IngestAssumption
    <2>5. QED
        BY <1>14, <2>4 DEF Kill, Return, TypeInv, decodeVars
<1>15. CASE EditorSaves
    BY <1>15 DEF EditorSaves, TypeInv, vars, pipeVars, decodeVars, fileVars
<1>16. CASE UNCHANGED vars
    BY <1>16 DEF TypeInv, vars, pipeVars, decodeVars, fileVars
<1>17. QED
    BY <1>1, <1>2, <1>3, <1>4, <1>5, <1>6, <1>7, <1>8, <1>9, <1>10, <1>11, <1>12, <1>13, <1>14, <1>15, <1>16 DEF Next, Work, Decode, WriteFileAtomic

LEMMA TempOfWriteStep ==
    ASSUME TempOfWrite, Next \/ UNCHANGED vars
    PROVE  TempOfWrite'
<1>1. CASE Start
    BY <1>1 DEF Start, Return, TempOfWrite, vars, pipeVars, decodeVars, fileVars
<1>2. CASE ProducerWrite
    BY <1>2 DEF ProducerWrite, Return, TempOfWrite, vars, pipeVars, decodeVars, fileVars
<1>3. CASE ProducerExit
    BY <1>3 DEF ProducerExit, Return, TempOfWrite, vars, pipeVars, decodeVars, fileVars
<1>4. CASE DecodeLineStep
    BY <1>4 DEF DecodeLineStep, Return, TempOfWrite, vars, pipeVars, decodeVars, fileVars
<1>5. CASE DecodeFails
    BY <1>5 DEF DecodeFails, Return, TempOfWrite, vars, pipeVars, decodeVars, fileVars
<1>6. CASE DecodeEnds
    BY <1>6 DEF DecodeEnds, Return, TempOfWrite, vars, pipeVars, decodeVars, fileVars
<1>7. CASE Wait
    BY <1>7 DEF Wait, Return, TempOfWrite, vars, pipeVars, decodeVars, fileVars
<1>8. CASE ReadTarget
    BY <1>8 DEF ReadTarget, Return, TempOfWrite, vars, pipeVars, decodeVars, fileVars
<1>9. CASE CreateTemp
    BY <1>9 DEF CreateTemp, Return, TempOfWrite, vars, pipeVars, decodeVars, fileVars
<1>10. CASE WriteTemp
    BY <1>10 DEF WriteTemp, Return, TempOfWrite, vars, pipeVars, decodeVars, fileVars
<1>11. CASE Rename
    BY <1>11 DEF Rename, Return, TempOfWrite, vars, pipeVars, decodeVars, fileVars
<1>12. CASE RemoveTemp
    BY <1>12 DEF RemoveTemp, Return, TempOfWrite, vars, pipeVars, decodeVars, fileVars
<1>13. CASE CallFails
    BY <1>13 DEF CallFails, Return, TempOfWrite, vars, pipeVars, decodeVars, fileVars
<1>14. CASE Kill
    BY <1>14 DEF Kill, Return, TempOfWrite, vars, pipeVars, decodeVars, fileVars
<1>15. CASE EditorSaves
    BY <1>15 DEF EditorSaves, Return, TempOfWrite, vars, pipeVars, decodeVars, fileVars
<1>16. CASE UNCHANGED vars
    BY <1>16 DEF Return, TempOfWrite, vars, pipeVars, decodeVars, fileVars
<1>17. QED
    BY <1>1, <1>2, <1>3, <1>4, <1>5, <1>6, <1>7, <1>8, <1>9, <1>10, <1>11, <1>12, <1>13, <1>14, <1>15, <1>16 DEF Next, Work, Decode, WriteFileAtomic

LEMMA ProducerHonestStep ==
    ASSUME TypeInv, ProducerHonest, Next \/ UNCHANGED vars
    PROVE  ProducerHonest'
<1>1. CASE Start
    BY <1>1 DEF Start, Return, TypeInv, Stream, ProducerHonest, vars, pipeVars, decodeVars, fileVars
<1>2. CASE ProducerWrite
    BY <1>2 DEF ProducerWrite, Return, TypeInv, Stream, ProducerHonest, vars, pipeVars, decodeVars, fileVars
<1>3. CASE ProducerExit
    BY <1>3 DEF ProducerExit, Return, TypeInv, Stream, ProducerHonest, vars, pipeVars, decodeVars, fileVars
<1>4. CASE DecodeLineStep
    BY <1>4 DEF DecodeLineStep, Return, TypeInv, Stream, ProducerHonest, vars, pipeVars, decodeVars, fileVars
<1>5. CASE DecodeFails
    BY <1>5 DEF DecodeFails, Return, TypeInv, Stream, ProducerHonest, vars, pipeVars, decodeVars, fileVars
<1>6. CASE DecodeEnds
    BY <1>6 DEF DecodeEnds, Return, TypeInv, Stream, ProducerHonest, vars, pipeVars, decodeVars, fileVars
<1>7. CASE Wait
    BY <1>7 DEF Wait, Return, TypeInv, Stream, ProducerHonest, vars, pipeVars, decodeVars, fileVars
<1>8. CASE ReadTarget
    BY <1>8 DEF ReadTarget, Return, TypeInv, Stream, ProducerHonest, vars, pipeVars, decodeVars, fileVars
<1>9. CASE CreateTemp
    BY <1>9 DEF CreateTemp, Return, TypeInv, Stream, ProducerHonest, vars, pipeVars, decodeVars, fileVars
<1>10. CASE WriteTemp
    BY <1>10 DEF WriteTemp, Return, TypeInv, Stream, ProducerHonest, vars, pipeVars, decodeVars, fileVars
<1>11. CASE Rename
    BY <1>11 DEF Rename, Return, TypeInv, Stream, ProducerHonest, vars, pipeVars, decodeVars, fileVars
<1>12. CASE RemoveTemp
    BY <1>12 DEF RemoveTemp, Return, TypeInv, Stream, ProducerHonest, vars, pipeVars, decodeVars, fileVars
<1>13. CASE CallFails
    BY <1>13 DEF CallFails, Return, TypeInv, Stream, ProducerHonest, vars, pipeVars, decodeVars, fileVars
<1>14. CASE Kill
    BY <1>14 DEF Kill, Return, TypeInv, Stream, ProducerHonest, vars, pipeVars, decodeVars, fileVars
<1>15. CASE EditorSaves
    BY <1>15 DEF EditorSaves, Return, TypeInv, Stream, ProducerHonest, vars, pipeVars, decodeVars, fileVars
<1>16. CASE UNCHANGED vars
    BY <1>16 DEF Return, TypeInv, Stream, ProducerHonest, vars, pipeVars, decodeVars, fileVars
<1>17. QED
    BY <1>1, <1>2, <1>3, <1>4, <1>5, <1>6, <1>7, <1>8, <1>9, <1>10, <1>11, <1>12, <1>13, <1>14, <1>15, <1>16 DEF Next, Work, Decode, WriteFileAtomic

LEMMA GoodSoFarStep ==
    ASSUME TypeInv, GoodSoFar, Next \/ UNCHANGED vars
    PROVE  GoodSoFar'
<1>1. CASE Start
    BY <1>1 DEF Start, GoodSoFar
<1>2. CASE ProducerWrite
    BY <1>2 DEF ProducerWrite, Return, GoodSoFar, vars, pipeVars, decodeVars, fileVars
<1>3. CASE ProducerExit
    BY <1>3 DEF ProducerExit, Return, GoodSoFar, vars, pipeVars, decodeVars, fileVars
<1>4. CASE DecodeLineStep
    <2>1. Pipe # << >> /\ LineOk(Head(Pipe)) /\ read' = read + 1 /\ stream' = stream
        BY <1>4 DEF DecodeLineStep
    <2>2. LineOk(stream.lines[read + 1])
        BY <2>1, PipeIs
    <2>3. ~badLine => \A i \in 1..(read + 1) : i \in 1..read \/ i = read + 1
        BY DEF TypeInv
    <2>4. QED
        BY <1>4, <2>1, <2>2, <2>3 DEF DecodeLineStep, GoodSoFar
<1>5. CASE DecodeFails
    BY <1>5 DEF DecodeFails, Return, GoodSoFar, vars, pipeVars, decodeVars, fileVars
<1>6. CASE DecodeEnds
    <2>1. read = written
        BY <1>6, PipeIs DEF DecodeEnds
    <2>2. QED
        BY <1>6, <2>1 DEF DecodeEnds, GoodSoFar, pipeVars, decodeVars
<1>7. CASE Wait
    BY <1>7 DEF Wait, Return, GoodSoFar, vars, pipeVars, decodeVars, fileVars
<1>8. CASE ReadTarget
    BY <1>8 DEF ReadTarget, Return, GoodSoFar, vars, pipeVars, decodeVars, fileVars
<1>9. CASE CreateTemp
    BY <1>9 DEF CreateTemp, Return, GoodSoFar, vars, pipeVars, decodeVars, fileVars
<1>10. CASE WriteTemp
    BY <1>10 DEF WriteTemp, Return, GoodSoFar, vars, pipeVars, decodeVars, fileVars
<1>11. CASE Rename
    BY <1>11 DEF Rename, Return, GoodSoFar, vars, pipeVars, decodeVars, fileVars
<1>12. CASE RemoveTemp
    BY <1>12 DEF RemoveTemp, Return, GoodSoFar, vars, pipeVars, decodeVars, fileVars
<1>13. CASE CallFails
    BY <1>13 DEF CallFails, Return, GoodSoFar, vars, pipeVars, decodeVars, fileVars
<1>14. CASE Kill
    BY <1>14 DEF Kill, Return, GoodSoFar, vars, pipeVars, decodeVars, fileVars
<1>15. CASE EditorSaves
    BY <1>15 DEF EditorSaves, Return, GoodSoFar, vars, pipeVars, decodeVars, fileVars
<1>16. CASE UNCHANGED vars
    BY <1>16 DEF Return, GoodSoFar, vars, pipeVars, decodeVars, fileVars
<1>17. QED
    BY <1>1, <1>2, <1>3, <1>4, <1>5, <1>6, <1>7, <1>8, <1>9, <1>10, <1>11, <1>12, <1>13, <1>14, <1>15, <1>16 DEF Next, Work, Decode, WriteFileAtomic

LEMMA WholeBeforeReadStep ==
    ASSUME TypeInv, ProducerHonest, GoodSoFar, WholeBeforeRead, Next \/ UNCHANGED vars
    PROVE  WholeBeforeRead'
<1>1. CASE Start
    BY <1>1 DEF Start, Return, WholeBeforeRead, Whole, vars, pipeVars, decodeVars, fileVars
<1>2. CASE ProducerWrite
    BY <1>2 DEF ProducerWrite, Return, WholeBeforeRead, Whole, vars, pipeVars, decodeVars, fileVars
<1>3. CASE ProducerExit
    BY <1>3 DEF ProducerExit, Return, WholeBeforeRead, Whole, vars, pipeVars, decodeVars, fileVars
<1>4. CASE DecodeLineStep
    BY <1>4 DEF DecodeLineStep, Return, WholeBeforeRead, Whole, vars, pipeVars, decodeVars, fileVars
<1>5. CASE DecodeFails
    BY <1>5 DEF DecodeFails, Return, WholeBeforeRead, Whole, vars, pipeVars, decodeVars, fileVars
<1>6. CASE DecodeEnds
    <2>1. read = written /\ ~badLine
        BY <1>6, PipeIs DEF DecodeEnds, GoodSoFar
    <2>2. pc' = "read" => producer = "succeeded" /\ stream.exit = "succeeded"
        BY <1>6 DEF DecodeEnds, ProducerHonest
    <2>3. pc' = "read" => Whole
        BY <1>6, <2>1, <2>2, PipeIs DEF DecodeEnds, ProducerHonest, GoodSoFar, Whole
    <2>4. QED
        BY <1>6, <2>1, <2>3 DEF DecodeEnds, WholeBeforeRead, Whole, pipeVars, decodeVars
<1>7. CASE Wait
    <2>1. pc' = "read" => ~badLine /\ producer = "succeeded" /\ stream.exit = "succeeded"
        <3>1. pc' # "idle" => ~(badLine \/ producer = "failed")
            BY <1>7 DEF Wait, Return
        <3>2. producer = stream.exit
            BY <1>7 DEF Wait, ProducerHonest
        <3>3. QED
            BY <3>1, <3>2 DEF TypeInv, Stream
    <2>2. pc' = "read" => Whole
        BY <1>7, <2>1, PipeIs DEF Wait, ProducerHonest, GoodSoFar, Whole
    <2>3. QED
        BY <1>7, <2>1, <2>2 DEF Wait, Return, WholeBeforeRead, Whole, pipeVars, decodeVars
<1>8. CASE ReadTarget
    BY <1>8 DEF ReadTarget, Return, WholeBeforeRead, Whole, vars, pipeVars, decodeVars, fileVars
<1>9. CASE CreateTemp
    BY <1>9 DEF CreateTemp, Return, WholeBeforeRead, Whole, vars, pipeVars, decodeVars, fileVars
<1>10. CASE WriteTemp
    BY <1>10 DEF WriteTemp, Return, WholeBeforeRead, Whole, vars, pipeVars, decodeVars, fileVars
<1>11. CASE Rename
    BY <1>11 DEF Rename, Return, WholeBeforeRead, Whole, vars, pipeVars, decodeVars, fileVars
<1>12. CASE RemoveTemp
    BY <1>12 DEF RemoveTemp, Return, WholeBeforeRead, Whole, vars, pipeVars, decodeVars, fileVars
<1>13. CASE CallFails
    BY <1>13 DEF CallFails, Return, WholeBeforeRead, Whole, vars, pipeVars, decodeVars, fileVars
<1>14. CASE Kill
    BY <1>14 DEF Kill, Return, WholeBeforeRead, Whole, vars, pipeVars, decodeVars, fileVars
<1>15. CASE EditorSaves
    BY <1>15 DEF EditorSaves, Return, WholeBeforeRead, Whole, vars, pipeVars, decodeVars, fileVars
<1>16. CASE UNCHANGED vars
    BY <1>16 DEF Return, WholeBeforeRead, Whole, vars, pipeVars, decodeVars, fileVars
<1>17. QED
    BY <1>1, <1>2, <1>3, <1>4, <1>5, <1>6, <1>7, <1>8, <1>9, <1>10, <1>11, <1>12, <1>13, <1>14, <1>15, <1>16 DEF Next, Work, Decode, WriteFileAtomic

LEMMA FullTextStep ==
    ASSUME FullText, Next \/ UNCHANGED vars
    PROVE  FullText'
<1>1. CASE Start
    BY <1>1 DEF Start, Return, FullText, Merge, vars, pipeVars, decodeVars, fileVars
<1>2. CASE ProducerWrite
    BY <1>2 DEF ProducerWrite, Return, FullText, Merge, vars, pipeVars, decodeVars, fileVars
<1>3. CASE ProducerExit
    BY <1>3 DEF ProducerExit, Return, FullText, Merge, vars, pipeVars, decodeVars, fileVars
<1>4. CASE DecodeLineStep
    BY <1>4 DEF DecodeLineStep, Return, FullText, Merge, vars, pipeVars, decodeVars, fileVars
<1>5. CASE DecodeFails
    BY <1>5 DEF DecodeFails, Return, FullText, Merge, vars, pipeVars, decodeVars, fileVars
<1>6. CASE DecodeEnds
    BY <1>6 DEF DecodeEnds, Return, FullText, Merge, vars, pipeVars, decodeVars, fileVars
<1>7. CASE Wait
    BY <1>7 DEF Wait, Return, FullText, Merge, vars, pipeVars, decodeVars, fileVars
<1>8. CASE ReadTarget
    <2>1. pc' = "create" =>
              out' = Applied(target, incoming).text /\ existing' = target /\ ~HasErrors(target)
        BY <1>8 DEF ReadTarget, Return, Applied
    <2>2. QED
        BY <1>8, <2>1 DEF ReadTarget, Return, FullText, Merge, decodeVars
<1>9. CASE CreateTemp
    BY <1>9 DEF CreateTemp, Return, FullText, Merge, vars, pipeVars, decodeVars, fileVars
<1>10. CASE WriteTemp
    BY <1>10 DEF WriteTemp, Return, FullText, Merge, vars, pipeVars, decodeVars, fileVars
<1>11. CASE Rename
    BY <1>11 DEF Rename, Return, FullText, Merge, vars, pipeVars, decodeVars, fileVars
<1>12. CASE RemoveTemp
    BY <1>12 DEF RemoveTemp, Return, FullText, Merge, vars, pipeVars, decodeVars, fileVars
<1>13. CASE CallFails
    BY <1>13 DEF CallFails, Return, FullText, Merge, vars, pipeVars, decodeVars, fileVars
<1>14. CASE Kill
    BY <1>14 DEF Kill, Return, FullText, Merge, vars, pipeVars, decodeVars, fileVars
<1>15. CASE EditorSaves
    BY <1>15 DEF EditorSaves, Return, FullText, Merge, vars, pipeVars, decodeVars, fileVars
<1>16. CASE UNCHANGED vars
    BY <1>16 DEF Return, FullText, Merge, vars, pipeVars, decodeVars, fileVars
<1>17. QED
    BY <1>1, <1>2, <1>3, <1>4, <1>5, <1>6, <1>7, <1>8, <1>9, <1>10, <1>11, <1>12, <1>13, <1>14, <1>15, <1>16 DEF Next, Work, Decode, WriteFileAtomic

LEMMA RememberingStep ==
    ASSUME TypeInv, Remembering, Next \/ UNCHANGED vars
    PROVE  Remembering'
<1> DEFINE same == UNCHANGED <<stream, read, incoming, byID, badLine>>
<1>1. ASSUME same
      PROVE  Remembering'
    BY <1>1 DEF Remembering
<1>2. CASE Start
    <2>1. badLine' = FALSE /\ read' = 0 /\ incoming' = << >> /\ byID' = << >>
        BY <1>2 DEF Start
    <2>2. Remembers(stream'.lines, 0, << >>, << >>, << >>)
        BY RemembersNone
    <2>3. Remembers(stream'.lines, read', << >>, incoming', byID')
        BY <2>1, <2>2
    <2>4. QED
        BY <2>3 DEF Remembering
<1>3. CASE DecodeLineStep
    <2>1. /\ Pipe # << >> /\ Remember(Head(Pipe)) /\ read' = read + 1
          /\ stream' = stream /\ badLine' = badLine
        BY <1>3 DEF DecodeLineStep
    <2>2. SUFFICES ASSUME ~badLine
                   PROVE  \E p : Remembers(stream.lines, read', p, incoming', byID')
        BY <2>1 DEF Remembering
    <2>3. PICK p : Remembers(stream.lines, read, p, incoming, byID)
        BY <2>2 DEF Remembering
    <2>4. PICK m \in 1..Len(stream.lines) : m = read + 1 /\ Head(Pipe) = stream.lines[m]
        BY <2>1, PipeIs DEF TypeInv
    <2>5. Len(stream.lines) \in Nat /\ read \in Nat
        BY PipeIs DEF TypeInv
    <2> DEFINE line == stream.lines[m]
               id == LineID(line)
    <2>6. IsSeq(incoming) /\ Len(incoming) = Len(p) /\ Nothing \notin DOMAIN byID
          /\ \A i \in DOMAIN byID : byID[i] \in 1..Len(incoming)
        BY <2>3 DEF Remembers
    <2>7. CASE id \in DOMAIN byID
        <3>1. incoming' = [incoming EXCEPT ![byID[id]] = DecodeLine(line)] /\ byID' = byID
            BY <2>1, <2>4, <2>6, <2>7 DEF Remember
        <3>2. byID[id] \in 1..Len(incoming)
            BY <2>6, <2>7
        <3>3. Len(incoming) \in Nat /\ DOMAIN incoming = 1..Len(incoming)
            BY <2>6, SeqFacts
        <3> DEFINE d == DecodeLine(line)
        <3> HIDE DEF d
        <3>4. /\ incoming' = [n \in 1..Len(incoming) |-> incoming'[n]]
              /\ \A n \in 1..Len(incoming) :
                     incoming'[n] = IF n = byID[id] THEN d ELSE incoming[n]
            <4>1. incoming' = [n \in 1..Len(incoming) |->
                                  IF n = byID[id] THEN d ELSE incoming[n]]
                BY <3>1, <3>2, <3>3 DEF d
            <4>2. QED
                BY <4>1
        <3>5. IsSeq(incoming') /\ Len(incoming') = Len(incoming)
            BY <3>3, <3>4, FcnIsSeq
        <3>6. \A n \in 1..Len(incoming) :
                  incoming'[n] = IF n = byID[LineID(stream.lines[m])] THEN DecodeLine(stream.lines[m])
                                 ELSE incoming[n]
            BY <3>4 DEF d
        <3>7. Remembers(stream.lines, m, p, incoming', byID)
            BY <2>3, <2>4, <2>5, <2>7, <3>5, <3>6, RemembersAgain
        <3>8. QED
            BY <2>1, <2>4, <3>1, <3>7
    <2>8. CASE id \notin DOMAIN byID
        <3>1. /\ incoming' = Append(incoming, DecodeLine(line))
              /\ IsMore(byID', byID, id, Len(incoming) + 1)
            BY <2>1, <2>4, <2>8 DEF Remember, IsMore
        <3>2. Remembers(stream.lines, m, Append(p, m), Append(incoming, DecodeLine(line)), byID')
            BY <2>3, <2>4, <2>5, <2>8, <3>1, RemembersMore
        <3>3. QED
            BY <2>1, <2>4, <3>1, <3>2
    <2>9. QED
        BY <2>7, <2>8
<1>4. CASE DecodeFails
    BY <1>4 DEF DecodeFails, Remembering
<1>5. CASE ProducerWrite \/ ProducerExit \/ DecodeEnds \/ Wait \/ ReadTarget
    <2>1. same
        BY <1>5 DEF ProducerWrite, ProducerExit, DecodeEnds, Wait, ReadTarget, pipeVars, decodeVars
    <2>2. QED
        BY <1>1, <2>1
<1>6. CASE WriteFileAtomic \/ CallFails
    <2>1. same
        BY <1>6 DEF WriteFileAtomic, CreateTemp, WriteTemp, Rename, RemoveTemp, CallFails,
                    pipeVars, decodeVars
    <2>2. QED
        BY <1>1, <2>1
<1>7. CASE Kill \/ EditorSaves \/ UNCHANGED vars
    <2>1. same
        BY <1>7 DEF Kill, EditorSaves, vars, pipeVars, decodeVars
    <2>2. QED
        BY <1>1, <2>1
<1>8. QED
    BY <1>2, <1>3, <1>4, <1>5, <1>6, <1>7 DEF Next, Work, Decode

(* What is merged can be written. *)
LEMMA IncomingWritable ==
    ASSUME TypeInv, Remembering, ~badLine
    PROVE  Writable(incoming)
<1>1. PICK p : Remembers(stream.lines, read, p, incoming, byID)
    BY DEF Remembering
<1>2. /\ stream.lines \in Seq(Lines) /\ Len(stream.lines) \in Nat
      /\ read \in Nat /\ read <= Len(stream.lines)
    BY PipeIs DEF TypeInv
<1>3. QED
    BY <1>1, <1>2, RememberedWritable

LEMMA ReadableStep ==
    ASSUME TypeInv, WholeBeforeRead, FullText, Remembering, Readable, Next \/ UNCHANGED vars
    PROVE  Readable'
<1> DEFINE same == UNCHANGED <<target, existing, out>>
<1>1. ASSUME same
      PROVE  Readable'
    BY <1>1 DEF Readable
<1>2. CASE Start
    <2>1. existing' = << >> /\ out' = << >> /\ target' = target
        BY <1>2 DEF Start, fileVars
    <2>2. QED
        BY <2>1, NoneIs DEF Readable
<1>3. CASE ReadTarget
    <2>1. ~badLine
        BY <1>3 DEF ReadTarget, WholeBeforeRead
    <2>2. \/ same
          \/ /\ ~HasErrors(target) /\ target' = target /\ existing' = target
             /\ out' = Applied(target, incoming).text
        BY <1>3 DEF ReadTarget, Applied, fileVars
    <2>3. ~HasErrors(target) => IsSeq(Applied(target, incoming).text)
        <3>1. Writable(incoming)
            BY <2>1, IncomingWritable
        <3>2. IsSeq(target)
            BY DEF Readable
        <3>3. QED
            BY <3>1, <3>2, AppliedIsSeq
    <2>4. QED
        BY <1>1, <2>2, <2>3 DEF Readable
<1>4. CASE Rename
    <2>1. target' = out /\ existing' = existing /\ out' = out
        BY <1>4 DEF Rename, FullText
    <2>2. QED
        BY <2>1 DEF Readable
<1>5. CASE EditorSaves
    <2>1. target' \in Texts /\ existing' = existing /\ out' = out
        BY <1>5 DEF EditorSaves
    <2>2. IsSeq(target')
        BY <2>1, IngestAssumption DEF IsSeq
    <2>3. QED
        BY <2>1, <2>2 DEF Readable
<1>6. CASE ProducerWrite \/ ProducerExit \/ Decode \/ Wait
    <2>1. same
        BY <1>6 DEF ProducerWrite, ProducerExit, Decode, DecodeLineStep, DecodeFails, DecodeEnds,
                    Wait, fileVars
    <2>2. QED
        BY <1>1, <2>1
<1>7. CASE CreateTemp \/ WriteTemp \/ RemoveTemp \/ CallFails \/ Kill \/ UNCHANGED vars
    <2>1. same
        BY <1>7 DEF CreateTemp, WriteTemp, RemoveTemp, CallFails, Kill, vars, fileVars
    <2>2. QED
        BY <1>1, <2>1
<1>8. QED
    BY <1>2, <1>3, <1>4, <1>5, <1>6, <1>7 DEF Next, Work, WriteFileAtomic

----------------------------------------------------------------------------
(* The inductive invariant holds in every reachable state. *)
THEOREM Invariance == Spec => []IngestInv
<1>1. Init => IngestInv
    <2>1. SUFFICES ASSUME Init
                   PROVE  IngestInv
        OBVIOUS
    <2>2. stream \in Stream /\ Len(stream.lines) = 0
        BY <2>1 DEF Init, Stream
    <2>3. incoming \in Seq(Decoded) /\ Len(incoming) = 0 /\ DOMAIN byID = {}
        BY <2>1 DEF Init
    <2>4. TypeInv
        <3>1. Len(Streams) \in Nat /\ Capacity \in Nat /\ MaxFaults \in Nat
            BY IngestAssumption
        <3>2. /\ Len(incoming) <= read
              /\ \A id \in DOMAIN byID : byID[id] \in 1..Len(incoming)
              /\ read <= written /\ written <= Len(stream.lines) /\ written <= read + Capacity
            BY <2>1, <2>2, <2>3, <3>1 DEF Init
        <3>3. /\ pc = "idle" /\ producer = "none" /\ outcome = "none"
              /\ written = 0 /\ read = 0 /\ badLine = FALSE /\ temp = << >>
              /\ runs = 0 /\ faults = 0 /\ strays = 0
            BY <2>1 DEF Init
        <3>4. 0 <= Len(Streams) /\ 0 <= MaxFaults
            BY <3>1
        <3>5. QED
            BY <2>2, <2>3, <3>2, <3>3, <3>4 DEF TypeInv
    <2>5. Remembering
        <3>1. Remembers(stream.lines, 0, << >>, << >>, << >>)
            BY RemembersNone
        <3>2. read = 0 /\ incoming = << >> /\ byID = << >>
            BY <2>1 DEF Init
        <3>3. QED
            BY <3>1, <3>2 DEF Remembering
    <2>6. Readable
        <3>1. existing = << >> /\ out = << >> /\ target \in Texts
            BY <2>1 DEF Init
        <3>2. IsSeq(target)
            BY <3>1, IngestAssumption DEF IsSeq
        <3>3. QED
            BY <3>1, <3>2, NoneIs DEF Readable
    <2>7. QED
        BY <2>1, <2>4, <2>5, <2>6 DEF Init, IngestInv, TempOfWrite, ProducerHonest, GoodSoFar,
                          WholeBeforeRead, FullText
<1>2. IngestInv /\ [Next]_vars => IngestInv'
    BY TypeStep, TempOfWriteStep, ProducerHonestStep, GoodSoFarStep, WholeBeforeReadStep,
       FullTextStep, RememberingStep, ReadableStep DEF IngestInv
<1>3. QED
    BY <1>1, <1>2, PTL DEF Spec

(* The pipe never holds more than it can, the decoder is never ahead of    *)
(* the producer, and there are no more stray files than kills.             *)
THEOREM TypeCorrect == Spec => []TypeOK
<1>1. IngestInv => TypeOK
    <2>1. SUFFICES ASSUME TypeInv
                   PROVE  TypeOK
        BY DEF IngestInv
    <2>2. Len(Pipe) <= Capacity
        BY <2>1, PipeIs, IngestAssumption DEF TypeInv
    <2>3. Len(temp) <= 1
        BY <2>1 DEF TypeInv
    <2>4. QED
        BY <2>1, <2>2, <2>3, PipeIs, IngestAssumption DEF TypeInv, TypeOK
<1>2. QED
    BY <1>1, Invariance, PTL

(* A run that was not killed leaves no temporary file behind, wherever one *)
(* of its calls fails.                                                     *)
THEOREM NothingLeftBehind == Spec => []NoTempLeft
<1>1. IngestInv => NoTempLeft
    BY DEF IngestInv, TempOfWrite, NoTempLeft
<1>2. QED
    BY <1>1, Invariance, PTL

(* The journal changes only when an editor saves it, or at once to the     *)
(* full merge of the text read with a stream of which every line was read  *)
(* and is a directive and whose producer succeeded (main.go:587).          *)
OnlyMerges == [][target' # target => EditorSaves \/ (Whole /\ target' = Merge)]_vars

THEOREM AllOrNothing == Spec => OnlyMerges
<1>1. ASSUME IngestInv, [Next]_vars
      PROVE  target' # target => EditorSaves \/ (Whole /\ target' = Merge)
    <2>1. SUFFICES ASSUME target' # target
                   PROVE  EditorSaves \/ (Whole /\ target' = Merge)
        OBVIOUS
    <2>2. CASE Rename
        <3>1. pc = "rename" /\ target' = temp[1]
            BY <2>2 DEF Rename
        <3>2. Whole /\ temp = <<Merge>>
            BY <1>1, <3>1 DEF IngestInv, WholeBeforeRead, FullText
        <3>3. QED
            BY <3>1, <3>2
    <2>3. CASE ~Rename
        BY <1>1, <2>1, <2>3 DEF Next, Work, Decode, WriteFileAtomic, Start, ProducerWrite,
           ProducerExit, DecodeLineStep, DecodeFails, DecodeEnds, Wait, ReadTarget, CreateTemp,
           WriteTemp, RemoveTemp, CallFails, Kill, vars, pipeVars, decodeVars, fileVars
    <2>4. QED
        BY <2>2, <2>3
<1>2. QED
    BY <1>1, Invariance, PTL DEF Spec, OnlyMerges

----------------------------------------------------------------------------
(* Ingest implements Upsert *)

(* The empty text has no block. *)
LEMMA NoBlocks == Blocks(<< >>) = << >>
<1>1. Cuts(<< >>, << >>, [i \in 0..0 |-> 0])
    BY NoneIs DEF Cuts, Laid
<1>2. QED
    BY <1>1, BlocksAre

(* The stream and the phase that Upsert sees. *)
Request == [lines |-> stream.lines, sound |-> stream.exit = "succeeded"]

Phase == CASE pc \in {"decode", "wait", "read"} -> "begun"
           [] pc \in {"create", "write", "rename"} -> "looked"
           [] OTHER -> "idle"

LEMMA PhaseIs ==
    /\ pc \in {"decode", "wait", "read"} => Phase = "begun"
    /\ pc \in {"create", "write", "rename"} => Phase = "looked"
    /\ pc \in {"idle", "remove"} => Phase = "idle"
BY DEF Phase

(* Every action of ingest is one of Upsert, or none. *)
LEMMA StartBegins ==
    ASSUME TypeInv, Start
    PROVE  Promise!Begin
<1>1. PICK lines \in Streams[runs + 1], command \in BOOLEAN, exit \in {"succeeded", "failed"} :
          stream' = [lines |-> lines, command |-> command, exit |-> exit]
    BY DEF Start
<1>2. /\ pc = "idle" /\ pc' = "decode" /\ existing' = << >> /\ target' = target
      /\ runs < Len(Streams) /\ runs \in Nat
    BY DEF Start, fileVars, TypeInv
<1>3. lines \in UNION ToSet(Streams)
    <2>1. Streams \in Seq(SUBSET Seq(Lines)) /\ runs + 1 \in 1..Len(Streams)
        BY <1>2, IngestAssumption
    <2>2. Streams[runs + 1] \in ToSet(Streams)
        BY <2>1 DEF ToSet
    <2>3. QED
        BY <2>2
<1>4. stream'.lines = lines /\ stream'.exit = exit
    BY <1>1
<1>5. Request' = [lines |-> lines, sound |-> exit = "succeeded"]
    BY <1>4 DEF Request
<1>6. Request' \in [lines : UNION ToSet(Streams), sound : BOOLEAN]
    BY <1>3, <1>5
<1>7. Phase = "idle" /\ Phase' = "begun"
    BY <1>2 DEF Phase
<1>8. Blocks(existing)' = << >> /\ Blocks(target)' = Blocks(target)
    BY <1>2, NoBlocks
<1>9. QED
    BY <1>6, <1>7, <1>8 DEF Promise!Begin, Request, Phase

(* A step that leaves the file, what was seen of it and the stream alone. *)
Quiet == UNCHANGED <<target, existing, stream>>

LEMMA QuietStutters ==
    ASSUME Quiet, Phase' = Phase
    PROVE  UNCHANGED Promise!vars
<1>1. /\ Blocks(target)' = Blocks(target) /\ Blocks(existing)' = Blocks(existing)
      /\ Request' = Request
    BY DEF Quiet, Request
<1>2. QED
    BY <1>1 DEF Promise!vars, Request, Phase

LEMMA QuietAbandons ==
    ASSUME Quiet, Phase # "idle", Phase' = "idle"
    PROVE  Promise!Abandon
<1>1. /\ Blocks(target)' = Blocks(target) /\ Blocks(existing)' = Blocks(existing)
      /\ Request' = Request
    BY DEF Quiet, Request
<1>2. QED
    BY <1>1 DEF Promise!Abandon, Request, Phase

LEMMA EditorEdits ==
    ASSUME EditorSaves
    PROVE  Promise!Edit
<1>1. target' \in Texts /\ UNCHANGED <<existing, stream, pc>>
    BY DEF EditorSaves, pipeVars
<1>2. Blocks(target)' \in {Blocks(text) : text \in Texts}
    BY <1>1
<1>3. Blocks(existing)' = Blocks(existing) /\ Request' = Request /\ Phase' = Phase
    BY <1>1 DEF Request, Phase
<1>4. QED
    BY <1>2, <1>3 DEF Promise!Edit, Request, Phase

LEMMA ReadTargetLooks ==
    ASSUME ReadTarget
    PROVE  Promise!Look \/ Promise!Abandon
<1>1. /\ pc = "read" /\ UNCHANGED <<target, stream>>
      /\ \/ pc' = "create" /\ existing' = target
         \/ pc' = "idle" /\ existing' = existing
    BY DEF ReadTarget, Return, fileVars, pipeVars
<1>2. CASE pc' = "create" /\ existing' = target
    <2>1. Phase = "begun" /\ Phase' = "looked"
        BY <1>1, <1>2 DEF Phase
    <2>2. Blocks(existing)' = Blocks(target) /\ Blocks(target)' = Blocks(target)
          /\ Request' = Request
        BY <1>1, <1>2 DEF Request
    <2>3. Promise!Look
        BY <2>1, <2>2 DEF Promise!Look, Request, Phase
    <2>4. QED
        BY <2>3
<1>3. CASE pc' = "idle" /\ existing' = existing
    <2>1. Phase = "begun" /\ Phase' = "idle" /\ Quiet
        BY <1>1, <1>3 DEF Phase, Quiet
    <2>2. QED
        BY <2>1, QuietAbandons
<1>4. QED
    BY <1>1, <1>2, <1>3

(* What is in memory of a whole stream is what the promise merges. *)
LEMMA IncomingIs ==
    ASSUME IngestInv, Whole, ~badLine
    PROVE  incoming = Promise!Latest(stream.lines)
<1>1. PICK p : Remembers(stream.lines, read, p, incoming, byID)
    BY DEF IngestInv, Remembering
<1>2. read = Len(stream.lines)
    BY DEF Whole
<1>3. IsSeq(stream.lines)
    BY PipeIs, IsSeqOf DEF IngestInv
<1>4. Remembers(stream.lines, Len(stream.lines), p, incoming, byID)
    BY <1>1, <1>2
<1>5. QED
    BY <1>3, <1>4, LatestIs

(* The rename is the commit: what is put in place is the merge of the      *)
(* whole stream.                                                           *)
LEMMA RenameCommits ==
    ASSUME IngestInv, Rename
    PROVE  Promise!Commit
<1>1. /\ pc = "rename" /\ pc' = "remove" /\ target' = out
      /\ UNCHANGED <<existing, stream>>
    BY DEF Rename, IngestInv, FullText, pipeVars
<1>2. Phase = "looked" /\ Phase' = "idle"
    BY <1>1 DEF Phase
<1>3. Whole /\ ~badLine /\ out = Applied(existing, incoming).text /\ ~HasErrors(existing)
    BY <1>1 DEF IngestInv, WholeBeforeRead, FullText, Merge
<1>4. Request.sound /\ Request.lines = stream.lines
    BY <1>3 DEF Whole, Request
<1>5. \A i \in DOMAIN stream.lines : LineOk(stream.lines[i])
    BY <1>3 DEF Whole
<1>6. IsSeq(existing)
    BY DEF IngestInv, Readable
<1>7. Writable(incoming)
    BY <1>3, IncomingWritable DEF IngestInv
<1>8. incoming = Promise!Latest(stream.lines)
    BY <1>3, IncomingIs
<1>9. Promise!KeysApart(incoming) => Blocks(out) = Promise!Merged(Blocks(existing), incoming)
    <2>1. ASSUME Promise!KeysApart(incoming)
          PROVE  KeysApart(incoming)
        BY Zenon, <2>1 DEF Promise!KeysApart, KeysApart
    <2>2. ASSUME KeysApart(incoming)
          PROVE  Blocks(Applied(existing, incoming).text) = Promise!Merged(Blocks(existing), incoming)
        BY <1>3, <1>6, <1>7, <2>2, AppliedMerges
    <2>3. QED
        BY <1>3, <2>1, <2>2
<1>10. /\ Blocks(target)' = Blocks(out) /\ Blocks(existing)' = Blocks(existing)
       /\ Request' = Request
    BY <1>1 DEF Request
<1>11. \E seen \in {Blocks(existing)}, ds \in {Promise!Latest(Request.lines)} :
          Promise!KeysApart(ds) => Blocks(target)' = Promise!Merged(seen, ds)
    <2>1. incoming \in {Promise!Latest(Request.lines)}
        BY <1>4, <1>8
    <2>2. QED
        BY <1>9, <1>10, <2>1
<1>12. \A i \in DOMAIN Request.lines : LineOk(Request.lines[i])
    BY <1>4, <1>5
<1>13. QED
    BY <1>2, <1>4, <1>10, <1>11, <1>12 DEF Promise!Commit, Request, Phase

LEMMA StepPromised ==
    ASSUME IngestInv, Next \/ UNCHANGED vars
    PROVE  Promise!Next \/ UNCHANGED Promise!vars
<1>1. CASE Start
    BY <1>1, StartBegins DEF IngestInv, Promise!Next
<1>2. CASE EditorSaves
    BY <1>2, EditorEdits DEF Promise!Next
<1>3. CASE ReadTarget
    BY <1>3, ReadTargetLooks DEF Promise!Next
<1>4. CASE Rename
    BY <1>4, RenameCommits DEF Promise!Next
<1>5. CASE ProducerWrite \/ ProducerExit \/ DecodeLineStep \/ DecodeEnds \/ UNCHANGED vars
    <2>1. Quiet
        BY <1>5 DEF ProducerWrite, ProducerExit, DecodeLineStep, DecodeEnds, Quiet, vars,
                    pipeVars, fileVars
    <2>2. pc' = pc \/ (pc = "decode" /\ pc' \in {"wait", "read"})
        BY <1>5 DEF ProducerWrite, ProducerExit, DecodeLineStep, DecodeEnds, vars
    <2>3. Phase' = Phase
        BY <2>2 DEF Phase
    <2>4. QED
        BY <2>1, <2>3, QuietStutters
<1>6. CASE CreateTemp \/ WriteTemp \/ RemoveTemp
    <2>1. Quiet
        BY <1>6 DEF CreateTemp, WriteTemp, RemoveTemp, Quiet, pipeVars
    <2>2. \/ pc = "create" /\ pc' = "write"
          \/ pc = "write" /\ pc' = "rename"
          \/ pc = "remove" /\ pc' = "idle"
        BY <1>6 DEF CreateTemp, WriteTemp, RemoveTemp
    <2>3. Phase' = Phase
        BY <2>2 DEF Phase
    <2>4. QED
        BY <2>1, <2>3, QuietStutters
<1>7. CASE DecodeFails \/ Wait
    <2>1. Quiet
        BY <1>7 DEF DecodeFails, Wait, Quiet, pipeVars, fileVars
    <2>2. pc \in {"decode", "wait"} /\ pc' \in {"idle", "wait", "read"}
        BY <1>7 DEF DecodeFails, Wait, Return
    <2>3. Phase # "idle" /\ (Phase' = Phase \/ Phase' = "idle")
        BY <2>2 DEF Phase
    <2>4. QED
        BY <2>1, <2>3, QuietStutters, QuietAbandons DEF Promise!Next
<1>8. CASE CallFails \/ Kill
    <2>1. Quiet
        BY <1>8 DEF CallFails, Kill, Quiet, pipeVars
    <2>2. pc' \in {"idle", "remove"}
        BY <1>8 DEF CallFails, Kill, Return
    <2>3. Phase' = "idle"
        BY <2>2 DEF Phase
    <2>4. QED
        BY <2>1, <2>3, QuietStutters, QuietAbandons DEF Promise!Next
<1>9. QED
    BY <1>1, <1>2, <1>3, <1>4, <1>5, <1>6, <1>7, <1>8 DEF Next, Work, Decode, WriteFileAtomic

(* What ingest promises of the journal, it keeps, for every journal, every *)
(* stream and any failures: as far as its blocks go, the file is the one   *)
(* that was there, what an editor saved, or the merge of the whole stream  *)
(* of a producer that succeeded with the text that was read; each id keeps *)
(* its place and its last value counts (SPEC.md:64, main.go:587).          *)
THEOREM Upserts == Spec => Implements
<1>1. Init => Promise!Init
    <2>1. SUFFICES ASSUME Init
                   PROVE  Promise!Init
        OBVIOUS
    <2>2. /\ target \in Texts /\ existing = << >> /\ pc = "idle"
          /\ stream = [lines |-> << >>, command |-> FALSE, exit |-> "succeeded"]
        BY <2>1 DEF Init
    <2>3. Request = [lines |-> << >>, sound |-> TRUE] /\ Phase = "idle"
        BY <2>2 DEF Request, Phase
    <2>4. Blocks(target) \in {Blocks(text) : text \in Texts} /\ Blocks(existing) = << >>
        BY <2>2, NoBlocks
    <2>5. QED
        BY <2>3, <2>4 DEF Promise!Init, Request, Phase
<1>2. IngestInv /\ [Next]_vars => [Promise!Next]_(Promise!vars)
    BY StepPromised
<1>3. QED
    BY <1>1, <1>2, Invariance, PTL DEF Spec, Implements, Promise!Spec
----------------------------------------------------------------------------
(* What is written reads back *)

LEMMA IncomingDirectives ==
    ASSUME TypeInv
    PROVE  /\ IsSeq(incoming) /\ DOMAIN incoming = 1..Len(incoming)
           /\ \A n \in 1..Len(incoming) :
                  IsDirective(incoming[n]) /\ \E line \in Lines : incoming[n] = DecodeLine(line)
<1>1. incoming \in Seq(Decoded)
    BY DEF TypeInv
<1>2. IsSeq(incoming) /\ DOMAIN incoming = 1..Len(incoming)
    BY <1>1, IsSeqOf, SeqFacts
<1>3. ASSUME NEW n \in 1..Len(incoming)
      PROVE  IsDirective(incoming[n]) /\ \E line \in Lines : incoming[n] = DecodeLine(line)
    <2>1. incoming[n] \in Decoded
        BY <1>1
    <2>2. PICK line \in Lines : line.type \in DOMAIN Shape /\ incoming[n] = DecodeLine(line)
        BY <2>1 DEF Decoded
    <2>3. IsDirective(DecodeLine(line))
        BY <2>2, IngestAssumption, DecodedDirective
    <2>4. QED
        BY <2>2, <2>3
<1>4. QED
    BY <1>2, <1>3

(* Every directive that is going to be written reads back as the directive *)
(* it stands for, and as nothing else, whatever its arguments, postings,   *)
(* costs, prices and metadata are, where the text has no syntax error      *)
(* (format.go:14, parser.go:73).                                           *)
THEOREM ReadsBackAlways == Spec => []ReadsBack
<1>1. IngestInv => ReadsBack
    <2>1. SUFFICES ASSUME IngestInv, NEW d \in ToSet(incoming)
                   PROVE  LET text == FormatDirective(d)
                          IN  Parse(text) = <<[d |-> Written(d), start |-> 0, end |-> Len(text)]>>
        BY Zenon DEF ReadsBack
    <2>2. PICK n \in 1..Len(incoming) : d = incoming[n]
        BY <2>1, IncomingDirectives DEF IngestInv, ToSet
    <2>3. IsDirective(d)
        BY <2>1, <2>2, IncomingDirectives DEF IngestInv
    <2>4. QED
        BY <2>3, ParseBack
<1>2. QED
    BY <1>1, Invariance, PTL

----------------------------------------------------------------------------
(* No id twice *)

(* Where every text and every stream has each id once, so have the journal *)
(* and what was read of it.                                                *)
ApartInv ==
    /\ pc # "idle" => stream.lines \in UNION ToSet(Streams)
    /\ IdsApart(target)
    /\ pc \in {"create", "write", "rename"} => IdsApart(existing)

LEMMA IncomingPlainly ==
    ASSUME GivenApart, TypeInv
    PROVE  Plainly(incoming)
<1>1. \A line \in Lines : IngestID(DecodeLine(line)).word \in Plain
    BY Zenon DEF GivenApart
<1>2. QED
    BY Zenon, <1>1, IncomingDirectives DEF Plainly

LEMMA RenameApart ==
    ASSUME GivenApart, IngestInv, ApartInv, Rename
    PROVE  IdsApart(target')
<1>1. pc = "rename" /\ target' = out
    BY DEF Rename, IngestInv, FullText
<1>2. Whole /\ ~badLine /\ out = Applied(existing, incoming).text /\ ~HasErrors(existing)
    BY <1>1 DEF IngestInv, WholeBeforeRead, FullText, Merge
<1>3. IsSeq(existing) /\ IdsApart(existing) /\ stream.lines \in UNION ToSet(Streams)
    BY <1>1 DEF IngestInv, Readable, ApartInv
<1>4. Plainly(incoming) /\ Writable(incoming)
    BY IncomingPlainly, PlainlyWritable DEF IngestInv
<1>5. KeysApart(incoming)
    <2>1. Promise!KeysApart(Promise!Latest(stream.lines))
        BY Zenon, <1>3 DEF GivenApart
    <2>2. incoming = Promise!Latest(stream.lines)
        BY <1>2, IncomingIs
    <2>3. Promise!KeysApart(incoming)
        BY Zenon, <2>1, <2>2
    <2>4. QED
        BY Zenon, <2>3 DEF Promise!KeysApart, KeysApart
<1>6. PICK o : Cuts(existing, Blocks(existing), o)
    BY <1>2, <1>3, BlocksCut
<1>7. IsSeq(Blocks(existing)) /\ BlocksApart(Blocks(existing))
    BY <1>3, <1>6, ApartBlocks DEF Cuts, Laid
<1>8. BlocksApart(Promise!Merged(Blocks(existing), incoming))
    BY <1>4, <1>5, <1>7, MergedApart
<1>9. PICK q : Cuts(out, Promise!Merged(Blocks(existing), incoming), q)
    BY <1>2, <1>3, <1>4, <1>5, AppliedMerges
<1>10. IdsApart(out)
    BY <1>8, <1>9, ApartBlocks
<1>11. QED
    BY <1>1, <1>10

LEMMA ApartStep ==
    ASSUME GivenApart, IngestInv, ApartInv, Next \/ UNCHANGED vars
    PROVE  ApartInv'
<1> DEFINE same == UNCHANGED <<target, existing, stream>>
<1>1. ASSUME same, pc' = "idle" \/ pc # "idle",
             pc' \in {"create", "write", "rename"} => pc \in {"create", "write", "rename"}
      PROVE  ApartInv'
    BY <1>1 DEF ApartInv
<1>2. CASE Start
    <2>1. PICK lines \in Streams[runs + 1], command \in BOOLEAN, exit \in {"succeeded", "failed"} :
              stream' = [lines |-> lines, command |-> command, exit |-> exit]
        BY <1>2 DEF Start
    <2>2. runs + 1 \in DOMAIN Streams /\ pc' = "decode" /\ target' = target
        BY <1>2, IngestAssumption DEF Start, IngestInv, TypeInv, fileVars
    <2>3. stream'.lines \in UNION ToSet(Streams)
        BY <2>1, <2>2 DEF ToSet
    <2>4. QED
        BY <2>2, <2>3 DEF ApartInv
<1>3. CASE ReadTarget
    <2>1. /\ pc = "read" /\ UNCHANGED <<target, stream>>
          /\ \/ pc' = "create" /\ existing' = target
             \/ pc' = "idle" /\ existing' = existing
        BY <1>3 DEF ReadTarget, Return, fileVars, pipeVars
    <2>2. QED
        BY <2>1 DEF ApartInv
<1>4. CASE Rename
    <2>1. IdsApart(target') /\ pc = "rename" /\ pc' = "remove" /\ stream' = stream
        BY <1>4, RenameApart DEF Rename, pipeVars
    <2>2. QED
        BY <2>1 DEF ApartInv
<1>5. CASE EditorSaves
    <2>1. target' \in Texts /\ UNCHANGED <<existing, stream, pc>>
        BY <1>5 DEF EditorSaves, pipeVars
    <2>2. IdsApart(target')
        BY Zenon, <2>1 DEF GivenApart
    <2>3. QED
        BY <2>1, <2>2 DEF ApartInv
<1>6. CASE ProducerWrite \/ ProducerExit \/ Decode \/ Wait
    <2>1. same
        BY <1>6 DEF ProducerWrite, ProducerExit, Decode, DecodeLineStep, DecodeFails, DecodeEnds,
                    Wait, pipeVars, fileVars
    <2>2. pc' = pc \/ (pc \in {"decode", "wait"} /\ pc' \in {"idle", "wait", "read"})
        BY <1>6 DEF ProducerWrite, ProducerExit, Decode, DecodeLineStep, DecodeFails, DecodeEnds,
                    Wait, Return
    <2>3. QED
        BY <1>1, <2>1, <2>2
<1>7. CASE CreateTemp \/ WriteTemp \/ RemoveTemp
    <2>1. same
        BY <1>7 DEF CreateTemp, WriteTemp, RemoveTemp, pipeVars
    <2>2. \/ pc = "create" /\ pc' = "write"
          \/ pc = "write" /\ pc' = "rename"
          \/ pc = "remove" /\ pc' = "idle"
        BY <1>7 DEF CreateTemp, WriteTemp, RemoveTemp
    <2>3. QED
        BY <1>1, <2>1, <2>2
<1>8. CASE CallFails \/ Kill \/ UNCHANGED vars
    <2>1. same
        BY <1>8 DEF CallFails, Kill, vars, pipeVars, fileVars
    <2>2. pc' = pc \/ pc' = "idle" \/ (pc # "idle" /\ pc' = "remove")
        BY <1>8 DEF CallFails, Kill, Return, vars
    <2>3. QED
        BY <1>1, <2>1, <2>2
<1>9. QED
    BY <1>2, <1>3, <1>4, <1>5, <1>6, <1>7, <1>8 DEF Next, Work, WriteFileAtomic

(* Where no user writes an id twice, no stream asks for one id by two      *)
(* directives and no id needs an escape, the journal never has two         *)
(* directives of one ingest_id, however often a stream is sent, whoever    *)
(* edits the journal meanwhile and whatever fails (SPEC.md:64).            *)
THEOREM IdsStayApart == ASSUME GivenApart PROVE Spec => []IdsUnique
<1>1. Init => ApartInv
    <2>1. SUFFICES ASSUME Init
                   PROVE  ApartInv
        OBVIOUS
    <2>2. target \in Texts /\ pc = "idle"
        BY <2>1 DEF Init
    <2>3. IdsApart(target)
        BY Zenon, <2>2 DEF GivenApart
    <2>4. QED
        BY <2>2, <2>3 DEF ApartInv
<1>2. IngestInv /\ ApartInv /\ [Next]_vars => ApartInv'
    BY ApartStep
<1>3. ApartInv => IdsUnique
    BY DEF ApartInv, IdsUnique
<1>4. QED
    BY <1>1, <1>2, <1>3, Invariance, PTL DEF Spec
=============================================================================
