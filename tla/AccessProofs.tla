---------------------------- MODULE AccessProofs ----------------------------
(***************************************************************************)
(* What the decisions on filters mean for every filter and topic, and what *)
(* the handshake promises for any configurations, users, requests and      *)
(* connections.                                                            *)
(***************************************************************************)
EXTENDS Access, FiniteSetTheorems, SequenceTheorems, WellFoundedInduction, TLAPS

(***************************************************************************)
(* The levels of a string.                                                 *)
(***************************************************************************)

Less == {p \in Nat \X Nat : p[1] < p[2]}

\* There is no infinite descent in the natural numbers,
LEMMA LessWellFounded == IsWellFoundedOn(Less, Nat)
<1>1. IsWellFoundedOn(OpToRel(<, Nat), Nat)
  BY NatLessThanWellFounded
<1>2. OpToRel(<, Nat) = Less
  BY Zenon DEF OpToRel, Less
<1> QED  BY <1>1, <1>2, Zenon

\* so a non-empty set of them has a least element.
LEMMA Least ==
  ASSUME NEW T \in SUBSET Nat, T # {}
  PROVE  \E n \in T : \A m \in T : n <= m
<1>1. PICK n \in T : \A m \in T : ~(<<m, n>> \in Less)
  BY LessWellFounded, WFMin, Zenon
<1>2. ASSUME NEW m \in T PROVE n <= m
  <2>1. m \in Nat /\ n \in Nat
    OBVIOUS
  <2>2. <<m, n>> \in Nat \X Nat /\ <<m, n>>[1] = m /\ <<m, n>>[2] = n
    BY <2>1
  <2>3. ~(m < n)
    BY <1>1, <2>2, Zenon DEF Less
  <2> QED  BY <2>1, <2>3
<1> QED  BY <1>2

\* Separator finds the first "/" from idx on, or the end of the string,
LEMMA SeparatorFound ==
  ASSUME NEW C, NEW s \in Seq(C), NEW idx \in 1..(Len(s) + 1)
  PROVE  LET n == Separator(s, idx)
         IN  /\ n \in idx..(Len(s) + 1)
             /\ n = Len(s) + 1 \/ s[n] = "/"
             /\ \A k \in idx..(n - 1) : s[k] # "/"
<1> DEFINE T == {n \in idx..(Len(s) + 1) : n = Len(s) + 1 \/ s[n] = "/"}
<1>1. Len(s) \in Nat
  OBVIOUS
<1>2. T \in SUBSET Nat /\ Len(s) + 1 \in T
  BY <1>1
<1>3. PICK n \in T : \A m \in T : n <= m
  BY <1>2, Least, Zenon
<1>4. \A k \in idx..(n - 1) : s[k] # "/"
  BY <1>1, <1>3
<1>5. n \in idx..(Len(s) + 1) /\ (n = Len(s) + 1 \/ s[n] = "/")
  OBVIOUS
<1> QED  BY <1>4, <1>5, Zenon DEF Separator

\* and is the only such index.
LEMMA SeparatorIs ==
  ASSUME NEW C, NEW s \in Seq(C), NEW idx \in 1..(Len(s) + 1), NEW n \in idx..(Len(s) + 1),
         n = Len(s) + 1 \/ s[n] = "/", \A k \in idx..(n - 1) : s[k] # "/"
  PROVE  Separator(s, idx) = n
<1> DEFINE m == Separator(s, idx)
<1>1. /\ m \in idx..(Len(s) + 1)
      /\ m = Len(s) + 1 \/ s[m] = "/"
      /\ \A k \in idx..(m - 1) : s[k] # "/"
  BY SeparatorFound, Zenon
<1>2. Len(s) \in Nat
  OBVIOUS
<1> HIDE DEF m
<1>3. ~(m < n) /\ ~(n < m)
  BY <1>1, <1>2
<1>4. m = n
  BY <1>1, <1>2, <1>3
<1> QED  BY <1>4 DEF m

\* A string has finitely many levels, the first of which begins at 1.
LEMMA StartsFinite ==
  ASSUME NEW C, NEW s \in Seq(C)
  PROVE  /\ IsFiniteSet(Starts(s)) /\ Starts(s) \in SUBSET Nat
         /\ 1 \in Starts(s) /\ \A i \in Starts(s) : i \in 1..(Len(s) + 1)
         /\ Cardinality(Starts(s)) \in Nat \ {0}
<1>1. Len(s) \in Nat
  OBVIOUS
<1>2. Starts(s) \in SUBSET (1..(Len(s) + 1)) /\ 1 \in Starts(s)
  BY <1>1 DEF Starts
<1>3. IsFiniteSet(1..(Len(s) + 1))
  BY <1>1, FS_Interval
<1>4. IsFiniteSet(Starts(s))
  BY <1>2, <1>3, FS_Subset, Zenon
<1>5. Cardinality(Starts(s)) \in Nat /\ Cardinality(Starts(s)) # 0
  BY <1>2, <1>4, FS_CardinalityType, FS_EmptySet, Zenon
<1>6. Starts(s) \in SUBSET Nat
  BY <1>1, <1>2
<1> QED  BY <1>2, <1>4, <1>5, <1>6

\* The starts before a start.
Before(s, i) == {j \in Starts(s) : j < i}

\* Fewer levels begin before an earlier start than before a later one,
LEMMA BeforeLess ==
  ASSUME NEW C, NEW s \in Seq(C), NEW i \in Starts(s), NEW j \in Starts(s), i < j
  PROVE  Cardinality(Before(s, i)) # Cardinality(Before(s, j))
<1>1. i \in Nat /\ j \in Nat /\ Starts(s) \in SUBSET Nat
  BY StartsFinite
<1>2. Before(s, j) \in SUBSET Starts(s) /\ IsFiniteSet(Starts(s))
  BY StartsFinite, Zenon DEF Before
<1>3. IsFiniteSet(Before(s, j))
  BY <1>2, FS_Subset, Zenon
<1>4. Before(s, i) \in SUBSET Before(s, j)
  BY <1>1 DEF Before
<1>5. i \in Before(s, j) /\ i \notin Before(s, i)
  BY <1>1 DEF Before
<1> QED  BY <1>3, <1>4, <1>5, FS_Subset, Zenon

\* so the level that begins at a start is the one counted by the earlier ones.
LEMMA LevelAt ==
  ASSUME NEW C, NEW s \in Seq(C), NEW i \in Starts(s), NEW k \in Nat,
         Cardinality(Before(s, i)) = k - 1
  PROVE  k \in 1..Cardinality(Starts(s)) /\ Split(s)[k] = Level(s, i)
<1>1. /\ IsFiniteSet(Starts(s)) /\ Starts(s) \in SUBSET Nat
      /\ Cardinality(Starts(s)) \in Nat
  BY StartsFinite, Zenon
<1>2. Before(s, i) \in SUBSET Starts(s) /\ i \notin Before(s, i)
  BY <1>1 DEF Before
<1>3. /\ Cardinality(Before(s, i)) \in Nat
      /\ Cardinality(Before(s, i)) <= Cardinality(Starts(s))
      /\ Cardinality(Before(s, i)) # Cardinality(Starts(s))
  BY <1>1, <1>2, FS_Subset, FS_CardinalityType, Zenon
<1>4. k \in 1..Cardinality(Starts(s))
  BY <1>1, <1>3
<1>5. \A j \in Starts(s) : Cardinality(Before(s, j)) = k - 1 => j = i
  <2>1. TAKE j \in Starts(s)
  <2>2. HAVE Cardinality(Before(s, j)) = k - 1
  <2>3. ~(i < j) /\ ~(j < i)
    BY <2>2, BeforeLess, Zenon
  <2>4. i \in Nat /\ j \in Nat
    BY <1>1
  <2> QED  BY <2>3, <2>4
<1>6. (CHOOSE j \in Starts(s) : Cardinality(Before(s, j)) = k - 1) = i
  BY <1>5, Zenon
<1>7. Split(s)[k] = Level(s, i)
  BY <1>4, <1>6, Zenon DEF Split, Before
<1> QED  BY <1>4, <1>7

\* Every level begins at some start.
LEMMA StartOf ==
  ASSUME NEW C, NEW s \in Seq(C), NEW k \in 1..Cardinality(Starts(s))
  PROVE  \E i \in Starts(s) : Cardinality(Before(s, i)) = k - 1
<1> DEFINE n == Cardinality(Starts(s))
           T == 1..n
           f == [i \in Starts(s) |-> Cardinality(Before(s, i)) + 1]
<1>1. /\ IsFiniteSet(Starts(s)) /\ Starts(s) \in SUBSET Nat /\ n \in Nat
  BY StartsFinite, Zenon
<1>2. \A i \in Starts(s) : Cardinality(Before(s, i)) \in Nat
  <2>1. TAKE i \in Starts(s)
  <2>2. Before(s, i) \in SUBSET Starts(s)
    BY DEF Before
  <2> QED  BY <1>1, <2>2, FS_Subset, FS_CardinalityType, Zenon
<1>3. \A i \in Starts(s) : f[i] \in T
  <2>1. TAKE i \in Starts(s)
  <2>2. f[i] \in Nat /\ Cardinality(Before(s, i)) = f[i] - 1
    BY <1>2
  <2> HIDE DEF f
  <2> QED  BY <2>2, LevelAt, Zenon
<1>4. \A i, j \in Starts(s) : f[i] = f[j] => i = j
  <2>1. TAKE i, j \in Starts(s)
  <2>2. HAVE f[i] = f[j]
  <2>3. Cardinality(Before(s, i)) = Cardinality(Before(s, j))
    BY <1>2, <2>2
  <2>4. ~(i < j) /\ ~(j < i)
    BY <2>3, BeforeLess, Zenon
  <2>5. i \in Nat /\ j \in Nat
    BY <1>1
  <2> QED  BY <2>4, <2>5
<1>5. DOMAIN f = Starts(s) /\ f \in [Starts(s) -> T]
  BY <1>3, Zenon
<1>6. f \in Injection(Starts(s), T)
  BY <1>4, <1>5, Zenon DEF Injection, IsInjective
<1>7. IsFiniteSet(T) /\ Cardinality(T) = n
  BY <1>1, FS_Interval
<1>8. f \in Surjection(Starts(s), T)
  BY <1>6, <1>7, FS_Injection, Zenon
<1>9. PICK i \in Starts(s) : f[i] = k
  BY <1>8, Zenon DEF Surjection
<1>10. Cardinality(Before(s, i)) = k - 1
  BY <1>2, <1>9
<1> QED  BY <1>10

\* A split string is a sequence of levels.
LEMMA SplitSequence ==
  ASSUME NEW C, NEW s \in Seq(C)
  PROVE  /\ Len(Split(s)) = Cardinality(Starts(s))
         /\ DOMAIN Split(s) = 1..Len(Split(s))
         /\ Len(Split(s)) \in Nat \ {0}
<1> DEFINE n == Cardinality(Starts(s))
           S == {Split(s)[k] : k \in 1..n}
<1>1. n \in Nat \ {0}
  BY StartsFinite, Zenon
<1>2. DOMAIN Split(s) = 1..n
  BY Zenon DEF Split
<1>3. Split(s) \in [1..n -> S]
  BY DEF Split
<1> HIDE DEF n, S
<1>4. Split(s) \in Seq(S) /\ Len(Split(s)) = n
  BY <1>1, <1>3
<1> QED  BY <1>1, <1>2, <1>4 DEF n

\* Two starts are two.
LEMMA PairCardinality == Cardinality({1}) = 1 /\ Cardinality({1} \cup {2}) = 2
<1>1. IsFiniteSet({1}) /\ Cardinality({1}) = 1
  BY FS_Singleton, Zenon
<1>2. Cardinality({1} \cup {2}) = Cardinality({1}) + 1
  BY <1>1, FS_AddElement
<1> QED  BY <1>1, <1>2

\* The first level is what stands before the first "/".
LEMMA FirstLevel ==
  ASSUME NEW C, NEW s \in Seq(C)
  PROVE  /\ Split(s)[1] = Level(s, 1)
         /\ s # <<>> /\ s[1] # "/" => Level(s, 1) # <<>> /\ Level(s, 1)[1] = s[1]
         /\ s = <<>> \/ s[1] = "/" => Level(s, 1) = <<>>
         /\ s # <<>> /\ s[1] = "/" => Len(Split(s)) >= 2
<1> DEFINE n == Separator(s, 1)
<1>1. Len(s) \in Nat /\ 1 \in 1..(Len(s) + 1) /\ (s = <<>> <=> Len(s) = 0)
  OBVIOUS
<1>2. /\ n \in 1..(Len(s) + 1)
      /\ n = Len(s) + 1 \/ s[n] = "/"
      /\ \A k \in 1..(n - 1) : s[k] # "/"
  BY <1>1, SeparatorFound, Zenon
<1>3. Split(s)[1] = Level(s, 1)
  <2>1. Before(s, 1) = {}
    BY StartsFinite DEF Before
  <2>2. Cardinality(Before(s, 1)) = 0
    BY <2>1, FS_EmptySet, Zenon
  <2>3. Cardinality(Before(s, 1)) = 1 - 1 /\ 1 \in Nat
    BY <2>2
  <2> QED  BY <2>3, LevelAt, StartsFinite, Zenon
<1>4. ASSUME s # <<>>, s[1] # "/"
      PROVE  Level(s, 1) # <<>> /\ Level(s, 1)[1] = s[1]
  <2>1. n - 1 \in 1..Len(s)
    BY <1>1, <1>2, <1>4
  <2> HIDE DEF n
  <2>2. SubSeq(s, 1, n - 1) # <<>> /\ SubSeq(s, 1, n - 1)[1] = s[1]
    BY <2>1, <1>1
  <2> QED  BY <2>2 DEF Level, n
<1>5. ASSUME s = <<>> \/ s[1] = "/"
      PROVE  Level(s, 1) = <<>>
  <2>1. n = 1
    BY <1>1, <1>2, <1>5
  <2> QED  BY <2>1 DEF Level
<1>6. ASSUME s # <<>>, s[1] = "/"
      PROVE  Len(Split(s)) >= 2
  <2>1. {1, 2} \in SUBSET Starts(s)
    BY <1>1, <1>6 DEF Starts
  <2>2. Cardinality({1, 2}) = 2
    <3>1. {1, 2} = {1} \cup {2}
      OBVIOUS
    <3> QED  BY <3>1, PairCardinality, Zenon
  <2>3. Cardinality({1, 2}) <= Cardinality(Starts(s))
    BY <2>1, StartsFinite, FS_Subset, Zenon
  <2>4. Len(Split(s)) = Cardinality(Starts(s)) /\ Len(Split(s)) \in Nat
    BY SplitSequence
  <2> QED  BY <2>2, <2>3, <2>4
<1> QED  BY <1>3, <1>4, <1>5, <1>6

(***************************************************************************)
(* What CoversFilter decides.                                              *)
(***************************************************************************)

\* The loops of MatchFilter and CoversFilter, on levels.
LevelsMatch(f, t) ==
  LET Fits(i) == i <= Len(t) /\ f[i] \in {Plus, t[i]}
  IN  \/ \E h \in DOMAIN f : f[h] = Hash /\ \A i \in 1..(h - 1) : Fits(i)
      \/ Len(f) = Len(t) /\ \A i \in DOMAIN f : Fits(i)
LevelsCover(a, r) ==
  LET Fits(i) == i <= Len(r) /\ r[i] # Hash /\ a[i] \in {Plus, r[i]}
  IN  \/ \E h \in DOMAIN a : a[h] = Hash /\ \A i \in 1..(h - 1) : Fits(i)
      \/ Len(a) = Len(r) /\ \A i \in DOMAIN a : Fits(i)

\* Levels: a sequence with at least one.
IsLevels(a) == Len(a) \in Nat \ {0} /\ DOMAIN a = 1..Len(a)

\* If a covers r level by level then it matches what r matches.
LEMMA CoverMatches ==
  ASSUME NEW a, NEW r, NEW t, IsLevels(a), IsLevels(r), IsLevels(t),
         LevelsCover(a, r), LevelsMatch(r, t)
  PROVE  LevelsMatch(a, t)
<1>1. CASE \E h \in DOMAIN a :
             /\ a[h] = Hash
             /\ \A i \in 1..(h - 1) :
                  i <= Len(r) /\ r[i] # Hash /\ a[i] \in {Plus, r[i]}
  <2>1. PICK h \in DOMAIN a :
          /\ a[h] = Hash
          /\ \A i \in 1..(h - 1) :
               i <= Len(r) /\ r[i] # Hash /\ a[i] \in {Plus, r[i]}
    BY <1>1
  <2>2. ASSUME NEW i \in 1..(h - 1)
        PROVE  i <= Len(t) /\ r[i] \in {Plus, t[i]}
    <3>1. h \in Nat /\ i \in Nat /\ i <= Len(r) /\ i \in DOMAIN r
      BY <2>1 DEF IsLevels
    <3>2. ASSUME NEW k \in DOMAIN r, r[k] = Hash
          PROVE  i \in 1..(k - 1)
      BY <2>1, <3>1, <3>2 DEF IsLevels
    <3> QED  BY <3>1, <3>2, Zenon DEF LevelsMatch
  <2>3. \A i \in 1..(h - 1) : i <= Len(t) /\ a[i] \in {Plus, t[i]}
    BY <2>1, <2>2
  <2> QED  BY <2>1, <2>3 DEF LevelsMatch
<1>2. CASE /\ Len(a) = Len(r)
           /\ \A i \in DOMAIN a :
                i <= Len(r) /\ r[i] # Hash /\ a[i] \in {Plus, r[i]}
  <2>1. Len(r) = Len(t) /\ \A i \in DOMAIN r : i <= Len(t) /\ r[i] \in {Plus, t[i]}
    BY <1>2 DEF LevelsMatch, IsLevels
  <2> QED  BY <1>2, <2>1 DEF LevelsMatch, IsLevels
<1> QED  BY <1>1, <1>2 DEF LevelsCover

\* A filter that covers one with "#" at n has its own no later than there.
LEMMA CoverEnds ==
  ASSUME NEW a, NEW r, IsLevels(a), IsLevels(r), LevelsCover(a, r),
         NEW n \in DOMAIN r, r[n] = Hash
  PROVE  \E h \in DOMAIN a :
           h <= n /\ a[h] = Hash /\ \A i \in 1..(h - 1) : a[i] \in {Plus, r[i]}
<1>1. n \in Nat /\ n >= 1 /\ n <= Len(r)
  BY DEF IsLevels
<1>2. ~(Len(a) = Len(r) /\ \A i \in DOMAIN a : r[i] # Hash)
  BY Zenon DEF IsLevels
<1>3. PICK h \in DOMAIN a :
        a[h] = Hash /\ \A i \in 1..(h - 1) : r[i] # Hash /\ a[i] \in {Plus, r[i]}
  BY <1>2, Zenon DEF LevelsCover
<1>4. h <= n
  BY <1>1, <1>3 DEF IsLevels
<1> QED  BY <1>3, <1>4, Zenon

\* A part of one character.
LEMMA OneCharacter ==
  ASSUME NEW C, NEW s \in Seq(C), NEW n \in 1..Len(s)
  PROVE  SubSeq(s, n, n) = <<s[n]>>
<1>1. /\ SubSeq(s, n, n) \in Seq(C) /\ Len(SubSeq(s, n, n)) = 1
      /\ SubSeq(s, n, n)[1] = s[n]
  OBVIOUS
<1>2. <<s[n]>> \in Seq(C) /\ Len(<<s[n]>>) = 1 /\ <<s[n]>>[1] = s[n]
  OBVIOUS
<1>3. \A i \in 1..1 : SubSeq(s, n, n)[i] = <<s[n]>>[i]
  BY <1>1, <1>2
<1> QED  BY <1>1, <1>2, <1>3, SeqEqual

\* What "#" and "/#" are read as.
LEMMA ExpandedLevels ==
  /\ LET r == Split(<<"+", "/", "#">>)
     IN  IsLevels(r) /\ Len(r) >= 2 /\ r[1] = Plus /\ r[2] = Hash
  /\ LET r == Split(<<"/", "+", "/", "#">>)
     IN  IsLevels(r) /\ Len(r) >= 3 /\ r[1] = <<>> /\ r[2] = Plus /\ r[3] = Hash
<1> DEFINE C == {"+", "/", "#"}
<1>1. ASSUME NEW s, s = <<"+", "/", "#">>
      PROVE  LET r == Split(s)
             IN  IsLevels(r) /\ Len(r) >= 2 /\ r[1] = Plus /\ r[2] = Hash
  <2>1. s \in Seq(C) /\ Len(s) = 3 /\ s[1] = "+" /\ s[2] = "/" /\ s[3] = "#"
    BY <1>1
  <2> HIDE DEF C
  <2>2. Starts(s) = {1, 3}
    BY <2>1 DEF Starts
  <2>3. Separator(s, 1) = 2 /\ Separator(s, 3) = 4
    <3>1. 1 \in 1..(Len(s) + 1) /\ 2 \in 1..(Len(s) + 1) /\ \A k \in 1..(2 - 1) : s[k] # "/"
      BY <2>1
    <3>2. 3 \in 1..(Len(s) + 1) /\ 4 \in 3..(Len(s) + 1) /\ \A k \in 3..(4 - 1) : s[k] # "/"
      BY <2>1
    <3>3. s \in Seq(C) /\ 4 = Len(s) + 1 /\ s[2] = "/"
      BY <2>1
    <3>4. Separator(s, 1) = 2
      BY <3>1, <3>3, SeparatorIs, Zenon
    <3>5. Separator(s, 3) = 4
      BY <3>2, <3>3, SeparatorIs, Zenon
    <3> QED  BY <3>4, <3>5
  <2>4. Level(s, 1) = Plus /\ Level(s, 3) = Hash
    <3>1. Level(s, 1) = SubSeq(s, 1, 1) /\ Level(s, 3) = SubSeq(s, 3, 3)
      BY <2>3 DEF Level
    <3>2. 1 \in 1..Len(s) /\ 3 \in 1..Len(s)
      BY <2>1
    <3> QED  BY <2>1, <3>1, <3>2, OneCharacter, Zenon DEF Plus, Hash
  <2>5. Before(s, 1) = {} /\ Before(s, 3) = {1}
    BY <2>2 DEF Before
  <2>6. Cardinality(Before(s, 1)) = 0 /\ Cardinality(Before(s, 3)) = 1
    BY <2>5, FS_EmptySet, FS_Singleton, Zenon
  <2>7. /\ 2 \in 1..Cardinality(Starts(s))
        /\ Split(s)[1] = Level(s, 1) /\ Split(s)[2] = Level(s, 3)
    <3>1. Cardinality(Before(s, 1)) = 1 - 1 /\ Cardinality(Before(s, 3)) = 2 - 1
      BY <2>6
    <3>2. 1 \in Starts(s) /\ 3 \in Starts(s) /\ 1 \in Nat /\ 2 \in Nat
      BY <2>2
    <3> QED  BY <2>1, <3>1, <3>2, LevelAt, Zenon
  <2>8. Len(Split(s)) = Cardinality(Starts(s)) /\ IsLevels(Split(s))
    BY <2>1, SplitSequence, Zenon DEF IsLevels
  <2> QED  BY <2>4, <2>7, <2>8 DEF IsLevels
<1>2. ASSUME NEW s, s = <<"/", "+", "/", "#">>
      PROVE  LET r == Split(s)
             IN  /\ IsLevels(r) /\ Len(r) >= 3
                 /\ r[1] = <<>> /\ r[2] = Plus /\ r[3] = Hash
  <2>1. /\ s \in Seq(C) /\ Len(s) = 4
        /\ s[1] = "/" /\ s[2] = "+" /\ s[3] = "/" /\ s[4] = "#"
    BY <1>2
  <2> HIDE DEF C
  <2>2. Starts(s) = {1, 2, 4}
    BY <2>1 DEF Starts
  <2>3. Separator(s, 2) = 3 /\ Separator(s, 4) = 5
    <3>1. 2 \in 1..(Len(s) + 1) /\ 3 \in 2..(Len(s) + 1) /\ \A k \in 2..(3 - 1) : s[k] # "/"
      BY <2>1
    <3>2. 4 \in 1..(Len(s) + 1) /\ 5 \in 4..(Len(s) + 1) /\ \A k \in 4..(5 - 1) : s[k] # "/"
      BY <2>1
    <3>3. s \in Seq(C) /\ 5 = Len(s) + 1 /\ s[3] = "/"
      BY <2>1
    <3>4. Separator(s, 2) = 3
      BY <3>1, <3>3, SeparatorIs, Zenon
    <3>5. Separator(s, 4) = 5
      BY <3>2, <3>3, SeparatorIs, Zenon
    <3> QED  BY <3>4, <3>5
  <2>4. Level(s, 2) = Plus /\ Level(s, 4) = Hash
    <3>1. Level(s, 2) = SubSeq(s, 2, 2) /\ Level(s, 4) = SubSeq(s, 4, 4)
      BY <2>3 DEF Level
    <3>2. 2 \in 1..Len(s) /\ 4 \in 1..Len(s)
      BY <2>1
    <3> QED  BY <2>1, <3>1, <3>2, OneCharacter, Zenon DEF Plus, Hash
  <2>5. Before(s, 2) = {1} /\ Before(s, 4) = {1} \cup {2}
    BY <2>2 DEF Before
  <2>6. Cardinality(Before(s, 2)) = 2 - 1 /\ Cardinality(Before(s, 4)) = 3 - 1
    BY <2>5, PairCardinality
  <2>7. /\ 3 \in 1..Cardinality(Starts(s))
        /\ Split(s)[2] = Level(s, 2) /\ Split(s)[3] = Level(s, 4)
    <3>1. 2 \in Starts(s) /\ 4 \in Starts(s) /\ 2 \in Nat /\ 3 \in Nat
      BY <2>2
    <3> QED  BY <2>1, <2>6, <3>1, LevelAt, Zenon
  <2>8. Len(Split(s)) = Cardinality(Starts(s)) /\ IsLevels(Split(s))
    BY <2>1, SplitSequence, Zenon DEF IsLevels
  <2>9. Split(s)[1] = <<>>
    BY <2>1, FirstLevel, Zenon
  <2> QED  BY <2>4, <2>7, <2>8, <2>9 DEF IsLevels
<1> QED  BY <1>1, <1>2

\* The first "$" of a topic is seen by every filter that has no wildcard there.
LEMMA SystemTopic ==
  ASSUME NEW C, NEW filter \in Seq(C), NEW topic \in Seq(C),
         MatchFilter(filter, topic), StartsWith(topic, {"$"})
  PROVE  StartsWith(filter, {"$"})
<1> DEFINE f == Split(filter)
           t == Split(topic)
<1>1. /\ f[1] = Level(filter, 1) /\ t[1] = Level(topic, 1)
      /\ topic # <<>> /\ topic[1] = "$"
  BY FirstLevel, Zenon DEF StartsWith
<1>2. t[1] # <<>> /\ t[1][1] = "$"
  <2>1. topic[1] # "/"
    BY <1>1
  <2> QED  BY <1>1, <2>1, FirstLevel, Zenon
<1>3. IsLevels(f) /\ IsLevels(t)
  BY SplitSequence, Zenon DEF IsLevels
<1>4. f[1] # Hash /\ f[1] # Plus
  <2>1. ~StartsWith(filter, {"+", "#"})
    BY DEF MatchFilter
  <2>2. f[1] # <<>> => filter # <<>> /\ f[1][1] = filter[1]
    BY <1>1, FirstLevel, Zenon
  <2>3. Hash # <<>> /\ Hash[1] = "#" /\ Plus # <<>> /\ Plus[1] = "+"
    BY DEF Hash, Plus
  <2> QED  BY <2>1, <2>2, <2>3, Zenon DEF StartsWith
<1>5. LevelsMatch(f, t)
  BY Zenon DEF MatchFilter, LevelsMatch
<1> HIDE DEF f, t
<1>6. f[1] \in {Plus, t[1]}
  <2>1. ASSUME NEW h \in DOMAIN f, f[h] = Hash
        PROVE  1 \in 1..(h - 1)
    BY <1>3, <1>4, <2>1 DEF IsLevels
  <2>2. 1 \in DOMAIN f
    BY <1>3 DEF IsLevels
  <2> QED  BY <1>5, <2>1, <2>2, Zenon DEF LevelsMatch
<1>7. f[1] # <<>> /\ f[1][1] = "$"
  BY <1>2, <1>4, <1>6
<1>8. filter # <<>> /\ filter[1] = f[1][1]
  BY <1>1, <1>7, FirstLevel, Zenon DEF f
<1> QED  BY <1>7, <1>8 DEF StartsWith

\* What an access rule lets through is no wider than the rule: if CoversFilter
\* accepts a filter, every topic this filter matches is matched by the rule.
THEOREM CoversSound ==
  ASSUME NEW C, NEW allowed \in Seq(C), NEW requested \in Seq(C),
         NEW topic \in Seq(C), ValidTopic(topic),
         CoversFilter(allowed, requested), MatchFilter(requested, topic)
  PROVE  MatchFilter(allowed, topic)
<1> DEFINE a == Split(allowed)
           r == Split(requested)
           t == Split(topic)
<1>1. IsLevels(a) /\ IsLevels(r) /\ IsLevels(t)
  BY SplitSequence, Zenon DEF IsLevels
<1>2. LevelsCover(a, Split(Expanded(requested)))
  BY Zenon DEF CoversFilter, LevelsCover
<1>3. LevelsMatch(r, t)
  BY Zenon DEF MatchFilter, LevelsMatch
<1>4. ~(StartsWith(topic, {"$"}) /\ StartsWith(allowed, {"+", "#"}))
  BY SystemTopic, Zenon DEF CoversFilter
<1>5. SUFFICES LevelsMatch(a, t)
  BY <1>4, Zenon DEF MatchFilter, LevelsMatch
<1>6. CASE requested = <<"#">>
  <2> DEFINE x == Split(<<"+", "/", "#">>)
  <2>1. Expanded(requested) = <<"+", "/", "#">>
    BY <1>6 DEF Expanded
  <2>2. IsLevels(x) /\ Len(x) >= 2 /\ x[1] = Plus /\ x[2] = Hash
    BY ExpandedLevels, Zenon
  <2>3. LevelsCover(a, x)
    BY <1>2, <2>1, Zenon
  <2>4. Plus # Hash
    BY DEF Plus, Hash
  <2> HIDE DEF a, x, t
  <2>5. PICK h \in DOMAIN a :
          h <= 2 /\ a[h] = Hash /\ \A i \in 1..(h - 1) : a[i] \in {Plus, x[i]}
    <3>1. 2 \in DOMAIN x
      BY <2>2 DEF IsLevels
    <3> QED  BY <1>1, <2>2, <2>3, <3>1, CoverEnds, Zenon
  <2>6. h \in {1, 2}
    BY <1>1, <2>5 DEF IsLevels
  <2>7. \A i \in 1..(h - 1) : i <= Len(t) /\ a[i] = Plus
    BY <1>1, <2>2, <2>5, <2>6 DEF IsLevels
  <2> QED  BY <2>5, <2>7 DEF LevelsMatch
<1>7. CASE requested = <<"/", "#">>
  <2> DEFINE x == Split(<<"/", "+", "/", "#">>)
  <2>1. Expanded(requested) = <<"/", "+", "/", "#">>
    BY <1>7 DEF Expanded
  <2>2. IsLevels(x) /\ Len(x) >= 3 /\ x[1] = <<>> /\ x[2] = Plus /\ x[3] = Hash
    BY ExpandedLevels, Zenon
  <2>3. LevelsCover(a, x)
    BY <1>2, <2>1, Zenon
  <2>4. r[1] = <<>>
    <3>1. requested # <<>> /\ requested[1] = "/"
      BY <1>7
    <3> QED  BY <3>1, FirstLevel, Zenon
  <2>5. <<>> # Hash /\ <<>> # Plus
    BY DEF Hash, Plus
  <2> HIDE DEF a, r, x, t
  <2>6. t[1] = <<>>
    <3>1. ASSUME NEW h \in DOMAIN r, r[h] = Hash
          PROVE  1 \in 1..(h - 1)
      BY <1>1, <2>4, <2>5, <3>1 DEF IsLevels
    <3>2. 1 \in DOMAIN r
      BY <1>1 DEF IsLevels
    <3>3. r[1] \in {Plus, t[1]}
      BY <1>3, <3>1, <3>2, Zenon DEF LevelsMatch
    <3> QED  BY <2>4, <2>5, <3>3
  <2>7. Len(t) >= 2
    BY <2>6, FirstLevel, Zenon DEF ValidTopic, t
  <2>8. PICK h \in DOMAIN a :
          h <= 3 /\ a[h] = Hash /\ \A i \in 1..(h - 1) : a[i] \in {Plus, x[i]}
    <3>1. 3 \in DOMAIN x
      BY <2>2 DEF IsLevels
    <3> QED  BY <1>1, <2>2, <2>3, <3>1, CoverEnds, Zenon
  <2>9. h \in {1, 2, 3}
    BY <1>1, <2>8 DEF IsLevels
  <2>10. \A i \in 1..(h - 1) : i <= Len(t) /\ a[i] \in {Plus, t[i]}
    BY <1>1, <2>2, <2>6, <2>7, <2>8, <2>9 DEF IsLevels
  <2> QED  BY <2>8, <2>10 DEF LevelsMatch
<1>8. CASE requested # <<"#">> /\ requested # <<"/", "#">>
  <2>1. Expanded(requested) = requested
    BY <1>8 DEF Expanded
  <2> QED  BY <1>1, <1>2, <1>3, <2>1, CoverMatches, Zenon
<1> QED  BY <1>6, <1>7, <1>8

(***************************************************************************)
(* What MatchFilter decides.                                               *)
(***************************************************************************)

\* A level "#" of a valid filter is its last,
LEMMA HashLast ==
  ASSUME NEW C, NEW s \in Seq(C), ValidFilter(s), NEW k \in DOMAIN Split(s),
         Split(s)[k] = Hash
  PROVE  k = Len(Split(s))
<1>1. /\ k \in 1..Cardinality(Starts(s)) /\ k \in Nat
      /\ Len(Split(s)) = Cardinality(Starts(s))
      /\ Cardinality(Starts(s)) \in Nat
  BY SplitSequence
<1>2. PICK i \in Starts(s) : Cardinality(Before(s, i)) = k - 1
  BY <1>1, StartOf, Zenon
<1>3. Level(s, i) = Hash
  BY <1>1, <1>2, LevelAt, Zenon
<1>4. i \in 1..(Len(s) + 1) /\ Len(s) \in Nat
  BY StartsFinite
<1> DEFINE n == Separator(s, i)
<1>5. n \in i..(Len(s) + 1)
  BY <1>4, SeparatorFound, Zenon
<1>6. SubSeq(s, i, n - 1) = Hash
  BY <1>3 DEF Level
<1> HIDE DEF n
<1>7. i \in 1..Len(s) /\ s[i] = "#"
  <2>1. Len(Hash) = 1 /\ Hash[1] = "#"
    BY DEF Hash
  <2>2. Len(SubSeq(s, i, n - 1)) = 1
    BY <1>6, <2>1
  <2>3. n = i + 1
    BY <1>4, <1>5, <2>2
  <2>4. i \in 1..Len(s)
    BY <1>4, <1>5, <2>3
  <2>5. SubSeq(s, i, i) = <<s[i]>>
    BY <2>4, OneCharacter, Zenon
  <2>6. SubSeq(s, i, i) = Hash
    BY <1>4, <1>6, <2>3
  <2> QED  BY <2>1, <2>4, <2>5, <2>6
<1>8. i = Len(s)
  BY <1>7 DEF ValidFilter
<1>9. Before(s, i) = Starts(s) \ {i}
  <2>1. ASSUME NEW j \in Starts(s) PROVE j < i <=> j # i
    <3>1. j \in 1..(Len(s) + 1) /\ (j = 1 \/ s[j - 1] = "/")
      BY Zenon DEF Starts
    <3>2. j # Len(s) + 1
      BY <1>4, <1>7, <1>8, <3>1
    <3> QED  BY <1>4, <1>8, <3>1, <3>2
  <2> QED  BY <2>1, Zenon DEF Before
<1>10. Cardinality(Before(s, i)) = Cardinality(Starts(s)) - 1
  BY <1>9, StartsFinite, FS_RemoveElement, Zenon
<1> QED  BY <1>1, <1>2, <1>10

\* and a wildcard in front is its first level.
LEMMA WildcardFirst ==
  ASSUME NEW C, NEW s \in Seq(C), ValidFilter(s)
  PROVE  StartsWith(s, {"+", "#"}) <=> Split(s)[1] \in {Plus, Hash}
<1>1. s # <<>> /\ Len(s) \in Nat \ {0}
  BY DEF ValidFilter
<1>2. ASSUME s[1] \in {"+", "#"} PROVE Split(s)[1] \in {Plus, Hash}
  <2>1. /\ 1 \in 1..(Len(s) + 1) /\ 2 \in 1..(Len(s) + 1)
        /\ 2 = Len(s) + 1 \/ s[2] = "/"
        /\ \A k \in 1..(2 - 1) : s[k] # "/"
    BY <1>1, <1>2 DEF ValidFilter
  <2>2. Separator(s, 1) = 2
    BY <2>1, SeparatorIs, Zenon
  <2>3. Level(s, 1) = SubSeq(s, 1, 1) /\ 1 \in 1..Len(s)
    BY <1>1, <2>2 DEF Level
  <2>4. Split(s)[1] = <<s[1]>>
    BY <2>3, OneCharacter, FirstLevel, Zenon
  <2> QED  BY <1>2, <2>4, Zenon DEF Plus, Hash
<1>3. ASSUME Split(s)[1] \in {Plus, Hash} PROVE s[1] \in {"+", "#"}
  <2>1. /\ Plus # <<>> /\ Plus[1] = "+" /\ Hash # <<>> /\ Hash[1] = "#"
    BY DEF Plus, Hash
  <2>2. Level(s, 1) # <<>> /\ Level(s, 1)[1] \in {"+", "#"}
    BY <1>3, <2>1, FirstLevel, Zenon
  <2> QED  BY <1>1, <2>2, FirstLevel, Zenon
<1> QED  BY <1>1, <1>2, <1>3, Zenon DEF StartsWith

\* MatchFilter decides the MQTT rule on levels, for every valid filter and
\* every topic.
THEOREM MatchExact ==
  ASSUME NEW C, NEW filter \in Seq(C), NEW topic \in Seq(C), ValidFilter(filter)
  PROVE  MatchFilter(filter, topic) <=> Matches(filter, topic)
<1> DEFINE f == Split(filter)
           t == Split(topic)
           last == f[Len(f)] = Hash
           n == IF last THEN Len(f) - 1 ELSE Len(f)
           Rule == /\ IF last THEN Len(t) >= n ELSE Len(t) = n
                   /\ \A i \in 1..n : f[i] = t[i] \/ f[i] = Plus
<1>1. IsLevels(f) /\ IsLevels(t)
  BY SplitSequence, Zenon DEF IsLevels
<1>2. StartsWith(topic, {"$"}) <=> StartsWith(t[1], {"$"})
  <2>1. t[1] = Level(topic, 1)
    BY FirstLevel, Zenon
  <2>2. "$" # "/"
    OBVIOUS
  <2> QED  BY <2>1, <2>2, FirstLevel, Zenon DEF StartsWith
<1>3. StartsWith(filter, {"+", "#"}) <=> f[1] \in {Plus, Hash}
  BY WildcardFirst, Zenon
<1>4. MatchFilter(filter, topic) <=>
        ~(StartsWith(topic, {"$"}) /\ StartsWith(filter, {"+", "#"})) /\ LevelsMatch(f, t)
  BY Zenon DEF MatchFilter, LevelsMatch
<1>5. Matches(filter, topic) <=>
        Rule /\ (f[1] \in {Plus, Hash} => ~StartsWith(t[1], {"$"}))
  BY DEF Matches
<1>6. \A h \in DOMAIN f : f[h] = Hash => h = Len(f)
  BY HashLast, Zenon
<1> HIDE DEF f, t
<1>7. Len(f) \in Nat \ {0} /\ DOMAIN f = 1..Len(f) /\ Len(t) \in Nat
  BY <1>1 DEF IsLevels
<1>8. ASSUME last PROVE LevelsMatch(f, t) <=> Rule
  <2>1. n = Len(f) - 1 /\ n \in Nat /\ Len(f) \in DOMAIN f /\ 1..n \subseteq DOMAIN f
    BY <1>7, <1>8
  <2> HIDE DEF n
  <2>2. LevelsMatch(f, t) <=> \A i \in 1..n : i <= Len(t) /\ f[i] \in {Plus, t[i]}
    BY <1>6, <1>8, <2>1, Zenon DEF LevelsMatch
  <2>3. (\A i \in 1..n : i <= Len(t)) <=> Len(t) >= n
    BY <1>7, <2>1
  <2> QED  BY <1>8, <2>2, <2>3, Zenon
<1>9. ASSUME ~last PROVE LevelsMatch(f, t) <=> Rule
  <2>1. n = Len(f)
    BY <1>9
  <2>2. \A h \in DOMAIN f : f[h] # Hash
    BY <1>6, <1>9, Zenon
  <2>3. Len(f) = Len(t) => \A i \in DOMAIN f : i <= Len(t)
    BY <1>7
  <2> QED  BY <1>7, <1>9, <2>1, <2>2, <2>3, Zenon DEF LevelsMatch
<1>10. LevelsMatch(f, t) <=> Rule
  BY <1>8, <1>9, Zenon
<1> QED  BY <1>2, <1>3, <1>4, <1>5, <1>10, Zenon

(***************************************************************************)
(* The policy that New makes.                                              *)
(***************************************************************************)

\* First-order reasoning from here on: Zenon, but for the leaves that cite SMT.
USE Zenon

\* The policy has every user under the own name, and a client ID has one user.
LEMMA PolicyUsers ==
  ASSUME NEW users, users \in Seq(Range(users)), ValidUsers(users)
  PROVE  /\ \A u \in DOMAIN New(users) :
              New(users)[u] \in Range(users) /\ New(users)[u].username = u
         /\ \A e \in Range(users) :
              e.username \in DOMAIN New(users) /\ New(users)[e.username] = e
         /\ \A u, v \in DOMAIN New(users) : \A id \in Range(New(users)[u].clientIDs) :
              id \in Range(New(users)[v].clientIDs) => u = v
<1>1. DOMAIN users \subseteq Nat
  BY SMT
<1>2. \A i, j \in DOMAIN users : i # j => i \in 1 .. j - 1 \/ j \in 1 .. i - 1
  BY SMT
<1>3. \A i, j \in DOMAIN users : users[i].username = users[j].username => i = j
  BY <1>2 DEF ValidUsers
<1>4. \A i, j \in DOMAIN users : \A id \in Range(users[i].clientIDs) :
        id \in Range(users[j].clientIDs) => i = j
  BY <1>2 DEF ValidUsers
<1>5. \A d, e \in Range(users) : d.username = e.username => d = e
  BY <1>3 DEF Range
<1>6. /\ \A e \in Range(users) : e.username \in DOMAIN New(users)
      /\ \A u \in DOMAIN New(users) : \E e \in Range(users) : e.username = u
  BY DEF New, Range
<1>7. \A u \in DOMAIN New(users) :
        New(users)[u] = CHOOSE e \in Range(users) : e.username = u
  BY DEF New
<1>8. \A u \in DOMAIN New(users) :
        New(users)[u] \in Range(users) /\ New(users)[u].username = u
  BY <1>6, <1>7
<1>9. ASSUME NEW e \in Range(users)
      PROVE  e.username \in DOMAIN New(users) /\ New(users)[e.username] = e
  <2>1. e.username \in DOMAIN New(users)
    BY <1>6
  <2>2. /\ New(users)[e.username] \in Range(users)
        /\ New(users)[e.username].username = e.username
    BY <1>8, <2>1
  <2> QED  BY <1>5, <2>1, <2>2
<1>10. ASSUME NEW u \in DOMAIN New(users), NEW v \in DOMAIN New(users),
              NEW id \in Range(New(users)[u].clientIDs),
              id \in Range(New(users)[v].clientIDs)
       PROVE  u = v
  <2>1. PICK i \in DOMAIN users : users[i] = New(users)[u]
    BY <1>8 DEF Range
  <2>2. PICK j \in DOMAIN users : users[j] = New(users)[v]
    BY <1>8 DEF Range
  <2>3. id \in Range(users[i].clientIDs) /\ id \in Range(users[j].clientIDs)
    BY <1>10, <2>1, <2>2
  <2>4. i = j
    BY <1>4, <2>3
  <2>5. New(users)[u].username = u /\ New(users)[v].username = v
    BY <1>8
  <2> QED  BY <2>1, <2>2, <2>4, <2>5
<1> QED  BY <1>8, <1>9, <1>10

(***************************************************************************)
(* The invariant of the handshake.                                         *)
(***************************************************************************)

Places == {"connect", "authenticate", "verify", "acquire", "reject", "serve", "returned"}
Refusals == {"unavailable", "badCredentials", "notAuthorized"}
Codes == Refusals \cup {"none", "accepted"}

TypeOK ==
  /\ stage \in [Client -> Places] /\ code \in [Client -> Codes]
  /\ DOMAIN req = Client /\ DOMAIN owner = ID /\ DOMAIN subs = ID
  /\ slots \in Nat /\ refused \in Nat
  /\ stats \in [authentication : Nat, authorization : Nat]

\* A listening server runs with the policy of the file it was started with.
Started ==
  /\ server # "listening" => policy = NoPolicy
  /\ server = "listening" =>
       /\ config \in Configs /\ Startable(config)
       /\ policy = IF config.mode = "secure" THEN New(config.users) ELSE NoPolicy

\* The policy lets the sender of r use the client ID it asks for.
Entitled(r) ==
  /\ r.username # Missing /\ r.username \in DOMAIN policy
  /\ CanUseClientID(r.username, r.id)

\* What the place of a handler says of its code, its request and its session.
Sound(c) ==
  /\ stage[c] \in {"connect", "authenticate", "verify"} => code[c] = "none"
  /\ stage[c] \in {"acquire", "serve"} => code[c] = "accepted"
  /\ stage[c] = "reject" => code[c] \in Refusals
  /\ stage[c] # "connect" => server = "listening"
  /\ stage[c] \notin {"connect", "returned"} => req[c] \in Requests
  /\ stage[c] = "verify" => policy # NoPolicy
  /\ stage[c] \in {"acquire", "serve"} /\ policy # NoPolicy => Entitled(req[c])
  /\ stage[c] = "serve" => owner[req[c].id] = Identity(c)

\* One connection is served for a client ID.
Sole ==
  \A c, d \in Client :
    stage[c] = "serve" /\ stage[d] = "serve" /\ req[c].id = req[d].id => c = d

\* The session of a client ID belongs to the identity the ID is listed for, and
\* has only filters this identity may subscribe to.
Owned(id) ==
  /\ server # "listening" => owner[id] = Missing /\ subs[id] = {}
  /\ policy = NoPolicy => owner[id] \in {Missing, ""}
  /\ policy # NoPolicy =>
       IF owner[id] = Missing THEN subs[id] = {}
       ELSE /\ owner[id] \in DOMAIN policy /\ CanUseClientID(owner[id], id)
            /\ \A f \in subs[id] : f \in Filters /\ CanSubscribe(owner[id], f)

AccessInv ==
  /\ TypeOK /\ Started /\ Sole /\ ChecksAccounted
  /\ \A c \in Client : Sound(c)
  /\ \A id \in ID : Owned(id)

\* What is counted: running derivations, and connections refused with a code.
Verifying == {c \in Client : stage[c] = "verify"}
Rejected(codes) == {c \in Client : stage[c] = "returned" /\ code[c] \in codes}

\* Nothing is counted before the first connection.
LEMMA InitAccess == AccessInit => AccessInv
<1> SUFFICES ASSUME AccessInit PROVE AccessInv
  OBVIOUS
<1>1. /\ stage = [c \in Client |-> "connect"] /\ code = [c \in Client |-> "none"]
      /\ req = [c \in Client |-> Missing] /\ slots = 0 /\ refused = 0
      /\ stats = [authentication |-> 0, authorization |-> 0]
      /\ owner = [id \in ID |-> Missing] /\ subs = [id \in ID |-> {}]
      /\ server = "starting" /\ policy = NoPolicy
  BY DEF AccessInit
<1>2. \A c \in Client : stage[c] = "connect" /\ code[c] = "none"
  BY <1>1
<1>3. stats.authentication = 0 /\ stats.authorization = 0
      /\ stats \in [authentication : Nat, authorization : Nat]
  BY <1>1, SMT
<1>4. TypeOK
  <2>1. slots \in Nat /\ refused \in Nat
    BY <1>1, SMT
  <2> QED  BY <1>1, <1>3, <2>1 DEF TypeOK, Places, Codes
<1>5. Started /\ Sole
  BY <1>1, <1>2 DEF Started, Sole
<1>6. \A c \in Client : Sound(c)
  BY <1>2 DEF Sound
<1>7. \A id \in ID : Owned(id)
  BY <1>1 DEF Owned
<1>8. ChecksAccounted
  <2>1. Verifying = {} /\ \A codes : Rejected(codes) = {}
    BY <1>2 DEF Verifying, Rejected
  <2>2. Cardinality(Verifying) = 0 /\ \A codes : Cardinality(Rejected(codes)) = 0
    BY <2>1, FS_EmptySet
  <2>3. slots <= MaxSlots /\ stats.authorization = 0 + refused
    BY <1>1, <1>3, PolicyAssumption, SMT
  <2> QED  BY <1>1, <1>3, <2>2, <2>3 DEF ChecksAccounted, Verifying, Rejected
<1> QED  BY <1>4, <1>5, <1>6, <1>7, <1>8 DEF AccessInv

(***************************************************************************)
(* Kinds of steps.                                                         *)
(***************************************************************************)

SameServer == config' = config /\ server' = server /\ policy' = policy
SameSessions == owner' = owner /\ subs' = subs
SameCounts == slots' = slots /\ stats' = stats /\ refused' = refused

\* The other handlers are not changed by a step of c.
OnlyBy(c, l) ==
  /\ stage' = [stage EXCEPT ![c] = l]
  /\ DOMAIN req' = Client /\ code' \in [Client -> Codes]
  /\ \A d \in Client \ {c} : req'[d] = req[d] /\ code'[d] = code[d]

\* Sets that stay as they are have the same counts.
LEMMA CountsFrame ==
  ASSUME ChecksAccounted, SameCounts, Verifying' = Verifying,
         \A codes \in SUBSET Refusals : Rejected(codes)' = Rejected(codes)
  PROVE  ChecksAccounted'
<1>1. {"unavailable", "badCredentials"} \in SUBSET Refusals
      /\ {"notAuthorized"} \in SUBSET Refusals
  BY DEF Refusals
<1>2. /\ Rejected({"unavailable", "badCredentials"})'
           = Rejected({"unavailable", "badCredentials"})
      /\ Rejected({"notAuthorized"})' = Rejected({"notAuthorized"})
  BY <1>1
<1> QED  BY <1>2 DEF ChecksAccounted, SameCounts, Verifying, Rejected

\* A handler that neither ends a derivation nor begins one, and that is not
\* refused, changes none of these sets.
LEMMA MoveCounts ==
  ASSUME TypeOK, NEW c \in Client, NEW l, OnlyBy(c, l),
         stage[c] \notin {"verify", "returned"}, l # "verify",
         l = "returned" => code'[c] \notin Refusals
  PROVE  /\ Verifying' = Verifying
         /\ \A codes \in SUBSET Refusals : Rejected(codes)' = Rejected(codes)
<1>1. /\ stage'[c] = l
      /\ \A d \in Client \ {c} : stage'[d] = stage[d] /\ code'[d] = code[d]
  BY DEF TypeOK, OnlyBy
<1>2. Verifying' = Verifying
  <2>1. \A d \in Client : stage'[d] = "verify" <=> stage[d] = "verify"
    BY <1>1
  <2> QED  BY <2>1 DEF Verifying
<1>3. ASSUME NEW codes \in SUBSET Refusals
      PROVE  Rejected(codes)' = Rejected(codes)
  <2>1. \A d \in Client : stage'[d] = "returned" /\ code'[d] \in codes
                          <=> stage[d] = "returned" /\ code[d] \in codes
    BY <1>1
  <2> QED  BY <2>1 DEF Rejected
<1> QED  BY <1>2, <1>3

\* What a handler is sound by is its own, but for the policy and the owners.
LEMMA OthersSound ==
  ASSUME TypeOK, NEW c \in Client, NEW l, OnlyBy(c, l), SameServer,
         NEW d \in Client \ {c}, Sound(d),
         stage[d] = "serve" => owner'[req[d].id] = owner[req[d].id]
  PROVE  Sound(d)'
<1>1. stage'[d] = stage[d] /\ req'[d] = req[d] /\ code'[d] = code[d]
  BY DEF TypeOK, OnlyBy
<1> QED  BY <1>1 DEF Sound, Identity, Entitled, CanUseClientID, SameServer

\* A handler that moves on without touching sessions keeps the invariant.
LEMMA MoveInv ==
  ASSUME AccessInv, NEW c \in Client, NEW l \in Places \ {"serve"}, OnlyBy(c, l),
         SameServer, SameSessions, Sound(c)'
  PROVE  /\ Started' /\ Sole'
         /\ \A d \in Client : Sound(d)'
         /\ \A id \in ID : Owned(id)'
<1>1. TypeOK /\ Started /\ Sole
  BY DEF AccessInv
<1>2. Started'
  BY <1>1 DEF Started, SameServer
<1>3. Sole'
  <2>1. stage'[c] # "serve"
    BY <1>1 DEF TypeOK, OnlyBy
  <2>2. \A d \in Client \ {c} : stage'[d] = stage[d] /\ req'[d] = req[d]
    BY <1>1 DEF TypeOK, OnlyBy
  <2> QED  BY <1>1, <2>1, <2>2 DEF Sole
<1>4. ASSUME NEW d \in Client PROVE Sound(d)'
  <2>1. CASE d = c
    BY <2>1
  <2>2. CASE d # c
    <3>1. Sound(d) /\ d \in Client \ {c}
      BY <2>2 DEF AccessInv
    <3> QED  BY <1>1, <3>1, OthersSound DEF SameSessions
  <2> QED  BY <2>1, <2>2
<1>5. ASSUME NEW id \in ID PROVE Owned(id)'
  <2>1. Owned(id)
    BY DEF AccessInv
  <2> QED  BY <2>1 DEF Owned, CanUseClientID, CanSubscribe, SameServer, SameSessions
<1> QED  BY <1>2, <1>3, <1>4, <1>5

\* Types after such a move.
LEMMA MoveType ==
  ASSUME TypeOK, NEW c \in Client, NEW l \in Places, OnlyBy(c, l),
         DOMAIN owner' = ID, DOMAIN subs' = ID, slots' \in Nat, refused' \in Nat,
         stats' \in [authentication : Nat, authorization : Nat]
  PROVE  TypeOK'
<1>1. stage' \in [Client -> Places]
  BY DEF TypeOK, OnlyBy
<1> QED  BY <1>1 DEF TypeOK, OnlyBy

\* A move that is not counted either.
LEMMA PlainMove ==
  ASSUME AccessInv, NEW c \in Client, NEW l \in Places \ {"serve", "verify"},
         OnlyBy(c, l), SameServer, SameSessions, SameCounts,
         stage[c] \notin {"verify", "returned"},
         l = "returned" => code'[c] \notin Refusals,
         Sound(c)'
  PROVE  AccessInv'
<1>1. TypeOK /\ ChecksAccounted
  BY DEF AccessInv
<1>2. ChecksAccounted'
  BY <1>1, MoveCounts, CountsFrame
<1>3. TypeOK'
  BY <1>1, MoveType DEF TypeOK, SameSessions, SameCounts
<1> QED  BY <1>2, <1>3, MoveInv DEF AccessInv

\* A refusal after the handshake is counted twice: as refused, and for its reason.
LEMMA RefusalCounts ==
  ASSUME TypeOK, ChecksAccounted, recordAuthorizationRejection, slots' = slots,
         Verifying' = Verifying,
         \A codes \in SUBSET Refusals : Rejected(codes)' = Rejected(codes)
  PROVE  /\ ChecksAccounted' /\ refused' \in Nat
         /\ stats' \in [authentication : Nat, authorization : Nat]
<1>1. /\ stats \in [authentication : Nat, authorization : Nat] /\ refused \in Nat
      /\ stats' = [stats EXCEPT !.authorization = @ + 1] /\ refused' = refused + 1
  BY DEF TypeOK, recordAuthorizationRejection
<1>2. /\ stats' \in [authentication : Nat, authorization : Nat] /\ refused' \in Nat
      /\ stats'.authentication = stats.authentication
      /\ stats'.authorization = stats.authorization + 1
  BY <1>1, SMT
<1>3. /\ {"unavailable", "badCredentials"} \in SUBSET Refusals
      /\ {"notAuthorized"} \in SUBSET Refusals
  BY DEF Refusals
<1> DEFINE a == Cardinality(Rejected({"unavailable", "badCredentials"}))
           z == Cardinality(Rejected({"notAuthorized"}))
<1>4. a' = a /\ z' = z
  BY <1>3
<1>5. /\ slots = Cardinality(Verifying) /\ slots <= MaxSlots
      /\ stats.authentication = a /\ stats.authorization = z + refused
  BY DEF ChecksAccounted, Verifying, Rejected
<1>6. stats'.authorization = z' + refused'
  <2>1. z \in Nat
    <3>1. Rejected({"notAuthorized"}) \in SUBSET Client /\ IsFiniteSet(Client)
      BY PolicyAssumption DEF Rejected
    <3> QED  BY <3>1, FS_Subset, FS_CardinalityType
  <2> HIDE DEF z
  <2> QED  BY <1>1, <1>2, <1>4, <1>5, <2>1, SMT
<1>7. ChecksAccounted'
  BY <1>2, <1>4, <1>5, <1>6 DEF ChecksAccounted, Verifying, Rejected
<1> QED  BY <1>2, <1>7

(***************************************************************************)
(* The handshake.                                                          *)
(***************************************************************************)

\* A CONNECT packet arrives.
LEMMA ConnectInv ==
  ASSUME AccessInv, NEW c \in Client, Connect(c)
  PROVE  AccessInv'
<1>1. PICK r \in Requests : req' = [req EXCEPT ![c] = r]
  BY DEF Connect
<1>2. /\ TypeOK /\ Sound(c) /\ stage[c] = "connect" /\ server = "listening"
      /\ stage' = [stage EXCEPT ![c] = "authenticate"] /\ code' = code
  BY DEF AccessInv, Connect, Goto
<1>3. SameServer /\ SameSessions /\ SameCounts
  BY DEF Connect, serverVars, sessionVars, SameServer, SameSessions, SameCounts
<1>4. OnlyBy(c, "authenticate")
  BY <1>1, <1>2 DEF OnlyBy, TypeOK
<1>5. stage'[c] = "authenticate" /\ code'[c] = "none" /\ req'[c] \in Requests
  BY <1>1, <1>2 DEF TypeOK, Sound
<1>6. Sound(c)'
  BY <1>2, <1>3, <1>5 DEF Sound, SameServer
<1>7. "authenticate" \in Places \ {"serve", "verify"}
  BY DEF Places
<1> QED  BY <1>2, <1>3, <1>4, <1>6, <1>7, PlainMove

\* What Decide does to the handler's own state.
LEMMA DecideMove ==
  ASSUME TypeOK, NEW c \in Client, NEW v \in Codes, Decide(c, v), req' = req
  PROVE  LET l == IF v = "accepted" THEN "acquire" ELSE "reject"
         IN  /\ OnlyBy(c, l) /\ l \in Places \ {"serve", "verify"} /\ l # "returned"
             /\ stage'[c] = l /\ code'[c] = v /\ req'[c] = req[c]
<1> DEFINE l == IF v = "accepted" THEN "acquire" ELSE "reject"
<1>1. stage' = [stage EXCEPT ![c] = l] /\ code' = [code EXCEPT ![c] = v]
  BY DEF Decide, Goto
<1>2. l \in {"acquire", "reject"}
  OBVIOUS
<1> HIDE DEF l
<1>3. OnlyBy(c, l) /\ stage'[c] = l /\ code'[c] = v
  BY <1>1 DEF OnlyBy, TypeOK
<1> QED  BY <1>2, <1>3 DEF Places, l

\* A decision that is sound keeps the invariant of all handlers.
LEMMA DecideSound ==
  ASSUME TypeOK, NEW c \in Client, NEW v, Decide(c, v), req' = req, SameServer,
         v \in Refusals \cup {"accepted"}, req[c] \in Requests, server = "listening",
         v = "accepted" /\ policy # NoPolicy => Entitled(req[c])
  PROVE  Sound(c)'
<1>1. v \in Codes
  BY DEF Codes
<1>2. /\ stage'[c] = (IF v = "accepted" THEN "acquire" ELSE "reject")
      /\ code'[c] = v /\ req'[c] = req[c]
  BY <1>1, DecideMove
<1>3. CASE v = "accepted"
  <2>1. stage'[c] = "acquire" /\ code'[c] = "accepted"
    BY <1>2, <1>3
  <2> QED  BY <1>2, <1>3, <2>1 DEF Sound, Entitled, CanUseClientID, SameServer
<1>4. CASE v # "accepted"
  <2>1. stage'[c] = "reject" /\ code'[c] \in Refusals
    BY <1>2, <1>4
  <2> QED  BY <1>2, <2>1 DEF Sound, SameServer
<1> QED  BY <1>3, <1>4

\* A slot, or a decision without a derivation.
LEMMA AuthenticateInv ==
  ASSUME AccessInv, NEW c \in Client, Authenticate(c)
  PROVE  AccessInv'
<1>1. /\ TypeOK /\ Sound(c) /\ ChecksAccounted /\ stage[c] = "authenticate"
      /\ req' = req /\ stats' = stats /\ refused' = refused
      /\ SameServer /\ SameSessions
  BY DEF AccessInv, Authenticate, serverVars, sessionVars, SameServer, SameSessions
<1>2. req[c] \in Requests /\ server = "listening" /\ code[c] = "none"
  BY <1>1 DEF Sound
<1>3. ASSUME NEW v \in Refusals \cup {"accepted"}, Decide(c, v), slots' = slots,
             v = "accepted" => policy = NoPolicy
      PROVE  AccessInv'
  <2>1. v \in Codes
    BY DEF Codes
  <2>2. Sound(c)'
    BY <1>1, <1>2, <1>3, DecideSound
  <2>3. SameCounts
    BY <1>1, <1>3 DEF SameCounts
  <2> QED  BY <1>1, <1>3, <2>1, <2>2, <2>3, DecideMove, PlainMove
<1>4. ASSUME policy # NoPolicy, slots < MaxSlots, slots' = slots + 1, Goto(c, "verify"),
             code' = code
      PROVE  AccessInv'
  <2>1. OnlyBy(c, "verify") /\ stage'[c] = "verify" /\ code'[c] = "none"
        /\ req'[c] = req[c]
    BY <1>1, <1>2, <1>4 DEF Goto, OnlyBy, TypeOK
  <2>2. "verify" \in Places \ {"serve"} /\ "verify" \in Places
    BY DEF Places
  <2>3. Sound(c)'
    BY <1>1, <1>2, <1>4, <2>1 DEF Sound, SameServer
  <2>4. \A d \in Client \ {c} : stage'[d] = stage[d]
    BY <1>1, <2>1 DEF OnlyBy, TypeOK
  <2>5. Verifying' = Verifying \cup {c} /\ c \notin Verifying
    <3>1. \A d \in Client : stage'[d] = "verify" <=> stage[d] = "verify" \/ d = c
      BY <2>1, <2>4
    <3> QED  BY <1>1, <3>1 DEF Verifying
  <2>6. \A codes : Rejected(codes)' = Rejected(codes)
    <3>1. \A d \in Client : stage'[d] = "returned" <=> stage[d] = "returned"
      BY <1>1, <2>1, <2>4
    <3> QED  BY <1>4, <3>1 DEF Rejected
  <2>7. Cardinality(Verifying') = Cardinality(Verifying) + 1
    <3>1. Verifying \in SUBSET Client /\ IsFiniteSet(Client)
      BY PolicyAssumption DEF Verifying
    <3>2. IsFiniteSet(Verifying)
      BY <3>1, FS_Subset
    <3> QED  BY <2>5, <3>2, FS_AddElement
  <2>8. slots = Cardinality(Verifying)
    BY <1>1 DEF ChecksAccounted, Verifying
  <2>9. slots' = Cardinality(Verifying')
    BY <1>4, <2>7, <2>8
  <2>10. slots' \in Nat /\ slots' <= MaxSlots
    BY <1>1, <1>4, PolicyAssumption, SMT DEF TypeOK
  <2>11. ChecksAccounted'
    BY <1>1, <2>6, <2>9, <2>10 DEF ChecksAccounted, Verifying, Rejected
  <2>12. TypeOK'
    BY <1>1, <2>1, <2>2, <2>10, MoveType DEF TypeOK, SameSessions
  <2> QED  BY <1>1, <2>1, <2>2, <2>3, <2>11, <2>12, MoveInv DEF AccessInv
<1>5. "accepted" \in Refusals \cup {"accepted"} /\ "unavailable" \in Refusals \cup {"accepted"}
      /\ "unavailable" # "accepted"
  BY DEF Refusals
<1> QED  BY <1>3, <1>4, <1>5 DEF Authenticate

\* The return codes of a verdict, and what the policy says of an accepted one.
LEMMA VerdictCodes ==
  ASSUME NEW c
  PROVE  /\ Verdict(c) \in Refusals \cup {"accepted"}
         /\ Verdict(c) = "accepted" => Entitled(req[c])
<1>1. Verdict(c) \in Refusals \cup {"accepted"}
  BY DEF Verdict, Refusals
<1>2. ASSUME Verdict(c) = "accepted" PROVE Entitled(req[c])
  <2>1. /\ verify(req[c]) /\ req[c].username # Missing
        /\ CanUseClientID(req[c].username, req[c].id)
    BY <1>2, SMT DEF Verdict
  <2> QED  BY <2>1 DEF Entitled, verify
<1> QED  BY <1>1, <1>2

\* The derivation ends.
LEMMA VerifiedInv ==
  ASSUME AccessInv, NEW c \in Client, Verified(c)
  PROVE  AccessInv'
<1> DEFINE v == Verdict(c)
           l == IF v = "accepted" THEN "acquire" ELSE "reject"
<1>1. /\ TypeOK /\ Sound(c) /\ ChecksAccounted /\ stage[c] = "verify"
      /\ Decide(c, v) /\ slots' = slots - 1
      /\ req' = req /\ stats' = stats /\ refused' = refused
      /\ SameServer /\ SameSessions
  BY DEF AccessInv, Verified, serverVars, sessionVars, SameServer, SameSessions
<1>2. v \in Refusals \cup {"accepted"} /\ (v = "accepted" => Entitled(req[c]))
  BY VerdictCodes
<1> HIDE DEF v
<1>3. v \in Codes
  BY <1>2 DEF Codes
<1>4. /\ OnlyBy(c, l) /\ l \in Places \ {"serve", "verify"} /\ l # "returned"
      /\ stage'[c] = l
  BY <1>1, <1>3, DecideMove
<1>5. Sound(c)'
  <2>1. req[c] \in Requests /\ server = "listening"
    BY <1>1 DEF Sound
  <2> QED  BY <1>1, <1>2, <2>1, DecideSound
<1> HIDE DEF l
<1>6. \A d \in Client \ {c} : stage'[d] = stage[d] /\ code'[d] = code[d]
  BY <1>1, <1>4 DEF OnlyBy, TypeOK
<1>7. Verifying' = Verifying \ {c} /\ c \in Verifying
  <2>1. \A d \in Client : stage'[d] = "verify" <=> stage[d] = "verify" /\ d # c
    BY <1>4, <1>6
  <2> QED  BY <1>1, <2>1 DEF Verifying
<1>8. \A codes : Rejected(codes)' = Rejected(codes)
  <2>1. ASSUME NEW codes, NEW d \in Client
        PROVE  stage'[d] = "returned" /\ code'[d] \in codes
                 <=> stage[d] = "returned" /\ code[d] \in codes
    BY <1>1, <1>4, <1>6
  <2> QED  BY <2>1 DEF Rejected
<1>9. Cardinality(Verifying') = Cardinality(Verifying) - 1 /\ Cardinality(Verifying) \in Nat
  <2>1. Verifying \in SUBSET Client /\ IsFiniteSet(Client)
    BY PolicyAssumption DEF Verifying
  <2>2. IsFiniteSet(Verifying)
    BY <2>1, FS_Subset
  <2> QED  BY <1>7, <2>2, FS_RemoveElement, FS_CardinalityType
<1>10. slots = Cardinality(Verifying) /\ slots <= MaxSlots
  BY <1>1 DEF ChecksAccounted, Verifying
<1>11. slots' = Cardinality(Verifying')
  BY <1>1, <1>9, <1>10
<1>12. slots' \in Nat /\ slots' <= MaxSlots
  <2>1. Verifying' \in SUBSET Client /\ IsFiniteSet(Client)
    BY PolicyAssumption DEF Verifying
  <2>2. slots' \in Nat
    BY <1>11, <2>1, FS_Subset, FS_CardinalityType
  <2> QED  BY <1>1, <1>10, <2>2, PolicyAssumption, SMT DEF TypeOK
<1>13. ChecksAccounted'
  BY <1>1, <1>8, <1>11, <1>12 DEF ChecksAccounted, Verifying, Rejected
<1>14. TypeOK'
  BY <1>1, <1>4, <1>12, MoveType DEF TypeOK, SameSessions
<1> QED  BY <1>1, <1>4, <1>5, <1>13, <1>14, MoveInv DEF AccessInv

\* The connection is refused and counted for its reason.
LEMMA RejectInv ==
  ASSUME AccessInv, NEW c \in Client, Reject(c)
  PROVE  AccessInv'
<1> DEFINE bad == {"unavailable", "badCredentials"}
           no == {"notAuthorized"}
<1>1. /\ TypeOK /\ Sound(c) /\ ChecksAccounted /\ stage[c] = "reject"
      /\ stage' = [stage EXCEPT ![c] = "returned"] /\ code' = code
      /\ req' = [req EXCEPT ![c] = Missing] /\ slots' = slots /\ refused' = refused
      /\ SameServer /\ SameSessions
  BY DEF AccessInv, Reject, Goto, serverVars, sessionVars, SameServer, SameSessions
<1>2. OnlyBy(c, "returned") /\ stage'[c] = "returned" /\ code[c] \in Refusals
      /\ server = "listening"
  BY <1>1 DEF OnlyBy, TypeOK, Sound
<1>3. "returned" \in Places \ {"serve"} /\ "returned" \in Places
  BY DEF Places
<1>4. Sound(c)'
  BY <1>1, <1>2 DEF Sound, SameServer
<1>5. \A d \in Client \ {c} : stage'[d] = stage[d] /\ code'[d] = code[d]
  BY <1>1, <1>2 DEF OnlyBy, TypeOK
<1>6. Verifying' = Verifying
  <2>1. \A d \in Client : stage'[d] = "verify" <=> stage[d] = "verify"
    BY <1>1, <1>2, <1>5
  <2> QED  BY <2>1 DEF Verifying
<1>7. ASSUME NEW codes
      PROVE  /\ IsFiniteSet(Rejected(codes)) /\ c \notin Rejected(codes)
             /\ Rejected(codes)' = IF code[c] \in codes THEN Rejected(codes) \cup {c}
                                   ELSE Rejected(codes)
  <2>1. Rejected(codes) \in SUBSET Client /\ IsFiniteSet(Client)
    BY PolicyAssumption DEF Rejected
  <2>2. \A d \in Client : stage'[d] = "returned" /\ code'[d] \in codes
          <=> (stage[d] = "returned" /\ code[d] \in codes) \/ (d = c /\ code[c] \in codes)
    BY <1>1, <1>2, <1>5
  <2>3. Rejected(codes)' = IF code[c] \in codes THEN Rejected(codes) \cup {c}
                           ELSE Rejected(codes)
    BY <2>2 DEF Rejected
  <2> QED  BY <1>1, <2>1, <2>3, FS_Subset DEF Rejected
<1> DEFINE a == Cardinality(Rejected(bad))
           z == Cardinality(Rejected(no))
<1>8. a \in Nat /\ z \in Nat
  BY <1>7, FS_CardinalityType
<1>9. /\ a' = IF code[c] \in bad THEN a + 1 ELSE a
      /\ z' = IF code[c] \in no THEN z + 1 ELSE z
  <2>1. ASSUME NEW codes
        PROVE  Cardinality(Rejected(codes)') =
                 IF code[c] \in codes THEN Cardinality(Rejected(codes)) + 1
                 ELSE Cardinality(Rejected(codes))
    <3>1. CASE code[c] \in codes
      <4>1. Rejected(codes)' = Rejected(codes) \cup {c}
        BY <1>7, <3>1
      <4>2. Cardinality(Rejected(codes) \cup {c}) = Cardinality(Rejected(codes)) + 1
        BY <1>7, FS_AddElement
      <4> QED  BY <3>1, <4>1, <4>2
    <3>2. CASE code[c] \notin codes
      BY <1>7, <3>2
    <3> QED  BY <3>1, <3>2
  <2> QED  BY <2>1
<1>10. /\ slots = Cardinality(Verifying) /\ slots <= MaxSlots
       /\ stats.authentication = a /\ stats.authorization = z + refused
  BY <1>1 DEF ChecksAccounted, Verifying, Rejected
<1>11. /\ stats \in [authentication : Nat, authorization : Nat] /\ refused \in Nat
       /\ slots \in Nat
  BY <1>1 DEF TypeOK
<1>12. /\ stats' \in [authentication : Nat, authorization : Nat]
       /\ stats'.authentication = a' /\ stats'.authorization = z' + refused
  <2>1. CASE code[c] = "notAuthorized"
    <3>1. stats' = [stats EXCEPT !.authorization = @ + 1]
      BY <2>1 DEF Reject
    <3>2. a' = a /\ z' = z + 1
      BY <1>9, <2>1
    <3> HIDE DEF a, z
    <3> QED  BY <1>8, <1>10, <1>11, <3>1, <3>2, SMT
  <2>2. CASE code[c] # "notAuthorized"
    <3>1. stats' = [stats EXCEPT !.authentication = @ + 1]
      BY <2>2 DEF Reject
    <3>2. a' = a + 1 /\ z' = z
      BY <1>2, <1>9, <2>2 DEF Refusals
    <3> HIDE DEF a, z
    <3> QED  BY <1>8, <1>10, <1>11, <3>1, <3>2, SMT
  <2> QED  BY <2>1, <2>2
<1>13. ChecksAccounted'
  BY <1>1, <1>6, <1>10, <1>12 DEF ChecksAccounted, Verifying, Rejected
<1>14. TypeOK'
  BY <1>1, <1>2, <1>3, <1>11, <1>12, MoveType DEF TypeOK, SameSessions
<1> QED  BY <1>1, <1>2, <1>3, <1>4, <1>13, <1>14, MoveInv DEF AccessInv

\* A handshake that ends in another way is not counted.
LEMMA AbandonInv ==
  ASSUME AccessInv, NEW c \in Client, Abandon(c)
  PROVE  AccessInv'
<1>1. /\ TypeOK /\ Sound(c) /\ stage[c] \in {"connect", "acquire"}
      /\ server = "listening" /\ stage' = [stage EXCEPT ![c] = "returned"]
      /\ code' = code /\ req' = [req EXCEPT ![c] = Missing]
      /\ SameServer /\ SameSessions /\ SameCounts
  BY DEF AccessInv, Abandon, Goto, serverVars, sessionVars, SameServer, SameSessions,
         SameCounts
<1>2. OnlyBy(c, "returned") /\ stage'[c] = "returned"
  BY <1>1 DEF OnlyBy, TypeOK
<1>3. code'[c] \in {"none", "accepted"}
  BY <1>1 DEF Sound
<1>4. code'[c] \notin Refusals /\ "returned" \in Places \ {"serve", "verify"}
  BY <1>3 DEF Refusals, Places
<1>5. Sound(c)'
  BY <1>1, <1>2 DEF Sound, SameServer
<1> QED  BY <1>1, <1>2, <1>4, <1>5, PlainMove

(***************************************************************************)
(* Sessions.                                                               *)
(***************************************************************************)

\* A session that a step leaves alone.
LEMMA OwnedFrame ==
  ASSUME NEW id, Owned(id), SameServer, owner'[id] = owner[id], subs'[id] = subs[id]
  PROVE  Owned(id)'
BY DEF Owned, CanUseClientID, CanSubscribe, SameServer

\* A session that is gone.
LEMMA OwnedGone ==
  ASSUME NEW id, owner'[id] = Missing, subs'[id] = {}
  PROVE  Owned(id)'
BY DEF Owned

\* A served connection's session is its identity's.
LEMMA ServedSession ==
  ASSUME AccessInv, NEW c \in Client, stage[c] = "serve"
  PROVE  /\ req[c] \in Requests /\ req[c].id \in ID /\ server = "listening"
         /\ code[c] = "accepted" /\ owner[req[c].id] = Identity(c)
         /\ policy # NoPolicy => owner[req[c].id] # Missing
<1>1. Sound(c)
  BY DEF AccessInv
<1>2. req[c] \in Requests /\ server = "listening" /\ code[c] = "accepted"
      /\ owner[req[c].id] = Identity(c) /\ (policy # NoPolicy => Entitled(req[c]))
  BY <1>1 DEF Sound
<1> QED  BY <1>2 DEF ID, Entitled, Identity

\* A connection gets the session of its client ID, or is refused.
LEMMA AcquireInv ==
  ASSUME AccessInv, NEW c \in Client, Acquire(c)
  PROVE  AccessInv'
<1> DEFINE id == req[c].id
<1>1. /\ TypeOK /\ Sound(c) /\ Sole /\ Started /\ stage[c] = "acquire" /\ req' = req
      /\ SameServer /\ SameCounts
  BY DEF AccessInv, Acquire, serverVars, SameServer, SameCounts
<1>2. /\ req[c] \in Requests /\ server = "listening" /\ code[c] = "accepted"
      /\ policy # NoPolicy => Entitled(req[c])
  BY <1>1 DEF Sound
<1>3. id \in ID
  BY <1>2 DEF ID
<1>4. CASE owner[id] \notin {Missing, Identity(c)}
  <2>1. Decide(c, "notAuthorized") /\ SameSessions
    BY <1>4 DEF Acquire, sessionVars, SameSessions
  <2>2. "notAuthorized" \in Codes /\ "notAuthorized" \in Refusals \cup {"accepted"}
        /\ "notAuthorized" # "accepted"
    BY DEF Codes, Refusals
  <2>3. /\ OnlyBy(c, "reject") /\ "reject" \in Places \ {"serve", "verify"}
        /\ "reject" # "returned"
    BY <1>1, <2>1, <2>2, DecideMove
  <2>4. Sound(c)'
    BY <1>1, <1>2, <2>1, <2>2, DecideSound
  <2> QED  BY <1>1, <2>1, <2>3, <2>4, PlainMove
<1>5. CASE owner[id] \in {Missing, Identity(c)}
  <2>1. /\ \A d \in Client : stage[d] = "serve" => req[d].id # id
        /\ owner' = [owner EXCEPT ![id] = Identity(c)]
        /\ subs' = IF req[c].clean THEN [subs EXCEPT ![id] = {}] ELSE subs
        /\ stage' = [stage EXCEPT ![c] = "serve"] /\ code' = code
    BY <1>5 DEF Acquire, Goto
  <2>2. OnlyBy(c, "serve") /\ stage'[c] = "serve" /\ "serve" \in Places
    BY <1>1, <2>1 DEF OnlyBy, TypeOK, Places
  <2>3. \A d \in Client \ {c} : stage'[d] = stage[d]
    BY <1>1, <2>2 DEF OnlyBy, TypeOK
  <2>4. /\ DOMAIN owner' = ID /\ DOMAIN subs' = ID /\ owner'[id] = Identity(c)
        /\ subs'[id] = {} \/ subs'[id] = subs[id]
        /\ \A i \in ID \ {id} : owner'[i] = owner[i] /\ subs'[i] = subs[i]
    <3>1. DOMAIN owner = ID /\ DOMAIN subs = ID
      BY <1>1 DEF TypeOK
    <3>2. CASE req[c].clean
      BY <1>3, <2>1, <3>1, <3>2
    <3>3. CASE ~req[c].clean
      BY <1>3, <2>1, <3>1, <3>3
    <3> QED  BY <3>2, <3>3
  <2>5. TypeOK'
    BY <1>1, <2>2, <2>4, MoveType DEF TypeOK, SameCounts
  <2>6. ChecksAccounted'
    <3>1. ChecksAccounted
      BY DEF AccessInv
    <3> QED  BY <1>1, <2>2, <3>1, MoveCounts, CountsFrame
  <2>7. Started'
    BY <1>1 DEF Started, SameServer
  <2>8. Sole'
    <3> SUFFICES ASSUME NEW d \in Client, NEW e \in Client,
                        stage'[d] = "serve", stage'[e] = "serve", req'[d].id = req'[e].id
                 PROVE  d = e
      BY DEF Sole
    <3>1. req[d].id = req[e].id
      BY <1>1
    <3>2. CASE d # c /\ e # c
      <4>1. stage[d] = "serve" /\ stage[e] = "serve"
        BY <2>3, <3>2
      <4> QED  BY <1>1, <3>1, <4>1 DEF Sole
    <3>3. ASSUME NEW f \in Client \ {c}, stage'[f] = "serve" PROVE req[f].id # id
      <4>1. stage[f] = "serve"
        BY <2>3, <3>3
      <4> QED  BY <2>1, <4>1
    <3> QED  BY <3>1, <3>2, <3>3
  <2>9. Sound(c)'
    <3>1. Identity(c)' = Identity(c) /\ req'[c] = req[c] /\ code'[c] = code[c]
      BY <1>1, <2>1 DEF Identity, SameServer
    <3> QED  BY <1>1, <1>2, <2>2, <2>4, <3>1
             DEF Sound, Entitled, CanUseClientID, SameServer
  <2>10. ASSUME NEW d \in Client PROVE Sound(d)'
    <3>1. CASE d = c
      BY <2>9, <3>1
    <3>2. CASE d # c
      <4>1. Sound(d) /\ d \in Client \ {c}
        BY <3>2 DEF AccessInv
      <4>2. stage[d] = "serve" => owner'[req[d].id] = owner[req[d].id]
        <5>1. ASSUME stage[d] = "serve" PROVE req[d].id \in ID \ {id}
          BY <2>1, <5>1, ServedSession
        <5> QED  BY <2>4, <5>1
      <4> QED  BY <1>1, <2>2, <4>1, <4>2, OthersSound
    <3> QED  BY <3>1, <3>2
  <2>11. ASSUME NEW i \in ID PROVE Owned(i)'
    <3>1. Owned(i)
      BY DEF AccessInv
    <3>2. CASE i = id
      <4>1. CASE policy = NoPolicy
        <5>1. owner'[i] = ""
          BY <2>4, <3>2, <4>1 DEF Identity
        <5> QED  BY <1>1, <1>2, <4>1, <5>1 DEF Owned, SameServer
      <4>2. CASE policy # NoPolicy
        <5>1. /\ owner'[i] = req[c].username /\ owner'[i] # Missing
              /\ owner'[i] \in DOMAIN policy /\ CanUseClientID(owner'[i], i)
          BY <1>2, <2>4, <3>2, <4>2 DEF Identity, Entitled
        <5>2. \A f \in subs'[i] : f \in Filters /\ CanSubscribe(owner'[i], f)
          <6>1. CASE subs'[i] = {}
            BY <6>1
          <6>2. CASE subs'[i] = subs[i] /\ owner[i] = Missing
            BY <3>1, <4>2, <6>2 DEF Owned
          <6>3. CASE subs'[i] = subs[i] /\ owner[i] # Missing
            <7>1. owner'[i] = owner[i]
              BY <1>5, <2>4, <3>2, <6>3
            <7> QED  BY <3>1, <4>2, <6>3, <7>1 DEF Owned
          <6> QED  BY <2>4, <3>2, <6>1, <6>2, <6>3
        <5> QED  BY <1>1, <1>2, <4>2, <5>1, <5>2
                 DEF Owned, CanUseClientID, CanSubscribe, SameServer
      <4> QED  BY <4>1, <4>2
    <3>3. CASE i # id
      BY <1>1, <2>4, <3>1, <3>3, OwnedFrame
    <3> QED  BY <3>2, <3>3
  <2> QED  BY <2>5, <2>6, <2>7, <2>8, <2>10, <2>11 DEF AccessInv
<1> QED  BY <1>4, <1>5

\* The handlers stay where they are.
Stay == stage' = stage /\ req' = req /\ code' = code

LEMMA StayInv ==
  ASSUME AccessInv, Stay, SameServer, DOMAIN owner' = ID, DOMAIN subs' = ID,
         slots' = slots, refused' \in Nat,
         stats' \in [authentication : Nat, authorization : Nat],
         ChecksAccounted',
         \A c \in Client : stage[c] = "serve" => owner'[req[c].id] = owner[req[c].id],
         \A id \in ID : Owned(id)'
  PROVE  AccessInv'
<1>1. TypeOK /\ Started /\ Sole
  BY DEF AccessInv
<1>2. TypeOK'
  BY <1>1 DEF TypeOK, Stay
<1>3. Started' /\ Sole'
  BY <1>1 DEF Started, Sole, Stay, SameServer
<1>4. ASSUME NEW c \in Client PROVE Sound(c)'
  <2>1. Sound(c)
    BY DEF AccessInv
  <2> QED  BY <2>1 DEF Sound, Identity, Entitled, CanUseClientID, Stay, SameServer
<1> QED  BY <1>2, <1>3, <1>4 DEF AccessInv

\* Without a handler moving, the same handlers are counted.
LEMMA StayCounts ==
  ASSUME Stay
  PROVE  /\ Verifying' = Verifying
         /\ \A codes \in SUBSET Refusals : Rejected(codes)' = Rejected(codes)
BY DEF Stay, Verifying, Rejected

\* A served connection ends; a clean session goes with it.
LEMMA ReturnInv ==
  ASSUME AccessInv, NEW c \in Client, stage[c] = "serve", Return(c),
         \/ SameCounts
         \/ recordAuthorizationRejection
  PROVE  AccessInv'
<1> DEFINE id == req[c].id
<1>1. /\ TypeOK /\ Sole /\ Started /\ ChecksAccounted
      /\ stage' = [stage EXCEPT ![c] = "returned"]
      /\ code' = code /\ req' = [req EXCEPT ![c] = Missing] /\ SameServer /\ slots' = slots
  BY DEF AccessInv, Return, Goto, serverVars, SameServer
<1>2. /\ id \in ID /\ server = "listening" /\ code[c] = "accepted"
  BY ServedSession
<1>3. /\ OnlyBy(c, "returned") /\ stage'[c] = "returned"
      /\ "returned" \in Places \ {"serve"} /\ "returned" \in Places
  BY <1>1 DEF OnlyBy, TypeOK, Places
<1>4. /\ Verifying' = Verifying
      /\ \A codes \in SUBSET Refusals : Rejected(codes)' = Rejected(codes)
  <2>1. code'[c] \notin Refusals
    BY <1>1, <1>2 DEF Refusals
  <2> QED  BY <1>1, <1>3, <2>1, MoveCounts
<1>5. ChecksAccounted' /\ refused' \in Nat
      /\ stats' \in [authentication : Nat, authorization : Nat]
  <2>1. CASE SameCounts
    BY <1>1, <1>4, <2>1, CountsFrame DEF SameCounts, TypeOK
  <2>2. CASE recordAuthorizationRejection
    BY <1>1, <1>4, <2>2, RefusalCounts
  <2> QED  BY <2>1, <2>2
<1>6. slots' \in Nat
  BY <1>1 DEF TypeOK
<1>7. Sound(c)'
  BY <1>1, <1>2, <1>3 DEF Sound, SameServer
<1>8. CASE ~req[c].clean
  <2>1. SameSessions
    BY <1>8 DEF Return, sessionVars, SameSessions
  <2>2. TypeOK'
    BY <1>1, <1>3, <1>5, <1>6, <2>1, MoveType DEF TypeOK, SameSessions
  <2> QED  BY <1>1, <1>3, <1>5, <1>7, <2>1, <2>2, MoveInv DEF AccessInv
<1>9. CASE req[c].clean
  <2>1. owner' = [owner EXCEPT ![id] = Missing] /\ subs' = [subs EXCEPT ![id] = {}]
    BY <1>9 DEF Return, Delete
  <2>2. /\ DOMAIN owner' = ID /\ DOMAIN subs' = ID
        /\ owner'[id] = Missing /\ subs'[id] = {}
        /\ \A i \in ID \ {id} : owner'[i] = owner[i] /\ subs'[i] = subs[i]
    BY <1>1, <1>2, <2>1 DEF TypeOK
  <2>3. TypeOK'
    BY <1>1, <1>3, <1>5, <1>6, <2>2, MoveType
  <2>4. Started'
    BY <1>1 DEF Started, SameServer
  <2>5. \A d \in Client \ {c} : stage'[d] = stage[d] /\ req'[d] = req[d]
    BY <1>1 DEF TypeOK
  <2>6. Sole'
    BY <1>1, <1>3, <2>5 DEF Sole
  <2>7. ASSUME NEW d \in Client PROVE Sound(d)'
    <3>1. CASE d = c
      BY <1>7, <3>1
    <3>2. CASE d # c
      <4>1. Sound(d) /\ d \in Client \ {c}
        BY <3>2 DEF AccessInv
      <4>2. stage[d] = "serve" => owner'[req[d].id] = owner[req[d].id]
        <5>1. ASSUME stage[d] = "serve" PROVE req[d].id \in ID \ {id}
          <6>1. req[d].id \in ID
            BY <5>1, ServedSession
          <6>2. req[d].id # id
            BY <1>1, <3>2, <5>1 DEF Sole
          <6> QED  BY <6>1, <6>2
        <5> QED  BY <2>2, <5>1
      <4> QED  BY <1>1, <1>3, <4>1, <4>2, OthersSound
    <3> QED  BY <3>1, <3>2
  <2>8. ASSUME NEW i \in ID PROVE Owned(i)'
    <3>1. Owned(i)
      BY DEF AccessInv
    <3>2. CASE i = id
      BY <2>2, <3>2, OwnedGone
    <3>3. CASE i # id
      BY <1>1, <2>2, <3>1, <3>3, OwnedFrame
    <3> QED  BY <3>2, <3>3
  <2> QED  BY <1>5, <2>3, <2>4, <2>6, <2>7, <2>8 DEF AccessInv
<1> QED  BY <1>8, <1>9

\* A granted filter is one the identity may subscribe to; a refused one is counted.
LEMMA SubscribeInv ==
  ASSUME AccessInv, NEW c \in Client, NEW f \in Filters, Subscribe(c, f)
  PROVE  AccessInv'
<1> DEFINE id == req[c].id
           granted == policy = NoPolicy \/ CanSubscribe(owner[id], f)
<1>1. /\ TypeOK /\ ChecksAccounted /\ stage[c] = "serve" /\ Stay /\ SameServer
      /\ slots' = slots /\ owner' = owner
  BY DEF AccessInv, Subscribe, Stay, serverVars, SameServer
<1>2. /\ id \in ID /\ server = "listening"
      /\ policy # NoPolicy => owner[id] # Missing
  BY <1>1, ServedSession
<1>3. /\ refused \in Nat /\ stats \in [authentication : Nat, authorization : Nat]
      /\ DOMAIN owner' = ID /\ DOMAIN subs = ID
      /\ \A i \in ID : owner'[i] = owner[i]
  BY <1>1 DEF TypeOK
<1>4. CASE granted
  <2>1. subs' = [subs EXCEPT ![id] = @ \cup {f}] /\ stats' = stats /\ refused' = refused
    BY <1>4 DEF Subscribe
  <2>2. /\ DOMAIN subs' = ID /\ subs'[id] = subs[id] \cup {f}
        /\ \A i \in ID \ {id} : subs'[i] = subs[i]
    BY <1>2, <1>3, <2>1
  <2>3. ChecksAccounted'
    BY <1>1, <2>1, StayCounts, CountsFrame DEF SameCounts
  <2>4. ASSUME NEW i \in ID PROVE Owned(i)'
    <3>1. Owned(i)
      BY DEF AccessInv
    <3>2. CASE i = id
      <4>1. CASE policy = NoPolicy
        BY <1>1, <1>2, <1>3, <3>1, <4>1 DEF Owned, SameServer
      <4>2. CASE policy # NoPolicy
        <5>1. /\ owner[i] # Missing /\ owner[i] \in DOMAIN policy
              /\ CanUseClientID(owner[i], i)
              /\ \A g \in subs[i] : g \in Filters /\ CanSubscribe(owner[i], g)
          BY <1>2, <3>1, <3>2, <4>2 DEF Owned
        <5>2. \A g \in subs'[i] : g \in Filters /\ CanSubscribe(owner[i], g)
          BY <1>4, <2>2, <3>2, <4>2, <5>1
        <5> QED  BY <1>1, <1>2, <1>3, <4>2, <5>1, <5>2
                 DEF Owned, CanUseClientID, CanSubscribe, SameServer
      <4> QED  BY <4>1, <4>2
    <3>3. CASE i # id
      BY <1>1, <1>3, <2>2, <3>1, <3>3, OwnedFrame
    <3> QED  BY <3>2, <3>3
  <2> QED  BY <1>1, <1>3, <2>1, <2>2, <2>3, <2>4, StayInv
<1>5. CASE ~granted
  <2>1. recordAuthorizationRejection /\ subs' = subs
    BY <1>5 DEF Subscribe
  <2>2. ChecksAccounted' /\ refused' \in Nat
        /\ stats' \in [authentication : Nat, authorization : Nat]
    BY <1>1, <2>1, StayCounts, RefusalCounts
  <2>3. ASSUME NEW i \in ID PROVE Owned(i)'
    <3>1. Owned(i)
      BY DEF AccessInv
    <3> QED  BY <1>1, <2>1, <3>1, OwnedFrame
  <2> QED  BY <1>1, <1>3, <2>1, <2>2, <2>3, StayInv
<1> QED  BY <1>4, <1>5

\* A filter goes.
LEMMA UnsubscribeInv ==
  ASSUME AccessInv, NEW c \in Client, NEW f \in Filters, Unsubscribe(c, f)
  PROVE  AccessInv'
<1> DEFINE id == req[c].id
<1>1. /\ TypeOK /\ ChecksAccounted /\ stage[c] = "serve" /\ Stay /\ SameServer
      /\ SameCounts /\ owner' = owner /\ subs' = [subs EXCEPT ![id] = @ \ {f}]
  BY DEF AccessInv, Unsubscribe, Stay, serverVars, SameServer, SameCounts
<1>2. /\ refused' \in Nat /\ stats' \in [authentication : Nat, authorization : Nat]
      /\ DOMAIN owner' = ID /\ DOMAIN subs = ID
  BY <1>1 DEF TypeOK, SameCounts
<1>3. DOMAIN subs' = ID /\ \A i \in ID : subs'[i] \subseteq subs[i] /\ (subs[i] = {} => subs'[i] = {})
  BY <1>1, <1>2
<1>4. ChecksAccounted'
  BY <1>1, StayCounts, CountsFrame
<1>5. ASSUME NEW i \in ID PROVE Owned(i)'
  <2>1. Owned(i) /\ owner'[i] = owner[i]
    BY <1>1 DEF AccessInv
  <2> QED  BY <1>1, <1>3, <2>1 DEF Owned, CanUseClientID, CanSubscribe, SameServer
<1> QED  BY <1>1, <1>2, <1>3, <1>4, <1>5, StayInv DEF SameCounts

\* A session without a connection goes.
LEMMA ExpireInv ==
  ASSUME AccessInv, NEW id \in ID, Expire(id)
  PROVE  AccessInv'
<1>1. /\ TypeOK /\ ChecksAccounted /\ Stay /\ SameServer /\ SameCounts
      /\ owner' = [owner EXCEPT ![id] = Missing] /\ subs' = [subs EXCEPT ![id] = {}]
      /\ \A c \in Client : stage[c] = "serve" => req[c].id # id
  BY DEF AccessInv, Expire, Delete, Stay, serverVars, SameServer, SameCounts
<1>2. /\ refused' \in Nat /\ stats' \in [authentication : Nat, authorization : Nat]
      /\ DOMAIN owner' = ID /\ DOMAIN subs' = ID
      /\ owner'[id] = Missing /\ subs'[id] = {}
      /\ \A i \in ID \ {id} : owner'[i] = owner[i] /\ subs'[i] = subs[i]
  BY <1>1 DEF TypeOK, SameCounts
<1>3. ChecksAccounted'
  BY <1>1, StayCounts, CountsFrame
<1>4. ASSUME NEW i \in ID PROVE Owned(i)'
  <2>1. Owned(i)
    BY DEF AccessInv
  <2>2. CASE i = id
    BY <1>2, <2>2, OwnedGone
  <2>3. CASE i # id
    BY <1>1, <1>2, <2>1, <2>3, OwnedFrame
  <2> QED  BY <2>2, <2>3
<1>5. ASSUME NEW c \in Client, stage[c] = "serve"
      PROVE  owner'[req[c].id] = owner[req[c].id]
  BY <1>1, <1>2, <1>5, ServedSession
<1> QED  BY <1>1, <1>2, <1>3, <1>4, <1>5, StayInv DEF SameCounts

(***************************************************************************)
(* The server, and all steps.                                              *)
(***************************************************************************)

\* Nothing has happened before the server listens.
LEMMA RunInv ==
  ASSUME AccessInv, Run
  PROVE  AccessInv'
<1>1. PICK k \in Configs :
        /\ config' = k
        /\ server' = IF Startable(k) THEN "listening" ELSE "failed"
        /\ policy' = IF Startable(k) /\ k.mode = "secure" THEN New(k.users) ELSE NoPolicy
  BY DEF Run
<1>2. /\ TypeOK /\ Sole /\ ChecksAccounted /\ server = "starting"
      /\ Stay /\ SameSessions /\ SameCounts
  BY DEF AccessInv, Run, sessionVars, Stay, SameSessions, SameCounts
<1>3. TypeOK' /\ Sole'
  BY <1>2 DEF TypeOK, Sole, Stay, SameSessions, SameCounts
<1>4. ChecksAccounted'
  BY <1>2, StayCounts, CountsFrame
<1>5. Started'
  <2>1. CASE Startable(k)
    BY <1>1, <2>1 DEF Started
  <2>2. CASE ~Startable(k)
    <3>1. server' = "failed" /\ policy' = NoPolicy
      BY <1>1, <2>2
    <3> QED  BY <3>1 DEF Started
  <2> QED  BY <2>1, <2>2
<1>6. ASSUME NEW c \in Client PROVE Sound(c)'
  <2>1. stage[c] = "connect" /\ code[c] = "none"
    BY <1>2 DEF AccessInv, Sound
  <2> QED  BY <1>2, <2>1 DEF Sound, Stay
<1>7. ASSUME NEW id \in ID PROVE Owned(id)'
  <2>1. owner[id] = Missing /\ subs[id] = {}
    BY <1>2 DEF AccessInv, Owned
  <2> QED  BY <1>2, <2>1, OwnedGone DEF SameSessions
<1> QED  BY <1>3, <1>4, <1>5, <1>6, <1>7 DEF AccessInv

\* Only time passes.
LEMMA QuietInv ==
  ASSUME AccessInv, Stay, SameServer, SameSessions, SameCounts
  PROVE  AccessInv'
<1>1. TypeOK /\ ChecksAccounted
  BY DEF AccessInv
<1>2. ChecksAccounted'
  BY <1>1, StayCounts, CountsFrame
<1>3. ASSUME NEW id \in ID PROVE Owned(id)'
  <2>1. Owned(id)
    BY DEF AccessInv
  <2> QED  BY <2>1, OwnedFrame DEF SameSessions
<1>4. /\ refused' \in Nat /\ stats' \in [authentication : Nat, authorization : Nat]
      /\ DOMAIN owner' = ID /\ DOMAIN subs' = ID
  BY <1>1 DEF TypeOK, SameSessions, SameCounts
<1> QED  BY <1>2, <1>3, <1>4, StayInv DEF SameSessions, SameCounts

LEMMA NextAccess == AccessInv /\ [AccessNext]_accessVars => AccessInv'
<1> SUFFICES ASSUME AccessInv, [AccessNext]_accessVars PROVE AccessInv'
  OBVIOUS
<1>1. CASE Run
  BY <1>1, RunInv
<1>2. CASE Shutdown
  <2>1. Stay /\ SameServer /\ SameSessions /\ SameCounts
    BY <1>2 DEF Shutdown, Stay, serverVars, sessionVars, SameServer, SameSessions, SameCounts
  <2> QED  BY <2>1, QuietInv
<1>3. ASSUME NEW c \in Client, Deadline(c) PROVE AccessInv'
  <2>1. Stay /\ SameServer /\ SameSessions /\ SameCounts
    BY <1>3 DEF Deadline, Stay, serverVars, sessionVars, SameServer, SameSessions, SameCounts
  <2> QED  BY <2>1, QuietInv
<1>4. ASSUME NEW c \in Client, Advance(c) PROVE AccessInv'
  BY <1>4, AuthenticateInv, VerifiedInv, RejectInv, AbandonInv DEF Advance
<1>5. ASSUME NEW c \in Client, Disconnect(c) \/ PublishRefused(c) PROVE AccessInv'
  <2>1. stage[c] = "serve" /\ Return(c)
    BY <1>5 DEF Disconnect, PublishRefused
  <2>2. SameCounts \/ recordAuthorizationRejection
    <3>1. CASE Disconnect(c)
      BY <3>1 DEF Disconnect, Return, SameCounts
    <3>2. CASE PublishRefused(c)
      BY <3>2 DEF PublishRefused
    <3> QED  BY <1>5, <3>1, <3>2
  <2> QED  BY <2>1, <2>2, ReturnInv
<1>6. CASE UNCHANGED accessVars
  <2>1. Stay /\ SameServer /\ SameSessions /\ SameCounts
    BY <1>6 DEF accessVars, Stay, serverVars, sessionVars, SameServer, SameSessions, SameCounts
  <2> QED  BY <2>1, QuietInv
<1>7. CASE AccessFinished
  BY <1>6, <1>7 DEF AccessFinished
<1> QED  BY <1>1, <1>2, <1>3, <1>4, <1>5, <1>6, <1>7, ConnectInv, AcquireInv, AbandonInv,
            SubscribeInv, UnsubscribeInv, ExpireInv DEF AccessNext

LEMMA AccessInvariant == AccessSpec => []AccessInv
<1> QED  BY InitAccess, NextAccess, PTL DEF AccessSpec

(***************************************************************************)
(* The theorems.                                                           *)
(***************************************************************************)

\* The slots for derivations and the counters of refused packets are exact,
\* however handshakes interleave with deadlines and shutdown (Local.slots,
\* the deferred release, rejectConnection, recordAuthorizationRejection).
THEOREM ChecksCorrect == AccessSpec => []ChecksAccounted
<1>1. AccessInv => ChecksAccounted
  BY DEF AccessInv
<1> QED  BY <1>1, AccessInvariant, PTL

\* With a policy, the entries of the file and the policy are the same.
LEMMA PolicyOfFile ==
  ASSUME Started, policy # NoPolicy
  PROVE  /\ server = "listening" /\ config \in Configs /\ Startable(config)
         /\ config.mode = "secure" /\ config.tls
         /\ \A u \in Range(config.users) :
              u.publish \in SUBSET Seq(STRING) /\ u.subscribe \in SUBSET Seq(STRING)
         /\ \A u \in DOMAIN policy :
              policy[u] \in Range(config.users) /\ policy[u].username = u
         /\ \A e \in Range(config.users) :
              e.username \in DOMAIN policy /\ policy[e.username] = e
         /\ \A u, v \in DOMAIN policy : \A id \in Range(policy[u].clientIDs) :
              id \in Range(policy[v].clientIDs) => u = v
<1>1. /\ server = "listening" /\ config \in Configs /\ Startable(config)
      /\ config.mode = "secure" /\ policy = New(config.users)
  BY DEF Started
<1>2. config.tls /\ ValidUsers(config.users)
  BY <1>1 DEF Startable, Validate, validate
<1>3. /\ config.users \in Seq(Range(config.users))
      /\ \A u \in Range(config.users) : u.publish \cup u.subscribe \subseteq Seq(STRING)
  BY <1>1, PolicyAssumption
<1>4. \A u \in Range(config.users) :
        u.publish \in SUBSET Seq(STRING) /\ u.subscribe \in SUBSET Seq(STRING)
  BY <1>3
<1> DEFINE users == config.users
<1>5. users \in Seq(Range(users)) /\ ValidUsers(users) /\ policy = New(users)
  BY <1>1, <1>2, <1>3
<1>6. /\ \A u \in DOMAIN policy : policy[u] \in Range(users) /\ policy[u].username = u
      /\ \A e \in Range(users) : e.username \in DOMAIN policy /\ policy[e.username] = e
      /\ \A u, v \in DOMAIN policy : \A id \in Range(policy[u].clientIDs) :
           id \in Range(policy[v].clientIDs) => u = v
  <2> HIDE DEF users
  <2>1. /\ \A u \in DOMAIN New(users) :
             New(users)[u] \in Range(users) /\ New(users)[u].username = u
        /\ \A e \in Range(users) :
             e.username \in DOMAIN New(users) /\ New(users)[e.username] = e
        /\ \A u, v \in DOMAIN New(users) : \A id \in Range(New(users)[u].clientIDs) :
             id \in Range(New(users)[v].clientIDs) => u = v
    BY <1>5, PolicyUsers
  <2> QED  BY <1>5, <2>1
<1> QED  BY <1>1, <1>2, <1>4, <1>6

\* A session belongs to the identity its client ID is listed for, and receives
\* only what a rule of this identity matches (CanUseClientID, CanSubscribe,
\* acquireConnection), for every file, every filter and every topic.
THEOREM SubscriptionsCorrect == AccessSpec => []SubscriptionsPermitted
<1>1. AccessInv => SubscriptionsPermitted
  <2> SUFFICES ASSUME AccessInv, NEW id \in ID, owner[id] # Missing
               PROVE  IF policy = NoPolicy THEN owner[id] = ""
                      ELSE \E u \in Range(config.users) :
                             /\ u.username = owner[id] /\ id \in Range(u.clientIDs)
                             /\ \A f \in subs[id], name \in Names :
                                  MatchFilter(f, name) =>
                                    \E g \in u.subscribe : MatchFilter(g, name)
    BY DEF SubscriptionsPermitted
  <2>1. Started /\ Owned(id)
    BY DEF AccessInv
  <2>2. CASE policy = NoPolicy
    BY <2>1, <2>2 DEF Owned
  <2>3. CASE policy # NoPolicy
    <3>1. /\ owner[id] \in DOMAIN policy /\ CanUseClientID(owner[id], id)
          /\ \A f \in subs[id] : f \in Filters /\ CanSubscribe(owner[id], f)
      BY <2>1, <2>3 DEF Owned
    <3> DEFINE u == policy[owner[id]]
    <3>2. u \in Range(config.users) /\ u.username = owner[id]
      BY <2>1, <2>3, <3>1, PolicyOfFile
    <3>3. u.subscribe \in SUBSET Seq(STRING)
      BY <2>1, <2>3, <3>2, PolicyOfFile
    <3>4. id \in Range(u.clientIDs)
      BY <3>1 DEF CanUseClientID
    <3>5. ASSUME NEW f \in subs[id], NEW name \in Names, MatchFilter(f, name)
          PROVE  \E g \in u.subscribe : MatchFilter(g, name)
      <4>1. PICK g \in u.subscribe : CoversFilter(g, f)
        BY <3>1 DEF CanSubscribe
      <4>2. /\ g \in Seq(STRING) /\ f \in Seq(STRING) /\ name \in Seq(STRING)
            /\ ValidTopic(name)
        BY <3>1, <3>3, PolicyAssumption
      <4>3. MatchFilter(g, name)
        BY <3>5, <4>1, <4>2, CoversSound
      <4> QED  BY <4>3
    <3> HIDE DEF u
    <3> QED  BY <2>3, <3>2, <3>4, <3>5
  <2> QED  BY <2>2, <2>3
<1> QED  BY <1>1, AccessInvariant, PTL

\* What the return code v says of the request of c.
Truthful(c, v) ==
  CASE v = "accepted" ->
         IF config.mode = "secure"
         THEN config.tls /\ Valid(req[c]) /\ Permitted(req[c])
         ELSE config.loopback
    [] v = "badCredentials" -> ~Valid(req[c])
    [] v = "notAuthorized" -> Valid(req[c]) /\ ~Permitted(req[c])
    [] v = "unavailable" ->
         \/ Over(c)
         \/ MaxSlots = Cardinality({d \in Client : stage[d] = "verify"})

\* Without a policy the configuration is for development on loopback.
LEMMA Loopback ==
  ASSUME Started, server = "listening", policy = NoPolicy
  PROVE  config.mode # "secure" /\ config.loopback
<1>1. config \in Configs /\ Startable(config)
      /\ (config.mode = "secure" => New(config.users) = NoPolicy)
  BY DEF Started
<1>2. config.mode # "secure"
  BY <1>1, PolicyAssumption
<1> QED  BY <1>1, <1>2 DEF Startable, Validate, validate

\* A derivation's verdict agrees with the file.
LEMMA VerdictTrue ==
  ASSUME Started, NEW c \in Client, policy # NoPolicy, req[c] \in Requests
  PROVE  Truthful(c, Verdict(c))
<1> DEFINE r == req[c]
           e == policy[r.username]
           given == Missing \notin {r.username, r.password}
<1>1. /\ config.mode = "secure" /\ config.tls
      /\ \A u \in DOMAIN policy :
           policy[u] \in Range(config.users) /\ policy[u].username = u
      /\ \A u \in Range(config.users) :
           u.username \in DOMAIN policy /\ policy[u.username] = u
  BY PolicyOfFile
<1>2. given => (verify(r) <=> r.username \in DOMAIN policy /\ e.password = r.password)
  BY DEF verify
<1>3. Valid(r) <=> given /\ verify(r)
  <2>1. ASSUME Valid(r) PROVE given /\ verify(r)
    <3>1. given
      BY <2>1 DEF Valid
    <3>2. PICK u \in Range(config.users) : u.username = r.username /\ u.password = r.password
      BY <2>1 DEF Valid
    <3>3. r.username \in DOMAIN policy /\ e = u
      BY <1>1, <3>2
    <3> QED  BY <1>2, <3>1, <3>2, <3>3
  <2>2. ASSUME given, verify(r) PROVE Valid(r)
    <3>1. r.username \in DOMAIN policy /\ e.password = r.password
      BY <1>2, <2>2
    <3>2. e \in Range(config.users) /\ e.username = r.username
      BY <1>1, <3>1
    <3> HIDE DEF e
    <3> QED  BY <2>2, <3>1, <3>2 DEF Valid
  <2> QED  BY <2>1, <2>2
<1>4. ASSUME Valid(r)
      PROVE  Permitted(r) <=> /\ CanUseClientID(r.username, r.id)
                              /\ r.will # Missing => CanPublish(r.username, r.will)
  <2>1. r.username \in DOMAIN policy /\ e \in Range(config.users) /\ e.username = r.username
    BY <1>1, <1>2, <1>3, <1>4
  <2>2. \A u \in Range(config.users) : u.username = r.username => u = e
    BY <1>1
  <2>3. Permitted(r) <=> /\ r.id \in Range(e.clientIDs)
                         /\ r.will # Missing => \E f \in e.publish : MatchFilter(f, r.will)
    <3> HIDE DEF e
    <3> QED  BY <2>1, <2>2 DEF Permitted
  <2>4. r.will # Missing => ValidTopic(r.will)
    BY PolicyAssumption
  <2>5. CanUseClientID(r.username, r.id) <=> r.id \in Range(e.clientIDs)
    BY DEF CanUseClientID
  <2>6. r.will # Missing =>
          (CanPublish(r.username, r.will) <=> \E f \in e.publish : MatchFilter(f, r.will))
    BY <2>4 DEF CanPublish
  <2> QED  BY <2>3, <2>5, <2>6
<1>5. CASE Over(c)
  <2>1. Verdict(c) = "unavailable"
    BY <1>5 DEF Verdict
  <2> QED  BY <1>5, <2>1 DEF Truthful
<1>6. CASE ~Over(c) /\ ~(given /\ verify(r))
  <2>1. Verdict(c) = "badCredentials"
    BY <1>6 DEF Verdict
  <2> QED  BY <1>3, <1>6, <2>1 DEF Truthful
<1>7. CASE /\ ~Over(c) /\ given /\ verify(r)
           /\ ~(/\ CanUseClientID(r.username, r.id)
                /\ r.will # Missing => CanPublish(r.username, r.will))
  <2>1. Verdict(c) = "notAuthorized"
    BY <1>7 DEF Verdict
  <2>2. Valid(r) /\ ~Permitted(r)
    BY <1>3, <1>4, <1>7
  <2> QED  BY <2>1, <2>2 DEF Truthful
<1>8. CASE /\ ~Over(c) /\ given /\ verify(r) /\ CanUseClientID(r.username, r.id)
           /\ r.will # Missing => CanPublish(r.username, r.will)
  <2>1. Verdict(c) = "accepted"
    BY <1>8 DEF Verdict
  <2>2. Valid(r) /\ Permitted(r)
    BY <1>3, <1>4, <1>8
  <2> QED  BY <1>1, <2>1, <2>2 DEF Truthful
<1> QED  BY <1>5, <1>6, <1>7, <1>8

\* The session of a connection that got so far never belongs to another identity.
LEMMA NeverForeign ==
  ASSUME AccessInv, NEW c \in Client, stage[c] = "acquire"
  PROVE  owner[req[c].id] \in {Missing, Identity(c)}
<1> DEFINE id == req[c].id
<1>1. Started /\ Sound(c)
  BY DEF AccessInv
<1>2. req[c] \in Requests /\ (policy # NoPolicy => Entitled(req[c]))
  BY <1>1 DEF Sound
<1>3. Owned(id)
  BY <1>2 DEF AccessInv, ID
<1>4. CASE policy = NoPolicy
  BY <1>3, <1>4 DEF Owned, Identity
<1>5. CASE policy # NoPolicy /\ owner[id] # Missing
  <2>1. owner[id] \in DOMAIN policy /\ id \in Range(policy[owner[id]].clientIDs)
    BY <1>3, <1>5 DEF Owned, CanUseClientID
  <2>2. /\ req[c].username \in DOMAIN policy
        /\ id \in Range(policy[req[c].username].clientIDs)
    BY <1>2, <1>5 DEF Entitled, CanUseClientID
  <2>3. \A u, v \in DOMAIN policy : \A i \in Range(policy[u].clientIDs) :
          i \in Range(policy[v].clientIDs) => u = v
    BY <1>1, <1>5, PolicyOfFile
  <2>4. owner[id] = req[c].username
    BY <2>1, <2>2, <2>3
  <2> QED  BY <1>5, <2>4 DEF Identity
<1> QED  BY <1>4, <1>5

\* A code is only decided on in three places, and truthfully in each.
LEMMA CodeStep ==
  ASSUME AccessInv, AccessNext, NEW c \in Client, code'[c] # code[c]
  PROVE  Truthful(c, code'[c])
<1>1. TypeOK /\ Started /\ ChecksAccounted /\ Sound(c)
  BY DEF AccessInv
<1>2. code' # code
  OBVIOUS
<1>3. PICK d \in Client : Authenticate(d) \/ Verified(d) \/ Acquire(d)
  <2>1. ~Run /\ ~Shutdown /\ ~AccessFinished /\ \A i \in ID : ~Expire(i)
    BY <1>2 DEF Run, Shutdown, AccessFinished, accessVars, Expire
  <2>2. \A d \in Client :
          /\ ~Deadline(d) /\ ~Connect(d) /\ ~Reject(d) /\ ~Abandon(d)
          /\ ~Disconnect(d) /\ ~PublishRefused(d)
          /\ \A f \in Filters : ~Subscribe(d, f) /\ ~Unsubscribe(d, f)
    BY <1>2 DEF Deadline, Connect, Reject, Abandon, Disconnect, PublishRefused, Return,
                Subscribe, Unsubscribe
  <2> QED  BY <2>1, <2>2 DEF AccessNext, Advance
<1>4. ASSUME NEW v, Decide(d, v) PROVE c = d /\ code'[c] = v
  BY <1>1, <1>4 DEF Decide, TypeOK
<1>5. CASE Authenticate(d)
  <2>1. CASE policy = NoPolicy
    <3>1. Decide(d, "accepted") /\ stage[d] = "authenticate"
      BY <1>5, <2>1 DEF Authenticate
    <3>2. c = d /\ code'[c] = "accepted"
      BY <1>4, <3>1
    <3>3. server = "listening"
      BY <1>1, <3>1, <3>2 DEF Sound
    <3>4. config.mode # "secure" /\ config.loopback
      BY <1>1, <2>1, <3>3, Loopback
    <3> QED  BY <3>2, <3>4 DEF Truthful
  <2>2. CASE policy # NoPolicy
    <3>1. Decide(d, "unavailable") /\ (Over(d) \/ slots = MaxSlots)
      BY <1>2, <1>5, <2>2 DEF Authenticate
    <3>2. c = d /\ code'[c] = "unavailable"
      BY <1>4, <3>1
    <3>3. slots = Cardinality({e \in Client : stage[e] = "verify"})
      BY <1>1 DEF ChecksAccounted
    <3> QED  BY <3>1, <3>2, <3>3 DEF Truthful
  <2> QED  BY <2>1, <2>2
<1>6. CASE Verified(d)
  <2>1. Decide(d, Verdict(d)) /\ stage[d] = "verify"
    BY <1>6 DEF Verified
  <2>2. c = d /\ code'[c] = Verdict(c)
    BY <1>4, <2>1
  <2>3. policy # NoPolicy /\ req[c] \in Requests
    BY <1>1, <2>1, <2>2 DEF Sound
  <2>4. Truthful(c, Verdict(c))
    BY <1>1, <2>3, VerdictTrue
  <2> QED  BY <2>2, <2>4
<1>7. CASE Acquire(d)
  <2>1. stage[d] = "acquire"
    BY <1>7 DEF Acquire
  <2>2. owner[req[d].id] \in {Missing, Identity(d)}
    BY <2>1, NeverForeign
  <2>3. code' = code
    BY <1>7, <2>2 DEF Acquire
  <2> QED  BY <1>2, <2>3
<1> QED  BY <1>3, <1>5, <1>6, <1>7

\* A CONNACK's return code tells the truth about the request and the file, for
\* every file, every number of handlers and of slots (authenticateConnect,
\* Local.Authenticate, acquireConnection).
THEOREM VerdictCorrect == AccessSpec => VerdictTruthful
<1>1. ASSUME AccessInv, AccessNext
      PROVE  \A c \in Client :
               code'[c] # code[c] =>
                 CASE code'[c] = "accepted" ->
                        IF config.mode = "secure"
                        THEN config.tls /\ Valid(req[c]) /\ Permitted(req[c])
                        ELSE config.loopback
                   [] code'[c] = "badCredentials" -> ~Valid(req[c])
                   [] code'[c] = "notAuthorized" -> Valid(req[c]) /\ ~Permitted(req[c])
                   [] code'[c] = "unavailable" ->
                        \/ Over(c)
                        \/ MaxSlots = Cardinality({d \in Client : stage[d] = "verify"})
  BY <1>1, CodeStep DEF Truthful
<1> QED  BY <1>1, AccessInvariant, PTL DEF AccessSpec, VerdictTruthful

(***************************************************************************)
(* CoversFilter decides inclusion.                                         *)
(***************************************************************************)

\* The levels of two strings are at the same places.
Alike(s, t) ==
  /\ Len(Split(t)) = Len(Split(s))
  /\ \A k \in 1..Len(Split(s)) :
       \E i \in 1..(Len(s) + 1) : \E n \in i..(Len(s) + 1) :
         /\ Split(s)[k] = SubSeq(s, i, n - 1) /\ Split(t)[k] = SubSeq(t, i, n - 1)
         /\ i = 1 \/ s[i - 1] = "/"
         /\ n = Len(s) + 1 \/ s[n] = "/"
         /\ \A j \in i..(n - 1) : s[j] # "/"

\* Strings with their separators at the same places have their levels at the
\* same places.
LEMMA SameLevels ==
  ASSUME NEW C, NEW s \in Seq(C), NEW t \in Seq(C), Len(t) = Len(s),
         \A i \in 1..Len(s) : s[i] = "/" <=> t[i] = "/"
  PROVE  Alike(s, t)
<1>1. Len(s) \in Nat
  BY SMT
<1>2. Starts(t) = Starts(s)
  BY <1>1, SMT DEF Starts
<1>3. Len(Split(t)) = Len(Split(s)) /\ Len(Split(s)) = Cardinality(Starts(s))
      /\ Len(Split(s)) \in Nat
  BY <1>2, SplitSequence, Zenon
<1>4. ASSUME NEW k \in 1..Len(Split(s))
      PROVE  \E i \in 1..(Len(s) + 1) : \E n \in i..(Len(s) + 1) :
               /\ Split(s)[k] = SubSeq(s, i, n - 1) /\ Split(t)[k] = SubSeq(t, i, n - 1)
               /\ i = 1 \/ s[i - 1] = "/"
               /\ n = Len(s) + 1 \/ s[n] = "/"
               /\ \A j \in i..(n - 1) : s[j] # "/"
  <2>1. k \in Nat
    BY <1>3, SMT
  <2>2. PICK i \in Starts(s) : Cardinality(Before(s, i)) = k - 1
    BY <1>3, StartOf, Zenon
  <2>3. i \in 1..(Len(s) + 1) /\ (i = 1 \/ s[i - 1] = "/")
    BY Zenon DEF Starts
  <2>4. PICK n : n = Separator(s, i)
    OBVIOUS
  <2>5. /\ n \in i..(Len(s) + 1)
        /\ n = Len(s) + 1 \/ s[n] = "/"
        /\ \A j \in i..(n - 1) : s[j] # "/"
    BY <2>3, <2>4, SeparatorFound, Zenon
  <2>6. Separator(t, i) = n
    <3>1. /\ i \in 1..(Len(t) + 1) /\ n \in i..(Len(t) + 1)
          /\ n = Len(t) + 1 \/ t[n] = "/"
          /\ \A j \in i..(n - 1) : t[j] # "/"
      BY <1>1, <2>3, <2>5, SMT
    <3> QED  BY <3>1, SeparatorIs, Zenon
  <2>7. Before(t, i) = Before(s, i)
    BY <1>2, Zenon DEF Before
  <2>8. Split(s)[k] = Level(s, i) /\ Split(t)[k] = Level(t, i)
    BY <1>2, <2>1, <2>2, <2>7, LevelAt, Zenon
  <2> QED  BY <2>3, <2>4, <2>5, <2>6, <2>8, Zenon DEF Level
<1> QED  BY <1>3, <1>4, Zenon DEF Alike

\* A topic for a filter: another character stands for every wildcard.
Filled(s, fresh) == [i \in DOMAIN s |-> IF s[i] \in {"+", "#"} THEN fresh ELSE s[i]]

FilledBy(s, t, fresh) ==
  /\ Len(t) = Len(s)
  /\ \A i \in 1..Len(s) : s[i] = "/" <=> t[i] = "/"
  /\ StartsWith(t, {"$"}) <=> StartsWith(s, {"$"})
  /\ Len(Split(t)) = Len(Split(s))
  /\ \A k \in 1..Len(Split(s)) :
       Split(t)[k] = IF Split(s)[k] \in {Plus, Hash} THEN <<fresh>> ELSE Split(s)[k]

LEMMA FilledLevels ==
  ASSUME NEW C, NEW s \in Seq(C), ValidFilter(s),
         NEW fresh \in C, fresh \notin {"/", "+", "#", "$"}
  PROVE  LET t == Filled(s, fresh)
         IN  t \in Seq(C) /\ ValidTopic(t) /\ FilledBy(s, t, fresh)
<1> DEFINE t == Filled(s, fresh)
<1>1. /\ t \in Seq(C) /\ Len(t) = Len(s) /\ Len(s) \in Nat \ {0}
      /\ \A i \in 1..Len(s) : t[i] = IF s[i] \in {"+", "#"} THEN fresh ELSE s[i]
  <2>1. Len(s) \in Nat /\ s # <<>> /\ DOMAIN s = 1..Len(s)
    BY SMT DEF ValidFilter
  <2>2. t \in [1..Len(s) -> C]
    BY <2>1, SMT DEF Filled
  <2>3. \A i \in 1..Len(s) : t[i] = IF s[i] \in {"+", "#"} THEN fresh ELSE s[i]
    BY <2>1, Zenon DEF Filled
  <2> HIDE DEF t
  <2>4. t \in Seq(C) /\ Len(t) = Len(s)
    BY <2>1, <2>2, SMT
  <2>5. Len(s) \in Nat \ {0}
    BY <2>1, SMT
  <2> QED  BY <2>3, <2>4, <2>5
<1> HIDE DEF t
<1>2. /\ \A i \in 1..Len(s) : s[i] = "/" <=> t[i] = "/"
      /\ \A i \in 1..Len(s) : t[i] \notin {"+", "#"}
      /\ \A i \in 1..Len(s) : s[i] = "$" <=> t[i] = "$"
  BY <1>1, SMT
<1>3. Alike(s, t)
  <2>1. t \in Seq(C) /\ Len(t) = Len(s)
    BY <1>1
  <2>2. \A i \in 1..Len(s) : s[i] = "/" <=> t[i] = "/"
    BY <1>2
  <2> QED  BY <2>1, <2>2, SameLevels, Zenon
<1>4. ValidTopic(t)
  BY <1>1, <1>2, SMT DEF ValidTopic
<1>5. StartsWith(t, {"$"}) <=> StartsWith(s, {"$"})
  BY <1>1, <1>2, SMT DEF StartsWith
<1>6. ASSUME NEW k \in 1..Len(Split(s))
      PROVE  Split(t)[k] = IF Split(s)[k] \in {Plus, Hash} THEN <<fresh>> ELSE Split(s)[k]
  <2>1. PICK i \in 1..(Len(s) + 1) : \E n \in i..(Len(s) + 1) :
          /\ Split(s)[k] = SubSeq(s, i, n - 1) /\ Split(t)[k] = SubSeq(t, i, n - 1)
          /\ i = 1 \/ s[i - 1] = "/"
          /\ n = Len(s) + 1 \/ s[n] = "/"
          /\ \A j \in i..(n - 1) : s[j] # "/"
    BY <1>3, Zenon DEF Alike
  <2>2. PICK n \in i..(Len(s) + 1) :
          /\ Split(s)[k] = SubSeq(s, i, n - 1) /\ Split(t)[k] = SubSeq(t, i, n - 1)
          /\ i = 1 \/ s[i - 1] = "/"
          /\ n = Len(s) + 1 \/ s[n] = "/"
          /\ \A j \in i..(n - 1) : s[j] # "/"
    BY <2>1, Zenon
  <2>3. CASE \E j \in i..(n - 1) : s[j] \in {"+", "#"}
    <3>1. PICK j \in i..(n - 1) : s[j] \in {"+", "#"}
      BY <2>3
    <3>2. j \in 1..Len(s) /\ j \in DOMAIN s
      BY <1>1, SMT
    <3> /\ j > 1 => s[j - 1] = "/"
        /\ s[j] = "+" /\ j < Len(s) => s[j + 1] = "/"
        /\ s[j] = "#" => j = Len(s)
      BY <3>1, <3>2, Zenon DEF ValidFilter
    <3>3. j = i
      <4>1. j - 1 \in i..(n - 1) \/ j = i
        BY <1>1, SMT
      <4>2. j > 1 \/ j = i
        BY <1>1, SMT
      <4> QED  BY <2>2, <4>1, <4>2, Zenon
    <3>4. n = j + 1
      <4>1. j + 1 \in i..(n - 1) \/ n = j + 1
        BY <1>1, SMT
      <4>2. (j < Len(s) \/ n = j + 1) /\ (j = Len(s) => n = j + 1)
        BY <1>1, <3>2, SMT
      <4> QED  BY <2>2, <3>1, <4>1, <4>2, Zenon
    <3>5. n - 1 = i /\ i \in 1..Len(s) /\ i \in 1..Len(t)
      BY <1>1, <3>2, <3>3, <3>4, SMT
    <3>6. SubSeq(s, i, n - 1) = <<s[i]>> /\ SubSeq(t, i, n - 1) = <<t[i]>>
      BY <1>1, <3>5, OneCharacter, Zenon
    <3>7. t[i] = fresh /\ Split(s)[k] \in {Plus, Hash}
      BY <1>1, <2>2, <3>1, <3>3, <3>5, <3>6, Zenon DEF Plus, Hash
    <3> QED  BY <2>2, <3>6, <3>7, Zenon
  <2>4. CASE \A j \in i..(n - 1) : s[j] \notin {"+", "#"}
    <3>1. i \in Nat /\ n \in Nat /\ i >= 1 /\ i <= n /\ n <= Len(s) + 1
      BY <1>1, SMT
    <3>2. /\ SubSeq(s, i, n - 1) \in Seq(C) /\ SubSeq(t, i, n - 1) \in Seq(C)
          /\ Len(SubSeq(s, i, n - 1)) = n - i /\ Len(SubSeq(t, i, n - 1)) = n - i
          /\ \A j \in 1..(n - i) : SubSeq(s, i, n - 1)[j] = s[i + j - 1]
          /\ \A j \in 1..(n - i) : SubSeq(t, i, n - 1)[j] = t[i + j - 1]
      BY <1>1, <3>1, SMT
    <3>3. \A j \in 1..(n - i) : i + j - 1 \in i..(n - 1) /\ i + j - 1 \in 1..Len(s)
      BY <1>1, <3>1, SMT
    <3>4. \A j \in 1..(n - i) : SubSeq(s, i, n - 1)[j] = SubSeq(t, i, n - 1)[j]
      BY <1>1, <2>4, <3>2, <3>3, Zenon
    <3>5. SubSeq(s, i, n - 1) = SubSeq(t, i, n - 1)
      BY <3>2, <3>4, SeqEqual, Zenon
    <3>6. SubSeq(s, i, n - 1) \notin {Plus, Hash}
      <4>1. SUFFICES ASSUME SubSeq(s, i, n - 1) \in {Plus, Hash} PROVE FALSE
        OBVIOUS
      <4>2. Len(SubSeq(s, i, n - 1)) = 1 /\ SubSeq(s, i, n - 1)[1] \in {"+", "#"}
        <5>1. Len(Plus) = 1 /\ Plus[1] = "+" /\ Len(Hash) = 1 /\ Hash[1] = "#"
          BY SMT DEF Plus, Hash
        <5> QED  BY <4>1, <5>1, Zenon
      <4>3. n - i = 1 /\ 1 \in 1..(n - i) /\ i + 1 - 1 \in i..(n - 1)
        BY <3>1, <3>2, <4>2, SMT
      <4> QED  BY <2>4, <3>2, <4>2, <4>3, Zenon
    <3> QED  BY <2>2, <3>5, <3>6, Zenon
  <2> QED  BY <2>3, <2>4, Zenon
<1> QED  BY <1>1, <1>2, <1>3, <1>4, <1>5, <1>6, Zenon DEF t, Alike, FilledBy

\* Without its last level, when this has characters, a string has all others.
LEMMA Shortened ==
  ASSUME NEW C, NEW s \in Seq(C), Len(s) >= 2, s[Len(s) - 1] = "/", s[Len(s)] # "/"
  PROVE  LET p == SubSeq(s, 1, Len(s) - 2)
         IN  /\ p \in Seq(C) /\ Len(p) = Len(s) - 2
             /\ \A i \in 1..(Len(s) - 2) : p[i] = s[i]
             /\ Len(Split(p)) = Len(Split(s)) - 1
             /\ \A k \in 1..(Len(Split(s)) - 1) : Split(p)[k] = Split(s)[k]
             /\ Split(s)[Len(Split(s))] = <<s[Len(s)]>>
<1>1. PICK l : l = Len(s)
  OBVIOUS
<1>2. PICK p : p = SubSeq(s, 1, l - 2)
  OBVIOUS
<1>3. /\ l \in Nat /\ l >= 2 /\ p \in Seq(C) /\ Len(p) = l - 2
      /\ \A i \in 1..(l - 2) : p[i] = s[i]
  BY <1>1, <1>2, SMT
<1>4. Starts(p) = Starts(s) \ {l} /\ l \in Starts(s) /\ \A i \in Starts(s) : i <= l
  BY <1>1, <1>3, SMT DEF Starts
<1>5. /\ Len(Split(p)) = Cardinality(Starts(p)) /\ Len(Split(s)) = Cardinality(Starts(s))
      /\ Len(Split(s)) \in Nat
  BY <1>3, SplitSequence, Zenon
<1>6. Cardinality(Starts(p)) = Cardinality(Starts(s)) - 1
  BY <1>4, StartsFinite, FS_RemoveElement, Zenon
<1>7. ASSUME NEW k \in 1..(Len(Split(s)) - 1)
      PROVE  Split(p)[k] = Split(s)[k]
  <2>1. k \in Nat /\ k \in 1..Len(Split(p))
    BY <1>5, <1>6, SMT
  <2>2. PICK i \in Starts(p) : Cardinality(Before(p, i)) = k - 1
    BY <1>3, <1>5, <2>1, StartOf, Zenon
  <2>3. i \in 1..(l - 1) /\ i \in Starts(s)
    BY <1>3, <1>4, <2>2, SMT DEF Starts
  <2>4. Before(p, i) = Before(s, i)
    <3>1. l \notin Before(s, i)
      BY <1>3, <2>3, SMT DEF Before
    <3> QED  BY <1>4, <3>1, Zenon DEF Before
  <2>5. PICK n : n = Separator(s, i)
    OBVIOUS
  <2>6. i \in 1..(Len(s) + 1)
    BY <1>1, <1>3, <2>3, SMT
  <2>7. /\ n \in i..(Len(s) + 1)
        /\ n = Len(s) + 1 \/ s[n] = "/"
        /\ \A j \in i..(n - 1) : s[j] # "/"
    BY <2>5, <2>6, SeparatorFound, Zenon
  <2>8. n \in i..(l - 1)
    <3>1. l - 1 \in i..(n - 1) \/ n \in i..(l - 1)
      BY <1>1, <1>3, <2>3, <2>7, SMT
    <3> QED  BY <1>1, <2>7, <3>1, Zenon
  <2>9. Separator(p, i) = n
    <3>1. Len(p) + 1 = l - 1 /\ n # Len(s) + 1 /\ (n = l - 1 \/ n \in 1..(l - 2))
      BY <1>1, <1>3, <2>3, <2>8, SMT
    <3>2. \A j \in i..(n - 1) : j \in 1..(l - 2)
      BY <1>3, <2>3, <2>8, SMT
    <3>3. n = Len(p) + 1 \/ p[n] = "/"
      BY <1>3, <2>7, <3>1, Zenon
    <3>4. \A j \in i..(n - 1) : p[j] # "/"
      BY <1>3, <2>7, <3>2, Zenon
    <3>5. i \in 1..(Len(p) + 1) /\ n \in i..(Len(p) + 1)
      BY <2>3, <2>8, <3>1, Zenon
    <3> QED  BY <1>3, <3>3, <3>4, <3>5, SeparatorIs, Zenon
  <2>10. SubSeq(p, i, n - 1) = SubSeq(s, i, n - 1)
    <3>1. i \in Nat /\ n \in Nat /\ i >= 1 /\ i <= n /\ n <= l - 1
      BY <1>3, <2>3, <2>8, SMT
    <3>2. /\ SubSeq(s, i, n - 1) \in Seq(C) /\ SubSeq(p, i, n - 1) \in Seq(C)
          /\ Len(SubSeq(s, i, n - 1)) = n - i /\ Len(SubSeq(p, i, n - 1)) = n - i
          /\ \A j \in 1..(n - i) : SubSeq(s, i, n - 1)[j] = s[i + j - 1]
          /\ \A j \in 1..(n - i) : SubSeq(p, i, n - 1)[j] = p[i + j - 1]
      BY <1>1, <1>3, <3>1, SMT
    <3>3. \A j \in 1..(n - i) : i + j - 1 \in 1..(l - 2)
      BY <1>3, <3>1, SMT
    <3>4. \A j \in 1..(n - i) : SubSeq(s, i, n - 1)[j] = SubSeq(p, i, n - 1)[j]
      BY <1>3, <3>2, <3>3, Zenon
    <3> QED  BY <3>2, <3>4, SeqEqual, Zenon
  <2>11. Split(s)[k] = Level(s, i) /\ Split(p)[k] = Level(p, i)
    BY <1>3, <2>1, <2>2, <2>3, <2>4, LevelAt, Zenon
  <2> QED  BY <2>5, <2>9, <2>10, <2>11, Zenon DEF Level
<1>8. Split(s)[Len(Split(s))] = <<s[l]>>
  <2>1. Before(s, l) = Starts(p)
    BY <1>3, <1>4, SMT DEF Before, Starts
  <2>2. Split(s)[Len(Split(s))] = Level(s, l)
    BY <1>4, <1>5, <1>6, <2>1, LevelAt, Zenon
  <2>3. PICK n : n = l + 1
    OBVIOUS
  <2>4. /\ l \in 1..(Len(s) + 1) /\ n \in l..(Len(s) + 1) /\ n = Len(s) + 1
        /\ l \in 1..Len(s) /\ n - 1 = l /\ \A k \in l..(n - 1) : k = l
    BY <1>1, <1>3, <2>3, SMT
  <2>5. \A k \in l..(n - 1) : s[k] # "/"
    BY <1>1, <2>4, Zenon
  <2>6. Separator(s, l) = n
    BY <2>4, <2>5, SeparatorIs, Zenon
  <2>7. Level(s, l) = SubSeq(s, l, l)
    BY <2>4, <2>6, Zenon DEF Level
  <2> QED  BY <2>2, <2>4, <2>7, OneCharacter, Zenon
<1> QED  BY <1>1, <1>2, <1>3, <1>5, <1>6, <1>7, <1>8, Zenon

\* A character that does not occur in a string is none of its levels.
LEMMA NotALevel ==
  ASSUME NEW C, NEW s \in Seq(C), NEW fresh, \A i \in 1..Len(s) : s[i] # fresh,
         NEW k \in DOMAIN Split(s)
  PROVE  Split(s)[k] # <<fresh>>
<1>1. \A i \in 1..Len(s) : s[i] = "/" <=> s[i] = "/"
  OBVIOUS
<1>2. k \in 1..Len(Split(s))
  BY SplitSequence, Zenon
<1>3. Alike(s, s)
  BY <1>1, SameLevels, Zenon
<1>4. PICK i \in 1..(Len(s) + 1) :
        \E n \in i..(Len(s) + 1) : Split(s)[k] = SubSeq(s, i, n - 1)
  BY <1>2, <1>3, Zenon DEF Alike
<1>5. PICK n \in i..(Len(s) + 1) : Split(s)[k] = SubSeq(s, i, n - 1)
  BY <1>4, Zenon
<1>6. SUFFICES ASSUME SubSeq(s, i, n - 1) = <<fresh>> PROVE FALSE
  BY <1>5, Zenon
<1>7. Len(SubSeq(s, i, n - 1)) = 1 /\ SubSeq(s, i, n - 1)[1] = fresh
  <2>1. Len(<<fresh>>) = 1 /\ <<fresh>>[1] = fresh
    BY SMT
  <2> QED  BY <1>6, <2>1, Zenon
<1>8. Len(s) \in Nat /\ i \in 1..Len(s) /\ n - 1 = i
  BY <1>7, SMT
<1>9. SubSeq(s, i, n - 1)[1] = s[i]
  BY <1>8, SMT
<1> QED  BY <1>7, <1>8, <1>9, Zenon

\* If a matches what fills the first levels of r then it covers them.
LEMMA MatchCovers ==
  ASSUME NEW a, NEW r, NEW t, NEW fresh, IsLevels(a), IsLevels(r), IsLevels(t),
         Len(t) <= Len(r), \A i \in DOMAIN a : a[i] # fresh,
         \A i \in 1..Len(t) : r[i] # Hash /\ t[i] = IF r[i] = Plus THEN fresh ELSE r[i],
         LevelsMatch(a, t)
  PROVE  \/ LevelsCover(a, r)
         \/ /\ Len(a) = Len(t) /\ Len(t) # Len(r)
            /\ \A i \in DOMAIN a : a[i] # Hash
<1>1. ASSUME NEW i \in DOMAIN a, i <= Len(t), a[i] \in {Plus, t[i]}
      PROVE  i <= Len(r) /\ r[i] # Hash /\ a[i] \in {Plus, r[i]} /\ a[i] # Hash
  <2>1. i \in 1..Len(t) /\ i <= Len(r)
    BY <1>1, SMT DEF IsLevels
  <2>2. Plus # Hash
    BY SMT DEF Plus, Hash
  <2> QED  BY <1>1, <2>1, <2>2, Zenon
<1>2. CASE \E h \in DOMAIN a :
             a[h] = Hash /\ \A i \in 1..(h - 1) : i <= Len(t) /\ a[i] \in {Plus, t[i]}
  <2>1. PICK h \in DOMAIN a :
             a[h] = Hash /\ \A i \in 1..(h - 1) : i <= Len(t) /\ a[i] \in {Plus, t[i]}
    BY <1>2, Zenon
  <2>2. \A i \in 1..(h - 1) : i \in DOMAIN a
    BY <2>1, SMT DEF IsLevels
  <2> QED  BY <1>1, <2>1, <2>2, Zenon DEF LevelsCover
<1>3. CASE Len(a) = Len(t) /\ \A i \in DOMAIN a : i <= Len(t) /\ a[i] \in {Plus, t[i]}
  BY <1>1, <1>3, Zenon DEF LevelsCover
<1> QED  BY <1>2, <1>3, Zenon DEF LevelsMatch

\* A rule that matches all topics of a filter covers its levels: the topics with
\* another character for every wildcard show it.
LEMMA TopicsShow ==
  ASSUME NEW C, NEW allowed \in Seq(C), NEW q \in Seq(C), ValidFilter(q),
         q[Len(q)] = "#" => Len(q) >= 3,
         NEW fresh \in C, fresh \notin {"/", "+", "#", "$"},
         \A i \in 1..Len(allowed) : allowed[i] # fresh,
         \A topic \in Seq(C) :
           ValidTopic(topic) /\ MatchFilter(q, topic) => MatchFilter(allowed, topic)
  PROVE  /\ ~(StartsWith(q, {"$"}) /\ StartsWith(allowed, {"+", "#"}))
         /\ LevelsCover(Split(allowed), Split(q))
<1> DEFINE a == Split(allowed)
           r == Split(q)
<1>1. IsLevels(a) /\ IsLevels(r) /\ \A k \in DOMAIN a : a[k] # <<fresh>>
  BY SplitSequence, NotALevel, Zenon DEF IsLevels
<1>2. PICK t : t = Filled(q, fresh)
  OBVIOUS
<1>3. /\ t \in Seq(C) /\ Len(t) = Len(q) /\ ValidTopic(t)
      /\ \A i \in 1..Len(q) : q[i] = "/" <=> t[i] = "/"
      /\ StartsWith(t, {"$"}) <=> StartsWith(q, {"$"})
      /\ Len(Split(t)) = Len(r)
      /\ \A k \in 1..Len(r) : Split(t)[k] = IF r[k] \in {Plus, Hash} THEN <<fresh>> ELSE r[k]
  <2>1. t \in Seq(C) /\ ValidTopic(t) /\ FilledBy(q, t, fresh)
    BY <1>2, FilledLevels, Zenon
  <2> QED  BY <2>1, Zenon DEF FilledBy
<1>4. ~(StartsWith(q, {"$"}) /\ StartsWith(q, {"+", "#"}))
  BY SMT DEF StartsWith
<1>5. ASSUME NEW u \in Seq(C), ValidTopic(u), StartsWith(u, {"$"}) <=> StartsWith(q, {"$"}),
             LevelsMatch(r, Split(u))
      PROVE  /\ ~(StartsWith(q, {"$"}) /\ StartsWith(allowed, {"+", "#"}))
             /\ LevelsMatch(a, Split(u)) /\ IsLevels(Split(u))
  <2>1. MatchFilter(q, u)
    BY <1>4, <1>5, Zenon DEF MatchFilter, LevelsMatch
  <2>2. MatchFilter(allowed, u)
    BY <1>5, <2>1, Zenon
  <2> QED  BY <1>5, <2>2, SplitSequence, Zenon DEF MatchFilter, LevelsMatch, IsLevels
<1>6. CASE q[Len(q)] # "#"
  <2>1. ASSUME NEW k \in DOMAIN r PROVE r[k] # Hash
    <3>1. \A i \in 1..Len(q) : q[i] # "#"
      <4>1. DOMAIN q = 1..Len(q)
        BY SMT
      <4> QED  BY <1>6, <4>1, Zenon DEF ValidFilter
    <3> QED  BY <3>1, NotALevel, Zenon DEF Hash
  <2>2. \A k \in 1..Len(r) : k \in DOMAIN r
    BY <1>1, Zenon DEF IsLevels
  <2>3. \A k \in 1..Len(r) :
          r[k] # Hash /\ Split(t)[k] = IF r[k] = Plus THEN <<fresh>> ELSE r[k]
    BY <1>3, <2>1, <2>2, Zenon
  <2>4. Len(r) <= Len(r) /\ \A k \in 1..Len(r) : k <= Len(r)
    BY <1>1, SMT DEF IsLevels
  <2>5. LevelsMatch(r, Split(t))
    <3>1. \A k \in DOMAIN r : k <= Len(Split(t)) /\ r[k] \in {Plus, Split(t)[k]}
      BY <1>1, <1>3, <2>3, <2>4, Zenon DEF IsLevels
    <3> QED  BY <1>3, <3>1, Zenon DEF LevelsMatch
  <2>6. /\ ~(StartsWith(q, {"$"}) /\ StartsWith(allowed, {"+", "#"}))
        /\ LevelsMatch(a, Split(t)) /\ IsLevels(Split(t))
    BY <1>3, <1>5, <2>5, Zenon
  <2> HIDE DEF a, r
  <2>7. LevelsCover(a, r)
    <3>1. Len(Split(t)) = Len(r) /\ Len(Split(t)) <= Len(r)
      BY <1>3, <2>4, Zenon
    <3>2. \A k \in 1..Len(Split(t)) :
            r[k] # Hash /\ Split(t)[k] = IF r[k] = Plus THEN <<fresh>> ELSE r[k]
      BY <2>3, <3>1, Zenon
    <3> QED  BY <1>1, <2>6, <3>1, <3>2, MatchCovers, Zenon
  <2> QED  BY <2>6, <2>7, Zenon DEF a, r
<1>7. CASE q[Len(q)] = "#"
  <2>1. /\ Len(q) \in Nat /\ Len(q) >= 3 /\ Len(q) >= 2 /\ Len(q) \in DOMAIN q
        /\ Len(q) > 1 /\ 1 \in 1..(Len(q) - 2) /\ Len(q) - 1 \in 1..Len(q)
        /\ Len(q) \in 1..Len(q)
    BY <1>7, SMT
  <2>2. q[Len(q) - 1] = "/" /\ q[Len(q)] # "/"
    <3>1. q[Len(q) - 1] = "/"
      BY <1>7, <2>1, Zenon DEF ValidFilter
    <3> QED  BY <1>7, <3>1
  <2>3. t[Len(t) - 1] = "/" /\ t[Len(t)] # "/" /\ Len(t) >= 2
    BY <1>3, <2>1, <2>2, Zenon
  <2>4. PICK p : p = SubSeq(t, 1, Len(t) - 2)
    OBVIOUS
  <2>5. /\ p \in Seq(C) /\ Len(p) = Len(t) - 2
        /\ \A i \in 1..(Len(t) - 2) : p[i] = t[i]
        /\ Len(Split(p)) = Len(Split(t)) - 1
        /\ \A k \in 1..(Len(Split(t)) - 1) : Split(p)[k] = Split(t)[k]
    BY <1>3, <2>3, <2>4, Shortened, Zenon
  <2>6. r[Len(r)] = Hash
    BY <1>7, <2>1, <2>2, Shortened, Zenon DEF Hash
  <2>7. ValidTopic(p) /\ (StartsWith(p, {"$"}) <=> StartsWith(q, {"$"}))
    <3>1. p # <<>> /\ t # <<>> /\ p[1] = t[1] /\ DOMAIN p = 1..(Len(t) - 2)
      BY <1>3, <2>1, <2>5, SMT
    <3>2. \A i \in 1..(Len(t) - 2) : i \in DOMAIN t
      BY <1>3, <2>1, SMT
    <3>3. ValidTopic(p)
      BY <1>3, <2>5, <3>1, <3>2, Zenon DEF ValidTopic
    <3> QED  BY <1>3, <3>1, <3>3, Zenon DEF StartsWith
  <2>8. /\ Len(r) \in Nat \ {0} /\ Len(r) \in DOMAIN r /\ DOMAIN r = 1..Len(r)
        /\ \A k \in 1..(Len(r) - 1) :
             k \in 1..Len(r) /\ k <= Len(r) - 1 /\ k # Len(r) /\ k <= Len(r)
        /\ Len(r) - 1 <= Len(r) /\ Len(r) - 1 # Len(r)
    <3>1. Len(r) \in Nat \ {0} /\ DOMAIN r = 1..Len(r)
      BY <1>1, Zenon DEF IsLevels
    <3>2. PICK n : n = Len(r)
      OBVIOUS
    <3>3. n \in Nat \ {0}
      BY <3>1, <3>2, Zenon
    <3>4. /\ n \in 1..n /\ n - 1 <= n /\ n - 1 # n
          /\ \A k \in 1..(n - 1) : k \in 1..n /\ k <= n - 1 /\ k # n /\ k <= n
      BY <3>3, SMT
    <3> QED  BY <3>1, <3>2, <3>4, Zenon
  <2>9. \A k \in 1..(Len(r) - 1) : r[k] # Hash
    BY <2>8, HashLast, Zenon
  <2>10. \A k \in 1..(Len(r) - 1) :
           /\ r[k] # Hash /\ Split(p)[k] = Split(t)[k]
           /\ Split(p)[k] = IF r[k] = Plus THEN <<fresh>> ELSE r[k]
    BY <1>3, <2>5, <2>8, <2>9, Zenon
  <2>11. LevelsMatch(r, Split(p)) /\ LevelsMatch(r, Split(t))
    <3>1. \A k \in 1..(Len(r) - 1) :
            /\ k <= Len(Split(p)) /\ r[k] \in {Plus, Split(p)[k]}
            /\ k <= Len(Split(t)) /\ r[k] \in {Plus, Split(t)[k]}
      <4>1. Len(Split(p)) = Len(r) - 1 /\ Len(Split(t)) = Len(r)
        BY <1>3, <2>5, Zenon
      <4>2. \A k \in 1..(Len(r) - 1) : r[k] \in {Plus, Split(p)[k]}
        BY <2>10, Zenon
      <4> QED  BY <2>8, <2>10, <4>1, <4>2, Zenon
    <3> QED  BY <2>6, <2>8, <3>1, Zenon DEF LevelsMatch
  <2>12. /\ ~(StartsWith(q, {"$"}) /\ StartsWith(allowed, {"+", "#"}))
         /\ LevelsMatch(a, Split(p)) /\ IsLevels(Split(p))
    BY <1>5, <2>5, <2>7, <2>11, Zenon
  <2>13. LevelsMatch(a, Split(t))
    BY <1>3, <1>5, <2>11, Zenon
  <2> HIDE DEF a, r
  <2>14. LevelsCover(a, r) \/ (Len(a) = Len(Split(p)) /\ \A i \in DOMAIN a : a[i] # Hash)
    <3>1. Len(Split(p)) = Len(r) - 1
      BY <1>3, <2>5, Zenon
    <3>2. \A i \in 1..Len(Split(p)) :
            r[i] # Hash /\ Split(p)[i] = IF r[i] = Plus THEN <<fresh>> ELSE r[i]
      BY <2>10, <3>1, Zenon
    <3>3. Len(Split(p)) <= Len(r)
      BY <2>8, <3>1, Zenon
    <3> QED  BY <1>1, <2>12, <3>2, <3>3, MatchCovers, Zenon
  <2>15. ASSUME \A i \in DOMAIN a : a[i] # Hash PROVE Len(a) = Len(r)
    BY <1>3, <2>13, <2>15, Zenon DEF LevelsMatch
  <2>16. LevelsCover(a, r)
    BY <1>3, <2>5, <2>8, <2>14, <2>15, Zenon
  <2> QED  BY <2>12, <2>16, Zenon DEF a, r
<1> QED  BY <1>6, <1>7, Zenon

\* What CoversFilter reads for "#" and "/#" is a filter of no other topics, and it
\* has a level before "#".
LEMMA ExpandedFilter ==
  ASSUME NEW C, {"/", "+", "#", "$"} \subseteq C, NEW s \in Seq(C), ValidFilter(s)
  PROVE  LET q == Expanded(s)
         IN  /\ q \in Seq(C) /\ ValidFilter(q) /\ (q[Len(q)] = "#" => Len(q) >= 3)
             /\ StartsWith(q, {"$"}) <=> StartsWith(s, {"$"})
             /\ \A topic \in Seq(C) : MatchFilter(q, topic) => MatchFilter(s, topic)
<1>1. CASE s = <<"#">>
  <2>1. PICK q : q = <<"+", "/", "#">>
    OBVIOUS
  <2>2. /\ q \in Seq(C) /\ Len(q) = 3 /\ q[1] = "+" /\ q[2] = "/" /\ q[3] = "#"
        /\ Len(s) = 1 /\ s[1] = "#" /\ q # <<>> /\ s # <<>>
    BY <1>1, <2>1, SMT
  <2>3. ValidFilter(q)
    BY <2>2, SMT DEF ValidFilter
  <2>4. StartsWith(q, {"+", "#"}) /\ StartsWith(s, {"+", "#"})
        /\ ~StartsWith(q, {"$"}) /\ ~StartsWith(s, {"$"})
    BY <2>2, SMT DEF StartsWith
  <2>5. PICK f : f = Split(s)
    OBVIOUS
  <2>6. IsLevels(f)
    BY <2>5, SplitSequence, Zenon DEF IsLevels
  <2>7. 1 \in DOMAIN f /\ (\A i : i \notin 1..(1 - 1)) /\ Plus # Hash
    BY <2>6, SMT DEF IsLevels, Plus, Hash
  <2>8. f[1] = Hash
    <3>1. 1 \in 1..(Len(s) + 1) /\ 2 \in 1..(Len(s) + 1) /\ 2 = Len(s) + 1
          /\ 1 \in 1..Len(s) /\ 2 - 1 = 1 /\ \A k \in 1..(2 - 1) : s[k] # "/"
      BY <2>2, SMT
    <3>2. Separator(s, 1) = 2
      BY <3>1, SeparatorIs, Zenon
    <3>3. Level(s, 1) = SubSeq(s, 1, 1)
      BY <3>1, <3>2, Zenon DEF Level
    <3>4. f[1] = Level(s, 1)
      BY <2>5, FirstLevel, Zenon
    <3>5. SubSeq(s, 1, 1) = <<s[1]>>
      BY <3>1, OneCharacter, Zenon
    <3> QED  BY <2>2, <3>3, <3>4, <3>5, Zenon DEF Hash
  <2>9. ASSUME NEW topic \in Seq(C), MatchFilter(q, topic)
        PROVE  MatchFilter(s, topic)
    <3>1. ~(StartsWith(topic, {"$"}) /\ StartsWith(s, {"+", "#"}))
      BY <2>4, <2>9, Zenon DEF MatchFilter
    <3>2. LevelsMatch(f, Split(topic))
      BY <2>7, <2>8, Zenon DEF LevelsMatch
    <3> QED  BY <2>5, <3>1, <3>2, Zenon DEF MatchFilter, LevelsMatch
  <2>10. q[Len(q)] = "#" => Len(q) >= 3
    BY <2>2, SMT
  <2>11. Expanded(s) = q
    BY <1>1, <2>1, SMT DEF Expanded
  <2> QED  BY <2>2, <2>3, <2>4, <2>9, <2>10, <2>11, Zenon
<1>2. CASE s = <<"/", "#">>
  <2>1. PICK q : q = <<"/", "+", "/", "#">>
    OBVIOUS
  <2>2. /\ q \in Seq(C) /\ Len(q) = 4 /\ q[1] = "/" /\ q[2] = "+" /\ q[3] = "/" /\ q[4] = "#"
        /\ Len(s) = 2 /\ s[1] = "/" /\ s[2] = "#" /\ q # <<>> /\ s # <<>>
    BY <1>2, <2>1, SMT
  <2>3. ValidFilter(q)
    BY <2>2, SMT DEF ValidFilter
  <2>4. ~StartsWith(s, {"+", "#"}) /\ ~StartsWith(q, {"$"}) /\ ~StartsWith(s, {"$"})
    BY <2>2, SMT DEF StartsWith
  <2>5. PICK f, x : f = Split(s) /\ x = Split(q)
    OBVIOUS
  <2>6. IsLevels(x) /\ Len(x) >= 3 /\ x[1] = <<>> /\ x[2] = Plus /\ x[3] = Hash
    BY <2>1, <2>5, ExpandedLevels, Zenon
  <2>7. f[1] = <<>> /\ f[Len(f)] = Hash /\ Len(f) = 2
    <3>1. f[1] = <<>>
      BY <2>2, <2>5, FirstLevel, Zenon
    <3>2. PICK p : p = SubSeq(s, 1, Len(s) - 2)
      OBVIOUS
    <3>3. Len(s) >= 2 /\ s[Len(s) - 1] = "/" /\ s[Len(s)] # "/"
      BY <2>2, SMT
    <3>4. /\ p \in Seq(C) /\ Len(p) = Len(s) - 2
          /\ Len(Split(p)) = Len(f) - 1 /\ f[Len(f)] = <<s[Len(s)]>>
      BY <2>5, <3>2, <3>3, Shortened, Zenon
    <3>5. Starts(p) = {1}
      BY <2>2, <3>4, SMT DEF Starts
    <3>6. Len(Split(p)) = 1
      <4>1. Len(Split(p)) = Cardinality(Starts(p))
        BY <3>4, SplitSequence, Zenon
      <4> QED  BY <3>5, <4>1, PairCardinality, Zenon
    <3>7. Len(f) \in Nat
      BY <2>5, SplitSequence, Zenon
    <3>8. Len(f) = 2
      <4>1. PICK m : m = Len(f)
        OBVIOUS
      <4>2. m \in Nat /\ m - 1 = 1
        BY <3>4, <3>6, <3>7, <4>1, Zenon
      <4>3. m = 2
        BY <4>2, SMT
      <4> QED  BY <4>1, <4>3, Zenon
    <3> QED  BY <2>2, <3>1, <3>4, <3>8, Zenon DEF Hash
  <2>8. 2 \in DOMAIN f /\ \A i \in 1..(2 - 1) : i = 1
    <3>1. DOMAIN f = 1..Len(f)
      BY <2>5, SplitSequence, Zenon
    <3> QED  BY <2>7, <3>1, SMT
  <2>9. ASSUME NEW topic \in Seq(C), MatchFilter(q, topic)
        PROVE  MatchFilter(s, topic)
    <3>1. PICK t : t = Split(topic)
      OBVIOUS
    <3>2. LevelsMatch(x, t)
      BY <2>5, <2>9, <3>1, Zenon DEF MatchFilter, LevelsMatch
    <3>3. ASSUME NEW h \in DOMAIN x, x[h] = Hash PROVE 1 \in 1..(h - 1)
      <4>1. <<>> # Hash
        BY SMT DEF Hash
      <4>2. h # 1
        BY <2>6, <3>3, <4>1, Zenon
      <4> QED  BY <2>6, <4>2, SMT DEF IsLevels
    <3>4. 1 \in DOMAIN x
      BY <2>6, SMT DEF IsLevels
    <3>5. 1 <= Len(t) /\ x[1] \in {Plus, t[1]}
      BY <3>2, <3>3, <3>4, Zenon DEF LevelsMatch
    <3>6. LevelsMatch(f, t)
      BY <2>6, <2>7, <2>8, <3>5, Zenon DEF LevelsMatch
    <3> QED  BY <2>4, <2>5, <3>1, <3>6, Zenon DEF MatchFilter, LevelsMatch
  <2>10. q[Len(q)] = "#" => Len(q) >= 3
    BY <2>2, SMT
  <2>11. Expanded(s) = q
    <3>1. s # <<"#">>
      BY <2>2, SMT
    <3> QED  BY <1>2, <2>1, <3>1, Zenon DEF Expanded
  <2> QED  BY <2>2, <2>3, <2>4, <2>9, <2>10, <2>11, Zenon
<1>3. CASE s # <<"#">> /\ s # <<"/", "#">>
  <2>1. Expanded(s) = s
    BY <1>3, Zenon DEF Expanded
  <2>2. ASSUME s[Len(s)] = "#" PROVE Len(s) >= 3
    <3>1. Len(s) \in Nat /\ s # <<>> /\ DOMAIN s = 1..Len(s)
      BY SMT DEF ValidFilter
    <3>2. Len(s) # 0
      BY <3>1, SMT
    <3>3. Len(s) # 1
      <4> SUFFICES ASSUME Len(s) = 1 PROVE FALSE
        OBVIOUS
      <4>1. s[1] = "#"
        BY <2>2
      <4>2. s = <<"#">>
        BY <4>1, SMT
      <4> QED  BY <1>3, <4>2
    <3>4. Len(s) # 2
      <4> SUFFICES ASSUME Len(s) = 2 PROVE FALSE
        OBVIOUS
      <4>1. s[2] = "#" /\ 2 \in DOMAIN s /\ 2 > 1 /\ 2 - 1 = 1
        BY <2>2, <3>1, SMT
      <4>2. s[1] = "/"
        BY <4>1, Zenon DEF ValidFilter
      <4>3. s = <<"/", "#">>
        BY <4>1, <4>2, SMT
      <4> QED  BY <1>3, <4>3
    <3> QED  BY <3>1, <3>2, <3>3, <3>4, SMT
  <2> QED  BY <2>1, <2>2, Zenon
<1> QED  BY <1>1, <1>2, <1>3, Zenon

\* CoversFilter decides inclusion: it accepts a filter exactly when the rule
\* matches every topic the filter matches.  A character that the rule does not
\* use makes the topics that tell the two apart.
THEOREM CoversExact ==
  ASSUME NEW C, {"/", "+", "#", "$"} \subseteq C,
         NEW allowed \in Seq(C), NEW requested \in Seq(C), ValidFilter(requested),
         NEW fresh \in C, fresh \notin {"/", "+", "#", "$"},
         \A i \in 1..Len(allowed) : allowed[i] # fresh
  PROVE  CoversFilter(allowed, requested) <=>
           \A topic \in Seq(C) :
             ValidTopic(topic) /\ MatchFilter(requested, topic) => MatchFilter(allowed, topic)
<1>1. ASSUME CoversFilter(allowed, requested), NEW topic \in Seq(C),
             ValidTopic(topic), MatchFilter(requested, topic)
      PROVE  MatchFilter(allowed, topic)
  BY <1>1, CoversSound, Zenon
<1>2. ASSUME \A topic \in Seq(C) :
               ValidTopic(topic) /\ MatchFilter(requested, topic) => MatchFilter(allowed, topic)
      PROVE  CoversFilter(allowed, requested)
  <2>1. PICK q : q = Expanded(requested)
    OBVIOUS
  <2>2. /\ q \in Seq(C) /\ ValidFilter(q) /\ (q[Len(q)] = "#" => Len(q) >= 3)
        /\ StartsWith(q, {"$"}) <=> StartsWith(requested, {"$"})
        /\ \A topic \in Seq(C) : MatchFilter(q, topic) => MatchFilter(requested, topic)
    BY <2>1, ExpandedFilter, Zenon
  <2>3. \A topic \in Seq(C) :
          ValidTopic(topic) /\ MatchFilter(q, topic) => MatchFilter(allowed, topic)
    BY <1>2, <2>2, Zenon
  <2>4. /\ ~(StartsWith(q, {"$"}) /\ StartsWith(allowed, {"+", "#"}))
        /\ LevelsCover(Split(allowed), Split(q))
    BY <2>2, <2>3, TopicsShow, Zenon
  <2> QED  BY <2>1, <2>2, <2>4, Zenon DEF CoversFilter, LevelsCover
<1> QED  BY <1>1, <1>2, Zenon

=============================================================================
