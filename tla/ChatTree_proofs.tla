--------------------------- MODULE ChatTree_proofs ---------------------------
(***************************************************************************)
(* Facts about the trees of ChatTree: the lists of children, the paths,    *)
(* and what adding, taking back, saving and loading do to them.            *)
(***************************************************************************)
EXTENDS ChatTree, FiniteSetTheorems, WellFoundedInduction, SequenceTheorems, TLAPS

-----------------------------------------------------------------------------
(* Messages by age. *)

\* Where n stands among the members of S.
Place(S, n) == Cardinality({m \in S : m <= n})

\* Places of messages.  Every one has its own, and they grow with the message.
LEMMA Places ==
    ASSUME NEW k \in Nat, NEW S \in SUBSET (1..k)
    PROVE  /\ IsFiniteSet(S) /\ Cardinality(S) \in Nat
           /\ \A n \in S : Place(S, n) \in 1..Cardinality(S)
           /\ \A m, n \in S : m < n => Place(S, m) < Place(S, n)
<1>1. IsFiniteSet(1..k)
  BY FS_Interval
<1>2. IsFiniteSet(S)
  BY <1>1, FS_Subset
<1>3. \A T \in SUBSET S : IsFiniteSet(T) /\ Cardinality(T) \in Nat /\ Cardinality(T) <= Cardinality(S)
  BY <1>2, FS_Subset, FS_CardinalityType
<1>4. Cardinality(S) \in Nat
  BY <1>3
<1>5. ASSUME NEW n \in S PROVE Place(S, n) \in 1..Cardinality(S)
  <2> DEFINE T == {m \in S : m <= n}
  <2>1. T \in SUBSET S /\ n \in T
    BY <1>5
  <2>2. Cardinality(T) # 0
    BY <2>1, <1>3, FS_EmptySet
  <2>3. Cardinality(T) \in 1..Cardinality(S)
    <3> HIDE DEF T
    <3> QED BY <2>1, <2>2, <1>3, <1>4
  <2> QED BY <2>3 DEF Place
<1>6. ASSUME NEW m \in S, NEW n \in S, m < n PROVE Place(S, m) < Place(S, n)
  <2> DEFINE T == {x \in S : x <= m}
             U == {x \in S : x <= n}
  <2>1. T \in SUBSET U /\ T # U
    <3>1. m \in Nat /\ n \in Nat
      OBVIOUS
    <3>2. n \in U /\ n \notin T
      BY <1>6, <3>1
    <3>3. \A x \in S : x \in Nat
      OBVIOUS
    <3>4. \A x \in T : x \in U
      BY <1>6, <3>1, <3>3
    <3> QED BY <3>2, <3>4
  <2>2. U \in SUBSET S /\ T \in SUBSET S
    BY <2>1
  <2>3. Cardinality(T) <= Cardinality(U) /\ Cardinality(T) # Cardinality(U)
    <3> HIDE DEF T, U
    <3> QED BY <2>1, <2>2, <1>3, FS_Subset
  <2>4. Cardinality(T) < Cardinality(U)
    <3> HIDE DEF T, U
    <3> QED BY <2>2, <2>3, <1>3
  <2> QED BY <2>4 DEF Place
<1> QED BY <1>2, <1>4, <1>5, <1>6

\* Every place is taken.
LEMMA PlacesAreTaken ==
    ASSUME NEW k \in Nat, NEW S \in SUBSET (1..k), NEW i \in 1..Cardinality(S)
    PROVE  \E n \in S : Place(S, n) = i
<1> DEFINE f == [n \in S |-> Place(S, n)]
<1>1. f \in Injection(S, 1..Cardinality(S))
  <2>1. f \in [S -> 1..Cardinality(S)]
    BY Places
  <2>2. ASSUME NEW m \in S, NEW n \in S, f[m] = f[n] PROVE m = n
    <3>1. m \in Nat /\ n \in Nat
      OBVIOUS
    <3>2. Place(S, m) \in Nat /\ Place(S, n) \in Nat /\ Place(S, m) = Place(S, n)
      BY <2>1, <2>2, Places
    <3>3. /\ m < n => Place(S, m) < Place(S, n)
          /\ n < m => Place(S, n) < Place(S, m)
      BY Places
    <3> QED BY <3>1, <3>2, <3>3
  <2> QED BY <2>1, <2>2 DEF Injection, IsInjective
<1>2. Cardinality(S) \in Nat
  BY Places
<1>3. IsFiniteSet(1..Cardinality(S)) /\ Cardinality(1..Cardinality(S)) = Cardinality(S)
  <2> DEFINE c == Cardinality(S)
  <2>1. c \in Nat
    BY <1>2
  <2> HIDE DEF c
  <2>2. IsFiniteSet(1..c) /\ Cardinality(1..c) = c
    BY <2>1, FS_Interval
  <2> QED BY <2>2 DEF c
<1>4. f \in Surjection(S, 1..Cardinality(S))
  <2> HIDE DEF f
  <2> QED BY <1>1, <1>3, FS_Injection
<1> QED
  BY <1>4 DEF Surjection

\* Ascending lists each member once, in order.
LEMMA AscendingLists ==
    ASSUME NEW k \in Nat, NEW S \in SUBSET (1..k)
    PROVE  LET s == Ascending(S)
           IN  /\ s \in Seq(S) /\ Len(s) = Cardinality(S) /\ DOMAIN s = 1..Len(s)
               /\ \A i \in 1..Len(s) : s[i] \in S /\ Place(S, s[i]) = i
               /\ \A i, j \in 1..Len(s) : i < j => s[i] < s[j]
               /\ \A n \in S : \E i \in 1..Len(s) : s[i] = n
<1> DEFINE s == Ascending(S)
           c == Cardinality(S)
<1>0. \A n \in S : n \in Nat
  OBVIOUS
<1>1. c \in Nat
  BY Places
<1>2. \A i \in 1..c : s[i] \in S /\ Place(S, s[i]) = i
  <2> SUFFICES ASSUME NEW i \in 1..c PROVE s[i] \in S /\ Place(S, s[i]) = i
    OBVIOUS
  <2>1. \E n \in S : Cardinality({m \in S : m <= n}) = i
    BY PlacesAreTaken DEF Place
  <2>2. s[i] = CHOOSE n \in S : Cardinality({m \in S : m <= n}) = i
    BY DEF Ascending
  <2> QED BY <2>1, <2>2 DEF Place
<1>3. s \in [1..c -> S]
  BY <1>2 DEF Ascending
<1>4. s \in Seq(S) /\ Len(s) = c /\ DOMAIN s = 1..c
  <2> HIDE DEF s, c
  <2> QED BY <1>1, <1>3
<1>5. ASSUME NEW i \in 1..c, NEW j \in 1..c, i < j PROVE s[i] < s[j]
  <2>1. s[i] \in S /\ s[j] \in S /\ Place(S, s[i]) = i /\ Place(S, s[j]) = j
    BY <1>2
  <2>2. s[j] < s[i] => Place(S, s[j]) < Place(S, s[i])
    BY <2>1, Places
  <2> HIDE DEF s, c
  <2>3. s[i] \in Nat /\ s[j] \in Nat
    BY <1>0, <2>1
  <2>4. i \in Nat /\ j \in Nat
    BY <1>1
  <2> QED BY <1>5, <2>1, <2>2, <2>3, <2>4
<1>6. ASSUME NEW n \in S PROVE \E i \in 1..c : s[i] = n
  <2> DEFINE i == Place(S, n)
  <2>1. i \in 1..c
    BY Places
  <2>2. s[i] \in S /\ Place(S, s[i]) = i
    BY <2>1, <1>2
  <2>3. /\ s[i] < n => Place(S, s[i]) < Place(S, n)
        /\ n < s[i] => Place(S, n) < Place(S, s[i])
    BY <2>2, Places
  <2>4. i \in Nat
    BY <1>1, <2>1
  <2>5. s[i] \in Nat /\ n \in Nat
    BY <1>0, <2>2
  <2>6. s[i] = n
    <3> HIDE DEF s
    <3> QED BY <2>2, <2>3, <2>4, <2>5
  <2> QED BY <2>1, <2>6
<1> QED
  <2> HIDE DEF s, c
  <2>1. DOMAIN s = 1..Len(s) /\ Len(s) = c
    BY <1>4
  <2>2. s \in Seq(S) /\ (\A i \in 1..Len(s) : s[i] \in S /\ Place(S, s[i]) = i)
        /\ (\A i, j \in 1..Len(s) : i < j => s[i] < s[j])
        /\ (\A n \in S : \E i \in 1..Len(s) : s[i] = n)
    BY <2>1, <1>2, <1>4, <1>5, <1>6
  <2> QED BY <2>1, <2>2 DEF s, c

\* There is one way only to list a set in order.
LEMMA OneOrder ==
    ASSUME NEW k \in Nat, NEW S \in SUBSET (1..k), NEW c \in Nat, NEW s \in [1..c -> S],
           \A i, j \in 1..c : i < j => s[i] < s[j],
           \A n \in S : \E i \in 1..c : s[i] = n
    PROVE  c = Cardinality(S) /\ s = Ascending(S)
<1>0. \A n \in S : n \in Nat
  OBVIOUS
<1>1. ASSUME NEW i \in 1..c PROVE s[i] \in S /\ Place(S, s[i]) = i
  <2> DEFINE T == {m \in S : m <= s[i]}
             f == [j \in 1..i |-> s[j]]
  <2>1. i \in Nat /\ s[i] \in S /\ \A j \in 1..i : j \in 1..c
    OBVIOUS
  <2>2. ASSUME NEW j \in 1..i PROVE s[j] \in T
    <3>1. j \in 1..c /\ s[j] \in S /\ s[j] \in Nat /\ s[i] \in Nat
      BY <2>1, <1>0
    <3>2. j < i \/ j = i
      OBVIOUS
    <3>3. s[j] <= s[i]
      BY <3>1, <3>2
    <3> QED BY <3>1, <3>3
  <2>3. f \in [1..i -> T]
    BY <2>2
  <2>4. ASSUME NEW a \in 1..i, NEW b \in 1..i, s[a] = s[b] PROVE a = b
    <3>1. a \in 1..c /\ b \in 1..c /\ s[a] \in Nat /\ s[b] \in Nat
      BY <2>1, <1>0
    <3>2. ~(a < b) /\ ~(b < a)
      BY <2>4, <3>1
    <3> QED BY <3>1, <3>2
  <2>5. ASSUME NEW n \in T PROVE \E j \in 1..i : s[j] = n
    <3>1. PICK j \in 1..c : s[j] = n
      OBVIOUS
    <3>2. s[j] <= s[i] /\ s[i] \in Nat /\ s[j] \in Nat
      BY <3>1, <1>0, <2>1
    <3>3. ~(i < j)
      BY <3>2
    <3> QED BY <3>1, <3>3
  <2>6. f \in Bijection(1..i, T)
    BY <2>3, <2>4, <2>5 DEF Bijection, Injection, Surjection, IsInjective
  <2>7. Cardinality(T) = i
    <3> HIDE DEF T, f
    <3>1. ExistsBijection(1..i, T)
      BY <2>6 DEF ExistsBijection
    <3> QED BY <2>1, <3>1, FS_CountingElements
  <2> QED BY <2>1, <2>7 DEF Place
<1>2. c = Cardinality(S)
  <2>1. s \in Bijection(1..c, S)
    <3>1. ASSUME NEW a \in 1..c, NEW b \in 1..c, s[a] = s[b] PROVE a = b
      <4>1. Place(S, s[a]) = a /\ Place(S, s[b]) = b
        BY <1>1
      <4> QED BY <3>1, <4>1
    <3> QED BY <3>1 DEF Bijection, Injection, Surjection, IsInjective
  <2>2. ExistsBijection(1..c, S)
    BY <2>1 DEF ExistsBijection
  <2> QED BY <2>2, FS_CountingElements
<1> DEFINE u == Ascending(S)
<1>3. /\ u \in Seq(S) /\ Len(u) = c /\ DOMAIN u = 1..c
      /\ \A i \in 1..c : u[i] \in S /\ Place(S, u[i]) = i
  BY <1>2, AscendingLists
<1>4. ASSUME NEW i \in 1..c PROVE s[i] = u[i]
  <2>1. s[i] \in S /\ u[i] \in S /\ Place(S, s[i]) = i /\ Place(S, u[i]) = i
    BY <1>1, <1>3
  <2>2. /\ s[i] < u[i] => Place(S, s[i]) < Place(S, u[i])
        /\ u[i] < s[i] => Place(S, u[i]) < Place(S, s[i])
    BY <2>1, Places
  <2> HIDE DEF u
  <2>3. s[i] \in Nat /\ u[i] \in Nat
    BY <1>0, <2>1
  <2> QED BY <2>1, <2>2, <2>3
<1>5. s = u
  <2> HIDE DEF u
  <2> QED BY <1>3, <1>4, SeqDef
<1> QED BY <1>2, <1>5

\* A list of no members is empty, and only that.
LEMMA AscendingOfNone ==
    ASSUME NEW k \in Nat, NEW S \in SUBSET (1..k)
    PROVE  Ascending(S) = <<>> <=> S = {}
<1> DEFINE s == Ascending(S)
<1>1. /\ s \in Seq(S) /\ DOMAIN s = 1..Len(s)
      /\ \A i \in 1..Len(s) : s[i] \in S
      /\ \A n \in S : \E i \in 1..Len(s) : s[i] = n
  BY AscendingLists
<1> HIDE DEF s
<1>2. ASSUME s = <<>> PROVE S = {}
  <2>1. Len(s) = 0
    BY <1>2
  <2> QED BY <1>1, <2>1
<1>3. ASSUME S = {} PROVE s = <<>>
  <2>1. Len(s) \in Nat /\ Len(s) = 0
    <3>1. Len(s) \in Nat
      BY <1>1, LenProperties
    <3> QED BY <1>1, <1>3, <3>1
  <2> QED BY <1>1, <2>1, EmptySeq
<1> QED BY <1>2, <1>3 DEF s

\* A younger message is listed last.
LEMMA AscendingOfYounger ==
    ASSUME NEW k \in Nat, NEW S \in SUBSET (1..k), NEW n \in Nat, n > k
    PROVE  Ascending(S \cup {n}) = Append(Ascending(S), n)
<1> DEFINE s == Ascending(S)
           u == Append(s, n)
           c == Len(s)
<1>1. /\ s \in Seq(S)
      /\ \A i \in 1..c : s[i] \in S
      /\ \A i, j \in 1..c : i < j => s[i] < s[j]
      /\ \A m \in S : \E i \in 1..c : s[i] = m
  BY AscendingLists
<1>2. S \cup {n} \in SUBSET (1..n)
  OBVIOUS
<1> HIDE DEF s
<1>3. c \in Nat /\ s \in Seq(S \cup {n})
  BY <1>1, LenProperties, SeqMonotonic
<1>4. u \in Seq(S \cup {n}) /\ Len(u) = c + 1 /\ u[c + 1] = n /\ \A i \in 1..c : u[i] = s[i]
  BY <1>3, AppendProperties
<1> HIDE DEF c, u
<1>5. u \in [1..(c + 1) -> S \cup {n}]
  BY <1>4, LenProperties
<1>6. \A i, j \in 1..(c + 1) : i < j => u[i] < u[j]
  <2> SUFFICES ASSUME NEW i \in 1..(c + 1), NEW j \in 1..(c + 1), i < j PROVE u[i] < u[j]
    OBVIOUS
  <2>1. i \in 1..c /\ u[i] = s[i] /\ s[i] \in S
    BY <1>1, <1>3, <1>4
  <2>2. CASE j = c + 1
    <3>1. u[j] = n /\ s[i] \in 1..k
      BY <2>1, <2>2, <1>4
    <3> QED BY <2>1, <3>1
  <2>3. CASE j \in 1..c
    <3>1. u[j] = s[j] /\ s[i] < s[j]
      BY <2>1, <2>3, <1>1, <1>4
    <3> QED BY <2>1, <3>1
  <2> QED BY <2>2, <2>3, <1>3
<1>7. \A m \in S \cup {n} : \E i \in 1..(c + 1) : u[i] = m
  <2>1. c + 1 \in 1..(c + 1) /\ \A i \in 1..c : i \in 1..(c + 1)
    BY <1>3
  <2> QED BY <1>1, <1>4, <2>1
<1>8. u = Ascending(S \cup {n})
  <2> DEFINE T == S \cup {n}
             d == c + 1
  <2>1. T \in SUBSET (1..n) /\ d \in Nat /\ u \in [1..d -> T]
    BY <1>2, <1>3, <1>5
  <2>2. (\A i, j \in 1..d : i < j => u[i] < u[j]) /\ (\A m \in T : \E i \in 1..d : u[i] = m)
    BY <1>6, <1>7
  <2> HIDE DEF T, d
  <2>3. u = Ascending(T)
    BY <2>1, <2>2, OneOrder
  <2> QED BY <2>3 DEF T
<1> QED BY <1>8 DEF u, s

\* Removing one member keeps the order of the others.
LEMMA AscendingWithout ==
    ASSUME NEW k \in Nat, NEW S \in SUBSET (1..k), NEW n \in S
    PROVE  Ascending(S \ {n}) = RemoveAt(Ascending(S), At(Ascending(S), n))
<1> DEFINE s == Ascending(S)
           c == Len(s)
           a == At(s, n)
           u == RemoveAt(s, a)
<1>0. \A m \in S : m \in Nat
  OBVIOUS
<1>1. /\ s \in Seq(S)
      /\ \A i \in 1..c : s[i] \in S
      /\ \A i, j \in 1..c : i < j => s[i] < s[j]
      /\ \A m \in S : \E i \in 1..c : s[i] = m
  BY AscendingLists
<1> HIDE DEF s
<1>2. c \in Nat
  BY <1>1
<1>3. a \in 1..c /\ s[a] = n
  BY <1>1 DEF At
<1> HIDE DEF c, a
<1>4. u \in Seq(S) /\ Len(u) = c - 1 /\ \A i \in 1..(c - 1) : u[i] = IF i < a THEN s[i] ELSE s[i + 1]
  <2> DEFINE x == SubSeq(s, 1, a - 1)
             y == SubSeq(s, a + 1, c)
  <2>0. c \in Int /\ a \in Int /\ a - 1 \in Int /\ a + 1 \in Int /\ 1 <= a /\ a <= c
    BY <1>2, <1>3
  <2>1. x \in Seq(S) /\ Len(x) = a - 1 /\ \A i \in 1..(a - 1) : x[i] = s[i]
    <3>1. \A i \in 1..(a - 1) : s[i] \in S
      BY <2>0, <1>1
    <3>2. /\ x \in Seq(S)
          /\ Len(x) = IF 1 <= a - 1 THEN (a - 1) - 1 + 1 ELSE 0
          /\ \A i \in 1..((a - 1) - 1 + 1) : x[i] = s[1 + i - 1]
      <4> HIDE DEF x
      <4> QED BY <2>0, <3>1, SubSeqProperties DEF x
    <3> HIDE DEF x
    <3> QED BY <2>0, <3>2
  <2>2. y \in Seq(S) /\ Len(y) = c - a /\ \A i \in 1..(c - a) : y[i] = s[a + i]
    <3>1. \A i \in (a + 1)..c : s[i] \in S
      BY <2>0, <1>1
    <3>2. /\ y \in Seq(S)
          /\ Len(y) = IF a + 1 <= c THEN c - (a + 1) + 1 ELSE 0
          /\ \A i \in 1..(c - (a + 1) + 1) : y[i] = s[(a + 1) + i - 1]
      <4> HIDE DEF y
      <4> QED BY <2>0, <3>1, SubSeqProperties DEF y
    <3> HIDE DEF y
    <3> QED BY <2>0, <3>2
  <2>3. u = x \o y
    BY DEF u, RemoveAt, c
  <2> HIDE DEF u, x, y
  <2>4. /\ u \in Seq(S) /\ Len(u) = Len(x) + Len(y)
        /\ \A i \in 1..(Len(x) + Len(y)) : u[i] = IF i <= Len(x) THEN x[i] ELSE y[i - Len(x)]
    BY <2>1, <2>2, <2>3, ConcatProperties
  <2>5. Len(u) = c - 1 /\ \A i \in 1..(c - 1) : u[i] = IF i <= a - 1 THEN x[i] ELSE y[i - (a - 1)]
    BY <2>0, <2>1, <2>2, <2>4
  <2>6. ASSUME NEW i \in 1..(c - 1) PROVE u[i] = IF i < a THEN s[i] ELSE s[i + 1]
    <3>1. CASE i < a
      <4>1. i \in 1..(a - 1) /\ i <= a - 1
        BY <2>0, <3>1
      <4> QED BY <4>1, <3>1, <2>1, <2>5
    <3>2. CASE ~(i < a)
      <4>1. i - (a - 1) \in 1..(c - a) /\ ~(i <= a - 1) /\ a + (i - (a - 1)) = i + 1
        BY <2>0, <3>2
      <4> QED BY <4>1, <3>2, <2>2, <2>5
    <3> QED BY <3>1, <3>2
  <2> QED BY <2>4, <2>5, <2>6
<1> HIDE DEF u
<1>5. \A i \in 1..(c - 1) : u[i] \in S \ {n}
  <2> SUFFICES ASSUME NEW i \in 1..(c - 1) PROVE u[i] \in S \ {n}
    OBVIOUS
  <2>1. i \in 1..c /\ i + 1 \in 1..c
    BY <1>2
  <2>2. s[i] \in S /\ s[i + 1] \in S /\ s[a] \in S
    BY <2>1, <1>1, <1>3
  <2>3. CASE i < a
    BY <2>1, <2>2, <2>3, <1>0, <1>1, <1>3, <1>4
  <2>4. CASE ~(i < a)
    <3>1. a < i + 1
      BY <2>4, <1>2, <1>3
    <3> QED BY <3>1, <2>1, <2>2, <2>4, <1>0, <1>1, <1>3, <1>4
  <2> QED BY <2>3, <2>4
<1>6. u \in [1..(c - 1) -> S \ {n}]
  BY <1>2, <1>3, <1>4, <1>5
<1>7. \A i, j \in 1..(c - 1) : i < j => u[i] < u[j]
  <2> SUFFICES ASSUME NEW i \in 1..(c - 1), NEW j \in 1..(c - 1), i < j PROVE u[i] < u[j]
    OBVIOUS
  <2>1. i \in 1..c /\ i + 1 \in 1..c /\ j \in 1..c /\ j + 1 \in 1..c
    BY <1>2
  <2> QED BY <2>1, <1>1, <1>2, <1>3, <1>4
<1>8. \A m \in S \ {n} : \E i \in 1..(c - 1) : u[i] = m
  <2> SUFFICES ASSUME NEW m \in S \ {n} PROVE \E i \in 1..(c - 1) : u[i] = m
    OBVIOUS
  <2>1. PICK j \in 1..c : s[j] = m
    BY <1>1
  <2>2. j # a
    BY <2>1, <1>3
  <2>3. CASE j < a
    BY <2>1, <2>3, <1>2, <1>3, <1>4
  <2>4. CASE a < j
    <3>1. j - 1 \in 1..(c - 1) /\ ~(j - 1 < a) /\ (j - 1) + 1 = j
      BY <2>4, <1>2, <1>3
    <3> QED BY <3>1, <2>1, <1>4
  <2> QED BY <2>2, <2>3, <2>4, <1>2, <1>3
<1>9. c - 1 \in Nat /\ S \ {n} \in SUBSET (1..k)
  BY <1>2, <1>3
<1>10. u = Ascending(S \ {n})
  BY <1>6, <1>7, <1>8, <1>9, OneOrder
<1> QED BY <1>10 DEF u, a, s

-----------------------------------------------------------------------------
(* Least and greatest members, in place of induction. *)

\* A set of numbers that is not empty has a least one: the order of the numbers is
\* well founded.
LEMMA LeastOf ==
    ASSUME NEW T \in SUBSET Nat, T # {}
    PROVE  \E x \in T : \A y \in T : x <= y
<1> DEFINE R == {ss \in Nat \X Nat : ss[1] < ss[2]}
<1>1. IsWellFoundedOn(R, Nat)
  BY NatLessThanWellFounded DEF OpToRel
<1>2. PICK x \in T : \A y \in T : ~ (<<y, x>> \in R)
  <2> HIDE DEF R
  <2> QED BY <1>1, WFMin
<1>3. ASSUME NEW y \in T PROVE x <= y
  <2>1. x \in Nat /\ y \in Nat
    OBVIOUS
  <2>2. <<y, x>> \in Nat \X Nat
    BY <2>1
  <2>3. <<y, x>>[1] = y /\ <<y, x>>[2] = x
    OBVIOUS
  <2>4. ~(<<y, x>> \in R)
    BY <1>2
  <2>5. ~(y < x)
    <3> SUFFICES ASSUME y < x PROVE <<y, x>> \in R
      BY <2>4
    <3> QED BY <2>2, <2>3
  <2> QED BY <2>1, <2>5
<1> QED
  BY <1>3

\* A set of messages that is not empty has a youngest one, and Max is it.
LEMMA GreatestOf ==
    ASSUME NEW k \in Nat, NEW S \in SUBSET (1..k), S # {}
    PROVE  Max(S) \in S /\ \A y \in S : y <= Max(S)
<1> DEFINE T == {k - n : n \in S}
<1>1. T \in SUBSET Nat /\ T # {}
  <2>1. \A n \in S : k - n \in Nat
    OBVIOUS
  <2>2. T # {}
    OBVIOUS
  <2> QED BY <2>1, <2>2
<1>2. PICK x \in T : \A y \in T : x <= y
  <2> HIDE DEF T
  <2> QED BY <1>1, LeastOf
<1>3. PICK n \in S : x = k - n
  OBVIOUS
<1>4. ASSUME NEW y \in S PROVE n >= y
  <2>1. k - y \in T
    OBVIOUS
  <2>2. k - n <= k - y
    <3> HIDE DEF T
    <3> QED BY <1>2, <1>3, <2>1
  <2>3. k \in Int /\ n \in Int /\ y \in Int
    OBVIOUS
  <2> QED BY <2>2, <2>3
<1>5. \E m \in S : \A y \in S : m >= y
  BY <1>4
<1>6. Max(S) \in S /\ \A y \in S : Max(S) >= y
  <2> DEFINE m == CHOOSE m \in S : \A y \in S : m >= y
  <2>1. m \in S /\ \A y \in S : m >= y
    BY <1>5
  <2> HIDE DEF m
  <2> QED BY <2>1 DEF Max, m
<1>7. \A y \in S : y \in Int
  OBVIOUS
<1> DEFINE g == Max(S)
<1> HIDE DEF g
<1>8. g \in S /\ \A y \in S : g >= y
  BY <1>6 DEF g
<1>9. \A y \in S : y <= g
  BY <1>7, <1>8
<1> QED BY <1>8, <1>9 DEF g

-----------------------------------------------------------------------------
(* Trees whose messages are among the first k that were made. *)

Children(t, p) == {n \in Nodes(t) : t.parent[n] = p}

\* A tree as every operation leaves it: messages hang under older ones, replies under
\* messages, and the children of each are listed by age.
Tree(t, k) ==
    /\ t = [parent |-> t.parent, role |-> t.role, kids |-> t.kids, current |-> t.current]
    /\ Nodes(t) \subseteq 1..k
    /\ t.parent \in [Nodes(t) -> Nodes(t) \cup {Root}]
    /\ t.role \in [Nodes(t) -> Roles]
    /\ \A n \in Nodes(t) : t.parent[n] < n
    /\ \A n \in Nodes(t) : t.role[n] = "assistant" => t.parent[n] # Root
    /\ t.kids = [p \in Nodes(t) \cup {Root} |-> Ascending(Children(t, p))]
    /\ t.current \in Nodes(t) \cup {Root}

\* A message is a leaf if no other hangs under it.
LEMMA Leaves ==
    ASSUME NEW k \in Nat, NEW t, Tree(t, k), NEW p \in Nodes(t) \cup {Root}
    PROVE  /\ IsLeaf(t, p) <=> Children(t, p) = {}
           /\ Children(t, p) \in SUBSET (1..k)
           /\ ToSet(t.kids[p]) = Children(t, p)
<1>1. Children(t, p) \in SUBSET (1..k) /\ t.kids[p] = Ascending(Children(t, p))
  BY DEF Tree, Children
<1>2. IsLeaf(t, p) <=> Children(t, p) = {}
  BY <1>1, AscendingOfNone DEF IsLeaf
<1> DEFINE S == Children(t, p)
           s == Ascending(S)
<1>3. /\ DOMAIN s = 1..Len(s)
      /\ \A i \in 1..Len(s) : s[i] \in S
      /\ \A n \in S : \E i \in 1..Len(s) : s[i] = n
  BY <1>1, AscendingLists
<1>4. ToSet(s) = S
  <2> HIDE DEF s, S
  <2> QED BY <1>3 DEF ToSet
<1> QED BY <1>1, <1>2, <1>4

\* The function that Path is defined by exists: one for the messages up to the j-th
\* gives one for the messages up to the next.
LEMMA PathsExist ==
    ASSUME NEW k \in Nat, NEW t, Tree(t, k)
    PROVE  \E f : f = [n \in Nodes(t) \cup {Root} |->
                         IF n = Root THEN <<>> ELSE Append(f[t.parent[n]], n)]
<1> DEFINE D(j) == {n \in Nodes(t) \cup {Root} : n <= j}
           Fits(f, j) == f = [n \in D(j) |-> IF n = Root THEN <<>> ELSE Append(f[t.parent[n]], n)]
           T == {j \in Nat : ~ \E f : Fits(f, j)}
<1>0. /\ \A n \in Nodes(t) : n \in Nat /\ n # 0 /\ n <= k
      /\ \A n \in Nodes(t) : t.parent[n] \in Nodes(t) \cup {Root} /\ t.parent[n] < n
  BY DEF Tree
<1>7. \A m \in Nodes(t) \cup {Root} : m \in Nat
  BY <1>0 DEF Root
<1>1. T = {}
  <2> SUFFICES ASSUME T # {} PROVE FALSE
    OBVIOUS
  <2>1. PICK x \in T : \A y \in T : x <= y
    <3>1. T \in SUBSET Nat
      OBVIOUS
    <3> HIDE DEF T
    <3> QED BY <3>1, LeastOf
  <2>2. x \in Nat /\ ~ \E f : Fits(f, x)
    OBVIOUS
  <2>3. CASE x = 0
    <3> DEFINE f == [n \in {Root} |-> <<>>]
    <3>1. D(x) = {Root}
      BY <2>3, <1>0 DEF Root
    <3>2. f = [n \in {Root} |-> IF n = Root THEN <<>> ELSE Append(f[t.parent[n]], n)]
      OBVIOUS
    <3>3. Fits(f, x)
      BY <3>1, <3>2
    <3> QED BY <2>2, <3>3
  <2>4. CASE x # 0
    <3>1. x - 1 \in Nat /\ x - 1 \notin T
      <4>1. x - 1 \in Nat /\ ~(x <= x - 1)
        BY <2>2, <2>4
      <4> HIDE DEF T
      <4> QED BY <4>1, <2>1
    <3>2. PICK f : Fits(f, x - 1)
      BY <3>1
    <3>3. \A n \in D(x - 1) : f[n] = IF n = Root THEN <<>> ELSE Append(f[t.parent[n]], n)
      BY <3>2
    <3> DEFINE g == [n \in D(x) |-> IF n = x THEN Append(f[t.parent[x]], x) ELSE f[n]]
               h == [n \in D(x) |-> IF n = Root THEN <<>> ELSE Append(g[t.parent[n]], n)]
    <3>4. ASSUME NEW n \in D(x) PROVE g[n] = h[n]
      <4>0. n \in Nodes(t) \cup {Root} /\ n \in Nat /\ n <= x
        BY <1>0 DEF Root
      <4>1. CASE n = Root
        <5>1. n # x /\ n \in D(x - 1)
          BY <2>2, <2>4, <3>1, <4>1 DEF Root
        <5>2. f[n] = <<>>
          BY <3>3, <4>1, <5>1
        <5> QED BY <4>1, <5>1, <5>2
      <4>2. CASE n # Root
        <5> DEFINE q == t.parent[n]
        <5> HIDE DEF D, T, g, h
        <5>0. n \in Nodes(t)
          BY <4>0, <4>2
        <5>1. n \in Nodes(t) /\ q \in Nodes(t) \cup {Root} /\ q < n /\ q \in Nat
          BY <5>0, <1>0, <1>7
        <5> USE DEF D, g, h
        <5>2. q \in D(x) /\ q # x
          BY <5>1, <4>0, <2>2
        <5>3. g[q] = f[q]
          BY <5>2
        <5>4. CASE n = x
          BY <5>3, <5>4, <4>2
        <5>5. CASE n # x
          <6>1. n \in D(x - 1)
            BY <4>0, <5>5, <2>2
          <6>2. f[n] = Append(f[q], n)
            BY <3>3, <4>2, <6>1
          <6> QED BY <5>3, <5>5, <4>2, <6>2
        <5> QED BY <5>4, <5>5
      <4> QED BY <4>1, <4>2
    <3>5. g = h
      BY <3>4
    <3>6. Fits(g, x)
      BY <3>5
    <3> QED BY <2>2, <3>6
  <2> QED BY <2>3, <2>4
<1>2. PICK f : Fits(f, k)
  BY <1>1
<1>3. D(k) = Nodes(t) \cup {Root}
  BY <1>0 DEF Root
<1>4. f = [n \in Nodes(t) \cup {Root} |-> IF n = Root THEN <<>> ELSE Append(f[t.parent[n]], n)]
  BY <1>2, <1>3
<1> QED BY <1>4

\* The path to a message is the path to what it hangs under, and the message.
LEMMA PathStep ==
    ASSUME NEW k \in Nat, NEW t, Tree(t, k)
    PROVE  /\ Path(t, Root) = <<>>
           /\ \A n \in Nodes(t) : Path(t, n) = Append(Path(t, t.parent[n]), n)
<1> DEFINE P(f) == f = [n \in Nodes(t) \cup {Root} |->
                          IF n = Root THEN <<>> ELSE Append(f[t.parent[n]], n)]
           path == CHOOSE f : P(f)
<1>1. \E f : P(f)
  BY PathsExist
<1>2. P(path)
  <2> HIDE DEF P
  <2> QED BY <1>1
<1>3. \A n : Path(t, n) = path[n]
  BY DEF Path
<1>4. \A n \in Nodes(t) : n # Root
  BY DEF Tree, Root
<1> HIDE DEF path
<1>5. /\ path[Root] = <<>>
      /\ \A n \in Nodes(t) : path[n] = Append(path[t.parent[n]], n)
  BY <1>2, <1>4
<1> QED BY <1>3, <1>5

\* Two trees that hang the messages of the first the same way have the same paths to
\* them.
LEMMA PathsAgree ==
    ASSUME NEW k \in Nat, NEW l \in Nat, NEW t, NEW u, Tree(t, k), Tree(u, l),
           Nodes(t) \subseteq Nodes(u), \A n \in Nodes(t) : t.parent[n] = u.parent[n]
    PROVE  \A n \in Nodes(t) \cup {Root} : Path(t, n) = Path(u, n)
<1> DEFINE T == {n \in Nodes(t) : Path(t, n) # Path(u, n)}
<1>0. /\ \A n \in Nodes(t) : n \in Nat
      /\ \A n \in Nodes(t) : t.parent[n] \in Nodes(t) \cup {Root} /\ t.parent[n] < n
  BY DEF Tree
<1>1. Path(t, Root) = Path(u, Root)
  BY PathStep
<1>2. T = {}
  <2> SUFFICES ASSUME T # {} PROVE FALSE
    OBVIOUS
  <2>1. PICK x \in T : \A y \in T : x <= y
    <3>1. T \in SUBSET Nat
      BY <1>0
    <3> HIDE DEF T
    <3> QED BY <3>1, LeastOf
  <2> DEFINE q == t.parent[x]
  <2>2. x \in Nodes(t) /\ x \in Nodes(u) /\ q \in Nodes(t) \cup {Root} /\ q < x /\ q = u.parent[x]
    BY <1>0
  <2>3. q \notin T
    <3>1. x \in Nat /\ (q \in T => q \in Nat)
      BY <1>0
    <3> HIDE DEF T, q
    <3> QED BY <2>1, <2>2, <3>1
  <2>4. Path(t, q) = Path(u, q)
    BY <1>1, <2>2, <2>3
  <2>5. Path(t, x) = Append(Path(t, q), x) /\ Path(u, x) = Append(Path(u, q), x)
    BY <2>2, PathStep
  <2> QED BY <2>4, <2>5
<1> QED BY <1>1, <1>2

LEMMA PathIsSeq ==
    ASSUME NEW k \in Nat, NEW t, Tree(t, k)
    PROVE  \A n \in Nodes(t) \cup {Root} : Path(t, n) \in Seq(Nat)
<1> DEFINE T == {n \in Nodes(t) : Path(t, n) \notin Seq(Nat)}
<1>0. /\ \A n \in Nodes(t) : n \in Nat
      /\ \A n \in Nodes(t) : t.parent[n] \in Nodes(t) \cup {Root} /\ t.parent[n] < n
  BY DEF Tree
<1>1. Path(t, Root) \in Seq(Nat)
  BY PathStep, EmptySeq
<1>2. T = {}
  <2> SUFFICES ASSUME T # {} PROVE FALSE
    OBVIOUS
  <2>1. PICK x \in T : \A y \in T : x <= y
    <3>1. T \in SUBSET Nat
      BY <1>0
    <3> HIDE DEF T
    <3> QED BY <3>1, LeastOf
  <2> DEFINE q == t.parent[x]
  <2>2. x \in Nodes(t) /\ q \in Nodes(t) \cup {Root} /\ q < x
    BY <1>0
  <2>3. q \notin T
    <3>1. x \in Nat /\ (q \in T => q \in Nat)
      BY <1>0
    <3> HIDE DEF T, q
    <3> QED BY <2>1, <2>2, <3>1
  <2>4. Path(t, q) \in Seq(Nat)
    BY <1>1, <2>2, <2>3
  <2>5. Path(t, x) = Append(Path(t, q), x) /\ x \in Nat
    BY <2>2, <1>0, PathStep
  <2>6. Path(t, x) \in Seq(Nat)
    <3> HIDE DEF T, q
    <3> QED BY <2>4, <2>5, AppendProperties
  <2> QED BY <2>6
<1> QED BY <1>1, <1>2

\* The function that LatestLeaf is defined by exists: one for the j youngest numbers
\* gives one for the next.
LEMMA DescentsExist ==
    ASSUME NEW k \in Nat, NEW t, Tree(t, k)
    PROVE  \E f : f = [m \in Nodes(t) |->
                         IF IsLeaf(t, m) THEN m ELSE f[Max(ToSet(t.kids[m]))]]
<1> DEFINE D(j) == {m \in Nodes(t) : m + j > k}
           next(m) == Max(ToSet(t.kids[m]))
           Fits(f, j) == f = [m \in D(j) |-> IF IsLeaf(t, m) THEN m ELSE f[next(m)]]
           T == {j \in Nat : ~ \E f : Fits(f, j)}
<1>0. \A m \in Nodes(t) : m \in Nat /\ 1 <= m /\ m <= k
  BY DEF Tree
<1>1. ASSUME NEW m \in Nodes(t), ~IsLeaf(t, m)
      PROVE  next(m) \in Nodes(t) /\ m < next(m)
  <2>1. /\ Children(t, m) # {} /\ Children(t, m) \in SUBSET (1..k)
        /\ ToSet(t.kids[m]) = Children(t, m)
    BY <1>1, Leaves
  <2>2. next(m) \in Children(t, m)
    BY <2>1, GreatestOf
  <2> QED BY <2>2 DEF Children, Tree
<1> HIDE DEF next
<1>2. T = {}
  <2> SUFFICES ASSUME T # {} PROVE FALSE
    OBVIOUS
  <2>1. PICK x \in T : \A y \in T : x <= y
    <3>1. T \in SUBSET Nat
      OBVIOUS
    <3> HIDE DEF T
    <3> QED BY <3>1, LeastOf
  <2>2. x \in Nat /\ ~ \E f : Fits(f, x)
    OBVIOUS
  <2>3. CASE x = 0
    <3> DEFINE f == [m \in {} |-> m]
    <3>1. D(x) = {}
      BY <2>3, <1>0
    <3>2. f = [m \in {} |-> IF IsLeaf(t, m) THEN m ELSE f[next(m)]]
      OBVIOUS
    <3>3. Fits(f, x)
      BY <3>1, <3>2
    <3> QED BY <2>2, <3>3
  <2>4. CASE x # 0
    <3>1. x - 1 \in Nat /\ x - 1 \notin T
      <4>1. x - 1 \in Nat /\ ~(x <= x - 1)
        BY <2>2, <2>4
      <4> HIDE DEF T
      <4> QED BY <4>1, <2>1
    <3>2. PICK f : Fits(f, x - 1)
      BY <3>1
    <3>3. \A m \in D(x - 1) : f[m] = IF IsLeaf(t, m) THEN m ELSE f[next(m)]
      BY <3>2
    <3> DEFINE g == [m \in D(x) |-> IF m + x = k + 1
                                    THEN (IF IsLeaf(t, m) THEN m ELSE f[next(m)]) ELSE f[m]]
               h == [m \in D(x) |-> IF IsLeaf(t, m) THEN m ELSE g[next(m)]]
    <3>4. ASSUME NEW m \in D(x) PROVE g[m] = h[m]
      <4>0. m \in Nodes(t) /\ m \in Nat /\ m + x > k
        BY <1>0
      <4>1. ASSUME ~IsLeaf(t, m) PROVE g[next(m)] = f[next(m)]
        <5>1. next(m) \in Nodes(t) /\ m < next(m) /\ next(m) \in Nat
          BY <4>0, <4>1, <1>0, <1>1
        <5>2. next(m) + x > k /\ next(m) + x # k + 1
          BY <4>0, <5>1, <2>2
        <5> QED BY <5>1, <5>2
      <4>2. CASE m + x = k + 1
        BY <4>1, <4>2
      <4>3. CASE m + x # k + 1
        <5>1. m \in D(x - 1)
          BY <4>0, <4>3, <2>2
        <5>2. f[m] = IF IsLeaf(t, m) THEN m ELSE f[next(m)]
          BY <3>3, <5>1
        <5> QED BY <4>1, <4>3, <5>2
      <4> QED BY <4>2, <4>3
    <3>5. g = h
      BY <3>4
    <3>6. Fits(g, x)
      BY <3>5
    <3> QED BY <2>2, <3>6
  <2> QED BY <2>3, <2>4
<1>3. PICK f : Fits(f, k)
  BY <1>2
<1>4. D(k) = Nodes(t)
  <2>1. \A m \in Nodes(t) : m + k > k
    BY <1>0
  <2> QED BY <2>1
<1>5. f = [m \in Nodes(t) |-> IF IsLeaf(t, m) THEN m ELSE f[next(m)]]
  BY <1>3, <1>4
<1> QED BY <1>5 DEF next

\* The way down along the youngest children ends at a leaf.
LEMMA LatestLeafIsLeaf ==
    ASSUME NEW k \in Nat, NEW t, Tree(t, k)
    PROVE  \A n \in Nodes(t) : LatestLeaf(t, n) \in Nodes(t) /\ IsLeaf(t, LatestLeaf(t, n))
<1> DEFINE next(m) == Max(ToSet(t.kids[m]))
           P(f) == f = [m \in Nodes(t) |-> IF IsLeaf(t, m) THEN m ELSE f[Max(ToSet(t.kids[m]))]]
           down == CHOOSE f : P(f)
           Ends(n) == LatestLeaf(t, n) \in Nodes(t) /\ IsLeaf(t, LatestLeaf(t, n))
           T == {n \in Nodes(t) : ~Ends(n)}
<1>1. \E f : P(f)
  BY DescentsExist
<1>2. P(down)
  <2> HIDE DEF P
  <2> QED BY <1>1
<1>3. \A n : LatestLeaf(t, n) = down[n]
  BY DEF LatestLeaf
<1> HIDE DEF down
<1>4. \A m \in Nodes(t) : down[m] = IF IsLeaf(t, m) THEN m ELSE down[next(m)]
  BY <1>2
<1>5. ASSUME NEW m \in Nodes(t), ~IsLeaf(t, m)
      PROVE  next(m) \in Nodes(t) /\ m < next(m) /\ m \in Nat /\ next(m) \in Nat
  <2>1. /\ Children(t, m) # {} /\ Children(t, m) \in SUBSET (1..k)
        /\ ToSet(t.kids[m]) = Children(t, m)
    BY <1>5, Leaves
  <2>2. next(m) \in Children(t, m)
    BY <2>1, GreatestOf
  <2> QED BY <2>2 DEF Children, Tree
<1> HIDE DEF next
<1>6. T = {}
  <2> SUFFICES ASSUME T # {} PROVE FALSE
    OBVIOUS
  <2> DEFINE x == Max(T)
  <2>1. x \in T /\ \A y \in T : y <= x
    <3>1. T \in SUBSET (1..k)
      BY DEF Tree
    <3> HIDE DEF T
    <3> QED BY <3>1, GreatestOf
  <2> HIDE DEF x
  <2>2. x \in Nodes(t) /\ ~Ends(x)
    BY <2>1
  <2>3. ~IsLeaf(t, x)
    BY <1>3, <1>4, <2>2
  <2>4. next(x) \in Nodes(t) /\ next(x) \notin T
    <3>1. next(x) \in Nodes(t) /\ x < next(x) /\ x \in Nat /\ next(x) \in Nat
      BY <1>5, <2>2, <2>3
    <3>2. next(x) \in T => next(x) <= x
      <4> HIDE DEF T
      <4> QED BY <2>1
    <3> QED BY <3>1, <3>2
  <2>5. LatestLeaf(t, x) = LatestLeaf(t, next(x))
    BY <1>3, <1>4, <2>2, <2>3
  <2> QED BY <2>2, <2>4, <2>5
<1> QED BY <1>6

-----------------------------------------------------------------------------
(* What the operations make of a tree. *)

LEMMA TreeGrows ==
    ASSUME NEW k \in Nat, NEW l \in Nat, k <= l, NEW t, Tree(t, k)
    PROVE  Tree(t, l)
<1>1. Nodes(t) \subseteq 1..l
  BY DEF Tree
<1> QED BY <1>1 DEF Tree

LEMMA NewTreeIsTree ==
    /\ \A k \in Nat : Tree(NewTree, k)
    /\ Nodes(NewTree) = {}
<1>1. Nodes(NewTree) = {}
  BY DEF NewTree, Nodes
<1>2. Children(NewTree, Root) = {}
  BY <1>1 DEF Children
<1>3. Ascending({}) = <<>>
  BY AscendingOfNone
<1> DEFINE r == NewTree
<1>4. r = [parent |-> r.parent, role |-> r.role, kids |-> r.kids, current |-> r.current]
  BY DEF NewTree
<1>5. r.parent \in [{} -> {Root}] /\ r.role \in [{} -> Roles] /\ r.current = Root
  BY DEF NewTree
<1>6. r.kids = [p \in {Root} |-> Ascending(Children(r, p))]
  <2>1. r.kids = [p \in {Root} |-> <<>>]
    BY DEF NewTree
  <2> HIDE DEF r
  <2>2. \A p \in {Root} : Ascending(Children(r, p)) = <<>>
    BY <1>2, <1>3 DEF r
  <2> QED BY <2>1, <2>2
<1> HIDE DEF r
<1>7. Nodes(r) = {}
  BY <1>1 DEF r
<1>8. \A k \in Nat : Tree(r, k)
  BY <1>4, <1>5, <1>6, <1>7 DEF Tree
<1> QED BY <1>1, <1>8 DEF r

LEMMA SelectIsTree ==
    ASSUME NEW k \in Nat, NEW t, Tree(t, k), NEW n \in Nodes(t) \cup {Root}
    PROVE  LET u == Select(t, n)
           IN  /\ Tree(u, k) /\ Nodes(u) = Nodes(t) /\ u.parent = t.parent /\ u.role = t.role
               /\ u.kids = t.kids /\ u.current = n
<1> DEFINE u == Select(t, n)
<1>1. u = [parent |-> t.parent, role |-> t.role, kids |-> t.kids, current |-> n]
  BY DEF Select, Tree
<1>2. u.parent = t.parent /\ u.role = t.role /\ u.kids = t.kids /\ u.current = n
  BY <1>1
<1>3. u = [parent |-> u.parent, role |-> u.role, kids |-> u.kids, current |-> u.current]
  BY <1>1, <1>2
<1> HIDE DEF u
<1>4. Nodes(u) = Nodes(t) /\ \A p : Children(u, p) = Children(t, p)
  BY <1>2 DEF Nodes, Children
<1>5. Tree(u, k)
  BY <1>2, <1>3, <1>4 DEF Tree
<1> QED BY <1>2, <1>4, <1>5 DEF u

\* A sibling's latest leaf is a leaf of the tree.
LEMMA SwitchSelects ==
    ASSUME NEW k \in Nat, NEW t, Tree(t, k), NEW n \in Nodes(t), NEW step \in {-1, 1}
    PROVE  \E m \in Nodes(t) : IsLeaf(t, m) /\ SwitchSibling(t, n, step) = Select(t, m)
<1> DEFINE S == Children(t, t.parent[n])
           sibs == t.kids[t.parent[n]]
           i == ((At(sibs, n) - 1 + step) % Len(sibs)) + 1
<1>1. t.parent[n] \in Nodes(t) \cup {Root} /\ n \in S /\ S \in SUBSET (1..k)
  BY DEF Tree, Children
<1>2. sibs = Ascending(S)
  BY <1>1 DEF Tree
<1>3. /\ sibs \in Seq(S)
      /\ \A j \in 1..Len(sibs) : sibs[j] \in S
      /\ \E j \in 1..Len(sibs) : sibs[j] = n
  <2> DEFINE a == Ascending(S)
  <2>1. /\ a \in Seq(S)
        /\ \A j \in 1..Len(a) : a[j] \in S
        /\ \A m \in S : \E j \in 1..Len(a) : a[j] = m
    <3> HIDE DEF S
    <3> QED BY <1>1, AscendingLists
  <2> HIDE DEF S, sibs, a
  <2>2. sibs = a
    BY <1>2 DEF a
  <2> QED BY <1>1, <2>1, <2>2
<1>4. Len(sibs) \in Nat /\ Len(sibs) # 0
  BY <1>3, LenProperties
<1>5. At(sibs, n) \in 1..Len(sibs)
  BY <1>3 DEF At
<1>6. i \in 1..Len(sibs)
  <2> DEFINE a == At(sibs, n)
             c == Len(sibs)
  <2>1. a \in Int /\ c \in Nat /\ c > 0
    BY <1>4, <1>5
  <2> HIDE DEF a, c
  <2>2. (a - 1 + step) \in Int
    BY <2>1
  <2>3. ((a - 1 + step) % c) \in 0..(c - 1)
    BY <2>1, <2>2
  <2>4. ((a - 1 + step) % c) + 1 \in 1..c
    BY <2>1, <2>3
  <2> QED BY <2>4 DEF a, c
<1>7. sibs[i] \in Nodes(t)
  BY <1>3, <1>6 DEF Children
<1>8. SwitchSibling(t, n, step) = Select(t, LatestLeaf(t, sibs[i]))
  BY DEF SwitchSibling
<1> QED BY <1>7, <1>8, LatestLeafIsLeaf

\* A new message, younger than all, hangs last under its parent.
LEMMA AddIsTree ==
    ASSUME NEW k \in Nat, NEW t, Tree(t, k), NEW p \in Nodes(t) \cup {Root},
           NEW role \in Roles, role = "assistant" => p # Root
    PROVE  LET n == k + 1
               u == Add(t, n, p, role)
           IN  /\ Tree(u, n) /\ Nodes(u) = Nodes(t) \cup {n} /\ n \notin Nodes(t) /\ u.current = n
               /\ u.parent[n] = p /\ u.role[n] = role
               /\ \A m \in Nodes(t) : u.parent[m] = t.parent[m] /\ u.role[m] = t.role[m]
<1> DEFINE n == k + 1
           u == Add(t, n, p, role)
<1>0. /\ n \in Nat /\ n > k /\ n # Root /\ p # n /\ n \notin Nodes(t)
      /\ \A m \in Nodes(t) : m \in 1..k
  BY DEF Tree, Root
<1>1. DOMAIN t.kids = Nodes(t) \cup {Root} /\ p \in DOMAIN t.kids
  BY DEF Tree
<1> HIDE DEF n
<1>2. /\ u = [parent |-> u.parent, role |-> u.role, kids |-> u.kids, current |-> u.current]
      /\ u.parent = [m \in Nodes(t) \cup {n} |-> IF m = n THEN p ELSE t.parent[m]]
      /\ u.role = [m \in Nodes(t) \cup {n} |-> IF m = n THEN role ELSE t.role[m]]
      /\ u.kids = [m \in DOMAIN t.kids \cup {n} |->
                     IF m = n THEN <<>> ELSE IF m = p THEN Append(t.kids[p], n) ELSE t.kids[m]]
      /\ u.current = n
  BY DEF Add
<1> HIDE DEF u
<1>3. Nodes(u) = Nodes(t) \cup {n}
  BY <1>2 DEF Nodes
<1>4. /\ u.parent[n] = p /\ u.role[n] = role
      /\ \A m \in Nodes(t) : u.parent[m] = t.parent[m] /\ u.role[m] = t.role[m]
  BY <1>0, <1>2
<1>5. Children(u, n) = {} /\ Children(u, p) = Children(t, p) \cup {n}
  BY <1>0, <1>3, <1>4 DEF Children, Tree
<1>6. \A q \in Nodes(t) \cup {Root} : q # p => Children(u, q) = Children(t, q)
  BY <1>0, <1>3, <1>4 DEF Children, Tree
<1>7. \A q \in Nodes(t) \cup {Root} :
          t.kids[q] = Ascending(Children(t, q)) /\ Children(t, q) \in SUBSET (1..k)
  BY DEF Tree, Children
<1>8. ASSUME NEW q \in Nodes(u) \cup {Root} PROVE u.kids[q] = Ascending(Children(u, q))
  <2>1. CASE q = n
    <3>1. u.kids[q] = <<>>
      BY <2>1, <1>1, <1>2
    <3> QED BY <2>1, <3>1, <1>5, AscendingOfNone
  <2>2. CASE q = p
    <3>1. u.kids[p] = Append(t.kids[p], n)
      BY <1>0, <1>1, <1>2
    <3>2. Ascending(Children(t, p) \cup {n}) = Append(Ascending(Children(t, p)), n)
      BY <1>0, <1>7, AscendingOfYounger
    <3> QED BY <2>2, <3>1, <3>2, <1>5, <1>7
  <2>3. CASE q # n /\ q # p
    <3>1. q \in Nodes(t) \cup {Root}
      BY <2>3, <1>3
    <3>2. u.kids[q] = t.kids[q]
      BY <2>3, <3>1, <1>1, <1>2
    <3> QED BY <2>3, <3>1, <3>2, <1>6, <1>7
  <2> QED BY <2>1, <2>2, <2>3
<1>9. u.kids = [q \in Nodes(u) \cup {Root} |-> Ascending(Children(u, q))]
  <2>1. DOMAIN u.kids = Nodes(u) \cup {Root}
    BY <1>1, <1>2, <1>3
  <2>2. u.kids = [q \in DOMAIN u.kids |-> u.kids[q]]
    BY <1>2
  <2> QED BY <2>1, <2>2, <1>8
<1>10. Tree(u, n)
  <2>1. Nodes(u) \subseteq 1..n
    BY <1>0, <1>3
  <2>2. u.parent \in [Nodes(u) -> Nodes(u) \cup {Root}] /\ u.role \in [Nodes(u) -> Roles]
    BY <1>2, <1>3 DEF Tree
  <2>3. \A m \in Nodes(u) : u.parent[m] < m
    <3>1. p < n
      BY <1>0 DEF Root
    <3> QED BY <3>1, <1>3, <1>4 DEF Tree
  <2>4. \A m \in Nodes(u) : u.role[m] = "assistant" => u.parent[m] # Root
    BY <1>3, <1>4 DEF Tree
  <2>5. u.current \in Nodes(u) \cup {Root}
    BY <1>2, <1>3
  <2> QED BY <2>1, <2>2, <2>3, <2>4, <2>5, <1>2, <1>9 DEF Tree
<1> QED
  BY <1>0, <1>2, <1>3, <1>4, <1>10 DEF u, n

\* A leaf is taken from its parent's children; the rest stays.
LEMMA RemoveIsTree ==
    ASSUME NEW k \in Nat, NEW t, Tree(t, k), NEW n \in Nodes(t), IsLeaf(t, n)
    PROVE  LET u == RemoveLeaf(t, n)
           IN  /\ Tree(u, k) /\ Nodes(u) = Nodes(t) \ {n}
               /\ \A m \in Nodes(u) : u.parent[m] = t.parent[m] /\ u.role[m] = t.role[m]
<1> DEFINE u == RemoveLeaf(t, n)
           p == t.parent[n]
<1>0. /\ n # Root /\ p \in Nodes(t) \cup {Root} /\ p # n
      /\ \A m \in Nodes(t) : t.parent[m] # n
  <2>1. Children(t, n) = {}
    BY Leaves
  <2> QED BY <2>1 DEF Tree, Root, Children
<1>1. DOMAIN t.kids = Nodes(t) \cup {Root}
  BY DEF Tree
<1>2. /\ u = [parent |-> u.parent, role |-> u.role, kids |-> u.kids, current |-> u.current]
      /\ u.parent = [m \in Nodes(t) \ {n} |-> t.parent[m]]
      /\ u.role = [m \in Nodes(t) \ {n} |-> t.role[m]]
      /\ u.kids = [q \in DOMAIN t.kids \ {n} |->
                     IF q = p THEN RemoveAt(t.kids[q], At(t.kids[q], n)) ELSE t.kids[q]]
      /\ u.current = IF t.current = n THEN p ELSE t.current
  BY DEF RemoveLeaf, Restrict
<1> HIDE DEF u, p
<1>3. Nodes(u) = Nodes(t) \ {n}
  BY <1>2 DEF Nodes
<1>4. \A m \in Nodes(u) : u.parent[m] = t.parent[m] /\ u.role[m] = t.role[m]
  BY <1>2, <1>3
<1>5. n \in Children(t, p) /\ Children(u, p) = Children(t, p) \ {n}
  BY <1>3, <1>4 DEF Children, p
<1>6. \A q \in Nodes(t) \cup {Root} : q # p => Children(u, q) = Children(t, q)
  BY <1>3, <1>4 DEF Children, p
<1>7. \A q \in Nodes(t) \cup {Root} :
          t.kids[q] = Ascending(Children(t, q)) /\ Children(t, q) \in SUBSET (1..k)
  BY DEF Tree, Children
<1>8. ASSUME NEW q \in Nodes(u) \cup {Root} PROVE u.kids[q] = Ascending(Children(u, q))
  <2>0. q \in Nodes(t) \cup {Root} /\ q # n
    BY <1>0, <1>3
  <2>1. CASE q = p
    <3>1. u.kids[q] = RemoveAt(t.kids[q], At(t.kids[q], n))
      BY <2>0, <2>1, <1>1, <1>2
    <3>2. Ascending(Children(t, p) \ {n})
            = RemoveAt(Ascending(Children(t, p)), At(Ascending(Children(t, p)), n))
      BY <1>0, <1>5, <1>7, AscendingWithout
    <3> QED BY <2>1, <3>1, <3>2, <1>0, <1>5, <1>7
  <2>2. CASE q # p
    <3>1. u.kids[q] = t.kids[q]
      BY <2>0, <2>2, <1>1, <1>2
    <3> QED BY <2>0, <2>2, <3>1, <1>6, <1>7
  <2> QED BY <2>1, <2>2
<1>9. u.kids = [q \in Nodes(u) \cup {Root} |-> Ascending(Children(u, q))]
  <2>1. DOMAIN u.kids = Nodes(u) \cup {Root}
    BY <1>0, <1>1, <1>2, <1>3
  <2>2. u.kids = [q \in DOMAIN u.kids |-> u.kids[q]]
    BY <1>2
  <2> QED BY <2>1, <2>2, <1>8
<1>10. Tree(u, k)
  <2>1. Nodes(u) \subseteq 1..k
    BY <1>3 DEF Tree
  <2>2. u.parent \in [Nodes(u) -> Nodes(u) \cup {Root}] /\ u.role \in [Nodes(u) -> Roles]
    BY <1>0, <1>2, <1>3 DEF Tree
  <2>3. \A m \in Nodes(u) : u.parent[m] < m
    BY <1>3, <1>4 DEF Tree
  <2>4. \A m \in Nodes(u) : u.role[m] = "assistant" => u.parent[m] # Root
    BY <1>3, <1>4 DEF Tree
  <2>5. u.current \in Nodes(u) \cup {Root}
    BY <1>0, <1>2, <1>3 DEF Tree
  <2> QED BY <2>1, <2>2, <2>3, <2>4, <2>5, <1>2, <1>9 DEF Tree
<1> QED
  BY <1>3, <1>4, <1>10 DEF u

\* Taking back what was just added gives the tree back, with its parent selected.
THEOREM RemoveUndoesAdd ==
    ASSUME NEW k \in Nat, NEW t, Tree(t, k), NEW p \in Nodes(t) \cup {Root},
           NEW role \in Roles, role = "assistant" => p # Root
    PROVE  LET u == Add(t, k + 1, p, role)
           IN  IsLeaf(u, k + 1) /\ RemoveLeaf(u, k + 1) = Select(t, p)
<1> DEFINE n == k + 1
           u == Add(t, n, p, role)
           v == RemoveLeaf(u, n)
           w == Select(t, p)
<1>1. /\ Tree(u, n) /\ Nodes(u) = Nodes(t) \cup {n} /\ n \notin Nodes(t) /\ u.current = n
      /\ u.parent[n] = p /\ u.role[n] = role
      /\ \A m \in Nodes(t) : u.parent[m] = t.parent[m] /\ u.role[m] = t.role[m]
  BY AddIsTree
<1>2. n \in Nat /\ p # n
  BY DEF Tree, Root
<1> HIDE DEF u, n
<1>3. IsLeaf(u, n)
  <2>1. Children(u, n) = {}
    BY <1>1, <1>2 DEF Children, Tree
  <2> QED BY <2>1, <1>1, <1>2, Leaves
<1>4. /\ Tree(v, n) /\ Nodes(v) = Nodes(t)
      /\ \A m \in Nodes(t) : v.parent[m] = t.parent[m] /\ v.role[m] = t.role[m]
  <2>1. /\ Tree(v, n) /\ Nodes(v) = Nodes(u) \ {n}
        /\ \A m \in Nodes(v) : v.parent[m] = u.parent[m] /\ v.role[m] = u.role[m]
    <3>1. n \in Nodes(u)
      BY <1>1
    <3> QED BY <3>1, <1>1, <1>2, <1>3, RemoveIsTree
  <2>2. Nodes(u) \ {n} = Nodes(t)
    BY <1>1
  <2> HIDE DEF v
  <2> QED BY <2>1, <2>2, <1>1
<1>5. v.current = p
  BY <1>1 DEF RemoveLeaf
<1>6. /\ Tree(w, k) /\ Nodes(w) = Nodes(t) /\ w.parent = t.parent /\ w.role = t.role
      /\ w.current = p
  BY SelectIsTree
<1> HIDE DEF v, w
<1>7. v.parent = w.parent /\ v.role = w.role
  BY <1>4, <1>6 DEF Tree
<1>8. \A q : Children(v, q) = Children(w, q)
  BY <1>7 DEF Children, Nodes
<1>9. v.kids = w.kids
  BY <1>4, <1>6, <1>8 DEF Tree
<1>10. v = w
  BY <1>4, <1>5, <1>6, <1>7, <1>9 DEF Tree
<1> QED BY <1>3, <1>10 DEF u, v, w, n

-----------------------------------------------------------------------------
(* Saving and loading. *)

\* What a file says of a message.
Entry(t, n) == [id |-> n, parent |-> t.parent[n], role |-> t.role[n]]

\* A file has every message of the tree once, by age.
LEMMA SavedLists ==
    ASSUME NEW k \in Nat, NEW t, Tree(t, k)
    PROVE  LET s == Saved(t)
               aged == Ascending(Nodes(t))
           IN  /\ s.current = t.current
               /\ Len(s.nodes) = Cardinality(Nodes(t)) /\ Len(s.nodes) \in Nat
               /\ DOMAIN s.nodes = 1..Len(s.nodes) /\ Len(aged) = Len(s.nodes)
               /\ \A i \in 1..Len(s.nodes) : aged[i] \in Nodes(t) /\ s.nodes[i] = Entry(t, aged[i])
               /\ \A i, j \in 1..Len(s.nodes) : i < j => aged[i] < aged[j]
               /\ \A n \in Nodes(t) : \E i \in 1..Len(s.nodes) : aged[i] = n
               /\ s.nodes = <<>> <=> Nodes(t) = {}
<1> DEFINE N == Nodes(t)
           aged == Ascending(N)
           l == Saved(t).nodes
           X == {Entry(t, n) : n \in N}
<1>1. /\ aged \in Seq(N) /\ Len(aged) = Cardinality(N)
      /\ \A i \in 1..Len(aged) : aged[i] \in N
      /\ \A i, j \in 1..Len(aged) : i < j => aged[i] < aged[j]
      /\ \A n \in N : \E i \in 1..Len(aged) : aged[i] = n
  <2>1. N \in SUBSET (1..k)
    BY DEF Tree
  <2> HIDE DEF N
  <2> QED BY <2>1, AscendingLists
<1>2. Saved(t).current = t.current /\ l = [i \in 1..Len(aged) |-> Entry(t, aged[i])]
  BY DEF Saved, Entry
<1>3. Len(aged) \in Nat
  <2> HIDE DEF aged, N
  <2> QED BY <1>1, LenProperties
<1>4. l \in [1..Len(aged) -> X]
  <2> HIDE DEF aged, l
  <2> QED BY <1>1, <1>2
<1>5. l \in Seq(X) /\ Len(l) = Len(aged) /\ DOMAIN l = 1..Len(aged)
  <2> HIDE DEF l, aged, X
  <2> QED BY <1>3, <1>4
<1>6. l = <<>> <=> N = {}
  <2>1. ASSUME l = <<>> PROVE N = {}
    <3>1. Len(aged) = 0
      BY <2>1, <1>5
    <3> QED BY <3>1, <1>1
  <2>2. ASSUME N = {} PROVE l = <<>>
    <3>1. Len(aged) = 0
      <4> HIDE DEF aged, N
      <4> QED BY <2>2, <1>1, <1>3
    <3> HIDE DEF l, X, aged
    <3> QED BY <3>1, <1>5, EmptySeq
  <2> QED BY <2>1, <2>2
<1> HIDE DEF l, aged
<1>7. \A i \in 1..Len(l) : l[i] = Entry(t, aged[i])
  BY <1>2, <1>5
<1> QED BY <1>1, <1>2, <1>3, <1>5, <1>6, <1>7 DEF l, aged

\* The messages of a file, whatever their order.
LEMMA SavedEntries ==
    ASSUME NEW k \in Nat, NEW t, Tree(t, k)
    PROVE  ToSet(Saved(t).nodes) = {Entry(t, n) : n \in Nodes(t)}
<1> DEFINE l == Saved(t).nodes
           aged == Ascending(Nodes(t))
<1>1. /\ DOMAIN l = 1..Len(l)
      /\ \A i \in 1..Len(l) : aged[i] \in Nodes(t) /\ l[i] = Entry(t, aged[i])
      /\ \A n \in Nodes(t) : \E i \in 1..Len(l) : aged[i] = n
  BY SavedLists
<1> HIDE DEF l, aged
<1>2. ToSet(l) = {Entry(t, n) : n \in Nodes(t)}
  BY <1>1 DEF ToSet
<1> QED BY <1>2 DEF l

\* What from_dict makes of what to_dict wrote is the tree.
THEOREM LoadedIsSaved ==
    ASSUME NEW k \in Nat, NEW t, Tree(t, k)
    PROVE  Loaded(Saved(t)) = t
<1> DEFINE s == Saved(t)
           c == Len(s.nodes)
           aged == Ascending(Nodes(t))
           u == Loaded(s)
<1>1. /\ s.current = t.current /\ c \in Nat
      /\ \A i \in 1..c : aged[i] \in Nodes(t) /\ s.nodes[i] = Entry(t, aged[i])
      /\ \A i, j \in 1..c : i < j => aged[i] < aged[j]
      /\ \A n \in Nodes(t) : \E i \in 1..c : aged[i] = n
  BY SavedLists
<1>2. \A n \in Nodes(t) : n \in Nat
  BY DEF Tree
<1> HIDE DEF aged
<1>3. \A i \in 1..c : /\ s.nodes[i].id = aged[i] /\ s.nodes[i].parent = t.parent[aged[i]]
                      /\ s.nodes[i].role = t.role[aged[i]]
  <2> SUFFICES ASSUME NEW i \in 1..c
               PROVE  /\ s.nodes[i].id = aged[i] /\ s.nodes[i].parent = t.parent[aged[i]]
                      /\ s.nodes[i].role = t.role[aged[i]]
    OBVIOUS
  <2>1. s.nodes[i] = Entry(t, aged[i])
    BY <1>1
  <2> HIDE DEF s
  <2> QED BY <2>1 DEF Entry
<1>4. Ids(s) = Nodes(t)
  BY <1>1, <1>3 DEF Ids
<1>5. ASSUME NEW n \in Nodes(t)
      PROVE  Filed(s, n).parent = t.parent[n] /\ Filed(s, n).role = t.role[n]
  <2> DEFINE i == CHOOSE i \in 1..Len(s.nodes) : s.nodes[i].id = n
  <2>1. i \in 1..c /\ s.nodes[i].id = n
    BY <1>1, <1>3
  <2> HIDE DEF i
  <2>2. aged[i] = n /\ s.nodes[i].parent = t.parent[n] /\ s.nodes[i].role = t.role[n]
    BY <2>1, <1>3
  <2>3. Filed(s, n) = s.nodes[i]
    BY DEF Filed, i
  <2> QED BY <2>2, <2>3
<1>6. ASSUME NEW p
      PROVE  [j \in 1..Cardinality(Under(s, p)) |-> s.nodes[Ascending(Under(s, p))[j]].id]
                = Ascending(Children(t, p))
  <2> DEFINE U == Under(s, p)
             a == Ascending(U)
             d == Cardinality(U)
             C == Children(t, p)
             l == [j \in 1..d |-> s.nodes[a[j]].id]
  <2>1. U = {i \in 1..c : t.parent[aged[i]] = p} /\ U \in SUBSET (1..c)
    BY <1>3 DEF Under
  <2> HIDE DEF U
  <2>2. /\ a \in Seq(U) /\ Len(a) = d
        /\ \A i \in 1..Len(a) : a[i] \in U
        /\ \A i, j \in 1..Len(a) : i < j => a[i] < a[j]
        /\ \A n \in U : \E i \in 1..Len(a) : a[i] = n
    BY <1>1, <2>1, AscendingLists
  <2>3. d \in Nat
    BY <1>1, <2>1, Places
  <2> HIDE DEF a, d, s
  <2>4. \A j \in 1..d : l[j] = aged[a[j]] /\ l[j] \in C
    <3> SUFFICES ASSUME NEW j \in 1..d PROVE l[j] = aged[a[j]] /\ l[j] \in C
      OBVIOUS
    <3>1. a[j] \in 1..c /\ t.parent[aged[a[j]]] = p
      BY <2>1, <2>2
    <3>2. l[j] = aged[a[j]] /\ aged[a[j]] \in Nodes(t)
      BY <3>1, <1>1, <1>3
    <3> QED BY <3>1, <3>2 DEF Children
  <2>5. l \in [1..d -> C]
    BY <2>4
  <2>6. \A i, j \in 1..d : i < j => l[i] < l[j]
    <3> SUFFICES ASSUME NEW i \in 1..d, NEW j \in 1..d, i < j PROVE l[i] < l[j]
      OBVIOUS
    <3>1. a[i] < a[j] /\ a[i] \in 1..c /\ a[j] \in 1..c
      BY <2>1, <2>2
    <3> HIDE DEF l
    <3> QED BY <3>1, <2>4, <1>1
  <2>7. \A n \in C : \E j \in 1..d : l[j] = n
    <3> SUFFICES ASSUME NEW n \in C PROVE \E j \in 1..d : l[j] = n
      OBVIOUS
    <3>1. n \in Nodes(t) /\ t.parent[n] = p
      BY DEF Children
    <3>2. PICK i \in 1..c : aged[i] = n
      BY <3>1, <1>1
    <3>3. i \in U
      BY <3>1, <3>2, <2>1
    <3>4. PICK j \in 1..d : a[j] = i
      BY <3>3, <2>2
    <3> QED BY <3>2, <3>4, <2>4
  <2>8. C \in SUBSET (1..k)
    BY DEF Children, Tree
  <2> HIDE DEF l, C
  <2>9. l = Ascending(C)
    BY <2>3, <2>5, <2>6, <2>7, <2>8, OneOrder
  <2> QED BY <2>9 DEF l, C, U, a, d
<1> HIDE DEF c, s
<1>7. u.parent = t.parent /\ u.role = t.role
  <2>1. u.parent = [n \in Nodes(t) |-> t.parent[n]] /\ u.role = [n \in Nodes(t) |-> t.role[n]]
    BY <1>4, <1>5 DEF Loaded
  <2> HIDE DEF u
  <2> QED BY <2>1 DEF Tree
<1>8. u.kids = t.kids
  <2>1. u.kids = [p \in Nodes(t) \cup {Root} |->
                    [j \in 1..Cardinality(Under(s, p)) |-> s.nodes[Ascending(Under(s, p))[j]].id]]
    BY <1>4 DEF Loaded
  <2>2. u.kids = [p \in Nodes(t) \cup {Root} |-> Ascending(Children(t, p))]
    <3> HIDE DEF u
    <3> QED BY <2>1, <1>6
  <2> QED BY <2>2 DEF Tree
<1>9. u.current = t.current
  BY <1>1, <1>4 DEF Loaded, Tree
<1>10. u = [parent |-> u.parent, role |-> u.role, kids |-> u.kids, current |-> u.current]
  BY DEF Loaded
<1> HIDE DEF u
<1>11. u = t
  BY <1>7, <1>8, <1>9, <1>10 DEF Tree
<1> QED BY <1>11 DEF u, s
=============================================================================
