------------------------------ MODULE SeqFacts ------------------------------
(***************************************************************************)
(* What the proofs about sequences rest on: induction on natural numbers,  *)
(* and the elements of a sequence as it grows and shrinks.                 *)
(***************************************************************************)
EXTENDS Integers, Sequences, FiniteSets, SequencesExt, FiniteSetTheorems,
        SequenceTheorems, NaturalsInduction, WellFoundedInduction, TLAPS

-----------------------------------------------------------------------------
(* Natural numbers.                                                        *)

\* A set of naturals that is not empty has a least element.
LEMMA Least ==
    ASSUME NEW S \in SUBSET Nat, S # {}
    PROVE  \E n \in S : \A m \in S : n <= m
<1> DEFINE Less == {p \in Nat \X Nat : p[1] < p[2]}
<1>1. OpToRel(<, Nat) = Less
  BY Zenon DEF OpToRel
<1>2. \E n \in S : \A m \in S : <<m, n>> \notin OpToRel(<, Nat)
  BY WFMin, NatLessThanWellFounded
<1>3. \E n \in S : \A m \in S : <<m, n>> \notin Less
  BY <1>1, <1>2, Zenon
<1>4. \A m, n \in Nat : m < n => <<m, n>> \in Less
  OBVIOUS
<1> HIDE DEF Less
<1>5. \A m, n \in S : <<m, n>> \notin Less => n <= m
  BY <1>4
<1> QED BY <1>3, <1>5

\* A set of places that is not empty has a last one.
LEMMA Greatest ==
    ASSUME NEW k \in Nat, NEW S \in SUBSET (1 .. k), S # {}
    PROVE  \E n \in S : \A m \in S : m <= n
<1> DEFINE U == {n \in Nat : \A m \in S : m <= n}
<1>1. k \in U
  OBVIOUS
<1>2. PICK n \in U : \A i \in U : n <= i
  BY <1>1, Least
<1>3. CASE n \in S
  BY <1>2, <1>3
<1>4. CASE n \notin S
  <2>1. \A m \in S : m \in Nat /\ 1 <= m /\ m <= n /\ m # n
    BY <1>2, <1>4
  <2>2. n \in Nat /\ \E m \in S : TRUE
    OBVIOUS
  <2>3. n - 1 \in Nat /\ \A m \in S : m <= n - 1
    BY <2>1, <2>2
  <2>4. n - 1 \in U
    BY <2>3
  <2> QED BY <1>2, <2>2, <2>4
<1> QED BY <1>3, <1>4

\* Induction, for a set of numbers in place of a predicate.
LEMMA Induction ==
    ASSUME NEW G, 0 \in G, \A n \in Nat : n \in G => n + 1 \in G
    PROVE  \A n \in Nat : n \in G
<1>1. SUFFICES ASSUME Nat \ G # {} PROVE FALSE
  OBVIOUS
<1>2. PICK n \in Nat \ G : \A m \in Nat \ G : n <= m
  BY <1>1, Least
<1>3. n # 0 /\ n - 1 \in Nat /\ n - 1 \in G
  BY <1>2
<1> QED BY <1>2, <1>3

-----------------------------------------------------------------------------
(* Sequences and the sets of their elements.                               *)

\* All places of s hold different elements.
Once(s) == \A i, j \in 1 .. Len(s) : s[i] = s[j] => i = j

\* Appending adds one element.
LEMMA AppendFacts ==
    ASSUME NEW T, NEW s \in Seq(T), NEW x \in T
    PROVE  /\ Append(s, x) \in Seq(T) /\ Len(Append(s, x)) = Len(s) + 1
           /\ ToSet(Append(s, x)) = ToSet(s) \cup {x}
           /\ Once(s) /\ x \notin ToSet(s) => Once(Append(s, x))
<1>1. /\ Append(s, x) \in Seq(T) /\ Len(Append(s, x)) = Len(s) + 1
      /\ Append(s, x)[Len(s) + 1] = x
      /\ \A i \in 1 .. Len(s) : Append(s, x)[i] = s[i]
      /\ DOMAIN s = 1 .. Len(s) /\ DOMAIN Append(s, x) = 1 .. Len(s) + 1
      /\ Len(s) \in Nat
  OBVIOUS
<1>2. \A i : i \in 1 .. Len(s) + 1 <=> i \in 1 .. Len(s) \/ i = Len(s) + 1
  BY <1>1
<1>3. ToSet(Append(s, x)) = ToSet(s) \cup {x}
  <2>1. ASSUME NEW y \in ToSet(Append(s, x)) PROVE y \in ToSet(s) \cup {x}
    BY <1>1, <1>2 DEF ToSet
  <2>2. ASSUME NEW y \in ToSet(s) \cup {x} PROVE y \in ToSet(Append(s, x))
    BY <1>1, <1>2 DEF ToSet
  <2> QED BY <2>1, <2>2
<1>4. Once(s) /\ x \notin ToSet(s) => Once(Append(s, x))
  BY <1>1, <1>2 DEF Once, ToSet
<1> QED BY <1>1, <1>3, <1>4

\* The head and the tail have all elements; once each, they share none.
LEMMA TailFacts ==
    ASSUME NEW T, NEW s \in Seq(T), s # <<>>
    PROVE  /\ Head(s) \in T /\ Tail(s) \in Seq(T) /\ Len(Tail(s)) = Len(s) - 1
           /\ ToSet(s) = ToSet(Tail(s)) \cup {Head(s)}
           /\ Once(s) => Once(Tail(s)) /\ Head(s) \notin ToSet(Tail(s))
<1>1. /\ Len(s) \in Nat /\ Len(s) >= 1 /\ Head(s) = s[1] /\ s[1] \in T
      /\ Tail(s) \in Seq(T) /\ Len(Tail(s)) = Len(s) - 1
      /\ \A i \in 1 .. Len(s) - 1 : Tail(s)[i] = s[i + 1]
      /\ DOMAIN s = 1 .. Len(s) /\ DOMAIN Tail(s) = 1 .. Len(s) - 1
  OBVIOUS
<1>2. \A i \in 1 .. Len(s) : i # 1 => i - 1 \in 1 .. Len(s) - 1 /\ (i - 1) + 1 = i
  <2>1. \A n \in Nat : \A i \in 1 .. n : i # 1 => i - 1 \in 1 .. n - 1 /\ (i - 1) + 1 = i
    OBVIOUS
  <2> QED BY <1>1, <2>1
<1>3. ToSet(s) = ToSet(Tail(s)) \cup {Head(s)}
  <2>1. ASSUME NEW y \in ToSet(s) PROVE y \in ToSet(Tail(s)) \cup {Head(s)}
    <3>1. PICK i \in 1 .. Len(s) : y = s[i]
      BY <1>1 DEF ToSet
    <3>2. CASE i = 1
      BY <1>1, <3>1, <3>2
    <3>3. CASE i # 1
      <4>1. i - 1 \in DOMAIN Tail(s) /\ Tail(s)[i - 1] = y
        BY <1>1, <1>2, <3>1, <3>3
      <4> QED BY <4>1 DEF ToSet
    <3> QED BY <3>2, <3>3
  <2>2. ASSUME NEW y \in ToSet(Tail(s)) \cup {Head(s)} PROVE y \in ToSet(s)
    <3>1. 1 \in DOMAIN s /\ \A i \in 1 .. Len(s) - 1 : i + 1 \in DOMAIN s
      BY <1>1
    <3> QED BY <1>1, <3>1 DEF ToSet
  <2> QED BY <2>1, <2>2
<1>4. Once(s) => Once(Tail(s)) /\ Head(s) \notin ToSet(Tail(s))
  BY <1>1, <1>2 DEF Once, ToSet
<1> QED BY <1>1, <1>3, <1>4

\* Two sequences joined have the elements of both.
LEMMA ConcatFacts ==
    ASSUME NEW T, NEW s \in Seq(T), NEW t \in Seq(T)
    PROVE  /\ s \o t \in Seq(T) /\ Len(s \o t) = Len(s) + Len(t)
           /\ ToSet(s \o t) = ToSet(s) \cup ToSet(t)
<1>1. /\ s \o t \in Seq(T) /\ Len(s \o t) = Len(s) + Len(t)
      /\ Len(s) \in Nat /\ Len(t) \in Nat
      /\ DOMAIN s = 1 .. Len(s) /\ DOMAIN t = 1 .. Len(t)
      /\ DOMAIN (s \o t) = 1 .. Len(s) + Len(t)
      /\ \A i \in 1 .. Len(s) + Len(t) :
            (s \o t)[i] = IF i <= Len(s) THEN s[i] ELSE t[i - Len(s)]
  OBVIOUS
<1>2. ASSUME NEW y \in ToSet(s \o t) PROVE y \in ToSet(s) \cup ToSet(t)
  <2>1. PICK i \in 1 .. Len(s) + Len(t) : y = (s \o t)[i]
    BY <1>1 DEF ToSet
  <2>2. i <= Len(s) => i \in 1 .. Len(s)
    BY <1>1
  <2>3. ~(i <= Len(s)) => i - Len(s) \in 1 .. Len(t)
    BY <1>1
  <2> QED BY <1>1, <2>1, <2>2, <2>3 DEF ToSet
<1>3. ASSUME NEW y \in ToSet(s) PROVE y \in ToSet(s \o t)
  BY <1>1 DEF ToSet
<1>4. ASSUME NEW y \in ToSet(t) PROVE y \in ToSet(s \o t)
  <2>1. PICK i \in 1 .. Len(t) : y = t[i]
    BY <1>1 DEF ToSet
  <2>2. i + Len(s) \in 1 .. Len(s) + Len(t) /\ ~(i + Len(s) <= Len(s))
        /\ i + Len(s) - Len(s) = i
    BY <1>1
  <2>3. (s \o t)[i + Len(s)] = y
    BY <1>1, <2>1, <2>2
  <2> QED BY <1>1, <2>2, <2>3 DEF ToSet
<1> QED BY <1>1, <1>2, <1>3, <1>4

\* Where sequences are joined first does not matter.
LEMMA Associative ==
    ASSUME NEW T
    PROVE  \A x, y, z \in Seq(T) : (x \o y) \o z = x \o (y \o z)
BY ConcatAssociative

\* The elements of a sequence at which f takes values in a set are not more
\* than the places.
LEMMA FiniteElements ==
    ASSUME NEW T, NEW s \in Seq(T), NEW I \in SUBSET (1 .. Len(s))
    PROVE  /\ IsFiniteSet({s[i] : i \in I})
           /\ Cardinality({s[i] : i \in I}) <= Cardinality(I)
<1> DEFINE E == {s[i] : i \in I}
           f == [i \in I |-> s[i]]
<1>1. Len(s) \in Nat
  OBVIOUS
<1>2. IsFiniteSet(I)
  <2>1. IsFiniteSet(1 .. Len(s))
    BY <1>1, FS_Interval
  <2> QED BY <2>1, FS_Subset
<1>3. f \in Surjection(I, E)
  BY DEF Surjection
<1> HIDE DEF f, E
<1>4. IsFiniteSet(E) /\ Cardinality(E) <= Cardinality(I)
  BY <1>2, <1>3, FS_Surjection
<1> QED BY <1>4 DEF E

\* Induction on sequences, for a set of them in place of a predicate.
LEMMA SeqInduction ==
    ASSUME NEW T, NEW G, <<>> \in G,
           \A s \in Seq(T), x \in T : s \in G => Append(s, x) \in G
    PROVE  \A s \in Seq(T) : s \in G
<1> DEFINE L == {n \in Nat : \A s \in Seq(T) : Len(s) = n => s \in G}
<1>1. 0 \in L
  <2>1. \A s \in Seq(T) : Len(s) = 0 => s = <<>>
    OBVIOUS
  <2> QED BY <2>1
<1>2. ASSUME NEW n \in Nat, n \in L PROVE n + 1 \in L
  <2> SUFFICES ASSUME NEW s \in Seq(T), Len(s) = n + 1 PROVE s \in G
    OBVIOUS
  <2> DEFINE t == SubSeq(s, 1, n)
  <2>1. t \in Seq(T) /\ Len(t) = n /\ s[n + 1] \in T
    OBVIOUS
  <2>2. s = Append(t, s[n + 1])
    OBVIOUS
  <2> HIDE DEF t
  <2>3. t \in G
    BY <1>2, <2>1
  <2> QED BY <2>1, <2>2, <2>3
<1> HIDE DEF L
<1>3. \A n \in Nat : n \in L
  BY <1>1, <1>2, Induction
<1>4. \A s \in Seq(T) : Len(s) \in L
  BY <1>3
<1> QED BY <1>4 DEF L

-----------------------------------------------------------------------------
(* Counting the elements of a sequence that belong to a set.               *)

\* How many of the first i elements of s are in A.
Upto(s, A, i) == Cardinality({j \in 1 .. i : s[j] \in A})

\* The count is a number, none at first, and grows by one with each of A.
LEMMA UptoFacts ==
    /\ \A s, A : Upto(s, A, 0) = 0
    /\ \A s, A : \A i \in Nat : Upto(s, A, i) \in Nat
    /\ \A s, A : \A i \in Nat :
          Upto(s, A, i + 1) = Upto(s, A, i) + IF s[i + 1] \in A THEN 1 ELSE 0
<1>1. ASSUME NEW s, NEW A PROVE Upto(s, A, 0) = 0
  <2>1. {j \in 1 .. 0 : s[j] \in A} = {}
    OBVIOUS
  <2> QED BY <2>1, FS_EmptySet DEF Upto
<1>2. ASSUME NEW s, NEW A, NEW i \in Nat
      PROVE  IsFiniteSet({j \in 1 .. i : s[j] \in A})
  <2>1. IsFiniteSet(1 .. i)
    BY FS_Interval
  <2>2. {j \in 1 .. i : s[j] \in A} \in SUBSET (1 .. i)
    OBVIOUS
  <2> QED BY <2>1, <2>2, FS_Subset
<1>3. ASSUME NEW s, NEW A, NEW i \in Nat PROVE Upto(s, A, i) \in Nat
  <2> DEFINE N == {j \in 1 .. i : s[j] \in A}
  <2>1. IsFiniteSet(N)
    BY <1>2
  <2> HIDE DEF N
  <2>2. Cardinality(N) \in Nat
    BY <2>1, FS_CardinalityType
  <2> QED BY <2>2 DEF N, Upto
<1>4. ASSUME NEW s, NEW A, NEW i \in Nat
      PROVE  Upto(s, A, i + 1) = Upto(s, A, i) + IF s[i + 1] \in A THEN 1 ELSE 0
  <2> DEFINE N == {j \in 1 .. i : s[j] \in A}
             P == {j \in 1 .. i + 1 : s[j] \in A}
  <2>1. IsFiniteSet(N) /\ i + 1 \notin N
    BY <1>2
  <2>2. s[i + 1] \in A => P = N \cup {i + 1}
    OBVIOUS
  <2>3. s[i + 1] \notin A => P = N
    OBVIOUS
  <2>4. Upto(s, A, i) = Cardinality(N) /\ Upto(s, A, i + 1) = Cardinality(P)
    BY Zenon DEF Upto
  <2> HIDE DEF N, P
  <2>5. Cardinality(N \cup {i + 1}) = Cardinality(N) + 1
    BY <2>1, FS_AddElement
  <2>6. Cardinality(N) + 0 = Cardinality(N)
    BY <2>1, FS_CardinalityType
  <2> QED BY <2>2, <2>3, <2>4, <2>5, <2>6
<1> QED BY <1>1, <1>3, <1>4

\* Only the first i elements matter, and only whether they are in A.
LEMMA UptoSame ==
    ASSUME NEW s, NEW t, NEW A, NEW B, NEW i \in Nat,
           \A j \in 1 .. i : s[j] \in A <=> t[j] \in B
    PROVE  Upto(s, A, i) = Upto(t, B, i)
<1>1. {j \in 1 .. i : s[j] \in A} = {j \in 1 .. i : t[j] \in B}
  OBVIOUS
<1> QED BY <1>1 DEF Upto

\* The count never decreases.
LEMMA UptoMono ==
    ASSUME NEW s, NEW A, NEW i \in Nat, NEW k \in Nat, i <= k
    PROVE  Upto(s, A, i) <= Upto(s, A, k)
<1> DEFINE N == {j \in 1 .. i : s[j] \in A}
           P == {j \in 1 .. k : s[j] \in A}
<1>1. IsFiniteSet(1 .. k) /\ P \in SUBSET (1 .. k) /\ N \in SUBSET P
  BY FS_Interval
<1>2. IsFiniteSet(P)
  BY <1>1, FS_Subset
<1>3. Upto(s, A, i) = Cardinality(N) /\ Upto(s, A, k) = Cardinality(P)
  BY Zenon DEF Upto
<1> HIDE DEF N, P
<1>4. Cardinality(N) <= Cardinality(P)
  BY <1>1, <1>2, FS_Subset
<1> QED BY <1>3, <1>4

\* No more are counted than there are places.
LEMMA UptoLimit ==
    ASSUME NEW s, NEW A, NEW i \in Nat
    PROVE  Upto(s, A, i) \in Nat /\ Upto(s, A, i) <= i
<1>1. IsFiniteSet(1 .. i) /\ Cardinality(1 .. i) = i
  <2>1. 1 \in Int /\ i \in Int
    OBVIOUS
  <2>2. IsFiniteSet(1 .. i) /\ Cardinality(1 .. i) = IF 1 > i THEN 0 ELSE i - 1 + 1
    BY <2>1, FS_Interval
  <2> QED BY <2>2
<1>2. Cardinality({j \in 1 .. i : s[j] \in A}) <= Cardinality(1 .. i)
  <2>1. {j \in 1 .. i : s[j] \in A} \in SUBSET (1 .. i)
    OBVIOUS
  <2> QED BY <1>1, <2>1, FS_Subset
<1>3. Upto(s, A, i) \in Nat
  BY UptoFacts
<1> QED BY <1>1, <1>2, <1>3 DEF Upto

\* It stays 0 as long as nothing is in A, and is 1 if one element is.
LEMMA UptoFew ==
    ASSUME NEW s, NEW A, NEW i \in Nat
    PROVE  /\ (\A j \in 1 .. i : s[j] \notin A) => Upto(s, A, i) = 0
           /\ \A k \in 1 .. i :
                 s[k] \in A /\ (\A j \in 1 .. i : s[j] \in A => j = k) => Upto(s, A, i) = 1
<1>1. ASSUME \A j \in 1 .. i : s[j] \notin A PROVE Upto(s, A, i) = 0
  <2>1. {j \in 1 .. i : s[j] \in A} = {}
    BY <1>1
  <2> QED BY <2>1, FS_EmptySet DEF Upto
<1>2. ASSUME NEW k \in 1 .. i, s[k] \in A, \A j \in 1 .. i : s[j] \in A => j = k
      PROVE  Upto(s, A, i) = 1
  <2>1. {j \in 1 .. i : s[j] \in A} = {k}
    BY <1>2
  <2> QED BY <2>1, FS_Singleton DEF Upto
<1> QED BY <1>1, <1>2

\* After its first n elements r has the elements of A where t has them.
GoesOn(r, n, t, k, A) == \A j \in 1 .. k : r[n + j] \in A <=> t[j] \in A

\* The count of what goes on like that is the count so far and that of t.
LEMMA UptoLater ==
    ASSUME NEW r, NEW t, NEW A, NEW n \in Nat, NEW k \in Nat, GoesOn(r, n, t, k, A),
           NEW m \in 0 .. k
    PROVE  Upto(r, A, n + m) = Upto(r, A, n) + Upto(t, A, m)
<1> DEFINE a == Upto(r, A, n)
           G == {i \in Nat : i <= k => Upto(r, A, n + i) = a + Upto(t, A, i)}
<1>1. a \in Nat /\ Upto(t, A, 0) = 0
  BY UptoFacts
<1>2. 0 \in G
  <2>1. n + 0 = n /\ a + 0 = a
    BY <1>1
  <2> QED BY <1>1, <2>1
<1> HIDE DEF a
<1>3. ASSUME NEW i \in Nat, i \in G PROVE i + 1 \in G
  <2> SUFFICES ASSUME i + 1 <= k PROVE Upto(r, A, n + (i + 1)) = a + Upto(t, A, i + 1)
    OBVIOUS
  <2>1. Upto(r, A, n + i) = a + Upto(t, A, i)
    BY <1>3
  <2>2. n + i \in Nat /\ (n + i) + 1 = n + (i + 1) /\ i + 1 \in 1 .. k
    OBVIOUS
  <2>3. r[(n + i) + 1] \in A <=> t[i + 1] \in A
    BY <2>2 DEF GoesOn
  <2> DEFINE x == Upto(t, A, i)
             y == Upto(t, A, i + 1)
             z == Upto(r, A, n + i)
             w == Upto(r, A, (n + i) + 1)
             o == IF t[i + 1] \in A THEN 1 ELSE 0
  <2>4. w = z + IF r[(n + i) + 1] \in A THEN 1 ELSE 0
    BY <2>2, UptoFacts
  <2>5. y = x + o /\ x \in Nat
    BY UptoFacts
  <2>6. (IF r[(n + i) + 1] \in A THEN 1 ELSE 0) = o
    BY <2>3
  <2>7. o \in {0, 1} /\ z = a + x
    BY <2>1
  <2> HIDE DEF x, y, z, w, o
  <2>8. w = z + o
    BY <2>4, <2>6
  <2>9. w = a + y
    BY <1>1, <2>5, <2>7, <2>8
  <2> QED BY <2>2, <2>9 DEF w, y
<1> HIDE DEF G
<1>4. \A i \in Nat : i \in G
  BY <1>2, <1>3, Induction
<1>5. m \in Nat /\ m <= k
  OBVIOUS
<1>6. Upto(r, A, n + m) = a + Upto(t, A, m)
  BY <1>4, <1>5 DEF G
<1> QED BY <1>6 DEF a

\* r is s and, behind it, t.
Joined(r, s, t, T) == s \in Seq(T) /\ t \in Seq(T) /\ r = s \o t

\* t is what is left of s without its first element.
Rest(t, s, T) == s \in Seq(T) /\ s # <<>> /\ t = Tail(s)

\* What is added behind is not counted before.
LEMMA UptoFirst ==
    ASSUME NEW T, NEW r, NEW s, NEW t, Joined(r, s, t, T),
           NEW A, NEW m \in 0 .. Len(s)
    PROVE  Upto(r, A, m) = Upto(s, A, m)
<1>1. \A j \in 1 .. m : r[j] = s[j]
  BY DEF Joined
<1>2. {j \in 1 .. m : r[j] \in A} = {j \in 1 .. m : s[j] \in A}
  BY <1>1
<1> QED BY <1>2, Zenon DEF Upto

\* Counting goes on from one sequence into the next.
LEMMA UptoSecond ==
    ASSUME NEW T, NEW r, NEW s, NEW t, Joined(r, s, t, T),
           NEW A, NEW m \in 0 .. Len(t)
    PROVE  Upto(r, A, Len(s) + m) = Upto(s, A, Len(s)) + Upto(t, A, m)
<1> DEFINE n == Len(s)
           k == Len(t)
<1>1. n \in Nat /\ k \in Nat /\ n \in 0 .. n
  BY DEF Joined
<1>2. \A j \in 1 .. k : r[n + j] = t[j]
  BY DEF Joined
<1>3. Upto(r, A, n) = Upto(s, A, n)
  <2>1. n \in 0 .. Len(s)
    BY <1>1
  <2> HIDE DEF n
  <2> QED BY <2>1, UptoFirst
<1> HIDE DEF n, k
<1>4. GoesOn(r, n, t, k, A)
  BY <1>2, Zenon DEF GoesOn
<1>5. m \in 0 .. k
  BY DEF k
<1>6. Upto(r, A, n + m) = Upto(r, A, n) + Upto(t, A, m)
  BY <1>1, <1>4, <1>5, UptoLater
<1> QED BY <1>3, <1>6, Zenon DEF n

\* Without the first element the count is less by one if that was in A.
LEMMA UptoTail ==
    ASSUME NEW T, NEW s, NEW t, Rest(t, s, T),
           NEW A, NEW m \in 0 .. Len(t)
    PROVE  /\ Upto(t, A, m) \in Nat
           /\ s[1] \in A => Upto(s, A, 1 + m) = 1 + Upto(t, A, m)
           /\ s[1] \notin A => Upto(s, A, 1 + m) = Upto(t, A, m)
<1> DEFINE k == Len(t)
<1>1. k \in Nat /\ m \in Nat /\ \A j \in 1 .. k : s[1 + j] = t[j]
  BY DEF Rest
<1>2. m \in 0 .. k
  OBVIOUS
<1> HIDE DEF k
<1>3. GoesOn(s, 1, t, k, A)
  BY <1>1, Zenon DEF GoesOn
<1>4. 1 \in Nat
  OBVIOUS
<1>5. Upto(s, A, 1 + m) = Upto(s, A, 1) + Upto(t, A, m)
  BY <1>1, <1>2, <1>3, <1>4, UptoLater
<1>6. Upto(s, A, 1) = IF s[1] \in A THEN 1 ELSE 0
  <2>1. 0 \in Nat /\ 0 + 1 = 1
    OBVIOUS
  <2>2. Upto(s, A, 0) = 0 /\ Upto(s, A, 0 + 1) = Upto(s, A, 0) + IF s[0 + 1] \in A THEN 1 ELSE 0
    BY <2>1, UptoFacts
  <2> QED BY <2>1, <2>2
<1>7. Upto(t, A, m) \in Nat
  BY <1>1, UptoFacts
<1> DEFINE x == Upto(t, A, m)
           y == Upto(s, A, 1 + m)
           z == Upto(s, A, 1)
<1>8. x \in Nat /\ y = z + x /\ (s[1] \in A => z = 1) /\ (s[1] \notin A => z = 0)
  BY <1>5, <1>6, <1>7
<1> HIDE DEF x, y, z
<1>9. x \in Nat /\ (s[1] \in A => y = 1 + x) /\ (s[1] \notin A => y = x)
  BY <1>8
<1> QED BY <1>9 DEF x, y

\* Where the elements of the tail are in the whole.
LEMMA PlacesTail ==
    ASSUME NEW T, NEW s, NEW t, Rest(t, s, T)
    PROVE  /\ t \in Seq(T) /\ Len(t) \in Nat /\ Len(s) = 1 + Len(t)
           /\ s[1] \in T /\ Head(s) = s[1] /\ 1 \in 1 .. Len(s)
           /\ \A i \in 1 .. Len(t) : 1 + i \in 1 .. Len(s) /\ t[i] = s[1 + i]
           /\ \A j \in 1 .. Len(s) : j = 1 \/ \E i \in 1 .. Len(t) : j = 1 + i
<1>1. /\ t \in Seq(T) /\ Len(t) \in Nat /\ Len(s) = 1 + Len(t)
      /\ s[1] \in T /\ Head(s) = s[1]
      /\ \A i \in 1 .. Len(t) : t[i] = s[1 + i]
  BY DEF Rest
<1> DEFINE n == Len(s)
           k == Len(t)
<1>2. n = 1 + k /\ k \in Nat
  BY <1>1
<1> HIDE DEF n, k
<1>3. 1 \in 1 .. n /\ \A i \in 1 .. k : 1 + i \in 1 .. n
  BY <1>2
<1>4. \A j \in 1 .. n : j = 1 \/ \E i \in 1 .. k : j = 1 + i
  <2> SUFFICES ASSUME NEW j \in 1 .. n, j # 1 PROVE \E i \in 1 .. k : j = 1 + i
    OBVIOUS
  <2>1. j - 1 \in 1 .. k /\ j = 1 + (j - 1)
    BY <1>2
  <2> QED BY <2>1
<1> QED BY <1>1, <1>3, <1>4 DEF n, k

\* Where the elements are of two sequences joined.
LEMMA PlacesConcat ==
    ASSUME NEW T, NEW r, NEW s, NEW t, Joined(r, s, t, T)
    PROVE  /\ r \in Seq(T) /\ Len(s) \in Nat /\ Len(t) \in Nat /\ Len(r) = Len(s) + Len(t)
           /\ \A i \in 1 .. Len(s) : i \in 1 .. Len(r) /\ r[i] = s[i]
           /\ \A i \in 1 .. Len(t) : Len(s) + i \in 1 .. Len(r) /\ r[Len(s) + i] = t[i]
           /\ \A j \in 1 .. Len(r) :
                 \/ j \in 1 .. Len(s) /\ r[j] = s[j]
                 \/ \E i \in 1 .. Len(t) : j = Len(s) + i /\ r[j] = t[i]
<1>1. r \in Seq(T) /\ Len(s) \in Nat /\ Len(t) \in Nat /\ Len(r) = Len(s) + Len(t)
  BY DEF Joined
<1>2. \A i \in 1 .. Len(s) : r[i] = s[i]
  BY DEF Joined
<1>3. \A i \in 1 .. Len(t) : r[Len(s) + i] = t[i]
  BY DEF Joined
<1> DEFINE n == Len(s)
           k == Len(t)
           l == Len(r)
<1>4. n \in Nat /\ k \in Nat /\ l = n + k
  BY <1>1
<1> HIDE DEF n, k, l
<1>5. \A i \in 1 .. n : i \in 1 .. l
  BY <1>4
<1>6. \A i \in 1 .. k : n + i \in 1 .. l
  BY <1>4
<1>7. \A j \in 1 .. l : j \in 1 .. n \/ \E i \in 1 .. k : j = n + i
  <2> SUFFICES ASSUME NEW j \in 1 .. l, j \notin 1 .. n PROVE \E i \in 1 .. k : j = n + i
    OBVIOUS
  <2>1. j - n \in 1 .. k /\ j = n + (j - n)
    BY <1>4
  <2> QED BY <2>1
<1>8. \A j \in 1 .. l : \/ j \in 1 .. n /\ r[j] = s[j]
                        \/ \E i \in 1 .. k : j = n + i /\ r[j] = t[i]
  BY <1>2, <1>3, <1>7, Zenon DEF n, k
<1> QED BY <1>1, <1>2, <1>3, <1>5, <1>6, <1>8, Zenon DEF n, k, l

\* Counting all elements of A when the first goes.
LEMMA CountTail ==
    ASSUME NEW T, NEW s, NEW t, Rest(t, s, T), NEW A
    PROVE  /\ Upto(t, A, Len(t)) \in Nat
           /\ s[1] \in A => Upto(s, A, Len(s)) = 1 + Upto(t, A, Len(t))
           /\ s[1] \notin A => Upto(s, A, Len(s)) = Upto(t, A, Len(t))
<1>1. Len(t) \in 0 .. Len(t) /\ Len(s) = 1 + Len(t)
  BY DEF Rest
<1> DEFINE k == Len(t)
<1>2. k \in 0 .. Len(t)
  BY <1>1
<1> HIDE DEF k
<1>3. /\ Upto(t, A, k) \in Nat
      /\ s[1] \in A => Upto(s, A, 1 + k) = 1 + Upto(t, A, k)
      /\ s[1] \notin A => Upto(s, A, 1 + k) = Upto(t, A, k)
  BY <1>2, UptoTail
<1> QED BY <1>1, <1>3 DEF k

\* Counting all elements of A when others are added.
LEMMA CountConcat ==
    ASSUME NEW T, NEW r, NEW s, NEW t, Joined(r, s, t, T), NEW A
    PROVE  /\ Upto(s, A, Len(s)) \in Nat /\ Upto(t, A, Len(t)) \in Nat
           /\ Upto(r, A, Len(r)) = Upto(s, A, Len(s)) + Upto(t, A, Len(t))
           /\ (\A i \in 1 .. Len(t) : t[i] \notin A) => Upto(t, A, Len(t)) = 0
<1>1. Len(s) \in Nat /\ Len(t) \in Nat /\ Len(r) = Len(s) + Len(t)
  BY DEF Joined
<1>2. Len(t) \in 0 .. Len(t)
  BY <1>1
<1>3. Upto(r, A, Len(s) + Len(t)) = Upto(s, A, Len(s)) + Upto(t, A, Len(t))
  <2> DEFINE k == Len(t)
  <2>1. k \in 0 .. Len(t)
    BY <1>2
  <2> HIDE DEF k
  <2>2. Upto(r, A, Len(s) + k) = Upto(s, A, Len(s)) + Upto(t, A, k)
    BY <2>1, UptoSecond
  <2> QED BY <2>2 DEF k
<1>4. Upto(s, A, Len(s)) \in Nat /\ Upto(t, A, Len(t)) \in Nat
  BY <1>1, UptoFacts
<1>5. (\A i \in 1 .. Len(t) : t[i] \notin A) => Upto(t, A, Len(t)) = 0
  <2> SUFFICES ASSUME \A i \in 1 .. Len(t) : t[i] \notin A PROVE Upto(t, A, Len(t)) = 0
    OBVIOUS
  <2>1. {j \in 1 .. Len(t) : t[j] \in A} = {}
    OBVIOUS
  <2> QED BY <2>1, FS_EmptySet DEF Upto
<1> QED BY <1>1, <1>3, <1>4, <1>5

\* Every element of the tail is one of the whole.
LEMMA RestOf ==
    ASSUME NEW T, NEW s, NEW t, Rest(t, s, T)
    PROVE  \A i \in 1 .. Len(t) : \E j \in 1 .. Len(s) : t[i] = s[j]
<1>1. \A i \in 1 .. Len(t) : 1 + i \in 1 .. Len(s) /\ t[i] = s[1 + i]
  BY PlacesTail
<1> QED BY <1>1, Zenon

\* Every element of two sequences joined is one of either.
LEMMA EachOf ==
    ASSUME NEW T, NEW r, NEW s, NEW t, Joined(r, s, t, T)
    PROVE  \A j \in 1 .. Len(r) : \/ \E i \in 1 .. Len(s) : r[j] = s[i]
                                  \/ \E i \in 1 .. Len(t) : r[j] = t[i]
<1>1. \A j \in 1 .. Len(r) :
         \/ j \in 1 .. Len(s) /\ r[j] = s[j]
         \/ \E i \in 1 .. Len(t) : j = Len(s) + i /\ r[j] = t[i]
  BY PlacesConcat
<1> QED BY <1>1, Zenon

\* The count is 0 if no element is in A, and only then.
LEMMA CountNone ==
    ASSUME NEW s, NEW A, Len(s) \in Nat
    PROVE  Upto(s, A, Len(s)) = 0 <=> \A i \in 1 .. Len(s) : s[i] \notin A
<1> DEFINE n == Len(s)
           N == {j \in 1 .. n : s[j] \in A}
<1>1. n \in Nat
  OBVIOUS
<1> HIDE DEF n
<1>2. IsFiniteSet(1 .. n) /\ N \in SUBSET (1 .. n)
  BY <1>1, FS_Interval
<1>3. IsFiniteSet(N)
  BY <1>2, FS_Subset
<1>4. N = {} <=> \A i \in 1 .. n : s[i] \notin A
  OBVIOUS
<1>5. Upto(s, A, n) = Cardinality(N)
  BY Zenon DEF Upto
<1> HIDE DEF N
<1>6. Cardinality(N) = 0 <=> N = {}
  BY <1>3, FS_EmptySet
<1> QED BY <1>4, <1>5, <1>6 DEF n

-----------------------------------------------------------------------------
(* A finite set as a sequence.                                             *)

\* SetToSeq has every element of the set, once.
LEMMA SetToSeqFacts ==
    ASSUME NEW T, NEW S \in SUBSET T, IsFiniteSet(S)
    PROVE  /\ SetToSeq(S) \in Seq(T) /\ Len(SetToSeq(S)) = Cardinality(S)
           /\ ToSet(SetToSeq(S)) = S /\ Once(SetToSeq(S))
<1> DEFINE n == Cardinality(S)
           f == SetToSeq(S)
<1>1. n \in Nat /\ ExistsBijection(1 .. n, S)
  BY FS_CardinalityType
<1>2. \E g \in [1 .. n -> S] : IsInjective(g)
  BY <1>1 DEF ExistsBijection, Bijection, Injection, IsInjective
<1>3. f \in [1 .. n -> S] /\ IsInjective(f)
  BY <1>2 DEF SetToSeq
<1> HIDE DEF n, f
<1>4. IsFiniteSet(1 .. n) /\ Cardinality(1 .. n) = n
  BY <1>1, FS_Interval
<1>5. f \in Injection(1 .. n, S)
  BY <1>3 DEF Injection, IsInjective
<1>6. Cardinality(1 .. n) = Cardinality(S)
  BY <1>4 DEF n
<1>7. f \in Surjection(1 .. n, S)
  BY <1>5, <1>6, FS_Injection
<1>8. f \in Seq(T) /\ Len(f) = n /\ DOMAIN f = 1 .. n
  BY <1>1, <1>3
<1>9. ToSet(f) = S
  BY <1>7, <1>8 DEF ToSet, Surjection
<1>10. Once(f)
  BY <1>3, <1>8 DEF Once, IsInjective
<1> QED BY <1>8, <1>9, <1>10 DEF n, f

=============================================================================
