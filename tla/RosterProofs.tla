---------------------------- MODULE RosterProofs ----------------------------
(***************************************************************************)
(* Theorems about Roster, for any number of clients, any names and any     *)
(* choice of them, and any size of a room.                                 *)
(*                                                                         *)
(* What a client will know, Informed(c), does not change when it handles a *)
(* message: only what the room sends changes it.  So the invariant speaks  *)
(* of Informed(c) and is checked where messages are sent.  It needs to     *)
(* know of the room that players have names of their own (Orderly), of a   *)
(* client that is waiting or playing exactly as long as its room, once it  *)
(* has heard everything (InStep), that it hears nothing before the answer  *)
(* to its JOIN_ROOM (Unanswered), and that this answer is the first thing  *)
(* that puts a name on its list (Introduced).                              *)
(*                                                                         *)
(* Handling messages and choosing players are loops, here functions by     *)
(* recursion on the length of a sequence; what they do is shown by the     *)
(* induction on sequences of SeqFacts.                                     *)
(***************************************************************************)
EXTENDS Roster, SeqFacts

-----------------------------------------------------------------------------
(* Kept: the loop that copies the players of a set.                        *)

\* f is what the loop has copied after each of the first n rounds.
KeptUpTo(f, s, A, n) ==
    f = [i \in 0 .. n |->
            IF i = 0 THEN <<>>
            ELSE IF s[i] \in A THEN Append(f[i - 1], s[i]) ELSE f[i - 1]]

\* The function that Kept is defined with exists.
LEMMA KeptExists ==
    ASSUME NEW T, NEW s \in Seq(T), NEW A
    PROVE  /\ \E f : /\ f[0] = <<>>
                     /\ \A i \in 1 .. Len(s) :
                           f[i] = IF s[i] \in A THEN Append(f[i - 1], s[i]) ELSE f[i - 1]
                     /\ Kept(s, A) = f[Len(s)]
<1> DEFINE G == {n \in Nat : \E f : KeptUpTo(f, s, A, n)}
<1>1. 0 \in G
  <2> DEFINE f == [i \in 0 .. 0 |-> <<>>]
  <2>1. f = [i \in 0 .. 0 |->
            IF i = 0 THEN <<>>
            ELSE IF s[i] \in A THEN Append(f[i - 1], s[i]) ELSE f[i - 1]]
    OBVIOUS
  <2> QED BY <2>1 DEF KeptUpTo
<1>2. ASSUME NEW n \in Nat, n \in G PROVE n + 1 \in G
  <2>1. PICK g : KeptUpTo(g, s, A, n)
    BY <1>2
  <2> DEFINE x == IF s[n + 1] \in A THEN Append(g[n], s[n + 1]) ELSE g[n]
             f == [i \in 0 .. n + 1 |-> IF i = n + 1 THEN x ELSE g[i]]
  <2>2. \A i \in 0 .. n : g[i] = IF i = 0 THEN <<>>
                                 ELSE IF s[i] \in A THEN Append(g[i - 1], s[i]) ELSE g[i - 1]
    BY <2>1 DEF KeptUpTo
  <2> HIDE DEF x
  <2>3. f[n + 1] = x /\ \A i \in 0 .. n : f[i] = g[i]
    OBVIOUS
  <2>4. ASSUME NEW i \in 0 .. n + 1
        PROVE  f[i] = IF i = 0 THEN <<>>
                      ELSE IF s[i] \in A THEN Append(f[i - 1], s[i]) ELSE f[i - 1]
    <3> HIDE DEF f
    <3>1. CASE i = 0
      BY <2>2, <2>3, <3>1
    <3>2. CASE i # 0 /\ i # n + 1
      <4>1. i \in 0 .. n /\ i - 1 \in 0 .. n
        BY <3>2
      <4> QED BY <2>2, <2>3, <3>2, <4>1
    <3>3. CASE i = n + 1
      <4>1. i - 1 = n /\ n \in 0 .. n /\ i # 0
        BY <3>3
      <4> QED BY <2>3, <3>3, <4>1 DEF x
    <3> QED BY <3>1, <3>2, <3>3
  <2>5. f = [i \in 0 .. n + 1 |-> f[i]]
    OBVIOUS
  <2>6. KeptUpTo(f, s, A, n + 1)
    <3> HIDE DEF f
    <3> QED BY <2>4, <2>5 DEF KeptUpTo
  <2> QED BY <2>6
<1> HIDE DEF G
<1>3. Len(s) \in G
  <2>1. \A n \in Nat : n \in G
    BY <1>1, <1>2, Induction
  <2> QED BY <2>1
<1> DEFINE f == CHOOSE f : KeptUpTo(f, s, A, Len(s))
<1>4. KeptUpTo(f, s, A, Len(s))
  BY <1>3 DEF G
<1>5. Kept(s, A) = f[Len(s)]
  BY DEF Kept, KeptUpTo
<1> HIDE DEF f
<1>6. \A i \in 0 .. Len(s) :
         f[i] = IF i = 0 THEN <<>>
                ELSE IF s[i] \in A THEN Append(f[i - 1], s[i]) ELSE f[i - 1]
  BY <1>4 DEF KeptUpTo
<1> QED BY <1>5, <1>6

\* Kept has the elements of s that are in A, each as often as s has it.
LEMMA KeptFacts ==
    ASSUME NEW T, NEW s \in Seq(T), NEW A
    PROVE  /\ Kept(s, A) \in Seq(T)
           /\ ToSet(Kept(s, A)) = ToSet(s) \cap A
           /\ Once(s) => Once(Kept(s, A))
<1>1. PICK f : /\ f[0] = <<>>
               /\ \A i \in 1 .. Len(s) :
                     f[i] = IF s[i] \in A THEN Append(f[i - 1], s[i]) ELSE f[i - 1]
               /\ Kept(s, A) = f[Len(s)]
  BY KeptExists
<1> DEFINE E(n) == {s[j] : j \in 1 .. n}
           G == {n \in Nat : n <= Len(s) => /\ f[n] \in Seq(T)
                                            /\ ToSet(f[n]) = E(n) \cap A
                                            /\ Once(s) => Once(f[n])}
<1>2. 0 \in G
  <2>1. <<>> \in Seq(T) /\ ToSet(<<>>) = {} /\ Once(<<>>)
    BY DEF ToSet, Once
  <2>2. E(0) = {}
    OBVIOUS
  <2> HIDE DEF E
  <2> QED BY <1>1, <2>1, <2>2
<1>3. ASSUME NEW n \in Nat, n \in G PROVE n + 1 \in G
  <2> SUFFICES ASSUME n + 1 <= Len(s)
               PROVE  /\ f[n + 1] \in Seq(T) /\ ToSet(f[n + 1]) = E(n + 1) \cap A
                      /\ Once(s) => Once(f[n + 1])
    OBVIOUS
  <2>1. /\ n + 1 \in 1 .. Len(s) /\ s[n + 1] \in T /\ (n + 1) - 1 = n
        /\ \A j \in 1 .. n : j \in 1 .. Len(s) /\ j # n + 1
    OBVIOUS
  <2>2. f[n + 1] = IF s[n + 1] \in A THEN Append(f[n], s[n + 1]) ELSE f[n]
    BY <1>1, <2>1
  <2>3. f[n] \in Seq(T) /\ ToSet(f[n]) = E(n) \cap A /\ (Once(s) => Once(f[n]))
    BY <1>3
  <2>4. E(n + 1) = E(n) \cup {s[n + 1]}
    <3>1. \A j : j \in 1 .. n + 1 <=> j \in 1 .. n \/ j = n + 1
      OBVIOUS
    <3> QED BY <3>1
  <2>5. Once(s) => s[n + 1] \notin E(n)
    BY <2>1 DEF Once
  <2> HIDE DEF E, G
  <2>6. CASE s[n + 1] \in A
    <3>1. /\ Append(f[n], s[n + 1]) \in Seq(T)
          /\ ToSet(Append(f[n], s[n + 1])) = ToSet(f[n]) \cup {s[n + 1]}
          /\ Once(f[n]) /\ s[n + 1] \notin ToSet(f[n]) => Once(Append(f[n], s[n + 1]))
      BY <2>1, <2>3, AppendFacts
    <3> QED BY <2>2, <2>3, <2>4, <2>5, <2>6, <3>1
  <2>7. CASE s[n + 1] \notin A
    BY <2>2, <2>3, <2>4, <2>7
  <2> QED BY <2>6, <2>7
<1>4. Len(s) \in G
  <2> HIDE DEF G
  <2>1. \A n \in Nat : n \in G
    BY <1>2, <1>3, Induction
  <2> QED BY <2>1
<1>5. E(Len(s)) = ToSet(s)
  BY DEF ToSet
<1> QED BY <1>1, <1>4, <1>5

-----------------------------------------------------------------------------
(* After: the loop that handles one message after the other.               *)

\* f is what k has become after each of the first n messages.
AfterUpTo(f, k, s, n) ==
    f = [i \in 0 .. n |-> IF i = 0 THEN k ELSE Handle(f[i - 1], s[i])]

\* The function that After is defined with exists.
LEMMA AfterExists ==
    ASSUME NEW T, NEW s \in Seq(T), NEW k
    PROVE  \E f : /\ f[0] = k
                  /\ \A i \in 1 .. Len(s) : f[i] = Handle(f[i - 1], s[i])
                  /\ After(k, s) = f[Len(s)]
<1> DEFINE G == {n \in Nat : \E f : AfterUpTo(f, k, s, n)}
<1>1. 0 \in G
  <2> DEFINE f == [i \in 0 .. 0 |-> k]
  <2>1. f = [i \in 0 .. 0 |-> IF i = 0 THEN k ELSE Handle(f[i - 1], s[i])]
    OBVIOUS
  <2> QED BY <2>1 DEF AfterUpTo
<1>2. ASSUME NEW n \in Nat, n \in G PROVE n + 1 \in G
  <2>1. PICK g : AfterUpTo(g, k, s, n)
    BY <1>2
  <2> DEFINE x == Handle(g[n], s[n + 1])
             f == [i \in 0 .. n + 1 |-> IF i = n + 1 THEN x ELSE g[i]]
  <2>2. \A i \in 0 .. n : g[i] = IF i = 0 THEN k ELSE Handle(g[i - 1], s[i])
    BY <2>1 DEF AfterUpTo
  <2> HIDE DEF x
  <2>3. f[n + 1] = x /\ \A i \in 0 .. n : f[i] = g[i]
    OBVIOUS
  <2>4. ASSUME NEW i \in 0 .. n + 1
        PROVE  f[i] = IF i = 0 THEN k ELSE Handle(f[i - 1], s[i])
    <3> HIDE DEF f
    <3>1. CASE i = 0
      BY <2>2, <2>3, <3>1
    <3>2. CASE i # 0 /\ i # n + 1
      <4>1. i \in 0 .. n /\ i - 1 \in 0 .. n
        BY <3>2
      <4> QED BY <2>2, <2>3, <3>2, <4>1
    <3>3. CASE i = n + 1
      <4>1. i - 1 = n /\ n \in 0 .. n /\ i # 0
        BY <3>3
      <4> QED BY <2>3, <3>3, <4>1 DEF x
    <3> QED BY <3>1, <3>2, <3>3
  <2>5. f = [i \in 0 .. n + 1 |-> f[i]]
    OBVIOUS
  <2>6. AfterUpTo(f, k, s, n + 1)
    <3> HIDE DEF f
    <3> QED BY <2>4, <2>5 DEF AfterUpTo
  <2> QED BY <2>6
<1> HIDE DEF G
<1>3. Len(s) \in G
  <2>1. \A n \in Nat : n \in G
    BY <1>1, <1>2, Induction
  <2> QED BY <2>1
<1> DEFINE f == CHOOSE f : AfterUpTo(f, k, s, Len(s))
<1>4. AfterUpTo(f, k, s, Len(s))
  BY <1>3 DEF G
<1>5. After(k, s) = f[Len(s)]
  BY DEF After, AfterUpTo
<1> HIDE DEF f
<1>6. \A i \in 0 .. Len(s) : f[i] = IF i = 0 THEN k ELSE Handle(f[i - 1], s[i])
  BY <1>4 DEF AfterUpTo
<1> QED BY <1>5, <1>6

\* Nothing to handle changes nothing.
LEMMA AfterNothing == \A k : After(k, <<>>) = k
<1> SUFFICES ASSUME NEW k PROVE After(k, <<>>) = k
  OBVIOUS
<1> DEFINE s == <<>>
<1>1. s \in Seq(Nat) /\ Len(s) = 0
  OBVIOUS
<1> HIDE DEF s
<1>2. \E f : /\ f[0] = k
             /\ \A i \in 1 .. Len(s) : f[i] = Handle(f[i - 1], s[i])
             /\ After(k, s) = f[Len(s)]
  BY <1>1, AfterExists
<1> QED BY <1>1, <1>2 DEF s

\* The last message is handled last ...
LEMMA AfterOneMore ==
    ASSUME NEW T, NEW s \in Seq(T), NEW m \in T, NEW k
    PROVE  After(k, Append(s, m)) = Handle(After(k, s), m)
<1>1. /\ Append(s, m) \in Seq(T) /\ Len(Append(s, m)) = Len(s) + 1 /\ Len(s) \in Nat
      /\ Append(s, m)[Len(s) + 1] = m
      /\ \A i \in 1 .. Len(s) : Append(s, m)[i] = s[i]
  OBVIOUS
<1>2. PICK f : /\ f[0] = k
               /\ \A i \in 1 .. Len(s) : f[i] = Handle(f[i - 1], s[i])
               /\ After(k, s) = f[Len(s)]
  BY AfterExists
<1>3. PICK g : /\ g[0] = k
               /\ \A i \in 1 .. Len(s) + 1 : g[i] = Handle(g[i - 1], Append(s, m)[i])
               /\ After(k, Append(s, m)) = g[Len(s) + 1]
  <2>1. \E g : /\ g[0] = k
               /\ \A i \in 1 .. Len(Append(s, m)) :
                     g[i] = Handle(g[i - 1], Append(s, m)[i])
               /\ After(k, Append(s, m)) = g[Len(Append(s, m))]
    BY <1>1, AfterExists
  <2> QED BY <1>1, <2>1
<1> DEFINE G == {n \in Nat : n <= Len(s) => f[n] = g[n]}
<1>4. 0 \in G
  BY <1>2, <1>3
<1>5. ASSUME NEW n \in Nat, n \in G PROVE n + 1 \in G
  <2> SUFFICES ASSUME n + 1 <= Len(s) PROVE f[n + 1] = g[n + 1]
    OBVIOUS
  <2>1. n + 1 \in 1 .. Len(s) /\ n + 1 \in 1 .. Len(s) + 1 /\ (n + 1) - 1 = n /\ n <= Len(s)
    BY <1>1
  <2>2. f[n] = g[n]
    BY <1>5, <2>1
  <2> QED BY <1>1, <1>2, <1>3, <2>1, <2>2
<1>6. f[Len(s)] = g[Len(s)]
  <2> HIDE DEF G
  <2>1. \A n \in Nat : n \in G
    BY <1>4, <1>5, Induction
  <2> QED BY <1>1, <2>1 DEF G
<1>7. Len(s) + 1 \in 1 .. Len(s) + 1 /\ (Len(s) + 1) - 1 = Len(s)
  BY <1>1
<1> QED BY <1>1, <1>2, <1>3, <1>6, <1>7

\* Handling one message.
LEMMA AfterOne == ASSUME NEW T, NEW m \in T, NEW k PROVE After(k, <<m>>) = Handle(k, m)
<1> DEFINE s == <<>>
<1>1. <<m>> = Append(s, m) /\ s \in Seq(T)
  OBVIOUS
<1>2. After(k, s) = k
  BY AfterNothing
<1> HIDE DEF s
<1>3. After(k, Append(s, m)) = Handle(After(k, s), m)
  BY <1>1, AfterOneMore
<1> QED BY <1>1, <1>2, <1>3

\* ... and the messages that come later are handled later.
LEMMA AfterConcat ==
    ASSUME NEW T, NEW s \in Seq(T), NEW t \in Seq(T), NEW k
    PROVE  After(k, s \o t) = After(After(k, s), t)
<1> DEFINE G == {u \in Seq(T) : After(k, s \o u) = After(After(k, s), u)}
<1>1. <<>> \in G
  <2>1. s \o <<>> = s /\ <<>> \in Seq(T)
    OBVIOUS
  <2> QED BY <2>1, AfterNothing
<1>2. ASSUME NEW u \in Seq(T), NEW m \in T, u \in G PROVE Append(u, m) \in G
  <2>1. /\ s \o Append(u, m) = Append(s \o u, m)
        /\ s \o u \in Seq(T) /\ Append(u, m) \in Seq(T)
    OBVIOUS
  <2>2. After(k, Append(s \o u, m)) = Handle(After(k, s \o u), m)
    BY <2>1, AfterOneMore
  <2>3. After(After(k, s), Append(u, m)) = Handle(After(After(k, s), u), m)
    BY AfterOneMore
  <2> QED BY <1>2, <2>1, <2>2, <2>3
<1> HIDE DEF G
<1>3. \A u \in Seq(T) : u \in G
  BY <1>1, <1>2, SeqInduction
<1> QED BY <1>3 DEF G

-----------------------------------------------------------------------------
(* How often a name is on a list.                                          *)

\* A count grows by one with the element it counts, and only with it.
LEMMA CountAppend ==
    ASSUME NEW T, NEW s \in Seq(T), NEW y \in T, NEW x
    PROVE  /\ Count(s, x) \in Nat
           /\ Count(Append(s, y), x) = Count(s, x) + IF x = y THEN 1 ELSE 0
<1> DEFINE I == {i \in 1 .. Len(s) : s[i] = x}
           J == {i \in 1 .. Len(Append(s, y)) : Append(s, y)[i] = x}
<1>1. /\ Len(s) \in Nat /\ Len(Append(s, y)) = Len(s) + 1
      /\ Append(s, y)[Len(s) + 1] = y
      /\ \A i \in 1 .. Len(s) : Append(s, y)[i] = s[i]
  OBVIOUS
<1>2. \A i : i \in 1 .. Len(s) + 1 <=> i \in 1 .. Len(s) \/ i = Len(s) + 1
  BY <1>1
<1>3. J = IF x = y THEN I \cup {Len(s) + 1} ELSE I
  BY <1>1, <1>2
<1>4. IsFiniteSet(I) /\ Len(s) + 1 \notin I
  <2>1. 1 \in Int /\ Len(s) \in Int
    BY <1>1
  <2>2. IsFiniteSet(1 .. Len(s))
    BY <2>1, FS_Interval
  <2>3. I \in SUBSET (1 .. Len(s)) /\ Len(s) + 1 \notin 1 .. Len(s)
    BY <1>1
  <2> HIDE DEF I
  <2> QED BY <2>2, <2>3, FS_Subset
<1> HIDE DEF I, J
<1>5. Cardinality(I) \in Nat /\ Cardinality(I \cup {Len(s) + 1}) = Cardinality(I) + 1
  BY <1>4, FS_AddElement, FS_CardinalityType
<1>6. Count(s, x) = Cardinality(I) /\ Count(Append(s, y), x) = Cardinality(J)
  BY DEF Count, I, J
<1> QED BY <1>3, <1>5, <1>6

\* Nobody is on an empty list.
LEMMA CountNothing == \A x : Count(<<>>, x) = 0
<1>1. \A x : {i \in 1 .. Len(<<>>) : <<>>[i] = x} = {}
  OBVIOUS
<1> QED BY <1>1, FS_EmptySet DEF Count

\* The counts of two lists add up.
LEMMA CountJoined ==
    ASSUME NEW T, NEW s \in Seq(T), NEW t \in Seq(T), NEW x
    PROVE  Count(s \o t, x) = Count(s, x) + Count(t, x)
<1> DEFINE G == {u \in Seq(T) : Count(s \o u, x) = Count(s, x) + Count(u, x)}
<1>0. \A u \in Seq(T) : Count(u, x) \in Nat
  <2> SUFFICES ASSUME NEW u \in Seq(T) PROVE Count(u, x) \in Nat
    OBVIOUS
  <2>1. IsFiniteSet(1 .. Len(u))
    <3>1. 1 \in Int /\ Len(u) \in Int
      OBVIOUS
    <3> QED BY <3>1, FS_Interval
  <2> DEFINE I == {i \in 1 .. Len(u) : u[i] = x}
  <2>2. I \in SUBSET (1 .. Len(u))
    OBVIOUS
  <2> HIDE DEF I
  <2>3. Cardinality(I) \in Nat
    BY <2>1, <2>2, FS_Subset, FS_CardinalityType
  <2> QED BY <2>3 DEF Count, I
<1>1. <<>> \in G
  <2>1. s \o <<>> = s /\ <<>> \in Seq(T)
    OBVIOUS
  <2> QED BY <1>0, <2>1, CountNothing
<1>2. ASSUME NEW u \in Seq(T), NEW y \in T, u \in G PROVE Append(u, y) \in G
  <2>1. /\ s \o Append(u, y) = Append(s \o u, y)
        /\ s \o u \in Seq(T) /\ Append(u, y) \in Seq(T)
    OBVIOUS
  <2>2. Count(Append(s \o u, y), x) = Count(s \o u, x) + IF x = y THEN 1 ELSE 0
    <3> DEFINE v == s \o u
    <3>1. v \in Seq(T)
      BY <2>1
    <3> HIDE DEF v
    <3>2. Count(Append(v, y), x) = Count(v, x) + IF x = y THEN 1 ELSE 0
      BY <3>1, CountAppend
    <3> QED BY <3>2 DEF v
  <2>3. Count(Append(u, y), x) = Count(u, x) + IF x = y THEN 1 ELSE 0
    BY CountAppend
  <2>4. Count(s \o u, x) = Count(s, x) + Count(u, x)
    BY <1>2
  <2>5. Count(Append(s \o u, y), x) = Count(s, x) + Count(Append(u, y), x)
    BY <1>0, <2>2, <2>3, <2>4
  <2> QED BY <2>1, <2>5
<1> HIDE DEF G
<1>3. \A u \in Seq(T) : u \in G
  BY <1>1, <1>2, SeqInduction
<1> QED BY <1>3 DEF G

\* A list of one name has that name once.
LEMMA CountOne == \A x, y : Count(<<y>>, x) = IF x = y THEN 1 ELSE 0
<1> SUFFICES ASSUME NEW x, NEW y PROVE Count(<<y>>, x) = IF x = y THEN 1 ELSE 0
  OBVIOUS
<1> DEFINE I == {i \in 1 .. Len(<<y>>) : <<y>>[i] = x}
<1>1. I = IF x = y THEN {1} ELSE {}
  OBVIOUS
<1>2. Cardinality({1}) = 1 /\ Cardinality({}) = 0
  BY FS_Singleton, FS_EmptySet
<1>3. Count(<<y>>, x) = Cardinality(I)
  BY DEF Count
<1> HIDE DEF I
<1> QED BY <1>1, <1>2, <1>3

\* Without takes one name off the list, and not from its front unless it is
\* the name there.
LEMMA WithoutFacts ==
    ASSUME NEW T, NEW s \in Seq(T), NEW n
    PROVE  /\ Without(s, n) \in Seq(T)
           /\ \A x : Count(Without(s, n), x) =
                        IF x = n /\ Count(s, x) > 0 THEN Count(s, x) - 1 ELSE Count(s, x)
           /\ s # <<>> /\ Head(s) # n => Without(s, n) # <<>> /\ Head(Without(s, n)) = Head(s)
           /\ s = <<>> => Without(s, n) = <<>>
<1> DEFINE I == {i \in 1 .. Len(s) : s[i] = n}
           k == Min(I)
<1>1. CASE I = {}
  <2>1. Without(s, n) = s
    BY <1>1 DEF Without, RemoveFirst
  <2>2. Count(s, n) = 0
    BY <1>1, FS_EmptySet DEF Count
  <2> QED BY <2>1, <2>2
<1>2. CASE I # {}
  <2>1. k \in I
    <3>1. I \in SUBSET Nat
      OBVIOUS
    <3>2. \E i \in I : \A j \in I : i <= j
      BY <1>2, <3>1, Least
    <3> QED BY <3>2 DEF Min
  <2>2. Without(s, n) = SubSeq(s, 1, k - 1) \o SubSeq(s, k + 1, Len(s))
    BY <1>2 DEF Without, RemoveFirst, RemoveAt, SelectInSeq
  <2>3. k \in 1 .. Len(s) /\ s[k] = n
    BY <2>1
  <2> HIDE DEF k, I
  <2> DEFINE a == SubSeq(s, 1, k - 1)
             b == SubSeq(s, k + 1, Len(s))
  <2>4. a \in Seq(T) /\ b \in Seq(T) /\ s = (a \o <<n>>) \o b /\ n \in T
    <3>1. /\ a \in Seq(T) /\ Len(a) = k - 1 /\ \A i \in 1 .. k - 1 : a[i] = s[i]
          /\ b \in Seq(T) /\ Len(b) = Len(s) - k
          /\ \A i \in 1 .. Len(s) - k : b[i] = s[k + i]
          /\ n \in T /\ k \in Nat /\ Len(s) \in Nat /\ k <= Len(s) /\ 1 <= k
      BY <2>3
    <3> HIDE DEF a, b
    <3> DEFINE c == a \o <<n>>
    <3>2. c \in Seq(T) /\ Len(c) = k /\ c[k] = n /\ \A i \in 1 .. k - 1 : c[i] = a[i]
      <4> DEFINE d == <<n>>
      <4>1. d \in Seq(T) /\ Len(d) = 1 /\ d[1] = n /\ c = a \o d
        BY <3>1
      <4> HIDE DEF c, d
      <4>2. /\ a \o d \in Seq(T) /\ Len(a \o d) = Len(a) + Len(d)
            /\ \A i \in 1 .. Len(a) + Len(d) : (a \o d)[i] = IF i <= Len(a) THEN a[i]
                                                 ELSE d[i - Len(a)]
        BY <3>1, <4>1, ConcatProperties
      <4>3. /\ k \in 1 .. Len(a) + Len(d) /\ ~(k <= Len(a)) /\ k - Len(a) = 1
            /\ Len(a) + Len(d) = k
        BY <3>1, <4>1
      <4>4. \A i \in 1 .. k - 1 : i \in 1 .. Len(a) + Len(d) /\ i <= Len(a)
        BY <3>1, <4>1
      <4> QED BY <4>1, <4>2, <4>3, <4>4
    <3> HIDE DEF c
    <3>3. /\ c \o b \in Seq(T) /\ Len(c \o b) = Len(s)
          /\ \A i \in 1 .. Len(s) : (c \o b)[i] = IF i <= k THEN c[i] ELSE b[i - k]
      <4>1. /\ c \o b \in Seq(T) /\ Len(c \o b) = Len(c) + Len(b)
            /\ \A i \in 1 .. Len(c) + Len(b) :
                  (c \o b)[i] = IF i <= Len(c) THEN c[i] ELSE b[i - Len(c)]
        BY <3>1, <3>2, ConcatProperties
      <4>2. Len(c) + Len(b) = Len(s) /\ Len(c) = k
        BY <3>1, <3>2
      <4> QED BY <4>1, <4>2
    <3>4. ASSUME NEW i \in 1 .. Len(s) PROVE (c \o b)[i] = s[i]
      <4>1. CASE i < k
        BY <3>1, <3>2, <3>3, <4>1
      <4>2. CASE i = k
        BY <2>3, <3>1, <3>2, <3>3, <4>2
      <4>3. CASE i > k
        <5>1. i - k \in 1 .. Len(s) - k /\ k + (i - k) = i /\ ~(i <= k)
          BY <3>1, <4>3
        <5> QED BY <3>1, <3>3, <5>1
      <4>4. i < k \/ i = k \/ i > k
        BY <3>1
      <4> QED BY <4>1, <4>2, <4>3, <4>4
    <3>5. s = c \o b
      BY <3>3, <3>4, SeqEqual
    <3> QED BY <3>1, <3>5 DEF c
  <2>5. Head(s) # n => k # 1 /\ a # <<>> /\ Head(a) = Head(s)
    BY <2>3
  <2> HIDE DEF a, b
  <2>6. ASSUME NEW x
        PROVE  Count(a \o b, x) =
                  IF x = n /\ Count(s, x) > 0 THEN Count(s, x) - 1 ELSE Count(s, x)
    <3>1. /\ Count(a \o b, x) = Count(a, x) + Count(b, x)
          /\ Count(a, x) \in Nat /\ Count(b, x) \in Nat
      BY <2>4, CountJoined, CountAppend
    <3>2. Count(s, x) = (Count(a, x) + Count(<<n>>, x)) + Count(b, x)
      <4> DEFINE c == a \o <<n>>
                 d == <<n>>
      <4>1. c \in Seq(T) /\ d \in Seq(T) /\ c = a \o d
        BY <2>4
      <4>2. s = c \o b
        BY <2>4
      <4> HIDE DEF c, d
      <4>3. Count(c \o b, x) = Count(c, x) + Count(b, x)
        BY <2>4, <4>1, CountJoined
      <4>4. Count(a \o d, x) = Count(a, x) + Count(d, x)
        BY <2>4, <4>1, CountJoined
      <4> QED BY <4>1, <4>2, <4>3, <4>4 DEF d
    <3> QED BY <3>1, <3>2, CountOne
  <2> QED BY <2>2, <2>4, <2>5, <2>6 DEF a, b
<1> QED BY <1>1, <1>2

-----------------------------------------------------------------------------
(* What one message does to a client.                                      *)

ClientType == [phase : {"menu", "waiting", "playing", "stuck", "exited", "quit"},
               list : Seq(Names), winner : SUBSET Names, draining : BOOLEAN]

\* A message is one of these.
LEMMA MessageForms ==
    ASSUME NEW m \in Message
    PROVE  \/ m.type \in {"GameJoin", "GotHit", "OtherLeave", "GameWon"} /\ m.name \in Names
           \/ m.type = "WelcomeToRoom" /\ m.names \in Seq(Names)
           \/ m.type \in {"GameStart", "Error", "Eof"}
BY DEF Message

\* In the lobby the list grows at its end, and GameStart and Error end it.
LEMMA InTheLobby ==
    ASSUME NEW k \in ClientType, NEW m \in Message, k.phase = "waiting"
    PROVE  /\ Handle(k, m) \in ClientType
           /\ Handle(k, m).winner = k.winner
           /\ m.type = "OtherLeave" => Handle(k, m) = k
           /\ Handle(k, m).phase = IF m.type = "Eof" THEN "exited"
                                   ELSE IF m.type = "GameStart" THEN "playing"
                                   ELSE IF m.type = "Error" THEN "stuck" ELSE "waiting"
           /\ Handle(k, m).list = IF m.type = "WelcomeToRoom" THEN k.list \o m.names
                                  ELSE IF m.type = "GameJoin" THEN Append(k.list, m.name)
                                  ELSE k.list
<1>0. k.list \in Seq(Names) /\ k.winner \in SUBSET Names /\ k.draining \in BOOLEAN
  BY DEF ClientType
<1>1. CASE m.type = "Eof"
  BY <1>1 DEF Handle, ClientType
<1>2. CASE m.type = "WelcomeToRoom"
  <2> DEFINE l == k.list \o m.names
  <2>1. l \in Seq(Names)
    <3>1. m.names \in Seq(Names)
      BY <1>2, MessageForms
    <3> QED BY <1>0, <3>1
  <2> HIDE DEF l
  <2>2. Handle(k, m) = [k EXCEPT !.list = l]
    BY <1>2 DEF Handle, HandleLobbyMsg, l
  <2> QED BY <1>2, <2>1, <2>2 DEF ClientType, l
<1>3. CASE m.type = "GameJoin"
  <2> DEFINE l == Append(k.list, m.name)
  <2>1. l \in Seq(Names)
    <3>1. m.name \in Names
      BY <1>3, MessageForms
    <3> QED BY <1>0, <3>1
  <2> HIDE DEF l
  <2>2. Handle(k, m) = [k EXCEPT !.list = l]
    BY <1>3 DEF Handle, HandleLobbyMsg, l
  <2> QED BY <1>3, <2>1, <2>2 DEF ClientType, l
<1>4. CASE m.type = "GameStart"
  BY <1>4 DEF Handle, HandleLobbyMsg, ClientType
<1>5. CASE m.type = "Error"
  BY <1>5 DEF Handle, HandleLobbyMsg, ClientType
<1>6. CASE m.type \in {"GotHit", "OtherLeave", "GameWon"}
  <2>1. Handle(k, m) = k
    BY <1>6 DEF Handle, HandleLobbyMsg
  <2> QED BY <1>6, <2>1
<1> QED BY <1>1, <1>2, <1>3, <1>4, <1>5, <1>6, MessageForms

\* In the match the list shrinks by the name of who dies or leaves.
LEMMA InTheMatch ==
    ASSUME NEW k \in ClientType, NEW m \in Message, k.phase = "playing"
    PROVE  /\ Handle(k, m) \in ClientType
           /\ Handle(k, m).winner = IF m.type = "GameWon" THEN {m.name} ELSE k.winner
           /\ Handle(k, m).phase = IF m.type = "Eof" THEN "exited" ELSE "playing"
           /\ Handle(k, m).list = IF m.type \in {"OtherLeave", "GotHit"}
                                  THEN Without(k.list, m.name) ELSE k.list
<1>1. k.list \in Seq(Names)
  BY DEF ClientType
<1> DEFINE w == Without(k.list, m.name)
<1>2. w \in Seq(Names)
  <2> DEFINE l == k.list
             n == m.name
  <2>1. l \in Seq(Names)
    BY <1>1
  <2> HIDE DEF l, n
  <2>2. Without(l, n) \in Seq(Names)
    BY <2>1, WithoutFacts
  <2> QED BY <2>2 DEF l, n
<1> HIDE DEF w
<1>3. CASE m.type \in {"OtherLeave", "GotHit"}
  <2>1. Handle(k, m) = [k EXCEPT !.list = w]
    BY <1>3 DEF Handle, HandleMessage, w
  <2>2. [k EXCEPT !.list = w] \in ClientType
    BY <1>2 DEF ClientType
  <2> QED BY <1>3, <2>1, <2>2 DEF w, ClientType
<1>4. CASE m.type \notin {"OtherLeave", "GotHit"}
  BY <1>4, MessageForms DEF Handle, HandleMessage, ClientType
<1> QED BY <1>3, <1>4

\* Otherwise only the end of the stream is noticed.
LEMMA Elsewhere ==
    ASSUME NEW k \in ClientType, NEW m \in Message, k.phase \notin {"waiting", "playing"}
    PROVE  /\ Handle(k, m) \in ClientType
           /\ Handle(k, m) = IF m.type = "Eof" THEN [k EXCEPT !.phase = "exited"] ELSE k
BY DEF Handle, ClientType

\* A message leaves a client in a state it can be in.
LEMMA HandleType ==
    ASSUME NEW k \in ClientType, NEW m \in Message
    PROVE  Handle(k, m) \in ClientType
BY InTheLobby, InTheMatch, Elsewhere

\* So does any number of messages.
LEMMA AfterType ==
    ASSUME NEW k \in ClientType, NEW s \in Seq(Message)
    PROVE  After(k, s) \in ClientType
<1> DEFINE G == {u \in Seq(Message) : After(k, u) \in ClientType}
<1>1. <<>> \in G
  BY AfterNothing
<1>2. ASSUME NEW u \in Seq(Message), NEW m \in Message, u \in G PROVE Append(u, m) \in G
  <2>1. After(k, Append(u, m)) = Handle(After(k, u), m)
    BY AfterOneMore
  <2> QED BY <1>2, <2>1, HandleType
<1> HIDE DEF G
<1>3. \A u \in Seq(Message) : u \in G
  BY <1>1, <1>2, SeqInduction
<1> QED BY <1>3 DEF G

\* Two states of a client that differ in draining only.
Alike(k, l) == k.phase = l.phase /\ k.list = l.list /\ k.winner = l.winner

\* What a client learns does not depend on draining.
LEMMA HandleAlike ==
    ASSUME NEW k \in ClientType, NEW l \in ClientType, NEW m \in Message, Alike(k, l)
    PROVE  Alike(Handle(k, m), Handle(l, m))
<1>0. k.phase = l.phase /\ k.list = l.list /\ k.winner = l.winner
  BY DEF Alike
<1>1. CASE k.phase = "waiting"
  <2>1. l.phase = "waiting"
    BY <1>0, <1>1
  <2> QED BY <1>0, <1>1, <2>1, InTheLobby DEF Alike
<1>2. CASE k.phase = "playing"
  <2>1. l.phase = "playing"
    BY <1>0, <1>2
  <2>2. Handle(k, m).list = Handle(l, m).list
    <3>1. Handle(k, m).list = IF m.type \in {"OtherLeave", "GotHit"}
                              THEN Without(k.list, m.name) ELSE k.list
      BY <1>2, InTheMatch
    <3>2. Handle(l, m).list = IF m.type \in {"OtherLeave", "GotHit"}
                              THEN Without(l.list, m.name) ELSE l.list
      BY <2>1, InTheMatch
    <3> QED BY <1>0, <3>1, <3>2
  <2>3. /\ Handle(k, m).phase = Handle(l, m).phase
        /\ Handle(k, m).winner = Handle(l, m).winner
    BY <1>0, <1>2, <2>1, InTheMatch
  <2> QED BY <2>2, <2>3 DEF Alike
<1>3. CASE k.phase \notin {"waiting", "playing"}
  <2>1. l.phase \notin {"waiting", "playing"}
    BY <1>0, <1>3
  <2>2. /\ Handle(k, m) = IF m.type = "Eof" THEN [k EXCEPT !.phase = "exited"] ELSE k
        /\ Handle(l, m) = IF m.type = "Eof" THEN [l EXCEPT !.phase = "exited"] ELSE l
    BY <1>3, <2>1, Elsewhere
  <2>3. /\ [k EXCEPT !.phase = "exited"].phase = "exited"
        /\ [l EXCEPT !.phase = "exited"].phase = "exited"
        /\ [k EXCEPT !.phase = "exited"].list = k.list
        /\ [l EXCEPT !.phase = "exited"].list = l.list
        /\ [k EXCEPT !.phase = "exited"].winner = k.winner
        /\ [l EXCEPT !.phase = "exited"].winner = l.winner
    BY DEF ClientType
  <2>4. CASE m.type = "Eof"
    BY <1>0, <2>2, <2>3, <2>4 DEF Alike
  <2>5. CASE m.type # "Eof"
    BY <1>0, <2>2, <2>5 DEF Alike
  <2> QED BY <2>4, <2>5
<1> QED BY <1>1, <1>2, <1>3

\* Two clients that differ only in draining stay so, whatever they handle.
LEMMA AfterAlike ==
    ASSUME NEW k \in ClientType, NEW l \in ClientType, NEW s \in Seq(Message), Alike(k, l)
    PROVE  Alike(After(k, s), After(l, s))
<1> DEFINE G == {u \in Seq(Message) : Alike(After(k, u), After(l, u))}
<1>1. <<>> \in G
  BY AfterNothing
<1>2. ASSUME NEW u \in Seq(Message), NEW m \in Message, u \in G PROVE Append(u, m) \in G
  <2>1. /\ After(k, Append(u, m)) = Handle(After(k, u), m)
        /\ After(l, Append(u, m)) = Handle(After(l, u), m)
    BY AfterOneMore
  <2>2. After(k, u) \in ClientType /\ After(l, u) \in ClientType
    BY AfterType
  <2> QED BY <1>2, <2>1, <2>2, HandleAlike
<1> HIDE DEF G
<1>3. \A u \in Seq(Message) : u \in G
  BY <1>1, <1>2, SeqInduction
<1> QED BY <1>3 DEF G

\* The first message is handled first.
LEMMA AfterFront ==
    ASSUME NEW k, NEW m \in Message, NEW s \in Seq(Message)
    PROVE  After(k, <<m>> \o s) = After(Handle(k, m), s)
<1> DEFINE u == <<m>>
<1>1. u \in Seq(Message)
  OBVIOUS
<1>2. After(k, u) = Handle(k, m)
  BY AfterOne
<1> HIDE DEF u
<1>3. After(k, u \o s) = After(After(k, u), s)
  BY <1>1, AfterConcat
<1> QED BY <1>2, <1>3 DEF u

-----------------------------------------------------------------------------
(* Messages about several players.                                         *)

About(type, c) == [type |-> type, name |-> Name(c)]

\* A message about a player of the room.
LEMMA AboutIsMessage ==
    ASSUME room.name \in [Clients -> Names], NEW c \in Clients,
           NEW type \in {"GameJoin", "GotHit", "OtherLeave", "GameWon"}
    PROVE  About(type, c) \in Message
<1>1. Name(c) \in Names
  BY DEF Name
<1> QED BY <1>1 DEF About, Message

\* Of makes one message of every player.
LEMMA OfFacts ==
    ASSUME room.name \in [Clients -> Names], NEW s \in Seq(Clients),
           NEW type \in {"GameJoin", "GotHit", "OtherLeave", "GameWon"}
    PROVE  /\ Of(type, s) \in Seq(Message) /\ Len(Of(type, s)) = Len(s)
           /\ \A i \in 1 .. Len(s) : Of(type, s)[i] = About(type, s[i])
           /\ \A m \in ToSet(Of(type, s)) : \E c \in ToSet(s) : m = About(type, c)
           /\ \A x \in Clients : Of(type, Append(s, x)) = Append(Of(type, s), About(type, x))
<1>1. \A c \in Clients : About(type, c) \in Message
  BY AboutIsMessage
<1>2. Of(type, s) = [i \in 1 .. Len(s) |-> About(type, s[i])]
  BY DEF Of, About
<1>3. Len(s) \in Nat /\ \A i \in 1 .. Len(s) : s[i] \in Clients
  OBVIOUS
<1>4. /\ Of(type, s) \in Seq(Message) /\ Len(Of(type, s)) = Len(s)
      /\ \A i \in 1 .. Len(s) : Of(type, s)[i] = About(type, s[i])
  BY <1>1, <1>2, <1>3
<1>5. \A m \in ToSet(Of(type, s)) : \E c \in ToSet(s) : m = About(type, c)
  BY <1>2, <1>3 DEF ToSet
<1>6. ASSUME NEW x \in Clients
      PROVE  Of(type, Append(s, x)) = Append(Of(type, s), About(type, x))
  <2> DEFINE t == Append(s, x)
             u == Append(Of(type, s), About(type, x))
             v == Of(type, t)
  <2>1. /\ t \in Seq(Clients) /\ Len(t) = Len(s) + 1 /\ t[Len(s) + 1] = x
        /\ \A i \in 1 .. Len(s) : t[i] = s[i]
    OBVIOUS
  <2>2. v = [i \in 1 .. Len(t) |-> About(type, t[i])]
    BY DEF Of, About
  <2>3. \A i \in 1 .. Len(t) : t[i] \in Clients
    OBVIOUS
  <2>4. /\ u \in Seq(Message) /\ Len(u) = Len(s) + 1 /\ u[Len(s) + 1] = About(type, x)
        /\ \A i \in 1 .. Len(s) : u[i] = About(type, s[i])
    <3>1. About(type, x) \in Message
      BY <1>1
    <3> QED BY <1>4, <3>1
  <2> HIDE DEF t, u, v
  <2>5. v \in Seq(Message) /\ Len(v) = Len(s) + 1
    BY <1>1, <1>3, <2>1, <2>2, <2>3
  <2>6. ASSUME NEW i \in 1 .. Len(v) PROVE v[i] = u[i]
    <3>1. i \in 1 .. Len(t) /\ v[i] = About(type, t[i])
      BY <2>1, <2>2, <2>5
    <3>2. i = Len(s) + 1 \/ i \in 1 .. Len(s)
      BY <1>3, <2>5
    <3> QED BY <2>1, <2>4, <3>1, <3>2
  <2>7. v = u
    BY <2>4, <2>5, <2>6, SeqEqual
  <2> QED BY <2>7 DEF t, u, v
<1> QED BY <1>4, <1>5, <1>6

\* No players, no messages.
LEMMA OfNobody == \A type : Of(type, <<>>) = <<>>
BY DEF Of

\* One player, one message.
LEMMA OfOne == \A type, c : Of(type, <<c>>) = <<About(type, c)>>
BY DEF Of, About

\* A client that waits ignores who leaves.
LEMMA LeavingIsIgnored ==
    ASSUME room.name \in [Clients -> Names], NEW h \in Seq(Clients),
           NEW k \in ClientType, k.phase = "waiting"
    PROVE  After(k, Of("OtherLeave", h)) = k
<1> DEFINE G == {s \in Seq(Clients) : After(k, Of("OtherLeave", s)) = k}
<1>1. <<>> \in G
  BY AfterNothing, OfNobody
<1>2. ASSUME NEW s \in Seq(Clients), NEW x \in Clients, s \in G PROVE Append(s, x) \in G
  <2> DEFINE u == Of("OtherLeave", s)
             m == About("OtherLeave", x)
  <2>1. u \in Seq(Message) /\ Of("OtherLeave", Append(s, x)) = Append(u, m)
    BY OfFacts
  <2>2. m \in Message
    BY AboutIsMessage
  <2>3. m.type = "OtherLeave"
    BY DEF About
  <2>4. After(k, u) = k
    BY <1>2
  <2> HIDE DEF u, m
  <2>5. After(k, Append(u, m)) = Handle(After(k, u), m)
    BY <2>1, <2>2, AfterOneMore
  <2>6. Handle(k, m) = k
    BY <2>2, <2>3, InTheLobby
  <2>7. Append(s, x) \in Seq(Clients)
    OBVIOUS
  <2> QED BY <2>1, <2>4, <2>5, <2>6, <2>7
<1> HIDE DEF G
<1>3. \A s \in Seq(Clients) : s \in G
  BY <1>1, <1>2, SeqInduction
<1> QED BY <1>3 DEF G

\* Nobody on s goes by the name of another.
Apart(s) == \A i, j \in 1 .. Len(s) : Name(s[i]) = Name(s[j]) => i = j

\* In the match, everybody who goes is taken off the list once.
LEMMA Going ==
    ASSUME room.name \in [Clients -> Names], NEW h \in Seq(Clients), Apart(h),
           NEW type \in {"OtherLeave", "GotHit"},
           NEW k \in ClientType, k.phase = "playing"
    PROVE  /\ After(k, Of(type, h)) \in ClientType
           /\ After(k, Of(type, h)).phase = "playing"
           /\ After(k, Of(type, h)).winner = k.winner
           /\ \A n : Count(After(k, Of(type, h)).list, n) =
                        IF n \in NamesOf(ToSet(h)) /\ Count(k.list, n) > 0
                        THEN Count(k.list, n) - 1 ELSE Count(k.list, n)
<1> DEFINE A(s) == After(k, Of(type, s))
           G == {s \in Seq(Clients) : Apart(s) =>
                    /\ A(s) \in ClientType
                    /\ A(s).phase = "playing"
                    /\ A(s).winner = k.winner
                    /\ \A n : Count(A(s).list, n) =
                                 IF n \in NamesOf(ToSet(s)) /\ Count(k.list, n) > 0
                                 THEN Count(k.list, n) - 1 ELSE Count(k.list, n)}
<1>1. <<>> \in G
  <2>1. A(<<>>) = k
    BY AfterNothing, OfNobody
  <2>2. NamesOf(ToSet(<<>>)) = {}
    BY DEF NamesOf, ToSet
  <2> HIDE DEF A
  <2> QED BY <2>1, <2>2
<1>2. ASSUME NEW s \in Seq(Clients), NEW x \in Clients, s \in G PROVE Append(s, x) \in G
  <2> DEFINE t == Append(s, x)
             u == Of(type, s)
             m == About(type, x)
  <2>1. /\ t \in Seq(Clients) /\ Len(t) = Len(s) + 1 /\ t[Len(s) + 1] = x /\ Len(s) \in Nat
        /\ \A i \in 1 .. Len(s) : t[i] = s[i]
    OBVIOUS
  <2>2. u \in Seq(Message) /\ Of(type, t) = Append(u, m) /\ m \in Message
    BY OfFacts, AboutIsMessage
  <2>3. A(t) = Handle(A(s), m)
    <3> HIDE DEF u, m
    <3>1. After(k, Append(u, m)) = Handle(After(k, u), m)
      BY <2>2, AfterOneMore
    <3> QED BY <2>2, <3>1 DEF u
  <2>4. m.type = type /\ m.name = Name(x)
    BY DEF About
  <2> SUFFICES ASSUME Apart(t)
               PROVE  /\ A(t) \in ClientType
                      /\ A(t).phase = "playing"
                      /\ A(t).winner = k.winner
                      /\ \A n : Count(A(t).list, n) =
                                   IF n \in NamesOf(ToSet(t)) /\ Count(k.list, n) > 0
                                   THEN Count(k.list, n) - 1 ELSE Count(k.list, n)
    BY <2>1 DEF t
  <2>5. Apart(s) /\ Name(x) \notin NamesOf(ToSet(s))
    <3>1. \A i \in 1 .. Len(s) : i \in 1 .. Len(t) /\ Len(s) + 1 \in 1 .. Len(t)
                                 /\ i # Len(s) + 1
      BY <2>1
    <3> QED BY <2>1, <3>1 DEF Apart, NamesOf, ToSet
  <2>6. NamesOf(ToSet(t)) = NamesOf(ToSet(s)) \cup {Name(x)}
    <3>1. ToSet(t) = ToSet(s) \cup {x}
      BY AppendFacts
    <3> QED BY <3>1 DEF NamesOf
  <2> DEFINE a == A(s)
             n0 == Name(x)
  <2>7. /\ a \in ClientType /\ a.phase = "playing" /\ a.winner = k.winner
        /\ \A n : Count(a.list, n) = IF n \in NamesOf(ToSet(s)) /\ Count(k.list, n) > 0
                                     THEN Count(k.list, n) - 1 ELSE Count(k.list, n)
    BY <1>2, <2>5
  <2> HIDE DEF A, m, t, a
  <2>8. /\ Handle(a, m) \in ClientType /\ Handle(a, m).phase = "playing"
        /\ Handle(a, m).winner = a.winner
        /\ Handle(a, m).list = Without(a.list, m.name)
    BY <2>2, <2>4, <2>7, InTheMatch
  <2> DEFINE l == a.list
  <2>9. l \in Seq(Names)
    BY <2>7 DEF ClientType
  <2> HIDE DEF l, n0
  <2>10. \A n : Count(Without(l, n0), n) =
                   IF n = n0 /\ Count(l, n) > 0 THEN Count(l, n) - 1 ELSE Count(l, n)
    BY <2>9, WithoutFacts
  <2>11. ASSUME NEW n
         PROVE  Count(Without(l, n0), n) =
                   IF n \in NamesOf(ToSet(t)) /\ Count(k.list, n) > 0
                   THEN Count(k.list, n) - 1 ELSE Count(k.list, n)
    <3>1. Count(l, n) = IF n \in NamesOf(ToSet(s)) /\ Count(k.list, n) > 0
                        THEN Count(k.list, n) - 1 ELSE Count(k.list, n)
      BY <2>7 DEF l
    <3>2. n0 \notin NamesOf(ToSet(s)) /\ NamesOf(ToSet(t)) = NamesOf(ToSet(s)) \cup {n0}
      BY <2>5, <2>6 DEF n0
    <3>3. CASE n = n0
      BY <2>10, <3>1, <3>2, <3>3
    <3>4. CASE n # n0
      BY <2>10, <3>1, <3>2, <3>4
    <3> QED BY <3>3, <3>4
  <2>12. A(t) = Handle(a, m) /\ m.name = n0
    BY <2>3, <2>4 DEF a, n0
  <2> QED BY <2>7, <2>8, <2>11, <2>12 DEF l
<1> HIDE DEF G
<1>3. \A s \in Seq(Clients) : s \in G
  BY <1>1, <1>2, SeqInduction
<1> QED BY <1>3 DEF G

-----------------------------------------------------------------------------
(* The invariant.                                                          *)

Unread(c) == queue[c] \o net[c]

\* Players of the room have names of their own; it empties once.
Orderly ==
    /\ Once(room.seats)
    /\ \A c, d \in Seated : Name(c) = Name(d) => c = d
    /\ Seated \subseteq room.answered
    /\ room.phase = "over" => room.seats = <<>>
    /\ room.phase = "waiting" => room.dead = {} /\ room.joined < MaxPlayers
    /\ room.phase # "over" => history.winner = {} /\ history.told = {}
    /\ history.told \subseteq room.answered
    /\ \A c \in Watched : history.early[c] \subseteq room.answered \ Seated

\* Nothing is sent to a client before the answer to its JOIN_ROOM.
Unanswered ==
    \A c \in Watched :
        /\ c \in room.answered => client[c].phase # "menu"
        /\ c \notin room.answered =>
              /\ queue[c] = <<>> /\ net[c] = <<>> /\ client[c].list = <<>>
              /\ client[c].phase \in {"menu", "waiting", "quit"}

\* Who is in the room will know whether the match has started.
InStep == \A c \in Present : Informed(c).phase = room.phase

\* The own name is the first that a client gets to know, and is taken off its
\* list only if the client has died.
Introduces(m, n) == \/ m.type = "Error"
                    \/ m.type = "WelcomeToRoom" /\ m.names # <<>> /\ Head(m.names) = n

TakesOff(m, n) == m.type \in {"OtherLeave", "GotHit"} /\ m.name = n

Introduced ==
    \A c \in Watched :
        /\ \A m \in ToSet(Unread(c)) : TakesOff(m, Name(c)) => c \in room.dead
        /\ c \in room.answered /\ client[c].phase = "waiting" /\ client[c].list = <<>> =>
              Unread(c) # <<>> /\ Introduces(Head(Unread(c)), Name(c))

Inv == /\ TypeOK /\ Orderly /\ Unanswered /\ InStep /\ Introduced
       /\ SelfFirst /\ RosterAgrees /\ WinnerKnown

\* What the type invariant says, part by part.
LEMMA Unpacked ==
    ASSUME TypeOK
    PROVE  /\ room.seats \in Seq(Clients) /\ room.dead \in SUBSET Clients
           /\ room.joined \in 0 .. MaxPlayers /\ room.answered \in SUBSET Clients
           /\ room.name \in [Clients -> Names]
           /\ room.phase \in {"waiting", "playing", "over"}
           /\ Seated \in SUBSET Clients
           /\ client \in [Watched -> ClientType]
           /\ net \in [Watched -> Seq(Message)] /\ queue \in [Watched -> Seq(Message)]
           /\ \A c \in Watched : Unread(c) \in Seq(Message) /\ client[c] \in ClientType
           /\ \A c \in Watched : Informed(c) \in ClientType
           /\ Watched \subseteq Clients /\ IsFiniteSet(Clients)
           /\ history.told \in SUBSET Clients /\ history.winner \in SUBSET Names
           /\ history.early \in [Watched -> SUBSET Clients]
<1>1. /\ room.seats \in Seq(Clients) /\ room.dead \in SUBSET Clients
      /\ room.joined \in 0 .. MaxPlayers /\ room.answered \in SUBSET Clients
      /\ room.name \in [Clients -> Names]
      /\ room.phase \in {"waiting", "playing", "over"}
      /\ history.told \in SUBSET Clients /\ history.winner \in SUBSET Names
      /\ history.early \in [Watched -> SUBSET Clients]
  BY DEF TypeOK
<1>2. Seated \in SUBSET Clients
  BY <1>1 DEF Seated, ToSet
<1>3. client \in [Watched -> ClientType] /\ net \in [Watched -> Seq(Message)]
  BY DEF TypeOK, ClientType
<1>4. queue \in [Watched -> Seq(Message)]
  <2>1. queue \in [Watched -> Seq(Message \ {[type |-> "Eof"]})]
    BY DEF TypeOK
  <2>2. Seq(Message \ {[type |-> "Eof"]}) \subseteq Seq(Message)
    BY SeqMonotonic
  <2> QED BY <2>1, <2>2
<1>5. ASSUME NEW c \in Watched
      PROVE  Unread(c) \in Seq(Message) /\ client[c] \in ClientType
             /\ Informed(c) \in ClientType
  <2>1. Unread(c) \in Seq(Message) /\ client[c] \in ClientType
    BY <1>3, <1>4 DEF Unread
  <2> DEFINE u == Unread(c)
             k == client[c]
  <2>2. Informed(c) = After(k, u)
    BY DEF Informed, Unread
  <2> HIDE DEF u, k
  <2>3. After(k, u) \in ClientType
    BY <2>1, AfterType DEF u, k
  <2> QED BY <2>1, <2>2, <2>3
<1> QED BY <1>1, <1>2, <1>3, <1>4, <1>5, RosterAssumption

\* What is sent is heard last.
LEMMA Delivery ==
    ASSUME TypeOK, NEW said \in [Watched -> Seq(Message)],
           net' = Sent(said), client' = client, queue' = queue
    PROVE  /\ net' \in [Watched -> Seq(Message)]
           /\ \A d \in Watched :
                 /\ client[d].phase # "quit" =>
                       /\ Informed(d)' = After(Informed(d), said[d])
                       /\ Unread(d)' = Unread(d) \o said[d]
                 /\ client[d].phase = "quit" => Unread(d)' = Unread(d)
                 /\ said[d] = <<>> => net'[d] = net[d] /\ Unread(d)' = Unread(d)
                                      /\ Informed(d)' = Informed(d)
<1>0. /\ net \in [Watched -> Seq(Message)] /\ queue \in [Watched -> Seq(Message)]
      /\ client \in [Watched -> ClientType]
  BY Unpacked
<1>1. \A d \in Watched : net[d] \o said[d] \in Seq(Message)
  BY <1>0
<1>2. /\ net' \in [Watched -> Seq(Message)]
      /\ \A d \in Watched : net'[d] = IF client[d].phase = "quit" THEN net[d]
                                      ELSE net[d] \o said[d]
  BY <1>0, <1>1 DEF Sent
<1>3. ASSUME NEW d \in Watched
      PROVE  /\ client[d].phase # "quit" =>
                   /\ Informed(d)' = After(Informed(d), said[d])
                   /\ Unread(d)' = Unread(d) \o said[d]
             /\ client[d].phase = "quit" => Unread(d)' = Unread(d)
             /\ said[d] = <<>> => net'[d] = net[d] /\ Unread(d)' = Unread(d)
                                  /\ Informed(d)' = Informed(d)
  <2> DEFINE q == queue[d]
             n == net[d]
             s == said[d]
             u == q \o n
             k == client[d]
  <2>1. q \in Seq(Message) /\ n \in Seq(Message) /\ s \in Seq(Message) /\ u \in Seq(Message)
    BY <1>0
  <2>2. /\ Informed(d) = After(k, u) /\ Unread(d) = u
        /\ Unread(d)' = q \o net'[d] /\ Informed(d)' = After(k, q \o net'[d])
    BY DEF Informed, Unread
  <2>3. net'[d] = IF k.phase = "quit" THEN n ELSE n \o s
    BY <1>2
  <2>4. u = q \o n
    OBVIOUS
  <2> HIDE DEF q, n, s, u, k
  <2>5. q \o (n \o s) = u \o s
    <3>1. \A x, y, z \in Seq(Message) : (x \o y) \o z = x \o (y \o z)
      BY Associative
    <3> QED BY <2>1, <2>4, <3>1, Zenon
  <2>6. After(k, u \o s) = After(After(k, u), s)
    BY <2>1, AfterConcat
  <2>7. k.phase # "quit" => Informed(d)' = After(Informed(d), s) /\ Unread(d)' = Unread(d) \o s
    BY <2>2, <2>3, <2>5, <2>6
  <2>8. k.phase = "quit" => Unread(d)' = Unread(d)
    BY <2>2, <2>3, <2>4
  <2>9. s = <<>> => net'[d] = n
    <3>1. n \o <<>> = n
      BY <2>1
    <3> QED BY <2>3, <3>1
  <2>10. s = <<>> => Unread(d)' = Unread(d) /\ Informed(d)' = Informed(d)
    BY <2>2, <2>4, <2>9
  <2> QED BY <2>7, <2>8, <2>9, <2>10 DEF s, k, n
<1> QED BY <1>2, <1>3

\* A client introduced to itself stays so, whatever else the room tells it.
LEMMA Telling ==
    ASSUME Inv, NEW said \in [Watched -> Seq(Message)],
           net' = Sent(said), client' = client, queue' = queue,
           room.name' = room.name, room.dead \subseteq room.dead',
           room.answered \subseteq room.answered',
           \A d \in Watched : d \notin room.answered' => said[d] = <<>>,
           \A d \in Watched : d \in room.answered' /\ d \notin room.answered =>
              /\ client[d].phase # "menu"
              /\ said[d] # <<>> /\ Introduces(Head(said[d]), Name(d)),
           \A d \in Watched : \A m \in ToSet(said[d]) :
              TakesOff(m, Name(d)) => d \in room.dead'
    PROVE  Unanswered' /\ Introduced' /\ SelfFirst'
<1>0. TypeOK /\ Unanswered /\ Introduced /\ SelfFirst
  BY DEF Inv
<1>1. \A d \in Watched :
         /\ client[d].phase # "quit" => Unread(d)' = Unread(d) \o said[d]
         /\ client[d].phase = "quit" => Unread(d)' = Unread(d)
         /\ said[d] = <<>> => net'[d] = net[d]
  BY <1>0, Delivery
<1>2. \A c : Name(c)' = Name(c)
  BY DEF Name
<1>3. Unanswered'
  <2> SUFFICES ASSUME NEW c \in Watched
               PROVE  /\ c \in room.answered' => client[c].phase # "menu"
                      /\ c \notin room.answered' =>
                            /\ queue[c] = <<>> /\ net'[c] = <<>> /\ client[c].list = <<>>
                            /\ client[c].phase \in {"menu", "waiting", "quit"}
    BY DEF Unanswered
  <2>1. CASE c \in room.answered'
    BY <1>0, <2>1 DEF Unanswered
  <2>2. CASE c \notin room.answered'
    <3>1. c \notin room.answered /\ net'[c] = net[c]
      BY <1>1, <2>2
    <3> QED BY <1>0, <2>2, <3>1 DEF Unanswered
  <2> QED BY <2>1, <2>2
<1>4. Introduced'
  <2> SUFFICES ASSUME NEW c \in Watched
               PROVE  /\ \A m \in ToSet(Unread(c)') : TakesOff(m, Name(c)) => c \in room.dead'
                      /\ c \in room.answered' /\ client[c].phase = "waiting"
                         /\ client[c].list = <<>> =>
                            Unread(c)' # <<>> /\ Introduces(Head(Unread(c)'), Name(c))
    BY <1>2 DEF Introduced
  <2> DEFINE u == Unread(c)
             s == said[c]
             v == Unread(c)'
  <2>1. u \in Seq(Message) /\ s \in Seq(Message)
    BY <1>0, Unpacked
  <2>2. /\ client[c].phase # "quit" => v = u \o s
        /\ client[c].phase = "quit" => v = u
    BY <1>1
  <2>3. /\ \A m \in ToSet(u) : TakesOff(m, Name(c)) => c \in room.dead'
        /\ \A m \in ToSet(s) : TakesOff(m, Name(c)) => c \in room.dead'
    BY <1>0 DEF Introduced
  <2>4. /\ c \in room.answered /\ client[c].phase = "waiting" /\ client[c].list = <<>> =>
              u # <<>> /\ Introduces(Head(u), Name(c))
        /\ c \in room.answered' /\ c \notin room.answered =>
              s # <<>> /\ Introduces(Head(s), Name(c)) /\ u = <<>>
    <3>1. c \notin room.answered => u = <<>>
      BY <1>0 DEF Unanswered, Unread
    <3> QED BY <1>0, <3>1 DEF Introduced
  <2> HIDE DEF u, s, v
  <2>5. /\ ToSet(u \o s) = ToSet(u) \cup ToSet(s)
        /\ u # <<>> => u \o s # <<>> /\ Head(u \o s) = Head(u)
        /\ u = <<>> => u \o s = s
    <3>1. ToSet(u \o s) = ToSet(u) \cup ToSet(s)
      BY <2>1, ConcatFacts
    <3> QED BY <2>1, <3>1
  <2>6. \A m \in ToSet(v) : TakesOff(m, Name(c)) => c \in room.dead'
    BY <2>2, <2>3, <2>5
  <2>7. c \in room.answered' /\ client[c].phase = "waiting" /\ client[c].list = <<>> =>
           v # <<>> /\ Introduces(Head(v), Name(c))
    BY <2>2, <2>4, <2>5
  <2> QED BY <2>6, <2>7 DEF v
<1>5. SelfFirst'
  BY <1>0, <1>2 DEF SelfFirst
<1> QED BY <1>3, <1>4, <1>5

\* Nobody is in a room whose match is over.
LEMMA Nobody ==
    ASSUME Orderly', room.phase' = "over"
    PROVE  Present' = {}
BY DEF Orderly, Present, Seated, ToSet

-----------------------------------------------------------------------------
(* The steps of a client.                                                  *)

\* A step of one client, after which it will know what it would have known.
LEMMA OneClient ==
    ASSUME Inv, TypeOK', UNCHANGED <<room, history>>, NEW c \in Watched,
           \A d \in Watched \ {c} :
              client'[d] = client[d] /\ queue'[d] = queue[d] /\ net'[d] = net[d],
           client'[c].phase # "menu",
           c \in room.answered /\ client'[c].phase # "quit" =>
              client[c].phase # "quit" /\ Alike(Informed(c)', Informed(c)),
           c \notin room.answered =>
              /\ queue'[c] = <<>> /\ net'[c] = <<>> /\ client'[c].list = <<>>
              /\ client'[c].phase \in {"menu", "waiting", "quit"},
           \A m \in ToSet(Unread(c)') : TakesOff(m, Name(c)) => c \in room.dead,
           c \in room.answered /\ client'[c].phase = "waiting" =>
              client'[c].list # <<>>,
           c \notin room.dead /\ client'[c].list # <<>> => Head(client'[c].list) = Name(c)
    PROVE  Inv'
<1>0. /\ TypeOK /\ Orderly /\ Unanswered /\ InStep /\ Introduced
      /\ SelfFirst /\ RosterAgrees /\ WinnerKnown
  BY DEF Inv
<1>1. room' = room /\ history' = history
  OBVIOUS
<1>2. /\ Seated' = Seated /\ Living' = Living
      /\ \A d : Name(d)' = Name(d)
  BY <1>1 DEF Seated, Living, Name
<1>3. \A d \in Watched \ {c} : Informed(d)' = Informed(d) /\ Unread(d)' = Unread(d)
  BY DEF Informed, Unread
<1>4. ASSUME NEW d \in Watched, d \in room.answered, client'[d].phase # "quit"
      PROVE  client[d].phase # "quit" /\ Alike(Informed(d)', Informed(d))
  BY <1>3, <1>4 DEF Alike
<1>5. \A d \in Present' : d \in Present /\ Alike(Informed(d)', Informed(d))
  <2>1. Seated \subseteq room.answered
    BY <1>0 DEF Orderly
  <2> QED BY <1>2, <1>4, <2>1 DEF Present
<1>6. Orderly'
  <2>1. \A d, e \in Seated : Name(d) = Name(e) => d = e
    BY <1>0 DEF Orderly
  <2>2. \A d \in Watched : history.early[d] \subseteq room.answered \ Seated
    BY <1>0 DEF Orderly
  <2> QED BY <1>0, <1>1, <1>2, <2>1, <2>2 DEF Orderly
<1>7. Unanswered'
  BY <1>0, <1>1 DEF Unanswered
<1>8. InStep'
  BY <1>0, <1>1, <1>5 DEF InStep, Alike
<1>9. Introduced'
  <2> SUFFICES ASSUME NEW d \in Watched
               PROVE  /\ \A m \in ToSet(Unread(d)') : TakesOff(m, Name(d)) => d \in room.dead
                      /\ d \in room.answered /\ client'[d].phase = "waiting"
                         /\ client'[d].list = <<>> =>
                            Unread(d)' # <<>> /\ Introduces(Head(Unread(d)'), Name(d))
    BY <1>1, <1>2 DEF Introduced
  <2>1. CASE d = c
    BY <2>1
  <2>2. CASE d # c
    <3>1. Unread(d)' = Unread(d) /\ client'[d] = client[d]
      BY <1>3, <2>2
    <3> QED BY <1>0, <3>1 DEF Introduced
  <2> QED BY <2>1, <2>2
<1>10. SelfFirst'
  BY <1>0, <1>1, <1>2 DEF SelfFirst
<1>11. RosterAgrees'
  <2> SUFFICES ASSUME NEW d \in Present', NEW n \in Names
               PROVE  /\ Cardinality({e \in Living : Name(e) = n})
                            <= Count(Informed(d)'.list, n)
                      /\ Count(Informed(d)'.list, n)
                            <= Cardinality({e \in Living : Name(e) = n})
                               + Cardinality({e \in history.early[d] : Name(e) = n})
    BY <1>1, <1>2 DEF RosterAgrees
  <2>1. d \in Present /\ Informed(d)'.list = Informed(d).list
    BY <1>5 DEF Alike
  <2> QED BY <1>0, <2>1 DEF RosterAgrees
<1>12. WinnerKnown'
  <2> SUFFICES ASSUME NEW d \in Watched \cap history.told, client'[d].phase # "quit"
               PROVE  Informed(d)'.winner = history.winner
    BY <1>1 DEF WinnerKnown
  <2>1. d \in room.answered
    BY <1>0 DEF Orderly
  <2>2. client[d].phase # "quit" /\ Informed(d)'.winner = Informed(d).winner
    BY <1>4, <2>1 DEF Alike
  <2> QED BY <1>0, <2>2 DEF WinnerKnown
<1> QED BY <1>6, <1>7, <1>8, <1>9, <1>10, <1>11, <1>12 DEF Inv

\* Leaving the menu for the waiting room.
LEMMA AskStep ==
    ASSUME Inv, NEW c \in Watched, Ask(c)
    PROVE  Inv'
<1>0. TypeOK /\ Unanswered
  BY DEF Inv
<1>1. /\ client[c].phase = "menu"
      /\ client' = [client EXCEPT ![c].phase = "waiting"]
      /\ room' = room /\ net' = net /\ queue' = queue /\ history' = history
  BY DEF Ask
<1>2. client \in [Watched -> ClientType]
  BY <1>0, Unpacked
<1>3. /\ client' \in [Watched -> ClientType]
      /\ client'[c].phase = "waiting" /\ client'[c].list = client[c].list
      /\ \A d \in Watched \ {c} : client'[d] = client[d]
  BY <1>1, <1>2 DEF ClientType
<1>4. c \notin room.answered /\ queue[c] = <<>> /\ net[c] = <<>> /\ client[c].list = <<>>
  BY <1>0, <1>1 DEF Unanswered
<1>5. Unread(c)' = <<>>
  BY <1>1, <1>4 DEF Unread
<1>6. \A m : m \notin ToSet(Unread(c)')
  BY <1>5 DEF ToSet
<1>7. TypeOK'
  BY <1>0, <1>1, <1>3 DEF TypeOK, ClientType
<1> QED BY <1>1, <1>3, <1>4, <1>6, <1>7, OneClient

\* The end of a process: its messages are nobody's business any more.
LEMMA QuitStep ==
    ASSUME Inv, NEW c \in Watched, Quit(c)
    PROVE  Inv'
<1>0. TypeOK /\ Unanswered /\ SelfFirst
  BY DEF Inv
<1>1. /\ client' = [client EXCEPT ![c].phase = "quit", ![c].draining = FALSE]
      /\ net' = [net EXCEPT ![c] = <<>>] /\ queue' = [queue EXCEPT ![c] = <<>>]
      /\ room' = room /\ history' = history
  BY DEF Quit
<1>2. client \in [Watched -> ClientType]
  BY <1>0, Unpacked
<1>3. /\ client' \in [Watched -> ClientType]
      /\ client'[c].phase = "quit" /\ client'[c].list = client[c].list
      /\ \A d \in Watched \ {c} : client'[d] = client[d]
  BY <1>1, <1>2 DEF ClientType
<1>4. /\ net' \in [Watched -> Seq(Message)]
      /\ queue' \in [Watched -> Seq(Message \ {[type |-> "Eof"]})]
      /\ net'[c] = <<>> /\ queue'[c] = <<>>
      /\ \A d \in Watched \ {c} : net'[d] = net[d] /\ queue'[d] = queue[d]
  BY <1>0, <1>1 DEF TypeOK
<1>5. \A m : m \notin ToSet(Unread(c)')
  BY <1>4 DEF Unread, ToSet
<1>6. TypeOK'
  BY <1>0, <1>1, <1>3, <1>4 DEF TypeOK, ClientType
<1>7. /\ c \notin room.answered => client[c].list = <<>>
      /\ c \notin room.dead /\ client[c].list # <<>> => Head(client[c].list) = Name(c)
  BY <1>0 DEF Unanswered, SelfFirst
<1> QED BY <1>1, <1>3, <1>4, <1>5, <1>6, <1>7, OneClient

\* The first of the messages that are read is handled, the others stay unread.
LEMMA Reading ==
    ASSUME NEW q \in Seq(Message), NEW t \in Seq(Message), NEW n \in 0 .. Len(t),
           q \o SubSeq(t, 1, n) # <<>>
    PROVE  LET read == q \o SubSeq(t, 1, n)
               rest == SubSeq(t, n + 1, Len(t))
           IN  /\ Head(read) \in Message /\ Tail(read) \in Seq(Message)
               /\ rest \in Seq(Message)
               /\ Tail(read) \o rest \in Seq(Message)
               /\ q \o t = <<Head(read)>> \o (Tail(read) \o rest)
<1> DEFINE a == SubSeq(t, 1, n)
           b == SubSeq(t, n + 1, Len(t))
           r == q \o a
           h == <<Head(r)>>
           l == Tail(r)
<1>1. a \in Seq(Message) /\ b \in Seq(Message)
  OBVIOUS
<1>2. t = a \o b
  <2>1. SubSeq(t, 1, n) \o SubSeq(t, n + 1, Len(t)) = SubSeq(t, 1, Len(t))
    <3>1. 1 \in 1 .. Len(t) + 1 /\ n \in 1 - 1 .. Len(t) /\ Len(t) \in n .. Len(t)
      OBVIOUS
    <3> QED BY <3>1, ConcatAdjacentSubSeq
  <2> QED BY <2>1, SubSeqFull
<1> HIDE DEF a, b
<1>3. r \in Seq(Message) /\ r # <<>>
  BY <1>1 DEF a
<1> HIDE DEF r
<1>4. /\ Head(r) \in Message /\ l \in Seq(Message) /\ h \in Seq(Message)
      /\ r = h \o l /\ h = <<Head(r)>>
  BY <1>3
<1> HIDE DEF h, l
<1>5. q \o (a \o b) = (q \o a) \o b
  <2>1. \A x, y, z \in Seq(Message) : (x \o y) \o z = x \o (y \o z)
    BY Associative
  <2> QED BY <1>1, <2>1, Zenon
<1>6. (h \o l) \o b = h \o (l \o b)
  <2>1. h \in Seq(Message) /\ l \in Seq(Message) /\ b \in Seq(Message)
    BY <1>1, <1>4
  <2>2. \A x, y, z \in Seq(Message) : (x \o y) \o z = x \o (y \o z)
    BY Associative
  <2> QED BY <2>1, <2>2, Zenon
<1>7. l \o b \in Seq(Message)
  BY <1>1, <1>4
<1>8. q \o t = h \o (l \o b)
  BY <1>2, <1>4, <1>5, <1>6 DEF r
<1> QED BY <1>1, <1>4, <1>7, <1>8 DEF a, b, r, l

\* What is left in inboundQueue holds no end of the stream.
LEMMA NoEofLater ==
    ASSUME NEW s \in Seq(Message), s # <<>>, \A i \in 2 .. Len(s) : s[i].type # "Eof"
    PROVE  Tail(s) \in Seq(Message \ {[type |-> "Eof"]})
<1>1. /\ Tail(s) \in Seq(Message) /\ Len(Tail(s)) = Len(s) - 1 /\ Len(s) \in Nat
      /\ \A i \in 1 .. Len(s) - 1 : Tail(s)[i] = s[i + 1]
  OBVIOUS
<1>2. \A i \in 1 .. Len(s) - 1 : i + 1 \in 2 .. Len(s)
  BY <1>1
<1> DEFINE u == Tail(s)
           T == Message \ {[type |-> "Eof"]}
<1>3. \A i \in 1 .. Len(u) : u[i] \in Message /\ u[i].type # "Eof"
  BY <1>1, <1>2
<1>4. \A m \in Message : m.type # "Eof" => m \in T
  OBVIOUS
<1>5. u \in Seq(Message)
  BY <1>1
<1> HIDE DEF u, T
<1>6. \A i \in 1 .. Len(u) : u[i] \in T
  BY <1>3, <1>4
<1>7. u \in Seq(T)
  BY <1>5, <1>6
<1> QED BY <1>7 DEF u, T

\* Handling a message changes nothing of what a client will know.
LEMMA ReceiveStep ==
    ASSUME Inv, NEW c \in Watched, Receive(c)
    PROVE  Inv'
<1>0. TypeOK /\ Unanswered /\ Introduced /\ SelfFirst
  BY DEF Inv
<1>1. /\ client \in [Watched -> ClientType] /\ client[c] \in ClientType
      /\ net \in [Watched -> Seq(Message)] /\ queue \in [Watched -> Seq(Message)]
      /\ queue \in [Watched -> Seq(Message \ {[type |-> "Eof"]})]
  BY <1>0, Unpacked DEF TypeOK
<1> DEFINE q == queue[c]
           t == net[c]
           k == client[c]
<1>2. /\ k.phase \in {"waiting", "playing"}
      /\ room' = room /\ history' = history
  BY DEF Receive
<1>3. q \in Seq(Message) /\ t \in Seq(Message) /\ Len(t) \in Nat
  BY <1>1
<1>4. PICK n \in Reads(c) :
         LET read == q \o SubSeq(t, 1, n)
             l    == Handle(k, Head(read))
         IN  /\ client' = [client EXCEPT ![c] = [l EXCEPT !.draining = Stays(k, Tail(read))]]
             /\ queue' = [queue EXCEPT ![c] = Tail(read)]
             /\ net' = [net EXCEPT ![c] = SubSeq(t, n + 1, Len(t))]
  BY <1>1 DEF Receive
<1> DEFINE read == q \o SubSeq(t, 1, n)
           rest == SubSeq(t, n + 1, Len(t))
           m == Head(read)
           l == Handle(k, m)
           b == Stays(k, Tail(read))
           u == Tail(read) \o rest
<1>5. /\ n \in 0 .. Len(t)
      /\ q # <<>> => n = 0
      /\ q = <<>> => n >= 1 /\ \A i \in 2 .. n : t[i].type # "Eof"
  BY <1>3 DEF Reads
<1>6. read # <<>>
  <2>1. CASE q = <<>>
    <3>1. n >= 1 /\ Len(SubSeq(t, 1, n)) = n
      BY <1>3, <1>5, <2>1
    <3>2. SubSeq(t, 1, n) # <<>> /\ SubSeq(t, 1, n) \in Seq(Message)
      BY <1>3, <1>5, <3>1
    <3> QED BY <2>1, <3>2
  <2>2. CASE q # <<>>
    <3>1. SubSeq(t, 1, n) \in Seq(Message)
      BY <1>3, <1>5
    <3> QED BY <1>3, <2>2, <3>1
  <2> QED BY <2>1, <2>2
<1>7. /\ m \in Message /\ Tail(read) \in Seq(Message) /\ rest \in Seq(Message)
      /\ u \in Seq(Message) /\ q \o t = <<m>> \o u
  BY <1>3, <1>5, <1>6, Reading
<1>8. Tail(read) \in Seq(Message \ {[type |-> "Eof"]})
  <2>1. read \in Seq(Message)
    BY <1>3, <1>5
  <2>2. \A i \in 2 .. Len(read) : read[i].type # "Eof"
    <3>1. CASE q = <<>>
      <4>1. /\ Len(SubSeq(t, 1, n)) = n /\ \A i \in 1 .. n : SubSeq(t, 1, n)[i] = t[i]
            /\ SubSeq(t, 1, n) \in Seq(Message)
        BY <1>3, <1>5
      <4>2. read = SubSeq(t, 1, n)
        BY <3>1, <4>1
      <4> HIDE DEF read
      <4>3. \A i \in 2 .. n : i \in 1 .. n
        OBVIOUS
      <4> QED BY <1>5, <3>1, <4>1, <4>2, <4>3
    <3>2. CASE q # <<>>
      <4>1. n = 0 /\ SubSeq(t, 1, n) = <<>>
        BY <1>3, <1>5, <3>2
      <4>2. read = q
        BY <1>3, <4>1
      <4>3. \A i \in 1 .. Len(q) : q[i] \in Message \ {[type |-> "Eof"]}
        BY <1>1
      <4>4. \A w \in Message : w.type = "Eof" => w = [type |-> "Eof"]
        BY DEF Message
      <4> HIDE DEF q, read
      <4> QED BY <1>3, <4>2, <4>3, <4>4
    <3> QED BY <3>1, <3>2
  <2> HIDE DEF read
  <2> QED BY <1>6, <2>1, <2>2, NoEofLater
<1>9. l \in ClientType /\ b \in BOOLEAN /\ k \in ClientType
  <2>1. k \in ClientType
    BY <1>1
  <2> HIDE DEF k, m
  <2> QED BY <1>7, <2>1, HandleType DEF Stays
<1>10. /\ client'[c] = [l EXCEPT !.draining = b]
       /\ queue'[c] = Tail(read) /\ net'[c] = rest
       /\ \A d \in Watched \ {c} :
             client'[d] = client[d] /\ queue'[d] = queue[d] /\ net'[d] = net[d]
  BY <1>1, <1>4
<1>11. [l EXCEPT !.draining = b] \in ClientType /\ Alike([l EXCEPT !.draining = b], l)
  <2> HIDE DEF l, b
  <2> QED BY <1>9 DEF ClientType, Alike
<1>12. TypeOK'
  <2>1. /\ client' = [client EXCEPT ![c] = [l EXCEPT !.draining = b]]
        /\ queue' = [queue EXCEPT ![c] = Tail(read)]
        /\ net' = [net EXCEPT ![c] = rest]
    BY <1>4
  <2> HIDE DEF l, b, read, rest
  <2>2. /\ client' \in [Watched -> ClientType] /\ net' \in [Watched -> Seq(Message)]
        /\ queue' \in [Watched -> Seq(Message \ {[type |-> "Eof"]})]
    BY <1>1, <1>7, <1>8, <1>11, <2>1
  <2> QED BY <1>0, <1>2, <2>2 DEF TypeOK, ClientType
<1>13. Unread(c)' = u /\ Unread(c) = <<m>> \o u
  BY <1>7, <1>10 DEF Unread
<1>14. Alike(Informed(c)', Informed(c))
  <2> DEFINE x == client'[c]
  <2>1. Informed(c)' = After(x, u)
    BY <1>13 DEF Informed, Unread
  <2>2. Informed(c) = After(k, <<m>> \o u)
    BY <1>13 DEF Informed, Unread
  <2>3. x \in ClientType /\ Alike(x, l)
    BY <1>10, <1>11
  <2>4. l = Handle(k, m)
    OBVIOUS
  <2> HIDE DEF x, l, u, m, k
  <2>5. Alike(After(x, u), After(l, u))
    BY <1>7, <1>9, <2>3, AfterAlike
  <2>6. After(k, <<m>> \o u) = After(Handle(k, m), u)
    BY <1>7, AfterFront
  <2> QED BY <2>1, <2>2, <2>4, <2>5, <2>6
<1>15. c \in room.answered
  <2>1. <<m>> \o u # <<>>
    BY <1>7
  <2>2. Unread(c) # <<>>
    BY <1>13, <2>1
  <2> QED BY <1>0, <2>2 DEF Unanswered, Unread
<1>16. /\ ToSet(Unread(c)) = {m} \cup ToSet(u)
       /\ Head(Unread(c)) = m
  <2> DEFINE s == <<m>>
  <2>1. s \in Seq(Message) /\ ToSet(s) = {m} /\ Head(s \o u) = m
    BY <1>7 DEF ToSet
  <2>2. Unread(c) = s \o u
    BY <1>13
  <2> HIDE DEF s, u
  <2>3. ToSet(s \o u) = ToSet(s) \cup ToSet(u)
    BY <1>7, <2>1, ConcatFacts
  <2> QED BY <2>1, <2>2, <2>3
<1>17. /\ TakesOff(m, Name(c)) => c \in room.dead
       /\ \A w \in ToSet(u) : TakesOff(w, Name(c)) => c \in room.dead
       /\ k.phase = "waiting" /\ k.list = <<>> => Introduces(m, Name(c))
       /\ c \notin room.dead /\ k.list # <<>> => Head(k.list) = Name(c)
  BY <1>0, <1>15, <1>16 DEF Introduced, SelfFirst
<1>18. /\ l.phase # "menu" /\ l.phase # "quit" /\ k.phase # "quit"
       /\ l.phase = "waiting" => l.list # <<>>
       /\ c \notin room.dead /\ l.list # <<>> => Head(l.list) = Name(c)
  <2>1. k.list \in Seq(Names) /\ l = Handle(k, m)
    BY <1>9 DEF ClientType
  <2> HIDE DEF k, l, m
  <2>2. CASE k.phase = "waiting"
    <3>1. /\ l.phase = IF m.type = "Eof" THEN "exited"
                       ELSE IF m.type = "GameStart" THEN "playing"
                       ELSE IF m.type = "Error" THEN "stuck" ELSE "waiting"
          /\ l.list = IF m.type = "WelcomeToRoom" THEN k.list \o m.names
                      ELSE IF m.type = "GameJoin" THEN Append(k.list, m.name)
                      ELSE k.list
      BY <1>7, <1>9, <2>1, <2>2, InTheLobby
    <3>2. CASE k.list = <<>>
      <4>1. CASE m.type = "Error"
        BY <2>2, <3>1, <3>2, <4>1
      <4>2. CASE m.type = "WelcomeToRoom" /\ m.names # <<>> /\ Head(m.names) = Name(c)
        <5>1. m.names \in Seq(Names) /\ k.list \o m.names = m.names
          BY <1>7, <3>2, <4>2, MessageForms
        <5>2. l.list = m.names /\ l.phase = "waiting"
          BY <3>1, <4>2, <5>1
        <5> QED BY <2>2, <4>2, <5>2
      <4> QED BY <1>17, <2>2, <3>2, <4>1, <4>2 DEF Introduces
    <3>3. CASE k.list # <<>>
      <4>1. l.list # <<>> /\ Head(l.list) = Head(k.list)
        <5>1. CASE m.type = "WelcomeToRoom"
          <6>1. m.names \in Seq(Names)
            BY <1>7, <5>1, MessageForms
          <6>2. k.list \o m.names # <<>> /\ Head(k.list \o m.names) = Head(k.list)
            <7> DEFINE s == k.list
                       x == m.names
            <7>1. s \in Seq(Names) /\ s # <<>> /\ x \in Seq(Names)
              BY <2>1, <3>3, <6>1
            <7> HIDE DEF s, x
            <7>2. s \o x # <<>> /\ Head(s \o x) = Head(s)
              BY <7>1
            <7> QED BY <7>2 DEF s, x
          <6> QED BY <3>1, <5>1, <6>2
        <5>2. CASE m.type = "GameJoin"
          <6>1. Append(k.list, m.name) # <<>> /\ Head(Append(k.list, m.name)) = Head(k.list)
            BY <2>1, <3>3
          <6> QED BY <3>1, <5>2, <6>1
        <5>3. CASE m.type \notin {"WelcomeToRoom", "GameJoin"}
          BY <3>1, <3>3, <5>3
        <5> QED BY <5>1, <5>2, <5>3
      <4> QED BY <1>17, <2>2, <3>1, <3>3, <4>1
    <3> QED BY <3>2, <3>3
  <2>3. CASE k.phase = "playing"
    <3>1. /\ l.phase = IF m.type = "Eof" THEN "exited" ELSE "playing"
          /\ l.list = IF m.type \in {"OtherLeave", "GotHit"}
                      THEN Without(k.list, m.name) ELSE k.list
      BY <1>7, <1>9, <2>1, <2>3, InTheMatch
    <3>2. CASE m.type \in {"OtherLeave", "GotHit"} /\ k.list # <<>> /\ c \notin room.dead
      <4> DEFINE s == k.list
                 x == m.name
      <4>1. s \in Seq(Names) /\ s # <<>> /\ Head(s) = Name(c) /\ x # Name(c)
        BY <1>17, <2>1, <3>2 DEF TakesOff
      <4> HIDE DEF s, x
      <4>2. Head(Without(s, x)) = Head(s)
        BY <4>1, WithoutFacts
      <4>3. l.list = Without(s, x)
        BY <3>1, <3>2 DEF s, x
      <4> QED BY <2>3, <3>1, <4>1, <4>2, <4>3
    <3>3. CASE m.type \in {"OtherLeave", "GotHit"} /\ k.list = <<>>
      <4> DEFINE s == k.list
                 x == m.name
      <4>1. s \in Seq(Names) /\ s = <<>>
        BY <2>1, <3>3
      <4> HIDE DEF s, x
      <4>2. Without(s, x) = <<>>
        BY <4>1, WithoutFacts
      <4>3. l.list = Without(s, x)
        BY <3>1, <3>3 DEF s, x
      <4> QED BY <2>3, <3>1, <4>2, <4>3
    <3>4. CASE m.type \notin {"OtherLeave", "GotHit"} \/ c \in room.dead
      BY <1>17, <2>3, <3>1, <3>4
    <3> QED BY <3>2, <3>3, <3>4
  <2> QED BY <1>2, <2>2, <2>3
<1>19. client'[c].phase = l.phase /\ client'[c].list = l.list
  BY <1>10, <1>11 DEF Alike
<1>20. \A w \in ToSet(Unread(c)') : TakesOff(w, Name(c)) => c \in room.dead
  BY <1>13, <1>17
<1> HIDE DEF q, t, l, m, u, read, rest, b
<1> QED BY <1>2, <1>10, <1>12, <1>14, <1>15, <1>18, <1>19, <1>20, OneClient

-----------------------------------------------------------------------------
(* JOIN_ROOM.                                                              *)

\* The answer to a JOIN_ROOM that is refused is the first message there is.
LEMMA RefuseStep ==
    ASSUME Inv, NEW c \in Clients, Refuse(c)
    PROVE  Inv'
<1>0. /\ TypeOK /\ Orderly /\ Unanswered /\ InStep /\ Introduced
      /\ SelfFirst /\ RosterAgrees /\ WinnerKnown
  BY DEF Inv
<1> DEFINE said == [d \in Watched |->
               IF d # c THEN <<>>
               ELSE IF CanJoin(c) THEN <<[type |-> "Error"], [type |-> "Eof"]>>
               ELSE <<[type |-> "Error"]>>]
<1>1. /\ c \in Watched /\ c \notin room.answered /\ client[c].phase # "menu"
      /\ room' = [room EXCEPT !.answered = @ \cup {c}]
      /\ net' = Sent(said)
      /\ client' = client /\ queue' = queue /\ history' = history
  BY DEF Refuse, Asks
<1>2. room.answered \in SUBSET Clients
  BY <1>0, Unpacked
<1>3. /\ room'.answered = room.answered \cup {c}
      /\ room'.seats = room.seats /\ room'.dead = room.dead /\ room'.name = room.name
      /\ room'.phase = room.phase /\ room'.joined = room.joined
  BY <1>0, <1>1 DEF TypeOK
<1>4. /\ Seated' = Seated /\ Living' = Living
      /\ \A d : Name(d)' = Name(d)
  BY <1>3 DEF Seated, Living, Name
<1>5. [type |-> "Error"] \in Message /\ [type |-> "Eof"] \in Message
  BY DEF Message
<1>6. /\ said \in [Watched -> Seq(Message)]
      /\ \A d \in Watched : d # c => said[d] = <<>>
      /\ said[c] # <<>> /\ Head(said[c]) = [type |-> "Error"]
      /\ \A m \in ToSet(said[c]) : m \in {[type |-> "Error"], [type |-> "Eof"]}
  <2>1. \A d \in Watched : said[d] \in Seq(Message)
    BY <1>5
  <2>2. said \in [Watched -> Seq(Message)]
    BY <2>1
  <2>3. /\ said[c] # <<>> /\ Head(said[c]) = [type |-> "Error"]
        /\ \A m \in ToSet(said[c]) : m \in {[type |-> "Error"], [type |-> "Eof"]}
    BY <1>1 DEF ToSet
  <2> QED BY <2>2, <2>3
<1> HIDE DEF said
<1>7. /\ net' \in [Watched -> Seq(Message)]
      /\ \A d \in Watched : d # c => Informed(d)' = Informed(d)
  BY <1>0, <1>1, <1>6, Delivery
<1>8. TypeOK'
  BY <1>0, <1>1, <1>2, <1>7 DEF TypeOK
<1>9. Orderly'
  BY <1>0, <1>1, <1>3, <1>4 DEF Orderly
<1>10. Unanswered' /\ Introduced' /\ SelfFirst'
  <2>1. \A d \in Watched : d \notin room.answered' => said[d] = <<>>
    BY <1>3, <1>6
  <2>2. \A d \in Watched : d \in room.answered' /\ d \notin room.answered =>
              /\ client[d].phase # "menu"
              /\ said[d] # <<>> /\ Introduces(Head(said[d]), Name(d))
    BY <1>1, <1>3, <1>6 DEF Introduces
  <2>3. \A d \in Watched : \A m \in ToSet(said[d]) :
              TakesOff(m, Name(d)) => d \in room.dead'
    <3>1. \A m : m \notin ToSet(<<>>)
      BY DEF ToSet
    <3> QED BY <1>6, <3>1 DEF TakesOff
  <2>4. /\ room.name' = room.name /\ room.dead \subseteq room.dead'
        /\ room.answered \subseteq room.answered'
    BY <1>3
  <2> QED BY <1>1, <1>6, <2>1, <2>2, <2>3, <2>4, Telling
<1>11. c \notin Seated /\ c \notin history.told
  BY <1>0, <1>1 DEF Orderly
<1>12. /\ Present' = Present
       /\ \A d \in Present : d \in Watched /\ Informed(d)' = Informed(d)
  BY <1>1, <1>4, <1>7, <1>11 DEF Present
<1>13. InStep'
  BY <1>0, <1>3, <1>12 DEF InStep
<1>14. RosterAgrees'
  BY <1>0, <1>1, <1>4, <1>12 DEF RosterAgrees
<1>15. WinnerKnown'
  BY <1>0, <1>1, <1>7, <1>11 DEF WinnerKnown
<1> QED BY <1>8, <1>9, <1>10, <1>13, <1>14, <1>15 DEF Inv

\* A client that waits hears who is in the room, and perhaps the start.
LEMMA Greeting ==
    ASSUME NEW k \in ClientType, k.phase = "waiting", NEW m \in Message,
           m.type \in {"WelcomeToRoom", "GameJoin"},
           NEW g, g = <<>> \/ g = <<[type |-> "GameStart"]>>
    PROVE  /\ <<m>> \o g \in Seq(Message) /\ <<m>> \o g # <<>> /\ Head(<<m>> \o g) = m
           /\ \A w \in ToSet(<<m>> \o g) : w = m \/ w = [type |-> "GameStart"]
           /\ After(k, <<m>> \o g).list = Handle(k, m).list
           /\ After(k, <<m>> \o g).winner = k.winner
           /\ After(k, <<m>> \o g).phase = IF g = <<>> THEN "waiting" ELSE "playing"
<1> DEFINE s == [type |-> "GameStart"]
           l == Handle(k, m)
<1>1. s \in Message /\ g \in Seq(Message)
  <2>1. s \in Message
    BY DEF Message
  <2>2. g = <<>> \/ g = <<s>>
    OBVIOUS
  <2> HIDE DEF s
  <2>3. <<>> \in Seq(Message) /\ <<s>> \in Seq(Message)
    BY <2>1
  <2> QED BY <2>1, <2>2, <2>3, Zenon
<1>2. /\ l \in ClientType /\ l.phase = "waiting" /\ l.winner = k.winner
  BY InTheLobby
<1>3. After(k, <<m>> \o g) = After(l, g)
  BY <1>1, AfterFront
<1>4. /\ <<m>> \o g \in Seq(Message) /\ <<m>> \o g # <<>> /\ Head(<<m>> \o g) = m
      /\ \A w \in ToSet(<<m>> \o g) : w = m \/ w = s
  BY <1>1 DEF ToSet
<1>5. CASE g = <<>>
  <2>1. After(l, g) = l
    BY <1>5, AfterNothing
  <2> QED BY <1>2, <1>3, <1>4, <1>5, <2>1
<1>6. CASE g = <<s>>
  <2>1. s.type = "GameStart"
    OBVIOUS
  <2>2. After(l, g) = Handle(l, s) /\ g # <<>>
    BY <1>1, <1>6, AfterOne
  <2> HIDE DEF l, s
  <2>3. /\ Handle(l, s).phase = "playing" /\ Handle(l, s).list = l.list
        /\ Handle(l, s).winner = l.winner
    BY <1>1, <1>2, <2>1, InTheLobby
  <2> QED BY <1>2, <1>3, <1>4, <2>2, <2>3 DEF l, s
<1> QED BY <1>5, <1>6

\* Those of C that go by the name n.
Bearing(C, n) == {d \in C : Name(d) = n}

NamesIn(s) == [i \in 1 .. Len(s) |-> Name(s[i])]

\* One more player, one more bearer of his name.
LEMMA BearingFacts ==
    ASSUME NEW C \in SUBSET Clients, NEW n
    PROVE  /\ Cardinality(Bearing(C, n)) \in Nat
           /\ \A c : c \notin C => Cardinality(Bearing(C \cup {c}, n)) =
                        Cardinality(Bearing(C, n)) + IF Name(c) = n THEN 1 ELSE 0
<1>1. IsFiniteSet(Bearing(C, n))
  <2>1. Bearing(C, n) \in SUBSET Clients
    BY DEF Bearing
  <2> QED BY <2>1, FS_Subset, RosterAssumption
<1>2. Cardinality(Bearing(C, n)) \in Nat
  BY <1>1, FS_CardinalityType
<1>3. ASSUME NEW c, c \notin C
      PROVE  Cardinality(Bearing(C \cup {c}, n)) =
                Cardinality(Bearing(C, n)) + IF Name(c) = n THEN 1 ELSE 0
  <2>1. CASE Name(c) = n
    <3>1. Bearing(C \cup {c}, n) = Bearing(C, n) \cup {c} /\ c \notin Bearing(C, n)
      BY <1>3, <2>1 DEF Bearing
    <3>2. Cardinality(Bearing(C, n) \cup {c}) = Cardinality(Bearing(C, n)) + 1
      <4> DEFINE B == Bearing(C, n)
      <4>1. IsFiniteSet(B) /\ c \notin B
        BY <1>1, <3>1
      <4> HIDE DEF B
      <4>2. Cardinality(B \cup {c}) = Cardinality(B) + 1
        BY <4>1, FS_AddElement
      <4> QED BY <4>2 DEF B
    <3> QED BY <2>1, <3>1, <3>2
  <2>2. CASE Name(c) # n
    <3>1. Bearing(C \cup {c}, n) = Bearing(C, n)
      BY <2>2 DEF Bearing
    <3> QED BY <1>2, <2>2, <3>1
  <2> QED BY <2>1, <2>2
<1> QED BY <1>2, <1>3

\* The list that is sent has every player once.
LEMMA ListIsRoom ==
    ASSUME room.name \in [Clients -> Names], NEW t \in Seq(Clients), Once(t), NEW n
    PROVE  /\ NamesIn(t) \in Seq(Names) /\ Len(NamesIn(t)) = Len(t)
           /\ Count(NamesIn(t), n) = Cardinality(Bearing(ToSet(t), n))
<1>1. ASSUME NEW s \in Seq(Clients)
      PROVE  NamesIn(s) \in Seq(Names) /\ Len(NamesIn(s)) = Len(s)
  <2>1. Len(s) \in Nat /\ \A i \in 1 .. Len(s) : Name(s[i]) \in Names
    BY DEF Name
  <2> QED BY <2>1 DEF NamesIn
<1> DEFINE G == {s \in Seq(Clients) :
                    Once(s) => Count(NamesIn(s), n) = Cardinality(Bearing(ToSet(s), n))}
<1>2. <<>> \in G
  <2>1. NamesIn(<<>>) = <<>> /\ Bearing(ToSet(<<>>), n) = {}
    BY DEF NamesIn, Bearing, ToSet
  <2>2. Count(NamesIn(<<>>), n) = 0
    BY <2>1, CountNothing
  <2>3. Cardinality(Bearing(ToSet(<<>>), n)) = 0
    BY <2>1, FS_EmptySet
  <2> QED BY <2>2, <2>3
<1>3. ASSUME NEW s \in Seq(Clients), NEW x \in Clients, s \in G PROVE Append(s, x) \in G
  <2> DEFINE u == Append(s, x)
  <2>1. /\ u \in Seq(Clients) /\ Len(u) = Len(s) + 1 /\ u[Len(s) + 1] = x /\ Len(s) \in Nat
        /\ \A i \in 1 .. Len(s) : u[i] = s[i]
    OBVIOUS
  <2>2. ToSet(u) = ToSet(s) \cup {x}
    BY AppendFacts
  <2>3. NamesIn(u) = Append(NamesIn(s), Name(x))
    <3> DEFINE a == NamesIn(u)
               b == Append(NamesIn(s), Name(x))
    <3>1. a \in Seq(Names) /\ Len(a) = Len(s) + 1
      BY <1>1, <2>1
    <3>2. \A i \in 1 .. Len(s) + 1 : a[i] = Name(u[i])
      BY <2>1 DEF NamesIn
    <3>3. /\ NamesIn(s) \in Seq(Names) /\ Len(NamesIn(s)) = Len(s) /\ Name(x) \in Names
          /\ \A i \in 1 .. Len(s) : NamesIn(s)[i] = Name(s[i])
      BY <1>1 DEF NamesIn, Name
    <3>4. /\ b \in Seq(Names) /\ Len(b) = Len(s) + 1 /\ b[Len(s) + 1] = Name(x)
          /\ \A i \in 1 .. Len(s) : b[i] = Name(s[i])
      BY <3>3
    <3> HIDE DEF a, b, u
    <3>5. ASSUME NEW i \in 1 .. Len(a) PROVE a[i] = b[i]
      <4>1. i \in 1 .. Len(s) \/ i = Len(s) + 1
        BY <2>1, <3>1
      <4>2. i \in 1 .. Len(s) + 1
        BY <3>1
      <4> QED BY <2>1, <3>2, <3>4, <4>1, <4>2
    <3>6. a = b
      BY <3>1, <3>4, <3>5, SeqEqual
    <3> QED BY <3>6 DEF a, b
  <2> HIDE DEF u
  <2>4. ASSUME Once(u)
        PROVE  Count(NamesIn(u), n) = Cardinality(Bearing(ToSet(u), n))
    <3>1. Once(s) /\ x \notin ToSet(s)
      <4>1. \A i \in 1 .. Len(s) : i \in 1 .. Len(u) /\ Len(s) + 1 \in 1 .. Len(u)
                                   /\ i # Len(s) + 1
        BY <2>1
      <4> QED BY <2>1, <2>4, <4>1 DEF Once, ToSet
    <3>2. Count(NamesIn(s), n) = Cardinality(Bearing(ToSet(s), n))
      BY <1>3, <3>1
    <3> DEFINE l == NamesIn(s)
               y == Name(x)
    <3>3. l \in Seq(Names) /\ y \in Names
      BY <1>1 DEF Name
    <3> HIDE DEF l, y
    <3>4. Count(Append(l, y), n) = Count(l, n) + IF n = y THEN 1 ELSE 0
      BY <3>3, CountAppend
    <3> DEFINE C == ToSet(s)
    <3>5. C \in SUBSET Clients /\ x \notin C
      BY <3>1 DEF ToSet
    <3> HIDE DEF C
    <3>6. Cardinality(Bearing(C \cup {x}, n)) =
             Cardinality(Bearing(C, n)) + IF Name(x) = n THEN 1 ELSE 0
      BY <3>5, BearingFacts
    <3> QED BY <2>2, <2>3, <3>2, <3>4, <3>6 DEF l, y, C
  <2> QED BY <2>1, <2>4 DEF u
<1> HIDE DEF G
<1>4. \A s \in Seq(Clients) : s \in G
  BY <1>2, <1>3, SeqInduction
<1> QED BY <1>1, <1>4 DEF G

\* The newcomer is at the front, and everybody once.
LEMMA WelcomeFacts ==
    ASSUME TypeOK, Orderly, NEW c \in Clients, c \notin Seated
    PROVE  /\ Welcome(c) \in Seq(Clients) /\ Welcome(c) # <<>> /\ Head(Welcome(c)) = c
           /\ ToSet(Welcome(c)) = Seated \cup {c} /\ Once(Welcome(c))
<1> DEFINE s == room.seats
           w == Welcome(c)
<1>1. s \in Seq(Clients) /\ Once(s) /\ Seated = ToSet(s)
  BY Unpacked DEF Orderly, Seated
<1>2. w = <<c>> \o s
  BY DEF Welcome
<1> HIDE DEF s, w
<1>3. /\ w \in Seq(Clients) /\ Len(w) = Len(s) + 1 /\ w[1] = c /\ Len(s) \in Nat
      /\ \A i \in 2 .. Len(w) : w[i] = s[i - 1] /\ i - 1 \in 1 .. Len(s)
      /\ w # <<>> /\ Head(w) = c
  BY <1>1, <1>2
<1>4. ToSet(w) = Seated \cup {c}
  <2> DEFINE a == <<c>>
  <2>1. a \in Seq(Clients) /\ ToSet(a) = {c}
    BY DEF ToSet
  <2> HIDE DEF a
  <2>2. ToSet(a \o s) = ToSet(a) \cup ToSet(s)
    BY <1>1, <2>1, ConcatFacts
  <2> QED BY <1>1, <1>2, <2>1, <2>2 DEF a
<1>5. Once(w)
  <2> SUFFICES ASSUME NEW i \in 1 .. Len(w), NEW j \in 1 .. Len(w), w[i] = w[j]
               PROVE  i = j
    BY DEF Once
  <2>1. c \notin ToSet(s) /\ DOMAIN s = 1 .. Len(s)
    BY <1>1
  <2>2. \A n \in 2 .. Len(w) : w[n] # c
    BY <1>3, <2>1 DEF ToSet
  <2>3. \A n \in 1 .. Len(w) : n = 1 \/ n \in 2 .. Len(w)
    BY <1>3
  <2>4. CASE i = 1 \/ j = 1
    BY <1>3, <2>2, <2>3, <2>4
  <2>5. CASE i # 1 /\ j # 1
    <3>1. i - 1 \in 1 .. Len(s) /\ j - 1 \in 1 .. Len(s) /\ s[i - 1] = s[j - 1]
      BY <1>3, <2>3, <2>5
    <3>2. i - 1 = j - 1
      BY <1>1, <3>1 DEF Once
    <3> QED BY <1>3, <3>2
  <2> QED BY <2>4, <2>5
<1> QED BY <1>3, <1>4, <1>5 DEF w

\* A newcomer learns who is there, and they learn of him.
LEMMA JoinStep ==
    ASSUME Inv, NEW c \in Clients, JoinPlayer(c)
    PROVE  Inv'
<1>0. /\ TypeOK /\ Orderly /\ Unanswered /\ InStep /\ Introduced
      /\ SelfFirst /\ RosterAgrees /\ WinnerKnown
  BY DEF Inv
<1> DEFINE start == IF Starts THEN <<[type |-> "GameStart"]>> ELSE <<>>
           hello == [type |-> "WelcomeToRoom",
                     names |-> [i \in 1 .. Len(Welcome(c)) |-> Name(Welcome(c)[i])]]
           come  == About("GameJoin", c)
           said  == [d \in Watched |->
               (IF d = c THEN <<hello>>
                ELSE IF d \in Seated THEN Of("GameJoin", <<c>>) ELSE <<>>)
               \o IF Starts /\ d \in Seated \cup {c}
                  THEN <<[type |-> "GameStart"]>> ELSE <<>>]
<1>1. /\ c \notin room.answered /\ (c \in Watched => client[c].phase # "menu")
      /\ Name(c) \notin NamesOf(Seated) /\ room.joined < MaxPlayers
      /\ room.phase = "waiting"
      /\ room' = [room EXCEPT !.seats = Welcome(c), !.joined = @ + 1,
                              !.answered = @ \cup {c},
                              !.phase = IF Starts THEN "playing" ELSE @]
      /\ net' = Sent(said)
      /\ client' = client /\ queue' = queue /\ history' = history
  BY DEF JoinPlayer, Asks, CanJoin
<1>2. /\ room.answered \in SUBSET Clients /\ room.name \in [Clients -> Names]
      /\ room.joined \in 0 .. MaxPlayers /\ MaxPlayers \in Nat /\ room.dead = {}
      /\ Seated \in SUBSET Clients /\ c \notin Seated
  BY <1>0, <1>1, Unpacked, RosterAssumption DEF Orderly
<1>3. /\ room'.answered = room.answered \cup {c}
      /\ room'.seats = Welcome(c) /\ room'.dead = room.dead /\ room'.name = room.name
      /\ room'.phase = (IF Starts THEN "playing" ELSE "waiting")
      /\ room'.joined = room.joined + 1
  BY <1>0, <1>1 DEF TypeOK
<1>4. /\ Welcome(c) \in Seq(Clients) /\ Welcome(c) # <<>> /\ Head(Welcome(c)) = c
      /\ ToSet(Welcome(c)) = Seated \cup {c} /\ Once(Welcome(c))
  BY <1>0, <1>2, WelcomeFacts
<1>5. /\ Seated' = Seated \cup {c} /\ Living = Seated /\ Living' = Seated \cup {c}
      /\ \A d : Name(d)' = Name(d)
  BY <1>2, <1>3, <1>4 DEF Seated, Living, Name
<1>6. /\ hello.names = NamesIn(Welcome(c)) /\ hello.names \in Seq(Names)
      /\ hello.type = "WelcomeToRoom" /\ hello \in Message
      /\ hello.names # <<>> /\ Head(hello.names) = Name(c)
      /\ come \in Message /\ come.type = "GameJoin" /\ come.name = Name(c)
      /\ start = <<>> \/ start = <<[type |-> "GameStart"]>>
  <2>1. hello.names = NamesIn(Welcome(c)) /\ hello.type = "WelcomeToRoom"
    BY DEF NamesIn
  <2> DEFINE w == Welcome(c)
  <2>2. w \in Seq(Clients) /\ Once(w) /\ w # <<>> /\ Head(w) = c
    BY <1>4
  <2> HIDE DEF w
  <2>3. NamesIn(w) \in Seq(Names) /\ Len(NamesIn(w)) = Len(w)
    BY <1>2, <2>2, ListIsRoom
  <2>4. NamesIn(w) # <<>> /\ Head(NamesIn(w)) = Name(c)
    <3>1. Len(w) >= 1 /\ w[1] = c
      BY <2>2
    <3>2. NamesIn(w)[1] = Name(c)
      BY <2>2, <3>1 DEF NamesIn
    <3> QED BY <2>3, <3>1, <3>2
  <2>5. hello \in Message
    <3>1. hello = [type |-> "WelcomeToRoom", names |-> NamesIn(w)]
      BY DEF NamesIn, w
    <3> HIDE DEF hello
    <3> QED BY <2>3, <3>1 DEF Message
  <2>6. come \in Message /\ come.type = "GameJoin" /\ come.name = Name(c)
    BY <1>2, AboutIsMessage DEF About
  <2> QED BY <2>1, <2>3, <2>4, <2>5, <2>6 DEF w
<1>7. ASSUME NEW d \in Watched
      PROVE  /\ d = c => said[d] = <<hello>> \o start
             /\ d \in Seated => said[d] = <<come>> \o start
             /\ d \notin Seated \cup {c} => said[d] = <<>>
  <2>1. Of("GameJoin", <<c>>) = <<come>>
    BY OfOne
  <2> HIDE DEF hello, come
  <2>2. d = c => said[d] = <<hello>> \o start
    OBVIOUS
  <2>3. d \in Seated => said[d] = <<come>> \o start
    BY <1>2, <2>1
  <2>4. d \notin Seated \cup {c} => said[d] = <<>>
    <3>1. d \notin Seated \cup {c} => said[d] = <<>> \o <<>>
      OBVIOUS
    <3>2. <<>> \o <<>> = <<>>
      OBVIOUS
    <3> QED BY <3>1, <3>2
  <2> QED BY <2>2, <2>3, <2>4
<1>8. said = [d \in Watched |-> said[d]]
  OBVIOUS
<1> HIDE DEF said, hello, come, start
<1>9. /\ <<hello>> \o start \in Seq(Message) /\ <<hello>> \o start # <<>>
      /\ Head(<<hello>> \o start) = hello
      /\ \A w \in ToSet(<<hello>> \o start) : w = hello \/ w = [type |-> "GameStart"]
      /\ <<come>> \o start \in Seq(Message)
      /\ \A w \in ToSet(<<come>> \o start) : w = come \/ w = [type |-> "GameStart"]
  <2> DEFINE k == [phase |-> "waiting", list |-> <<>>, winner |-> {}, draining |-> FALSE]
  <2>1. k \in ClientType /\ k.phase = "waiting"
    BY DEF ClientType
  <2> HIDE DEF k
  <2> QED BY <1>6, <2>1, Greeting
<1>10. said \in [Watched -> Seq(Message)]
  <2>1. <<>> \in Seq(Message)
    OBVIOUS
  <2>2. \A d \in Watched : said[d] \in Seq(Message)
    BY <1>7, <1>9, <2>1
  <2> QED BY <1>8, <2>2
<1>11. net' \in [Watched -> Seq(Message)]
  BY <1>0, <1>1, <1>10, Delivery
<1>12. TypeOK'
  <2>1. room'.joined \in 0 .. MaxPlayers
    BY <1>1, <1>2, <1>3
  <2> DEFINE phase == room'.phase
             joined == room'.joined
             answered == room'.answered
  <2>2. /\ phase \in {"waiting", "playing", "over"} /\ joined \in 0 .. MaxPlayers
        /\ answered \in SUBSET Clients
        /\ room' = [room EXCEPT !.seats = Welcome(c), !.joined = joined,
                                !.answered = answered, !.phase = phase]
    BY <1>0, <1>1, <1>2, <1>3, <2>1 DEF TypeOK
  <2> HIDE DEF phase, joined, answered
  <2> QED BY <1>0, <1>1, <1>4, <1>11, <2>2 DEF TypeOK
<1>13. Orderly'
  <2>1. \A d, e \in Seated \cup {c} : Name(d) = Name(e) => d = e
    BY <1>0, <1>1 DEF Orderly, NamesOf
  <2>2. /\ Seated \cup {c} \subseteq room.answered \cup {c}
        /\ history.told \subseteq room.answered \cup {c}
        /\ history.winner = {} /\ history.told = {}
        /\ \A d \in Watched :
              history.early[d] \subseteq (room.answered \cup {c}) \ (Seated \cup {c})
    BY <1>0, <1>1 DEF Orderly
  <2>3. room'.phase = "waiting" => room'.joined < MaxPlayers
    BY <1>1, <1>2, <1>3 DEF Starts
  <2>4. room'.phase # "over"
    BY <1>3
  <2> QED BY <1>1, <1>2, <1>3, <1>4, <1>5, <2>1, <2>2, <2>3, <2>4 DEF Orderly
<1>14. Unanswered' /\ Introduced' /\ SelfFirst'
  <2>1. \A d \in Watched : d \notin room.answered' => said[d] = <<>>
    <3>1. Seated \subseteq room.answered
      BY <1>0 DEF Orderly
    <3> QED BY <1>3, <1>7, <3>1
  <2>2. \A d \in Watched : d \in room.answered' /\ d \notin room.answered =>
              /\ client[d].phase # "menu"
              /\ said[d] # <<>> /\ Introduces(Head(said[d]), Name(d))
    <3>1. \A d \in Watched : d \in room.answered' /\ d \notin room.answered => d = c
      BY <1>3
    <3> QED BY <1>1, <1>6, <1>7, <1>9, <3>1 DEF Introduces
  <2>3. \A d \in Watched : \A m \in ToSet(said[d]) :
              TakesOff(m, Name(d)) => d \in room.dead'
    <3>1. \A m : m \notin ToSet(<<>>)
      BY DEF ToSet
    <3>2. \A d \in Watched : \A m \in ToSet(said[d]) :
             m = hello \/ m = come \/ m = [type |-> "GameStart"]
      BY <1>7, <1>9, <3>1
    <3>3. \A m, n : m = hello \/ m = come \/ m = [type |-> "GameStart"] => ~TakesOff(m, n)
      BY <1>6 DEF TakesOff
    <3> QED BY <3>2, <3>3
  <2>4. /\ room.name' = room.name /\ room.dead \subseteq room.dead'
        /\ room.answered \subseteq room.answered'
    BY <1>3
  <2> QED BY <1>1, <1>10, <2>1, <2>2, <2>3, <2>4, Telling
<1>15. ASSUME NEW d \in Present'
       PROVE  /\ Informed(d)'.phase = room'.phase
              /\ \A n \in Names :
                    /\ Cardinality(Bearing(Seated \cup {c}, n)) <= Count(Informed(d)'.list, n)
                    /\ Count(Informed(d)'.list, n)
                          <= Cardinality(Bearing(Seated \cup {c}, n))
                             + Cardinality(Bearing(history.early[d], n))
  <2>1. d \in Watched /\ d \in Seated \cup {c} /\ client[d].phase # "quit"
    BY <1>1, <1>5 DEF Present
  <2> DEFINE k == Informed(d)
             l == Informed(d)'
             C == Seated
             E == history.early[d]
  <2>2. l = After(k, said[d]) /\ k \in ClientType
    BY <1>0, <1>1, <1>10, <2>1, Delivery, Unpacked
  <2>3. C \in SUBSET Clients /\ c \notin C /\ E \in SUBSET Clients
    BY <1>0, <1>2, <2>1, Unpacked
  <2>4. room'.phase = IF start = <<>> THEN "waiting" ELSE "playing"
    BY <1>3 DEF start
  <2>5. CASE d = c
    <3>1. k.phase = "waiting" /\ k.list = <<>>
      <4>1. queue[d] = <<>> /\ net[d] = <<>> /\ client[d].list = <<>>
            /\ client[d].phase = "waiting"
        BY <1>0, <1>1, <2>1, <2>5 DEF Unanswered
      <4>2. queue[d] \o net[d] = <<>>
        BY <4>1
      <4>3. k = client[d]
        BY <4>2, AfterNothing DEF Informed
      <4> QED BY <4>1, <4>3
    <3> HIDE DEF k, l, C, E
    <3>2. l = After(k, <<hello>> \o start)
      BY <1>7, <2>1, <2>2, <2>5
    <3>3. /\ l.list = Handle(k, hello).list
          /\ l.phase = IF start = <<>> THEN "waiting" ELSE "playing"
      BY <1>6, <2>2, <3>1, <3>2, Greeting
    <3>4. l.list = hello.names
      <4>1. Handle(k, hello).list = k.list \o hello.names
        BY <1>6, <2>2, <3>1, InTheLobby
      <4>2. <<>> \o hello.names = hello.names
        BY <1>6
      <4> QED BY <3>1, <3>3, <4>1, <4>2
    <3>5. ASSUME NEW n \in Names
          PROVE  Count(l.list, n) = Cardinality(Bearing(C \cup {c}, n))
      <4> DEFINE w == Welcome(c)
      <4>1. w \in Seq(Clients) /\ Once(w) /\ ToSet(w) = C \cup {c}
        BY <1>4 DEF C
      <4> HIDE DEF w
      <4>2. Count(NamesIn(w), n) = Cardinality(Bearing(ToSet(w), n))
        BY <1>2, <4>1, ListIsRoom
      <4> QED BY <1>6, <3>4, <4>1, <4>2 DEF w
    <3>6. ASSUME NEW n \in Names
          PROVE  /\ Cardinality(Bearing(C \cup {c}, n)) <= Count(l.list, n)
                 /\ Count(l.list, n) <= Cardinality(Bearing(C \cup {c}, n))
                                        + Cardinality(Bearing(E, n))
      <4> DEFINE D == C \cup {c}
      <4>1. D \in SUBSET Clients
        BY <2>3
      <4> HIDE DEF D
      <4>2. /\ Cardinality(Bearing(D, n)) \in Nat /\ Cardinality(Bearing(E, n)) \in Nat
        BY <2>3, <4>1, BearingFacts
      <4>3. Count(l.list, n) = Cardinality(Bearing(D, n))
        BY <3>5 DEF D
      <4> DEFINE e == Cardinality(Bearing(E, n))
                 f == Cardinality(Bearing(D, n))
                 r == Count(l.list, n)
      <4>4. e \in Nat /\ f \in Nat /\ r = f
        BY <4>2, <4>3
      <4> HIDE DEF e, f, r
      <4>5. f <= r /\ r <= f + e
        BY <4>4
      <4> QED BY <4>5 DEF e, f, r, D
    <3> QED BY <2>4, <3>3, <3>6 DEF l, C, E
  <2>6. CASE d # c
    <3>1. d \in Present /\ d \in Seated
      BY <2>1, <2>6 DEF Present
    <3>2. /\ k.phase = "waiting"
          /\ \A n \in Names : /\ Cardinality(Bearing(C, n)) <= Count(k.list, n)
                              /\ Count(k.list, n) <= Cardinality(Bearing(C, n))
                                                     + Cardinality(Bearing(E, n))
      BY <1>0, <1>1, <1>5, <3>1 DEF InStep, RosterAgrees, Bearing
    <3>3. said[d] = <<come>> \o start
      BY <1>7, <2>1, <3>1
    <3> HIDE DEF k, l, C, E
    <3>4. /\ l.list = Handle(k, come).list
          /\ l.phase = IF start = <<>> THEN "waiting" ELSE "playing"
      BY <1>6, <2>2, <3>2, <3>3, Greeting
    <3>5. l.list = Append(k.list, Name(c))
      <4>1. Handle(k, come).list =
               IF come.type = "WelcomeToRoom" THEN k.list \o come.names
               ELSE IF come.type = "GameJoin" THEN Append(k.list, come.name) ELSE k.list
        BY <1>6, <2>2, <3>2, InTheLobby
      <4>2. Handle(k, come).list = Append(k.list, come.name)
        BY <1>6, <4>1
      <4> QED BY <1>6, <3>4, <4>2
    <3>6. ASSUME NEW n \in Names
          PROVE  /\ Cardinality(Bearing(C \cup {c}, n)) <= Count(l.list, n)
                 /\ Count(l.list, n) <= Cardinality(Bearing(C \cup {c}, n))
                                        + Cardinality(Bearing(E, n))
      <4> DEFINE s == k.list
                 y == Name(c)
      <4>1. s \in Seq(Names) /\ y \in Names
        BY <1>2, <2>2 DEF ClientType, Name
      <4> HIDE DEF s, y
      <4>2. Count(Append(s, y), n) = Count(s, n) + (IF n = y THEN 1 ELSE 0) /\ Count(s, n) \in Nat
        BY <4>1, CountAppend
      <4>3. /\ Cardinality(Bearing(C, n)) \in Nat /\ Cardinality(Bearing(E, n)) \in Nat
            /\ Cardinality(Bearing(C \cup {c}, n)) =
                  Cardinality(Bearing(C, n)) + IF Name(c) = n THEN 1 ELSE 0
        BY <2>3, BearingFacts
      <4>4. Count(l.list, n) = Count(s, n) + IF n = y THEN 1 ELSE 0
        BY <3>5, <4>2 DEF s, y
      <4>5. /\ Cardinality(Bearing(C, n)) <= Count(s, n)
            /\ Count(s, n) <= Cardinality(Bearing(C, n)) + Cardinality(Bearing(E, n))
        BY <3>2 DEF s
      <4>6. Cardinality(Bearing(C \cup {c}, n)) =
               Cardinality(Bearing(C, n)) + IF n = y THEN 1 ELSE 0
        BY <4>3 DEF y
      <4> DEFINE a == Cardinality(Bearing(C, n))
                 e == Cardinality(Bearing(E, n))
                 f == Cardinality(Bearing(C \cup {c}, n))
                 p == Count(s, n)
                 r == Count(l.list, n)
      <4>7. /\ a \in Nat /\ e \in Nat /\ p \in Nat /\ a <= p /\ p <= a + e
            /\ r = p + (IF n = y THEN 1 ELSE 0) /\ f = a + (IF n = y THEN 1 ELSE 0)
        BY <4>2, <4>3, <4>4, <4>5, <4>6
      <4> HIDE DEF a, e, f, p, r
      <4>8. f <= r /\ r <= f + e
        BY <4>7
      <4> QED BY <4>8 DEF f, r, e
    <3> QED BY <2>4, <3>4, <3>6 DEF l, C, E
  <2> QED BY <2>5, <2>6
<1>16. InStep'
  BY <1>15 DEF InStep
<1>17. RosterAgrees'
  <2> SUFFICES ASSUME NEW d \in Present', NEW n \in Names
               PROVE  /\ Cardinality({e \in Living' : Name(e) = n})
                            <= Count(Informed(d)'.list, n)
                      /\ Count(Informed(d)'.list, n)
                            <= Cardinality({e \in Living' : Name(e) = n})
                               + Cardinality({e \in history.early[d] : Name(e) = n})
    BY <1>1, <1>5 DEF RosterAgrees
  <2> QED BY <1>5, <1>15 DEF Bearing
<1>18. WinnerKnown'
  <2>1. history'.told = {}
    BY <1>0, <1>1 DEF Orderly
  <2> QED BY <2>1 DEF WinnerKnown
<1> QED BY <1>12, <1>13, <1>14, <1>16, <1>17, <1>18 DEF Inv

-----------------------------------------------------------------------------
(* Players who go.                                                         *)

\* Players of the room, each once, have names of their own.
LEMMA ApartIfOnce ==
    ASSUME Orderly, NEW s \in Seq(Clients), Once(s), ToSet(s) \subseteq Seated
    PROVE  Apart(s)
<1> SUFFICES ASSUME NEW i \in 1 .. Len(s), NEW j \in 1 .. Len(s), Name(s[i]) = Name(s[j])
             PROVE  i = j
  BY DEF Apart
<1>1. s[i] \in ToSet(s) /\ s[j] \in ToSet(s)
  BY DEF ToSet
<1>2. s[i] = s[j]
  BY <1>1 DEF Orderly
<1> QED BY <1>2 DEF Once

Eof == [type |-> "Eof"]

Closing(d, S) == IF d \in S THEN <<Eof>> ELSE <<>>

\* Who is told that others leave hears of all of them if he stays himself, and
\* never that he leaves.
LEMMA FarewellFacts ==
    ASSUME TypeOK, Orderly, NEW S \in SUBSET Seated, NEW d \in Seated
    PROVE  /\ Farewell(S, d) \in Seq(Message)
           /\ \A m \in ToSet(Farewell(S, d)) : ~TakesOff(m, Name(d))
           /\ \E h \in Seq(Clients) : /\ Apart(h) /\ ToSet(h) \subseteq S
                                      /\ d \notin S => ToSet(h) = S
                                      /\ Farewell(S, d) = Of("OtherLeave", h) \o Closing(d, S)
<1> DEFINE Ahead(p) == \A i, j \in 1 .. Len(room.seats) :
                          room.seats[i] = p /\ room.seats[j] = d => i < j
           A == {p \in S : d \in S => Ahead(p)}
           h == Kept(room.seats, A)
           u == Of("OtherLeave", h)
           e == Closing(d, S)
<1>1. /\ room.seats \in Seq(Clients) /\ Once(room.seats) /\ Seated = ToSet(room.seats)
      /\ room.name \in [Clients -> Names] /\ Seated \in SUBSET Clients
  BY Unpacked DEF Orderly, Seated
<1>2. A \subseteq S /\ (d \notin S => A = S)
  OBVIOUS
<1>3. d \notin A
  <2>1. PICK i \in 1 .. Len(room.seats) : room.seats[i] = d
    BY <1>1 DEF ToSet
  <2>2. ~(i < i)
    BY <1>1
  <2>3. ~Ahead(d)
    BY <2>1, <2>2
  <2> HIDE DEF Ahead
  <2> QED BY <2>3
<1>4. Farewell(S, d) = u \o e
  BY DEF Farewell, Closing, Eof
<1> HIDE DEF A
<1>5. h \in Seq(Clients) /\ ToSet(h) = Seated \cap A /\ Once(h)
  <2> DEFINE s == room.seats
  <2>1. s \in Seq(Clients) /\ Once(s)
    BY <1>1
  <2> HIDE DEF s
  <2>2. Kept(s, A) \in Seq(Clients) /\ ToSet(Kept(s, A)) = ToSet(s) \cap A /\ Once(Kept(s, A))
    BY <2>1, KeptFacts
  <2> QED BY <1>1, <2>2 DEF s
<1> HIDE DEF h
<1>6. ToSet(h) \subseteq S /\ (d \notin S => ToSet(h) = S) /\ d \notin ToSet(h)
  BY <1>2, <1>3, <1>5
<1>7. Apart(h)
  BY <1>5, <1>6, ApartIfOnce
<1>8. /\ u \in Seq(Message)
      /\ \A m \in ToSet(u) : \E c \in ToSet(h) : m = About("OtherLeave", c)
  BY <1>1, <1>5, OfFacts
<1>9. /\ e \in Seq(Message) /\ \A m \in ToSet(e) : m = Eof
  <2>1. Eof \in Message
    BY DEF Eof, Message
  <2>2. <<>> \in Seq(Message) /\ <<Eof>> \in Seq(Message)
    BY <2>1
  <2>3. \A m \in ToSet(<<Eof>>) : m = Eof
    BY DEF ToSet
  <2>4. \A m : m \notin ToSet(<<>>)
    BY DEF ToSet
  <2> QED BY <2>2, <2>3, <2>4 DEF Closing
<1> HIDE DEF u, e
<1>10. u \o e \in Seq(Message) /\ ToSet(u \o e) = ToSet(u) \cup ToSet(e)
  BY <1>8, <1>9, ConcatFacts
<1>11. \A m \in ToSet(u \o e) : ~TakesOff(m, Name(d))
  <2>1. ASSUME NEW c \in ToSet(h)
        PROVE  ~TakesOff(About("OtherLeave", c), Name(d))
    <3>1. c \in Seated /\ c # d
      BY <1>6
    <3>2. Name(c) # Name(d)
      BY <3>1 DEF Orderly
    <3> QED BY <3>2 DEF TakesOff, About
  <2>2. ~TakesOff(Eof, Name(d))
    BY DEF TakesOff, Eof
  <2> QED BY <1>8, <1>9, <1>10, <2>1, <2>2
<1> QED BY <1>4, <1>5, <1>6, <1>7, <1>10, <1>11 DEF u, e

Stay(S) == Kept(room.seats, Seated \ S)

\* Who would stay alone.
Alone(S) == IF Len(Stay(S)) = 1 THEN ToSet(Stay(S)) ELSE {}

\* What d is sent when the players S are disconnected.
Parting(S, said, d) ==
    IF d \notin Seated THEN <<>>
    ELSE (said \o Farewell(S, d))
         \o IF d \in Alone(S) THEN Of("GameWon", Stay(S)) \o <<Eof>> ELSE <<>>

\* Who stays, and who would stay alone.
LEMMA StayFacts ==
    ASSUME TypeOK, Orderly, NEW S \in SUBSET Seated
    PROVE  /\ Stay(S) \in Seq(Clients) /\ Len(Stay(S)) \in Nat
           /\ ToSet(Stay(S)) = Seated \ S /\ Once(Stay(S))
           /\ Alone(S) \subseteq Seated \ S
           /\ S = Seated => Len(Stay(S)) = 0 /\ Alone(S) = {}
           /\ Len(Stay(S)) >= 2 => Alone(S) = {}
           /\ Len(Stay(S)) = 1 => \E d \in Seated \ S : Stay(S) = <<d>> /\ Alone(S) = {d}
<1> DEFINE s == room.seats
           A == Seated \ S
           t == Kept(s, A)
<1>1. s \in Seq(Clients) /\ Once(s) /\ Seated = ToSet(s)
  BY Unpacked DEF Orderly, Seated
<1>2. Stay(S) = t
  BY DEF Stay
<1> HIDE DEF s, A
<1>3. t \in Seq(Clients) /\ ToSet(t) = ToSet(s) \cap A /\ Once(t)
  BY <1>1, KeptFacts
<1> HIDE DEF t
<1>4. ToSet(t) = Seated \ S
  BY <1>1, <1>3 DEF A
<1>5. /\ Len(t) \in Nat /\ (ToSet(t) = {} => Len(t) = 0)
      /\ Len(t) = 1 => t = <<t[1]>> /\ ToSet(t) = {t[1]}
  <2>1. Len(t) \in Nat /\ DOMAIN t = 1 .. Len(t)
    BY <1>3
  <2>2. ASSUME ToSet(t) = {} PROVE Len(t) = 0
    <3>1. Len(t) >= 1 => t[1] \in ToSet(t)
      BY <2>1 DEF ToSet
    <3> QED BY <2>1, <2>2, <3>1
  <2>3. ASSUME Len(t) = 1 PROVE t = <<t[1]>> /\ ToSet(t) = {t[1]}
    <3>1. t = <<t[1]>>
      BY <1>3, <2>3
    <3>2. ToSet(t) = {t[1]}
      BY <2>1, <2>3 DEF ToSet
    <3> QED BY <3>1, <3>2
  <2> QED BY <2>1, <2>2, <2>3
<1>6. Alone(S) = IF Len(t) = 1 THEN ToSet(t) ELSE {}
  BY <1>2 DEF Alone
<1>7. Alone(S) \subseteq Seated \ S
  BY <1>4, <1>6
<1>8. S = Seated => Len(t) = 0 /\ Alone(S) = {}
  BY <1>4, <1>5, <1>6
<1>9. Len(t) >= 2 => Alone(S) = {}
  <2>1. Len(t) >= 2 => Len(t) # 1
    <3>1. Len(t) \in Nat
      BY <1>5
    <3> QED BY <3>1
  <2> QED BY <1>6, <2>1
<1>10. Len(t) = 1 => \E d \in Seated \ S : t = <<d>> /\ Alone(S) = {d}
  <2>1. Len(t) = 1 => t[1] \in Seated \ S
    BY <1>4, <1>5
  <2> QED BY <1>5, <1>6, <2>1
<1> QED BY <1>2, <1>3, <1>4, <1>5, <1>7, <1>8, <1>9, <1>10

\* The end of a match is announced to the one who stays.
LEMMA PartingFacts ==
    ASSUME TypeOK, Orderly, NEW S \in SUBSET Seated, NEW said \in Seq(Message), NEW d
    PROVE  /\ Parting(S, said, d) \in Seq(Message)
           /\ \A m \in ToSet(Parting(S, said, d)) :
                 m \in ToSet(said) \/ ~TakesOff(m, Name(d))
<1>1. CASE d \notin Seated
  <2>1. Parting(S, said, d) = <<>>
    BY <1>1 DEF Parting
  <2> QED BY <2>1 DEF ToSet
<1>2. CASE d \in Seated
  <2> DEFINE f == Farewell(S, d)
             g == Of("GameWon", Stay(S)) \o <<Eof>>
             t == IF d \in Alone(S) THEN g ELSE <<>>
             a == said \o f
  <2>1. Parting(S, said, d) = a \o t
    BY <1>2 DEF Parting
  <2>2. f \in Seq(Message) /\ \A m \in ToSet(f) : ~TakesOff(m, Name(d))
    BY <1>2, FarewellFacts
  <2>3. t \in Seq(Message) /\ \A m \in ToSet(t) : ~TakesOff(m, Name(d))
    <3> DEFINE w == Of("GameWon", Stay(S))
               e == <<Eof>>
    <3>1. /\ w \in Seq(Message)
          /\ \A m \in ToSet(w) : \E c \in ToSet(Stay(S)) : m = About("GameWon", c)
      <4> DEFINE r == Stay(S)
      <4>1. r \in Seq(Clients) /\ room.name \in [Clients -> Names]
        BY StayFacts, Unpacked
      <4> HIDE DEF r
      <4>2. /\ Of("GameWon", r) \in Seq(Message)
            /\ \A m \in ToSet(Of("GameWon", r)) : \E c \in ToSet(r) : m = About("GameWon", c)
        BY <4>1, OfFacts
      <4> QED BY <4>2 DEF r
    <3>2. e \in Seq(Message) /\ \A m \in ToSet(e) : m = Eof
      <4>1. Eof \in Message
        BY DEF Eof, Message
      <4> QED BY <4>1 DEF ToSet
    <3> HIDE DEF w, e
    <3>3. w \o e \in Seq(Message) /\ ToSet(w \o e) = ToSet(w) \cup ToSet(e)
      BY <3>1, <3>2, ConcatFacts
    <3>4. \A c : ~TakesOff(About("GameWon", c), Name(d))
      BY DEF TakesOff, About
    <3>5. ~TakesOff(Eof, Name(d))
      BY DEF TakesOff, Eof
    <3>6. \A m \in ToSet(w \o e) : ~TakesOff(m, Name(d))
      BY <3>1, <3>2, <3>3, <3>4, <3>5
    <3>7. <<>> \in Seq(Message) /\ \A m : m \notin ToSet(<<>>)
      BY DEF ToSet
    <3> QED BY <3>3, <3>6, <3>7 DEF w, e
  <2> HIDE DEF f, t
  <2>4. a \in Seq(Message) /\ ToSet(a) = ToSet(said) \cup ToSet(f)
    BY <2>2, ConcatFacts
  <2> HIDE DEF a
  <2>5. a \o t \in Seq(Message) /\ ToSet(a \o t) = ToSet(a) \cup ToSet(t)
    BY <2>3, <2>4, ConcatFacts
  <2> QED BY <2>1, <2>2, <2>3, <2>4, <2>5
<1> QED BY <1>1, <1>2

\* What DisconnectPlayers does to the room and to who is told what.
LEMMA Disconnecting ==
    ASSUME TypeOK, Orderly, NEW S \in SUBSET Seated, NEW H \in SUBSET Clients,
           NEW said \in Seq(Message), NEW W \in SUBSET Names,
           DisconnectPlayers(S, H, said, W)
    PROVE  /\ room'.seats = (IF Len(Stay(S)) < 2 THEN <<>> ELSE Stay(S))
           /\ room'.phase = (IF Len(Stay(S)) < 2 THEN "over" ELSE room.phase)
           /\ room'.dead = room.dead \cup H
           /\ room'.name = room.name /\ room'.joined = room.joined
           /\ room'.answered = room.answered
           /\ room' \in [phase : {"waiting", "playing", "over"}, seats : Seq(Clients),
                         dead : SUBSET Clients, joined : 0 .. MaxPlayers,
                         answered : SUBSET Clients, name : [Clients -> Names]]
           /\ history'.winner = history.winner \cup W \cup NamesOf(Alone(S))
           /\ history'.told = (IF room.phase # "playing" THEN history.told
                               ELSE IF W # {} THEN Seated ELSE Alone(S))
           /\ history' \in [winner : SUBSET Names, told : SUBSET Clients,
                            early : [Watched -> SUBSET Clients]]
           /\ \A d \in Watched : history'.early[d] =
                 IF room.phase = "waiting" /\ d \in ToSet(Stay(S))
                 THEN history.early[d] \cup S ELSE history.early[d]
           /\ net' = Sent([d \in Watched |-> Parting(S, said, d)])
           /\ Seated' = (IF Len(Stay(S)) < 2 THEN {} ELSE Seated \ S)
<1> DEFINE t == Stay(S)
           last == Alone(S)
           over == Len(t) < 2
           seats == IF over THEN <<>> ELSE t
           phase == IF over THEN "over" ELSE room.phase
           dead == room.dead \cup H
           winner == history.winner \cup W \cup NamesOf(last)
           told == IF room.phase # "playing" THEN history.told
                   ELSE IF W # {} THEN Seated ELSE last
           early == [d \in Watched |-> IF room.phase = "waiting" /\ d \in ToSet(t)
                                       THEN history.early[d] \cup S ELSE history.early[d]]
<1>1. /\ room' = [room EXCEPT !.seats = seats, !.dead = dead, !.phase = phase]
      /\ history' = [history EXCEPT !.winner = winner, !.told = told, !.early = early]
      /\ net' = Sent([d \in Watched |-> Parting(S, said, d)])
  BY DEF DisconnectPlayers, Stay, Alone, Parting, Announced, Eof
<1>2. /\ t \in Seq(Clients) /\ last \in SUBSET Seated /\ ToSet(t) = Seated \ S
      /\ Seated \in SUBSET Clients /\ Len(t) \in Nat
      /\ room.dead \in SUBSET Clients /\ room.name \in [Clients -> Names]
      /\ room.phase \in {"waiting", "playing", "over"}
      /\ history.told \in SUBSET Clients /\ history.winner \in SUBSET Names
      /\ history.early \in [Watched -> SUBSET Clients]
  BY StayFacts, Unpacked
<1> HIDE DEF t, last
<1>3. /\ seats \in Seq(Clients) /\ phase \in {"waiting", "playing", "over"}
      /\ dead \in SUBSET Clients
  BY <1>2
<1>4. winner \in SUBSET Names
  <2>1. NamesOf(last) \in SUBSET Names
    BY <1>2 DEF NamesOf, Name
  <2> QED BY <1>2, <2>1
<1>5. told \in SUBSET Clients
  BY <1>2
<1>6. early \in [Watched -> SUBSET Clients]
  <2>1. \A d \in Watched : history.early[d] \in SUBSET Clients /\ S \in SUBSET Clients
    BY <1>2
  <2> QED BY <2>1
<1>7. \A d \in Watched : early[d] =
         IF room.phase = "waiting" /\ d \in ToSet(t)
         THEN history.early[d] \cup S ELSE history.early[d]
  OBVIOUS
<1> HIDE DEF seats, phase, dead, winner, told, early
<1>8. /\ room'.seats = seats /\ room'.phase = phase /\ room'.dead = dead
      /\ room'.name = room.name /\ room'.joined = room.joined
      /\ room'.answered = room.answered
      /\ room' \in [phase : {"waiting", "playing", "over"}, seats : Seq(Clients),
                    dead : SUBSET Clients, joined : 0 .. MaxPlayers,
                    answered : SUBSET Clients, name : [Clients -> Names]]
  BY <1>1, <1>3 DEF TypeOK
<1>9. /\ history'.winner = winner /\ history'.told = told /\ history'.early = early
      /\ history' \in [winner : SUBSET Names, told : SUBSET Clients,
                       early : [Watched -> SUBSET Clients]]
  BY <1>1, <1>4, <1>5, <1>6 DEF TypeOK
<1>10. Seated' = IF over THEN {} ELSE Seated \ S
  <2>1. Seated' = ToSet(seats)
    BY <1>8 DEF Seated
  <2>2. ToSet(<<>>) = {}
    BY DEF ToSet
  <2> HIDE DEF over
  <2> QED BY <1>2, <2>1, <2>2 DEF seats
<1> QED BY <1>1, <1>7, <1>8, <1>9, <1>10
        DEF seats, phase, dead, winner, told, early, t, last

\* Whoever goes, for whatever reason: the room stays orderly and the clients
\* stay introduced.
LEMMA DisconnectStep ==
    ASSUME Inv, room.phase # "over", client' = client, queue' = queue,
           NEW S \in SUBSET Seated, NEW H \in SUBSET Clients,
           NEW said \in Seq(Message), NEW W \in SUBSET Names,
           DisconnectPlayers(S, H, said, W),
           room.phase = "waiting" => H = {}, W # {} => S = Seated,
           \A d \in Seated : \A m \in ToSet(said) : TakesOff(m, Name(d)) => d \in H
    PROVE  TypeOK' /\ Orderly' /\ Unanswered' /\ Introduced' /\ SelfFirst'
<1>0. TypeOK /\ Orderly
  BY DEF Inv
<1> DEFINE t == Stay(S)
           msgs == [d \in Watched |-> Parting(S, said, d)]
<1>1. /\ room'.seats = (IF Len(t) < 2 THEN <<>> ELSE t)
      /\ room'.phase = (IF Len(t) < 2 THEN "over" ELSE room.phase)
      /\ room'.dead = room.dead \cup H
      /\ room'.name = room.name /\ room'.joined = room.joined
      /\ room'.answered = room.answered
      /\ room' \in [phase : {"waiting", "playing", "over"}, seats : Seq(Clients),
                    dead : SUBSET Clients, joined : 0 .. MaxPlayers,
                    answered : SUBSET Clients, name : [Clients -> Names]]
      /\ history'.winner = history.winner \cup W \cup NamesOf(Alone(S))
      /\ history'.told = (IF room.phase # "playing" THEN history.told
                          ELSE IF W # {} THEN Seated ELSE Alone(S))
      /\ history' \in [winner : SUBSET Names, told : SUBSET Clients,
                       early : [Watched -> SUBSET Clients]]
      /\ \A d \in Watched : history'.early[d] =
            IF room.phase = "waiting" /\ d \in ToSet(t)
            THEN history.early[d] \cup S ELSE history.early[d]
      /\ net' = Sent(msgs)
      /\ Seated' = (IF Len(t) < 2 THEN {} ELSE Seated \ S)
  BY <1>0, Disconnecting
<1>2. /\ t \in Seq(Clients) /\ ToSet(t) = Seated \ S /\ Once(t) /\ Len(t) \in Nat
      /\ Alone(S) \subseteq Seated /\ (S = Seated => Len(t) = 0)
      /\ Len(t) >= 2 => Alone(S) = {}
  BY <1>0, StayFacts
<1>3. /\ msgs \in [Watched -> Seq(Message)]
      /\ \A d \in Watched : msgs[d] = Parting(S, said, d)
  BY <1>0, PartingFacts
<1> HIDE DEF t, msgs
<1>4. net' \in [Watched -> Seq(Message)]
  BY <1>0, <1>1, <1>3, Delivery
<1>5. TypeOK'
  <2>1. /\ client \in [Watched -> [phase : {"menu", "waiting", "playing", "stuck",
                                            "exited", "quit"},
                                   list : Seq(Names), winner : SUBSET Names,
                                   draining : BOOLEAN]]
        /\ queue \in [Watched -> Seq(Message \ {[type |-> "Eof"]})]
    BY <1>0 DEF TypeOK
  <2> QED BY <1>1, <1>4, <2>1 DEF TypeOK
<1>6. Orderly'
  <2>0. /\ Once(room.seats) /\ Seated \subseteq room.answered
        /\ \A c, d \in Seated : Name(c) = Name(d) => c = d
        /\ room.phase = "waiting" => room.dead = {} /\ room.joined < MaxPlayers
        /\ history.winner = {} /\ history.told = {}
        /\ \A c \in Watched : history.early[c] \subseteq room.answered \ Seated
    BY <1>0 DEF Orderly
  <2>1. Once(room'.seats)
    <3>1. Once(<<>>)
      BY DEF Once
    <3> QED BY <1>1, <1>2, <3>1
  <2>2. Seated' \subseteq Seated \ S
    BY <1>1
  <2>3. \A c, d \in Seated' : Name(c)' = Name(d)' => c = d
    BY <1>1, <2>0, <2>2 DEF Name
  <2>4. room'.phase = "over" => room'.seats = <<>>
    BY <1>1
  <2>5. room'.phase = "waiting" => room'.dead = {} /\ room'.joined < MaxPlayers
    BY <1>1, <2>0
  <2>6. room'.phase # "over" => history'.winner = {} /\ history'.told = {}
    <3> SUFFICES ASSUME room'.phase # "over" PROVE history'.winner = {} /\ history'.told = {}
      OBVIOUS
    <3>1. ~(Len(t) < 2)
      BY <1>1
    <3>2. Alone(S) = {} /\ W = {}
      BY <1>2, <3>1
    <3>3. NamesOf(Alone(S)) = {}
      BY <3>2 DEF NamesOf
    <3> QED BY <1>1, <2>0, <3>2, <3>3
  <2>7. history'.told \subseteq room'.answered
    BY <1>1, <1>2, <2>0
  <2>8. \A c \in Watched : history'.early[c] \subseteq room'.answered \ Seated'
    <3> SUFFICES ASSUME NEW c \in Watched, NEW x \in history'.early[c]
                 PROVE  x \in room.answered /\ x \notin Seated'
      BY <1>1
    <3>1. x \in history.early[c] \/ x \in S
      BY <1>1
    <3>2. history.early[c] \subseteq room.answered \ Seated
      BY <2>0
    <3> QED BY <2>0, <2>2, <3>1, <3>2
  <2> QED BY <1>1, <2>0, <2>1, <2>2, <2>3, <2>4, <2>5, <2>6, <2>7, <2>8 DEF Orderly
<1>7. Unanswered' /\ Introduced' /\ SelfFirst'
  <2>1. \A d \in Watched : d \notin room.answered' => msgs[d] = <<>>
    <3>1. Seated \subseteq room.answered
      BY <1>0 DEF Orderly
    <3> QED BY <1>1, <1>3, <3>1 DEF Parting
  <2>2. \A d \in Watched : ~(d \in room.answered' /\ d \notin room.answered)
    BY <1>1
  <2>3. \A d \in Watched : \A m \in ToSet(msgs[d]) :
              TakesOff(m, Name(d)) => d \in room.dead'
    <3> SUFFICES ASSUME NEW d \in Watched, NEW m \in ToSet(msgs[d]), TakesOff(m, Name(d))
                 PROVE  d \in room.dead'
      OBVIOUS
    <3>1. d \in Seated
      <4>1. d \notin Seated => msgs[d] = <<>>
        BY <1>3 DEF Parting
      <4>2. \A w : w \notin ToSet(<<>>)
        BY DEF ToSet
      <4> QED BY <4>1, <4>2
    <3>2. m \in ToSet(said)
      BY <1>0, <1>3, PartingFacts
    <3> QED BY <1>1, <3>1, <3>2
  <2>4. /\ room.name' = room.name /\ room.dead \subseteq room.dead'
        /\ room.answered \subseteq room.answered'
    BY <1>1
  <2> QED BY <1>1, <1>3, <2>1, <2>2, <2>3, <2>4, Telling
<1> QED BY <1>5, <1>6, <1>7

\* In a match, a player and a name that go leave the count right.
LEMMA OneLess ==
    ASSUME TypeOK, Orderly, NEW S \in SUBSET Seated, NEW n,
           NEW L \in SUBSET Seated, NEW p \in Nat, NEW e \in Nat,
           Cardinality(Bearing(L, n)) <= p, p <= Cardinality(Bearing(L, n)) + e
    PROVE  LET q == IF n \in NamesOf(S) /\ p > 0 THEN p - 1 ELSE p
               b == Cardinality(Bearing(L \ S, n))
           IN  b <= q /\ q <= b + e
<1> DEFINE a == Cardinality(Bearing(L, n))
           b == Cardinality(Bearing(L \ S, n))
<1>1. Seated \in SUBSET Clients /\ \A c, d \in Seated : Name(c) = Name(d) => c = d
  BY Unpacked DEF Orderly
<1>2. a \in Nat /\ b \in Nat
  <2> DEFINE K == L \ S
  <2>1. L \in SUBSET Clients /\ K \in SUBSET Clients
    BY <1>1
  <2> HIDE DEF K
  <2>2. Cardinality(Bearing(L, n)) \in Nat /\ Cardinality(Bearing(K, n)) \in Nat
    BY <2>1, BearingFacts
  <2> QED BY <2>2 DEF K
<1>3. CASE n \in NamesOf(S)
  <2>1. PICK c \in S : Name(c) = n
    BY <1>3 DEF NamesOf
  <2>2. Bearing(L \ S, n) = {} /\ Bearing(L, n) \subseteq {c}
    BY <1>1, <2>1 DEF Bearing
  <2>3. b = 0
    BY <2>2, FS_EmptySet
  <2>4. a <= 1
    <3> DEFINE B == Bearing(L, n)
               C == {c}
    <3>1. IsFiniteSet(C) /\ Cardinality(C) = 1
      BY FS_Singleton
    <3>2. B \in SUBSET C
      BY <2>2
    <3> HIDE DEF B, C
    <3>3. Cardinality(B) <= Cardinality(C)
      BY <3>1, <3>2, FS_Subset
    <3> QED BY <1>2, <3>1, <3>3 DEF B
  <2> HIDE DEF a, b
  <2>5. a <= p /\ p <= a + e
    BY DEF a
  <2>6. LET q == IF p > 0 THEN p - 1 ELSE p IN b <= q /\ q <= b + e
    BY <1>2, <2>3, <2>4, <2>5
  <2> QED BY <1>3, <2>6 DEF b
<1>4. CASE n \notin NamesOf(S)
  <2>1. Bearing(L \ S, n) = Bearing(L, n)
    BY <1>4 DEF NamesOf, Bearing
  <2> QED BY <1>4, <2>1
<1> QED BY <1>3, <1>4

\* Before the match nobody is taken off a list: who goes becomes a ghost.
LEMMA OneMoreGhost ==
    ASSUME TypeOK, Orderly, NEW S \in SUBSET Seated, NEW n, NEW E \in SUBSET Clients,
           E \cap Seated = {}, NEW p \in Nat,
           Cardinality(Bearing(Seated, n)) <= p,
           p <= Cardinality(Bearing(Seated, n)) + Cardinality(Bearing(E, n))
    PROVE  /\ Cardinality(Bearing(Seated \ S, n)) <= p
           /\ p <= Cardinality(Bearing(Seated \ S, n)) + Cardinality(Bearing(E \cup S, n))
<1> DEFINE A == Bearing(Seated, n)
           B == Bearing(Seated \ S, n)
           D == Bearing(S, n)
           F == Bearing(E, n)
           G == Bearing(E \cup S, n)
<1>1. Seated \in SUBSET Clients
  BY Unpacked
<1>2. /\ A = B \cup D /\ B \cap D = {} /\ G = F \cup D /\ F \cap D = {}
      /\ B \in SUBSET Clients /\ D \in SUBSET Clients /\ F \in SUBSET Clients
  BY <1>1 DEF Bearing
<1> HIDE DEF A, B, D, F, G
<1>3. IsFiniteSet(B) /\ IsFiniteSet(D) /\ IsFiniteSet(F)
  BY <1>2, FS_Subset, RosterAssumption
<1>4. /\ Cardinality(B) \in Nat /\ Cardinality(D) \in Nat /\ Cardinality(F) \in Nat
  BY <1>3, FS_CardinalityType
<1>5. /\ Cardinality(A) = Cardinality(B) + Cardinality(D)
      /\ Cardinality(G) = Cardinality(F) + Cardinality(D)
  <2>1. Cardinality(B \cup D) = Cardinality(B) + Cardinality(D) - Cardinality(B \cap D)
    BY <1>3, FS_Union
  <2>2. Cardinality(F \cup D) = Cardinality(F) + Cardinality(D) - Cardinality(F \cap D)
    BY <1>3, FS_Union
  <2>3. Cardinality(B \cap D) = 0 /\ Cardinality(F \cap D) = 0
    BY <1>2, FS_EmptySet
  <2>4. /\ Cardinality(A) = Cardinality(B) + Cardinality(D) - 0
        /\ Cardinality(G) = Cardinality(F) + Cardinality(D) - 0
    BY <1>2, <2>1, <2>2, <2>3
  <2> QED BY <1>4, <2>4
<1>6. Cardinality(A) <= p /\ p <= Cardinality(A) + Cardinality(F)
  BY DEF A, F
<1> DEFINE a == Cardinality(A)
           b == Cardinality(B)
           d == Cardinality(D)
           f == Cardinality(F)
           g == Cardinality(G)
<1>7. /\ b \in Nat /\ d \in Nat /\ f \in Nat /\ a = b + d /\ g = f + d
      /\ a <= p /\ p <= a + f
  BY <1>4, <1>5, <1>6
<1> HIDE DEF a, b, d, f, g
<1>8. b <= p /\ p <= b + g
  BY <1>7
<1> QED BY <1>8 DEF b, g, B, G

\* Only GameWon tells who has won.
LEMMA WinnerStays ==
    ASSUME NEW k \in ClientType, NEW t \in Seq(Message),
           \A m \in ToSet(t) : m.type # "GameWon"
    PROVE  After(k, t).winner = k.winner
<1> DEFINE G == {s \in Seq(Message) : (\A m \in ToSet(s) : m.type # "GameWon") =>
                                         After(k, s).winner = k.winner}
<1>1. <<>> \in G
  BY AfterNothing
<1>2. ASSUME NEW s \in Seq(Message), NEW m \in Message, s \in G PROVE Append(s, m) \in G
  <2>1. Append(s, m) \in Seq(Message) /\ ToSet(Append(s, m)) = ToSet(s) \cup {m}
    BY AppendFacts
  <2> SUFFICES ASSUME \A w \in ToSet(Append(s, m)) : w.type # "GameWon"
               PROVE  After(k, Append(s, m)).winner = k.winner
    BY <2>1
  <2>2. After(k, s).winner = k.winner /\ m.type # "GameWon"
    BY <1>2, <2>1
  <2> DEFINE l == After(k, s)
  <2>3. l \in ClientType /\ After(k, Append(s, m)) = Handle(l, m)
    BY AfterType, AfterOneMore
  <2> HIDE DEF l
  <2>4. Handle(l, m).winner = l.winner
    <3>1. CASE l.phase = "waiting"
      BY <2>3, <3>1, InTheLobby
    <3>2. CASE l.phase = "playing"
      BY <2>2, <2>3, <3>2, InTheMatch
    <3>3. CASE l.phase \notin {"waiting", "playing"}
      <4>1. Handle(l, m) = IF m.type = "Eof" THEN [l EXCEPT !.phase = "exited"] ELSE l
        BY <2>3, <3>3, Elsewhere
      <4>2. [l EXCEPT !.phase = "exited"].winner = l.winner
        BY <2>3 DEF ClientType
      <4> QED BY <4>1, <4>2
    <3> QED BY <3>1, <3>2, <3>3
  <2> QED BY <2>2, <2>3, <2>4 DEF l
<1> HIDE DEF G
<1>3. \A s \in Seq(Message) : s \in G
  BY <1>1, <1>2, SeqInduction
<1> QED BY <1>3 DEF G

\* The winner announced is the winner a client knows, whatever comes after.
LEMMA Winning ==
    ASSUME room.name \in [Clients -> Names], NEW k \in ClientType, k.phase = "playing",
           NEW x \in Clients, NEW s \in Seq(Message), \A m \in ToSet(s) : m.type # "GameWon"
    PROVE  After(k, Of("GameWon", <<x>>) \o s).winner = {Name(x)}
<1> DEFINE m == About("GameWon", x)
           l == Handle(k, m)
<1>1. m \in Message /\ Of("GameWon", <<x>>) = <<m>>
  BY AboutIsMessage, OfOne
<1>2. m.type = "GameWon" /\ m.name = Name(x)
  BY DEF About
<1> HIDE DEF m
<1>3. l \in ClientType /\ l.winner = {Name(x)}
  BY <1>1, <1>2, InTheMatch
<1>4. After(k, <<m>> \o s) = After(l, s)
  BY <1>1, AfterFront
<1> HIDE DEF l
<1>5. After(l, s).winner = l.winner
  BY <1>3, WinnerStays
<1> QED BY <1>1, <1>3, <1>4, <1>5

\* Goodbyes name no winner.
LEMMA GoodbyeHasNoWinner ==
    ASSUME TypeOK, Orderly, NEW S \in SUBSET Seated, NEW d \in Seated
    PROVE  \A m \in ToSet(Farewell(S, d)) : m.type # "GameWon"
<1>1. PICK h \in Seq(Clients) : Farewell(S, d) = Of("OtherLeave", h) \o Closing(d, S)
  BY FarewellFacts
<1> DEFINE u == Of("OtherLeave", h)
           e == Closing(d, S)
<1>2. /\ u \in Seq(Message)
      /\ \A m \in ToSet(u) : \E c \in ToSet(h) : m = About("OtherLeave", c)
  BY Unpacked, OfFacts
<1>3. e \in Seq(Message) /\ \A m \in ToSet(e) : m.type = "Eof"
  <2>1. Eof \in Message /\ Eof.type = "Eof"
    BY DEF Eof, Message
  <2>2. <<>> \in Seq(Message) /\ <<Eof>> \in Seq(Message)
    BY <2>1
  <2>3. /\ \A m \in ToSet(<<Eof>>) : m = Eof
        /\ \A m : m \notin ToSet(<<>>)
    BY DEF ToSet
  <2> QED BY <2>1, <2>2, <2>3 DEF Closing
<1>4. \A c : About("OtherLeave", c).type = "OtherLeave"
  BY DEF About
<1> HIDE DEF u, e
<1>5. ToSet(u \o e) = ToSet(u) \cup ToSet(e)
  BY <1>2, <1>3, ConcatFacts
<1>6. \A m \in ToSet(u \o e) : m.type # "GameWon"
  BY <1>2, <1>3, <1>4, <1>5
<1> QED BY <1>1, <1>6 DEF u, e

\* What the one or those who stay hear of those who go.
LEMMA PartingOfStayer ==
    ASSUME TypeOK, Orderly, NEW S \in SUBSET Seated, NEW d \in Seated \ S
    PROVE  \E h \in Seq(Clients) :
              /\ Apart(h) /\ ToSet(h) = S /\ Of("OtherLeave", h) \in Seq(Message)
              /\ Parting(S, <<>>, d) =
                    IF d \in Alone(S)
                    THEN Of("OtherLeave", h) \o (Of("GameWon", <<d>>) \o <<Eof>>)
                    ELSE Of("OtherLeave", h)
<1>1. PICK h \in Seq(Clients) : /\ Apart(h) /\ ToSet(h) = S
                                /\ Farewell(S, d) = Of("OtherLeave", h) \o Closing(d, S)
  BY FarewellFacts
<1> DEFINE u == Of("OtherLeave", h)
<1>2. u \in Seq(Message)
  BY Unpacked, OfFacts
<1>3. Farewell(S, d) = u
  <2>1. Closing(d, S) = <<>>
    BY DEF Closing
  <2> HIDE DEF u
  <2>2. u \o <<>> = u
    BY <1>2
  <2> QED BY <1>1, <2>1, <2>2 DEF u
<1>4. d \in Alone(S) => Stay(S) = <<d>>
  <2>1. d \in Alone(S) => Len(Stay(S)) = 1
    BY DEF Alone
  <2> QED BY <2>1, StayFacts
<1> HIDE DEF u
<1>5. <<>> \o u = u /\ u \o <<>> = u
  BY <1>2
<1>6. Parting(S, <<>>, d) = IF d \in Alone(S) THEN u \o (Of("GameWon", <<d>>) \o <<Eof>>)
                            ELSE u
  BY <1>3, <1>4, <1>5 DEF Parting
<1> QED BY <1>1, <1>2, <1>6 DEF u

\* Those who stay learn who has gone; the last one that he has won.
LEMMA LeaveStep ==
    ASSUME Inv, NEW S \in SUBSET Seated, Leave(S)
    PROVE  Inv'
<1>0. /\ TypeOK /\ Orderly /\ InStep /\ RosterAgrees /\ WinnerKnown
  BY DEF Inv
<1> DEFINE none == <<>>
           nobody == {}
<1>1. /\ room.phase # "over" /\ client' = client /\ queue' = queue
      /\ DisconnectPlayers(S, nobody, none, nobody)
      /\ none \in Seq(Message) /\ nobody \in SUBSET Clients /\ nobody \in SUBSET Names
      /\ \A m : m \notin ToSet(none)
  BY DEF Leave, ToSet
<1>2. room.phase = "waiting" => nobody = {}
  OBVIOUS
<1>3. nobody # {} => S = Seated
  OBVIOUS
<1> HIDE DEF none, nobody
<1>4. TypeOK' /\ Orderly' /\ Unanswered' /\ Introduced' /\ SelfFirst'
  BY <1>1, <1>2, <1>3, DisconnectStep
<1> DEFINE t == Stay(S)
           msgs == [d \in Watched |-> Parting(S, none, d)]
<1>5. /\ room'.seats = (IF Len(t) < 2 THEN <<>> ELSE t)
      /\ room'.phase = (IF Len(t) < 2 THEN "over" ELSE room.phase)
      /\ room'.dead = room.dead \cup nobody
      /\ room'.name = room.name /\ room'.joined = room.joined
      /\ room'.answered = room.answered
      /\ room' \in [phase : {"waiting", "playing", "over"}, seats : Seq(Clients),
                    dead : SUBSET Clients, joined : 0 .. MaxPlayers,
                    answered : SUBSET Clients, name : [Clients -> Names]]
      /\ history'.winner = history.winner \cup nobody \cup NamesOf(Alone(S))
      /\ history'.told = (IF room.phase # "playing" THEN history.told
                          ELSE IF nobody # {} THEN Seated ELSE Alone(S))
      /\ history' \in [winner : SUBSET Names, told : SUBSET Clients,
                       early : [Watched -> SUBSET Clients]]
      /\ \A d \in Watched : history'.early[d] =
            IF room.phase = "waiting" /\ d \in ToSet(t)
            THEN history.early[d] \cup S ELSE history.early[d]
      /\ net' = Sent(msgs)
      /\ Seated' = (IF Len(t) < 2 THEN {} ELSE Seated \ S)
  <2>1. /\ TypeOK /\ Orderly /\ DisconnectPlayers(S, nobody, none, nobody)
        /\ none \in Seq(Message) /\ nobody \in SUBSET Clients /\ nobody \in SUBSET Names
    BY <1>0, <1>1
  <2> QED BY <2>1, Disconnecting
<1>6. /\ ToSet(t) = Seated \ S /\ Len(t) \in Nat
      /\ Alone(S) \subseteq Seated \ S
      /\ Len(t) >= 2 => Alone(S) = {}
  BY <1>0, StayFacts
<1>7. /\ msgs \in [Watched -> Seq(Message)]
      /\ \A d \in Watched : msgs[d] = Parting(S, none, d)
  BY <1>0, <1>1, PartingFacts
<1> HIDE DEF t, msgs
<1>8. \A d \in Watched : client[d].phase # "quit" =>
         Informed(d)' = After(Informed(d), Parting(S, none, d))
  BY <1>0, <1>1, <1>5, <1>7, Delivery
<1>9. \A d : Name(d)' = Name(d)
  BY <1>5 DEF Name
<1>10. ASSUME NEW d \in Watched, d \in Seated, client[d].phase # "quit"
       PROVE  /\ Informed(d) \in ClientType /\ Informed(d).phase = room.phase
              /\ \A n \in Names :
                    /\ Cardinality(Bearing(Living, n)) <= Count(Informed(d).list, n)
                    /\ Count(Informed(d).list, n)
                          <= Cardinality(Bearing(Living, n))
                             + Cardinality(Bearing(history.early[d], n))
  <2>1. d \in Present
    BY <1>10 DEF Present
  <2> QED BY <1>0, <2>1, Unpacked DEF InStep, RosterAgrees, Bearing
<1>11. ASSUME NEW d \in Present'
       PROVE  /\ Informed(d)'.phase = room'.phase
              /\ \A n \in Names :
                    /\ Cardinality(Bearing(Living', n)) <= Count(Informed(d)'.list, n)
                    /\ Count(Informed(d)'.list, n)
                          <= Cardinality(Bearing(Living', n))
                             + Cardinality(Bearing(history'.early[d], n))
  <2>1. ~(Len(t) < 2)
    BY <1>5 DEF Present
  <2>2. d \in Watched /\ d \in Seated \ S /\ client[d].phase # "quit" /\ d \notin Alone(S)
    BY <1>1, <1>5, <1>6, <2>1 DEF Present
  <2>3. PICK h \in Seq(Clients) : /\ Apart(h) /\ ToSet(h) = S
                                  /\ Parting(S, <<>>, d) = Of("OtherLeave", h)
    BY <1>0, <2>2, PartingOfStayer
  <2> DEFINE k == Informed(d)
             l == Informed(d)'
             u == Of("OtherLeave", h)
             E == history.early[d]
  <2>4. l = After(k, u) /\ k \in ClientType /\ k.phase = room.phase
    BY <1>8, <1>10, <2>2, <2>3 DEF none
  <2>5. E \in SUBSET Clients /\ E \cap Seated = {}
    BY <1>0, <2>2, Unpacked DEF Orderly
  <2>6. ASSUME NEW n \in Names
        PROVE  /\ Count(k.list, n) \in Nat
               /\ Cardinality(Bearing(Living, n)) <= Count(k.list, n)
               /\ Count(k.list, n) <= Cardinality(Bearing(Living, n))
                                      + Cardinality(Bearing(E, n))
    <3> DEFINE s == k.list
    <3>1. s \in Seq(Names)
      BY <2>4 DEF ClientType
    <3> HIDE DEF s
    <3>2. Count(s, n) \in Nat
      BY <3>1, CountAppend
    <3> QED BY <1>10, <2>2, <3>2 DEF s
  <2>7. room'.phase = room.phase /\ Living' = Living \ S
    BY <1>5, <2>1 DEF Living, nobody
  <2> HIDE DEF k, l, u, E
  <2>8. CASE room.phase = "waiting"
    <3>1. l = k
      <4>1. room.name \in [Clients -> Names]
        BY <1>0, Unpacked
      <4>2. After(k, Of("OtherLeave", h)) = k
        BY <2>4, <2>8, <4>1, LeavingIsIgnored
      <4> QED BY <2>4, <4>2 DEF u
    <3>2. Living = Seated /\ history'.early[d] = E \cup S
      <4>1. room.dead = {}
        BY <1>0, <2>8 DEF Orderly
      <4> QED BY <1>5, <1>6, <2>2, <2>8, <4>1 DEF Living, E
    <3>3. ASSUME NEW n \in Names
          PROVE  /\ Cardinality(Bearing(Seated \ S, n)) <= Count(k.list, n)
                 /\ Count(k.list, n) <= Cardinality(Bearing(Seated \ S, n))
                                        + Cardinality(Bearing(E \cup S, n))
      <4> DEFINE p == Count(k.list, n)
      <4>1. /\ p \in Nat /\ Cardinality(Bearing(Seated, n)) <= p
            /\ p <= Cardinality(Bearing(Seated, n)) + Cardinality(Bearing(E, n))
        BY <2>6, <3>2
      <4> HIDE DEF p
      <4>2. /\ Cardinality(Bearing(Seated \ S, n)) <= p
            /\ p <= Cardinality(Bearing(Seated \ S, n)) + Cardinality(Bearing(E \cup S, n))
        BY <1>0, <2>5, <4>1, OneMoreGhost
      <4> QED BY <4>2 DEF p
    <3> QED BY <2>4, <2>7, <3>1, <3>2, <3>3 DEF l
  <2>9. CASE room.phase = "playing"
    <3>0. room.name \in [Clients -> Names] /\ k.phase = "playing"
      BY <1>0, <2>4, <2>9, Unpacked
    <3>1. /\ After(k, Of("OtherLeave", h)).phase = "playing"
          /\ \A n : Count(After(k, Of("OtherLeave", h)).list, n) =
                       IF n \in NamesOf(ToSet(h)) /\ Count(k.list, n) > 0
                       THEN Count(k.list, n) - 1 ELSE Count(k.list, n)
      BY <2>3, <2>4, <3>0, Going
    <3>2. history'.early[d] = E
      BY <1>5, <2>2, <2>9 DEF E
    <3>3. ASSUME NEW n \in Names
          PROVE  /\ Cardinality(Bearing(Living \ S, n)) <= Count(l.list, n)
                 /\ Count(l.list, n) <= Cardinality(Bearing(Living \ S, n))
                                        + Cardinality(Bearing(E, n))
      <4> DEFINE p == Count(k.list, n)
                 e == Cardinality(Bearing(E, n))
                 L == Living
      <4>1. /\ p \in Nat /\ Cardinality(Bearing(L, n)) <= p
            /\ p <= Cardinality(Bearing(L, n)) + e
            /\ L \in SUBSET Seated
        BY <2>6 DEF Living
      <4>2. e \in Nat
        BY <2>5, BearingFacts
      <4>3. Count(l.list, n) = IF n \in NamesOf(S) /\ p > 0 THEN p - 1 ELSE p
        BY <2>3, <2>4, <3>1 DEF u
      <4> HIDE DEF p, e, L
      <4>4. LET q == IF n \in NamesOf(S) /\ p > 0 THEN p - 1 ELSE p
                b == Cardinality(Bearing(L \ S, n))
            IN  b <= q /\ q <= b + e
        BY <1>0, <4>1, <4>2, OneLess
      <4> QED BY <4>3, <4>4 DEF L, e
    <3> QED BY <2>4, <2>7, <2>9, <3>1, <3>2, <3>3 DEF l, u
  <2>10. room.phase \in {"waiting", "playing"}
    BY <1>0, <1>1, Unpacked
  <2> QED BY <2>8, <2>9, <2>10
<1>12. InStep'
  BY <1>11 DEF InStep
<1>13. RosterAgrees'
  BY <1>9, <1>11 DEF RosterAgrees, Bearing
<1>14. WinnerKnown'
  <2> SUFFICES ASSUME NEW d \in Watched \cap history'.told, client[d].phase # "quit"
               PROVE  Informed(d)'.winner = history'.winner
    BY <1>1 DEF WinnerKnown
  <2>1. history.told = {} /\ history.winner = {}
    BY <1>0, <1>1 DEF Orderly
  <2>2. room.phase = "playing" /\ d \in Alone(S)
    BY <1>5, <2>1 DEF nobody
  <2>3. d \in Seated \ S
    BY <1>6, <2>2
  <2>4. Alone(S) = {d} /\ d \in Clients
    <3>1. Len(Stay(S)) = 1
      BY <2>2 DEF Alone
    <3>2. Seated \in SUBSET Clients
      BY <1>0, Unpacked
    <3> QED BY <1>0, <2>2, <2>3, <3>1, <3>2, StayFacts
  <2>5. history'.winner = {Name(d)}
    BY <1>5, <2>1, <2>4 DEF nobody, NamesOf
  <2>6. PICK h \in Seq(Clients) :
           /\ Apart(h) /\ ToSet(h) = S /\ Of("OtherLeave", h) \in Seq(Message)
           /\ Parting(S, <<>>, d) =
                 Of("OtherLeave", h) \o (Of("GameWon", <<d>>) \o <<Eof>>)
    BY <1>0, <2>2, <2>3, PartingOfStayer
  <2> DEFINE k == Informed(d)
             u == Of("OtherLeave", h)
             e == <<Eof>>
             w == Of("GameWon", <<d>>) \o e
             l == After(k, u)
  <2>7. k \in ClientType /\ k.phase = "playing" /\ Informed(d)' = After(k, u \o w)
    BY <1>8, <1>10, <2>2, <2>3, <2>6 DEF none
  <2>8. room.name \in [Clients -> Names]
    BY <1>0, Unpacked
  <2>9. /\ e \in Seq(Message) /\ w \in Seq(Message)
        /\ \A m \in ToSet(e) : m.type # "GameWon"
    <3>1. Eof \in Message /\ Eof.type = "Eof"
      BY DEF Eof, Message
    <3>2. e \in Seq(Message) /\ \A m \in ToSet(e) : m = Eof
      BY <3>1 DEF ToSet
    <3>3. \A m \in ToSet(e) : m.type # "GameWon"
      BY <3>1, <3>2
    <3>4. About("GameWon", d) \in Message /\ Of("GameWon", <<d>>) = <<About("GameWon", d)>>
      BY <2>4, <2>8, AboutIsMessage, OfOne
    <3>5. Of("GameWon", <<d>>) \in Seq(Message)
      <4> DEFINE m == About("GameWon", d)
      <4>1. m \in Message /\ Of("GameWon", <<d>>) = <<m>>
        BY <3>4
      <4> HIDE DEF m
      <4>2. <<m>> \in Seq(Message)
        BY <4>1
      <4> QED BY <4>1, <4>2
    <3> HIDE DEF e
    <3> QED BY <3>2, <3>3, <3>5
  <2> HIDE DEF k
  <2>10. l \in ClientType /\ l.phase = "playing"
    BY <2>6, <2>7, <2>8, Going
  <2> HIDE DEF u, e, w
  <2>11. After(k, u \o w) = After(l, w)
    BY <2>6, <2>9, AfterConcat DEF u
  <2> HIDE DEF l
  <2>12. After(l, Of("GameWon", <<d>>) \o e).winner = {Name(d)}
    BY <2>4, <2>8, <2>9, <2>10, Winning
  <2> QED BY <2>5, <2>7, <2>11, <2>12 DEF w
<1> QED BY <1>4, <1>12, <1>13, <1>14 DEF Inv

-----------------------------------------------------------------------------
(* Explosions.                                                             *)

\* What everybody is told of the players H.
Hits(H) == Of("GotHit", Kept(room.seats, H))

\* GotHit is sent about the players hit, each once.
LEMMA HitsFacts ==
    ASSUME TypeOK, Orderly, NEW H \in SUBSET Seated
    PROVE  /\ Hits(H) \in Seq(Message)
           /\ \A d \in Seated : \A m \in ToSet(Hits(H)) : TakesOff(m, Name(d)) => d \in H
           /\ \A m \in ToSet(Hits(H)) : m.type # "GameWon"
           /\ \E h \in Seq(Clients) : Apart(h) /\ ToSet(h) = H /\ Hits(H) = Of("GotHit", h)
<1> DEFINE s == room.seats
           h == Kept(s, H)
<1>1. /\ s \in Seq(Clients) /\ Once(s) /\ Seated = ToSet(s)
      /\ room.name \in [Clients -> Names]
  BY Unpacked DEF Orderly, Seated
<1>2. Hits(H) = Of("GotHit", h)
  BY DEF Hits
<1> HIDE DEF s
<1>3. h \in Seq(Clients) /\ ToSet(h) = ToSet(s) \cap H /\ Once(h)
  BY <1>1, KeptFacts
<1>4. ToSet(h) = H
  BY <1>1, <1>3
<1> HIDE DEF h
<1>5. Apart(h)
  BY <1>3, <1>4, ApartIfOnce
<1>6. /\ Of("GotHit", h) \in Seq(Message)
      /\ \A m \in ToSet(Of("GotHit", h)) : \E c \in ToSet(h) : m = About("GotHit", c)
  BY <1>1, <1>3, OfFacts
<1>7. \A m \in ToSet(Hits(H)) : \E c \in H : m.type = "GotHit" /\ m.name = Name(c)
  BY <1>2, <1>4, <1>6 DEF About
<1>8. \A d \in Seated : \A m \in ToSet(Hits(H)) : TakesOff(m, Name(d)) => d \in H
  BY <1>7 DEF Orderly, TakesOff
<1> QED BY <1>2, <1>3, <1>4, <1>5, <1>6, <1>7, <1>8

\* At least two are alive after the explosion: the match goes on.
LEMMA HitStep ==
    ASSUME Inv, NEW H \in SUBSET Living, room.phase = "playing",
           room' = [room EXCEPT !.dead = @ \cup H],
           net' = Sent([d \in Watched |-> IF d \in Seated THEN Hits(H) ELSE <<>>]),
           client' = client, queue' = queue, history' = history
    PROVE  Inv'
<1>0. /\ TypeOK /\ Orderly /\ InStep /\ RosterAgrees
  BY DEF Inv
<1> DEFINE msgs == [d \in Watched |-> IF d \in Seated THEN Hits(H) ELSE <<>>]
<1>1. H \in SUBSET Seated /\ H \in SUBSET Clients /\ room.name \in [Clients -> Names]
  BY <1>0, Unpacked DEF Living
<1>2. /\ room'.dead = room.dead \cup H /\ room'.seats = room.seats
      /\ room'.phase = room.phase /\ room'.name = room.name
      /\ room'.joined = room.joined /\ room'.answered = room.answered
  BY <1>0 DEF TypeOK
<1>3. /\ Seated' = Seated /\ Living' = Living \ H
      /\ \A d : Name(d)' = Name(d)
  BY <1>2 DEF Seated, Living, Name
<1>4. /\ Hits(H) \in Seq(Message)
      /\ \A d \in Seated : \A m \in ToSet(Hits(H)) : TakesOff(m, Name(d)) => d \in H
  BY <1>0, <1>1, HitsFacts
<1>5. PICK h \in Seq(Clients) : Apart(h) /\ ToSet(h) = H /\ Hits(H) = Of("GotHit", h)
  BY <1>0, <1>1, HitsFacts
<1>6. /\ msgs \in [Watched -> Seq(Message)]
      /\ \A d \in Watched : msgs[d] = IF d \in Seated THEN Hits(H) ELSE <<>>
  <2>1. <<>> \in Seq(Message)
    OBVIOUS
  <2> QED BY <1>4, <2>1
<1>7. net' = Sent(msgs)
  OBVIOUS
<1> HIDE DEF msgs
<1>8. /\ net' \in [Watched -> Seq(Message)]
      /\ \A d \in Watched : client[d].phase # "quit" =>
            Informed(d)' = After(Informed(d), msgs[d])
  BY <1>0, <1>6, <1>7, Delivery
<1>9. TypeOK'
  <2>1. room.dead \cup H \in SUBSET Clients
    BY <1>0, <1>1, Unpacked
  <2> QED BY <1>0, <1>8, <2>1 DEF TypeOK
<1>10. Orderly'
  <2>1. \A c, d \in Seated : Name(c) = Name(d) => c = d
    BY <1>0 DEF Orderly
  <2> QED BY <1>0, <1>2, <1>3, <2>1 DEF Orderly
<1>11. Unanswered' /\ Introduced' /\ SelfFirst'
  <2>1. \A d \in Watched : d \notin room.answered' => msgs[d] = <<>>
    <3>1. Seated \subseteq room.answered
      BY <1>0 DEF Orderly
    <3> QED BY <1>2, <1>6, <3>1
  <2>2. \A d \in Watched : ~(d \in room.answered' /\ d \notin room.answered)
    BY <1>2
  <2>3. \A d \in Watched : \A m \in ToSet(msgs[d]) :
              TakesOff(m, Name(d)) => d \in room.dead'
    <3>1. \A m : m \notin ToSet(<<>>)
      BY DEF ToSet
    <3> QED BY <1>2, <1>4, <1>6, <3>1
  <2>4. /\ room.name' = room.name /\ room.dead \subseteq room.dead'
        /\ room.answered \subseteq room.answered'
    BY <1>2
  <2> QED BY <1>6, <1>7, <2>1, <2>2, <2>3, <2>4, Telling
<1>12. ASSUME NEW d \in Present'
       PROVE  /\ Informed(d)'.phase = room'.phase
              /\ \A n \in Names :
                    /\ Cardinality(Bearing(Living', n)) <= Count(Informed(d)'.list, n)
                    /\ Count(Informed(d)'.list, n)
                          <= Cardinality(Bearing(Living', n))
                             + Cardinality(Bearing(history'.early[d], n))
  <2>1. d \in Watched /\ d \in Seated /\ client[d].phase # "quit" /\ d \in Present
    BY <1>3 DEF Present
  <2> DEFINE k == Informed(d)
             l == Informed(d)'
             u == Of("GotHit", h)
             E == history.early[d]
  <2>2. /\ l = After(k, u) /\ k \in ClientType /\ k.phase = "playing"
        /\ E \in SUBSET Clients
    BY <1>0, <1>5, <1>6, <1>8, <2>1, Unpacked DEF InStep
  <2>3. ASSUME NEW n \in Names
        PROVE  /\ Count(k.list, n) \in Nat
               /\ Cardinality(Bearing(Living, n)) <= Count(k.list, n)
               /\ Count(k.list, n) <= Cardinality(Bearing(Living, n))
                                      + Cardinality(Bearing(E, n))
    <3> DEFINE s == k.list
    <3>1. s \in Seq(Names)
      BY <2>2 DEF ClientType
    <3> HIDE DEF s
    <3>2. Count(s, n) \in Nat
      BY <3>1, CountAppend
    <3> QED BY <1>0, <2>1, <3>2 DEF s, RosterAgrees, Bearing
  <2> HIDE DEF k, l, u, E
  <2>4. /\ After(k, Of("GotHit", h)).phase = "playing"
        /\ \A n : Count(After(k, Of("GotHit", h)).list, n) =
                     IF n \in NamesOf(ToSet(h)) /\ Count(k.list, n) > 0
                     THEN Count(k.list, n) - 1 ELSE Count(k.list, n)
    BY <1>1, <1>5, <2>2, Going
  <2>5. ASSUME NEW n \in Names
        PROVE  /\ Cardinality(Bearing(Living \ H, n)) <= Count(l.list, n)
               /\ Count(l.list, n) <= Cardinality(Bearing(Living \ H, n))
                                      + Cardinality(Bearing(E, n))
    <3> DEFINE p == Count(k.list, n)
               e == Cardinality(Bearing(E, n))
               L == Living
    <3>1. /\ p \in Nat /\ Cardinality(Bearing(L, n)) <= p
          /\ p <= Cardinality(Bearing(L, n)) + e
          /\ L \in SUBSET Seated
      BY <2>3 DEF Living
    <3>2. e \in Nat
      BY <2>2, BearingFacts
    <3>3. Count(l.list, n) = IF n \in NamesOf(H) /\ p > 0 THEN p - 1 ELSE p
      BY <1>5, <2>2, <2>4 DEF u
    <3> HIDE DEF p, e, L
    <3>4. LET q == IF n \in NamesOf(H) /\ p > 0 THEN p - 1 ELSE p
              b == Cardinality(Bearing(L \ H, n))
          IN  b <= q /\ q <= b + e
      BY <1>0, <1>1, <3>1, <3>2, OneLess
    <3> QED BY <3>3, <3>4 DEF L, e
  <2>6. l.phase = "playing"
    BY <2>2, <2>4 DEF u
  <2> QED BY <1>2, <1>3, <2>5, <2>6 DEF l, E
<1>13. InStep'
  BY <1>12 DEF InStep
<1>14. RosterAgrees'
  BY <1>3, <1>12 DEF RosterAgrees, Bearing
<1>15. WinnerKnown'
  <2>1. history'.told = {}
    BY <1>0 DEF Orderly
  <2> QED BY <2>1 DEF WinnerKnown
<1> QED BY <1>9, <1>10, <1>11, <1>13, <1>14, <1>15 DEF Inv

\* Fewer are alive: somebody has won, and everybody hears it before the end.
LEMMA WinStep ==
    ASSUME Inv, NEW H \in SUBSET Living, room.phase = "playing", NEW w \in Seated,
           DisconnectPlayers(Seated, H, Hits(H) \o Of("GameWon", <<w>>), {Name(w)}),
           client' = client, queue' = queue
    PROVE  Inv'
<1>0. /\ TypeOK /\ Orderly /\ InStep
  BY DEF Inv
<1> DEFINE g == Of("GameWon", <<w>>)
           said == Hits(H) \o g
           W == {Name(w)}
           S == Seated
           msgs == [d \in Watched |-> Parting(S, said, d)]
<1>1. /\ H \in SUBSET Seated /\ H \in SUBSET Clients /\ room.name \in [Clients -> Names]
      /\ w \in Clients /\ W \in SUBSET Names /\ W # {} /\ S \in SUBSET Seated
  <2>1. Seated \in SUBSET Clients /\ room.name \in [Clients -> Names]
    BY <1>0, Unpacked
  <2>2. Name(w) \in Names
    BY <2>1 DEF Name
  <2> QED BY <2>1, <2>2 DEF Living
<1>2. /\ Hits(H) \in Seq(Message)
      /\ \A d \in Seated : \A m \in ToSet(Hits(H)) : TakesOff(m, Name(d)) => d \in H
      /\ \A m \in ToSet(Hits(H)) : m.type # "GameWon"
  BY <1>0, <1>1, HitsFacts
<1>3. PICK h \in Seq(Clients) : Apart(h) /\ ToSet(h) = H /\ Hits(H) = Of("GotHit", h)
  BY <1>0, <1>1, HitsFacts
<1>4. g \in Seq(Message) /\ \A m \in ToSet(g) : m.type = "GameWon"
  <2> DEFINE m == About("GameWon", w)
  <2>1. m \in Message /\ g = <<m>> /\ m.type = "GameWon"
    BY <1>1, AboutIsMessage, OfOne DEF About
  <2> HIDE DEF m
  <2>2. <<m>> \in Seq(Message) /\ \A x \in ToSet(<<m>>) : x = m
    BY <2>1 DEF ToSet
  <2> QED BY <2>1, <2>2
<1> HIDE DEF g
<1>5. said \in Seq(Message) /\ ToSet(said) = ToSet(Hits(H)) \cup ToSet(g)
  BY <1>2, <1>4, ConcatFacts
<1>6. DisconnectPlayers(S, H, said, W)
  BY DEF g
<1>7. \A d \in Seated : \A m \in ToSet(said) : TakesOff(m, Name(d)) => d \in H
  BY <1>2, <1>4, <1>5 DEF TakesOff
<1>8. room.phase # "over" /\ (room.phase = "waiting" => H = {}) /\ (W # {} => S = Seated)
  OBVIOUS
<1> HIDE DEF said, W, S
<1>9. TypeOK' /\ Orderly' /\ Unanswered' /\ Introduced' /\ SelfFirst'
  BY <1>1, <1>5, <1>6, <1>7, <1>8, DisconnectStep
<1> DEFINE t == Stay(S)
<1>10. /\ room'.seats = (IF Len(t) < 2 THEN <<>> ELSE t)
       /\ room'.phase = (IF Len(t) < 2 THEN "over" ELSE room.phase)
       /\ room'.dead = room.dead \cup H
       /\ room'.name = room.name /\ room'.joined = room.joined
       /\ room'.answered = room.answered
       /\ room' \in [phase : {"waiting", "playing", "over"}, seats : Seq(Clients),
                     dead : SUBSET Clients, joined : 0 .. MaxPlayers,
                     answered : SUBSET Clients, name : [Clients -> Names]]
       /\ history'.winner = history.winner \cup W \cup NamesOf(Alone(S))
       /\ history'.told = (IF room.phase # "playing" THEN history.told
                           ELSE IF W # {} THEN Seated ELSE Alone(S))
       /\ history' \in [winner : SUBSET Names, told : SUBSET Clients,
                        early : [Watched -> SUBSET Clients]]
       /\ \A d \in Watched : history'.early[d] =
             IF room.phase = "waiting" /\ d \in ToSet(t)
             THEN history.early[d] \cup S ELSE history.early[d]
       /\ net' = Sent(msgs)
       /\ Seated' = (IF Len(t) < 2 THEN {} ELSE Seated \ S)
  BY <1>0, <1>1, <1>5, <1>6, Disconnecting
<1>11. Len(t) = 0 /\ Alone(S) = {}
  BY <1>0, <1>1, <1>8, StayFacts
<1>12. /\ msgs \in [Watched -> Seq(Message)]
       /\ \A d \in Watched : msgs[d] = Parting(S, said, d)
  BY <1>0, <1>1, <1>5, PartingFacts
<1> HIDE DEF t, msgs
<1>13. Present' = {}
  BY <1>10, <1>11 DEF Present
<1>14. InStep' /\ RosterAgrees'
  BY <1>13 DEF InStep, RosterAgrees
<1>15. WinnerKnown'
  <2> SUFFICES ASSUME NEW d \in Watched \cap history'.told, client[d].phase # "quit"
               PROVE  Informed(d)'.winner = history'.winner
    BY DEF WinnerKnown
  <2>1. d \in Seated
    BY <1>1, <1>10
  <2>2. history'.winner = {Name(w)}
    <3>1. history.winner = {} /\ NamesOf(Alone(S)) = {}
      BY <1>0, <1>11 DEF Orderly, NamesOf
    <3> QED BY <1>10, <3>1 DEF W
  <2> DEFINE k == Informed(d)
             u == Of("GotHit", h)
             f == Farewell(S, d)
             x == g \o f
             l == After(k, u)
  <2>3. k \in ClientType /\ k.phase = "playing" /\ Informed(d)' = After(k, msgs[d])
    <3>1. d \in Present
      BY <2>1 DEF Present
    <3>2. Informed(d)' = After(Informed(d), msgs[d])
      BY <1>0, <1>10, <1>12, Delivery
    <3> QED BY <1>0, <3>1, <3>2, Unpacked DEF InStep
  <2>4. f \in Seq(Message) /\ \A m \in ToSet(f) : m.type # "GameWon"
    BY <1>0, <1>1, <2>1, FarewellFacts, GoodbyeHasNoWinner
  <2>5. u \in Seq(Message) /\ Hits(H) = u
    BY <1>2, <1>3
  <2> HIDE DEF k
  <2>6. l \in ClientType /\ l.phase = "playing"
    BY <1>1, <1>3, <2>3, Going
  <2> HIDE DEF u, f, l
  <2>7. x \in Seq(Message)
    BY <1>4, <2>4
  <2>8. msgs[d] = u \o x
    <3>1. Parting(S, said, d) = (said \o f) \o <<>>
      BY <1>11, <2>1 DEF Parting, f
    <3>2. said \o f \in Seq(Message)
      BY <1>5, <2>4
    <3>3. (said \o f) \o <<>> = said \o f
      <4> DEFINE y == said \o f
      <4>1. y \in Seq(Message)
        BY <3>2
      <4> HIDE DEF y
      <4>2. y \o <<>> = y
        BY <4>1
      <4> QED BY <4>2 DEF y
    <3>4. (u \o g) \o f = u \o (g \o f)
      <4>1. \A a, b, c \in Seq(Message) : (a \o b) \o c = a \o (b \o c)
        BY Associative
      <4> QED BY <1>4, <2>4, <2>5, <4>1, Zenon
    <3>5. said = u \o g
      BY <2>5 DEF said
    <3> QED BY <1>12, <3>1, <3>3, <3>4, <3>5
  <2>9. After(k, u \o x) = After(l, x)
    <3> HIDE DEF x
    <3> QED BY <2>5, <2>7, AfterConcat DEF l
  <2>10. After(l, Of("GameWon", <<w>>) \o f).winner = {Name(w)}
    BY <1>1, <2>4, <2>6, Winning
  <2> QED BY <2>2, <2>3, <2>8, <2>9, <2>10 DEF g
<1> QED BY <1>9, <1>14, <1>15 DEF Inv

\* An explosion, whether the match goes on or not.
LEMMA ExplodeStep ==
    ASSUME Inv, NEW H \in SUBSET Seated, Explode(H)
    PROVE  Inv'
<1> DEFINE alive == Living \ H
<1>1. /\ room.phase = "playing" /\ H \in SUBSET Living /\ alive \subseteq Seated
      /\ client' = client /\ queue' = queue
      /\ \/ /\ room' = [room EXCEPT !.dead = @ \cup H] /\ history' = history
            /\ net' = Sent([d \in Watched |-> IF d \in Seated THEN Hits(H) ELSE <<>>])
         \/ \E w \in IF alive = {} THEN Seated ELSE alive :
               DisconnectPlayers(Seated, H, Hits(H) \o Of("GameWon", <<w>>), {Name(w)})
  BY DEF Explode, Hits, Living
<1>2. CASE \E w \in Seated :
              DisconnectPlayers(Seated, H, Hits(H) \o Of("GameWon", <<w>>), {Name(w)})
  BY <1>1, <1>2, WinStep
<1>3. CASE /\ room' = [room EXCEPT !.dead = @ \cup H] /\ history' = history
           /\ net' = Sent([d \in Watched |-> IF d \in Seated THEN Hits(H) ELSE <<>>])
  BY <1>1, <1>3, HitStep
<1> HIDE DEF alive
<1> QED BY <1>1, <1>2, <1>3

-----------------------------------------------------------------------------
(* The theorems.                                                           *)

\* An empty room and clients in the menu.
LEMMA InitInv == Init => Inv
<1> SUFFICES ASSUME Init PROVE Inv
  OBVIOUS
<1>1. PICK name \in NameChoices :
         room = [phase |-> "waiting", seats |-> <<>>, dead |-> {}, joined |-> 0,
                 answered |-> {}, name |-> name]
  BY DEF Init
<1>2. name \in [Clients -> Names]
  BY RosterAssumption
<1>3. /\ client = [c \in Watched |-> [phase |-> "menu", list |-> <<>>, winner |-> {},
                                      draining |-> FALSE]]
      /\ net = [c \in Watched |-> <<>>] /\ queue = [c \in Watched |-> <<>>]
      /\ history = [winner |-> {}, told |-> {}, early |-> [c \in Watched |-> {}]]
  BY DEF Init
<1>4. TypeOK
  <2>1. 0 \in 0 .. MaxPlayers
    BY RosterAssumption
  <2> QED BY <1>1, <1>2, <1>3, <2>1 DEF TypeOK
<1>5. Seated = {} /\ room.seats = <<>>
  BY <1>1 DEF Seated, ToSet
<1>6. Orderly
  <2>1. Once(room.seats)
    BY <1>5 DEF Once
  <2>2. room.joined < MaxPlayers
    BY <1>1, RosterAssumption
  <2> QED BY <1>1, <1>3, <1>5, <2>1, <2>2 DEF Orderly
<1>7. Unanswered
  BY <1>1, <1>3 DEF Unanswered
<1>8. InStep /\ RosterAgrees
  BY <1>5 DEF InStep, RosterAgrees, Present
<1>9. Introduced
  <2>1. \A c \in Watched : Unread(c) = <<>>
    BY <1>3 DEF Unread
  <2>2. \A m : m \notin ToSet(<<>>)
    BY DEF ToSet
  <2> QED BY <1>1, <2>1, <2>2 DEF Introduced
<1>10. SelfFirst
  BY <1>3 DEF SelfFirst
<1>11. WinnerKnown
  BY <1>3 DEF WinnerKnown
<1> QED BY <1>4, <1>6, <1>7, <1>8, <1>9, <1>10, <1>11 DEF Inv

\* Nothing happens.
LEMMA StutterInv == ASSUME Inv, UNCHANGED vars PROVE Inv'
<1>1. /\ room' = room /\ client' = client /\ net' = net /\ queue' = queue
      /\ history' = history
  BY DEF vars
<1>2. /\ Seated' = Seated /\ Living' = Living /\ Present' = Present
      /\ \A c : Name(c)' = Name(c) /\ Unread(c)' = Unread(c) /\ Informed(c)' = Informed(c)
  BY <1>1 DEF Seated, Living, Present, Name, Unread, Informed
<1>3. TypeOK'
  BY <1>1 DEF Inv, TypeOK
<1>4. Orderly'
  BY <1>1, <1>2 DEF Inv, Orderly
<1>5. Unanswered'
  BY <1>1 DEF Inv, Unanswered
<1>6. InStep'
  BY <1>1, <1>2 DEF Inv, InStep
<1>7. Introduced'
  BY <1>1, <1>2 DEF Inv, Introduced
<1>8. SelfFirst'
  BY <1>1, <1>2 DEF Inv, SelfFirst
<1>9. RosterAgrees'
  BY <1>1, <1>2 DEF Inv, RosterAgrees
<1>10. WinnerKnown'
  BY <1>1, <1>2 DEF Inv, WinnerKnown
<1> QED BY <1>3, <1>4, <1>5, <1>6, <1>7, <1>8, <1>9, <1>10 DEF Inv

\* The invariant holds in every state that can be reached.
THEOREM Invariance == Spec => []Inv
<1>1. Inv /\ [Next]_vars => Inv'
  <2> SUFFICES ASSUME Inv, [Next]_vars PROVE Inv'
    OBVIOUS
  <2>1. ASSUME NEW c \in Clients, JoinPlayer(c) PROVE Inv'
    BY <2>1, JoinStep
  <2>2. ASSUME NEW c \in Clients, Refuse(c) PROVE Inv'
    BY <2>2, RefuseStep
  <2>3. ASSUME NEW S \in SUBSET Seated, Leave(S) PROVE Inv'
    BY <2>3, LeaveStep
  <2>4. ASSUME NEW S \in SUBSET Seated, Explode(S) PROVE Inv'
    BY <2>4, ExplodeStep
  <2>5. ASSUME NEW c \in Watched, Ask(c) PROVE Inv'
    BY <2>5, AskStep
  <2>6. ASSUME NEW c \in Watched, Receive(c) PROVE Inv'
    BY <2>6, ReceiveStep
  <2>7. ASSUME NEW c \in Watched, Quit(c) PROVE Inv'
    BY <2>7, QuitStep
  <2>8. CASE UNCHANGED vars
    BY <2>8, StutterInv
  <2> QED BY <2>1, <2>2, <2>3, <2>4, <2>5, <2>6, <2>7, <2>8 DEF Next
<1> QED BY <1>1, InitInv, PTL DEF Spec

\* The state of the room, of the clients and of the connections is well
\* formed, and inboundQueue never holds the end of the stream.
THEOREM Typing == Spec => []TypeOK
<1>1. Inv => TypeOK
  BY DEF Inv
<1> QED BY <1>1, Invariance, PTL

\* A client that lives and lists anybody lists itself first, whatever is read
\* together and whoever else joins, dies or leaves.
THEOREM SelfFirstAlways == Spec => []SelfFirst
<1>1. Inv => SelfFirst
  BY DEF Inv
<1> QED BY <1>1, Invariance, PTL

\* Every client, as soon as it has handled what was sent to it, lists every
\* living player, and nobody else but those who left before the start.
THEOREM RosterAgreesAlways == Spec => []RosterAgrees
<1>1. Inv => RosterAgrees
  BY DEF Inv
<1> QED BY <1>1, Invariance, PTL

\* Everybody in the room at the end of a match is told who has won it.
THEOREM WinnerKnownAlways == Spec => []WinnerKnown
<1>1. Inv => WinnerKnown
  BY DEF Inv
<1> QED BY <1>1, Invariance, PTL

-----------------------------------------------------------------------------
(* The room as it is told here is the abstract match.                      *)

\* Joining a room is entering a match.
LEMMA JoinIsEnter ==
    ASSUME Inv, NEW c \in Clients, JoinPlayer(c)
    PROVE  M!Enter(Name(c))
<1>0. TypeOK /\ Orderly
  BY DEF Inv
<1>1. /\ c \notin room.answered /\ Name(c) \notin NamesOf(Seated)
      /\ room.joined < MaxPlayers /\ room.phase = "waiting"
      /\ room' = [room EXCEPT !.seats = Welcome(c), !.joined = @ + 1,
                              !.answered = @ \cup {c},
                              !.phase = IF Starts THEN "playing" ELSE @]
      /\ history' = history
  BY DEF JoinPlayer, Asks, CanJoin
<1>2. /\ room'.seats = Welcome(c) /\ room'.name = room.name
      /\ room'.joined = room.joined + 1
      /\ room'.phase = IF room'.joined = MaxPlayers THEN "playing" ELSE "waiting"
  BY <1>0, <1>1 DEF TypeOK, Starts
<1>3. c \notin Seated
  BY <1>0, <1>1 DEF Orderly
<1>4. Seated' = Seated \cup {c}
  BY <1>0, <1>2, <1>3, WelcomeFacts DEF Seated
<1>5. NamesOf(Seated)' = NamesOf(Seated) \cup {Name(c)}
  BY <1>2, <1>4 DEF NamesOf, Name
<1> QED BY <1>1, <1>2, <1>5 DEF M!Enter

\* A disconnection is a Leave as long as two stay, else the end.
LEMMA DisconnectionIsMatchStep ==
    ASSUME Inv, room.phase # "over", NEW S \in SUBSET Seated, Seated # {},
           NEW H \in SUBSET Clients, NEW said \in Seq(Message), NEW W \in SUBSET Names,
           DisconnectPlayers(S, H, said, W),
           W = {} \/ \E w \in Seated : W = {Name(w)} /\ S = Seated
    PROVE  M!Next
<1>0. TypeOK /\ Orderly
  BY DEF Inv
<1> DEFINE t == Stay(S)
<1>1. /\ room'.seats = (IF Len(t) < 2 THEN <<>> ELSE t)
      /\ room'.phase = (IF Len(t) < 2 THEN "over" ELSE room.phase)
      /\ room'.dead = room.dead \cup H
      /\ room'.name = room.name /\ room'.joined = room.joined
      /\ room'.answered = room.answered
      /\ room' \in [phase : {"waiting", "playing", "over"}, seats : Seq(Clients),
                    dead : SUBSET Clients, joined : 0 .. MaxPlayers,
                    answered : SUBSET Clients, name : [Clients -> Names]]
      /\ history'.winner = history.winner \cup W \cup NamesOf(Alone(S))
      /\ history'.told = (IF room.phase # "playing" THEN history.told
                          ELSE IF W # {} THEN Seated ELSE Alone(S))
      /\ history' \in [winner : SUBSET Names, told : SUBSET Clients,
                       early : [Watched -> SUBSET Clients]]
      /\ \A d \in Watched : history'.early[d] =
            IF room.phase = "waiting" /\ d \in ToSet(t)
            THEN history.early[d] \cup S ELSE history.early[d]
      /\ net' = Sent([d \in Watched |-> Parting(S, said, d)])
      /\ Seated' = (IF Len(t) < 2 THEN {} ELSE Seated \ S)
  BY <1>0, Disconnecting
<1>2. /\ t \in Seq(Clients) /\ Len(t) \in Nat /\ ToSet(t) = Seated \ S /\ Once(t)
      /\ S = Seated => Len(t) = 0 /\ Alone(S) = {}
      /\ Len(t) >= 2 => Alone(S) = {}
      /\ Len(t) = 1 => \E d \in Seated \ S : t = <<d>> /\ Alone(S) = {d}
      /\ Alone(S) \subseteq Seated \ S
  BY <1>0, StayFacts
<1>3. Len(t) # 1 => Alone(S) = {}
  BY DEF Alone
<1> HIDE DEF t
<1>4. /\ history.winner = {}
      /\ \A c, d \in Seated : Name(c) = Name(d) => c = d
  BY <1>0 DEF Orderly
<1>5. \A C : NamesOf(C)' = NamesOf(C)
  BY <1>1 DEF NamesOf, Name
<1>6. CASE Len(t) < 2
  <2> DEFINE V == W \cup NamesOf(Alone(S))
  <2>1. V \in SUBSET NamesOf(Seated)
    BY <1>2 DEF NamesOf
  <2>2. \A u, v \in V : u = v
    <3>1. CASE W = {}
      <4>1. \A c, d \in Alone(S) : c = d
        BY <1>2, <1>3
      <4> QED BY <3>1, <4>1 DEF NamesOf
    <3>2. CASE \E w \in Seated : W = {Name(w)} /\ S = Seated
      <4>1. NamesOf(Alone(S)) = {}
        BY <1>2, <3>2 DEF NamesOf
      <4> QED BY <3>2, <4>1
    <3> QED BY <3>1, <3>2
  <2>3. NamesOf(Seated) # {}
    BY DEF NamesOf
  <2>4. NamesOf(Seated)' = {}
    BY <1>1, <1>6 DEF NamesOf
  <2>5. /\ room'.phase = "over" /\ room'.joined = room.joined /\ history'.winner = V
    BY <1>1, <1>4, <1>6
  <2> HIDE DEF V
  <2>6. M!Finish(V)
    BY <2>2, <2>3, <2>4, <2>5 DEF M!Finish
  <2> QED BY <2>1, <2>6 DEF M!Next
<1>7. CASE ~(Len(t) < 2)
  <2>1. Len(t) >= 2
    BY <1>2, <1>7
  <2>2. W = {} /\ Alone(S) = {}
    BY <1>2, <2>1
  <2>3. PICK m, n \in Seated \ S : m # n
    <3>1. 1 \in 1 .. Len(t) /\ 2 \in 1 .. Len(t) /\ DOMAIN t = 1 .. Len(t)
      BY <1>2, <2>1
    <3>2. t[1] \in ToSet(t) /\ t[2] \in ToSet(t)
      BY <3>1 DEF ToSet
    <3>3. t[1] # t[2]
      BY <1>2, <3>1 DEF Once
    <3> QED BY <1>2, <3>2, <3>3
  <2>4. NamesOf(Seated \ S) = NamesOf(Seated) \ NamesOf(S)
    <3>1. ASSUME NEW c \in Seated, c \notin S PROVE Name(c) \notin NamesOf(S)
      BY <1>4, <3>1 DEF NamesOf
    <3> QED BY <3>1 DEF NamesOf
  <2>5. /\ Name(m) \in NamesOf(Seated) \ NamesOf(S)
        /\ Name(n) \in NamesOf(Seated) \ NamesOf(S)
        /\ Name(m) # Name(n)
    <3>1. Name(m) \in NamesOf(Seated \ S) /\ Name(n) \in NamesOf(Seated \ S)
      BY DEF NamesOf
    <3> QED BY <1>4, <2>3, <2>4, <3>1
  <2>6. NamesOf(S) \in SUBSET NamesOf(Seated)
    BY DEF NamesOf
  <2>7. NamesOf(Seated)' = NamesOf(Seated) \ NamesOf(S)
    <3>1. Seated' = Seated \ S
      BY <1>1, <1>7
    <3>2. NamesOf(Seated)' = NamesOf(Seated \ S)
      BY <1>1, <3>1 DEF NamesOf, Name
    <3> QED BY <2>4, <3>2
  <2>8. history'.winner = history.winner
    BY <1>1, <1>4, <2>2 DEF NamesOf
  <2>9. M!Leave(NamesOf(S))
    <3> DEFINE gone == NamesOf(S)
               now == NamesOf(Seated)
    <3>1. \E c, d \in now \ gone : c # d
      BY <2>5
    <3>2. now' = now \ gone
      BY <2>7
    <3>3. room.phase # "over"
      BY <1>1
    <3>4. room'.phase = room.phase /\ room'.joined = room.joined
      BY <1>1, <1>7, <1>4
    <3>5. history'.winner = history.winner
      BY <2>8
    <3> SUFFICES M!Leave(gone)
      OBVIOUS
    <3> HIDE DEF gone
    <3> QED BY <3>1, <3>2, <3>3, <3>4, <3>5 DEF M!Leave
  <2> QED BY <2>6, <2>9 DEF M!Next
<1> QED BY <1>6, <1>7

\* An explosion is nothing to the match, or its end.
LEMMA ExplosionIsMatchStep ==
    ASSUME Inv, NEW H \in SUBSET Seated, Explode(H)
    PROVE  M!Next \/ UNCHANGED M!vars
<1> DEFINE alive == Living \ H
<1>0. TypeOK /\ Orderly
  BY DEF Inv
<1>1. /\ room.phase = "playing" /\ H \in SUBSET Seated /\ alive \subseteq Seated
      /\ \/ room' = [room EXCEPT !.dead = @ \cup H] /\ history' = history
         \/ \E w \in IF alive = {} THEN Seated ELSE alive :
               DisconnectPlayers(Seated, H, Hits(H) \o Of("GameWon", <<w>>), {Name(w)})
  BY DEF Explode, Hits, Living
<1>2. CASE room' = [room EXCEPT !.dead = @ \cup H] /\ history' = history
  <2>1. /\ room'.seats = room.seats /\ room'.name = room.name
        /\ room'.phase = room.phase /\ room'.joined = room.joined
    BY <1>0, <1>2 DEF TypeOK
  <2> QED BY <1>2, <2>1 DEF M!vars, NamesOf, Seated, Name
<1>3. CASE \E w \in Seated :
              DisconnectPlayers(Seated, H, Hits(H) \o Of("GameWon", <<w>>), {Name(w)})
  <2>1. PICK w \in Seated :
           DisconnectPlayers(Seated, H, Hits(H) \o Of("GameWon", <<w>>), {Name(w)})
    BY <1>3
  <2> DEFINE g == Of("GameWon", <<w>>)
             said == Hits(H) \o g
             W == {Name(w)}
             S == Seated
  <2>2. /\ Seated \in SUBSET Clients /\ room.name \in [Clients -> Names]
        /\ w \in Clients /\ H \in SUBSET Clients
    BY <1>0, <1>1, Unpacked
  <2>3. W \in SUBSET Names /\ S \in SUBSET Seated /\ Seated # {}
    BY <2>2 DEF Name
  <2>4. said \in Seq(Message)
    <3> DEFINE m == About("GameWon", w)
    <3>1. m \in Message /\ g = <<m>>
      BY <2>2, AboutIsMessage, OfOne
    <3> HIDE DEF m, g
    <3>2. g \in Seq(Message)
      BY <3>1
    <3>3. Hits(H) \in Seq(Message)
      BY <1>0, <1>1, HitsFacts
    <3> QED BY <3>2, <3>3
  <2>5. DisconnectPlayers(S, H, said, W)
    BY <2>1
  <2>6. W = {} \/ \E x \in Seated : W = {Name(x)} /\ S = Seated
    OBVIOUS
  <2>7. room.phase # "over"
    BY <1>1
  <2> HIDE DEF g, said, W, S
  <2> QED BY <2>2, <2>3, <2>4, <2>5, <2>6, <2>7, DisconnectionIsMatchStep
<1> HIDE DEF alive
<1> QED BY <1>1, <1>2, <1>3

\* The clients see a match that does what Match promises.
THEOREM Implements == Spec => MatchSpec
<1>1. Init => M!Init
  BY DEF Init, M!Init, Seated, NamesOf, ToSet
<1>2. Inv /\ [Next]_vars => [M!Next]_(M!vars)
  <2> SUFFICES ASSUME Inv, [Next]_vars PROVE M!Next \/ UNCHANGED M!vars
    OBVIOUS
  <2>0. TypeOK
    BY DEF Inv
  <2>1. ASSUME NEW c \in Clients, JoinPlayer(c) PROVE M!Next
    <3>1. Name(c) \in Names
      BY <2>0, Unpacked DEF Name
    <3>2. M!Enter(Name(c))
      BY <2>1, JoinIsEnter
    <3> QED BY <3>1, <3>2 DEF M!Next
  <2>2. ASSUME NEW c \in Clients, Refuse(c) PROVE UNCHANGED M!vars
    <3>1. /\ room' = [room EXCEPT !.answered = @ \cup {c}] /\ history' = history
      BY <2>2 DEF Refuse
    <3>2. /\ room'.seats = room.seats /\ room'.name = room.name
          /\ room'.phase = room.phase /\ room'.joined = room.joined
      BY <2>0, <3>1 DEF TypeOK
    <3> QED BY <3>1, <3>2 DEF M!vars, NamesOf, Seated, Name
  <2>3. ASSUME NEW S \in SUBSET Seated, Leave(S) PROVE M!Next
    <3> DEFINE none == <<>>
               nobody == {}
    <3>1. /\ room.phase # "over" /\ Seated # {} /\ DisconnectPlayers(S, nobody, none, nobody)
          /\ none \in Seq(Message) /\ nobody \in SUBSET Clients
          /\ nobody \in SUBSET Names
      BY <2>3 DEF Leave
    <3>2. nobody = {} \/ \E w \in Seated : nobody = {Name(w)} /\ S = Seated
      OBVIOUS
    <3> HIDE DEF none, nobody
    <3> QED BY <3>1, <3>2, DisconnectionIsMatchStep
  <2>4. ASSUME NEW S \in SUBSET Seated, Explode(S) PROVE M!Next \/ UNCHANGED M!vars
    BY <2>4, ExplosionIsMatchStep
  <2>5. ASSUME room' = room, history' = history PROVE UNCHANGED M!vars
    BY <2>5 DEF M!vars, NamesOf, Seated, Name
  <2>6. ASSUME NEW c \in Watched, Ask(c) \/ Receive(c) \/ Quit(c) PROVE UNCHANGED M!vars
    BY <2>5, <2>6 DEF Ask, Receive, Quit
  <2>7. CASE UNCHANGED vars
    BY <2>5, <2>7 DEF vars
  <2> QED BY <2>1, <2>2, <2>3, <2>4, <2>6, <2>7 DEF Next
<1> QED BY <1>1, <1>2, Invariance, PTL DEF Spec, MatchSpec, M!Spec
=============================================================================
