---------------------------- MODULE BlastProofs ----------------------------
(***************************************************************************)
(* What the loops of Bomb::boom compute, for any map, any bomb and any     *)
(* length of an explosion.                                                 *)
(*                                                                         *)
(* Arm is a function defined by recursion.  A formula without recursion,   *)
(* Lighted, satisfies the same equation (so there is a solution), and by   *)
(* induction from the end of the arm it is the only one.                   *)
(*                                                                         *)
(* With that, what the explosions of the same bombs, in different orders,  *)
(* make of two maps that were the same.                                    *)
(***************************************************************************)
EXTENDS Blast, SeqFacts

\* An arm that starts at its square k gets as far as its square j.
Open(soft, b, d, k, j) ==
    /\ \A i \in k .. j : Ahead(b.at, d, i) \in Floor
    /\ b.atomic \/ \A i \in k .. j - 1 : Ahead(b.at, d, i) \notin soft

\* What an arm that starts at its square k lights.
Lighted(soft, b, d, k) ==
    {Ahead(b.at, d, j) : j \in {i \in k .. Reach(b) - 1 : Open(soft, b, d, k, i)}}

\* An arm that gets past its first square goes on from its second.
LEMMA OpenNext ==
    ASSUME NEW soft, NEW b, NEW d, NEW k \in Nat, NEW j \in Nat, k < j
    PROVE  Open(soft, b, d, k, j) <=>
              /\ Ahead(b.at, d, k) \in Floor
              /\ b.atomic \/ Ahead(b.at, d, k) \notin soft
              /\ Open(soft, b, d, k + 1, j)
<1> DEFINE p(i) == Ahead(b.at, d, i)
           a == b.atomic
<1>1. \A i : i \in k .. j <=> i = k \/ i \in k + 1 .. j
  OBVIOUS
<1>2. \A i : i \in k .. j - 1 <=> i = k \/ i \in k + 1 .. j - 1
  OBVIOUS
<1> HIDE DEF p, a
<1>3. (\A i \in k .. j : p(i) \in Floor)
          <=> p(k) \in Floor /\ \A i \in k + 1 .. j : p(i) \in Floor
  BY <1>1
<1>4. (\A i \in k .. j - 1 : p(i) \notin soft)
          <=> p(k) \notin soft /\ \A i \in k + 1 .. j - 1 : p(i) \notin soft
  BY <1>2
<1>5. /\ Open(soft, b, d, k, j) <=> /\ \A i \in k .. j : p(i) \in Floor
                                    /\ a \/ \A i \in k .. j - 1 : p(i) \notin soft
      /\ Open(soft, b, d, k + 1, j) <=>
            /\ \A i \in k + 1 .. j : p(i) \in Floor
            /\ a \/ \A i \in k + 1 .. j - 1 : p(i) \notin soft
  BY Zenon DEF Open, p, a
<1>6. Open(soft, b, d, k, j) <=>
         /\ p(k) \in Floor /\ (a \/ p(k) \notin soft) /\ Open(soft, b, d, k + 1, j)
  BY <1>3, <1>4, <1>5, Zenon
<1> QED BY <1>6, Zenon DEF p, a

\* Lighted satisfies the equation that defines Arm.
LEMMA LightedNext ==
    ASSUME NEW soft, NEW b, NEW d, NEW k \in 1 .. Reach(b), Reach(b) \in Nat
    PROVE  Lighted(soft, b, d, k) =
              IF k = Reach(b) \/ Ahead(b.at, d, k) \notin Floor
              THEN {}
              ELSE {Ahead(b.at, d, k)} \cup
                   IF Ahead(b.at, d, k) \in soft /\ ~b.atomic
                   THEN {} ELSE Lighted(soft, b, d, k + 1)
<1> DEFINE r == Reach(b)
           x == Ahead(b.at, d, k)
           I(i) == {j \in i .. r - 1 : Open(soft, b, d, i, j)}
           a == b.atomic
<1>1. k \in Nat /\ k <= r /\ r \in Nat
  OBVIOUS
<1>2. Lighted(soft, b, d, k) = {Ahead(b.at, d, j) : j \in I(k)}
  BY DEF Lighted
<1>3. Lighted(soft, b, d, k + 1) = {Ahead(b.at, d, j) : j \in I(k + 1)}
  BY DEF Lighted
<1>4. CASE k = r \/ x \notin Floor
  <2>1. ASSUME NEW j \in I(k) PROVE FALSE
    <3>1. j \in k .. r - 1 /\ Open(soft, b, d, k, j)
      OBVIOUS
    <3>2. k # r /\ k \in k .. j
      BY <1>1, <3>1
    <3>3. x \in Floor
      BY <3>1, <3>2, Zenon DEF Open
    <3> QED BY <1>4, <3>2, <3>3
  <2>2. I(k) = {}
    BY <2>1, Zenon
  <2> HIDE DEF I
  <2>3. Lighted(soft, b, d, k) = {}
    BY <1>2, <2>2
  <2> QED BY <1>4, <2>3
<1>5. CASE k # r /\ x \in Floor
  <2>1. k \in I(k)
    <3>1. k \in k .. r - 1 /\ (\A i \in k .. k : i = k) /\ k .. k - 1 = {}
      BY <1>1, <1>5
    <3>2. Open(soft, b, d, k, k)
      BY <1>5, <3>1 DEF Open
    <3> QED BY <3>1, <3>2
  <2>2. ASSUME NEW j, j # k
        PROVE  j \in I(k) <=> (a \/ x \notin soft) /\ j \in I(k + 1)
    <3>1. j \in k .. r - 1 <=> j \in k + 1 .. r - 1
      BY <1>1, <2>2
    <3>2. j \in k + 1 .. r - 1 => j \in Nat /\ k < j
      BY <1>1
    <3>3. j \in k + 1 .. r - 1 =>
             (Open(soft, b, d, k, j) <=> (a \/ x \notin soft) /\ Open(soft, b, d, k + 1, j))
      BY <1>1, <1>5, <3>2, OpenNext
    <3> QED BY <3>1, <3>3, Zenon
  <2>3. CASE x \in soft /\ ~a
    <3>1. \A j : j \in I(k) <=> j = k
      BY <2>1, <2>2, <2>3, Zenon
    <3> HIDE DEF I
    <3>2. I(k) = {k}
      BY <3>1
    <3>3. Lighted(soft, b, d, k) = {x}
      BY <1>2, <3>2
    <3> QED BY <1>5, <2>3, <3>3
  <2>4. CASE ~(x \in soft /\ ~a)
    <3>1. k \notin I(k + 1)
      BY <1>1
    <3>2. \A j : j \in I(k) <=> j = k \/ j \in I(k + 1)
      BY <2>1, <2>2, <2>4, <3>1, Zenon
    <3> HIDE DEF I
    <3>3. I(k) = {k} \cup I(k + 1)
      BY <3>2
    <3>4. Lighted(soft, b, d, k) = {x} \cup Lighted(soft, b, d, k + 1)
      BY <1>2, <1>3, <3>3
    <3> QED BY <1>5, <2>4, <3>4
  <2> QED BY <2>3, <2>4
<1> QED BY <1>4, <1>5

\* An arm of a blast lights what it lights from its first square on.
LEMMA ArmFacts ==
    ASSUME NEW soft, NEW b, NEW d, Reach(b) \in Nat, Reach(b) >= 1
    PROVE  Arm(soft, b, d) = Lighted(soft, b, d, 1)
<1> DEFINE r == Reach(b)
           T(f) == [k \in 1 .. r |->
                       IF k = r \/ Ahead(b.at, d, k) \notin Floor
                       THEN {}
                       ELSE {Ahead(b.at, d, k)} \cup
                            IF Ahead(b.at, d, k) \in soft /\ ~b.atomic THEN {} ELSE f[k + 1]]
           from == CHOOSE f : f = T(f)
           g == [k \in 1 .. r |-> Lighted(soft, b, d, k)]
<1>1. Arm(soft, b, d) = from[1]
  BY DEF Arm
<1>2. g = T(g)
  <2>1. ASSUME NEW k \in 1 .. r
        PROVE  g[k] = IF k = r \/ Ahead(b.at, d, k) \notin Floor
                      THEN {}
                      ELSE {Ahead(b.at, d, k)} \cup
                           IF Ahead(b.at, d, k) \in soft /\ ~b.atomic THEN {} ELSE g[k + 1]
    <3>1. k # r => k + 1 \in 1 .. r
      OBVIOUS
    <3>2. g[k] = Lighted(soft, b, d, k) /\ (k # r => g[k + 1] = Lighted(soft, b, d, k + 1))
      BY <3>1
    <3>3. Lighted(soft, b, d, k) = IF k = r \/ Ahead(b.at, d, k) \notin Floor
                                   THEN {}
                                   ELSE {Ahead(b.at, d, k)} \cup
                                        IF Ahead(b.at, d, k) \in soft /\ ~b.atomic
                                        THEN {} ELSE Lighted(soft, b, d, k + 1)
      BY LightedNext
    <3> HIDE DEF g
    <3> QED BY <3>2, <3>3
  <2> QED BY <2>1
<1>3. from = T(from)
  BY <1>2, Zenon
<1> HIDE DEF from
<1> DEFINE G == {n \in Nat : n <= r - 1 => from[r - n] = Lighted(soft, b, d, r - n)}
<1>4. ASSUME NEW k \in 1 .. r
      PROVE  from[k] = IF k = r \/ Ahead(b.at, d, k) \notin Floor
                       THEN {}
                       ELSE {Ahead(b.at, d, k)} \cup
                            IF Ahead(b.at, d, k) \in soft /\ ~b.atomic THEN {} ELSE from[k + 1]
  BY <1>3
<1>5. ASSUME NEW k \in 1 .. r, k # r => from[k + 1] = Lighted(soft, b, d, k + 1)
      PROVE  from[k] = Lighted(soft, b, d, k)
  <2>1. Lighted(soft, b, d, k) = IF k = r \/ Ahead(b.at, d, k) \notin Floor
                                 THEN {}
                                 ELSE {Ahead(b.at, d, k)} \cup
                                      IF Ahead(b.at, d, k) \in soft /\ ~b.atomic
                                      THEN {} ELSE Lighted(soft, b, d, k + 1)
    BY LightedNext
  <2> QED BY <1>4, <1>5, <2>1
<1>6. 0 \in G
  <2>1. r - 0 = r /\ r \in 1 .. r
    OBVIOUS
  <2> QED BY <1>5, <2>1
<1>7. ASSUME NEW n \in Nat, n \in G PROVE n + 1 \in G
  <2> SUFFICES ASSUME n + 1 <= r - 1
               PROVE  from[r - (n + 1)] = Lighted(soft, b, d, r - (n + 1))
    OBVIOUS
  <2> DEFINE k == r - (n + 1)
  <2>1. k \in 1 .. r /\ k + 1 = r - n /\ n <= r - 1
    OBVIOUS
  <2>2. from[r - n] = Lighted(soft, b, d, r - n)
    BY <1>7, <2>1
  <2> HIDE DEF k
  <2>3. from[k + 1] = Lighted(soft, b, d, k + 1)
    BY <2>1, <2>2
  <2>4. from[k] = Lighted(soft, b, d, k)
    BY <1>5, <2>1, <2>3
  <2> QED BY <2>4 DEF k
<1>8. r - 1 \in G
  <2>1. r - 1 \in Nat
    OBVIOUS
  <2> HIDE DEF G
  <2>2. \A n \in Nat : n \in G
    BY <1>6, <1>7, Induction
  <2> QED BY <2>1, <2>2
<1>9. r - (r - 1) = 1
  OBVIOUS
<1> QED BY <1>1, <1>8, <1>9

\* A blast lights, besides the bomb's own square, exactly what the definition
\* of a bomb's reach says.
THEOREM BlastReaches ==
    ASSUME NEW soft, NEW b \in Bomb, NEW s
    PROVE  s \in Arms(soft, b) <=> Reaches(soft, b, s)
<1>1. Reach(b) \in Nat /\ Reach(b) >= 1
  BY BlastAssumption DEF Reach, Bomb
<1>2. \A d : Arm(soft, b, d) = Lighted(soft, b, d, 1)
  BY <1>1, ArmFacts
<1>3. s \in Arms(soft, b) <=> \E d \in Directions : s \in Lighted(soft, b, d, 1)
  BY <1>2 DEF Arms
<1>4. ASSUME NEW d
      PROVE  s \in Lighted(soft, b, d, 1) <=>
                \E k \in 1 .. Reach(b) - 1 : s = Ahead(b.at, d, k) /\ Open(soft, b, d, 1, k)
  BY DEF Lighted
<1> QED BY <1>3, <1>4, Zenon DEF Reaches, Open

-----------------------------------------------------------------------------
(* Explosions on two maps.                                                 *)
(*                                                                         *)
(* The walls a bomb may take are those in its window.  What it takes there *)
(* depends on nothing outside, and nothing else takes any of them but bombs *)
(* it meets.  So two maps agree in the window after the explosions that    *)
(* either has still to come, in whatever order those of other bombs do.    *)

\* The walls of S that b may take.
Window(b, S) == {s \in S : Reaches({}, b, s)}

\* With fewer walls a bomb reaches no less.
LEMMA ReachesMore ==
    ASSUME NEW x, NEW b, NEW s, Reaches(x, b, s)
    PROVE  Reaches({}, b, s)
BY Zenon DEF Reaches

\* Only walls in its window keep a bomb from reaching further.
LEMMA ReachesWindow ==
    ASSUME NEW S, NEW x \in SUBSET S, NEW b \in Bomb, NEW s
    PROVE  Reaches(x, b, s) <=> Reaches(x \cap Window(b, S), b, s)
<1> DEFINE y == x \cap Window(b, S)
           r == Reach(b)
<1>1. r \in Nat
  BY BlastAssumption DEF Reach, Bomb
<1>2. ASSUME NEW d \in Directions, NEW k \in 1 .. r - 1,
             \A j \in 1 .. k : Ahead(b.at, d, j) \in Floor
      PROVE  \A j \in 1 .. k - 1 : Ahead(b.at, d, j) \in x <=> Ahead(b.at, d, j) \in y
  <2> SUFFICES ASSUME NEW j \in 1 .. k - 1, Ahead(b.at, d, j) \in x
               PROVE  Ahead(b.at, d, j) \in y
    OBVIOUS
  <2>1. j \in 1 .. r - 1 /\ \A i \in 1 .. j : i \in 1 .. k
    BY <1>1
  <2>2. \A i \in 1 .. j : Ahead(b.at, d, i) \in Floor
    BY <1>2, <2>1
  <2>3. Reaches({}, b, Ahead(b.at, d, j))
    BY <2>1, <2>2, Zenon DEF Reaches, r
  <2>4. Ahead(b.at, d, j) \in S
    OBVIOUS
  <2> QED BY <2>3, <2>4 DEF Window
<1> HIDE DEF y
<1>3. Reaches(x, b, s) <=> Reaches(y, b, s)
  BY <1>2, Zenon DEF Reaches, r
<1> QED BY <1>3 DEF y

\* Outside its window a bomb takes nothing.
LEMMA TakenInWindow ==
    ASSUME NEW S, NEW x \in SUBSET S, NEW b \in Bomb, NEW s \in x, s \notin Boomed(x, b)
    PROVE  s \in Window(b, S)
<1>1. s \in Arms(x, b)
  BY DEF Boomed
<1>2. Reaches({}, b, s)
  BY <1>1, BlastReaches, ReachesMore
<1> QED BY <1>2 DEF Window

\* A bomb does to its window what it would do without the rest.
LEMMA BoomedOwn ==
    ASSUME NEW S, NEW x \in SUBSET S, NEW b \in Bomb
    PROVE  Boomed(x, b) \cap Window(b, S) = Boomed(x \cap Window(b, S), b)
<1> DEFINE y == x \cap Window(b, S)
<1>1. \A s : s \in Arms(x, b) <=> s \in Arms(y, b)
  BY BlastReaches, ReachesWindow
<1> QED BY <1>1 DEF Boomed

\* A bomb leaves the window alone of every bomb that it does not meet.
LEMMA BoomedOther ==
    ASSUME NEW S, NEW x \in SUBSET S, NEW a \in Bomb, NEW b \in Bomb, ~Meet(a, b, S)
    PROVE  Boomed(x, a) \cap Window(b, S) = x \cap Window(b, S)
<1>1. ASSUME NEW s \in x, s \in Window(b, S) PROVE s \in Boomed(x, a)
  <2> SUFFICES ASSUME s \notin Boomed(x, a) PROVE FALSE
    OBVIOUS
  <2>1. s \in Window(a, S)
    BY TakenInWindow
  <2> QED BY <1>1, <2>1 DEF Window, Meet
<1> QED BY <1>1 DEF Boomed

\* n explosions of b leave the walls z of the walls x, all of them in S.
Leaves(b, x, n, z, S) ==
    \E f \in [0 .. n -> SUBSET S] :
        /\ f[0] = x /\ f[n] = z
        /\ \A i \in 1 .. n : f[i] = Boomed(f[i - 1], b)

\* No explosion leaves everything.
LEMMA LeavesNone ==
    ASSUME NEW b, NEW S, NEW x \in SUBSET S, NEW z
    PROVE  Leaves(b, x, 0, z, S) <=> x = z
<1>1. ASSUME Leaves(b, x, 0, z, S) PROVE x = z
  BY <1>1, Zenon DEF Leaves
<1>2. ASSUME x = z PROVE Leaves(b, x, 0, z, S)
  <2> DEFINE f == [i \in 0 .. 0 |-> x]
  <2>1. f \in [0 .. 0 -> SUBSET S] /\ f[0] = x /\ \A i \in 1 .. 0 : FALSE
    OBVIOUS
  <2> HIDE DEF f
  <2> QED BY <1>2, <2>1, Zenon DEF Leaves
<1> QED BY <1>1, <1>2

\* The first of n explosions leaves n - 1.
LEMMA LeavesFirst ==
    ASSUME NEW b, NEW S, NEW x, NEW n \in Nat, n >= 1, NEW z, Leaves(b, x, n, z, S)
    PROVE  Leaves(b, Boomed(x, b), n - 1, z, S)
<1>1. PICK f \in [0 .. n -> SUBSET S] : /\ f[0] = x /\ f[n] = z
                                        /\ \A i \in 1 .. n : f[i] = Boomed(f[i - 1], b)
  BY Zenon DEF Leaves
<1> DEFINE g == [i \in 0 .. n - 1 |-> f[i + 1]]
<1>2. g \in [0 .. n - 1 -> SUBSET S] /\ g[n - 1] = z
  BY <1>1
<1>3. g[0] = Boomed(x, b)
  <2>1. 1 \in 1 .. n /\ 1 - 1 = 0 /\ g[0] = f[1]
    OBVIOUS
  <2> QED BY <1>1, <2>1
<1>4. ASSUME NEW i \in 1 .. n - 1 PROVE g[i] = Boomed(g[i - 1], b)
  <2>1. i + 1 \in 1 .. n /\ (i + 1) - 1 = i /\ g[i] = f[i + 1] /\ g[i - 1] = f[i]
    OBVIOUS
  <2>2. f[i + 1] = Boomed(f[(i + 1) - 1], b)
    BY <1>1, <2>1
  <2> HIDE DEF g
  <2> QED BY <2>1, <2>2
<1> HIDE DEF g
<1> QED BY <1>2, <1>3, <1>4, Zenon DEF Leaves

\* One more explosion, after all the others.
LEMMA LeavesLast ==
    ASSUME NEW b, NEW S, NEW x, NEW n \in Nat, NEW z, Leaves(b, x, n, z, S)
    PROVE  Leaves(b, x, n + 1, Boomed(z, b), S)
<1>1. PICK f \in [0 .. n -> SUBSET S] : /\ f[0] = x /\ f[n] = z
                                        /\ \A i \in 1 .. n : f[i] = Boomed(f[i - 1], b)
  BY Zenon DEF Leaves
<1> DEFINE t == Boomed(z, b)
           g == [i \in 0 .. n + 1 |-> IF i = n + 1 THEN t ELSE f[i]]
<1>2. t \in SUBSET S
  BY <1>1 DEF Boomed
<1> HIDE DEF t
<1>3. g \in [0 .. n + 1 -> SUBSET S] /\ g[0] = x /\ g[n + 1] = t /\ g[n] = z
  BY <1>1, <1>2
<1>4. ASSUME NEW i \in 1 .. n + 1 PROVE g[i] = Boomed(g[i - 1], b)
  <2>1. CASE i = n + 1
    <3>1. i - 1 = n
      BY <2>1
    <3> QED BY <1>3, <2>1, <3>1 DEF t
  <2>2. CASE i # n + 1
    <3>1. i \in 1 .. n /\ g[i] = f[i] /\ g[i - 1] = f[i - 1]
      BY <2>2
    <3> HIDE DEF g
    <3> QED BY <1>1, <3>1
  <2> QED BY <2>1, <2>2
<1> HIDE DEF g
<1>5. Leaves(b, x, n + 1, t, S)
  BY <1>3, <1>4, Zenon DEF Leaves
<1> QED BY <1>5 DEF t

\* In the window of b the maps x and y will be the same, after n explosions of
\* b on x and m on y.
Even(b, x, n, y, m, S) ==
    \E z : Leaves(b, x \cap Window(b, S), n, z, S) /\ Leaves(b, y \cap Window(b, S), m, z, S)

\* It does not matter which map is named first.
LEMMA EvenSwap ==
    ASSUME NEW b, NEW x, NEW n, NEW y, NEW m, NEW S, Even(b, x, n, y, m, S)
    PROVE  Even(b, y, m, x, n, S)
BY Zenon DEF Even

\* One and the same map.
LEMMA EvenSame ==
    ASSUME NEW b, NEW S, NEW x \in SUBSET S
    PROVE  Even(b, x, 0, x, 0, S)
<1> DEFINE z == x \cap Window(b, S)
<1>1. z \in SUBSET S
  OBVIOUS
<1>2. Leaves(b, z, 0, z, S)
  BY <1>1, LeavesNone
<1> QED BY <1>2, Zenon DEF Even

\* With no explosion to come the maps are the same there.
LEMMA EvenNone ==
    ASSUME NEW b, NEW S, NEW x \in SUBSET S, NEW y \in SUBSET S, Even(b, x, 0, y, 0, S)
    PROVE  x \cap Window(b, S) = y \cap Window(b, S)
<1> DEFINE v == x \cap Window(b, S)
           w == y \cap Window(b, S)
<1>1. v \in SUBSET S /\ w \in SUBSET S
  OBVIOUS
<1>2. PICK z : Leaves(b, v, 0, z, S) /\ Leaves(b, w, 0, z, S)
  BY Zenon DEF Even
<1> HIDE DEF v, w
<1>3. v = z /\ w = z
  BY <1>1, <1>2, LeavesNone
<1> QED BY <1>3 DEF v, w

\* An explosion of b on one of the maps is one of those to come.
LEMMA EvenFirst ==
    ASSUME NEW b \in Bomb, NEW S, NEW x \in SUBSET S, NEW n \in Nat, n >= 1,
           NEW y, NEW m, Even(b, x, n, y, m, S)
    PROVE  Even(b, Boomed(x, b), n - 1, y, m, S)
<1> DEFINE v == x \cap Window(b, S)
           w == y \cap Window(b, S)
<1>1. PICK z : Leaves(b, v, n, z, S) /\ Leaves(b, w, m, z, S)
  BY Zenon DEF Even
<1> HIDE DEF v, w
<1>2. Leaves(b, Boomed(v, b), n - 1, z, S)
  BY <1>1, LeavesFirst
<1>3. Boomed(x, b) \cap Window(b, S) = Boomed(v, b)
  BY BoomedOwn DEF v
<1> QED BY <1>1, <1>2, <1>3, Zenon DEF Even, w

\* An explosion that b does not meet changes nothing there.
LEMMA EvenOther ==
    ASSUME NEW a \in Bomb, NEW b \in Bomb, NEW S, NEW x \in SUBSET S, ~Meet(a, b, S),
           NEW n, NEW y, NEW m, Even(b, x, n, y, m, S)
    PROVE  Even(b, Boomed(x, a), n, y, m, S)
<1>1. Boomed(x, a) \cap Window(b, S) = x \cap Window(b, S)
  BY BoomedOther
<1> QED BY <1>1, Zenon DEF Even

\* One more explosion on either map.
LEMMA EvenLast ==
    ASSUME NEW b, NEW S, NEW x, NEW n \in Nat, NEW y, NEW m \in Nat, Even(b, x, n, y, m, S)
    PROVE  Even(b, x, n + 1, y, m + 1, S)
<1> DEFINE v == x \cap Window(b, S)
           w == y \cap Window(b, S)
<1>1. PICK z : Leaves(b, v, n, z, S) /\ Leaves(b, w, m, z, S)
  BY Zenon DEF Even
<1> HIDE DEF v, w
<1>2. Leaves(b, v, n + 1, Boomed(z, b), S) /\ Leaves(b, w, m + 1, Boomed(z, b), S)
  BY <1>1, LeavesLast
<1> QED BY <1>2, Zenon DEF Even, v, w

\* b meets no other bomb of H.
Apart(b, H, S) == \A a \in H : a # b => ~Meet(a, b, S)

\* Two maps x and y that both had the walls S, with N[b] explosions of b to come
\* on x and M[b] on y, if the bombs so far are H.  Walls are missing only where
\* one of these reaches, and no other is to come.
Matched(H, x, N, y, M, S) ==
    /\ \A s \in S : s \notin x \/ s \notin y => \E a \in H : s \in Window(a, S)
    /\ \A b \in Bomb : b \notin H => N[b] = 0 /\ M[b] = 0
    /\ \A b \in Bomb : Apart(b, H, S) => Even(b, x, N[b], y, M[b], S)

\* One explosion of a more is to come, or one less.
OneMore(P, N, a) == \A b \in Bomb : P[b] = N[b] + IF b = a THEN 1 ELSE 0
OneLess(P, N, a) == \A b \in Bomb : N[b] = P[b] + IF b = a THEN 1 ELSE 0

\* It does not matter which map is named first.
LEMMA MatchedSwap ==
    ASSUME NEW H, NEW x, NEW N, NEW y, NEW M, NEW S, Matched(H, x, N, y, M, S)
    PROVE  Matched(H, y, M, x, N, S)
<1>1. /\ \A s \in S : s \notin x \/ s \notin y => \E a \in H : s \in Window(a, S)
      /\ \A b \in Bomb : b \notin H => N[b] = 0 /\ M[b] = 0
      /\ \A b \in Bomb : Apart(b, H, S) => Even(b, x, N[b], y, M[b], S)
  BY Zenon DEF Matched
<1>2. \A b \in Bomb : Apart(b, H, S) => Even(b, y, M[b], x, N[b], S)
  BY <1>1, EvenSwap
<1>3. \A s \in S : s \notin y \/ s \notin x => \E a \in H : s \in Window(a, S)
  BY <1>1, Zenon
<1>4. \A b \in Bomb : b \notin H => M[b] = 0 /\ N[b] = 0
  BY <1>1, Zenon
<1> QED BY <1>2, <1>3, <1>4, Zenon DEF Matched

\* The maps begin as the same.
LEMMA MatchedStart ==
    ASSUME NEW S, NEW N, \A b \in Bomb : N[b] = 0
    PROVE  Matched({}, S, N, S, N, S)
<1>1. \A b \in Bomb : Even(b, S, 0, S, 0, S)
  BY EvenSame
<1>2. \A b \in Bomb : Even(b, S, N[b], S, N[b], S)
  BY <1>1
<1> QED BY <1>2, Zenon DEF Matched

\* A bomb that was to go off does so on one of the maps.
LEMMA MatchedFalls ==
    ASSUME NEW H, NEW S, NEW x \in SUBSET S, NEW N \in [Bomb -> Nat], NEW y, NEW M,
           Matched(H, x, N, y, M, S),
           NEW a \in Bomb, NEW P \in [Bomb -> Nat], OneLess(P, N, a)
    PROVE  Matched(H, Boomed(x, a), P, y, M, S)
<1> DEFINE t == Boomed(x, a)
<1>1. /\ \A s \in S : s \notin x \/ s \notin y => \E b \in H : s \in Window(b, S)
      /\ \A b \in Bomb : b \notin H => N[b] = 0 /\ M[b] = 0
      /\ \A b \in Bomb : Apart(b, H, S) => Even(b, x, N[b], y, M[b], S)
  BY Zenon DEF Matched
<1>2. /\ N[a] >= 1 /\ P[a] = N[a] - 1
      /\ \A b \in Bomb : b # a => P[b] = N[b]
      /\ \A b \in Bomb : N[b] \in Nat /\ P[b] \in Nat
  BY DEF OneLess
<1>3. a \in H
  BY <1>1, <1>2
<1>4. ASSUME NEW s \in S, s \notin t \/ s \notin y PROVE \E b \in H : s \in Window(b, S)
  <2>1. CASE s \notin x \/ s \notin y
    BY <1>1, <2>1, Zenon
  <2>2. CASE s \in x /\ s \notin t
    <3>1. s \in Window(a, S)
      BY <2>2, TakenInWindow
    <3> QED BY <1>3, <3>1, Zenon
  <2> QED BY <1>4, <2>1, <2>2, Zenon
<1>5. ASSUME NEW b \in Bomb, b \notin H PROVE P[b] = 0 /\ M[b] = 0
  <2>1. b # a /\ N[b] = 0 /\ M[b] = 0
    BY <1>1, <1>3, <1>5, Zenon
  <2> QED BY <1>2, <2>1
<1>6. ASSUME NEW b \in Bomb, Apart(b, H, S) PROVE Even(b, t, P[b], y, M[b], S)
  <2>1. Even(b, x, N[b], y, M[b], S)
    BY <1>1, <1>6, Zenon
  <2>2. CASE b = a
    <3>1. Even(a, t, N[a] - 1, y, M[a], S)
      BY <1>2, <2>1, <2>2, EvenFirst
    <3> QED BY <1>2, <2>2, <3>1
  <2>3. CASE b # a
    <3>1. ~Meet(a, b, S)
      BY <1>3, <1>6, <2>3, Zenon DEF Apart
    <3>2. Even(b, t, N[b], y, M[b], S)
      BY <2>1, <3>1, EvenOther
    <3> QED BY <1>2, <2>3, <3>2
  <2> QED BY <2>2, <2>3
<1> QED BY <1>4, <1>5, <1>6, Zenon DEF Matched

\* The same bomb is to go off on both.
LEMMA MatchedAdds ==
    ASSUME NEW H, NEW S, NEW x, NEW N \in [Bomb -> Nat], NEW y, NEW M \in [Bomb -> Nat],
           Matched(H, x, N, y, M, S),
           NEW a \in Bomb, NEW P, OneMore(P, N, a), NEW Q, OneMore(Q, M, a),
           NEW G, H \subseteq G, a \in G
    PROVE  Matched(G, x, P, y, Q, S)
<1>1. /\ \A s \in S : s \notin x \/ s \notin y => \E b \in H : s \in Window(b, S)
      /\ \A b \in Bomb : b \notin H => N[b] = 0 /\ M[b] = 0
      /\ \A b \in Bomb : Apart(b, H, S) => Even(b, x, N[b], y, M[b], S)
  BY Zenon DEF Matched
<1>2. /\ P[a] = N[a] + 1 /\ Q[a] = M[a] + 1
      /\ \A b \in Bomb : b # a => P[b] = N[b] /\ Q[b] = M[b]
      /\ \A b \in Bomb : N[b] \in Nat /\ M[b] \in Nat
  BY DEF OneMore
<1>3. \A b : b \in H => b \in G
  OBVIOUS
<1>4. \A s \in S : s \notin x \/ s \notin y => \E b \in G : s \in Window(b, S)
  BY <1>1, <1>3, Zenon
<1>5. \A b \in Bomb : b \notin G => P[b] = 0 /\ Q[b] = 0
  BY <1>1, <1>2, <1>3
<1>6. ASSUME NEW b \in Bomb, Apart(b, G, S) PROVE Even(b, x, P[b], y, Q[b], S)
  <2>1. Apart(b, H, S)
    BY <1>3, <1>6, Zenon DEF Apart
  <2>2. Even(b, x, N[b], y, M[b], S)
    BY <1>1, <2>1, Zenon
  <2>3. CASE b = a
    <3>1. Even(b, x, N[b] + 1, y, M[b] + 1, S)
      BY <1>2, <2>2, EvenLast
    <3> QED BY <1>2, <2>3, <3>1
  <2>4. CASE b # a
    BY <1>2, <2>2, <2>4
  <2> QED BY <2>3, <2>4
<1> QED BY <1>4, <1>5, <1>6, Zenon DEF Matched

\* Only the numbers count, and there may have been more bombs.
LEMMA MatchedSame ==
    ASSUME NEW H, NEW S, NEW x, NEW N, NEW y, NEW M, Matched(H, x, N, y, M, S),
           NEW P, \A b \in Bomb : P[b] = N[b], NEW Q, \A b \in Bomb : Q[b] = M[b],
           NEW G, H \subseteq G
    PROVE  Matched(G, x, P, y, Q, S)
<1>1. /\ \A s \in S : s \notin x \/ s \notin y => \E b \in H : s \in Window(b, S)
      /\ \A b \in Bomb : b \notin H => N[b] = 0 /\ M[b] = 0
      /\ \A b \in Bomb : Apart(b, H, S) => Even(b, x, N[b], y, M[b], S)
  BY Zenon DEF Matched
<1>2. \A b : b \in H => b \in G
  OBVIOUS
<1>3. \A b \in Bomb : Apart(b, G, S) => Apart(b, H, S)
  BY <1>2, Zenon DEF Apart
<1>4. \A s \in S : s \notin x \/ s \notin y => \E b \in G : s \in Window(b, S)
  BY <1>1, <1>2, Zenon
<1>5. \A b \in Bomb : b \notin G => P[b] = 0 /\ Q[b] = 0
  BY <1>1, <1>2
<1>6. \A b \in Bomb : Apart(b, G, S) => Even(b, x, P[b], y, Q[b], S)
  BY <1>1, <1>3
<1> QED BY <1>4, <1>5, <1>6, Zenon DEF Matched

\* If no two bombs meet, and nothing is to come, the maps are the same.
LEMMA MatchedDone ==
    ASSUME NEW H \in SUBSET Bomb, NEW S, NEW x \in SUBSET S, NEW N, NEW y \in SUBSET S, NEW M,
           Matched(H, x, N, y, M, S),
           \A b \in Bomb : N[b] = 0 /\ M[b] = 0,
           \A a, b \in H : a # b => ~Meet(a, b, S)
    PROVE  x = y
<1>1. /\ \A s \in S : s \notin x \/ s \notin y => \E b \in H : s \in Window(b, S)
      /\ \A b \in Bomb : Apart(b, H, S) => Even(b, x, N[b], y, M[b], S)
  BY Zenon DEF Matched
<1>2. ASSUME NEW b \in H PROVE x \cap Window(b, S) = y \cap Window(b, S)
  <2>1. Apart(b, H, S)
    BY Zenon DEF Apart
  <2>2. b \in Bomb
    OBVIOUS
  <2>3. Even(b, x, 0, y, 0, S)
    BY <1>1, <2>1, <2>2
  <2> QED BY <2>3, EvenNone
<1>3. ASSUME NEW s \in S PROVE s \in x <=> s \in y
  <2>1. CASE s \notin x \/ s \notin y
    <3>1. PICK b \in H : s \in Window(b, S)
      BY <1>1, <2>1, Zenon
    <3>2. x \cap Window(b, S) = y \cap Window(b, S)
      BY <1>2
    <3> QED BY <3>1, <3>2
  <2> QED BY <2>1
<1> QED BY <1>3
=============================================================================
