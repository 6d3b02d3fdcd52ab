---------------------------- MODULE ArenaProofs ----------------------------
(***************************************************************************)
(* Theorems about Arena, for any map, any number of players of whom any    *)
(* are clients, any lives and any bounds on moves and bombs.               *)
(*                                                                         *)
(* What a client will know when it has heard everything is compared with   *)
(* what the server knows now.  The parts of the invariant speak of one     *)
(* client c at a time, and take the state they speak of as arguments: what *)
(* the client keeps (k), the messages from it and to it (u and d), where   *)
(* the server has its player (w), the corrections so far (h).              *)
(*                                                                         *)
(* The maps have an invariant of their own, MapsInv, at the end: on either *)
(* map, how often each bomb is still to go off makes up for the walls in   *)
(* which the maps differ.                                                  *)
(***************************************************************************)
EXTENDS Arena, SeqFacts, BlastProofs

-----------------------------------------------------------------------------
(* Messages under way.                                                     *)

Moves == {m \in Message : m.type = "Move"}
FreshMoves(n) == {m \in Moves : m.after = n}
Back == {m \in News : m.type = "MovementCorrection"}
MoveOf(p) == {m \in News : m.type = "OtherMove" /\ m.who = p}
HitOn(p) == {m \in News : m.type = "GotHit" /\ m.who = p}
LeaveOf(p) == {m \in News : m.type = "OtherLeave" /\ m.who = p}

\* What is at x now will be at y after the messages of s that are in A.
Will(s, A, x, y) ==
    /\ (\A i \in 1 .. Len(s) : s[i] \notin A) => x = y
    /\ \A i \in 1 .. Len(s) :
          s[i] \in A /\ (\A j \in 1 .. Len(s) : s[j] \in A => j <= i) => s[i].at = y

-----------------------------------------------------------------------------
(* The invariant.                                                          *)

\* No more moves are on their way and no more corrections have been sent than
\* moves were made; a correction was heard of or is on its way.
Bounded(u, d, h, n) ==
    /\ h.sent + Upto(u, Moves, Len(u)) <= n
    /\ h.got + Upto(d, Back, Len(d)) = h.sent

\* A client only ever moves to squares that are free on its own map, which
\* loses walls and gains none: wherever it is sent back to, it has been.
Grounded(c, k, u, d, w) ==
    /\ k.seen[c].at \in Floor \ k.soft
    /\ w.coords \in Floor \ k.soft
    /\ \A i \in 0 .. History - 1 :
          w.history[i] # M!Unrecorded => w.history[i] \in Floor \ k.soft
    /\ \A i \in 1 .. Len(u) : u[i] \in Moves => u[i].at \in Floor \ k.soft
    /\ \A i \in 1 .. Len(d) : d[i] \in Back => d[i].at \in Floor \ k.soft
    /\ \A i \in 1 .. Len(d) : d[i] \notin MoveOf(c)

\* The lives a client will give p when it has heard the next i messages.
Left(k, d, p, i) == k.seen[p].health - Upto(d, HitOn(p), i)

\* The players on its list whom no ghost stands before.
Sure(c, k) == k.listed \cap Named(c)

\* The client's list against the players S of the room and their lives L: each
\* GotHit says how many lives are left, OtherLeave is about players who are
\* gone, and a correction comes before the death of the client's own player.
\* All this of those the client has by a name of their own.
Known(c, k, d, S, L) ==
    /\ \A p \in Named(c) : k.ghosts[p] = 0
    /\ \A p \in S : p \in Sure(c, k) => L[p] = Left(k, d, p, Len(d))
    /\ \A p \in S \cap Named(c) : p \notin Sure(c, k) => L[p] = 0
    /\ \A p \in Sure(c, k) : k.seen[p].health > 0
    /\ \A p \in Sure(c, k) \ S : \E i \in 1 .. Len(d) : d[i] \in LeaveOf(p)
    /\ \A i \in 1 .. Len(d) :
          /\ \A p \in Sure(c, k) : d[i] \in HitOn(p) => d[i].lives = Left(k, d, p, i)
          /\ \A p \in S : d[i] \notin LeaveOf(p)
          /\ d[i] \in Back => c \in Sure(c, k) /\ Left(k, d, c, i) > 0

\* The others on its list will be where the server has them.
Seeing(c, k, d, S, W) ==
    \A p \in S \ {c} :
        p \in Sure(c, k) => Will(d, MoveOf(p), k.seen[p].at, W[p].coords)

\* The client's own player is where his last move went that the server may
\* still accept; if there is none, and he did not go astray, he will be where
\* the server has him.
Itself(c, k, u, d, w, h, ok) ==
    /\ \A i \in 1 .. Len(u) : u[i] \in Moves => u[i].after <= h.got
    /\ Will(u, FreshMoves(h.sent), k.seen[c].at, k.seen[c].at)
    /\ ok /\ (\A i \in 1 .. Len(u) : u[i] \notin FreshMoves(h.sent))
          => Will(d, Back, k.seen[c].at, w.coords)

Straight(c) == Alive(c) /\ c \notin history.astray

OfClient(c) ==
    /\ Bounded(up[c], down[c], history.corrected[c], history.moves)
    /\ Grounded(c, client[c], up[c], down[c], server.walker[c])

OfMatch(c) ==
    /\ Known(c, client[c], down[c], server.players, server.lives)
    /\ Seeing(c, client[c], down[c], server.players, server.walker)
    /\ Itself(c, client[c], up[c], down[c], server.walker[c], history.corrected[c],
              Straight(c))

Inv ==
    /\ TypeOK
    /\ \A p \in Players : Coords(p) \in Floor \ server.soft
    /\ \A c \in Clients : OfClient(c)
    /\ \A c \in Clients \cap server.players : OfMatch(c)

-----------------------------------------------------------------------------
(* Messages, and what they bring about in the end.                         *)

\* What messages there are to the server.
LEMMA MessageForms ==
    /\ \A s \in Floor : [type |-> "PlaceBomb", at |-> s] \in Message
    /\ \A s \in Floor, n \in 0 .. MaxMoves :
          [type |-> "Move", at |-> s, after |-> n] \in Message
    /\ \A m \in Message : /\ m.type \in {"Move", "PlaceBomb"} /\ m.at \in Floor
                          /\ m.type = "Move" => m.after \in 0 .. MaxMoves
    /\ \A m \in Message : m \in Moves <=> m.type = "Move"
    /\ \A m \in Message : \A n : m \in FreshMoves(n) <=> m.type = "Move" /\ m.after = n
BY DEF Message, Moves, FreshMoves

\* What messages there are to a client.
LEMMA NewsForms ==
    /\ \A p \in Players, s \in Floor : [type |-> "OtherMove", who |-> p, at |-> s] \in News
    /\ \A b \in Bomb : [type |-> "OtherBombPlace", bomb |-> b] \in News
    /\ \A s \in Floor : [type |-> "MovementCorrection", at |-> s] \in News
    /\ \A p \in Players, n \in 0 .. Lives :
          [type |-> "GotHit", who |-> p, lives |-> n] \in News
    /\ \A p \in Players : [type |-> "OtherLeave", who |-> p] \in News
BY DEF News

\* What is in a message to a client.
LEMMA NewsFields ==
    \A m \in News :
        /\ m.type \in {"OtherMove", "OtherBombPlace", "MovementCorrection", "GotHit",
                       "OtherLeave"}
        /\ m.type = "OtherMove" => m.who \in Players /\ m.at \in Floor
        /\ m.type = "OtherBombPlace" => m.bomb \in Bomb
        /\ m.type = "GotHit" => m.who \in Players /\ m.lives \in 0 .. Lives
        /\ m.type = "OtherLeave" => m.who \in Players
        /\ m \in Back <=> m.type = "MovementCorrection"
        /\ \A p : /\ m \in MoveOf(p) <=> m.type = "OtherMove" /\ m.who = p
                  /\ m \in HitOn(p) <=> m.type = "GotHit" /\ m.who = p
                  /\ m \in LeaveOf(p) <=> m.type = "OtherLeave" /\ m.who = p
BY DEF News, Back, MoveOf, HitOn, LeaveOf

\* The last message of A decides.
LEMMA WillTail ==
    ASSUME NEW T, NEW s, NEW t, Rest(t, s, T), NEW A, NEW x, NEW y,
           Will(s, A, x, y)
    PROVE  /\ s[1] \in A => Will(t, A, s[1].at, y)
           /\ s[1] \notin A => Will(t, A, x, y)
<1> DEFINE n == Len(s)
           k == Len(t)
<1>1. n \in Nat /\ k \in Nat /\ n = k + 1 /\ \A i \in 1 .. k : t[i] = s[i + 1]
  BY DEF Rest
<1> HIDE DEF n, k
<1>2. \A i \in 1 .. k : i + 1 \in 1 .. n
  BY <1>1
<1>3. \A j \in 1 .. n : j = 1 \/ (j - 1 \in 1 .. k /\ (j - 1) + 1 = j)
  BY <1>1
<1>4. ASSUME NEW i \in 1 .. k, t[i] \in A, \A j \in 1 .. k : t[j] \in A => j <= i
      PROVE  t[i].at = y
  <2>1. \A j \in 1 .. n : s[j] \in A => j <= i + 1
    <3> SUFFICES ASSUME NEW j \in 1 .. n, s[j] \in A PROVE j <= i + 1
      OBVIOUS
    <3>1. CASE j = 1
      BY <3>1
    <3>2. CASE j # 1
      <4>1. j - 1 \in 1 .. k /\ (j - 1) + 1 = j
        BY <1>3, <3>2
      <4>2. t[j - 1] = s[j]
        BY <1>1, <4>1
      <4>3. j - 1 <= i
        BY <1>4, <4>1, <4>2
      <4> QED BY <1>1, <4>1, <4>3
    <3> QED BY <3>1, <3>2
  <2>2. i + 1 \in 1 .. n /\ s[i + 1] = t[i]
    BY <1>1, <1>2
  <2>3. s[i + 1].at = y
    BY <1>4, <2>1, <2>2, Zenon DEF Will, n
  <2> QED BY <2>2, <2>3
<1>5. ASSUME \A i \in 1 .. k : t[i] \notin A
      PROVE  /\ s[1] \in A => s[1].at = y
             /\ s[1] \notin A => x = y
  <2>1. \A j \in 1 .. n : s[j] \in A => j = 1
    <3> SUFFICES ASSUME NEW j \in 1 .. n, s[j] \in A, j # 1 PROVE FALSE
      OBVIOUS
    <3>1. j - 1 \in 1 .. k /\ (j - 1) + 1 = j
      BY <1>3
    <3>2. t[j - 1] = s[j]
      BY <1>1, <3>1
    <3> QED BY <1>5, <3>1, <3>2
  <2>2. 1 \in 1 .. n
    BY <1>1
  <2>3. \A j \in 1 .. n : s[j] \in A => j <= 1
    BY <2>1
  <2>4. s[1] \in A => s[1].at = y
    BY <2>2, <2>3, Zenon DEF Will, n
  <2>5. s[1] \notin A => x = y
    BY <2>1, Zenon DEF Will, n
  <2> QED BY <2>4, <2>5
<1> QED BY <1>4, <1>5, Zenon DEF Will, k

\* Messages that are not of A change nothing.
LEMMA WillSkip ==
    ASSUME NEW T, NEW r, NEW s, NEW t, Joined(r, s, t, T), NEW A, NEW x, NEW y,
           \A i \in 1 .. Len(t) : t[i] \notin A,
           Will(s, A, x, y)
    PROVE  Will(r, A, x, y)
<1> DEFINE n == Len(s)
           k == Len(r)
<1>1. n \in Nat /\ k \in Nat /\ n <= k /\ \A i \in 1 .. n : r[i] = s[i]
  BY DEF Joined
<1>2. \A i \in 1 .. k : i \notin 1 .. n => i - n \in 1 .. Len(t) /\ r[i] = t[i - n]
  BY DEF Joined
<1> HIDE DEF n, k
<1>3. \A i \in 1 .. k : r[i] \in A => i \in 1 .. n /\ s[i] \in A
  BY <1>1, <1>2
<1>4. \A i \in 1 .. n : i \in 1 .. k
  BY <1>1
<1>5. ASSUME NEW i \in 1 .. k, r[i] \in A, \A j \in 1 .. k : r[j] \in A => j <= i
      PROVE  r[i].at = y
  <2>1. i \in 1 .. n /\ s[i] \in A /\ s[i] = r[i]
    BY <1>1, <1>3, <1>5
  <2>2. ASSUME NEW j \in 1 .. n, s[j] \in A PROVE j <= i
    <3>1. j \in 1 .. k /\ r[j] \in A
      BY <1>1, <1>4, <2>2
    <3> QED BY <1>5, <3>1
  <2> QED BY <2>1, <2>2, Zenon DEF Will, n
<1>6. ASSUME \A i \in 1 .. k : r[i] \notin A PROVE x = y
  <2>1. \A i \in 1 .. n : s[i] \notin A
    BY <1>1, <1>4, <1>6
  <2> QED BY <2>1, Zenon DEF Will, n
<1> QED BY <1>5, <1>6, Zenon DEF Will, k

\* If the last message is of A, it is the one that decides.
LEMMA WillNew ==
    ASSUME NEW T, NEW r, NEW s, NEW t, Joined(r, s, t, T), t # <<>>, NEW A,
           t[Len(t)] \in A, NEW x, NEW y, y = t[Len(t)].at
    PROVE  Will(r, A, x, y)
<1> DEFINE k == Len(r)
<1>1. k \in Nat /\ k >= 1 /\ r[k] = t[Len(t)]
  BY DEF Joined
<1> HIDE DEF k
<1>2. ASSUME NEW i \in 1 .. k, \A j \in 1 .. k : r[j] \in A => j <= i PROVE r[i].at = y
  <2>0. k \in 1 .. k /\ r[k] \in A
    BY <1>1
  <2>1. k <= i
    BY <1>2, <2>0
  <2>2. i = k
    BY <1>1, <2>1
  <2> QED BY <1>1, <2>2
<1>3. ~(\A i \in 1 .. k : r[i] \notin A)
  BY <1>1
<1> QED BY <1>2, <1>3, Zenon DEF Will, k

\* Without a message of A nothing changes.
LEMMA WillStay ==
    ASSUME NEW s, NEW A, \A i \in 1 .. Len(s) : s[i] \notin A, NEW x, NEW y
    PROVE  Will(s, A, x, y) <=> x = y
BY Zenon DEF Will

\* With a message of A it does not matter how things are now.
LEMMA WillAnyway ==
    ASSUME NEW s, NEW A, NEW i \in 1 .. Len(s), s[i] \in A, NEW x, NEW z, NEW y,
           Will(s, A, x, y)
    PROVE  Will(s, A, z, y)
BY Zenon DEF Will

-----------------------------------------------------------------------------
(* Bounded.                                                                *)

\* A client hears a message: a correction on its way becomes one it heard of.
LEMMA BoundedHear ==
    ASSUME NEW u, NEW d, NEW e, Rest(e, d, News), NEW h, NEW g, NEW n,
           h.got \in Nat, g.sent = h.sent,
           d[1] \in Back => g.got = h.got + 1,
           d[1] \notin Back => g.got = h.got,
           Bounded(u, d, h, n)
    PROVE  Bounded(u, e, g, n)
<1>1. /\ Upto(e, Back, Len(e)) \in Nat
      /\ d[1] \in Back => Upto(d, Back, Len(d)) = 1 + Upto(e, Back, Len(e))
      /\ d[1] \notin Back => Upto(d, Back, Len(d)) = Upto(e, Back, Len(e))
  BY CountTail
<1>2. h.got + Upto(d, Back, Len(d)) = h.sent
  BY Zenon DEF Bounded
<1> DEFINE x == Upto(e, Back, Len(e))
           y == Upto(d, Back, Len(d))
<1> HIDE DEF x, y
<1>3. /\ x \in Nat /\ h.got + y = h.sent
      /\ d[1] \in Back => y = 1 + x
      /\ d[1] \notin Back => y = x
  BY <1>1, <1>2, Zenon DEF x, y
<1>4. g.got + x = h.sent
  BY <1>3
<1> QED BY <1>4, Zenon DEF Bounded, x

\* The server takes a message and sends others, which are no corrections.
LEMMA BoundedTake ==
    ASSUME NEW u, NEW v, Rest(v, u, Message), NEW d, NEW e, NEW f, Joined(e, d, f, News),
           \A i \in 1 .. Len(f) : f[i] \notin Back,
           NEW h, h.sent \in Nat, h.got \in Nat, NEW n \in Nat, Bounded(u, d, h, n)
    PROVE  Bounded(v, e, h, n)
<1>1. /\ Upto(v, Moves, Len(v)) \in Nat
      /\ u[1] \in Moves => Upto(u, Moves, Len(u)) = 1 + Upto(v, Moves, Len(v))
      /\ u[1] \notin Moves => Upto(u, Moves, Len(u)) = Upto(v, Moves, Len(v))
  BY CountTail
<1>2. /\ Upto(d, Back, Len(d)) \in Nat /\ Upto(f, Back, Len(f)) \in Nat
      /\ Upto(e, Back, Len(e)) = Upto(d, Back, Len(d)) + Upto(f, Back, Len(f))
      /\ (\A i \in 1 .. Len(f) : f[i] \notin Back) => Upto(f, Back, Len(f)) = 0
  BY CountConcat
<1> DEFINE x == Upto(u, Moves, Len(u))
           y == Upto(v, Moves, Len(v))
           z == Upto(d, Back, Len(d))
           w == Upto(e, Back, Len(e))
<1>3. h.sent + x <= n /\ h.got + z = h.sent
  BY Zenon DEF Bounded
<1>4. y \in Nat /\ (x = 1 + y \/ x = y)
  BY <1>1
<1>5. z \in Nat /\ w = z
  BY <1>2
<1> HIDE DEF x, y, z, w
<1>6. h.sent + y <= n /\ h.got + w = h.sent
  BY <1>3, <1>4, <1>5
<1> QED BY <1>6, Zenon DEF Bounded, y, w

\* The server takes a move and answers with a correction.
LEMMA BoundedCorrect ==
    ASSUME NEW u, NEW v, Rest(v, u, Message), u[1] \in Moves,
           NEW d, NEW e, NEW f, Joined(e, d, f, News), Upto(f, Back, Len(f)) = 1,
           NEW h, NEW g, h.sent \in Nat, h.got \in Nat,
           g.sent = h.sent + 1, g.got = h.got, NEW n \in Nat, Bounded(u, d, h, n)
    PROVE  Bounded(v, e, g, n)
<1>1. /\ Upto(v, Moves, Len(v)) \in Nat
      /\ u[1] \in Moves => Upto(u, Moves, Len(u)) = 1 + Upto(v, Moves, Len(v))
      /\ u[1] \notin Moves => Upto(u, Moves, Len(u)) = Upto(v, Moves, Len(v))
  BY CountTail
<1>2. /\ Upto(d, Back, Len(d)) \in Nat /\ Upto(f, Back, Len(f)) \in Nat
      /\ Upto(e, Back, Len(e)) = Upto(d, Back, Len(d)) + Upto(f, Back, Len(f))
      /\ (\A i \in 1 .. Len(f) : f[i] \notin Back) => Upto(f, Back, Len(f)) = 0
  BY CountConcat
<1> DEFINE x == Upto(u, Moves, Len(u))
           y == Upto(v, Moves, Len(v))
           z == Upto(d, Back, Len(d))
           w == Upto(e, Back, Len(e))
<1>3. h.sent + x <= n /\ h.got + z = h.sent
  BY Zenon DEF Bounded
<1>4. y \in Nat /\ x = 1 + y
  BY <1>1
<1>5. z \in Nat /\ w = z + 1
  BY <1>2
<1> HIDE DEF x, y, z, w
<1>6. g.sent + y <= n /\ g.got + w = g.sent
  BY <1>3, <1>4, <1>5
<1> QED BY <1>6, Zenon DEF Bounded, y, w

\* The server sends messages that are no corrections.
LEMMA BoundedSend ==
    ASSUME NEW u, NEW d, NEW e, NEW f, Joined(e, d, f, News),
           \A i \in 1 .. Len(f) : f[i] \notin Back,
           NEW h, NEW n, Bounded(u, d, h, n)
    PROVE  Bounded(u, e, h, n)
<1>1. /\ Upto(d, Back, Len(d)) \in Nat /\ Upto(f, Back, Len(f)) \in Nat
      /\ Upto(e, Back, Len(e)) = Upto(d, Back, Len(d)) + Upto(f, Back, Len(f))
      /\ (\A i \in 1 .. Len(f) : f[i] \notin Back) => Upto(f, Back, Len(f)) = 0
  BY CountConcat
<1>2. Upto(e, Back, Len(e)) = Upto(d, Back, Len(d))
  BY <1>1
<1> QED BY <1>2, Zenon DEF Bounded

\* A client makes at most k moves.
LEMMA BoundedMake ==
    ASSUME NEW u, NEW v, NEW w, Joined(v, u, w, Message), NEW k \in Nat,
           Upto(w, Moves, Len(w)) <= k,
           NEW d, NEW h, h.sent \in Nat, NEW n \in Nat, Bounded(u, d, h, n)
    PROVE  Bounded(v, d, h, n + k)
<1>1. /\ Upto(u, Moves, Len(u)) \in Nat /\ Upto(w, Moves, Len(w)) \in Nat
      /\ Upto(v, Moves, Len(v)) = Upto(u, Moves, Len(u)) + Upto(w, Moves, Len(w))
      /\ (\A i \in 1 .. Len(w) : w[i] \notin Moves) => Upto(w, Moves, Len(w)) = 0
  BY CountConcat
<1> DEFINE x == Upto(u, Moves, Len(u))
           y == Upto(v, Moves, Len(v))
           z == Upto(w, Moves, Len(w))
<1>2. x \in Nat /\ z \in Nat /\ y = x + z /\ z <= k
  BY <1>1
<1>3. h.sent + x <= n
  BY Zenon DEF Bounded
<1> HIDE DEF x, y, z
<1>4. h.sent + y <= n + k
  BY <1>2, <1>3
<1> QED BY <1>4, Zenon DEF Bounded, y

-----------------------------------------------------------------------------
(* Grounded.                                                               *)

\* A client hears a message: a correction moves its own player.
LEMMA GroundedHear ==
    ASSUME NEW c, NEW k, NEW l, NEW u, NEW d, NEW e, Rest(e, d, News), NEW w,
           l.soft = k.soft,
           d[1] \in Back => l.seen[c].at = d[1].at,
           d[1] \notin Back /\ d[1] \notin MoveOf(c) => l.seen[c].at = k.seen[c].at,
           Grounded(c, k, u, d, w)
    PROVE  Grounded(c, l, u, e, w)
<1>1. \A i \in 1 .. Len(e) : \E j \in 1 .. Len(d) : e[i] = d[j]
  BY RestOf
<1>2. 1 \in 1 .. Len(d)
  BY PlacesTail
<1>3. /\ k.seen[c].at \in Floor \ k.soft
      /\ w.coords \in Floor \ k.soft
      /\ \A i \in 0 .. History - 1 :
            w.history[i] # M!Unrecorded => w.history[i] \in Floor \ k.soft
      /\ \A i \in 1 .. Len(u) : u[i] \in Moves => u[i].at \in Floor \ k.soft
      /\ \A i \in 1 .. Len(d) : d[i] \in Back => d[i].at \in Floor \ k.soft
      /\ \A i \in 1 .. Len(d) : d[i] \notin MoveOf(c)
  BY Zenon DEF Grounded
<1>4. l.seen[c].at \in Floor \ k.soft
  BY <1>2, <1>3, Zenon
<1>5. \A i \in 1 .. Len(e) : e[i] \in Back => e[i].at \in Floor \ k.soft
  BY <1>1, <1>3, Zenon
<1>6. \A i \in 1 .. Len(e) : e[i] \notin MoveOf(c)
  BY <1>1, <1>3, Zenon
<1> QED BY <1>3, <1>4, <1>5, <1>6, Zenon DEF Grounded

\* The map loses walls.
LEMMA GroundedLose ==
    ASSUME NEW c, NEW k, NEW l, NEW u, NEW d, NEW w,
           \A x : x \in l.soft => x \in k.soft,
           l.seen[c].at = k.seen[c].at,
           Grounded(c, k, u, d, w)
    PROVE  Grounded(c, l, u, d, w)
<1>1. \A x \in Floor \ k.soft : x \in Floor \ l.soft
  OBVIOUS
<1> QED BY <1>1, Zenon DEF Grounded

\* The client moves to free squares, and tells the server.
LEMMA GroundedMake ==
    ASSUME NEW c, NEW k, NEW l, NEW u, NEW v, NEW t, Joined(v, u, t, Message), NEW d, NEW w,
           l.soft = k.soft,
           l.seen[c].at \in Floor \ k.soft,
           \A i \in 1 .. Len(t) : t[i] \in Moves => t[i].at \in Floor \ k.soft,
           Grounded(c, k, u, d, w)
    PROVE  Grounded(c, l, v, d, w)
<1>1. \A j \in 1 .. Len(v) : \/ \E i \in 1 .. Len(u) : v[j] = u[i]
                             \/ \E i \in 1 .. Len(t) : v[j] = t[i]
  BY EachOf
<1>2. \A i \in 1 .. Len(u) : u[i] \in Moves => u[i].at \in Floor \ k.soft
  BY Zenon DEF Grounded
<1>3. \A i \in 1 .. Len(v) : v[i] \in Moves => v[i].at \in Floor \ k.soft
  BY <1>1, <1>2, Zenon
<1> QED BY <1>3, Zenon DEF Grounded

\* The server sends messages: corrections to squares where the player has been.
LEMMA GroundedSend ==
    ASSUME NEW c, NEW k, NEW u, NEW d, NEW e, NEW f, Joined(e, d, f, News), NEW w,
           \A i \in 1 .. Len(f) : f[i] \in Back => f[i].at \in Floor \ k.soft,
           \A i \in 1 .. Len(f) : f[i] \notin MoveOf(c),
           Grounded(c, k, u, d, w)
    PROVE  Grounded(c, k, u, e, w)
<1>1. \A j \in 1 .. Len(e) : \/ \E i \in 1 .. Len(d) : e[j] = d[i]
                             \/ \E i \in 1 .. Len(f) : e[j] = f[i]
  BY EachOf
<1>2. /\ \A i \in 1 .. Len(d) : d[i] \in Back => d[i].at \in Floor \ k.soft
      /\ \A i \in 1 .. Len(d) : d[i] \notin MoveOf(c)
  BY Zenon DEF Grounded
<1>3. \A i \in 1 .. Len(e) : e[i] \in Back => e[i].at \in Floor \ k.soft
  BY <1>1, <1>2, Zenon
<1>4. \A i \in 1 .. Len(e) : e[i] \notin MoveOf(c)
  BY <1>1, <1>2, Zenon
<1> QED BY <1>3, <1>4, Zenon DEF Grounded

\* The server takes a message; the player goes to a free square, if anywhere,
\* and what is recorded are free squares.
LEMMA GroundedTake ==
    ASSUME NEW c, NEW k, NEW u, NEW v, Rest(v, u, Message), NEW d, NEW w, NEW x,
           x.coords \in Floor \ k.soft,
           \A i \in 0 .. History - 1 :
              x.history[i] # M!Unrecorded => x.history[i] \in Floor \ k.soft,
           Grounded(c, k, u, d, w)
    PROVE  Grounded(c, k, v, d, x)
<1>1. \A i \in 1 .. Len(v) : \E j \in 1 .. Len(u) : v[i] = u[j]
  BY RestOf
<1>2. \A i \in 1 .. Len(u) : u[i] \in Moves => u[i].at \in Floor \ k.soft
  BY Zenon DEF Grounded
<1>3. \A i \in 1 .. Len(v) : v[i] \in Moves => v[i].at \in Floor \ k.soft
  BY <1>1, <1>2, Zenon
<1> QED BY <1>3, Zenon DEF Grounded

-----------------------------------------------------------------------------
(* Seeing.                                                                 *)

\* A client hears a message: a move changes where it sees somebody.
LEMMA SeeingHear ==
    ASSUME NEW c, NEW k, NEW l, NEW d, NEW e, Rest(e, d, News), NEW S, NEW W,
           \A p \in Sure(c, l) : p \in Sure(c, k),
           \A p \in Sure(c, l) : p # c /\ d[1] \in MoveOf(p) => l.seen[p].at = d[1].at,
           \A p \in Sure(c, l) : p # c /\ d[1] \notin MoveOf(p) => l.seen[p].at = k.seen[p].at,
           Seeing(c, k, d, S, W)
    PROVE  Seeing(c, l, e, S, W)
<1> SUFFICES ASSUME NEW p \in S \ {c}, p \in Sure(c, l)
             PROVE  Will(e, MoveOf(p), l.seen[p].at, W[p].coords)
  BY Zenon DEF Seeing
<1>1. Will(d, MoveOf(p), k.seen[p].at, W[p].coords)
  BY Zenon DEF Seeing
<1> DEFINE A == MoveOf(p)
           x == k.seen[p].at
           y == W[p].coords
<1> HIDE DEF A, x, y
<1>2. Will(d, A, x, y)
  BY <1>1 DEF A, x, y
<1>3. /\ d[1] \in A => Will(e, A, d[1].at, y)
      /\ d[1] \notin A => Will(e, A, x, y)
  BY <1>2, WillTail
<1>4. d[1] \in A => l.seen[p].at = d[1].at
  BY DEF A
<1>5. d[1] \notin A => l.seen[p].at = x
  BY DEF A, x
<1>6. Will(e, A, l.seen[p].at, y)
  BY <1>3, <1>4, <1>5, Zenon
<1> QED BY <1>6, Zenon DEF A, y

\* The server sends no moves, and nobody but c moves.
LEMMA SeeingSend ==
    ASSUME NEW c, NEW k, NEW d, NEW e, NEW f, Joined(e, d, f, News), NEW S, NEW R, NEW W, NEW X,
           \A p \in R : p \in S,
           \A p \in R \ {c} : \A i \in 1 .. Len(f) : f[i] \notin MoveOf(p),
           \A p \in R \ {c} : X[p].coords = W[p].coords,
           Seeing(c, k, d, S, W)
    PROVE  Seeing(c, k, e, R, X)
<1> SUFFICES ASSUME NEW p \in R \ {c}, p \in Sure(c, k)
             PROVE  Will(e, MoveOf(p), k.seen[p].at, X[p].coords)
  BY Zenon DEF Seeing
<1> DEFINE A == MoveOf(p)
           x == k.seen[p].at
           y == W[p].coords
<1>1. p \in S \ {c}
  OBVIOUS
<1>2. Will(d, A, x, y)
  BY <1>1, Zenon DEF Seeing
<1>3. \A i \in 1 .. Len(f) : f[i] \notin A
  OBVIOUS
<1> HIDE DEF A, x, y
<1>4. Will(e, A, x, y)
  BY <1>2, <1>3, WillSkip
<1> QED BY <1>4, Zenon DEF A, x, y

\* The messages f tell c that q moves, and nobody else does.
Moved(c, f, S, W, X, q) ==
    /\ f # <<>> /\ f[Len(f)] \in MoveOf(q) /\ f[Len(f)].at = X[q].coords
    /\ \A p \in S \ {c} : p # q => \A i \in 1 .. Len(f) : f[i] \notin MoveOf(p)
    /\ \A p \in S \ {c} : p # q => X[p].coords = W[p].coords

\* q moves, and c is told.
LEMMA SeeingMove ==
    ASSUME NEW c, NEW k, NEW d, NEW e, NEW f, Joined(e, d, f, News), NEW S, NEW W, NEW X,
           NEW q, Moved(c, f, S, W, X, q),
           Seeing(c, k, d, S, W)
    PROVE  Seeing(c, k, e, S, X)
<1>0. /\ f # <<>> /\ f[Len(f)] \in MoveOf(q) /\ f[Len(f)].at = X[q].coords
      /\ \A p \in S \ {c} : p # q => \A i \in 1 .. Len(f) : f[i] \notin MoveOf(p)
      /\ \A p \in S \ {c} : p # q => X[p].coords = W[p].coords
  BY Zenon DEF Moved
<1> SUFFICES ASSUME NEW p \in S \ {c}, p \in Sure(c, k)
             PROVE  Will(e, MoveOf(p), k.seen[p].at, X[p].coords)
  BY Zenon DEF Seeing
<1> DEFINE A == MoveOf(p)
           x == k.seen[p].at
           y == X[p].coords
<1>1. CASE p = q
  <2>1. f[Len(f)] \in A /\ y = f[Len(f)].at
    BY <1>0, <1>1
  <2> HIDE DEF A, x, y
  <2>2. Will(e, A, x, y)
    BY <1>0, <2>1, WillNew
  <2> QED BY <2>2, Zenon DEF A, x, y
<1>2. CASE p # q
  <2>1. Will(d, A, x, y)
    <3>1. Will(d, MoveOf(p), k.seen[p].at, W[p].coords)
      BY Zenon DEF Seeing
    <3>2. W[p].coords = X[p].coords
      BY <1>0, <1>2
    <3> QED BY <3>1, <3>2, Zenon
  <2>2. \A i \in 1 .. Len(f) : f[i] \notin A
    BY <1>0, <1>2
  <2> HIDE DEF A, x, y
  <2>3. Will(e, A, x, y)
    BY <2>1, <2>2, WillSkip
  <2> QED BY <2>3, Zenon DEF A, x, y
<1> QED BY <1>1, <1>2

\* The client's own moves do not change where it sees others.
LEMMA SeeingSame ==
    ASSUME NEW c, NEW k, NEW l, NEW d, NEW S, NEW W,
           l.listed = k.listed,
           \A p \in k.listed : p # c => l.seen[p].at = k.seen[p].at,
           Seeing(c, k, d, S, W)
    PROVE  Seeing(c, l, d, S, W)
<1> SUFFICES ASSUME NEW p \in S \ {c}, p \in Sure(c, k)
             PROVE  Will(d, MoveOf(p), l.seen[p].at, W[p].coords)
  BY Zenon DEF Seeing, Sure
<1>1. Will(d, MoveOf(p), k.seen[p].at, W[p].coords)
  BY Zenon DEF Seeing
<1>2. l.seen[p].at = k.seen[p].at
  BY DEF Sure
<1> QED BY <1>1, <1>2, Zenon

-----------------------------------------------------------------------------
(* Itself.                                                                 *)

\* Corrections that were sent were heard of or are under way.
LEMMA Settling ==
    ASSUME NEW u, NEW d, NEW h, NEW n, Len(d) \in Nat, h.got \in Nat, h.sent \in Nat,
           Bounded(u, d, h, n)
    PROVE  /\ h.got <= h.sent
           /\ h.got = h.sent <=> \A i \in 1 .. Len(d) : d[i] \notin Back
<1> DEFINE x == Upto(d, Back, Len(d))
<1>1. x \in Nat
  BY UptoFacts
<1>2. x = 0 <=> \A i \in 1 .. Len(d) : d[i] \notin Back
  BY CountNone
<1>3. h.got + x = h.sent
  BY Zenon DEF Bounded
<1> HIDE DEF x
<1>4. h.got <= h.sent /\ (h.got = h.sent <=> x = 0)
  BY <1>1, <1>3
<1> QED BY <1>2, <1>4

\* A correction is heard of: it puts the player where the server wants him, and
\* no move under way is one that he made since.
LEMMA ItselfCorrected ==
    ASSUME NEW c, NEW k, NEW l, NEW u, NEW d, NEW e, Rest(e, d, News), NEW w, NEW h, NEW g,
           NEW ok, NEW n, Len(d) \in Nat, h.got \in Nat, h.sent \in Nat,
           Bounded(u, d, h, n),
           \A i \in 1 .. Len(u) : u[i] \in Moves => u[i].after \in Nat,
           d[1] \in Back, l.seen[c].at = d[1].at,
           g.sent = h.sent, g.got = h.got + 1,
           Itself(c, k, u, d, w, h, ok)
    PROVE  Itself(c, l, u, e, w, g, ok)
<1> DEFINE F == FreshMoves(h.sent)
           x == k.seen[c].at
           y == w.coords
<1>1. /\ \A i \in 1 .. Len(u) : u[i] \in Moves => u[i].after <= h.got
      /\ ok /\ (\A i \in 1 .. Len(u) : u[i] \notin F) => Will(d, Back, x, y)
  BY Zenon DEF Itself
<1>2. h.got < h.sent
  <2>1. h.got <= h.sent /\ (h.got = h.sent <=> \A i \in 1 .. Len(d) : d[i] \notin Back)
    BY Settling
  <2>2. 1 \in 1 .. Len(d)
    BY PlacesTail
  <2>3. h.got # h.sent
    BY <2>1, <2>2
  <2> QED BY <2>1, <2>3
<1>3. \A i \in 1 .. Len(u) : u[i] \notin F
  <2> SUFFICES ASSUME NEW i \in 1 .. Len(u), u[i] \in F PROVE FALSE
    OBVIOUS
  <2>1. u[i] \in Moves /\ u[i].after = h.sent
    BY DEF FreshMoves
  <2>2. u[i].after <= h.got
    BY <1>1, <2>1
  <2> QED BY <1>2, <2>1, <2>2
<1>4. \A i \in 1 .. Len(u) : u[i] \in Moves => u[i].after <= h.got + 1
  BY <1>1
<1> HIDE DEF F, x, y
<1>5. Will(u, F, l.seen[c].at, l.seen[c].at)
  BY <1>3, WillStay
<1>6. ok => Will(e, Back, d[1].at, y)
  <2> SUFFICES ASSUME ok PROVE Will(e, Back, d[1].at, y)
    OBVIOUS
  <2>1. Will(d, Back, x, y)
    BY <1>1, <1>3, Zenon
  <2>2. /\ d[1] \in Back => Will(e, Back, d[1].at, y)
        /\ d[1] \notin Back => Will(e, Back, x, y)
    BY <2>1, WillTail
  <2> QED BY <2>2
<1> QED BY <1>4, <1>5, <1>6, Zenon DEF Itself, F, y

\* The client hears something else.
LEMMA ItselfHear ==
    ASSUME NEW c, NEW k, NEW l, NEW u, NEW d, NEW e, Rest(e, d, News), NEW w, NEW h, NEW ok,
           d[1] \notin Back, l.seen[c].at = k.seen[c].at,
           Itself(c, k, u, d, w, h, ok)
    PROVE  Itself(c, l, u, e, w, h, ok)
<1> DEFINE F == FreshMoves(h.sent)
           x == k.seen[c].at
           y == w.coords
<1>1. /\ \A i \in 1 .. Len(u) : u[i] \in Moves => u[i].after <= h.got
      /\ Will(u, F, x, x)
      /\ ok /\ (\A i \in 1 .. Len(u) : u[i] \notin F) => Will(d, Back, x, y)
  BY Zenon DEF Itself
<1> HIDE DEF F, x, y
<1>2. Will(d, Back, x, y) => Will(e, Back, x, y)
  <2> SUFFICES ASSUME Will(d, Back, x, y) PROVE Will(e, Back, x, y)
    OBVIOUS
  <2>1. /\ d[1] \in Back => Will(e, Back, d[1].at, y)
        /\ d[1] \notin Back => Will(e, Back, x, y)
    BY WillTail
  <2> QED BY <2>1
<1>3. l.seen[c].at = x
  BY DEF x
<1> QED BY <1>1, <1>2, <1>3, Zenon DEF Itself, F, y

\* The client makes moves, the last to where its player is then, or none.
LEMMA ItselfMake ==
    ASSUME NEW c, NEW k, NEW l, NEW u, NEW v, NEW t, Joined(v, u, t, Message), NEW d, NEW w,
           NEW h, NEW ok, NEW n, Len(d) \in Nat, h.got \in Nat, h.sent \in Nat,
           Bounded(u, d, h, n),
           \A i \in 1 .. Len(t) : t[i] \in Moves => t[i].after = h.got,
           \/ (\A i \in 1 .. Len(t) : t[i] \notin Moves) /\ l.seen[c].at = k.seen[c].at
           \/ t # <<>> /\ t[Len(t)] \in Moves /\ t[Len(t)].at = l.seen[c].at,
           Itself(c, k, u, d, w, h, ok)
    PROVE  Itself(c, l, v, d, w, h, ok)
<1> DEFINE F == FreshMoves(h.sent)
           x == k.seen[c].at
           z == l.seen[c].at
           y == w.coords
<1>1. /\ \A i \in 1 .. Len(u) : u[i] \in Moves => u[i].after <= h.got
      /\ Will(u, F, x, x)
      /\ ok /\ (\A i \in 1 .. Len(u) : u[i] \notin F) => Will(d, Back, x, y)
  BY Zenon DEF Itself
<1>2. \A m : m \in F <=> m \in Moves /\ m.after = h.sent
  BY DEF FreshMoves
<1>3. /\ \A j \in 1 .. Len(v) : \/ \E i \in 1 .. Len(u) : v[j] = u[i]
                                \/ \E i \in 1 .. Len(t) : v[j] = t[i]
  BY EachOf
<1>4. \A j \in 1 .. Len(v) : v[j] \in Moves => v[j].after <= h.got
  <2> SUFFICES ASSUME NEW j \in 1 .. Len(v), v[j] \in Moves PROVE v[j].after <= h.got
    OBVIOUS
  <2>1. CASE \E i \in 1 .. Len(u) : v[j] = u[i]
    BY <1>1, <2>1
  <2>2. CASE \E i \in 1 .. Len(t) : v[j] = t[i]
    <3>1. v[j].after = h.got
      BY <2>2
    <3> QED BY <3>1
  <2> QED BY <1>3, <2>1, <2>2
<1>5. /\ h.got <= h.sent
      /\ h.got = h.sent <=> \A i \in 1 .. Len(d) : d[i] \notin Back
  BY Settling
<1>6. /\ Len(u) \in Nat /\ Len(t) \in Nat
      /\ \A i \in 1 .. Len(u) : i \in 1 .. Len(v) /\ v[i] = u[i]
      /\ \A i \in 1 .. Len(t) : Len(u) + i \in 1 .. Len(v) /\ v[Len(u) + i] = t[i]
  BY PlacesConcat
<1> HIDE DEF F, x, y, z
<1>7. CASE \A i \in 1 .. Len(t) : t[i] \notin F
  <2>1. Will(v, F, x, x)
    BY <1>1, <1>7, WillSkip
  <2>2. (\A i \in 1 .. Len(v) : v[i] \notin F) => \A i \in 1 .. Len(u) : u[i] \notin F
    BY <1>6, Zenon
  <2>3. CASE (\A i \in 1 .. Len(t) : t[i] \notin Moves) /\ l.seen[c].at = k.seen[c].at
    <3>1. z = x
      BY <2>3 DEF x, z
    <3> QED BY <1>1, <1>4, <2>1, <2>2, <3>1, Zenon DEF Itself, F, y, z
  <2>4. CASE t # <<>> /\ t[Len(t)] \in Moves /\ t[Len(t)].at = l.seen[c].at
    <3>1. Len(t) \in 1 .. Len(t)
      BY <1>6, <2>4 DEF Joined
    <3>2. h.got # h.sent
      BY <1>2, <1>7, <2>4, <3>1
    <3>3. PICK i \in 1 .. Len(d) : d[i] \in Back
      BY <1>5, <3>2
    <3>4. \A j \in 1 .. Len(v) : v[j] \notin F
      <4> SUFFICES ASSUME NEW j \in 1 .. Len(v), v[j] \in F PROVE FALSE
        OBVIOUS
      <4>1. v[j].after = h.sent /\ v[j].after <= h.got
        BY <1>2, <1>4
      <4> QED BY <1>5, <3>2, <4>1
    <3>5. Will(v, F, z, z)
      BY <3>4, WillStay
    <3>6. Will(d, Back, x, y) => Will(d, Back, z, y)
      BY <3>3, WillAnyway
    <3> QED BY <1>1, <1>4, <2>2, <3>5, <3>6, Zenon DEF Itself, F, y, z
  <2> QED BY <2>3, <2>4
<1>8. CASE ~(\A i \in 1 .. Len(t) : t[i] \notin F)
  <2>1. PICK i \in 1 .. Len(t) : t[i] \in F
    BY <1>8
  <2>2. t[i] \in Moves /\ h.got = h.sent
    BY <1>2, <2>1
  <2>3. t # <<>> /\ t[Len(t)] \in Moves /\ t[Len(t)].at = z
    BY <2>2 DEF z
  <2>4. Len(t) \in 1 .. Len(t)
    BY <1>6, <2>1
  <2>5. t[Len(t)] \in F
    BY <1>2, <2>2, <2>3, <2>4
  <2>6. Will(v, F, z, z)
    BY <2>3, <2>5, WillNew
  <2>7. ~(\A j \in 1 .. Len(v) : v[j] \notin F)
    BY <1>6, <2>1, Zenon
  <2> QED BY <1>4, <2>6, <2>7, Zenon DEF Itself, F, z
<1> QED BY <1>7, <1>8

\* The server takes a message that is no move, or one of a dead player.
LEMMA ItselfTake ==
    ASSUME NEW c, NEW k, NEW u, NEW v, Rest(v, u, Message), NEW d, NEW w, NEW h, NEW ok,
           u[1] \in Moves => ~ok,
           Itself(c, k, u, d, w, h, ok)
    PROVE  Itself(c, k, v, d, w, h, ok)
<1> DEFINE F == FreshMoves(h.sent)
           x == k.seen[c].at
           y == w.coords
<1>1. /\ \A i \in 1 .. Len(u) : u[i] \in Moves => u[i].after <= h.got
      /\ Will(u, F, x, x)
      /\ ok /\ (\A i \in 1 .. Len(u) : u[i] \notin F) => Will(d, Back, x, y)
  BY Zenon DEF Itself
<1>2. u[1] \in F => u[1] \in Moves
  BY DEF FreshMoves
<1> HIDE DEF F, x, y
<1>3. \A i \in 1 .. Len(v) : \E j \in 1 .. Len(u) : v[i] = u[j]
  BY RestOf
<1>4. \A i \in 1 .. Len(v) : v[i] \in Moves => v[i].after <= h.got
  BY <1>1, <1>3, Zenon
<1>5. Will(v, F, x, x)
  <2>1. /\ u[1] \in F => Will(v, F, u[1].at, x)
        /\ u[1] \notin F => Will(v, F, x, x)
    BY <1>1, WillTail
  <2>2. Will(v, F, u[1].at, x) => Will(v, F, x, x)
    BY Zenon DEF Will
  <2> QED BY <2>1, <2>2
<1>6. /\ \A i \in 1 .. Len(v) : 1 + i \in 1 .. Len(u) /\ v[i] = u[1 + i]
      /\ \A j \in 1 .. Len(u) : j = 1 \/ \E i \in 1 .. Len(v) : j = 1 + i
  BY PlacesTail
<1>7. ASSUME ok, \A i \in 1 .. Len(v) : v[i] \notin F PROVE Will(d, Back, x, y)
  <2>1. u[1] \notin F
    BY <1>2, <1>7
  <2>2. \A j \in 1 .. Len(u) : u[j] \notin F
    BY <1>6, <1>7, <2>1, Zenon
  <2> QED BY <1>1, <1>7, <2>2, Zenon
<1> QED BY <1>4, <1>5, <1>7, Zenon DEF Itself, F, x, y

\* The server sends no corrections, and the player stays where he is.
LEMMA ItselfSend ==
    ASSUME NEW c, NEW k, NEW u, NEW d, NEW e, NEW f, Joined(e, d, f, News), NEW w, NEW x,
           NEW h, NEW ok, NEW good,
           \A i \in 1 .. Len(f) : f[i] \notin Back,
           x.coords = w.coords, good => ok,
           Itself(c, k, u, d, w, h, ok)
    PROVE  Itself(c, k, u, e, x, h, good)
<1> DEFINE s == k.seen[c].at
           y == w.coords
<1>1. Will(d, Back, s, y) => Will(e, Back, s, y)
  <2> SUFFICES ASSUME Will(d, Back, s, y) PROVE Will(e, Back, s, y)
    OBVIOUS
  <2> HIDE DEF s, y
  <2> QED BY WillSkip
<1> QED BY <1>1, Zenon DEF Itself

\* The server accepts a move; if it is not a fresh one, he goes astray.
LEMMA ItselfAccept ==
    ASSUME NEW c, NEW k, NEW u, NEW v, Rest(v, u, Message), NEW d, NEW w, NEW x,
           NEW h, NEW ok, NEW good, NEW n, Len(d) \in Nat, h.got \in Nat, h.sent \in Nat,
           Bounded(u, d, h, n),
           x.coords = u[1].at,
           u[1] \in Moves,
           good => u[1].after >= h.sent /\ u[1].after \in Nat,
           Itself(c, k, u, d, w, h, ok)
    PROVE  Itself(c, k, v, d, x, h, good)
<1> DEFINE F == FreshMoves(h.sent)
           s == k.seen[c].at
           y == x.coords
<1>1. /\ \A i \in 1 .. Len(u) : u[i] \in Moves => u[i].after <= h.got
      /\ Will(u, F, s, s)
  BY Zenon DEF Itself
<1>2. \A m : m \in F <=> m \in Moves /\ m.after = h.sent
  BY DEF FreshMoves
<1>3. /\ h.got <= h.sent
      /\ h.got = h.sent <=> \A i \in 1 .. Len(d) : d[i] \notin Back
  BY Settling
<1> HIDE DEF F, s, y
<1>4. \A i \in 1 .. Len(v) : \E j \in 1 .. Len(u) : v[i] = u[j]
  BY RestOf
<1>5. \A i \in 1 .. Len(v) : v[i] \in Moves => v[i].after <= h.got
  BY <1>1, <1>4, Zenon
<1>6. /\ u[1] \in F => Will(v, F, u[1].at, s)
      /\ u[1] \notin F => Will(v, F, s, s)
  BY <1>1, WillTail
<1>7. Will(v, F, s, s)
  <2>1. Will(v, F, u[1].at, s) => Will(v, F, s, s)
    BY Zenon DEF Will
  <2> QED BY <1>6, <2>1
<1>8. ASSUME good, \A i \in 1 .. Len(v) : v[i] \notin F PROVE Will(d, Back, s, y)
  <2>1. 1 \in 1 .. Len(u)
    BY PlacesTail
  <2>2. u[1].after <= h.got
    BY <1>1, <2>1
  <2>3. u[1].after = h.sent /\ h.got = h.sent
    BY <1>3, <1>8, <2>2
  <2>4. Will(v, F, u[1].at, s)
    BY <1>2, <1>6, <2>3
  <2>5. u[1].at = s
    BY <1>8, <2>4, Zenon DEF Will
  <2>6. y = s
    BY <2>5 DEF y
  <2>7. \A i \in 1 .. Len(d) : d[i] \notin Back
    BY <1>3, <2>3
  <2> QED BY <2>6, <2>7, Zenon DEF Will
<1> QED BY <1>5, <1>7, <1>8, Zenon DEF Itself, F, s, y

\* The server sends the player back: all he has sent was sent before he knew.
LEMMA ItselfRefuse ==
    ASSUME NEW c, NEW k, NEW u, NEW v, Rest(v, u, Message),
           NEW d, NEW e, NEW f, Joined(e, d, f, News), f # <<>>, f[Len(f)] \in Back,
           NEW w, NEW x, NEW h, NEW g, NEW ok, NEW good, h.got \in Nat, h.sent \in Nat,
           h.got <= h.sent, g.sent = h.sent + 1, g.got = h.got,
           \A i \in 1 .. Len(u) : u[i] \in Moves => u[i].after \in Nat,
           good => x.coords = f[Len(f)].at,
           Itself(c, k, u, d, w, h, ok)
    PROVE  Itself(c, k, v, e, x, g, good)
<1> DEFINE F == FreshMoves(g.sent)
           s == k.seen[c].at
           y == x.coords
<1>1. \A i \in 1 .. Len(u) : u[i] \in Moves => u[i].after <= h.got /\ u[i].after \in Nat
  BY Zenon DEF Itself
<1>2. \A m : m \in F <=> m \in Moves /\ m.after = g.sent
  BY DEF FreshMoves
<1> HIDE DEF F, s, y
<1>3. \A i \in 1 .. Len(v) : \E j \in 1 .. Len(u) : v[i] = u[j]
  BY RestOf
<1>4. \A i \in 1 .. Len(v) : v[i] \in Moves => v[i].after <= h.got /\ v[i].after \in Nat
  BY <1>1, <1>3, Zenon
<1>5. \A i \in 1 .. Len(v) : v[i] \notin F
  <2> SUFFICES ASSUME NEW i \in 1 .. Len(v), v[i] \in F PROVE FALSE
    OBVIOUS
  <2>1. v[i].after = g.sent /\ v[i].after <= h.got
    BY <1>2, <1>4
  <2> QED BY <2>1
<1>6. Will(v, F, s, s)
  BY <1>5, WillStay
<1>7. ASSUME good PROVE Will(e, Back, s, y)
  <2>1. y = f[Len(f)].at
    BY <1>7 DEF y
  <2> QED BY <2>1, WillNew
<1>8. \A i \in 1 .. Len(v) : v[i] \in Moves => v[i].after <= g.got
  BY <1>4
<1> QED BY <1>6, <1>7, <1>8, Zenon DEF Itself, F, s, y

-----------------------------------------------------------------------------
(* Known.                                                                  *)

\* No ghost has the client's own name.
LEMMA OwnName ==
    ASSUME NEW c \in Clients
    PROVE  c \in Named(c)
BY ArenaAssumption DEF Named

\* What the client keeps of a player it will still list, less what it hears.
Hears(c, k, l, m) ==
    /\ \A p \in Sure(c, l) : p \in Sure(c, k) /\ m \notin LeaveOf(p)
    /\ \A p \in Sure(c, l) :
          m \in HitOn(p) => l.seen[p].health = k.seen[p].health - 1 /\ m.lives # 0
    /\ \A p \in Sure(c, l) : m \notin HitOn(p) => l.seen[p].health = k.seen[p].health
    /\ \A p \in Sure(c, k) :
          p \notin Sure(c, l) => m \in LeaveOf(p) \/ (m \in HitOn(p) /\ m.lives = 0)

\* A message that is heard is as good as one that will be.
AsGood(k, l, d, e, p, i) == Left(l, e, p, i) = Left(k, d, p, 1 + i)

\* Hearing a message changes nothing about the lives that will be left.
LEMMA LeftHear ==
    ASSUME NEW c, NEW k, NEW l, NEW d, NEW e, Rest(e, d, News), Hears(c, k, l, d[1]),
           NEW p \in Sure(c, l), k.seen[p].health \in Int, NEW i \in 0 .. Len(e)
    PROVE  AsGood(k, l, d, e, p, i)
<1> DEFINE A == HitOn(p)
           x == Upto(e, A, i)
           y == Upto(d, A, 1 + i)
           a == k.seen[p].health
           b == l.seen[p].health
<1>1. /\ d[1] \in A => b = a - 1
      /\ d[1] \notin A => b = a
  BY Zenon DEF Hears
<1> HIDE DEF A
<1>2. /\ Upto(e, A, i) \in Nat
      /\ d[1] \in A => Upto(d, A, 1 + i) = 1 + Upto(e, A, i)
      /\ d[1] \notin A => Upto(d, A, 1 + i) = Upto(e, A, i)
  BY UptoTail
<1>3. x \in Nat /\ a \in Int /\ (d[1] \in A => y = 1 + x) /\ (d[1] \notin A => y = x)
  BY <1>2
<1> HIDE DEF x, y, a, b
<1>4. b - x = a - y
  BY <1>1, <1>3
<1> QED BY <1>4, Zenon DEF AsGood, Left, A, x, y, a, b

\* The first hit on p leaves one life less, and what follows no more than that.
LEMMA LeftFirst ==
    ASSUME NEW k, NEW d, NEW e, Rest(e, d, News), NEW p, d[1] \in HitOn(p),
           k.seen[p].health \in Int
    PROVE  /\ Left(k, d, p, 1) = k.seen[p].health - 1
           /\ \A i \in 1 .. Len(d) : Left(k, d, p, i) <= k.seen[p].health - 1
<1> DEFINE A == HitOn(p)
           a == k.seen[p].health
<1>1. d[1] \in A /\ a \in Int
  OBVIOUS
<1> HIDE DEF A, a
<1>2. Upto(d, A, 1) = 1
  <2> DEFINE z == 0
  <2>1. z \in 0 .. Len(e) /\ 1 + z = 1
    BY PlacesTail
  <2> HIDE DEF z
  <2>2. /\ Upto(e, A, z) \in Nat
        /\ d[1] \in A => Upto(d, A, 1 + z) = 1 + Upto(e, A, z)
        /\ d[1] \notin A => Upto(d, A, 1 + z) = Upto(e, A, z)
    BY <2>1, UptoTail
  <2>3. Upto(e, A, 0) = 0
    BY UptoFacts
  <2> QED BY <1>1, <2>1, <2>2, <2>3 DEF z
<1>3. ASSUME NEW i \in 1 .. Len(d) PROVE a - Upto(d, A, i) <= a - 1
  <2>1. i \in Nat /\ 1 \in Nat /\ 1 <= i
    BY PlacesTail
  <2>2. Upto(d, A, 1) <= Upto(d, A, i)
    BY <2>1, UptoMono
  <2>3. Upto(d, A, i) \in Nat
    BY <2>1, UptoFacts
  <2> DEFINE x == Upto(d, A, i)
  <2>4. 1 <= x /\ x \in Nat
    BY <1>2, <2>2, <2>3
  <2> HIDE DEF x
  <2>5. a - x <= a - 1
    BY <1>1, <2>4
  <2> QED BY <2>5 DEF x
<1>4. a - Upto(d, A, 1) = a - 1
  BY <1>2
<1> QED BY <1>3, <1>4, Zenon DEF Left, A, a

\* A client hears a message.
LEMMA KnownHear ==
    ASSUME NEW c, NEW k, NEW l, NEW d, NEW e, Rest(e, d, News), Hears(c, k, l, d[1]),
           \A p \in k.listed : k.seen[p].health \in Int,
           \A p \in Named(c) : l.ghosts[p] = k.ghosts[p],
           NEW S, c \in S, NEW L, \A p \in S : L[p] \in Nat,
           Known(c, k, d, S, L)
    PROVE  Known(c, l, e, S, L)
<1>0. \A p \in Sure(c, k) : k.seen[p].health \in Int
  BY DEF Sure
<1>1. /\ \A p \in Named(c) : k.ghosts[p] = 0
      /\ \A p \in S : p \in Sure(c, k) => L[p] = Left(k, d, p, Len(d))
      /\ \A p \in S \cap Named(c) : p \notin Sure(c, k) => L[p] = 0
      /\ \A p \in Sure(c, k) : k.seen[p].health > 0
      /\ \A p \in Sure(c, k) \ S : \E i \in 1 .. Len(d) : d[i] \in LeaveOf(p)
      /\ \A i \in 1 .. Len(d) :
            /\ \A p \in Sure(c, k) : d[i] \in HitOn(p) => d[i].lives = Left(k, d, p, i)
            /\ \A p \in S : d[i] \notin LeaveOf(p)
            /\ d[i] \in Back => c \in Sure(c, k) /\ Left(k, d, c, i) > 0
  BY Zenon DEF Known
<1>2. /\ Len(e) \in Nat /\ Len(d) = 1 + Len(e) /\ 1 \in 1 .. Len(d)
      /\ \A i \in 1 .. Len(e) : 1 + i \in 1 .. Len(d) /\ e[i] = d[1 + i]
      /\ \A j \in 1 .. Len(d) : j = 1 \/ \E i \in 1 .. Len(e) : j = 1 + i
  BY PlacesTail
<1>3. /\ \A p \in Sure(c, l) : p \in Sure(c, k) /\ d[1] \notin LeaveOf(p)
      /\ \A p \in Sure(c, l) :
            d[1] \in HitOn(p) => l.seen[p].health = k.seen[p].health - 1 /\ d[1].lives # 0
      /\ \A p \in Sure(c, l) : d[1] \notin HitOn(p) => l.seen[p].health = k.seen[p].health
      /\ \A p \in Sure(c, k) :
            p \notin Sure(c, l) =>
               d[1] \in LeaveOf(p) \/ (d[1] \in HitOn(p) /\ d[1].lives = 0)
  BY Zenon DEF Hears
<1>4. ASSUME NEW p \in Sure(c, l), NEW i \in 0 .. Len(e)
      PROVE  Left(l, e, p, i) = Left(k, d, p, 1 + i)
  <2>1. k.seen[p].health \in Int
    BY <1>0, <1>3
  <2>2. AsGood(k, l, d, e, p, i)
    BY <2>1, LeftHear
  <2> QED BY <2>2 DEF AsGood
<1>5. ASSUME NEW p \in Sure(c, k), d[1] \in HitOn(p)
      PROVE  /\ d[1].lives = k.seen[p].health - 1
             /\ \A i \in 1 .. Len(d) : Left(k, d, p, i) <= d[1].lives
  <2>1. k.seen[p].health \in Int
    BY <1>0
  <2>2. /\ Left(k, d, p, 1) = k.seen[p].health - 1
        /\ \A i \in 1 .. Len(d) : Left(k, d, p, i) <= k.seen[p].health - 1
    BY <1>5, <2>1, LeftFirst
  <2>3. d[1].lives = Left(k, d, p, 1)
    BY <1>1, <1>2, <1>5, Zenon
  <2> QED BY <2>2, <2>3
<1>6. ASSUME NEW p \in S, p \in Sure(c, l) PROVE L[p] = Left(l, e, p, Len(e))
  <2>1. Len(e) \in 0 .. Len(e)
    BY <1>2
  <2>2. Left(l, e, p, Len(e)) = Left(k, d, p, 1 + Len(e))
    BY <1>4, <1>6, <2>1
  <2> QED BY <1>1, <1>2, <1>3, <1>6, <2>2
<1>7. ASSUME NEW p \in S \cap Named(c), p \notin Sure(c, l) PROVE L[p] = 0
  <2>1. CASE p \notin Sure(c, k)
    BY <1>1, <2>1
  <2>2. CASE p \in Sure(c, k)
    <3>1. d[1] \notin LeaveOf(p)
      BY <1>1, <1>2, Zenon
    <3>2. d[1] \in HitOn(p) /\ d[1].lives = 0
      BY <1>3, <1>7, <2>2, <3>1, Zenon
    <3>3. Len(d) \in 1 .. Len(d)
      BY <1>2
    <3>4. Left(k, d, p, Len(d)) <= 0
      BY <1>5, <2>2, <3>2, <3>3
    <3>5. L[p] <= 0 /\ L[p] \in Nat
      BY <1>1, <2>2, <3>4
    <3> QED BY <3>5
  <2> QED BY <2>1, <2>2
<1>8. ASSUME NEW p \in Sure(c, l) PROVE l.seen[p].health > 0
  <2>1. p \in Sure(c, k) /\ k.seen[p].health > 0 /\ k.seen[p].health \in Int
    BY <1>0, <1>1, <1>3
  <2>2. CASE d[1] \in HitOn(p)
    <3>1. l.seen[p].health = k.seen[p].health - 1 /\ d[1].lives # 0
      BY <1>3, <2>2, Zenon
    <3>2. d[1].lives = k.seen[p].health - 1
      BY <1>5, <2>1, <2>2
    <3> QED BY <2>1, <3>1, <3>2
  <2>3. CASE d[1] \notin HitOn(p)
    BY <1>3, <2>1, <2>3, Zenon
  <2> QED BY <2>2, <2>3
<1>9. ASSUME NEW p \in Sure(c, l) \ S PROVE \E i \in 1 .. Len(e) : e[i] \in LeaveOf(p)
  <2>1. PICK j \in 1 .. Len(d) : d[j] \in LeaveOf(p)
    BY <1>1, <1>3, Zenon
  <2>2. j # 1
    BY <1>3, <2>1, Zenon
  <2>3. PICK i \in 1 .. Len(e) : j = 1 + i
    BY <1>2, <2>2, Zenon
  <2> QED BY <1>2, <2>1, <2>3, Zenon
<1>10. ASSUME NEW i \in 1 .. Len(e)
       PROVE  /\ \A p \in Sure(c, l) : e[i] \in HitOn(p) => e[i].lives = Left(l, e, p, i)
              /\ \A p \in S : e[i] \notin LeaveOf(p)
              /\ e[i] \in Back => c \in Sure(c, l) /\ Left(l, e, c, i) > 0
  <2>1. 1 + i \in 1 .. Len(d) /\ e[i] = d[1 + i] /\ i \in 0 .. Len(e)
    BY <1>2
  <2>2. ASSUME NEW p \in Sure(c, l), e[i] \in HitOn(p) PROVE e[i].lives = Left(l, e, p, i)
    <3>1. d[1 + i].lives = Left(k, d, p, 1 + i)
      BY <1>1, <1>3, <2>1, <2>2, Zenon
    <3> QED BY <1>4, <2>1, <3>1, Zenon
  <2>3. \A p \in S : e[i] \notin LeaveOf(p)
    BY <1>1, <2>1, Zenon
  <2>4. ASSUME e[i] \in Back PROVE c \in Sure(c, l) /\ Left(l, e, c, i) > 0
    <3>1. c \in Sure(c, k) /\ Left(k, d, c, 1 + i) > 0
      BY <1>1, <2>1, <2>4, Zenon
    <3>2. c \in Sure(c, l)
      <4> SUFFICES ASSUME c \notin Sure(c, l) PROVE FALSE
        OBVIOUS
      <4>1. d[1] \notin LeaveOf(c)
        BY <1>1, <1>2, Zenon
      <4>2. d[1] \in HitOn(c) /\ d[1].lives = 0
        BY <1>3, <3>1, <4>1, Zenon
      <4>3. Left(k, d, c, 1 + i) <= 0
        BY <1>5, <2>1, <3>1, <4>2
      <4>4. Left(k, d, c, 1 + i) \in Int
        <5>1. 1 + i \in Nat /\ k.seen[c].health \in Int
          BY <1>0, <2>1, <3>1
        <5>2. Upto(d, HitOn(c), 1 + i) \in Nat
          BY <5>1, UptoFacts
        <5> QED BY <5>1, <5>2 DEF Left
      <4> QED BY <3>1, <4>3, <4>4
    <3> QED BY <1>4, <2>1, <3>1, <3>2
  <2> QED BY <2>2, <2>3, <2>4
<1>11. \A p \in Named(c) : l.ghosts[p] = 0
  BY <1>1, Zenon
<1> QED BY <1>11, <1>6, <1>7, <1>8, <1>9, <1>10, Zenon DEF Known

\* What the server sends when the players S with lives L become R with lives X.
Sends(c, k, f, S, L, R, X) ==
    /\ \A p \in R : p \in S
    /\ \A p \in R : p \in k.listed => X[p] = L[p] - Upto(f, HitOn(p), Len(f))
    /\ \A p \in R : L[p] = 0 => X[p] = 0
    /\ \A p \in S : p \notin R => \E i \in 1 .. Len(f) : f[i] \in LeaveOf(p)
    /\ \A i \in 1 .. Len(f) :
          /\ \A p \in k.listed :
                f[i] \in HitOn(p) => p \in S /\ f[i].lives = L[p] - Upto(f, HitOn(p), i)
          /\ \A p \in R : f[i] \notin LeaveOf(p)
          /\ f[i] \in Back => L[c] - Upto(f, HitOn(c), i) > 0

\* What is sent later does not change what the client makes of what came before.
Unmoved(k, d, e, p, i) == Left(k, e, p, i) = Left(k, d, p, i)

\* The messages that are sent are counted after the others.
Added(k, d, e, f, p, i) ==
    Left(k, e, p, Len(d) + i) = Left(k, d, p, Len(d)) - Upto(f, HitOn(p), i)

\* The lives that will be left before the messages that are sent.
LEMMA LeftBefore ==
    ASSUME NEW k, NEW d, NEW e, NEW f, Joined(e, d, f, News), NEW p, NEW i \in 1 .. Len(d)
    PROVE  Unmoved(k, d, e, p, i)
<1> DEFINE A == HitOn(p)
<1> HIDE DEF A
<1>1. i \in 0 .. Len(d)
  BY PlacesConcat
<1>2. Upto(e, A, i) = Upto(d, A, i)
  BY <1>1, UptoFirst
<1> QED BY <1>2, Zenon DEF Unmoved, Left, A

\* The lives that will be left after them.
LEMMA LeftAfter ==
    ASSUME NEW k, NEW d, NEW e, NEW f, Joined(e, d, f, News), NEW p,
           k.seen[p].health \in Int, NEW i \in 0 .. Len(f)
    PROVE  Added(k, d, e, f, p, i) /\ Upto(f, HitOn(p), i) \in Nat
<1> DEFINE A == HitOn(p)
           a == k.seen[p].health
           x == Upto(e, A, Len(d) + i)
           y == Upto(d, A, Len(d))
           z == Upto(f, A, i)
<1> HIDE DEF A
<1>1. Len(d) \in Nat /\ Len(f) \in Nat
  BY DEF Joined
<1>2. i \in Nat
  BY <1>1
<1>3. y \in Nat /\ z \in Nat
  BY <1>1, <1>2, UptoFacts
<1>4. Upto(e, A, Len(d) + i) = Upto(d, A, Len(d)) + Upto(f, A, i)
  BY UptoSecond
<1>5. a \in Int /\ x = y + z
  BY <1>4
<1> HIDE DEF a, x, y, z
<1>6. a - x = (a - y) - z
  BY <1>3, <1>5
<1> QED BY <1>3, <1>6, Zenon DEF Added, Left, A, a, x, y, z

\* The server sends messages.
LEMMA KnownSend ==
    ASSUME NEW c \in Clients, NEW k, NEW d, NEW e, NEW f, Joined(e, d, f, News),
           \A p \in k.listed : k.seen[p].health \in Int,
           NEW S, c \in S, NEW L, \A p \in S : L[p] \in Nat, NEW R, NEW X,
           Sends(c, k, f, S, L, R, X),
           Known(c, k, d, S, L)
    PROVE  Known(c, k, e, R, X)
<1>0. \A p \in Sure(c, k) : k.seen[p].health \in Int
  BY DEF Sure
<1>1. /\ \A p \in Named(c) : k.ghosts[p] = 0
      /\ \A p \in S : p \in Sure(c, k) => L[p] = Left(k, d, p, Len(d))
      /\ \A p \in S \cap Named(c) : p \notin Sure(c, k) => L[p] = 0
      /\ \A p \in Sure(c, k) : k.seen[p].health > 0
      /\ \A p \in Sure(c, k) \ S : \E i \in 1 .. Len(d) : d[i] \in LeaveOf(p)
      /\ \A i \in 1 .. Len(d) :
            /\ \A p \in Sure(c, k) : d[i] \in HitOn(p) => d[i].lives = Left(k, d, p, i)
            /\ \A p \in S : d[i] \notin LeaveOf(p)
            /\ d[i] \in Back => c \in Sure(c, k) /\ Left(k, d, c, i) > 0
  BY Zenon DEF Known
<1>2. /\ \A p \in R : p \in S
      /\ \A p \in R : p \in Sure(c, k) => X[p] = L[p] - Upto(f, HitOn(p), Len(f))
      /\ \A p \in R : L[p] = 0 => X[p] = 0
      /\ \A p \in S : p \notin R => \E i \in 1 .. Len(f) : f[i] \in LeaveOf(p)
      /\ \A i \in 1 .. Len(f) :
            /\ \A p \in Sure(c, k) :
                  f[i] \in HitOn(p) => p \in S /\ f[i].lives = L[p] - Upto(f, HitOn(p), i)
            /\ \A p \in R : f[i] \notin LeaveOf(p)
            /\ f[i] \in Back => L[c] - Upto(f, HitOn(c), i) > 0
  BY Zenon DEF Sends, Sure
<1>3. /\ Len(d) \in Nat /\ Len(f) \in Nat /\ Len(e) = Len(d) + Len(f)
      /\ \A i \in 1 .. Len(d) : i \in 1 .. Len(e) /\ e[i] = d[i]
      /\ \A i \in 1 .. Len(f) : Len(d) + i \in 1 .. Len(e) /\ e[Len(d) + i] = f[i]
      /\ \A j \in 1 .. Len(e) :
            \/ j \in 1 .. Len(d) /\ e[j] = d[j]
            \/ \E i \in 1 .. Len(f) : j = Len(d) + i /\ e[j] = f[i]
  BY PlacesConcat
<1>4. ASSUME NEW p, NEW i \in 1 .. Len(d) PROVE Left(k, e, p, i) = Left(k, d, p, i)
  <2>1. Unmoved(k, d, e, p, i)
    BY LeftBefore
  <2> QED BY <2>1 DEF Unmoved
<1>5. ASSUME NEW p \in Sure(c, k), NEW i \in 0 .. Len(f)
      PROVE  /\ Left(k, e, p, Len(d) + i) = Left(k, d, p, Len(d)) - Upto(f, HitOn(p), i)
             /\ Upto(f, HitOn(p), i) \in Nat
  <2>1. k.seen[p].health \in Int
    BY <1>0
  <2>2. Added(k, d, e, f, p, i) /\ Upto(f, HitOn(p), i) \in Nat
    BY <2>1, LeftAfter
  <2> QED BY <2>2 DEF Added
<1>6. ASSUME NEW p \in R, p \in Sure(c, k) PROVE X[p] = Left(k, e, p, Len(e))
  <2>1. Len(f) \in 0 .. Len(f)
    BY <1>3
  <2>2. Left(k, e, p, Len(d) + Len(f)) = Left(k, d, p, Len(d)) - Upto(f, HitOn(p), Len(f))
    BY <1>5, <1>6, <2>1
  <2>3. L[p] = Left(k, d, p, Len(d)) /\ X[p] = L[p] - Upto(f, HitOn(p), Len(f))
    BY <1>1, <1>2, <1>6, Zenon
  <2>4. Left(k, e, p, Len(e)) = Left(k, e, p, Len(d) + Len(f))
    BY <1>3
  <2> QED BY <2>2, <2>3, <2>4, Zenon
<1>7. ASSUME NEW p \in R \cap Named(c), p \notin Sure(c, k) PROVE X[p] = 0
  BY <1>1, <1>2, <1>7, Zenon
<1>8. ASSUME NEW p \in Sure(c, k) \ R PROVE \E i \in 1 .. Len(e) : e[i] \in LeaveOf(p)
  <2>1. CASE p \in S
    <3>1. PICK i \in 1 .. Len(f) : f[i] \in LeaveOf(p)
      BY <1>2, <2>1, Zenon
    <3> QED BY <1>3, <3>1, Zenon
  <2>2. CASE p \notin S
    <3>1. PICK i \in 1 .. Len(d) : d[i] \in LeaveOf(p)
      BY <1>1, <2>2, Zenon
    <3> QED BY <1>3, <3>1, Zenon
  <2> QED BY <2>1, <2>2
<1>9. ASSUME NEW j \in 1 .. Len(e)
      PROVE  /\ \A p \in Sure(c, k) : e[j] \in HitOn(p) => e[j].lives = Left(k, e, p, j)
             /\ \A p \in R : e[j] \notin LeaveOf(p)
             /\ e[j] \in Back => c \in Sure(c, k) /\ Left(k, e, c, j) > 0
  <2>1. CASE j \in 1 .. Len(d) /\ e[j] = d[j]
    <3>1. \A p : Left(k, e, p, j) = Left(k, d, p, j)
      BY <1>4, <2>1
    <3>2. \A p \in Sure(c, k) : e[j] \in HitOn(p) => e[j].lives = Left(k, e, p, j)
      BY <1>1, <2>1, <3>1, Zenon
    <3>3. \A p \in R : e[j] \notin LeaveOf(p)
      BY <1>1, <1>2, <2>1, Zenon
    <3>4. e[j] \in Back => c \in Sure(c, k) /\ Left(k, d, c, j) > 0
      BY <1>1, <2>1, Zenon
    <3>5. Left(k, e, c, j) = Left(k, d, c, j)
      BY <3>1
    <3>6. e[j] \in Back => c \in Sure(c, k) /\ Left(k, e, c, j) > 0
      BY <3>4, <3>5
    <3> QED BY <3>2, <3>3, <3>6
  <2>2. CASE \E i \in 1 .. Len(f) : j = Len(d) + i /\ e[j] = f[i]
    <3>1. PICK i \in 1 .. Len(f) : j = Len(d) + i /\ e[j] = f[i]
      BY <2>2
    <3>2. i \in 0 .. Len(f)
      BY <1>3
    <3>3. \A p \in Sure(c, k) :
             /\ Left(k, e, p, j) = Left(k, d, p, Len(d)) - Upto(f, HitOn(p), i)
             /\ Upto(f, HitOn(p), i) \in Nat
      BY <1>5, <3>1, <3>2
    <3>4. ASSUME NEW p \in Sure(c, k), e[j] \in HitOn(p) PROVE e[j].lives = Left(k, e, p, j)
      <4>1. p \in S /\ f[i].lives = L[p] - Upto(f, HitOn(p), i)
        BY <1>2, <3>1, <3>4, Zenon
      <4>2. L[p] = Left(k, d, p, Len(d))
        BY <1>1, <4>1, Zenon
      <4> QED BY <3>1, <3>3, <4>1, <4>2, Zenon
    <3>5. \A p \in R : e[j] \notin LeaveOf(p)
      BY <1>2, <3>1, Zenon
    <3>6. ASSUME e[j] \in Back PROVE c \in Sure(c, k) /\ Left(k, e, c, j) > 0
      <4>1. L[c] - Upto(f, HitOn(c), i) > 0
        BY <1>2, <3>1, <3>6, Zenon
      <4>2. Upto(f, HitOn(c), i) \in Nat
        <5>1. i \in Nat
          BY <1>3
        <5> QED BY <5>1, UptoFacts
      <4>3. L[c] # 0
        BY <4>1, <4>2
      <4>4. c \in Sure(c, k)
        <5>1. c \in S \cap Named(c)
          BY OwnName
        <5> QED BY <1>1, <4>3, <5>1, Zenon
      <4>5. L[c] = Left(k, d, c, Len(d))
        BY <1>1, <4>4, Zenon
      <4>6. Left(k, e, c, j) = L[c] - Upto(f, HitOn(c), i)
        BY <3>3, <4>4, <4>5, Zenon
      <4> QED BY <4>1, <4>4, <4>6
    <3> QED BY <3>4, <3>5, <3>6
  <2> QED BY <1>3, <2>1, <2>2, Zenon
<1> QED BY <1>1, <1>6, <1>7, <1>8, <1>9, Zenon DEF Known

\* Its list and the lives on it are all of a client that matters here.
LEMMA KnownSame ==
    ASSUME NEW c, NEW k, NEW l, NEW d, NEW S, NEW L,
           l.listed = k.listed, l.ghosts = k.ghosts,
           \A p \in k.listed : l.seen[p].health = k.seen[p].health,
           Known(c, k, d, S, L)
    PROVE  Known(c, l, d, S, L)
<1>0. Sure(c, l) = Sure(c, k) /\ \A p \in Sure(c, k) : p \in k.listed
  BY DEF Sure
<1>1. \A p \in Sure(c, k) : \A i : Left(l, d, p, i) = Left(k, d, p, i)
  BY <1>0, Zenon DEF Left
<1>2. /\ \A p \in Named(c) : k.ghosts[p] = 0
      /\ \A p \in S : p \in Sure(c, k) => L[p] = Left(k, d, p, Len(d))
      /\ \A p \in S \cap Named(c) : p \notin Sure(c, k) => L[p] = 0
      /\ \A p \in Sure(c, k) : k.seen[p].health > 0
      /\ \A p \in Sure(c, k) \ S : \E i \in 1 .. Len(d) : d[i] \in LeaveOf(p)
      /\ \A i \in 1 .. Len(d) :
            /\ \A p \in Sure(c, k) : d[i] \in HitOn(p) => d[i].lives = Left(k, d, p, i)
            /\ \A p \in S : d[i] \notin LeaveOf(p)
            /\ d[i] \in Back => c \in Sure(c, k) /\ Left(k, d, c, i) > 0
  BY Zenon DEF Known
<1>3. ASSUME NEW i \in 1 .. Len(d)
      PROVE  /\ \A p \in Sure(c, l) : d[i] \in HitOn(p) => d[i].lives = Left(l, d, p, i)
             /\ \A p \in S : d[i] \notin LeaveOf(p)
             /\ d[i] \in Back => c \in Sure(c, l) /\ Left(l, d, c, i) > 0
  <2>1. ASSUME NEW p \in Sure(c, l), d[i] \in HitOn(p) PROVE d[i].lives = Left(l, d, p, i)
    <3>1. p \in Sure(c, k)
      BY <1>0
    <3>2. d[i].lives = Left(k, d, p, i)
      BY <1>2, <2>1, <3>1, Zenon
    <3>3. Left(l, d, p, i) = Left(k, d, p, i)
      BY <1>1, <3>1, Zenon
    <3> QED BY <3>2, <3>3
  <2>2. d[i] \in Back => c \in Sure(c, k) /\ Left(k, d, c, i) > 0
    BY <1>2, Zenon
  <2>3. c \in Sure(c, k) => Left(l, d, c, i) = Left(k, d, c, i)
    BY <1>1, Zenon
  <2>4. d[i] \in Back => c \in Sure(c, l) /\ Left(l, d, c, i) > 0
    BY <1>0, <2>2, <2>3
  <2> QED BY <1>2, <2>1, <2>4, Zenon
<1>4. ASSUME NEW p \in S, p \in Sure(c, l) PROVE L[p] = Left(l, d, p, Len(d))
  <2>1. p \in Sure(c, k)
    BY <1>0, <1>4
  <2>2. L[p] = Left(k, d, p, Len(d)) /\ Left(l, d, p, Len(d)) = Left(k, d, p, Len(d))
    BY <1>1, <1>2, <2>1, Zenon
  <2> QED BY <2>2
<1>5. \A p \in S \cap Named(c) : p \notin Sure(c, l) => L[p] = 0
  BY <1>0, <1>2, Zenon
<1>6. \A p \in Sure(c, l) : l.seen[p].health > 0
  BY <1>0, <1>2
<1>7. \A p \in Sure(c, l) \ S : \E i \in 1 .. Len(d) : d[i] \in LeaveOf(p)
  BY <1>0, <1>2, Zenon
<1>8. \A p \in Named(c) : l.ghosts[p] = 0
  BY <1>2, Zenon
<1> QED BY <1>8, <1>3, <1>4, <1>5, <1>6, <1>7, Zenon DEF Known

-----------------------------------------------------------------------------
(* One client and the messages sent to it.                                 *)

\* Messages that tell of no hit and of nobody's leaving, and correct nothing.
Quiet(f) == \A i \in 1 .. Len(f) :
                /\ f[i] \notin Back
                /\ \A p \in Players : f[i] \notin HitOn(p) /\ f[i] \notin LeaveOf(p)

\* No message but those in f reaches client d, nothing comes from it, and its
\* player is left where he is.
Reached(d, f) ==
    /\ Joined(down'[d], down[d], f, News)
    /\ client'[d] = client[d] /\ up'[d] = up[d]
    /\ server'.walker[d] = server.walker[d]
    /\ history'.corrected[d] = history.corrected[d]
    /\ history'.moves = history.moves

\* No message is a sequence of messages, too.
LEMMA NothingJoined ==
    ASSUME NEW d \in Seq(News)
    PROVE  Joined(d, d, <<>>, News)
BY DEF Joined

\* Quiet messages leave everybody's lives as they are.
LEMMA SendsQuiet ==
    ASSUME NEW c, NEW k, k.listed \subseteq Players, NEW f, Quiet(f), Len(f) \in Nat,
           NEW S, S \subseteq Players, NEW L, \A p \in S : L[p] \in Nat
    PROVE  Sends(c, k, f, S, L, S, L)
<1>1. \A i \in 1 .. Len(f) :
         f[i] \notin Back /\ \A p \in Players : f[i] \notin HitOn(p) /\ f[i] \notin LeaveOf(p)
  BY Zenon DEF Quiet
<1>2. ASSUME NEW p \in S PROVE L[p] = L[p] - Upto(f, HitOn(p), Len(f))
  <2>1. \A i \in 1 .. Len(f) : f[i] \notin HitOn(p)
    BY <1>1
  <2>2. Upto(f, HitOn(p), Len(f)) = 0
    BY <2>1, CountNone
  <2>3. L[p] \in Nat
    OBVIOUS
  <2> QED BY <2>2, <2>3
<1> QED BY <1>1, <1>2, Zenon DEF Sends

\* OfClient holds on for a client that is only sent messages.
LEMMA OfClientReached ==
    ASSUME NEW d \in Clients, NEW f, Reached(d, f),
           \A i \in 1 .. Len(f) : f[i] \notin Back /\ f[i] \notin MoveOf(d),
           OfClient(d)
    PROVE  OfClient(d)'
<1>1. /\ Joined(down'[d], down[d], f, News)
      /\ client'[d] = client[d] /\ up'[d] = up[d]
      /\ server'.walker[d] = server.walker[d]
      /\ history'.corrected[d] = history.corrected[d]
      /\ history'.moves = history.moves
  BY Zenon DEF Reached
<1>2. /\ Bounded(up[d], down[d], history.corrected[d], history.moves)
      /\ Grounded(d, client[d], up[d], down[d], server.walker[d])
  BY Zenon DEF OfClient
<1>3. Bounded(up[d], down'[d], history.corrected[d], history.moves)
  BY <1>1, <1>2, BoundedSend
<1>4. Grounded(d, client[d], up[d], down'[d], server.walker[d])
  BY <1>1, <1>2, GroundedSend
<1> QED BY <1>1, <1>3, <1>4, Zenon DEF OfClient

\* OfMatch holds on for a client that is sent messages, if these agree with
\* what becomes of the players and of their lives.
LEMMA OfMatchReached ==
    ASSUME NEW d \in Clients, NEW f, Reached(d, f),
           \A i \in 1 .. Len(f) : f[i] \notin Back,
           \A p \in client[d].listed : client[d].seen[p].health \in Int,
           \A p \in server.players : server.lives[p] \in Nat,
           d \in server.players,
           Sends(d, client[d], f, server.players, server.lives,
                 server'.players, server'.lives),
           Seeing(d, client[d], down'[d], server'.players, server'.walker),
           Straight(d)' => Straight(d),
           OfMatch(d)
    PROVE  OfMatch(d)'
<1>1. /\ Joined(down'[d], down[d], f, News)
      /\ client'[d] = client[d] /\ up'[d] = up[d]
      /\ server'.walker[d] = server.walker[d]
      /\ history'.corrected[d] = history.corrected[d]
  BY Zenon DEF Reached
<1>2. /\ Known(d, client[d], down[d], server.players, server.lives)
      /\ Itself(d, client[d], up[d], down[d], server.walker[d], history.corrected[d],
                Straight(d))
  BY Zenon DEF OfMatch
<1>3. Known(d, client[d], down'[d], server'.players, server'.lives)
  BY <1>1, <1>2, KnownSend
<1> DEFINE ok == Straight(d)
           good == Straight(d)'
<1>4. Itself(d, client[d], up[d], down'[d], server.walker[d], history.corrected[d], good)
  <2>1. Itself(d, client[d], up[d], down[d], server.walker[d], history.corrected[d], ok)
    BY <1>2
  <2>2. good => ok
    OBVIOUS
  <2> HIDE DEF ok, good
  <2> QED BY <1>1, <2>1, <2>2, ItselfSend
<1> QED BY <1>1, <1>3, <1>4, Zenon DEF OfMatch
-----------------------------------------------------------------------------
(* Types.                                                                  *)

ServerType == [soft : SUBSET Soft, players : SUBSET Players,
               walker : [Players -> M!Walker], lives : [Players -> 0 .. Lives],
               bombs : Seq(Bomb), over : BOOLEAN]

ClientType == [soft : SUBSET Soft, listed : SUBSET Players,
               ghosts : [Players -> Nat], seen : [Players -> Seen], bombs : Seq(Bomb), base : Floor]

SettledType == [sent : 0 .. MaxMoves, got : 0 .. MaxMoves]

HistoryType == [moves : 0 .. MaxMoves, placed : 0 .. MaxBombs, bombs : SUBSET Bomb,
                corrected : [Clients -> SettledType], astray : SUBSET Clients]

\* What TypeOK says of each variable.
LEMMA TypeParts ==
    TypeOK <=> /\ server \in ServerType
               /\ client \in [Clients -> ClientType]
               /\ up \in [Clients -> Seq(Message)]
               /\ down \in [Clients -> Seq(News)]
               /\ history \in HistoryType
BY Zenon DEF TypeOK, ServerType, ClientType, HistoryType, SettledType

\* What TypeOK says of each variable after a step.
LEMMA TypePartsNext ==
    TypeOK' <=> /\ server' \in ServerType
                /\ client' \in [Clients -> ClientType]
                /\ up' \in [Clients -> Seq(Message)]
                /\ down' \in [Clients -> Seq(News)]
                /\ history' \in HistoryType
BY Zenon DEF TypeOK, ServerType, ClientType, HistoryType, SettledType

\* The assumptions on the constants.
LEMMA Constants ==
    /\ Clients \subseteq Players /\ IsFiniteSet(Players)
    /\ Soft \subseteq Floor /\ Start \in [Players -> Floor \ Soft]
    /\ Movers \subseteq Clients
    /\ Lives \in Nat /\ Lives >= 1
    /\ History \in Nat /\ History >= 2
    /\ Garbage \subseteq M!StepCounts
    /\ Ghosts \in [Clients -> [Players -> Nat]]
    /\ \A c \in Clients : Ghosts[c][c] = 0
    /\ MaxMoves \in Nat /\ MaxBombs \in Nat
    /\ Floor \subseteq Nat \X Nat
    /\ \A c \in Clients : c \in Players
BY ArenaAssumption, BlastAssumption

\* What a room is made of.
LEMMA ServerFields ==
    ASSUME TypeOK
    PROVE  /\ server.soft \in SUBSET Soft /\ server.players \in SUBSET Players
           /\ server.walker \in [Players -> M!Walker]
           /\ \A p \in Players : server.walker[p] \in M!Walker
           /\ server.lives \in [Players -> 0 .. Lives]
           /\ \A p \in Players : server.lives[p] \in 0 .. Lives /\ server.lives[p] \in Nat
           /\ server.bombs \in Seq(Bomb) /\ server.over \in BOOLEAN
           /\ \A p \in server.players : p \in Players
<1>1. server \in ServerType
  BY TypeParts
<1>2. /\ server.soft \in SUBSET Soft /\ server.players \in SUBSET Players
      /\ server.walker \in [Players -> M!Walker]
      /\ server.lives \in [Players -> 0 .. Lives]
      /\ server.bombs \in Seq(Bomb) /\ server.over \in BOOLEAN
  BY <1>1 DEF ServerType
<1>3. Lives \in Nat
  BY Constants
<1>4. \A p \in Players : server.lives[p] \in 0 .. Lives /\ server.lives[p] \in Nat
  BY <1>2, <1>3
<1> QED BY <1>2, <1>4

\* What the client c is made of, and what it sends and is sent.
LEMMA ClientFields ==
    ASSUME TypeOK, NEW c \in Clients
    PROVE  /\ client[c] \in ClientType
           /\ client[c].soft \in SUBSET Soft /\ client[c].listed \in SUBSET Players
           /\ client[c].seen \in [Players -> Seen]
           /\ client[c].bombs \in Seq(Bomb) /\ client[c].base \in Floor
           /\ \A p \in Players : /\ client[c].seen[p].at \in Floor
                                 /\ client[c].seen[p].health \in Int
           /\ up[c] \in Seq(Message) /\ down[c] \in Seq(News)
           /\ Len(up[c]) \in Nat /\ Len(down[c]) \in Nat
<1>1. client[c] \in ClientType /\ up[c] \in Seq(Message) /\ down[c] \in Seq(News)
  BY TypeParts
<1>2. /\ client[c].soft \in SUBSET Soft /\ client[c].listed \in SUBSET Players
      /\ client[c].seen \in [Players -> Seen]
      /\ client[c].bombs \in Seq(Bomb) /\ client[c].base \in Floor
  BY <1>1 DEF ClientType
<1>3. \A p \in Players : /\ client[c].seen[p].at \in Floor
                         /\ client[c].seen[p].health \in Int
  BY <1>2 DEF Seen
<1>4. Len(up[c]) \in Nat /\ Len(down[c]) \in Nat
  BY <1>1
<1> QED BY <1>1, <1>2, <1>3, <1>4

\* What is recorded of the match.
LEMMA HistoryFields ==
    ASSUME TypeOK
    PROVE  /\ history.moves \in 0 .. MaxMoves /\ history.moves \in Nat
           /\ history.placed \in 0 .. MaxBombs /\ history.bombs \in SUBSET Bomb
           /\ history.corrected \in [Clients -> SettledType]
           /\ history.astray \in SUBSET Clients
           /\ \A c \in Clients : /\ history.corrected[c] \in SettledType
                                 /\ history.corrected[c].sent \in Nat
                                 /\ history.corrected[c].got \in Nat
<1>1. history \in HistoryType /\ MaxMoves \in Nat
  BY TypeParts, Constants
<1>2. /\ history.moves \in 0 .. MaxMoves
      /\ history.placed \in 0 .. MaxBombs /\ history.bombs \in SUBSET Bomb
      /\ history.corrected \in [Clients -> SettledType]
      /\ history.astray \in SUBSET Clients
  BY <1>1 DEF HistoryType
<1>3. \A c \in Clients : /\ history.corrected[c] \in SettledType
                         /\ history.corrected[c].sent \in Nat
                         /\ history.corrected[c].got \in Nat
  BY <1>1, <1>2 DEF SettledType
<1> QED BY <1>1, <1>2, <1>3

-----------------------------------------------------------------------------
(* Steps of a client that only change what it draws, its bombs and walls.  *)

\* The client c keeps its list, and its map gains no walls.
Settled(c) ==
    /\ client'[c].listed = client[c].listed /\ client'[c].ghosts = client[c].ghosts
    /\ client'[c].seen = client[c].seen
    /\ \A s : s \in client'[c].soft => s \in client[c].soft
    /\ \A d \in Clients : d # c => client'[d] = client[d]
    /\ UNCHANGED <<server, up, down, history>>

\* The invariant speaks of nothing else that a client keeps.
LEMMA InvSettled ==
    ASSUME Inv, NEW c \in Clients, Settled(c), TypeOK'
    PROVE  Inv'
<1>1. /\ client'[c].listed = client[c].listed /\ client'[c].ghosts = client[c].ghosts
      /\ client'[c].seen = client[c].seen
      /\ \A s : s \in client'[c].soft => s \in client[c].soft
      /\ \A d \in Clients : d # c => client'[d] = client[d]
      /\ server' = server /\ up' = up /\ down' = down /\ history' = history
  BY Zenon DEF Settled
<1>2. /\ \A p \in Players : Coords(p) \in Floor \ server.soft
      /\ \A d \in Clients : OfClient(d)
      /\ \A d \in Clients \cap server.players : OfMatch(d)
  BY Zenon DEF Inv
<1>3. (\A p \in Players : Coords(p) \in Floor \ server.soft)'
  BY <1>1, <1>2 DEF Coords
<1>4. ASSUME NEW d \in Clients PROVE OfClient(d)'
  <2>1. OfClient(d)
    BY <1>2
  <2>2. CASE d # c
    <3>1. client'[d] = client[d]
      BY <1>1, <2>2
    <3> QED BY <1>1, <2>1, <3>1, Zenon DEF OfClient
  <2>3. CASE d = c
    <3>1. /\ Bounded(up[c], down[c], history.corrected[c], history.moves)
          /\ Grounded(c, client[c], up[c], down[c], server.walker[c])
      BY <2>1, <2>3, Zenon DEF OfClient
    <3>2. client'[c].seen[c].at = client[c].seen[c].at
      BY <1>1
    <3>3. Grounded(c, client'[c], up[c], down[c], server.walker[c])
      BY <1>1, <3>1, <3>2, GroundedLose
    <3> QED BY <1>1, <2>3, <3>1, <3>3, Zenon DEF OfClient
  <2> QED BY <2>2, <2>3
<1>5. ASSUME NEW d \in Clients \cap server.players PROVE OfMatch(d)'
  <2>1. OfMatch(d)
    BY <1>2
  <2>2. Straight(d)' <=> Straight(d)
    BY <1>1, Zenon DEF Straight, Alive
  <2>3. /\ client'[d].listed = client[d].listed /\ client'[d].ghosts = client[d].ghosts
        /\ client'[d].seen = client[d].seen
    BY <1>1, Zenon
  <2>4. /\ Known(d, client[d], down[d], server.players, server.lives)
        /\ Seeing(d, client[d], down[d], server.players, server.walker)
        /\ Itself(d, client[d], up[d], down[d], server.walker[d], history.corrected[d],
                  Straight(d))
    BY <2>1, Zenon DEF OfMatch
  <2>5. Known(d, client'[d], down[d], server.players, server.lives)
    BY <2>3, <2>4, KnownSame
  <2>6. Seeing(d, client'[d], down[d], server.players, server.walker)
    BY <2>3, <2>4, SeeingSame
  <2>7. Itself(d, client'[d], up[d], down[d], server.walker[d], history.corrected[d],
               Straight(d)')
    BY <2>2, <2>3, <2>4, Zenon DEF Itself
  <2> QED BY <1>1, <2>5, <2>6, <2>7, Zenon DEF OfMatch
<1>6. server'.players = server.players
  BY <1>1
<1> QED BY <1>3, <1>4, <1>5, <1>6, Zenon DEF Inv

\* One client changes.
LEMMA ClientSet ==
    ASSUME TypeOK, NEW c \in Clients, NEW l \in ClientType,
           client' = [client EXCEPT ![c] = l]
    PROVE  /\ client' \in [Clients -> ClientType]
           /\ client'[c] = l
           /\ \A d \in Clients : d # c => client'[d] = client[d]
<1>1. client \in [Clients -> ClientType]
  BY TypeParts
<1> QED BY <1>1

\* A frame that begins changes nothing the invariant speaks of.
LEMMA InvLook ==
    ASSUME Inv, NEW c \in Clients, Look(c)
    PROVE  Inv'
<1>0. TypeOK
  BY Zenon DEF Inv
<1> DEFINE k == client[c]
           l == [k EXCEPT !.base = Own(c)]
<1>1. /\ client' = [client EXCEPT ![c] = l]
      /\ UNCHANGED <<server, up, down, history>>
  BY DEF Look
<1>2. k \in ClientType /\ c \in Players /\ Own(c) \in Floor
  BY <1>0, ClientFields, Constants DEF Own
<1>3. /\ l \in ClientType
      /\ l.listed = k.listed /\ l.ghosts = k.ghosts
      /\ l.seen = k.seen /\ l.soft = k.soft
  BY <1>2 DEF ClientType
<1> HIDE DEF l
<1>4. /\ client' \in [Clients -> ClientType]
      /\ client'[c] = l
      /\ \A d \in Clients : d # c => client'[d] = client[d]
  BY <1>0, <1>1, <1>3, ClientSet
<1>5. TypeOK'
  BY <1>0, <1>1, <1>4, TypeParts, TypePartsNext
<1>6. Settled(c)
  BY <1>1, <1>3, <1>4, Zenon DEF Settled
<1> QED BY <1>5, <1>6, InvSettled

\* A bomb that goes off takes walls away.
LEMMA InvDetonate ==
    ASSUME Inv, NEW c \in Clients, Detonate(c)
    PROVE  Inv'
<1>0. TypeOK
  BY Zenon DEF Inv
<1>1. PICK i \in 1 .. Len(client[c].bombs) :
         /\ client' = [client EXCEPT ![c] = Detonated(c, i)]
         /\ UNCHANGED <<server, up, down, history>>
  BY Zenon DEF Detonate
<1> DEFINE k == client[c]
           l == Detonated(c, i)
           soft == Boomed(k.soft, k.bombs[i])
           bombs == SubSeq(k.bombs, 1, i - 1) \o SubSeq(k.bombs, i + 1, Len(k.bombs))
<1>2. k \in ClientType /\ k.soft \in SUBSET Soft /\ k.bombs \in Seq(Bomb)
  BY <1>0, ClientFields
<1>3. soft \in SUBSET Soft /\ \A s : s \in soft => s \in k.soft
  BY <1>2 DEF Boomed
<1>4. bombs \in Seq(Bomb)
  <2>1. i \in 1 .. Len(k.bombs) /\ Len(k.bombs) \in Nat
    BY <1>2
  <2>2. SubSeq(k.bombs, 1, i - 1) \in Seq(Bomb)
    BY <1>2, <2>1
  <2>3. SubSeq(k.bombs, i + 1, Len(k.bombs)) \in Seq(Bomb)
    BY <1>2, <2>1
  <2> QED BY <2>2, <2>3
<1>5. l = [k EXCEPT !.soft = soft, !.bombs = bombs]
  BY DEF Detonated
<1> HIDE DEF soft, bombs, l
<1>6. /\ l \in ClientType
      /\ l.listed = k.listed /\ l.ghosts = k.ghosts
      /\ l.seen = k.seen /\ l.soft = soft
  BY <1>2, <1>3, <1>4, <1>5 DEF ClientType
<1>7. client' = [client EXCEPT ![c] = l]
  BY <1>1 DEF l
<1>8. /\ client' \in [Clients -> ClientType]
      /\ client'[c] = l
      /\ \A d \in Clients : d # c => client'[d] = client[d]
  BY <1>0, <1>6, <1>7, ClientSet
<1>9. TypeOK'
  BY <1>0, <1>1, <1>8, TypeParts, TypePartsNext
<1>10. Settled(c)
  BY <1>1, <1>3, <1>6, <1>8, Zenon DEF Settled
<1> QED BY <1>9, <1>10, InvSettled

-----------------------------------------------------------------------------
(* A client's keys.                                                        *)

\* The arrows lead to squares that are free on the client's map.
LEMMA StepsFacts ==
    ASSUME NEW k, NEW K
    PROVE  /\ Steps(k, K) \in Seq(Floor \ k.soft)
           /\ Steps(k, K) # <<>> =>
                 /\ Len(Steps(k, K)) \in 1 .. Len(Steps(k, K))
                 /\ Last(Steps(k, K)) = Steps(k, K)[Len(Steps(k, K))]
                 /\ Last(Steps(k, K)) \in Floor \ k.soft
<1> DEFINE F == Floor \ k.soft
           s == Steps(k, K)
<1>1. ASSUME NEW i PROVE Step(k, K, i) \in Seq(F)
  <2> DEFINE x == Ahead(k.base, Arrow[i], 1)
  <2>1. CASE i \in K /\ Enters(k, x)
    <3>1. Step(k, K, i) = <<x>>
      BY <2>1 DEF Step
    <3>2. x \in F
      BY <2>1 DEF Enters
    <3> HIDE DEF x, F
    <3> QED BY <3>1, <3>2
  <2>2. CASE ~(i \in K /\ Enters(k, x))
    <3>1. Step(k, K, i) = <<>>
      BY <2>2 DEF Step
    <3> QED BY <3>1
  <2> QED BY <2>1, <2>2
<1> DEFINE p == Step(k, K, 1)
           q == Step(k, K, 2)
           r == Step(k, K, 3)
           t == Step(k, K, 4)
<1>2. s = p \o q \o r \o t
  BY DEF Steps
<1>3. p \in Seq(F) /\ q \in Seq(F) /\ r \in Seq(F) /\ t \in Seq(F)
  BY <1>1
<1> HIDE DEF F, s, p, q, r, t
<1>4. s \in Seq(F)
  BY <1>2, <1>3
<1>5. s # <<>> => Len(s) \in 1 .. Len(s) /\ Last(s) = s[Len(s)] /\ s[Len(s)] \in F
  BY <1>4 DEF Last
<1> QED BY <1>4, <1>5 DEF F, s

\* The messages of a frame: bombs placed at s, and moves, when n corrections
\* had been heard of.
Placing(j, s) == [i \in 1 .. j |-> [type |-> "PlaceBomb", at |-> s]]

Moving(steps, n) ==
    [i \in 1 .. Len(steps) |-> [type |-> "Move", at |-> steps[i], after |-> n]]

\* t is what is said for the steps, all to squares of F.
Saying(t, steps, F, n) ==
    /\ t \in Seq(Message)
    /\ Upto(t, Moves, Len(t)) <= Len(steps)
    /\ \A i \in 1 .. Len(t) : t[i] \in Moves => t[i].after = n /\ t[i].at \in F
    /\ steps = <<>> => \A i \in 1 .. Len(t) : t[i] \notin Moves
    /\ steps # <<>> =>
          t # <<>> /\ t[Len(t)] \in Moves /\ t[Len(t)].at = steps[Len(steps)]

\* What a frame says of its steps.
LEMMA SayingFacts ==
    ASSUME NEW F \in SUBSET Floor, NEW steps \in Seq(F), NEW n \in 0 .. MaxMoves,
           NEW j \in Nat, NEW s \in Floor
    PROVE  /\ Placing(j, s) \in Seq(Message) /\ Moving(steps, n) \in Seq(Message)
           /\ Saying(Placing(j, s) \o Moving(steps, n), steps, F, n)
<1> DEFINE a == Placing(j, s)
           b == Moving(steps, n)
           t == a \o b
<1>1. /\ \A x \in Floor : [type |-> "PlaceBomb", at |-> x] \in Message
      /\ \A x \in Floor, i \in 0 .. MaxMoves :
            [type |-> "Move", at |-> x, after |-> i] \in Message
      /\ \A m \in Message : m \in Moves <=> m.type = "Move"
  BY MessageForms
<1>2. Len(steps) \in Nat /\ \A i \in 1 .. Len(steps) : steps[i] \in F /\ steps[i] \in Floor
  OBVIOUS
<1>3. /\ a \in Seq(Message) /\ Len(a) = j
      /\ \A i \in 1 .. j : a[i] = [type |-> "PlaceBomb", at |-> s]
  BY <1>1 DEF Placing
<1>4. /\ b \in Seq(Message) /\ Len(b) = Len(steps)
      /\ \A i \in 1 .. Len(steps) : b[i] = [type |-> "Move", at |-> steps[i], after |-> n]
  BY <1>1, <1>2 DEF Moving
<1>5. \A i \in 1 .. Len(a) : a[i] \notin Moves
  BY <1>1, <1>3
<1>6. ASSUME NEW i \in 1 .. Len(b)
      PROVE  b[i] \in Moves /\ b[i].after = n /\ b[i].at = steps[i]
  <2>1. b[i] = [type |-> "Move", at |-> steps[i], after |-> n]
    BY <1>4
  <2>2. b[i] \in Message
    BY <1>4
  <2>3. b[i].type = "Move" /\ b[i].after = n /\ b[i].at = steps[i]
    BY <2>1
  <2> QED BY <1>1, <2>2, <2>3
<1> HIDE DEF a, b
<1>7. Joined(t, a, b, Message)
  BY <1>3, <1>4 DEF Joined
<1> HIDE DEF t
<1>8. /\ t \in Seq(Message) /\ Len(a) \in Nat /\ Len(b) \in Nat /\ Len(t) = Len(a) + Len(b)
      /\ \A i \in 1 .. Len(b) : Len(a) + i \in 1 .. Len(t) /\ t[Len(a) + i] = b[i]
  BY <1>7, PlacesConcat
<1>9. \A i \in 1 .. Len(t) : \/ \E g \in 1 .. Len(a) : t[i] = a[g]
                             \/ \E g \in 1 .. Len(b) : t[i] = b[g]
  BY <1>7, EachOf
<1>10. Upto(t, Moves, Len(t)) <= Len(steps)
  <2> DEFINE x == Upto(a, Moves, Len(a))
             y == Upto(b, Moves, Len(b))
             z == Upto(t, Moves, Len(t))
  <2>1. z = x + y
    BY <1>7, CountConcat
  <2>2. x = 0
    BY <1>5, <1>8, CountNone
  <2>3. y \in Nat /\ y <= Len(b)
    BY <1>8, UptoLimit
  <2> HIDE DEF x, y, z
  <2>4. z <= Len(steps)
    BY <1>4, <2>1, <2>2, <2>3
  <2> QED BY <2>4 DEF z
<1>11. ASSUME NEW i \in 1 .. Len(t), t[i] \in Moves PROVE t[i].after = n /\ t[i].at \in F
  <2>1. PICK g \in 1 .. Len(b) : t[i] = b[g]
    BY <1>5, <1>9, <1>11, Zenon
  <2>2. t[i].after = n /\ t[i].at = steps[g] /\ steps[g] \in F
    BY <1>2, <1>4, <1>6, <2>1
  <2> QED BY <2>2
<1>12. ASSUME steps = <<>>, NEW i \in 1 .. Len(t) PROVE t[i] \notin Moves
  <2>1. ~ \E g \in 1 .. Len(b) : t[i] = b[g]
    BY <1>4, <1>12
  <2> QED BY <1>5, <1>9, <2>1, Zenon
<1>13. ASSUME steps # <<>>
       PROVE  t # <<>> /\ t[Len(t)] \in Moves /\ t[Len(t)].at = steps[Len(steps)]
  <2>1. Len(b) \in 1 .. Len(b) /\ Len(b) = Len(steps)
    BY <1>2, <1>4, <1>13
  <2>2. t[Len(t)] = b[Len(b)] /\ Len(t) \in 1 .. Len(t)
    BY <1>8, <2>1
  <2>3. t # <<>>
    BY <2>2
  <2> QED BY <1>6, <2>1, <2>2, <2>3
<1>14. Saying(t, steps, F, n)
  BY <1>8, <1>10, <1>11, <1>12, <1>13, Zenon DEF Saying
<1> QED BY <1>3, <1>4, <1>14 DEF a, b, t

\* More moves may have been made.
LEMMA BoundedMore ==
    ASSUME NEW u, NEW d, NEW h, h.sent \in Nat, Len(u) \in Nat, NEW n \in Nat, NEW m \in Nat,
           n <= m, Bounded(u, d, h, n)
    PROVE  Bounded(u, d, h, m)
<1> DEFINE x == Upto(u, Moves, Len(u))
<1>1. x \in Nat
  BY UptoFacts
<1>2. h.sent + x <= n
  BY Zenon DEF Bounded
<1> HIDE DEF x
<1>3. h.sent + x <= m
  BY <1>1, <1>2
<1> QED BY <1>3, Zenon DEF Bounded, x

\* The keys of a frame: bombs are listed and placed, moves made and sent.
LEMMA InvKeys ==
    ASSUME Inv, NEW c \in Clients, NEW space \in BOOLEAN, NEW K, Keys(c, space, K)
    PROVE  Inv'
<1>0. /\ TypeOK
      /\ \A p \in Players : Coords(p) \in Floor \ server.soft
      /\ \A d \in Clients : OfClient(d)
      /\ \A d \in Clients \cap server.players : OfMatch(d)
  BY Zenon DEF Inv
<1> DEFINE k == client[c]
           F == Floor \ k.soft
           steps == Steps(k, K)
           at == IF steps = <<>> THEN Own(c) ELSE Last(steps)
           bombs == IF space THEN <<[at |-> k.base, atomic |-> FALSE]>> ELSE <<>>
           x == [k.seen[c] EXCEPT !.at = at]
           f == [k.seen EXCEPT ![c] = x]
           l == [k EXCEPT !.seen = f, !.base = at, !.bombs = k.bombs \o bombs]
           h == history.corrected[c]
           n == Len(steps)
           a == Placing(Len(bombs), k.base)
           b == Moving(steps, h.got)
           t == a \o b
           u == up[c]
           v == u \o t
           d == down[c]
           w == server.walker[c]
<1>1. k \in ClientType /\ k.seen \in [Players -> Seen] /\ k.bombs \in Seq(Bomb)
      /\ k.base \in Floor /\ c \in Players /\ Own(c) = k.seen[c].at
      /\ u \in Seq(Message) /\ Len(u) \in Nat /\ Len(d) \in Nat
  BY <1>0, ClientFields, Constants DEF Own
<1>2. /\ h \in SettledType /\ h.sent \in Nat /\ h.got \in Nat
      /\ history \in HistoryType /\ history.moves \in Nat /\ MaxMoves \in Nat
  BY <1>0, HistoryFields, TypeParts, Constants
<1>3. h.got \in 0 .. MaxMoves
  BY <1>2 DEF SettledType
<1>4. /\ c \in server.players
      /\ history.moves + n <= MaxMoves
      /\ history.placed + Len(bombs) <= MaxBombs
      /\ UNCHANGED <<server, down>>
  BY DEF Keys, Connected
<1>5. client' = [client EXCEPT ![c] = [k EXCEPT
                    !.seen[c].at = at, !.base = at, !.bombs = @ \o bombs]]
  BY DEF Keys
<1>6. up' = [up EXCEPT ![c] = @ \o a \o b]
  BY DEF Keys, Placing, Moving
<1>7. history' = [history EXCEPT !.moves = @ + n, !.placed = @ + Len(bombs),
                                 !.bombs = @ \cup ToSet(bombs)]
  BY DEF Keys
<1>8. /\ Bounded(u, d, h, history.moves) /\ Grounded(c, k, u, d, w)
      /\ Known(c, k, d, server.players, server.lives)
      /\ Seeing(c, k, d, server.players, server.walker)
      /\ Itself(c, k, u, d, w, h, Straight(c))
  BY <1>0, <1>4, Zenon DEF OfClient, OfMatch
<1>9. k.seen[c].at \in F
  BY <1>8, Zenon DEF Grounded
<1>10. /\ steps \in Seq(F)
       /\ steps # <<>> => /\ n \in 1 .. n /\ Last(steps) = steps[n] /\ Last(steps) \in F
  BY StepsFacts
<1>11. /\ at \in F
       /\ steps = <<>> => at = k.seen[c].at
       /\ steps # <<>> => at = steps[n]
  BY <1>1, <1>9, <1>10
<1>12. /\ bombs \in Seq(Bomb) /\ Len(bombs) \in Nat /\ ToSet(bombs) \in SUBSET Bomb
  <2>1. [at |-> k.base, atomic |-> FALSE] \in Bomb
    BY <1>1 DEF Bomb
  <2>2. bombs \in Seq(Bomb)
    BY <2>1
  <2> HIDE DEF bombs
  <2> QED BY <2>2 DEF ToSet
<1>13. F \in SUBSET Floor
  OBVIOUS
<1> HIDE DEF F, at, bombs, steps
<1>14. /\ a \in Seq(Message) /\ b \in Seq(Message)
       /\ Saying(t, steps, F, h.got)
  BY <1>1, <1>3, <1>10, <1>12, <1>13, SayingFacts
<1>15. x \in Seen /\ x.at = at /\ x.health = k.seen[c].health
  BY <1>1, <1>11, <1>13 DEF Seen
<1>16. l = [k EXCEPT !.seen[c].at = at, !.base = at, !.bombs = @ \o bombs]
  BY <1>1 DEF ClientType
<1>17. /\ f \in [Players -> Seen] /\ f[c] = x
       /\ \A p \in Players : p # c => f[p] = k.seen[p]
  BY <1>1, <1>15
<1> HIDE DEF f
<1>18. /\ l \in ClientType /\ l.soft = k.soft /\ l.listed = k.listed
       /\ l.ghosts = k.ghosts /\ l.seen = f
  <2>1. k.bombs \o bombs \in Seq(Bomb)
    BY <1>1, <1>12
  <2> DEFINE s == k.bombs \o bombs
  <2> HIDE DEF s
  <2>2. s \in Seq(Bomb) /\ at \in Floor
    BY <1>11, <1>13, <2>1 DEF s
  <2>3. l = [k EXCEPT !.seen = f, !.base = at, !.bombs = s]
    BY DEF s
  <2> HIDE DEF l
  <2> QED BY <1>1, <1>17, <2>2, <2>3 DEF ClientType
<1> HIDE DEF x, l
<1>19. /\ client' \in [Clients -> ClientType] /\ client'[c] = l
       /\ \A e \in Clients : e # c => client'[e] = client[e]
  <2>1. client' = [client EXCEPT ![c] = l]
    BY <1>5, <1>16
  <2> QED BY <1>0, <1>18, <2>1, ClientSet
<1> HIDE DEF a, b
<1>20. /\ t \in Seq(Message)
       /\ Upto(t, Moves, Len(t)) <= n
       /\ \A i \in 1 .. Len(t) : t[i] \in Moves => t[i].after = h.got /\ t[i].at \in F
       /\ steps = <<>> => \A i \in 1 .. Len(t) : t[i] \notin Moves
       /\ steps # <<>> => t # <<>> /\ t[Len(t)] \in Moves /\ t[Len(t)].at = steps[n]
  BY <1>14, Zenon DEF Saying, n
<1>21. (u \o a) \o b = v
  <2>1. u \in Seq(Message) /\ a \in Seq(Message) /\ b \in Seq(Message)
    BY <1>1, <1>14
  <2> HIDE DEF u
  <2>2. (u \o a) \o b = u \o (a \o b)
    BY <2>1, Associative
  <2> QED BY <2>2, Zenon
<1> HIDE DEF t
<1>22. Joined(v, u, t, Message) /\ v \in Seq(Message)
  BY <1>1, <1>20 DEF Joined
<1> HIDE DEF v
<1>23. /\ up' \in [Clients -> Seq(Message)] /\ up'[c] = v
       /\ \A e \in Clients : e # c => up'[e] = up[e]
  <2>1. up \in [Clients -> Seq(Message)]
    BY <1>0, TypeParts
  <2>2. up' = [up EXCEPT ![c] = v]
    BY <1>6, <1>21, <2>1
  <2> QED BY <1>22, <2>1, <2>2
<1>24. n \in Nat
  BY <1>10
<1> HIDE DEF n
<1>25. /\ history' \in HistoryType
       /\ history'.corrected = history.corrected /\ history'.astray = history.astray
       /\ history'.moves = history.moves + n
  <2> DEFINE i == history.moves + n
             j == history.placed + Len(bombs)
             B == history.bombs \cup ToSet(bombs)
  <2>1. history.placed \in 0 .. MaxBombs /\ history.bombs \in SUBSET Bomb /\ MaxBombs \in Nat
    BY <1>0, HistoryFields, Constants
  <2>2. i \in 0 .. MaxMoves
    BY <1>2, <1>4, <1>24
  <2>3. j \in 0 .. MaxBombs
    BY <1>4, <1>12, <2>1
  <2>4. B \in SUBSET Bomb
    BY <1>12, <2>1
  <2>5. history' = [history EXCEPT !.moves = i, !.placed = j, !.bombs = B]
    BY <1>7
  <2> HIDE DEF i, j, B
  <2>6. /\ history' \in HistoryType
        /\ history'.corrected = history.corrected /\ history'.astray = history.astray
        /\ history'.moves = i
    BY <1>2, <2>2, <2>3, <2>4, <2>5 DEF HistoryType
  <2> QED BY <2>6 DEF i
<1>26. TypeOK'
  BY <1>0, <1>4, <1>19, <1>23, <1>25, TypeParts, TypePartsNext
<1>27. (\A p \in Players : Coords(p) \in Floor \ server.soft)'
  BY <1>0, <1>4 DEF Coords
<1>28. \A e \in Clients : Straight(e)' <=> Straight(e)
  BY <1>4, <1>25, Zenon DEF Straight, Alive
<1>29. OfClient(c)'
  <2> HIDE DEF k, u, d, h, w
  <2>1. Bounded(v, d, h, history.moves + n)
    BY <1>2, <1>8, <1>20, <1>22, <1>24, BoundedMake
  <2>2. Grounded(c, l, v, d, w)
    <3>1. l.soft = k.soft /\ l.seen[c].at \in Floor \ k.soft
      BY <1>11, <1>15, <1>17, <1>18 DEF F
    <3>2. \A i \in 1 .. Len(t) : t[i] \in Moves => t[i].at \in Floor \ k.soft
      BY <1>20 DEF F
    <3> QED BY <1>8, <1>22, <3>1, <3>2, GroundedMake
  <2> QED BY <1>4, <1>19, <1>23, <1>25, <2>1, <2>2, Zenon DEF OfClient, d, h, w
<1>30. OfMatch(c)'
  <2>1. \A p \in k.listed : l.seen[p].health = k.seen[p].health
    BY <1>1, <1>15, <1>17, <1>18 DEF ClientType
  <2>2. \A p \in k.listed : p # c => l.seen[p].at = k.seen[p].at
    BY <1>1, <1>17, <1>18 DEF ClientType
  <2>3. Known(c, l, d, server.players, server.lives)
    <3> HIDE DEF k, d
    <3> QED BY <1>8, <1>18, <2>1, KnownSame
  <2>4. Seeing(c, l, d, server.players, server.walker)
    <3> HIDE DEF k, d
    <3> QED BY <1>8, <1>18, <2>2, SeeingSame
  <2>5. l.seen[c].at = at
    BY <1>15, <1>17, <1>18
  <2> DEFINE ok == Straight(c)
  <2>6. \/ (\A i \in 1 .. Len(t) : t[i] \notin Moves) /\ l.seen[c].at = k.seen[c].at
        \/ t # <<>> /\ t[Len(t)] \in Moves /\ t[Len(t)].at = l.seen[c].at
    BY <1>11, <1>20, <2>5
  <2>7. \A i \in 1 .. Len(t) : t[i] \in Moves => t[i].after = h.got
    BY <1>20
  <2>8. Itself(c, k, u, d, w, h, ok)
    BY <1>8
  <2> HIDE DEF k, u, d, h, w, ok
  <2>9. Itself(c, l, v, d, w, h, ok)
    BY <1>1, <1>2, <1>8, <1>22, <2>6, <2>7, <2>8, ItselfMake
  <2>10. Itself(c, l, v, d, w, h, Straight(c)')
    BY <1>28, <2>9, Zenon DEF Itself, ok
  <2> QED BY <1>4, <1>19, <1>23, <1>25, <2>3, <2>4, <2>10, Zenon DEF OfMatch, d, h, w
<1>31. ASSUME NEW e \in Clients, e # c PROVE OfClient(e)'
  <2> DEFINE ue == up[e]
             de == down[e]
             he == history.corrected[e]
  <2>1. Bounded(ue, de, he, history.moves) /\ Grounded(e, client[e], ue, de, server.walker[e])
    BY <1>0, Zenon DEF OfClient
  <2>2. Len(ue) \in Nat /\ he.sent \in Nat
    BY <1>0, ClientFields, HistoryFields
  <2>3. history.moves <= history.moves + n /\ history.moves + n \in Nat
    BY <1>2, <1>24
  <2> HIDE DEF ue, de, he
  <2>4. Bounded(ue, de, he, history.moves + n)
    BY <1>2, <2>1, <2>2, <2>3, BoundedMore
  <2> QED BY <1>4, <1>19, <1>23, <1>25, <1>31, <2>1, <2>4, Zenon DEF OfClient, ue, de, he
<1>32. ASSUME NEW e \in Clients \cap server.players, e # c PROVE OfMatch(e)'
  <2>1. /\ Known(e, client[e], down[e], server.players, server.lives)
        /\ Seeing(e, client[e], down[e], server.players, server.walker)
        /\ Itself(e, client[e], up[e], down[e], server.walker[e], history.corrected[e],
                  Straight(e))
    BY <1>0, Zenon DEF OfMatch
  <2>2. Itself(e, client[e], up[e], down[e], server.walker[e], history.corrected[e],
               Straight(e)')
    BY <1>28, <2>1, Zenon DEF Itself
  <2> QED BY <1>4, <1>19, <1>23, <1>25, <1>32, <2>1, <2>2, Zenon DEF OfMatch
<1>33. server'.players = server.players
  BY <1>4
<1>34. \A e \in Clients : OfClient(e)'
  BY <1>29, <1>31
<1>35. \A e \in Clients \cap server.players : OfMatch(e)'
  BY <1>30, <1>32
<1> QED BY <1>26, <1>27, <1>33, <1>34, <1>35, Zenon DEF Inv

-----------------------------------------------------------------------------
(* A client hears a message.                                               *)

\* What a message that is heard makes of what client c keeps, k, is l.
HeardAs(c, k, l, m) ==
    /\ \A p \in Named(c) : l.ghosts[p] = k.ghosts[p]
    /\ Hears(c, k, l, m)
    /\ \A p \in Sure(c, l) : p \in Sure(c, k)
    /\ \A p \in Sure(c, l) : p # c /\ m \in MoveOf(p) => l.seen[p].at = m.at
    /\ \A p \in Sure(c, l) : p # c /\ m \notin MoveOf(p) => l.seen[p].at = k.seen[p].at
    /\ m \in Back => l.seen[c].at = m.at
    /\ m \notin Back /\ m \notin MoveOf(c) => l.seen[c].at = k.seen[c].at

\* What is kept of the player p is changed.
LEMMA SeenSet ==
    ASSUME NEW k \in ClientType, NEW p \in Players, NEW x \in Seen
    PROVE  LET l == [k EXCEPT !.seen[p] = x]
           IN  /\ l \in ClientType /\ l.soft = k.soft /\ l.listed = k.listed
               /\ l.ghosts = k.ghosts
               /\ l.seen[p] = x
               /\ \A q \in Players : q # p => l.seen[q] = k.seen[q]
<1> DEFINE l == [k EXCEPT !.seen[p] = x]
           f == [k.seen EXCEPT ![p] = x]
<1>1. k.seen \in [Players -> Seen]
  BY DEF ClientType
<1>2. f \in [Players -> Seen] /\ f[p] = x /\ \A q \in Players : q # p => f[q] = k.seen[q]
  BY <1>1
<1>3. l = [k EXCEPT !.seen = f]
  BY DEF ClientType
<1> HIDE DEF f
<1>4. l \in ClientType /\ l.soft = k.soft /\ l.listed = k.listed
      /\ l.ghosts = k.ghosts /\ l.seen = f
  BY <1>2, <1>3 DEF ClientType
<1> QED BY <1>2, <1>4

\* Heard, for a message that a ghost takes and for the five kinds of messages.
\* Ghosts take no message about those who have a name of their own.
LEMMA HeardFacts ==
    ASSUME TypeOK, NEW c \in Clients, NEW m \in News, m \in Back => m.at \in Floor
    PROVE  /\ Heard(c, m) \in ClientType /\ Heard(c, m).soft = client[c].soft
           /\ (\A p \in Named(c) : client[c].ghosts[p] = 0)
                 => HeardAs(c, client[c], Heard(c, m), m)
<1> DEFINE k == client[c]
           l == Heard(c, m)
<1>1. /\ k \in ClientType /\ k.listed \in SUBSET Players
      /\ k.seen \in [Players -> Seen] /\ k.bombs \in Seq(Bomb)
      /\ k.ghosts \in [Players -> Nat]
      /\ \A p \in Players : k.seen[p].at \in Floor /\ k.seen[p].health \in Int
      /\ c \in Players
  BY ClientFields, Constants DEF ClientType
<1>2. /\ m.type \in {"OtherMove", "OtherBombPlace", "MovementCorrection", "GotHit",
                     "OtherLeave"}
      /\ m.type = "OtherMove" => m.who \in Players /\ m.at \in Floor
      /\ m.type = "OtherBombPlace" => m.bomb \in Bomb
      /\ m.type = "OtherLeave" => m.who \in Players
      /\ m.type = "GotHit" => m.who \in Players /\ m.lives \in 0 .. Lives
      /\ m \in Back <=> m.type = "MovementCorrection"
      /\ \A p : /\ m \in MoveOf(p) <=> m.type = "OtherMove" /\ m.who = p
                /\ m \in HitOn(p) <=> m.type = "GotHit" /\ m.who = p
                /\ m \in LeaveOf(p) <=> m.type = "OtherLeave" /\ m.who = p
  BY NewsFields
<1>3. /\ \A p \in k.listed : p \in Players
      /\ Sure(c, k) \subseteq k.listed
  BY <1>1 DEF Sure
<1>9. CASE Mistaken(k, m)
  <2>1. l = Haunted(k, m) /\ m.who \in Players /\ k.ghosts[m.who] > 0
    BY <1>2, <1>9 DEF Heard, Mistaken
  <2> DEFINE g == [k.ghosts EXCEPT ![m.who] = k.ghosts[m.who] - 1]
  <2>2. /\ g \in [Players -> Nat]
        /\ \A p \in Players : p # m.who => g[p] = k.ghosts[p]
    BY <1>1, <2>1
  <2>3. l = [k EXCEPT !.ghosts = g] \/ l = k
    BY <2>1 DEF Haunted, ClientType
  <2> HIDE DEF g, l
  <2>4. /\ l \in ClientType /\ l.soft = k.soft /\ l.listed = k.listed /\ l.seen = k.seen
        /\ \A p \in Players : p # m.who => l.ghosts[p] = k.ghosts[p]
    BY <1>1, <2>2, <2>3 DEF ClientType
  <2>5. ASSUME \A p \in Named(c) : k.ghosts[p] = 0
        PROVE  HeardAs(c, k, l, m)
    <3>1. m.who \notin Named(c)
      BY <2>1, <2>5
    <3>2. c \in Named(c)
      BY <1>1, Constants DEF Named
    <3>3. \A p \in Named(c) : p \in Players /\ p # m.who
      BY <3>1 DEF Named
    <3>4. Sure(c, l) = Sure(c, k) /\ \A p \in Sure(c, k) : p \in Named(c)
      BY <2>4 DEF Sure
    <3>5. m.type # "MovementCorrection"
      BY <1>9 DEF Mistaken
    <3>6. m \notin Back /\ \A p \in Named(c) :
             m \notin MoveOf(p) /\ m \notin HitOn(p) /\ m \notin LeaveOf(p)
      BY <1>2, <3>3, <3>5
    <3>7. Hears(c, k, l, m)
      BY <2>4, <3>4, <3>6, Zenon DEF Hears
    <3> QED BY <2>4, <3>2, <3>3, <3>4, <3>6, <3>7, Zenon DEF HeardAs
  <2> QED BY <2>4, <2>5 DEF l
<1>4. CASE m.type = "OtherMove" /\ ~Mistaken(k, m)
  <2>1. CASE m.who \in k.listed
    <3> DEFINE x == [k.seen[m.who] EXCEPT !.at = m.at]
    <3>1. x \in Seen /\ x.at = m.at /\ x.health = k.seen[m.who].health
      BY <1>1, <1>2, <1>4 DEF Seen
    <3>2. l = [k EXCEPT !.seen[m.who] = x]
      BY <1>1, <1>4, <2>1 DEF Heard
    <3> HIDE DEF x, l
    <3>3. /\ l \in ClientType /\ l.soft = k.soft /\ l.listed = k.listed
          /\ l.ghosts = k.ghosts
          /\ l.seen[m.who] = x
          /\ \A q \in Players : q # m.who => l.seen[q] = k.seen[q]
      BY <1>1, <1>2, <1>4, <3>1, <3>2, SeenSet
    <3>4. \A q \in Players : l.seen[q].health = k.seen[q].health
      BY <3>1, <3>3
    <3>5. Hears(c, k, l, m)
      BY <1>2, <1>3, <1>4, <3>3, <3>4 DEF Hears, Sure
    <3>6. HeardAs(c, k, l, m)
      BY <1>1, <1>2, <1>3, <1>4, <3>1, <3>3, <3>5 DEF HeardAs, Sure
    <3> QED BY <3>3, <3>6 DEF l
  <2>2. CASE m.who \notin k.listed
    <3>1. l = k
      BY <1>4, <2>2 DEF Heard
    <3>2. Hears(c, k, k, m)
      BY <1>2, <1>3, <1>4 DEF Hears, Sure
    <3>3. HeardAs(c, k, k, m)
      BY <1>1, <1>2, <1>3, <1>4, <2>2, <3>2 DEF HeardAs, Sure
    <3> QED BY <1>1, <3>1, <3>3
  <2> QED BY <2>1, <2>2
<1>5. CASE m.type = "OtherBombPlace" /\ ~Mistaken(k, m)
  <2>1. l = [k EXCEPT !.bombs = Append(k.bombs, m.bomb)]
    BY <1>5 DEF Heard
  <2>2. Append(k.bombs, m.bomb) \in Seq(Bomb)
    BY <1>1, <1>2, <1>5
  <2> HIDE DEF l
  <2>3. /\ l \in ClientType /\ l.soft = k.soft /\ l.listed = k.listed /\ l.seen = k.seen
        /\ l.ghosts = k.ghosts
    BY <1>1, <2>1, <2>2 DEF ClientType
  <2>4. Hears(c, k, l, m)
    BY <1>2, <1>3, <1>5, <2>3 DEF Hears, Sure
  <2>5. HeardAs(c, k, l, m)
    BY <1>2, <1>5, <2>3, <2>4 DEF HeardAs, Sure
  <2> QED BY <2>3, <2>5 DEF l
<1>6. CASE m.type = "MovementCorrection" /\ ~Mistaken(k, m)
  <2> DEFINE x == [k.seen[c] EXCEPT !.at = m.at]
  <2>1. x \in Seen /\ x.at = m.at /\ x.health = k.seen[c].health
    BY <1>1, <1>2, <1>6 DEF Seen
  <2>2. l = [k EXCEPT !.seen[c] = x]
    BY <1>1, <1>6 DEF Heard
  <2> HIDE DEF x, l
  <2>3. /\ l \in ClientType /\ l.soft = k.soft /\ l.listed = k.listed
        /\ l.ghosts = k.ghosts
        /\ l.seen[c] = x
        /\ \A q \in Players : q # c => l.seen[q] = k.seen[q]
    BY <1>1, <2>1, <2>2, SeenSet
  <2>4. \A q \in Players : l.seen[q].health = k.seen[q].health
    BY <2>1, <2>3
  <2>5. Hears(c, k, l, m)
    BY <1>2, <1>3, <1>6, <2>3, <2>4 DEF Hears, Sure
  <2>6. HeardAs(c, k, l, m)
    BY <1>2, <1>3, <1>6, <2>1, <2>3, <2>5 DEF HeardAs, Sure
  <2> QED BY <2>3, <2>6 DEF l
<1>7. CASE m.type = "GotHit" /\ ~Mistaken(k, m)
  <2>1. CASE m.who \in k.listed
    <3> DEFINE x == [k.seen[m.who] EXCEPT !.health = k.seen[m.who].health - 1]
               h == [k EXCEPT !.seen[m.who] = x]
               listed == IF m.lives = 0 THEN k.listed \ {m.who} ELSE k.listed
    <3>1. x \in Seen /\ x.at = k.seen[m.who].at /\ x.health = k.seen[m.who].health - 1
      BY <1>1, <1>2, <1>7 DEF Seen
    <3>2. l = [h EXCEPT !.listed = listed]
      BY <1>1, <1>7, <2>1 DEF Heard, Struck, ClientType, Seen
    <3> HIDE DEF x, l
    <3>3. /\ h \in ClientType /\ h.soft = k.soft /\ h.listed = k.listed
          /\ h.ghosts = k.ghosts
          /\ h.seen[m.who] = x
          /\ \A q \in Players : q # m.who => h.seen[q] = k.seen[q]
      BY <1>1, <1>2, <1>7, <3>1, SeenSet
    <3> HIDE DEF h
    <3>4. /\ l \in ClientType /\ l.soft = h.soft /\ l.seen = h.seen
          /\ l.listed = listed /\ l.ghosts = h.ghosts
      BY <3>2, <3>3 DEF ClientType
    <3>5. \A q \in Players : l.seen[q].at = k.seen[q].at
      BY <3>1, <3>3, <3>4
    <3>6. Hears(c, k, l, m)
      BY <1>2, <1>3, <1>7, <3>1, <3>3, <3>4 DEF Hears, Sure
    <3>7. HeardAs(c, k, l, m)
      BY <1>1, <1>2, <1>3, <1>7, <3>3, <3>4, <3>5, <3>6 DEF HeardAs, Sure
    <3> QED BY <3>3, <3>4, <3>7 DEF l
  <2>2. CASE m.who \notin k.listed
    <3>1. l = k
      BY <1>7, <2>2 DEF Heard, Struck
    <3>2. Hears(c, k, k, m)
      BY <1>2, <1>3, <1>7, <2>2 DEF Hears, Sure
    <3>3. HeardAs(c, k, k, m)
      BY <1>2, <1>3, <1>7, <3>2 DEF HeardAs, Sure
    <3> QED BY <1>1, <3>1, <3>3
  <2> QED BY <2>1, <2>2
<1>8. CASE m.type = "OtherLeave" /\ ~Mistaken(k, m)
  <2>1. l = [k EXCEPT !.listed = k.listed \ {m.who}]
    BY <1>8 DEF Heard
  <2> HIDE DEF l
  <2>2. l \in ClientType /\ l.soft = k.soft /\ l.seen = k.seen
        /\ l.listed = k.listed \ {m.who} /\ l.ghosts = k.ghosts
    BY <1>1, <2>1 DEF ClientType
  <2>3. Hears(c, k, l, m)
    BY <1>2, <1>3, <1>8, <2>2 DEF Hears, Sure
  <2>4. HeardAs(c, k, l, m)
    BY <1>2, <1>8, <2>2, <2>3 DEF HeardAs, Sure
  <2> QED BY <2>2, <2>4 DEF l
<1> QED BY <1>2, <1>4, <1>5, <1>6, <1>7, <1>8, <1>9

\* The parts of the state that OfClient and OfMatch speak of.
SameClient(d) ==
    /\ client'[d] = client[d] /\ up'[d] = up[d] /\ down'[d] = down[d]
    /\ server'.walker[d] = server.walker[d]
    /\ history'.corrected[d] = history.corrected[d]
    /\ history'.moves = history.moves

SameMatch(d) ==
    /\ server'.players = server.players /\ server'.lives = server.lives
    /\ server'.walker = server.walker
    /\ d \in history'.astray <=> d \in history.astray

\* If those stay as they are, so do OfClient and OfMatch.
LEMMA SameFacts ==
    ASSUME NEW d, SameClient(d)
    PROVE  /\ OfClient(d) => OfClient(d)'
           /\ SameMatch(d) /\ OfMatch(d) => OfMatch(d)'
<1>1. /\ client'[d] = client[d] /\ up'[d] = up[d] /\ down'[d] = down[d]
      /\ server'.walker[d] = server.walker[d]
      /\ history'.corrected[d] = history.corrected[d]
      /\ history'.moves = history.moves
  BY Zenon DEF SameClient
<1>2. OfClient(d) => OfClient(d)'
  BY <1>1, Zenon DEF OfClient
<1>3. ASSUME SameMatch(d), OfMatch(d) PROVE OfMatch(d)'
  <2>1. /\ server'.players = server.players /\ server'.lives = server.lives
        /\ server'.walker = server.walker
        /\ d \in history'.astray <=> d \in history.astray
    BY <1>3, Zenon DEF SameMatch
  <2>2. Straight(d)' <=> Straight(d)
    BY <2>1, Zenon DEF Straight, Alive
  <2>3. /\ Known(d, client[d], down[d], server.players, server.lives)
        /\ Seeing(d, client[d], down[d], server.players, server.walker)
        /\ Itself(d, client[d], up[d], down[d], server.walker[d], history.corrected[d],
                  Straight(d))
    BY <1>3, Zenon DEF OfMatch
  <2>4. Itself(d, client[d], up[d], down[d], server.walker[d], history.corrected[d],
               Straight(d)')
    BY <2>2, <2>3, Zenon DEF Itself
  <2> QED BY <1>1, <2>1, <2>3, <2>4, Zenon DEF OfMatch
<1> QED BY <1>2, <1>3

\* A message that is taken is the first of its queue.
LEMMA FirstTaken ==
    ASSUME NEW T, NEW s \in Seq(T), s # <<>>
    PROVE  Rest(Tail(s), s, T) /\ Head(s) = s[1] /\ Head(s) \in T /\ Tail(s) \in Seq(T)
BY DEF Rest

\* A client hears a message.
LEMMA InvReceive ==
    ASSUME Inv, NEW c \in Clients, Receive(c)
    PROVE  Inv'
<1>0. /\ TypeOK
      /\ \A p \in Players : Coords(p) \in Floor \ server.soft
      /\ \A d \in Clients : OfClient(d)
      /\ \A d \in Clients \cap server.players : OfMatch(d)
  BY Zenon DEF Inv
<1> DEFINE k == client[c]
           u == up[c]
           d == down[c]
           e == Tail(d)
           m == d[1]
           l == Heard(c, m)
           h == history.corrected[c]
           w == server.walker[c]
<1>1. /\ c \in Connected /\ d # <<>>
      /\ client' = [client EXCEPT ![c] = Heard(c, Head(d))]
      /\ down' = [down EXCEPT ![c] = Tail(d)]
      /\ history' = IF Head(d).type = "MovementCorrection"
                    THEN [history EXCEPT !.corrected[c].got = h.got + 1] ELSE history
      /\ UNCHANGED <<server, up>>
  BY DEF Receive
<1>2. c \in server.players
  BY <1>1 DEF Connected
<1>3. Rest(e, d, News) /\ Head(d) = m /\ m \in News /\ e \in Seq(News)
  <2>1. d \in Seq(News)
    BY <1>0, ClientFields
  <2> QED BY <1>1, <2>1, FirstTaken
<1>4. /\ Bounded(u, d, h, history.moves) /\ Grounded(c, k, u, d, w)
      /\ Known(c, k, d, server.players, server.lives)
      /\ Seeing(c, k, d, server.players, server.walker)
      /\ Itself(c, k, u, d, w, h, Straight(c))
  BY <1>0, <1>2, Zenon DEF OfClient, OfMatch
<1>5. /\ m \in Back => m.at \in Floor
      /\ m \notin MoveOf(c)
  <2>1. 1 \in 1 .. Len(d)
    BY <1>3, PlacesTail
  <2>2. m \in Back => m.at \in Floor \ k.soft
    BY <1>4, <2>1, Zenon DEF Grounded
  <2>3. m \notin MoveOf(c)
    BY <1>4, <2>1, Zenon DEF Grounded
  <2> QED BY <2>2, <2>3
<1>6. l \in ClientType /\ l.soft = k.soft /\ HeardAs(c, k, l, m)
  <2>1. \A p \in Named(c) : k.ghosts[p] = 0
    BY <1>4, Zenon DEF Known
  <2> QED BY <1>0, <1>3, <1>5, <2>1, HeardFacts
<1>7. /\ client' \in [Clients -> ClientType] /\ client'[c] = l
      /\ \A a \in Clients : a # c => client'[a] = client[a]
  <2>1. client' = [client EXCEPT ![c] = l]
    BY <1>1, <1>3
  <2> HIDE DEF l
  <2> QED BY <1>0, <1>6, <2>1, ClientSet
<1>8. /\ down' \in [Clients -> Seq(News)] /\ down'[c] = e
      /\ \A a \in Clients : a # c => down'[a] = down[a]
  <2>1. down \in [Clients -> Seq(News)]
    BY <1>0, TypeParts
  <2> HIDE DEF e
  <2> QED BY <1>1, <1>3, <2>1 DEF e
<1>9. /\ h \in SettledType /\ h.sent \in Nat /\ h.got \in Nat /\ Len(d) \in Nat
      /\ history.moves \in Nat
      /\ history \in HistoryType
  BY <1>0, HistoryFields, ClientFields, TypeParts
<1>10. m \in Back => h.got + 1 \in 0 .. MaxMoves
  <2> SUFFICES ASSUME m \in Back PROVE h.got + 1 \in 0 .. MaxMoves
    OBVIOUS
  <2>1. /\ h.got <= h.sent
        /\ h.got = h.sent <=> \A i \in 1 .. Len(d) : d[i] \notin Back
    BY <1>4, <1>9, Settling
  <2>2. 1 \in 1 .. Len(d)
    BY <1>3, PlacesTail
  <2>3. h.got # h.sent
    BY <2>1, <2>2
  <2>4. h.sent \in 0 .. MaxMoves /\ MaxMoves \in Nat
    BY <1>9, Constants DEF SettledType
  <2> QED BY <1>9, <2>1, <2>3, <2>4
<1>11. /\ history' \in HistoryType
       /\ history'.moves = history.moves /\ history'.astray = history.astray
       /\ m \in Back => history'.corrected[c].got = h.got + 1
       /\ m \notin Back => history'.corrected[c].got = h.got
       /\ history'.corrected[c].sent = h.sent
       /\ \A a \in Clients : a # c => history'.corrected[a] = history.corrected[a]
  <2>1. m \in Back <=> m.type = "MovementCorrection"
    BY <1>3, NewsFields
  <2>2. CASE m \notin Back
    <3>1. history' = history
      BY <1>1, <1>3, <2>1, <2>2
    <3> QED BY <1>9, <2>2, <3>1
  <2>3. CASE m \in Back
    <3> DEFINE g == [h EXCEPT !.got = h.got + 1]
               f == [history.corrected EXCEPT ![c] = g]
    <3>1. g \in SettledType /\ g.sent = h.sent /\ g.got = h.got + 1
      BY <1>9, <1>10, <2>3 DEF SettledType
    <3>2. history.corrected \in [Clients -> SettledType]
      BY <1>0, HistoryFields
    <3>3. history' = [history EXCEPT !.corrected = f]
      BY <1>1, <1>3, <1>9, <2>1, <2>3, <3>2 DEF HistoryType
    <3> HIDE DEF g
    <3>4. f \in [Clients -> SettledType] /\ f[c] = g
          /\ \A a \in Clients : a # c => f[a] = history.corrected[a]
      BY <3>1, <3>2
    <3> HIDE DEF f
    <3>5. /\ history' \in HistoryType /\ history'.corrected = f
          /\ history'.moves = history.moves /\ history'.astray = history.astray
      BY <1>9, <3>3, <3>4 DEF HistoryType
    <3> QED BY <2>3, <3>1, <3>4, <3>5
  <2> QED BY <2>2, <2>3
<1>12. TypeOK'
  BY <1>0, <1>1, <1>7, <1>8, <1>11, TypeParts, TypePartsNext
<1>13. (\A p \in Players : Coords(p) \in Floor \ server.soft)'
  BY <1>0, <1>1 DEF Coords
<1>14. ASSUME NEW a \in Clients, a # c
       PROVE  SameClient(a) /\ SameMatch(a)
  BY <1>1, <1>7, <1>8, <1>11, <1>14 DEF SameClient, SameMatch
<1> DEFINE g == history'.corrected[c]
<1>15. /\ l.soft = k.soft
       /\ Hears(c, k, l, m)
       /\ \A p \in Named(c) : l.ghosts[p] = k.ghosts[p]
       /\ \A p \in Sure(c, l) : p \in Sure(c, k)
       /\ \A p \in Sure(c, l) : p # c /\ m \in MoveOf(p) => l.seen[p].at = m.at
       /\ \A p \in Sure(c, l) : p # c /\ m \notin MoveOf(p) => l.seen[p].at = k.seen[p].at
       /\ m \in Back => l.seen[c].at = m.at
       /\ m \notin Back => l.seen[c].at = k.seen[c].at
  BY <1>5, <1>6, Zenon DEF HeardAs
<1>16. /\ m \in Back => g.got = h.got + 1
       /\ m \notin Back => g.got = h.got
       /\ g.sent = h.sent
  BY <1>11
<1>17. OfClient(c)'
  <2> HIDE DEF k, u, d, e, l, h, w, g
  <2>1. Bounded(u, e, g, history.moves)
    BY <1>3, <1>4, <1>9, <1>16, BoundedHear
  <2>2. Grounded(c, l, u, e, w)
    BY <1>3, <1>4, <1>5, <1>15, GroundedHear
  <2> QED BY <1>1, <1>7, <1>8, <1>11, <2>1, <2>2, Zenon DEF OfClient, u, w, g
<1>18. OfMatch(c)'
  <2>1. Known(c, l, e, server.players, server.lives)
    <3>1. /\ \A p \in k.listed : k.seen[p].health \in Int
          /\ \A p \in server.players : server.lives[p] \in Nat
      BY <1>0, ClientFields, ServerFields
    <3> HIDE DEF k, d, e, l
    <3> QED BY <1>2, <1>3, <1>4, <1>15, <3>1, KnownHear
  <2>2. Seeing(c, l, e, server.players, server.walker)
    <3>1. /\ Rest(e, d, News)
          /\ \A p \in Sure(c, l) : p \in Sure(c, k)
          /\ \A p \in Sure(c, l) : p # c /\ d[1] \in MoveOf(p) => l.seen[p].at = d[1].at
          /\ \A p \in Sure(c, l) :
                p # c /\ d[1] \notin MoveOf(p) => l.seen[p].at = k.seen[p].at
      <4> HIDE DEF k, d, e, l
      <4> QED BY <1>3, <1>15
    <3>2. Seeing(c, k, d, server.players, server.walker)
      BY <1>4
    <3> HIDE DEF k, d, e, l
    <3> QED BY <3>1, <3>2, SeeingHear
  <2>3. Straight(c)' <=> Straight(c)
    BY <1>1, <1>11, Zenon DEF Straight, Alive
  <2> DEFINE ok == Straight(c)
  <2>4. Itself(c, l, u, e, w, g, ok)
    <3>1. \A i \in 1 .. Len(u) : u[i] \in Moves => u[i].after \in Nat
      <4>1. u \in Seq(Message) /\ MaxMoves \in Nat
        BY <1>0, ClientFields, Constants
      <4>2. \A i \in 1 .. Len(u) : u[i] \in Message
        BY <4>1
      <4>3. \A i \in 1 .. Len(u) : u[i] \in Moves => u[i].after \in 0 .. MaxMoves
        BY <4>2, MessageForms
      <4> QED BY <4>1, <4>3
    <3>2. Itself(c, k, u, d, w, h, ok)
      BY <1>4
    <3> HIDE DEF k, u, d, e, l, h, w, g, ok
    <3>3. CASE m \in Back
      BY <1>3, <1>4, <1>9, <1>15, <1>16, <3>1, <3>2, <3>3, ItselfCorrected
    <3>4. CASE m \notin Back
      <4>1. Itself(c, l, u, e, w, h, ok)
        BY <1>3, <1>15, <3>2, <3>4, ItselfHear
      <4>2. g.got = h.got /\ g.sent = h.sent
        BY <1>16, <3>4
      <4> QED BY <4>1, <4>2, Zenon DEF Itself
    <3> QED BY <3>3, <3>4
  <2>5. Itself(c, l, u, e, w, g, Straight(c)')
    BY <2>3, <2>4, Zenon DEF Itself
  <2> HIDE DEF l, e, u, w, g
  <2> QED BY <1>1, <1>7, <1>8, <2>1, <2>2, <2>5, Zenon DEF OfMatch, u, w, g
<1>19. \A a \in Clients : OfClient(a)'
  BY <1>0, <1>14, <1>17, SameFacts
<1>20. \A a \in Clients \cap server.players : OfMatch(a)'
  BY <1>0, <1>14, <1>18, SameFacts
<1>21. server'.players = server.players
  BY <1>1
<1> QED BY <1>12, <1>13, <1>19, <1>20, <1>21, Zenon DEF Inv

-----------------------------------------------------------------------------
(* The server takes a message that moves nobody.                           *)

\* Taking a message of c changes the queue it was in.
LEMMA TakeFacts ==
    ASSUME TypeOK, NEW c \in Clients, NEW type, Take(c, type)
    PROVE  /\ c \in server.players /\ ~server.over
           /\ Rest(up'[c], up[c], Message)
           /\ Head(up[c]) = up[c][1] /\ up[c][1] \in Message /\ up[c][1].type = type
           /\ up' \in [Clients -> Seq(Message)]
           /\ \A d \in Clients : d # c => up'[d] = up[d]
           /\ client' = client
<1>1. /\ c \in Connected /\ up[c] # <<>> /\ Head(up[c]).type = type
      /\ up' = [up EXCEPT ![c] = Tail(up[c])] /\ client' = client
  BY DEF Take
<1>2. c \in server.players /\ ~server.over
  BY <1>1 DEF Connected
<1>3. up \in [Clients -> Seq(Message)] /\ up[c] \in Seq(Message)
  BY TypeParts
<1> DEFINE v == Tail(up[c])
<1>4. Rest(v, up[c], Message) /\ Head(up[c]) = up[c][1] /\ Head(up[c]) \in Message
      /\ v \in Seq(Message)
  BY <1>1, <1>3, FirstTaken
<1> HIDE DEF v
<1>5. up' = [up EXCEPT ![c] = v]
  BY <1>1 DEF v
<1>6. /\ up' \in [Clients -> Seq(Message)] /\ up'[c] = v
      /\ \A d \in Clients : d # c => up'[d] = up[d]
  BY <1>3, <1>4, <1>5
<1> QED BY <1>1, <1>2, <1>4, <1>6

\* Nothing else that the invariant says of c is touched.
Taken(c) ==
    /\ Rest(up'[c], up[c], Message)
    /\ client'[c] = client[c] /\ down'[c] = down[c]
    /\ server'.walker[c] = server.walker[c]
    /\ history'.corrected[c] = history.corrected[c]
    /\ history'.moves = history.moves

\* The invariant holds on for a client whose message is taken, if it is no
\* move or its player is dead.
LEMMA TakenFacts ==
    ASSUME TypeOK, NEW c \in Clients, Taken(c), OfClient(c)
    PROVE  /\ OfClient(c)'
           /\ SameMatch(c) /\ (up[c][1] \in Moves => ~Alive(c)) /\ OfMatch(c) => OfMatch(c)'
<1> DEFINE u == up[c]
           v == up'[c]
           d == down[c]
           k == client[c]
           w == server.walker[c]
           h == history.corrected[c]
           n == history.moves
<1>1. /\ Rest(v, u, Message)
      /\ client'[c] = k /\ down'[c] = d
      /\ server'.walker[c] = w
      /\ history'.corrected[c] = h
      /\ history'.moves = n
  BY Zenon DEF Taken
<1>2. h.sent \in Nat /\ h.got \in Nat /\ n \in Nat /\ d \in Seq(News)
  BY ClientFields, HistoryFields
<1>3. Bounded(u, d, h, n) /\ Grounded(c, k, u, d, w)
  BY Zenon DEF OfClient
<1>4. OfClient(c)'
  <2> HIDE DEF u, v, d, k, w, h, n
  <2>1. Joined(d, d, <<>>, News) /\ \A i \in 1 .. Len(<<>>) : <<>>[i] \notin Back
    BY <1>2, NothingJoined
  <2>2. Bounded(v, d, h, n)
    BY <1>1, <1>2, <1>3, <2>1, BoundedTake
  <2>3. /\ w.coords \in Floor \ k.soft
        /\ \A i \in 0 .. History - 1 :
              w.history[i] # M!Unrecorded => w.history[i] \in Floor \ k.soft
    BY <1>3, Zenon DEF Grounded
  <2>4. Grounded(c, k, v, d, w)
    BY <1>1, <1>3, <2>3, GroundedTake
  <2> QED BY <1>1, <2>2, <2>4, Zenon DEF OfClient, v
<1>5. ASSUME SameMatch(c), u[1] \in Moves => ~Alive(c), OfMatch(c) PROVE OfMatch(c)'
  <2>1. /\ server'.players = server.players /\ server'.lives = server.lives
        /\ server'.walker = server.walker
        /\ c \in history'.astray <=> c \in history.astray
    BY <1>5, Zenon DEF SameMatch
  <2>2. Straight(c)' <=> Straight(c)
    BY <2>1, Zenon DEF Straight, Alive
  <2> DEFINE ok == Straight(c)
  <2>3. /\ Known(c, k, d, server.players, server.lives)
        /\ Seeing(c, k, d, server.players, server.walker)
        /\ Itself(c, k, u, d, w, h, ok)
    BY <1>5, Zenon DEF OfMatch
  <2>4. u[1] \in Moves => ~ok
    BY <1>5 DEF Straight
  <2>5. Itself(c, k, v, d, w, h, ok)
    <3> HIDE DEF u, v, d, k, w, h, ok
    <3> QED BY <1>1, <2>3, <2>4, ItselfTake
  <2>6. Itself(c, k, v, d, w, h, Straight(c)')
    BY <2>2, <2>5, Zenon DEF Itself
  <2> QED BY <1>1, <2>1, <2>3, <2>6, Zenon DEF OfMatch
<1> QED BY <1>4, <1>5

\* A message of a dead player is answered by nothing.
LEMMA InvRefuseDead ==
    ASSUME Inv, NEW c \in Clients, RefuseDead(c)
    PROVE  Inv'
<1>0. /\ TypeOK
      /\ \A p \in Players : Coords(p) \in Floor \ server.soft
      /\ \A d \in Clients : OfClient(d)
      /\ \A d \in Clients \cap server.players : OfMatch(d)
  BY Zenon DEF Inv
<1>1. PICK type : Take(c, type)
  BY Zenon DEF RefuseDead
<1>2. /\ server' = server /\ down' = down /\ history' = history
      /\ ~Alive(c)
  BY DEF RefuseDead, Refused, Alive
<1>3. /\ c \in server.players
      /\ Rest(up'[c], up[c], Message)
      /\ up' \in [Clients -> Seq(Message)]
      /\ \A d \in Clients : d # c => up'[d] = up[d]
      /\ client' = client
  BY <1>0, <1>1, TakeFacts
<1>4. TypeOK'
  BY <1>0, <1>2, <1>3, TypeParts, TypePartsNext
<1>5. (\A p \in Players : Coords(p) \in Floor \ server.soft)'
  BY <1>0, <1>2 DEF Coords
<1>6. Taken(c) /\ SameMatch(c)
  BY <1>2, <1>3, Zenon DEF Taken, SameMatch
<1>7. ASSUME NEW d \in Clients, d # c PROVE SameClient(d) /\ SameMatch(d)
  BY <1>2, <1>3, <1>7, Zenon DEF SameClient, SameMatch
<1>8. \A d \in Clients : OfClient(d)'
  BY <1>0, <1>6, <1>7, TakenFacts, SameFacts
<1>9. \A d \in Clients \cap server.players : OfMatch(d)'
  BY <1>0, <1>2, <1>6, <1>7, TakenFacts, SameFacts
<1> QED BY <1>2, <1>4, <1>5, <1>8, <1>9, Zenon DEF Inv

-----------------------------------------------------------------------------
(* The server sends messages.                                              *)

\* Those of C that are still connected are sent s, the others nothing.
LEMMA SendFacts ==
    ASSUME TypeOK, NEW C, NEW s \in Seq(News), down' = SendTo(C, s)
    PROVE  /\ down' \in [Clients -> Seq(News)]
           /\ \A d \in Clients : \/ d \in C /\ d \in server.players
                                    /\ Joined(down'[d], down[d], s, News)
                                 \/ ~(d \in C /\ d \in server.players)
                                    /\ down'[d] = down[d]
                                    /\ Joined(down'[d], down[d], <<>>, News)
<1>1. down \in [Clients -> Seq(News)]
  BY TypeParts
<1>2. down' = [d \in Clients |-> IF d \in C /\ d \in server.players
                                 THEN down[d] \o s ELSE down[d]]
  BY DEF SendTo
<1>3. \A d \in Clients : down[d] \o s \in Seq(News) /\ down[d] \in Seq(News)
  BY <1>1
<1>4. down' \in [Clients -> Seq(News)]
  BY <1>2, <1>3
<1>5. ASSUME NEW d \in Clients
      PROVE  \/ d \in C /\ d \in server.players
                /\ Joined(down'[d], down[d], s, News)
             \/ ~(d \in C /\ d \in server.players)
                /\ down'[d] = down[d]
                /\ Joined(down'[d], down[d], <<>>, News)
  <2>1. CASE d \in C /\ d \in server.players
    <3>1. down'[d] = down[d] \o s
      BY <1>2, <2>1
    <3> QED BY <1>3, <2>1, <3>1 DEF Joined
  <2>2. CASE ~(d \in C /\ d \in server.players)
    <3>1. down'[d] = down[d]
      BY <1>2, <2>2
    <3> QED BY <1>3, <2>2, <3>1, NothingJoined
  <2> QED BY <2>1, <2>2
<1> QED BY <1>4, <1>5

\* A client that is sent quiet messages, while all players and their lives stay.
LEMMA QuietFacts ==
    ASSUME TypeOK, NEW d \in Clients, NEW f, Reached(d, f), Quiet(f),
           \A i \in 1 .. Len(f) : f[i] \notin MoveOf(d),
           server'.players = server.players, server'.lives = server.lives,
           d \in history'.astray <=> d \in history.astray,
           OfClient(d)
    PROVE  /\ OfClient(d)'
           /\ /\ d \in server.players /\ OfMatch(d)
              /\ Seeing(d, client[d], down'[d], server.players, server'.walker)
              => OfMatch(d)'
<1>1. \A i \in 1 .. Len(f) : f[i] \notin Back
  BY Zenon DEF Quiet
<1>2. OfClient(d)'
  BY <1>1, OfClientReached
<1>3. ASSUME d \in server.players, OfMatch(d),
             Seeing(d, client[d], down'[d], server.players, server'.walker)
      PROVE  OfMatch(d)'
  <2> DEFINE k == client[d]
             S == server.players
             L == server.lives
  <2>1. /\ k.listed \subseteq Players /\ S \subseteq Players
        /\ \A p \in k.listed : k.seen[p].health \in Int
        /\ \A p \in S : L[p] \in Nat
    BY ClientFields, ServerFields
  <2>2. Len(f) \in Nat
    BY DEF Reached, Joined
  <2>3. Sends(d, k, f, S, L, S, L)
    <3> HIDE DEF k, S, L
    <3> QED BY <2>1, <2>2, SendsQuiet
  <2>4. Sends(d, k, f, S, L, server'.players, server'.lives)
    BY <2>3
  <2>5. Seeing(d, k, down'[d], server'.players, server'.walker)
    BY <1>3
  <2>6. Straight(d)' => Straight(d)
    BY Zenon DEF Straight, Alive
  <2> QED BY <1>1, <1>3, <2>1, <2>4, <2>5, <2>6, OfMatchReached
<1> QED BY <1>2, <1>3

\* A bomb is placed: the others are told of it.
LEMMA InvPlaceBomb ==
    ASSUME Inv, NEW c \in Clients, HandlePlaceBomb(c)
    PROVE  Inv'
<1>0. /\ TypeOK
      /\ \A p \in Players : Coords(p) \in Floor \ server.soft
      /\ \A d \in Clients : OfClient(d)
      /\ \A d \in Clients \cap server.players : OfMatch(d)
  BY Zenon DEF Inv
<1> DEFINE b == [at |-> Head(up[c]).at, atomic |-> FALSE]
           m == [type |-> "OtherBombPlace", bomb |-> b]
           s == <<m>>
<1>1. /\ Take(c, "PlaceBomb")
      /\ server' = [server EXCEPT !.bombs = Append(server.bombs, b)]
      /\ down' = SendTo(Players \ {c}, s)
      /\ history' = history
  BY DEF HandlePlaceBomb
<1>2. /\ c \in server.players
      /\ Rest(up'[c], up[c], Message)
      /\ Head(up[c]) = up[c][1] /\ up[c][1] \in Message /\ up[c][1].type = "PlaceBomb"
      /\ up' \in [Clients -> Seq(Message)]
      /\ \A d \in Clients : d # c => up'[d] = up[d]
      /\ client' = client
  BY <1>0, <1>1, TakeFacts
<1>3. b \in Bomb
  <2>1. Head(up[c]).at \in Floor
    BY <1>2, MessageForms
  <2> QED BY <2>1 DEF Bomb
<1>4. m \in News /\ m.type = "OtherBombPlace" /\ s \in Seq(News) /\ Len(s) = 1 /\ s[1] = m
  <2>1. m \in News
    <3> HIDE DEF b
    <3> QED BY <1>3, NewsForms
  <2>2. m.type = "OtherBombPlace"
    OBVIOUS
  <2> HIDE DEF m
  <2> QED BY <2>1, <2>2
<1>5. /\ server' \in ServerType
      /\ server'.players = server.players /\ server'.lives = server.lives
      /\ server'.walker = server.walker /\ server'.soft = server.soft
  <2>1. server \in ServerType /\ server.bombs \in Seq(Bomb)
    BY <1>0, TypeParts, ServerFields
  <2> DEFINE bombs == Append(server.bombs, b)
  <2>2. bombs \in Seq(Bomb)
    BY <1>3, <2>1
  <2>3. server' = [server EXCEPT !.bombs = bombs]
    BY <1>1
  <2> HIDE DEF bombs
  <2> QED BY <2>1, <2>2, <2>3 DEF ServerType
<1> HIDE DEF b, m, s
<1>6. /\ down' \in [Clients -> Seq(News)]
      /\ \A d \in Clients : \/ d \in Players \ {c} /\ d \in server.players
                               /\ Joined(down'[d], down[d], s, News)
                            \/ ~(d \in Players \ {c} /\ d \in server.players)
                               /\ down'[d] = down[d]
                               /\ Joined(down'[d], down[d], <<>>, News)
  BY <1>0, <1>1, <1>4, SendFacts
<1>7. TypeOK'
  BY <1>0, <1>1, <1>2, <1>5, <1>6, TypeParts, TypePartsNext
<1>8. (\A p \in Players : Coords(p) \in Floor \ server.soft)'
  BY <1>0, <1>5 DEF Coords
<1>9. up[c][1] \notin Moves
  BY <1>2, MessageForms
<1>10. Taken(c) /\ SameMatch(c)
  <2>1. down'[c] = down[c]
    BY <1>6
  <2> QED BY <1>1, <1>2, <1>5, <2>1, Zenon DEF Taken, SameMatch
<1>11. /\ OfClient(c)'
       /\ c \in server.players => OfMatch(c)'
  BY <1>0, <1>9, <1>10, TakenFacts
<1>12. Quiet(s) /\ \A p \in Players, i \in 1 .. Len(s) : s[i] \notin MoveOf(p)
  <2>1. /\ m \notin Back
        /\ \A p : m \notin MoveOf(p) /\ m \notin HitOn(p) /\ m \notin LeaveOf(p)
    BY <1>4, NewsFields
  <2>2. \A i \in 1 .. Len(s) : s[i] = m
    BY <1>4
  <2> QED BY <2>1, <2>2, Zenon DEF Quiet
<1>13. Quiet(<<>>) /\ \A p \in Players, i \in 1 .. Len(<<>>) : <<>>[i] \notin MoveOf(p)
  BY DEF Quiet
<1>14. ASSUME NEW d \in Clients, d # c
       PROVE  /\ OfClient(d)'
              /\ d \in server.players => OfMatch(d)'
  <2>1. PICK f : Joined(down'[d], down[d], f, News) /\ f \in {s, <<>>}
    BY <1>6
  <2>2. Quiet(f) /\ \A p \in Players, i \in 1 .. Len(f) : f[i] \notin MoveOf(p)
    BY <1>12, <1>13, <2>1
  <2>3. d \in Players /\ \A p \in server.players : p \in Players
    BY <1>0, Constants, ServerFields
  <2>4. \A i \in 1 .. Len(f) : f[i] \notin MoveOf(d)
    BY <2>2, <2>3
  <2>5. Reached(d, f)
    BY <1>1, <1>2, <1>5, <1>14, <2>1, Zenon DEF Reached
  <2>6. ASSUME d \in server.players
        PROVE  Seeing(d, client[d], down'[d], server.players, server'.walker)
    <3>1. \A p \in server.players \ {d} : \A i \in 1 .. Len(f) : f[i] \notin MoveOf(p)
      BY <2>2, <2>3
    <3>2. Seeing(d, client[d], down[d], server.players, server.walker)
      BY <1>0, <2>6, Zenon DEF OfMatch
    <3>3. Seeing(d, client[d], down'[d], server.players, server.walker)
      BY <2>1, <3>1, <3>2, SeeingSend
    <3> QED BY <1>5, <3>3
  <2> QED BY <1>0, <1>1, <1>5, <2>2, <2>4, <2>5, <2>6, QuietFacts
<1> QED BY <1>5, <1>7, <1>8, <1>11, <1>14, Zenon DEF Inv

-----------------------------------------------------------------------------
(* The server takes a move.                                                *)

\* Where a move to s that is accepted or refused puts a player who was w.
Accepted(v, w, s) ==
    /\ v.back = {} /\ v.walker.coords = s
    /\ \A i \in 0 .. History - 1 :
          v.walker.history[i] = s \/ v.walker.history[i] = w.history[i]

ThrownBack(v, w) ==
    /\ v.walker.coords = w.coords /\ v.walker.history = w.history
    /\ \E t : /\ v.back = {t}
              /\ t = w.coords \/ \E i \in 0 .. History - 1 :
                                    t = w.history[i] /\ t # M!Unrecorded

\* MoveCheckSus accepts a move or sends the player back to where he has been.
LEMMA CheckFacts ==
    ASSUME NEW w \in M!Walker, NEW s \in Floor, NEW v \in M!MoveCheckSus(w, s)
    PROVE  v.walker \in M!Walker /\ (Accepted(v, w, s) \/ ThrownBack(v, w))
<1> DEFINE n == M!Stepped(w.step)
<1>1. History \in Nat /\ History >= 2
  BY Constants
<1>2. /\ w.coords \in Floor /\ w.step \in M!StepCounts
      /\ w.history \in [0 .. History - 1 -> Floor \cup {M!Unrecorded}]
  BY DEF M!Walker
<1>3. n \in M!StepCounts
  BY <1>1, <1>2 DEF M!Stepped, M!StepCounts
<1> HIDE DEF n
<1>4. \/ v = [walker |-> w, back |-> {w.coords}]
      \/ v = [walker |-> M!Walked(w, s, n), back |-> {}]
      \/ /\ M!MayBeTooFast(w, n)
         /\ v = [walker |-> [w EXCEPT !.step = 0], back |-> {w.history[M!Oldest(n)]}]
  BY Zenon DEF M!MoveCheckSus, n
<1>5. CASE v = [walker |-> w, back |-> {w.coords}]
  <2>1. v.walker = w /\ v.back = {w.coords}
    BY <1>5
  <2> QED BY <2>1, Zenon DEF ThrownBack
<1>6. CASE v = [walker |-> M!Walked(w, s, n), back |-> {}]
  <2> DEFINE recorded == [w.history EXCEPT ![n % History] = s]
             f == IF n > History THEN recorded ELSE w.history
  <2>1. n % History \in 0 .. History - 1
    BY <1>1, <1>3 DEF M!StepCounts
  <2>2. /\ recorded \in [0 .. History - 1 -> Floor \cup {M!Unrecorded}]
        /\ \A i \in 0 .. History - 1 : recorded[i] = s \/ recorded[i] = w.history[i]
    BY <1>2, <2>1
  <2> HIDE DEF recorded
  <2>3. /\ f \in [0 .. History - 1 -> Floor \cup {M!Unrecorded}]
        /\ \A i \in 0 .. History - 1 : f[i] = s \/ f[i] = w.history[i]
    BY <1>2, <2>2
  <2>4. M!Walked(w, s, n) = [coords |-> s, step |-> n, history |-> f]
    BY Zenon DEF M!Walked, recorded
  <2> HIDE DEF f
  <2>5. v.walker = [coords |-> s, step |-> n, history |-> f] /\ v.back = {}
    BY <1>6, <2>4
  <2>6. v.walker.coords = s /\ v.walker.step = n /\ v.walker.history = f
    BY <2>5
  <2>7. v.walker \in M!Walker
    BY <1>3, <2>3, <2>5 DEF M!Walker
  <2>8. Accepted(v, w, s)
    BY <2>3, <2>5, <2>6, Zenon DEF Accepted
  <2> QED BY <2>7, <2>8
<1>7. CASE /\ M!MayBeTooFast(w, n)
           /\ v = [walker |-> [w EXCEPT !.step = 0], back |-> {w.history[M!Oldest(n)]}]
  <2> DEFINE i == M!Oldest(n)
             x == [w EXCEPT !.step = 0]
  <2>1. i \in 0 .. History - 1
    BY <1>1, <1>3 DEF M!Oldest, M!StepCounts
  <2>2. w.history[i] # M!Unrecorded
    BY <1>7 DEF M!MayBeTooFast
  <2>3. x \in M!Walker /\ x.coords = w.coords /\ x.history = w.history
    <3>1. 0 \in M!StepCounts
      BY <1>1 DEF M!StepCounts
    <3> QED BY <1>2, <3>1 DEF M!Walker
  <2> HIDE DEF i, x
  <2>4. v.walker = x /\ v.back = {w.history[i]}
    BY <1>7 DEF i, x
  <2>5. ThrownBack(v, w)
    BY <2>1, <2>2, <2>3, <2>4, Zenon DEF ThrownBack
  <2> QED BY <2>3, <2>4, <2>5
<1> QED BY <1>4, <1>5, <1>6, <1>7

\* The server accepts only moves to squares that are free on its map.
LEMMA VerdictFacts ==
    ASSUME TypeOK, NEW p \in Players, NEW s \in Floor, NEW v \in Verdicts(p, s)
    PROVE  /\ v.walker \in M!Walker
           /\ \/ Accepted(v, server.walker[p], s) /\ s \in Floor \ server.soft
              \/ ThrownBack(v, server.walker[p])
<1>1. server.walker[p] \in M!Walker
  BY ServerFields
<1>2. CASE s \in Floor \ server.soft
  <2>1. v \in M!MoveCheckSus(server.walker[p], s)
    BY <1>2 DEF Verdicts
  <2> QED BY <1>1, <1>2, <2>1, CheckFacts
<1>3. CASE s \notin Floor \ server.soft
  <2>1. v.walker = server.walker[p] /\ v.back = {server.walker[p].coords}
    BY <1>3 DEF Verdicts, Coords
  <2> QED BY <1>1, <2>1, Zenon DEF ThrownBack
<1> QED BY <1>2, <1>3

\* A player who is thrown back is sent one correction.
LEMMA CorrectionFacts ==
    ASSUME NEW v, NEW t \in Floor, v.back = {t}
    PROVE  /\ Corrections(v) \in Seq(News) /\ Len(Corrections(v)) = 1
           /\ Corrections(v)[1] = [type |-> "MovementCorrection", at |-> t]
<1> DEFINE m == [type |-> "MovementCorrection", at |-> t]
           S == {[type |-> "MovementCorrection", at |-> s] : s \in v.back}
           f == SetToSeq(S)
<1>1. m \in News
  BY NewsForms
<1>2. S = {m}
  OBVIOUS
<1>3. f = Corrections(v)
  BY DEF Corrections
<1> HIDE DEF m, S, f
<1>4. S \in SUBSET News /\ IsFiniteSet(S) /\ Cardinality(S) = 1
  BY <1>1, <1>2, FS_Singleton
<1>5. f \in Seq(News) /\ Len(f) = 1 /\ ToSet(f) = S
  BY <1>4, SetToSeqFacts, Zenon DEF f
<1>6. f[1] = m
  <2>1. f[1] \in ToSet(f)
    BY <1>5 DEF ToSet
  <2> QED BY <1>2, <1>5, <2>1
<1> QED BY <1>3, <1>5, <1>6 DEF m

\* The server takes a move of c and makes v of it: what changes but for the
\* messages it sends.
MoveDone(c, v) ==
    /\ Rest(up'[c], up[c], Message) /\ up[c][1] \in Moves
    /\ c \in server.players /\ Alive(c)
    /\ client' = client
    /\ server'.players = server.players /\ server'.lives = server.lives
    /\ server'.soft = server.soft /\ server'.bombs = server.bombs
    /\ server'.walker[c] = v.walker
    /\ \A p \in Players : p # c => server'.walker[p] = server.walker[p]
    /\ history'.moves = history.moves /\ history'.bombs = history.bombs
    /\ history'.corrected[c].got = history.corrected[c].got
    /\ v.back = {} => history'.corrected[c].sent = history.corrected[c].sent
    /\ v.back # {} => history'.corrected[c].sent = history.corrected[c].sent + 1
    /\ c \notin history'.astray => ~Strays(c, up[c][1], v)
    /\ \A d \in Clients : d # c => /\ up'[d] = up[d]
                                   /\ history'.corrected[d] = history.corrected[d]
                                   /\ d \in history'.astray <=> d \in history.astray

\* There is room for one more correction.
LEMMA RoomForCorrection ==
    ASSUME TypeOK, NEW c \in Clients, up[c] # <<>>, up[c][1] \in Moves,
           Bounded(up[c], down[c], history.corrected[c], history.moves)
    PROVE  history.corrected[c].sent + 1 \in 0 .. MaxMoves
<1> DEFINE u == up[c]
           x == Upto(u, Moves, Len(u))
           a == history.corrected[c].sent
           n == history.moves
<1>1. u \in Seq(Message) /\ Len(u) \in Nat /\ 1 \in 1 .. Len(u)
  <2>1. u \in Seq(Message) /\ Len(u) \in Nat
    BY ClientFields
  <2> QED BY <2>1
<1>2. x \in Nat /\ x # 0
  BY <1>1, UptoFacts, CountNone
<1>3. a + x <= n
  BY Zenon DEF Bounded
<1>4. a \in Nat /\ n \in 0 .. MaxMoves /\ MaxMoves \in Nat
  BY HistoryFields, Constants
<1> HIDE DEF x, a, n
<1>5. a + 1 \in 0 .. MaxMoves
  BY <1>2, <1>3, <1>4
<1> QED BY <1>5 DEF a

\* What a move that the server takes changes.
LEMMA MoveFacts ==
    ASSUME TypeOK, NEW c \in Clients, HandleMove(c), OfClient(c)
    PROVE  \E v \in Verdicts(c, up[c][1].at) :
              /\ MoveDone(c, v) /\ down' = Told(c, up[c][1].at, v)
              /\ server' \in ServerType /\ up' \in [Clients -> Seq(Message)]
              /\ history' \in HistoryType /\ up[c][1] \in Message
<1> DEFINE m == up[c][1]
           h == history.corrected[c]
<1>1. Take(c, "Move") /\ ~Refused(c)
  BY Zenon DEF HandleMove
<1>2. /\ c \in server.players /\ c \in Players
      /\ Rest(up'[c], up[c], Message)
      /\ Head(up[c]) = m /\ m \in Message /\ m.type = "Move"
      /\ up' \in [Clients -> Seq(Message)]
      /\ \A d \in Clients : d # c => up'[d] = up[d]
      /\ client' = client
  BY <1>1, TakeFacts, Constants
<1>3. PICK v \in Verdicts(c, m.at) :
         /\ server' = [server EXCEPT !.walker[c] = v.walker]
         /\ down' = Told(c, m.at, v)
         /\ history' = [history EXCEPT
               !.corrected[c].sent = IF v.back # {} THEN @ + 1 ELSE @,
               !.astray = IF Strays(c, m, v) THEN @ \cup {c} ELSE @ \ {c}]
  <2> DEFINE a == Head(up[c])
  <2>1. \E v \in Verdicts(c, a.at) :
           /\ server' = [server EXCEPT !.walker[c] = v.walker]
           /\ down' = Told(c, a.at, v)
           /\ history' = [history EXCEPT
                 !.corrected[c].sent = IF v.back # {} THEN @ + 1 ELSE @,
                 !.astray = IF Strays(c, a, v) THEN @ \cup {c} ELSE @ \ {c}]
    BY Zenon DEF HandleMove
  <2>2. a = m
    BY <1>2
  <2> HIDE DEF a, m
  <2> QED BY <2>1, <2>2
<1>4. m.at \in Floor /\ m \in Moves
  BY <1>2, MessageForms
<1>5. v.walker \in M!Walker
  BY <1>2, <1>4, VerdictFacts
<1>6. /\ server' \in ServerType
      /\ server'.players = server.players /\ server'.lives = server.lives
      /\ server'.soft = server.soft /\ server'.bombs = server.bombs
      /\ server'.walker[c] = v.walker
      /\ \A p \in Players : p # c => server'.walker[p] = server.walker[p]
  <2> DEFINE f == [server.walker EXCEPT ![c] = v.walker]
  <2>1. server \in ServerType /\ server.walker \in [Players -> M!Walker]
    BY TypeParts, ServerFields
  <2>2. /\ f \in [Players -> M!Walker] /\ f[c] = v.walker
        /\ \A p \in Players : p # c => f[p] = server.walker[p]
    BY <1>2, <1>5, <2>1
  <2>3. server' = [server EXCEPT !.walker = f]
    BY <1>3, <2>1 DEF ServerType
  <2> HIDE DEF f
  <2>4. /\ server' \in ServerType
        /\ server'.players = server.players /\ server'.lives = server.lives
        /\ server'.soft = server.soft /\ server'.bombs = server.bombs /\ server'.walker = f
    BY <2>1, <2>2, <2>3 DEF ServerType
  <2> QED BY <2>2, <2>4
<1>7. Alive(c)
  <2>1. server.lives[c] \in Nat /\ server.lives[c] # 0
    BY <1>1, <1>2, ServerFields DEF Refused
  <2> QED BY <1>2, <2>1 DEF Alive
<1> DEFINE sent == IF v.back # {} THEN h.sent + 1 ELSE h.sent
           g == [h EXCEPT !.sent = sent]
           corrected == [history.corrected EXCEPT ![c] = g]
           astray == IF Strays(c, m, v) THEN history.astray \cup {c}
                     ELSE history.astray \ {c}
<1>8. sent \in 0 .. MaxMoves
  <2>1. Bounded(up[c], down[c], h, history.moves)
    BY Zenon DEF OfClient
  <2>2. h.sent + 1 \in 0 .. MaxMoves
    BY <1>2, <1>4, <2>1, RoomForCorrection DEF Rest
  <2>3. h.sent \in 0 .. MaxMoves
    BY HistoryFields DEF SettledType
  <2> QED BY <2>2, <2>3
<1>9. h \in SettledType /\ history \in HistoryType
      /\ history.corrected \in [Clients -> SettledType] /\ history.astray \in SUBSET Clients
  BY HistoryFields, TypeParts
<1>10. history' = [history EXCEPT !.corrected = corrected, !.astray = astray]
  BY <1>3, <1>9 DEF HistoryType, SettledType
<1> HIDE DEF sent
<1>11. g \in SettledType /\ g.got = h.got /\ g.sent = sent
  BY <1>8, <1>9 DEF SettledType
<1> HIDE DEF g
<1>12. /\ corrected \in [Clients -> SettledType] /\ corrected[c] = g
       /\ \A d \in Clients : d # c => corrected[d] = history.corrected[d]
  BY <1>9, <1>11
<1>13. /\ astray \in SUBSET Clients
       /\ c \notin astray => ~Strays(c, m, v)
       /\ \A d \in Clients : d # c => (d \in astray <=> d \in history.astray)
  BY <1>9
<1> HIDE DEF corrected, astray
<1>14. /\ history' \in HistoryType /\ history'.moves = history.moves
       /\ history'.bombs = history.bombs
       /\ history'.corrected = corrected /\ history'.astray = astray
  BY <1>9, <1>10, <1>12, <1>13 DEF HistoryType
<1>15. /\ v.back = {} => sent = h.sent
       /\ v.back # {} => sent = h.sent + 1
  BY DEF sent
<1>16. MoveDone(c, v)
  <2>1. /\ history'.corrected[c].got = h.got
        /\ v.back = {} => history'.corrected[c].sent = h.sent
        /\ v.back # {} => history'.corrected[c].sent = h.sent + 1
    BY <1>11, <1>12, <1>14, <1>15
  <2>2. /\ c \notin history'.astray => ~Strays(c, m, v)
        /\ \A d \in Clients : d # c => /\ up'[d] = up[d]
                                       /\ history'.corrected[d] = history.corrected[d]
                                       /\ d \in history'.astray <=> d \in history.astray
    BY <1>2, <1>12, <1>13, <1>14
  <2> QED BY <1>2, <1>4, <1>6, <1>7, <1>14, <2>1, <2>2, Zenon DEF MoveDone
<1> QED BY <1>2, <1>3, <1>6, <1>14, <1>16

\* Messages that are on their way say what the client knew when it sent them.
LEMMA AfterFacts ==
    ASSUME TypeOK, NEW c \in Clients
    PROVE  \A i \in 1 .. Len(up[c]) : up[c][i] \in Moves => up[c][i].after \in Nat
<1>1. up[c] \in Seq(Message) /\ MaxMoves \in Nat
  BY ClientFields, Constants
<1>2. \A i \in 1 .. Len(up[c]) : up[c][i] \in Message
  BY <1>1
<1>3. \A i \in 1 .. Len(up[c]) : up[c][i] \in Moves => up[c][i].after \in 0 .. MaxMoves
  BY <1>2, MessageForms
<1> QED BY <1>1, <1>3

\* The server accepts a move of c: it holds on for c itself.
LEMMA MoverAccepted ==
    ASSUME TypeOK, NEW c \in Clients, NEW v, MoveDone(c, v), down'[c] = down[c],
           Accepted(v, server.walker[c], up[c][1].at),
           OfClient(c), OfMatch(c)
    PROVE  OfClient(c)' /\ OfMatch(c)'
<1> DEFINE k == client[c]
           u == up[c]
           t == up'[c]
           d == down[c]
           w == server.walker[c]
           x == v.walker
           h == history.corrected[c]
           g == history'.corrected[c]
           n == history.moves
           S == server.players
           ok == Straight(c)
           good == Straight(c)'
<1>1. /\ Rest(t, u, Message) /\ u[1] \in Moves
      /\ client'[c] = k /\ down'[c] = d
      /\ server'.players = S /\ server'.lives = server.lives
      /\ server'.walker[c] = x
      /\ \A p \in Players : p # c => server'.walker[p] = server.walker[p]
      /\ history'.moves = n
      /\ g.got = h.got
      /\ v.back = {} => g.sent = h.sent
      /\ c \notin history'.astray => ~Strays(c, u[1], v)
  BY Zenon DEF MoveDone
<1>2. /\ v.back = {} /\ x.coords = u[1].at
      /\ \A i \in 0 .. History - 1 : x.history[i] = u[1].at \/ x.history[i] = w.history[i]
  BY Zenon DEF Accepted
<1>3. g.got = h.got /\ g.sent = h.sent
  BY <1>1, <1>2
<1>4. /\ h.sent \in Nat /\ h.got \in Nat /\ n \in Nat
      /\ d \in Seq(News) /\ Len(d) \in Nat
  BY ClientFields, HistoryFields
<1>5. /\ Bounded(u, d, h, n) /\ Grounded(c, k, u, d, w)
      /\ Known(c, k, d, S, server.lives)
      /\ Seeing(c, k, d, S, server.walker)
      /\ Itself(c, k, u, d, w, h, ok)
  BY Zenon DEF OfClient, OfMatch
<1>6. 1 \in 1 .. Len(u) /\ Joined(d, d, <<>>, News)
  BY <1>1, <1>4, PlacesTail, NothingJoined
<1>7. OfClient(c)'
  <2> HIDE DEF k, u, t, d, w, x, h, g, n, S, ok, good
  <2>1. Bounded(t, d, h, n)
    <3>1. \A i \in 1 .. Len(<<>>) : <<>>[i] \notin Back
      OBVIOUS
    <3> QED BY <1>1, <1>4, <1>5, <1>6, <3>1, BoundedTake
  <2>2. Bounded(t, d, g, n)
    BY <1>3, <2>1, Zenon DEF Bounded
  <2>3. x.coords \in Floor \ k.soft
    BY <1>1, <1>2, <1>5, <1>6, Zenon DEF Grounded
  <2>4. \A i \in 0 .. History - 1 :
           w.history[i] # M!Unrecorded => w.history[i] \in Floor \ k.soft
    BY <1>5, Zenon DEF Grounded
  <2>5. \A i \in 0 .. History - 1 :
           x.history[i] # M!Unrecorded => x.history[i] \in Floor \ k.soft
    BY <1>2, <2>3, <2>4
  <2>6. Grounded(c, k, t, d, x)
    BY <1>1, <1>5, <2>3, <2>5, GroundedTake
  <2> QED BY <1>1, <2>2, <2>6, Zenon DEF OfClient, t, g
<1>8. Seeing(c, k, d, S, server'.walker)
  <2>1. \A p \in S : p \in Players
    BY ServerFields
  <2>2. \A p \in S \ {c} : server'.walker[p].coords = server.walker[p].coords
    BY <1>1, <2>1
  <2>3. \A p \in S \ {c} : \A i \in 1 .. Len(<<>>) : <<>>[i] \notin MoveOf(p)
    OBVIOUS
  <2> HIDE DEF k, d, S
  <2> QED BY <1>5, <1>6, <2>2, <2>3, SeeingSend
<1>9. Itself(c, k, t, d, x, g, good)
  <2>1. good => u[1].after >= h.sent /\ u[1].after \in Nat
    <3> SUFFICES ASSUME good PROVE u[1].after >= h.sent /\ u[1].after \in Nat
      OBVIOUS
    <3>1. ~Strays(c, u[1], v)
      BY <1>1, Zenon DEF Straight
    <3>2. ~(u[1].after < h.sent)
      BY <1>2, <3>1 DEF Strays
    <3>3. u[1].after \in Nat
      BY <1>1, <1>6, AfterFacts
    <3> QED BY <1>4, <3>2, <3>3
  <2> HIDE DEF k, u, t, d, w, x, h, g, n, S, ok, good
  <2>2. Itself(c, k, t, d, x, h, good)
    BY <1>1, <1>2, <1>4, <1>5, <2>1, ItselfAccept
  <2> QED BY <1>3, <2>2, Zenon DEF Itself
<1>10. OfMatch(c)'
  <2> HIDE DEF k, t, d, x, g, S
  <2> QED BY <1>1, <1>5, <1>8, <1>9, Zenon DEF OfMatch, t, g
<1> QED BY <1>7, <1>10

\* The server throws c back: it holds on for c itself.
LEMMA MoverThrownBack ==
    ASSUME TypeOK, NEW c \in Clients, NEW v, MoveDone(c, v),
           NEW s \in Floor \ client[c].soft, v.back = {s},
           Joined(down'[c], down[c], Corrections(v), News),
           ThrownBack(v, server.walker[c]),
           OfClient(c), OfMatch(c)
    PROVE  OfClient(c)' /\ OfMatch(c)'
<1> DEFINE k == client[c]
           u == up[c]
           t == up'[c]
           d == down[c]
           e == down'[c]
           f == Corrections(v)
           w == server.walker[c]
           x == v.walker
           h == history.corrected[c]
           g == history'.corrected[c]
           n == history.moves
           S == server.players
           L == server.lives
           ok == Straight(c)
           good == Straight(c)'
<1>1. /\ Rest(t, u, Message) /\ u[1] \in Moves /\ Alive(c)
      /\ client'[c] = k
      /\ server'.players = S /\ server'.lives = L
      /\ server'.walker[c] = x
      /\ \A p \in Players : p # c => server'.walker[p] = server.walker[p]
      /\ history'.moves = n
      /\ g.got = h.got
      /\ v.back # {} => g.sent = h.sent + 1
      /\ c \notin history'.astray => ~Strays(c, u[1], v)
  BY Zenon DEF MoveDone
<1>2. x.coords = w.coords /\ x.history = w.history
  BY Zenon DEF ThrownBack
<1>3. g.got = h.got /\ g.sent = h.sent + 1
  BY <1>1
<1>4. /\ h.sent \in Nat /\ h.got \in Nat /\ n \in Nat
      /\ d \in Seq(News) /\ Len(d) \in Nat
  BY ClientFields, HistoryFields
<1>5. /\ Bounded(u, d, h, n) /\ Grounded(c, k, u, d, w)
      /\ Known(c, k, d, S, L)
      /\ Seeing(c, k, d, S, server.walker)
      /\ Itself(c, k, u, d, w, h, ok)
  BY Zenon DEF OfClient, OfMatch
<1>6. /\ f \in Seq(News) /\ Len(f) = 1
      /\ f[1] = [type |-> "MovementCorrection", at |-> s]
  BY CorrectionFacts
<1>7. /\ f # <<>> /\ f[Len(f)] \in Back /\ f[Len(f)].at = s
      /\ \A i \in 1 .. Len(f) : i = 1 /\ f[i] \in Back /\ f[i].at = s
      /\ \A i \in 1 .. Len(f) : \A p : /\ f[i] \notin MoveOf(p) /\ f[i] \notin HitOn(p)
                                       /\ f[i] \notin LeaveOf(p)
  <2> DEFINE m == f[1]
  <2>1. m.at = s /\ m.type = "MovementCorrection" /\ m \in News
    BY <1>6
  <2>2. m \in Back
    BY <2>1 DEF Back
  <2>3. \A p : m \notin MoveOf(p) /\ m \notin HitOn(p) /\ m \notin LeaveOf(p)
    BY <2>1 DEF MoveOf, HitOn, LeaveOf
  <2>4. f # <<>> /\ f[Len(f)] = m /\ \A i \in 1 .. Len(f) : i = 1 /\ f[i] = m
    <3>1. f \in Seq(News) /\ Len(f) = 1 /\ f[1] = m
      BY <1>6
    <3> HIDE DEF f, m
    <3> QED BY <3>1
  <2> HIDE DEF m
  <2> QED BY <2>1, <2>2, <2>3, <2>4
<1> HIDE DEF f
<1>8. Joined(e, d, f, News)
  BY DEF f
<1>9. OfClient(c)'
  <2>1. Upto(f, Back, Len(f)) = 1
    <3> DEFINE j == Len(f)
    <3>1. j \in Nat /\ 1 \in 1 .. j
      BY <1>6
    <3>2. f[1] \in Back /\ \A i \in 1 .. j : f[i] \in Back => i = 1
      BY <1>7, <3>1
    <3> HIDE DEF j
    <3>3. Upto(f, Back, j) = 1
      BY <3>1, <3>2, UptoFew
    <3> QED BY <3>3 DEF j
  <2>2. Bounded(t, e, g, n)
    <3> HIDE DEF u, t, d, e, h, g, n
    <3> QED BY <1>1, <1>3, <1>4, <1>5, <1>8, <2>1, BoundedCorrect
  <2>3. /\ x.coords \in Floor \ k.soft
        /\ \A i \in 0 .. History - 1 :
              x.history[i] # M!Unrecorded => x.history[i] \in Floor \ k.soft
    <3> HIDE DEF k, u, d, w, x
    <3> QED BY <1>2, <1>5, Zenon DEF Grounded
  <2>4. Grounded(c, k, t, d, x)
    <3> HIDE DEF k, u, t, d, w, x
    <3> QED BY <1>1, <1>5, <2>3, GroundedTake
  <2>5. /\ \A i \in 1 .. Len(f) : f[i] \in Back => f[i].at \in Floor \ k.soft
        /\ \A i \in 1 .. Len(f) : f[i] \notin MoveOf(c)
    BY <1>7
  <2>6. Grounded(c, k, t, e, x)
    <3> HIDE DEF k, t, d, e, x
    <3> QED BY <1>8, <2>4, <2>5, GroundedSend
  <2> HIDE DEF k, t, e, x, g, n
  <2> QED BY <1>1, <2>2, <2>6, Zenon DEF OfClient, t, e, g
<1>10. Known(c, k, e, S, L)
  <2>1. /\ \A p \in k.listed : p \in Players /\ k.seen[p].health \in Int
        /\ \A p \in S : p \in Players /\ L[p] \in Nat
    BY ClientFields, ServerFields
  <2>2. c \in S /\ L[c] > 0
    BY <1>1 DEF Alive
  <2>3. \A p, i : i \in 1 .. Len(f) => Upto(f, HitOn(p), i) = 0
    <3> SUFFICES ASSUME NEW p, NEW i \in 1 .. Len(f) PROVE Upto(f, HitOn(p), i) = 0
      OBVIOUS
    <3>1. i \in Nat /\ i = 1
      BY <1>6
    <3>2. \A j \in 1 .. i : f[j] \notin HitOn(p)
      BY <1>6, <1>7, <3>1
    <3> QED BY <3>1, <3>2, UptoFew
  <2>4. \A p : Upto(f, HitOn(p), Len(f)) = 0
    BY <1>6, <2>3
  <2>5. \A p \in S : p \in k.listed => L[p] = L[p] - Upto(f, HitOn(p), Len(f))
    BY <2>1, <2>4
  <2>6. \A i \in 1 .. Len(f) : L[c] - Upto(f, HitOn(c), i) > 0
    BY <2>1, <2>2, <2>3
  <2> HIDE DEF k, S, L
  <2>7. Sends(c, k, f, S, L, S, L)
    BY <1>7, <2>5, <2>6, Zenon DEF Sends
  <2> HIDE DEF d, e
  <2> QED BY <1>5, <1>8, <2>1, <2>2, <2>7, KnownSend
<1>11. Seeing(c, k, e, S, server'.walker)
  <2>1. \A p \in S : p \in Players
    BY ServerFields
  <2>2. \A p \in S \ {c} : server'.walker[p].coords = server.walker[p].coords
    BY <1>1, <2>1
  <2>3. \A p \in S \ {c} : \A i \in 1 .. Len(f) : f[i] \notin MoveOf(p)
    BY <1>7
  <2> HIDE DEF k, d, e, S
  <2> QED BY <1>5, <1>8, <2>2, <2>3, SeeingSend
<1>12. Itself(c, k, t, e, x, g, good)
  <2>1. good => x.coords = f[Len(f)].at
    <3> SUFFICES ASSUME good PROVE x.coords = f[Len(f)].at
      OBVIOUS
    <3>1. ~Strays(c, u[1], v)
      BY <1>1, Zenon DEF Straight
    <3>2. v.back = {x.coords}
      BY <3>1 DEF Strays
    <3> QED BY <1>7, <3>2
  <2>2. \A i \in 1 .. Len(u) : u[i] \in Moves => u[i].after \in Nat
    BY AfterFacts
  <2> HIDE DEF k, u, t, d, e, w, x, h, g, n, ok, good
  <2>3. h.got <= h.sent
    BY <1>4, <1>5, Settling
  <2> QED BY <1>1, <1>3, <1>4, <1>5, <1>7, <1>8, <2>1, <2>2, <2>3, ItselfRefuse
<1>13. OfMatch(c)'
  <2> HIDE DEF k, t, e, x, g, S, L
  <2> QED BY <1>1, <1>10, <1>11, <1>12, Zenon DEF OfMatch, t, e, g
<1> QED BY <1>9, <1>13

\* A move is accepted, and the others are told, or its player is thrown back.
LEMMA InvMove ==
    ASSUME Inv, NEW c \in Clients, HandleMove(c)
    PROVE  Inv'
<1>0. /\ TypeOK
      /\ \A p \in Players : Coords(p) \in Floor \ server.soft
      /\ \A d \in Clients : OfClient(d)
      /\ \A d \in Clients \cap server.players : OfMatch(d)
  BY Zenon DEF Inv
<1> DEFINE s == up[c][1].at
           w == server.walker[c]
<1>1. PICK v \in Verdicts(c, s) :
         /\ MoveDone(c, v) /\ down' = Told(c, s, v)
         /\ server' \in ServerType /\ up' \in [Clients -> Seq(Message)]
         /\ history' \in HistoryType /\ up[c][1] \in Message
  <2>1. OfClient(c)
    BY <1>0
  <2> QED BY <1>0, <2>1, MoveFacts
<1>2. /\ c \in server.players /\ client' = client
      /\ server'.players = server.players /\ server'.lives = server.lives
      /\ server'.soft = server.soft
      /\ server'.walker[c] = v.walker
      /\ \A p \in Players : p # c => server'.walker[p] = server.walker[p]
      /\ history'.moves = history.moves
      /\ \A d \in Clients : d # c => /\ up'[d] = up[d]
                                     /\ history'.corrected[d] = history.corrected[d]
                                     /\ d \in history'.astray <=> d \in history.astray
  BY <1>1, Zenon DEF MoveDone
<1>3. s \in Floor /\ c \in Players
  BY <1>1, MessageForms, Constants
<1>4. \/ Accepted(v, w, s) /\ s \in Floor \ server.soft
      \/ ThrownBack(v, w)
  BY <1>0, <1>1, <1>3, VerdictFacts
<1>5. OfClient(c) /\ OfMatch(c)
  BY <1>0, <1>2
<1>6. (\A p \in Players : Coords(p) \in Floor \ server.soft)'
  <2>1. v.walker.coords \in Floor \ server.soft
    <3>1. \/ v.walker.coords = s /\ s \in Floor \ server.soft
          \/ v.walker.coords = w.coords
      BY <1>4, Zenon DEF Accepted, ThrownBack
    <3> QED BY <1>0, <1>3, <3>1 DEF Coords
  <2> QED BY <1>0, <1>2, <2>1 DEF Coords
<1>7. \A p \in server.players : p \in Players
  BY <1>0, ServerFields
<1>8. ASSUME NEW d \in Clients, d # c, NEW f, Joined(down'[d], down[d], f, News), Quiet(f),
             \A i \in 1 .. Len(f) : f[i] \notin MoveOf(d),
             d \in server.players =>
                Seeing(d, client[d], down'[d], server.players, server'.walker)
      PROVE  OfClient(d)' /\ (d \in server.players => OfMatch(d)')
  <2>1. server'.walker[d] = server.walker[d]
    BY <1>2, <1>8, Constants
  <2>2. Reached(d, f)
    BY <1>2, <1>8, <2>1, Zenon DEF Reached
  <2>3. /\ OfClient(d)
        /\ d \in server.players => OfMatch(d)
        /\ d \in history'.astray <=> d \in history.astray
    BY <1>0, <1>2, <1>8
  <2> QED BY <1>0, <1>2, <1>8, <2>2, <2>3, QuietFacts
<1>9. CASE Accepted(v, w, s)
  <2> DEFINE m == [type |-> "OtherMove", who |-> c, at |-> s]
             f == <<m>>
  <2>1. v.back = {} /\ v.walker.coords = s
    BY <1>9, Zenon DEF Accepted
  <2>2. /\ f \in Seq(News) /\ f # <<>> /\ Len(f) = 1
        /\ f[Len(f)] \in MoveOf(c) /\ f[Len(f)].at = s
        /\ Quiet(f) /\ \A p : p # c => \A i \in 1 .. Len(f) : f[i] \notin MoveOf(p)
    <3>1. m \in News /\ m.type = "OtherMove" /\ m.who = c /\ m.at = s
      BY <1>3, NewsForms
    <3>2. /\ m \in MoveOf(c) /\ m \notin Back
          /\ \A p : m \notin HitOn(p) /\ m \notin LeaveOf(p)
          /\ \A p : p # c => m \notin MoveOf(p)
      BY <3>1, NewsFields
    <3> HIDE DEF m
    <3>3. f \in Seq(News) /\ Len(f) = 1 /\ f # <<>> /\ \A i \in 1 .. Len(f) : f[i] = m
      BY <3>1
    <3>4. f[Len(f)] = m
      BY <3>3
    <3>5. Quiet(f)
      BY <3>2, <3>3 DEF Quiet
    <3> QED BY <3>1, <3>2, <3>3, <3>4, <3>5
  <2>3. down' = SendTo(Players \ {c}, f)
    BY <1>1, <2>1 DEF Told
  <2> HIDE DEF m, f
  <2>4. /\ down' \in [Clients -> Seq(News)]
        /\ \A d \in Clients : \/ d \in Players \ {c} /\ d \in server.players
                                 /\ Joined(down'[d], down[d], f, News)
                              \/ ~(d \in Players \ {c} /\ d \in server.players)
                                 /\ down'[d] = down[d]
                                 /\ Joined(down'[d], down[d], <<>>, News)
    BY <1>0, <2>2, <2>3, SendFacts
  <2>5. OfClient(c)' /\ OfMatch(c)'
    <3>1. down'[c] = down[c]
      BY <2>4
    <3> QED BY <1>0, <1>1, <1>5, <1>9, <3>1, MoverAccepted
  <2>6. ASSUME NEW d \in Clients, d # c
        PROVE  OfClient(d)' /\ (d \in server.players => OfMatch(d)')
    <3>1. CASE d \in server.players
      <4>1. Joined(down'[d], down[d], f, News)
        BY <1>7, <2>4, <2>6, <3>1
      <4>2. Seeing(d, client[d], down'[d], server.players, server'.walker)
        <5>1. Seeing(d, client[d], down[d], server.players, server.walker)
          BY <1>0, <3>1, Zenon DEF OfMatch
        <5>2. \A p \in server.players \ {d} :
                 p # c => server'.walker[p].coords = server.walker[p].coords
          BY <1>2, <1>7
        <5>3. f[Len(f)].at = server'.walker[c].coords
          BY <1>2, <2>1, <2>2
        <5>4. \A p \in server.players \ {d} :
                 p # c => \A i \in 1 .. Len(f) : f[i] \notin MoveOf(p)
          BY <2>2
        <5>5. f # <<>> /\ f[Len(f)] \in MoveOf(c)
          BY <2>2
        <5>6. Moved(d, f, server.players, server.walker, server'.walker, c)
          BY <5>2, <5>3, <5>4, <5>5, Zenon DEF Moved
        <5> QED BY <4>1, <5>1, <5>6, SeeingMove
      <4>3. \A i \in 1 .. Len(f) : f[i] \notin MoveOf(d)
        BY <2>2, <2>6
      <4> QED BY <1>8, <2>2, <2>6, <4>1, <4>2, <4>3
    <3>2. CASE d \notin server.players
      <4>1. Joined(down'[d], down[d], <<>>, News)
        BY <2>4, <3>2
      <4>2. Quiet(<<>>) /\ \A i \in 1 .. Len(<<>>) : <<>>[i] \notin MoveOf(d)
        BY DEF Quiet
      <4> QED BY <1>8, <2>6, <3>2, <4>1, <4>2
    <3> QED BY <3>1, <3>2
  <2>7. TypeOK'
    BY <1>0, <1>1, <1>2, <2>4, TypeParts, TypePartsNext
  <2> QED BY <1>2, <1>6, <2>5, <2>6, <2>7, Zenon DEF Inv
<1>10. CASE ThrownBack(v, w)
  <2>1. PICK t : /\ v.back = {t}
                 /\ t = w.coords \/ \E i \in 0 .. History - 1 :
                                       t = w.history[i] /\ t # M!Unrecorded
    BY <1>10, Zenon DEF ThrownBack
  <2>2. t \in Floor \ client[c].soft /\ t \in Floor
    <3>1. /\ w.coords \in Floor \ client[c].soft
          /\ \A i \in 0 .. History - 1 :
                w.history[i] # M!Unrecorded => w.history[i] \in Floor \ client[c].soft
      BY <1>5, Zenon DEF OfClient, Grounded
    <3> QED BY <2>1, <3>1
  <2>3. down' = SendTo({c}, Corrections(v))
    BY <1>1, <2>1 DEF Told
  <2>4. Corrections(v) \in Seq(News)
    BY <2>1, <2>2, CorrectionFacts
  <2>5. /\ down' \in [Clients -> Seq(News)]
        /\ \A d \in Clients : \/ d \in {c} /\ d \in server.players
                                 /\ Joined(down'[d], down[d], Corrections(v), News)
                              \/ ~(d \in {c} /\ d \in server.players)
                                 /\ down'[d] = down[d]
                                 /\ Joined(down'[d], down[d], <<>>, News)
    BY <1>0, <2>3, <2>4, SendFacts
  <2>6. OfClient(c)' /\ OfMatch(c)'
    <3>1. Joined(down'[c], down[c], Corrections(v), News)
      BY <1>2, <2>5
    <3> QED BY <1>0, <1>1, <1>5, <1>10, <2>1, <2>2, <3>1, MoverThrownBack
  <2>7. ASSUME NEW d \in Clients, d # c
        PROVE  OfClient(d)' /\ (d \in server.players => OfMatch(d)')
    <3>1. Joined(down'[d], down[d], <<>>, News)
      BY <2>5, <2>7
    <3>2. Quiet(<<>>) /\ \A p, i : i \in 1 .. Len(<<>>) => <<>>[i] \notin MoveOf(p)
      BY DEF Quiet
    <3>3. ASSUME d \in server.players
          PROVE  Seeing(d, client[d], down'[d], server.players, server'.walker)
      <4>1. Seeing(d, client[d], down[d], server.players, server.walker)
        BY <1>0, <3>3, Zenon DEF OfMatch
      <4>2. \A p \in server.players \ {d} :
               server'.walker[p].coords = server.walker[p].coords
        BY <1>2, <1>7, <1>10 DEF ThrownBack
      <4>3. \A p \in server.players \ {d} : \A i \in 1 .. Len(<<>>) : <<>>[i] \notin MoveOf(p)
        BY <3>2
      <4> QED BY <3>1, <4>1, <4>2, <4>3, SeeingSend
    <3> QED BY <1>8, <2>7, <3>1, <3>2, <3>3
  <2>8. TypeOK'
    BY <1>0, <1>1, <1>2, <2>5, TypeParts, TypePartsNext
  <2> QED BY <1>2, <1>6, <2>6, <2>7, <2>8, Zenon DEF Inv
<1> QED BY <1>4, <1>9, <1>10

-----------------------------------------------------------------------------
(* A player leaves.                                                        *)

\* The messages about p, who leaves the bombs left behind.
Parting(p, left) == <<[type |-> "OtherLeave", who |-> p]>> \o
                    SetToSeq({[type |-> "OtherBombPlace", bomb |-> a] : a \in left})

\* One of them tells that he is gone, the others of a bomb.
LEMMA PartingFacts ==
    ASSUME NEW p \in Players, NEW b \in Bomb, NEW left \in {{}, {b}}
    PROVE  /\ Parting(p, left) \in Seq(News)
           /\ \A i \in 1 .. Len(Parting(p, left)) :
                 \/ Parting(p, left)[i] \in LeaveOf(p)
                 \/ Parting(p, left)[i] \in News
                       /\ Parting(p, left)[i].type = "OtherBombPlace"
           /\ \E i \in 1 .. Len(Parting(p, left)) : Parting(p, left)[i] \in LeaveOf(p)
           /\ SetToSeq(left) \in Seq(Bomb)
<1> DEFINE m == [type |-> "OtherLeave", who |-> p]
           n == [type |-> "OtherBombPlace", bomb |-> b]
           T == {[type |-> "OtherBombPlace", bomb |-> a] : a \in left}
           s == <<m>>
           t == SetToSeq(T)
           f == Parting(p, left)
<1>1. m \in News /\ m \in LeaveOf(p)
  BY NewsForms DEF LeaveOf
<1>2. n \in News /\ n.type = "OtherBombPlace"
  BY NewsForms
<1>3. T \in {{}, {n}}
  OBVIOUS
<1>4. f = s \o t
  BY DEF Parting
<1> HIDE DEF m, n, T, f
<1>5. T \in SUBSET News /\ IsFiniteSet(T)
  <2>1. IsFiniteSet({}) /\ IsFiniteSet({n})
    BY FS_EmptySet, FS_Singleton
  <2>2. CASE T = {}
    BY <2>1, <2>2
  <2>3. CASE T = {n}
    BY <1>2, <2>1, <2>3
  <2> QED BY <1>3, <2>2, <2>3
<1>6. t \in Seq(News) /\ ToSet(t) = T
  BY <1>5, SetToSeqFacts
<1>7. s \in Seq(News) /\ Len(s) = 1 /\ s[1] = m
  BY <1>1
<1> HIDE DEF s, t
<1>8. \A i \in 1 .. Len(t) : t[i] = n
  <2> SUFFICES ASSUME NEW i \in 1 .. Len(t) PROVE t[i] = n
    OBVIOUS
  <2>1. t[i] \in T
    BY <1>6 DEF ToSet
  <2> QED BY <1>3, <2>1
<1>9. Joined(f, s, t, News)
  BY <1>4, <1>6, <1>7 DEF Joined
<1>10. \A j \in 1 .. Len(f) : \/ \E i \in 1 .. Len(s) : f[j] = s[i]
                              \/ \E i \in 1 .. Len(t) : f[j] = t[i]
  BY <1>9, EachOf
<1>11. \A j \in 1 .. Len(f) : \/ f[j] \in LeaveOf(p)
                              \/ f[j] \in News /\ f[j].type = "OtherBombPlace"
  <2>1. \A i \in 1 .. Len(s) : s[i] = m
    BY <1>7
  <2>2. ASSUME NEW j \in 1 .. Len(f) PROVE f[j] = m \/ f[j] = n
    BY <1>8, <1>10, <2>1
  <2> QED BY <1>1, <1>2, <2>2
<1>12. f \in Seq(News) /\ 1 \in 1 .. Len(f) /\ f[1] = m
  <2>1. /\ f \in Seq(News)
        /\ \A i \in 1 .. Len(s) : i \in 1 .. Len(f) /\ f[i] = s[i]
    BY <1>9, PlacesConcat
  <2> QED BY <1>7, <2>1
<1>13. SetToSeq(left) \in Seq(Bomb)
  <2>1. IsFiniteSet({}) /\ IsFiniteSet({b})
    BY FS_EmptySet, FS_Singleton
  <2>2. left \in SUBSET Bomb /\ (left = {} \/ left = {b})
    OBVIOUS
  <2>3. IsFiniteSet(left)
    BY <2>1, <2>2
  <2> QED BY <2>2, <2>3, SetToSeqFacts
<1>14. \E i \in 1 .. Len(f) : f[i] \in LeaveOf(p)
  BY <1>1, <1>12
<1> QED BY <1>11, <1>12, <1>13, <1>14 DEF f

\* A player leaves, and the others are told.
LEMMA InvLeave ==
    ASSUME Inv, NEW p \in Players, Leave(p)
    PROVE  Inv'
<1>0. /\ TypeOK
      /\ \A q \in Players : Coords(q) \in Floor \ server.soft
      /\ \A d \in Clients : OfClient(d)
      /\ \A d \in Clients \cap server.players : OfMatch(d)
  BY Zenon DEF Inv
<1> DEFINE b == [at |-> Coords(p), atomic |-> TRUE]
           left == IF Alive(p) THEN {b} ELSE {}
           f == Parting(p, left)
           over == Cardinality(server.players) = 2
           S == server.players
           L == server.lives
<1>1. /\ server' = [server EXCEPT !.players = S \ {p},
                                  !.bombs = server.bombs \o SetToSeq(left),
                                  !.over = over]
      /\ down' = SendTo(Players \ {p}, f)
      /\ history' = [history EXCEPT !.bombs = history.bombs \cup left]
      /\ client' = client /\ up' = up
  BY DEF Leave, Parting
<1>2. b \in Bomb /\ left \in {{}, {b}}
  BY <1>0 DEF Bomb
<1> HIDE DEF b, left
<1>3. /\ f \in Seq(News)
      /\ \A i \in 1 .. Len(f) : \/ f[i] \in LeaveOf(p)
                                \/ f[i] \in News /\ f[i].type = "OtherBombPlace"
      /\ \E i \in 1 .. Len(f) : f[i] \in LeaveOf(p)
      /\ SetToSeq(left) \in Seq(Bomb)
  BY <1>2, PartingFacts
<1> HIDE DEF f
<1>4. /\ server' \in ServerType
      /\ server'.players = S \ {p} /\ server'.lives = L
      /\ server'.walker = server.walker /\ server'.soft = server.soft
  <2> DEFINE bombs == server.bombs \o SetToSeq(left)
  <2>1. server \in ServerType /\ server.bombs \in Seq(Bomb)
    BY <1>0, TypeParts, ServerFields
  <2>2. bombs \in Seq(Bomb)
    BY <1>3, <2>1
  <2>3. server' = [server EXCEPT !.players = S \ {p}, !.bombs = bombs, !.over = over]
    BY <1>1
  <2>4. over \in BOOLEAN
    OBVIOUS
  <2> HIDE DEF bombs, over
  <2> QED BY <2>1, <2>2, <2>3, <2>4 DEF ServerType
<1>5. /\ history' \in HistoryType
      /\ history'.moves = history.moves /\ history'.corrected = history.corrected
      /\ history'.astray = history.astray
  <2>1. history \in HistoryType /\ left \in SUBSET Bomb
    BY <1>0, <1>2, TypeParts
  <2> QED BY <1>1, <2>1 DEF HistoryType
<1>6. /\ down' \in [Clients -> Seq(News)]
      /\ \A d \in Clients : \/ d \in Players \ {p} /\ d \in server.players
                               /\ Joined(down'[d], down[d], f, News)
                            \/ ~(d \in Players \ {p} /\ d \in server.players)
                               /\ down'[d] = down[d]
                               /\ Joined(down'[d], down[d], <<>>, News)
  BY <1>0, <1>1, <1>3, SendFacts
<1>7. TypeOK'
  BY <1>0, <1>1, <1>4, <1>5, <1>6, TypeParts, TypePartsNext
<1>8. (\A q \in Players : Coords(q) \in Floor \ server.soft)'
  BY <1>0, <1>4 DEF Coords
<1>9. /\ \A i \in 1 .. Len(f) : f[i] \notin Back
      /\ \A i \in 1 .. Len(f) : \A q : f[i] \notin MoveOf(q) /\ f[i] \notin HitOn(q)
      /\ \A i \in 1 .. Len(f) : \A q : q # p => f[i] \notin LeaveOf(q)
  <2> SUFFICES ASSUME NEW i \in 1 .. Len(f)
               PROVE  /\ f[i] \notin Back
                      /\ \A q : f[i] \notin MoveOf(q) /\ f[i] \notin HitOn(q)
                      /\ \A q : q # p => f[i] \notin LeaveOf(q)
    OBVIOUS
  <2> DEFINE m == f[i]
  <2>1. \/ m \in LeaveOf(p)
        \/ m \in News /\ m.type = "OtherBombPlace"
    BY <1>3
  <2> HIDE DEF m
  <2>2. m \in News /\ (m.type = "OtherBombPlace" \/ (m.type = "OtherLeave" /\ m.who = p))
    BY <2>1 DEF LeaveOf
  <2>3. /\ m \notin Back
        /\ \A q : m \notin MoveOf(q) /\ m \notin HitOn(q)
        /\ \A q : q # p => m \notin LeaveOf(q)
    BY <2>2, NewsFields
  <2> QED BY <2>3 DEF m
<1>10. ASSUME NEW d \in Clients, NEW g, g \in {f, <<>>}, Joined(down'[d], down[d], g, News)
       PROVE  Reached(d, g) /\ OfClient(d)'
  <2>1. Reached(d, g)
    BY <1>1, <1>4, <1>5, <1>10, Zenon DEF Reached
  <2>2. \A i \in 1 .. Len(g) : g[i] \notin Back /\ g[i] \notin MoveOf(d)
    BY <1>9, <1>10
  <2>3. OfClient(d)
    BY <1>0
  <2> QED BY <2>1, <2>2, <2>3, OfClientReached
<1>11. \A d \in Clients : OfClient(d)'
  BY <1>6, <1>10
<1>12. ASSUME NEW d \in Clients, d \in server'.players PROVE OfMatch(d)'
  <2> DEFINE k == client[d]
  <2>1. /\ d \in S /\ d # p /\ d \in Players
        /\ k.listed \in SUBSET Players
        /\ \A q \in k.listed : k.seen[q].health \in Int
        /\ \A q \in S : q \in Players /\ L[q] \in Nat
    BY <1>0, <1>4, <1>12, ClientFields, ServerFields, Constants
  <2>2. Joined(down'[d], down[d], f, News)
    BY <1>6, <2>1
  <2>3. OfMatch(d) /\ Seeing(d, k, down[d], S, server.walker)
    BY <1>0, <2>1, Zenon DEF OfMatch
  <2>4. Sends(d, k, f, S, L, server'.players, server'.lives)
    <3> DEFINE R == S \ {p}
    <3>1. Len(f) \in Nat
      BY <1>3
    <3>2. \A q : Upto(f, HitOn(q), Len(f)) = 0
      BY <1>9, <3>1, CountNone
    <3>3. \A q \in R : q \in S /\ q # p
      OBVIOUS
    <3>4. \A q \in R : q \in k.listed => L[q] = L[q] - Upto(f, HitOn(q), Len(f))
      BY <2>1, <3>2, <3>3
    <3>5. \A q \in S : q \notin R => \E i \in 1 .. Len(f) : f[i] \in LeaveOf(q)
      BY <1>3
    <3>6. \A i \in 1 .. Len(f) : /\ \A q \in k.listed : f[i] \notin HitOn(q)
                                 /\ \A q \in R : f[i] \notin LeaveOf(q)
                                 /\ f[i] \notin Back
      BY <1>9, <3>3
    <3> HIDE DEF R
    <3>7. Sends(d, k, f, S, L, R, L)
      BY <3>3, <3>4, <3>5, <3>6, Zenon DEF Sends
    <3> QED BY <1>4, <3>7 DEF R
  <2>5. Seeing(d, k, down'[d], server'.players, server'.walker)
    <3>1. \A q \in server'.players : q \in S
      BY <1>4
    <3>2. \A q \in server'.players \ {d} : \A i \in 1 .. Len(f) : f[i] \notin MoveOf(q)
      BY <1>9
    <3>3. \A q \in server'.players \ {d} : server'.walker[q].coords = server.walker[q].coords
      BY <1>4
    <3> HIDE DEF k, S
    <3> QED BY <2>2, <2>3, <3>1, <3>2, <3>3, SeeingSend
  <2>6. Straight(d)' => Straight(d)
    BY <1>4, <1>5, <2>1 DEF Straight, Alive
  <2>7. Reached(d, f)
    BY <1>10, <2>2
  <2>8. \A i \in 1 .. Len(f) : f[i] \notin Back
    BY <1>9
  <2> QED BY <2>1, <2>3, <2>4, <2>5, <2>6, <2>7, <2>8, OfMatchReached
<1> QED BY <1>7, <1>8, <1>11, <1>12, Zenon DEF Inv

-----------------------------------------------------------------------------
(* A bomb goes off at the server.                                          *)

\* The messages to those who are hit and have the lives that are left.
Blows(hit, lives) ==
    SetToSeq({[type |-> "GotHit", who |-> p, lives |-> lives[p]] : p \in hit})

\* There is one message about each of them, in whatever order.
LEMMA BlowsFacts ==
    ASSUME NEW hit \in SUBSET Players, NEW lives \in [Players -> 0 .. Lives]
    PROVE  /\ Blows(hit, lives) \in Seq(News)
           /\ \A i \in 1 .. Len(Blows(hit, lives)) :
                 \E p \in hit : Blows(hit, lives)[i] =
                                   [type |-> "GotHit", who |-> p, lives |-> lives[p]]
           /\ \A p \in hit : \E i \in 1 .. Len(Blows(hit, lives)) :
                 Blows(hit, lives)[i] = [type |-> "GotHit", who |-> p, lives |-> lives[p]]
           /\ Once(Blows(hit, lives))
<1> DEFINE m == [p \in hit |-> [type |-> "GotHit", who |-> p, lives |-> lives[p]]]
           T == {[type |-> "GotHit", who |-> p, lives |-> lives[p]] : p \in hit}
           f == SetToSeq(T)
<1>1. \A p \in hit : m[p] \in News /\ m[p] \in T
  <2> SUFFICES ASSUME NEW p \in hit PROVE m[p] \in News /\ m[p] \in T
    OBVIOUS
  <2>1. p \in Players /\ lives[p] \in 0 .. Lives
    OBVIOUS
  <2> QED BY <2>1, NewsForms
<1>2. \A x \in T : \E p \in hit : x = m[p]
  OBVIOUS
<1>3. \A p \in hit : m[p] = [type |-> "GotHit", who |-> p, lives |-> lives[p]]
  OBVIOUS
<1>4. DOMAIN m = hit /\ m = [p \in hit |-> m[p]]
  OBVIOUS
<1>5. f = Blows(hit, lives)
  BY DEF Blows
<1> HIDE DEF m, T, f
<1>6. IsFiniteSet(T)
  <2>1. IsFiniteSet(hit)
    BY Constants, FS_Subset
  <2>2. m \in Surjection(hit, T)
    BY <1>1, <1>2, <1>4 DEF Surjection
  <2> QED BY <2>1, <2>2, FS_Surjection
<1>7. T \in SUBSET News
  BY <1>1, <1>2
<1>8. f \in Seq(News) /\ ToSet(f) = T /\ Once(f)
  BY <1>6, <1>7, SetToSeqFacts, Zenon DEF f
<1>9. \A i \in 1 .. Len(f) : \E p \in hit : f[i] = m[p]
  <2>1. \A i \in 1 .. Len(f) : f[i] \in T
    BY <1>8 DEF ToSet
  <2> QED BY <1>2, <2>1
<1>10. \A p \in hit : \E i \in 1 .. Len(f) : f[i] = m[p]
  <2>1. \A x \in T : \E i \in 1 .. Len(f) : f[i] = x
    BY <1>8 DEF ToSet
  <2> QED BY <1>1, <2>1
<1>11. \A i \in 1 .. Len(f) :
          \E p \in hit : f[i] = [type |-> "GotHit", who |-> p, lives |-> lives[p]]
  BY <1>3, <1>9
<1>12. \A p \in hit : \E i \in 1 .. Len(f) :
          f[i] = [type |-> "GotHit", who |-> p, lives |-> lives[p]]
  BY <1>3, <1>10
<1> QED BY <1>5, <1>8, <1>11, <1>12

\* Up to a message about p one is about p; in all, one is if p is hit.
Reported(f, hit, lives, p) ==
    /\ Upto(f, HitOn(p), Len(f)) = IF p \in hit THEN 1 ELSE 0
    /\ \A i \in 1 .. Len(f) :
          f[i] \in HitOn(p) => /\ p \in hit /\ f[i].lives = lives[p]
                              /\ Upto(f, HitOn(p), i) = 1
    /\ \A i \in 1 .. Len(f) : f[i] \in News /\ f[i].type = "GotHit"

\* Who is hit is told of one hit, and nobody else of any.
LEMMA BlowsCount ==
    ASSUME NEW hit \in SUBSET Players, NEW lives \in [Players -> 0 .. Lives], NEW p
    PROVE  Reported(Blows(hit, lives), hit, lives, p)
<1> DEFINE A == HitOn(p)
           m == [type |-> "GotHit", who |-> p, lives |-> lives[p]]
           f == Blows(hit, lives)
<1>1. /\ f \in Seq(News)
      /\ \A i \in 1 .. Len(f) :
            \E q \in hit : f[i] = [type |-> "GotHit", who |-> q, lives |-> lives[q]]
      /\ \A q \in hit : \E i \in 1 .. Len(f) :
            f[i] = [type |-> "GotHit", who |-> q, lives |-> lives[q]]
      /\ Once(f)
  BY BlowsFacts
<1>2. ASSUME NEW i \in 1 .. Len(f)
      PROVE  /\ f[i] \in A <=> p \in hit /\ f[i] = m
             /\ f[i] \in News /\ f[i].type = "GotHit"
             /\ f[i] \in A => f[i].lives = lives[p]
  <2> DEFINE x == f[i]
  <2>1. PICK q \in hit : x = [type |-> "GotHit", who |-> q, lives |-> lives[q]]
    BY <1>1
  <2>2. x \in News
    BY <1>1
  <2> HIDE DEF x
  <2>3. x.type = "GotHit" /\ x.who = q /\ x.lives = lives[q]
    BY <2>1
  <2>4. x \in A <=> q = p
    BY <2>2, <2>3, NewsFields
  <2>5. m.who = p /\ m.lives = lives[p]
    OBVIOUS
  <2>6. q = p => x = m
    BY <2>1
  <2> HIDE DEF m, A
  <2>7. x = m => q = p
    BY <2>3, <2>5
  <2>8. x \in A <=> p \in hit /\ x = m
    BY <2>4, <2>6, <2>7
  <2> QED BY <2>2, <2>3, <2>4, <2>8 DEF x
<1> HIDE DEF A, m, f
<1>3. \A i, j \in 1 .. Len(f) : f[i] \in A /\ f[j] \in A => i = j
  BY <1>1, <1>2 DEF Once
<1>4. Len(f) \in Nat
  BY <1>1
<1>5. ASSUME NEW n \in 0 .. Len(f), NEW i \in 1 .. n, f[i] \in A
      PROVE  Upto(f, A, n) = 1
  <2>1. n \in Nat /\ i \in 1 .. Len(f)
    BY <1>4
  <2>2. \A j \in 1 .. n : j \in 1 .. Len(f)
    BY <1>4
  <2>3. \A j \in 1 .. n : f[j] \in A => j = i
    BY <1>3, <1>5, <2>1, <2>2
  <2> QED BY <1>5, <2>1, <2>3, UptoFew
<1>6. \A i \in 1 .. Len(f) : f[i] \in A => Upto(f, A, i) = 1
  <2> SUFFICES ASSUME NEW i \in 1 .. Len(f), f[i] \in A PROVE Upto(f, A, i) = 1
    OBVIOUS
  <2>1. i \in 0 .. Len(f) /\ i \in 1 .. i
    BY <1>4
  <2> QED BY <1>5, <2>1
<1>7. Upto(f, A, Len(f)) = IF p \in hit THEN 1 ELSE 0
  <2>1. CASE p \in hit
    <3>1. PICK i \in 1 .. Len(f) : f[i] = m
      BY <1>1, <2>1 DEF m
    <3>2. f[i] \in A
      BY <1>2, <2>1, <3>1
    <3>3. Len(f) \in 0 .. Len(f)
      BY <1>4
    <3>4. Upto(f, A, Len(f)) = 1
      BY <1>5, <3>2, <3>3
    <3> QED BY <2>1, <3>4
  <2>2. CASE p \notin hit
    <3>1. \A i \in 1 .. Len(f) : f[i] \notin A
      BY <1>2, <2>2
    <3>2. Upto(f, A, Len(f)) = 0
      BY <1>4, <3>1, CountNone
    <3> QED BY <2>2, <3>2
  <2> QED BY <2>1, <2>2
<1>8. \A i \in 1 .. Len(f) :
         /\ f[i] \in A => p \in hit /\ f[i].lives = lives[p]
         /\ f[i] \in News /\ f[i].type = "GotHit"
  BY <1>2
<1> QED BY <1>6, <1>7, <1>8, Zenon DEF Reported, A, f

\* The front bomb goes off, and all who are connected are told who is hit.
LEMMA InvExplode ==
    ASSUME Inv, Explode
    PROVE  Inv'
<1>0. /\ TypeOK
      /\ \A p \in Players : Coords(p) \in Floor \ server.soft
      /\ \A d \in Clients : OfClient(d)
      /\ \A d \in Clients \cap server.players : OfMatch(d)
  BY Zenon DEF Inv
<1> DEFINE b == Head(server.bombs)
           S == server.players
           L == server.lives
<1>1. PICK immune \in SUBSET {p \in Exposed(b) : L[p] < Lives} :
         LET hit   == Exposed(b) \ immune
             lives == [p \in Players |-> L[p] - IF p \in hit THEN 1 ELSE 0]
         IN  /\ server' = [server EXCEPT
                   !.bombs = Tail(server.bombs), !.lives = lives,
                   !.soft = Boomed(server.soft, b),
                   !.over = Cardinality({p \in S : lives[p] > 0}) < 2]
             /\ down' = SendTo(Players, Blows(hit, lives))
  BY Zenon DEF Explode, Blows
<1>2. server.bombs # <<>> /\ client' = client /\ up' = up /\ history' = history
  BY DEF Explode
<1> DEFINE hit == Exposed(b) \ immune
           X == [p \in Players |-> L[p] - IF p \in hit THEN 1 ELSE 0]
           f == Blows(hit, X)
           soft == Boomed(server.soft, b)
           over == Cardinality({p \in S : X[p] > 0}) < 2
           bombs == Tail(server.bombs)
<1>3. /\ server \in ServerType /\ server.bombs \in Seq(Bomb) /\ server.soft \in SUBSET Soft
      /\ S \in SUBSET Players /\ L \in [Players -> 0 .. Lives]
      /\ \A p \in Players : L[p] \in 0 .. Lives /\ L[p] \in Nat
      /\ \A p \in S : p \in Players
      /\ Lives \in Nat
  BY <1>0, TypeParts, ServerFields, Constants
<1>4. hit \in SUBSET S /\ \A p \in hit : L[p] > 0
  BY DEF Exposed, Alive
<1>5. /\ server' = [server EXCEPT !.bombs = bombs, !.lives = X, !.soft = soft, !.over = over]
      /\ down' = SendTo(Players, f)
  BY <1>1
<1> HIDE DEF hit
<1>6. /\ X \in [Players -> 0 .. Lives]
      /\ \A p \in Players : /\ p \in hit => X[p] = L[p] - 1
                            /\ p \notin hit => X[p] = L[p]
  <2>1. ASSUME NEW p \in Players
        PROVE  /\ X[p] \in 0 .. Lives
               /\ p \in hit => X[p] = L[p] - 1
               /\ p \notin hit => X[p] = L[p]
    <3>1. CASE p \in hit
      <4>1. X[p] = L[p] - 1
        BY <3>1
      <4>2. L[p] \in 0 .. Lives /\ L[p] > 0
        BY <1>3, <1>4, <3>1
      <4> HIDE DEF X
      <4> QED BY <1>3, <3>1, <4>1, <4>2
    <3>2. CASE p \notin hit
      <4>1. X[p] = L[p]
        BY <1>3, <3>2
      <4> HIDE DEF X
      <4> QED BY <1>3, <3>2, <4>1
    <3> QED BY <3>1, <3>2
  <2>2. DOMAIN X = Players /\ X = [p \in Players |-> X[p]]
    OBVIOUS
  <2> HIDE DEF X
  <2> QED BY <2>1, <2>2
<1>7. bombs \in Seq(Bomb) /\ soft \in SUBSET Soft /\ soft \subseteq server.soft
  BY <1>2, <1>3 DEF Boomed
<1>8. over \in BOOLEAN
  OBVIOUS
<1> HIDE DEF X, soft, over, bombs
<1>9. /\ server' \in ServerType
      /\ server'.players = S /\ server'.lives = X
      /\ server'.walker = server.walker /\ server'.soft = soft
  BY <1>3, <1>5, <1>6, <1>7, <1>8 DEF ServerType
<1>10. hit \in SUBSET Players
  BY <1>3, <1>4
<1>11. f \in Seq(News)
  BY <1>6, <1>10, BlowsFacts
<1>12. ASSUME NEW p
       PROVE  /\ Upto(f, HitOn(p), Len(f)) = IF p \in hit THEN 1 ELSE 0
              /\ \A i \in 1 .. Len(f) :
                    f[i] \in HitOn(p) => /\ p \in hit /\ f[i].lives = X[p]
                                        /\ Upto(f, HitOn(p), i) = 1
              /\ \A i \in 1 .. Len(f) : f[i] \in News /\ f[i].type = "GotHit"
  <2>1. Reported(f, hit, X, p)
    BY <1>6, <1>10, BlowsCount
  <2> HIDE DEF f
  <2> QED BY <2>1, Zenon DEF Reported
<1> HIDE DEF f
<1>13. /\ down' \in [Clients -> Seq(News)]
       /\ \A d \in Clients : \/ d \in Players /\ d \in server.players
                                /\ Joined(down'[d], down[d], f, News)
                             \/ ~(d \in Players /\ d \in server.players)
                                /\ down'[d] = down[d]
                                /\ Joined(down'[d], down[d], <<>>, News)
  BY <1>0, <1>5, <1>11, SendFacts
<1>14. TypeOK'
  BY <1>0, <1>2, <1>9, <1>13, TypeParts, TypePartsNext
<1>15. (\A p \in Players : Coords(p) \in Floor \ server.soft)'
  BY <1>0, <1>7, <1>9 DEF Coords
<1>16. \A i \in 1 .. Len(f) : /\ f[i] \notin Back
                              /\ \A p : f[i] \notin MoveOf(p) /\ f[i] \notin LeaveOf(p)
  <2> SUFFICES ASSUME NEW i \in 1 .. Len(f)
               PROVE  /\ f[i] \notin Back
                      /\ \A p : f[i] \notin MoveOf(p) /\ f[i] \notin LeaveOf(p)
    OBVIOUS
  <2> DEFINE m == f[i]
  <2>1. m \in News /\ m.type = "GotHit"
    BY <1>12
  <2> HIDE DEF m
  <2>2. m \notin Back /\ \A p : m \notin MoveOf(p) /\ m \notin LeaveOf(p)
    BY <2>1, NewsFields
  <2> QED BY <2>2 DEF m
<1>17. ASSUME NEW d \in Clients, NEW g, g \in {f, <<>>}, Joined(down'[d], down[d], g, News)
       PROVE  Reached(d, g) /\ OfClient(d)'
  <2>1. Reached(d, g)
    BY <1>2, <1>9, <1>17, Zenon DEF Reached
  <2>2. \A i \in 1 .. Len(g) : g[i] \notin Back /\ g[i] \notin MoveOf(d)
    BY <1>16, <1>17
  <2>3. OfClient(d)
    BY <1>0
  <2> QED BY <2>1, <2>2, <2>3, OfClientReached
<1>18. \A d \in Clients : OfClient(d)'
  BY <1>13, <1>17
<1>19. ASSUME NEW d \in Clients, d \in S PROVE OfMatch(d)'
  <2> DEFINE k == client[d]
  <2>1. /\ d \in Players
        /\ \A p \in k.listed : p \in Players /\ k.seen[p].health \in Int
        /\ \A p \in S : L[p] \in Nat
    BY <1>0, <1>3, ClientFields, Constants
  <2>2. Joined(down'[d], down[d], f, News)
    BY <1>13, <1>19, <2>1
  <2>3. OfMatch(d) /\ Seeing(d, k, down[d], S, server.walker)
    BY <1>0, <1>19, Zenon DEF OfMatch
  <2>4. Sends(d, k, f, S, L, S, X)
    <3>1. ASSUME NEW p \in S PROVE X[p] = L[p] - Upto(f, HitOn(p), Len(f))
      <4>1. p \in Players /\ Upto(f, HitOn(p), Len(f)) = IF p \in hit THEN 1 ELSE 0
        BY <1>3, <1>12
      <4> DEFINE x == Upto(f, HitOn(p), Len(f))
                 y == L[p]
                 z == X[p]
      <4>2. /\ y \in Nat
            /\ p \in hit => z = y - 1 /\ x = 1
            /\ p \notin hit => z = y /\ x = 0
        BY <1>3, <1>6, <4>1
      <4> HIDE DEF x, y, z
      <4>3. z = y - x
        BY <4>2
      <4> QED BY <4>3 DEF x, y, z
    <3>2. \A p \in S : L[p] = 0 => X[p] = 0
      <4> SUFFICES ASSUME NEW p \in S, L[p] = 0 PROVE X[p] = 0
        OBVIOUS
      <4>1. p \notin hit
        BY <1>4
      <4> QED BY <1>3, <1>6, <4>1
    <3>3. ASSUME NEW i \in 1 .. Len(f), NEW p, f[i] \in HitOn(p)
          PROVE  p \in S /\ f[i].lives = L[p] - Upto(f, HitOn(p), i)
      <4>1. p \in hit /\ f[i].lives = X[p]
        BY <1>12, <3>3
      <4>2. Upto(f, HitOn(p), i) = 1
        BY <1>12, <3>3
      <4>3. p \in S /\ X[p] = L[p] - 1
        BY <1>4, <1>6, <1>10, <4>1
      <4> QED BY <4>1, <4>2, <4>3
    <3> HIDE DEF k, S, L
    <3> QED BY <1>16, <3>1, <3>2, <3>3, Zenon DEF Sends
  <2>5. Seeing(d, k, down'[d], S, server'.walker)
    <3>1. \A p \in S \ {d} : \A i \in 1 .. Len(f) : f[i] \notin MoveOf(p)
      BY <1>16
    <3>2. \A p \in S \ {d} : server'.walker[p].coords = server.walker[p].coords
      BY <1>9
    <3> HIDE DEF k, S
    <3> QED BY <2>2, <2>3, <3>1, <3>2, SeeingSend
  <2>6. Straight(d)' => Straight(d)
    <3> SUFFICES ASSUME Alive(d)' PROVE Alive(d)
      BY <1>2 DEF Straight
    <3>1. X[d] > 0
      BY <1>9 DEF Alive
    <3>2. L[d] > 0
      BY <1>3, <1>6, <2>1, <3>1
    <3> QED BY <1>19, <3>2 DEF Alive
  <2>7. Reached(d, f)
    BY <1>17, <2>2
  <2>8. \A i \in 1 .. Len(f) : f[i] \notin Back
    BY <1>16
  <2>9. /\ Sends(d, client[d], f, server.players, server.lives, server'.players,
                 server'.lives)
        /\ Seeing(d, client[d], down'[d], server'.players, server'.walker)
    BY <1>9, <2>4, <2>5
  <2> QED BY <1>19, <2>1, <2>3, <2>6, <2>7, <2>8, <2>9, OfMatchReached
<1> QED BY <1>9, <1>14, <1>15, <1>18, <1>19, Zenon DEF Inv

-----------------------------------------------------------------------------
(* The invariant holds.                                                    *)

\* At first nothing is on its way, and everybody knows everything.
LEMMA InitInv ==
    Init => Inv
<1> SUFFICES ASSUME Init PROVE Inv
  OBVIOUS
<1>1. PICK garbage \in [Movers -> Garbage] :
         server = [soft |-> Soft, players |-> Players,
                   walker |-> [p \in Players |-> M!NewWalker(Start[p],
                                  IF p \in Movers THEN garbage[p] ELSE 0)],
                   lives |-> [p \in Players |-> Lives],
                   bombs |-> <<>>, over |-> FALSE]
  BY DEF Init
<1>2. /\ client = [c \in Clients |->
                    [soft |-> Soft, listed |-> Players, ghosts |-> Ghosts[c],
                     seen |-> [p \in Players |-> [at |-> Start[p], health |-> Lives]],
                     bombs |-> <<>>, base |-> Start[c]]]
      /\ up = [c \in Clients |-> <<>>]
      /\ down = [c \in Clients |-> <<>>]
      /\ history = [moves |-> 0, placed |-> 0, bombs |-> {},
                    corrected |-> [c \in Clients |-> [sent |-> 0, got |-> 0]],
                    astray |-> {}]
  BY Zenon DEF Init
<1>3. /\ \A p \in Players : Start[p] \in Floor \ Soft
      /\ \A c \in Clients : c \in Players
      /\ Lives \in Nat /\ Lives >= 1 /\ History \in Nat /\ History >= 2
      /\ Garbage \subseteq M!StepCounts /\ MaxMoves \in Nat /\ MaxBombs \in Nat
  BY Constants
<1>4. ASSUME NEW p \in Players
      PROVE  /\ server.walker[p] \in M!Walker
             /\ server.walker[p].coords = Start[p]
             /\ \A i \in 0 .. History - 1 : server.walker[p].history[i] = M!Unrecorded
             /\ server.lives[p] = Lives
  <2> DEFINE n == IF p \in Movers THEN garbage[p] ELSE 0
             w == M!NewWalker(Start[p], n)
  <2>1. n \in M!StepCounts
    <3>1. p \in Movers => garbage[p] \in M!StepCounts
      BY <1>3
    <3>2. 0 \in M!StepCounts
      BY <1>3 DEF M!StepCounts
    <3> QED BY <3>1, <3>2
  <2>2. server.walker[p] = w /\ server.lives[p] = Lives
    BY <1>1
  <2> HIDE DEF n
  <2>3. /\ w \in M!Walker /\ w.coords = Start[p]
        /\ \A i \in 0 .. History - 1 : w.history[i] = M!Unrecorded
    BY <1>3, <2>1 DEF M!NewWalker, M!Walker
  <2> QED BY <2>2, <2>3
<1>5. server \in ServerType /\ server.players = Players /\ server.soft = Soft
  <2> DEFINE W == [p \in Players |-> M!NewWalker(Start[p],
                                         IF p \in Movers THEN garbage[p] ELSE 0)]
             L == [p \in Players |-> Lives]
  <2>1. server.walker = W
    BY <1>1
  <2>2. W \in [Players -> M!Walker]
    <3>1. \A p \in Players : W[p] \in M!Walker
      BY <1>4, <2>1
    <3>2. W = [p \in Players |-> W[p]]
      OBVIOUS
    <3> HIDE DEF W
    <3> QED BY <3>1, <3>2
  <2>3. L \in [Players -> 0 .. Lives]
    BY <1>3
  <2>4. server = [soft |-> Soft, players |-> Players, walker |-> W, lives |-> L,
                  bombs |-> <<>>, over |-> FALSE]
    BY <1>1
  <2> HIDE DEF W, L
  <2> QED BY <2>2, <2>3, <2>4 DEF ServerType
<1>6. ASSUME NEW c \in Clients
      PROVE  /\ client[c] \in ClientType /\ client[c].soft = Soft
             /\ client[c].listed = Players /\ client[c].ghosts = Ghosts[c]
             /\ \A p \in Players : client[c].seen[p].at = Start[p]
             /\ \A p \in Players : client[c].seen[p].health = Lives
             /\ up[c] = <<>> /\ down[c] = <<>>
             /\ history.corrected[c].sent = 0 /\ history.corrected[c].got = 0
  <2> DEFINE seen == [p \in Players |-> [at |-> Start[p], health |-> Lives]]
  <2>1. seen \in [Players -> Seen]
    BY <1>3 DEF Seen
  <2>2. \A p \in Players : seen[p].at = Start[p] /\ seen[p].health = Lives
    OBVIOUS
  <2>3. client[c] = [soft |-> Soft, listed |-> Players, ghosts |-> Ghosts[c],
                     seen |-> seen, bombs |-> <<>>, base |-> Start[c]]
    BY <1>2
  <2> HIDE DEF seen
  <2>4. client[c] \in ClientType
    <3>1. Ghosts[c] \in [Players -> Nat]
      BY Constants
    <3> QED BY <1>3, <2>1, <2>3, <3>1 DEF ClientType
  <2>5. /\ client[c].soft = Soft /\ client[c].listed = Players /\ client[c].seen = seen
        /\ client[c].ghosts = Ghosts[c]
    BY <2>3
  <2>6. /\ up[c] = <<>> /\ down[c] = <<>>
        /\ history.corrected[c].sent = 0 /\ history.corrected[c].got = 0
    BY <1>2
  <2> QED BY <2>2, <2>4, <2>5, <2>6
<1>7. TypeOK
  <2>1. client \in [Clients -> ClientType]
    <3>1. client = [c \in Clients |-> client[c]]
      BY <1>2
    <3> QED BY <1>6, <3>1
  <2>2. up \in [Clients -> Seq(Message)] /\ down \in [Clients -> Seq(News)]
    <3>1. \A T : <<>> \in Seq(T)
      OBVIOUS
    <3> QED BY <1>2, <3>1
  <2>3. history \in HistoryType
    BY <1>2, <1>3 DEF HistoryType, SettledType
  <2> QED BY <1>5, <2>1, <2>2, <2>3, TypeParts
<1>8. \A p \in Players : Coords(p) \in Floor \ server.soft
  BY <1>3, <1>4, <1>5 DEF Coords
<1>9. /\ Len(<<>>) = 0 /\ 1 .. 0 = {}
      /\ \A A : Upto(<<>>, A, 0) = 0
  BY UptoFacts
<1>10. ASSUME NEW c \in Clients PROVE OfClient(c)
  <2>1. Bounded(<<>>, <<>>, history.corrected[c], history.moves)
    <3>1. history.moves = 0 /\ history.corrected[c].sent = 0 /\ history.corrected[c].got = 0
      BY <1>2, <1>6
    <3> QED BY <1>9, <3>1 DEF Bounded
  <2>2. Grounded(c, client[c], <<>>, <<>>, server.walker[c])
    BY <1>3, <1>4, <1>6, <1>9 DEF Grounded
  <2> QED BY <1>6, <2>1, <2>2 DEF OfClient
<1>11. ASSUME NEW c \in Clients PROVE OfMatch(c)
  <2>1. Known(c, client[c], <<>>, server.players, server.lives)
    <3> DEFINE k == client[c]
               L == server.lives
    <3>1. k.listed = Players /\ server.players = Players
      BY <1>5, <1>6
    <3>2. \A p \in Players : L[p] = Left(k, <<>>, p, 0) /\ k.seen[p].health > 0
      BY <1>3, <1>4, <1>6, <1>9 DEF Left
    <3>3. \A p \in Named(c) : k.ghosts[p] = 0
      BY <1>6 DEF Named
    <3>4. Sure(c, k) = Named(c) /\ \A p \in Named(c) : p \in Players
      BY <3>1 DEF Sure, Named
    <3> HIDE DEF k, L
    <3>5. Known(c, k, <<>>, Players, L)
      BY <1>9, <3>2, <3>3, <3>4 DEF Known
    <3> QED BY <3>1, <3>5 DEF k, L
  <2>2. Seeing(c, client[c], <<>>, server.players, server.walker)
    BY <1>4, <1>5, <1>6, <1>9 DEF Seeing, Will
  <2>3. Itself(c, client[c], <<>>, <<>>, server.walker[c], history.corrected[c], Straight(c))
    BY <1>3, <1>4, <1>6, <1>9 DEF Itself, Will
  <2> QED BY <1>6, <2>1, <2>2, <2>3, Zenon DEF OfMatch
<1> QED BY <1>7, <1>8, <1>10, <1>11 DEF Inv

\* A step that changes nothing keeps the invariant.
LEMMA StutterInv ==
    ASSUME Inv, UNCHANGED vars
    PROVE  Inv'
<1>1. /\ server' = server /\ client' = client /\ up' = up /\ down' = down
      /\ history' = history
  BY DEF vars
<1>2. TypeOK' /\ \A p \in Players : (Coords(p) \in Floor \ server.soft)'
  BY <1>1, TypeParts, TypePartsNext DEF Inv, Coords
<1>3. \A c \in Clients : SameClient(c) /\ SameMatch(c)
  BY <1>1, Zenon DEF SameClient, SameMatch
<1>4. \A c \in Clients : OfClient(c)'
  BY <1>3, SameFacts DEF Inv
<1>5. \A c \in Clients \cap server'.players : OfMatch(c)'
  BY <1>1, <1>3, SameFacts DEF Inv
<1> QED BY <1>2, <1>4, <1>5 DEF Inv
\* The invariant holds in every state that can be reached.
THEOREM Invariance == Spec => []Inv
<1>1. Inv /\ [Next]_vars => Inv'
  <2> SUFFICES ASSUME Inv, [Next]_vars PROVE Inv'
    OBVIOUS
  <2>1. ASSUME NEW c \in Clients, Look(c) PROVE Inv'
    BY <2>1, InvLook
  <2>2. ASSUME NEW c \in Clients, NEW space \in BOOLEAN, NEW K \in SUBSET ArrowsLeft(c),
               Keys(c, space, K)
        PROVE  Inv'
    BY <2>2, InvKeys
  <2>3. ASSUME NEW c \in Clients, Detonate(c) PROVE Inv'
    BY <2>3, InvDetonate
  <2>4. ASSUME NEW c \in Clients, Receive(c) PROVE Inv'
    BY <2>4, InvReceive
  <2>5. ASSUME NEW c \in Clients, RefuseDead(c) PROVE Inv'
    BY <2>5, InvRefuseDead
  <2>6. ASSUME NEW c \in Clients, HandleMove(c) PROVE Inv'
    BY <2>6, InvMove
  <2>7. ASSUME NEW c \in Clients, HandlePlaceBomb(c) PROVE Inv'
    BY <2>7, InvPlaceBomb
  <2>8. ASSUME NEW p \in Players, Leave(p) PROVE Inv'
    BY <2>8, InvLeave
  <2>9. CASE Explode
    BY <2>9, InvExplode
  <2>10. CASE UNCHANGED vars
    BY <2>10, StutterInv
  <2> QED BY <2>1, <2>2, <2>3, <2>4, <2>5, <2>6, <2>7, <2>8, <2>9, <2>10, Zenon DEF Next
<1> QED BY <1>1, InitInv, PTL DEF Spec

\* The state of the match, at the server, at the clients and under way, is
\* well formed.
THEOREM Typing == Spec => []TypeOK
<1>1. Inv => TypeOK
  BY Zenon DEF Inv
<1> QED BY <1>1, Invariance, PTL

\* Nobody stands in a wall, at the server or at a client, or is sent to one.
THEOREM StandFreeAlways == Spec => []StandFree
<1>1. Inv => StandFree
  <2> SUFFICES ASSUME Inv PROVE StandFree
    OBVIOUS
  <2>0. /\ TypeOK
        /\ \A p \in Players : Coords(p) \in Floor \ server.soft
        /\ \A c \in Clients : OfClient(c)
    BY Zenon DEF Inv
  <2>1. \A p \in server.players : Coords(p) \in Floor \ server.soft
    BY <2>0, ServerFields
  <2>2. ASSUME NEW c \in Clients
        PROVE  /\ Own(c) \in Floor \ client[c].soft
               /\ \A i \in 1 .. Len(down[c]) :
                     down[c][i].type = "MovementCorrection" => down[c][i].at \in Floor
    <3>1. Grounded(c, client[c], up[c], down[c], server.walker[c])
      BY <2>0, Zenon DEF OfClient
    <3>2. /\ Own(c) \in Floor \ client[c].soft
          /\ \A i \in 1 .. Len(down[c]) :
                down[c][i] \in Back => down[c][i].at \in Floor \ client[c].soft
      BY <3>1, Zenon DEF Grounded, Own
    <3>3. down[c] \in Seq(News)
      BY <2>0, ClientFields
    <3>4. \A i \in 1 .. Len(down[c]) : down[c][i] \in News
      BY <3>3
    <3>5. \A i \in 1 .. Len(down[c]) :
             down[c][i].type = "MovementCorrection" => down[c][i] \in Back
      BY <3>4, NewsFields
    <3>6. ASSUME NEW i \in 1 .. Len(down[c]), down[c][i].type = "MovementCorrection"
          PROVE  down[c][i].at \in Floor
      <4>1. down[c][i].at \in Floor \ client[c].soft
        BY <3>2, <3>5, <3>6, Zenon
      <4> QED BY <4>1
    <3> QED BY <3>2, <3>6
  <2> QED BY <2>1, <2>2, Zenon DEF StandFree
<1> QED BY <1>1, Invariance, PTL

\* The messages about p that c has still to hear, as the invariant has them.
LEMMA UnheardAs ==
    ASSUME TypeOK, NEW c \in Clients, NEW p
    PROVE  /\ Unheard(c, "OtherMove", p) = {i \in 1 .. Len(down[c]) : down[c][i] \in MoveOf(p)}
           /\ Unheard(c, "GotHit", p) = {i \in 1 .. Len(down[c]) : down[c][i] \in HitOn(p)}
           /\ Unheard(c, "OtherLeave", p) =
                 {i \in 1 .. Len(down[c]) : down[c][i] \in LeaveOf(p)}
           /\ Len(down[c]) \in Nat
<1>1. down[c] \in Seq(News) /\ Len(down[c]) \in Nat
  BY ClientFields
<1>2. \A i \in 1 .. Len(down[c]) : down[c][i] \in News
  BY <1>1
<1>3. \A i \in 1 .. Len(down[c]) :
         /\ down[c][i] \in MoveOf(p) <=> down[c][i].type = "OtherMove" /\ down[c][i].who = p
         /\ down[c][i] \in HitOn(p) <=> down[c][i].type = "GotHit" /\ down[c][i].who = p
         /\ down[c][i] \in LeaveOf(p) <=> down[c][i].type = "OtherLeave" /\ down[c][i].who = p
  BY <1>2, NewsFields, Zenon
<1> QED BY <1>1, <1>3 DEF Unheard

\* A client will see every other player it lists where the server has him, but
\* for those who took the name of somebody it lists from before the start.
THEOREM SpectatorsAgreeAlways == Spec => []SpectatorsAgree
<1>1. Inv => SpectatorsAgree
  <2> SUFFICES ASSUME Inv, NEW c \in Connected, NEW p \in server.players \ {c},
                      p \in Named(c), p \in client[c].listed
               PROVE  SeesAt(c, p, Coords(p))
    BY DEF SpectatorsAgree
  <2>1. TypeOK /\ c \in Clients \cap server.players /\ OfMatch(c)
    BY DEF Inv, Connected
  <2> DEFINE d == down[c]
             x == client[c].seen[p].at
             A == MoveOf(p)
             S == Unheard(c, "OtherMove", p)
  <2>2. Will(d, A, x, Coords(p))
    <3>1. p \in Sure(c, client[c])
      BY DEF Sure
    <3> QED BY <2>1, <3>1, Zenon DEF OfMatch, Seeing, Coords
  <2>3. S = {i \in 1 .. Len(d) : d[i] \in A} /\ Len(d) \in Nat
    BY <2>1, UnheardAs
  <2> HIDE DEF d, x, A, S
  <2>4. /\ (\A i \in 1 .. Len(d) : d[i] \notin A) => x = Coords(p)
        /\ \A i \in 1 .. Len(d) :
              d[i] \in A /\ (\A j \in 1 .. Len(d) : d[j] \in A => j <= i)
                 => d[i].at = Coords(p)
    BY <2>2, Zenon DEF Will
  <2>5. CASE S = {}
    <3>1. x = Coords(p)
      BY <2>3, <2>4, <2>5
    <3> QED BY <2>5, <3>1 DEF SeesAt, S, x
  <2>6. CASE S # {}
    <3>1. PICK i \in S : \A j \in S : j <= i
      BY <2>3, <2>6, Greatest
    <3>2. /\ i \in 1 .. Len(d) /\ d[i] \in A
          /\ \A j \in 1 .. Len(d) : d[j] \in A => j <= i
      BY <2>3, <3>1
    <3>3. d[i].at = Coords(p)
      BY <2>4, <3>2, Zenon
    <3> QED BY <2>6, <3>1, <3>3, Zenon DEF SeesAt, S, d
  <2> QED BY <2>5, <2>6
<1> QED BY <1>1, Invariance, PTL

\* A client that did not go astray sees its own player where the server has
\* him, when no move and no correction is under way.
THEOREM SelfAgreesAlways == Spec => []SelfAgrees
<1>1. Inv => SelfAgrees
  <2> SUFFICES ASSUME Inv, NEW c \in Connected \ history.astray,
                      Alive(c), c \in client[c].listed,
                      \A i \in 1 .. Len(up[c]) : up[c][i].type # "Move",
                      \A i \in 1 .. Len(down[c]) : down[c][i].type # "MovementCorrection"
               PROVE  Own(c) = Coords(c)
    BY Zenon DEF SelfAgrees
  <2>1. TypeOK /\ c \in Clients \cap server.players /\ OfMatch(c) /\ Straight(c)
    BY DEF Inv, Connected, Straight
  <2> DEFINE F == FreshMoves(history.corrected[c].sent)
  <2>2. /\ Straight(c) /\ (\A i \in 1 .. Len(up[c]) : up[c][i] \notin F)
              => Will(down[c], Back, Own(c), Coords(c))
    BY <2>1, Zenon DEF OfMatch, Itself, Own, Coords
  <2>3. \A i \in 1 .. Len(up[c]) : up[c][i] \notin F
    BY DEF FreshMoves, Moves
  <2>4. \A i \in 1 .. Len(down[c]) : down[c][i] \notin Back
    BY DEF Back
  <2> QED BY <2>1, <2>2, <2>3, <2>4, Zenon DEF Will
<1> QED BY <1>1, Invariance, PTL

\* A client lists exactly the players it takes to be alive, with the lives they
\* have at the server as soon as it has heard of all hits, and whoever left
\* goes from the list with a message that is under way; all this of those whose
\* name is theirs alone on that list.
THEOREM ListsAgreeAlways == Spec => []ListsAgree
<1>1. Inv => ListsAgree
  <2> SUFFICES ASSUME Inv, NEW c \in Connected
               PROVE  /\ \A p \in server.players \cap Named(c) :
                            server.lives[p] = IF p \in client[c].listed
                                              THEN client[c].seen[p].health - Hits(c, p)
                                              ELSE 0
                      /\ \A p \in client[c].listed \cap Named(c) :
                            client[c].seen[p].health > 0
                      /\ \A p \in (client[c].listed \cap Named(c)) \ server.players :
                            Unheard(c, "OtherLeave", p) # {}
    BY Zenon DEF ListsAgree
  <2>1. TypeOK /\ c \in Clients \cap server.players /\ OfMatch(c)
    BY DEF Inv, Connected
  <2> DEFINE k == client[c]
             d == down[c]
  <2> DEFINE N == k.listed \cap Named(c)
  <2>0. Sure(c, k) = N
    BY DEF Sure
  <2>2. /\ \A p \in server.players : p \in N => server.lives[p] = Left(k, d, p, Len(d))
        /\ \A p \in server.players \cap Named(c) : p \notin N => server.lives[p] = 0
        /\ \A p \in N : k.seen[p].health > 0
        /\ \A p \in N \ server.players : \E i \in 1 .. Len(d) : d[i] \in LeaveOf(p)
    BY <2>0, <2>1, Zenon DEF OfMatch, Known
  <2>3. ASSUME NEW p PROVE Left(k, d, p, Len(d)) = k.seen[p].health - Hits(c, p)
    <3>1. Unheard(c, "GotHit", p) = {i \in 1 .. Len(d) : d[i] \in HitOn(p)}
      BY <2>1, UnheardAs
    <3> QED BY <3>1 DEF Left, Hits, Upto
  <2>4. ASSUME NEW p, \E i \in 1 .. Len(d) : d[i] \in LeaveOf(p)
        PROVE  Unheard(c, "OtherLeave", p) # {}
    <3>1. Unheard(c, "OtherLeave", p) = {i \in 1 .. Len(d) : d[i] \in LeaveOf(p)}
      BY <2>1, UnheardAs
    <3> QED BY <2>4, <3>1
  <2> HIDE DEF k, d
  <2>5. \A p \in server.players \cap Named(c) :
           server.lives[p] = IF p \in k.listed THEN k.seen[p].health - Hits(c, p) ELSE 0
    BY <2>2, <2>3, Zenon
  <2> QED BY <2>2, <2>4, <2>5, Zenon DEF k
<1> QED BY <1>1, Invariance, PTL

\* A correction is heard by a client whose own player is still on its list.
THEOREM CorrectionFindsItsPlayerAlways == Spec => []CorrectionFindsItsPlayer
<1>1. Inv => CorrectionFindsItsPlayer
  <2> SUFFICES ASSUME Inv, NEW c \in Connected, down[c] # <<>>,
                      Head(down[c]).type = "MovementCorrection"
               PROVE  c \in client[c].listed
    BY Zenon DEF CorrectionFindsItsPlayer
  <2>1. TypeOK /\ c \in Clients \cap server.players /\ OfMatch(c)
    BY DEF Inv, Connected
  <2>2. down[c] \in Seq(News)
    BY <2>1, ClientFields
  <2>3. 1 \in 1 .. Len(down[c]) /\ down[c][1] \in News /\ Head(down[c]) = down[c][1]
    BY <2>2
  <2>4. down[c][1] \in Back
    BY <2>3, NewsFields
  <2>5. c \in Sure(c, client[c])
    BY <2>1, <2>3, <2>4, Zenon DEF OfMatch, Known
  <2> QED BY <2>5 DEF Sure
<1> QED BY <1>1, Invariance, PTL

-----------------------------------------------------------------------------
(* Explosions.                                                             *)

\* Every other step leaves at least as many bombs at the server.
LEMMA OnlyExplosions ==
    ASSUME TypeOK, Next, Len(server'.bombs) < Len(server.bombs)
    PROVE  Explode
<1>1. server \in ServerType /\ server.bombs \in Seq(Bomb) /\ Len(server.bombs) \in Nat
  <2>1. server \in ServerType /\ server.bombs \in Seq(Bomb)
    BY TypeParts, ServerFields
  <2> QED BY <2>1
<1>2. ASSUME NEW c \in Clients, UNCHANGED server PROVE FALSE
  BY <1>1, <1>2
<1>3. ASSUME NEW c \in Clients, Look(c) PROVE UNCHANGED server
  BY <1>3 DEF Look
<1>4. ASSUME NEW c \in Clients, NEW space, NEW K, Keys(c, space, K) PROVE UNCHANGED server
  BY <1>4, Zenon DEF Keys
<1>5. ASSUME NEW c \in Clients, Detonate(c) PROVE UNCHANGED server
  BY <1>5, Zenon DEF Detonate
<1>6. ASSUME NEW c \in Clients, Receive(c) PROVE UNCHANGED server
  BY <1>6, Zenon DEF Receive
<1>7. ASSUME NEW c \in Clients, RefuseDead(c) PROVE UNCHANGED server
  BY <1>7, Zenon DEF RefuseDead
<1>8. ASSUME NEW c \in Clients, HandleMove(c) PROVE FALSE
  <2>1. PICK v : server' = [server EXCEPT !.walker[c] = v.walker]
    BY <1>8, Zenon DEF HandleMove
  <2>2. server'.bombs = server.bombs
    BY <1>1, <2>1 DEF ServerType
  <2> QED BY <1>1, <2>2
<1>9. ASSUME NEW c \in Clients, HandlePlaceBomb(c) PROVE FALSE
  <2> DEFINE b == [at |-> Head(up[c]).at, atomic |-> FALSE]
  <2>1. server' = [server EXCEPT !.bombs = Append(server.bombs, b)]
    BY <1>9 DEF HandlePlaceBomb
  <2>2. server'.bombs = Append(server.bombs, b)
    BY <1>1, <2>1 DEF ServerType
  <2> HIDE DEF b
  <2>3. Len(Append(server.bombs, b)) = Len(server.bombs) + 1
    BY <1>1
  <2> QED BY <1>1, <2>2, <2>3
<1>10. ASSUME NEW p \in Players, Leave(p) PROVE FALSE
  <2> DEFINE b == [at |-> Coords(p), atomic |-> TRUE]
             left == IF Alive(p) THEN {b} ELSE {}
             over == Cardinality(server.players) = 2
  <2>1. server' = [server EXCEPT !.players = server.players \ {p},
                                 !.bombs = server.bombs \o SetToSeq(left), !.over = over]
    BY <1>10 DEF Leave
  <2>2. server.walker[p] \in M!Walker
    BY ServerFields
  <2>3. b \in Bomb /\ left \in {{}, {b}}
    BY <2>2 DEF Bomb, Coords, M!Walker
  <2> HIDE DEF b, left, over
  <2>4. SetToSeq(left) \in Seq(Bomb)
    BY <2>3, PartingFacts
  <2>5. server'.bombs = server.bombs \o SetToSeq(left)
    BY <1>1, <2>1 DEF ServerType
  <2>6. Len(server'.bombs) = Len(server.bombs) + Len(SetToSeq(left))
    BY <1>1, <2>4, <2>5
  <2>7. Len(SetToSeq(left)) \in Nat
    BY <2>4
  <2> QED BY <1>1, <2>6, <2>7
<1> QED BY <1>2, <1>3, <1>4, <1>5, <1>6, <1>7, <1>8, <1>9, <1>10, Zenon DEF Next

\* An explosion takes lives and walls exactly where the bomb's reach, defined
\* without the loops of Bomb::boom, says.
THEOREM BlastsAreAsDefinedAlways == Spec => BlastsAreAsDefined
<1> DEFINE b == Head(server.bombs)
<1>1. Inv /\ [Next]_vars =>
         [server'.bombs # server.bombs /\ Len(server'.bombs) < Len(server.bombs) =>
            LET a == Head(server.bombs)
            IN  /\ \A p \in server.players : server'.lives[p] < server.lives[p] =>
                      Coords(p) = a.at \/ Reaches(server.soft, a, Coords(p))
                /\ \A s \in server.soft :
                      s \notin server'.soft <=> Reaches(server.soft, a, s)]_vars
  <2> SUFFICES ASSUME Inv, Next, Len(server'.bombs) < Len(server.bombs)
               PROVE  /\ \A p \in server.players : server'.lives[p] < server.lives[p] =>
                            Coords(p) = b.at \/ Reaches(server.soft, b, Coords(p))
                      /\ \A s \in server.soft :
                            s \notin server'.soft <=> Reaches(server.soft, b, s)
    OBVIOUS
  <2>0. TypeOK
    BY Zenon DEF Inv
  <2>1. Explode
    BY <2>0, OnlyExplosions
  <2>2. /\ server \in ServerType /\ server.bombs \in Seq(Bomb) /\ server.bombs # <<>>
        /\ \A p \in server.players : p \in Players
        /\ \A p \in Players : server.lives[p] \in Nat
    BY <2>0, <2>1, TypeParts, ServerFields, Zenon DEF Explode
  <2>3. b \in Bomb
    BY <2>2
  <2>4. \A s : s \in Arms(server.soft, b) <=> Reaches(server.soft, b, s)
    BY <2>3, BlastReaches
  <2>5. PICK immune :
           LET hit   == Exposed(b) \ immune
               lives == [p \in Players |-> server.lives[p] - IF p \in hit THEN 1 ELSE 0]
           IN  server' = [server EXCEPT
                     !.bombs = Tail(server.bombs), !.lives = lives,
                     !.soft = Boomed(server.soft, b),
                     !.over = Cardinality({p \in server.players : lives[p] > 0}) < 2]
    BY <2>1, Zenon DEF Explode
  <2> DEFINE hit == Exposed(b) \ immune
             lives == [p \in Players |-> server.lives[p] - IF p \in hit THEN 1 ELSE 0]
             over == Cardinality({p \in server.players : lives[p] > 0}) < 2
  <2>6. server' = [server EXCEPT !.bombs = Tail(server.bombs), !.lives = lives,
                                 !.soft = Boomed(server.soft, b), !.over = over]
    BY <2>5
  <2>7. ASSUME NEW p \in server.players, lives[p] < server.lives[p] PROVE p \in Exposed(b)
    <3>1. lives[p] = server.lives[p] - IF p \in hit THEN 1 ELSE 0
      BY <2>2
    <3> HIDE DEF lives
    <3>2. p \in hit
      BY <2>2, <2>7, <3>1
    <3> QED BY <3>2
  <2>8. ASSUME NEW p \in Exposed(b)
        PROVE  Coords(p) = b.at \/ Reaches(server.soft, b, Coords(p))
    BY <2>4, Zenon DEF Exposed, Lit
  <2> HIDE DEF lives, over, b
  <2>9. server'.lives = lives /\ server'.soft = Boomed(server.soft, b)
    BY <2>2, <2>6 DEF ServerType
  <2>10. \A s \in server.soft : s \notin server'.soft <=> Reaches(server.soft, b, s)
    BY <2>4, <2>9 DEF Boomed
  <2> QED BY <2>7, <2>8, <2>9, <2>10
<1> QED BY <1>1, Invariance, PTL DEF Spec, BlastsAreAsDefined

-----------------------------------------------------------------------------
(* Bombs still to go off.                                                  *)
(*                                                                         *)
(* A bomb is still to go off on a client's map if it is on its list or     *)
(* comes with the news, and on the server's map if it is in the queue or   *)
(* on its way from the client itself.  Both count alike: a list s of bombs *)
(* and messages t, of which those in F[b] bring the bomb b.                *)

\* What brings a bomb: the bomb, news of it, its own player's message.
Just == [b \in Bomb |-> {b}]
Telling == [b \in Bomb |-> {m \in News : m.type = "OtherBombPlace" /\ m.bomb = b}]
Asking == [b \in Bomb |-> {m \in Message : m.type = "PlaceBomb" /\
                                           [at |-> m.at, atomic |-> FALSE] = b}]

\* How often each bomb is still to go off.
Pending(s, t, F) == [b \in Bomb |-> Upto(s, Just[b], Len(s)) + Upto(t, F[b], Len(t))]

\* s brings nothing, or the bomb a once.
BringsNone(s, F) == \A b \in Bomb : Upto(s, F[b], Len(s)) = 0
Brings(s, F, a) == \A b \in Bomb : Upto(s, F[b], Len(s)) = IF b = a THEN 1 ELSE 0

\* The numbers P and N are the same.
Equal(P, N) == \A b \in Bomb : P[b] = N[b]

\* The numbers are numbers.
LEMMA PendingFacts ==
    ASSUME NEW T, NEW s \in Seq(Bomb), NEW t \in Seq(T), NEW F
    PROVE  /\ Pending(s, t, F) \in [Bomb -> Nat]
           /\ \A b \in Bomb : /\ Upto(s, Just[b], Len(s)) \in Nat
                              /\ Upto(t, F[b], Len(t)) \in Nat
                              /\ Pending(s, t, F)[b] = Upto(s, Just[b], Len(s)) +
                                                       Upto(t, F[b], Len(t))
<1>1. Len(s) \in Nat /\ Len(t) \in Nat
  OBVIOUS
<1>2. \A b \in Bomb : /\ Upto(s, Just[b], Len(s)) \in Nat
                      /\ Upto(t, F[b], Len(t)) \in Nat
  BY <1>1, UptoFacts
<1> QED BY <1>2 DEF Pending

\* Where nothing is listed and nothing under way, nothing is to come.
LEMMA NothingPending ==
    ASSUME NEW s \in Seq(Bomb), NEW T, NEW t \in Seq(T), NEW F,
           BringsNone(s, Just), BringsNone(t, F)
    PROVE  \A b \in Bomb : Pending(s, t, F)[b] = 0
<1> SUFFICES ASSUME NEW b \in Bomb PROVE Pending(s, t, F)[b] = 0
  OBVIOUS
<1>1. Upto(s, Just[b], Len(s)) = 0 /\ Upto(t, F[b], Len(t)) = 0
  BY Zenon DEF BringsNone
<1>2. Pending(s, t, F)[b] = Upto(s, Just[b], Len(s)) + Upto(t, F[b], Len(t))
  BY PendingFacts
<1> QED BY <1>1, <1>2

\* A sequence of one element brings what the element brings, an empty one
\* nothing.
LEMMA BringsOne ==
    ASSUME NEW s, NEW F, NEW a, Len(s) = 1, \A b \in Bomb : s[1] \in F[b] <=> b = a
    PROVE  Brings(s, F, a)
<1> SUFFICES ASSUME NEW b \in Bomb
             PROVE  Upto(s, F[b], Len(s)) = IF b = a THEN 1 ELSE 0
  BY Zenon DEF Brings
<1>1. /\ Upto(s, F[b], 0) = 0
      /\ Upto(s, F[b], 0 + 1) = Upto(s, F[b], 0) + IF s[0 + 1] \in F[b] THEN 1 ELSE 0
  BY UptoFacts
<1> QED BY <1>1

LEMMA BringsNothing ==
    ASSUME NEW s, NEW F, Len(s) \in Nat,
           \A b \in Bomb, i \in 1 .. Len(s) : s[i] \notin F[b]
    PROVE  BringsNone(s, F)
BY CountNone DEF BringsNone

\* Two sequences joined bring what either brings.
LEMMA BringsJoined ==
    ASSUME NEW T, NEW r, NEW s, NEW t, Joined(r, s, t, T), NEW F
    PROVE  \A b \in Bomb : /\ Upto(s, F[b], Len(s)) \in Nat /\ Upto(t, F[b], Len(t)) \in Nat
                           /\ Upto(r, F[b], Len(r)) = Upto(s, F[b], Len(s)) +
                                                      Upto(t, F[b], Len(t))
BY CountConcat

\* More messages are under way.
LEMMA PendingSent ==
    ASSUME NEW s \in Seq(Bomb), NEW T, NEW t, NEW r, NEW f, Joined(r, t, f, T), NEW F
    PROVE  /\ BringsNone(f, F) => Equal(Pending(s, r, F), Pending(s, t, F))
           /\ \A a : Brings(f, F, a) => OneMore(Pending(s, r, F), Pending(s, t, F), a)
<1>1. t \in Seq(T) /\ r \in Seq(T)
  BY DEF Joined
<1>2. ASSUME NEW b \in Bomb
      PROVE  Pending(s, r, F)[b] = Pending(s, t, F)[b] + Upto(f, F[b], Len(f))
             /\ Pending(s, t, F)[b] \in Nat
  <2> DEFINE x == Upto(s, Just[b], Len(s))
             y == Upto(t, F[b], Len(t))
             z == Upto(f, F[b], Len(f))
             n == Pending(s, t, F)[b]
             p == Pending(s, r, F)[b]
             q == Upto(r, F[b], Len(r))
  <2>1. y \in Nat /\ z \in Nat /\ q = y + z
    BY BringsJoined
  <2>2. x \in Nat /\ n = x + y
    BY <1>1, PendingFacts
  <2>3. p = x + q
    BY <1>1, PendingFacts
  <2> HIDE DEF x, y, z, n, p, q
  <2>4. p = n + z /\ n \in Nat
    BY <2>1, <2>2, <2>3
  <2> QED BY <2>4 DEF n, p, z
<1>3. ASSUME BringsNone(f, F) PROVE Equal(Pending(s, r, F), Pending(s, t, F))
  <2> SUFFICES ASSUME NEW b \in Bomb PROVE Pending(s, r, F)[b] = Pending(s, t, F)[b]
    BY Zenon DEF Equal
  <2>1. Upto(f, F[b], Len(f)) = 0
    BY <1>3, Zenon DEF BringsNone
  <2> QED BY <1>2, <2>1
<1>4. ASSUME NEW a, Brings(f, F, a) PROVE OneMore(Pending(s, r, F), Pending(s, t, F), a)
  <2> SUFFICES ASSUME NEW b \in Bomb
               PROVE  Pending(s, r, F)[b] = Pending(s, t, F)[b] + IF b = a THEN 1 ELSE 0
    BY Zenon DEF OneMore
  <2>1. Upto(f, F[b], Len(f)) = IF b = a THEN 1 ELSE 0
    BY <1>4, Zenon DEF Brings
  <2> QED BY <1>2, <2>1
<1> QED BY <1>3, <1>4

\* More bombs are on the list.
LEMMA PendingListed ==
    ASSUME NEW s, NEW f, NEW r, Joined(r, s, f, Bomb), NEW T, NEW t \in Seq(T), NEW F
    PROVE  /\ BringsNone(f, Just) => Equal(Pending(r, t, F), Pending(s, t, F))
           /\ \A a : Brings(f, Just, a) => OneMore(Pending(r, t, F), Pending(s, t, F), a)
<1>1. s \in Seq(Bomb) /\ r \in Seq(Bomb)
  BY DEF Joined
<1>2. ASSUME NEW b \in Bomb
      PROVE  Pending(r, t, F)[b] = Pending(s, t, F)[b] + Upto(f, Just[b], Len(f))
             /\ Pending(s, t, F)[b] \in Nat
  <2> DEFINE x == Upto(s, Just[b], Len(s))
             y == Upto(t, F[b], Len(t))
             z == Upto(f, Just[b], Len(f))
             n == Pending(s, t, F)[b]
             p == Pending(r, t, F)[b]
             q == Upto(r, Just[b], Len(r))
  <2>1. x \in Nat /\ z \in Nat /\ q = x + z
    BY BringsJoined
  <2>2. y \in Nat /\ n = x + y
    BY <1>1, PendingFacts
  <2>3. p = q + y
    BY <1>1, PendingFacts
  <2> HIDE DEF x, y, z, n, p, q
  <2>4. p = n + z /\ n \in Nat
    BY <2>1, <2>2, <2>3
  <2> QED BY <2>4 DEF n, p, z
<1>3. ASSUME BringsNone(f, Just) PROVE Equal(Pending(r, t, F), Pending(s, t, F))
  <2> SUFFICES ASSUME NEW b \in Bomb PROVE Pending(r, t, F)[b] = Pending(s, t, F)[b]
    BY Zenon DEF Equal
  <2>1. Upto(f, Just[b], Len(f)) = 0
    BY <1>3, Zenon DEF BringsNone
  <2> QED BY <1>2, <2>1
<1>4. ASSUME NEW a, Brings(f, Just, a) PROVE OneMore(Pending(r, t, F), Pending(s, t, F), a)
  <2> SUFFICES ASSUME NEW b \in Bomb
               PROVE  Pending(r, t, F)[b] = Pending(s, t, F)[b] + IF b = a THEN 1 ELSE 0
    BY Zenon DEF OneMore
  <2>1. Upto(f, Just[b], Len(f)) = IF b = a THEN 1 ELSE 0
    BY <1>4, Zenon DEF Brings
  <2> QED BY <1>2, <2>1
<1> QED BY <1>3, <1>4

\* The first message is taken: what it brings is no more under way.
LEMMA PendingTaken ==
    ASSUME NEW s \in Seq(Bomb), NEW T, NEW t, NEW r, Rest(r, t, T), NEW F
    PROVE  /\ (\A b \in Bomb : t[1] \notin F[b]) => Equal(Pending(s, r, F), Pending(s, t, F))
           /\ \A a : (\A b \in Bomb : t[1] \in F[b] <=> b = a)
                        => OneLess(Pending(s, r, F), Pending(s, t, F), a)
<1>1. t \in Seq(T) /\ r \in Seq(T)
  BY DEF Rest
<1>2. ASSUME NEW b \in Bomb
      PROVE  /\ t[1] \in F[b] => Pending(s, t, F)[b] = Pending(s, r, F)[b] + 1
             /\ t[1] \notin F[b] => Pending(s, t, F)[b] = Pending(s, r, F)[b]
             /\ Pending(s, r, F)[b] \in Nat
  <2> DEFINE x == Upto(s, Just[b], Len(s))
             y == Upto(t, F[b], Len(t))
             z == Upto(r, F[b], Len(r))
             n == Pending(s, t, F)[b]
             p == Pending(s, r, F)[b]
  <2>1. z \in Nat /\ (t[1] \in F[b] => y = 1 + z) /\ (t[1] \notin F[b] => y = z)
    BY CountTail
  <2>2. x \in Nat /\ n = x + y
    BY <1>1, PendingFacts
  <2>3. p = x + z
    BY <1>1, PendingFacts
  <2> HIDE DEF x, y, z, n, p
  <2>4. (t[1] \in F[b] => n = p + 1) /\ (t[1] \notin F[b] => n = p) /\ p \in Nat
    BY <2>1, <2>2, <2>3
  <2> QED BY <2>4 DEF n, p
<1>3. ASSUME \A b \in Bomb : t[1] \notin F[b]
      PROVE  Equal(Pending(s, r, F), Pending(s, t, F))
  BY <1>2, <1>3 DEF Equal
<1>4. ASSUME NEW a, \A b \in Bomb : t[1] \in F[b] <=> b = a
      PROVE  OneLess(Pending(s, r, F), Pending(s, t, F), a)
  BY <1>2, <1>4 DEF OneLess
<1> QED BY <1>3, <1>4

\* A bomb is taken off the list.
LEMMA PendingUnlisted ==
    ASSUME NEW s, NEW r, Rest(r, s, Bomb), NEW T, NEW t \in Seq(T), NEW F
    PROVE  OneLess(Pending(r, t, F), Pending(s, t, F), s[1])
<1>1. s \in Seq(Bomb) /\ r \in Seq(Bomb)
  BY DEF Rest
<1> SUFFICES ASSUME NEW b \in Bomb
             PROVE  Pending(s, t, F)[b] = Pending(r, t, F)[b] + IF b = s[1] THEN 1 ELSE 0
  BY Zenon DEF OneLess
<1> DEFINE x == Upto(s, Just[b], Len(s))
           y == Upto(t, F[b], Len(t))
           z == Upto(r, Just[b], Len(r))
           n == Pending(s, t, F)[b]
           p == Pending(r, t, F)[b]
<1>2. s[1] \in Just[b] <=> b = s[1]
  BY DEF Just
<1>3. z \in Nat /\ (s[1] \in Just[b] => x = 1 + z) /\ (s[1] \notin Just[b] => x = z)
  BY CountTail
<1>4. y \in Nat /\ n = x + y
  BY <1>1, PendingFacts
<1>5. p = z + y
  BY <1>1, PendingFacts
<1> HIDE DEF x, y, z, n, p
<1>6. n = p + IF b = s[1] THEN 1 ELSE 0
  BY <1>2, <1>3, <1>4, <1>5
<1> QED BY <1>6 DEF n, p

\* A bomb is taken out of the list, wherever it is.
LEMMA PendingPicked ==
    ASSUME NEW s \in Seq(Bomb), NEW i \in 1 .. Len(s), NEW T, NEW t \in Seq(T), NEW F
    PROVE  /\ SubSeq(s, 1, i - 1) \o SubSeq(s, i + 1, Len(s)) \in Seq(Bomb)
           /\ OneLess(Pending(SubSeq(s, 1, i - 1) \o SubSeq(s, i + 1, Len(s)), t, F),
                      Pending(s, t, F), s[i])
<1> DEFINE p == SubSeq(s, 1, i - 1)
           e == SubSeq(s, i, Len(s))
           q == SubSeq(s, i + 1, Len(s))
           r == p \o q
           n == Len(s)
<1>1. /\ n \in Nat /\ i \in 1 .. n /\ n \in i .. n /\ n \in Int /\ 1 \in Int
      /\ i \in Int /\ i - 1 \in Int /\ i + 1 \in Int
      /\ \A j \in 1 .. n : s[j] \in Bomb
  OBVIOUS
<1>2. p \in Seq(Bomb)
  <2>1. \A j \in 1 .. i - 1 : s[j] \in Bomb
    BY <1>1
  <2> QED BY <1>1, <2>1, SubSeqProperties
<1>3. e \in Seq(Bomb) /\ Len(e) = n - i + 1 /\ \A j \in 1 .. n - i + 1 : e[j] = s[i + j - 1]
  <2>1. \A j \in i .. n : s[j] \in Bomb
    BY <1>1
  <2>2. /\ e \in Seq(Bomb) /\ Len(e) = (IF i <= n THEN n - i + 1 ELSE 0)
        /\ \A j \in 1 .. n - i + 1 : e[j] = s[i + j - 1]
    BY <1>1, <2>1, SubSeqProperties
  <2> HIDE DEF e
  <2> QED BY <1>1, <2>2
<1>4. q \in Seq(Bomb)
  <2>1. \A j \in i + 1 .. n : s[j] \in Bomb
    BY <1>1
  <2> QED BY <1>1, <2>1, SubSeqProperties
<1>5. q = Tail(e)
  BY <1>1, HeadTailOfSubSeq
<1>6. s = p \o e
  <2> DEFINE k == i - 1
  <2>1. k + 1 = i /\ 1 \in 1 .. n + 1 /\ k \in 1 - 1 .. n /\ n \in k .. n
    BY <1>1
  <2> HIDE DEF k
  <2>2. SubSeq(s, 1, k) \o SubSeq(s, k + 1, n) = SubSeq(s, 1, n)
    BY <2>1, ConcatAdjacentSubSeq
  <2>3. SubSeq(s, 1, n) = s
    BY SubSeqFull
  <2>4. SubSeq(s, 1, k) = p /\ SubSeq(s, k + 1, n) = e
    BY <2>1 DEF k
  <2> QED BY <2>2, <2>3, <2>4
<1> HIDE DEF p, e, q, n
<1>7. e # <<>> /\ e[1] = s[i]
  BY <1>1, <1>3
<1>8. Joined(s, p, e, Bomb) /\ Joined(r, p, q, Bomb) /\ Rest(q, e, Bomb)
  BY <1>2, <1>3, <1>4, <1>5, <1>6, <1>7, Zenon DEF Joined, Rest
<1>9. r \in Seq(Bomb)
  BY <1>2, <1>4
<1> HIDE DEF r
<1>10. ASSUME NEW b \in Bomb
      PROVE  Pending(s, t, F)[b] = Pending(r, t, F)[b] + IF b = s[i] THEN 1 ELSE 0
  <2> DEFINE y == Upto(t, F[b], Len(t))
             x1 == Upto(p, Just[b], Len(p))
             x2 == Upto(q, Just[b], Len(q))
             x3 == Upto(e, Just[b], Len(e))
             xs == Upto(s, Just[b], Len(s))
             xr == Upto(r, Just[b], Len(r))
             h == Pending(s, t, F)[b]
             k == Pending(r, t, F)[b]
  <2>1. e[1] \in Just[b] <=> b = s[i]
    BY <1>7 DEF Just
  <2>2. x2 \in Nat /\ (e[1] \in Just[b] => x3 = 1 + x2) /\ (e[1] \notin Just[b] => x3 = x2)
    BY <1>8, CountTail
  <2>3. x1 \in Nat /\ x3 \in Nat /\ xs = x1 + x3
    BY <1>8, BringsJoined
  <2>4. xr = x1 + x2
    BY <1>8, BringsJoined
  <2>5. y \in Nat /\ h = xs + y
    BY PendingFacts
  <2>6. k = xr + y
    BY <1>9, PendingFacts
  <2> HIDE DEF y, x1, x2, x3, xs, xr, h, k
  <2>7. h = k + IF b = s[i] THEN 1 ELSE 0
    BY <2>1, <2>2, <2>3, <2>4, <2>5, <2>6
  <2> QED BY <2>7 DEF h, k
<1>11. OneLess(Pending(r, t, F), Pending(s, t, F), s[i])
  BY <1>10, Zenon DEF OneLess
<1> QED BY <1>9, <1>11 DEF r, p, q, n

\* What is taken from the messages and put on the list is still to go off.
LEMMA PendingMoved ==
    ASSUME NEW s, NEW a, NEW r, Joined(r, s, <<a>>, Bomb), NEW T, NEW t, NEW u,
           Rest(u, t, T), NEW F, \A b \in Bomb : t[1] \in F[b] <=> b = a
    PROVE  Equal(Pending(r, u, F), Pending(s, t, F))
<1> DEFINE f == <<a>>
<1>1. s \in Seq(Bomb) /\ f \in Seq(Bomb) /\ t \in Seq(T) /\ u \in Seq(T)
  BY DEF Joined, Rest
<1>2. OneLess(Pending(s, u, F), Pending(s, t, F), a)
  BY <1>1, PendingTaken
<1>3. Len(f) = 1 /\ \A b \in Bomb : f[1] \in Just[b] <=> b = a
  BY DEF Just
<1> HIDE DEF f
<1>4. Brings(f, Just, a)
  BY <1>3, BringsOne
<1>5. Joined(r, s, f, Bomb)
  BY DEF f
<1>6. OneMore(Pending(r, u, F), Pending(s, u, F), a)
  BY <1>1, <1>4, <1>5, PendingListed
<1>7. \A b \in Bomb : Pending(r, u, F)[b] = Pending(s, u, F)[b] + IF b = a THEN 1 ELSE 0
  BY <1>6, Zenon DEF OneMore
<1>8. \A b \in Bomb : Pending(s, t, F)[b] = Pending(s, u, F)[b] + IF b = a THEN 1 ELSE 0
  BY <1>2, Zenon DEF OneLess
<1>9. \A b \in Bomb : Pending(r, u, F)[b] = Pending(s, t, F)[b]
  BY <1>7, <1>8, Zenon
<1> QED BY <1>9, Zenon DEF Equal

\* A bomb at the end of a list.
LEMMA BombAppended ==
    ASSUME NEW s \in Seq(Bomb), NEW a \in Bomb
    PROVE  Joined(Append(s, a), s, <<a>>, Bomb)
<1> DEFINE f == <<a>>
           r == Append(s, a)
<1>1. f \in Seq(Bomb) /\ Len(f) = 1 /\ f[1] = a
  OBVIOUS
<1>2. r \in Seq(Bomb) /\ Len(r) = Len(s) + 1
  OBVIOUS
<1>3. r = s \o f
  OBVIOUS
<1> HIDE DEF f, r
<1>4. Joined(r, s, f, Bomb)
  BY <1>1, <1>2, <1>3, Zenon DEF Joined
<1> QED BY <1>4 DEF f, r

-----------------------------------------------------------------------------
(* The maps.                                                               *)

\* What is to go off on the map of client c, and on the server's as far as c
\* is concerned.
AtClient(c) == Pending(client[c].bombs, down[c], Telling)
AtServer(c) == Pending(server.bombs, up[c], Asking)

\* Where no bombs meet, what is to come makes up for what the maps differ in.
Facing(c) ==
    Matched(history.bombs, client[c].soft, AtClient(c), server.soft, AtServer(c), Soft)

MapsInv == \A c \in Clients : Alive(c) => Facing(c)

\* They are functions to the naturals.
LEMMA AtFacts ==
    ASSUME TypeOK, NEW c \in Clients
    PROVE  /\ AtClient(c) \in [Bomb -> Nat] /\ AtServer(c) \in [Bomb -> Nat]
           /\ client[c].soft \in SUBSET Soft /\ server.soft \in SUBSET Soft
           /\ client[c].bombs \in Seq(Bomb) /\ server.bombs \in Seq(Bomb)
           /\ up[c] \in Seq(Message) /\ down[c] \in Seq(News)
           /\ history.bombs \in SUBSET Bomb
<1>1. /\ client[c].soft \in SUBSET Soft /\ client[c].bombs \in Seq(Bomb)
      /\ up[c] \in Seq(Message) /\ down[c] \in Seq(News)
  BY ClientFields
<1>2. /\ server.soft \in SUBSET Soft /\ server.bombs \in Seq(Bomb)
      /\ history.bombs \in SUBSET Bomb
  BY ServerFields, HistoryFields
<1>3. AtClient(c) \in [Bomb -> Nat]
  BY <1>1, PendingFacts DEF AtClient
<1>4. AtServer(c) \in [Bomb -> Nat]
  BY <1>1, <1>2, PendingFacts DEF AtServer
<1> QED BY <1>1, <1>2, <1>3, <1>4

\* The two maps stay, and so do the bombs.
MapsStay(d) ==
    /\ client'[d].soft = client[d].soft /\ server'.soft = server.soft
    /\ \A b : b \in history.bombs => b \in history'.bombs

\* The numbers stay, or the same bomb is added on either side.
LEMMA FacingKept ==
    ASSUME NEW d \in Clients, Facing(d), MapsStay(d),
           Equal(AtClient(d)', AtClient(d)), Equal(AtServer(d)', AtServer(d))
    PROVE  Facing(d)'
<1> DEFINE H == history.bombs
           G == history'.bombs
           x == client[d].soft
           y == server.soft
           N == AtClient(d)
           P == AtClient(d)'
           R == AtServer(d)
           Q == AtServer(d)'
<1>1. /\ client'[d].soft = x /\ server'.soft = y /\ H \subseteq G
      /\ Matched(H, x, N, y, R, Soft)
  BY DEF MapsStay, Facing
<1>2. (\A b \in Bomb : P[b] = N[b]) /\ (\A b \in Bomb : Q[b] = R[b])
  BY Zenon DEF Equal
<1>3. Matched(G, x, P, y, Q, Soft)
  <2> HIDE DEF H, G, x, y, N, P, R, Q
  <2> QED BY <1>1, <1>2, MatchedSame
<1> QED BY <1>1, <1>3, Zenon DEF Facing

LEMMA FacingAdds ==
    ASSUME TypeOK, NEW d \in Clients, Facing(d), MapsStay(d),
           NEW a \in Bomb, a \in history'.bombs,
           OneMore(AtClient(d)', AtClient(d), a), OneMore(AtServer(d)', AtServer(d), a)
    PROVE  Facing(d)'
<1> DEFINE H == history.bombs
           G == history'.bombs
           x == client[d].soft
           y == server.soft
           N == AtClient(d)
           P == AtClient(d)'
           R == AtServer(d)
           Q == AtServer(d)'
<1>1. /\ client'[d].soft = x /\ server'.soft = y /\ H \subseteq G
      /\ Matched(H, x, N, y, R, Soft)
  BY DEF MapsStay, Facing
<1>2. N \in [Bomb -> Nat] /\ R \in [Bomb -> Nat]
  BY AtFacts
<1>3. OneMore(P, N, a) /\ OneMore(Q, R, a) /\ a \in G
  OBVIOUS
<1>4. Matched(G, x, P, y, Q, Soft)
  <2> HIDE DEF H, G, x, y, N, P, R, Q
  <2> QED BY <1>1, <1>2, <1>3, MatchedAdds
<1> QED BY <1>1, <1>4, Zenon DEF Facing

\* Nothing that Facing speaks of changes.
MapsSame(d) ==
    /\ MapsStay(d)
    /\ client'[d].bombs = client[d].bombs /\ server'.bombs = server.bombs
    /\ up'[d] = up[d] /\ down'[d] = down[d]

LEMMA FacingSame ==
    ASSUME NEW d \in Clients, Facing(d), MapsSame(d)
    PROVE  Facing(d)'
<1>1. MapsStay(d) /\ AtClient(d)' = AtClient(d) /\ AtServer(d)' = AtServer(d)
  BY Zenon DEF MapsSame, AtClient, AtServer
<1>2. Equal(AtClient(d)', AtClient(d)) /\ Equal(AtServer(d)', AtServer(d))
  BY <1>1, Zenon DEF Equal
<1> QED BY <1>1, <1>2, FacingKept

\* A bomb that is still to go off is one of the match.
LEMMA FacingKnows ==
    ASSUME TypeOK, NEW d \in Clients, Facing(d), NEW b \in Bomb,
           AtClient(d)[b] # 0 \/ AtServer(d)[b] # 0
    PROVE  b \in history.bombs
BY Zenon DEF Facing, Matched

-----------------------------------------------------------------------------
(* The maps, step by step.                                                 *)

\* The server and all clients but c are left alone.
OnlyClient(c) ==
    /\ server' = server
    /\ \A b : b \in history.bombs => b \in history'.bombs
    /\ \A d \in Clients : d # c => /\ client'[d] = client[d] /\ up'[d] = up[d]
                                   /\ down'[d] = down[d]

LEMMA MapsClient ==
    ASSUME MapsInv, NEW c \in Clients, OnlyClient(c), Alive(c) /\ Facing(c) => Facing(c)'
    PROVE  MapsInv'
<1>1. /\ server' = server
      /\ \A b : b \in history.bombs => b \in history'.bombs
      /\ \A d \in Clients : d # c => /\ client'[d] = client[d] /\ up'[d] = up[d]
                                     /\ down'[d] = down[d]
  BY Zenon DEF OnlyClient
<1> SUFFICES ASSUME NEW d \in Clients, Alive(d)' PROVE Facing(d)'
  BY Zenon DEF MapsInv
<1>2. Alive(d)
  BY <1>1, Zenon DEF Alive
<1>3. Facing(d)
  BY <1>2, Zenon DEF MapsInv
<1>4. CASE d = c
  BY <1>2, <1>3, <1>4
<1>5. CASE d # c
  <2>1. MapsSame(d)
    BY <1>1, <1>5, Zenon DEF MapsSame, MapsStay
  <2> QED BY <1>3, <2>1, FacingSame
<1> QED BY <1>4, <1>5

\* A frame that begins.
LEMMA MapsLook ==
    ASSUME TypeOK, MapsInv, NEW c \in Clients, Look(c)
    PROVE  MapsInv'
<1>1. /\ client' = [client EXCEPT ![c].base = Own(c)]
      /\ server' = server /\ up' = up /\ down' = down /\ history' = history
  BY DEF Look
<1>2. client \in [Clients -> ClientType] /\ client[c] \in ClientType
  BY TypeParts
<1>3. /\ client'[c].soft = client[c].soft /\ client'[c].bombs = client[c].bombs
      /\ \A d \in Clients : d # c => client'[d] = client[d]
  BY <1>1, <1>2 DEF ClientType
<1>4. OnlyClient(c)
  BY <1>1, <1>3, Zenon DEF OnlyClient
<1>5. MapsSame(c)
  BY <1>1, <1>3, Zenon DEF MapsSame, MapsStay
<1> QED BY <1>4, <1>5, FacingSame, MapsClient

\* A frame asks for the bomb it places and for no other.
LEMMA KeysBring ==
    ASSUME NEW s \in Floor, NEW j \in 0 .. 1, NEW steps \in Seq(Floor), NEW n \in 0 .. MaxMoves
    PROVE  /\ j = 0 => BringsNone(Placing(j, s) \o Moving(steps, n), Asking)
           /\ j = 1 => Brings(Placing(j, s) \o Moving(steps, n), Asking,
                              [at |-> s, atomic |-> FALSE])
<1> DEFINE a == Placing(j, s)
           m == Moving(steps, n)
           t == a \o m
           x == [at |-> s, atomic |-> FALSE]
<1>1. a \in Seq(Message) /\ m \in Seq(Message)
  <2>1. j \in Nat /\ Floor \in SUBSET Floor
    OBVIOUS
  <2> QED BY <2>1, SayingFacts
<1>2. Len(a) = j /\ (j = 1 => a[1] = [type |-> "PlaceBomb", at |-> s])
  BY DEF Placing
<1>3. \A i \in 1 .. Len(m) : m[i].type = "Move"
  BY DEF Moving
<1> HIDE DEF a, m
<1>4. Joined(t, a, m, Message) /\ Len(m) \in Nat
  BY <1>1 DEF Joined
<1> HIDE DEF t
<1>5. \A b \in Bomb : /\ Upto(a, Asking[b], Len(a)) \in Nat
                      /\ Upto(m, Asking[b], Len(m)) \in Nat
                      /\ Upto(t, Asking[b], Len(t)) = Upto(a, Asking[b], Len(a)) +
                                                      Upto(m, Asking[b], Len(m))
  BY <1>4, BringsJoined
<1>6. BringsNone(m, Asking)
  <2>1. \A b \in Bomb, i \in 1 .. Len(m) : m[i] \notin Asking[b]
    BY <1>3 DEF Asking
  <2> QED BY <1>4, <2>1, BringsNothing
<1>7. \A b \in Bomb : Upto(t, Asking[b], Len(t)) = Upto(a, Asking[b], Len(a))
  BY <1>5, <1>6 DEF BringsNone
<1>8. ASSUME j = 0 PROVE BringsNone(t, Asking)
  <2>1. Len(a) \in Nat /\ \A b \in Bomb, i \in 1 .. Len(a) : a[i] \notin Asking[b]
    BY <1>2, <1>8
  <2>2. BringsNone(a, Asking)
    BY <2>1, BringsNothing
  <2> QED BY <1>7, <2>2, Zenon DEF BringsNone
<1>9. ASSUME j = 1 PROVE Brings(t, Asking, x)
  <2> DEFINE y == [type |-> "PlaceBomb", at |-> s]
  <2>1. a[1] = y
    BY <1>2, <1>9, Zenon
  <2>2. y \in Message /\ y.type = "PlaceBomb" /\ [at |-> y.at, atomic |-> FALSE] = x
    BY MessageForms
  <2> HIDE DEF x, y
  <2>3. \A b \in Bomb : a[1] \in Asking[b] <=> b = x
    BY <2>1, <2>2 DEF Asking
  <2>4. Brings(a, Asking, x)
    BY <1>2, <1>9, <2>3, BringsOne
  <2> QED BY <1>7, <2>4, Zenon DEF Brings
<1> QED BY <1>8, <1>9 DEF t, a, m

\* The keys of a frame: a bomb is on the client's list and on its way to the
\* server.
LEMMA MapsKeys ==
    ASSUME TypeOK, MapsInv, NEW c \in Clients, NEW space \in BOOLEAN, NEW K,
           Keys(c, space, K)
    PROVE  MapsInv'
<1> DEFINE k == client[c]
           F == Floor \ k.soft
           steps == Steps(k, K)
           at == IF steps = <<>> THEN Own(c) ELSE Last(steps)
           x == [at |-> k.base, atomic |-> FALSE]
           bombs == IF space THEN <<x>> ELSE <<>>
           got == history.corrected[c].got
           a == Placing(Len(bombs), k.base)
           m == Moving(steps, got)
           t == a \o m
           u == up[c]
           d == down[c]
           l == [k EXCEPT !.seen[c].at = at, !.base = at, !.bombs = @ \o bombs]
<1>1. k \in ClientType /\ k.bombs \in Seq(Bomb) /\ k.base \in Floor /\ u \in Seq(Message)
      /\ d \in Seq(News) /\ up \in [Clients -> Seq(Message)]
      /\ client \in [Clients -> ClientType] /\ history \in HistoryType
  BY ClientFields, TypeParts
<1>2. got \in 0 .. MaxMoves
  BY HistoryFields DEF SettledType
<1>3. server' = server /\ down' = down
  BY Zenon DEF Keys
<1>4. client' = [client EXCEPT ![c] = l]
  BY DEF Keys
<1>5. up' = [up EXCEPT ![c] = (u \o a) \o m]
  BY DEF Keys, Placing, Moving
<1>6. history' = [history EXCEPT !.moves = @ + Len(steps), !.placed = @ + Len(bombs),
                                 !.bombs = history.bombs \cup ToSet(bombs)]
  BY DEF Keys
<1>7. x \in Bomb /\ bombs \in Seq(Bomb) /\ Len(bombs) \in 0 .. 1
  <2>1. x \in Bomb
    BY <1>1 DEF Bomb
  <2> HIDE DEF x
  <2>2. <<x>> \in Seq(Bomb) /\ Len(<<x>>) = 1 /\ <<>> \in Seq(Bomb) /\ Len(<<>>) = 0
    BY <2>1
  <2> QED BY <2>1, <2>2
<1>8. steps \in Seq(Floor)
  <2>1. steps \in Seq(F) /\ F \in SUBSET Floor
    BY StepsFacts
  <2> HIDE DEF steps, F
  <2> QED BY <2>1
<1>9. history'.bombs = history.bombs \cup ToSet(bombs)
  <2> HIDE DEF steps, bombs
  <2> QED BY <1>1, <1>6 DEF HistoryType
<1>10. x \in ToSet(<<x>>)
  <2> DEFINE f == <<x>>
  <2>1. 1 \in DOMAIN f /\ f[1] = x
    OBVIOUS
  <2> HIDE DEF f, x
  <2> QED BY <2>1 DEF ToSet, f
<1>11. l.bombs = k.bombs \o bombs /\ l.soft = k.soft
  <2> HIDE DEF at, bombs
  <2> QED BY <1>1 DEF ClientType
<1> HIDE DEF at, steps, l
<1>12. a \in Seq(Message) /\ m \in Seq(Message)
  <2>1. Len(bombs) \in Nat /\ Floor \in SUBSET Floor
    BY <1>7
  <2> QED BY <1>1, <1>2, <1>8, <2>1, SayingFacts
<1>13. /\ Len(bombs) = 0 => BringsNone(t, Asking)
       /\ Len(bombs) = 1 => Brings(t, Asking, x)
  <2> HIDE DEF bombs
  <2> QED BY <1>1, <1>2, <1>7, <1>8, KeysBring
<1> HIDE DEF a, m
<1>14. Joined(up'[c], u, t, Message)
  <2>1. (u \o a) \o m = u \o t
    <3>1. u \in Seq(Message)
      BY <1>1
    <3> HIDE DEF u
    <3>2. (u \o a) \o m = u \o (a \o m)
      BY <1>12, <3>1, Associative
    <3> QED BY <3>2, Zenon
  <2>2. up'[c] = u \o t
    BY <1>1, <1>5, <2>1
  <2>3. t \in Seq(Message)
    BY <1>12
  <2> HIDE DEF t
  <2> QED BY <1>1, <2>2, <2>3 DEF Joined
<1> HIDE DEF t
<1>15. /\ client'[c] = l
       /\ \A e \in Clients : e # c => client'[e] = client[e] /\ up'[e] = up[e]
  BY <1>1, <1>4, <1>5
<1>16. OnlyClient(c)
  BY <1>3, <1>9, <1>15 DEF OnlyClient
<1>17. MapsStay(c)
  BY <1>3, <1>9, <1>11, <1>15 DEF MapsStay
<1>18. Joined(client'[c].bombs, k.bombs, bombs, Bomb)
  <2> HIDE DEF bombs
  <2> QED BY <1>1, <1>7, <1>11, <1>15 DEF Joined
<1>19. /\ AtClient(c) = Pending(k.bombs, d, Telling)
       /\ AtServer(c) = Pending(server.bombs, u, Asking)
       /\ AtClient(c)' = Pending(client'[c].bombs, d, Telling)
       /\ AtServer(c)' = Pending(server.bombs, up'[c], Asking)
  BY <1>3, Zenon DEF AtClient, AtServer
<1>20. server.bombs \in Seq(Bomb)
  BY ServerFields
<1>21. ASSUME Facing(c), space PROVE Facing(c)'
  <2>1. bombs = <<x>> /\ Len(bombs) = 1 /\ bombs[1] = x
    BY <1>21
  <2>2. \A b \in Bomb : bombs[1] \in Just[b] <=> b = x
    BY <2>1 DEF Just
  <2>3. x \in history'.bombs
    BY <1>9, <1>10, <2>1
  <2> HIDE DEF bombs, x
  <2>4. Brings(bombs, Just, x)
    BY <2>1, <2>2, BringsOne
  <2>5. OneMore(AtClient(c)', AtClient(c), x)
    <3> HIDE DEF d, k
    <3>1. d \in Seq(News)
      BY <1>1
    <3> QED BY <1>18, <1>19, <2>4, <3>1, PendingListed
  <2>6. OneMore(AtServer(c)', AtServer(c), x)
    <3> HIDE DEF u
    <3> QED BY <1>13, <1>14, <1>19, <1>20, <2>1, PendingSent
  <2> QED BY <1>7, <1>17, <1>21, <2>3, <2>5, <2>6, FacingAdds
<1>22. ASSUME Facing(c), ~space PROVE Facing(c)'
  <2>1. Len(bombs) = 0
    BY <1>22
  <2>2. \A b \in Bomb, i \in 1 .. Len(bombs) : bombs[i] \notin Just[b]
    BY <2>1
  <2> HIDE DEF bombs, x
  <2>3. BringsNone(bombs, Just)
    BY <2>1, <2>2, BringsNothing
  <2>4. Equal(AtClient(c)', AtClient(c))
    <3> HIDE DEF d, k
    <3>1. d \in Seq(News)
      BY <1>1
    <3> QED BY <1>18, <1>19, <2>3, <3>1, PendingListed
  <2>5. Equal(AtServer(c)', AtServer(c))
    <3> HIDE DEF u
    <3> QED BY <1>13, <1>14, <1>19, <1>20, <2>1, PendingSent
  <2> QED BY <1>17, <1>22, <2>4, <2>5, FacingKept
<1> QED BY <1>16, <1>21, <1>22, MapsClient

\* A bomb goes off on a client's map.
LEMMA MapsDetonate ==
    ASSUME TypeOK, MapsInv, NEW c \in Clients, Detonate(c)
    PROVE  MapsInv'
<1>1. PICK i \in 1 .. Len(client[c].bombs) :
         /\ client' = [client EXCEPT ![c] = Detonated(c, i)]
         /\ server' = server /\ up' = up /\ down' = down /\ history' = history
  BY Zenon DEF Detonate
<1> DEFINE k == client[c]
           a == k.bombs[i]
           r == SubSeq(k.bombs, 1, i - 1) \o SubSeq(k.bombs, i + 1, Len(k.bombs))
           soft == Boomed(k.soft, a)
           l == Detonated(c, i)
           d == down[c]
<1>2. k \in ClientType /\ client \in [Clients -> ClientType] /\ k.bombs \in Seq(Bomb)
      /\ d \in Seq(News)
  BY ClientFields, TypeParts
<1>3. a \in Bomb
  BY <1>2
<1>4. l = [k EXCEPT !.soft = soft, !.bombs = r]
  BY DEF Detonated
<1>5. r \in Seq(Bomb) /\ OneLess(Pending(r, d, Telling), Pending(k.bombs, d, Telling), a)
  <2> DEFINE s == k.bombs
  <2>1. s \in Seq(Bomb) /\ i \in 1 .. Len(s)
    BY <1>2
  <2> HIDE DEF s, d
  <2>2. d \in Seq(News)
    BY <1>2
  <2>3. /\ SubSeq(s, 1, i - 1) \o SubSeq(s, i + 1, Len(s)) \in Seq(Bomb)
        /\ OneLess(Pending(SubSeq(s, 1, i - 1) \o SubSeq(s, i + 1, Len(s)), d, Telling),
                   Pending(s, d, Telling), s[i])
    BY <2>1, <2>2, PendingPicked
  <2> QED BY <2>3 DEF s
<1> HIDE DEF r, soft, l, a
<1>6. l.soft = soft /\ l.bombs = r
  BY <1>2, <1>4 DEF ClientType
<1>7. client'[c] = l /\ \A e \in Clients : e # c => client'[e] = client[e]
  BY <1>1, <1>2 DEF l
<1>8. OnlyClient(c)
  BY <1>1, <1>7, Zenon DEF OnlyClient
<1>9. ASSUME Facing(c) PROVE Facing(c)'
  <2> DEFINE H == history.bombs
             x == k.soft
             y == server.soft
             N == AtClient(c)
             R == AtServer(c)
             P == AtClient(c)'
  <2>1. /\ N \in [Bomb -> Nat] /\ x \in SUBSET Soft
    BY AtFacts
  <2>2. P = Pending(r, d, Telling) /\ OneLess(P, N, a)
    BY <1>1, <1>5, <1>6, <1>7 DEF AtClient
  <2>3. P \in [Bomb -> Nat]
    <3> HIDE DEF P, d
    <3>1. d \in Seq(News)
      BY <1>2 DEF d
    <3> QED BY <1>5, <2>2, <3>1, PendingFacts
  <2>4. Matched(H, x, N, y, R, Soft)
    BY <1>9, Zenon DEF Facing
  <2>5. Matched(H, Boomed(x, a), P, y, R, Soft)
    <3> HIDE DEF H, x, y, N, R, P
    <3> QED BY <1>3, <2>1, <2>2, <2>3, <2>4, MatchedFalls
  <2>6. /\ client'[c].soft = Boomed(x, a) /\ server'.soft = y /\ history'.bombs = H
    BY <1>1, <1>6, <1>7 DEF soft
  <2>7. AtServer(c)' = R
    BY <1>1 DEF AtServer
  <2> QED BY <2>5, <2>6, <2>7, Zenon DEF Facing
<1> QED BY <1>8, <1>9, MapsClient

\* A client hears a message: a bomb it tells of is on the list.
LEMMA MapsReceive ==
    ASSUME TypeOK, MapsInv, NEW c \in Clients, Receive(c),
           down[c][1] \in Back => down[c][1].at \in Floor
    PROVE  MapsInv'
<1> DEFINE k == client[c]
           d == down[c]
           e == Tail(d)
           m == d[1]
           l == Heard(c, m)
<1>1. /\ d # <<>>
      /\ client' = [client EXCEPT ![c] = Heard(c, Head(d))]
      /\ down' = [down EXCEPT ![c] = Tail(d)]
      /\ history' = IF Head(d).type = "MovementCorrection"
                    THEN [history EXCEPT !.corrected[c].got = @ + 1] ELSE history
      /\ server' = server /\ up' = up
  BY DEF Receive
<1>2. /\ k \in ClientType /\ k.bombs \in Seq(Bomb) /\ d \in Seq(News)
      /\ client \in [Clients -> ClientType] /\ down \in [Clients -> Seq(News)]
      /\ history \in HistoryType
  BY ClientFields, TypeParts
<1>3. Rest(e, d, News) /\ Head(d) = m /\ m \in News /\ e \in Seq(News)
  <2> HIDE DEF d
  <2> QED BY <1>1, <1>2, FirstTaken
<1>4. l \in ClientType /\ l.soft = k.soft
  BY <1>3, HeardFacts
<1>5. history'.bombs = history.bombs
  BY <1>1, <1>2 DEF HistoryType
<1>6. /\ client'[c] = l /\ down'[c] = e
      /\ \A x \in Clients : x # c => client'[x] = client[x] /\ down'[x] = down[x]
  <2> HIDE DEF l, e
  <2>1. client' = [client EXCEPT ![c] = l] /\ down' = [down EXCEPT ![c] = e]
    BY <1>1, <1>3 DEF l, e
  <2> QED BY <1>2, <2>1
<1>7. OnlyClient(c)
  BY <1>1, <1>5, <1>6, Zenon DEF OnlyClient
<1>8. MapsStay(c)
  BY <1>1, <1>4, <1>5, <1>6, Zenon DEF MapsStay
<1>9. Equal(AtServer(c)', AtServer(c))
  BY <1>1, Zenon DEF AtServer, Equal
<1>10. /\ AtClient(c) = Pending(k.bombs, d, Telling)
       /\ AtClient(c)' = Pending(l.bombs, e, Telling)
  BY <1>6, Zenon DEF AtClient
<1>11. CASE m.type = "OtherBombPlace"
  <2> DEFINE a == m.bomb
  <2>1. a \in Bomb
    BY <1>3, <1>11, NewsFields
  <2>2. \A b \in Bomb : m \in Telling[b] <=> b = a
    BY <1>3, <1>11 DEF Telling
  <2>3. l = [k EXCEPT !.bombs = Append(k.bombs, a)]
    BY <1>11 DEF Heard, Mistaken
  <2> HIDE DEF a, l, k, d, e
  <2>4. l.bombs = Append(k.bombs, a)
    BY <1>2, <2>3 DEF ClientType
  <2>5. Joined(Append(k.bombs, a), k.bombs, <<a>>, Bomb)
    BY <1>2, <2>1, BombAppended
  <2>6. Joined(l.bombs, k.bombs, <<a>>, Bomb)
    BY <2>4, <2>5, Zenon
  <2>7. Equal(AtClient(c)', AtClient(c))
    BY <1>3, <1>10, <2>2, <2>6, PendingMoved
  <2> QED BY <1>8, <1>9, <2>7, <1>7, FacingKept, MapsClient
<1>12. CASE m.type # "OtherBombPlace"
  <2>1. \A b \in Bomb : m \notin Telling[b]
    BY <1>12 DEF Telling
  <2>2. l.bombs = k.bombs
    <3>1. m.type \in {"OtherMove", "MovementCorrection", "GotHit", "OtherLeave"}
      BY <1>3, <1>12, NewsFields
    <3> QED BY <1>2, <3>1 DEF Heard, Haunted, Struck, ClientType
  <2> HIDE DEF l, k, d, e
  <2>3. Equal(AtClient(c)', AtClient(c))
    BY <1>2, <1>3, <1>10, <2>1, <2>2, PendingTaken
  <2> QED BY <1>8, <1>9, <2>3, <1>7, FacingKept, MapsClient
<1> QED BY <1>11, <1>12

\* What a dead player asks for is dropped.
LEMMA MapsRefuseDead ==
    ASSUME TypeOK, MapsInv, NEW c \in Clients, RefuseDead(c)
    PROVE  MapsInv'
<1>1. PICK type : Take(c, type)
  BY Zenon DEF RefuseDead
<1>2. server' = server /\ down' = down /\ history' = history /\ ~Alive(c)
  BY DEF RefuseDead, Refused, Alive
<1>3. client' = client /\ \A d \in Clients : d # c => up'[d] = up[d]
  BY <1>1, TakeFacts
<1>4. OnlyClient(c)
  BY <1>2, <1>3, Zenon DEF OnlyClient
<1> QED BY <1>2, <1>4, MapsClient

\* The server takes a move: no bomb is concerned.
LEMMA MapsMove ==
    ASSUME Inv, MapsInv, NEW c \in Clients, HandleMove(c)
    PROVE  MapsInv'
<1>0. TypeOK /\ OfClient(c)
  BY Zenon DEF Inv
<1> DEFINE s == up[c][1].at
           w == server.walker[c]
<1>1. PICK v \in Verdicts(c, s) :
         /\ MoveDone(c, v) /\ down' = Told(c, s, v) /\ up[c][1] \in Message
  BY <1>0, MoveFacts
<1>2. /\ Rest(up'[c], up[c], Message) /\ up[c][1] \in Moves
      /\ client' = client
      /\ server'.players = server.players /\ server'.lives = server.lives
      /\ server'.soft = server.soft /\ server'.bombs = server.bombs
      /\ history'.bombs = history.bombs
      /\ \A d \in Clients : d # c => up'[d] = up[d]
  BY <1>1, Zenon DEF MoveDone
<1>3. s \in Floor /\ c \in Players
  BY <1>1, MessageForms, Constants
<1>4. \E C, f : /\ down' = SendTo(C, f) /\ f \in Seq(News)
                /\ \A i \in 1 .. Len(f) : f[i].type # "OtherBombPlace"
  <2>1. CASE v.back = {}
    <3> DEFINE m == [type |-> "OtherMove", who |-> c, at |-> s]
    <3>1. m \in News /\ m.type # "OtherBombPlace"
      BY <1>3, NewsForms
    <3>2. down' = SendTo(Players \ {c}, <<m>>)
      BY <1>1, <2>1 DEF Told
    <3> HIDE DEF m
    <3>3. <<m>> \in Seq(News) /\ \A i \in 1 .. Len(<<m>>) : <<m>>[i].type # "OtherBombPlace"
      BY <3>1
    <3> QED BY <3>2, <3>3, Zenon
  <2>2. CASE v.back # {}
    <3> DEFINE f == Corrections(v)
    <3>1. down' = SendTo({c}, f)
      BY <1>1, <2>2 DEF Told
    <3>2. ThrownBack(v, w)
      BY <1>0, <1>1, <1>3, <2>2, VerdictFacts DEF Accepted
    <3>3. w \in M!Walker
      BY <1>0, <1>3, ServerFields
    <3>4. PICK t \in Floor : v.back = {t}
      <4>1. /\ w.coords \in Floor
            /\ \A i \in 0 .. History - 1 : w.history[i] \in Floor \cup {M!Unrecorded}
        BY <3>3 DEF M!Walker
      <4> HIDE DEF w
      <4>2. PICK t : /\ v.back = {t}
                     /\ t = w.coords \/ \E i \in 0 .. History - 1 :
                                           t = w.history[i] /\ t # M!Unrecorded
        BY <3>2, Zenon DEF ThrownBack
      <4>3. t \in Floor
        BY <4>1, <4>2
      <4> QED BY <4>2, <4>3
    <3>5. f \in Seq(News) /\ Len(f) = 1 /\ f[1] = [type |-> "MovementCorrection", at |-> t]
      BY <3>4, CorrectionFacts
    <3> HIDE DEF f
    <3>6. \A i \in 1 .. Len(f) : f[i].type # "OtherBombPlace"
      BY <3>5
    <3> QED BY <3>1, <3>5, <3>6, Zenon
  <2> QED BY <2>1, <2>2
<1>5. PICK C, f : /\ down' = SendTo(C, f) /\ f \in Seq(News)
                  /\ \A i \in 1 .. Len(f) : f[i].type # "OtherBombPlace"
  BY <1>4, Zenon
<1>6. \A d \in Clients : \/ Joined(down'[d], down[d], f, News)
                         \/ down'[d] = down[d]
  BY <1>0, <1>5, SendFacts
<1>7. BringsNone(f, Telling)
  <2>1. Len(f) \in Nat /\ \A b \in Bomb, i \in 1 .. Len(f) : f[i] \notin Telling[b]
    BY <1>5 DEF Telling
  <2> QED BY <2>1, BringsNothing
<1> SUFFICES ASSUME NEW d \in Clients, Alive(d)' PROVE Facing(d)'
  BY Zenon DEF MapsInv
<1>8. Alive(d) /\ Facing(d)
  <2>1. Alive(d)
    BY <1>2, Zenon DEF Alive
  <2> QED BY <2>1, Zenon DEF MapsInv
<1>9. MapsStay(d)
  BY <1>2, Zenon DEF MapsStay
<1>10. client[d].bombs \in Seq(Bomb) /\ server.bombs \in Seq(Bomb)
  BY <1>0, AtFacts
<1>11. Equal(AtClient(d)', AtClient(d))
  <2>1. AtClient(d)' = Pending(client[d].bombs, down'[d], Telling)
    BY <1>2, Zenon DEF AtClient
  <2>2. CASE Joined(down'[d], down[d], f, News)
    BY <1>7, <1>10, <2>1, <2>2, PendingSent DEF AtClient
  <2>3. CASE down'[d] = down[d]
    BY <2>1, <2>3, Zenon DEF AtClient, Equal
  <2> QED BY <1>6, <2>2, <2>3
<1>12. Equal(AtServer(d)', AtServer(d))
  <2>1. AtServer(d)' = Pending(server.bombs, up'[d], Asking)
    BY <1>2, Zenon DEF AtServer
  <2>2. CASE d = c
    <3>1. \A b \in Bomb : up[c][1] \notin Asking[b]
      BY <1>2 DEF Asking, Moves
    <3>2. Equal(Pending(server.bombs, up'[c], Asking), Pending(server.bombs, up[c], Asking))
      BY <1>2, <1>10, <3>1, PendingTaken
    <3> QED BY <2>1, <2>2, <3>2 DEF AtServer
  <2>3. CASE d # c
    BY <1>2, <2>1, <2>3, Zenon DEF AtServer, Equal
  <2> QED BY <2>2, <2>3
<1> QED BY <1>8, <1>9, <1>11, <1>12, FacingKept

\* The server takes a bomb: it goes from what its player asks for to the queue,
\* and the others are told.
LEMMA MapsPlaceBomb ==
    ASSUME TypeOK, MapsInv, NEW c \in Clients, HandlePlaceBomb(c)
    PROVE  MapsInv'
<1> DEFINE x == up[c][1]
           b == [at |-> x.at, atomic |-> FALSE]
           m == [type |-> "OtherBombPlace", bomb |-> b]
           f == <<m>>
           y == server.bombs
<1>1. /\ Take(c, "PlaceBomb") /\ ~Refused(c)
      /\ server' = [server EXCEPT !.bombs =
                       Append(y, [at |-> Head(up[c]).at, atomic |-> FALSE])]
      /\ down' = SendTo(Players \ {c},
                        <<[type |-> "OtherBombPlace",
                           bomb |-> [at |-> Head(up[c]).at, atomic |-> FALSE]]>>)
      /\ history' = history
  BY DEF HandlePlaceBomb
<1>2. /\ c \in server.players
      /\ Rest(up'[c], up[c], Message)
      /\ Head(up[c]) = x /\ x \in Message /\ x.type = "PlaceBomb"
      /\ \A d \in Clients : d # c => up'[d] = up[d]
      /\ client' = client
  BY <1>1, TakeFacts
<1>3. /\ server' = [server EXCEPT !.bombs = Append(y, b)]
      /\ down' = SendTo(Players \ {c}, f)
  <2> HIDE DEF x, y
  <2> QED BY <1>1, <1>2
<1>4. b \in Bomb
  <2>1. x.at \in Floor
    BY <1>2, MessageForms
  <2> QED BY <2>1 DEF Bomb
<1>5. \A a \in Bomb : x \in Asking[a] <=> a = b
  <2>1. \A a \in Bomb : x \in Asking[a] <=> b = a
    BY <1>2 DEF Asking
  <2> QED BY <2>1, Zenon
<1> HIDE DEF x, b
<1>6. m \in News /\ m.type = "OtherBombPlace" /\ m.bomb = b
  BY <1>4, NewsForms
<1> HIDE DEF m
<1>7. f \in Seq(News) /\ Len(f) = 1 /\ f[1] = m
  BY <1>6
<1>8. \A a \in Bomb : m \in Telling[a] <=> a = b
  <2>1. \A a \in Bomb : m \in Telling[a] <=> b = a
    BY <1>6 DEF Telling
  <2> QED BY <2>1, Zenon
<1> HIDE DEF f
<1>9. Brings(f, Telling, b)
  BY <1>7, <1>8, BringsOne
<1>10. server \in ServerType /\ y \in Seq(Bomb)
  BY TypeParts, ServerFields
<1> DEFINE z == Append(y, b)
<1>11. Joined(z, y, <<b>>, Bomb)
  <2> HIDE DEF y
  <2> QED BY <1>4, <1>10, BombAppended
<1> HIDE DEF z
<1>12. /\ server'.bombs = z /\ server'.soft = server.soft
       /\ server'.players = server.players /\ server'.lives = server.lives
  <2>1. server' = [server EXCEPT !.bombs = z]
    BY <1>3 DEF z
  <2> QED BY <1>10, <2>1 DEF ServerType
<1>13. \A d \in Clients : \/ d \in Players \ {c} /\ d \in server.players
                             /\ Joined(down'[d], down[d], f, News)
                          \/ ~(d \in Players \ {c} /\ d \in server.players)
                             /\ down'[d] = down[d]
  BY <1>3, <1>7, SendFacts
<1>14. Alive(c) /\ Facing(c)
  <2>1. c \in Players
    BY Constants
  <2>2. server.lives[c] \in Nat /\ server.lives[c] # 0
    BY <1>1, <2>1, ServerFields DEF Refused
  <2>3. Alive(c)
    BY <1>2, <2>2 DEF Alive
  <2> QED BY <2>3, Zenon DEF MapsInv
<1>15. b \in history.bombs
  <2> DEFINE u == up[c]
             v == up'[c]
  <2>1. u \in Seq(Message) /\ v \in Seq(Message)
    BY <1>2 DEF Rest
  <2>2. OneLess(Pending(y, v, Asking), Pending(y, u, Asking), b)
    <3> HIDE DEF y, u, v
    <3>1. Rest(v, u, Message) /\ \A a \in Bomb : u[1] \in Asking[a] <=> a = b
      BY <1>2, <1>5 DEF u, v, x
    <3> QED BY <1>10, <3>1, PendingTaken
  <2>3. Pending(y, v, Asking) \in [Bomb -> Nat]
    <3> HIDE DEF y, v
    <3> QED BY <1>10, <2>1, PendingFacts
  <2>4. AtServer(c) = Pending(y, u, Asking)
    BY Zenon DEF AtServer
  <2> DEFINE n == Pending(y, u, Asking)[b]
             k == Pending(y, v, Asking)[b]
  <2>5. n = k + 1
    BY <1>4, <2>2 DEF OneLess
  <2>6. k \in Nat
    BY <1>4, <2>3
  <2> HIDE DEF n, k
  <2>7. n # 0
    BY <2>5, <2>6
  <2>8. AtServer(c)[b] # 0
    BY <2>4, <2>7, Zenon DEF n
  <2> QED BY <1>4, <1>14, <2>8, FacingKnows
<1> SUFFICES ASSUME NEW d \in Clients, Alive(d)' PROVE Facing(d)'
  BY Zenon DEF MapsInv
<1>16. Alive(d) /\ Facing(d)
  <2>1. Alive(d)
    BY <1>12, Zenon DEF Alive
  <2> QED BY <2>1, Zenon DEF MapsInv
<1>17. MapsStay(d)
  BY <1>1, <1>2, <1>12, Zenon DEF MapsStay
<1>18. /\ client[d].bombs \in Seq(Bomb)
       /\ AtClient(d) = Pending(client[d].bombs, down[d], Telling)
       /\ AtClient(d)' = Pending(client[d].bombs, down'[d], Telling)
       /\ AtServer(d) = Pending(y, up[d], Asking)
       /\ AtServer(d)' = Pending(z, up'[d], Asking)
  BY <1>2, <1>12, AtFacts DEF AtClient, AtServer
<1>19. CASE d = c
  <2>1. Equal(AtClient(d)', AtClient(d))
    <3>1. down'[d] = down[d]
      BY <1>13, <1>19
    <3> QED BY <1>18, <3>1, Zenon DEF Equal
  <2>2. Equal(AtServer(d)', AtServer(d))
    <3> DEFINE u == up[c]
               v == up'[c]
    <3>1. Rest(v, u, Message) /\ \A a \in Bomb : u[1] \in Asking[a] <=> a = b
      BY <1>2, <1>5 DEF x
    <3> HIDE DEF y, u, v
    <3>2. Equal(Pending(z, v, Asking), Pending(y, u, Asking))
      BY <1>11, <3>1, PendingMoved
    <3> QED BY <1>18, <1>19, <3>2, Zenon DEF u, v
  <2> QED BY <1>16, <1>17, <2>1, <2>2, FacingKept
<1>20. CASE d # c
  <2>1. Joined(down'[d], down[d], f, News)
    <3>1. d \in Players /\ d \in server.players
      BY <1>16, Constants DEF Alive
    <3> QED BY <1>13, <1>20, <3>1
  <2>2. OneMore(AtClient(d)', AtClient(d), b)
    <3>1. OneMore(Pending(client[d].bombs, down'[d], Telling),
                  Pending(client[d].bombs, down[d], Telling), b)
      BY <1>9, <1>18, <2>1, PendingSent
    <3> QED BY <1>18, <3>1, Zenon
  <2>3. Brings(<<b>>, Just, b)
    <3> DEFINE g == <<b>>
    <3>1. Len(g) = 1 /\ \A a \in Bomb : g[1] \in Just[a] <=> a = b
      BY DEF Just
    <3> HIDE DEF g
    <3>2. Brings(g, Just, b)
      BY <3>1, BringsOne
    <3> QED BY <3>2 DEF g
  <2>4. OneMore(AtServer(d)', AtServer(d), b)
    <3> DEFINE u == up[d]
    <3>1. u \in Seq(Message) /\ up'[d] = u
      BY <1>2, <1>20, ClientFields
    <3> HIDE DEF u, y
    <3>2. OneMore(Pending(z, u, Asking), Pending(y, u, Asking), b)
      BY <1>11, <2>3, <3>1, PendingListed
    <3> QED BY <1>18, <3>1, <3>2, Zenon DEF u
  <2>5. b \in history'.bombs
    BY <1>1, <1>15
  <2> QED BY <1>4, <1>16, <1>17, <2>2, <2>4, <2>5, FacingAdds
<1> QED BY <1>19, <1>20

\* The elements of a set of at most one, in order.
LEMMA FewInOrder ==
    ASSUME NEW T, NEW S \in SUBSET T, NEW n \in T, S \in {{}, {n}}
    PROVE  /\ SetToSeq(S) \in Seq(T)
           /\ S = {} => Len(SetToSeq(S)) = 0
           /\ S = {n} => Len(SetToSeq(S)) = 1 /\ SetToSeq(S)[1] = n
<1> DEFINE f == SetToSeq(S)
<1>1. /\ IsFiniteSet({}) /\ Cardinality({}) = 0
      /\ IsFiniteSet({n}) /\ Cardinality({n}) = 1
  BY FS_EmptySet, FS_Singleton
<1>2. IsFiniteSet(S)
  BY <1>1
<1>3. f \in Seq(T) /\ Len(f) = Cardinality(S) /\ ToSet(f) = S
  BY <1>2, SetToSeqFacts
<1> HIDE DEF f
<1>4. S = {} => Len(f) = 0
  BY <1>1, <1>3
<1>5. ASSUME S = {n} PROVE Len(f) = 1 /\ f[1] = n
  <2>1. Len(f) = 1
    BY <1>1, <1>3, <1>5
  <2>2. f[1] \in ToSet(f)
    BY <1>3, <2>1 DEF ToSet
  <2> QED BY <1>3, <1>5, <2>1, <2>2
<1> QED BY <1>3, <1>4, <1>5 DEF f

\* Who leaves alive leaves a bomb, of which the others are told.
LEMMA PartingBrings ==
    ASSUME NEW p \in Players, NEW b \in Bomb, NEW left, left \in {{}, {b}}
    PROVE  /\ SetToSeq(left) \in Seq(Bomb)
           /\ left = {} => /\ BringsNone(SetToSeq(left), Just)
                           /\ BringsNone(Parting(p, left), Telling)
           /\ left = {b} => /\ Brings(SetToSeq(left), Just, b)
                            /\ Brings(Parting(p, left), Telling, b)
<1> DEFINE m == [type |-> "OtherLeave", who |-> p]
           n == [type |-> "OtherBombPlace", bomb |-> b]
           T == {[type |-> "OtherBombPlace", bomb |-> a] : a \in left}
           s == <<m>>
           t == SetToSeq(T)
           f == Parting(p, left)
           g == SetToSeq(left)
<1>1. m \in News /\ m.type = "OtherLeave"
  BY NewsForms
<1>2. n \in News /\ n.type = "OtherBombPlace" /\ n.bomb = b
  BY NewsForms
<1>3. (left = {} => T = {}) /\ (left = {b} => T = {n})
  OBVIOUS
<1>4. f = s \o t
  BY DEF Parting
<1> HIDE DEF m, n, T, f
<1>5. /\ g \in Seq(Bomb)
      /\ left = {} => Len(g) = 0
      /\ left = {b} => Len(g) = 1 /\ g[1] = b
  <2>1. left \in SUBSET Bomb
    OBVIOUS
  <2> QED BY <2>1, FewInOrder
<1>6. /\ t \in Seq(News)
      /\ T = {} => Len(t) = 0
      /\ T = {n} => Len(t) = 1 /\ t[1] = n
  <2>1. T \in SUBSET News /\ T \in {{}, {n}}
    BY <1>2, <1>3
  <2> QED BY <1>2, <2>1, FewInOrder
<1>7. s \in Seq(News) /\ Len(s) = 1 /\ s[1] = m
  BY <1>1
<1> HIDE DEF s, t, g
<1>8. Joined(f, s, t, News)
  BY <1>4, <1>6, <1>7 DEF Joined
<1>9. BringsNone(s, Telling)
  <2>1. Len(s) \in Nat /\ \A a \in Bomb, i \in 1 .. Len(s) : s[i] \notin Telling[a]
    BY <1>1, <1>7 DEF Telling
  <2> QED BY <2>1, BringsNothing
<1>10. \A a \in Bomb : Upto(f, Telling[a], Len(f)) = Upto(t, Telling[a], Len(t))
  <2> SUFFICES ASSUME NEW a \in Bomb
               PROVE  Upto(f, Telling[a], Len(f)) = Upto(t, Telling[a], Len(t))
    OBVIOUS
  <2> DEFINE x == Upto(s, Telling[a], Len(s))
             y == Upto(t, Telling[a], Len(t))
             z == Upto(f, Telling[a], Len(f))
  <2>1. x \in Nat /\ y \in Nat /\ z = x + y
    BY <1>8, BringsJoined
  <2>2. x = 0
    BY <1>9, Zenon DEF BringsNone
  <2> HIDE DEF x, y, z
  <2>3. z = y
    BY <2>1, <2>2
  <2> QED BY <2>3 DEF y, z
<1>11. ASSUME left = {} PROVE BringsNone(g, Just) /\ BringsNone(f, Telling)
  <2>1. Len(g) = 0 /\ Len(t) = 0
    BY <1>3, <1>5, <1>6, <1>11
  <2>2. /\ \A a \in Bomb, i \in 1 .. Len(g) : g[i] \notin Just[a]
        /\ \A a \in Bomb, i \in 1 .. Len(t) : t[i] \notin Telling[a]
    BY <2>1
  <2>3. BringsNone(g, Just)
    BY <2>1, <2>2, BringsNothing
  <2>4. BringsNone(t, Telling)
    BY <2>1, <2>2, BringsNothing
  <2> QED BY <1>10, <2>3, <2>4, Zenon DEF BringsNone
<1>12. ASSUME left = {b} PROVE Brings(g, Just, b) /\ Brings(f, Telling, b)
  <2>1. Len(g) = 1 /\ g[1] = b /\ Len(t) = 1 /\ t[1] = n
    BY <1>3, <1>5, <1>6, <1>12
  <2>2. \A a \in Bomb : g[1] \in Just[a] <=> a = b
    BY <2>1 DEF Just
  <2>3. \A a \in Bomb : t[1] \in Telling[a] <=> a = b
    <3>1. \A a \in Bomb : t[1] \in Telling[a] <=> b = a
      BY <1>2, <2>1 DEF Telling
    <3> QED BY <3>1, Zenon
  <2>4. Brings(g, Just, b)
    BY <2>1, <2>2, BringsOne
  <2>5. Brings(t, Telling, b)
    BY <2>1, <2>3, BringsOne
  <2> QED BY <1>10, <2>4, <2>5, Zenon DEF Brings
<1> QED BY <1>5, <1>11, <1>12 DEF f, g

\* A player leaves: his bomb is in the queue and the others are told.
LEMMA MapsLeave ==
    ASSUME TypeOK, MapsInv, NEW p \in Players, Leave(p)
    PROVE  MapsInv'
<1> DEFINE b == [at |-> Coords(p), atomic |-> TRUE]
           left == IF Alive(p) THEN {b} ELSE {}
           f == Parting(p, left)
           g == SetToSeq(left)
           over == Cardinality(server.players) = 2
           y == server.bombs
           z == y \o g
           S == server.players
<1>1. /\ server' = [server EXCEPT !.players = S \ {p}, !.bombs = z, !.over = over]
      /\ down' = SendTo(Players \ {p}, f)
      /\ history' = [history EXCEPT !.bombs = history.bombs \cup left]
      /\ client' = client /\ up' = up
  BY DEF Leave, Parting
<1>2. b \in Bomb /\ left \in {{}, {b}}
  <2>1. Coords(p) \in Floor
    BY ServerFields DEF Coords, M!Walker
  <2> QED BY <2>1 DEF Bomb
<1> HIDE DEF b, left
<1>3. /\ g \in Seq(Bomb)
      /\ left = {} => BringsNone(g, Just) /\ BringsNone(f, Telling)
      /\ left = {b} => Brings(g, Just, b) /\ Brings(f, Telling, b)
  BY <1>2, PartingBrings
<1>4. f \in Seq(News)
  BY <1>2, PartingFacts
<1>5. server \in ServerType /\ history \in HistoryType /\ y \in Seq(Bomb)
  BY TypeParts, ServerFields
<1> HIDE DEF f, g, y, over
<1>6. Joined(z, y, g, Bomb)
  BY <1>3, <1>5 DEF Joined
<1> HIDE DEF z
<1>7. /\ server'.players = S \ {p} /\ server'.bombs = z /\ server'.soft = server.soft
      /\ server'.lives = server.lives
  BY <1>1, <1>5 DEF ServerType
<1>8. history'.bombs = history.bombs \cup left
  BY <1>1, <1>5 DEF HistoryType
<1> SUFFICES ASSUME NEW d \in Clients, Alive(d)' PROVE Facing(d)'
  BY Zenon DEF MapsInv
<1>9. d # p /\ d \in S /\ Alive(d)
  BY <1>7 DEF Alive
<1>10. Facing(d)
  BY <1>9, Zenon DEF MapsInv
<1>11. MapsStay(d)
  BY <1>1, <1>7, <1>8 DEF MapsStay
<1>12. Joined(down'[d], down[d], f, News)
  <2>1. d \in Players \ {p} /\ d \in server.players
    BY <1>9, Constants
  <2> QED BY <1>1, <1>4, <2>1, SendFacts
<1>13. /\ client[d].bombs \in Seq(Bomb) /\ up[d] \in Seq(Message)
       /\ AtClient(d) = Pending(client[d].bombs, down[d], Telling)
       /\ AtClient(d)' = Pending(client[d].bombs, down'[d], Telling)
       /\ AtServer(d) = Pending(y, up[d], Asking)
       /\ AtServer(d)' = Pending(z, up[d], Asking)
  BY <1>1, <1>7, AtFacts DEF AtClient, AtServer, y
<1>14. CASE left = {}
  <2>1. Equal(AtClient(d)', AtClient(d))
    BY <1>3, <1>12, <1>13, <1>14, PendingSent
  <2>2. Equal(AtServer(d)', AtServer(d))
    BY <1>3, <1>6, <1>13, <1>14, PendingListed
  <2> QED BY <1>10, <1>11, <2>1, <2>2, FacingKept
<1>15. CASE left = {b}
  <2>1. OneMore(AtClient(d)', AtClient(d), b)
    BY <1>3, <1>12, <1>13, <1>15, PendingSent
  <2>2. OneMore(AtServer(d)', AtServer(d), b)
    BY <1>3, <1>6, <1>13, <1>15, PendingListed
  <2>3. b \in history'.bombs
    BY <1>8, <1>15
  <2> QED BY <1>2, <1>10, <1>11, <2>1, <2>2, <2>3, FacingAdds
<1> QED BY <1>2, <1>14, <1>15

\* A bomb goes off on the server's map.
LEMMA MapsExplode ==
    ASSUME TypeOK, MapsInv, Explode
    PROVE  MapsInv'
<1> DEFINE y == server.bombs
           b == Head(y)
           S == server.players
           L == server.lives
<1>1. PICK immune :
         LET hit   == Exposed(b) \ immune
             lives == [p \in Players |-> L[p] - IF p \in hit THEN 1 ELSE 0]
         IN  /\ server' = [server EXCEPT
                   !.bombs = Tail(y), !.lives = lives, !.soft = Boomed(server.soft, b),
                   !.over = Cardinality({p \in S : lives[p] > 0}) < 2]
             /\ down' = SendTo(Players, Blows(hit, lives))
  BY Zenon DEF Explode, Blows
<1> DEFINE hit == Exposed(b) \ immune
           X == [p \in Players |-> L[p] - IF p \in hit THEN 1 ELSE 0]
           f == Blows(hit, X)
           soft == Boomed(server.soft, b)
           over == Cardinality({p \in S : X[p] > 0}) < 2
           z == Tail(y)
<1>2. y # <<>> /\ client' = client /\ up' = up /\ history' = history
  BY DEF Explode
<1>3. /\ server \in ServerType /\ y \in Seq(Bomb) /\ server.soft \in SUBSET Soft
      /\ \A p \in Players : L[p] \in 0 .. Lives /\ L[p] \in Nat
      /\ \A p \in S : p \in Players
  BY TypeParts, ServerFields
<1>4. hit \in SUBSET Players /\ \A p \in hit : L[p] > 0
  BY <1>3 DEF Exposed, Alive
<1>5. /\ server' = [server EXCEPT !.bombs = z, !.lives = X, !.soft = soft, !.over = over]
      /\ down' = SendTo(Players, f)
  BY <1>1
<1> HIDE DEF hit
<1>6. /\ X \in [Players -> 0 .. Lives]
      /\ \A p \in Players : X[p] > 0 => L[p] > 0
  <2>1. ASSUME NEW p \in Players
        PROVE  X[p] \in 0 .. Lives /\ (X[p] > 0 => L[p] > 0)
    <3>1. X[p] = L[p] - IF p \in hit THEN 1 ELSE 0
      OBVIOUS
    <3>2. L[p] \in Nat /\ L[p] \in 0 .. Lives /\ (p \in hit => L[p] > 0) /\ Lives \in Nat
      BY <1>3, <1>4, Constants
    <3> HIDE DEF X
    <3> QED BY <3>1, <3>2
  <2>2. DOMAIN X = Players /\ X = [p \in Players |-> X[p]]
    OBVIOUS
  <2> HIDE DEF X
  <2> QED BY <2>1, <2>2
<1>7. Rest(z, y, Bomb) /\ b = y[1] /\ b \in Bomb
  <2> HIDE DEF y
  <2> QED BY <1>2, <1>3, FirstTaken
<1> HIDE DEF X, f, soft, over, z
<1>8. /\ server'.players = S /\ server'.lives = X /\ server'.bombs = z
      /\ server'.soft = soft
  BY <1>3, <1>5 DEF ServerType
<1>9. f \in Seq(News) /\ \A i \in 1 .. Len(f) : f[i].type = "GotHit"
  <2>1. /\ f \in Seq(News)
        /\ \A i \in 1 .. Len(f) :
              \E p \in hit : f[i] = [type |-> "GotHit", who |-> p, lives |-> X[p]]
    BY <1>4, <1>6, BlowsFacts DEF f
  <2>2. ASSUME NEW i \in 1 .. Len(f) PROVE f[i].type = "GotHit"
    <3>1. PICK p \in hit : f[i] = [type |-> "GotHit", who |-> p, lives |-> X[p]]
      BY <2>1
    <3> QED BY <3>1
  <2> QED BY <2>1, <2>2
<1>10. BringsNone(f, Telling)
  <2>1. Len(f) \in Nat /\ \A a \in Bomb, i \in 1 .. Len(f) : f[i] \notin Telling[a]
    BY <1>9 DEF Telling
  <2> QED BY <2>1, BringsNothing
<1> SUFFICES ASSUME NEW d \in Clients, Alive(d)' PROVE Facing(d)'
  BY Zenon DEF MapsInv
<1>11. Alive(d) /\ Facing(d)
  <2>1. Alive(d)
    BY <1>3, <1>6, <1>8 DEF Alive
  <2> QED BY <2>1, Zenon DEF MapsInv
<1> DEFINE H == history.bombs
           x == client[d].soft
           N == AtClient(d)
           R == AtServer(d)
           P == AtClient(d)'
           Q == AtServer(d)'
<1>12. /\ N \in [Bomb -> Nat] /\ R \in [Bomb -> Nat]
       /\ client[d].bombs \in Seq(Bomb) /\ up[d] \in Seq(Message)
  BY AtFacts
<1>13. P = Pending(client[d].bombs, down'[d], Telling) /\ Q = Pending(z, up[d], Asking)
  BY <1>2, <1>8 DEF AtClient, AtServer
<1>14. Equal(P, N)
  <2>1. Joined(down'[d], down[d], f, News) \/ down'[d] = down[d]
    BY <1>5, <1>9, SendFacts
  <2>2. CASE Joined(down'[d], down[d], f, News)
    <3>1. Equal(Pending(client[d].bombs, down'[d], Telling),
                Pending(client[d].bombs, down[d], Telling))
      BY <1>10, <1>12, <2>2, PendingSent
    <3> QED BY <1>13, <3>1 DEF AtClient
  <2>3. CASE down'[d] = down[d]
    BY <1>13, <2>3, Zenon DEF AtClient, Equal
  <2> QED BY <2>1, <2>2, <2>3
<1>15. Q \in [Bomb -> Nat] /\ OneLess(Q, R, b)
  <2> DEFINE u == up[d]
  <2>1. u \in Seq(Message) /\ z \in Seq(Bomb)
    BY <1>3, <1>12, <1>7 DEF Rest
  <2>2. R = Pending(y, u, Asking)
    BY DEF AtServer
  <2> HIDE DEF u, y, R, Q
  <2>3. OneLess(Pending(z, u, Asking), Pending(y, u, Asking), y[1])
    BY <1>7, <2>1, PendingUnlisted
  <2>4. Pending(z, u, Asking) \in [Bomb -> Nat]
    BY <2>1, PendingFacts
  <2> QED BY <1>7, <1>13, <2>2, <2>3, <2>4 DEF u
<1>16. Matched(H, x, N, server.soft, R, Soft)
  BY <1>11, Zenon DEF Facing
<1>17. client'[d].soft = x /\ server'.soft = Boomed(server.soft, b) /\ history'.bombs = H
  BY <1>2, <1>8 DEF soft
<1> HIDE DEF H, x, N, R, P, Q, y, b
<1> DEFINE w == server.soft
<1>18. w \in SUBSET Soft
  BY <1>3
<1> HIDE DEF w
<1>19. Matched(H, w, R, x, N, Soft)
  BY <1>16, MatchedSwap DEF w
<1>20. Matched(H, Boomed(w, b), Q, x, N, Soft)
  BY <1>7, <1>12, <1>15, <1>18, <1>19, MatchedFalls
<1>21. Matched(H, x, N, Boomed(w, b), Q, Soft)
  BY <1>20, MatchedSwap
<1>22. Matched(H, x, P, Boomed(w, b), Q, Soft)
  <2>1. (\A a \in Bomb : P[a] = N[a]) /\ (\A a \in Bomb : Q[a] = Q[a]) /\ H \subseteq H
    BY <1>14, Zenon DEF Equal
  <2> QED BY <1>21, <2>1, MatchedSame
<1> QED BY <1>17, <1>22, Zenon DEF Facing, H, x, P, Q, w

-----------------------------------------------------------------------------
(* The theorem about the maps.                                             *)

\* At first the maps are the same, and there are no bombs.
LEMMA MapsInit ==
    Init => MapsInv
<1> SUFFICES ASSUME Init, NEW c \in Clients PROVE Facing(c)
  BY Zenon DEF MapsInv
<1>1. /\ server.soft = Soft /\ server.bombs = <<>>
      /\ client[c].soft = Soft /\ client[c].bombs = <<>>
      /\ up[c] = <<>> /\ down[c] = <<>> /\ history.bombs = {}
  BY DEF Init
<1> DEFINE e == <<>>
<1>2. Len(e) = 0 /\ e \in Seq(Bomb) /\ e \in Seq(News) /\ e \in Seq(Message)
  OBVIOUS
<1>3. AtClient(c) = Pending(e, e, Telling) /\ AtServer(c) = Pending(e, e, Asking)
  BY <1>1, Zenon DEF AtClient, AtServer
<1> HIDE DEF e
<1>4. BringsNone(e, Just) /\ BringsNone(e, Telling) /\ BringsNone(e, Asking)
  <2>1. /\ \A b \in Bomb, i \in 1 .. Len(e) : e[i] \notin Just[b]
        /\ \A b \in Bomb, i \in 1 .. Len(e) : e[i] \notin Telling[b]
        /\ \A b \in Bomb, i \in 1 .. Len(e) : e[i] \notin Asking[b]
    BY <1>2
  <2> QED BY <1>2, <2>1, BringsNothing
<1>5. \A b \in Bomb : AtClient(c)[b] = 0
  BY <1>2, <1>3, <1>4, NothingPending
<1>6. \A b \in Bomb : AtServer(c)[b] = 0
  BY <1>2, <1>3, <1>4, NothingPending
<1>7. AtClient(c) = AtServer(c)
  <2>1. AtClient(c) = [b \in Bomb |-> AtClient(c)[b]]
    BY <1>3 DEF Pending
  <2>2. AtServer(c) = [b \in Bomb |-> AtServer(c)[b]]
    BY <1>3 DEF Pending
  <2> QED BY <1>5, <1>6, <2>1, <2>2
<1>8. Matched({}, Soft, AtClient(c), Soft, AtClient(c), Soft)
  <2> DEFINE N == AtClient(c)
  <2>1. \A b \in Bomb : N[b] = 0
    BY <1>5
  <2> HIDE DEF N
  <2>2. Matched({}, Soft, N, Soft, N, Soft)
    BY <2>1, MatchedStart
  <2> QED BY <2>2 DEF N
<1> QED BY <1>1, <1>7, <1>8, Zenon DEF Facing

\* The maps face each other in every state that can be reached.
THEOREM Facings == Spec => []MapsInv
<1>1. Inv /\ MapsInv /\ [Next]_vars => MapsInv'
  <2> SUFFICES ASSUME Inv, MapsInv, [Next]_vars PROVE MapsInv'
    OBVIOUS
  <2>0. TypeOK
    BY Zenon DEF Inv
  <2>1. ASSUME NEW c \in Clients, Look(c) PROVE MapsInv'
    BY <2>0, <2>1, MapsLook
  <2>2. ASSUME NEW c \in Clients, NEW space \in BOOLEAN, NEW K \in SUBSET ArrowsLeft(c),
               Keys(c, space, K)
        PROVE MapsInv'
    BY <2>0, <2>2, MapsKeys
  <2>3. ASSUME NEW c \in Clients, Detonate(c) PROVE MapsInv'
    BY <2>0, <2>3, MapsDetonate
  <2>4. ASSUME NEW c \in Clients, Receive(c) PROVE MapsInv'
    <3>1. down[c] # <<>> /\ down[c] \in Seq(News)
      BY <2>0, <2>4, ClientFields DEF Receive
    <3>2. 1 \in 1 .. Len(down[c])
      BY <3>1
    <3>3. \A i \in 1 .. Len(down[c]) :
             down[c][i] \in Back => down[c][i].at \in Floor \ client[c].soft
      BY Zenon DEF Inv, OfClient, Grounded
    <3>4. down[c][1] \in Back => down[c][1].at \in Floor
      BY <3>2, <3>3
    <3> QED BY <2>0, <2>4, <3>4, MapsReceive
  <2>5. ASSUME NEW c \in Clients, RefuseDead(c) PROVE MapsInv'
    BY <2>0, <2>5, MapsRefuseDead
  <2>6. ASSUME NEW c \in Clients, HandleMove(c) PROVE MapsInv'
    BY <2>6, MapsMove
  <2>7. ASSUME NEW c \in Clients, HandlePlaceBomb(c) PROVE MapsInv'
    BY <2>0, <2>7, MapsPlaceBomb
  <2>8. ASSUME NEW p \in Players, Leave(p) PROVE MapsInv'
    BY <2>0, <2>8, MapsLeave
  <2>9. CASE Explode
    BY <2>0, <2>9, MapsExplode
  <2>10. CASE UNCHANGED vars
    <3>1. /\ server' = server /\ client' = client /\ up' = up /\ down' = down
          /\ history' = history
      BY <2>10 DEF vars
    <3> SUFFICES ASSUME NEW d \in Clients, Alive(d)' PROVE Facing(d)'
      BY Zenon DEF MapsInv
    <3>2. Alive(d)
      BY <3>1, Zenon DEF Alive
    <3>3. Facing(d) /\ MapsSame(d)
      BY <3>1, <3>2, Zenon DEF MapsInv, MapsSame, MapsStay
    <3> QED BY <3>3, FacingSame
  <2> QED BY <2>1, <2>2, <2>3, <2>4, <2>5, <2>6, <2>7, <2>8, <2>9, <2>10, Zenon DEF Next
<1> QED BY <1>1, MapsInit, Invariance, PTL DEF Spec

\* If no two bombs of the match can take the same wall, a living player's
\* client has the server's map as soon as no bomb is left to go off on either,
\* in whatever order the others went off.
THEOREM MapsAgreeAlways == Spec => []MapsAgree
<1>1. Inv /\ MapsInv => MapsAgree
  <2> SUFFICES ASSUME Inv, MapsInv, \A a, b \in history.bombs : a # b => ~Meet(a, b, Soft),
                      NEW c \in Connected, Alive(c), NoBombsUnderWay(c)
               PROVE  client[c].soft = server.soft
    BY Zenon DEF MapsAgree
  <2>1. TypeOK /\ c \in Clients
    BY DEF Inv, Connected
  <2>2. Facing(c)
    BY <2>1, Zenon DEF MapsInv
  <2>3. /\ client[c].soft \in SUBSET Soft /\ server.soft \in SUBSET Soft
        /\ history.bombs \in SUBSET Bomb
        /\ up[c] \in Seq(Message) /\ down[c] \in Seq(News)
    BY <2>1, AtFacts
  <2> DEFINE e == <<>>
             u == up[c]
             d == down[c]
  <2>4. /\ server.bombs = e /\ client[c].bombs = e
        /\ \A i \in 1 .. Len(u) : u[i].type # "PlaceBomb"
        /\ \A i \in 1 .. Len(d) : d[i].type # "OtherBombPlace"
    BY Zenon DEF NoBombsUnderWay
  <2>5. Len(e) = 0 /\ e \in Seq(Bomb)
    OBVIOUS
  <2>6. AtClient(c) = Pending(e, d, Telling) /\ AtServer(c) = Pending(e, u, Asking)
    BY <2>4, Zenon DEF AtClient, AtServer
  <2> HIDE DEF e, u, d
  <2>7. Len(u) \in Nat /\ Len(d) \in Nat /\ u \in Seq(Message) /\ d \in Seq(News)
    BY <2>3 DEF u, d
  <2>8. BringsNone(e, Just)
    <3>1. \A b \in Bomb, i \in 1 .. Len(e) : e[i] \notin Just[b]
      BY <2>5
    <3> QED BY <2>5, <3>1, BringsNothing
  <2>9. BringsNone(d, Telling)
    <3>1. \A b \in Bomb, i \in 1 .. Len(d) : d[i] \notin Telling[b]
      BY <2>4 DEF Telling
    <3> QED BY <2>7, <3>1, BringsNothing
  <2>10. BringsNone(u, Asking)
    <3>1. \A b \in Bomb, i \in 1 .. Len(u) : u[i] \notin Asking[b]
      BY <2>4 DEF Asking
    <3> QED BY <2>7, <3>1, BringsNothing
  <2>11. \A b \in Bomb : AtClient(c)[b] = 0
    BY <2>5, <2>6, <2>7, <2>8, <2>9, NothingPending
  <2>12. \A b \in Bomb : AtServer(c)[b] = 0
    BY <2>5, <2>6, <2>7, <2>8, <2>10, NothingPending
  <2> DEFINE H == history.bombs
             x == client[c].soft
             y == server.soft
             N == AtClient(c)
             R == AtServer(c)
  <2>13. /\ Matched(H, x, N, y, R, Soft) /\ \A b \in Bomb : N[b] = 0 /\ R[b] = 0
         /\ \A a, b \in H : a # b => ~Meet(a, b, Soft)
         /\ x \in SUBSET Soft /\ y \in SUBSET Soft /\ H \in SUBSET Bomb
    BY <2>2, <2>3, <2>11, <2>12, Zenon DEF Facing
  <2> HIDE DEF H, x, y, N, R
  <2>14. x = y
    BY <2>13, MatchedDone
  <2> QED BY <2>14 DEF x, y
<1> QED BY <1>1, Invariance, Facings, PTL

=============================================================================
