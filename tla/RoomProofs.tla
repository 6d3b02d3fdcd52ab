----------------------------- MODULE RoomProofs -----------------------------
(***************************************************************************)
(* Theorems about Room, for every set of usernames and every value of the  *)
(* other constants.                                                        *)
(*                                                                         *)
(* Ok is the inductive invariant: what holds of a room whenever roomsMtx   *)
(* is free.  A handler keeps it, except that an explosion that ends the    *)
(* match leaves a Finished room, in which everybody is marked; either way  *)
(* DisconnectPlayers restores it.                                          *)
(***************************************************************************)
EXTENDS Room, FiniteSetTheorems, TLAPS

Size(r) == Cardinality(r.players)

\* While nobody has left, the players stand in the order of their colors.
Seating(r) ==
    /\ \A p \in r.players : r.ticket[p] <= r.clientCount
    /\ \A p, q \in r.players : r.ticket[p] = r.ticket[q] => p = q
    /\ r.clientCount = Size(r) => \A p \in r.players : r.color[p] + 1 = r.ticket[p]

\* What the counts say about the state of the room.
Counting(r) ==
    /\ Size(r) <= r.clientCount
    /\ r.marked \subseteq r.players /\ r.broken \subseteq r.players
    /\ r.state = "WAIT_FOR_START" => r.clientCount < MaxPlayers
    /\ r.state = "PLAY" => r.clientCount = MaxPlayers
    /\ r.state = "GAME_OVER" => r.players = {}
    /\ r.state # "WAIT_FOR_END"

Fighting(r) == r.state = "PLAY" => Cardinality(Living(r)) >= 2 \/ r.bombs > 0

\* Holds also in the middle of DisconnectPlayers, when the marked players are
\* gone and nobody has looked yet at how many are left.
Half(r) == /\ r \in RoomType
           /\ IsFiniteSet(r.players)
           /\ Counting(r)
           /\ Seating(r)
           /\ Fighting(r)
           /\ r.state = "WAIT_FOR_START" => Living(r) = r.players
           /\ r.state # "GAME_OVER" => r.winners = {}
           /\ Cardinality(r.winners) <= 1

\* A match is never left with one player; a room that waits is only until its
\* second player comes.
Manned(r) ==
    /\ r.state = "WAIT_FOR_START" => Size(r) >= 2 \/ Size(r) = r.clientCount
    /\ r.state = "PLAY" => Size(r) >= 2

Ok(r) == Half(r) /\ Manned(r)

Inv == Ok(room)

\* Nothing that the match is about has changed.
SameMatch(r, s) == /\ s.state = r.state
                   /\ s.players = r.players
                   /\ s.clientCount = r.clientCount
                   /\ s.winners = r.winners

-----------------------------------------------------------------------------
(* Sending and marking.                                                    *)

\* Marking players changes nothing but the marks.
LEMMA MarkedOk ==
    ASSUME NEW r, Ok(r), NEW S, S \subseteq r.players
    PROVE  Ok(Marked(r, S)) /\ SameMatch(r, Marked(r, S))
                            /\ r.marked \subseteq Marked(r, S).marked
<1> DEFINE s == Marked(r, S)
<1>1. /\ s \in RoomType
      /\ s.state = r.state /\ s.players = r.players /\ s.ticket = r.ticket
      /\ s.color = r.color /\ s.lives = r.lives /\ s.broken = r.broken
      /\ s.clientCount = r.clientCount /\ s.bombs = r.bombs
      /\ s.winners = r.winners /\ s.marked = r.marked \cup S
  BY DEF Ok, Half, Counting, RoomType, Marked
<1>2. Living(s) = Living(r)
  BY <1>1 DEF Living
<1> HIDE DEF s
<1>3. Ok(s)
  BY <1>1, <1>2 DEF Ok, Half, Counting, Manned, Seating, Fighting, Size
<1> QED BY <1>1, <1>3 DEF SameMatch, s

\* A connection that goes bad changes nothing but that.
LEMMA BrokenOk ==
    ASSUME NEW r, Ok(r), NEW B, B \subseteq r.players
    PROVE  LET s == [r EXCEPT !.broken = @ \cup B]
           IN  Ok(s) /\ SameMatch(r, s) /\ s.marked = r.marked
<1> DEFINE s == [r EXCEPT !.broken = @ \cup B]
<1>1. /\ s \in RoomType
      /\ s.state = r.state /\ s.players = r.players /\ s.ticket = r.ticket
      /\ s.color = r.color /\ s.lives = r.lives /\ s.marked = r.marked
      /\ s.clientCount = r.clientCount /\ s.bombs = r.bombs
      /\ s.winners = r.winners /\ s.broken = r.broken \cup B
  BY DEF Ok, Half, Counting, RoomType
<1>2. Living(s) = Living(r)
  BY <1>1 DEF Living
<1> HIDE DEF s
<1>3. Ok(s)
  BY <1>1, <1>2 DEF Ok, Half, Counting, Manned, Seating, Fighting, Size
<1> QED BY <1>1, <1>3 DEF SameMatch, s

\* Sending changes nothing but the marks.
LEMMA SentOk ==
    ASSUME NEW r, Ok(r), NEW T, T \subseteq r.players, NEW s \in Sent(r, T)
    PROVE  Ok(s) /\ SameMatch(r, s) /\ r.marked \subseteq s.marked
<1>1. PICK F \in SUBSET (T \cap r.broken) : s = Marked(r, F)
  BY DEF Sent
<1> QED BY <1>1, MarkedOk

-----------------------------------------------------------------------------
(* Joining.                                                                *)

\* A room that waits takes one more player, and may start.
LEMMA JoinOk ==
    ASSUME NEW r, Ok(r), r.state = "WAIT_FOR_START", NEW n \in Names,
           CanJoin(r, n), NEW B \in SUBSET {n},
           NEW s \in JoinPlayer(r, n, B)
    PROVE  /\ Ok(s)
           /\ s.players = r.players \cup {n}
           /\ s.clientCount = r.clientCount + 1
           /\ s.state = IF s.clientCount = MaxPlayers THEN "PLAY" ELSE r.state
           /\ s.winners = r.winners
<1> DEFINE t == Seated(r, n)
<1>1. /\ IsFiniteSet(r.players \cup {n})
      /\ Cardinality(r.players \cup {n}) = Size(r) + 1
      /\ Size(r) \in Nat
  BY FS_AddElement, FS_CardinalityType DEF Ok, Half, CanJoin, Size
<1>2. /\ r.clientCount < MaxPlayers /\ r.clientCount \in Nat
      /\ Size(r) <= r.clientCount /\ MaxPlayers \in Nat
  BY RoomAssumption DEF Ok, Half, Counting, RoomType
<1>3. /\ t \in RoomType
      /\ t.players = r.players \cup {n}
      /\ t.ticket = [r.ticket EXCEPT ![n] = r.clientCount + 1]
      /\ t.color = [r.color EXCEPT ![n] = Size(r)]
      /\ t.lives = [r.lives EXCEPT ![n] = StarterLives]
      /\ t.clientCount = r.clientCount + 1
      /\ t.state = IF r.clientCount + 1 = MaxPlayers THEN "PLAY" ELSE r.state
      /\ t.marked = r.marked /\ t.broken = r.broken /\ t.bombs = r.bombs
      /\ t.winners = r.winners
  <2> DEFINE tk == [r.ticket EXCEPT ![n] = r.clientCount + 1]
             co == [r.color EXCEPT ![n] = Size(r)]
             li == [r.lives EXCEPT ![n] = StarterLives]
             st == IF r.clientCount + 1 = MaxPlayers THEN "PLAY" ELSE r.state
  <2>1. /\ Size(r) \in 0 .. MaxPlayers - 1
        /\ r.clientCount + 1 \in 0 .. MaxPlayers
        /\ StarterLives \in 0 .. StarterLives
    BY <1>1, <1>2, RoomAssumption
  <2>2. /\ tk \in [Names -> 0 .. MaxPlayers]
        /\ co \in [Names -> 0 .. MaxPlayers - 1]
        /\ li \in [Names -> 0 .. StarterLives]
        /\ r \in RoomType
    BY <2>1 DEF Ok, Half, RoomType
  <2>3. st \in GameState /\ r.players \cup {n} \in SUBSET Names
    BY DEF Ok, Half, RoomType, GameState
  <2>4. t = [r EXCEPT !.players = r.players \cup {n}, !.ticket = tk, !.color = co,
                      !.lives = li, !.clientCount = r.clientCount + 1, !.state = st]
    BY DEF Seated, Size
  <2> HIDE DEF t, tk, co, li, st
  <2>5. /\ t \in RoomType
        /\ t.players = r.players \cup {n} /\ t.ticket = tk /\ t.color = co
        /\ t.lives = li /\ t.clientCount = r.clientCount + 1 /\ t.state = st
        /\ t.marked = r.marked /\ t.broken = r.broken
        /\ t.bombs = r.bombs /\ t.winners = r.winners
    BY <2>1, <2>2, <2>3, <2>4 DEF RoomType
  <2> QED BY <2>5 DEF tk, co, li, st
<1> HIDE DEF t
<1>4. Size(t) = Size(r) + 1
  BY <1>1, <1>3 DEF Size
<1>5. Counting(t)
  BY <1>1, <1>2, <1>3, <1>4, RoomAssumption DEF Ok, Half, Counting
<1>6. Manned(t)
  BY <1>1, <1>2, <1>3, <1>4, RoomAssumption DEF Ok, Half, Counting, Manned
<1>7. Seating(t)
  BY <1>1, <1>2, <1>3, <1>4 DEF Ok, Half, Seating, RoomType
<1>8. Living(t) = t.players
  BY <1>3, RoomAssumption DEF Ok, Half, Living, RoomType
<1>9. Fighting(t)
  BY <1>8, <1>6 DEF Fighting, Manned, Size
<1>10. Ok(t)
  BY <1>1, <1>3, <1>5, <1>7, <1>8, <1>9, <1>6 DEF Ok, Half
<1> DEFINE u == [t EXCEPT !.broken = @ \cup B]
<1>11. Ok(u) /\ SameMatch(t, u)
  BY <1>3, <1>10, BrokenOk
<1>12. s \in Sent(u, u.players)
  BY <1>3, <1>11 DEF JoinPlayer, SameMatch, t
<1> HIDE DEF u
<1>13. Ok(s) /\ SameMatch(u, s)
  BY <1>11, <1>12, SentOk
<1> QED BY <1>3, <1>11, <1>13 DEF SameMatch

-----------------------------------------------------------------------------
(* Disconnecting.                                                          *)

\* Erasing players takes their tickets, colours and lives with them.
LEMMA ErasedTyped ==
    ASSUME NEW r \in RoomType, NEW C
    PROVE  LET e == Erased(r, C)
           IN  /\ e \in RoomType
               /\ e.players = r.players \ C
               /\ e.marked = r.marked \ C /\ e.broken = r.broken \ C
               /\ e.ticket = Cleared(r.ticket, C)
               /\ e.color = Cleared(r.color, C)
               /\ e.lives = Cleared(r.lives, C)
               /\ e.state = r.state /\ e.clientCount = r.clientCount
               /\ e.bombs = r.bombs /\ e.winners = r.winners
<1> DEFINE tk == Cleared(r.ticket, C)
           co == Cleared(r.color, C)
           li == Cleared(r.lives, C)
           e == Erased(r, C)
<1>1. /\ tk \in [Names -> 0 .. MaxPlayers]
      /\ co \in [Names -> 0 .. MaxPlayers - 1]
      /\ li \in [Names -> 0 .. StarterLives]
  BY RoomAssumption DEF RoomType, Cleared
<1>2. e = [r EXCEPT !.players = @ \ C, !.marked = @ \ C, !.broken = @ \ C,
                    !.ticket = tk, !.color = co, !.lives = li]
  BY DEF Erased, RoomType
<1> HIDE DEF tk, co, li, e
<1>3. /\ e \in RoomType
      /\ e.players = r.players \ C
      /\ e.marked = r.marked \ C /\ e.broken = r.broken \ C
      /\ e.ticket = tk /\ e.color = co /\ e.lives = li
      /\ e.state = r.state /\ e.clientCount = r.clientCount
      /\ e.bombs = r.bombs /\ e.winners = r.winners
  BY <1>1, <1>2 DEF RoomType
<1> QED BY <1>3 DEF tk, co, li, e

\* What one pass does before it counts who is left.
LEMMA DroppedTyped ==
    ASSUME NEW r \in RoomType, IsFiniteSet(r.players),
           NEW C \in SUBSET r.players, NEW L \in SUBSET r.players
    PROVE  LET d == Dropped(r, C, L)
           IN  /\ d \in RoomType
               /\ d.players = r.players \ C
               /\ d.marked = (r.marked \cup L) \ C /\ d.broken = r.broken \ C
               /\ d.ticket = Cleared(r.ticket, C)
               /\ d.color = Cleared(r.color, C)
               /\ d.lives = Cleared(r.lives, C)
               /\ d.state = r.state /\ d.clientCount = r.clientCount
               /\ d.bombs = r.bombs + AtomicBombs(r, C) /\ d.winners = r.winners
               /\ AtomicBombs(r, C) \in Nat
<1> DEFINE k == Marked(r, L)
           e == Erased(k, C)
           d == Dropped(r, C, L)
<1>1. AtomicBombs(r, C) \in Nat
  <2>1. IsFiniteSet(C \cap Living(r))
    BY FS_Subset
  <2> QED BY <2>1, FS_CardinalityType DEF AtomicBombs
<1>2. /\ k \in RoomType
      /\ k.players = r.players /\ k.ticket = r.ticket
      /\ k.color = r.color /\ k.lives = r.lives /\ k.broken = r.broken
      /\ k.clientCount = r.clientCount /\ k.bombs = r.bombs
      /\ k.winners = r.winners /\ k.marked = r.marked \cup L /\ k.state = r.state
  BY DEF RoomType, Marked
<1> HIDE DEF k
<1>3. /\ e \in RoomType
      /\ e.players = r.players \ C
      /\ e.marked = (r.marked \cup L) \ C /\ e.broken = r.broken \ C
      /\ e.ticket = Cleared(r.ticket, C)
      /\ e.color = Cleared(r.color, C)
      /\ e.lives = Cleared(r.lives, C)
      /\ e.state = r.state /\ e.clientCount = r.clientCount
      /\ e.bombs = r.bombs /\ e.winners = r.winners
  BY <1>2, ErasedTyped
<1> HIDE DEF e
<1>4. d = [e EXCEPT !.bombs = @ + AtomicBombs(r, C)]
  BY DEF Dropped, d, e, k
<1> HIDE DEF d
<1>5. d.bombs = e.bombs + AtomicBombs(r, C) /\ d.bombs \in Nat
  BY <1>1, <1>3, <1>4 DEF RoomType
<1>6. /\ d \in RoomType
      /\ d.players = e.players /\ d.marked = e.marked /\ d.broken = e.broken
      /\ d.ticket = e.ticket /\ d.color = e.color /\ d.lives = e.lives
      /\ d.state = e.state /\ d.clientCount = e.clientCount
      /\ d.winners = e.winners
  BY <1>1, <1>3, <1>4 DEF RoomType
<1> QED BY <1>1, <1>3, <1>5, <1>6 DEF d

\* Removing players keeps what holds in the middle of a pass.  The one case
\* that needs care is a match that loses its living players: each of them
\* leaves a bomb, so a match without two living players has one.
LEMMA DroppedHalf ==
    ASSUME NEW r, Half(r), NEW C \in SUBSET r.players, NEW L \in SUBSET r.players
    PROVE  Half(Dropped(r, C, L))
<1> DEFINE d == Dropped(r, C, L)
<1>1. /\ d \in RoomType
      /\ d.players = r.players \ C
      /\ d.marked = (r.marked \cup L) \ C /\ d.broken = r.broken \ C
      /\ d.ticket = Cleared(r.ticket, C)
      /\ d.color = Cleared(r.color, C)
      /\ d.lives = Cleared(r.lives, C)
      /\ d.state = r.state /\ d.clientCount = r.clientCount
      /\ d.bombs = r.bombs + AtomicBombs(r, C) /\ d.winners = r.winners
      /\ AtomicBombs(r, C) \in Nat
  BY DroppedTyped DEF Half
<1> HIDE DEF d
<1>2. /\ IsFiniteSet(d.players) /\ Size(d) <= Size(r)
      /\ Size(d) \in Nat /\ Size(r) \in Nat
      /\ Size(d) = Size(r) => d.players = r.players
  BY <1>1, FS_Subset, FS_CardinalityType DEF Half, Size
<1>3. Living(d) = Living(r) \ C
  BY <1>1 DEF Living, Cleared, Half, RoomType
<1>4. Counting(d)
  BY <1>1, <1>2 DEF Half, Counting, RoomType
<1>5. Seating(d)
  <2>1. \A p \in d.players : /\ p \in r.players /\ p \in Names
                             /\ d.ticket[p] = r.ticket[p]
                             /\ d.color[p] = r.color[p]
    BY <1>1 DEF Cleared, Half, RoomType
  <2>2. d.clientCount = Size(d) => d.players = r.players /\ r.clientCount = Size(r)
    BY <1>1, <1>2 DEF Half, Counting, RoomType
  <2> QED BY <1>1, <2>1, <2>2 DEF Half, Seating
<1>6. Fighting(d)
  <2>0. Cardinality(Living(d)) \in Nat
    <3>1. Living(d) \subseteq d.players
      BY DEF Living
    <3> QED BY <1>2, <3>1, FS_Subset, FS_CardinalityType
  <2> SUFFICES ASSUME d.state = "PLAY", Cardinality(Living(d)) < 2
               PROVE  d.bombs > 0
    BY <2>0 DEF Fighting
  <2>1. IsFiniteSet(C \cap Living(r)) /\ Cardinality(C \cap Living(r)) \in Nat
    BY FS_Subset, FS_CardinalityType DEF Half, Living
  <2>2. r.bombs \in Nat
    BY DEF Half, RoomType
  <2>3. CASE C \cap Living(r) = {}
    <3>1. Living(d) = Living(r)
      BY <1>3, <2>3
    <3> QED BY <1>1, <2>0, <2>2, <3>1 DEF Half, Fighting
  <2>4. CASE C \cap Living(r) # {}
    <3>1. Cardinality(C \cap Living(r)) > 0
      BY <2>1, <2>4, FS_EmptySet
    <3> QED BY <1>1, <2>2, <3>1 DEF AtomicBombs
  <2> QED BY <2>3, <2>4
<1>7. d.state = "WAIT_FOR_START" => Living(d) = d.players
  BY <1>1, <1>3 DEF Half
<1>8. Half(d)
  BY <1>1, <1>2, <1>4, <1>5, <1>6, <1>7 DEF Half
<1> QED BY <1>8 DEF d

\* How one pass, or one critical section, may change the match.
Kept(r, t) == /\ t.state = r.state
              /\ t.players \subseteq r.players
              /\ t.players = r.players \/ Size(t) >= 2
              /\ t.clientCount = r.clientCount
              /\ t.winners = r.winners

Ended(r, t) == /\ r.state # "GAME_OVER" /\ t.state = "GAME_OVER"
               /\ r.players # {} /\ t.players = {}
               /\ t.clientCount = r.clientCount
               /\ t.winners \subseteq r.players
               /\ Cardinality(t.winners) <= 1

\* The room is closed, by the switch or before it.
Closed(d, t) == /\ t.state = "GAME_OVER" /\ t.players = {}
                /\ t.clientCount = d.clientCount
                /\ \/ t.winners = d.winners
                   \/ d.state # "GAME_OVER" /\ t.winners = d.players
                /\ Cardinality(t.winners) <= 1

\* The switch restores what the removal may have broken.
LEMMA SettledOk ==
    ASSUME NEW d, Half(d)
    PROVE  LET t == Settled(d)
           IN  /\ Ok(t)
               /\ t.players \subseteq d.players
               /\ \/ Kept(d, t) /\ (t.state = "GAME_OVER" \/ Size(t) >= 2)
                  \/ Closed(d, t)
<1> DEFINE t == Settled(d)
<1>1. Size(d) \in Nat
  BY FS_CardinalityType DEF Half, Size
<1>2. CASE Size(d) = 0
  <2>1. d.players = {}
    BY <1>2, FS_EmptySet DEF Half, Size
  <2>2. t = [d EXCEPT !.state = "GAME_OVER"]
    BY <1>2 DEF Settled, Size
  <2> HIDE DEF t
  <2>3. /\ t \in RoomType
        /\ t.state = "GAME_OVER" /\ t.players = d.players /\ t.ticket = d.ticket
        /\ t.color = d.color /\ t.marked = d.marked /\ t.broken = d.broken
        /\ t.clientCount = d.clientCount /\ t.winners = d.winners
    BY <2>2 DEF Half, RoomType, GameState
  <2>4. Size(t) = 0
    BY <1>2, <2>3 DEF Size
  <2>5. Counting(t) /\ Seating(t) /\ Fighting(t) /\ Manned(t)
    BY <2>1, <2>3, <2>4 DEF Half, Counting, Seating, Fighting, Manned, RoomType
  <2>6. Ok(t)
    BY <2>3, <2>5 DEF Half, Ok
  <2> QED BY <2>1, <2>3, <2>6 DEF t, Half, Closed
<1>3. CASE Size(d) = 1
  <2> DEFINE e == Erased(d, d.players)
  <2>1. /\ e \in RoomType
        /\ e.players = {} /\ e.marked = {} /\ e.broken = {}
        /\ e.clientCount = d.clientCount
        /\ e.winners = d.winners
    <3>1. d.marked \subseteq d.players /\ d.broken \subseteq d.players
      BY DEF Half, Counting
    <3> QED BY <3>1, ErasedTyped DEF Half
  <2>2. t = [e EXCEPT !.state = "GAME_OVER", !.winners = @ \cup d.players]
    BY <1>3 DEF Settled, Size
  <2> HIDE DEF t, e
  <2>3. d.state # "GAME_OVER" /\ d.winners = {}
    <3>1. d.players # {}
      BY <1>3, FS_EmptySet DEF Size
    <3> QED BY <3>1 DEF Half, Counting
  <2>4. /\ t \in RoomType
        /\ t.state = "GAME_OVER" /\ t.players = {}
        /\ t.marked = {} /\ t.broken = {}
        /\ t.clientCount = d.clientCount /\ t.winners = d.players
    BY <2>1, <2>2, <2>3 DEF Half, RoomType, GameState
  <2>5. Size(t) = 0 /\ IsFiniteSet(t.players)
    BY <2>4, FS_EmptySet DEF Size
  <2>6. Counting(t) /\ Seating(t) /\ Fighting(t) /\ Manned(t)
    BY <2>4, <2>5 DEF Counting, Seating, Fighting, Manned, RoomType
  <2>7. Ok(t)
    BY <1>3, <2>4, <2>5, <2>6 DEF Half, Ok, Size
  <2> QED BY <1>3, <2>3, <2>4, <2>7 DEF t, Size, Closed
<1>4. CASE Size(d) # 0 /\ Size(d) # 1
  <2>1. t = d
    BY <1>4 DEF Settled, Size
  <2>2. Size(d) >= 2
    BY <1>1, <1>4
  <2> QED BY <2>1, <2>2 DEF Half, Ok, Manned, Kept
<1> QED BY <1>2, <1>3, <1>4

\* DisconnectPlayers leaves a room that goes on, or ends it.
LEMMA DisconnectOk ==
    ASSUME NEW r, Ok(r), r.players # {} \/ r.state = "GAME_OVER",
           NEW t \in DisconnectPlayers(r)
    PROVE  /\ Ok(t)
           /\ Kept(r, t) \/ Ended(r, t)
           /\ r.marked \cap t.players = {}
           /\ t.state = "GAME_OVER" \/ t.players # {}
<1>0. PICK C \in Gone(r) :
         t \in {Settled(Dropped(r, C, L)) : L \in SUBSET Late(r, C)}
  BY DEF DisconnectPlayers
<1>1. PICK L \in SUBSET Late(r, C) : t = Settled(Dropped(r, C, L))
  BY <1>0
<1>2. C \in SUBSET r.players /\ r.marked \subseteq C /\ L \in SUBSET r.players
  BY DEF Gone, Late
<1> DEFINE d == Dropped(r, C, L)
<1>3. Half(d)
  BY <1>2, DroppedHalf DEF Ok
<1>4. /\ d.players = r.players \ C
      /\ d.state = r.state /\ d.clientCount = r.clientCount
      /\ d.winners = r.winners
  BY <1>2, DroppedTyped DEF Ok, Half
<1> HIDE DEF d
<1>5. /\ Ok(t)
      /\ t.players \subseteq d.players
      /\ \/ Kept(d, t) /\ (t.state = "GAME_OVER" \/ Size(t) >= 2)
         \/ Closed(d, t)
  BY <1>1, <1>3, SettledOk DEF d
<1>6. Size(t) >= 2 => t.players # {}
  BY FS_EmptySet DEF Size
<1>7. Kept(r, t) \/ Ended(r, t)
  <2>1. r.state # "GAME_OVER" => r.winners = {}
    BY DEF Ok, Half
  <2>2. r.state = "GAME_OVER" => r.players = {}
    BY DEF Ok, Half, Counting
  <2>3. CASE Kept(d, t) /\ (t.state = "GAME_OVER" \/ Size(t) >= 2)
    BY <1>4, <2>2, <2>3 DEF Kept
  <2>4. CASE Closed(d, t)
    BY <1>4, <2>1, <2>2, <2>4 DEF Kept, Ended, Closed
  <2> QED BY <1>5, <2>3, <2>4
<1> QED BY <1>2, <1>4, <1>5, <1>6, <1>7 DEF Closed

\* A second pass adds nothing new.
LEMMA Again ==
    ASSUME NEW r, NEW s, NEW t,
           Kept(r, s) \/ Ended(r, s), Kept(s, t) \/ Ended(s, t)
    PROVE  Kept(r, t) \/ Ended(r, t)
BY DEF Kept, Ended, Size

\* After an explosion that ends the match everybody is marked.
Finished(s) == /\ s \in RoomType
               /\ IsFiniteSet(s.players)
               /\ s.state = "GAME_OVER"
               /\ s.marked = s.players
               /\ s.broken \subseteq s.players
               /\ Cardinality(s.winners) <= 1

\* The end of a match.
LEMMA FinishedOk ==
    ASSUME NEW s, Finished(s), NEW t \in DisconnectPlayers(s)
    PROVE  /\ Ok(t)
           /\ t.state = "GAME_OVER" /\ t.players = {}
           /\ t.clientCount = s.clientCount /\ t.winners = s.winners
<1>0. PICK C \in Gone(s) :
         t \in {Settled(Dropped(s, C, L)) : L \in SUBSET Late(s, C)}
  BY DEF DisconnectPlayers
<1>1. PICK L \in SUBSET Late(s, C) : t = Settled(Dropped(s, C, L))
  BY <1>0
<1>2. C \in SUBSET s.players /\ L \in SUBSET s.players
  BY DEF Gone, Late
<1>3. C = s.players
  BY DEF Gone, Finished
<1> DEFINE d == Dropped(s, C, L)
<1>4. /\ d \in RoomType
      /\ d.players = {} /\ d.marked = {} /\ d.broken = {}
      /\ d.state = s.state /\ d.clientCount = s.clientCount
      /\ d.winners = s.winners
  <2>1. s \in RoomType /\ IsFiniteSet(s.players)
    BY DEF Finished
  <2>2. /\ d \in RoomType
        /\ d.players = s.players \ C
        /\ d.marked = (s.marked \cup L) \ C /\ d.broken = s.broken \ C
        /\ d.ticket = Cleared(s.ticket, C)
        /\ d.color = Cleared(s.color, C)
        /\ d.lives = Cleared(s.lives, C)
        /\ d.state = s.state /\ d.clientCount = s.clientCount
        /\ d.bombs = s.bombs + AtomicBombs(s, C) /\ d.winners = s.winners
        /\ AtomicBombs(s, C) \in Nat
    BY <1>2, <2>1, DroppedTyped
  <2>3. L \subseteq C /\ s.marked = C /\ s.broken \subseteq C
    BY <1>2, <1>3 DEF Finished
  <2> HIDE DEF d
  <2> QED BY <1>3, <2>2, <2>3
<1> HIDE DEF d
<1>5. Size(d) = 0 /\ IsFiniteSet(d.players)
  BY <1>4, FS_EmptySet DEF Size
<1>6. Half(d)
  BY <1>4, <1>5 DEF Half, Counting, Seating, Fighting, Finished, RoomType
<1>7. /\ Ok(t)
      /\ t.players \subseteq d.players
      /\ \/ Kept(d, t) /\ (t.state = "GAME_OVER" \/ Size(t) >= 2)
         \/ Closed(d, t)
  BY <1>1, <1>6, SettledOk DEF d
<1> QED BY <1>4, <1>7 DEF Finished, Kept, Closed

\* A handler whose result s differs from r in marks and bombs at most, and
\* then the two passes of the rooms thread.
LEMMA TwoPasses ==
    ASSUME NEW r, NEW s, Ok(s), SameMatch(r, s), r.marked \subseteq s.marked,
           r.players # {}, NEW t \in DisconnectPlayers(s),
           NEW u \in DisconnectPlayers(t)
    PROVE  /\ Ok(u)
           /\ Kept(r, u) \/ Ended(r, u)
           /\ r.marked \cap u.players = {}
<1>1. s.players # {}
  BY DEF SameMatch
<1>2. /\ Ok(t)
      /\ Kept(s, t) \/ Ended(s, t)
      /\ s.marked \cap t.players = {}
      /\ t.players # {} \/ t.state = "GAME_OVER"
  BY <1>1, DisconnectOk
<1>3. Ok(u) /\ (Kept(t, u) \/ Ended(t, u))
  BY <1>2, DisconnectOk
<1>4. Kept(s, u) \/ Ended(s, u)
  BY <1>2, <1>3, Again
<1>5. Kept(r, u) \/ Ended(r, u)
  BY <1>4 DEF SameMatch, Kept, Ended
<1>6. u.players \subseteq t.players
  BY <1>3 DEF Kept, Ended
<1> QED BY <1>2, <1>3, <1>5, <1>6

-----------------------------------------------------------------------------
(* Explosions.                                                             *)

\* Where the bomb does not end the match it leaves at least two alive.
LEMMA ExplosionOk ==
    ASSUME NEW r, Ok(r), NEW s \in NotifyExplosion(r)
    PROVE  \/ Ok(s) /\ SameMatch(r, s) /\ r.marked \subseteq s.marked
           \/ /\ Finished(s)
              /\ r.state = "PLAY" /\ s.players = r.players
              /\ s.clientCount = r.clientCount /\ s.winners \subseteq r.players
<1>1. CASE r.state # "PLAY" \/ r.bombs = 0
  BY <1>1 DEF NotifyExplosion, SameMatch
<1>2. CASE r.state = "PLAY" /\ r.bombs # 0
  <2>1. PICK H \in SUBSET Living(r) : s \in Exploded(r, H)
    BY <1>2 DEF NotifyExplosion
  <2> DEFINE h == Hit(r, H)
             li == [n \in Names |-> IF n \in H THEN r.lives[n] - 1 ELSE r.lives[n]]
  <2>2. /\ H \subseteq r.players /\ r \in RoomType
        /\ r.bombs \in Nat /\ r.bombs - 1 \in Nat
    BY <1>2 DEF Living, Ok, Half, RoomType
  <2>3. li \in [Names -> 0 .. StarterLives]
    BY <2>2, RoomAssumption DEF Living, RoomType
  <2>4. h = [r EXCEPT !.bombs = @ - 1, !.lives = li]
    BY <2>2 DEF Hit, RoomType
  <2> HIDE DEF h, li
  <2>5. /\ h \in RoomType
        /\ h.state = r.state /\ h.players = r.players /\ h.ticket = r.ticket
        /\ h.color = r.color /\ h.marked = r.marked /\ h.broken = r.broken
        /\ h.clientCount = r.clientCount /\ h.winners = r.winners
    BY <2>2, <2>3, <2>4 DEF RoomType
  <2>6. /\ IsFiniteSet(Living(h)) /\ Cardinality(Living(h)) \in Nat
        /\ Living(h) \subseteq r.players
    <3>1. Living(h) \subseteq r.players
      BY <2>5 DEF Living
    <3> QED BY <3>1, FS_Subset, FS_CardinalityType DEF Ok, Half
  <2>7. \A w \in r.players : Finished(Won(h, w)) /\ Won(h, w).players = r.players
                               /\ Won(h, w).clientCount = r.clientCount
                               /\ Won(h, w).winners \subseteq r.players
    <3> TAKE w \in r.players
    <3> DEFINE v == Won(h, w)
    <3>1. /\ v \in RoomType
          /\ v.state = "GAME_OVER" /\ v.players = r.players
          /\ v.marked = r.players /\ v.broken = r.broken
          /\ v.clientCount = r.clientCount /\ v.winners = r.winners \cup {w}
      BY <2>5 DEF Won, RoomType, GameState
    <3>2. v.winners = {w}
      BY <1>2, <3>1 DEF Ok, Half
    <3>3. Cardinality(v.winners) = 1
      BY <3>2, FS_Singleton
    <3> HIDE DEF v
    <3>4. Finished(v)
      BY <3>1, <3>3 DEF Finished, Ok, Half, Counting
    <3> QED BY <3>1, <3>2, <3>4 DEF v
  <2>8. CASE Cardinality(Living(h)) = 0
    <3>1. PICK w \in r.players : s = Won(h, w)
      BY <2>1, <2>8 DEF Exploded, MutualWinners, h
    <3> QED BY <1>2, <2>7, <3>1
  <2>9. CASE Cardinality(Living(h)) = 1
    <3>1. PICK w \in Living(h) : s = Won(h, w)
      BY <2>1, <2>9 DEF Exploded, h
    <3> QED BY <1>2, <2>6, <2>7, <3>1
  <2>10. CASE Cardinality(Living(h)) # 0 /\ Cardinality(Living(h)) # 1
    <3>1. s \in Sent(h, IF H = {} THEN {} ELSE r.players)
      BY <2>1, <2>10 DEF Exploded, h
    <3>2. Cardinality(Living(h)) >= 2
      BY <2>6, <2>10
    <3>3. Ok(h)
      BY <1>2, <2>5, <3>2
         DEF Ok, Half, Counting, Manned, Seating, Fighting, Size
    <3>4. Ok(s) /\ SameMatch(h, s) /\ h.marked \subseteq s.marked
      BY <2>5, <3>1, <3>3, SentOk
    <3> QED BY <2>5, <3>4 DEF SameMatch
  <2> QED BY <2>8, <2>9, <2>10
<1> QED BY <1>1, <1>2

-----------------------------------------------------------------------------
(* The critical sections.                                                  *)

\* A room that was just created.
LEMMA InitOk == Init => Inv
<1> SUFFICES ASSUME Init PROVE Ok(room)
  BY DEF Inv
<1>1. room \in RoomType
  BY RoomAssumption DEF Init, NewRoom, RoomType, GameState
<1>2. /\ room.players = {} /\ room.marked = {} /\ room.broken = {}
      /\ room.clientCount = 0 /\ room.winners = {} /\ room.state = "WAIT_FOR_START"
  BY DEF Init, NewRoom
<1>3. IsFiniteSet(room.players) /\ Size(room) = 0 /\ Cardinality(room.winners) = 0
  BY <1>2, FS_EmptySet DEF Size
<1>4. Living(room) = {}
  BY <1>2 DEF Living
<1> QED BY <1>1, <1>2, <1>3, <1>4, RoomAssumption
       DEF Ok, Half, Counting, Manned, Seating, Fighting

\* What every critical section but a join does.
Section == /\ Ok(room')
           /\ Kept(room, room') \/ Ended(room, room')

\* A message that changed the room in a permitted way may be handled.
LEMMA HandledOk ==
    ASSUME NEW results, NEW p \in room.players, Handled(results),
           \A s \in results : /\ Ok(s) /\ SameMatch(room, s)
                              /\ room.marked \subseteq s.marked
    PROVE  Section /\ room.marked \cap room'.players = {}
<1>1. PICK s \in results :
         \E t \in DisconnectPlayers(s) : room' \in DisconnectPlayers(t)
  BY DEF Handled
<1>2. PICK t \in DisconnectPlayers(s) : room' \in DisconnectPlayers(t)
  BY <1>1
<1>3. room.players # {}
  OBVIOUS
<1> QED BY <1>1, <1>2, <1>3, TwoPasses DEF Section

\* A refusal.
LEMMA RefuseOk ==
    ASSUME Inv, NEW p \in Names, Refuse(p)
    PROVE  Section /\ room.marked \cap room'.players = {}
<1>1. p \in room.players /\ Handled(Sent(room, {p}))
  BY DEF Refuse, Served
<1>2. \A s \in Sent(room, {p}) : Ok(s) /\ SameMatch(room, s) /\ room.marked \subseteq s.marked
  BY <1>1, SentOk DEF Inv
<1> QED BY <1>1, <1>2, HandledOk

\* A player at the front is marked, and goes.
LEMMA LeaveBeforeStartOk ==
    ASSUME Inv, NEW p \in Names, LeaveBeforeStart(p)
    PROVE  Section /\ room.marked \cap room'.players = {}
<1> DEFINE front == {q \in room.players : \A o \in room.players : ~Before(room, o, q)}
<1>1. p \in room.players /\ Handled({Marked(room, front)})
  BY DEF LeaveBeforeStart, Served
<1>2. front \subseteq room.players
  OBVIOUS
<1> HIDE DEF front
<1>3. \A s \in {Marked(room, front)} :
         Ok(s) /\ SameMatch(room, s) /\ room.marked \subseteq s.marked
  BY <1>2, MarkedOk DEF Inv
<1> QED BY <1>1, <1>3, HandledOk

\* PLAYER_MOVE.
LEMMA MoveOk ==
    ASSUME Inv, NEW p \in Names, Move(p)
    PROVE  Section /\ room.marked \cap room'.players = {}
<1> DEFINE results == Sent(room, {p}) \cup Sent(room, room.players \ {p})
<1>1. p \in room.players /\ Handled(results)
  BY DEF Move, Served
<1>2. \A s \in results : Ok(s) /\ SameMatch(room, s) /\ room.marked \subseteq s.marked
  BY <1>1, SentOk DEF Inv
<1> HIDE DEF results
<1> QED BY <1>1, <1>2, HandledOk

\* PLACE_BOMB.
LEMMA PlaceBombOk ==
    ASSUME Inv, NEW p \in Names, PlaceBomb(p)
    PROVE  Section /\ room.marked \cap room'.players = {}
<1> DEFINE b == [room EXCEPT !.bombs = @ + 1]
           results == Sent(b, room.players \ {p})
<1>1. p \in room.players /\ Handled(results)
  BY DEF PlaceBomb, Served
<1>2. /\ b \in RoomType
      /\ b.state = room.state /\ b.players = room.players
      /\ b.ticket = room.ticket /\ b.color = room.color /\ b.lives = room.lives
      /\ b.marked = room.marked /\ b.broken = room.broken
      /\ b.clientCount = room.clientCount /\ b.winners = room.winners
      /\ b.bombs > 0
  BY DEF Inv, Ok, Half, RoomType
<1> HIDE DEF b
<1>3. Living(b) = Living(room)
  BY <1>2 DEF Living
<1>4. Ok(b)
  BY <1>2, <1>3 DEF Inv, Ok, Half, Counting, Manned, Seating, Fighting, Size
<1>5. \A s \in results : Ok(s) /\ SameMatch(room, s) /\ room.marked \subseteq s.marked
  <2> TAKE s \in results
  <2>1. Ok(s) /\ SameMatch(b, s) /\ b.marked \subseteq s.marked
    BY <1>2, <1>4, SentOk
  <2> QED BY <1>2, <2>1 DEF SameMatch
<1> HIDE DEF results
<1> QED BY <1>1, <1>5, HandledOk

\* LEAVE_ROOM during the match.
LEMMA LeaveOk ==
    ASSUME Inv, NEW p \in Names, Leave(p)
    PROVE  Section /\ room.marked \cap room'.players = {}
<1>1. p \in room.players /\ Handled({Marked(room, {p})})
  BY DEF Leave, Served
<1>2. \A s \in {Marked(room, {p})} :
         Ok(s) /\ SameMatch(room, s) /\ room.marked \subseteq s.marked
  BY <1>1, MarkedOk DEF Inv
<1> QED BY <1>1, <1>2, HandledOk

\* A read that fails.
LEMMA HangupOk ==
    ASSUME Inv, NEW p \in Names, Hangup(p)
    PROVE  Section /\ room.marked \cap room'.players = {}
<1> DEFINE s == Marked(room, {p})
<1>1. p \in room.players /\ room' \in DisconnectPlayers(s)
  BY DEF Hangup, Served
<1>2. Ok(s) /\ SameMatch(room, s) /\ room.marked \subseteq s.marked
  BY <1>1, MarkedOk DEF Inv
<1> HIDE DEF s
<1>3. s.players # {}
  BY <1>1, <1>2 DEF SameMatch
<1>4. /\ Ok(room')
      /\ Kept(s, room') \/ Ended(s, room')
      /\ s.marked \cap room'.players = {}
  BY <1>1, <1>2, <1>3, DisconnectOk
<1> QED BY <1>2, <1>4 DEF Section, SameMatch, Kept, Ended

\* An explosion ends in a disconnection.
LEMMA ExplodeOk ==
    ASSUME Inv, Explode
    PROVE  Section /\ room.marked \cap room'.players = {}
<1>1. PICK s \in NotifyExplosion(room) : room' \in DisconnectPlayers(s)
  BY DEF Explode
<1>2. CASE Ok(s) /\ SameMatch(room, s) /\ room.marked \subseteq s.marked
  <2>1. s.players # {} \/ s.state = "GAME_OVER"
    <3>1. room.state = "PLAY" => room.players # {}
      BY FS_EmptySet DEF Inv, Ok, Manned, Size
    <3> QED BY <1>2, <3>1 DEF Explode, SameMatch
  <2>2. /\ Ok(room')
        /\ Kept(s, room') \/ Ended(s, room')
        /\ s.marked \cap room'.players = {}
    BY <1>1, <1>2, <2>1, DisconnectOk
  <2> QED BY <1>2, <2>2 DEF Section, SameMatch, Kept, Ended
<1>3. CASE /\ Finished(s)
           /\ room.state = "PLAY" /\ s.players = room.players
           /\ s.clientCount = room.clientCount /\ s.winners \subseteq room.players
  <2>1. /\ Ok(room')
        /\ room'.state = "GAME_OVER" /\ room'.players = {}
        /\ room'.clientCount = s.clientCount /\ room'.winners = s.winners
    BY <1>1, <1>3, FinishedOk
  <2>2. room.players # {}
    BY <1>3, FS_EmptySet DEF Inv, Ok, Manned, Size
  <2>3. Ended(room, room')
    BY <1>3, <2>1, <2>2 DEF Ended, Finished
  <2> QED BY <2>1, <2>3 DEF Section
<1> QED BY <1>1, <1>2, <1>3, ExplosionOk DEF Inv

\* The process ends.
LEMMA WinnerOutOfRangeOk ==
    ASSUME Inv, WinnerOutOfRange
    PROVE  Section /\ ~room'.up
<1>1. /\ room' \in RoomType /\ ~room'.up
      /\ room'.state = room.state /\ room'.players = room.players
      /\ room'.ticket = room.ticket /\ room'.color = room.color
      /\ room'.lives = room.lives /\ room'.bombs = room.bombs
      /\ room'.marked = room.marked /\ room'.broken = room.broken
      /\ room'.clientCount = room.clientCount /\ room'.winners = room.winners
  BY DEF Inv, Ok, Half, RoomType, WinnerOutOfRange
<1>2. Living(room') = Living(room)
  BY <1>1 DEF Living
<1>3. Ok(room')
  BY <1>1, <1>2 DEF Inv, Ok, Half, Counting, Manned, Seating, Fighting, Size
<1> QED BY <1>1, <1>3 DEF Section, Kept

\* A send hangs, and the server with it.
LEMMA SendHangsOk ==
    ASSUME Inv, SendHangs
    PROVE  Section /\ ~room'.up
<1>1. /\ room' \in RoomType /\ ~room'.up
      /\ room'.state = room.state /\ room'.players = room.players
      /\ room'.ticket = room.ticket /\ room'.color = room.color
      /\ room'.lives = room.lives /\ room'.bombs = room.bombs
      /\ room'.marked = room.marked /\ room'.broken = room.broken
      /\ room'.clientCount = room.clientCount /\ room'.winners = room.winners
  BY DEF Inv, Ok, Half, RoomType, SendHangs
<1>2. Living(room') = Living(room)
  BY <1>1 DEF Living
<1>3. Ok(room')
  BY <1>1, <1>2 DEF Inv, Ok, Half, Counting, Manned, Seating, Fighting, Size
<1> QED BY <1>1, <1>3 DEF Section, Kept

\* A timer of the room is lost.
LEMMA LoseTimerOk ==
    ASSUME Inv, LoseTimer
    PROVE  Section
<1>1. /\ room' \in RoomType
      /\ room'.state = room.state /\ room'.players = room.players
      /\ room'.ticket = room.ticket /\ room'.color = room.color
      /\ room'.lives = room.lives /\ room'.bombs = room.bombs
      /\ room'.marked = room.marked /\ room'.broken = room.broken
      /\ room'.clientCount = room.clientCount /\ room'.winners = room.winners
  BY DEF Inv, Ok, Half, RoomType, LoseTimer
<1>2. Living(room') = Living(room)
  BY <1>1 DEF Living
<1>3. Ok(room')
  BY <1>1, <1>2 DEF Inv, Ok, Half, Counting, Manned, Seating, Fighting, Size
<1> QED BY <1>1, <1>3 DEF Section, Kept

\* A connection breaks.
LEMMA BreakOk ==
    ASSUME Inv, NEW p \in Names, Break(p)
    PROVE  Section
<1>1. {p} \subseteq room.players /\ room' = [room EXCEPT !.broken = @ \cup {p}]
  BY DEF Break
<1>2. Ok(room') /\ SameMatch(room, room')
  BY <1>1, BrokenOk DEF Inv
<1> QED BY <1>2 DEF Section, SameMatch, Kept

\* JOIN_ROOM.
LEMMA JoinStepOk ==
    ASSUME Inv, NEW n \in Names, Join(n)
    PROVE  /\ Ok(room')
           /\ room.state = "WAIT_FOR_START" /\ CanJoin(room, n)
           /\ room'.players = room.players \cup {n}
           /\ room'.clientCount = room.clientCount + 1
           /\ room'.state = IF room'.clientCount = MaxPlayers
                            THEN "PLAY" ELSE room.state
           /\ room'.winners = room.winners
<1>1. PICK B \in SUBSET {n} : room' \in JoinPlayer(room, n, B)
  BY DEF Join
<1>2. room.state = "WAIT_FOR_START" /\ CanJoin(room, n)
  BY DEF Join
<1> QED BY <1>1, <1>2, JoinOk DEF Inv

-----------------------------------------------------------------------------
(* The theorems.                                                           *)

\* Every kind of step, and what is known of it.
LEMMA EveryStep ==
    ASSUME Inv, Next
    PROVE  \/ \E n \in Names : Join(n)
           \/ Section /\ \E n \in Names : Break(n)
           \/ Section /\ ~room'.up
           \/ Section /\ LoseTimer
           \/ Section /\ room.marked \cap room'.players = {}
<1>1. CASE \E p \in Names : Join(p)
  BY <1>1
<1>2. CASE \E p \in Names : Break(p)
  BY <1>2, BreakOk
<1>3. CASE \E p \in Names : Refuse(p)
  BY <1>3, RefuseOk
<1>4. CASE \E p \in Names : LeaveBeforeStart(p)
  BY <1>4, LeaveBeforeStartOk
<1>5. CASE \E p \in Names : Move(p)
  BY <1>5, MoveOk
<1>6. CASE \E p \in Names : PlaceBomb(p)
  BY <1>6, PlaceBombOk
<1>7. CASE \E p \in Names : Leave(p)
  BY <1>7, LeaveOk
<1>8. CASE \E p \in Names : Hangup(p)
  BY <1>8, HangupOk
<1>9. CASE Explode
  BY <1>9, ExplodeOk
<1>10. CASE WinnerOutOfRange
  BY <1>10, WinnerOutOfRangeOk
<1>11. CASE SendHangs
  BY <1>11, SendHangsOk
<1>12. CASE LoseTimer
  BY <1>12, LoseTimerOk
<1> QED BY <1>1, <1>2, <1>3, <1>4, <1>5, <1>6, <1>7, <1>8, <1>9, <1>10, <1>11, <1>12
        DEF Next

\* Every step keeps the invariant.
LEMMA InvStep == Inv /\ [Next]_room => Inv'
<1> SUFFICES ASSUME Inv, [Next]_room PROVE Inv'
  OBVIOUS
<1>1. CASE Next
  <2>1. Ok(room')
    BY <1>1, EveryStep, JoinStepOk DEF Section
  <2> QED BY <2>1 DEF Inv
<1>2. CASE UNCHANGED room
  BY <1>2 DEF Inv
<1> QED BY <1>1, <1>2

\* The inductive invariant holds of every room.
THEOREM Invariance == Spec => []Inv
<1> QED BY InitOk, InvStep, PTL DEF Spec

\* Room::JoinPlayer never makes a color that the constructor of Player does
\* not know, nobody loses a life they do not have, the counters stay in range.
THEOREM Typing == Spec => []TypeOK
<1>1. Inv => TypeOK
  BY DEF Inv, Ok, Half, TypeOK
<1> QED BY <1>1, Invariance, PTL

\* The state machine agrees with the size of the vector and with clientCount.
THEOREM CountsAgree == Spec => []StateMatchesCounts
<1>1. Inv => StateMatchesCounts
  <2> SUFFICES ASSUME Inv PROVE StateMatchesCounts
    OBVIOUS
  <2>1. room.state \in {"WAIT_FOR_START", "PLAY", "GAME_OVER"}
    BY DEF Inv, Ok, Half, Counting, RoomType, GameState
  <2>2. room.state = "GAME_OVER" => Size(room) = 0
    BY FS_EmptySet DEF Inv, Ok, Half, Counting, Size
  <2> QED BY <2>1, <2>2 DEF Inv, Ok, Half, Counting, Manned, Size, StateMatchesCounts
<1> QED BY <1>1, Invariance, PTL

\* A match that runs has two living players or a bomb that will end it, with
\* any number of players, lives and bombs.
THEOREM NeverStuck == Spec => []TwoAliveOrBomb
<1>1. Inv => TwoAliveOrBomb
  BY DEF Inv, Ok, Half, Fighting, TwoAliveOrBomb
<1> QED BY <1>1, Invariance, PTL

\* Until somebody leaves, the colors are the order of arrival.
THEOREM ColorsOfArrival == Spec => []ColorsDistinct
<1>1. Inv => ColorsDistinct
  <2> SUFFICES ASSUME Inv, room.clientCount = Cardinality(room.players),
                      NEW p \in room.players, NEW q \in room.players,
                      room.color[p] = room.color[q]
               PROVE  p = q
    BY DEF ColorsDistinct
  <2>1. room.color[p] + 1 = room.ticket[p] /\ room.color[q] + 1 = room.ticket[q]
    BY DEF Inv, Ok, Half, Seating, Size
  <2> QED BY <2>1 DEF Inv, Ok, Half, Seating
<1> QED BY <1>1, Invariance, PTL

\* Whoever was marked when a critical section of the rooms thread or the bombs
\* thread began is out of the room when it ends.
THEOREM Reaped == Spec => MarkedAreGone
<1>1. Inv /\ [Next]_room =>
         [room.marked \cap room'.players # {}
             => ~room'.up \/ LoseTimer \/ \E n \in Names : Join(n) \/ Break(n)]_room
  <2> SUFFICES ASSUME Inv, Next, room.marked \cap room'.players # {}
               PROVE  ~room'.up \/ LoseTimer \/ \E n \in Names : Join(n) \/ Break(n)
    OBVIOUS
  <2> QED BY EveryStep
<1> QED BY <1>1, Invariance, PTL DEF Spec, MarkedAreGone

-----------------------------------------------------------------------------
(* The room implements the match.                                          *)

\* "At least two" and "at most one" as Match says them.
LEMMA TwoMembers ==
    ASSUME NEW S, Cardinality(S) >= 2
    PROVE  \E m, n \in S : m # n
<1>1. PICK m \in S : TRUE
  BY FS_EmptySet
<1>2. S # {m}
  BY FS_Singleton
<1> QED BY <1>1, <1>2

\* A set of at most one has no two members.
LEMMA OneMember ==
    ASSUME NEW S, IsFiniteSet(S), Cardinality(S) <= 1
    PROVE  \A v, w \in S : v = w
<1> SUFFICES ASSUME NEW v \in S, NEW w \in S PROVE v = w
  OBVIOUS
<1>1. IsFiniteSet(S \ {v}) /\ Cardinality(S \ {v}) = Cardinality(S) - 1
  BY FS_RemoveElement
<1>2. Cardinality(S \ {v}) \in Nat /\ Cardinality(S) \in Nat
  BY <1>1, FS_CardinalityType
<1>3. Cardinality(S \ {v}) = 0
  BY <1>1, <1>2
<1>4. S \ {v} = {}
  BY <1>1, <1>3, FS_EmptySet
<1> QED BY <1>4

\* What happens under the lock of the room is a step of the match.
LEMMA SectionIsMatchStep ==
    ASSUME Inv, Section
    PROVE  Promise!Next \/ UNCHANGED Promise!vars
<1>1. CASE Ended(room, room')
  <2>1. room.state # "GAME_OVER" /\ room.state \in GameState
    BY <1>1 DEF Ended, Inv, Ok, Half, RoomType
  <2>2. Phase(room) # "over" /\ Phase(room') = "over"
    BY <1>1, <2>1 DEF Phase, Ended, Inv, Ok, Half, Counting, GameState
  <2>3. room'.winners \in SUBSET room.players
    BY <1>1 DEF Ended
  <2>4. IsFiniteSet(room'.winners)
    BY <2>3, FS_Subset DEF Inv, Ok, Half
  <2>5. \A v, w \in room'.winners : v = w
    BY <1>1, <2>4, OneMember DEF Ended
  <2>6. Promise!Finish(room'.winners)
    BY <1>1, <2>2, <2>5 DEF Promise!Finish, Ended
  <2> QED BY <2>6, <2>3 DEF Promise!Next
<1>2. CASE Kept(room, room') /\ room'.players # room.players
  <2>1. Phase(room') = Phase(room)
    BY <1>2 DEF Kept, Phase
  <2>2. room.state # "GAME_OVER"
    BY <1>2 DEF Kept, Inv, Ok, Half, Counting
  <2>3. Phase(room) # "over"
    BY <2>2 DEF Phase, Inv, Ok, Half, Counting, RoomType, GameState
  <2> DEFINE S == room.players \ room'.players
  <2>4. S \in SUBSET room.players /\ room.players \ S = room'.players
    BY <1>2 DEF Kept
  <2> HIDE DEF S
  <2>5. \E m, n \in room'.players : m # n
    BY <1>2, TwoMembers DEF Kept, Size
  <2>6. Promise!Leave(S)
    BY <1>2, <2>1, <2>3, <2>4, <2>5 DEF Promise!Leave, Kept
  <2> QED BY <2>4, <2>6 DEF Promise!Next
<1>3. CASE Kept(room, room') /\ room'.players = room.players
  BY <1>3 DEF Kept, Phase, Promise!vars
<1> QED BY <1>1, <1>2, <1>3 DEF Section

\* Joining is entering, and the last entry starts the match.
LEMMA JoinIsMatchStep ==
    ASSUME Inv, NEW n \in Names, Join(n)
    PROVE  Promise!Next
<1>1. /\ Ok(room')
      /\ room.state = "WAIT_FOR_START" /\ CanJoin(room, n)
      /\ room'.players = room.players \cup {n}
      /\ room'.clientCount = room.clientCount + 1
      /\ room'.state = IF room'.clientCount = MaxPlayers
                       THEN "PLAY" ELSE room.state
      /\ room'.winners = room.winners
  BY JoinStepOk
<1>2. room.clientCount < MaxPlayers
  BY <1>1 DEF Inv, Ok, Half, Counting
<1>3. Phase(room) = "waiting"
  BY <1>1 DEF Phase
<1>4. Phase(room') = IF room'.clientCount = MaxPlayers THEN "playing" ELSE "waiting"
  BY <1>1 DEF Phase
<1>5. Promise!Enter(n)
  BY <1>1, <1>2, <1>3, <1>4 DEF Promise!Enter, CanJoin
<1> QED BY <1>5 DEF Promise!Next

\* The room implements the abstract match.
THEOREM Implements == Spec => MatchSpec
<1>1. Init => Promise!Init
  BY DEF Init, NewRoom, Phase, Promise!Init
<1>2. Inv /\ [Next]_room => [Promise!Next]_(Promise!vars)
  <2> SUFFICES ASSUME Inv, [Next]_room
               PROVE  Promise!Next \/ UNCHANGED Promise!vars
    OBVIOUS
  <2>1. CASE Next
    BY <2>1, EveryStep, SectionIsMatchStep, JoinIsMatchStep
  <2>2. CASE UNCHANGED room
    BY <2>2 DEF Promise!vars, Phase
  <2> QED BY <2>1, <2>2
<1> QED BY <1>1, <1>2, Invariance, PTL DEF Spec, MatchSpec, Promise!Spec
=============================================================================
