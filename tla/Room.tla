-------------------------------- MODULE Room --------------------------------
(***************************************************************************)
(* One room of the server (class Room) and the handlers the server's       *)
(* threads call on it.                                                     *)
(*                                                                         *)
(* The server holds roomsMtx around every call into a room together with   *)
(* the handleRoomPostEvent calls that follow it, so one action here is one *)
(* such critical section: a handler of the room and then DisconnectPlayers *)
(* as often as the server runs it.  A handler is an operator from the      *)
(* room's state to the set of states it may leave behind: a message to a   *)
(* broken connection may or may not fail, and a failed one marks the       *)
(* player it was meant for.                                                *)
(*                                                                         *)
(* Positions, the map and the clock are abstracted: a bomb hits any set of *)
(* living players, and a move is accepted or corrected at will.            *)
(***************************************************************************)
EXTENDS Naturals, FiniteSets

CONSTANTS Names,         \* the usernames, the empty one excluded
          MaxPlayers,    \* MAX_PLAYERS
          StarterLives,  \* STARTER_LIVES
          MaxBombs       \* bound: a player places a bomb only below it

ASSUME RoomAssumption == /\ MaxPlayers \in Nat /\ MaxPlayers >= 2
                         /\ StarterLives \in Nat /\ StarterLives >= 1
                         /\ MaxBombs \in Nat

VARIABLE room

GameState == {"WAIT_FOR_START", "PLAY", "WAIT_FOR_END", "GAME_OVER"}

\* ticket[p] is the value of clientCount after p joined: a player with a
\* larger ticket stands before one with a smaller ticket in the vector.
\* ticket, color and lives are 0 for a name that is not in the room.
RoomType == [state       : GameState,
             players     : SUBSET Names,
             ticket      : [Names -> 0 .. MaxPlayers],
             color       : [Names -> 0 .. MaxPlayers - 1],
             lives       : [Names -> 0 .. StarterLives],
             marked      : SUBSET Names,    \* markedForDisconnect
             broken      : SUBSET Names,    \* a send to them may fail
             clientCount : 0 .. MaxPlayers,
             bombs       : Nat,             \* length of the queue of bombs
             winners     : SUBSET Names,    \* announced by GameWon
             lost        : BOOLEAN,         \* history: a timer of this room was
                                            \* closed, or its event led elsewhere
             up          : BOOLEAN]         \* the server goes on

NewRoom == [state |-> "WAIT_FOR_START", players |-> {},
            ticket |-> [n \in Names |-> 0], color |-> [n \in Names |-> 0],
            lives |-> [n \in Names |-> 0], marked |-> {}, broken |-> {},
            clientCount |-> 0, bombs |-> 0, winners |-> {}, lost |-> FALSE,
            up |-> TRUE]

Living(r) == {p \in r.players : r.lives[p] > 0}

\* p stands before q in the vector of players.
Before(r, p, q) == r.ticket[p] > r.ticket[q]

-----------------------------------------------------------------------------
(* Sending and marking.                                                    *)

Marked(r, S) == [r EXCEPT !.marked = @ \cup S]

\* A message to each player of T: sendSpecific, sendExcept, sendBroadcast.
Sent(r, T) == {Marked(r, F) : F \in SUBSET (T \cap r.broken)}

-----------------------------------------------------------------------------
(* Joining.                                                                *)

CanJoin(r, n) == n \notin r.players /\ r.clientCount # MaxPlayers

\* Faulty: the color counts only the players that are to stay.
SeatedCountsStaying(r, n) ==
    [r EXCEPT !.players = r.players \cup {n},
              !.ticket = [r.ticket EXCEPT ![n] = r.clientCount + 1],
              !.color = [r.color EXCEPT ![n] = Cardinality(r.players \ r.marked)],
              !.lives = [r.lives EXCEPT ![n] = StarterLives],
              !.clientCount = r.clientCount + 1,
              !.state = IF r.clientCount + 1 = MaxPlayers THEN "PLAY" ELSE r.state]

Seated(r, n) ==
    [r EXCEPT !.players = r.players \cup {n},
              !.ticket = [r.ticket EXCEPT ![n] = r.clientCount + 1],
              !.color = [r.color EXCEPT ![n] = Cardinality(r.players)],
              !.lives = [r.lives EXCEPT ![n] = StarterLives],
              !.clientCount = r.clientCount + 1,
              !.state = IF r.clientCount + 1 = MaxPlayers THEN "PLAY" ELSE r.state]

\* B is {n} if the newcomer's connection is broken already, and {} if not.
JoinPlayer(r, n, B) ==
    Sent([Seated(r, n) EXCEPT !.broken = @ \cup B], r.players \cup {n})

-----------------------------------------------------------------------------
(* Disconnecting.  The loop visits the players in vector order and         *)
(* announces each marked one to the others.  An announcement that fails    *)
(* marks its receiver: one who is visited later goes in the same pass, one *)
(* who was visited before stays in the room, marked.                       *)

\* Faulty: a dead player's mark is overlooked.
GoneIfAlive(r) == {C \in SUBSET r.players :
                     /\ r.marked \cap Living(r) \subseteq C
                     /\ \A c \in C \ r.marked :
                           c \in r.broken /\ \E m \in r.marked : Before(r, m, c)}

Gone(r) == {C \in SUBSET r.players :
              /\ r.marked \subseteq C
              /\ \A c \in C \ r.marked :
                    c \in r.broken /\ \E m \in r.marked : Before(r, m, c)}

Late(r, C) == {b \in (r.players \cap r.broken) \ C : \E c \in C : Before(r, b, c)}

Cleared(f, C) == [n \in Names |-> IF n \in C THEN 0 ELSE f[n]]

Erased(r, C) == [r EXCEPT !.players = @ \ C, !.marked = @ \ C, !.broken = @ \ C,
                          !.ticket = Cleared(@, C), !.color = Cleared(@, C),
                          !.lives = Cleared(@, C)]

\* Faulty: the test on livesRemaining is turned around.
AtomicBombsOfTheDead(r, C) ==
    IF r.state = "PLAY" THEN Cardinality(C \ Living(r)) ELSE 0

\* Those who leave a match alive leave an atomic bomb behind.
AtomicBombs(r, C) == IF r.state = "PLAY" THEN Cardinality(C \cap Living(r)) ELSE 0

Dropped(r, C, L) == [Erased(Marked(r, L), C) EXCEPT !.bombs = @ + AtomicBombs(r, C)]

\* Faulty: no case for the last player.
SettledKeepsLast(r) ==
    IF r.players = {} THEN [r EXCEPT !.state = "GAME_OVER"] ELSE r

\* Faulty: no case for the empty room.
SettledKeepsEmpty(r) ==
    IF Cardinality(r.players) = 1
    THEN [Erased(r, r.players) EXCEPT !.state = "GAME_OVER",
                                      !.winners = @ \cup r.players]
    ELSE r

\* The switch on the number of players that are left.
Settled(r) ==
    CASE Cardinality(r.players) = 0 -> [r EXCEPT !.state = "GAME_OVER"]
      [] Cardinality(r.players) = 1 ->
            [Erased(r, r.players) EXCEPT !.state = "GAME_OVER",
                                         !.winners = @ \cup r.players]
      [] OTHER -> r

DisconnectPlayers(r) ==
    UNION {{Settled(Dropped(r, C, L)) : L \in SUBSET Late(r, C)} : C \in Gone(r)}

-----------------------------------------------------------------------------
(* Explosions.                                                             *)

\* The front bomb goes off and takes a life from each player in H.
Hit(r, H) == [r EXCEPT !.bombs = @ - 1,
                       !.lives = [n \in Names |-> IF n \in H THEN @[n] - 1 ELSE @[n]]]

\* w is announced as the winner and everybody is to be disconnected.
Won(r, w) == [r EXCEPT !.winners = @ \cup {w}, !.state = "GAME_OVER",
                       !.marked = r.players]

\* Nobody is alive: an index from 0 .. people_alive_before into the vector
\* of the people who were alive.  The last index is outside the vector, so
\* what is read there may be the index of any player (or of none, see
\* WinnerOutOfRange); an empty vector has no storage to read.
MutualWinners(r) == IF Living(r) = {} THEN {} ELSE r.players

Exploded(r, H) ==
    LET s     == Hit(r, H)
        alive == Cardinality(Living(s))
    IN  CASE alive = 0 -> {Won(s, w) : w \in MutualWinners(r)}
          [] alive = 1 -> {Won(s, w) : w \in Living(s)}
          [] OTHER     -> Sent(s, IF H = {} THEN {} ELSE r.players)

\* Faulty: the dead are hit as well.
NotifyExplosionHitsAll(r) ==
    IF r.state # "PLAY" \/ r.bombs = 0
    THEN {r}
    ELSE UNION {Exploded(r, H) : H \in SUBSET r.players}

NotifyExplosion(r) ==
    IF r.state # "PLAY" \/ r.bombs = 0
    THEN {r}
    ELSE UNION {Exploded(r, H) : H \in SUBSET Living(r)}

-----------------------------------------------------------------------------
(* The critical sections of the server that call into the room.            *)

Init == room = NewRoom

\* JOIN_ROOM in the lobby thread; the newcomer may already have hung up.
\* The lobby does not call DisconnectPlayers.
Join(n) ==
    /\ room.up
    /\ room.state = "WAIT_FOR_START"
    /\ CanJoin(room, n)
    /\ \E B \in SUBSET {n} : room' \in JoinPlayer(room, n, B)

\* The rooms thread looks at a player's socket only while this holds.
Served(p) == /\ room.up
             /\ p \in room.players \ room.marked
             /\ room.state # "GAME_OVER"

\* A message of p has been handled with one of these results; the server
\* runs handleRoomPostEvent twice before it releases the lock.
Handled(results) ==
    \E s \in results : \E t \in DisconnectPlayers(s) : room' \in DisconnectPlayers(t)

\* Answered with an Error: any message but ILeave before the start, any
\* message but ILeave of a dead player, an unexpected type.
Refuse(p) == Served(p) /\ Handled(Sent(room, {p}))

\* ILeave before the start marks the player at the front of the vector.
LeaveBeforeStart(p) ==
    /\ Served(p)
    /\ room.state = "WAIT_FOR_START"
    /\ Handled({Marked(room, {q \in room.players :
                                \A o \in room.players : ~Before(room, o, q)})})

\* IMove: corrected (only p hears of it) or accepted (all others do).
Move(p) == /\ Served(p)
           /\ room.state = "PLAY" /\ p \in Living(room)
           /\ Handled(Sent(room, {p}) \cup Sent(room, room.players \ {p}))

PlaceBomb(p) == /\ Served(p)
                /\ room.state = "PLAY" /\ p \in Living(room)
                /\ room.bombs < MaxBombs
                /\ Handled(Sent([room EXCEPT !.bombs = @ + 1], room.players \ {p}))

Leave(p) == /\ Served(p)
            /\ room.state = "PLAY"
            /\ Handled({Marked(room, {p})})

\* Receive fails on p's socket: one handleRoomPostEvent.
Hangup(p) == Served(p) /\ room' \in DisconnectPlayers(Marked(room, {p}))

\* The bombs thread calls.  It knows a room only from a timer that was
\* made for it while it was in PLAY; nothing is assumed of how many calls
\* there are and of when they come.
Explode == /\ room.up
           /\ room.state \in {"PLAY", "GAME_OVER"}
           /\ \E s \in NotifyExplosion(room) : room' \in DisconnectPlayers(s)

\* The read outside alive_before_explosion ends the process.
WinnerOutOfRange ==
    /\ room.up
    /\ room.state = "PLAY" /\ room.bombs > 0
    /\ \A p \in Living(room) : room.lives[p] = 1
    /\ room' = [room EXCEPT !.up = FALSE]

\* A write fails inside the loop of send.  Its -1 is a size_t and passes for a
\* number of bytes, so the loop need not end, and the thread keeps roomsMtx:
\* whatever the handler has done so far, nobody gets to see it.
SendHangs == /\ room.up
             /\ room.broken # {}
             /\ room' = [room EXCEPT !.up = FALSE]

\* Another bomb, of this room or of another one, is written where the epoll
\* entry of a timer of this room points: the timer is closed before it expires,
\* or its event goes to the other room (see Fuses).
LoseTimer == /\ room.up
             /\ room.state = "PLAY" /\ room.bombs > 0
             /\ ~room.lost
             /\ room' = [room EXCEPT !.lost = TRUE]

\* The environment: the connection of p goes bad.
Break(p) == /\ room.up
            /\ p \in room.players \ room.broken
            /\ room' = [room EXCEPT !.broken = @ \cup {p}]

Next == \/ \E p \in Names : \/ Join(p) \/ Break(p)
                            \/ Refuse(p) \/ LeaveBeforeStart(p)
                            \/ Move(p) \/ PlaceBomb(p) \/ Leave(p) \/ Hangup(p)
        \/ Explode
        \/ WinnerOutOfRange
        \/ SendHangs
        \/ LoseTimer

Spec == Init /\ [][Next]_room

\* As long as no timer of this room was lost, each of its bombs has one that
\* will expire and lead the bombs thread here (Fuses!BombHasTimer); the thread
\* gets the lock and calls, whatever comes of it.  After a loss nothing is
\* assumed: a call may still come, from whichever timer leads here.
FairSpec == Spec /\ WF_room((~room.lost /\ Explode) \/ WinnerOutOfRange)

-----------------------------------------------------------------------------
(* Properties.                                                             *)

\* Every field of the room has its type.  Two ranges carry weight: a color is
\* always one the Player constructor knows (it throws on any other), and no
\* player ever has fewer than 0 lives.
TypeOK == room \in RoomType

\* The state machine agrees with the two counts the code keeps, the size of
\* the vector and clientCount: a match runs only in a room that has been
\* entered MAX_PLAYERS times and still has two players; a room that waits is
\* not full; a finished room is empty; WAIT_FOR_END is never visible outside
\* a critical section.
StateMatchesCounts ==
    LET size == Cardinality(room.players)
    IN  /\ size <= room.clientCount
        /\ room.marked \cup room.broken \subseteq room.players
        /\ CASE room.state = "WAIT_FOR_START" ->
                  /\ room.clientCount < MaxPlayers
                  /\ size >= 2 \/ size = room.clientCount
             [] room.state = "PLAY" ->
                  /\ room.clientCount = MaxPlayers
                  /\ size >= 2
             [] OTHER -> room.state = "GAME_OVER" /\ size = 0

\* A match is never stuck: while it runs, either two players can still fight
\* or a bomb is left whose explosion will end it.  (Only NotifyExplosion looks
\* at the number of living players, so with fewer than two of them and no bomb
\* the room would stay in PLAY for ever.)
TwoAliveOrBomb ==
    room.state = "PLAY" => Cardinality(Living(room)) >= 2 \/ room.bombs > 0

\* As long as nobody has left, no two players have the same color, and so no
\* two start on the same square (Player's constructor).
ColorsDistinct ==
    room.clientCount = Cardinality(room.players) =>
        \A p, q \in room.players : room.color[p] = room.color[q] => p = q

\* A player that was marked when a handler began is out of the room when the
\* critical section ends, whoever the handler was about: only a lobby thread
\* that seats a newcomer leaves marked players where they are.  (Break and
\* LoseTimer are no handlers.)
MarkedAreGone ==
    [][room.marked \cap room'.players # {}
          => ~room'.up \/ LoseTimer \/ \E n \in Names : Join(n) \/ Break(n)]_room

\* The room implements the match: players go only in ways a match allows, a
\* room that is over never changes again, and there is at most one winner.
Phase(r) == CASE r.state = "WAIT_FOR_START" -> "waiting"
              [] r.state = "PLAY" -> "playing"
              [] OTHER -> "over"

Promise == INSTANCE Match WITH phase <- Phase(room), members <- room.players,
                               entered <- room.clientCount, winners <- room.winners
MatchSpec == Promise!Spec

\* A match with fewer than two living players comes to its end, unless the
\* server ends or hangs first, or a timer of the room is lost: without that
\* condition it does not hold (Fuses!EveryBombExplodes).
FewAliveEnds == (room.state = "PLAY" /\ Cardinality(Living(room)) <= 1)
                   ~> (room.state = "GAME_OVER" \/ ~room.up \/ room.lost)

-----------------------------------------------------------------------------
(* What the repository says and the code does not do.                      *)

\* Room.cpp on the mutual explosion: "the last two players die from the same
\* bomb. In this case we select the person randomly": the one selected was
\* alive when the bomb went off.
MutualWinnerWasAlive ==
    [][room.winners # room'.winners /\ room'.bombs < room.bombs
          => room'.winners \subseteq Living(room)]_room
=============================================================================
