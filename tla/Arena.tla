------------------------------- MODULE Arena -------------------------------
(***************************************************************************)
(* A match as it is played: the server's copy of it and those of the       *)
(* clients, which are changed by messages that take their time.            *)
(*                                                                         *)
(* The server keeps the map, where every player is, how many lives he has  *)
(* and the queue of bombs (Room::HandleMessage, Room::NotifyExplosion).  A *)
(* client keeps a map, a list of players and a list of bombs of its own,   *)
(* changed by its render loop, which reads keys, moves its own player and  *)
(* sets off bombs by its own clock (Client::Run, EntityHandler), and by    *)
(* its receive thread (ServerHandler::handleMessage).                      *)
(*                                                                         *)
(* Connections are FIFO queues of whole messages, as Frames has it.  Time  *)
(* is left open: a bomb goes off at any moment, at the server in the order *)
(* of its queue and at a client in any order.  (The clocks of two machines *)
(* differ, and drawBombs erases from the list it walks through, so that    *)
(* bombs due in one frame are passed over until the next.)                 *)
(* The model ends with the match.                                          *)
(*                                                                         *)
(* A client's list begins as the lobby left it.  handleLobbyMsg passes over *)
(* OtherLeave, so who left before the start is still on the list, and if   *)
(* somebody took his name later, he stands before him: findPlayer, which   *)
(* takes the first of a name, finds this ghost.  Ghosts[c][p] is how many  *)
(* of them stand on the list of c before p.  (Those whose name nobody took *)
(* are on the list for good, and no message is about them.)                *)
(***************************************************************************)
EXTENDS Blast, Sequences, FiniteSets, SequencesExt

CONSTANTS Players,    \* the players of the match
          Clients,    \* those whose client is part of the model
          Start,      \* where a player's color puts him
          Soft,       \* the soft walls of the new map
          Lives,      \* STARTER_LIVES
          History,    \* length of moveHistory
          Garbage,    \* what the counter of steps may start with
          Ghosts,     \* who left before the start, by client and by name
          Leavers,    \* bound: the players who may leave
          Movers,     \* bound: the clients whose keys are used
          MaxMoves,   \* bound: moves sent
          MaxBombs    \* bound: bombs placed

M == INSTANCE Movement WITH Squares <- Floor

ASSUME ArenaAssumption == /\ Clients \subseteq Players /\ IsFiniteSet(Players)
                          /\ Soft \subseteq Floor
                          /\ Start \in [Players -> Floor \ Soft]
                          /\ Leavers \subseteq Players /\ Movers \subseteq Clients
                          /\ Lives \in Nat /\ Lives >= 1
                          /\ History \in Nat /\ History >= 2
                          /\ Garbage \subseteq M!StepCounts
                          /\ Ghosts \in [Clients -> [Players -> Nat]]
                          /\ \A c \in Clients : Ghosts[c][c] = 0
                          /\ MaxMoves \in Nat /\ MaxBombs \in Nat

VARIABLES
    server,   \* the room: map, players, bombs, whether the match is over
    client,   \* of every client: map, players, bombs, the frame it draws
    up,       \* messages under way to the server
    down,     \* messages under way to a client
    history   \* history: how much happened, and what the properties except

vars == <<server, client, up, down, history>>

\* What a client knows of a player.
Seen == [at : Floor, health : Int]

Message == [type : {"Move"}, at : Floor, after : 0 .. MaxMoves]
               \cup [type : {"PlaceBomb"}, at : Floor]

News == [type : {"OtherMove"}, who : Players, at : Floor]
            \cup [type : {"OtherBombPlace"}, bomb : Bomb]
            \cup [type : {"MovementCorrection"}, at : Floor \cup {M!Unrecorded}]
            \cup [type : {"GotHit"}, who : Players, lives : 0 .. Lives]
            \cup [type : {"OtherLeave"}, who : Players]

TypeOK ==
    /\ server \in [soft : SUBSET Soft, players : SUBSET Players,
                   walker : [Players -> M!Walker], lives : [Players -> 0 .. Lives],
                   bombs : Seq(Bomb), over : BOOLEAN]
    /\ client \in [Clients -> [soft : SUBSET Soft, listed : SUBSET Players,
                               ghosts : [Players -> Nat],
                               seen : [Players -> Seen], bombs : Seq(Bomb),
                               base : Floor]]
    /\ up \in [Clients -> Seq(Message)]
    /\ down \in [Clients -> Seq(News)]
    /\ history \in [moves : 0 .. MaxMoves, placed : 0 .. MaxBombs, bombs : SUBSET Bomb,
                    corrected : [Clients -> [sent : 0 .. MaxMoves, got : 0 .. MaxMoves]],
                    astray : SUBSET Clients]

Init ==
    /\ \E garbage \in [Movers -> Garbage] :
          server = [soft |-> Soft, players |-> Players,
                    walker |-> [p \in Players |-> M!NewWalker(Start[p],
                                   IF p \in Movers THEN garbage[p] ELSE 0)],
                    lives |-> [p \in Players |-> Lives],
                    bombs |-> <<>>, over |-> FALSE]
    /\ client = [c \in Clients |->
                    [soft |-> Soft, listed |-> Players, ghosts |-> Ghosts[c],
                     seen |-> [p \in Players |-> [at |-> Start[p], health |-> Lives]],
                     bombs |-> <<>>, base |-> Start[c]]]
    /\ up = [c \in Clients |-> <<>>]
    /\ down = [c \in Clients |-> <<>>]
    /\ history = [moves |-> 0, placed |-> 0, bombs |-> {},
                  corrected |-> [c \in Clients |-> [sent |-> 0, got |-> 0]],
                  astray |-> {}]

Alive(p) == p \in server.players /\ server.lives[p] > 0
Coords(p) == server.walker[p].coords

\* The messages of the sequence s to each client of C that is still connected.
SendTo(C, s) == [c \in Clients |-> IF c \in C /\ c \in server.players
                                   THEN down[c] \o s ELSE down[c]]

-----------------------------------------------------------------------------
(* A client's render loop.                                                 *)

\* Clients that are connected to a match that runs.
Connected == IF server.over THEN {} ELSE Clients \cap server.players

Own(c) == client[c].seen[c].at

\* A frame reads the position of the own player first: it may do so again if
\* the receive thread has changed it.
Look(c) == /\ c \in Connected
           /\ client[c].base # Own(c)
           /\ client' = [client EXCEPT ![c].base = Own(c)]
           /\ UNCHANGED <<server, up, down, history>>

\* The arrows, in the order in which a frame asks for them.
Arrow == <<<<1, 0>>, <<-1, 0>>, <<0, -1>>, <<0, 1>>>>

\* Faulty: only soft walls stop a player.
EntersHard(k, s) == s \notin k.soft

\* Boomberman::move looks at the client's own map.
Enters(k, s) == s \in Floor \ k.soft

\* The bound on moves: the arrows that may still be used.
ArrowsLeft(c) == IF history.moves < MaxMoves THEN 1 .. 4 ELSE {}

\* Where the arrows K lead from where the frame began, in their order.
Step(k, K, i) == LET s == Ahead(k.base, Arrow[i], 1)
                 IN  IF i \in K /\ Enters(k, s) THEN <<s>> ELSE <<>>

Steps(k, K) == Step(k, K, 1) \o Step(k, K, 2) \o Step(k, K, 3) \o Step(k, K, 4)

\* The keys of one frame, taken while the front of the list is the own player:
\* the space bar, then the arrows.  A bomb is listed and a move is made at once,
\* and the server is told.
Keys(c, space, K) ==
    /\ c \in Connected \cap Movers /\ c \in client[c].listed
    /\ LET k     == client[c]
           steps == Steps(k, K)
           at    == IF steps = <<>> THEN Own(c) ELSE Last(steps)
           bombs == IF space THEN <<[at |-> k.base, atomic |-> FALSE]>> ELSE <<>>
       IN  /\ bombs \o steps # <<>>
           /\ history.moves + Len(steps) <= MaxMoves
           /\ history.placed + Len(bombs) <= MaxBombs
           /\ client' = [client EXCEPT ![c] = [k EXCEPT
                            !.seen[c].at = at, !.base = at, !.bombs = @ \o bombs]]
           /\ up' = [up EXCEPT ![c] = @
                        \o [i \in 1 .. Len(bombs) |-> [type |-> "PlaceBomb", at |-> k.base]]
                        \o [i \in 1 .. Len(steps) |->
                               [type |-> "Move", at |-> steps[i],
                                after |-> history.corrected[c].got]]]
           /\ history' = [history EXCEPT !.moves = @ + Len(steps),
                                         !.placed = @ + Len(bombs),
                                         !.bombs = @ \cup ToSet(bombs)]
    /\ UNCHANGED <<server, down>>

\* Faulty: whichever bomb goes off, the first one is taken off the list.
DetonatedFirst(c, i) ==
    [client[c] EXCEPT !.soft = Boomed(@, client[c].bombs[i]), !.bombs = Tail(@)]

\* explodeBomb: bomb number i of the list goes off on the client's map.
Detonated(c, i) ==
    [client[c] EXCEPT !.soft = Boomed(@, client[c].bombs[i]),
                      !.bombs = SubSeq(@, 1, i - 1) \o SubSeq(@, i + 1, Len(@))]

Detonate(c) == /\ c \in Connected
               /\ \E i \in 1 .. Len(client[c].bombs) :
                     client' = [client EXCEPT ![c] = Detonated(c, i)]
               /\ UNCHANGED <<server, up, down, history>>

-----------------------------------------------------------------------------
(* A client's receive thread.                                              *)

\* Faulty: the player goes with his last life but one.
StruckEarly(k, m) ==
    IF m.who \notin k.listed THEN k
    ELSE [k EXCEPT !.seen[m.who].health = @ - 1,
                   !.listed = IF m.lives <= 1 THEN @ \ {m.who} ELSE @]

\* gotHit, and the player goes with his last life.
Struck(k, m) ==
    IF m.who \notin k.listed THEN k
    ELSE [k EXCEPT !.seen[m.who].health = @ - 1,
                   !.listed = IF m.lives = 0 THEN @ \ {m.who} ELSE @]

\* findPlayer finds a ghost: the message is about a name of which one is left.
Mistaken(k, m) == /\ m.type \in {"OtherMove", "GotHit", "OtherLeave"}
                  /\ k.ghosts[m.who] > 0

\* The ghost moves, is hit or goes in the place of the player of that name.
Haunted(k, m) ==
    IF m.type = "OtherLeave" \/ (m.type = "GotHit" /\ m.lives = 0)
    THEN [k EXCEPT !.ghosts[m.who] = @ - 1] ELSE k

\* handleMessage, on what client k keeps.  A correction is for the player at
\* the front of the list.
Heard(c, m) ==
    LET k == client[c]
    IN  IF Mistaken(k, m) THEN Haunted(k, m) ELSE
        CASE m.type = "OtherMove" ->
               IF m.who \in k.listed THEN [k EXCEPT !.seen[m.who].at = m.at] ELSE k
          [] m.type = "OtherBombPlace" -> [k EXCEPT !.bombs = Append(@, m.bomb)]
          [] m.type = "MovementCorrection" -> [k EXCEPT !.seen[c].at = m.at]
          [] m.type = "GotHit" -> Struck(k, m)
          [] m.type = "OtherLeave" -> [k EXCEPT !.listed = @ \ {m.who}]

Receive(c) ==
    /\ c \in Connected
    /\ down[c] # <<>>
    /\ client' = [client EXCEPT ![c] = Heard(c, Head(down[c]))]
    /\ down' = [down EXCEPT ![c] = Tail(@)]
    /\ history' = IF Head(down[c]).type = "MovementCorrection"
                  THEN [history EXCEPT !.corrected[c].got = @ + 1] ELSE history
    /\ UNCHANGED <<server, up>>

-----------------------------------------------------------------------------
(* The server.                                                             *)

\* The next message of c is taken.
Take(c, type) == /\ c \in Connected
                 /\ up[c] # <<>> /\ Head(up[c]).type = type
                 /\ up' = [up EXCEPT ![c] = Tail(@)]
                 /\ UNCHANGED client

\* Faulty: the dead may go on.
NeverRefused(p) == FALSE

Refused(p) == server.lives[p] = 0

\* The dead are answered with an Error, which no client looks at.
RefuseDead(c) == /\ Take(c, "Move") \/ Take(c, "PlaceBomb")
                 /\ Refused(c)
                 /\ UNCHANGED <<server, down, history>>

\* Faulty: a move into a wall is dropped without a word.
VerdictsUnsaid(p, s) ==
    IF s \in Floor \ server.soft
    THEN M!MoveCheckSus(server.walker[p], s)
    ELSE {[walker |-> server.walker[p], back |-> {}]}

\* What the server makes of a move to s: a square that is not free sends the
\* player back to where the server has him.
Verdicts(p, s) ==
    IF s \in Floor \ server.soft
    THEN M!MoveCheckSus(server.walker[p], s)
    ELSE {[walker |-> server.walker[p], back |-> {Coords(p)}]}

Corrections(v) == SetToSeq({[type |-> "MovementCorrection", at |-> s] : s \in v.back})

\* Faulty: the others hear of a move before it is checked.
ToldBeforehand(c, s, v) ==
    [d \in Clients |->
        SendTo({c}, Corrections(v))[d] \o
        IF d = c THEN <<>> ELSE <<[type |-> "OtherMove", who |-> c, at |-> s]>>]

\* c hears of a correction, the others of a move.
Told(c, s, v) ==
    IF v.back # {}
    THEN SendTo({c}, Corrections(v))
    ELSE SendTo(Players \ {c}, <<[type |-> "OtherMove", who |-> c, at |-> s]>>)

\* c strays if he is sent back to another square than the one he keeps, or if
\* the server accepts a move he made before he knew of a correction.
Strays(c, m, v) == IF v.back # {} THEN v.back # {v.walker.coords}
                                  ELSE m.after < history.corrected[c].sent

HandleMove(c) ==
    /\ Take(c, "Move")
    /\ ~Refused(c)
    /\ LET m == Head(up[c])
       IN  \E v \in Verdicts(c, m.at) :
              /\ server' = [server EXCEPT !.walker[c] = v.walker]
              /\ down' = Told(c, m.at, v)
              /\ history' = [history EXCEPT
                    !.corrected[c].sent = IF v.back # {} THEN @ + 1 ELSE @,
                    !.astray = IF Strays(c, m, v) THEN @ \cup {c} ELSE @ \ {c}]

HandlePlaceBomb(c) ==
    /\ Take(c, "PlaceBomb")
    /\ ~Refused(c)
    /\ LET b == [at |-> Head(up[c]).at, atomic |-> FALSE]
       IN  /\ server' = [server EXCEPT !.bombs = Append(@, b)]
           /\ down' = SendTo(Players \ {c}, <<[type |-> "OtherBombPlace", bomb |-> b]>>)
    /\ UNCHANGED history

\* p leaves, after what he sent before; alive, he leaves an atomic bomb.  The
\* last player to stay has won.
Leave(p) ==
    /\ ~server.over
    /\ p \in server.players \cap Leavers
    /\ p \in Clients => up[p] = <<>>
    /\ LET b    == [at |-> Coords(p), atomic |-> TRUE]
           left == IF Alive(p) THEN {b} ELSE {}
       IN  /\ server' = [server EXCEPT !.players = @ \ {p},
                                       !.bombs = @ \o SetToSeq(left),
                                       !.over = Cardinality(server.players) = 2]
           /\ down' = SendTo(Players \ {p},
                        <<[type |-> "OtherLeave", who |-> p]>> \o
                        SetToSeq({[type |-> "OtherBombPlace", bomb |-> a] : a \in left}))
           /\ history' = [history EXCEPT !.bombs = @ \cup left]
    /\ UNCHANGED <<client, up>>

\* The living players on a square that b lights.
Exposed(b) ==
    {p \in server.players : Alive(p) /\ Coords(p) \in Lit(server.soft, b)}

\* NotifyExplosion: the front bomb takes a life from every living player it
\* lights, but for those who were hit less than IMMUNITY_TIME_MILLIS ago.  The
\* match ends with fewer than two alive.
Explode ==
    /\ ~server.over
    /\ server.bombs # <<>>
    /\ LET b == Head(server.bombs)
       IN  \E immune \in SUBSET {p \in Exposed(b) : server.lives[p] < Lives} :
              LET hit   == Exposed(b) \ immune
                  lives == [p \in Players |-> server.lives[p] - IF p \in hit THEN 1 ELSE 0]
              IN  /\ server' = [server EXCEPT
                        !.bombs = Tail(@), !.lives = lives, !.soft = Boomed(@, b),
                        !.over = Cardinality({p \in server.players : lives[p] > 0}) < 2]
                  /\ down' = SendTo(Players, SetToSeq(
                        {[type |-> "GotHit", who |-> p, lives |-> lives[p]] : p \in hit}))
    /\ UNCHANGED <<client, up, history>>

-----------------------------------------------------------------------------
Next == \/ \E c \in Clients :
             \/ Look(c)
             \/ \E space \in BOOLEAN, K \in SUBSET ArrowsLeft(c) : Keys(c, space, K)
             \/ Detonate(c) \/ Receive(c)
             \/ RefuseDead(c) \/ HandleMove(c) \/ HandlePlaceBomb(c)
        \/ \E p \in Players : Leave(p)
        \/ Explode

Spec == Init /\ [][Next]_vars

-----------------------------------------------------------------------------
(* Properties.                                                             *)

\* Nobody stands in a wall: no player on the server's map, no client's own
\* player on its map, and nobody is ever sent back to a square without a floor
\* (such as the one in an entry of moveHistory that was never written).
StandFree ==
    /\ \A p \in server.players : Coords(p) \in Floor \ server.soft
    /\ \A c \in Clients : c \in client[c].listed => Own(c) \in Floor \ client[c].soft
    /\ \A c \in Clients : \A i \in 1 .. Len(down[c]) :
          down[c][i].type = "MovementCorrection" => down[c][i].at \in Floor

\* The messages of some type about p that c has still to hear, by their places.
Unheard(c, type, p) ==
    {i \in 1 .. Len(down[c]) : down[c][i].type = type /\ down[c][i].who = p}

\* c sees p at s once it has heard the moves that are under way.
SeesAt(c, p, s) ==
    LET moves == Unheard(c, "OtherMove", p)
    IN  IF moves = {} THEN client[c].seen[p].at = s
        ELSE \E i \in moves : (\A j \in moves : j <= i) /\ down[c][i].at = s

\* The players whom c knows by a name that was theirs alone.
Named(c) == {p \in Players : Ghosts[c][p] = 0}

\* The others see a player where the server has him, unless he took the name
\* of somebody whom they still list from before the start.
SpectatorsAgree ==
    \A c \in Connected : \A p \in (server.players \cap Named(c)) \ {c} :
        p \in client[c].listed => SeesAt(c, p, Coords(p))

\* A client sees its own player where the server has him when nothing is under
\* way that would change that, unless he went astray: a correction crossed one
\* of his later moves, or sent him back in time.
SelfAgrees ==
    \A c \in Connected \ history.astray :
        /\ Alive(c) /\ c \in client[c].listed
        /\ \A i \in 1 .. Len(up[c]) : up[c][i].type # "Move"
        /\ \A i \in 1 .. Len(down[c]) : down[c][i].type # "MovementCorrection"
        => Own(c) = Coords(c)

\* The hits on p that c has still to hear of.
Hits(c, p) == Cardinality(Unheard(c, "GotHit", p))

\* The lists agree: a client lists a player exactly while he has lives left,
\* as far as it has heard, and knows how many; who has left is on no list for
\* longer than his OtherLeave takes.  All this of the players of the match with
\* a name of their own: who left before the start stays on the list.
ListsAgree ==
    \A c \in Connected :
        /\ \A p \in server.players \cap Named(c) :
              server.lives[p] = IF p \in client[c].listed
                                THEN client[c].seen[p].health - Hits(c, p) ELSE 0
        /\ \A p \in client[c].listed \cap Named(c) : client[c].seen[p].health > 0
        /\ \A p \in (client[c].listed \cap Named(c)) \ server.players :
              Unheard(c, "OtherLeave", p) # {}

\* A correction changes the front of the list, whoever is there: it never
\* reaches a client whose own player is no longer on its list.
CorrectionFindsItsPlayer ==
    \A c \in Connected :
        down[c] # <<>> /\ Head(down[c]).type = "MovementCorrection"
            => c \in client[c].listed

\* The maps agree: a living player's client that has no bomb left to set off,
\* and has heard of all, has the server's map, if no two bombs of the match
\* might have taken the same wall.
NoBombsUnderWay(c) ==
    /\ server.bombs = <<>> /\ client[c].bombs = <<>>
    /\ \A i \in 1 .. Len(up[c]) : up[c][i].type # "PlaceBomb"
    /\ \A i \in 1 .. Len(down[c]) : down[c][i].type # "OtherBombPlace"

MapsAgree ==
    (\A a, b \in history.bombs : a # b => ~Meet(a, b, Soft)) =>
        \A c \in Connected :
            Alive(c) /\ NoBombsUnderWay(c) => client[c].soft = server.soft

\* An explosion does what the definition of a bomb's reach says: it takes lives
\* only on squares the front bomb reaches, and exactly the walls it reaches.
BlastsAreAsDefined ==
    [][server'.bombs # server.bombs /\ Len(server'.bombs) < Len(server.bombs) =>
         LET b == Head(server.bombs)
         IN  /\ \A p \in server.players : server'.lives[p] < server.lives[p] =>
                   Coords(p) = b.at \/ Reaches(server.soft, b, Coords(p))
             /\ \A s \in server.soft : s \notin server'.soft <=> Reaches(server.soft, b, s)]_vars
=============================================================================
