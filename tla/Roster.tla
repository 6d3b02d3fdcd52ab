------------------------------- MODULE Roster -------------------------------
(***************************************************************************)
(* Who a client thinks is in the room, from the menu to the end of the     *)
(* match.                                                                  *)
(*                                                                         *)
(* The room announces who joins, loses his last life and leaves, the start *)
(* and the winner (Room::JoinPlayer, NotifyExplosion, DisconnectPlayers).  *)
(* A client keeps a list of usernames, its own at the front: while it      *)
(* waits (wait4Game, handleLobbyMsg) it learns of those who come, while it *)
(* plays (receiveLoop, handleMessage) of those who go.                     *)
(*                                                                         *)
(* A connection is the queue of messages in the kernel and inboundQueue,   *)
(* into which a read puts what came together with the message it returns.  *)
(* Positions, bombs and the lives before the last are in Arena.            *)
(***************************************************************************)
EXTENDS Naturals, Sequences, FiniteSets, SequencesExt

CONSTANTS Clients,      \* each joins at most once
          Watched,      \* those whose client is part of the model
          Names,        \* usernames
          NameChoices,  \* how the clients may choose them
          MaxPlayers    \* MAX_PLAYERS

ASSUME RosterAssumption == /\ IsFiniteSet(Clients) /\ Watched \subseteq Clients
                           /\ NameChoices \subseteq [Clients -> Names]
                           /\ MaxPlayers \in Nat /\ MaxPlayers >= 2

VARIABLES
    room,      \* the room: phase, players with newcomers first, the dead,
               \* clientCount, whose JOIN_ROOM has been handled, and the
               \* username in each
    client,    \* what a client keeps
    net,       \* messages for a client that it has not read
    queue,     \* its inboundQueue
    history    \* history: the winner announced in a match and who was told,
               \* and who left before the start while a client was in the room

vars == <<room, client, net, queue, history>>

Message == [type : {"GameJoin", "GotHit", "OtherLeave", "GameWon"}, name : Names]
               \cup [type : {"WelcomeToRoom"}, names : Seq(Names)]
               \cup [type : {"GameStart", "Error", "Eof"}]

TypeOK ==
    /\ room \in [phase : {"waiting", "playing", "over"}, seats : Seq(Clients),
                 dead : SUBSET Clients, joined : 0 .. MaxPlayers,
                 answered : SUBSET Clients, name : [Clients -> Names]]
    /\ client \in [Watched -> [phase : {"menu", "waiting", "playing", "stuck",
                                        "exited", "quit"},
                               list : Seq(Names), winner : SUBSET Names,
                               draining : BOOLEAN]]
    /\ net \in [Watched -> Seq(Message)]
    /\ queue \in [Watched -> Seq(Message \ {[type |-> "Eof"]})]
    /\ history \in [winner : SUBSET Names, told : SUBSET Clients,
                    early : [Watched -> SUBSET Clients]]

Init ==
    /\ \E name \in NameChoices :
          room = [phase |-> "waiting", seats |-> <<>>, dead |-> {}, joined |-> 0,
                  answered |-> {}, name |-> name]
    /\ client = [c \in Watched |-> [phase |-> "menu", list |-> <<>>, winner |-> {},
                                    draining |-> FALSE]]
    /\ net = [c \in Watched |-> <<>>]
    /\ queue = [c \in Watched |-> <<>>]
    /\ history = [winner |-> {}, told |-> {}, early |-> [c \in Watched |-> {}]]

Seated == ToSet(room.seats)
Living == Seated \ room.dead
Name(c) == room.name[c]
NamesOf(C) == {Name(c) : c \in C}

Of(type, s) == [i \in 1 .. Len(s) |-> [type |-> type, name |-> Name(s[i])]]

\* The players of the sequence s that are in A, in their order.
Kept(s, A) ==
    LET upTo[i \in 0 .. Len(s)] ==
            IF i = 0 THEN <<>>
            ELSE IF s[i] \in A THEN Append(upTo[i - 1], s[i]) ELSE upTo[i - 1]
    IN  upTo[Len(s)]

-----------------------------------------------------------------------------
(* The room.                                                               *)

\* Every client d is sent said[d], if it is still there to receive it.
Sent(said) == [d \in Watched |-> IF client[d].phase = "quit" THEN net[d]
                                 ELSE net[d] \o said[d]]

\* The JOIN_ROOM of c has arrived and not been handled.
Asks(c) == /\ c \notin room.answered
           /\ c \in Watched => client[c].phase # "menu"

CanJoin(c) == Name(c) \notin NamesOf(Seated) /\ room.joined < MaxPlayers

\* Faulty: the newcomer is listed at the end.
WelcomeLast(c) == Append(room.seats, c)

\* The vector of players once c has joined: WELCOME_TO_ROOM lists it.
Welcome(c) == <<c>> \o room.seats

\* Faulty: a match starts with as many players as there are places.
StartsFull == Cardinality(Seated) + 1 = MaxPlayers

Starts == room.joined + 1 = MaxPlayers

JoinPlayer(c) ==
    /\ Asks(c) /\ CanJoin(c)
    /\ room.phase = "waiting"
    /\ room' = [room EXCEPT !.seats = Welcome(c), !.joined = @ + 1,
                            !.answered = @ \cup {c},
                            !.phase = IF Starts THEN "playing" ELSE @]
    /\ net' = Sent([d \in Watched |->
           (IF d = c
            THEN <<[type |-> "WelcomeToRoom",
                    names |-> [i \in 1 .. Len(Welcome(c)) |-> Name(Welcome(c)[i])]]>>
            ELSE IF d \in Seated THEN Of("GameJoin", <<c>>) ELSE <<>>)
           \o IF Starts /\ d \in Seated \cup {c} THEN <<[type |-> "GameStart"]>> ELSE <<>>])
    /\ UNCHANGED <<client, queue, history>>

\* Refused, or too late: then the connection is closed as well.
Refuse(c) ==
    /\ Asks(c) /\ c \in Watched
    /\ ~CanJoin(c) \/ room.phase # "waiting"
    /\ room' = [room EXCEPT !.answered = @ \cup {c}]
    /\ net' = Sent([d \in Watched |->
           IF d # c THEN <<>>
           ELSE IF CanJoin(c) THEN <<[type |-> "Error"], [type |-> "Eof"]>>
           ELSE <<[type |-> "Error"]>>])
    /\ UNCHANGED <<client, queue, history>>

\* What d hears when S goes: of those ahead of him, if he goes himself.
Farewell(S, d) ==
    LET Ahead(p) == \A i, j \in 1 .. Len(room.seats) :
                        room.seats[i] = p /\ room.seats[j] = d => i < j
        heard == Kept(room.seats, {p \in S : d \in S => Ahead(p)})
    IN  Of("OtherLeave", heard) \o IF d \in S THEN <<[type |-> "Eof"]>> ELSE <<>>

\* Faulty: the winner is announced to connections that are closed.
AnnouncedLate(S, said, d) == Farewell(S, d) \o said

Announced(S, said, d) == said \o Farewell(S, d)

\* DisconnectPlayers for the players S, after H have died, everybody was told
\* what is said and W was announced as the winner; one who would stay alone
\* has won.
DisconnectPlayers(S, H, said, W) ==
    LET stay == Kept(room.seats, Seated \ S)
        last == IF Len(stay) = 1 THEN ToSet(stay) ELSE {}
    IN  /\ room' = [room EXCEPT !.seats = IF Len(stay) < 2 THEN <<>> ELSE stay,
                                !.dead = @ \cup H,
                                !.phase = IF Len(stay) < 2 THEN "over" ELSE @]
        /\ net' = Sent([d \in Watched |->
              IF d \notin Seated THEN <<>>
              ELSE Announced(S, said, d)
                   \o IF d \in last THEN Of("GameWon", stay) \o <<[type |-> "Eof"]>> ELSE <<>>])
        /\ history' = [history EXCEPT
              !.winner = @ \cup W \cup NamesOf(last),
              !.told = IF room.phase # "playing" THEN @
                       ELSE IF W # {} THEN Seated ELSE last,
              !.early = [c \in Watched |->
                  IF room.phase = "waiting" /\ c \in ToSet(stay) THEN @[c] \cup S ELSE @[c]]]

\* Players go, whatever the reason: they leave, hang up, or a send fails.  Or
\* nobody goes: the pass is made after every message, and a player who is alone
\* in a room has won.
Leave(S) == /\ room.phase # "over"
            /\ Seated # {} /\ S \subseteq Seated
            /\ DisconnectPlayers(S, {}, <<>>, {})
            /\ UNCHANGED <<client, queue>>

\* A bomb takes the last life of the players H; with fewer than two alive the
\* match is won, and everybody is disconnected.
Explode(H) ==
    /\ room.phase = "playing"
    /\ H \subseteq Living
    /\ LET hits  == Of("GotHit", Kept(room.seats, H))
           alive == Living \ H
       IN  \/ /\ Cardinality(alive) >= 2 /\ H # {}
              /\ room' = [room EXCEPT !.dead = @ \cup H]
              /\ net' = Sent([d \in Watched |-> IF d \in Seated THEN hits ELSE <<>>])
              /\ UNCHANGED history
           \/ /\ Cardinality(alive) < 2
              /\ \E w \in IF alive = {} THEN Seated ELSE alive :
                    DisconnectPlayers(Seated, H, hits \o Of("GameWon", <<w>>), {Name(w)})
    /\ UNCHANGED <<client, queue>>

-----------------------------------------------------------------------------
(* A client.                                                               *)

\* The menu ends: JOIN_ROOM for a room that was on the list, or a new one.
Ask(c) == /\ client[c].phase = "menu"
          /\ client' = [client EXCEPT ![c].phase = "waiting"]
          /\ UNCHANGED <<room, net, queue, history>>

\* handleLobbyMsg: OtherLeave and GameWon are not asked for.
HandleLobbyMsg(k, m) ==
    CASE m.type = "WelcomeToRoom" -> [k EXCEPT !.list = @ \o m.names]
      [] m.type = "GameJoin"      -> [k EXCEPT !.list = Append(@, m.name)]
      [] m.type = "GameStart"     -> [k EXCEPT !.phase = "playing"]
      [] m.type = "Error"         -> [k EXCEPT !.phase = "stuck"]
      [] OTHER                    -> k

\* findPlayer and erase: the first player of that name goes.
Without(s, n) == RemoveFirst(s, n)

\* Faulty: the dead stay on the list.
HandleMessageLeaving(k, m) ==
    CASE m.type = "OtherLeave" -> [k EXCEPT !.list = Without(@, m.name)]
      [] m.type = "GameWon"    -> [k EXCEPT !.winner = {m.name}]
      [] OTHER                 -> k

HandleMessage(k, m) ==
    CASE m.type \in {"OtherLeave", "GotHit"} -> [k EXCEPT !.list = Without(@, m.name)]
      [] m.type = "GameWon"                  -> [k EXCEPT !.winner = {m.name}]
      [] OTHER                               -> k

Handle(k, m) == IF m.type = "Eof" THEN [k EXCEPT !.phase = "exited"]
                ELSE IF k.phase = "waiting" THEN HandleLobbyMsg(k, m)
                ELSE IF k.phase = "playing" THEN HandleMessage(k, m) ELSE k

\* Faulty: the queue is not emptied.
StaysForOne(k, left) == FALSE

\* receiveLoop goes on without polling until the queue is empty; wait4Game
\* ends with GameStart, whatever the queue still holds.
Stays(k, left) == k.phase = "playing" /\ left # <<>>

\* Faulty: the end of the stream is taken together with messages.
ReadsOn(c) == IF queue[c] # <<>> THEN {0} ELSE 1 .. Len(net[c])

\* How many messages are read: none if some are left in inboundQueue, else any
\* number of those that have arrived, the end of the stream by itself.
Reads(c) == IF queue[c] # <<>> THEN {0}
            ELSE {n \in 1 .. Len(net[c]) : \A i \in 2 .. n : net[c][i].type # "Eof"}

\* One message is received and handled.
Receive(c) ==
    /\ client[c].phase \in {"waiting", "playing"}
    /\ client[c].phase = "playing" => client[c].draining \/ net[c] # <<>>
    /\ \E n \in Reads(c) :
          LET read == queue[c] \o SubSeq(net[c], 1, n)
              k    == Handle(client[c], Head(read))
          IN  /\ client' = [client EXCEPT ![c] =
                    [k EXCEPT !.draining = Stays(client[c], Tail(read))]]
              /\ queue' = [queue EXCEPT ![c] = Tail(read)]
              /\ net' = [net EXCEPT ![c] = SubSeq(@, n + 1, Len(@))]
    /\ UNCHANGED <<room, history>>

\* The user ends the process, or clicks Exit under an error.
Quit(c) == /\ client[c].phase \in {"waiting", "playing", "stuck"}
           /\ client' = [client EXCEPT ![c].phase = "quit", ![c].draining = FALSE]
           /\ net' = [net EXCEPT ![c] = <<>>]
           /\ queue' = [queue EXCEPT ![c] = <<>>]
           /\ UNCHANGED <<room, history>>

-----------------------------------------------------------------------------
Next == \/ \E c \in Clients : JoinPlayer(c) \/ Refuse(c)
        \/ \E S \in SUBSET Seated : Leave(S) \/ Explode(S)
        \/ \E c \in Watched : Ask(c) \/ Receive(c) \/ Quit(c)

Spec == Init /\ [][Next]_vars

\* The thread of a client that receives is always running.
FairSpec == Spec /\ \A c \in Watched : WF_vars(Receive(c))

-----------------------------------------------------------------------------
(* Properties.                                                             *)

\* What k becomes when the messages s are handled.
After(k, s) ==
    LET upTo[i \in 0 .. Len(s)] == IF i = 0 THEN k ELSE Handle(upTo[i - 1], s[i])
    IN  upTo[Len(s)]

\* What client c will keep when it has handled all that was sent to it.
Informed(c) == After(client[c], queue[c] \o net[c])

Count(s, n) == Cardinality({i \in 1 .. Len(s) : s[i] = n})

\* Clients that are in the room and will know it.
Present == {c \in Watched \cap Seated : client[c].phase # "quit"}

\* The list begins with the client's own name ("with you at the first index
\* (!)") until he dies: the render loop and a MovementCorrection take
\* players[0] for the own player.
SelfFirst == \A c \in Watched \ room.dead :
                client[c].list # <<>> => Head(client[c].list) = Name(c)

\* A client lists every living player of its room, as soon as it has heard all
\* there is to hear, and nobody else but those who left while it waited.  (Who
\* goes by the name of one of them takes him off the list, dead or alive.)
RosterAgrees ==
    \A c \in Present, n \in Names :
        LET listed == Count(Informed(c).list, n)
            living == Cardinality({d \in Living : Name(d) = n})
            ghosts == Cardinality({d \in history.early[c] : Name(d) = n})
        IN  living <= listed /\ listed <= living + ghosts

\* Whoever is in the room when a match is won learns who won it before the end
\* of the connection ends the process.
WinnerKnown == \A c \in Watched \cap history.told :
                  client[c].phase # "quit" => Informed(c).winner = history.winner

\* What was read together with GameStart waits for the next bytes; when those
\* come everything is handled.
NothingLeftBehind ==
    \A c \in Watched :
        (client[c].phase = "playing" /\ net[c] # <<>>)
            ~> (client[c].phase # "playing" \/ (net[c] = <<>> /\ queue[c] = <<>>))

\* The room as it is told here does what Match promises.
M == INSTANCE Match WITH phase <- room.phase, members <- NamesOf(Seated),
                         entered <- room.joined, winners <- history.winner

MatchSpec == M!Spec
=============================================================================
