------------------------------- MODULE Lobby -------------------------------
(***************************************************************************)
(* Who owns a client's connection: the lobby thread, the rooms thread and  *)
(* the bombs thread, the maps they share and the descriptors behind them.  *)
(*                                                                         *)
(* A Connection belongs to lobbyConns and then to roomConns; the kernel    *)
(* knows it by a descriptor, which is given to the next client as soon as  *)
(* it is closed.  roomsMtx orders what the threads do to rooms, but the    *)
(* lobby accepts clients and drops them without it.                        *)
(*                                                                         *)
(* A room is here what Match makes of it, its phase and its players; which *)
(* of them an event makes leave is left open.  No client sends anything    *)
(* after JOIN_ROOM before it is answered.                                  *)
(***************************************************************************)
EXTENDS Naturals, Sequences, FiniteSets

CONSTANTS Clients,      \* clients; each connects once
          Rooms,        \* bound: rooms that exist at once
          NumFds,       \* bound: descriptors for clients
          MaxPlayers,   \* MAX_PLAYERS
          NoOne         \* no client

ASSUME LobbyAssumption == /\ NoOne \notin Clients
                          /\ Rooms # {}
                          /\ NumFds \in Nat /\ NumFds >= 1
                          /\ MaxPlayers \in Nat /\ MaxPlayers >= 2

Fds == 1 .. NumFds

VARIABLES
    os,        \* the kernel: clients waiting to be accepted, whether epoll has
               \* still to report the listening socket, who is behind every
               \* descriptor, and whose address its epoll entries hold
    sock,      \* Connection::sock, 0 before the client was accepted
    conns,     \* lobbyConns, roomConns and roomAssignments
    rooms,     \* the rooms
    lobby,     \* the lobby thread: what it does, and for whom
    batch,     \* events epoll has reported to the rooms thread
    cut,       \* DisconnectPlayers: the thread that holds the lock for it, the
               \* room, who goes, and whose socket is closed already
    up         \* the server process is alive

vars == <<os, sock, conns, rooms, lobby, batch, cut, up>>

Someone == Clients \cup {NoOne}
Nowhere == [f \in Fds |-> NoOne]
NoRoom == [phase |-> "absent", players |-> {}, entered |-> 0]
NoCut == [by |-> "nobody", room |-> CHOOSE r \in Rooms : TRUE, out |-> {}, closed |-> {}]

TypeOK ==
    /\ os \in [queue : Seq(Clients), edge : BOOLEAN, open : [Fds -> Someone],
               lobbyEpoll : [Fds -> Someone], roomEpoll : [Fds -> Someone]]
    /\ sock \in [Clients -> 0 .. NumFds]
    /\ conns \in [lobby : SUBSET Clients, room : [Fds -> Someone],
                  assigned : [Fds -> Someone]]
    /\ rooms \in [Rooms -> [phase : {"absent", "waiting", "playing", "over"},
                            players : SUBSET Clients, entered : 0 .. MaxPlayers]]
    /\ lobby \in [at : {"wait", "message", "more"}, conn : Someone]
    /\ batch \subseteq Clients
    /\ cut \in [by : {"nobody", "rooms", "bombs"}, room : Rooms,
                out : SUBSET Clients, closed : SUBSET Clients]
    /\ up \in BOOLEAN

Init == /\ os = [queue |-> <<>>, edge |-> FALSE, open |-> Nowhere,
                 lobbyEpoll |-> Nowhere, roomEpoll |-> Nowhere]
        /\ sock = [c \in Clients |-> 0]
        /\ conns = [lobby |-> {}, room |-> Nowhere, assigned |-> Nowhere]
        /\ rooms = [r \in Rooms |-> NoRoom]
        /\ lobby = [at |-> "wait", conn |-> NoOne]
        /\ batch = {}
        /\ cut = NoCut
        /\ up = TRUE

\* The Connection of c has not been destroyed.
Alive(c) == c \in conns.lobby \/ (sock[c] # 0 /\ conns.room[sock[c]] = c)

\* What a thread finds at an address whose object is gone can end the process.
UsesFreed(b) == up' \in IF b THEN BOOLEAN ELSE {TRUE}

Unlocked == cut.by = "nobody"

-----------------------------------------------------------------------------
(* The kernel.                                                             *)

\* close(f), which takes the descriptor out of every epoll set.
Closed(o, f) == [o EXCEPT !.open[f] = NoOne, !.lobbyEpoll[f] = NoOne,
                          !.roomEpoll[f] = NoOne]

InQueue(c) == \E i \in 1 .. Len(os.queue) : os.queue[i] = c

\* c connects; the listening socket becomes readable.
Connect(c) == /\ up
              /\ sock[c] = 0 /\ ~InQueue(c)
              /\ os' = [os EXCEPT !.queue = Append(@, c), !.edge = TRUE]
              /\ UNCHANGED <<sock, conns, rooms, lobby, batch, cut, up>>

-----------------------------------------------------------------------------
(* The lobby thread.                                                       *)

\* One event, one accept, whatever is still waiting.  What the maps hold for
\* a former owner of the descriptor is thrown out.
Accept ==
    /\ up
    /\ lobby.at = "wait"
    /\ os.edge /\ os.queue # <<>>
    /\ \E f \in Fds :
          /\ os.open[f] = NoOne /\ \A g \in Fds : os.open[g] = NoOne => f <= g
          /\ LET c == Head(os.queue)
             IN  /\ os' = [os EXCEPT !.queue = Tail(@), !.edge = FALSE,
                                     !.open[f] = c, !.lobbyEpoll[f] = c]
                 /\ sock' = [sock EXCEPT ![c] = f]
                 /\ conns' = [lobby    |-> {d \in conns.lobby : sock[d] # f} \cup {c},
                              room     |-> [conns.room EXCEPT ![f] = NoOne],
                              assigned |-> [conns.assigned EXCEPT ![f] = NoOne]]
    /\ UNCHANGED <<rooms, lobby, batch, cut, up>>

\* No descriptor is free: accept fails.
AcceptFails == /\ up
               /\ lobby.at = "wait"
               /\ os.edge /\ os.queue # <<>>
               /\ \A f \in Fds : os.open[f] # NoOne
               /\ os' = [os EXCEPT !.edge = FALSE]
               /\ UNCHANGED <<sock, conns, rooms, lobby, batch, cut, up>>

\* Faulty: the Connection stays in lobbyConns.
CleanupSockKeeps(f) ==
    /\ os' = Closed(os, f)
    /\ conns' = [conns EXCEPT !.room[f] = NoOne, !.assigned[f] = NoOne]

cleanupSock(f) ==
    /\ os' = Closed(os, f)
    /\ conns' = [lobby    |-> {d \in conns.lobby : sock[d] # f},
                 room     |-> [conns.room EXCEPT ![f] = NoOne],
                 assigned |-> [conns.assigned EXCEPT ![f] = NoOne]]

\* An event on the descriptor of c: a message, or none.
Receive(c) ==
    /\ up
    /\ lobby.at = "wait"
    /\ \E f \in Fds : os.lobbyEpoll[f] = c
    /\ lobby' = [at |-> "message", conn |-> c]
    /\ UNCHANGED <<os, sock, conns, rooms, batch, cut, up>>

ReceiveFails(c) ==
    /\ up
    /\ lobby.at = "wait"
    /\ \E f \in Fds : os.lobbyEpoll[f] = c
    /\ cleanupSock(sock[c])
    /\ UNCHANGED <<sock, rooms, lobby, batch, cut, up>>

\* handleLobbyMessage, with the lock.
Handling(c) == /\ up
               /\ lobby = [at |-> "message", conn |-> c]
               /\ Unlocked
               /\ lobby' = [lobby EXCEPT !.at = "more"]
               /\ UNCHANGED <<sock, batch, cut, up>>

\* The answer is sent, or cannot be and the connection is given up.
Answered(c) == UNCHANGED <<os, conns>> \/ cleanupSock(sock[c])

\* GET_ROOM_LIST destroys the rooms that are over.
GetRoomList(c) ==
    /\ Handling(c)
    /\ rooms' = [r \in Rooms |-> IF rooms[r].phase = "over" THEN NoRoom ELSE rooms[r]]
    /\ Answered(c)

\* JOIN_ROOM of a room that does not exist, or that CanJoin refuses; any other
\* message.
RefuseMessage(c) == /\ Handling(c)
                    /\ UNCHANGED rooms
                    /\ Answered(c)

\* JOIN_ROOM without a room and with a name that CanJoin refuses: the new room
\* stays, empty.
RefuseCreator(c, r) ==
    /\ Handling(c)
    /\ rooms[r].phase = "absent"
    /\ rooms' = [rooms EXCEPT ![r].phase = "waiting"]
    /\ Answered(c)

\* The Connection of c moves from lobbyConns to roomConns.
Moved(c) == [conns EXCEPT !.lobby = @ \ {c}, !.room[sock[c]] = c]

\* JoinPlayer of a room that waits, which may be a new one.
Seated(c, r) ==
    [rooms EXCEPT ![r] = [phase   |-> IF @.entered + 1 = MaxPlayers THEN "playing" ELSE "waiting",
                          players |-> @.players \cup {c},
                          entered |-> @.entered + 1]]

\* Faulty: the lobby goes on watching the descriptor.
WatchedTwice(c) == [os EXCEPT !.roomEpoll[sock[c]] = c]

\* Faulty: nobody watches the descriptor any more.
Unwatched(c) == [os EXCEPT !.lobbyEpoll[sock[c]] = NoOne]

\* The descriptor moves from one epoll set to the other.
Watched(c) == [os EXCEPT !.lobbyEpoll[sock[c]] = NoOne, !.roomEpoll[sock[c]] = c]

\* Faulty: CanJoin forgets to ask whether the room is full.
JoinAnyRoom(c, r) == /\ Handling(c)
                     /\ rooms[r].phase \in {"absent", "waiting", "playing"}
                     /\ rooms' = Seated(c, r)
                     /\ os' = Watched(c)
                     /\ conns' = [Moved(c) EXCEPT !.assigned[sock[c]] = c]

\* JOIN_ROOM, granted.
JoinRoom(c, r) == /\ Handling(c)
                  /\ rooms[r].phase \in {"absent", "waiting"}
                  /\ rooms' = Seated(c, r)
                  /\ os' = Watched(c)
                  /\ conns' = [Moved(c) EXCEPT !.assigned[sock[c]] = c]

\* JOIN_ROOM of a room that ended before it was full: JoinPlayer refuses after
\* the Connection has moved.
JoinTooLate(c, r) ==
    /\ Handling(c)
    /\ rooms[r].phase = "over" /\ rooms[r].entered < MaxPlayers
    /\ os' = Closed(os, sock[c])
    /\ conns' = [conns EXCEPT !.lobby = @ \ {c}]
    /\ UNCHANGED rooms

\* The loop asks the Connection for more messages, without the lock.
HasMoreMessages(c) ==
    /\ up
    /\ lobby = [at |-> "more", conn |-> c]
    /\ \/ lobby' = [at |-> "wait", conn |-> NoOne]
       \/ c \in conns.lobby /\ lobby' = [lobby EXCEPT !.at = "message"]
    /\ UsesFreed(~Alive(c))
    /\ UNCHANGED <<os, sock, conns, rooms, batch, cut>>

-----------------------------------------------------------------------------
(* DisconnectPlayers and the rest of handleRoomPostEvent, with the lock.   *)

\* Who may go: as many as leave two or nobody.
Leavers(r) == {S \in SUBSET rooms[r].players :
                 \/ S = rooms[r].players
                 \/ Cardinality(rooms[r].players \ S) >= 2}

Begin(thread, r) ==
    \E S \in Leavers(r) :
        cut' = IF S = {} THEN cut
               ELSE [by |-> thread, room |-> r, out |-> S, closed |-> {}]

\* The next of them: the others hear of it, also those who are closed already,
\* and its socket is closed.
CloseNext(c) ==
    /\ up
    /\ ~Unlocked
    /\ c \in cut.out \ cut.closed
    /\ UsesFreed(\E d \in cut.closed : ~Alive(d))
    /\ os' = Closed(os, sock[c])
    /\ cut' = [cut EXCEPT !.closed = @ \cup {c}]
    /\ UNCHANGED <<sock, conns, rooms, lobby, batch>>

Without(m, S) == [f \in Fds |-> IF \E c \in S : sock[c] = f THEN NoOne ELSE m[f]]

\* The players leave the room, and the maps their descriptors, which are read
\* from the Connections after the close.
EraseAll ==
    /\ up
    /\ ~Unlocked /\ cut.closed = cut.out
    /\ rooms' = [rooms EXCEPT
          ![cut.room].players = @ \ cut.out,
          ![cut.room].phase = IF rooms[cut.room].players = cut.out THEN "over" ELSE @]
    /\ conns' = [conns EXCEPT !.room = Without(@, cut.out),
                              !.assigned = Without(@, cut.out)]
    /\ UsesFreed(\E d \in cut.closed : ~Alive(d))
    /\ cut' = NoCut
    /\ UNCHANGED <<os, sock, lobby, batch>>

-----------------------------------------------------------------------------
(* The rooms thread and the bombs thread.                                  *)

EpollWait == /\ up
             /\ batch = {} /\ cut.by # "rooms"
             /\ \E S \in SUBSET ({os.roomEpoll[f] : f \in Fds} \ {NoOne}) \ {{}} :
                   batch' = S
             /\ UNCHANGED <<os, sock, conns, rooms, lobby, cut, up>>

\* The next event: of a marked player it is skipped, any other ends in
\* handleRoomPostEvent.
RoomsEvent(c, r) ==
    /\ up
    /\ Unlocked
    /\ c \in batch /\ c \in rooms[r].players
    /\ batch' = batch \ {c}
    /\ Begin("rooms", r) \/ cut' = cut
    /\ UNCHANGED <<os, sock, conns, rooms, lobby, up>>

\* The event of a player who left after it was reported: the PlayerInRoom is
\* gone, and what is there instead leads to a player of some room or nowhere.
StaleEvent(c) ==
    /\ up
    /\ Unlocked
    /\ c \in batch /\ \A r \in Rooms : c \notin rooms[r].players
    /\ batch' = batch \ {c}
    /\ \E r \in Rooms : Begin("rooms", r)
    /\ UsesFreed(TRUE)
    /\ UNCHANGED <<os, sock, conns, rooms, lobby>>

BombsEvent(r) == /\ up
                 /\ Unlocked
                 /\ rooms[r].phase = "playing"
                 /\ Begin("bombs", r)
                 /\ UNCHANGED <<os, sock, conns, rooms, lobby, batch, up>>

-----------------------------------------------------------------------------
Next == \/ \E c \in Clients :
             \/ Connect(c)
             \/ Receive(c) \/ ReceiveFails(c) \/ HasMoreMessages(c)
             \/ GetRoomList(c) \/ RefuseMessage(c)
             \/ \E r \in Rooms : RefuseCreator(c, r) \/ JoinRoom(c, r) \/ JoinTooLate(c, r)
             \/ CloseNext(c) \/ StaleEvent(c)
             \/ \E r \in Rooms : RoomsEvent(c, r)
        \/ Accept \/ AcceptFails
        \/ EraseAll
        \/ EpollWait
        \/ \E r \in Rooms : BombsEvent(r)

Spec == Init /\ [][Next]_vars

-----------------------------------------------------------------------------
(* Properties.                                                             *)

\* Whenever the lock is free, everybody behind an open descriptor has one
\* Connection with one owner, and nothing is left of those who are gone: no
\* client hangs on a socket nobody knows of.
OneOwner ==
    up /\ Unlocked =>
        \A f \in Fds :
            LET c      == os.open[f]
                inLobby == {d \in conns.lobby : sock[d] = f}
                inRoom == {conns.room[f], conns.assigned[f]}
            IN  \/ c = NoOne /\ inLobby = {} /\ inRoom = {NoOne}
                \/ c # NoOne /\ inLobby = {c} /\ inRoom = {NoOne}
                \/ c # NoOne /\ inLobby = {} /\ inRoom = {c}

\* Whenever the lock is free, the players of the rooms are the owners of the
\* connections in roomConns, and the rooms thread watches each of them.
PlayersAreWatched ==
    up /\ Unlocked =>
        /\ \A r \in Rooms : \A c \in rooms[r].players :
              conns.room[sock[c]] = c /\ os.roomEpoll[sock[c]] = c
        /\ \A f \in Fds : conns.room[f] # NoOne =>
              \E r \in Rooms : conns.room[f] \in rooms[r].players

\* At every moment what an epoll entry points to is there.
EntriesPointToLive ==
    up => \A f \in Fds :
            /\ os.lobbyEpoll[f] # NoOne => os.lobbyEpoll[f] \in conns.lobby
            /\ os.roomEpoll[f] # NoOne => conns.assigned[f] = os.roomEpoll[f]
=============================================================================
