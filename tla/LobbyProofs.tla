---------------------------- MODULE LobbyProofs ----------------------------
(***************************************************************************)
(* Theorems about Lobby, for any number of clients, rooms and descriptors. *)
(*                                                                         *)
(* The properties speak of moments when roomsMtx is free.  Between two of  *)
(* them a descriptor may have been closed by DisconnectPlayers and given   *)
(* to a new client by the lobby, which does not take the lock, while the   *)
(* old one is still in roomConns.  Inv says what holds then as well.       *)
(***************************************************************************)
EXTENDS Lobby, TLAPS

Player(c) == \E r \in Rooms : c \in rooms[r].players

\* Nobody waits twice, or after he was accepted.
Queued == \A i \in 1 .. Len(os.queue) :
             /\ sock[os.queue[i]] = 0
             /\ \A j \in 1 .. Len(os.queue) : os.queue[i] = os.queue[j] => i = j

\* Whoever is behind a descriptor has it as his sock, and an owner.
Opened == \A f \in Fds : os.open[f] # NoOne =>
             LET c == os.open[f]
             IN  sock[c] = f /\ (c \in conns.lobby \/ conns.room[f] = c)

\* The lobby watches the connections it owns and no others.
LobbyOwns ==
    /\ \A c \in conns.lobby : /\ sock[c] # 0
                              /\ os.open[sock[c]] = c /\ os.lobbyEpoll[sock[c]] = c
    /\ \A f \in Fds : os.lobbyEpoll[f] # NoOne =>
          os.lobbyEpoll[f] \in conns.lobby /\ sock[os.lobbyEpoll[f]] = f

\* A player is in one room, and the maps hold him until his socket is closed.
RoomsOwn ==
    /\ conns.assigned = conns.room
    /\ \A c \in Clients : Player(c) =>
          /\ sock[c] # 0 /\ c \notin conns.lobby
          /\ c \notin cut.closed => /\ os.open[sock[c]] = c
                                    /\ os.roomEpoll[sock[c]] = c
                                    /\ conns.room[sock[c]] = c
    /\ \A c, d \in Clients : Player(c) /\ Player(d) /\ sock[c] = sock[d] => c = d
    /\ \A r, s \in Rooms : rooms[r].players \cap rooms[s].players # {} => r = s
    /\ \A f \in Fds : conns.room[f] # NoOne =>
          Player(conns.room[f]) /\ sock[conns.room[f]] = f
    /\ \A f \in Fds : os.roomEpoll[f] # NoOne =>
          conns.room[f] = os.roomEpoll[f] /\ os.open[f] = os.roomEpoll[f]

\* DisconnectPlayers has closed the sockets of some of those who leave its room.
Cutting ==
    /\ cut.closed \subseteq cut.out /\ cut.out \subseteq rooms[cut.room].players
    /\ Unlocked => cut.out = {}
    /\ \A c \in cut.closed : os.open[sock[c]] # c

\* Rooms that do not exist or are over are empty, one that waits has a place.
Phases == \A r \in Rooms :
    /\ rooms[r].phase = "absent" => rooms[r].players = {} /\ rooms[r].entered = 0
    /\ rooms[r].phase = "over" => rooms[r].players = {}
    /\ rooms[r].phase = "waiting" => rooms[r].entered < MaxPlayers

\* The client whose message is handled is still in the lobby.
Serving == /\ lobby.at # "wait" => lobby.conn \in Clients
           /\ lobby.at = "message" => lobby.conn \in conns.lobby

Inv == /\ TypeOK
       /\ Queued /\ Opened /\ LobbyOwns /\ RoomsOwn
       /\ Cutting /\ Phases /\ Serving

-----------------------------------------------------------------------------
(* Steps of the lobby thread and of the kernel.                            *)

\* A server that has just started owns nothing.
LEMMA InitOk == Init => Inv
<1> SUFFICES ASSUME Init PROVE Inv
  OBVIOUS
<1>1. TypeOK
  BY LobbyAssumption DEF Init, TypeOK, Someone, Nowhere, NoRoom, NoCut, Fds
<1>2. Queued /\ Opened /\ LobbyOwns /\ Serving
  BY DEF Init, Queued, Opened, LobbyOwns, Serving, Nowhere
<1>3. RoomsOwn /\ Cutting /\ Phases
  BY LobbyAssumption
  DEF Init, RoomsOwn, Player, Cutting, Phases, Nowhere, NoRoom, NoCut, Unlocked
<1> QED BY <1>1, <1>2, <1>3 DEF Inv

\* A client in the backlog is not a connection yet.
LEMMA ConnectOk ==
    ASSUME Inv, NEW c \in Clients, Connect(c)
    PROVE  Inv'
<1>1. /\ os'.queue = Append(os.queue, c) /\ os'.edge = TRUE /\ os'.open = os.open
      /\ os'.lobbyEpoll = os.lobbyEpoll /\ os'.roomEpoll = os.roomEpoll
      /\ sock' = sock /\ conns' = conns /\ rooms' = rooms /\ lobby' = lobby
      /\ batch' = batch /\ cut' = cut /\ up' = up
  BY DEF Connect, Inv, TypeOK
<1>2. TypeOK'
  <2>1. Append(os.queue, c) \in Seq(Clients)
    BY DEF Inv, TypeOK
  <2>2. os' \in [queue : Seq(Clients), edge : BOOLEAN, open : [Fds -> Someone],
                 lobbyEpoll : [Fds -> Someone], roomEpoll : [Fds -> Someone]]
    BY <2>1 DEF Connect, Inv, TypeOK
  <2> QED BY <1>1, <2>2 DEF Inv, TypeOK
<1>3. Queued'
  <2>1. sock[c] = 0 /\ \A i \in 1 .. Len(os.queue) : os.queue[i] # c
    BY DEF Connect, InQueue
  <2> QED BY <1>1, <2>1 DEF Inv, TypeOK, Queued
<1>4. Opened' /\ LobbyOwns' /\ RoomsOwn' /\ Cutting' /\ Phases' /\ Serving'
  BY <1>1
  DEF Inv, Opened, LobbyOwns, RoomsOwn, Player, Cutting, Unlocked, Phases, Serving
<1> QED BY <1>2, <1>3, <1>4 DEF Inv

\* accept() gives the connection to the lobby.
LEMMA AcceptOk == ASSUME Inv, Accept PROVE Inv'
<1> DEFINE c == Head(os.queue)
<1>1. PICK f \in Fds :
         /\ os.open[f] = NoOne
         /\ os' = [os EXCEPT !.queue = Tail(@), !.edge = FALSE,
                             !.open[f] = c, !.lobbyEpoll[f] = c]
         /\ sock' = [sock EXCEPT ![c] = f]
         /\ conns' = [lobby    |-> {d \in conns.lobby : sock[d] # f} \cup {c},
                      room     |-> [conns.room EXCEPT ![f] = NoOne],
                      assigned |-> [conns.assigned EXCEPT ![f] = NoOne]]
  BY DEF Accept
<1>2. /\ c \in Clients /\ sock[c] = 0
      /\ \A i \in 1 .. Len(Tail(os.queue)) :
            Tail(os.queue)[i] = os.queue[i + 1] /\ i + 1 \in 1 .. Len(os.queue)
  <2>1. os.queue \in Seq(Clients) /\ os.queue # <<>>
    BY DEF Accept, Inv, TypeOK
  <2>2. /\ c = os.queue[1] /\ 1 \in 1 .. Len(os.queue) /\ os.queue[1] \in Clients
        /\ \A i \in 1 .. Len(Tail(os.queue)) :
              Tail(os.queue)[i] = os.queue[i + 1] /\ i + 1 \in 1 .. Len(os.queue)
    BY <2>1
  <2> QED BY <2>2 DEF Inv, Queued
<1>3. /\ os'.queue = Tail(os.queue) /\ os'.edge = FALSE
      /\ os'.open = [os.open EXCEPT ![f] = c]
      /\ os'.lobbyEpoll = [os.lobbyEpoll EXCEPT ![f] = c]
      /\ os'.roomEpoll = os.roomEpoll
      /\ conns'.lobby = conns.lobby \cup {c}
      /\ conns'.room = [conns.room EXCEPT ![f] = NoOne]
      /\ conns'.assigned = [conns.assigned EXCEPT ![f] = NoOne]
      /\ rooms' = rooms /\ lobby' = lobby /\ batch' = batch /\ cut' = cut /\ up' = up
  <2>1. {d \in conns.lobby : sock[d] # f} = conns.lobby
    BY <1>1, LobbyAssumption DEF Inv, LobbyOwns, TypeOK
  <2> QED BY <1>1, <2>1 DEF Accept, Inv, TypeOK
<1> HIDE DEF c
<1>4. TypeOK'
  <2>1. /\ os.queue \in Seq(Clients) /\ os.queue # <<>>
        /\ c \in Someone /\ f \in 0 .. NumFds
    BY <1>2, LobbyAssumption DEF Accept, Inv, TypeOK, Someone, Fds
  <2>2. Tail(os.queue) \in Seq(Clients)
    BY <2>1
  <2>3. os' \in [queue : Seq(Clients), edge : BOOLEAN, open : [Fds -> Someone],
                 lobbyEpoll : [Fds -> Someone], roomEpoll : [Fds -> Someone]]
    BY <1>1, <2>1, <2>2 DEF Inv, TypeOK
  <2>4. conns' \in [lobby : SUBSET Clients, room : [Fds -> Someone],
                    assigned : [Fds -> Someone]]
    BY <1>1, <1>2 DEF Inv, TypeOK, Someone
  <2> QED BY <1>1, <1>3, <2>1, <2>3, <2>4 DEF Inv, TypeOK
<1>5. Queued'
  <2>1. os.queue \in Seq(Clients) /\ os.queue # <<>> /\ c = os.queue[1]
        /\ Len(Tail(os.queue)) = Len(os.queue) - 1 /\ sock \in [Clients -> 0 .. NumFds]
    BY DEF Accept, Inv, TypeOK, c
  <2>2. ASSUME NEW i \in 1 .. Len(Tail(os.queue))
        PROVE  /\ Tail(os.queue)[i] \in Clients \ {c}
               /\ sock[Tail(os.queue)[i]] = 0
    BY <1>2, <2>1 DEF Inv, Queued
  <2>3. \A i \in 1 .. Len(Tail(os.queue)) : sock'[Tail(os.queue)[i]] = 0
    BY <1>1, <2>1, <2>2
  <2>4. \A i, j \in 1 .. Len(Tail(os.queue)) :
            Tail(os.queue)[i] = Tail(os.queue)[j] => i = j
    BY <1>2, <2>1 DEF Inv, Queued
  <2> QED BY <1>3, <2>3, <2>4 DEF Queued
<1>6. Opened'
  BY <1>1, <1>2, <1>3 DEF Inv, TypeOK, Opened, Fds
<1>7. LobbyOwns'
  BY <1>1, <1>2, <1>3, LobbyAssumption DEF Inv, TypeOK, Opened, LobbyOwns, Fds
<1>8. RoomsOwn'
  <2>1. \A d \in Clients : Player(d) => d # c /\ sock'[d] = sock[d]
    BY <1>1, <1>2 DEF Inv, TypeOK, RoomsOwn
  <2>2. \A d \in Clients : Player(d)' = Player(d)
    BY <1>3 DEF Player
  <2>3. \A d \in Clients : Player(d) /\ d \notin cut.closed => sock[d] # f
    BY <1>1, LobbyAssumption DEF Inv, RoomsOwn
  <2>4. \A d \in Clients : Player(d) =>
           /\ sock'[d] # 0 /\ d \notin conns'.lobby
           /\ d \notin cut'.closed => /\ os'.open[sock'[d]] = d
                                      /\ os'.roomEpoll[sock'[d]] = d
                                      /\ conns'.room[sock'[d]] = d
    BY <1>3, <2>1, <2>3 DEF Inv, TypeOK, RoomsOwn, Fds
  <2>5. \A g \in Fds : conns'.room[g] # NoOne =>
           Player(conns'.room[g]) /\ sock'[conns'.room[g]] = g
    BY <1>3, <2>1 DEF Inv, TypeOK, RoomsOwn, Someone
  <2>6. \A g \in Fds : os'.roomEpoll[g] # NoOne =>
           conns'.room[g] = os'.roomEpoll[g] /\ os'.open[g] = os'.roomEpoll[g]
    BY <1>1, <1>3 DEF Inv, TypeOK, RoomsOwn
  <2>7. conns'.assigned = conns'.room
    BY <1>3 DEF Inv, RoomsOwn
  <2> QED
    BY <1>3, <2>1, <2>2, <2>4, <2>5, <2>6, <2>7 DEF Inv, TypeOK, RoomsOwn, Player, Someone
<1>9. Cutting' /\ Phases' /\ Serving'
  BY <1>1, <1>2, <1>3, LobbyAssumption
  DEF Inv, TypeOK, Accept, RoomsOwn, Player, Cutting, Unlocked, Phases, Serving
<1> QED BY <1>4, <1>5, <1>6, <1>7, <1>8, <1>9 DEF Inv

\* The parts of Inv about who owns what, with the types of the variables.
Owners == /\ os \in [queue : Seq(Clients), edge : BOOLEAN, open : [Fds -> Someone],
                     lobbyEpoll : [Fds -> Someone], roomEpoll : [Fds -> Someone]]
          /\ conns \in [lobby : SUBSET Clients, room : [Fds -> Someone],
                        assigned : [Fds -> Someone]]
          /\ Queued /\ Opened /\ LobbyOwns /\ RoomsOwn /\ Cutting

\* Rooms may come and go as long as nobody is in them.
SamePlayers == \A r \in Rooms : rooms'[r].players = rooms[r].players

\* A step that moves no descriptor and no player moves no connection.
LEMMA UntouchedOk ==
    ASSUME Inv, UNCHANGED <<os, sock, conns, cut>>, SamePlayers
    PROVE  Owners'
<1>1. \A c \in Clients : Player(c)' = Player(c)
  BY DEF Player, SamePlayers
<1>2. Queued' /\ Opened' /\ LobbyOwns'
  BY DEF Inv, Queued, Opened, LobbyOwns
<1>3. RoomsOwn'
  <2>1. conns.room \in [Fds -> Someone]
    BY DEF Inv, TypeOK
  <2>2. RoomsOwn /\ \A f \in Fds : conns.room[f] # NoOne => conns.room[f] \in Clients
    BY <2>1 DEF Inv, Someone
  <2>3. \A r \in Rooms : rooms'[r].players = rooms[r].players
    BY DEF SamePlayers
  <2> QED BY <1>1, <2>2, <2>3 DEF RoomsOwn
<1>4. Cutting'
  BY DEF Inv, TypeOK, Cutting, SamePlayers, Unlocked
<1> QED BY <1>2, <1>3, <1>4 DEF Inv, TypeOK, Owners

\* A connection that the lobby owns is given up.
LEMMA CleanupOk ==
    ASSUME Inv, NEW c \in conns.lobby, cleanupSock(sock[c]),
           UNCHANGED <<sock, cut>>, SamePlayers
    PROVE  Owners'
<1> DEFINE f == sock[c]
<1>1. c \in Clients /\ f \in Fds /\ os.open[f] = c /\ c # NoOne
  BY LobbyAssumption DEF Inv, TypeOK, LobbyOwns, Fds
<1>2. /\ os'.queue = os.queue
      /\ os'.open = [os.open EXCEPT ![f] = NoOne]
      /\ os'.lobbyEpoll = [os.lobbyEpoll EXCEPT ![f] = NoOne]
      /\ os'.roomEpoll = [os.roomEpoll EXCEPT ![f] = NoOne]
      /\ os' \in [queue : Seq(Clients), edge : BOOLEAN, open : [Fds -> Someone],
                  lobbyEpoll : [Fds -> Someone], roomEpoll : [Fds -> Someone]]
  BY <1>1 DEF cleanupSock, Closed, Inv, TypeOK, Someone
<1>3. /\ conns'.lobby = {d \in conns.lobby : sock[d] # f}
      /\ conns'.room = [conns.room EXCEPT ![f] = NoOne]
      /\ conns'.assigned = [conns.assigned EXCEPT ![f] = NoOne]
      /\ conns' \in [lobby : SUBSET Clients, room : [Fds -> Someone],
                     assigned : [Fds -> Someone]]
  BY <1>1 DEF cleanupSock, Inv, TypeOK, Someone
<1> HIDE DEF f
<1>4. \A d \in Clients : Player(d)' = Player(d)
  BY DEF Player, SamePlayers
<1>5. Queued' /\ Opened'
  BY <1>1, <1>2, <1>3 DEF Inv, TypeOK, Queued, Opened
<1>6. LobbyOwns'
  <2>1. \A d \in conns.lobby : sock[d] \in Fds
    BY DEF Inv, TypeOK, LobbyOwns, Fds
  <2>2. \A d \in conns'.lobby : /\ sock[d] # 0
                                /\ os'.open[sock[d]] = d /\ os'.lobbyEpoll[sock[d]] = d
    BY <1>2, <1>3, <2>1 DEF Inv, TypeOK, LobbyOwns
  <2>3. \A g \in Fds : os'.lobbyEpoll[g] # NoOne =>
           os'.lobbyEpoll[g] \in conns'.lobby /\ sock[os'.lobbyEpoll[g]] = g
    BY <1>1, <1>2, <1>3 DEF Inv, TypeOK, LobbyOwns
  <2> QED BY <2>2, <2>3 DEF LobbyOwns
<1>7. RoomsOwn'
  <2>1. \A d \in Clients : Player(d) /\ d \notin cut.closed => sock[d] # f
    BY <1>1 DEF Inv, RoomsOwn
  <2>2. \A d \in Clients : Player(d) =>
           /\ sock'[d] # 0 /\ d \notin conns'.lobby
           /\ d \notin cut'.closed => /\ os'.open[sock'[d]] = d
                                      /\ os'.roomEpoll[sock'[d]] = d
                                      /\ conns'.room[sock'[d]] = d
    BY <1>1, <1>2, <1>3, <2>1 DEF Inv, TypeOK, RoomsOwn, Fds
  <2>3. \A g \in Fds : conns'.room[g] # NoOne =>
           Player(conns'.room[g]) /\ sock'[conns'.room[g]] = g
    BY <1>1, <1>3 DEF Inv, TypeOK, RoomsOwn, Someone
  <2>4. \A g \in Fds : os'.roomEpoll[g] # NoOne =>
           conns'.room[g] = os'.roomEpoll[g] /\ os'.open[g] = os'.roomEpoll[g]
    BY <1>1, <1>2, <1>3 DEF Inv, TypeOK, RoomsOwn
  <2>5. conns'.assigned = conns'.room
    BY <1>3 DEF Inv, RoomsOwn
  <2> QED
    BY <1>3, <1>4, <2>2, <2>3, <2>4, <2>5
    DEF Inv, TypeOK, RoomsOwn, Player, Someone, SamePlayers
<1>8. Cutting'
  <2>1. \A d \in cut.closed : d \in Clients /\ sock[d] \in Fds
    BY DEF Inv, TypeOK, Cutting, RoomsOwn, Player, Fds
  <2>2. \A d \in cut.closed : os'.open[sock[d]] # d
    BY <1>2, <2>1, LobbyAssumption DEF Inv, TypeOK, Cutting
  <2> QED BY <2>2 DEF Inv, TypeOK, Cutting, SamePlayers, Unlocked
<1> QED BY <1>2, <1>3, <1>5, <1>6, <1>7, <1>8 DEF Owners

\* What follows for a step of which only the owners were in doubt.
LEMMA OwnersOk ==
    ASSUME Inv, Owners', sock' = sock, cut' = cut, batch' = batch, up' \in BOOLEAN,
           rooms' \in [Rooms -> [phase : {"absent", "waiting", "playing", "over"},
                                 players : SUBSET Clients, entered : 0 .. MaxPlayers]],
           lobby' \in [at : {"wait", "message", "more"}, conn : Someone],
           Phases', Serving'
    PROVE  Inv'
BY DEF Inv, TypeOK, Owners

\* An accept() without a free descriptor moves nothing.
LEMMA AcceptFailsOk == ASSUME Inv, AcceptFails PROVE Inv'
<1>1. /\ os'.queue = os.queue /\ os'.open = os.open
      /\ os'.lobbyEpoll = os.lobbyEpoll /\ os'.roomEpoll = os.roomEpoll
      /\ sock' = sock /\ conns' = conns /\ rooms' = rooms /\ lobby' = lobby
      /\ batch' = batch /\ cut' = cut /\ up' = up /\ TypeOK'
  BY DEF AcceptFails, Inv, TypeOK
<1> QED
  BY <1>1
  DEF Inv, Queued, Opened, LobbyOwns, RoomsOwn, Player, Cutting, Unlocked, Phases, Serving

\* Handing on what was read.
LEMMA ReceiveOk ==
    ASSUME Inv, NEW c \in Clients, Receive(c)
    PROVE  Inv'
<1>1. c \in conns.lobby
  BY LobbyAssumption DEF Receive, Inv, LobbyOwns
<1>2. Owners'
  BY UntouchedOk DEF Receive, SamePlayers
<1>3. Phases' /\ Serving' /\ lobby' \in [at : {"wait", "message", "more"}, conn : Someone]
  BY <1>1 DEF Receive, Inv, Phases, Serving, Someone
<1> QED BY <1>2, <1>3, OwnersOk DEF Receive, Inv, TypeOK

\* A connection of the lobby that hangs up is erased.
LEMMA ReceiveFailsOk ==
    ASSUME Inv, NEW c \in Clients, ReceiveFails(c)
    PROVE  Inv'
<1>1. c \in conns.lobby
  BY LobbyAssumption DEF ReceiveFails, Inv, LobbyOwns
<1>2. Owners'
  BY <1>1, CleanupOk DEF ReceiveFails, SamePlayers
<1>3. Phases' /\ Serving'
  BY DEF ReceiveFails, Inv, Phases, Serving
<1> QED BY <1>2, <1>3, OwnersOk DEF ReceiveFails, Inv, TypeOK

\* A message is answered, and the rooms may have changed.
LEMMA AnsweredOk ==
    ASSUME Inv, NEW c \in Clients, Handling(c), Answered(c), SamePlayers, Phases',
           rooms' \in [Rooms -> [phase : {"absent", "waiting", "playing", "over"},
                                 players : SUBSET Clients, entered : 0 .. MaxPlayers]]
    PROVE  Inv'
<1>1. c \in conns.lobby
  BY DEF Handling, Inv, Serving
<1>2. Owners'
  BY <1>1, UntouchedOk, CleanupOk DEF Answered, Handling
<1>3. Serving' /\ lobby' \in [at : {"wait", "message", "more"}, conn : Someone]
  BY DEF Handling, Inv, TypeOK, Serving, Someone
<1> QED BY <1>2, <1>3, OwnersOk DEF Handling, Inv, TypeOK

\* GET_ROOM_LIST destroys finished rooms, which have no players.
LEMMA GetRoomListOk ==
    ASSUME Inv, NEW c \in Clients, GetRoomList(c)
    PROVE  Inv'
<1>1. SamePlayers /\ Phases'
  BY LobbyAssumption DEF GetRoomList, Inv, TypeOK, SamePlayers, Phases, NoRoom
<1>2. rooms' \in [Rooms -> [phase : {"absent", "waiting", "playing", "over"},
                            players : SUBSET Clients, entered : 0 .. MaxPlayers]]
  BY LobbyAssumption DEF GetRoomList, Inv, TypeOK, NoRoom
<1> QED BY <1>1, <1>2, AnsweredOk DEF GetRoomList

\* An answer changes the owner of nothing.
LEMMA RefuseMessageOk ==
    ASSUME Inv, NEW c \in Clients, RefuseMessage(c)
    PROVE  Inv'
<1>1. SamePlayers /\ Phases'
  BY DEF RefuseMessage, Inv, SamePlayers, Phases
<1> QED BY <1>1, AnsweredOk DEF RefuseMessage, Inv, TypeOK

\* Neither does the answer to a creator whose name is refused.
LEMMA RefuseCreatorOk ==
    ASSUME Inv, NEW c \in Clients, NEW r \in Rooms, RefuseCreator(c, r)
    PROVE  Inv'
<1>1. SamePlayers /\ Phases'
  BY LobbyAssumption DEF RefuseCreator, Inv, TypeOK, SamePlayers, Phases
<1>2. rooms' \in [Rooms -> [phase : {"absent", "waiting", "playing", "over"},
                            players : SUBSET Clients, entered : 0 .. MaxPlayers]]
  <2> DEFINE R == [phase : {"absent", "waiting", "playing", "over"},
                   players : SUBSET Clients, entered : 0 .. MaxPlayers]
  <2>1. rooms \in [Rooms -> R] /\ rooms' = [rooms EXCEPT ![r].phase = "waiting"]
    BY DEF RefuseCreator, Inv, TypeOK
  <2>2. \A x \in R : [x EXCEPT !.phase = "waiting"] \in R
    OBVIOUS
  <2> HIDE DEF R
  <2>3. rooms' \in [Rooms -> R]
    BY <2>1, <2>2
  <2> QED BY <2>3 DEF R
<1> QED BY <1>1, <1>2, AnsweredOk DEF RefuseCreator

\* The Connection moves from one map to the other, and the client is a player.
LEMMA JoinRoomOk ==
    ASSUME Inv, NEW c \in Clients, NEW r \in Rooms, JoinRoom(c, r)
    PROVE  Inv'
<1> DEFINE f == sock[c]
<1>1. /\ c \in conns.lobby /\ f \in Fds /\ os.open[f] = c /\ c # NoOne
      /\ cut.out = {} /\ cut.closed = {} /\ conns.room[f] = NoOne
  <2>1. c \in conns.lobby
    BY DEF JoinRoom, Handling, Inv, Serving
  <2>2. f \in Fds /\ os.open[f] = c /\ c # NoOne
    BY <2>1, LobbyAssumption DEF Inv, TypeOK, LobbyOwns, Fds
  <2>3. cut.out = {} /\ cut.closed = {}
    BY DEF JoinRoom, Handling, Inv, Cutting
  <2>4. conns.room[f] = NoOne
    BY <2>1, <2>2, <2>3 DEF Inv, TypeOK, RoomsOwn, Someone
  <2> QED BY <2>1, <2>2, <2>3, <2>4
<1>2. /\ os'.queue = os.queue /\ os'.open = os.open
      /\ os'.lobbyEpoll = [os.lobbyEpoll EXCEPT ![f] = NoOne]
      /\ os'.roomEpoll = [os.roomEpoll EXCEPT ![f] = c]
      /\ os' \in [queue : Seq(Clients), edge : BOOLEAN, open : [Fds -> Someone],
                  lobbyEpoll : [Fds -> Someone], roomEpoll : [Fds -> Someone]]
  BY <1>1 DEF JoinRoom, Watched, Inv, TypeOK, Someone
<1>3. /\ conns'.lobby = conns.lobby \ {c}
      /\ conns'.room = [conns.room EXCEPT ![f] = c]
      /\ conns'.assigned = [conns.assigned EXCEPT ![f] = c]
      /\ conns' \in [lobby : SUBSET Clients, room : [Fds -> Someone],
                     assigned : [Fds -> Someone]]
  BY <1>1 DEF JoinRoom, Moved, Inv, TypeOK, Someone
<1>4. /\ rooms'[r].players = rooms[r].players \cup {c}
      /\ rooms'[r].phase \in {"waiting", "playing"}
      /\ rooms'[r].phase = "waiting" => rooms'[r].entered < MaxPlayers
      /\ \A s \in Rooms \ {r} : rooms'[s] = rooms[s]
      /\ rooms' \in [Rooms -> [phase : {"absent", "waiting", "playing", "over"},
                               players : SUBSET Clients, entered : 0 .. MaxPlayers]]
  <2>1. rooms[r].entered + 1 \in 0 .. MaxPlayers
    BY LobbyAssumption DEF JoinRoom, Inv, TypeOK, Phases
  <2> QED BY <2>1, LobbyAssumption DEF JoinRoom, Seated, Inv, TypeOK
<1>5. /\ sock' = sock /\ cut' = cut /\ batch' = batch /\ up' = up
      /\ lobby' = [at |-> "more", conn |-> c]
  BY DEF JoinRoom, Handling
<1> HIDE DEF f
<1>6. \A d \in Clients : Player(d)' <=> Player(d) \/ d = c
  BY <1>4 DEF Player
<1>7. Queued' /\ Opened'
  BY <1>1, <1>2, <1>3, <1>5 DEF Inv, TypeOK, Queued, Opened, f
<1>8. LobbyOwns'
  <2>1. \A d \in conns'.lobby : d \in conns.lobby /\ sock[d] \in Fds /\ sock[d] # f
    BY <1>1, <1>3 DEF Inv, TypeOK, LobbyOwns, Fds
  <2>2. \A d \in conns'.lobby : /\ sock[d] # 0
                                /\ os'.open[sock[d]] = d /\ os'.lobbyEpoll[sock[d]] = d
    BY <1>2, <2>1 DEF Inv, TypeOK, LobbyOwns
  <2>3. \A g \in Fds : os'.lobbyEpoll[g] # NoOne =>
           os'.lobbyEpoll[g] \in conns'.lobby /\ sock[os'.lobbyEpoll[g]] = g
    BY <1>1, <1>2, <1>3 DEF Inv, TypeOK, LobbyOwns, f
  <2> QED BY <1>5, <2>2, <2>3 DEF LobbyOwns
<1>9. RoomsOwn'
  <2>1. \A d \in Clients : Player(d) => d # c /\ sock[d] # f /\ sock[d] \in Fds
    BY <1>1 DEF Inv, TypeOK, RoomsOwn, Fds
  <2>2. \A d \in Clients : Player(d) \/ d = c =>
           /\ sock[d] # 0 /\ d \notin conns'.lobby
           /\ os'.open[sock[d]] = d /\ os'.roomEpoll[sock[d]] = d
           /\ conns'.room[sock[d]] = d
    <3> SUFFICES ASSUME NEW d \in Clients, Player(d) \/ d = c
                 PROVE  /\ sock[d] # 0 /\ d \notin conns'.lobby
                        /\ os'.open[sock[d]] = d /\ os'.roomEpoll[sock[d]] = d
                        /\ conns'.room[sock[d]] = d
      OBVIOUS
    <3>1. CASE d = c
      <4>1. sock[d] = f /\ sock[d] # 0
        BY <1>1, <3>1 DEF f, Fds
      <4>2. os.roomEpoll \in [Fds -> Someone] /\ conns.room \in [Fds -> Someone]
        BY DEF Inv, TypeOK
      <4> QED BY <1>1, <1>2, <1>3, <3>1, <4>1, <4>2
    <3>2. CASE d # c
      BY <1>1, <1>2, <1>3, <2>1, <3>2 DEF Inv, TypeOK, RoomsOwn
    <3> QED BY <3>1, <3>2
  <2>3. \A g \in Fds : conns'.room[g] # NoOne =>
           /\ conns'.room[g] \in Clients /\ sock[conns'.room[g]] = g
           /\ Player(conns'.room[g]) \/ conns'.room[g] = c
    BY <1>1, <1>3 DEF Inv, TypeOK, RoomsOwn, Someone, f
  <2>4. \A g \in Fds : os'.roomEpoll[g] # NoOne =>
           conns'.room[g] = os'.roomEpoll[g] /\ os'.open[g] = os'.roomEpoll[g]
    BY <1>1, <1>2, <1>3 DEF Inv, TypeOK, RoomsOwn
  <2>5. conns'.assigned = conns'.room
    BY <1>3 DEF Inv, RoomsOwn
  <2>6. \A d, e \in Clients : (Player(d) \/ d = c) /\ (Player(e) \/ e = c)
                                 /\ sock[d] = sock[e] => d = e
    BY <2>1 DEF Inv, RoomsOwn, f
  <2>7. \A s, t \in Rooms : rooms'[s].players \cap rooms'[t].players # {} => s = t
    <3> SUFFICES ASSUME NEW s \in Rooms, NEW t \in Rooms, NEW d \in Clients,
                        d \in rooms'[s].players, d \in rooms'[t].players
                 PROVE  s = t
      BY <1>4
    <3>1. CASE d = c
      BY <1>4, <2>1, <3>1 DEF Player
    <3>2. CASE d # c
      BY <1>4, <3>2 DEF Inv, RoomsOwn
    <3> QED BY <3>1, <3>2
  <2>8. \A g \in Fds : conns'.room[g] # NoOne =>
           \E s \in Rooms : conns'.room[g] \in rooms'[s].players
    BY <1>4, <2>3 DEF Player
  <2>9. \A d \in Clients :
           (\E s \in Rooms : d \in rooms'[s].players) => Player(d) \/ d = c
    BY <1>4 DEF Player
  <2> QED
    BY <1>1, <1>5, <2>2, <2>3, <2>4, <2>5, <2>6, <2>7, <2>8, <2>9 DEF RoomsOwn, Player
<1>10. Cutting' /\ Serving'
  BY <1>1, <1>3, <1>5 DEF Inv, TypeOK, Cutting, Serving, Unlocked
<1>11. Phases'
  <2>1. \A s \in Rooms \ {r} : rooms'[s] = rooms[s]
    BY <1>4
  <2> QED BY <1>4, <2>1 DEF Inv, Phases
<1> QED
  BY <1>2, <1>3, <1>4, <1>5, <1>7, <1>8, <1>9, <1>10, <1>11, OwnersOk
  DEF Owners, Inv, TypeOK, Someone

\* A Connection refused by JoinPlayer is closed, and in no map.
LEMMA JoinTooLateOk ==
    ASSUME Inv, NEW c \in Clients, NEW r \in Rooms, JoinTooLate(c, r)
    PROVE  Inv'
<1> DEFINE f == sock[c]
<1>1. c \in conns.lobby /\ f \in Fds /\ os.open[f] = c /\ c # NoOne
  BY LobbyAssumption DEF JoinTooLate, Handling, Inv, Serving, TypeOK, LobbyOwns, Fds
<1>2. conns.room[f] = NoOne /\ conns.assigned[f] = NoOne
  BY <1>1 DEF JoinTooLate, Handling, Inv, Cutting, TypeOK, RoomsOwn, Someone
<1>3. {d \in conns.lobby : sock[d] # f} = conns.lobby \ {c}
  BY <1>1 DEF Inv, LobbyOwns
<1>4. cleanupSock(sock[c]) /\ SamePlayers
  BY <1>1, <1>2, <1>3 DEF JoinTooLate, cleanupSock, SamePlayers, Inv, TypeOK
<1>5. Phases'
  BY DEF JoinTooLate, Inv, Phases
<1> QED
  BY <1>4, <1>5, AnsweredOk DEF JoinTooLate, Answered, Inv, TypeOK

\* The question whether more messages have been read moves nothing.
LEMMA HasMoreMessagesOk ==
    ASSUME Inv, NEW c \in Clients, HasMoreMessages(c)
    PROVE  Inv'
<1>1. Owners'
  BY UntouchedOk DEF HasMoreMessages, SamePlayers
<1>2. Phases'
  BY DEF HasMoreMessages, Inv, Phases
<1>3. \/ lobby' = [at |-> "wait", conn |-> NoOne]
      \/ c \in conns.lobby /\ lobby' = [at |-> "message", conn |-> c]
  BY DEF HasMoreMessages
<1>4. Serving' /\ lobby' \in [at : {"wait", "message", "more"}, conn : Someone]
  BY <1>3 DEF HasMoreMessages, Serving, Someone
<1> QED BY <1>4, <1>1, <1>2, OwnersOk DEF HasMoreMessages, UsesFreed, Inv, TypeOK

-----------------------------------------------------------------------------
(* Steps of the threads that disconnect players.                           *)

\* A socket is closed; its Connection stays in the maps until the end.
LEMMA CloseNextOk ==
    ASSUME Inv, NEW c \in Clients, CloseNext(c)
    PROVE  Inv'
<1> DEFINE f == sock[c]
<1>1. /\ c \in cut.out /\ c \notin cut.closed /\ Player(c)
      /\ f \in Fds /\ os.open[f] = c /\ os.roomEpoll[f] = c /\ c # NoOne
      /\ c \notin conns.lobby
  BY LobbyAssumption DEF CloseNext, Inv, TypeOK, Cutting, RoomsOwn, Player, Fds
<1>2. /\ os'.queue = os.queue
      /\ os'.open = [os.open EXCEPT ![f] = NoOne]
      /\ os'.lobbyEpoll = [os.lobbyEpoll EXCEPT ![f] = NoOne]
      /\ os'.roomEpoll = [os.roomEpoll EXCEPT ![f] = NoOne]
      /\ os' \in [queue : Seq(Clients), edge : BOOLEAN, open : [Fds -> Someone],
                  lobbyEpoll : [Fds -> Someone], roomEpoll : [Fds -> Someone]]
  BY <1>1 DEF CloseNext, Closed, Inv, TypeOK, Someone
<1>3. /\ cut'.by = cut.by /\ cut'.room = cut.room /\ cut'.out = cut.out
      /\ cut'.closed = cut.closed \cup {c}
      /\ cut' \in [by : {"nobody", "rooms", "bombs"}, room : Rooms,
                   out : SUBSET Clients, closed : SUBSET Clients]
      /\ sock' = sock /\ conns' = conns /\ rooms' = rooms /\ lobby' = lobby
      /\ batch' = batch /\ up' \in BOOLEAN
  BY DEF CloseNext, UsesFreed, Inv, TypeOK
<1> HIDE DEF f
<1>4. Queued' /\ Opened' /\ Phases' /\ Serving'
  BY <1>1, <1>2, <1>3 DEF Inv, TypeOK, Queued, Opened, Phases, Serving
<1>5. LobbyOwns'
  <2>1. \A d \in conns.lobby : sock[d] \in Fds /\ sock[d] # f
    BY <1>1 DEF Inv, TypeOK, LobbyOwns, Fds
  <2> QED BY <1>1, <1>2, <1>3, <2>1 DEF Inv, TypeOK, LobbyOwns
<1>6. RoomsOwn'
  <2>1. \A d \in Clients : Player(d) /\ d # c => sock[d] # f /\ sock[d] \in Fds
    BY <1>1 DEF Inv, TypeOK, RoomsOwn, Fds, f
  <2>2. \A d \in Clients : Player(d)' = Player(d)
    BY <1>3 DEF Player
  <2>3. \A d \in Clients : Player(d) =>
           /\ sock[d] # 0 /\ d \notin conns.lobby
           /\ d \notin cut'.closed => /\ os'.open[sock[d]] = d
                                      /\ os'.roomEpoll[sock[d]] = d
                                      /\ conns.room[sock[d]] = d
    BY <1>2, <1>3, <2>1 DEF Inv, TypeOK, RoomsOwn
  <2>4. \A g \in Fds : os'.roomEpoll[g] # NoOne =>
           conns.room[g] = os'.roomEpoll[g] /\ os'.open[g] = os'.roomEpoll[g]
    BY <1>2 DEF Inv, TypeOK, RoomsOwn
  <2> QED BY <1>3, <2>2, <2>3, <2>4 DEF Inv, RoomsOwn, Player
<1>7. Cutting'
  <2>1. \A d \in cut.closed : d \in Clients /\ sock[d] \in Fds
    BY DEF Inv, TypeOK, Cutting, RoomsOwn, Player, Fds
  <2>2. \A d \in cut'.closed : os'.open[sock[d]] # d
    BY <1>1, <1>2, <1>3, <2>1, LobbyAssumption DEF Inv, TypeOK, Cutting, f
  <2> QED BY <1>1, <1>3, <2>2 DEF CloseNext, Inv, Cutting, Unlocked
<1> QED BY <1>2, <1>3, <1>4, <1>5, <1>6, <1>7 DEF Inv, TypeOK

\* The players leave their room, and the maps what they hold for them: never
\* for a client that was given one of their descriptors in the meantime.
LEMMA EraseAllOk == ASSUME Inv, EraseAll PROVE Inv'
<1> DEFINE q == cut.room
           Out(f) == \E c \in cut.out : sock[c] = f
<1>1. q \in Rooms /\ cut.out = cut.closed /\ cut.out \subseteq rooms[q].players
  BY DEF EraseAll, Inv, TypeOK, Cutting
<1>2. /\ rooms'[q].players = rooms[q].players \ cut.out
      /\ rooms'[q].phase = IF rooms[q].players = cut.out THEN "over" ELSE rooms[q].phase
      /\ rooms'[q].entered = rooms[q].entered
      /\ \A r \in Rooms \ {q} : rooms'[r] = rooms[r]
      /\ rooms' \in [Rooms -> [phase : {"absent", "waiting", "playing", "over"},
                               players : SUBSET Clients, entered : 0 .. MaxPlayers]]
  <2> DEFINE phase == IF rooms[q].players = cut.out THEN "over" ELSE rooms[q].phase
             left == rooms[q].players \ cut.out
             new == [rooms[q] EXCEPT !.players = left, !.phase = phase]
  <2>1. rooms' = [[rooms EXCEPT ![q] = [@ EXCEPT !.players = left]]
                     EXCEPT ![q] = [@ EXCEPT !.phase = phase]]
    BY <1>1 DEF EraseAll, Inv, TypeOK
  <2>2. rooms' = [rooms EXCEPT ![q] = new]
    BY <1>1, <2>1 DEF Inv, TypeOK
  <2>3. /\ phase \in {"absent", "waiting", "playing", "over"}
        /\ left \in SUBSET Clients
        /\ rooms[q] \in [phase : {"absent", "waiting", "playing", "over"},
                         players : SUBSET Clients, entered : 0 .. MaxPlayers]
    BY <1>1 DEF Inv, TypeOK
  <2> HIDE DEF phase, left
  <2>4. /\ new.players = left /\ new.phase = phase /\ new.entered = rooms[q].entered
        /\ new \in [phase : {"absent", "waiting", "playing", "over"},
                     players : SUBSET Clients, entered : 0 .. MaxPlayers]
    BY <2>3
  <2> HIDE DEF new
  <2>5. /\ rooms'[q].players = left
        /\ rooms'[q].phase = phase /\ rooms'[q].entered = rooms[q].entered
        /\ \A r \in Rooms \ {q} : rooms'[r] = rooms[r]
        /\ rooms' \in [Rooms -> [phase : {"absent", "waiting", "playing", "over"},
                                 players : SUBSET Clients, entered : 0 .. MaxPlayers]]
    BY <1>1, <2>2, <2>4 DEF Inv, TypeOK
  <2> QED BY <2>5 DEF phase, left
<1>3. /\ conns'.lobby = conns.lobby
      /\ \A f \in Fds : /\ conns'.room[f] = IF Out(f) THEN NoOne ELSE conns.room[f]
                        /\ conns'.assigned[f] = IF Out(f) THEN NoOne ELSE conns.assigned[f]
      /\ conns' \in [lobby : SUBSET Clients, room : [Fds -> Someone],
                     assigned : [Fds -> Someone]]
  BY DEF EraseAll, Without, Inv, TypeOK, Someone
<1>4. /\ os' = os /\ sock' = sock /\ lobby' = lobby /\ batch' = batch /\ up' \in BOOLEAN
      /\ cut' = NoCut
  BY DEF EraseAll, UsesFreed
<1>5. /\ cut'.by = "nobody" /\ cut'.out = {} /\ cut'.closed = {}
      /\ cut' \in [by : {"nobody", "rooms", "bombs"}, room : Rooms,
                   out : SUBSET Clients, closed : SUBSET Clients]
  BY <1>4, LobbyAssumption DEF NoCut
<1> HIDE DEF q
\* Nobody who stays, and nobody new, has the descriptor of one who left.
<1>6. \A c \in Clients :
         (\E r \in Rooms : c \in rooms'[r].players) <=> Player(c) /\ c \notin cut.out
  <2> SUFFICES ASSUME NEW c \in Clients
               PROVE  (\E r \in Rooms : c \in rooms'[r].players)
                          <=> Player(c) /\ c \notin cut.out
    OBVIOUS
  <2>1. ASSUME NEW r \in Rooms, c \in rooms'[r].players
        PROVE  c \in rooms[r].players /\ c \notin cut.out
    <3>1. CASE r = q
      BY <1>2, <2>1, <3>1
    <3>2. CASE r # q
      BY <1>1, <1>2, <2>1, <3>2 DEF Inv, RoomsOwn
    <3> QED BY <3>1, <3>2
  <2>2. ASSUME NEW r \in Rooms, c \in rooms[r].players, c \notin cut.out
        PROVE  c \in rooms'[r].players
    BY <1>2, <2>2
  <2> QED BY <2>1, <2>2 DEF Player
<1>7. \A c \in Clients : Player(c) /\ c \notin cut.out => sock[c] \in Fds /\ ~Out(sock[c])
  <2>1. \A d \in cut.out : d \in Clients /\ Player(d)
    BY <1>1 DEF Inv, TypeOK, Player
  <2> QED BY <2>1 DEF Inv, TypeOK, RoomsOwn, Fds
<1>8. \A f \in Fds : os.open[f] # NoOne => ~Out(f) \/ os.open[f] \in conns.lobby
  <2> SUFFICES ASSUME NEW f \in Fds, os.open[f] # NoOne, os.open[f] \notin conns.lobby,
                      NEW c \in cut.out, sock[c] = f
               PROVE  FALSE
    OBVIOUS
  <2>1. c \in Clients /\ Player(c) /\ os.open[f] # c
    BY <1>1 DEF Inv, TypeOK, Cutting, Player
  <2>2. /\ conns.room[f] = os.open[f] /\ os.open[f] \in Clients
        /\ Player(os.open[f]) /\ sock[os.open[f]] = f
    BY DEF Inv, TypeOK, Opened, RoomsOwn, Someone
  <2> QED BY <2>1, <2>2 DEF Inv, RoomsOwn
<1>9. Queued' /\ LobbyOwns' /\ Serving'
  BY <1>3, <1>4 DEF Inv, Queued, LobbyOwns, Serving
<1>10. Opened'
  <2>1. \A f \in Fds : os.open[f] # NoOne =>
           conns'.room[f] = conns.room[f] \/ os.open[f] \in conns.lobby
    BY <1>3, <1>8
  <2> QED BY <1>3, <1>4, <2>1 DEF Inv, Opened
<1>11. RoomsOwn'
  <2>1. conns'.assigned = conns'.room
    BY <1>3 DEF Inv, RoomsOwn
  <2>2. \A c \in Clients : Player(c) /\ c \notin cut.out =>
           /\ sock[c] # 0 /\ c \notin conns'.lobby
           /\ os.open[sock[c]] = c /\ os.roomEpoll[sock[c]] = c
           /\ conns'.room[sock[c]] = c
    BY <1>1, <1>3, <1>7 DEF Inv, RoomsOwn
  <2>3. \A r, s \in Rooms : rooms'[r].players \cap rooms'[s].players # {} => r = s
    <3>1. \A r \in Rooms : rooms'[r].players \subseteq rooms[r].players
      BY <1>2
    <3> QED BY <3>1 DEF Inv, RoomsOwn
  <2>4. \A f \in Fds : conns'.room[f] # NoOne =>
           /\ conns'.room[f] \in Clients /\ sock[conns'.room[f]] = f
           /\ Player(conns'.room[f]) /\ conns'.room[f] \notin cut.out
    BY <1>3 DEF Inv, TypeOK, RoomsOwn, Someone
  <2>5. \A f \in Fds : os.roomEpoll[f] # NoOne =>
           conns'.room[f] = os.roomEpoll[f] /\ os.open[f] = os.roomEpoll[f]
    <3> SUFFICES ASSUME NEW f \in Fds, os.roomEpoll[f] # NoOne
                 PROVE  conns'.room[f] = os.roomEpoll[f] /\ os.open[f] = os.roomEpoll[f]
      OBVIOUS
    <3>1. /\ conns.room[f] = os.roomEpoll[f] /\ os.open[f] = os.roomEpoll[f]
          /\ Player(conns.room[f]) /\ conns.room[f] \in Clients
      BY DEF Inv, TypeOK, RoomsOwn, Someone
    <3>2. os.open[f] \notin conns.lobby
      BY <3>1 DEF Inv, RoomsOwn
    <3> QED BY <1>3, <1>8, <3>1, <3>2
  <2>6. \A f \in Fds : conns'.room[f] # NoOne =>
           \E r \in Rooms : conns'.room[f] \in rooms'[r].players
    BY <1>6, <2>4
  <2>7. \A c, d \in Clients : Player(c) /\ Player(d) /\ sock[c] = sock[d] => c = d
    BY DEF Inv, RoomsOwn
  <2> QED
    BY <1>4, <1>6, <2>1, <2>2, <2>3, <2>4, <2>5, <2>6, <2>7 DEF RoomsOwn, Player
<1>12. Cutting'
  BY <1>5 DEF Cutting, Unlocked
<1>13. Phases'
  BY <1>1, <1>2 DEF Inv, Phases
<1>14. TypeOK'
  BY <1>2, <1>3, <1>4, <1>5 DEF Inv, TypeOK
<1> QED BY <1>9, <1>10, <1>11, <1>12, <1>13, <1>14 DEF Inv

\* epoll_wait reports players whose descriptors are watched.
LEMMA EpollWaitOk == ASSUME Inv, EpollWait PROVE Inv'
<1>1. /\ UNCHANGED <<os, sock, conns, rooms, lobby, cut, up>>
      /\ batch' \subseteq Clients
  BY DEF EpollWait, Inv, TypeOK, Someone
<1> QED
  BY <1>1
  DEF Inv, TypeOK, Queued, Opened, LobbyOwns, RoomsOwn, Player, Cutting, Unlocked,
      Phases, Serving

\* handleRoomPostEvent begins, if anybody leaves.
LEMMA BeginOk ==
    ASSUME Inv, Unlocked, UNCHANGED <<os, sock, conns, rooms, lobby>>,
           batch' \subseteq batch, up' \in BOOLEAN,
           \/ cut' = cut
           \/ \E thread \in {"rooms", "bombs"}, r \in Rooms : Begin(thread, r)
    PROVE  Inv'
<1>1. CASE cut' = cut
  BY <1>1
  DEF Inv, TypeOK, Queued, Opened, LobbyOwns, RoomsOwn, Player, Cutting, Unlocked,
      Phases, Serving
<1>2. ASSUME NEW thread \in {"rooms", "bombs"}, NEW r \in Rooms,
             NEW S \in SUBSET rooms[r].players,
             cut' = [by |-> thread, room |-> r, out |-> S, closed |-> {}]
      PROVE  Inv'
  <2>1. cut.closed = {}
    BY DEF Inv, Cutting
  <2>2. S \subseteq Clients
    BY DEF Inv, TypeOK
  <2>3. TypeOK' /\ Cutting'
    BY <1>2, <2>2 DEF Inv, TypeOK, Cutting, Unlocked
  <2>4. RoomsOwn'
    BY <1>2, <2>1 DEF Inv, RoomsOwn, Player
  <2> QED
    BY <2>3, <2>4 DEF Inv, Queued, Opened, LobbyOwns, Phases, Serving
<1>3. ASSUME NEW thread \in {"rooms", "bombs"}, NEW r \in Rooms, Begin(thread, r)
      PROVE  \/ cut' = cut
             \/ \E S \in SUBSET rooms[r].players :
                   cut' = [by |-> thread, room |-> r, out |-> S, closed |-> {}]
  BY <1>3 DEF Begin, Leavers
<1> QED BY <1>1, <1>2, <1>3

\* An event of a player may begin a disconnection.
LEMMA RoomsEventOk ==
    ASSUME Inv, NEW c \in Clients, NEW r \in Rooms, RoomsEvent(c, r)
    PROVE  Inv'
BY BeginOk DEF RoomsEvent, Inv, TypeOK

\* So may the event of a player who is gone.
LEMMA StaleEventOk ==
    ASSUME Inv, NEW c \in Clients, StaleEvent(c)
    PROVE  Inv'
BY BeginOk DEF StaleEvent, UsesFreed

\* And so may an explosion.
LEMMA BombsEventOk ==
    ASSUME Inv, NEW r \in Rooms, BombsEvent(r)
    PROVE  Inv'
BY BeginOk DEF BombsEvent, Inv, TypeOK

-----------------------------------------------------------------------------
(* The theorems.                                                           *)

\* Every step of the server keeps the invariant.
LEMMA InvStep == Inv /\ [Next]_vars => Inv'
<1> SUFFICES ASSUME Inv, [Next]_vars PROVE Inv'
  OBVIOUS
<1>1. ASSUME NEW c \in Clients, Connect(c) PROVE Inv'
  BY <1>1, ConnectOk
<1>2. ASSUME NEW c \in Clients, Receive(c) PROVE Inv'
  BY <1>2, ReceiveOk
<1>3. ASSUME NEW c \in Clients, ReceiveFails(c) PROVE Inv'
  BY <1>3, ReceiveFailsOk
<1>4. ASSUME NEW c \in Clients, HasMoreMessages(c) PROVE Inv'
  BY <1>4, HasMoreMessagesOk
<1>5. ASSUME NEW c \in Clients, GetRoomList(c) PROVE Inv'
  BY <1>5, GetRoomListOk
<1>6. ASSUME NEW c \in Clients, RefuseMessage(c) PROVE Inv'
  BY <1>6, RefuseMessageOk
<1>7. ASSUME NEW c \in Clients, NEW r \in Rooms, RefuseCreator(c, r) PROVE Inv'
  BY <1>7, RefuseCreatorOk
<1>8. ASSUME NEW c \in Clients, NEW r \in Rooms, JoinRoom(c, r) PROVE Inv'
  BY <1>8, JoinRoomOk
<1>9. ASSUME NEW c \in Clients, NEW r \in Rooms, JoinTooLate(c, r) PROVE Inv'
  BY <1>9, JoinTooLateOk
<1>10. ASSUME NEW c \in Clients, CloseNext(c) PROVE Inv'
  BY <1>10, CloseNextOk
<1>11. ASSUME NEW c \in Clients, StaleEvent(c) PROVE Inv'
  BY <1>11, StaleEventOk
<1>12. ASSUME NEW c \in Clients, NEW r \in Rooms, RoomsEvent(c, r) PROVE Inv'
  BY <1>12, RoomsEventOk
<1>13. CASE Accept
  BY <1>13, AcceptOk
<1>14. CASE AcceptFails
  BY <1>14, AcceptFailsOk
<1>15. CASE EraseAll
  BY <1>15, EraseAllOk
<1>16. CASE EpollWait
  BY <1>16, EpollWaitOk
<1>17. ASSUME NEW r \in Rooms, BombsEvent(r) PROVE Inv'
  BY <1>17, BombsEventOk
<1>18. CASE UNCHANGED vars
  BY <1>18
  DEF vars, Inv, TypeOK, Queued, Opened, LobbyOwns, RoomsOwn, Player, Cutting,
      Unlocked, Phases, Serving
<1> QED
  BY <1>1, <1>2, <1>3, <1>4, <1>5, <1>6, <1>7, <1>8, <1>9, <1>10, <1>11, <1>12,
     <1>13, <1>14, <1>15, <1>16, <1>17, <1>18
  DEF Next

\* What holds of the lobby, the rooms and the kernel also while the lock is held.
THEOREM Invariance == Spec => []Inv
<1> QED BY InitOk, InvStep, PTL DEF Spec

\* The maps, the epoll sets and the phases of the threads stay in their ranges:
\* a room is never entered more often than MaxPlayers.
THEOREM Typing == Spec => []TypeOK
<1>1. Inv => TypeOK
  BY DEF Inv
<1> QED BY <1>1, Invariance, PTL

\* Server::cleanupSock, JoinRoom and DisconnectPlayers never leave an open
\* descriptor without an owner or with two, although the lobby accepts clients
\* into descriptors that DisconnectPlayers has just closed.
THEOREM OneOwnerAlways == Spec => []OneOwner
<1>1. Inv => OneOwner
  <2> SUFFICES ASSUME Inv, Unlocked, NEW f \in Fds
               PROVE  LET c       == os.open[f]
                          inLobby == {d \in conns.lobby : sock[d] = f}
                          inRoom  == {conns.room[f], conns.assigned[f]}
                      IN  \/ c = NoOne /\ inLobby = {} /\ inRoom = {NoOne}
                          \/ c # NoOne /\ inLobby = {c} /\ inRoom = {NoOne}
                          \/ c # NoOne /\ inLobby = {} /\ inRoom = {c}
    BY DEF OneOwner
  <2>1. cut.closed = {} /\ conns.assigned = conns.room
    BY DEF Inv, Cutting, RoomsOwn
  <2>2. \A d \in conns.lobby : sock[d] = f => os.open[f] = d /\ d # NoOne
    BY LobbyAssumption DEF Inv, TypeOK, LobbyOwns
  <2>3. conns.room[f] # NoOne => os.open[f] = conns.room[f] /\ os.open[f] \notin conns.lobby
    BY <2>1 DEF Inv, TypeOK, RoomsOwn, Someone
  <2>4. os.open[f] # NoOne => /\ sock[os.open[f]] = f
                              /\ os.open[f] \in conns.lobby \/ conns.room[f] = os.open[f]
    BY DEF Inv, Opened
  <2> QED BY <2>1, <2>2, <2>3, <2>4
<1> QED BY <1>1, Invariance, PTL

\* Nobody plays in a room of which the rooms thread hears nothing, and nothing
\* is kept in roomConns for one who does not play.
THEOREM PlayersAreWatchedAlways == Spec => []PlayersAreWatched
<1>1. Inv => PlayersAreWatched
  <2> SUFFICES ASSUME Inv, Unlocked PROVE PlayersAreWatched
    BY DEF PlayersAreWatched
  <2>1. cut.closed = {}
    BY DEF Inv, Cutting
  <2>2. \A r \in Rooms : \A c \in rooms[r].players :
           conns.room[sock[c]] = c /\ os.roomEpoll[sock[c]] = c
    BY <2>1 DEF Inv, TypeOK, RoomsOwn, Player
  <2>3. \A f \in Fds : conns.room[f] # NoOne =>
           \E r \in Rooms : conns.room[f] \in rooms[r].players
    BY DEF Inv, RoomsOwn, Player
  <2> QED BY <2>2, <2>3 DEF PlayersAreWatched
<1> QED BY <1>1, Invariance, PTL

\* An epoll entry of the lobby or of the rooms thread never outlives what it
\* points to, at no step of any thread.
THEOREM EntriesPointToLiveAlways == Spec => []EntriesPointToLive
<1>1. Inv => EntriesPointToLive
  BY DEF Inv, LobbyOwns, RoomsOwn, EntriesPointToLive
<1> QED BY <1>1, Invariance, PTL
=============================================================================
