# A formal model of Boomberman

Boomberman is a multiplayer Bomberman: a C++ server with three threads, a C++
client drawn with raylib, and protobuf messages over TCP between them. These
modules model the server's rooms, the timers of its bombs, its lobby with the
ownership of connections, its end, the framing of messages, and a match as
server and clients play it; TLC checks them on small instances, and TLAPS
proves the safety of the room, of the timers, of the lobby, of the clients'
lists of players and of the match itself for every instance.

Source paths are relative to the repository; `server/`, `shared/` and
`client/` stand for the directories under `src/game/src/`.

## The system

### Components, their state and their operations

| component | state | operations | where |
|---|---|---|---|
| Room | state (`WAIT_FOR_START`, `PLAY`, `WAIT_FOR_END`, `GAME_OVER`), vector of players, `clientCount`, queue of bombs, map | `CanJoin`, `JoinPlayer`, `HandleMessage`, `NotifyExplosion`, `DisconnectPlayers` | `server/Room.cpp` |
| Player | name, color, lives, immunity, position, last moves, `markedForDisconnect` | constructor, `MoveCheckSus` | `server/entities/Player.cpp` |
| Lobby thread | `lobbyConns`, the rooms | accept, `handleLobbyMessage`, `cleanupSock` | `server/Server.cpp:160-233, 322-426, 455-470` |
| Rooms thread | `roomConns`, `roomAssignments` | `runRooms`, `handleRoomPostEvent` | `server/Server.cpp:235-298, 441-453` |
| Bombs thread | timerfds in an epoll set, each with the address of a `BombInRoom` | `runBombs` | `server/Server.cpp:300-320` |
| Connection | `inboundQueue`, the stream in the kernel | `Receive`, `HasMoreMessages`, `send` and the builders on top of it | `shared/msg/Connection.cpp` |
| Blast | map of hard and soft walls | `Bomb::boom` | `shared/game/Bomb.cpp:32-64` |
| Client | list of players and bombs, own copy of the map, winner | `wait4Game`, `receiveLoop`, the render loop | `client/` |
| Shutdown | `end`, `signalfd` | `shouldEnd`, `Run`, `Cleanup` | `server/Server.cpp:125-150, 428-439` |

### How they interact

The three threads share the rooms. `roomsMtx` is held for the whole of a lobby
message (`Server.cpp:324`), of an event of the rooms thread (247-295) and of an
event of the bombs thread (314-317), so the calls into a room do not interleave
with each other. It is *not* held by the accept branch (177-204), by the reads
of the lobby (208) or by the lobby's `cleanupSock` (211, 224).

A room talks to its players through the `Connection`s and finds out about a
broken one by a send that fails; it then marks the player, and the
`DisconnectPlayers` that the server runs after every event of the rooms and
bombs threads removes whoever is marked. Bombs reach the bombs thread through
timers: a bomb is queued in the room, a timer is armed, and when it expires the
bombs thread calls `NotifyExplosion`, which takes whatever bomb is at the front.

### What is hard about it

* **Orders of leaving.** Joins, messages, hang-ups, failing sends and
  explosions come in any order; the number of players, `clientCount`, the
  marks and the state must agree after each of them.
* **The end of a match.** Only an explosion looks at how many are alive, so
  the last fighters leaving must leave a bomb behind.
* **Addresses that outlive what they point to.** The epoll entry of a timer
  points to a local variable; rooms are destroyed while timers for them burn;
  connections are used after they were erased.
* **The stream.** Messages are cut and glued by TCP, `epoll` is edge-triggered,
  a read returns at most 256 bytes.
* **Descriptors that are reused** while somebody still holds the number.
* **Two copies of the match** in the clients, changed by two threads.

`PROJECT.json` lists these hazards one by one, at their lines, each with the
properties that watch it or with the reason why none does.

### What makes each component correct

* Room: the state agrees with the counts; a match is never stuck; who is marked
  goes; a room that is over stays over and has one winner.
* Bomb timers: every bomb explodes, once, not before its fuse has burnt; no
  descriptor leaks or is closed for somebody else.
* Connection: messages come out whole, once, in order; nothing that has come
  stays inside; the end of the stream is noticed.
* Lobby: every connection has exactly one owner; every player is watched by the
  rooms thread; what an epoll entry points to is there.
* Blast: the tiles a bomb reaches are those of its definition, and none is
  outside the map.
* Client: its list of players is the room's and begins with its own; walls,
  positions and lives are those the server has, as far as it has heard.
* Shutdown: a server that is told to stop cleans up.

## The modules

| module | what it is | lines of code it stands for |
|---|---|---|
| `Match` | what a room promises, without messages, bombs or sockets | abstract |
| `Room` | one room and the critical sections of the server that call into it | `Room.cpp`, `Server.cpp:247-295, 314-317, 374-418` |
| `MCRoom` | `Room` with finite sets, for TLC | |
| `RoomProofs` | the theorems about `Room` | |
| `Fuses` | the bombs' timers, the memory their epoll entries point to, the bombs thread | `Server.cpp:261-269, 300-342, 441-453`, `Bomb.cpp:66-78` |
| `MCFuses` | `Fuses` for TLC | |
| `FusesProofs` | the theorems about `Fuses` | |
| `Lobby` | who owns a connection: the lobby, its maps and epoll sets, the descriptors, and what the other threads do to them | `Server.cpp:160-298, 322-426, 441-470`, `Room.cpp:38-64, 234-290` |
| `MCLobby` | `Lobby` for TLC | |
| `LobbyProofs` | the theorems about `Lobby` | |
| `Fifo` | what a `Connection` promises to the caller of `Receive` | abstract |
| `Frames` | one direction of a `Connection` and the loop that calls `Receive` | `Connection.cpp:12-105, 273-304`, `ServerHandler.cpp:97-131`, `Server.cpp:253-295` |
| `MCFrames` | `Frames` for TLC | |
| `FramesProofs` | the theorems about `Frames` | |
| `Blast` | what a bomb does to a map, and a definition of it without loops | `Bomb.cpp:8-64` |
| `BlastProofs` | that the loops of `boom` compute what that definition says, and in which orders explosions come to the same | |
| `Movement` | the server's check of a move | `Player.cpp:6-62` |
| `Arena` | a match: `Blast` and `Movement` at the server, the keys, bombs and messages of its clients | `Room.cpp:84-131, 146-231, 240-276`, `Client.cpp:32-85`, `EntityHandler.cpp:22-62`, `ServerHandler.cpp:29-131` |
| `MCArena` | `Arena` on a small map | |
| `ArenaProofs` | the theorems about `Arena` | |
| `Roster` | a client's list of players from the menu to the end of the match, and the room that announces them | `ServerHandler.cpp:45-131, 178-240, 312-399`, `Room.cpp:19-64, 234-290` |
| `MCRoster` | `Roster` with numbers for clients and names | |
| `RosterProofs` | the theorems about `Roster` | |
| `SeqFacts` | induction, and the elements of sequences that grow and shrink, for the proofs | |
| `Shutdown` | the signal, the three loops, `Run` and `Cleanup` | `Server.cpp:54-150, 160-170, 235-241, 300-319` |
| `MCShutdown` | `Shutdown` for TLC | |

### Room

One record, `room`, holds the fields of class `Room` and of its players.
`ticket[p]` is the value `clientCount` had after `p` joined: the vector holds
newcomers at the front, so a larger ticket stands further to the front.
`broken` is the set of players to whom a send may fail, for whatever reason: the
peer is gone, the send buffer stays full, or the frame is 256 bytes long, which
`send` writes and reports as failed. A send may also not return (`SendHangs`):
after a short write its loop takes `write`'s -1, stored in a `size_t`, for a
number of bytes, and goes on; the thread keeps the lock, and the model ends.

A handler is an operator from a room to the *set* of rooms it may leave behind,
because a send to a broken connection may or may not fail; the critical
sections of the server are compositions of such operators:

* `Join` is JOIN_ROOM with `CanJoin` granted. The lobby does not run
  `DisconnectPlayers`, so a send that fails here leaves a marked player in the
  room until the next event of somebody else.
* `Refuse`, `LeaveBeforeStart`, `Move`, `PlaceBomb` and `Leave` are the cases of
  `HandleMessage`, each followed by the two `handleRoomPostEvent` of `runRooms`
  (271 and 295). The loop between those two never runs, see `Frames`. The
  second call uses a `PlayerInRoom` the first may have freed; its two pointers
  are taken to be still there, as they are in the memory a thread has just
  freed and not reused.
* `Hangup` is a failed `Receive`, with one `handleRoomPostEvent`.
* `Explode` is `NotifyExplosion` and `handleRoomPostEvent` of the bombs thread.
  Nothing is assumed about how often and when the bombs thread calls: the
  safety of the room does not depend on the timers being right. `LoseTimer` is
  what `Fuses` shows may happen to a timer of this room: its event goes to
  another room or its descriptor is closed. `lost` remembers it, and the
  liveness of the room is claimed of rooms that have lost none.
* `WinnerOutOfRange` ends the process. `NotifyExplosion` draws the winner of a
  mutual explosion from `0 .. people_alive_before`; the last index is outside
  the vector. What is read there is any index of a player (`MutualWinners`) or
  no index at all (this action).
* `Break` is the environment.

`DisconnectPlayers` is a single pass in vector order in which announcing one
player may mark another: `Gone` are the players it removes and `Late` those it
has already passed and leaves in the room, marked. `WAIT_FOR_END` is stored and
overwritten inside one critical section and never seen from outside.

Positions, the map, immunity and the clock are not in the module: a bomb hits
any subset of the living players, a move is accepted or corrected at will.

### Fuses

A room is here a queue length and whether it is over. What matters is where a
timer's epoll entry points. `runRooms` and `handleRoomPostEvent` register the
address of a local `BombInRoom`; there are three such places, one per thread
and function that can run it, and `slot` is what each was last written with.
`Clobber` overwrites one with something else: the build optimises (`-O3` in
`CMakeLists.txt`), and the memory belongs to whatever is called next. The bombs
thread follows the address to whatever is there (`Fire`), or to nothing valid
(`FireAtNothing`). Descriptors are numbers, the lowest free one is given out,
and clients of the lobby get them from the same table. All fuses burn for the
same time, so timers expire in the order they were armed; when epoll reports
them and when the batch is handled is left open. A send that does not return
(`SendHangs`) keeps the lock, and nothing happens after it.

The timers are right until a place is written for a new bomb while a timer that
points to it is pending. `reused` remembers that this has happened; the code's
promise is stated up to there, for any number of fuses that burn at once in
different places, and `EveryBombExplodes` without the condition is violated.

### Lobby

A connection is accepted into `lobbyConns`, moves to `roomConns` with
JOIN_ROOM, and goes when a send or a read fails or its room disconnects the
player. The kernel knows it by a descriptor which it gives to the next client
as soon as it is closed, and the two epoll sets hold addresses: that of the
`Connection` in the lobby, that of the entry of `roomAssignments` in the room.
`conns` is the maps, `os` the descriptors and the epoll sets.

What runs under `roomsMtx` is one step, except `DisconnectPlayers`: between one
`close` and the next, and before `handleRoomPostEvent` erases by number, the
lobby thread may accept a client under a number just closed (`Accept` needs no
lock), so that section is spread over `CloseNext` and `EraseAll`, with `cut`
saying how far it is. `Accept` throws out what the maps hold for a former owner
of the number, which destroys a `Connection` the other thread is still sending
to. `Alive` says whether a `Connection` is still there; a thread that uses one
that is not may end the process (`UsesFreed`) or go on. `HasMoreMessages` is
the read of `conn` after `handleLobbyMessage` may have destroyed it,
`StaleEvent` an event of a batch whose `PlayerInRoom` is gone.

A room is here its phase and its players, `entered` is `clientCount`; which
players an event makes leave is open, except that no single player is left
behind, as `Match` has it. A client sends nothing after JOIN_ROOM before it is
answered: two of them in one read index `lobbyConns` with -1.

### Frames

A byte is a record of the message it belongs to, its place there and the
message's size, so that a length byte says how long its message is and a wrong
cut shows in `Decoded`. `Begin` and `Continue` are `send` with short writes;
`Arrive` hands any part of what is under way to the receiver; `Read` reads all
that has come up to `BufSize` and cuts it into messages, `ReadByte` is the loop
that completes the last one. `End` is a close between messages or a crash in
the middle of one, `Reset` a connection that is reset. `ReadError` is what
`Receive` makes of `read`'s -1: stored in a `size_t`, it is a number of bytes.

The length byte is a signed char where it is read, so of the sizes that `send`
accepts `Receive` reads only those below one half of the buffer (`Legible`). A
longer one is a huge number to it: `Scan` leaves it where it is, `ReadByte`
goes on reading for it, swallowing the messages behind, until the next byte
would be written behind the buffer (`Overrun`, after which the thread is
followed no further); the longest makes `Receive` cut messages of no bytes out
of its buffer without end (`spin`). `GiveUp` is a receiver that leaves, after
which a write in the loop of `send` fails and that loop does not end
(`WriteFails`).

The loops around `Receive` are two constants: the client polls for unread bytes
and empties `inboundQueue` (`Drains`, not `EdgeTriggered`); the lobby empties it
but is edge-triggered; the rooms thread is edge-triggered and does not empty
it, because the condition of its loop (`Server.cpp:273`) is never true.

### Blast, Movement and Arena

A square is a pair; a map is the set of soft walls that still stand on a floor.
`Arm` is one of the four loops of `boom`, as a recursive function; `Reaches`
says without loops which squares a bomb reaches, and `BlastsAreAsDefined`
compares the two in every explosion of a match.

`Movement` is `MoveCheckSus`. Its counter of steps is never initialised: it
starts as anything in `Garbage`, also below zero, and is kept small by its
remainder, which is all the code looks at past the length of the ring (the
overflow of an `int` that starts near its end is left out). The clock is left open: a
move that is in the ring may or may not turn out to be too recent. An entry
that was never written has time 0 and is never too recent, which is what keeps
a player from being thrown to the square (0,0).

`Arena` composes them with the messages. `server` is the room's copy of the
match, `client[c]` what the client keeps: its map, its list of players with
where they are and what it thinks they have left, its bombs, and the square a
frame began with. The client's two threads interleave per frame and per
message: `Look` and `Keys` are the top of the render loop, with all the keys of
one frame in one step, since the code moves from the square it read at the
beginning for each of them; `Detonate` is a bomb whose clock has run out at the
client, in any order, and `Receive` one message of `receiveLoop`. At the server
`HandleMove` and `HandlePlaceBomb` check, apply and announce, `Explode` is
`NotifyExplosion` of the front bomb, `Leave` a disconnected player with the
atomic bomb he leaves. Queues in both directions are whole messages in order,
as `Frames` has it, and delays are arbitrary. `Coords`, lives and bombs of the
server change with the message that says so in one step, as the lock makes it.
A hit may be ignored for a player who has been hit before (immunity).

A client's list is not the room's when the match starts. `handleLobbyMsg` has no
case for `OTHER_LEAVE`, so players who left before the start stay on it, and if
somebody took the name of one, his entry comes behind: `findPlayer` finds the
ghost. `Ghosts[c][p]` is how many ghosts of the name of `p` the list of `c`
begins with. A move or a hit announced for `p` then changes the first of them,
the last hit or `OtherLeave` erases it, and `p` himself stays where he was
(`Mistaken`, `Haunted`). `SpectatorsAgree` and `ListsAgree` therefore speak of
the players whom the client knows by a name of their own (`Named`); that the
ghosts of others do not disturb what it knows of those is what they say. The own
name is never a ghost's: a name is refused as long as somebody has it, and a
client lists only who was there when it came or came later.

Two disagreements are real and named in the properties. `SelfAgrees` leaves out
a client that is astray (`Strays`): a correction has crossed a later move of
its player, or has thrown him back in time, where `MoveCheckSus` names an old
square and leaves `coords` alone. `MapsAgree` leaves out matches in which two
bombs meet (`Meet`): the one that goes off first takes the wall and shields
what lies behind it, and the client's order is its own. Without either
exception TLC finds the disagreement on the instance of `arena_safety`.

### Roster

The room here is the order of its players, who is dead, its phase and
`clientCount`; it announces joins, the start, last lives, leavers and the
winner, with the same `DisconnectPlayers` pass as `Room`: a player who is
disconnected has heard of those who stood in front of him. The pass also runs
with nobody to leave, after any message, and ends the room of a lone creator. It
implements
`Match`, as `Room` does, so that the announcements are those of a room.

A client is in the menu, waiting (`wait4Game`), playing (`receiveLoop`), stuck
under an error, gone because its connection ended, or quit by its user. `net`
is what has arrived and `queue` its `inboundQueue`: a read (`Reads`) takes any
number of messages but never the end of the stream together with others, as
`Frames` shows of `Receive`. While it plays it polls the socket when the queue
is empty, not when the loop before it has left something in it: `Stays` is the
inner loop. Clients that are not in `Watched` only join, die and leave: nothing
one client keeps depends on another's, so one at a time is watched.

`Informed(c)` is what the client will keep once it has handled all that was
sent; the properties compare that with the room. `history.early` are those who
left while the client was waiting, whom it goes on listing.

### Shutdown

Each thread tests `end`, waits in `epoll_wait` and goes through the events it
was handed. The signal is an edge in all three epoll sets that nobody reads.
`Trapped` in the bombs thread calls `close(bir->fd)` first, with the descriptor
of the signal taken for an address; the process ends there, or, should the
other half of the union make it a readable address, closes some number and goes
on. With that line taken out TLC finds that `StoppedIsCleanedUp` holds.

## What TLC checks

| run | shows |
|---|---|
| `room_safety` | type correctness, `StateMatchesCounts`, `TwoAliveOrBomb`, `ColorsDistinct`, `MarkedAreGone`, that `Room` implements `Match`, and `FewAliveEnds`: a match with fewer than two living players ends, if no timer of the room was lost |
| `fuses_safety` | no timer makes more than one bomb explode, whatever the stale addresses lead to; and until memory is reused under a pending timer, every bomb has a timer and explodes, and no descriptor leaks |
| `lobby_safety` | every open connection has one owner, every player is watched, no epoll entry outlives what it points to, although the lobby works on the maps without the lock |
| `frames_client` | as the client calls it, `Receive` is a FIFO queue of whole messages; until a size is misread each arrives, and the end of the stream is noticed |
| `arena_safety` | nobody stands in a wall or is sent into one; the others see a player where the server has him, and so does he himself unless he is astray; lists and lives agree, but for a player with the name of a ghost; maps agree, unless two bombs meet; a correction finds its player at the front of the list; explosions do what their definition says |
| `roster_safety` | the own player is first; nobody living is missing from a list and nobody else is on it but those who left before the start; everybody present learns the winner; what is left in `inboundQueue` is handled with the next bytes; the announcements are those of `Match` |
| `room_mutual` | *violated*: the winner of a mutual explosion may have been dead before it |
| `fuses_lost` | *violated*: of two bombs whose fuses burn at once the second never explodes |
| `frames_rooms` | *violated*: of two messages that arrive together the rooms thread handles one |
| `frames_long` | *violated*: a message of half the buffer or more, which `send` accepts, is not returned |
| `frames_error` | *violated*: a reset connection sends `Receive` into an endless loop |
| `shutdown_sigint` | *violated*: SIGINT ends the process in the bombs thread, and `Cleanup` is not reached |

The violated runs are listed under "findings" in `PROJECT.json` with the lines
they disagree with. Others follow from the same models and have no run of their
own: ILeave before the start removes the player who joined last, whoever sent it
(`Room!LeaveBeforeStart`; the repository's own client sends it only in a match);
a creator alone in a waiting room is announced as the winner of a match
that never began, by the `DisconnectPlayers` after any message (`Match!Leave`
has it so); of two clients that connect before the lobby thread accepts, the
second waits until a third connects (`Lobby!Accept` takes one client and the
only edge); after `GameWon` the server closes the connections, and the client's
receive thread ends the process with the end of the stream, whatever remains of
the three seconds in which the winner is shown; a player who calls himself
"Server" makes the clients take his bombs for atomic ones; one room's timer sets off the bomb of another room, whose fuse
still burns; a refused creator leaves an empty room that nothing removes;
`PlayerCount` counts players who have left, so a waiting room can start
with as few as two players; the bombs thread closes the descriptor of another
bomb than the one that went off, and leaks its own; when all the living have
left before the bomb goes off, the draw of the winner reads from an empty
vector and ends the process; a player whose hang-up follows an unhandled
message stays in the room until a send to them fails.

### Bounds

* `room_safety`: four usernames, four places (`MAX_PLAYERS` is 4), one life
  (`STARTER_LIVES` is 3), one bomb that is placed; bombs that are left behind
  are not bounded. Four places are needed: a short-handed start takes a room of
  three that loses one, and with two left the room would be over. Names come
  back after leaving, so the number of joins is not bounded by the number of
  names. That one life and one bomb are enough does not have to be believed:
  all the safety properties of the run are proved for every number of them; for
  `FewAliveEnds` what matters is the bomb that the last to leave leaves behind.
* `fuses_safety`: two rooms, so that an address can lead to the wrong one,
  three bombs in all, two fuses at a time, one client. Two fuses at a time are
  enough for every confusion of two timers, the third bomb for one that is
  armed after a confusion. `fuses_lost` needs one room and two bombs.
* `lobby_safety`: four clients, two rooms of three places and three descriptors,
  so that a descriptor changes hands within a pass of `DisconnectPlayers`, two
  players are closed in one pass with a third staying or not, and accept runs
  out of descriptors. Clients are symmetric; each connects once, so four is
  also the number of connections.
* `frames_client`: three messages of 1, 2, 4 or 5 bytes and a buffer of six: the
  first two sizes are read right, the third is misread, as 128 to 254 are of
  256, and the last is misread as nothing, as 255 is. Up to three messages fit
  into one read, two can exceed the buffer, a misread one can be followed by
  enough to run over its end, and a cut may fall after any byte. `frames_long`
  has a buffer of four and messages of one and two bytes; the other two runs
  have messages that are read right.
* `arena_safety`: four players, of whom one uses his keys, one watches, one
  leaves and one stands where no bomb reaches, so that the match goes on; the
  first two have a client in the model. What a client does depends on others
  only through the server, so one that moves and one that watches show every
  kind of message. Three moves, a ring of three (`moveHistory` has five) and a
  counter that starts at four: the check is on from the first move, the third
  is measured against the first. One bomb that is placed and one left behind,
  two lives each: a player is hit and lives, and dies of the second. The list of
  the one who moves has a ghost of the leaver's name, the other has none. Reaches
  are 3 and 5 (3 and 9 in the code). The map has a corridor of three squares
  behind soft walls and a side passage, so that a bomb shields a wall, an
  atomic one goes through two, and two meet in one wall. From the other end of
  the corridor a placed bomb reaches a wall of its own and none that the atomic
  one does: matches with both are where `MapsAgree` sees two bombs go off in
  different orders; see `MCArena`. The model ends with the match.
* `roster_safety`: four clients for four places, one of them watched, each
  joining at most once; at most two choose the same name, in every possible
  way. Four joins are what starts a match; a name that is used again, a ghost
  of it and a short-handed start take all four.
* `shutdown_sigint`: one other event per thread.

Deadlock is not checked: rooms end, bombs run out, connections close.

### Fairness

`Room` assumes weak fairness of the calls of the bombs thread as long as no timer
of the room has been lost and no send hangs: a timer that was armed expires and
the thread gets the lock, which the others hold for one event only. The code
does not guarantee that no timer is lost: `fuses_lost` shows how the event of
another bomb closes it, and another room's bomb may redirect it. So
`FewAliveEnds` ends in "over, or a timer was lost", and says nothing of a process
that has ended. `Fuses` shows how long the server keeps its timers
(`fuses_safety`).
`Fuses` assumes that time passes and that the bombs thread runs, `Roster` that
the thread of a client that receives runs, `Shutdown` that the three threads
run and that `main` calls `Cleanup` after them: the process that is told to
stop does not clean up although all of that holds. `Arena` and `Lobby` are
checked for safety only. `Frames` assumes that TCP delivers, that `send`
finishes what it began while the receiver is there, and that the receiving
thread runs. Nothing is assumed of
players: nobody has to move, to send or to leave.

## What is proved

Seven modules hold theorems about a component each, for every value of its
constants; `SeqFacts` holds what they need about sequences.

| theorem | of | says |
|---|---|---|
| `Invariance` | `Room`, `Fuses`, `Lobby`, `Frames`, `Roster`, `Arena` | `Spec => []Inv` for the inductive invariant |
| `Facings` | `Arena` | `Spec => []MapsInv`, the inductive invariant of the maps |
| `Typing` | the same | `[]TypeOK`; no color the constructor refuses, no negative lives; a descriptor is free whenever one is needed; no room is entered too often; what is kept of a message fits the buffer |
| `CountsAgree`, `NeverStuck`, `ColorsOfArrival` | `Room` | `StateMatchesCounts`, `TwoAliveOrBomb` and `ColorsDistinct` |
| `Reaped` | `Room` | `MarkedAreGone` of every step |
| `Implements` | `Room`, `Roster` | `Spec => MatchSpec`, the refinement of `Match` |
| `OneBombPerTimerAlways`, `NoTimerLeakAlways`, `BombHasTimerAlways` | `Fuses` | the timers are right until memory is reused, and make no bomb explode twice even then |
| `OneOwnerAlways`, `PlayersAreWatchedAlways`, `EntriesPointToLiveAlways` | `Lobby` | every connection has its owner, and every epoll entry what it points to |
| `Implements` | `Frames` | `Spec => PipeSpec`, the refinement of `Fifo` |
| `SelfFirstAlways`, `RosterAgreesAlways`, `WinnerKnownAlways` | `Roster` | what a client will know agrees with the room |
| `StandFreeAlways`, `SpectatorsAgreeAlways`, `SelfAgreesAlways`, `ListsAgreeAlways`, `CorrectionFindsItsPlayerAlways` | `Arena` | nobody stands in a wall; positions, lists and lives at the clients agree with the server, those of the others as far as no ghost has their name; corrections find their player |
| `MapsAgreeAlways` | `Arena` | a living player's client has the server's map when no bomb is under way, unless two bombs met |
| `BlastsAreAsDefinedAlways` | `Arena` | `BlastsAreAsDefined` of every step |
| `BlastReaches` | `Blast` | `Arms` lights the squares of `Reaches` and no others |

### Room

`RoomProofs` holds for every set of usernames, every `MaxPlayers >= 2`, every
`StarterLives >= 1` and every bound on bombs (`RoomAssumption`).

The argument follows the code. `Ok` says what holds of a room whenever the lock
is free: `Half`, that its fields have their types, its counts, seats, living
players and winners fit together, and `Manned`, that a match has two players.
No property above is inductive alone: that a running match has two living
players or a bomb needs the count of living players while it waits, that colors
stay in range needs the size against `clientCount`, and distinct colors need
that, as long as nobody has left, players stand in the order of their tickets.
Inside a critical section `Ok` does not hold: an explosion that ends the match
leaves a finished room with everybody marked (`Ended`), and `DisconnectPlayers`
has a state between erasing the marked and looking at how many are left (only
`Half`). There is a lemma for each operator a handler is made of, `Sent`,
`Marked`, `Dropped`, `Settled`, `Exploded`, saying which of these it preserves
and what it leaves alone; a step of `Next` is a composition of them. The
refinement uses the same lemmas with what they say of players and winners: a
handler leaves the match as it is, and each `DisconnectPlayers` is a `Leave`, a
`Finish` or nothing; two in a row are again one such step.

### Fuses

`FusesProofs` holds for any finite number of rooms, any number of clients and
bombs and of timers that burn at once (`FusesAssumption`). `Inv` has two halves.
`Counted` and `FdsLeft` are arithmetic and hold whatever the addresses lead to:
events that wait and bombs that have exploded are no more than timers that have
expired, and open timers no more than bombs that were queued, so that a
descriptor is left. `Sound` holds until memory is reused under a pending timer:
the pending timers share no descriptor and no memory, what is written in that
memory is the timer's own descriptor and room, they are all that is open, and
they are enough for the bombs in the queues. The event that is handled then
closes its own timer and no other. None of this survives a reuse, which is why
the properties stop there.

### Lobby

`LobbyProofs` holds for any number of clients, rooms and descriptors
(`LobbyAssumption`). The properties speak of moments when the lock is free, and
are not inductive: between two of them `DisconnectPlayers` has closed some of
its players, the kernel may have given their numbers to new clients, and the
lobby, which does not take the lock, owns those already while the old ones are
still in the maps. `Inv` says what holds then: `RoomsOwn`, that a player has
his entries unless he is among the closed; `Opened` and `LobbyOwns`, that
whoever is behind a descriptor has an owner, which may be the lobby although
somebody else stands in `roomConns` under that number; `Cutting`, that the
closed are players of the room that is being cut. Accept keeps it because it
takes what stands in the maps under the number away, and `EraseAll` because
what it erases under a number is either its own or gone.

### Frames

`FramesProofs` holds for messages of all the sizes that `send` accepts, in any
number, and for all four kinds of loops around `Receive` (`FramesAssumption`).
With a misread size nothing comes out of the buffer any more, so the queue that
the caller sees stays first-in first-out; that it is not what was sent is the
matter of `EveryMessageArrives`, which names the exception, and of `frames_long`.
`Inv` looks at the bytes from the buffer to what `send` has still to write as
one sequence, `Flow`. `Stream` says that it is a stretch of the stream: it
begins with the first byte of the message after the last one that `Receive` has
found, every byte follows the one before, in its message or at the beginning of
the next (`Follows`), and unless the connection was reset it ends where the
last message that was begun ends. `Handed` says that what was returned and what
is queued are numbered as they were sent; `Cut`, that the thread keeps bytes
only of a message that has not come whole, or by its misread size never will.
`PipeSpec` is not inductive because
none of that is visible in what was sent and returned.

Writing and the network move bytes from one part of `Flow` to the next and leave
the whole as it is. `Begin` adds a frame behind, `Reset` takes the end away, and
`Read` and `ReadByte` take whole messages from the front (`StreamMore`,
`StreamLost`, `StreamTaken`). That `Scan` cuts a stretch into the messages it
begins with and a rest too short for another one, or misread (`ScanRuns`) is an induction
on the length of the stretch, with the fact that the first bytes of a stretch
are a frame as soon as they are as many as the length byte says (`FirstFrame`).
`Scan` calls itself on arguments from an infinite set, so that it satisfies its
equation has to be shown first: there is a solution for any number of bytes,
two solutions agree, and those for each length together are one
(`ScanEquation`).

### Roster

`RosterProofs` holds for any finite set of clients, any subset of them watched,
any names and choices of names and any `MaxPlayers >= 2` (`RosterAssumption`).
Its properties speak of `Informed(c)`, what client `c` will keep when it has
handled everything that was sent. Handling a message does not change that; only
what the room sends does, by the operator `After` applied to the messages of a
join, an explosion or a disconnection. What `After` makes of them is shown by
induction over the messages, with one lemma for each kind: `LeavingIsIgnored`,
`Going` (everybody who goes is taken off the list once), `Winning`. `Inv` adds
four parts: `Orderly`, that the players of a room are there once and have names
of their own; `InStep`, that a client who has heard everything waits or plays
as its room does, without which a message about somebody who left could be
ignored; `Unanswered`, that nothing is sent to a client before its JOIN_ROOM is
answered; `Introduced`, that this answer is what first puts a name on its list,
its own at the front, and that this name is taken off by no message but one
about its death.

The induction theorems of the library take a predicate and cannot be used by
the provers at hand; `SeqFacts` states them for sets, from the well-foundedness
of the natural numbers, and so the loops are functions by recursion on the
length of a sequence.

### Blast and Arena

`BlastProofs` holds for any floor and any lengths of the two kinds of explosion
(`BlastAssumption`). `Arm` is a function by recursion, of which the provers know
only that it is *some* solution of its equation, if there is one. `Lighted` says
without recursion what the rest of an arm lights; it solves the equation, and by
induction from the end of the arm every solution is equal to it.

`ArenaProofs` holds for any map, any finite set of players of whom any subset
has a client in the model and any subset of those uses its keys, any lives, any
`moveHistory` of two or more entries, any values its counter may start with, any
ghosts on the lists the clients begin with and any bounds on moves and bombs
(`ArenaAssumption`). A client is behind the
server by the messages under way, so its state is compared with the server's
through them. `Inv` has five parts for each client, each a predicate of what the
client keeps, the messages to and from it and what the server has of it:

* `Bounded`: corrections that were sent were heard of or are under way, and are
  no more than the moves that were made. It bounds the two counters of
  `history`, which say which moves were made after which correction.
* `Grounded`: where the client's player is, where the server has him, every
  entry of his `moveHistory` that was written, every move to the server and
  every correction to the client is a square that is free on the *client's* map.
  The client looks at no other map before it moves, and the map only loses
  walls. That the squares are free on the server's map follows from its own
  check of a move; neither implies the other. `StandFree` needs both.
* `Known`: of every player in the room with a name of his own whom the client
  lists (`Sure`) it will know the lives when it has heard the hits under way, and
  each of those says the number of lives the client then has left; whom of them
  it does not list is dead; it loses
  who is gone by an `OtherLeave` under way; and whatever is before a correction
  in the queue leaves the client's own player with a life. The last holds
  because the server refuses the moves of the dead, and is
  `CorrectionFindsItsPlayer`.
* `Seeing`: the last move of another player that is under way, or where the
  client has him if there is none, is where the server has him; again of
  players with a name of their own, to whom no message about a haunted name is
  mistaken to belong.
* `Itself`: while a move is under way that was made after every correction was
  heard of, its last is where the client has its own player. If there is none,
  and the client did not go astray, then the last correction under way is where
  the server has him.

Every action changes one or two of those arguments, so there is a lemma for
each part and each kind of change (a message is heard, sent or taken, a move is
made, accepted or thrown back), and the proof of an action assembles them for
the client that acts and for the others. What a sequence of messages
will do is said by `Will` (its last message of a kind) and by `Upto` of
`SeqFacts` (how many there are), with what becomes of both when messages are
added behind and taken from the front.

`MapsAgree` speaks of the moment when every bomb has gone off on both sides, and
says nothing of the way there, on which the two maps differ: the client sets off
its bombs in an order of its own, some before the server has heard of them and
some long after they went off there. `MapsInv` says of every state what holds
then:

* A bomb is still to go off at a client if it is on its list or comes with an
  `OtherBombPlace`, and at the server, as that client is concerned, if it is in
  the queue or comes with the client's own `PlaceBomb`; `AtClient` and
  `AtServer` count both. Placing a bomb adds one on either side in the same
  step: when the client does so itself, when the server takes another's
  `PlaceBomb`, and when a player leaves alive. Hearing and handling a message
  moves a bomb from what is under way to the list and changes no number. An
  explosion takes one away on one side.
* The walls a bomb might take on a map with no other walls are its `Window`.
  `Matched` says: for a bomb that meets no other of the match, what is left of
  its window on the client's map after as many of its explosions as are to come
  there is what is left of it on the server's after as many as are to come
  there; walls are missing only in the windows of bombs that were placed; and no
  other bomb is to come.

What a bomb takes in its window depends on nothing outside it (`BoomedOwn`), and
an explosion of a bomb that it does not meet takes nothing there (`BoomedOther`):
both need the definition of `boom` without loops, from `BlastReaches`. So an
explosion keeps `Matched` on whichever map it happens and whichever bomb of the
list it is (`MatchedFalls`), and one more to come on both sides does, too
(`MatchedAdds`). That the same bomb may be placed twice, which takes more walls
the second time, is why `Matched` counts. Once nothing is to come (`MatchedDone`)
the windows are the same, and all walls outside them are there. The bombs that do
meet need no exception in the invariant, since it says nothing of them; it is
`MapsAgree` that leaves such matches out. TLC found no state of `arena_safety`
without `MapsInv`.

### Only model-checked

`FewAliveEnds`, `BombsExplodeUntilReuse`, `EveryMessageArrives`, `EofIsNoticed`
and `NothingLeftBehind` are liveness under fairness, which TLAPS does not reach.
`Shutdown` has one property, which the code does not have. Every other invariant
and action property of the runs that pass is proved.

## The plan

In this order:

1. `Room`, `Match`, `RoomProofs`: done.
2. `Fuses`, `Frames`, `Fifo`: done; the timeouts in the middle of a message are
   left out of `Frames`.
3. `Lobby`: done, but for the length of a RoomList.
4. `Blast`, `Movement`, `Arena`: done, with a small map for that of the program.
5. `Roster`: done. `Shutdown`: done.
6. Proofs: `Room`, `Fuses`, `Lobby`, `Frames`, `Roster`, `Blast`, `Arena`: done.

## What is not modelled

Drawing, menus, key input and animation (raylib); the parsing of arguments and
the set-up of sockets, which have no state beyond early returns; logging; the
random names of rooms, taken to be distinct; the contents of protobuf messages
beyond what a property needs; the Go load generator in `src/test-client`.

Of the parts that are modelled: what a thread does after it has written behind
its buffer, and timeouts in the middle of a message (`Frames`), the length of a RoomList and several JOIN_ROOM
in one read (`Lobby`), the animation of players and bombs, and what undefined
behaviour may do beyond the outcomes named above: in particular the data race
between the two threads of a client on the vectors of `EntityHandler`, and
`drawBombs`, which goes on iterating over a vector it has erased from.
