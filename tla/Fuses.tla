------------------------------- MODULE Fuses -------------------------------
(***************************************************************************)
(* The timers of the bombs (Server::runRooms, handleRoomPostEvent and      *)
(* runBombs).                                                              *)
(*                                                                         *)
(* A bomb is queued in its room and a timerfd is armed for it.  The epoll  *)
(* entry of the timer holds the address of a BombInRoom, which is a local  *)
(* variable of the function that arms the timer; it is out of scope by the *)
(* time the timer expires.  There are three such places on the stacks, and *)
(* each is modelled by what was last written there: when the bombs thread  *)
(* follows the address it finds that value, or whatever later calls left   *)
(* in the same stack memory.                                               *)
(*                                                                         *)
(* All fuses burn for the same time, so timers expire in the order in      *)
(* which they were armed.  Players, lives and positions are in Room; here  *)
(* a room is its queue of bombs and whether it is over.                    *)
(***************************************************************************)
EXTENDS Naturals, Sequences, FiniteSets, SequencesExt

CONSTANTS Rooms,       \* the rooms
          Clients,     \* bound: how many clients can be connected at once
          MaxBombs,    \* bound: bombs, placed or left behind
          MaxPending   \* bound: timers that burn at the same time

ASSUME FusesAssumption == /\ IsFiniteSet(Rooms)
                          /\ Clients \in Nat /\ MaxBombs \in Nat
                          /\ MaxPending \in Nat /\ MaxPending >= 1

\* Enough descriptors for everything the bounds allow.
Fds == 1 .. Clients + MaxBombs

\* Where a BombInRoom lives: in runRooms, and in handleRoomPostEvent as it is
\* called by the rooms thread and by the bombs thread.
Slots == {"runRooms", "postOfRooms", "postOfBombs"}

\* What is found at an address nothing valid is stored at any more.
Garbage == [fd |-> 0, room |-> "garbage"]

VARIABLES
    os,        \* the kernel: what every descriptor is open for, the timers
               \* that burn, in the order of their expiry, and those that
               \* have expired and that epoll has not reported yet
    slot,      \* the memory the epoll entries point to
    batch,     \* events reported to the bombs thread and not handled yet
    bombs,     \* length of the queue of bombs of every room
    exploded,  \* history: bombs of the room that have exploded
    count,     \* history: bombs queued, timers expired and bombs exploded, of
               \* all rooms together
    over,      \* rooms in GAME_OVER
    gone,      \* rooms destroyed by GET_ROOM_LIST
    reused,    \* history: memory was written for a new timer while an older
               \* timer that points to it was pending
    up         \* the server goes on

vars == <<os, slot, batch, bombs, exploded, count, over, gone, reused, up>>

\* A timer, in the kernel or as an event: its descriptor, where its entry
\* points, and the room it was made for, which only the properties look at.
Timer == [fd : Fds, at : Slots, room : Rooms]

TypeOK == /\ os \in [open  : [Fds -> {"free", "timer", "client"}],
                     armed : Seq(Timer), ready : Seq(Timer)]
          /\ slot \in [Slots -> [fd : Fds, room : Rooms] \cup {Garbage}]
          /\ batch \in Seq(Timer)
          /\ bombs \in [Rooms -> 0 .. MaxBombs]
          /\ exploded \in [Rooms -> 0 .. MaxBombs]
          /\ count \in [bombs : 0 .. MaxBombs, expired : 0 .. MaxBombs,
                        exploded : 0 .. MaxBombs]
          /\ over \subseteq Rooms /\ gone \subseteq over
          /\ reused \in BOOLEAN /\ up \in BOOLEAN

Init == /\ os = [open |-> [f \in Fds |-> "free"], armed |-> <<>>, ready |-> <<>>]
        /\ slot = [s \in Slots |-> Garbage]
        /\ batch = <<>>
        /\ bombs = [r \in Rooms |-> 0]
        /\ exploded = [r \in Rooms |-> 0]
        /\ count = [bombs |-> 0, expired |-> 0, exploded |-> 0]
        /\ over = {} /\ gone = {}
        /\ reused = FALSE /\ up = TRUE

-----------------------------------------------------------------------------
(* The kernel.                                                             *)

\* A new descriptor is the lowest one that is free.
NewFd(open) == CHOOSE f \in Fds : /\ open[f] = "free"
                                  /\ \A g \in Fds : open[g] = "free" => f <= g

\* Faulty: no timer for a bomb that was left behind.
ArmedIfPlaced(o, r, s) ==
    IF s # "runRooms" THEN o
    ELSE [o EXCEPT !.open[NewFd(o.open)] = "timer",
                   !.armed = Append(@, [fd |-> NewFd(o.open), at |-> s, room |-> r])]

\* CreateBombTimerfd and EPOLL_CTL_ADD.
Armed(o, r, s) ==
    [o EXCEPT !.open[NewFd(o.open)] = "timer",
              !.armed = Append(@, [fd |-> NewFd(o.open), at |-> s, room |-> r])]

\* Faulty: close is forgotten.
NotClosed(o, fd) == o

\* The timers of s without that of the descriptor fd, if there is one.
Without(s, fd) ==
    LET at == {i \in 1 .. Len(s) : s[i].fd = fd}
    IN  IF at = {} THEN s ELSE RemoveAt(s, CHOOSE i \in at : TRUE)

\* close(fd): a timer goes with its epoll entry and an event not yet reported;
\* a descriptor that is not open is EBADF.
Closed(o, fd) ==
    IF fd \notin Fds THEN o
    ELSE [open  |-> [o.open EXCEPT ![fd] = "free"],
          armed |-> Without(o.armed, fd),
          ready |-> Without(o.ready, fd)]

\* The timers that burn, and the events that have not been handled.
Pending == os.armed \o os.ready \o batch

\* A BombInRoom is written at s, for room r and the next descriptor.
Written(s, r) == /\ slot' = [slot EXCEPT ![s] = [fd |-> NewFd(os.open), room |-> r]]
                 /\ reused' = (reused \/ \E t \in ToSet(Pending) : t.at = s)

\* FUSE_TIME_SEC is over for the timer that was armed first; the entry is
\* edge-triggered, and the timer, which is never read, is reported once.
Expire == /\ up
          /\ os.armed # <<>>
          /\ os' = [os EXCEPT !.armed = Tail(@), !.ready = Append(@, Head(os.armed))]
          /\ count' = [count EXCEPT !.expired = @ + 1]
          /\ UNCHANGED <<slot, batch, bombs, exploded, over, gone, reused, up>>

-----------------------------------------------------------------------------
(* The rooms thread.                                                       *)

\* The bounds of the model, for one more bomb.
InBounds == /\ count.bombs < MaxBombs
            /\ Len(Pending) < MaxPending

\* A player of r places a bomb.
PlaceBomb(r) ==
    /\ up
    /\ r \notin over /\ InBounds
    /\ bombs' = [bombs EXCEPT ![r] = @ + 1]
    /\ count' = [count EXCEPT !.bombs = @ + 1]
    /\ Written("runRooms", r)
    /\ os' = Armed(os, r, "runRooms")
    /\ UNCHANGED <<batch, exploded, over, gone, up>>

\* A living player of r leaves and the rooms thread runs handleRoomPostEvent.
\* (Several who leave at once write the same memory one after the other.)
LeaveBomb(r) ==
    /\ up
    /\ r \notin over /\ InBounds
    /\ bombs' = [bombs EXCEPT ![r] = @ + 1]
    /\ count' = [count EXCEPT !.bombs = @ + 1]
    /\ Written("postOfRooms", r)
    /\ os' = Armed(os, r, "postOfRooms")
    /\ UNCHANGED <<batch, exploded, over, gone, up>>

\* The match in r ends.  Its timers stay armed.
EndRoom(r) == /\ up
              /\ r \notin over
              /\ over' = over \cup {r}
              /\ UNCHANGED <<os, slot, batch, bombs, exploded, count, gone, reused, up>>

\* The memory at s is used for something else.
Clobber(s) == /\ up
              /\ slot[s] # Garbage
              /\ slot' = [slot EXCEPT ![s] = Garbage]
              /\ UNCHANGED <<os, batch, bombs, exploded, count, over, gone, reused, up>>

-----------------------------------------------------------------------------
(* The lobby thread.                                                       *)

\* GET_ROOM_LIST destroys the rooms that are over.
DestroyRooms == /\ up
                /\ gone # over
                /\ gone' = over
                /\ UNCHANGED <<os, slot, batch, bombs, exploded, count, over, reused, up>>

Accept == /\ up
          /\ Cardinality({f \in Fds : os.open[f] = "client"}) < Clients
          /\ os' = [os EXCEPT !.open[NewFd(os.open)] = "client"]
          /\ UNCHANGED <<slot, batch, bombs, exploded, count, over, gone, reused, up>>

CloseClient(f) == /\ up
                  /\ os.open[f] = "client"
                  /\ os' = Closed(os, f)
                  /\ UNCHANGED <<slot, batch, bombs, exploded, count, over, gone, reused, up>>

-----------------------------------------------------------------------------
(* The bombs thread.                                                       *)

\* Faulty: level-triggered, so an expired timer is reported again.
EpollWaitAgain == /\ up
                  /\ batch = <<>> /\ os.ready # <<>>
                  /\ batch' = os.ready
                  /\ UNCHANGED <<os, slot, bombs, exploded, count, over, gone, reused, up>>

EpollWait == /\ up
             /\ batch = <<>> /\ os.ready # <<>>
             /\ batch' = os.ready
             /\ os' = [os EXCEPT !.ready = <<>>]
             /\ UNCHANGED <<slot, bombs, exploded, count, over, gone, reused, up>>

\* Faulty: the front of an empty queue is taken.
PopsUnchecked(r) == IF r \notin over THEN 1 ELSE 0

\* Faulty: the last bomb stays in the queue.
PopsButOne(r) == IF r \notin over /\ bombs[r] > 1 THEN 1 ELSE 0

\* NotifyExplosion takes the front bomb of a match that runs, if there is one.
Pops(r) == IF r \notin over /\ bombs[r] > 0 THEN 1 ELSE 0

\* The event at the head of the batch, with roomsMtx held: NotifyExplosion and
\* handleRoomPostEvent on the room found at the address, which may be told of
\* a leaver (k = 1), and close of the descriptor found there afterwards.
Fire(k) ==
    /\ up
    /\ batch # <<>>
    /\ LET at == Head(batch).at
           r  == slot[at].room
       IN  /\ slot[at] # Garbage
           /\ k = 1 => r \notin over /\ InBounds
           /\ bombs' = [bombs EXCEPT ![r] = @ - Pops(r) + k]
           /\ exploded' = [exploded EXCEPT ![r] = @ + Pops(r)]
           /\ count' = [count EXCEPT !.bombs = @ + k, !.exploded = @ + Pops(r)]
           /\ IF k = 1 THEN Written("postOfBombs", r) ELSE UNCHANGED <<slot, reused>>
           /\ os' = Closed(IF k = 1 THEN Armed(os, r, "postOfBombs") ELSE os,
                           slot'[at].fd)
    /\ batch' = Tail(batch)
    /\ UNCHANGED <<over, gone, up>>

\* What is found at the address is no room, or a room that was destroyed: the
\* call through it can end the process.
FireAtNothing ==
    /\ up
    /\ batch # <<>>
    /\ \/ slot[Head(batch).at] = Garbage
       \/ slot[Head(batch).at].room \in gone
    /\ up' = FALSE
    /\ UNCHANGED <<os, slot, batch, bombs, exploded, count, over, gone, reused>>

\* The rooms thread or the lobby, with roomsMtx held, sends to somebody whose
\* connection breaks in the middle of the message: the loop of send need not
\* end, and nobody gets the lock any more.  (What is done without it from then
\* on is left out.)
SendHangs == /\ up
             /\ up' = FALSE
             /\ UNCHANGED <<os, slot, batch, bombs, exploded, count, over, gone, reused>>

-----------------------------------------------------------------------------
Next == \/ Expire
        \/ \E r \in Rooms : PlaceBomb(r) \/ LeaveBomb(r) \/ EndRoom(r)
        \/ \E s \in Slots : Clobber(s)
        \/ DestroyRooms
        \/ Accept
        \/ \E f \in Fds : CloseClient(f)
        \/ EpollWait
        \/ \E k \in 0 .. 1 : Fire(k)
        \/ FireAtNothing
        \/ SendHangs

Spec == Init /\ [][Next]_vars

\* Time passes, and the bombs thread runs: it waits for nothing but epoll and
\* the lock, which the other threads release at the end of every section unless
\* a send hangs in it.
FairSpec == Spec /\ WF_vars(Expire) /\ WF_vars(EpollWait)
                 /\ WF_vars((\E k \in 0 .. 1 : Fire(k)) \/ FireAtNothing)

-----------------------------------------------------------------------------
(* Properties.                                                             *)

\* No timer makes more than one bomb explode.  The timer is never read, so
\* nothing but EPOLLET keeps one expiry from being reported for ever.
OneBombPerTimer == count.exploded <= count.expired

\* The timers are sound for as long as no memory is reused under a pending
\* timer, however many of them burn at once: a queued bomb of a match that
\* runs has a timer that will see to it ...
BombHasTimer ==
    up /\ ~reused =>
        \A r \in Rooms \ over :
            bombs[r] <= Cardinality({i \in 1 .. Len(Pending) : Pending[i].room = r})

\* ... only timers that are still pending are open, so no descriptor leaks and
\* none is closed for somebody else ...
NoTimerLeak ==
    ~reused => {f \in Fds : os.open[f] = "timer"} = {t.fd : t \in ToSet(Pending)}

\* ... and every bomb explodes, unless the match ends or the server ends or hangs
\* before.
BombsExplodeUntilReuse ==
    \A r \in Rooms, n \in 1 .. MaxBombs :
        (bombs[r] + exploded[r] >= n)
            ~> (exploded[r] >= n \/ r \in over \/ ~up \/ reused)

-----------------------------------------------------------------------------
(* What the repository says and the code does not do.                      *)

\* Server.cpp on a placed bomb: "Create a timer based on the timestamp and set
\* a watch for it".  Every bomb explodes, unless the match or the process ends
\* before.
EveryBombExplodes ==
    \A r \in Rooms, n \in 1 .. MaxBombs :
        (bombs[r] + exploded[r] >= n) ~> (exploded[r] >= n \/ r \in over \/ ~up)
=============================================================================
