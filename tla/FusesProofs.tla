---------------------------- MODULE FusesProofs ----------------------------
(***************************************************************************)
(* Theorems about Fuses, for any number of rooms, clients, bombs and       *)
(* timers.                                                                 *)
(*                                                                         *)
(* Up to the first reuse of memory under a pending timer, what the bombs   *)
(* thread finds at an address belongs to the timer whose event it handles. *)
(* Sound says so, and that the pending timers share no descriptor and no   *)
(* memory and are all that is open.  After a reuse nothing is left of it   *)
(* but counting: no more events than expiries, no more expiries than       *)
(* bombs, no more open descriptors than the bounds allow.                  *)
(***************************************************************************)
EXTENDS Fuses, SeqFacts

-----------------------------------------------------------------------------
(* Descriptors, and what close does to the timers.                         *)

OpenFor(o, what) == {f \in Fds : o.open[f] = what}

\* Without removes at most one timer, and none if the descriptor has none.
LEMMA WithoutFacts ==
    ASSUME NEW s \in Seq(Timer), NEW fd
    PROVE  /\ Without(s, fd) \in Seq(Timer) /\ Len(Without(s, fd)) <= Len(s)
           /\ (\A t \in ToSet(s) : t.fd # fd) => Without(s, fd) = s
<1> DEFINE at == {i \in 1 .. Len(s) : s[i].fd = fd}
           k == CHOOSE i \in at : TRUE
<1>1. CASE at = {}
  BY <1>1 DEF Without
<1>2. CASE at # {}
  <2>1. k \in 1 .. Len(s) /\ s[k].fd = fd
    BY <1>2
  <2>2. Without(s, fd) = SubSeq(s, 1, k - 1) \o SubSeq(s, k + 1, Len(s))
    BY <1>2 DEF Without, RemoveAt
  <2> HIDE DEF k
  <2>3. /\ SubSeq(s, 1, k - 1) \in Seq(Timer) /\ Len(SubSeq(s, 1, k - 1)) = k - 1
        /\ SubSeq(s, k + 1, Len(s)) \in Seq(Timer)
        /\ Len(SubSeq(s, k + 1, Len(s))) = Len(s) - k
    BY <2>1
  <2>4. /\ Without(s, fd) \in Seq(Timer)
        /\ Len(Without(s, fd)) = (k - 1) + (Len(s) - k)
    BY <2>2, <2>3, ConcatFacts
  <2>5. s[k] \in ToSet(s)
    BY <2>1 DEF ToSet
  <2> QED BY <2>1, <2>4, <2>5
<1> QED BY <1>1, <1>2

\* NewFd finds a free descriptor while one is left.
LEMMA NewFdIsFree ==
    ASSUME NEW open, \E f \in Fds : open[f] = "free"
    PROVE  NewFd(open) \in Fds /\ open[NewFd(open)] = "free"
<1> DEFINE S == {f \in Fds : open[f] = "free"}
<1>1. S \in SUBSET Nat /\ S # {}
  BY FusesAssumption DEF Fds
<1>2. \E f \in S : \A g \in S : f <= g
  BY <1>1, Least
<1>3. \E f \in Fds : open[f] = "free" /\ \A g \in Fds : open[g] = "free" => f <= g
  BY <1>2
<1> QED BY <1>3 DEF NewFd

\* One is left if the timers and the clients are fewer than the bounds allow.
LEMMA SomeFdIsFree ==
    ASSUME NEW o, o.open \in [Fds -> {"free", "timer", "client"}],
           Cardinality(OpenFor(o, "timer")) + Cardinality(OpenFor(o, "client"))
               < Clients + MaxBombs
    PROVE  \E f \in Fds : o.open[f] = "free"
<1> DEFINE A == OpenFor(o, "timer")
           B == OpenFor(o, "client")
<1>1. IsFiniteSet(Fds) /\ Cardinality(Fds) = Clients + MaxBombs
  <2>1. 1 \in Int /\ Clients + MaxBombs \in Int /\ Clients + MaxBombs >= 0
    BY FusesAssumption
  <2>2. IsFiniteSet(Fds)
        /\ Cardinality(Fds) = IF 1 > Clients + MaxBombs THEN 0
                              ELSE (Clients + MaxBombs) - 1 + 1
    BY <2>1, FS_Interval DEF Fds
  <2> QED BY <2>1, <2>2
<1>2. SUFFICES ASSUME \A f \in Fds : o.open[f] # "free" PROVE FALSE
  OBVIOUS
<1>3. A \in SUBSET Fds /\ B \in SUBSET Fds /\ A \cap B = {} /\ A \cup B = Fds
  BY <1>2 DEF OpenFor
<1> HIDE DEF A, B
<1>4. IsFiniteSet(A) /\ IsFiniteSet(B)
  BY <1>1, <1>3, FS_Subset
<1>5. Cardinality(A \cup B) = Cardinality(A) + Cardinality(B) - Cardinality(A \cap B)
  BY <1>4, FS_Union
<1>6. Cardinality(A) \in Nat /\ Cardinality(B) \in Nat
  BY <1>4, FS_CardinalityType
<1>7. Cardinality(A) + Cardinality(B) = Clients + MaxBombs
  <2>1. Cardinality(A \cup B) = Clients + MaxBombs /\ Cardinality(A \cap B) = 0
    BY <1>1, <1>3, FS_EmptySet, Zenon
  <2> QED BY <1>5, <1>6, <2>1
<1> QED BY <1>6, <1>7, FusesAssumption DEF A, B

-----------------------------------------------------------------------------
(* The inductive invariant.                                                *)

\* The timers that burn and the events that have not been handled, as a set.
All(o, b) == ToSet(o.armed) \cup ToSet(o.ready) \cup ToSet(b)

\* Every event comes from a timer, every timer from a bomb.
Counted ==
    /\ count.exploded + Len(os.ready) + Len(batch) <= count.expired
    /\ count.expired + Len(os.armed) <= count.bombs
    /\ \A r \in Rooms : bombs[r] + exploded[r] <= count.bombs

\* The descriptors cannot run out before the bounds are reached.
FdsLeft == /\ Cardinality(OpenFor(os, "timer")) <= count.bombs
           /\ Cardinality(OpenFor(os, "client")) <= Clients

\* A pending timer is in one place.
Placed(o, b) == /\ Once(o.armed) /\ Once(o.ready) /\ Once(b)
                /\ ToSet(o.armed) \cap ToSet(o.ready) = {}
                /\ ToSet(o.armed) \cap ToSet(b) = {}
                /\ ToSet(o.ready) \cap ToSet(b) = {}

\* It shares neither its memory nor its descriptor with another one.
Apart(A) == \A t, u \in A : t.at = u.at \/ t.fd = u.fd => t = u

\* What is found in its memory is its own.
Owns(A, mem) == \A t \in A : \/ mem[t.at] = Garbage
                             \/ mem[t.at] = [fd |-> t.fd, room |-> t.room]

MadeFor(A, r) == {t \in A : t.room = r}

\* No bomb of a match that runs is without a timer.
Lit(A, queued, ended) ==
    \A r \in Rooms \ ended : queued[r] <= Cardinality(MadeFor(A, r))

Solid(o, b, mem) ==
    /\ Placed(o, b) /\ Apart(All(o, b)) /\ Owns(All(o, b), mem)
    /\ OpenFor(o, "timer") = {t.fd : t \in All(o, b)}

Sound == Solid(os, batch, slot) /\ Lit(All(os, batch), bombs, over)

Inv == TypeOK /\ Counted /\ FdsLeft /\ (~reused => Sound)

\* ToSet of the pending timers.
LEMMA AllIsPending ==
    ASSUME TypeOK
    PROVE  /\ ToSet(Pending) = All(os, batch) /\ Pending \in Seq(Timer)
           /\ IsFiniteSet(All(os, batch))
           /\ All(os, batch) \in SUBSET Timer
<1>1. os.armed \in Seq(Timer) /\ os.ready \in Seq(Timer) /\ batch \in Seq(Timer)
  BY DEF TypeOK
<1>2. os.armed \o os.ready \in Seq(Timer)
      /\ ToSet(os.armed \o os.ready) = ToSet(os.armed) \cup ToSet(os.ready)
  BY <1>1, ConcatFacts
<1>3. Pending \in Seq(Timer)
      /\ ToSet(Pending) = ToSet(os.armed) \cup ToSet(os.ready) \cup ToSet(batch)
  <2> DEFINE a == os.armed \o os.ready
  <2>1. Pending = a \o batch
    BY DEF Pending
  <2> HIDE DEF a
  <2>2. a \o batch \in Seq(Timer) /\ ToSet(a \o batch) = ToSet(a) \cup ToSet(batch)
    <3>1. a \in Seq(Timer) /\ batch \in Seq(Timer)
      BY <1>1, <1>2 DEF a
    <3> QED BY <3>1, ConcatFacts
  <2> QED BY <1>2, <2>1, <2>2 DEF a
<1> DEFINE n == Len(Pending)
<1>4. n \in Nat /\ DOMAIN Pending = 1 .. n /\ 1 .. n \in SUBSET (1 .. n)
  BY <1>3
<1>5. ToSet(Pending) = {Pending[i] : i \in 1 .. n}
  BY <1>4, Zenon DEF ToSet
<1> HIDE DEF n
<1>6. IsFiniteSet({Pending[i] : i \in 1 .. n})
  BY <1>3, <1>4, FiniteElements DEF n
<1>7. ToSet(Pending) \in SUBSET Timer
  BY <1>3, <1>4, <1>5 DEF n
<1> QED BY <1>3, <1>5, <1>6, <1>7 DEF All

\* No room, no bomb, no timer.
LEMMA InitOk == Init => Inv
<1> SUFFICES ASSUME Init PROVE Inv
  OBVIOUS
<1>1. TypeOK
  <2>1. 0 \in 0 .. MaxBombs /\ <<>> \in Seq(Timer)
    BY FusesAssumption
  <2>2. os \in [open  : [Fds -> {"free", "timer", "client"}],
               armed : Seq(Timer), ready : Seq(Timer)]
    BY <2>1 DEF Init
  <2>3. count \in [bombs : 0 .. MaxBombs, expired : 0 .. MaxBombs,
                  exploded : 0 .. MaxBombs]
    BY <2>1 DEF Init
  <2>4. slot \in [Slots -> [fd : Fds, room : Rooms] \cup {Garbage}]
    BY DEF Init
  <2> QED BY <2>1, <2>2, <2>3, <2>4 DEF Init, TypeOK
<1>2. Counted
  BY FusesAssumption DEF Init, Counted
<1>3. /\ All(os, batch) = {} /\ OpenFor(os, "timer") = {} /\ OpenFor(os, "client") = {}
  BY DEF Init, All, OpenFor, ToSet
<1>4. FdsLeft
  <2>1. count.bombs = 0 /\ Cardinality({}) = 0 /\ 0 <= 0 /\ 0 <= Clients
    BY FS_EmptySet, FusesAssumption DEF Init
  <2> QED BY <1>3, <2>1 DEF FdsLeft
<1>5. Sound
  <2>1. Placed(os, batch)
    BY DEF Init, Placed, Once, ToSet
  <2>2. {t.fd : t \in All(os, batch)} = {}
        /\ \A r : MadeFor(All(os, batch), r) = {}
    BY <1>3 DEF MadeFor
  <2>3. \A r \in Rooms : bombs[r] = 0
    BY DEF Init
  <2> QED BY <1>3, <2>1, <2>2, <2>3, FS_EmptySet DEF Sound, Solid, Apart, Owns, Lit
<1> QED BY <1>1, <1>2, <1>4, <1>5 DEF Inv

-----------------------------------------------------------------------------
(* Steps that leave the timers where they are.                             *)

\* A match that ends leaves the timers alone.
LEMMA EndRoomOk == ASSUME Inv, NEW r \in Rooms, EndRoom(r) PROVE Inv'
<1>1. /\ os' = os /\ slot' = slot /\ batch' = batch /\ bombs' = bombs
      /\ exploded' = exploded /\ count' = count /\ gone' = gone
      /\ reused' = reused /\ up' = up /\ over' = over \cup {r}
  BY DEF EndRoom
<1>2. TypeOK' /\ Counted' /\ FdsLeft'
  BY <1>1 DEF Inv, TypeOK, Counted, FdsLeft
<1>3. (~reused => Sound)'
  BY <1>1 DEF Inv, Sound, Lit
<1> QED BY <1>2, <1>3 DEF Inv

\* Freed memory is used for something else.
LEMMA ClobberOk == ASSUME Inv, NEW s \in Slots, Clobber(s) PROVE Inv'
<1>1. /\ os' = os /\ batch' = batch /\ bombs' = bombs /\ over' = over
      /\ exploded' = exploded /\ count' = count /\ gone' = gone
      /\ reused' = reused /\ up' = up /\ slot' = [slot EXCEPT ![s] = Garbage]
  BY DEF Clobber
<1>2. TypeOK' /\ Counted' /\ FdsLeft'
  BY <1>1 DEF Inv, TypeOK, Counted, FdsLeft
<1>3. ASSUME ~reused, Sound PROVE Sound'
  <2>1. \A a \in Slots : slot'[a] = IF a = s THEN Garbage ELSE slot[a]
    BY <1>1 DEF Inv, TypeOK
  <2>2. \A t \in All(os, batch) : t.at \in Slots
    BY AllIsPending DEF Inv, Timer
  <2>3. Owns(All(os, batch), slot')
    BY <1>3, <2>1, <2>2 DEF Sound, Solid, Owns
  <2> QED BY <1>1, <1>3, <2>3 DEF Sound, Solid
<1> QED BY <1>1, <1>2, <1>3 DEF Inv

\* GET_ROOM_LIST destroys finished rooms; the timers stay.
LEMMA DestroyRoomsOk == ASSUME Inv, DestroyRooms PROVE Inv'
<1>1. /\ os' = os /\ slot' = slot /\ batch' = batch /\ bombs' = bombs
      /\ exploded' = exploded /\ count' = count /\ gone' = over
      /\ reused' = reused /\ up' = up /\ over' = over
  BY DEF DestroyRooms
<1> QED BY <1>1 DEF Inv, TypeOK, Counted, FdsLeft, Sound

\* The process ends.
LEMMA FireAtNothingOk == ASSUME Inv, FireAtNothing PROVE Inv'
<1>1. /\ os' = os /\ slot' = slot /\ batch' = batch /\ bombs' = bombs
      /\ exploded' = exploded /\ count' = count /\ gone' = gone
      /\ reused' = reused /\ up' = FALSE /\ over' = over
  BY DEF FireAtNothing
<1> QED BY <1>1 DEF Inv, TypeOK, Counted, FdsLeft, Sound

\* The server hangs.
LEMMA SendHangsOk == ASSUME Inv, SendHangs PROVE Inv'
<1>1. /\ os' = os /\ slot' = slot /\ batch' = batch /\ bombs' = bombs
      /\ exploded' = exploded /\ count' = count /\ gone' = gone
      /\ reused' = reused /\ up' = FALSE /\ over' = over
  BY DEF SendHangs
<1> QED BY <1>1 DEF Inv, TypeOK, Counted, FdsLeft, Sound

\* Nothing happens.
LEMMA StutterOk == ASSUME Inv, UNCHANGED vars PROVE Inv'
  BY DEF vars, Inv, TypeOK, Counted, FdsLeft, Sound

-----------------------------------------------------------------------------
(* What a step does to the sets of timers and of descriptors.              *)

OsType == [open  : [Fds -> {"free", "timer", "client"}],
           armed : Seq(Timer), ready : Seq(Timer)]

\* Descriptors are finitely many; one more or less counts for one.
LEMMA FdsFacts ==
    ASSUME NEW A \in SUBSET Fds, NEW f
    PROVE  /\ IsFiniteSet(A)
           /\ Cardinality(A) \in Nat
           /\ Cardinality(A \cup {f}) \in Nat
           /\ Cardinality(A \cup {f}) <= Cardinality(A) + 1
           /\ Cardinality(A \ {f}) \in Nat
           /\ Cardinality(A \ {f}) <= Cardinality(A)
<1>1. IsFiniteSet(A)
  <2>1. 1 \in Int /\ Clients + MaxBombs \in Int
    BY FusesAssumption
  <2>2. IsFiniteSet(Fds)
    BY <2>1, FS_Interval DEF Fds
  <2> QED BY <2>2, FS_Subset
<1>2. /\ IsFiniteSet(A \cup {f}) /\ IsFiniteSet(A \ {f})
      /\ Cardinality(A \cup {f}) = IF f \in A THEN Cardinality(A) ELSE Cardinality(A) + 1
      /\ Cardinality(A \ {f}) = IF f \in A THEN Cardinality(A) - 1 ELSE Cardinality(A)
  BY <1>1, FS_AddElement, FS_RemoveElement
<1>3. /\ Cardinality(A) \in Nat /\ Cardinality(A \cup {f}) \in Nat
      /\ Cardinality(A \ {f}) \in Nat
  BY <1>1, <1>2, FS_CardinalityType
<1> QED BY <1>1, <1>2, <1>3

\* The timers made for r, with one more or one less.
LEMMA RoomCount ==
    ASSUME NEW A, IsFiniteSet(A), NEW t, NEW r
    PROVE  /\ Cardinality(MadeFor(A, r)) \in Nat
           /\ t \notin A /\ t.room = r =>
                 Cardinality(MadeFor(A \cup {t}, r)) = Cardinality(MadeFor(A, r)) + 1
           /\ t.room # r => MadeFor(A \cup {t}, r) = MadeFor(A, r)
           /\ t \in A /\ t.room = r =>
                 /\ Cardinality(MadeFor(A, r)) >= 1
                 /\ Cardinality(MadeFor(A \ {t}, r)) = Cardinality(MadeFor(A, r)) - 1
           /\ t.room # r => MadeFor(A \ {t}, r) = MadeFor(A, r)
<1> DEFINE S == MadeFor(A, r)
<1>1. /\ MadeFor(A \cup {t}, r) = IF t.room = r THEN S \cup {t} ELSE S
      /\ MadeFor(A \ {t}, r) = IF t.room = r THEN S \ {t} ELSE S
      /\ t.room = r => (t \in S <=> t \in A)
      /\ S \in SUBSET A
  BY DEF MadeFor
<1>2. IsFiniteSet(S)
  BY <1>1, FS_Subset
<1> HIDE DEF S
<1>3. /\ IsFiniteSet(S \ {t})
      /\ Cardinality(S \cup {t}) = IF t \in S THEN Cardinality(S) ELSE Cardinality(S) + 1
      /\ Cardinality(S \ {t}) = IF t \in S THEN Cardinality(S) - 1 ELSE Cardinality(S)
  BY <1>2, FS_AddElement, FS_RemoveElement
<1>4. Cardinality(S) \in Nat /\ Cardinality(S \ {t}) \in Nat
  BY <1>2, <1>3, FS_CardinalityType
<1>5. t \in S => Cardinality(S) >= 1
  BY <1>3, <1>4
<1> QED BY <1>1, <1>3, <1>4, <1>5 DEF S

\* A timer is armed at s, in the memory that is written for it.
LEMMA ArmedFacts ==
    ASSUME NEW o \in OsType, NEW r \in Rooms, NEW s \in Slots,
           \E f \in Fds : o.open[f] = "free"
    PROVE  /\ Armed(o, r, s) \in OsType
           /\ NewFd(o.open) \in Fds /\ o.open[NewFd(o.open)] = "free"
           /\ Armed(o, r, s).open = [o.open EXCEPT ![NewFd(o.open)] = "timer"]
           /\ Armed(o, r, s).armed =
                 Append(o.armed, [fd |-> NewFd(o.open), at |-> s, room |-> r])
           /\ Armed(o, r, s).ready = o.ready
           /\ Len(Armed(o, r, s).armed) = Len(o.armed) + 1
           /\ \A b : All(Armed(o, r, s), b) =
                 All(o, b) \cup {[fd |-> NewFd(o.open), at |-> s, room |-> r]}
<1> DEFINE f == NewFd(o.open)
           t == [fd |-> f, at |-> s, room |-> r]
           p == Armed(o, r, s)
<1>1. f \in Fds /\ o.open[f] = "free"
  BY NewFdIsFree
<1>2. t \in Timer
  BY <1>1 DEF Timer
<1>3. /\ p.open = [o.open EXCEPT ![f] = "timer"]
      /\ p.armed = Append(o.armed, t) /\ p.ready = o.ready
  BY DEF Armed, OsType
<1>4. /\ Append(o.armed, t) \in Seq(Timer) /\ Len(Append(o.armed, t)) = Len(o.armed) + 1
      /\ ToSet(Append(o.armed, t)) = ToSet(o.armed) \cup {t}
  BY <1>2, AppendFacts DEF OsType
<1>5. p \in OsType
  BY <1>1, <1>4 DEF Armed, OsType
<1> HIDE DEF f, t, p
<1>6. \A b : All(p, b) = All(o, b) \cup {t}
  BY <1>3, <1>4 DEF All
<1> QED BY <1>1, <1>3, <1>4, <1>5, <1>6 DEF f, t, p

\* A new timer shares nothing with those that are pending.
LEMMA ArmedSolid ==
    ASSUME NEW o \in OsType, NEW b \in Seq(Timer), NEW r \in Rooms, NEW s \in Slots,
           NEW mem \in [Slots -> [fd : Fds, room : Rooms] \cup {Garbage}],
           \E f \in Fds : o.open[f] = "free",
           Solid(o, b, mem), All(o, b) \in SUBSET Timer,
           \A t \in All(o, b) : t.at # s
    PROVE  Solid(Armed(o, r, s), b,
                 [mem EXCEPT ![s] = [fd |-> NewFd(o.open), room |-> r]])
<1> DEFINE f == NewFd(o.open)
           t == [fd |-> f, at |-> s, room |-> r]
           p == Armed(o, r, s)
           wri == [mem EXCEPT ![s] = [fd |-> f, room |-> r]]
<1>1. /\ f \in Fds /\ o.open[f] = "free"
      /\ p.open = [o.open EXCEPT ![f] = "timer"]
      /\ p.armed = Append(o.armed, t) /\ p.ready = o.ready
      /\ All(p, b) = All(o, b) \cup {t}
  BY ArmedFacts
<1>2. t.fd = f /\ t.at = s /\ t.room = r /\ t \in Timer
  BY <1>1 DEF Timer
<1>3. wri[s] = [fd |-> f, room |-> r] /\ \A a \in Slots : a # s => wri[a] = mem[a]
  OBVIOUS
<1>4. o.armed \in Seq(Timer) /\ o.open \in [Fds -> {"free", "timer", "client"}]
  BY DEF OsType
<1> HIDE DEF f, t, p, wri
<1>5. \A u \in All(o, b) : u.fd # f /\ u.at # s /\ u.at \in Slots
  <2>1. \A u \in All(o, b) : u.fd \in OpenFor(o, "timer")
    BY DEF Solid
  <2>2. f \notin OpenFor(o, "timer")
    BY <1>1 DEF OpenFor
  <2> QED BY <2>1, <2>2 DEF Timer
<1>6. t \notin All(o, b)
  BY <1>2, <1>5
<1>7. Placed(p, b)
  <2>1. /\ Once(Append(o.armed, t)) /\ ToSet(Append(o.armed, t)) = ToSet(o.armed) \cup {t}
    <3>1. t \notin ToSet(o.armed) /\ Once(o.armed)
      BY <1>6 DEF All, Solid, Placed
    <3> QED BY <1>2, <1>4, <3>1, AppendFacts
  <2>2. t \notin ToSet(o.ready) /\ t \notin ToSet(b)
    BY <1>6 DEF All
  <2> QED BY <1>1, <2>1, <2>2 DEF Solid, Placed
<1>8. Apart(All(p, b))
  BY <1>1, <1>2, <1>5 DEF Solid, Apart
<1>9. Owns(All(p, b), wri)
  BY <1>1, <1>2, <1>3, <1>5 DEF Solid, Owns
<1>10. OpenFor(p, "timer") = {u.fd : u \in All(p, b)}
  <2>1. OpenFor(p, "timer") = OpenFor(o, "timer") \cup {f}
    BY <1>1, <1>4 DEF OpenFor
  <2> QED BY <1>1, <1>2, <2>1 DEF Solid
<1> QED BY <1>7, <1>8, <1>9, <1>10 DEF Solid, p, wri, f

\* A descriptor is closed, whatever it is.
LEMMA ClosedFacts ==
    ASSUME NEW o \in OsType, NEW fd
    PROVE  /\ Closed(o, fd) \in OsType
           /\ Len(Closed(o, fd).armed) <= Len(o.armed)
           /\ Len(Closed(o, fd).ready) <= Len(o.ready)
           /\ \A w \in {"timer", "client"} :
                 /\ Cardinality(OpenFor(Closed(o, fd), w)) \in Nat
                 /\ Cardinality(OpenFor(o, w)) \in Nat
                 /\ Cardinality(OpenFor(Closed(o, fd), w)) <= Cardinality(OpenFor(o, w))
           /\ fd \in Fds => Closed(o, fd).open = [o.open EXCEPT ![fd] = "free"]
           /\ (\A t \in ToSet(o.armed) \cup ToSet(o.ready) : t.fd # fd) =>
                 Closed(o, fd).armed = o.armed /\ Closed(o, fd).ready = o.ready
<1>0. /\ o.armed \in Seq(Timer) /\ o.ready \in Seq(Timer)
      /\ o.open \in [Fds -> {"free", "timer", "client"}]
      /\ Len(o.armed) \in Nat /\ Len(o.ready) \in Nat
  BY DEF OsType
<1>1. CASE fd \notin Fds
  <2>1. Closed(o, fd) = o
    BY <1>1 DEF Closed
  <2>2. \A w \in {"timer", "client"} : Cardinality(OpenFor(o, w)) \in Nat
    <3> SUFFICES ASSUME NEW w \in {"timer", "client"}
                 PROVE  Cardinality(OpenFor(o, w)) \in Nat
      OBVIOUS
    <3>1. OpenFor(o, w) \in SUBSET Fds
      BY DEF OpenFor
    <3> QED BY <3>1, FdsFacts
  <2> QED BY <1>0, <1>1, <2>1, <2>2
<1>2. CASE fd \in Fds
  <2> DEFINE p == Closed(o, fd)
  <2>1. /\ p.open = [o.open EXCEPT ![fd] = "free"]
        /\ p.armed = Without(o.armed, fd) /\ p.ready = Without(o.ready, fd)
        /\ p = [open |-> p.open, armed |-> p.armed, ready |-> p.ready]
    BY <1>2 DEF Closed
  <2> HIDE DEF p
  <2>2. /\ p.armed \in Seq(Timer) /\ Len(p.armed) <= Len(o.armed)
        /\ p.ready \in Seq(Timer) /\ Len(p.ready) <= Len(o.ready)
        /\ (\A t \in ToSet(o.armed) \cup ToSet(o.ready) : t.fd # fd) =>
              p.armed = o.armed /\ p.ready = o.ready
    BY <1>0, <2>1, WithoutFacts
  <2>3. p.open \in [Fds -> {"free", "timer", "client"}]
    BY <1>0, <2>1
  <2>4. p \in OsType
    BY <2>1, <2>2, <2>3 DEF OsType
  <2>5. ASSUME NEW w \in {"timer", "client"}
        PROVE  /\ Cardinality(OpenFor(p, w)) \in Nat /\ Cardinality(OpenFor(o, w)) \in Nat
               /\ Cardinality(OpenFor(p, w)) <= Cardinality(OpenFor(o, w))
    <3>1. OpenFor(o, w) \in SUBSET Fds /\ OpenFor(p, w) = OpenFor(o, w) \ {fd}
      BY <1>0, <1>2, <2>1, <2>5 DEF OpenFor
    <3> QED BY <3>1, FdsFacts
  <2> QED BY <2>1, <2>2, <2>4, <2>5 DEF p
<1> QED BY <1>1, <1>2

\* The timer of the event that is handled is closed.
LEMMA ClosedSolid ==
    ASSUME NEW o \in OsType, NEW b \in Seq(Timer), b # <<>>, NEW mem, Solid(o, b, mem),
           All(o, b) \in SUBSET Timer
    PROVE  /\ Solid(Closed(o, Head(b).fd), Tail(b), mem)
           /\ Head(b) \in All(o, b)
           /\ All(Closed(o, Head(b).fd), Tail(b)) = All(o, b) \ {Head(b)}
<1> DEFINE t == Head(b)
           p == Closed(o, t.fd)
<1>1. /\ t \in Timer /\ Tail(b) \in Seq(Timer) /\ ToSet(b) = ToSet(Tail(b)) \cup {t}
      /\ Once(Tail(b)) /\ t \notin ToSet(Tail(b))
  BY TailFacts DEF Solid, Placed
<1>2. t.fd \in Fds
  BY <1>1 DEF Timer
<1> HIDE DEF t
<1>3. t \in All(o, b) /\ t \notin ToSet(o.armed) /\ t \notin ToSet(o.ready)
  BY <1>1 DEF All, Solid, Placed
<1>4. \A u \in All(o, b) : u # t => u.fd # t.fd
  BY <1>3 DEF Solid, Apart
<1>5. /\ p.open = [o.open EXCEPT ![t.fd] = "free"]
      /\ p.armed = o.armed /\ p.ready = o.ready
  <2>1. \A u \in ToSet(o.armed) \cup ToSet(o.ready) : u.fd # t.fd
    BY <1>3, <1>4 DEF All
  <2> QED BY <1>2, <2>1, ClosedFacts
<1> HIDE DEF p
<1>6. All(p, Tail(b)) = All(o, b) \ {t}
  BY <1>1, <1>3, <1>5 DEF All
<1>7. Placed(p, Tail(b))
  BY <1>1, <1>5 DEF Solid, Placed
<1>8. Apart(All(p, Tail(b))) /\ Owns(All(p, Tail(b)), mem)
  BY <1>6 DEF Solid, Apart, Owns
<1>9. OpenFor(p, "timer") = {u.fd : u \in All(p, Tail(b))}
  <2>1. OpenFor(p, "timer") = OpenFor(o, "timer") \ {t.fd}
    BY <1>2, <1>5 DEF OpenFor, OsType
  <2> QED BY <1>4, <1>6, <2>1 DEF Solid
<1> QED BY <1>3, <1>6, <1>7, <1>8, <1>9 DEF Solid, p, t

-----------------------------------------------------------------------------
(* Steps of the kernel, of the lobby thread and of epoll.                  *)

\* The kernel makes an armed timer ready.
LEMMA ExpireOk == ASSUME Inv, Expire PROVE Inv'
<1> DEFINE t == Head(os.armed)
<1>1. /\ os'.open = os.open /\ os'.armed = Tail(os.armed)
      /\ os'.ready = Append(os.ready, t)
      /\ os' = [open |-> os'.open, armed |-> os'.armed, ready |-> os'.ready]
      /\ count' = [count EXCEPT !.expired = count.expired + 1]
      /\ slot' = slot /\ batch' = batch /\ bombs' = bombs
      /\ exploded' = exploded /\ gone' = gone /\ over' = over
      /\ reused' = reused /\ up' = up
  BY DEF Expire, Inv, TypeOK
<1>2. /\ os.armed \in Seq(Timer) /\ os.armed # <<>> /\ os.ready \in Seq(Timer)
      /\ Len(os.armed) \in Nat /\ Len(os.ready) \in Nat /\ Len(batch) \in Nat
  BY DEF Expire, Inv, TypeOK
<1>3. /\ t \in Timer /\ Tail(os.armed) \in Seq(Timer)
      /\ Len(Tail(os.armed)) = Len(os.armed) - 1
      /\ ToSet(os.armed) = ToSet(Tail(os.armed)) \cup {t}
      /\ Once(os.armed) => Once(Tail(os.armed)) /\ t \notin ToSet(Tail(os.armed))
  BY <1>2, TailFacts
<1> HIDE DEF t
<1>4. /\ Append(os.ready, t) \in Seq(Timer)
      /\ Len(Append(os.ready, t)) = Len(os.ready) + 1
      /\ ToSet(Append(os.ready, t)) = ToSet(os.ready) \cup {t}
      /\ Once(os.ready) /\ t \notin ToSet(os.ready) => Once(Append(os.ready, t))
  BY <1>2, <1>3, AppendFacts
<1>5. /\ count.bombs \in 0 .. MaxBombs /\ count.expired \in 0 .. MaxBombs
      /\ count.exploded \in 0 .. MaxBombs
      /\ count'.bombs = count.bombs /\ count'.expired = count.expired + 1
      /\ count'.exploded = count.exploded
  BY <1>1 DEF Inv, TypeOK
<1>6. Counted'
  <2>1. /\ Len(os'.armed) = Len(os.armed) - 1 /\ Len(os'.ready) = Len(os.ready) + 1
        /\ Len(batch') = Len(batch)
    BY <1>1, <1>3, <1>4
  <2>2. /\ count'.exploded + Len(os'.ready) + Len(batch') <= count'.expired
        /\ count'.expired + Len(os'.armed) <= count'.bombs
    <3> DEFINE a == Len(os.armed)
               w == Len(os.ready)
               v == Len(batch)
               x == count.exploded
               e == count.expired
               m == count.bombs
    <3>1. a \in Nat /\ w \in Nat /\ v \in Nat
      BY DEF Inv, TypeOK
    <3>2. x \in Nat /\ e \in Nat /\ m \in Nat
      BY <1>5
    <3>3. x + w + v <= e /\ e + a <= m
      BY DEF Inv, Counted
    <3> HIDE DEF a, w, v, x, e, m
    <3>4. x + (w + 1) + v <= e + 1 /\ (e + 1) + (a - 1) <= m
      BY <3>1, <3>2, <3>3
    <3> QED BY <1>5, <2>1, <3>4 DEF a, w, v, x, e, m
  <2> QED BY <1>1, <1>5, <2>2 DEF Inv, Counted
<1>7. TypeOK'
  <2>1. count.expired + 1 \in 0 .. MaxBombs
    BY <1>2, <1>3, <1>5, FusesAssumption DEF Inv, Counted
  <2>2. count' \in [bombs : 0 .. MaxBombs, expired : 0 .. MaxBombs,
                    exploded : 0 .. MaxBombs]
    BY <1>1, <2>1 DEF Inv, TypeOK
  <2>3. os' \in [open  : [Fds -> {"free", "timer", "client"}],
                 armed : Seq(Timer), ready : Seq(Timer)]
    BY <1>1, <1>3, <1>4 DEF Inv, TypeOK
  <2> QED BY <1>1, <2>2, <2>3 DEF Inv, TypeOK
<1>8. FdsLeft'
  BY <1>1, <1>5 DEF Inv, FdsLeft, OpenFor
<1>9. ASSUME ~reused, Sound PROVE Sound'
  <2>1. All(os', batch') = All(os, batch)
    BY <1>1, <1>3, <1>4 DEF All
  <2>2. Placed(os', batch')
    BY <1>1, <1>3, <1>4, <1>9 DEF Sound, Solid, Placed
  <2>3. OpenFor(os', "timer") = OpenFor(os, "timer")
    BY <1>1 DEF OpenFor
  <2> QED BY <1>1, <1>9, <2>1, <2>2, <2>3 DEF Sound, Solid
<1> QED BY <1>1, <1>6, <1>7, <1>8, <1>9 DEF Inv

\* epoll_wait hands the ready timers to the bombs thread.
LEMMA EpollWaitOk == ASSUME Inv, EpollWait PROVE Inv'
<1>1. /\ os'.open = os.open /\ os'.armed = os.armed /\ os'.ready = <<>>
      /\ os' = [open |-> os'.open, armed |-> os'.armed, ready |-> os'.ready]
      /\ batch' = os.ready /\ batch = <<>> /\ count' = count
      /\ slot' = slot /\ bombs' = bombs /\ exploded' = exploded /\ gone' = gone
      /\ over' = over /\ reused' = reused /\ up' = up
  BY DEF EpollWait, Inv, TypeOK
<1>2. TypeOK'
  <2>1. os' \in [open  : [Fds -> {"free", "timer", "client"}],
                 armed : Seq(Timer), ready : Seq(Timer)]
    BY <1>1 DEF Inv, TypeOK
  <2> QED BY <1>1, <2>1 DEF Inv, TypeOK
<1>3. Len(batch) = 0 /\ Len(os'.ready) = 0 /\ ToSet(batch) = {} /\ ToSet(os'.ready) = {}
      /\ Once(os'.ready)
  BY <1>1 DEF ToSet, Once
<1>4. Counted'
  <2>1. Len(batch') = Len(os.ready) /\ Len(os.ready) \in Nat
    BY <1>1 DEF Inv, TypeOK
  <2> QED BY <1>1, <1>3, <2>1 DEF Inv, Counted, TypeOK
<1>5. FdsLeft'
  BY <1>1 DEF Inv, FdsLeft, OpenFor
<1>6. ASSUME ~reused, Sound PROVE Sound'
  <2>1. All(os', batch') = All(os, batch)
    BY <1>1, <1>3 DEF All
  <2>2. Placed(os', batch')
    BY <1>1, <1>3, <1>6 DEF Sound, Solid, Placed
  <2>3. OpenFor(os', "timer") = OpenFor(os, "timer")
    BY <1>1 DEF OpenFor
  <2> QED BY <1>1, <1>6, <2>1, <2>2, <2>3 DEF Sound, Solid
<1> QED BY <1>1, <1>2, <1>4, <1>5, <1>6 DEF Inv

\* A free descriptor is there for a client, if there is room for one.
LEMMA FdForClient ==
    ASSUME Inv, Cardinality(OpenFor(os, "client")) < Clients
    PROVE  \E f \in Fds : os.open[f] = "free"
<1>1. OpenFor(os, "timer") \in SUBSET Fds /\ OpenFor(os, "client") \in SUBSET Fds
  BY DEF OpenFor
<1>2. /\ Cardinality(OpenFor(os, "timer")) \in Nat
      /\ Cardinality(OpenFor(os, "client")) \in Nat
  BY <1>1, FdsFacts
<1>3. Cardinality(OpenFor(os, "timer")) <= count.bombs /\ count.bombs \in 0 .. MaxBombs
  BY DEF Inv, FdsLeft, TypeOK
<1>4. os.open \in [Fds -> {"free", "timer", "client"}]
  BY DEF Inv, TypeOK
<1> QED BY <1>2, <1>3, <1>4, SomeFdIsFree, FusesAssumption

\* accept() takes a descriptor that no timer has.
LEMMA AcceptOk == ASSUME Inv, Accept PROVE Inv'
<1> DEFINE f == NewFd(os.open)
<1>1. /\ os'.open = [os.open EXCEPT ![f] = "client"]
      /\ os'.armed = os.armed /\ os'.ready = os.ready
      /\ os' = [open |-> os'.open, armed |-> os'.armed, ready |-> os'.ready]
      /\ count' = count /\ slot' = slot /\ batch' = batch /\ bombs' = bombs
      /\ exploded' = exploded /\ gone' = gone /\ over' = over
      /\ reused' = reused /\ up' = up
      /\ Cardinality(OpenFor(os, "client")) < Clients
  BY DEF Accept, Inv, TypeOK, OpenFor
<1>2. f \in Fds /\ os.open[f] = "free"
  BY <1>1, FdForClient, NewFdIsFree
<1> HIDE DEF f
<1>3. os.open \in [Fds -> {"free", "timer", "client"}]
  BY DEF Inv, TypeOK
<1>4. /\ OpenFor(os', "timer") = OpenFor(os, "timer")
      /\ OpenFor(os', "client") = OpenFor(os, "client") \cup {f}
      /\ OpenFor(os, "client") \in SUBSET Fds
  BY <1>1, <1>2, <1>3 DEF OpenFor
<1>5. TypeOK'
  <2>1. os' \in [open  : [Fds -> {"free", "timer", "client"}],
                 armed : Seq(Timer), ready : Seq(Timer)]
    BY <1>1, <1>2, <1>3 DEF Inv, TypeOK
  <2> QED BY <1>1, <2>1 DEF Inv, TypeOK
<1>6. Counted'
  BY <1>1 DEF Inv, Counted
<1>7. FdsLeft'
  <2>1. /\ Cardinality(OpenFor(os, "client")) \in Nat
        /\ Cardinality(OpenFor(os, "client") \cup {f}) \in Nat
        /\ Cardinality(OpenFor(os, "client") \cup {f})
             <= Cardinality(OpenFor(os, "client")) + 1
    BY <1>4, FdsFacts
  <2>2. Cardinality(OpenFor(os', "client")) <= Clients
    BY <1>1, <1>4, <2>1, FusesAssumption
  <2> QED BY <1>1, <1>4, <2>2 DEF Inv, FdsLeft
<1>8. ASSUME ~reused, Sound PROVE Sound'
  <2>1. All(os', batch') = All(os, batch) /\ (Placed(os, batch) => Placed(os', batch'))
    BY <1>1 DEF All, Placed
  <2> QED BY <1>1, <1>4, <1>8, <2>1 DEF Sound, Solid
<1> QED BY <1>1, <1>5, <1>6, <1>7, <1>8 DEF Inv

\* close() of a client gives a descriptor back.
LEMMA CloseClientOk == ASSUME Inv, NEW f \in Fds, CloseClient(f) PROVE Inv'
<1>1. /\ os' = Closed(os, f) /\ os.open[f] = "client"
      /\ count' = count /\ slot' = slot /\ batch' = batch /\ bombs' = bombs
      /\ exploded' = exploded /\ gone' = gone /\ over' = over
      /\ reused' = reused /\ up' = up
  BY DEF CloseClient
<1>2. os \in OsType
  BY DEF Inv, TypeOK, OsType
<1>3. /\ os' \in OsType
      /\ Len(os'.armed) <= Len(os.armed) /\ Len(os'.ready) <= Len(os.ready)
      /\ \A w \in {"timer", "client"} :
            /\ Cardinality(OpenFor(os', w)) \in Nat
            /\ Cardinality(OpenFor(os, w)) \in Nat
            /\ Cardinality(OpenFor(os', w)) <= Cardinality(OpenFor(os, w))
      /\ os'.open = [os.open EXCEPT ![f] = "free"]
      /\ (\A t \in ToSet(os.armed) \cup ToSet(os.ready) : t.fd # f) =>
            os'.armed = os.armed /\ os'.ready = os.ready
  BY <1>1, <1>2, ClosedFacts
<1>4. TypeOK'
  BY <1>1, <1>3 DEF Inv, TypeOK, OsType
<1>5. Counted'
  <2>1. /\ Len(os'.armed) \in Nat /\ Len(os'.ready) \in Nat /\ Len(batch) \in Nat
        /\ Len(os.armed) \in Nat /\ Len(os.ready) \in Nat
        /\ count.bombs \in Nat /\ count.expired \in Nat /\ count.exploded \in Nat
    BY <1>2, <1>3 DEF OsType, Inv, TypeOK
  <2>2. /\ count.exploded + Len(os'.ready) + Len(batch) <= count.expired
        /\ count.expired + Len(os'.armed) <= count.bombs
    <3>1. /\ count.exploded + Len(os.ready) + Len(batch) <= count.expired
          /\ count.expired + Len(os.armed) <= count.bombs
          /\ Len(os'.armed) <= Len(os.armed) /\ Len(os'.ready) <= Len(os.ready)
      BY <1>3 DEF Inv, Counted
    <3> DEFINE a == Len(os.armed)
               w == Len(os.ready)
               aa == Len(os'.armed)
               ww == Len(os'.ready)
               v == Len(batch)
               x == count.exploded
               e == count.expired
               m == count.bombs
    <3>2. /\ a \in Nat /\ w \in Nat /\ aa \in Nat /\ ww \in Nat /\ v \in Nat
          /\ x \in Nat /\ e \in Nat /\ m \in Nat
      BY <2>1
    <3>3. x + w + v <= e /\ e + a <= m /\ aa <= a /\ ww <= w
      BY <3>1
    <3> HIDE DEF a, w, aa, ww, v, x, e, m
    <3>4. x + ww + v <= e /\ e + aa <= m
      BY <3>2, <3>3
    <3> QED BY <3>4 DEF a, w, aa, ww, v, x, e, m
  <2> QED BY <1>1, <2>2 DEF Inv, Counted
<1>6. FdsLeft'
  <2>1. count.bombs \in Nat
    BY DEF Inv, TypeOK
  <2> QED BY <1>1, <1>3, <2>1, FusesAssumption DEF Inv, FdsLeft
<1>7. ASSUME ~reused, Sound PROVE Sound'
  <2>1. \A t \in All(os, batch) : t.fd # f
    BY <1>1, <1>7 DEF Sound, Solid, OpenFor
  <2>2. os'.armed = os.armed /\ os'.ready = os.ready
    BY <1>3, <2>1 DEF All
  <2>3. All(os', batch') = All(os, batch) /\ (Placed(os, batch) => Placed(os', batch'))
    BY <1>1, <2>2 DEF All, Placed
  <2>4. OpenFor(os', "timer") = OpenFor(os, "timer")
    BY <1>1, <1>2, <1>3 DEF OpenFor, OsType
  <2> QED BY <1>1, <1>7, <2>3, <2>4 DEF Sound, Solid
<1> QED BY <1>1, <1>4, <1>5, <1>6, <1>7 DEF Inv

-----------------------------------------------------------------------------
(* Steps that arm or handle a timer.                                       *)

MemType == [Slots -> [fd : Fds, room : Rooms] \cup {Garbage}]

\* What the kernel is and what the memory holds when a bomb of r is given a
\* timer.
LEMMA ArmedInv ==
    ASSUME Inv, InBounds, NEW r \in Rooms, NEW s \in Slots
    PROVE  LET p == Armed(os, r, s)
               t == [fd |-> NewFd(os.open), at |-> s, room |-> r]
               mem == [slot EXCEPT ![s] = [fd |-> NewFd(os.open), room |-> r]]
           IN  /\ p \in OsType /\ mem \in MemType /\ t \in Timer
               /\ Len(p.armed) = Len(os.armed) + 1 /\ p.ready = os.ready
               /\ Cardinality(OpenFor(p, "timer")) <= count.bombs + 1
               /\ Cardinality(OpenFor(p, "client")) <= Clients
               /\ All(p, batch) = All(os, batch) \cup {t}
               /\ ~reused /\ ~(\E u \in ToSet(Pending) : u.at = s) =>
                     Solid(p, batch, mem) /\ t \notin All(os, batch)
<1> DEFINE p == Armed(os, r, s)
           f == NewFd(os.open)
           t == [fd |-> f, at |-> s, room |-> r]
           mem == [slot EXCEPT ![s] = [fd |-> f, room |-> r]]
<1>1. os \in OsType /\ slot \in MemType /\ batch \in Seq(Timer)
      /\ count.bombs \in Nat /\ count.bombs < MaxBombs
  BY DEF Inv, TypeOK, OsType, MemType, InBounds
<1>2. /\ OpenFor(os, "timer") \in SUBSET Fds /\ OpenFor(os, "client") \in SUBSET Fds
  BY DEF OpenFor
<1>3. /\ Cardinality(OpenFor(os, "timer")) \in Nat
      /\ Cardinality(OpenFor(os, "client")) \in Nat
      /\ Cardinality(OpenFor(os, "timer")) <= count.bombs
      /\ Cardinality(OpenFor(os, "client")) <= Clients
  BY <1>2, FdsFacts DEF Inv, FdsLeft
<1>4. \E g \in Fds : os.open[g] = "free"
  <2>1. os.open \in [Fds -> {"free", "timer", "client"}]
    BY <1>1 DEF OsType
  <2> QED BY <1>1, <1>3, <2>1, SomeFdIsFree, FusesAssumption
<1>5. /\ p \in OsType /\ f \in Fds /\ os.open[f] = "free"
      /\ p.open = [os.open EXCEPT ![f] = "timer"]
      /\ p.ready = os.ready /\ Len(p.armed) = Len(os.armed) + 1
      /\ All(p, batch) = All(os, batch) \cup {t}
  <2>1. os \in OsType
    BY <1>1
  <2>2. /\ Armed(os, r, s) \in OsType
        /\ NewFd(os.open) \in Fds /\ os.open[NewFd(os.open)] = "free"
        /\ Armed(os, r, s).open = [os.open EXCEPT ![NewFd(os.open)] = "timer"]
        /\ Armed(os, r, s).ready = os.ready
        /\ Len(Armed(os, r, s).armed) = Len(os.armed) + 1
        /\ \A b : All(Armed(os, r, s), b) =
                 All(os, b) \cup {[fd |-> NewFd(os.open), at |-> s, room |-> r]}
    BY <1>4, <2>1, ArmedFacts
  <2> QED BY <2>2
<1>6. mem \in MemType
  <2>1. [fd |-> f, room |-> r] \in [fd : Fds, room : Rooms]
    BY <1>5
  <2> QED BY <1>1, <2>1 DEF MemType
<1>7. t \in Timer
  BY <1>5 DEF Timer
<1>8. /\ Cardinality(OpenFor(p, "timer")) <= count.bombs + 1
      /\ Cardinality(OpenFor(p, "client")) <= Clients
  <2> HIDE DEF p, f
  <2>1. /\ OpenFor(p, "timer") = OpenFor(os, "timer") \cup {f}
        /\ OpenFor(p, "client") = OpenFor(os, "client")
    BY <1>1, <1>5 DEF OpenFor, OsType
  <2>2. /\ Cardinality(OpenFor(os, "timer") \cup {f}) \in Nat
        /\ Cardinality(OpenFor(os, "timer") \cup {f})
             <= Cardinality(OpenFor(os, "timer")) + 1
    BY <1>2, FdsFacts
  <2>3. Cardinality(OpenFor(os, "timer") \cup {f}) <= count.bombs + 1
    BY <1>1, <1>3, <2>2
  <2> QED BY <1>3, <2>1, <2>3
<1>9. ASSUME ~reused, ~(\E u \in ToSet(Pending) : u.at = s)
      PROVE  Solid(p, batch, mem) /\ t \notin All(os, batch)
  <2>1. \A u \in All(os, batch) : u.at # s
    BY <1>9, AllIsPending DEF Inv
  <2>2. Solid(os, batch, slot) /\ All(os, batch) \in SUBSET Timer
    BY <1>9, AllIsPending DEF Inv, Sound
  <2>3. slot \in [Slots -> [fd : Fds, room : Rooms] \cup {Garbage}]
    BY <1>1 DEF MemType
  <2>4. Solid(p, batch, mem)
    BY <1>1, <1>4, <2>1, <2>2, <2>3, ArmedSolid
  <2> QED BY <2>1, <2>4
<1> QED BY <1>5, <1>6, <1>7, <1>8, <1>9

\* A bomb is placed, or left behind, while the rooms thread has the lock.
NewBomb(r, s) ==
    /\ InBounds
    /\ bombs' = [bombs EXCEPT ![r] = @ + 1]
    /\ count' = [count EXCEPT !.bombs = @ + 1]
    /\ Written(s, r)
    /\ os' = Armed(os, r, s)
    /\ UNCHANGED <<batch, exploded, over, gone, up>>

\* A bomb and its timer are made together.
LEMMA NewBombOk ==
    ASSUME Inv, NEW r \in Rooms, NEW s \in Slots, NewBomb(r, s)
    PROVE  Inv'
<1> DEFINE t == [fd |-> NewFd(os.open), at |-> s, room |-> r]
           mem == [slot EXCEPT ![s] = [fd |-> NewFd(os.open), room |-> r]]
<1>1. /\ os' = Armed(os, r, s) /\ slot' = mem
      /\ reused' = (reused \/ \E u \in ToSet(Pending) : u.at = s)
      /\ bombs' = [bombs EXCEPT ![r] = bombs[r] + 1]
      /\ count' = [count EXCEPT !.bombs = count.bombs + 1]
      /\ batch' = batch /\ exploded' = exploded /\ over' = over /\ gone' = gone
      /\ up' = up
  BY DEF NewBomb, Written
<1>2. /\ os' \in OsType /\ slot' \in MemType /\ t \in Timer
      /\ Len(os'.armed) = Len(os.armed) + 1 /\ os'.ready = os.ready
      /\ Cardinality(OpenFor(os', "timer")) <= count.bombs + 1
      /\ Cardinality(OpenFor(os', "client")) <= Clients
      /\ All(os', batch') = All(os, batch) \cup {t}
      /\ ~reused' => Solid(os', batch', slot') /\ t \notin All(os, batch)
  <2>1. InBounds
    BY DEF NewBomb
  <2> QED BY <1>1, <2>1, ArmedInv
<1>3. t.room = r
  OBVIOUS
<1> HIDE DEF t, mem
<1>4. /\ count.bombs \in Nat /\ count.bombs < MaxBombs /\ count.expired \in Nat
      /\ count.exploded \in Nat /\ count.expired <= MaxBombs
      /\ count.exploded <= MaxBombs
      /\ count'.bombs = count.bombs + 1 /\ count'.expired = count.expired
      /\ count'.exploded = count.exploded
      /\ count' = [bombs |-> count'.bombs, expired |-> count'.expired,
                   exploded |-> count'.exploded]
  <2>1. /\ count \in [bombs : 0 .. MaxBombs, expired : 0 .. MaxBombs,
                      exploded : 0 .. MaxBombs]
        /\ count.bombs < MaxBombs
    BY DEF Inv, TypeOK, NewBomb, InBounds
  <2> QED BY <1>1, <2>1, FusesAssumption
<1>5. \A q \in Rooms : /\ bombs[q] \in Nat /\ exploded[q] \in Nat
                       /\ bombs'[q] = IF q = r THEN bombs[q] + 1 ELSE bombs[q]
                       /\ bombs[q] + exploded[q] <= count.bombs
  BY <1>1 DEF Inv, TypeOK, Counted
<1>6. Counted'
  <2>1. \A q \in Rooms : bombs'[q] + exploded'[q] <= count'.bombs
    BY <1>1, <1>4, <1>5
  <2>2. Len(os.armed) \in Nat /\ Len(os.ready) \in Nat /\ Len(batch) \in Nat
    BY DEF Inv, TypeOK
  <2>3. /\ count.exploded + Len(os.ready) + Len(batch) <= count.expired
        /\ count.expired + Len(os.armed) <= count.bombs
    BY DEF Inv, Counted
  <2>4. Len(os'.armed) = Len(os.armed) + 1 /\ Len(os'.ready) = Len(os.ready)
    BY <1>2
  <2>5. /\ count'.exploded + Len(os'.ready) + Len(batch) <= count'.expired
        /\ count'.expired + Len(os'.armed) <= count'.bombs
    BY <1>4, <2>2, <2>3, <2>4
  <2> QED BY <1>1, <2>1, <2>5 DEF Counted
<1>7. TypeOK'
  <2>1. count' \in [bombs : 0 .. MaxBombs, expired : 0 .. MaxBombs,
                    exploded : 0 .. MaxBombs]
    <3>1. /\ count'.bombs \in 0 .. MaxBombs /\ count'.expired \in 0 .. MaxBombs
          /\ count'.exploded \in 0 .. MaxBombs
      BY <1>4, FusesAssumption
    <3> QED BY <1>4, <3>1
  <2>2. bombs' \in [Rooms -> 0 .. MaxBombs]
    <3>1. bombs[r] + 1 \in 0 .. MaxBombs
      BY <1>4, <1>5, FusesAssumption
    <3> QED BY <1>1, <3>1 DEF Inv, TypeOK
  <2> QED BY <1>1, <1>2, <2>1, <2>2 DEF Inv, TypeOK, OsType, MemType
<1>8. FdsLeft'
  BY <1>2, <1>4 DEF FdsLeft
<1>9. ASSUME ~reused' PROVE Sound'
  <2>1. Solid(os', batch', slot') /\ t \notin All(os, batch)
        /\ Lit(All(os, batch), bombs, over)
    BY <1>1, <1>2, <1>9 DEF Inv, Sound
  <2>2. IsFiniteSet(All(os, batch))
    BY AllIsPending DEF Inv
  <2>3. ASSUME NEW q \in Rooms \ over
        PROVE  bombs'[q] <= Cardinality(MadeFor(All(os', batch'), q))
    <3> DEFINE A == All(os, batch)
    <3>1. /\ Cardinality(MadeFor(A, q)) \in Nat
          /\ t \notin A /\ t.room = q =>
                Cardinality(MadeFor(A \cup {t}, q)) = Cardinality(MadeFor(A, q)) + 1
          /\ t.room # q => MadeFor(A \cup {t}, q) = MadeFor(A, q)
      <4>1. IsFiniteSet(A)
        BY <2>2
      <4> HIDE DEF A
      <4>2. Cardinality(MadeFor(A, q)) \in Nat
        BY <4>1, RoomCount
      <4>3. t.room # q => MadeFor(A \cup {t}, q) = MadeFor(A, q)
        BY <4>1, RoomCount
      <4>4. t \notin A /\ t.room = q =>
              Cardinality(MadeFor(A \cup {t}, q)) = Cardinality(MadeFor(A, q)) + 1
        BY <4>1, RoomCount
      <4> QED BY <4>2, <4>3, <4>4
    <3>2. bombs[q] <= Cardinality(MadeFor(A, q))
      BY <2>1 DEF Lit
    <3>3. bombs'[q] <= Cardinality(MadeFor(A \cup {t}, q))
      BY <1>3, <1>5, <2>1, <3>1, <3>2
    <3> QED BY <1>2, <3>3
  <2> QED BY <1>1, <2>1, <2>3 DEF Sound, Lit
<1> QED BY <1>6, <1>7, <1>8, <1>9 DEF Inv

\* PLACE_BOMB makes one.
LEMMA PlaceBombOk == ASSUME Inv, NEW r \in Rooms, PlaceBomb(r) PROVE Inv'
<1>1. NewBomb(r, "runRooms") /\ "runRooms" \in Slots
  BY DEF PlaceBomb, NewBomb, Slots
<1> QED BY <1>1, NewBombOk

\* So does a player who leaves.
LEMMA LeaveBombOk == ASSUME Inv, NEW r \in Rooms, LeaveBomb(r) PROVE Inv'
<1>1. NewBomb(r, "postOfRooms") /\ "postOfRooms" \in Slots
  BY DEF LeaveBomb, NewBomb, Slots
<1> QED BY <1>1, NewBombOk

\* The event at the head of the batch, for the room r that is found in its
\* memory; o is the kernel when its descriptor is closed.
LEMMA FireOk == ASSUME Inv, NEW k \in 0 .. 1, Fire(k) PROVE Inv'
<1> DEFINE t == Head(batch)
           r == slot[t.at].room
           n == Pops(r)
           o == IF k = 1 THEN Armed(os, r, "postOfBombs") ELSE os
<1>1. /\ batch # <<>> /\ slot[t.at] # Garbage
      /\ k = 1 => r \notin over /\ InBounds
      /\ bombs' = [bombs EXCEPT ![r] = bombs[r] - n + k]
      /\ exploded' = [exploded EXCEPT ![r] = exploded[r] + n]
      /\ count' = [count EXCEPT !.bombs = count.bombs + k,
                                !.exploded = count.exploded + n]
      /\ k = 1 => Written("postOfBombs", r)
      /\ k # 1 => slot' = slot /\ reused' = reused
      /\ os' = Closed(o, slot'[t.at].fd)
      /\ batch' = Tail(batch) /\ over' = over /\ gone' = gone /\ up' = up
  BY DEF Fire, Inv, TypeOK
<1>2. /\ t \in Timer /\ Tail(batch) \in Seq(Timer) /\ Len(Tail(batch)) = Len(batch) - 1
      /\ batch \in Seq(Timer) /\ Len(batch) \in Nat
  <2>1. batch \in Seq(Timer)
    BY DEF Inv, TypeOK
  <2> QED BY <1>1, <2>1, TailFacts
<1>3. t.at \in Slots /\ slot[t.at] \in [fd : Fds, room : Rooms] /\ r \in Rooms
  <2>1. t.at \in Slots
    BY <1>2 DEF Timer
  <2>2. slot[t.at] \in [fd : Fds, room : Rooms]
    BY <1>1, <2>1 DEF Inv, TypeOK
  <2> QED BY <2>1, <2>2
<1>4. /\ n \in 0 .. 1 /\ (n = 1 => bombs[r] > 0)
      /\ r \notin over /\ bombs[r] > 0 => n = 1
  BY DEF Pops
<1>5. k \in Nat /\ (k = 0 \/ k = 1)
  OBVIOUS
<1>6. /\ o \in OsType /\ slot' \in MemType /\ reused' \in BOOLEAN
      /\ Len(o.armed) = Len(os.armed) + k /\ o.ready = os.ready
      /\ Cardinality(OpenFor(o, "timer")) <= count.bombs + k
      /\ Cardinality(OpenFor(o, "client")) <= Clients
  <2>1. CASE k = 1
    <3> DEFINE mem == [slot EXCEPT !["postOfBombs"] = [fd |-> NewFd(os.open), room |-> r]]
    <3>1. slot' = mem /\ reused' \in BOOLEAN
      BY <1>1, <2>1 DEF Written, Inv, TypeOK
    <3>2. InBounds /\ "postOfBombs" \in Slots
      BY <1>1, <2>1 DEF Slots
    <3>3. /\ Armed(os, r, "postOfBombs") \in OsType /\ mem \in MemType
          /\ Len(Armed(os, r, "postOfBombs").armed) = Len(os.armed) + 1
          /\ Armed(os, r, "postOfBombs").ready = os.ready
          /\ Cardinality(OpenFor(Armed(os, r, "postOfBombs"), "timer")) <= count.bombs + 1
          /\ Cardinality(OpenFor(Armed(os, r, "postOfBombs"), "client")) <= Clients
      BY <1>3, <3>2, ArmedInv
    <3> QED BY <2>1, <3>1, <3>3
  <2>2. CASE k = 0
    <3>1. os \in OsType /\ slot \in MemType /\ count.bombs \in Nat
          /\ Len(os.armed) \in Nat /\ reused \in BOOLEAN
      BY DEF Inv, TypeOK, OsType, MemType
    <3> QED BY <1>1, <2>2, <3>1 DEF Inv, FdsLeft
  <2> QED BY <1>5, <2>1, <2>2
<1> HIDE DEF t, r, n, o
<1>7. /\ os' \in OsType
      /\ Len(os'.armed) <= Len(o.armed) /\ Len(os'.ready) <= Len(o.ready)
      /\ \A w \in {"timer", "client"} :
            /\ Cardinality(OpenFor(os', w)) \in Nat
            /\ Cardinality(OpenFor(o, w)) \in Nat
            /\ Cardinality(OpenFor(os', w)) <= Cardinality(OpenFor(o, w))
  BY <1>1, <1>6, ClosedFacts
<1>8. /\ count.bombs \in Nat /\ count.expired \in Nat /\ count.exploded \in Nat
      /\ count.bombs + k <= MaxBombs /\ count.expired <= MaxBombs
      /\ count'.bombs = count.bombs + k /\ count'.expired = count.expired
      /\ count'.exploded = count.exploded + n
      /\ count' = [bombs |-> count'.bombs, expired |-> count'.expired,
                   exploded |-> count'.exploded]
  <2>1. count \in [bombs : 0 .. MaxBombs, expired : 0 .. MaxBombs,
                   exploded : 0 .. MaxBombs]
        /\ (k = 1 => count.bombs < MaxBombs)
    BY <1>1 DEF Inv, TypeOK, InBounds
  <2>2. /\ count' = [count EXCEPT !.bombs = count.bombs + k,
                                  !.exploded = count.exploded + n]
    BY <1>1
  <2>3. /\ count'.bombs = count.bombs + k /\ count'.expired = count.expired
        /\ count'.exploded = count.exploded + n
        /\ count' = [bombs |-> count'.bombs, expired |-> count'.expired,
                     exploded |-> count'.exploded]
    BY <2>1, <2>2
  <2>4. count.bombs \in 0 .. MaxBombs /\ count.expired \in 0 .. MaxBombs
        /\ count.exploded \in 0 .. MaxBombs
    BY <2>1
  <2> QED BY <1>5, <2>1, <2>3, <2>4, FusesAssumption
<1>9. \A q \in Rooms :
         /\ bombs[q] \in Nat /\ exploded[q] \in Nat
         /\ bombs[q] + exploded[q] <= count.bombs
         /\ bombs'[q] = IF q = r THEN bombs[q] - n + k ELSE bombs[q]
         /\ exploded'[q] = IF q = r THEN exploded[q] + n ELSE exploded[q]
  <2>1. /\ bombs \in [Rooms -> 0 .. MaxBombs] /\ exploded \in [Rooms -> 0 .. MaxBombs]
        /\ \A q \in Rooms : bombs[q] + exploded[q] <= count.bombs
    BY DEF Inv, TypeOK, Counted
  <2>2. \A i \in 0 .. MaxBombs : i \in Nat
    OBVIOUS
  <2>3. \A q \in Rooms : bombs[q] \in Nat /\ exploded[q] \in Nat
    BY <2>1, <2>2
  <2>4. \A q \in Rooms :
           /\ bombs'[q] = IF q = r THEN bombs[q] - n + k ELSE bombs[q]
           /\ exploded'[q] = IF q = r THEN exploded[q] + n ELSE exploded[q]
    BY <1>1, <1>3, <2>1
  <2> QED BY <2>1, <2>3, <2>4
<1>10. Counted'
  <2>1. \A q \in Rooms : bombs'[q] + exploded'[q] <= count'.bombs
    BY <1>4, <1>5, <1>8, <1>9
  <2>2. /\ Len(os.armed) \in Nat /\ Len(os.ready) \in Nat /\ Len(os'.armed) \in Nat
        /\ Len(os'.ready) \in Nat
        /\ count.exploded + Len(os.ready) + Len(batch) <= count.expired
        /\ count.expired + Len(os.armed) <= count.bombs
    <3>1. os \in OsType /\ os' \in OsType
      BY <1>7 DEF Inv, TypeOK, OsType
    <3>2. /\ Len(os.armed) \in Nat /\ Len(os.ready) \in Nat
          /\ Len(os'.armed) \in Nat /\ Len(os'.ready) \in Nat
      BY <3>1 DEF OsType
    <3> QED BY <3>2 DEF Inv, Counted
  <2>3. /\ Len(os'.armed) <= Len(os.armed) + k /\ Len(os'.ready) <= Len(os.ready)
        /\ Len(batch') = Len(batch) - 1
    BY <1>1, <1>2, <1>6, <1>7
  <2>4. /\ count'.exploded + Len(os'.ready) + Len(batch') <= count'.expired
        /\ count'.expired + Len(os'.armed) <= count'.bombs
    <3>1. /\ Len(batch) \in Nat /\ n \in Nat /\ n <= 1 /\ k \in Nat
          /\ count.bombs \in Nat /\ count.expired \in Nat /\ count.exploded \in Nat
      BY <1>2, <1>4, <1>5, <1>8
    <3>2. /\ (count.exploded + n) + Len(os'.ready) + (Len(batch) - 1) <= count.expired
          /\ count.expired + Len(os'.armed) <= count.bombs + k
      <4>1. /\ Len(os.armed) \in Nat /\ Len(os.ready) \in Nat
            /\ Len(os'.armed) \in Nat /\ Len(os'.ready) \in Nat
            /\ count.exploded + Len(os.ready) + Len(batch) <= count.expired
            /\ count.expired + Len(os.armed) <= count.bombs
            /\ Len(os'.armed) <= Len(os.armed) + k /\ Len(os'.ready) <= Len(os.ready)
        BY <2>2, <2>3
      <4>2. \A a, b, c, d, e \in Nat :
              a + b + c <= d /\ e <= b => (a + n) + e + (c - 1) <= d
        BY <1>4
      <4>3. \A a, b, c, d \in Nat : a + b <= c /\ d <= b + k => a + d <= c + k
        BY <1>5
      <4> QED BY <3>1, <4>1, <4>2, <4>3
    <3> QED BY <1>8, <2>3, <3>2
  <2> QED BY <2>1, <2>4 DEF Counted
<1>11. TypeOK'
  <2>1. count' \in [bombs : 0 .. MaxBombs, expired : 0 .. MaxBombs,
                    exploded : 0 .. MaxBombs]
    <3>1. count.exploded + n <= count.expired
      <4>1. Len(os.ready) \in Nat /\ Len(batch) >= 1
            /\ count.exploded + Len(os.ready) + Len(batch) <= count.expired
        BY <1>1, <1>2 DEF Inv, TypeOK, Counted
      <4> QED BY <1>2, <1>4, <1>8, <4>1
    <3>2. /\ count'.bombs \in 0 .. MaxBombs /\ count'.expired \in 0 .. MaxBombs
          /\ count'.exploded \in 0 .. MaxBombs
      BY <1>4, <1>5, <1>8, <3>1, FusesAssumption
    <3> QED BY <1>8, <3>2
  <2>2. bombs' \in [Rooms -> 0 .. MaxBombs] /\ exploded' \in [Rooms -> 0 .. MaxBombs]
    <3>1. bombs[r] - n + k \in 0 .. MaxBombs /\ exploded[r] + n \in 0 .. MaxBombs
      BY <1>3, <1>4, <1>5, <1>8, <1>9, FusesAssumption
    <3> QED BY <1>1, <3>1 DEF Inv, TypeOK
  <2> QED BY <1>1, <1>2, <1>6, <1>7, <2>1, <2>2 DEF Inv, TypeOK, OsType, MemType
<1>12. FdsLeft'
  <2>1. /\ Cardinality(OpenFor(os', "timer")) <= count.bombs + k
        /\ Cardinality(OpenFor(os', "client")) <= Clients
    <3> DEFINE a == Cardinality(OpenFor(o, "timer"))
               aa == Cardinality(OpenFor(os', "timer"))
               c == Cardinality(OpenFor(o, "client"))
               cc == Cardinality(OpenFor(os', "client"))
               m == count.bombs
    <3>1. a \in Nat /\ aa \in Nat /\ c \in Nat /\ cc \in Nat /\ aa <= a /\ cc <= c
      BY <1>7
    <3>2. m \in Nat /\ m + k \in Nat /\ Clients \in Nat
      BY <1>5, <1>8, FusesAssumption
    <3>3. a <= m + k /\ c <= Clients
      BY <1>6
    <3> HIDE DEF a, aa, c, cc, m
    <3>4. aa <= m + k /\ cc <= Clients
      BY <3>1, <3>2, <3>3
    <3> QED BY <3>4 DEF aa, cc, m
  <2> QED BY <1>8, <2>1 DEF FdsLeft
<1>13. ASSUME ~reused' PROVE Sound'
  <2>1. /\ ~reused /\ Sound /\ (k = 1 => ~(\E u \in ToSet(Pending) : u.at = "postOfBombs"))
    <3>1. ~reused /\ (k = 1 => ~(\E u \in ToSet(Pending) : u.at = "postOfBombs"))
      <4>1. CASE k = 1
        <5>1. reused' = (reused \/ \E u \in ToSet(Pending) : u.at = "postOfBombs")
          BY <1>1, <4>1, Zenon DEF Written
        <5> QED BY <1>13, <5>1, Zenon
      <4>2. CASE k # 1
        <5>1. reused' = reused
          BY <1>1, <4>2
        <5> QED BY <1>13, <4>2, <5>1, Zenon
      <4> QED BY <4>1, <4>2
    <3> QED BY <3>1 DEF Inv
  <2>2. /\ IsFiniteSet(All(os, batch)) /\ All(os, batch) \in SUBSET Timer
        /\ t \in All(os, batch) /\ ToSet(Pending) = All(os, batch)
    <3>1. t \in ToSet(batch)
      BY <1>1, <1>2, TailFacts DEF t
    <3> QED BY <3>1, AllIsPending DEF Inv, All
  <2>3. r = t.room /\ slot[t.at].fd = t.fd
    <3>1. slot[t.at] = [fd |-> t.fd, room |-> t.room]
      BY <1>1, <2>1, <2>2 DEF Sound, Solid, Owns
    <3> QED BY <3>1 DEF r
  <2>4. PICK new :
           /\ All(o, batch) = IF k = 1 THEN All(os, batch) \cup {new} ELSE All(os, batch)
           /\ k = 1 => new \notin All(os, batch) /\ new.room = r /\ new \in Timer
           /\ Solid(o, batch, slot') /\ slot'[t.at] = slot[t.at]
    <3>1. CASE k = 1
      <4> DEFINE b == [fd |-> NewFd(os.open), at |-> "postOfBombs", room |-> r]
                 mem == [slot EXCEPT !["postOfBombs"] = [fd |-> NewFd(os.open), room |-> r]]
      <4>1. slot' = mem
        BY <1>1, <3>1 DEF Written
      <4>2. o = Armed(os, r, "postOfBombs") /\ InBounds /\ "postOfBombs" \in Slots
        BY <1>1, <3>1 DEF o, r, t, Slots
      <4>3. /\ All(o, batch) = All(os, batch) \cup {b} /\ b \in Timer
            /\ Solid(o, batch, mem) /\ b \notin All(os, batch)
        BY <1>3, <2>1, <3>1, <4>2, ArmedInv
      <4>4. t.at # "postOfBombs"
        BY <2>1, <2>2, <3>1
      <4>5. slot'[t.at] = slot[t.at]
        BY <1>3, <4>1, <4>4 DEF Inv, TypeOK
      <4>6. b.room = r
        OBVIOUS
      <4> HIDE DEF b, mem
      <4> QED BY <3>1, <4>1, <4>3, <4>5, <4>6
    <3>2. CASE k = 0
      BY <1>1, <2>1, <3>2 DEF o, Sound
    <3> QED BY <1>5, <3>1, <3>2
  <2>5. /\ Solid(os', batch', slot')
        /\ All(os', batch') = All(o, batch) \ {t} /\ t \in All(o, batch)
    <3>1. os' = Closed(o, t.fd) /\ batch' = Tail(batch) /\ batch # <<>>
      BY <1>1, <2>3, <2>4
    <3>2. All(o, batch) \in SUBSET Timer
      BY <2>2, <2>4
    <3>3. /\ Solid(Closed(o, t.fd), Tail(batch), slot') /\ t \in All(o, batch)
          /\ All(Closed(o, t.fd), Tail(batch)) = All(o, batch) \ {t}
      BY <1>2, <1>6, <2>4, <3>1, <3>2, ClosedSolid DEF t
    <3> QED BY <3>1, <3>3
  <2>6. ASSUME NEW q \in Rooms \ over
        PROVE  bombs'[q] <= Cardinality(MadeFor(All(os', batch'), q))
    <3> DEFINE A == All(os, batch)
               B == All(o, batch)
    <3>1. IsFiniteSet(A) /\ IsFiniteSet(B)
      BY <2>2, <2>4, FS_AddElement
    <3>2. bombs[q] <= Cardinality(MadeFor(A, q))
      BY <2>1 DEF Sound, Lit
    <3>3. B = IF k = 1 THEN A \cup {new} ELSE A
      BY <2>4
    <3>4. t \in A /\ t \in B /\ (k = 1 => new \notin A /\ new.room = r)
      BY <2>2, <2>4, <2>5
    <3> HIDE DEF A, B
    <3>5. Cardinality(MadeFor(A, q)) \in Nat /\ Cardinality(MadeFor(B, q)) \in Nat
      BY <3>1, RoomCount
    <3>6. CASE q = r
      <4>1. Cardinality(MadeFor(B, q)) = Cardinality(MadeFor(A, q)) + k
        <5>1. k = 1 => Cardinality(MadeFor(A \cup {new}, q))
                       = Cardinality(MadeFor(A, q)) + 1
          BY <3>1, <3>4, <3>6, RoomCount
        <5> QED BY <1>5, <3>3, <3>5, <5>1
      <4>2. /\ Cardinality(MadeFor(A, q)) >= 1
            /\ Cardinality(MadeFor(B \ {t}, q)) = Cardinality(MadeFor(B, q)) - 1
        <5>1. t.room = q
          BY <2>3, <3>6
        <5>2. Cardinality(MadeFor(A, q)) >= 1
          BY <3>1, <3>4, <5>1, RoomCount
        <5>3. Cardinality(MadeFor(B \ {t}, q)) = Cardinality(MadeFor(B, q)) - 1
          BY <3>1, <3>4, <5>1, RoomCount
        <5> QED BY <5>2, <5>3
      <4>3. bombs'[q] = bombs[q] - n + k /\ bombs[q] \in Nat
            /\ (n = 1 \/ (n = 0 /\ bombs[q] = 0))
        <5>1. bombs'[q] = bombs[q] - n + k /\ bombs[q] \in Nat
          BY <1>9, <3>6
        <5>2. n = 1 \/ n = 0
          BY <1>4
        <5>3. bombs[q] > 0 => n = 1
          BY <1>4, <3>1, <3>6
        <5> QED BY <5>1, <5>2, <5>3
      <4>4. bombs'[q] <= Cardinality(MadeFor(B \ {t}, q))
        BY <1>5, <3>2, <3>5, <4>1, <4>2, <4>3
      <4> QED BY <2>5, <4>4 DEF B
    <3>7. CASE q # r
      <4>1. k = 1 => MadeFor(A \cup {new}, q) = MadeFor(A, q)
        BY <3>1, <3>4, <3>7, RoomCount
      <4>2. MadeFor(B \ {t}, q) = MadeFor(B, q)
        BY <2>3, <3>1, <3>7, RoomCount
      <4>3. MadeFor(B \ {t}, q) = MadeFor(A, q)
        BY <3>3, <4>1, <4>2
      <4>4. bombs'[q] = bombs[q]
        BY <1>9, <3>7
      <4> QED BY <2>5, <3>2, <4>3, <4>4 DEF B
    <3> QED BY <3>6, <3>7
  <2> QED BY <1>1, <2>5, <2>6 DEF Sound, Lit
<1> QED BY <1>10, <1>11, <1>12, <1>13 DEF Inv

-----------------------------------------------------------------------------
(* The theorems.                                                           *)

\* Inv holds in every state of every behaviour, for any number of rooms,
\* clients, bombs and timers.
THEOREM Invariance == Spec => []Inv
<1>1. Init => Inv
  BY InitOk
<1>2. Inv /\ [Next]_vars => Inv'
  <2> SUFFICES ASSUME Inv, [Next]_vars PROVE Inv'
    OBVIOUS
  <2>1. CASE Expire
    BY <2>1, ExpireOk
  <2>2. CASE \E r \in Rooms : PlaceBomb(r) \/ LeaveBomb(r) \/ EndRoom(r)
    BY <2>2, PlaceBombOk, LeaveBombOk, EndRoomOk
  <2>3. CASE \E s \in Slots : Clobber(s)
    BY <2>3, ClobberOk
  <2>4. CASE DestroyRooms
    BY <2>4, DestroyRoomsOk
  <2>5. CASE Accept
    BY <2>5, AcceptOk
  <2>6. CASE \E f \in Fds : CloseClient(f)
    BY <2>6, CloseClientOk
  <2>7. CASE EpollWait
    BY <2>7, EpollWaitOk
  <2>8. CASE \E k \in 0 .. 1 : Fire(k)
    BY <2>8, FireOk
  <2>9. CASE FireAtNothing
    BY <2>9, FireAtNothingOk
  <2>10. CASE UNCHANGED vars
    BY <2>10, StutterOk
  <2>11. CASE SendHangs
    BY <2>11, SendHangsOk
  <2> QED BY <2>1, <2>2, <2>3, <2>4, <2>5, <2>6, <2>7, <2>8, <2>9, <2>10, <2>11 DEF Next
<1> QED BY <1>1, <1>2, PTL DEF Spec

\* Every value the threads and the kernel keep has its type; in particular a
\* descriptor is free whenever a client or a timer needs one.
THEOREM Typing == Spec => []TypeOK
<1>1. Inv => TypeOK
  BY DEF Inv
<1> QED BY <1>1, Invariance, PTL

\* However stale the addresses of the epoll entries are, no timer makes more
\* than one bomb explode.
THEOREM OneBombPerTimerAlways == Spec => []OneBombPerTimer
<1>1. Inv => OneBombPerTimer
  <2> SUFFICES ASSUME Inv PROVE OneBombPerTimer
    OBVIOUS
  <2>1. /\ Len(os.ready) \in Nat /\ Len(batch) \in Nat
        /\ count.exploded \in Nat /\ count.expired \in Nat
    BY DEF Inv, TypeOK
  <2>2. count.exploded + Len(os.ready) + Len(batch) <= count.expired
    BY DEF Inv, Counted
  <2> QED BY <2>1, <2>2 DEF OneBombPerTimer
<1> QED BY <1>1, Invariance, PTL

\* Until memory is reused, the open timers are those that are pending.
THEOREM NoTimerLeakAlways == Spec => []NoTimerLeak
<1>1. Inv => NoTimerLeak
  BY AllIsPending DEF Inv, Sound, Solid, OpenFor, NoTimerLeak
<1> QED BY <1>1, Invariance, PTL

\* Until memory is reused, every bomb of a match that runs has a timer.
THEOREM BombHasTimerAlways == Spec => []BombHasTimer
<1>1. Inv => BombHasTimer
  <2> SUFFICES ASSUME Inv, ~reused, NEW r \in Rooms \ over
               PROVE  bombs[r] <= Cardinality({i \in 1 .. Len(Pending) : Pending[i].room = r})
    BY DEF BombHasTimer
  <2> DEFINE I == {i \in 1 .. Len(Pending) : Pending[i].room = r}
  <2>1. Pending \in Seq(Timer) /\ ToSet(Pending) = All(os, batch)
    BY AllIsPending DEF Inv
  <2>2. bombs[r] <= Cardinality(MadeFor(All(os, batch), r)) /\ bombs[r] \in Nat
    BY DEF Inv, Sound, Lit, TypeOK
  <2>3. {Pending[i] : i \in I} = MadeFor(All(os, batch), r)
    <3>1. ToSet(Pending) = {Pending[i] : i \in 1 .. Len(Pending)}
      BY <2>1 DEF ToSet
    <3> QED BY <2>1, <3>1 DEF MadeFor
  <2>4. I \in SUBSET (1 .. Len(Pending)) /\ IsFiniteSet(I)
    <3>1. I \in SUBSET (1 .. Len(Pending)) /\ Len(Pending) \in Int
      BY <2>1
    <3>2. IsFiniteSet(1 .. Len(Pending))
      BY <3>1, FS_Interval
    <3> HIDE DEF I
    <3> QED BY <3>1, <3>2, FS_Subset
  <2> HIDE DEF I
  <2>5. /\ IsFiniteSet({Pending[i] : i \in I})
        /\ Cardinality({Pending[i] : i \in I}) <= Cardinality(I)
    BY <2>1, <2>4, FiniteElements
  <2>6. Cardinality({Pending[i] : i \in I}) \in Nat /\ Cardinality(I) \in Nat
    BY <2>4, <2>5, FS_CardinalityType
  <2>7. bombs[r] <= Cardinality(I)
    BY <2>2, <2>3, <2>5, <2>6
  <2> QED BY <2>7 DEF I
<1> QED BY <1>1, Invariance, PTL

=============================================================================
