------------------------------- MODULE Match -------------------------------
(***************************************************************************)
(* What a room promises, without messages, bombs or sockets.               *)
(*                                                                         *)
(* Players enter while the room waits; the entry that fills the room       *)
(* starts the match; players leave for good; as soon as fewer than two are *)
(* left the match is over, and an explosion may end it earlier.  A match   *)
(* that is over stays as it is, and it has at most one winner, a member of *)
(* the room at the moment it ended.                                        *)
(***************************************************************************)
EXTENDS Naturals

CONSTANTS Names,       \* usernames a client may choose
          MaxPlayers   \* entries after which the match starts

VARIABLES phase,       \* "waiting", "playing" or "over"
          members,     \* who is in the room
          entered,     \* how many have ever entered it
          winners      \* who was announced as the winner

vars == <<phase, members, entered, winners>>

TypeOK == /\ phase \in {"waiting", "playing", "over"}
          /\ members \subseteq Names
          /\ entered \in 0 .. MaxPlayers
          /\ winners \subseteq Names

Init == /\ phase = "waiting"
        /\ members = {}
        /\ entered = 0
        /\ winners = {}

\* n enters a room that waits; the last free place starts the match.
Enter(n) == /\ phase = "waiting"
            /\ n \notin members
            /\ entered < MaxPlayers
            /\ members' = members \cup {n}
            /\ entered' = entered + 1
            /\ phase' = IF entered' = MaxPlayers THEN "playing" ELSE "waiting"
            /\ UNCHANGED winners

\* Some members leave and at least two stay: the match goes on.
Leave(S) == /\ phase # "over"
            /\ \E m, n \in members \ S : m # n
            /\ members' = members \ S
            /\ UNCHANGED <<phase, entered, winners>>

\* The match ends, with W the winner if there is one.
Finish(W) == /\ phase # "over"
             /\ members # {}
             /\ \A v, w \in W : v = w
             /\ phase' = "over"
             /\ members' = {}
             /\ winners' = W
             /\ UNCHANGED entered

Next == \/ \E n \in Names : Enter(n)
        \/ \E S \in SUBSET members : Leave(S)
        \/ \E W \in SUBSET members : Finish(W)

Spec == Init /\ [][Next]_vars
=============================================================================
