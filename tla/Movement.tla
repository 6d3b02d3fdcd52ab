------------------------------ MODULE Movement ------------------------------
(***************************************************************************)
(* The server's check of a move (Player::MoveCheckSus).                    *)
(*                                                                         *)
(* A player has coords, a counter of steps that nothing initialises, and   *)
(* the last recorded moves.  The counter is kept below 2 * History + 1: from *)
(* History + 1 on only its remainder by History matters; it may start below *)
(* 0.  (A counter that starts near the largest int overflows: left out.)   *)
(* Time is left open: any recorded move may turn out to be too recent, but *)
(* one that was never recorded carries time 0 and is not.                  *)
(***************************************************************************)
EXTENDS Integers

CONSTANTS Squares,   \* the squares of the map
          History    \* length of moveHistory, at least 2

\* An entry of moveHistory that was never written.
Unrecorded == <<0, 0>>

\* The values of the counter.
StepCounts == {n \in Int : n <= 2 * History}

Walker == [coords  : Squares,
           step    : StepCounts,
           history : [0 .. History - 1 -> Squares \cup {Unrecorded}]]

NewWalker(s, garbage) ==
    [coords |-> s, step |-> garbage,
     history |-> [i \in 0 .. History - 1 |-> Unrecorded]]

Stepped(n) == IF n = 2 * History THEN History + 1 ELSE n + 1

Diagonal(s, t) == s[1] # t[1] /\ s[2] # t[2]

\* The entry written History - 1 moves ago.
Oldest(n) == (n + 1) % History

\* Faulty: the time of an entry that was never written is taken at its word.
TooFastIfAny(w, n) == n > History

\* The move may be too fast: the oldest entry may be too recent.
MayBeTooFast(w, n) == n > History /\ w.history[Oldest(n)] # Unrecorded

\* The move to s is made; only a player past History moves is recorded.
Walked(w, s, n) ==
    [coords |-> s, step |-> n,
     history |-> IF n > History THEN [w.history EXCEPT ![n % History] = s]
                                ELSE w.history]

\* What the server may make of a move to s, with where it sends the player
\* back to, if it does.  A player thrown back in time keeps his coords.
MoveCheckSus(w, s) ==
    LET n == Stepped(w.step)
    IN  IF Diagonal(w.coords, s)
        THEN {[walker |-> w, back |-> {w.coords}]}
        ELSE {[walker |-> Walked(w, s, n), back |-> {}]} \cup
             IF MayBeTooFast(w, n)
             THEN {[walker |-> [w EXCEPT !.step = 0],
                    back |-> {w.history[Oldest(n)]}]}
             ELSE {}
=============================================================================
