------------------------------- MODULE Blast -------------------------------
(***************************************************************************)
(* The map and what a bomb does to it (class Map and Bomb::boom).          *)
(*                                                                         *)
(* A square is a pair <<x, y>>.  Floor is every square without a hard wall; *)
(* a map is the set of soft walls that still stand on it.  A bomb is where *)
(* it lies and whether it is atomic.                                       *)
(***************************************************************************)
EXTENDS Integers

CONSTANTS Floor,        \* the squares without a hard wall
          BombReach,    \* explosion of a placed bomb
          AtomicReach   \* explosion of the bomb of a player who left

ASSUME BlastAssumption == /\ Floor \subseteq Nat \X Nat
                          /\ BombReach \in Nat /\ BombReach >= 1
                          /\ AtomicReach \in Nat /\ AtomicReach >= 1

Bomb == [at : Floor, atomic : BOOLEAN]

Reach(b) == IF b.atomic THEN AtomicReach ELSE BombReach

Directions == {<<1, 0>>, <<-1, 0>>, <<0, 1>>, <<0, -1>>}

\* The square k steps from s in direction d.
Ahead(s, d, k) == <<s[1] + k * d[1], s[2] + k * d[2]>>

\* Faulty: the loop runs up to explosion, inclusive.
LongArm(soft, b, d) ==
    LET from[k \in 1 .. Reach(b) + 1] ==
            IF k = Reach(b) + 1 \/ Ahead(b.at, d, k) \notin Floor
            THEN {}
            ELSE {Ahead(b.at, d, k)} \cup
                 IF Ahead(b.at, d, k) \in soft /\ ~b.atomic THEN {} ELSE from[k + 1]
    IN  from[1]

\* What an arm of the blast lights: the loop ends at a hard wall, and after a
\* soft one unless the bomb is atomic.
Arm(soft, b, d) ==
    LET from[k \in 1 .. Reach(b)] ==
            IF k = Reach(b) \/ Ahead(b.at, d, k) \notin Floor
            THEN {}
            ELSE {Ahead(b.at, d, k)} \cup
                 IF Ahead(b.at, d, k) \in soft /\ ~b.atomic THEN {} ELSE from[k + 1]
    IN  from[1]

Arms(soft, b) == UNION {Arm(soft, b, d) : d \in Directions}

\* boom: the tiles it lights ...
Lit(soft, b) == {b.at} \cup Arms(soft, b)

\* ... and the soft walls it leaves; one under the bomb itself is not asked for.
Boomed(soft, b) == soft \ Arms(soft, b)

-----------------------------------------------------------------------------
(* What boom computes, without its loops.                                  *)

\* b reaches s if s lies on an arm, closer than the explosion, with nothing
\* but floor up to it and, for a bomb that is not atomic, nothing soft before.
Reaches(soft, b, s) ==
    \E d \in Directions, k \in 1 .. Reach(b) - 1 :
        /\ s = Ahead(b.at, d, k)
        /\ \A j \in 1 .. k : Ahead(b.at, d, j) \in Floor
        /\ b.atomic \/ \A j \in 1 .. k - 1 : Ahead(b.at, d, j) \notin soft

\* Two bombs meet if some soft wall may fall to either of them: only then does
\* it matter which goes off first.
Meet(a, b, soft) == \E s \in soft : Reaches({}, a, s) /\ Reaches({}, b, s)
=============================================================================
