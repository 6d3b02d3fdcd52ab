------------------------------ MODULE MCArena ------------------------------
(* Arena on a small map: a corridor and a side passage that a bomb placed in *)
(* one and an atomic one in the other meet in, an end of the corridor from   *)
(* which they do not, and a corner out of reach.                             *)
EXTENDS Arena, TLC

CONSTANTS mover, watcher, leaver, far

SmallFloor == {<<x, 1>> : x \in 0 .. 4}
                 \cup {<<0, 2>>, <<2, 2>>, <<3, 2>>, <<3, 3>>, <<5, 3>>}
SmallSoft == {<<0, 2>>, <<3, 1>>, <<4, 1>>, <<3, 2>>}
SmallStart == (mover :> <<1, 1>>) @@ (watcher :> <<2, 2>>)
                 @@ (leaver :> <<3, 3>>) @@ (far :> <<5, 3>>)

\* The leaver has the name of somebody who left before the start, whom the
\* mover has on its list and the watcher, who came later, has not.
Namesake == [c \in Clients |->
                [p \in Players |-> IF c = mover /\ p = leaver THEN 1 ELSE 0]]
=============================================================================
