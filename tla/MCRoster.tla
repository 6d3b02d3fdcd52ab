------------------------------ MODULE MCRoster ------------------------------
(* Roster with numbers for clients and for names.                          *)
EXTENDS Roster, TLC

\* Up to renaming, every way to choose names of which at most two are the same:
\* each client takes the name of one before it or the first that is new.
Sharing == {f \in [Clients -> Names] :
               /\ \A c \in Clients : \A n \in 1 .. f[c] - 1 : \E d \in 1 .. c - 1 : f[d] = n
               /\ \E b \in Clients : \A c, d \in Clients \ {b} : f[c] = f[d] => c = d}
=============================================================================
