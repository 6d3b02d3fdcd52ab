------------------------------ MODULE MCFuses ------------------------------
(* Fuses with small sets of rooms.                                         *)
EXTENDS Fuses
=============================================================================
