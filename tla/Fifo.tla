-------------------------------- MODULE Fifo --------------------------------
(***************************************************************************)
(* What a Connection promises to the caller of Receive: the messages that  *)
(* were sent, numbered from 1, whole, in order, and each of them once.     *)
(***************************************************************************)
EXTENDS Naturals, Sequences

VARIABLES sent,   \* how many messages have been sent
          got     \* the messages that were received

vars == <<sent, got>>

Init == sent = 0 /\ got = <<>>

Put == sent' = sent + 1 /\ UNCHANGED got

Get == /\ Len(got) < sent
       /\ got' = Append(got, Len(got) + 1)
       /\ UNCHANGED sent

Spec == Init /\ [][Put \/ Get]_vars
=============================================================================
