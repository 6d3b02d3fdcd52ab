------------------------------- MODULE MCRoom -------------------------------
(* Room with a finite set of usernames.                                    *)
EXTENDS Room
=============================================================================
