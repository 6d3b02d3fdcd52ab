------------------------------ MODULE MCFrames ------------------------------
(* Frames with short messages and a buffer that holds two or three.        *)
EXTENDS Frames
=============================================================================
