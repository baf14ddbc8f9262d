---------------------------- MODULE MCRegioChunks ---------------------------
(* Two tasks, an MTU of two bytes, starts on and off the boundary. *)
EXTENDS RegioChunks

MCAddr == {0, 1}
MCSize == {0, 1, 3, 4}
=============================================================================
