---------------------------- MODULE MCRegioCache ----------------------------
(* RegioCache over a three byte address space. *)
EXTENDS RegioCache

MCByte == {0, 1}
MCAddrs == (-1) .. AddrSpace
MCSizes == 0 .. AddrSpace
=============================================================================
