-------------------------- MODULE MCRegioCacheList --------------------------
(* An address space with room for three regions.  Every byte written is the *)
(* same and differs from the fill of a fresh buffer.                        *)
EXTENDS RegioCacheList

MCByte == {0, 1}
MCWritten == {1}
MCAddrs == (-1) .. AddrSpace
MCSizes == 0 .. 3
=============================================================================
