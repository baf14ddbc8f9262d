--------------------------- MODULE RegioCacheSpace ---------------------------
(***************************************************************************)
(* What RegioCache and RegioCacheList have in common: the bytes, the       *)
(* address space, and what callers ask for.                                *)
(***************************************************************************)
EXTENDS Integers

CONSTANTS
  AddrSpace,  \* UINT32_MAX + 1
  Byte,       \* byte values
  Zero,       \* the byte a fresh bytearray is filled with
  Hole,       \* an address no region holds
  Bad,        \* the abstract image of an unreadable file
  Addrs,      \* addresses callers pass, valid or not
  Sizes       \* sizes callers pass

ASSUME AddrSpaceAssumption == AddrSpace \in Nat \ {0}
ASSUME ByteAssumption == Zero \in Byte /\ Hole \notin Byte
\* A ValueError is none of the answers a read can give.
ASSUME HoleAssumption == \A a \in 0 .. AddrSpace, n \in Sizes : Hole \notin [a .. (a + n - 1) -> Byte]
ASSUME BadAssumption == Bad \notin [0 .. (AddrSpace - 1) -> Byte \cup {Hole}]
ASSUME InputAssumption == Addrs \subseteq Int /\ Sizes \subseteq Nat

Addr == 0 .. (AddrSpace - 1)

\* Mutant: the last address is let through one too far.
ValidAddrSize_OneTooFar(a, n) == a >= 0 /\ n >= 0 /\ a < AddrSpace /\ a + n <= AddrSpace + 1

\* _validate_addr_size
ValidAddrSize(a, n) == a >= 0 /\ n >= 0 /\ a < AddrSpace /\ a + n <= AddrSpace
=============================================================================
