------------------------------ MODULE RegioMem ------------------------------
(***************************************************************************)
(* What a regio cache promises, without any of its representation: a       *)
(* sparse byte memory over a bounded address space, and a file that holds  *)
(* an image of it.  RegioCache is shown to implement this specification.   *)
(***************************************************************************)
EXTENDS Integers

CONSTANTS
  AddrSpace,  \* number of byte addresses (UINT32_MAX + 1 in the code)
  Byte,       \* the byte values
  Hole,       \* what an address that was never written holds
  Bad,        \* the image of a file that cannot be parsed
  Addrs,      \* the addresses callers ask for, valid or not
  Sizes       \* the sizes callers ask for, valid or not

Addr == 0 .. (AddrSpace - 1)

VARIABLES
  mem,     \* the memory
  img,     \* the memory image in the file, or Bad
  result,  \* how the last operation ended: "ok" or "error"
  wrote    \* the arguments of the write that has just returned, or <<>>

vars == <<mem, img, result, wrote>>

Blank == [x \in Addr |-> Hole]

\* m with the bytes that n defines laid over it.
Overlay(m, n) == [x \in Addr |-> IF n[x] = Hole THEN m[x] ELSE n[x]]

\* m with d written over the addresses a .. a+n-1.
Patch(m, a, n, d) ==
  [x \in Addr |-> IF a <= x /\ x < a + n THEN d[x] ELSE m[x]]

\* The image that holds the bytes of m below c.
Below(m, c) == [x \in Addr |-> IF x < c THEN m[x] ELSE Hole]

\* c does not separate two bytes of m that are both written.
RunBoundary(m, c) ==
  \/ c \in {0, AddrSpace}
  \/ m[c - 1] = Hole
  \/ m[c] = Hole

InSpace(a, n) == a >= 0 /\ n >= 0 /\ a < AddrSpace /\ a + n <= AddrSpace

Init == mem = Blank /\ img = Bad /\ result = "ok" /\ wrote = <<>>

Write(a, n) ==
  \/ /\ InSpace(a, n)
     /\ \E d \in [a .. (a + n - 1) -> Byte] :
          mem' = Patch(mem, a, n, d) /\ wrote' = <<a, n, d>>
     /\ result' = "ok"
     /\ UNCHANGED img
  \/ /\ ~InSpace(a, n)
     /\ result' = "error"
     /\ wrote' = <<>>
     /\ UNCHANGED <<mem, img>>

Clear == mem' = Blank /\ result' = "ok" /\ wrote' = <<>> /\ UNCHANGED img

Save == img' = mem /\ result' = "ok" /\ wrote' = <<>> /\ UNCHANGED mem

\* The process dies while it saves: the file is unreadable, or holds the
\* image up to the end of a run of written bytes; the memory is lost.
CrashInSave ==
  /\ \/ img' = Bad
     \/ \E c \in 0 .. AddrSpace : RunBoundary(mem, c) /\ img' = Below(mem, c)
  /\ mem' = Blank
  /\ result' = "ok"
  /\ wrote' = <<>>

Load(replace) ==
  \/ /\ img = Bad
     /\ result' = "error"
     /\ wrote' = <<>>
     /\ UNCHANGED <<mem, img>>
  \/ /\ img # Bad
     /\ mem' = IF replace THEN img ELSE Overlay(mem, img)
     /\ result' = "ok"
     /\ wrote' = <<>>
     /\ UNCHANGED img

Next ==
  \/ \E a \in Addrs, n \in Sizes : Write(a, n)
  \/ Clear
  \/ Save
  \/ CrashInSave
  \/ \E replace \in BOOLEAN : Load(replace)

Spec == Init /\ [][Next]_vars
=============================================================================
