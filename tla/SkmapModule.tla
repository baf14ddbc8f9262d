----------------------------- MODULE SkmapModule -----------------------------
(***************************************************************************)
(* The skmap library on one connection: every Module keeps the bytes of its*)
(* registers in _cache (module.py), every cached external memory a copy of *)
(* its own (external_mem.py), and coroutines read and write the device     *)
(* through one RegioTcpClient, whose lock lets them through one at a time. *)
(*                                                                         *)
(* A register is the set of its bits that are one; a lane of an external   *)
(* memory likewise.  A write changes the cache when it is called and the   *)
(* device when it gets there; a write of a lane changes the cache once more*)
(* when the call returns; a read changes the cache when its reply arrives. *)
(* The client does not wait for a reply to a write.                        *)
(***************************************************************************)
EXTENDS Naturals, Sequences, FiniteSets, Functions

CONSTANTS
  Task,    \* coroutines
  Tree,    \* the modules, a parent before its kids
  Regs,    \* per module, its variable registers in address order
  Lanes,   \* per module, the lanes of its cached external memory
  Acc,     \* per register: "rw", "wt" (writable) or "rc" (set by firmware)
  Bits,    \* per register and lane, its bits
  Asserts, \* per register, the bits that trigger an assert
  Legal,   \* per register, the values its v_check lets through
  MaxEvent,\* bound: bits the firmware sets in rc registers
  MaxFail  \* bound: operations that fail, connections that break

Reg == UNION {Range(Regs[m]) : m \in Range(Tree)}
Lane == UNION {Lanes[m] : m \in Range(Tree)}
Cell == Reg \cup Lane
Value(c) == SUBSET Bits[c]

ASSUME MapAssumption ==
  /\ DOMAIN Regs = Range(Tree) /\ DOMAIN Lanes = Range(Tree)
  /\ Reg \cap Lane = {}
  /\ Acc \in [Reg -> {"rw", "wt", "rc"}]
  /\ DOMAIN Bits = Cell
  /\ \A r \in Reg : Asserts[r] \subseteq Bits[r] /\ Legal[r] \subseteq Value(r)
ASSUME BoundAssumption == MaxEvent \in Nat /\ MaxFail \in Nat

VARIABLES
  dev,     \* what the device holds
  cache,   \* what the software holds: Module._cache and the memories' _cache
  conn,    \* calls of the client's read and write, in the order of its lock
  wire,    \* requests sent and not yet carried out
  events,  \* bits the firmware has set
  fails,   \* failures so far
  stale    \* cells whose cache may differ from the device, and why it may:
           \* a read crossed the write, or the write was lost

libVars == <<dev, cache, conn, wire, events, fails, stale>>

Call(t, op, data) == [task |-> t, op |-> op, data |-> data, at |-> "queued"]

On(c, seq) == {i \in DOMAIN seq : c \in DOMAIN seq[i].data}
Reading(c, seq) == {i \in On(c, seq) : seq[i].op = "read"}
Writing(c, seq) == On(c, seq) \ Reading(c, seq)

(* Module.make_module has read every register, and the memories have been  *)
(* read by read_all.                                                       *)
LibInit ==
  /\ dev = [c \in Cell |-> {}]
  /\ cache = dev
  /\ conn = <<>> /\ wire = <<>>
  /\ events = 0 /\ fails = 0
  /\ stale = {}

-----------------------------------------------------------------------------
(* What a coroutine wants of the device: a step of its program.            *)
(*   read   Module.read_bytes of some cells, in one request                *)
(*   zero   Reg.write_zero                                                 *)
(*   zeroif the body of the loop of Module.clear_assert                    *)
(*   put    Reg.write_uint of a whole value                                *)
(*   flag   RFlag.write_bool, the other flags as the cache has them        *)
(*   lane   ExternalMemVec.write_idx_uint                                  *)

ReadOf(S) == [op |-> "read", cells |-> S]
ZeroOf(r) == [op |-> "zero", cell |-> r]
ZeroIf(r) == [op |-> "zeroif", cell |-> r]
PutOf(r, v) == [op |-> "put", cell |-> r, val |-> v]
FlagOf(r, b, on) == [op |-> "flag", cell |-> r, bit |-> b, on |-> on]
LaneOf(l, v) == [op |-> "lane", cell |-> l, val |-> v]

(* Module.read_all for the registers alone, and with the memories.         *)
ReadAll(m, withMem) ==
  <<ReadOf(Range(Regs[m]))>> \o
  (IF withMem /\ Lanes[m] # {} THEN <<ReadOf(Lanes[m])>> ELSE <<>>)

(* Module.clear_reg_rc: every rc register, whatever the cache has.         *)
ClearRegRc(m) ==
  LET rc == SelectSeq(Regs[m], LAMBDA r : Acc[r] = "rc")
  IN [i \in DOMAIN rc |-> ZeroOf(rc[i])]

(* Module.clear_assert: the rc registers with an assert, of which the      *)
(* triggered ones are written when their turn comes.                       *)
ClearAssert(m) ==
  LET ass == SelectSeq(Regs[m], LAMBDA r : Asserts[r] # {} /\ Acc[r] = "rc")
  IN [i \in DOMAIN ass |-> ZeroIf(ass[i])]

(* RegFlags.ass_check_cached: does the cached value trigger an assert?     *)
Triggered(r, c) == c[r] \cap Asserts[r] # {}

(* Bytes a write step sends, given the cache: RFlag.write_bool_cached reads*)
(* the register from the cache and changes one bit.                        *)
Bytes(s, c) ==
  CASE s.op \in {"zero", "zeroif"} -> {}
    [] s.op \in {"put", "lane"}    -> s.val
    [] s.op = "flag"               -> IF s.on THEN c[s.cell] \cup {s.bit} ELSE c[s.cell] \ {s.bit}

(* Reg.check_value_limit of write_uint_cached raises before anything is    *)
(* cached; a flag is written as bytes and is not checked, nor is a lane.   *)
Raises(s, c) == s.op \in {"zero", "zeroif", "put"} /\ Bytes(s, c) \notin Legal[s.cell]

(* Steps that reach the device, given the cache.                           *)
Acts(s, c) == s.op = "zeroif" => Triggered(s.cell, c)

(* What is left of a program once the steps that do nothing are skipped.   *)
Rest(prog, c) ==
  LET I == {i \in DOMAIN prog : Acts(prog[i], c)}
  IN IF I = {} THEN <<>>
     ELSE SubSeq(prog, CHOOSE i \in I : \A j \in I : i <= j, Len(prog))

(* The call of step s: its request, with the bytes as the cache has them.  *)
CallOf(t, s, c) ==
  IF s.op = "read" THEN Call(t, "read", [x \in s.cells |-> {}])
  ELSE Call(t, "write", [x \in {s.cell} |-> Bytes(s, c)])

(* Mutant: a write leaves the cache alone.                                 *)
CacheAtCall_NotCached(q, c) == c

(* The cache as the call leaves it: Module.write_bytes and                 *)
(* ExternalMemVec.write_idx_bytes cache before they write.                 *)
CacheAtCall(q, c) ==
  [x \in Cell |-> IF q.op = "write" /\ x \in DOMAIN q.data THEN q.data[x] ELSE c[x]]

(* Mutant: what a read returns is not cached.                              *)
CacheAtReturn_ReadNotCached(q, c) ==
  [x \in Cell |-> IF x \in DOMAIN q.data \cap Lane THEN q.data[x] ELSE c[x]]

(* The cache once the call has returned: Module.read_bytes and             *)
(* ExternalMemCached.dev_read and dev_write cache what they have.          *)
CacheAtReturn(q, c) ==
  [x \in Cell |-> IF x \in DOMAIN q.data /\ (q.op = "read" \/ x \in Lane) THEN q.data[x] ELSE c[x]]

(* A register written while a read of it is under way is stale once the    *)
(* reply arrives; a write that no read can cross sets both sides right.    *)
StaleAtCall(q, queue, st) ==
  IF q.op = "read" THEN st
  ELSE {x \in Reg : IF x \in DOMAIN q.data THEN Reading(x, queue) # {} ELSE x \in st}
       \cup (st \cap Lane)

(* A reply sets right what it covers, but for the registers written since. *)
StaleAtReturn(q, queue, st) ==
  IF q.op = "read" THEN {x \in st : x \notin DOMAIN q.data \/ Writing(x, queue) # {}}
  ELSE st \ (DOMAIN q.data \cap Lane)

-----------------------------------------------------------------------------
(* The connection and the device.                                          *)

(* dev_read, once it has the lock: the request goes out.                   *)
SendRead ==
  /\ conn # <<>> /\ Head(conn).op = "read" /\ Head(conn).at = "queued"
  /\ conn' = [conn EXCEPT ![1].at = "sent"]
  /\ wire' = Append(wire, Head(conn))
  /\ UNCHANGED <<dev, cache, events, fails, stale>>

(* The device carries out what is on the wire, in order.                   *)
Serve ==
  /\ wire # <<>>
  /\ wire' = Tail(wire)
  /\ LET q == Head(wire) IN
     IF q.op = "write"
     THEN /\ dev' = [x \in Cell |-> IF x \in DOMAIN q.data THEN q.data[x] ELSE dev[x]]
          /\ UNCHANGED conn
     ELSE /\ conn' = [conn EXCEPT ![1].at = "answered",
                                  ![1].data = [x \in DOMAIN q.data |-> dev[x]]]
          /\ UNCHANGED dev
  /\ UNCHANGED <<cache, events, fails, stale>>

(* The firmware sets a bit of an rc register.                              *)
Event(r, b) ==
  /\ Acc[r] = "rc" /\ events < MaxEvent /\ b \notin dev[r]
  /\ dev' = [dev EXCEPT ![r] = @ \cup {b}]
  /\ events' = events + 1
  /\ UNCHANGED <<cache, conn, wire, fails, stale>>
=============================================================================
