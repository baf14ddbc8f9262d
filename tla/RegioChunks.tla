----------------------------- MODULE RegioChunks ----------------------------
(***************************************************************************)
(* Regio.write, Regio.read and the two file transfers of regio.py: every   *)
(* operation is cut into chunks that end on MTU boundaries, each chunk is  *)
(* one operation of the device, and other tasks run between two chunks.    *)
(* Regio::write and Regio::read of the C++ twin (regio.cpp) run the same   *)
(* loop with the boundaries counted from the start of the operation.       *)
(***************************************************************************)
EXTENDS Integers, Sequences

CONSTANTS
  Task,      \* the tasks that share the device, each with one operation
  Mtu,       \* Regio.mtu
  Addr,      \* the addresses operations start at
  Size,      \* the sizes they ask for
  Unsized,   \* the size argument None of write_from_read_file
  Nobody     \* who wrote a byte no operation has written yet

ASSUME MtuAssumption == Mtu \in Nat \ {0}
ASSUME InputAssumption == Addr \subseteq Nat /\ Size \subseteq Nat /\ Unsized \notin Nat
ASSUME NobodyAssumption == Nobody \notin Task

CppKind == {"cwrite", "cread"}   \* Regio::write and Regio::read
Kind == {"write", "read", "fwrite", "fread"} \cup CppKind

VARIABLES
  op,      \* the call of each task: [kind, addr, size, len], len: bytes the source has
  pc,      \* "new", "loop", "dev" (a chunk is at the device), "ok", "failed"
  done,    \* done_size
  chunk,   \* chunk_size
  mem      \* the device: who wrote each byte last

vars == <<op, pc, done, chunk, mem>>

\* The bytes the operations can touch.
Bytes == {a + i : a \in Addr, i \in UNION {0 .. n : n \in Size}}

\* Mutant: the first chunk is not shortened to end on a boundary.
FirstChunk_NoAlign(a) == Mtu

\* first_chunk_size_to_align
FirstChunk(a) == Mtu - (a % Mtu)

\* The chunk the loop is about to issue, for an operation of n bytes.
Clip(c, n, d) == IF c > n - d THEN n - d ELSE c

\* Where the chunk of task t starts.
At(t) == op[t].addr + done[t]

\* Where that is, counted from where the MTU boundaries are counted from.
Off(t) == IF op[t].kind \in CppKind THEN done[t] ELSE At(t)

\* The loop condition: size is None or done_size < size.
Wants(t) == IF op[t].size = Unsized THEN TRUE ELSE done[t] < op[t].size

Writes(t) == op[t].kind \in {"write", "fwrite", "cwrite"}

-----------------------------------------------------------------------------
Init ==
  /\ op = [t \in Task |-> [kind |-> "write", addr |-> 0, size |-> 0, len |-> 0]]
  /\ pc = [t \in Task |-> "new"]
  /\ done = [t \in Task |-> 0]
  /\ chunk = [t \in Task |-> Mtu]
  /\ mem = [x \in Bytes |-> Nobody]

\* The call: done_size = 0 and the first chunk ends on an MTU boundary.  Only
\* write_from_read_file has a source whose length is not the size asked for.
Start(t, k, a, n, len) ==
  /\ pc[t] = "new"
  /\ k \notin CppKind
  /\ k # "fwrite" => n # Unsized /\ len = n
  /\ op' = [op EXCEPT ![t] = [kind |-> k, addr |-> a, size |-> n, len |-> len]]
  /\ pc' = [pc EXCEPT ![t] = "loop"]
  /\ done' = [done EXCEPT ![t] = 0]
  /\ chunk' = [chunk EXCEPT ![t] = FirstChunk(a)]
  /\ UNCHANGED mem

\* The C++ call: the first chunk is a whole MTU, wherever it starts.
StartCpp(t, k, a, n) ==
  /\ pc[t] = "new"
  /\ n > 0
  /\ op' = [op EXCEPT ![t] = [kind |-> k, addr |-> a, size |-> n, len |-> n]]
  /\ pc' = [pc EXCEPT ![t] = "loop"]
  /\ done' = [done EXCEPT ![t] = 0]
  /\ chunk' = [chunk EXCEPT ![t] = Mtu]
  /\ UNCHANGED mem

\* The C++ call with no bytes is handed to the device as it is, and moves none.
EmptyCpp(t, k, a, p) ==
  /\ pc[t] = "new"
  /\ op' = [op EXCEPT ![t] = [kind |-> k, addr |-> a, size |-> 0, len |-> 0]]
  /\ pc' = [pc EXCEPT ![t] = p]
  /\ done' = [done EXCEPT ![t] = 0]
  /\ UNCHANGED <<chunk, mem>>

\* The loop ends because all the bytes asked for are done.
LoopEnd(t) ==
  /\ pc[t] = "loop"
  /\ ~Wants(t)
  /\ pc' = [pc EXCEPT ![t] = "ok"]
  /\ UNCHANGED <<op, done, chunk, mem>>

\* write_from_read_file: the file has no byte left.  With a size given, the
\* assertion after the loop fails.
LoopEof(t) ==
  /\ pc[t] = "loop"
  /\ op[t].kind = "fwrite"
  /\ Wants(t)
  /\ done[t] >= op[t].len
  /\ pc' = [pc EXCEPT ![t] = IF op[t].size = Unsized THEN "ok" ELSE "failed"]
  /\ UNCHANGED <<op, done, chunk, mem>>

\* The next chunk goes to the device.
Issue(t) ==
  /\ pc[t] = "loop"
  /\ Wants(t)
  /\ done[t] < op[t].len
  /\ chunk' = [chunk EXCEPT ![t] = IF op[t].size = Unsized THEN @
                                   ELSE Clip(@, op[t].size, done[t])]
  /\ pc' = [pc EXCEPT ![t] = "dev"]
  /\ UNCHANGED <<op, done, mem>>

\* Mutant: done_size advances by the chunk asked for, not by what the file gave.
Piece_Asked(t) == chunk[t]

\* The bytes of the chunk at the device: a file that runs out gives fewer.
Piece(t) == Clip(chunk[t], op[t].len, done[t])

\* Mutant: done_size is not advanced after a chunk.
DevDone_NoAdvance(t) ==
  /\ pc[t] = "dev"
  /\ chunk' = [chunk EXCEPT ![t] = Mtu]
  /\ pc' = [pc EXCEPT ![t] = "loop"]
  /\ UNCHANGED <<op, done, mem>>

\* The device has carried the chunk out; a file that ran out ends the loop.
DevDone(t) ==
  /\ pc[t] = "dev"
  /\ mem' = [x \in Bytes |-> IF Writes(t) /\ At(t) <= x /\ x < At(t) + Piece(t)
                             THEN t ELSE mem[x]]
  /\ done' = [done EXCEPT ![t] = @ + Piece(t)]
  /\ IF Piece(t) = chunk[t]
     THEN /\ chunk' = [chunk EXCEPT ![t] = Mtu]
          /\ pc' = [pc EXCEPT ![t] = "loop"]
     ELSE /\ UNCHANGED chunk
          /\ pc' = [pc EXCEPT ![t] = IF op[t].size = Unsized THEN "ok" ELSE "failed"]
  /\ UNCHANGED op

\* dev_write or dev_read raises: the operation ends there, chunks already
\* written stay written.
DevFail(t) ==
  /\ pc[t] = "dev"
  /\ pc' = [pc EXCEPT ![t] = "failed"]
  /\ UNCHANGED <<op, done, chunk, mem>>

Step(t) == LoopEnd(t) \/ LoopEof(t) \/ Issue(t) \/ DevDone(t) \/ DevFail(t)

\* Every task has finished.
Finished ==
  /\ \A t \in Task : pc[t] \in {"ok", "failed"}
  /\ UNCHANGED vars

Next ==
  \/ \E t \in Task, k \in Kind, a \in Addr, n \in Size \cup {Unsized}, len \in Size :
       Start(t, k, a, n, len)
  \/ \E t \in Task, k \in CppKind, a \in Addr :
       \/ \E n \in Size : StartCpp(t, k, a, n)
       \/ \E p \in {"ok", "failed"} : EmptyCpp(t, k, a, p)
  \/ \E t \in Task : Step(t)
  \/ Finished

\* A coroutine that can run is resumed, and the device answers.
Fairness == \A t \in Task : WF_vars(Step(t))

Spec == Init /\ [][Next]_vars

FairSpec == Spec /\ Fairness

-----------------------------------------------------------------------------
\* The values the variables take.
TypeOK ==
  /\ op \in [Task -> [kind : Kind, addr : Nat, size : Nat \cup {Unsized}, len : Nat]]
  /\ pc \in [Task -> {"new", "loop", "dev", "ok", "failed"}]
  /\ done \in [Task -> Nat]
  /\ chunk \in [Task -> Nat]
  /\ mem \in [Bytes -> Task \cup {Nobody}]

\* What the loop keeps true of a task between two chunks: while there is
\* something left to do the next chunk ends at the next boundary or at the end.
LoopInv(t) ==
  /\ done[t] <= op[t].len
  /\ op[t].size # Unsized => done[t] <= op[t].size
  /\ op[t].kind # "fwrite" => op[t].size = op[t].len
  /\ pc[t] = "loop" =>
       \/ chunk[t] = FirstChunk(Off(t))
       \/ done[t] = op[t].size
       \/ done[t] = op[t].len
  /\ pc[t] = "dev" =>
       /\ done[t] < op[t].len
       /\ chunk[t] > 0
       /\ chunk[t] <= FirstChunk(Off(t))
       /\ op[t].size # Unsized => done[t] + chunk[t] <= op[t].size
       /\ chunk[t] = FirstChunk(Off(t)) \/ done[t] + chunk[t] = op[t].size

\* Only t writes in the name of t, and only behind its own progress.
PrefixInv ==
  \A t \in Task, x \in Bytes :
    mem[x] = t => /\ Writes(t)
                  /\ pc[t] # "new"
                  /\ op[t].addr <= x
                  /\ x < At(t)

IInv == TypeOK /\ (\A t \in Task : pc[t] # "new" => LoopInv(t)) /\ PrefixInv

\* No chunk at the device crosses an MTU boundary (in C++ one counted from the
\* start of the operation), is empty, or reaches past the bytes asked for,
\* wherever the operation starts and however long it is.
ChunkInBlock ==
  \A t \in Task : pc[t] = "dev" =>
    /\ chunk[t] > 0
    /\ (Off(t) % Mtu) + chunk[t] <= Mtu
    /\ op[t].size # Unsized => done[t] + chunk[t] <= op[t].size

\* A transfer that ends well moved every byte asked for (the whole file when
\* no size was given), and however an operation ends or stands, every byte
\* behind its progress has been written: no gap between two chunks.
EndsComplete ==
  \A t \in Task :
    /\ pc[t] = "ok" => done[t] = IF op[t].size = Unsized THEN op[t].len ELSE op[t].size
    /\ Writes(t) => \A x \in Bytes : op[t].addr <= x /\ x < At(t) => mem[x] # Nobody

\* Tasks that each write whole MTU blocks never mix their bytes inside a block,
\* although their chunks interleave: chunks are aligned to the blocks (in C++
\* only those of an operation that starts on a boundary).
Touches(t, b) == pc[t] # "new" /\ Writes(t)
                 /\ op[t].addr < (b + 1) * Mtu /\ op[t].addr + op[t].len > b * Mtu
                 /\ op[t].len > 0
Covers(t, b) == op[t].addr <= b * Mtu /\ op[t].addr + op[t].len >= (b + 1) * Mtu
                /\ (op[t].size # Unsized => op[t].addr + op[t].size >= (b + 1) * Mtu)
                /\ (op[t].kind \in CppKind => op[t].addr % Mtu = 0)

BlocksNotMixed ==
  \A b \in {x \div Mtu : x \in Bytes} :
    (\A t \in Task : Touches(t, b) => Covers(t, b)) =>
      \A x, y \in Bytes : x \div Mtu = b /\ y \div Mtu = b => mem[x] = mem[y]

\* Every operation that is called ends, done or failed.
Ends == \A t \in Task : pc[t] # "new" ~> pc[t] \in {"ok", "failed"}
=============================================================================
