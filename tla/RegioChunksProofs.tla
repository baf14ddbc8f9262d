------------------------- MODULE RegioChunksProofs --------------------------
(***************************************************************************)
(* For every MTU, every set of tasks, addresses and sizes, and for the     *)
(* Python and the C++ calls alike: the loop invariant of the chunked       *)
(* transfers; that no chunk ever crosses an MTU boundary or reaches past   *)
(* the bytes asked for; that a transfer that ends well is complete; and    *)
(* that tasks which write whole blocks never mix their bytes in one.       *)
(***************************************************************************)
EXTENDS RegioChunks, TLAPS

\* The chunk that ends on the next boundary is positive and at most one MTU.
LEMMA FirstChunkRange == ASSUME NEW a \in Nat PROVE FirstChunk(a) \in 1 .. Mtu
<1>1. a % Mtu \in 0 .. (Mtu - 1)
  BY MtuAssumption
<1> QED
  BY <1>1, MtuAssumption DEF FirstChunk

\* Where a first chunk ends, the next boundary is one MTU away.
LEMMA NextIsWhole == ASSUME NEW a \in Nat PROVE FirstChunk(a + FirstChunk(a)) = Mtu
<1>1. (a + (Mtu - (a % Mtu))) % Mtu = 0
  BY MtuAssumption
<1> QED
  BY <1>1, MtuAssumption DEF FirstChunk

\* The bytes the model can touch are natural numbers.
LEMMA BytesNat == Bytes \subseteq Nat
  BY InputAssumption DEF Bytes

\* The initial states satisfy the inductive invariant.
LEMMA InitIInv == Init => IInv
<1> SUFFICES ASSUME Init PROVE IInv
  OBVIOUS
<1>1. TypeOK
  BY MtuAssumption DEF Init, TypeOK, Kind
<1>2. PrefixInv
  BY NobodyAssumption DEF Init, PrefixInv
<1>3. \A t \in Task : pc[t] # "new" => LoopInv(t)
  BY DEF Init
<1> QED
  BY <1>1, <1>2, <1>3 DEF IInv

\* A call of task t touches only the state of t, so it preserves the inductive
\* invariant if it establishes the loop invariant of t.
LEMMA CallFrame ==
  ASSUME IInv, TypeOK', NEW t \in Task, pc[t] = "new", UNCHANGED mem, LoopInv(t)',
         \A u \in Task \ {t} : /\ op'[u] = op[u] /\ done'[u] = done[u]
                              /\ chunk'[u] = chunk[u] /\ pc'[u] = pc[u]
  PROVE  IInv'
<1>1. ASSUME NEW u \in Task, u # t, pc'[u] # "new" PROVE LoopInv(u)'
  BY <1>1 DEF IInv, LoopInv, At, Off
<1>2. PrefixInv'
  <2> SUFFICES ASSUME NEW u \in Task, NEW x \in Bytes, mem'[x] = u
               PROVE (Writes(u) /\ pc[u] # "new" /\ op[u].addr <= x /\ x < At(u))'
    BY DEF PrefixInv
  <2>1. Writes(u) /\ pc[u] # "new" /\ op[u].addr <= x /\ x < At(u)
    BY DEF IInv, PrefixInv
  <2>2. u # t
    BY <2>1
  <2> QED
    BY <2>1, <2>2 DEF Writes, At
<1> QED
  BY <1>1, <1>2 DEF IInv

\* A call preserves the inductive invariant.
LEMMA StartIInv ==
  ASSUME IInv,
         NEW t \in Task, NEW k \in Kind, NEW a \in Addr, NEW n \in Size \cup {Unsized},
         NEW len \in Size, Start(t, k, a, n, len)
  PROVE  IInv'
<1>0. a \in Nat /\ len \in Nat /\ n \in Nat \cup {Unsized}
  BY InputAssumption
<1>1. FirstChunk(a) \in 1 .. Mtu
  BY <1>0, FirstChunkRange
<1>2. TypeOK'
  BY <1>0, <1>1, MtuAssumption DEF IInv, Start, TypeOK
<1>3. LoopInv(t)'
  <2>1. op'[t] = [kind |-> k, addr |-> a, size |-> n, len |-> len]
        /\ done'[t] = 0 /\ chunk'[t] = FirstChunk(a) /\ pc'[t] = "loop"
    BY DEF IInv, Start, TypeOK
  <2>2. a + 0 = a
    BY <1>0
  <2>3. k \notin CppKind /\ (k # "fwrite" => n # Unsized /\ len = n)
    BY DEF Start
  <2>4. Off(t)' = a
    BY <2>1, <2>2, <2>3 DEF Off, At
  <2> QED
    BY <2>1, <2>3, <2>4, <1>0, InputAssumption DEF LoopInv
<1>4. pc[t] = "new" /\ UNCHANGED mem
  BY DEF Start
<1>5. \A u \in Task \ {t} : /\ op'[u] = op[u] /\ done'[u] = done[u]
                           /\ chunk'[u] = chunk[u] /\ pc'[u] = pc[u]
  BY DEF IInv, Start, TypeOK
<1> QED
  BY <1>2, <1>3, <1>4, <1>5, CallFrame

\* So does a call of the C++ twin.
LEMMA StartCppIInv ==
  ASSUME IInv, NEW t \in Task, NEW k \in CppKind, NEW a \in Addr, NEW n \in Size,
         StartCpp(t, k, a, n)
  PROVE  IInv'
<1>0. a \in Nat /\ n \in Nat /\ n # Unsized /\ k \in Kind
  BY InputAssumption DEF Kind
<1>1. TypeOK'
  BY <1>0, MtuAssumption DEF IInv, StartCpp, TypeOK
<1>2. LoopInv(t)'
  <2>1. op'[t] = [kind |-> k, addr |-> a, size |-> n, len |-> n]
        /\ done'[t] = 0 /\ chunk'[t] = Mtu /\ pc'[t] = "loop"
    BY DEF IInv, StartCpp, TypeOK
  <2>2. FirstChunk(0) = Mtu
    BY MtuAssumption DEF FirstChunk
  <2>3. Off(t)' = 0
    BY <2>1 DEF Off
  <2> QED
    BY <2>1, <2>2, <2>3, <1>0 DEF LoopInv
<1>3. pc[t] = "new" /\ UNCHANGED mem
  BY DEF StartCpp
<1>4. \A u \in Task \ {t} : /\ op'[u] = op[u] /\ done'[u] = done[u]
                           /\ chunk'[u] = chunk[u] /\ pc'[u] = pc[u]
  BY DEF IInv, StartCpp, TypeOK
<1> QED
  BY <1>1, <1>2, <1>3, <1>4, CallFrame

\* So does one with no bytes.
LEMMA EmptyCppIInv ==
  ASSUME IInv, NEW t \in Task, NEW k \in CppKind, NEW a \in Addr,
         NEW p \in {"ok", "failed"}, EmptyCpp(t, k, a, p)
  PROVE  IInv'
<1>0. a \in Nat /\ k \in Kind
  BY InputAssumption DEF Kind
<1>1. TypeOK'
  BY <1>0 DEF IInv, EmptyCpp, TypeOK
<1>2. LoopInv(t)'
  <2>1. op'[t] = [kind |-> k, addr |-> a, size |-> 0, len |-> 0]
        /\ done'[t] = 0 /\ pc'[t] = p
    BY DEF IInv, EmptyCpp, TypeOK
  <2> QED
    BY <2>1 DEF LoopInv
<1>3. pc[t] = "new" /\ UNCHANGED mem
  BY DEF EmptyCpp
<1>4. \A u \in Task \ {t} : /\ op'[u] = op[u] /\ done'[u] = done[u]
                           /\ chunk'[u] = chunk[u] /\ pc'[u] = pc[u]
  BY DEF IInv, EmptyCpp, TypeOK
<1> QED
  BY <1>1, <1>2, <1>3, <1>4, CallFrame

\* A step of the loop that only moves the program counter and clips the chunk
\* leaves the progress and the memory alone.
LEMMA PrefixFrame ==
  ASSUME TypeOK, PrefixInv, NEW t \in Task, pc[t] # "new", UNCHANGED <<op, done, mem>>,
         NEW p \in {"loop", "dev", "ok", "failed"}, pc' = [pc EXCEPT ![t] = p]
  PROVE  PrefixInv'
<1> SUFFICES ASSUME NEW u \in Task, NEW x \in Bytes, mem'[x] = u
             PROVE (Writes(u) /\ pc[u] # "new" /\ op[u].addr <= x /\ x < At(u))'
  BY DEF PrefixInv
<1>1. Writes(u) /\ pc[u] # "new" /\ op[u].addr <= x /\ x < At(u)
  BY DEF PrefixInv
<1>2. pc'[u] # "new"
  BY <1>1 DEF TypeOK
<1> QED
  BY <1>1, <1>2 DEF Writes, At

\* The other tasks' loop invariants survive a step that only touches task t.
LEMMA LoopFrame ==
  ASSUME NEW u \in Task, pc[u] # "new" => LoopInv(u),
         op'[u] = op[u], done'[u] = done[u], chunk'[u] = chunk[u], pc'[u] = pc[u]
  PROVE  pc'[u] # "new" => LoopInv(u)'
  BY DEF LoopInv, At, Off

\* Leaving the loop, or failing in it, preserves the inductive invariant.
LEMMA StopIInv ==
  ASSUME IInv, NEW t \in Task, LoopEnd(t) \/ LoopEof(t) \/ DevFail(t)
  PROVE  IInv'
<1>1. PICK p \in {"ok", "failed"} : pc' = [pc EXCEPT ![t] = p]
  BY DEF LoopEnd, LoopEof, DevFail
<1>2. pc[t] \in {"loop", "dev"} /\ UNCHANGED <<op, done, chunk, mem>>
  BY DEF LoopEnd, LoopEof, DevFail
<1>3. TypeOK'
  BY <1>1, <1>2 DEF IInv, TypeOK
<1>4. PrefixInv'
  BY <1>1, <1>2, PrefixFrame DEF IInv
<1>5. LoopInv(t)'
  BY <1>1, <1>2 DEF IInv, LoopInv, TypeOK, At, Off
<1>6. \A u \in Task : u # t => (pc'[u] # "new" => LoopInv(u)')
  <2> SUFFICES ASSUME NEW u \in Task, u # t PROVE pc'[u] # "new" => LoopInv(u)'
    OBVIOUS
  <2>1. op'[u] = op[u] /\ done'[u] = done[u] /\ chunk'[u] = chunk[u] /\ pc'[u] = pc[u]
    BY <1>1, <1>2 DEF IInv, TypeOK
  <2> QED
    BY <2>1, LoopFrame DEF IInv
<1> QED
  BY <1>3, <1>4, <1>5, <1>6 DEF IInv

\* Handing the next chunk to the device preserves the inductive invariant.
LEMMA IssueIInv ==
  ASSUME IInv, NEW t \in Task, Issue(t)
  PROVE  IInv'
<1> DEFINE c == IF op[t].size = Unsized THEN chunk[t]
                ELSE Clip(chunk[t], op[t].size, done[t])
<1>0. TypeOK /\ LoopInv(t) /\ PrefixInv
  BY DEF IInv, Issue
<1>1. /\ op[t].addr \in Nat /\ op[t].len \in Nat /\ op[t].size \in Nat \cup {Unsized}
      /\ done[t] \in Nat /\ chunk[t] \in Nat /\ At(t) \in Nat /\ Off(t) \in Nat
  BY <1>0 DEF TypeOK, At, Off
<1>2. FirstChunk(Off(t)) \in 1 .. Mtu
  BY <1>1, FirstChunkRange
<1>3. chunk[t] = FirstChunk(Off(t)) /\ done[t] < op[t].len
      /\ (op[t].size # Unsized => done[t] < op[t].size)
  BY <1>0, <1>1, InputAssumption DEF Issue, Wants, LoopInv
<1>4. /\ c \in Nat /\ c > 0 /\ c <= FirstChunk(Off(t))
      /\ op[t].size # Unsized => done[t] + c <= op[t].size
      /\ c = FirstChunk(Off(t)) \/ done[t] + c = op[t].size
  BY <1>1, <1>2, <1>3, MtuAssumption DEF Clip
<1>5. chunk' = [chunk EXCEPT ![t] = c] /\ pc' = [pc EXCEPT ![t] = "dev"]
      /\ UNCHANGED <<op, done, mem>>
  BY DEF Issue
<1> HIDE DEF c
<1>6. TypeOK'
  BY <1>0, <1>4, <1>5 DEF TypeOK
<1>7. PrefixInv'
  <2>1. pc[t] # "new"
    BY DEF Issue
  <2> QED
    BY <2>1, <1>0, <1>5, PrefixFrame
<1>8. LoopInv(t)'
  <2>1. chunk'[t] = c /\ pc'[t] = "dev" /\ op'[t] = op[t] /\ done'[t] = done[t]
    BY <1>0, <1>5 DEF TypeOK
  <2> QED
    BY <2>1, <1>0, <1>3, <1>4 DEF LoopInv, At, Off
<1>9. \A u \in Task : u # t => (pc'[u] # "new" => LoopInv(u)')
  <2> SUFFICES ASSUME NEW u \in Task, u # t PROVE pc'[u] # "new" => LoopInv(u)'
    OBVIOUS
  <2>1. op'[u] = op[u] /\ done'[u] = done[u] /\ chunk'[u] = chunk[u] /\ pc'[u] = pc[u]
    BY <1>0, <1>5 DEF TypeOK
  <2> QED
    BY <2>1, LoopFrame DEF IInv
<1> QED
  BY <1>6, <1>7, <1>8, <1>9 DEF IInv

\* A chunk carried out preserves the inductive invariant: the next chunk is a
\* whole MTU because this one ended on a boundary, or nothing is left.
LEMMA DevDoneIInv ==
  ASSUME IInv, NEW t \in Task, DevDone(t)
  PROVE  IInv'
<1>0. TypeOK /\ LoopInv(t) /\ PrefixInv /\ pc[t] = "dev"
  BY DEF IInv, DevDone
<1>1. /\ op[t].addr \in Nat /\ op[t].len \in Nat /\ op[t].size \in Nat \cup {Unsized}
      /\ done[t] \in Nat /\ chunk[t] \in Nat /\ At(t) \in Nat /\ Off(t) \in Nat
  BY <1>0 DEF TypeOK, At, Off
<1>2. /\ done[t] < op[t].len /\ chunk[t] > 0
      /\ (op[t].size # Unsized => done[t] + chunk[t] <= op[t].size)
      /\ (chunk[t] = FirstChunk(Off(t)) \/ done[t] + chunk[t] = op[t].size)
  BY <1>0 DEF LoopInv
<1>3. /\ Piece(t) \in Nat /\ Piece(t) > 0 /\ Piece(t) <= chunk[t]
      /\ done[t] + Piece(t) <= op[t].len
  BY <1>1, <1>2 DEF Piece, Clip
<1>4. PICK p \in {"loop", "ok", "failed"} : pc' = [pc EXCEPT ![t] = p]
  BY DEF DevDone
<1>5. done' = [done EXCEPT ![t] = done[t] + Piece(t)] /\ op' = op
  BY DEF DevDone
<1>6. TypeOK'
  <2>1. chunk' \in [Task -> Nat]
    BY <1>0, MtuAssumption DEF DevDone, TypeOK
  <2>2. mem' \in [Bytes -> Task \cup {Nobody}]
    BY <1>0 DEF DevDone, TypeOK
  <2> QED
    BY <2>1, <2>2, <1>0, <1>1, <1>3, <1>4, <1>5 DEF TypeOK
<1>7. LoopInv(t)'
  <2>1. done'[t] = done[t] + Piece(t) /\ op'[t] = op[t] /\ Off(t)' = Off(t) + Piece(t)
    BY <1>0, <1>1, <1>3, <1>5 DEF TypeOK, At, Off
  <2>2. done'[t] <= op[t].len /\ (op[t].size # Unsized => done'[t] <= op[t].size)
    BY <2>1, <1>1, <1>2, <1>3
  <2>3. CASE Piece(t) = chunk[t]
    <3>1. chunk'[t] = Mtu /\ pc'[t] = "loop"
      BY <2>3, <1>0 DEF DevDone, TypeOK
    <3>2. CASE chunk[t] = FirstChunk(Off(t))
      <4>1. FirstChunk(Off(t)') = Mtu
        BY <2>1, <2>3, <3>2, <1>1, NextIsWhole
      <4> QED
        BY <4>1, <3>1, <2>1, <2>2, <1>0 DEF LoopInv
    <3>3. CASE done[t] + chunk[t] = op[t].size
      BY <3>3, <3>1, <2>1, <2>2, <2>3, <1>0 DEF LoopInv
    <3> QED
      BY <3>2, <3>3, <1>2
  <2>4. CASE Piece(t) # chunk[t]
    <3>1. pc'[t] \in {"ok", "failed"}
      BY <2>4, <1>0 DEF DevDone, TypeOK
    <3> QED
      BY <3>1, <2>1, <2>2, <1>0 DEF LoopInv
  <2> QED
    BY <2>3, <2>4
<1>8. \A u \in Task : u # t => (pc'[u] # "new" => LoopInv(u)')
  <2> SUFFICES ASSUME NEW u \in Task, u # t PROVE pc'[u] # "new" => LoopInv(u)'
    OBVIOUS
  <2>1. op'[u] = op[u] /\ done'[u] = done[u] /\ pc'[u] = pc[u]
    BY <1>0, <1>4, <1>5 DEF TypeOK
  <2>2. chunk'[u] = chunk[u]
    BY <1>0 DEF DevDone, TypeOK
  <2> QED
    BY <2>1, <2>2, LoopFrame DEF IInv
<1>9. PrefixInv'
  <2> SUFFICES ASSUME NEW u \in Task, NEW x \in Bytes, mem'[x] = u
               PROVE (Writes(u) /\ pc[u] # "new" /\ op[u].addr <= x /\ x < At(u))'
    BY DEF PrefixInv
  <2>0. x \in Nat
    BY BytesNat
  <2>1. pc'[u] # "new" \/ pc[u] = "new"
    BY <1>4, <1>0 DEF TypeOK
  <2>2. /\ done[u] \in Nat /\ op[u].addr \in Nat /\ At(u) \in Nat
        /\ At(u)' = op[u].addr + done'[u] /\ done'[u] \in Nat /\ done'[u] >= done[u]
    BY <1>0, <1>1, <1>3, <1>5 DEF TypeOK, At
  <2>3. CASE mem[x] = u
    <3>1. Writes(u) /\ pc[u] # "new" /\ op[u].addr <= x /\ x < At(u)
      BY <2>3, <1>0 DEF PrefixInv
    <3>2. x < At(u)'
      BY <3>1, <2>0, <2>2 DEF At
    <3> QED
      BY <3>1, <3>2, <2>1, <1>5 DEF Writes
  <2>4. CASE mem[x] # u
    <3>1. u = t /\ Writes(t) /\ At(t) <= x /\ x < At(t) + Piece(t)
      BY <2>4 DEF DevDone
    <3>2. At(t)' = At(t) + Piece(t) /\ op[t].addr <= At(t)
      BY <1>0, <1>1, <1>3, <1>5 DEF TypeOK, At
    <3>3. op[t].addr <= x
      BY <3>1, <3>2, <2>0, <1>1
    <3> QED
      BY <3>1, <3>2, <3>3, <2>1, <1>0, <1>5 DEF Writes
  <2> QED
    BY <2>3, <2>4
<1> QED
  BY <1>6, <1>7, <1>8, <1>9 DEF IInv

\* The loop invariant of every chunked transfer, and that a byte
\* carries a task's name only behind that task's progress, hold in every
\* reachable state, whatever the MTU and however the tasks interleave.
THEOREM LoopInvariant == Spec => []IInv
<1>1. IInv /\ [Next]_vars => IInv'
  <2> SUFFICES ASSUME IInv, [Next]_vars PROVE IInv'
    OBVIOUS
  <2>1. CASE UNCHANGED vars
    BY <2>1 DEF vars, IInv, TypeOK, LoopInv, PrefixInv, Writes, At, Off
  <2>2. CASE \E t \in Task, k \in Kind, a \in Addr, n \in Size \cup {Unsized}, len \in Size :
               Start(t, k, a, n, len)
    BY <2>2, StartIInv
  <2>3. CASE \E t \in Task, k \in CppKind, a \in Addr :
               \/ \E n \in Size : StartCpp(t, k, a, n)
               \/ \E p \in {"ok", "failed"} : EmptyCpp(t, k, a, p)
    BY <2>3, StartCppIInv, EmptyCppIInv
  <2>4. CASE \E t \in Task : Step(t)
    BY <2>4, StopIInv, IssueIInv, DevDoneIInv DEF Step
  <2>5. CASE Finished
    BY <2>5, <2>1 DEF Finished
  <2> QED
    BY <2>1, <2>2, <2>3, <2>4, <2>5 DEF Next
<1> QED
  BY <1>1, InitIInv, PTL DEF Spec

\* No chunk handed to the device by any of the transfers is empty,
\* crosses an MTU boundary or reaches past the bytes asked for.
THEOREM ChunksStayInBlocks == Spec => []ChunkInBlock
<1>1. IInv => ChunkInBlock
  <2> SUFFICES ASSUME IInv, NEW t \in Task, pc[t] = "dev"
               PROVE /\ chunk[t] > 0
                     /\ (Off(t) % Mtu) + chunk[t] <= Mtu
                     /\ op[t].size # Unsized => done[t] + chunk[t] <= op[t].size
    BY DEF ChunkInBlock
  <2>1. LoopInv(t) /\ Off(t) \in Nat /\ chunk[t] \in Nat
    BY DEF IInv, TypeOK, At, Off
  <2>2. Off(t) % Mtu \in 0 .. (Mtu - 1)
    BY <2>1, MtuAssumption
  <2>3. chunk[t] > 0 /\ chunk[t] <= Mtu - (Off(t) % Mtu)
        /\ (op[t].size # Unsized => done[t] + chunk[t] <= op[t].size)
    BY <2>1 DEF LoopInv, FirstChunk
  <2> QED
    BY <2>1, <2>2, <2>3, MtuAssumption
<1> QED
  BY <1>1, LoopInvariant, PTL

-----------------------------------------------------------------------------
\* What EndsComplete says of one task.
EndComplete(t) ==
  /\ pc[t] = "ok" => done[t] = IF op[t].size = Unsized THEN op[t].len ELSE op[t].size
  /\ Writes(t) => \A x \in Bytes : op[t].addr <= x /\ x < At(t) => mem[x] # Nobody

\* A task whose transfer stands still keeps what it has written, as a byte once
\* written stays written, by whomever.
LEMMA EndFrame ==
  ASSUME NEW t \in Task, EndComplete(t), op'[t] = op[t], done'[t] = done[t],
         pc'[t] = pc[t] \/ pc'[t] # "ok",
         \A x \in Bytes : mem[x] # Nobody => mem'[x] # Nobody
  PROVE  EndComplete(t)'
  BY DEF EndComplete, At, Writes

\* A call starts with nothing done.
LEMMA CallComplete ==
  ASSUME IInv, \A u \in Task : EndComplete(u), NEW t \in Task,
         \/ \E k \in Kind, a \in Addr, n \in Size \cup {Unsized}, len \in Size : Start(t, k, a, n, len)
         \/ \E k \in CppKind, a \in Addr : \/ \E n \in Size : StartCpp(t, k, a, n)
                                           \/ \E p \in {"ok", "failed"} : EmptyCpp(t, k, a, p),
         NEW u \in Task
  PROVE  EndComplete(u)'
<1>0. TypeOK
  BY DEF IInv
<1>1. CASE u # t
  <2>1. /\ op'[u] = op[u] /\ done'[u] = done[u] /\ pc'[u] = pc[u]
        /\ UNCHANGED mem
    BY <1>0, <1>1 DEF Start, StartCpp, EmptyCpp, TypeOK
  <2> QED
    BY <2>1, EndFrame
<1>2. CASE u = t
  <2>1. done'[t] = 0 /\ op'[t].addr \in Nat
    BY <1>0, InputAssumption DEF Start, StartCpp, EmptyCpp, TypeOK
  <2>2. pc'[t] = "ok" => op'[t].size = 0
    BY <1>0 DEF Start, StartCpp, EmptyCpp, TypeOK
  <2>3. ASSUME NEW x \in Bytes, op'[t].addr <= x, x < At(t)' PROVE FALSE
    <3>1. At(t)' = op'[t].addr
      BY <2>1 DEF At
    <3>2. x \in Nat
      BY BytesNat
    <3> QED
      BY <2>1, <2>3, <3>1, <3>2
  <2>4. 0 # Unsized
    BY InputAssumption
  <2> QED
    BY <1>2, <2>1, <2>2, <2>3, <2>4 DEF EndComplete
<1> QED
  BY <1>1, <1>2

\* A loop that ends well has moved all it was asked for.
LEMMA LoopComplete ==
  ASSUME IInv, \A u \in Task : EndComplete(u), NEW t \in Task,
         LoopEnd(t) \/ LoopEof(t) \/ Issue(t) \/ DevFail(t),
         NEW u \in Task
  PROVE  EndComplete(u)'
<1>0. TypeOK /\ LoopInv(t)
  BY DEF IInv, LoopEnd, LoopEof, Issue, DevFail
<1>1. UNCHANGED <<op, done, mem>> /\ (u # t => pc'[u] = pc[u])
  BY <1>0 DEF LoopEnd, LoopEof, Issue, DevFail, TypeOK
<1>2. CASE u # t \/ pc'[t] # "ok"
  BY <1>1, <1>2, EndFrame
<1>3. CASE u = t /\ pc'[t] = "ok"
  <2>1. done[t] \in Nat /\ op[t].len \in Nat /\ op[t].size \in Nat \cup {Unsized}
    BY <1>0 DEF TypeOK
  <2>2. done[t] = IF op[t].size = Unsized THEN op[t].len ELSE op[t].size
    <3>1. CASE LoopEnd(t)
      <4>1. op[t].size # Unsized /\ ~ (done[t] < op[t].size)
        BY <3>1 DEF LoopEnd, Wants
      <4>2. done[t] <= op[t].size /\ op[t].size \in Nat
        BY <1>0, <2>1, <4>1 DEF LoopInv
      <4> QED
        BY <2>1, <4>1, <4>2
    <3>2. CASE LoopEof(t)
      <4>1. pc'[t] = (IF op[t].size = Unsized THEN "ok" ELSE "failed") /\ done[t] >= op[t].len
        BY <1>0, <3>2 DEF LoopEof, TypeOK
      <4>2. done[t] <= op[t].len
        BY <1>0 DEF LoopInv
      <4> QED
        BY <1>3, <2>1, <4>1, <4>2
    <3>3. CASE Issue(t) \/ DevFail(t)
      BY <1>0, <1>3, <3>3 DEF Issue, DevFail, TypeOK
    <3> QED
      BY <3>1, <3>2, <3>3
  <2>3. Writes(t)' = Writes(t) /\ At(t)' = At(t)
    BY <1>1 DEF Writes, At
  <2> QED
    BY <1>1, <1>3, <2>2, <2>3 DEF EndComplete
<1> QED
  BY <1>2, <1>3

\* A chunk leaves no gap behind it, and a file that ran out has been written
\* whole.
LEMMA DevDoneComplete ==
  ASSUME IInv, \A u \in Task : EndComplete(u), NEW t \in Task, DevDone(t),
         NEW u \in Task
  PROVE  EndComplete(u)'
<1>0. TypeOK /\ LoopInv(t) /\ pc[t] = "dev" /\ EndComplete(t)
  BY DEF IInv, DevDone
<1>1. /\ done[t] \in Nat /\ chunk[t] \in Nat /\ op[t].len \in Nat /\ op[t].addr \in Nat
      /\ done[t] < op[t].len
  BY <1>0 DEF TypeOK, LoopInv
<1>2. Piece(t) \in Nat /\ (Piece(t) = chunk[t] \/ Piece(t) = op[t].len - done[t])
  BY <1>1 DEF Piece, Clip
<1>3. /\ op' = op /\ done' = [done EXCEPT ![t] = done[t] + Piece(t)]
      /\ mem' = [x \in Bytes |-> IF Writes(t) /\ At(t) <= x /\ x < At(t) + Piece(t) THEN t ELSE mem[x]]
  BY DEF DevDone
<1>4. \A x \in Bytes : mem[x] # Nobody => mem'[x] # Nobody
  BY <1>3, NobodyAssumption
<1>5. CASE u # t
  <2>1. op'[u] = op[u] /\ done'[u] = done[u] /\ pc'[u] = pc[u]
    BY <1>0, <1>3, <1>5 DEF DevDone, TypeOK
  <2> QED
    BY <1>4, <2>1, EndFrame
<1>6. CASE u = t
  <2>1. done'[t] = done[t] + Piece(t)
    BY <1>0, <1>3 DEF TypeOK
  <2>2. pc'[t] = "ok" => op[t].size = Unsized /\ done'[t] = op[t].len
    <3>1. ASSUME pc'[t] = "ok" PROVE Piece(t) # chunk[t] /\ op[t].size = Unsized
      BY <1>0, <3>1 DEF DevDone, TypeOK
    <3> QED
      BY <1>1, <1>2, <2>1, <3>1
  <2>3. ASSUME Writes(t), NEW x \in Bytes, op[t].addr <= x, x < At(t)' PROVE mem'[x] # Nobody
    <3>1. x \in Nat /\ At(t) \in Nat /\ At(t)' = At(t) + Piece(t)
      BY <1>1, <1>2, <1>3, <2>1, BytesNat DEF At
    <3>2. CASE x < At(t)
      BY <1>0, <1>4, <2>3, <3>2 DEF EndComplete
    <3>3. CASE At(t) <= x
      BY <1>3, <2>3, <3>1, <3>3, NobodyAssumption
    <3> QED
      BY <3>1, <3>2, <3>3
  <2>4. Writes(t)' = Writes(t) /\ op'[t] = op[t]
    BY <1>3 DEF Writes
  <2> QED
    BY <1>6, <2>2, <2>3, <2>4 DEF EndComplete
<1> QED
  BY <1>5, <1>6

\* A transfer that ends well moved every byte asked for, and leaves no gap
\* behind its progress however it ends.
THEOREM TransfersEndComplete == Spec => []EndsComplete
<1> DEFINE All == \A t \in Task : EndComplete(t)
<1>1. Init => All
  <2> SUFFICES ASSUME Init, NEW t \in Task PROVE EndComplete(t)
    OBVIOUS
  <2>1. pc[t] = "new" /\ op[t].addr = 0 /\ At(t) = 0
    BY DEF Init, At
  <2> QED
    BY <2>1, BytesNat DEF EndComplete
<1>2. IInv /\ All /\ [Next]_vars => All'
  <2> SUFFICES ASSUME IInv, All, [Next]_vars, NEW u \in Task PROVE EndComplete(u)'
    OBVIOUS
  <2>1. CASE UNCHANGED vars
    BY <2>1, EndFrame DEF vars
  <2>2. CASE \E t \in Task, k \in Kind, a \in Addr, n \in Size \cup {Unsized}, len \in Size :
               Start(t, k, a, n, len)
    BY <2>2, CallComplete
  <2>3. CASE \E t \in Task, k \in CppKind, a \in Addr :
               \/ \E n \in Size : StartCpp(t, k, a, n)
               \/ \E p \in {"ok", "failed"} : EmptyCpp(t, k, a, p)
    BY <2>3, CallComplete
  <2>4. CASE \E t \in Task : Step(t)
    BY <2>4, LoopComplete, DevDoneComplete DEF Step
  <2>5. CASE Finished
    BY <2>1, <2>5 DEF Finished
  <2> QED
    BY <2>1, <2>2, <2>3, <2>4, <2>5 DEF Next
<1>3. All => EndsComplete
  BY DEF EndsComplete, EndComplete
<1> QED
  BY <1>1, <1>2, <1>3, LoopInvariant, PTL DEF Spec

-----------------------------------------------------------------------------
\* Between two chunks the loop stands on a boundary, but before the first chunk
\* and behind the last.
Aligned(t) ==
  pc[t] \in {"loop", "dev"} =>
    \/ done[t] = 0
    \/ Off(t) % Mtu = 0
    \/ done[t] = op[t].size
    \/ done[t] = op[t].len

\* The bytes of a block.
LEMMA BlockRange ==
  ASSUME NEW x \in Nat, NEW b, b = x \div Mtu
  PROVE  b \in Nat /\ b * Mtu \in Nat /\ b * Mtu <= x /\ x < b * Mtu + Mtu
<1>1. /\ x \div Mtu \in Nat /\ x % Mtu \in 0 .. (Mtu - 1)
      /\ x = (x \div Mtu) * Mtu + (x % Mtu)
  BY MtuAssumption
<1> DEFINE y == (x \div Mtu) * Mtu
<1>2. y \in Nat
  BY <1>1, MtuAssumption
<1> HIDE DEF y
<1>3. x = y + (x % Mtu)
  BY <1>1 DEF y
<1>4. y <= x /\ x < y + Mtu
  BY <1>1, <1>2, <1>3, MtuAssumption
<1> QED
  BY <1>1, <1>2, <1>4 DEF y

\* The boundary inside a block is where the block starts.
LEMMA BoundaryOf ==
  ASSUME NEW a \in Nat, a % Mtu = 0, NEW b \in Nat, b * Mtu <= a, a < b * Mtu + Mtu
  PROVE  a = b * Mtu
<1> DEFINE q == a \div Mtu
<1>1. q \in Nat /\ a = q * Mtu
  BY MtuAssumption
<1> HIDE DEF q
<1>2. CASE q < b
  <2>1. (q + 1) * Mtu <= b * Mtu
    BY <1>1, <1>2, MtuAssumption
  <2>2. (q + 1) * Mtu = q * Mtu + Mtu
    BY <1>1, MtuAssumption
  <2> QED
    BY <1>1, <2>1, <2>2, MtuAssumption
<1>3. CASE q > b
  <2>1. (b + 1) * Mtu <= q * Mtu
    BY <1>1, <1>3, MtuAssumption
  <2>2. (b + 1) * Mtu = b * Mtu + Mtu
    BY <1>1, MtuAssumption
  <2> QED
    BY <1>1, <2>1, <2>2, MtuAssumption
<1> QED
  BY <1>1, <1>2, <1>3

\* A chunk that starts before a boundary ends there at the latest.
LEMMA NextIsUpTo ==
  ASSUME NEW a \in Nat, NEW b \in Nat, a < b * Mtu
  PROVE  a + FirstChunk(a) <= b * Mtu
<1> DEFINE q == a \div Mtu
<1>1. q \in Nat /\ a = q * Mtu + (a % Mtu) /\ a % Mtu \in 0 .. (Mtu - 1)
  BY MtuAssumption
<1> HIDE DEF q
<1>2. q < b
  <2>1. CASE q >= b
    <3>1. b * Mtu <= q * Mtu
      BY <1>1, <2>1, MtuAssumption
    <3> QED
      BY <1>1, <3>1, MtuAssumption
  <2> QED
    BY <1>1, <2>1
<1>3. (q + 1) * Mtu <= b * Mtu
  BY <1>1, <1>2, MtuAssumption
<1>4. a + FirstChunk(a) = (q + 1) * Mtu
  BY <1>1, MtuAssumption DEF FirstChunk
<1> QED
  BY <1>3, <1>4

\* A sum of boundaries is one.
LEMMA SumAligned ==
  ASSUME NEW a \in Nat, NEW d \in Nat, a % Mtu = 0, d % Mtu = 0
  PROVE  (a + d) % Mtu = 0
<1> DEFINE q == a \div Mtu
           r == d \div Mtu
<1>1. q \in Nat /\ r \in Nat /\ a = q * Mtu /\ d = r * Mtu
  BY MtuAssumption
<1> HIDE DEF q, r
<1>2. a + d = (q + r) * Mtu /\ q + r \in Nat
  BY <1>1, MtuAssumption
<1>3. \A k \in Nat : (k * Mtu) % Mtu = 0
  BY MtuAssumption
<1> QED
  BY <1>2, <1>3

\* A call, once made, is what it is.
LEMMA CallStays ==
  ASSUME TypeOK, [Next]_vars, NEW u \in Task, pc[u] # "new"
  PROVE  op'[u] = op[u] /\ pc'[u] # "new"
<1>1. ASSUME NEW t \in Task, NEW k, NEW a, NEW n, NEW len, Start(t, k, a, n, len)
      PROVE  op'[u] = op[u] /\ pc'[u] # "new"
  BY <1>1 DEF Start, TypeOK
<1>2. ASSUME NEW t \in Task, NEW k, NEW a, NEW n, StartCpp(t, k, a, n)
      PROVE  op'[u] = op[u] /\ pc'[u] # "new"
  BY <1>2 DEF StartCpp, TypeOK
<1>3. ASSUME NEW t \in Task, NEW k, NEW a, NEW p, EmptyCpp(t, k, a, p)
      PROVE  op'[u] = op[u] /\ pc'[u] # "new"
  BY <1>3 DEF EmptyCpp, TypeOK
<1>4. ASSUME NEW t \in Task, Step(t)
      PROVE  op'[u] = op[u] /\ pc'[u] # "new"
  BY <1>4 DEF Step, LoopEnd, LoopEof, Issue, DevDone, DevFail, TypeOK
<1>5. CASE UNCHANGED vars
  BY <1>5 DEF vars
<1> QED
  BY <1>1, <1>2, <1>3, <1>4, <1>5 DEF Next, Finished

\* An operation that touches a block goes on touching it.
LEMMA BlockFrame ==
  ASSUME TypeOK, [Next]_vars, NEW b
  PROVE  (\A t \in Task : Touches(t, b) => Covers(t, b))'
           => \A t \in Task : Touches(t, b) => Covers(t, b)
  BY CallStays DEF Touches, Covers, Writes

\* Only a chunk that ends moves the progress and the bytes.
LEMMA OnlyDevDone ==
  ASSUME TypeOK, [Next]_vars
  PROVE  \/ \E t \in Task : DevDone(t)
         \/ mem' = mem /\ \A u \in Task : pc[u] # "new" => done'[u] = done[u]
<1>1. ASSUME NEW t \in Task, NEW k, NEW a, NEW n, NEW len, Start(t, k, a, n, len)
      PROVE  mem' = mem /\ \A u \in Task : pc[u] # "new" => done'[u] = done[u]
  BY <1>1 DEF Start, TypeOK
<1>2. ASSUME NEW t \in Task, NEW k, NEW a, NEW n, StartCpp(t, k, a, n)
      PROVE  mem' = mem /\ \A u \in Task : pc[u] # "new" => done'[u] = done[u]
  BY <1>2 DEF StartCpp, TypeOK
<1>3. ASSUME NEW t \in Task, NEW k, NEW a, NEW p, EmptyCpp(t, k, a, p)
      PROVE  mem' = mem /\ \A u \in Task : pc[u] # "new" => done'[u] = done[u]
  BY <1>3 DEF EmptyCpp, TypeOK
<1>4. ASSUME NEW t \in Task, Step(t), ~DevDone(t)
      PROVE  mem' = mem /\ done' = done
  BY <1>4 DEF Step, LoopEnd, LoopEof, Issue, DevFail
<1>5. CASE UNCHANGED vars
  BY <1>5 DEF vars
<1> QED
  BY <1>1, <1>2, <1>3, <1>4, <1>5 DEF Next, Finished

\* A task that starts has nothing done.
LEMMA NewIsZero ==
  ASSUME TypeOK, [Next]_vars, NEW u \in Task, pc[u] = "new", pc'[u] # "new"
  PROVE  done'[u] = 0
<1>1. ASSUME NEW t \in Task, NEW k, NEW a, NEW n, NEW len, Start(t, k, a, n, len)
      PROVE  done'[u] = 0
  BY <1>1 DEF Start, TypeOK
<1>2. ASSUME NEW t \in Task, NEW k, NEW a, NEW n, StartCpp(t, k, a, n)
      PROVE  done'[u] = 0
  BY <1>2 DEF StartCpp, TypeOK
<1>3. ASSUME NEW t \in Task, NEW k, NEW a, NEW p, EmptyCpp(t, k, a, p)
      PROVE  done'[u] = 0
  BY <1>3 DEF EmptyCpp, TypeOK
<1>4. ASSUME NEW t \in Task, Step(t)
      PROVE  done'[u] = 0
  BY <1>4 DEF Step, LoopEnd, LoopEof, Issue, DevDone, DevFail, TypeOK
<1>5. CASE UNCHANGED vars
  BY <1>5 DEF vars
<1> QED
  BY <1>1, <1>2, <1>3, <1>4, <1>5 DEF Next, Finished

\* A chunk that ends leaves the loop on a boundary or at the end.
LEMMA DevDoneAligned ==
  ASSUME IInv, NEW t \in Task, DevDone(t)
  PROVE  Aligned(t)'
<1>1. /\ pc[t] = "dev" /\ TypeOK /\ LoopInv(t)
      /\ done[t] \in Nat /\ chunk[t] \in Nat /\ op[t].len \in Nat /\ op[t].addr \in Nat
  BY DEF IInv, TypeOK, DevDone
<1>2. op' = op /\ done'[t] = done[t] + Piece(t)
  BY <1>1 DEF DevDone, TypeOK
<1>3. Piece(t) = chunk[t] \/ (done[t] + Piece(t) = op[t].len)
  BY <1>1 DEF Piece, Clip
<1>4. CASE done[t] + Piece(t) = op[t].len
  BY <1>2, <1>4 DEF Aligned
<1>5. CASE Piece(t) = chunk[t] /\ done[t] + chunk[t] = op[t].size
  BY <1>2, <1>5 DEF Aligned
<1>6. CASE Piece(t) = chunk[t] /\ chunk[t] = FirstChunk(Off(t))
  <2>1. Off(t) \in Nat /\ Off(t)' = Off(t) + FirstChunk(Off(t))
    BY <1>1, <1>2, <1>6 DEF Off, At
  <2> DEFINE a == Off(t)
  <2>2. a \in Nat
    BY <2>1
  <2> HIDE DEF a
  <2>3. (a + FirstChunk(a)) % Mtu = 0
    BY <2>2, MtuAssumption DEF FirstChunk
  <2> QED
    BY <2>1, <2>3 DEF Aligned, a
<1> QED
  BY <1>1, <1>3, <1>4, <1>5, <1>6 DEF LoopInv

\* Every step keeps a task on its boundaries.
LEMMA NextAligned ==
  ASSUME IInv, \A t \in Task : Aligned(t), [Next]_vars, NEW u \in Task
  PROVE  Aligned(u)'
<1>1. TypeOK
  BY DEF IInv
<1>2. CASE pc[u] = "new"
  BY <1>1, <1>2, NewIsZero DEF Aligned
<1>3. CASE pc[u] # "new" /\ done'[u] = done[u]
  <2>1. op'[u] = op[u]
    BY <1>1, <1>3, CallStays
  <2>2. Off(u)' = Off(u)
    BY <1>3, <2>1 DEF Off, At
  <2>3. pc'[u] \in {"loop", "dev"} => pc[u] \in {"loop", "dev"}
    <3>1. ASSUME NEW t \in Task, Step(t), pc'[u] \in {"loop", "dev"}
          PROVE  pc[u] \in {"loop", "dev"}
      BY <1>1, <3>1 DEF Step, LoopEnd, LoopEof, Issue, DevDone, DevFail, TypeOK
    <3>2. ASSUME NEW t \in Task, NEW k, NEW a, NEW n, NEW len,
                 Start(t, k, a, n, len) \/ StartCpp(t, k, a, n) \/ EmptyCpp(t, k, a, n)
          PROVE  pc'[u] = pc[u]
      BY <1>1, <1>3, <3>2 DEF Start, StartCpp, EmptyCpp, TypeOK
    <3>3. CASE UNCHANGED vars
      BY <3>3 DEF vars
    <3> QED
      BY <3>1, <3>2, <3>3 DEF Next, Finished
  <2> QED
    BY <1>3, <2>1, <2>2, <2>3 DEF Aligned
<1>4. CASE pc[u] # "new" /\ done'[u] # done[u]
  <2>1. PICK t \in Task : DevDone(t)
    BY <1>1, <1>4, OnlyDevDone
  <2>2. u = t
    BY <1>1, <1>4, <2>1 DEF DevDone, TypeOK
  <2> QED
    BY <2>1, <2>2, DevDoneAligned
<1> QED
  BY <1>2, <1>3, <1>4

\* A chunk of an operation that covers a block fills it, when it has a byte in it.
LEMMA ChunkFills ==
  ASSUME IInv, NEW t \in Task, Aligned(t), pc[t] = "dev", Writes(t),
         NEW x \in Bytes, At(t) <= x, x < At(t) + Piece(t),
         NEW b, b = x \div Mtu, Touches(t, b) => Covers(t, b),
         NEW y \in Bytes, y \div Mtu = b
  PROVE  At(t) <= y /\ y < At(t) + Piece(t)
<1>1. /\ TypeOK /\ LoopInv(t)
      /\ done[t] \in Nat /\ chunk[t] \in Nat /\ op[t].len \in Nat /\ op[t].addr \in Nat
      /\ At(t) = op[t].addr + done[t] /\ x \in Nat /\ y \in Nat
  BY BytesNat DEF IInv, TypeOK, At
<1> DEFINE B == b * Mtu
<1>2. b \in Nat /\ B \in Nat /\ (b + 1) * Mtu = B + Mtu
  BY <1>1, BlockRange, MtuAssumption
<1>3. B <= x /\ x < B + Mtu /\ B <= y /\ y < B + Mtu
  BY <1>1, BlockRange
<1>4. /\ done[t] < op[t].len
      /\ chunk[t] > 0 /\ chunk[t] <= FirstChunk(Off(t))
      /\ op[t].size # Unsized => done[t] + chunk[t] <= op[t].size
      /\ chunk[t] = FirstChunk(Off(t)) \/ done[t] + chunk[t] = op[t].size
  BY <1>1 DEF LoopInv
<1> HIDE DEF B
<1>5. /\ Piece(t) \in Nat /\ Piece(t) <= chunk[t] /\ done[t] + Piece(t) <= op[t].len
      /\ Piece(t) = chunk[t] \/ done[t] + Piece(t) = op[t].len
  BY <1>1, <1>4 DEF Piece, Clip
<1>6. Touches(t, b)
  <2>1. op[t].addr < B + Mtu
    BY <1>1, <1>2, <1>3, MtuAssumption
  <2>2. op[t].addr + op[t].len > B
    BY <1>1, <1>2, <1>3, <1>5
  <2> QED
    BY <1>1, <1>2, <1>4, <2>1, <2>2 DEF Touches, B
<1>7. /\ op[t].addr <= B /\ op[t].addr + op[t].len >= B + Mtu
      /\ op[t].size # Unsized => op[t].addr + op[t].size >= B + Mtu
      /\ op[t].kind \in CppKind => op[t].addr % Mtu = 0
  BY <1>2, <1>6 DEF Covers, B
<1>8. FirstChunk(Off(t)) <= Mtu /\ Off(t) \in Nat
  <2>1. Off(t) \in Nat
    BY <1>1 DEF Off
  <2> QED
    BY <2>1, FirstChunkRange, MtuAssumption
<1>9. op[t].size \in Nat => op[t].size # Unsized
  BY InputAssumption
<1>10. done[t] = op[t].size => FALSE
  BY <1>1, <1>4, <1>9
<1>11. done[t] = 0 \/ Off(t) % Mtu = 0
  BY <1>1, <1>4, <1>10 DEF Aligned
<1>12. At(t) < B + Mtu
  BY <1>1, <1>2, <1>3, MtuAssumption
<1>13. FirstChunk(Off(t)) = FirstChunk(At(t)) /\ (op[t].addr = At(t) \/ At(t) % Mtu = 0)
  <2>1. CASE op[t].kind \in CppKind
    <3>1. Off(t) = done[t] /\ op[t].addr % Mtu = 0
      BY <1>7, <2>1 DEF Off
    <3>2. done[t] % Mtu = 0
      BY <1>11, <3>1, MtuAssumption
    <3>3. At(t) % Mtu = 0
      BY <1>1, <3>1, <3>2, SumAligned
    <3> QED
      BY <3>1, <3>2, <3>3 DEF FirstChunk
  <2>2. CASE op[t].kind \notin CppKind
    <3>1. Off(t) = At(t)
      BY <2>2 DEF Off
    <3> QED
      BY <1>1, <1>11, <3>1
  <2> QED
    BY <2>1, <2>2
\* The chunk starts where the block starts.
<1>14. At(t) = B
  <2> DEFINE a == At(t)
  <2>1. a \in Nat /\ x < a + FirstChunk(a) /\ a < B + Mtu /\ (a % Mtu = 0 \/ a <= B)
    <3>1. a \in Nat /\ FirstChunk(a) \in Nat
      BY <1>1, FirstChunkRange, MtuAssumption
    <3> QED
      BY <1>1, <1>4, <1>5, <1>7, <1>12, <1>13, <3>1
  <2> HIDE DEF a
  <2>2. ~(a < B)
    <3>1. ASSUME a < B PROVE a + FirstChunk(a) <= B
      BY <1>2, <2>1, <3>1, NextIsUpTo DEF B
    <3>2. FirstChunk(a) \in Nat
      BY <2>1, FirstChunkRange, MtuAssumption
    <3> QED
      BY <1>1, <1>2, <1>3, <2>1, <3>1, <3>2
  <2>3. CASE a % Mtu = 0
    <3>1. b * Mtu <= a /\ a < b * Mtu + Mtu
      BY <1>2, <2>1, <2>2 DEF B
    <3> QED
      BY <1>2, <2>1, <2>3, <3>1, BoundaryOf DEF B, a
  <2>4. CASE a <= B
    BY <1>2, <2>1, <2>2, <2>4 DEF a
  <2> QED
    BY <2>1, <2>3, <2>4
<1>15. FirstChunk(Off(t)) = Mtu
  <2>1. \A k \in Nat : (k * Mtu) % Mtu = 0
    BY MtuAssumption
  <2>2. B % Mtu = 0
    BY <1>2, <2>1 DEF B
  <2>3. FirstChunk(B) = Mtu
    BY <2>2, MtuAssumption DEF FirstChunk
  <2> QED
    BY <1>13, <1>14, <2>3
<1>16. At(t) + Piece(t) >= B + Mtu
  <2>1. CASE Piece(t) = chunk[t] /\ chunk[t] = Mtu
    BY <1>14, <2>1, <1>2, MtuAssumption
  <2>2. CASE Piece(t) = chunk[t] /\ done[t] + chunk[t] = op[t].size
    <3>1. op[t].size \in Nat
      BY <1>1, <2>2
    <3>2. op[t].addr + op[t].size >= B + Mtu
      BY <1>7, <1>9, <3>1
    <3> QED
      BY <1>1, <2>2, <3>1, <3>2
  <2>3. CASE done[t] + Piece(t) = op[t].len
    BY <1>1, <1>5, <1>7, <2>3
  <2> QED
    BY <1>4, <1>5, <1>15, <2>1, <2>2, <2>3
<1> QED
  BY <1>1, <1>2, <1>3, <1>5, <1>14, <1>16, MtuAssumption

\* The bytes of a block keep one writer when a chunk ends.
LEMMA DevDoneBlocks ==
  ASSUME IInv, NEW t \in Task, Aligned(t), DevDone(t),
         NEW b, Touches(t, b) => Covers(t, b),
         \A x, y \in Bytes : x \div Mtu = b /\ y \div Mtu = b => mem[x] = mem[y],
         NEW x \in Bytes, NEW y \in Bytes, x \div Mtu = b, y \div Mtu = b
  PROVE  mem'[x] = mem'[y]
<1> DEFINE In(z) == Writes(t) /\ At(t) <= z /\ z < At(t) + Piece(t)
<1>1. /\ mem' = [z \in Bytes |-> IF In(z) THEN t ELSE mem[z]]
      /\ pc[t] = "dev"
  BY DEF DevDone
<1>2. In(x) <=> In(y)
  BY <1>1, ChunkFills
<1> HIDE DEF In
<1> QED
  BY <1>1, <1>2

\* Tasks that each write whole MTU blocks never mix their bytes inside a block,
\* whatever the MTU, the addresses, the sizes and the interleaving of their
\* chunks (Regio.write, write_from_read_file, and Regio::write for operations
\* that start on a boundary).
THEOREM BlocksStayUnmixed == Spec => []BlocksNotMixed
<1> DEFINE All == \A t \in Task : Aligned(t)
<1>1. Init => All /\ BlocksNotMixed
  BY DEF Init, Aligned, BlocksNotMixed
<1>2. IInv /\ All /\ [Next]_vars => All'
  BY NextAligned
<1>3. IInv /\ All /\ BlocksNotMixed /\ [Next]_vars => BlocksNotMixed'
  <2> SUFFICES ASSUME IInv, All, BlocksNotMixed, [Next]_vars,
                      NEW b \in {z \div Mtu : z \in Bytes},
                      (\A t \in Task : Touches(t, b) => Covers(t, b))',
                      NEW x \in Bytes, NEW y \in Bytes, x \div Mtu = b, y \div Mtu = b
               PROVE  mem'[x] = mem'[y]
    BY DEF BlocksNotMixed
  <2>1. TypeOK
    BY DEF IInv
  <2>2. \A t \in Task : Touches(t, b) => Covers(t, b)
    BY <2>1, BlockFrame
  <2>3. \A z, w \in Bytes : z \div Mtu = b /\ w \div Mtu = b => mem[z] = mem[w]
    BY <2>2 DEF BlocksNotMixed
  <2>4. CASE mem' = mem
    BY <2>3, <2>4
  <2>5. CASE \E t \in Task : DevDone(t)
    BY <2>2, <2>3, <2>5, DevDoneBlocks
  <2> QED
    BY <2>1, <2>4, <2>5, OnlyDevDone
<1> HIDE DEF All
<1> QED
  BY <1>1, <1>2, <1>3, LoopInvariant, PTL DEF Spec
=============================================================================
