---------------------------- MODULE SkmapUiProofs ----------------------------
(***************************************************************************)
(* For every tree of modules, every program of the workers and all bounds: *)
(* the cache differs from the device only for a cause, and the steps of a  *)
(* held key alternate.  What the library and the device do to a cell is    *)
(* said of a state given by its parts, dv, ca, co, wi and st for dev,      *)
(* cache, conn, wire and stale, because one step of a worker often is a    *)
(* return followed by a call.                                              *)
(***************************************************************************)
EXTENDS SkmapUi, SequenceTheorems, TLAPS

IsSeq(s) == s \in Seq(Range(s))

\* A call of the client: only a read, and only the first in the queue, gets
\* beyond "queued".
IsCall(q) ==
  /\ q = [task |-> q.task, op |-> q.op, data |-> q.data, at |-> q.at]
  /\ q.op \in {"read", "write"}

\* The queue of the client and the wire.  A read on the wire is the last
\* request there, and it is the call at the head of the queue.
Queue(co, wi) ==
  /\ IsSeq(co) /\ IsSeq(wi)
  /\ \A i \in 1 .. Len(co) :
       /\ IsCall(co[i])
       /\ i > 1 \/ co[i].op = "write" => co[i].at = "queued"
  /\ \A i \in 1 .. Len(wi) :
       /\ wi[i].op \in {"read", "write"}
       /\ wi[i].op = "read" => /\ i = Len(wi) /\ co # <<>>
                               /\ co[1].op = "read" /\ co[1].at = "sent"
                               /\ co[1].data = wi[i].data
  /\ co # <<>> /\ co[1].at \in {"answered", "broken"} => wi = <<>>

\* v is what the device holds of c, or part of it if the firmware sets bits.
Shows(dv, c, v) == IF c \in Reg /\ Acc[c] = "rc" THEN v \subseteq dv[c] ELSE v = dv[c]

\* v is what the last write of c in the sequence writes.
LastWrite(c, seq, v) ==
  \A i \in Writing(c, seq) : (\A j \in Writing(c, seq) : j <= i) => seq[i].data[c] = v

\* What the cache has of c is what the device will have once the wire is empty.
Settled(c, dv, ca, wi) ==
  /\ LastWrite(c, wi, ca[c])
  /\ Writing(c, wi) = {} => Shows(dv, c, ca[c])

\* A cell that is not stale.  A register is in the cache what its last write
\* in the queue makes it, and no read is ahead of a write.
Fresh(c, dv, ca, co, wi) ==
  /\ Writing(c, co) = {} => Settled(c, dv, ca, wi)
  /\ c \in Reg => /\ LastWrite(c, co, ca[c])
                  /\ \A i \in Reading(c, co), j \in Writing(c, co) : j < i

\* A reply that has arrived is what the device still holds.
Answer(dv, co) ==
  co # <<>> /\ co[1].at = "answered" =>
    \A c \in Cell \cap DOMAIN co[1].data : Shows(dv, c, co[1].data[c])

Coherent(dv, ca, co, wi, st) ==
  /\ Queue(co, wi)
  /\ Answer(dv, co)
  /\ \A c \in Cell \ st : Fresh(c, dv, ca, co, wi)

\* dev is a function on the cells.
LibInv ==
  /\ dev = [c \in Cell |-> dev[c]]
  /\ Coherent(dev, cache, conn, wire, stale)

\* Who has a call in the queue waits for it, and has no other there.
Waits(p, co) ==
  /\ \A i \in 1 .. Len(co) : co[i].task \in Worker /\ p[co[i].task] = "io"
  /\ \A i, j \in 1 .. Len(co) : co[i].task = co[j].task => i = j

Absent(w, co) == \A i \in 1 .. Len(co) : co[i].task # w

\* The calls are changed, not who made them.
SameTasks(co, co2) == Len(co2) = Len(co) /\ \A i \in 1 .. Len(co) : co2[i].task = co[i].task

\* A step that has been popped is for the opposite of what the last one wrote.
StepOf(on) == FlagOf(StepFlag[1], StepFlag[2], on)
Popped(t, l) == \E on \in BOOLEAN : t = <<StepOf(on)>> /\ l # Written(on)

\* What the last step wrote is what the cache has, if it is known at all.
Known(ca, l) == l \in {"?", Written(StepFlag[2] \in ca[StepFlag[1]])}

PumpInv ==
  /\ pc = [w \in Worker |-> pc[w]] /\ todo = [w \in Worker |-> todo[w]]
  /\ Waits(pc, conn)
  /\ pc[Pump] \in {"rest", "pop", "hold", "lock", "io"}
  /\ pc[Pump] \in {"hold", "lock"} => Popped(todo[Pump], last)
  /\ pc[Pump] = "io" => todo[Pump] = <<>>
  /\ StepFlag[1] \in stale => last = "?"
  /\ Known(cache, last)

IInv == LibInv /\ PumpInv

-----------------------------------------------------------------------------
(* Sequences of whatever elements.                                         *)

\* The library's sequences are sequences.
LEMMA SeqOfElements ==
  ASSUME NEW S, NEW s \in Seq(S)
  PROVE  IsSeq(s)
<1>1. Len(s) \in Nat /\ DOMAIN s = 1 .. Len(s) /\ s = [i \in 1 .. Len(s) |-> s[i]]
  OBVIOUS
<1>2. \A i \in 1 .. Len(s) : s[i] \in Range(s)
  BY <1>1 DEF Range
<1> QED
  BY <1>1, <1>2 DEF IsSeq

\* A sequence has its indices.
LEMMA SeqShape ==
  ASSUME NEW s, IsSeq(s)
  PROVE  Len(s) \in Nat /\ DOMAIN s = 1 .. Len(s) /\ (s # <<>> <=> Len(s) > 0)
  BY DEF IsSeq

\* A sequence with an element behind it.
LEMMA AppendShape ==
  ASSUME NEW s, NEW e, IsSeq(s)
  PROVE  /\ IsSeq(Append(s, e)) /\ Append(s, e) # <<>>
         /\ Len(Append(s, e)) = Len(s) + 1
         /\ \A i \in 1 .. Len(s) : Append(s, e)[i] = s[i]
         /\ Append(s, e)[Len(s) + 1] = e
<1> DEFINE S == Range(s) \cup {e}
<1>1. s \in Seq(S) /\ e \in S
  <2>1. s \in Seq(Range(s)) /\ Range(s) \subseteq S
    BY DEF IsSeq
  <2> HIDE DEF S
  <2>2. s \in Seq(S)
    BY <2>1
  <2> QED
    BY <2>2 DEF S
<1> HIDE DEF S
<1>2. IsSeq(Append(s, e))
  <2>1. Append(s, e) \in Seq(S)
    BY <1>1
  <2> QED
    BY <2>1, SeqOfElements
<1>3. Len(Append(s, e)) = Len(s) + 1 /\ Len(s) \in Nat
  BY <1>1
<1>4. \A i \in 1 .. Len(s) : Append(s, e)[i] = s[i]
  BY <1>1
<1>5. Append(s, e)[Len(s) + 1] = e
  BY <1>1
<1>6. Append(s, e) # <<>>
  BY <1>2, <1>3, SeqShape
<1> QED
  BY <1>2, <1>3, <1>4, <1>5, <1>6

\* A sequence without its first element.
LEMMA TailShape ==
  ASSUME NEW s, IsSeq(s), s # <<>>
  PROVE  /\ IsSeq(Tail(s)) /\ Head(s) = s[1] /\ Len(s) >= 1
         /\ Len(Tail(s)) = Len(s) - 1
         /\ \A i \in 1 .. Len(s) - 1 : Tail(s)[i] = s[i + 1]
<1> DEFINE S == Range(s)
<1>1. s \in Seq(S)
  BY DEF IsSeq
<1> HIDE DEF S
<1>2. Tail(s) \in Seq(S)
  BY <1>1
<1>3. IsSeq(Tail(s))
  BY <1>2, SeqOfElements
<1> QED
  BY <1>1, <1>3

\* A sequence without its last element.
LEMMA FrontShape ==
  ASSUME NEW s, IsSeq(s), s # <<>>
  PROVE  /\ IsSeq(SubSeq(s, 1, Len(s) - 1))
         /\ Len(SubSeq(s, 1, Len(s) - 1)) = Len(s) - 1
         /\ \A i \in 1 .. Len(s) - 1 : SubSeq(s, 1, Len(s) - 1)[i] = s[i]
<1> DEFINE S == Range(s)
<1>1. s \in Seq(S) /\ Len(s) \in Nat /\ Len(s) >= 1
  BY DEF IsSeq
<1> HIDE DEF S
<1> DEFINE n == Len(s) - 1
           f == SubSeq(s, 1, n)
<1>2. f \in Seq(S) /\ Len(f) = n /\ \A i \in 1 .. n : f[i] = s[i]
  <2>1. n \in Nat /\ \A i \in 1 .. n : s[i] \in S
    BY <1>1
  <2> HIDE DEF n
  <2> QED
    BY <2>1, SubSeqProperties
<1>3. IsSeq(f)
  BY <1>2, SeqOfElements
<1> QED
  BY <1>2, <1>3

\* A sequence with its first element replaced.
LEMMA ExceptShape ==
  ASSUME NEW s, NEW e, IsSeq(s), s # <<>>
  PROVE  /\ IsSeq([s EXCEPT ![1] = e]) /\ [s EXCEPT ![1] = e] # <<>>
         /\ Len([s EXCEPT ![1] = e]) = Len(s)
         /\ [s EXCEPT ![1] = e][1] = e
         /\ \A i \in 2 .. Len(s) : [s EXCEPT ![1] = e][i] = s[i]
<1> DEFINE S == Range(s) \cup {e}
           f == [s EXCEPT ![1] = e]
<1>1. s \in Seq(S) /\ e \in S /\ 1 \in DOMAIN s
  <2>1. s \in Seq(Range(s)) /\ Range(s) \subseteq S
    BY DEF IsSeq
  <2> HIDE DEF S
  <2>2. s \in Seq(S)
    BY <2>1
  <2> QED
    BY <2>2 DEF S
<1> HIDE DEF S
<1>2. f \in Seq(S) /\ Len(f) = Len(s) /\ f[1] = e /\ \A i \in 2 .. Len(s) : f[i] = s[i]
  BY <1>1
<1>3. IsSeq(f)
  BY <1>2, SeqOfElements
<1> QED
  BY <1>1, <1>2, <1>3

(* Which places of a sequence write or read a cell.                        *)
LEMMA Places ==
  ASSUME NEW s, NEW c, NEW i, IsSeq(s)
  PROVE  /\ i \in Writing(c, s) <=> i \in 1 .. Len(s) /\ c \in DOMAIN s[i].data /\ s[i].op # "read"
         /\ i \in Reading(c, s) <=> i \in 1 .. Len(s) /\ c \in DOMAIN s[i].data /\ s[i].op = "read"
  BY SeqShape DEF Writing, Reading, On

-----------------------------------------------------------------------------
(* The steps of the library and the device.                                *)

\* A call queued: Module.write_bytes has changed the cache, a read has not.
LEMMA CallKeepsCoherent ==
  ASSUME NEW dv, NEW ca, NEW co, NEW wi, NEW st, NEW q,
         Coherent(dv, ca, co, wi, st), IsCall(q), q.at = "queued"
  PROVE  Coherent(dv, CacheAtCall(q, ca), Append(co, q), wi, StaleAtCall(q, co, st))
<1> DEFINE ca2 == CacheAtCall(q, ca)
           co2 == Append(co, q)
           st2 == StaleAtCall(q, co, st)
           n == Len(co)
<1>1. Queue(co, wi) /\ Answer(dv, co) /\ \A c \in Cell \ st : Fresh(c, dv, ca, co, wi)
  BY DEF Coherent
<1>2. IsSeq(co) /\ IsSeq(wi) /\ n \in Nat /\ (co # <<>> => n > 0)
  BY <1>1, SeqShape DEF Queue
<1>3. /\ IsSeq(co2) /\ co2 # <<>> /\ Len(co2) = n + 1
      /\ \A i \in 1 .. n : co2[i] = co[i]
      /\ co2[n + 1] = q
  BY <1>2, AppendShape
<1> HIDE DEF co2, ca2, st2, n
<1>4. co2[1] = IF co = <<>> THEN q ELSE co[1]
  <2>1. CASE co = <<>>
    <3>1. n = 0
      BY <2>1 DEF n
    <3> QED
      BY <1>3, <2>1, <3>1
  <2>2. CASE co # <<>>
    BY <1>2, <1>3, <2>2
  <2> QED
    BY <2>1, <2>2
<1>5. Queue(co2, wi)
  <2>1. ASSUME NEW i \in 1 .. Len(co2)
        PROVE  IsCall(co2[i]) /\ (i > 1 \/ co2[i].op = "write" => co2[i].at = "queued")
    <3>1. CASE i = n + 1
      BY <1>3, <3>1
    <3>2. CASE i # n + 1
      <4>1. i \in 1 .. n
        BY <1>2, <1>3, <3>2
      <4> QED
        BY <1>1, <1>3, <4>1 DEF Queue, n
    <3> QED
      BY <3>1, <3>2
  <2>2. \A i \in 1 .. Len(wi) :
          /\ wi[i].op \in {"read", "write"}
          /\ wi[i].op = "read" => /\ i = Len(wi) /\ co2[1].op = "read" /\ co2[1].at = "sent"
                                  /\ co2[1].data = wi[i].data
    BY <1>1, <1>4 DEF Queue
  <2>3. co2[1].at \in {"answered", "broken"} => wi = <<>>
    BY <1>1, <1>4 DEF Queue
  <2> QED
    BY <1>2, <1>3, <2>1, <2>2, <2>3 DEF Queue
<1>6. Answer(dv, co2)
  BY <1>1, <1>3, <1>4 DEF Answer
<1>7. ASSUME NEW c \in Cell \ st2 PROVE Fresh(c, dv, ca2, co2, wi)
  <2>1. \A i : /\ i \in Writing(c, co) <=> i \in 1 .. n /\ c \in DOMAIN co[i].data /\ co[i].op # "read"
               /\ i \in Reading(c, co) <=> i \in 1 .. n /\ c \in DOMAIN co[i].data /\ co[i].op = "read"
    BY <1>2, Places DEF n
  <2>2. \A i : /\ i \in Writing(c, co2) <=> i \in 1 .. n + 1 /\ c \in DOMAIN co2[i].data /\ co2[i].op # "read"
               /\ i \in Reading(c, co2) <=> i \in 1 .. n + 1 /\ c \in DOMAIN co2[i].data /\ co2[i].op = "read"
    BY <1>3, Places
  <2>3. CASE q.op = "write" /\ c \in DOMAIN q.data
    <3>1. n + 1 \in Writing(c, co2)
      BY <1>2, <1>3, <2>2, <2>3
    <3>2. c \in Reg => Reading(c, co) = {}
      BY <1>7, <2>3 DEF StaleAtCall, st2
    <3>3. c \in Reg => Reading(c, co2) = {}
      <4> SUFFICES ASSUME c \in Reg, NEW i, i \in Reading(c, co2) PROVE FALSE
        OBVIOUS
      <4>1. CASE i = n + 1
        BY <1>3, <2>2, <2>3, <4>1
      <4>2. CASE i # n + 1
        <5>1. i \in 1 .. n
          BY <1>2, <2>2, <4>2
        <5> QED
          BY <1>3, <2>1, <2>2, <3>2, <5>1
      <4> QED
        BY <4>1, <4>2
    <3>4. LastWrite(c, co2, ca2[c])
      <4>1. ca2[c] = q.data[c]
        BY <2>3 DEF CacheAtCall, ca2
      <4>2. \A i \in Writing(c, co2) : (\A j \in Writing(c, co2) : j <= i) => i = n + 1
        BY <1>2, <2>2, <3>1
      <4> QED
        BY <1>3, <4>1, <4>2 DEF LastWrite
    <3> QED
      BY <3>1, <3>3, <3>4 DEF Fresh
  <2>4. CASE ~(q.op = "write" /\ c \in DOMAIN q.data)
    <3>1. ca2[c] = ca[c]
      BY <2>4 DEF CacheAtCall, ca2
    <3>2. c \notin st
      BY <1>7, <2>4 DEF StaleAtCall, st2, IsCall, Cell
    <3>3. Fresh(c, dv, ca, co, wi)
      BY <1>1, <3>2
    <3>4. Writing(c, co2) = Writing(c, co)
      <4>1. \A i : i \in Writing(c, co2) <=> i \in Writing(c, co)
        <5> TAKE i
        <5>1. CASE i = n + 1
          BY <1>2, <1>3, <2>1, <2>2, <2>4, <5>1 DEF IsCall
        <5>2. CASE i # n + 1
          <6>1. i \in 1 .. n + 1 <=> i \in 1 .. n
            BY <1>2, <5>2
          <6> QED
            BY <1>3, <2>1, <2>2, <6>1
        <5> QED
          BY <5>1, <5>2
      <4> QED
        BY <4>1
    <3>5. LastWrite(c, co, ca[c]) => LastWrite(c, co2, ca2[c])
      BY <1>3, <2>1, <3>1, <3>4 DEF LastWrite
    <3>6. c \in Reg => \A i \in Reading(c, co2), j \in Writing(c, co2) : j < i
      <4> SUFFICES ASSUME c \in Reg, NEW i \in Reading(c, co2), NEW j \in Writing(c, co) PROVE j < i
        BY <3>4
      <4>1. CASE i = n + 1
        BY <1>2, <2>1, <4>1
      <4>2. CASE i # n + 1
        <5>1. i \in 1 .. n
          BY <1>2, <2>2, <4>2
        <5>2. i \in Reading(c, co)
          BY <1>3, <2>1, <2>2, <5>1
        <5> QED
          BY <3>3, <5>2 DEF Fresh
      <4> QED
        BY <4>1, <4>2
    <3> QED
      BY <3>1, <3>3, <3>4, <3>5, <3>6 DEF Fresh, Settled
  <2> QED
    BY <2>3, <2>4
<1> QED
  BY <1>5, <1>6, <1>7 DEF Coherent, co2, ca2, st2
-----------------------------------------------------------------------------
(* What taking off the head, or adding at the end, does to those places.   *)
LEMMA TailPlaces ==
  ASSUME NEW s, NEW c, IsSeq(s), s # <<>>
  PROVE  /\ Writing(c, Tail(s)) = {i \in 1 .. Len(s) - 1 : i + 1 \in Writing(c, s)}
         /\ Reading(c, Tail(s)) = {i \in 1 .. Len(s) - 1 : i + 1 \in Reading(c, s)}
<1>1. /\ IsSeq(Tail(s)) /\ Len(Tail(s)) = Len(s) - 1 /\ Len(s) \in Nat
      /\ \A i \in 1 .. Len(s) - 1 : Tail(s)[i] = s[i + 1]
  BY TailShape, SeqShape
<1>2. ASSUME NEW i
      PROVE  /\ i \in Writing(c, Tail(s)) <=> i \in 1 .. Len(s) - 1 /\ i + 1 \in Writing(c, s)
             /\ i \in Reading(c, Tail(s)) <=> i \in 1 .. Len(s) - 1 /\ i + 1 \in Reading(c, s)
  <2>1. /\ i \in Writing(c, Tail(s)) \/ i \in Reading(c, Tail(s)) => i \in 1 .. Len(s) - 1
        /\ i \in 1 .. Len(s) - 1 => i + 1 \in 1 .. Len(s) /\ i \in 1 .. Len(Tail(s))
    <3>1. i \in Writing(c, Tail(s)) \/ i \in Reading(c, Tail(s)) => i \in 1 .. Len(Tail(s))
      BY <1>1, Places
    <3> QED
      BY <1>1, <3>1
  <2>2. CASE i \in 1 .. Len(s) - 1
    <3>1. /\ i \in Writing(c, Tail(s)) <=> c \in DOMAIN Tail(s)[i].data /\ Tail(s)[i].op # "read"
          /\ i \in Reading(c, Tail(s)) <=> c \in DOMAIN Tail(s)[i].data /\ Tail(s)[i].op = "read"
      BY <1>1, <2>1, <2>2, Places
    <3>2. /\ i + 1 \in Writing(c, s) <=> c \in DOMAIN s[i + 1].data /\ s[i + 1].op # "read"
          /\ i + 1 \in Reading(c, s) <=> c \in DOMAIN s[i + 1].data /\ s[i + 1].op = "read"
      BY <2>1, <2>2, Places
    <3> QED
      BY <1>1, <2>2, <3>1, <3>2
  <2> QED
    BY <2>1, <2>2
<1> QED
  BY <1>2

\* What is known of the requests when the first one leaves.
LEMMA TailKeeps ==
  ASSUME NEW s, NEW c, NEW v, IsSeq(s), s # <<>>
  PROVE  /\ LastWrite(c, s, v) => LastWrite(c, Tail(s), v)
         /\ (\A i \in Reading(c, s), j \in Writing(c, s) : j < i) =>
              \A i \in Reading(c, Tail(s)), j \in Writing(c, Tail(s)) : j < i
         /\ Writing(c, Tail(s)) = {} => Writing(c, s) \subseteq {1}
         /\ 1 \notin Writing(c, s) => (Writing(c, Tail(s)) = {} <=> Writing(c, s) = {})
<1>1. /\ Len(s) \in Nat /\ Len(s) >= 1
      /\ \A i \in 1 .. Len(s) - 1 : Tail(s)[i] = s[i + 1]
  BY TailShape, SeqShape
<1>2. /\ \A i : i \in Writing(c, Tail(s)) <=> i \in 1 .. Len(s) - 1 /\ i + 1 \in Writing(c, s)
      /\ \A i : i \in Reading(c, Tail(s)) <=> i \in 1 .. Len(s) - 1 /\ i + 1 \in Reading(c, s)
  BY TailPlaces
<1>3. \A i : i \in Writing(c, s) \/ i \in Reading(c, s) => i \in 1 .. Len(s)
  BY Places
<1>4. \A j \in Writing(c, s) : j = 1 \/ j - 1 \in Writing(c, Tail(s))
  <2> SUFFICES ASSUME NEW j \in Writing(c, s), j # 1 PROVE j - 1 \in Writing(c, Tail(s))
    OBVIOUS
  <2>1. j \in 1 .. Len(s)
    BY <1>3
  <2>2. j - 1 \in 1 .. Len(s) - 1 /\ (j - 1) + 1 = j
    BY <1>1, <2>1
  <2> QED
    BY <1>2, <2>2
<1>5. ASSUME LastWrite(c, s, v) PROVE LastWrite(c, Tail(s), v)
  <2> SUFFICES ASSUME NEW i \in Writing(c, Tail(s)), \A j \in Writing(c, Tail(s)) : j <= i
               PROVE  Tail(s)[i].data[c] = v
    BY DEF LastWrite
  <2>1. i \in 1 .. Len(s) - 1 /\ i + 1 \in Writing(c, s) /\ Tail(s)[i] = s[i + 1]
    BY <1>1, <1>2
  <2>2. ASSUME NEW j \in Writing(c, s) PROVE j <= i + 1
    <3>1. j \in 1 .. Len(s)
      BY <1>3
    <3>2. CASE j = 1
      BY <1>1, <2>1, <3>2
    <3>3. CASE j - 1 \in Writing(c, Tail(s))
      <4>1. j - 1 <= i
        BY <3>3
      <4> QED
        BY <1>1, <2>1, <3>1, <4>1
    <3> QED
      BY <1>4, <3>2, <3>3
  <2> QED
    BY <1>5, <2>1, <2>2 DEF LastWrite
<1>6. ASSUME \A i \in Reading(c, s), j \in Writing(c, s) : j < i,
             NEW i \in Reading(c, Tail(s)), NEW j \in Writing(c, Tail(s))
      PROVE  j < i
  <2>1. i \in 1 .. Len(s) - 1 /\ j \in 1 .. Len(s) - 1 /\ j + 1 < i + 1
    BY <1>2, <1>6
  <2> QED
    BY <1>1, <2>1
<1>7. 1 \notin Writing(c, s) => (Writing(c, Tail(s)) = {} <=> Writing(c, s) = {})
  BY <1>2, <1>4
<1>8. Writing(c, Tail(s)) = {} => Writing(c, s) \subseteq {1}
  BY <1>4
<1> QED
  BY <1>5, <1>6, <1>7, <1>8

\* What is known of the requests when one is added.
LEMMA AppendPlaces ==
  ASSUME NEW s, NEW e, NEW c, NEW v, IsSeq(s)
  PROVE  /\ c \in DOMAIN e.data /\ e.op # "read" =>
              /\ Writing(c, Append(s, e)) # {}
              /\ e.data[c] = v => LastWrite(c, Append(s, e), v)
         /\ ~(c \in DOMAIN e.data /\ e.op # "read") =>
              /\ Writing(c, Append(s, e)) = Writing(c, s)
              /\ LastWrite(c, s, v) => LastWrite(c, Append(s, e), v)
<1> DEFINE s2 == Append(s, e)
           n == Len(s)
<1>1. /\ IsSeq(s2) /\ Len(s2) = n + 1 /\ n \in Nat
      /\ \A i \in 1 .. n : s2[i] = s[i]
      /\ s2[n + 1] = e
  BY AppendShape, SeqShape
<1> HIDE DEF s2, n
<1>2. /\ \A i : i \in Writing(c, s) <=> i \in 1 .. n /\ c \in DOMAIN s[i].data /\ s[i].op # "read"
      /\ \A i : i \in Writing(c, s2) <=> i \in 1 .. n + 1 /\ c \in DOMAIN s2[i].data /\ s2[i].op # "read"
  BY <1>1, Places DEF n
<1>3. ASSUME NEW i PROVE i \in 1 .. n + 1 <=> i = n + 1 \/ i \in 1 .. n
  BY <1>1
<1>4. CASE c \in DOMAIN e.data /\ e.op # "read"
  <2>1. n + 1 \in Writing(c, s2)
    BY <1>1, <1>2, <1>4
  <2>2. \A i \in Writing(c, s2) : (\A j \in Writing(c, s2) : j <= i) => i = n + 1
    BY <1>1, <1>2, <2>1
  <2> QED
    BY <1>1, <1>4, <2>1, <2>2 DEF LastWrite, s2
<1>5. CASE ~(c \in DOMAIN e.data /\ e.op # "read")
  <2>1. ASSUME NEW i PROVE i \in Writing(c, s2) <=> i \in Writing(c, s)
    <3>1. i = n + 1 => i \notin Writing(c, s2) /\ i \notin Writing(c, s)
      BY <1>1, <1>2, <1>5
    <3>2. i \in 1 .. n => (i \in Writing(c, s2) <=> i \in Writing(c, s))
      BY <1>1, <1>2, <1>3
    <3> QED
      BY <1>2, <1>3, <3>1, <3>2
  <2>2. Writing(c, s2) = Writing(c, s)
    BY <2>1
  <2>3. LastWrite(c, s, v) => LastWrite(c, s2, v)
    BY <1>1, <1>2, <2>2 DEF LastWrite
  <2> QED
    BY <1>5, <2>2, <2>3 DEF s2
<1> QED
  BY <1>4, <1>5

\* The head of the queue gone, whatever is behind it has only been queued.
LEMMA TailQueue ==
  ASSUME NEW dv, NEW co, NEW wi, NEW wi2, Queue(co, wi), co # <<>>,
         IsSeq(wi2), \A i \in 1 .. Len(wi2) : wi2[i].op = "write"
  PROVE  Queue(Tail(co), wi2) /\ Answer(dv, Tail(co))
<1>1. /\ IsSeq(Tail(co)) /\ Len(Tail(co)) = Len(co) - 1 /\ Len(co) \in Nat
      /\ \A i \in 1 .. Len(co) - 1 : Tail(co)[i] = co[i + 1]
  BY TailShape, SeqShape DEF Queue
<1>2. ASSUME NEW i \in 1 .. Len(Tail(co)) PROVE IsCall(Tail(co)[i]) /\ Tail(co)[i].at = "queued"
  <2>1. i + 1 \in 1 .. Len(co) /\ i + 1 > 1 /\ Tail(co)[i] = co[i + 1]
    BY <1>1
  <2> QED
    BY <2>1 DEF Queue
<1>3. Tail(co) # <<>> => Tail(co)[1].at = "queued"
  <2> SUFFICES ASSUME Tail(co) # <<>> PROVE Tail(co)[1].at = "queued"
    OBVIOUS
  <2>1. 1 \in 1 .. Len(Tail(co))
    BY <1>1, SeqShape
  <2> QED
    BY <1>2, <2>1
<1>4. Queue(Tail(co), wi2)
  BY <1>1, <1>2, <1>3 DEF Queue
<1> QED
  BY <1>3, <1>4 DEF Answer

\* A write goes out and returns: a lane is cached once more.
LEMMA WriteReturnKeeps ==
  ASSUME NEW dv, NEW ca, NEW co, NEW wi, NEW st,
         Coherent(dv, ca, co, wi, st), co # <<>>, Head(co).op = "write"
  PROVE  Coherent(dv, CacheAtReturn(Head(co), ca), Tail(co), Append(wi, Head(co)),
                  StaleAtReturn(Head(co), Tail(co), st))
<1> DEFINE q == Head(co)
           ca2 == CacheAtReturn(q, ca)
           co2 == Tail(co)
           wi2 == Append(wi, q)
           st2 == StaleAtReturn(q, co2, st)
<1>1. Queue(co, wi) /\ \A c \in Cell \ st : Fresh(c, dv, ca, co, wi)
  BY DEF Coherent
<1>2. IsSeq(co) /\ IsSeq(wi) /\ Len(wi) \in Nat /\ q = co[1] /\ 1 \in 1 .. Len(co)
  BY <1>1, SeqShape, TailShape DEF Queue
<1>3. IsCall(q) /\ q.op = "write"
  BY <1>1, <1>2 DEF Queue
<1>4. Queue(co2, wi2) /\ Answer(dv, co2)
  <2>1. \A i \in 1 .. Len(wi) : wi[i].op = "write"
    BY <1>1, <1>2, <1>3 DEF Queue
  <2>2. IsSeq(wi2) /\ \A i \in 1 .. Len(wi2) : wi2[i].op = "write"
    <3>1. /\ IsSeq(wi2) /\ Len(wi2) = Len(wi) + 1 /\ wi2[Len(wi) + 1] = q
          /\ \A i \in 1 .. Len(wi) : wi2[i] = wi[i]
      BY <1>2, AppendShape
    <3> HIDE DEF wi2, q
    <3>2. ASSUME NEW i \in 1 .. Len(wi2), i # Len(wi) + 1 PROVE i \in 1 .. Len(wi)
      BY <1>2, <3>1, <3>2
    <3> QED
      BY <1>3, <2>1, <3>1, <3>2
  <2> HIDE DEF wi2
  <2> QED
    BY <1>1, <2>2, TailQueue
<1> HIDE DEF q, ca2, co2, wi2, st2
<1>5. ASSUME NEW c \in Cell \ st2 PROVE Fresh(c, dv, ca2, co2, wi2)
  <2>1. 1 \in Writing(c, co) <=> c \in DOMAIN q.data
    BY <1>2, <1>3, Places
  <2>2. CASE c \in DOMAIN q.data /\ c \in Lane
    <3>1. ca2[c] = q.data[c]
      BY <2>2 DEF CacheAtReturn, ca2
    <3>2. LastWrite(c, wi2, ca2[c]) /\ Writing(c, wi2) # {}
      BY <1>2, <1>3, <2>2, <3>1, AppendPlaces DEF wi2
    <3>3. c \notin Reg
      BY <2>2, MapAssumption
    <3> QED
      BY <3>2, <3>3 DEF Fresh, Settled
  <2>3. CASE ~(c \in DOMAIN q.data /\ c \in Lane)
    <3>1. ca2[c] = ca[c] /\ c \notin st
      BY <1>3, <1>5, <2>3 DEF CacheAtReturn, ca2, StaleAtReturn, st2
    <3>2. Fresh(c, dv, ca, co, wi)
      BY <1>1, <3>1
    <3>3. /\ LastWrite(c, co, ca[c]) => LastWrite(c, co2, ca[c])
          /\ (\A i \in Reading(c, co), j \in Writing(c, co) : j < i) =>
               \A i \in Reading(c, co2), j \in Writing(c, co2) : j < i
          /\ Writing(c, co2) = {} => Writing(c, co) \subseteq {1}
          /\ 1 \notin Writing(c, co) => (Writing(c, co2) = {} <=> Writing(c, co) = {})
      BY <1>2, TailKeeps DEF co2
    <3>4. ASSUME Writing(c, co2) = {} PROVE Settled(c, dv, ca, wi2)
      <4>1. CASE c \in DOMAIN q.data
        <5>1. c \in Reg /\ Writing(c, co) = {1}
          BY <2>1, <2>3, <3>3, <3>4, <4>1 DEF Cell
        <5>2. q.data[c] = ca[c]
          BY <1>2, <3>2, <5>1 DEF Fresh, LastWrite
        <5>3. LastWrite(c, wi2, ca[c]) /\ Writing(c, wi2) # {}
          BY <1>2, <1>3, <4>1, <5>2, AppendPlaces DEF wi2
        <5> QED
          BY <5>3 DEF Settled
      <4>2. CASE c \notin DOMAIN q.data
        <5>1. Settled(c, dv, ca, wi)
          BY <2>1, <3>2, <3>3, <3>4, <4>2 DEF Fresh
        <5>2. Writing(c, wi2) = Writing(c, wi) /\ (LastWrite(c, wi, ca[c]) => LastWrite(c, wi2, ca[c]))
          BY <1>2, <4>2, AppendPlaces DEF wi2
        <5> QED
          BY <5>1, <5>2 DEF Settled
      <4> QED
        BY <4>1, <4>2
    <3> QED
      BY <3>1, <3>2, <3>3, <3>4 DEF Fresh, Settled
  <2> QED
    BY <2>2, <2>3
<1> QED
  BY <1>4, <1>5 DEF Coherent, q, ca2, co2, wi2, st2

\* The reply to a read is cached.
LEMMA ReadReturnKeeps ==
  ASSUME NEW dv, NEW ca, NEW co, NEW wi, NEW st,
         Coherent(dv, ca, co, wi, st), co # <<>>, Head(co).at = "answered"
  PROVE  /\ Head(co).op = "read"
         /\ Coherent(dv, CacheAtReturn(Head(co), ca), Tail(co), wi,
                     StaleAtReturn(Head(co), Tail(co), st))
         /\ \A c \in Reg \ st : Acc[c] # "rc" => CacheAtReturn(Head(co), ca)[c] = ca[c]
<1> DEFINE q == Head(co)
           ca2 == CacheAtReturn(q, ca)
           co2 == Tail(co)
           st2 == StaleAtReturn(q, co2, st)
<1>1. Queue(co, wi) /\ Answer(dv, co) /\ \A c \in Cell \ st : Fresh(c, dv, ca, co, wi)
  BY DEF Coherent
<1>2. IsSeq(co) /\ q = co[1] /\ 1 \in 1 .. Len(co)
  BY <1>1, SeqShape, TailShape DEF Queue
<1>3. IsCall(q) /\ q.op = "read" /\ wi = <<>>
  BY <1>1, <1>2 DEF Queue, IsCall
<1>4. IsSeq(wi) /\ Len(wi) = 0 /\ \A c : Writing(c, wi) = {}
  <2>1. IsSeq(wi) /\ Len(wi) = 0
    BY <1>1, <1>3 DEF Queue
  <2> QED
    BY <2>1, Places
<1>5. Queue(co2, wi) /\ Answer(dv, co2)
  <2>1. \A i \in 1 .. Len(wi) : wi[i].op = "write"
    BY <1>4
  <2> QED
    BY <1>1, <1>4, <2>1, TailQueue
<1> HIDE DEF q, ca2, co2, st2
<1>6. ASSUME NEW c \in Cell \ st2 PROVE Fresh(c, dv, ca2, co2, wi)
  <2>1. 1 \notin Writing(c, co) /\ (1 \in Reading(c, co) <=> c \in DOMAIN q.data)
    BY <1>2, <1>3, Places
  <2>2. /\ LastWrite(c, co, ca[c]) => LastWrite(c, co2, ca[c])
        /\ (\A i \in Reading(c, co), j \in Writing(c, co) : j < i) =>
             \A i \in Reading(c, co2), j \in Writing(c, co2) : j < i
        /\ Writing(c, co2) = {} <=> Writing(c, co) = {}
    BY <1>2, <2>1, TailKeeps DEF co2
  <2>3. CASE c \in DOMAIN q.data
    <3>1. ca2[c] = q.data[c] /\ Shows(dv, c, ca2[c])
      BY <1>1, <1>2, <1>3, <2>3 DEF CacheAtReturn, ca2, Answer
    <3>2. Settled(c, dv, ca2, wi)
      BY <1>4, <3>1 DEF Settled, LastWrite
    <3>3. c \in Reg => Writing(c, co2) = {}
      <4>1. CASE c \in st
        BY <1>3, <1>6, <2>3, <4>1 DEF StaleAtReturn, st2
      <4>2. CASE c \notin st
        <5>1. c \in Reg => \A i \in Reading(c, co), j \in Writing(c, co) : j < i
          BY <1>1, <4>2 DEF Fresh
        <5>2. c \in Reg => \A j \in Writing(c, co) : j < 1
          BY <2>1, <2>3, <5>1
        <5>3. \A j \in Writing(c, co) : j \in 1 .. Len(co)
          BY <1>2, Places
        <5> QED
          BY <2>2, <5>2, <5>3
      <4> QED
        BY <4>1, <4>2
    <3> QED
      BY <3>2, <3>3 DEF Fresh, LastWrite
  <2>4. CASE c \notin DOMAIN q.data
    <3>1. ca2[c] = ca[c] /\ c \notin st
      BY <1>3, <1>6, <2>4 DEF CacheAtReturn, ca2, StaleAtReturn, st2
    <3>2. Fresh(c, dv, ca, co, wi)
      BY <1>1, <3>1
    <3> QED
      BY <2>2, <3>1, <3>2 DEF Fresh, Settled
  <2> QED
    BY <2>3, <2>4
<1>7. ASSUME NEW c \in Reg \ st, Acc[c] # "rc" PROVE ca2[c] = ca[c]
  <2>1. CASE c \in DOMAIN q.data
    <3>1. c \in Cell /\ Fresh(c, dv, ca, co, wi)
      BY <1>1 DEF Cell
    <3>2. 1 \in Reading(c, co) /\ \A j \in Writing(c, co) : j \in 1 .. Len(co)
      BY <1>2, <1>3, <2>1, Places
    <3>3. Writing(c, co) = {}
      <4>1. \A j \in Writing(c, co) : j < 1
        BY <3>1, <3>2 DEF Fresh
      <4> QED
        BY <3>2, <4>1
    <3>4. ca[c] = dv[c]
      BY <1>4, <1>7, <3>1, <3>3 DEF Fresh, Settled, Shows
    <3>5. q.data[c] = dv[c]
      BY <1>1, <1>2, <1>7, <2>1, <3>1 DEF Answer, Shows
    <3>6. ca2[c] = q.data[c]
      BY <1>3, <2>1, <3>1 DEF CacheAtReturn, ca2
    <3> QED
      BY <3>4, <3>5, <3>6
  <2>2. CASE c \notin DOMAIN q.data
    BY <2>2 DEF CacheAtReturn, ca2, Cell
  <2> QED
    BY <2>1, <2>2
<1> QED
  BY <1>3, <1>5, <1>6, <1>7 DEF Coherent, q, ca2, co2, st2

\* The read at the head is changed, its cells are not: no place is.
LEMMA HeadChange ==
  ASSUME NEW s, NEW e, NEW c, NEW v, IsSeq(s), s # <<>>,
         s[1].op = e.op, DOMAIN s[1].data = DOMAIN e.data, e.op = "read"
  PROVE  /\ Writing(c, [s EXCEPT ![1] = e]) = Writing(c, s)
         /\ Reading(c, [s EXCEPT ![1] = e]) = Reading(c, s)
         /\ LastWrite(c, s, v) => LastWrite(c, [s EXCEPT ![1] = e], v)
<1> DEFINE f == [s EXCEPT ![1] = e]
<1>1. /\ IsSeq(f) /\ Len(f) = Len(s) /\ f[1] = e
      /\ \A i \in 2 .. Len(s) : f[i] = s[i]
      /\ Len(s) \in Nat
  BY ExceptShape, SeqShape
<1> HIDE DEF f
<1>2. ASSUME NEW i \in 1 .. Len(s)
      PROVE  f[i].op = s[i].op /\ DOMAIN f[i].data = DOMAIN s[i].data /\ (f[i].op # "read" => f[i] = s[i])
  <2>1. i = 1 \/ i \in 2 .. Len(s)
    BY <1>1
  <2> QED
    BY <1>1, <2>1
<1>3. ASSUME NEW i
      PROVE  (i \in Writing(c, f) <=> i \in Writing(c, s)) /\ (i \in Reading(c, f) <=> i \in Reading(c, s))
  BY <1>1, <1>2, Places
<1>4. Writing(c, f) = Writing(c, s) /\ Reading(c, f) = Reading(c, s)
  BY <1>3
<1>5. \A i \in Writing(c, s) : f[i] = s[i]
  <2> SUFFICES ASSUME NEW i \in Writing(c, s) PROVE f[i] = s[i]
    OBVIOUS
  <2>1. i \in 1 .. Len(s) /\ s[i].op # "read"
    BY Places
  <2> QED
    BY <1>2, <2>1
<1> QED
  BY <1>4, <1>5 DEF LastWrite, f

\* The call at the head raises: what is left of the wire are writes.
LEMMA FailKeeps ==
  ASSUME NEW dv, NEW ca, NEW co, NEW wi, NEW st,
         Coherent(dv, ca, co, wi, st), co # <<>>
  PROVE  Coherent(dv, ca, Tail(co),
                  IF wi # <<>> /\ wi[Len(wi)].op = "read" THEN SubSeq(wi, 1, Len(wi) - 1) ELSE wi,
                  IF Head(co).op = "write" THEN st \cup DOMAIN Head(co).data ELSE st)
<1> DEFINE q == Head(co)
           co2 == Tail(co)
           wi2 == IF wi # <<>> /\ wi[Len(wi)].op = "read" THEN SubSeq(wi, 1, Len(wi) - 1) ELSE wi
           st2 == IF q.op = "write" THEN st \cup DOMAIN q.data ELSE st
<1>1. Queue(co, wi) /\ \A c \in Cell \ st : Fresh(c, dv, ca, co, wi)
  BY DEF Coherent
<1>2. /\ IsSeq(co) /\ IsSeq(wi) /\ Len(wi) \in Nat /\ (wi # <<>> <=> Len(wi) > 0)
      /\ q = co[1] /\ 1 \in 1 .. Len(co) /\ IsCall(q)
  BY <1>1, SeqShape, TailShape DEF Queue
<1>3. /\ IsSeq(wi2) /\ Len(wi2) \in Nat /\ Len(wi2) <= Len(wi)
      /\ \A i \in 1 .. Len(wi2) : wi2[i] = wi[i] /\ wi[i].op = "write"
      /\ \A i \in 1 .. Len(wi) : i \in 1 .. Len(wi2) \/ wi[i].op = "read"
  <2>1. \A i \in 1 .. Len(wi) : wi[i].op \in {"read", "write"} /\ (wi[i].op = "read" => i = Len(wi))
    BY <1>1 DEF Queue
  <2>2. CASE wi # <<>> /\ wi[Len(wi)].op = "read"
    <3>1. /\ wi2 = SubSeq(wi, 1, Len(wi) - 1)
          /\ IsSeq(wi2) /\ Len(wi2) = Len(wi) - 1 /\ \A i \in 1 .. Len(wi) - 1 : wi2[i] = wi[i]
      BY <1>2, <2>2, FrontShape
    <3> HIDE DEF wi2
    <3> QED
      BY <1>2, <2>1, <2>2, <3>1
  <2>3. CASE ~(wi # <<>> /\ wi[Len(wi)].op = "read")
    <3>1. wi2 = wi
      BY <2>3
    <3>2. \A i \in 1 .. Len(wi) : wi[i].op = "write"
      BY <1>2, <2>1, <2>3
    <3> QED
      BY <1>2, <3>1, <3>2
  <2> QED
    BY <2>2, <2>3
<1>4. Queue(co2, wi2) /\ Answer(dv, co2)
  <2> HIDE DEF wi2
  <2> QED
    BY <1>1, <1>3, TailQueue
<1> HIDE DEF q, co2, wi2, st2
<1>5. ASSUME NEW c \in Cell \ st2 PROVE Fresh(c, dv, ca, co2, wi2)
  <2>1. 1 \notin Writing(c, co) /\ c \notin st
    BY <1>2, <1>5, Places DEF st2, IsCall
  <2>2. Fresh(c, dv, ca, co, wi)
    BY <1>1, <2>1
  <2>3. /\ LastWrite(c, co, ca[c]) => LastWrite(c, co2, ca[c])
        /\ (\A i \in Reading(c, co), j \in Writing(c, co) : j < i) =>
             \A i \in Reading(c, co2), j \in Writing(c, co2) : j < i
        /\ Writing(c, co2) = {} <=> Writing(c, co) = {}
    BY <1>2, <2>1, TailKeeps DEF co2
  <2>4. ASSUME NEW i PROVE i \in Writing(c, wi2) <=> i \in Writing(c, wi)
    <3>1. i \in 1 .. Len(wi2) => i \in 1 .. Len(wi)
      BY <1>2, <1>3
    <3>2. i \in Writing(c, wi2) => i \in Writing(c, wi)
      BY <1>2, <1>3, <3>1, Places
    <3>3. i \in Writing(c, wi) => i \in Writing(c, wi2)
      BY <1>2, <1>3, Places
    <3> QED
      BY <3>2, <3>3
  <2>5. Writing(c, wi2) = Writing(c, wi)
    BY <2>4
  <2>6. \A i \in Writing(c, wi2) : wi2[i] = wi[i]
    BY <1>3, Places
  <2>7. Settled(c, dv, ca, wi) => Settled(c, dv, ca, wi2)
    BY <2>5, <2>6 DEF Settled, LastWrite
  <2> QED
    BY <2>2, <2>3, <2>7 DEF Fresh
<1> QED
  BY <1>4, <1>5 DEF Coherent, q, co2, wi2, st2

\* The connection breaks: the cells of the writes on the wire become stale.
Lost(wi) == UNION {DOMAIN wi[i].data : i \in {j \in DOMAIN wi : wi[j].op = "write"}}

\* The connection breaks: what was on the wire is lost, and its cells are stale.
LEMMA BreakKeeps ==
  ASSUME NEW dv, NEW ca, NEW co, NEW wi, NEW st,
         Coherent(dv, ca, co, wi, st), wi # <<>>
  PROVE  Coherent(dv, ca,
                  IF co # <<>> /\ Head(co).at = "sent" THEN [co EXCEPT ![1].at = "broken"] ELSE co,
                  <<>>,
                  st \cup Lost(wi))
<1> DEFINE e == [co[1] EXCEPT !.at = "broken"]
           co2 == IF co # <<>> /\ Head(co).at = "sent" THEN [co EXCEPT ![1].at = "broken"] ELSE co
           st2 == st \cup Lost(wi)
<1>1. Queue(co, wi) /\ Answer(dv, co) /\ \A c \in Cell \ st : Fresh(c, dv, ca, co, wi)
  BY DEF Coherent
<1>2. IsSeq(co) /\ IsSeq(wi) /\ Len(co) \in Nat /\ DOMAIN wi = 1 .. Len(wi)
  BY <1>1, SeqShape DEF Queue
<1>3. IsSeq(<<>>) /\ Len(<<>>) = 0
  <2>1. <<>> \in Seq({})
    OBVIOUS
  <2> QED
    BY <2>1, SeqOfElements
<1>4. \A c : Writing(c, <<>>) = {}
  BY <1>3, Places
<1>5. ASSUME NEW c \in Cell \ st2 PROVE c \notin st /\ Writing(c, wi) = {} /\ Fresh(c, dv, ca, co, <<>>)
  <2>1. c \notin st /\ c \notin Lost(wi)
    OBVIOUS
  <2>2. Writing(c, wi) = {}
    <3> SUFFICES ASSUME NEW i \in Writing(c, wi) PROVE FALSE
      OBVIOUS
    <3>1. i \in 1 .. Len(wi) /\ c \in DOMAIN wi[i].data /\ wi[i].op # "read"
      BY <1>2, Places
    <3>2. wi[i].op = "write"
      BY <1>1, <3>1 DEF Queue
    <3> QED
      BY <1>2, <2>1, <3>1, <3>2 DEF Lost
  <2>3. Fresh(c, dv, ca, co, wi)
    BY <1>1, <2>1
  <2>4. Settled(c, dv, ca, wi) => Settled(c, dv, ca, <<>>)
    BY <1>4, <2>2 DEF Settled, LastWrite
  <2> QED
    BY <2>1, <2>2, <2>3, <2>4 DEF Fresh
<1>6. CASE co # <<>> /\ Head(co).at = "sent"
  <2>1. co[1].at = "sent" /\ 1 \in 1 .. Len(co) /\ IsCall(co[1])
    <3>1. Head(co) = co[1] /\ 1 \in 1 .. Len(co)
      BY <1>2, <1>6, TailShape
    <3> QED
      BY <1>1, <1>6, <3>1 DEF Queue
  <2>2. co[1].op = "read"
    BY <1>1, <2>1 DEF Queue, IsCall
  <2>3. e = [task |-> co[1].task, op |-> "read", data |-> co[1].data, at |-> "broken"]
    BY <2>1, <2>2 DEF IsCall
  <2>4. co2 = [co EXCEPT ![1] = e]
    BY <1>6
  <2>5. e.op = "read" /\ e.at = "broken" /\ e.data = co[1].data /\ IsCall(e)
    BY <2>3 DEF IsCall
  <2> HIDE DEF e, co2, st2
  <2>6. /\ IsSeq(co2) /\ co2 # <<>> /\ Len(co2) = Len(co) /\ co2[1] = e
        /\ \A i \in 2 .. Len(co) : co2[i] = co[i]
    <3>1. /\ IsSeq([co EXCEPT ![1] = e]) /\ [co EXCEPT ![1] = e] # <<>>
          /\ Len([co EXCEPT ![1] = e]) = Len(co)
          /\ [co EXCEPT ![1] = e][1] = e
          /\ \A i \in 2 .. Len(co) : [co EXCEPT ![1] = e][i] = co[i]
      BY <1>2, <1>6, ExceptShape
    <3> QED
      BY <2>4, <3>1
  <2>7. Queue(co2, <<>>)
    <3>1. ASSUME NEW i \in 1 .. Len(co2) PROVE IsCall(co2[i]) /\ (i > 1 \/ co2[i].op = "write" => co2[i].at = "queued")
      <4>1. CASE i = 1
        BY <2>5, <2>6, <4>1
      <4>2. CASE i # 1
        <5>1. i \in 2 .. Len(co) /\ i \in 1 .. Len(co) /\ i > 1
          BY <1>2, <2>6, <4>2
        <5> QED
          BY <1>1, <2>6, <5>1 DEF Queue
      <4> QED
        BY <4>1, <4>2
    <3> QED
      BY <1>3, <2>6, <3>1 DEF Queue
  <2>8. Answer(dv, co2)
    BY <2>5, <2>6 DEF Answer
  <2>9. ASSUME NEW c \in Cell \ st2 PROVE Fresh(c, dv, ca, co2, <<>>)
    <3>1. /\ Writing(c, co2) = Writing(c, co) /\ Reading(c, co2) = Reading(c, co)
          /\ LastWrite(c, co, ca[c]) => LastWrite(c, co2, ca[c])
      BY <1>2, <1>6, <2>2, <2>4, <2>5, HeadChange
    <3> QED
      BY <1>5, <3>1 DEF Fresh, st2
  <2> QED
    BY <2>7, <2>8, <2>9 DEF Coherent, co2, st2
<1>7. CASE ~(co # <<>> /\ Head(co).at = "sent")
  <2>1. Queue(co, <<>>)
    BY <1>1, <1>3 DEF Queue
  <2> QED
    BY <1>1, <1>5, <1>7, <2>1 DEF Coherent
<1> QED
  BY <1>6, <1>7

\* The request of a read goes out.
LEMMA SendReadKeeps ==
  ASSUME NEW dv, NEW ca, NEW co, NEW wi, NEW st,
         Coherent(dv, ca, co, wi, st), co # <<>>, Head(co).op = "read", Head(co).at = "queued"
  PROVE  Coherent(dv, ca, [co EXCEPT ![1].at = "sent"], Append(wi, Head(co)), st)
<1> DEFINE e == [co[1] EXCEPT !.at = "sent"]
           co2 == [co EXCEPT ![1].at = "sent"]
           wi2 == Append(wi, Head(co))
<1>1. Queue(co, wi) /\ Answer(dv, co) /\ \A c \in Cell \ st : Fresh(c, dv, ca, co, wi)
  BY DEF Coherent
<1>2. /\ IsSeq(co) /\ IsSeq(wi) /\ Len(co) \in Nat /\ Len(wi) \in Nat
      /\ Head(co) = co[1] /\ 1 \in 1 .. Len(co) /\ IsCall(co[1])
  BY <1>1, SeqShape, TailShape DEF Queue
<1>3. e = [task |-> co[1].task, op |-> "read", data |-> co[1].data, at |-> "sent"]
  BY <1>2 DEF IsCall
<1>4. co2 = [co EXCEPT ![1] = e]
  OBVIOUS
<1>5. e.op = "read" /\ e.at = "sent" /\ e.data = co[1].data /\ IsCall(e)
  BY <1>3 DEF IsCall
<1>6. /\ IsSeq(wi2) /\ Len(wi2) = Len(wi) + 1 /\ wi2[Len(wi) + 1] = co[1]
      /\ \A i \in 1 .. Len(wi) : wi2[i] = wi[i]
  BY <1>2, AppendShape
<1> HIDE DEF e, co2, wi2
<1>7. /\ IsSeq(co2) /\ co2 # <<>> /\ Len(co2) = Len(co) /\ co2[1] = e
      /\ \A i \in 2 .. Len(co) : co2[i] = co[i]
  <2>1. /\ IsSeq([co EXCEPT ![1] = e]) /\ [co EXCEPT ![1] = e] # <<>>
        /\ Len([co EXCEPT ![1] = e]) = Len(co)
        /\ [co EXCEPT ![1] = e][1] = e
        /\ \A i \in 2 .. Len(co) : [co EXCEPT ![1] = e][i] = co[i]
    BY <1>2, ExceptShape
  <2> QED
    BY <1>4, <2>1
<1>8. Queue(co2, wi2)
  <2>1. ASSUME NEW i \in 1 .. Len(co2) PROVE IsCall(co2[i]) /\ (i > 1 \/ co2[i].op = "write" => co2[i].at = "queued")
    <3>1. CASE i = 1
      BY <1>5, <1>7, <3>1
    <3>2. CASE i # 1
      <4>1. i \in 2 .. Len(co) /\ i \in 1 .. Len(co) /\ i > 1
        BY <1>2, <1>7, <3>2
      <4> QED
        BY <1>1, <1>7, <4>1 DEF Queue
    <3> QED
      BY <3>1, <3>2
  <2>2. \A i \in 1 .. Len(wi) : wi[i].op = "write"
    <3>1. co[1].at = "queued"
      BY <1>2
    <3> QED
      BY <1>1, <3>1 DEF Queue
  <2>3. ASSUME NEW i \in 1 .. Len(wi2)
        PROVE  /\ wi2[i].op \in {"read", "write"}
               /\ wi2[i].op = "read" => i = Len(wi2) /\ co2[1].data = wi2[i].data
    <3>1. CASE i = Len(wi) + 1
      BY <1>2, <1>5, <1>6, <1>7, <3>1
    <3>2. CASE i # Len(wi) + 1
      <4>1. i \in 1 .. Len(wi)
        BY <1>2, <1>6, <3>2
      <4> QED
        BY <1>6, <2>2, <4>1
    <3> QED
      BY <3>1, <3>2
  <2> QED
    BY <1>5, <1>6, <1>7, <2>1, <2>3 DEF Queue
<1>9. Answer(dv, co2)
  BY <1>5, <1>7 DEF Answer
<1>10. ASSUME NEW c \in Cell \ st PROVE Fresh(c, dv, ca, co2, wi2)
  <2>1. /\ Writing(c, co2) = Writing(c, co) /\ Reading(c, co2) = Reading(c, co)
        /\ LastWrite(c, co, ca[c]) => LastWrite(c, co2, ca[c])
    BY <1>2, <1>4, <1>5, HeadChange
  <2>2. Writing(c, wi2) = Writing(c, wi) /\ (LastWrite(c, wi, ca[c]) => LastWrite(c, wi2, ca[c]))
    BY <1>2, AppendPlaces DEF wi2
  <2>3. Fresh(c, dv, ca, co, wi)
    BY <1>1
  <2> QED
    BY <2>1, <2>2, <2>3 DEF Fresh, Settled
<1> QED
  BY <1>8, <1>9, <1>10 DEF Coherent, co2, wi2

\* The device carries out the write at the head of the wire.
LEMMA ServeWriteKeeps ==
  ASSUME NEW dv, NEW ca, NEW co, NEW wi, NEW st,
         Coherent(dv, ca, co, wi, st), wi # <<>>, Head(wi).op = "write"
  PROVE  Coherent([x \in Cell |-> IF x \in DOMAIN Head(wi).data THEN Head(wi).data[x] ELSE dv[x]],
                  ca, co, Tail(wi), st)
<1> DEFINE q == Head(wi)
           dv2 == [x \in Cell |-> IF x \in DOMAIN q.data THEN q.data[x] ELSE dv[x]]
           wi2 == Tail(wi)
<1>1. Queue(co, wi) /\ Answer(dv, co) /\ \A c \in Cell \ st : Fresh(c, dv, ca, co, wi)
  BY DEF Coherent
<1>2. /\ IsSeq(wi) /\ Len(wi) \in Nat /\ q = wi[1] /\ 1 \in 1 .. Len(wi)
      /\ IsSeq(wi2) /\ Len(wi2) = Len(wi) - 1 /\ \A i \in 1 .. Len(wi) - 1 : wi2[i] = wi[i + 1]
  BY <1>1, SeqShape, TailShape DEF Queue
<1> HIDE DEF q, dv2, wi2
<1>3. Queue(co, wi2)
  <2>1. ASSUME NEW i \in 1 .. Len(wi2)
        PROVE  /\ wi2[i].op \in {"read", "write"}
               /\ wi2[i].op = "read" => /\ i = Len(wi2) /\ co # <<>>
                                        /\ co[1].op = "read" /\ co[1].at = "sent"
                                        /\ co[1].data = wi2[i].data
    <3>1. i + 1 \in 1 .. Len(wi) /\ wi2[i] = wi[i + 1] /\ (i + 1 = Len(wi) => i = Len(wi2))
      BY <1>2
    <3> QED
      BY <1>1, <3>1 DEF Queue
  <2>2. ~(co # <<>> /\ co[1].at \in {"answered", "broken"})
    BY <1>1 DEF Queue
  <2> QED
    BY <1>1, <1>2, <2>1, <2>2 DEF Queue
<1>4. Answer(dv2, co)
  BY <1>1 DEF Answer, Queue
<1>5. ASSUME NEW c \in Cell \ st PROVE Fresh(c, dv2, ca, co, wi2)
  <2>1. Fresh(c, dv, ca, co, wi)
    BY <1>1
  <2>2. /\ LastWrite(c, wi, ca[c]) => LastWrite(c, wi2, ca[c])
        /\ Writing(c, wi2) = {} => Writing(c, wi) \subseteq {1}
        /\ 1 \notin Writing(c, wi) => (Writing(c, wi2) = {} <=> Writing(c, wi) = {})
    BY <1>2, TailKeeps DEF wi2
  <2>3. ASSUME Settled(c, dv, ca, wi), Writing(c, wi2) = {} PROVE Shows(dv2, c, ca[c])
    <3>1. CASE 1 \in Writing(c, wi)
      <4>1. c \in DOMAIN q.data
        BY <1>2, <3>1, Places
      <4>2. dv2[c] = q.data[c]
        BY <4>1 DEF dv2
      <4>3. \A j \in Writing(c, wi) : j <= 1
        BY <2>2, <2>3
      <4>4. q.data[c] = ca[c]
        BY <1>2, <2>3, <3>1, <4>3 DEF Settled, LastWrite
      <4> QED
        BY <4>2, <4>4 DEF Shows
    <3>2. CASE 1 \notin Writing(c, wi)
      <4>1. c \notin DOMAIN q.data
        <5>1. q.op = "write"
          BY DEF q
        <5> QED
          BY <1>2, <3>2, <5>1, Places
      <4>2. dv2[c] = dv[c]
        BY <4>1 DEF dv2
      <4> QED
        BY <2>2, <2>3, <3>2, <4>2 DEF Shows, Settled
    <3> QED
      BY <3>1, <3>2
  <2>4. Settled(c, dv, ca, wi) => Settled(c, dv2, ca, wi2)
    BY <2>2, <2>3 DEF Settled
  <2> QED
    BY <2>1, <2>4 DEF Fresh
<1> QED
  BY <1>3, <1>4, <1>5 DEF Coherent, q, dv2, wi2

\* A call that is answered.
LEMMA AnsweredCall ==
  ASSUME NEW q, NEW d, IsCall(q)
  PROVE  [q EXCEPT !.at = "answered", !.data = d]
         = [task |-> q.task, op |-> q.op, data |-> d, at |-> "answered"]
<1>1. q = [task |-> q.task, op |-> q.op, data |-> q.data, at |-> q.at]
  BY DEF IsCall
<1> DEFINE p == [q EXCEPT !.at = "answered"]
<1>2. p = [task |-> q.task, op |-> q.op, data |-> q.data, at |-> "answered"]
  BY <1>1
<1> HIDE DEF p
<1>3. [p EXCEPT !.data = d] = [task |-> q.task, op |-> q.op, data |-> d, at |-> "answered"]
  BY <1>2
<1> QED
  BY <1>3 DEF p

\* The device answers the read at the head of the wire, and of the queue.
LEMMA ServeReadKeeps ==
  ASSUME NEW dv, NEW ca, NEW co, NEW wi, NEW st,
         Coherent(dv, ca, co, wi, st), wi # <<>>, Head(wi).op # "write"
  PROVE  Coherent(dv, ca,
                  [co EXCEPT ![1].at = "answered",
                             ![1].data = [x \in DOMAIN Head(wi).data |-> dv[x]]],
                  Tail(wi), st)
<1> DEFINE d == [x \in DOMAIN Head(wi).data |-> dv[x]]
           e == [co[1] EXCEPT !.at = "answered", !.data = d]
           co2 == [co EXCEPT ![1].at = "answered", ![1].data = d]
           wi2 == Tail(wi)
<1>1. Queue(co, wi) /\ \A c \in Cell \ st : Fresh(c, dv, ca, co, wi)
  BY DEF Coherent
<1>2. /\ IsSeq(co) /\ IsSeq(wi) /\ Len(co) \in Nat /\ Head(wi) = wi[1] /\ 1 \in 1 .. Len(wi)
      /\ IsSeq(wi2) /\ Len(wi2) = Len(wi) - 1
  BY <1>1, SeqShape, TailShape DEF Queue
<1>3. /\ Len(wi) = 1 /\ co # <<>> /\ co[1].op = "read" /\ co[1].at = "sent" /\ co[1].data = wi[1].data
      /\ wi[1].op = "read"
  <2>1. wi[1].op = "read"
    BY <1>1, <1>2 DEF Queue
  <2> QED
    BY <1>1, <1>2, <2>1 DEF Queue
<1>4. IsCall(co[1])
  <2>1. 1 \in 1 .. Len(co)
    BY <1>2, <1>3, TailShape
  <2> QED
    BY <1>1, <2>1 DEF Queue
<1>5. e = [task |-> co[1].task, op |-> "read", data |-> d, at |-> "answered"]
  <2>1. e = [task |-> co[1].task, op |-> co[1].op, data |-> d, at |-> "answered"]
    <3> HIDE DEF d
    <3> QED
      BY <1>4, AnsweredCall
  <2> QED
    BY <1>3, <2>1
<1>6. co2 = [co EXCEPT ![1] = e]
  <2>1. \A i \in DOMAIN co : co2[i] = [co EXCEPT ![1] = e][i]
    <3> HIDE DEF d
    <3> QED
      BY <1>2
  <2> HIDE DEF d
  <2> QED
    BY <2>1
<1>7. e.op = "read" /\ e.at = "answered" /\ e.data = d /\ IsCall(e) /\ DOMAIN d = DOMAIN co[1].data
  BY <1>2, <1>3, <1>5 DEF IsCall
<1> HIDE DEF d, e, co2, wi2
<1>8. Len(wi2) = 0 /\ wi2 = <<>>
  BY <1>2, <1>3, SeqShape
<1>9. ASSUME NEW c PROVE Writing(c, wi) = {} /\ Writing(c, wi2) = {}
  <2>1. \A i \in 1 .. Len(wi) : wi[i].op = "read"
    BY <1>2, <1>3
  <2>2. \A i : i \notin Writing(c, wi)
    BY <1>2, <2>1, Places
  <2>3. \A i \in 1 .. Len(wi2) : FALSE
    BY <1>8
  <2>4. \A i : i \notin Writing(c, wi2)
    BY <1>2, <2>3, Places
  <2> QED
    BY <2>2, <2>4
<1>10. /\ IsSeq(co2) /\ co2 # <<>> /\ Len(co2) = Len(co) /\ co2[1] = e
       /\ \A i \in 2 .. Len(co) : co2[i] = co[i]
  <2>1. /\ IsSeq([co EXCEPT ![1] = e]) /\ [co EXCEPT ![1] = e] # <<>>
        /\ Len([co EXCEPT ![1] = e]) = Len(co)
        /\ [co EXCEPT ![1] = e][1] = e
        /\ \A i \in 2 .. Len(co) : [co EXCEPT ![1] = e][i] = co[i]
    BY <1>2, <1>3, ExceptShape
  <2> QED
    BY <1>6, <2>1
<1>11. Queue(co2, wi2)
  <2>1. ASSUME NEW i \in 1 .. Len(co2) PROVE IsCall(co2[i]) /\ (i > 1 \/ co2[i].op = "write" => co2[i].at = "queued")
    <3>1. CASE i = 1
      BY <1>7, <1>10, <3>1
    <3>2. CASE i # 1
      <4>1. i \in 2 .. Len(co) /\ i \in 1 .. Len(co) /\ i > 1
        BY <1>2, <1>10, <3>2
      <4> QED
        BY <1>1, <1>10, <4>1 DEF Queue
    <3> QED
      BY <3>1, <3>2
  <2>2. \A i \in 1 .. Len(wi2) : FALSE
    BY <1>8
  <2> QED
    BY <1>2, <1>8, <1>10, <2>1, <2>2 DEF Queue
<1>12. Answer(dv, co2)
  <2>1. \A c \in Cell \cap DOMAIN d : d[c] = dv[c]
    BY DEF d
  <2> QED
    BY <1>7, <1>10, <2>1 DEF Answer, Shows
<1>13. ASSUME NEW c \in Cell \ st PROVE Fresh(c, dv, ca, co2, wi2)
  <2>1. /\ Writing(c, co2) = Writing(c, co) /\ Reading(c, co2) = Reading(c, co)
        /\ LastWrite(c, co, ca[c]) => LastWrite(c, co2, ca[c])
    BY <1>2, <1>3, <1>6, <1>7, HeadChange
  <2>2. Fresh(c, dv, ca, co, wi)
    BY <1>1
  <2> QED
    BY <1>9, <2>1, <2>2 DEF Fresh, Settled, LastWrite
<1> QED
  BY <1>11, <1>12, <1>13 DEF Coherent, d, co2, wi2

\* The firmware adds a bit to a register it may set bits of.
LEMMA EventKeeps ==
  ASSUME NEW dv, NEW ca, NEW co, NEW wi, NEW st, NEW r \in Reg, NEW b,
         Coherent(dv, ca, co, wi, st), Acc[r] = "rc", dv = [c \in Cell |-> dv[c]]
  PROVE  Coherent([dv EXCEPT ![r] = @ \cup {b}], ca, co, wi, st)
<1> DEFINE dv2 == [dv EXCEPT ![r] = @ \cup {b}]
<1>1. r \in Cell
  BY DEF Cell
<1>2. \A c \in Cell : \A v : Shows(dv, c, v) => Shows(dv2, c, v)
  <2> SUFFICES ASSUME NEW c \in Cell, NEW v, Shows(dv, c, v) PROVE Shows(dv2, c, v)
    OBVIOUS
  <2>1. CASE c = r
    <3>1. dv2[c] = dv[r] \cup {b}
      BY <1>1, <2>1
    <3> QED
      BY <2>1, <3>1 DEF Shows
  <2>2. CASE c # r
    <3>1. dv2[c] = dv[c]
      BY <1>1, <2>2
    <3> QED
      BY <3>1 DEF Shows
  <2> QED
    BY <2>1, <2>2
<1> HIDE DEF dv2
<1>3. Answer(dv, co) => Answer(dv2, co)
  BY <1>2 DEF Answer
<1>4. ASSUME NEW c \in Cell \ st, Fresh(c, dv, ca, co, wi) PROVE Fresh(c, dv2, ca, co, wi)
  BY <1>2, <1>4 DEF Fresh, Settled
<1> QED
  BY <1>3, <1>4 DEF Coherent, dv2

\* What happens to the call at the head does not change who made it.
LEMMA TasksKept ==
  ASSUME NEW co, NEW e, IsSeq(co), co # <<>>, e.task = co[1].task
  PROVE  SameTasks(co, [co EXCEPT ![1] = e])
<1>1. /\ Len([co EXCEPT ![1] = e]) = Len(co) /\ Len(co) \in Nat
      /\ [co EXCEPT ![1] = e][1] = e
      /\ \A i \in 2 .. Len(co) : [co EXCEPT ![1] = e][i] = co[i]
  BY ExceptShape, SeqShape
<1> DEFINE co2 == [co EXCEPT ![1] = e]
<1> HIDE DEF co2
<1>2. /\ Len(co2) = Len(co) /\ Len(co) \in Nat /\ co2[1] = e
      /\ \A i \in 2 .. Len(co) : co2[i] = co[i]
  BY <1>1 DEF co2
<1>3. ASSUME NEW i \in 1 .. Len(co) PROVE co2[i].task = co[i].task
  <2>1. i = 1 \/ i \in 2 .. Len(co)
    BY <1>2
  <2> QED
    BY <1>2, <2>1
<1>4. SameTasks(co, co2)
  BY <1>2, <1>3 DEF SameTasks
<1> QED
  BY <1>4 DEF co2

\* A call keeps its task while it is sent and answered.
LEMMA HeadTask ==
  ASSUME NEW co, NEW wi, NEW a, NEW d, Queue(co, wi), co # <<>>
  PROVE  /\ SameTasks(co, [co EXCEPT ![1].at = a])
         /\ SameTasks(co, [co EXCEPT ![1].at = "answered", ![1].data = d])
<1> DEFINE q == co[1]
           e == [q EXCEPT !.at = a]
           f == [q EXCEPT !.at = "answered", !.data = d]
<1>1. IsSeq(co) /\ 1 \in 1 .. Len(co) /\ DOMAIN co = 1 .. Len(co) /\ IsCall(q)
  <2>1. IsSeq(co) /\ 1 \in 1 .. Len(co) /\ DOMAIN co = 1 .. Len(co)
    BY TailShape, SeqShape DEF Queue
  <2> QED
    BY <2>1 DEF Queue
<1>2. [co EXCEPT ![1].at = a] = [co EXCEPT ![1] = e]
  OBVIOUS
<1>3. [co EXCEPT ![1].at = "answered", ![1].data = d] = [co EXCEPT ![1] = f]
  BY <1>1
<1> HIDE DEF q
<1>4. e = [task |-> q.task, op |-> q.op, data |-> q.data, at |-> a]
  BY <1>1 DEF IsCall
<1>5. f = [task |-> q.task, op |-> q.op, data |-> d, at |-> "answered"]
  BY <1>1, AnsweredCall
<1>6. e.task = co[1].task /\ f.task = co[1].task
  BY <1>4, <1>5 DEF q
<1> HIDE DEF e, f
<1> QED
  BY <1>1, <1>2, <1>3, <1>6, TasksKept

-----------------------------------------------------------------------------
(* The workers.                                                            *)

\* The pump is a worker, and the flag it steps one of a register.
LEMMA TaskFacts ==
  /\ Pump \in Worker /\ Task \subseteq Worker
  /\ StepFlag[1] \in Reg /\ StepFlag[1] \in Cell /\ StepFlag[1] \notin Lane /\ Acc[StepFlag[1]] # "rc"
  BY PumpAssumption, StepAssumption, MapAssumption DEF Worker, Cell

\* Nothing is skipped of what the pump wants, and nothing of it raises.
LEMMA PumpProgram ==
  ASSUME NEW c
  PROVE  /\ Rest(<<>>, c) = <<>>
         /\ \A on \in BOOLEAN : /\ Rest(<<StepOf(on)>>, c) = <<StepOf(on)>>
                                /\ ~ Raises(StepOf(on), c)
<1>1. Rest(<<>>, c) = <<>>
  BY DEF Rest
<1>2. ASSUME NEW on \in BOOLEAN
      PROVE  Rest(<<StepOf(on)>>, c) = <<StepOf(on)>> /\ ~ Raises(StepOf(on), c)
  <2> DEFINE p == <<StepOf(on)>>
             I == {i \in DOMAIN p : Acts(p[i], c)}
             k == CHOOSE i \in I : \A j \in I : i <= j
  <2>1. StepOf(on).op = "flag"
    BY DEF StepOf, FlagOf
  <2>2. I = {1}
    BY <2>1 DEF Acts
  <2>3. k = 1
    BY <2>2
  <2>4. SubSeq(p, 1, Len(p)) = p
    <3>1. p \in Seq({StepOf(on)}) /\ Len(p) = 1 /\ p[1] = StepOf(on)
      OBVIOUS
    <3> QED
      BY <3>1, SubSeqFull
  <2>5. Rest(p, c) = IF I = {} THEN <<>> ELSE SubSeq(p, k, Len(p))
    BY DEF Rest
  <2>6. Rest(p, c) = p
    BY <2>2, <2>3, <2>4, <2>5
  <2> QED
    BY <2>1, <2>6 DEF Raises
<1> QED
  BY <1>1, <1>2

\* What a worker does once it gets going: it comes to its next call, or ends.
GoesOn(w, kind, prog, s) == Run(w, kind, prog, s) \/ Finish(w, kind, s)

\* A worker that goes on ends, or makes its next call.
LEMMA RunShape ==
  ASSUME NEW w, NEW kind, NEW prog, NEW c, NEW co, NEW st, NEW i, NEW l,
         GoesOn(w, kind, prog, [cache |-> c, conn |-> co, stale |-> st, idle |-> i, lock |-> l])
  PROVE  LET s == [cache |-> c, conn |-> co, stale |-> st, idle |-> i, lock |-> l] IN
         \/ /\ Finish(w, kind, s)
            /\ cache' = c /\ conn' = co /\ stale' = st
         \/ /\ Rest(prog, c) # <<>> /\ Issue(w, Rest(prog, c), s)
            /\ cache' = CacheAtCall(CallOf(w, Head(Rest(prog, c)), c), c)
            /\ conn' = Append(co, CallOf(w, Head(Rest(prog, c)), c))
            /\ stale' = StaleAtCall(CallOf(w, Head(Rest(prog, c)), c), co, st)
<1> DEFINE s == [cache |-> c, conn |-> co, stale |-> st, idle |-> i, lock |-> l]
           rest == Rest(prog, c)
           q == CallOf(w, Head(rest), c)
<1>1. GoesOn(w, kind, prog, s)
  OBVIOUS
<1>2. s.cache = c /\ s.conn = co /\ s.stale = st
  OBVIOUS
<1>3. Finish(w, kind, s) \/ (rest # <<>> /\ Issue(w, rest, s))
  <2> HIDE DEF s
  <2> QED
    BY <1>1, <1>2 DEF GoesOn, Run
<1>4. ASSUME Finish(w, kind, s) PROVE cache' = c /\ conn' = co /\ stale' = st
  <2>1. Becomes(Release(w, kind, s))
    BY <1>4 DEF Finish
  <2>2. Release(w, kind, s).cache = c /\ Release(w, kind, s).conn = co /\ Release(w, kind, s).stale = st
    <3>1. CASE kind \in TreeJob
      BY <3>1 DEF Release
    <3>2. CASE kind \notin TreeJob
      BY <3>2 DEF Release
    <3> QED
      BY <3>1, <3>2
  <2> QED
    BY <2>1, <2>2 DEF Becomes
<1>5. ASSUME Issue(w, rest, s)
      PROVE  cache' = CacheAtCall(q, c) /\ conn' = Append(co, q) /\ stale' = StaleAtCall(q, co, st)
  <2> DEFINE n == [s EXCEPT !.cache = CacheAtCall(q, @), !.conn = Append(@, q), !.stale = StaleAtCall(q, co, st)]
  <2>1. Becomes(n)
    <3> HIDE DEF rest
    <3> QED
      BY <1>2, <1>5 DEF Issue
  <2>2. n = [cache |-> CacheAtCall(q, c), conn |-> Append(co, q), stale |-> StaleAtCall(q, co, st), idle |-> i, lock |-> l]
    <3> DEFINE x == CacheAtCall(q, c)
               y == Append(co, q)
               z == StaleAtCall(q, co, st)
    <3>1. n = [s EXCEPT !.cache = x, !.conn = y, !.stale = z]
      BY <1>2
    <3> HIDE DEF x, y, z
    <3>2. [s EXCEPT !.cache = x, !.conn = y, !.stale = z]
          = [cache |-> x, conn |-> y, stale |-> z, idle |-> i, lock |-> l]
      <4> HIDE DEF s, rest, q
      <4> SUFFICES ASSUME s = [cache |-> c, conn |-> co, stale |-> st, idle |-> i, lock |-> l]
                   PROVE  [s EXCEPT !.cache = x, !.conn = y, !.stale = z]
                          = [cache |-> x, conn |-> y, stale |-> z, idle |-> i, lock |-> l]
        BY DEF s
      <4>1. [s EXCEPT !.cache = x] = [cache |-> x, conn |-> co, stale |-> st, idle |-> i, lock |-> l]
        OBVIOUS
      <4> DEFINE s1 == [s EXCEPT !.cache = x]
                 s2 == [s1 EXCEPT !.conn = y]
      <4>2. s1 = [cache |-> x, conn |-> co, stale |-> st, idle |-> i, lock |-> l]
        BY <4>1
      <4> HIDE DEF s1
      <4>3. s2 = [cache |-> x, conn |-> y, stale |-> st, idle |-> i, lock |-> l]
        BY <4>2
      <4> HIDE DEF s2
      <4>4. [s2 EXCEPT !.stale = z] = [cache |-> x, conn |-> y, stale |-> z, idle |-> i, lock |-> l]
        BY <4>3
      <4> QED
        BY <4>4 DEF s1, s2
    <3> QED
      BY <3>1, <3>2 DEF x, y, z
  <2> QED
    BY <2>1, <2>2 DEF Becomes
<1> QED
  BY <1>3, <1>4, <1>5

\* Worker w gets going from a state in which it has no call under way.
LEMMA RunKeeps ==
  ASSUME NEW w \in Worker, NEW kind, NEW prog, NEW c, NEW co, NEW st, NEW i, NEW l,
         GoesOn(w, kind, prog, [cache |-> c, conn |-> co, stale |-> st, idle |-> i, lock |-> l]),
         Coherent(dev', c, co, wire', st),
         pc = [v \in Worker |-> pc[v]], todo = [v \in Worker |-> todo[v]],
         Waits(pc, co), Absent(w, co),
         pc[Pump] \in {"rest", "pop", "hold", "lock", "io"},
         w # Pump /\ pc[Pump] \in {"hold", "lock"} => Popped(todo[Pump], last),
         w # Pump /\ pc[Pump] = "io" => todo[Pump] = <<>>,
         w = Pump => prog = <<>> \/ Popped(prog, last),
         StepFlag[1] \notin st => Known(c, last)
  PROVE  Coherent(dev', cache', conn', wire', stale') /\ PumpInv'
<1> DEFINE s == [cache |-> c, conn |-> co, stale |-> st, idle |-> i, lock |-> l]
           rest == Rest(prog, c)
           q == CallOf(w, Head(rest), c)
           F == StepFlag[1]
<1>1. IsSeq(co) /\ Len(co) \in Nat
  BY SeqShape DEF Coherent, Queue
<1>2. s.cache = c /\ s.conn = co /\ s.stale = st
  OBVIOUS
<1>3. \A a, b \in BOOLEAN : Written(a) # "?" /\ (Written(a) = Written(b) <=> a = b)
  BY DEF Written
<1>4. CASE Finish(w, kind, s) /\ cache' = c /\ conn' = co /\ stale' = st
  <2>1. last' = IF F \in st THEN "?" ELSE last
    <3> HIDE DEF s
    <3> QED
      BY <1>2, <1>4 DEF Finish
  <2>2. (F \in st => last' = "?") /\ Known(c, last')
    BY <2>1 DEF Known
  <2>3. \A t : Popped(t, last) => Popped(t, last')
    BY <1>3, <2>1 DEF Popped
  <2>4. CASE w = Pump /\ steps > 0
    <3>1. todo' = [todo EXCEPT ![w] = <<Toggle(c)>>] /\ pc' = [pc EXCEPT ![w] = "hold"]
      <4> HIDE DEF s
      <4> QED
        BY <1>2, <1>4, <2>4 DEF Finish
    <3>2. pc'[Pump] = "hold" /\ todo'[Pump] = <<Toggle(c)>>
      BY <2>4, <3>1
    <3>3. Toggle(c) = StepOf(StepFlag[2] \notin c[F])
      BY DEF Toggle, StepOf
    <3>4. last' # Written(StepFlag[2] \notin c[F])
      <4>1. last' \in {"?", Written(StepFlag[2] \in c[F])}
        BY <2>2 DEF Known
      <4>2. CASE StepFlag[2] \in c[F]
        BY <4>1, <4>2 DEF Written
      <4>3. CASE StepFlag[2] \notin c[F]
        BY <4>1, <4>3 DEF Written
      <4> QED
        BY <4>2, <4>3
    <3>5. Popped(todo'[Pump], last')
      BY <3>2, <3>3, <3>4 DEF Popped
    <3>6. Waits(pc', co)
      BY <3>1 DEF Waits, Absent
    <3>7. pc' = [v \in Worker |-> pc'[v]] /\ todo' = [v \in Worker |-> todo'[v]]
      BY <3>1
    <3> QED
      BY <1>4, <2>2, <3>2, <3>5, <3>6, <3>7 DEF PumpInv
  <2>5. CASE ~(w = Pump /\ steps > 0)
    <3>1. /\ todo' = [todo EXCEPT ![w] = <<>>]
          /\ pc' = [pc EXCEPT ![w] = IF w = Pump THEN "rest" ELSE "done"]
      <4> HIDE DEF s
      <4> QED
        BY <1>2, <1>4, <2>5 DEF Finish
    <3>2. Waits(pc', co)
      BY <3>1 DEF Waits, Absent
    <3>3. pc' = [v \in Worker |-> pc'[v]] /\ todo' = [v \in Worker |-> todo'[v]]
      BY <3>1
    <3>4. IF w = Pump THEN pc'[Pump] = "rest" ELSE pc'[Pump] = pc[Pump] /\ todo'[Pump] = todo[Pump]
      BY <3>1, TaskFacts
    <3>5. pc'[Pump] \in {"hold", "lock"} => Popped(todo'[Pump], last')
      BY <2>3, <3>4
    <3> QED
      BY <1>4, <2>2, <3>2, <3>3, <3>4, <3>5 DEF PumpInv
  <2> QED
    BY <1>4, <2>4, <2>5
<1>5. CASE /\ rest # <<>> /\ Issue(w, rest, s)
           /\ cache' = CacheAtCall(q, c)
           /\ conn' = Append(co, q)
           /\ stale' = StaleAtCall(q, co, st)
  <2>1. q.task = w /\ q.at = "queued" /\ IsCall(q)
    BY DEF CallOf, Call, IsCall
  <2>2. Coherent(dev', cache', conn', wire', stale')
    <3> HIDE DEF q
    <3> QED
      BY <1>5, <2>1, CallKeepsCoherent
  <2>3. /\ todo' = [todo EXCEPT ![w] = Tail(rest)]
        /\ pc' = [pc EXCEPT ![w] = "io"]
        /\ last' = CASE F \in stale' -> "?"
                     [] F \notin stale' /\ w = Pump -> Written(Head(rest).on)
                     [] OTHER -> IF q.op = "write" /\ F \in DOMAIN q.data THEN "?" ELSE last
    <3> HIDE DEF s, rest
    <3> QED
      BY <1>2, <1>5 DEF Issue
  <2>4. pc' = [v \in Worker |-> pc'[v]] /\ todo' = [v \in Worker |-> todo'[v]]
    BY <2>3
  <2>5. Waits(pc', conn')
    <3>1. /\ Len(conn') = Len(co) + 1 /\ conn'[Len(co) + 1] = q
          /\ \A j \in 1 .. Len(co) : conn'[j] = co[j]
      <4> HIDE DEF q
      <4> QED
        BY <1>1, <1>5, AppendShape
    <3>2. \A j \in 1 .. Len(conn') : j = Len(co) + 1 \/ j \in 1 .. Len(co)
      BY <1>1, <3>1
    <3>3. \A j \in 1 .. Len(co) : co[j].task \in Worker /\ pc'[co[j].task] = "io" /\ co[j].task # w
      BY <2>3 DEF Waits, Absent
    <3>4. pc'[w] = "io"
      BY <2>3
    <3> HIDE DEF q
    <3>5. \A j \in 1 .. Len(conn') : conn'[j].task \in Worker /\ pc'[conn'[j].task] = "io"
      BY <2>1, <3>1, <3>2, <3>3, <3>4
    <3>6. \A j, k \in 1 .. Len(conn') : conn'[j].task = conn'[k].task => j = k
      <4> SUFFICES ASSUME NEW j \in 1 .. Len(conn'), NEW k \in 1 .. Len(conn'),
                          conn'[j].task = conn'[k].task, j # k
                   PROVE  FALSE
        OBVIOUS
      <4>1. CASE j \in 1 .. Len(co) /\ k \in 1 .. Len(co)
        BY <3>1, <4>1 DEF Waits
      <4>2. CASE j = Len(co) + 1 /\ k \in 1 .. Len(co)
        BY <2>1, <3>1, <3>3, <4>2
      <4>3. CASE k = Len(co) + 1 /\ j \in 1 .. Len(co)
        BY <2>1, <3>1, <3>3, <4>3
      <4> QED
        BY <3>2, <4>1, <4>2, <4>3
    <3> QED
      BY <3>5, <3>6 DEF Waits
  <2>6. F \in Reg /\ F \in Cell
    BY TaskFacts
  <2>7. CASE w = Pump
    <3>1. PICK on \in BOOLEAN : prog = <<StepOf(on)>> /\ last # Written(on)
      BY <1>5, <2>7, PumpProgram DEF Popped
    <3>2. rest = <<StepOf(on)>>
      BY <3>1, PumpProgram
    <3>3. Head(rest) = StepOf(on) /\ Tail(rest) = <<>>
      BY <3>2
    <3>4. todo'[Pump] = <<>> /\ pc'[Pump] = "io"
      BY <2>3, <2>7, <3>3
    <3>5. last' = IF F \in stale' THEN "?" ELSE Written(on)
      BY <2>3, <2>7, <3>3 DEF StepOf, FlagOf
    <3>6. StepFlag[2] \in cache'[F] <=> on
      <4>1. /\ q = Call(w, "write", [x \in {F} |-> Bytes(StepOf(on), c)])
            /\ Bytes(StepOf(on), c) = IF on THEN c[F] \cup {StepFlag[2]} ELSE c[F] \ {StepFlag[2]}
        <5>1. /\ StepOf(on).op = "flag" /\ StepOf(on).cell = F
              /\ StepOf(on).bit = StepFlag[2] /\ StepOf(on).on = on
          BY DEF StepOf, FlagOf
        <5>2. Head(rest) = StepOf(on)
          BY <3>3
        <5> HIDE DEF rest
        <5>3. q = Call(w, "write", [x \in {F} |-> Bytes(StepOf(on), c)])
          BY <5>1, <5>2 DEF CallOf
        <5>4. Bytes(StepOf(on), c) = IF on THEN c[F] \cup {StepFlag[2]} ELSE c[F] \ {StepFlag[2]}
          BY <5>1 DEF Bytes
        <5> QED
          BY <5>3, <5>4
      <4>2. q.op = "write" /\ F \in DOMAIN q.data /\ q.data[F] = Bytes(StepOf(on), c)
        <5> HIDE DEF q
        <5> QED
          BY <4>1 DEF Call
      <4> HIDE DEF q
      <4>3. cache'[F] = Bytes(StepOf(on), c)
        BY <1>5, <2>6, <4>2 DEF CacheAtCall
      <4> QED
        BY <4>1, <4>3
    <3>7. Known(cache', last')
      <4>1. (StepFlag[2] \in cache'[F]) = on
        BY <3>6
      <4> QED
        BY <3>5, <4>1 DEF Known
    <3> QED
      BY <2>2, <2>4, <2>5, <3>4, <3>5, <3>7 DEF PumpInv
  <2>8. CASE w # Pump
    <3>1. pc'[Pump] = pc[Pump] /\ todo'[Pump] = todo[Pump]
      BY <2>3, <2>8, TaskFacts
    <3>2. last' = IF F \in stale' \/ (q.op = "write" /\ F \in DOMAIN q.data) THEN "?" ELSE last
      <4> HIDE DEF q
      <4> QED
        BY <2>3, <2>8
    <3>3. \A t : Popped(t, last) => Popped(t, last')
      BY <1>3, <3>2 DEF Popped
    <3>4. Known(cache', last')
      <4>1. CASE F \in stale' \/ (q.op = "write" /\ F \in DOMAIN q.data)
        BY <3>2, <4>1 DEF Known
      <4>2. CASE F \notin stale' /\ ~(q.op = "write" /\ F \in DOMAIN q.data)
        <5> HIDE DEF q
        <5>1. F \notin st
          BY <1>5, <2>1, <2>6, <4>2 DEF StaleAtCall, IsCall
        <5>2. cache'[F] = c[F]
          BY <1>5, <2>6, <4>2 DEF CacheAtCall
        <5> QED
          BY <3>2, <4>2, <5>1, <5>2 DEF Known
      <4> QED
        BY <4>1, <4>2
    <3>5. F \in stale' => last' = "?"
      BY <3>2
    <3> QED
      BY <2>2, <2>4, <2>5, <2>8, <3>1, <3>3, <3>4, <3>5 DEF PumpInv
  <2> QED
    BY <2>7, <2>8
<1>6. \/ /\ Finish(w, kind, s)
         /\ cache' = c /\ conn' = co /\ stale' = st
      \/ /\ rest # <<>> /\ Issue(w, rest, s)
         /\ cache' = CacheAtCall(q, c)
         /\ conn' = Append(co, q)
         /\ stale' = StaleAtCall(q, co, st)
  BY RunShape
<1> HIDE DEF s, rest, q
<1> QED
  BY <1>4, <1>5, <1>6

\* The state a worker finds, changed.
LEMMA NowExcept ==
  ASSUME NEW x
  PROVE  /\ Now = [cache |-> cache, conn |-> conn, stale |-> stale, idle |-> idle, lock |-> lock]
         /\ [Now EXCEPT !.idle = x] = [cache |-> cache, conn |-> conn, stale |-> stale, idle |-> x, lock |-> lock]
         /\ [Now EXCEPT !.lock = x] = [cache |-> cache, conn |-> conn, stale |-> stale, idle |-> idle, lock |-> x]
<1> DEFINE n == Now
<1>1. n = [cache |-> cache, conn |-> conn, stale |-> stale, idle |-> idle, lock |-> lock]
  BY DEF Now
<1> HIDE DEF n
<1>2. [n EXCEPT !.idle = x] = [cache |-> cache, conn |-> conn, stale |-> stale, idle |-> x, lock |-> lock]
  BY <1>1
<1>3. [n EXCEPT !.lock = x] = [cache |-> cache, conn |-> conn, stale |-> stale, idle |-> idle, lock |-> x]
  BY <1>1
<1> QED
  BY <1>1, <1>2, <1>3 DEF n

\* The state a worker goes on with when its call returned,
LEMMA NowReturned ==
  ASSUME NEW c, NEW co, NEW st
  PROVE  [Now EXCEPT !.conn = co, !.cache = c, !.stale = st]
         = [cache |-> c, conn |-> co, stale |-> st, idle |-> idle, lock |-> lock]
<1> DEFINE n == Now
           n1 == [n EXCEPT !.conn = co]
           n2 == [n1 EXCEPT !.cache = c]
<1>1. n = [cache |-> cache, conn |-> conn, stale |-> stale, idle |-> idle, lock |-> lock]
  BY DEF Now
<1> HIDE DEF n
<1>2. n1 = [cache |-> cache, conn |-> co, stale |-> stale, idle |-> idle, lock |-> lock]
  BY <1>1
<1> HIDE DEF n1
<1>3. n2 = [cache |-> c, conn |-> co, stale |-> stale, idle |-> idle, lock |-> lock]
  BY <1>2
<1> HIDE DEF n2
<1>4. [n2 EXCEPT !.stale = st] = [cache |-> c, conn |-> co, stale |-> st, idle |-> idle, lock |-> lock]
  BY <1>3
<1> QED
  BY <1>4 DEF n1, n2, n

\* or raised.
LEMMA NowRaised ==
  ASSUME NEW co, NEW st
  PROVE  [Now EXCEPT !.conn = co, !.stale = st]
         = [cache |-> cache, conn |-> co, stale |-> st, idle |-> idle, lock |-> lock]
<1> DEFINE n == Now
           n1 == [n EXCEPT !.conn = co]
<1>1. n = [cache |-> cache, conn |-> conn, stale |-> stale, idle |-> idle, lock |-> lock]
  BY DEF Now
<1> HIDE DEF n
<1>2. n1 = [cache |-> cache, conn |-> co, stale |-> stale, idle |-> idle, lock |-> lock]
  BY <1>1
<1> HIDE DEF n1
<1>3. [n1 EXCEPT !.stale = st] = [cache |-> cache, conn |-> co, stale |-> st, idle |-> idle, lock |-> lock]
  BY <1>2
<1> QED
  BY <1>3 DEF n1, n

\* The interface starts with cache and device in step.
LEMMA InitInv == Init => IInv
<1> SUFFICES ASSUME Init PROVE IInv
  OBVIOUS
<1> USE DEF Init, LibInit
<1>1. IsSeq(<<>>) /\ Len(<<>>) = 0
  <2>1. <<>> \in Seq({})
    OBVIOUS
  <2> QED
    BY <2>1, SeqOfElements
<1>2. \A c : Writing(c, <<>>) = {}
  BY <1>1, Places
<1>3. \A i \in 1 .. Len(<<>>) : FALSE
  BY <1>1
<1>4. Queue(conn, wire) /\ Answer(dev, conn)
  BY <1>1, <1>3 DEF Queue, Answer
<1>5. \A c \in Cell : Shows(dev, c, cache[c])
  BY DEF Shows
<1>6. \A c \in Cell : Fresh(c, dev, cache, conn, wire)
  BY <1>2, <1>5 DEF Fresh, Settled, LastWrite
<1>7. LibInv
  <2>1. dev = [c \in Cell |-> dev[c]]
    OBVIOUS
  <2> QED
    BY <1>4, <1>6, <2>1 DEF LibInv, Coherent
<1>8. PumpInv
  <2>1. Waits(pc, conn)
    BY <1>3 DEF Waits
  <2>2. pc = [w \in Worker |-> pc[w]] /\ todo = [w \in Worker |-> todo[w]] /\ pc[Pump] = "rest"
    BY TaskFacts
  <2> QED
    BY <2>1, <2>2 DEF PumpInv, Known
<1> QED
  BY <1>7, <1>8 DEF IInv

\* A worker that has no call under way gets going, nothing returned to it.
LEMMA RunNow ==
  ASSUME IInv, NEW w \in Worker, NEW kind, NEW prog, NEW i, NEW l,
         Run(w, kind, prog, [cache |-> cache, conn |-> conn, stale |-> stale, idle |-> i, lock |-> l]),
         UNCHANGED <<dev, wire>>, pc[w] # "io",
         w = Pump => pc[Pump] \in {"hold", "lock"} /\ prog = todo[Pump]
  PROVE  IInv'
<1>1. /\ dev = [c \in Cell |-> dev[c]]
      /\ Coherent(dev', cache, conn, wire', stale)
  BY DEF IInv, LibInv
<1>2. Absent(w, conn)
  BY DEF IInv, PumpInv, Waits, Absent
<1>3. /\ pc = [v \in Worker |-> pc[v]] /\ todo = [v \in Worker |-> todo[v]]
      /\ Waits(pc, conn)
      /\ pc[Pump] \in {"rest", "pop", "hold", "lock", "io"}
      /\ pc[Pump] \in {"hold", "lock"} => Popped(todo[Pump], last)
      /\ pc[Pump] = "io" => todo[Pump] = <<>>
      /\ Known(cache, last)
  BY DEF IInv, PumpInv
<1>4. w = Pump => prog = <<>> \/ Popped(prog, last)
  BY <1>3
<1>5. Coherent(dev', cache', conn', wire', stale') /\ PumpInv'
  BY <1>1, <1>2, <1>3, <1>4, RunKeeps DEF GoesOn
<1>6. dev' = [c \in Cell |-> dev'[c]]
  BY <1>1
<1> QED
  BY <1>5, <1>6 DEF IInv, LibInv

\* The first call of the queue returns, or raises, and its worker goes on.
LEMMA RunOn ==
  ASSUME IInv, NEW kind, NEW c, NEW st, NEW i, NEW l, conn # <<>>,
         GoesOn(Head(conn).task, kind, todo[Head(conn).task],
                [cache |-> c, conn |-> Tail(conn), stale |-> st, idle |-> i, lock |-> l]),
         UNCHANGED dev,
         Coherent(dev', c, Tail(conn), wire', st),
         StepFlag[1] \notin st => Known(c, last)
  PROVE  IInv'
<1> DEFINE w == Head(conn).task
           co == Tail(conn)
<1>1. /\ dev = [x \in Cell |-> dev[x]]
      /\ IsSeq(conn) /\ Len(conn) \in Nat
  BY SeqShape DEF IInv, LibInv, Coherent, Queue
<1>2. /\ pc = [v \in Worker |-> pc[v]] /\ todo = [v \in Worker |-> todo[v]]
      /\ Waits(pc, conn)
      /\ pc[Pump] \in {"rest", "pop", "hold", "lock", "io"}
      /\ pc[Pump] \in {"hold", "lock"} => Popped(todo[Pump], last)
      /\ pc[Pump] = "io" => todo[Pump] = <<>>
  BY DEF IInv, PumpInv
<1>3. /\ Head(conn) = conn[1] /\ 1 \in 1 .. Len(conn) /\ Len(co) = Len(conn) - 1
      /\ \A j \in 1 .. Len(co) : co[j] = conn[j + 1] /\ j + 1 \in 1 .. Len(conn) /\ j + 1 # 1
  BY <1>1, TailShape
<1> HIDE DEF w, co
<1>4. w = conn[1].task
  BY <1>3 DEF w
<1>5. w \in Worker /\ pc[w] = "io"
  BY <1>2, <1>3, <1>4 DEF Waits
<1>6. Absent(w, co)
  BY <1>2, <1>3, <1>4 DEF Waits, Absent
<1>7. Waits(pc, co)
  <2>1. Len(co) \in Nat
    BY <1>1, <1>3
  <2>2. \A j \in 1 .. Len(co) : co[j].task \in Worker /\ pc[co[j].task] = "io"
    BY <1>2, <1>3 DEF Waits
  <2>3. \A j, k \in 1 .. Len(co) : co[j].task = co[k].task => j + 1 = k + 1
    BY <1>2, <1>3 DEF Waits
  <2>4. \A j, k \in 1 .. Len(co) : co[j].task = co[k].task => j = k
    BY <2>1, <2>3
  <2> QED
    BY <2>2, <2>4 DEF Waits
<1>8. w = Pump => todo[w] = <<>>
  BY <1>2, <1>5
<1>9. GoesOn(w, kind, todo[w], [cache |-> c, conn |-> co, stale |-> st, idle |-> i, lock |-> l])
  BY DEF w, co
<1>10. Coherent(dev', c, co, wire', st)
  BY DEF co
<1>11. Coherent(dev', cache', conn', wire', stale') /\ PumpInv'
  BY <1>2, <1>5, <1>6, <1>7, <1>8, <1>9, <1>10, RunKeeps
<1>12. dev' = [x \in Cell |-> dev'[x]]
  BY <1>1
<1> QED
  BY <1>11, <1>12 DEF IInv, LibInv

\* A refresh, a read of all modules or a clear starts.
LEMMA StartTreeKeeps ==
  ASSUME IInv, NEW w, NEW kind, StartTree(w, kind) PROVE IInv'
<1>1. /\ w \in Task /\ pc[w] = "rest" /\ UNCHANGED <<dev, wire>>
      /\ Run(w, kind, Program(kind), [Now EXCEPT !.idle = FALSE])
  BY DEF StartTree
<1>2. Run(w, kind, Program(kind),
          [cache |-> cache, conn |-> conn, stale |-> stale, idle |-> FALSE, lock |-> lock])
  BY <1>1, NowExcept
<1>3. w \in Worker /\ w # Pump
  BY <1>1, TaskFacts, PumpAssumption
<1> QED
  BY <1>1, <1>2, <1>3, RunNow

\* A read or write of a row starts.
LEMMA StartRowKeeps ==
  ASSUME IInv, NEW w, NEW prog, StartRow(w, prog) PROVE IInv'
<1>1. /\ w \in Task /\ w \in Worker /\ w # Pump /\ pc[w] = "rest"
      /\ todo' = [todo EXCEPT ![w] = prog] /\ pc' = [pc EXCEPT ![w] = "hold"]
      /\ UNCHANGED <<dev, cache, conn, wire, stale, last>>
  BY TaskFacts, PumpAssumption DEF StartRow, libVars
<1>2. LibInv'
  BY <1>1 DEF IInv, LibInv
<1>3. pc'[Pump] = pc[Pump] /\ todo'[Pump] = todo[Pump]
  BY <1>1, TaskFacts DEF IInv, PumpInv
<1>4. pc' = [v \in Worker |-> pc'[v]] /\ todo' = [v \in Worker |-> todo'[v]]
  BY <1>1 DEF IInv, PumpInv
<1>5. Waits(pc', conn)
  BY <1>1 DEF IInv, PumpInv, Waits
<1>6. PumpInv'
  BY <1>1, <1>3, <1>4, <1>5 DEF IInv, PumpInv
<1> QED
  BY <1>2, <1>6 DEF IInv

\* A step is queued.
LEMMA PressStepKeeps ==
  ASSUME IInv, PressStep PROVE IInv'
<1>1. /\ pc' = IF pc[Pump] = "rest" THEN [pc EXCEPT ![Pump] = "pop"] ELSE pc
      /\ UNCHANGED <<dev, cache, conn, wire, stale, todo, last>>
  BY DEF PressStep, libVars
<1>2. LibInv'
  BY <1>1 DEF IInv, LibInv
<1>3. IF pc[Pump] = "rest" THEN pc'[Pump] = "pop" ELSE pc'[Pump] = pc[Pump]
  BY <1>1, TaskFacts DEF IInv, PumpInv
<1>4. pc' = [v \in Worker |-> pc'[v]]
  BY <1>1 DEF IInv, PumpInv
<1>5. Waits(pc', conn)
  BY <1>1 DEF IInv, PumpInv, Waits
<1>6. PumpInv'
  BY <1>1, <1>3, <1>4, <1>5 DEF IInv, PumpInv
<1> QED
  BY <1>2, <1>6 DEF IInv

\* The value of the step is taken from the cache, and so from what the last one wrote.
LEMMA PopStepKeeps ==
  ASSUME IInv, PopStep PROVE IInv'
<1>1. /\ pc[Pump] = "pop"
      /\ todo' = [todo EXCEPT ![Pump] = <<Toggle(cache)>>] /\ pc' = [pc EXCEPT ![Pump] = "hold"]
      /\ UNCHANGED <<dev, cache, conn, wire, stale, last>>
  BY DEF PopStep, libVars
<1>2. LibInv'
  BY <1>1 DEF IInv, LibInv
<1>3. pc'[Pump] = "hold" /\ todo'[Pump] = <<Toggle(cache)>>
  BY <1>1, TaskFacts DEF IInv, PumpInv
<1>4. pc' = [v \in Worker |-> pc'[v]] /\ todo' = [v \in Worker |-> todo'[v]]
  BY <1>1 DEF IInv, PumpInv
<1>5. Waits(pc', conn)
  BY <1>1 DEF IInv, PumpInv, Waits
<1>6. Popped(todo'[Pump], last)
  <2> DEFINE on == StepFlag[2] \notin cache[StepFlag[1]]
  <2>1. Toggle(cache) = StepOf(on)
    BY DEF Toggle, StepOf
  <2>2. last # Written(on)
    <3>1. last \in {"?", Written(StepFlag[2] \in cache[StepFlag[1]])}
      BY DEF IInv, PumpInv, Known
    <3>2. CASE StepFlag[2] \in cache[StepFlag[1]]
      BY <3>1, <3>2 DEF Written
    <3>3. CASE StepFlag[2] \notin cache[StepFlag[1]]
      BY <3>1, <3>3 DEF Written
    <3> QED
      BY <3>2, <3>3
  <2> QED
    BY <1>3, <2>1, <2>2 DEF Popped
<1>7. PumpInv'
  BY <1>1, <1>3, <1>4, <1>5, <1>6 DEF IInv, PumpInv
<1> QED
  BY <1>2, <1>7 DEF IInv

\* A worker that need not wait for _refresh_idle any more asks for _regio_lock.
LEMMA EnterKeeps ==
  ASSUME IInv, NEW w \in Worker, Enter(w) PROVE IInv'
<1>1. pc[w] = "hold" /\ UNCHANGED <<dev, wire>>
  BY DEF Enter
<1>2. /\ pc = [v \in Worker |-> pc[v]] /\ todo = [v \in Worker |-> todo[v]]
      /\ Waits(pc, conn)
      /\ w = Pump => Popped(todo[Pump], last)
  BY <1>1 DEF IInv, PumpInv
<1>3. CASE Raises(Head(todo[w]), cache)
  <2>1. /\ pc' = [pc EXCEPT ![w] = "done"] /\ todo' = [todo EXCEPT ![w] = <<>>]
        /\ UNCHANGED <<cache, conn, stale, last>>
    BY <1>3 DEF Enter
  <2>2. w # Pump
    <3> SUFFICES ASSUME w = Pump PROVE FALSE
      OBVIOUS
    <3>1. PICK on \in BOOLEAN : todo[Pump] = <<StepOf(on)>>
      BY <1>2 DEF Popped
    <3>2. Head(todo[Pump]) = StepOf(on)
      BY <3>1
    <3> QED
      BY <1>3, <3>2, PumpProgram
  <2>3. LibInv'
    BY <1>1, <2>1 DEF IInv, LibInv
  <2>4. pc'[Pump] = pc[Pump] /\ todo'[Pump] = todo[Pump]
    BY <1>2, <2>1, <2>2, TaskFacts
  <2>5. pc' = [v \in Worker |-> pc'[v]] /\ todo' = [v \in Worker |-> todo'[v]]
    BY <1>2, <2>1
  <2>6. Waits(pc', conn)
    BY <1>1, <1>2, <2>1 DEF Waits
  <2>7. PumpInv'
    BY <2>1, <2>4, <2>5, <2>6 DEF IInv, PumpInv
  <2> QED
    BY <2>3, <2>7 DEF IInv
<1>4. CASE ~ Raises(Head(todo[w]), cache) /\ lock = <<>>
  <2>1. Run(w, job[w], todo[w], [Now EXCEPT !.lock = <<w>>])
    BY <1>4 DEF Enter
  <2>2. Run(w, job[w], todo[w],
            [cache |-> cache, conn |-> conn, stale |-> stale, idle |-> idle, lock |-> <<w>>])
    BY <2>1, NowExcept
  <2> QED
    BY <1>1, <2>2, RunNow
<1>5. CASE ~ Raises(Head(todo[w]), cache) /\ lock # <<>>
  <2>1. pc' = [pc EXCEPT ![w] = "lock"] /\ UNCHANGED <<cache, conn, stale, todo, last>>
    BY <1>5 DEF Enter
  <2>2. LibInv'
    BY <1>1, <2>1 DEF IInv, LibInv
  <2>3. IF w = Pump THEN pc'[Pump] = "lock" ELSE pc'[Pump] = pc[Pump]
    BY <1>2, <2>1, TaskFacts
  <2>4. pc' = [v \in Worker |-> pc'[v]]
    BY <1>2, <2>1
  <2>5. Waits(pc', conn)
    BY <1>1, <1>2, <2>1 DEF Waits
  <2>6. PumpInv'
    BY <1>2, <2>1, <2>3, <2>4, <2>5 DEF IInv, PumpInv
  <2> QED
    BY <2>2, <2>6 DEF IInv
<1> QED
  BY <1>3, <1>4, <1>5

\* A worker gets _regio_lock.
LEMMA GotLockKeeps ==
  ASSUME IInv, NEW w \in Worker, GotLock(w) PROVE IInv'
<1>1. pc[w] = "lock" /\ UNCHANGED <<dev, wire>> /\ Run(w, job[w], todo[w], Now)
  BY DEF GotLock
<1>2. Run(w, job[w], todo[w],
          [cache |-> cache, conn |-> conn, stale |-> stale, idle |-> idle, lock |-> lock])
  BY <1>1, NowExcept
<1> QED
  BY <1>1, <1>2, RunNow

\* A write is sent, and its caller goes on.
LEMMA WriteSentKeeps ==
  ASSUME IInv, WriteSent PROVE IInv'
<1> DEFINE q == Head(conn)
           c == CacheAtReturn(q, cache)
           st == StaleAtReturn(q, Tail(conn), stale)
<1>1. /\ conn # <<>> /\ q.op = "write" /\ wire' = Append(wire, q) /\ UNCHANGED dev
      /\ Run(q.task, job[q.task], todo[q.task],
             [Now EXCEPT !.conn = Tail(@), !.cache = CacheAtReturn(q, @),
                         !.stale = StaleAtReturn(q, Tail(conn), @)])
  BY DEF WriteSent
<1>2. Now.conn = conn /\ Now.cache = cache /\ Now.stale = stale
  BY DEF Now
<1>3. GoesOn(q.task, job[q.task], todo[q.task],
             [cache |-> c, conn |-> Tail(conn), stale |-> st, idle |-> idle, lock |-> lock])
  <2>1. [Now EXCEPT !.conn = Tail(@), !.cache = CacheAtReturn(q, @), !.stale = StaleAtReturn(q, Tail(conn), @)]
        = [Now EXCEPT !.conn = Tail(conn), !.cache = c, !.stale = st]
    BY <1>2
  <2>2. [Now EXCEPT !.conn = Tail(conn), !.cache = c, !.stale = st]
        = [cache |-> c, conn |-> Tail(conn), stale |-> st, idle |-> idle, lock |-> lock]
    <3> HIDE DEF c, st
    <3> QED
      BY NowReturned
  <2> QED
    BY <1>1, <2>1, <2>2 DEF GoesOn
<1>4. Coherent(dev', c, Tail(conn), wire', st)
  <2>1. Coherent(dev, cache, conn, wire, stale)
    BY DEF IInv, LibInv
  <2> QED
    BY <1>1, <2>1, WriteReturnKeeps
<1>5. ASSUME StepFlag[1] \notin st PROVE Known(c, last)
  <2>1. c[StepFlag[1]] = cache[StepFlag[1]]
    BY <1>1, TaskFacts DEF CacheAtReturn
  <2> QED
    BY <2>1 DEF IInv, PumpInv, Known
<1> HIDE DEF c, st
<1> QED
  BY <1>1, <1>3, <1>4, <1>5, RunOn

\* The reply to a read is taken into the cache.
LEMMA ReadReturnsKeeps ==
  ASSUME IInv, ReadReturns PROVE IInv'
<1> DEFINE q == Head(conn)
           c == CacheAtReturn(q, cache)
           st == StaleAtReturn(q, Tail(conn), stale)
<1>1. /\ conn # <<>> /\ q.at = "answered" /\ UNCHANGED <<dev, wire>>
      /\ Run(q.task, job[q.task], todo[q.task],
             [Now EXCEPT !.conn = Tail(@), !.cache = CacheAtReturn(q, @),
                         !.stale = StaleAtReturn(q, Tail(conn), @)])
  BY DEF ReadReturns
<1>2. Now.conn = conn /\ Now.cache = cache /\ Now.stale = stale
  BY DEF Now
<1>3. GoesOn(q.task, job[q.task], todo[q.task],
             [cache |-> c, conn |-> Tail(conn), stale |-> st, idle |-> idle, lock |-> lock])
  <2>1. [Now EXCEPT !.conn = Tail(@), !.cache = CacheAtReturn(q, @), !.stale = StaleAtReturn(q, Tail(conn), @)]
        = [Now EXCEPT !.conn = Tail(conn), !.cache = c, !.stale = st]
    BY <1>2
  <2>2. [Now EXCEPT !.conn = Tail(conn), !.cache = c, !.stale = st]
        = [cache |-> c, conn |-> Tail(conn), stale |-> st, idle |-> idle, lock |-> lock]
    <3> HIDE DEF c, st
    <3> QED
      BY NowReturned
  <2> QED
    BY <1>1, <2>1, <2>2 DEF GoesOn
<1>4. /\ Coherent(dev', c, Tail(conn), wire', st)
      /\ \A x \in Reg \ stale : Acc[x] # "rc" => c[x] = cache[x]
  <2>1. Coherent(dev, cache, conn, wire, stale)
    BY DEF IInv, LibInv
  <2> QED
    BY <1>1, <2>1, ReadReturnKeeps
<1>5. ASSUME StepFlag[1] \notin st PROVE Known(c, last)
  <2>1. CASE StepFlag[1] \in stale
    BY <2>1 DEF IInv, PumpInv, Known
  <2>2. CASE StepFlag[1] \notin stale
    <3>1. c[StepFlag[1]] = cache[StepFlag[1]]
      BY <1>4, <2>2, TaskFacts
    <3> QED
      BY <3>1 DEF IInv, PumpInv, Known
  <2> QED
    BY <2>1, <2>2
<1> HIDE DEF c, st
<1> QED
  BY <1>1, <1>3, <1>4, <1>5, RunOn

\* A call fails, and its worker ends.
LEMMA RaiseKeeps ==
  ASSUME IInv, conn # <<>>, Raise PROVE IInv'
<1> DEFINE q == Head(conn)
           st == IF q.op = "write" THEN stale \cup DOMAIN q.data ELSE stale
<1>1. /\ wire' = IF wire # <<>> /\ wire[Len(wire)].op = "read" THEN SubSeq(wire, 1, Len(wire) - 1) ELSE wire
      /\ UNCHANGED dev
      /\ Finish(q.task, job[q.task],
                [Now EXCEPT !.conn = Tail(@),
                            !.stale = IF q.op = "write" THEN @ \cup DOMAIN q.data ELSE @])
  BY DEF Raise
<1>2. Now.conn = conn /\ Now.stale = stale
  BY DEF Now
<1>3. GoesOn(q.task, job[q.task], todo[q.task],
             [cache |-> cache, conn |-> Tail(conn), stale |-> st, idle |-> idle, lock |-> lock])
  <2>1. [Now EXCEPT !.conn = Tail(@), !.stale = IF q.op = "write" THEN @ \cup DOMAIN q.data ELSE @]
        = [Now EXCEPT !.conn = Tail(conn), !.stale = st]
    BY <1>2
  <2>2. [Now EXCEPT !.conn = Tail(conn), !.stale = st]
        = [cache |-> cache, conn |-> Tail(conn), stale |-> st, idle |-> idle, lock |-> lock]
    <3> HIDE DEF st
    <3> QED
      BY NowRaised
  <2> QED
    BY <1>1, <2>1, <2>2 DEF GoesOn
<1>4. Coherent(dev', cache, Tail(conn), wire', st)
  <2>1. Coherent(dev, cache, conn, wire, stale)
    BY DEF IInv, LibInv
  <2> QED
    BY <1>1, <2>1, FailKeeps
<1>5. Known(cache, last)
  BY DEF IInv, PumpInv
<1> HIDE DEF st
<1> QED
  BY <1>1, <1>3, <1>4, <1>5, RunOn

\* The actions that leave the workers alone, and only change the calls they wait for.
LEMMA PumpStays ==
  ASSUME IInv, SameTasks(conn, conn'), UNCHANGED <<cache, pc, todo>>,
         last' = IF StepFlag[1] \in stale' THEN "?" ELSE last
  PROVE  PumpInv'
<1>1. /\ pc = [w \in Worker |-> pc[w]] /\ todo = [w \in Worker |-> todo[w]]
      /\ Waits(pc, conn)
      /\ pc[Pump] \in {"rest", "pop", "hold", "lock", "io"}
      /\ pc[Pump] \in {"hold", "lock"} => Popped(todo[Pump], last)
      /\ pc[Pump] = "io" => todo[Pump] = <<>>
      /\ Known(cache, last)
  BY DEF IInv, PumpInv
<1>2. Waits(pc', conn')
  BY <1>1 DEF Waits, SameTasks
<1>3. \A t : Popped(t, last) => Popped(t, last')
  BY DEF Popped, Written
<1>4. Known(cache', last')
  BY <1>1 DEF Known
<1> QED
  BY <1>1, <1>2, <1>3, <1>4 DEF PumpInv

\* The connection breaks.
LEMMA BreaksKeeps ==
  ASSUME IInv, Breaks PROVE IInv'
<1>1. /\ wire # <<>> /\ wire' = <<>>
      /\ conn' = IF conn # <<>> /\ Head(conn).at = "sent" THEN [conn EXCEPT ![1].at = "broken"] ELSE conn
      /\ stale' = stale \cup Lost(wire)
      /\ last' = IF StepFlag[1] \in stale' THEN "?" ELSE last
      /\ UNCHANGED <<dev, cache, pc, todo>>
  BY DEF Breaks, Lost
<1>2. Coherent(dev, cache, conn, wire, stale) /\ dev = [c \in Cell |-> dev[c]]
  BY DEF IInv, LibInv
<1>3. Coherent(dev, cache, conn', wire', stale')
  BY <1>1, <1>2, BreakKeeps
<1>4. LibInv'
  BY <1>1, <1>2, <1>3 DEF LibInv
<1>5. SameTasks(conn, conn')
  <2>1. Queue(conn, wire)
    BY <1>2 DEF Coherent
  <2>2. SameTasks(conn, conn)
    BY DEF SameTasks
  <2> QED
    BY <1>1, <2>1, <2>2, HeadTask
<1>6. PumpInv'
  BY <1>1, <1>5, PumpStays
<1> QED
  BY <1>4, <1>6 DEF IInv

\* The request of a read is sent.
LEMMA SendReadStep ==
  ASSUME IInv, SendRead, UNCHANGED uiVars PROVE IInv'
<1>1. /\ conn # <<>> /\ Head(conn).op = "read" /\ Head(conn).at = "queued"
      /\ conn' = [conn EXCEPT ![1].at = "sent"] /\ wire' = Append(wire, Head(conn))
      /\ UNCHANGED <<dev, cache, stale, pc, todo, last>>
  BY DEF SendRead, uiVars
<1>2. Coherent(dev, cache, conn, wire, stale) /\ dev = [c \in Cell |-> dev[c]]
  BY DEF IInv, LibInv
<1>3. Coherent(dev, cache, conn', wire', stale)
  BY <1>1, <1>2, SendReadKeeps
<1>4. LibInv'
  BY <1>1, <1>2, <1>3 DEF LibInv
<1>5. SameTasks(conn, conn')
  <2>1. Queue(conn, wire)
    BY <1>2 DEF Coherent
  <2> QED
    BY <1>1, <2>1, HeadTask
<1>6. last' = IF StepFlag[1] \in stale' THEN "?" ELSE last
  BY <1>1 DEF IInv, PumpInv
<1>7. PumpInv'
  BY <1>1, <1>5, <1>6, PumpStays
<1> QED
  BY <1>4, <1>7 DEF IInv

\* The device carries out the next request.
LEMMA ServeStep ==
  ASSUME IInv, Serve, UNCHANGED uiVars PROVE IInv'
<1>1. wire # <<>> /\ wire' = Tail(wire) /\ UNCHANGED <<cache, stale, pc, todo, last>>
  BY DEF Serve, uiVars
<1>2. Coherent(dev, cache, conn, wire, stale) /\ dev = [c \in Cell |-> dev[c]] /\ Queue(conn, wire)
  BY DEF IInv, LibInv, Coherent
<1>3. last' = IF StepFlag[1] \in stale' THEN "?" ELSE last
  BY <1>1 DEF IInv, PumpInv
<1>4. CASE Head(wire).op = "write"
  <2>1. /\ dev' = [x \in Cell |-> IF x \in DOMAIN Head(wire).data THEN Head(wire).data[x] ELSE dev[x]]
        /\ UNCHANGED conn
    BY <1>4 DEF Serve
  <2>2. Coherent(dev', cache, conn, wire', stale)
    BY <1>1, <1>2, <1>4, <2>1, ServeWriteKeeps
  <2>3. dev' = [x \in Cell |-> dev'[x]]
    BY <2>1
  <2>4. LibInv'
    BY <1>1, <2>1, <2>2, <2>3 DEF LibInv
  <2>5. SameTasks(conn, conn')
    BY <2>1 DEF SameTasks
  <2> QED
    BY <1>1, <1>3, <2>4, <2>5, PumpStays DEF IInv
<1>5. CASE Head(wire).op # "write"
  <2>1. /\ conn' = [conn EXCEPT ![1].at = "answered",
                                ![1].data = [x \in DOMAIN Head(wire).data |-> dev[x]]]
        /\ UNCHANGED dev
    BY <1>5 DEF Serve
  <2>2. Coherent(dev, cache, conn', wire', stale)
    <3>1. Coherent(dev, cache,
                   [conn EXCEPT ![1].at = "answered",
                                ![1].data = [x \in DOMAIN Head(wire).data |-> dev[x]]],
                   Tail(wire), stale)
      BY <1>1, <1>2, <1>5, ServeReadKeeps
    <3> QED
      BY <1>1, <2>1, <3>1
  <2>3. LibInv'
    BY <1>1, <1>2, <2>1, <2>2 DEF LibInv
  <2>4. SameTasks(conn, conn')
    <3>1. conn # <<>>
      <4>1. IsSeq(wire) /\ Head(wire) = wire[1] /\ 1 \in 1 .. Len(wire)
        BY <1>1, <1>2, SeqShape, TailShape DEF Queue
      <4>2. wire[1].op = "read"
        BY <1>2, <1>5, <4>1 DEF Queue
      <4> QED
        BY <1>2, <4>1, <4>2 DEF Queue
    <3> QED
      BY <1>2, <2>1, <3>1, HeadTask
  <2> QED
    BY <1>1, <1>3, <2>3, <2>4, PumpStays DEF IInv
<1> QED
  BY <1>4, <1>5

\* The firmware sets a flag.
LEMMA FirmwareKeeps ==
  ASSUME IInv, Firmware PROVE IInv'
<1>1. PICK r \in Reg : \E b \in Bits[r] : Event(r, b)
  BY DEF Firmware
<1> PICK b \in Bits[r] : Event(r, b)
  BY <1>1
<1>2. /\ Acc[r] = "rc" /\ dev' = [dev EXCEPT ![r] = @ \cup {b}]
      /\ UNCHANGED <<cache, conn, wire, stale, pc, todo, last>>
  BY DEF Event, Firmware, uiVars
<1>3. Coherent(dev, cache, conn, wire, stale) /\ dev = [c \in Cell |-> dev[c]]
  BY DEF IInv, LibInv
<1>4. Coherent(dev', cache, conn, wire, stale)
  BY <1>2, <1>3, EventKeeps
<1>5. dev' = [c \in Cell |-> dev'[c]]
  BY <1>2, <1>3
<1>6. LibInv'
  BY <1>2, <1>4, <1>5 DEF LibInv
<1>7. SameTasks(conn, conn') /\ last' = IF StepFlag[1] \in stale' THEN "?" ELSE last
  BY <1>2 DEF SameTasks, IInv, PumpInv
<1> QED
  BY <1>2, <1>6, <1>7, PumpStays DEF IInv

\* Every step of the specification, a stutter included, keeps the invariant.
LEMMA StepInv == IInv /\ [Next]_vars => IInv'
<1> SUFFICES ASSUME IInv, [Next]_vars PROVE IInv'
  OBVIOUS
<1>1. CASE UNCHANGED vars
  <2>1. UNCHANGED <<dev, cache, conn, wire, stale, pc, todo, last>>
    BY <1>1 DEF vars, libVars, uiVars
  <2> QED
    BY <2>1 DEF IInv, LibInv, PumpInv
<1>2. CASE \E w \in Task, kind \in TreeJob : StartTree(w, kind)
  BY <1>2, StartTreeKeeps
<1>3. CASE \E w \in Task, prog \in RowJob : StartRow(w, prog)
  BY <1>3, StartRowKeeps
<1>4. CASE PressStep
  BY <1>4, PressStepKeeps
<1>5. CASE PopStep
  BY <1>5, PopStepKeeps
<1>6. CASE \E w \in Worker : Enter(w)
  BY <1>6, EnterKeeps
<1>7. CASE \E w \in Worker : GotLock(w)
  BY <1>7, GotLockKeeps
<1>8. CASE WriteSent
  BY <1>8, WriteSentKeeps
<1>9. CASE ReadReturns
  BY <1>9, ReadReturnsKeeps
<1>10. CASE CallFails
  <2>1. conn # <<>> /\ Raise
    BY <1>10 DEF CallFails
  <2> QED
    BY <2>1, RaiseKeeps
<1>11. CASE CallBroken
  <2>1. conn # <<>> /\ Raise
    BY <1>11 DEF CallBroken
  <2> QED
    BY <2>1, RaiseKeeps
<1>12. CASE Breaks
  BY <1>12, BreaksKeeps
<1>13. CASE SendRead /\ UNCHANGED uiVars
  BY <1>13, SendReadStep
<1>14. CASE Serve /\ UNCHANGED uiVars
  BY <1>14, ServeStep
<1>15. CASE Firmware
  BY <1>15, FirmwareKeeps
<1> QED
  BY <1>1, <1>2, <1>3, <1>4, <1>5, <1>6, <1>7, <1>8, <1>9, <1>10, <1>11, <1>12, <1>13, <1>14, <1>15 DEF Next

\* The inductive invariant holds whatever the keys, the timer, the firmware
\* and the connection do.
LEMMA AlwaysInv == Spec => []IInv
  BY InitInv, StepInv, PTL DEF Spec

-----------------------------------------------------------------------------
\* With nothing under way on a cell, the cache shows what the device holds,
\* unless a read crossed its last write or that write was lost (Module's
\* _cache, external_mem.py, and the workers of skmap_ui/app.py).
THEOREM CacheDivergesForCause == Spec => []DivergesForCause
<1>1. IInv => DivergesForCause
  <2> SUFFICES ASSUME IInv, NEW c \in Cell \ stale, On(c, conn) = {}, On(c, wire) = {}
               PROVE  IF c \in Reg /\ Acc[c] = "rc" THEN cache[c] \subseteq dev[c] ELSE cache[c] = dev[c]
    BY DEF DivergesForCause
  <2>1. Writing(c, conn) = {} /\ Writing(c, wire) = {}
    BY DEF Writing
  <2>2. Fresh(c, dev, cache, conn, wire)
    BY DEF IInv, LibInv, Coherent
  <2> QED
    BY <2>1, <2>2 DEF Fresh, Settled, Shows
<1> QED
  BY <1>1, AlwaysInv, PTL

\* The pump calls the library for a step it has popped before, and only then.
LEMMA PumpCalls ==
  ASSUME IInv, Next, pc[Pump] # "io", pc'[Pump] = "io"
  PROVE  pc[Pump] \in {"hold", "lock"}
<1> SUFFICES ASSUME pc[Pump] \in {"rest", "pop"} PROVE FALSE
  BY DEF IInv, PumpInv
<1>1. /\ pc = [w \in Worker |-> pc[w]] /\ Waits(pc, conn) /\ Pump \in Worker /\ Pump \notin Task
  BY TaskFacts, PumpAssumption DEF IInv, PumpInv
<1>2. ASSUME NEW w, w # Pump, NEW kind, NEW prog, NEW s, Run(w, kind, prog, s) \/ Finish(w, kind, s)
      PROVE  FALSE
  <2>1. \E x : pc' = [pc EXCEPT ![w] = x]
    BY <1>2 DEF Run, Finish, Issue
  <2> QED
    BY <1>1, <1>2, <2>1
<1>3. conn # <<>> => Head(conn).task # Pump
  <2>1. IsSeq(conn)
    BY DEF IInv, LibInv, Coherent, Queue
  <2>2. conn # <<>> => Head(conn) = conn[1] /\ 1 \in 1 .. Len(conn)
    BY <2>1, TailShape
  <2> QED
    BY <1>1, <2>2 DEF Waits
<1>4. ASSUME NEW w \in Task, NEW kind, StartTree(w, kind) PROVE FALSE
  BY <1>1, <1>2, <1>4 DEF StartTree
<1>5. ASSUME NEW w \in Task, NEW prog, StartRow(w, prog) PROVE FALSE
  <2>1. pc' = [pc EXCEPT ![w] = "hold"]
    BY <1>5 DEF StartRow
  <2> QED
    BY <1>1, <2>1
<1>6. CASE PressStep
  <2>1. pc' = IF pc[Pump] = "rest" THEN [pc EXCEPT ![Pump] = "pop"] ELSE pc
    BY <1>6 DEF PressStep
  <2> QED
    BY <1>1, <2>1
<1>7. CASE PopStep
  <2>1. pc' = [pc EXCEPT ![Pump] = "hold"]
    BY <1>7 DEF PopStep
  <2> QED
    BY <1>1, <2>1
<1>8. ASSUME NEW w \in Worker, Enter(w) PROVE FALSE
  <2>1. pc[w] = "hold" /\ w # Pump
    BY <1>8 DEF Enter
  <2>2. \/ pc' = [pc EXCEPT ![w] = "done"]
        \/ Run(w, job[w], todo[w], [Now EXCEPT !.lock = <<w>>])
        \/ pc' = [pc EXCEPT ![w] = "lock"]
    BY <1>8 DEF Enter
  <2> QED
    BY <1>1, <1>2, <2>1, <2>2
<1>9. ASSUME NEW w \in Worker, GotLock(w) PROVE FALSE
  <2>1. pc[w] = "lock" /\ w # Pump /\ Run(w, job[w], todo[w], Now)
    BY <1>9 DEF GotLock
  <2> QED
    BY <1>2, <2>1
<1>10. CASE WriteSent
  BY <1>2, <1>3, <1>10 DEF WriteSent
<1>11. CASE ReadReturns
  BY <1>2, <1>3, <1>11 DEF ReadReturns
<1>12. CASE conn # <<>> /\ Raise
  BY <1>2, <1>3, <1>12 DEF Raise
<1>13. CASE CallFails \/ CallBroken
  BY <1>12, <1>13 DEF CallFails, CallBroken
<1>14. CASE UNCHANGED pc
  BY <1>14
<1>15. CASE Breaks \/ Firmware \/ UNCHANGED uiVars
  BY <1>14, <1>15 DEF Breaks, Firmware, uiVars
<1> QED
  BY <1>4, <1>5, <1>6, <1>7, <1>8, <1>9, <1>10, <1>11, <1>13, <1>15 DEF Next

\* The steps of a held '+' key write a strictly stepping series: the pump never
\* writes the value it wrote last, as long as nothing else has written the
\* register and its cache is not stale (_step_pump, _toggle_bool_async).
THEOREM HeldStepsAlternate == Spec => StepsAlternate
<1> DEFINE A == pc[Pump] # "io" /\ pc'[Pump] = "io" => last # Written(todo[Pump][1].on)
<1>1. IInv /\ [Next]_vars => [A]_vars
  <2> SUFFICES ASSUME IInv, Next, pc[Pump] # "io", pc'[Pump] = "io"
               PROVE  last # Written(todo[Pump][1].on)
    OBVIOUS
  <2>1. pc[Pump] \in {"hold", "lock"}
    BY PumpCalls
  <2>2. PICK on \in BOOLEAN : todo[Pump] = <<StepOf(on)>> /\ last # Written(on)
    BY <2>1 DEF IInv, PumpInv, Popped
  <2>3. todo[Pump][1].on = on
    BY <2>2 DEF StepOf, FlagOf
  <2> QED
    BY <2>2, <2>3
<1> HIDE DEF A
<1>2. Spec => [][A]_vars
  BY <1>1, AlwaysInv, PTL DEF Spec
<1> QED
  BY <1>2 DEF A, StepsAlternate
=============================================================================
