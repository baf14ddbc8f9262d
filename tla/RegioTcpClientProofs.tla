------------------------ MODULE RegioTcpClientProofs ------------------------
(***************************************************************************)
(* For every number of tasks, operations and connections: whatever times   *)
(* out, is closed, reset or reconnected, no operation is carried out twice,*)
(* and a read returns another read's reply only when that one was earlier  *)
(* and a read has failed.                                                  *)
(***************************************************************************)
EXTENDS RegioTcpClient, TLAPS

Ids(s) == {s[i] : i \in 1 .. Len(s)}
NoTwice(s) == \A i, j \in 1 .. Len(s) : s[i] = s[j] => i = j

TypeOK ==
  /\ link \in 0 .. MaxConn /\ opened \in 0 .. MaxConn
  /\ tosrv \in [Link -> Seq(Nat)]
  /\ done \in Seq(Nat)
  /\ pc \in [Task \cup {Watcher, Closer} -> {"idle", "lock", "connect", "head", "payload", "closing"}]
  /\ cur \in [Task -> Nat]
  /\ ops \in Seq([kind : {"rd", "wr"}, size : Nat])

\* The tasks whose request has not gone out.
Unsent == {t \in Task : pc[t] \in {"lock", "connect"}}

\* An operation is with its task, or in one place on its way to the server, or
\* carried out, or lost: never in two of these places.
InOnePlace ==
  /\ \A t \in Unsent : /\ cur[t] \in 1 .. Len(ops)
                       /\ cur[t] \notin Ids(done)
                       /\ \A k \in Link : cur[t] \notin Ids(tosrv[k])
  /\ \A t, u \in Unsent : t # u => cur[t] # cur[u]
  /\ \A k \in Link : /\ NoTwice(tosrv[k])
                     /\ Ids(tosrv[k]) \subseteq 1 .. Len(ops)
                     /\ Ids(tosrv[k]) \cap Ids(done) = {}
  /\ \A k, l \in Link : k # l => Ids(tosrv[k]) \cap Ids(tosrv[l]) = {}
  /\ NoTwice(done)
  /\ Ids(done) \subseteq 1 .. Len(ops)

IInv == TypeOK /\ InOnePlace

-----------------------------------------------------------------------------
\* A new element at the end of a sequence without repetitions.
LEMMA AppendIds ==
  ASSUME NEW s \in Seq(Nat), NEW x \in Nat
  PROVE  /\ Append(s, x) \in Seq(Nat)
         /\ Ids(Append(s, x)) = Ids(s) \cup {x}
         /\ NoTwice(s) /\ x \notin Ids(s) => NoTwice(Append(s, x))
<1> DEFINE a == Append(s, x)
<1>1. /\ a \in Seq(Nat) /\ Len(s) \in Nat /\ Len(a) = Len(s) + 1 /\ a[Len(s) + 1] = x
      /\ \A i \in 1 .. Len(s) : a[i] = s[i]
  OBVIOUS
<1> HIDE DEF a
<1>2. \A i \in 1 .. Len(a) : i \in 1 .. Len(s) \/ i = Len(s) + 1
  BY <1>1
<1>3. Ids(a) = Ids(s) \cup {x}
  <2>1. Ids(a) \subseteq Ids(s) \cup {x}
    BY <1>1, <1>2 DEF Ids
  <2>2. \A i \in 1 .. Len(s) : i \in 1 .. Len(a)
    BY <1>1
  <2>3. Ids(s) \subseteq Ids(a)
    BY <1>1, <2>2 DEF Ids
  <2>4. x \in Ids(a)
    <3>1. Len(s) + 1 \in 1 .. Len(a)
      BY <1>1
    <3> QED
      BY <1>1, <3>1 DEF Ids
  <2> QED
    BY <2>1, <2>3, <2>4
<1>4. ASSUME NoTwice(s), x \notin Ids(s), NEW i \in 1 .. Len(a), NEW j \in 1 .. Len(a), a[i] = a[j]
      PROVE  i = j
  <2>1. \A m \in 1 .. Len(s) : a[m] # x
    BY <1>1, <1>4 DEF Ids
  <2>2. CASE i \in 1 .. Len(s) /\ j \in 1 .. Len(s)
    BY <1>1, <1>4, <2>2 DEF NoTwice
  <2>3. CASE ~ (i \in 1 .. Len(s) /\ j \in 1 .. Len(s))
    BY <1>1, <1>2, <1>4, <2>1, <2>3
  <2> QED
    BY <2>2, <2>3
<1> QED
  BY <1>1, <1>3, <1>4 DEF a, NoTwice

\* The first element taken from a sequence without repetitions is not in the rest.
LEMMA TailIds ==
  ASSUME NEW s \in Seq(Nat), s # <<>>
  PROVE  /\ Head(s) \in Nat /\ Head(s) \in Ids(s)
         /\ Tail(s) \in Seq(Nat)
         /\ Ids(Tail(s)) \subseteq Ids(s)
         /\ NoTwice(s) => NoTwice(Tail(s)) /\ Head(s) \notin Ids(Tail(s))
<1> DEFINE a == Tail(s)
<1>1. /\ a \in Seq(Nat) /\ Len(s) \in Nat /\ Len(s) >= 1 /\ Len(a) = Len(s) - 1
      /\ Head(s) = s[1] /\ s[1] \in Nat
      /\ \A i \in 1 .. Len(a) : a[i] = s[i + 1]
  OBVIOUS
<1> HIDE DEF a
<1>2. \A i \in 1 .. Len(a) : i + 1 \in 1 .. Len(s) /\ i + 1 # 1
  BY <1>1
<1>3. 1 \in 1 .. Len(s)
  BY <1>1
<1>4. Ids(a) \subseteq Ids(s) /\ Head(s) \in Ids(s)
  BY <1>1, <1>2, <1>3 DEF Ids
<1>5. ASSUME NoTwice(s) PROVE NoTwice(a) /\ Head(s) \notin Ids(a)
  <2>1. ASSUME NEW i \in 1 .. Len(a), NEW j \in 1 .. Len(a), a[i] = a[j] PROVE i = j
    <3>1. s[i + 1] = s[j + 1] /\ i + 1 \in 1 .. Len(s) /\ j + 1 \in 1 .. Len(s)
      BY <1>1, <1>2, <2>1
    <3>2. i + 1 = j + 1
      BY <1>5, <3>1 DEF NoTwice
    <3> QED
      BY <3>2
  <2>2. ASSUME NEW i \in 1 .. Len(a), a[i] = s[1] PROVE FALSE
    <3>1. s[i + 1] = s[1] /\ i + 1 \in 1 .. Len(s) /\ i + 1 # 1
      BY <1>1, <1>2, <2>2
    <3> QED
      BY <1>3, <1>5, <3>1 DEF NoTwice
  <2> QED
    BY <1>1, <2>1, <2>2 DEF NoTwice, Ids
<1> QED
  BY <1>1, <1>4, <1>5 DEF a

-----------------------------------------------------------------------------
\* Nothing has been called in the initial state.
LEMMA InitIInv == Init => IInv
<1> SUFFICES ASSUME Init PROVE IInv
  OBVIOUS
<1>1. TypeOK
  <2>1. tosrv \in [Link -> Seq(Nat)] /\ done \in Seq(Nat)
        /\ ops \in Seq([kind : {"rd", "wr"}, size : Nat])
    BY DEF Init
  <2> QED
    BY <2>1, BoundAssumption DEF Init, TypeOK
<1>2. Unsent = {}
  BY DEF Init, Unsent
<1>3. Ids(<<>>) = {} /\ NoTwice(<<>>)
  BY DEF Ids, NoTwice
<1>4. done = <<>> /\ \A k \in Link : tosrv[k] = <<>>
  BY DEF Init
<1> QED
  BY <1>1, <1>2, <1>3, <1>4 DEF IInv, InOnePlace

\* A step that sends nothing and carries nothing out: tasks that have not sent
\* their request may give up.
LEMMA Quiet ==
  ASSUME IInv, TypeOK', UNCHANGED <<tosrv, done, ops>>,
         Unsent' \subseteq Unsent, \A t \in Unsent' : cur'[t] = cur[t]
  PROVE  IInv'
  BY DEF IInv, InOnePlace

\* A call takes a number that nobody has used.
LEMMA CallIInv ==
  ASSUME IInv, NEW t \in Task, NEW rq \in Request[t], Call(t, rq)
  PROVE  IInv'
<1>0. TypeOK /\ InOnePlace
  BY DEF IInv
<1> DEFINE n == Len(ops)
<1>1. n \in Nat /\ rq \in [kind : {"rd", "wr"}, size : Nat]
  BY <1>0, RequestAssumption DEF TypeOK
<1>2. /\ ops' = Append(ops, rq) /\ cur' = [cur EXCEPT ![t] = n + 1] /\ pc' = [pc EXCEPT ![t] = "lock"]
      /\ UNCHANGED <<link, opened, tosrv, done>>
  BY DEF Call, wire
<1>3. ops' \in Seq([kind : {"rd", "wr"}, size : Nat]) /\ Len(ops') = n + 1
  BY <1>0, <1>1, <1>2 DEF TypeOK
<1>4. TypeOK'
  BY <1>0, <1>1, <1>2, <1>3 DEF TypeOK
<1>5. Unsent' = Unsent \cup {t} /\ cur'[t] = n + 1 /\ \A u \in Task : u # t => cur'[u] = cur[u]
  BY <1>0, <1>2 DEF Unsent, TypeOK
<1>6. 1 .. n \subseteq 1 .. (n + 1) /\ n + 1 \notin 1 .. n /\ n + 1 \in 1 .. (n + 1)
  BY <1>1
<1>7. /\ n + 1 \notin Ids(done)
      /\ \A k \in Link : n + 1 \notin Ids(tosrv[k])
      /\ \A u \in Unsent : cur[u] # n + 1
  BY <1>0, <1>6 DEF InOnePlace
<1> HIDE DEF n
<1>8. n = Len(ops)
  BY DEF n
<1>9. \A u \in Unsent' : /\ cur'[u] \in 1 .. Len(ops')
                         /\ cur'[u] \notin Ids(done')
                         /\ \A k \in Link : cur'[u] \notin Ids(tosrv'[k])
  <2>1. ASSUME NEW u \in Unsent', u # t
        PROVE  /\ cur'[u] \in 1 .. Len(ops') /\ cur'[u] \notin Ids(done')
               /\ \A k \in Link : cur'[u] \notin Ids(tosrv'[k])
    <3>1. u \in Unsent /\ cur'[u] = cur[u]
      BY <1>5, <2>1 DEF Unsent
    <3> QED
      BY <1>0, <1>2, <1>3, <1>6, <1>8, <3>1 DEF InOnePlace
  <2>2. /\ cur'[t] \in 1 .. Len(ops') /\ cur'[t] \notin Ids(done')
        /\ \A k \in Link : cur'[t] \notin Ids(tosrv'[k])
    BY <1>2, <1>3, <1>5, <1>6, <1>7
  <2> QED
    BY <2>1, <2>2
<1>10. \A u, v \in Unsent' : u # v => cur'[u] # cur'[v]
  <2>1. \A u \in Unsent' : u # t => u \in Unsent /\ cur'[u] = cur[u] /\ cur[u] # n + 1
    BY <1>5, <1>7 DEF Unsent
  <2> QED
    BY <1>0, <1>5, <2>1 DEF InOnePlace
<1>11. /\ \A k \in Link : Ids(tosrv'[k]) \subseteq 1 .. Len(ops')
       /\ Ids(done') \subseteq 1 .. Len(ops')
  BY <1>0, <1>2, <1>3, <1>6, <1>8 DEF InOnePlace
<1>12. InOnePlace'
  BY <1>0, <1>2, <1>9, <1>10, <1>11 DEF InOnePlace
<1> QED
  BY <1>4, <1>12 DEF IInv

\* Sending moves the operation from the task to the connection, or it is lost.
LEMMA TransmitIInv ==
  ASSUME IInv, NEW t \in Unsent, NEW k \in Link, Transmit(t, k),
         link' \in 0 .. MaxConn, opened' \in 0 .. MaxConn, UNCHANGED <<done, ops>>
  PROVE  IInv'
<1>0. TypeOK /\ InOnePlace /\ t \in Task
  BY DEF IInv, Unsent
<1>1. /\ pc' = [pc EXCEPT ![t] = "idle"] \/ pc' = [pc EXCEPT ![t] = "head"]
      /\ cur' = cur \/ cur' = [cur EXCEPT ![t] = 0]
  <2>1. CASE ops[cur[t]].kind = "wr"
    <3>1. EndOp(t, cur[t])
      BY <2>1 DEF Transmit
    <3> QED
      BY <3>1 DEF EndOp
  <2>2. CASE ops[cur[t]].kind # "wr"
    BY <2>2 DEF Transmit
  <2> QED
    BY <2>1, <2>2
<1>2. Unsent' = Unsent \ {t} /\ \A u \in Unsent' : cur'[u] = cur[u]
  <2>1. pc'[t] \in {"idle", "head"} /\ \A u \in Task : u # t => pc'[u] = pc[u]
    BY <1>0, <1>1 DEF TypeOK
  <2>2. \A u \in Task : u # t => cur'[u] = cur[u]
    BY <1>0, <1>1 DEF TypeOK
  <2> QED
    BY <1>0, <2>1, <2>2 DEF Unsent
<1>3. pc' \in [Task \cup {Watcher, Closer} -> {"idle", "lock", "connect", "head", "payload", "closing"}]
      /\ cur' \in [Task -> Nat]
  <2>1. cur' \in [Task -> Nat]
    <3>1. cur \in [Task -> Nat]
      BY <1>0 DEF TypeOK
    <3> QED
      BY <1>1, <3>1
  <2>2. pc' \in [Task \cup {Watcher, Closer} -> {"idle", "lock", "connect", "head", "payload", "closing"}]
    <3>1. CASE pc' = [pc EXCEPT ![t] = "idle"]
      BY <1>0, <3>1 DEF TypeOK
    <3>2. CASE pc' = [pc EXCEPT ![t] = "head"]
      BY <1>0, <3>2 DEF TypeOK
    <3> QED
      BY <1>1, <3>1, <3>2
  <2> QED
    BY <2>1, <2>2
<1>4. CASE UNCHANGED tosrv
  <2>1. TypeOK'
    BY <1>0, <1>3, <1>4 DEF TypeOK
  <2> QED
    BY <1>2, <1>4, <2>1, Quiet
<1>5. CASE tosrv' # tosrv
  <2> DEFINE x == cur[t]
  <2>1. tosrv' = [tosrv EXCEPT ![k] = Append(tosrv[k], x)]
    BY <1>5 DEF Transmit, Put
  <2>2. /\ x \in Nat /\ x \in 1 .. Len(ops) /\ x \notin Ids(done) /\ tosrv[k] \in Seq(Nat)
        /\ \A l \in Link : x \notin Ids(tosrv[l])
        /\ \A u \in Unsent : u # t => cur[u] # x
    BY <1>0 DEF TypeOK, InOnePlace
  <2> HIDE DEF x
  <2>3. /\ Append(tosrv[k], x) \in Seq(Nat)
        /\ Ids(Append(tosrv[k], x)) = Ids(tosrv[k]) \cup {x}
        /\ NoTwice(Append(tosrv[k], x))
    BY <1>0, <2>2, AppendIds DEF InOnePlace
  <2>4. /\ tosrv' \in [Link -> Seq(Nat)]
        /\ Ids(tosrv'[k]) = Ids(tosrv[k]) \cup {x} /\ NoTwice(tosrv'[k])
        /\ \A l \in Link : l # k => tosrv'[l] = tosrv[l]
    BY <1>0, <2>1, <2>3 DEF TypeOK
  <2>5. TypeOK'
    BY <1>0, <1>3, <2>4 DEF TypeOK
  <2>6. ASSUME NEW u \in Unsent'
        PROVE  /\ cur'[u] \in 1 .. Len(ops') /\ cur'[u] \notin Ids(done')
               /\ \A l \in Link : cur'[u] \notin Ids(tosrv'[l])
    <3>1. u \in Unsent /\ u # t /\ cur'[u] = cur[u]
      BY <1>2
    <3> QED
      BY <1>0, <2>2, <2>4, <3>1 DEF InOnePlace
  <2>7. \A u, v \in Unsent' : u # v => cur'[u] # cur'[v]
    BY <1>0, <1>2 DEF InOnePlace
  <2>8. ASSUME NEW l \in Link
        PROVE  /\ NoTwice(tosrv'[l])
               /\ Ids(tosrv'[l]) \subseteq 1 .. Len(ops')
               /\ Ids(tosrv'[l]) \cap Ids(done') = {}
               /\ Ids(tosrv'[l]) \subseteq Ids(tosrv[l]) \cup {x}
               /\ l # k => Ids(tosrv'[l]) = Ids(tosrv[l])
    <3>1. /\ NoTwice(tosrv[l]) /\ Ids(tosrv[l]) \subseteq 1 .. Len(ops)
          /\ Ids(tosrv[l]) \cap Ids(done) = {} /\ ops' = ops /\ done' = done
      BY <1>0 DEF InOnePlace
    <3>2. CASE l = k
      BY <2>2, <2>4, <3>1, <3>2
    <3>3. CASE l # k
      BY <2>4, <3>1, <3>3
    <3> QED
      BY <3>2, <3>3
  <2>9. ASSUME NEW l \in Link, NEW m \in Link, l # m
        PROVE  Ids(tosrv'[l]) \cap Ids(tosrv'[m]) = {}
    <3>1. /\ Ids(tosrv[l]) \cap Ids(tosrv[m]) = {}
          /\ x \notin Ids(tosrv[l]) /\ x \notin Ids(tosrv[m])
      BY <1>0, <2>2, <2>9 DEF InOnePlace
    <3> QED
      BY <2>8, <2>9, <3>1
  <2>10. InOnePlace'
    BY <1>0, <2>6, <2>7, <2>8, <2>9 DEF InOnePlace
  <2> QED
    BY <2>5, <2>10 DEF IInv
<1> QED
  BY <1>4, <1>5

\* The steps of a task preserve the inductive invariant.
LEMMA TaskIInv ==
  ASSUME IInv, NEW t \in Task, TaskStep(t)
  PROVE  IInv'
<1>0. TypeOK /\ t # Watcher /\ t # Closer
  BY NamesAssumption DEF IInv
<1>1. CASE Acquire(t)
  <2>1. t \in Unsent /\ UNCHANGED <<link, opened, done, ops>>
    BY <1>1 DEF Acquire, Unsent
  <2>2. CASE Usable
    <3>1. link \in Link
      BY <1>0, <2>2, BoundAssumption DEF Usable, Link, TypeOK
    <3>2. link' \in 0 .. MaxConn /\ opened' \in 0 .. MaxConn
      BY <1>0, <2>1 DEF TypeOK
    <3> QED
      BY <1>1, <2>1, <2>2, <3>1, <3>2, TransmitIInv DEF Acquire
  <2>3. CASE ~Usable
    <3>1. pc' = [pc EXCEPT ![t] = "connect"] /\ UNCHANGED <<tosrv, cur>>
      BY <1>1, <2>3 DEF Acquire
    <3>2. TypeOK' /\ Unsent' = Unsent
      BY <1>0, <2>1, <3>1 DEF TypeOK, Unsent
    <3> QED
      BY <2>1, <3>1, <3>2, Quiet
  <2> QED
    BY <2>2, <2>3
<1>2. CASE Connected(t)
  <2>1. t \in Unsent /\ opened < MaxConn /\ opened' = opened + 1 /\ link' = opened + 1
        /\ Transmit(t, opened + 1) /\ UNCHANGED <<done, ops>>
    BY <1>0, <1>2 DEF Connected, Unsent
  <2>2. opened + 1 \in Link /\ link' \in 0 .. MaxConn /\ opened' \in 0 .. MaxConn
    BY <1>0, <2>1, BoundAssumption DEF Link, TypeOK
  <2> QED
    BY <2>1, <2>2, TransmitIInv
<1>3. CASE ConnectFails(t) \/ ReadHead(t) \/ ReadPayload(t) \/ ReadFails(t) \/ Timeout(t)
  <2>1. /\ UNCHANGED <<link, opened, tosrv, done, ops>>
        /\ pc' = [pc EXCEPT ![t] = "idle"] \/ (pc[t] = "head" /\ pc' = [pc EXCEPT ![t] = "payload"])
        /\ cur' = cur \/ (cur' = [cur EXCEPT ![t] = 0] /\ pc' = [pc EXCEPT ![t] = "idle"])
    BY <1>0, <1>3 DEF ConnectFails, ReadHead, ReadPayload, ReadFails, Timeout, EndOp, wire
  <2>2. TypeOK'
    BY <1>0, <2>1 DEF TypeOK
  <2>3. Unsent' \subseteq Unsent /\ \A u \in Unsent' : cur'[u] = cur[u]
    BY <1>0, <2>1 DEF Unsent, TypeOK
  <2> QED
    BY <2>1, <2>2, <2>3, Quiet
<1> QED
  BY <1>1, <1>2, <1>3 DEF TaskStep

\* So do those of the watcher, of close(), and a reset.
LEMMA OthersIInv ==
  ASSUME IInv, WatcherStep \/ CloseWriter \/ ForgetLink \/ (\E k \in Link : LinkLost(k)) \/ UNCHANGED vars
  PROVE  IInv'
<1>0. TypeOK /\ Watcher \notin Task /\ Closer \notin Task
  BY NamesAssumption DEF IInv
<1>1. UNCHANGED <<tosrv, done, ops, cur>>
  BY <1>0 DEF WatcherStep, Watch, Connected, ConnectFails, CloseWriter, ForgetLink, LinkLost, wire, vars
<1>2. \E p \in {"idle", "connect", "closing"} :
         pc' = pc \/ pc' = [pc EXCEPT ![Watcher] = p] \/ pc' = [pc EXCEPT ![Closer] = p]
  BY <1>0 DEF WatcherStep, Watch, Connected, ConnectFails, CloseWriter, ForgetLink, LinkLost, wire, vars
<1>3. link' \in 0 .. MaxConn /\ opened' \in 0 .. MaxConn
  BY <1>0, BoundAssumption
     DEF WatcherStep, Watch, Connected, ConnectFails, CloseWriter, ForgetLink, LinkLost, wire, vars, TypeOK
<1>4. TypeOK' /\ Unsent' = Unsent
  BY <1>0, <1>1, <1>2, <1>3 DEF TypeOK, Unsent
<1> QED
  BY <1>1, <1>4, Quiet

\* The server moves an operation from the connection to those carried out, or
\* loses all that is on its way.
LEMMA ServerIInv ==
  ASSUME IInv, NEW k \in Link, Serve(k) \/ HangUp(k)
  PROVE  IInv'
<1>0. TypeOK /\ InOnePlace
  BY DEF IInv
<1>1. UNCHANGED <<link, opened, pc, cur, ops>> /\ Unsent' = Unsent
  BY DEF Serve, HangUp, Unsent
<1>2. CASE Serve(k)
  <2> DEFINE q == tosrv[k]
             x == Head(q)
  <2>1. q \in Seq(Nat) /\ q # <<>> /\ NoTwice(q) /\ done \in Seq(Nat)
    BY <1>0, <1>2 DEF Serve, TypeOK, InOnePlace
  <2>2. tosrv' = [tosrv EXCEPT ![k] = Tail(q)] /\ done' = Append(done, x)
    BY <1>2 DEF Serve
  <2> HIDE DEF q
  <2>3. /\ x \in Nat /\ x \in Ids(q) /\ Tail(q) \in Seq(Nat)
        /\ Ids(Tail(q)) \subseteq Ids(q) /\ NoTwice(Tail(q)) /\ x \notin Ids(Tail(q))
    BY <2>1, TailIds
  <2> HIDE DEF x
  <2>4. x \notin Ids(done) /\ x \in 1 .. Len(ops)
        /\ (\A u \in Unsent : cur[u] # x) /\ (\A l \in Link : l # k => x \notin Ids(tosrv[l]))
    BY <1>0, <2>3 DEF InOnePlace, q
  <2>5. done' \in Seq(Nat) /\ Ids(done') = Ids(done) \cup {x} /\ NoTwice(done')
    <3>1. NoTwice(done)
      BY <1>0 DEF InOnePlace
    <3> QED
      BY <2>1, <2>2, <2>3, <2>4, <3>1, AppendIds
  <2>6. /\ tosrv' \in [Link -> Seq(Nat)] /\ tosrv'[k] = Tail(q)
        /\ \A l \in Link : l # k => tosrv'[l] = tosrv[l]
    BY <1>0, <2>2, <2>3 DEF TypeOK
  <2>7. \A l \in Link : Ids(tosrv'[l]) \subseteq Ids(tosrv[l]) /\ NoTwice(tosrv'[l]) /\ x \notin Ids(tosrv'[l])
    BY <1>0, <2>3, <2>4, <2>6 DEF InOnePlace, q
  <2>8. TypeOK'
    BY <1>0, <1>1, <2>5, <2>6 DEF TypeOK
  <2>9. \A u \in Unsent' : /\ cur'[u] \in 1 .. Len(ops')
                           /\ cur'[u] \notin Ids(done')
                           /\ \A l \in Link : cur'[u] \notin Ids(tosrv'[l])
    BY <1>0, <1>1, <2>4, <2>5, <2>7 DEF InOnePlace
  <2>10. \A l \in Link : /\ NoTwice(tosrv'[l])
                         /\ Ids(tosrv'[l]) \subseteq 1 .. Len(ops')
                         /\ Ids(tosrv'[l]) \cap Ids(done') = {}
    <3> SUFFICES ASSUME NEW l \in Link
                 PROVE  /\ Ids(tosrv'[l]) \subseteq 1 .. Len(ops')
                        /\ Ids(tosrv'[l]) \cap Ids(done') = {}
      BY <2>7
    <3>1. Ids(tosrv[l]) \subseteq 1 .. Len(ops) /\ Ids(tosrv[l]) \cap Ids(done) = {}
      BY <1>0 DEF InOnePlace
    <3>2. Ids(tosrv'[l]) \subseteq Ids(tosrv[l]) /\ x \notin Ids(tosrv'[l])
      BY <2>7
    <3> QED
      BY <1>1, <2>5, <3>1, <3>2
  <2>11. \A l, m \in Link : l # m => Ids(tosrv'[l]) \cap Ids(tosrv'[m]) = {}
    <3> SUFFICES ASSUME NEW l \in Link, NEW m \in Link, l # m
                 PROVE  Ids(tosrv'[l]) \cap Ids(tosrv'[m]) = {}
      OBVIOUS
    <3>1. Ids(tosrv[l]) \cap Ids(tosrv[m]) = {}
      BY <1>0 DEF InOnePlace
    <3>2. Ids(tosrv'[l]) \subseteq Ids(tosrv[l]) /\ Ids(tosrv'[m]) \subseteq Ids(tosrv[m])
      BY <2>7
    <3> QED
      BY <3>1, <3>2
  <2>12. Ids(done') \subseteq 1 .. Len(ops')
    BY <1>0, <1>1, <2>4, <2>5 DEF InOnePlace
  <2>13. InOnePlace'
    BY <1>0, <1>1, <2>5, <2>9, <2>10, <2>11, <2>12 DEF InOnePlace
  <2> QED
    BY <2>8, <2>13 DEF IInv
<1>3. CASE HangUp(k)
  <2>1. tosrv' = [tosrv EXCEPT ![k] = <<>>] /\ UNCHANGED done
    BY <1>3 DEF HangUp
  <2>2. tosrv' \in [Link -> Seq(Nat)]
    BY <1>0, <2>1 DEF TypeOK
  <2>3. TypeOK'
    BY <1>0, <1>1, <2>1, <2>2 DEF TypeOK
  <2>4. Ids(<<>>) = {} /\ NoTwice(<<>>)
    BY DEF Ids, NoTwice
  <2>5. \A l \in Link : Ids(tosrv'[l]) \subseteq Ids(tosrv[l]) /\ NoTwice(tosrv'[l])
    BY <1>0, <2>1, <2>4 DEF InOnePlace, TypeOK
  <2>6. InOnePlace'
    BY <1>0, <1>1, <2>1, <2>5 DEF InOnePlace
  <2> QED
    BY <2>3, <2>6 DEF IInv
<1> QED
  BY <1>2, <1>3

\* Every operation is in at most one place.
LEMMA SpecIInv == Spec => []IInv
<1>1. IInv /\ [Next]_vars => IInv'
  BY CallIInv, TaskIInv, OthersIInv, ServerIInv DEF Next
<1> QED
  BY <1>1, InitIInv, PTL DEF Spec

\* No operation is carried out twice, however calls, time limits, close(), the
\* watcher's connect and the server's hang-ups interleave: nothing is sent again.
THEOREM NothingTwice == Spec => []CarriedOutOnce
<1>1. IInv => CarriedOutOnce
  BY DEF IInv, InOnePlace, NoTwice, CarriedOutOnce
<1> QED
  BY <1>1, SpecIInv, PTL

-----------------------------------------------------------------------------
(* The order of the replies.                                               *)

\* Operations are called, come to the lock and end in one order: that of their
\* numbers.  Served is the last one that has come to the lock.
Served == Len(ops) - Len(queue)
Ended == IF lock = Nobody THEN Served ELSE Served - 1

\* The task that holds the lock reads a reply, from the connection Reads; replies
\* yet to be read come from there or from later connections.
Reading == lock # Nobody /\ pc[lock] \in {"head", "payload"}
Reads == IF Reading THEN from[lock] ELSE opened

\* The last operation whose request may be under way.
Sent == IF Reading THEN Served ELSE Ended

LockInv ==
  /\ queue \in Seq(Task)
  /\ lock \in Task \cup {Nobody}
  /\ from \in [Task -> Nat]
  /\ result \in [Op -> Int]
  /\ link \in {0, opened}
  /\ Len(ops) <= MaxOp /\ Len(queue) <= Len(ops)
  /\ lock # Nobody => Served > 0
  /\ \A i \in 1 .. Len(queue) : pc[queue[i]] = "lock" /\ cur[queue[i]] = Served + i
  /\ \A t \in Task :
       /\ pc[t] \in {"connect", "head", "payload"} <=> lock = t
       /\ lock = t => cur[t] = Served
       /\ pc[t] \in {"head", "payload"} => from[t] \in 1 .. opened /\ ops[cur[t]].kind = "rd"
  /\ \A i \in Op : result[i] >= -1 /\ (result[i] # 0 <=> i <= Ended)

\* What is on a connection, ts to the server and tc to the client, is in the
\* order of the requests; a body has the id of the head before it.
InOrder(ts, tc) ==
  /\ \A i, j \in 1 .. Len(ts) : i < j => ts[i] < ts[j]
  /\ \A i, j \in 1 .. Len(tc) : i < j =>
       tc[i].id < tc[j].id \/ (j = i + 1 /\ tc[i].id = tc[j].id /\ tc[j].part = "body")
  /\ \A i \in 1 .. Len(tc), j \in 1 .. Len(ts) : tc[i].id < ts[j]

Msg == [part : {"head", "body"}, id : Nat]

OnLink(ts, tc) == Ids(ts) \cup {tc[i].id : i \in 1 .. Len(tc)}

WireInv ==
  /\ tocli \in [Link -> Seq(Msg)]
  /\ \A k \in Link :
       /\ OnLink(tosrv[k], tocli[k]) \subseteq 1 .. Sent
       /\ \A i \in 1 .. Len(tocli[k]) : ops[tocli[k][i].id].kind = "rd"
       /\ k > opened => tosrv[k] = <<>> /\ tocli[k] = <<>>
       /\ InOrder(tosrv[k], tocli[k])
  /\ \A k, l \in Link : k < l =>
       \A x \in OnLink(tosrv[k], tocli[k]), y \in OnLink(tosrv[l], tocli[l]) : x < y

\* What is on a connection answers requests later than r, but for a body that may
\* be left of the reply to r itself.
After(r, ts, tc) ==
  /\ \A j \in 1 .. Len(ts) : r < ts[j]
  /\ \A j \in 1 .. Len(tc) : r < tc[j].id \/ (j = 1 /\ tc[j].id = r /\ tc[j].part = "body")
Later(r, ts, tc) == \A x \in OnLink(ts, tc) : r < x

\* The head of a reply has been read, and its payload has not.
Half == Reading /\ pc[lock] = "payload"

\* The replies that are still to be read are later than those that were returned.
ReturnInv ==
  \A i \in Op : result[i] > 0 /\ ops[i].kind = "rd" =>
    /\ result[i] <= i
    /\ \A k \in Link : k >= Reads =>
         /\ After(result[i], tosrv[k], tocli[k])
         /\ k > Reads \/ Half => Later(result[i], tosrv[k], tocli[k])

OrderInv == LockInv /\ WireInv /\ ReturnInv /\ OnlyLateReplies

-----------------------------------------------------------------------------
(* What sending, answering and reading do to the order on one connection.  *)

\* A connection that is past r has nothing of its reply left, not even a body.
LEMMA LaterIsAfter ==
  ASSUME NEW r, NEW ts, NEW tc, Later(r, ts, tc)
  PROVE  After(r, ts, tc)
<1>1. \A j \in 1 .. Len(ts) : ts[j] \in OnLink(ts, tc)
  BY DEF OnLink, Ids
<1>2. \A j \in 1 .. Len(tc) : tc[j].id \in OnLink(ts, tc)
  BY DEF OnLink
<1> QED
  BY <1>1, <1>2 DEF Later, After

\* A request goes out: its number is the largest there.
LEMMA PutOrder ==
  ASSUME NEW ts \in Seq(Nat), NEW tc \in Seq(Msg), NEW x \in Nat,
         InOrder(ts, tc), \A y \in OnLink(ts, tc) : y < x
  PROVE  /\ InOrder(Append(ts, x), tc)
         /\ OnLink(Append(ts, x), tc) = OnLink(ts, tc) \cup {x}
         /\ \A r : After(r, ts, tc) /\ r < x => After(r, Append(ts, x), tc)
<1> DEFINE a == Append(ts, x)
<1>1. /\ Len(ts) \in Nat /\ Len(a) = Len(ts) + 1 /\ a[Len(ts) + 1] = x
      /\ \A i \in 1 .. Len(ts) : a[i] = ts[i]
      /\ Ids(a) = Ids(ts) \cup {x}
  BY AppendIds
<1> HIDE DEF a
<1>2. \A i \in 1 .. Len(a) : i \in 1 .. Len(ts) \/ i = Len(ts) + 1
  BY <1>1
<1>3. /\ \A i \in 1 .. Len(ts) : ts[i] < x
      /\ \A i \in 1 .. Len(tc) : tc[i].id < x
  BY DEF OnLink, Ids
<1>4. \A i, j \in 1 .. Len(a) : i < j => a[i] < a[j]
  <2> SUFFICES ASSUME NEW i \in 1 .. Len(a), NEW j \in 1 .. Len(a), i < j PROVE a[i] < a[j]
    OBVIOUS
  <2>1. i \in 1 .. Len(ts)
    BY <1>1, <1>2
  <2>2. CASE j \in 1 .. Len(ts)
    BY <1>1, <2>1, <2>2 DEF InOrder
  <2>3. CASE j = Len(ts) + 1
    BY <1>1, <1>3, <2>1, <2>3
  <2> QED
    BY <1>2, <2>2, <2>3
<1>5. \A i \in 1 .. Len(tc), j \in 1 .. Len(a) : tc[i].id < a[j]
  BY <1>1, <1>2, <1>3 DEF InOrder
<1>6. InOrder(a, tc)
  BY <1>4, <1>5 DEF InOrder
<1>7. OnLink(a, tc) = OnLink(ts, tc) \cup {x}
  BY <1>1 DEF OnLink
<1>8. ASSUME NEW r, After(r, ts, tc), r < x PROVE After(r, a, tc)
  <2>1. \A j \in 1 .. Len(a) : r < a[j]
    BY <1>1, <1>2, <1>8 DEF After
  <2> QED
    BY <1>8, <2>1 DEF After
<1> QED
  BY <1>6, <1>7, <1>8 DEF a

\* A message is read: the rest is later than whatever the whole came after, and
\* comes after the message.
LEMMA PopOrder ==
  ASSUME NEW ts \in Seq(Nat), NEW tc \in Seq(Msg), tc # <<>>, InOrder(ts, tc)
  PROVE  /\ Tail(tc) \in Seq(Msg) /\ Head(tc) \in Msg
         /\ InOrder(ts, Tail(tc))
         /\ OnLink(ts, Tail(tc)) \subseteq OnLink(ts, tc) /\ Head(tc).id \in OnLink(ts, tc)
         /\ \A i \in 1 .. Len(Tail(tc)) : i + 1 \in 1 .. Len(tc) /\ Tail(tc)[i] = tc[i + 1]
         /\ \A r : After(r, ts, tc) => Later(r, ts, Tail(tc))
         /\ After(Head(tc).id, ts, Tail(tc))
<1> DEFINE a == Tail(tc)
           m == Head(tc)
<1>1. /\ a \in Seq(Msg) /\ m \in Msg /\ Len(tc) \in Nat /\ Len(tc) >= 1 /\ Len(a) = Len(tc) - 1
      /\ m = tc[1] /\ \A i \in 1 .. Len(a) : a[i] = tc[i + 1]
  OBVIOUS
<1> HIDE DEF a, m
<1>2. \A i \in 1 .. Len(a) : i + 1 \in 1 .. Len(tc) /\ 1 < i + 1
  BY <1>1
<1>3. 1 \in 1 .. Len(tc)
  BY <1>1
<1>4. InOrder(ts, a)
  <2>1. ASSUME NEW i \in 1 .. Len(a), NEW j \in 1 .. Len(a), i < j
        PROVE  a[i].id < a[j].id \/ (j = i + 1 /\ a[i].id = a[j].id /\ a[j].part = "body")
    <3>1. i + 1 \in 1 .. Len(tc) /\ j + 1 \in 1 .. Len(tc) /\ i + 1 < j + 1
      BY <1>1, <1>2, <2>1
    <3>2. \/ tc[i + 1].id < tc[j + 1].id
          \/ j + 1 = (i + 1) + 1 /\ tc[i + 1].id = tc[j + 1].id /\ tc[j + 1].part = "body"
      BY <3>1 DEF InOrder
    <3>3. a[i] = tc[i + 1] /\ a[j] = tc[j + 1]
      BY <1>1
    <3>4. j + 1 = (i + 1) + 1 => j = i + 1
      OBVIOUS
    <3> QED
      BY <3>2, <3>3, <3>4
  <2>2. \A i \in 1 .. Len(a), j \in 1 .. Len(ts) : a[i].id < ts[j]
    BY <1>1, <1>2 DEF InOrder
  <2> QED
    BY <2>1, <2>2 DEF InOrder
<1>5. OnLink(ts, a) \subseteq OnLink(ts, tc) /\ m.id \in OnLink(ts, tc)
  BY <1>1, <1>2, <1>3 DEF OnLink
<1>6. ASSUME NEW r, After(r, ts, tc) PROVE Later(r, ts, a)
  <2>1. \A j \in 1 .. Len(a) : r < a[j].id
    BY <1>1, <1>2, <1>6 DEF After
  <2>2. \A j \in 1 .. Len(ts) : r < ts[j]
    BY <1>6 DEF After
  <2> QED
    BY <2>1, <2>2 DEF Later, OnLink, Ids
<1>7. After(m.id, ts, a)
  <2>1. \A j \in 1 .. Len(ts) : m.id < ts[j]
    BY <1>1, <1>3 DEF InOrder
  <2>2. ASSUME NEW j \in 1 .. Len(a) PROVE m.id < a[j].id \/ (j = 1 /\ a[j].id = m.id /\ a[j].part = "body")
    <3>1. \/ tc[1].id < tc[j + 1].id
          \/ j + 1 = 1 + 1 /\ tc[1].id = tc[j + 1].id /\ tc[j + 1].part = "body"
      BY <1>2, <1>3 DEF InOrder
    <3> QED
      BY <1>1, <3>1
  <2> QED
    BY <2>1, <2>2 DEF After
<1>8. \A i \in 1 .. Len(a) : i + 1 \in 1 .. Len(tc) /\ a[i] = tc[i + 1]
  BY <1>1, <1>2
<1> QED
  BY <1>1, <1>4, <1>5, <1>6, <1>7, <1>8 DEF a, m

\* The server takes a request: the reply to a read is a head and a body.
LEMMA ServeOrder ==
  ASSUME NEW ts \in Seq(Nat), NEW tc \in Seq(Msg), ts # <<>>, InOrder(ts, tc), NEW u \in Seq(Msg),
         u = <<>> \/ u = <<[part |-> "head", id |-> Head(ts)], [part |-> "body", id |-> Head(ts)]>>
  PROVE  /\ tc \o u \in Seq(Msg) /\ Head(ts) \in OnLink(ts, tc)
         /\ InOrder(Tail(ts), tc \o u)
         /\ OnLink(Tail(ts), tc \o u) \subseteq OnLink(ts, tc)
         /\ \A i \in 1 .. Len(tc \o u) : \/ i \in 1 .. Len(tc) /\ (tc \o u)[i] = tc[i]
                                         \/ u # <<>> /\ (tc \o u)[i].id = Head(ts)
         /\ \A r : After(r, ts, tc) => After(r, Tail(ts), tc \o u)
<1> DEFINE a == Tail(ts)
           b == tc \o u
           n == Len(tc)
           x == Head(ts)
<1>1. /\ a \in Seq(Nat) /\ Len(ts) \in Nat /\ Len(ts) >= 1 /\ Len(a) = Len(ts) - 1 /\ x = ts[1]
      /\ \A i \in 1 .. Len(a) : a[i] = ts[i + 1]
  OBVIOUS
<1>2. /\ b \in Seq(Msg) /\ n \in Nat /\ Len(b) = n + Len(u) /\ Len(u) \in Nat
      /\ \A i \in 1 .. n : b[i] = tc[i]
      /\ \A i \in 1 .. Len(u) : b[n + i] = u[i]
  OBVIOUS
<1>3. /\ u = <<>> => Len(b) = n
      /\ u # <<>> => /\ Len(b) = n + 2 /\ b[n + 1].id = x
                     /\ b[n + 2].id = x /\ b[n + 2].part = "body"
  <2>1. CASE u = <<>>
    BY <1>2, <2>1
  <2>2. CASE u = <<[part |-> "head", id |-> x], [part |-> "body", id |-> x]>>
    <3>1. Len(u) = 2 /\ u[1].id = x /\ u[2].id = x /\ u[2].part = "body" /\ u # <<>>
      BY <2>2
    <3> HIDE DEF b, n
    <3> QED
      BY <1>2, <3>1
  <2> QED
    BY <2>1, <2>2
<1> HIDE DEF a, b, n, x
<1>4. /\ \A i \in 1 .. Len(a) : i + 1 \in 1 .. Len(ts) /\ 1 < i + 1
      /\ 1 \in 1 .. Len(ts)
  BY <1>1
<1>5. ASSUME NEW i \in 1 .. Len(b)
      PROVE  \/ i \in 1 .. n /\ b[i] = tc[i]
             \/ u # <<>> /\ i \in {n + 1, n + 2} /\ b[i].id = x /\ (i = n + 2 => b[i].part = "body")
  <2>1. CASE i \in 1 .. n
    BY <1>2, <2>1
  <2>2. CASE i \notin 1 .. n
    <3>1. u # <<>> /\ i \in {n + 1, n + 2}
      BY <1>2, <1>3, <2>2
    <3> QED
      BY <1>3, <3>1
  <2> QED
    BY <2>1, <2>2
<1>6. /\ \A i \in 1 .. n : tc[i].id < x
      /\ \A i \in 1 .. Len(a) : x < a[i]
      /\ \A i \in 1 .. n, j \in 1 .. Len(a) : tc[i].id < a[j]
  BY <1>1, <1>4 DEF InOrder, n
<1>7. InOrder(a, b)
  <2>1. \A i, j \in 1 .. Len(a) : i < j => a[i] < a[j]
    <3> SUFFICES ASSUME NEW i \in 1 .. Len(a), NEW j \in 1 .. Len(a), i < j PROVE a[i] < a[j]
      OBVIOUS
    <3>1. i + 1 \in 1 .. Len(ts) /\ j + 1 \in 1 .. Len(ts) /\ i + 1 < j + 1
      BY <1>1, <1>4
    <3>2. ts[i + 1] < ts[j + 1]
      BY <3>1 DEF InOrder
    <3> QED
      BY <1>1, <3>2
  <2>2. ASSUME NEW i \in 1 .. Len(b), NEW j \in 1 .. Len(b), i < j
        PROVE  b[i].id < b[j].id \/ (j = i + 1 /\ b[i].id = b[j].id /\ b[j].part = "body")
    <3>1. CASE i \in 1 .. n /\ j \in 1 .. n
      <4>1. b[i] = tc[i] /\ b[j] = tc[j]
        BY <1>2, <3>1
      <4>2. tc[i].id < tc[j].id \/ (j = i + 1 /\ tc[i].id = tc[j].id /\ tc[j].part = "body")
        BY <2>2, <3>1 DEF InOrder, n
      <4> QED
        BY <4>1, <4>2
    <3>2. CASE i \in 1 .. n /\ j \notin 1 .. n
      <4>1. b[i] = tc[i]
        BY <1>2, <3>2
      <4>2. b[j].id = x
        BY <1>5, <3>2
      <4>3. tc[i].id < x
        BY <1>6, <3>2
      <4> QED
        BY <4>1, <4>2, <4>3
    <3>3. CASE i \notin 1 .. n
      <4>1. i = n + 1 /\ j = n + 2
        BY <1>2, <1>5, <2>2, <3>3
      <4>2. u # <<>>
        BY <1>5, <3>3
      <4>3. b[i].id = x /\ b[j].id = x /\ b[j].part = "body"
        BY <1>3, <4>1, <4>2
      <4>4. j = i + 1
        BY <1>2, <4>1
      <4> QED
        BY <4>3, <4>4
    <3> QED
      BY <3>1, <3>2, <3>3
  <2>3. \A i \in 1 .. Len(b), j \in 1 .. Len(a) : b[i].id < a[j]
    BY <1>5, <1>6
  <2> QED
    BY <2>1, <2>2, <2>3 DEF InOrder
<1>8. x \in OnLink(ts, tc)
  BY <1>1, <1>4 DEF OnLink, Ids
<1>9. OnLink(a, b) \subseteq OnLink(ts, tc)
  <2>1. \A i \in 1 .. Len(a) : a[i] \in OnLink(ts, tc)
    BY <1>1, <1>4 DEF OnLink, Ids
  <2>2. \A i \in 1 .. Len(b) : b[i].id \in OnLink(ts, tc)
    <3>1. \A i \in 1 .. n : tc[i].id \in OnLink(ts, tc)
      BY DEF OnLink, n
    <3> QED
      BY <1>5, <1>8, <3>1
  <2> QED
    BY <2>1, <2>2 DEF OnLink, Ids
<1>10. ASSUME NEW r, After(r, ts, tc) PROVE After(r, a, b)
  <2>1. \A i \in 1 .. Len(a) : r < a[i]
    BY <1>1, <1>4, <1>10 DEF After
  <2>2. r < x
    BY <1>1, <1>4, <1>10 DEF After
  <2>3. \A i \in 1 .. Len(b) : r < b[i].id \/ (i = 1 /\ b[i].id = r /\ b[i].part = "body")
    BY <1>5, <1>10, <2>2 DEF After, n
  <2> QED
    BY <2>1, <2>3 DEF After
<1>11. \A i \in 1 .. Len(b) : \/ i \in 1 .. n /\ b[i] = tc[i]
                              \/ u # <<>> /\ b[i].id = x
  BY <1>5
<1> QED
  BY <1>2, <1>7, <1>8, <1>9, <1>10, <1>11 DEF a, b, n, x

\* The server hangs up: what is on its way to it is lost.
LEMMA DropOrder ==
  ASSUME NEW ts, NEW tc, InOrder(ts, tc)
  PROVE  /\ InOrder(<<>>, tc) /\ OnLink(<<>>, tc) \subseteq OnLink(ts, tc)
         /\ \A r : After(r, ts, tc) => After(r, <<>>, tc)
<1>1. \A i \in 1 .. Len(<<>>) : FALSE
  OBVIOUS
<1>2. Ids(<<>>) = {}
  BY <1>1 DEF Ids
<1>3. InOrder(<<>>, tc)
  BY <1>1 DEF InOrder
<1>4. \A r : After(r, ts, tc) => After(r, <<>>, tc)
  BY <1>1 DEF After
<1> QED
  BY <1>2, <1>3, <1>4 DEF OnLink

-----------------------------------------------------------------------------
(* One turn after the other: how steps preserve LockInv.                   *)

\* Task t takes its turn: it holds the lock, or it gets it as the first waiter.
Turn(t) ==
  \/ lock = t /\ UNCHANGED queue
  \/ lock = Nobody /\ pc[t] = "lock" /\ queue # <<>> /\ Head(queue) = t /\ queue' = Tail(queue)

\* Nobody has called anything.
LEMMA InitOrderInv == Init => OrderInv
<1> SUFFICES ASSUME Init PROVE OrderInv
  OBVIOUS
<1>1. /\ ops = <<>> /\ queue = <<>> /\ lock = Nobody /\ opened = 0 /\ link = 0
      /\ Len(<<>>) = 0 /\ queue \in Seq(Task) /\ \A k \in Link : tosrv[k] = <<>> /\ tocli[k] = <<>>
  BY DEF Init
<1>2. Served = 0 /\ Ended = 0 /\ ~Reading /\ Sent = 0
  BY <1>1 DEF Served, Ended, Reading, Sent
<1>3. LockInv
  <2>1. \A i \in Op : i > 0 /\ result[i] = 0
    BY DEF Init, Op
  <2>2. \A t \in Task : pc[t] = "idle" /\ t # Nobody
    BY NamesAssumption DEF Init
  <2>3. from \in [Task -> Nat] /\ result \in [Op -> Int]
    BY DEF Init
  <2> QED
    BY <1>1, <1>2, <2>1, <2>2, <2>3, BoundAssumption DEF LockInv
<1>4. WireInv
  <2>1. tocli \in [Link -> Seq(Msg)]
    BY DEF Init
  <2>2. OnLink(<<>>, <<>>) = {} /\ InOrder(<<>>, <<>>)
    BY DEF OnLink, Ids, InOrder
  <2> QED
    BY <1>1, <2>1, <2>2 DEF WireInv
<1>5. \A i \in Op : result[i] = 0
  BY DEF Init
<1> QED
  BY <1>3, <1>4, <1>5 DEF OrderInv, ReturnInv, OnlyLateReplies

\* What is no write is a read.
LEMMA IsRead ==
  ASSUME IInv, NEW x \in 1 .. Len(ops), ops[x].kind # "wr"
  PROVE  ops[x].kind = "rd"
<1> DEFINE R == [kind : {"rd", "wr"}, size : Nat]
<1>1. ops \in Seq(R)
  BY DEF IInv, TypeOK
<1> HIDE DEF R
<1>2. ops[x] \in R
  BY <1>1
<1> QED
  BY <1>2 DEF R

\* The operation whose turn it is is the one after those that have ended.
LEMMA TurnIsNext ==
  ASSUME IInv, LockInv, NEW t \in Task, Turn(t), UNCHANGED ops
  PROVE  /\ queue' \in Seq(Task) /\ Len(queue') <= Len(ops)
         /\ Served' = cur[t] /\ cur[t] = Ended + 1 /\ cur[t] \in 1 .. Len(ops) /\ cur[t] \in Op
         /\ Ended \in Nat /\ result[cur[t]] = 0
         /\ \A i \in 1 .. Len(queue') :
              queue'[i] # t /\ pc[queue'[i]] = "lock" /\ cur[queue'[i]] = cur[t] + i
         /\ \A u \in Task : u # t => lock # u /\ pc[u] \notin {"connect", "head", "payload"}
<1>0. TypeOK /\ t # Nobody /\ \A u \in Task : u # Nobody
  BY NamesAssumption DEF IInv
<1>1. /\ Len(ops) \in Nat /\ Len(queue) \in Nat /\ Len(queue) <= Len(ops) /\ Len(ops) <= MaxOp
      /\ queue \in Seq(Task)
  BY <1>0 DEF TypeOK, LockInv
<1>2. /\ queue' \in Seq(Task) /\ Len(queue') <= Len(ops) /\ Len(queue') \in Nat
      /\ Served' = cur[t] /\ cur[t] = Ended + 1 /\ Ended \in Int /\ cur[t] \in 1 .. Len(ops)
      /\ \A i \in 1 .. Len(queue') :
           pc[queue'[i]] = "lock" /\ cur[queue'[i]] = cur[t] + i
  <2>1. CASE lock = t /\ UNCHANGED queue
    <3>1. Served' = Served /\ cur[t] = Served /\ Served > 0 /\ Served <= Len(ops) /\ Served \in Int
      BY <1>0, <1>1, <2>1 DEF LockInv, Served
    <3>2. Ended = Served - 1
      BY <1>0, <2>1 DEF Ended
    <3> QED
      BY <1>1, <2>1, <3>1, <3>2 DEF LockInv
  <2>2. CASE lock = Nobody /\ pc[t] = "lock" /\ queue # <<>> /\ Head(queue) = t /\ queue' = Tail(queue)
    <3> DEFINE a == Tail(queue)
    <3>1. /\ Len(queue) >= 1 /\ Len(a) = Len(queue) - 1 /\ queue[1] = t /\ a \in Seq(Task)
          /\ \A i \in 1 .. Len(a) : a[i] = queue[i + 1]
      BY <1>1, <2>2
    <3> HIDE DEF a
    <3>2. queue' = a
      BY <2>2 DEF a
    <3>3. Served' = Served + 1 /\ Ended = Served /\ Served \in Nat /\ Served + 1 <= Len(ops)
      BY <1>1, <2>2, <3>1, <3>2 DEF Served, Ended
    <3>4. cur[t] = Served + 1
      <4>1. 1 \in 1 .. Len(queue)
        BY <1>1, <3>1
      <4> QED
        BY <3>1, <4>1 DEF LockInv
    <3>5. ASSUME NEW i \in 1 .. Len(a) PROVE pc[a[i]] = "lock" /\ cur[a[i]] = cur[t] + i
      <4>1. i + 1 \in 1 .. Len(queue) /\ a[i] = queue[i + 1]
        BY <1>1, <3>1
      <4>2. pc[queue[i + 1]] = "lock" /\ cur[queue[i + 1]] = Served + (i + 1)
        BY <4>1 DEF LockInv
      <4> QED
        BY <3>3, <3>4, <4>1, <4>2
    <3> QED
      BY <1>1, <3>1, <3>2, <3>3, <3>4, <3>5
  <2> QED
    BY <2>1, <2>2 DEF Turn
<1>3. cur[t] \in Op /\ Ended \in Nat
  BY <1>1, <1>2, BoundAssumption DEF Op
<1>4. result[cur[t]] = 0
  BY <1>2, <1>3 DEF LockInv
<1>5. \A i \in 1 .. Len(queue') : queue'[i] # t
  <2>1. \A i \in 1 .. Len(queue') : cur[t] + i # cur[t]
    BY <1>2
  <2> QED
    BY <1>2, <2>1
<1>6. \A u \in Task : u # t => lock # u /\ pc[u] \notin {"connect", "head", "payload"}
  BY <1>0 DEF LockInv, Turn
<1> QED
  BY <1>2, <1>3, <1>4, <1>5, <1>6

\* A step of somebody who is in no turn and waits for none.
LEMMA LockIdle ==
  ASSUME IInv, LockInv, UNCHANGED <<ops, queue, lock, cur, from, result>>,
         \A t \in Task : pc'[t] = pc[t],
         opened' \in Nat, opened <= opened', link' \in {0, opened'}
  PROVE  /\ LockInv' /\ Served' = Served /\ Ended' = Ended /\ Sent' = Sent
         /\ Reading' = Reading /\ (lock # Nobody => pc'[lock] = pc[lock])
         /\ Reads' = (IF Reading THEN Reads ELSE opened')
<1>0. TypeOK /\ lock \in Task \cup {Nobody}
  BY DEF IInv, LockInv
<1>1. Served' = Served /\ Ended' = Ended
  BY DEF Served, Ended
<1>2. lock # Nobody => pc'[lock] = pc[lock]
  BY <1>0
<1>3. Reading' = Reading /\ Sent' = Sent /\ Reads' = (IF Reading THEN Reads ELSE opened')
  BY <1>1, <1>2 DEF Reading, Sent, Reads
<1>4. \A t \in Task : pc'[t] \in {"head", "payload"} => from'[t] \in 1 .. opened' /\ ops'[cur'[t]].kind = "rd"
  <2> SUFFICES ASSUME NEW t \in Task, pc'[t] \in {"head", "payload"}
               PROVE  from'[t] \in 1 .. opened' /\ ops'[cur'[t]].kind = "rd"
    OBVIOUS
  <2>1. from[t] \in 1 .. opened /\ ops[cur[t]].kind = "rd" /\ opened \in Nat
    BY <1>0, BoundAssumption DEF LockInv, TypeOK
  <2> QED
    BY <2>1
<1>5. \A i \in 1 .. Len(queue) : pc'[queue[i]] = "lock"
  <2>1. \A i \in 1 .. Len(queue) : queue[i] \in Task
    BY DEF LockInv
  <2> QED
    BY <2>1 DEF LockInv
<1> QED
  BY <1>1, <1>2, <1>3, <1>4, <1>5 DEF LockInv

\* A call queues with the next number.
LEMMA CallOrder ==
  ASSUME IInv, LockInv, NEW t \in Task, NEW rq \in Request[t], Call(t, rq)
  PROVE  /\ LockInv' /\ Served' = Served /\ Ended' = Ended /\ Sent' = Sent /\ Sent \in Nat
         /\ Reading' = Reading /\ (lock # Nobody => pc'[lock] = pc[lock]) /\ Reads' = Reads
         /\ Sent <= Len(ops) /\ \A i \in 1 .. Len(ops) : ops'[i] = ops[i]
<1>0. TypeOK /\ lock \in Task \cup {Nobody} /\ queue \in Seq(Task) /\ pc[t] = "idle" /\ Len(ops) < MaxOp
  BY DEF IInv, LockInv, Call
<1> DEFINE n == Len(ops)
           m == Len(queue)
<1>1. /\ ops' = Append(ops, rq) /\ queue' = Append(queue, t)
      /\ cur' = [cur EXCEPT ![t] = n + 1] /\ pc' = [pc EXCEPT ![t] = "lock"]
      /\ UNCHANGED <<link, opened, lock, from, result>>
  BY DEF Call
<1>2. /\ n \in Nat /\ m \in Nat /\ Len(ops') = n + 1 /\ Len(queue') = m + 1 /\ queue' \in Seq(Task)
      /\ \A i \in 1 .. n : ops'[i] = ops[i]
      /\ queue'[m + 1] = t /\ \A i \in 1 .. m : queue'[i] = queue[i]
      /\ m <= n
  BY <1>0, <1>1, RequestAssumption DEF TypeOK, LockInv
<1>3. Served = n - m /\ Served' = (n + 1) - (m + 1)
  BY <1>2 DEF Served
<1> HIDE DEF n, m
<1>4. Served' = Served /\ Ended' = Ended /\ Served \in Nat /\ Served <= n
  BY <1>1, <1>2, <1>3 DEF Ended
<1>5. lock # t
  BY <1>0 DEF LockInv
<1>6. /\ \A u \in Task : u # t => pc'[u] = pc[u] /\ cur'[u] = cur[u]
      /\ pc'[t] = "lock" /\ cur'[t] = n + 1
  BY <1>0, <1>1 DEF TypeOK
<1>7. lock # Nobody => pc'[lock] = pc[lock] /\ cur'[lock] = cur[lock] /\ lock \in Task
  BY <1>0, <1>5, <1>6
<1>8. Reading' = Reading /\ Sent' = Sent /\ Reads' = Reads
  BY <1>1, <1>4, <1>7 DEF Reading, Sent, Reads
<1>9. Sent \in Nat /\ Sent <= n
  <2>1. Ended \in Nat /\ Ended <= Served
    <3>1. lock # Nobody => Served > 0
      BY DEF LockInv
    <3> QED
      BY <1>4, <3>1 DEF Ended
  <2>2. Sent \in {Served, Ended}
    BY DEF Sent
  <2> QED
    BY <1>2, <1>4, <2>1, <2>2
<1>10. \A i \in 1 .. Len(queue') : pc'[queue'[i]] = "lock" /\ cur'[queue'[i]] = Served' + i
  <2> SUFFICES ASSUME NEW i \in 1 .. Len(queue')
               PROVE  pc'[queue'[i]] = "lock" /\ cur'[queue'[i]] = Served' + i
    OBVIOUS
  <2>1. CASE i = m + 1
    BY <1>2, <1>3, <1>4, <1>6, <2>1
  <2>2. CASE i # m + 1
    <3>1. i \in 1 .. m /\ i \in 1 .. Len(queue)
      BY <1>2, <2>2 DEF m
    <3>2. pc[queue[i]] = "lock" /\ cur[queue[i]] = Served + i /\ queue[i] \in Task
      BY <3>1 DEF LockInv
    <3> QED
      BY <1>0, <1>2, <1>4, <1>6, <3>1, <3>2
  <2> QED
    BY <2>1, <2>2
<1>11. ASSUME NEW u \in Task
       PROVE  /\ pc'[u] \in {"connect", "head", "payload"} <=> lock' = u
              /\ lock' = u => cur'[u] = Served'
              /\ pc'[u] \in {"head", "payload"} => from'[u] \in 1 .. opened' /\ ops'[cur'[u]].kind = "rd"
  <2>1. CASE u = t
    BY <1>1, <1>5, <1>6, <2>1
  <2>2. CASE u # t
    <3>1. pc'[u] = pc[u] /\ cur'[u] = cur[u]
      BY <1>6, <2>2
    <3>2. /\ pc[u] \in {"connect", "head", "payload"} <=> lock = u
          /\ lock = u => cur[u] = Served
          /\ pc[u] \in {"head", "payload"} => from[u] \in 1 .. opened /\ ops[cur[u]].kind = "rd"
      BY DEF LockInv
    <3>3. lock = u => cur[u] \in 1 .. n
      BY <1>4, <1>0, <3>2, NamesAssumption DEF LockInv
    <3>4. lock = u => ops'[cur[u]] = ops[cur[u]]
      BY <1>2, <3>3
    <3> QED
      BY <1>1, <1>4, <3>1, <3>2, <3>4
  <2> QED
    BY <2>1, <2>2
<1>12. LockInv'
  <2>1. Len(ops') <= MaxOp /\ Len(queue') <= Len(ops')
    BY <1>0, <1>2, BoundAssumption DEF n
  <2> QED
    BY <1>0, <1>1, <1>2, <1>4, <1>10, <1>11, <2>1 DEF LockInv
<1> QED
  BY <1>2, <1>4, <1>7, <1>8, <1>9, <1>12 DEF n

\* The operation whose turn it is ends.
LEMMA EndsTurn ==
  ASSUME IInv, LockInv, NEW t \in Task, Turn(t), NEW r \in Int, r # 0, r >= -1, EndOp(t, r), UNCHANGED ops,
         opened' \in Nat, opened <= opened', link' \in {0, opened'}
  PROVE  /\ LockInv' /\ Ended' = Served' /\ Sent' = Served' /\ ~Reading' /\ Reads' = opened'
         /\ result' = [result EXCEPT ![cur[t]] = r]
<1>0. TypeOK /\ t # Nobody /\ \A u \in Task : u # Nobody
  BY NamesAssumption DEF IInv
<1>1. /\ queue' \in Seq(Task) /\ Len(queue') <= Len(ops)
      /\ Served' = cur[t] /\ cur[t] = Ended + 1 /\ cur[t] \in 1 .. Len(ops) /\ cur[t] \in Op /\ Ended \in Nat
      /\ \A i \in 1 .. Len(queue') :
           queue'[i] # t /\ pc[queue'[i]] = "lock" /\ cur[queue'[i]] = cur[t] + i
      /\ \A u \in Task : u # t => lock # u /\ pc[u] \notin {"connect", "head", "payload"}
  BY TurnIsNext
<1>2. /\ result' = [result EXCEPT ![cur[t]] = r] /\ lock' = Nobody
      /\ pc' = [pc EXCEPT ![t] = "idle"] /\ cur' = [cur EXCEPT ![t] = 0] /\ from' = [from EXCEPT ![t] = 0]
  BY DEF EndOp
<1>3. /\ \A u \in Task : u # t => pc'[u] = pc[u] /\ cur'[u] = cur[u]
      /\ pc'[t] = "idle" /\ from' \in [Task -> Nat]
  BY <1>0, <1>2 DEF TypeOK, LockInv
<1>4. Ended' = Served' /\ ~Reading' /\ Sent' = Served' /\ Reads' = opened'
  BY <1>2 DEF Ended, Reading, Sent, Reads
<1>5. result' \in [Op -> Int] /\ \A i \in Op : result'[i] >= -1 /\ (result'[i] # 0 <=> i <= Ended')
  <2>1. result \in [Op -> Int] /\ \A i \in Op : result[i] >= -1 /\ (result[i] # 0 <=> i <= Ended)
    BY DEF LockInv
  <2>2. result' \in [Op -> Int] /\ result'[cur[t]] = r /\ \A i \in Op : i # cur[t] => result'[i] = result[i]
    BY <1>1, <1>2, <2>1
  <2>3. \A i \in Op : i # cur[t] => (i <= Ended <=> i <= cur[t])
    BY <1>1 DEF Op
  <2>4. Ended' = cur[t]
    BY <1>1, <1>4
  <2>5. \A i \in Op : i # cur[t] => (result'[i] >= -1 /\ (result'[i] # 0 <=> i <= Ended'))
    BY <2>1, <2>2, <2>3, <2>4
  <2>6. result'[cur[t]] >= -1 /\ result'[cur[t]] # 0 /\ cur[t] <= Ended'
    BY <1>1, <2>2, <2>4
  <2> QED
    BY <2>2, <2>5, <2>6
<1>6. \A i \in 1 .. Len(queue') : pc'[queue'[i]] = "lock" /\ cur'[queue'[i]] = Served' + i
  <2>1. \A i \in 1 .. Len(queue') : queue'[i] \in Task
    BY <1>1
  <2> QED
    BY <1>1, <1>3, <2>1
<1>7. \A u \in Task : pc'[u] \notin {"connect", "head", "payload"}
  BY <1>1, <1>3
<1>8. Len(ops') <= MaxOp
  BY DEF LockInv
<1>9. LockInv'
  BY <1>0, <1>1, <1>2, <1>3, <1>5, <1>6, <1>7, <1>8 DEF LockInv
<1> QED
  BY <1>2, <1>4, <1>9

\* The operation whose turn it is goes on, holding the lock: it connects, or it
\* reads its reply from connection k.
LEMMA HoldsTurn ==
  ASSUME IInv, LockInv, NEW t \in Task, Turn(t), NEW p \in {"connect", "head", "payload"}, NEW k \in Nat,
         lock' = t, pc' = [pc EXCEPT ![t] = p], from' = [from EXCEPT ![t] = k], UNCHANGED <<ops, cur, result>>,
         p # "connect" => k \in 1 .. opened' /\ ops[cur[t]].kind = "rd",
         opened' \in Nat, opened <= opened', link' \in {0, opened'}
  PROVE  /\ LockInv' /\ Ended' = Ended /\ Sent' = (IF p = "connect" THEN Ended ELSE Served')
         /\ Reading' = (p # "connect") /\ pc'[lock'] = p
         /\ Reads' = (IF p = "connect" THEN opened' ELSE k)
<1>0. TypeOK /\ t # Nobody /\ \A u \in Task : u # Nobody
  BY NamesAssumption DEF IInv
<1>1. /\ queue' \in Seq(Task) /\ Len(queue') <= Len(ops)
      /\ Served' = cur[t] /\ cur[t] = Ended + 1 /\ cur[t] \in 1 .. Len(ops) /\ cur[t] \in Op /\ Ended \in Nat
      /\ \A i \in 1 .. Len(queue') :
           queue'[i] # t /\ pc[queue'[i]] = "lock" /\ cur[queue'[i]] = cur[t] + i
      /\ \A u \in Task : u # t => lock # u /\ pc[u] \notin {"connect", "head", "payload"}
  BY TurnIsNext
<1>2. /\ \A u \in Task : u # t => pc'[u] = pc[u]
      /\ pc'[t] = p /\ from' \in [Task -> Nat] /\ from'[t] = k
  BY <1>0 DEF TypeOK, LockInv
<1>3. Ended' = Ended
  BY <1>0, <1>1 DEF Ended
<1>4. Reading' = (p # "connect") /\ pc'[lock'] = p /\ Reads' = (IF p = "connect" THEN opened' ELSE k)
  BY <1>0, <1>2 DEF Reading, Reads
<1>5. Sent' = (IF p = "connect" THEN Ended ELSE Served')
  BY <1>3, <1>4 DEF Sent
<1>6. \A i \in 1 .. Len(queue') : pc'[queue'[i]] = "lock" /\ cur'[queue'[i]] = Served' + i
  <2>1. \A i \in 1 .. Len(queue') : queue'[i] \in Task
    BY <1>1
  <2> QED
    BY <1>1, <1>2, <2>1
<1>7. \A u \in Task :
        /\ pc'[u] \in {"connect", "head", "payload"} <=> lock' = u
        /\ lock' = u => cur'[u] = Served'
        /\ pc'[u] \in {"head", "payload"} => from'[u] \in 1 .. opened' /\ ops'[cur'[u]].kind = "rd"
  BY <1>1, <1>2
<1>8. Len(ops') <= MaxOp /\ result' \in [Op -> Int]
      /\ \A i \in Op : result'[i] >= -1 /\ (result'[i] # 0 <=> i <= Ended')
  BY <1>3 DEF LockInv
<1>9. Served' > 0
  BY <1>1
<1>10. LockInv'
  BY <1>1, <1>2, <1>6, <1>7, <1>8, <1>9 DEF LockInv
<1> QED
  BY <1>3, <1>4, <1>5, <1>10

-----------------------------------------------------------------------------
(* What is on the connections: how steps preserve WireInv.                 *)

\* What is on connection k remains later than the operations it was later than.
Remains(k) ==
  \A r \in Int : r <= Ended =>
    /\ After(r, tosrv[k], tocli[k]) => After(r, tosrv'[k], tocli'[k])
    /\ Later(r, tosrv[k], tocli[k]) => Later(r, tosrv'[k], tocli'[k])

\* Nothing is sent, answered or read.
LEMMA WireStays ==
  ASSUME WireInv, UNCHANGED <<tosrv, tocli>>, Sent \in Nat, Sent' \in Nat, Sent <= Sent',
         opened \in Nat, opened' \in Nat, opened <= opened', \A i \in 1 .. Sent : ops'[i] = ops[i]
  PROVE  WireInv' /\ \A k \in Link : Remains(k)
<1>1. ASSUME NEW k \in Link
      PROVE  /\ OnLink(tosrv[k], tocli[k]) \subseteq 1 .. Sent'
             /\ \A i \in 1 .. Len(tocli[k]) : ops'[tocli[k][i].id].kind = "rd"
             /\ k > opened' => tosrv[k] = <<>> /\ tocli[k] = <<>>
  <2>1. OnLink(tosrv[k], tocli[k]) \subseteq 1 .. Sent
    BY DEF WireInv
  <2>2. \A i \in 1 .. Len(tocli[k]) : tocli[k][i].id \in 1 .. Sent
    BY <2>1 DEF OnLink
  <2>3. k > opened' => k > opened
    BY DEF Link
  <2> QED
    BY <2>1, <2>2, <2>3 DEF WireInv
<1> QED
  BY <1>1 DEF WireInv, Remains

\* A request goes out on the last connection.
LEMMA WireSend ==
  ASSUME WireInv, TypeOK, NEW k \in Link, NEW x \in Nat, x = Sent + 1, Sent = Ended, Sent \in Nat, Sent' = x,
         tosrv' = [tosrv EXCEPT ![k] = Append(@, x)], UNCHANGED <<tocli, ops>>,
         opened' = k, opened <= k
  PROVE  WireInv' /\ \A l \in Link : Remains(l)
<1> DEFINE ts == tosrv[k]
           tc == tocli[k]
<1>1. ts \in Seq(Nat) /\ tc \in Seq(Msg) /\ opened \in Nat /\ k \in Nat /\ \A l \in Link : l \in Nat
  BY BoundAssumption DEF TypeOK, WireInv, Link
<1>2. InOrder(ts, tc) /\ \A y \in OnLink(ts, tc) : y < x
  <2>1. InOrder(ts, tc) /\ OnLink(ts, tc) \subseteq 1 .. Sent
    BY DEF WireInv
  <2>2. \A y \in 1 .. Sent : y < x
    OBVIOUS
  <2> QED
    BY <2>1, <2>2
<1>3. /\ InOrder(Append(ts, x), tc)
      /\ OnLink(Append(ts, x), tc) = OnLink(ts, tc) \cup {x}
      /\ \A r : After(r, ts, tc) /\ r < x => After(r, Append(ts, x), tc)
  BY <1>1, <1>2, PutOrder
<1>4. tosrv'[k] = Append(ts, x) /\ tocli'[k] = tc /\ \A l \in Link : l # k => tosrv'[l] = tosrv[l] /\ tocli'[l] = tocli[l]
  BY DEF TypeOK
<1> HIDE DEF ts, tc
<1>5. \A l \in Link : OnLink(tosrv'[l], tocli'[l]) \subseteq OnLink(tosrv[l], tocli[l]) \cup {x}
  BY <1>3, <1>4 DEF ts, tc
<1>6. \A l \in Link : l # k => OnLink(tosrv'[l], tocli'[l]) = OnLink(tosrv[l], tocli[l])
  BY <1>4
<1>7. ASSUME NEW l \in Link
      PROVE  /\ OnLink(tosrv'[l], tocli'[l]) \subseteq 1 .. Sent'
             /\ \A i \in 1 .. Len(tocli'[l]) : ops'[tocli'[l][i].id].kind = "rd"
             /\ l > opened' => tosrv'[l] = <<>> /\ tocli'[l] = <<>>
             /\ InOrder(tosrv'[l], tocli'[l])
  <2>1. OnLink(tosrv[l], tocli[l]) \subseteq 1 .. Sent
    BY DEF WireInv
  <2>2. OnLink(tosrv'[l], tocli'[l]) \subseteq 1 .. Sent'
    BY <1>5, <2>1
  <2>3. \A i \in 1 .. Len(tocli'[l]) : ops'[tocli'[l][i].id].kind = "rd"
    BY DEF WireInv
  <2>4. l > opened' => l # k /\ l > opened
    BY <1>1
  <2>5. InOrder(tosrv'[l], tocli'[l])
    BY <1>3, <1>4 DEF WireInv, tc
  <2> QED
    BY <1>4, <2>2, <2>3, <2>4, <2>5 DEF WireInv
<1>8. ASSUME NEW l \in Link, NEW m \in Link, l < m,
             NEW y \in OnLink(tosrv'[l], tocli'[l]), NEW z \in OnLink(tosrv'[m], tocli'[m])
      PROVE  y < z
  <2>1. CASE m > k
    <3>1. m > opened /\ m # k
      BY <1>1, <2>1
    <3>2. tosrv'[m] = <<>> /\ tocli'[m] = <<>>
      BY <1>4, <3>1 DEF WireInv
    <3>3. OnLink(<<>>, <<>>) = {}
      BY DEF OnLink, Ids
    <3> QED
      BY <1>8, <3>2, <3>3
  <2>2. CASE m = k
    <3>1. y \in OnLink(tosrv[l], tocli[l])
      BY <1>1, <1>6, <1>8, <2>2
    <3>2. y \in 1 .. Sent
      BY <3>1 DEF WireInv
    <3>3. z = x \/ z \in OnLink(tosrv[m], tocli[m])
      BY <1>5
    <3> QED
      BY <1>8, <3>1, <3>2, <3>3 DEF WireInv
  <2>3. CASE m < k
    <3>1. l # k /\ m # k
      BY <1>1, <1>8, <2>3
    <3>2. y \in OnLink(tosrv[l], tocli[l]) /\ z \in OnLink(tosrv[m], tocli[m])
      BY <1>6, <3>1
    <3> QED
      BY <1>8, <3>2 DEF WireInv
  <2> QED
    BY <1>1, <2>1, <2>2, <2>3
<1>9. WireInv'
  <2>1. tocli' \in [Link -> Seq(Msg)]
    BY DEF WireInv
  <2> QED
    BY <1>7, <1>8, <2>1 DEF WireInv
<1>10. ASSUME NEW l \in Link, NEW r \in Int, r < x
       PROVE  /\ After(r, tosrv[l], tocli[l]) => After(r, tosrv'[l], tocli'[l])
              /\ Later(r, tosrv[l], tocli[l]) => Later(r, tosrv'[l], tocli'[l])
  <2>1. Later(r, tosrv[l], tocli[l]) => Later(r, tosrv'[l], tocli'[l])
    BY <1>5, <1>10 DEF Later
  <2>2. After(r, tosrv[l], tocli[l]) => After(r, tosrv'[l], tocli'[l])
    BY <1>3, <1>4, <1>10 DEF ts, tc
  <2> QED
    BY <2>1, <2>2
<1>11. \A r \in Int : r <= Ended => r < x
  OBVIOUS
<1> QED
  BY <1>9, <1>10, <1>11 DEF Remains

\* Part of what is on a connection is taken, or answered there.
LEMMA WireShrinks ==
  ASSUME WireInv, TypeOK, NEW k \in Link, NEW ts \in Seq(Nat), NEW tc \in Seq(Msg),
         tosrv' = [tosrv EXCEPT ![k] = ts], tocli' = [tocli EXCEPT ![k] = tc],
         InOrder(ts, tc), OnLink(ts, tc) \subseteq OnLink(tosrv[k], tocli[k]),
         \A i \in 1 .. Len(tc) : ops[tc[i].id].kind = "rd",
         k <= opened, opened' \in Nat, opened <= opened', Sent \in Nat, Sent' \in Nat, Sent <= Sent', UNCHANGED ops
  PROVE  /\ WireInv'
         /\ tosrv'[k] = ts /\ tocli'[k] = tc
         /\ \A l \in Link : l # k => tosrv'[l] = tosrv[l] /\ tocli'[l] = tocli[l]
<1>1. opened \in Nat /\ \A l \in Link : l \in Nat
  BY BoundAssumption DEF TypeOK, Link
<1>2. /\ tosrv'[k] = ts /\ tocli'[k] = tc /\ tocli' \in [Link -> Seq(Msg)]
      /\ \A l \in Link : l # k => tosrv'[l] = tosrv[l] /\ tocli'[l] = tocli[l]
  BY DEF TypeOK, WireInv
<1>3. \A l \in Link : OnLink(tosrv'[l], tocli'[l]) \subseteq OnLink(tosrv[l], tocli[l])
  BY <1>2
<1>4. ASSUME NEW l \in Link
      PROVE  /\ OnLink(tosrv'[l], tocli'[l]) \subseteq 1 .. Sent'
             /\ \A i \in 1 .. Len(tocli'[l]) : ops'[tocli'[l][i].id].kind = "rd"
             /\ l > opened' => tosrv'[l] = <<>> /\ tocli'[l] = <<>>
             /\ InOrder(tosrv'[l], tocli'[l])
  <2>1. OnLink(tosrv[l], tocli[l]) \subseteq 1 .. Sent
    BY DEF WireInv
  <2>2. OnLink(tosrv'[l], tocli'[l]) \subseteq 1 .. Sent'
    <3>1. 1 .. Sent \subseteq 1 .. Sent'
      OBVIOUS
    <3> QED
      BY <1>3, <2>1, <3>1
  <2>3. \A i \in 1 .. Len(tocli'[l]) : ops'[tocli'[l][i].id].kind = "rd"
    BY <1>2 DEF WireInv
  <2>4. l > opened' => l # k /\ l > opened
    BY <1>1
  <2>5. InOrder(tosrv'[l], tocli'[l])
    BY <1>2 DEF WireInv
  <2> QED
    BY <1>2, <2>2, <2>3, <2>4, <2>5 DEF WireInv
<1>5. \A l, m \in Link : l < m =>
        \A x \in OnLink(tosrv'[l], tocli'[l]), y \in OnLink(tosrv'[m], tocli'[m]) : x < y
  BY <1>3 DEF WireInv
<1> QED
  BY <1>2, <1>4, <1>5 DEF WireInv

\* A message is read from connection k.
LEMMA WireRead ==
  ASSUME WireInv, TypeOK, NEW k \in Link, tocli[k] # <<>>,
         tocli' = [tocli EXCEPT ![k] = Tail(@)], UNCHANGED <<tosrv, ops, opened>>,
         k <= opened, Sent \in Nat, Sent' \in Nat, Sent <= Sent'
  PROVE  /\ WireInv' /\ \A l \in Link : Remains(l)
         /\ \A r : After(r, tosrv[k], tocli[k]) => Later(r, tosrv'[k], tocli'[k])
         /\ \A l \in Link : l # k => tosrv'[l] = tosrv[l] /\ tocli'[l] = tocli[l]
         /\ LET x == Head(tocli[k]).id
            IN  /\ x \in OnLink(tosrv[k], tocli[k]) /\ x \in 1 .. Sent /\ ops[x].kind = "rd"
                /\ After(x, tosrv'[k], tocli'[k])
<1> DEFINE ts == tosrv[k]
           tc == tocli[k]
           a == Tail(tc)
           x == Head(tc).id
<1>1. ts \in Seq(Nat) /\ tc \in Seq(Msg) /\ tc # <<>> /\ InOrder(ts, tc) /\ opened \in Nat
  BY BoundAssumption DEF TypeOK, WireInv
<1>2. /\ a \in Seq(Msg) /\ Head(tc) \in Msg
      /\ InOrder(ts, a)
      /\ OnLink(ts, a) \subseteq OnLink(ts, tc) /\ x \in OnLink(ts, tc)
      /\ \A i \in 1 .. Len(a) : i + 1 \in 1 .. Len(tc) /\ a[i] = tc[i + 1]
      /\ \A r : After(r, ts, tc) => Later(r, ts, a)
      /\ After(x, ts, a)
  BY <1>1, PopOrder
<1>3. 1 \in 1 .. Len(tc) /\ Head(tc) = tc[1]
  BY <1>1
<1> HIDE DEF a
<1>4. /\ \A i \in 1 .. Len(a) : ops[a[i].id].kind = "rd"
      /\ ops[x].kind = "rd" /\ x \in 1 .. Sent
  BY <1>2, <1>3 DEF WireInv
<1>5. tosrv' = [tosrv EXCEPT ![k] = ts] /\ tocli' = [tocli EXCEPT ![k] = a]
  BY DEF TypeOK, WireInv, a
<1> HIDE DEF ts, tc
<1>6. /\ WireInv'
      /\ tosrv'[k] = ts /\ tocli'[k] = a
      /\ \A l \in Link : l # k => tosrv'[l] = tosrv[l] /\ tocli'[l] = tocli[l]
  <2>1. OnLink(ts, a) \subseteq OnLink(tosrv[k], tocli[k])
    BY <1>2 DEF ts, tc
  <2>2. opened' \in Nat /\ opened <= opened'
    BY <1>1
  <2> QED
    BY <1>1, <1>2, <1>4, <1>5, <2>1, <2>2, WireShrinks
<1>7. ASSUME NEW l \in Link PROVE Remains(l)
  <2>1. CASE l = k
    <3>1. \A r : After(r, ts, tc) => After(r, ts, a)
      BY <1>2, LaterIsAfter
    <3>2. \A r : Later(r, ts, tc) => Later(r, ts, a)
      BY <1>2 DEF Later
    <3> QED
      BY <1>6, <2>1, <3>1, <3>2 DEF Remains, ts, tc
  <2>2. CASE l # k
    BY <1>6, <2>2 DEF Remains
  <2> QED
    BY <2>1, <2>2
<1> QED
  BY <1>2, <1>4, <1>6, <1>7 DEF ts, tc

\* The server answers on connection k, or closes it.
LEMMA WireServed ==
  ASSUME WireInv, IInv, NEW k \in Link, Serve(k) \/ HangUp(k), Sent \in Nat, Sent' = Sent
  PROVE  WireInv' /\ \A l \in Link : Remains(l)
<1> DEFINE ts == tosrv[k]
           tc == tocli[k]
<1>0. TypeOK
  BY DEF IInv
<1>1. ts \in Seq(Nat) /\ tc \in Seq(Msg) /\ InOrder(ts, tc) /\ opened \in Nat /\ UNCHANGED <<ops, opened>>
      /\ k \in Nat
  BY <1>0, BoundAssumption DEF TypeOK, WireInv, Serve, HangUp, Link
<1>2. \A i \in 1 .. Len(tc) : ops[tc[i].id].kind = "rd"
  BY DEF WireInv
<1>3. PICK a \in Seq(Nat), b \in Seq(Msg) :
        /\ tosrv' = [tosrv EXCEPT ![k] = a] /\ tocli' = [tocli EXCEPT ![k] = b]
        /\ InOrder(a, b) /\ OnLink(a, b) \subseteq OnLink(ts, tc)
        /\ \A i \in 1 .. Len(b) : ops[b[i].id].kind = "rd"
        /\ \A r : After(r, ts, tc) => After(r, a, b)
        /\ k <= opened
  <2>1. CASE Serve(k)
    <3> DEFINE x == Head(ts)
               u == IF ops[x].kind = "wr" THEN <<>>
                    ELSE << [part |-> "head", id |-> x], [part |-> "body", id |-> x] >>
    <3>1. ts # <<>> /\ tosrv' = [tosrv EXCEPT ![k] = Tail(ts)]
          /\ tocli' = IF ops[x].kind = "wr" THEN tocli
                      ELSE [tocli EXCEPT ![k] = @ \o << [part |-> "head", id |-> x], [part |-> "body", id |-> x] >>]
      BY <2>1 DEF Serve
    <3>2. x \in Nat /\ u \in Seq(Msg)
      <4>1. x \in Nat
        BY <1>1, <3>1
      <4>2. [part |-> "head", id |-> x] \in Msg /\ [part |-> "body", id |-> x] \in Msg
        BY <4>1 DEF Msg
      <4> HIDE DEF x
      <4> QED
        BY <4>1, <4>2
    <3>3. tocli' = [tocli EXCEPT ![k] = tc \o u]
      <4>1. tc \o <<>> = tc
        BY <1>1
      <4>2. tocli = [tocli EXCEPT ![k] = tc]
        BY DEF WireInv
      <4> QED
        BY <3>1, <4>1, <4>2
    <3>4. u = <<>> \/ u = << [part |-> "head", id |-> x], [part |-> "body", id |-> x] >>
      OBVIOUS
    <3>5. u # <<>> => ops[x].kind # "wr"
      OBVIOUS
    <3> DEFINE b == tc \o u
    <3> HIDE DEF u, x
    <3>6. /\ b \in Seq(Msg) /\ x \in OnLink(ts, tc)
          /\ InOrder(Tail(ts), b)
          /\ OnLink(Tail(ts), b) \subseteq OnLink(ts, tc)
          /\ \A i \in 1 .. Len(b) : \/ i \in 1 .. Len(tc) /\ b[i] = tc[i]
                                    \/ u # <<>> /\ b[i].id = x
          /\ \A r : After(r, ts, tc) => After(r, Tail(ts), b)
      BY <1>1, <3>1, <3>2, <3>4, ServeOrder DEF x
    <3>7. u # <<>> => ops[x].kind = "rd"
      <4>1. x \in 1 .. Len(ops)
        <5>1. x \in Ids(ts)
          BY <1>1, <3>1, TailIds DEF x
        <5> QED
          BY <5>1 DEF IInv, InOnePlace
      <4> QED
        BY <3>5, <4>1, IsRead
    <3>8. \A i \in 1 .. Len(b) : ops[b[i].id].kind = "rd"
      BY <1>2, <3>6, <3>7
    <3>9. k <= opened
      BY <1>1, <3>1 DEF WireInv
    <3>10. Tail(ts) \in Seq(Nat)
      BY <1>1, <3>1
    <3> QED
      BY <3>1, <3>3, <3>6, <3>8, <3>9, <3>10
  <2>2. CASE HangUp(k)
    <3>1. tosrv' = [tosrv EXCEPT ![k] = <<>>] /\ tocli' = [tocli EXCEPT ![k] = tc] /\ k <= opened
      BY <2>2 DEF HangUp, WireInv
    <3>2. <<>> \in Seq(Nat)
      OBVIOUS
    <3> QED
      BY <1>1, <1>2, <3>1, <3>2, DropOrder
  <2> QED
    BY <2>1, <2>2
<1>4. /\ WireInv' /\ tosrv'[k] = a /\ tocli'[k] = b
      /\ \A l \in Link : l # k => tosrv'[l] = tosrv[l] /\ tocli'[l] = tocli[l]
  <2> HIDE DEF ts, tc
  <2>1. OnLink(a, b) \subseteq OnLink(tosrv[k], tocli[k])
    BY <1>3 DEF ts, tc
  <2>2. opened' \in Nat /\ opened <= opened' /\ Sent' \in Nat /\ Sent <= Sent' /\ UNCHANGED ops
    BY <1>1
  <2> QED
    BY <1>0, <1>3, <2>1, <2>2, WireShrinks
<1>5. ASSUME NEW l \in Link PROVE Remains(l)
  <2>1. CASE l = k
    <3>1. \A r : Later(r, ts, tc) => Later(r, a, b)
      BY <1>3 DEF Later
    <3> QED
      BY <1>3, <1>4, <2>1, <3>1 DEF Remains
  <2>2. CASE l # k
    BY <1>4, <2>2 DEF Remains
  <2> QED
    BY <2>1, <2>2
<1> QED
  BY <1>4, <1>5

-----------------------------------------------------------------------------
(* What the reads return: how steps preserve ReturnInv and OnlyLateReplies. *)

\* The counters behind the order are numbers.
LEMMA Numbers ==
  ASSUME IInv, LockInv
  PROVE  /\ Served \in Nat /\ Ended \in Nat /\ Sent \in Nat /\ Ended <= Sent /\ Sent <= Len(ops)
         /\ opened \in Nat /\ Reads \in Nat /\ Reads <= opened /\ Len(ops) \in Nat
<1>1. /\ Len(ops) \in Nat /\ Len(queue) \in Nat /\ Len(queue) <= Len(ops) /\ opened \in Nat
      /\ lock # Nobody => lock \in Task /\ Served > 0
  BY BoundAssumption DEF IInv, TypeOK, LockInv
<1>2. Served \in Nat /\ Served <= Len(ops)
  BY <1>1 DEF Served
<1>3. Ended \in Nat /\ Ended <= Served
  BY <1>1, <1>2 DEF Ended
<1>4. Sent \in {Served, Ended}
  BY DEF Sent
<1>5. Reads = opened \/ Reads \in 1 .. opened
  BY <1>1 DEF Reads, Reading, LockInv
<1> QED
  BY <1>1, <1>2, <1>3, <1>4, <1>5

\* No read returns, and replies are read where they were, or on a later
\* connection.
LEMMA ReturnStays ==
  ASSUME IInv, LockInv, ReturnInv,
         \A i \in Op : result'[i] > 0 /\ ops'[i].kind = "rd" => result'[i] = result[i] /\ ops[i].kind = "rd",
         Reads' \in Nat, Reads <= Reads', Half' => Half, \A k \in Link : Remains(k)
  PROVE  ReturnInv'
<1>1. Reads \in Nat /\ Ended \in Nat /\ \A k \in Link : k \in Nat
  BY Numbers DEF Link
<1> SUFFICES ASSUME NEW i \in Op, result'[i] > 0, ops'[i].kind = "rd"
             PROVE  /\ result'[i] <= i
                    /\ \A k \in Link : k >= Reads' =>
                         /\ After(result'[i], tosrv'[k], tocli'[k])
                         /\ k > Reads' \/ Half' => Later(result'[i], tosrv'[k], tocli'[k])
  BY DEF ReturnInv
<1>2. result'[i] = result[i] /\ result[i] > 0 /\ ops[i].kind = "rd" /\ result[i] <= i
  BY DEF ReturnInv
<1>3. result[i] \in Int /\ i <= Ended /\ i \in Nat
  <2>1. result \in [Op -> Int] /\ (result[i] # 0 <=> i <= Ended)
    BY DEF LockInv
  <2>2. result[i] \in Int
    BY <2>1
  <2> QED
    BY <1>2, <2>1, <2>2 DEF Op
<1>4. result[i] <= Ended
  BY <1>1, <1>2, <1>3
<1>5. ASSUME NEW k \in Link, k >= Reads'
      PROVE  /\ After(result'[i], tosrv'[k], tocli'[k])
             /\ k > Reads' \/ Half' => Later(result'[i], tosrv'[k], tocli'[k])
  <2>1. k >= Reads /\ (k > Reads' \/ Half' => k > Reads \/ Half)
    BY <1>1, <1>5
  <2>2. /\ After(result[i], tosrv[k], tocli[k])
        /\ k > Reads' \/ Half' => Later(result[i], tosrv[k], tocli[k])
    BY <1>2, <2>1 DEF ReturnInv
  <2> QED
    BY <1>2, <1>3, <1>4, <2>2 DEF Remains
<1> QED
  BY <1>2, <1>5

\* No read returns: an operation that ends is a write, or it fails.
LEMMA RepliesStay ==
  ASSUME LockInv, OnlyLateReplies,
         \A i \in Op : \/ result'[i] = result[i] /\ (result[i] # 0 => ops'[i] = ops[i])
                       \/ result[i] = 0 /\ (result'[i] = -1 \/ (result'[i] = i /\ ops'[i].kind = "wr"))
  PROVE  /\ OnlyLateReplies'
         /\ \A i \in Op : result'[i] > 0 /\ ops'[i].kind = "rd" => result'[i] = result[i] /\ ops[i].kind = "rd"
<1>1. \A i \in Op : result'[i] > 0 /\ ops'[i].kind = "rd" => result'[i] = result[i] /\ ops[i].kind = "rd"
  <2> SUFFICES ASSUME NEW i \in Op, result'[i] > 0, ops'[i].kind = "rd"
               PROVE  result'[i] = result[i] /\ ops[i].kind = "rd"
    OBVIOUS
  <2>1. result'[i] # 0 /\ result'[i] # -1
    OBVIOUS
  <2>2. "rd" # "wr"
    OBVIOUS
  <2> QED
    BY <2>1, <2>2
<1>2. ASSUME NEW i \in Op, NEW j \in Op, i < j, result'[i] > 0, ops'[i].kind = "rd",
             result'[j] > 0, ops'[j].kind = "rd"
      PROVE  result'[i] < result'[j]
  BY <1>1, <1>2 DEF OnlyLateReplies
<1>3. ASSUME NEW i \in Op, result'[i] > 0, result'[i] # i
      PROVE  result'[i] < i /\ \E j \in 1 .. (i - 1) : result'[j] = -1 /\ ops'[j].kind = "rd"
  <2>1. result'[i] = result[i]
    BY <1>3
  <2>2. result[i] < i
    BY <1>3, <2>1 DEF OnlyLateReplies
  <2>3. PICK j \in 1 .. (i - 1) : result[j] = -1 /\ ops[j].kind = "rd"
    BY <1>3, <2>1 DEF OnlyLateReplies
  <2>4. j \in Op
    BY BoundAssumption DEF Op
  <2>5. result'[j] = -1 /\ ops'[j].kind = "rd"
    BY <2>3, <2>4
  <2> QED
    BY <2>1, <2>2, <2>5
<1> QED
  BY <1>1, <1>2, <1>3 DEF OnlyLateReplies

\* An operation ends and no read returns.
LEMMA EndsOrder ==
  ASSUME IInv, OrderInv, NEW t \in Task, Turn(t), NEW r \in Int, EndOp(t, r), UNCHANGED ops,
         opened' \in Nat, opened <= opened', link' \in {0, opened'},
         r = -1 \/ (r = cur[t] /\ ops[cur[t]].kind = "wr"),
         LockInv /\ Sent' = Served' /\ Served' = cur[t] => WireInv' /\ \A k \in Link : Remains(k)
  PROVE  OrderInv'
<1>0. LockInv /\ ReturnInv /\ OnlyLateReplies
  BY DEF OrderInv
<1>1. Served' = cur[t] /\ cur[t] \in Op /\ result[cur[t]] = 0 /\ cur[t] > 0
  BY <1>0, TurnIsNext DEF Op
<1>2. /\ LockInv' /\ Sent' = Served' /\ ~Reading' /\ Reads' = opened'
      /\ result' = [result EXCEPT ![cur[t]] = r]
  <2>1. r # 0 /\ r >= -1
    BY <1>1
  <2> QED
    BY <1>0, <2>1, EndsTurn
<1>3. WireInv' /\ \A k \in Link : Remains(k)
  BY <1>0, <1>1, <1>2
<1>4. \A i \in Op : \/ result'[i] = result[i] /\ (result[i] # 0 => ops'[i] = ops[i])
                    \/ result[i] = 0 /\ (result'[i] = -1 \/ (result'[i] = i /\ ops'[i].kind = "wr"))
  <2>1. result \in [Op -> Int]
    BY <1>0 DEF LockInv
  <2>2. result'[cur[t]] = r /\ \A i \in Op : i # cur[t] => result'[i] = result[i]
    BY <1>1, <1>2, <2>1
  <2> QED
    BY <1>1, <2>2
<1>5. /\ OnlyLateReplies'
      /\ \A i \in Op : result'[i] > 0 /\ ops'[i].kind = "rd" => result'[i] = result[i] /\ ops[i].kind = "rd"
  BY <1>0, <1>4, RepliesStay
<1>6. ReturnInv'
  <2>1. Reads' \in Nat /\ Reads <= Reads' /\ ~Half'
    <3>1. Reads \in Nat /\ Reads <= opened /\ opened \in Nat
      BY <1>0, Numbers
    <3> QED
      BY <1>2, <3>1 DEF Half
  <2> QED
    BY <1>0, <1>3, <1>5, <2>1, ReturnStays
<1> QED
  BY <1>2, <1>3, <1>5, <1>6 DEF OrderInv

\* An operation fails, and nothing is sent or read.
LEMMA FailsOrder ==
  ASSUME IInv, OrderInv, NEW t \in Task, lock = t, EndOp(t, -1),
         UNCHANGED <<link, opened, tosrv, tocli, queue, ops>>
  PROVE  OrderInv'
<1>0. LockInv /\ WireInv
  BY DEF OrderInv
<1>1. Turn(t)
  BY DEF Turn
<1>2. opened' \in Nat /\ opened <= opened' /\ link' \in {0, opened'}
  BY <1>0, Numbers DEF LockInv
<1>3. ASSUME Sent' = Served', Served' = cur[t] PROVE WireInv' /\ \A k \in Link : Remains(k)
  <2>1. Sent \in Nat /\ Sent <= Served /\ Served \in Nat /\ Served' = Served /\ opened \in Nat
    BY <1>0, Numbers DEF Served, Sent, Ended
  <2>2. Sent' \in Nat /\ Sent <= Sent'
    BY <1>3, <2>1
  <2> QED
    BY <1>0, <1>2, <2>1, <2>2, WireStays
<1> QED
  BY <1>1, <1>2, <1>3, EndsOrder

\* A request goes out on the connection that was opened last.
LEMMA SendsOrder ==
  ASSUME IInv, OrderInv, NEW t \in Task, Turn(t), pc[t] \in {"lock", "connect"}, NEW k \in Link,
         opened' = k, opened <= k, link' = k, Transmit(t, k), UNCHANGED <<tocli, ops>>
  PROVE  OrderInv'
<1>0. LockInv /\ WireInv /\ ReturnInv /\ OnlyLateReplies /\ TypeOK /\ k \in Nat
  BY DEF OrderInv, IInv, Link
<1> DEFINE x == cur[t]
<1>1. Served' = x /\ x = Ended + 1 /\ x \in Op /\ x \in 1 .. Len(ops)
  BY <1>0, TurnIsNext
<1>2. /\ Ended \in Nat /\ Sent \in Nat /\ opened \in Nat /\ Reads \in Nat /\ Reads <= opened
      /\ \A u \in Task : u # Nobody
  BY <1>0, Numbers, NamesAssumption
<1>3. ~Reading /\ Sent = Ended
  BY <1>2 DEF Turn, Reading, Sent
<1>4. ASSUME Sent' = x PROVE WireInv' /\ \A l \in Link : Remains(l)
  <2>1. CASE k \in hungup
    <3>1. UNCHANGED tosrv
      BY <2>1 DEF Transmit, Put
    <3>2. Sent' \in Nat /\ Sent <= Sent' /\ opened' \in Nat /\ opened <= opened'
      BY <1>0, <1>1, <1>2, <1>3, <1>4
    <3> QED
      BY <1>0, <1>2, <3>1, <3>2, WireStays
  <2>2. CASE k \notin hungup
    <3>1. tosrv' = [tosrv EXCEPT ![k] = Append(@, x)]
      BY <2>2 DEF Transmit, Put
    <3>2. x \in Nat /\ x = Sent + 1
      BY <1>1, <1>2, <1>3
    <3> HIDE DEF x
    <3> QED
      BY <1>0, <1>2, <1>3, <1>4, <3>1, <3>2, WireSend
  <2> QED
    BY <2>1, <2>2
<1>5. CASE ops[x].kind = "wr"
  <2>1. EndOp(t, x)
    BY <1>5 DEF Transmit
  <2>2. x \in Int /\ opened' \in Nat /\ opened <= opened' /\ link' \in {0, opened'}
    BY <1>0, <1>1, <1>2
  <2> QED
    BY <1>4, <1>5, <2>1, <2>2, EndsOrder
<1>6. CASE ops[x].kind # "wr"
  <2>1. /\ lock' = t /\ pc' = [pc EXCEPT ![t] = "head"] /\ from' = [from EXCEPT ![t] = k]
        /\ UNCHANGED <<cur, result>>
    BY <1>6 DEF Transmit
  <2>2. ops[x].kind = "rd"
    BY <1>1, <1>6, IsRead
  <2>3. k \in 1 .. opened' /\ opened' \in Nat /\ opened <= opened' /\ link' \in {0, opened'}
    BY <1>0 DEF Link
  <2>4. /\ LockInv' /\ Sent' = Served' /\ Reading' /\ pc'[lock'] = "head" /\ Reads' = k
    BY <1>0, <2>1, <2>2, <2>3, HoldsTurn
  <2>5. WireInv' /\ \A l \in Link : Remains(l)
    BY <1>1, <1>4, <2>4
  <2>6. /\ OnlyLateReplies'
        /\ \A i \in Op : result'[i] > 0 /\ ops'[i].kind = "rd" => result'[i] = result[i] /\ ops[i].kind = "rd"
    BY <1>0, <2>1, RepliesStay
  <2>7. ReturnInv'
    <3>1. Reads' \in Nat /\ Reads <= Reads' /\ ~Half'
      BY <1>0, <1>2, <2>4 DEF Half
    <3> QED
      BY <1>0, <2>5, <2>6, <3>1, ReturnStays
  <2> QED
    BY <2>4, <2>5, <2>6, <2>7 DEF OrderInv
<1> QED
  BY <1>5, <1>6

\* A message is read by the task that holds the lock.
LEMMA ReaderReads ==
  ASSUME IInv, OrderInv, NEW t \in Task, pc[t] \in {"head", "payload"}
  PROVE  /\ lock = t /\ Reading /\ Reads = from[t] /\ from[t] \in Link /\ from[t] \in 1 .. opened
         /\ Sent = cur[t] /\ Served = cur[t] /\ ops[cur[t]].kind = "rd"
<1>1. lock = t /\ from[t] \in 1 .. opened /\ ops[cur[t]].kind = "rd" /\ cur[t] = Served /\ t # Nobody
  BY NamesAssumption DEF OrderInv, LockInv
<1>2. Reading /\ Reads = from[t] /\ Sent = Served
  BY <1>1 DEF Reading, Reads, Sent
<1>3. from[t] \in Link
  BY <1>1, BoundAssumption DEF Link, IInv, TypeOK
<1> QED
  BY <1>1, <1>2, <1>3

\* A head, or what is taken for one: the operation goes on or fails.
LEMMA HeadOrder ==
  ASSUME IInv, OrderInv, NEW t \in Task, ReadHead(t)
  PROVE  OrderInv'
<1> DEFINE k == from[t]
<1>0. LockInv /\ WireInv /\ ReturnInv /\ OnlyLateReplies /\ TypeOK
  BY DEF OrderInv, IInv
<1>1. /\ pc[t] = "head" /\ tocli[k] # <<>> /\ tocli' = [tocli EXCEPT ![k] = Tail(@)]
      /\ UNCHANGED <<link, opened, tosrv, queue, ops>>
  BY DEF ReadHead
<1>2. /\ lock = t /\ Reading /\ Reads = k /\ k \in Link /\ k \in 1 .. opened
      /\ Sent = cur[t] /\ Served = cur[t] /\ ops[cur[t]].kind = "rd"
  BY <1>1, ReaderReads
<1>3. Turn(t) /\ Sent \in Nat /\ opened \in Nat /\ Served' = Served
  BY <1>0, <1>1, <1>2, Numbers DEF Turn, Served
<1>4. ASSUME Sent' = cur[t]
      PROVE  /\ WireInv' /\ \A l \in Link : Remains(l)
             /\ \A r : After(r, tosrv[k], tocli[k]) => Later(r, tosrv'[k], tocli'[k])
             /\ \A l \in Link : l # k => tosrv'[l] = tosrv[l] /\ tocli'[l] = tocli[l]
  <2>1. Sent' \in Nat /\ Sent <= Sent' /\ k <= opened
    BY <1>2, <1>3, <1>4
  <2> HIDE DEF k
  <2> QED
    BY <1>0, <1>1, <1>2, <1>3, <2>1, WireRead
<1>5. opened' \in Nat /\ opened <= opened' /\ link' \in {0, opened'}
  BY <1>0, <1>1, <1>3 DEF LockInv
<1>6. CASE EndOp(t, -1)
  BY <1>1, <1>2, <1>3, <1>4, <1>5, <1>6, EndsOrder
<1>7. CASE ~EndOp(t, -1)
  <2>1. /\ pc' = [pc EXCEPT ![t] = "payload"] /\ from' = [from EXCEPT ![t] = link]
        /\ UNCHANGED <<lock, cur, result>> /\ link # 0
    BY <1>7 DEF ReadHead
  <2>2. link = opened /\ opened \in 1 .. opened' /\ opened >= k
    BY <1>0, <1>1, <1>2, <1>3, <2>1 DEF LockInv
  <2>3. LockInv' /\ Sent' = Served' /\ Reading' /\ pc'[lock'] = "payload" /\ Reads' = opened
    BY <1>0, <1>1, <1>2, <1>3, <1>5, <2>1, <2>2, HoldsTurn
  <2>4. /\ WireInv' /\ \A l \in Link : Remains(l)
        /\ \A r : After(r, tosrv[k], tocli[k]) => Later(r, tosrv'[k], tocli'[k])
        /\ \A l \in Link : l # k => tosrv'[l] = tosrv[l] /\ tocli'[l] = tocli[l]
    BY <1>2, <1>3, <1>4, <2>3
  <2>5. OnlyLateReplies'
    BY <1>0, <1>1, <2>1, RepliesStay
  <2>6. ReturnInv'
    <3> SUFFICES ASSUME NEW i \in Op, result[i] > 0, ops[i].kind = "rd", NEW l \in Link, l >= opened
                 PROVE  Later(result[i], tosrv'[l], tocli'[l])
      <4>1. \A i \in Op : result[i] > 0 /\ ops[i].kind = "rd" => result[i] <= i
        BY <1>0 DEF ReturnInv
      <4> QED
        BY <1>1, <2>1, <2>3, <4>1, LaterIsAfter DEF ReturnInv
    <3>1. CASE l = k
      <4>1. After(result[i], tosrv[k], tocli[k])
        BY <1>0, <1>2, <3>1 DEF ReturnInv
      <4> QED
        BY <2>4, <3>1, <4>1
    <3>2. CASE l # k
      <4>1. l > Reads
        BY <1>2, <2>2, <3>2, <1>3 DEF Link
      <4>2. Later(result[i], tosrv[l], tocli[l])
        <5>1. l >= Reads
          BY <1>2, <4>1 DEF Link
        <5> QED
          BY <1>0, <4>1, <5>1 DEF ReturnInv
      <4> QED
        BY <2>4, <3>2, <4>2
    <3> QED
      BY <3>1, <3>2
  <2> QED
    BY <2>3, <2>4, <2>5, <2>6 DEF OrderInv
<1> QED
  BY <1>6, <1>7

\* A payload: a read returns it.
LEMMA PayloadOrder ==
  ASSUME IInv, OrderInv, NEW t \in Task, ReadPayload(t)
  PROVE  OrderInv'
<1> DEFINE k == from[t]
           c == cur[t]
           y == Head(tocli[k]).id
<1>0. LockInv /\ WireInv /\ ReturnInv /\ OnlyLateReplies /\ TypeOK
  BY DEF OrderInv, IInv
<1>1. /\ pc[t] = "payload" /\ tocli[k] # <<>> /\ tocli' = [tocli EXCEPT ![k] = Tail(@)]
      /\ EndOp(t, y) /\ UNCHANGED <<link, opened, tosrv, queue, ops>>
  BY DEF ReadPayload
<1>2. /\ lock = t /\ Reading /\ Reads = k /\ k \in Link /\ k \in 1 .. opened
      /\ Sent = c /\ Served = c /\ ops[c].kind = "rd"
  BY <1>1, ReaderReads
<1>3. Half
  BY <1>1, <1>2 DEF Half
<1>4. /\ Turn(t) /\ Sent \in Nat /\ opened \in Nat /\ Served' = Served
      /\ opened' \in Nat /\ opened <= opened' /\ link' \in {0, opened'}
  BY <1>0, <1>1, <1>2, Numbers DEF Turn, Served, LockInv
<1>5. c = Ended + 1 /\ c \in Op /\ result[c] = 0 /\ Ended \in Nat /\ c \in Nat
  BY <1>0, <1>1, <1>4, TurnIsNext DEF Op
<1>6. /\ y \in OnLink(tosrv[k], tocli[k]) /\ y \in 1 .. Sent /\ ops[y].kind = "rd"
      /\ Sent' = c => /\ WireInv'
                      /\ After(y, tosrv'[k], tocli'[k])
                      /\ \A r : After(r, tosrv[k], tocli[k]) => Later(r, tosrv'[k], tocli'[k])
                      /\ \A l \in Link : l # k => tosrv'[l] = tosrv[l] /\ tocli'[l] = tocli[l]
  <2>1. k <= opened
    BY <1>2
  <2>2. 1 \in 1 .. Len(tocli[k]) /\ Head(tocli[k]) = tocli[k][1]
    BY <1>0, <1>1, <1>2 DEF WireInv
  <2>3. y \in OnLink(tosrv[k], tocli[k]) /\ y \in 1 .. Sent /\ ops[y].kind = "rd"
    BY <1>0, <1>2, <2>2 DEF WireInv, OnLink
  <2>4. ASSUME Sent' = c
        PROVE  /\ WireInv'
               /\ After(y, tosrv'[k], tocli'[k])
               /\ \A r : After(r, tosrv[k], tocli[k]) => Later(r, tosrv'[k], tocli'[k])
               /\ \A l \in Link : l # k => tosrv'[l] = tosrv[l] /\ tocli'[l] = tocli[l]
    <3>1. Sent' \in Nat /\ Sent <= Sent'
      BY <1>2, <1>4, <2>4
    <3> HIDE DEF k
    <3> QED
      BY <1>0, <1>1, <1>2, <1>4, <2>1, <3>1, WireRead
  <2> QED
    BY <2>3, <2>4
<1>7. y \in Nat /\ y > 0 /\ y <= c
  BY <1>2, <1>4, <1>6
<1>8. /\ LockInv' /\ Ended' = Served' /\ Sent' = Served' /\ ~Reading' /\ Reads' = opened'
      /\ result' = [result EXCEPT ![c] = y]
  <2>1. y \in Int /\ y # 0 /\ y >= -1
    BY <1>7
  <2> HIDE DEF y, k
  <2> QED
    BY <1>0, <1>1, <1>4, <2>1, EndsTurn
<1>9. /\ WireInv'
      /\ After(y, tosrv'[k], tocli'[k])
      /\ \A r : After(r, tosrv[k], tocli[k]) => Later(r, tosrv'[k], tocli'[k])
      /\ \A l \in Link : l # k => tosrv'[l] = tosrv[l] /\ tocli'[l] = tocli[l]
  BY <1>2, <1>4, <1>6, <1>8
<1> HIDE DEF y, c, k
<1>10. result \in [Op -> Int] /\ result'[c] = y /\ \A i \in Op : i # c => result'[i] = result[i]
  BY <1>0, <1>5, <1>8 DEF LockInv
<1>11. ASSUME NEW i \in Op, i # c
       PROVE  result[i] > 0 /\ ops[i].kind = "rd" =>
                /\ result[i] < y /\ i < c /\ result[i] <= i
                /\ \A l \in Link : l >= k => Later(result[i], tosrv[l], tocli[l])
  <2> SUFFICES ASSUME result[i] > 0, ops[i].kind = "rd"
               PROVE  /\ result[i] < y /\ i < c /\ result[i] <= i
                      /\ \A l \in Link : l >= k => Later(result[i], tosrv[l], tocli[l])
    OBVIOUS
  <2>1. \A l \in Link : l >= k => Later(result[i], tosrv[l], tocli[l])
    BY <1>0, <1>2, <1>3 DEF ReturnInv
  <2>2. result[i] < y
    <3>1. k >= k
      BY <1>2
    <3> QED
      BY <1>2, <1>6, <2>1, <3>1 DEF Later
  <2>3. i < c
    <3>1. result[i] # 0
      BY <1>10
    <3> QED
      BY <1>0, <1>5, <3>1 DEF LockInv, Op
  <2>4. result[i] <= i
    BY <1>0 DEF ReturnInv
  <2> QED
    BY <2>1, <2>2, <2>3, <2>4
<1>12. ReturnInv'
  <2> SUFFICES ASSUME NEW i \in Op, result'[i] > 0, ops[i].kind = "rd"
               PROVE  /\ result'[i] <= i
                      /\ \A l \in Link : l >= opened =>
                           /\ After(result'[i], tosrv'[l], tocli'[l])
                           /\ l > opened => Later(result'[i], tosrv'[l], tocli'[l])
    BY <1>1, <1>8 DEF ReturnInv, Half
  <2>1. CASE i = c
    <3>1. result'[i] = y /\ y <= i
      BY <1>7, <1>10, <2>1
    <3>2. ASSUME NEW l \in Link, l >= opened
          PROVE  /\ After(y, tosrv'[l], tocli'[l])
                 /\ l > opened => Later(y, tosrv'[l], tocli'[l])
      <4>1. CASE l = k
        <5>1. ~ (l > opened)
          BY <1>2, <1>4, <4>1
        <5> QED
          BY <1>9, <4>1, <5>1
      <4>2. CASE l # k
        <5>1. k < l
          BY <1>2, <1>4, <3>2, <4>2 DEF Link
        <5>2. Later(y, tosrv[l], tocli[l])
          BY <1>0, <1>2, <1>6, <5>1 DEF WireInv, Later
        <5> QED
          BY <1>9, <4>2, <5>2, LaterIsAfter
      <4> QED
        BY <4>1, <4>2
    <3> QED
      BY <3>1, <3>2
  <2>2. CASE i # c
    <3>1. result'[i] = result[i] /\ result[i] <= i
          /\ \A l \in Link : l >= k => Later(result[i], tosrv[l], tocli[l])
      BY <1>10, <1>11, <2>2
    <3>2. ASSUME NEW l \in Link, l >= opened PROVE Later(result[i], tosrv'[l], tocli'[l])
      <4>1. l >= k
        BY <1>2, <1>4, <3>2 DEF Link
      <4>2. Later(result[i], tosrv[l], tocli[l])
        BY <3>1, <4>1
      <4> QED
        BY <1>9, <4>2, LaterIsAfter
    <3> QED
      BY <3>1, <3>2, LaterIsAfter
  <2> QED
    BY <2>1, <2>2
<1>13. ASSUME NEW i \in Op, NEW j \in Op, i < j, result'[i] > 0, ops[i].kind = "rd",
              result'[j] > 0, ops[j].kind = "rd"
       PROVE  result'[i] < result'[j]
  <2>1. CASE j = c
    <3>1. i # c
      BY <1>5, <1>13, <2>1 DEF Op
    <3>2. result[i] < y
      BY <1>10, <1>11, <1>13, <3>1
    <3> QED
      BY <1>10, <2>1, <3>1, <3>2
  <2>2. CASE j # c
    <3>1. j < c /\ result'[j] = result[j]
      BY <1>10, <1>11, <1>13, <2>2
    <3>2. i # c
      BY <1>5, <1>13, <3>1 DEF Op
    <3> QED
      BY <1>0, <1>10, <1>13, <3>1, <3>2 DEF OnlyLateReplies
  <2> QED
    BY <2>1, <2>2
<1>14. ASSUME NEW i \in Op, result'[i] > 0, result'[i] # i
       PROVE  result'[i] < i /\ \E j \in 1 .. (i - 1) : result'[j] = -1 /\ ops[j].kind = "rd"
  <2>1. CASE i = c
    <3>1. result'[i] = y /\ y < c /\ y \in Op
      BY <1>5, <1>7, <1>10, <1>14, <2>1, BoundAssumption DEF Op
    <3>2. result[y] # 0 /\ result[y] >= -1
      BY <1>0, <1>5, <3>1 DEF LockInv
    <3>3. CASE result[y] = -1
      <4>1. y \in 1 .. (i - 1) /\ result'[y] = -1
        BY <1>5, <1>7, <1>10, <2>1, <3>1, <3>3
      <4> QED
        BY <1>6, <2>1, <3>1, <4>1
    <3>4. CASE result[y] # -1
      <4>1. result[y] > 0
        BY <1>10, <3>1, <3>2, <3>4
      <4>2. result[y] # y
        BY <1>6, <1>7, <1>11, <3>1, <4>1
      <4>3. PICK j \in 1 .. (y - 1) : result[j] = -1 /\ ops[j].kind = "rd"
        BY <1>0, <3>1, <4>1, <4>2 DEF OnlyLateReplies
      <4>4. j \in 1 .. (i - 1) /\ j \in Op /\ j # c
        BY <1>5, <1>7, <2>1, <3>1, <4>3, BoundAssumption DEF Op
      <4> QED
        BY <1>10, <2>1, <3>1, <4>3, <4>4
    <3> QED
      BY <3>3, <3>4
  <2>2. CASE i # c
    <3>1. result'[i] = result[i]
      BY <1>10, <2>2
    <3>2. result[i] < i
      BY <1>0, <1>14, <3>1 DEF OnlyLateReplies
    <3>3. PICK j \in 1 .. (i - 1) : result[j] = -1 /\ ops[j].kind = "rd"
      BY <1>0, <1>14, <3>1 DEF OnlyLateReplies
    <3>4. j # c /\ j \in Op
      BY <1>5, <3>3, BoundAssumption DEF Op
    <3>5. result'[j] = -1
      BY <1>10, <3>3, <3>4
    <3> QED
      BY <3>1, <3>2, <3>3, <3>5
  <2> QED
    BY <2>1, <2>2
<1>15. OnlyLateReplies'
  BY <1>1, <1>13, <1>14 DEF OnlyLateReplies
<1> QED
  BY <1>8, <1>9, <1>12, <1>15 DEF OrderInv

\* The steps of a task preserve the order.
LEMMA TaskOrder ==
  ASSUME IInv, OrderInv, NEW t \in Task, TaskStep(t)
  PROVE  OrderInv'
<1>0. LockInv /\ WireInv /\ ReturnInv /\ OnlyLateReplies /\ TypeOK /\ t # Watcher /\ t # Nobody
      /\ opened \in Nat /\ link \in {0, opened}
  BY NamesAssumption, Numbers DEF OrderInv, IInv, LockInv
<1>1. CASE Acquire(t)
  <2>1. Turn(t) /\ pc[t] = "lock" /\ lock = Nobody /\ UNCHANGED <<link, opened, tocli, ops>>
    BY <1>1 DEF Acquire, Turn
  <2>2. CASE Usable
    <3>1. link = opened /\ link \in Link
      BY <1>0, <2>2, BoundAssumption DEF Usable, Link, TypeOK
    <3>2. opened' = link /\ opened <= link /\ link' = link /\ Transmit(t, link)
      BY <1>0, <1>1, <2>1, <2>2, <3>1 DEF Acquire
    <3> QED
      BY <2>1, <3>1, <3>2, SendsOrder
  <2>3. CASE ~Usable
    <3>1. lock' = t /\ pc' = [pc EXCEPT ![t] = "connect"] /\ UNCHANGED <<tosrv, cur, from, result>>
      BY <1>1, <2>3 DEF Acquire
    <3>2. from' = [from EXCEPT ![t] = from[t]] /\ from[t] \in Nat
      BY <1>0, <3>1 DEF LockInv
    <3>3. /\ Served' = cur[t] /\ cur[t] = Ended + 1
          /\ Ended \in Nat /\ Sent \in Nat /\ Reads \in Nat /\ Reads <= opened
      BY <1>0, <2>1, TurnIsNext, Numbers
    <3>4. /\ LockInv' /\ Ended' = Ended /\ Sent' = Ended /\ ~Reading' /\ Reads' = opened'
      <4>1. opened' \in Nat /\ opened <= opened' /\ link' \in {0, opened'}
        BY <1>0, <2>1
      <4>2. ASSUME NEW p \in {"connect", "head", "payload"}, p = "connect", NEW k \in Nat, k = from[t]
            PROVE  LockInv' /\ Ended' = Ended /\ Sent' = Ended /\ ~Reading' /\ Reads' = opened'
        <5>1. pc' = [pc EXCEPT ![t] = p] /\ from' = [from EXCEPT ![t] = k]
          BY <3>1, <3>2, <4>2
        <5> QED
          BY <1>0, <2>1, <3>1, <4>1, <4>2, <5>1, HoldsTurn
      <4> QED
        BY <3>2, <4>2
    <3>5. Sent = Ended
      BY <2>1 DEF Sent, Reading
    <3>6. WireInv' /\ \A k \in Link : Remains(k)
      BY <1>0, <2>1, <3>1, <3>3, <3>4, <3>5, WireStays
    <3>7. /\ OnlyLateReplies'
          /\ \A i \in Op : result'[i] > 0 /\ ops'[i].kind = "rd" => result'[i] = result[i] /\ ops[i].kind = "rd"
      BY <1>0, <2>1, <3>1, RepliesStay
    <3>8. ReturnInv'
      <4>1. Reads' \in Nat /\ Reads <= Reads' /\ ~Half'
        BY <1>0, <2>1, <3>3, <3>4 DEF Half
      <4> QED
        BY <1>0, <3>6, <3>7, <4>1, ReturnStays
    <3> QED
      BY <3>4, <3>6, <3>7, <3>8 DEF OrderInv
  <2> QED
    BY <2>2, <2>3
<1>2. CASE Connected(t)
  <2>1. /\ pc[t] = "connect" /\ opened < MaxConn /\ opened' = opened + 1 /\ link' = opened + 1
        /\ Transmit(t, opened + 1) /\ UNCHANGED <<tocli, queue, ops>>
    BY <1>0, <1>2 DEF Connected
  <2>2. Turn(t)
    BY <1>0, <2>1 DEF Turn, LockInv
  <2>3. opened + 1 \in Link /\ opened <= opened + 1
    BY <1>0, <2>1, BoundAssumption DEF Link
  <2> QED
    BY <2>1, <2>2, <2>3, SendsOrder
<1>3. CASE ConnectFails(t) \/ ReadFails(t) \/ Timeout(t)
  <2>1. /\ pc[t] \in {"connect", "head", "payload"} /\ EndOp(t, -1)
        /\ UNCHANGED <<link, opened, tosrv, tocli, queue, ops>>
    BY <1>0, <1>3 DEF ConnectFails, ReadFails, Timeout, wire
  <2>2. lock = t
    BY <1>0, <2>1 DEF LockInv
  <2> QED
    BY <2>1, <2>2, FailsOrder
<1> QED
  BY <1>1, <1>2, <1>3, HeadOrder, PayloadOrder DEF TaskStep

\* A call, and the steps of those who hold no lock.
LEMMA OthersOrder ==
  ASSUME IInv, OrderInv,
         \/ \E t \in Task : \E rq \in Request[t] : Call(t, rq)
         \/ WatcherStep \/ CloseWriter \/ ForgetLink
         \/ \E k \in Link : Serve(k) \/ HangUp(k) \/ LinkLost(k)
         \/ UNCHANGED vars
  PROVE  OrderInv'
<1>0. /\ LockInv /\ WireInv /\ ReturnInv /\ OnlyLateReplies /\ TypeOK
      /\ Watcher \notin Task /\ Closer \notin Task /\ link \in {0, opened}
      /\ opened \in Nat /\ Reads \in Nat /\ Reads <= opened
      /\ Ended \in Nat /\ Sent \in Nat /\ Sent <= Len(ops)
  BY NamesAssumption, Numbers DEF OrderInv, IInv, LockInv
<1>1. CASE \E t \in Task : \E rq \in Request[t] : Call(t, rq)
  <2>1. PICK t \in Task : \E rq \in Request[t] : Call(t, rq)
    BY <1>1
  <2>2. PICK rq \in Request[t] : Call(t, rq)
    BY <2>1
  <2>3. /\ LockInv' /\ Sent' = Sent /\ Reading' = Reading /\ Reads' = Reads
        /\ lock # Nobody => pc'[lock] = pc[lock]
        /\ \A i \in 1 .. Len(ops) : ops'[i] = ops[i]
    BY <1>0, <2>2, CallOrder
  <2>4. UNCHANGED <<tosrv, tocli, opened, result, lock>>
    BY <2>2 DEF Call, wire
  <2>5. WireInv' /\ \A k \in Link : Remains(k)
    <3>1. \A i \in 1 .. Sent : i \in 1 .. Len(ops)
      BY <1>0
    <3>2. \A i \in 1 .. Sent : ops'[i] = ops[i]
      BY <2>3, <3>1
    <3> QED
      BY <1>0, <2>3, <2>4, <3>2, WireStays
  <2>6. \A i \in Op : result[i] # 0 => ops'[i] = ops[i]
    <3> SUFFICES ASSUME NEW i \in Op, result[i] # 0 PROVE ops'[i] = ops[i]
      OBVIOUS
    <3>1. i <= Ended /\ Ended <= Sent
      BY <1>0, Numbers DEF LockInv
    <3>2. i \in 1 .. Len(ops)
      BY <1>0, <3>1, Numbers DEF Op
    <3> QED
      BY <2>3, <3>2
  <2>7. /\ OnlyLateReplies'
        /\ \A i \in Op : result'[i] > 0 /\ ops'[i].kind = "rd" => result'[i] = result[i] /\ ops[i].kind = "rd"
    BY <1>0, <2>4, <2>6, RepliesStay
  <2>8. ReturnInv'
    <3>1. Half' => Half
      BY <2>3, <2>4 DEF Half, Reading
    <3> QED
      BY <1>0, <2>3, <2>5, <2>7, <3>1, ReturnStays
  <2> QED
    BY <2>3, <2>5, <2>7, <2>8 DEF OrderInv
<1>2. CASE ~ \E t \in Task : \E rq \in Request[t] : Call(t, rq)
  <2>1. UNCHANGED <<ops, queue, lock, cur, from, result>>
    BY <1>0, <1>2 DEF WatcherStep, Watch, Connected, ConnectFails, CloseWriter, ForgetLink, Serve, HangUp,
                      LinkLost, vars
  <2>2. \E p \in {"idle", "connect", "closing"} :
          pc' = pc \/ pc' = [pc EXCEPT ![Watcher] = p] \/ pc' = [pc EXCEPT ![Closer] = p]
    BY <1>0, <1>2 DEF WatcherStep, Watch, Connected, ConnectFails, CloseWriter, ForgetLink, Serve, HangUp,
                      LinkLost, vars
  <2>3. \A t \in Task : pc'[t] = pc[t]
    BY <1>0, <2>2 DEF TypeOK
  <2>4. opened' \in Nat /\ opened <= opened' /\ link' \in {0, opened'}
    <3>1. \/ opened' = opened /\ (link' = link \/ link' = 0)
          \/ opened' = opened + 1 /\ link' = opened + 1
      BY <1>2 DEF WatcherStep, Watch, Connected, ConnectFails, CloseWriter, ForgetLink, Serve, HangUp,
                  LinkLost, vars
    <3> QED
      BY <1>0, <3>1
  <2>5. /\ LockInv' /\ Sent' = Sent /\ Reading' = Reading /\ (lock # Nobody => pc'[lock] = pc[lock])
        /\ Reads' = (IF Reading THEN Reads ELSE opened')
    BY <1>0, <2>1, <2>3, <2>4, LockIdle
  <2>6. WireInv' /\ \A k \in Link : Remains(k)
    <3>1. CASE \E k \in Link : Serve(k) \/ HangUp(k)
      BY <1>0, <2>5, <3>1, WireServed
    <3>2. CASE ~ \E k \in Link : Serve(k) \/ HangUp(k)
      <4>1. UNCHANGED <<tosrv, tocli>>
        BY <1>0, <1>2, <3>2 DEF WatcherStep, Watch, Connected, ConnectFails, CloseWriter, ForgetLink, LinkLost,
                                vars, wire
      <4> QED
        BY <1>0, <2>1, <2>4, <2>5, <4>1, WireStays
    <3> QED
      BY <3>1, <3>2
  <2>7. /\ OnlyLateReplies'
        /\ \A i \in Op : result'[i] > 0 /\ ops'[i].kind = "rd" => result'[i] = result[i] /\ ops[i].kind = "rd"
    BY <1>0, <2>1, RepliesStay
  <2>8. ReturnInv'
    <3>1. (Half' => Half) /\ Reads' \in Nat /\ Reads <= Reads'
      BY <1>0, <2>1, <2>4, <2>5 DEF Half, Reading
    <3> QED
      BY <1>0, <2>6, <2>7, <3>1, ReturnStays
  <2> QED
    BY <2>5, <2>6, <2>7, <2>8 DEF OrderInv
<1> QED
  BY <1>1, <1>2

\* The reads return replies in the order of their requests and none twice, and a
\* read that returns another's reply returns that of an earlier read, after an
\* earlier read has failed: whatever times out, is closed, reset or reconnected,
\* dev_read never returns an answer that was asked for later.
THEOREM LateRepliesOnly == Spec => []OnlyLateReplies
<1>1. IInv /\ OrderInv /\ [Next]_vars => OrderInv'
  BY TaskOrder, OthersOrder DEF Next
<1>2. OrderInv => OnlyLateReplies
  BY DEF OrderInv
<1> QED
  BY <1>1, <1>2, InitOrderInv, SpecIInv, PTL DEF Spec
=============================================================================
