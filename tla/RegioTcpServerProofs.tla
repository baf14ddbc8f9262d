------------------------ MODULE RegioTcpServerProofs ------------------------
(***************************************************************************)
(* For every set of connections, every number of requests and every window:*)
(* the bookkeeping of the multi-client server is consistent, no request is *)
(* left behind, clients are dropped for a cause, the server implements     *)
(* RegioService, and its answers are in order.                             *)
(***************************************************************************)
EXTENDS RegioTcpServer, FiniteSetTheorems, TLAPS

\* The parts on the wire are whole requests but for a cut one at the end.
LEMMA PartsRange ==
  ASSUME TypeOK, NEW c \in Conn
  PROVE  Parts(c) \in Int /\ Parts(c) <= 2 * Len(sent[c]) /\ Len(sent[c]) \in Nat
  BY DEF TypeOK, Parts

\* A complete request at the head of the buffer has been sent.
LEMMA CompleteSent ==
  ASSUME IInv, NEW c \in Conn, Complete(c)
  PROVE  used[c] + 1 <= Len(sent[c]) /\ sent[c][used[c] + 1] \in {"rd", "wr"}
<1>1. rcvd[c] >= 2 * (used[c] + 1) /\ rcvd[c] <= Parts(c)
  BY DEF IInv, Counters, Counts, Complete
<1>2. Parts(c) \in Int /\ Parts(c) <= 2 * Len(sent[c]) /\ Len(sent[c]) \in Nat
  BY PartsRange DEF IInv
<1>3. rcvd[c] \in Nat /\ used[c] \in Nat
  BY DEF IInv, TypeOK
<1> QED
  BY <1>1, <1>2, <1>3 DEF Complete

\* A connection whose numbers do not change keeps its bookkeeping: it stays
\* open with the device still on the same side of its request, or it is dropped,
\* or it is just accepted.
LEMMA CountsFrame ==
  ASSUME NEW d \in Conn, Counts(d),
         sent'[d] = sent[d], rcvd'[d] = rcvd[d], used'[d] = used[d], did'[d] = did[d],
         conn'[d] \in {"idle", "backlog"} => conn[d] \in {"idle", "backlog"},
         conn'[d] = "open" =>
           \/ conn[d] = "open" /\ ((pc' = "device" /\ cur' = d) <=> (pc = "device" /\ cur = d))
           \/ conn[d] = "backlog" /\ pc' # "device"
  PROVE  Counts(d)'
<1>1. UNCHANGED Parts(d)
  BY DEF Parts
<1>2. (rcvd[d] <= Parts(d) /\ 2 * used[d] <= rcvd[d])'
  BY <1>1 DEF Counts
<1>3. (\A i \in 1 .. used[d] : sent[d][i] \in {"rd", "wr"})'
  BY DEF Counts
<1>4. (conn[d] \in {"idle", "backlog"} => used[d] = 0 /\ did[d] = 0)'
  BY DEF Counts
<1>5. (conn[d] = "open" => did[d] = IF pc = "device" /\ cur = d THEN used[d] - 1 ELSE used[d])'
  BY DEF Counts
<1> QED
  BY <1>2, <1>3, <1>4, <1>5 DEF Counts

\* The initial state satisfies the inductive invariant.
LEMMA InitIInv == Init => IInv
<1> SUFFICES ASSUME Init PROVE IInv
  OBVIOUS
<1>1. TypeOK
  <2>1. stopped \in BOOLEAN /\ failed \subseteq Conn /\ ready \subseteq Conn \cup {Listen}
    BY DEF Init
  <2>2. sent \in [Conn -> Seq({"rd", "wr", "bad", "cut"})] /\ replied \in [Conn -> Seq(Nat)]
    BY DEF Init
  <2> QED
    BY <2>1, <2>2 DEF Init, TypeOK
<1>2. Registered
  BY DEF Init, Registered
<1>3. Counters
  BY DEF Init, Counters, Counts, Parts
<1> QED
  BY <1>1, <1>2, <1>3 DEF IInv

\* What a client does preserves the inductive invariant.
LEMMA ClientIInv ==
  ASSUME IInv, NEW c \in Conn, ClientStep(c)
  PROVE  IInv'
<1> USE DEF IInv
<1>1. CASE Connect(c)
  <2>1. TypeOK'
    BY <1>1 DEF Connect, TypeOK, net, dev
  <2>2. Registered'
    BY <1>1 DEF Connect, Registered, TypeOK, net, dev
  <2>3. Counters'
    BY <1>1 DEF Connect, Counters, Counts, TypeOK, net, dev, Parts
  <2> QED
    BY <2>1, <2>2, <2>3
<1>2. ASSUME NEW k \in {"rd", "wr", "bad", "cut"}, Send(c, k) PROVE IInv'
  <2>1. TypeOK'
    <3>1. sent' \in [Conn -> Seq({"rd", "wr", "bad", "cut"})]
      BY <1>2 DEF Send, TypeOK
    <3> QED
      BY <1>2, <3>1 DEF Send, TypeOK, dev
  <2>2. Registered'
    BY <1>2 DEF Send, Registered, dev
  <2>3. Counters'
    <3> SUFFICES ASSUME NEW d \in Conn PROVE Counts(d)'
      BY DEF Counters
    <3>0. UNCHANGED <<rcvd, used, conn, did, pc, cur>>
      BY <1>2 DEF Send, dev
    <3>1. CASE d # c
      <4>1. sent'[d] = sent[d]
        BY <1>2, <3>1 DEF Send, TypeOK
      <4> QED
        BY <4>1, <3>0 DEF Counters, Counts, Parts
    <3>2. CASE d = c
      <4>1. sent[c] \in Seq({"rd", "wr", "bad", "cut"}) /\ sent'[c] = Append(sent[c], k)
        BY <1>2 DEF Send, TypeOK
      <4>2. Len(sent'[c]) = Len(sent[c]) + 1 /\ Len(sent[c]) \in Nat
            /\ \A i \in 1 .. Len(sent[c]) : sent'[c][i] = sent[c][i]
        BY <4>1
      <4>3. Parts(c)' >= 2 * Len(sent[c]) + 1 /\ Parts(c)' \in Int
        <5>1. PICK e \in {0, 1} : Parts(c)' = 2 * Len(sent'[c]) - e
          BY DEF Parts
        <5> QED
          BY <5>1, <4>2
      <4>4. Parts(c) \in Int /\ Parts(c) <= 2 * Len(sent[c])
        BY PartsRange
      <4>5. rcvd[c] \in Nat /\ used[c] \in Nat /\ rcvd[c] <= Parts(c) /\ 2 * used[c] <= rcvd[c]
            /\ \A i \in 1 .. used[c] : sent[c][i] \in {"rd", "wr"}
        BY DEF TypeOK, Counters, Counts
      <4>6. \A i \in 1 .. used[c] : i \in 1 .. Len(sent[c])
        BY <4>2, <4>4, <4>5
      <4>7. \A i \in 1 .. used[c] : sent'[c][i] \in {"rd", "wr"}
        BY <4>2, <4>5, <4>6
      <4>8. rcvd[c] <= Parts(c)'
        BY <4>2, <4>3, <4>4, <4>5
      <4> QED
        BY <4>5, <4>7, <4>8, <3>0, <3>2 DEF Counters, Counts
    <3> QED
      BY <3>1, <3>2
  <2> QED
    BY <2>1, <2>2, <2>3
<1>3. CASE ReadReply(c)
  <2>1. TypeOK'
    <3>1. got \in [Conn -> Nat] /\ got' = [got EXCEPT ![c] = got[c] + 1]
      BY <1>3 DEF ReadReply, TypeOK
    <3>2. got' \in [Conn -> Nat]
      BY <3>1
    <3> QED
      BY <1>3, <3>2 DEF ReadReply, TypeOK, dev
  <2>2. Registered' /\ Counters'
    BY <1>3 DEF ReadReply, Registered, Counters, Counts, Parts, dev
  <2> QED
    BY <2>1, <2>2
<1>4. ASSUME NEW how \in {"fin", "rst"}, Shut(c, how) PROVE IInv'
  <2>1. TypeOK'
    BY <1>4 DEF Shut, TypeOK, dev
  <2>2. Registered' /\ Counters'
    BY <1>4 DEF Shut, Registered, Counters, Counts, Parts, dev
  <2> QED
    BY <2>1, <2>2
<1>5. Sends[c] \subseteq {"rd", "wr", "bad", "cut"}
  BY BoundAssumption
<1> QED
  BY <1>1, <1>2, <1>3, <1>4, <1>5 DEF ClientStep

\* Moving on to the next phase of a pass preserves the inductive invariant.
LEMMA PassIInv ==
  ASSUME IInv, Select \/ BeginProcess \/ NextClient \/ WaitForRest \/ EndPass \/ Stop
  PROVE  IInv'
<1> USE DEF IInv
<1>0. UNCHANGED <<conn, sent, shut, rcvd, got, clients, order, used, did, replied, failed>>
      /\ (UNCHANGED stopped \/ stopped' = TRUE)
  BY DEF Select, BeginProcess, NextClient, WaitForRest, EndPass, Stop, net, dev
<1>1. pc' \in {"events", "process", "device", "yield"} /\ (pc' = "device" <=> pc = "device")
      /\ (pc = "device" => cur' = cur)
  BY DEF Select, BeginProcess, NextClient, WaitForRest, EndPass, Stop
<1>2. TypeOK'
  <2>1. ready' \subseteq Conn \cup {Listen}
    BY DEF Select, BeginProcess, NextClient, WaitForRest, EndPass, Stop, TypeOK, Events
  <2>2. todo' \subseteq Conn
    BY DEF Select, BeginProcess, NextClient, WaitForRest, EndPass, Stop, TypeOK
  <2>3. cur' \in Conn \cup {Nobody}
    BY DEF Select, BeginProcess, NextClient, WaitForRest, EndPass, Stop, TypeOK
  <2>4. stopped' \in BOOLEAN
    BY <1>0 DEF TypeOK
  <2> QED
    BY <2>1, <2>2, <2>3, <2>4, <1>0, <1>1 DEF TypeOK
<1>3. Registered'
  <2>1. CASE Select
    BY <2>1, <1>0 DEF Select, Registered
  <2>2. CASE BeginProcess
    BY <2>2, <1>0 DEF BeginProcess, Registered
  <2>3. CASE NextClient
    BY <2>3, <1>0 DEF NextClient, Registered
  <2>4. CASE WaitForRest
    BY <2>4, <1>0 DEF WaitForRest, Registered
  <2>5. CASE EndPass
    BY <2>5, <1>0 DEF EndPass, Registered
  <2>6. CASE Stop
    BY <2>6, <1>0 DEF Stop, Registered
  <2> QED
    BY <2>1, <2>2, <2>3, <2>4, <2>5, <2>6
<1>4. Counters'
  BY <1>0, <1>1 DEF Counters, Counts, Parts
<1> QED
  BY <1>2, <1>3, <1>4

\* Accepting and receiving preserve the inductive invariant.
LEMMA EventIInv ==
  ASSUME IInv, NEW c \in Conn, Accept(c) \/ OnData(c)
  PROVE  IInv'
<1> USE DEF IInv
<1>0. pc = "events" /\ UNCHANGED <<sent, shut, got, used, pc, todo, cur, stopped, did, replied, failed>>
  BY DEF Accept, OnData, net, dev
<1>1. cur = Nobody /\ todo = {}
  BY <1>0 DEF Registered
<1>2. ready' \subseteq Conn \cup {Listen}
  BY DEF Accept, OnData, TypeOK
<1>3. CASE Accept(c)
  <2>0. conn[c] = "backlog" /\ UNCHANGED rcvd
        /\ \/ conn' = [conn EXCEPT ![c] = "open"] /\ clients' = clients \cup {c}
           \/ conn' = [conn EXCEPT ![c] = "gone"] /\ clients' = clients
    BY <1>3 DEF Accept
  <2>1. order' \in [Conn -> Nat]
    <3>1. CASE UNCHANGED order
      BY <3>1 DEF TypeOK
    <3>2. CASE ~UNCHANGED order
      <4> DEFINE S == {d \in Conn : order[d] > 0}
      <4>0. order \in [Conn -> Nat]
        BY DEF TypeOK
      <4>1. order' = [order EXCEPT ![c] = 1 + Cardinality(S)]
        BY <1>3, <3>2 DEF Accept
      <4>2. IsFiniteSet(S)
        BY ConnAssumption, FS_Subset
      <4>3. Cardinality(S) \in Nat
        BY <4>2, FS_CardinalityType
      <4> HIDE DEF S, IInv
      <4> QED
        BY <4>0, <4>1, <4>3
    <3> QED
      BY <3>1, <3>2
  <2>2. TypeOK'
    BY <2>0, <2>1, <1>0, <1>2 DEF TypeOK
  <2>3. Registered'
    BY <2>0, <1>0, <1>1 DEF Registered, TypeOK
  <2>4. Counters'
    <3> SUFFICES ASSUME NEW d \in Conn PROVE Counts(d)'
      BY DEF Counters
    <3>1. conn'[d] = conn[d] \/ (d = c /\ conn'[d] \in {"open", "gone"})
      BY <2>0 DEF TypeOK
    <3> QED
      BY <3>1, <2>0, <1>0, CountsFrame DEF Counters
  <2> QED
    BY <2>2, <2>3, <2>4
<1>4. CASE OnData(c) /\ ~UNCHANGED rcvd
  <2>0. UNCHANGED <<conn, clients, order>>
    BY <1>4 DEF OnData
  <2>1. PICK n \in (rcvd[c] + 1) .. Parts(c) : rcvd' = [rcvd EXCEPT ![c] = n]
    BY <1>4 DEF OnData
  <2>2. Parts(c) \in Int /\ rcvd \in [Conn -> Nat] /\ UNCHANGED Parts(c)
    BY PartsRange, <1>0 DEF TypeOK, Parts
  <2>3. n \in Nat /\ rcvd[c] <= n /\ n <= Parts(c)
    BY <2>1, <2>2
  <2>4. TypeOK'
    BY <2>0, <2>1, <2>3, <1>0, <1>2 DEF TypeOK
  <2>5. Registered'
    BY <2>0, <1>0 DEF Registered
  <2>6. Counters'
    <3>1. \A d \in Conn : d # c => rcvd'[d] = rcvd[d]
      BY <2>1, <2>2
    <3>2. rcvd'[c] = n /\ used[c] \in Nat /\ rcvd[c] \in Nat
      BY <2>1, <2>2 DEF TypeOK
    <3>3. \A d \in Conn : rcvd'[d] <= Parts(d)' /\ 2 * used[d] <= rcvd'[d]
      <4> SUFFICES ASSUME NEW d \in Conn
                   PROVE rcvd'[d] <= Parts(d)' /\ 2 * used[d] <= rcvd'[d]
        OBVIOUS
      <4>1. rcvd[d] <= Parts(d) /\ 2 * used[d] <= rcvd[d] /\ UNCHANGED Parts(d)
        BY <1>0 DEF Counters, Counts, Parts
      <4>2. used[d] \in Nat /\ rcvd[d] \in Nat
        BY DEF TypeOK
      <4>3. CASE d = c
        BY <4>1, <4>2, <4>3, <3>2, <2>2, <2>3
      <4>4. CASE d # c
        BY <4>1, <4>4, <3>1
      <4> QED
        BY <4>3, <4>4
    <3> QED
      BY <3>3, <2>0, <1>0 DEF Counters, Counts
  <2> QED
    BY <2>4, <2>5, <2>6
<1>5. CASE OnData(c) /\ UNCHANGED rcvd
  <2>0. UNCHANGED order
    BY <1>5 DEF OnData
  <2>1. CASE Drop(c)
    <3>1. conn' = [conn EXCEPT ![c] = "gone"] /\ clients' = clients \ {c}
      BY <2>1 DEF Drop
    <3>2. TypeOK'
      BY <3>1, <2>0, <1>0, <1>2, <1>5 DEF TypeOK
    <3>3. Registered'
      BY <3>1, <1>0, <1>1 DEF Registered, TypeOK
    <3>4. Counters'
      <4> SUFFICES ASSUME NEW d \in Conn PROVE Counts(d)'
        BY DEF Counters
      <4>1. conn'[d] = conn[d] \/ conn'[d] = "gone"
        BY <3>1 DEF TypeOK
      <4> QED
        BY <4>1, <1>0, <1>5, CountsFrame DEF Counters
    <3> QED
      BY <3>2, <3>3, <3>4
  <2>2. CASE UNCHANGED <<conn, clients>>
    <3>1. TypeOK'
      BY <2>2, <2>0, <1>0, <1>2, <1>5 DEF TypeOK
    <3>2. Registered' /\ Counters'
      BY <2>2, <1>0, <1>5 DEF Registered, Counters, Counts, Parts
    <3> QED
      BY <3>1, <3>2
  <2> QED
    BY <2>1, <2>2, <1>5 DEF OnData
<1> QED
  BY <1>3, <1>4, <1>5

\* Handing a request to the device, and its completion, preserve the invariant.
LEMMA DeviceIInv ==
  ASSUME IInv, Dispatch \/ DeviceDone
  PROVE  IInv'
<1> USE DEF IInv
<1>0. cur \in clients /\ cur \in Conn /\ conn[cur] = "open"
  BY DEF Dispatch, DeviceDone, Registered, TypeOK
<1>1. UNCHANGED <<conn, sent, shut, rcvd, got, clients, order, ready, todo, cur, stopped, replied, failed>>
  BY DEF Dispatch, DeviceDone, net, dev
<1>2. used[cur] \in Nat /\ did[cur] \in Nat
  BY <1>0 DEF TypeOK
<1>3. CASE Dispatch
  <2>1. used' = [used EXCEPT ![cur] = used[cur] + 1] /\ pc = "process" /\ pc' = "device" /\ UNCHANGED did
        /\ Complete(cur)
    BY <1>3 DEF Dispatch, dev
  <2>2. sent[cur][used[cur] + 1] \in {"rd", "wr"} /\ 2 * (used[cur] + 1) <= rcvd[cur]
    BY <2>1, <1>0, <1>2, CompleteSent DEF Complete, TypeOK
  <2>3. TypeOK'
    BY <2>1, <1>0, <1>1, <1>2 DEF TypeOK
  <2>4. Registered'
    <3>1. pc' = "device" /\ UNCHANGED <<clients, conn, todo, cur>> /\ cur # Nobody
      BY <2>1, <1>0, <1>1, NamesAssumption
    <3> QED
      BY <3>1, <2>1 DEF Registered
  <2>5. Counters'
    <3> SUFFICES ASSUME NEW d \in Conn PROVE Counts(d)'
      BY DEF Counters
    <3>1. CASE d # cur
      <4>1. used'[d] = used[d]
        BY <3>1, <2>1 DEF TypeOK
      <4> QED
        BY <4>1, <3>1, <2>1, <1>1, CountsFrame DEF Counters
    <3>2. CASE d = cur
      <4>1. used'[d] = used[d] + 1 /\ used[d] \in Nat /\ did[d] = used[d]
        BY <3>2, <2>1, <1>0, <1>2 DEF TypeOK, Counters, Counts
      <4>2. \A i \in 1 .. used'[d] : i \in 1 .. used[d] \/ i = used[d] + 1
        BY <4>1
      <4>3. \A i \in 1 .. used'[d] : sent'[d][i] \in {"rd", "wr"}
        BY <4>2, <3>2, <2>2, <1>1 DEF Counters, Counts
      <4> QED
        <5>1. rcvd[d] <= Parts(d) /\ UNCHANGED Parts(d)
          BY <1>1 DEF Counters, Counts, Parts
        <5>2. 2 * used'[d] <= rcvd[d] /\ did[d] = used'[d] - 1 /\ conn[d] = "open"
          BY <4>1, <3>2, <2>2, <1>0
        <5> QED
          BY <5>1, <5>2, <4>3, <3>2, <2>1, <1>1 DEF Counts
    <3> QED
      BY <3>1, <3>2
  <2> QED
    BY <2>3, <2>4, <2>5
<1>4. CASE DeviceDone
  <2>1. did' = [did EXCEPT ![cur] = did[cur] + 1] /\ pc = "device" /\ pc' \in {"reply", "process"}
        /\ UNCHANGED used
    BY <1>4 DEF DeviceDone
  <2>2. TypeOK'
    BY <2>1, <1>0, <1>1, <1>2 DEF TypeOK
  <2>3. Registered'
    BY <2>1, <1>1, <1>0 DEF Registered
  <2>4. did[cur] = used[cur] - 1
    BY <2>1, <1>0 DEF Counters, Counts
  <2>5. Counters'
    <3> SUFFICES ASSUME NEW d \in Conn PROVE Counts(d)'
      BY DEF Counters
    <3>1. CASE d # cur
      <4>1. did'[d] = did[d]
        BY <3>1, <2>1 DEF TypeOK
      <4> QED
        BY <4>1, <3>1, <2>1, <1>1, CountsFrame DEF Counters
    <3>2. CASE d = cur
      <4>1. did'[d] = used[d]
        BY <3>2, <2>1, <2>4, <1>0, <1>2 DEF TypeOK
      <4>2. UNCHANGED Parts(d) /\ Counts(d) /\ conn[d] = "open" /\ pc' # "device"
        BY <3>2, <2>1, <1>0, <1>1 DEF Counters, Counts, Parts
      <4> QED
        BY <4>1, <4>2, <2>1, <1>1 DEF Counts
    <3> QED
      BY <3>1, <3>2
  <2> QED
    BY <2>2, <2>3, <2>5
<1> QED
  BY <1>3, <1>4

\* Answering, and dropping the client being processed, preserve the invariant.
LEMMA ClientDoneIInv ==
  ASSUME IInv, Reply \/ DropMalformed \/ DeviceFail \/ ReplyFail
  PROVE  IInv'
<1> USE DEF IInv
<1>0. cur \in clients /\ cur \notin todo /\ cur \in Conn /\ conn[cur] = "open"
  BY DEF Reply, DropMalformed, DeviceFail, ReplyFail, Registered, TypeOK
<1>1. UNCHANGED <<sent, shut, rcvd, got, order, used, ready, todo, stopped, did>>
      /\ pc \in {"process", "device", "reply"} /\ pc' = "process"
  BY DEF Reply, DropMalformed, DeviceFail, ReplyFail, net, dev
<1>2. CASE Reply
  <2>1. UNCHANGED <<conn, clients, cur, failed>> /\ pc = "reply"
        /\ replied' = [replied EXCEPT ![cur] = Append(replied[cur], used[cur])]
    BY <1>2 DEF Reply
  <2>2. replied' \in [Conn -> Seq(Nat)]
    BY <2>1, <1>0 DEF TypeOK
  <2>3. TypeOK'
    BY <2>1, <2>2, <1>1 DEF TypeOK
  <2>4. Registered' /\ Counters'
    BY <2>1, <1>0, <1>1 DEF Registered, Counters, Counts, Parts
  <2> QED
    BY <2>3, <2>4
<1>3. CASE DropMalformed \/ DeviceFail \/ ReplyFail
  <2>1. conn' = [conn EXCEPT ![cur] = "gone"] /\ clients' = clients \ {cur} /\ cur' = Nobody
        /\ UNCHANGED replied /\ (failed' = failed \/ failed' = failed \cup {cur})
    BY <1>3 DEF DropMalformed, DeviceFail, ReplyFail, Drop, dev
  <2>2. TypeOK'
    BY <2>1, <1>0, <1>1 DEF TypeOK
  <2>3. Registered'
    BY <2>1, <1>0, <1>1 DEF Registered, TypeOK
  <2>4. Counters'
    <3> SUFFICES ASSUME NEW d \in Conn PROVE Counts(d)'
      BY DEF Counters
    <3>1. (d # cur /\ conn'[d] = conn[d]) \/ conn'[d] = "gone"
      BY <2>1 DEF TypeOK
    <3> QED
      BY <3>1, <1>1, <2>1, CountsFrame DEF Counters
  <2> QED
    BY <2>2, <2>3, <2>4
<1> QED
  BY <1>2, <1>3

\* Going on with the loop, or out of it, preserves the invariant.
LEMMA LoopIInv ==
  ASSUME IInv, Resume \/ Cancel
  PROVE  IInv'
<1> USE DEF IInv
<1>1. CASE ShutDown
  <2>1. UNCHANGED <<sent, shut, rcvd, got, order, used, ready, todo, cur, stopped, did, replied, failed>>
        /\ pc' = "down" /\ clients' = {}
        /\ conn' = [c \in Conn |-> IF conn[c] = "idle" THEN "idle" ELSE "gone"]
    BY <1>1 DEF ShutDown, net, dev
  <2>2. TypeOK'
    BY <2>1 DEF TypeOK
  <2>3. Registered'
    BY <2>1 DEF Registered, TypeOK
  <2>4. Counters'
    BY <2>1 DEF Counters, Counts, Parts, TypeOK
  <2> QED
    BY <2>2, <2>3, <2>4
<1>2. CASE ~ShutDown
  <2>1. pc = "yield" /\ pc' = "select"
        /\ UNCHANGED <<conn, sent, shut, rcvd, got, clients, order, used, ready, todo, cur, stopped, did, replied, failed>>
    BY <1>2 DEF Resume, Cancel, net, dev
  <2>2. TypeOK'
    BY <2>1 DEF TypeOK
  <2>3. Registered' /\ Counters'
    BY <2>1 DEF Registered, Counters, Counts, Parts
  <2> QED
    BY <2>2, <2>3
<1> QED
  BY <1>1, <1>2

\* The bookkeeping of the server: the dict holds exactly the open connections,
\* only they are served, and what the device has done matches what has left
\* each buffer.
THEOREM Bookkeeping == Spec => []IInv
<1>1. IInv /\ [Next]_vars => IInv'
  <2> SUFFICES ASSUME IInv, [Next]_vars PROVE IInv'
    OBVIOUS
  <2>1. CASE UNCHANGED vars
    <3>1. TypeOK'
      BY <2>1 DEF vars, IInv, TypeOK
    <3>2. Registered' /\ Counters'
      BY <2>1 DEF vars, IInv, Registered, Counters, Counts, Parts
    <3> QED
      BY <3>1, <3>2 DEF IInv
  <2>2. CASE Next
    BY <2>1, <2>2, ClientIInv, PassIInv, EventIInv, DeviceIInv, ClientDoneIInv, LoopIInv
       DEF Next, ServerStep, Down
  <2> QED
    BY <2>1, <2>2
<1> QED
  BY <1>1, InitIInv, PTL DEF Spec

-----------------------------------------------------------------------------
(* Every step of the server is a step of the service or leaves it alone. *)

\* The service does not see a step that changes neither the log of requests nor
\* who is being served.
LEMMA StutterStep ==
  ASSUME UNCHANGED <<sent, did, replied>>, UNCHANGED Serving, UNCHANGED Stage, UNCHANGED Lost
  PROVE  UNCHANGED Service!vars
  BY DEF Service!vars

\* Dropping one connection, with its operation if it is being served.
LEMMA DropStep ==
  ASSUME IInv, NEW c \in Conn, UNCHANGED <<sent, did, replied>>,
         conn' = [conn EXCEPT ![c] = "gone"],
         IF Serving = c THEN Serving' = Nobody /\ Stage' = "free"
                        ELSE UNCHANGED Serving /\ UNCHANGED Stage
  PROVE  Service!Next
<1>1. Lost' = Lost \cup {c}
  BY DEF Lost, IInv, TypeOK
<1>2. Service!GiveUp({c})
  BY <1>1 DEF Service!GiveUp
<1>3. {c} \in SUBSET Conn
  OBVIOUS
<1> QED
  BY <1>2, <1>3 DEF Service!Next

\* Each action is the action of the service it stands for, or a stutter.
LEMMA StepImplements ==
  ASSUME IInv, Next
  PROVE  Service!Next \/ UNCHANGED Service!vars
<1>0. TypeOK /\ Registered /\ Counters
  BY DEF IInv
<1>1. ASSUME NEW c \in Conn, ClientStep(c) PROVE Service!Next \/ UNCHANGED Service!vars
  <2>0. UNCHANGED <<did, replied, pc, cur>>
    BY <1>1 DEF ClientStep, Connect, Send, ReadReply, Shut, dev
  <2>1. UNCHANGED Serving /\ UNCHANGED Stage
    BY <2>0 DEF Serving, Stage
  <2>2. UNCHANGED Lost
    BY <1>0, <1>1 DEF ClientStep, Connect, Send, ReadReply, Shut, Lost, TypeOK
  <2>3. ASSUME NEW k \in {"rd", "wr", "bad", "cut"}, Send(c, k) PROVE Service!Send(c, k)
    BY <2>0, <2>1, <2>2, <2>3 DEF Send, Service!Send
  <2>4. CASE UNCHANGED sent
    BY <2>0, <2>1, <2>2, <2>4, StutterStep
  <2>5. Sends[c] \subseteq {"rd", "wr", "bad", "cut"}
    BY BoundAssumption
  <2> QED
    BY <2>3, <2>4, <2>5, <1>1 DEF ClientStep, Connect, ReadReply, Shut, Service!Next, net
<1>2. CASE Select \/ BeginProcess \/ NextClient \/ WaitForRest \/ EndPass \/ Stop
  <2>1. UNCHANGED <<sent, did, replied, conn>>
    BY <1>2 DEF Select, BeginProcess, NextClient, WaitForRest, EndPass, Stop, net, dev
  <2>2. UNCHANGED Serving /\ UNCHANGED Stage
    BY <1>2 DEF Select, BeginProcess, NextClient, WaitForRest, EndPass, Stop, Serving, Stage
  <2> QED
    BY <2>1, <2>2, StutterStep DEF Lost
<1>3. ASSUME NEW c \in Conn, Accept(c) \/ OnData(c) PROVE Service!Next \/ UNCHANGED Service!vars
  <2>1. UNCHANGED <<sent, did, replied, pc, cur>> /\ pc = "events"
    BY <1>3 DEF Accept, OnData, net, dev
  <2>2. UNCHANGED Serving /\ UNCHANGED Stage /\ Serving = Nobody /\ Serving # c
    BY <2>1, NamesAssumption DEF Serving, Stage
  <2>3. CASE conn' = [conn EXCEPT ![c] = "gone"]
    BY <2>1, <2>2, <2>3, DropStep
  <2>4. CASE conn' # [conn EXCEPT ![c] = "gone"]
    <3>1. UNCHANGED Lost
      BY <2>4, <1>0, <1>3 DEF Accept, OnData, Drop, Lost, TypeOK
    <3> QED
      BY <3>1, <2>1, <2>2, StutterStep
  <2> QED
    BY <2>3, <2>4
<1>4. CASE Dispatch
  <2>0. cur \in Conn /\ conn[cur] = "open" /\ pc = "process" /\ pc' = "device" /\ Complete(cur)
        /\ UNCHANGED <<sent, did, replied, conn, cur>>
    BY <1>0, <1>4 DEF Dispatch, Registered, net, dev
  <2>1. did[cur] = used[cur]
    BY <1>0, <2>0 DEF Counters, Counts
  <2>2. used[cur] + 1 <= Len(sent[cur]) /\ sent[cur][used[cur] + 1] \in {"rd", "wr"}
    BY <2>0, CompleteSent
  <2>3. used[cur] \in Nat /\ Len(sent[cur]) \in Nat
    BY <1>0, <2>0 DEF TypeOK
  <2>4. did[cur] < Len(sent[cur])
    BY <2>1, <2>2, <2>3
  <2>5. Stage = "free" /\ Stage' = "run" /\ Serving' = cur /\ cur \notin Lost /\ UNCHANGED Lost
    BY <2>0 DEF Stage, Serving, Lost
  <2>6. Service!Begin(cur)
    BY <2>0, <2>1, <2>2, <2>4, <2>5 DEF Service!Begin
  <2> QED
    BY <2>0, <2>6 DEF Service!Next
<1>5. CASE DeviceDone
  <2>0. cur \in Conn /\ conn[cur] = "open" /\ pc = "device"
        /\ UNCHANGED <<sent, replied, conn, cur>> /\ did' = [did EXCEPT ![cur] = did[cur] + 1]
        /\ pc' = IF sent[cur][used[cur]] = "rd" THEN "reply" ELSE "process"
    BY <1>0, <1>5 DEF DeviceDone, Registered, net, TypeOK
  <2>1. did[cur] = used[cur] - 1 /\ used[cur] \in Nat
    BY <1>0, <2>0 DEF Counters, Counts, TypeOK
  <2>2. did[cur] + 1 = used[cur]
    BY <2>1
  <2>3. Stage = "run" /\ Serving = cur /\ UNCHANGED Lost
    BY <2>0 DEF Stage, Serving, Lost
  <2>4. IF sent[cur][did[cur] + 1] = "rd" THEN Stage' = "answer" /\ UNCHANGED Serving
        ELSE Stage' = "free" /\ Serving' = Nobody
    BY <2>0, <2>2 DEF Stage, Serving
  <2>5. Service!Finish(cur)
    BY <2>0, <2>3, <2>4 DEF Service!Finish
  <2> QED
    BY <2>0, <2>5 DEF Service!Next
<1>6. CASE Reply
  <2>0. cur \in Conn /\ conn[cur] = "open" /\ pc = "reply" /\ pc' = "process"
        /\ UNCHANGED <<sent, did, conn, cur>>
        /\ replied' = [replied EXCEPT ![cur] = Append(replied[cur], used[cur])]
    BY <1>0, <1>6 DEF Reply, Registered, net, TypeOK
  <2>1. did[cur] = used[cur]
    BY <1>0, <2>0 DEF Counters, Counts
  <2>2. Stage = "answer" /\ Serving = cur /\ Stage' = "free" /\ Serving' = Nobody /\ UNCHANGED Lost
    BY <2>0 DEF Stage, Serving, Lost
  <2>3. Service!Answer(cur)
    BY <2>0, <2>1, <2>2 DEF Service!Answer
  <2> QED
    BY <2>0, <2>3 DEF Service!Next
<1>7. CASE DropMalformed \/ DeviceFail \/ ReplyFail
  <2>0. cur \in Conn /\ UNCHANGED <<sent, did, replied>> /\ conn' = [conn EXCEPT ![cur] = "gone"]
        /\ pc' = "process" /\ pc \in {"process", "device", "reply"}
    BY <1>0, <1>7 DEF DropMalformed, DeviceFail, ReplyFail, Drop, Registered, net, dev, TypeOK
  <2>1. Serving \in {cur, Nobody} /\ Serving' = Nobody /\ Stage' = "free"
        /\ (Serving # cur => Stage = "free")
    BY <2>0 DEF Serving, Stage
  <2> QED
    BY <2>0, <2>1, DropStep
<1>8. CASE Resume \/ Cancel
  <2>1. CASE ShutDown
    <3> DEFINE D == {c \in Conn : conn[c] # "idle"}
    <3>1. UNCHANGED <<sent, did, replied>> /\ pc' = "down" /\ Lost' = Lost \cup D
      BY <2>1, <1>0 DEF ShutDown, net, dev, Lost, TypeOK
    <3>2. Serving' = Nobody /\ Stage' = "free"
      BY <3>1 DEF Serving, Stage
    <3>3. IF Serving \in D THEN TRUE ELSE Serving = Nobody /\ Stage = "free"
      <4>1. CASE pc \in {"device", "reply"}
        BY <4>1, <1>0 DEF Serving, Registered, TypeOK
      <4>2. CASE pc \notin {"device", "reply"}
        BY <4>2 DEF Serving, Stage
      <4> QED
        BY <4>1, <4>2
    <3>4. Service!GiveUp(D)
      BY <3>1, <3>2, <3>3 DEF Service!GiveUp
    <3>5. D \in SUBSET Conn
      OBVIOUS
    <3> QED
      BY <3>4, <3>5 DEF Service!Next
  <2>2. CASE ~ShutDown
    <3>1. UNCHANGED <<sent, did, replied, conn, cur>> /\ pc = "yield" /\ pc' = "select"
      BY <1>8, <2>2 DEF Resume, Cancel, net, dev
    <3> QED
      BY <3>1, StutterStep DEF Serving, Stage, Lost
  <2> QED
    BY <2>1, <2>2
<1>9. CASE Down
  BY <1>9, StutterStep DEF Down, vars, Serving, Stage, Lost
<1> QED
  BY <1>1, <1>2, <1>3, <1>4, <1>5, <1>6, <1>7, <1>8, <1>9 DEF Next, ServerStep

\* The multi-client server implements the service, for any number of
\* connections and requests: every client's requests are carried out in order,
\* each once, one at a time on the device, and its reads answered in order.
THEOREM ServerImplementsService == Spec => ImplementsService
<1>1. Init => Service!Init
  BY DEF Init, Service!Init, Serving, Stage, Lost
<1>2. IInv /\ [Next]_vars => [Service!Next]_(Service!vars)
  <2>1. UNCHANGED vars => UNCHANGED Service!vars
    BY StutterStep DEF vars, Serving, Stage, Lost
  <2> QED
    BY <2>1, StepImplements
<1> QED
  BY <1>1, <1>2, Bookkeeping, PTL DEF Spec, Service!Spec, ImplementsService
-----------------------------------------------------------------------------
\* What the invariants on dropped and waiting clients rest on: a client that is
\* neither reported by select nor still to be processed in this pass has nothing
\* complete in its buffer; select reports open connections only; a client that
\* has sent half a request sends nothing after it.
Waiting(c) == ~Complete(c) /\ ~Malformed(c)

Passed(c) ==
  conn[c] = "open" =>
    \/ pc = "events" /\ c \notin ready
    \/ pc \in {"process", "device", "reply"} /\ c \in todo \cup {cur}
    \/ pc = "down"
    \/ Waiting(c)

CutLast(c) == \A i \in 1 .. Len(sent[c]) : sent[c][i] = "cut" => i = Len(sent[c])

Cause(c) ==
  conn[c] = "gone" =>
    \/ c \in failed
    \/ \E i \in 1 .. Len(sent[c]) : sent[c][i] = "bad"
    \/ shut[c] = "rst"
    \/ /\ shut[c] = "fin"
       /\ \A i \in 1 .. Len(sent[c]) : sent[c][i] \in {"rd", "wr"} => did[c] >= i

Careful ==
  /\ pc = "events" => \A c \in Conn : c \in ready => conn[c] = "open"
  /\ \A c \in Conn : Passed(c) /\ CutLast(c)
  /\ pc # "down" => \A c \in Conn : Cause(c)

\* When nothing is left on the wire and the buffer has nothing complete, every
\* request that was sent in full has left the buffer.
LEMMA AllConsumed ==
  ASSUME IInv, NEW c \in Conn, CutLast(c), Waiting(c), rcvd[c] = Parts(c),
         NEW i \in 1 .. Len(sent[c]), sent[c][i] \in {"rd", "wr"}
  PROVE  used[c] >= i
<1> DEFINE n == Len(sent[c])
           u == used[c]
<1>1. n \in Nat /\ u \in Nat /\ rcvd[c] \in Nat /\ sent[c] \in Seq({"rd", "wr", "bad", "cut"})
  BY DEF IInv, TypeOK
<1> SUFFICES ASSUME u < i PROVE FALSE
  BY <1>1
<1>2. u + 1 \in 1 .. n /\ sent[c][u + 1] \in {"rd", "wr", "bad", "cut"}
  BY <1>1
<1>3. Parts(c) = 2 * n \/ (Parts(c) = 2 * n - 1 /\ sent[c][n] = "cut")
  <2>1. CASE n > 0 /\ sent[c][n] = "cut"
    BY <2>1 DEF Parts
  <2>2. CASE ~ (n > 0 /\ sent[c][n] = "cut")
    <3>1. Parts(c) = 2 * n - 0
      BY <2>2 DEF Parts
    <3> QED
      BY <1>1, <3>1
  <2> QED
    BY <2>1, <2>2
<1>4. rcvd[c] >= 2 * u + 1
  BY <1>1, <1>2, <1>3
<1>5. sent[c][u + 1] # "bad"
  BY <1>4 DEF Waiting, Malformed
<1>6. sent[c][u + 1] # "cut"
  <2>1. CASE i = u + 1
    BY <2>1
  <2>2. CASE i # u + 1
    <3>1. u + 1 # n
      BY <1>1, <2>2
    <3> QED
      BY <1>2, <3>1 DEF CutLast
  <2> QED
    BY <2>1, <2>2
<1>7. rcvd[c] >= 2 * (u + 1)
  <2>1. CASE Parts(c) = 2 * n
    BY <1>1, <1>2, <2>1
  <2>2. CASE Parts(c) = 2 * n - 1 /\ sent[c][n] = "cut"
    <3>1. u + 1 # n
      BY <1>6, <2>2
    <3> QED
      BY <1>1, <1>2, <2>2, <3>1
  <2> QED
    BY <1>3, <2>1, <2>2
<1> QED
  BY <1>2, <1>5, <1>6, <1>7 DEF Waiting, Complete

\* A connection of which nothing changes, but for a failure or its end being
\* noted, keeps its cause; and nothing becomes complete in an untouched buffer.
LEMMA CauseFrame ==
  ASSUME NEW d \in Conn, Cause(d), failed \subseteq failed',
         conn'[d] = "gone" =>
           conn[d] = "gone" /\ sent'[d] = sent[d] /\ shut'[d] = shut[d] /\ did'[d] = did[d]
  PROVE  Cause(d)'
  BY DEF Cause

\* What waits in a buffer depends on the counters of its client alone.
LEMMA WaitingFrame ==
  ASSUME NEW d \in Conn, sent'[d] = sent[d], rcvd'[d] = rcvd[d], used'[d] = used[d]
  PROVE  Waiting(d)' <=> Waiting(d)
  BY DEF Waiting, Complete, Malformed

\* The steps of clients keep it: what they send is not complete before it is
\* received.
LEMMA ClientCareful ==
  ASSUME IInv, Careful, NEW c \in Conn, ClientStep(c)
  PROVE  Careful'
<1> USE DEF Careful
<1>0. TypeOK
  BY DEF IInv
<1>1. /\ UNCHANGED <<rcvd, used, pc, ready, todo, cur, did, failed>>
      /\ \A d \in Conn : conn'[d] = conn[d] \/ (conn[d] = "idle" /\ conn'[d] = "backlog")
  BY <1>0 DEF ClientStep, Connect, Send, ReadReply, Shut, net, dev, TypeOK
<1>2. CASE ~ \E k \in Sends[c] : Send(c, k)
  <2>1. UNCHANGED sent
    BY <1>2 DEF ClientStep, Connect, ReadReply, Shut, net
  <2>2. \A d \in Conn : CutLast(d)' /\ (Waiting(d) => Waiting(d)')
    BY <1>1, <2>1 DEF CutLast, Waiting, Complete, Malformed
  <2>3. \A d \in Conn : Passed(d)'
    BY <1>1, <2>2 DEF Passed
  <2>4. \A d \in Conn : conn[d] = "gone" => shut'[d] = shut[d]
    BY <1>0, <1>2 DEF ClientStep, Connect, ReadReply, Shut, net, TypeOK
  <2>5. \A d \in Conn : Cause(d) => Cause(d)'
    BY <1>1, <2>1, <2>4 DEF Cause
  <2> QED
    BY <1>1, <2>2, <2>3, <2>5
<1>3. ASSUME NEW k \in Sends[c], Send(c, k) PROVE Careful'
  <2>1. /\ sent' = [sent EXCEPT ![c] = Append(sent[c], k)] /\ conn[c] \in {"backlog", "open"}
        /\ ~ \E i \in 1 .. Len(sent[c]) : sent[c][i] = "cut"
        /\ UNCHANGED <<conn, shut>>
    BY <1>3 DEF Send
  <2>2. /\ k \in {"rd", "wr", "bad", "cut"} /\ sent[c] \in Seq({"rd", "wr", "bad", "cut"})
        /\ Len(sent[c]) \in Nat
    <3>1. Sends[c] \in SUBSET {"rd", "wr", "bad", "cut"}
      BY BoundAssumption
    <3>2. sent[c] \in Seq({"rd", "wr", "bad", "cut"})
      BY <1>0 DEF TypeOK
    <3> QED
      BY <3>1, <3>2
  <2>3. sent'[c] = Append(sent[c], k)
    BY <1>0, <2>1 DEF TypeOK
  <2>4. /\ Len(sent'[c]) = Len(sent[c]) + 1
        /\ \A i \in 1 .. Len(sent[c]) : sent'[c][i] = sent[c][i]
    BY <2>2, <2>3
  <2>5. ASSUME NEW d \in Conn, d # c PROVE sent'[d] = sent[d]
    BY <1>0, <2>1, <2>5 DEF TypeOK
  <2>6. CutLast(c)'
    BY <2>1, <2>2, <2>4 DEF CutLast
  <2>7. Waiting(c) => Waiting(c)'
    <3>1. rcvd[c] \in Nat /\ used[c] \in Nat /\ rcvd[c] <= 2 * Len(sent[c])
      <4>1. rcvd[c] \in Nat /\ used[c] \in Nat /\ rcvd[c] <= Parts(c)
        BY DEF IInv, TypeOK, Counters, Counts
      <4> QED
        BY <1>0, <4>1, PartsRange
    <3>2. rcvd[c] >= 2 * used[c] + 1 => used[c] + 1 \in 1 .. Len(sent[c])
      BY <2>2, <3>1
    <3>3. rcvd[c] >= 2 * used[c] + 1 => sent'[c][used[c] + 1] = sent[c][used[c] + 1]
      BY <2>4, <3>2
    <3>4. rcvd[c] >= 2 * (used[c] + 1) => rcvd[c] >= 2 * used[c] + 1
      BY <3>1
    <3> QED
      BY <1>1, <3>3, <3>4 DEF Waiting, Complete, Malformed
  <2>8. \A d \in Conn : CutLast(d)' /\ (Waiting(d) => Waiting(d)')
    <3>1. ASSUME NEW d \in Conn, d # c PROVE CutLast(d)' /\ (Waiting(d) => Waiting(d)')
      BY <1>1, <2>5, <3>1 DEF CutLast, Waiting, Complete, Malformed
    <3> QED
      BY <2>6, <2>7, <3>1
  <2>9. \A d \in Conn : Passed(d)'
    BY <1>1, <2>1, <2>8 DEF Passed
  <2>10. \A d \in Conn : Cause(d) => Cause(d)'
    <3>1. ASSUME NEW d \in Conn, Cause(d) PROVE Cause(d)'
      BY <1>1, <2>1, <2>5, <3>1 DEF Cause
    <3> QED
      BY <3>1
  <2> QED
    BY <1>1, <2>1, <2>8, <2>9, <2>10
<1> QED
  BY <1>2, <1>3

\* Selecting, accepting and receiving keep it: a client is dropped at the end of
\* its stream only, and by then its buffer has been processed.
LEMMA EventCareful ==
  ASSUME IInv, Careful, Select \/ \E c \in Conn : Accept(c) \/ OnData(c)
  PROVE  Careful'
<1> USE DEF Careful
<1>0. TypeOK /\ Registered /\ \A d \in Conn : Counts(d)
  BY DEF IInv, Counters
<1>1. UNCHANGED <<sent, shut, used, did, failed>>
  BY DEF Select, Accept, OnData, net, dev
<1>2. \A d \in Conn : CutLast(d)'
  BY <1>1 DEF CutLast
<1>3. CASE Select
  <2>1. pc = "select" /\ pc' = "events" /\ ready' = Events /\ UNCHANGED <<conn, rcvd>>
    BY <1>3 DEF Select
  <2>2. \A d \in Conn : conn[d] = "open" => Waiting(d)
    BY <2>1 DEF Passed
  <2>3. \A d \in Conn : Waiting(d)' = Waiting(d)
    BY <1>1, <2>1 DEF Waiting, Complete, Malformed
  <2>4. \A d \in Conn : Passed(d)'
    BY <2>1, <2>2, <2>3 DEF Passed
  <2>5. \A d \in Conn : d \in ready' => conn'[d] = "open"
    BY <2>1, NamesAssumption DEF Events
  <2>6. \A d \in Conn : Cause(d)'
    BY <1>1, <2>1 DEF Cause
  <2> QED
    BY <1>2, <2>4, <2>5, <2>6
<1>4. ASSUME NEW c \in Conn, Accept(c) PROVE Careful'
  <2>1. /\ pc = "events" /\ pc' = "events" /\ ready' = ready \ {Listen} /\ conn[c] = "backlog"
        /\ UNCHANGED rcvd
        /\ \/ conn' = [conn EXCEPT ![c] = "open"]
           \/ shut[c] = "rst" /\ conn' = [conn EXCEPT ![c] = "gone"]
    BY <1>4 DEF Accept
  <2>2. c \notin ready /\ \A d \in Conn : d # c => conn'[d] = conn[d]
    BY <1>0, <2>1 DEF TypeOK
  <2>3. \A d \in Conn : Waiting(d)' = Waiting(d)
    BY <1>1, <2>1 DEF Waiting, Complete, Malformed
  <2>4. \A d \in Conn : Passed(d)'
    BY <2>1, <2>2, <2>3 DEF Passed
  <2>5. \A d \in Conn : d \in ready' => conn'[d] = "open"
    BY <2>1, <2>2
  <2>6. \A d \in Conn : Cause(d)'
    <3>1. Cause(c)'
      BY <1>0, <1>1, <2>1 DEF Cause, TypeOK
    <3>2. ASSUME NEW d \in Conn, d # c PROVE Cause(d)'
      BY <1>1, <2>1, <2>2, <3>2, CauseFrame
    <3> QED
      BY <3>1, <3>2
  <2> QED
    BY <1>2, <2>1, <2>4, <2>5, <2>6
<1>5. ASSUME NEW c \in Conn, OnData(c) PROVE Careful'
  <2>1. pc = "events" /\ pc' = "events" /\ c \in ready /\ ready' = ready \ {c} /\ conn[c] = "open"
    BY <1>5 DEF OnData
  <2>2. /\ \A d \in Conn : d # c => rcvd'[d] = rcvd[d] /\ conn'[d] = conn[d]
        /\ conn'[c] = conn[c] \/ conn'[c] = "gone"
    BY <1>0, <1>5 DEF OnData, Drop, TypeOK
  <2>3. ASSUME NEW d \in Conn PROVE Passed(d)'
    <3>1. CASE d = c
      BY <2>1, <3>1 DEF Passed
    <3>2. CASE d # c
      <4>1. Waiting(d)' = Waiting(d)
        BY <1>1, <2>2, <3>2 DEF Waiting, Complete, Malformed
      <4> QED
        BY <2>1, <2>2, <3>2, <4>1 DEF Passed
    <3> QED
      BY <3>1, <3>2
  <2>4. \A d \in Conn : d \in ready' => conn'[d] = "open"
    BY <2>1, <2>2
  <2>5. Cause(c)'
    <3>1. CASE shut[c] = "rst"
      BY <1>1, <3>1 DEF Cause
    <3>2. CASE shut[c] = "fin" /\ rcvd[c] = Parts(c)
      <4>1. Waiting(c) /\ CutLast(c)
        BY <2>1 DEF Passed
      <4>2. did[c] = used[c]
        BY <1>0, <2>1 DEF Counts
      <4>3. \A i \in 1 .. Len(sent[c]) : sent[c][i] \in {"rd", "wr"} => did[c] >= i
        BY <3>2, <4>1, <4>2, AllConsumed
      <4> QED
        BY <1>1, <3>2, <4>3 DEF Cause
    <3>3. CASE UNCHANGED conn
      BY <2>1, <3>3 DEF Cause
    <3> QED
      BY <1>5, <3>1, <3>2, <3>3 DEF OnData
  <2>6. ASSUME NEW d \in Conn, d # c PROVE Cause(d)'
    BY <1>1, <2>1, <2>2, <2>6, CauseFrame
  <2> QED
    BY <1>2, <2>1, <2>3, <2>4, <2>5, <2>6
<1> QED
  BY <1>3, <1>4, <1>5

\* The pass keeps it: a client is left when its buffer has nothing complete, or
\* when it is dropped for a malformed head or a failure.
LEMMA PassCareful ==
  ASSUME IInv, Careful,
         BeginProcess \/ NextClient \/ WaitForRest \/ DropMalformed \/ Dispatch
           \/ DeviceDone \/ DeviceFail \/ Reply \/ ReplyFail \/ EndPass
  PROVE  Careful'
<1> USE DEF Careful
<1>0. TypeOK /\ Registered
  BY DEF IInv
<1>1. UNCHANGED <<sent, shut, rcvd>> /\ failed \subseteq failed' /\ pc # "down" /\ pc' # "events" /\ pc' # "down"
  BY DEF BeginProcess, NextClient, WaitForRest, DropMalformed, Dispatch,
         DeviceDone, DeviceFail, Reply, ReplyFail, EndPass, net, dev
<1>2. \A d \in Conn : CutLast(d)'
  BY <1>1 DEF CutLast
<1>3. ASSUME NEW d \in Conn, d # cur
      PROVE  conn'[d] = conn[d] /\ used'[d] = used[d] /\ did'[d] = did[d]
  BY <1>0, <1>3 DEF BeginProcess, NextClient, WaitForRest, DropMalformed, Dispatch, Drop,
         DeviceDone, DeviceFail, Reply, ReplyFail, EndPass, net, dev, TypeOK
<1>4. ASSUME NEW d \in Conn, d # cur PROVE Cause(d)'
  BY <1>1, <1>3, <1>4, CauseFrame
<1>5. ASSUME NEW d \in Conn, d # cur PROVE Waiting(d)' <=> Waiting(d)
  BY <1>1, <1>3, <1>5, WaitingFrame
<1>6. CASE BeginProcess \/ NextClient \/ EndPass
  <2>1. cur = Nobody
    BY <1>0, <1>6 DEF BeginProcess, NextClient, EndPass, Registered
  <2>2. \A d \in Conn : d # cur
    BY <2>1, NamesAssumption
  <2>3. \A d \in Conn : Passed(d)'
    <3>1. CASE BeginProcess
      BY <1>0, <1>3, <2>2, <3>1 DEF BeginProcess, Passed, Registered
    <3>2. CASE NextClient
      BY <1>3, <1>5, <2>2, <3>2 DEF NextClient, Passed
    <3>3. CASE EndPass
      BY <1>3, <1>5, <2>2, <3>3 DEF EndPass, Passed
    <3> QED
      BY <1>6, <3>1, <3>2, <3>3
  <2> QED
    BY <1>1, <1>2, <1>4, <2>2, <2>3
<1>7. CASE ~ (BeginProcess \/ NextClient \/ EndPass)
  <2>1. PICK c \in Conn : c = cur /\ conn[c] = "open"
    <3>1. cur # Nobody
      BY <1>0, <1>7 DEF WaitForRest, DropMalformed, Dispatch, DeviceDone, DeviceFail, Reply, ReplyFail, Registered
    <3> QED
      BY <1>0, <1>1, <3>1 DEF Registered, TypeOK
  <2>2. pc \in {"process", "device", "reply"} /\ pc' \in {"process", "device", "reply"} /\ UNCHANGED todo
    BY <1>7 DEF WaitForRest, DropMalformed, Dispatch, DeviceDone, DeviceFail, Reply, ReplyFail
  <2>3. ASSUME NEW d \in Conn, d # c PROVE Passed(d)'
    BY <1>3, <1>5, <2>1, <2>2, <2>3 DEF Passed
  <2>4. CASE Dispatch \/ DeviceDone \/ Reply
    <3>1. cur' = c /\ conn' = conn
      BY <2>1, <2>4 DEF Dispatch, DeviceDone, Reply
    <3>2. Passed(c)' /\ Cause(c)'
      BY <2>1, <2>2, <3>1 DEF Passed, Cause
    <3> QED
      BY <1>1, <1>2, <1>4, <2>1, <2>3, <3>2
  <2>5. CASE WaitForRest
    <3>1. Waiting(c) /\ UNCHANGED <<conn, used>>
      BY <2>1, <2>5 DEF WaitForRest, Waiting
    <3>2. Passed(c)' /\ Cause(c)'
      BY <1>1, <2>1, <3>1, WaitingFrame DEF Passed, Cause
    <3> QED
      BY <1>1, <1>2, <1>4, <2>1, <2>3, <3>2
  <2>6. CASE DropMalformed \/ DeviceFail \/ ReplyFail
    <3>1. conn'[c] = "gone"
      BY <1>0, <2>1, <2>6 DEF DropMalformed, DeviceFail, ReplyFail, Drop, TypeOK
    <3>2. Cause(c)'
      <4>1. CASE DropMalformed
        <5>1. rcvd[c] >= 2 * used[c] + 1 /\ sent[c][used[c] + 1] = "bad"
          BY <2>1, <4>1 DEF DropMalformed, Malformed
        <5>2. rcvd[c] \in Nat /\ used[c] \in Nat /\ rcvd[c] <= Parts(c)
          BY DEF IInv, TypeOK, Counters, Counts
        <5>3. used[c] + 1 \in 1 .. Len(sent[c])
          BY <1>0, <5>1, <5>2, PartsRange
        <5> QED
          BY <1>1, <5>1, <5>3 DEF Cause
      <4>2. CASE DeviceFail \/ ReplyFail
        BY <2>1, <4>2 DEF DeviceFail, ReplyFail, Cause
      <4> QED
        BY <2>6, <4>1, <4>2
    <3>3. Passed(c)'
      BY <3>1 DEF Passed
    <3> QED
      BY <1>1, <1>2, <1>4, <2>1, <2>3, <3>2, <3>3
  <2> QED
    BY <1>7, <2>4, <2>5, <2>6
<1> QED
  BY <1>6, <1>7

\* So does the end of a pass, and the end of the server.
LEMMA LoopCareful ==
  ASSUME IInv, Careful, Resume \/ Cancel \/ Stop \/ UNCHANGED vars
  PROVE  Careful'
<1> USE DEF Careful
<1>1. UNCHANGED <<sent, shut, rcvd, used, did, failed, todo, cur, ready>>
  BY DEF Resume, Cancel, Stop, ShutDown, net, dev, vars
<1>2. \A d \in Conn : CutLast(d)' /\ (Waiting(d)' <=> Waiting(d))
  BY <1>1 DEF CutLast, Waiting, Complete, Malformed
<1>3. CASE ShutDown
  <2>1. pc' = "down"
    BY <1>3 DEF ShutDown
  <2> QED
    BY <1>2, <2>1 DEF Passed
<1>4. CASE ~ShutDown
  <2>1. UNCHANGED conn /\ (pc' = pc \/ (pc = "yield" /\ pc' = "select"))
    BY <1>4 DEF Resume, Cancel, Stop, net, dev, vars
  <2>2. \A d \in Conn : Passed(d)'
    BY <1>1, <1>2, <2>1 DEF Passed
  <2>3. \A d \in Conn : Cause(d)' <=> Cause(d)
    BY <1>1, <2>1 DEF Cause
  <2> QED
    BY <1>1, <1>2, <2>1, <2>2, <2>3
<1> QED
  BY <1>3, <1>4

\* The buffers and half requests are as they should be in every state.
LEMMA SpecCareful == Spec => []Careful
<1>1. Init => Careful
  <2> SUFFICES ASSUME Init PROVE Careful
    OBVIOUS
  <2>1. \A c \in Conn : Passed(c) /\ Cause(c) /\ CutLast(c)
    BY DEF Init, Passed, Cause, CutLast
  <2> QED
    BY <2>1 DEF Init, Careful
<1>2. IInv /\ Careful /\ [Next]_vars => Careful'
  BY ClientCareful, EventCareful, PassCareful, LoopCareful DEF Next, ServerStep, Down
<1> QED
  BY <1>1, <1>2, Bookkeeping, PTL DEF Spec

\* When the loop selects again, nobody's complete request is left in a buffer.
THEOREM NobodyIsStranded == Spec => []NoneStranded
<1>1. IInv /\ Careful => NoneStranded
  <2> SUFFICES ASSUME IInv, Careful, pc = "select", NEW c \in Conn, conn[c] = "open"
               PROVE  ~Complete(c) /\ ~Malformed(c)
    BY DEF NoneStranded
  <2> QED
    BY DEF Careful, Passed, Waiting
<1> QED
  BY <1>1, Bookkeeping, SpecCareful, PTL

\* A client is dropped only for a failure of its own, a malformed head, a reset,
\* or after its end of the stream with all its complete requests carried out.
THEOREM ClientsDropForCause == Spec => []DroppedForCause
<1>1. Careful => DroppedForCause
  BY DEF Careful, Cause, DroppedForCause
<1> QED
  BY <1>1, SpecCareful, PTL

-----------------------------------------------------------------------------
(* The answers.  They are in order because the service gives them in order, *)
(* and the server implements it.                                           *)

\* A request at the device has been sent; a read whose reply is due has been
\* carried out last.
InService(c) ==
  /\ did[c] <= Len(sent[c])
  /\ Stage = "run" /\ Serving = c => did[c] < Len(sent[c])
  /\ Stage = "answer" /\ Serving = c => did[c] > 0 /\ sent[c][did[c]] = "rd"

AnswerInv == AnswersInOrder /\ \A c \in Conn \ Lost : InService(c)

\* A connection whose numbers stay as they are, and which is not the one being
\* answered before or after, keeps its answers.
LEMMA AnswersFrame ==
  ASSUME AnswerInv, NEW c \in Conn \ Lost,
         UNCHANGED <<did[c], replied[c]>>,
         \A i \in 1 .. did[c] : sent'[c][i] = sent[c][i],
         (Stage = "answer" /\ Serving = c) <=> (Stage' = "answer" /\ Serving' = c)
  PROVE  /\ {replied'[c][j] : j \in 1 .. Len(replied'[c])} = Service!Answered(c)'
         /\ \A i, j \in 1 .. Len(replied'[c]) : i < j => replied'[c][i] < replied'[c][j]
<1>1. Service!Answered(c)' = Service!Answered(c)
  BY DEF Service!Answered
<1> QED
  BY <1>1 DEF AnswerInv, AnswersInOrder, Service!AnswersInOrder

\* Every step of the service preserves it.
LEMMA AnswersStep ==
  ASSUME TypeOK, AnswerInv, Service!Next \/ UNCHANGED Service!vars
  PROVE  AnswerInv'
<1>0. /\ did \in [Conn -> Nat] /\ replied \in [Conn -> Seq(Nat)]
      /\ sent \in [Conn -> Seq({"rd", "wr", "bad", "cut"})]
  BY DEF TypeOK
<1> SUFFICES ASSUME NEW c \in Conn, c \notin Lost'
             PROVE  /\ {replied'[c][j] : j \in 1 .. Len(replied'[c])} = Service!Answered(c)'
                    /\ \A i, j \in 1 .. Len(replied'[c]) : i < j => replied'[c][i] < replied'[c][j]
                    /\ InService(c)'
  BY DEF AnswerInv, AnswersInOrder, Service!AnswersInOrder
<1>1. Lost \subseteq Lost'
  BY DEF Service!Next, Service!vars, Service!Send, Service!Begin, Service!Finish, Service!Answer, Service!GiveUp
<1>2. c \in Conn \ Lost /\ InService(c) /\ did[c] \in Nat
      /\ sent[c] \in Seq({"rd", "wr", "bad", "cut"}) /\ replied[c] \in Seq(Nat)
  BY <1>0, <1>1 DEF AnswerInv
<1>3. /\ {replied[c][j] : j \in 1 .. Len(replied[c])} = Service!Answered(c)
      /\ \A i, j \in 1 .. Len(replied[c]) : i < j => replied[c][i] < replied[c][j]
  BY <1>2 DEF AnswerInv, AnswersInOrder, Service!AnswersInOrder
<1>4. ASSUME UNCHANGED <<did[c], replied[c]>>,
             \/ sent'[c] = sent[c]
             \/ \E k \in {"rd", "wr", "bad", "cut"} : sent'[c] = Append(sent[c], k),
             Serving' = c /\ Stage' = "run" => did[c] < Len(sent[c]),
             (Stage = "answer" /\ Serving = c) <=> (Stage' = "answer" /\ Serving' = c)
      PROVE  /\ {replied'[c][j] : j \in 1 .. Len(replied'[c])} = Service!Answered(c)'
             /\ \A i, j \in 1 .. Len(replied'[c]) : i < j => replied'[c][i] < replied'[c][j]
             /\ InService(c)'
  <2>1. /\ \A i \in 1 .. Len(sent[c]) : sent'[c][i] = sent[c][i]
        /\ Len(sent[c]) \in Nat /\ Len(sent'[c]) >= Len(sent[c]) /\ Len(sent'[c]) \in Nat
    <3>1. CASE sent'[c] = sent[c]
      BY <1>2, <3>1
    <3>2. ASSUME NEW k \in {"rd", "wr", "bad", "cut"}, sent'[c] = Append(sent[c], k)
          PROVE  /\ \A i \in 1 .. Len(sent[c]) : sent'[c][i] = sent[c][i]
                 /\ Len(sent[c]) \in Nat /\ Len(sent'[c]) >= Len(sent[c]) /\ Len(sent'[c]) \in Nat
      BY <1>2, <3>2
    <3> QED
      BY <1>4, <3>1, <3>2
  <2>2. did[c] <= Len(sent[c])
    BY <1>2 DEF InService
  <2>3. \A i \in 1 .. did[c] : i \in 1 .. Len(sent[c])
    BY <1>2, <2>1, <2>2
  <2>4. \A i \in 1 .. did[c] : sent'[c][i] = sent[c][i]
    BY <2>1, <2>3
  <2>5. InService(c)'
    <3>1. did'[c] <= Len(sent'[c])
      BY <1>2, <1>4, <2>1, <2>2
    <3>2. Stage' = "run" /\ Serving' = c => did'[c] < Len(sent'[c])
      BY <1>2, <1>4, <2>1
    <3>3. Stage' = "answer" /\ Serving' = c => did'[c] > 0 /\ sent'[c][did'[c]] = "rd"
      <4>1. did[c] > 0 => did[c] \in 1 .. did[c]
        BY <1>2
      <4> QED
        BY <1>2, <1>4, <2>4, <4>1 DEF InService
    <3> QED
      BY <3>1, <3>2, <3>3 DEF InService
  <2> QED
    BY <1>2, <1>4, <2>4, <2>5, AnswersFrame
<1>5. CASE UNCHANGED Service!vars
  BY <1>2, <1>4, <1>5 DEF Service!vars, InService
<1>6. ASSUME NEW d \in Conn, NEW k \in {"rd", "wr", "bad", "cut"}, Service!Send(d, k)
      PROVE  /\ {replied'[c][j] : j \in 1 .. Len(replied'[c])} = Service!Answered(c)'
             /\ \A i, j \in 1 .. Len(replied'[c]) : i < j => replied'[c][i] < replied'[c][j]
             /\ InService(c)'
  <2>1. sent'[c] = sent[c] \/ sent'[c] = Append(sent[c], k)
    BY <1>0, <1>6 DEF Service!Send
  <2> QED
    BY <1>2, <1>4, <1>6, <2>1 DEF Service!Send, InService
<1>7. ASSUME NEW d \in Conn, Service!Begin(d)
      PROVE  /\ {replied'[c][j] : j \in 1 .. Len(replied'[c])} = Service!Answered(c)'
             /\ \A i, j \in 1 .. Len(replied'[c]) : i < j => replied'[c][i] < replied'[c][j]
             /\ InService(c)'
  BY <1>4, <1>7 DEF Service!Begin
<1>8. ASSUME NEW d \in Conn, Service!Finish(d)
      PROVE  /\ {replied'[c][j] : j \in 1 .. Len(replied'[c])} = Service!Answered(c)'
             /\ \A i, j \in 1 .. Len(replied'[c]) : i < j => replied'[c][i] < replied'[c][j]
             /\ InService(c)'
  <2>0. /\ Stage = "run" /\ Serving = d /\ did' = [did EXCEPT ![d] = did[d] + 1]
        /\ UNCHANGED <<sent, replied>>
        /\ IF sent[d][did[d] + 1] = "rd" THEN Stage' = "answer" /\ Serving' = d
                                         ELSE Stage' = "free" /\ Serving' = Nobody
    BY <1>8 DEF Service!Finish
  <2>1. CASE c # d
    BY <1>0, <1>4, <2>0, <2>1
  <2>2. CASE c = d
    <3> DEFINE n == did[c] + 1
    <3>1. did'[c] = n /\ n \in Nat /\ n > 0 /\ n <= Len(sent[c]) /\ Len(sent[c]) \in Nat
      BY <1>0, <1>2, <2>0, <2>2 DEF InService
    <3>2. Service!Answered(c) = {i \in 1 .. did[c] : sent[c][i] = "rd"}
      BY <2>0 DEF Service!Answered
    <3>3. Service!Answered(c)' = {i \in 1 .. did[c] : sent[c][i] = "rd"}
      <4>1. CASE sent[c][n] = "rd"
        <5>1. Service!Answered(c)' = {i \in 1 .. n : sent[c][i] = "rd"} \ {n}
          BY <2>0, <2>2, <3>1, <4>1 DEF Service!Answered
        <5>2. /\ \A i \in 1 .. n : i # n => i \in 1 .. did[c]
              /\ \A i \in 1 .. did[c] : i \in 1 .. n /\ i # n
          BY <1>2
        <5> HIDE DEF n
        <5> QED
          BY <5>1, <5>2
      <4>2. CASE sent[c][n] # "rd"
        <5>1. Service!Answered(c)' = {i \in 1 .. n : sent[c][i] = "rd"}
          BY <2>0, <2>2, <3>1, <4>2 DEF Service!Answered
        <5>2. /\ \A i \in 1 .. n : i # n => i \in 1 .. did[c]
              /\ \A i \in 1 .. did[c] : i \in 1 .. n /\ i # n
          BY <1>2
        <5> HIDE DEF n
        <5> QED
          BY <4>2, <5>1, <5>2
      <4> QED
        BY <4>1, <4>2
    <3>4. InService(c)'
      BY <2>0, <2>2, <3>1 DEF InService
    <3> QED
      BY <1>3, <2>0, <3>2, <3>3, <3>4
  <2> QED
    BY <2>1, <2>2
<1>9. ASSUME NEW d \in Conn, Service!Answer(d)
      PROVE  /\ {replied'[c][j] : j \in 1 .. Len(replied'[c])} = Service!Answered(c)'
             /\ \A i, j \in 1 .. Len(replied'[c]) : i < j => replied'[c][i] < replied'[c][j]
             /\ InService(c)'
  <2>0. /\ Stage = "answer" /\ Serving = d /\ Stage' = "free" /\ Serving' = Nobody
        /\ replied' = [replied EXCEPT ![d] = Append(replied[d], did[d])] /\ UNCHANGED <<sent, did>>
    BY <1>9 DEF Service!Answer
  <2>1. CASE c # d
    BY <1>0, <1>4, <2>0, <2>1
  <2>2. CASE c = d
    <3> DEFINE n == did[c]
               s == replied[c]
               a == Append(s, n)
    <3>1. /\ replied'[c] = a /\ n \in Nat /\ n > 0 /\ sent[c][n] = "rd" /\ did'[c] = n
          /\ Len(s) \in Nat /\ Len(a) = Len(s) + 1 /\ a[Len(s) + 1] = n
          /\ \A i \in 1 .. Len(s) : a[i] = s[i] /\ s[i] \in Nat
      BY <1>0, <1>2, <2>0, <2>2 DEF InService
    <3>2. Service!Answered(c) = {i \in 1 .. n : sent[c][i] = "rd"} \ {n}
      BY <2>0, <2>2 DEF Service!Answered
    <3>3. Service!Answered(c)' = {i \in 1 .. n : sent[c][i] = "rd"}
      BY <2>0, <3>1 DEF Service!Answered
    <3>4. InService(c)'
      BY <1>2, <2>0 DEF InService
    <3> HIDE DEF n, a, s
    <3>5. \A i \in 1 .. Len(a) : i \in 1 .. Len(s) \/ i = Len(s) + 1
      BY <3>1
    <3>6. \A i \in 1 .. Len(s) : i \in 1 .. Len(a)
      BY <3>1
    <3>7. Len(s) + 1 \in 1 .. Len(a) /\ n \in 1 .. n
      BY <3>1
    <3>8. {a[j] : j \in 1 .. Len(a)} = {s[j] : j \in 1 .. Len(s)} \cup {n}
      <4>1. \A j \in 1 .. Len(a) : a[j] \in {s[i] : i \in 1 .. Len(s)} \cup {n}
        BY <3>1, <3>5
      <4>2. \A j \in 1 .. Len(s) : s[j] \in {a[i] : i \in 1 .. Len(a)}
        BY <3>1, <3>6
      <4>3. n \in {a[i] : i \in 1 .. Len(a)}
        BY <3>1, <3>7
      <4> QED
        BY <4>1, <4>2, <4>3
    <3>9. {a[j] : j \in 1 .. Len(a)} = Service!Answered(c)'
      BY <1>3, <3>1, <3>2, <3>3, <3>7, <3>8 DEF s
    <3>10. ASSUME NEW i \in 1 .. Len(a), NEW j \in 1 .. Len(a), i < j PROVE a[i] < a[j]
      <4>1. i \in 1 .. Len(s) /\ a[i] = s[i] /\ s[i] \in Nat
        BY <3>1, <3>5, <3>10
      <4>2. CASE j \in 1 .. Len(s)
        BY <1>3, <3>1, <3>10, <4>1, <4>2 DEF s
      <4>3. CASE j = Len(s) + 1
        <5>1. s[i] \in Service!Answered(c)
          BY <1>3, <4>1 DEF s
        <5>2. s[i] \in 1 .. n /\ s[i] # n
          BY <3>2, <5>1
        <5> QED
          BY <3>1, <4>1, <4>3, <5>2
      <4> QED
        BY <3>5, <4>2, <4>3
    <3> QED
      BY <3>1, <3>4, <3>9, <3>10
  <2> QED
    BY <2>1, <2>2
<1>10. ASSUME NEW D \in SUBSET Conn, Service!GiveUp(D)
       PROVE  /\ {replied'[c][j] : j \in 1 .. Len(replied'[c])} = Service!Answered(c)'
              /\ \A i, j \in 1 .. Len(replied'[c]) : i < j => replied'[c][i] < replied'[c][j]
              /\ InService(c)'
  <2>1. c \notin D /\ c # Nobody /\ UNCHANGED <<sent, did, replied>>
    BY <1>10, NamesAssumption DEF Service!GiveUp
  <2>2. \/ UNCHANGED <<Stage, Serving>>
        \/ Serving \in D /\ Stage' = "free" /\ Serving' = Nobody
    BY <1>10 DEF Service!GiveUp
  <2> QED
    BY <1>2, <1>4, <2>1, <2>2 DEF InService
<1> QED
  BY <1>5, <1>6, <1>7, <1>8, <1>9, <1>10 DEF Service!Next

\* The replies a client gets are those of its reads, in order, each once, none
\* missing: for every set of connections, whatever arrives split or malformed and
\* whoever closes, resets or cancels when.
THEOREM AnswersAreInOrder == Spec => []AnswersInOrder
<1>1. Init => AnswerInv
  <2> SUFFICES ASSUME Init PROVE AnswerInv
    OBVIOUS
  <2>1. \A c \in Conn : did[c] = 0 /\ sent[c] = <<>> /\ replied[c] = <<>> /\ Stage = "free"
    BY DEF Init, Stage
  <2>2. \A c \in Conn : InService(c) /\ Service!Answered(c) = {}
    BY <2>1 DEF InService, Service!Answered
  <2> QED
    BY <2>1, <2>2 DEF AnswerInv, AnswersInOrder, Service!AnswersInOrder
<1>2. IInv /\ AnswerInv /\ [Next]_vars => AnswerInv'
  <2> SUFFICES ASSUME IInv, AnswerInv, [Next]_vars PROVE AnswerInv'
    OBVIOUS
  <2>1. CASE Next
    BY <2>1, StepImplements, AnswersStep DEF IInv
  <2>2. CASE UNCHANGED vars
    <3>1. UNCHANGED Service!vars
      BY <2>2, StutterStep DEF vars, Serving, Stage, Lost
    <3> QED
      BY <3>1, AnswersStep DEF IInv
  <2> QED
    BY <2>1, <2>2
<1>3. AnswerInv => AnswersInOrder
  BY DEF AnswerInv
<1> QED
  BY <1>1, <1>2, <1>3, Bookkeeping, PTL DEF Spec
=============================================================================
