--------------------- MODULE RegioTcpServerSingleProofs ---------------------
(***************************************************************************)
(* For every set of connections, every number of requests and every window:*)
(* the single-client server closes a connection for a cause only, and it   *)
(* implements the same RegioService as the multi-client server.            *)
(***************************************************************************)
EXTENDS RegioTcpServerSingle, TLAPS

Kinds == {"rd", "wr", "bad", "cut"}

TypeOK ==
  /\ conn \in [Conn -> {"idle", "backlog", "open", "gone"}]
  /\ sent \in [Conn -> Seq(Kinds)]
  /\ shut \in [Conn -> {"no", "fin", "rst"}]
  /\ rcvd \in [Conn -> Nat]
  /\ got \in [Conn -> Nat]
  /\ used \in [Conn -> Nat]
  /\ did \in [Conn -> Nat]
  /\ replied \in [Conn -> Seq(Nat)]
  /\ pc \in {"accept", "recv", "device", "reply", "down"}
  /\ cur \in Conn \cup {Nobody}
  /\ failed \subseteq Conn

\* The connection handled is the one that is open.  When the server goes down
\* with a request at the device, all are gone.
Handled ==
  /\ pc \in {"recv", "device", "reply"} => cur \in Conn
  /\ pc = "accept" => cur = Nobody
  /\ pc # "down" => \A c \in Conn : conn[c] = "open" <=> cur = c
  /\ pc = "down" => \A c \in Conn : conn[c] \in {"idle", "gone"}

\* Parts received, requests consumed and requests carried out.
Counts(c) ==
  /\ rcvd[c] <= Parts(c)
  /\ 2 * used[c] <= rcvd[c]
  /\ conn[c] \in {"idle", "backlog"} => used[c] = 0 /\ did[c] = 0
  /\ conn[c] = "open" => did[c] = IF pc = "device" THEN used[c] - 1 ELSE used[c]

Cause(c) ==
  conn[c] = "gone" =>
    \/ c \in failed
    \/ \E i \in 1 .. Len(sent[c]) : sent[c][i] = "bad"
    \/ shut[c] = "rst"
    \/ /\ shut[c] = "fin"
       /\ \A i \in 1 .. Len(sent[c]) : sent[c][i] \in {"rd", "wr"} => did[c] >= i

IInv ==
  /\ TypeOK
  /\ Handled
  /\ \A c \in Conn : Counts(c)
  /\ pc # "down" => \A c \in Conn : Cause(c)

-----------------------------------------------------------------------------
\* The parts of a connection are its whole requests, but for a cut one at the
\* end, of which there is only the first part.
LEMMA PartsValue ==
  ASSUME TypeOK, NEW c \in Conn
  PROVE  /\ Len(sent[c]) \in Nat
         /\ Parts(c) \in Int
         /\ \/ Parts(c) = 2 * Len(sent[c])
            \/ /\ Parts(c) = 2 * Len(sent[c]) - 1
               /\ Len(sent[c]) > 0
               /\ sent[c][Len(sent[c])] = "cut"
  BY DEF TypeOK, Parts

\* A request whose first part has been received has been sent.
LEMMA PartSent ==
  ASSUME IInv, NEW c \in Conn, rcvd[c] > 2 * used[c]
  PROVE  used[c] + 1 \in 1 .. Len(sent[c])
<1>1. rcvd[c] \in Nat /\ used[c] \in Nat /\ rcvd[c] <= Parts(c)
  BY DEF IInv, TypeOK, Counts
<1>2. Len(sent[c]) \in Nat /\ Parts(c) \in Int /\ Parts(c) <= 2 * Len(sent[c])
  BY PartsValue DEF IInv
<1> QED
  BY <1>1, <1>2

\* When nothing is left on the wire and no request is complete, every request
\* that was sent in full has been consumed.
LEMMA AllConsumed ==
  ASSUME IInv, NEW c \in Conn, rcvd[c] = Parts(c), rcvd[c] < 2 * (used[c] + 1),
         NEW i \in 1 .. Len(sent[c]), sent[c][i] \in {"rd", "wr"}
  PROVE  used[c] >= i
<1>1. rcvd[c] \in Nat /\ used[c] \in Nat
  BY DEF IInv, TypeOK
<1>2. CASE Parts(c) = 2 * Len(sent[c])
  BY <1>1, <1>2, PartsValue DEF IInv
<1>3. CASE Parts(c) = 2 * Len(sent[c]) - 1 /\ sent[c][Len(sent[c])] = "cut"
  <2>1. i # Len(sent[c])
    BY <1>3
  <2>2. Len(sent[c]) \in Nat
    BY PartsValue DEF IInv
  <2> QED
    BY <1>1, <1>3, <2>1, <2>2
<1> QED
  BY <1>2, <1>3, PartsValue DEF IInv

-----------------------------------------------------------------------------
\* The initial state satisfies the inductive invariant.
LEMMA InitIInv == Init => IInv
<1> SUFFICES ASSUME Init PROVE IInv
  OBVIOUS
<1>1. TypeOK
  <2>1. sent \in [Conn -> Seq(Kinds)] /\ replied \in [Conn -> Seq(Nat)]
    BY DEF Init
  <2>2. failed \subseteq Conn
    BY DEF Init
  <2> QED
    BY <2>1, <2>2 DEF Init, TypeOK
<1>2. Handled
  BY NamesAssumption DEF Init, Handled
<1>3. ASSUME NEW c \in Conn PROVE Counts(c) /\ Cause(c)
  <2>1. sent[c] = <<>> /\ rcvd[c] = 0 /\ used[c] = 0 /\ did[c] = 0 /\ conn[c] = "idle"
    BY DEF Init
  <2>2. Parts(c) = 0
    BY <2>1 DEF Parts
  <2> QED
    BY <2>1, <2>2 DEF Counts, Cause
<1> QED
  BY <1>1, <1>2, <1>3 DEF IInv

\* What a client does preserves the inductive invariant: it adds parts to the
\* wire, and a connection that is closed has no client sending on it.
LEMMA ClientIInv ==
  ASSUME IInv, NEW c \in Conn, ClientStep(c)
  PROVE  IInv'
<1> USE DEF IInv
<1>1. CASE Connect(c)
  <2>1. TypeOK'
    BY <1>1 DEF Connect, TypeOK
  <2>2. Handled'
    BY <1>1 DEF Connect, Handled, TypeOK
  <2>3. \A d \in Conn : Counts(d)' /\ (Cause(d) => Cause(d)')
    BY <1>1 DEF Connect, Counts, Cause, Parts, TypeOK
  <2> QED
    BY <1>1, <2>1, <2>2, <2>3 DEF Connect
<1>2. ASSUME NEW k \in Kinds, Send(c, k) PROVE IInv'
  <2>0. /\ UNCHANGED <<conn, shut, rcvd, got, used, pc, cur, did, replied, failed>>
        /\ sent[c] \in Seq(Kinds) /\ sent' = [sent EXCEPT ![c] = Append(sent[c], k)]
        /\ conn[c] \in {"backlog", "open"}
    BY <1>2 DEF Send, TypeOK
  <2>1. TypeOK'
    <3>1. sent' \in [Conn -> Seq(Kinds)]
      BY <2>0 DEF TypeOK
    <3> QED
      BY <2>0, <3>1 DEF TypeOK
  <2>2. Handled'
    BY <2>0 DEF Handled
  <2>3. Parts(c) <= Parts(c)' /\ Parts(c) \in Int /\ Parts(c)' \in Int
    <3>1. sent'[c] = Append(sent[c], k) /\ Len(sent'[c]) = Len(sent[c]) + 1
      BY <2>0 DEF TypeOK
    <3>2. /\ Parts(c) \in Int /\ Parts(c) <= 2 * Len(sent[c]) /\ Len(sent[c]) \in Nat
      BY PartsValue
    <3>3. Parts(c)' \in Int /\ Parts(c)' >= 2 * Len(sent'[c]) - 1
      BY <3>1, <3>2 DEF Parts
    <3> QED
      BY <3>1, <3>2, <3>3
  <2>4. \A d \in Conn \ {c} : sent'[d] = sent[d] /\ Parts(d)' = Parts(d)
    BY <2>0 DEF TypeOK, Parts
  <2>5. \A d \in Conn : rcvd[d] <= Parts(d)'
    <3>1. ASSUME NEW d \in Conn PROVE rcvd[d] <= Parts(d)'
      <4>1. rcvd[d] <= Parts(d) /\ rcvd[d] \in Nat
        BY DEF Counts, TypeOK
      <4>2. CASE d = c
        BY <2>3, <4>1, <4>2
      <4>3. CASE d # c
        BY <2>4, <4>1, <4>3
      <4> QED
        BY <4>2, <4>3
    <3> QED
      BY <3>1
  <2>6. \A d \in Conn : Counts(d)'
    BY <2>0, <2>5 DEF Counts
  <2>7. \A d \in Conn : Cause(d) => Cause(d)'
    BY <2>0, <2>4 DEF Cause
  <2> QED
    BY <2>0, <2>1, <2>2, <2>6, <2>7
<1>3. CASE ReadReply(c)
  <2>1. got' \in [Conn -> Nat]
    BY <1>3 DEF ReadReply, TypeOK
  <2>2. TypeOK' /\ Handled'
    <3>1. TypeOK'
      BY <1>3, <2>1 DEF ReadReply, TypeOK
    <3>2. Handled'
      BY <1>3 DEF ReadReply, Handled
    <3> QED
      BY <3>1, <3>2
  <2>3. \A d \in Conn : Counts(d)' /\ (Cause(d) => Cause(d)')
    BY <1>3 DEF ReadReply, Counts, Cause, Parts
  <2> QED
    BY <1>3, <2>2, <2>3 DEF ReadReply
<1>4. ASSUME NEW how \in {"fin", "rst"}, Shut(c, how) PROVE IInv'
  <2>1. TypeOK' /\ Handled'
    BY <1>4 DEF Shut, TypeOK, Handled
  <2>2. \A d \in Conn : Counts(d)' /\ (Cause(d) => Cause(d)')
    BY <1>4 DEF Shut, Counts, Cause, Parts, TypeOK
  <2> QED
    BY <1>4, <2>1, <2>2 DEF Shut
<1> QED
  BY <1>1, <1>2, <1>3, <1>4 DEF ClientStep, Kinds

\* A connection closed for a cause leaves the invariant intact.
LEMMA CloseIInv ==
  ASSUME IInv, pc \in {"recv", "device", "reply"}, CloseConn,
         NEW c \in Conn, c = cur,
         UNCHANGED <<sent, shut, rcvd, got, used, did, replied>>,
         failed \subseteq failed', failed' \subseteq Conn,
         Cause(c)'
  PROVE  IInv'
<1> USE DEF IInv
<1>0. /\ cur \in Conn /\ conn' = [conn EXCEPT ![cur] = "gone"]
      /\ cur' = Nobody /\ pc' = "accept"
  BY DEF CloseConn, Handled
<1>1. TypeOK'
  BY <1>0 DEF TypeOK
<1>2. Handled'
  BY <1>0, NamesAssumption DEF Handled, TypeOK
<1>3. \A d \in Conn : Counts(d)'
  <2>1. ASSUME NEW d \in Conn PROVE Counts(d)'
    <3>1. Counts(d) /\ Parts(d)' = Parts(d) /\ conn'[d] # "open"
          /\ (conn'[d] \in {"idle", "backlog"} => conn'[d] = conn[d])
      BY <1>0 DEF Parts, TypeOK, Handled
    <3> QED
      BY <3>1 DEF Counts
  <2> QED
    BY <2>1
<1>4. \A d \in Conn : Cause(d)'
  <2>1. ASSUME NEW d \in Conn, d # c PROVE Cause(d)'
    <3>1. conn'[d] = conn[d] /\ Cause(d)
      BY <1>0, <2>1 DEF TypeOK
    <3> QED
      BY <3>1 DEF Cause
  <2> QED
    BY <2>1
<1> QED
  BY <1>1, <1>2, <1>3, <1>4

\* The server's steps preserve the inductive invariant.
LEMMA ServerIInv ==
  ASSUME IInv, ServerStep
  PROVE  IInv'
<1> USE DEF IInv
<1>1. ASSUME NEW c \in Conn, Accept(c) PROVE IInv'
  <2>1. TypeOK' /\ Handled'
    BY <1>1, NamesAssumption DEF Accept, TypeOK, Handled
  <2>2. \A d \in Conn : Counts(d)' /\ (Cause(d) => Cause(d)')
    BY <1>1, NamesAssumption DEF Accept, Counts, Cause, Parts, TypeOK, Handled
  <2> QED
    BY <1>1, <2>1, <2>2 DEF Accept
<1>2. CASE RecvPart
  <2>0. /\ cur \in Conn /\ rcvd' = [rcvd EXCEPT ![cur] = rcvd[cur] + 1]
        /\ rcvd[cur] \in Nat /\ rcvd[cur] < Parts(cur)
        /\ UNCHANGED <<conn, sent, shut, got, used, pc, cur, did, replied, failed>>
        /\ pc = "recv"
    BY <1>2 DEF RecvPart, Handled, TypeOK
  <2>1. rcvd' \in [Conn -> Nat]
    BY <2>0 DEF TypeOK
  <2>2. TypeOK' /\ Handled'
    BY <2>0, <2>1 DEF TypeOK, Handled
  <2>3. \A d \in Conn : Parts(d)' = Parts(d) /\ Parts(d) \in Int
    BY <2>0, PartsValue DEF Parts
  <2>4. \A d \in Conn : rcvd'[d] <= Parts(d) /\ rcvd'[d] >= rcvd[d]
    <3> SUFFICES ASSUME NEW d \in Conn PROVE rcvd'[d] <= Parts(d) /\ rcvd'[d] >= rcvd[d]
      OBVIOUS
    <3>1. rcvd[d] \in Nat /\ rcvd[d] <= Parts(d) /\ Parts(d) \in Int
      BY <2>3 DEF TypeOK, Counts
    <3>2. rcvd'[d] = IF d = cur THEN rcvd[cur] + 1 ELSE rcvd[d]
      BY <2>0 DEF TypeOK
    <3> QED
      BY <2>0, <3>1, <3>2
  <2>5. \A d \in Conn : rcvd[d] \in Nat /\ rcvd'[d] \in Nat /\ used[d] \in Nat
    BY <2>1 DEF TypeOK
  <2>6. \A d \in Conn : Counts(d)'
    BY <2>0, <2>3, <2>4, <2>5 DEF Counts
  <2>7. \A d \in Conn : Cause(d) => Cause(d)'
    BY <2>0 DEF Cause
  <2> QED
    BY <2>0, <2>2, <2>6, <2>7
<1>3. CASE RecvFails
  <2> PICK c \in Conn : c = cur
    BY <1>3 DEF RecvFails, Handled
  <2>0. pc = "recv" /\ did[c] = used[c]
    BY <1>3 DEF RecvFails, Handled, Counts
  <2>1. Cause(c)'
    <3>1. UNCHANGED <<sent, shut, did, failed>>
      BY <1>3 DEF RecvFails
    <3>2. CASE shut[c] = "rst"
      BY <3>1, <3>2 DEF Cause
    <3>3. CASE shut[c] = "fin" /\ rcvd[c] = Parts(c)
      <4>1. rcvd[c] < 2 * (used[c] + 1)
        BY <1>3 DEF RecvFails
      <4>2. \A i \in 1 .. Len(sent[c]) : sent[c][i] \in {"rd", "wr"} => did[c] >= i
        BY <2>0, <3>3, <4>1, AllConsumed
      <4> QED
        BY <3>1, <3>3, <4>2 DEF Cause
    <3> QED
      BY <1>3, <3>2, <3>3 DEF RecvFails
  <2> QED
    BY <1>3, <2>0, <2>1, CloseIInv DEF RecvFails, TypeOK
<1>4. CASE CloseMalformed
  <2> PICK c \in Conn : c = cur
    BY <1>4 DEF CloseMalformed, Handled
  <2>0. pc = "recv" /\ rcvd[c] = 2 * used[c] + 1 /\ sent[c][used[c] + 1] = "bad" /\ used[c] \in Nat
    BY <1>4 DEF CloseMalformed, Malformed, TypeOK
  <2>1. used[c] + 1 \in 1 .. Len(sent[c])
    BY <2>0, PartSent
  <2>2. Cause(c)'
    BY <1>4, <2>0, <2>1 DEF CloseMalformed, Cause
  <2> QED
    BY <1>4, <2>0, <2>2, CloseIInv DEF CloseMalformed, TypeOK
<1>5. CASE Dispatch
  <2>0. /\ cur \in Conn /\ conn[cur] = "open" /\ used[cur] \in Nat /\ pc = "recv"
        /\ used' = [used EXCEPT ![cur] = used[cur] + 1] /\ pc' = "device"
        /\ rcvd[cur] = 2 * (used[cur] + 1) /\ did[cur] = used[cur]
        /\ UNCHANGED <<conn, sent, shut, rcvd, got, cur, did, replied, failed>>
    BY <1>5 DEF Dispatch, Handled, TypeOK, Counts
  <2>1. used' \in [Conn -> Nat]
    BY <2>0 DEF TypeOK
  <2>2. TypeOK' /\ Handled'
    BY <2>0, <2>1 DEF TypeOK, Handled
  <2>3. \A d \in Conn : Counts(d)'
    <3>1. ASSUME NEW d \in Conn, d = cur PROVE Counts(d)'
      <4>1. used'[d] = used[d] + 1 /\ Parts(d)' = Parts(d) /\ Counts(d)
        BY <2>0, <3>1 DEF TypeOK, Parts
      <4>2. /\ used[d] \in Nat /\ rcvd'[d] = 2 * (used[d] + 1) /\ conn'[d] = "open"
            /\ did'[d] = used[d] /\ pc' = "device"
        BY <2>0, <3>1
      <4>3. rcvd'[d] <= Parts(d)'
        BY <2>0, <4>1 DEF Counts
      <4>4. 2 * used'[d] <= rcvd'[d] /\ did'[d] = used'[d] - 1
        BY <4>1, <4>2
      <4> QED
        BY <4>2, <4>3, <4>4 DEF Counts
    <3>2. ASSUME NEW d \in Conn, d # cur PROVE Counts(d)'
      <4>1. used'[d] = used[d] /\ Parts(d)' = Parts(d) /\ Counts(d) /\ conn[d] # "open"
        BY <2>0, <3>2 DEF TypeOK, Parts, Handled
      <4> QED
        BY <2>0, <4>1 DEF Counts
    <3> QED
      BY <3>1, <3>2
  <2>4. \A d \in Conn : Cause(d) => Cause(d)'
    BY <2>0 DEF Cause
  <2> QED
    BY <2>0, <2>2, <2>3, <2>4
<1>6. CASE DeviceDone
  <2>0. /\ cur \in Conn /\ conn[cur] = "open" /\ pc = "device"
        /\ did' = [did EXCEPT ![cur] = did[cur] + 1] /\ pc' \in {"reply", "recv"}
        /\ did[cur] \in Nat /\ used[cur] \in Nat /\ did[cur] = used[cur] - 1
        /\ UNCHANGED <<conn, sent, shut, rcvd, got, used, cur, replied, failed>>
    BY <1>6 DEF DeviceDone, Handled, TypeOK, Counts
  <2>1. did' \in [Conn -> Nat]
    BY <2>0 DEF TypeOK
  <2>2. TypeOK' /\ Handled'
    BY <2>0, <2>1 DEF TypeOK, Handled
  <2>3. \A d \in Conn : Counts(d)'
    <3>1. ASSUME NEW d \in Conn PROVE Counts(d)'
      <4>1. Parts(d)' = Parts(d) /\ Counts(d)
            /\ did'[d] = (IF d = cur THEN used[d] ELSE did[d])
            /\ (conn[d] = "open" <=> d = cur)
        BY <2>0 DEF TypeOK, Parts, Handled
      <4> QED
        BY <2>0, <4>1 DEF Counts
    <3> QED
      BY <3>1
  <2>4. \A d \in Conn : Cause(d) => Cause(d)'
    <3>1. ASSUME NEW d \in Conn, Cause(d) PROVE Cause(d)'
      <4>1. conn[d] = "gone" => did'[d] = did[d]
        BY <2>0 DEF TypeOK
      <4> QED
        BY <2>0, <3>1, <4>1 DEF Cause
    <3> QED
      BY <3>1
  <2> QED
    BY <2>0, <2>2, <2>3, <2>4
<1>7. CASE DeviceFail \/ ReplyFail
  <2>0. /\ cur \in Conn /\ pc \in {"device", "reply"} /\ CloseConn
        /\ failed' = failed \cup {cur} /\ UNCHANGED <<sent, shut, rcvd, got, used, did, replied>>
    BY <1>7 DEF DeviceFail, ReplyFail, Handled
  <2>1. ASSUME NEW c \in Conn, c = cur PROVE Cause(c)'
    BY <2>0, <2>1 DEF Cause
  <2>2. failed \subseteq failed' /\ failed' \subseteq Conn
    BY <2>0 DEF TypeOK
  <2> QED
    BY <2>0, <2>1, <2>2, CloseIInv
<1>8. CASE Reply
  <2>0. /\ cur \in Conn /\ pc = "reply" /\ pc' = "recv"
        /\ replied' = [replied EXCEPT ![cur] = Append(replied[cur], used[cur])]
        /\ replied[cur] \in Seq(Nat) /\ used[cur] \in Nat
        /\ UNCHANGED <<conn, sent, shut, rcvd, got, used, cur, did, failed>>
    BY <1>8 DEF Reply, Handled, TypeOK
  <2>1. replied' \in [Conn -> Seq(Nat)]
    BY <2>0 DEF TypeOK
  <2>2. TypeOK' /\ Handled'
    BY <2>0, <2>1 DEF TypeOK, Handled
  <2>3. \A d \in Conn : Counts(d)' /\ (Cause(d) => Cause(d)')
    BY <2>0 DEF Counts, Cause, Parts
  <2> QED
    BY <2>0, <2>2, <2>3
<1> QED
  BY <1>1, <1>2, <1>3, <1>4, <1>5, <1>6, <1>7, <1>8 DEF ServerStep

\* A cancelled server closes everything.
LEMMA CancelIInv ==
  ASSUME IInv, Cancel
  PROVE  IInv'
<1> USE DEF IInv
<1>1. TypeOK' /\ Handled'
  BY DEF Cancel, TypeOK, Handled
<1>2. \A d \in Conn : Counts(d)'
  <2>1. ASSUME NEW d \in Conn PROVE Counts(d)'
    <3>1. Counts(d) /\ Parts(d)' = Parts(d) /\ conn'[d] \in {"idle", "gone"}
          /\ (conn'[d] = "idle" => conn[d] = "idle")
      BY DEF Cancel, Parts, TypeOK
    <3> QED
      BY <3>1 DEF Cancel, Counts
  <2> QED
    BY <2>1
<1> QED
  BY <1>1, <1>2 DEF Cancel

\* Every step preserves the inductive invariant.
LEMMA NextIInv == IInv /\ [Next]_vars => IInv'
<1> SUFFICES ASSUME IInv, [Next]_vars PROVE IInv'
  OBVIOUS
<1>1. CASE UNCHANGED vars
  <2>1. UNCHANGED <<TypeOK, Handled>>
    BY <1>1 DEF vars, TypeOK, Handled
  <2>2. \A c \in Conn : Counts(c)' = Counts(c) /\ Cause(c)' = Cause(c)
    BY <1>1 DEF vars, Counts, Cause, Parts
  <2> QED
    BY <1>1, <2>1, <2>2 DEF IInv, vars
<1> QED
  BY <1>1, ClientIInv, ServerIInv, CancelIInv DEF Next

\* The bookkeeping of the connections holds in every state.
LEMMA SpecIInv == Spec => []IInv
  BY InitIInv, NextIInv, PTL DEF Spec

\* At most one connection is handled, and the server closes one only if
\* something failed for it, it sent a malformed head, or it had ended; one that
\* ended by itself has had all its complete requests carried out.
THEOREM SingleClosesForCause == Spec => []ClosedForCause
<1>1. IInv => ClosedForCause
  BY DEF IInv, Handled, Cause, ClosedForCause
<1> QED
  BY <1>1, SpecIInv, PTL

-----------------------------------------------------------------------------
\* Every step is a step of RegioService or changes nothing that it sees.
LEMMA StepImplements ==
  ASSUME IInv, IInv', Next
  PROVE  Service!Next \/ UNCHANGED Service!vars
<1>0. TypeOK /\ Handled /\ \A c \in Conn : Counts(c)
  BY DEF IInv
<1>1. ASSUME NEW c \in Conn, ClientStep(c) PROVE Service!Next \/ UNCHANGED Service!vars
  <2>1. ASSUME NEW k \in Kinds, Send(c, k) PROVE Service!Send(c, k)
    BY <2>1 DEF Send, Service!Send, Serving, Stage, Lost
  <2>2. CASE Connect(c) \/ ReadReply(c) \/ \E how \in {"fin", "rst"} : Shut(c, how)
    <3>1. UNCHANGED <<sent, did, replied, pc, cur>>
      BY <2>2 DEF Connect, ReadReply, Shut
    <3>2. \A d \in Conn : conn'[d] = "gone" <=> conn[d] = "gone"
      BY <1>0, <2>2 DEF Connect, ReadReply, Shut, TypeOK
    <3> QED
      BY <3>1, <3>2 DEF Service!vars, Serving, Stage, Lost
  <2> QED
    BY <1>1, <2>1, <2>2 DEF ClientStep, Service!Next, Kinds
<1>2. CASE (\E c \in Conn : Accept(c)) \/ RecvPart
  <2>1. UNCHANGED <<sent, did, replied>> /\ pc' = "recv" /\ pc \in {"accept", "recv"}
    BY <1>2 DEF Accept, RecvPart
  <2>2. \A d \in Conn : conn'[d] = "gone" <=> conn[d] = "gone"
    BY <1>0, <1>2 DEF Accept, RecvPart, TypeOK
  <2> QED
    BY <2>1, <2>2 DEF Service!vars, Serving, Stage, Lost
<1>3. CASE RecvFails \/ CloseMalformed \/ DeviceFail \/ ReplyFail
  <2>1. /\ cur \in Conn /\ pc \in {"recv", "device", "reply"} /\ pc' = "accept"
        /\ conn' = [conn EXCEPT ![cur] = "gone"] /\ UNCHANGED <<sent, did, replied>>
    BY <1>0, <1>3 DEF RecvFails, CloseMalformed, DeviceFail, ReplyFail, CloseConn, Handled
  <2>2. Lost' = Lost \cup {cur}
    BY <1>0, <2>1 DEF Lost, TypeOK
  <2>3. Serving' = Nobody /\ Stage' = "free" /\ (Serving = cur \/ (Serving = Nobody /\ Stage = "free"))
    BY <2>1 DEF Serving, Stage
  <2>4. Service!GiveUp({cur})
    BY <2>1, <2>2, <2>3 DEF Service!GiveUp
  <2>5. {cur} \in SUBSET Conn
    BY <2>1
  <2> QED
    BY <2>4, <2>5 DEF Service!Next
<1>4. CASE Dispatch
  <2>1. /\ cur \in Conn /\ conn[cur] = "open" /\ did[cur] = used[cur] /\ used[cur] \in Nat
        /\ pc = "recv" /\ pc' = "device" /\ UNCHANGED <<conn, sent, did, replied, cur>>
        /\ rcvd[cur] > 2 * used[cur] /\ sent[cur][used[cur] + 1] \in {"rd", "wr"}
    BY <1>0, <1>4 DEF Dispatch, Handled, Counts, TypeOK
  <2>2. did[cur] < Len(sent[cur])
    BY <2>1, PartSent
  <2>3. Service!Begin(cur)
    BY <2>1, <2>2 DEF Service!Begin, Serving, Stage, Lost
  <2> QED
    BY <2>1, <2>3 DEF Service!Next
<1>5. CASE DeviceDone
  <2>1. /\ cur \in Conn /\ did[cur] + 1 = used[cur] /\ pc = "device"
        /\ did' = [did EXCEPT ![cur] = did[cur] + 1]
        /\ pc' = (IF sent[cur][used[cur]] = "rd" THEN "reply" ELSE "recv")
        /\ UNCHANGED <<conn, sent, replied, cur>>
    BY <1>0, <1>5 DEF DeviceDone, Handled, Counts, TypeOK
  <2>2. Service!Finish(cur)
    BY <2>1 DEF Service!Finish, Serving, Stage, Lost
  <2> QED
    BY <2>1, <2>2 DEF Service!Next
<1>6. CASE Reply
  <2>1. /\ cur \in Conn /\ did[cur] = used[cur] /\ pc = "reply" /\ pc' = "recv"
        /\ replied' = [replied EXCEPT ![cur] = Append(replied[cur], used[cur])]
        /\ UNCHANGED <<conn, sent, did, cur>>
    BY <1>0, <1>6 DEF Reply, Handled, Counts
  <2>2. Service!Answer(cur)
    BY <2>1 DEF Service!Answer, Serving, Stage, Lost
  <2> QED
    BY <2>1, <2>2 DEF Service!Next
<1>7. CASE Cancel
  <2> DEFINE D == {c \in Conn : conn[c] # "idle"}
  <2>1. cur \in Conn /\ pc = "device" /\ pc' = "down" /\ UNCHANGED <<sent, did, replied>>
        /\ conn[cur] = "open"
    BY <1>0, <1>7 DEF Cancel, Handled
  <2>2. Lost' = Lost \cup D
    BY <1>7 DEF Cancel, Lost
  <2>3. Service!GiveUp(D)
    BY <2>1, <2>2 DEF Service!GiveUp, Serving, Stage
  <2> QED
    BY <2>3 DEF Service!Next
<1> QED
  BY <1>1, <1>2, <1>3, <1>4, <1>5, <1>6, <1>7 DEF Next, ServerStep

\* The single-client server implements the service, for any number of
\* connections and requests.
THEOREM SingleImplementsService == Spec => ImplementsService
<1>1. Init => Service!Init
  BY DEF Init, Service!Init, Serving, Stage, Lost
<1>2. IInv /\ IInv' /\ [Next]_vars => [Service!Next]_(Service!vars)
  <2>1. UNCHANGED vars => UNCHANGED Service!vars
    BY DEF vars, Service!vars, Serving, Stage, Lost
  <2> QED
    BY <2>1, StepImplements
<1> QED
  BY <1>1, <1>2, SpecIInv, PTL DEF Spec, Service!Spec, ImplementsService
=============================================================================
