------------------------ MODULE RegioTcpServerSingle ------------------------
(***************************************************************************)
(* RegioTcpServer of tcp_server_single.py: it accepts one connection and   *)
(* handles it until it ends; all others wait in the backlog meanwhile.     *)
(* Its sockets block, so nothing else of its process runs while it waits.  *)
(* The wire is the one of RegioTcpServer: a request is two parts.          *)
(***************************************************************************)
EXTENDS Integers, Sequences

CONSTANTS
  Conn,     \* connections
  Nobody,   \* no connection
  MaxReq,   \* bound: requests per connection
  Window    \* replies that fit the socket buffers towards a client

ASSUME NamesAssumption == Nobody \notin Conn
ASSUME BoundAssumption == MaxReq \in Nat /\ Window \in Nat \ {0}

VARIABLES
  conn,      \* "idle", "backlog", "open", "gone"
  sent,      \* the requests sent: "rd", "wr", "bad" (malformed head), "cut" (half a request)
  shut,      \* the client's end: "no", "fin" (closed), "rst" (reset)
  rcvd,      \* parts received
  got,       \* replies the client has read
  used,      \* requests received in full
  pc,        \* "accept", "recv", "device", "reply", "down"
  cur,       \* the connection being handled
  did,       \* requests the device has carried out
  replied,   \* numbers of the requests answered
  failed     \* the clients for whom the device or the sending of a reply has failed

vars == <<conn, sent, shut, rcvd, got, used, pc, cur, did, replied, failed>>

Parts(c) == 2 * Len(sent[c])
            - (IF Len(sent[c]) > 0 /\ sent[c][Len(sent[c])] = "cut" THEN 1 ELSE 0)

\* A whole head has been received and it is malformed.
Malformed(c) == rcvd[c] = 2 * used[c] + 1 /\ sent[c][used[c] + 1] = "bad"

Init ==
  /\ conn = [c \in Conn |-> "idle"]
  /\ sent = [c \in Conn |-> <<>>]
  /\ shut = [c \in Conn |-> "no"]
  /\ rcvd = [c \in Conn |-> 0]
  /\ got = [c \in Conn |-> 0]
  /\ used = [c \in Conn |-> 0]
  /\ pc = "accept"
  /\ cur = Nobody
  /\ did = [c \in Conn |-> 0]
  /\ replied = [c \in Conn |-> <<>>]
  /\ failed = {}

-----------------------------------------------------------------------------
(* The clients and the network, as for RegioTcpServer. *)

Connect(c) ==
  /\ conn[c] = "idle"
  /\ pc # "down"
  /\ conn' = [conn EXCEPT ![c] = "backlog"]
  /\ UNCHANGED <<sent, shut, rcvd, got, used, pc, cur, did, replied, failed>>

Send(c, k) ==
  /\ conn[c] \in {"backlog", "open"}
  /\ shut[c] = "no"
  /\ Len(sent[c]) < MaxReq
  /\ ~\E i \in 1 .. Len(sent[c]) : sent[c][i] = "cut"
  /\ sent' = [sent EXCEPT ![c] = Append(@, k)]
  /\ UNCHANGED <<conn, shut, rcvd, got, used, pc, cur, did, replied, failed>>

ReadReply(c) ==
  /\ shut[c] = "no"
  /\ got[c] < Len(replied[c])
  /\ got' = [got EXCEPT ![c] = @ + 1]
  /\ UNCHANGED <<conn, sent, shut, rcvd, used, pc, cur, did, replied, failed>>

Shut(c, how) ==
  /\ conn[c] \in {"backlog", "open"}
  /\ shut[c] = "no"
  /\ shut' = [shut EXCEPT ![c] = how]
  /\ UNCHANGED <<conn, sent, rcvd, got, used, pc, cur, did, replied, failed>>

ClientStep(c) ==
  \/ Connect(c)
  \/ \E k \in {"rd", "wr", "bad", "cut"} : Send(c, k)
  \/ ReadReply(c)
  \/ \E how \in {"fin", "rst"} : Shut(c, how)

-----------------------------------------------------------------------------
(* The server. *)

Accept(c) ==
  /\ pc = "accept"
  /\ conn[c] = "backlog"
  /\ conn' = [conn EXCEPT ![c] = "open"]
  /\ cur' = c
  /\ pc' = "recv"
  /\ UNCHANGED <<sent, shut, rcvd, got, used, did, replied, failed>>

\* conn.close() and back to accept.
CloseConn ==
  /\ conn' = [conn EXCEPT ![cur] = "gone"]
  /\ cur' = Nobody
  /\ pc' = "accept"

\* _recv_exact, the next part of the request.
RecvPart ==
  /\ pc = "recv"
  /\ shut[cur] # "rst"
  /\ rcvd[cur] < 2 * (used[cur] + 1)
  /\ ~Malformed(cur)
  /\ rcvd[cur] < Parts(cur)
  /\ rcvd' = [rcvd EXCEPT ![cur] = @ + 1]
  /\ UNCHANGED <<conn, sent, shut, got, used, pc, cur, did, replied, failed>>

\* Mutant: an EOF is noticed before what came ahead of it is read.
RecvFails_Early ==
  /\ pc = "recv"
  /\ shut[cur] # "no"
  /\ CloseConn
  /\ UNCHANGED <<sent, shut, rcvd, got, used, did, replied, failed>>

\* Mutant: EOF in the middle of a request is not noticed.
RecvFails_HeadOnly ==
  /\ pc = "recv"
  /\ shut[cur] = "rst" \/ (shut[cur] = "fin" /\ rcvd[cur] = Parts(cur))
  /\ rcvd[cur] = 2 * used[cur]
  /\ CloseConn
  /\ UNCHANGED <<sent, shut, rcvd, got, used, did, replied, failed>>

\* _recv_exact raises: EOF in a head or in a payload, or the connection reset.
RecvFails ==
  /\ pc = "recv"
  /\ shut[cur] = "rst" \/ (shut[cur] = "fin" /\ rcvd[cur] = Parts(cur))
  /\ rcvd[cur] < 2 * (used[cur] + 1)
  /\ ~Malformed(cur)
  /\ CloseConn
  /\ UNCHANGED <<sent, shut, rcvd, got, used, did, replied, failed>>

CloseMalformed ==
  /\ pc = "recv"
  /\ Malformed(cur)
  /\ CloseConn
  /\ UNCHANGED <<sent, shut, rcvd, got, used, did, replied, failed>>

\* The request is complete: the device is awaited.
Dispatch ==
  /\ pc = "recv"
  /\ rcvd[cur] = 2 * (used[cur] + 1)
  /\ sent[cur][used[cur] + 1] \in {"rd", "wr"}
  /\ used' = [used EXCEPT ![cur] = @ + 1]
  /\ pc' = "device"
  /\ UNCHANGED <<conn, sent, shut, rcvd, got, cur, did, replied, failed>>

\* Mutant: writes are answered too.
DeviceDone_AnswersWrites ==
  /\ pc = "device"
  /\ did' = [did EXCEPT ![cur] = @ + 1]
  /\ pc' = "reply"
  /\ UNCHANGED <<conn, sent, shut, rcvd, got, used, cur, replied, failed>>

DeviceDone ==
  /\ pc = "device"
  /\ did' = [did EXCEPT ![cur] = @ + 1]
  /\ pc' = IF sent[cur][used[cur]] = "rd" THEN "reply" ELSE "recv"
  /\ UNCHANGED <<conn, sent, shut, rcvd, got, used, cur, replied, failed>>

\* The awaited operation raises (a short read too: Regio._read asserts).
DeviceFail ==
  /\ pc = "device"
  /\ failed' = failed \cup {cur}
  /\ CloseConn
  /\ UNCHANGED <<sent, shut, rcvd, got, used, did, replied>>

Reply ==
  /\ pc = "reply"
  /\ shut[cur] # "rst"
  /\ Len(replied[cur]) - got[cur] < Window
  /\ replied' = [replied EXCEPT ![cur] = Append(@, used[cur])]
  /\ pc' = "recv"
  /\ UNCHANGED <<conn, sent, shut, rcvd, got, used, cur, did, failed>>

ReplyFail ==
  /\ pc = "reply"
  /\ shut[cur] # "no"
  /\ failed' = failed \cup {cur}
  /\ CloseConn
  /\ UNCHANGED <<sent, shut, rcvd, got, used, did, replied>>

\* The task is cancelled at the device, its only await: both sockets close.
Cancel ==
  /\ pc = "device"
  /\ conn' = [c \in Conn |-> IF conn[c] = "idle" THEN "idle" ELSE "gone"]
  /\ pc' = "down"
  /\ UNCHANGED <<sent, shut, rcvd, got, used, cur, did, replied, failed>>

ServerStep ==
  \/ \E c \in Conn : Accept(c)
  \/ RecvPart \/ RecvFails \/ CloseMalformed \/ Dispatch
  \/ DeviceDone \/ DeviceFail \/ Reply \/ ReplyFail

Next ==
  \/ \E c \in Conn : ClientStep(c)
  \/ ServerStep
  \/ Cancel

Spec == Init /\ [][Next]_vars

\* The device answers and the server runs; clients read their replies, and
\* each of them ends its connection some day.
FairSpec ==
  /\ Spec
  /\ WF_vars(ServerStep)
  /\ \A c \in Conn : WF_vars(ReadReply(c)) /\ WF_vars(Shut(c, "fin"))

-----------------------------------------------------------------------------
\* At most one connection is handled, and a connection that is closed while the
\* server runs had a failure of its own, a malformed head, a reset, or had ended
\* with every complete request carried out.
ClosedForCause ==
  pc # "down" =>
    \A c \in Conn :
      /\ conn[c] = "open" <=> cur = c
      /\ conn[c] = "gone" =>
           \/ c \in failed
           \/ \E i \in 1 .. Len(sent[c]) : sent[c][i] = "bad"
           \/ shut[c] = "rst"
           \/ /\ shut[c] = "fin"
              /\ \A i \in 1 .. Len(sent[c]) : sent[c][i] \in {"rd", "wr"} => did[c] >= i

Serving == IF pc \in {"device", "reply"} THEN cur ELSE Nobody
Stage == IF pc = "device" THEN "run" ELSE IF pc = "reply" THEN "answer" ELSE "free"
Lost == {c \in Conn : conn[c] = "gone"}

Service == INSTANCE RegioService WITH serving <- Serving, stage <- Stage, lost <- Lost

\* The single-client server keeps the same promise as the multi-client one.
ImplementsService == Service!Spec

\* When every client ends its connection some day, every request sent is
\* carried out, or its connection is closed: nobody waits in the backlog for ever.
Served ==
  \A c \in Conn : \A i \in 1 .. MaxReq :
    (Len(sent[c]) >= i) ~> (did[c] >= i \/ conn[c] = "gone")
=============================================================================
