--------------------------- MODULE RegioTcpServer ---------------------------
(***************************************************************************)
(* RegioTcpServer of tcp_server_async_multi.py: one task serves all        *)
(* connections.  A pass of its loop selects the sockets that are ready,    *)
(* accepts and receives, then processes the requests each connection has   *)
(* buffered, awaiting the device for each, and yields.                     *)
(*                                                                         *)
(* A request travels as two parts (the head of a write and its payload, or *)
(* two halves of the head of a read) and TCP may deliver them apart.       *)
(***************************************************************************)
EXTENDS Integers, Sequences, FiniteSets

CONSTANTS
  Conn,     \* connections; a client that reconnects is another connection
  Nobody,   \* no connection
  Listen,   \* the event of the listening socket
  Sends,    \* bound: the kinds of requests each connection sends
  MaxReq,   \* bound: how many of them
  Window    \* replies that fit the socket buffers towards a client

ASSUME ConnAssumption == IsFiniteSet(Conn)
ASSUME NamesAssumption == Nobody \notin Conn /\ Listen \notin Conn
ASSUME BoundAssumption ==
  /\ Sends \in [Conn -> SUBSET {"rd", "wr", "bad", "cut"}]
  /\ MaxReq \in [Conn -> Nat]
  /\ Window \in Nat \ {0}

VARIABLES
  conn,      \* "idle", "backlog", "open" (registered), "gone" (dropped or refused)
  sent,      \* the requests sent: "rd", "wr", "bad" (malformed head), "cut" (half a request)
  shut,      \* the client's end: "no", "fin" (closed), "rst" (reset)
  rcvd,      \* parts the server has received
  got,       \* replies the client has read
  clients,   \* the dict of clients
  order,     \* per connection, when it was put there: the dict's order
  used,      \* requests taken out of the client's buf
  pc,        \* "select", "events", "process", "device", "reply", "yield", "down"
  ready,     \* events of this pass not yet handled
  todo,      \* clients of this pass not yet processed
  cur,       \* the client being processed
  stopped,   \* _stopped
  did,       \* requests the device has carried out
  replied,   \* numbers of the requests answered
  failed     \* the clients for whom the device or the sending of a reply has failed

net == <<sent, shut, got>>
dev == <<did, replied, failed>>
vars == <<conn, sent, shut, rcvd, got, clients, order, used, pc, ready, todo, cur, stopped,
          did, replied, failed>>

\* The parts client c has put on the wire.
Parts(c) == 2 * Len(sent[c])
            - (IF Len(sent[c]) > 0 /\ sent[c][Len(sent[c])] = "cut" THEN 1 ELSE 0)

\* The next request in the buffer of c is there in full, or its head is malformed.
Complete(c) == /\ rcvd[c] >= 2 * (used[c] + 1)
               /\ sent[c][used[c] + 1] \in {"rd", "wr"}
Malformed(c) == /\ rcvd[c] >= 2 * used[c] + 1
                /\ sent[c][used[c] + 1] = "bad"

Init ==
  /\ conn = [c \in Conn |-> "idle"]
  /\ sent = [c \in Conn |-> <<>>]
  /\ shut = [c \in Conn |-> "no"]
  /\ rcvd = [c \in Conn |-> 0]
  /\ got = [c \in Conn |-> 0]
  /\ clients = {}
  /\ order = [c \in Conn |-> 0]
  /\ used = [c \in Conn |-> 0]
  /\ pc = "select"
  /\ ready = {}
  /\ todo = {}
  /\ cur = Nobody
  /\ stopped = FALSE
  /\ did = [c \in Conn |-> 0]
  /\ replied = [c \in Conn |-> <<>>]
  /\ failed = {}

-----------------------------------------------------------------------------
(* The clients and the network. *)

Connect(c) ==
  /\ conn[c] = "idle"
  /\ pc # "down"
  /\ conn' = [conn EXCEPT ![c] = "backlog"]
  /\ UNCHANGED <<net, rcvd, clients, order, used, pc, ready, todo, cur, stopped, dev>>

Send(c, k) ==
  /\ conn[c] \in {"backlog", "open"}
  /\ shut[c] = "no"
  /\ Len(sent[c]) < MaxReq[c]
  /\ ~\E i \in 1 .. Len(sent[c]) : sent[c][i] = "cut"
  /\ sent' = [sent EXCEPT ![c] = Append(@, k)]
  /\ UNCHANGED <<conn, shut, rcvd, got, clients, order, used, pc, ready, todo, cur, stopped, dev>>

ReadReply(c) ==
  /\ shut[c] = "no"
  /\ got[c] < Len(replied[c])
  /\ got' = [got EXCEPT ![c] = @ + 1]
  /\ UNCHANGED <<conn, sent, shut, rcvd, clients, order, used, pc, ready, todo, cur, stopped, dev>>

Shut(c, how) ==
  /\ conn[c] \in {"backlog", "open"}
  /\ shut[c] = "no"
  /\ shut' = [shut EXCEPT ![c] = how]
  /\ UNCHANGED <<conn, sent, rcvd, got, clients, order, used, pc, ready, todo, cur, stopped, dev>>

ClientStep(c) ==
  \/ Connect(c)
  \/ \E k \in Sends[c] : Send(c, k)
  \/ ReadReply(c)
  \/ \E how \in {"fin", "rst"} : Shut(c, how)

-----------------------------------------------------------------------------
(* The server. *)

\* Mutant: the client is closed but stays in the dict.
Drop_StaysInDict(c) ==
  /\ conn' = [conn EXCEPT ![c] = "gone"]
  /\ UNCHANGED clients

\* _drop_client
Drop(c) ==
  /\ conn' = [conn EXCEPT ![c] = "gone"]
  /\ clients' = clients \ {c}

\* The sockets select reports.
Events ==
  {c \in Conn : conn[c] = "open" /\ (rcvd[c] < Parts(c) \/ shut[c] # "no")}
  \cup (IF \E c \in Conn : conn[c] = "backlog" THEN {Listen} ELSE {})

Select ==
  /\ pc = "select"
  /\ ready' = Events
  /\ pc' = "events"
  /\ UNCHANGED <<conn, net, rcvd, clients, order, used, todo, cur, stopped, dev>>

\* _accept: one connection of the backlog; accept fails on a reset one.
Accept(c) ==
  /\ pc = "events"
  /\ Listen \in ready
  /\ conn[c] = "backlog"
  /\ ready' = ready \ {Listen}
  /\ \/ /\ conn' = [conn EXCEPT ![c] = "open"]
        /\ clients' = clients \cup {c}
        /\ order' = [order EXCEPT ![c] = 1 + Cardinality({d \in Conn : order[d] > 0})]
     \/ /\ shut[c] = "rst"
        /\ conn' = [conn EXCEPT ![c] = "gone"]
        /\ UNCHANGED <<clients, order>>
  /\ UNCHANGED <<net, rcvd, used, pc, todo, cur, stopped, dev>>

\* Mutant: a closed connection is dropped before what it sent is received.
OnData_CloseFirst(c) ==
  /\ pc = "events"
  /\ c \in ready
  /\ ready' = ready \ {c}
  /\ \/ /\ shut[c] = "no"
        /\ \E n \in (rcvd[c] + 1) .. Parts(c) : rcvd' = [rcvd EXCEPT ![c] = n]
        /\ UNCHANGED <<conn, clients>>
     \/ /\ shut[c] # "no"
        /\ Drop(c)
        /\ UNCHANGED rcvd
  /\ UNCHANGED <<net, order, used, pc, todo, cur, stopped, dev>>

\* _on_data: recv takes what has arrived; at the end of the stream, or when
\* the connection was reset, the client is dropped.
OnData(c) ==
  /\ pc = "events"
  /\ c \in ready
  /\ ready' = ready \ {c}
  /\ \/ /\ shut[c] # "rst"
        /\ \E n \in (rcvd[c] + 1) .. Parts(c) : rcvd' = [rcvd EXCEPT ![c] = n]
        /\ UNCHANGED <<conn, clients>>
     \/ /\ shut[c] = "rst" \/ (shut[c] = "fin" /\ rcvd[c] = Parts(c))
        /\ Drop(c)
        /\ UNCHANGED rcvd
  /\ UNCHANGED <<net, order, used, pc, todo, cur, stopped, dev>>

\* Mutant: a pass processes the oldest client only.
BeginProcess_OldestOnly ==
  /\ pc = "events"
  /\ ready = {}
  /\ todo' = {c \in clients : \A d \in clients : order[c] <= order[d]}
  /\ pc' = "process"
  /\ UNCHANGED <<conn, net, rcvd, clients, order, used, ready, cur, stopped, dev>>

\* All events handled: the pass goes over a snapshot of the clients.
BeginProcess ==
  /\ pc = "events"
  /\ ready = {}
  /\ todo' = clients
  /\ pc' = "process"
  /\ UNCHANGED <<conn, net, rcvd, clients, order, used, ready, cur, stopped, dev>>

NextClient ==
  /\ pc = "process"
  /\ cur = Nobody
  /\ \E c \in todo :
       /\ \A d \in todo : order[c] <= order[d]
       /\ cur' = c
       /\ todo' = todo \ {c}
  /\ UNCHANGED <<conn, net, rcvd, clients, order, used, pc, ready, stopped, dev>>

\* No complete request left in buf: wait for the rest.
WaitForRest ==
  /\ pc = "process"
  /\ cur # Nobody
  /\ ~Complete(cur) /\ ~Malformed(cur)
  /\ cur' = Nobody
  /\ UNCHANGED <<conn, net, rcvd, clients, order, used, pc, ready, todo, stopped, dev>>

DropMalformed ==
  /\ pc = "process"
  /\ cur # Nobody
  /\ Malformed(cur)
  /\ Drop(cur)
  /\ cur' = Nobody
  /\ UNCHANGED <<net, rcvd, order, used, pc, ready, todo, stopped, dev>>

\* The request leaves the buffer and goes to the device.
Dispatch ==
  /\ pc = "process"
  /\ cur # Nobody
  /\ Complete(cur)
  /\ used' = [used EXCEPT ![cur] = @ + 1]
  /\ pc' = "device"
  /\ UNCHANGED <<conn, net, rcvd, clients, order, ready, todo, cur, stopped, dev>>

\* Mutant: at most one write per client and pass.
DeviceDone_OneWrite ==
  /\ pc = "device"
  /\ did' = [did EXCEPT ![cur] = @ + 1]
  /\ IF sent[cur][used[cur]] = "rd" THEN pc' = "reply" /\ UNCHANGED cur
                                    ELSE pc' = "process" /\ cur' = Nobody
  /\ UNCHANGED <<conn, net, rcvd, clients, order, used, ready, todo, stopped, replied, failed>>

\* Mutant: writes are answered too.
DeviceDone_AnswersWrites ==
  /\ pc = "device"
  /\ did' = [did EXCEPT ![cur] = @ + 1]
  /\ pc' = "reply"
  /\ UNCHANGED <<conn, net, rcvd, clients, order, used, ready, todo, cur, stopped, replied, failed>>

\* The awaited operation has been carried out; a write has no reply.
DeviceDone ==
  /\ pc = "device"
  /\ did' = [did EXCEPT ![cur] = @ + 1]
  /\ pc' = IF sent[cur][used[cur]] = "rd" THEN "reply" ELSE "process"
  /\ UNCHANGED <<conn, net, rcvd, clients, order, used, ready, todo, cur, stopped, replied, failed>>

\* The awaited operation raises (a short read too: Regio._read asserts).
DeviceFail ==
  /\ pc = "device"
  /\ failed' = failed \cup {cur}
  /\ Drop(cur)
  /\ cur' = Nobody
  /\ pc' = "process"
  /\ UNCHANGED <<net, rcvd, order, used, ready, todo, stopped, did, replied>>

\* sendall returns once the reply fits the socket buffers; it blocks the whole
\* server until then.
Reply ==
  /\ pc = "reply"
  /\ shut[cur] # "rst"
  /\ Len(replied[cur]) - got[cur] < Window
  /\ replied' = [replied EXCEPT ![cur] = Append(@, used[cur])]
  /\ pc' = "process"
  /\ UNCHANGED <<conn, net, rcvd, clients, order, used, ready, todo, cur, stopped, did, failed>>

\* sendall raises: the client closed or reset its end.
ReplyFail ==
  /\ pc = "reply"
  /\ shut[cur] # "no"
  /\ failed' = failed \cup {cur}
  /\ Drop(cur)
  /\ cur' = Nobody
  /\ pc' = "process"
  /\ UNCHANGED <<net, rcvd, order, used, ready, todo, stopped, did, replied>>

EndPass ==
  /\ pc = "process"
  /\ cur = Nobody
  /\ todo = {}
  /\ pc' = "yield"
  /\ UNCHANGED <<conn, net, rcvd, clients, order, used, ready, todo, cur, stopped, dev>>

\* The task ends: all clients are dropped and the listening socket is closed.
ShutDown ==
  /\ conn' = [c \in Conn |-> IF conn[c] = "idle" THEN "idle" ELSE "gone"]
  /\ clients' = {}
  /\ pc' = "down"
  /\ UNCHANGED <<net, rcvd, order, used, ready, todo, cur, stopped, dev>>

\* The driver resumes the task; the loop condition looks at _stopped.
Resume ==
  /\ pc = "yield"
  /\ IF stopped THEN ShutDown
     ELSE /\ pc' = "select"
          /\ UNCHANGED <<conn, net, rcvd, clients, order, used, ready, todo, cur, stopped, dev>>

\* The task is cancelled while it awaits the device or its turn.
Cancel ==
  /\ pc \in {"device", "yield"}
  /\ ShutDown

\* stop(), called by another coroutine while the server awaits.
Stop ==
  /\ pc \in {"device", "yield"}
  /\ ~stopped
  /\ stopped' = TRUE
  /\ UNCHANGED <<conn, net, rcvd, clients, order, used, pc, ready, todo, cur, dev>>

ServerStep ==
  \/ Select \/ \E c \in Conn : Accept(c) \/ OnData(c)
  \/ BeginProcess \/ NextClient \/ WaitForRest \/ DropMalformed \/ Dispatch
  \/ DeviceDone \/ DeviceFail \/ Reply \/ ReplyFail \/ EndPass \/ Resume

Down == pc = "down" /\ UNCHANGED vars

Next ==
  \/ \E c \in Conn : ClientStep(c)
  \/ ServerStep
  \/ Cancel \/ Stop
  \/ Down

Spec == Init /\ [][Next]_vars

\* The driver resumes the task and the device answers; clients read replies.
Fairness == WF_vars(ServerStep) /\ \A c \in Conn : WF_vars(ReadReply(c))

FairSpec == Spec /\ Fairness

-----------------------------------------------------------------------------
\* The values the variables take.
TypeOK ==
  /\ conn \in [Conn -> {"idle", "backlog", "open", "gone"}]
  /\ sent \in [Conn -> Seq({"rd", "wr", "bad", "cut"})]
  /\ shut \in [Conn -> {"no", "fin", "rst"}]
  /\ rcvd \in [Conn -> Nat]
  /\ got \in [Conn -> Nat]
  /\ clients \subseteq Conn
  /\ order \in [Conn -> Nat]
  /\ used \in [Conn -> Nat]
  /\ pc \in {"select", "events", "process", "device", "reply", "yield", "down"}
  /\ ready \subseteq Conn \cup {Listen}
  /\ todo \subseteq Conn
  /\ cur \in Conn \cup {Nobody}
  /\ stopped \in BOOLEAN
  /\ did \in [Conn -> Nat]
  /\ replied \in [Conn -> Seq(Nat)]
  /\ failed \subseteq Conn

\* The dict, the open connections and the snapshot of the pass belong together:
\* no dropped client is in the dict, processed or served.
Registered ==
  /\ clients = {c \in Conn : conn[c] = "open"}
  /\ pc \in {"device", "reply"} => cur # Nobody
  /\ pc = "down" \/ todo = {} \/ (todo \subseteq clients /\ pc \in {"process", "device", "reply"})
  /\ cur # Nobody /\ pc # "down" =>
       cur \in clients \ todo /\ pc \in {"process", "device", "reply"}

\* What has left the buffer has been received, and the device is one request
\* behind while it works on one.
Counts(c) ==
  /\ rcvd[c] <= Parts(c)
  /\ 2 * used[c] <= rcvd[c]
  /\ conn[c] = "open" =>
       did[c] = IF pc = "device" /\ cur = c THEN used[c] - 1 ELSE used[c]
  /\ conn[c] \in {"idle", "backlog"} => used[c] = 0 /\ did[c] = 0
  /\ \A i \in 1 .. used[c] : sent[c][i] \in {"rd", "wr"}

Counters == \A c \in Conn : Counts(c)

IInv == TypeOK /\ Registered /\ Counters

\* When the loop selects again, no client has a complete request in its buffer.
NoneStranded ==
  pc = "select" => \A c \in Conn : conn[c] = "open" => ~Complete(c) /\ ~Malformed(c)

\* While the server runs, a client is dropped for a reason of its own: its
\* operation or reply failed, it sent a malformed head, it was reset, or it
\* closed and then every complete request it had sent was carried out.
DroppedForCause ==
  pc # "down" =>
    \A c \in Conn : conn[c] = "gone" =>
      \/ c \in failed
      \/ \E i \in 1 .. Len(sent[c]) : sent[c][i] = "bad"
      \/ shut[c] = "rst"
      \/ /\ shut[c] = "fin"
         /\ \A i \in 1 .. Len(sent[c]) : sent[c][i] \in {"rd", "wr"} => did[c] >= i

\* The service the server's state stands for.
Serving == IF pc \in {"device", "reply"} THEN cur ELSE Nobody
Stage == IF pc = "device" THEN "run" ELSE IF pc = "reply" THEN "answer" ELSE "free"
Lost == {c \in Conn : conn[c] = "gone"}

Service == INSTANCE RegioService WITH serving <- Serving, stage <- Stage, lost <- Lost

\* The server keeps the promise of RegioService: requests of a connection are
\* carried out once, in order, one at a time, and reads answered in order.
ImplementsService == Service!Spec

\* The replies of a client are those of its reads, in order, each once, none
\* missing but the one of the read whose reply is due: no reply of
\* _process_requests goes to a write, is left out or overtakes another.
AnswersInOrder == Service!AnswersInOrder

\* Every request is eventually carried out, and answered if it is a read,
\* unless its connection is dropped.
Served ==
  \A c \in Conn : \A i \in 1 .. MaxReq[c] :
    /\ (Len(sent[c]) >= i /\ sent[c][i] = "wr") ~> (did[c] >= i \/ conn[c] = "gone")
    /\ (Len(sent[c]) >= i /\ sent[c][i] = "rd") ~>
         ((\E j \in 1 .. Len(replied[c]) : replied[c][j] = i) \/ conn[c] = "gone")
=============================================================================
