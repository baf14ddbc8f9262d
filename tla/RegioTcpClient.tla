--------------------------- MODULE RegioTcpClient ---------------------------
(***************************************************************************)
(* RegioTcpClient of tcp_client.py, shared by several coroutines: dev_write*)
(* and dev_read under its lock, connect, close, and the proxy's task that  *)
(* calls connect without the lock (watch_upstream of proxy.py).  At the    *)
(* other end is a server that keeps the promise of RegioService; it may    *)
(* take its time, and it may close a connection.                           *)
(*                                                                         *)
(* A reply is two messages, its head and its payload.  A head carries the  *)
(* size of the request it answers; its address is never looked at, so only *)
(* the id the model adds tells which request a reply answers.              *)
(***************************************************************************)
EXTENDS Integers, Sequences

CONSTANTS
  Task,      \* coroutines that share the client
  Nobody,    \* nobody holds the lock
  Watcher,   \* the watch_upstream task
  Closer,    \* the coroutine that calls close()
  Request,   \* per task, the operations it calls: [kind, size]
  MaxOp,     \* bound: operations
  MaxConn    \* bound: connections opened

ASSUME NamesAssumption == {Nobody, Watcher, Closer} \cap Task = {} /\ Watcher # Closer
ASSUME RequestAssumption == Request \in [Task -> SUBSET [kind : {"rd", "wr"}, size : Nat]]
ASSUME BoundAssumption == MaxOp \in Nat /\ MaxConn \in Nat

Op == 1 .. MaxOp
Link == 1 .. MaxConn

VARIABLES
  link,     \* the connection _reader and _writer belong to, 0: None
  opened,   \* connections opened so far
  closing,  \* connections whose writer is_closing()
  hungup,   \* connections the server has closed
  reset,    \* those of them for which a reset is on its way
  tosrv,    \* per connection, the operations whose requests are on their way
  tocli,    \* per connection, messages on their way: [part, id]
  lock,     \* holder of _lock
  queue,    \* waiters of _lock, in order
  pc,       \* per task: "idle", "lock", "connect", "head", "payload" ("closing": close())
  cur,      \* per task, the operation it is in
  from,     \* per task, the connection it reads its reply from
  ops,      \* the operations called: [kind, size]
  result,   \* per operation: 0 not ended, -1 failed, else the id whose reply it got
  done      \* operations the server has carried out, in order

wire == <<hungup, reset, tosrv, tocli, done>>
vars == <<link, opened, closing, hungup, reset, tosrv, tocli, lock, queue, pc, cur, from,
          ops, result, done>>

Init ==
  /\ link = 0
  /\ opened = 0
  /\ closing = {}
  /\ hungup = {}
  /\ reset = {}
  /\ tosrv = [k \in Link |-> <<>>]
  /\ tocli = [k \in Link |-> <<>>]
  /\ lock = Nobody
  /\ queue = <<>>
  /\ pc = [t \in Task \cup {Watcher, Closer} |-> "idle"]
  /\ cur = [t \in Task |-> 0]
  /\ from = [t \in Task |-> 0]
  /\ ops = <<>>
  /\ result = [i \in Op |-> 0]
  /\ done = <<>>

\* connect() has nothing to do: there is a writer and it is not closing.
Usable == link # 0 /\ link \notin closing

-----------------------------------------------------------------------------
(* An operation of task t. *)

\* dev_read or dev_write is called and queues for the lock.
Call(t, rq) ==
  /\ pc[t] = "idle"
  /\ Len(ops) < MaxOp
  /\ ops' = Append(ops, rq)
  /\ cur' = [cur EXCEPT ![t] = Len(ops) + 1]
  /\ pc' = [pc EXCEPT ![t] = "lock"]
  /\ queue' = Append(queue, t)
  /\ UNCHANGED <<link, opened, closing, wire, lock, from, result>>

\* The operation of t ends with r and the lock is released.
EndOp(t, r) ==
  /\ result' = [result EXCEPT ![cur[t]] = r]
  /\ lock' = Nobody
  /\ pc' = [pc EXCEPT ![t] = "idle"]
  /\ cur' = [cur EXCEPT ![t] = 0]
  /\ from' = [from EXCEPT ![t] = 0]

\* The request of t goes out on connection k, or is lost and reset there if the
\* server has closed its end.
Put(t, k) ==
  IF k \in hungup THEN reset' = reset \cup {k} /\ UNCHANGED tosrv
                  ELSE tosrv' = [tosrv EXCEPT ![k] = Append(@, cur[t])] /\ UNCHANGED reset

\* Mutant: the lock only covers the sending.
Transmit_LockReleased(t, k) ==
  /\ Put(t, k)
  /\ lock' = Nobody
  /\ IF ops[cur[t]].kind = "wr"
     THEN EndOp(t, cur[t])
     ELSE /\ pc' = [pc EXCEPT ![t] = "head"]
          /\ from' = [from EXCEPT ![t] = k]
          /\ UNCHANGED <<cur, result>>

\* write and drain on connection k.  A write is over then; a read waits for the
\* head of its reply, holding the lock.
Transmit(t, k) ==
  /\ Put(t, k)
  /\ IF ops[cur[t]].kind = "wr"
     THEN EndOp(t, cur[t])
     ELSE /\ pc' = [pc EXCEPT ![t] = "head"]
          /\ lock' = t
          /\ from' = [from EXCEPT ![t] = k]
          /\ UNCHANGED <<cur, result>>

\* async with self._lock: with a usable writer the request goes out at once.
Acquire(t) ==
  /\ pc[t] = "lock"
  /\ lock = Nobody
  /\ queue # <<>> /\ Head(queue) = t
  /\ queue' = Tail(queue)
  /\ IF Usable THEN Transmit(t, link)
     ELSE /\ lock' = t
          /\ pc' = [pc EXCEPT ![t] = "connect"]
          /\ UNCHANGED <<tosrv, reset, cur, from, result>>
  /\ UNCHANGED <<link, opened, closing, hungup, tocli, ops, done>>

\* open_connection succeeds: reader and writer are replaced together, and a
\* task sends its request on the new connection.
Connected(t) ==
  /\ pc[t] = "connect"
  /\ opened < MaxConn
  /\ opened' = opened + 1
  /\ link' = opened + 1
  /\ IF t = Watcher THEN /\ pc' = [pc EXCEPT ![t] = "idle"]
                         /\ UNCHANGED <<tosrv, reset, lock, cur, from, result>>
                    ELSE Transmit(t, opened + 1)
  /\ UNCHANGED <<closing, hungup, tocli, queue, ops, done>>

\* open_connection is refused or takes too long.
ConnectFails(t) ==
  /\ pc[t] = "connect"
  /\ IF t = Watcher THEN pc' = [pc EXCEPT ![t] = "idle"] /\ UNCHANGED <<lock, cur, from, result>>
                    ELSE EndOp(t, -1)
  /\ UNCHANGED <<link, opened, closing, wire, queue, ops>>

\* The head has arrived.  One that is no head or has the wrong size ends the
\* operation with the rest left unread; otherwise the payload is read from what
\* self._reader is by then.
ReadHead(t) ==
  /\ pc[t] = "head"
  /\ tocli[from[t]] # <<>>
  /\ tocli' = [tocli EXCEPT ![from[t]] = Tail(@)]
  /\ LET msg == Head(tocli[from[t]])
     IN  IF msg.part = "head" /\ ops[msg.id].size = ops[cur[t]].size /\ link # 0
         THEN /\ pc' = [pc EXCEPT ![t] = "payload"]
              /\ from' = [from EXCEPT ![t] = link]
              /\ UNCHANGED <<lock, cur, result>>
         ELSE EndOp(t, -1)
  /\ UNCHANGED <<link, opened, closing, hungup, reset, tosrv, done, queue, ops>>

\* The payload has arrived: its bytes are the answer, whatever they are.
ReadPayload(t) ==
  /\ pc[t] = "payload"
  /\ tocli[from[t]] # <<>>
  /\ tocli' = [tocli EXCEPT ![from[t]] = Tail(@)]
  /\ EndOp(t, Head(tocli[from[t]]).id)
  /\ UNCHANGED <<link, opened, closing, hungup, reset, tosrv, done, queue, ops>>

\* readexactly raises: the stream has ended, or the connection is closed or lost.
ReadFails(t) ==
  /\ pc[t] \in {"head", "payload"}
  /\ tocli[from[t]] = <<>>
  /\ from[t] \in hungup \cup closing
  /\ EndOp(t, -1)
  /\ UNCHANGED <<link, opened, closing, wire, queue, ops>>

\* Mutant: a read that timed out is sent again.
Timeout_Resends(t) ==
  /\ pc[t] \in {"head", "payload"}
  /\ IF Len(tosrv[from[t]]) < 1 THEN Transmit(t, from[t])
     ELSE EndOp(t, -1) /\ UNCHANGED <<tosrv, reset>>
  /\ UNCHANGED <<link, opened, closing, hungup, tocli, done, queue, ops>>

\* Mutant: a read that timed out keeps the lock.
Timeout_KeepsLock(t) ==
  /\ pc[t] \in {"head", "payload"}
  /\ result' = [result EXCEPT ![cur[t]] = -1]
  /\ pc' = [pc EXCEPT ![t] = "idle"]
  /\ UNCHANGED <<link, opened, closing, wire, lock, queue, cur, from, ops>>

\* wait_for gives up; the connection stays as it is.
Timeout(t) ==
  /\ pc[t] \in {"head", "payload"}
  /\ EndOp(t, -1)
  /\ UNCHANGED <<link, opened, closing, wire, queue, ops>>

-----------------------------------------------------------------------------
(* The rest of the process and the server. *)

\* watch_upstream: connect() every period, without the lock.
Watch ==
  /\ pc[Watcher] = "idle"
  /\ ~Usable
  /\ pc' = [pc EXCEPT ![Watcher] = "connect"]
  /\ UNCHANGED <<link, opened, closing, wire, lock, queue, cur, from, ops, result>>

\* close(): the writer is closed and awaited ...
CloseWriter ==
  /\ pc[Closer] = "idle"
  /\ link # 0
  /\ closing' = closing \cup {link}
  /\ pc' = [pc EXCEPT ![Closer] = "closing"]
  /\ UNCHANGED <<link, opened, wire, lock, queue, cur, from, ops, result>>

\* ... then reader and writer are forgotten, whichever they are by then.
ForgetLink ==
  /\ pc[Closer] = "closing"
  /\ link' = 0
  /\ pc' = [pc EXCEPT ![Closer] = "idle"]
  /\ UNCHANGED <<opened, closing, wire, lock, queue, cur, from, ops, result>>

\* The reset arrives and the transport is closed; the end of the stream alone
\* does not close the writer.
LinkLost(k) ==
  /\ k \in reset \ closing
  /\ closing' = closing \cup {k}
  /\ UNCHANGED <<link, opened, wire, lock, queue, pc, cur, from, ops, result>>

\* The server carries out the next request and answers a read.
Serve(k) ==
  /\ k \notin hungup
  /\ tosrv[k] # <<>>
  /\ LET i == Head(tosrv[k])
     IN  /\ done' = Append(done, i)
         /\ tocli' = IF ops[i].kind = "wr" THEN tocli
                     ELSE [tocli EXCEPT ![k] = @ \o << [part |-> "head", id |-> i],
                                                       [part |-> "body", id |-> i] >>]
  /\ tosrv' = [tosrv EXCEPT ![k] = Tail(@)]
  /\ UNCHANGED <<link, opened, closing, hungup, reset, lock, queue, pc, cur, from, ops, result>>

\* The server closes a connection; what is on its way to it is lost, and a reset
\* is the answer.
HangUp(k) ==
  /\ k <= opened
  /\ k \notin hungup
  /\ hungup' = hungup \cup {k}
  /\ tosrv' = [tosrv EXCEPT ![k] = <<>>]
  /\ reset' = IF tosrv[k] = <<>> THEN reset ELSE reset \cup {k}
  /\ UNCHANGED <<link, opened, closing, tocli, lock, queue, pc, cur, from, ops, result, done>>

TaskStep(t) ==
  \/ Acquire(t) \/ Connected(t) \/ ConnectFails(t)
  \/ ReadHead(t) \/ ReadPayload(t) \/ ReadFails(t) \/ Timeout(t)

WatcherStep == Watch \/ Connected(Watcher) \/ ConnectFails(Watcher)

Next ==
  \/ \E t \in Task : \E rq \in Request[t] : Call(t, rq)
  \/ \E t \in Task : TaskStep(t)
  \/ WatcherStep
  \/ CloseWriter \/ ForgetLink
  \/ \E k \in Link : Serve(k) \/ HangUp(k) \/ LinkLost(k)

Spec == Init /\ [][Next]_vars

\* The event loop resumes what can run; a time limit that is there expires;
\* an upstream that can be connected to is connected to in the end; a reset for
\* what was sent to a closed connection arrives.
FairSpec ==
  /\ Spec
  /\ \A t \in Task : WF_vars(TaskStep(t))
  /\ WF_vars(WatcherStep)
  /\ SF_vars(Connected(Watcher))
  /\ \A k \in Link : WF_vars(LinkLost(k))

-----------------------------------------------------------------------------

\* A read that returns data returns the reply to its own request.  It does not hold
\* once a read has timed out (README, Findings), and no run checks it.
ReadsOwnReply ==
  \A i \in Op : result[i] > 0 => result[i] = i

\* What is true with time limits as well: the replies reads return are in the
\* order of the requests and none is returned twice, and a read only returns
\* another's reply, an earlier one's, after an earlier read has failed.
OnlyLateReplies ==
  /\ \A i, j \in Op : /\ i < j
                      /\ result[i] > 0 /\ ops[i].kind = "rd"
                      /\ result[j] > 0 /\ ops[j].kind = "rd"
                      => result[i] < result[j]
  /\ \A i \in Op : result[i] > 0 /\ result[i] # i =>
       result[i] < i /\ \E j \in 1 .. (i - 1) : result[j] = -1 /\ ops[j].kind = "rd"

\* No operation is carried out twice, whatever fails and whenever.
CarriedOutOnce ==
  \A i, j \in 1 .. Len(done) : done[i] = done[j] => i = j

\* With a time limit on every wait, every operation that is called ends, although
\* the server may stay silent for ever.
OpsEnd == \A i \in Op : Len(ops) >= i ~> result[i] # 0

\* watch_upstream says it will "keep (re)connecting while it is away": when the
\* server has closed the first connection, a second one is opened.  It does not hold (README, Findings),
\* and no run checks it.
Reconnects == (link = 1 /\ 1 \in hungup) ~> opened > 1
=============================================================================
