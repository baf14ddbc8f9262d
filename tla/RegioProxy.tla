----------------------------- MODULE RegioProxy -----------------------------
(***************************************************************************)
(* RegioProxy of regio_ui/proxy.py with the operations log of view.py: the *)
(* relayed operations of a local client (one at a time, through the multi- *)
(* client server) and those of the user's form run concurrently; each logs *)
(* a row before it awaits the backend and completes the row afterwards,    *)
(* while the user pauses the capture and clears the log.                   *)
(***************************************************************************)
EXTENDS Integers, Sequences

CONSTANTS
  Form,      \* workers of the user's form
  Local,     \* the local server's task
  MaxRows,   \* MAX_ROWS: rows kept in the log
  MaxOp      \* bound: operations

ASSUME LocalAssumption == Local \notin Form
ASSUME BoundAssumption == MaxRows \in Nat \ {0} /\ MaxOp \in Nat

Task == Form \cup {Local}
Key == 0 .. MaxOp   \* 0 is the empty key: not captured

VARIABLES
  capture,  \* the capture flag
  nops,     \* _n_ops
  rows,     \* _row_keys: keys of the rows shown, oldest first
  rowop,    \* _row_ops: the operation behind each row, 0 when there is none
  cell,     \* the data cell of each row: [by, what], by the operation that filled it
  pc,       \* per task: "idle", "backend"
  op,       \* per task: [id, write, key]
  count,    \* operations begun
  conn,     \* the local client's connection is open
  answer    \* what the last read of the local client got: "none", "data", "error", "dropped"

vars == <<capture, nops, rows, rowop, cell, pc, op, count, conn, answer>>

Blank == [by |-> 0, what |-> "blank"]

Init ==
  /\ capture \in BOOLEAN
  /\ nops = 0
  /\ rows = <<>>
  /\ rowop = [k \in Key |-> 0]
  /\ cell = [k \in Key |-> Blank]
  /\ pc = [t \in Task |-> "idle"]
  /\ op = [t \in Task |-> [id |-> 0, write |-> FALSE, key |-> 0]]
  /\ count = 0
  /\ conn = TRUE
  /\ answer = "none"

-----------------------------------------------------------------------------
(* The log. *)

\* Mutant: the newest row is evicted instead of the oldest.
Evict_Newest(s) == IF Len(s) > MaxRows THEN SubSeq(s, 1, MaxRows) ELSE s

\* while len(self._row_keys) > MAX_ROWS: the oldest row goes.
Evict(s) == IF Len(s) > MaxRows THEN Tail(s) ELSE s

InRows(s, k) == \E j \in 1 .. Len(s) : s[j] = k

\* op_started: a row for operation i whose data cell starts as `what`, unless
\* capture is off.
OpStarted(i, what) ==
  IF ~capture THEN UNCHANGED <<nops, rows, rowop, cell>>
  ELSE LET k == nops + 1
           s == Evict(Append(rows, k))
       IN  /\ nops' = k
           /\ rows' = s
           /\ rowop' = [j \in Key |-> IF ~InRows(s, j) THEN 0 ELSE IF j = k THEN i ELSE rowop[j]]
           /\ cell' = [j \in Key |-> IF ~InRows(s, j) THEN Blank
                                     ELSE IF j = k THEN [by |-> i, what |-> what] ELSE cell[j]]

\* Mutant: a failed read leaves its row as it is.
OpDone_NoReadErrors(i, write, k, ok) ==
  cell' = IF k = 0 \/ rowop[k] = 0 \/ (ok = write) THEN cell
          ELSE [cell EXCEPT ![k] = [by |-> i, what |-> IF ok THEN "data" ELSE "error"]]

\* op_done: nothing for the empty key or a row that is gone; a write's row was
\* complete from the start, a read's row gets its data, and an error is shown.
OpDone(i, write, k, ok) ==
  cell' = IF k = 0 \/ rowop[k] = 0 \/ (ok /\ write) THEN cell
          ELSE [cell EXCEPT ![k] = [by |-> i, what |-> IF ok THEN "data" ELSE "error"]]

ToggleCapture ==
  /\ capture' = ~capture
  /\ UNCHANGED <<nops, rows, rowop, cell, pc, op, count, conn, answer>>

\* Mutant: clearing the log starts the keys again at 1.
ClearLog_ResetsKeys ==
  /\ rows' = <<>>
  /\ rowop' = [k \in Key |-> 0]
  /\ cell' = [k \in Key |-> Blank]
  /\ nops' = 0
  /\ UNCHANGED <<capture, pc, op, count, conn, answer>>

\* action_clear_log: the rows go, the key counter goes on.
ClearLog ==
  /\ rows' = <<>>
  /\ rowop' = [k \in Key |-> 0]
  /\ cell' = [k \in Key |-> Blank]
  /\ UNCHANGED <<capture, nops, pc, op, count, conn, answer>>

-----------------------------------------------------------------------------
(* Relaying. *)

\* relay_read or relay_write up to the await of the backend.
Relay(t, write) ==
  /\ pc[t] = "idle"
  /\ t = Local => conn
  /\ count < MaxOp
  /\ count' = count + 1
  /\ op' = [op EXCEPT ![t] = [id |-> count + 1, write |-> write,
                              key |-> IF capture THEN nops + 1 ELSE 0]]
  /\ OpStarted(count + 1, IF write THEN "data" ELSE "pending")
  /\ pc' = [pc EXCEPT ![t] = "backend"]
  /\ UNCHANGED <<capture, conn, answer>>

\* What the local server makes of the outcome.  A read that failed: dev_read
\* returns an empty payload, the length check of Regio._read fails and the server
\* drops the client.  A failed write leaves the connection alone.
LocalOutcome(t, write, ok) ==
  IF t # Local \/ write THEN UNCHANGED <<conn, answer>>
  ELSE IF ok THEN answer' = "data" /\ UNCHANGED conn
  ELSE answer' = "dropped" /\ conn' = FALSE

\* relay_read or relay_write refuses the address or the size: the row is
\* completed at once and the backend is not asked.
RelayRefused(t, write) ==
  /\ pc[t] = "idle"
  /\ t = Local => conn
  /\ count < MaxOp
  /\ count' = count + 1
  /\ OpStarted(count + 1, "error")
  /\ LocalOutcome(t, write, FALSE)
  /\ UNCHANGED <<capture, pc, op>>

\* The backend has answered, or failed, and the row is completed.
BackendDone(t, ok) ==
  /\ pc[t] = "backend"
  /\ OpDone(op[t].id, op[t].write, op[t].key, ok)
  /\ LocalOutcome(t, op[t].write, ok)
  /\ pc' = [pc EXCEPT ![t] = "idle"]
  /\ UNCHANGED <<capture, nops, rows, rowop, op, count>>

\* A dropped local client comes back.
LocalReconnect ==
  /\ ~conn
  /\ conn' = TRUE
  /\ UNCHANGED <<capture, nops, rows, rowop, cell, pc, op, count, answer>>

Next ==
  \/ ToggleCapture \/ ClearLog \/ LocalReconnect
  \/ \E t \in Task : \E write \in BOOLEAN : Relay(t, write) \/ RelayRefused(t, write)
  \/ \E t \in Task : \E ok \in BOOLEAN : BackendDone(t, ok)

Spec == Init /\ [][Next]_vars

\* The backend answers or fails.
FairSpec == Spec /\ \A t \in Task : WF_vars(\E ok \in BOOLEAN : BackendDone(t, ok))

-----------------------------------------------------------------------------
\* A row shows the outcome of its own operation, however operations overlap
\* with each other, with evictions and with the clearing of the log.
RowsShowOwnOp ==
  \A j \in 1 .. Len(rows) : rowop[rows[j]] # 0 /\ cell[rows[j]].by = rowop[rows[j]]

\* The log keeps the newest MAX_ROWS captured operations since it was cleared,
\* in the order they began, and forgets everything else about older ones.
KeepsNewest ==
  /\ Len(rows) <= MaxRows
  /\ Len(rows) > 0 => rows[Len(rows)] = nops
  /\ \A j \in 1 .. Len(rows) - 1 : rows[j] + 1 = rows[j + 1]
  /\ \A k \in Key : rowop[k] # 0 => InRows(rows, k)

\* Every row that shows a pending read is completed, evicted or cleared.
RowsComplete ==
  \A k \in Key : cell[k].what = "pending" ~> cell[k].what # "pending"

\* _RelayingRegio says of a read that could not be completed that "the server
\* turns [it] into a flag_error response (the client connection stays open)".
\* It does not hold (README, Findings), and no run checks it.
FailedReadAnswered == answer # "dropped"
=============================================================================
