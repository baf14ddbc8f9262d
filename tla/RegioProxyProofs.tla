-------------------------- MODULE RegioProxyProofs --------------------------
(***************************************************************************)
(* For every number of workers, rows and operations: the log of the proxy  *)
(* keeps the newest rows in order, and each row shows its own operation.   *)
(***************************************************************************)
EXTENDS RegioProxy, TLAPS

\* The log.  The keys of the rows shown are the last ones given out, and every
\* row shown has an operation, whose outcome or expectation it shows.
TypeOK ==
  /\ capture \in BOOLEAN
  /\ nops \in Nat /\ count \in Nat /\ nops <= count /\ count <= MaxOp
  /\ rows \in Seq(1 .. nops)
  /\ rowop \in [Key -> Nat]
  /\ cell \in [Key -> [by : Nat, what : {"blank", "pending", "data", "error"}]]
  /\ op \in [Task -> [id : Nat, write : BOOLEAN, key : Nat]]

\* A task at the backend holds a key that was given out, and the row of that
\* key, if there is one still, is of its operation: keys are never used again.
KeyIsOwn(t) ==
  op[t].key # 0 => /\ op[t].key <= nops
                   /\ rowop[op[t].key] \in {0, op[t].id}

IInv == TypeOK /\ RowsShowOwnOp /\ KeepsNewest /\ \A t \in Task : KeyIsOwn(t)

-----------------------------------------------------------------------------
\* Keys given out are keys of the model.
LEMMA KeysGiven == TypeOK => 1 .. nops \subseteq Key
<1> SUFFICES ASSUME TypeOK, NEW i \in 1 .. nops PROVE i \in Key
  OBVIOUS
<1>1. nops \in Nat /\ nops <= MaxOp
  BY BoundAssumption DEF TypeOK
<1> QED
  BY <1>1, BoundAssumption DEF Key

\* The initial state satisfies the inductive invariant.
LEMMA InitIInv == Init => IInv
<1> SUFFICES ASSUME Init PROVE IInv
  OBVIOUS
<1>1. TypeOK
  <2>1. rows \in Seq(1 .. nops)
    BY DEF Init
  <2> QED
    BY <2>1, BoundAssumption DEF Init, TypeOK, Blank
<1>2. RowsShowOwnOp /\ KeepsNewest
  BY BoundAssumption DEF Init, RowsShowOwnOp, KeepsNewest
<1>3. \A t \in Task : KeyIsOwn(t)
  BY DEF Init, KeyIsOwn
<1> QED
  BY <1>1, <1>2, <1>3 DEF IInv

\* What is left of a sequence when its first element goes.
LEMMA TailOf ==
  ASSUME NEW S, NEW q \in Seq(S), Len(q) > 0
  PROVE  /\ Tail(q) \in Seq(S) /\ Len(Tail(q)) = Len(q) - 1
         /\ \A j \in 1 .. Len(q) - 1 : Tail(q)[j] = q[j + 1]
  OBVIOUS

\* Appending a row and evicting the oldest one when there are too many leaves
\* consecutive keys, the new one last, all others old ones.
LEMMA EvictRows ==
  ASSUME NEW n \in Nat, NEW r \in Seq(1 .. n), Len(r) <= MaxRows,
         Len(r) > 0 => r[Len(r)] = n,
         \A j \in 1 .. Len(r) - 1 : r[j] + 1 = r[j + 1],
         NEW k, k = n + 1, NEW s, s = Evict(Append(r, k))
  PROVE  /\ s \in Seq(1 .. k) /\ Len(s) \in 1 .. MaxRows /\ s[Len(s)] = k
         /\ \A j \in 1 .. Len(s) - 1 : s[j] + 1 = s[j + 1]
         /\ \A j \in 1 .. Len(s) : s[j] = k \/ \E i \in 1 .. Len(r) : s[j] = r[i]
<1> DEFINE a == Append(r, n + 1)
<1>1. /\ a \in Seq(1 .. (n + 1)) /\ Len(a) = Len(r) + 1 /\ Len(r) \in Nat
      /\ a[Len(a)] = n + 1 /\ \A j \in 1 .. Len(r) : a[j] = r[j] /\ r[j] \in 1 .. n
  <2>1. r \in Seq(1 .. (n + 1))
    <3>1. 1 .. n \subseteq 1 .. (n + 1)
      OBVIOUS
    <3> QED
      BY <3>1
  <2>2. n + 1 \in 1 .. (n + 1)
    OBVIOUS
  <2> QED
    BY <2>1, <2>2
<1>2. \A j \in 1 .. Len(a) - 1 : a[j] + 1 = a[j + 1]
  <2>1. ASSUME NEW j \in 1 .. Len(a) - 1 PROVE a[j] + 1 = a[j + 1]
    <3>1. CASE j = Len(r)
      BY <1>1, <3>1
    <3>2. CASE j # Len(r)
      <4>1. j \in 1 .. Len(r) - 1 /\ j + 1 \in 1 .. Len(r) /\ j \in 1 .. Len(r)
        BY <1>1, <3>2
      <4> QED
        BY <1>1, <4>1
    <3> QED
      BY <3>1, <3>2
  <2> QED
    BY <2>1
<1>3. CASE Len(a) <= MaxRows
  <2>1. s = a
    BY <1>1, <1>3, BoundAssumption DEF Evict
  <2> HIDE DEF a
  <2>2. \A j \in 1 .. Len(a) : a[j] = n + 1 \/ \E i \in 1 .. Len(r) : a[j] = r[i]
    <3>1. ASSUME NEW j \in 1 .. Len(a), a[j] # n + 1 PROVE j \in 1 .. Len(r)
      BY <1>1, <3>1
    <3> QED
      BY <1>1, <3>1
  <2>3. Len(a) \in 1 .. MaxRows
    BY <1>1, <1>3, BoundAssumption
  <2> QED
    BY <1>1, <1>2, <2>1, <2>2, <2>3
<1>4. CASE Len(a) > MaxRows
  <2>1. s = Tail(a)
    BY <1>4 DEF Evict
  <2>2. Len(a) = MaxRows + 1 /\ MaxRows \in Nat \ {0}
    BY <1>1, <1>4, BoundAssumption
  <2> HIDE DEF a
  <2>3. s \in Seq(1 .. (n + 1)) /\ Len(s) = Len(a) - 1 /\ \A j \in 1 .. Len(s) : s[j] = a[j + 1]
    <3>1. Len(a) > 0 /\ Len(a) - 1 \in Nat
      BY <2>2
    <3>2. /\ Tail(a) \in Seq(1 .. (n + 1)) /\ Len(Tail(a)) = Len(a) - 1
          /\ \A j \in 1 .. Len(a) - 1 : Tail(a)[j] = a[j + 1]
      <4> DEFINE S == 1 .. (n + 1)
      <4>1. a \in Seq(S)
        BY <1>1
      <4> HIDE DEF S
      <4>2. /\ Tail(a) \in Seq(S) /\ Len(Tail(a)) = Len(a) - 1
            /\ \A j \in 1 .. Len(a) - 1 : Tail(a)[j] = a[j + 1]
        BY <3>1, <4>1, TailOf
      <4> QED
        BY <4>2 DEF S
    <3> QED
      BY <2>1, <3>2
  <2>4. Len(s) = Len(r) /\ Len(s) = MaxRows
    BY <1>1, <2>2, <2>3
  <2>5. s[Len(s)] = n + 1
    <3>1. Len(s) \in 1 .. Len(s) /\ Len(s) + 1 = Len(a)
      BY <2>2, <2>3, <2>4
    <3>2. s[Len(s)] = a[Len(s) + 1]
      BY <2>3, <3>1
    <3> QED
      BY <1>1, <3>1, <3>2
  <2>6. \A j \in 1 .. Len(s) - 1 : s[j] + 1 = s[j + 1]
    <3>1. ASSUME NEW j \in 1 .. Len(s) - 1 PROVE s[j] + 1 = s[j + 1]
      <4>1. j \in 1 .. Len(s) /\ j + 1 \in 1 .. Len(s) /\ j + 1 \in 1 .. Len(a) - 1
        BY <2>2, <2>3, <2>4
      <4> QED
        BY <1>2, <2>3, <4>1
    <3> QED
      BY <3>1
  <2>7. \A j \in 1 .. Len(s) : s[j] = n + 1 \/ \E i \in 1 .. Len(r) : s[j] = r[i]
    <3>1. ASSUME NEW j \in 1 .. Len(s), s[j] # n + 1 PROVE \E i \in 1 .. Len(r) : s[j] = r[i]
      <4>1. j # Len(s)
        BY <2>5, <3>1
      <4>2. j + 1 \in 1 .. Len(r)
        BY <2>2, <2>4, <4>1
      <4> QED
        BY <1>1, <2>3, <4>2
    <3> QED
      BY <3>1
  <2> QED
    BY <2>2, <2>3, <2>4, <2>5, <2>6, <2>7
<1>5. Len(a) \in Nat /\ MaxRows \in Nat
  BY <1>1, BoundAssumption
<1> HIDE DEF a
<1> QED
  BY <1>3, <1>4, <1>5

\* Logging an operation keeps the log in order and every row its own.
LEMMA StartedKeeps ==
  ASSUME IInv, count < MaxOp, count' = count + 1, UNCHANGED capture,
         NEW what \in {"pending", "data", "error"}, OpStarted(count + 1, what)
  PROVE  /\ RowsShowOwnOp' /\ KeepsNewest'
         /\ nops' \in Nat /\ nops' <= count' /\ rows' \in Seq(1 .. nops')
         /\ rowop' \in [Key -> Nat]
         /\ cell' \in [Key -> [by : Nat, what : {"blank", "pending", "data", "error"}]]
         /\ nops' = IF capture THEN nops + 1 ELSE nops
         /\ \A k \in Key : k <= nops => rowop'[k] \in {0, rowop[k]}
         /\ capture => rowop'[nops + 1] = count + 1
<1>0. TypeOK /\ RowsShowOwnOp /\ KeepsNewest
  BY DEF IInv
<1>1. CASE ~capture
  <2>1. UNCHANGED <<nops, rows, rowop, cell>>
    BY <1>1 DEF OpStarted
  <2>2. RowsShowOwnOp' /\ KeepsNewest'
    BY <1>0, <2>1 DEF RowsShowOwnOp, KeepsNewest, InRows
  <2> QED
    BY <1>0, <1>1, <2>1, <2>2 DEF TypeOK
<1>2. CASE capture
  <2> DEFINE k == nops + 1
             s == Evict(Append(rows, k))
             i == count + 1
  <2>1. /\ nops' = k /\ rows' = s
        /\ rowop' = [j \in Key |-> IF ~InRows(s, j) THEN 0 ELSE IF j = k THEN i ELSE rowop[j]]
        /\ cell' = [j \in Key |-> IF ~InRows(s, j) THEN Blank
                                  ELSE IF j = k THEN [by |-> i, what |-> what] ELSE cell[j]]
    BY <1>2 DEF OpStarted
  <2>2. nops \in Nat /\ count \in Nat /\ nops <= count /\ MaxOp \in Nat /\ rows \in Seq(1 .. nops)
    BY <1>0, BoundAssumption DEF TypeOK
  <2>3. k \in Key /\ k \in Nat /\ k <= i /\ i \in Nat /\ i # 0 /\ \A j \in 1 .. k : j \in Key
    BY <2>2 DEF Key
  <2>4. /\ s \in Seq(1 .. k) /\ Len(s) \in 1 .. MaxRows /\ s[Len(s)] = k
        /\ \A j \in 1 .. Len(s) - 1 : s[j] + 1 = s[j + 1]
        /\ \A j \in 1 .. Len(s) : s[j] = k \/ \E m \in 1 .. Len(rows) : s[j] = rows[m]
    <3>1. /\ Len(rows) <= MaxRows /\ (Len(rows) > 0 => rows[Len(rows)] = nops)
          /\ \A j \in 1 .. Len(rows) - 1 : rows[j] + 1 = rows[j + 1]
      BY <1>0 DEF KeepsNewest
    <3> HIDE DEF s
    <3>2. s = Evict(Append(rows, k)) /\ k = nops + 1
      BY DEF s
    <3> HIDE DEF k
    <3> QED
      BY <2>2, <3>1, <3>2, EvictRows
  <2> HIDE DEF s, i
  <2>5. rowop' \in [Key -> Nat]
    BY <1>0, <2>1, <2>3 DEF TypeOK
  <2>6. cell' \in [Key -> [by : Nat, what : {"blank", "pending", "data", "error"}]]
    BY <1>0, <2>1, <2>3 DEF TypeOK, Blank
  <2>7. ASSUME NEW j \in 1 .. Len(s) PROVE rowop'[s[j]] # 0 /\ cell'[s[j]].by = rowop'[s[j]]
    <3>1. s[j] \in 1 .. k /\ s[j] \in Key /\ InRows(s, s[j])
      BY <2>3, <2>4 DEF InRows
    <3>2. CASE s[j] = k
      BY <2>1, <2>3, <3>1, <3>2
    <3>3. CASE s[j] # k
      <4>1. PICK m \in 1 .. Len(rows) : s[j] = rows[m]
        BY <2>4, <3>3
      <4>2. rowop[rows[m]] # 0 /\ cell[rows[m]].by = rowop[rows[m]]
        BY <1>0 DEF RowsShowOwnOp
      <4> QED
        BY <2>1, <3>1, <3>3, <4>1, <4>2
    <3> QED
      BY <3>2, <3>3
  <2>8. RowsShowOwnOp'
    BY <2>1, <2>7 DEF RowsShowOwnOp
  <2>9. KeepsNewest'
    <3>1. \A j \in Key : rowop'[j] # 0 => InRows(s, j)
      BY <2>1
    <3>2. InRows(rows, 0)' = InRows(s, 0) /\ \A j \in Key : InRows(rows', j) = InRows(s, j)
      BY <2>1 DEF InRows
    <3>3. Len(s) <= MaxRows
      BY <2>4, BoundAssumption
    <3> QED
      BY <2>1, <2>4, <3>1, <3>2, <3>3 DEF KeepsNewest, InRows
  <2>10. ASSUME NEW j \in Key, j <= nops PROVE rowop'[j] \in {0, rowop[j]}
    <3>1. j # k
      BY <2>2, <2>10 DEF Key
    <3> QED
      BY <2>1, <3>1
  <2>11. rowop'[nops + 1] = count + 1
    <3>1. InRows(s, k)
      BY <2>4, BoundAssumption DEF InRows
    <3> QED
      BY <2>1, <2>3, <3>1 DEF i
  <2> QED
    BY <1>2, <2>1, <2>2, <2>3, <2>4, <2>5, <2>6, <2>8, <2>9, <2>10, <2>11 DEF i
<1> QED
  BY <1>0, <1>1, <1>2 DEF TypeOK

\* A relayed operation preserves the inductive invariant, refused or not: a
\* new key is behind all others.
LEMMA RelayIInv ==
  ASSUME IInv, NEW t \in Task, NEW write \in BOOLEAN, Relay(t, write) \/ RelayRefused(t, write)
  PROVE  IInv'
<1>0. TypeOK /\ \A u \in Task : KeyIsOwn(u)
  BY DEF IInv
<1>1. count < MaxOp /\ count' = count + 1 /\ UNCHANGED capture
  BY DEF Relay, RelayRefused
<1>2. PICK what \in {"pending", "data", "error"} : OpStarted(count + 1, what)
  BY DEF Relay, RelayRefused
<1>3. /\ RowsShowOwnOp' /\ KeepsNewest'
      /\ nops' \in Nat /\ nops' <= count' /\ rows' \in Seq(1 .. nops')
      /\ rowop' \in [Key -> Nat]
      /\ cell' \in [Key -> [by : Nat, what : {"blank", "pending", "data", "error"}]]
      /\ nops' = (IF capture THEN nops + 1 ELSE nops)
      /\ \A k \in Key : k <= nops => rowop'[k] \in {0, rowop[k]}
      /\ capture => rowop'[nops + 1] = count + 1
  BY <1>1, <1>2, StartedKeeps
<1>4. nops \in Nat /\ count \in Nat /\ MaxOp \in Nat /\ nops <= count /\ count <= MaxOp
  BY <1>0, BoundAssumption DEF TypeOK
<1>5. \/ op' = op
      \/ op' = [op EXCEPT ![t] = [id |-> count + 1, write |-> write,
                                  key |-> IF capture THEN nops + 1 ELSE 0]]
  BY DEF Relay, RelayRefused
<1>6. TypeOK'
  <2>1. op' \in [Task -> [id : Nat, write : BOOLEAN, key : Nat]]
    <3>1. CASE op' = op
      BY <1>0, <3>1 DEF TypeOK
    <3>2. CASE op' # op
      <4> DEFINE r == [id |-> count + 1, write |-> write, key |-> IF capture THEN nops + 1 ELSE 0]
      <4>1. r \in [id : Nat, write : BOOLEAN, key : Nat]
        BY <1>4
      <4>2. op' = [op EXCEPT ![t] = r]
        BY <1>5, <3>2
      <4> QED
        BY <1>0, <4>1, <4>2 DEF TypeOK
    <3> QED
      BY <3>1, <3>2
  <2>2. count' \in Nat /\ count' <= MaxOp
    BY <1>1, <1>4
  <2> QED
    BY <1>0, <1>1, <1>3, <2>1, <2>2 DEF TypeOK
<1>7. ASSUME NEW u \in Task PROVE KeyIsOwn(u)'
  <2>1. CASE op'[u] = op[u]
    <3>1. ASSUME op[u].key # 0
          PROVE  op[u].key <= nops' /\ rowop'[op[u].key] \in {0, op[u].id}
      <4>1. op[u].key \in Nat /\ op[u].key <= nops /\ rowop[op[u].key] \in {0, op[u].id}
        BY <1>0, <3>1 DEF KeyIsOwn, TypeOK
      <4>2. nops <= nops' /\ nops' \in Nat
        BY <1>3, <1>4
      <4>3. op[u].key \in Key /\ op[u].key <= nops'
        BY <1>4, <4>1, <4>2, BoundAssumption DEF Key
      <4> QED
        BY <1>3, <4>1, <4>3
    <3> QED
      BY <2>1, <3>1 DEF KeyIsOwn
  <2>2. CASE op'[u] # op[u]
    <3>1. op'[u].id = count + 1 /\ op'[u].key = (IF capture THEN nops + 1 ELSE 0)
      BY <1>0, <1>5, <2>2 DEF TypeOK
    <3> QED
      BY <1>3, <1>4, <3>1 DEF KeyIsOwn
  <2> QED
    BY <2>1, <2>2
<1> QED
  BY <1>3, <1>6, <1>7 DEF IInv

\* Completing a row preserves the inductive invariant: the row of the key, if
\* it is still there, belongs to the operation.
LEMMA BackendIInv ==
  ASSUME IInv, NEW t \in Task, NEW ok \in BOOLEAN, BackendDone(t, ok)
  PROVE  IInv'
<1>0. TypeOK /\ RowsShowOwnOp /\ KeepsNewest /\ \A u \in Task : KeyIsOwn(u)
  BY DEF IInv
<1> DEFINE k == op[t].key
           new == [by |-> op[t].id, what |-> IF ok THEN "data" ELSE "error"]
<1>1. UNCHANGED <<capture, nops, rows, rowop, op, count>>
  BY DEF BackendDone
<1>2. \/ cell' = cell
      \/ k # 0 /\ rowop[k] # 0 /\ cell' = [cell EXCEPT ![k] = new]
  BY DEF BackendDone, OpDone
<1>3. k # 0 => k \in Key /\ rowop[k] \in {0, op[t].id}
  BY <1>0, BoundAssumption DEF TypeOK, KeyIsOwn, Key
<1>4. new \in [by : Nat, what : {"blank", "pending", "data", "error"}]
  BY <1>0 DEF TypeOK
<1> HIDE DEF new
<1>5. TypeOK'
  BY <1>0, <1>1, <1>2, <1>3, <1>4 DEF TypeOK
<1>6. RowsShowOwnOp'
  <2>1. ASSUME NEW j \in 1 .. Len(rows) PROVE cell'[rows[j]].by = rowop[rows[j]]
    <3>1. rows[j] \in Key /\ cell[rows[j]].by = rowop[rows[j]]
      <4>1. rows[j] \in 1 .. nops
        BY <1>0 DEF TypeOK
      <4>2. rows[j] \in Key
        BY <1>0, <4>1, KeysGiven
      <4> QED
        BY <1>0, <4>2 DEF RowsShowOwnOp
    <3>2. CASE cell' = cell
      BY <3>1, <3>2
    <3>3. CASE k # 0 /\ rowop[k] # 0 /\ cell' = [cell EXCEPT ![k] = new]
      <4>1. new.by = rowop[k]
        BY <1>3, <3>3 DEF new
      <4>2. CASE rows[j] = k
        BY <1>0, <3>1, <3>3, <4>1, <4>2 DEF TypeOK
      <4>3. CASE rows[j] # k
        BY <1>0, <3>1, <3>3, <4>3 DEF TypeOK
      <4> QED
        BY <4>2, <4>3
    <3> QED
      BY <1>2, <3>2, <3>3
  <2> QED
    BY <1>0, <1>1, <2>1 DEF RowsShowOwnOp
<1>7. KeepsNewest' /\ \A u \in Task : KeyIsOwn(u)'
  BY <1>0, <1>1 DEF KeepsNewest, KeyIsOwn, InRows
<1> QED
  BY <1>5, <1>6, <1>7 DEF IInv

\* Clearing the log, switching the capture and reconnecting preserve it.
LEMMA LogIInv ==
  ASSUME IInv, ToggleCapture \/ ClearLog \/ LocalReconnect \/ UNCHANGED vars
  PROVE  IInv'
<1>0. TypeOK /\ RowsShowOwnOp /\ KeepsNewest /\ \A u \in Task : KeyIsOwn(u)
  BY DEF IInv
<1>1. CASE ClearLog
  <2>1. rows' = <<>> /\ rowop' = [k \in Key |-> 0] /\ cell' = [k \in Key |-> Blank]
        /\ UNCHANGED <<capture, nops, op, count>>
    BY <1>1 DEF ClearLog
  <2>2. rows' \in Seq(1 .. nops') /\ Len(rows') = 0
    BY <2>1
  <2>3. TypeOK'
    BY <1>0, <2>1, <2>2 DEF TypeOK, Blank
  <2>4. RowsShowOwnOp' /\ KeepsNewest'
    BY <2>1, <2>2, BoundAssumption DEF RowsShowOwnOp, KeepsNewest
  <2>5. ASSUME NEW u \in Task PROVE KeyIsOwn(u)'
    <3>1. op[u].key # 0 => op[u].key \in Key /\ op[u].key <= nops
      BY <1>0, BoundAssumption DEF TypeOK, KeyIsOwn, Key
    <3> QED
      BY <2>1, <3>1 DEF KeyIsOwn
  <2> QED
    BY <2>3, <2>4, <2>5 DEF IInv
<1>2. CASE ToggleCapture \/ LocalReconnect \/ UNCHANGED vars
  <2>1. UNCHANGED <<nops, rows, rowop, cell, op, count>> /\ capture' \in BOOLEAN
    BY <1>0, <1>2 DEF ToggleCapture, LocalReconnect, vars, TypeOK
  <2>2. TypeOK'
    BY <1>0, <2>1 DEF TypeOK
  <2>3. RowsShowOwnOp' /\ KeepsNewest' /\ \A u \in Task : KeyIsOwn(u)'
    BY <1>0, <2>1 DEF RowsShowOwnOp, KeepsNewest, InRows, KeyIsOwn
  <2> QED
    BY <2>2, <2>3 DEF IInv
<1> QED
  BY <1>1, <1>2

\* The log and the keys of the operations under way belong together.
LEMMA SpecIInv == Spec => []IInv
<1>1. IInv /\ [Next]_vars => IInv'
  BY RelayIInv, BackendIInv, LogIInv DEF Next
<1> QED
  BY <1>1, InitIInv, PTL DEF Spec

\* A row of the log shows its own operation, however many operations overlap,
\* and whatever is evicted and cleared meanwhile.
THEOREM RowsAreOwn == Spec => []RowsShowOwnOp
<1>1. IInv => RowsShowOwnOp
  BY DEF IInv
<1> QED
  BY <1>1, SpecIInv, PTL

\* The log keeps the newest MAX_ROWS operations in the order they began.
THEOREM NewestAreKept == Spec => []KeepsNewest
<1>1. IInv => KeepsNewest
  BY DEF IInv
<1> QED
  BY <1>1, SpecIInv, PTL
=============================================================================
