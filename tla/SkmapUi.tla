------------------------------- MODULE SkmapUi -------------------------------
(***************************************************************************)
(* The workers of skmap_ui/app.py on one event loop: the periodic refresh, *)
(* read all, clear RC, the reads and writes of single rows, and the pump   *)
(* that runs the '+' / '-' steps.  Row reads and writes take _regio_lock;  *)
(* row writes first wait for _refresh_idle; the refresh, read all and clear*)
(* workers take no lock, and clear and set _refresh_idle.                  *)
(*                                                                         *)
(* An action is what a coroutine does between two awaits that suspend it.  *)
(* _asserts_checking is set only inside _recheck_asserts, which does not   *)
(* suspend once the tree is loaded, so it never stops a tick here.         *)
(***************************************************************************)
EXTENDS SkmapModule

CONSTANTS
  Pump,           \* the _step_pump worker
  Shown,          \* the module in the register map
  UpdateClearsRc, \* _update_clears_rc: 'u' (TRUE) or 'U'
  RowJob,         \* what a key press can start on a row
  StepFlag,       \* the flag under the cursor, <<register, bit>>
  MaxStep         \* bound: '+' / '-' key presses

ASSUME PumpAssumption == Pump \notin Task
ASSUME StepAssumption == StepFlag[1] \in Reg /\ Acc[StepFlag[1]] \in {"rw", "wt"} /\ StepFlag[2] \in Bits[StepFlag[1]]
ASSUME ShownAssumption == Shown \in Range(Tree) /\ UpdateClearsRc \in BOOLEAN /\ MaxStep \in Nat

Worker == Task \cup {Pump}

VARIABLES
  job,     \* per worker: "none", "row", "step", or one of TreeJob
  pc,      \* per worker: "rest", "pop" (pump alone), "hold", "lock", "io", "done"
  todo,    \* per worker, what it still wants of the device
  idle,    \* _refresh_idle
  lock,    \* holder and waiters of _regio_lock, in order
  steps,   \* length of _step_queue
  presses, \* key presses so far
  last     \* what the last step wrote ("on", "off"), "?" once something else touched the register

uiVars == <<job, pc, todo, idle, lock, steps, presses, last>>
vars == <<libVars, uiVars>>

Init ==
  /\ LibInit
  /\ job = [w \in Worker |-> IF w = Pump THEN "step" ELSE "none"]
  /\ pc = [w \in Worker |-> "rest"]
  /\ todo = [w \in Worker |-> <<>>]
  /\ idle = TRUE
  /\ lock = <<>>
  /\ steps = 0 /\ presses = 0
  /\ last = "?"

-----------------------------------------------------------------------------
(* Programs of the workers that take no lock.                              *)

(* What part asks of each module, one module after the other.              *)
TreeOf(part) ==
  LET walk[i \in 0 .. Len(Tree)] == IF i = 0 THEN <<>> ELSE walk[i - 1] \o part[Tree[i]]
  IN walk[Len(Tree)]

(* _clear_triggered_worker, and the end of _refresh_worker.                *)
ClearProgram == ClearRegRc(Shown) \o TreeOf([m \in Range(Tree) |-> ClearAssert(m)])

RefreshProgram ==
  TreeOf([m \in Range(Tree) |-> ReadAll(m, FALSE)]) \o (IF UpdateClearsRc THEN ClearProgram ELSE <<>>)

ReadAllProgram == TreeOf([m \in Range(Tree) |-> ReadAll(m, TRUE)])

TreeJob == {"refresh", "readall", "clear"}

Program(kind) ==
  CASE kind = "refresh" -> RefreshProgram
    [] kind = "readall" -> ReadAllProgram
    [] kind = "clear"   -> ClearProgram

Refreshing(w) == job[w] = "refresh" /\ pc[w] = "io"

-----------------------------------------------------------------------------
(* What the coroutines share, as one value: s below is the state a worker  *)
(* finds when it gets going.                                               *)
Now == [cache |-> cache, conn |-> conn, stale |-> stale, idle |-> idle, lock |-> lock]

(* (The bounded quantifiers over one value name it.)                      *)
Becomes(s) ==
  \E n \in {s} :
    /\ cache' = n.cache /\ conn' = n.conn /\ stale' = n.stale
    /\ idle' = n.idle /\ lock' = n.lock

(* _toggle_bool_async: the value comes from the cache when the step is     *)
(* popped, before _flag_write_async waits.                                 *)
Toggle(c) == FlagOf(StepFlag[1], StepFlag[2], StepFlag[2] \notin c[StepFlag[1]])

(* Mutant: _refresh_idle is not set in a finally clause, so that a worker  *)
(* that ends with work left undone leaves it clear.                        *)
Release_NoFinally(w, kind, s) ==
  IF kind \notin TreeJob THEN [s EXCEPT !.lock = Tail(@)]
  ELSE IF todo[w] = <<>> THEN [s EXCEPT !.idle = TRUE] ELSE s

(* The finally clauses: a worker without the lock sets _refresh_idle, one  *)
(* with it gives it up.                                                    *)
Release(w, kind, s) ==
  IF kind \in TreeJob THEN [s EXCEPT !.idle = TRUE] ELSE [s EXCEPT !.lock = Tail(@)]

(* The last await of worker w has returned or raised; the pump pops its    *)
(* next step if there is one.                                              *)
Finish(w, kind, s) ==
  /\ Becomes(Release(w, kind, s))
  /\ IF w = Pump /\ steps > 0
     THEN /\ steps' = steps - 1
          /\ todo' = [todo EXCEPT ![w] = <<Toggle(s.cache)>>]
          /\ pc' = [pc EXCEPT ![w] = "hold"]
     ELSE /\ todo' = [todo EXCEPT ![w] = <<>>]
          /\ pc' = [pc EXCEPT ![w] = IF w = Pump THEN "rest" ELSE "done"]
          /\ UNCHANGED steps
  /\ last' = IF StepFlag[1] \in s.stale THEN "?" ELSE last

Written(on) == IF on THEN "on" ELSE "off"

(* Worker w calls the library for the step it has come to.                 *)
Issue(w, prog, s) ==
  LET q == CallOf(w, Head(prog), s.cache)
      st == StaleAtCall(q, s.conn, s.stale)
  IN /\ Becomes([s EXCEPT !.cache = CacheAtCall(q, @), !.conn = Append(@, q), !.stale = st])
     /\ todo' = [todo EXCEPT ![w] = Tail(prog)]
     /\ pc' = [pc EXCEPT ![w] = "io"]
     /\ last' = CASE StepFlag[1] \in st -> "?"
                  [] StepFlag[1] \notin st /\ w = Pump -> Written(Head(prog).on)
                  [] OTHER -> IF q.op = "write" /\ StepFlag[1] \in DOMAIN q.data THEN "?" ELSE last
     /\ UNCHANGED steps

(* Worker w runs its program until it has to wait for the device.          *)
Run(w, kind, prog, start) ==
  \E s \in {start} : \E rest \in {Rest(prog, s.cache)} :
    IF rest = <<>> \/ Raises(Head(rest), s.cache) THEN Finish(w, kind, s) ELSE Issue(w, rest, s)

-----------------------------------------------------------------------------
(* _refresh_worker (a tick of the timer), _read_all_worker ('R') and       *)
(* _clear_triggered_worker ('C').                                          *)
StartTree(w, kind) ==
  /\ w \in Task /\ pc[w] = "rest"
  /\ job' = [job EXCEPT ![w] = kind]
  /\ Run(w, kind, Program(kind), [Now EXCEPT !.idle = FALSE])
  /\ UNCHANGED <<dev, wire, events, fails, presses>>

(* A key press on a row: _run_regio starts _read_row_async,                *)
(* _write_row_async, _flag_write_async or _write_mem_lanes_async.          *)
StartRow(w, prog) ==
  /\ w \in Task /\ pc[w] = "rest"
  /\ job' = [job EXCEPT ![w] = "row"]
  /\ todo' = [todo EXCEPT ![w] = prog]
  /\ pc' = [pc EXCEPT ![w] = "hold"]
  /\ UNCHANGED <<libVars, idle, lock, steps, presses, last>>

(* _queue_step: the pump is started unless it runs already.                *)
PressStep ==
  /\ presses < MaxStep
  /\ presses' = presses + 1
  /\ steps' = steps + 1
  /\ pc' = IF pc[Pump] = "rest" THEN [pc EXCEPT ![Pump] = "pop"] ELSE pc
  /\ UNCHANGED <<libVars, job, todo, idle, lock, last>>

(* _step_pump pops its first step.                                         *)
PopStep ==
  /\ pc[Pump] = "pop"
  /\ steps' = steps - 1
  /\ todo' = [todo EXCEPT ![Pump] = <<Toggle(cache)>>]
  /\ pc' = [pc EXCEPT ![Pump] = "hold"]
  /\ UNCHANGED <<libVars, job, idle, lock, presses, last>>

(* Past _wait_refresh_idle, for the writes alone, and into the queue of    *)
(* _regio_lock.  _write_row_async gives up here on a value that does not   *)
(* pass the register's check.                                              *)
Enter(w) ==
  LET prog == todo[w] IN
  /\ pc[w] = "hold"
  /\ Head(prog).op # "read" => idle
  /\ IF Raises(Head(prog), cache)
     THEN /\ pc' = [pc EXCEPT ![w] = "done"]
          /\ todo' = [todo EXCEPT ![w] = <<>>]
          /\ UNCHANGED <<cache, conn, stale, idle, lock, steps, last>>
     ELSE IF lock = <<>> THEN Run(w, job[w], prog, [Now EXCEPT !.lock = <<w>>])
     ELSE /\ pc' = [pc EXCEPT ![w] = "lock"]
          /\ lock' = Append(lock, w)
          /\ UNCHANGED <<cache, conn, stale, idle, todo, steps, last>>
  /\ UNCHANGED <<job, presses, dev, wire, events, fails>>

GotLock(w) ==
  /\ pc[w] = "lock" /\ Head(lock) = w
  /\ Run(w, job[w], todo[w], Now)
  /\ UNCHANGED <<job, presses, dev, wire, events, fails>>

(* The client's lock comes to a write: its request goes out, and the call  *)
(* returns.                                                                *)
WriteSent ==
  /\ conn # <<>> /\ Head(conn).op = "write"
  /\ LET q == Head(conn)
         w == q.task
     IN /\ wire' = Append(wire, q)
        /\ Run(w, job[w], todo[w],
               [Now EXCEPT !.conn = Tail(@), !.cache = CacheAtReturn(q, @),
                           !.stale = StaleAtReturn(q, Tail(conn), @)])
  /\ UNCHANGED <<job, presses, dev, events, fails>>

(* The reply to a read is there.                                           *)
ReadReturns ==
  /\ conn # <<>> /\ Head(conn).at = "answered"
  /\ LET q == Head(conn)
         w == q.task
     IN Run(w, job[w], todo[w],
            [Now EXCEPT !.conn = Tail(@), !.cache = CacheAtReturn(q, @),
                        !.stale = StaleAtReturn(q, Tail(conn), @)])
  /\ UNCHANGED <<job, presses, dev, wire, events, fails>>

(* The call at the head of the connection raises.  The worker logs it and  *)
(* ends; whatever else it wanted is left undone.  What the call was to     *)
(* write stays in the cache; the request of a read, the last one on the    *)
(* wire, is dropped.                                                       *)
Raise ==
  LET q == Head(conn) IN
  /\ wire' = IF wire # <<>> /\ wire[Len(wire)].op = "read" THEN SubSeq(wire, 1, Len(wire) - 1) ELSE wire
  /\ Finish(q.task, job[q.task],
            [Now EXCEPT !.conn = Tail(@),
                        !.stale = IF q.op = "write" THEN @ \cup DOMAIN q.data ELSE @])
  /\ UNCHANGED <<job, presses, dev, events>>

(* It could not be sent, or its reply did not come in time.                *)
CallFails ==
  /\ conn # <<>> /\ Head(conn).at \in {"queued", "sent"} /\ fails < MaxFail
  /\ fails' = fails + 1
  /\ Raise

(* The connection broke while it waited for its reply.                     *)
CallBroken ==
  /\ conn # <<>> /\ Head(conn).at = "broken"
  /\ UNCHANGED fails
  /\ Raise

(* The connection breaks.  The writes on the wire are lost, and nobody is  *)
(* told; a read is told.                                                   *)
Breaks ==
  /\ wire # <<>> /\ fails < MaxFail
  /\ fails' = fails + 1
  /\ wire' = <<>>
  /\ conn' = IF conn # <<>> /\ Head(conn).at = "sent" THEN [conn EXCEPT ![1].at = "broken"] ELSE conn
  /\ stale' = stale \cup UNION {DOMAIN wire[i].data : i \in {j \in DOMAIN wire : wire[j].op = "write"}}
  /\ last' = IF StepFlag[1] \in stale' THEN "?" ELSE last
  /\ UNCHANGED <<dev, cache, events, job, pc, todo, idle, lock, steps, presses>>

Firmware ==
  /\ \E r \in Reg : \E b \in Bits[r] : Event(r, b)
  /\ UNCHANGED uiVars

Next ==
  \/ \E w \in Task, kind \in TreeJob : StartTree(w, kind)
  \/ \E w \in Task, prog \in RowJob : StartRow(w, prog)
  \/ PressStep
  \/ PopStep
  \/ \E w \in Worker : Enter(w)
  \/ \E w \in Worker : GotLock(w)
  \/ WriteSent
  \/ ReadReturns
  \/ CallFails
  \/ CallBroken
  \/ Breaks
  \/ SendRead /\ UNCHANGED uiVars
  \/ Serve /\ UNCHANGED uiVars
  \/ Firmware

Spec == Init /\ [][Next]_vars

(* What the event loop and the device do by themselves; timer, keys,       *)
(* firmware and failures are left to chance.                               *)
Progress ==
  \/ PopStep
  \/ \E w \in Worker : Enter(w) \/ GotLock(w)
  \/ WriteSent \/ ReadReturns \/ CallBroken
  \/ (SendRead \/ Serve) /\ UNCHANGED uiVars

FairSpec == Spec /\ WF_vars(Progress)

-----------------------------------------------------------------------------
(* With nothing under way on a cell, the cache shows what the device holds,*)
(* unless a read crossed its last write or that write was lost, and no read*)
(* has set it right since; of an rc register it shows no bit the firmware  *)
(* has not set.  It is what "the table then shows the true device state"   *)
(* (app.py) comes to.                                                      *)
DivergesForCause ==
  \A c \in Cell \ stale :
    On(c, conn) = {} /\ On(c, wire) = {} =>
      IF c \in Reg /\ Acc[c] = "rc" THEN cache[c] \subseteq dev[c] ELSE cache[c] = dev[c]

(* The steps of a held '+' key write a strictly stepping series: no value  *)
(* twice in a row, as long as nothing else writes the register and its     *)
(* cache is not stale (_step_pump, _toggle_bool_async).                    *)
StepsAlternate ==
  [][pc[Pump] # "io" /\ pc'[Pump] = "io" => last # Written(todo[Pump][1].on)]_vars

(* A write of a row is never made in the middle of a refresh               *)
(* (_wait_refresh_idle).  It does not hold (README, Findings), and no run  *)
(* checks it.                                                              *)
WritesHeld ==
  [][\A w \in Worker :
       /\ job[w] \in {"row", "step"} /\ pc[w] # "io" /\ pc'[w] = "io"
       /\ todo[w][1].op # "read"
       => \A v \in Worker : ~ Refreshing(v)]_vars

(* Whatever is started comes to its end, failures included: no worker      *)
(* waits for good for _refresh_idle, _regio_lock or the client's lock.     *)
Busy == \E w \in Worker : pc[w] \in {"pop", "hold", "lock", "io"}
WorkersEnd == Busy ~> ~ Busy
=============================================================================
