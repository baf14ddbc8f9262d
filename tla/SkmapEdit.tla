------------------------------ MODULE SkmapEdit ------------------------------
(***************************************************************************)
(* The user interface of skmap_ui/app.py: the register map table with its  *)
(* cursor, the input line, the step prompt, the assert log with its cursor *)
(* and the tabs; the messages that wait for the app; the assert check and  *)
(* the read of all modules, which rebuild the tree and select a node of it *)
(* again; and the reads and writes of rows, which end after the table may  *)
(* have changed under them.                                                *)
(*                                                                         *)
(* A handler runs to its end before the app takes the next message.  A key *)
(* is pressed once the messages of the key before it are handled; workers  *)
(* and their messages come at any time.                                    *)
(***************************************************************************)
EXTENDS SkmapTable

CONSTANTS
  Texts,    \* what a user types
  Found,    \* bound: what a read may find in the lanes of an object, if not what the cache holds
  MaxPress  \* bound: key presses and mouse clicks

VARIABLES
  ui,       \* the widgets and the app's own fields, see UiInit
  inbox,    \* the app's messages, in order
  jobs,     \* the workers of _run_regio and the queued steps
  cache,    \* the skmap cache
  check,    \* _check_asserts is waiting for make_tree
  readAll,  \* _read_all_worker: [at, key], at "off", "read", or "rebuild" (in _recheck_asserts)
  presses

editVars == <<ui, inbox, jobs, cache, check, readAll, presses>>

None == [obj |-> "none", lanes |-> <<>>, cursor |-> 0]

UiInit ==
  [view |-> Top, expand |-> FALSE, bits |-> FALSE,     \* _row_module or _row_mem, _expand_vec, _value_bits
   cursor |-> 1,                                       \* of the table
   cells |-> FreshCells(Rows[Top, FALSE], cache),
   highlighted |-> "none", restore |-> 0,              \* _restore_cursor_key, 0 for None
   focus |-> "tree",                                   \* "tree", "table", "log", "input", "regio", "closed"
   text |-> Blank, lanes |-> <<>>,                     \* of the single input, of the mounted lane inputs
   lane |-> <<>>,                                      \* _edit_lane: <<key, lane>>
   prompt |-> FALSE, step |-> 1,
   log |-> <<>>, nav |-> FALSE, navIdx |-> 0, navReturn |-> "table",
   meant |-> None, moved |-> FALSE,                    \* what the edit was opened for; the table was rebuilt since
   behind |-> {}]                                      \* objects whose cells nobody refreshed after a job

Select(v, user) == [type |-> "select", node |-> v, user |-> user]
Posted(type) == [type |-> type, user |-> TRUE]

(* on_mount: the map of the top module is shown at once, and selected once *)
(* more by a message.                                                      *)
EditInit ==
  /\ cache = [o \in Register \cup Mem |-> [i \in LanesOf(o) |-> 0]]
  /\ ui = UiInit
  /\ inbox = <<Select(Top, FALSE)>>
  /\ jobs = <<>>
  /\ check = TRUE
  /\ readAll = [at |-> "off", key |-> 0]
  /\ presses = 0

RowsShown(u) == Rows[u.view, u.expand]
CursorRow(u) == RowsShown(u)[u.cursor]
Empty(u) == RowsShown(u) = <<>>

-----------------------------------------------------------------------------
(* Building and refreshing the table.                                      *)

(* _show_module and _show_mem.  They leave the input line as it is.        *)
Show(u, v, c) ==
  [u EXCEPT !.view = v, !.cursor = 1, !.cells = FreshCells(Rows[v, u.expand], c),
            !.lane = <<>>, !.moved = TRUE, !.behind = {}]

Job(op, key, o, lane, calls) ==
  [op |-> op, key |-> key, obj |-> o, lane |-> lane, calls |-> calls,
   done |-> 0, delta |-> 0, pump |-> FALSE, meant |-> None, kept |-> TRUE]

(* A memory that is shown is read.                                         *)
ShowJobs(v) == IF v \in Mem THEN <<Job("show", 0, v, 0, <<>>)>> ELSE <<>>

(* _reshow, of u with its options changed: the cursor stays on its key.    *)
Reshow(u, c) ==
  [Show(u, u.view, c) EXCEPT !.cursor = IF u.cursor \in DOMAIN Rows[u.view, u.expand] THEN u.cursor ELSE 1]

Paint(u, keys, c) ==
  [u EXCEPT !.cells = [k \in DOMAIN @ |-> IF k \in keys THEN CellOf(RowsShown(u)[k], c) ELSE @[k]]]

KeysOf(u, o) == {k \in DOMAIN RowsShown(u) : RowsShown(u)[k].obj = o}

(* _refresh_shown_values: all but the header of a memory's own view.       *)
RefreshShown(u, c) ==
  [Paint(u, {k \in DOMAIN u.cells : u.view \in Module \/ k > 1}, c) EXCEPT !.behind = {}]

(* _update_reg_rows and _update_flags_reg_rows: every row of the register. *)
RefreshReg(u, o, c) == [Paint(u, KeysOf(u, o), c) EXCEPT !.behind = @ \ {o}]

Behind(u, o) == [u EXCEPT !.behind = @ \cup {o}]

(* Mutant: a row's key is taken for the row.                               *)
StillShows_ByKey(u, key, o) == key \in DOMAIN RowsShown(u)

(* The row at key is one of o.                                             *)
StillShows(u, key, o) == key \in DOMAIN RowsShown(u) /\ RowsShown(u)[key].obj = o

(* _refresh_rows_from_cache, after the lane has been read (0: all of o).    *)
(* The row of a lane is refreshed alone, whatever was read.                 *)
RefreshRow(u, key, o, lane, c) ==
  LET now == RowsShown(u)[key].lane
      left == IF lane = now /\ now # 0 THEN u ELSE Behind(u, o) IN
  IF IsFlags(o) THEN RefreshReg(u, o, c)
  ELSE IF ~ StillShows(u, key, o) THEN Behind(u, o)
  ELSE IF o \notin Mem THEN RefreshReg(u, o, c)
  ELSE IF now = 0 THEN left ELSE [left EXCEPT !.cells[key] = c[o][now]]

(* The end of _write_mem_lanes_async: the rows at the keys of the lanes,   *)
(* whatever rows of the memory they are now.                               *)
RefreshLanes(u, o, lanes, c) ==
  LET at == {i \in lanes : StillShows(u, MemLaneKey(i), o)} IN
  [u EXCEPT !.cells = [k \in DOMAIN @ |-> IF \E i \in at : k = MemLaneKey(i) THEN c[o][k - 1] ELSE @[k]],
            !.behind = IF at = lanes THEN @ ELSE @ \cup {o}]

(* _append_assert_log.                                                     *)
Log(u, objs, c) == [u EXCEPT !.log = @ \o Triggered(objs, c)]

-----------------------------------------------------------------------------
(* Editing.  An editor returns the widgets and the job it starts, if any.  *)

Done(u, new) == [u |-> u, jobs |-> new]

(* Mutant: an edit that is left keeps its _edit_lane.                      *)
EndEdit_KeepsLane(u) ==
  [u EXCEPT !.prompt = FALSE, !.lanes = <<>>, !.text = Blank, !.meant = None]

(* _end_value_edit.                                                        *)
EndEdit(u) ==
  [u EXCEPT !.prompt = FALSE, !.lanes = <<>>, !.lane = <<>>, !.text = Blank, !.meant = None]

(* _abandon_value_edit, once the focus has left a value input.             *)
Abandon(u) ==
  IF \/ u.focus = "input"
     \/ u.lanes = <<>> /\ u.lane = <<>> /\ ~ u.prompt /\ u.text = Blank
  THEN u ELSE EndEdit(u)

Opened(u, o, lanes) ==
  [u EXCEPT !.focus = "input", !.moved = FALSE,
            !.meant = [obj |-> o, lanes |-> lanes, cursor |-> IF u.lane = <<>> THEN u.cursor ELSE 0]]

(* One lane in the single input.                                           *)
OpenLane(u, key, row, c) ==
  Opened([u EXCEPT !.lane = <<key, row.lane>>, !.text = ValueStr(row.obj, row.lane, u.bits, c)],
         row.obj, <<row.lane>>)

(* _open_vector_inputs: one input for each lane.                           *)
OpenVector(u, o, c) ==
  Opened([u EXCEPT !.lanes = [i \in LanesOf(o) |-> ValueStr(o, i, u.bits, c)]], o, LaneSeq(o))

(* _open_value_input.                                                      *)
OpenValue(u, o, c) ==
  IF IsVec(o) THEN OpenVector(u, o, c)
  ELSE Opened([u EXCEPT !.text = ValueStr(o, 1, u.bits, c)], o, LaneSeq(o))

(* What enter opens or clears on a row: _edit_mem_row and the rest of      *)
(* _edit_cursor_row, for the widgets put back to a single input.           *)
EditRow(u, key, row, c) ==
  LET writable == Acc[row.obj] \in {"rw", "wt"}
      clears == Acc[row.obj] = "rc"
      lanes == IF row.lane = 0 THEN LaneSeq(row.obj) ELSE <<row.lane>>
  IN CASE row.kind = "flag" -> Done(u, <<>>)
       [] row.kind = "lane" /\ writable -> Done(OpenLane(u, key, row, c), <<>>)
       [] row.kind = "mem" /\ writable -> Done(OpenVector([u EXCEPT !.lane = <<key, 0>>], row.obj, c), <<>>)
       [] row.kind = "own" /\ writable -> Done(OpenValue(u, row.obj, c), <<>>)
       [] row.kind \in {"lane", "mem"} /\ clears -> Done(u, <<Job("write", key, row.obj, row.lane, LaneZeros(lanes))>>)
       [] row.kind = "own" /\ clears /\ PassesCheck(row.obj, 0) ->
            Done(u, <<Job("write", key, row.obj, 0, <<ZeroCall(row.obj)>>)>>)
       [] OTHER -> Done(u, <<>>)

(* _edit_cursor_row.                                                       *)
Edit(u, c) ==
  IF Empty(u) THEN Done(u, <<>>) ELSE EditRow([u EXCEPT !.lanes = <<>>], u.cursor, CursorRow(u), c)

-----------------------------------------------------------------------------
(* Submitting.                                                             *)

(* The table has the focus again, and the value is on its way.             *)
Sent(u, key, o, lane, calls) ==
  Done([u EXCEPT !.focus = "table", !.meant = None],
       <<[Job("write", key, o, lane, calls) EXCEPT
            !.meant = u.meant,
            !.kept = ~ u.moved /\ u.meant.cursor \in {0, u.cursor}]>>)

(* The prompt of 's': a number of at least one is the new step.            *)
SubmitStep(u) ==
  Done([u EXCEPT !.prompt = FALSE, !.text = Blank, !.focus = IF Empty(u) THEN @ ELSE "table",
                 !.step = IF u.text.n >= 1 THEN u.text.n ELSE @], <<>>)

(* _edit_lane says which: all lanes of a memory, or a single lane of it or *)
(* of a register.  The input is emptied before its text is asked if it was *)
(* hex.                                                                    *)
SubmitLanes(u, key, o) ==
  IF u.lanes = <<>> THEN Done([u EXCEPT !.lane = <<>>], <<>>)
  ELSE IF \E i \in DOMAIN u.lanes : ~ ParsesLane(o, u.lanes[i]) THEN Done(u, <<>>)
  ELSE Sent([u EXCEPT !.lane = <<>>, !.lanes = <<>>], key, o, 0, LaneCalls(o, u.lanes))

SubmitLane(u, key, o, lane) ==
  IF ~ ParsesLane(o, u.text) THEN Done(u, <<>>)
  ELSE Sent([u EXCEPT !.lane = <<>>, !.text = Blank], key, o, lane,
            <<[x \in {lane} |-> Put(u.text.n, IsRawWrite(o, Blank), u.text)]>>)

(* _submit_vector_edit and _submit_scalar_edit, of the row the cursor is   *)
(* on.  (A converted vector raises on a single value.)                     *)
SubmitRow(u, row) ==
  IF row.obj \notin Register \/ row.kind = "flag" \/ Acc[row.obj] \notin {"rw", "wt"} THEN Done(u, <<>>)
  ELSE IF u.lanes # <<>>
       THEN IF \E i \in DOMAIN u.lanes : ~ ParsesLane(row.obj, u.lanes[i]) THEN Done(u, <<>>)
            ELSE Sent([u EXCEPT !.lanes = <<>>], u.cursor, row.obj, 0, LaneCalls(row.obj, u.lanes))
  ELSE IF ~ ParsesLane(row.obj, u.text) THEN Done(u, <<>>)
  ELSE IF IsVec(row.obj) /\ HasConvert(row.obj) /\ ~ u.text.hex
       THEN Done([u EXCEPT !.text = Blank, !.focus = "table", !.meant = None], <<>>)
  ELSE Sent([u EXCEPT !.text = Blank], u.cursor, row.obj, 0, <<ScalarCall(row.obj, u.text)>>)

(* on_input_submitted.                                                     *)
Submit(u) ==
  CASE u.prompt -> SubmitStep(u)
    [] ~ u.prompt /\ Empty(u) -> Done(u, <<>>)
    [] ~ u.prompt /\ ~ Empty(u) /\ u.lane # <<>> ->
         LET o == RowsShown(u)[u.lane[1]].obj IN
         IF u.lane[2] = 0 THEN SubmitLanes(u, u.lane[1], o) ELSE SubmitLane(u, u.lane[1], o, u.lane[2])
    [] OTHER -> SubmitRow(u, CursorRow(u))

-----------------------------------------------------------------------------
(* The app takes its next message.                                         *)

RestoreCursor(u, key) == IF key \in DOMAIN RowsShown(u) THEN [u EXCEPT !.cursor = key] ELSE u

(* on_tree_node_selected: a module that is shown and highlighted keeps its *)
(* table when there is a cursor to restore.                                *)
Selected(u, v, c) ==
  IF v \in Module /\ u.restore # 0 /\ u.view = v /\ u.highlighted = v
  THEN Done(RestoreCursor(u, u.restore), <<>>)
  ELSE Done(Show([u EXCEPT !.highlighted = v], v, c), ShowJobs(v))

Handled(u, msg, c) ==
  CASE msg.type = "select" -> Selected(u, msg.node, c)
    [] msg.type = "edit"   -> Edit(u, c)
    [] msg.type = "submit" -> Submit(u)
    [] msg.type = "cancel" -> Done([EndEdit(u) EXCEPT !.focus = "table"], <<>>)
    [] msg.type = "blur"   -> Done(Abandon(u), <<>>)

HandleMessage ==
  /\ inbox # <<>>
  /\ \E r \in {Handled(ui, Head(inbox), cache)} :
       /\ ui' = r.u
       /\ jobs' = jobs \o r.jobs
  /\ inbox' = Tail(inbox)
  /\ UNCHANGED <<cache, check, readAll, presses>>

-----------------------------------------------------------------------------
(* Keys and clicks.                                                        *)

Spend(n) ==
  /\ presses + n <= MaxPress
  /\ \A i \in DOMAIN inbox : ~ inbox[i].user
  /\ presses' = presses + n

Press == Spend(1) /\ UNCHANGED <<cache, check, readAll>>

(* A press that sets off work on the device counts as two.                 *)
Work == Spend(2) /\ UNCHANGED <<cache, check, readAll>>

AtKeys == ui.focus \in {"tree", "table", "log"}

(* What changes the widgets alone.                                         *)
Turns(u) == Press /\ ui' = u /\ UNCHANGED <<inbox, jobs>>

(* What posts a message, and leaves the rest to it.                        *)
Posts(msg) == Press /\ inbox' = Append(inbox, msg) /\ UNCHANGED <<ui, jobs>>

(* on_descendant_blur, when a value input loses the focus.                 *)
Leaves(u) ==
  /\ Press
  /\ ui' = u
  /\ inbox' = IF ui.focus = "input" THEN Append(inbox, Posted("blur")) ELSE inbox
  /\ UNCHANGED jobs

(* tab, a click, '1' or '2'.                                               *)
FocusOn(w) ==
  /\ w # ui.focus
  /\ ui.focus # "closed" /\ (ui.focus = "regio" => w = "table")
  /\ Leaves([ui EXCEPT !.focus = w])

(* The cursor keys of the table, or a click on a row.                      *)
MoveCursor(k) ==
  /\ ui.focus \notin {"regio", "closed"} /\ k # ui.cursor
  /\ Leaves([ui EXCEPT !.cursor = k, !.focus = "table"])

SelectNode(v) ==
  /\ ui.focus = "tree" /\ Work
  /\ inbox' = Append(inbox, Select(v, TRUE))
  /\ UNCHANGED <<ui, jobs>>

(* enter on the table, or with the focus in the log.                       *)
EnterRow ==
  /\ ui.focus = "table" \/ (ui.focus = "log" /\ ~ ui.nav)
  /\ Posts(Posted("edit"))

Type(t) ==
  /\ ui.focus = "input"
  /\ IF ui.lanes = <<>> THEN Turns([ui EXCEPT !.text = t])
     ELSE \E i \in DOMAIN ui.lanes : Turns([ui EXCEPT !.lanes[i] = t])

EnterText == ui.focus = "input" /\ Posts(Posted("submit"))
Escape == ui.focus = "input" /\ Posts(Posted("cancel"))

(* 's'.                                                                    *)
SetStepValue ==
  AtKeys /\ Turns([ui EXCEPT !.prompt = TRUE, !.text = [hex |-> FALSE, n |-> ui.step], !.focus = "input",
                             !.meant = None])

(* 'x' and 'e'.                                                            *)
Toggle(u) ==
  /\ AtKeys /\ Work
  /\ ui' = Reshow(u, cache)
  /\ jobs' = jobs \o ShowJobs(u.view)
  /\ UNCHANGED inbox

ToggleValueBits == Toggle([ui EXCEPT !.bits = ~ @])
ToggleExpandVec == Toggle([ui EXCEPT !.expand = ~ @])

Starts(job) == Work /\ jobs' = Append(jobs, job) /\ UNCHANGED <<ui, inbox>>

(* '+' and '-', of what can be written.                                    *)
StepSelected(sign) ==
  /\ ui.focus = "table" /\ ~ Empty(ui)
  /\ LET row == CursorRow(ui) IN
     /\ Acc[row.obj] \in {"rw", "wt"}
     /\ Starts([Job("step", ui.cursor, row.obj, row.lane, <<>>) EXCEPT !.delta = sign * ui.step])

(* 'r' on the table: the row.                                              *)
ReadSelectedRow ==
  /\ ui.focus = "table" /\ ~ Empty(ui)
  /\ LET row == CursorRow(ui) IN Starts(Job("read", ui.cursor, row.obj, row.lane, <<>>))

(* 'r' on the tree: a module or a memory.                                  *)
ReadSelectedModule(v) == ui.focus = "tree" /\ Starts(Job("tree", 0, v, 0, <<>>))

(* The log cursor.                                                         *)
LogCursorExit(u) == [u EXCEPT !.nav = FALSE, !.navIdx = 0, !.navReturn = "table", !.focus = u.navReturn]

(* 'l'.                                                                    *)
LogCursor ==
  /\ AtKeys
  /\ IF ui.nav THEN Turns(LogCursorExit(ui))
     ELSE /\ ui.log # <<>>
          /\ Turns([ui EXCEPT !.nav = TRUE, !.navIdx = Len(ui.log), !.navReturn = ui.focus, !.focus = "log"])

InLog == ui.focus = "log" /\ ui.nav

LogCursorMove(d) ==
  /\ InLog /\ ui.navIdx + d \in DOMAIN ui.log
  /\ Turns([ui EXCEPT !.navIdx = @ + d])

(* 'c'.                                                                    *)
ClearLog ==
  /\ AtKeys
  /\ Turns([(IF ui.nav THEN LogCursorExit(ui) ELSE ui) EXCEPT !.log = <<>>, !.navIdx = 0])

(* _show_asset: its module or memory, unless that is shown already, with   *)
(* the cursor on its first row.  The node of the tree is selected too.     *)
ShowAsset(u, a, c) ==
  LET v == IF a.obj \in Mem THEN a.obj ELSE HomeOf(a.obj)
      shown == IF u.view = v THEN u ELSE Show(u, v, c)
      key == CHOOSE k \in KeysOf(shown, a.obj) :
               /\ RowsShown(shown)[k].kind \in {"own", "mem", "flag"}
               /\ RowsShown(shown)[k].lane = a.lane
  IN IF a.obj \in Mem THEN shown
     ELSE [shown EXCEPT !.highlighted = v, !.restore = key, !.cursor = key]

Asset(u, a) ==
  LET v == IF a.obj \in Mem THEN a.obj ELSE HomeOf(a.obj) IN
  /\ Work
  /\ ui' = ShowAsset(u, a, cache)
  /\ jobs' = jobs \o (IF ui.view = v THEN <<>> ELSE ShowJobs(v))
  /\ inbox' = Append(inbox, Select(v, FALSE))

(* enter in the log, and 'm' in the regio tab.                             *)
LogCursorSelect == InLog /\ Asset(ui, ui.log[ui.navIdx])
LocateRegmap(a) == ui.focus = "regio" /\ Asset([ui EXCEPT !.focus = "table"], a)

-----------------------------------------------------------------------------
(* The assert check ('a' and the start) and the read of all modules ('R'). *)

Checking == check \/ readAll.at = "rebuild"

CheckAsserts ==
  /\ AtKeys /\ ~ Checking /\ Spend(2)
  /\ check' = TRUE
  /\ UNCHANGED <<ui, inbox, jobs, cache, readAll>>

(* The node that a rebuilt tree selects again: the root for a memory.      *)
Reselect(u) == Select(IF u.view \in Module THEN u.view ELSE Top, FALSE)

(* make_tree has returned or raised.                                       *)
CheckEnds ==
  /\ check
  /\ ui' = [RefreshShown(Log(ui, Register, cache), cache) EXCEPT !.restore = ui.cursor]
  /\ inbox' = Append(inbox, Reselect(ui))
  /\ check' = FALSE
  /\ UNCHANGED <<jobs, cache, readAll, presses>>

(* One read-all at a time.                                                 *)
ReadAllModules ==
  /\ AtKeys /\ ~ Checking /\ readAll.at = "off" /\ Spend(2)
  /\ readAll' = [readAll EXCEPT !.at = "read"]
  /\ UNCHANGED <<ui, inbox, jobs, cache, check>>

(* A read of objs has brought what the device holds.                       *)
Brings(objs) ==
  \/ UNCHANGED cache
  \/ \E o \in objs : \E n \in Found : cache' = [cache EXCEPT ![o] = [i \in DOMAIN @ |-> n]]

(* _recheck_asserts remembers the cursor and rebuilds the tree, unless a   *)
(* check is under way.                                                     *)
ReadAllReturns ==
  /\ readAll.at = "read"
  /\ Brings(Register \cup Mem)
  /\ IF check
     THEN /\ ui' = RefreshShown(ui, cache')
          /\ readAll' = [readAll EXCEPT !.at = "off"]
     ELSE /\ readAll' = [at |-> "rebuild", key |-> ui.cursor]
          /\ UNCHANGED ui
  /\ UNCHANGED <<inbox, jobs, check, presses>>

(* What was read before it failed is in the cache, and not shown.          *)
ReadAllFails ==
  /\ readAll.at = "read"
  /\ Brings(Register \cup Mem)
  /\ ui' = [ui EXCEPT !.behind = @ \cup {o \in Register \cup Mem : cache'[o] # cache[o]}]
  /\ readAll' = [readAll EXCEPT !.at = "off"]
  /\ UNCHANGED <<inbox, jobs, check, presses>>

RebuildEnds ==
  /\ readAll.at = "rebuild"
  /\ \E u \in {RestoreCursor(ui, readAll.key)} :
       /\ ui' = [RefreshShown(Log(u, Register, cache), cache) EXCEPT !.restore = readAll.key]
       /\ inbox' = Append(inbox, Reselect(u))
  /\ readAll' = [at |-> "off", key |-> 0]
  /\ UNCHANGED <<jobs, cache, check, presses>>

-----------------------------------------------------------------------------
(* The reads and writes of rows, one at a time (_regio_lock).              *)

LockFree == \A j \in DOMAIN jobs : jobs[j].done = 0

(* _step_pump takes the next step when the one before it has ended; the    *)
(* values come from the cache now.                                         *)
PopStep(i) ==
  /\ jobs[i].op = "step"
  /\ \A j \in DOMAIN jobs : ~ jobs[j].pump /\ (jobs[j].op = "step" => i <= j)
  /\ jobs' = [jobs EXCEPT ![i].op = "write", ![i].pump = TRUE,
                          ![i].calls = StepCalls(jobs[i].obj, jobs[i].lane, jobs[i].delta, cache)]
  /\ UNCHANGED <<ui, inbox, cache, check, readAll, presses>>

Ends(i, u) == ui' = u /\ jobs' = RemoveAt(jobs, i)

(* A write goes out: the cache takes its value at the call.  Nothing goes  *)
(* out during a read-all (_wait_refresh_idle).                             *)
Call(i, j, n) ==
  IF Raises(j.obj, j.calls[n])
  THEN Ends(i, IF n = 1 THEN ui ELSE Behind(ui, j.obj)) /\ UNCHANGED cache
  ELSE /\ cache' = Written(j.obj, j.calls[n], cache)
       /\ jobs' = [jobs EXCEPT ![i].done = n]
       /\ UNCHANGED ui

StartWrite(i) ==
  LET j == jobs[i] IN
  /\ j.op = "write" /\ j.done = 0 /\ LockFree /\ readAll.at = "off"
  /\ IF Refused(j.obj, j.calls) THEN Ends(i, ui) /\ UNCHANGED cache ELSE Call(i, j, 1)
  /\ UNCHANGED <<inbox, check, readAll, presses>>

LanesWritten(j) == UNION {DOMAIN j.calls[k] : k \in DOMAIN j.calls}

(* A call has returned: the next one, or the end of the write.             *)
CallReturns(i) ==
  LET j == jobs[i] IN
  /\ j.op = "write" /\ j.done > 0
  /\ IF j.done < Len(j.calls) THEN Call(i, j, j.done + 1)
     ELSE /\ Ends(i, IF j.obj \in Mem THEN RefreshLanes(ui, j.obj, LanesWritten(j), cache)
                     ELSE RefreshRow(ui, j.key, j.obj, 0, cache))
          /\ UNCHANGED cache
  /\ UNCHANGED <<inbox, check, readAll, presses>>

CallFails(i) ==
  /\ jobs[i].op = "write" /\ jobs[i].done > 0
  /\ Ends(i, Behind(ui, jobs[i].obj))
  /\ UNCHANGED <<inbox, cache, check, readAll, presses>>

(* _read_row_async: the lane of a memory, or all of the object.            *)
ReadReturns(i) ==
  LET j == jobs[i] IN
  /\ j.op = "read" /\ LockFree
  /\ \E n \in Found :
       cache' = [cache EXCEPT ![j.obj] = [x \in DOMAIN @ |-> IF j.obj \in Mem /\ j.lane \notin {0, x} THEN @[x] ELSE n]]
  /\ Ends(i, Log(RefreshRow(ui, j.key, j.obj, j.lane, cache'), {j.obj}, cache'))
  /\ UNCHANGED <<inbox, check, readAll, presses>>

(* _read_mem_vec_async: the lanes of the memory, if it is still shown.     *)
MemReturns(i) ==
  LET o == jobs[i].obj IN
  /\ jobs[i].op = "show" /\ LockFree
  /\ Brings({o})
  /\ Ends(i, IF ui.view = o THEN [Paint(ui, KeysOf(ui, o) \ {1}, cache') EXCEPT !.behind = @ \ {o}] ELSE ui)
  /\ UNCHANGED <<inbox, check, readAll, presses>>

ObjectsOf(v) == IF v \in Mem THEN {v} ELSE Range(Regs[v]) \cup Range(Mems[v])

(* _read_module_async and _read_mem_async.                                 *)
TreeReturns(i) ==
  LET v == jobs[i].obj IN
  /\ jobs[i].op = "tree" /\ LockFree
  /\ Brings(ObjectsOf(v))
  /\ Ends(i, Log(RefreshShown(ui, cache'), ObjectsOf(v), cache'))
  /\ UNCHANGED <<inbox, check, readAll, presses>>

(* A read of a row that fails is logged.  One of a node of the tree raises *)
(* out of its worker, which closes the app.                                *)
ReadFails(i) ==
  /\ jobs[i].op \in {"read", "show"} /\ LockFree
  /\ Ends(i, ui)
  /\ UNCHANGED <<inbox, cache, check, readAll, presses>>

TreeFails(i) ==
  /\ jobs[i].op = "tree" /\ LockFree
  /\ ui' = [ui EXCEPT !.focus = "closed"]
  /\ jobs' = <<>> /\ inbox' = <<>>
  /\ check' = FALSE /\ readAll' = [at |-> "off", key |-> 0]
  /\ UNCHANGED <<cache, presses>>

-----------------------------------------------------------------------------
Keys ==
  \/ \E w \in {"tree", "table", "log", "input", "regio"} : FocusOn(w)
  \/ \E k \in DOMAIN RowsShown(ui) : MoveCursor(k)
  \/ \E v \in View : SelectNode(v)
  \/ EnterRow
  \/ \E t \in Texts : Type(t)
  \/ EnterText
  \/ Escape
  \/ SetStepValue
  \/ ToggleValueBits
  \/ ToggleExpandVec
  \/ \E sign \in {1, -1} : StepSelected(sign)
  \/ ReadSelectedRow
  \/ \E v \in View : ReadSelectedModule(v)
  \/ LogCursor
  \/ \E d \in {1, -1} : LogCursorMove(d)
  \/ LogCursorSelect
  \/ ClearLog
  \/ \E a \in Assets : LocateRegmap(a)
  \/ CheckAsserts
  \/ ReadAllModules

EditNext ==
  \/ Keys
  \/ HandleMessage
  \/ CheckEnds
  \/ ReadAllReturns
  \/ ReadAllFails
  \/ RebuildEnds
  \/ \E i \in DOMAIN jobs :
       \/ PopStep(i)
       \/ StartWrite(i)
       \/ CallReturns(i)
       \/ CallFails(i)
       \/ ReadReturns(i)
       \/ MemReturns(i)
       \/ TreeReturns(i)
       \/ ReadFails(i)
       \/ TreeFails(i)

EditSpec == EditInit /\ [][EditNext]_editVars

-----------------------------------------------------------------------------
(* What is typed into an edit is written to the register or memory, and to *)
(* the lanes, that the edit was opened for (_edit_cursor_row,              *)
(* on_input_submitted), no matter which edits were left open before it and *)
(* what ran in between.  There is one exception: a node that was selected  *)
(* again after the tree was rebuilt has replaced the table or, for the     *)
(* edit of a whole row, moved the cursor.                                  *)
WritesEditedRow ==
  \A i \in DOMAIN jobs :
    LET j == jobs[i] IN
    j.op = "write" /\ j.meant # None /\ j.kept =>
      j.obj = j.meant.obj /\ LanesWritten(j) = Range(j.meant.lanes)

(* A cell shows what the cache holds of its own row, whatever ends after   *)
(* the table has changed: only a write under way, or a job that ended and  *)
(* left the row as it was (it failed, the table had been rebuilt, or it    *)
(* read more of a memory than the lane whose row it found at its key),     *)
(* leaves it behind.                                                       *)
ShowsCache ==
  readAll.at # "rebuild" /\ ui.focus # "closed" =>
    \A k \in DOMAIN ui.cells :
      LET row == RowsShown(ui)[k] IN
      \/ row.kind = "mem"
      \/ row.obj \in ui.behind
      \/ \E i \in DOMAIN jobs : jobs[i].done > 0 /\ jobs[i].obj = row.obj
      \/ ui.cells[k] = CellOf(row, cache)

(* A hex text of a register with a value conversion sets the bits of the   *)
(* register as typed (_is_raw_write).                                      *)
HexSetsBits ==
  \A i \in DOMAIN jobs : \A n \in DOMAIN jobs[i].calls : \A x \in DOMAIN jobs[i].calls[n] :
    LET p == jobs[i].calls[n][x] IN
    p.typed.hex /\ HasConvert(jobs[i].obj) => RawOfPut(jobs[i].obj, p) = p.typed.n
=============================================================================
