----------------------------- MODULE SkmapTable ------------------------------
(***************************************************************************)
(* The register map table of skmap_ui/app.py and the texts of its input    *)
(* line: which rows a module or an external memory has, what their cells   *)
(* show of the skmap cache, how a value is offered for editing, how a text *)
(* is parsed, and what a write puts into the register.                     *)
(*                                                                         *)
(* Everything has its lanes 1 .. n in the cache: the elements of a vector, *)
(* the flags of a RegFlags, 1 alone for a scalar.  Lane 0 is the whole     *)
(* object.  A row's key (r0, r1, ...) is its place in the table.           *)
(***************************************************************************)
EXTENDS Integers, SequencesExt

CONSTANTS
  Top,     \* top_module
  Kids,    \* the other modules of the tree
  Regs,    \* per module, its registers in the order of the map
  Mems,    \* per module, its external memories (ExternalMemVec)
  Kind,    \* per register "uint", "bits" or "flag" (a RegFlags)
  VecLen,  \* per object the length of its vector, 0 for a scalar; the flags of a RegFlags
  Acc,     \* per object its access
  Size,    \* 2 ** width
  ToRaw,   \* per register with a value conversion, its v_convert_wr
  Legal,   \* per register but a RegFlags, the user values that pass its v_check
  Watch    \* the assets with an assert in the order of the tree, [obj, lane]

Module == {Top} \cup Kids
Mem == UNION {Range(Mems[m]) : m \in Module}
Register == UNION {Range(Regs[m]) : m \in Module}
View == Module \cup Mem
Value == 0 .. Size - 1

HomeOf(o) == CHOOSE m \in Module : o \in Range(Regs[m]) \cup Range(Mems[m])
IsFlags(o) == o \in Register /\ Kind[o] = "flag"
IsVec(o) == VecLen[o] > 0 /\ ~ IsFlags(o)
HasConvert(o) == o \in DOMAIN ToRaw
LanesOf(o) == 1 .. IF VecLen[o] = 0 THEN 1 ELSE VecLen[o]
LaneSeq(o) == [i \in LanesOf(o) |-> i]

ASSUME TreeAssumption ==
  \A m \in Module : Regs[m] \in Seq(Register) /\ Mems[m] \in Seq(Mem)
ASSUME WatchAssumption ==
  /\ Watch \in Seq([obj : Register, lane : Nat])
  /\ \A i \in DOMAIN Watch :
       LET a == Watch[i] IN a.lane # 0 => IsFlags(a.obj) /\ a.lane \in LanesOf(a.obj)
ASSUME SizeAssumption == Size \in Nat /\ Size > 1
ASSUME ObjectAssumption ==
  /\ Register \cap Mem = {} /\ Module \cap Mem = {}
  /\ \A o \in Register \cup Mem : VecLen[o] \in Nat
  /\ \A o \in Mem : VecLen[o] > 0
ASSUME ConvertAssumption ==
  \A r \in DOMAIN ToRaw : r \in Register /\ Kind[r] # "flag" /\ ToRaw[r] \in [Value -> Value] /\ Range(ToRaw[r]) = Value

-----------------------------------------------------------------------------
(* The rows of the table.                                                  *)

Row(o, lane, kind) == [obj |-> o, lane |-> lane, kind |-> kind]

(* The register's own row, its lanes while _expand_vec is on, its flags.   *)
RegRows(r, expand) ==
  <<Row(r, 0, "own")>>
  \o (IF expand /\ IsVec(r) THEN [i \in LanesOf(r) |-> Row(r, i, "lane")] ELSE <<>>)
  \o (IF IsFlags(r) THEN [i \in LanesOf(r) |-> Row(r, i, "flag")] ELSE <<>>)

(* A memory in a module's map, and the header of its own view.             *)
MemRow(m) == Row(m, 0, "mem")

(* The lane rows of a memory's view follow its header.                     *)
MemLaneKey(lane) == lane + 1

MemRows(m) == <<MemRow(m)>> \o [i \in LanesOf(m) |-> Row(m, i, "lane")]

ModuleRows(m, expand) ==
  FlattenSeq([i \in DOMAIN Regs[m] |-> RegRows(Regs[m][i], expand)])
  \o [i \in DOMAIN Mems[m] |-> MemRow(Mems[m][i])]

(* Of a view, while _expand_vec is on or off.                              *)
Rows == [p \in View \X BOOLEAN |-> IF p[1] \in Mem THEN MemRows(p[1]) ELSE ModuleRows(p[1], p[2])]

(* What the cell of a row shows of the cache.  (Its number base follows    *)
(* _value_bits, and is that of the whole table.)                           *)
CellOf(row, cache) == IF row.lane = 0 THEN cache[row.obj] ELSE cache[row.obj][row.lane]

(* The cells of a table that was just built: a memory starts with its size.*)
FreshCells(rows, cache) ==
  [k \in DOMAIN rows |-> IF rows[k].kind = "mem" THEN <<>> ELSE CellOf(rows[k], cache)]

-----------------------------------------------------------------------------
(* Texts of the input line: a number, hex or decimal; Blank is no number.  *)

Blank == [hex |-> FALSE, n |-> -1]
Text == [hex : BOOLEAN, n : Nat] \cup {Blank}

(* The value of a RegFlags has a bit for each of its flags.                *)
FlagOf(n, i) == (n \div 2 ^ (i - 1)) % 2
ValuesOf(o) == IF IsFlags(o) THEN 0 .. 2 ^ VecLen[o] - 1 ELSE Value

RawOfUser(o, u) == IF HasConvert(o) THEN ToRaw[o][u] ELSE u
UserOf(o, raw) == CHOOSE u \in Value : RawOfUser(o, u) = raw

(* _is_raw_write: a hex text of a converted register is its bits.          *)
IsRawWrite(o, t) == HasConvert(o) /\ t.hex

(* _value_str: the number the table shows, in its base.                    *)
ValueStr(o, lane, bits, cache) ==
  LET raw == cache[o][lane] IN
  IF IsFlags(o)
  THEN [hex |-> FALSE, n |-> CHOOSE n \in ValuesOf(o) : \A i \in LanesOf(o) : FlagOf(n, i) = cache[o][i]]
  ELSE IF bits \/ (o \in Register /\ Kind[o] = "bits") THEN [hex |-> TRUE, n |-> raw]
  ELSE [hex |-> FALSE, n |-> UserOf(o, raw)]

(* ass_check_value_limit and the like: memories and flags take any value.  *)
PassesCheck(o, u) == o \in Mem \/ IsFlags(o) \/ u \in Legal[o]

(* _parse_lane returns a value.                                            *)
ParsesLane(o, t) == t.n \in ValuesOf(o) /\ (IsRawWrite(o, t) \/ PassesCheck(o, t.n))

-----------------------------------------------------------------------------
(* What is written to a lane: the bits as they are or a user value, if the *)
(* v_check applies to it, and the text that was typed for it, if any.      *)
Put(n, raw, typed) == [n |-> n, raw |-> raw, checked |-> TRUE, typed |-> typed]

RawOfPut(o, p) == IF p.raw THEN p.n ELSE RawOfUser(o, p.n)

(* _step_bits, for a lane that holds cur.                                  *)
StepBits(cur, delta) == (cur + delta) % Size

(* _toggle_bool_async of a flag, or of all of them.                        *)
Toggled(o, lane, cache) ==
  [i \in IF lane = 0 THEN LanesOf(o) ELSE {lane} |-> Put(1 - cache[o][i], TRUE, Blank)]

(* The calls of _step_reg_async and _step_mem_async: one for each lane.    *)
Stepped(o, lane, delta, cache) ==
  LET lanes == IF lane = 0 THEN LaneSeq(o) ELSE <<lane>>
      write(i) == [x \in {i} |-> Put(StepBits(cache[o][i], delta), TRUE, Blank)]
  IN [k \in DOMAIN lanes |-> write(lanes[k])]

StepCalls(o, lane, delta, cache) ==
  IF IsFlags(o) THEN <<Toggled(o, lane, cache)>> ELSE Stepped(o, lane, delta, cache)

(* The calls of an edit of several lanes, one for each.                    *)
LaneCalls(o, texts) ==
  [i \in DOMAIN texts |-> [x \in {i} |-> Put(texts[i].n, IsRawWrite(o, texts[i]), texts[i])]]

(* Zero for some lanes, one call for each (_clear_mem_lanes_async, and      *)
(* _write_vec_row_async for a lane of a register).                         *)
LaneZeros(lanes) == [i \in DOMAIN lanes |-> [x \in {lanes[i]} |-> Put(0, FALSE, Blank)]]

(* write_zero of a whole register.                                         *)
ZeroCall(o) == [x \in LanesOf(o) |-> Put(0, TRUE, Blank)]

(* _write_row_async of a single value.  The row of a vector takes it, when *)
(* nothing is converted, as the bytes of the whole vector.                 *)
ScalarCall(o, t) ==
  [x \in LanesOf(o) |-> IF IsFlags(o) THEN Put(FlagOf(t.n, x), TRUE, t)
                        ELSE IF x = 1 THEN Put(t.n, IsRawWrite(o, t), t)
                        ELSE [Put(0, TRUE, Blank) EXCEPT !.checked = FALSE]]

(* The register raises on a value that fails its check, and on a lane that *)
(* it does not have.                                                       *)
Raises(o, call) ==
  \/ ~ (DOMAIN call \subseteq LanesOf(o))
  \/ \E x \in DOMAIN call : call[x].checked /\ ~ PassesCheck(o, UserOf(o, RawOfPut(o, call[x])))

(* What _write_row_async and _write_vec_row_async test before the first    *)
(* call: the user values, of all lanes.                                    *)
Refused(o, calls) ==
  \E i \in DOMAIN calls : \E x \in DOMAIN calls[i] :
    o \in Register /\ ~ calls[i][x].raw /\ ~ PassesCheck(o, calls[i][x].n)

Written(o, call, cache) ==
  [cache EXCEPT ![o] = [x \in DOMAIN @ |-> IF x \in DOMAIN call THEN RawOfPut(o, call[x]) ELSE @[x]]]

(* The assets of some objects whose assert is triggered, in order.         *)
Triggered(objs, cache) ==
  LET Asserts(a) ==
        /\ a.obj \in objs
        /\ IF a.lane = 0 THEN \E i \in LanesOf(a.obj) : cache[a.obj][i] # 0 ELSE cache[a.obj][a.lane] # 0
  IN FlattenSeq([i \in DOMAIN Watch |-> IF Asserts(Watch[i]) THEN <<Watch[i]>> ELSE <<>>])

(* _asset_at, by the object an address lies in.                            *)
Assets == {[obj |-> o, lane |-> 0] : o \in Register \cup Mem}
=============================================================================
