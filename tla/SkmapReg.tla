------------------------------ MODULE SkmapReg -------------------------------
(***************************************************************************)
(* A module made from a recipe, and its registers in use (reg.py): values  *)
(* and user values are written whole, by lane, by flag or as a list, checked*)
(* and converted, put into bytes in the cache of the module and sent to the*)
(* device.  Each call runs to its end before the next (calls that overlap  *)
(* are the subject of SkmapModule).                                        *)
(***************************************************************************)
EXTENDS SkmapRecipe

CONSTANTS
  Recipes,  \* [align, base, var: sequence of declarations, calls: bound on
            \* the calls made on the module]
  Raw,      \* raw values a caller writes
  User      \* user values a caller writes: numbers

VARIABLES
  recipe,   \* what the module is generated from
  stage,    \* "recipe", "refused" or "module"
  regs,     \* the registers of the module, laid out
  cache,    \* Module._cache: byte address -> byte
  dev,      \* the device behind it
  calls,    \* calls made so far
  last      \* the last call: register, what it wrote where, if it returned

vars == <<recipe, stage, regs, cache, dev, calls, last>>

NoCall == [reg |-> 0, put |-> <<>>, given |-> {}, ok |-> TRUE]

-----------------------------------------------------------------------------
(* Bytes and numbers.                                                      *)

(* int.to_bytes of n bytes, signed or not; int.from_bytes.                 *)
ToBytes(v, n) == [i \in 1 .. n |-> IF i > 3 THEN (IF v < 0 THEN 255 ELSE 0) ELSE (v \div 256 ^ (i - 1)) % 256]
UintAt(m, a, n) == FoldLeft(LAMBDA acc, i : 256 * acc + m[a + n - i], 0, [j \in 1 .. n |-> j])
PutBytes(m, a, b) == [i \in DOMAIN m |-> IF i >= a /\ i < a + Len(b) THEN b[i - a + 1] ELSE m[i]]

(* cast_uint_to_sint.                                                      *)
CastToSint(u, w) == IF u >= 2 ^ (w - 1) THEN u - 2 ^ w ELSE u

LaneAddr(r, i) == r.addr + i * r.off

(* Reg.read_value_cached, RegVec.read_idx_value_cached.                    *)
ReadIdx(m, r, i) ==
  LET u == UintAt(m, LaneAddr(r, i), r.elem) % 2 ^ r.w IN IF r.kind = "s" THEN CastToSint(u, r.w) ELSE u

(* RFlag.read_bool_cached and read_list_bool_cached.                       *)
FlagBits(f) == f.bit .. (f.bit + FlagWidth(f) - 1)
ReadFlag(m, r, f) == {b \in FlagBits(f) : (ReadIdx(m, r, 0) \div 2 ^ b) % 2 = 1}

-----------------------------------------------------------------------------
(* Checks and conversions.                                                 *)

(* ValueConvert.from_raw and to_raw; Err where the expression raises.      *)
FromRaw(r, v) == IF r.conv = None THEN Whole(v) ELSE RunValue(r.conv.rd, Whole(v))
ToRaw(r, x) ==
  LET y == IF r.conv = None THEN x ELSE RunValue(r.conv.wr, x) IN IF y = Err THEN Err ELSE Round(y)

(* Reg.ass_check_value_limit.                                              *)
AssOfValue(r, x) ==
  IF r.check = None THEN "none"
  ELSE IF Truth(RunValue(r.check, x)) THEN "none"
  ELSE IF r.ass # "none" THEN r.ass ELSE "error"

(* Mutant: any value that fails its check is let through.                  *)
PassesLimit_Warns(r, x) == x # Err

(* check_value_limit does not raise: below error a failed check is let by. *)
PassesLimit(r, x) == x # Err /\ Ass[AssOfValue(r, x)] < Ass["error"]

(* check_value_fits_reg.                                                   *)
FitsReg(r, v) ==
  IF r.kind = "s" THEN v \in -(2 ^ (r.w - 1)) .. (2 ^ (r.w - 1) - 1) ELSE v \in 0 .. (2 ^ r.w - 1)

(* The assertion of write_bytes_cached and write_idx_bytes_cached.         *)
AccWritable(r, zero) == r.acc \in {"rw", "wt"} \/ (r.acc = "rc" /\ zero)

(* Reg.ass_check_cached, RegVec.ass_check_cached: the worst of the lanes.  *)
AssOf(m, r) ==
  IF r.check # None
  THEN LET A == {AssOfValue(r, FromRaw(r, ReadIdx(m, r, i))) : i \in Lanes(r)}
       IN CHOOSE a \in A : \A b \in A : Ass[b] <= Ass[a]
  ELSE IF r.ass = "none" THEN "none"
  ELSE IF \E i \in Lanes(r) : ReadIdx(m, r, i) # 0 THEN r.ass ELSE "passed"

-----------------------------------------------------------------------------
(* The module.                                                             *)

(* Every declaration with the register made of it.                         *)
Decls == UNION {Range(rc.var) : rc \in Recipes}
Made == [d \in Decls |-> MakeReg(d)]

Init ==
  /\ recipe \in Recipes
  /\ stage = "recipe"
  /\ regs = <<>> /\ cache = <<>> /\ dev = <<>>
  /\ calls = 0 /\ last = NoCall

(* Recipe(d), generate_py_module and Module.__init__.                      *)
Generate ==
  LET rs == [i \in DOMAIN recipe.var |-> Made[recipe.var[i]]]
      map == Layout(rs, recipe.align, recipe.base)
      bytes == recipe.base .. (CeilMultiple(map.next, 4) - 1)
  IN /\ stage = "recipe"
     /\ IF \E i \in DOMAIN rs : rs[i] = Err
        THEN stage' = "refused" /\ UNCHANGED <<regs, cache, dev>>
        ELSE /\ stage' = "module"
             /\ regs' = map.regs
             /\ cache' = [a \in bytes |-> 0]
             /\ dev' = cache'
     /\ UNCHANGED <<recipe, calls, last>>

(* Module.write_bytes: from the cache to the device, up to a multiple of   *)
(* the byte alignment.                                                     *)
Sent(m, a, n) ==
  [i \in DOMAIN dev |-> IF i >= a /\ i < a + CeilMultiple(n, recipe.align) THEN m[i] ELSE dev[i]]

(* A call on register k that writes `put` to lanes (or to flag j, as -j),  *)
(* with values given for some of them: it raises if not ok, else the cache *)
(* becomes m and its n bytes at a are sent.                                *)
Call(k, put, given, ok, m, a, n) ==
  /\ stage = "module" /\ calls < recipe.calls
  /\ calls' = calls + 1
  /\ last' = [reg |-> k, put |-> put, given |-> given, ok |-> ok]
  /\ IF ok THEN cache' = m /\ dev' = Sent(m, a, n) ELSE UNCHANGED <<cache, dev>>
  /\ UNCHANGED <<recipe, stage, regs>>

LaneOk(r, v) == FitsReg(r, v) /\ PassesLimit(r, FromRaw(r, v))

(* Reg.write_uint, write_sint and write_bool of a scalar register.         *)
Write(k, v) ==
  LET r == regs[k]
  IN /\ r.vec = 0 /\ r.flags = <<>> /\ Offers(r, "write")
     /\ Call(k, 0 :> v, {0}, LaneOk(r, v) /\ AccWritable(r, v = 0),
             PutBytes(cache, r.addr, ToBytes(v, r.elem)), r.addr, r.elem)

(* Reg.write_converted: the user value is checked, then the raw value it   *)
(* is rounded to and the user value that stands for.                       *)
WriteConverted(k, x) ==
  LET r == regs[k]
      v == IF ToRaw(r, x) = Err THEN 0 ELSE ToRaw(r, x).n
  IN /\ r.vec = 0 /\ Offers(r, "write") /\ Offers(r, "converted")
     /\ Call(k, 0 :> v, {0}, PassesLimit(r, x) /\ ToRaw(r, x) # Err /\ LaneOk(r, v) /\ AccWritable(r, v = 0),
             PutBytes(cache, r.addr, ToBytes(v, r.elem)), r.addr, r.elem)

(* RegVec.write_idx_uint and write_idx_sint.                               *)
WriteIdx(k, i, v) ==
  LET r == regs[k]
      a == LaneAddr(r, i)
  IN /\ i \in Lanes(r) /\ (Offers(r, "write_idx") \/ (Offers(r, "clear_idx") /\ v = 0))
     /\ Call(k, i :> v, {i}, LaneOk(r, v) /\ AccWritable(r, v = 0),
             PutBytes(cache, a, ToBytes(v, r.elem)), a, r.elem)

(* RegVec.write_converted_idx.                                             *)
WriteConvertedIdx(k, i, x) ==
  LET r == regs[k]
      v == IF ToRaw(r, x) = Err THEN 0 ELSE ToRaw(r, x).n
      a == LaneAddr(r, i)
  IN /\ i \in Lanes(r) /\ Offers(r, "write_idx") /\ Offers(r, "converted")
     /\ Call(k, i :> v, {i}, PassesLimit(r, x) /\ ToRaw(r, x) # Err /\ LaneOk(r, v),
             PutBytes(cache, a, ToBytes(v, r.elem)), a, r.elem)

(* RegVec._list_int_to_bytes: the lanes at their offsets, the rest zero.   *)
ListBytes(r, vs) ==
  [p \in 1 .. r.off * r.vec |->
     LET i == (p - 1) \div r.off
         b == (p - 1) % r.off
     IN IF i < Len(vs) /\ b < r.elem THEN ToBytes(vs[i + 1], r.elem)[b + 1] ELSE 0]

(* RegVec.write_list_uint and write_list_sint: fewer values than lanes are *)
(* not refused.                                                            *)
WriteList(k, vs) ==
  LET r == regs[k]
  IN /\ r.vec >= Len(vs) /\ Offers(r, "write")
     /\ Call(k, [i \in Lanes(r) |-> IF i < Len(vs) THEN vs[i + 1] ELSE 0],
             {i \in Lanes(r) : i < Len(vs)}, \A i \in DOMAIN vs : LaneOk(r, vs[i]),
             PutBytes(cache, r.addr, ListBytes(r, vs)), r.addr, r.off * r.vec)

(* RegVec.write_converted: one value per lane.                             *)
WriteListConverted(k, xs) ==
  LET r == regs[k]
      raws == [i \in DOMAIN xs |-> IF ToRaw(r, xs[i]) = Err THEN 0 ELSE ToRaw(r, xs[i]).n]
  IN /\ r.vec > 0 /\ Offers(r, "write") /\ Offers(r, "converted")
     /\ Call(k, [i \in Lanes(r) |-> IF i < Len(xs) THEN raws[i + 1] ELSE 0], Lanes(r),
             /\ Len(xs) = r.vec
             /\ \A i \in DOMAIN xs : PassesLimit(r, xs[i]) /\ ToRaw(r, xs[i]) # Err /\ LaneOk(r, raws[i]),
             PutBytes(cache, r.addr, ListBytes(r, raws)), r.addr, r.off * r.vec)

(* Mutant: write_list_bool leaves the bits of the flag that were set.      *)
SetBits_Ors(old, bits, on) == old \cup on

(* set_bits of basic.py, on sets of bits.                                  *)
SetBits(old, bits, on) == (old \ bits) \cup on

BitsOf(n, w) == {b \in 0 .. (w - 1) : (n \div 2 ^ b) % 2 = 1}
FromBits(S) == FoldLeft(LAMBDA acc, b : acc + (IF b \in S THEN 2 ^ b ELSE 0), 0, [j \in 1 .. 16 |-> j - 1])

(* RFlag.write_bool: one bit of one byte of the cached register, which is  *)
(* then sent whole.                                                        *)
WriteFlag(k, j, on) ==
  LET r == regs[k]
      f == r.flags[j]
      old == BitsOf(UintAt(cache, r.addr, r.elem), 8 * r.elem)
      new == SetBits(old, {f.bit}, IF on THEN {f.bit} ELSE {})
  IN /\ j \in DOMAIN r.flags /\ f.len = 0 /\ OffersFlag(r, "write")
     /\ Call(k, (-j) :> (IF on THEN {f.bit} ELSE {}), {}, f.bit < 8 * r.elem,
             PutBytes(cache, r.addr, ToBytes(FromBits(new), r.elem)), r.addr, r.elem)

(* RFlag.write_list_bool: the bits of the flag in the value of the register.*)
WriteListBool(k, j, on) ==
  LET r == regs[k]
      f == r.flags[j]
      new == SetBits(BitsOf(ReadIdx(cache, r, 0), r.w), FlagBits(f), on)
  IN /\ j \in DOMAIN r.flags /\ f.len > 0 /\ on \subseteq FlagBits(f) /\ OffersFlag(r, "write")
     /\ Call(k, (-j) :> on, {}, FitsReg(r, FromBits(new)),
             PutBytes(cache, r.addr, ToBytes(FromBits(new), r.elem)), r.addr, r.elem)

(* Reg.write_zero, also of a vector register: every byte of it.            *)
WriteZero(k) ==
  LET r == regs[k]
      n == IF r.vec = 0 THEN r.elem ELSE r.off * r.vec
  IN /\ Offers(r, "clear")
     /\ Call(k, [i \in Lanes(r) |-> 0], Lanes(r), LaneOk(r, 0) /\ AccWritable(r, TRUE),
             PutBytes(cache, r.addr, [p \in 1 .. n |-> 0]), r.addr, n)

(* Reg.read_bytes: the register as the device has it, up to a multiple of  *)
(* the byte alignment.                                                     *)
Read(k) ==
  LET r == regs[k]
      n == CeilMultiple(IF r.vec = 0 THEN r.elem ELSE r.off * r.vec, recipe.align)
  IN /\ stage = "module" /\ calls < recipe.calls
     /\ calls' = calls + 1
     /\ cache' = [i \in DOMAIN cache |-> IF i >= r.addr /\ i < r.addr + n THEN dev[i] ELSE cache[i]]
     /\ last' = NoCall
     /\ UNCHANGED <<recipe, stage, regs, dev>>

(* The firmware changes a register the software only reads or clears.      *)
Firmware(k, i, v) ==
  LET r == regs[k]
  IN /\ stage = "module" /\ calls < recipe.calls /\ r.acc \in {"ro", "rc"} /\ i \in Lanes(r) /\ FitsReg(r, v)
     /\ calls' = calls + 1
     /\ dev' = PutBytes(dev, LaneAddr(r, i), ToBytes(v % 2 ^ r.w, r.elem))
     /\ last' = NoCall
     /\ UNCHANGED <<recipe, stage, regs, cache>>

Next ==
  \/ Generate
  \/ \E k \in DOMAIN regs :
       \/ \E v \in Raw : Write(k, v)
       \/ \E x \in User : WriteConverted(k, x)
       \/ \E i \in Lanes(regs[k]) : \/ \E v \in Raw : WriteIdx(k, i, v)
                                    \/ \E v \in Raw : Firmware(k, i, v)
                                    \/ \E x \in User : WriteConvertedIdx(k, i, x)
       \/ \E vs \in UNION {[1 .. n -> Raw] : n \in 1 .. 2} : WriteList(k, vs)
       \/ \E xs \in UNION {[1 .. n -> User] : n \in 1 .. 2} : WriteListConverted(k, xs)
       \/ \E j \in DOMAIN regs[k].flags : \/ \E on \in BOOLEAN : WriteFlag(k, j, on)
                                          \/ \E on \in SUBSET FlagBits(regs[k].flags[j]) : WriteListBool(k, j, on)
       \/ WriteZero(k)
       \/ Read(k)

Spec == Init /\ [][Next]_vars

-----------------------------------------------------------------------------
(* A reference for the language of the recipe: the operator that binds     *)
(* least is the last one of the lowest level outside parentheses.          *)

Depth(s, i) == Cardinality({j \in 1 .. i : s[j] = "("}) - Cardinality({j \in 1 .. (i - 1) : s[j] = ")"})
IsBinary(s, i) == i > 1 /\ i < Len(s) /\ s[i - 1] \notin Binary \cup {"!", "(", "**"}
Splits(s, ops) == {i \in DOMAIN s : s[i] \in ops /\ Depth(s, i) = 0 /\ IsBinary(s, i)}

RECURSIVE RefTree(_, _)
RefTree(s, fl) ==
  LET Both(i) == Op(RefTree(SubSeq(s, 1, i - 1), fl), s[i], RefTree(SubSeq(s, i + 1, Len(s)), fl))
      lv == {l \in DOMAIN Level : Splits(s, Level[l]) # {}}
  IN IF lv # {} THEN Both(Max(Splits(s, Level[Min(lv)])))
     ELSE IF Head(s) = "-" THEN Op(Whole(0), "-", RefTree(Tail(s), fl))
     ELSE IF Head(s) = "+" THEN RefTree(Tail(s), fl)
     ELSE IF Head(s) = "!" THEN Op(RefTree(Tail(s), fl), "!", None)
     ELSE IF Splits(s, {"**"}) # {} THEN Both(Min(Splits(s, {"**"})))
     ELSE IF Head(s) = "(" THEN RefTree(SubSeq(s, 2, Len(s) - 1), fl)
     ELSE IF Head(s) \in DOMAIN Arity THEN Fn(Head(s), <<RefTree(SubSeq(s, 3, Len(s) - 1), fl)>>)
     ELSE IF Head(s) = "v" THEN Val(fl)
     ELSE IF Head(s) \in DOMAIN Number THEN Number[Head(s)]
     ELSE Name(Head(s))

AsWritten == [d \in Decls |->
  \A s \in {d.check, d.wr, d.rd} \ {<<>>} : \A x \in User :
    LET tree == Parse(s, d.float)
        want == RunValue(RefTree(s, d.float), x)
        got == IF tree = Err THEN Err ELSE RunValue(tree, x)
    IN IF want = Err THEN got = Err ELSE got # Err /\ Same(got, want)]

(* The parser folds constants while it builds the tree; the tree still has *)
(* the value of the source, for every v, and a well-formed source is       *)
(* refused only if it has none (_RecipeExprParser,                         *)
(* make_resolvable_function).                                              *)
ParsesAsWritten == stage = "recipe" => \A i \in DOMAIN recipe.var : AsWritten[recipe.var[i]]

(* An integer division in a tree: the recipe is evaluated with a ceiling,  *)
(* the generated Python with a floor.                                      *)
RECURSIVE DividesInts(_)
DividesInts(e) ==
  CASE e.k = "op" -> (e.op = "/" /\ ~ UsesFloat(e)) \/ DividesInts(e.l) \/ DividesInts(e.r)
    [] e.k = "fn" -> \E i \in DOMAIN e.ps : DividesInts(e.ps[i])
    [] OTHER -> FALSE

RoundTrips(r) ==
  \A v \in {u \in Raw : FitsReg(r, u) /\ FromRaw(r, u) # Err} :
    LET back == ToRaw(r, FromRaw(r, v)) IN back = Err \/ Same(back, Whole(v))

(* A conversion that is accepted takes a raw value to a user value and back*)
(* at run time (or raises), whichever side the recipe gave and with k      *)
(* registers the recipe could not verify (invert_resolvable, ValueConvert),*)
(* unless an integer division is left in it.                               *)
ConvertsBack == calls = 0 =>
  \A k \in DOMAIN regs : LET c == regs[k].conv IN
    c # None => DividesInts(c.wr) \/ DividesInts(c.rd) \/ RoundTrips(regs[k])

(* The value of a lane or flag (-j) of register k.                         *)
Cells(k) == Lanes(regs[k]) \cup {-j : j \in DOMAIN regs[k].flags}
Value(m, k, c) == IF c < 0 THEN ReadFlag(m, regs[k], regs[k].flags[-c]) ELSE ReadIdx(m, regs[k], c)

(* A flag inside its register: with its bit given, a flag may lie beyond   *)
(* the width, which is where the last flag of the list ends.               *)
Inside(k, c) == c < 0 => \A b \in FlagBits(regs[k].flags[-c]) : b < regs[k].w

Overlaps(k, c, e) == c < 0 /\ e < 0 /\ FlagBits(regs[k].flags[-c]) \cap FlagBits(regs[k].flags[-e]) # {}

(* A write that returns is what the device holds when that lane or flag is *)
(* read, and no other register, lane or flag of the device reads different *)
(* from before: alignment, padding, sign and the read-modify-write of flags*)
(* keep to the bits of the target (RegVec._list_int_to_bytes,              *)
(* RFlag.write_bool_cached, Module.write_bytes).                           *)
WritesOwnBits ==
  [][last'.ok /\ last'.reg # 0 /\ last' # last =>
       \A k \in DOMAIN regs : \A c \in Cells(k) : Inside(k, c) =>
         IF k = last'.reg /\ c \in DOMAIN last'.put THEN Value(dev', k, c) = last'.put[c]
         ELSE \/ Value(dev', k, c) = Value(dev, k, c)
              \/ k = last'.reg /\ \E e \in DOMAIN last'.put : (e >= 0 /\ c < 0) \/ (e < 0 /\ c >= 0) \/ Overlaps(k, c, e)]_vars

(* A register whose check refuses values is not reported by the assert     *)
(* check for what a call that returned wrote, also when the conversion had *)
(* to round the user value (write_converted against ass_check_limit).      *)
WrittenNotReported ==
  LET r == regs[last.reg]
  IN (last.ok /\ last.reg # 0 /\ r.check # None /\ (r.ass = "none" \/ Ass[r.ass] >= Ass["error"])) =>
         /\ \A i \in last.given : AssOfValue(r, FromRaw(r, ReadIdx(dev, r, i))) = "none"
         /\ last.given = Lanes(r) => AssOf(dev, r) = "none"
=============================================================================
