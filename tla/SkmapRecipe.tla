----------------------------- MODULE SkmapRecipe -----------------------------
(***************************************************************************)
(* From the declaration of a register in a recipe to the register of the   *)
(* generated module: the options (code_generator_parse_recipe.py), the     *)
(* accessors (code_generator_py.py) and the layout (module.py).            *)
(*                                                                         *)
(* A declaration is                                                        *)
(*   [kind  |-> "u", "s" or "b" (flags),  w |-> bits, 0 if not given,      *)
(*    vec   |-> lanes, 0 for a scalar,    acc |-> "ro", "rc", "rw", "wt",  *)
(*    ass   |-> a name of Ass,            float |-> v_type is "f",         *)
(*    check, wr, rd |-> sources of v_check, v_convert_wr and v_convert_rd, *)
(*    flags |-> sequence of [bit |-> -1 if not given, len |-> 0 for a      *)
(*              single flag, ass]]                                         *)
(***************************************************************************)
EXTENDS SkmapExpr, SequencesExt

Ass == [none |-> -1, passed |-> 0, debug |-> 1, info |-> 2, warn |-> 3, error |-> 4, fatal |-> 5]

Given(src) == src # <<>>
FlagWidth(f) == IF f.len = 0 THEN 1 ELSE f.len

(* parse_recipe_flags: a flag without a bit follows the one before it.  The*)
(* width is where the last one ends.                                       *)
PlaceFlags(flags) ==
  FoldLeft(LAMBDA acc, f :
             LET bit == IF f.bit = -1 THEN acc.next ELSE f.bit
             IN [placed |-> Append(acc.placed, [f EXCEPT !.bit = bit]), next |-> bit + FlagWidth(f)],
           [placed |-> <<>>, next |-> 0], flags)

(* parse_recipe_v_options: which options go together.                      *)
OptionsAllowed(d) ==
  /\ ~ (Given(d.wr) /\ Given(d.rd))
  /\ d.flags # <<>> => ~ (Given(d.check) \/ Given(d.wr) \/ Given(d.rd) \/ d.float)
  /\ Given(d.wr) \/ Given(d.rd) => Given(d.check) \/ d.float
  /\ d.float => Given(d.wr) \/ Given(d.rd)

(* to_python_source has no spelling for a fraction.                        *)
Renders(e) == ~ HasFraction(e)

(* RecipeVar and the constructor call that is generated for it: a register,*)
(* or Err if the recipe is refused.                                        *)
RegOf(d, pl, check, conv) ==
  IF ~ OptionsAllowed(d) \/ (d.w = 0 /\ d.flags = <<>>) \/ (d.w > 0 /\ pl.next > d.w) THEN Err
  ELSE IF check = Err \/ conv = Err THEN Err
  ELSE IF conv # None /\ ~ (Renders(conv.wr) /\ Renders(conv.rd)) THEN Err
  ELSE [kind |-> d.kind, w |-> IF d.w = 0 THEN pl.next ELSE d.w, vec |-> d.vec, acc |-> d.acc, ass |-> d.ass,
        check |-> check, conv |-> conv, flags |-> pl.placed]

MakeReg(d) ==
  RegOf(d, PlaceFlags(d.flags),
        IF Given(d.check) THEN ParseCheck(d.check, d.float) ELSE None,
        IF Given(d.wr) THEN ConvertWr(d.wr, d.float)
        ELSE IF Given(d.rd) THEN ConvertRd(d.rd, d.float) ELSE None)

-----------------------------------------------------------------------------
(* The functions the generated module offers for a register.               *)

(* all_reg_value_functions_str_not_flag: writes of the whole register, of  *)
(* one lane, and the functions that clear.                                 *)
Offers(r, op) ==
  CASE op = "write"      -> r.acc = "rw" \/ (r.acc = "wt" /\ r.vec = 0)
    [] op = "write_idx"  -> r.acc \in {"rw", "wt"} /\ r.vec > 0
    [] op = "clear"      -> r.acc = "rc"
    [] op = "clear_idx"  -> r.acc = "rc" /\ r.vec > 0
    [] op = "converted"  -> r.conv # None
    [] op = "read"       -> TRUE

(* all_reg_value_functions_str_is_flag.                                    *)
OffersFlag(r, op) ==
  CASE op = "write" -> r.acc \in {"rw", "wt"}
    [] op = "clear" -> r.acc = "rc"

-----------------------------------------------------------------------------
(* The register map of the module, in bytes from its base.                 *)

CeilMultiple(n, m) == ((n + m - 1) \div m) * m

(* promote_to_sw_w, in bytes.                                              *)
SwBytes(w) == CHOOSE p \in {2 ^ i : i \in 0 .. 4} : p * 8 >= w /\ (p = 1 \/ p * 4 < w)

(* _byte_aligment_from_val_width, and elem_offset of a RegVec.             *)
Alignment(r, align) == LET b == SwBytes(r.w) IN IF b > align THEN b ELSE align

Lanes(r) == 0 .. (IF r.vec = 0 THEN 0 ELSE r.vec - 1)

(* Reg.size, RegVec.size.                                                  *)
Size(r, align) == IF r.vec = 0 THEN SwBytes(r.w) ELSE Alignment(r, align) * r.vec

(* Module._add_reg_var, one register after the other, from the word `base` *)
(* where the constants end.                                                *)
Layout(rs, align, base) ==
  FoldLeft(LAMBDA m, r :
             LET a == Alignment(r, align)
                 addr == CeilMultiple(m.next, a)
             IN [regs |-> Append(m.regs, r @@ [addr |-> addr, elem |-> SwBytes(r.w), off |-> a]),
                 next |-> CeilMultiple(addr + Size(r, align), a)],
           [regs |-> <<>>, next |-> base], rs)
=============================================================================
