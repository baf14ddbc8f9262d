------------------------------ MODULE SkmapExpr ------------------------------
(***************************************************************************)
(* Recipe expressions (code_generator_parse_resolvable.py): the parser with*)
(* its constant folding, the evaluation of constants while the recipe is   *)
(* parsed, and the derivation of the read side of a value conversion from  *)
(* its write side and back; with the evaluation of the same trees by the   *)
(* Python that code_generator_py.py writes.                                *)
(*                                                                         *)
(* A source is a sequence of tokens.  A number is a fraction n / d of a    *)
(* Python type: "i" int, "q" Fraction, "f" float (taken to be exact).      *)
(***************************************************************************)
EXTENDS Integers, Sequences, FiniteSets

CONSTANTS
  Number,  \* number tokens: [token -> number]
  Ipkg,    \* ipkg values, known in the recipe: [name -> int]
  KReg     \* k registers, known at run time alone: [name -> int]

Err == [k |-> "error"]
None == [k |-> "none"]

Whole(n) == [k |-> "num", n |-> n, d |-> 1, t |-> "i"]
Name(x) == [k |-> "name", id |-> x]
Val(fl) == [k |-> "v", fl |-> fl]
Op(l, op, r) == [k |-> "op", op |-> op, l |-> l, r |-> r]
Fn(f, ps) == [k |-> "fn", f |-> f, ps |-> ps]

IsNum(e) == e.k = "num"
IsInt(e) == IsNum(e) /\ e.t = "i"
IsIntOf(e, n) == IsInt(e) /\ e.n = n

-----------------------------------------------------------------------------
(* Python's arithmetic on these numbers.                                   *)

Abs(n) == IF n < 0 THEN -n ELSE n
FloorDiv(n, d) == IF d > 0 THEN n \div d ELSE (-n) \div (-d)
RECURSIVE Gcd(_, _)
Gcd(m, n) == IF n = 0 THEN Abs(m) ELSE Gcd(Abs(n), Abs(m) % Abs(n))

Type(a, b) == IF "f" \in {a.t, b.t} THEN "f" ELSE IF "q" \in {a.t, b.t} THEN "q" ELSE "i"

(* The number n / d of type t.                                             *)
Num(n, d, t) ==
  IF d = 0 THEN Err
  ELSE IF d = 1 THEN [k |-> "num", n |-> n, d |-> 1, t |-> t]
  ELSE LET g == Gcd(n, d)
           s == IF d < 0 THEN -1 ELSE 1
       IN [k |-> "num", n |-> s * (Abs(n) \div g) * (IF n < 0 THEN -1 ELSE 1), d |-> Abs(d) \div g, t |-> t]

Neg(a) == [a EXCEPT !.n = -@]
Plus(a, b) == Num(a.n * b.d + b.n * a.d, a.d * b.d, Type(a, b))
Times(a, b) == Num(a.n * b.n, a.d * b.d, Type(a, b))
Ratio(a, b, t) == Num(a.n * b.d, a.d * b.n, t)
Less(a, b) == a.n * b.d < b.n * a.d
Same(a, b) == a.n * b.d = b.n * a.d
Floor(a) == Whole(a.n \div a.d)
Ceil(a) == Whole(-((-a.n) \div a.d))
TrueDiv(a, b) == Ratio(a, b, "f")

Power(a, b) ==
  LET p[i \in Nat] == IF i = 0 THEN Whole(1) ELSE Times(a, p[i - 1])
  IN IF b.n < 0 THEN TrueDiv(Whole(1), p[-b.n]) ELSE p[b.n]

Truth(a) == a.n # 0
Bool(b) == Whole(IF b THEN 1 ELSE 0)

(* Round half away from zero (_round_to_int, reg.py round_half_away,       *)
(* recipe_functions.round).                                                *)
Round(a) ==
  IF a.t = "i" THEN a
  ELSE IF a.n >= 0 THEN Floor(Plus(a, Num(1, 2, "f"))) ELSE Neg(Floor(Plus(Neg(a), Num(1, 2, "f"))))

(* ceil_div of two ints.                                                   *)
CeilDiv(a, b) == IF b.n = 0 THEN Err ELSE Whole(-FloorDiv(-a.n, b.n))

(* bit_length() of a - 1.                                                  *)
Clog2(a) == Whole(IF a.n <= 1 THEN 0 ELSE CHOOSE w \in 1 .. 31 : 2 ^ w >= a.n /\ 2 ^ (w - 1) < a.n)

(* The operators both evaluations have in common; division is each's own.  *)
Apply(op, a, b) ==
  CASE op = "+"  -> Plus(a, b)
    [] op = "-"  -> Plus(a, Neg(b))
    [] op = "*"  -> Times(a, b)
    [] op = "**" -> Power(a, b)
    [] op = "%"  -> IF b.n = 0 THEN Err ELSE Plus(a, Neg(Times(b, Floor(Ratio(a, b, "q")))))
    [] op = "==" -> Bool(Same(a, b))
    [] op = "!=" -> Bool(~ Same(a, b))
    [] op = "<"  -> Bool(Less(a, b))
    [] op = "<=" -> Bool(~ Less(b, a))
    [] op = ">"  -> Bool(Less(b, a))
    [] op = ">=" -> Bool(~ Less(a, b))
    [] op = "&&" -> Bool(Truth(a) /\ Truth(b))
    [] op = "||" -> Bool(Truth(a) \/ Truth(b))

(* resolvable_to_int on a built-in, and recipe_functions.py at run time.   *)
CallFn(f, as) ==
  CASE f = "$clog2" -> Clog2(as[1])
    [] f = "$cdiv"  -> CeilDiv(as[1], as[2])
    [] f = "$round" -> Round(as[1])
    [] f = "$ceil"  -> Ceil(as[1])
    [] f = "$floor" -> Floor(as[1])
    [] f = "$float" -> [as[1] EXCEPT !.t = "f"]

Arity == [f \in {"$clog2", "$cdiv", "$round", "$ceil", "$floor", "$float"} |-> IF f = "$cdiv" THEN 2 ELSE 1]

-----------------------------------------------------------------------------
(* Parsing.                                                                *)

(* Mutant: a sum of a name and numbers is folded for a difference too.     *)
MakeResolvable_MergesSub(l, op, r) ==
  IF l = Err \/ r = Err THEN Err
  ELSE IF IsInt(l) /\ IsInt(r) /\ op \in {"+", "-", "*"} THEN Apply(op, l, r)
  ELSE IF IsInt(r) /\ op = "+" /\ l.k = "op" /\ l.op \in {"+", "-"} /\ IsInt(l.r)
  THEN [l EXCEPT !.r = Plus(@, r)]
  ELSE Op(l, op, r)

(* make_resolvable_function: numbers fold, and so does a number added to   *)
(* the number at the end of a sum.                                         *)
MakeResolvable(l, op, r) ==
  IF l = Err \/ r = Err THEN Err
  ELSE IF IsNum(l) /\ IsNum(r) /\ op \in {"+", "-", "*", "**"} THEN Apply(op, l, r)
  ELSE IF IsNum(l) /\ IsNum(r) /\ op = "/"
  THEN IF ~ (IsInt(l) /\ IsInt(r)) THEN TrueDiv(l, r)
       ELSE IF r.n = 0 THEN Err ELSE Whole(FloorDiv(l.n, r.n))
  ELSE IF IsInt(r) /\ op = "+" /\ l.k = "op" /\ l.op = "+" /\ IsInt(l.r)
  THEN [l EXCEPT !.r = Plus(@, r)]
  ELSE Op(l, op, r)

(* Binary operators, lowest precedence first.                              *)
Level == << {"||"}, {"&&"}, {"==", "!="}, {"<", "<=", ">", ">="}, {"+", "-"}, {"*", "/", "%"} >>
Binary == UNION {Level[i] : i \in DOMAIN Level}
Unary == {"-", "+", "!"}

(* A parse of part of a source: the tree, and where it ends.               *)
At(e, i) == [e |-> e, i |-> i]
Peek(s, i) == IF i <= Len(s) THEN s[i] ELSE "end"

(* _expect.                                                                *)
Expect(tok, p, s) == IF p.e # Err /\ Peek(s, p.i) = tok THEN At(p.e, p.i + 1) ELSE At(Err, p.i)

RECURSIVE ParseBinary(_, _, _, _), ParseMore(_, _, _, _), ParseFactor(_, _, _), ParseAtom(_, _, _), ParseArgs(_, _, _, _)

(* _parse_expr down to _parse_term: one level, and what it is made of.     *)
ParseBinary(lv, s, i, fl) ==
  IF lv > Len(Level) THEN ParseFactor(s, i, fl) ELSE ParseMore(lv, s, ParseBinary(lv + 1, s, i, fl), fl)

(* The loop of _parse_binary.                                              *)
ParseMore(lv, s, p, fl) ==
  IF p.e = Err \/ Peek(s, p.i) \notin Level[lv] THEN p
  ELSE LET r == ParseBinary(lv + 1, s, p.i + 1, fl)
       IN ParseMore(lv, s, At(MakeResolvable(p.e, s[p.i], r.e), r.i), fl)

(* _parse_factor and _parse_power.                                         *)
ParseFactor(s, i, fl) ==
  LET tok == Peek(s, i)
      f == ParseFactor(s, i + 1, fl)
      base == ParseAtom(s, i, fl)
      exp == ParseFactor(s, base.i + 1, fl)
  IN CASE tok = "-" -> At(MakeResolvable(Whole(0), "-", f.e), f.i)
       [] tok = "+" -> f
       [] tok = "!" -> At(IF f.e = Err THEN Err ELSE Op(f.e, "!", None), f.i)
       [] OTHER -> IF base.e # Err /\ Peek(s, base.i) = "**"
                   THEN At(MakeResolvable(base.e, "**", exp.e), exp.i)
                   ELSE base

ParseAtom(s, i, fl) ==
  LET tok == Peek(s, i)
      args == ParseArgs(s, i + 2, <<>>, fl)
  IN CASE tok \in DOMAIN Number -> At(Number[tok], i + 1)
       [] tok = "v" -> At(Val(fl), i + 1)
       [] tok \in DOMAIN Ipkg \cup DOMAIN KReg -> At(Name(tok), i + 1)
       [] tok = "(" -> Expect(")", ParseBinary(1, s, i + 1, fl), s)
       [] tok \in DOMAIN Arity -> IF Peek(s, i + 1) # "(" \/ args.e = Err \/ Len(args.e.ps) # Arity[tok]
                                  THEN At(Err, i) ELSE At(Fn(tok, args.e.ps), args.i)
       [] OTHER -> At(Err, i)

ParseArgs(s, i, ps, fl) ==
  LET p == ParseBinary(1, s, i, fl)
  IN CASE p.e = Err -> p
       [] p.e # Err /\ Peek(s, p.i) = "," -> ParseArgs(s, p.i + 1, Append(ps, p.e), fl)
       [] OTHER -> Expect(")", At(Fn("", Append(ps, p.e)), p.i), s)

(* parse_resolvable: the whole source, v being a float if fl.              *)
WholeSource(p, s) == IF p.i = Len(s) + 1 THEN p.e ELSE Err
Parse(s, fl) == WholeSource(ParseBinary(1, s, 1, fl), s)

-----------------------------------------------------------------------------
(* What a tree is made of.                                                 *)

RECURSIVE Leaves(_)
Leaves(e) ==
  CASE e.k = "op" -> Leaves(e.l) \cup Leaves(e.r)
    [] e.k = "fn" -> UNION {Leaves(e.ps[i]) : i \in DOMAIN e.ps}
    [] e.k \in {"num", "v", "name"} -> {e}
    [] OTHER -> {}

(* contains_value_param.                                                   *)
UsesV(e) == \E x \in Leaves(e) : x.k = "v"

(* contains_float_value: a float v, a float number or $float inside.       *)
RECURSIVE UsesFloat(_)
UsesFloat(e) ==
  CASE e.k = "num" -> e.t = "f"
    [] e.k = "v"   -> e.fl
    [] e.k = "op"  -> UsesFloat(e.l) \/ UsesFloat(e.r)
    [] e.k = "fn"  -> e.f = "$float" \/ \E i \in DOMAIN e.ps : UsesFloat(e.ps[i])
    [] OTHER -> FALSE

(* is_bool_expr: the value itself counts as one.                           *)
IsBool(e) == e.k = "v" \/ (e.k = "op" /\ e.op \in {"!", "&&", "||"} \cup Level[3] \cup Level[4])

(* retype_value_params.                                                    *)
RECURSIVE Retype(_, _)
Retype(e, fl) ==
  CASE e.k = "v"  -> Val(fl)
    [] e.k = "op" -> Op(Retype(e.l, fl), e.op, Retype(e.r, fl))
    [] e.k = "fn" -> Fn(e.f, [i \in DOMAIN e.ps |-> Retype(e.ps[i], fl)])
    [] OTHER -> e

-----------------------------------------------------------------------------
(* The three evaluations of a tree.                                        *)

(* resolvable_to_int, and _eval_with where v has a value: `/` of two ints  *)
(* is a ceiling division; a k register raises.                             *)
RECURSIVE EvalWith(_, _)
EvalWith(e, v) ==
  LET a == EvalWith(e.l, v)
      b == EvalWith(e.r, v)
      ps == [i \in DOMAIN e.ps |-> EvalWith(e.ps[i], v)]
  IN CASE e.k = "num"  -> e
       [] e.k = "name" -> IF e.id \in DOMAIN Ipkg THEN Whole(Ipkg[e.id]) ELSE Err
       [] e.k = "v"    -> IF v = None THEN Err ELSE IF e.fl THEN [v EXCEPT !.t = "f"] ELSE v
       [] e.k = "fn"   -> IF \E i \in DOMAIN ps : ps[i] = Err THEN Err ELSE CallFn(e.f, ps)
       [] e.k = "op" /\ e.op = "!" -> IF v # None \/ a = Err THEN Err ELSE Bool(~ Truth(a))
       [] OTHER -> IF a = Err \/ b = Err THEN Err
                   ELSE IF v # None /\ e.op \in UNION {Level[i] : i \in 1 .. 4} THEN Err
                   ELSE IF e.op # "/" THEN Apply(e.op, a, b)
                   ELSE IF IsInt(a) /\ IsInt(b) THEN CeilDiv(a, b) ELSE Ratio(a, b, Type(a, b))

(* What the generated Python computes (to_python_source): `//` of ints     *)
(* rounds down, `/` as soon as a float is inside; names are properties of  *)
(* the module, k registers included.                                       *)
RECURSIVE RunValue(_, _)
RunValue(e, v) ==
  LET a == RunValue(e.l, v)
      b == RunValue(e.r, v)
      ps == [i \in DOMAIN e.ps |-> RunValue(e.ps[i], v)]
  IN CASE e.k = "num"  -> e
       [] e.k = "name" -> Whole(IF e.id \in DOMAIN Ipkg THEN Ipkg[e.id] ELSE KReg[e.id])
       [] e.k = "v"    -> v
       [] e.k = "fn"   -> IF \E i \in DOMAIN ps : ps[i] = Err THEN Err ELSE CallFn(e.f, ps)
       [] e.k = "op" /\ e.op = "!" -> IF a = Err THEN Err ELSE Bool(~ Truth(a))
       [] OTHER -> IF a = Err \/ b = Err THEN Err
                   ELSE IF e.op # "/" THEN Apply(e.op, a, b)
                   ELSE IF UsesFloat(e) THEN TrueDiv(a, b)
                   ELSE IF b.n = 0 THEN Err ELSE Floor(Ratio(a, b, "q"))

-----------------------------------------------------------------------------
(* The other side of a conversion.                                         *)

(* _norm_num.                                                              *)
Norm(a) == IF a.t = "q" /\ a.d = 1 THEN [a EXCEPT !.t = "i"] ELSE a

(* _try_int: the number of a constant tree, or the tree.                   *)
OrElse(x, e) == IF x = Err THEN e ELSE x
TryInt(e) == OrElse(EvalWith(e, None), e)

ExprAdd(l, r) ==
  CASE IsIntOf(l, 0) -> r
    [] ~ IsIntOf(l, 0) /\ IsIntOf(r, 0) -> l
    [] OTHER -> IF IsNum(l) /\ IsNum(r) THEN Norm(Plus(l, r))
                ELSE IF IsNum(r) /\ r.n < 0 THEN Op(l, "-", Norm(Neg(r))) ELSE Op(l, "+", r)

ExprSub(l, r) ==
  CASE IsIntOf(r, 0) -> l
    [] OTHER -> IF IsNum(l) /\ IsNum(r) THEN Norm(Plus(l, Neg(r)))
                ELSE IF IsNum(r) /\ r.n < 0 THEN ExprAdd(l, Norm(Neg(r))) ELSE Op(l, "-", r)

ExprMult(l, r) ==
  CASE IsIntOf(l, 0) \/ IsIntOf(r, 0) -> Whole(0)
    [] IsIntOf(l, 1) /\ ~ IsIntOf(r, 0) -> r
    [] IsIntOf(r, 1) /\ ~ IsIntOf(l, 0) -> l
    [] OTHER -> IF IsNum(l) /\ IsNum(r) THEN Norm(Times(l, r)) ELSE Op(l, "*", r)

ExprDiv(l, r) ==
  CASE IsIntOf(l, 0) -> Whole(0)
    [] IsIntOf(r, 1) /\ ~ IsIntOf(l, 0) -> l
    [] OTHER -> IF IsNum(l) /\ IsNum(r) THEN Norm(Ratio(l, r, IF "f" \in {l.t, r.t} THEN "f" ELSE "q"))
                ELSE Op(l, "/", r)

(* affine_in_v: the tree as c * v + o, v on one side of * and / alone.     *)
AffineOp(e, l, r, n) ==
  CASE l = Err \/ r = Err \/ e.op \notin {"+", "-", "*", "/"} -> Err
    [] l # Err /\ r # Err /\ e.op = "+" -> [c |-> ExprAdd(l.c, r.c), o |-> ExprAdd(l.o, r.o)]
    [] l # Err /\ r # Err /\ e.op = "-" -> [c |-> ExprSub(l.c, r.c), o |-> ExprSub(l.o, r.o)]
    [] OTHER -> IF ~ IsIntOf(r.c, 0) \/ (e.op = "/" /\ IsNum(n) /\ n.n = 0) THEN Err
                ELSE IF e.op = "*" THEN [c |-> ExprMult(l.c, e.r), o |-> ExprMult(l.o, e.r)]
                ELSE [c |-> ExprDiv(l.c, n), o |-> ExprDiv(l.o, n)]

RECURSIVE AffineInV(_)
AffineInV(e) ==
  CASE e.k = "v" -> [c |-> Whole(1), o |-> Whole(0)]
    [] e.k # "v" /\ ~ UsesV(e) -> [c |-> Whole(0), o |-> e]
    [] OTHER -> IF e.k # "op" THEN Err ELSE IF e.op = "!" THEN Err
                ELSE AffineOp(e, AffineInV(e.l), AffineInV(e.r), TryInt(e.r))

(* _fraction_as_number: None when the fraction has no exact decimal.       *)
AsNumber(a) ==
  IF a.d = 1 THEN Whole(a.n)
  ELSE IF \E i, j \in 0 .. 6 : a.d = 2 ^ i * 5 ^ j THEN [a EXCEPT !.t = "f"] ELSE None

HasFraction(e) == \E x \in Leaves(e) : x.k = "num" /\ x.t = "q"

(* The float spelling: (v - o) / c, or times 1 / c where that is exact.    *)
FloatInverse(shifted, c, recip) ==
  IF Same(c, Whole(1)) THEN shifted
  ELSE IF Abs(c.n) < c.d /\ recip # None THEN ExprMult(shifted, recip)
  ELSE ExprDiv(shifted, c)

(* (v * tl - to) / tr, divided by g.                                       *)
ExactInverse(tl, to, tr, g) ==
  LET Quot(x) == Whole(FloorDiv(x, IF tr < 0 THEN -g ELSE g))
  IN ExprDiv(ExprSub(ExprMult(Val(FALSE), Quot(tl)), Quot(to)), Quot(tr))

(* _inverse_affine: v -> (v - o) / c, without fractions where c and o are  *)
(* exact numbers.                                                          *)
InverseAffine(c, o) ==
  IF IsNum(c) /\ (c.t = "f" \/ (IsNum(o) /\ o.t = "f"))
  THEN IF c.n = 0 THEN Err
       ELSE FloatInverse(IF IsNum(o) /\ o.n = 0 THEN Val(FALSE) ELSE ExprSub(Val(FALSE), o),
                         c, AsNumber(Ratio(Whole(1), c, "q")))
  ELSE IF IsNum(c) /\ IsNum(o)
  THEN ExactInverse(o.d * c.d, o.n * c.d, o.d * c.n, Gcd(Gcd(o.d * c.d, o.n * c.d), o.d * c.n))
  ELSE IF HasFraction(c) \/ HasFraction(o) THEN Err
  ELSE ExprDiv(ExprSub(Val(FALSE), o), c)

(* invert_resolvable: an outer rounding is dropped.                        *)
Unrounded(e) == IF e.k = "fn" /\ e.f \in {"$round", "$ceil", "$floor", "$float"} THEN e.ps[1] ELSE e
InverseOf(a) ==
  IF a = Err THEN Err
  ELSE IF IsNum(a.c) /\ a.c.n = 0 THEN Err
  ELSE InverseAffine(TryInt(a.c), TryInt(a.o))
Invert(e) == InverseOf(AffineInV(Unrounded(e)))

Sample == <<0, 1, 3, -3, 100, -100>>

(* A raw value as a user value and back; Err where that raises.            *)
RoundTrip(wr, user) == IF user = Err THEN Err ELSE EvalWith(wr, user)
Agrees(back, raw) == back # Err => Same(Round(back), raw)

(* Mutant: the derived side is taken as it is.                             *)
VerifyInverse_Trusts(wr, rd) == TRUE

(* _verify_inverse: raw values go out and come back; the first that cannot *)
(* be evaluated ends the check.                                            *)
VerifyInverse(wr, rd) ==
  \A i \in DOMAIN Sample :
    \/ \E j \in 1 .. (i - 1) : RoundTrip(wr, EvalWith(rd, Whole(Sample[j]))) = Err
    \/ Agrees(RoundTrip(wr, EvalWith(rd, Whole(Sample[i]))), Whole(Sample[i]))

Pair(wr, rd) ==
  IF wr = Err \/ rd = Err THEN Err ELSE IF VerifyInverse(wr, rd) THEN [wr |-> wr, rd |-> rd] ELSE Err

(* The side the recipe gives: a value, and one that can be reversed.       *)
IsValue(e) == IF e = Err THEN FALSE ELSE ~ IsBool(e)
WithRead(wr, fl) == IF IsValue(wr) THEN Pair(wr, Retype(Invert(wr), fl)) ELSE Err
WithWrite(rd, fl) == IF IsValue(rd) THEN Pair(Retype(Invert(rd), fl), rd) ELSE Err

(* parse_resolvable_v_convert_wr, parse_resolvable_v_convert_rd.           *)
ConvertWr(s, fl) == WithRead(Parse(s, fl), fl)
ConvertRd(s, fl) == WithWrite(Parse(s, fl), fl)

(* parse_resolvable_v_check.                                               *)
Boolean(e) == IF e = Err THEN Err ELSE IF IsBool(e) THEN e ELSE Err
ParseCheck(s, fl) == Boolean(Parse(s, fl))
=============================================================================
