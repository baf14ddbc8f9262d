----------------------------- MODULE MCSkmapReg ------------------------------
(* Recipes of one converted register, for every conversion of up to three   *)
(* operands, and recipes of several registers on buses of one and four bytes.*)
EXTENDS SkmapReg

MCNumber == [x \in {"2", "3", "100", "2.5", "0.4"} |->
  CASE x = "2" -> Whole(2) [] x = "3" -> Whole(3) [] x = "100" -> Whole(100)
    [] x = "2.5" -> Num(5, 2, "f") [] x = "0.4" -> Num(2, 5, "f")]
MCIpkg == [C |-> 7]
MCKReg == [K |-> 5]

Operand == {"v", "2", "3", "2.5", "0.4", "C", "K"}
Arith == {"+", "-", "*", "/"}

Sources ==
  LET Two == {<<a, o, b>> : a \in {"v", "3", "C"}, o \in Arith, b \in Operand}
      Three(a, o, b, p, c) == {<<a, o, b, p, c>>, <<"(", a, o, b, ")", p, c>>, <<a, o, "(", b, p, c, ")">>}
  IN Two
     \cup UNION {Three("v", o, b, p, c) : o \in Arith, b \in Operand \ {"2"}, p \in Arith, c \in {"2", "C"}}
     \cup UNION {Three("v", o, b, "-", "v") : o \in Arith, b \in {"2", "v"}}
     \cup UNION {Three(a, o, "v", p, c) : a \in {"2.5", "K"}, o \in {"+", "-"}, p \in Arith, c \in {"2", "0.4"}}
     \cup {<<"-", "v", "*", "2.5">>, <<"$round", "(", "v", "*", "2.5", ")">>, <<"2", "**", "3", "+", "v">>,
           <<"-", "2", "**", "2", "-", "v">>, <<"v", "-", "3", "+", "2">>, <<"v", "+", "3", "+", "2">>,
           <<"v", "*", "-", "2">>, <<"100", "/", "3", "/", "2", "+", "v">>, <<"v">>}

Decl(kind, w, vec, acc) ==
  [kind |-> kind, w |-> w, vec |-> vec, acc |-> acc, ass |-> "none", float |-> FALSE,
   check |-> <<>>, wr |-> <<>>, rd |-> <<>>, flags |-> <<>>]
Flag(bit, len) == [bit |-> bit, len |-> len]

Below100 == <<"v", "<", "100", "&&", "!", "(", "v", "==", "3", ")">>

Converted ==
  {[Decl("s", 8, 0, "rw") EXCEPT !.float = fl, !.check = IF fl THEN <<>> ELSE Below100,
                                 !.wr = IF side = "wr" THEN s ELSE <<>>, !.rd = IF side = "rd" THEN s ELSE <<>>] :
     fl \in BOOLEAN, side \in {"wr", "rd"}, s \in Sources}

Half == [Decl("u", 6, 0, "rw") EXCEPT !.float = TRUE, !.wr = <<"v", "*", "2.5">>, !.check = <<"v", "<=", "2.5">>]
Warned == [Decl("s", 12, 2, "rw") EXCEPT !.ass = "warn", !.check = Below100]
Checked == [Decl("s", 12, 2, "rw") EXCEPT !.float = TRUE, !.wr = <<"v", "*", "2">>, !.check = <<"v", "!=", "3">>]
Flags == [Decl("b", 0, 0, "rw") EXCEPT !.flags = <<Flag(-1, 0), Flag(-1, 3), Flag(7, 2), Flag(-1, 0)>>]
Crossed == [Decl("b", 0, 0, "wt") EXCEPT !.flags = <<Flag(4, 0), Flag(0, 0)>>]
Trigger == [Decl("u", 5, 2, "wt") EXCEPT !.check = <<"v", "<", "100">>]

Maps ==
  {<<Decl("u", 3, 0, "rw"), Checked, Decl("u", 8, 2, "rc")>>,
   <<Half, Flags, Decl("s", 9, 0, "ro")>>,
   <<Crossed, Warned, Trigger>>,
   <<[Decl("u", 8, 0, "rc") EXCEPT !.check = <<"v", "<", "100">>], Flags, Decl("s", 3, 2, "rw")>>}

MCRecipes ==
  {[align |-> 1, base |-> 16, var |-> <<d>>, calls |-> 1] : d \in Converted}
  \cup {[align |-> al, base |-> 20, var |-> m, calls |-> 2] : al \in {1, 4}, m \in Maps}
MCRaw == {-100, -3, 0, 1, 2, 3, 7, 100}
MCUser == {Whole(-3), Whole(0), Whole(3), Num(5, 2, "f"), Num(-7, 4, "f"), Num(13, 10, "f")}
=============================================================================
