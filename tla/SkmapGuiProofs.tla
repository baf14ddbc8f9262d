--------------------------- MODULE SkmapGuiProofs ----------------------------
(***************************************************************************)
(* Theorems about the two programs with widgets, for all maps of registers *)
(* and bounds.                                                             *)
(*                                                                         *)
(* SkmapEdit, the interface of skmap_ui: a cell of the register table      *)
(* shows what the cache holds of its own row, whatever ends after the      *)
(* table has changed; and an edit is written to the row that it was opened *)
(* for, whatever ran before its value was entered.                         *)
(*                                                                         *)
(* SkmapPlot, the plots of skmap_plot_regs: no event of an rc register is  *)
(* plotted twice, and none is lost but in the ways the code has to lose    *)
(* it; and the samples, the markers and the axis of a curve keep in step.  *)
(***************************************************************************)
EXTENDS SkmapPlot, SkmapEdit, FiniteSetTheorems, SequenceTheorems, WellFoundedInduction, TLAPS

-----------------------------------------------------------------------------
\* Numbers and sequences.

\* A nonempty set of numbers has a least one.
LEMMA LeastOf ==
  ASSUME NEW T \in SUBSET Nat, T # {}
  PROVE  \E m \in T : \A k \in T : m <= k
<1>1. \E m \in T : \A k \in T : ~(<<k, m>> \in OpToRel(<, Nat))
  <2> HIDE DEF OpToRel
  <2> QED
    BY WFMin, NatLessThanWellFounded
<1>2. \A k, m \in T : k < m => <<k, m>> \in OpToRel(<, Nat)
  <2> SUFFICES ASSUME NEW k \in T, NEW m \in T, k < m
               PROVE  <<k, m>> \in OpToRel(<, Nat)
    OBVIOUS
  <2>1. <<k, m>> \in Nat \X Nat /\ <<k, m>>[1] < <<k, m>>[2]
    OBVIOUS
  <2> QED
    BY <2>1 DEF OpToRel
<1>3. PICK m \in T : \A k \in T : ~(<<k, m>> \in OpToRel(<, Nat))
  BY <1>1
<1>4. \A k \in T : ~(k < m)
  BY <1>2, <1>3
<1> QED
  BY <1>4

\* f is the function by which FlattenSeq is defined, up to m sequences.
Flattens(f, ss, m) == f = [i \in 1..m |-> IF i = 1 THEN ss[i] ELSE f[i - 1] \o ss[i]]

\* There is such a function for every number of sequences.
LEMMA FlattensExists ==
  ASSUME NEW ss, NEW n \in Nat
  PROVE  \A m \in 1..n : \E f : Flattens(f, ss, m)
<1> DEFINE Bad == {m \in 1..n : ~ \E f : Flattens(f, ss, m)}
<1> SUFFICES ASSUME Bad # {} PROVE FALSE
  OBVIOUS
<1>1. PICK m \in Bad : \A k \in Bad : m <= k
  <2>1. Bad \in SUBSET Nat
    OBVIOUS
  <2> HIDE DEF Bad
  <2> QED
    BY <2>1, LeastOf
<1>2. m \in 1..n /\ ~ \E f : Flattens(f, ss, m)
  OBVIOUS
<1>3. CASE m = 1
  <2> DEFINE g == [i \in 1..1 |-> ss[1]]
  <2>1. g = [i \in 1..1 |-> IF i = 1 THEN ss[i] ELSE g[i - 1] \o ss[i]]
    <3>1. \A i \in 1..1 : i = 1
      OBVIOUS
    <3> QED
      BY <3>1
  <2>2. Flattens(g, ss, m)
    BY <1>3, <2>1 DEF Flattens
  <2> QED
    BY <1>2, <2>2
<1>4. CASE m # 1
  <2>1. m - 1 \in 1..n /\ m - 1 \notin Bad
    BY <1>1, <1>2, <1>4
  <2>2. PICK f : Flattens(f, ss, m - 1)
    BY <2>1
  <2> DEFINE g == [i \in 1..m |-> IF i = m THEN f[m - 1] \o ss[m] ELSE f[i]]
  <2>3. \A i \in 1..m : g[i] = IF i = 1 THEN ss[i] ELSE g[i - 1] \o ss[i]
    <3> SUFFICES ASSUME NEW i \in 1..m PROVE g[i] = IF i = 1 THEN ss[i] ELSE g[i - 1] \o ss[i]
      OBVIOUS
    <3>1. CASE i = m
      <4>1. g[i] = f[m - 1] \o ss[m]
        BY <3>1
      <4>2. g[i - 1] = f[m - 1]
        BY <1>2, <1>4, <3>1
      <4> QED
        BY <1>4, <3>1, <4>1, <4>2
    <3>2. CASE i # m
      <4>1. i \in 1..(m - 1)
        BY <1>2, <3>2
      <4>2. g[i] = f[i]
        BY <3>2
      <4>3. f[i] = IF i = 1 THEN ss[i] ELSE f[i - 1] \o ss[i]
        BY <2>2, <4>1 DEF Flattens
      <4>4. i # 1 => g[i - 1] = f[i - 1]
        BY <1>2, <3>2
      <4> HIDE DEF g
      <4> QED
        BY <4>2, <4>3, <4>4
    <3> QED
      BY <3>1, <3>2
  <2>4. g = [i \in 1..m |-> g[i]]
    OBVIOUS
  <2> HIDE DEF g
  <2>5. Flattens(g, ss, m)
    BY <2>3, <2>4 DEF Flattens
  <2> QED
    BY <1>2, <2>5
<1> QED
  BY <1>3, <1>4

\* x is an element of the sequence s.
Has(s, x) == \E k \in DOMAIN s : s[k] = x

\* Two sequences in one hold the elements of both.
LEMMA ConcatElements ==
  ASSUME NEW S, NEW p \in Seq(S), NEW q \in Seq(S)
  PROVE  \A x : Has(p \o q, x) <=> Has(p, x) \/ Has(q, x)
<1>1. /\ DOMAIN (p \o q) = 1..(Len(p) + Len(q)) /\ DOMAIN p = 1..Len(p) /\ DOMAIN q = 1..Len(q)
      /\ Len(p) \in Nat /\ Len(q) \in Nat
  OBVIOUS
<1>2. \A k \in DOMAIN p : k \in DOMAIN (p \o q) /\ (p \o q)[k] = p[k]
  BY <1>1
<1>3. \A k \in DOMAIN q : k + Len(p) \in DOMAIN (p \o q) /\ (p \o q)[k + Len(p)] = q[k]
  BY <1>1
<1>4. \A k \in DOMAIN (p \o q) :
        k \in DOMAIN p \/ (k - Len(p) \in DOMAIN q /\ (p \o q)[k] = q[k - Len(p)])
  BY <1>1
<1> QED
  BY <1>2, <1>3, <1>4 DEF Has

\* FlattenSeq holds the elements of the sequences, and nothing else.
LEMMA FlattenElements ==
  ASSUME NEW S, NEW ss \in Seq(Seq(S))
  PROVE  /\ FlattenSeq(ss) \in Seq(S)
         /\ \A x : Has(FlattenSeq(ss), x) <=> \E i \in DOMAIN ss : Has(ss[i], x)
<1> DEFINE n == Len(ss)
<1>0. n \in Nat /\ DOMAIN ss = 1..n /\ \A i \in 1..n : ss[i] \in Seq(S)
  OBVIOUS
<1>1. CASE n = 0
  <2>1. FlattenSeq(ss) = ss /\ ss = <<>> /\ DOMAIN ss = {}
    BY <1>0, <1>1 DEF FlattenSeq
  <2>2. \A x : ~ Has(ss, x)
    BY <2>1 DEF Has
  <2>3. <<>> \in Seq(S)
    OBVIOUS
  <2> QED
    BY <2>1, <2>2, <2>3
<1>2. CASE n # 0
  <2> DEFINE f == CHOOSE g : Flattens(g, ss, n)
             In(x, m) == \E i \in 1..m : Has(ss[i], x)
             Good(i) == f[i] \in Seq(S) /\ \A x : Has(f[i], x) <=> In(x, i)
  <2>1. n \in 1..n
    BY <1>0, <1>2
  <2>2. Flattens(f, ss, n)
    <3>1. \E g : Flattens(g, ss, n)
      BY <1>0, <2>1, FlattensExists
    <3> QED
      BY <3>1
  <2>3. FlattenSeq(ss) = f[n]
    BY <1>2 DEF FlattenSeq, Flattens
  <2> HIDE DEF f, n
  <2>4. \A i \in 1..n : f[i] = IF i = 1 THEN ss[i] ELSE f[i - 1] \o ss[i]
    BY <2>2 DEF Flattens
  <2>5. \A i \in 1..n : Good(i)
    <3> HIDE DEF Good, In
    <3> DEFINE Bad == {i \in 1..n : ~ Good(i)}
    <3> SUFFICES ASSUME Bad # {} PROVE FALSE
      OBVIOUS
    <3>1. PICK i \in Bad : \A k \in Bad : i <= k
      <4>1. Bad \in SUBSET Nat
        BY <1>0
      <4> HIDE DEF Bad
      <4> QED
        BY <4>1, LeastOf
    <3>2. i \in 1..n /\ ~ Good(i) /\ i \in Nat
      BY <1>0
    <3>3. CASE i = 1
      <4>1. f[i] = ss[1] /\ ss[1] \in Seq(S)
        BY <1>0, <2>4, <3>2, <3>3
      <4>2. \A x : In(x, i) <=> Has(ss[1], x)
        BY <3>3 DEF In
      <4> QED
        BY <3>2, <3>3, <4>1, <4>2 DEF Good
    <3>4. CASE i # 1
      <4>1. i - 1 \in 1..n /\ i - 1 \notin Bad
        BY <1>0, <3>1, <3>2, <3>4
      <4>2. Good(i - 1)
        BY <4>1
      <4> DEFINE p == f[i - 1]
                 q == ss[i]
      <4>3. f[i] = p \o q /\ q \in Seq(S) /\ p \in Seq(S)
        BY <1>0, <2>4, <3>2, <3>4, <4>2 DEF Good
      <4>4. \A x : In(x, i) <=> In(x, i - 1) \/ Has(q, x)
        <5> SUFFICES ASSUME NEW x
                     PROVE  In(x, i) <=> In(x, i - 1) \/ Has(q, x)
          OBVIOUS
        <5> DEFINE At(j) == Has(ss[j], x)
        <5>1. (1 .. i) = (1 .. (i - 1)) \cup {i}
          BY <1>0, <3>2, <3>4
        <5> HIDE DEF At
        <5>2. (\E j \in 1 .. i : At(j)) <=> (\E j \in 1 .. (i - 1) : At(j)) \/ At(i)
          BY <5>1
        <5> QED
          BY <5>2 DEF At, In
      <4>5. \A x : Has(p, x) <=> In(x, i - 1)
        BY <4>2 DEF Good
      <4>8. p \in Seq(S) /\ q \in Seq(S)
        BY <4>3
      <4> HIDE DEF p, q
      <4>6. \A x : Has(p \o q, x) <=> Has(p, x) \/ Has(q, x)
        BY <4>8, ConcatElements
      <4>7. p \o q \in Seq(S)
        BY <4>3
      <4> QED
        BY <3>2, <4>3, <4>4, <4>5, <4>6, <4>7 DEF Good
    <3> QED
      BY <3>3, <3>4
  <2>6. Good(n)
    BY <2>1, <2>5
  <2> QED
    BY <1>0, <2>3, <2>6
<1> QED
  BY <1>1, <1>2

-----------------------------------------------------------------------------
\* The rows of the table.

Object == Register \cup Mem
RowSet == [obj : Object, lane : Nat, kind : {"own", "lane", "flag", "mem"}]

\* A row of an object and of a lane that it has, or of the whole.
IsRow(row) ==
  /\ row \in RowSet /\ row.lane \in {0} \cup LanesOf(row.obj)
  /\ row.kind = "mem" => row.lane = 0
  /\ row.kind = "lane" => row.lane # 0

\* An object has lanes 1 .. n, at least one.
LEMMA LanesBound ==
  ASSUME NEW o \in Object
  PROVE  \E n \in Nat \ {0} : LanesOf(o) = 1..n
<1>1. VecLen[o] \in Nat
  BY ObjectAssumption DEF Object
<1>2. CASE VecLen[o] = 0
  BY <1>2 DEF LanesOf
<1>3. CASE VecLen[o] # 0
  BY <1>1, <1>3 DEF LanesOf
<1> QED
  BY <1>2, <1>3

\* Lane 0 is no lane.
LEMMA LaneNumber ==
  ASSUME NEW o \in Object, NEW i \in LanesOf(o)
  PROVE  i \in {0} \cup LanesOf(o) /\ i # 0
<1>1. PICK n \in Nat \ {0} : LanesOf(o) = 1..n
  BY LanesBound
<1> QED
  BY <1>1

\* The fields of a row.
LEMMA RowFields ==
  ASSUME NEW o, NEW lane, NEW kind
  PROVE  Row(o, lane, kind).obj = o /\ Row(o, lane, kind).lane = lane /\ Row(o, lane, kind).kind = kind
  BY DEF Row

\* A row of an object and one of its lanes is a row of the table.
LEMMA RowIsRow ==
  ASSUME NEW o \in Object, NEW lane \in {0} \cup LanesOf(o), NEW kind \in {"own", "lane", "flag", "mem"},
         kind = "mem" => lane = 0, kind = "lane" => lane # 0
  PROVE  IsRow(Row(o, lane, kind))
<1>1. lane \in Nat
  BY LanesBound
<1> QED
  BY <1>1 DEF IsRow, Row, RowSet

\* Rows for the lanes of an object.
LEMMA LaneRows ==
  ASSUME NEW o \in Object, NEW kind \in {"lane", "flag"}
  PROVE  LET s == [i \in LanesOf(o) |-> Row(o, i, kind)]
         IN  /\ s \in Seq(RowSet)
             /\ \A x : Has(s, x) <=> \E i \in LanesOf(o) : x = Row(o, i, kind)
<1> DEFINE s == [i \in LanesOf(o) |-> Row(o, i, kind)]
<1>1. PICK n \in Nat \ {0} : LanesOf(o) = 1..n
  BY LanesBound
<1>2. \A i \in 1..n : s[i] \in RowSet
  BY <1>1, RowIsRow DEF IsRow
<1>3. DOMAIN s = LanesOf(o) /\ s = [i \in 1..n |-> s[i]]
  BY <1>1
<1>4. \A i \in LanesOf(o) : s[i] = Row(o, i, kind)
  OBVIOUS
<1> HIDE DEF s
<1>5. s \in Seq(RowSet)
  BY <1>2, <1>3
<1>6. \A x : Has(s, x) <=> \E i \in LanesOf(o) : x = Row(o, i, kind)
  BY <1>3, <1>4 DEF Has
<1> QED
  BY <1>5, <1>6 DEF s

\* One element.
LEMMA HasSingle ==
  ASSUME NEW y
  PROVE  \A x : Has(<<y>>, x) <=> x = y
  BY DEF Has

\* No element.
LEMMA HasEmpty ==
  ASSUME NEW x
  PROVE  ~ Has(<<>>, x)
  BY DEF Has

\* The rows of a register are its own row, its lanes and its flags.
LEMMA RegRowsOf ==
  ASSUME NEW r \in Register, NEW e \in BOOLEAN
  PROVE  /\ RegRows(r, e) \in Seq(RowSet)
         /\ \A x : Has(RegRows(r, e), x) => IsRow(x) /\ x.obj = r
         /\ Has(RegRows(r, e), Row(r, 0, "own"))
         /\ IsFlags(r) => \A i \in LanesOf(r) : Has(RegRows(r, e), Row(r, i, "flag"))
<1> DEFINE own   == <<Row(r, 0, "own")>>
           lane(k) == [i \in LanesOf(r) |-> Row(r, i, k)]
           lanes == IF e /\ IsVec(r) THEN lane("lane") ELSE <<>>
           flags == IF IsFlags(r) THEN lane("flag") ELSE <<>>
<1>0. r \in Object
  BY DEF Object
<1>1. own \in Seq(RowSet) /\ \A x : Has(own, x) <=> x = Row(r, 0, "own")
  BY <1>0, RowIsRow, HasSingle DEF IsRow
<1>2. /\ lane("lane") \in Seq(RowSet)
      /\ \A x : Has(lane("lane"), x) <=> \E i \in LanesOf(r) : x = Row(r, i, "lane")
  BY <1>0, LaneRows
<1>3. /\ lane("flag") \in Seq(RowSet)
      /\ \A x : Has(lane("flag"), x) <=> \E i \in LanesOf(r) : x = Row(r, i, "flag")
  BY <1>0, LaneRows
<1> HIDE DEF own, lane
<1>4. lanes \in Seq(RowSet) /\ \A x : Has(lanes, x) => \E i \in LanesOf(r) : x = Row(r, i, "lane")
  BY <1>2, HasEmpty
<1>5. /\ flags \in Seq(RowSet)
      /\ \A x : Has(flags, x) => \E i \in LanesOf(r) : x = Row(r, i, "flag")
      /\ IsFlags(r) => \A i \in LanesOf(r) : Has(flags, Row(r, i, "flag"))
  BY <1>3, HasEmpty
<1>6. RegRows(r, e) = (own \o lanes) \o flags
  BY DEF RegRows, own, lane
<1> HIDE DEF lanes, flags
<1>7. own \o lanes \in Seq(RowSet) /\ \A x : Has(own \o lanes, x) <=> Has(own, x) \/ Has(lanes, x)
  BY <1>1, <1>4, ConcatElements
<1> DEFINE front == own \o lanes
<1>8. front \in Seq(RowSet) /\ \A x : Has(front, x) <=> Has(own, x) \/ Has(lanes, x)
  BY <1>7
<1> HIDE DEF front
<1>9. front \o flags \in Seq(RowSet) /\ \A x : Has(front \o flags, x) <=> Has(front, x) \/ Has(flags, x)
  BY <1>5, <1>8, ConcatElements
<1>10. RegRows(r, e) = front \o flags
  BY <1>6 DEF front
<1>11. IsRow(Row(r, 0, "own")) /\ Row(r, 0, "own").obj = r
  BY <1>0, RowIsRow, RowFields
<1>12. \A i \in LanesOf(r), k \in {"lane", "flag"} : IsRow(Row(r, i, k)) /\ Row(r, i, k).obj = r
  <2> SUFFICES ASSUME NEW i \in LanesOf(r), NEW k \in {"lane", "flag"}
               PROVE  IsRow(Row(r, i, k)) /\ Row(r, i, k).obj = r
    OBVIOUS
  <2>1. i \in {0} \cup LanesOf(r) /\ i # 0 /\ k \in {"own", "lane", "flag", "mem"}
    BY <1>0, LaneNumber
  <2> QED
    BY <1>0, <2>1, RowIsRow, RowFields
<1>13. \A x : Has(RegRows(r, e), x) => IsRow(x) /\ x.obj = r
  <2> SUFFICES ASSUME NEW x, Has(RegRows(r, e), x) PROVE IsRow(x) /\ x.obj = r
    OBVIOUS
  <2>1. Has(own, x) \/ Has(lanes, x) \/ Has(flags, x)
    BY <1>8, <1>9, <1>10
  <2>2. CASE Has(own, x)
    BY <1>1, <1>11, <2>2
  <2>3. CASE Has(lanes, x)
    BY <1>4, <1>12, <2>3
  <2>4. CASE Has(flags, x)
    BY <1>5, <1>12, <2>4
  <2> QED
    BY <2>1, <2>2, <2>3, <2>4
<1>14. Has(RegRows(r, e), Row(r, 0, "own"))
  BY <1>1, <1>8, <1>9, <1>10
<1>15. IsFlags(r) => \A i \in LanesOf(r) : Has(RegRows(r, e), Row(r, i, "flag"))
  BY <1>5, <1>9, <1>10
<1> QED
  BY <1>9, <1>10, <1>13, <1>14, <1>15

\* The row of a memory is a row of the whole.
LEMMA MemRowIsRow ==
  ASSUME NEW m \in Mem
  PROVE  IsRow(MemRow(m)) /\ MemRow(m).obj = m /\ MemRow(m).kind = "mem"
<1>1. m \in Object
  BY DEF Object
<1> QED
  BY <1>1, RowIsRow, RowFields DEF MemRow

\* The rows of a module are those of its registers, and one for each memory.
LEMMA ModuleRowsOf ==
  ASSUME NEW m \in Module, NEW e \in BOOLEAN
  PROVE  /\ ModuleRows(m, e) \in Seq(RowSet)
         /\ \A x : Has(ModuleRows(m, e), x) => IsRow(x) /\ (x.obj \in Mem => x.kind = "mem")
         /\ \A r \in Range(Regs[m]) : \A x : Has(RegRows(r, e), x) => Has(ModuleRows(m, e), x)
<1> DEFINE ss   == [i \in DOMAIN Regs[m] |-> RegRows(Regs[m][i], e)]
           regs == FlattenSeq(ss)
           mems == [i \in DOMAIN Mems[m] |-> MemRow(Mems[m][i])]
<1>1. Regs[m] \in Seq(Register) /\ Mems[m] \in Seq(Mem)
  BY TreeAssumption
<1>2. \A i \in DOMAIN Regs[m] : Regs[m][i] \in Register
  BY <1>1
<1>3. \A i \in DOMAIN Mems[m] : Mems[m][i] \in Mem
  BY <1>1
<1>4. \A i \in DOMAIN Regs[m] : RegRows(Regs[m][i], e) \in Seq(RowSet)
  BY <1>2, RegRowsOf
<1>5. ss \in Seq(Seq(RowSet)) /\ DOMAIN ss = DOMAIN Regs[m]
  <2>1. PICK n \in Nat : DOMAIN Regs[m] = 1..n
    BY <1>1
  <2>2. ss = [i \in 1..n |-> RegRows(Regs[m][i], e)]
    BY <2>1
  <2> QED
    BY <1>4, <2>1, <2>2
<1>6. \A i \in DOMAIN Regs[m] : ss[i] = RegRows(Regs[m][i], e)
  OBVIOUS
<1> HIDE DEF ss
<1>7. regs \in Seq(RowSet) /\ \A x : Has(regs, x) <=> \E i \in DOMAIN ss : Has(ss[i], x)
  BY <1>5, FlattenElements
<1>8. \A x : Has(regs, x) <=> \E i \in DOMAIN Regs[m] : Has(RegRows(Regs[m][i], e), x)
  BY <1>5, <1>6, <1>7
<1>9. mems \in Seq(RowSet) /\ \A x : Has(mems, x) => \E k \in Mem : x = MemRow(k)
  <2>1. \A i \in DOMAIN Mems[m] : MemRow(Mems[m][i]) \in RowSet
    BY <1>3, MemRowIsRow DEF IsRow
  <2>2. PICK n \in Nat : DOMAIN Mems[m] = 1..n
    BY <1>1
  <2>3. mems = [i \in 1..n |-> MemRow(Mems[m][i])]
    BY <2>2
  <2>4. mems \in Seq(RowSet)
    BY <2>1, <2>2, <2>3
  <2>5. \A x : Has(mems, x) => \E k \in Mem : x = MemRow(k)
    BY <1>3 DEF Has
  <2> QED
    BY <2>4, <2>5
<1>10. ModuleRows(m, e) = regs \o mems
  BY DEF ModuleRows, ss
<1> HIDE DEF regs, mems
<1>11. regs \o mems \in Seq(RowSet) /\ \A x : Has(regs \o mems, x) <=> Has(regs, x) \/ Has(mems, x)
  BY <1>7, <1>9, ConcatElements
<1>12. \A x : Has(ModuleRows(m, e), x) => IsRow(x) /\ (x.obj \in Mem => x.kind = "mem")
  <2> SUFFICES ASSUME NEW x, Has(ModuleRows(m, e), x)
               PROVE  IsRow(x) /\ (x.obj \in Mem => x.kind = "mem")
    OBVIOUS
  <2>1. CASE Has(regs, x)
    <3>1. PICK i \in DOMAIN Regs[m] : Has(RegRows(Regs[m][i], e), x)
      BY <1>8, <2>1
    <3>2. IsRow(x) /\ x.obj \in Register
      BY <1>2, <3>1, RegRowsOf
    <3> QED
      BY <3>2, ObjectAssumption
  <2>2. CASE Has(mems, x)
    BY <1>9, <2>2, MemRowIsRow
  <2> QED
    BY <1>10, <1>11, <2>1, <2>2
<1>13. \A r \in Range(Regs[m]) : \A x : Has(RegRows(r, e), x) => Has(ModuleRows(m, e), x)
  <2> SUFFICES ASSUME NEW r \in Range(Regs[m]), NEW x, Has(RegRows(r, e), x) PROVE Has(ModuleRows(m, e), x)
    OBVIOUS
  <2>1. PICK i \in DOMAIN Regs[m] : r = Regs[m][i]
    BY DEF Range
  <2> QED
    BY <1>8, <1>10, <1>11, <2>1
<1> QED
  BY <1>10, <1>11, <1>12, <1>13

\* A sequence with one element before it.
LEMMA ConsElements ==
  ASSUME NEW S, NEW p \in Seq(S), Len(p) = 1, NEW q \in Seq(S)
  PROVE  /\ p \o q \in Seq(S) /\ DOMAIN (p \o q) = 1..(Len(q) + 1)
         /\ (p \o q)[1] = p[1]
         /\ \A k \in 2..(Len(q) + 1) : (p \o q)[k] = q[k - 1]
<1>1. Len(q) \in Nat /\ p \o q \in Seq(S) /\ Len(p \o q) = Len(p) + Len(q)
  BY ConcatProperties, LenProperties
<1>2. DOMAIN (p \o q) = 1..(Len(q) + 1)
  BY <1>1
<1>3. (p \o q)[1] = p[1]
  BY <1>1
<1>4. \A k \in 2..(Len(q) + 1) : (p \o q)[k] = q[k - 1]
  BY <1>1
<1> QED
  BY <1>1, <1>2, <1>3, <1>4

\* The rows of a memory are its header, and one for each lane in order.
LEMMA MemRowsOf ==
  ASSUME NEW m \in Mem
  PROVE  /\ MemRows(m) \in Seq(RowSet)
         /\ MemRows(m) # <<>> /\ MemRows(m)[1] = MemRow(m)
         /\ \A k \in DOMAIN MemRows(m) : k # 1 => /\ k - 1 \in LanesOf(m)
                                                /\ MemRows(m)[k] = Row(m, k - 1, "lane")
         /\ \A i \in LanesOf(m) : MemLaneKey(i) \in DOMAIN MemRows(m)
<1> DEFINE head  == <<MemRow(m)>>
           lanes == [i \in LanesOf(m) |-> Row(m, i, "lane")]
<1>0. m \in Object
  BY DEF Object
<1>1. PICK n \in Nat \ {0} : LanesOf(m) = 1..n
  BY <1>0, LanesBound
<1>2. head \in Seq(RowSet) /\ Len(head) = 1 /\ head[1] = MemRow(m)
  BY MemRowIsRow DEF IsRow
<1>3. lanes \in Seq(RowSet)
  BY <1>0, LaneRows
<1>4. Len(lanes) = n /\ DOMAIN lanes = 1..n /\ \A i \in 1..n : lanes[i] = Row(m, i, "lane")
  BY <1>1
<1>5. MemRows(m) = head \o lanes
  BY DEF MemRows
<1> HIDE DEF head, lanes
<1>6. /\ head \o lanes \in Seq(RowSet) /\ DOMAIN (head \o lanes) = 1..(n + 1)
      /\ (head \o lanes)[1] = MemRow(m)
      /\ \A k \in 2..(n + 1) : (head \o lanes)[k] = lanes[k - 1]
  <2>1. Len(lanes) + 1 = n + 1
    BY <1>4
  <2> QED
    BY <1>2, <1>3, <2>1, ConsElements
<1>7. \A k \in 1..(n + 1) : k # 1 => k \in 2..(n + 1) /\ k - 1 \in 1..n
  OBVIOUS
<1>8. \A k \in DOMAIN MemRows(m) : k # 1 => k - 1 \in LanesOf(m) /\ MemRows(m)[k] = Row(m, k - 1, "lane")
  BY <1>1, <1>4, <1>5, <1>6, <1>7
<1>9. \A i \in LanesOf(m) : MemLaneKey(i) \in DOMAIN MemRows(m)
  BY <1>1, <1>5, <1>6 DEF MemLaneKey
<1>10. MemRows(m) # <<>>
  BY <1>5, <1>6
<1> QED
  BY <1>5, <1>6, <1>8, <1>9, <1>10

\* What the handlers rely on of the rows of any view.
LEMMA RowsOf ==
  ASSUME NEW v \in View, NEW e \in BOOLEAN, NEW k \in DOMAIN Rows[v, e]
  PROVE  LET row == Rows[v, e][k]
         IN  /\ IsRow(row)
             /\ row.obj \in Mem => row.kind = "mem" \/ (v = row.obj /\ k # 1 /\ row.lane = k - 1)
             /\ v \in Mem /\ k = 1 => row.kind = "mem"
<1> DEFINE row == Rows[v, e][k]
<1>1. Rows[v, e] = IF v \in Mem THEN MemRows(v) ELSE ModuleRows(v, e)
  BY DEF Rows
<1>2. CASE v \in Mem
  <2>1. row = MemRows(v)[k] /\ k \in DOMAIN MemRows(v)
    BY <1>1, <1>2
  <2> HIDE DEF row
  <2>2. CASE k = 1
    <3>1. row = MemRow(v)
      BY <1>2, <2>1, <2>2, MemRowsOf
    <3>2. IsRow(row) /\ row.kind = "mem"
      BY <1>2, <3>1, MemRowIsRow
    <3> QED
      BY <3>2 DEF row
  <2>3. CASE k # 1
    <3>1. k - 1 \in LanesOf(v) /\ row = Row(v, k - 1, "lane")
      BY <1>2, <2>1, <2>3, MemRowsOf
    <3>2. v \in Object
      BY <1>2 DEF Object
    <3>5. \A i \in LanesOf(v) : i \in {0} \cup LanesOf(v) /\ i # 0
      BY <3>2, LaneNumber
    <3>3. IsRow(row)
      <4> DEFINE i == k - 1
      <4>1. i \in LanesOf(v) /\ row = Row(v, i, "lane")
        BY <3>1
      <4> HIDE DEF i
      <4> QED
        BY <3>2, <3>5, <4>1, RowIsRow
    <3>4. row.obj = v /\ row.lane = k - 1
      BY <3>1 DEF Row
    <3> QED
      BY <2>3, <3>3, <3>4 DEF row
  <2> QED
    BY <2>2, <2>3
<1>3. CASE v \notin Mem
  <2>1. v \in Module /\ Rows[v, e] = ModuleRows(v, e)
    BY <1>1, <1>3 DEF View
  <2>2. Has(ModuleRows(v, e), row)
    BY <2>1 DEF Has
  <2> HIDE DEF row
  <2>3. IsRow(row) /\ (row.obj \in Mem => row.kind = "mem")
    BY <2>1, <2>2, ModuleRowsOf
  <2> QED
    BY <1>3, <2>3 DEF row
<1> QED
  BY <1>2, <1>3

\* The rows of a view are in order.
LEMMA RowsSeq ==
  ASSUME NEW v \in View, NEW e \in BOOLEAN
  PROVE  Rows[v, e] \in Seq(RowSet)
<1>1. Rows[v, e] = IF v \in Mem THEN MemRows(v) ELSE ModuleRows(v, e)
  BY DEF Rows
<1> QED
  BY <1>1, MemRowsOf, ModuleRowsOf DEF View

-----------------------------------------------------------------------------
\* The inductive invariant of the user interface.

UiFields == {"view", "expand", "cursor", "cells", "lanes", "focus", "log", "nav", "navIdx",
             "navReturn", "behind"}

\* The table has a cell for each of its rows, and the cursor is on one.
TableOK(u) ==
  /\ UiFields \subseteq DOMAIN u
  /\ u.view \in View /\ u.expand \in BOOLEAN
  /\ DOMAIN u.cells = DOMAIN RowsShown(u)
  /\ Empty(u) \/ u.cursor \in DOMAIN RowsShown(u)

\* The lane inputs are numbered, and the log cursor is on an assert.
WidgetsOK(u) ==
  /\ u.lanes # <<>> => \E n \in Nat \ {0} : DOMAIN u.lanes = 1..n
  /\ u.log \in Seq(Range(Watch))
  /\ u.nav => u.navIdx \in DOMAIN u.log
  /\ u.navReturn # "closed"

Calls(s) == \E n \in Nat \ {0} : s = [i \in 1..n |-> s[i]]

\* A write has a call to make; a step is of an object, and a memory is read
\* because it is shown.
JobOK(j) ==
  /\ {"op", "obj", "calls", "done"} \subseteq DOMAIN j
  /\ j.done \in Nat
  /\ j.op = "write" => Calls(j.calls)
  /\ j.op # "write" => j.done = 0
  /\ j.op = "step" => j.obj \in Object
  /\ j.op = "show" => j.obj \in Mem

JobsOK(J) == J \in Seq(Range(J)) /\ \A i \in DOMAIN J : JobOK(J[i])

MessageOK(m) ==
  /\ m.type \in {"select", "edit", "submit", "cancel", "blur"}
  /\ m.type = "select" => m.node \in View

InboxOK(q) == q \in Seq(Range(q)) /\ \A i \in DOMAIN q : MessageOK(q[i])

CacheOK(c) == DOMAIN c = Object /\ \A o \in Object : DOMAIN c[o] = LanesOf(o)

\* A write of the row's object is under way: of this lane, if it is a memory's.
UnderWay(row, J) ==
  \E i \in DOMAIN J : /\ J[i].done > 0 /\ J[i].obj = row.obj
                      /\ row.obj \in Mem => row.lane \in LanesWritten(J[i])

CurrentAt(u, c, J, k) ==
  LET row == RowsShown(u)[k] IN
  \/ row.kind = "mem"
  \/ row.obj \in u.behind
  \/ UnderWay(row, J)
  \/ u.cells[k] = CellOf(row, c)

Current(u, c, J) == \A k \in DOMAIN u.cells : CurrentAt(u, c, J, k)

EditInv ==
  /\ TableOK(ui) /\ WidgetsOK(ui)
  /\ CacheOK(cache) /\ JobsOK(jobs) /\ InboxOK(inbox)
  /\ "at" \in DOMAIN readAll
  /\ ui.focus = "closed" => /\ inbox = <<>> /\ jobs = <<>> /\ ~ check /\ readAll.at = "off"
  /\ readAll.at # "rebuild" /\ ui.focus # "closed" => Current(ui, cache, jobs)

-----------------------------------------------------------------------------
\* The jobs and the messages.

\* Two sequences in one, of whatever elements they have.
LEMMA JoinOf ==
  ASSUME NEW p, NEW q, p \in Seq(Range(p)), q \in Seq(Range(q))
  PROVE  p \o q \in Seq(Range(p \o q)) /\ \A x : Has(p \o q, x) <=> Has(p, x) \/ Has(q, x)
<1> DEFINE S == Range(p) \cup Range(q)
<1>1. p \in Seq(S) /\ q \in Seq(S)
  <2>1. /\ \E n \in Nat : DOMAIN p = 1..n /\ p = [i \in 1..n |-> p[i]]
        /\ \E n \in Nat : DOMAIN q = 1..n /\ q = [i \in 1..n |-> q[i]]
    BY LenProperties
  <2>2. (\A i \in DOMAIN p : p[i] \in S) /\ (\A i \in DOMAIN q : q[i] \in S)
    BY DEF Range
  <2> HIDE DEF S
  <2> QED
    BY <2>1, <2>2
<1> HIDE DEF S
<1>2. p \o q \in Seq(S)
  BY <1>1, ConcatProperties
<1> QED
  BY <1>1, <1>2, ConcatElements, SeqOfRange

\* A sequence with one more element.
LEMMA AppendOf ==
  ASSUME NEW p, NEW y, p \in Seq(Range(p))
  PROVE  /\ Append(p, y) \in Seq(Range(Append(p, y)))
         /\ \A x : Has(Append(p, y), x) <=> Has(p, x) \/ x = y
<1> DEFINE S == Range(p) \cup {y}
<1>1. p \in Seq(S) /\ y \in S
  <2>1. \E n \in Nat : DOMAIN p = 1..n /\ p = [i \in 1..n |-> p[i]]
    BY LenProperties
  <2>2. \A i \in DOMAIN p : p[i] \in S
    BY DEF Range
  <2>3. y \in S
    OBVIOUS
  <2> HIDE DEF S
  <2> QED
    BY <2>1, <2>2, <2>3
<1> HIDE DEF S
<1>2. /\ Append(p, y) \in Seq(S) /\ Len(p) \in Nat /\ DOMAIN p = 1..Len(p)
      /\ DOMAIN Append(p, y) = 1..(Len(p) + 1)
      /\ \A i \in 1..Len(p) : Append(p, y)[i] = p[i]
      /\ Append(p, y)[Len(p) + 1] = y
  BY <1>1, AppendProperties, LenProperties
<1>3. \A x : Has(Append(p, y), x) <=> Has(p, x) \/ x = y
  BY <1>2 DEF Has
<1> QED
  BY <1>2, <1>3, SeqOfRange

\* A sequence without one of its elements keeps the others.
LEMMA RemovalOf ==
  ASSUME NEW s, s \in Seq(Range(s)), NEW i \in DOMAIN s
  PROVE  /\ RemoveAt(s, i) \in Seq(Range(RemoveAt(s, i)))
         /\ \A x : Has(RemoveAt(s, i), x) => Has(s, x)
         /\ \A k \in DOMAIN s : k # i => Has(RemoveAt(s, i), s[k])
<1> DEFINE p == SubSeq(s, 1, i - 1)
           q == SubSeq(s, i + 1, Len(s))
           S == Range(s)
<1>0. Len(s) \in Nat /\ DOMAIN s = 1..Len(s) /\ i \in 1..Len(s)
  BY LenProperties
<1>1. /\ p \in Seq(S) /\ DOMAIN p = 1..(i - 1) /\ \A k \in 1..(i - 1) : p[k] = s[k]
  BY <1>0
<1>2. /\ q \in Seq(S) /\ DOMAIN q = 1..(Len(s) - i) /\ \A k \in 1..(Len(s) - i) : q[k] = s[k + i]
  BY <1>0
<1>3. RemoveAt(s, i) = p \o q
  BY DEF RemoveAt
<1> HIDE DEF p, q, S
<1>4. p \o q \in Seq(S) /\ \A x : Has(p \o q, x) <=> Has(p, x) \/ Has(q, x)
  BY <1>1, <1>2, ConcatElements, ConcatProperties
<1>5. \A x : Has(p, x) \/ Has(q, x) => Has(s, x)
  <2>1. \A k \in 1..(i - 1) : k \in DOMAIN s
    BY <1>0
  <2>2. \A k \in 1..(Len(s) - i) : k + i \in DOMAIN s
    BY <1>0
  <2> QED
    BY <1>1, <1>2, <2>1, <2>2 DEF Has
<1>6. \A k \in DOMAIN s : k # i => Has(p, s[k]) \/ Has(q, s[k])
  <2> SUFFICES ASSUME NEW k \in DOMAIN s, k # i PROVE Has(p, s[k]) \/ Has(q, s[k])
    OBVIOUS
  <2>1. CASE k < i
    <3>1. k \in DOMAIN p /\ p[k] = s[k]
      BY <1>0, <1>1, <2>1
    <3> QED
      BY <3>1 DEF Has
  <2>2. CASE k > i
    <3>1. k - i \in DOMAIN q /\ q[k - i] = s[k]
      BY <1>0, <1>2, <2>2
    <3> QED
      BY <3>1 DEF Has
  <2> QED
    BY <1>0, <2>1, <2>2
<1> QED
  BY <1>3, <1>4, <1>5, <1>6, SeqOfRange

\* The jobs are in order if each of them is.
LEMMA JobsElements ==
  ASSUME NEW J
  PROVE  JobsOK(J) <=> J \in Seq(Range(J)) /\ \A x : Has(J, x) => JobOK(x)
  BY DEF JobsOK, Has

\* The messages are in order if each of them is.
LEMMA InboxElements ==
  ASSUME NEW q
  PROVE  InboxOK(q) <=> q \in Seq(Range(q)) /\ \A x : Has(q, x) => MessageOK(x)
  BY DEF InboxOK, Has

\* New jobs follow the jobs there are.
LEMMA JoinJobs ==
  ASSUME NEW J, NEW K, JobsOK(J), JobsOK(K)
  PROVE  JobsOK(J \o K) /\ \A x : Has(J, x) => Has(J \o K, x)
<1>1. J \in Seq(Range(J)) /\ K \in Seq(Range(K))
  BY DEF JobsOK
<1>2. J \o K \in Seq(Range(J \o K)) /\ \A x : Has(J \o K, x) <=> Has(J, x) \/ Has(K, x)
  BY <1>1, JoinOf
<1> QED
  BY <1>2, JobsElements

\* A job more.
LEMMA AppendJob ==
  ASSUME NEW J, NEW j, JobsOK(J), JobOK(j)
  PROVE  JobsOK(Append(J, j)) /\ \A x : Has(J, x) => Has(Append(J, j), x)
<1>1. J \in Seq(Range(J))
  BY DEF JobsOK
<1> QED
  BY <1>1, AppendOf, JobsElements

\* A job less, and the others stay.
LEMMA RemoveJob ==
  ASSUME NEW J, JobsOK(J), NEW i \in DOMAIN J
  PROVE  JobsOK(RemoveAt(J, i)) /\ \A k \in DOMAIN J : k # i => Has(RemoveAt(J, i), J[k])
<1>1. J \in Seq(Range(J))
  BY DEF JobsOK
<1> QED
  BY <1>1, RemovalOf, JobsElements

\* A message more.
LEMMA AppendMessage ==
  ASSUME NEW q, NEW m, InboxOK(q), MessageOK(m)
  PROVE  InboxOK(Append(q, m))
<1>1. q \in Seq(Range(q))
  BY DEF InboxOK
<1> QED
  BY <1>1, AppendOf, InboxElements

\* The next message is one that the app knows, and so are those after it.
LEMMA TailMessages ==
  ASSUME NEW q, InboxOK(q), q # <<>>
  PROVE  InboxOK(Tail(q)) /\ MessageOK(Head(q))
<1>1. q \in Seq(Range(q)) /\ Len(q) \in Nat \ {0} /\ DOMAIN q = 1..Len(q)
  BY LenProperties, EmptySeq DEF InboxOK
<1>2. Head(q) = q[1] /\ 1 \in DOMAIN q
  BY <1>1
<1>3. Tail(q) \in Seq(Range(q)) /\ \A k \in DOMAIN Tail(q) : k + 1 \in DOMAIN q /\ Tail(q)[k] = q[k + 1]
  BY <1>1
<1>4. \A k \in DOMAIN Tail(q) : MessageOK(Tail(q)[k])
  BY <1>3 DEF InboxOK
<1>5. Tail(q) \in Seq(Range(Tail(q)))
  BY <1>3, SeqOfRange
<1> QED
  BY <1>2, <1>4, <1>5 DEF InboxOK

-----------------------------------------------------------------------------
\* What the editor does to the widgets: the table keeps its cells.

SameCells(u, w) ==
  /\ w.view = u.view /\ w.expand = u.expand /\ w.cells = u.cells
  /\ w.behind = u.behind

\* From u to w the widgets change, and nothing in the table.
Turn(u, w) ==
  /\ TableOK(w) /\ WidgetsOK(w)
  /\ w.focus # "closed"
  /\ SameCells(u, w)

\* w differs from u in the input line and the focus alone.
SameButInput(u, w) ==
  /\ DOMAIN w = DOMAIN u
  /\ w.view = u.view /\ w.expand = u.expand /\ w.cells = u.cells /\ w.behind = u.behind
  /\ w.cursor = u.cursor /\ w.log = u.log
  /\ w.nav = u.nav /\ w.navIdx = u.navIdx /\ w.navReturn = u.navReturn
  /\ w.lanes # <<>> => \E n \in Nat \ {0} : DOMAIN w.lanes = 1..n
  /\ w.focus # "closed"

\* A change of the input line and the focus leaves the table in order.
LEMMA InputTurn ==
  ASSUME NEW u, NEW w, TableOK(u), WidgetsOK(u), SameButInput(u, w)
  PROVE  Turn(u, w)
<1>1. TableOK(w)
  BY DEF TableOK, SameButInput, RowsShown, Empty
<1>2. WidgetsOK(w)
  BY DEF WidgetsOK, SameButInput
<1>3. SameCells(u, w)
  BY DEF SameCells, SameButInput
<1> QED
  BY <1>1, <1>2, <1>3 DEF Turn, SameButInput

\* A record with the fields of the widgets, to read EXCEPTs of it.
LEMMA EndEditTurn ==
  ASSUME NEW u, TableOK(u), WidgetsOK(u), u.focus # "closed"
  PROVE  SameButInput(u, EndEdit(u)) /\ SameButInput(u, [EndEdit(u) EXCEPT !.focus = "table"])
<1>1. UiFields \subseteq DOMAIN u
  BY DEF TableOK
<1>2. SameButInput(u, EndEdit(u))
  BY <1>1 DEF EndEdit, UiFields, SameButInput
<1>3. SameButInput(u, [EndEdit(u) EXCEPT !.focus = "table"])
  BY <1>1 DEF EndEdit, UiFields, SameButInput
<1> QED
  BY <1>2, <1>3

\* A new job is in order, alone too.
LEMMA NewJob ==
  ASSUME NEW op, NEW key, NEW o, NEW lane, NEW calls,
         op = "write" => Calls(calls), op = "step" => o \in Object, op = "show" => o \in Mem
  PROVE  /\ JobOK(Job(op, key, o, lane, calls))
         /\ JobsOK(<<Job(op, key, o, lane, calls)>>)
<1>1. JobOK(Job(op, key, o, lane, calls))
  BY DEF JobOK, Job
<1> DEFINE j == Job(op, key, o, lane, calls)
<1>2. <<j>> \in Seq(Range(<<j>>)) /\ \A i \in DOMAIN <<j>> : <<j>>[i] = j
  <2> HIDE DEF j
  <2>1. <<j>> \in Seq({j}) /\ \A i \in DOMAIN <<j>> : <<j>>[i] = j
    OBVIOUS
  <2> QED
    BY <2>1, SeqOfRange
<1> HIDE DEF j
<1>3. JobOK(j) => JobsOK(<<j>>)
  BY <1>2 DEF JobsOK
<1> QED
  BY <1>1, <1>3 DEF j

\* No job at all.
LEMMA NoJobs == JobsOK(<<>>)
<1>1. <<>> \in Seq(Range(<<>>)) /\ DOMAIN <<>> = {}
  OBVIOUS
<1> QED
  BY <1>1 DEF JobsOK

\* A write of one call.
LEMMA SingleCall ==
  ASSUME NEW x
  PROVE  Calls(<<x>>)
<1> DEFINE s == <<x>>
<1>1. s = [i \in 1..1 |-> s[i]] /\ 1 \in Nat \ {0}
  OBVIOUS
<1> HIDE DEF s
<1>2. Calls(s)
  BY <1>1 DEF Calls
<1> QED
  BY <1>2 DEF s

\* A write of a call for each lane of an object.
LEMMA CallsOfLanes ==
  ASSUME NEW o \in Object
  PROVE  Calls(LaneSeq(o))
<1>1. PICK n \in Nat \ {0} : LanesOf(o) = 1..n
  BY LanesBound
<1>2. LaneSeq(o) = [i \in 1..n |-> LaneSeq(o)[i]]
  BY <1>1 DEF LaneSeq
<1> QED
  BY <1>2 DEF Calls

\* Zero for each of some lanes (_clear_mem_lanes_async).
LEMMA CallsOfZeros ==
  ASSUME NEW lanes, Calls(lanes)
  PROVE  Calls(LaneZeros(lanes))
<1>1. PICK n \in Nat \ {0} : lanes = [i \in 1..n |-> lanes[i]]
  BY DEF Calls
<1>2. DOMAIN lanes = 1..n
  BY <1>1
<1>3. LaneZeros(lanes) = [i \in 1..n |-> LaneZeros(lanes)[i]]
  BY <1>2 DEF LaneZeros
<1> QED
  BY <1>3 DEF Calls

\* A text for each of the lane inputs (_submit_vector_edit).
LEMMA CallsOfTexts ==
  ASSUME NEW o, NEW texts, NEW n \in Nat \ {0}, DOMAIN texts = 1..n
  PROVE  Calls(LaneCalls(o, texts))
<1>1. LaneCalls(o, texts) = [i \in 1..n |-> LaneCalls(o, texts)[i]]
  BY DEF LaneCalls
<1> QED
  BY <1>1 DEF Calls

\* The calls of a step are one at least (_step_pump).
LEMMA CallsOfStep ==
  ASSUME NEW o \in Object, NEW lane, NEW delta, NEW c
  PROVE  Calls(StepCalls(o, lane, delta, c))
<1>1. CASE IsFlags(o)
  <2>1. StepCalls(o, lane, delta, c) = <<Toggled(o, lane, c)>>
    BY <1>1 DEF StepCalls
  <2> QED
    BY <2>1, SingleCall
<1>2. CASE ~ IsFlags(o)
  <2> DEFINE lanes == IF lane = 0 THEN LaneSeq(o) ELSE <<lane>>
             steps == Stepped(o, lane, delta, c)
  <2>1. Calls(lanes)
    BY CallsOfLanes, SingleCall
  <2>2. DOMAIN steps = DOMAIN lanes /\ steps = [i \in DOMAIN lanes |-> steps[i]]
    BY DEF Stepped
  <2>3. StepCalls(o, lane, delta, c) = steps
    BY <1>2 DEF StepCalls
  <2> HIDE DEF lanes, steps
  <2>4. PICK n \in Nat \ {0} : lanes = [i \in 1..n |-> lanes[i]]
    BY <2>1 DEF Calls
  <2>5. DOMAIN lanes = 1..n
    BY <2>4
  <2>6. steps = [i \in 1..n |-> steps[i]]
    BY <2>2, <2>5
  <2> QED
    BY <2>3, <2>6 DEF Calls
<1> QED
  BY <1>1, <1>2

\* A handler of the editor: a turn of the widgets, and jobs in order.
Handles(u, r) == Turn(u, r.u) /\ JobsOK(r.jobs)

\* What an editor returns.
LEMMA DoneFields ==
  ASSUME NEW u, NEW new
  PROVE  Done(u, new).u = u /\ Done(u, new).jobs = new
  BY DEF Done

\* The cursor of a table that is not empty is on a row.
LEMMA CursorRowIsRow ==
  ASSUME NEW u, TableOK(u), ~ Empty(u)
  PROVE  IsRow(CursorRow(u)) /\ CursorRow(u).obj \in Object
<1>1. IsRow(CursorRow(u))
  BY RowsOf DEF TableOK, CursorRow, RowsShown
<1> QED
  BY <1>1 DEF IsRow, RowSet

\* enter on a row opens an edit or clears the row, and leaves the table
\* alone (_edit_cursor_row).
LEMMA EditHandles ==
  ASSUME NEW u, NEW c, TableOK(u), WidgetsOK(u), u.focus # "closed"
  PROVE  Handles(u, Edit(u, c))
<1>1. CASE Empty(u)
  <2>1. SameButInput(u, u)
    BY DEF SameButInput, WidgetsOK
  <2> QED
    BY <1>1, <2>1, InputTurn, NoJobs, DoneFields DEF Edit, Handles
<1>2. CASE ~ Empty(u)
  <2> DEFINE row == CursorRow(u)
             w   == [u EXCEPT !.lanes = <<>>]
  <2>0. Edit(u, c) = EditRow(w, u.cursor, row, c)
    BY <1>2 DEF Edit
  <2>1. IsRow(row) /\ row.obj \in Object
    BY <1>2, CursorRowIsRow
  <2>2. UiFields \subseteq DOMAIN u
    BY DEF TableOK
  <2>3. SameButInput(u, w)
    BY <2>2 DEF SameButInput, UiFields
  <2>4. PICK n \in Nat \ {0} : LanesOf(row.obj) = 1..n
    BY <2>1, LanesBound
  <2> HIDE DEF row, w
  <2>5. \A key : SameButInput(u, OpenLane(w, key, row, c))
    BY <2>2, <2>3 DEF OpenLane, Opened, SameButInput, UiFields
  <2>6. \A key : SameButInput(u, OpenVector([w EXCEPT !.lane = <<key, 0>>], row.obj, c))
    BY <2>2, <2>3, <2>4 DEF OpenVector, Opened, SameButInput, UiFields
  <2>7. SameButInput(u, OpenValue(w, row.obj, c))
    BY <2>2, <2>3, <2>4 DEF OpenValue, OpenVector, Opened, SameButInput, UiFields
  <2> DEFINE r == EditRow(w, u.cursor, row, c)
             lanes == IF row.lane = 0 THEN LaneSeq(row.obj) ELSE <<row.lane>>
             zeros == Job("write", u.cursor, row.obj, row.lane, LaneZeros(lanes))
             zero  == Job("write", u.cursor, row.obj, 0, <<ZeroCall(row.obj)>>)
  <2>8. JobsOK(<<zeros>>) /\ JobsOK(<<zero>>)
    <3>1. Calls(lanes) /\ Calls(<<ZeroCall(row.obj)>>)
      BY <2>1, CallsOfLanes, SingleCall
    <3>2. Calls(LaneZeros(lanes))
      BY <3>1, CallsOfZeros
    <3> HIDE DEF lanes
    <3> QED
      BY <3>1, <3>2, NewJob
  <2>9. \/ r = Done(w, <<>>)
        \/ r = Done(OpenLane(w, u.cursor, row, c), <<>>)
        \/ r = Done(OpenVector([w EXCEPT !.lane = <<u.cursor, 0>>], row.obj, c), <<>>)
        \/ r = Done(OpenValue(w, row.obj, c), <<>>)
        \/ r = Done(w, <<zeros>>)
        \/ r = Done(w, <<zero>>)
    BY Zenon DEF EditRow
  <2> HIDE DEF r, zeros, zero
  <2>10. \A x : SameButInput(u, x) => Turn(u, x)
    BY InputTurn
  <2>11. SameButInput(u, r.u)
    <3>1. \/ r.u = w
          \/ r.u = OpenLane(w, u.cursor, row, c)
          \/ r.u = OpenVector([w EXCEPT !.lane = <<u.cursor, 0>>], row.obj, c)
          \/ r.u = OpenValue(w, row.obj, c)
      BY <2>9, DoneFields
    <3>2. r.u = OpenLane(w, u.cursor, row, c) => SameButInput(u, r.u)
      BY Zenon, <2>5
    <3>3. r.u = OpenVector([w EXCEPT !.lane = <<u.cursor, 0>>], row.obj, c) => SameButInput(u, r.u)
      BY Zenon, <2>6
    <3> QED
      BY Zenon, <2>3, <2>7, <3>1, <3>2, <3>3
  <2>12. JobsOK(r.jobs)
    BY <2>8, <2>9, NoJobs, DoneFields
  <2> QED
    BY <2>0, <2>10, <2>11, <2>12 DEF Handles, r
<1> QED
  BY <1>1, <1>2

\* A write that goes out of the input line.
LEMMA SentHandles ==
  ASSUME NEW u, NEW w, NEW key, NEW o, NEW lane, NEW calls,
         TableOK(u), WidgetsOK(u), SameButInput(u, w), Calls(calls)
  PROVE  Handles(u, Sent(w, key, o, lane, calls))
<1> DEFINE x == [w EXCEPT !.focus = "table", !.meant = None]
           j == [Job("write", key, o, lane, calls) EXCEPT
                   !.meant = w.meant,
                   !.kept = ~ w.moved /\ w.meant.cursor \in {0, w.cursor}]
<1>1. Sent(w, key, o, lane, calls) = Done(x, <<j>>)
  BY DEF Sent
<1>2. SameButInput(u, x)
  BY DEF SameButInput, TableOK, UiFields
<1>3. JobOK(j)
  <2>1. JobOK(Job("write", key, o, lane, calls))
    BY NewJob
  <2> QED
    BY <2>1 DEF JobOK, Job
<1>4. Turn(u, x)
  BY <1>2, InputTurn
<1> HIDE DEF x, j
<1>5. JobsOK(<<j>>)
  <2>1. <<j>> = Append(<<>>, j)
    OBVIOUS
  <2>2. JobsOK(Append(<<>>, j))
    BY <1>3, NoJobs, AppendJob
  <2> QED
    BY <2>1, <2>2
<1> QED
  BY <1>1, <1>4, <1>5, DoneFields DEF Handles

\* enter in the input line sends a write or leaves the edit open
\* (on_input_submitted).
LEMMA SubmitHandles ==
  ASSUME NEW u, TableOK(u), WidgetsOK(u), u.focus # "closed"
  PROVE  Handles(u, Submit(u))
<1>0. UiFields \subseteq DOMAIN u
  BY DEF TableOK
<1>1. \A w : SameButInput(u, w) => Handles(u, Done(w, <<>>))
  BY InputTurn, NoJobs, DoneFields DEF Handles
<1>2. SameButInput(u, u)
  BY DEF SameButInput, WidgetsOK
<1>3. Handles(u, SubmitStep(u))
  <2>1. SameButInput(u, [u EXCEPT !.prompt = FALSE, !.text = Blank,
                                  !.focus = IF Empty(u) THEN @ ELSE "table",
                                  !.step = IF u.text.n >= 1 THEN u.text.n ELSE @])
    BY <1>0, <1>2 DEF SameButInput, UiFields
  <2> QED
    BY <1>1, <2>1 DEF SubmitStep
<1>4. u.lanes # <<>> => \A o : Calls(LaneCalls(o, u.lanes))
  BY CallsOfTexts DEF WidgetsOK
<1>5. ASSUME NEW key, NEW o
      PROVE  Handles(u, SubmitLanes(u, key, o))
  <2> DEFINE w == [u EXCEPT !.lane = <<>>]
             x == [u EXCEPT !.lane = <<>>, !.lanes = <<>>]
             r == SubmitLanes(u, key, o)
  <2>1. SameButInput(u, w) /\ SameButInput(u, x)
    BY <1>0, <1>2 DEF SameButInput, UiFields
  <2>2. \/ r = Done(w, <<>>)
        \/ r = Done(u, <<>>)
        \/ u.lanes # <<>> /\ r = Sent(x, key, o, 0, LaneCalls(o, u.lanes))
    BY Zenon DEF SubmitLanes
  <2> HIDE DEF w, x, r
  <2> QED
    BY <1>1, <1>2, <1>4, <2>1, <2>2, SentHandles DEF r
<1>6. ASSUME NEW key, NEW o, NEW lane
      PROVE  Handles(u, SubmitLane(u, key, o, lane))
  <2> DEFINE w == [u EXCEPT !.lane = <<>>, !.text = Blank]
             r == SubmitLane(u, key, o, lane)
             call == [y \in {lane} |-> Put(u.text.n, IsRawWrite(o, Blank), u.text)]
  <2>1. SameButInput(u, w)
    BY <1>0, <1>2 DEF SameButInput, UiFields
  <2>2. r = Done(u, <<>>) \/ r = Sent(w, key, o, lane, <<call>>)
    BY Zenon DEF SubmitLane
  <2> HIDE DEF w, r, call
  <2> QED
    BY <1>1, <1>2, <2>1, <2>2, SingleCall, SentHandles DEF r
<1>7. ASSUME NEW row
      PROVE  Handles(u, SubmitRow(u, row))
  <2> DEFINE w == [u EXCEPT !.lanes = <<>>]
             x == [u EXCEPT !.text = Blank]
             y == [u EXCEPT !.text = Blank, !.focus = "table", !.meant = None]
             r == SubmitRow(u, row)
             call == ScalarCall(row.obj, u.text)
  <2>1. SameButInput(u, w) /\ SameButInput(u, x) /\ SameButInput(u, y)
    BY <1>0, <1>2 DEF SameButInput, UiFields
  <2>2. \/ r = Done(u, <<>>)
        \/ r = Done(y, <<>>)
        \/ u.lanes # <<>> /\ r = Sent(w, u.cursor, row.obj, 0, LaneCalls(row.obj, u.lanes))
        \/ r = Sent(x, u.cursor, row.obj, 0, <<call>>)
    BY Zenon DEF SubmitRow
  <2> HIDE DEF w, x, y, r, call
  <2> QED
    BY <1>1, <1>2, <1>4, <2>1, <2>2, SingleCall, SentHandles DEF r
<1> DEFINE o == RowsShown(u)[u.lane[1]].obj
<1>8. \/ Submit(u) = SubmitStep(u)
      \/ Submit(u) = Done(u, <<>>)
      \/ Submit(u) = SubmitLanes(u, u.lane[1], o)
      \/ Submit(u) = SubmitLane(u, u.lane[1], o, u.lane[2])
      \/ Submit(u) = SubmitRow(u, CursorRow(u))
  BY Zenon DEF Submit
<1> HIDE DEF o
<1> QED
  BY <1>1, <1>2, <1>3, <1>5, <1>6, <1>7, <1>8

-----------------------------------------------------------------------------
\* Tables that are built or refreshed from the cache.

\* The widgets are as they should be, and the app is open.
OpenOK(u) == TableOK(u) /\ WidgetsOK(u) /\ u.focus # "closed"

\* Every cell shows the cache, whatever jobs there are.
Fresh(u, c) == OpenOK(u) /\ \A J : Current(u, c, J)

\* A sequence that is not empty has a first element.
LEMMA FirstElement ==
  ASSUME NEW S, NEW s \in Seq(S), s # <<>>
  PROVE  1 \in DOMAIN s
<1>1. Len(s) \in Nat /\ DOMAIN s = 1..Len(s)
  BY LenProperties
<1>2. Len(s) # 0
  BY EmptySeq
<1> QED
  BY <1>1, <1>2

\* A table that is not empty has a first row.
LEMMA FirstRow ==
  ASSUME NEW v \in View, NEW e \in BOOLEAN, Rows[v, e] # <<>>
  PROVE  1 \in DOMAIN Rows[v, e]
  BY RowsSeq, FirstElement

\* The cells of a table that was just built show the cache.
LEMMA FreshCellsShow ==
  ASSUME NEW u, NEW c, u.cells = FreshCells(RowsShown(u), c)
  PROVE  \A J : Current(u, c, J)
  BY DEF FreshCells, Current, CurrentAt

\* A table that was built shows the cache (_show_module, _show_mem).
LEMMA ShowFresh ==
  ASSUME NEW u, NEW c, NEW v \in View,
         UiFields \subseteq DOMAIN u, u.expand \in BOOLEAN, WidgetsOK(u), u.focus # "closed"
  PROVE  Fresh(Show(u, v, c), c)
<1> DEFINE w == Show(u, v, c)
<1>1. /\ DOMAIN w = DOMAIN u /\ w.view = v /\ w.expand = u.expand /\ w.cursor = 1
      /\ w.cells = FreshCells(Rows[v, u.expand], c)
      /\ w.lanes = u.lanes /\ w.log = u.log /\ w.nav = u.nav /\ w.navIdx = u.navIdx
      /\ w.navReturn = u.navReturn /\ w.focus = u.focus
  BY DEF Show, UiFields
<1> HIDE DEF w
<1>2. RowsShown(w) = Rows[v, u.expand]
  BY <1>1 DEF RowsShown
<1>3. Rows[v, u.expand] = <<>> \/ 1 \in DOMAIN Rows[v, u.expand]
  BY FirstRow
<1>4. Empty(w) \/ w.cursor \in DOMAIN RowsShown(w)
  BY <1>1, <1>2, <1>3 DEF Empty
<1>5. TableOK(w)
  BY <1>1, <1>2, <1>4 DEF TableOK, FreshCells
<1>6. WidgetsOK(w)
  BY <1>1 DEF WidgetsOK
<1>7. \A J : Current(w, c, J)
  BY <1>1, <1>2, FreshCellsShow
<1> QED
  BY <1>1, <1>5, <1>6, <1>7 DEF Fresh, OpenOK, w

\* w has the table of u, with the cursor on one of its rows.
LEMMA FreshCursor ==
  ASSUME NEW u, NEW w, NEW c, Fresh(u, c), DOMAIN w = DOMAIN u, SameCells(u, w),
         Empty(w) \/ w.cursor \in DOMAIN RowsShown(w),
         w.lanes = u.lanes, w.log = u.log, w.nav = u.nav, w.navIdx = u.navIdx,
         w.navReturn = u.navReturn, w.focus = u.focus
  PROVE  Fresh(w, c)
<1>1. RowsShown(w) = RowsShown(u)
  BY DEF SameCells, RowsShown
<1>2. TableOK(w) /\ WidgetsOK(w)
  BY <1>1 DEF Fresh, OpenOK, TableOK, WidgetsOK, SameCells
<1>3. \A J : Current(w, c, J)
  BY <1>1 DEF Fresh, Current, CurrentAt, SameCells
<1> QED
  BY <1>2, <1>3 DEF Fresh, OpenOK

\* So does one that was built again with other options (_reshow).
LEMMA ReshowFresh ==
  ASSUME NEW u, NEW c,
         UiFields \subseteq DOMAIN u, u.view \in View, u.expand \in BOOLEAN, WidgetsOK(u), u.focus # "closed"
  PROVE  Fresh(Reshow(u, c), c)
<1> DEFINE s == Show(u, u.view, c)
           w == Reshow(u, c)
           k == IF u.cursor \in DOMAIN Rows[u.view, u.expand] THEN u.cursor ELSE 1
<1>1. Fresh(s, c)
  BY ShowFresh
<1>2. s.view = u.view /\ s.expand = u.expand /\ s.cursor = 1 /\ UiFields \subseteq DOMAIN s
  BY DEF Show, UiFields
<1>3. w = [s EXCEPT !.cursor = k]
  BY DEF Reshow
<1> HIDE DEF s, w
<1>4. /\ DOMAIN w = DOMAIN s /\ SameCells(s, w) /\ w.cursor = k
      /\ w.lanes = s.lanes /\ w.log = s.log /\ w.nav = s.nav /\ w.navIdx = s.navIdx
      /\ w.navReturn = s.navReturn /\ w.focus = s.focus
  BY <1>2, <1>3 DEF SameCells, UiFields
<1>5. RowsShown(w) = Rows[u.view, u.expand]
  BY <1>2, <1>4 DEF RowsShown, SameCells
<1>6. Empty(w) \/ w.cursor \in DOMAIN RowsShown(w)
  BY <1>4, <1>5, FirstRow DEF Empty
<1>7. Fresh(w, c)
  BY <1>1, <1>4, <1>6, FreshCursor
<1> QED
  BY <1>7 DEF w

\* So does one whose cells were all refreshed (_refresh_shown_values).
LEMMA RefreshShownFresh ==
  ASSUME NEW u, NEW c, OpenOK(u)
  PROVE  Fresh(RefreshShown(u, c), c)
<1> DEFINE w == RefreshShown(u, c)
           keys == {k \in DOMAIN u.cells : u.view \in Module \/ k > 1}
<1>1. /\ DOMAIN w = DOMAIN u /\ w.view = u.view /\ w.expand = u.expand /\ w.cursor = u.cursor
      /\ w.cells = [k \in DOMAIN u.cells |-> IF k \in keys THEN CellOf(RowsShown(u)[k], c) ELSE u.cells[k]]
      /\ w.lanes = u.lanes /\ w.log = u.log /\ w.nav = u.nav /\ w.navIdx = u.navIdx
      /\ w.navReturn = u.navReturn /\ w.focus = u.focus
  BY DEF RefreshShown, Paint, UiFields, OpenOK, TableOK
<1> HIDE DEF w
<1>2. RowsShown(w) = RowsShown(u)
  BY <1>1 DEF RowsShown
<1>3. TableOK(w) /\ WidgetsOK(w)
  BY <1>1, <1>2 DEF OpenOK, TableOK, WidgetsOK, Empty
<1>4. ASSUME NEW k \in DOMAIN u.cells
      PROVE  RowsShown(u)[k].kind = "mem" \/ w.cells[k] = CellOf(RowsShown(u)[k], c)
  <2>1. CASE k \in keys
    BY <1>1, <2>1
  <2>2. CASE k \notin keys
    <3>1. RowsShown(u) \in Seq(RowSet) /\ k \in DOMAIN RowsShown(u)
      BY RowsSeq DEF RowsShown, OpenOK, TableOK
    <3>2. k \in Nat /\ k >= 1
      BY <3>1
    <3>3. u.view \in Mem /\ k = 1
      BY <2>2, <3>2 DEF OpenOK, TableOK, View
    <3>4. u.view \in View /\ u.expand \in BOOLEAN /\ k \in DOMAIN Rows[u.view, u.expand]
      BY <3>1 DEF RowsShown, OpenOK, TableOK
    <3>5. Rows[u.view, u.expand] = MemRows(u.view)
      BY <3>3, <3>4 DEF Rows
    <3>6. MemRows(u.view)[1] = MemRow(u.view)
      BY <3>3, MemRowsOf
    <3>7. MemRow(u.view).kind = "mem"
      BY DEF MemRow, Row
    <3> QED
      BY <3>3, <3>5, <3>6, <3>7 DEF RowsShown
  <2> QED
    BY <2>1, <2>2
<1>5. DOMAIN w.cells = DOMAIN u.cells
  BY <1>1
<1>6. ASSUME NEW J, NEW k \in DOMAIN w.cells
      PROVE  CurrentAt(w, c, J, k)
  <2>1. RowsShown(u)[k].kind = "mem" \/ w.cells[k] = CellOf(RowsShown(u)[k], c)
    BY <1>4, <1>5
  <2> QED
    BY <1>2, <2>1, Zenon DEF CurrentAt
<1>7. \A J : Current(w, c, J)
  BY <1>6 DEF Current
<1> QED
  BY <1>1, <1>3, <1>7 DEF Fresh, OpenOK, w

\* What a fresh table gives.
LEMMA FreshOf ==
  ASSUME NEW u, NEW c, Fresh(u, c)
  PROVE  OpenOK(u) /\ \A J : Current(u, c, J)
  BY DEF Fresh

\* From u to w the table stays as it was, or is up to date.
Outcome(u, c, w) == OpenOK(w) /\ (SameCells(u, w) \/ \A J : Current(w, c, J))

\* Both a turn of the widgets and a fresh table are outcomes of a handler.
LEMMA TurnOutcome ==
  ASSUME NEW u, NEW c, NEW w, Turn(u, w) \/ Fresh(w, c)
  PROVE  Outcome(u, c, w)
  BY DEF Turn, Fresh, OpenOK, Outcome

\* A write that is under way stays under way while its job does.
LEMMA UnderWayKept ==
  ASSUME NEW J, NEW K, \A x : Has(J, x) /\ x.done > 0 => Has(K, x)
  PROVE  \A row : UnderWay(row, J) => UnderWay(row, K)
  BY DEF Has, UnderWay

\* After such a handler the cells show the cache as before, if no job that
\* called is gone.
LEMMA OutcomeCurrent ==
  ASSUME NEW u, NEW c, NEW w, NEW J, NEW K, Current(u, c, J), Outcome(u, c, w),
         \A x : Has(J, x) /\ x.done > 0 => Has(K, x)
  PROVE  Current(w, c, K)
<1>1. CASE \A L : Current(w, c, L)
  BY <1>1
<1>2. CASE SameCells(u, w)
  <2>1. RowsShown(w) = RowsShown(u)
    BY <1>2 DEF SameCells, RowsShown
  <2>2. \A row : UnderWay(row, J) => UnderWay(row, K)
    BY UnderWayKept
  <2> QED
    BY <1>2, <2>1, <2>2 DEF Current, CurrentAt, SameCells
<1> QED
  BY <1>1, <1>2 DEF Outcome

\* A read of a memory that is shown.
LEMMA ShowJobsOK ==
  ASSUME NEW v \in View
  PROVE  JobsOK(ShowJobs(v))
<1>1. CASE v \in Mem
  BY <1>1, NewJob DEF ShowJobs
<1>2. CASE v \notin Mem
  BY <1>2, NoJobs DEF ShowJobs
<1> QED
  BY <1>1, <1>2

\* Putting the cursor back on a row (_restore_table_cursor).
LEMMA RestoreTurn ==
  ASSUME NEW u, NEW key, OpenOK(u)
  PROVE  Turn(u, RestoreCursor(u, key))
<1>1. CASE key \in DOMAIN RowsShown(u)
  <2> DEFINE w == [u EXCEPT !.cursor = key]
  <2>1. /\ DOMAIN w = DOMAIN u /\ SameCells(u, w) /\ w.cursor = key
        /\ w.lanes = u.lanes /\ w.log = u.log /\ w.nav = u.nav /\ w.navIdx = u.navIdx
        /\ w.navReturn = u.navReturn /\ w.focus = u.focus
    BY DEF SameCells, UiFields, OpenOK, TableOK
  <2> HIDE DEF w
  <2>2. RowsShown(w) = RowsShown(u)
    BY <2>1 DEF RowsShown, SameCells
  <2>3. TableOK(w) /\ WidgetsOK(w)
    BY <1>1, <2>1, <2>2 DEF OpenOK, TableOK, WidgetsOK, SameCells
  <2>4. Turn(u, w)
    BY <2>1, <2>3 DEF Turn, OpenOK
  <2> QED
    BY <1>1, <2>4 DEF RestoreCursor, w
<1>2. CASE key \notin DOMAIN RowsShown(u)
  <2>1. Turn(u, u)
    BY DEF Turn, OpenOK, SameCells
  <2> QED
    BY <1>2, <2>1 DEF RestoreCursor
<1> QED
  BY <1>1, <1>2

\* A node of the tree is selected (on_tree_node_selected).
LEMMA SelectedOutcome ==
  ASSUME NEW u, NEW v \in View, NEW c, OpenOK(u)
  PROVE  Outcome(u, c, Selected(u, v, c).u) /\ JobsOK(Selected(u, v, c).jobs)
<1> DEFINE s == [u EXCEPT !.highlighted = v]
           w == Show(s, v, c)
           x == RestoreCursor(u, u.restore)
           r == Selected(u, v, c)
<1>1. /\ UiFields \subseteq DOMAIN s /\ s.expand \in BOOLEAN /\ WidgetsOK(s) /\ s.focus # "closed"
  BY DEF OpenOK, TableOK, UiFields, WidgetsOK
<1> HIDE DEF s
<1>2. Fresh(w, c)
  BY <1>1, ShowFresh
<1>3. Turn(u, x)
  BY RestoreTurn
<1>4. r = Done(x, <<>>) \/ r = Done(w, ShowJobs(v))
  BY Zenon DEF Selected, s
<1> HIDE DEF w, x, r
<1> QED
  BY <1>2, <1>3, <1>4, NoJobs, ShowJobsOK, DoneFields, TurnOutcome DEF r

\* Every message the app takes leaves the table as it was, or fresh.
LEMMA HandledOutcome ==
  ASSUME NEW u, NEW msg, NEW c, OpenOK(u), MessageOK(msg)
  PROVE  Outcome(u, c, Handled(u, msg, c).u) /\ JobsOK(Handled(u, msg, c).jobs)
<1> DEFINE r == Handled(u, msg, c)
<1>0. TableOK(u) /\ WidgetsOK(u) /\ u.focus # "closed"
  BY DEF OpenOK
<1>1. CASE msg.type = "select"
  <2>1. r = Selected(u, msg.node, c) /\ msg.node \in View
    BY <1>1 DEF Handled, MessageOK
  <2> QED
    BY <2>1, SelectedOutcome
<1>2. \A s : Handles(u, s) => Outcome(u, c, s.u) /\ JobsOK(s.jobs)
  BY TurnOutcome DEF Handles
<1>3. CASE msg.type = "edit"
  <2>1. r = Edit(u, c)
    BY <1>3 DEF Handled
  <2> QED
    BY <1>0, <1>2, <2>1, EditHandles
<1>4. CASE msg.type = "submit"
  <2>1. r = Submit(u)
    BY <1>4 DEF Handled
  <2> QED
    BY <1>0, <1>2, <2>1, SubmitHandles
<1>5. SameButInput(u, u) /\ SameButInput(u, EndEdit(u))
      /\ SameButInput(u, [EndEdit(u) EXCEPT !.focus = "table"])
  BY <1>0, EndEditTurn DEF SameButInput, WidgetsOK
<1>6. \A w : SameButInput(u, w) => Handles(u, Done(w, <<>>))
  BY <1>0, InputTurn, NoJobs, DoneFields DEF Handles
<1>7. CASE msg.type = "cancel"
  <2>1. r = Done([EndEdit(u) EXCEPT !.focus = "table"], <<>>)
    BY <1>7 DEF Handled
  <2>2. Handles(u, r)
    BY <1>5, <1>6, <2>1
  <2> QED
    BY <1>2, <2>2
<1>8. CASE msg.type = "blur"
  <2>1. r = Done(Abandon(u), <<>>) /\ (Abandon(u) = u \/ Abandon(u) = EndEdit(u))
    BY <1>8 DEF Handled, Abandon
  <2>2. Handles(u, r)
    BY <1>5, <1>6, <2>1
  <2> QED
    BY <1>2, <2>2
<1> QED
  BY <1>1, <1>3, <1>4, <1>7, <1>8 DEF MessageOK

-----------------------------------------------------------------------------
\* The assert log, and the asset that it takes the user to.

\* The asserts that are triggered are among those that are watched.
LEMMA TriggeredWatched ==
  ASSUME NEW objs, NEW c
  PROVE  Triggered(objs, c) \in Seq(Range(Watch))
<1> DEFINE Asserts(a) ==
             /\ a.obj \in objs
             /\ IF a.lane = 0 THEN \E i \in LanesOf(a.obj) : c[a.obj][i] # 0 ELSE c[a.obj][a.lane] # 0
           ss == [i \in DOMAIN Watch |-> IF Asserts(Watch[i]) THEN <<Watch[i]>> ELSE <<>>]
           S  == Range(Watch)
<1>1. Triggered(objs, c) = FlattenSeq(ss)
  BY DEF Triggered
<1>2. PICK n \in Nat : DOMAIN Watch = 1..n
  BY WatchAssumption
<1>3. \A i \in 1..n : Watch[i] \in S
  BY <1>2 DEF Range
<1>4. ss = [i \in 1..n |-> IF Asserts(Watch[i]) THEN <<Watch[i]>> ELSE <<>>]
  BY <1>2
<1> HIDE DEF Asserts, S
<1>5. ss \in Seq(Seq(S))
  BY <1>3, <1>4
<1> HIDE DEF ss
<1>6. FlattenSeq(ss) \in Seq(S)
  BY <1>5, FlattenElements
<1> QED
  BY <1>1, <1>6 DEF S

\* New entries of the assert log leave the table alone, and the log cursor
\* on an entry.
LEMMA LogOpen ==
  ASSUME NEW u, NEW objs, NEW c, OpenOK(u)
  PROVE  OpenOK(Log(u, objs, c)) /\ SameCells(u, Log(u, objs, c))
<1> DEFINE new == Triggered(objs, c)
           w   == Log(u, objs, c)
           S   == Range(Watch)
<1>1. new \in Seq(S) /\ u.log \in Seq(S)
  BY TriggeredWatched DEF OpenOK, WidgetsOK
<1>2. /\ DOMAIN w = DOMAIN u /\ SameCells(u, w) /\ w.cursor = u.cursor /\ w.log = u.log \o new
      /\ w.lanes = u.lanes /\ w.nav = u.nav /\ w.navIdx = u.navIdx
      /\ w.navReturn = u.navReturn /\ w.focus = u.focus
  BY DEF Log, SameCells, UiFields, OpenOK, TableOK
<1> HIDE DEF new, w, S
<1>3. w.log \in Seq(S) /\ DOMAIN u.log \subseteq DOMAIN w.log
  <2>1. /\ Len(u.log) \in Nat /\ DOMAIN u.log = 1..Len(u.log)
        /\ Len(new) \in Nat
        /\ DOMAIN (u.log \o new) = 1..(Len(u.log) + Len(new)) /\ u.log \o new \in Seq(S)
    <3> DEFINE p == u.log
    <3>1. p \in Seq(S)
      BY <1>1
    <3> HIDE DEF p
    <3>2. /\ Len(p) \in Nat /\ DOMAIN p = 1..Len(p) /\ Len(new) \in Nat
          /\ p \o new \in Seq(S) /\ Len(p \o new) = Len(p) + Len(new)
      BY <1>1, <3>1, ConcatProperties, LenProperties
    <3>3. DOMAIN (p \o new) = 1..(Len(p) + Len(new))
      BY <3>2, LenProperties
    <3> QED
      BY <3>2, <3>3 DEF p
  <2> QED
    BY <1>2, <2>1
<1>4. TableOK(w)
  BY <1>2 DEF OpenOK, TableOK, SameCells, RowsShown, Empty
<1>5. WidgetsOK(w)
  BY <1>2, <1>3 DEF OpenOK, WidgetsOK, S
<1> QED
  BY <1>2, <1>4, <1>5 DEF OpenOK, w

\* A log entry after a refresh leaves the cells as fresh as they are.
LEMMA CurrentSame ==
  ASSUME NEW u, NEW w, NEW c, NEW J, SameCells(u, w), Current(u, c, J)
  PROVE  Current(w, c, J)
<1>1. RowsShown(w) = RowsShown(u)
  BY DEF SameCells, RowsShown
<1> QED
  BY <1>1 DEF Current, CurrentAt, SameCells

\* An asset that the table can show: of a module, or a memory.
IsAsset(a) ==
  \/ a.obj \in Mem
  \/ a.obj \in Register /\ (a.lane = 0 \/ (IsFlags(a.obj) /\ a.lane \in LanesOf(a.obj)))

\* An element of a sequence.
LEMMA ElementOf ==
  ASSUME NEW S, NEW s \in Seq(S), NEW i \in DOMAIN s
  PROVE  s[i] \in S
  OBVIOUS

\* An entry of the assert log has a place in the table.
LEMMA WatchedIsAsset ==
  ASSUME NEW a \in Range(Watch)
  PROVE  IsAsset(a)
<1>1. PICK i \in DOMAIN Watch : a = Watch[i]
  BY DEF Range
<1>2. Watch[i] \in [obj : Register, lane : Nat]
  <2> DEFINE S == [obj : Register, lane : Nat]
  <2>1. Watch \in Seq(S)
    BY WatchAssumption
  <2> HIDE DEF S
  <2>2. Watch[i] \in S
    BY <2>1, ElementOf
  <2> QED
    BY <2>2 DEF S
<1>3. a.obj \in Register /\ (a.lane # 0 => IsFlags(a.obj) /\ a.lane \in LanesOf(a.obj))
  BY <1>1, <1>2, WatchAssumption
<1> QED
  BY <1>3 DEF IsAsset

\* A register has a module that holds it.
LEMMA HomeHolds ==
  ASSUME NEW o \in Register
  PROVE  HomeOf(o) \in Module /\ o \in Range(Regs[HomeOf(o)])
<1>1. PICK m \in Module : o \in Range(Regs[m])
  BY DEF Register
<1>2. HomeOf(o) \in Module /\ o \in Range(Regs[HomeOf(o)]) \cup Range(Mems[HomeOf(o)])
  BY <1>1 DEF HomeOf
<1>3. o \notin Range(Mems[HomeOf(o)])
  BY <1>2, ObjectAssumption DEF Mem
<1> QED
  BY <1>2, <1>3

\* One of the rows is that of the asset.
ShowsAsset(rows, a) ==
  \E k \in DOMAIN rows : /\ rows[k].obj = a.obj /\ rows[k].kind \in {"own", "mem", "flag"}
                         /\ rows[k].lane = a.lane

\* A module has a row for each asset of its registers.
LEMMA AssetRow ==
  ASSUME NEW m \in Module, NEW e \in BOOLEAN, NEW a, IsAsset(a), a.obj \in Range(Regs[m])
  PROVE  ShowsAsset(Rows[m, e], a)
<1>0. a.obj \in Register /\ (a.lane = 0 \/ (IsFlags(a.obj) /\ a.lane \in LanesOf(a.obj)))
  <2>1. a.obj \in Register
    BY DEF Register
  <2> QED
    BY <2>1, ObjectAssumption DEF IsAsset
<1>1. m \notin Mem /\ m \in View
  BY ObjectAssumption DEF View
<1>2. Rows[m, e] = ModuleRows(m, e)
  BY <1>1 DEF Rows
<1>3. \E kind \in {"own", "flag"} : Has(RegRows(a.obj, e), Row(a.obj, a.lane, kind))
  BY <1>0, RegRowsOf
<1>4. PICK kind \in {"own", "flag"} : Has(ModuleRows(m, e), Row(a.obj, a.lane, kind))
  BY <1>3, ModuleRowsOf
<1>5. PICK k \in DOMAIN ModuleRows(m, e) : ModuleRows(m, e)[k] = Row(a.obj, a.lane, kind)
  BY <1>4 DEF Has
<1> DEFINE row == Rows[m, e][k]
<1>6. k \in DOMAIN Rows[m, e] /\ row = Row(a.obj, a.lane, kind)
  BY <1>2, <1>5
<1> HIDE DEF row
<1>7. row.obj = a.obj /\ row.kind = kind /\ row.lane = a.lane
  BY <1>6 DEF Row
<1> QED
  BY <1>6, <1>7 DEF row, ShowsAsset

\* Where an asset is shown.
PlaceOf(a) == IF a.obj \in Mem THEN a.obj ELSE HomeOf(a.obj)

\* That place is a node of the tree.
LEMMA PlaceIsView ==
  ASSUME NEW a, IsAsset(a)
  PROVE  PlaceOf(a) \in View
  BY HomeHolds DEF IsAsset, PlaceOf, View

\* Going to an asset builds its table, or moves the cursor to its row
\* (_show_asset).
LEMMA ShowAssetOutcome ==
  ASSUME NEW u, NEW c, NEW a, OpenOK(u), IsAsset(a)
  PROVE  Outcome(u, c, ShowAsset(u, a, c))
<1> DEFINE v == PlaceOf(a)
           s == IF u.view = v THEN u ELSE Show(u, v, c)
           Fits(k) == /\ RowsShown(s)[k].kind \in {"own", "mem", "flag"}
                      /\ RowsShown(s)[k].lane = a.lane
           key == CHOOSE k \in KeysOf(s, a.obj) : Fits(k)
           w == [s EXCEPT !.highlighted = v, !.restore = key, !.cursor = key]
<1>1. /\ a.obj \in Mem => ShowAsset(u, a, c) = s
      /\ a.obj \notin Mem => ShowAsset(u, a, c) = w
  BY DEF ShowAsset, PlaceOf
<1>2. v \in View /\ u.view \in View /\ u.expand \in BOOLEAN /\ UiFields \subseteq DOMAIN u
      /\ WidgetsOK(u) /\ u.focus # "closed"
  BY PlaceIsView DEF OpenOK, TableOK
<1>3. Fresh(Show(u, v, c), c) /\ Show(u, v, c).view = v /\ Show(u, v, c).expand = u.expand
  BY <1>2, ShowFresh DEF Show, UiFields
<1>4. OpenOK(s) /\ s.view = v /\ s.expand \in BOOLEAN /\ (s = u \/ Fresh(s, c))
  BY <1>2, <1>3, FreshOf
<1>5. CASE a.obj \in Mem
  <2>1. Outcome(u, c, s)
    BY <1>4, FreshOf DEF Outcome, SameCells
  <2> QED
    BY <1>1, <1>5, <2>1
<1>6. CASE a.obj \notin Mem
  <2>1. /\ a.obj \in Register /\ (a.lane = 0 \/ (IsFlags(a.obj) /\ a.lane \in LanesOf(a.obj)))
        /\ v = HomeOf(a.obj)
    BY <1>6 DEF IsAsset, PlaceOf
  <2>2. v \in Module /\ a.obj \in Range(Regs[v])
    BY <2>1, HomeHolds
  <2> HIDE DEF v
  <2>3. ShowsAsset(Rows[v, s.expand], a)
    BY <1>4, <2>2, AssetRow
  <2>4. RowsShown(s) = Rows[v, s.expand]
    BY <1>4 DEF RowsShown
  <2> HIDE DEF s
  <2>5. \E k \in KeysOf(s, a.obj) : Fits(k)
    BY <2>3, <2>4 DEF KeysOf, ShowsAsset
  <2> HIDE DEF Fits
  <2>6. key \in DOMAIN RowsShown(s)
    <3>1. key \in KeysOf(s, a.obj)
      BY <2>5
    <3> QED
      BY <3>1 DEF KeysOf
  <2> HIDE DEF key
  <2>7. /\ DOMAIN w = DOMAIN s /\ SameCells(s, w) /\ w.cursor = key
        /\ w.lanes = s.lanes /\ w.log = s.log /\ w.nav = s.nav /\ w.navIdx = s.navIdx
        /\ w.navReturn = s.navReturn /\ w.focus = s.focus
    BY <1>4 DEF SameCells, UiFields, OpenOK, TableOK
  <2> HIDE DEF w
  <2>8. RowsShown(w) = RowsShown(s)
    BY <2>7 DEF RowsShown, SameCells
  <2>9. OpenOK(w)
    BY <1>4, <2>6, <2>7, <2>8 DEF OpenOK, TableOK, WidgetsOK, SameCells
  <2>10. SameCells(u, w) \/ Fresh(w, c)
    <3>1. CASE s = u
      BY <2>7, <3>1
    <3>2. CASE Fresh(s, c)
      BY <2>6, <2>7, <2>8, <3>2, FreshCursor
    <3> QED
      BY <1>4, <3>1, <3>2
  <2>11. Outcome(u, c, w)
    BY <2>9, <2>10, FreshOf DEF Outcome
  <2> QED
    BY <1>1, <1>6, <2>11
<1> QED
  BY <1>5, <1>6

-----------------------------------------------------------------------------
\* Jobs that end.

\* The caches c and d differ in o alone.
OnlyIn(o, c, d) == \A p \in Object : p # o => d[p] = c[p]

\* The row at k is one of an object, and that of lane k - 1 in a memory's own view.
ShownRow(u, k, row) ==
  /\ k \in Nat /\ IsRow(row) /\ row.obj \in Object
  /\ row.obj \in Mem => row.kind = "mem" \/ (u.view = row.obj /\ row.lane = k - 1 /\ k # 1)
  /\ u.view \in Mem /\ k = 1 => row.kind = "mem"

\* The rows that the table shows are such rows.
LEMMA ShownRows ==
  ASSUME NEW u, OpenOK(u), NEW k \in DOMAIN u.cells
  PROVE  ShownRow(u, k, RowsShown(u)[k])
<1>1. /\ u.view \in View /\ u.expand \in BOOLEAN /\ k \in DOMAIN Rows[u.view, u.expand]
      /\ RowsShown(u) = Rows[u.view, u.expand]
  BY DEF OpenOK, TableOK, RowsShown
<1> DEFINE s == Rows[u.view, u.expand]
<1>2. k \in Nat
  <2>1. s \in Seq(RowSet) /\ k \in DOMAIN s
    BY <1>1, RowsSeq
  <2> HIDE DEF s
  <2> QED
    BY <2>1
<1> DEFINE row == s[k]
<1>3. /\ IsRow(row)
      /\ row.obj \in Mem => row.kind = "mem" \/ (u.view = row.obj /\ k # 1 /\ row.lane = k - 1)
      /\ u.view \in Mem /\ k = 1 => row.kind = "mem"
  BY <1>1, RowsOf
<1>4. RowsShown(u)[k] = row
  BY <1>1
<1> HIDE DEF row
<1> QED
  BY <1>2, <1>3, <1>4 DEF ShownRow, IsRow, RowSet

\* The jobs of K are those of J without one of o that has ended.
Without(o, J, K) == \A x : Has(J, x) /\ x.done > 0 => Has(K, x) \/ x.obj = o

\* A row of another object is shown as well as before.
LEMMA OtherRows ==
  ASSUME NEW u, NEW w, NEW c, NEW d, NEW J, NEW K, NEW o, NEW k,
         OpenOK(u), k \in DOMAIN u.cells, CurrentAt(u, c, J, k),
         OnlyIn(o, c, d), Without(o, J, K),
         RowsShown(w) = RowsShown(u), w.cells[k] = u.cells[k], u.behind \subseteq w.behind \cup {o},
         RowsShown(u)[k].obj # o
  PROVE  CurrentAt(w, d, K, k)
<1> DEFINE row == RowsShown(u)[k]
<1>1. IsRow(row) /\ row.obj \in Object
  <2>1. IsRow(row)
    BY RowsOf DEF OpenOK, TableOK, RowsShown
  <2> QED
    BY <2>1 DEF IsRow, RowSet
<1> HIDE DEF row
<1>2. CellOf(row, d) = CellOf(row, c)
  BY <1>1 DEF OnlyIn, CellOf, row
<1>3. UnderWay(row, J) => UnderWay(row, K)
  <2> SUFFICES ASSUME UnderWay(row, J) PROVE UnderWay(row, K)
    OBVIOUS
  <2>1. PICK i \in DOMAIN J : /\ J[i].done > 0 /\ J[i].obj = row.obj
                              /\ row.obj \in Mem => row.lane \in LanesWritten(J[i])
    BY DEF UnderWay
  <2>2. Has(J, J[i])
    BY DEF Has
  <2>3. Has(K, J[i])
    BY <2>1, <2>2 DEF Without, row
  <2> QED
    BY <2>1, <2>3 DEF UnderWay, Has
<1> QED
  BY <1>2, <1>3 DEF CurrentAt, row

\* w differs from u in what the cells show, and in who is behind.
CellsOnly(u, w) ==
  /\ DOMAIN w = DOMAIN u /\ w.view = u.view /\ w.expand = u.expand /\ w.cursor = u.cursor
  /\ w.lanes = u.lanes /\ w.log = u.log /\ w.nav = u.nav /\ w.navIdx = u.navIdx
  /\ w.navReturn = u.navReturn /\ w.focus = u.focus
  /\ DOMAIN w.cells = DOMAIN u.cells

\* Painting cells leaves the rest of the widgets in order.
LEMMA CellsOnlyOpen ==
  ASSUME NEW u, NEW w, OpenOK(u), CellsOnly(u, w)
  PROVE  OpenOK(w) /\ RowsShown(w) = RowsShown(u)
<1>1. RowsShown(w) = RowsShown(u)
  BY DEF CellsOnly, RowsShown
<1> QED
  BY <1>1 DEF CellsOnly, OpenOK, TableOK, WidgetsOK, Empty

\* A job of o has ended, or its call has returned: w has what it did to the table.
Settles(u, w, c, d, J, K, o) ==
  /\ OpenOK(u) /\ Current(u, c, J) /\ CellsOnly(u, w)
  /\ OnlyIn(o, c, d) /\ Without(o, J, K)
  /\ u.behind \subseteq w.behind \cup {o}
  /\ \A k \in DOMAIN u.cells : RowsShown(u)[k].obj # o => w.cells[k] = u.cells[k]

\* The rows of the other objects are shown as well as before.
LEMMA SettlesOthers ==
  ASSUME NEW u, NEW w, NEW c, NEW d, NEW J, NEW K, NEW o, Settles(u, w, c, d, J, K, o)
  PROVE  /\ OpenOK(w) /\ RowsShown(w) = RowsShown(u) /\ DOMAIN w.cells = DOMAIN u.cells
         /\ \A k \in DOMAIN u.cells : RowsShown(u)[k].obj # o => CurrentAt(w, d, K, k)
<1>1. OpenOK(w) /\ RowsShown(w) = RowsShown(u) /\ DOMAIN w.cells = DOMAIN u.cells
  BY CellsOnlyOpen DEF Settles, CellsOnly
<1>2. ASSUME NEW k \in DOMAIN u.cells, RowsShown(u)[k].obj # o
      PROVE  CurrentAt(w, d, K, k)
  BY <1>1, <1>2, OtherRows DEF Settles, Current
<1> QED
  BY <1>1, <1>2

\* The object is behind.
LEMMA BehindSettles ==
  ASSUME NEW u, NEW w, NEW c, NEW d, NEW J, NEW K, NEW o, Settles(u, w, c, d, J, K, o), o \in w.behind
  PROVE  OpenOK(w) /\ Current(w, d, K)
<1>1. \A k \in DOMAIN u.cells : RowsShown(u)[k].obj = o => CurrentAt(w, d, K, k)
  BY SettlesOthers DEF CurrentAt
<1> QED
  BY <1>1, SettlesOthers DEF Current

\* Its rows show the cache.
LEMMA PaintSettles ==
  ASSUME NEW u, NEW w, NEW c, NEW d, NEW J, NEW K, NEW o, Settles(u, w, c, d, J, K, o),
         \A k \in DOMAIN u.cells :
           RowsShown(u)[k].obj = o => \/ RowsShown(u)[k].kind = "mem"
                                      \/ w.cells[k] = CellOf(RowsShown(u)[k], d)
  PROVE  OpenOK(w) /\ Current(w, d, K)
<1>1. \A k \in DOMAIN u.cells : RowsShown(u)[k].obj = o => CurrentAt(w, d, K, k)
  BY SettlesOthers DEF CurrentAt
<1> QED
  BY <1>1, SettlesOthers DEF Current

\* What a handler of a job starts from.
Ending(u, c, d, J, K, o) ==
  /\ OpenOK(u) /\ Current(u, c, J) /\ OnlyIn(o, c, d) /\ Without(o, J, K)

\* A job that failed, or found other rows, leaves its object behind.
LEMMA BehindCurrent ==
  ASSUME NEW u, NEW c, NEW d, NEW J, NEW K, NEW o, Ending(u, c, d, J, K, o)
  PROVE  OpenOK(Behind(u, o)) /\ Current(Behind(u, o), d, K)
<1> DEFINE w == Behind(u, o)
<1>1. /\ CellsOnly(u, w) /\ w.cells = u.cells /\ w.behind = u.behind \cup {o}
  BY DEF Behind, CellsOnly, Ending, OpenOK, TableOK, UiFields
<1> HIDE DEF w
<1>2. Settles(u, w, c, d, J, K, o) /\ o \in w.behind
  BY <1>1 DEF Settles, Ending
<1>3. OpenOK(w) /\ Current(w, d, K)
  BY <1>2, BehindSettles
<1> QED
  BY <1>3 DEF w

\* A refresh of all rows of an object (_update_reg_rows).
LEMMA RefreshRegCurrent ==
  ASSUME NEW u, NEW c, NEW d, NEW J, NEW K, NEW o, Ending(u, c, d, J, K, o)
  PROVE  OpenOK(RefreshReg(u, o, d)) /\ Current(RefreshReg(u, o, d), d, K)
<1> DEFINE w == RefreshReg(u, o, d)
<1>1. /\ CellsOnly(u, w) /\ w.behind = u.behind \ {o}
      /\ w.cells = [k \in DOMAIN u.cells |-> IF k \in KeysOf(u, o) THEN CellOf(RowsShown(u)[k], d) ELSE u.cells[k]]
  BY DEF RefreshReg, Paint, CellsOnly, Ending, OpenOK, TableOK, UiFields
<1> HIDE DEF w
<1>2. \A k \in DOMAIN u.cells : k \in KeysOf(u, o) <=> RowsShown(u)[k].obj = o
  BY DEF KeysOf, Ending, OpenOK, TableOK
<1>3. Settles(u, w, c, d, J, K, o)
  BY <1>1, <1>2 DEF Settles, Ending
<1>4. \A k \in DOMAIN u.cells : RowsShown(u)[k].obj = o => w.cells[k] = CellOf(RowsShown(u)[k], d)
  BY <1>1, <1>2
<1>5. OpenOK(w) /\ Current(w, d, K)
  BY <1>3, <1>4, PaintSettles
<1> QED
  BY <1>5 DEF w

\* What was read of a memory: a lane of it, while no call is under way.
LaneRead(o, lane, c, d, J) ==
  o \in Mem => /\ \A i \in DOMAIN J : J[i].done = 0
               /\ \A x \in LanesOf(o) : lane \notin {0, x} => d[o][x] = c[o][x]

\* A refresh of the row that a job started from: of the register, or of the
\* lane of a memory that the row has now (_refresh_rows_from_cache).
LEMMA RefreshRowCurrent ==
  ASSUME NEW u, NEW c, NEW d, NEW J, NEW K, NEW o, NEW key, NEW lane,
         Ending(u, c, d, J, K, o), LaneRead(o, lane, c, d, J)
  PROVE  OpenOK(RefreshRow(u, key, o, lane, d)) /\ Current(RefreshRow(u, key, o, lane, d), d, K)
<1> DEFINE now == RowsShown(u)[key].lane
           w   == [u EXCEPT !.cells[key] = d[o][now]]
           x   == [Behind(u, o) EXCEPT !.cells[key] = d[o][now]]
           r   == RefreshRow(u, key, o, lane, d)
<1>1. \/ r = RefreshReg(u, o, d)
      \/ r = Behind(u, o)
      \/ StillShows(u, key, o) /\ r = x
      \/ StillShows(u, key, o) /\ o \in Mem /\ lane = now /\ now # 0 /\ r = w
  BY Zenon DEF RefreshRow
<1>2. CASE StillShows(u, key, o) /\ r = x
  <2>1. /\ CellsOnly(u, x) /\ x.behind = u.behind \cup {o}
        /\ \A k \in DOMAIN u.cells : k # key => x.cells[k] = u.cells[k]
    BY DEF Behind, CellsOnly, Ending, OpenOK, TableOK, UiFields
  <2> HIDE DEF x
  <2>2. Settles(u, x, c, d, J, K, o) /\ o \in x.behind
    BY <1>2, <2>1 DEF Settles, Ending, StillShows
  <2> QED
    BY <1>2, <2>2, BehindSettles
<1>3. CASE StillShows(u, key, o) /\ o \in Mem /\ lane = now /\ now # 0 /\ r = w
  <2>1. /\ CellsOnly(u, w) /\ w.behind = u.behind
        /\ key \in DOMAIN u.cells => w.cells[key] = d[o][now]
        /\ \A k \in DOMAIN u.cells : k # key => w.cells[k] = u.cells[k]
    BY DEF CellsOnly, Ending, OpenOK, TableOK, UiFields
  <2> HIDE DEF w
  <2>2. Settles(u, w, c, d, J, K, o)
    BY <1>3, <2>1 DEF Settles, Ending, StillShows
  <2>3. ASSUME NEW k \in DOMAIN u.cells, RowsShown(u)[k].obj = o
        PROVE  CurrentAt(w, d, K, k)
    <3> DEFINE row == RowsShown(u)[k]
               at  == RowsShown(u)[key]
    <3>1. ShownRow(u, k, row) /\ row.obj = o
      BY <2>3, ShownRows DEF Ending
    <3>2. ShownRow(u, key, at) /\ at.obj = o /\ key \in DOMAIN u.cells /\ at.lane = now
      BY <1>3, ShownRows DEF StillShows, Ending, OpenOK, TableOK
    <3> HIDE DEF row, at, now
    <3>3. CASE row.kind = "mem"
      BY <2>2, <3>3, CellsOnlyOpen DEF CurrentAt, Settles, row
    <3>4. CASE k = key
      <4>1. row = at
        BY <3>4 DEF row, at
      <4>2. w.cells[k] = CellOf(row, d)
        BY <1>3, <2>1, <3>1, <3>2, <3>4, <4>1 DEF CellOf
      <4> QED
        BY <2>2, <4>2, CellsOnlyOpen DEF CurrentAt, Settles, row
    <3>5. CASE row.kind # "mem" /\ k # key /\ at.kind # "mem"
      <4>1. row.lane = k - 1 /\ at.lane = key - 1 /\ row.lane \in LanesOf(o) \cup {0} /\ k # 1 /\ k \in Nat /\ key \in Nat
        BY <1>3, <3>1, <3>2, <3>5 DEF ShownRow, IsRow
      <4>2. row.lane # 0 /\ row.lane # lane
        BY <1>3, <3>2, <3>5, <4>1
      <4>3. CellOf(row, d) = CellOf(row, c)
        BY <1>3, <3>1, <4>1, <4>2 DEF LaneRead, CellOf
      <4>4. ~ UnderWay(row, J)
        BY <1>3, <4>1 DEF LaneRead, UnderWay
      <4>5. CurrentAt(u, c, J, k)
        BY <2>3 DEF Ending, Current
      <4> QED
        BY <2>1, <2>2, <3>5, <4>3, <4>4, <4>5, CellsOnlyOpen DEF CurrentAt, Settles, row
    <3>6. CASE at.kind = "mem"
      <4>1. now = 0
        BY <3>2, <3>6 DEF ShownRow, IsRow
      <4> QED
        BY <1>3, <4>1
    <3> QED
      BY <3>3, <3>4, <3>5, <3>6
  <2> QED
    BY <1>3, <2>2, <2>3, SettlesOthers DEF Current
<1>4. CASE r = RefreshReg(u, o, d)
  BY <1>4, RefreshRegCurrent
<1>5. CASE r = Behind(u, o)
  BY <1>5, BehindCurrent
<1> QED
  BY <1>1, <1>2, <1>3, <1>4, <1>5

\* The table stays in order, whatever the cells show.
LEMMA RefreshRowOpen ==
  ASSUME NEW u, NEW d, NEW o, NEW key, NEW lane, OpenOK(u)
  PROVE  OpenOK(RefreshRow(u, key, o, lane, d))
<1> DEFINE now == RowsShown(u)[key].lane
           w   == [u EXCEPT !.cells[key] = d[o][now]]
           x   == [Behind(u, o) EXCEPT !.cells[key] = d[o][now]]
           r   == RefreshRow(u, key, o, lane, d)
<1>1. r \in {RefreshReg(u, o, d), Behind(u, o), x, w}
  BY Zenon DEF RefreshRow
<1>2. CellsOnly(u, RefreshReg(u, o, d)) /\ CellsOnly(u, Behind(u, o))
  BY DEF RefreshReg, Paint, Behind, CellsOnly, OpenOK, TableOK, UiFields
<1>3. CellsOnly(u, x) /\ CellsOnly(u, w)
  BY DEF Behind, CellsOnly, OpenOK, TableOK, UiFields
<1> HIDE DEF w, x, r
<1>4. OpenOK(r)
  BY <1>1, <1>2, <1>3, CellsOnlyOpen
<1> QED
  BY <1>4 DEF r

\* K holds the jobs of J but for the one at i.
AllBut(J, K, i) == \A m \in DOMAIN J : m # i => Has(K, J[m])

\* Then only a write of the object of that job may be gone.
LEMMA AllButWithout ==
  ASSUME NEW J, NEW K, NEW i \in DOMAIN J, AllBut(J, K, i)
  PROVE  Without(J[i].obj, J, K)
  BY DEF AllBut, Without, Has

\* The end of a write of several lanes of a memory
\* (_write_mem_lanes_async).
LEMMA RefreshLanesCurrent ==
  ASSUME NEW u, NEW c, NEW J, NEW K, NEW i \in DOMAIN J, NEW o \in Mem, J[i].obj = o,
         OpenOK(u), Current(u, c, J), AllBut(J, K, i)
  PROVE  /\ OpenOK(RefreshLanes(u, o, LanesWritten(J[i]), c))
         /\ Current(RefreshLanes(u, o, LanesWritten(J[i]), c), c, K)
<1> DEFINE lanes == LanesWritten(J[i])
           at    == {l \in lanes : StillShows(u, MemLaneKey(l), o)}
           w     == RefreshLanes(u, o, lanes, c)
           Painted(k) == \E l \in at : k = MemLaneKey(l)
<1>1. /\ CellsOnly(u, w) /\ w.behind = IF at = lanes THEN u.behind ELSE u.behind \cup {o}
      /\ w.cells = [k \in DOMAIN u.cells |-> IF Painted(k) THEN c[o][k - 1] ELSE u.cells[k]]
  BY DEF RefreshLanes, CellsOnly, OpenOK, TableOK, UiFields
<1>2. \A k \in DOMAIN u.cells : Painted(k) => RowsShown(u)[k].obj = o
  BY DEF StillShows
<1> HIDE DEF w
<1>3. Settles(u, w, c, c, J, K, o)
  <2>1. OnlyIn(o, c, c) /\ Without(o, J, K)
    BY AllButWithout DEF OnlyIn
  <2>2. \A k \in DOMAIN u.cells : RowsShown(u)[k].obj # o => w.cells[k] = u.cells[k]
    BY <1>1, <1>2
  <2> QED
    BY <1>1, <2>1, <2>2 DEF Settles
<1>4. CASE at # lanes
  <2>1. o \in w.behind
    BY <1>1, <1>4
  <2> QED
    BY <1>3, <2>1, BehindSettles DEF w
<1>5. CASE at = lanes
  <2>1. ASSUME NEW k \in DOMAIN u.cells, RowsShown(u)[k].obj = o
        PROVE  CurrentAt(w, c, K, k)
    <3> DEFINE row == RowsShown(u)[k]
    <3>1. ShownRow(u, k, row) /\ row.obj = o /\ RowsShown(w) = RowsShown(u)
      BY <1>1, <2>1, ShownRows, CellsOnlyOpen
    <3>2. CurrentAt(u, c, J, k)
      BY DEF Current
    <3>3. row.kind = "mem" \/ (row.lane = k - 1 /\ row.lane # 0 /\ MemLaneKey(k - 1) = k /\ k - 1 \in Int)
      <4> HIDE DEF row
      <4> QED
        BY <3>1 DEF ShownRow, MemLaneKey
    <3> HIDE DEF Painted, at
    <3>4. CASE row.kind = "mem"
      BY <3>1, <3>4 DEF CurrentAt
    <3>5. CASE row.kind # "mem" /\ Painted(k)
      <4>1. w.cells[k] = c[o][row.lane]
        BY <1>1, <3>3, <3>5
      <4>2. w.cells[k] = CellOf(row, c)
        BY <3>1, <3>3, <3>5, <4>1 DEF CellOf
      <4> QED
        BY <3>1, <4>2 DEF CurrentAt
    <3>6. CASE row.kind # "mem" /\ ~ Painted(k)
      <4>1. w.cells[k] = u.cells[k] /\ w.behind = u.behind
        BY <1>1, <1>5, <3>6
      <4>2. row.lane \notin lanes
        BY <1>5, <3>3, <3>6 DEF Painted
      <4>3. UnderWay(row, J) => UnderWay(row, K)
        <5> HIDE DEF row
        <5> SUFFICES ASSUME UnderWay(row, J) PROVE UnderWay(row, K)
          OBVIOUS
        <5>1. PICK m \in DOMAIN J : /\ J[m].done > 0 /\ J[m].obj = row.obj
                                    /\ row.obj \in Mem => row.lane \in LanesWritten(J[m])
          BY DEF UnderWay
        <5>2. m # i
          BY <3>1, <4>2, <5>1
        <5>3. Has(K, J[m])
          BY <5>2 DEF AllBut
        <5> QED
          BY <5>1, <5>3 DEF UnderWay, Has
      <4> QED
        BY <3>1, <3>2, <4>1, <4>3 DEF CurrentAt
    <3> QED
      BY <3>4, <3>5, <3>6
  <2>2. OpenOK(w) /\ Current(w, c, K)
    BY <1>3, <2>1, SettlesOthers DEF Current
  <2> QED
    BY <2>2 DEF w
<1> QED
  BY <1>4, <1>5

\* A call that has gone out: its lanes are under way, and the others are as they were.
LEMMA WrittenCurrent ==
  ASSUME NEW u, NEW c, NEW J, NEW i \in DOMAIN J, NEW n \in Nat \ {0}, NEW call,
         OpenOK(u), CacheOK(c), JobsOK(J), Current(u, c, J), DOMAIN call \subseteq LanesWritten(J[i])
  PROVE  Current(u, Written(J[i].obj, call, c), [J EXCEPT ![i].done = n])
<1> DEFINE o == J[i].obj
           d == Written(o, call, c)
           K == [J EXCEPT ![i].done = n]
<1>1. /\ DOMAIN K = DOMAIN J /\ \A m \in DOMAIN J : m # i => K[m] = J[m]
      /\ K[i].obj = o /\ K[i].done = n /\ LanesWritten(K[i]) = LanesWritten(J[i])
  BY DEF JobsOK, JobOK, LanesWritten
<1>2. \A p \in Object : p # o => d[p] = c[p]
  BY DEF Written, CacheOK
<1>3. o \in Object => \A x \in LanesOf(o) : x \notin DOMAIN call => d[o][x] = c[o][x]
  BY DEF Written, CacheOK
<1> HIDE DEF d, K
<1>4. ASSUME NEW k \in DOMAIN u.cells
      PROVE  CurrentAt(u, d, K, k)
  <2> DEFINE row == RowsShown(u)[k]
  <2>1. ShownRow(u, k, row)
    BY ShownRows
  <2>2. CurrentAt(u, c, J, k)
    BY DEF Current
  <2>3. UnderWay(row, J) => UnderWay(row, K)
    <3> HIDE DEF row
    <3> SUFFICES ASSUME NEW m \in DOMAIN J, J[m].done > 0, J[m].obj = row.obj,
                        row.obj \in Mem => row.lane \in LanesWritten(J[m])
                 PROVE  UnderWay(row, K)
      BY DEF UnderWay
    <3>1. K[m].done > 0 /\ K[m].obj = row.obj /\ LanesWritten(K[m]) = LanesWritten(J[m])
      BY <1>1
    <3> QED
      BY <1>1, <3>1 DEF UnderWay
  <2>4. CASE row.obj # o
    <3>1. CellOf(row, d) = CellOf(row, c)
      BY <1>2, <2>1, <2>4 DEF CellOf, ShownRow
    <3> QED
      BY <2>2, <2>3, <3>1 DEF CurrentAt
  <2>5. CASE row.obj = o /\ (row.obj \in Mem => row.lane \in LanesWritten(J[i]))
    <3>1. UnderWay(row, K)
      <4> HIDE DEF row
      <4> QED
        BY <1>1, <2>5 DEF UnderWay
    <3> QED
      BY <3>1 DEF CurrentAt
  <2>6. CASE row.obj = o /\ row.obj \in Mem /\ row.lane \notin LanesWritten(J[i]) /\ row.kind # "mem"
    <3>1. row.lane # 0 /\ row.lane \in LanesOf(o) /\ row.lane \notin DOMAIN call /\ o \in Object
      <4> HIDE DEF row
      <4> QED
        BY <2>1, <2>6 DEF ShownRow, IsRow
    <3>2. CellOf(row, d) = CellOf(row, c)
      BY <1>3, <2>6, <3>1 DEF CellOf
    <3> QED
      BY <2>2, <2>3, <3>2 DEF CurrentAt
  <2> QED
    BY <2>4, <2>5, <2>6 DEF CurrentAt
<1>5. Current(u, d, K)
  BY <1>4 DEF Current
<1> QED
  BY <1>5 DEF d, K

-----------------------------------------------------------------------------
\* The actions.

\* Nothing happens once the app has closed.
LEMMA Closes ==
  ASSUME EditInv, EditNext
  PROVE  OpenOK(ui)
<1>1. CASE ui.focus = "closed"
  <2>1. inbox = <<>> /\ jobs = <<>> /\ ~ check /\ readAll.at = "off"
    BY <1>1 DEF EditInv
  <2>2. ~ Keys
    BY <1>1, <2>1 DEF Keys, FocusOn, MoveCursor, SelectNode, EnterRow, Posts, Type, EnterText, Escape, SetStepValue,
                AtKeys, ToggleValueBits, ToggleExpandVec, Toggle, StepSelected, ReadSelectedRow,
                ReadSelectedModule, LogCursor, LogCursorMove, LogCursorSelect, InLog, ClearLog,
                LocateRegmap, CheckAsserts, ReadAllModules
  <2>3. ~ (HandleMessage \/ CheckEnds \/ ReadAllReturns \/ ReadAllFails \/ RebuildEnds)
    BY <2>1 DEF HandleMessage, CheckEnds, ReadAllReturns, ReadAllFails, RebuildEnds
  <2>4. DOMAIN jobs = {}
    BY <2>1
  <2> QED
    BY <2>2, <2>3, <2>4 DEF EditNext
<1>2. CASE ui.focus # "closed"
  BY <1>2 DEF EditInv, OpenOK
<1> QED
  BY <1>1, <1>2

\* The conjuncts of the invariant.
LEMMA Preserves ==
  ASSUME OpenOK(ui'), CacheOK(cache'), JobsOK(jobs'), InboxOK(inbox'), "at" \in DOMAIN readAll',
         readAll'.at # "rebuild" => Current(ui', cache', jobs')
  PROVE  EditInv'
<1>1. TableOK(ui)' /\ WidgetsOK(ui)' /\ CacheOK(cache)' /\ JobsOK(jobs)' /\ InboxOK(inbox)'
  BY DEF OpenOK, TableOK, WidgetsOK, CacheOK, JobsOK, InboxOK, RowsShown, Empty
<1>2. readAll'.at # "rebuild" => Current(ui, cache, jobs)'
  BY DEF Current, CurrentAt, RowsShown, UnderWay, LanesWritten
<1>3. (ui.focus # "closed")'
  BY DEF OpenOK
<1> QED
  BY <1>1, <1>2, <1>3 DEF EditInv

\* The widgets change and the table does not.
LEMMA WidgetsTurn ==
  ASSUME NEW u, NEW w, OpenOK(u), DOMAIN w = DOMAIN u, SameCells(u, w),
         w.cursor = u.cursor \/ w.cursor \in DOMAIN RowsShown(u), WidgetsOK(w), w.focus # "closed"
  PROVE  Turn(u, w)
<1>1. RowsShown(w) = RowsShown(u)
  BY DEF SameCells, RowsShown
<1>2. TableOK(w)
  BY <1>1 DEF OpenOK, TableOK, SameCells, Empty
<1> QED
  BY <1>2 DEF Turn

\* What a key or a click does.
KeyDoes ==
  /\ Outcome(ui, cache, ui')
  /\ JobsOK(jobs') /\ \A x : Has(jobs, x) => Has(jobs', x)
  /\ InboxOK(inbox') /\ cache' = cache
  /\ "at" \in DOMAIN readAll' /\ (readAll'.at # "rebuild" => readAll.at # "rebuild")

\* Such a key or click keeps the invariant.
LEMMA KeyPreserves ==
  ASSUME EditInv, OpenOK(ui), KeyDoes
  PROVE  EditInv'
<1>1. OpenOK(ui')
  BY DEF KeyDoes, Outcome
<1>2. readAll'.at # "rebuild" => Current(ui', cache', jobs')
  <2>1. readAll'.at # "rebuild" => Current(ui, cache, jobs)
    BY DEF KeyDoes, EditInv, OpenOK
  <2> QED
    BY <2>1, OutcomeCurrent DEF KeyDoes
<1>3. CacheOK(cache')
  BY DEF EditInv, KeyDoes
<1> QED
  BY <1>1, <1>2, <1>3, Preserves DEF KeyDoes

\* A key that changes the widgets, and may post a message.
LEMMA TurnKey ==
  ASSUME EditInv, OpenOK(ui), Turn(ui, ui'), UNCHANGED <<jobs, cache, readAll>>,
         inbox' = inbox \/ \E m : MessageOK(m) /\ inbox' = Append(inbox, m)
  PROVE  KeyDoes
<1>1. Outcome(ui, cache, ui')
  BY TurnOutcome
<1>2. InboxOK(inbox')
  BY AppendMessage DEF EditInv
<1> QED
  BY <1>1, <1>2 DEF KeyDoes, EditInv

\* Nothing changes.
LEMMA Still ==
  ASSUME OpenOK(ui)
  PROVE  Turn(ui, ui)
  BY DEF Turn, OpenOK, SameCells

\* The messages that keys and workers post are known to the app.
LEMMA Messages ==
  /\ \A type \in {"edit", "submit", "cancel", "blur"} : MessageOK(Posted(type))
  /\ \A v \in View, user \in BOOLEAN : MessageOK(Select(v, user))
  BY DEF MessageOK, Posted, Select

\* tab, a click, '1' and '2'.
LEMMA FocusKey ==
  ASSUME EditInv, OpenOK(ui), NEW w \in {"tree", "table", "log", "input", "regio"}, FocusOn(w)
  PROVE  KeyDoes
<1>1. SameButInput(ui, [ui EXCEPT !.focus = w])
  BY DEF SameButInput, OpenOK, TableOK, WidgetsOK, UiFields
<1>2. Turn(ui, ui')
  BY <1>1, InputTurn DEF FocusOn, Leaves, OpenOK
<1> QED
  BY <1>2, TurnKey, Messages DEF FocusOn, Leaves, Press

\* The cursor keys of the table.
LEMMA MoveKey ==
  ASSUME EditInv, OpenOK(ui), NEW k \in DOMAIN RowsShown(ui), MoveCursor(k)
  PROVE  KeyDoes
<1> DEFINE w == [ui EXCEPT !.cursor = k, !.focus = "table"]
<1>1. /\ DOMAIN w = DOMAIN ui /\ SameCells(ui, w) /\ w.cursor = k /\ w.focus = "table" /\ WidgetsOK(w)
  BY DEF SameCells, OpenOK, TableOK, WidgetsOK, UiFields
<1>2. ui' = w
  BY DEF MoveCursor, Leaves
<1> HIDE DEF w
<1>3. Turn(ui, ui')
  BY <1>1, <1>2, WidgetsTurn
<1> QED
  BY <1>3, TurnKey, Messages DEF MoveCursor, Leaves, Press

\* The keys that post a message and leave the rest to it.
LEMMA PostKeys ==
  ASSUME EditInv, OpenOK(ui),
         (\E v \in View : SelectNode(v)) \/ EnterRow \/ EnterText \/ Escape
  PROVE  KeyDoes
<1>1. Turn(ui, ui)
  BY Still
<1>2. /\ UNCHANGED <<ui, jobs, cache, readAll>>
      /\ \E m : MessageOK(m) /\ inbox' = Append(inbox, m)
  BY Messages DEF SelectNode, EnterRow, EnterText, Escape, Posts, Press, Work
<1> QED
  BY <1>1, <1>2, TurnKey

\* A text is typed.
LEMMA TypeKey ==
  ASSUME EditInv, OpenOK(ui), NEW t, Type(t)
  PROVE  KeyDoes
<1>1. UNCHANGED <<jobs, cache, readAll, inbox>>
  BY DEF Type, Turns, Press
<1>2. SameButInput(ui, ui')
  <2>1. CASE ui.lanes = <<>>
    BY <2>1 DEF Type, Turns, SameButInput, OpenOK, TableOK, WidgetsOK, UiFields
  <2>2. CASE ui.lanes # <<>>
    BY <2>2 DEF Type, Turns, SameButInput, OpenOK, TableOK, WidgetsOK, UiFields
  <2> QED
    BY <2>1, <2>2
<1>3. Turn(ui, ui')
  BY <1>2, InputTurn DEF OpenOK
<1> QED
  BY <1>1, <1>3, TurnKey

\* 's'.
LEMMA StepValueKey ==
  ASSUME EditInv, OpenOK(ui), SetStepValue
  PROVE  KeyDoes
<1>1. UNCHANGED <<jobs, cache, readAll, inbox>>
  BY DEF SetStepValue, Turns, Press
<1>2. SameButInput(ui, ui')
  BY DEF SetStepValue, Turns, SameButInput, OpenOK, TableOK, WidgetsOK, UiFields
<1>3. Turn(ui, ui')
  BY <1>2, InputTurn DEF OpenOK
<1> QED
  BY <1>1, <1>3, TurnKey

\* A key that shows another table, or the same one anew, and may read a memory.
LEMMA ShowKey ==
  ASSUME EditInv, OpenOK(ui), Outcome(ui, cache, ui'), UNCHANGED <<cache, readAll>>,
         \/ jobs' = jobs
         \/ \E v \in View : jobs' = jobs \o ShowJobs(v),
         inbox' = inbox \/ \E m : MessageOK(m) /\ inbox' = Append(inbox, m)
  PROVE  KeyDoes
<1>1. InboxOK(inbox')
  BY AppendMessage DEF EditInv
<1>2. JobsOK(jobs') /\ \A x : Has(jobs, x) => Has(jobs', x)
  BY JoinJobs, ShowJobsOK DEF EditInv
<1> QED
  BY <1>1, <1>2 DEF KeyDoes, EditInv

\* 'x' and 'e'.
LEMMA ToggleKey ==
  ASSUME EditInv, OpenOK(ui), ToggleValueBits \/ ToggleExpandVec
  PROVE  KeyDoes
<1> DEFINE x == [ui EXCEPT !.bits = ~ @]
           y == [ui EXCEPT !.expand = ~ @]
           Ready(u) == /\ UiFields \subseteq DOMAIN u /\ u.view \in View /\ u.expand \in BOOLEAN
                       /\ WidgetsOK(u) /\ u.focus # "closed"
<1>1. Ready(x) /\ Ready(y)
  BY DEF OpenOK, TableOK, WidgetsOK, UiFields
<1>2. PICK u : (u = x \/ u = y) /\ Toggle(u)
  BY DEF ToggleValueBits, ToggleExpandVec
<1> HIDE DEF x, y
<1>3. Fresh(Reshow(u, cache), cache)
  BY <1>1, <1>2, ReshowFresh
<1>4. Outcome(ui, cache, ui')
  BY <1>2, <1>3, TurnOutcome DEF Toggle
<1>5. u.view \in View
  BY <1>1, <1>2
<1>6. UNCHANGED <<cache, readAll, inbox>> /\ jobs' = jobs \o ShowJobs(u.view)
  BY <1>2 DEF Toggle, Work
<1> QED
  BY <1>4, <1>5, <1>6, ShowKey

\* A key that starts a job.
LEMMA StartKey ==
  ASSUME EditInv, OpenOK(ui), NEW j, JobOK(j), Starts(j)
  PROVE  KeyDoes
<1>1. Outcome(ui, cache, ui')
  BY Still, TurnOutcome DEF Starts
<1>2. JobsOK(jobs') /\ \A x : Has(jobs, x) => Has(jobs', x)
  BY AppendJob DEF Starts, EditInv
<1> QED
  BY <1>1, <1>2 DEF KeyDoes, EditInv, Starts, Work

\* '+' and '-'.
LEMMA StepKey ==
  ASSUME EditInv, OpenOK(ui), NEW sign, StepSelected(sign)
  PROVE  KeyDoes
<1> DEFINE row == CursorRow(ui)
           j0  == Job("step", ui.cursor, row.obj, row.lane, <<>>)
           j   == [j0 EXCEPT !.delta = sign * ui.step]
<1>1. row.obj \in Object
  BY CursorRowIsRow DEF StepSelected, OpenOK
<1>2. JobOK(j0)
  BY <1>1, NewJob
<1>3. JobOK(j)
  BY <1>2 DEF JobOK, Job
<1>4. Starts(j)
  BY DEF StepSelected
<1> QED
  BY <1>3, <1>4, StartKey

\* 'r'.
LEMMA ReadKeys ==
  ASSUME EditInv, OpenOK(ui), ReadSelectedRow \/ \E v \in View : ReadSelectedModule(v)
  PROVE  KeyDoes
<1>1. CASE ReadSelectedRow
  <2> DEFINE j == Job("read", ui.cursor, CursorRow(ui).obj, CursorRow(ui).lane, <<>>)
  <2>1. JobOK(j) /\ Starts(j)
    BY <1>1, NewJob DEF ReadSelectedRow
  <2> QED
    BY <2>1, StartKey
<1>2. CASE \E v \in View : ReadSelectedModule(v)
  <2>1. PICK v \in View : ReadSelectedModule(v)
    BY <1>2
  <2> DEFINE j == Job("tree", 0, v, 0, <<>>)
  <2>2. JobOK(j) /\ Starts(j)
    BY <2>1, NewJob DEF ReadSelectedModule
  <2> QED
    BY <2>2, StartKey
<1> QED
  BY <1>1, <1>2

\* Leaving the log cursor gives the focus back.
LEMMA LogExit ==
  ASSUME OpenOK(ui)
  PROVE  LET w == LogCursorExit(ui)
         IN  /\ DOMAIN w = DOMAIN ui /\ SameCells(ui, w) /\ w.cursor = ui.cursor
             /\ w.lanes = ui.lanes /\ w.log = ui.log /\ ~ w.nav
             /\ w.navReturn # "closed" /\ w.focus # "closed" /\ WidgetsOK(w)
  BY DEF LogCursorExit, SameCells, OpenOK, TableOK, WidgetsOK, UiFields

\* 'l'.
LEMMA LogKey ==
  ASSUME EditInv, OpenOK(ui), LogCursor
  PROVE  KeyDoes
<1>0. UNCHANGED <<jobs, cache, readAll, inbox>>
  BY DEF LogCursor, Turns, Press
<1>1. CASE ui.nav
  <2>1. ui' = LogCursorExit(ui)
    BY <1>1 DEF LogCursor, Turns
  <2>2. Turn(ui, ui')
    BY <2>1, LogExit, WidgetsTurn
  <2> QED
    BY <1>0, <2>2, TurnKey
<1>2. CASE ~ ui.nav
  <2> DEFINE w == [ui EXCEPT !.nav = TRUE, !.navIdx = Len(ui.log), !.navReturn = ui.focus, !.focus = "log"]
             n == Len(ui.log)
  <2>1. ui' = w /\ ui.log # <<>>
    BY <1>2 DEF LogCursor, Turns
  <2>2. n \in DOMAIN ui.log
    <3> DEFINE s == ui.log
    <3>1. s \in Seq(Range(Watch)) /\ s # <<>>
      BY <2>1 DEF OpenOK, WidgetsOK
    <3> HIDE DEF s
    <3>2. Len(s) \in Nat \ {0} /\ DOMAIN s = 1..Len(s)
      BY <3>1, LenProperties, EmptySeq
    <3>3. Len(s) \in DOMAIN s
      BY <3>2
    <3> QED
      BY <3>3 DEF s
  <2>3. /\ DOMAIN w = DOMAIN ui /\ SameCells(ui, w) /\ w.cursor = ui.cursor
        /\ w.lanes = ui.lanes /\ w.log = ui.log /\ w.navIdx = n
        /\ w.navReturn = ui.focus /\ w.focus = "log"
    BY DEF SameCells, OpenOK, TableOK, UiFields
  <2> HIDE DEF w, n
  <2>4. WidgetsOK(w) /\ w.focus # "closed"
    BY <2>2, <2>3 DEF OpenOK, WidgetsOK
  <2>5. Turn(ui, ui')
    BY <2>1, <2>3, <2>4, WidgetsTurn
  <2> QED
    BY <1>0, <2>5, TurnKey
<1> QED
  BY <1>1, <1>2

\* The keys of the log cursor.
LEMMA LogMoveKey ==
  ASSUME EditInv, OpenOK(ui), NEW d, LogCursorMove(d)
  PROVE  KeyDoes
<1> DEFINE w == [ui EXCEPT !.navIdx = @ + d]
<1>1. UNCHANGED <<jobs, cache, readAll, inbox>> /\ ui' = w
  BY DEF LogCursorMove, Turns, Press
<1>2. /\ DOMAIN w = DOMAIN ui /\ SameCells(ui, w) /\ w.cursor = ui.cursor
      /\ w.lanes = ui.lanes /\ w.log = ui.log /\ w.navIdx = ui.navIdx + d
      /\ w.navReturn = ui.navReturn /\ w.focus = ui.focus
  BY DEF SameCells, OpenOK, TableOK, UiFields
<1>3. ui.navIdx + d \in DOMAIN ui.log
  BY DEF LogCursorMove
<1> HIDE DEF w
<1>4. WidgetsOK(w) /\ w.focus # "closed"
  BY <1>2, <1>3 DEF OpenOK, WidgetsOK
<1>5. Turn(ui, ui')
  BY <1>1, <1>2, <1>4, WidgetsTurn
<1> QED
  BY <1>1, <1>5, TurnKey

\* 'c'.
LEMMA ClearKey ==
  ASSUME EditInv, OpenOK(ui), ClearLog
  PROVE  KeyDoes
<1> DEFINE s == IF ui.nav THEN LogCursorExit(ui) ELSE ui
           w == [s EXCEPT !.log = <<>>, !.navIdx = 0]
<1>1. UNCHANGED <<jobs, cache, readAll, inbox>> /\ ui' = w
  BY DEF ClearLog, Turns, Press
<1>2. /\ DOMAIN s = DOMAIN ui /\ SameCells(ui, s) /\ s.cursor = ui.cursor
      /\ s.lanes = ui.lanes /\ s.nav # TRUE
      /\ s.navReturn # "closed" /\ s.focus # "closed" /\ WidgetsOK(s)
  <2>1. CASE ui.nav
    BY <2>1, LogExit
  <2>2. CASE ~ ui.nav
    BY <2>2 DEF SameCells, OpenOK, WidgetsOK
  <2> QED
    BY <2>1, <2>2
<1> HIDE DEF s
<1>3. /\ DOMAIN w = DOMAIN ui /\ SameCells(ui, w) /\ w.cursor = ui.cursor
      /\ w.lanes = ui.lanes /\ w.nav = s.nav /\ w.log = <<>>
      /\ w.navReturn # "closed" /\ w.focus # "closed"
  BY <1>2 DEF SameCells, OpenOK, TableOK, UiFields
<1> HIDE DEF w
<1>4. <<>> \in Seq(Range(Watch))
  OBVIOUS
<1>5. WidgetsOK(w)
  BY <1>2, <1>3, <1>4 DEF OpenOK, WidgetsOK
<1>6. Turn(ui, ui')
  BY <1>1, <1>3, <1>5, WidgetsTurn
<1> QED
  BY <1>1, <1>6, TurnKey

\* enter in the log, and 'm' in the regio tab.
LEMMA AssetKeys ==
  ASSUME EditInv, OpenOK(ui), LogCursorSelect \/ \E a \in Assets : LocateRegmap(a)
  PROVE  KeyDoes
<1> DEFINE w == [ui EXCEPT !.focus = "table"]
<1>1. OpenOK(w) /\ SameCells(ui, w) /\ w.view = ui.view
  <2>1. SameButInput(ui, w)
    BY DEF SameButInput, OpenOK, TableOK, WidgetsOK, UiFields
  <2>2. Turn(ui, w)
    BY <2>1, InputTurn DEF OpenOK
  <2> QED
    BY <2>2 DEF Turn, OpenOK, SameCells
<1> HIDE DEF w
<1>2. PICK u, a : (u = ui \/ u = w) /\ IsAsset(a) /\ Asset(u, a)
  <2>1. CASE LogCursorSelect
    <3>1. ui.nav /\ Asset(ui, ui.log[ui.navIdx])
      BY <2>1 DEF LogCursorSelect, InLog
    <3> DEFINE s == ui.log
               n == ui.navIdx
    <3>2. s \in Seq(Range(Watch)) /\ n \in DOMAIN s
      BY <3>1 DEF OpenOK, WidgetsOK
    <3> HIDE DEF s, n
    <3>3. s[n] \in Range(Watch)
      BY <3>2, ElementOf
    <3>4. IsAsset(s[n])
      BY <3>3, WatchedIsAsset
    <3> QED
      BY <3>1, <3>4 DEF s, n
  <2>2. CASE \E a \in Assets : LocateRegmap(a)
    <3>1. PICK a \in Assets : LocateRegmap(a)
      BY <2>2
    <3>2. Asset(w, a)
      BY <3>1 DEF LocateRegmap, w
    <3>3. IsAsset(a)
      BY DEF Assets, IsAsset
    <3> QED
      BY <3>2, <3>3
  <2> QED
    BY <2>1, <2>2
<1>3. OpenOK(u) /\ SameCells(ui, u)
  BY <1>1, <1>2 DEF SameCells
<1>4. Outcome(u, cache, ui')
  BY <1>2, <1>3, ShowAssetOutcome DEF Asset
<1>5. Outcome(ui, cache, ui')
  BY <1>3, <1>4 DEF Outcome, SameCells
<1>6. PlaceOf(a) \in View
  BY <1>2, PlaceIsView
<1>7. jobs' = jobs \o <<>> \/ jobs' = jobs \o ShowJobs(PlaceOf(a))
  BY <1>2 DEF Asset, PlaceOf
<1>8. jobs \o <<>> = jobs
  BY DEF EditInv, JobsOK
<1>9. inbox' = Append(inbox, Select(PlaceOf(a), FALSE))
  BY <1>2 DEF Asset, PlaceOf
<1>10. UNCHANGED <<cache, readAll>>
  BY <1>2 DEF Asset, Work
<1> QED
  BY <1>5, <1>6, <1>7, <1>8, <1>9, <1>10, Messages, ShowKey

\* 'a' and 'R'.
LEMMA CheckKeys ==
  ASSUME EditInv, OpenOK(ui), CheckAsserts \/ ReadAllModules
  PROVE  KeyDoes
<1>1. Outcome(ui, cache, ui')
  BY Still, TurnOutcome DEF CheckAsserts, ReadAllModules
<1>2. "at" \in DOMAIN readAll' /\ (readAll'.at # "rebuild" => readAll.at # "rebuild")
  BY DEF EditInv, CheckAsserts, ReadAllModules
<1> QED
  BY <1>1, <1>2 DEF KeyDoes, EditInv, CheckAsserts, ReadAllModules

\* Every key and click.
LEMMA KeysPreserve ==
  ASSUME EditInv, OpenOK(ui), Keys
  PROVE  EditInv'
<1>1. KeyDoes
  BY FocusKey, MoveKey, PostKeys, TypeKey, StepValueKey, ToggleKey, StepKey, ReadKeys, LogKey, LogMoveKey,
     AssetKeys, ClearKey, CheckKeys DEF Keys
<1> QED
  BY <1>1, KeyPreserves

\* The app takes its next message.
LEMMA MessagePreserves ==
  ASSUME EditInv, OpenOK(ui), HandleMessage
  PROVE  EditInv'
<1> DEFINE r == Handled(ui, Head(inbox), cache)
<1>1. inbox # <<>> /\ ui' = r.u /\ jobs' = jobs \o r.jobs /\ inbox' = Tail(inbox)
      /\ UNCHANGED <<cache, readAll>>
  BY DEF HandleMessage
<1>2. InboxOK(inbox') /\ MessageOK(Head(inbox))
  BY <1>1, TailMessages DEF EditInv
<1>3. Outcome(ui, cache, r.u) /\ JobsOK(r.jobs)
  BY <1>2, HandledOutcome
<1> HIDE DEF r
<1>4. JobsOK(jobs') /\ \A x : Has(jobs, x) => Has(jobs', x)
  BY <1>1, <1>3, JoinJobs DEF EditInv
<1>5. KeyDoes
  BY <1>1, <1>2, <1>3, <1>4 DEF KeyDoes, EditInv
<1> QED
  BY <1>5, KeyPreserves

\* The tables that the assert check and the read of all modules refresh.
LEMMA Remembered ==
  ASSUME NEW u, NEW c, NEW key, OpenOK(u)
  PROVE  LET w == [RefreshShown(Log(u, Register, c), c) EXCEPT !.restore = key]
         IN  OpenOK(w) /\ \A J : Current(w, c, J)
<1> DEFINE s == RefreshShown(Log(u, Register, c), c)
           w == [s EXCEPT !.restore = key]
<1>1. Fresh(s, c)
  BY LogOpen, RefreshShownFresh
<1> HIDE DEF s
<1>2. /\ DOMAIN w = DOMAIN s /\ SameCells(s, w) /\ w.cursor = s.cursor
      /\ w.lanes = s.lanes /\ w.log = s.log /\ w.nav = s.nav /\ w.navIdx = s.navIdx
      /\ w.navReturn = s.navReturn /\ w.focus = s.focus
  BY <1>1 DEF SameCells, Fresh, OpenOK, TableOK, UiFields
<1>3. Empty(w) \/ w.cursor \in DOMAIN RowsShown(w)
  BY <1>1, <1>2 DEF Fresh, OpenOK, TableOK, SameCells, Empty, RowsShown
<1> HIDE DEF w
<1>4. Fresh(w, c)
  BY <1>1, <1>2, <1>3, FreshCursor
<1> QED
  BY <1>4, FreshOf DEF w, s

\* The node that a rebuilt tree selects is one of it.
LEMMA ReselectOK ==
  ASSUME NEW u, OpenOK(u)
  PROVE  MessageOK(Reselect(u))
  BY Messages DEF Reselect, View, Module

\* make_tree has returned to the assert check.
LEMMA CheckPreserves ==
  ASSUME EditInv, OpenOK(ui), CheckEnds
  PROVE  EditInv'
<1>1. OpenOK(ui') /\ \A J : Current(ui', cache, J)
  BY Remembered DEF CheckEnds
<1>2. InboxOK(inbox')
  BY ReselectOK, AppendMessage DEF CheckEnds, EditInv
<1> QED
  BY <1>1, <1>2, Preserves DEF CheckEnds, EditInv

\* The tree has been rebuilt after a read of all modules.
LEMMA RebuildPreserves ==
  ASSUME EditInv, OpenOK(ui), RebuildEnds
  PROVE  EditInv'
<1> DEFINE u == RestoreCursor(ui, readAll.key)
<1>1. OpenOK(u)
  BY RestoreTurn DEF Turn, OpenOK
<1>2. ui' = [RefreshShown(Log(u, Register, cache), cache) EXCEPT !.restore = readAll.key]
      /\ inbox' = Append(inbox, Reselect(u)) /\ readAll' = [at |-> "off", key |-> 0]
      /\ UNCHANGED <<jobs, cache>>
  BY DEF RebuildEnds
<1> HIDE DEF u
<1>3. OpenOK(ui') /\ \A J : Current(ui', cache, J)
  BY <1>1, <1>2, Remembered
<1>4. InboxOK(inbox')
  BY <1>1, <1>2, ReselectOK, AppendMessage DEF EditInv
<1> QED
  BY <1>2, <1>3, <1>4, Preserves DEF EditInv

\* A read changes the cache of what it read alone.
LEMMA BringsCache ==
  ASSUME CacheOK(cache), NEW objs, Brings(objs)
  PROVE  /\ CacheOK(cache')
         /\ \A o : objs = {o} => OnlyIn(o, cache, cache')
  BY DEF CacheOK, Brings, OnlyIn

\* The read of all modules has returned.
LEMMA ReadAllPreserves ==
  ASSUME EditInv, OpenOK(ui), ReadAllReturns
  PROVE  EditInv'
<1>1. CacheOK(cache')
  BY BringsCache DEF EditInv, ReadAllReturns
<1>2. CASE check
  <2>1. ui' = RefreshShown(ui, cache') /\ readAll' = [readAll EXCEPT !.at = "off"]
    BY <1>2 DEF ReadAllReturns
  <2>2. OpenOK(ui') /\ \A J : Current(ui', cache', J)
    BY <2>1, RefreshShownFresh, FreshOf
  <2>3. "at" \in DOMAIN readAll'
    BY <2>1 DEF EditInv
  <2> QED
    BY <1>1, <2>2, <2>3, Preserves DEF ReadAllReturns, EditInv
<1>3. CASE ~ check
  <2>1. UNCHANGED ui /\ readAll' = [at |-> "rebuild", key |-> ui.cursor]
    BY <1>3 DEF ReadAllReturns
  <2> QED
    BY <1>1, <2>1, Preserves DEF ReadAllReturns, EditInv
<1> QED
  BY <1>2, <1>3

\* The read of all modules has failed half way.
LEMMA ReadAllFailsPreserves ==
  ASSUME EditInv, OpenOK(ui), ReadAllFails
  PROVE  EditInv'
<1> DEFINE late == {o \in Object : cache'[o] # cache[o]}
           w    == [ui EXCEPT !.behind = @ \cup late]
<1>1. CacheOK(cache')
  BY BringsCache DEF EditInv, ReadAllFails
<1>2. ui' = w /\ UNCHANGED <<inbox, jobs>> /\ readAll' = [readAll EXCEPT !.at = "off"] /\ readAll.at = "read"
  BY DEF ReadAllFails, Object
<1>3. CellsOnly(ui, w) /\ w.behind = ui.behind \cup late /\ w.cells = ui.cells
  BY DEF CellsOnly, OpenOK, TableOK, UiFields
<1>4. \A o \in Object : o \notin late => cache'[o] = cache[o]
  OBVIOUS
<1> HIDE DEF w, late
<1>5. OpenOK(w) /\ RowsShown(w) = RowsShown(ui)
  BY <1>3, CellsOnlyOpen
<1>6. Current(ui, cache, jobs)
  BY <1>2 DEF EditInv, OpenOK
<1>7. ASSUME NEW k \in DOMAIN w.cells
      PROVE  CurrentAt(w, cache', jobs, k)
  <2> DEFINE row == RowsShown(ui)[k]
  <2>1. row.obj \in Object
    BY <1>3, ShownRows DEF ShownRow
  <2>2. CurrentAt(ui, cache, jobs, k)
    BY <1>3, <1>6 DEF Current
  <2>3. CASE row.obj \in late
    BY <1>3, <1>5, <2>3 DEF CurrentAt
  <2>4. CASE row.obj \notin late
    <3>1. CellOf(row, cache') = CellOf(row, cache)
      BY <1>4, <2>1, <2>4 DEF CellOf
    <3> QED
      BY <1>3, <1>5, <2>2, <3>1 DEF CurrentAt
  <2> QED
    BY <2>3, <2>4
<1>8. Current(ui', cache', jobs')
  BY <1>2, <1>7 DEF Current
<1>9. "at" \in DOMAIN readAll'
  BY <1>2 DEF EditInv
<1> QED
  BY <1>1, <1>2, <1>5, <1>8, <1>9, Preserves DEF EditInv

-----------------------------------------------------------------------------
\* The jobs.

\* The job at i has ended.
LEMMA EndsWithout ==
  ASSUME JobsOK(jobs), NEW i \in DOMAIN jobs, NEW u, Ends(i, u)
  PROVE  ui' = u /\ JobsOK(jobs') /\ AllBut(jobs, jobs', i) /\ Without(jobs[i].obj, jobs, jobs')
<1>1. ui' = u /\ jobs' = RemoveAt(jobs, i)
  BY DEF Ends
<1>2. JobsOK(jobs') /\ AllBut(jobs, jobs', i)
  BY <1>1, RemoveJob DEF AllBut
<1> QED
  BY <1>1, <1>2, AllButWithout

\* A job that has not called yet ends without a trace.
LEMMA EndsSilently ==
  ASSUME EditInv, OpenOK(ui), NEW i \in DOMAIN jobs, jobs[i].done = 0, Ends(i, ui),
         UNCHANGED <<cache, inbox, readAll>>
  PROVE  EditInv'
<1>1. ui' = ui /\ JobsOK(jobs') /\ AllBut(jobs, jobs', i)
  BY EndsWithout DEF EditInv
<1>2. \A x : Has(jobs, x) /\ x.done > 0 => Has(jobs', x)
  BY <1>1 DEF AllBut, Has
<1>3. Outcome(ui, cache, ui)
  BY Still, TurnOutcome
<1>4. readAll'.at # "rebuild" => Current(ui', cache', jobs')
  BY <1>1, <1>2, <1>3, OutcomeCurrent DEF EditInv, OpenOK
<1> QED
  BY <1>1, <1>4, Preserves DEF EditInv

\* A job of o has ended or failed, and the rows of o are behind.
LEMMA EndsBehind ==
  ASSUME EditInv, OpenOK(ui), NEW i \in DOMAIN jobs, Ends(i, Behind(ui, jobs[i].obj)),
         UNCHANGED <<cache, inbox, readAll>>
  PROVE  EditInv'
<1> DEFINE o == jobs[i].obj
<1>1. ui' = Behind(ui, o) /\ JobsOK(jobs') /\ Without(o, jobs, jobs')
  BY EndsWithout DEF EditInv
<1>2. CASE readAll.at = "rebuild"
  <2>1. CellsOnly(ui, Behind(ui, o))
    BY DEF Behind, CellsOnly, OpenOK, TableOK, UiFields
  <2>2. OpenOK(ui')
    BY <1>1, <2>1, CellsOnlyOpen
  <2> QED
    BY <1>1, <1>2, <2>2, Preserves DEF EditInv
<1>3. CASE readAll.at # "rebuild"
  <2>1. Ending(ui, cache, cache, jobs, jobs', o)
    BY <1>1, <1>3 DEF Ending, EditInv, OpenOK, OnlyIn
  <2>2. OpenOK(ui') /\ Current(ui', cache, jobs')
    BY <1>1, <2>1, BehindCurrent
  <2> QED
    BY <1>1, <2>2, Preserves DEF EditInv
<1> QED
  BY <1>2, <1>3

\* A job changes.
LEMMA ReplaceJob ==
  ASSUME NEW J, JobsOK(J), NEW i \in DOMAIN J, NEW new, JobOK(new)
  PROVE  JobsOK([J EXCEPT ![i] = new])
<1> DEFINE K == [J EXCEPT ![i] = new]
<1>1. DOMAIN K = DOMAIN J /\ K[i] = new /\ \A m \in DOMAIN J : m # i => K[m] = J[m]
  OBVIOUS
<1>2. J \in Seq(Range(J))
  BY DEF JobsOK
<1>3. \E n \in Nat : DOMAIN J = 1..n
  BY <1>2
<1>4. \E n \in Nat : K = [m \in 1..n |-> K[m]]
  BY <1>1, <1>3
<1>5. \A m \in DOMAIN K : K[m] \in Range(K)
  BY DEF Range
<1> HIDE DEF K
<1>6. K \in Seq(Range(K))
  BY <1>4, <1>5
<1>7. \A m \in DOMAIN K : JobOK(K[m])
  BY <1>1 DEF JobsOK
<1>8. JobsOK(K)
  BY <1>6, <1>7 DEF JobsOK
<1> QED
  BY <1>8 DEF K

\* The step pump takes a step (_step_pump).
LEMMA PopPreserves ==
  ASSUME EditInv, OpenOK(ui), NEW i \in DOMAIN jobs, PopStep(i)
  PROVE  EditInv'
<1> DEFINE j     == jobs[i]
           calls == StepCalls(j.obj, j.lane, j.delta, cache)
           new   == [j EXCEPT !.op = "write", !.pump = TRUE, !.calls = calls]
<1>1. JobOK(j) /\ j.op = "step"
  BY DEF PopStep, EditInv, JobsOK
<1>2. Calls(calls)
  BY <1>1, CallsOfStep DEF JobOK
<1>3. jobs' = [jobs EXCEPT ![i] = new] /\ UNCHANGED <<ui, cache, inbox, readAll>>
  BY DEF PopStep
<1> HIDE DEF calls
<1>4. JobOK(new) /\ new.done = 0
  BY <1>1, <1>2 DEF JobOK
<1>5. j.done = 0
  BY <1>1 DEF JobOK
<1> HIDE DEF new
<1>7. DOMAIN jobs' = DOMAIN jobs /\ jobs'[i] = new /\ \A m \in DOMAIN jobs : m # i => jobs'[m] = jobs[m]
  BY <1>3
<1>8. JobsOK(jobs')
  BY <1>3, <1>4, ReplaceJob DEF EditInv
<1>9. \A x : Has(jobs, x) /\ x.done > 0 => Has(jobs', x)
  BY <1>5, <1>7 DEF Has
<1>10. readAll'.at # "rebuild" => Current(ui', cache', jobs')
  <2>1. Outcome(ui, cache, ui)
    BY Still, TurnOutcome
  <2> QED
    BY <1>3, <1>9, <2>1, OutcomeCurrent DEF EditInv, OpenOK
<1> QED
  BY <1>3, <1>8, <1>10, Preserves DEF EditInv

\* A call goes out, or the register raises on it.
LEMMA CallPreserves ==
  ASSUME EditInv, OpenOK(ui), NEW i \in DOMAIN jobs, NEW n \in Nat \ {0},
         jobs[i].op = "write", n \in DOMAIN jobs[i].calls, n = 1 => jobs[i].done = 0,
         Call(i, jobs[i], n), UNCHANGED <<inbox, readAll>>
  PROVE  EditInv'
<1> DEFINE j    == jobs[i]
           call == j.calls[n]
<1>1. CASE Raises(j.obj, call) /\ n = 1
  <2>1. Ends(i, ui) /\ UNCHANGED cache
    BY <1>1 DEF Call
  <2> QED
    BY <1>1, <2>1, EndsSilently
<1>2. CASE Raises(j.obj, call) /\ n # 1
  <2>1. Ends(i, Behind(ui, j.obj)) /\ UNCHANGED cache
    BY <1>2 DEF Call
  <2> QED
    BY <2>1, EndsBehind
<1>3. CASE ~ Raises(j.obj, call)
  <2>1. cache' = Written(j.obj, call, cache) /\ jobs' = [jobs EXCEPT ![i].done = n] /\ UNCHANGED ui
    BY <1>3 DEF Call
  <2>2. DOMAIN call \subseteq LanesWritten(j)
    BY DEF LanesWritten
  <2>3. CacheOK(cache')
    BY <2>1 DEF CacheOK, EditInv, Written
  <2>4. JobsOK(jobs')
    <3> DEFINE new == [j EXCEPT !.done = n]
    <3>1. JobOK(j) /\ j.op = "write"
      BY DEF EditInv, JobsOK
    <3>2. JobOK(new)
      BY <3>1 DEF JobOK
    <3>3. jobs' = [jobs EXCEPT ![i] = new]
      BY <2>1
    <3> HIDE DEF new
    <3> QED
      BY <3>2, <3>3, ReplaceJob DEF EditInv
  <2>5. readAll'.at # "rebuild" => Current(ui', cache', jobs')
    <3> SUFFICES ASSUME readAll.at # "rebuild" PROVE Current(ui', cache', jobs')
      OBVIOUS
    <3>1. Current(ui, cache, jobs) /\ CacheOK(cache) /\ JobsOK(jobs)
      BY DEF EditInv, OpenOK
    <3>2. Current(ui, Written(j.obj, call, cache), [jobs EXCEPT ![i].done = n])
      BY <2>2, <3>1, WrittenCurrent
    <3> QED
      BY <2>1, <3>2
  <2> QED
    BY <2>1, <2>3, <2>4, <2>5, Preserves DEF EditInv
<1> QED
  BY <1>1, <1>2, <1>3

\* The calls are numbered.
LEMMA CallsDomain ==
  ASSUME NEW s, Calls(s)
  PROVE  Len(s) \in Nat \ {0} /\ DOMAIN s = 1..Len(s)
<1>1. PICK n \in Nat \ {0} : s = [i \in 1..n |-> s[i]]
  BY DEF Calls
<1>2. DOMAIN s = 1..n
  BY <1>1
<1>3. \A i \in 1..n : s[i] \in Range(s)
  BY <1>2 DEF Range
<1>4. s \in Seq(Range(s))
  BY <1>1, <1>3
<1>5. Len(s) \in Nat /\ DOMAIN s = 1..Len(s)
  BY <1>4, LenProperties
<1>6. Len(s) # 0
  BY <1>2, <1>5
<1> QED
  BY <1>5, <1>6

\* A write starts once no other job is on the way.
LEMMA StartPreserves ==
  ASSUME EditInv, OpenOK(ui), NEW i \in DOMAIN jobs, StartWrite(i)
  PROVE  EditInv'
<1>1. jobs[i].op = "write" /\ jobs[i].done = 0 /\ UNCHANGED <<inbox, readAll>>
  BY DEF StartWrite
<1>2. CASE Refused(jobs[i].obj, jobs[i].calls)
  <2>1. Ends(i, ui) /\ UNCHANGED cache
    BY <1>2 DEF StartWrite
  <2> QED
    BY <1>1, <2>1, EndsSilently
<1>3. CASE ~ Refused(jobs[i].obj, jobs[i].calls)
  <2>1. Call(i, jobs[i], 1)
    BY <1>3 DEF StartWrite
  <2>2. Calls(jobs[i].calls)
    BY <1>1 DEF EditInv, JobsOK, JobOK
  <2>3. 1 \in DOMAIN jobs[i].calls /\ 1 \in Nat \ {0}
    BY <2>2, CallsDomain
  <2> QED
    BY <1>1, <2>1, <2>3, CallPreserves
<1> QED
  BY <1>2, <1>3

\* A call has returned: the next one, or the end of the write.
LEMMA ReturnPreserves ==
  ASSUME EditInv, OpenOK(ui), NEW i \in DOMAIN jobs, CallReturns(i)
  PROVE  EditInv'
<1> DEFINE j == jobs[i]
<1>1. j.op = "write" /\ j.done > 0 /\ j.done \in Nat /\ UNCHANGED <<inbox, readAll>> /\ Calls(j.calls)
  BY DEF CallReturns, EditInv, JobsOK, JobOK
<1>2. CASE j.done < Len(j.calls)
  <2> DEFINE n == j.done + 1
  <2>1. Call(i, j, n)
    BY <1>2 DEF CallReturns
  <2>2. n \in DOMAIN j.calls /\ n \in Nat \ {0} /\ n # 1
    BY <1>1, <1>2, CallsDomain
  <2> HIDE DEF n
  <2> QED
    BY <1>1, <2>1, <2>2, CallPreserves
<1>3. CASE ~ (j.done < Len(j.calls)) /\ j.obj \in Mem
  <2>1. Ends(i, RefreshLanes(ui, j.obj, LanesWritten(j), cache)) /\ UNCHANGED cache
    BY <1>3 DEF CallReturns
  <2>2. /\ ui' = RefreshLanes(ui, j.obj, LanesWritten(j), cache) /\ JobsOK(jobs')
        /\ AllBut(jobs, jobs', i)
    BY <2>1, EndsWithout DEF EditInv
  <2>3. OpenOK(ui')
    <3>1. CellsOnly(ui, ui')
      BY <2>2 DEF RefreshLanes, CellsOnly, OpenOK, TableOK, UiFields
    <3> QED
      BY <3>1, CellsOnlyOpen
  <2>4. readAll'.at # "rebuild" => Current(ui', cache, jobs')
    BY <1>1, <1>3, <2>2, RefreshLanesCurrent DEF EditInv, OpenOK
  <2> QED
    BY <1>1, <2>1, <2>2, <2>3, <2>4, Preserves DEF EditInv
<1>4. CASE ~ (j.done < Len(j.calls)) /\ j.obj \notin Mem
  <2>1. Ends(i, RefreshRow(ui, j.key, j.obj, 0, cache)) /\ UNCHANGED cache
    BY <1>4 DEF CallReturns
  <2>2. /\ ui' = RefreshRow(ui, j.key, j.obj, 0, cache) /\ JobsOK(jobs')
        /\ Without(j.obj, jobs, jobs')
    BY <2>1, EndsWithout DEF EditInv
  <2>3. OpenOK(ui')
    BY <2>2, RefreshRowOpen
  <2>4. readAll'.at # "rebuild" => Current(ui', cache, jobs')
    <3>1. readAll.at # "rebuild" => Ending(ui, cache, cache, jobs, jobs', j.obj)
      BY <2>2 DEF Ending, EditInv, OpenOK, OnlyIn
    <3>2. LaneRead(j.obj, 0, cache, cache, jobs)
      BY <1>4 DEF LaneRead
    <3> QED
      BY <1>1, <2>2, <3>1, <3>2, RefreshRowCurrent
  <2> QED
    BY <1>1, <2>1, <2>2, <2>3, <2>4, Preserves DEF EditInv
<1> QED
  BY <1>2, <1>3, <1>4

\* A call has failed.
LEMMA FailPreserves ==
  ASSUME EditInv, OpenOK(ui), NEW i \in DOMAIN jobs, CallFails(i)
  PROVE  EditInv'
  BY EndsBehind DEF CallFails

\* A row has been read (_read_row_async).
LEMMA ReadPreserves ==
  ASSUME EditInv, OpenOK(ui), NEW i \in DOMAIN jobs, ReadReturns(i)
  PROVE  EditInv'
<1> DEFINE j == jobs[i]
           u == RefreshRow(ui, j.key, j.obj, j.lane, cache')
           w == Log(u, {j.obj}, cache')
<1>1. PICK n \in Found :
        cache' = [cache EXCEPT ![j.obj] = [x \in DOMAIN @ |-> IF j.obj \in Mem /\ j.lane \notin {0, x} THEN @[x] ELSE n]]
  BY DEF ReadReturns
<1>2. CacheOK(cache') /\ OnlyIn(j.obj, cache, cache')
  BY <1>1 DEF EditInv, CacheOK, OnlyIn
<1>3. LaneRead(j.obj, j.lane, cache, cache', jobs)
  <2>1. \A m \in DOMAIN jobs : jobs[m].done = 0
    BY DEF ReadReturns, LockFree
  <2>2. j.obj \in Mem => \A x \in LanesOf(j.obj) : j.lane \notin {0, x} => cache'[j.obj][x] = cache[j.obj][x]
    BY <1>1 DEF EditInv, CacheOK, Object
  <2> QED
    BY <2>1, <2>2 DEF LaneRead
<1>4. ui' = w /\ JobsOK(jobs') /\ Without(j.obj, jobs, jobs')
  <2>1. Ends(i, w)
    BY DEF ReadReturns
  <2> QED
    BY <2>1, EndsWithout DEF EditInv
<1>5. OpenOK(u)
  BY RefreshRowOpen
<1>6. readAll.at # "rebuild" => Current(u, cache', jobs')
  <2>1. readAll.at # "rebuild" => Ending(ui, cache, cache', jobs, jobs', j.obj)
    BY <1>2, <1>4 DEF Ending, EditInv, OpenOK
  <2> QED
    BY <1>3, <2>1, RefreshRowCurrent
<1> HIDE DEF u
<1>7. OpenOK(w) /\ SameCells(u, w)
  BY <1>5, LogOpen
<1> HIDE DEF w
<1>8. readAll.at # "rebuild" => Current(w, cache', jobs')
  BY <1>6, <1>7, CurrentSame
<1> QED
  BY <1>2, <1>4, <1>7, <1>8, Preserves DEF EditInv, ReadReturns

\* A memory has been read because it was shown (_read_mem_vec_async).
LEMMA MemPreserves ==
  ASSUME EditInv, OpenOK(ui), NEW i \in DOMAIN jobs, MemReturns(i)
  PROVE  EditInv'
<1> DEFINE o == jobs[i].obj
           d == cache'
           w == [Paint(ui, KeysOf(ui, o) \ {1}, d) EXCEPT !.behind = @ \ {o}]
<1>1. o \in Mem
  BY DEF MemReturns, EditInv, JobsOK, JobOK
<1>2. CacheOK(d) /\ OnlyIn(o, cache, d)
  BY BringsCache DEF MemReturns, EditInv
<1>3. /\ ui' = IF ui.view = o THEN w ELSE ui
      /\ JobsOK(jobs') /\ Without(o, jobs, jobs')
  <2>1. Ends(i, IF ui.view = o THEN w ELSE ui)
    BY DEF MemReturns
  <2> HIDE DEF w
  <2> QED
    BY <2>1, EndsWithout DEF EditInv
<1>4. UNCHANGED <<inbox, readAll>>
  BY DEF MemReturns
<1>5. CellsOnly(ui, w) /\ w.behind = ui.behind \ {o}
      /\ w.cells = [k \in DOMAIN ui.cells |-> IF k \in KeysOf(ui, o) \ {1} THEN CellOf(RowsShown(ui)[k], d) ELSE ui.cells[k]]
  BY DEF Paint, CellsOnly, OpenOK, TableOK, UiFields
<1> HIDE DEF w, d
<1>6. OpenOK(w)
  BY <1>5, CellsOnlyOpen
<1>7. \A k \in DOMAIN ui.cells : k \in KeysOf(ui, o) <=> RowsShown(ui)[k].obj = o
  BY DEF KeysOf, OpenOK, TableOK
<1>8. CASE ui.view = o
  <2>1. readAll.at # "rebuild" => Settles(ui, w, cache, d, jobs, jobs', o)
    <3>1. \A k \in DOMAIN ui.cells : RowsShown(ui)[k].obj # o => w.cells[k] = ui.cells[k]
      BY <1>5, <1>7
    <3> QED
      BY <1>2, <1>3, <1>5, <3>1 DEF Settles, EditInv, OpenOK
  <2>2. ASSUME NEW k \in DOMAIN ui.cells, RowsShown(ui)[k].obj = o
        PROVE  RowsShown(ui)[k].kind = "mem" \/ w.cells[k] = CellOf(RowsShown(ui)[k], d)
    <3>1. CASE k = 1
      <4>1. ShownRow(ui, k, RowsShown(ui)[k])
        BY ShownRows
      <4> QED
        BY <1>1, <1>8, <3>1, <4>1 DEF ShownRow
    <3>2. CASE k # 1
      BY <1>5, <1>7, <2>2, <3>2
    <3> QED
      BY <3>1, <3>2
  <2>3. readAll.at # "rebuild" => Current(w, d, jobs')
    BY <2>1, <2>2, PaintSettles
  <2> QED
    BY <1>2, <1>3, <1>4, <1>6, <1>8, <2>3, Preserves DEF EditInv, d
<1>9. CASE ui.view # o
  <2>1. readAll.at # "rebuild" => Settles(ui, ui, cache, d, jobs, jobs', o)
    BY <1>2, <1>3 DEF Settles, EditInv, OpenOK, CellsOnly
  <2>2. \A k \in DOMAIN ui.cells : RowsShown(ui)[k].obj = o => RowsShown(ui)[k].kind = "mem"
    BY <1>1, <1>9, ShownRows DEF ShownRow
  <2>3. readAll.at # "rebuild" => Current(ui, d, jobs')
    BY <2>1, <2>2, PaintSettles
  <2> QED
    BY <1>2, <1>3, <1>4, <1>9, <2>3, Preserves DEF EditInv, d
<1> QED
  BY <1>8, <1>9

\* A node of the tree has been read (_read_module_async, _read_mem_async).
LEMMA TreePreserves ==
  ASSUME EditInv, OpenOK(ui), NEW i \in DOMAIN jobs, TreeReturns(i)
  PROVE  EditInv'
<1> DEFINE objs == ObjectsOf(jobs[i].obj)
           u == RefreshShown(ui, cache')
           w == Log(u, objs, cache')
<1>1. CacheOK(cache')
  BY BringsCache DEF TreeReturns, EditInv
<1>2. ui' = w /\ JobsOK(jobs')
  <2>1. Ends(i, w)
    BY DEF TreeReturns
  <2> QED
    BY <2>1, EndsWithout DEF EditInv
<1>3. OpenOK(u) /\ Current(u, cache', jobs')
  BY RefreshShownFresh, FreshOf
<1> HIDE DEF u, objs
<1>4. OpenOK(w) /\ SameCells(u, w)
  BY <1>3, LogOpen
<1> HIDE DEF w
<1>5. Current(w, cache', jobs')
  BY <1>3, <1>4, CurrentSame
<1> QED
  BY <1>1, <1>2, <1>4, <1>5, Preserves DEF EditInv, TreeReturns

\* A read of a row has failed.
LEMMA ReadFailsPreserves ==
  ASSUME EditInv, OpenOK(ui), NEW i \in DOMAIN jobs, ReadFails(i)
  PROVE  EditInv'
  BY EndsSilently DEF ReadFails, LockFree

\* A read of a node of the tree has failed, and the app closes.
LEMMA TreeFailsPreserves ==
  ASSUME EditInv, OpenOK(ui), NEW i \in DOMAIN jobs, TreeFails(i)
  PROVE  EditInv'
<1> DEFINE w == [ui EXCEPT !.focus = "closed"]
<1>1. ui' = w /\ jobs' = <<>> /\ inbox' = <<>> /\ check' = FALSE
      /\ readAll' = [at |-> "off", key |-> 0] /\ UNCHANGED cache
  BY DEF TreeFails
<1>2. /\ DOMAIN w = DOMAIN ui /\ SameCells(ui, w) /\ w.cursor = ui.cursor /\ w.focus = "closed"
      /\ w.lanes = ui.lanes /\ w.log = ui.log /\ w.nav = ui.nav /\ w.navIdx = ui.navIdx
      /\ w.navReturn = ui.navReturn
  BY DEF SameCells, OpenOK, TableOK, UiFields
<1> HIDE DEF w
<1>3. TableOK(w) /\ WidgetsOK(w)
  BY <1>2 DEF OpenOK, TableOK, WidgetsOK, SameCells, RowsShown, Empty
<1>4. TableOK(ui)' /\ WidgetsOK(ui)' /\ (ui.focus = "closed")'
  BY <1>1, <1>2, <1>3 DEF TableOK, WidgetsOK, RowsShown, Empty
<1>5. JobsOK(jobs)' /\ CacheOK(cache)'
  BY <1>1, NoJobs DEF EditInv, JobsOK, JobOK, CacheOK
<1>6. InboxOK(inbox)'
  <2>1. <<>> \in Seq(Range(<<>>)) /\ DOMAIN <<>> = {}
    OBVIOUS
  <2> QED
    BY <1>1, <2>1 DEF InboxOK
<1> QED
  BY <1>1, <1>4, <1>5, <1>6 DEF EditInv

\* Every step keeps the invariant.
LEMMA StepPreserves ==
  ASSUME EditInv, EditNext
  PROVE  EditInv'
  BY Closes, KeysPreserve, MessagePreserves, CheckPreserves, ReadAllPreserves, ReadAllFailsPreserves,
     RebuildPreserves, PopPreserves, StartPreserves, ReturnPreserves, FailPreserves, ReadPreserves,
     MemPreserves, TreePreserves, ReadFailsPreserves, TreeFailsPreserves DEF EditNext

\* And so does a step that leaves the interface alone.
LEMMA StutterPreserves ==
  ASSUME EditInv, UNCHANGED editVars
  PROVE  EditInv'
<1>1. UNCHANGED <<ui, inbox, jobs, cache, check, readAll>>
  BY DEF editVars
<1>2. TableOK(ui)' /\ WidgetsOK(ui)' /\ CacheOK(cache)' /\ JobsOK(jobs)' /\ InboxOK(inbox)'
  BY <1>1 DEF EditInv, TableOK, WidgetsOK, CacheOK, JobsOK, JobOK, InboxOK, RowsShown, Empty
<1>3. ASSUME Current(ui, cache, jobs)
      PROVE  Current(ui, cache, jobs)'
  <2>1. Current(ui', cache', jobs')
    BY <1>1, <1>3
  <2> QED
    BY <2>1 DEF Current, CurrentAt, RowsShown, UnderWay, LanesWritten
<1> QED
  BY <1>1, <1>2, <1>3 DEF EditInv

\* The invariant holds when the app has mounted.
LEMMA StartHolds ==
  ASSUME EditInit
  PROVE  EditInv
<1>1. CacheOK(cache)
  BY DEF EditInit, CacheOK, Object
<1>2. Top \in View
  BY DEF View, Module
<1>3. /\ UiFields \subseteq DOMAIN ui /\ ui.view = Top /\ ui.expand = FALSE /\ ui.cursor = 1
      /\ ui.cells = FreshCells(Rows[Top, FALSE], cache)
      /\ ui.lanes = <<>> /\ ui.log = <<>> /\ ui.nav = FALSE /\ ui.navReturn = "table" /\ ui.focus = "tree"
  BY DEF EditInit, UiInit, UiFields
<1>4. TableOK(ui)
  BY <1>2, <1>3, FirstRow DEF TableOK, RowsShown, Empty, FreshCells
<1>5. WidgetsOK(ui)
  <2>1. <<>> \in Seq(Range(Watch))
    OBVIOUS
  <2> QED
    BY <1>3, <2>1 DEF WidgetsOK
<1>6. Current(ui, cache, jobs)
  BY <1>3, FreshCellsShow DEF RowsShown
<1>7. JobsOK(jobs)
  BY NoJobs DEF EditInit
<1>8. InboxOK(inbox)
  <2>1. <<>> \in Seq(Range(<<>>)) /\ DOMAIN <<>> = {}
    OBVIOUS
  <2>2. InboxOK(<<>>)
    BY <2>1 DEF InboxOK
  <2>3. MessageOK(Select(Top, FALSE))
    BY <1>2, Messages
  <2>4. inbox = Append(<<>>, Select(Top, FALSE))
    BY DEF EditInit
  <2> QED
    BY <2>2, <2>3, <2>4, AppendMessage
<1> QED
  BY <1>1, <1>3, <1>4, <1>5, <1>6, <1>7, <1>8 DEF EditInv, EditInit

\* The table has a cell for each row and a cursor on one of them, the log
\* cursor is on an entry, every write has a call to make, and every cell is
\* current or known to be behind (SkmapUiApp).
THEOREM EditInvariant == EditSpec => []EditInv
<1>1. EditInit => EditInv
  BY StartHolds
<1>2. EditInv /\ [EditNext]_editVars => EditInv'
  BY StepPreserves, StutterPreserves
<1> QED
  BY <1>1, <1>2, PTL DEF EditSpec

\* Whatever keys, rebuilt tables, reads and writes come in whatever order: a
\* cell shows the cache of its own row, but for a write under way and for the
\* jobs that ended and left the row as it was (_refresh_rows_from_cache,
\* _write_mem_lanes_async, _refresh_shown_values).
THEOREM TableShowsCache == EditSpec => []ShowsCache
<1>1. EditInv => ShowsCache
  BY DEF EditInv, ShowsCache, Current, CurrentAt, UnderWay
<1> QED
  BY <1>1, EditInvariant, PTL

-----------------------------------------------------------------------------
\* What an edit was opened for.  The inductive invariant: while an edit is
\* open its widgets belong to the rows of the object it was opened for, unless
\* the table was rebuilt, and a widget that lost the focus is put away by the
\* message that waits for it.

HistFields == {"lane", "prompt", "meant", "moved"}

\* The widgets of an edit are put away.
Away(u) == u.lanes = <<>> /\ u.lane = <<>> /\ ~ u.prompt

\* The single input has no lane inputs beside it, and the step prompt neither.
InputsOK(u) ==
  /\ HistFields \subseteq DOMAIN u
  /\ u.lane # <<>> /\ u.lane[2] # 0 => u.lanes = <<>>
  /\ u.prompt => u.lane = <<>> /\ u.lanes = <<>>
  /\ u.navReturn # "input"

\* The row at k is one of the object that the edit was opened for.
Edits(u, k) == k \in DOMAIN RowsShown(u) /\ RowsShown(u)[k].obj = u.meant.obj

\* An edit of a lane, of the lanes of a memory, or of a register's own row.
LaneEdit(u) ==
  /\ u.lane # <<>> /\ u.lane[2] # 0 /\ Edits(u, u.lane[1])
  /\ u.meant.cursor = 0 /\ Range(u.meant.lanes) = {u.lane[2]}

LanesEdit(u) ==
  /\ u.lane # <<>> /\ u.lane[2] = 0 /\ Edits(u, u.lane[1])
  /\ u.meant.cursor = 0 /\ u.lanes # <<>> /\ Range(u.meant.lanes) = DOMAIN u.lanes

OwnEdit(u) ==
  /\ u.lane = <<>> /\ Edits(u, u.meant.cursor)
  /\ Range(u.meant.lanes) = LanesOf(u.meant.obj)
  /\ u.lanes # <<>> => DOMAIN u.lanes = LanesOf(u.meant.obj)

MeantOK(u) == u.meant # None /\ ~ u.moved => LaneEdit(u) \/ LanesEdit(u) \/ OwnEdit(u)

InputOK(u) == InputsOK(u) /\ MeantOK(u)

\* One key's message at a time; once the focus has left the input the edit
\* is put away, or will be.
OneKey(q) ==
  /\ \A i, k \in DOMAIN q : q[i].user /\ q[k].user => i = k
  /\ \A i \in DOMAIN q : q[i].type # "select" => q[i].user

AwayOK(u, q) ==
  /\ \A i \in DOMAIN q : q[i].type \in {"blur", "edit"} => u.focus # "input"
  /\ u.focus \notin {"input", "closed"} /\ (\A i \in DOMAIN q : q[i].type # "blur") => Away(u)

\* A job writes what its edit was opened for.
WritesMeant(j) ==
  /\ {"meant", "kept"} \subseteq DOMAIN j
  /\ j.op # "write" => j.meant = None
  /\ j.op = "write" /\ j.meant # None /\ j.kept =>
       j.obj = j.meant.obj /\ LanesWritten(j) = Range(j.meant.lanes)

JobsMean(J) == \A i \in DOMAIN J : WritesMeant(J[i])

MeantInv == InputOK(ui) /\ OneKey(inbox) /\ AwayOK(ui, inbox) /\ JobsMean(jobs)

-----------------------------------------------------------------------------
\* Changes that an open edit survives.

\* From u to w the edit that is open, if any, stays as it is.
SameEdit(u, w) ==
  /\ DOMAIN w = DOMAIN u
  /\ w.lane = u.lane /\ w.lanes = u.lanes /\ w.prompt = u.prompt
  /\ w.meant = u.meant /\ w.moved = u.moved
  /\ w.view = u.view /\ w.expand = u.expand
  /\ w.focus = u.focus /\ w.navReturn = u.navReturn

\* From u to w the table is built anew.
Rebuilt(u, w) ==
  /\ DOMAIN w = DOMAIN u
  /\ w.lane = <<>> /\ w.lanes = u.lanes /\ w.prompt = u.prompt
  /\ w.moved = TRUE
  /\ w.focus = u.focus /\ w.navReturn = u.navReturn

\* Both leave the focus, and an edit that was put away.
Keeps(u, w) == w.focus = u.focus /\ InputOK(w) /\ (Away(u) => Away(w))

\* An edit that stays as it is stays an edit of what it was opened for.
LEMMA SameEditKeeps ==
  ASSUME NEW u, NEW w, InputOK(u), SameEdit(u, w)
  PROVE  Keeps(u, w)
<1>1. RowsShown(w) = RowsShown(u)
  BY DEF SameEdit, RowsShown
<1>2. InputsOK(w)
  BY DEF InputOK, InputsOK, SameEdit
<1>3. MeantOK(w)
  BY <1>1 DEF InputOK, MeantOK, SameEdit, LaneEdit, LanesEdit, OwnEdit, Edits
<1> QED
  BY <1>2, <1>3 DEF Keeps, InputOK, Away, SameEdit

\* So does one whose table is built anew: it is marked as moved.
LEMMA RebuiltKeeps ==
  ASSUME NEW u, NEW w, InputOK(u), Rebuilt(u, w)
  PROVE  Keeps(u, w)
  BY DEF Keeps, Rebuilt, InputOK, InputsOK, MeantOK, Away

\* One such change after another.
LEMMA SameEditAgain ==
  ASSUME NEW u, NEW w, NEW x, SameEdit(u, w), SameEdit(w, x)
  PROVE  SameEdit(u, x)
  BY DEF SameEdit

\* The widgets have all their fields.
Whole(u) == UiFields \cup HistFields \subseteq DOMAIN u

\* Such a change adds and removes no field.
LEMMA SameEditWhole ==
  ASSUME NEW u, NEW w, Whole(u), SameEdit(u, w)
  PROVE  Whole(w)
  BY DEF Whole, SameEdit

\* The invariants name every field of the widgets.
LEMMA WholeOf ==
  ASSUME NEW u, OpenOK(u), InputOK(u)
  PROVE  Whole(u)
  BY DEF Whole, OpenOK, TableOK, InputOK, InputsOK

\* A refresh of the cells, an entry of the log, the cursor.
LEMMA RefreshesKeepEdit ==
  ASSUME NEW u, Whole(u), NEW c
  PROVE  /\ SameEdit(u, u)
         /\ \A objs : SameEdit(u, Log(u, objs, c))
         /\ \A keys : SameEdit(u, Paint(u, keys, c))
         /\ SameEdit(u, RefreshShown(u, c))
         /\ \A o : SameEdit(u, RefreshReg(u, o, c)) /\ SameEdit(u, Behind(u, o))
         /\ \A o, lanes : SameEdit(u, RefreshLanes(u, o, lanes, c))
         /\ \A key : SameEdit(u, RestoreCursor(u, key)) /\ SameEdit(u, [u EXCEPT !.restore = key])
<1>1. SameEdit(u, u)
  BY DEF SameEdit
<1>2. ASSUME NEW objs PROVE SameEdit(u, Log(u, objs, c))
  BY DEF SameEdit, Log, Whole, UiFields, HistFields
<1>3. ASSUME NEW keys PROVE SameEdit(u, Paint(u, keys, c))
  BY DEF SameEdit, Paint, Whole, UiFields, HistFields
<1>4. ASSUME NEW w, Whole(w), NEW x PROVE SameEdit(w, [w EXCEPT !.behind = x])
  BY <1>4 DEF SameEdit, Whole, UiFields, HistFields
<1>5. ASSUME NEW keys, NEW x PROVE SameEdit(u, [Paint(u, keys, c) EXCEPT !.behind = x])
  BY <1>3, <1>4, SameEditAgain, SameEditWhole
<1>6. SameEdit(u, RefreshShown(u, c))
  BY <1>5 DEF RefreshShown
<1>7. ASSUME NEW o PROVE SameEdit(u, RefreshReg(u, o, c)) /\ SameEdit(u, Behind(u, o))
  <2>1. SameEdit(u, RefreshReg(u, o, c))
    <3> DEFINE p == Paint(u, KeysOf(u, o), c)
    <3>1. RefreshReg(u, o, c) = [p EXCEPT !.behind = p.behind \ {o}]
      BY DEF RefreshReg
    <3> QED
      BY <1>5, <3>1
  <2>2. SameEdit(u, Behind(u, o))
    BY DEF SameEdit, Behind, Whole, UiFields, HistFields
  <2> QED
    BY <2>1, <2>2
<1>8. ASSUME NEW o, NEW lanes PROVE SameEdit(u, RefreshLanes(u, o, lanes, c))
  BY DEF SameEdit, RefreshLanes, Whole, UiFields, HistFields
<1>9. ASSUME NEW key PROVE SameEdit(u, RestoreCursor(u, key)) /\ SameEdit(u, [u EXCEPT !.restore = key])
  BY <1>1 DEF SameEdit, RestoreCursor, Whole, UiFields, HistFields
<1> QED
  BY <1>1, <1>2, <1>3, <1>6, <1>7, <1>8, <1>9

\* A row is refreshed after its value was read or written (_refresh_row).
LEMMA RefreshRowKeepsEdit ==
  ASSUME NEW u, Whole(u), NEW key, NEW o, NEW lane, NEW c
  PROVE  SameEdit(u, RefreshRow(u, key, o, lane, c))
<1> DEFINE now == RowsShown(u)[key].lane
           left == IF lane = now /\ now # 0 THEN u ELSE Behind(u, o)
           x == [left EXCEPT !.cells[key] = c[o][now]]
           r == RefreshRow(u, key, o, lane, c)
<1>1. SameEdit(u, u) /\ SameEdit(u, RefreshReg(u, o, c)) /\ SameEdit(u, Behind(u, o))
  BY RefreshesKeepEdit
<1>2. SameEdit(u, left)
  BY <1>1
<1>3. r \in {RefreshReg(u, o, c), Behind(u, o), left, x}
  BY Zenon DEF RefreshRow
<1> HIDE DEF left, r
<1>4. SameEdit(left, x)
  BY <1>2, SameEditWhole DEF SameEdit, Whole, UiFields, HistFields
<1>5. SameEdit(u, x)
  BY <1>2, <1>4, SameEditAgain
<1> HIDE DEF x
<1> QED
  BY <1>1, <1>2, <1>3, <1>5 DEF r

\* A table that is built anew.
LEMMA ShowRebuilds ==
  ASSUME NEW u, Whole(u), NEW v, NEW c
  PROVE  Rebuilt(u, Show(u, v, c)) /\ Rebuilt(u, Reshow(u, c))
<1>1. ASSUME NEW x PROVE Rebuilt(u, Show(u, x, c))
  BY DEF Rebuilt, Show, Whole, UiFields, HistFields
<1>2. ASSUME NEW w, Rebuilt(u, w), NEW k PROVE Rebuilt(u, [w EXCEPT !.cursor = k])
  BY <1>2 DEF Rebuilt, Whole, UiFields, HistFields
<1>3. Rebuilt(u, Reshow(u, c))
  BY <1>1, <1>2 DEF Reshow
<1> QED
  BY <1>1, <1>3

\* A node of the tree is selected (on_tree_node_selected).
LEMMA SelectedKeeps ==
  ASSUME NEW u, Whole(u), InputOK(u), NEW v, NEW c
  PROVE  Keeps(u, Selected(u, v, c).u)
<1> DEFINE s == [u EXCEPT !.highlighted = v]
           r == Selected(u, v, c)
<1>1. SameEdit(u, s)
  BY DEF SameEdit, Whole, UiFields, HistFields
<1>2. r.u = RestoreCursor(u, u.restore) \/ r.u = Show(s, v, c)
  <2>1. r = Done(RestoreCursor(u, u.restore), <<>>) \/ r = Done(Show(s, v, c), ShowJobs(v))
    BY Zenon DEF Selected
  <2> HIDE DEF s, r
  <2> QED
    BY <2>1, DoneFields
<1> HIDE DEF s, r
<1>3. Keeps(u, RestoreCursor(u, u.restore))
  BY RefreshesKeepEdit, SameEditKeeps
<1>4. InputOK(s) /\ Whole(s)
  BY <1>1, SameEditKeeps, SameEditWhole DEF Keeps
<1>5. Rebuilt(s, Show(s, v, c))
  BY <1>4, ShowRebuilds
<1>6. Rebuilt(u, Show(s, v, c))
  BY <1>1, <1>5 DEF Rebuilt, SameEdit
<1> QED
  BY <1>2, <1>3, <1>6, RebuiltKeeps DEF r

-----------------------------------------------------------------------------
\* The messages that wait.

\* A worker posts a message that selects a node, or none.
LEMMA WorkerMessage ==
  ASSUME NEW u, NEW w, NEW q, q \in Seq(Range(q)), OneKey(q), AwayOK(u, q), Keeps(u, w), NEW m,
         m.type = "select", ~ m.user
  PROVE  OneKey(q) /\ AwayOK(w, q) /\ OneKey(Append(q, m)) /\ AwayOK(w, Append(q, m))
<1> DEFINE r == Append(q, m)
<1>1. PICK n \in Nat : DOMAIN q = 1..n
  OBVIOUS
<1>2. /\ DOMAIN r = 1..(n + 1) /\ r[n + 1] = m
      /\ \A i \in 1..n : r[i] = q[i]
  BY <1>1
<1>3. AwayOK(w, q)
  BY DEF AwayOK, Keeps
<1> HIDE DEF r
<1>4. \A i \in 1..(n + 1) : i \in 1..n \/ i = n + 1
  OBVIOUS
<1>5. OneKey(r)
  BY <1>1, <1>2, <1>4 DEF OneKey
<1>6. AwayOK(w, r)
  <2>1. \A i \in DOMAIN r : r[i].type \in {"blur", "edit"} => w.focus # "input"
    BY <1>1, <1>2, <1>3, <1>4 DEF AwayOK
  <2>2. (\A i \in DOMAIN r : r[i].type # "blur") => \A i \in DOMAIN q : q[i].type # "blur"
    BY <1>1, <1>2
  <2> QED
    BY <1>3, <2>1, <2>2 DEF AwayOK
<1> QED
  BY <1>3, <1>5, <1>6 DEF r

\* No message of a key waits.
NoKey(q) == \A i \in DOMAIN q : ~ q[i].user

\* Without a key's message, an edit whose input has lost the focus is put away.
LEMMA NoKeyAway ==
  ASSUME NEW u, NEW q, OneKey(q), AwayOK(u, q), NoKey(q), u.focus \notin {"input", "closed"}
  PROVE  Away(u)
<1>1. \A i \in DOMAIN q : q[i].type = "select"
  BY DEF OneKey, NoKey
<1> QED
  BY <1>1 DEF AwayOK

\* A key posts a message, or none.
LEMMA KeyMessage ==
  ASSUME NEW w, NEW q, q \in Seq(Range(q)), OneKey(q), NoKey(q), NEW m,
         m.user \/ m.type = "select",
         m.type \in {"blur", "edit"} => w.focus # "input",
         m.type # "blur" /\ w.focus \notin {"input", "closed"} => Away(w)
  PROVE  OneKey(Append(q, m)) /\ AwayOK(w, Append(q, m))
<1> DEFINE r == Append(q, m)
<1>1. PICK n \in Nat : DOMAIN q = 1..n
  OBVIOUS
<1>2. /\ DOMAIN r = 1..(n + 1) /\ r[n + 1] = m
      /\ \A i \in 1..n : r[i] = q[i]
  BY <1>1
<1>3. \A i \in 1..n : q[i].type = "select" /\ ~ q[i].user
  BY <1>1 DEF OneKey, NoKey
<1> HIDE DEF r
<1>4. \A i \in 1..(n + 1) : i \in 1..n \/ i = n + 1
  OBVIOUS
<1>5. n + 1 \in DOMAIN r
  BY <1>2
<1>6. OneKey(r)
  BY <1>2, <1>3, <1>4 DEF OneKey
<1>7. AwayOK(w, r)
  BY <1>2, <1>3, <1>4, <1>5 DEF AwayOK
<1> QED
  BY <1>6, <1>7 DEF r

\* A step that posts no message leaves the queue as it should be.
LEMMA NoMessage ==
  ASSUME NEW w, NEW q, OneKey(q), NoKey(q), w.focus \notin {"input", "closed"} => Away(w)
  PROVE  AwayOK(w, q)
<1>1. \A i \in DOMAIN q : q[i].type = "select"
  BY DEF OneKey, NoKey
<1> QED
  BY <1>1 DEF AwayOK

\* The message that the app takes was the last of a key, or selects a node.
LEMMA TakenMessage ==
  ASSUME NEW u, NEW w, NEW q, q \in Seq(Range(q)), q # <<>>, OneKey(q), AwayOK(u, q),
         \/ Head(q).type = "select" /\ Keeps(u, w)
         \/ Head(q).user /\ (w.focus \notin {"input", "closed"} => Away(w))
  PROVE  OneKey(Tail(q)) /\ AwayOK(w, Tail(q))
<1> DEFINE t == Tail(q)
<1>1. PICK n \in Nat : DOMAIN q = 1..(n + 1)
  <2>1. Len(q) \in Nat /\ DOMAIN q = 1..Len(q) /\ Len(q) # 0
    BY EmptySeq, LenProperties
  <2>2. Len(q) - 1 \in Nat /\ Len(q) = (Len(q) - 1) + 1
    BY <2>1
  <2> QED
    BY <2>1, <2>2
<1>2. /\ DOMAIN t = 1..n /\ Head(q) = q[1]
      /\ \A i \in 1..n : t[i] = q[i + 1]
  BY <1>1
<1> HIDE DEF t
<1>3. \A i \in 1..n : i + 1 \in DOMAIN q /\ i + 1 # 1 /\ i \in Int
  BY <1>1
<1>4. 1 \in DOMAIN q
  BY <1>1
<1>5. OneKey(t)
  <2>1. ASSUME NEW i \in 1..n, NEW k \in 1..n, t[i].user, t[k].user PROVE i = k
    <3>1. i + 1 = k + 1
      BY <1>2, <1>3, <2>1 DEF OneKey
    <3> QED
      BY <3>1
  <2> QED
    BY <1>2, <1>3, <2>1 DEF OneKey
<1>6. CASE Head(q).user /\ (w.focus \notin {"input", "closed"} => Away(w))
  <2>1. NoKey(t)
    BY <1>2, <1>3, <1>4, <1>6 DEF NoKey, OneKey
  <2> QED
    BY <1>5, <1>6, <2>1, NoMessage DEF t
<1>7. CASE Head(q).type = "select" /\ Keeps(u, w)
  <2>1. \A i \in DOMAIN t : t[i].type \in {"blur", "edit"} => w.focus # "input"
    BY <1>2, <1>3, <1>7 DEF AwayOK, Keeps
  <2>2. ASSUME \A i \in DOMAIN t : t[i].type # "blur"
        PROVE  \A i \in DOMAIN q : q[i].type # "blur"
    <3> SUFFICES ASSUME NEW i \in 1..(n + 1) PROVE q[i].type # "blur"
      BY <1>1
    <3>1. CASE i = 1
      BY <1>2, <1>7, <3>1
    <3>2. CASE i # 1
      <4>1. i - 1 \in 1..n /\ (i - 1) + 1 = i
        BY <3>2
      <4>2. t[i - 1] = q[(i - 1) + 1]
        BY <1>2, <4>1
      <4> QED
        BY <1>2, <2>2, <4>1, <4>2
    <3> QED
      BY <3>1, <3>2
  <2>3. AwayOK(w, t)
    BY <1>7, <2>1, <2>2 DEF AwayOK, Keeps
  <2> QED
    BY <1>5, <2>3 DEF t
<1> QED
  BY <1>6, <1>7

\* What the app knows of the message it takes.
LEMMA HeadMessage ==
  ASSUME NEW u, NEW q, q \in Seq(Range(q)), q # <<>>, OneKey(q), AwayOK(u, q), u.focus # "closed"
  PROVE  LET m == Head(q)
         IN  /\ m.type # "select" => m.user
             /\ m.type \in {"blur", "edit"} => u.focus # "input"
             /\ m.type \notin {"select", "blur"} => (u.focus # "input" => Away(u))
<1>1. 1 \in DOMAIN q /\ Head(q) = q[1]
  <2>1. 1 \in DOMAIN q
    BY FirstElement
  <2>2. Head(q) = q[1]
    OBVIOUS
  <2> QED
    BY <2>1, <2>2
<1>2. ASSUME q[1].type \notin {"select", "blur"}
      PROVE  \A i \in DOMAIN q : q[i].type # "blur"
  <2> SUFFICES ASSUME NEW i \in DOMAIN q, q[i].type = "blur" PROVE FALSE
    OBVIOUS
  <2>1. q[i].user /\ q[1].user
    BY <1>1, <1>2 DEF OneKey
  <2>2. i = 1
    BY <1>1, <2>1 DEF OneKey
  <2> QED
    BY <1>2, <2>2
<1> QED
  BY <1>1, <1>2 DEF OneKey, AwayOK

-----------------------------------------------------------------------------
\* The jobs.

\* Jobs write what they mean exactly when each of them does.
LEMMA MeanElements ==
  ASSUME NEW J
  PROVE  JobsMean(J) <=> \A x : Has(J, x) => WritesMeant(x)
  BY DEF JobsMean, Has

\* Jobs that are started after others.
LEMMA JoinMean ==
  ASSUME NEW J, NEW K, JobsOK(J), JobsOK(K), JobsMean(J), JobsMean(K)
  PROVE  JobsMean(J \o K)
<1>1. \A x : Has(J \o K, x) <=> Has(J, x) \/ Has(K, x)
  BY JoinOf DEF JobsOK
<1> QED
  BY <1>1, MeanElements

\* A job at the end of the others.
LEMMA AppendMean ==
  ASSUME NEW J, NEW j, JobsOK(J), JobsMean(J), WritesMeant(j)
  PROVE  JobsMean(Append(J, j))
<1>1. \A x : Has(Append(J, j), x) <=> Has(J, x) \/ x = j
  BY AppendOf DEF JobsOK
<1> QED
  BY <1>1, MeanElements

\* A job that leaves the others.
LEMMA RemoveMean ==
  ASSUME NEW J, NEW i \in DOMAIN J, JobsOK(J), JobsMean(J)
  PROVE  JobsMean(RemoveAt(J, i))
<1>1. \A x : Has(RemoveAt(J, i), x) => Has(J, x)
  BY RemovalOf DEF JobsOK
<1> QED
  BY <1>1, MeanElements

\* A job that no edit has opened.
LEMMA JobMean ==
  ASSUME NEW op, NEW key, NEW o, NEW lane, NEW calls
  PROVE  /\ WritesMeant(Job(op, key, o, lane, calls))
         /\ JobsMean(<<Job(op, key, o, lane, calls)>>)
<1> DEFINE j == Job(op, key, o, lane, calls)
<1>1. WritesMeant(j)
  BY DEF WritesMeant, Job
<1> HIDE DEF j
<1>2. JobsMean(<<j>>)
  BY <1>1 DEF JobsMean
<1> QED
  BY <1>1, <1>2 DEF j

\* No job writes anything.
LEMMA NoJobMean == JobsMean(<<>>)
<1>1. DOMAIN <<>> = {}
  OBVIOUS
<1> QED
  BY <1>1 DEF JobsMean

\* The jobs that selecting a node starts write nothing.
LEMMA ShowJobsMean ==
  ASSUME NEW v
  PROVE  JobsMean(ShowJobs(v))
<1>1. CASE v \in Mem
  BY <1>1, JobMean DEF ShowJobs
<1>2. CASE v \notin Mem
  BY <1>2, NoJobMean DEF ShowJobs
<1> QED
  BY <1>1, <1>2

-----------------------------------------------------------------------------
\* The handlers of the editor.

\* What a handler leaves: the edit it opened, or nothing open.
HandlesEdit(r) ==
  /\ InputOK(r.u) /\ JobsMean(r.jobs)
  /\ r.u.focus \notin {"input", "closed"} => Away(r.u)

\* An edit that opens.
LEMMA OpenedFields ==
  ASSUME NEW u, Whole(u), NEW o, NEW lanes, NEW x, x = Opened(u, o, lanes)
  PROVE  /\ DOMAIN x = DOMAIN u /\ x.lane = u.lane /\ x.lanes = u.lanes /\ x.prompt = u.prompt
         /\ x.view = u.view /\ x.expand = u.expand /\ x.navReturn = u.navReturn
         /\ x.focus = "input" /\ ~ x.moved
         /\ x.meant.obj = o /\ x.meant.lanes = lanes
         /\ u.lane = <<>> => x.meant.cursor = u.cursor
         /\ u.lane # <<>> => x.meant.cursor = 0
  BY DEF Opened, Whole, UiFields, HistFields

\* All lanes of an object.
LEMMA LaneSeqRange ==
  ASSUME NEW o
  PROVE  Range(LaneSeq(o)) = LanesOf(o)
  BY DEF Range, LaneSeq

\* A lane of a memory or of a register is opened (_edit_mem_row and
\* _edit_cursor_row).
LEMMA LaneOpens ==
  ASSUME NEW u, Whole(u), InputOK(u), Away(u), NEW key \in DOMAIN RowsShown(u), NEW row,
         row.obj = RowsShown(u)[key].obj, row.lane # 0, NEW c
  PROVE  InputOK(OpenLane(u, key, row, c)) /\ OpenLane(u, key, row, c).focus = "input"
<1> DEFINE lane == <<key, row.lane>>
           s == [u EXCEPT !.lane = lane, !.text = ValueStr(row.obj, row.lane, u.bits, c)]
           x == OpenLane(u, key, row, c)
<1>1. x = Opened(s, row.obj, <<row.lane>>)
  BY DEF OpenLane
<1>2. lane # <<>> /\ lane[1] = key /\ lane[2] = row.lane
  OBVIOUS
<1> HIDE DEF lane
<1>3. /\ DOMAIN s = DOMAIN u /\ s.lane = lane /\ s.lanes = <<>> /\ ~ s.prompt
      /\ s.view = u.view /\ s.expand = u.expand /\ s.navReturn = u.navReturn
  BY DEF Whole, UiFields, HistFields, Away
<1> HIDE DEF s, x
<1>4. /\ DOMAIN x = DOMAIN u /\ x.lane = lane /\ x.lanes = <<>> /\ ~ x.prompt
      /\ x.view = u.view /\ x.expand = u.expand /\ x.navReturn = u.navReturn
      /\ x.focus = "input" /\ ~ x.moved
      /\ x.meant.obj = row.obj /\ x.meant.lanes = <<row.lane>> /\ x.meant.cursor = 0
  <2>1. Whole(s)
    BY <1>3 DEF Whole
  <2> QED
    BY <1>1, <1>2, <1>3, <2>1, OpenedFields
<1>5. RowsShown(x) = RowsShown(u)
  BY <1>4 DEF RowsShown
<1>6. Range(x.meant.lanes) = {x.lane[2]}
  BY <1>2, <1>4 DEF Range
<1>7. LaneEdit(x)
  BY <1>2, <1>4, <1>5, <1>6 DEF LaneEdit, Edits
<1>8. InputsOK(x)
  BY <1>4 DEF InputsOK, InputOK
<1> QED
  BY <1>4, <1>7, <1>8 DEF InputOK, MeantOK, x

\* All lanes of a memory.
LEMMA LanesOpen ==
  ASSUME NEW u, Whole(u), InputOK(u), Away(u), NEW key \in DOMAIN RowsShown(u),
         NEW o \in Object, o = RowsShown(u)[key].obj, NEW c
  PROVE  LET x == OpenVector([u EXCEPT !.lane = <<key, 0>>], o, c)
         IN  InputOK(x) /\ x.focus = "input"
<1> DEFINE lane == <<key, 0>>
           v == [u EXCEPT !.lane = lane]
           lanes == [i \in LanesOf(o) |-> ValueStr(o, i, v.bits, c)]
           s == [v EXCEPT !.lanes = lanes]
           x == OpenVector(v, o, c)
<1>1. x = Opened(s, o, LaneSeq(o))
  BY DEF OpenVector
<1>2. lane # <<>> /\ lane[1] = key /\ lane[2] = 0
  OBVIOUS
<1>0. lanes # <<>> /\ DOMAIN lanes = LanesOf(o)
  <2>1. DOMAIN lanes = LanesOf(o)
    OBVIOUS
  <2> HIDE DEF lanes
  <2>2. DOMAIN lanes # DOMAIN <<>>
    <3>1. PICK n \in Nat \ {0} : LanesOf(o) = 1..n
      BY LanesBound
    <3>2. 1 \in DOMAIN lanes /\ DOMAIN <<>> = {}
      BY <2>1, <3>1
    <3> QED
      BY <3>2
  <2> QED
    BY <2>1, <2>2
<1> HIDE DEF lane, lanes
<1>3. /\ DOMAIN s = DOMAIN u /\ s.lane = lane /\ s.lanes = lanes /\ ~ s.prompt
      /\ s.view = u.view /\ s.expand = u.expand /\ s.navReturn = u.navReturn
  BY DEF Whole, UiFields, HistFields, Away
<1> HIDE DEF s, x, v
<1>4. /\ DOMAIN x = DOMAIN u /\ x.lane = lane /\ x.lanes = lanes /\ ~ x.prompt
      /\ x.view = u.view /\ x.expand = u.expand /\ x.navReturn = u.navReturn
      /\ x.focus = "input" /\ ~ x.moved
      /\ x.meant.obj = o /\ x.meant.lanes = LaneSeq(o) /\ x.meant.cursor = 0
  <2>1. Whole(s)
    BY <1>3 DEF Whole
  <2> QED
    BY <1>1, <1>2, <1>3, <2>1, OpenedFields
<1>5. RowsShown(x) = RowsShown(u)
  BY <1>4 DEF RowsShown
<1>6. Range(x.meant.lanes) = DOMAIN x.lanes
  BY <1>0, <1>4, LaneSeqRange
<1>7. LanesEdit(x)
  BY <1>0, <1>2, <1>4, <1>5, <1>6 DEF LanesEdit, Edits
<1>8. InputsOK(x)
  BY <1>2, <1>4 DEF InputsOK, InputOK
<1>9. InputOK(x) /\ x.focus = "input"
  BY <1>4, <1>7, <1>8 DEF InputOK, MeantOK
<1> QED
  BY <1>9 DEF x, v, lane

\* A register, in the single input or in an input for each lane
\* (_open_value_input).
LEMMA ValueOpens ==
  ASSUME NEW u, Whole(u), InputOK(u), Away(u), u.cursor \in DOMAIN RowsShown(u),
         NEW o, o = RowsShown(u)[u.cursor].obj, NEW c
  PROVE  InputOK(OpenValue(u, o, c)) /\ OpenValue(u, o, c).focus = "input"
<1> DEFINE lanes == [i \in LanesOf(o) |-> ValueStr(o, i, u.bits, c)]
           s == [u EXCEPT !.lanes = lanes]
           t == [u EXCEPT !.text = ValueStr(o, 1, u.bits, c)]
           x == OpenValue(u, o, c)
<1>1. \/ x = Opened(s, o, LaneSeq(o))
      \/ x = Opened(t, o, LaneSeq(o))
  BY DEF OpenValue, OpenVector
<1>2. DOMAIN lanes = LanesOf(o)
  OBVIOUS
<1> HIDE DEF lanes
<1>3. ASSUME NEW y, y = s \/ y = t
      PROVE  /\ DOMAIN y = DOMAIN u /\ y.lane = <<>> /\ (y.lanes = lanes \/ y.lanes = <<>>) /\ ~ y.prompt
             /\ y.view = u.view /\ y.expand = u.expand /\ y.navReturn = u.navReturn
             /\ y.cursor = u.cursor
  BY <1>3 DEF Whole, UiFields, HistFields, Away
<1> HIDE DEF s, t, x
<1>4. PICK y : (y = s \/ y = t) /\ x = Opened(y, o, LaneSeq(o))
  BY <1>1
<1>5. /\ DOMAIN x = DOMAIN u /\ x.lane = <<>> /\ (x.lanes = lanes \/ x.lanes = <<>>) /\ ~ x.prompt
      /\ x.view = u.view /\ x.expand = u.expand /\ x.navReturn = u.navReturn
      /\ x.focus = "input" /\ ~ x.moved
      /\ x.meant.obj = o /\ x.meant.lanes = LaneSeq(o) /\ x.meant.cursor = u.cursor
  <2>1. Whole(y)
    BY <1>3, <1>4 DEF Whole
  <2> QED
    BY <1>3, <1>4, <2>1, OpenedFields
<1>6. RowsShown(x) = RowsShown(u)
  BY <1>5 DEF RowsShown
<1>7. Range(x.meant.lanes) = LanesOf(x.meant.obj)
  BY <1>5, LaneSeqRange
<1>8. OwnEdit(x)
  BY <1>2, <1>5, <1>6, <1>7 DEF OwnEdit, Edits
<1>9. InputsOK(x)
  BY <1>5 DEF InputsOK, InputOK
<1> QED
  BY <1>5, <1>8, <1>9 DEF InputOK, MeantOK, x

\* enter on a row (_edit_cursor_row).
LEMMA EditMeant ==
  ASSUME NEW u, OpenOK(u), InputOK(u), Away(u), NEW c
  PROVE  HandlesEdit(Edit(u, c))
<1>0. Whole(u)
  BY WholeOf
<1>1. CASE Empty(u)
  BY <1>1, NoJobMean, DoneFields DEF Edit, HandlesEdit
<1>2. CASE ~ Empty(u)
  <2> DEFINE row == CursorRow(u)
             w   == [u EXCEPT !.lanes = <<>>]
             key == u.cursor
  <2>0. Edit(u, c) = EditRow(w, key, row, c)
    BY <1>2 DEF Edit
  <2>1. IsRow(row) /\ row.obj \in Object
    BY <1>2, CursorRowIsRow DEF OpenOK
  <2>2. SameEdit(u, w) /\ w.cursor = key
    BY <1>0 DEF SameEdit, Away, Whole, UiFields, HistFields
  <2>3. key \in DOMAIN RowsShown(u) /\ row = RowsShown(u)[key]
    BY <1>2 DEF OpenOK, TableOK, CursorRow
  <2> HIDE DEF row, w, key
  <2>4. Whole(w) /\ InputOK(w) /\ Away(w) /\ key \in DOMAIN RowsShown(w) /\ row = RowsShown(w)[key]
    <3>1. RowsShown(w) = RowsShown(u)
      BY <2>2 DEF SameEdit, RowsShown
    <3> QED
      BY <1>0, <2>2, <2>3, <3>1, SameEditKeeps, SameEditWhole DEF Keeps
  <2> DEFINE r == EditRow(w, key, row, c)
             lanes == IF row.lane = 0 THEN LaneSeq(row.obj) ELSE <<row.lane>>
             zeros == Job("write", key, row.obj, row.lane, LaneZeros(lanes))
             zero  == Job("write", key, row.obj, 0, <<ZeroCall(row.obj)>>)
             lane  == OpenLane(w, key, row, c)
             all   == OpenVector([w EXCEPT !.lane = <<key, 0>>], row.obj, c)
             value == OpenValue(w, row.obj, c)
  <2>5. JobsMean(<<zeros>>) /\ JobsMean(<<zero>>)
    BY JobMean
  <2>6. \/ r = Done(w, <<>>)
        \/ row.kind = "lane" /\ r = Done(lane, <<>>)
        \/ r = Done(all, <<>>)
        \/ r = Done(value, <<>>)
        \/ r = Done(w, <<zeros>>)
        \/ r = Done(w, <<zero>>)
    BY Zenon DEF EditRow
  <2>7. row.kind = "lane" => InputOK(lane) /\ lane.focus = "input"
    <3>1. row.kind = "lane" => row.lane # 0
      BY <2>1 DEF IsRow
    <3> HIDE DEF lane
    <3> QED
      BY <2>4, <3>1, LaneOpens DEF lane
  <2>8. InputOK(all) /\ all.focus = "input"
    BY <2>1, <2>4, LanesOpen
  <2>9. InputOK(value) /\ value.focus = "input"
    BY <2>2, <2>4, ValueOpens
  <2> HIDE DEF r, zeros, zero, lane, all, value
  <2>10. r.u = w \/ (InputOK(r.u) /\ r.u.focus = "input")
    BY <2>6, <2>7, <2>8, <2>9, DoneFields
  <2>11. JobsMean(r.jobs)
    BY <2>5, <2>6, NoJobMean, DoneFields
  <2> QED
    BY <2>0, <2>4, <2>10, <2>11 DEF HandlesEdit, r
<1> QED
  BY <1>1, <1>2

\* The lanes that calls write.
LanesIn(calls) == UNION {DOMAIN calls[k] : k \in DOMAIN calls}

\* What a write of calls writes is what the edit was opened for.
WritesFor(u, o, calls) ==
  u.meant # None /\ ~ u.moved /\ u.meant.cursor \in {0, u.cursor} =>
    o = u.meant.obj /\ LanesIn(calls) = Range(u.meant.lanes)

\* A value goes out, and the edit is over.
LEMMA SentMeant ==
  ASSUME NEW w, Whole(w), InputsOK(w), Away(w), NEW key, NEW o, NEW lane, NEW calls,
         WritesFor(w, o, calls)
  PROVE  HandlesEdit(Sent(w, key, o, lane, calls))
<1> DEFINE x == [w EXCEPT !.focus = "table", !.meant = None]
           j == [Job("write", key, o, lane, calls) EXCEPT
                   !.meant = w.meant,
                   !.kept = ~ w.moved /\ w.meant.cursor \in {0, w.cursor}]
           r == Sent(w, key, o, lane, calls)
<1>1. r = Done(x, <<j>>)
  BY DEF Sent
<1>2. WritesMeant(j)
  <2>1. /\ DOMAIN j = DOMAIN Job("write", key, o, lane, calls)
        /\ j.op = "write" /\ j.obj = o /\ j.calls = calls /\ j.meant = w.meant
        /\ j.kept => ~ w.moved /\ w.meant.cursor \in {0, w.cursor}
    BY DEF Job
  <2>2. {"meant", "kept"} \subseteq DOMAIN j
    BY <2>1 DEF Job
  <2> HIDE DEF j
  <2>3. LanesWritten(j) = LanesIn(calls)
    BY <2>1 DEF LanesWritten, LanesIn
  <2> QED
    BY <2>1, <2>2, <2>3 DEF WritesMeant, WritesFor
<1>3. /\ DOMAIN x = DOMAIN w /\ x.lane = w.lane /\ x.lanes = w.lanes /\ x.prompt = w.prompt
      /\ x.navReturn = w.navReturn /\ x.meant = None
  BY DEF Whole, UiFields, HistFields
<1> HIDE DEF x, j, r
<1>4. InputOK(x) /\ Away(x)
  BY <1>3 DEF InputOK, InputsOK, MeantOK, Away
<1>5. JobsMean(<<j>>)
  BY <1>2 DEF JobsMean
<1> QED
  BY <1>1, <1>4, <1>5, DoneFields DEF HandlesEdit, r

\* An edit that stays as it is, in the input or put away.
LEMMA StaysMeant ==
  ASSUME NEW u, InputOK(u), u.focus \notin {"input", "closed"} => Away(u)
  PROVE  HandlesEdit(Done(u, <<>>))
  BY NoJobMean, DoneFields DEF HandlesEdit

\* The lanes of the calls of an edit of several lanes, and of one call.
LEMMA LanesOfTexts ==
  ASSUME NEW o, NEW texts, NEW s, s = LaneCalls(o, texts)
  PROVE  LanesIn(s) = DOMAIN texts
<1>1. DOMAIN s = DOMAIN texts /\ \A k \in DOMAIN texts : DOMAIN s[k] = {k}
  BY DEF LaneCalls
<1> QED
  BY <1>1 DEF LanesIn

\* A single call writes the lanes that it names.
LEMMA LanesOfCall ==
  ASSUME NEW call, NEW s, s = <<call>>
  PROVE  LanesIn(s) = DOMAIN call
<1>1. DOMAIN s = {1} /\ s[1] = call
  OBVIOUS
<1> QED
  BY <1>1 DEF LanesIn

\* The step prompt.
LEMMA StepMeant ==
  ASSUME NEW u, Whole(u), InputOK(u), u.prompt
  PROVE  HandlesEdit(SubmitStep(u))
<1> DEFINE x == [u EXCEPT !.prompt = FALSE, !.text = Blank, !.focus = IF Empty(u) THEN @ ELSE "table",
                          !.step = IF u.text.n >= 1 THEN u.text.n ELSE @]
<1>1. SubmitStep(u) = Done(x, <<>>)
  BY DEF SubmitStep
<1>2. /\ DOMAIN x = DOMAIN u /\ x.lane = u.lane /\ x.lanes = u.lanes /\ ~ x.prompt
      /\ x.meant = u.meant /\ x.moved = u.moved
      /\ x.view = u.view /\ x.expand = u.expand /\ x.navReturn = u.navReturn
  BY DEF Whole, UiFields, HistFields
<1> HIDE DEF x
<1>3. RowsShown(x) = RowsShown(u)
  BY <1>2 DEF RowsShown
<1>4. InputsOK(x)
  BY <1>2 DEF InputOK, InputsOK
<1>5. MeantOK(x)
  BY <1>2, <1>3 DEF InputOK, MeantOK, LaneEdit, LanesEdit, OwnEdit, Edits
<1>6. Away(x)
  BY <1>2 DEF Away, InputOK, InputsOK
<1> QED
  BY <1>1, <1>4, <1>5, <1>6, StaysMeant DEF InputOK

\* The lane inputs of a memory.
LEMMA LanesMeant ==
  ASSUME NEW u, Whole(u), InputOK(u), u.focus \notin {"input", "closed"} => Away(u),
         ~ u.prompt, u.lane # <<>>, u.lane[2] = 0
  PROVE  HandlesEdit(SubmitLanes(u, u.lane[1], RowsShown(u)[u.lane[1]].obj))
<1> DEFINE o == RowsShown(u)[u.lane[1]].obj
           key == u.lane[1]
           w == [u EXCEPT !.lane = <<>>]
           x == [u EXCEPT !.lane = <<>>, !.lanes = <<>>]
           calls == LaneCalls(o, u.lanes)
           r == SubmitLanes(u, key, o)
<1>1. \/ u.lanes = <<>> /\ r = Done(w, <<>>)
      \/ r = Done(u, <<>>)
      \/ u.lanes # <<>> /\ r = Sent(x, key, o, 0, calls)
  BY Zenon DEF SubmitLanes
<1>2. /\ DOMAIN w = DOMAIN u /\ w.lane = <<>> /\ w.lanes = u.lanes /\ ~ w.prompt
      /\ w.meant = u.meant /\ w.moved = u.moved /\ w.navReturn = u.navReturn /\ w.focus = u.focus
  BY DEF Whole, UiFields, HistFields
<1>3. /\ DOMAIN x = DOMAIN u /\ x.lane = <<>> /\ x.lanes = <<>> /\ ~ x.prompt
      /\ x.meant = u.meant /\ x.moved = u.moved /\ x.navReturn = u.navReturn
  BY DEF Whole, UiFields, HistFields
<1>4. LanesIn(calls) = DOMAIN u.lanes
  <2>1. calls = LaneCalls(o, u.lanes)
    OBVIOUS
  <2> HIDE DEF calls, o
  <2> QED
    BY <2>1, LanesOfTexts
<1> HIDE DEF w, x, calls, r
<1>5. u.lanes = <<>> => InputOK(w) /\ Away(w)
  BY <1>2 DEF InputOK, InputsOK, MeantOK, LaneEdit, LanesEdit, OwnEdit, Away
<1>6. WritesFor(x, o, calls)
  BY <1>3, <1>4 DEF WritesFor, InputOK, MeantOK, LaneEdit, LanesEdit, OwnEdit, Edits
<1>7. Whole(x) /\ InputsOK(x) /\ Away(x)
  BY <1>3 DEF Whole, InputOK, InputsOK, Away
<1> QED
  BY <1>1, <1>5, <1>6, <1>7, StaysMeant, SentMeant DEF r

\* A lane in the single input.
LEMMA LaneMeant ==
  ASSUME NEW u, Whole(u), InputOK(u), u.focus \notin {"input", "closed"} => Away(u),
         ~ u.prompt, u.lane # <<>>, u.lane[2] # 0
  PROVE  HandlesEdit(SubmitLane(u, u.lane[1], RowsShown(u)[u.lane[1]].obj, u.lane[2]))
<1> DEFINE o == RowsShown(u)[u.lane[1]].obj
           key == u.lane[1]
           lane == u.lane[2]
           x == [u EXCEPT !.lane = <<>>, !.text = Blank]
           call == [y \in {lane} |-> Put(u.text.n, IsRawWrite(o, Blank), u.text)]
           calls == <<call>>
           r == SubmitLane(u, key, o, lane)
<1>1. r = Done(u, <<>>) \/ r = Sent(x, key, o, lane, calls)
  BY Zenon DEF SubmitLane
<1>2. /\ DOMAIN x = DOMAIN u /\ x.lane = <<>> /\ x.lanes = u.lanes /\ ~ x.prompt
      /\ x.meant = u.meant /\ x.moved = u.moved /\ x.navReturn = u.navReturn
  BY DEF Whole, UiFields, HistFields
<1>3. LanesIn(calls) = {lane}
  <2>1. DOMAIN call = {lane}
    OBVIOUS
  <2> HIDE DEF call
  <2> QED
    BY <2>1, LanesOfCall
<1> HIDE DEF x, calls, r
<1>4. WritesFor(x, o, calls)
  BY <1>2, <1>3 DEF WritesFor, InputOK, MeantOK, LaneEdit, LanesEdit, OwnEdit, Edits
<1>5. Whole(x) /\ InputsOK(x) /\ Away(x)
  BY <1>2 DEF Whole, InputOK, InputsOK, Away
<1> QED
  BY <1>1, <1>4, <1>5, StaysMeant, SentMeant DEF r

\* The row the cursor is on.
LEMMA RowMeant ==
  ASSUME NEW u, Whole(u), InputOK(u), u.focus \notin {"input", "closed"} => Away(u),
         ~ u.prompt, u.lane = <<>>, RowsShown(u) \in Seq(RowSet)
  PROVE  HandlesEdit(SubmitRow(u, CursorRow(u)))
<1> DEFINE row == CursorRow(u)
           w == [u EXCEPT !.lanes = <<>>]
           x == [u EXCEPT !.text = Blank]
           y == [u EXCEPT !.text = Blank, !.focus = "table", !.meant = None]
           lanes == LaneCalls(row.obj, u.lanes)
           call == ScalarCall(row.obj, u.text)
           all == <<call>>
           r == SubmitRow(u, row)
<1>1. \/ r = Done(u, <<>>)
      \/ u.lanes = <<>> /\ r = Done(y, <<>>)
      \/ u.lanes # <<>> /\ r = Sent(w, u.cursor, row.obj, 0, lanes)
      \/ u.lanes = <<>> /\ r = Sent(x, u.cursor, row.obj, 0, all)
  BY Zenon DEF SubmitRow
<1>2. /\ DOMAIN w = DOMAIN u /\ w.lane = <<>> /\ w.lanes = <<>> /\ ~ w.prompt
      /\ w.meant = u.meant /\ w.moved = u.moved /\ w.navReturn = u.navReturn /\ w.cursor = u.cursor
  BY DEF Whole, UiFields, HistFields
<1>3. /\ DOMAIN x = DOMAIN u /\ x.lane = <<>> /\ x.lanes = u.lanes /\ ~ x.prompt
      /\ x.meant = u.meant /\ x.moved = u.moved /\ x.navReturn = u.navReturn /\ x.cursor = u.cursor
  BY DEF Whole, UiFields, HistFields
<1>4. /\ DOMAIN y = DOMAIN u /\ y.lane = <<>> /\ y.lanes = u.lanes /\ ~ y.prompt
      /\ y.meant = None /\ y.navReturn = u.navReturn
  BY DEF Whole, UiFields, HistFields
<1>5. LanesIn(lanes) = DOMAIN u.lanes
  <2>1. lanes = LaneCalls(row.obj, u.lanes)
    OBVIOUS
  <2> HIDE DEF lanes, row
  <2> QED
    BY <2>1, LanesOfTexts
<1>6. LanesIn(all) = LanesOf(row.obj)
  <2>1. DOMAIN call = LanesOf(row.obj)
    BY DEF ScalarCall
  <2> HIDE DEF call
  <2> QED
    BY <2>1, LanesOfCall
<1> HIDE DEF w, x, y, lanes, all, r
<1>7. u.meant # None /\ ~ u.moved /\ u.meant.cursor \in {0, u.cursor} =>
        /\ row.obj = u.meant.obj /\ Range(u.meant.lanes) = LanesOf(row.obj)
        /\ u.lanes # <<>> => DOMAIN u.lanes = LanesOf(row.obj)
  <2> SUFFICES ASSUME u.meant # None, ~ u.moved, u.meant.cursor \in {0, u.cursor}
               PROVE  /\ row.obj = u.meant.obj /\ Range(u.meant.lanes) = LanesOf(row.obj)
                      /\ u.lanes # <<>> => DOMAIN u.lanes = LanesOf(row.obj)
    OBVIOUS
  <2>1. OwnEdit(u)
    BY DEF InputOK, MeantOK, LaneEdit, LanesEdit
  <2>2. u.meant.cursor \in DOMAIN RowsShown(u) /\ RowsShown(u)[u.meant.cursor].obj = u.meant.obj
    BY <2>1 DEF OwnEdit, Edits
  <2>3. 0 \notin DOMAIN RowsShown(u)
    OBVIOUS
  <2>4. u.meant.cursor = u.cursor
    BY <2>2, <2>3
  <2> QED
    BY <2>1, <2>2, <2>4 DEF OwnEdit, CursorRow
<1> HIDE DEF row
<1>8. u.lanes # <<>> => WritesFor(w, row.obj, lanes)
  BY <1>2, <1>5, <1>7 DEF WritesFor
<1>9. WritesFor(x, row.obj, all)
  BY <1>3, <1>6, <1>7 DEF WritesFor
<1>10. Whole(w) /\ InputsOK(w) /\ Away(w)
  BY <1>2 DEF Whole, InputOK, InputsOK, Away
<1>11. u.lanes = <<>> => Whole(x) /\ InputsOK(x) /\ Away(x)
  BY <1>3 DEF Whole, InputOK, InputsOK, Away
<1>12. u.lanes = <<>> => InputOK(y) /\ Away(y)
  BY <1>4 DEF InputOK, InputsOK, MeantOK, Away
<1> QED
  BY <1>1, <1>8, <1>9, <1>10, <1>11, <1>12, StaysMeant, SentMeant DEF r, row

\* enter in the input line (on_input_submitted).
LEMMA SubmitMeant ==
  ASSUME NEW u, OpenOK(u), InputOK(u), u.focus \notin {"input", "closed"} => Away(u)
  PROVE  HandlesEdit(Submit(u))
<1>1. Whole(u)
  BY WholeOf
<1>2. RowsShown(u) \in Seq(RowSet)
  BY RowsSeq DEF RowsShown, OpenOK, TableOK
<1> DEFINE o == RowsShown(u)[u.lane[1]].obj
<1>3. \/ u.prompt /\ Submit(u) = SubmitStep(u)
      \/ Submit(u) = Done(u, <<>>)
      \/ ~ u.prompt /\ u.lane # <<>> /\ u.lane[2] = 0 /\ Submit(u) = SubmitLanes(u, u.lane[1], o)
      \/ ~ u.prompt /\ u.lane # <<>> /\ u.lane[2] # 0 /\ Submit(u) = SubmitLane(u, u.lane[1], o, u.lane[2])
      \/ ~ u.prompt /\ u.lane = <<>> /\ Submit(u) = SubmitRow(u, CursorRow(u))
  <2>1. CASE u.prompt
    BY <2>1, Zenon DEF Submit
  <2>2. CASE ~ u.prompt /\ Empty(u)
    BY <2>2, Zenon DEF Submit
  <2>3. CASE ~ u.prompt /\ ~ Empty(u) /\ u.lane # <<>>
    BY <2>3, Zenon DEF Submit
  <2>4. CASE ~ u.prompt /\ ~ Empty(u) /\ u.lane = <<>>
    BY <2>4, Zenon DEF Submit
  <2> QED
    BY <2>1, <2>2, <2>3, <2>4
<1> HIDE DEF o
<1> QED
  BY <1>1, <1>2, <1>3, StepMeant, StaysMeant, LanesMeant, LaneMeant, RowMeant DEF o

\* _end_value_edit puts everything away.
LEMMA EndEditMeant ==
  ASSUME NEW u, Whole(u), InputOK(u)
  PROVE  /\ HandlesEdit(Done(EndEdit(u), <<>>))
         /\ HandlesEdit(Done([EndEdit(u) EXCEPT !.focus = "table"], <<>>))
<1> DEFINE x == EndEdit(u)
           y == [EndEdit(u) EXCEPT !.focus = "table"]
           Put0(w) == /\ DOMAIN w = DOMAIN u /\ w.lane = <<>> /\ w.lanes = <<>> /\ ~ w.prompt
                      /\ w.meant = None /\ w.navReturn = u.navReturn
<1>1. Put0(x) /\ Put0(y)
  BY DEF EndEdit, Whole, UiFields, HistFields
<1> HIDE DEF x, y
<1>2. \A w : Put0(w) => InputOK(w) /\ Away(w)
  BY DEF InputOK, InputsOK, MeantOK, Away
<1> QED
  BY <1>1, <1>2, StaysMeant DEF x, y

\* _abandon_value_edit, once the focus has left the input.
LEMMA AbandonMeant ==
  ASSUME NEW u, Whole(u), InputOK(u), u.focus # "input"
  PROVE  HandlesEdit(Done(Abandon(u), <<>>))
<1>1. CASE u.lanes = <<>> /\ u.lane = <<>> /\ ~ u.prompt /\ u.text = Blank
  BY <1>1, StaysMeant DEF Abandon, Away
<1>2. CASE ~ (u.lanes = <<>> /\ u.lane = <<>> /\ ~ u.prompt /\ u.text = Blank)
  BY <1>2, EndEditMeant DEF Abandon
<1> QED
  BY <1>1, <1>2

-----------------------------------------------------------------------------
\* The keys and clicks.

\* What the invariant asks of the state after a step.
After ==
  InputOK(ui') /\ OneKey(inbox') /\ AwayOK(ui', inbox') /\ JobsMean(jobs')

\* What a step leaves is the invariant after it.
LEMMA AfterHolds ==
  ASSUME After
  PROVE  MeantInv'
<1>1. InputOK(ui)' /\ JobsMean(jobs)'
  BY DEF After, InputOK, InputsOK, MeantOK, LaneEdit, LanesEdit, OwnEdit, Edits, RowsShown,
         JobsMean, WritesMeant, LanesWritten
<1>2. OneKey(inbox)' /\ AwayOK(ui, inbox)'
  BY DEF After, OneKey, AwayOK, Away
<1> QED
  BY <1>1, <1>2 DEF MeantInv

\* The widgets are as they should be, and no key's message waits.
NoKeyWaits ==
  /\ OpenOK(ui) /\ Whole(ui) /\ InputOK(ui) /\ OneKey(inbox) /\ AwayOK(ui, inbox) /\ NoKey(inbox)
  /\ inbox \in Seq(Range(inbox)) /\ JobsOK(jobs) /\ JobsMean(jobs)

\* A key finds no message of an earlier key.
LEMMA KeyIdle ==
  ASSUME EditInv, MeantInv, OpenOK(ui), NEW n, Spend(n)
  PROVE  NoKeyWaits /\ (ui.focus # "input" => Away(ui))
<1>1. NoKey(inbox)
  BY DEF Spend, NoKey
<1>2. Whole(ui)
  BY WholeOf DEF MeantInv
<1>3. NoKeyWaits
  BY <1>1, <1>2 DEF NoKeyWaits, MeantInv, EditInv, InboxOK
<1>4. ui.focus # "input" => Away(ui)
  BY <1>3, NoKeyAway DEF NoKeyWaits, OpenOK
<1> QED
  BY <1>3, <1>4

\* What a key leaves.
LEMMA KeyAfter ==
  ASSUME NoKeyWaits, InputOK(ui'), JobsMean(jobs'),
         \/ inbox' = inbox /\ (ui'.focus # "input" => Away(ui'))
         \/ \E m : /\ inbox' = Append(inbox, m)
                   /\ m.user \/ m.type = "select"
                   /\ m.type \in {"blur", "edit"} => ui'.focus # "input"
                   /\ m.type # "blur" /\ ui'.focus # "input" => Away(ui')
  PROVE  After
<1>1. CASE inbox' = inbox /\ (ui'.focus # "input" => Away(ui'))
  <2>1. AwayOK(ui', inbox)
    BY <1>1, NoMessage DEF NoKeyWaits
  <2> QED
    BY <1>1, <2>1 DEF After, NoKeyWaits
<1>2. CASE \E m : /\ inbox' = Append(inbox, m)
                  /\ m.user \/ m.type = "select"
                  /\ m.type \in {"blur", "edit"} => ui'.focus # "input"
                  /\ m.type # "blur" /\ ui'.focus # "input" => Away(ui')
  <2>1. PICK m : /\ inbox' = Append(inbox, m)
                 /\ m.user \/ m.type = "select"
                 /\ m.type \in {"blur", "edit"} => ui'.focus # "input"
                 /\ m.type # "blur" /\ ui'.focus # "input" => Away(ui')
    BY <1>2
  <2>2. OneKey(Append(inbox, m)) /\ AwayOK(ui', Append(inbox, m))
    BY <2>1, KeyMessage DEF NoKeyWaits
  <2> QED
    BY <2>1, <2>2 DEF After
<1> QED
  BY <1>1, <1>2

\* From u to w the input line stays as it is, and the focus may leave it.
SameInput(u, w) ==
  /\ DOMAIN w = DOMAIN u
  /\ w.lane = u.lane /\ w.lanes = u.lanes /\ w.prompt = u.prompt
  /\ w.meant = u.meant /\ w.moved = u.moved
  /\ w.view = u.view /\ w.expand = u.expand
  /\ w.navReturn # "input"

\* An input line that stays as it is stays one of its edit.
LEMMA SameInputOK ==
  ASSUME NEW u, NEW w, InputOK(u), SameInput(u, w)
  PROVE  InputOK(w) /\ (Away(u) => Away(w))
<1>1. RowsShown(w) = RowsShown(u)
  BY DEF SameInput, RowsShown
<1>2. InputsOK(w)
  BY DEF InputOK, InputsOK, SameInput
<1>3. MeantOK(w)
  BY <1>1 DEF InputOK, MeantOK, SameInput, LaneEdit, LanesEdit, OwnEdit, Edits
<1> QED
  BY <1>2, <1>3 DEF InputOK, Away, SameInput

\* The messages that a key posts.
LEMMA PostedFields ==
  /\ \A type : Posted(type).type = type /\ Posted(type).user
  /\ \A v : Select(v, TRUE).type = "select" /\ Select(v, TRUE).user
  /\ \A v : Select(v, FALSE).type = "select" /\ ~ Select(v, FALSE).user
  BY DEF Posted, Select

\* tab, a click, '1', '2' and the cursor keys of the table: a value input
\* that loses the focus is put away by its message (on_descendant_blur).
LEMMA LeaveMeant ==
  ASSUME EditInv, MeantInv, OpenOK(ui), NEW w, Leaves(w), SameInput(ui, w),
         ui.focus = "input" => w.focus # "input"
  PROVE  After
<1>1. NoKeyWaits /\ (ui.focus # "input" => Away(ui))
  BY KeyIdle DEF Leaves, Press
<1>2. InputOK(w) /\ (Away(ui) => Away(w))
  BY <1>1, SameInputOK DEF NoKeyWaits
<1>3. ui' = w /\ jobs' = jobs
  BY DEF Leaves
<1>4. CASE ui.focus = "input"
  <2>1. inbox' = Append(inbox, Posted("blur"))
    BY <1>4 DEF Leaves
  <2> QED
    BY <1>1, <1>2, <1>3, <1>4, <2>1, PostedFields, KeyAfter DEF NoKeyWaits
<1>5. CASE ui.focus # "input"
  <2>1. inbox' = inbox
    BY <1>5 DEF Leaves
  <2> QED
    BY <1>1, <1>2, <1>3, <1>5, <2>1, KeyAfter DEF NoKeyWaits
<1> QED
  BY <1>4, <1>5

\* tab, a click in a view, '1' and '2'.
LEMMA FocusMeant ==
  ASSUME EditInv, MeantInv, OpenOK(ui), NEW w, FocusOn(w)
  PROVE  After
<1>1. InputOK(ui) /\ Whole(ui)
  BY WholeOf DEF MeantInv
<1> DEFINE x == [ui EXCEPT !.focus = w]
<1>2. SameInput(ui, x) /\ x.focus = w
  BY <1>1 DEF SameInput, Whole, UiFields, HistFields, InputOK, InputsOK
<1>3. Leaves(x) /\ w # ui.focus
  BY DEF FocusOn
<1> HIDE DEF x
<1> QED
  BY <1>2, <1>3, LeaveMeant

\* The cursor keys of the table and a click on a row.
LEMMA MoveMeant ==
  ASSUME EditInv, MeantInv, OpenOK(ui), NEW k, MoveCursor(k)
  PROVE  After
<1>1. InputOK(ui) /\ Whole(ui)
  BY WholeOf DEF MeantInv
<1> DEFINE x == [ui EXCEPT !.cursor = k, !.focus = "table"]
<1>2. SameInput(ui, x) /\ x.focus = "table"
  BY <1>1 DEF SameInput, Whole, UiFields, HistFields, InputOK, InputsOK
<1>3. Leaves(x)
  BY DEF MoveCursor
<1> HIDE DEF x
<1> QED
  BY <1>2, <1>3, LeaveMeant

\* The keys that post a message and leave the rest to it.
LEMMA PostMeant ==
  ASSUME EditInv, MeantInv, OpenOK(ui),
         (\E v \in View : SelectNode(v)) \/ EnterRow \/ EnterText \/ Escape
  PROVE  After
<1>1. NoKeyWaits /\ (ui.focus # "input" => Away(ui))
  BY KeyIdle DEF SelectNode, EnterRow, EnterText, Escape, Posts, Press, Work
<1>2. UNCHANGED <<ui, jobs>>
  BY DEF SelectNode, EnterRow, EnterText, Escape, Posts
<1>3. \E m : /\ inbox' = Append(inbox, m)
             /\ m.user
             /\ m.type \in {"select", "submit", "cancel"} \/ (m.type = "edit" /\ ui.focus # "input")
  <2>1. CASE \E v \in View : SelectNode(v)
    <3>1. PICK v \in View : inbox' = Append(inbox, Select(v, TRUE))
      BY <2>1 DEF SelectNode
    <3> QED
      BY <3>1, PostedFields
  <2>2. CASE EnterRow
    BY <2>2, PostedFields DEF EnterRow, Posts
  <2>3. CASE EnterText
    BY <2>3, PostedFields DEF EnterText, Posts
  <2>4. CASE Escape
    BY <2>4, PostedFields DEF Escape, Posts
  <2> QED
    BY <2>1, <2>2, <2>3, <2>4
<1> QED
  BY <1>1, <1>2, <1>3, KeyAfter DEF NoKeyWaits

\* A text is typed.
LEMMA TypeMeant ==
  ASSUME EditInv, MeantInv, OpenOK(ui), NEW t, Type(t)
  PROVE  After
<1>1. NoKeyWaits
  BY KeyIdle DEF Type, Turns, Press
<1>2. inbox' = inbox /\ jobs' = jobs
  BY DEF Type, Turns
<1>3. CASE ui.lanes = <<>>
  <2> DEFINE w == [ui EXCEPT !.text = t]
  <2>1. ui' = w /\ ui.focus = "input"
    BY <1>3 DEF Type, Turns
  <2>2. SameInput(ui, w) /\ w.focus = ui.focus
    BY <1>1 DEF SameInput, NoKeyWaits, Whole, UiFields, HistFields, InputOK, InputsOK
  <2> HIDE DEF w
  <2> QED
    BY <1>1, <1>2, <2>1, <2>2, SameInputOK, KeyAfter DEF NoKeyWaits
<1>4. CASE ui.lanes # <<>>
  <2>1. PICK i \in DOMAIN ui.lanes : ui' = [ui EXCEPT !.lanes[i] = t]
    BY <1>4 DEF Type, Turns
  <2>2. ui.focus = "input"
    BY DEF Type
  <2> DEFINE w == [ui EXCEPT !.lanes[i] = t]
  <2>3. /\ DOMAIN w = DOMAIN ui /\ w.lane = ui.lane /\ DOMAIN w.lanes = DOMAIN ui.lanes
        /\ w.prompt = ui.prompt /\ w.meant = ui.meant /\ w.moved = ui.moved
        /\ w.view = ui.view /\ w.expand = ui.expand /\ w.navReturn = ui.navReturn /\ w.focus = ui.focus
    BY <1>1 DEF NoKeyWaits, Whole, UiFields, HistFields
  <2> HIDE DEF w
  <2>4. w.lanes # <<>>
    <3>1. i \in DOMAIN w.lanes /\ DOMAIN <<>> = {}
      BY <2>3
    <3> QED
      BY <3>1
  <2>5. RowsShown(w) = RowsShown(ui)
    BY <2>3 DEF RowsShown
  <2>6. InputsOK(w)
    BY <1>1, <1>4, <2>3 DEF NoKeyWaits, InputOK, InputsOK
  <2>7. MeantOK(w)
    BY <1>1, <1>4, <2>3, <2>4, <2>5 DEF NoKeyWaits, InputOK, MeantOK, LaneEdit, LanesEdit, OwnEdit, Edits
  <2>8. InputOK(ui') /\ ui'.focus = "input"
    BY <2>1, <2>2, <2>3, <2>6, <2>7 DEF InputOK, w
  <2> QED
    BY <1>1, <1>2, <2>8, KeyAfter DEF NoKeyWaits
<1> QED
  BY <1>3, <1>4

\* 's'.
LEMMA StepValueMeant ==
  ASSUME EditInv, MeantInv, OpenOK(ui), SetStepValue
  PROVE  After
<1>1. NoKeyWaits /\ Away(ui)
  BY KeyIdle DEF SetStepValue, Turns, Press, AtKeys
<1>2. inbox' = inbox /\ jobs' = jobs
  BY DEF SetStepValue, Turns
<1> DEFINE w == [ui EXCEPT !.prompt = TRUE, !.text = [hex |-> FALSE, n |-> ui.step], !.focus = "input",
                           !.meant = None]
<1>3. ui' = w
  BY DEF SetStepValue, Turns
<1>4. /\ DOMAIN w = DOMAIN ui /\ w.lane = <<>> /\ w.lanes = <<>> /\ w.meant = None
      /\ w.navReturn = ui.navReturn /\ w.focus = "input"
  BY <1>1 DEF NoKeyWaits, Whole, UiFields, HistFields, Away
<1> HIDE DEF w
<1>5. InputOK(w)
  BY <1>1, <1>4 DEF NoKeyWaits, InputOK, InputsOK, MeantOK
<1> QED
  BY <1>1, <1>2, <1>3, <1>4, <1>5, KeyAfter DEF NoKeyWaits

\* A key of the log.
LEMMA TurnMeant ==
  ASSUME EditInv, MeantInv, OpenOK(ui), NEW w, Turns(w), ui.focus # "input", SameInput(ui, w)
  PROVE  After
<1>1. NoKeyWaits /\ Away(ui)
  BY KeyIdle DEF Turns, Press
<1>2. inbox' = inbox /\ jobs' = jobs /\ ui' = w
  BY DEF Turns
<1>3. InputOK(w) /\ Away(w)
  BY <1>1, SameInputOK DEF NoKeyWaits
<1> QED
  BY <1>1, <1>2, <1>3, KeyAfter DEF NoKeyWaits

\* The keys of the log.
LEMMA LogMeant ==
  ASSUME EditInv, MeantInv, OpenOK(ui),
         LogCursor \/ (\E d \in {1, -1} : LogCursorMove(d)) \/ ClearLog
  PROVE  After
<1>0. InputOK(ui) /\ Whole(ui)
  BY WholeOf DEF MeantInv
<1>1. ui.focus # "input"
  BY DEF LogCursor, LogCursorMove, ClearLog, AtKeys, InLog
<1>2. SameInput(ui, LogCursorExit(ui)) /\ SameInput(ui, ui)
  BY <1>0 DEF SameInput, LogCursorExit, Whole, UiFields, HistFields, InputOK, InputsOK
<1>3. CASE LogCursor /\ ui.nav
  BY <1>1, <1>2, <1>3, TurnMeant DEF LogCursor
<1>4. CASE LogCursor /\ ~ ui.nav
  <2> DEFINE w == [ui EXCEPT !.nav = TRUE, !.navIdx = Len(ui.log), !.navReturn = ui.focus, !.focus = "log"]
  <2>1. SameInput(ui, w)
    BY <1>0, <1>1 DEF SameInput, Whole, UiFields, HistFields
  <2>2. Turns(w)
    BY <1>4 DEF LogCursor
  <2> QED
    BY <1>1, <2>1, <2>2, TurnMeant
<1>5. ASSUME NEW d, LogCursorMove(d) PROVE After
  <2> DEFINE w == [ui EXCEPT !.navIdx = @ + d]
  <2>1. SameInput(ui, w)
    BY <1>0 DEF SameInput, Whole, UiFields, HistFields, InputOK, InputsOK
  <2>2. Turns(w)
    BY <1>5 DEF LogCursorMove
  <2> QED
    BY <1>1, <2>1, <2>2, TurnMeant
<1>6. CASE ClearLog
  <2> DEFINE s == IF ui.nav THEN LogCursorExit(ui) ELSE ui
             w == [s EXCEPT !.log = <<>>, !.navIdx = 0]
  <2>1. SameInput(ui, s)
    BY <1>2
  <2>2. Turns(w)
    BY <1>6 DEF ClearLog
  <2> HIDE DEF s
  <2>3. SameInput(ui, w)
    BY <1>0, <2>1 DEF SameInput, Whole, UiFields, HistFields
  <2> QED
    BY <1>1, <2>2, <2>3, TurnMeant
<1> QED
  BY <1>3, <1>4, <1>5, <1>6

\* 'x' and 'e'.
LEMMA ToggleMeant ==
  ASSUME EditInv, MeantInv, OpenOK(ui), ToggleValueBits \/ ToggleExpandVec
  PROVE  After
<1> DEFINE x == [ui EXCEPT !.bits = ~ @]
           y == [ui EXCEPT !.expand = ~ @]
<1>1. PICK u : (u = x \/ u = y) /\ Toggle(u)
  BY DEF ToggleValueBits, ToggleExpandVec
<1>2. NoKeyWaits /\ Away(ui)
  BY <1>1, KeyIdle DEF Toggle, Work, AtKeys
<1>3. /\ DOMAIN u = DOMAIN ui /\ u.lane = ui.lane /\ u.lanes = ui.lanes /\ u.prompt = ui.prompt
      /\ u.focus = ui.focus /\ u.navReturn = ui.navReturn
  BY <1>1, <1>2 DEF NoKeyWaits, Whole, UiFields, HistFields
<1> HIDE DEF x, y
<1>4. Rebuilt(u, Reshow(u, cache))
  BY <1>2, <1>3, ShowRebuilds DEF NoKeyWaits, Whole
<1>5. Rebuilt(ui, Reshow(u, cache))
  BY <1>3, <1>4 DEF Rebuilt
<1>6. Keeps(ui, ui')
  BY <1>1, <1>2, <1>5, RebuiltKeeps DEF Toggle, NoKeyWaits
<1>7. JobsMean(jobs')
  <2>1. u.view \in View
    BY <1>1, <1>2 DEF x, y, NoKeyWaits, Whole, UiFields, OpenOK, TableOK
  <2>2. jobs' = jobs \o ShowJobs(u.view)
    BY <1>1 DEF Toggle
  <2> QED
    BY <1>2, <2>1, <2>2, ShowJobsOK, ShowJobsMean, JoinMean DEF NoKeyWaits
<1>8. inbox' = inbox
  BY <1>1 DEF Toggle
<1> QED
  BY <1>2, <1>6, <1>7, <1>8, KeyAfter DEF Keeps

\* A key that starts a job.
LEMMA StartMeant ==
  ASSUME EditInv, MeantInv, OpenOK(ui), NEW j, Starts(j), WritesMeant(j)
  PROVE  After
<1>1. NoKeyWaits /\ (ui.focus # "input" => Away(ui))
  BY KeyIdle DEF Starts, Work
<1>2. UNCHANGED <<ui, inbox>> /\ jobs' = Append(jobs, j)
  BY DEF Starts
<1>3. JobsMean(jobs')
  BY <1>1, <1>2, AppendMean DEF NoKeyWaits
<1> QED
  BY <1>1, <1>2, <1>3, KeyAfter DEF NoKeyWaits

\* 'r' in the table and in the tree, and 'a'.
LEMMA StartKeysMeant ==
  ASSUME EditInv, MeantInv, OpenOK(ui),
         (\E sign \in {1, -1} : StepSelected(sign)) \/ ReadSelectedRow \/ \E v \in View : ReadSelectedModule(v)
  PROVE  After
<1>1. ASSUME NEW sign, StepSelected(sign) PROVE After
  <2> DEFINE row == CursorRow(ui)
             j0  == Job("step", ui.cursor, row.obj, row.lane, <<>>)
             j   == [j0 EXCEPT !.delta = sign * ui.step]
  <2>1. Starts(j)
    BY <1>1 DEF StepSelected
  <2>2. WritesMeant(j)
    BY DEF WritesMeant, Job
  <2> QED
    BY <2>1, <2>2, StartMeant
<1>2. CASE ReadSelectedRow
  BY <1>2, JobMean, StartMeant DEF ReadSelectedRow
<1>3. ASSUME NEW v, ReadSelectedModule(v) PROVE After
  BY <1>3, JobMean, StartMeant DEF ReadSelectedModule
<1> QED
  BY <1>1, <1>2, <1>3

\* enter in the log and 'm' (_show_asset).
LEMMA AssetMeant ==
  ASSUME EditInv, MeantInv, OpenOK(ui), NEW u, SameInput(ui, u), u.focus # "input", ui.focus # "input",
         NEW a, Asset(u, a)
  PROVE  After
<1> DEFINE v == IF a.obj \in Mem THEN a.obj ELSE HomeOf(a.obj)
           there == IF u.view = v THEN u ELSE Show(u, v, cache)
           key == CHOOSE k \in KeysOf(there, a.obj) :
                    /\ RowsShown(there)[k].kind \in {"own", "mem", "flag"}
                    /\ RowsShown(there)[k].lane = a.lane
           moved == [there EXCEPT !.highlighted = v, !.restore = key, !.cursor = key]
           add == IF ui.view = v THEN <<>> ELSE ShowJobs(v)
<1>1. NoKeyWaits /\ Away(ui)
  BY KeyIdle DEF Asset, Work
<1>2. InputOK(u) /\ Away(u) /\ Whole(u)
  BY <1>1, SameInputOK DEF NoKeyWaits, SameInput, Whole
<1>3. ui' = there \/ ui' = moved
  BY DEF Asset, ShowAsset
<1>4. jobs' = jobs \o add
  BY DEF Asset
<1>5. inbox' = Append(inbox, Select(v, FALSE))
  BY DEF Asset
<1> HIDE DEF v, key
<1>6. SameEdit(u, there) \/ Rebuilt(u, there)
  BY <1>2, ShowRebuilds, RefreshesKeepEdit
<1> HIDE DEF there
<1>7. Keeps(u, there) /\ DOMAIN there = DOMAIN u
  BY <1>2, <1>6, SameEditKeeps, RebuiltKeeps DEF SameEdit, Rebuilt
<1>8. SameEdit(there, moved)
  BY <1>2, <1>7 DEF SameEdit, Whole, UiFields, HistFields
<1> HIDE DEF moved
<1>9. Keeps(there, moved)
  BY <1>7, <1>8, SameEditKeeps DEF Keeps
<1>10. InputOK(ui') /\ Away(ui') /\ ui'.focus # "input"
  BY <1>2, <1>3, <1>7, <1>9 DEF Keeps
<1>11. JobsOK(add) /\ JobsMean(add)
  <2>1. add = <<>> \/ (v \in View /\ add = ShowJobs(v)) \/ (v \notin View /\ add = ShowJobs(v))
    OBVIOUS
  <2>2. v \notin View => ShowJobs(v) = <<>>
    BY DEF ShowJobs, View
  <2> HIDE DEF add
  <2> QED
    BY <2>1, <2>2, NoJobs, NoJobMean, ShowJobsOK, ShowJobsMean
<1>12. JobsMean(jobs')
  BY <1>1, <1>4, <1>11, JoinMean DEF NoKeyWaits
<1> QED
  BY <1>1, <1>5, <1>10, <1>12, PostedFields, KeyAfter

\* The keys that show the register of a log entry, or a mode of assets.
LEMMA AssetKeysMeant ==
  ASSUME EditInv, MeantInv, OpenOK(ui), LogCursorSelect \/ \E a \in Assets : LocateRegmap(a)
  PROVE  After
<1>0. InputOK(ui) /\ Whole(ui)
  BY WholeOf DEF MeantInv
<1>1. CASE LogCursorSelect
  <2>1. SameInput(ui, ui) /\ ui.focus = "log" /\ Asset(ui, ui.log[ui.navIdx])
    BY <1>0, <1>1 DEF SameInput, LogCursorSelect, InLog, InputOK, InputsOK
  <2> QED
    BY <2>1, AssetMeant
<1>2. CASE \E a \in Assets : LocateRegmap(a)
  <2>1. PICK a \in Assets : LocateRegmap(a)
    BY <1>2
  <2> DEFINE u == [ui EXCEPT !.focus = "table"]
  <2>2. SameInput(ui, u) /\ u.focus = "table" /\ ui.focus = "regio" /\ Asset(u, a)
    BY <1>0, <2>1 DEF SameInput, LocateRegmap, Whole, UiFields, HistFields, InputOK, InputsOK
  <2> HIDE DEF u
  <2> QED
    BY <2>2, AssetMeant
<1> QED
  BY <1>1, <1>2

\* All keys and clicks.
LEMMA KeysMeant ==
  ASSUME EditInv, MeantInv, OpenOK(ui), Keys
  PROVE  After
<1>1. CASE CheckAsserts \/ ReadAllModules
  <2>1. NoKeyWaits /\ (ui.focus # "input" => Away(ui))
    BY <1>1, KeyIdle DEF CheckAsserts, ReadAllModules
  <2>2. UNCHANGED <<ui, inbox, jobs>>
    BY <1>1 DEF CheckAsserts, ReadAllModules
  <2> QED
    BY <2>1, <2>2, KeyAfter DEF NoKeyWaits
<1> QED
  BY <1>1, FocusMeant, MoveMeant, PostMeant, TypeMeant, StepValueMeant, LogMeant, ToggleMeant,
     StartKeysMeant, AssetKeysMeant DEF Keys

-----------------------------------------------------------------------------
\* The messages and the workers.

\* The app takes its next message.
LEMMA MessageMeant ==
  ASSUME EditInv, MeantInv, OpenOK(ui), HandleMessage
  PROVE  After
<1> DEFINE m == Head(inbox)
           r == Handled(ui, m, cache)
<1>1. inbox # <<>> /\ inbox \in Seq(Range(inbox)) /\ MessageOK(m)
  BY TailMessages DEF HandleMessage, EditInv, InboxOK
<1>2. ui' = r.u /\ jobs' = jobs \o r.jobs /\ inbox' = Tail(inbox)
  BY DEF HandleMessage
<1>3. Whole(ui) /\ InputOK(ui) /\ OneKey(inbox) /\ AwayOK(ui, inbox) /\ JobsMean(jobs) /\ JobsOK(jobs)
  BY WholeOf DEF MeantInv, EditInv
<1>4. JobsOK(r.jobs)
  BY <1>1, HandledOutcome
<1>5. /\ m.type # "select" => m.user
      /\ m.type \in {"blur", "edit"} => ui.focus # "input"
      /\ m.type \notin {"select", "blur"} => (ui.focus # "input" => Away(ui))
  BY <1>1, <1>3, HeadMessage DEF OpenOK
<1> HIDE DEF m
<1>6. CASE m.type = "select"
  <2>1. r = Selected(ui, m.node, cache)
    BY <1>6 DEF Handled
  <2>2. Keeps(ui, r.u)
    BY <1>3, <2>1, SelectedKeeps
  <2>3. JobsMean(r.jobs)
    <3> DEFINE x == RestoreCursor(ui, ui.restore)
               w == Show([ui EXCEPT !.highlighted = m.node], m.node, cache)
    <3>1. r = Done(x, <<>>) \/ r = Done(w, ShowJobs(m.node))
      BY <2>1, Zenon DEF Selected
    <3> HIDE DEF x, w, r
    <3> QED
      BY <3>1, NoJobMean, ShowJobsMean, DoneFields
  <2>4. OneKey(Tail(inbox)) /\ AwayOK(r.u, Tail(inbox))
    BY <1>1, <1>3, <1>6, <2>2, TakenMessage DEF m
  <2>5. JobsMean(jobs \o r.jobs)
    BY <1>3, <1>4, <2>3, JoinMean
  <2> QED
    BY <1>2, <2>2, <2>4, <2>5 DEF After, Keeps
<1>7. CASE m.type # "select"
  <2>1. HandlesEdit(r)
    <3>1. CASE m.type = "edit"
      BY <1>3, <1>5, <3>1, EditMeant DEF Handled
    <3>2. CASE m.type = "submit"
      BY <1>3, <1>5, <3>2, SubmitMeant DEF Handled
    <3>3. CASE m.type = "cancel"
      BY <1>3, <3>3, EndEditMeant DEF Handled
    <3>4. CASE m.type = "blur"
      BY <1>3, <1>5, <3>4, AbandonMeant DEF Handled
    <3> QED
      BY <1>1, <1>7, <3>1, <3>2, <3>3, <3>4 DEF MessageOK, m
  <2> HIDE DEF r
  <2>2. OneKey(Tail(inbox)) /\ AwayOK(r.u, Tail(inbox))
    BY <1>1, <1>3, <1>5, <1>7, <2>1, TakenMessage DEF m, HandlesEdit
  <2>3. JobsMean(jobs \o r.jobs)
    BY <1>3, <1>4, <2>1, JoinMean DEF HandlesEdit, r
  <2> QED
    BY <1>2, <2>1, <2>2, <2>3 DEF After, HandlesEdit
<1> QED
  BY <1>6, <1>7

\* A worker leaves the edit as it is, and may post a message that selects a
\* node.
LEMMA WorkerMeant ==
  ASSUME EditInv, MeantInv, SameEdit(ui, ui'), JobsMean(jobs'),
         inbox' = inbox \/ \E v : inbox' = Append(inbox, Select(v, FALSE))
  PROVE  After
<1>1. Keeps(ui, ui')
  BY SameEditKeeps DEF MeantInv
<1>2. inbox \in Seq(Range(inbox)) /\ OneKey(inbox) /\ AwayOK(ui, inbox)
  BY DEF MeantInv, EditInv, InboxOK
<1>3. CASE inbox' = inbox
  <2>1. AwayOK(ui', inbox)
    BY <1>1, <1>2 DEF AwayOK, Keeps
  <2> QED
    BY <1>1, <1>2, <1>3, <2>1 DEF After, Keeps
<1>4. CASE \E v : inbox' = Append(inbox, Select(v, FALSE))
  <2>1. PICK v : inbox' = Append(inbox, Select(v, FALSE))
    BY <1>4
  <2>2. OneKey(Append(inbox, Select(v, FALSE))) /\ AwayOK(ui', Append(inbox, Select(v, FALSE)))
    BY <1>1, <1>2, PostedFields, WorkerMessage
  <2> QED
    BY <1>1, <2>1, <2>2 DEF After, Keeps
<1> QED
  BY <1>3, <1>4

\* The tree is rebuilt after an assert check or a read of all modules.
LEMMA RebuiltTreeMeant ==
  ASSUME EditInv, MeantInv, OpenOK(ui), CheckEnds \/ RebuildEnds
  PROVE  After
<1>1. Whole(ui) /\ JobsMean(jobs)
  BY WholeOf DEF MeantInv
<1>2. ASSUME NEW u, SameEdit(ui, u), NEW key
      PROVE  SameEdit(ui, [RefreshShown(Log(u, Register, cache), cache) EXCEPT !.restore = key])
  <2> DEFINE l == Log(u, Register, cache)
             s == RefreshShown(l, cache)
             x == [s EXCEPT !.restore = key]
  <2>1. Whole(u)
    BY <1>1, <1>2, SameEditWhole
  <2>2. SameEdit(u, l)
    BY <2>1, RefreshesKeepEdit
  <2> HIDE DEF l
  <2>3. Whole(l)
    BY <2>1, <2>2, SameEditWhole
  <2>4. SameEdit(l, s)
    BY <2>3, RefreshesKeepEdit
  <2> HIDE DEF s
  <2>5. Whole(s)
    BY <2>3, <2>4, SameEditWhole
  <2>6. SameEdit(s, x)
    BY <2>5, RefreshesKeepEdit
  <2> HIDE DEF x
  <2>7. SameEdit(ui, x)
    BY <1>2, <2>2, <2>4, <2>6, SameEditAgain
  <2> QED
    BY <2>7 DEF x, s, l
<1>3. CASE CheckEnds
  <2>1. SameEdit(ui, ui')
    BY <1>1, <1>2, <1>3, RefreshesKeepEdit DEF CheckEnds
  <2> QED
    BY <1>1, <1>3, <2>1, WorkerMeant DEF CheckEnds, Reselect
<1>4. CASE RebuildEnds
  <2> DEFINE u == RestoreCursor(ui, readAll.key)
  <2>1. ui' = [RefreshShown(Log(u, Register, cache), cache) EXCEPT !.restore = readAll.key]
        /\ inbox' = Append(inbox, Reselect(u)) /\ jobs' = jobs
    BY <1>4 DEF RebuildEnds
  <2>2. SameEdit(ui, u)
    BY <1>1, RefreshesKeepEdit
  <2> HIDE DEF u
  <2>3. SameEdit(ui, ui')
    BY <1>2, <2>1, <2>2
  <2> QED
    BY <1>1, <2>1, <2>3, WorkerMeant DEF Reselect
<1> QED
  BY <1>3, <1>4

\* The read of all modules has returned, or failed.
LEMMA ReadAllMeant ==
  ASSUME EditInv, MeantInv, OpenOK(ui), ReadAllReturns \/ ReadAllFails
  PROVE  After
<1>1. Whole(ui) /\ JobsMean(jobs)
  BY WholeOf DEF MeantInv
<1>2. UNCHANGED <<inbox, jobs>>
  BY DEF ReadAllReturns, ReadAllFails
<1>3. CASE ReadAllReturns
  <2>1. ui' = RefreshShown(ui, cache') \/ ui' = ui
    BY <1>3 DEF ReadAllReturns
  <2>2. SameEdit(ui, ui')
    BY <1>1, <2>1, RefreshesKeepEdit
  <2> QED
    BY <1>1, <1>2, <2>2, WorkerMeant
<1>4. CASE ReadAllFails
  <2> DEFINE o == {x \in Register \cup Mem : cache'[x] # cache[x]}
  <2>1. ui' = [ui EXCEPT !.behind = @ \cup o]
    BY <1>4 DEF ReadAllFails
  <2> HIDE DEF o
  <2>2. SameEdit(ui, ui')
    BY <1>1, <2>1 DEF SameEdit, Whole, UiFields, HistFields
  <2> QED
    BY <1>1, <1>2, <2>2, WorkerMeant
<1> QED
  BY <1>3, <1>4

\* A job ends.
LEMMA EndMeant ==
  ASSUME EditInv, MeantInv, NEW i \in DOMAIN jobs, NEW w, Ends(i, w), SameEdit(ui, w), inbox' = inbox
  PROVE  After
<1>1. JobsMean(jobs')
  BY RemoveMean DEF Ends, EditInv, MeantInv
<1> QED
  BY <1>1, WorkerMeant DEF Ends

\* A job goes on, with what its edit was opened for.
LEMMA GoOnMeant ==
  ASSUME EditInv, MeantInv, OpenOK(ui), NEW i \in DOMAIN jobs, NEW new, WritesMeant(new),
         jobs' = [jobs EXCEPT ![i] = new], UNCHANGED <<ui, inbox>>
  PROVE  After
<1>1. DOMAIN jobs' = DOMAIN jobs /\ jobs'[i] = new /\ \A k \in DOMAIN jobs : k # i => jobs'[k] = jobs[k]
  OBVIOUS
<1>2. JobsMean(jobs')
  BY <1>1 DEF JobsMean, MeantInv
<1>3. SameEdit(ui, ui')
  BY DEF SameEdit
<1> QED
  BY <1>2, <1>3, WorkerMeant

\* The step pump takes a step.
LEMMA PopMeant ==
  ASSUME EditInv, MeantInv, OpenOK(ui), NEW i \in DOMAIN jobs, PopStep(i)
  PROVE  After
<1> DEFINE j     == jobs[i]
           calls == StepCalls(j.obj, j.lane, j.delta, cache)
           new   == [j EXCEPT !.op = "write", !.pump = TRUE, !.calls = calls]
<1>1. WritesMeant(j) /\ j.op = "step"
  BY DEF PopStep, MeantInv, JobsMean
<1>2. jobs' = [jobs EXCEPT ![i] = new] /\ UNCHANGED <<ui, inbox>>
  BY DEF PopStep
<1> HIDE DEF calls
<1>3. WritesMeant(new)
  BY <1>1 DEF WritesMeant
<1> HIDE DEF new
<1> QED
  BY <1>2, <1>3, GoOnMeant

\* A call of a write.
LEMMA CallMeant ==
  ASSUME EditInv, MeantInv, OpenOK(ui), NEW i \in DOMAIN jobs, NEW n, Call(i, jobs[i], n), inbox' = inbox
  PROVE  After
<1> DEFINE j == jobs[i]
<1>1. Whole(ui)
  BY WholeOf DEF MeantInv
<1>2. CASE Raises(j.obj, j.calls[n])
  <2> DEFINE w == IF n = 1 THEN ui ELSE Behind(ui, j.obj)
  <2>1. Ends(i, w)
    BY <1>2 DEF Call
  <2>2. SameEdit(ui, w)
    BY <1>1, RefreshesKeepEdit
  <2> HIDE DEF w
  <2> QED
    BY <2>1, <2>2, EndMeant
<1>3. CASE ~ Raises(j.obj, j.calls[n])
  <2> DEFINE new == [j EXCEPT !.done = n]
  <2>1. jobs' = [jobs EXCEPT ![i] = new] /\ UNCHANGED ui
    BY <1>3 DEF Call
  <2>2. WritesMeant(j) /\ JobOK(j)
    BY DEF MeantInv, JobsMean, EditInv, JobsOK
  <2>3. WritesMeant(new)
    BY <2>2 DEF WritesMeant, JobOK, LanesWritten
  <2> HIDE DEF new
  <2> QED
    BY <2>1, <2>3, GoOnMeant
<1> QED
  BY <1>2, <1>3

\* The calls of a write, and its end.
LEMMA WriteMeant ==
  ASSUME EditInv, MeantInv, OpenOK(ui), NEW i \in DOMAIN jobs, StartWrite(i) \/ CallReturns(i) \/ CallFails(i)
  PROVE  After
<1> DEFINE j == jobs[i]
<1>1. Whole(ui)
  BY WholeOf DEF MeantInv
<1>2. inbox' = inbox
  BY DEF StartWrite, CallReturns, CallFails
<1>3. SameEdit(ui, ui) /\ SameEdit(ui, Behind(ui, j.obj))
  BY <1>1, RefreshesKeepEdit
<1>4. CASE StartWrite(i)
  <2>1. Ends(i, ui) \/ Call(i, j, 1)
    BY <1>4 DEF StartWrite
  <2> QED
    BY <1>2, <1>3, <2>1, EndMeant, CallMeant
<1>5. CASE CallReturns(i)
  <2> DEFINE lanes == RefreshLanes(ui, j.obj, LanesWritten(j), cache)
             row   == RefreshRow(ui, j.key, j.obj, 0, cache)
  <2>1. Call(i, j, j.done + 1) \/ Ends(i, lanes) \/ Ends(i, row)
    BY <1>5 DEF CallReturns
  <2>2. SameEdit(ui, lanes) /\ SameEdit(ui, row)
    BY <1>1, RefreshesKeepEdit, RefreshRowKeepsEdit
  <2> HIDE DEF lanes, row
  <2> QED
    BY <1>2, <2>1, <2>2, EndMeant, CallMeant
<1>6. CASE CallFails(i)
  BY <1>2, <1>3, <1>6, EndMeant DEF CallFails
<1> QED
  BY <1>4, <1>5, <1>6

\* The reads of rows, memories and modules.
LEMMA ReadMeant ==
  ASSUME EditInv, MeantInv, OpenOK(ui), NEW i \in DOMAIN jobs,
         ReadReturns(i) \/ MemReturns(i) \/ TreeReturns(i) \/ ReadFails(i)
  PROVE  After
<1> DEFINE j == jobs[i]
           o == j.obj
<1>1. Whole(ui)
  BY WholeOf DEF MeantInv
<1>2. inbox' = inbox
  BY DEF ReadReturns, MemReturns, TreeReturns, ReadFails
<1>3. ASSUME NEW u, SameEdit(ui, u), NEW objs
      PROVE  SameEdit(ui, Log(u, objs, cache'))
  <2>1. Whole(u)
    BY <1>1, <1>3, SameEditWhole
  <2>2. SameEdit(u, Log(u, objs, cache'))
    BY <2>1, RefreshesKeepEdit
  <2> QED
    BY <1>3, <2>2, SameEditAgain
<1>4. CASE ReadReturns(i)
  <2> DEFINE row == RefreshRow(ui, j.key, o, j.lane, cache')
  <2>1. Ends(i, Log(row, {o}, cache'))
    BY <1>4 DEF ReadReturns
  <2>2. SameEdit(ui, row)
    BY <1>1, RefreshRowKeepsEdit
  <2> HIDE DEF row
  <2>3. SameEdit(ui, Log(row, {o}, cache'))
    BY <1>3, <2>2
  <2> QED
    BY <1>2, <2>1, <2>3, EndMeant
<1>5. CASE MemReturns(i)
  <2> DEFINE p == Paint(ui, KeysOf(ui, o) \ {1}, cache')
             w == [p EXCEPT !.behind = p.behind \ {o}]
             x == IF ui.view = o THEN w ELSE ui
  <2>1. Ends(i, x)
    BY <1>5 DEF MemReturns
  <2>2. SameEdit(ui, p)
    BY <1>1, RefreshesKeepEdit
  <2> HIDE DEF p
  <2>3. SameEdit(ui, w)
    BY <1>1, <2>2 DEF SameEdit, Whole, UiFields, HistFields
  <2>4. SameEdit(ui, x)
    BY <1>1, <2>3, RefreshesKeepEdit
  <2> HIDE DEF x
  <2> QED
    BY <1>2, <2>1, <2>4, EndMeant
<1>6. CASE TreeReturns(i)
  <2> DEFINE s == RefreshShown(ui, cache')
             x == Log(s, ObjectsOf(o), cache')
  <2>1. Ends(i, x)
    BY <1>6 DEF TreeReturns
  <2>2. SameEdit(ui, s)
    BY <1>1, RefreshesKeepEdit
  <2> HIDE DEF s
  <2>3. SameEdit(ui, x)
    BY <1>3, <2>2
  <2> QED
    BY <1>2, <2>1, <2>3, EndMeant
<1>7. CASE ReadFails(i)
  <2>1. Ends(i, ui) /\ SameEdit(ui, ui)
    BY <1>7 DEF ReadFails, SameEdit
  <2> QED
    BY <1>2, <2>1, EndMeant
<1> QED
  BY <1>4, <1>5, <1>6, <1>7

\* A read of a node fails, which closes the app.
LEMMA TreeFailsMeant ==
  ASSUME EditInv, MeantInv, OpenOK(ui), NEW i \in DOMAIN jobs, TreeFails(i)
  PROVE  After
<1> DEFINE w == [ui EXCEPT !.focus = "closed"]
<1>1. ui' = w /\ jobs' = <<>> /\ inbox' = <<>>
  BY DEF TreeFails
<1>2. InputOK(ui) /\ Whole(ui)
  BY WholeOf DEF MeantInv
<1>3. SameInput(ui, w) /\ w.focus = "closed"
  BY <1>2 DEF SameInput, Whole, UiFields, HistFields, InputOK, InputsOK
<1> HIDE DEF w
<1>4. InputOK(ui')
  BY <1>1, <1>2, <1>3, SameInputOK
<1>5. DOMAIN inbox' = {} /\ DOMAIN jobs' = {}
  BY <1>1
<1>6. OneKey(inbox') /\ AwayOK(ui', inbox')
  BY <1>1, <1>3, <1>5 DEF OneKey, AwayOK
<1> QED
  BY <1>4, <1>5, <1>6 DEF After, JobsMean

-----------------------------------------------------------------------------
\* Every step keeps what the edit was opened for.
LEMMA StepMeantInv ==
  ASSUME EditInv, MeantInv, EditNext
  PROVE  MeantInv'
<1>1. OpenOK(ui)
  BY Closes
<1>2. After
  <2>1. CASE Keys
    BY <1>1, <2>1, KeysMeant
  <2>2. CASE HandleMessage
    BY <1>1, <2>2, MessageMeant
  <2>3. CASE CheckEnds \/ RebuildEnds
    BY <1>1, <2>3, RebuiltTreeMeant
  <2>4. CASE ReadAllReturns \/ ReadAllFails
    BY <1>1, <2>4, ReadAllMeant
  <2>5. ASSUME NEW i \in DOMAIN jobs, PopStep(i)
        PROVE  After
    BY <1>1, <2>5, PopMeant
  <2>6. ASSUME NEW i \in DOMAIN jobs, StartWrite(i) \/ CallReturns(i) \/ CallFails(i)
        PROVE  After
    BY <1>1, <2>6, WriteMeant
  <2>7. ASSUME NEW i \in DOMAIN jobs,
               ReadReturns(i) \/ MemReturns(i) \/ TreeReturns(i) \/ ReadFails(i)
        PROVE  After
    BY <1>1, <2>7, ReadMeant
  <2>8. ASSUME NEW i \in DOMAIN jobs, TreeFails(i)
        PROVE  After
    BY <1>1, <2>8, TreeFailsMeant
  <2> QED
    BY <2>1, <2>2, <2>3, <2>4, <2>5, <2>6, <2>7, <2>8 DEF EditNext
<1> QED
  BY <1>2, AfterHolds

\* A stuttering step changes none of it.
LEMMA StutterMeantInv ==
  ASSUME MeantInv, UNCHANGED editVars
  PROVE  MeantInv'
<1>1. After
  BY DEF MeantInv, After, editVars
<1> QED
  BY <1>1, AfterHolds

\* The app starts with no edit, no message and no job.
LEMMA StartMeantInv ==
  ASSUME EditInit
  PROVE  MeantInv
<1>1. /\ HistFields \subseteq DOMAIN ui /\ ui.lane = <<>> /\ ui.lanes = <<>> /\ ~ ui.prompt
      /\ ui.meant = None /\ ui.navReturn = "table"
  BY DEF EditInit, UiInit, HistFields
<1>2. InputOK(ui) /\ Away(ui)
  BY <1>1 DEF InputOK, InputsOK, MeantOK, Away
<1>3. JobsMean(jobs)
  BY NoJobMean DEF EditInit
<1>4. DOMAIN inbox = {1} /\ inbox[1] = Select(Top, FALSE)
  BY DEF EditInit
<1>5. ~ inbox[1].user /\ inbox[1].type = "select"
  BY <1>4, PostedFields
<1>6. OneKey(inbox)
  BY <1>4, <1>5 DEF OneKey
<1>7. AwayOK(ui, inbox)
  BY <1>2, <1>4, <1>5 DEF AwayOK
<1> QED
  BY <1>2, <1>3, <1>6, <1>7 DEF MeantInv

\* What is typed into an edit is written to the register or memory, and to
\* the lanes, that the edit was opened for, whatever edits were left open
\* before it and whatever ran in between, unless a node that was selected again
\* replaced the table or, for the edit of a whole row, moved the cursor
\* (on_input_submitted, _abandon_value_edit, on_descendant_blur).
THEOREM EditsReachTheirRow == EditSpec => []WritesEditedRow
<1>1. EditInit => EditInv /\ MeantInv
  BY StartHolds, StartMeantInv
<1>2. (EditInv /\ MeantInv) /\ [EditNext]_editVars => (EditInv /\ MeantInv)'
  BY StepPreserves, StutterPreserves, StepMeantInv, StutterMeantInv
<1>3. EditInv /\ MeantInv => WritesEditedRow
  BY DEF MeantInv, JobsMean, WritesMeant, WritesEditedRow
<1> QED
  BY <1>1, <1>2, <1>3, PTL DEF EditSpec

-----------------------------------------------------------------------------
\* SkmapPlot: the sampler, its reports and the curves.

\* A trace of each element there is.
TraceSet == {[addr |-> l[1], name |-> l[2], idx |-> l[3]] : l \in Lanes}
ReportSet == [val : SUBSET Nat, ok : BOOLEAN, error : BOOLEAN]

\* The results of the one sample that is running, at the sampler or reported.
Sample == IF queue = <<>> THEN io.results ELSE queue[1]

InvTraces ==
  /\ traces \in Seq(TraceSet)
  /\ todo \in Seq(Tokens)
  /\ phase = "build" =>
       /\ base \in DOMAIN Maps \/ (todo # <<>> /\ IsAddr(todo[1]))
       /\ traces # <<>> \/ (todo # <<>> /\ ~IsAddr(todo[Len(todo)]))
  /\ phase \in {"run", "closing"} => traces # <<>> /\ DOMAIN curve = DOMAIN traces

\* One sample at a time: with the sampler, or in the queue, or none.
InvIo ==
  /\ io \in [at : 0..Len(traces), stage : {"read", "clear"}, val : SUBSET Nat,
             results : Seq(ReportSet)]
  /\ io.at > 0 => inflight /\ queue = <<>> /\ Len(io.results) = io.at - 1
  /\ io.at = 0 => io.results = <<>> /\ io.stage = "read"
  /\ queue # <<>> =>
       /\ inflight /\ Len(queue) = 1
       /\ queue[1] \in Seq(ReportSet) /\ Len(queue[1]) = Len(traces)
  /\ queue = <<>> \/ queue \in Seq(Seq(ReportSet))
  /\ phase \in {"setup", "build"} => io.at = 0 /\ queue = <<>>

InvDevice ==
  /\ events \in 0..MaxEvents
  /\ dev \in [Lanes -> SUBSET (1..events)]
  /\ \A l, m \in Lanes : l # m => dev[l] \cap dev[m] = {}
  /\ io.stage = "clear" => io.val \subseteq dev[Lane]
  /\ io.stage = "read" => io.val = {}

InvShown ==
  /\ shown \in [1..MaxEvents -> 0..1]
  /\ \A e \in 1..MaxEvents : shown[e] = 1 => e <= events /\ \A l \in Lanes : e \notin dev[l]

InvSample ==
  \A i \in DOMAIN Sample :
    /\ Sample[i].val \subseteq 0..events
    /\ Sample[i].error => Sample[i].val = {}
    /\ \A e \in Sample[i].val : e > 0 =>
         /\ shown[e] = 0
         /\ \A l \in Lanes : e \notin dev[l]
         /\ \A j \in DOMAIN Sample : e \in Sample[j].val => i = j

InvKept ==
  \A e \in 1..events : e \notin excused =>
    \/ shown[e] = 1
    \/ \E i \in DOMAIN Sample : e \in Sample[i].val
    \/ \E l \in Lanes : e \in dev[l]

IInv == InvTraces /\ InvIo /\ InvDevice /\ InvShown /\ InvSample /\ InvKept

-----------------------------------------------------------------------------
\* The traces of some elements of a register.
LEMMA CheckedTracesType ==
  ASSUME NEW a \in DOMAIN Maps, NEW n \in DOMAIN Maps[a],
         NEW idxs \in Seq(ToSet(Idxs(Maps[a][n])))
  PROVE  CheckedTraces(a, n, idxs) \in Seq(TraceSet)
<1>1. CASE Maps[a][n].kind = "char"
  BY <1>1 DEF CheckedTraces
<1>2. CASE Maps[a][n].kind # "char"
  <2>1. CheckedTraces(a, n, idxs)
          = [i \in 1..Len(idxs) |-> [addr |-> a, name |-> n, idx |-> idxs[i]]]
    BY <1>2 DEF CheckedTraces
  <2>2. ASSUME NEW i \in 1..Len(idxs)
        PROVE  [addr |-> a, name |-> n, idx |-> idxs[i]] \in TraceSet
    <3>1. idxs[i] \in ToSet(Idxs(Maps[a][n]))
      OBVIOUS
    <3>2. <<a, n, idxs[i]>> \in Lanes
      BY <3>1 DEF Lanes
    <3> QED
      BY <3>2 DEF TraceSet
  <2> QED
    BY <2>1, <2>2
<1> QED
  BY <1>1, <1>2

\* All elements of a register.
LEMMA IdxsType ==
  ASSUME NEW a \in DOMAIN Maps, NEW n \in DOMAIN Maps[a]
  PROVE  Idxs(Maps[a][n]) \in Seq(ToSet(Idxs(Maps[a][n])))
<1> DEFINE s == Idxs(Maps[a][n])
<1>1. CASE Maps[a][n].vec = 0
  <2>1. s = <<NoIdx>>
    BY <1>1 DEF Idxs
  <2> DEFINE T == ToSet(s)
  <2>2. NoIdx \in T
    BY <2>1 DEF ToSet
  <2> HIDE DEF s, T
  <2>3. s \in Seq(T)
    BY <2>1, <2>2
  <2> QED
    BY <2>3 DEF s, T
<1>2. CASE Maps[a][n].vec # 0
  <2> DEFINE k == Maps[a][n].vec
  <2>1. k \in Nat /\ s = [i \in 1..k |-> i - 1]
    BY <1>2, MapsAssumption DEF Idxs
  <2> HIDE DEF k, s
  <2>2. \A i \in 1..k : i - 1 \in ToSet(s)
    BY <2>1 DEF ToSet
  <2> DEFINE T == ToSet(s)
  <2>3. \A i \in 1..k : i - 1 \in T
    BY <2>2
  <2> HIDE DEF T
  <2>4. s \in Seq(T)
    BY <2>1, <2>3
  <2> QED
    BY <2>4 DEF s, T
<1> QED
  BY <1>1, <1>2

\* Every token and every call of a third party adds traces of the map.
LEMMA MakeTracesType ==
  ASSUME NEW a \in DOMAIN Maps, NEW token
  PROVE  MakeTraces(a, token) \in Seq(TraceSet)
<1> DEFINE all == Idxs(Maps[a][token.name])
<1>1. CASE token.name \notin DOMAIN Maps[a]
  BY <1>1 DEF MakeTraces, FindReg
<1>2. CASE token.name \in DOMAIN Maps[a]
  <2>1. CheckedTraces(a, token.name, all) \in Seq(TraceSet)
    BY <1>2, CheckedTracesType, IdxsType
  <2>2. ASSUME token.idx \in ToSet(all)
        PROVE  CheckedTraces(a, token.name, <<token.idx>>) \in Seq(TraceSet)
    <3>1. <<token.idx>> \in Seq(ToSet(all))
      BY <2>2
    <3> QED
      BY <1>2, <3>1, CheckedTracesType
  <2> QED
    BY <1>2, <2>1, <2>2 DEF MakeTraces, FindReg
<1> QED
  BY <1>1, <1>2

\* The element of a trace.
LEMMA LaneOfTrace ==
  ASSUME NEW t \in TraceSet
  PROVE  LaneOf(t) \in Lanes
<1>1. PICK l \in Lanes : t = [addr |-> l[1], name |-> l[2], idx |-> l[3]]
  BY DEF TraceSet
<1>2. PICK a \in DOMAIN Maps : \E n \in DOMAIN Maps[a] :
        \E x \in ToSet(Idxs(Maps[a][n])) : l = <<a, n, x>>
  BY DEF Lanes
<1> QED
  BY <1>1, <1>2 DEF LaneOf

\* The plots start with no sample and no event.
LEMMA InitIInv == Init => IInv
<1> SUFFICES ASSUME Init PROVE IInv
  OBVIOUS
<1> USE BoundsAssumption DEF Init
<1>1. InvTraces
  BY DEF InvTraces
<1>2. InvIo
  BY DEF InvIo, Idle
<1>3. InvDevice
  BY DEF InvDevice, Idle
<1>4. InvShown
  BY DEF InvShown
<1>5. InvSample /\ InvKept
  BY DEF InvSample, InvKept, Sample, Idle
<1> QED
  BY <1>1, <1>2, <1>3, <1>4, <1>5 DEF IInv
-----------------------------------------------------------------------------
\* What the sampler does with the result of a trace: the sample grows by it,
\* whether the next trace follows or the sample is reported.
LEMMA NextTraceGrows ==
  ASSUME InvIo, InvTraces, io.at > 0, NEW r \in ReportSet, NextTrace(r), UNCHANGED guiVars
  PROVE  /\ InvIo'
         /\ Sample = io.results
         /\ Sample' = Append(Sample, r)
         /\ io'.stage = "read" /\ io'.val = {}
<1> DEFINE results == Append(io.results, r)
<1>1. /\ io.at \in 1..Len(traces) /\ Len(traces) \in Nat
      /\ inflight /\ queue = <<>> /\ Len(io.results) = io.at - 1
      /\ io.results \in Seq(ReportSet)
      /\ ~(phase \in {"setup", "build"})
  BY DEF InvIo, InvTraces
<1>2. results \in Seq(ReportSet) /\ Len(results) = io.at
  BY <1>1
<1>3. inflight' = inflight /\ traces' = traces /\ phase' = phase
  BY DEF guiVars
<1> HIDE DEF results
<1>4. CASE io.at < Len(traces)
  <2>1. io' = [at |-> io.at + 1, stage |-> "read", val |-> {}, results |-> results]
    BY <1>4 DEF NextTrace, Started, Idle, results
  <2>2. queue' = <<>>
    BY <1>1, <1>4 DEF NextTrace
  <2>3. InvIo'
    BY <1>1, <1>2, <1>3, <1>4, <2>1, <2>2 DEF InvIo
  <2> QED
    BY <1>1, <2>1, <2>2, <2>3 DEF Sample, results
<1>5. CASE ~(io.at < Len(traces))
  <2>1. io' = [at |-> 0, stage |-> "read", val |-> {}, results |-> <<>>]
    BY <1>5 DEF NextTrace, Idle
  <2>2. queue' = <<results>>
    BY <1>1, <1>5 DEF NextTrace, results
  <2>3. InvIo'
    BY <1>1, <1>2, <1>3, <1>5, <2>1, <2>2 DEF InvIo
  <2> QED
    BY <1>1, <2>1, <2>2, <2>3 DEF Sample, results
<1> QED
  BY <1>4, <1>5

\* A result with no event in it leaves the rest of the invariant as it was.
LEMMA GrowsByNothing ==
  ASSUME IInv, Sample \in Seq(ReportSet), NEW r \in ReportSet, Sample' = Append(Sample, r),
         r.val \subseteq {0}, r.error => r.val = {},
         UNCHANGED <<events, dev, shown>>, excused \subseteq excused'
  PROVE  InvSample' /\ InvKept'
<1>1. /\ DOMAIN Sample = 1..Len(Sample) /\ Len(Sample) \in Nat
      /\ DOMAIN Sample' = 1..(Len(Sample) + 1)
      /\ \A i \in DOMAIN Sample : Sample'[i] = Sample[i]
      /\ Sample'[Len(Sample) + 1] = r
  OBVIOUS
<1>2. InvSample'
  <2> SUFFICES ASSUME NEW i \in DOMAIN Sample'
               PROVE  /\ Sample'[i].val \subseteq 0..events
                      /\ Sample'[i].error => Sample'[i].val = {}
                      /\ \A e \in Sample'[i].val : e > 0 =>
                           /\ shown[e] = 0
                           /\ \A l \in Lanes : e \notin dev[l]
                           /\ \A j \in DOMAIN Sample' : e \in Sample'[j].val => i = j
    BY DEF InvSample
  <2>1. events \in Nat
    BY BoundsAssumption DEF IInv, InvDevice
  <2>2. CASE i \in DOMAIN Sample
    BY <1>1, <2>1, <2>2 DEF IInv, InvSample
  <2>3. CASE i = Len(Sample) + 1
    BY <1>1, <2>1, <2>3
  <2> QED
    BY <1>1, <2>2, <2>3
<1>3. InvKept'
  BY <1>1 DEF IInv, InvKept
<1> QED
  BY <1>2, <1>3
\* The sampler is at an element of the map.
LEMMA LaneAtSampler ==
  ASSUME InvIo, InvTraces, io.at > 0
  PROVE  /\ Trace \in TraceSet /\ Lane \in Lanes
         /\ Sample = io.results /\ Sample \in Seq(ReportSet) /\ queue = <<>>
<1>1. io.at \in 1..Len(traces) /\ traces \in Seq(TraceSet)
  BY DEF InvIo, InvTraces
<1>2. Trace \in TraceSet
  BY <1>1 DEF Trace
<1> QED
  BY <1>2, LaneOfTrace DEF Lane, InvIo, Sample

\* Only the order of the actions changes where the plot is built or closed.
LEMMA SetupStep ==
  ASSUME IInv, Setup
  PROVE  IInv'
<1> USE DEF IInv
<1>1. phase \in {"setup", "build"} /\ io.at = 0 /\ queue = <<>>
  <2> HIDE DEF IInv
  <2>1. phase \in {"setup", "build"}
    <3>1. ASSUME Run \/ BuildModule \/ BuildTrace \/ BuildRefused \/ BuildDone
          PROVE  phase \in {"setup", "build"}
      BY <3>1 DEF Run, BuildModule, BuildTrace, BuildRefused, BuildDone
    <3>2. ASSUME NEW tokens \in Targets, Main(tokens) \/ MainRefused(tokens)
          PROVE  phase \in {"setup", "build"}
      BY <3>2 DEF Main, MainRefused
    <3>3. ASSUME NEW a \in DOMAIN Maps, NEW n \in DOMAIN Maps[a], NEW x,
                 AddReg(a, n) \/ AddRegVecAll(a, n) \/ AddRegVecIdx(a, n, x)
          PROVE  phase \in {"setup", "build"}
      BY <3>3 DEF AddReg, AddRegVecAll, AddRegVecIdx, Add
    <3> QED
      BY <3>1, <3>2, <3>3 DEF Setup
  <2> USE DEF IInv
  <2> QED
    BY <2>1 DEF InvIo
<1>2. ASSUME UNCHANGED <<io, queue, inflight, dev, events, shown, excused>>,
             traces' \in Seq(TraceSet), phase' \in {"setup", "build", "exit"},
             todo' \in Seq(Tokens),
             phase' = "build" =>
               /\ base' \in DOMAIN Maps \/ (todo' # <<>> /\ IsAddr(todo'[1]))
               /\ traces' # <<>> \/ (todo' # <<>> /\ ~IsAddr(todo'[Len(todo')]))
      PROVE  IInv'
  <2>1. InvTraces'
    BY <1>2 DEF InvTraces
  <2>2. InvIo'
    BY <1>1, <1>2 DEF InvIo
  <2>3. InvDevice' /\ InvShown' /\ InvSample' /\ InvKept'
    <3>1. Sample' = Sample
      BY <1>2 DEF Sample
    <3>2. io.stage = "read"
      BY <1>1 DEF InvIo
    <3> QED
      BY <1>2, <3>1, <3>2 DEF InvDevice, InvShown, InvSample, InvKept
  <2> QED
    BY <2>1, <2>2, <2>3
<1>3. ASSUME NEW ts, ts = traces, ts # <<>>, RunPlotApp(ts)
      PROVE  IInv'
  <2>1. InvTraces'
    BY <1>3 DEF InvTraces, RunPlotApp
  <2>2. /\ io' = [at |-> 1, stage |-> "read", val |-> {}, results |-> <<>>]
        /\ queue' = <<>> /\ inflight' /\ Len(traces) >= 1 /\ traces' = traces /\ phase' = "run"
    <3>1. Len(traces) >= 1
      BY <1>3 DEF InvTraces
    <3>2. traces' = traces /\ phase' = "run" /\ inflight' /\ queue' = <<>> /\ io' = Started
      BY <1>1, <1>3 DEF RunPlotApp
    <3> QED
      BY <3>1, <3>2 DEF Started, Idle
  <2>3. InvIo'
    BY <2>2 DEF InvIo, InvTraces
  <2>4. InvDevice'
    BY <1>3, <2>2 DEF InvDevice, RunPlotApp
  <2>5. Sample = <<>> /\ Sample' = <<>>
    BY <1>1, <2>2 DEF Sample, InvIo
  <2>6. InvShown' /\ InvSample' /\ InvKept'
    BY <1>3, <2>5 DEF InvShown, InvSample, InvKept, RunPlotApp
  <2> QED
    BY <2>1, <2>3, <2>4, <2>6
<1>4. ASSUME Exit PROVE IInv'
  BY <1>2, <1>4 DEF Exit, InvTraces
<1>5. ASSUME NEW tokens \in Targets, Main(tokens) PROVE IInv'
  <2>1. tokens \in Seq(Tokens)
    BY TargetsAssumption
  <2>2. tokens # <<>> /\ IsAddr(tokens[1])
    BY <1>5 DEF Main, Parses
  <2>3. Len(tokens) \in DOMAIN tokens
    BY <2>1, <2>2
  <2>4. ~IsAddr(tokens[Len(tokens)])
    BY <1>5, <2>1, <2>3 DEF Main, Parses
  <2> QED
    BY <1>2, <1>5, <2>1, <2>2, <2>4 DEF Main, InvTraces
<1>6. ASSUME NEW tokens \in Targets, MainRefused(tokens) PROVE IInv'
  BY <1>4, <1>6 DEF MainRefused
<1>7. ASSUME BuildModule PROVE IInv'
  <2>1. todo \in Seq(Tokens) /\ todo # <<>> /\ todo' = Tail(todo) /\ todo' \in Seq(Tokens)
    BY <1>7 DEF BuildModule, InvTraces
  <2>2. traces # <<>> \/ (todo' # <<>> /\ ~IsAddr(todo'[Len(todo')]))
    <3>1. ASSUME todo' = <<>>, ~IsAddr(todo[Len(todo)]) PROVE FALSE
      <4>1. Len(todo) = 1
        <5>1. Len(Tail(todo)) = Len(todo) - 1 /\ Len(todo) \in Nat
          BY <2>1
        <5>2. Len(Tail(todo)) = 0
          <6>1. Tail(todo) = <<>>
            BY <2>1, <3>1
          <6>2. \A s \in Seq(Tokens) : s = <<>> => Len(s) = 0
            OBVIOUS
          <6> QED
            BY <2>1, <6>1, <6>2
        <5> QED
          BY <5>1, <5>2
      <4> QED
        BY <1>7, <3>1, <4>1 DEF BuildModule
    <3>2. todo' # <<>> => todo'[Len(todo')] = todo[Len(todo)]
      BY <2>1
    <3> QED
      BY <1>7, <3>1, <3>2 DEF BuildModule, InvTraces
  <2> QED
    BY <1>2, <1>7, <2>1, <2>2 DEF BuildModule, InvTraces
<1>8. ASSUME BuildTrace PROVE IInv'
  <2>1. base \in DOMAIN Maps
    BY <1>8 DEF BuildTrace, InvTraces
  <2>2. MakeTraces(base, todo[1]) \in Seq(TraceSet)
    BY <2>1, MakeTracesType
  <2>3. traces' \in Seq(TraceSet) /\ traces' # <<>>
    BY <1>8, <2>2 DEF BuildTrace, InvTraces
  <2>4. todo' \in Seq(Tokens)
    BY <1>8 DEF BuildTrace, InvTraces
  <2> QED
    BY <1>2, <1>8, <2>1, <2>3, <2>4 DEF BuildTrace
<1>9. ASSUME BuildRefused PROVE IInv'
  BY <1>4, <1>9 DEF BuildRefused
<1>10. ASSUME BuildDone PROVE IInv'
  BY <1>3, <1>10 DEF BuildDone, InvTraces
<1>11. ASSUME NEW ts \in Seq(TraceSet), Add(ts) PROVE IInv'
  BY <1>2, <1>11 DEF Add, InvTraces
<1>12. ASSUME NEW a \in DOMAIN Maps, NEW n \in DOMAIN Maps[a],
              \/ AddReg(a, n)
              \/ AddRegVecAll(a, n)
              \/ \E x \in 0..Maps[a][n].vec : AddRegVecIdx(a, n, x)
       PROVE  IInv'
  <2>1. CASE AddReg(a, n)
    <3>1. <<NoIdx>> = Idxs(Maps[a][n])
      BY <2>1 DEF AddReg, Idxs
    <3> QED
      BY <1>11, <2>1, <3>1, IdxsType, CheckedTracesType DEF AddReg
  <2>2. CASE AddRegVecAll(a, n)
    BY <1>11, <2>2, IdxsType, CheckedTracesType DEF AddRegVecAll
  <2>3. ASSUME NEW x \in 0..Maps[a][n].vec, AddRegVecIdx(a, n, x)
        PROVE  IInv'
    <3>1. Maps[a][n].vec \in Nat /\ x < Maps[a][n].vec
      BY <2>3, MapsAssumption DEF AddRegVecIdx
    <3>2. Idxs(Maps[a][n])[x + 1] = x /\ x + 1 \in DOMAIN Idxs(Maps[a][n])
      BY <3>1 DEF Idxs
    <3>3. x \in ToSet(Idxs(Maps[a][n]))
      BY <3>2 DEF ToSet
    <3>4. <<x>> \in Seq(ToSet(Idxs(Maps[a][n])))
      BY <3>3
    <3> QED
      BY <1>11, <2>3, <3>4, CheckedTracesType DEF AddRegVecIdx
  <2> QED
    BY <1>12, <2>1, <2>2, <2>3
<1>13. ASSUME Run PROVE IInv'
  BY <1>3, <1>4, <1>13 DEF Run
<1> QED
  BY <1>5, <1>6, <1>7, <1>8, <1>9, <1>10, <1>12, <1>13 DEF Setup
\* The steps of the sampler.
LEMMA FailedStep ==
  ASSUME IInv, io.at > 0, Failed, UNCHANGED guiVars, UNCHANGED <<events, dev, excused>>
  PROVE  IInv'
<1> DEFINE r == Result({}, TRUE, TRUE)
<1>1. r \in ReportSet /\ r.val = {}
  BY DEF Result, ReportSet
<1>2. InvIo /\ InvTraces /\ InvDevice /\ InvShown
  BY DEF IInv
<1>3. NextTrace(r)
  BY DEF Failed
<1> HIDE DEF r
<1>4. InvIo' /\ Sample' = Append(Sample, r) /\ io'.stage = "read" /\ io'.val = {}
  BY <1>1, <1>2, <1>3, NextTraceGrows
<1>5. InvSample' /\ InvKept'
  BY <1>1, <1>2, <1>4, GrowsByNothing, LaneAtSampler DEF guiVars
<1>6. InvTraces' /\ InvDevice' /\ InvShown'
  BY <1>2, <1>4 DEF guiVars, InvTraces, InvDevice, InvShown
<1> QED
  BY <1>4, <1>5, <1>6 DEF IInv

\* The sampler reads an rc register, and clears it next.
LEMMA IoReadRcStep ==
  ASSUME IInv, IoReadRc
  PROVE  IInv'
<1> USE DEF IInv
<1>1. io.at > 0 /\ io' = [io EXCEPT !.stage = "clear", !.val = dev[Lane]]
      /\ UNCHANGED <<guiVars, queue, dev, events, excused>>
  BY DEF IoReadRc, Sampling
<1>2. Lane \in Lanes
  BY <1>1, LaneAtSampler
<1>3. dev[Lane] \in SUBSET Nat
  BY <1>2, BoundsAssumption DEF InvDevice
<1>4. /\ io' \in [at : 0..Len(traces), stage : {"read", "clear"}, val : SUBSET Nat,
                  results : Seq(ReportSet)]
      /\ io'.at = io.at /\ io'.results = io.results
      /\ io'.stage = "clear" /\ io'.val = dev[Lane]
  BY <1>1, <1>3 DEF InvIo
<1>5. InvIo' /\ InvTraces'
  BY <1>1, <1>4 DEF InvIo, InvTraces, guiVars
<1>6. Lane' = Lane
  BY <1>1, <1>4 DEF Lane, Trace, guiVars
<1>7. InvDevice'
  BY <1>1, <1>4, <1>6 DEF InvDevice
<1>8. Sample' = Sample
  BY <1>1, <1>4 DEF Sample
<1>9. InvShown' /\ InvSample' /\ InvKept'
  BY <1>1, <1>8 DEF InvShown, InvSample, InvKept, guiVars
<1> QED
  BY <1>5, <1>7, <1>9

\* The sampler reads a register that is not cleared.
LEMMA IoReadStep ==
  ASSUME IInv, NEW val \in {{}, {0}}, IoRead(val)
  PROVE  IInv'
<1>1. io.at > 0 /\ Checked(val) /\ UNCHANGED <<guiVars, dev, events, excused>>
  BY DEF IoRead, Sampling
<1>2. CASE CheckRaises(val)
  BY <1>1, <1>2, FailedStep DEF Checked
<1>3. CASE ~CheckRaises(val)
  <2> DEFINE r == Result(val, CheckOk(val), FALSE)
  <2>1. r \in ReportSet /\ r.val \subseteq {0} /\ ~r.error
    BY DEF Result, ReportSet, CheckOk
  <2>2. InvIo /\ InvTraces /\ InvDevice /\ InvShown
    BY DEF IInv
  <2>3. NextTrace(r)
    BY <1>1, <1>3 DEF Checked
  <2> HIDE DEF r
  <2>4. InvIo' /\ Sample' = Append(Sample, r) /\ io'.stage = "read" /\ io'.val = {}
    BY <1>1, <2>1, <2>2, <2>3, NextTraceGrows
  <2>5. InvSample' /\ InvKept'
    BY <1>1, <2>1, <2>2, <2>4, GrowsByNothing, LaneAtSampler DEF guiVars
  <2>6. InvTraces' /\ InvDevice' /\ InvShown'
    BY <1>1, <2>2, <2>4 DEF guiVars, InvTraces, InvDevice, InvShown
  <2> QED
    BY <2>4, <2>5, <2>6 DEF IInv
<1> QED
  BY <1>2, <1>3

\* Clearing an element takes its events out of the device and out of no other.
LEMMA ClearedDevice ==
  ASSUME IInv, NEW lane \in Lanes, lane = Lane, dev' = Cleared, UNCHANGED events,
         io'.stage = "read", io'.val = {}
  PROVE  /\ InvDevice'
         /\ \A l \in Lanes : dev'[l] = IF l = lane THEN {} ELSE dev[l]
<1>1. dev' = [l \in Lanes |-> IF l = lane THEN {} ELSE dev[l]]
  BY DEF Cleared, ClearRc
<1>2. \A l \in Lanes : dev'[l] = IF l = lane THEN {} ELSE dev[l]
  BY <1>1
<1>3. dev' \in [Lanes -> SUBSET (1..events)]
  BY <1>1 DEF IInv, InvDevice
<1>4. \A l, m \in Lanes : l # m => dev'[l] \cap dev'[m] = {}
  BY <1>2 DEF IInv, InvDevice
<1> QED
  BY <1>2, <1>3, <1>4 DEF IInv, InvDevice
\* The clear of an rc register fails, with or without effect.
LEMMA IoClearFailsStep ==
  ASSUME IInv, NEW effect \in BOOLEAN, IoClearFails(effect)
  PROVE  IInv'
<1> USE DEF IInv
<1>1. io.at > 0 /\ io.stage = "clear" /\ Failed /\ UNCHANGED <<guiVars, events>>
  BY DEF IoClearFails, Sampling, InvIo
<1>2. CASE ~effect
  BY <1>1, <1>2, FailedStep DEF IoClearFails
<1>3. CASE effect
  <2> DEFINE r == Result({}, TRUE, TRUE)
  <2>1. dev' = Cleared /\ excused' = excused \cup dev[Lane]
    BY <1>3 DEF IoClearFails
  <2>2. r \in ReportSet /\ r.val = {}
    BY DEF Result, ReportSet
  <2>3. NextTrace(r)
    BY <1>1 DEF Failed
  <2> HIDE DEF r
  <2>4. /\ InvIo' /\ Sample' = Append(Sample, r) /\ io'.stage = "read" /\ io'.val = {}
        /\ Sample \in Seq(ReportSet) /\ Lane \in Lanes
    BY <1>1, <2>2, <2>3, NextTraceGrows, LaneAtSampler
  <2>5. InvDevice' /\ \A l \in Lanes : dev'[l] = IF l = Lane THEN {} ELSE dev[l]
    BY <1>1, <2>1, <2>4, ClearedDevice
  <2>6. /\ DOMAIN Sample' = 1..(Len(Sample) + 1) /\ DOMAIN Sample = 1..Len(Sample)
        /\ \A i \in DOMAIN Sample : i \in DOMAIN Sample' /\ Sample'[i] = Sample[i]
        /\ Sample'[Len(Sample) + 1] = r /\ Len(Sample) \in Nat
    BY <2>4
  <2>7. InvTraces' /\ InvShown'
    BY <1>1, <2>5 DEF guiVars, InvTraces, InvShown
  <2>8. InvSample'
    <3> SUFFICES ASSUME NEW i \in DOMAIN Sample'
                 PROVE  /\ Sample'[i].val \subseteq 0..events
                        /\ Sample'[i].error => Sample'[i].val = {}
                        /\ \A e \in Sample'[i].val : e > 0 =>
                             /\ shown[e] = 0
                             /\ \A l \in Lanes : e \notin dev'[l]
                             /\ \A j \in DOMAIN Sample' : e \in Sample'[j].val => i = j
      BY <1>1 DEF InvSample, guiVars
    <3>1. CASE i \in DOMAIN Sample
      BY <2>2, <2>5, <2>6, <3>1 DEF InvSample
    <3>2. CASE i = Len(Sample) + 1
      BY <2>2, <2>6, <3>2
    <3> QED
      BY <2>6, <3>1, <3>2
  <2>9. InvKept'
    BY <1>1, <2>1, <2>5, <2>6 DEF InvKept, guiVars
  <2> QED
    BY <2>4, <2>5, <2>7, <2>8, <2>9
<1> QED
  BY <1>2, <1>3

\* The clear of an rc register succeeds.
LEMMA IoClearStep ==
  ASSUME IInv, IoClear
  PROVE  IInv'
<1> USE DEF IInv
<1>1. /\ io.at > 0 /\ io.stage = "clear" /\ Checked(io.val) /\ UNCHANGED <<guiVars, events>>
      /\ dev' = Cleared /\ io.val \subseteq dev[Lane]
      /\ excused' = excused \cup (dev[Lane] \ io.val)
                      \cup (IF CheckRaises(io.val) THEN io.val ELSE {})
  BY DEF IoClear, Sampling, InvIo, InvDevice
\* The result holds the events cleared, or none of them and they are excused.
<1>2. PICK r \in ReportSet :
        /\ NextTrace(r)
        /\ r.val = {} \/ r.val = io.val
        /\ r.error => r.val = {}
        /\ \A e \in dev[Lane] : e \in r.val \/ e \in excused'
  <2>1. io.val \in SUBSET Nat
    BY DEF InvIo
  <2>2. CASE CheckRaises(io.val)
    <3>1. NextTrace(Result({}, TRUE, TRUE))
      BY <1>1, <2>2 DEF Checked, Failed
    <3>2. Result({}, TRUE, TRUE) \in ReportSet /\ Result({}, TRUE, TRUE).val = {}
      BY DEF Result, ReportSet
    <3> QED
      BY <1>1, <2>2, <3>1, <3>2
  <2>3. CASE ~CheckRaises(io.val)
    <3> DEFINE r == Result(io.val, CheckOk(io.val), FALSE)
    <3>1. NextTrace(r)
      BY <1>1, <2>3 DEF Checked
    <3>2. r \in ReportSet /\ r.val = io.val /\ ~r.error
      BY <2>1 DEF Result, ReportSet, CheckOk
    <3> HIDE DEF r
    <3> QED
      BY <1>1, <3>1, <3>2
  <2> QED
    BY <2>2, <2>3
<1>3. /\ InvIo' /\ Sample' = Append(Sample, r) /\ io'.stage = "read" /\ io'.val = {}
      /\ Sample \in Seq(ReportSet) /\ Lane \in Lanes
  BY <1>1, <1>2, NextTraceGrows, LaneAtSampler
<1>4. InvDevice' /\ \A l \in Lanes : dev'[l] = IF l = Lane THEN {} ELSE dev[l]
  BY <1>1, <1>3, ClearedDevice
<1>5. /\ DOMAIN Sample' = 1..(Len(Sample) + 1) /\ DOMAIN Sample = 1..Len(Sample)
      /\ \A i \in DOMAIN Sample : i \in DOMAIN Sample' /\ Sample'[i] = Sample[i]
      /\ Sample'[Len(Sample) + 1] = r /\ Len(Sample) \in Nat
  BY <1>3
<1>6. InvTraces' /\ InvShown'
  BY <1>1, <1>4 DEF guiVars, InvTraces, InvShown
\* An event of the result was at this element, so it was neither at another
\* one, nor in the sample, nor plotted.
<1>7. \A e \in r.val : /\ e \in dev[Lane] /\ e \in 1..events /\ shown[e] = 0
                       /\ \A l \in Lanes : e \notin dev'[l]
                       /\ \A i \in DOMAIN Sample : e \notin Sample[i].val
  <2> SUFFICES ASSUME NEW e \in r.val
               PROVE  /\ e \in dev[Lane] /\ e \in 1..events /\ shown[e] = 0
                      /\ \A l \in Lanes : e \notin dev'[l]
                      /\ \A i \in DOMAIN Sample : e \notin Sample[i].val
    OBVIOUS
  <2>1. e \in dev[Lane]
    BY <1>1, <1>2
  <2>2. e \in 1..events /\ e \in 1..MaxEvents /\ e > 0
    BY <1>3, <2>1, BoundsAssumption DEF InvDevice
  <2>3. shown[e] = 0
    BY <1>3, <2>1, <2>2 DEF InvShown
  <2>4. \A l \in Lanes : e \notin dev'[l]
    BY <1>3, <1>4, <2>1 DEF InvDevice
  <2>5. \A i \in DOMAIN Sample : e \notin Sample[i].val
    BY <1>3, <2>1, <2>2 DEF InvSample
  <2> QED
    BY <2>1, <2>2, <2>3, <2>4, <2>5
<1>8. InvSample'
  <2> SUFFICES ASSUME NEW i \in DOMAIN Sample'
               PROVE  /\ Sample'[i].val \subseteq 0..events
                      /\ Sample'[i].error => Sample'[i].val = {}
                      /\ \A e \in Sample'[i].val : e > 0 =>
                           /\ shown[e] = 0
                           /\ \A l \in Lanes : e \notin dev'[l]
                           /\ \A j \in DOMAIN Sample' : e \in Sample'[j].val => i = j
    BY <1>1 DEF InvSample, guiVars
  <2>1. CASE i \in DOMAIN Sample
    BY <1>4, <1>5, <1>7, <2>1 DEF InvSample
  <2>2. CASE i = Len(Sample) + 1
    BY <1>2, <1>5, <1>7, <2>2
  <2> QED
    BY <1>5, <2>1, <2>2
<1>9. InvKept'
  <2> SUFFICES ASSUME NEW e \in 1..events, e \notin excused'
               PROVE  \/ shown[e] = 1
                      \/ \E i \in DOMAIN Sample' : e \in Sample'[i].val
                      \/ \E l \in Lanes : e \in dev'[l]
    BY <1>1 DEF InvKept, guiVars
  <2>1. CASE e \in dev[Lane]
    BY <1>2, <1>5, <2>1
  <2>2. CASE e \notin dev[Lane]
    BY <1>1, <1>4, <1>5, <2>2 DEF InvKept
  <2> QED
    BY <2>1, <2>2
<1> QED
  BY <1>3, <1>4, <1>6, <1>8, <1>9
\* A report is drawn: each event in it is counted once, for the one trace
\* that read it, and leaves the sample as it is counted.
LEMMA OnSamplesStep ==
  ASSUME IInv, OnSamples
  PROVE  IInv'
<1> USE DEF IInv
<1> DEFINE q == queue[1]
           At(e) == {i \in DOMAIN curve : ~q[i].error /\ e \in q[i].val}
<1>1. /\ queue # <<>> /\ Len(queue) = 1 /\ queue \in Seq(Seq(ReportSet))
      /\ q \in Seq(ReportSet) /\ Len(q) = Len(traces) /\ phase = "run"
      /\ io.at = 0 /\ io.results = <<>> /\ io.stage = "read"
      /\ Sample = q
  BY DEF OnSamples, InvIo, Sample
<1>2. DOMAIN curve = DOMAIN q
  BY <1>1 DEF InvTraces
<1>3. Head(queue) = q
  BY <1>1
<1>4. /\ queue' = <<>> /\ DOMAIN curve' = DOMAIN curve
      /\ shown' = [e \in DOMAIN shown |-> shown[e] + Cardinality(At(e))]
      /\ UNCHANGED <<phase, todo, base, traces, io, dev, events, excused>>
  <2>1. queue' = Tail(queue)
    BY DEF OnSamples
  <2>2. Tail(queue) \in Seq(Seq(ReportSet)) /\ Len(Tail(queue)) = 0
    BY <1>1
  <2>3. Tail(queue) = <<>>
    BY <2>2, EmptySeq
  <2> QED
    BY <1>3, <2>1, <2>3 DEF OnSamples, At
<1>5. Sample' = <<>>
  BY <1>1, <1>4 DEF Sample
\* The trace that read event e, if there is one.
<1>6. ASSUME NEW e \in 1..MaxEvents, NEW i \in DOMAIN q, e \in q[i].val
      PROVE  shown[e] = 0 /\ Cardinality(At(e)) = 1 /\ e <= events /\ \A l \in Lanes : e \notin dev[l]
  <2>1. e > 0 /\ e \in Sample[i].val /\ i \in DOMAIN Sample
    BY <1>1, <1>6
  <2>2. /\ shown[e] = 0 /\ e <= events /\ ~q[i].error
        /\ \A l \in Lanes : e \notin dev[l]
        /\ \A j \in DOMAIN q : e \in q[j].val => i = j
    BY <1>1, <2>1, BoundsAssumption DEF InvSample, InvDevice
  <2>3. At(e) = {i}
    BY <1>2, <1>6, <2>2
  <2> HIDE DEF At
  <2> QED
    BY <2>2, <2>3, FS_Singleton
<1>7. ASSUME NEW e \in 1..MaxEvents, \A i \in DOMAIN q : e \notin q[i].val
      PROVE  Cardinality(At(e)) = 0
  <2>1. At(e) = {}
    BY <1>2, <1>7
  <2> HIDE DEF At
  <2> QED
    BY <2>1, FS_EmptySet
<1> HIDE DEF At
<1>8. \A e \in 1..MaxEvents : shown'[e] = shown[e] + Cardinality(At(e))
  BY <1>4 DEF InvShown
<1>9. InvTraces' /\ InvIo'
  BY <1>1, <1>4 DEF InvTraces, InvIo
<1>10. InvDevice'
  BY <1>1, <1>4 DEF InvDevice
<1>11. InvShown'
  <2>1. \A e \in 1..MaxEvents : shown'[e] \in 0..1
    BY <1>6, <1>7, <1>8 DEF InvShown
  <2>2. shown' \in [1..MaxEvents -> 0..1]
    BY <1>4, <1>8, <2>1 DEF InvShown
  <2>3. ASSUME NEW e \in 1..MaxEvents, shown'[e] = 1
        PROVE  e <= events /\ \A l \in Lanes : e \notin dev[l]
    BY <1>6, <1>7, <1>8, <2>3 DEF InvShown
  <2> QED
    BY <1>4, <2>2, <2>3 DEF InvShown
<1>12. InvSample'
  BY <1>5 DEF InvSample
<1>13. InvKept'
  <2> SUFFICES ASSUME NEW e \in 1..events, e \notin excused
               PROVE  shown'[e] = 1 \/ \E l \in Lanes : e \in dev[l]
    BY <1>4 DEF InvKept
  <2>1. e \in 1..MaxEvents
    BY BoundsAssumption DEF InvDevice
  <2>2. CASE \E i \in DOMAIN q : e \in q[i].val
    BY <1>6, <1>8, <2>1, <2>2
  <2>3. CASE \A i \in DOMAIN q : e \notin q[i].val
    BY <1>1, <1>7, <1>8, <2>1, <2>3 DEF InvKept, InvShown
  <2> QED
    BY <2>2, <2>3
<1> QED
  BY <1>9, <1>10, <1>11, <1>12, <1>13

\* A new event is at one element and nowhere else.
LEMMA EventStep ==
  ASSUME IInv, NEW lane \in Lanes, Event(lane)
  PROVE  IInv'
<1> USE DEF IInv
<1> DEFINE e == events + 1
<1>1. /\ events < MaxEvents /\ events \in Nat /\ events' = e
      /\ dev' = [dev EXCEPT ![lane] = dev[lane] \cup {e}]
      /\ UNCHANGED <<guiVars, io, queue, excused>>
  BY BoundsAssumption DEF Event, InvDevice
<1>2. /\ e \in 1..MaxEvents /\ shown[e] = 0 /\ \A l \in Lanes : e \notin dev[l]
      /\ \A i \in DOMAIN Sample : e \notin Sample[i].val
  BY <1>1, BoundsAssumption DEF InvShown, InvDevice, InvSample
<1>3. \A l \in Lanes : dev'[l] = IF l = lane THEN dev[l] \cup {e} ELSE dev[l]
  BY <1>1 DEF InvDevice
<1>4. Sample' = Sample /\ Lane' = Lane /\ shown' = shown
  BY <1>1 DEF Sample, Lane, Trace, guiVars
<1>5. InvTraces' /\ InvIo'
  BY <1>1 DEF guiVars, InvTraces, InvIo
<1>6. InvDevice'
  <2>1. events' \in 0..MaxEvents
    BY <1>1, BoundsAssumption
  <2>2. dev' \in [Lanes -> SUBSET (1..events')]
    BY <1>1 DEF InvDevice
  <2>3. \A l, m \in Lanes : l # m => dev'[l] \cap dev'[m] = {}
    <3>1. ASSUME NEW l \in Lanes, NEW m \in Lanes, l # m PROVE dev'[l] \cap dev'[m] = {}
      <4>1. /\ dev[l] \cap dev[m] = {} /\ e \notin dev[l] /\ e \notin dev[m]
            /\ dev'[l] = (IF l = lane THEN dev[l] \cup {e} ELSE dev[l])
            /\ dev'[m] = (IF m = lane THEN dev[m] \cup {e} ELSE dev[m])
        BY <1>2, <1>3, <3>1 DEF InvDevice
      <4> HIDE DEF e
      <4>2. CASE l = lane
        BY <4>1, <4>2, <3>1
      <4>3. CASE l # lane
        BY <4>1, <4>3
      <4> QED
        BY <4>2, <4>3
    <3> QED
      BY <3>1
  <2>4. io.stage = "clear" => io.val \subseteq dev'[Lane]
    <3>1. ASSUME io.stage = "clear" PROVE Lane \in Lanes
      BY <3>1, LaneAtSampler DEF InvIo
    <3> QED
      BY <1>3, <3>1 DEF InvDevice
  <2> QED
    BY <1>1, <1>4, <2>1, <2>2, <2>3, <2>4 DEF InvDevice
<1>7. InvShown'
  BY <1>1, <1>2, <1>3, <1>4 DEF InvShown
<1>8. InvSample'
  BY <1>1, <1>2, <1>3, <1>4 DEF InvSample
<1>9. InvKept'
  <2>1. SUFFICES ASSUME NEW f \in 1..events', f \notin excused'
                 PROVE  \/ shown'[f] = 1
                        \/ \E i \in DOMAIN Sample' : f \in Sample'[i].val
                        \/ \E l \in Lanes : f \in dev'[l]
    BY DEF InvKept
  <2>2. CASE f = e
    BY <1>3, <2>2
  <2>3. CASE f # e
    <3>1. f \in 1..events
      BY <1>1, <2>3
    <3>2. \A l \in Lanes : dev[l] \subseteq dev'[l]
      <4> HIDE DEF e
      <4> QED
        BY <1>3
    <3> QED
      BY <1>1, <1>4, <2>1, <3>1, <3>2 DEF InvKept
  <2> QED
    BY <2>2, <2>3
<1> QED
  BY <1>5, <1>6, <1>7, <1>8, <1>9

\* The other steps of the GUI start a sample, or touch neither it nor the
\* device.
LEMMA GuiStep ==
  ASSUME IInv,
         UNCHANGED <<traces, queue, dev, events, shown, excused, todo, base>>,
         DOMAIN curve' = DOMAIN curve,
         phase' = phase \/ (phase = "run" /\ phase' = "closing") \/ phase' = "closed",
         UNCHANGED <<inflight, io>> \/ Tick
  PROVE  IInv'
<1> USE DEF IInv
<1>1. CASE UNCHANGED <<inflight, io>>
  <2>1. InvTraces' /\ InvIo'
    BY <1>1 DEF InvTraces, InvIo
  <2>2. Sample' = Sample /\ Lane' = Lane
    BY <1>1 DEF Sample, Lane, Trace
  <2> QED
    BY <1>1, <2>1, <2>2 DEF InvDevice, InvShown, InvSample, InvKept
<1>2. CASE Tick
  <2>1. /\ phase = "run" /\ phase' = phase /\ ~inflight /\ inflight' /\ io' = Started
    BY <1>2 DEF Tick
  <2>2. io.at = 0 /\ io.results = <<>> /\ queue = <<>> /\ Len(traces) \in Nat /\ Len(traces) >= 1
    BY <2>1 DEF InvIo, InvTraces
  <2>3. io' = [at |-> 1, stage |-> "read", val |-> {}, results |-> <<>>]
    BY <2>1 DEF Started, Idle
  <2>4. InvTraces'
    BY <2>1 DEF InvTraces
  <2>5. InvIo'
    BY <2>1, <2>2, <2>3 DEF InvIo
  <2>6. Sample = <<>> /\ Sample' = <<>>
    BY <2>2, <2>3 DEF Sample
  <2> QED
    BY <2>3, <2>4, <2>5, <2>6 DEF InvDevice, InvShown, InvSample, InvKept
<1> QED
  BY <1>1, <1>2
\* Every step keeps the invariant of the events.
LEMMA NextIInv == IInv /\ [Next]_vars => IInv'
<1> SUFFICES ASSUME IInv, [Next]_vars PROVE IInv'
  OBVIOUS
<1>1. CASE Setup
  BY <1>1, SetupStep
<1>2. ASSUME NEW n \in Lengths, OnLengthChanged(n) PROVE IInv'
  BY <1>2, GuiStep DEF OnLengthChanged
<1>3. ASSUME NEW p \in Periods, OnPeriodChanged(p) PROVE IInv'
  BY <1>3, GuiStep DEF OnPeriodChanged
<1>4. CASE Tick
  <2>1. /\ UNCHANGED <<phase, traces, curve, queue, dev, events, shown, excused, todo, base>>
    BY <1>4 DEF Tick
  <2> QED
    BY <1>4, <2>1, GuiStep
<1>5. CASE OnSamples
  BY <1>5, OnSamplesStep
<1>6. CASE Close
  BY <1>6, GuiStep DEF Close
<1>7. CASE LoopStop
  BY <1>7, GuiStep DEF LoopStop
<1>8. CASE IoStep
  <2>1. CASE IoReadFails
    <3>1. io.at > 0 /\ Failed /\ UNCHANGED <<guiVars, dev, events, excused>>
      BY <2>1 DEF IoReadFails, Sampling
    <3> QED
      BY <3>1, FailedStep
  <2>2. CASE IoReadRc
    BY <2>2, IoReadRcStep
  <2>3. ASSUME NEW val \in {{}, {0}}, IoRead(val) PROVE IInv'
    BY <2>3, IoReadStep
  <2>4. CASE IoClear
    BY <2>4, IoClearStep
  <2>5. ASSUME NEW effect \in BOOLEAN, IoClearFails(effect) PROVE IInv'
    BY <2>5, IoClearFailsStep
  <2> QED
    BY <1>8, <2>1, <2>2, <2>3, <2>4, <2>5 DEF IoStep
<1>9. ASSUME NEW l \in Lanes, Event(l) PROVE IInv'
  BY <1>9, EventStep
<1>10. CASE UNCHANGED vars
  <2>1. UNCHANGED <<phase, traces, curve, queue, dev, events, shown, excused, todo, base,
                    inflight, io>>
    BY <1>10 DEF vars
  <2> QED
    BY <2>1, GuiStep
<1> QED
  BY <1>1, <1>2, <1>3, <1>4, <1>5, <1>6, <1>7, <1>8, <1>9, <1>10 DEF Next

\* The invariant says that no event is plotted twice or lost.
LEMMA IInvImplies == IInv => EventsPlottedOnce
<1> SUFFICES ASSUME IInv, NEW e \in 1..events
             PROVE  /\ shown[e] <= 1
                    /\ e \notin excused =>
                         shown[e] = 1 \/ e \in Held \/ \E l \in Lanes : e \in dev[l]
  BY DEF EventsPlottedOnce
<1> USE DEF IInv
<1>1. shown[e] <= 1
  BY BoundsAssumption DEF InvDevice, InvShown
<1>2. ASSUME NEW i \in DOMAIN Sample, e \in Sample[i].val
      PROVE  e \in Held
  <2>1. CASE queue = <<>>
    <3>1. io.results[i] \in ToSet(io.results)
      BY <1>2, <2>1 DEF Sample, ToSet
    <3> QED
      BY <1>2, <2>1, <3>1 DEF Held, Sample
  <2>2. CASE queue # <<>>
    <3>1. queue[1] \in ToSet(queue)
      BY <2>2 DEF InvIo, ToSet
    <3>2. queue[1][i] \in ToSet(queue[1])
      BY <1>2, <2>2 DEF Sample, ToSet
    <3>3. queue[1][i] \in UNION {ToSet(q) : q \in ToSet(queue)}
      BY <3>1, <3>2
    <3>4. e \in queue[1][i].val
      BY <1>2, <2>2 DEF Sample
    <3> DEFINE A == UNION {r.val : r \in ToSet(io.results)}
               B == UNION {r.val : r \in UNION {ToSet(q) : q \in ToSet(queue)}}
    <3>5. e \in B
      BY <3>3, <3>4, Zenon
    <3>6. Held = (io.val \cup A) \cup B
      BY DEF Held
    <3> HIDE DEF A, B
    <3> QED
      BY <3>5, <3>6
  <2> QED
    BY <2>1, <2>2
<1> QED
  BY <1>1, <1>2 DEF InvKept

\* No event of an rc register is plotted twice, and one that is neither at the
\* device, nor in a sample, nor plotted, came between the read and the clear
\* of its element or was in a sample that raised after the clear
\* (Trace.sample, PlotApp._sample_all, PlotApp.on_samples).
THEOREM EventsAreKept == Spec => []EventsPlottedOnce
<1>1. Init => IInv
  BY InitIInv
<1>2. IInv /\ [Next]_vars => IInv'
  BY NextIInv
<1>3. IInv => EventsPlottedOnce
  BY IInvImplies
<1> QED
  BY <1>1, <1>2, <1>3, PTL DEF Spec

-----------------------------------------------------------------------------
(* The curves: what a sample, a trim and a change of the options leave.    *)

SampleSet == [t : Nat, val : SUBSET Nat, ok : BOOLEAN]
CurveSet == [xs : Seq(SampleSet), bad : Seq(Nat), readError : BOOLEAN]

\* A curve of at most n samples, none later than time t.
CurveOk(c, n, t) ==
  /\ c \in CurveSet
  /\ Len(c.xs) <= n
  /\ InStep(c.xs, c.bad)
  /\ \A k \in DOMAIN c.xs : c.xs[k].t <= t

InvCurves ==
  /\ clock \in Nat
  /\ length \in 1..LengthMax
  /\ \A i \in DOMAIN curve : CurveOk(curve[i], length, clock)
  /\ rangesFixed => xrange = <<length, period>>

\* The newest samples are the end of the samples there were.
EndOf(ys, xs) ==
  \E d \in Nat : Len(ys) + d = Len(xs) /\ \A k \in DOMAIN ys : ys[k] = xs[k + d]

\* The newest n samples are an end of them, of n at most.
LEMMA NewestIsEnd ==
  ASSUME NEW xs \in Seq(SampleSet), NEW n \in Nat
  PROVE  Newest(xs, n) \in Seq(SampleSet) /\ Len(Newest(xs, n)) <= n /\ EndOf(Newest(xs, n), xs)
<1>1. CASE Len(xs) <= n
  <2>1. Newest(xs, n) = xs
    BY <1>1 DEF Newest
  <2>2. Len(xs) + 0 = Len(xs) /\ \A k \in DOMAIN xs : k + 0 = k
    OBVIOUS
  <2>3. EndOf(xs, xs)
    BY <2>2 DEF EndOf
  <2> QED
    BY <1>1, <2>1, <2>3
<1>2. CASE ~(Len(xs) <= n)
  <2> DEFINE d == Len(xs) - n
  <2>1. Len(xs) \in Nat /\ d \in Nat /\ d > 0
    BY <1>2
  <2>2. Newest(xs, n) = SubSeq(xs, d + 1, Len(xs))
    BY <1>2 DEF Newest
  <2>3. \A i \in (d + 1)..Len(xs) : xs[i] \in SampleSet
    BY <2>1
  <2> HIDE DEF d
  <2> DEFINE ys == SubSeq(xs, d + 1, Len(xs))
  <2>4. /\ ys \in Seq(SampleSet)
        /\ Len(ys) = IF d + 1 <= Len(xs) THEN Len(xs) - (d + 1) + 1 ELSE 0
        /\ \A i \in 1..Len(xs) - (d + 1) + 1 : ys[i] = xs[d + 1 + i - 1]
    BY <2>1, <2>3, SubSeqProperties
  <2> HIDE DEF ys
  <2>5. d = Len(xs) - n
    BY DEF d
  <2>6. Len(ys) = n /\ Len(ys) + d = Len(xs)
    BY <2>1, <2>4, <2>5
  <2>7. DOMAIN ys = 1..Len(ys) /\ \A k \in 1..Len(ys) : ys[k] = xs[k + d]
    BY <2>1, <2>4, <2>6
  <2>8. EndOf(ys, xs)
    BY <2>1, <2>6, <2>7 DEF EndOf
  <2> QED
    BY <2>2, <2>4, <2>6, <2>8 DEF ys
<1> QED
  BY <1>1, <1>2

\* Of markers in order, popping keeps those that are not before the window.
LEMMA InWindowKeeps ==
  ASSUME NEW bad \in Seq(Nat), NEW ys \in Seq(SampleSet), Increasing(bad)
  PROVE  /\ InWindow(bad, ys) \in Seq(Nat)
         /\ Increasing(InWindow(bad, ys))
         /\ ToSet(InWindow(bad, ys)) = {t \in ToSet(bad) : ys # <<>> /\ ~(t < ys[1].t)}
<1> DEFINE Gone(k) == ys = <<>> \/ bad[k] < ys[1].t
           Popped(n) == (\A k \in 1..n : Gone(k)) /\ (n < Len(bad) => ~Gone(n + 1))
           n0 == CHOOSE n \in 0..Len(bad) : Popped(n)
           left == SubSeq(bad, n0 + 1, Len(bad))
<1>1. Len(bad) \in Nat /\ DOMAIN bad = 1..Len(bad)
  OBVIOUS
<1>2. InWindow(bad, ys) = left
  BY DEF InWindow
<1>3. \E n \in 0..Len(bad) : Popped(n)
  <2> DEFINE T == {k \in 1..Len(bad) : ~Gone(k)}
  <2>1. CASE T = {}
    <3>1. \A k \in 1..Len(bad) : Gone(k)
      BY <2>1
    <3> HIDE DEF Gone
    <3> QED
      BY <1>1, <3>1
  <2>2. CASE T # {}
    <3>1. PICK m \in T : \A k \in T : m <= k
      <4>1. T \in SUBSET Nat
        BY <1>1
      <4> HIDE DEF T
      <4> QED
        BY <2>2, <4>1, LeastOf
    <3> HIDE DEF Gone
    <3>2. m - 1 \in 0..Len(bad) /\ Popped(m - 1)
      BY <1>1, <3>1
    <3> QED
      BY <3>2
  <2> QED
    BY <2>1, <2>2
<1>4. n0 \in 0..Len(bad) /\ Popped(n0)
  <2> HIDE DEF Popped
  <2> QED
    BY <1>3
<1> HIDE DEF n0
<1> HIDE DEF Gone, Popped
<1>5. n0 \in Nat /\ n0 <= Len(bad) /\ \A i \in (n0 + 1)..Len(bad) : bad[i] \in Nat
  BY <1>1, <1>4
<1>6. /\ left \in Seq(Nat)
      /\ Len(left) = IF n0 + 1 <= Len(bad) THEN Len(bad) - (n0 + 1) + 1 ELSE 0
      /\ \A i \in 1..Len(bad) - (n0 + 1) + 1 : left[i] = bad[n0 + 1 + i - 1]
  <2> DEFINE m == n0 + 1
  <2>1. m \in Int /\ Len(bad) \in Int /\ \A i \in m..Len(bad) : bad[i] \in Nat
    BY <1>1, <1>5
  <2> HIDE DEF m
  <2>2. /\ SubSeq(bad, m, Len(bad)) \in Seq(Nat)
        /\ Len(SubSeq(bad, m, Len(bad))) = IF m <= Len(bad) THEN Len(bad) - m + 1 ELSE 0
        /\ \A i \in 1..Len(bad) - m + 1 : SubSeq(bad, m, Len(bad))[i] = bad[m + i - 1]
    BY <2>1, SubSeqProperties
  <2> QED
    BY <2>2 DEF m
<1> HIDE DEF left
<1>7. Len(left) = Len(bad) - n0 /\ \A i \in 1..Len(left) : left[i] = bad[n0 + i]
  <2>1. Len(bad) \in Nat /\ n0 \in Nat /\ n0 <= Len(bad)
    BY <1>1, <1>5
  <2>2. Len(left) = Len(bad) - n0
    BY <1>6, <2>1
  <2>3. ASSUME NEW i \in 1..Len(left) PROVE left[i] = bad[n0 + i]
    <3>1. i \in 1..Len(bad) - (n0 + 1) + 1 /\ n0 + 1 + i - 1 = n0 + i
      BY <2>1, <2>2
    <3> QED
      BY <1>6, <3>1
  <2> QED
    BY <2>2, <2>3
<1>8. Increasing(left)
  <2> SUFFICES ASSUME NEW j \in DOMAIN left, NEW k \in DOMAIN left, j < k
               PROVE  left[j] < left[k]
    BY DEF Increasing
  <2>0. left \in Seq(Nat)
    BY <1>6
  <2>1. DOMAIN left = 1..Len(left) /\ Len(left) \in Nat
    BY <2>0
  <2>2. n0 + j \in 1..Len(bad) /\ n0 + k \in 1..Len(bad) /\ n0 + j < n0 + k
    <3> DEFINE m == Len(left)
               q == Len(bad)
    <3>1. m \in Nat /\ q \in Nat /\ n0 \in Nat /\ q = n0 + m /\ j \in 1..m /\ k \in 1..m
      BY <1>1, <1>5, <1>7, <2>1
    <3> HIDE DEF m, q
    <3>2. n0 + j \in 1..q /\ n0 + k \in 1..q /\ n0 + j < n0 + k
      BY <3>1
    <3> QED
      BY <3>2 DEF q
  <2>3. bad[n0 + j] < bad[n0 + k]
    BY <1>1, <2>2 DEF Increasing
  <2> QED
    BY <1>7, <2>1, <2>3
<1>9. ASSUME NEW i \in 1..Len(bad) PROVE Gone(i) <=> i <= n0
  <2>1. CASE i <= n0
    <3>1. i \in 1..n0
      BY <1>5, <2>1
    <3> QED
      BY <1>4, <2>1, <3>1 DEF Popped
  <2>2. CASE i > n0
    <3>1. n0 < Len(bad) /\ n0 + 1 \in 1..Len(bad) /\ n0 + 1 <= i
      BY <1>1, <1>5, <2>2
    <3>2. ~Gone(n0 + 1)
      BY <1>4, <3>1 DEF Popped
    <3>3. n0 + 1 = i \/ bad[n0 + 1] < bad[i]
      <4>1. CASE n0 + 1 < i
        BY <1>1, <3>1, <4>1 DEF Increasing
      <4> QED
        BY <1>5, <3>1, <4>1
    <3>4. ys # <<>> /\ ~(bad[n0 + 1] < ys[1].t)
      BY <3>2 DEF Gone
    <3>5. ys[1] \in SampleSet
      BY <3>4
    <3>6. ys[1].t \in Nat /\ bad[i] \in Nat /\ bad[n0 + 1] \in Nat
      BY <1>1, <3>1, <3>5 DEF SampleSet
    <3>7. ~(bad[i] < ys[1].t)
      BY <3>3, <3>4, <3>6
    <3> QED
      BY <1>5, <2>2, <3>4, <3>7 DEF Gone
  <2> QED
    BY <1>5, <2>1, <2>2
<1>10. ToSet(left) = {t \in ToSet(bad) : ys # <<>> /\ ~(t < ys[1].t)}
  <2>1. ASSUME NEW k \in 1..Len(left)
        PROVE  left[k] \in {t \in ToSet(bad) : ys # <<>> /\ ~(t < ys[1].t)}
    <3>1. n0 + k \in 1..Len(bad) /\ ~(n0 + k <= n0) /\ left[k] = bad[n0 + k]
      BY <1>1, <1>5, <1>7
    <3>2. ~Gone(n0 + k)
      BY <1>9, <3>1
    <3> QED
      BY <1>1, <3>1, <3>2 DEF ToSet, Gone
  <2>2. ASSUME NEW i \in 1..Len(bad), ys # <<>>, ~(bad[i] < ys[1].t)
        PROVE  bad[i] \in ToSet(left)
    <3>1. ~(i <= n0)
      BY <1>9, <2>2 DEF Gone
    <3>2. i - n0 \in 1..Len(left) /\ left[i - n0] = bad[i]
      BY <1>1, <1>5, <1>7, <3>1
    <3> QED
      BY <1>6, <3>2 DEF ToSet
  <2> QED
    BY <1>1, <1>6, <2>1, <2>2 DEF ToSet
<1> QED
  BY <1>2, <1>6, <1>8, <1>10

\* Dropping the oldest samples and then the markers out of the window keeps
\* samples and markers in step.
LEMMA EndInStep ==
  ASSUME NEW xs \in Seq(SampleSet), NEW bad \in Seq(Nat), InStep(xs, bad),
         NEW ys \in Seq(SampleSet), EndOf(ys, xs)
  PROVE  InWindow(bad, ys) \in Seq(Nat) /\ InStep(ys, InWindow(bad, ys))
<1> DEFINE left == InWindow(bad, ys)
<1>1. PICK d \in Nat : Len(ys) + d = Len(xs) /\ \A k \in DOMAIN ys : ys[k] = xs[k + d]
  BY DEF EndOf
<1>2. /\ DOMAIN xs = 1..Len(xs) /\ Len(xs) \in Nat /\ DOMAIN ys = 1..Len(ys) /\ Len(ys) \in Nat
      /\ \A k \in DOMAIN xs : xs[k].t \in Nat
      /\ \A j, k \in DOMAIN xs : j < k => xs[j].t < xs[k].t
  <2>1. \A k \in DOMAIN xs : xs[k] \in SampleSet
    OBVIOUS
  <2>2. \A s \in SampleSet : s.t \in Nat
    BY DEF SampleSet
  <2> QED
    BY <2>1, <2>2 DEF InStep
<1>3. ASSUME NEW j \in DOMAIN ys, NEW k \in DOMAIN ys, j < k
      PROVE  ys[j].t < ys[k].t
  <2>1. j + d \in DOMAIN xs /\ k + d \in DOMAIN xs /\ j + d < k + d
    BY <1>1, <1>2, <1>3
  <2>2. xs[j + d].t < xs[k + d].t
    BY <1>2, <2>1
  <2> QED
    BY <1>1, <2>2
<1>4. /\ left \in Seq(Nat) /\ Increasing(left)
      /\ ToSet(left) = {t \in ToSet(bad) : ys # <<>> /\ ~(t < ys[1].t)}
  BY InWindowKeeps DEF InStep
<1> HIDE DEF left
<1>5. ToSet(left) = {t \in FailedTimes(xs) : ys # <<>> /\ ~(t < ys[1].t)}
  BY <1>4 DEF InStep
<1>6. ASSUME NEW k \in DOMAIN ys, ~ys[k].ok
      PROVE  ys[k].t \in ToSet(left)
  <2>1. k + d \in DOMAIN xs /\ ys[k] = xs[k + d] /\ 1 \in DOMAIN ys /\ ys # <<>>
    BY <1>1, <1>2
  <2>2. ys[k].t \in FailedTimes(xs)
    BY <1>6, <2>1 DEF FailedTimes
  <2>3. ys[1] = xs[1 + d] /\ 1 + d \in DOMAIN xs /\ 1 + d <= k + d
    BY <1>1, <1>2, <2>1
  <2>4. 1 + d = k + d \/ xs[1 + d].t < xs[k + d].t
    <3>1. k \in Nat /\ k >= 1
      BY <1>2
    <3>2. k = 1 \/ 1 + d < k + d
      BY <3>1
    <3> QED
      BY <1>2, <2>1, <2>3, <3>2
  <2>5. ~(ys[k].t < ys[1].t)
    BY <1>2, <2>1, <2>3, <2>4
  <2> QED
    BY <1>5, <2>1, <2>2, <2>5
<1>7. ASSUME NEW i \in DOMAIN xs, ~xs[i].ok, ys # <<>>, ~(xs[i].t < ys[1].t)
      PROVE  xs[i].t \in FailedTimes(ys)
  <2>1. 1 \in DOMAIN ys /\ ys[1] = xs[1 + d] /\ 1 + d \in DOMAIN xs
    BY <1>1, <1>2, <1>7
  <2>2. ~(i < 1 + d)
    BY <1>1, <1>2, <1>7, <2>1
  <2>3. i - d \in DOMAIN ys /\ ys[i - d] = xs[i]
    BY <1>1, <1>2, <2>2
  <2> QED
    BY <1>7, <2>3 DEF FailedTimes
<1>8. ToSet(left) = FailedTimes(ys)
  BY <1>5, <1>6, <1>7 DEF FailedTimes
<1> QED
  BY <1>3, <1>4, <1>8 DEF InStep, left

\* A sample later than all there are.
LEMMA GrownInStep ==
  ASSUME NEW xs \in Seq(SampleSet), NEW bad \in Seq(Nat), InStep(xs, bad),
         NEW s \in SampleSet, \A k \in DOMAIN xs : xs[k].t < s.t
  PROVE  InStep(Append(xs, s), IF s.ok THEN bad ELSE Append(bad, s.t))
<1> DEFINE zs == Append(xs, s)
           marks == IF s.ok THEN bad ELSE Append(bad, s.t)
           n == Len(xs)
<1>1. /\ n \in Nat /\ DOMAIN xs = 1..n /\ zs \in Seq(SampleSet) /\ DOMAIN zs = 1..(n + 1)
      /\ \A k \in 1..n : zs[k] = xs[k]
      /\ zs[n + 1] = s
  OBVIOUS
<1> HIDE DEF zs, n
<1>2. \A j, k \in DOMAIN zs : j < k => zs[j].t < zs[k].t
  <2> SUFFICES ASSUME NEW j \in 1..(n + 1), NEW k \in 1..(n + 1), j < k
               PROVE  zs[j].t < zs[k].t
    BY <1>1
  <2>1. j \in 1..n /\ (k \in 1..n \/ k = n + 1)
    BY <1>1
  <2> QED
    BY <1>1, <2>1 DEF InStep
<1>3. FailedTimes(zs) = FailedTimes(xs) \cup (IF s.ok THEN {} ELSE {s.t})
  <2>1. \A k : k \in DOMAIN zs <=> k \in DOMAIN xs \/ k = n + 1
    BY <1>1
  <2> QED
    BY <1>1, <2>1 DEF FailedTimes
<1>4. ToSet(bad) = FailedTimes(xs) /\ Increasing(bad)
  BY DEF InStep
<1>5. CASE s.ok
  BY <1>2, <1>3, <1>4, <1>5 DEF InStep, zs
<1>6. CASE ~s.ok
  <2> DEFINE m == Len(bad)
  <2>1. /\ m \in Nat /\ DOMAIN bad = 1..m /\ DOMAIN marks = 1..(m + 1)
        /\ \A k \in 1..m : marks[k] = bad[k]
        /\ marks[m + 1] = s.t
    BY <1>6
  <2> HIDE DEF marks, m
  <2>2. \A k \in 1..m : bad[k] < s.t
    <3> SUFFICES ASSUME NEW k \in 1..m PROVE bad[k] < s.t
      OBVIOUS
    <3>1. bad[k] \in FailedTimes(xs)
      BY <1>4, <2>1 DEF ToSet
    <3> QED
      BY <3>1 DEF FailedTimes
  <2>3. Increasing(marks)
    <3> SUFFICES ASSUME NEW j \in 1..(m + 1), NEW k \in 1..(m + 1), j < k
                 PROVE  marks[j] < marks[k]
      BY <2>1 DEF Increasing
    <3>1. j \in 1..m /\ (k \in 1..m \/ k = m + 1)
      BY <2>1
    <3> QED
      BY <1>4, <2>1, <2>2, <3>1 DEF Increasing
  <2>4. ToSet(marks) = ToSet(bad) \cup {s.t}
    <3>1. \A k : k \in DOMAIN marks <=> k \in DOMAIN bad \/ k = m + 1
      BY <2>1
    <3> QED
      BY <2>1, <3>1 DEF ToSet
  <2> QED
    BY <1>2, <1>3, <1>4, <1>6, <2>3, <2>4 DEF InStep, zs, marks
<1> QED
  BY <1>5, <1>6

\* A curve stays in step when a sample is added.
LEMMA AddSampleOk ==
  ASSUME NEW c, NEW n \in Nat \ {0}, NEW t0 \in Nat, CurveOk(c, n, t0),
         NEW t \in Nat, t0 < t, NEW val \in SUBSET Nat, NEW ok \in BOOLEAN
  PROVE  CurveOk(AddSample(c, t, val, ok, n), n, t)
<1> DEFINE s == [t |-> t, val |-> val, ok |-> ok]
           old == Newest(c.xs, n - 1)
           xs == Append(old, s)
           marks == IF ok THEN c.bad ELSE Append(c.bad, t)
           zs == Append(c.xs, s)
<1>1. /\ c.xs \in Seq(SampleSet) /\ c.bad \in Seq(Nat)
      /\ InStep(c.xs, c.bad)
      /\ \A k \in DOMAIN c.xs : c.xs[k].t \in Nat /\ c.xs[k].t <= t0
  <2>1. c.xs \in Seq(SampleSet) /\ c.bad \in Seq(Nat)
    BY DEF CurveOk, CurveSet
  <2>2. \A k \in DOMAIN c.xs : c.xs[k] \in SampleSet
    BY <2>1
  <2> QED
    BY <2>1, <2>2 DEF CurveOk, SampleSet
<1>2. s \in SampleSet /\ s.t = t /\ s.ok = ok
  BY DEF SampleSet
<1>3. n - 1 \in Nat
  OBVIOUS
<1>4. old \in Seq(SampleSet) /\ Len(old) <= n - 1 /\ EndOf(old, c.xs)
  BY <1>1, <1>3, NewestIsEnd
<1> HIDE DEF s, old
<1>5. /\ xs \in Seq(SampleSet) /\ Len(xs) = Len(old) + 1
      /\ DOMAIN xs = 1..(Len(old) + 1) /\ Len(old) \in Nat
      /\ \A k \in 1..Len(old) : xs[k] = old[k]
      /\ xs[Len(old) + 1] = s
  BY <1>2, <1>4
<1>6. /\ zs \in Seq(SampleSet) /\ Len(zs) = Len(c.xs) + 1 /\ Len(c.xs) \in Nat
      /\ \A k \in 1..Len(c.xs) : zs[k] = c.xs[k]
      /\ zs[Len(c.xs) + 1] = s
  BY <1>1, <1>2
<1>7. marks \in Seq(Nat)
  BY <1>1
<1>8. InStep(zs, marks)
  <2>1. \A k \in DOMAIN c.xs : c.xs[k].t < s.t
    BY <1>1, <1>2
  <2>2. marks = IF s.ok THEN c.bad ELSE Append(c.bad, s.t)
    BY <1>2
  <2> HIDE DEF marks
  <2> QED
    BY <1>1, <1>2, <2>1, <2>2, GrownInStep
<1> HIDE DEF marks, xs, zs
<1>9. EndOf(xs, zs)
  <2>1. PICK d \in Nat : Len(old) + d = Len(c.xs) /\ \A k \in DOMAIN old : old[k] = c.xs[k + d]
    BY <1>4 DEF EndOf
  <2> DEFINE m == Len(old)
  <2>2. m \in Nat /\ Len(xs) = m + 1 /\ Len(c.xs) = m + d /\ Len(zs) = Len(c.xs) + 1
    BY <1>5, <1>6, <2>1
  <2>3. Len(c.xs) + 1 = (m + 1) + d
    <3> HIDE DEF m
    <3> QED
      BY <2>2
  <2>4. Len(xs) + d = Len(zs)
    BY <2>2, <2>3
  <2>5. ASSUME NEW k \in DOMAIN xs PROVE xs[k] = zs[k + d]
    <3>1. CASE k \in 1..Len(old)
      <4>1. k \in DOMAIN old /\ k + d \in 1..Len(c.xs)
        BY <1>4, <1>5, <1>6, <2>1, <3>1
      <4> QED
        BY <1>5, <1>6, <2>1, <3>1, <4>1
    <3>2. CASE k = Len(old) + 1
      <4>1. k + d = Len(c.xs) + 1
        BY <2>3, <3>2
      <4> QED
        BY <1>5, <1>6, <3>2, <4>1
    <3> QED
      BY <1>5, <3>1, <3>2
  <2> QED
    BY <2>4, <2>5 DEF EndOf
<1>10. InWindow(marks, xs) \in Seq(Nat) /\ InStep(xs, InWindow(marks, xs))
  BY <1>5, <1>6, <1>7, <1>8, <1>9, EndInStep
<1>11. AddSample(c, t, val, ok, n) = [xs |-> xs, readError |-> FALSE, bad |-> InWindow(marks, xs)]
  BY DEF AddSample, xs, old, s, marks
<1>12. \A k \in DOMAIN xs : xs[k].t <= t
  <2> SUFFICES ASSUME NEW k \in DOMAIN xs PROVE xs[k].t <= t
    OBVIOUS
  <2>1. CASE k \in 1..Len(old)
    <3>1. PICK d \in Nat : Len(old) + d = Len(c.xs) /\ \A j \in DOMAIN old : old[j] = c.xs[j + d]
      BY <1>4 DEF EndOf
    <3>2. k + d \in DOMAIN c.xs /\ k \in DOMAIN old
      BY <1>1, <1>4, <1>5, <1>6, <2>1, <3>1
    <3>3. xs[k] = c.xs[k + d]
      BY <1>5, <2>1, <3>1, <3>2
    <3>4. c.xs[k + d].t \in Nat /\ c.xs[k + d].t <= t0
      BY <1>1, <3>2
    <3> QED
      BY <3>3, <3>4
  <2>2. CASE k = Len(old) + 1
    BY <1>2, <1>5, <2>2
  <2> QED
    BY <1>5, <2>1, <2>2
<1> QED
  BY <1>4, <1>5, <1>10, <1>11, <1>12 DEF CurveOk, CurveSet

\* What a changed curve is.
LEMMA CurveExcept ==
  ASSUME NEW c \in CurveSet, NEW xs \in Seq(SampleSet), NEW bad \in Seq(Nat)
  PROVE  /\ [c EXCEPT !.xs = xs, !.bad = bad] \in CurveSet
         /\ [c EXCEPT !.xs = xs, !.bad = bad].xs = xs
         /\ [c EXCEPT !.xs = xs, !.bad = bad].bad = bad
         /\ [c EXCEPT !.readError = TRUE] \in CurveSet
         /\ [c EXCEPT !.readError = TRUE].xs = c.xs
         /\ [c EXCEPT !.readError = TRUE].bad = c.bad
BY DEF CurveSet

\* A curve stays in step when it is trimmed.
LEMMA TrimTraceOk ==
  ASSUME NEW c, NEW m, NEW n \in Nat, NEW t \in Nat, CurveOk(c, m, t)
  PROVE  CurveOk(TrimTrace(c, n), n, t)
<1> DEFINE xs == Newest(c.xs, n)
           b == InWindow(c.bad, xs)
           d == [c EXCEPT !.xs = xs, !.bad = b]
<1>1. /\ c \in CurveSet /\ c.xs \in Seq(SampleSet) /\ c.bad \in Seq(Nat)
      /\ InStep(c.xs, c.bad)
      /\ \A k \in DOMAIN c.xs : c.xs[k].t <= t
  BY DEF CurveOk, CurveSet
<1>2. xs \in Seq(SampleSet) /\ Len(xs) <= n /\ EndOf(xs, c.xs)
  BY <1>1, NewestIsEnd
<1>3. TrimTrace(c, n) = d
  BY DEF TrimTrace
<1> HIDE DEF xs, d
<1>4. b \in Seq(Nat) /\ InStep(xs, b)
  BY <1>1, <1>2, EndInStep
<1> HIDE DEF b
<1>5. \A k \in DOMAIN xs : xs[k].t <= t
  <2>1. PICK k0 \in Nat : Len(xs) + k0 = Len(c.xs) /\ \A k \in DOMAIN xs : xs[k] = c.xs[k + k0]
    BY <1>2 DEF EndOf
  <2> SUFFICES ASSUME NEW k \in DOMAIN xs PROVE xs[k].t <= t
    OBVIOUS
  <2>2. k + k0 \in DOMAIN c.xs
    BY <1>1, <1>2, <2>1
  <2> QED
    BY <1>1, <2>1, <2>2
<1>6. d \in CurveSet /\ d.xs = xs /\ d.bad = b
  BY <1>1, <1>2, <1>4, CurveExcept DEF d, CurveSet
<1>7. CurveOk(d, n, t)
  BY <1>2, <1>4, <1>5, <1>6 DEF CurveOk
<1> QED
  BY <1>3, <1>7

\* A length that is typed in is clamped.
LEMMA LengthClamped ==
  ASSUME NEW n \in Lengths
  PROVE  ClampLength(n) \in 1..LengthMax
BY BoundsAssumption DEF ClampLength, Clamp

\* The curves start empty.
LEMMA InitCurves == Init => InvCurves
<1> SUFFICES ASSUME Init PROVE InvCurves
  OBVIOUS
<1>1. length \in 1..LengthMax
  BY LengthClamped DEF Init
<1>2. clock = 0 /\ curve = <<>> /\ rangesFixed = FALSE
  BY DEF Init
<1> QED
  BY <1>1, <1>2 DEF InvCurves

\* A step that leaves curves and options alone.
LEMMA CurvesFrame ==
  ASSUME InvCurves, UNCHANGED <<curve, length, period, rangesFixed, xrange, clock>>
  PROVE  InvCurves'
BY DEF InvCurves

\* The plot opens with empty curves.
LEMMA RunPlotAppCurves ==
  ASSUME InvCurves, NEW ts, RunPlotApp(ts)
  PROVE  InvCurves'
<1> DEFINE c0 == [xs |-> <<>>, bad |-> <<>>, readError |-> FALSE]
<1>1. /\ curve' = [i \in DOMAIN ts |-> c0]
      /\ UNCHANGED <<length, period, rangesFixed, xrange, clock>>
  BY DEF RunPlotApp
<1>2. CurveOk(c0, length, clock)
  <2>1. c0 \in CurveSet
    BY DEF CurveSet
  <2>2. Len(c0.xs) = 0 /\ DOMAIN c0.xs = {} /\ DOMAIN c0.bad = {}
    OBVIOUS
  <2>3. InStep(c0.xs, c0.bad)
    BY <2>2 DEF InStep, Increasing, FailedTimes, ToSet
  <2> QED
    BY <2>1, <2>2, <2>3 DEF CurveOk, InvCurves
<1> QED
  BY <1>1, <1>2 DEF InvCurves

\* A new length trims the curves.
LEMMA OnLengthChangedCurves ==
  ASSUME InvCurves, NEW n \in Lengths, OnLengthChanged(n)
  PROVE  InvCurves'
<1>1. /\ length' = ClampLength(n)
      /\ curve' = [i \in DOMAIN curve |-> TrimTrace(curve[i], length')]
      /\ xrange' = <<length', period>>
      /\ UNCHANGED <<period, rangesFixed, clock>>
  BY DEF OnLengthChanged
<1>2. length' \in 1..LengthMax /\ length' \in Nat /\ clock \in Nat
  BY <1>1, LengthClamped, BoundsAssumption DEF InvCurves
<1>3. ASSUME NEW i \in DOMAIN curve
      PROVE  CurveOk(TrimTrace(curve[i], length'), length', clock)
  BY <1>2, TrimTraceOk DEF InvCurves
<1>4. \A i \in DOMAIN curve' : CurveOk(curve'[i], length', clock')
  BY <1>1, <1>3
<1> QED
  BY <1>1, <1>2, <1>4 DEF InvCurves

\* A new period leaves the curves as they are.
LEMMA OnPeriodChangedCurves ==
  ASSUME InvCurves, NEW p \in Periods, OnPeriodChanged(p)
  PROVE  InvCurves'
BY DEF OnPeriodChanged, InvCurves

\* A report: one sample later than all there are, or an error.
LEMMA OnSamplesCurves ==
  ASSUME IInv, InvCurves, OnSamples
  PROVE  InvCurves'
<1>1. /\ phase = "run" /\ queue # <<>>
      /\ clock' = clock + 1
      /\ curve' = [i \in DOMAIN curve |-> Reported(curve[i], Head(queue)[i], clock')]
      /\ rangesFixed' => rangesFixed \/ xrange' = <<length, period>>
      /\ rangesFixed => xrange' = xrange
      /\ UNCHANGED <<length, period>>
  BY DEF OnSamples
<1>2. /\ clock \in Nat /\ clock' \in Nat /\ clock < clock'
      /\ length \in Nat \ {0} /\ length \in 1..LengthMax
  BY <1>1, BoundsAssumption DEF InvCurves
<1>3. ASSUME NEW i \in DOMAIN curve
      PROVE  CurveOk(Reported(curve[i], Head(queue)[i], clock'), length, clock')
  <2> DEFINE c == curve[i]
             r == Head(queue)[i]
  <2>1. r \in ReportSet
    <3>1. Head(queue) = queue[1] /\ queue[1] \in Seq(ReportSet) /\ Len(queue[1]) = Len(traces)
      BY <1>1 DEF IInv, InvIo
    <3>2. DOMAIN curve = DOMAIN traces /\ traces \in Seq(TraceSet)
      BY <1>1 DEF IInv, InvTraces
    <3> QED
      BY <3>1, <3>2
  <2>2. r.val \in SUBSET Nat /\ r.ok \in BOOLEAN
    BY <2>1 DEF ReportSet
  <2>3. CurveOk(c, length, clock)
    BY DEF InvCurves
  <2> HIDE DEF c, r
  <2>4. CASE r.error
    <3>1. Reported(c, r, clock') = [c EXCEPT !.readError = TRUE]
      BY <2>4 DEF Reported
    <3>2. c \in CurveSet /\ c.xs \in Seq(SampleSet)
      BY <2>3 DEF CurveOk, CurveSet
    <3> DEFINE e == [c EXCEPT !.readError = TRUE]
    <3>3. e \in CurveSet /\ e.xs = c.xs /\ e.bad = c.bad
      BY <3>2, CurveExcept DEF CurveSet
    <3> HIDE DEF e
    <3>4. \A k \in DOMAIN c.xs : c.xs[k].t <= clock'
      <4>1. \A k \in DOMAIN c.xs : c.xs[k] \in SampleSet /\ c.xs[k].t <= clock
        BY <2>3, <3>2 DEF CurveOk
      <4> QED
        BY <1>2, <4>1 DEF SampleSet
    <3> QED
      <4>1. CurveOk(e, length, clock')
        BY <2>3, <3>3, <3>4 DEF CurveOk
      <4> QED
        BY <3>1, <4>1 DEF c, e, r
  <2>5. CASE ~r.error
    <3>1. Reported(c, r, clock') = AddSample(c, clock', r.val, r.ok, length)
      BY <2>5 DEF Reported
    <3> QED
      BY <1>2, <2>2, <2>3, <3>1, AddSampleOk DEF c, r
  <2> QED
    BY <2>4, <2>5 DEF c, r
<1>4. \A i \in DOMAIN curve' : CurveOk(curve'[i], length', clock')
  BY <1>1, <1>3
<1> QED
  BY <1>1, <1>2, <1>4 DEF InvCurves

\* The command line or the application sets up the curves.
LEMMA SetupCurves ==
  ASSUME InvCurves, Setup
  PROVE  InvCurves'
<1>1. ASSUME Exit PROVE InvCurves'
  BY <1>1, CurvesFrame DEF Exit
<1>2. ASSUME NEW ts, Add(ts) PROVE InvCurves'
  BY <1>2, CurvesFrame DEF Add
<1>3. ASSUME NEW tokens \in Targets, Main(tokens) PROVE InvCurves'
  BY <1>3, CurvesFrame DEF Main
<1>4. ASSUME NEW tokens \in Targets, MainRefused(tokens) PROVE InvCurves'
  BY <1>1, <1>4 DEF MainRefused
<1>5. CASE BuildModule
  BY <1>5, CurvesFrame DEF BuildModule
<1>6. CASE BuildTrace
  BY <1>6, CurvesFrame DEF BuildTrace
<1>7. CASE BuildRefused
  BY <1>1, <1>7 DEF BuildRefused
<1>8. CASE BuildDone
  BY <1>8, RunPlotAppCurves DEF BuildDone
<1>9. CASE Run
  BY <1>1, <1>9, RunPlotAppCurves DEF Run
<1>10. ASSUME NEW a \in DOMAIN Maps, NEW n \in DOMAIN Maps[a],
              AddReg(a, n) \/ AddRegVecAll(a, n) \/ \E x \in 0..Maps[a][n].vec : AddRegVecIdx(a, n, x)
       PROVE  InvCurves'
  BY <1>2, <1>10 DEF AddReg, AddRegVecAll, AddRegVecIdx
<1> QED
  BY <1>3, <1>4, <1>5, <1>6, <1>7, <1>8, <1>9, <1>10 DEF Setup

\* Every step keeps the curves in step.
LEMMA NextCurves == IInv /\ InvCurves /\ [Next]_vars => InvCurves'
<1> SUFFICES ASSUME IInv, InvCurves, [Next]_vars PROVE InvCurves'
  OBVIOUS
<1>1. CASE Setup
  BY <1>1, SetupCurves
<1>2. ASSUME NEW n \in Lengths, OnLengthChanged(n) PROVE InvCurves'
  BY <1>2, OnLengthChangedCurves
<1>3. ASSUME NEW p \in Periods, OnPeriodChanged(p) PROVE InvCurves'
  BY <1>3, OnPeriodChangedCurves
<1>4. CASE OnSamples
  BY <1>4, OnSamplesCurves
<1>5. CASE Tick \/ Close \/ LoopStop
  BY <1>5, CurvesFrame DEF Tick, Close, LoopStop
<1>6. CASE IoStep
  <2>1. UNCHANGED guiVars
    BY <1>6 DEF IoStep, IoReadFails, IoReadRc, IoRead, IoClear, IoClearFails
  <2> QED
    BY <2>1, CurvesFrame DEF guiVars
<1>7. ASSUME NEW l \in Lanes, Event(l) PROVE InvCurves'
  BY <1>7, CurvesFrame DEF Event, guiVars
<1>8. CASE UNCHANGED vars
  BY <1>8, CurvesFrame DEF vars
<1> QED
  BY <1>1, <1>2, <1>3, <1>4, <1>5, <1>6, <1>7, <1>8 DEF Next

\* Whatever the order of reports, changes of the options and errors: a curve
\* is never longer than the length in use, its red markers are exactly its
\* samples that failed their v_check, in order, and the time axis once fixed
\* is that of the length and period in use (add_sample, trim_trace).
THEOREM CurvesStayInStep == Spec => []CurvesInStep
<1>1. Init => IInv /\ InvCurves
  BY InitIInv, InitCurves
<1>2. (IInv /\ InvCurves) /\ [Next]_vars => (IInv /\ InvCurves)'
  BY NextIInv, NextCurves
<1>3. IInv /\ InvCurves => CurvesInStep
  BY DEF InvCurves, CurvesInStep, CurveOk
<1> QED
  BY <1>1, <1>2, <1>3, PTL DEF Spec
=============================================================================
