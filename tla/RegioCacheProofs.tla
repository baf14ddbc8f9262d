-------------------------- MODULE RegioCacheProofs --------------------------
(***************************************************************************)
(* Proofs about RegioCache and about RegioCacheList, which implements it,  *)
(* for every address space and every byte set.                             *)
(***************************************************************************)
EXTENDS RegioCache, RegioCacheList, SequenceTheorems, FiniteSetTheorems, WellFoundedInduction,
        TLAPS

\* A byte a set of separated regions holds is the byte of whichever region
\* holds it: the CHOOSE in MemOf has one candidate.
LEMMA OneHolder ==
  ASSUME NEW R, AreRegions(R), AllApart(R), NEW r \in R, NEW s \in R,
         NEW x \in Int, Holds(r, x), Holds(s, x)
  PROVE  r = s
  BY DEF AreRegions, AllApart, Apart, Holds, IsRegion, Addr

\* An address in a region holds the byte of the region.
LEMMA MemOfHeld ==
  ASSUME NEW R, AreRegions(R), AllApart(R), NEW r \in R,
         NEW x \in Addr, Holds(r, x)
  PROVE  MemOf(R)[x] = r.val[x] /\ r.val[x] \in Byte
<1>1. x \in Int
  BY DEF Addr
<1>2. (CHOOSE s \in R : Holds(s, x)) = r
  BY <1>1, OneHolder
<1>3. r.val[x] \in Byte
  BY <1>1 DEF AreRegions, IsRegion, Holds, Addr
<1> QED
  BY <1>2, <1>3 DEF MemOf

\* An address in no region is a hole.
LEMMA MemOfHole ==
  ASSUME NEW R, NEW x \in Addr, \A r \in R : ~Holds(r, x)
  PROVE  MemOf(R)[x] = Hole
  BY DEF MemOf

\* What regions hold is a memory.
LEMMA MemOfType ==
  ASSUME NEW R, AreRegions(R), AllApart(R)
  PROVE  MemOf(R) \in [Addr -> Byte \cup {Hole}]
<1> SUFFICES ASSUME NEW x \in Addr PROVE MemOf(R)[x] \in Byte \cup {Hole}
  BY DEF MemOf
<1>1. CASE \E r \in R : Holds(r, x)
  BY <1>1, MemOfHeld
<1>2. CASE ~\E r \in R : Holds(r, x)
  BY <1>2, MemOfHole
<1> QED
  BY <1>1, <1>2

-----------------------------------------------------------------------------
\* The bounds _merge_write computes.  At most one region reaches below the
\* new data and at most one above it, because the regions are separated.
LEMMA MergedStartBound ==
  ASSUME NEW R, AreRegions(R), AllApart(R), NEW a \in Nat, NEW n \in Nat \ {0}
  PROVE  LET O == Overlapping(R, a, n)
             lo == MergedStart(O, a)
         IN  /\ lo \in {a} \cup {r.start : r \in O}
             /\ lo <= a
             /\ \A r \in O : lo <= r.start
<1> DEFINE O == Overlapping(R, a, n)
           P(lo) == lo <= a /\ \A r \in O : lo <= r.start
<1> SUFFICES \E lo \in {a} \cup {r.start : r \in O} : P(lo)
  BY DEF MergedStart
<1>1. \A r \in O : r \in R /\ r.start \in Int /\ r.end \in Int /\ a <= r.end
  BY DEF Overlapping, AreRegions, IsRegion, Addr
<1>2. CASE \E r \in O : r.start < a
  <2>1. PICK r \in O : r.start < a
    BY <1>2
  <2>2. \A s \in O : r.start <= s.start
    BY <2>1, <1>1 DEF AllApart, Apart
  <2> QED
    BY <2>1, <2>2, <1>1
<1>3. CASE ~\E r \in O : r.start < a
  BY <1>3, <1>1
<1> QED
  BY <1>2, <1>3

\* A merge ends behind the new data and behind every region it swallows.
LEMMA MergedEndBound ==
  ASSUME NEW R, AreRegions(R), AllApart(R), NEW a \in Nat, NEW n \in Nat \ {0}
  PROVE  LET O == Overlapping(R, a, n)
             hi == MergedEnd(O, a + n)
         IN  /\ hi \in {a + n} \cup {r.end : r \in O}
             /\ hi >= a + n
             /\ \A r \in O : hi >= r.end
<1> DEFINE O == Overlapping(R, a, n)
           P(hi) == hi >= a + n /\ \A r \in O : hi >= r.end
<1> SUFFICES \E hi \in {a + n} \cup {r.end : r \in O} : P(hi)
  BY DEF MergedEnd
<1>1. \A r \in O : r \in R /\ r.start \in Int /\ r.end \in Int /\ r.start <= a + n
  BY DEF Overlapping, AreRegions, IsRegion, Addr
<1>2. CASE \E r \in O : r.end > a + n
  <2>1. PICK r \in O : r.end > a + n
    BY <1>2
  <2>2. \A s \in O : r.end >= s.end
    BY <2>1, <1>1 DEF AllApart, Apart
  <2> QED
    BY <2>1, <2>2, <1>1
<1>3. CASE ~\E r \in O : r.end > a + n
  BY <1>3, <1>1
<1> QED
  BY <1>2, <1>3

-----------------------------------------------------------------------------
\* A write of n bytes at a that _validate_addr_size lets through.
Fits(a, n, d) ==
  a \in Nat /\ n \in Nat \ {0} /\ a + n <= AddrSpace /\ d \in [a .. (a + n - 1) -> Byte]

\* Every byte of the merged region outside the new data belongs to an old
\* region: the zero fill of merged_buf never shows.
LEMMA MergedCovered ==
  ASSUME NEW R, AreRegions(R), AllApart(R), NEW a, NEW n, NEW d, Fits(a, n, d),
         NEW x \in Int,
         MergedStart(Overlapping(R, a, n), a) <= x,
         x < MergedEnd(Overlapping(R, a, n), a + n),
         ~(a <= x /\ x < a + n)
  PROVE  \E r \in Overlapping(R, a, n) : Holds(r, x)
<1> DEFINE O == Overlapping(R, a, n)
           lo == MergedStart(O, a)
           hi == MergedEnd(O, a + n)
<1>1. a \in Nat /\ n \in Nat \ {0}
  BY DEF Fits
<1>2. \A r \in O : /\ r.start \in Int /\ r.end \in Int
                   /\ a <= r.end /\ r.start <= a + n
  BY <1>1 DEF Overlapping, AreRegions, IsRegion, Addr
<1>3. lo \in {a} \cup {r.start : r \in O}
  BY <1>1, MergedStartBound
<1>4. hi \in {a + n} \cup {r.end : r \in O}
  BY <1>1, MergedEndBound
<1> HIDE DEF O, lo, hi
<1>5. lo <= x /\ x < hi
  BY DEF O, lo, hi
<1>6. CASE x < a
  <2>1. PICK r \in O : lo = r.start
    BY <1>1, <1>3, <1>5, <1>6
  <2> QED
    BY <2>1, <1>2, <1>5, <1>6, <1>1 DEF Holds, O
<1>7. CASE a + n <= x
  <2>1. PICK r \in O : hi = r.end
    BY <1>1, <1>4, <1>5, <1>7
  <2> QED
    BY <2>1, <1>2, <1>5, <1>7, <1>1 DEF Holds, O
<1> QED
  BY <1>1, <1>6, <1>7

\* _merge_write keeps the regions well formed and separated.
LEMMA MergeWriteRegions ==
  ASSUME NEW R, AreRegions(R), AllApart(R), NEW a, NEW n, NEW d, Fits(a, n, d)
  PROVE  AreRegions(MergeWrite(R, a, n, d)) /\ AllApart(MergeWrite(R, a, n, d))
<1> DEFINE O  == Overlapping(R, a, n)
           lo == MergedStart(O, a)
           hi == MergedEnd(O, a + n)
           v  == MergedVal(O, lo, hi, a, n, d)
           m  == [start |-> lo, end |-> hi, val |-> v]
           M  == Remaining(R, a, n)
<1>0. MergeWrite(R, a, n, d) = M \cup {m}
  BY DEF MergeWrite
<1>1. a \in Nat /\ n \in Nat \ {0} /\ a + n <= AddrSpace /\ AddrSpace \in Nat
  BY AddrSpaceAssumption DEF Fits
<1>2. \A r \in O : r \in R /\ r.start \in Addr /\ r.end \in (r.start + 1) .. AddrSpace
                   /\ a <= r.end /\ r.start <= a + n
  BY <1>1 DEF Overlapping, AreRegions, IsRegion, Addr
<1>3. lo \in {a} \cup {r.start : r \in O} /\ lo <= a /\ \A r \in O : lo <= r.start
  BY <1>1, MergedStartBound
<1>4. hi \in {a + n} \cup {r.end : r \in O} /\ hi >= a + n /\ \A r \in O : hi >= r.end
  BY <1>1, MergedEndBound
<1>5. \A x \in Int : lo <= x /\ x < hi /\ ~(a <= x /\ x < a + n)
                     => \E r \in O : Holds(r, x)
  BY MergedCovered
<1> HIDE DEF lo, hi, v
<1>6. lo \in Addr /\ hi \in (lo + 1) .. AddrSpace
  BY <1>1, <1>2, <1>3, <1>4 DEF Addr
<1>7. \A x \in lo .. (hi - 1) : v[x] \in Byte
  <2> SUFFICES ASSUME NEW x \in lo .. (hi - 1) PROVE v[x] \in Byte
    OBVIOUS
  <2>1. x \in Int /\ lo <= x /\ x < hi
    BY <1>6 DEF Addr
  <2>2. CASE a <= x /\ x < a + n
    BY <2>1, <2>2, <1>1 DEF v, MergedVal, Fits
  <2>3. CASE ~(a <= x /\ x < a + n)
    <3>1. \E r \in O : Holds(r, x)
      BY <2>1, <2>3, <1>5
    <3> DEFINE r == CHOOSE r \in O : Holds(r, x)
    <3>2. r \in O /\ Holds(r, x) /\ r \in R
      BY <3>1, <1>2
    <3>3. r.val[x] \in Byte
      BY <3>2, <2>1 DEF AreRegions, IsRegion, Holds, Addr
    <3>4. v[x] = r.val[x]
      BY <3>1, <2>3 DEF v, MergedVal
    <3> QED
      BY <3>3, <3>4
  <2> QED
    BY <2>2, <2>3
<1>8. IsRegion(m)
  <2>1. v \in [lo .. (hi - 1) -> Byte]
    BY <1>7 DEF v, MergedVal
  <2> QED
    BY <2>1, <1>6 DEF IsRegion
<1>9. \A r \in M : Apart(r, m)
  <2> SUFFICES ASSUME NEW r \in M PROVE Apart(r, m)
    OBVIOUS
  <2>1. r \in R /\ r.start \in Int /\ r.end \in Int /\ r.start < r.end
        /\ (r.end < a \/ r.start > a + n)
    BY DEF Remaining, Overlapping, AreRegions, IsRegion, Addr
  <2>2. r \notin O
    BY <2>1 DEF Overlapping
  <2>3. CASE r.end < a
    <3>1. CASE lo = a
      BY <3>1, <2>3 DEF Apart
    <3>2. CASE \E s \in O : lo = s.start
      <4>1. PICK s \in O : lo = s.start
        BY <3>2
      <4>2. Apart(r, s)
        BY <4>1, <1>2, <2>1, <2>2 DEF AllApart
      <4> QED
        BY <4>1, <4>2, <1>2, <2>1, <2>3, <1>1 DEF Apart, Addr
    <3> QED
      BY <3>1, <3>2, <1>3
  <2>4. CASE r.start > a + n
    <3>1. CASE hi = a + n
      BY <3>1, <2>4 DEF Apart
    <3>2. CASE \E s \in O : hi = s.end
      <4>1. PICK s \in O : hi = s.end
        BY <3>2
      <4>2. Apart(r, s)
        BY <4>1, <1>2, <2>1, <2>2 DEF AllApart
      <4> QED
        BY <4>1, <4>2, <1>2, <2>1, <2>4, <1>1 DEF Apart, Addr
    <3> QED
      BY <3>1, <3>2, <1>4
  <2> QED
    BY <2>1, <2>3, <2>4
<1>10. AreRegions(M) /\ AllApart(M)
  BY DEF Remaining, AreRegions, AllApart
<1> QED
  BY <1>0, <1>8, <1>9, <1>10 DEF AreRegions, AllApart, Apart

\* _merge_write is a write to the memory the regions stand for, and to
\* nothing else of it.
WritesOnly(R, a, n, d) ==
  \A x \in Addr : MemOf(MergeWrite(R, a, n, d))[x] =
                    IF a <= x /\ x < a + n THEN d[x] ELSE MemOf(R)[x]

\* A merge changes the written addresses, and no other.
LEMMA MergeWriteMem ==
  ASSUME NEW R, AreRegions(R), AllApart(R), NEW a, NEW n, NEW d, Fits(a, n, d)
  PROVE  WritesOnly(R, a, n, d)
<1> DEFINE O  == Overlapping(R, a, n)
           lo == MergedStart(O, a)
           hi == MergedEnd(O, a + n)
           v  == MergedVal(O, lo, hi, a, n, d)
           m  == [start |-> lo, end |-> hi, val |-> v]
           M  == Remaining(R, a, n)
           W  == MergeWrite(R, a, n, d)
<1>0. W = M \cup {m}
  BY DEF MergeWrite
<1>1. a \in Nat /\ n \in Nat \ {0}
  BY DEF Fits
<1>2. AreRegions(W) /\ AllApart(W)
  BY MergeWriteRegions
<1>3. lo <= a /\ \A r \in O : lo <= r.start
  BY <1>1, MergedStartBound
<1>4. hi >= a + n /\ \A r \in O : hi >= r.end
  BY <1>1, MergedEndBound
<1>5. R = O \cup M
  BY DEF Overlapping, Remaining
<1>6. lo \in Int /\ hi \in Int
  <2>1. \A r \in O : r.start \in Int /\ r.end \in Int
    BY DEF Overlapping, AreRegions, IsRegion, Addr
  <2>2. lo \in {a} \cup {r.start : r \in O}
    BY <1>1, MergedStartBound
  <2>3. hi \in {a + n} \cup {r.end : r \in O}
    BY <1>1, MergedEndBound
  <2> HIDE DEF lo, hi, O
  <2> QED
    BY <2>1, <2>2, <2>3, <1>1
<1>7. \A x \in Int : lo <= x /\ x < hi /\ ~(a <= x /\ x < a + n)
                     => \E r \in O : Holds(r, x)
  BY MergedCovered
<1> HIDE DEF lo, hi, v, O, M, W
<1> SUFFICES ASSUME NEW x \in Addr
             PROVE MemOf(W)[x] = IF a <= x /\ x < a + n THEN d[x] ELSE MemOf(R)[x]
  BY DEF W, WritesOnly
<1>8. x \in Int
  BY DEF Addr
<1>9. CASE lo <= x /\ x < hi
  <2>1. MemOf(W)[x] = v[x]
    <3>1. m \in W /\ Holds(m, x)
      BY <1>0, <1>9 DEF Holds
    <3>2. MemOf(W)[x] = m.val[x]
      BY <3>1, <1>2, MemOfHeld
    <3> QED
      BY <3>2
  <2>2. CASE a <= x /\ x < a + n
    BY <2>1, <2>2, <1>8, <1>9, <1>6 DEF v, MergedVal
  <2>3. CASE ~(a <= x /\ x < a + n)
    <3> DEFINE r == CHOOSE r \in O : Holds(r, x)
    <3>1. r \in O /\ Holds(r, x)
      BY <2>3, <1>7, <1>8, <1>9
    <3>2. v[x] = r.val[x]
      BY <3>1, <2>3, <1>8, <1>9, <1>6 DEF v, MergedVal
    <3>3. MemOf(R)[x] = r.val[x]
      BY <3>1, <1>5, MemOfHeld
    <3> QED
      BY <2>1, <2>3, <3>2, <3>3
  <2> QED
    BY <2>2, <2>3
<1>10. CASE ~(lo <= x /\ x < hi)
  <2>1. ~(a <= x /\ x < a + n)
    BY <1>10, <1>3, <1>4, <1>6, <1>8, <1>1
  <2>2. \A r \in O : ~Holds(r, x)
    <3> SUFFICES ASSUME NEW r \in O, Holds(r, x) PROVE FALSE
      OBVIOUS
    <3>1. r.start \in Int /\ r.end \in Int
      BY <1>5 DEF AreRegions, IsRegion, Addr
    <3> QED
      BY <3>1, <1>3, <1>4, <1>6, <1>8, <1>10 DEF Holds
  <2>3. CASE \E r \in M : Holds(r, x)
    <3>1. PICK r \in M : Holds(r, x)
      BY <2>3
    <3>2. MemOf(W)[x] = r.val[x]
      BY <3>1, <1>0, <1>2, MemOfHeld
    <3>3. MemOf(R)[x] = r.val[x]
      BY <3>1, <1>5, MemOfHeld
    <3> QED
      BY <2>1, <3>2, <3>3
  <2>4. CASE \A r \in M : ~Holds(r, x)
    <3>1. \A r \in W : ~Holds(r, x)
      BY <2>4, <1>0, <1>10 DEF Holds
    <3>2. \A r \in R : ~Holds(r, x)
      BY <2>2, <2>4, <1>5
    <3> QED
      BY <2>1, <3>1, <3>2, MemOfHole
  <2> QED
    BY <2>3, <2>4
<1> QED
  BY <1>9, <1>10

-----------------------------------------------------------------------------
\* What LoadMergeStep passes to _merge_write fits the address space.
LEMMA RegionFits ==
  ASSUME NEW r, IsRegion(r)
  PROVE  Fits(r.start, r.end - r.start, r.val) /\ r.start + (r.end - r.start) = r.end
  BY AddrSpaceAssumption DEF IsRegion, Fits, Addr

\* A write that passes _valid_addr_size fits in the address space.
LEMMA ValidFits ==
  ASSUME NEW a \in Addrs, NEW n \in Sizes, NEW d \in [a .. (a + n - 1) -> Byte],
         ValidAddrSize(a, n), n # 0
  PROVE  Fits(a, n, d)
  BY InputAssumption DEF ValidAddrSize, Fits

\* The inductive invariant holds at the start and every step keeps it.
LEMMA IInvInit == Init => IInv
  BY DEF Init, IInv, TypeOK, Separated, FileSeparated, AreRegions, AllApart

\* Every step of the cache keeps the invariant.
LEMMA IInvNext == IInv /\ [Next]_vars => IInv'
<1> SUFFICES ASSUME IInv, [Next]_vars PROVE IInv'
  OBVIOUS
<1> USE DEF IInv, TypeOK, Separated, FileSeparated
<1>1. ASSUME NEW a \in Addrs, NEW n \in Sizes, CacheWriteRefused(a, n) PROVE IInv'
  BY <1>1 DEF CacheWriteRefused
<1>2. ASSUME NEW a \in Addrs, NEW n \in Sizes,
             NEW d \in [a .. (a + n - 1) -> Byte], CacheWrite(a, n, d)
      PROVE  IInv'
  <2>1. CASE n = 0
    BY <1>2, <2>1 DEF CacheWrite
  <2>2. CASE n # 0
    <3>1. Fits(a, n, d)
      BY <1>2, <2>2, ValidFits DEF CacheWrite
    <3>2. AreRegions(regions') /\ AllApart(regions')
      BY <1>2, <2>2, <3>1, MergeWriteRegions DEF CacheWrite
    <3> QED
      BY <1>2, <3>2 DEF CacheWrite
  <2> QED
    BY <2>1, <2>2
<1>3. CASE Clear
  BY <1>3 DEF Clear, AreRegions, AllApart
<1>4. CASE SaveToFile
  BY <1>4 DEF SaveToFile, Idle
<1>5. ASSUME NEW c \in 0 .. AddrSpace, NEW torn \in BOOLEAN, CrashInSave(c, torn)
      PROVE  IInv'
  BY <1>5 DEF CrashInSave, Idle, AreRegions, AllApart
<1>6. CASE LoadRefused
  BY <1>6 DEF LoadRefused
<1>7. CASE LoadReplace
  BY <1>7 DEF LoadReplace
<1>8. CASE LoadMerge
  BY <1>8 DEF LoadMerge
<1>9. ASSUME NEW r \in loading, LoadMergeStep(r) PROVE IInv'
  <2>1. Fits(r.start, r.end - r.start, r.val)
    BY RegionFits DEF AreRegions
  <2>2. AreRegions(regions') /\ AllApart(regions')
    BY <1>9, <2>1, MergeWriteRegions DEF LoadMergeStep
  <2> QED
    BY <1>9, <2>2 DEF LoadMergeStep, AreRegions
<1>10. CASE UNCHANGED vars
  BY <1>10 DEF vars
<1> QED
  BY <1>1, <1>2, <1>3, <1>4, <1>5, <1>6, <1>7, <1>8, <1>9, <1>10 DEF Next

\* The variables keep their types; regions stay inside the address space.
THEOREM TypeCorrect == Spec => []TypeOK
<1>1. IInv => TypeOK
  BY DEF IInv
<1> QED
  BY IInvInit, IInvNext, <1>1, PTL DEF Spec

\* No two regions of the cache ever overlap or touch (class comment of
\* RegioCache), whatever is written, loaded, or lost in a crash.
THEOREM RegionsSeparated == Spec => []Separated
<1>1. IInv => Separated
  BY DEF IInv
<1> QED
  BY IInvInit, IInvNext, <1>1, PTL DEF Spec

\* The same of the regions of a file that parses.
THEOREM FileRegionsSeparated == Spec => []FileSeparated
<1>1. IInv => FileSeparated
  BY DEF IInv
<1> QED
  BY IInvInit, IInvNext, <1>1, PTL DEF Spec

-----------------------------------------------------------------------------
\* A range all of whose bytes are held lies in one region: the region that
\* holds its first byte cannot end inside it, for the byte at its end would
\* be held by a region that touches it.
LEMMA RangeInOneRegion ==
  ASSUME NEW R, AreRegions(R), AllApart(R), NEW a \in Addr, NEW n \in Nat \ {0},
         \A x \in a .. (a + n - 1) : \E r \in R : Holds(r, x)
  PROVE  \E r \in R : r.start <= a /\ a + n <= r.end
<1>1. a \in Int /\ a \in a .. (a + n - 1)
  BY DEF Addr
<1>2. PICK r \in R : Holds(r, a)
  BY <1>1
<1>3. r.start \in Int /\ r.end \in Int /\ r.start <= a /\ a < r.end
  BY <1>2 DEF AreRegions, IsRegion, Holds, Addr
<1>4. a + n <= r.end
  <2> SUFFICES ASSUME r.end < a + n PROVE FALSE
    BY <1>1, <1>3
  <2>1. PICK s \in R : Holds(s, r.end)
    BY <1>1, <1>3
  <2>2. s.start \in Int /\ s.end \in Int /\ s.start <= r.end /\ r.end < s.end
    BY <2>1 DEF AreRegions, IsRegion, Holds, Addr
  <2>3. r = s \/ Apart(r, s)
    BY <1>2, <2>1 DEF AllApart
  <2> QED
    BY <1>1, <1>3, <2>2, <2>3 DEF Apart
<1> QED
  BY <1>3, <1>4

\* In a state of the invariant a read is exact.
LEMMA ReadExact == IInv => ReadIsExact
<1> SUFFICES ASSUME IInv, NEW a \in Addr, NEW n \in Sizes \ {0}
             PROVE  CacheRead(regions, a, n) =
               IF a + n <= AddrSpace /\ \A x \in a .. (a + n - 1) : MemOf(regions)[x] # Hole
               THEN [x \in a .. (a + n - 1) |-> MemOf(regions)[x]]
               ELSE Hole
  BY DEF ReadIsExact
<1> DEFINE Span == a .. (a + n - 1)
<1>1. AreRegions(regions) /\ AllApart(regions)
  BY DEF IInv, TypeOK, Separated
<1>2. a \in Int /\ a >= 0 /\ a < AddrSpace /\ n \in Nat \ {0} /\ AddrSpace \in Nat
  BY InputAssumption, AddrSpaceAssumption DEF Addr
<1>3. ValidAddrSize(a, n) <=> a + n <= AddrSpace
  BY <1>2 DEF ValidAddrSize
<1>4. CASE a + n <= AddrSpace /\ \E r \in regions : r.start <= a /\ a + n <= r.end
  <2> DEFINE r == CHOOSE r \in regions : r.start <= a /\ a + n <= r.end
  <2>1. r \in regions /\ r.start <= a /\ a + n <= r.end
    BY <1>4
  <2>2. r.start \in Int /\ r.end \in Int /\ r.end <= AddrSpace
    BY <2>1, <1>1, <1>2 DEF AreRegions, IsRegion, Addr
  <2> HIDE DEF r
  <2>3. \A x \in Span : MemOf(regions)[x] = r.val[x] /\ r.val[x] \in Byte
    <3> SUFFICES ASSUME NEW x \in Span
                 PROVE MemOf(regions)[x] = r.val[x] /\ r.val[x] \in Byte
      OBVIOUS
    <3>1. x \in Addr /\ Holds(r, x)
      BY <1>2, <2>1, <2>2 DEF Holds, Addr
    <3> QED
      BY <3>1, <2>1, <1>1, MemOfHeld
  <2>4. CacheRead(regions, a, n) = [x \in Span |-> r.val[x]]
    BY <1>3, <1>4 DEF CacheRead, r
  <2>5. \A x \in Span : MemOf(regions)[x] # Hole
    BY <2>3, ByteAssumption
  <2> QED
    BY <1>4, <2>3, <2>4, <2>5
<1>5. CASE ~(a + n <= AddrSpace /\ \E r \in regions : r.start <= a /\ a + n <= r.end)
  <2>1. CacheRead(regions, a, n) = Hole
    BY <1>3, <1>5 DEF CacheRead
  <2>2. ASSUME a + n <= AddrSpace, \A x \in Span : MemOf(regions)[x] # Hole PROVE FALSE
    <3>1. \A x \in Span : \E r \in regions : Holds(r, x)
      <4> SUFFICES ASSUME NEW x \in Span PROVE \E r \in regions : Holds(r, x)
        OBVIOUS
      <4>1. x \in Addr
        BY <1>2, <2>2 DEF Addr
      <4> QED
        BY <4>1, <2>2, MemOfHole
    <3>2. \E r \in regions : r.start <= a /\ a + n <= r.end
      BY <3>1, <1>1, <1>2, RangeInOneRegion
    <3> QED
      BY <3>2, <2>2, <1>5
  <2> QED
    BY <2>1, <2>2
<1> QED
  BY <1>4, <1>5

\* cache_read returns the bytes of every range that was written in full and
\* refuses every other range.
THEOREM ReadsAreExact == Spec => []ReadIsExact
  BY IInvInit, IInvNext, ReadExact, PTL DEF Spec

-----------------------------------------------------------------------------
\* The refinement mapping, outside and inside a running load.
LEMMA AbsMemIdle ==
  ASSUME Idle PROVE AbsMem = MemOf(regions)
  BY DEF Idle, AbsMem, MemOf

\* No regions are an empty memory.
LEMMA BlankIsEmpty == MemOf({}) = Abs!Blank
  BY DEF MemOf, Abs!Blank, Addr, Abs!Addr

\* The cache starts as an empty memory.
LEMMA InitRefines == Init => Abs!Init
<1> SUFFICES ASSUME Init PROVE Abs!Init
  OBVIOUS
<1>1. Idle /\ regions = {}
  BY DEF Init, Idle
<1>2. AbsMem = Abs!Blank
  BY <1>1, AbsMemIdle, BlankIsEmpty
<1>3. AbsImg = Bad
  BY DEF Init, AbsImg
<1> QED
  BY <1>2, <1>3 DEF Init, Abs!Init

\* A file that parses has an image, and the image is not Bad.
LEMMA ImgReadable ==
  ASSUME IInv, file.ok
  PROVE  AbsImg = MemOf(file.regions) /\ AbsImg # Bad
         /\ AbsImg \in [Addr -> Byte \cup {Hole}]
  BY MemOfType, BadAssumption DEF IInv, TypeOK, FileSeparated, AbsImg, Addr

\* cache_write writes to the memory.
LEMMA CacheWriteRefines ==
  ASSUME IInv, NEW a \in Addrs, NEW n \in Sizes,
         NEW d \in [a .. (a + n - 1) -> Byte], CacheWrite(a, n, d)
  PROVE  Abs!Write(a, n)
<1>1. Idle /\ Idle' /\ ValidAddrSize(a, n) /\ UNCHANGED file
      /\ result' = "ok" /\ wrote' = <<a, n, d>>
  BY DEF CacheWrite, Idle
<1>2. AbsMem = MemOf(regions) /\ AbsMem' = MemOf(regions')
  BY <1>1, AbsMemIdle DEF AbsMem, MemOf, Idle
<1>3. \A x \in Addr : MemOf(regions')[x] = IF a <= x /\ x < a + n THEN d[x] ELSE MemOf(regions)[x]
  <2>1. CASE n = 0
    BY <2>1, InputAssumption DEF CacheWrite, Addr
  <2>2. CASE n # 0
    <3>1. Fits(a, n, d)
      BY <1>1, <2>2, ValidFits
    <3>2. regions' = MergeWrite(regions, a, n, d)
      BY <2>2 DEF CacheWrite
    <3>3. AreRegions(regions) /\ AllApart(regions)
      BY DEF IInv, TypeOK, Separated
    <3>4. WritesOnly(regions, a, n, d)
      BY <3>1, <3>3, MergeWriteMem
    <3> QED
      BY <3>2, <3>4 DEF WritesOnly
  <2> QED
    BY <2>1, <2>2
<1>4. AbsMem' = Abs!Patch(AbsMem, a, n, d)
  BY <1>2, <1>3 DEF Abs!Patch, Abs!Addr, Addr, MemOf
<1>5. UNCHANGED AbsImg
  BY <1>1 DEF AbsImg, MemOf
<1> QED
  BY <1>1, <1>4, <1>5 DEF Abs!Write, Abs!InSpace, ValidAddrSize

\* A crash in save_to_file leaves a part of the saved memory.
LEMMA CrashRefines ==
  ASSUME IInv, NEW c \in 0 .. AddrSpace, NEW torn \in BOOLEAN, CrashInSave(c, torn)
  PROVE  Abs!CrashInSave
<1> DEFINE F == {r \in regions : r.end <= c}
<1>1. Idle /\ Idle' /\ regions' = {} /\ result' = "ok" /\ wrote' = <<>>
  BY DEF CrashInSave, Idle
<1>2. AbsMem = MemOf(regions) /\ AbsMem' = Abs!Blank
  <2>1. AbsMem' = MemOf(regions')
    BY <1>1 DEF AbsMem, MemOf, Idle
  <2> QED
    BY <1>1, <2>1, AbsMemIdle, BlankIsEmpty
<1>3. CASE torn
  BY <1>1, <1>2, <1>3 DEF CrashInSave, AbsImg, Abs!CrashInSave
<1>4. CASE ~torn
  <2>1. AreRegions(regions) /\ AllApart(regions) /\ AreRegions(F) /\ AllApart(F)
    BY DEF IInv, TypeOK, Separated, AreRegions, AllApart
  <2>2. AbsImg' = MemOf(F)
    BY <1>4 DEF CrashInSave, AbsImg, MemOf
  <2>3. \A r \in regions : /\ r.start \in Int /\ r.end \in Int /\ r.start < r.end
                           /\ ~(r.start < c /\ c < r.end)
    BY <2>1 DEF CrashInSave, AreRegions, IsRegion, Addr
  <2>4. \A x \in Addr : MemOf(F)[x] = IF x < c THEN MemOf(regions)[x] ELSE Hole
    <3> SUFFICES ASSUME NEW x \in Addr
                 PROVE MemOf(F)[x] = IF x < c THEN MemOf(regions)[x] ELSE Hole
      OBVIOUS
    <3>0. x \in Int /\ c \in Int
      BY DEF Addr
    <3>1. CASE \E r \in F : Holds(r, x)
      <4>1. PICK r \in F : Holds(r, x)
        BY <3>1
      <4>2. MemOf(F)[x] = r.val[x] /\ MemOf(regions)[x] = r.val[x]
        BY <4>1, <2>1, MemOfHeld
      <4> QED
        BY <4>1, <4>2, <2>3, <3>0 DEF Holds
    <3>2. CASE \A r \in F : ~Holds(r, x)
      <4>1. MemOf(F)[x] = Hole
        BY <3>2, MemOfHole
      <4>2. ASSUME x < c, NEW r \in regions, Holds(r, x) PROVE FALSE
        BY <4>2, <3>2, <2>3, <3>0 DEF Holds
      <4> QED
        BY <4>1, <4>2, MemOfHole
    <3> QED
      BY <3>1, <3>2
  <2>5. AbsImg' = Abs!Below(AbsMem, c)
    BY <1>2, <2>2, <2>4 DEF Abs!Below, Abs!Addr, Addr, MemOf
  <2>6. Abs!RunBoundary(AbsMem, c)
    <3> SUFFICES ASSUME c # 0, c # AddrSpace, MemOf(regions)[c - 1] # Hole,
                        MemOf(regions)[c] # Hole
                 PROVE FALSE
      BY <1>2 DEF Abs!RunBoundary
    <3>1. c \in Addr /\ c - 1 \in Addr /\ c \in Int
      BY AddrSpaceAssumption DEF Addr
    <3>2. PICK r \in regions : Holds(r, c - 1)
      BY <3>1, MemOfHole
    <3>3. PICK s \in regions : Holds(s, c)
      BY <3>1, MemOfHole
    <3>4. r = s \/ Apart(r, s)
      BY <3>2, <3>3, <2>1 DEF AllApart
    <3> QED
      BY <3>1, <3>2, <3>3, <3>4, <2>3 DEF Holds, Apart
  <2> QED
    BY <1>1, <1>2, <2>5, <2>6 DEF Abs!CrashInSave
<1> QED
  BY <1>3, <1>4

\* A load that replaces the regions makes the file the memory.
LEMMA LoadReplaceRefines ==
  ASSUME IInv, LoadReplace
  PROVE  Abs!Load(TRUE)
<1>1. Idle /\ Idle' /\ file.ok /\ regions' = file.regions /\ UNCHANGED file
      /\ result' = "ok" /\ wrote' = <<>>
  BY DEF LoadReplace, Idle
<1>2. AbsMem' = MemOf(regions')
  BY <1>1 DEF AbsMem, MemOf, Idle
<1>3. AbsMem' = AbsImg /\ AbsImg # Bad
  BY <1>1, <1>2, ImgReadable
<1>4. UNCHANGED AbsImg
  BY <1>1 DEF AbsImg, MemOf
<1> QED
  BY <1>1, <1>3, <1>4 DEF Abs!Load

\* Once the merge loop is entered, callers see what the loop will leave.
LEMMA LoadMergeRefines ==
  ASSUME IInv, LoadMerge
  PROVE  Abs!Load(FALSE)
<1>1. Idle /\ file.ok /\ loading' = file.regions /\ UNCHANGED <<file, regions>>
      /\ result' = "ok" /\ wrote' = <<>>
  BY DEF LoadMerge, Idle
<1>2. AbsMem = MemOf(regions) /\ UNCHANGED AbsImg
  BY <1>1, AbsMemIdle DEF AbsImg, MemOf
<1>3. AreRegions(file.regions) /\ AllApart(file.regions)
  BY DEF IInv, TypeOK, FileSeparated
<1>4. AbsImg = MemOf(file.regions) /\ AbsImg # Bad
  BY <1>1, ImgReadable
<1>5. \A x \in Addr : MemOf(file.regions)[x] = Hole <=> ~\E r \in file.regions : Holds(r, x)
  BY <1>3, MemOfHeld, MemOfHole, ByteAssumption
<1>6. AbsMem' = [x \in Addr |-> IF \E r \in file.regions : Holds(r, x)
                                THEN MemOf(file.regions)[x] ELSE MemOf(regions)[x]]
  BY <1>1 DEF AbsMem, MemOf
<1>7. AbsMem' = Abs!Overlay(AbsMem, AbsImg)
  BY <1>2, <1>4, <1>5, <1>6 DEF Abs!Overlay, Abs!Addr, Addr
<1> QED
  BY <1>1, <1>2, <1>4, <1>7 DEF Abs!Load

\* An iteration of the merge loop changes nothing callers can see.
LEMMA LoadMergeStepRefines ==
  ASSUME IInv, NEW r \in loading, LoadMergeStep(r)
  PROVE  UNCHANGED <<AbsMem, AbsImg, result, wrote>>
<1> DEFINE L == loading \ {r}
           n == r.end - r.start
<1>1. /\ AreRegions(regions) /\ AllApart(regions)
      /\ AreRegions(loading) /\ AllApart(loading) /\ AreRegions(L) /\ AllApart(L)
  BY DEF IInv, TypeOK, Separated, FileSeparated, AreRegions, AllApart
<1>2. IsRegion(r) /\ Fits(r.start, n, r.val) /\ r.start + n = r.end
  BY <1>1, RegionFits DEF AreRegions
<1>3. regions' = MergeWrite(regions, r.start, n, r.val) /\ loading' = L
      /\ UNCHANGED <<file, result, wrote>>
  BY DEF LoadMergeStep
<1>4. \A x \in Addr : MemOf(regions')[x] = IF Holds(r, x) THEN r.val[x] ELSE MemOf(regions)[x]
  <2>1. WritesOnly(regions, r.start, n, r.val)
    BY <1>1, <1>2, MergeWriteMem
  <2> QED
    BY <2>1, <1>2, <1>3 DEF Holds, WritesOnly
<1>5. AbsMem' = [x \in Addr |-> IF \E s \in L : Holds(s, x)
                                THEN MemOf(L)[x] ELSE MemOf(regions')[x]]
  BY <1>3 DEF AbsMem, MemOf
<1>6. \A x \in Addr : AbsMem'[x] = AbsMem[x]
  <2> SUFFICES ASSUME NEW x \in Addr PROVE AbsMem'[x] = AbsMem[x]
    OBVIOUS
  <2>1. CASE \E s \in L : Holds(s, x)
    <3>1. PICK s \in L : Holds(s, x)
      BY <2>1
    <3>2. MemOf(L)[x] = s.val[x] /\ MemOf(loading)[x] = s.val[x]
      BY <3>1, <1>1, MemOfHeld
    <3> QED
      BY <3>1, <3>2, <1>5 DEF AbsMem
  <2>2. CASE ~(\E s \in L : Holds(s, x)) /\ Holds(r, x)
    <3>1. MemOf(loading)[x] = r.val[x]
      BY <2>2, <1>1, MemOfHeld
    <3> QED
      BY <3>1, <2>2, <1>4, <1>5 DEF AbsMem
  <2>3. CASE \A s \in loading : ~Holds(s, x)
    BY <2>3, <1>4, <1>5 DEF AbsMem
  <2> QED
    BY <2>1, <2>2, <2>3
<1>7. UNCHANGED AbsMem
  BY <1>5, <1>6 DEF AbsMem
<1> QED
  BY <1>3, <1>7 DEF AbsImg, MemOf

\* Every step of the cache is a step of the memory.
LEMMA NextRefines == IInv /\ [Next]_vars => [Abs!Next]_(Abs!vars)
<1> SUFFICES ASSUME IInv, [Next]_vars PROVE [Abs!Next]_(Abs!vars)
  OBVIOUS
<1>1. ASSUME NEW a \in Addrs, NEW n \in Sizes, CacheWriteRefused(a, n) PROVE Abs!Next
  <2>1. UNCHANGED <<AbsMem, AbsImg>>
    BY <1>1 DEF CacheWriteRefused, AbsMem, AbsImg, MemOf
  <2>2. Abs!Write(a, n)
    BY <1>1, <2>1 DEF CacheWriteRefused, Abs!Write, Abs!InSpace, ValidAddrSize
  <2> QED
    BY <2>2 DEF Abs!Next
<1>2. ASSUME NEW a \in Addrs, NEW n \in Sizes,
             NEW d \in [a .. (a + n - 1) -> Byte], CacheWrite(a, n, d)
      PROVE  Abs!Next
  BY <1>2, CacheWriteRefines DEF Abs!Next
<1>3. CASE Clear
  <2>1. Idle' /\ regions' = {} /\ result' = "ok" /\ wrote' = <<>> /\ UNCHANGED file
    BY <1>3 DEF Clear, Idle
  <2>2. AbsMem' = MemOf(regions')
    BY <2>1 DEF AbsMem, MemOf, Idle
  <2>3. AbsMem' = Abs!Blank
    BY <2>1, <2>2, BlankIsEmpty
  <2> QED
    BY <2>1, <2>3 DEF Abs!Next, Abs!Clear, AbsImg, MemOf
<1>4. CASE SaveToFile
  <2>1. Idle /\ file' = [ok |-> TRUE, regions |-> regions] /\ result' = "ok" /\ wrote' = <<>>
        /\ UNCHANGED <<regions, loading>>
    BY <1>4 DEF SaveToFile
  <2>2. AbsMem = MemOf(regions) /\ UNCHANGED AbsMem
    BY <2>1, AbsMemIdle DEF AbsMem, MemOf
  <2>3. AbsImg' = MemOf(regions)
    BY <2>1 DEF AbsImg, MemOf
  <2> QED
    BY <2>1, <2>2, <2>3 DEF Abs!Next, Abs!Save
<1>5. ASSUME NEW c \in 0 .. AddrSpace, NEW torn \in BOOLEAN, CrashInSave(c, torn)
      PROVE  Abs!Next
  BY <1>5, CrashRefines DEF Abs!Next
<1>6. CASE LoadRefused
  <2>1. UNCHANGED <<AbsMem, AbsImg>> /\ AbsImg = Bad
    BY <1>6 DEF LoadRefused, AbsMem, AbsImg, MemOf
  <2>2. Abs!Load(TRUE)
    BY <1>6, <2>1 DEF LoadRefused, Abs!Load
  <2> QED
    BY <2>2 DEF Abs!Next
<1>7. CASE LoadReplace
  BY <1>7, LoadReplaceRefines DEF Abs!Next
<1>8. CASE LoadMerge
  BY <1>8, LoadMergeRefines DEF Abs!Next
<1>9. ASSUME NEW r \in loading, LoadMergeStep(r) PROVE UNCHANGED Abs!vars
  BY <1>9, LoadMergeStepRefines DEF Abs!vars
<1>10. CASE UNCHANGED vars
  BY <1>10 DEF vars, Abs!vars, AbsMem, AbsImg, MemOf
<1> QED
  BY <1>1, <1>2, <1>3, <1>4, <1>5, <1>6, <1>7, <1>8, <1>9, <1>10 DEF Next

\* The region representation implements the sparse memory: writes, clears,
\* saves, crashes in a save, and loads of either kind act on the memory and
\* its image as RegioMem says, whatever the address space and the bytes.
THEOREM CacheImplementsMem == Spec => ImplementsRegioMem
<1>1. Spec => []IInv
  BY IInvInit, IInvNext, PTL DEF Spec
<1> QED
  BY InitRefines, NextRefines, <1>1, PTL DEF Spec, ImplementsRegioMem, Abs!Spec

-----------------------------------------------------------------------------
\* The list: the sort and the selections give lists again, the merge of a list
\* is the merge of the set of its regions, and every search finds its region.

\* A nonempty set of numbers has a least one.
LEMMA LeastOf ==
  ASSUME NEW T \in SUBSET Nat, T # {}
  PROVE  \E m \in T : \A k \in T : m <= k
<1>1. \E m \in T : \A k \in T : ~(<<k, m>> \in OpToRel(<, Nat))
  <2> HIDE DEF OpToRel
  <2> QED
    BY WFMin, NatLessThanWellFounded
<1>2. \A k, m \in T : k < m => <<k, m>> \in OpToRel(<, Nat)
  <2> SUFFICES ASSUME NEW k \in T, NEW m \in T, k < m
               PROVE  <<k, m>> \in OpToRel(<, Nat)
    OBVIOUS
  <2>1. <<k, m>> \in Nat \X Nat /\ <<k, m>>[1] < <<k, m>>[2]
    OBVIOUS
  <2> QED
    BY <2>1 DEF OpToRel
<1>3. PICK m \in T : \A k \in T : ~(<<k, m>> \in OpToRel(<, Nat))
  BY <1>1
<1>4. \A k \in T : ~(k < m)
  BY <1>2, <1>3
<1> QED
  BY <1>4

\* What an element of a list of entries is.
LEMMA EntryType ==
  ASSUME NEW s \in Seq(Entry), NEW i \in DOMAIN s
  PROVE  /\ s[i] \in Entry
         /\ s[i].addr \in Addr /\ s[i].addr \in Int
         /\ s[i].data \in Seq(Byte)
         /\ Len(s[i].data) \in Nat
         /\ End(s[i]) \in Int
<1>1. s[i] \in Entry
  OBVIOUS
<1>2. \A r \in Entry : r.addr \in Addr /\ r.addr \in Int /\ r.data \in Seq(Byte)
  BY AddrSpaceAssumption DEF Entry, Addr
<1>3. Len(s[i].data) \in Nat
  BY <1>1, <1>2
<1> QED
  BY <1>1, <1>2, <1>3 DEF End

\* What the search knows of the index it returns, on any list.
LEMMA BisectContract ==
  ASSUME NEW s \in Seq(Entry), NEW a \in Int
  PROVE  LET i == BisectLeft(s, a)
         IN  /\ i \in 0..Len(s)
             /\ i = 0 \/ s[i].addr < a
             /\ i = Len(s) \/ s[i + 1].addr >= a
<1> DEFINE P(i) == (i = 0 \/ s[i].addr < a) /\ (i = Len(s) \/ s[i + 1].addr >= a)
           T == {i \in 0..Len(s) : i = Len(s) \/ s[i + 1].addr >= a}
<1>1. \A i \in 1..Len(s) : s[i].addr \in Int
  BY EntryType
<1>2. PICK m \in T : \A k \in T : m <= k
  <2>1. T \in SUBSET Nat /\ T # {}
    OBVIOUS
  <2> HIDE DEF T
  <2> QED
    BY <2>1, LeastOf
<1>3. m \in 0..Len(s) /\ P(m)
  <2>1. m \in 0..Len(s) /\ (m = Len(s) \/ s[m + 1].addr >= a)
    BY <1>2
  <2>2. CASE m # 0
    <3>1. m - 1 \in 0..Len(s) /\ m - 1 # Len(s) /\ m - 1 \notin T
      BY <1>2, <2>1, <2>2
    <3> QED
      BY <1>1, <2>1, <2>2, <3>1
  <2> QED
    BY <2>1, <2>2
<1> HIDE DEF T
<1> QED
  BY <1>3 DEF BisectLeft

\* cache_read and its C++ twin agree on any list of pairs: the one steps back
\* before the first pair and refuses, the other stays on it and finds that it
\* starts above the address.
LEMMA TwinsAgreeOn ==
  ASSUME NEW s \in Seq(Entry), NEW a \in Int, NEW n \in Nat
  PROVE  CacheReadCpp(s, a, n) = CacheReadPy(s, a, n)
<1> DEFINE i == BisectLeft(s, a)
<1>1. /\ i \in 0..Len(s)
      /\ i = 0 \/ s[i].addr < a
      /\ i = Len(s) \/ s[i + 1].addr >= a
  BY BisectContract
<1>2. \A k \in 1..Len(s) : s[k].addr \in Int
  BY EntryType
<1> HIDE DEF i
<1>3. CASE s = <<>>
  <2>1. i = 0 /\ Len(s) = 0
    BY <1>1, <1>3
  <2> QED
    BY <1>3, <2>1 DEF i, CacheReadPy, CacheReadCpp
<1>4. CASE s # <<>> /\ i = 0 /\ s[1].addr # a
  <2>1. Len(s) # 0 /\ a < s[1].addr
    BY <1>1, <1>2, <1>4
  <2> QED
    BY <1>4, <2>1 DEF i, CacheReadPy, CacheReadCpp, Slice
<1>5. CASE s # <<>> /\ ~(i = 0 /\ s[1].addr # a)
  <2>1. Len(s) # 0
    BY <1>5
  <2> QED
    BY <1>1, <1>5, <2>1 DEF i, CacheReadPy, CacheReadCpp
<1> QED
  BY <1>3, <1>4, <1>5

-----------------------------------------------------------------------------
\* The pairs of a list as regions: separated, and each pair a region of its own.
LEMMA AsRegionFields ==
  ASSUME NEW r
  PROVE  /\ AsRegion(r).start = r.addr
         /\ AsRegion(r).end = End(r)
         /\ AsRegion(r).val = [x \in r.addr..(End(r) - 1) |-> r.data[x - r.addr + 1]]
         /\ AsRegion(r) = [start |-> AsRegion(r).start, end |-> AsRegion(r).end,
                                val |-> AsRegion(r).val]
  BY DEF AsRegion

\* data as the set of regions sees it: the byte at each of a .. e-1.
BytesAt(a, e, data) == [x \in a..(e - 1) |-> data[x - a + 1]]

\* The byte at an address is the one at its offset in the data.
LEMMA BytesAtByte ==
  ASSUME NEW a, NEW e, NEW data
  PROVE  \A x \in a..(e - 1) : BytesAt(a, e, data)[x] = data[x - a + 1]
  BY DEF BytesAt

\* The bytes of data, by address, are those of the data.
LEMMA BytesAtType ==
  ASSUME NEW a, NEW e, NEW data, NEW S, \A x \in a..(e - 1) : data[x - a + 1] \in S
  PROVE  BytesAt(a, e, data) \in [a..(e - 1) -> S]
  BY DEF BytesAt

\* An entry stands for the region of its data.
LEMMA AsRegionBytes ==
  ASSUME NEW r
  PROVE  /\ End(r) = r.addr + Len(r.data)
         /\ AsRegion(r).end = r.addr + Len(r.data)
         /\ AsRegion(r).val = BytesAt(r.addr, r.addr + Len(r.data), r.data)
<1>1. AsRegion(r).val = BytesAt(r.addr, End(r), r.data)
  BY DEF AsRegion, BytesAt
<1>2. End(r) = r.addr + Len(r.data)
  BY DEF End
<1>3. AsRegion(r).end = End(r)
  BY DEF AsRegion
<1> QED
  BY <1>1, <1>2, <1>3

\* The regions of a list are those of its entries.
LEMMA AsRegionsMember ==
  ASSUME NEW s \in Seq(Entry)
  PROVE  /\ \A i \in DOMAIN s : AsRegion(s[i]) \in AsRegions(s)
         /\ \A r \in AsRegions(s) : \E i \in DOMAIN s : r = AsRegion(s[i])
  BY DEF AsRegions, Range

\* An entry with data that fits stands for a region.
LEMMA EntryRegion ==
  ASSUME NEW r \in Entry, r.data # <<>>, End(r) <= AddrSpace
  PROVE  IsRegion(AsRegion(r)) /\ r.addr < End(r) /\ Len(r.data) = End(r) - r.addr
<1>1. r.addr \in Addr /\ r.data \in Seq(Byte) /\ r.addr \in Int
  BY AddrSpaceAssumption DEF Entry, Addr
<1>2. Len(r.data) \in Nat /\ Len(r.data) # 0
  BY <1>1
<1>3. End(r) = r.addr + Len(r.data)
  BY DEF End
<1>4. End(r) \in (r.addr + 1)..AddrSpace
  BY <1>1, <1>2, <1>3, AddrSpaceAssumption
<1>5. ASSUME NEW x \in r.addr..(End(r) - 1)
      PROVE  r.data[x - r.addr + 1] \in Byte
  <2>1. x - r.addr + 1 \in 1..Len(r.data)
    BY <1>1, <1>2, <1>3
  <2> QED
    BY <1>1, <2>1
<1>6. [x \in r.addr..(End(r) - 1) |-> r.data[x - r.addr + 1]] \in [r.addr..(End(r) - 1) -> Byte]
  BY <1>5
<1>7. IsRegion(AsRegion(r))
  BY <1>1, <1>4, <1>6, AsRegionFields DEF IsRegion
<1> QED
  BY <1>1, <1>2, <1>3, <1>7

\* A sorted list with gaps stands for separate regions, each entry for its own.
LEMMA ListRegions ==
  ASSUME NEW s, IsList(s)
  PROVE  /\ AreRegions(AsRegions(s))
         /\ AllApart(AsRegions(s))
         /\ \A i, j \in DOMAIN s : i # j => AsRegion(s[i]) # AsRegion(s[j])
<1>1. s \in Seq(Entry)
  BY DEF IsList
<1>2. \A i \in DOMAIN s : /\ IsRegion(AsRegion(s[i]))
                          /\ s[i].addr \in Int /\ End(s[i]) \in Int /\ s[i].addr < End(s[i])
  BY <1>1, EntryType, EntryRegion DEF IsList
<1>3. \A i, j \in DOMAIN s : i \in Int /\ j \in Int
  BY <1>1
<1>4. \A i, j \in DOMAIN s : i < j => End(s[i]) < s[j].addr
  BY DEF IsList
<1>5. \A i, j \in DOMAIN s : i # j => End(s[i]) < s[j].addr \/ End(s[j]) < s[i].addr
  BY <1>3, <1>4
<1>6. \A i, j \in DOMAIN s : i # j => Apart(AsRegion(s[i]), AsRegion(s[j]))
  BY <1>5, AsRegionFields DEF Apart
<1>7. ASSUME NEW i \in DOMAIN s, NEW j \in DOMAIN s, i # j,
             AsRegion(s[i]) = AsRegion(s[j])
      PROVE  FALSE
  <2>1. s[i].addr = s[j].addr /\ End(s[i]) = End(s[j])
    <3>1. AsRegion(s[i]).start = s[i].addr /\ AsRegion(s[i]).end = End(s[i])
      BY AsRegionFields
    <3>2. AsRegion(s[j]).start = s[j].addr /\ AsRegion(s[j]).end = End(s[j])
      BY AsRegionFields
    <3> QED
      BY <1>7, <3>1, <3>2
  <2>2. /\ s[i].addr \in Int /\ End(s[i]) \in Int /\ s[i].addr < End(s[i])
    BY <1>2
  <2>3. End(s[i]) < s[j].addr \/ End(s[j]) < s[i].addr
    BY <1>5, <1>7
  <2> QED
    BY <2>1, <2>2, <2>3
<1> QED
  BY <1>1, <1>2, <1>6, <1>7, AsRegionsMember DEF AreRegions, AllApart

\* The entry that cache_read looks in is the only one that can hold the range.
LEMMA SearchFinds ==
  ASSUME NEW s, IsList(s), NEW a \in Int, NEW n \in Nat \ {0},
         NEW k \in DOMAIN s, s[k].addr <= a, a + n <= End(s[k]),
         ValidAddrSize(a, n)
  PROVE  CacheReadPy(s, a, n) = SubSeq(s[k].data, a - s[k].addr + 1, a - s[k].addr + n)
<1> DEFINE i == BisectLeft(s, a)
           idx == IF i = Len(s) \/ s[i + 1].addr # a THEN i - 1 ELSE i
<1>1. s \in Seq(Entry)
  BY DEF IsList
<1>2. /\ i \in 0..Len(s)
      /\ i = 0 \/ s[i].addr < a
      /\ i = Len(s) \/ s[i + 1].addr >= a
  BY <1>1, BisectContract
<1>3. \A j \in 1..Len(s) : s[j].addr \in Int /\ End(s[j]) \in Int /\ s[j].addr < End(s[j])
  BY <1>1, EntryType, EntryRegion DEF IsList
<1>4. \A j, l \in 1..Len(s) : j < l => End(s[j]) < s[l].addr
  BY <1>1 DEF IsList
<1> HIDE DEF i
<1>5. k \in 1..Len(s) /\ Len(s) \in Nat
  BY <1>1
<1>6. idx + 1 = k /\ idx >= 0 /\ idx \in Int
  <2>1. CASE i # Len(s) /\ s[i + 1].addr = a
    <3>1. i + 1 \in 1..Len(s) /\ i \in Int
      BY <1>2, <1>5, <2>1
    <3>2. i + 1 = k
      BY <1>3, <1>4, <1>5, <2>1, <3>1
    <3>3. idx = i
      BY <2>1
    <3> QED
      BY <1>5, <3>1, <3>2, <3>3
  <2>2. CASE ~(i # Len(s) /\ s[i + 1].addr = a)
    <3>1. k <= i
      <4>1. ASSUME i < k PROVE FALSE
        <5>1. i + 1 \in 1..Len(s) /\ i # Len(s) /\ s[i + 1].addr > a
          BY <1>2, <1>3, <1>5, <2>2, <4>1
        <5>2. i + 1 # k
          BY <1>3, <5>1
        <5> QED
          BY <1>2, <1>3, <1>4, <1>5, <4>1, <5>1, <5>2
      <4> QED
        BY <1>2, <1>5, <4>1
    <3>2. ~(k < i)
      BY <1>2, <1>3, <1>4, <1>5, <3>1
    <3> QED
      BY <1>2, <1>5, <2>2, <3>1, <3>2
  <2> QED
    BY <2>1, <2>2
<1>7. CacheReadPy(s, a, n) = IF idx < 0 THEN Hole ELSE Slice(s[idx + 1], a, n)
  BY DEF CacheReadPy, i
<1> HIDE DEF idx
<1>8. ~(idx < 0) /\ s[idx + 1] = s[k]
  BY <1>6
<1>9. Slice(s[k], a, n) = SubSeq(s[k].data, a - s[k].addr + 1, a - s[k].addr + n)
  <2>1. ~(a + n > End(s[k])) /\ ~(a < s[k].addr)
    BY <1>3, <1>5
  <2> QED
    BY <2>1 DEF Slice
<1> QED
  BY <1>7, <1>8, <1>9

\* What the search returns lies in the one entry it looked in.
LEMMA SearchSound ==
  ASSUME NEW s, IsList(s), NEW a \in Int, NEW n \in Nat \ {0},
         CacheReadPy(s, a, n) # Hole
  PROVE  /\ ValidAddrSize(a, n)
         /\ \E k \in DOMAIN s : s[k].addr <= a /\ a + n <= End(s[k])
<1> DEFINE i == BisectLeft(s, a)
           idx == IF i = Len(s) \/ s[i + 1].addr # a THEN i - 1 ELSE i
<1>1. s \in Seq(Entry)
  BY DEF IsList
<1>2. i \in 0..Len(s) /\ Len(s) \in Nat
  BY <1>1, BisectContract
<1>3. \A j \in 1..Len(s) : s[j].addr \in Int /\ End(s[j]) \in Int
  BY <1>1, EntryType
<1> HIDE DEF i
<1>4. CacheReadPy(s, a, n) = IF ~ValidAddrSize(a, n) \/ idx < 0 THEN Hole ELSE Slice(s[idx + 1], a, n)
  BY DEF CacheReadPy, i
<1>5. ValidAddrSize(a, n) /\ ~(idx < 0)
  BY <1>4
<1>6. idx + 1 \in 1..Len(s)
  BY <1>2, <1>5
<1> HIDE DEF idx
<1>7. Slice(s[idx + 1], a, n) # Hole
  BY <1>4, <1>5
<1>8. ~(a + n > End(s[idx + 1])) /\ ~(a < s[idx + 1].addr)
  BY <1>7 DEF Slice
<1>9. s[idx + 1].addr <= a /\ a + n <= End(s[idx + 1])
  BY <1>3, <1>6, <1>8
<1> QED
  BY <1>1, <1>5, <1>6, <1>9

\* Some entry holds the range: the search returns its bytes, and they are
\* those the set of regions gives.
LEMMA SearchOfHeld ==
  ASSUME NEW s, IsList(s), NEW a \in Int, NEW n \in Sizes \ {0},
         ValidAddrSize(a, n),
         NEW k \in DOMAIN s, s[k].addr <= a, a + n <= End(s[k])
  PROVE  LET got  == CacheReadPy(s, a, n)
             want == Set!CacheRead(AsRegions(s), a, n)
         IN  want # Hole /\ got # Hole /\ \A i \in 1..n : got[i] = want[a + i - 1]
<1> DEFINE R    == AsRegions(s)
           rk   == AsRegion(s[k])
           d    == s[k].data
           off  == a - s[k].addr
           got  == CacheReadPy(s, a, n)
           want == Set!CacheRead(R, a, n)
<1>1. /\ n \in Nat \ {0} /\ n \in Sizes /\ a \in 0..AddrSpace /\ 1 \in 0..AddrSpace
      /\ s \in Seq(Entry)
  <2>1. n \in Nat \ {0} /\ n \in Sizes
    BY InputAssumption
  <2>2. a \in 0..AddrSpace /\ 1 \in 0..AddrSpace
    BY AddrSpaceAssumption DEF ValidAddrSize
  <2> QED
    BY <2>1, <2>2 DEF IsList
<1>2. /\ s[k].addr \in Int /\ End(s[k]) \in Int /\ d \in Seq(Byte) /\ Len(d) \in Nat
      /\ Len(d) = End(s[k]) - s[k].addr
      /\ IsRegion(rk)
  BY <1>1, EntryType, EntryRegion DEF IsList
<1>3. rk \in R /\ AreRegions(R) /\ AllApart(R)
  BY <1>1, ListRegions, AsRegionsMember
<1>4. rk.start = s[k].addr /\ rk.end = End(s[k])
      /\ rk.val = [x \in s[k].addr..(End(s[k]) - 1) |-> d[x - s[k].addr + 1]]
  BY AsRegionFields
<1> HIDE DEF rk, R, d
<1>5. want = [x \in a..(a + n - 1) |-> rk.val[x]]
  <2> DEFINE Q(r) == r.start <= a /\ a + n <= r.end
  <2>1. Q(rk)
    BY <1>4
  <2>2. \A r \in R : Q(r) => r = rk
    <3> SUFFICES ASSUME NEW r \in R, Q(r) PROVE r = rk
      OBVIOUS
    <3>1. r.start \in Int /\ r.end \in Int
      BY <1>3 DEF AreRegions, IsRegion, Addr
    <3>2. Holds(r, a) /\ Holds(rk, a)
      BY <1>1, <1>2, <1>4, <3>1, <2>1 DEF Holds
    <3> QED
      BY <1>3, <3>2, OneHolder
  <2>3. want = IF Set!ValidAddrSize(a, n) /\ \E r \in R : Q(r)
               THEN [x \in a..(a + n - 1) |-> (CHOOSE r \in R : Q(r)).val[x]] ELSE Hole
    BY DEF Set!CacheRead
  <2>4. Set!ValidAddrSize(a, n)
    BY DEF Set!ValidAddrSize, ValidAddrSize
  <2> HIDE DEF Q
  <2>5. (CHOOSE r \in R : Q(r)) = rk
    BY <1>3, <2>1, <2>2
  <2> QED
    BY <1>3, <2>1, <2>3, <2>4, <2>5
<1>6. got = SubSeq(d, off + 1, off + n)
  BY <1>1, SearchFinds DEF d
<1>7. off \in Nat /\ off + n <= Len(d)
  BY <1>1, <1>2
<1>8. got \in [1..n -> Byte] /\ \A i \in 1..n : got[i] = d[off + i]
  <2> HIDE DEF off, got
  <2> DEFINE lo == off + 1
             hi == off + n
  <2>1. /\ lo \in Int /\ hi \in Int /\ hi - lo + 1 = n /\ lo <= hi /\ 1 <= lo /\ hi <= Len(d)
        /\ \A i \in 1..n : lo + i - 1 = off + i
    BY <1>1, <1>7, <1>2
  <2>2. \A i \in lo..hi : d[i] \in Byte
    BY <1>2, <2>1
  <2> HIDE DEF lo, hi
  <2>3. /\ SubSeq(d, lo, hi) \in Seq(Byte)
        /\ Len(SubSeq(d, lo, hi)) = IF lo <= hi THEN hi - lo + 1 ELSE 0
        /\ \A i \in 1..hi - lo + 1 : SubSeq(d, lo, hi)[i] = d[lo + i - 1]
    BY <2>1, <2>2, SubSeqProperties
  <2>4. got = SubSeq(d, lo, hi)
    BY <1>6 DEF lo, hi
  <2>5. got \in Seq(Byte) /\ Len(got) = n
    BY <2>1, <2>3, <2>4
  <2>6. \A i \in 1..n : got[i] = d[off + i]
    BY <2>1, <2>3, <2>4
  <2> QED
    BY <2>5, <2>6
<1>9. got # Hole
  <2>1. 1..(1 + n - 1) = 1..n
    BY <1>1
  <2> QED
    BY <1>1, <1>8, <2>1, HoleAssumption
<1>10. \A x \in a..(a + n - 1) : x \in rk.start..(rk.end - 1) /\ rk.val[x] \in Byte
  <2> SUFFICES ASSUME NEW x \in a..(a + n - 1)
               PROVE  x \in rk.start..(rk.end - 1) /\ rk.val[x] \in Byte
    OBVIOUS
  <2>1. x \in rk.start..(rk.end - 1)
    BY <1>1, <1>2, <1>4
  <2> QED
    BY <1>2, <2>1 DEF IsRegion
<1>11. want # Hole
  <2>1. want \in [a..(a + n - 1) -> Byte]
    BY <1>5, <1>10
  <2> QED
    BY <1>1, <2>1, HoleAssumption
<1>12. ASSUME NEW i \in 1..n
       PROVE  got[i] = want[a + i - 1]
  <2> HIDE DEF got, want
  <2>1. a + i - 1 \in a..(a + n - 1)
    BY <1>1
  <2>2. want[a + i - 1] = rk.val[a + i - 1]
    BY <1>5, <2>1
  <2>3. a + i - 1 \in s[k].addr..(End(s[k]) - 1)
    BY <1>4, <1>10, <2>1
  <2>4. rk.val[a + i - 1] = d[(a + i - 1) - s[k].addr + 1]
    BY <1>4, <2>3
  <2>5. (a + i - 1) - s[k].addr + 1 = off + i
    BY <1>1, <1>2
  <2> QED
    BY <1>8, <2>2, <2>4, <2>5
<1> QED
  BY <1>9, <1>11, <1>12 DEF R

\* On a sorted list a read returns what the regions hold, or fails with them.
LEMMA BisectFindsOn ==
  ASSUME NEW s, IsList(s), NEW a \in Int, NEW n \in Sizes \ {0}
  PROVE  LET got  == CacheReadPy(s, a, n)
             want == Set!CacheRead(AsRegions(s), a, n)
         IN  IF want = Hole THEN got = Hole
             ELSE got # Hole /\ \A i \in 1..n : got[i] = want[a + i - 1]
<1>1. n \in Nat \ {0} /\ s \in Seq(Entry)
  BY InputAssumption DEF IsList
<1> DEFINE Held(k) == s[k].addr <= a /\ a + n <= End(s[k])
<1>2. CASE ValidAddrSize(a, n) /\ \E k \in DOMAIN s : Held(k)
  BY <1>2, SearchOfHeld
<1>3. CASE ~(ValidAddrSize(a, n) /\ \E k \in DOMAIN s : Held(k))
  <2>1. CacheReadPy(s, a, n) = Hole
    BY <1>1, <1>3, SearchSound
  <2>2. ASSUME NEW r \in AsRegions(s), r.start <= a, a + n <= r.end
        PROVE  \E k \in DOMAIN s : Held(k)
    <3>1. PICK k \in DOMAIN s : r = AsRegion(s[k])
      BY <1>1, AsRegionsMember
    <3>2. r.start = s[k].addr /\ r.end = End(s[k])
      BY <3>1, AsRegionFields
    <3> QED
      BY <2>2, <3>2
  <2>3. Set!ValidAddrSize(a, n) <=> ValidAddrSize(a, n)
    BY DEF Set!ValidAddrSize, ValidAddrSize
  <2>4. Set!CacheRead(AsRegions(s), a, n) = Hole
    <3> HIDE DEF Held
    <3> QED
      BY <1>3, <2>2, <2>3 DEF Set!CacheRead
  <2> QED
    BY <2>1, <2>4
<1> QED
  BY <1>2, <1>3

-----------------------------------------------------------------------------
\* The indices of a prefix and of a suffix of s.
Ends(s, K) == \E p, q \in Nat : p < q /\ q <= Len(s) + 1 /\ K = (1..p) \cup (q..Len(s))

\* Selecting the entries at a prefix and a suffix of the indices keeps exactly
\* those, in the order of the list.
LEMMA SelectEnds ==
  ASSUME NEW s, IsList(s), NEW K,
         Ends(s, K),
         NEW t, t = Select(s, K)
  PROVE  /\ IsList(t)
         /\ \A i \in DOMAIN t : \E k \in K : t[i] = s[k]
         /\ \A k \in K : \E i \in DOMAIN t : t[i] = s[k]
<1>0. PICK p, q \in Nat : p < q /\ q <= Len(s) + 1 /\ K = (1..p) \cup (q..Len(s))
  BY DEF Ends
<1> DEFINE c == Cardinality(K)
           up(f) == \A i, j \in DOMAIN f : i < j => f[i] < f[j]
           g == [i \in 1..c |-> IF i <= p THEN i ELSE i - p + q - 1]
           f == CHOOSE f \in Bijection(1..c, K) : up(f)
<1>1. s \in Seq(Entry) /\ Len(s) \in Nat /\ DOMAIN s = 1..Len(s)
  BY DEF IsList
<1>6. Select(s, K) = [i \in DOMAIN f |-> s[f[i]]]
  BY DEF Select
<1>2. c = p + (Len(s) - q + 1)
  <2>1. /\ IsFiniteSet(1..p) /\ Cardinality(1..p) = p
        /\ IsFiniteSet(q..Len(s)) /\ Cardinality(q..Len(s)) = Len(s) - q + 1
    <3>1. /\ IsFiniteSet(1..p)
          /\ Cardinality(1..p) = IF 1 > p THEN 0 ELSE p - 1 + 1
      BY FS_Interval
    <3>2. /\ IsFiniteSet(q..Len(s))
          /\ Cardinality(q..Len(s)) = IF q > Len(s) THEN 0 ELSE Len(s) - q + 1
      <4>1. q \in Int /\ Len(s) \in Int
        BY <1>1
      <4> QED
        BY <4>1, FS_Interval
    <3> QED
      BY <1>0, <1>1, <3>1, <3>2
  <2>2. (1..p) \cap (q..Len(s)) = {}
    BY <1>0, <1>1
  <2>3. Cardinality((1..p) \cap (q..Len(s))) = 0
    BY <2>2, FS_EmptySet
  <2>4. Cardinality(K) = Cardinality(1..p) + Cardinality(q..Len(s)) - Cardinality((1..p) \cap (q..Len(s)))
    BY <1>0, <2>1, FS_Union
  <2> QED
    BY <1>0, <1>1, <2>1, <2>3, <2>4
<1> HIDE DEF c
<1>3. c \in Nat
  BY <1>0, <1>1, <1>2
<1>4. g \in Bijection(1..c, K) /\ up(g)
  <2>1. g \in [1..c -> K]
    BY <1>0, <1>1, <1>2, <1>3
  <2>2. \A i, j \in 1..c : i < j => g[i] < g[j]
    BY <1>0, <1>1, <1>2, <1>3
  <2>3. \A i, j \in 1..c : g[i] = g[j] => i = j
    BY <1>0, <1>1, <1>2, <1>3
  <2>4. \A k \in K : \E i \in 1..c : g[i] = k
    <3>1. ASSUME NEW k \in 1..p PROVE k \in 1..c /\ g[k] = k
      BY <1>0, <1>1, <1>2, <1>3
    <3>2. ASSUME NEW k \in q..Len(s) PROVE k + p - q + 1 \in 1..c /\ g[k + p - q + 1] = k
      BY <1>0, <1>1, <1>2, <1>3
    <3> HIDE DEF g
    <3> QED
      BY <1>0, <3>1, <3>2
  <2> HIDE DEF g
  <2> QED
    BY <2>1, <2>2, <2>3, <2>4 DEF Bijection, Injection, Surjection, IsInjective
<1>5. f \in Bijection(1..c, K) /\ up(f)
  <2> HIDE DEF g, up
  <2> QED
    BY <1>4
<1> HIDE DEF f
<1>7. f \in [1..c -> K] /\ \A k \in K : \E i \in 1..c : f[i] = k
  BY <1>5 DEF Bijection, Injection, Surjection
<1>8. t = [i \in 1..c |-> s[f[i]]]
  BY <1>6, <1>7
<1>9. \A k \in K : k \in DOMAIN s /\ k \in Int
  BY <1>0, <1>1
<1>10. \A i \in 1..c : f[i] \in DOMAIN s /\ f[i] \in Int /\ t[i] = s[f[i]]
  BY <1>7, <1>8, <1>9
<1>11. t \in Seq(Entry) /\ DOMAIN t = 1..c
  <2>1. \A i \in 1..c : s[f[i]] \in Entry
    BY <1>1, <1>10, EntryType
  <2>2. /\ [i \in 1..c |-> s[f[i]]] \in Seq(Entry)
        /\ DOMAIN [i \in 1..c |-> s[f[i]]] = 1..c
    BY <1>3, <2>1
  <2> QED
    BY <1>8, <2>2
<1>12. \A i, j \in 1..c : i < j => f[i] < f[j]
  BY <1>5, <1>7
<1>13. IsList(t)
  <2>1. \A i \in DOMAIN t : t[i].data # <<>> /\ End(t[i]) <= AddrSpace
    BY <1>10, <1>11 DEF IsList
  <2>2. ASSUME NEW i \in DOMAIN t, NEW j \in DOMAIN t, i < j
        PROVE  End(t[i]) < t[j].addr
    <3>1. f[i] \in DOMAIN s /\ f[j] \in DOMAIN s /\ f[i] < f[j]
      BY <1>10, <1>11, <1>12, <2>2
    <3>2. End(s[f[i]]) < s[f[j]].addr
      BY <3>1 DEF IsList
    <3> QED
      BY <1>10, <1>11, <3>2
  <2> QED
    BY <1>11, <2>1, <2>2 DEF IsList
<1>14. \A i \in DOMAIN t : \E k \in K : t[i] = s[k]
  BY <1>7, <1>10, <1>11
<1>15. ASSUME NEW k \in K PROVE \E i \in DOMAIN t : t[i] = s[k]
  <2>1. PICK i \in 1..c : f[i] = k
    BY <1>7
  <2> QED
    BY <1>10, <1>11, <2>1
<1> QED
  BY <1>13, <1>14, <1>15

\* Where an entry belongs in a list.
LEMMA PlaceOf ==
  ASSUME NEW t, IsList(t), NEW x \in Int
  PROVE  \E m \in 1..(Len(t) + 1) :
           /\ \A i \in DOMAIN t : i < m => t[i].addr <= x
           /\ \A i \in DOMAIN t : m <= i => x < t[i].addr
<1> DEFINE T == {m \in 1..(Len(t) + 1) : \A i \in DOMAIN t : m <= i => x < t[i].addr}
<1>1. t \in Seq(Entry) /\ Len(t) \in Nat /\ DOMAIN t = 1..Len(t)
  BY DEF IsList
<1>2. \A i \in 1..Len(t) : t[i].addr \in Int /\ End(t[i]) \in Int /\ t[i].addr < End(t[i])
  BY <1>1, EntryType, EntryRegion DEF IsList
<1>3. \A i, j \in 1..Len(t) : i < j => t[i].addr < t[j].addr
  BY <1>1, <1>2 DEF IsList
<1>4. Len(t) + 1 \in T
  BY <1>1
<1>5. PICK m \in T : \A k \in T : m <= k
  <2>1. T \in SUBSET Nat /\ T # {}
    BY <1>1, <1>4
  <2> HIDE DEF T
  <2> QED
    BY <2>1, LeastOf
<1>6. m \in 1..(Len(t) + 1) /\ \A i \in DOMAIN t : m <= i => x < t[i].addr
  BY <1>5
<1>7. ASSUME NEW i \in DOMAIN t, i < m, x < t[i].addr
      PROVE  FALSE
  <2>1. i \in 1..Len(t) /\ i \in 1..(Len(t) + 1)
    BY <1>1
  <2>2. \A j \in DOMAIN t : i <= j => x < t[j].addr
    BY <1>1, <1>2, <1>3, <1>7, <2>1
  <2>3. i \in T
    BY <2>1, <2>2
  <2> QED
    BY <1>1, <1>5, <1>6, <1>7, <2>1, <2>3
<1>8. \A i \in DOMAIN t : i < m => t[i].addr <= x
  BY <1>1, <1>2, <1>7
<1> QED
  BY <1>6, <1>8

\* Sorting a list with one more entry at its end that touches none of the
\* others gives a list of the same entries.
LEMMA SortOfAppended ==
  ASSUME NEW t, IsList(t), NEW e \in Entry, e.data # <<>>, End(e) <= AddrSpace,
         \A i \in DOMAIN t : End(t[i]) < e.addr \/ End(e) < t[i].addr
  PROVE  LET w == SortByAddr(Append(t, e))
         IN  /\ IsList(w)
             /\ \A r : (\E i \in DOMAIN w : w[i] = r) <=> r = e \/ (\E i \in DOMAIN t : t[i] = r)
<1> DEFINE n == Len(t) + 1
           u == Append(t, e)
           up(p) == \A i, j \in DOMAIN u : i < j => u[p[i]].addr <= u[p[j]].addr
           p == CHOOSE p \in Bijection(DOMAIN u, DOMAIN u) : up(p)
           w == [i \in DOMAIN u |-> u[p[i]]]
<1>1. t \in Seq(Entry) /\ Len(t) \in Nat /\ DOMAIN t = 1..Len(t) /\ n \in Nat \ {0}
  BY DEF IsList
<1>2. /\ u \in Seq(Entry) /\ DOMAIN u = 1..n
      /\ \A i \in 1..n : u[i] = IF i = n THEN e ELSE t[i]
  BY <1>1
<1> HIDE DEF u
<1>3. \A i \in 1..n : /\ u[i].addr \in Int /\ End(u[i]) \in Int
                      /\ u[i].data # <<>> /\ End(u[i]) <= AddrSpace /\ u[i].addr < End(u[i])
  <2>1. \A i \in 1..n : u[i] \in Entry /\ u[i].addr \in Int /\ End(u[i]) \in Int
    BY <1>2, EntryType
  <2>2. \A i \in 1..n : u[i].data # <<>> /\ End(u[i]) <= AddrSpace
    <3> SUFFICES ASSUME NEW i \in 1..n PROVE u[i].data # <<>> /\ End(u[i]) <= AddrSpace
      OBVIOUS
    <3>1. CASE i = n
      BY <1>2, <3>1
    <3>2. CASE i # n
      <4>1. i \in DOMAIN t
        BY <1>1, <3>2
      <4> QED
        BY <1>2, <3>2, <4>1 DEF IsList
    <3> QED
      BY <3>1, <3>2
  <2> QED
    BY <2>1, <2>2, EntryRegion
<1>4. \A i, j \in 1..n : i # j => End(u[i]) < u[j].addr \/ End(u[j]) < u[i].addr
  <2> SUFFICES ASSUME NEW i \in 1..n, NEW j \in 1..n, i # j
               PROVE  End(u[i]) < u[j].addr \/ End(u[j]) < u[i].addr
    OBVIOUS
  <2>1. CASE i = n
    <3>1. j \in DOMAIN t /\ j # n
      BY <1>1, <2>1
    <3> QED
      BY <1>2, <2>1, <3>1
  <2>2. CASE j = n
    <3>1. i \in DOMAIN t /\ i # n
      BY <1>1, <2>2
    <3> QED
      BY <1>2, <2>2, <3>1
  <2>3. CASE i # n /\ j # n
    <3>1. i \in DOMAIN t /\ j \in DOMAIN t /\ (i < j \/ j < i)
      BY <1>1, <2>3
    <3>2. End(t[i]) < t[j].addr \/ End(t[j]) < t[i].addr
      BY <3>1 DEF IsList
    <3> QED
      BY <1>2, <2>3, <3>2
  <2> QED
    BY <2>1, <2>2, <2>3
<1>5. PICK m \in 1..n : /\ \A i \in DOMAIN t : i < m => t[i].addr <= e.addr
                        /\ \A i \in DOMAIN t : m <= i => e.addr < t[i].addr
  <2>1. e.addr \in Int
    BY <1>1, <1>2, <1>3
  <2> QED
    BY <2>1, PlaceOf
<1> DEFINE g == [i \in 1..n |-> IF i < m THEN i ELSE IF i = m THEN n ELSE i - 1]
<1>6. g \in Bijection(DOMAIN u, DOMAIN u) /\ up(g)
  <2>1. g \in [1..n -> 1..n]
    BY <1>1, <1>5
  <2>2. \A i, j \in 1..n : g[i] = g[j] => i = j
    BY <1>1, <1>5
  <2>3. \A k \in 1..n : \E i \in 1..n : g[i] = k
    <3> SUFFICES ASSUME NEW k \in 1..n PROVE \E i \in 1..n : g[i] = k
      OBVIOUS
    <3>1. CASE k = n
      BY <1>1, <1>5, <3>1
    <3>2. CASE k < m /\ k # n
      BY <1>1, <1>5, <3>2
    <3>3. CASE ~(k < m) /\ k # n
      <4>1. k + 1 \in 1..n /\ g[k + 1] = k
        BY <1>1, <1>5, <3>3
      <4> QED
        BY <4>1
    <3> QED
      BY <3>1, <3>2, <3>3
  <2>4. ASSUME NEW i \in 1..n, NEW j \in 1..n, i < j
        PROVE  u[g[i]].addr <= u[g[j]].addr
    <3>1. \A k, l \in DOMAIN t : k < l => t[k].addr <= t[l].addr
      <4>1. \A k \in DOMAIN t : /\ t[k].addr \in Int /\ End(t[k]) \in Int
                                /\ t[k].addr < End(t[k])
        BY <1>1, EntryType, EntryRegion DEF IsList
      <4> QED
        BY <4>1 DEF IsList
    <3>2. e.addr \in Int
      BY <1>1, <1>2, <1>3
    <3>3. CASE i = m
      <4>1. g[i] = n /\ g[j] = j - 1 /\ j - 1 \in DOMAIN t /\ m <= j - 1 /\ j - 1 # n /\ j - 1 \in 1..n /\ n \in 1..n
        BY <1>1, <1>5, <2>4, <3>3
      <4>2. e.addr < t[j - 1].addr /\ u[j - 1] = t[j - 1] /\ u[n] = e
        BY <1>2, <1>5, <4>1
      <4>3. u[g[i]] = e /\ u[g[j]] = t[j - 1] /\ t[j - 1].addr \in Int
        <5> HIDE DEF g, n
        <5> QED
          BY <1>1, <4>1, <4>2, EntryType
      <4> HIDE DEF g
      <4> QED
        BY <3>2, <4>2, <4>3
    <3>4. CASE j = m
      <4>1. g[i] = i /\ g[j] = n /\ i \in DOMAIN t /\ i < m /\ i # n /\ n \in 1..n
        BY <1>1, <1>5, <2>4, <3>4
      <4> QED
        BY <1>2, <1>5, <4>1
    <3>5. CASE i # m /\ j # m
      <4>1. /\ g[i] \in DOMAIN t /\ g[j] \in DOMAIN t /\ g[i] < g[j] /\ g[i] # n /\ g[j] # n
            /\ g[i] \in 1..n /\ g[j] \in 1..n
        BY <1>1, <1>5, <2>4, <3>5
      <4> HIDE DEF g
      <4> QED
        BY <1>2, <3>1, <4>1
    <3> QED
      BY <3>3, <3>4, <3>5
  <2> HIDE DEF g
  <2>5. g \in Bijection(1..n, 1..n)
    BY <2>1, <2>2, <2>3 DEF Bijection, Injection, Surjection, IsInjective
  <2> QED
    BY <1>2, <2>4, <2>5
<1>7. p \in Bijection(DOMAIN u, DOMAIN u) /\ up(p)
  <2> HIDE DEF g, up
  <2> QED
    BY <1>6
<1>8. SortByAddr(u) = w
  BY DEF SortByAddr
<1> HIDE DEF p
<1>9. /\ p \in [1..n -> 1..n]
      /\ \A i, j \in 1..n : p[i] = p[j] => i = j
      /\ \A k \in 1..n : \E i \in 1..n : p[i] = k
  BY <1>2, <1>7 DEF Bijection, Injection, Surjection, IsInjective
<1>10. /\ w \in Seq(Entry) /\ DOMAIN w = 1..n
       /\ \A i \in 1..n : p[i] \in 1..n /\ w[i] = u[p[i]]
  <2>1. \A i \in 1..n : p[i] \in 1..n /\ u[p[i]] \in Entry
    <3> HIDE DEF n
    <3>1. \A i \in 1..n : u[i] \in Entry
      BY <1>2, EntryType
    <3>2. \A i \in 1..n : p[i] \in 1..n
      BY <1>9
    <3> QED
      BY <3>1, <3>2
  <2>2. w = [i \in 1..n |-> u[p[i]]]
    BY <1>2
  <2> HIDE DEF w, n, p
  <2>3. \A i \in 1..n : w[i] = u[p[i]] /\ w[i] \in Entry
    BY <2>1, <2>2
  <2>4. w \in [1..n -> Entry]
    BY <2>1, <2>2
  <2>5. w \in Seq(Entry) /\ DOMAIN w = 1..n
    BY <1>1, <2>4
  <2> QED
    BY <2>1, <2>3, <2>5
<1>11. \A i, j \in 1..n : i < j => w[i].addr <= w[j].addr
  BY <1>2, <1>7, <1>10
<1> HIDE DEF w, n
<1>12. ASSUME NEW i \in 1..n, NEW j \in 1..n, i < j
       PROVE  End(w[i]) < w[j].addr
  <2>1. i # j
    BY <1>1, <1>12
  <2>3. p[i] # p[j]
    BY <1>9, <2>1
  <2>2. End(w[i]) < w[j].addr \/ End(w[j]) < w[i].addr
    BY <1>4, <1>10, <2>3
  <2>4. /\ w[i].addr \in Int /\ End(w[i]) \in Int /\ w[i].addr < End(w[i])
        /\ w[j].addr \in Int /\ End(w[j]) \in Int /\ w[j].addr < End(w[j])
    BY <1>3, <1>10
  <2>5. w[i].addr <= w[j].addr
    BY <1>11, <1>12
  <2> QED
    BY <2>2, <2>4, <2>5
<1>13. IsList(w)
  BY <1>3, <1>10, <1>12 DEF IsList
<1>14. ASSUME NEW r
       PROVE  (\E i \in DOMAIN w : w[i] = r) <=> r = e \/ (\E i \in DOMAIN t : t[i] = r)
  <2>1. (\E i \in DOMAIN w : w[i] = r) <=> (\E k \in 1..n : u[k] = r)
    <3>1. ASSUME NEW k \in 1..n, u[k] = r PROVE \E i \in DOMAIN w : w[i] = r
      <4>1. PICK i \in 1..n : p[i] = k
        BY <1>9
      <4> QED
        BY <1>10, <3>1, <4>1
    <3> QED
      BY <1>10, <3>1
  <2>2. (\E k \in 1..n : u[k] = r) <=> (r = e \/ \E i \in DOMAIN t : t[i] = r)
    <3>1. n \in 1..n /\ u[n] = e /\ \A i \in DOMAIN t : i \in 1..n /\ u[i] = t[i]
      BY <1>1, <1>2 DEF n
    <3>2. \A k \in 1..n : k = n \/ k \in DOMAIN t
      BY <1>1 DEF n
    <3> QED
      BY <1>2, <3>1, <3>2
  <2> QED
    BY <2>1, <2>2
<1> QED
  BY <1>8, <1>13, <1>14 DEF u

-----------------------------------------------------------------------------
\* The indices of the entries _merge_write leaves alone, and of the others.
Kept(s, a, n) == {i \in DOMAIN s : End(s[i]) < a \/ s[i].addr > a + n}
Met(s, a, n) == DOMAIN s \ Kept(s, a, n)

\* The entries left alone are those at the two ends of the list.
LEMMA KeptEnds ==
  ASSUME NEW s, IsList(s), NEW a \in Nat, NEW n \in Nat
  PROVE  Ends(s, Kept(s, a, n))
<1> DEFINE N == Len(s) + 1
           L == {i \in 1..N : i = N \/ ~(End(s[i]) < a)}
           H == {i \in 1..N : i = N \/ s[i].addr > a + n}
<1>1. s \in Seq(Entry) /\ Len(s) \in Nat /\ DOMAIN s = 1..Len(s)
  BY DEF IsList
<1>2. \A i \in 1..Len(s) : s[i].addr \in Int /\ End(s[i]) \in Int /\ s[i].addr < End(s[i])
  BY <1>1, EntryType, EntryRegion DEF IsList
<1>3. \A i, j \in 1..Len(s) : i < j => End(s[i]) < s[j].addr
  BY <1>1 DEF IsList
<1>4. PICK l \in L : \A k \in L : l <= k
  <2>1. L \in SUBSET Nat /\ N \in L
    BY <1>1
  <2> HIDE DEF L
  <2> QED
    BY <2>1, LeastOf
<1>5. PICK h \in H : \A k \in H : h <= k
  <2>1. H \in SUBSET Nat /\ N \in H
    BY <1>1
  <2> HIDE DEF H
  <2> QED
    BY <2>1, LeastOf
<1>6. l \in 1..N /\ h \in 1..N /\ N = Len(s) + 1
  BY <1>4, <1>5
<1>7. \A i \in 1..Len(s) : i < l => End(s[i]) < a
  <2> SUFFICES ASSUME NEW i \in 1..Len(s), i < l PROVE End(s[i]) < a
    OBVIOUS
  <2>1. i \in 1..N /\ i # N /\ i \notin L
    BY <1>1, <1>4, <1>6
  <2> QED
    BY <2>1
<1>8. \A i \in 1..Len(s) : i < h => ~(s[i].addr > a + n)
  <2> SUFFICES ASSUME NEW i \in 1..Len(s), i < h PROVE ~(s[i].addr > a + n)
    OBVIOUS
  <2>1. i \in 1..N /\ i # N /\ i \notin H
    BY <1>1, <1>5, <1>6
  <2> QED
    BY <2>1
<1>9. \A i \in 1..Len(s) : l <= i => ~(End(s[i]) < a)
  <2> SUFFICES ASSUME NEW i \in 1..Len(s), l <= i PROVE ~(End(s[i]) < a)
    OBVIOUS
  <2>1. l \in 1..Len(s) /\ ~(End(s[l]) < a)
    BY <1>1, <1>4, <1>6
  <2> QED
    BY <1>1, <1>2, <1>3, <2>1
<1>10. \A i \in 1..Len(s) : h <= i => s[i].addr > a + n
  <2> SUFFICES ASSUME NEW i \in 1..Len(s), h <= i PROVE s[i].addr > a + n
    OBVIOUS
  <2>1. h \in 1..Len(s) /\ s[h].addr > a + n
    BY <1>1, <1>5, <1>6
  <2> QED
    BY <1>1, <1>2, <1>3, <2>1
<1> HIDE DEF L, H
<1>11. l - 1 < h
  <2> SUFFICES ASSUME h < l PROVE FALSE
    BY <1>1, <1>6
  <2>1. h \in 1..Len(s)
    BY <1>1, <1>6
  <2> QED
    BY <1>2, <1>6, <1>7, <1>10, <2>1
<1>12. Kept(s, a, n) = (1..(l - 1)) \cup (h..Len(s))
  <2>1. ASSUME NEW i \in Kept(s, a, n) PROVE i \in (1..(l - 1)) \cup (h..Len(s))
    <3>1. i \in 1..Len(s) /\ (End(s[i]) < a \/ s[i].addr > a + n)
      BY <1>1 DEF Kept
    <3>2. i < l \/ h <= i
      BY <1>1, <1>6, <1>8, <1>9, <3>1
    <3> QED
      BY <1>1, <1>6, <3>1, <3>2
  <2>2. ASSUME NEW i \in (1..(l - 1)) \cup (h..Len(s)) PROVE i \in Kept(s, a, n)
    <3>1. i \in 1..Len(s) /\ (i < l \/ h <= i)
      BY <1>1, <1>6
    <3> QED
      BY <1>1, <1>7, <1>10, <3>1 DEF Kept
  <2> QED
    BY <2>1, <2>2
<1>13. l - 1 \in Nat /\ h \in Nat /\ h <= Len(s) + 1
  BY <1>1, <1>6
<1> QED
  BY <1>11, <1>12, <1>13 DEF Ends

\* They are the regions the set of regions keeps and folds in.
LEMMA MetRegions ==
  ASSUME NEW s, IsList(s), NEW a \in Nat, NEW n \in Nat
  PROVE  /\ Overlapping(AsRegions(s), a, n) = {AsRegion(s[i]) : i \in Met(s, a, n)}
         /\ Remaining(AsRegions(s), a, n) = {AsRegion(s[i]) : i \in Kept(s, a, n)}
<1> DEFINE R == AsRegions(s)
<1>1. s \in Seq(Entry)
  BY DEF IsList
<1>2. \A i \in DOMAIN s : s[i].addr \in Int /\ End(s[i]) \in Int
  BY <1>1, EntryType
<1>3. /\ \A i \in DOMAIN s : AsRegion(s[i]) \in R
      /\ \A r \in R : \E i \in DOMAIN s : r = AsRegion(s[i])
      /\ \A i, j \in DOMAIN s : i # j => AsRegion(s[i]) # AsRegion(s[j])
  BY <1>1, AsRegionsMember, ListRegions
<1> HIDE DEF R
<1>4. \A i \in DOMAIN s : AsRegion(s[i]) \in Overlapping(R, a, n) <=> i \in Met(s, a, n)
  <2> SUFFICES ASSUME NEW i \in DOMAIN s
               PROVE  AsRegion(s[i]) \in Overlapping(R, a, n) <=> i \in Met(s, a, n)
    OBVIOUS
  <2>1. i \in Met(s, a, n) <=> ~(End(s[i]) < a \/ s[i].addr > a + n)
    BY DEF Met, Kept
  <2>2. AsRegion(s[i]).start = s[i].addr /\ AsRegion(s[i]).end = End(s[i])
    BY AsRegionFields
  <2> QED
    BY <1>3, <2>1, <2>2 DEF Overlapping
<1>5. Overlapping(R, a, n) \subseteq R
  BY DEF Overlapping
<1>6. Overlapping(R, a, n) = {AsRegion(s[i]) : i \in Met(s, a, n)}
  <2>1. ASSUME NEW r \in Overlapping(R, a, n) PROVE \E i \in Met(s, a, n) : r = AsRegion(s[i])
    BY <1>3, <1>4, <1>5
  <2>2. ASSUME NEW i \in Met(s, a, n) PROVE AsRegion(s[i]) \in Overlapping(R, a, n)
    BY <1>4 DEF Met
  <2> QED
    BY <2>1, <2>2
<1>7. Remaining(R, a, n) = {AsRegion(s[i]) : i \in Kept(s, a, n)}
  <2>1. ASSUME NEW r \in Remaining(R, a, n) PROVE \E i \in Kept(s, a, n) : r = AsRegion(s[i])
    <3>1. r \in R /\ r \notin Overlapping(R, a, n)
      BY DEF Remaining
    <3>2. PICK i \in DOMAIN s : r = AsRegion(s[i])
      BY <1>3, <3>1
    <3> QED
      BY <1>4, <3>1, <3>2 DEF Met
  <2>2. ASSUME NEW i \in Kept(s, a, n) PROVE AsRegion(s[i]) \in Remaining(R, a, n)
    <3>1. i \in DOMAIN s /\ i \notin Met(s, a, n)
      BY DEF Kept, Met
    <3> QED
      BY <1>3, <1>4, <3>1 DEF Remaining
  <2> QED
    BY <2>1, <2>2
<1> QED
  BY <1>6, <1>7 DEF R

\* The least and the greatest of a set with a least and a greatest element.
LEMMA MinIs ==
  ASSUME NEW S \in SUBSET Int, NEW lo \in S, \A y \in S : lo <= y
  PROVE  Min(S) = lo
<1>1. \A x \in S : (\A y \in S : x <= y) => x = lo
  OBVIOUS
<1> QED
  BY <1>1 DEF Min

\* An element that none exceeds is the maximum.
LEMMA MaxIs ==
  ASSUME NEW S \in SUBSET Int, NEW hi \in S, \A y \in S : hi >= y
  PROVE  Max(S) = hi
<1>1. \A x \in S : (\A y \in S : x >= y) => x = hi
  OBVIOUS
<1> QED
  BY <1>1 DEF Max

\* d is data at its addresses, O the regions of the entries of s at the
\* indices in M, and lo .. hi-1 holds d.
Merging(s, M, O, a, data, d, lo, hi) ==
  /\ IsList(s) /\ M \subseteq DOMAIN s
  /\ \A r : r \in O <=> \E k \in M : r = AsRegion(s[k])
  /\ a \in Nat /\ data \in Seq(Byte)
  /\ d = BytesAt(a, a + Len(data), data)
  /\ lo \in Nat /\ hi \in Nat /\ lo <= a /\ a + Len(data) <= hi

\* The bytes of the merged entry, laid down in list order and overlaid with
\* the new data, are those of the merged region.
LEMMA MergedBytes ==
  ASSUME NEW s, NEW M, NEW O, NEW a, NEW data, NEW d, NEW lo, NEW hi,
         Merging(s, M, O, a, data, d, lo, hi),
         NEW x \in lo..(hi - 1)
  PROVE  Store(LayDown(s, M, lo, hi), a - lo, data)[x - lo + 1]
           = MergedVal(O, lo, hi, a, Len(data), d)[x]
<1>0. /\ IsList(s) /\ M \subseteq DOMAIN s
      /\ \A r : r \in O <=> \E k \in M : r = AsRegion(s[k])
      /\ a \in Nat /\ data \in Seq(Byte)
      /\ d = BytesAt(a, a + Len(data), data)
      /\ lo \in Nat /\ hi \in Nat /\ lo <= a /\ a + Len(data) <= hi
  BY DEF Merging
<1> DEFINE i    == x - lo + 1
           off  == a - lo
           n    == Len(data)
           old  == LayDown(s, M, lo, hi)
           over == {k \in M : s[k].addr < lo + i /\ lo + i <= End(s[k])}
           last == CHOOSE k \in over : \A j \in over : j <= k
           byte == IF over = {} THEN Zero ELSE s[last].data[lo + i - s[last].addr]
<1>1. /\ s \in Seq(Entry) /\ n \in Nat /\ x \in Int
      /\ i \in Int /\ lo + i = x + 1 /\ x \in lo..(hi - 1) /\ off \in Int /\ lo \in Int
      /\ i \in 1..(hi - lo) /\ i - off = x - a + 1
      /\ (off < i <=> a <= x) /\ (i <= off + n <=> x < a + n)
  <2>1. s \in Seq(Entry)
    BY <1>0 DEF IsList
  <2>2. n \in Nat
    BY <1>0
  <2>3. lo \in Int /\ hi \in Int /\ a \in Int /\ x \in lo..(hi - 1)
    BY <1>0
  <2> HIDE DEF n
  <2>4. i \in Int /\ lo + i = x + 1 /\ x \in Int /\ off \in Int /\ i \in 1..(hi - lo)
    BY <2>3
  <2>5. i - off = x - a + 1 /\ (off < i <=> a <= x) /\ (i <= off + n <=> x < a + n)
    BY <2>2, <2>3
  <2> QED
    BY <2>1, <2>2, <2>3, <2>4, <2>5
<1>2. \A k \in DOMAIN s : s[k].addr \in Int /\ End(s[k]) \in Int
  BY <1>1, EntryType
<1>3. DOMAIN old = 1..(hi - lo)
  BY DEF LayDown
<1>4. old[i] = byte
  <2> QED
    BY <1>1 DEF LayDown
<1> HIDE DEF old
<1>5. Store(old, off, data)[i]
        = IF off < i /\ i <= off + n THEN data[i - off] ELSE byte
  <2> HIDE DEF byte
  <2> QED
    BY <1>1, <1>3, <1>4 DEF Store
<1>6. MergedVal(O, lo, hi, a, n, d)[x]
        = IF a <= x /\ x < a + n THEN d[x]
          ELSE IF \E r \in O : Holds(r, x) THEN (CHOOSE r \in O : Holds(r, x)).val[x] ELSE Zero
  BY DEF MergedVal
<1>7. CASE a <= x /\ x < a + n
  <2>1. x \in a..(a + n - 1)
    <3>1. a \in Int /\ n \in Int /\ x \in Int
      BY <1>0, <1>1
    <3> HIDE DEF n
    <3> QED
      BY <1>7, <3>1
  <2>2. d[x] = data[i - off]
    <3> DEFINE f == a + n
    <3>1. x \in a..(f - 1) /\ d = BytesAt(a, f, data)
      BY <1>0, <2>1
    <3> HIDE DEF f, n
    <3>2. d[x] = data[x - a + 1]
      BY <3>1, BytesAtByte
    <3> QED
      BY <1>1, <3>2
  <2> HIDE DEF byte
  <2> QED
    BY <1>1, <1>5, <1>6, <1>7, <2>2 DEF old
<1>8. CASE ~(a <= x /\ x < a + n)
  <2>1. ~(off < i /\ i <= off + n)
    BY <1>1, <1>8
  <2> HIDE DEF i, off
  <2>2. \A k \in M : k \in over <=> Holds(AsRegion(s[k]), x)
    <3> SUFFICES ASSUME NEW k \in M PROVE k \in over <=> Holds(AsRegion(s[k]), x)
      OBVIOUS
    <3>1. s[k].addr \in Int /\ End(s[k]) \in Int
      BY <1>0, <1>2
    <3>2. Holds(AsRegion(s[k]), x) <=> s[k].addr <= x /\ x < End(s[k])
      BY AsRegionFields DEF Holds
    <3>3. k \in over <=> s[k].addr < x + 1 /\ x + 1 <= End(s[k])
      BY <1>1
    <3> QED
      BY <1>1, <3>1, <3>2, <3>3
  <2>3. CASE over = {}
    <3>1. ~\E r \in O : Holds(r, x)
      BY <1>0, <2>2, <2>3
    <3>2. byte = Zero
      BY <2>3
    <3> QED
      BY <1>5, <1>6, <1>8, <2>1, <3>1, <3>2 DEF i, off, old
  <2>4. CASE over # {}
    <3>1. PICK k \in over : TRUE
      BY <2>4
    <3> HIDE DEF over
    <3>2. k \in M /\ k \in DOMAIN s /\ Holds(AsRegion(s[k]), x)
      BY <1>0, <2>2, <3>1 DEF over
    <3>3. AreRegions(AsRegions(s)) /\ AllApart(AsRegions(s))
      BY <1>0, ListRegions
    <3>4. O \subseteq AsRegions(s)
      BY <1>0, <1>1, AsRegionsMember
    <3>5. \A r \in O : Holds(r, x) => r = AsRegion(s[k])
      <4>1. AsRegion(s[k]) \in AsRegions(s)
        BY <1>1, <3>2, AsRegionsMember
      <4> QED
        BY <1>1, <3>2, <3>3, <3>4, <4>1, OneHolder
    <3>6. (CHOOSE r \in O : Holds(r, x)) = AsRegion(s[k])
      BY <1>0, <3>2, <3>5
    <3>7. \A j \in over : j = k
      <4> SUFFICES ASSUME NEW j \in over, j # k PROVE FALSE
        OBVIOUS
      <4>1. j \in M /\ j \in DOMAIN s /\ Holds(AsRegion(s[j]), x)
        BY <1>0, <2>2 DEF over
      <4>2. AsRegion(s[j]) = AsRegion(s[k])
        BY <1>0, <3>5, <4>1
      <4> QED
        BY <1>0, <3>2, <4>1, <4>2, ListRegions
    <3>8. last = k
      <4>1. k \in Int
        BY <1>1, <3>2
      <4>2. k \in over /\ \A j \in over : j <= k
        BY <3>1, <3>7, <4>1
      <4> QED
        BY <3>7, <4>2
    <3>9. byte = s[k].data[x - s[k].addr + 1]
      <4>1. lo + i - s[k].addr = x - s[k].addr + 1
        <5>1. s[k].addr \in Int
          BY <1>2, <3>2
        <5>2. i \in Int /\ lo + i = x + 1
          BY <1>1
        <5>3. \A y \in Int : lo + i - y = x - y + 1
          BY <1>1, <5>2
        <5> QED
          BY <5>1, <5>3
      <4> HIDE DEF last
      <4> QED
        BY <2>4, <3>8, <4>1
    <3>10. AsRegion(s[k]).val[x] = s[k].data[x - s[k].addr + 1]
      <4> DEFINE A == s[k].addr
                 Z == End(s[k])
      <4>1. A \in Int /\ Z \in Int
        BY <1>2, <3>2
      <4>2. A <= x /\ x < Z
        BY <3>2, AsRegionFields DEF Holds
      <4>3. AsRegion(s[k]).val = [y \in A..(Z - 1) |-> s[k].data[y - A + 1]]
        BY AsRegionFields
      <4> HIDE DEF A, Z
      <4>4. x \in A..(Z - 1)
        BY <1>1, <4>1, <4>2
      <4>5. AsRegion(s[k]).val[x] = s[k].data[x - A + 1]
        BY <4>3, <4>4
      <4> QED
        BY <4>5 DEF A
    <3> HIDE DEF byte
    <3>11. \E r \in O : Holds(r, x)
      BY <1>0, <3>2
    <3> QED
      BY <1>5, <1>6, <1>8, <2>1, <3>6, <3>9, <3>10, <3>11 DEF i, off, old
  <2> QED
    BY <2>3, <2>4
<1> QED
  BY <1>7, <1>8

\* _merge_write on the list is _merge_write on the set of regions, and leaves
\* a sorted list of separated entries.
LEMMA MergeWriteAgrees ==
  ASSUME NEW s, IsList(s), NEW a, NEW data \in Seq(Byte),
         Fits(a, Len(data), BytesAt(a, a + Len(data), data))
  PROVE  /\ IsList(ListMergeWrite(s, a, data))
         /\ AsRegions(ListMergeWrite(s, a, data))
              = MergeWrite(AsRegions(s), a, Len(data), BytesAt(a, a + Len(data), data))
<1> DEFINE R     == AsRegions(s)
           n     == Len(data)
           d     == BytesAt(a, a + Len(data), data)
           O     == Overlapping(R, a, n)
           lo    == MergedStart(O, a)
           hi    == MergedEnd(O, a + n)
           K     == Kept(s, a, n)
           X     == Met(s, a, n)
           start == Min({a} \cup {s[i].addr : i \in X})
           end   == Max({a + n} \cup {End(s[i]) : i \in X})
           bytes == Store(LayDown(s, X, lo, hi), a - lo, data)
           e     == [addr |-> lo, data |-> bytes]
           m     == [start |-> lo, end |-> hi, val |-> MergedVal(O, lo, hi, a, n, d)]
           t     == Select(s, K)
           w     == SortByAddr(Append(t, e))
<1>1. /\ s \in Seq(Entry) /\ n \in Nat \ {0} /\ a \in Nat
      /\ AreRegions(R) /\ AllApart(R)
  BY ListRegions DEF IsList, Fits
<1>2. \A i \in DOMAIN s : s[i].addr \in Int /\ End(s[i]) \in Int
  BY <1>1, EntryType
<1>3. /\ O = {AsRegion(s[i]) : i \in X}
      /\ Remaining(R, a, n) = {AsRegion(s[i]) : i \in K}
  BY <1>1, MetRegions
<1>4. X \subseteq DOMAIN s /\ K \subseteq DOMAIN s
  BY DEF Met, Kept
<1>5. lo \in {a} \cup {r.start : r \in O} /\ lo <= a /\ \A r \in O : lo <= r.start
  BY <1>1, MergedStartBound
<1>6. hi \in {a + n} \cup {r.end : r \in O} /\ hi >= a + n /\ \A r \in O : hi >= r.end
  BY <1>1, MergedEndBound
<1>7. MergeWrite(R, a, n, d) = Remaining(R, a, n) \cup {m}
  BY DEF MergeWrite
<1>8. IsRegion(m)
  BY <1>1, <1>7, MergeWriteRegions DEF AreRegions
<1> HIDE DEF R, lo, hi, O, K, X
<1>9. lo \in Nat /\ hi \in Nat /\ lo < hi /\ lo \in Addr /\ hi <= AddrSpace
  BY <1>8, AddrSpaceAssumption DEF IsRegion, Addr
<1>10. start = lo
  <2> DEFINE S == {a} \cup {s[i].addr : i \in X}
  <2>1. S \in SUBSET Int
    BY <1>1, <1>2, <1>4
  <2>2. S = {a} \cup {r.start : r \in O}
    <3>1. \A i \in X : \E r \in O : r.start = s[i].addr
      BY <1>3, AsRegionFields
    <3>2. ASSUME NEW r \in O PROVE \E i \in X : r.start = s[i].addr
      <4>1. PICK i \in X : r = AsRegion(s[i])
        BY <1>3
      <4> QED
        BY <4>1, AsRegionFields
    <3> QED
      BY <3>1, <3>2
  <2>3. lo \in S
    BY <1>5, <2>2
  <2>4. \A y \in S : lo <= y
    BY <1>5, <2>2
  <2> HIDE DEF S
  <2>5. Min(S) = lo
    BY <2>1, <2>3, <2>4, MinIs
  <2> QED
    BY <2>5 DEF S
<1>11. end = hi
  <2> DEFINE S == {a + n} \cup {End(s[i]) : i \in X}
  <2>1. S \in SUBSET Int
    BY <1>1, <1>2, <1>4
  <2>2. S = {a + n} \cup {r.end : r \in O}
    <3>1. \A i \in X : \E r \in O : r.end = End(s[i])
      BY <1>3, AsRegionFields
    <3>2. ASSUME NEW r \in O PROVE \E i \in X : r.end = End(s[i])
      <4>1. PICK i \in X : r = AsRegion(s[i])
        BY <1>3
      <4> QED
        BY <4>1, AsRegionFields
    <3> QED
      BY <3>1, <3>2
  <2>3. hi \in S
    BY <1>6, <2>2
  <2>4. \A y \in S : hi >= y
    BY <1>6, <2>2
  <2> HIDE DEF S
  <2>5. Max(S) = hi
    BY <2>1, <2>3, <2>4, MaxIs
  <2> QED
    BY <2>5 DEF S
<1>12. ListMergeWrite(s, a, data) = w
  <2>1. ListMergeWrite(s, a, data)
          = SortByAddr(Append(t, [addr |-> start, data |->
              Store(LayDown(s, X, start, end), a - start, data)]))
    BY DEF ListMergeWrite, X, K, Met, Kept
  <2> HIDE DEF start, end, n
  <2> QED
    BY <1>10, <1>11, <2>1
<1> HIDE DEF start, end
<1>13. \A x \in lo..(hi - 1) : bytes[x - lo + 1] = m.val[x]
  <2> SUFFICES ASSUME NEW x \in lo..(hi - 1) PROVE bytes[x - lo + 1] = m.val[x]
    OBVIOUS
  <2>1. lo <= a /\ a + Len(data) <= hi
    BY <1>5, <1>6
  <2>2. Merging(s, X, O, a, data, d, lo, hi)
    <3>1. d = BytesAt(a, a + Len(data), data)
      OBVIOUS
    <3> QED
      BY <1>1, <1>3, <1>4, <1>9, <2>1, <3>1 DEF Merging
  <2>3. m.val = MergedVal(O, lo, hi, a, n, d)
    OBVIOUS
  <2> QED
    BY <2>2, <2>3, MergedBytes
<1>14. m.start = lo /\ m.end = hi /\ m.val \in [lo..(hi - 1) -> Byte]
  <2>1. m.start = lo /\ m.end = hi
    OBVIOUS
  <2> QED
    BY <1>8, <2>1 DEF IsRegion
<1> HIDE DEF m
<1>15. bytes \in Seq(Byte) /\ Len(bytes) = hi - lo
  <2>1. DOMAIN bytes = 1..(hi - lo) /\ bytes = [i \in DOMAIN bytes |-> bytes[i]]
    <3> DEFINE old == LayDown(s, X, lo, hi)
               off == a - lo
    <3>1. DOMAIN old = 1..(hi - lo)
      BY DEF LayDown
    <3> HIDE DEF old, off
    <3>2. bytes = [i \in DOMAIN old |-> IF off < i /\ i <= off + Len(data) THEN data[i - off] ELSE old[i]]
      BY DEF Store, old, off
    <3> HIDE DEF bytes
    <3> QED
      BY <3>1, <3>2
  <2>2. \A i \in 1..(hi - lo) : bytes[i] \in Byte
    <3> SUFFICES ASSUME NEW i \in 1..(hi - lo) PROVE bytes[i] \in Byte
      OBVIOUS
    <3> DEFINE x == i + lo - 1
    <3>1. x \in lo..(hi - 1) /\ x - lo + 1 = i
      BY <1>9
    <3> HIDE DEF x, bytes
    <3> QED
      BY <1>13, <1>14, <3>1
  <2>3. hi - lo \in Nat
    BY <1>9
  <2> HIDE DEF bytes
  <2> QED
    BY <2>1, <2>2, <2>3
<1> HIDE DEF bytes
<1>16. /\ e \in Entry /\ e.data # <<>> /\ End(e) = hi /\ e.addr = lo
       /\ End(e) <= AddrSpace
  <2>1. e.addr = lo /\ e.data = bytes
    OBVIOUS
  <2>2. End(e) = lo + Len(bytes)
    BY <2>1 DEF End
  <2>3. End(e) = hi
    BY <1>9, <1>15, <2>2
  <2>4. e.data # <<>>
    BY <1>9, <1>15, <2>1
  <2>5. e \in Entry
    BY <1>9, <1>15 DEF Entry, Addr
  <2> QED
    BY <1>9, <2>1, <2>3, <2>4, <2>5
<1>17. AsRegion(e) = m
  <2>1. m = [start |-> lo, end |-> hi, val |-> m.val]
    BY <1>8, <1>14 DEF IsRegion
  <2>2. AsRegion(e) = [start |-> lo, end |-> hi, val |-> [x \in lo..(hi - 1) |-> bytes[x - lo + 1]]]
    BY <1>16 DEF AsRegion
  <2>3. [x \in lo..(hi - 1) |-> bytes[x - lo + 1]] = m.val
    BY <1>13, <1>14
  <2> QED
    BY <2>1, <2>2, <2>3
<1>18. /\ IsList(t)
       /\ \A i \in DOMAIN t : \E k \in K : t[i] = s[k]
       /\ \A k \in K : \E i \in DOMAIN t : t[i] = s[k]
  <2>1. Ends(s, K)
    BY <1>1, KeptEnds DEF K
  <2>2. t = Select(s, K)
    OBVIOUS
  <2> HIDE DEF t
  <2>4. IsList(t)
    BY <2>1, <2>2, SelectEnds
  <2>5. \A i \in DOMAIN t : \E k \in K : t[i] = s[k]
    BY <2>1, <2>2, SelectEnds
  <2>6. \A k \in K : \E i \in DOMAIN t : t[i] = s[k]
    BY <2>1, <2>2, SelectEnds
  <2> QED
    BY <2>4, <2>5, <2>6
<1> HIDE DEF t, e
<1>19. \A k \in K : End(s[k]) < e.addr \/ End(e) < s[k].addr
  <2> SUFFICES ASSUME NEW k \in K PROVE End(s[k]) < e.addr \/ End(e) < s[k].addr
    OBVIOUS
  <2> DEFINE rk == AsRegion(s[k])
  <2>1. rk \in MergeWrite(R, a, n, d) /\ m \in MergeWrite(R, a, n, d)
    BY <1>3, <1>7
  <2>2. rk = m \/ Apart(rk, m)
    BY <1>1, <2>1, MergeWriteRegions DEF AllApart
  <2>3. rk.start = s[k].addr /\ rk.end = End(s[k])
    BY AsRegionFields
  <2>4. s[k].addr \in Int /\ End(s[k]) \in Int /\ (End(s[k]) < a \/ s[k].addr > a + n)
    BY <1>2, <1>4 DEF K, Kept
  <2>5. rk # m
    BY <1>1, <1>5, <1>6, <1>9, <1>14, <2>3, <2>4
  <2> QED
    BY <1>14, <1>16, <2>2, <2>3, <2>5 DEF Apart
<1>20. /\ IsList(w)
       /\ \A r : (\E i \in DOMAIN w : w[i] = r) <=> r = e \/ (\E i \in DOMAIN t : t[i] = r)
  <2>1. \A i \in DOMAIN t : End(t[i]) < e.addr \/ End(e) < t[i].addr
    BY <1>18, <1>19
  <2> QED
    BY <1>16, <1>18, <2>1, SortOfAppended
<1> HIDE DEF w
<1>21. AsRegions(w) = Remaining(R, a, n) \cup {m}
  <2>1. w \in Seq(Entry)
    BY <1>20 DEF IsList
  <2>2. ASSUME NEW r \in AsRegions(w) PROVE r \in Remaining(R, a, n) \cup {m}
    <3>1. PICK i \in DOMAIN w : r = AsRegion(w[i])
      BY <2>1, AsRegionsMember
    <3>2. w[i] = e \/ \E k \in K : w[i] = s[k]
      <4>1. w[i] = e \/ \E j \in DOMAIN t : t[j] = w[i]
        BY <1>20
      <4> QED
        BY <1>18, <4>1
    <3> QED
      BY <1>3, <1>17, <3>1, <3>2
  <2>3. ASSUME NEW r \in Remaining(R, a, n) \cup {m} PROVE r \in AsRegions(w)
    <3>1. \E c : r = AsRegion(c) /\ (c = e \/ \E j \in DOMAIN t : t[j] = c)
      <4>1. CASE r = m
        BY <1>17, <4>1
      <4>2. CASE r \in Remaining(R, a, n)
        <5>1. PICK k \in K : r = AsRegion(s[k])
          BY <1>3, <4>2
        <5> QED
          BY <1>18, <5>1
      <4> QED
        BY <4>1, <4>2
    <3>2. PICK i \in DOMAIN w : r = AsRegion(w[i])
      BY <1>20, <3>1
    <3> QED
      BY <2>1, <3>2, AsRegionsMember
  <2> QED
    BY <2>2, <2>3
<1> QED
  BY <1>7, <1>12, <1>20, <1>21 DEF R

-----------------------------------------------------------------------------
\* What is taken from the front of a list, and the lists that leaves.
LEMMA EmptyList ==
  /\ IsList(<<>>)
  /\ AsRegions(<<>>) = {}
  /\ \A s \in Seq(Entry) : AsRegions(s) = {} => s = <<>>
<1>1. <<>> \in Seq(Entry) /\ DOMAIN <<>> = {}
  OBVIOUS
<1>2. IsList(<<>>)
  BY <1>1 DEF IsList
<1>3. AsRegions(<<>>) = {}
  BY <1>1, AsRegionsMember
<1>4. ASSUME NEW s \in Seq(Entry), s # <<>> PROVE AsRegions(s) # {}
  <2>1. 1 \in DOMAIN s
    BY <1>4
  <2> QED
    BY <2>1, AsRegionsMember
<1> QED
  BY <1>2, <1>3, <1>4

\* The first entry of a load can be written.
LEMMA HeadFits ==
  ASSUME NEW s, IsList(s), s # <<>>
  PROVE  LET r == Head(s)
         IN  /\ r.data \in Seq(Byte)
             /\ Fits(r.addr, Len(r.data), BytesAt(r.addr, r.addr + Len(r.data), r.data))
             /\ AsRegion(r) \in AsRegions(s)
             /\ AsRegion(r).start = r.addr
             /\ AsRegion(r).end - AsRegion(r).start = Len(r.data)
             /\ AsRegion(r).val = BytesAt(r.addr, r.addr + Len(r.data), r.data)
<1> DEFINE r == Head(s)
<1>1. s \in Seq(Entry)
  BY DEF IsList
<1>2. 1 \in DOMAIN s /\ r = s[1]
  BY <1>1
<1>3. r \in Entry /\ r.data # <<>> /\ End(r) <= AddrSpace
  BY <1>1, <1>2, EntryType DEF IsList
<1>4. r.addr \in Int /\ r.data \in Seq(Byte) /\ Len(r.data) \in Nat /\ End(r) \in Int
  BY <1>1, <1>2, EntryType
<1> HIDE DEF r
<1>5. IsRegion(AsRegion(r)) /\ AsRegion(r) \in AsRegions(s)
  BY <1>1, <1>2, <1>3, EntryRegion, AsRegionsMember
<1>7. /\ AsRegion(r).start = r.addr
      /\ AsRegion(r).end = r.addr + Len(r.data)
      /\ AsRegion(r).val = BytesAt(r.addr, r.addr + Len(r.data), r.data)
  BY AsRegionFields, AsRegionBytes
<1>8. AsRegion(r).end - AsRegion(r).start = Len(r.data)
  BY <1>4, <1>7
<1>9. Fits(AsRegion(r).start, AsRegion(r).end - AsRegion(r).start, AsRegion(r).val)
  BY <1>5, RegionFits
<1> QED
  BY <1>4, <1>5, <1>7, <1>8, <1>9 DEF r

\* A load goes on with a list, of the regions that are left.
LEMMA ListTail ==
  ASSUME NEW s, IsList(s), s # <<>>
  PROVE  /\ IsList(Tail(s))
         /\ AsRegions(Tail(s)) = AsRegions(s) \ {AsRegion(Head(s))}
<1>1. /\ s \in Seq(Entry) /\ Len(s) \in Nat \ {0} /\ DOMAIN s = 1..Len(s)
      /\ Head(s) = s[1]
  BY DEF IsList
<1> DEFINE t == Tail(s)
<1>2. /\ t \in Seq(Entry) /\ DOMAIN t = 1..(Len(s) - 1)
      /\ \A i \in DOMAIN t : i + 1 \in DOMAIN s /\ t[i] = s[i + 1]
  BY <1>1
<1> HIDE DEF t
<1>3. \A i \in 2..Len(s) : i - 1 \in DOMAIN t /\ t[i - 1] = s[i]
  BY <1>1, <1>2
<1>4. IsList(t)
  <2>1. \A i \in DOMAIN t : t[i].data # <<>> /\ End(t[i]) <= AddrSpace
    BY <1>2 DEF IsList
  <2>2. ASSUME NEW i \in DOMAIN t, NEW j \in DOMAIN t, i < j
        PROVE  End(t[i]) < t[j].addr
    <3>1. i + 1 \in DOMAIN s /\ j + 1 \in DOMAIN s /\ i + 1 < j + 1
      BY <1>1, <1>2, <2>2
    <3>2. End(s[i + 1]) < s[j + 1].addr
      BY <3>1 DEF IsList
    <3> QED
      BY <1>2, <3>2
  <2> QED
    BY <1>2, <2>1, <2>2 DEF IsList
<1>5. AsRegions(t) = AsRegions(s) \ {AsRegion(s[1])}
  <2>1. ASSUME NEW r \in AsRegions(t) PROVE r \in AsRegions(s) \ {AsRegion(s[1])}
    <3>1. PICK i \in DOMAIN t : r = AsRegion(t[i])
      BY <1>2, AsRegionsMember
    <3>2. i + 1 \in DOMAIN s /\ 1 \in DOMAIN s /\ i + 1 # 1 /\ r = AsRegion(s[i + 1])
      BY <1>1, <1>2, <3>1
    <3> QED
      BY <1>1, <3>2, AsRegionsMember, ListRegions
  <2>2. ASSUME NEW r \in AsRegions(s), r # AsRegion(s[1]) PROVE r \in AsRegions(t)
    <3>1. PICK i \in DOMAIN s : r = AsRegion(s[i])
      BY <1>1, AsRegionsMember
    <3>2. i \in 2..Len(s)
      BY <1>1, <2>2, <3>1
    <3> QED
      BY <1>2, <1>3, <3>1, <3>2, AsRegionsMember
  <2> QED
    BY <2>1, <2>2
<1> QED
  BY <1>1, <1>4, <1>5 DEF t

\* The records a crash left: the entries up to the k-th, which are the regions
\* that end at or below the end of the k-th.
LEMMA ListPrefix ==
  ASSUME NEW s, IsList(s), NEW k \in 0..Len(s)
  PROVE  /\ IsList(SubSeq(s, 1, k))
         /\ \E c \in 0..AddrSpace :
              /\ \A r \in AsRegions(s) : ~(r.start < c /\ c < r.end)
              /\ AsRegions(SubSeq(s, 1, k)) = {r \in AsRegions(s) : r.end <= c}
<1>1. /\ s \in Seq(Entry) /\ Len(s) \in Nat /\ DOMAIN s = 1..Len(s) /\ k \in Nat
  BY DEF IsList
<1>2. \A i \in DOMAIN s : s[i].addr \in Nat /\ End(s[i]) \in Int /\ s[i].addr < End(s[i])
                          /\ End(s[i]) <= AddrSpace
  BY <1>1, EntryType, EntryRegion DEF IsList, Addr
<1> DEFINE t == SubSeq(s, 1, k)
<1>3. t \in Seq(Entry) /\ DOMAIN t = 1..k /\ \A i \in 1..k : i \in DOMAIN s /\ t[i] = s[i]
  <2>1. \A i \in 1..k : s[i] \in Entry
    BY <1>1, EntryType
  <2>2. /\ t \in Seq(Entry)
        /\ Len(t) = IF 1 <= k THEN k - 1 + 1 ELSE 0
        /\ \A i \in 1..k - 1 + 1 : t[i] = s[1 + i - 1]
    BY <1>1, <2>1, SubSeqProperties
  <2> HIDE DEF t
  <2>3. DOMAIN t = 1..k
    BY <1>1, <2>2
  <2>4. \A i \in 1..k : t[i] = s[i]
    <3> SUFFICES ASSUME NEW i \in 1..k PROVE t[i] = s[i]
      OBVIOUS
    <3>1. i \in 1..k - 1 + 1 /\ 1 + i - 1 = i
      BY <1>1
    <3> QED
      BY <2>2, <3>1
  <2>5. \A i \in 1..k : i \in DOMAIN s
    BY <1>1
  <2> QED
    BY <2>2, <2>3, <2>4, <2>5
<1> HIDE DEF t
<1>4. IsList(t)
  <2>1. \A i \in DOMAIN t : t[i].data # <<>> /\ End(t[i]) <= AddrSpace
    BY <1>3 DEF IsList
  <2>2. \A i, j \in DOMAIN t : i < j => End(t[i]) < t[j].addr
    BY <1>3 DEF IsList
  <2> QED
    BY <1>3, <2>1, <2>2 DEF IsList
<1> DEFINE c == IF k = 0 THEN 0 ELSE End(s[k])
<1>5. c \in 0..AddrSpace
  <2>1. CASE k = 0
    BY <2>1, AddrSpaceAssumption
  <2>2. CASE k # 0
    <3>1. k \in DOMAIN s
      BY <1>1, <2>2
    <3> QED
      BY <1>2, <2>2, <3>1, AddrSpaceAssumption
  <2> QED
    BY <2>1, <2>2
<1>6. ASSUME NEW i \in DOMAIN s
      PROVE  /\ ~(s[i].addr < c /\ c < End(s[i]))
             /\ End(s[i]) <= c <=> i \in 1..k
  <2>1. i \in 1..Len(s) /\ i \in Int
    BY <1>1
  <2>2. CASE k = 0
    BY <1>2, <2>1, <2>2
  <2>3. CASE k # 0
    <3>1. k \in DOMAIN s /\ c = End(s[k])
      BY <1>1, <2>3
    <3> HIDE DEF c
    <3>2. s[i].addr \in Int /\ End(s[i]) \in Int /\ s[i].addr < End(s[i]) /\ c \in Int
      BY <1>2, <3>1
    <3>3. CASE i < k
      <4>1. End(s[i]) < s[k].addr
        BY <3>1, <3>3 DEF IsList
      <4>2. i \in 1..k /\ s[k].addr < c /\ s[k].addr \in Int
        BY <1>1, <1>2, <2>1, <3>1, <3>3
      <4> QED
        BY <3>2, <4>1, <4>2
    <3>4. CASE i = k
      <4>1. i \in 1..k
        BY <1>1, <2>1, <3>4
      <4> QED
        BY <3>1, <3>2, <3>4, <4>1
    <3>5. CASE k < i
      <4>1. c < s[i].addr
        BY <3>1, <3>5 DEF IsList
      <4>2. i \notin 1..k
        BY <1>1, <2>1, <3>5
      <4> QED
        BY <3>2, <4>1, <4>2
    <3> QED
      BY <1>1, <2>1, <3>3, <3>4, <3>5
  <2> QED
    BY <2>2, <2>3
<1> HIDE DEF c
<1>7. \A r \in AsRegions(s) : ~(r.start < c /\ c < r.end)
  <2> SUFFICES ASSUME NEW r \in AsRegions(s) PROVE ~(r.start < c /\ c < r.end)
    OBVIOUS
  <2>1. PICK i \in DOMAIN s : r = AsRegion(s[i])
    BY <1>1, AsRegionsMember
  <2>2. r.start = s[i].addr /\ r.end = End(s[i])
    BY <2>1, AsRegionFields
  <2> QED
    BY <1>6, <2>2
<1>8. AsRegions(t) = {r \in AsRegions(s) : r.end <= c}
  <2>1. ASSUME NEW r \in AsRegions(t) PROVE r \in AsRegions(s) /\ r.end <= c
    <3>1. PICK i \in DOMAIN t : r = AsRegion(t[i])
      BY <1>3, AsRegionsMember
    <3>2. i \in 1..k /\ i \in DOMAIN s /\ r = AsRegion(s[i])
      BY <1>3, <3>1
    <3>3. End(s[i]) <= c
      BY <1>6, <3>2
    <3>4. r.end = End(s[i])
      BY <3>2, AsRegionFields
    <3> QED
      BY <1>1, <3>2, <3>3, <3>4, AsRegionsMember
  <2>2. ASSUME NEW r \in AsRegions(s), r.end <= c PROVE r \in AsRegions(t)
    <3>1. PICK i \in DOMAIN s : r = AsRegion(s[i])
      BY <1>1, AsRegionsMember
    <3>2. r.end = End(s[i])
      BY <3>1, AsRegionFields
    <3>3. i \in 1..k
      BY <1>6, <2>2, <3>2
    <3>4. i \in DOMAIN t /\ r = AsRegion(t[i])
      BY <1>3, <3>1, <3>3
    <3> QED
      BY <1>3, <3>4, AsRegionsMember
  <2> QED
    BY <2>1, <2>2
<1> QED
  BY <1>4, <1>5, <1>7, <1>8 DEF t

-----------------------------------------------------------------------------
\* cache_write of bytes in the address space, as the set of regions sees it.
LEMMA WriteData ==
  ASSUME NEW a \in Addrs, NEW n \in Sizes, NEW data \in [1..n -> Byte]
  PROVE  /\ data \in Seq(Byte) /\ Len(data) = n
         /\ data = <<>> <=> n = 0
         /\ BytesAt(a, a + Len(data), data) \in [a..(a + n - 1) -> Byte]
         /\ ValidAddrSize(a, n) /\ n # 0 => Fits(a, n, BytesAt(a, a + Len(data), data))
<1>1. a \in Int /\ n \in Nat
  BY InputAssumption
<1>2. data \in Seq(Byte) /\ Len(data) = n
  BY <1>1
<1>3. data = <<>> <=> n = 0
  BY <1>1, <1>2
<1>4. BytesAt(a, a + Len(data), data) \in [a..(a + n - 1) -> Byte]
  <2> DEFINE f == a + n
  <2>1. a + n - 1 = f - 1
    BY <1>1
  <2>4. BytesAt(a, a + Len(data), data) = BytesAt(a, f, data)
    <3>1. a + Len(data) = f
      BY <1>2
    <3> HIDE DEF f
    <3> QED
      BY <3>1
  <2>2. ASSUME NEW x \in a..(f - 1) PROVE data[x - a + 1] \in Byte
    <3>1. x - a + 1 \in 1..n
      BY <1>1
    <3> QED
      BY <3>1
  <2> HIDE DEF f
  <2>3. BytesAt(a, f, data) \in [a..(f - 1) -> Byte]
    BY <2>2, BytesAtType
  <2> QED
    BY <2>1, <2>3, <2>4
<1>5. ValidAddrSize(a, n) /\ n # 0 => Fits(a, n, BytesAt(a, a + Len(data), data))
  BY <1>1, <1>4 DEF ValidAddrSize, Fits
<1> QED
  BY <1>2, <1>3, <1>4, <1>5

\* The list, the rest of a running load and the file stay sorted lists.
LEMMA ListInvInit == ListInit => ListInv
<1>1. [header |-> FALSE, recs |-> <<>>, torn |-> FALSE]
        \in [header : BOOLEAN, recs : Seq(Entry), torn : BOOLEAN]
  OBVIOUS
<1> QED
  BY <1>1, EmptyList DEF ListInit, ListInv

\* Every step of the list keeps it sorted.
LEMMA ListInvNext == ListInv /\ [ListNext]_(listVars) => ListInv'
<1> SUFFICES ASSUME ListInv, [ListNext]_(listVars) PROVE ListInv'
  OBVIOUS
<1> USE DEF ListInv
<1>1. ASSUME NEW a \in Addrs, NEW n \in Sizes, ListCacheWriteRefused(a, n) PROVE ListInv'
  BY <1>1 DEF ListCacheWriteRefused
<1>2. ASSUME NEW a \in Addrs, NEW n \in Sizes, NEW data \in [1..n -> Written], ListCacheWrite(a, data)
      PROVE  ListInv'
  <2>0. data \in [1..n -> Byte]
    BY WrittenAssumption
  <2>1. CASE data = <<>>
    BY <1>2, <2>1 DEF ListCacheWrite
  <2>2. CASE data # <<>>
    <3>1. data \in Seq(Byte) /\ Fits(a, Len(data), BytesAt(a, a + Len(data), data))
      <4>1. data \in Seq(Byte) /\ Len(data) = n /\ n # 0
        BY <2>0, <2>2, WriteData
      <4>2. ValidAddrSize(a, n)
        BY <1>2, <4>1 DEF ListCacheWrite
      <4>3. Fits(a, n, BytesAt(a, a + Len(data), data))
        BY <2>0, <4>1, <4>2, WriteData
      <4> QED
        BY <4>1, <4>3
    <3>2. IsList(ListMergeWrite(list, a, data))
      BY <3>1, MergeWriteAgrees
    <3> QED
      BY <1>2, <2>2, <3>2 DEF ListCacheWrite
  <2> QED
    BY <2>1, <2>2
<1>3. CASE ListClear
  BY <1>3, EmptyList DEF ListClear
<1>4. CASE ListSaveToFile
  <2>1. list \in Seq(Entry)
    BY DEF IsList
  <2>2. disk' \in [header : BOOLEAN, recs : Seq(Entry), torn : BOOLEAN] /\ disk'.recs = list
    BY <1>4, <2>1 DEF ListSaveToFile
  <2> QED
    BY <1>4, <2>2 DEF ListSaveToFile
<1>5. ASSUME NEW header \in BOOLEAN, NEW torn \in BOOLEAN, NEW k \in 0..Len(list),
             ListCrashInSave(header, k, torn)
      PROVE  ListInv'
  <2>1. IsList(SubSeq(list, 1, k))
    BY ListPrefix
  <2>2. SubSeq(list, 1, k) \in Seq(Entry)
    BY <2>1 DEF IsList
  <2>3. disk' \in [header : BOOLEAN, recs : Seq(Entry), torn : BOOLEAN]
        /\ disk'.recs = SubSeq(list, 1, k)
    BY <1>5, <2>2 DEF ListCrashInSave
  <2> QED
    BY <1>5, <2>1, <2>3, EmptyList DEF ListCrashInSave
<1>6. CASE ListLoadRefused
  BY <1>6 DEF ListLoadRefused
<1>7. CASE ListLoadReplace
  BY <1>7 DEF ListLoadReplace
<1>8. CASE ListLoadMerge
  BY <1>8 DEF ListLoadMerge
<1>9. CASE ListLoadMergeStep
  <2>1. pending # <<>>
    BY <1>9 DEF ListLoadMergeStep, ListIdle
  <2>2. IsList(ListMergeWrite(list, Head(pending).addr, Head(pending).data))
    BY <2>1, HeadFits, MergeWriteAgrees
  <2>3. IsList(Tail(pending))
    BY <2>1, ListTail
  <2> QED
    BY <1>9, <2>2, <2>3 DEF ListLoadMergeStep
<1>10. CASE UNCHANGED listVars
  BY <1>10 DEF listVars
<1> QED
  BY <1>1, <1>2, <1>3, <1>4, <1>5, <1>6, <1>7, <1>8, <1>9, <1>10 DEF ListNext

\* Class comment of RegioCache: the list is always kept sorted by address, no
\* two regions overlap or are adjacent; the same of what is on disk.
THEOREM ListStaysSorted == ListSpec => []ListInv
<1>1. ListInit => ListInv
  BY ListInvInit
<1>2. ListInv /\ [ListNext]_(listVars) => ListInv'
  BY ListInvNext
<1> QED
  BY <1>1, <1>2, PTL DEF ListSpec

\* cache_read finds by bisection the bytes the set of regions holds, after any
\* writes, loads and crashes.
THEOREM BisectionFindsRegion == ListSpec => []BisectFindsRegion
<1>1. ListInv => BisectFindsRegion
  <2> SUFFICES ASSUME ListInv, NEW a \in Addrs, NEW n \in Sizes \ {0}
               PROVE  LET got  == CacheReadPy(list, a, n)
                          want == Set!CacheRead(AsRegions(list), a, n)
                      IN  IF want = Hole THEN got = Hole
                          ELSE got # Hole /\ \A i \in 1..n : got[i] = want[a + i - 1]
    BY DEF BisectFindsRegion
  <2>1. a \in Int /\ IsList(list)
    BY InputAssumption DEF ListInv
  <2> QED
    BY <2>1, BisectFindsOn
<1> QED
  BY <1>1, ListStaysSorted, PTL

\* "Same lookup as bisect_left" (cache.cpp:59): the C++ cache answers every
\* read as the Python cache does.
THEOREM TwinsAlwaysAgree == ListSpec => []TwinsAgree
<1>1. ListInv => TwinsAgree
  <2> SUFFICES ASSUME ListInv, NEW a \in Addrs, NEW n \in Sizes \ {0}
               PROVE  CacheReadCpp(list, a, n) = CacheReadPy(list, a, n)
    BY DEF TwinsAgree
  <2>1. a \in Int /\ n \in Nat /\ list \in Seq(Entry)
    BY InputAssumption DEF ListInv, IsList
  <2> QED
    BY <2>1, TwinsAgreeOn
<1> QED
  BY <1>1, ListStaysSorted, PTL

-----------------------------------------------------------------------------
\* The set of regions that RegioCacheList names merges as RegioCache does.
LEMMA SameMergeWrite ==
  ASSUME NEW R, NEW a, NEW n, NEW d
  PROVE  Set!MergeWrite(R, a, n, d) = MergeWrite(R, a, n, d)
  BY DEF Set!MergeWrite, Set!Overlapping, Set!Remaining, Set!MergedStart,
         Set!MergedEnd, Set!MergedVal, Set!Holds,
         MergeWrite, Overlapping, Remaining, MergedStart, MergedEnd, MergedVal, Holds

\* The merge loop runs in the one exactly when it runs in the other.
LEMMA SameIdle == ListInv => (ListIdle <=> Set!Idle)
  BY EmptyList DEF ListInv, IsList, ListIdle, Set!Idle

\* The list starts as no regions.
LEMMA ListInitRefines == ListInit => Set!Init
<1> SUFFICES ASSUME ListInit PROVE Set!Init
  OBVIOUS
<1>1. Parses = FALSE
  BY DEF ListInit, Parses
<1>2. AbsFile = [ok |-> FALSE, regions |-> {}]
  BY <1>1 DEF AbsFile
<1> QED
  BY <1>2, EmptyList DEF ListInit, Set!Init

\* What the operations leave alone in the list they leave alone in the set.
LEMMA FileUnchanged == disk' = disk => AbsFile' = AbsFile
  BY DEF AbsFile, Parses, AsRegions, AsRegion, End, Range

\* A list that stays stands for the same regions.
LEMMA ListUnchanged == list' = list => AsRegions(list)' = AsRegions(list)
  BY DEF AsRegions

\* So does the rest of a load.
LEMMA PendingUnchanged == pending' = pending => AsRegions(pending)' = AsRegions(pending)
  BY DEF AsRegions

\* What cache_write records of its arguments.
LEMMA ListWrote ==
  ASSUME NEW a \in Int, NEW data \in Seq(Byte), ListCacheWrite(a, data)
  PROVE  listWrote' = <<a, Len(data), BytesAt(a, a + Len(data), data)>>
<1> DEFINE f == a + Len(data)
           g == a + Len(data) - 1
<1>1. listWrote' = <<a, Len(data), [x \in a..g |-> data[x - a + 1]]>>
  BY DEF ListCacheWrite
<1>2. g = f - 1
  OBVIOUS
<1> HIDE DEF f, g
<1>3. listWrote' = <<a, Len(data), BytesAt(a, f, data)>>
  BY <1>1, <1>2 DEF BytesAt
<1> QED
  BY <1>3 DEF f

\* cache_write puts into the set of regions what it puts into the list.
LEMMA ListWriteRefines ==
  ASSUME ListInv, NEW a \in Addrs, NEW n \in Sizes, NEW data \in [1..n -> Byte],
         ListCacheWrite(a, data)
  PROVE  \E d \in [a..(a + n - 1) -> Byte] : Set!CacheWrite(a, n, d)
<1> DEFINE d == BytesAt(a, a + Len(data), data)
<1>1. /\ data \in Seq(Byte) /\ Len(data) = n
      /\ data = <<>> <=> n = 0
      /\ d \in [a..(a + n - 1) -> Byte]
      /\ ValidAddrSize(a, n) /\ n # 0 => Fits(a, n, d)
  BY WriteData
<1>2. ValidAddrSize(a, n)
  BY <1>1 DEF ListCacheWrite
<1>3. Set!Idle /\ Set!ValidAddrSize(a, n)
  BY <1>2, SameIdle DEF ListCacheWrite, ValidAddrSize, Set!ValidAddrSize
<1>4. listWrote' = <<a, n, d>> /\ listResult' = "ok"
  <2>1. listWrote' = <<a, Len(data), d>>
    BY <1>1, InputAssumption, ListWrote
  <2> HIDE DEF d
  <2> QED
    BY <1>1, <2>1 DEF ListCacheWrite
<1>5. AsRegions(list)' = IF n = 0 THEN AsRegions(list)
                              ELSE Set!MergeWrite(AsRegions(list), a, n, d)
  <2>1. CASE n = 0
    BY <1>1, <2>1, ListUnchanged DEF ListCacheWrite
  <2>2. CASE n # 0
    <3>1. list' = ListMergeWrite(list, a, data)
      BY <1>1, <2>2 DEF ListCacheWrite
    <3>2. IsList(list)
      BY DEF ListInv
    <3>3. Fits(a, Len(data), d)
      <4> HIDE DEF d
      <4> QED
        BY <1>1, <1>2, <2>2
    <3>4. AsRegions(ListMergeWrite(list, a, data))
            = MergeWrite(AsRegions(list), a, Len(data), d)
      BY <1>1, <3>2, <3>3, MergeWriteAgrees
    <3>5. AsRegions(list)' = MergeWrite(AsRegions(list), a, n, d)
      <4> HIDE DEF d
      <4>1. AsRegions(list)' = AsRegions(list')
        BY DEF AsRegions
      <4> QED
        BY <1>1, <3>1, <3>4, <4>1
    <3> HIDE DEF d
    <3> QED
      BY <2>2, <3>5, SameMergeWrite
  <2> QED
    BY <2>1, <2>2
<1>6. AsRegions(pending)' = AsRegions(pending) /\ AbsFile' = AbsFile
  BY PendingUnchanged, FileUnchanged DEF ListCacheWrite
<1> HIDE DEF d
<1>7. Set!CacheWrite(a, n, d)
  BY <1>3, <1>4, <1>5, <1>6 DEF Set!CacheWrite
<1> QED
  BY <1>1, <1>7

\* A record the crash cut off leaves a file that does not parse; a file that
\* parses holds the regions below the end of its last record.
LEMMA ListCrashRefines ==
  ASSUME ListInv, NEW header \in BOOLEAN, NEW torn \in BOOLEAN, NEW k \in 0..Len(list),
         ListCrashInSave(header, k, torn)
  PROVE  \E c \in 0..AddrSpace, cut \in BOOLEAN : Set!CrashInSave(c, cut)
<1>1. /\ Set!Idle
      /\ AsRegions(list)' = {} /\ AsRegions(pending)' = AsRegions(pending)
      /\ listResult' = "ok" /\ listWrote' = <<>>
  <2>1. AsRegions(list)' = AsRegions(list') /\ list' = <<>>
    BY DEF AsRegions, ListCrashInSave
  <2>2. AsRegions(list)' = {}
    BY <2>1, EmptyList
  <2> QED
    BY <2>2, SameIdle, PendingUnchanged DEF ListCrashInSave
<1>2. disk' = [header |-> header, recs |-> SubSeq(list, 1, k), torn |-> torn]
  BY DEF ListCrashInSave
<1>3. AbsFile' = [ok |-> header /\ ~torn,
                       regions |-> IF header /\ ~torn THEN AsRegions(SubSeq(list, 1, k)) ELSE {}]
  <2>1. disk'.header = header /\ disk'.torn = torn /\ disk'.recs = SubSeq(list, 1, k)
    BY <1>2
  <2> QED
    BY <2>1 DEF AbsFile, Parses, AsRegions
<1>4. PICK c \in 0..AddrSpace :
        /\ \A r \in AsRegions(list) : ~(r.start < c /\ c < r.end)
        /\ AsRegions(SubSeq(list, 1, k)) = {r \in AsRegions(list) : r.end <= c}
  BY ListPrefix DEF ListInv
<1> DEFINE cut == ~(header /\ ~torn)
<1>5. cut \in BOOLEAN
  OBVIOUS
<1>6. AbsFile' = [ok |-> ~cut, regions |-> IF cut THEN {} ELSE {r \in AsRegions(list) : r.end <= c}]
  BY <1>3, <1>4
<1> HIDE DEF cut
<1>7. Set!CrashInSave(c, cut)
  BY <1>1, <1>4, <1>6 DEF Set!CrashInSave
<1> QED
  BY <1>4, <1>5, <1>7

\* load_from_file leaves a file that does not parse unread, and reads the
\* records of one that does.
LEMMA ListLoadRefines ==
  ASSUME ListInv
  PROVE  /\ ListLoadRefused => Set!LoadRefused
         /\ ListLoadReplace => Set!LoadReplace
         /\ ListLoadMerge => Set!LoadMerge
<1>1. /\ Parses \in BOOLEAN /\ AbsFile.ok = Parses
      /\ Parses => AbsFile.regions = AsRegions(disk.recs)
  BY DEF AbsFile, Parses
<1>2. ListLoadRefused => Set!LoadRefused
  BY <1>1, SameIdle, ListUnchanged, PendingUnchanged, FileUnchanged
     DEF ListLoadRefused, Set!LoadRefused
<1>3. ASSUME ListLoadReplace PROVE Set!LoadReplace
  <2>1. AsRegions(list)' = AsRegions(disk.recs)
    BY <1>3 DEF ListLoadReplace, AsRegions
  <2> QED
    BY <1>1, <1>3, <2>1, SameIdle, PendingUnchanged, FileUnchanged
       DEF ListLoadReplace, Set!LoadReplace
<1>4. ASSUME ListLoadMerge PROVE Set!LoadMerge
  <2>1. AsRegions(pending)' = AsRegions(disk.recs)
    BY <1>4 DEF ListLoadMerge, AsRegions
  <2> QED
    BY <1>1, <1>4, <2>1, SameIdle, ListUnchanged, FileUnchanged
       DEF ListLoadMerge, Set!LoadMerge
<1> QED
  BY <1>2, <1>3, <1>4

\* One iteration of the merge loop merges and takes off one region.
LEMMA ListMergeStepRefines ==
  ASSUME ListInv, ListLoadMergeStep
  PROVE  \E r \in AsRegions(pending) : Set!LoadMergeStep(r)
<1>1. IsList(list) /\ IsList(pending) /\ pending # <<>>
  BY DEF ListInv, ListLoadMergeStep, ListIdle
<1> DEFINE h == Head(pending)
           f == h.addr + Len(h.data)
           r == AsRegion(h)
<1>2. /\ h.data \in Seq(Byte)
      /\ Fits(h.addr, Len(h.data), BytesAt(h.addr, f, h.data))
      /\ r \in AsRegions(pending)
      /\ r.start = h.addr /\ r.end - r.start = Len(h.data) /\ r.val = BytesAt(h.addr, f, h.data)
  BY <1>1, HeadFits
<1>3. list' = ListMergeWrite(list, h.addr, h.data) /\ pending' = Tail(pending)
  BY DEF ListLoadMergeStep
<1>4. /\ AsRegions(list)' = AsRegions(list')
      /\ AsRegions(pending)' = AsRegions(pending')
  BY DEF AsRegions
<1>5. AsRegions(pending)' = AsRegions(pending) \ {r}
  BY <1>1, <1>3, <1>4, ListTail
<1>6. AsRegions(ListMergeWrite(list, h.addr, h.data))
        = MergeWrite(AsRegions(list), h.addr, Len(h.data), BytesAt(h.addr, f, h.data))
  BY <1>1, <1>2, MergeWriteAgrees
<1> HIDE DEF r, f, h
<1>7. AsRegions(list)' = Set!MergeWrite(AsRegions(list), r.start, r.end - r.start, r.val)
  <2>1. AsRegions(list)' = MergeWrite(AsRegions(list), r.start, r.end - r.start, r.val)
    BY <1>2, <1>3, <1>4, <1>6
  <2> QED
    BY <2>1, SameMergeWrite
<1>8. AbsFile' = AbsFile /\ UNCHANGED <<listResult, listWrote>>
  BY FileUnchanged DEF ListLoadMergeStep
<1>9. Set!LoadMergeStep(r)
  BY <1>5, <1>7, <1>8 DEF Set!LoadMergeStep
<1> QED
  BY <1>2, <1>9

\* Every step of the list is a step of the set of regions.
LEMMA ListNextRefines == ListInv /\ [ListNext]_(listVars) => [Set!Next]_(Set!vars)
<1> SUFFICES ASSUME ListInv, [ListNext]_(listVars) PROVE [Set!Next]_(Set!vars)
  OBVIOUS
<1>1. ASSUME NEW a \in Addrs, NEW n \in Sizes, ListCacheWriteRefused(a, n) PROVE Set!Next
  <2>1. Set!CacheWriteRefused(a, n)
    BY <1>1, SameIdle, ListUnchanged, PendingUnchanged, FileUnchanged
       DEF ListCacheWriteRefused, Set!CacheWriteRefused, ValidAddrSize, Set!ValidAddrSize
  <2> QED
    BY <2>1 DEF Set!Next
<1>2. ASSUME NEW a \in Addrs, NEW n \in Sizes, NEW data \in [1..n -> Written], ListCacheWrite(a, data)
      PROVE  Set!Next
  <2>0. data \in [1..n -> Byte]
    BY WrittenAssumption
  <2>1. \E d \in [a..(a + n - 1) -> Byte] : Set!CacheWrite(a, n, d)
    BY <1>2, <2>0, ListWriteRefines
  <2> QED
    BY <2>1 DEF Set!Next
<1>3. ASSUME ListClear PROVE Set!Next
  <2>1. AsRegions(list)' = {}
    BY <1>3, EmptyList DEF ListClear, AsRegions
  <2>2. Set!Clear
    BY <1>3, <2>1, SameIdle, PendingUnchanged, FileUnchanged DEF ListClear, Set!Clear
  <2> QED
    BY <2>2 DEF Set!Next
<1>4. ASSUME ListSaveToFile PROVE Set!Next
  <2>1. disk' = [header |-> TRUE, recs |-> list, torn |-> FALSE]
    BY <1>4 DEF ListSaveToFile
  <2>2. AbsFile' = [ok |-> TRUE, regions |-> AsRegions(list)]
    BY <2>1 DEF AbsFile, Parses, AsRegions
  <2>3. Set!SaveToFile
    BY <1>4, <2>2, SameIdle, ListUnchanged, PendingUnchanged DEF ListSaveToFile, Set!SaveToFile
  <2> QED
    BY <2>3 DEF Set!Next
<1>5. ASSUME NEW header \in BOOLEAN, NEW torn \in BOOLEAN, NEW k \in 0..Len(list),
             ListCrashInSave(header, k, torn)
      PROVE  Set!Next
  <2>1. \E c \in 0..AddrSpace, cut \in BOOLEAN : Set!CrashInSave(c, cut)
    BY <1>5, ListCrashRefines
  <2> QED
    BY <2>1 DEF Set!Next
<1>6. ASSUME ListLoadRefused \/ ListLoadReplace \/ ListLoadMerge PROVE Set!Next
  BY <1>6, ListLoadRefines DEF Set!Next
<1>7. ASSUME ListLoadMergeStep PROVE Set!Next
  BY <1>7, ListMergeStepRefines DEF Set!Next
<1>8. ASSUME UNCHANGED listVars PROVE UNCHANGED Set!vars
  BY <1>8, ListUnchanged, PendingUnchanged, FileUnchanged DEF listVars, Set!vars
<1> QED
  BY <1>1, <1>2, <1>3, <1>4, <1>5, <1>6, <1>7, <1>8 DEF ListNext

\* Sorting, bisecting and writing the file record by record implement the set
\* of regions: every step of the list is a step of the set, or none.
THEOREM ListImplementsSet == ListSpec => ImplementsRegioCache
<1>1. ListInit => Set!Init
  BY ListInitRefines
<1>2. ListInv /\ [ListNext]_(listVars) => [Set!Next]_(Set!vars)
  BY ListNextRefines
<1> QED
  BY <1>1, <1>2, ListStaysSorted, PTL DEF ListSpec, ImplementsRegioCache, Set!Spec
=============================================================================
