----------------------------- MODULE RegioCache -----------------------------
(***************************************************************************)
(* RegioCache of pip/regio/src/regio/cache.py and of sw/lib/cpp/regio: a   *)
(* sparse memory kept as a set of separated regions, merged on every       *)
(* write, saved to and loaded from a file.  The order of the region list   *)
(* is left to RegioCacheList, which implements this specification.         *)
(***************************************************************************)
EXTENDS RegioCacheSpace

\* A region: the addresses start .. end-1 and the byte at each of them.
IsRegion(r) ==
  /\ r = [start |-> r.start, end |-> r.end, val |-> r.val]
  /\ r.start \in Addr
  /\ r.end \in (r.start + 1) .. AddrSpace
  /\ r.val \in [r.start .. (r.end - 1) -> Byte]

VARIABLES
  regions,  \* self._regions
  loading,  \* regions of the file that load_from_file still has to merge
  file,     \* [ok, regions]: the file on disk; ~ok when it does not parse
  result,   \* how the last operation ended: "ok" or "error" (ValueError)
  wrote     \* the arguments of the write that has just returned, or <<>>

vars == <<regions, loading, file, result, wrote>>

Holds(r, x) == r.start <= x /\ x < r.end

\* Two regions neither overlap nor touch.
Apart(r, s) == r.end < s.start \/ s.end < r.start

AreRegions(R) == \A r \in R : IsRegion(r)

AllApart(R) == \A r, s \in R : r = s \/ Apart(r, s)

-----------------------------------------------------------------------------
\* Mutant: touching regions are not merged.
Overlapping_TouchingLeft(R, a, n) == {r \in R : ~(r.end <= a \/ r.start >= a + n)}

\* The regions _merge_write folds into the new one.
Overlapping(R, a, n) == {r \in R : ~(r.end < a \/ r.start > a + n)}

\* The regions it leaves alone.
Remaining(R, a, n) == R \ Overlapping(R, a, n)

\* Mutant: the old data is laid over the new.
MergedVal_OldWins(O, lo, hi, a, n, d) ==
  [x \in lo .. (hi - 1) |->
     IF \E r \in O : Holds(r, x) THEN (CHOOSE r \in O : Holds(r, x)).val[x]
     ELSE IF a <= x /\ x < a + n THEN d[x] ELSE Zero]

\* merged_buf: zeros, the old data over them, the new data over that.
MergedVal(O, lo, hi, a, n, d) ==
  [x \in lo .. (hi - 1) |->
     IF a <= x /\ x < a + n THEN d[x]
     ELSE IF \E r \in O : Holds(r, x)
          THEN (CHOOSE r \in O : Holds(r, x)).val[x]
          ELSE Zero]

MergedStart(O, a) == CHOOSE lo \in {a} \cup {r.start : r \in O} :
                       lo <= a /\ \A r \in O : lo <= r.start

MergedEnd(O, e) == CHOOSE hi \in {e} \cup {r.end : r \in O} :
                     hi >= e /\ \A r \in O : hi >= r.end

\* _merge_write
MergeWrite(R, a, n, d) ==
  LET O  == Overlapping(R, a, n)
      lo == MergedStart(O, a)
      hi == MergedEnd(O, a + n)
  IN  Remaining(R, a, n) \cup
      {[start |-> lo, end |-> hi, val |-> MergedVal(O, lo, hi, a, n, d)]}

\* The answer to cache_read(a, n), n > 0: the bytes, or Hole for ValueError.
\* Some region holds the whole range, or the read fails.
CacheRead(R, a, n) ==
  IF ValidAddrSize(a, n) /\ \E r \in R : r.start <= a /\ a + n <= r.end
  THEN LET r == CHOOSE r \in R : r.start <= a /\ a + n <= r.end
       IN  [x \in a .. (a + n - 1) |-> r.val[x]]
  ELSE Hole

-----------------------------------------------------------------------------
Init ==
  /\ regions = {}
  /\ loading = {}
  /\ file = [ok |-> FALSE, regions |-> {}]
  /\ result = "ok"
  /\ wrote = <<>>

\* load_from_file runs without a suspension point: while it merges, nothing
\* else touches the cache.
Idle == loading = {}

\* cache_write with a refused address or size.
CacheWriteRefused(a, n) ==
  /\ Idle
  /\ ~ValidAddrSize(a, n)
  /\ result' = "error"
  /\ wrote' = <<>>
  /\ UNCHANGED <<regions, loading, file>>

\* cache_write of d at a; an empty write returns early.
CacheWrite(a, n, d) ==
  /\ Idle
  /\ ValidAddrSize(a, n)
  /\ regions' = IF n = 0 THEN regions ELSE MergeWrite(regions, a, n, d)
  /\ result' = "ok"
  /\ wrote' = <<a, n, d>>
  /\ UNCHANGED <<loading, file>>

Clear ==
  /\ Idle
  /\ regions' = {}
  /\ result' = "ok"
  /\ wrote' = <<>>
  /\ UNCHANGED <<loading, file>>

SaveToFile ==
  /\ Idle
  /\ file' = [ok |-> TRUE, regions |-> regions]
  /\ result' = "ok"
  /\ wrote' = <<>>
  /\ UNCHANGED <<regions, loading>>

\* The process dies inside save_to_file, after the file was truncated: the
\* file ends inside a header or a region (~ok), or holds the regions below c.
\* The restarted process has an empty cache.
CrashInSave(c, torn) ==
  /\ Idle
  /\ \A r \in regions : ~(r.start < c /\ c < r.end)
  /\ file' = [ok |-> ~torn, regions |-> IF torn THEN {} ELSE {r \in regions : r.end <= c}]
  /\ regions' = {}
  /\ result' = "ok"
  /\ wrote' = <<>>
  /\ UNCHANGED loading

\* load_from_file of a file that does not parse: nothing is changed.
LoadRefused ==
  /\ Idle
  /\ ~file.ok
  /\ result' = "error"
  /\ wrote' = <<>>
  /\ UNCHANGED <<regions, loading, file>>

\* load_from_file(replace=True): the parsed regions are installed as they are.
LoadReplace ==
  /\ Idle
  /\ file.ok
  /\ regions' = file.regions
  /\ result' = "ok"
  /\ wrote' = <<>>
  /\ UNCHANGED <<loading, file>>

\* load_from_file(replace=False), up to the merge loop.
LoadMerge ==
  /\ Idle
  /\ file.ok
  /\ loading' = file.regions
  /\ result' = "ok"
  /\ wrote' = <<>>
  /\ UNCHANGED <<regions, file>>

\* One iteration of the merge loop.
LoadMergeStep(r) ==
  /\ regions' = MergeWrite(regions, r.start, r.end - r.start, r.val)
  /\ loading' = loading \ {r}
  /\ UNCHANGED <<file, result, wrote>>

Next ==
  \/ \E a \in Addrs, n \in Sizes : CacheWriteRefused(a, n)
  \/ \E a \in Addrs, n \in Sizes : \E d \in [a .. (a + n - 1) -> Byte] : CacheWrite(a, n, d)
  \/ Clear
  \/ SaveToFile
  \/ \E c \in 0 .. AddrSpace, torn \in BOOLEAN : CrashInSave(c, torn)
  \/ LoadRefused
  \/ LoadReplace
  \/ LoadMerge
  \/ \E r \in loading : LoadMergeStep(r)

Spec == Init /\ [][Next]_vars

-----------------------------------------------------------------------------
\* The memory a set of regions stands for.
MemOf(R) == [x \in Addr |-> IF \E r \in R : Holds(r, x)
                            THEN (CHOOSE r \in R : Holds(r, x)).val[x]
                            ELSE Hole]

\* The memory callers see once a running load has finished.
AbsMem == [x \in Addr |-> IF \E r \in loading : Holds(r, x)
                          THEN MemOf(loading)[x] ELSE MemOf(regions)[x]]

AbsImg == IF file.ok THEN MemOf(file.regions) ELSE Bad

Abs == INSTANCE RegioMem WITH mem <- AbsMem, img <- AbsImg

-----------------------------------------------------------------------------
\* The values the variables of the cache take.
TypeOK ==
  /\ AreRegions(regions)
  /\ AreRegions(loading)
  /\ AreRegions(file.regions)
  /\ file = [ok |-> file.ok, regions |-> file.regions]
  /\ file.ok \in BOOLEAN
  /\ result \in {"ok", "error"}

\* Class comment of RegioCache: no two regions overlap or are adjacent, after
\* any sequence of writes, loads and crashes, and in the middle of a load.
Separated == AllApart(regions)

\* The same of what is on disk: load_from_file(replace=True) installs the
\* regions of the file unchecked, so the file must be as well formed.
FileSeparated == AllApart(file.regions)

\* What the merge loop still has to merge came from the file.  Together with
\* the three above this is inductive.
IInv == TypeOK /\ Separated /\ FileSeparated /\ loading \subseteq file.regions

\* The comment in cache_read: a gap is a hole, so the read must fit in a
\* single region.  Looking in one region finds every range whose bytes were
\* all written, and returns exactly those bytes.
ReadIsExact ==
  \A a \in Addr, n \in Sizes \ {0} :
    CacheRead(regions, a, n) =
      IF a + n <= AddrSpace /\ \A x \in a .. (a + n - 1) : MemOf(regions)[x] # Hole
      THEN [x \in a .. (a + n - 1) |-> MemOf(regions)[x]]
      ELSE Hole

\* The cache is a sparse memory: every operation, the merge loop of a load
\* included, acts on the abstract memory and image of RegioMem.
ImplementsRegioMem == Abs!Spec
=============================================================================
