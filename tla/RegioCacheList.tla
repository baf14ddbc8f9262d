--------------------------- MODULE RegioCacheList ---------------------------
(***************************************************************************)
(* RegioCache as the code keeps it: a list of (address, bytearray) pairs   *)
(* that is sorted after every merge and searched by bisection, and a file  *)
(* written header by header and region by region.  Two bodies of code      *)
(* share it: cache.py and its C++ twin cache.cpp.                          *)
(***************************************************************************)
EXTENDS RegioCacheSpace, Sequences, FiniteSetsExt, Functions

CONSTANT Written   \* the byte values that are written

ASSUME WrittenAssumption == Written \subseteq Byte

VARIABLES
  list,        \* self._regions: a sequence of [addr, data]
  pending,     \* what the merge loop of load_from_file still has to merge
  disk,        \* [header, recs, torn]: header written, complete records, a torn tail
  listResult,  \* "ok" or "error"
  listWrote    \* the write that has just returned, as RegioCache records it

listVars == <<list, pending, disk, listResult, listWrote>>

End(r) == r.addr + Len(r.data)

\* Mutant: the merged region stays at the end of the list.
SortByAddr_NoSort(s) == s

\* std::sort by start address: the order of the addresses is ascending.
SortByAddr(s) ==
  LET p == CHOOSE p \in Bijection(DOMAIN s, DOMAIN s) :
             \A i, j \in DOMAIN s : i < j => s[p[i]].addr <= s[p[j]].addr
  IN  [i \in DOMAIN s |-> s[p[i]]]

\* The entries of s at the indices in K, in the order of the list.
Select(s, K) ==
  LET f == CHOOSE f \in Bijection(1 .. Cardinality(K), K) :
             \A i, j \in DOMAIN f : i < j => f[i] < f[j]
  IN  [i \in DOMAIN f |-> s[f[i]]]

\* Mutant: the slice stops one byte early.
Store_OneShort(buf, off, data) ==
  [i \in DOMAIN buf |-> IF off < i /\ i < off + Len(data) THEN data[i - off] ELSE buf[i]]

\* buf with data stored from offset off on (slice assignment, std::copy).
Store(buf, off, data) ==
  [i \in DOMAIN buf |-> IF off < i /\ i <= off + Len(data) THEN data[i - off] ELSE buf[i]]

\* A zeroed buffer of the bytes start .. end-1 with the entries at the indices
\* in K laid down one after the other: the last one that covers a byte wins.
LayDown(s, K, start, end) ==
  [i \in 1 .. (end - start) |->
     LET over == {k \in K : s[k].addr < start + i /\ start + i <= End(s[k])}
         last == CHOOSE k \in over : \A j \in over : j <= k
     IN  IF over = {} THEN Zero ELSE s[last].data[start + i - s[last].addr]]

\* bisect_left and lower_bound over the start addresses.  What a bisection
\* knows of the index it returns, on a list that is not sorted either: the
\* entry before it starts below a, the entry at it does not.
BisectLeft(s, a) ==
  CHOOSE i \in 0 .. Len(s) :
    /\ i = 0 \/ s[i].addr < a
    /\ i = Len(s) \/ s[i + 1].addr >= a

\* The bytes [a, a+n) of region r, or Hole for the ValueError.
Slice(r, a, n) ==
  IF a + n > End(r) \/ a < r.addr THEN Hole ELSE SubSeq(r.data, a - r.addr + 1, a - r.addr + n)

\* cache_read(a, n) of cache.py, n > 0; list indices count from 0.
CacheReadPy(s, a, n) ==
  LET found == BisectLeft(s, a)
      idx   == IF found = Len(s) \/ s[found + 1].addr # a THEN found - 1 ELSE found
  IN  IF ~ValidAddrSize(a, n) \/ idx < 0 THEN Hole ELSE Slice(s[idx + 1], a, n)

\* Mutant: the iterator steps back only at the end of the list.
CacheReadCpp_EndOnly(s, a, n) ==
  LET found == BisectLeft(s, a)
      idx   == IF found = Len(s) THEN found - 1 ELSE found
  IN  IF ~ValidAddrSize(a, n) \/ s = <<>> THEN Hole ELSE Slice(s[idx + 1], a, n)

\* cache_read of cache.cpp: the iterator never steps before the first region.
CacheReadCpp(s, a, n) ==
  LET found == BisectLeft(s, a)
      back  == found = Len(s) \/ (found # 0 /\ s[found + 1].addr # a)
      idx   == IF back THEN found - 1 ELSE found
  IN  IF ~ValidAddrSize(a, n) \/ s = <<>> THEN Hole ELSE Slice(s[idx + 1], a, n)

\* _merge_write: split the list, lay the old data down, then the new, sort.
ListMergeWrite(s, a, data) ==
  LET new_end     == a + Len(data)
      remaining   == {i \in DOMAIN s : End(s[i]) < a \/ s[i].addr > new_end}
      overlapping == DOMAIN s \ remaining
      start       == Min({a} \cup {s[i].addr : i \in overlapping})
      end         == Max({new_end} \cup {End(s[i]) : i \in overlapping})
      old         == LayDown(s, overlapping, start, end)
  IN  SortByAddr(Append(Select(s, remaining), [addr |-> start, data |-> Store(old, a - start, data)]))

-----------------------------------------------------------------------------
ListInit ==
  /\ list = <<>>
  /\ pending = <<>>
  /\ disk = [header |-> FALSE, recs |-> <<>>, torn |-> FALSE]
  /\ listResult = "ok"
  /\ listWrote = <<>>

ListIdle == pending = <<>>

Parses == disk.header /\ ~disk.torn

ListCacheWriteRefused(a, n) ==
  /\ ListIdle
  /\ ~ValidAddrSize(a, n)
  /\ listResult' = "error"
  /\ listWrote' = <<>>
  /\ UNCHANGED <<list, pending, disk>>

ListCacheWrite(a, data) ==
  /\ ListIdle
  /\ ValidAddrSize(a, Len(data))
  /\ list' = IF data = <<>> THEN list ELSE ListMergeWrite(list, a, data)
  /\ listResult' = "ok"
  /\ listWrote' = <<a, Len(data), [x \in a .. (a + Len(data) - 1) |-> data[x - a + 1]]>>
  /\ UNCHANGED <<pending, disk>>

ListClear ==
  /\ ListIdle
  /\ list' = <<>>
  /\ listResult' = "ok"
  /\ listWrote' = <<>>
  /\ UNCHANGED <<pending, disk>>

ListSaveToFile ==
  /\ ListIdle
  /\ disk' = [header |-> TRUE, recs |-> list, torn |-> FALSE]
  /\ listResult' = "ok"
  /\ listWrote' = <<>>
  /\ UNCHANGED <<list, pending>>

\* The process dies in save_to_file with k regions on disk: the file header
\* may be missing, and the next record may be there in part.
ListCrashInSave(header, k, torn) ==
  /\ ListIdle
  /\ header \/ (k = 0 /\ ~torn)
  /\ torn => k < Len(list)
  /\ disk' = [header |-> header, recs |-> SubSeq(list, 1, k), torn |-> torn]
  /\ list' = <<>>
  /\ listResult' = "ok"
  /\ listWrote' = <<>>
  /\ UNCHANGED pending

ListLoadRefused ==
  /\ ListIdle
  /\ ~Parses
  /\ listResult' = "error"
  /\ listWrote' = <<>>
  /\ UNCHANGED <<list, pending, disk>>

ListLoadReplace ==
  /\ ListIdle
  /\ Parses
  /\ list' = disk.recs
  /\ listResult' = "ok"
  /\ listWrote' = <<>>
  /\ UNCHANGED <<pending, disk>>

ListLoadMerge ==
  /\ ListIdle
  /\ Parses
  /\ pending' = disk.recs
  /\ listResult' = "ok"
  /\ listWrote' = <<>>
  /\ UNCHANGED <<list, disk>>

\* One iteration of the merge loop, in the order of the file.
ListLoadMergeStep ==
  /\ ~ListIdle
  /\ list' = ListMergeWrite(list, Head(pending).addr, Head(pending).data)
  /\ pending' = Tail(pending)
  /\ UNCHANGED <<disk, listResult, listWrote>>

ListNext ==
  \/ \E a \in Addrs, n \in Sizes : ListCacheWriteRefused(a, n)
  \/ \E a \in Addrs, n \in Sizes : \E data \in [1 .. n -> Written] : ListCacheWrite(a, data)
  \/ ListClear
  \/ ListSaveToFile
  \/ \E header, torn \in BOOLEAN, k \in 0 .. Len(list) : ListCrashInSave(header, k, torn)
  \/ ListLoadRefused
  \/ ListLoadReplace
  \/ ListLoadMerge
  \/ ListLoadMergeStep

ListSpec == ListInit /\ [][ListNext]_listVars

-----------------------------------------------------------------------------
\* A list entry as a region of RegioCache.
AsRegion(r) == [start |-> r.addr, end |-> End(r),
                val |-> [x \in r.addr .. (End(r) - 1) |-> r.data[x - r.addr + 1]]]

AsRegions(s) == {AsRegion(r) : r \in Range(s)}

AbsFile == [ok |-> Parses, regions |-> IF Parses THEN AsRegions(disk.recs) ELSE {}]

\* The set of regions that the list stands for.
Set == INSTANCE RegioCache WITH
         regions <- AsRegions(list), loading <- AsRegions(pending), file <- AbsFile,
         result <- listResult, wrote <- listWrote

\* The pairs of the list.
Entry == [addr : Addr, data : Seq(Byte)]

\* Class comment of RegioCache: always kept sorted by address, where no two
\* regions overlap or are adjacent; each holds a byte and ends in the space.
IsList(s) ==
  /\ s \in Seq(Entry)
  /\ \A i \in DOMAIN s : s[i].data # <<>> /\ End(s[i]) <= AddrSpace
  /\ \A i, j \in DOMAIN s : i < j => End(s[i]) < s[j].addr

\* What every operation preserves: the list, what the merge loop still has to
\* merge and what is on disk are all such lists.  load_from_file installs the
\* records of the file unchecked, so a search is right only if they are.
ListInv ==
  /\ IsList(list)
  /\ IsList(pending)
  /\ IsList(disk.recs)
  /\ disk \in [header : BOOLEAN, recs : Seq(Entry), torn : BOOLEAN]

\* cache_read finds by bisection what the set of regions holds: no read of
\* cached bytes fails because the search lands on the wrong region.
BisectFindsRegion ==
  \A a \in Addrs, n \in Sizes \ {0} :
    LET got  == CacheReadPy(list, a, n)
        want == Set!CacheRead(AsRegions(list), a, n)
    IN  IF want = Hole THEN got = Hole
        ELSE got # Hole /\ \A i \in 1 .. n : got[i] = want[a + i - 1]

\* "Same lookup as bisect_left ... in python" (cache.cpp:59): the twins agree
\* on every read although they step back under different conditions.
TwinsAgree ==
  \A a \in Addrs, n \in Sizes \ {0} : CacheReadCpp(list, a, n) = CacheReadPy(list, a, n)

\* Every step of the list is a step of the set of regions.
ImplementsRegioCache == Set!Spec
=============================================================================
