-------------------------- MODULE RocksCacheProofs --------------------------
(***************************************************************************)
(* Proofs about RocksCache, for every value of its constants.              *)
(***************************************************************************)
EXTENDS RocksCache, TLAPS, FiniteSetTheorems, WellFoundedInduction

USE ChaptersAssumption, KeySpaceAssumption, SizeAssumption, BoundsAssumption

-----------------------------------------------------------------------------
(* Lemmas about the operators the model is built from.                     *)

\* Every derived key is a digest the store can hold.
LEMMA CacheKeyType ==
    ASSUME NEW k \in ImageKeys
    PROVE  CacheKeyOf(k) \in KeySpace
BY DEF CacheKeyOf, GetCacheKey

\* An entry's serialized length is a natural number.
LEMMA ValueLenType ==
    ASSUME NEW e \in Entry
    PROVE  ValueLen(e) \in Nat
BY DEF ValueLen, Entry

\* report() measures a finite set of bytes, so its u64 value is in range.
LEMMA SizeOnDiskType == SizeOnDisk \in 0..(Word - 1)
<1>1. IsFiniteSet(CFs)
  <2>1. IsFiniteSet({DefaultCF}) /\ IsFiniteSet({ImageCF})
    BY FS_Singleton
  <2>2. CFs = {DefaultCF} \cup {ImageCF}
    BY DEF CFs
  <2>. QED  BY <2>1, <2>2, FS_Union
<1>2. IsFiniteSet(1..MaxLen) /\ IsFiniteSet(1..MaxSlot)
  BY FS_Interval DEF MaxLen, MaxSlot
<1>3. IsFiniteSet((CFs \X (1..MaxLen)) \X (KeySpace \X (1..MaxSlot)))
  BY <1>1, <1>2, FS_Product
<1>4. DiskBytes \subseteq (CFs \X (1..MaxLen)) \X (KeySpace \X (1..MaxSlot))
  BY DEF DiskBytes
<1>5. Cardinality(DiskBytes) \in Nat
  BY <1>3, <1>4, FS_Subset, FS_CardinalityType
<1>. QED  BY <1>5 DEF SizeOnDisk

-----------------------------------------------------------------------------
(* The inductive invariant.                                                *)

THEOREM InitIInv == Init => IInv
<1> SUFFICES ASSUME Init PROVE IInv
  OBVIOUS
<1>1. ImageKeys # {}
  <2>1. PICK c \in Chapters, i \in Images : TRUE
    OBVIOUS
  <2>2. [chapter |-> c, image |-> i, data_saver |-> TRUE] \in ImageKeys
    BY DEF ImageKeys
  <2>. QED  BY <2>2
<1>2. KeySpace # {}
  BY <1>1, CacheKeyType
<1>3. EmptyFile \in Files
  BY DEF EmptyFile, Files, Slot
<1>. QED
  BY <1>1, <1>2, <1>3
  DEF Init, IInv, TypeOK, SstBound, ShrinkRunning, Slot, MaxLen

\* Each action, starting from a state of IInv, ends in one.
LEMMA RequestIInv ==
    ASSUME IInv, NEW p \in Procs, NEW k \in ImageKeys, Request(p, k)
    PROVE  IInv'
BY DEF IInv, TypeOK, SstBound, ShrinkRunning, Request, shrinkVars

LEMMA RejectIInv ==
    ASSUME IInv, NEW p \in Procs, Reject(p)
    PROVE  IInv'
BY DEF IInv, TypeOK, SstBound, ShrinkRunning, Reject, shrinkVars, Slot

\* A record written into one slot of one CF's memtable keeps mem typed.
LEMMA MemWriteType ==
    ASSUME NEW m \in [CFs -> Files], NEW cf \in CFs, NEW d \in KeySpace,
           NEW s \in Slot
    PROVE  [m EXCEPT ![cf][d] = s] \in [CFs -> Files]
BY DEF Files

LEMMA LoadIInv ==
    ASSUME IInv, NEW p \in Procs, Load(p)
    PROVE  IInv'
<1> DEFINE v == View(ImageCF, CacheKeyOf(req[p]))
<1>1. served' \in [Procs -> Entry \cup {NoRec}]
  <2>1. CASE IsEntry(v) /\ served' = [served EXCEPT ![p] = v]
    BY <2>1 DEF IsEntry, IInv, TypeOK
  <2>2. CASE UNCHANGED served
    BY <2>2 DEF IInv, TypeOK
  <2>. QED  BY <2>1, <2>2 DEF Load
<1>2. pc' \in [Procs -> {"idle", "load", "fetch", "save"}]
  BY DEF Load, IInv, TypeOK
<1>3. UNCHANGED <<mem, ssts, now, req>> /\ UNCHANGED shrinkVars
  BY DEF Load
<1>. QED
  BY <1>1, <1>2, <1>3 DEF IInv, TypeOK, SstBound, ShrinkRunning, shrinkVars

LEMMA FetchIInv ==
    ASSUME IInv, NEW p \in Procs, FetchUpstream(p)
    PROVE  IInv'
BY DEF IInv, TypeOK, SstBound, ShrinkRunning, FetchUpstream, shrinkVars

LEMMA SaveIInv ==
    ASSUME IInv, NEW p \in Procs, Save(p)
    PROVE  IInv'
<1> DEFINE e == NewEntry(req[p], now)
           key == CacheKeyOf(req[p])
<1>1. key \in KeySpace
  BY CacheKeyType DEF IInv, TypeOK
<1>2. e \in Entry
  BY DEF IInv, TypeOK, NewEntry, Entry
<1>3. mem' \in [CFs -> Files] /\ evicted' \subseteq KeySpace
  <2>1. CASE mem' = [mem EXCEPT ![ImageCF][key] = e]
             /\ evicted' = evicted \ {key}
    <3>1. ImageCF \in CFs /\ e \in Slot
      BY <1>2 DEF CFs, Slot
    <3>. QED  BY <2>1, <3>1, <1>1, MemWriteType DEF IInv, TypeOK
  <2>2. CASE UNCHANGED <<mem, evicted>>
    BY <2>2 DEF IInv, TypeOK
  <2>. QED  BY <2>1, <2>2 DEF Save
<1>4. served' \in [Procs -> Entry \cup {NoRec}]
  BY <1>2 DEF Save, IInv, TypeOK
<1>5. pc' \in [Procs -> {"idle", "load", "fetch", "save"}]
  BY DEF Save, IInv, TypeOK
<1>6. UNCHANGED <<ssts, now, req, spc, sz, smin, popped, shrinks>>
  BY DEF Save
<1>. QED
  BY <1>3, <1>4, <1>5, <1>6 DEF IInv, TypeOK, SstBound, ShrinkRunning

LEMMA ShrinkStartIInv ==
    ASSUME IInv, NEW m \in MinSizes, ShrinkStart(m)
    PROVE  IInv'
<1>1. sz' \in 0..(Word - 1)
  BY SizeOnDiskType DEF ShrinkStart, ReportResults
<1>. QED
  BY <1>1 DEF IInv, TypeOK, SstBound, ShrinkRunning, ShrinkStart, reqVars

LEMMA PopFirstIInv ==
    ASSUME IInv, PopFirst
    PROVE  IInv'
<1>1. PICK d \in Live(ImageCF) :
          popped' = [key |-> d, len |-> ValueLen(View(ImageCF, d))]
  BY DEF PopFirst
<1>2. d \in KeySpace /\ View(ImageCF, d) \in Entry
  BY DEF Live, IsEntry
<1>3. popped' \in [key : KeySpace, len : Nat]
  BY <1>1, <1>2, ValueLenType
<1>. QED
  BY <1>3 DEF IInv, TypeOK, SstBound, ShrinkRunning, PopFirst, reqVars

LEMMA PopNoneIInv ==
    ASSUME IInv, PopNone \/ LoopExit
    PROVE  IInv'
BY DEF IInv, TypeOK, SstBound, ShrinkRunning, PopNone, LoopExit, reqVars

LEMMA PopDeleteIInv ==
    ASSUME IInv, PopDelete
    PROVE  IInv'
<1>1. /\ mem' \in [CFs -> Files]
      /\ evicted' \subseteq KeySpace
      /\ sz' \in 0..(Word - 1)
      /\ spc' \in {"idle", "loop", "panicked"}
  <2>1. CASE /\ mem' = [mem EXCEPT ![DefaultCF][popped.key] = Tomb]
             /\ evicted' = evicted \cup {popped.key}
             /\ \/ /\ spc' = "panicked" /\ UNCHANGED sz
                \/ /\ sz' = (sz - popped.len) % Word /\ spc' = "loop"
    <3>1. DefaultCF \in CFs /\ Tomb \in Slot /\ popped.key \in KeySpace
      BY DEF CFs, Slot, IInv, TypeOK
    <3>2. mem' \in [CFs -> Files]
      BY <2>1, <3>1, MemWriteType DEF IInv, TypeOK
    <3>3. (sz - popped.len) % Word \in 0..(Word - 1)
      BY DEF IInv, TypeOK
    <3>. QED  BY <2>1, <3>1, <3>2, <3>3 DEF IInv, TypeOK
  <2>2. CASE spc' = "idle" /\ UNCHANGED <<mem, sz, evicted>>
    BY <2>2 DEF IInv, TypeOK
  <2>. QED  BY <2>1, <2>2 DEF PopDelete
<1>2. UNCHANGED <<ssts, now, smin, popped, shrinks>> /\ UNCHANGED reqVars
  BY DEF PopDelete
<1>3. spc = "delete"
  BY DEF PopDelete
<1>. QED
  BY <1>1, <1>2, <1>3 DEF IInv, TypeOK, SstBound, ShrinkRunning, reqVars

\* Appending one file to one CF's SST list.
LEMMA AppendSstType ==
    ASSUME NEW s \in [CFs -> Seq(Files)], NEW cf \in CFs, NEW f \in Files
    PROVE  /\ [s EXCEPT ![cf] = Append(@, f)] \in [CFs -> Seq(Files)]
           /\ Len([s EXCEPT ![cf] = Append(@, f)][cf]) = Len(s[cf]) + 1
           /\ \A c \in CFs \ {cf} : [s EXCEPT ![cf] = Append(@, f)][c] = s[c]
OBVIOUS

LEMMA ShrinkFlushIInv ==
    ASSUME IInv, ShrinkFlush
    PROVE  IInv'
<1>1. spc = "flush" /\ spc' = "idle" /\ shrinks' = shrinks
  BY DEF ShrinkFlush
<1>2. /\ mem' \in [CFs -> Files]
      /\ ssts' \in [CFs -> Seq(Files)]
      /\ \A cf \in CFs : Len(ssts'[cf]) <= Len(ssts[cf]) + 1
  <2>1. CASE /\ ssts' = [ssts EXCEPT ![DefaultCF] = Append(@, mem[DefaultCF])]
             /\ mem' = [mem EXCEPT ![DefaultCF] = EmptyFile]
    <3>1. DefaultCF \in CFs /\ EmptyFile \in Files /\ mem[DefaultCF] \in Files
      BY DEF CFs, EmptyFile, Files, Slot, IInv, TypeOK
    <3>. QED  BY <2>1, <3>1, AppendSstType DEF IInv, TypeOK
  <2>2. CASE UNCHANGED <<mem, ssts>>
    BY <2>2 DEF IInv, TypeOK
  <2>. QED  BY <2>1, <2>2 DEF ShrinkFlush
<1>3. \A cf \in CFs : Len(ssts'[cf]) <= MaxFiles + shrinks'
  BY <1>1, <1>2 DEF IInv, SstBound, ShrinkRunning, TypeOK
<1>4. \A cf \in CFs : Len(ssts'[cf]) <= MaxLen
  BY <1>1, <1>3 DEF IInv, TypeOK, MaxLen
<1>5. UNCHANGED <<now, sz, smin, popped, shrinks, evicted>> /\ UNCHANGED reqVars
  BY DEF ShrinkFlush
<1>. QED
  BY <1>1, <1>2, <1>3, <1>4, <1>5 DEF IInv, TypeOK, SstBound, ShrinkRunning,
                                      reqVars

LEMMA BackgroundFlushIInv ==
    ASSUME IInv, NEW cf \in CFs, BackgroundFlush(cf)
    PROVE  IInv'
<1>1. /\ ssts' \in [CFs -> Seq(Files)]
      /\ Len(ssts'[cf]) = Len(ssts[cf]) + 1
      /\ \A c \in CFs \ {cf} : ssts'[c] = ssts[c]
  BY AppendSstType DEF BackgroundFlush, IInv, TypeOK
<1>2. mem' \in [CFs -> Files]
  BY DEF BackgroundFlush, IInv, TypeOK, EmptyFile, Files, Slot
<1>3. Len(ssts[cf]) < MaxFiles /\ UNCHANGED shrinkVars
  BY DEF BackgroundFlush
<1>4. \A c \in CFs :
        /\ Len(ssts'[c]) + (IF ShrinkRunning' THEN 1 ELSE 0) <= MaxFiles + shrinks'
        /\ Len(ssts'[c]) <= MaxLen
  <2> SUFFICES ASSUME NEW c \in CFs
               PROVE  /\ Len(ssts'[c]) + (IF ShrinkRunning' THEN 1 ELSE 0)
                            <= MaxFiles + shrinks'
                      /\ Len(ssts'[c]) <= MaxLen
    OBVIOUS
  <2>1. ShrinkRunning' = ShrinkRunning /\ shrinks' = shrinks
    BY <1>3 DEF ShrinkRunning, shrinkVars
  <2>2. ShrinkRunning => shrinks >= 1
    BY DEF IInv, SstBound
  <2>3. CASE c = cf
    BY <1>1, <1>3, <2>1, <2>2, <2>3 DEF IInv, TypeOK, MaxLen
  <2>4. CASE c # cf
    BY <1>1, <2>1, <2>4 DEF IInv, TypeOK, SstBound
  <2>. QED  BY <2>3, <2>4
<1>5. UNCHANGED <<now>> /\ UNCHANGED reqVars
  BY DEF BackgroundFlush
<1>. QED
  BY <1>1, <1>2, <1>3, <1>4, <1>5 DEF IInv, TypeOK, SstBound, ShrinkRunning,
                                      reqVars, shrinkVars

LEMMA CompactIInv ==
    ASSUME IInv, NEW cf \in CFs, Compact(cf)
    PROVE  IInv'
<1>1. Compacted(cf) \in Files
  BY DEF Compacted, Files, Slot, IsEntry
<1>2. /\ ssts' \in [CFs -> Seq(Files)]
      /\ \A c \in CFs : Len(ssts'[c]) <= Len(ssts[c])
  <2>1. Len(ssts[cf]) >= 1
    BY DEF Compact, IInv, TypeOK
  <2>. QED  BY <1>1, <2>1 DEF Compact, IInv, TypeOK
<1>3. UNCHANGED <<mem, now>> /\ UNCHANGED reqVars /\ UNCHANGED shrinkVars
  BY DEF Compact
<1>4. SstBound'
  BY <1>2, <1>3 DEF IInv, TypeOK, SstBound, ShrinkRunning, shrinkVars
<1>5. \A c \in CFs : Len(ssts'[c]) <= MaxLen
  BY <1>2 DEF IInv, TypeOK, MaxLen
<1>6. TypeOK'
  BY <1>2, <1>3, <1>5 DEF IInv, TypeOK, reqVars, shrinkVars
<1>. QED  BY <1>4, <1>6 DEF IInv

LEMMA TickIInv ==
    ASSUME IInv, Tick
    PROVE  IInv'
BY DEF IInv, TypeOK, SstBound, ShrinkRunning, Tick, reqVars, shrinkVars

THEOREM NextIInv == IInv /\ [Next]_vars => IInv'
<1> SUFFICES ASSUME IInv, [Next]_vars PROVE IInv'
  OBVIOUS
<1>1. CASE UNCHANGED vars
  BY <1>1 DEF vars, IInv, TypeOK, SstBound, ShrinkRunning
<1>2. CASE Next
  BY <1>2, RequestIInv, RejectIInv, LoadIInv, FetchIInv, SaveIInv,
     ShrinkStartIInv, PopFirstIInv, PopNoneIInv, PopDeleteIInv,
     ShrinkFlushIInv, BackgroundFlushIInv, CompactIInv, TickIInv
  DEF Next
<1>. QED  BY <1>1, <1>2

\* Type correctness: every reachable state of the cache, its request tasks
\* and its shrink task is well typed, for all values of the constants.
THEOREM TypeCorrect == Spec => []TypeOK
<1>1. IInv => TypeOK
  BY DEF IInv
<1>. QED  BY InitIInv, NextIInv, <1>1, PTL DEF Spec

-----------------------------------------------------------------------------
(* Which slot a read sees.                                                 *)

\* A nonempty set of SST indexes has a largest element (the newest file),
\* by the well-ordering of the naturals.
LEMMA MaxIndex ==
    ASSUME NEW n \in Nat, NEW I \in SUBSET (1..n), I # {}
    PROVE  Max(I) \in I
<1>1. \E x \in I : \A y \in I : x >= y
  <2> DEFINE T == {n - i : i \in I}
  <2>1. T \subseteq Nat
    <3>1. \A i \in I : n - i \in Nat
      OBVIOUS
    <3>. QED  BY <3>1
  <2>2. T # {}
    OBVIOUS
  <2>3. PICK t \in T : \A y \in T : ~(<<y, t>> \in OpToRel(<, Nat))
    BY <2>1, <2>2, WFMin, NatLessThanWellFounded, Zenon
  <2>4. \A y \in T : ~(<<y, t>> \in {ss \in Nat \X Nat : ss[1] < ss[2]})
    BY <2>3, Zenon DEF OpToRel
  <2>5. \A y \in T : ~(y < t)
    BY <2>1, <2>4
  <2>6. PICK x \in I : t = n - x
    BY t \in T, Zenon
  <2>7. \A y \in I : n - y \in T
    BY Zenon
  <2>8. \A y \in I : ~(n - y < n - x)
    BY <2>5, <2>6, <2>7, Zenon
  <2>. QED  BY <2>8
<1>. QED  BY <1>1 DEF Max

\* NewestFile over a CF's SSTs is 0 or the index of the newest SST that
\* holds a slot for d.
LEMMA NewestSst ==
    ASSUME NEW s \in Seq(Files), NEW d \in KeySpace
    PROVE  LET i == NewestFile(s, d)
           IN  i = 0 \/ (i \in 1..Len(s) /\ s[i][d] # NoRec)
<1> DEFINE I == {j \in 1..Len(s) : s[j][d] # NoRec}
<1>1. CASE I = {}
  BY <1>1 DEF NewestFile, SelectLastInSeq
<1>2. CASE I # {}
  <2>1. Len(s) \in Nat /\ I \in SUBSET (1..Len(s))
    OBVIOUS
  <2>2. Max(I) \in I
    BY <1>2, <2>1, MaxIndex
  <2>. QED  BY <1>2, <2>2 DEF NewestFile, SelectLastInSeq
<1>. QED  BY <1>1, <1>2

\* The sentinels RocksDB shows for a missing key or a deleted one are not
\* entries.
LEMMA SentinelsNotEntries == ~IsEntry(NoRec) /\ ~IsEntry(Tomb)
BY DEF IsEntry, Entry, NoRec, Tomb

\* When every stored image is filed under its own cache key, so is the
\* entry load_from_db reads back through get_cf on the images CF.
LEMMA ViewKeyed ==
    ASSUME TypeOK, ImagesKeyed, NEW d \in KeySpace, IsEntry(View(ImageCF, d))
    PROVE  CacheKeyOf(View(ImageCF, d).bytes) = d
<1> DEFINE i == NewestFile(ssts[ImageCF], d)
<1>1. CASE mem[ImageCF][d] # NoRec
  BY <1>1 DEF View, ImagesKeyed
<1>2. CASE mem[ImageCF][d] = NoRec
  <2>1. View(ImageCF, d) = IF i = 0 THEN NoRec ELSE ssts[ImageCF][i][d]
    BY <1>2 DEF View
  <2>2. ssts[ImageCF] \in Seq(Files)
    BY DEF TypeOK, CFs
  <2>3. i = 0 \/ (i \in 1..Len(ssts[ImageCF]) /\ ssts[ImageCF][i][d] # NoRec)
    BY <2>2, NewestSst
  <2>4. i # 0
    BY <2>1, SentinelsNotEntries
  <2>5. i \in 1..Len(ssts[ImageCF]) /\ IsEntry(ssts[ImageCF][i][d])
    BY <2>1, <2>3, <2>4
  <2>. QED  BY <2>1, <2>4, <2>5 DEF ImagesKeyed
<1>. QED  BY <1>1, <1>2

-----------------------------------------------------------------------------
(* Every stored image is filed under its own cache key.                    *)

\* A step that leaves the images CF alone keeps it keyed.
LEMMA KeyedFrame ==
    ASSUME ImagesKeyed, mem'[ImageCF] = mem[ImageCF], ssts'[ImageCF] = ssts[ImageCF]
    PROVE  ImagesKeyed'
BY DEF ImagesKeyed

\* save_to_db puts the image under get_cache_key of its own ImageKey.
LEMMA SaveKeyed ==
    ASSUME IInv, ImagesKeyed, NEW p \in Procs, Save(p)
    PROVE  ImagesKeyed'
<1> DEFINE e == NewEntry(req[p], now)  k == CacheKeyOf(req[p])
<1>1. req[p] \in ImageKeys /\ k \in KeySpace
  BY CacheKeyType DEF IInv, TypeOK
<1>2. CASE mem' = [mem EXCEPT ![ImageCF][k] = e]
  <2>1. mem'[ImageCF] = [mem[ImageCF] EXCEPT ![k] = e]
    BY <1>2 DEF IInv, TypeOK, CFs
  <2>2. CacheKeyOf(e.bytes) = k
    BY DEF NewEntry
  <2>3. ssts' = ssts
    BY DEF Save
  <2>4. mem[ImageCF] \in Files
    BY DEF IInv, TypeOK, CFs
  <2> SUFFICES ASSUME NEW d \in KeySpace
               PROVE  /\ IsEntry(mem'[ImageCF][d])
                            => CacheKeyOf(mem'[ImageCF][d].bytes) = d
                      /\ \A i \in 1..Len(ssts'[ImageCF]) :
                            IsEntry(ssts'[ImageCF][i][d])
                            => CacheKeyOf(ssts'[ImageCF][i][d].bytes) = d
    BY DEF ImagesKeyed
  <2>5. IsEntry(mem'[ImageCF][d]) => CacheKeyOf(mem'[ImageCF][d].bytes) = d
    <3>1. CASE d = k
      BY <1>1, <2>1, <2>2, <2>4, <3>1 DEF Files
    <3>2. CASE d # k
      <4>1. mem'[ImageCF][d] = mem[ImageCF][d]
        BY <1>1, <2>1, <2>4, <3>2 DEF Files
      <4>. QED  BY <4>1 DEF ImagesKeyed
    <3>. QED  BY <3>1, <3>2
  <2>. QED  BY <2>3, <2>5 DEF ImagesKeyed
<1>3. CASE UNCHANGED mem
  BY <1>3, KeyedFrame DEF Save
<1>. QED  BY <1>2, <1>3 DEF Save

\* A background flush of the images CF moves its memtable, keyed, into a
\* new SST; one of the default CF leaves the images CF alone.
LEMMA BackgroundFlushKeyed ==
    ASSUME IInv, ImagesKeyed, NEW cf \in CFs, BackgroundFlush(cf)
    PROVE  ImagesKeyed'
<1>1. CASE cf = ImageCF
  <2> DEFINE s == ssts[ImageCF]  m == mem[ImageCF]
  <2>1. s \in Seq(Files) /\ m \in Files
    BY DEF IInv, TypeOK, CFs
  <2>2. ssts'[ImageCF] = Append(s, m) /\ mem'[ImageCF] = EmptyFile
    BY <1>1 DEF BackgroundFlush, IInv, TypeOK
  <2>3. Len(Append(s, m)) = Len(s) + 1
        /\ \A i \in 1..Len(s) : Append(s, m)[i] = s[i]
        /\ Append(s, m)[Len(s) + 1] = m
    BY <2>1
  <2>4. \A d \in KeySpace : ~IsEntry(EmptyFile[d])
    BY SentinelsNotEntries DEF EmptyFile
  <2> SUFFICES ASSUME NEW d \in KeySpace
               PROVE  /\ IsEntry(mem'[ImageCF][d])
                            => CacheKeyOf(mem'[ImageCF][d].bytes) = d
                      /\ \A i \in 1..Len(ssts'[ImageCF]) :
                            IsEntry(ssts'[ImageCF][i][d])
                            => CacheKeyOf(ssts'[ImageCF][i][d].bytes) = d
    BY DEF ImagesKeyed
  <2>5. \A i \in 1..Len(ssts'[ImageCF]) :
           i \in 1..Len(s) \/ i = Len(s) + 1
    BY <2>1, <2>2, <2>3
  <2>. QED  BY <2>2, <2>3, <2>4, <2>5 DEF ImagesKeyed
<1>2. CASE cf # ImageCF
  BY <1>2, KeyedFrame DEF BackgroundFlush, IInv, TypeOK
<1>. QED  BY <1>1, <1>2

\* Compacting the images CF keeps, for each key, the entry of its newest SST,
\* which is keyed; compacting the default CF leaves the images CF alone.
LEMMA CompactKeyed ==
    ASSUME IInv, ImagesKeyed, NEW cf \in CFs, Compact(cf)
    PROVE  ImagesKeyed'
<1>1. CASE cf = ImageCF
  <2>1. ssts[ImageCF] \in Seq(Files)
    BY DEF IInv, TypeOK, CFs
  <2>2. \A d \in KeySpace :
           IsEntry(Compacted(ImageCF)[d])
           => CacheKeyOf(Compacted(ImageCF)[d].bytes) = d
    <3> SUFFICES ASSUME NEW d \in KeySpace, IsEntry(Compacted(ImageCF)[d])
                 PROVE  CacheKeyOf(Compacted(ImageCF)[d].bytes) = d
      OBVIOUS
    <3> DEFINE i == NewestFile(ssts[ImageCF], d)
    <3>1. Compacted(ImageCF)[d] =
            IF i # 0 /\ IsEntry(ssts[ImageCF][i][d]) THEN ssts[ImageCF][i][d]
            ELSE NoRec
      BY DEF Compacted
    <3>2. i # 0 /\ IsEntry(ssts[ImageCF][i][d])
      BY <3>1, SentinelsNotEntries
    <3>3. i \in 1..Len(ssts[ImageCF])
      BY <2>1, <3>2, NewestSst
    <3>. QED  BY <3>1, <3>2, <3>3 DEF ImagesKeyed
  <2>3. ssts'[ImageCF] = << >> \/ ssts'[ImageCF] = << Compacted(ImageCF) >>
    BY <1>1 DEF Compact, IInv, TypeOK
  <2>4. mem' = mem
    BY DEF Compact
  <2>. QED  BY <2>2, <2>3, <2>4 DEF ImagesKeyed
<1>2. CASE cf # ImageCF
  BY <1>2, KeyedFrame DEF Compact, IInv, TypeOK
<1>. QED  BY <1>1, <1>2

\* pop's delete and shrink's flush only touch the default CF.
LEMMA ShrinkKeyed ==
    ASSUME IInv, ImagesKeyed, PopDelete \/ ShrinkFlush
    PROVE  ImagesKeyed'
<1>1. DefaultCF # ImageCF /\ mem \in [CFs -> Files] /\ ssts \in [CFs -> Seq(Files)]
  BY DEF DefaultCF, ImageCF, IInv, TypeOK
<1>. QED  BY <1>1, KeyedFrame DEF PopDelete, ShrinkFlush, CFs

\* Every step of the system keeps every stored image under its own key.
LEMMA NextKeyed ==
    ASSUME IInv, ImagesKeyed, [Next]_vars
    PROVE  ImagesKeyed'
<1>1. CASE UNCHANGED vars
  BY <1>1, KeyedFrame DEF vars
<1>2. CASE \E p \in Procs : Save(p)
  BY <1>2, SaveKeyed
<1>3. CASE \E cf \in CFs : BackgroundFlush(cf) \/ Compact(cf)
  BY <1>3, BackgroundFlushKeyed, CompactKeyed
<1>4. CASE PopDelete \/ ShrinkFlush
  BY <1>4, ShrinkKeyed
<1>5. CASE \/ \E p \in Procs :
              \/ \E k \in ImageKeys : Request(p, k)
              \/ Reject(p) \/ Load(p) \/ FetchUpstream(p)
           \/ \E m \in MinSizes : ShrinkStart(m)
           \/ PopFirst \/ PopNone \/ LoopExit \/ Tick
  BY <1>5, KeyedFrame
  DEF Request, Reject, Load, FetchUpstream, ShrinkStart, PopFirst, PopNone,
      LoopExit, Tick
<1>. QED  BY <1>1, <1>2, <1>3, <1>4, <1>5 DEF Next

-----------------------------------------------------------------------------
(* A HIT serves the requested image.                                       *)

\* get_cache_key tells ImageKeys apart.  md5 is idealised as injective, so
\* this holds exactly when no two (data_saver, chapter, image) triples
\* concatenate to the same bytes, e.g. when every chapter hash has one
\* length; the key_collision run shows what happens otherwise.
DigestInjective ==
    \A k1, k2 \in ImageKeys : CacheKeyOf(k1) = CacheKeyOf(k2) => k1 = k2

\* The load in the cache handler serves an entry read under the request's
\* cache key, which holds the requested image.
LEMMA LoadServed ==
    ASSUME DigestInjective, IInv, ImagesKeyed, ServedIsRequested,
           NEW p \in Procs, Load(p)
    PROVE  ServedIsRequested'
<1> DEFINE v == View(ImageCF, CacheKeyOf(req[p]))
<1>1. req[p] \in ImageKeys /\ CacheKeyOf(req[p]) \in KeySpace
      /\ served \in [Procs -> Entry \cup {NoRec}] /\ req' = req
  BY CacheKeyType DEF IInv, TypeOK, Load
<1>2. CASE IsEntry(v) /\ served' = [served EXCEPT ![p] = v]
  <2>1. CacheKeyOf(v.bytes) = CacheKeyOf(req[p])
    BY <1>1, <1>2, ViewKeyed DEF IInv
  <2>2. v.bytes \in ImageKeys
    BY <1>2 DEF IsEntry, Entry
  <2>3. v.bytes = req[p]
    BY <1>1, <2>1, <2>2 DEF DigestInjective
  <2>. QED  BY <1>1, <1>2, <2>3 DEF ServedIsRequested
<1>3. CASE UNCHANGED served
  BY <1>1, <1>3 DEF ServedIsRequested
<1>. QED  BY <1>2, <1>3 DEF Load

\* Every step keeps each task's response the image it was asked for.
LEMMA NextServed ==
    ASSUME DigestInjective, IInv, ImagesKeyed, ServedIsRequested, [Next]_vars
    PROVE  ServedIsRequested'
<1>1. served \in [Procs -> Entry \cup {NoRec}] /\ req \in [Procs -> ImageKeys]
  BY DEF IInv, TypeOK
<1>2. CASE UNCHANGED <<served, req>>
  BY <1>2 DEF ServedIsRequested
<1>3. CASE \E p \in Procs, k \in ImageKeys : Request(p, k)
  BY <1>1, <1>3 DEF Request, ServedIsRequested
<1>4. CASE \E p \in Procs : Reject(p)
  BY <1>1, <1>4 DEF Reject, ServedIsRequested
<1>5. CASE \E p \in Procs : Load(p)
  BY <1>5, LoadServed
<1>6. CASE \E p \in Procs : Save(p)
  BY <1>1, <1>6 DEF Save, NewEntry, ServedIsRequested
<1>7. CASE \/ \E p \in Procs : FetchUpstream(p)
           \/ \E m \in MinSizes : ShrinkStart(m)
           \/ PopFirst \/ PopNone \/ LoopExit \/ PopDelete \/ ShrinkFlush
           \/ \E cf \in CFs : BackgroundFlush(cf) \/ Compact(cf)
           \/ Tick
  BY <1>7, <1>2
  DEF FetchUpstream, ShrinkStart, PopFirst, PopNone, LoopExit, PopDelete,
      ShrinkFlush, BackgroundFlush, Compact, Tick, reqVars
<1>8. CASE UNCHANGED vars
  BY <1>8, <1>2 DEF vars
<1>. QED  BY <1>3, <1>4, <1>5, <1>6, <1>7, <1>8 DEF Next

\* A cache HIT answers a request with the image that request asked for, in
\* every reachable state and for every value of the constants, provided
\* get_cache_key tells ImageKeys apart.  The inductive invariant adds to
\* IInv that every stored image sits under its own cache key (ImagesKeyed).
THEOREM ServedCorrect ==
    ASSUME DigestInjective
    PROVE  Spec => []ServedIsRequested
<1> DEFINE SInv == IInv /\ ImagesKeyed /\ ServedIsRequested
<1>1. Init => SInv
  <2> SUFFICES ASSUME Init PROVE SInv
    OBVIOUS
  <2>1. ImagesKeyed
    BY SentinelsNotEntries DEF Init, ImagesKeyed, EmptyFile, CFs
  <2>2. ServedIsRequested
    BY DEF Init, ServedIsRequested
  <2>. QED  BY <2>1, <2>2, InitIInv
<1>2. SInv /\ [Next]_vars => SInv'
  BY NextIInv, NextKeyed, NextServed
<1>3. SInv => ServedIsRequested
  OBVIOUS
<1>. QED  BY <1>1, <1>2, <1>3, PTL DEF Spec

=============================================================================
