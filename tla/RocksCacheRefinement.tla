------------------------ MODULE RocksCacheRefinement ------------------------
(***************************************************************************)
(* Proof that the RocksDB cache implements the ImageCache contract: under  *)
(* the refinement mapping AbsStore, every step of RocksCache is a step of  *)
(* ImageCacheContract or leaves the contract's variables unchanged.        *)
(***************************************************************************)
EXTENDS RocksCacheProofs

-----------------------------------------------------------------------------
(* Which SST a read of the images CF sees.                                 *)

\* NewestFile(s, d), with SelectLastInSeq and its LAMBDA unfolded: the
\* newest SST of s that holds a slot for d, or 0.
Newest(s, d) ==
    LET I == {j \in 1..Len(s) : s[j][d] # NoRec}
    IN  IF I # {} THEN Max(I) ELSE 0

\* What get_cf shows for d, given a memtable m and SSTs s.
ViewIn(m, s, d) ==
    IF m[d] # NoRec THEN m[d]
    ELSE IF Newest(s, d) = 0 THEN NoRec ELSE s[Newest(s, d)][d]

\* What the ImageCache trait sees under the derived key d: an entry or None.
Shown(d) == IF IsEntry(View(ImageCF, d)) THEN View(ImageCF, d) ELSE NoRec

\* The chosen maximum of a set of naturals is its largest element.
LEMMA MaxIs ==
    ASSUME NEW I \in SUBSET Nat, NEW x \in I, \A y \in I : x >= y
    PROVE  Max(I) = x
<1>1. \E z \in I : \A y \in I : z >= y
  OBVIOUS
<1>2. Max(I) \in I /\ \A y \in I : Max(I) >= y
  BY <1>1, Zenon DEF Max
<1>3. Max(I) \in Nat /\ x \in Nat /\ Max(I) >= x /\ x >= Max(I)
  BY <1>2
<1>. QED  BY <1>3

LEMMA NewestIsSelectLast ==
    ASSUME NEW s, NEW d
    PROVE  NewestFile(s, d) = Newest(s, d)
BY Zenon DEF NewestFile, SelectLastInSeq, Newest

\* The newest SST holding d is 0 or an index of s that holds d.
LEMMA NewestRange ==
    ASSUME NEW s \in Seq(Files), NEW d \in KeySpace
    PROVE  Newest(s, d) = 0 \/ (Newest(s, d) \in 1..Len(s) /\ s[Newest(s, d)][d] # NoRec)
<1>1. NewestFile(s, d) = Newest(s, d)
  BY NewestIsSelectLast
<1>. QED  BY <1>1, NewestSst

\* A flush appends the memtable as the newest SST: it is the newest holder
\* of every key it holds, and for the others nothing changes.
LEMMA NewestAppend ==
    ASSUME NEW s \in Seq(Files), NEW m \in Files, NEW d \in KeySpace
    PROVE  /\ m[d] # NoRec => Newest(Append(s, m), d) = Len(s) + 1
           /\ m[d] = NoRec => Newest(Append(s, m), d) = Newest(s, d)
<1> DEFINE t == Append(s, m)
           J == {j \in 1..Len(t) : t[j][d] # NoRec}
           I == {j \in 1..Len(s) : s[j][d] # NoRec}
<1>1. Len(t) = Len(s) + 1 /\ t[Len(s) + 1] = m
      /\ \A j \in 1..Len(s) : t[j] = s[j]
  OBVIOUS
<1>2. ASSUME m[d] # NoRec PROVE Newest(t, d) = Len(s) + 1
  <2>1. Len(s) + 1 \in J /\ J \subseteq Nat /\ \A y \in J : Len(s) + 1 >= y
    BY <1>1, <1>2
  <2>2. Max(J) = Len(s) + 1
    BY <2>1, MaxIs
  <2>. QED  BY <2>1, <2>2 DEF Newest
<1>3. ASSUME m[d] = NoRec PROVE Newest(t, d) = Newest(s, d)
  <2>1. J = I
    BY <1>1, <1>3
  <2>. QED  BY <2>1 DEF Newest
<1>. QED  BY <1>2, <1>3

\* After a compaction a CF has no SST or a single one.
LEMMA NewestShort ==
    ASSUME NEW f \in Files, NEW d \in KeySpace
    PROVE  /\ Newest(<< >>, d) = 0
           /\ Newest(<< f >>, d) = IF f[d] # NoRec THEN 1 ELSE 0
<1>1. Newest(<< >>, d) = 0
  BY DEF Newest
<1>2. CASE f[d] # NoRec
  <2>1. {j \in 1..Len(<< f >>) : << f >>[j][d] # NoRec} = {1}
    BY <1>2
  <2>2. Max({1}) = 1
    BY MaxIs
  <2>. QED  BY <1>2, <2>1, <2>2 DEF Newest
<1>3. CASE f[d] = NoRec
  <2>1. {j \in 1..Len(<< f >>) : << f >>[j][d] # NoRec} = {}
    BY <1>3
  <2>. QED  BY <1>3, <2>1 DEF Newest
<1>. QED  BY <1>1, <1>2, <1>3

\* A read of a CF, in the current and in the next state, in terms of Newest.
LEMMA ViewIsViewIn ==
    ASSUME NEW cf, NEW d
    PROVE  /\ View(cf, d) = ViewIn(mem[cf], ssts[cf], d)
           /\ View(cf, d)' = ViewIn(mem'[cf], ssts'[cf], d)
<1>1. NewestFile(ssts[cf], d) = Newest(ssts[cf], d)
  BY NewestIsSelectLast
<1>2. NewestFile(ssts'[cf], d) = Newest(ssts'[cf], d)
  BY NewestIsSelectLast
<1>3. View(cf, d) = ViewIn(mem[cf], ssts[cf], d)
  BY <1>1 DEF View, ViewIn
<1>4. View(cf, d)' = ViewIn(mem'[cf], ssts'[cf], d)
  BY <1>2 DEF View, ViewIn
<1>. QED  BY <1>3, <1>4

-----------------------------------------------------------------------------
(* Steps that do not change what the trait sees.                           *)

\* A step that leaves the images CF alone leaves the abstract store alone.
LEMMA ImagesFrameAbs ==
    ASSUME mem'[ImageCF] = mem[ImageCF], ssts'[ImageCF] = ssts[ImageCF]
    PROVE  AbsStore' = AbsStore
<1>1. \A d \in KeySpace : View(ImageCF, d)' = View(ImageCF, d)
  BY ViewIsViewIn
<1>. QED  BY <1>1, CacheKeyType DEF AbsStore

\* The abstract store is determined by what each derived key shows.
LEMMA ShownFrameAbs ==
    ASSUME \A d \in KeySpace : Shown(d)' = Shown(d)
    PROVE  AbsStore' = AbsStore
BY CacheKeyType DEF AbsStore, Shown

\* A background flush of the images CF moves its memtable into a new newest
\* SST: every read of that CF returns what it returned before.
LEMMA FlushKeepsView ==
    ASSUME IInv, BackgroundFlush(ImageCF), NEW d \in KeySpace
    PROVE  View(ImageCF, d)' = View(ImageCF, d)
<1> DEFINE m == mem[ImageCF]  s == ssts[ImageCF]
<1>1. m \in Files /\ s \in Seq(Files)
  BY DEF IInv, TypeOK, CFs
<1>2. mem'[ImageCF] = EmptyFile /\ ssts'[ImageCF] = Append(s, m)
  BY DEF BackgroundFlush, IInv, TypeOK, CFs
<1>3. /\ View(ImageCF, d) = ViewIn(m, s, d)
      /\ View(ImageCF, d)' = ViewIn(EmptyFile, Append(s, m), d)
  BY <1>2, ViewIsViewIn
<1>4. EmptyFile[d] = NoRec
  BY DEF EmptyFile
<1>5. CASE m[d] # NoRec
  <2>1. Newest(Append(s, m), d) = Len(s) + 1 /\ Append(s, m)[Len(s) + 1] = m
    BY <1>1, <1>5, NewestAppend
  <2>. QED  BY <1>3, <1>4, <1>5, <2>1 DEF ViewIn
<1>6. CASE m[d] = NoRec
  <2>1. Newest(Append(s, m), d) = Newest(s, d)
    BY <1>1, <1>6, NewestAppend
  <2>2. Newest(s, d) = 0 \/ Newest(s, d) \in 1..Len(s)
    BY <1>1, NewestRange
  <2>3. Newest(s, d) \in 1..Len(s) => Append(s, m)[Newest(s, d)] = s[Newest(s, d)]
    BY <1>1
  <2>. QED  BY <1>3, <1>4, <1>6, <2>1, <2>2, <2>3 DEF ViewIn
<1>. QED  BY <1>5, <1>6

\* A compaction of the images CF keeps, for each key, the value of its
\* newest SST and drops tombstones: a read may then see None where it saw a
\* tombstone, and otherwise sees what it saw before.
LEMMA CompactKeepsShown ==
    ASSUME IInv, Compact(ImageCF), NEW d \in KeySpace
    PROVE  Shown(d)' = Shown(d)
<1> DEFINE m == mem[ImageCF]  s == ssts[ImageCF]  C == Compacted(ImageCF)
           i == Newest(s, d)
<1>1. m \in Files /\ s \in Seq(Files) /\ C \in Files
  BY CompactIInv DEF IInv, TypeOK, CFs, Compacted, Files, Slot, IsEntry
<1>2. C[d] = IF i # 0 /\ IsEntry(s[i][d]) THEN s[i][d] ELSE NoRec
  <2>1. NewestFile(s, d) = i
    BY NewestIsSelectLast
  <2>. QED  BY <2>1 DEF Compacted
<1>3. mem'[ImageCF] = m /\ ssts'[ImageCF] = IF C = EmptyFile THEN << >> ELSE << C >>
  BY DEF Compact, IInv, TypeOK, CFs
<1>4. /\ View(ImageCF, d) = ViewIn(m, s, d)
      /\ View(ImageCF, d)' = ViewIn(m, ssts'[ImageCF], d)
  BY <1>3, ViewIsViewIn
<1>5. CASE m[d] # NoRec
  BY <1>4, <1>5 DEF ViewIn, Shown
<1>6. CASE m[d] = NoRec /\ C[d] # NoRec
  <2>1. C # EmptyFile
    BY <1>6 DEF EmptyFile
  <2>2. Newest(<< C >>, d) = 1
    BY <1>1, <1>6, NewestShort
  <2>3. i # 0 /\ C[d] = s[i][d]
    BY <1>2, <1>6
  <2>. QED  BY <1>3, <1>4, <1>6, <2>1, <2>2, <2>3 DEF ViewIn, Shown
<1>7. CASE m[d] = NoRec /\ C[d] = NoRec
  <2>1. View(ImageCF, d)' = NoRec
    <3>1. Newest(<< >>, d) = 0 /\ Newest(<< C >>, d) = 0
      BY <1>1, <1>7, NewestShort
    <3>. QED  BY <1>3, <1>4, <1>7, <3>1 DEF ViewIn
  <2>2. ~IsEntry(View(ImageCF, d))
    BY <1>2, <1>4, <1>7, SentinelsNotEntries DEF ViewIn
  <2>. QED  BY <2>1, <2>2, SentinelsNotEntries DEF Shown
<1>. QED  BY <1>5, <1>6, <1>7

-----------------------------------------------------------------------------
(* Steps of the trait.                                                     *)

\* save_to_db's put_cf changes the abstract entry of the saved key, and of
\* no other key, since get_cache_key tells keys apart.
LEMMA SaveAbs ==
    ASSUME DigestInjective, IInv, NEW p \in Procs,
           mem' = [mem EXCEPT ![ImageCF][CacheKeyOf(req[p])] = NewEntry(req[p], now)],
           ssts' = ssts
    PROVE  AbsStore' = [AbsStore EXCEPT ![req[p]] = NewEntry(req[p], now)]
<1> DEFINE e == NewEntry(req[p], now)  d0 == CacheKeyOf(req[p])
<1>1. req[p] \in ImageKeys /\ d0 \in KeySpace /\ mem[ImageCF] \in Files
      /\ ssts[ImageCF] \in Seq(Files)
  BY CacheKeyType DEF IInv, TypeOK, CFs
<1>2. mem'[ImageCF] = [mem[ImageCF] EXCEPT ![d0] = e]
  BY DEF IInv, TypeOK, CFs
<1>3. e \in Entry /\ e # NoRec
  BY <1>1 DEF NewEntry, Entry, NoRec, IInv, TypeOK
<1>4. ASSUME NEW k \in ImageKeys
      PROVE  AbsStore'[k] = IF k = req[p] THEN e ELSE AbsStore[k]
  <2>1. /\ View(ImageCF, CacheKeyOf(k)) =
              ViewIn(mem[ImageCF], ssts[ImageCF], CacheKeyOf(k))
        /\ View(ImageCF, CacheKeyOf(k))' =
              ViewIn(mem'[ImageCF], ssts[ImageCF], CacheKeyOf(k))
    BY ViewIsViewIn
  <2>2. CacheKeyOf(k) \in KeySpace
    BY CacheKeyType
  <2>3. CASE k = req[p]
    <3>1. View(ImageCF, CacheKeyOf(k))' = e
      <4>1. mem'[ImageCF][d0] = e
        BY <1>1, <1>2 DEF Files
      <4>. QED  BY <1>3, <2>1, <2>3, <4>1 DEF ViewIn
    <3>. QED  BY <1>3, <2>3, <3>1 DEF AbsStore, IsEntry
  <2>4. CASE k # req[p]
    <3>1. CacheKeyOf(k) # d0
      BY <1>1, <2>4 DEF DigestInjective
    <3>2. View(ImageCF, CacheKeyOf(k))' = View(ImageCF, CacheKeyOf(k))
      BY <1>1, <1>2, <2>1, <2>2, <3>1 DEF ViewIn
    <3>. QED  BY <2>4, <3>2 DEF AbsStore
  <2>. QED  BY <2>3, <2>4
<1>. QED  BY <1>1, <1>4 DEF AbsStore

\* Right after RocksCache::new both CFs are empty: the trait sees no entry.
LEMMA InitAbs == Init => Contract!Init
<1> SUFFICES ASSUME Init PROVE Contract!Init
  OBVIOUS
<1>1. \A d \in KeySpace : View(ImageCF, d) = NoRec
  <2> SUFFICES ASSUME NEW d \in KeySpace PROVE View(ImageCF, d) = NoRec
    OBVIOUS
  <2>1. mem[ImageCF] = EmptyFile /\ ssts[ImageCF] = << >>
    BY DEF Init, CFs
  <2>2. EmptyFile \in Files
    BY DEF EmptyFile, Files, Slot
  <2>3. Newest(<< >>, d) = 0
    BY <2>2, NewestShort
  <2>. QED  BY <2>1, <2>3, ViewIsViewIn DEF ViewIn, EmptyFile
<1>2. AbsStore = [k \in ImageKeys |-> NoRec]
  BY <1>1, CacheKeyType DEF AbsStore
<1>. QED  BY <1>2 DEF Init, Contract!Init, NoRec, Contract!NoRec

-----------------------------------------------------------------------------
(* Each step of RocksCache as a step of the contract.                      *)

\* md_service's request and its early-return rejections do not touch the
\* cache and are the contract's Request and Reject.
LEMMA RequestRef ==
    ASSUME NEW p \in Procs, NEW k \in ImageKeys, Request(p, k)
    PROVE  Contract!Request(p, k)
<1>1. AbsStore' = AbsStore
  BY ImagesFrameAbs DEF Request
<1>. QED  BY <1>1 DEF Request, Contract!Request, NoRec, Contract!NoRec

LEMMA RejectRef ==
    ASSUME NEW p \in Procs, Reject(p)
    PROVE  Contract!Reject(p)
<1>1. AbsStore' = AbsStore
  BY ImagesFrameAbs DEF Reject
<1>. QED  BY <1>1 DEF Reject, Contract!Reject, NoRec, Contract!NoRec

\* A HIT serves the entry get_cf returned, which is the key's abstract
\* entry; a MISS or a RocksDB error is the contract's None.
LEMMA LoadRef ==
    ASSUME IInv, NEW p \in Procs, Load(p)
    PROVE  Contract!Load(p)
<1> DEFINE v == View(ImageCF, CacheKeyOf(req[p]))
<1>1. req[p] \in ImageKeys
  BY DEF IInv, TypeOK
<1>2. AbsStore' = AbsStore /\ UNCHANGED <<now, req>> /\ pc[p] = "load"
  BY ImagesFrameAbs DEF Load
<1>3. IsEntry(v) => AbsStore[req[p]] = v /\ v # NoRec
  BY <1>1, SentinelsNotEntries DEF AbsStore
<1>4. CASE IsEntry(v) /\ served' = [served EXCEPT ![p] = v]
                      /\ pc' = [pc EXCEPT ![p] = "idle"]
  BY <1>2, <1>3, <1>4 DEF Contract!Load, Contract!NoRec, NoRec
<1>5. CASE pc' = [pc EXCEPT ![p] = "fetch"] /\ UNCHANGED served
  BY <1>2, <1>5 DEF Contract!Load
<1>. QED  BY <1>4, <1>5 DEF Load

LEMMA FetchRef ==
    ASSUME NEW p \in Procs, FetchUpstream(p)
    PROVE  Contract!FetchUpstream(p)
<1>1. AbsStore' = AbsStore
  BY ImagesFrameAbs DEF FetchUpstream
<1>. QED  BY <1>1 DEF FetchUpstream, Contract!FetchUpstream

\* save_to_db stores the fresh entry under the key, or fails and changes
\* nothing the trait sees; either way the upstream image is served.
LEMMA SaveRef ==
    ASSUME DigestInjective, IInv, NEW p \in Procs, Save(p)
    PROVE  Contract!Save(p)
<1> DEFINE e == NewEntry(req[p], now)
<1>1. e = [kind |-> "put", put_time |-> now, bytes |-> req[p]]
  BY DEF NewEntry
<1>2. /\ pc[p] = "save" /\ served' = [served EXCEPT ![p] = e]
      /\ pc' = [pc EXCEPT ![p] = "idle"] /\ UNCHANGED <<now, req, ssts>>
  BY DEF Save
<1>3. CASE mem' = [mem EXCEPT ![ImageCF][CacheKeyOf(req[p])] = e]
  <2>1. AbsStore' = [AbsStore EXCEPT ![req[p]] = e]
    BY <1>2, <1>3, SaveAbs
  <2>. QED  BY <1>1, <1>2, <2>1 DEF Contract!Save
<1>4. CASE UNCHANGED mem
  <2>1. AbsStore' = AbsStore
    BY <1>2, <1>4, ImagesFrameAbs
  <2>. QED  BY <1>1, <1>2, <2>1 DEF Contract!Save
<1>. QED  BY <1>3, <1>4 DEF Save

LEMMA TickRef ==
    ASSUME Tick PROVE Contract!Tick
<1>1. AbsStore' = AbsStore
  BY ImagesFrameAbs DEF Tick
<1>. QED  BY <1>1 DEF Tick, Contract!Tick, reqVars

\* The shrink task and RocksDB's work on the default CF write only the
\* default CF: the trait sees no change.  (pop's delete lands there, so
\* shrink never evicts an image.)
LEMMA DefaultStutter ==
    ASSUME IInv,
           \/ \E m \in MinSizes : ShrinkStart(m)
           \/ PopFirst \/ PopNone \/ LoopExit \/ PopDelete \/ ShrinkFlush
           \/ BackgroundFlush(DefaultCF) \/ Compact(DefaultCF)
    PROVE  UNCHANGED Contract!vars
<1>1. ImageCF # DefaultCF /\ mem \in [CFs -> Files] /\ ssts \in [CFs -> Seq(Files)]
  BY DEF ImageCF, DefaultCF, IInv, TypeOK
<1>2. UNCHANGED <<now, pc, req, served>>
  BY DEF ShrinkStart, PopFirst, PopNone, LoopExit, PopDelete, ShrinkFlush,
         BackgroundFlush, Compact, reqVars, shrinkVars
<1>3. mem'[ImageCF] = mem[ImageCF] /\ ssts'[ImageCF] = ssts[ImageCF]
  <2>1. CASE \E m \in MinSizes : ShrinkStart(m)
    BY <2>1 DEF ShrinkStart
  <2>2. CASE PopFirst \/ PopNone \/ LoopExit
    BY <2>2 DEF PopFirst, PopNone, LoopExit
  <2>3. CASE PopDelete
    BY <1>1, <2>3 DEF PopDelete, CFs
  <2>4. CASE ShrinkFlush
    BY <1>1, <2>4 DEF ShrinkFlush, CFs
  <2>5. CASE BackgroundFlush(DefaultCF)
    BY <1>1, <2>5 DEF BackgroundFlush, CFs
  <2>6. CASE Compact(DefaultCF)
    BY <1>1, <2>6 DEF Compact, CFs
  <2>. QED  BY <2>1, <2>2, <2>3, <2>4, <2>5, <2>6
<1>4. AbsStore' = AbsStore
  BY <1>3, ImagesFrameAbs
<1>. QED  BY <1>2, <1>4 DEF Contract!vars

\* RocksDB's flush and compaction of the images CF change its files but not
\* what a read of any key returns, up to a tombstone read as None.
LEMMA ImagesStutter ==
    ASSUME IInv, BackgroundFlush(ImageCF) \/ Compact(ImageCF)
    PROVE  UNCHANGED Contract!vars
<1>1. UNCHANGED <<now, pc, req, served>>
  BY DEF BackgroundFlush, Compact, reqVars
<1>2. \A d \in KeySpace : Shown(d)' = Shown(d)
  <2> SUFFICES ASSUME NEW d \in KeySpace PROVE Shown(d)' = Shown(d)
    OBVIOUS
  <2>1. CASE BackgroundFlush(ImageCF)
    <3>1. View(ImageCF, d)' = View(ImageCF, d)
      BY <2>1, FlushKeepsView
    <3>. QED  BY <3>1 DEF Shown
  <2>2. CASE Compact(ImageCF)
    BY <2>2, CompactKeepsShown
  <2>. QED  BY <2>1, <2>2
<1>3. AbsStore' = AbsStore
  BY <1>2, ShownFrameAbs
<1>. QED  BY <1>1, <1>3 DEF Contract!vars

\* Every step of the RocksDB cache is a step of the ImageCache contract or
\* leaves the contract's state as it was.
LEMMA RefinementStep ==
    ASSUME DigestInjective, IInv, [Next]_vars
    PROVE  [Contract!Next]_Contract!vars
<1>1. CASE \E p \in Procs, k \in ImageKeys : Request(p, k)
  BY <1>1, RequestRef DEF Contract!Next
<1>2. CASE \E p \in Procs : Reject(p)
  BY <1>2, RejectRef DEF Contract!Next
<1>3. CASE \E p \in Procs : Load(p)
  BY <1>3, LoadRef DEF Contract!Next
<1>4. CASE \E p \in Procs : FetchUpstream(p)
  BY <1>4, FetchRef DEF Contract!Next
<1>5. CASE \E p \in Procs : Save(p)
  BY <1>5, SaveRef DEF Contract!Next
<1>6. CASE Tick
  BY <1>6, TickRef DEF Contract!Next
<1>7. CASE \/ \E m \in MinSizes : ShrinkStart(m)
           \/ PopFirst \/ PopNone \/ LoopExit \/ PopDelete \/ ShrinkFlush
  BY <1>7, DefaultStutter DEF Contract!Next
<1>8. CASE \E cf \in CFs : BackgroundFlush(cf) \/ Compact(cf)
  BY <1>8, DefaultStutter, ImagesStutter DEF CFs
<1>9. CASE UNCHANGED vars
  <2>1. AbsStore' = AbsStore
    BY <1>9, ImagesFrameAbs DEF vars
  <2>. QED  BY <1>9, <2>1 DEF vars, Contract!vars
<1>. QED  BY <1>1, <1>2, <1>3, <1>4, <1>5, <1>6, <1>7, <1>8, <1>9 DEF Next

\* The RocksDB cache implements the ImageCache contract, for every value of
\* the constants, provided get_cache_key tells ImageKeys apart: a HIT serves
\* the entry last saved for that very key, a save touches no other key, and
\* shrink, flushes and compactions never change what a load sees.  The
\* inductive invariant is IInv, which gives the types the step lemmas need.
THEOREM Refinement ==
    ASSUME DigestInjective
    PROVE  Spec => ContractSpec
<1>1. Init => IInv /\ Contract!Init
  BY InitIInv, InitAbs
<1>2. IInv /\ [Next]_vars => IInv' /\ [Contract!Next]_Contract!vars
  BY NextIInv, RefinementStep
<1>. QED  BY <1>1, <1>2, PTL DEF Spec, ContractSpec, Contract!Spec

=============================================================================
